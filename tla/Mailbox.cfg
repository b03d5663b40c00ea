SPECIFICATION FairSpec
CONSTANTS
    Senders = {s1, s2, s3}
    Msgs <- TwoMsgs
    NoData = 0
    Cap = 2
INVARIANTS NoOverrun
PROPERTIES ImplementsQueues SendReturns
