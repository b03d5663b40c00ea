--------------------------- MODULE MailboxQueues ---------------------------
(***************************************************************************)
(* What the mailbox (src/mailbox.c) promises its users: a bounded queue in *)
(* each direction.  A send puts its whole message at the end of the queue  *)
(* at one moment of the call, or fails because the queue is full; a        *)
(* receive takes the oldest message.  This is the mailbox that RTBuddy     *)
(* uses.                                                                   *)
(***************************************************************************)
EXTENDS Naturals, Sequences

CONSTANTS
    Senders,   \* the threads that call agx_mailbox_send
    Msgs,      \* the messages, records of endpoint and data
    Cap        \* the room in either queue

VARIABLES
    a2i, i2a,  \* the queues to and from the coprocessor
    call,      \* per sender: the message of the call under way, or its result
    got        \* what the last successful receive returned, or <<>>

queueVars == <<a2i, i2a, call, got>>

Init ==
    /\ a2i = <<>> /\ i2a = <<>> /\ got = <<>>
    /\ call = [p \in Senders |-> <<"idle">>]

Begin(p, m) ==
    /\ call[p][1] = "idle"
    /\ call' = [call EXCEPT ![p] = <<"busy", m>>]
    /\ UNCHANGED <<a2i, i2a, got>>

\* The call takes effect.
Put(p) ==
    /\ call[p][1] = "busy" /\ Len(a2i) < Cap
    /\ a2i' = Append(a2i, call[p][2])
    /\ call' = [call EXCEPT ![p] = <<"sent">>]
    /\ UNCHANGED <<i2a, got>>

\* -ETIMEDOUT.
TimeOut(p) ==
    /\ call[p][1] = "busy" /\ Len(a2i) >= Cap
    /\ call' = [call EXCEPT ![p] = <<"idle">>]
    /\ UNCHANGED <<a2i, i2a, got>>

Return(p) ==
    /\ call[p][1] = "sent"
    /\ call' = [call EXCEPT ![p] = <<"idle">>]
    /\ UNCHANGED <<a2i, i2a, got>>

Receive ==
    /\ i2a # <<>>
    /\ got' = <<Head(i2a)>> /\ i2a' = Tail(i2a)
    /\ UNCHANGED <<a2i, call>>

\* The coprocessor's ends.
FwTake ==
    /\ a2i # <<>> /\ a2i' = Tail(a2i)
    /\ UNCHANGED <<i2a, call, got>>

FwPut(m) ==
    /\ Len(i2a) < Cap /\ i2a' = Append(i2a, m)
    /\ UNCHANGED <<a2i, call, got>>

Next ==
    \/ \E p \in Senders :
          (\E m \in Msgs : Begin(p, m)) \/ Put(p) \/ TimeOut(p) \/ Return(p)
    \/ Receive \/ FwTake \/ \E m \in Msgs : FwPut(m)

Spec == Init /\ [][Next]_queueVars
============================================================================
