--------------------------- MODULE MailboxProofs ---------------------------
(***************************************************************************)
(* Proofs about Mailbox for any set of senders, any messages and any size  *)
(* of the hardware queues: no send overruns the inbox, and the registers   *)
(* under the mutex implement the two queues of MailboxQueues.              *)
(***************************************************************************)
EXTENDS Mailbox, SequenceTheorems, TLAPS

SendTypes ==
    /\ pc \in [Senders -> {"idle", "lock", "poll", "send0", "send1", "unlock"}]
    /\ DOMAIN arg = Senders
    /\ \A p \in Senders : pc[p] # "idle" => arg[p] \in Msgs
    /\ a2i \in Seq(Msgs)

\* The sender past the lock and before the unlock owns the mutex.
Mutex == \A p \in Senders : pc[p] \notin {"idle", "lock"} => lock = p

\* The data register holds what the sender between its two writes wrote.
Latched == \A p \in Senders : pc[p] = "send1" => send0 = arg[p].data

\* Only the receiver removes from the outbox, so what it has seen stays.
RecvAgrees ==
    /\ i2a \in Seq(Msgs) /\ rpc \in {"idle", "recv0", "recv1"}
    /\ rpc # "idle" => i2a # <<>>
    /\ rpc = "recv1" => msg0 = Head(i2a).data

\* The inductive invariant, in its two halves.
SendInv == SendTypes /\ Mutex /\ Latched /\ NoOverrun
MailboxInv == SendInv /\ RecvAgrees

USE MailboxAssumption

\* Nobody holds the mutex and the queues are empty in the beginning.
LEMMA InitInv == Init => MailboxInv
BY DEF Init, MailboxInv, SendInv, SendTypes, Mutex, Latched, RecvAgrees, NoOverrun

\* An endpoint fits its byte.
LEMMA PackMsg1Id == \A ep \in 0..255 : PackMsg1(ep) = ep
BY DEF PackMsg1

\* Between its writes a sender's message is the one the hardware will queue.
LEMMA Whole ==
    ASSUME MailboxInv, NEW p \in Senders, pc[p] = "send1"
    PROVE  arg[p] \in Msgs /\ Msg(PackMsg1(arg[p].ep), send0) = arg[p]
<1>1. arg[p] \in Msgs /\ send0 = arg[p].data
  BY DEF MailboxInv, SendInv, SendTypes, Latched
<1>2. arg[p] = [ep |-> arg[p].ep, data |-> arg[p].data] /\ arg[p].ep \in 0..255
  BY <1>1
<1>3. PackMsg1(arg[p].ep) = arg[p].ep
  BY <1>2, PackMsg1Id
<1> QED
  BY <1>1, <1>2, <1>3 DEF Msg

\* Every step but the receiver's and the coprocessor's leaves the receiving
\* side alone; the coprocessor only appends.
LEMMA RecvStep == ASSUME MailboxInv, [Next]_vars PROVE RecvAgrees'
<1> USE DEF MailboxInv, RecvAgrees, vars, sendVars, recvVars
<1>1. UNCHANGED recvVars => RecvAgrees'
  OBVIOUS
<1>2. RecvPoll => RecvAgrees'
  BY DEF RecvPoll, Empty
<1>3. RecvData => RecvAgrees'
  BY DEF RecvData
<1>4. RecvEndpoint => RecvAgrees'
  BY DEF RecvEndpoint
<1>5. ASSUME NEW m \in Msgs, FwPut(m) PROVE RecvAgrees'
  <2>1. i2a' \in Seq(Msgs) /\ i2a' # <<>>
    BY <1>5 DEF FwPut
  <2>2. i2a # <<>> => Head(i2a') = Head(i2a)
    BY <1>5 DEF FwPut
  <2> QED
    BY <2>1, <2>2, <1>5 DEF FwPut
<1>6. [Next]_vars => UNCHANGED recvVars \/ RecvPoll \/ RecvData \/ RecvEndpoint
                       \/ \E m \in Msgs : FwPut(m)
  BY DEF Next, SendProceed, SendCall, SendLock, SendPoll, SendTimeout, SendData,
         SendEndpoint, SendUnlock, SetOutboxEnable, FwTake
<1> QED
  BY <1>1, <1>2, <1>3, <1>4, <1>5, <1>6

\* The receiving side's steps and the coprocessor's appends leave the sending
\* side alone.
LEMMA SendStep == ASSUME MailboxInv, [Next]_vars PROVE SendInv'
<1> USE DEF MailboxInv, SendInv, SendTypes, Mutex, Latched, NoOverrun, Full, Goto, SetArg
<1>1. UNCHANGED sendVars => SendInv'
  BY DEF sendVars
<1>2. ASSUME NEW p \in Senders, NEW m \in Msgs, SendCall(p, m) PROVE SendInv'
  BY <1>2 DEF SendCall
<1>3. ASSUME NEW p \in Senders, SendLock(p) PROVE SendInv'
  BY <1>3 DEF SendLock, MutexFree
<1>4. ASSUME NEW p \in Senders, SendPoll(p) PROVE SendInv'
  BY <1>4 DEF SendPoll
<1>5. ASSUME NEW p \in Senders, SendTimeout(p) PROVE SendInv'
  BY <1>5 DEF SendTimeout
<1>6. ASSUME NEW p \in Senders, SendData(p) PROVE SendInv'
  BY <1>6 DEF SendData
<1>7. ASSUME NEW p \in Senders, SendEndpoint(p) PROVE SendInv'
  <2>1. Msg(PackMsg1(arg[p].ep), send0) = arg[p] /\ arg[p] \in Msgs
    BY <1>7, Whole DEF SendEndpoint
  <2>2. a2i' \in Seq(Msgs)
    BY <1>7, <2>1 DEF SendEndpoint
  <2> QED
    BY <1>7, <2>2 DEF SendEndpoint
<1>8. ASSUME NEW p \in Senders, SendUnlock(p) PROVE SendInv'
  BY <1>8 DEF SendUnlock
<1>9. FwTake => SendInv'
  <2> SUFFICES ASSUME FwTake PROVE SendInv'
    OBVIOUS
  <2>1. a2i' \in Seq(Msgs) /\ Len(a2i') = Len(a2i) - 1 /\ Len(a2i) \in Nat
    BY DEF FwTake
  <2> QED
    BY <2>1 DEF FwTake
<1>10. \/ UNCHANGED sendVars \/ FwTake
       \/ \E p \in Senders : (\E m \in Msgs : SendCall(p, m)) \/ SendLock(p) \/ SendProceed(p)
  BY DEF Next, RecvPoll, RecvData, RecvEndpoint, SetOutboxEnable, FwPut, vars
<1> HIDE DEF SendInv, MailboxInv
<1> QED
  BY <1>1, <1>2, <1>3, <1>4, <1>5, <1>6, <1>7, <1>8, <1>9, <1>10 DEF SendProceed

\* The inductive invariant holds of agx_mailbox_send and agx_mailbox_recv.
THEOREM MailboxInvHolds == Spec => []MailboxInv
<1>1. MailboxInv /\ [Next]_vars => MailboxInv'
  BY RecvStep, SendStep DEF MailboxInv
<1> QED
  BY InitInv, <1>1, PTL DEF Spec

\* No send of any number of threads overruns a hardware queue of any size.
THEOREM NoOverrunHolds == Spec => []NoOverrun
<1>1. MailboxInv => NoOverrun
  BY DEF MailboxInv, SendInv
<1> QED
  BY MailboxInvHolds, <1>1, PTL

----------------------------------------------------------------------------
\* The refinement.  calls is the abstract variable call.
calls == [p \in Senders |-> Call(p)]

\* A step that changes one sender's place changes that sender's call only.
LEMMA CallUpdate ==
    ASSUME NEW p \in Senders, NEW c, Call(p)' = c,
           \A q \in Senders \ {p} : pc'[q] = pc[q] /\ arg'[q] = arg[q]
    PROVE  calls' = [calls EXCEPT ![p] = c]
BY DEF calls, Call

\* A step that leaves every sender's call as it is.
LEMMA CallSame ==
    ASSUME \A q \in Senders : Call(q)' = Call(q)
    PROVE  calls' = calls
BY DEF calls

\* Empty registers are empty queues, with no call under way.
LEMMA InitRefines == Init => Queues!Init
BY DEF Init, Queues!Init, Call

\* Each step of the registers is a step of the queues or leaves them alone:
\* the write of SEND1 is where a send takes effect, the read of RECV1 where a
\* receive does.
LEMMA StepRefines ==
    ASSUME MailboxInv, [Next]_vars
    PROVE  [Queues!Next]_(Queues!queueVars)
<1> USE DEF MailboxInv, SendInv, SendTypes
<1>1. ASSUME NEW p \in Senders, NEW m \in Msgs, SendCall(p, m) PROVE Queues!Begin(p, m)
  <2>1. calls' = [calls EXCEPT ![p] = <<"busy", m>>]
    BY <1>1, CallUpdate DEF SendCall, Goto, SetArg, Call
  <2> QED
    BY <1>1, <2>1 DEF SendCall, Goto, Queues!Begin, calls, Call, recvVars
<1>2. ASSUME NEW p \in Senders, SendTimeout(p) PROVE Queues!TimeOut(p)
  <2>1. calls' = [calls EXCEPT ![p] = <<"idle">>]
    BY <1>2, CallUpdate DEF SendTimeout, Goto, SetArg, Call
  <2> QED
    BY <1>2, <2>1 DEF SendTimeout, Goto, Full, Queues!TimeOut, calls, Call, recvVars
<1>3. ASSUME NEW p \in Senders, SendEndpoint(p) PROVE Queues!Put(p)
  <2>1. calls' = [calls EXCEPT ![p] = <<"sent">>]
    BY <1>3, CallUpdate DEF SendEndpoint, Goto, Call
  <2>2. calls[p] = <<"busy", arg[p]>>
    BY <1>3 DEF SendEndpoint, Goto, calls, Call
  <2>3. ~Full /\ a2i' = Append(a2i, arg[p])
    BY <1>3, Whole DEF SendEndpoint, Goto, NoOverrun
  <2>4. Len(a2i) < Cap
    BY <2>3 DEF Full
  <2> QED
    BY <1>3, <2>1, <2>2, <2>3, <2>4 DEF SendEndpoint, Queues!Put, calls, recvVars
<1>4. ASSUME NEW p \in Senders, SendUnlock(p) PROVE Queues!Return(p)
  <2>1. calls' = [calls EXCEPT ![p] = <<"idle">>]
    BY <1>4, CallUpdate DEF SendUnlock, Goto, SetArg, Call
  <2> QED
    BY <1>4, <2>1 DEF SendUnlock, Goto, Queues!Return, calls, Call, recvVars
<1>5. ASSUME NEW p \in Senders, SendLock(p) \/ SendPoll(p) \/ SendData(p)
      PROVE  UNCHANGED Queues!queueVars
  <2>1. calls' = calls
    BY <1>5, CallSame DEF SendLock, SendPoll, SendData, Goto, Call
  <2> QED
    BY <1>5, <2>1 DEF SendLock, SendPoll, SendData, Queues!queueVars, calls, recvVars
<1>6. RecvEndpoint => Queues!Receive
  <2> SUFFICES ASSUME RecvEndpoint PROVE Queues!Receive
    OBVIOUS
  <2>1. i2a # <<>> /\ Head(i2a) \in Msgs /\ msg0 = Head(i2a).data
    BY DEF RecvEndpoint, RecvAgrees
  <2>2. Unpack(msg0, Head(i2a).ep) = Head(i2a)
    BY <2>1, PackMsg1Id DEF Unpack, Msg, PackMsg1
  <2>3. calls' = calls
    BY CallSame DEF RecvEndpoint, sendVars, Call
  <2> QED
    BY <2>1, <2>2, <2>3 DEF RecvEndpoint, Queues!Receive, calls, sendVars
<1>7. FwTake => Queues!FwTake
  BY CallSame DEF FwTake, Queues!FwTake, Call, calls, recvVars
<1>8. ASSUME NEW m \in Msgs, FwPut(m) PROVE Queues!FwPut(m)
  BY <1>8, CallSame DEF FwPut, Queues!FwPut, Call, calls, sendVars
<1>9. RecvPoll \/ RecvData \/ SetOutboxEnable \/ UNCHANGED vars => UNCHANGED Queues!queueVars
  BY CallSame DEF RecvPoll, RecvData, SetOutboxEnable, vars, sendVars, recvVars,
                  Queues!queueVars, Call, calls
<1> HIDE DEF MailboxInv
<1> QED
  BY <1>1, <1>2, <1>3, <1>4, <1>5, <1>6, <1>7, <1>8, <1>9 DEF Next, SendProceed, Queues!Next

\* The registers and the mutex implement the queues, whatever the interleaving
\* of any number of senders, the receiver and the coprocessor.
THEOREM ImplementsQueuesHolds == Spec => ImplementsQueues
<1>1. MailboxInv /\ [Next]_vars => [Queues!Next]_(Queues!queueVars)
  BY StepRefines
<1> QED
  BY MailboxInvHolds, InitRefines, <1>1, PTL DEF Spec, ImplementsQueues, Queues!Spec
============================================================================
