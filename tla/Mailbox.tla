------------------------------ MODULE Mailbox ------------------------------
(***************************************************************************)
(* The hardware mailbox at its registers (src/mailbox.c): agx_mailbox_send *)
(* by several threads under the mutex, agx_mailbox_recv by the interrupt   *)
(* thread, and the outbox enable.                                          *)
(*                                                                         *)
(* The hardware is the one of tests/driver_harness.cpp: SEND0 latches the  *)
(* data and the write of SEND1 queues it with the endpoint, or loses it if *)
(* there is no room; RECV0 shows the data of the oldest message and the    *)
(* read of RECV1 removes it.  One step per register access.                *)
(***************************************************************************)
EXTENDS Naturals, Sequences

CONSTANTS
    Senders,      \* the threads that send
    Msgs,         \* the messages, records of endpoint and data
    NoData,       \* what a register or a local holds before it is set
    Cap           \* the room in either hardware queue

ASSUME MailboxAssumption ==
    /\ "none" \notin Senders
    /\ Cap \in Nat \ {0}
    /\ \A m \in Msgs : m = [ep |-> m.ep, data |-> m.data] /\ m.ep \in 0..255

VARIABLES
    lock,                 \* the owner of mbox->lock, or "none"
    pc, arg,              \* per sender: where it is, and with which message
    rpc, msg0,            \* the receiver, and the local of that name
    got,                  \* the last message received
    a2i, i2a,             \* the hardware queues
    send0,                \* the data latched by SEND0
    enable                \* the enable bit of I2A_CONTROL

sendVars == <<lock, pc, arg, a2i, send0>>
recvVars == <<rpc, msg0, got, i2a>>
vars == <<sendVars, recvVars, enable>>

Msg(ep, data) == [ep |-> ep, data |-> data]
NoMsg == Msg(0, NoData)

\* agx_mbox_pack_msg1 and agx_mbox_unpack keep the low byte.
PackMsg1(ep) == ep % 256
Unpack(m0, m1) == Msg(m1 % 256, m0)

Full == Len(a2i) >= Cap
Empty == ~enable \/ i2a = <<>>

Init ==
    /\ lock = "none"
    /\ pc = [p \in Senders |-> "idle"]
    /\ arg = [p \in Senders |-> NoMsg]
    /\ rpc = "idle" /\ msg0 = NoData /\ got = <<>>
    /\ a2i = <<>> /\ i2a = <<>> /\ send0 = NoData
    /\ enable = FALSE

----------------------------------------------------------------------------
\* agx_mailbox_send.

Goto(p, from, to) == pc[p] = from /\ pc' = [pc EXCEPT ![p] = to]

SetArg(p, m) == arg' = [arg EXCEPT ![p] = m]

SendCall(p, m) ==
    /\ Goto(p, "idle", "lock") /\ SetArg(p, m)
    /\ UNCHANGED <<lock, a2i, send0, recvVars, enable>>

\* Variant for the checks: no mutex.
MayEnter(p) == TRUE

MutexFree(p) == lock = "none"

SendLock(p) ==
    /\ Goto(p, "lock", "poll") /\ MutexFree(p)
    /\ lock' = p
    /\ UNCHANGED <<arg, a2i, send0, recvVars, enable>>

\* A2I_CONTROL is read until it does not say FULL...
SendPoll(p) ==
    /\ Goto(p, "poll", "send0") /\ ~Full
    /\ UNCHANGED <<lock, arg, a2i, send0, recvVars, enable>>

\* Variant for the checks: the mutex is kept after a timeout.
SendTimeoutLocked(p) ==
    /\ Goto(p, "poll", "idle") /\ Full /\ SetArg(p, NoMsg)
    /\ UNCHANGED <<lock, a2i, send0, recvVars, enable>>

\* ... or 100 ms have passed and the last read still says so.
SendTimeout(p) ==
    /\ Goto(p, "poll", "idle") /\ Full /\ SetArg(p, NoMsg)
    /\ lock' = "none"
    /\ UNCHANGED <<a2i, send0, recvVars, enable>>

SendData(p) ==
    /\ Goto(p, "send0", "send1")
    /\ send0' = arg[p].data
    /\ UNCHANGED <<lock, arg, a2i, recvVars, enable>>

SendEndpoint(p) ==
    /\ Goto(p, "send1", "unlock")
    /\ a2i' = IF Full THEN a2i ELSE Append(a2i, Msg(PackMsg1(arg[p].ep), send0))
    /\ UNCHANGED <<lock, arg, send0, recvVars, enable>>

SendUnlock(p) ==
    /\ Goto(p, "unlock", "idle") /\ SetArg(p, NoMsg)
    /\ lock' = "none"
    /\ UNCHANGED <<a2i, send0, recvVars, enable>>

----------------------------------------------------------------------------
\* agx_mailbox_recv, -ENODATA included: it then changes nothing.

RecvPoll ==
    /\ rpc = "idle" /\ ~Empty
    /\ rpc' = "recv0"
    /\ UNCHANGED <<sendVars, msg0, got, i2a, enable>>

RecvData ==
    /\ rpc = "recv0"
    /\ msg0' = Head(i2a).data
    /\ rpc' = "recv1"
    /\ UNCHANGED <<sendVars, got, i2a, enable>>

RecvEndpoint ==
    /\ rpc = "recv1"
    /\ got' = <<Unpack(msg0, Head(i2a).ep)>>
    /\ i2a' = Tail(i2a)
    /\ rpc' = "idle" /\ msg0' = NoData
    /\ UNCHANGED <<sendVars, enable>>

\* agx_mailbox_set_outbox_enable, called once, before the interrupt exists.
SetOutboxEnable ==
    /\ ~enable /\ enable' = TRUE
    /\ UNCHANGED <<sendVars, recvVars>>

----------------------------------------------------------------------------
\* The coprocessor: it takes and puts whole messages at any pace.

FwTake ==
    /\ a2i # <<>> /\ a2i' = Tail(a2i)
    /\ UNCHANGED <<lock, pc, arg, send0, recvVars, enable>>

FwPut(m) ==
    /\ Len(i2a) < Cap /\ i2a' = Append(i2a, m)
    /\ UNCHANGED <<sendVars, rpc, msg0, got, enable>>

SendProceed(p) ==
    \/ SendPoll(p) \/ SendTimeout(p) \/ SendData(p) \/ SendEndpoint(p)
    \/ SendUnlock(p)

Next ==
    \/ \E p \in Senders :
          (\E m \in Msgs : SendCall(p, m)) \/ SendLock(p) \/ SendProceed(p)
    \/ RecvPoll \/ RecvData \/ RecvEndpoint \/ SetOutboxEnable
    \/ FwTake \/ \E m \in Msgs : FwPut(m)

Spec == Init /\ [][Next]_vars

\* The scheduler runs a thread that has the mutex, and the mutex goes to
\* every thread that keeps waiting for it.  The coprocessor owes nothing: the
\* poll ends by its time limit.
FairSpec ==
    /\ Spec
    /\ \A p \in Senders : WF_vars(SendProceed(p)) /\ SF_vars(SendLock(p))

----------------------------------------------------------------------------
\* The refinement mapping: a call is under way from its start to the write of
\* SEND1, and the queues are the hardware's.
Call(p) ==
    CASE pc[p] = "idle" -> <<"idle">>
      [] pc[p] = "unlock" -> <<"sent">>
      [] OTHER -> <<"busy", arg[p]>>

Queues == INSTANCE MailboxQueues WITH call <- [p \in Senders |-> Call(p)]

\* The registers and the mutex implement the two queues: each message arrives
\* whole, once and in the order of the calls' effects, however the two writes of
\* one sender fall between those of another (lines 43-44) and the two reads
\* between the coprocessor's writes (lines 59-60).
ImplementsQueues == Queues!Spec

\* driver_harness.cpp:536 - no send overruns the queue: the room found at line 34 is
\* still there when the message is written at line 44.
NoOverrun == \A p \in Senders : pc[p] \in {"send0", "send1"} => ~Full

\* Every call of agx_mailbox_send returns, even if the coprocessor never reads
\* its inbox and other threads keep sending.
SendReturns == \A p \in Senders : pc[p] = "lock" ~> pc[p] = "idle"
============================================================================
