----------------------- MODULE RTBuddyFirmwareProofs ------------------------
(***************************************************************************)
(* Proofs about RTBuddyFirmware, the driver against the coprocessor that   *)
(* follows the protocol: every announced system endpoint is started, and   *)
(* while nothing times out or fails, removal quiesces the AP, then sends   *)
(* the IOP to sleep, and only then stops its CPU.                          *)
(*                                                                         *)
(* All of it rests on counting messages.  A request, the message on its    *)
(* way to the coprocessor, the answer on its way back and the flag the     *)
(* handler has still to store are places where one token can be, and at    *)
(* most one of them holds it: an acknowledgement is never the one of an    *)
(* earlier request.                                                        *)
(***************************************************************************)
EXTENDS RTBuddyFirmware, RTBuddyProofs

USE FwSystemAssumption
USE DEF rtkVars, powerVars, flagVars, handlerVars, wireVars, irqVars, hwVars, upVars, memVars

----------------------------------------------------------------------------
\* The messages of this protocol.

HelloMsg == In(MGMT, "HELLO", 11, 12, {})
EpmapMsg(last) ==
    In(MGMT, "EPMAP", last, 0, IF last = 0 THEN FwSystemEndpoints ELSE {FIRMWARE, DOORBELL})
IopAckMsg(state) == In(MGMT, "IOP_PWR_ACK", state, 0, {})
ApAckMsg(state) == In(MGMT, "AP_PWR_ACK", state, 0, {})
RequestMsg(ep) == In(ep, "BUFFER_REQUEST", 8192, 0, {})

InKnown ==
    {HelloMsg, EpmapMsg(0), EpmapMsg(1), IopAckMsg(PWR_ON), IopAckMsg(PWR_SLEEP),
     ApAckMsg(PWR_ON), ApAckMsg(PWR_QUIESCED)}
    \cup {RequestMsg(ep) : ep \in BufferEndpoints}

HelloReply == Out(MGMT, "HELLO_REPLY", 12)
EpmapReply(last) == Out(MGMT, "EPMAP_REPLY", last)
LastReply == EpmapReply(1)
QuiesceMsg == Out(MGMT, "AP_PWR", PWR_QUIESCED)
BufferMsg(ep) == Out(ep, "BUFFER", 0)

\* What a handler may have left to send, and what may be on the wire.
RepliesKnown ==
    {HelloReply, EpmapReply(0), LastReply}
    \cup {StartMsg(ep) : ep \in SystemEndpoints} \cup {BufferMsg(ep) : ep \in BufferEndpoints}
OutKnown ==
    RepliesKnown \cup {InitMsg, SleepMsg, ApOnMsg, QuiesceMsg}
    \cup {StartMsg(ep) : ep \in {FIRMWARE, DOORBELL}} \cup {Out(ep, "GPU", 0) : ep \in GpuEndpoints}

----------------------------------------------------------------------------
\* Tokens in a queue.

NoneIn(q, T) == \A k \in 1..Len(q) : q[k] \notin T
OneIn(q, T) == \A j, k \in 1..Len(q) : q[j] \in T /\ q[k] \in T => j = k

----------------------------------------------------------------------------
\* The invariant of the handshake; it needs no assumption on time.

Wires ==
    /\ i2a \in Seq(InKnown) /\ a2i \in Seq(OutKnown) /\ tosend \subseteq RepliesKnown
    /\ ipc \in {"idle", "drain", "rx"}
    /\ ipc # "rx" => tosend = {} /\ tostore = "none"
    /\ fw_hello \in BOOLEAN /\ epmap_finished \in BOOLEAN /\ pending_iop \in BOOLEAN

\* HELLO, its reply, the endpoint maps and their replies call forth each other.
ShakeIn == {HelloMsg, EpmapMsg(0), EpmapMsg(1)}
ShakeOut == {HelloReply, EpmapReply(0), LastReply}
EarlyOut == {HelloReply, EpmapReply(0)}

OneShake ==
    \/ OneIn(i2a, ShakeIn) /\ NoneIn(a2i, ShakeOut) /\ tosend \cap ShakeOut = {}
    \/ NoneIn(i2a, ShakeIn) /\ OneIn(a2i, ShakeOut) /\ tosend \cap ShakeOut = {}
    \/ /\ NoneIn(i2a, ShakeIn) /\ NoneIn(a2i, ShakeOut)
       /\ \A m, n \in tosend \cap ShakeOut : m = n

NoShake ==
    NoneIn(i2a, ShakeIn) /\ NoneIn(a2i, ShakeOut) /\ tosend \cap ShakeOut = {}

Handshake ==
    /\ OneShake
    /\ ~fw_hello => NoShake /\ LastReply \notin sent
    /\ epmap_finished => fw_hello /\ NoShake
    /\ LastReply \in sent =>
          NoneIn(i2a, ShakeIn) /\ NoneIn(a2i, EarlyOut) /\ tosend \cap ShakeOut = {}

\* The last endpoint map was handled, or is being handled.
EpmapHandled ==
    /\ epmap_done =>
          /\ LastReply \in sent /\ {FIRMWARE, DOORBELL} \subseteq endpoints
          /\ \A ep \in endpoints \cap SystemEndpoints : StartMsg(ep) \in sent
    /\ tostore = "epmap_done" =>
          /\ LastReply \in sent \cup tosend /\ {FIRMWARE, DOORBELL} \subseteq endpoints
          /\ \A ep \in endpoints \cap SystemEndpoints : StartMsg(ep) \in sent \cup tosend

ShakeInv == Wires /\ Handshake /\ EpmapHandled

----------------------------------------------------------------------------
\* The invariant of a run in which nothing times out or fails.

\* The threads: the CPU runs from boot to removal, and a handler runs only in
\* between; the driver never takes the fail path.
Threads ==
    /\ pc \in Pcs \ {"fail"} /\ error = "none"
    /\ waiter \in {"test", "asleep", "passed"}
    /\ waiter # "test" => pc \in WaitPcs
    /\ waiter = "passed" => Done(pc)
    /\ cpu_running <=> pc \notin {"new", "run", "free", "put", "gone"}
    /\ irq_requested => pc \notin {"new", "run", "send_init", "req_irq", "sync_irq",
                                   "stop", "free", "put", "gone"}
    /\ ipc # "idle" => irq_requested \/ pc = "sync_irq"
    /\ pc \in AfterEpmap \cup RemovePcs \cup {"gone"} => epmap_done

\* A buffer endpoint asks once: it is started, asks, and is served.
OneRequest(ep) ==
    /\ StartMsg(ep) \in tosend =>
          NoneIn(a2i, {StartMsg(ep)}) /\ ep \notin fw_asking /\ NoneIn(i2a, {RequestMsg(ep)})
          /\ ep \notin shmem
    /\ OneIn(a2i, {StartMsg(ep)})
    /\ \/ NoneIn(a2i, {StartMsg(ep)})
       \/ ep \notin fw_asking /\ NoneIn(i2a, {RequestMsg(ep)}) /\ ep \notin shmem
    /\ ep \in fw_asking => NoneIn(i2a, {RequestMsg(ep)}) /\ ep \notin shmem
    /\ OneIn(i2a, {RequestMsg(ep)})
    /\ NoneIn(i2a, {RequestMsg(ep)}) \/ ep \notin shmem

NoRequest(ep) ==
    /\ StartMsg(ep) \notin tosend /\ NoneIn(a2i, {StartMsg(ep)}) /\ ep \notin fw_asking
    /\ NoneIn(i2a, {RequestMsg(ep)}) /\ ep \notin shmem

Requests ==
    \A ep \in BufferEndpoints :
        /\ OneRequest(ep)
        /\ LastReply \notin sent /\ tostore # "epmap_done" => NoRequest(ep)

\* The power of the IOP.  INIT is answered only after the handshake.
IopOut == {InitMsg, SleepMsg}
IopIn == {IopAckMsg(PWR_ON), IopAckMsg(PWR_SLEEP)}
Held == pending_iop /\ ~epmap_finished

IopQuiet ==
    NoneIn(a2i, IopOut) /\ NoneIn(i2a, IopIn) /\ ~Held /\ tostore # "iop_acked"

OneIop ==
    \/ OneIn(a2i, IopOut) /\ NoneIn(i2a, IopIn) /\ ~Held /\ tostore # "iop_acked"
    \/ NoneIn(a2i, IopOut) /\ OneIn(i2a, IopIn) /\ ~Held /\ tostore # "iop_acked"
    \/ NoneIn(a2i, IopOut) /\ NoneIn(i2a, IopIn) /\ ~(Held /\ tostore = "iop_acked")

IopWaitPcs == {"req_irq", "wait_epmap", "wait_iop"}
IopOnPcs == {"check_iop", "clear_ap", "send_ap", "wait_ap", "check_run", "start_fw",
             "send_fw", "start_db", "send_db", "report", "up", "shutdown", "quiesce_ap",
             "send_quiesce", "wait_quiesce", "sleep_iop", "send_sleep"}
AsleepPcs == {"free_irq", "sync_irq", "stop", "free", "put", "gone"}

Iop ==
    /\ OneIop
    /\ iop_acked => IopQuiet
    /\ pc \in {"new", "run", "send_init"} => IopQuiet
    /\ pc \in {"send_init", "send_sleep"} => ~iop_acked
    /\ pc \in IopWaitPcs =>
          /\ NoneIn(a2i, {SleepMsg}) /\ NoneIn(i2a, {IopAckMsg(PWR_SLEEP)})
          /\ iop_acked \/ tostore = "iop_acked" => iop_power = PWR_ON
    /\ pc \in IopOnPcs => IopQuiet /\ iop_power = PWR_ON
    /\ pc = "wait_sleep" =>
          /\ NoneIn(a2i, {InitMsg}) /\ NoneIn(i2a, {IopAckMsg(PWR_ON)}) /\ ~Held
          /\ iop_acked \/ tostore = "iop_acked" => iop_power = PWR_SLEEP
    /\ pc \in AsleepPcs => IopQuiet /\ iop_power = PWR_SLEEP
    /\ SleepMsg \in sent => pc \in AsleepPcs \cup {"wait_sleep"}

\* The power of the AP.
ApOut == {ApOnMsg, QuiesceMsg}
ApIn == {ApAckMsg(PWR_ON), ApAckMsg(PWR_QUIESCED)}

ApQuiet == NoneIn(a2i, ApOut) /\ NoneIn(i2a, ApIn) /\ tostore # "ap_acked"

OneAp ==
    \/ OneIn(a2i, ApOut) /\ NoneIn(i2a, ApIn) /\ tostore # "ap_acked"
    \/ NoneIn(a2i, ApOut) /\ OneIn(i2a, ApIn) /\ tostore # "ap_acked"
    \/ NoneIn(a2i, ApOut) /\ NoneIn(i2a, ApIn)

BeforeApPcs == {"new", "run", "send_init", "req_irq", "wait_epmap", "wait_iop",
                "check_iop", "clear_ap", "send_ap"}
ApOnPcs == {"check_run", "start_fw", "send_fw", "start_db", "send_db", "report", "up",
            "shutdown", "quiesce_ap", "send_quiesce"}
QuiescedPcs == {"sleep_iop", "send_sleep", "wait_sleep"} \cup AsleepPcs

Ap ==
    /\ OneAp
    /\ ap_acked => ApQuiet
    /\ pc \in BeforeApPcs => ApQuiet
    /\ pc \in {"send_ap", "send_quiesce"} => ~ap_acked
    /\ pc = "wait_ap" =>
          /\ NoneIn(a2i, {QuiesceMsg}) /\ NoneIn(i2a, {ApAckMsg(PWR_QUIESCED)})
          /\ ap_acked \/ tostore = "ap_acked" => ap_power = PWR_ON
    /\ pc \in ApOnPcs => ApQuiet /\ ap_power = PWR_ON
    /\ pc = "wait_quiesce" =>
          /\ NoneIn(a2i, {ApOnMsg}) /\ NoneIn(i2a, {ApAckMsg(PWR_ON)})
          /\ ap_acked \/ tostore = "ap_acked" => ap_power = PWR_QUIESCED
    /\ pc \in QuiescedPcs => ApQuiet /\ ap_power = PWR_QUIESCED

PowerInv == ShakeInv /\ Threads /\ Requests /\ Iop /\ Ap

----------------------------------------------------------------------------
\* Tokens and queues.

\* A queue without a token holds at most one.
LEMMA NoneIsOne == ASSUME NEW q, NEW T, NoneIn(q, T) PROVE OneIn(q, T)
BY DEF NoneIn, OneIn

\* Fewer tokens to look for.
LEMMA NoneOfFewer ==
    ASSUME NEW q, NEW T, NEW U \in SUBSET T, NoneIn(q, T) PROVE NoneIn(q, U)
BY DEF NoneIn

\* A message comes in at the end.
LEMMA AppendTokens ==
    ASSUME NEW S, NEW q \in Seq(S), NEW m \in S, NEW T
    PROVE  /\ Append(q, m) \in Seq(S)
           /\ NoneIn(q, T) /\ m \notin T => NoneIn(Append(q, m), T)
           /\ NoneIn(q, T) => OneIn(Append(q, m), T)
           /\ OneIn(q, T) /\ m \notin T => OneIn(Append(q, m), T)
<1>1. /\ Append(q, m) \in Seq(S) /\ Len(Append(q, m)) = Len(q) + 1 /\ Len(q) \in Nat
      /\ \A k \in 1..Len(q) : Append(q, m)[k] = q[k]
      /\ Append(q, m)[Len(q) + 1] = m
  OBVIOUS
<1> PICK r \in Seq(S) : r = Append(q, m)
  BY <1>1
<1>2. /\ Len(r) = Len(q) + 1 /\ \A k \in 1..Len(q) : r[k] = q[k]
      /\ r[Len(q) + 1] = m
  BY <1>1, Zenon
<1>3. PICK n \in Nat : n = Len(q)
  BY <1>1
<1>4. \A k \in 1..(n + 1) : k = n + 1 \/ k \in 1..n
  BY <1>3
<1>5. /\ NoneIn(q, T) <=> \A k \in 1..n : r[k] \notin T
      /\ OneIn(q, T) <=> \A j, k \in 1..n : r[j] \in T /\ r[k] \in T => j = k
      /\ r[n + 1] = m
  BY <1>2, <1>3, Zenon DEF NoneIn, OneIn
<1>6. /\ NoneIn(r, T) <=> \A k \in 1..(n + 1) : r[k] \notin T
      /\ OneIn(r, T) <=> \A j, k \in 1..(n + 1) : r[j] \in T /\ r[k] \in T => j = k
  BY <1>2, <1>3, Zenon DEF NoneIn, OneIn
<1> QED  BY <1>4, <1>5, <1>6, Zenon

\* A message leaves at the front.
LEMMA TailTokens ==
    ASSUME NEW S, NEW q \in Seq(S), q # <<>>, NEW T
    PROVE  /\ Tail(q) \in Seq(S) /\ Head(q) \in S
           /\ NoneIn(q, T) => NoneIn(Tail(q), T) /\ Head(q) \notin T
           /\ OneIn(q, T) => OneIn(Tail(q), T)
           /\ OneIn(q, T) /\ Head(q) \in T => NoneIn(Tail(q), T)
<1>1. /\ Tail(q) \in Seq(S) /\ Len(Tail(q)) = Len(q) - 1 /\ Len(q) \in Nat \ {0}
      /\ \A k \in 1..(Len(q) - 1) : Tail(q)[k] = q[k + 1]
      /\ Head(q) = q[1] /\ Head(q) \in S
  OBVIOUS
<1> PICK r \in Seq(S) : r = Tail(q)
  BY <1>1
<1>2. Len(r) = Len(q) - 1 /\ \A k \in 1..(Len(q) - 1) : r[k] = q[k + 1]
  BY <1>1, Zenon
<1>3. PICK n \in Nat : n = Len(q) - 1 /\ n + 1 = Len(q)
  <2>1. Len(q) - 1 \in Nat /\ (Len(q) - 1) + 1 = Len(q)
    BY <1>1
  <2> QED  BY <2>1, Zenon
<1>4. /\ 1 \in 1..(n + 1) /\ \A k \in 1..n : k + 1 \in 1..(n + 1) /\ k + 1 # 1
      /\ \A j, k \in 1..n : j + 1 = k + 1 => j = k
  BY <1>3
<1>5. /\ NoneIn(q, T) <=> \A k \in 1..(n + 1) : q[k] \notin T
      /\ OneIn(q, T) <=> \A j, k \in 1..(n + 1) : q[j] \in T /\ q[k] \in T => j = k
  BY <1>3, Zenon DEF NoneIn, OneIn
<1>6. /\ NoneIn(r, T) <=> \A k \in 1..n : q[k + 1] \notin T
      /\ OneIn(r, T) <=> \A j, k \in 1..n : q[j + 1] \in T /\ q[k + 1] \in T => j = k
  BY <1>2, <1>3 DEF NoneIn, OneIn
<1> QED  BY <1>1, <1>4, <1>5, <1>6

\* Which messages from the coprocessor are which.
LEMMA InSorts ==
    /\ \A m \in ShakeIn : m.type \in {"HELLO", "EPMAP"} /\ m.ep = MGMT
    /\ \A m \in IopIn : m.type = "IOP_PWR_ACK" /\ m.ep = MGMT
    /\ \A m \in ApIn : m.type = "AP_PWR_ACK" /\ m.ep = MGMT
    /\ \A ep : RequestMsg(ep).type = "BUFFER_REQUEST" /\ RequestMsg(ep).ep = ep
    /\ HelloMsg.type = "HELLO" /\ EpmapMsg(0).type = "EPMAP" /\ EpmapMsg(1).type = "EPMAP"
    /\ EpmapMsg(0).lo = 0 /\ EpmapMsg(1).lo = 1
    /\ IopAckMsg(PWR_ON).lo = PWR_ON /\ IopAckMsg(PWR_SLEEP).lo = PWR_SLEEP
    /\ ApAckMsg(PWR_ON).lo = PWR_ON /\ ApAckMsg(PWR_QUIESCED).lo = PWR_QUIESCED
    /\ PWR_ON # PWR_SLEEP /\ PWR_ON # PWR_QUIESCED /\ PWR_INIT # PWR_SLEEP
BY DEF ShakeIn, IopIn, ApIn, HelloMsg, EpmapMsg, IopAckMsg, ApAckMsg, RequestMsg, In,
       PWR_ON, PWR_SLEEP, PWR_QUIESCED, PWR_INIT

\* Which messages to the coprocessor are which.
LEMMA OutSorts ==
    /\ HelloReply.type = "HELLO_REPLY"
    /\ \A last : EpmapReply(last).type = "EPMAP_REPLY" /\ EpmapReply(last).arg = last
    /\ InitMsg.type = "IOP_PWR" /\ InitMsg.arg = PWR_INIT
    /\ SleepMsg.type = "IOP_PWR" /\ SleepMsg.arg = PWR_SLEEP
    /\ ApOnMsg.type = "AP_PWR" /\ ApOnMsg.arg = PWR_ON
    /\ QuiesceMsg.type = "AP_PWR" /\ QuiesceMsg.arg = PWR_QUIESCED
    /\ \A ep : StartMsg(ep).type = "STARTEP" /\ StartMsg(ep).arg = ep
    /\ \A ep : BufferMsg(ep).type = "BUFFER" /\ Out(ep, "GPU", 0).type = "GPU"
    /\ \A m \in ShakeOut : m.type \in {"HELLO_REPLY", "EPMAP_REPLY"}
    /\ \A m \in IopOut : m.type = "IOP_PWR"
    /\ \A m \in ApOut : m.type = "AP_PWR"
BY DEF HelloReply, EpmapReply, LastReply, InitMsg, SleepMsg, ApOnMsg, QuiesceMsg, StartMsg,
       BufferMsg, Out, ShakeOut, IopOut, ApOut

----------------------------------------------------------------------------
\* What a step does to the messages.

\* The interrupt thread takes a message.
Received ==
    /\ ipc = "drain" /\ tosend = {} /\ tostore = "none" /\ i2a # <<>>
    /\ i2a' = Tail(i2a) /\ ipc' = "rx"
    /\ UNCHANGED <<a2i, sent, pc, waiter, flagVars, hwVars>>

GotHello ==
    /\ Head(i2a) = HelloMsg /\ Remaining({HelloReply}, "hello_done")
    /\ UNCHANGED <<endpoints, powerVars, error, shmem>>
GotEpmap(last) ==
    /\ Head(i2a) = EpmapMsg(last)
    /\ endpoints' = endpoints \cup EpmapMsg(last).eps
    /\ Remaining({EpmapReply(last)} \cup (IF last = 1 THEN Starts(endpoints') ELSE {}),
                 IF last = 1 THEN "epmap_done" ELSE "none")
    /\ UNCHANGED <<powerVars, error, shmem>>
GotIopAck(state) ==
    /\ Head(i2a) = IopAckMsg(state) /\ iop_power' = state /\ Remaining({}, "iop_acked")
    /\ UNCHANGED <<endpoints, ap_power, error, shmem>>
GotApAck(state) ==
    /\ Head(i2a) = ApAckMsg(state) /\ ap_power' = state /\ Remaining({}, "ap_acked")
    /\ UNCHANGED <<endpoints, iop_power, error, shmem>>
GotRequest(ep) ==
    /\ Head(i2a) = RequestMsg(ep) /\ tostore' = "none"
    /\ \/ tosend' = {BufferMsg(ep)} /\ shmem' = shmem \cup {ep} /\ UNCHANGED error
       \/ tosend' = {} /\ UNCHANGED shmem /\ (ep \notin shmem /\ ~MayFail => UNCHANGED error)
    /\ UNCHANGED <<endpoints, powerVars>>

\* Every message it can be sent has its handler.
LEMMA ReceiveCases ==
    ASSUME Wires, i2a # <<>>, IrqRecv(Head(i2a)) \/ IrqGetBuffer(Head(i2a))
    PROVE  /\ Received
           /\ \/ GotHello \/ GotEpmap(0) \/ GotEpmap(1)
              \/ GotIopAck(PWR_ON) \/ GotIopAck(PWR_SLEEP)
              \/ GotApAck(PWR_ON) \/ GotApAck(PWR_QUIESCED)
              \/ \E ep \in BufferEndpoints : GotRequest(ep)
<1> PICK h : h = Head(i2a)
  OBVIOUS
<1>1. h \in InKnown
  BY DEF Wires
<1>2. Recv(h) /\ (RxPlain(h) \/ \E ret \in BufferResults(h) : RxGetBuffer(h, ret))
  BY DEF IrqRecv, IrqGetBuffer
<1>3. Received
  BY <1>2, InSorts DEF Received, Recv, Wires, RxPlain, RxHello, RxEpmap, RxIopAck, RxApAck,
     RxCrash, RxEcho, RxDropped, RxGetBuffer
<1>4. CASE h = HelloMsg
  <2>1. h.ep = MGMT /\ h.type = "HELLO" /\ h.lo = 11 /\ h.hi = 12
    BY <1>4 DEF HelloMsg, In
  <2>2. ~WantsBuffer(h) /\ ~IsCrash(h) /\ ~WantsEcho(h)
    BY <2>1 DEF WantsBuffer, IsCrash, WantsEcho
  <2>3. RxHello(h) /\ IrqRecv(h)
    BY <1>2, <2>1, <2>2 DEF RxPlain, RxEpmap, RxIopAck, RxApAck, RxCrash, RxEcho, RxDropped,
       RxGetBuffer, IrqRecv, IrqGetBuffer
  <2>4. ~HelloRefused(h) /\ Want(h) = 12
    BY <2>1 DEF HelloRefused, Want, PROTO_MAX, PROTO_MIN
  <2> QED  BY <1>3, <1>4, <2>3, <2>4 DEF RxHello, IrqRecv, GotHello, HelloReply
<1>5. ASSUME NEW last \in {0, 1}, h = EpmapMsg(last) PROVE GotEpmap(last)
  <2>1. h.ep = MGMT /\ h.type = "EPMAP" /\ h.lo = last
    BY <1>5 DEF EpmapMsg, In
  <2>2. ~WantsBuffer(h) /\ ~IsCrash(h) /\ ~WantsEcho(h)
    BY <2>1 DEF WantsBuffer, IsCrash, WantsEcho
  <2>3. RxEpmap(h) /\ IrqRecv(h)
    BY <1>2, <2>1, <2>2 DEF RxPlain, RxHello, RxIopAck, RxApAck, RxCrash, RxEcho, RxDropped,
       RxGetBuffer, IrqRecv, IrqGetBuffer
  <2> QED  BY <1>5, <2>1, <2>3 DEF RxEpmap, IrqRecv, GotEpmap, EpmapReply
<1>6. ASSUME NEW s, h = IopAckMsg(s) PROVE GotIopAck(s)
  <2>1. h.ep = MGMT /\ h.type = "IOP_PWR_ACK" /\ h.lo = s
    BY <1>6 DEF IopAckMsg, In
  <2>2. ~WantsBuffer(h) /\ ~IsCrash(h) /\ ~WantsEcho(h)
    BY <2>1 DEF WantsBuffer, IsCrash, WantsEcho
  <2>3. RxIopAck(h) /\ IrqRecv(h)
    BY <1>2, <2>1, <2>2 DEF RxPlain, RxHello, RxEpmap, RxApAck, RxCrash, RxEcho, RxDropped,
       RxGetBuffer, IrqRecv, IrqGetBuffer
  <2> QED  BY <1>6, <2>1, <2>3 DEF RxIopAck, IrqRecv, GotIopAck
<1>7. ASSUME NEW s, h = ApAckMsg(s) PROVE GotApAck(s)
  <2>1. h.ep = MGMT /\ h.type = "AP_PWR_ACK" /\ h.lo = s
    BY <1>7 DEF ApAckMsg, In
  <2>2. ~WantsBuffer(h) /\ ~IsCrash(h) /\ ~WantsEcho(h)
    BY <2>1 DEF WantsBuffer, IsCrash, WantsEcho
  <2>3. RxApAck(h) /\ IrqRecv(h)
    BY <1>2, <2>1, <2>2 DEF RxPlain, RxHello, RxEpmap, RxIopAck, RxCrash, RxEcho, RxDropped,
       RxGetBuffer, IrqRecv, IrqGetBuffer
  <2> QED  BY <1>7, <2>1, <2>3 DEF RxApAck, IrqRecv, GotApAck
<1>8. ASSUME NEW ep \in BufferEndpoints, h = RequestMsg(ep) PROVE GotRequest(ep)
  <2>1. h.ep = ep /\ h.type = "BUFFER_REQUEST" /\ h.lo = 8192 /\ h.hi = 0
    BY <1>8 DEF RequestMsg, In
  <2>2. ~WantsEcho(h) /\ (WantsBuffer(h) \/ IsCrash(h))
    BY <2>1 DEF WantsBuffer, IsCrash, WantsEcho
  <2>3. CASE IrqRecv(h)
    <3>1. RxCrash(h)
      BY <2>1, <2>2, <2>3 DEF IrqRecv, RxPlain, RxHello, RxEpmap, RxIopAck, RxApAck, RxCrash,
         RxEcho, RxDropped, WantsBuffer, IsCrash
    <3> QED  BY <1>8, <2>3, <3>1 DEF RxCrash, IrqRecv, Remaining, GotRequest
  <2>4. CASE IrqGetBuffer(h)
    <3>1. PICK ret \in BufferResults(h) :
             /\ RxGetBuffer(h, ret)
             /\ IF h.lo # 0 /\ ret = "none" THEN shmem' = shmem \cup {h.ep}
                ELSE UNCHANGED shmem
      BY <2>4 DEF IrqGetBuffer
    <3>2. CASE ret = "none"
      BY <1>8, <2>1, <3>1, <3>2 DEF RxGetBuffer, Remaining, GotRequest, BufferMsg
    <3>3. CASE ret # "none"
      <4>1. ep \in shmem \/ MayFail
        BY <2>1, <3>1, <3>3 DEF BufferResults, SHMEM_MAX
      <4> QED  BY <1>8, <2>1, <3>1, <3>3, <4>1 DEF RxGetBuffer, Remaining, GotRequest
    <3> QED  BY <3>2, <3>3
  <2> QED  BY <2>3, <2>4
<1> QED
  BY <1>1, <1>3, <1>4, <1>5, <1>6, <1>7, <1>8 DEF InKnown

\* FakeFirmware::handle, message by message.
Taken == cpu_running /\ a2i # <<>> /\ a2i' = Tail(a2i) /\ UNCHANGED fw_hello /\ FwRest
Answer(m) == i2a' = Append(i2a, m)
Silent == i2a' = i2a

HandledMsg ==
    LET h == Head(a2i) IN
    \/ h = HelloReply /\ Answer(EpmapMsg(0)) /\ UNCHANGED fwVars
    \/ h = EpmapReply(0) /\ Answer(EpmapMsg(1)) /\ UNCHANGED fwVars
    \/ /\ h = LastReply /\ epmap_finished' = TRUE /\ UNCHANGED <<pending_iop, fw_asking>>
       /\ IF pending_iop THEN Answer(IopAckMsg(PWR_ON)) ELSE Silent
    \/ /\ h = InitMsg /\ pending_iop' = TRUE /\ UNCHANGED <<epmap_finished, fw_asking>>
       /\ IF epmap_finished THEN Answer(IopAckMsg(PWR_ON)) ELSE Silent
    \/ h = SleepMsg /\ Answer(IopAckMsg(PWR_SLEEP)) /\ UNCHANGED fwVars
    \/ h = ApOnMsg /\ Answer(ApAckMsg(PWR_ON)) /\ UNCHANGED fwVars
    \/ h = QuiesceMsg /\ Answer(ApAckMsg(PWR_QUIESCED)) /\ UNCHANGED fwVars
    \/ \E ep \in BufferEndpoints :
          /\ h = StartMsg(ep) /\ Silent /\ fw_asking' = fw_asking \cup {ep}
          /\ UNCHANGED <<epmap_finished, pending_iop>>
    \/ /\ h \notin ShakeOut \cup IopOut \cup ApOut
       /\ \A ep \in BufferEndpoints : h # StartMsg(ep)
       /\ Silent /\ UNCHANGED fwVars

\* Every message it can be sent is answered as the driver expects.
LEMMA HandleCases ==
    ASSUME Wires, FwHandle
    PROVE  Taken /\ HandledMsg
<1> PICK h : h = Head(a2i)
  OBVIOUS
<1>1. h \in OutKnown
  BY DEF Wires, FwHandle
<1>2. Taken
  BY DEF FwHandle, Taken
<1>3. /\ \A m : i2a \o <<m>> = Append(i2a, m)
      /\ i2a \o << >> = i2a
  BY DEF Wires
<1>4. /\ i2a' = i2a \o Replies(h)
      /\ epmap_finished' = (epmap_finished \/ h = LastReply)
      /\ pending_iop' = (pending_iop \/ h = InitMsg)
      /\ fw_asking' = fw_asking \cup {ep \in BufferEndpoints : h = StartMsg(ep)}
      /\ fw_hello' = fw_hello /\ epmap_finished \in BOOLEAN /\ pending_iop \in BOOLEAN
  BY DEF FwHandle, Wires, LastReply, EpmapReply, InitMsg
<1>5. h # LastReply => epmap_finished' = epmap_finished
  BY <1>4
<1>6. h # InitMsg => pending_iop' = pending_iop
  BY <1>4
<1>7. (\A ep \in BufferEndpoints : h # StartMsg(ep)) => fw_asking' = fw_asking
  BY <1>4
<1> HIDE DEF LastReply
<1>8. CASE h = HelloReply
  <2>1. Replies(h) = <<EpmapMsg(0)>>
    BY <1>8, OutSorts DEF Replies, EpmapMsg
  <2>2. i2a' = Append(i2a, EpmapMsg(0))
    BY <2>1, <1>3, <1>4
  <2> QED  BY <1>2, <1>4, <1>5, <1>6, <1>7, <1>8, <2>2, OutSorts
           DEF HandledMsg, Answer, fwVars, LastReply
<1>9. CASE h = EpmapReply(0)
  <2>1. Replies(h) = <<EpmapMsg(1)>>
    BY <1>9, OutSorts DEF Replies, EpmapMsg
  <2>2. i2a' = Append(i2a, EpmapMsg(1))
    BY <2>1, <1>3, <1>4
  <2> QED  BY <1>2, <1>4, <1>5, <1>6, <1>7, <1>9, <2>2, OutSorts
           DEF HandledMsg, Answer, fwVars, LastReply
<1>10. CASE h = LastReply
  <2>1. Replies(h) = IF pending_iop THEN <<IopAckMsg(PWR_ON)>> ELSE << >>
    BY <1>10, OutSorts DEF Replies, IopAck, IopAckMsg, LastReply
  <2>2. IF pending_iop THEN i2a' = Append(i2a, IopAckMsg(PWR_ON)) ELSE i2a' = i2a
    BY <2>1, <1>3, <1>4
  <2>3. h # InitMsg /\ \A ep \in BufferEndpoints : h # StartMsg(ep)
    BY <1>10, OutSorts DEF LastReply
  <2>4. epmap_finished' = TRUE
    BY <1>4, <1>10
  <2> QED  BY <1>2, <1>6, <1>7, <1>10, <2>2, <2>3, <2>4 DEF HandledMsg, Answer, Silent
<1>11. CASE h = InitMsg
  <2>1. Replies(h) = IF epmap_finished THEN <<IopAckMsg(PWR_ON)>> ELSE << >>
    BY <1>11, OutSorts DEF Replies, IopAck, IopAckMsg
  <2>2. IF epmap_finished THEN i2a' = Append(i2a, IopAckMsg(PWR_ON)) ELSE i2a' = i2a
    BY <2>1, <1>3, <1>4
  <2>3. h # LastReply /\ \A ep \in BufferEndpoints : h # StartMsg(ep)
    BY <1>11, OutSorts DEF LastReply
  <2>4. pending_iop' = TRUE
    BY <1>4, <1>11
  <2> QED  BY <1>2, <1>5, <1>7, <1>11, <2>2, <2>3, <2>4 DEF HandledMsg, Answer, Silent
<1>12. CASE h = SleepMsg
  <2>1. Replies(h) = <<IopAckMsg(PWR_SLEEP)>>
    BY <1>12, OutSorts, InSorts DEF Replies, IopAck, IopAckMsg
  <2>2. i2a' = Append(i2a, IopAckMsg(PWR_SLEEP))
    BY <2>1, <1>3, <1>4
  <2>3. h # LastReply /\ h # InitMsg /\ \A ep \in BufferEndpoints : h # StartMsg(ep)
    BY <1>12, OutSorts, InSorts DEF LastReply
  <2> QED  BY <1>2, <1>4, <1>5, <1>6, <1>7, <1>12, <2>2, <2>3 DEF HandledMsg, Answer, fwVars
<1>13. ASSUME NEW s \in {PWR_ON, PWR_QUIESCED}, h = Out(MGMT, "AP_PWR", s)
       PROVE  Answer(ApAckMsg(s)) /\ UNCHANGED fwVars
  <2>1. h.type = "AP_PWR" /\ h.arg = s
    BY <1>13 DEF Out
  <2>2. Replies(h) = <<ApAckMsg(s)>>
    BY <2>1 DEF Replies, ApAckMsg
  <2>3. i2a' = Append(i2a, ApAckMsg(s))
    BY <2>2, <1>3, <1>4
  <2>4. h # LastReply /\ h # InitMsg /\ \A ep \in BufferEndpoints : h # StartMsg(ep)
    BY <2>1, OutSorts DEF LastReply
  <2> QED  BY <1>4, <1>5, <1>6, <1>7, <2>3, <2>4 DEF Answer, fwVars
<1>14. ASSUME NEW ep, h = StartMsg(ep) \/ h = BufferMsg(ep) \/ h = Out(ep, "GPU", 0)
       PROVE  HandledMsg
  <2>1. h.type \in {"STARTEP", "BUFFER", "GPU"}
    BY <1>14, OutSorts
  <2>2. Replies(h) = << >>
    BY <2>1 DEF Replies
  <2>3. i2a' = i2a
    BY <2>2, <1>3, <1>4
  <2>4. h # LastReply /\ h # InitMsg /\ h \notin ShakeOut \cup IopOut \cup ApOut
    BY <2>1, OutSorts DEF LastReply
  <2>5. CASE \E e \in BufferEndpoints : h = StartMsg(e)
    <3> PICK e \in BufferEndpoints : h = StartMsg(e)
      BY <2>5
    <3>1. fw_asking' = fw_asking \cup {e}
      BY <1>4, OutSorts
    <3> QED  BY <1>5, <1>6, <2>3, <2>4, <3>1 DEF HandledMsg, Silent
  <2>6. CASE \A e \in BufferEndpoints : h # StartMsg(e)
    BY <1>4, <1>5, <1>6, <1>7, <2>3, <2>4, <2>6 DEF HandledMsg, Silent, fwVars
  <2> QED  BY <2>5, <2>6
<1>15. CASE h = ApOnMsg \/ h = QuiesceMsg
  <2>1. h = ApOnMsg => Answer(ApAckMsg(PWR_ON)) /\ UNCHANGED fwVars
    BY <1>13 DEF ApOnMsg
  <2>2. h = QuiesceMsg => Answer(ApAckMsg(PWR_QUIESCED)) /\ UNCHANGED fwVars
    BY <1>13 DEF QuiesceMsg
  <2> QED  BY <1>2, <1>15, <2>1, <2>2 DEF HandledMsg
<1> QED
  BY <1>1, <1>2, <1>8, <1>9, <1>10, <1>11, <1>12, <1>14, <1>15 DEF OutKnown, RepliesKnown

\* A thread other than the interrupt thread sends a message, or none.
ProbeMsgs ==
    {InitMsg, SleepMsg, ApOnMsg, QuiesceMsg, StartMsg(FIRMWARE), StartMsg(DOORBELL)}
    \cup {Out(ep, "GPU", 0) : ep \in GpuEndpoints}
Sends(m) == a2i' = Append(a2i, m) /\ sent' = sent \cup {m}
Elsewhere ==
    /\ UNCHANGED <<i2a, handlerVars, irqVars, endpoints, powerVars, epmap_done, fwVars>>
    /\ UNCHANGED wireVars \/ \E m \in ProbeMsgs : Sends(m)

\* The interrupt thread sends a message, gives up, stores its flag, or none of
\* these.
Posted(m) ==
    /\ ipc = "rx" /\ m \in tosend /\ Sends(m) /\ tosend' = tosend \ {m}
    /\ UNCHANGED <<i2a, tostore, rtkVars, ipc, shmem>>
Dropped ==
    /\ ipc = "rx" /\ Late /\ Remaining({}, "none")
    /\ UNCHANGED <<i2a, wireVars, endpoints, powerVars, flagVars, ipc, shmem>>
Stored ==
    /\ ipc = "rx" /\ StoreFlag /\ ipc' = "drain" /\ UNCHANGED <<i2a, wireVars, shmem>>
IrqIdles ==
    /\ {ipc, ipc'} \subseteq {"idle", "drain"}
    /\ UNCHANGED <<i2a, wireVars, handlerVars, rtkVars, shmem>>

\* What the interrupt thread does, for the messages.
LEMMA IrqCases ==
    ASSUME Wires, IrqStep
    PROVE  /\ UNCHANGED <<pc, hwVars>>
           /\ \/ i2a # <<>> /\ (IrqRecv(Head(i2a)) \/ IrqGetBuffer(Head(i2a)))
              \/ \E m \in tosend : Posted(m)
              \/ Dropped \/ Stored \/ IrqIdles
<1>1. UNCHANGED <<pc, hwVars>>
  BY IrqLeavesProbe
<1>2. CASE \E m \in tosend : IrqSend(m)
  BY <1>1, <1>2 DEF IrqSend, MboxSend, MboxSendTimeout, Posted, Sends, Dropped
<1>3. CASE IrqDone
  BY <1>1, <1>3 DEF IrqDone, Stored
<1>4. CASE Irq \/ IrqExit
  BY <1>1, <1>4 DEF Irq, IrqExit, IrqIdles
<1> QED  BY <1>1, <1>2, <1>3, <1>4 DEF IrqStep

\* What the other threads of the kernel do, for the messages.
LEMMA ElsewhereCases ==
    ASSUME ProbeStep \/ Teardown \/ GpuStep, UNCHANGED fwVars
    PROVE  Elsewhere
<1> USE DEF Elsewhere, Sends, ProbeMsgs, MboxSend, MboxSendTimeout
<1>1. CASE WaitStep
  BY <1>1 DEF WaitStep, WaitTest, WaitExpire, WaitReturn
<1>2. CASE BootStep
  BY <1>2 DEF BootStep, BootEnable, BootRun, BootSendInit, BootRequestIrq,
     BootCheckIop, BootClearAp, BootSendAp, BootCheckRunning, BootStartFirmware,
     BootSendFirmware, BootStartDoorbell, BootSendDoorbell, BootStart,
     BootReport, BootFail, Send, Go, NoSend, InitMsg, ApOnMsg, StartMsg
<1>3. CASE RemoveStep \/ Teardown
  BY <1>3 DEF RemoveStep, Teardown, Shutdown, ShutdownQuiesceAp, ShutdownSendQuiesce,
     ShutdownSleepIop, ShutdownSendSleep, RemoveFreeIrq, RemoveSyncIrq,
     RemoveStop, RemoveFree, RemovePut, Send, Go, NoSend, SleepMsg, QuiesceMsg
<1>4. CASE GpuStep
  BY <1>4 DEF GpuStep, GpuCheck, GpuSend, GpuRest
<1> QED  BY <1>1, <1>2, <1>3, <1>4 DEF ProbeStep

\* Every step.
LEMMA FwCases ==
    ASSUME [FwNext]_allVars
    PROVE  \/ IrqStep /\ UNCHANGED fwVars
           \/ (ProbeStep \/ Teardown \/ GpuStep) /\ UNCHANGED fwVars
           \/ FwHello \/ FwHandle \/ (\E ep \in BufferEndpoints : FwAsk(ep))
           \/ UNCHANGED allVars
BY DEF FwNext, DriverNext, FwStep, Unbound, allVars, vars

----------------------------------------------------------------------------
\* Telling the messages apart.

\* The sorts of messages from the coprocessor are disjoint.
LEMMA InDistinct ==
    /\ HelloMsg \in ShakeIn /\ EpmapMsg(0) \in ShakeIn /\ EpmapMsg(1) \in ShakeIn
    /\ IopAckMsg(PWR_ON) \in IopIn /\ IopAckMsg(PWR_SLEEP) \in IopIn
    /\ ApAckMsg(PWR_ON) \in ApIn /\ ApAckMsg(PWR_QUIESCED) \in ApIn
    /\ IopAckMsg(PWR_ON) # IopAckMsg(PWR_SLEEP)
    /\ ApAckMsg(PWR_ON) # ApAckMsg(PWR_QUIESCED)
    /\ \A m \in ShakeIn : m \notin IopIn /\ m \notin ApIn /\ \A ep : m # RequestMsg(ep)
    /\ \A m \in IopIn : m \notin ShakeIn /\ m \notin ApIn /\ \A ep : m # RequestMsg(ep)
    /\ \A m \in ApIn : m \notin ShakeIn /\ m \notin IopIn /\ \A ep : m # RequestMsg(ep)
    /\ \A ep : RequestMsg(ep) \notin ShakeIn /\ RequestMsg(ep) \notin IopIn
               /\ RequestMsg(ep) \notin ApIn
    /\ \A e, f : RequestMsg(e) = RequestMsg(f) => e = f
    /\ ShakeIn \subseteq InKnown /\ IopIn \subseteq InKnown /\ ApIn \subseteq InKnown
    /\ \A ep \in BufferEndpoints : RequestMsg(ep) \in InKnown
<1>1. \A m \in ShakeIn : m \notin IopIn /\ m \notin ApIn /\ \A ep : m # RequestMsg(ep)
  BY InSorts
<1>2. \A m \in IopIn : m \notin ShakeIn /\ m \notin ApIn /\ \A ep : m # RequestMsg(ep)
  BY InSorts
<1>3. \A m \in ApIn : m \notin ShakeIn /\ m \notin IopIn /\ \A ep : m # RequestMsg(ep)
  BY InSorts
<1>4. \A e, f : RequestMsg(e) = RequestMsg(f) => e = f
  BY InSorts
<1>5. /\ IopAckMsg(PWR_ON) # IopAckMsg(PWR_SLEEP)
      /\ ApAckMsg(PWR_ON) # ApAckMsg(PWR_QUIESCED)
  BY InSorts
<1> HIDE DEF HelloMsg, EpmapMsg, IopAckMsg, ApAckMsg, RequestMsg
<1>6. /\ HelloMsg \in ShakeIn /\ EpmapMsg(0) \in ShakeIn /\ EpmapMsg(1) \in ShakeIn
      /\ IopAckMsg(PWR_ON) \in IopIn /\ IopAckMsg(PWR_SLEEP) \in IopIn
      /\ ApAckMsg(PWR_ON) \in ApIn /\ ApAckMsg(PWR_QUIESCED) \in ApIn
      /\ ShakeIn \subseteq InKnown /\ IopIn \subseteq InKnown /\ ApIn \subseteq InKnown
      /\ \A ep \in BufferEndpoints : RequestMsg(ep) \in InKnown
  BY DEF ShakeIn, IopIn, ApIn, InKnown
<1> QED  BY <1>1, <1>2, <1>3, <1>4, <1>5, <1>6

\* The sorts of messages to the coprocessor are disjoint.
LEMMA OutDistinct ==
    /\ HelloReply \in EarlyOut /\ EpmapReply(0) \in EarlyOut /\ LastReply \notin EarlyOut
    /\ ShakeOut = EarlyOut \cup {LastReply}
    /\ InitMsg \in IopOut /\ SleepMsg \in IopOut /\ InitMsg # SleepMsg
    /\ ApOnMsg \in ApOut /\ QuiesceMsg \in ApOut /\ ApOnMsg # QuiesceMsg
    /\ \A m \in ShakeOut : m \notin IopOut /\ m \notin ApOut /\ \A ep : m # StartMsg(ep)
    /\ \A m \in IopOut : m \notin ShakeOut /\ m \notin ApOut /\ \A ep : m # StartMsg(ep)
    /\ \A m \in ApOut : m \notin ShakeOut /\ m \notin IopOut /\ \A ep : m # StartMsg(ep)
    /\ \A m \in RepliesKnown : m \notin IopOut /\ m \notin ApOut
    /\ \A e, f : StartMsg(e) = StartMsg(f) => e = f
    /\ \A e, f : BufferMsg(e) # StartMsg(f) /\ BufferMsg(e) \notin ShakeOut
    /\ \A m \in ProbeMsgs : m \notin ShakeOut /\ \A ep \in BufferEndpoints : m # StartMsg(ep)
    /\ RepliesKnown \subseteq OutKnown /\ ProbeMsgs \subseteq OutKnown
<1>1. /\ LastReply \notin EarlyOut /\ InitMsg # SleepMsg /\ ApOnMsg # QuiesceMsg
  BY OutSorts, InSorts DEF EarlyOut, LastReply
<1>2. \A m \in ShakeOut : m \notin IopOut /\ m \notin ApOut /\ \A ep : m # StartMsg(ep)
  BY OutSorts
<1>3. \A m \in IopOut : m \notin ShakeOut /\ m \notin ApOut /\ \A ep : m # StartMsg(ep)
  BY OutSorts
<1>4. \A m \in ApOut : m \notin ShakeOut /\ m \notin IopOut /\ \A ep : m # StartMsg(ep)
  BY OutSorts
<1>5. \A m \in RepliesKnown : m \notin IopOut /\ m \notin ApOut
  BY OutSorts DEF RepliesKnown, LastReply
<1>6. \A e, f : StartMsg(e) = StartMsg(f) => e = f
  BY OutSorts
<1>7. \A e, f : BufferMsg(e) # StartMsg(f) /\ BufferMsg(e) \notin ShakeOut
  BY OutSorts
<1>8. FIRMWARE \notin BufferEndpoints /\ DOORBELL \notin BufferEndpoints
  BY DEF FIRMWARE, DOORBELL, BufferEndpoints, CRASHLOG, SYSLOG, IOREPORT, OSLOG
<1>9. \A m \in ProbeMsgs : m \notin ShakeOut /\ \A ep \in BufferEndpoints : m # StartMsg(ep)
  BY <1>6, <1>8, OutSorts DEF ProbeMsgs
<1>10. /\ HelloReply \in EarlyOut /\ EpmapReply(0) \in EarlyOut
       /\ ShakeOut = EarlyOut \cup {LastReply}
       /\ InitMsg \in IopOut /\ SleepMsg \in IopOut /\ ApOnMsg \in ApOut /\ QuiesceMsg \in ApOut
       /\ RepliesKnown \subseteq OutKnown /\ ProbeMsgs \subseteq OutKnown
  BY DEF EarlyOut, ShakeOut, IopOut, ApOut, OutKnown, ProbeMsgs
<1> QED  BY <1>1, <1>2, <1>3, <1>4, <1>5, <1>6, <1>7, <1>9, <1>10

\* What moving one message does to the tokens of a queue.
LEMMA IncomingAppend ==
    ASSUME i2a \in Seq(InKnown), NEW m \in InKnown, i2a' = Append(i2a, m), NEW T
    PROVE  /\ i2a' \in Seq(InKnown)
           /\ NoneIn(i2a, T) /\ m \notin T => NoneIn(i2a', T)
           /\ NoneIn(i2a, T) => OneIn(i2a', T)
           /\ OneIn(i2a, T) /\ m \notin T => OneIn(i2a', T)
BY AppendTokens, Zenon

\* The same for the messages to the coprocessor.
LEMMA OutgoingAppend ==
    ASSUME a2i \in Seq(OutKnown), NEW m \in OutKnown, a2i' = Append(a2i, m), NEW T
    PROVE  /\ a2i' \in Seq(OutKnown)
           /\ NoneIn(a2i, T) /\ m \notin T => NoneIn(a2i', T)
           /\ NoneIn(a2i, T) => OneIn(a2i', T)
           /\ OneIn(a2i, T) /\ m \notin T => OneIn(a2i', T)
BY AppendTokens, Zenon

\* What the oldest message from the coprocessor takes with it.
LEMMA IncomingTail ==
    ASSUME i2a \in Seq(InKnown), i2a # <<>>, i2a' = Tail(i2a), NEW T
    PROVE  /\ i2a' \in Seq(InKnown) /\ Head(i2a) \in InKnown
           /\ NoneIn(i2a, T) => NoneIn(i2a', T) /\ Head(i2a) \notin T
           /\ OneIn(i2a, T) => OneIn(i2a', T)
           /\ OneIn(i2a, T) /\ Head(i2a) \in T => NoneIn(i2a', T)
BY TailTokens, Zenon

\* The same for the messages to the coprocessor.
LEMMA OutgoingTail ==
    ASSUME a2i \in Seq(OutKnown), a2i # <<>>, a2i' = Tail(a2i), NEW T
    PROVE  /\ a2i' \in Seq(OutKnown) /\ Head(a2i) \in OutKnown
           /\ NoneIn(a2i, T) => NoneIn(a2i', T) /\ Head(a2i) \notin T
           /\ OneIn(a2i, T) => OneIn(a2i', T)
           /\ OneIn(a2i, T) /\ Head(a2i) \in T => NoneIn(a2i', T)
BY TailTokens, Zenon

\* An answer goes to the end of the queue.
LEMMA AnswerKnown ==
    ASSUME Wires, HandledMsg
    PROVE  \/ Silent
           \/ \E m \in ShakeIn \cup IopIn \cup ApIn : Answer(m)
BY InDistinct DEF HandledMsg

----------------------------------------------------------------------------
\* The handshake.

\* Nothing is on its way before the CPU runs.
LEMMA ShakeInit == FwInit => ShakeInv
<1> SUFFICES ASSUME FwInit PROVE ShakeInv
  OBVIOUS
<1>1. /\ i2a = <<>> /\ a2i = <<>> /\ tosend = {} /\ tostore = "none" /\ sent = {} /\ ipc = "idle"
      /\ ~epmap_done /\ ~fw_hello /\ ~epmap_finished
  BY DEF FwInit, Init, RtkInit
<1>2. Len(<<>>) = 0 /\ << >> \in Seq(InKnown) /\ << >> \in Seq(OutKnown)
  OBVIOUS
<1>3. \A T : NoneIn(i2a, T) /\ NoneIn(a2i, T)
  BY <1>1, <1>2 DEF NoneIn
<1>4. Wires
  BY <1>1, <1>2 DEF Wires, FwInit
<1>5. Handshake
  BY <1>1, <1>3 DEF Handshake, OneShake, NoShake
<1>6. EpmapHandled
  BY <1>1 DEF EpmapHandled
<1> QED  BY <1>4, <1>5, <1>6 DEF ShakeInv

\* Another thread of the kernel sends: nothing of the handshake moves.
LEMMA ShakeElsewhere ==
    ASSUME ShakeInv, Elsewhere
    PROVE  ShakeInv'
<1>1. Wires /\ Handshake /\ EpmapHandled
  BY DEF ShakeInv
<1>2. UNCHANGED <<i2a, tosend, tostore, ipc, endpoints, epmap_done, fw_hello, epmap_finished,
                  pending_iop, fw_asking>>
  BY DEF Elsewhere, fwVars
<1>3. CASE UNCHANGED wireVars
  BY <1>1, <1>2, <1>3 DEF ShakeInv, Wires, Handshake, OneShake, NoShake, EpmapHandled
<1>4. CASE \E m \in ProbeMsgs : Sends(m)
  <2> PICK m \in ProbeMsgs : Sends(m)
    BY <1>4
  <2>1. m \in OutKnown /\ m \notin ShakeOut /\ m \notin EarlyOut /\ m # LastReply
    BY OutDistinct
  <2>2. a2i' = Append(a2i, m) /\ sent' = sent \cup {m} /\ a2i \in Seq(OutKnown)
    BY <1>1 DEF Sends, Wires
  <2>3. /\ a2i' \in Seq(OutKnown)
        /\ NoneIn(a2i, ShakeOut) => NoneIn(a2i', ShakeOut)
        /\ OneIn(a2i, ShakeOut) => OneIn(a2i', ShakeOut)
        /\ NoneIn(a2i, EarlyOut) => NoneIn(a2i', EarlyOut)
    BY <2>1, <2>2, OutgoingAppend
  <2>4. Wires'
    BY <1>1, <1>2, <2>3 DEF Wires
  <2>5. Handshake'
    BY <1>1, <1>2, <2>1, <2>2, <2>3 DEF Handshake, OneShake, NoShake
  <2>6. EpmapHandled'
    BY <1>1, <1>2, <2>2 DEF EpmapHandled
  <2> QED  BY <2>4, <2>5, <2>6 DEF ShakeInv
<1> QED  BY <1>3, <1>4 DEF Elsewhere

\* Receiving: a message of the handshake becomes the reply to be sent, and the
\* last endpoint map leaves every system endpoint to be started.
LEMMA ShakeReceive ==
    ASSUME ShakeInv, i2a # <<>>, IrqRecv(Head(i2a)) \/ IrqGetBuffer(Head(i2a)), UNCHANGED fwVars
    PROVE  ShakeInv'
<1>1. Wires /\ Handshake /\ EpmapHandled
  BY DEF ShakeInv
<1>2. /\ Received
      /\ \/ GotHello \/ GotEpmap(0) \/ GotEpmap(1)
         \/ GotIopAck(PWR_ON) \/ GotIopAck(PWR_SLEEP)
         \/ GotApAck(PWR_ON) \/ GotApAck(PWR_QUIESCED)
         \/ \E ep \in BufferEndpoints : GotRequest(ep)
  BY <1>1, ReceiveCases
<1>3. /\ tosend = {} /\ tostore = "none" /\ i2a' = Tail(i2a) /\ ipc' = "rx"
      /\ UNCHANGED <<a2i, sent, epmap_done, fw_hello, epmap_finished, pending_iop>>
  BY <1>2 DEF Received, fwVars
<1> PICK h : h = Head(i2a)
  OBVIOUS
<1>4. /\ i2a' \in Seq(InKnown) /\ h \in InKnown
      /\ NoneIn(i2a, ShakeIn) => NoneIn(i2a', ShakeIn) /\ h \notin ShakeIn
      /\ OneIn(i2a, ShakeIn) => OneIn(i2a', ShakeIn)
      /\ OneIn(i2a, ShakeIn) /\ h \in ShakeIn => NoneIn(i2a', ShakeIn)
  BY <1>1, <1>3, IncomingTail DEF Wires
<1>5. CASE h \in ShakeIn /\ (GotHello \/ GotEpmap(0) \/ GotEpmap(1))
  <2>1. /\ NoneIn(i2a', ShakeIn) /\ NoneIn(a2i, ShakeOut) /\ LastReply \notin sent
        /\ fw_hello /\ ~epmap_finished /\ ~epmap_done
    BY <1>1, <1>4, <1>5 DEF Handshake, OneShake, NoShake, EpmapHandled
  <2>2. PICK r \in ShakeOut : \A m \in tosend' : m = r \/ \E ep \in SystemEndpoints : m = StartMsg(ep)
    BY <1>5, OutDistinct DEF GotHello, GotEpmap, Remaining, Starts, StartMsg, LastReply
  <2>3. Wires'
    <3>1. tosend' \subseteq RepliesKnown
      BY <2>2 DEF RepliesKnown, ShakeOut
    <3> QED  BY <1>1, <1>3, <1>4, <3>1 DEF Wires
  <2>4. Handshake'
    <3>1. \A m, n \in tosend' \cap ShakeOut : m = n
      BY <2>2, OutDistinct
    <3> QED  BY <1>3, <2>1, <3>1 DEF Handshake, OneShake
  <2>5. EpmapHandled'
    <3> SUFFICES ASSUME tostore' = "epmap_done"
                 PROVE  /\ LastReply \in tosend' /\ {FIRMWARE, DOORBELL} \subseteq endpoints'
                        /\ \A ep \in endpoints' \cap SystemEndpoints : StartMsg(ep) \in tosend'
      BY <1>3, <2>1 DEF EpmapHandled
    <3>1. GotEpmap(1)
      BY <1>5 DEF GotHello, GotEpmap, Remaining
    <3>2. EpmapMsg(1).eps = {FIRMWARE, DOORBELL}
      BY DEF EpmapMsg, In
    <3> QED  BY <3>1, <3>2 DEF GotEpmap, Remaining, LastReply, Starts, StartMsg
  <2> QED  BY <2>3, <2>4, <2>5 DEF ShakeInv
<1>6. CASE /\ h \notin ShakeIn /\ tostore' # "epmap_done" /\ endpoints' = endpoints
           /\ tosend' = {} \/ \E ep \in BufferEndpoints : tosend' = {BufferMsg(ep)}
  <2>1. tosend' \cap ShakeOut = {} /\ tosend' \subseteq RepliesKnown
    BY <1>6, OutDistinct DEF RepliesKnown
  <2>2. Wires'
    BY <1>1, <1>3, <1>4, <2>1 DEF Wires
  <2>3. Handshake'
    BY <1>1, <1>3, <1>4, <2>1 DEF Handshake, OneShake, NoShake
  <2>4. EpmapHandled'
    BY <1>1, <1>3, <1>6 DEF EpmapHandled
  <2> QED  BY <2>2, <2>3, <2>4 DEF ShakeInv
<1>7. CASE GotHello \/ GotEpmap(0) \/ GotEpmap(1)
  BY <1>5, <1>7, InDistinct DEF GotHello, GotEpmap
<1>8. CASE \/ GotIopAck(PWR_ON) \/ GotIopAck(PWR_SLEEP)
           \/ GotApAck(PWR_ON) \/ GotApAck(PWR_QUIESCED)
  <2>1. h \notin ShakeIn
    BY <1>8, InDistinct DEF GotIopAck, GotApAck
  <2> QED  BY <1>6, <1>8, <2>1 DEF GotIopAck, GotApAck, Remaining
<1>9. ASSUME NEW ep \in BufferEndpoints, GotRequest(ep) PROVE ShakeInv'
  <2>1. h \notin ShakeIn
    BY <1>9, InDistinct DEF GotRequest
  <2> QED  BY <1>6, <1>9, <2>1 DEF GotRequest
<1> QED  BY <1>2, <1>7, <1>8, <1>9

\* The rest of the interrupt thread.
LEMMA ShakeIrq ==
    ASSUME ShakeInv, IrqStep, UNCHANGED fwVars
    PROVE  ShakeInv'
<1>1. Wires /\ Handshake /\ EpmapHandled
  BY DEF ShakeInv
<1>2. UNCHANGED <<fw_hello, epmap_finished, pending_iop>>
  BY DEF fwVars
<1>3. ASSUME NEW m \in tosend, Posted(m) PROVE ShakeInv'
  <2>1. m \in RepliesKnown /\ m \in OutKnown
    BY <1>1, OutDistinct DEF Wires
  <2>2. a2i' = Append(a2i, m) /\ sent' = sent \cup {m} /\ a2i \in Seq(OutKnown)
        /\ tosend' = tosend \ {m} /\ UNCHANGED <<i2a, tostore, endpoints, epmap_done, ipc>>
        /\ ipc = "rx"
    BY <1>1, <1>3 DEF Posted, Sends, Wires
  <2>3. /\ a2i' \in Seq(OutKnown)
        /\ NoneIn(a2i, ShakeOut) => OneIn(a2i', ShakeOut)
        /\ m \notin ShakeOut /\ NoneIn(a2i, ShakeOut) => NoneIn(a2i', ShakeOut)
        /\ m \notin ShakeOut /\ OneIn(a2i, ShakeOut) => OneIn(a2i', ShakeOut)
        /\ m \notin EarlyOut /\ NoneIn(a2i, EarlyOut) => NoneIn(a2i', EarlyOut)
    BY <2>1, <2>2, OutgoingAppend
  <2>4. Wires'
    BY <1>1, <1>2, <2>2, <2>3 DEF Wires
  <2>5. NoneIn(a2i, ShakeOut) => NoneIn(a2i, EarlyOut)
    BY OutDistinct DEF NoneIn
  <2>6. Handshake'
    <3>1. CASE m \in ShakeOut
      <4>1. /\ NoneIn(i2a, ShakeIn) /\ NoneIn(a2i, ShakeOut) /\ tosend' \cap ShakeOut = {}
            /\ LastReply \notin sent /\ fw_hello /\ ~epmap_finished
        BY <1>1, <2>2, <3>1 DEF Handshake, OneShake, NoShake
      <4>2. LastReply \in sent' => m \notin EarlyOut
        BY <2>2, <4>1, OutDistinct
      <4> QED  BY <1>2, <2>2, <2>3, <2>5, <4>1, <4>2 DEF Handshake, OneShake
    <3>2. CASE m \notin ShakeOut
      <4>1. m \notin EarlyOut /\ m # LastReply /\ tosend' \cap ShakeOut = tosend \cap ShakeOut
        BY <2>2, <3>2, OutDistinct
      <4> QED  BY <1>1, <1>2, <2>2, <2>3, <3>2, <4>1 DEF Handshake, OneShake, NoShake
    <3> QED  BY <3>1, <3>2
  <2>7. EpmapHandled'
    <3>1. sent' \cup tosend' = sent \cup tosend /\ sent \subseteq sent'
      BY <2>2
    <3> QED  BY <1>1, <2>2, <3>1 DEF EpmapHandled
  <2> QED  BY <2>4, <2>6, <2>7 DEF ShakeInv
<1>4. CASE Dropped
  <2>1. tosend' = {} /\ tostore' = "none" /\ UNCHANGED <<i2a, a2i, sent, endpoints, epmap_done, ipc>>
    BY <1>4 DEF Dropped, Remaining
  <2> QED  BY <1>1, <1>2, <2>1 DEF ShakeInv, Wires, Handshake, OneShake, NoShake, EpmapHandled
<1>5. CASE Stored
  <2>1. /\ tosend = {} /\ tosend' = {} /\ tostore' = "none" /\ ipc' = "drain"
        /\ epmap_done' = (epmap_done \/ tostore = "epmap_done")
        /\ UNCHANGED <<i2a, a2i, sent, endpoints>>
    BY <1>5 DEF Stored, StoreFlag
  <2>2. epmap_done' => epmap_done \/ tostore = "epmap_done"
    BY <2>1
  <2>3. Wires'
    BY <1>1, <1>2, <2>1 DEF Wires
  <2>4. Handshake'
    BY <1>1, <1>2, <2>1 DEF Handshake, OneShake, NoShake
  <2>5. EpmapHandled'
    BY <1>1, <2>1, <2>2 DEF EpmapHandled
  <2> QED  BY <2>3, <2>4, <2>5 DEF ShakeInv
<1>6. CASE IrqIdles
  <2>1. /\ ipc' \in {"idle", "drain"} /\ ipc # "rx"
        /\ UNCHANGED <<i2a, a2i, sent, tosend, tostore, endpoints, epmap_done>>
    BY <1>6 DEF IrqIdles
  <2> QED  BY <1>1, <1>2, <2>1 DEF ShakeInv, Wires, Handshake, OneShake, NoShake, EpmapHandled
<1> QED  BY <1>1, <1>3, <1>4, <1>5, <1>6, IrqCases, ShakeReceive

\* The coprocessor: each message of the handshake calls forth the next.
LEMMA ShakeFw ==
    ASSUME ShakeInv, FwHello \/ FwHandle \/ \E ep \in BufferEndpoints : FwAsk(ep)
    PROVE  ShakeInv'
<1>1. Wires /\ Handshake /\ EpmapHandled
  BY DEF ShakeInv
<1>2. /\ UNCHANGED <<sent, tosend, tostore, endpoints, epmap_done, ipc>>
      /\ i2a \in Seq(InKnown) /\ a2i \in Seq(OutKnown)
  BY <1>1 DEF FwHello, FwHandle, FwAsk, FwRest, Wires
<1>3. EpmapHandled'
  BY <1>1, <1>2 DEF EpmapHandled
<1>4. CASE FwHello
  <2>1. /\ i2a' = Append(i2a, HelloMsg) /\ fw_hello' = TRUE /\ ~fw_hello
        /\ UNCHANGED <<a2i, epmap_finished, pending_iop>>
    BY <1>4 DEF FwHello, HelloMsg
  <2>2. i2a' \in Seq(InKnown) /\ (NoneIn(i2a, ShakeIn) => OneIn(i2a', ShakeIn))
    BY <1>2, <2>1, InDistinct, IncomingAppend
  <2>3. Wires'
    BY <1>1, <1>2, <2>1, <2>2 DEF Wires
  <2>4. Handshake'
    BY <1>1, <1>2, <2>1, <2>2 DEF Handshake, OneShake, NoShake
  <2> QED  BY <1>3, <2>3, <2>4 DEF ShakeInv
<1>5. ASSUME NEW ep \in BufferEndpoints, FwAsk(ep) PROVE ShakeInv'
  <2>1. i2a' = Append(i2a, RequestMsg(ep)) /\ UNCHANGED <<a2i, fw_hello, epmap_finished, pending_iop>>
    BY <1>5 DEF FwAsk, RequestMsg
  <2>2. /\ i2a' \in Seq(InKnown)
        /\ NoneIn(i2a, ShakeIn) => NoneIn(i2a', ShakeIn)
        /\ OneIn(i2a, ShakeIn) => OneIn(i2a', ShakeIn)
    BY <1>2, <2>1, InDistinct, IncomingAppend
  <2>3. Wires'
    BY <1>1, <1>2, <2>1, <2>2 DEF Wires
  <2>4. Handshake'
    BY <1>1, <1>2, <2>1, <2>2 DEF Handshake, OneShake, NoShake
  <2> QED  BY <1>3, <2>3, <2>4 DEF ShakeInv
<1>6. CASE FwHandle
  <2>1. Taken /\ HandledMsg
    BY <1>1, <1>6, HandleCases
  <2>2. a2i # <<>> /\ a2i' = Tail(a2i) /\ fw_hello' = fw_hello
    BY <2>1 DEF Taken
  <2> PICK h : h = Head(a2i)
    OBVIOUS
  <2>3. /\ a2i' \in Seq(OutKnown) /\ h \in OutKnown
        /\ NoneIn(a2i, ShakeOut) => NoneIn(a2i', ShakeOut) /\ h \notin ShakeOut
        /\ OneIn(a2i, ShakeOut) => OneIn(a2i', ShakeOut)
        /\ OneIn(a2i, ShakeOut) /\ h \in ShakeOut => NoneIn(a2i', ShakeOut)
    BY <1>2, <2>2, OutgoingTail
  <2>4. NoneIn(a2i, EarlyOut) => NoneIn(a2i', EarlyOut) /\ h \notin EarlyOut
    BY <1>2, <2>2, OutgoingTail
  <2>5. Wires'
    <3>1. epmap_finished' \in BOOLEAN /\ pending_iop' \in BOOLEAN
      BY <1>1, <2>1 DEF HandledMsg, Wires, fwVars
    <3>2. i2a' \in Seq(InKnown)
      BY <1>1, <1>2, <2>1, AnswerKnown, IncomingAppend, InDistinct DEF Answer, Silent
    <3> QED  BY <1>1, <1>2, <2>2, <2>3, <3>1, <3>2 DEF Wires
  <2>6. Handshake'
    <3>1. CASE h \in EarlyOut
      <4>1. /\ NoneIn(i2a, ShakeIn) /\ NoneIn(a2i', ShakeOut) /\ tosend \cap ShakeOut = {}
            /\ LastReply \notin sent /\ fw_hello /\ ~epmap_finished
        BY <1>1, <2>3, <2>4, <3>1, OutDistinct DEF Handshake, OneShake, NoShake
      <4>2. /\ \E m \in ShakeIn : Answer(m)
            /\ UNCHANGED <<epmap_finished, pending_iop>>
        <5>1. h = HelloReply \/ h = EpmapReply(0)
          BY <3>1 DEF EarlyOut
        <5>2. /\ h # LastReply /\ h # InitMsg /\ h # SleepMsg /\ h # ApOnMsg /\ h # QuiesceMsg
              /\ h \in ShakeOut /\ \A ep : h # StartMsg(ep)
          BY <3>1, OutDistinct
        <5> QED  BY <2>1, <5>1, <5>2, InDistinct DEF HandledMsg, fwVars
      <4>3. OneIn(i2a', ShakeIn)
        BY <1>2, <4>1, <4>2, IncomingAppend, InDistinct DEF Answer
      <4> QED  BY <1>2, <2>2, <4>1, <4>2, <4>3 DEF Handshake, OneShake
    <3>2. CASE h \notin EarlyOut
      <4>1. /\ NoneIn(i2a, ShakeIn) => NoneIn(i2a', ShakeIn)
            /\ OneIn(i2a, ShakeIn) => OneIn(i2a', ShakeIn)
        <5>1. Silent \/ \E m \in IopIn \cup ApIn : Answer(m)
          BY <2>1, <3>2, OutDistinct, InDistinct DEF HandledMsg
        <5>2. CASE Silent
          BY <5>2 DEF Silent
        <5>3. ASSUME NEW m \in IopIn \cup ApIn, Answer(m)
              PROVE  /\ NoneIn(i2a, ShakeIn) => NoneIn(i2a', ShakeIn)
                     /\ OneIn(i2a, ShakeIn) => OneIn(i2a', ShakeIn)
          <6>1. m \in InKnown /\ m \notin ShakeIn
            BY InDistinct
          <6>2. i2a' = Append(i2a, m)
            BY <5>3 DEF Answer
          <6>3. i2a \in Seq(InKnown)
            BY <1>2
          <6> QED  BY <6>1, <6>2, <6>3, IncomingAppend
        <5> QED  BY <5>1, <5>2, <5>3
      <4>2. epmap_finished' => epmap_finished \/ h = LastReply
        BY <2>1 DEF HandledMsg, fwVars
      <4>3. h = LastReply =>
               NoneIn(a2i', ShakeOut) /\ NoneIn(i2a, ShakeIn) /\ tosend \cap ShakeOut = {} /\ fw_hello
        BY <1>1, <2>3, OutDistinct DEF Handshake, OneShake, NoShake
      <4> QED  BY <1>1, <1>2, <2>2, <2>3, <2>4, <4>1, <4>2, <4>3 DEF Handshake, OneShake, NoShake
    <3> QED  BY <3>1, <3>2
  <2> QED  BY <1>3, <2>5, <2>6 DEF ShakeInv
<1> QED  BY <1>4, <1>5, <1>6

\* Every step keeps the handshake in order.
LEMMA ShakeStep == ASSUME ShakeInv, [FwNext]_allVars PROVE ShakeInv'
<1>1. CASE UNCHANGED allVars
  BY <1>1 DEF ShakeInv, Wires, Handshake, OneShake, NoShake, EpmapHandled, allVars, vars, fwVars
<1> QED  BY <1>1, FwCases, ShakeIrq, ShakeFw, ElsewhereCases, ShakeElsewhere

\* The handshake is in order, whatever is slow or fails.
THEOREM ShakeInvHolds == FwSpec => []ShakeInv
BY ShakeInit, ShakeStep, PTL DEF FwSpec

\* Once epmap_done is set, every announced system endpoint has been started:
\* there is no endpoint map after the last one.
THEOREM EpmapStartsAllHolds == FwSpec => []EpmapStartsAll
<1>1. ShakeInv => EpmapStartsAll
  BY DEF ShakeInv, EpmapHandled, EpmapStartsAll
<1> QED  BY <1>1, ShakeInvHolds, PTL

----------------------------------------------------------------------------
\* A run in which nothing times out or fails: what the probing thread does.

Reliable == ~MayBeSlow /\ ~MayFail

SameAcksAndCpu == UNCHANGED <<iop_acked, ap_acked, cpu_running, irq_requested>>

\* It waits on.
WaitsOn ==
    /\ pc \in WaitPcs /\ pc' = pc
    /\ waiter' \in {"test", "asleep", "passed"} /\ (waiter' = "passed" => Done(pc))
    /\ SameAcksAndCpu /\ UNCHANGED <<wireVars, shmem>>

\* It moves on from a wait, past a test, or to a send.
WaitedMove ==
    /\ pc \in WaitPcs /\ Done(pc)
    /\ <<pc, pc'>> \in {<<"wait_epmap", "wait_iop">>, <<"wait_iop", "check_iop">>,
                        <<"wait_ap", "check_run">>, <<"wait_quiesce", "sleep_iop">>,
                        <<"wait_sleep", "free_irq">>}
    /\ SameAcksAndCpu /\ UNCHANGED <<wireVars, shmem>>
PlainMove ==
    /\ <<pc, pc'>> \in {<<"new", "run">>, <<"check_iop", "clear_ap">>, <<"check_run", "start_fw">>,
                        <<"start_fw", "send_fw">>, <<"start_db", "send_db">>, <<"report", "up">>,
                        <<"up", "shutdown">>, <<"shutdown", "quiesce_ap">>, <<"put", "gone">>}
    /\ SameAcksAndCpu /\ UNCHANGED <<wireVars, shmem>>
SendMove(m) ==
    /\ <<pc, m, pc'>> \in {<<"send_init", InitMsg, "req_irq">>, <<"send_ap", ApOnMsg, "wait_ap">>,
                           <<"send_fw", StartMsg(FIRMWARE), "start_db">>,
                           <<"send_db", StartMsg(DOORBELL), "report">>,
                           <<"send_quiesce", QuiesceMsg, "wait_quiesce">>,
                           <<"send_sleep", SleepMsg, "wait_sleep">>}
    /\ Sends(m) /\ SameAcksAndCpu /\ UNCHANGED shmem
ClearMove ==
    /\ \/ /\ pc = "run" /\ pc' = "send_init" /\ iop_acked' = FALSE /\ cpu_running' = TRUE
          /\ UNCHANGED ap_acked
       \/ /\ pc = "sleep_iop" /\ pc' = "send_sleep" /\ iop_acked' = FALSE
          /\ UNCHANGED <<ap_acked, cpu_running>>
       \/ /\ <<pc, pc'>> \in {<<"clear_ap", "send_ap">>, <<"quiesce_ap", "send_quiesce">>}
          /\ ap_acked' = FALSE /\ UNCHANGED <<iop_acked, cpu_running>>
    /\ UNCHANGED <<wireVars, irq_requested, shmem>>

\* It requests the interrupt, or takes down what boot has set up.
IrqMove ==
    /\ \/ pc = "req_irq" /\ pc' = "wait_epmap" /\ irq_requested' = TRUE
       \/ pc = "free_irq" /\ pc' = "sync_irq" /\ irq_requested' = FALSE
       \/ pc = "free_irq" /\ pc' = "stop" /\ ~irq_requested /\ irq_requested' = FALSE
       \/ pc = "sync_irq" /\ pc' = "stop" /\ ipc = "idle" /\ UNCHANGED irq_requested
    /\ UNCHANGED <<iop_acked, ap_acked, cpu_running, wireVars, shmem>>
StopMove ==
    /\ \/ pc = "stop" /\ pc' = "free" /\ cpu_running' = FALSE /\ UNCHANGED shmem
       \/ pc = "free" /\ pc' = "put" /\ shmem' = {} /\ UNCHANGED cpu_running
    /\ UNCHANGED <<iop_acked, ap_acked, irq_requested, wireVars>>

Moves ==
    WaitedMove \/ PlainMove \/ (\E m \in ProbeMsgs : SendMove(m)) \/ ClearMove \/ IrqMove \/ StopMove

\* The probing thread never gives up: no wait and no send times out, the power
\* states are what boot and shutdown expect and the endpoints are there.
LEMMA ProbeCases ==
    ASSUME Reliable, PowerInv, ProbeStep \/ Teardown
    PROVE  error' = error /\ (WaitsOn \/ (Moves /\ waiter' = "test"))
<1>1. Threads /\ Iop /\ Ap /\ EpmapHandled
  BY DEF PowerInv, ShakeInv
<1>2. error = "none" /\ (pc \notin WaitPcs => waiter = "test")
  BY <1>1 DEF Threads
<1>3. pc \notin {"new", "run", "free", "put", "gone"} => ~Late
  BY <1>1 DEF Threads, Late, Reliable
<1>4. CASE WaitTest
  BY <1>2, <1>4 DEF WaitTest, Satisfied, WaitsOn, SameAcksAndCpu
<1>5. CASE WaitExpire
  BY <1>3, <1>5 DEF WaitExpire, WaitPcs
<1>6. CASE WaitReturn
  <2>1. waiter = "passed" /\ Done(pc)
    BY <1>1, <1>6 DEF Threads, WaitReturn
  <2>2. pc' = AfterWait(pc, TRUE)
    BY <1>2, <1>6, <2>1 DEF WaitReturn
  <2>3. <<pc, pc'>> \in {<<"wait_epmap", "wait_iop">>, <<"wait_iop", "check_iop">>,
                        <<"wait_ap", "check_run">>, <<"wait_quiesce", "sleep_iop">>,
                        <<"wait_sleep", "free_irq">>}
    BY <1>6, <2>2 DEF WaitReturn, WaitPcs, AfterWait
  <2> QED  BY <1>6, <2>1, <2>3 DEF WaitReturn, Moves, WaitedMove, SameAcksAndCpu
<1>7. ASSUME NEW from, NEW m \in ProbeMsgs, NEW ok, NEW ko, Send(from, m, ok, ko), SameAcks,
             from \notin {"new", "run", "free", "put", "gone"},
             UNCHANGED <<hwVars, memVars>>
      PROVE  /\ pc = from /\ pc' = ok /\ error' = error /\ waiter' = waiter /\ Sends(m)
             /\ SameAcksAndCpu /\ UNCHANGED shmem
  BY <1>3, <1>7 DEF Send, Go, MboxSendTimeout, MboxSend, Sends, SameAcks, SameAcksAndCpu
<1>8. /\ InitMsg \in ProbeMsgs /\ ApOnMsg \in ProbeMsgs /\ StartMsg(FIRMWARE) \in ProbeMsgs
      /\ StartMsg(DOORBELL) \in ProbeMsgs /\ QuiesceMsg \in ProbeMsgs /\ SleepMsg \in ProbeMsgs
  BY DEF ProbeMsgs
<1>9. CASE BootSendInit
  <2>1. Send("send_init", InitMsg, "req_irq", "fail")
    BY <1>9 DEF BootSendInit, InitMsg
  <2>2. pc = "send_init" /\ pc' = "req_irq" /\ error' = error /\ waiter' = waiter
        /\ Sends(InitMsg) /\ SameAcksAndCpu /\ UNCHANGED shmem
    BY <1>7, <1>8, <1>9, <2>1 DEF BootSendInit
  <2>3. SendMove(InitMsg)
    BY <2>2 DEF SendMove
  <2> QED  BY <1>2, <1>8, <2>2, <2>3 DEF Moves, WaitPcs
<1>10. CASE BootSendAp
  <2>1. Send("send_ap", ApOnMsg, "wait_ap", "fail")
    BY <1>10 DEF BootSendAp, ApOnMsg
  <2>2. pc = "send_ap" /\ pc' = "wait_ap" /\ error' = error /\ waiter' = waiter
        /\ Sends(ApOnMsg) /\ SameAcksAndCpu /\ UNCHANGED shmem
    BY <1>7, <1>8, <1>10, <2>1 DEF BootSendAp
  <2>3. SendMove(ApOnMsg)
    BY <2>2 DEF SendMove
  <2> QED  BY <1>2, <1>8, <2>2, <2>3 DEF Moves, WaitPcs
<1>11. CASE BootSendFirmware
  <2>1. Send("send_fw", StartMsg(FIRMWARE), "start_db", "fail")
    BY <1>11 DEF BootSendFirmware, StartMsg
  <2>2. pc = "send_fw" /\ pc' = "start_db" /\ error' = error /\ waiter' = waiter
        /\ Sends(StartMsg(FIRMWARE)) /\ SameAcksAndCpu /\ UNCHANGED shmem
    BY <1>7, <1>8, <1>11, <2>1 DEF BootSendFirmware
  <2>3. SendMove(StartMsg(FIRMWARE))
    BY <2>2 DEF SendMove
  <2> QED  BY <1>2, <1>8, <2>2, <2>3 DEF Moves, WaitPcs
<1>12. CASE BootSendDoorbell
  <2>1. Send("send_db", StartMsg(DOORBELL), "report", "fail")
    BY <1>12 DEF BootSendDoorbell, StartMsg
  <2>2. pc = "send_db" /\ pc' = "report" /\ error' = error /\ waiter' = waiter
        /\ Sends(StartMsg(DOORBELL)) /\ SameAcksAndCpu /\ UNCHANGED shmem
    BY <1>7, <1>8, <1>12, <2>1 DEF BootSendDoorbell
  <2>3. SendMove(StartMsg(DOORBELL))
    BY <2>2 DEF SendMove
  <2> QED  BY <1>2, <1>8, <2>2, <2>3 DEF Moves, WaitPcs
<1>13. CASE ShutdownSendQuiesce
  <2>1. Send("send_quiesce", QuiesceMsg, "wait_quiesce", "sleep_iop")
    BY <1>13 DEF ShutdownSendQuiesce, QuiesceMsg
  <2>2. pc = "send_quiesce" /\ pc' = "wait_quiesce" /\ error' = error /\ waiter' = waiter
        /\ Sends(QuiesceMsg) /\ SameAcksAndCpu /\ UNCHANGED shmem
    BY <1>7, <1>8, <1>13, <2>1 DEF ShutdownSendQuiesce
  <2>3. SendMove(QuiesceMsg)
    BY <2>2 DEF SendMove
  <2> QED  BY <1>2, <1>8, <2>2, <2>3 DEF Moves, WaitPcs
<1>14. CASE ShutdownSendSleep
  <2>1. Send("send_sleep", SleepMsg, "wait_sleep", "free_irq")
    BY <1>14 DEF ShutdownSendSleep, SleepMsg
  <2>2. pc = "send_sleep" /\ pc' = "wait_sleep" /\ error' = error /\ waiter' = waiter
        /\ Sends(SleepMsg) /\ SameAcksAndCpu /\ UNCHANGED shmem
    BY <1>7, <1>8, <1>14, <2>1 DEF ShutdownSendSleep
  <2>3. SendMove(SleepMsg)
    BY <2>2 DEF SendMove
  <2> QED  BY <1>2, <1>8, <2>2, <2>3 DEF Moves, WaitPcs
<1>15. CASE BootCheckIop \/ BootCheckRunning \/ Shutdown
  <2>1. Level(PWR_ON) = PWR_ON
    BY DEF Level, PWR_ON
  <2>2. pc \in {"check_iop", "check_run", "shutdown"} => Level(iop_power) = PWR_ON
    BY <1>1, <2>1 DEF Iop, IopOnPcs
  <2>3. pc \in {"check_run", "shutdown"} => Running
    BY <1>1, <2>1, <2>2 DEF Ap, ApOnPcs, Running
  <2>4. PlainMove /\ error' = error /\ waiter' = waiter
    BY <1>15, <2>2, <2>3 DEF BootCheckIop, BootCheckRunning, Shutdown, Go, NoSend, SameAcks,
       PlainMove, SameAcksAndCpu
  <2> QED  BY <1>2, <2>4 DEF Moves, PlainMove, WaitPcs
<1>16. CASE BootStartFirmware \/ BootStartDoorbell
  <2>1. Level(PWR_ON) = PWR_ON
    BY DEF Level, PWR_ON
  <2>2. pc \in {"start_fw", "start_db"} =>
           MayStart(FIRMWARE) /\ MayStart(DOORBELL)
    BY <1>1, <2>1 DEF Threads, AfterEpmap, EpmapHandled, Iop, IopOnPcs, Ap, ApOnPcs, Running, MayStart
  <2>3. PlainMove /\ error' = error /\ waiter' = waiter
    BY <1>16, <2>2 DEF BootStartFirmware, BootStartDoorbell, BootStart, Go, NoSend, SameAcks,
       PlainMove, SameAcksAndCpu
  <2> QED  BY <1>2, <2>3 DEF Moves, PlainMove, WaitPcs
<1>17. CASE BootEnable \/ BootReport \/ Teardown \/ RemovePut
  <2>1. PlainMove /\ error' = error /\ waiter' = waiter
    BY <1>17 DEF BootEnable, BootReport, Teardown, RemovePut, Go, NoSend, SameAcks,
       PlainMove, SameAcksAndCpu
  <2> QED  BY <1>2, <2>1 DEF Moves, PlainMove, WaitPcs
<1>18. CASE BootRun \/ BootClearAp \/ ShutdownQuiesceAp \/ ShutdownSleepIop
  <2>1. ClearMove /\ error' = error /\ waiter' = waiter
    BY <1>18 DEF BootRun, BootClearAp, ShutdownQuiesceAp, ShutdownSleepIop, Go, NoSend, ClearMove
  <2> QED  BY <1>2, <2>1 DEF Moves, ClearMove, WaitPcs
<1>19. CASE BootRequestIrq \/ RemoveFreeIrq \/ RemoveSyncIrq
  <2>1. IrqMove /\ error' = error /\ waiter' = waiter
    BY <1>1, <1>19 DEF BootRequestIrq, RemoveFreeIrq, RemoveSyncIrq, Go, NoSend, SameAcks,
       IrqMove, Reliable, Threads
  <2> QED  BY <1>2, <2>1 DEF Moves, IrqMove, WaitPcs
<1>20. CASE RemoveStop \/ RemoveFree
  <2>1. StopMove /\ error' = error /\ waiter' = waiter
    BY <1>20 DEF RemoveStop, RemoveFree, Go, NoSend, SameAcks, StopMove
  <2> QED  BY <1>2, <2>1 DEF Moves, StopMove, WaitPcs
<1>21. CASE BootFail
  BY <1>1, <1>21 DEF BootFail, Go, Threads
<1> QED
  BY <1>4, <1>5, <1>6, <1>9, <1>10, <1>11, <1>12, <1>13, <1>14, <1>15, <1>16, <1>17, <1>18,
     <1>19, <1>20, <1>21 DEF ProbeStep, BootStep, WaitStep, RemoveStep

\* The GPU senders touch the wire only.
LEMMA GpuCases ==
    ASSUME GpuStep
    PROVE  /\ UNCHANGED wireVars \/ \E ep \in GpuEndpoints : Sends(Out(ep, "GPU", 0))
           /\ GpuRest
BY DEF GpuStep, GpuCheck, GpuSend, MboxSend, MboxSendTimeout, Sends

\* The probing thread keeps its own part of the invariant.
LEMMA ThreadsProbe ==
    ASSUME Reliable, PowerInv, ProbeStep \/ Teardown, UNCHANGED fwVars
    PROVE  Threads'
<1>1. Threads
  BY DEF PowerInv
<1>2. UNCHANGED <<ipc, epmap_done>>
  BY ElsewhereCases DEF Elsewhere
<1>3. error' = "none"
  BY <1>1, ProbeCases DEF Threads
<1>4. CASE WaitsOn
  <2>1. waiter' = "passed" => Done(pc)'
    BY <1>2, <1>4 DEF WaitsOn, Done, SameAcksAndCpu, WaitPcs
  <2> QED  BY <1>1, <1>2, <1>3, <1>4, <2>1 DEF Threads, WaitsOn, SameAcksAndCpu
<1>5. CASE Moves /\ waiter' = "test"
  <2> DEFINE Rest ==
        /\ pc' \in Pcs \ {"fail"}
        /\ cpu_running' <=> pc' \notin {"new", "run", "free", "put", "gone"}
        /\ irq_requested' => pc' \notin {"new", "run", "send_init", "req_irq", "sync_irq",
                                         "stop", "free", "put", "gone"}
        /\ ipc' # "idle" => irq_requested' \/ pc' = "sync_irq"
        /\ pc' \in AfterEpmap \cup RemovePcs \cup {"gone"} => epmap_done'
  <2> SUFFICES Rest
    BY <1>3, <1>5 DEF Threads
  <2> USE DEF Pcs, BootPcs, RemovePcs, AfterEpmap
  <2>1. CASE WaitedMove
    BY <1>1, <1>2, <2>1 DEF Threads, WaitedMove, SameAcksAndCpu, Done
  <2>2. CASE PlainMove
    BY <1>1, <1>2, <2>2 DEF Threads, PlainMove, SameAcksAndCpu
  <2>3. CASE \E m \in ProbeMsgs : SendMove(m)
    BY <1>1, <1>2, <2>3 DEF Threads, SendMove, SameAcksAndCpu
  <2>4. CASE ClearMove
    BY <1>1, <1>2, <2>4 DEF Threads, ClearMove
  <2>5. CASE IrqMove
    BY <1>1, <1>2, <2>5 DEF Threads, IrqMove
  <2>6. CASE StopMove
    BY <1>1, <1>2, <2>6 DEF Threads, StopMove
  <2> QED  BY <1>5, <2>1, <2>2, <2>3, <2>4, <2>5, <2>6 DEF Moves
<1> QED  BY <1>4, <1>5, ProbeCases

\* The flags a handler stores, and its wake-up, are all the probing thread
\* sees of the interrupt thread.
LEMMA IrqFlags ==
    ASSUME Wires, IrqStep
    PROVE  /\ waiter' \in {waiter, "test"} /\ (ipc = "idle" => irq_requested)
           /\ epmap_done => epmap_done'
           /\ iop_acked => iop_acked'
           /\ ap_acked => ap_acked'
<1>1. waiter' \in {waiter, "test"} /\ (ipc = "idle" => irq_requested)
  BY DEF IrqStep, Irq, IrqRecv, IrqGetBuffer, Recv, IrqSend, IrqDone, IrqExit
<1>2. CASE IrqDone
  BY <1>1, <1>2, Zenon DEF IrqDone, StoreFlag
<1>3. CASE ~IrqDone
  <2>1. UNCHANGED flagVars
    <3>1. CASE i2a # <<>> /\ (IrqRecv(Head(i2a)) \/ IrqGetBuffer(Head(i2a)))
      BY <3>1, ReceiveCases DEF Received
    <3> QED  BY <1>3, <3>1 DEF IrqStep, Irq, IrqSend, IrqExit
  <2> QED  BY <1>1, <2>1
<1> QED  BY <1>2, <1>3

\* No handler fails: no endpoint asks twice and no send times out.
LEMMA IrqSucceeds ==
    ASSUME Reliable, PowerInv, IrqStep
    PROVE  error' = error /\ ~Dropped
<1>1. Wires /\ Threads /\ Requests
  BY DEF PowerInv, ShakeInv
<1>2. ~Dropped
  <2>1. ipc = "rx" => cpu_running
    BY <1>1 DEF Threads
  <2> QED  BY <2>1 DEF Dropped, Late, Reliable
<1>3. CASE i2a # <<>> /\ (IrqRecv(Head(i2a)) \/ IrqGetBuffer(Head(i2a)))
  <2>1. ASSUME NEW ep \in BufferEndpoints, GotRequest(ep) PROVE error' = error
    <3>1. ~NoneIn(i2a, {RequestMsg(ep)})
      <4>1. i2a[1] = RequestMsg(ep) /\ 1 \in 1..Len(i2a)
        BY <1>1, <1>3, <2>1 DEF GotRequest, Wires
      <4> QED  BY <4>1 DEF NoneIn
    <3>2. ep \notin shmem
      BY <1>1, <3>1 DEF Requests, OneRequest
    <3> QED  BY <2>1, <3>2 DEF GotRequest, Reliable
  <2> QED
    BY <1>1, <1>2, <1>3, <2>1, ReceiveCases DEF GotHello, GotEpmap, GotIopAck, GotApAck
<1>4. CASE (\E m \in tosend : Posted(m)) \/ Stored \/ IrqIdles
  BY <1>2, <1>4 DEF Posted, Stored, StoreFlag, IrqIdles
<1> QED  BY <1>1, <1>2, <1>3, <1>4, IrqCases

\* The other threads leave the probing thread's part alone.
LEMMA ThreadsOthers ==
    ASSUME Reliable, PowerInv,
           \/ IrqStep
           \/ GpuStep \/ FwHello \/ FwHandle \/ (\E ep \in BufferEndpoints : FwAsk(ep))
    PROVE  Threads'
<1>1. Wires /\ Threads
  BY DEF PowerInv, ShakeInv
<1>2. CASE IrqStep
  <2>1. UNCHANGED <<pc, cpu_running, irq_requested>> /\ error' = "none"
    BY <1>1, <1>2, IrqCases, IrqSucceeds DEF Threads
  <2>2. waiter' = "passed" => Done(pc)'
    BY <1>1, <1>2, <2>1, IrqFlags DEF Threads, Done, WaitPcs
  <2>3. ipc' # "idle" => irq_requested \/ pc = "sync_irq"
    BY <1>1, <1>2, IrqFlags DEF Threads
  <2> QED  BY <1>1, <1>2, <2>1, <2>2, <2>3, IrqFlags DEF Threads
<1>3. CASE GpuStep \/ FwHello \/ FwHandle \/ (\E ep \in BufferEndpoints : FwAsk(ep))
  <2>1. UNCHANGED <<rtkVars, pc, waiter, ipc, hwVars>>
    BY <1>3, GpuCases DEF GpuRest, FwHello, FwHandle, FwAsk, FwRest
  <2> QED  BY <1>1, <2>1 DEF Threads, Done
<1> QED  BY <1>2, <1>3

----------------------------------------------------------------------------
\* No endpoint asks for its buffer twice.

\* Nothing about the requests of ep changes but that messages of other sorts
\* come and go.
LEMMA RequestKept ==
    ASSUME NEW ep \in BufferEndpoints, OneRequest(ep),
           LastReply \notin sent /\ tostore # "epmap_done" => NoRequest(ep),
           StartMsg(ep) \in tosend' => StartMsg(ep) \in tosend,
           LastReply \in sent \/ tostore = "epmap_done" => LastReply \in sent' \/ tostore' = "epmap_done",
           ep \in fw_asking' => ep \in fw_asking,
           ep \in shmem' => ep \in shmem,
           NoneIn(a2i, {StartMsg(ep)}) => NoneIn(a2i', {StartMsg(ep)}),
           OneIn(a2i, {StartMsg(ep)}) => OneIn(a2i', {StartMsg(ep)}),
           NoneIn(i2a, {RequestMsg(ep)}) => NoneIn(i2a', {RequestMsg(ep)}),
           OneIn(i2a, {RequestMsg(ep)}) => OneIn(i2a', {RequestMsg(ep)})
    PROVE  /\ OneRequest(ep)'
           /\ (LastReply \notin sent /\ tostore # "epmap_done" => NoRequest(ep))'
BY DEF OneRequest, NoRequest

\* The kernel's other threads.
LEMMA RequestsElsewhere ==
    ASSUME Wires, Requests, Elsewhere, shmem' \in {shmem, {}}
    PROVE  Requests'
<1> SUFFICES ASSUME NEW ep \in BufferEndpoints
             PROVE  /\ OneRequest(ep)'
                    /\ (LastReply \notin sent /\ tostore # "epmap_done" => NoRequest(ep))'
  BY DEF Requests
<1>1. /\ OneRequest(ep) /\ (LastReply \notin sent /\ tostore # "epmap_done" => NoRequest(ep))
      /\ UNCHANGED <<i2a, tosend, tostore, fw_asking>> /\ a2i \in Seq(OutKnown)
  BY DEF Requests, Elsewhere, fwVars, Wires
<1>2. /\ sent \subseteq sent'
      /\ NoneIn(a2i, {StartMsg(ep)}) => NoneIn(a2i', {StartMsg(ep)})
      /\ OneIn(a2i, {StartMsg(ep)}) => OneIn(a2i', {StartMsg(ep)})
  <2>1. CASE UNCHANGED wireVars
    BY <2>1
  <2>2. ASSUME NEW m \in ProbeMsgs, Sends(m)
        PROVE  /\ sent \subseteq sent'
               /\ NoneIn(a2i, {StartMsg(ep)}) => NoneIn(a2i', {StartMsg(ep)})
               /\ OneIn(a2i, {StartMsg(ep)}) => OneIn(a2i', {StartMsg(ep)})
    <3>1. m \in OutKnown /\ m \notin {StartMsg(ep)} /\ a2i' = Append(a2i, m) /\ sent \subseteq sent'
      BY <2>2, OutDistinct DEF Sends
    <3> QED  BY <1>1, <3>1, OutgoingAppend
  <2> QED  BY <2>1, <2>2 DEF Elsewhere
<1> QED  BY <1>1, <1>2, RequestKept

\* Receiving: the last endpoint map leaves endpoints to be started, and a
\* request is served.
LEMMA RequestsReceive ==
    ASSUME ShakeInv, Requests, i2a # <<>>, IrqRecv(Head(i2a)) \/ IrqGetBuffer(Head(i2a)),
           UNCHANGED fwVars
    PROVE  Requests'
<1>1. Wires /\ Handshake
  BY DEF ShakeInv
<1>2. /\ Received
      /\ \/ GotHello \/ GotEpmap(0) \/ GotEpmap(1)
         \/ GotIopAck(PWR_ON) \/ GotIopAck(PWR_SLEEP)
         \/ GotApAck(PWR_ON) \/ GotApAck(PWR_QUIESCED)
         \/ \E ep \in BufferEndpoints : GotRequest(ep)
  BY <1>1, ReceiveCases
<1>3. /\ tosend = {} /\ tostore = "none" /\ i2a' = Tail(i2a) /\ i2a \in Seq(InKnown)
      /\ UNCHANGED <<a2i, sent, fw_asking>>
  BY <1>1, <1>2 DEF Received, fwVars, Wires
<1> SUFFICES ASSUME NEW ep \in BufferEndpoints
             PROVE  /\ OneRequest(ep)'
                    /\ (LastReply \notin sent /\ tostore # "epmap_done" => NoRequest(ep))'
  BY DEF Requests
<1>4. OneRequest(ep) /\ (LastReply \notin sent /\ tostore # "epmap_done" => NoRequest(ep))
  BY DEF Requests
<1>5. /\ NoneIn(i2a, {RequestMsg(ep)}) => NoneIn(i2a', {RequestMsg(ep)}) /\ Head(i2a) # RequestMsg(ep)
      /\ OneIn(i2a, {RequestMsg(ep)}) => OneIn(i2a', {RequestMsg(ep)})
      /\ OneIn(i2a, {RequestMsg(ep)}) /\ Head(i2a) = RequestMsg(ep) => NoneIn(i2a', {RequestMsg(ep)})
  BY <1>3, IncomingTail
<1>6. CASE GotEpmap(1)
  <2>1. ~NoneIn(i2a, ShakeIn)
    BY <1>3, <1>6, InDistinct, IncomingTail DEF GotEpmap
  <2>2. LastReply \notin sent
    BY <1>1, <2>1 DEF Handshake
  <2>3. NoRequest(ep) /\ shmem' = shmem /\ tostore' = "epmap_done"
    BY <1>3, <1>4, <1>6, <2>2 DEF GotEpmap, Remaining
  <2>4. NoneIn(a2i', {StartMsg(ep)}) /\ NoneIn(i2a', {RequestMsg(ep)})
        /\ ep \notin fw_asking' /\ ep \notin shmem'
    BY <1>3, <1>5, <2>3 DEF NoRequest
  <2>5. OneIn(a2i', {StartMsg(ep)}) /\ OneIn(i2a', {RequestMsg(ep)})
    BY <2>4, NoneIsOne
  <2> QED  BY <2>3, <2>4, <2>5 DEF OneRequest
<1>7. CASE GotRequest(ep)
  <2>1. NoneIn(i2a', {RequestMsg(ep)}) /\ ~NoneIn(i2a, {RequestMsg(ep)})
    BY <1>4, <1>5, <1>7 DEF GotRequest, OneRequest
  <2>2. OneIn(i2a', {RequestMsg(ep)})
    BY <2>1, NoneIsOne
  <2>3. NoneIn(a2i, {StartMsg(ep)}) /\ ep \notin fw_asking /\ OneIn(a2i, {StartMsg(ep)})
    BY <1>4, <2>1 DEF OneRequest
  <2>4. StartMsg(ep) \notin tosend' /\ LastReply \in sent
    BY <1>3, <1>4, <1>7, <2>1, OutDistinct DEF GotRequest, NoRequest
  <2> QED  BY <1>3, <2>1, <2>2, <2>3, <2>4 DEF OneRequest
<1>8. CASE ~GotEpmap(1) /\ ~GotRequest(ep)
  <2>1. StartMsg(ep) \notin tosend' /\ (ep \in shmem' => ep \in shmem)
    BY <1>2, <1>8, OutDistinct
       DEF GotHello, GotEpmap, GotIopAck, GotApAck, GotRequest, Remaining, ShakeOut
  <2> QED  BY <1>3, <1>4, <1>5, <2>1, RequestKept
<1> QED  BY <1>6, <1>7, <1>8

\* The rest of the interrupt thread.
LEMMA RequestsIrq ==
    ASSUME Reliable, PowerInv, IrqStep, UNCHANGED fwVars
    PROVE  Requests'
<1>1. ShakeInv /\ Wires /\ Handshake /\ EpmapHandled /\ Requests
  BY DEF PowerInv, ShakeInv
<1>2. CASE i2a # <<>> /\ (IrqRecv(Head(i2a)) \/ IrqGetBuffer(Head(i2a)))
  BY <1>1, <1>2, RequestsReceive
<1> SUFFICES ASSUME NEW ep \in BufferEndpoints,
                    ~(i2a # <<>> /\ (IrqRecv(Head(i2a)) \/ IrqGetBuffer(Head(i2a))))
             PROVE  /\ OneRequest(ep)'
                    /\ (LastReply \notin sent /\ tostore # "epmap_done" => NoRequest(ep))'
  BY <1>2 DEF Requests
<1>3. OneRequest(ep) /\ (LastReply \notin sent /\ tostore # "epmap_done" => NoRequest(ep))
  BY <1>1 DEF Requests
<1>4. ASSUME NEW m \in tosend, Posted(m)
      PROVE  /\ OneRequest(ep)'
             /\ (LastReply \notin sent /\ tostore # "epmap_done" => NoRequest(ep))'
  <2>1. /\ a2i' = Append(a2i, m) /\ sent' = sent \cup {m} /\ tosend' = tosend \ {m}
        /\ UNCHANGED <<i2a, tostore, shmem, fw_asking>>
        /\ a2i \in Seq(OutKnown) /\ m \in OutKnown
    BY <1>1, <1>4, OutDistinct DEF Posted, Sends, Wires, fwVars
  <2>2. /\ NoneIn(a2i, {StartMsg(ep)}) => OneIn(a2i', {StartMsg(ep)})
        /\ m # StartMsg(ep) =>
              /\ NoneIn(a2i, {StartMsg(ep)}) => NoneIn(a2i', {StartMsg(ep)})
              /\ OneIn(a2i, {StartMsg(ep)}) => OneIn(a2i', {StartMsg(ep)})
    BY <2>1, OutgoingAppend
  <2>3. CASE m = StartMsg(ep)
    <3>1. /\ NoneIn(a2i, {StartMsg(ep)}) /\ ep \notin fw_asking /\ NoneIn(i2a, {RequestMsg(ep)})
          /\ ep \notin shmem /\ OneIn(i2a, {RequestMsg(ep)})
      BY <1>3, <1>4, <2>3 DEF OneRequest
    <3>2. LastReply \in sent \/ tostore = "epmap_done"
      BY <1>3, <1>4, <2>3 DEF NoRequest
    <3> QED  BY <2>1, <2>2, <2>3, <3>1, <3>2 DEF OneRequest
  <2>4. CASE m # StartMsg(ep)
    BY <1>3, <2>1, <2>2, <2>4, RequestKept
  <2> QED  BY <2>3, <2>4
<1>5. CASE Stored
  <2>1. /\ tosend = {} /\ tosend' = {} /\ tostore' = "none"
        /\ UNCHANGED <<i2a, a2i, sent, shmem, fw_asking>>
    BY <1>5 DEF Stored, StoreFlag, fwVars
  <2>2. tostore = "epmap_done" => LastReply \in sent
    BY <1>1, <2>1 DEF EpmapHandled
  <2> QED  BY <1>3, <2>1, <2>2, RequestKept
<1>6. CASE IrqIdles
  <2>1. UNCHANGED <<i2a, a2i, sent, tosend, tostore, shmem, fw_asking>>
    BY <1>6 DEF IrqIdles, fwVars
  <2> QED  BY <1>3, <2>1, RequestKept
<1> QED  BY <1>1, <1>4, <1>5, <1>6, IrqCases, IrqSucceeds

\* The coprocessor: an endpoint that was started asks.
LEMMA RequestsFw ==
    ASSUME ShakeInv, Requests, FwHello \/ FwHandle \/ \E ep \in BufferEndpoints : FwAsk(ep)
    PROVE  Requests'
<1>1. Wires
  BY DEF ShakeInv
<1>2. /\ UNCHANGED <<sent, tosend, tostore, shmem>>
      /\ i2a \in Seq(InKnown) /\ a2i \in Seq(OutKnown)
  BY <1>1 DEF FwHello, FwHandle, FwAsk, FwRest, Wires
<1> SUFFICES ASSUME NEW ep \in BufferEndpoints
             PROVE  /\ OneRequest(ep)'
                    /\ (LastReply \notin sent /\ tostore # "epmap_done" => NoRequest(ep))'
  BY DEF Requests
<1>3. OneRequest(ep) /\ (LastReply \notin sent /\ tostore # "epmap_done" => NoRequest(ep))
  BY DEF Requests
<1>4. ASSUME NEW m \in InKnown, i2a' = Append(i2a, m), m # RequestMsg(ep)
      PROVE  /\ NoneIn(i2a, {RequestMsg(ep)}) => NoneIn(i2a', {RequestMsg(ep)})
             /\ OneIn(i2a, {RequestMsg(ep)}) => OneIn(i2a', {RequestMsg(ep)})
  BY <1>2, <1>4, IncomingAppend
<1>5. CASE FwHello
  <2>1. /\ i2a' = Append(i2a, HelloMsg) /\ HelloMsg \in InKnown /\ HelloMsg # RequestMsg(ep)
        /\ UNCHANGED <<a2i, fw_asking>>
    BY <1>5, InDistinct DEF FwHello, HelloMsg
  <2>2. /\ NoneIn(i2a, {RequestMsg(ep)}) => NoneIn(i2a', {RequestMsg(ep)})
        /\ OneIn(i2a, {RequestMsg(ep)}) => OneIn(i2a', {RequestMsg(ep)})
    BY <1>4, <2>1
  <2> QED  BY <1>2, <1>3, <2>1, <2>2, RequestKept
<1>6. ASSUME NEW e \in BufferEndpoints, FwAsk(e)
      PROVE  /\ OneRequest(ep)'
             /\ (LastReply \notin sent /\ tostore # "epmap_done" => NoRequest(ep))'
  <2>1. /\ i2a' = Append(i2a, RequestMsg(e)) /\ RequestMsg(e) \in InKnown /\ e \in fw_asking
        /\ fw_asking' = fw_asking \ {e} /\ UNCHANGED a2i
    BY <1>6, InDistinct DEF FwAsk, RequestMsg
  <2>2. CASE e = ep
    <3>1. NoneIn(i2a, {RequestMsg(ep)}) /\ ep \notin shmem /\ OneIn(a2i, {StartMsg(ep)})
          /\ NoneIn(a2i, {StartMsg(ep)}) /\ StartMsg(ep) \notin tosend
          /\ ~(LastReply \notin sent /\ tostore # "epmap_done")
      BY <1>3, <2>1, <2>2 DEF OneRequest, NoRequest
    <3>2. OneIn(i2a', {RequestMsg(ep)})
      BY <1>2, <2>1, <3>1, IncomingAppend
    <3> QED  BY <1>2, <2>1, <2>2, <3>1, <3>2 DEF OneRequest
  <2>3. CASE e # ep
    <3>1. /\ NoneIn(i2a, {RequestMsg(ep)}) => NoneIn(i2a', {RequestMsg(ep)})
          /\ OneIn(i2a, {RequestMsg(ep)}) => OneIn(i2a', {RequestMsg(ep)})
      BY <1>4, <2>1, <2>3, InDistinct
    <3> QED  BY <1>2, <1>3, <2>1, <3>1, RequestKept
  <2> QED  BY <2>2, <2>3
<1>7. CASE FwHandle
  <2>1. Taken /\ HandledMsg
    BY <1>1, <1>7, HandleCases
  <2>2. a2i # <<>> /\ a2i' = Tail(a2i)
    BY <2>1 DEF Taken
  <2>3. /\ NoneIn(a2i, {StartMsg(ep)}) => NoneIn(a2i', {StartMsg(ep)}) /\ Head(a2i) # StartMsg(ep)
        /\ OneIn(a2i, {StartMsg(ep)}) => OneIn(a2i', {StartMsg(ep)})
        /\ OneIn(a2i, {StartMsg(ep)}) /\ Head(a2i) = StartMsg(ep) => NoneIn(a2i', {StartMsg(ep)})
    BY <1>2, <2>2, OutgoingTail
  <2>4. /\ NoneIn(i2a, {RequestMsg(ep)}) => NoneIn(i2a', {RequestMsg(ep)})
        /\ OneIn(i2a, {RequestMsg(ep)}) => OneIn(i2a', {RequestMsg(ep)})
    <3>1. CASE Silent
      BY <3>1 DEF Silent
    <3>2. ASSUME NEW m \in ShakeIn \cup IopIn \cup ApIn, Answer(m)
          PROVE  /\ NoneIn(i2a, {RequestMsg(ep)}) => NoneIn(i2a', {RequestMsg(ep)})
                 /\ OneIn(i2a, {RequestMsg(ep)}) => OneIn(i2a', {RequestMsg(ep)})
      <4>1. m \in InKnown /\ m # RequestMsg(ep) /\ i2a' = Append(i2a, m)
        BY <3>2, InDistinct DEF Answer
      <4> QED  BY <1>4, <4>1
    <3> QED  BY <1>1, <2>1, <3>1, <3>2, AnswerKnown
  <2>5. CASE Head(a2i) = StartMsg(ep)
    <3>1. ~NoneIn(a2i, {StartMsg(ep)})
      BY <2>3, <2>5
    <3>2. /\ NoneIn(a2i', {StartMsg(ep)}) /\ NoneIn(i2a, {RequestMsg(ep)}) /\ ep \notin shmem
          /\ OneIn(i2a, {RequestMsg(ep)}) /\ OneIn(a2i', {StartMsg(ep)}) /\ StartMsg(ep) \notin tosend
          /\ ~(LastReply \notin sent /\ tostore # "epmap_done")
      BY <1>3, <2>3, <2>5, <3>1 DEF OneRequest, NoRequest
    <3> QED  BY <1>2, <2>4, <3>2 DEF OneRequest
  <2>6. CASE Head(a2i) # StartMsg(ep)
    <3>1. ep \in fw_asking' => ep \in fw_asking
      BY <2>1, <2>6 DEF HandledMsg, fwVars
    <3> QED  BY <1>2, <1>3, <2>3, <2>4, <3>1, RequestKept
  <2> QED  BY <2>5, <2>6
<1> QED  BY <1>5, <1>6, <1>7

----------------------------------------------------------------------------
\* The power of the IOP.

\* The tokens stay where they are.
LEMMA IopKept ==
    ASSUME Iop, UNCHANGED <<pc, iop_acked, iop_power, tostore, pending_iop, epmap_finished>>,
           SleepMsg \in sent' => SleepMsg \in sent,
           \A T \in {IopOut, {InitMsg}, {SleepMsg}} :
              (NoneIn(a2i, T) => NoneIn(a2i', T)) /\ (OneIn(a2i, T) => OneIn(a2i', T)),
           \A T \in {IopIn, {IopAckMsg(PWR_ON)}, {IopAckMsg(PWR_SLEEP)}} :
              (NoneIn(i2a, T) => NoneIn(i2a', T)) /\ (OneIn(i2a, T) => OneIn(i2a', T))
    PROVE  Iop'
<1>1. UNCHANGED Held
  BY DEF Held
<1>2. /\ (NoneIn(a2i, IopOut) => NoneIn(a2i', IopOut)) /\ (OneIn(a2i, IopOut) => OneIn(a2i', IopOut))
      /\ NoneIn(a2i, {InitMsg}) => NoneIn(a2i', {InitMsg})
      /\ NoneIn(a2i, {SleepMsg}) => NoneIn(a2i', {SleepMsg})
  BY Zenon
<1>3. /\ (NoneIn(i2a, IopIn) => NoneIn(i2a', IopIn)) /\ (OneIn(i2a, IopIn) => OneIn(i2a', IopIn))
      /\ NoneIn(i2a, {IopAckMsg(PWR_ON)}) => NoneIn(i2a', {IopAckMsg(PWR_ON)})
      /\ NoneIn(i2a, {IopAckMsg(PWR_SLEEP)}) => NoneIn(i2a', {IopAckMsg(PWR_SLEEP)})
  BY Zenon
<1>4. OneIop'
  BY <1>1, <1>2, <1>3 DEF Iop, OneIop
<1>5. IopQuiet => IopQuiet'
  BY <1>1, <1>2, <1>3 DEF IopQuiet
<1> QED  BY <1>1, <1>2, <1>3, <1>4, <1>5 DEF Iop

\* No token of either sort: none of any one message.
LEMMA IopNone ==
    /\ NoneIn(a2i, IopOut) => NoneIn(a2i, {InitMsg}) /\ NoneIn(a2i, {SleepMsg})
    /\ NoneIn(i2a, IopIn) => NoneIn(i2a, {IopAckMsg(PWR_ON)}) /\ NoneIn(i2a, {IopAckMsg(PWR_SLEEP)})
BY OutDistinct, InDistinct DEF NoneIn

\* A message that has nothing to do with the IOP's power.
LEMMA IopSent ==
    ASSUME Wires, NEW m \in OutKnown, m \notin IopOut, Sends(m)
    PROVE  /\ SleepMsg \in sent' => SleepMsg \in sent
           /\ \A T \in {IopOut, {InitMsg}, {SleepMsg}} :
                 (NoneIn(a2i, T) => NoneIn(a2i', T)) /\ (OneIn(a2i, T) => OneIn(a2i', T))
<1>1. m # InitMsg /\ m # SleepMsg /\ a2i' = Append(a2i, m) /\ sent' = sent \cup {m}
      /\ a2i \in Seq(OutKnown)
  BY OutDistinct DEF Sends, Wires
<1>2. ASSUME NEW T \in {IopOut, {InitMsg}, {SleepMsg}}
      PROVE  (NoneIn(a2i, T) => NoneIn(a2i', T)) /\ (OneIn(a2i, T) => OneIn(a2i', T))
  <2>1. m \notin T
    BY <1>1, <1>2
  <2> QED  BY <1>1, <2>1, OutgoingAppend
<1> QED  BY <1>1, <1>2

\* An answer that has nothing to do with the IOP's power.
LEMMA IopAnswered ==
    ASSUME Wires, NEW m \in InKnown, m \notin IopIn, i2a' = Append(i2a, m)
    PROVE  \A T \in {IopIn, {IopAckMsg(PWR_ON)}, {IopAckMsg(PWR_SLEEP)}} :
              (NoneIn(i2a, T) => NoneIn(i2a', T)) /\ (OneIn(i2a, T) => OneIn(i2a', T))
<1> SUFFICES ASSUME NEW T \in {IopIn, {IopAckMsg(PWR_ON)}, {IopAckMsg(PWR_SLEEP)}}
             PROVE  (NoneIn(i2a, T) => NoneIn(i2a', T)) /\ (OneIn(i2a, T) => OneIn(i2a', T))
  OBVIOUS
<1>1. m \notin T
  BY InDistinct
<1> QED  BY <1>1, IncomingAppend DEF Wires

\* The probing thread: INIT and SLEEP go out when no earlier answer is due.
LEMMA IopProbe ==
    ASSUME Reliable, PowerInv, ProbeStep \/ Teardown, UNCHANGED fwVars
    PROVE  Iop'
<1>1. Wires /\ Threads /\ Iop
  BY DEF PowerInv, ShakeInv
<1>2. UNCHANGED <<i2a, tostore, iop_power, pending_iop, epmap_finished, epmap_done>>
  BY ElsewhereCases DEF Elsewhere, fwVars
<1>3. UNCHANGED Held
  BY <1>2 DEF Held
<1>4. UNCHANGED wireVars => (IopQuiet' <=> IopQuiet) /\ (OneIop' <=> OneIop)
  BY <1>2, <1>3 DEF IopQuiet, OneIop
<1>5. CASE WaitsOn
  BY <1>1, <1>2, <1>3, <1>4, <1>5 DEF WaitsOn, SameAcksAndCpu, Iop
<1>6. ASSUME WaitedMove \/ PlainMove \/ ClearMove \/ IrqMove \/ StopMove PROVE Iop'
  <2>1. UNCHANGED wireVars /\ (IopQuiet' <=> IopQuiet) /\ (OneIop' <=> OneIop)
    BY <1>4, <1>6 DEF WaitedMove, PlainMove, ClearMove, IrqMove, StopMove
  <2> USE DEF IopWaitPcs, IopOnPcs, AsleepPcs
  <2>2. CASE WaitedMove
    BY <1>1, <1>2, <1>3, <2>1, <2>2 DEF WaitedMove, SameAcksAndCpu, Done, Iop
  <2>3. CASE PlainMove
    BY <1>1, <1>2, <1>3, <2>1, <2>3 DEF PlainMove, SameAcksAndCpu, Iop
  <2>4. CASE ClearMove
    BY <1>1, <1>2, <1>3, <2>1, <2>4 DEF ClearMove, Iop
  <2>5. CASE IrqMove
    BY <1>1, <1>2, <1>3, <2>1, <2>5 DEF IrqMove, Iop
  <2>6. CASE StopMove
    BY <1>1, <1>2, <1>3, <2>1, <2>6 DEF StopMove, Iop
  <2> QED  BY <1>6, <2>2, <2>3, <2>4, <2>5, <2>6
<1>7. ASSUME NEW m \in ProbeMsgs, SendMove(m), m \in IopOut PROVE Iop'
  <2>1. /\ \/ pc = "send_init" /\ m = InitMsg /\ pc' = "req_irq"
           \/ pc = "send_sleep" /\ m = SleepMsg /\ pc' = "wait_sleep"
        /\ Sends(m) /\ iop_acked' = iop_acked
    BY <1>7, OutDistinct DEF SendMove, SameAcksAndCpu
  <2>2. IopQuiet /\ ~iop_acked
    BY <1>1, <2>1 DEF Iop, IopOnPcs
  <2>3. /\ NoneIn(a2i, IopOut) /\ NoneIn(i2a, IopIn) /\ ~Held /\ tostore # "iop_acked"
        /\ NoneIn(a2i, {InitMsg}) /\ NoneIn(a2i, {SleepMsg})
        /\ NoneIn(i2a, {IopAckMsg(PWR_ON)}) /\ NoneIn(i2a, {IopAckMsg(PWR_SLEEP)})
    BY <2>2, IopNone DEF IopQuiet
  <2>4. a2i' = Append(a2i, m) /\ sent' = sent \cup {m} /\ a2i \in Seq(OutKnown) /\ m \in OutKnown
    BY <1>1, <2>1, OutDistinct DEF Sends, Wires
  <2>5. OneIn(a2i', IopOut)
    BY <2>3, <2>4, OutgoingAppend
  <2>6. m = InitMsg => NoneIn(a2i', {SleepMsg})
    BY <2>3, <2>4, OutgoingAppend, OutDistinct
  <2>7. m = SleepMsg => NoneIn(a2i', {InitMsg})
    BY <2>3, <2>4, OutgoingAppend, OutDistinct
  <2>8. OneIop'
    BY <1>2, <1>3, <2>3, <2>5 DEF OneIop
  <2> QED
    BY <1>1, <1>2, <1>3, <2>1, <2>2, <2>3, <2>4, <2>6, <2>7, <2>8, OutDistinct
       DEF Iop, IopWaitPcs, IopOnPcs, AsleepPcs
<1>8. ASSUME NEW m \in ProbeMsgs, SendMove(m), m \notin IopOut PROVE Iop'
  <2>1. /\ <<pc, pc'>> \in {<<"send_ap", "wait_ap">>, <<"send_fw", "start_db">>,
                            <<"send_db", "report">>, <<"send_quiesce", "wait_quiesce">>}
        /\ Sends(m) /\ iop_acked' = iop_acked
    BY <1>8, OutDistinct DEF SendMove, SameAcksAndCpu
  <2>2. /\ SleepMsg \in sent' => SleepMsg \in sent
        /\ NoneIn(a2i, IopOut) => NoneIn(a2i', IopOut)
    BY <1>1, <1>8, <2>1, IopSent, OutDistinct
  <2>3. IopQuiet /\ IopQuiet' /\ iop_power' = PWR_ON
    BY <1>1, <1>2, <1>3, <2>1, <2>2 DEF Iop, IopOnPcs, IopQuiet
  <2>4. OneIop'
    BY <2>3 DEF OneIop, IopQuiet
  <2> QED  BY <1>1, <1>2, <2>1, <2>2, <2>3, <2>4 DEF Iop, IopWaitPcs, IopOnPcs, AsleepPcs
<1> QED  BY <1>5, <1>6, <1>7, <1>8, ProbeCases DEF Moves

\* The interrupt thread: an acknowledgement is stored with its state, then
\* announced.
LEMMA IopIrq ==
    ASSUME Reliable, PowerInv, IrqStep, UNCHANGED fwVars
    PROVE  Iop'
<1>1. Wires /\ Threads /\ Iop
  BY DEF PowerInv, ShakeInv
<1>2. UNCHANGED <<pc, pending_iop, epmap_finished>>
  BY <1>1, IrqCases DEF fwVars
<1>3. UNCHANGED Held
  BY <1>2 DEF Held
<1>4. CASE i2a # <<>> /\ (IrqRecv(Head(i2a)) \/ IrqGetBuffer(Head(i2a)))
  <2>1. /\ Received
        /\ \/ GotHello \/ GotEpmap(0) \/ GotEpmap(1)
           \/ GotIopAck(PWR_ON) \/ GotIopAck(PWR_SLEEP)
           \/ GotApAck(PWR_ON) \/ GotApAck(PWR_QUIESCED)
           \/ \E ep \in BufferEndpoints : GotRequest(ep)
    BY <1>1, <1>4, ReceiveCases
  <2>2. /\ tostore = "none" /\ i2a' = Tail(i2a) /\ i2a \in Seq(InKnown)
        /\ UNCHANGED <<a2i, sent, iop_acked>>
    BY <1>1, <2>1 DEF Received, Wires
  <2>3. ASSUME NEW T
        PROVE  /\ NoneIn(i2a, T) => NoneIn(i2a', T) /\ Head(i2a) \notin T
               /\ OneIn(i2a, T) => OneIn(i2a', T)
               /\ OneIn(i2a, T) /\ Head(i2a) \in T => NoneIn(i2a', T)
    BY <1>4, <2>2, IncomingTail
  <2>4. ASSUME NEW s \in {PWR_ON, PWR_SLEEP}, GotIopAck(s) PROVE Iop'
    <3>1. /\ Head(i2a) = IopAckMsg(s) /\ Head(i2a) \in IopIn /\ iop_power' = s
          /\ tostore' = "iop_acked"
      BY <2>4, InDistinct DEF GotIopAck, Remaining
    <3>2. ~NoneIn(i2a, IopIn)
      BY <2>3, <3>1
    <3>3. ~IopQuiet /\ ~iop_acked /\ NoneIn(a2i, IopOut) /\ OneIn(i2a, IopIn) /\ ~Held
      BY <1>1, <3>2 DEF Iop, IopQuiet, OneIop
    <3>4. NoneIn(i2a', IopIn)
      BY <2>3, <3>1, <3>3
    <3>5. (pc \in IopWaitPcs /\ s = PWR_ON) \/ (pc = "wait_sleep" /\ s = PWR_SLEEP)
      <4>1. pc \in IopWaitPcs \cup {"wait_sleep"}
        BY <1>1, <3>3 DEF Threads, Iop, IopWaitPcs, IopOnPcs, AsleepPcs, Pcs, BootPcs, RemovePcs
      <4>2. NoneIn(i2a, {IopAckMsg(PWR_SLEEP)}) => s # PWR_SLEEP
        BY <2>3, <3>1
      <4>3. NoneIn(i2a, {IopAckMsg(PWR_ON)}) => s # PWR_ON
        BY <2>3, <3>1
      <4> QED  BY <1>1, <4>1, <4>2, <4>3 DEF Iop
    <3>6. OneIop'
      BY <1>3, <2>2, <3>3, <3>4 DEF OneIop
    <3> QED
      BY <1>1, <1>2, <1>3, <2>2, <3>1, <3>3, <3>4, <3>5, <3>6, IopNone
         DEF Iop, IopWaitPcs, IopOnPcs, AsleepPcs, NoneIn
  <2>5. CASE ~GotIopAck(PWR_ON) /\ ~GotIopAck(PWR_SLEEP)
    <3>1. tostore' # "iop_acked" /\ iop_power' = iop_power
      BY <2>1, <2>5 DEF GotHello, GotEpmap, GotApAck, GotRequest, Remaining
    <3>2. OneIop'
      BY <1>1, <1>3, <2>2, <2>3, <3>1 DEF Iop, OneIop
    <3>3. IopQuiet => IopQuiet'
      BY <1>3, <2>2, <2>3, <3>1 DEF IopQuiet
    <3> QED  BY <1>1, <1>2, <1>3, <2>2, <2>3, <3>1, <3>2, <3>3 DEF Iop
  <2> QED  BY <2>4, <2>5
<1>5. ASSUME NEW m \in tosend, Posted(m) PROVE Iop'
  <2>1. m \in OutKnown /\ m \notin IopOut /\ Sends(m)
        /\ UNCHANGED <<i2a, iop_acked, iop_power, tostore>>
    BY <1>1, <1>5, OutDistinct DEF Wires, Posted
  <2> QED  BY <1>1, <1>2, <2>1, IopSent, IopKept
<1>6. CASE Stored
  <2>1. /\ iop_acked' = (iop_acked \/ tostore = "iop_acked") /\ tostore' = "none"
        /\ UNCHANGED <<i2a, a2i, sent, iop_power>>
    BY <1>6 DEF Stored, StoreFlag
  <2>2. iop_acked' => iop_acked \/ tostore = "iop_acked"
    BY <2>1
  <2>3. OneIop'
    BY <1>1, <1>3, <2>1 DEF Iop, OneIop
  <2>4. IopQuiet => IopQuiet'
    BY <1>3, <2>1 DEF IopQuiet
  <2>5. tostore = "iop_acked" => ~IopQuiet /\ IopQuiet'
    BY <1>1, <1>3, <2>1 DEF Iop, OneIop, IopQuiet
  <2> QED
    BY <1>1, <1>2, <1>3, <2>1, <2>2, <2>3, <2>4, <2>5 DEF Iop, IopOnPcs
<1>7. CASE IrqIdles
  BY <1>1, <1>2, <1>7, IopKept DEF IrqIdles
<1> QED  BY <1>1, <1>4, <1>5, <1>6, <1>7, IrqCases, IrqSucceeds

\* The coprocessor: INIT is answered once, after the handshake, and SLEEP at
\* once.
LEMMA IopFw ==
    ASSUME PowerInv, FwHello \/ FwHandle \/ \E ep \in BufferEndpoints : FwAsk(ep)
    PROVE  Iop'
<1>1. Wires /\ Handshake /\ Threads /\ Iop
  BY DEF PowerInv, ShakeInv
<1>2. /\ UNCHANGED <<pc, iop_acked, iop_power, tostore, sent>>
      /\ i2a \in Seq(InKnown) /\ a2i \in Seq(OutKnown)
  BY <1>1 DEF FwHello, FwHandle, FwAsk, FwRest, Wires
<1>3. CASE FwHello
  <2>1. /\ i2a' = Append(i2a, HelloMsg) /\ HelloMsg \in InKnown /\ HelloMsg \notin IopIn
        /\ UNCHANGED <<a2i, pending_iop, epmap_finished>>
    BY <1>3, InDistinct DEF FwHello, HelloMsg
  <2> QED  BY <1>1, <1>2, <2>1, IopAnswered, IopKept
<1>4. ASSUME NEW ep \in BufferEndpoints, FwAsk(ep) PROVE Iop'
  <2>1. /\ i2a' = Append(i2a, RequestMsg(ep)) /\ RequestMsg(ep) \in InKnown
        /\ RequestMsg(ep) \notin IopIn /\ UNCHANGED <<a2i, pending_iop, epmap_finished>>
    BY <1>4, InDistinct DEF FwAsk, RequestMsg
  <2> QED  BY <1>1, <1>2, <2>1, IopAnswered, IopKept
<1>5. CASE FwHandle
  <2>1. Taken /\ HandledMsg
    BY <1>1, <1>5, HandleCases
  <2>2. a2i # <<>> /\ a2i' = Tail(a2i)
    BY <2>1 DEF Taken
  <2> PICK h : h = Head(a2i)
    OBVIOUS
  <2>3. ASSUME NEW T
        PROVE  /\ NoneIn(a2i, T) => NoneIn(a2i', T) /\ h \notin T
               /\ OneIn(a2i, T) => OneIn(a2i', T)
               /\ OneIn(a2i, T) /\ h \in T => NoneIn(a2i', T)
    BY <1>2, <2>2, OutgoingTail
  <2>4. pc \in IopWaitPcs \cup {"wait_sleep"} \/ IopQuiet
    BY <1>1 DEF Threads, Iop, IopWaitPcs, IopOnPcs, AsleepPcs, Pcs, BootPcs, RemovePcs
  <2>5. ASSUME NEW s \in {PWR_ON, PWR_SLEEP}, Answer(IopAckMsg(s)), NoneIn(i2a, IopIn)
        PROVE  /\ OneIn(i2a', IopIn)
               /\ s = PWR_ON => NoneIn(i2a', {IopAckMsg(PWR_SLEEP)})
               /\ s = PWR_SLEEP => NoneIn(i2a', {IopAckMsg(PWR_ON)})
    <3>1. i2a' = Append(i2a, IopAckMsg(s)) /\ IopAckMsg(s) \in InKnown
      BY <2>5, InDistinct DEF Answer
    <3>2. OneIn(i2a', IopIn)
      BY <1>2, <2>5, <3>1, IncomingAppend
    <3>3. s = PWR_ON => NoneIn(i2a', {IopAckMsg(PWR_SLEEP)})
      BY <1>2, <2>5, <3>1, IncomingAppend, IopNone, InDistinct
    <3>4. s = PWR_SLEEP => NoneIn(i2a', {IopAckMsg(PWR_ON)})
      BY <1>2, <2>5, <3>1, IncomingAppend, IopNone, InDistinct
    <3> QED  BY <3>2, <3>3, <3>4
  <2>6. CASE h \in IopOut
    <3>1. ~NoneIn(a2i, IopOut)
      BY <2>3, <2>6
    <3>2. /\ OneIn(a2i, IopOut) /\ NoneIn(i2a, IopIn) /\ ~Held /\ tostore # "iop_acked"
          /\ ~IopQuiet /\ ~iop_acked /\ pc \in IopWaitPcs \cup {"wait_sleep"}
      BY <1>1, <2>4, <3>1 DEF Iop, OneIop, IopQuiet
    <3>3. NoneIn(a2i', IopOut) /\ NoneIn(a2i', {InitMsg}) /\ NoneIn(a2i', {SleepMsg})
      <4>1. NoneIn(a2i', IopOut)
        BY <2>3, <2>6, <3>2
      <4> QED  BY <4>1, OutDistinct DEF NoneIn
    <3>4. NoneIn(i2a, {IopAckMsg(PWR_ON)}) /\ NoneIn(i2a, {IopAckMsg(PWR_SLEEP)})
      BY <3>2, IopNone
    <3>5. pc = "wait_sleep" => pc \notin IopWaitPcs
      BY DEF IopWaitPcs
    <3>6. pc \notin {"new", "run", "send_init", "send_sleep"} \cup IopOnPcs \cup AsleepPcs
      BY <3>2 DEF IopWaitPcs, IopOnPcs, AsleepPcs
    <3>7. CASE h = InitMsg
      <4>1. pc \in IopWaitPcs
        BY <1>1, <2>3, <3>2, <3>7 DEF Iop
      <4>2. /\ pending_iop' = TRUE /\ epmap_finished' = epmap_finished
            /\ IF epmap_finished THEN Answer(IopAckMsg(PWR_ON)) ELSE Silent
        BY <2>1, <3>7, OutDistinct DEF HandledMsg
      <4>3. CASE epmap_finished
        <5>1. ~Held' /\ OneIn(i2a', IopIn) /\ NoneIn(i2a', {IopAckMsg(PWR_SLEEP)})
          BY <2>5, <3>2, <4>2, <4>3 DEF Held
        <5>2. OneIop'
          BY <1>2, <3>2, <3>3, <5>1 DEF OneIop
        <5> QED  BY <1>1, <1>2, <3>2, <3>3, <3>5, <3>6, <4>1, <5>1, <5>2 DEF Iop
      <4>4. CASE ~epmap_finished
        <5>1. i2a' = i2a
          BY <4>2, <4>4 DEF Silent
        <5>2. OneIop'
          BY <1>2, <3>2, <3>3, <5>1 DEF OneIop
        <5> QED  BY <1>1, <1>2, <3>2, <3>3, <3>4, <3>5, <3>6, <4>1, <5>1, <5>2 DEF Iop
      <4> QED  BY <4>3, <4>4
    <3>8. CASE h = SleepMsg
      <4>1. pc = "wait_sleep"
        BY <1>1, <2>3, <3>2, <3>8 DEF Iop
      <4>2. UNCHANGED <<pending_iop, epmap_finished>> /\ Answer(IopAckMsg(PWR_SLEEP))
        BY <2>1, <3>8, OutDistinct DEF HandledMsg, fwVars
      <4>3. ~Held' /\ OneIn(i2a', IopIn) /\ NoneIn(i2a', {IopAckMsg(PWR_ON)})
        BY <2>5, <3>2, <4>2 DEF Held
      <4>4. OneIop'
        BY <1>2, <3>2, <3>3, <4>3 DEF OneIop
      <4> QED  BY <1>1, <1>2, <3>2, <3>3, <3>5, <3>6, <4>1, <4>3, <4>4 DEF Iop
    <3> QED  BY <2>6, <3>7, <3>8 DEF IopOut
  <2>7. CASE h = LastReply
    <3>1. ~epmap_finished
      <4>1. ~NoneIn(a2i, ShakeOut)
        BY <2>3, <2>7, OutDistinct
      <4> QED  BY <1>1, <4>1 DEF Handshake, NoShake
    <3>2. epmap_finished' = TRUE /\ (IF pending_iop THEN Answer(IopAckMsg(PWR_ON)) ELSE Silent)
      BY <2>1, <2>7, OutDistinct DEF HandledMsg
    <3>3. ~Held'
      BY <3>2 DEF Held
    <3>4. CASE pending_iop
      <4>1. Held
        BY <3>1, <3>4 DEF Held
      <4>2. /\ NoneIn(a2i, IopOut) /\ NoneIn(i2a, IopIn) /\ tostore # "iop_acked" /\ ~iop_acked
            /\ ~IopQuiet /\ pc \in IopWaitPcs /\ pc # "wait_sleep"
        BY <1>1, <2>4, <4>1 DEF Iop, OneIop, IopQuiet
      <4>3. NoneIn(a2i', IopOut) /\ NoneIn(a2i', {SleepMsg})
        BY <2>3, <4>2, IopNone
      <4>4. OneIn(i2a', IopIn) /\ NoneIn(i2a', {IopAckMsg(PWR_SLEEP)})
        BY <2>5, <3>2, <3>4, <4>2
      <4>5. pc \notin {"new", "run", "send_init", "send_sleep"} \cup IopOnPcs \cup AsleepPcs
        BY <4>2 DEF IopWaitPcs, IopOnPcs, AsleepPcs
      <4>6. OneIop'
        BY <1>2, <3>3, <4>2, <4>3, <4>4 DEF OneIop
      <4> QED  BY <1>1, <1>2, <4>2, <4>3, <4>4, <4>5, <4>6 DEF Iop
    <3>5. CASE ~pending_iop
      <4>1. i2a' = i2a /\ ~Held
        BY <3>2, <3>5 DEF Silent, Held
      <4>2. OneIop'
        BY <1>1, <1>2, <2>3, <3>3, <4>1 DEF Iop, OneIop
      <4>3. IopQuiet => IopQuiet'
        BY <1>2, <2>3, <3>3, <4>1 DEF IopQuiet
      <4> QED  BY <1>1, <1>2, <2>3, <3>3, <4>1, <4>2, <4>3 DEF Iop
    <3> QED  BY <3>4, <3>5
  <2>8. CASE h \notin IopOut /\ h # LastReply
    <3>1. /\ UNCHANGED <<pending_iop, epmap_finished>>
          /\ Silent \/ \E m \in ShakeIn \cup ApIn : Answer(m)
      BY <2>1, <2>8, OutDistinct, InDistinct DEF HandledMsg, fwVars
    <3>2. \A T \in {IopIn, {IopAckMsg(PWR_ON)}, {IopAckMsg(PWR_SLEEP)}} :
             (NoneIn(i2a, T) => NoneIn(i2a', T)) /\ (OneIn(i2a, T) => OneIn(i2a', T))
      <4>1. CASE Silent
        BY <4>1 DEF Silent
      <4>2. CASE \E m \in ShakeIn \cup ApIn : Answer(m)
        <5> PICK m \in ShakeIn \cup ApIn : Answer(m)
          BY <4>2
        <5>1. m \in InKnown /\ m \notin IopIn /\ i2a' = Append(i2a, m)
          BY InDistinct DEF Answer
        <5> QED  BY <1>1, <5>1, IopAnswered
      <4> QED  BY <3>1, <4>1, <4>2
    <3>3. \A T \in {IopOut, {InitMsg}, {SleepMsg}} :
             (NoneIn(a2i, T) => NoneIn(a2i', T)) /\ (OneIn(a2i, T) => OneIn(a2i', T))
      BY <2>3
    <3> QED  BY <1>1, <1>2, <3>1, <3>2, <3>3, IopKept
  <2> QED  BY <2>6, <2>7, <2>8
<1> QED  BY <1>3, <1>4, <1>5

----------------------------------------------------------------------------
\* The power of the AP: the same, but the coprocessor answers at once.

\* The tokens stay where they are.
LEMMA ApKept ==
    ASSUME Ap, UNCHANGED <<pc, ap_acked, ap_power, tostore>>,
           \A T \in {ApOut, {ApOnMsg}, {QuiesceMsg}} :
              (NoneIn(a2i, T) => NoneIn(a2i', T)) /\ (OneIn(a2i, T) => OneIn(a2i', T)),
           \A T \in {ApIn, {ApAckMsg(PWR_ON)}, {ApAckMsg(PWR_QUIESCED)}} :
              (NoneIn(i2a, T) => NoneIn(i2a', T)) /\ (OneIn(i2a, T) => OneIn(i2a', T))
    PROVE  Ap'
<1>1. /\ (NoneIn(a2i, ApOut) => NoneIn(a2i', ApOut)) /\ (OneIn(a2i, ApOut) => OneIn(a2i', ApOut))
      /\ NoneIn(a2i, {ApOnMsg}) => NoneIn(a2i', {ApOnMsg})
      /\ NoneIn(a2i, {QuiesceMsg}) => NoneIn(a2i', {QuiesceMsg})
  BY Zenon
<1>2. /\ (NoneIn(i2a, ApIn) => NoneIn(i2a', ApIn)) /\ (OneIn(i2a, ApIn) => OneIn(i2a', ApIn))
      /\ NoneIn(i2a, {ApAckMsg(PWR_ON)}) => NoneIn(i2a', {ApAckMsg(PWR_ON)})
      /\ NoneIn(i2a, {ApAckMsg(PWR_QUIESCED)}) => NoneIn(i2a', {ApAckMsg(PWR_QUIESCED)})
  BY Zenon
<1>3. OneAp'
  BY <1>1, <1>2 DEF Ap, OneAp
<1>4. ApQuiet => ApQuiet'
  BY <1>1, <1>2 DEF ApQuiet
<1> QED  BY <1>1, <1>2, <1>3, <1>4 DEF Ap

\* No token of either sort: none of any one message.
LEMMA ApNone ==
    /\ NoneIn(a2i, ApOut) => NoneIn(a2i, {ApOnMsg}) /\ NoneIn(a2i, {QuiesceMsg})
    /\ NoneIn(i2a, ApIn) => NoneIn(i2a, {ApAckMsg(PWR_ON)}) /\ NoneIn(i2a, {ApAckMsg(PWR_QUIESCED)})
BY OutDistinct, InDistinct DEF NoneIn

\* A message that has nothing to do with the AP's power.
LEMMA ApSent ==
    ASSUME Wires, NEW m \in OutKnown, m \notin ApOut, Sends(m)
    PROVE  \A T \in {ApOut, {ApOnMsg}, {QuiesceMsg}} :
              (NoneIn(a2i, T) => NoneIn(a2i', T)) /\ (OneIn(a2i, T) => OneIn(a2i', T))
<1>1. m # ApOnMsg /\ m # QuiesceMsg /\ a2i' = Append(a2i, m) /\ a2i \in Seq(OutKnown)
  BY OutDistinct DEF Sends, Wires
<1>2. ASSUME NEW T \in {ApOut, {ApOnMsg}, {QuiesceMsg}}
      PROVE  (NoneIn(a2i, T) => NoneIn(a2i', T)) /\ (OneIn(a2i, T) => OneIn(a2i', T))
  <2>1. m \notin T
    BY <1>1, <1>2
  <2> QED  BY <1>1, <2>1, OutgoingAppend
<1> QED  BY <1>2

\* An answer that has nothing to do with the AP's power.
LEMMA ApAnswered ==
    ASSUME Wires, NEW m \in InKnown, m \notin ApIn, i2a' = Append(i2a, m)
    PROVE  \A T \in {ApIn, {ApAckMsg(PWR_ON)}, {ApAckMsg(PWR_QUIESCED)}} :
              (NoneIn(i2a, T) => NoneIn(i2a', T)) /\ (OneIn(i2a, T) => OneIn(i2a', T))
<1> SUFFICES ASSUME NEW T \in {ApIn, {ApAckMsg(PWR_ON)}, {ApAckMsg(PWR_QUIESCED)}}
             PROVE  (NoneIn(i2a, T) => NoneIn(i2a', T)) /\ (OneIn(i2a, T) => OneIn(i2a', T))
  OBVIOUS
<1>1. m \notin T
  BY InDistinct
<1> QED  BY <1>1, IncomingAppend DEF Wires

\* The probing thread: ON and QUIESCED go out when no earlier answer is due.
LEMMA ApProbe ==
    ASSUME Reliable, PowerInv, ProbeStep \/ Teardown, UNCHANGED fwVars
    PROVE  Ap'
<1>1. Wires /\ Threads /\ Ap
  BY DEF PowerInv, ShakeInv
<1>2. UNCHANGED <<i2a, tostore, ap_power>>
  BY ElsewhereCases DEF Elsewhere
<1>3. UNCHANGED wireVars => (ApQuiet' <=> ApQuiet) /\ (OneAp' <=> OneAp)
  BY <1>2 DEF ApQuiet, OneAp
<1>4. CASE WaitsOn
  BY <1>1, <1>2, <1>3, <1>4 DEF WaitsOn, SameAcksAndCpu, Ap
<1>5. ASSUME WaitedMove \/ PlainMove \/ ClearMove \/ IrqMove \/ StopMove PROVE Ap'
  <2>1. UNCHANGED wireVars /\ (ApQuiet' <=> ApQuiet) /\ (OneAp' <=> OneAp)
    BY <1>3, <1>5 DEF WaitedMove, PlainMove, ClearMove, IrqMove, StopMove
  <2> USE DEF BeforeApPcs, ApOnPcs, QuiescedPcs, AsleepPcs
  <2>2. CASE WaitedMove
    BY <1>1, <1>2, <2>1, <2>2 DEF WaitedMove, SameAcksAndCpu, Done, Ap
  <2>3. CASE PlainMove
    BY <1>1, <1>2, <2>1, <2>3 DEF PlainMove, SameAcksAndCpu, Ap
  <2>4. CASE ClearMove
    BY <1>1, <1>2, <2>1, <2>4 DEF ClearMove, Ap
  <2>5. CASE IrqMove
    BY <1>1, <1>2, <2>1, <2>5 DEF IrqMove, Ap
  <2>6. CASE StopMove
    BY <1>1, <1>2, <2>1, <2>6 DEF StopMove, Ap
  <2> QED  BY <1>5, <2>2, <2>3, <2>4, <2>5, <2>6
<1>6. ASSUME NEW m \in ProbeMsgs, SendMove(m), m \in ApOut PROVE Ap'
  <2>1. /\ \/ pc = "send_ap" /\ m = ApOnMsg /\ pc' = "wait_ap"
           \/ pc = "send_quiesce" /\ m = QuiesceMsg /\ pc' = "wait_quiesce"
        /\ Sends(m) /\ ap_acked' = ap_acked
    BY <1>6, OutDistinct DEF SendMove, SameAcksAndCpu
  <2>2. ApQuiet /\ ~ap_acked
    BY <1>1, <2>1 DEF Ap, BeforeApPcs, ApOnPcs
  <2>3. /\ NoneIn(a2i, ApOut) /\ NoneIn(i2a, ApIn) /\ tostore # "ap_acked"
        /\ NoneIn(a2i, {ApOnMsg}) /\ NoneIn(a2i, {QuiesceMsg})
        /\ NoneIn(i2a, {ApAckMsg(PWR_ON)}) /\ NoneIn(i2a, {ApAckMsg(PWR_QUIESCED)})
    BY <2>2, ApNone DEF ApQuiet
  <2>4. a2i' = Append(a2i, m) /\ a2i \in Seq(OutKnown) /\ m \in OutKnown
    BY <1>1, <2>1, OutDistinct DEF Sends, Wires
  <2>5. OneIn(a2i', ApOut)
    BY <2>3, <2>4, OutgoingAppend
  <2>6. m = ApOnMsg => NoneIn(a2i', {QuiesceMsg})
    BY <2>3, <2>4, OutgoingAppend, OutDistinct
  <2>7. m = QuiesceMsg => NoneIn(a2i', {ApOnMsg})
    BY <2>3, <2>4, OutgoingAppend, OutDistinct
  <2>8. OneAp'
    BY <1>2, <2>3, <2>5 DEF OneAp
  <2> QED
    BY <1>1, <1>2, <2>1, <2>2, <2>3, <2>6, <2>7, <2>8, OutDistinct
       DEF Ap, BeforeApPcs, ApOnPcs, QuiescedPcs, AsleepPcs
<1>7. ASSUME NEW m \in ProbeMsgs, SendMove(m), m \notin ApOut PROVE Ap'
  <2>1. /\ <<pc, pc'>> \in {<<"send_init", "req_irq">>, <<"send_fw", "start_db">>,
                            <<"send_db", "report">>, <<"send_sleep", "wait_sleep">>}
        /\ Sends(m) /\ ap_acked' = ap_acked
    BY <1>7, OutDistinct DEF SendMove, SameAcksAndCpu
  <2>2. NoneIn(a2i, ApOut) => NoneIn(a2i', ApOut)
    BY <1>1, <1>7, <2>1, ApSent, OutDistinct
  <2>3. ApQuiet /\ ApQuiet'
    BY <1>1, <1>2, <2>1, <2>2 DEF Ap, BeforeApPcs, ApOnPcs, QuiescedPcs, ApQuiet
  <2>4. OneAp'
    BY <2>3 DEF OneAp, ApQuiet
  <2> QED
    BY <1>1, <1>2, <2>1, <2>3, <2>4 DEF Ap, BeforeApPcs, ApOnPcs, QuiescedPcs, AsleepPcs
<1> QED  BY <1>4, <1>5, <1>6, <1>7, ProbeCases DEF Moves

\* The interrupt thread: an acknowledgement is stored with its state, then
\* announced.
LEMMA ApIrq ==
    ASSUME Reliable, PowerInv, IrqStep
    PROVE  Ap'
<1>1. Wires /\ Threads /\ Ap
  BY DEF PowerInv, ShakeInv
<1>2. UNCHANGED pc
  BY <1>1, IrqCases
<1>3. CASE i2a # <<>> /\ (IrqRecv(Head(i2a)) \/ IrqGetBuffer(Head(i2a)))
  <2>1. /\ Received
        /\ \/ GotHello \/ GotEpmap(0) \/ GotEpmap(1)
           \/ GotIopAck(PWR_ON) \/ GotIopAck(PWR_SLEEP)
           \/ GotApAck(PWR_ON) \/ GotApAck(PWR_QUIESCED)
           \/ \E ep \in BufferEndpoints : GotRequest(ep)
    BY <1>1, <1>3, ReceiveCases
  <2>2. /\ tostore = "none" /\ i2a' = Tail(i2a) /\ i2a \in Seq(InKnown)
        /\ UNCHANGED <<a2i, ap_acked>>
    BY <1>1, <2>1 DEF Received, Wires
  <2>3. ASSUME NEW T
        PROVE  /\ NoneIn(i2a, T) => NoneIn(i2a', T) /\ Head(i2a) \notin T
               /\ OneIn(i2a, T) => OneIn(i2a', T)
               /\ OneIn(i2a, T) /\ Head(i2a) \in T => NoneIn(i2a', T)
    BY <1>3, <2>2, IncomingTail
  <2>4. ASSUME NEW s \in {PWR_ON, PWR_QUIESCED}, GotApAck(s) PROVE Ap'
    <3>1. /\ Head(i2a) = ApAckMsg(s) /\ Head(i2a) \in ApIn /\ ap_power' = s
          /\ tostore' = "ap_acked"
      BY <2>4, InDistinct DEF GotApAck, Remaining
    <3>2. ~NoneIn(i2a, ApIn)
      BY <2>3, <3>1
    <3>3. ~ApQuiet /\ ~ap_acked /\ NoneIn(a2i, ApOut) /\ OneIn(i2a, ApIn)
      BY <1>1, <3>2 DEF Ap, ApQuiet, OneAp
    <3>4. NoneIn(i2a', ApIn)
      BY <2>3, <3>1, <3>3
    <3>5. (pc = "wait_ap" /\ s = PWR_ON) \/ (pc = "wait_quiesce" /\ s = PWR_QUIESCED)
      <4>1. pc \in {"wait_ap", "wait_quiesce"}
        BY <1>1, <3>3 DEF Threads, Ap, BeforeApPcs, ApOnPcs, QuiescedPcs, AsleepPcs, Pcs, BootPcs,
           RemovePcs
      <4>2. NoneIn(i2a, {ApAckMsg(PWR_QUIESCED)}) => s # PWR_QUIESCED
        BY <2>3, <3>1
      <4>3. NoneIn(i2a, {ApAckMsg(PWR_ON)}) => s # PWR_ON
        BY <2>3, <3>1
      <4> QED  BY <1>1, <4>1, <4>2, <4>3 DEF Ap
    <3>6. OneAp'
      BY <2>2, <3>3, <3>4 DEF OneAp
    <3> QED
      BY <1>1, <1>2, <2>2, <3>1, <3>3, <3>4, <3>5, <3>6, ApNone
         DEF Ap, BeforeApPcs, ApOnPcs, QuiescedPcs, AsleepPcs, NoneIn
  <2>5. CASE ~GotApAck(PWR_ON) /\ ~GotApAck(PWR_QUIESCED)
    <3>1. tostore' # "ap_acked" /\ ap_power' = ap_power
      BY <2>1, <2>5 DEF GotHello, GotEpmap, GotIopAck, GotRequest, Remaining
    <3>2. OneAp'
      BY <1>1, <2>2, <2>3, <3>1 DEF Ap, OneAp
    <3>3. ApQuiet => ApQuiet'
      BY <2>2, <2>3, <3>1 DEF ApQuiet
    <3> QED  BY <1>1, <1>2, <2>2, <2>3, <3>1, <3>2, <3>3 DEF Ap
  <2> QED  BY <2>4, <2>5
<1>4. ASSUME NEW m \in tosend, Posted(m) PROVE Ap'
  <2>1. m \in OutKnown /\ m \notin ApOut /\ Sends(m) /\ UNCHANGED <<i2a, ap_acked, ap_power, tostore>>
    BY <1>1, <1>4, OutDistinct DEF Wires, Posted
  <2> QED  BY <1>1, <1>2, <2>1, ApSent, ApKept
<1>5. CASE Stored
  <2>1. /\ ap_acked' = (ap_acked \/ tostore = "ap_acked") /\ tostore' = "none"
        /\ UNCHANGED <<i2a, a2i, ap_power>>
    BY <1>5 DEF Stored, StoreFlag
  <2>2. ap_acked' => ap_acked \/ tostore = "ap_acked"
    BY <2>1
  <2>3. OneAp'
    BY <1>1, <2>1 DEF Ap, OneAp
  <2>4. ApQuiet => ApQuiet'
    BY <2>1 DEF ApQuiet
  <2>5. tostore = "ap_acked" => ~ApQuiet /\ ApQuiet'
    BY <1>1, <2>1 DEF Ap, OneAp, ApQuiet
  <2> QED
    BY <1>1, <1>2, <2>1, <2>2, <2>3, <2>4, <2>5 DEF Ap, BeforeApPcs, ApOnPcs
<1>6. CASE IrqIdles
  BY <1>1, <1>2, <1>6, ApKept DEF IrqIdles
<1> QED  BY <1>1, <1>3, <1>4, <1>5, <1>6, IrqCases, IrqSucceeds

\* The coprocessor answers a request about the AP's power with its state.
LEMMA ApFw ==
    ASSUME PowerInv, FwHello \/ FwHandle \/ \E ep \in BufferEndpoints : FwAsk(ep)
    PROVE  Ap'
<1>1. Wires /\ Threads /\ Ap
  BY DEF PowerInv, ShakeInv
<1>2. /\ UNCHANGED <<pc, ap_acked, ap_power, tostore>>
      /\ i2a \in Seq(InKnown) /\ a2i \in Seq(OutKnown)
  BY <1>1 DEF FwHello, FwHandle, FwAsk, FwRest, Wires
<1>3. CASE FwHello
  <2>1. i2a' = Append(i2a, HelloMsg) /\ HelloMsg \in InKnown /\ HelloMsg \notin ApIn /\ UNCHANGED a2i
    BY <1>3, InDistinct DEF FwHello, HelloMsg
  <2> QED  BY <1>1, <1>2, <2>1, ApAnswered, ApKept
<1>4. ASSUME NEW ep \in BufferEndpoints, FwAsk(ep) PROVE Ap'
  <2>1. /\ i2a' = Append(i2a, RequestMsg(ep)) /\ RequestMsg(ep) \in InKnown
        /\ RequestMsg(ep) \notin ApIn /\ UNCHANGED a2i
    BY <1>4, InDistinct DEF FwAsk, RequestMsg
  <2> QED  BY <1>1, <1>2, <2>1, ApAnswered, ApKept
<1>5. CASE FwHandle
  <2>1. Taken /\ HandledMsg
    BY <1>1, <1>5, HandleCases
  <2>2. a2i # <<>> /\ a2i' = Tail(a2i)
    BY <2>1 DEF Taken
  <2> PICK h : h = Head(a2i)
    OBVIOUS
  <2>3. ASSUME NEW T
        PROVE  /\ NoneIn(a2i, T) => NoneIn(a2i', T) /\ h \notin T
               /\ OneIn(a2i, T) => OneIn(a2i', T)
               /\ OneIn(a2i, T) /\ h \in T => NoneIn(a2i', T)
    BY <1>2, <2>2, OutgoingTail
  <2>4. CASE h \in ApOut
    <3>1. ~NoneIn(a2i, ApOut)
      BY <2>3, <2>4
    <3>2. /\ OneIn(a2i, ApOut) /\ NoneIn(i2a, ApIn) /\ tostore # "ap_acked"
          /\ ~ApQuiet /\ ~ap_acked
      BY <1>1, <3>1 DEF Ap, OneAp, ApQuiet
    <3>3. pc \in {"wait_ap", "wait_quiesce"}
      BY <1>1, <3>2 DEF Threads, Ap, BeforeApPcs, ApOnPcs, QuiescedPcs, AsleepPcs, Pcs, BootPcs,
         RemovePcs
    <3>4. NoneIn(a2i', ApOut) /\ NoneIn(a2i', {ApOnMsg}) /\ NoneIn(a2i', {QuiesceMsg})
      <4>1. NoneIn(a2i', ApOut)
        BY <2>3, <2>4, <3>2
      <4> QED  BY <4>1, OutDistinct DEF NoneIn
    <3>5. PICK s \in {PWR_ON, PWR_QUIESCED} :
             /\ Answer(ApAckMsg(s))
             /\ (pc = "wait_ap" /\ s = PWR_ON) \/ (pc = "wait_quiesce" /\ s = PWR_QUIESCED)
      <4>1. CASE h = ApOnMsg
        <5>1. Answer(ApAckMsg(PWR_ON))
          BY <2>1, <4>1, OutDistinct DEF HandledMsg
        <5>2. pc = "wait_ap"
          BY <1>1, <2>3, <3>3, <4>1 DEF Ap
        <5> QED  BY <5>1, <5>2
      <4>2. CASE h = QuiesceMsg
        <5>1. Answer(ApAckMsg(PWR_QUIESCED))
          BY <2>1, <4>2, OutDistinct DEF HandledMsg
        <5>2. pc = "wait_quiesce"
          BY <1>1, <2>3, <3>3, <4>2 DEF Ap
        <5> QED  BY <5>1, <5>2
      <4> QED  BY <2>4, <4>1, <4>2 DEF ApOut
    <3>6. i2a' = Append(i2a, ApAckMsg(s)) /\ ApAckMsg(s) \in InKnown
      BY <3>5, InDistinct DEF Answer
    <3>7. OneIn(i2a', ApIn)
      BY <1>2, <3>2, <3>6, IncomingAppend
    <3>8. s = PWR_ON => NoneIn(i2a', {ApAckMsg(PWR_QUIESCED)})
      BY <1>2, <3>2, <3>6, IncomingAppend, ApNone, InDistinct
    <3>9. s = PWR_QUIESCED => NoneIn(i2a', {ApAckMsg(PWR_ON)})
      BY <1>2, <3>2, <3>6, IncomingAppend, ApNone, InDistinct
    <3>10. OneAp'
      BY <1>2, <3>2, <3>4, <3>7 DEF OneAp
    <3> QED
      BY <1>1, <1>2, <3>2, <3>4, <3>5, <3>8, <3>9, <3>10
         DEF Ap, BeforeApPcs, ApOnPcs, QuiescedPcs, AsleepPcs
  <2>5. CASE h \notin ApOut
    <3>1. Silent \/ \E m \in ShakeIn \cup IopIn : Answer(m)
      BY <2>1, <2>5, OutDistinct, InDistinct DEF HandledMsg
    <3>2. \A T \in {ApIn, {ApAckMsg(PWR_ON)}, {ApAckMsg(PWR_QUIESCED)}} :
             (NoneIn(i2a, T) => NoneIn(i2a', T)) /\ (OneIn(i2a, T) => OneIn(i2a', T))
      <4>1. CASE Silent
        BY <4>1 DEF Silent
      <4>2. CASE \E m \in ShakeIn \cup IopIn : Answer(m)
        <5> PICK m \in ShakeIn \cup IopIn : Answer(m)
          BY <4>2
        <5>1. m \in InKnown /\ m \notin ApIn /\ i2a' = Append(i2a, m)
          BY InDistinct DEF Answer
        <5> QED  BY <1>1, <5>1, ApAnswered
      <4> QED  BY <3>1, <4>1, <4>2
    <3>3. \A T \in {ApOut, {ApOnMsg}, {QuiesceMsg}} :
             (NoneIn(a2i, T) => NoneIn(a2i', T)) /\ (OneIn(a2i, T) => OneIn(a2i', T))
      BY <2>3
    <3> QED  BY <1>1, <1>2, <3>2, <3>3, ApKept
  <2> QED  BY <2>4, <2>5
<1> QED  BY <1>3, <1>4, <1>5

----------------------------------------------------------------------------
\* The whole invariant.

\* It holds before boot.
LEMMA PowerInit == FwInit => PowerInv
<1> SUFFICES ASSUME FwInit PROVE PowerInv
  OBVIOUS
<1>1. /\ i2a = <<>> /\ a2i = <<>> /\ tosend = {} /\ tostore = "none" /\ sent = {} /\ ipc = "idle"
      /\ pc = "new" /\ waiter = "test" /\ error = "none" /\ ~cpu_running /\ ~irq_requested
      /\ ~iop_acked /\ ~ap_acked /\ shmem = {} /\ fw_asking = {} /\ ~pending_iop
  BY DEF FwInit, Init, RtkInit
<1>2. \A T : NoneIn(i2a, T) /\ NoneIn(a2i, T) /\ OneIn(i2a, T) /\ OneIn(a2i, T)
  BY <1>1 DEF NoneIn, OneIn
<1>3. Threads
  BY <1>1 DEF Threads, Pcs, BootPcs, AfterEpmap, RemovePcs
<1>4. Requests
  BY <1>1, <1>2 DEF Requests, OneRequest, NoRequest
<1>5. Iop
  BY <1>1, <1>2 DEF Iop, OneIop, IopQuiet, Held, IopWaitPcs, IopOnPcs, AsleepPcs
<1>6. Ap
  BY <1>1, <1>2 DEF Ap, OneAp, ApQuiet, BeforeApPcs, ApOnPcs, QuiescedPcs, AsleepPcs
<1> QED  BY <1>3, <1>4, <1>5, <1>6, ShakeInit DEF PowerInv

\* The GPU senders disturb nothing of it.
LEMMA PowerGpu ==
    ASSUME PowerInv, GpuStep, UNCHANGED fwVars
    PROVE  Requests' /\ Iop' /\ Ap'
<1>1. Wires /\ Requests /\ Iop /\ Ap
  BY DEF PowerInv, ShakeInv
<1>2. UNCHANGED <<pc, rtkVars, handlerVars, i2a, shmem, pending_iop, epmap_finished>>
  BY GpuCases DEF GpuRest, fwVars
<1>3. Requests'
  BY <1>1, <1>2, ElsewhereCases, RequestsElsewhere
<1>4. CASE UNCHANGED wireVars
  <2>1. Iop'
    BY <1>1, <1>2, <1>4, IopKept
  <2>2. Ap'
    BY <1>1, <1>2, <1>4, ApKept
  <2> QED  BY <1>3, <2>1, <2>2
<1>5. ASSUME NEW ep \in GpuEndpoints, Sends(Out(ep, "GPU", 0)) PROVE Iop' /\ Ap'
  <2> PICK m : m = Out(ep, "GPU", 0)
    OBVIOUS
  <2>1. m \in OutKnown /\ m \notin IopOut /\ m \notin ApOut /\ Sends(m)
    BY <1>5, OutSorts DEF OutKnown
  <2>2. Iop'
    BY <1>1, <1>2, <2>1, IopSent, IopKept
  <2>3. Ap'
    BY <1>1, <1>2, <2>1, ApSent, ApKept
  <2> QED  BY <2>2, <2>3
<1> QED  BY <1>3, <1>4, <1>5, GpuCases

\* Every step keeps it, while nothing times out or fails.
LEMMA PowerStep == ASSUME Reliable, PowerInv, [FwNext]_allVars PROVE PowerInv'
<1>1. ShakeInv' /\ ShakeInv /\ Wires /\ Requests
  BY ShakeStep DEF PowerInv, ShakeInv
<1>2. CASE IrqStep /\ UNCHANGED fwVars
  BY <1>1, <1>2, ThreadsOthers, RequestsIrq, IopIrq, ApIrq DEF PowerInv
<1>3. CASE (ProbeStep \/ Teardown) /\ UNCHANGED fwVars
  <2>1. shmem' \in {shmem, {}}
    BY <1>3, ProbeCases DEF WaitsOn, Moves, WaitedMove, PlainMove, SendMove, ClearMove, IrqMove,
       StopMove
  <2>2. Requests'
    BY <1>1, <1>3, <2>1, ElsewhereCases, RequestsElsewhere
  <2> QED  BY <1>1, <1>3, <2>2, ThreadsProbe, IopProbe, ApProbe DEF PowerInv
<1>4. CASE GpuStep /\ UNCHANGED fwVars
  BY <1>1, <1>4, ThreadsOthers, PowerGpu DEF PowerInv
<1>5. CASE FwHello \/ FwHandle \/ \E ep \in BufferEndpoints : FwAsk(ep)
  BY <1>1, <1>5, ThreadsOthers, RequestsFw, IopFw, ApFw DEF PowerInv
<1>6. CASE UNCHANGED allVars
  <2>1. Threads'
    BY <1>6 DEF PowerInv, Threads, Done, allVars, vars
  <2>2. Requests'
    BY <1>6 DEF PowerInv, Requests, OneRequest, NoRequest, allVars, vars, fwVars
  <2>3. Iop' /\ Ap'
    BY <1>6, IopKept, ApKept DEF PowerInv, allVars, vars, fwVars
  <2> QED  BY <1>1, <2>1, <2>2, <2>3 DEF PowerInv
<1> QED  BY <1>2, <1>3, <1>4, <1>5, <1>6, FwCases

\* The invariant of a run in which no wait or send times out, no allocation
\* and no request_irq fails: in particular the driver records no error and
\* never takes its fail path.
THEOREM PowerInvHolds == ASSUME Reliable PROVE FwSpec => []PowerInv
<1>1. FwInit => PowerInv
  BY PowerInit
<1>2. PowerInv /\ [FwNext]_allVars => PowerInv'
  BY PowerStep
<1> QED  BY <1>1, <1>2, PTL DEF FwSpec

\* Shutdown sends the IOP to sleep only after the AP's quiesced state was
\* acknowledged.
THEOREM QuiescedBeforeSleepHolds == ASSUME Reliable PROVE FwSpec => []QuiescedBeforeSleep
<1>1. PowerInv => QuiescedBeforeSleep
  BY DEF PowerInv, Iop, Ap, QuiescedPcs, QuiescedBeforeSleep
<1>2. FwSpec => []PowerInv
  BY PowerInvHolds
<1> QED  BY <1>1, <1>2, PTL

\* The CPU is stopped, and the buffers freed, only after the IOP said that it
\* sleeps.
THEOREM AsleepBeforeStopHolds == ASSUME Reliable PROVE FwSpec => []AsleepBeforeStop
<1>1. PowerInv => AsleepBeforeStop
  BY DEF PowerInv, Iop, AsleepPcs, AsleepBeforeStop
<1>2. FwSpec => []PowerInv
  BY PowerInvHolds
<1> QED  BY <1>1, <1>2, PTL
=============================================================================
