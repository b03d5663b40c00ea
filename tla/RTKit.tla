------------------------------- MODULE RTKit -------------------------------
(***************************************************************************)
(* The RTKit protocol core of the AP (src/rtkit.c): the state the driver   *)
(* keeps about the coprocessor and what each received message does to it.  *)
(*                                                                         *)
(* A handler changes state, sends messages and then stores a "done" flag.  *)
(* The sends go through the mailbox and may block or fail, so what a       *)
(* handler has still to do is state: tosend holds the messages left, which *)
(* go out one at a time, and tostore the flag to set once they are all     *)
(* out.  A send that fails ends the handler.                               *)
(*                                                                         *)
(* Messages keep what the protocol decides on: endpoint, type and the      *)
(* fields that are tested.  The statistics (rx_count, stray_count,         *)
(* unknown_count, last_unknown) decide nothing and are left out.           *)
(***************************************************************************)
EXTENDS Naturals, FiniteSets

----------------------------------------------------------------------------
\* Endpoints, protocol versions and power states (rtkit.h, power.h).

MGMT == 0
CRASHLOG == 1
SYSLOG == 2
DEBUG == 3
IOREPORT == 4
OSLOG == 8
FIRMWARE == 32
DOORBELL == 33
AppStart == 32

SystemEndpoints == {CRASHLOG, SYSLOG, DEBUG, IOREPORT, OSLOG}
BufferEndpoints == {CRASHLOG, SYSLOG, IOREPORT, OSLOG}

PROTO_MIN == 11
PROTO_MAX == 12

PWR_OFF == 0
PWR_SLEEP == 1
PWR_QUIESCED == 16
PWR_ON == 32
PWR_INIT == 544

\* AGX_PWR_LEVEL_MASK: INIT, too, has the level ON.
Level(state) == state % 256

Errors == {"none", "EINVAL", "ETIMEDOUT", "EEXIST", "ENOMEM"}
Flags == {"none", "hello_done", "epmap_done", "iop_acked", "ap_acked"}

\* A message to the coprocessor: arg is the power state, the version, the
\* endpoint to start, or whether the endpoint map reply is the last one.
Out(ep, type, arg) == [ep |-> ep, type |-> type, arg |-> arg]

OutTypes == {"HELLO_REPLY", "EPMAP_REPLY", "STARTEP", "IOP_PWR", "AP_PWR",
             "BUFFER", "ECHO", "GPU"}
OutMsgs == [ep : Nat, type : OutTypes, arg : Nat]

\* A message from the coprocessor.
\*   HELLO           lo, hi: the versions it offers
\*   EPMAP           eps: the endpoints of the bitmap, lo: 1 if the last one
\*   IOP/AP_PWR_ACK  lo: the power state
\*   BUFFER_REQUEST  lo: the size in bytes, hi: the address it insists on, or 0
\* On the crashlog endpoint BUFFER_REQUEST and CRASH are the same type, 1.
In(ep, type, lo, hi, eps) ==
    [ep |-> ep, type |-> type, lo |-> lo, hi |-> hi, eps |-> eps]

InTypes == {"HELLO", "EPMAP", "IOP_PWR_ACK", "AP_PWR_ACK", "BUFFER_REQUEST",
            "LOG", "ACK", "OTHER"}
InMsgs == [ep : Nat, type : InTypes, lo : Nat, hi : Nat, eps : SUBSET Nat]

----------------------------------------------------------------------------
VARIABLES
    endpoints,    \* the endpoints announced so far
    buffers,      \* the endpoints whose buffer request was granted
    iop_power, ap_power,      \* the last acknowledged states
    version,
    hello_done, epmap_done, iop_acked, ap_acked, crashed,
    error,        \* the first error, for ever
    tosend, tostore           \* what the running handler has left to do

powerVars == <<iop_power, ap_power>>
flagVars == <<hello_done, epmap_done, iop_acked, ap_acked>>
handlerVars == <<tosend, tostore>>
rtkVars == <<endpoints, buffers, powerVars, version, flagVars, crashed, error>>

RtkTypeOK ==
    /\ endpoints \subseteq Nat
    /\ buffers \subseteq BufferEndpoints
    /\ iop_power \in Nat /\ ap_power \in Nat /\ version \in Nat
    /\ hello_done \in BOOLEAN /\ epmap_done \in BOOLEAN
    /\ iop_acked \in BOOLEAN /\ ap_acked \in BOOLEAN /\ crashed \in BOOLEAN
    /\ error \in Errors
    /\ tosend \subseteq OutMsgs /\ tostore \in Flags

RtkInit ==
    /\ endpoints = {MGMT} /\ buffers = {}
    /\ iop_power = PWR_OFF /\ ap_power = PWR_OFF /\ version = 0
    /\ hello_done = FALSE /\ epmap_done = FALSE
    /\ iop_acked = FALSE /\ ap_acked = FALSE /\ crashed = FALSE
    /\ error = "none"
    /\ tosend = {} /\ tostore = "none"

Running == Level(iop_power) = PWR_ON /\ Level(ap_power) = PWR_ON

\* agx_rtkit_fail: only the first error is kept.
Fail(e) == error' = IF error = "none" THEN e ELSE error

\* agx_rtkit_start_endpoint sends only if this holds.
MayStart(ep) == ep \in endpoints /\ (ep >= AppStart => Running)

----------------------------------------------------------------------------
\* Receiving a message, one action per handler.  Each leaves what remains to
\* be done in tosend and tostore.

Remaining(msgs, flag) == tosend' = msgs /\ tostore' = flag

\* Variant for the checks: the lower version limit is not tested.
HelloRefusedLax(m) == m.lo > m.hi \/ m.lo > PROTO_MAX

HelloRefused(m) == m.lo > m.hi \/ m.lo > PROTO_MAX \/ m.hi < PROTO_MIN
Want(m) == IF m.hi < PROTO_MAX THEN m.hi ELSE PROTO_MAX

RxHello(m) ==
    /\ m.ep = MGMT /\ m.type = "HELLO"
    /\ \/ /\ HelloRefused(m)
          /\ Fail("EINVAL")
          /\ Remaining({}, "none")
          /\ UNCHANGED version
       \/ /\ ~HelloRefused(m)
          /\ version' = Want(m)
          /\ Remaining({Out(MGMT, "HELLO_REPLY", Want(m))}, "hello_done")
          /\ UNCHANGED error
    /\ UNCHANGED <<endpoints, buffers, powerVars, flagVars, crashed>>

Starts(eps) == {Out(MGMT, "STARTEP", ep) : ep \in SystemEndpoints \cap eps}

\* Variant for the checks: only the endpoints of the last map are started.
RxEpmapForgetful(m) ==
    /\ m.ep = MGMT /\ m.type = "EPMAP"
    /\ endpoints' = endpoints \cup m.eps
    /\ Remaining({Out(MGMT, "EPMAP_REPLY", m.lo)} \cup
                     (IF m.lo = 1 THEN Starts(m.eps) ELSE {}),
                 IF m.lo = 1 THEN "epmap_done" ELSE "none")
    /\ UNCHANGED <<buffers, powerVars, version, flagVars, crashed, error>>

RxEpmap(m) ==
    /\ m.ep = MGMT /\ m.type = "EPMAP"
    /\ endpoints' = endpoints \cup m.eps
    /\ Remaining({Out(MGMT, "EPMAP_REPLY", m.lo)} \cup
                     (IF m.lo = 1 THEN Starts(endpoints \cup m.eps) ELSE {}),
                 IF m.lo = 1 THEN "epmap_done" ELSE "none")
    /\ UNCHANGED <<buffers, powerVars, version, flagVars, crashed, error>>

\* The power state is stored before the flag that announces it.
RxIopAck(m) ==
    /\ m.ep = MGMT /\ m.type = "IOP_PWR_ACK"
    /\ iop_power' = m.lo
    /\ Remaining({}, "iop_acked")
    /\ UNCHANGED <<endpoints, buffers, ap_power, version, flagVars, crashed, error>>

RxApAck(m) ==
    /\ m.ep = MGMT /\ m.type = "AP_PWR_ACK"
    /\ ap_power' = m.lo
    /\ Remaining({}, "ap_acked")
    /\ UNCHANGED <<endpoints, buffers, iop_power, version, flagVars, crashed, error>>

\* A request for a shared buffer: on the crashlog endpoint only the first
\* message of type 1 is one.
WantsBuffer(m) ==
    /\ m.ep \in BufferEndpoints
    /\ m.type = "BUFFER_REQUEST"
    /\ m.ep = CRASHLOG => CRASHLOG \notin buffers

\* ret is what the driver's buffer callback returned, "none" for success; it
\* is not called when the size is 0.
RxGetBuffer(m, ret) ==
    /\ WantsBuffer(m)
    /\ \/ /\ m.lo = 0
          /\ Fail("EINVAL")
          /\ Remaining({}, "none")
          /\ UNCHANGED buffers
       \/ /\ m.lo # 0 /\ ret # "none"
          /\ Fail(ret)
          /\ Remaining({}, "none")
          /\ UNCHANGED buffers
       \/ /\ m.lo # 0 /\ ret = "none"
          /\ buffers' = buffers \cup {m.ep}
          /\ Remaining({Out(m.ep, "BUFFER", 0)}, "none")
          /\ UNCHANGED error
    /\ UNCHANGED <<endpoints, powerVars, version, flagVars, crashed>>

\* Variant for the checks: every message of type 1 is a crash.
IsCrashAlways(m) == m.ep = CRASHLOG /\ m.type = "BUFFER_REQUEST"

IsCrash(m) ==
    m.ep = CRASHLOG /\ m.type = "BUFFER_REQUEST" /\ CRASHLOG \in buffers

RxCrash(m) ==
    /\ IsCrash(m)
    /\ crashed' = TRUE
    /\ Remaining({}, "none")
    /\ UNCHANGED <<endpoints, buffers, powerVars, version, flagVars, error>>

\* Log lines and reports are sent back as their acknowledgement.
WantsEcho(m) ==
    \/ m.ep = SYSLOG /\ m.type = "LOG"
    \/ m.ep = IOREPORT /\ m.type = "ACK"

RxEcho(m) ==
    /\ WantsEcho(m)
    /\ Remaining({Out(m.ep, "ECHO", 0)}, "none")
    /\ UNCHANGED rtkVars

\* Everything else is counted and dropped: unknown types, unknown endpoints,
\* and the messages of the app endpoints, which the driver only counts.
RxDropped(m) ==
    /\ ~(m.ep = MGMT /\ m.type \in {"HELLO", "EPMAP", "IOP_PWR_ACK", "AP_PWR_ACK"})
    /\ ~WantsBuffer(m) /\ ~IsCrash(m) /\ ~WantsEcho(m)
    /\ Remaining({}, "none")
    /\ UNCHANGED rtkVars

\* A handler whose message needs no buffer.
RxPlain(m) ==
    \/ RxHello(m) \/ RxEpmap(m) \/ RxIopAck(m) \/ RxApAck(m)
    \/ RxCrash(m) \/ RxEcho(m) \/ RxDropped(m)

----------------------------------------------------------------------------
\* The rest of a handler.

\* m is the next message to go out: the reply first, then the system
\* endpoints in ascending order.
IsNext(m) ==
    /\ m \in tosend
    /\ \A n \in tosend \ {m} :
          n.type = "STARTEP" /\ (m.type = "STARTEP" => m.arg < n.arg)

\* All messages are out: the flag is stored.
StoreFlag ==
    /\ tosend = {}
    /\ hello_done' = (hello_done \/ tostore = "hello_done")
    /\ epmap_done' = (epmap_done \/ tostore = "epmap_done")
    /\ iop_acked' = (iop_acked \/ tostore = "iop_acked")
    /\ ap_acked' = (ap_acked \/ tostore = "ap_acked")
    /\ tostore' = "none"
    /\ UNCHANGED <<endpoints, buffers, powerVars, version, crashed, error, tosend>>
============================================================================
