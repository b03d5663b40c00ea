-------------------------- MODULE RTBuddyFirmware --------------------------
(***************************************************************************)
(* The driver of RTBuddy against a coprocessor that follows the protocol:  *)
(* the one of tests/fakefw.hpp, which says HELLO when its CPU starts and   *)
(* answers every message, and is slow at will.  The endpoints it starts    *)
(* run as tasks of their own, so each asks for its buffer when it gets     *)
(* round to it.                                                            *)
(***************************************************************************)
EXTENDS RTBuddy

CONSTANT FwSystemEndpoints   \* what its first endpoint map announces

ASSUME FwSystemAssumption == FwSystemEndpoints \subseteq 0..31

VARIABLES
    fw_hello,        \* HELLO was sent
    epmap_finished,  \* the last endpoint map was acknowledged
    pending_iop,     \* INIT was received
    fw_asking        \* endpoints started that have still to ask for a buffer

fwVars == <<fw_hello, epmap_finished, pending_iop, fw_asking>>
allVars == <<vars, fwVars>>

FwInit ==
    /\ Init
    /\ fw_hello = FALSE /\ epmap_finished = FALSE /\ pending_iop = FALSE
    /\ fw_asking = {}

FwHello ==
    /\ cpu_running /\ ~fw_hello
    /\ fw_hello' = TRUE
    /\ i2a' = Append(i2a, In(MGMT, "HELLO", 11, 12, {}))
    /\ UNCHANGED <<a2i, epmap_finished, pending_iop, fw_asking>> /\ FwRest

IopAck(state) == <<In(MGMT, "IOP_PWR_ACK", state, 0, {})>>

\* FakeFirmware::handle: what it queues for the AP on receiving m.
Replies(m) ==
    CASE m.type = "HELLO_REPLY" -> <<In(MGMT, "EPMAP", 0, 0, FwSystemEndpoints)>>
      [] m.type = "EPMAP_REPLY" /\ m.arg = 0 ->
           <<In(MGMT, "EPMAP", 1, 0, {FIRMWARE, DOORBELL})>>
      [] m.type = "EPMAP_REPLY" /\ m.arg = 1 ->
           IF pending_iop THEN IopAck(PWR_ON) ELSE <<>>
      [] m.type = "IOP_PWR" /\ m.arg = PWR_INIT ->
           IF epmap_finished THEN IopAck(PWR_ON) ELSE <<>>
      [] m.type = "IOP_PWR" /\ m.arg # PWR_INIT -> IopAck(m.arg)
      [] m.type = "AP_PWR" -> <<In(MGMT, "AP_PWR_ACK", m.arg, 0, {})>>
      [] OTHER -> <<>>

FwHandle ==
    /\ cpu_running /\ a2i # <<>>
    /\ a2i' = Tail(a2i)
    /\ i2a' = i2a \o Replies(Head(a2i))
    /\ epmap_finished' = (epmap_finished \/ Head(a2i) = Out(MGMT, "EPMAP_REPLY", 1))
    /\ pending_iop' = (pending_iop \/ Head(a2i) = Out(MGMT, "IOP_PWR", PWR_INIT))
    /\ fw_asking' = fw_asking \cup {ep \in BufferEndpoints : Head(a2i) = StartMsg(ep)}
    /\ UNCHANGED fw_hello /\ FwRest

FwAsk(ep) ==
    /\ cpu_running /\ ep \in fw_asking
    /\ fw_asking' = fw_asking \ {ep}
    /\ i2a' = Append(i2a, In(ep, "BUFFER_REQUEST", 8192, 0, {}))
    /\ UNCHANGED <<a2i, fw_hello, epmap_finished, pending_iop>> /\ FwRest

FwStep == FwHello \/ FwHandle \/ \E ep \in BufferEndpoints : FwAsk(ep)

FwNext ==
    \/ DriverNext /\ UNCHANGED fwVars
    \/ FwStep
    \/ Unbound /\ UNCHANGED fwVars

FwSpec == FwInit /\ [][FwNext]_allVars

\* The kernel threads run, and so does the coprocessor.
FwFairSpec ==
    /\ FwSpec
    /\ WF_allVars(ProbeStep /\ UNCHANGED fwVars)
    /\ WF_allVars(IrqStep /\ UNCHANGED fwVars)
    /\ WF_allVars(FwStep)

----------------------------------------------------------------------------
\* driver_harness.cpp:473 - as long as nothing times out or fails, boot gets
\* through: no message order, no full queue and no lost wake-up stops it.
BootSucceeds == <>(pc = "up")

\* driver_harness.cpp:510 - while the driver is up every buffer the system
\* endpoints ask for is granted in the end.
BuffersGranted ==
    pc = "up" ~> \/ Granted = FwSystemEndpoints \cap BufferEndpoints
                 \/ pc # "up"

\* Once the endpoint map is reported complete, every system endpoint that was
\* announced, in whichever of its parts, has been started.
EpmapStartsAll ==
    epmap_done => \A ep \in endpoints \cap SystemEndpoints : StartMsg(ep) \in sent

SleepMsg == Out(MGMT, "IOP_PWR", PWR_SLEEP)

\* README.md:509 - "Shutdown quiesces the AP power state and then sends the
\* IOP to sleep": when a driver that was up is removed, the AP's quiesced state
\* is acknowledged before the IOP is sent to sleep.
QuiescedBeforeSleep ==
    power = "ON" /\ SleepMsg \in sent => ap_power = PWR_QUIESCED

\* README.md:509 - the CPU of a driver that was up is stopped only after the
\* IOP said it sleeps, and its buffers are freed after that.
AsleepBeforeStop ==
    pc \in {"stop", "free", "put", "gone"} => iop_power = PWR_SLEEP
============================================================================
