------------------------------ MODULE RTBuddy ------------------------------
(***************************************************************************)
(* The coprocessor driver (src/rtbuddy.c, with agx_probe and agx_teardown  *)
(* of src/probe.c): boot, the threaded interrupt handler, the shared       *)
(* buffers, the GPU message senders and removal, over the RTKit core.      *)
(*                                                                         *)
(* Three threads of the kernel run here: the one that probes and later     *)
(* removes the driver (pc), the interrupt thread (ipc) and a caller of the *)
(* GPU message senders (gpc).  The coprocessor is unconstrained: while its *)
(* CPU runs it reads its inbox at any pace and sends any message of FwMsgs *)
(* at any time.  RTBuddyFirmware replaces it by a cooperative one.         *)
(*                                                                         *)
(* The mailbox is a pair of queues here; agx_mailbox_send either appends   *)
(* or, the queue being full for 100 ms, fails.                             *)
(***************************************************************************)
EXTENDS RTKit, Sequences

CONSTANTS
    FwMsgs,      \* what the coprocessor may send
    GpuEndpoints,  \* where the callers of the GPU message senders send
    A2ICap,      \* room in its inbox
    I2ACap,      \* room in its outbox
    DrainMax,    \* AGX_RTBUDDY_DRAIN_MAX, 64 in the code
    MayBeSlow,   \* a running coprocessor may let waits and sends time out
    MayFail      \* dma_alloc_coherent and request_irq may fail

ASSUME FwMsgsAssumption == FwMsgs \subseteq InMsgs
ASSUME GpuAssumption == GpuEndpoints \subseteq {FIRMWARE, DOORBELL}
ASSUME CapsAssumption ==
    A2ICap \in Nat \ {0} /\ I2ACap \in Nat \ {0} /\ DrainMax \in Nat \ {0}
ASSUME FaultsAssumption == MayBeSlow \in BOOLEAN /\ MayFail \in BOOLEAN

VARIABLES
    pc, waiter,               \* the probing thread and its wait
    ipc, handled,             \* the interrupt thread
    gpc,                      \* a caller of the GPU message senders
    outbox, cpu_running, irq_requested,
    firmware_up, doorbell_up,
    power,                    \* rb->power, what display listeners were told
    powered,                  \* the power domain is held (pm_runtime)
    shmem,                    \* the slots in use
    dma,                      \* DMA allocations alive
    a2i, i2a,                 \* the mailbox: to and from the coprocessor
    sent                      \* every message ever put into a2i

wireVars == <<a2i, sent>>
irqVars == <<ipc, handled>>
hwVars == <<outbox, cpu_running, irq_requested, powered>>
upVars == <<firmware_up, doorbell_up, power>>
memVars == <<shmem, dma>>
vars == <<rtkVars, handlerVars, pc, waiter, irqVars, gpc, hwVars, upVars,
          memVars, wireVars, i2a>>

WaitPcs == {"wait_epmap", "wait_iop", "wait_ap", "wait_quiesce", "wait_sleep"}
BootPcs == {"new", "run", "send_init", "req_irq", "wait_epmap", "wait_iop",
            "check_iop", "clear_ap", "send_ap", "wait_ap", "check_run",
            "start_fw", "send_fw", "start_db", "send_db", "report", "fail"}
RemovePcs == {"shutdown", "quiesce_ap", "send_quiesce", "wait_quiesce",
              "sleep_iop", "send_sleep", "wait_sleep", "free_irq", "sync_irq",
              "stop", "free", "put"}
Pcs == BootPcs \cup RemovePcs \cup {"up", "gone"}

\* The state agx_rtbuddy_probe leaves; the power domain is on.
Init ==
    /\ RtkInit
    /\ pc = "new" /\ waiter = "test"
    /\ ipc = "idle" /\ handled = 0
    /\ gpc = "idle"
    /\ outbox = FALSE /\ cpu_running = FALSE /\ irq_requested = FALSE
    /\ firmware_up = FALSE /\ doorbell_up = FALSE
    /\ power = "OFF" /\ powered = TRUE
    /\ shmem = {} /\ dma = 0
    /\ a2i = <<>> /\ i2a = <<>> /\ sent = {}

----------------------------------------------------------------------------
\* The mailbox.

\* Variant for the checks: the full bit is not looked at.
MboxSendUnchecked(m) ==
    /\ a2i' = Append(a2i, m)
    /\ sent' = sent \cup {m}

MboxSend(m) ==
    /\ Len(a2i) < A2ICap
    /\ a2i' = Append(a2i, m)
    /\ sent' = sent \cup {m}

\* A stopped coprocessor lets everything time out.
Late == MayBeSlow \/ ~cpu_running

MboxSendTimeout == Late /\ Len(a2i) = A2ICap /\ UNCHANGED wireVars

----------------------------------------------------------------------------
\* The interrupt thread.

\* agx_rtbuddy_irq finds the outbox not empty and wakes the thread.
Irq ==
    /\ ipc = "idle" /\ irq_requested /\ outbox /\ i2a # <<>>
    /\ ipc' = "drain" /\ handled' = 0
    /\ UNCHANGED <<rtkVars, handlerVars, pc, waiter, gpc, hwVars, upVars,
                   memVars, wireVars, i2a>>

\* Variant for the checks: the messages of one run are not counted.
RecvUncounted(m) ==
    /\ ipc = "drain" /\ handled < DrainMax
    /\ i2a # <<>> /\ m = Head(i2a) /\ i2a' = Tail(i2a)
    /\ ipc' = "rx" /\ UNCHANGED handled
    /\ UNCHANGED <<pc, waiter, gpc, hwVars, upVars, wireVars>>

\* Taking a message from the outbox.
Recv(m) ==
    /\ ipc = "drain" /\ handled < DrainMax
    /\ i2a # <<>> /\ m = Head(i2a) /\ i2a' = Tail(i2a)
    /\ ipc' = "rx" /\ handled' = handled + 1
    /\ UNCHANGED <<pc, waiter, gpc, hwVars, upVars, wireVars>>

IrqRecv(m) == Recv(m) /\ RxPlain(m) /\ UNCHANGED memVars

\* AGX_RTBUDDY_SHMEM_MAX, 4 MiB: more than a request can ask for, whose size
\* field holds 8 bits of pages or 20 bits of bytes.
SHMEM_MAX == 4194304

\* Variant for the checks: the slot is not tested before it is overwritten.
BufferResultsOverwrite(m) ==
    IF m.hi # 0 \/ m.lo > SHMEM_MAX THEN {"EINVAL"}
    ELSE {"none"} \cup (IF MayFail THEN {"ENOMEM"} ELSE {})

\* agx_rtbuddy_ops_buffer: the error it returns, "none" for a success.
BufferResults(m) ==
    IF m.hi # 0 \/ m.lo > SHMEM_MAX THEN {"EINVAL"}
    ELSE IF m.ep \in shmem THEN {"EEXIST"}
    ELSE {"none"} \cup (IF MayFail THEN {"ENOMEM"} ELSE {})

\* A granted buffer takes the slot of its endpoint and one allocation.
IrqGetBuffer(m) ==
    /\ Recv(m)
    /\ \E ret \in BufferResults(m) :
          /\ RxGetBuffer(m, ret)
          /\ IF m.lo # 0 /\ ret = "none"
             THEN shmem' = shmem \cup {m.ep} /\ dma' = dma + 1
             ELSE UNCHANGED memVars

\* The handler sends its next message; a send that fails ends it.
IrqSend(m) ==
    /\ ipc = "rx" /\ IsNext(m)
    /\ \/ /\ MboxSend(m)
          /\ tosend' = tosend \ {m}
          /\ UNCHANGED <<tostore, error>>
       \/ /\ MboxSendTimeout
          /\ Fail("ETIMEDOUT")
          /\ Remaining({}, "none")
    /\ UNCHANGED <<endpoints, buffers, powerVars, version, flagVars, crashed, pc,
                   waiter, irqVars, gpc, hwVars, upVars, memVars, i2a>>

IrqDone ==
    /\ ipc = "rx" /\ StoreFlag
    /\ ipc' = "drain"
    /\ UNCHANGED <<handled, pc, waiter, gpc, hwVars, upVars, memVars, wireVars, i2a>>

\* Variant for the checks: the wake_up of line 170 is missing.
IrqExitSilent ==
    /\ ipc = "drain" /\ (handled = DrainMax \/ i2a = <<>>)
    /\ ipc' = "idle"
    /\ UNCHANGED <<rtkVars, handlerVars, handled, pc, waiter, gpc, hwVars,
                   upVars, memVars, wireVars, i2a>>

\* Outbox empty or DrainMax messages handled: wake the waiter and return.
IrqExit ==
    /\ ipc = "drain" /\ (handled = DrainMax \/ i2a = <<>>)
    /\ ipc' = "idle"
    /\ waiter' = IF waiter = "asleep" THEN "test" ELSE waiter
    /\ UNCHANGED <<rtkVars, handlerVars, handled, pc, gpc, hwVars, upVars,
                   memVars, wireVars, i2a>>

----------------------------------------------------------------------------
\* agx_rtbuddy_wait: the condition is tested, the thread sleeps until it is
\* woken or 500 ms have passed, and the error is read once more at the end.

Done(p) ==
    CASE p = "wait_epmap" -> epmap_done
      [] p \in {"wait_iop", "wait_sleep"} -> iop_acked
      [] p \in {"wait_ap", "wait_quiesce"} -> ap_acked

Satisfied == Done(pc) \/ error # "none"

WaitTest ==
    /\ pc \in WaitPcs /\ waiter = "test"
    /\ waiter' = IF Satisfied THEN "passed" ELSE "asleep"
    /\ UNCHANGED <<rtkVars, handlerVars, pc, irqVars, gpc, hwVars, upVars,
                   memVars, wireVars, i2a>>

\* Variant for the checks: the wait has no time limit.
WaitExpireNever ==
    /\ pc \in WaitPcs /\ waiter = "asleep" /\ Late /\ Satisfied
    /\ waiter' = "passed"
    /\ UNCHANGED <<rtkVars, handlerVars, pc, irqVars, gpc, hwVars, upVars,
                   memVars, wireVars, i2a>>

WaitExpire ==
    /\ pc \in WaitPcs /\ waiter = "asleep" /\ Late
    /\ waiter' = IF Satisfied THEN "passed" ELSE "expired"
    /\ UNCHANGED <<rtkVars, handlerVars, pc, irqVars, gpc, hwVars, upVars,
                   memVars, wireVars, i2a>>

\* The result decides where boot goes on; shutdown ignores it.
AfterWait(p, ok) ==
    CASE p = "wait_epmap" -> IF ok THEN "wait_iop" ELSE "fail"
      [] p = "wait_iop" -> IF ok THEN "check_iop" ELSE "fail"
      [] p = "wait_ap" -> IF ok THEN "check_run" ELSE "fail"
      [] p = "wait_quiesce" -> "sleep_iop"
      [] p = "wait_sleep" -> "free_irq"

WaitReturn ==
    /\ pc \in WaitPcs /\ waiter \in {"passed", "expired"}
    /\ pc' = AfterWait(pc, error = "none" /\ waiter = "passed")
    /\ waiter' = "test"
    /\ UNCHANGED <<rtkVars, handlerVars, irqVars, gpc, hwVars, upVars, memVars,
                   wireVars, i2a>>

----------------------------------------------------------------------------
\* agx_rtbuddy_boot.

\* The probing thread moves on and leaves the interrupt thread, its caller
\* and the outbox alone.
Go(from, to) ==
    /\ pc = from /\ pc' = to
    /\ UNCHANGED <<waiter, handlerVars, irqVars, gpc, i2a, endpoints, buffers,
                   powerVars, version, hello_done, epmap_done, crashed>>

NoSend == UNCHANGED <<wireVars, error>>
SameAcks == UNCHANGED <<iop_acked, ap_acked>>

\* agx_rtkit_send: on a full inbox the error is recorded and the thread goes
\* to ko.
Send(from, m, ok, ko) ==
    \/ Go(from, ok) /\ MboxSend(m) /\ UNCHANGED error
    \/ Go(from, ko) /\ MboxSendTimeout /\ Fail("ETIMEDOUT")

BootEnable ==
    /\ Go("new", "run") /\ NoSend /\ SameAcks
    /\ outbox' = TRUE
    /\ UNCHANGED <<cpu_running, irq_requested, powered, upVars, memVars>>

\* Variant for the checks: the interrupt is requested before INIT is sent.
BootRunIrqFirst ==
    /\ Go("run", "send_init") /\ NoSend
    /\ cpu_running' = TRUE
    /\ irq_requested' = TRUE
    /\ iop_acked' = FALSE
    /\ UNCHANGED <<ap_acked, outbox, powered, upVars, memVars>>

\* The run bit, then agx_rtkit_set_iop_power up to its send.
BootRun ==
    /\ Go("run", "send_init") /\ NoSend
    /\ cpu_running' = TRUE
    /\ iop_acked' = FALSE
    /\ UNCHANGED <<ap_acked, outbox, irq_requested, powered, upVars, memVars>>

BootSendInit ==
    /\ Send("send_init", Out(MGMT, "IOP_PWR", PWR_INIT), "req_irq", "fail")
    /\ SameAcks /\ UNCHANGED <<hwVars, upVars, memVars>>

\* Variant for the checks: the wait for the endpoint map is missing.
BootRequestIrqNoWait ==
    /\ \/ Go("req_irq", "wait_iop") /\ irq_requested' = TRUE
       \/ Go("req_irq", "fail") /\ MayFail /\ UNCHANGED irq_requested
    /\ NoSend /\ SameAcks
    /\ UNCHANGED <<outbox, cpu_running, powered, upVars, memVars>>

BootRequestIrq ==
    /\ \/ Go("req_irq", "wait_epmap") /\ irq_requested' = TRUE
       \/ Go("req_irq", "fail") /\ MayFail /\ UNCHANGED irq_requested
    /\ NoSend /\ SameAcks
    /\ UNCHANGED <<outbox, cpu_running, powered, upVars, memVars>>

\* The IOP must be on.
BootCheckIop ==
    /\ Go("check_iop", IF Level(iop_power) = PWR_ON THEN "clear_ap" ELSE "fail")
    /\ NoSend /\ SameAcks /\ UNCHANGED <<hwVars, upVars, memVars>>

\* agx_rtkit_set_ap_power(ON) up to its send.
BootClearAp ==
    /\ Go("clear_ap", "send_ap") /\ ap_acked' = FALSE
    /\ NoSend
    /\ UNCHANGED <<iop_acked, hwVars, upVars, memVars>>

BootSendAp ==
    /\ Send("send_ap", Out(MGMT, "AP_PWR", PWR_ON), "wait_ap", "fail")
    /\ SameAcks /\ UNCHANGED <<hwVars, upVars, memVars>>

BootCheckRunning ==
    /\ Go("check_run", IF Running THEN "start_fw" ELSE "fail")
    /\ NoSend /\ SameAcks /\ UNCHANGED <<hwVars, upVars, memVars>>

\* agx_rtkit_start_endpoint refuses without recording an error.
BootStart(from, ep, to) ==
    /\ Go(from, IF MayStart(ep) THEN to ELSE "fail")
    /\ NoSend /\ SameAcks /\ UNCHANGED <<hwVars, upVars, memVars>>

BootStartFirmware == BootStart("start_fw", FIRMWARE, "send_fw")
BootStartDoorbell == BootStart("start_db", DOORBELL, "send_db")

BootSendFirmware ==
    /\ Send("send_fw", Out(MGMT, "STARTEP", FIRMWARE), "start_db", "fail")
    /\ firmware_up' = (firmware_up \/ pc' = "start_db")
    /\ SameAcks /\ UNCHANGED <<doorbell_up, power, hwVars, memVars>>

BootSendDoorbell ==
    /\ Send("send_db", Out(MGMT, "STARTEP", DOORBELL), "report", "fail")
    /\ doorbell_up' = (doorbell_up \/ pc' = "report")
    /\ SameAcks /\ UNCHANGED <<firmware_up, power, hwVars, memVars>>

\* agx_rtbuddy_set_power(ON), and boot returns 0.
BootReport ==
    /\ Go("report", "up") /\ power' = "ON"
    /\ NoSend /\ SameAcks
    /\ UNCHANGED <<firmware_up, doorbell_up, hwVars, memVars>>

\* The fail label; agx_probe then calls agx_rtbuddy_remove.
BootFail ==
    /\ Go("fail", "shutdown")
    /\ cpu_running' = FALSE
    /\ firmware_up' = FALSE /\ doorbell_up' = FALSE
    /\ NoSend /\ SameAcks
    /\ UNCHANGED <<power, outbox, irq_requested, powered, memVars>>

----------------------------------------------------------------------------
\* agx_rtbuddy_remove, from agx_probe after a failed boot or agx_teardown.

Teardown ==
    /\ Go("up", "shutdown") /\ NoSend /\ SameAcks
    /\ UNCHANGED <<hwVars, upVars, memVars>>

\* agx_rtbuddy_shutdown talks only to a coprocessor that is on.
Shutdown ==
    /\ Go("shutdown", IF Running THEN "quiesce_ap" ELSE "free_irq")
    /\ NoSend /\ SameAcks /\ UNCHANGED <<hwVars, upVars, memVars>>

\* agx_rtkit_set_ap_power(QUIESCED) up to its send.
ShutdownQuiesceAp ==
    /\ Go("quiesce_ap", "send_quiesce") /\ ap_acked' = FALSE
    /\ NoSend
    /\ UNCHANGED <<iop_acked, hwVars, upVars, memVars>>

\* Variant for the checks: the quiesce acknowledgement is not waited for.
ShutdownSendQuiesceNoWait ==
    /\ Send("send_quiesce", Out(MGMT, "AP_PWR", PWR_QUIESCED), "sleep_iop", "sleep_iop")
    /\ SameAcks /\ UNCHANGED <<hwVars, upVars, memVars>>

ShutdownSendQuiesce ==
    /\ Send("send_quiesce", Out(MGMT, "AP_PWR", PWR_QUIESCED), "wait_quiesce", "sleep_iop")
    /\ SameAcks /\ UNCHANGED <<hwVars, upVars, memVars>>

\* agx_rtkit_set_iop_power(SLEEP) up to its send.
ShutdownSleepIop ==
    /\ Go("sleep_iop", "send_sleep") /\ iop_acked' = FALSE
    /\ NoSend
    /\ UNCHANGED <<ap_acked, hwVars, upVars, memVars>>

\* Variant for the checks: the sleep acknowledgement is not waited for.
ShutdownSendSleepNoWait ==
    /\ Send("send_sleep", Out(MGMT, "IOP_PWR", PWR_SLEEP), "free_irq", "free_irq")
    /\ SameAcks /\ UNCHANGED <<hwVars, upVars, memVars>>

ShutdownSendSleep ==
    /\ Send("send_sleep", Out(MGMT, "IOP_PWR", PWR_SLEEP), "wait_sleep", "free_irq")
    /\ SameAcks /\ UNCHANGED <<hwVars, upVars, memVars>>

\* devm_free_irq: no new handler starts, and the running one is waited for.
RemoveFreeIrq ==
    /\ Go("free_irq", IF irq_requested THEN "sync_irq" ELSE "stop")
    /\ irq_requested' = FALSE
    /\ NoSend /\ SameAcks
    /\ UNCHANGED <<outbox, cpu_running, powered, upVars, memVars>>

\* Variant for the checks: the running handler is not waited for.
RemoveSyncIrqEarly ==
    /\ Go("sync_irq", "stop")
    /\ NoSend /\ SameAcks /\ UNCHANGED <<hwVars, upVars, memVars>>

RemoveSyncIrq ==
    /\ ipc = "idle"
    /\ Go("sync_irq", "stop")
    /\ NoSend /\ SameAcks /\ UNCHANGED <<hwVars, upVars, memVars>>

\* Variant for the checks: the CPU is left running.
RemoveStopForgotten ==
    /\ Go("stop", "free")
    /\ NoSend /\ SameAcks /\ UNCHANGED <<hwVars, upVars, memVars>>

RemoveStop ==
    /\ Go("stop", "free")
    /\ cpu_running' = FALSE
    /\ NoSend /\ SameAcks
    /\ UNCHANGED <<outbox, irq_requested, powered, upVars, memVars>>

\* The buffers are freed, the endpoints are down, listeners are told OFF.
RemoveFree ==
    /\ Go("free", "put")
    /\ dma' = dma - Cardinality(shmem)
    /\ shmem' = {}
    /\ firmware_up' = FALSE /\ doorbell_up' = FALSE
    /\ power' = "OFF"
    /\ NoSend /\ SameAcks /\ UNCHANGED hwVars

RemovePut ==
    /\ Go("put", "gone")
    /\ powered' = FALSE
    /\ NoSend /\ SameAcks
    /\ UNCHANGED <<outbox, cpu_running, irq_requested, upVars, memVars>>

----------------------------------------------------------------------------
\* agx_rtbuddy_send_gpu, called from any thread until the driver is gone: the
\* test and the send are not one step.

\* Variant for the checks: only the firmware endpoint is asked for.
StartedHalf == Running /\ firmware_up

Started == Running /\ firmware_up /\ doorbell_up

GpuRest == UNCHANGED <<rtkVars, handlerVars, pc, waiter, irqVars, hwVars,
                       upVars, memVars, i2a>>

GpuCheck ==
    /\ GpuEndpoints # {} /\ gpc = "idle" /\ pc # "gone" /\ Started
    /\ gpc' = "send"
    /\ UNCHANGED wireVars /\ GpuRest

GpuSend(ep) ==
    /\ gpc = "send" /\ pc # "gone"
    /\ MboxSend(Out(ep, "GPU", 0)) \/ MboxSendTimeout
    /\ gpc' = "idle"
    /\ GpuRest

----------------------------------------------------------------------------
\* The coprocessor, while its CPU runs.

FwRest == UNCHANGED <<rtkVars, handlerVars, pc, waiter, irqVars, gpc, hwVars,
                      upVars, memVars, sent>>

FwRecv ==
    /\ cpu_running /\ a2i # <<>>
    /\ a2i' = Tail(a2i)
    /\ UNCHANGED i2a /\ FwRest

FwSend(m) ==
    /\ cpu_running /\ Len(i2a) < I2ACap
    /\ i2a' = Append(i2a, m)
    /\ UNCHANGED a2i /\ FwRest

----------------------------------------------------------------------------
IrqStep ==
    \/ Irq
    \/ i2a # <<>> /\ IrqRecv(Head(i2a))
    \/ i2a # <<>> /\ IrqGetBuffer(Head(i2a))
    \/ \E m \in tosend : IrqSend(m)
    \/ IrqDone
    \/ IrqExit

WaitStep == WaitTest \/ WaitExpire \/ WaitReturn

BootStep ==
    \/ BootEnable \/ BootRun \/ BootSendInit \/ BootRequestIrq
    \/ BootCheckIop \/ BootClearAp \/ BootSendAp \/ BootCheckRunning
    \/ BootStartFirmware \/ BootSendFirmware
    \/ BootStartDoorbell \/ BootSendDoorbell
    \/ BootReport \/ BootFail

RemoveStep ==
    \/ Shutdown \/ ShutdownQuiesceAp \/ ShutdownSendQuiesce
    \/ ShutdownSleepIop \/ ShutdownSendSleep
    \/ RemoveFreeIrq \/ RemoveSyncIrq \/ RemoveStop \/ RemoveFree \/ RemovePut

ProbeStep == BootStep \/ WaitStep \/ RemoveStep

GpuStep == GpuCheck \/ \E ep \in GpuEndpoints : GpuSend(ep)

\* What the kernel does; Teardown is the user's choice.
DriverNext == ProbeStep \/ IrqStep \/ GpuStep \/ Teardown

\* The driver is unbound: nothing is left to happen.
Unbound == pc = "gone" /\ UNCHANGED vars

Next ==
    \/ DriverNext
    \/ FwRecv
    \/ \E m \in FwMsgs : FwSend(m)
    \/ Unbound

Spec == Init /\ [][Next]_vars

\* The scheduler runs both kernel threads.  A wait that is woken and goes back
\* to sleep keeps the time it has left, so one that sleeps again and again
\* expires: strong fairness.  Nothing is assumed of the coprocessor.
FairSpec ==
    Spec /\ WF_vars(ProbeStep) /\ WF_vars(IrqStep) /\ SF_vars(WaitExpire)

----------------------------------------------------------------------------
\* Every variable has its type, and both queues and the drain loop keep to
\* their limits.
TypeOK ==
    /\ RtkTypeOK
    /\ pc \in Pcs /\ waiter \in {"test", "asleep", "passed", "expired"}
    /\ ipc \in {"idle", "drain", "rx"} /\ handled \in 0..DrainMax
    /\ gpc \in {"idle", "send"}
    /\ outbox \in BOOLEAN /\ cpu_running \in BOOLEAN /\ irq_requested \in BOOLEAN
    /\ firmware_up \in BOOLEAN /\ doorbell_up \in BOOLEAN
    /\ power \in {"OFF", "ON"} /\ powered \in BOOLEAN
    /\ shmem \subseteq BufferEndpoints /\ dma \in Nat
    /\ a2i \in Seq(OutMsgs) /\ Len(a2i) <= A2ICap
    /\ i2a \in Seq(InMsgs) /\ Len(i2a) <= I2ACap
    /\ sent \subseteq OutMsgs

InitMsg == Out(MGMT, "IOP_PWR", PWR_INIT)
StartMsg(ep) == Out(MGMT, "STARTEP", ep)

\* README.md:511 - INIT is the first message on the wire: neither the probing
\* thread nor the interrupt thread's reply to an early HELLO overtakes it.
InitFirst == sent # {} => InitMsg \in sent

\* A buffer whose address the coprocessor was given stays allocated as long
\* as its CPU runs, through failed boots, shutdown and removal.
Granted == {ep \in BufferEndpoints : Out(ep, "BUFFER", 0) \in sent}
GrantedBuffersLive == cpu_running => Granted \subseteq shmem

\* Every live DMA allocation is recorded in a slot, so that
\* agx_rtbuddy_free_shmem finds it: repeated requests, refused requests and a
\* reply that cannot be sent leak nothing.
NoDmaLeak == dma = Cardinality(shmem)

\* The application endpoints are started only after the end of the endpoint
\* map, if announced, and after the AP was asked to turn on.
AppStartOrder ==
    \A ep \in {FIRMWARE, DOORBELL} : StartMsg(ep) \in sent =>
        epmap_done /\ ep \in endpoints /\ Out(MGMT, "AP_PWR", PWR_ON) \in sent

\* README.md:208 - a GPU message goes out only after both application
\* endpoints were started, although agx_rtbuddy_send_gpu tests and sends in
\* two steps and the driver may fail or be removed between them.
GpuAfterStart ==
    (\E ep \in {FIRMWARE, DOORBELL} : Out(ep, "GPU", 0) \in sent) =>
        {StartMsg(FIRMWARE), StartMsg(DOORBELL)} \subseteq sent

\* The power domain is held while the CPU runs or an interrupt may come, and
\* an unbound driver has left nothing behind: probe.c:66-83 and 86-93.
TornDownClean ==
    /\ cpu_running \/ irq_requested \/ ipc # "idle" => powered
    /\ pc = "gone" => /\ ~cpu_running /\ ~irq_requested /\ ipc = "idle"
                      /\ shmem = {} /\ dma = 0
                      /\ ~firmware_up /\ ~doorbell_up /\ power = "OFF"

\* The version agreed on is one both sides speak (agx_rtkit_rx_hello).
VersionAgreed ==
    [][version' # version =>
         /\ version' \in Head(i2a).lo..Head(i2a).hi
         /\ version' \in PROTO_MIN..PROTO_MAX]_vars

\* A crash is reported only once the crashlog buffer was granted and its
\* address sent, unless that send failed: the first message of the crashlog
\* endpoint is never taken for a crash (agx_rtkit_rx_crashlog).
CrashAfterGrant ==
    crashed => CRASHLOG \in buffers /\ (CRASHLOG \in Granted \/ error # "none")

\* Listeners are told ON only while the CPU runs with both endpoints started,
\* and OFF only once the CPU is stopped and every buffer is freed.
PowerReports ==
    [][power' # power =>
         \/ power' = "ON" /\ cpu_running /\ firmware_up /\ doorbell_up
         \/ power' = "OFF" /\ ~cpu_running /\ ~irq_requested /\ dma' = 0]_vars

\* README.md:509 - boot ends, one way or the other, whatever the coprocessor
\* does or fails to do; after a failure the driver is torn down again.
BootEnds == pc = "new" ~> pc \in {"up", "gone"}

\* Removal ends, even under a flood of messages: the drain limit lets the
\* interrupt thread return, and every wait and send times out.
RemoveEnds == pc = "shutdown" ~> pc = "gone"
============================================================================
