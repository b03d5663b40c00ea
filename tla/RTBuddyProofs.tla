--------------------------- MODULE RTBuddyProofs ---------------------------
(***************************************************************************)
(* Proofs about RTBuddy: against any coprocessor, for any queue sizes, any *)
(* drain limit and any fault that MayBeSlow and MayFail allow.             *)
(*                                                                         *)
(* None of the safety properties is inductive.  DriverInv adds what is     *)
(* left of the running handler, how far boot or removal has got, and what  *)
(* has been received and sent by then.                                     *)
(***************************************************************************)
EXTENDS RTBuddyTypes

USE FwMsgsAssumption, GpuAssumption, CapsAssumption, FaultsAssumption
USE DEF rtkVars, powerVars, flagVars, handlerVars, wireVars, irqVars, hwVars,
        upVars, memVars

----------------------------------------------------------------------------
\* The inductive invariant.

ApOnMsg == Out(MGMT, "AP_PWR", PWR_ON)

\* What the running handler has left to send: only a running handler has
\* anything left, it starts system endpoints only, and the buffer it is about
\* to hand out is in its slot.
HandlerRest ==
    /\ tosend # {} => ipc = "rx"
    /\ \A m \in tosend :
          /\ m.type # "GPU"
          /\ m.type = "STARTEP" => m.arg \in SystemEndpoints
          /\ m.type = "BUFFER" => m.ep \in shmem

\* As long as INIT is not out, nobody but the probing thread can send.
QuietBeforeInit ==
    \/ InitMsg \in sent
    \/ /\ sent = {} /\ ipc = "idle" /\ ~irq_requested
       /\ iop_power = PWR_OFF /\ ~firmware_up /\ gpc = "idle"
       /\ pc \in {"new", "run", "send_init", "fail", "shutdown", "free_irq",
                  "stop", "free", "put", "gone"}

\* Removal takes things down in order, and what is down stays down.
Stopping ==
    /\ ipc # "idle" => irq_requested \/ pc = "sync_irq"
    /\ pc \in {"sync_irq", "stop", "free", "put", "gone"} => ~irq_requested
    /\ pc \in {"free", "put", "gone"} => ~cpu_running
    /\ pc \in {"put", "gone"} =>
         shmem = {} /\ ~firmware_up /\ ~doorbell_up /\ power = "OFF"
    /\ pc # "gone" => powered

\* A buffer handed out stays in its slot until agx_rtbuddy_free_shmem.
GrantsRecorded == pc \notin {"put", "gone"} => Granted \subseteq shmem

AfterEpmap == {"wait_iop", "check_iop", "clear_ap", "send_ap", "wait_ap",
               "check_run", "start_fw", "send_fw", "start_db", "send_db", "report", "up"}
AfterAp == {"wait_ap", "check_run", "start_fw", "send_fw", "start_db",
            "send_db", "report", "up"}

\* How far boot has got says what has been received and sent.
BootOrder ==
    /\ waiter # "test" => pc \in WaitPcs
    /\ pc = "wait_epmap" /\ waiter = "passed" => epmap_done \/ error # "none"
    /\ pc \in AfterEpmap => epmap_done
    /\ pc \in AfterAp => ApOnMsg \in sent
    /\ pc = "send_fw" => FIRMWARE \in endpoints
    /\ pc = "send_db" => DOORBELL \in endpoints

\* An endpoint that is up was started, and whoever passed the test of
\* agx_rtbuddy_send_gpu found both up.
UpMeansStarted ==
    /\ firmware_up => StartMsg(FIRMWARE) \in sent
    /\ doorbell_up => StartMsg(DOORBELL) \in sent
    /\ gpc = "send" => {StartMsg(FIRMWARE), StartMsg(DOORBELL)} \subseteq sent

\* A boot that goes well keeps the CPU running and the endpoints up.
BootProgress ==
    /\ pc \in {"send_init", "req_irq", "wait_epmap"} \cup AfterEpmap => cpu_running
    /\ pc \in {"start_db", "send_db", "report", "up"} => firmware_up
    /\ pc \in {"report", "up"} => doorbell_up

\* The crashlog buffer is granted, on its way, or its reply has failed.
CrashlogGranted ==
    CRASHLOG \in buffers =>
        \/ CRASHLOG \in Granted
        \/ Out(CRASHLOG, "BUFFER", 0) \in tosend
        \/ error # "none"

DriverInv ==
    /\ TypeOK /\ NoDmaLeak
    /\ HandlerRest /\ QuietBeforeInit /\ Stopping /\ GrantsRecorded
    /\ BootOrder /\ UpMeansStarted /\ BootProgress
    /\ CrashlogGranted /\ CrashAfterGrant
    /\ AppStartOrder /\ GpuAfterStart

----------------------------------------------------------------------------
\* Facts about every step.

\* The threads a step may belong to.
LEMMA StepCases ==
    ASSUME [Next]_vars
    PROVE  \/ IrqStep \/ WaitStep \/ BootStep \/ RemoveStep \/ Teardown
           \/ GpuStep \/ FwRecv \/ (\E m \in FwMsgs : FwSend(m)) \/ UNCHANGED vars
  BY DEF Next, DriverNext, ProbeStep, Unbound

\* Nothing is taken back: endpoints, buffers, the end of the endpoint map, a
\* crash and an error are there to stay.
LEMMA Monotone ==
    ASSUME [Next]_vars
    PROVE  /\ endpoints \subseteq endpoints' /\ buffers \subseteq buffers'
           /\ epmap_done => epmap_done'
           /\ error # "none" => error' # "none"
<1>1. CASE IrqStep
  <2>1. CASE IrqRecv(Head(i2a))
    <3> USE DEF Fail
    <3>1. CASE RxHello(Head(i2a)) \/ RxEpmap(Head(i2a))
      BY <3>1 DEF RxHello, RxEpmap
    <3>2. CASE RxIopAck(Head(i2a)) \/ RxApAck(Head(i2a)) \/ RxCrash(Head(i2a))
      BY <3>2 DEF RxIopAck, RxApAck, RxCrash
    <3>3. CASE RxEcho(Head(i2a)) \/ RxDropped(Head(i2a))
      BY <3>3 DEF RxEcho, RxDropped
    <3> QED
      BY <2>1, <3>1, <3>2, <3>3 DEF IrqRecv, RxPlain
  <2>4. CASE IrqGetBuffer(Head(i2a))
    <3>1. PICK ret \in BufferResults(Head(i2a)) : RxGetBuffer(Head(i2a), ret)
      BY <2>4 DEF IrqGetBuffer
    <3> QED
      BY <3>1 DEF RxGetBuffer, Fail
  <2>2. CASE \E m \in tosend : IrqSend(m)
    BY <2>2 DEF IrqSend, Fail
  <2>3. CASE Irq \/ IrqDone \/ IrqExit
    <3>1. epmap_done => epmap_done'
      BY <2>3, Zenon DEF Irq, IrqDone, IrqExit, StoreFlag
    <3>2. UNCHANGED <<endpoints, buffers, error>>
      BY <2>3 DEF Irq, IrqDone, IrqExit, StoreFlag
    <3> QED
      BY <3>1, <3>2
  <2> QED
    BY <1>1, <2>1, <2>2, <2>3, <2>4 DEF IrqStep
<1>2. CASE WaitStep
  BY <1>2 DEF WaitStep, WaitTest, WaitExpire, WaitReturn
<1>3. CASE BootStep
  BY <1>3 DEF BootStep, BootEnable, BootRun, BootSendInit, BootRequestIrq,
     BootCheckIop, BootClearAp, BootSendAp, BootCheckRunning, BootStartFirmware,
     BootSendFirmware, BootStartDoorbell, BootSendDoorbell, BootStart,
     BootReport, BootFail, Send, Go, NoSend, Fail
<1>4. CASE RemoveStep \/ Teardown
  BY <1>4 DEF RemoveStep, Teardown, Shutdown, ShutdownQuiesceAp, ShutdownSendQuiesce,
     ShutdownSleepIop, ShutdownSendSleep, RemoveFreeIrq, RemoveSyncIrq,
     RemoveStop, RemoveFree, RemovePut, Send, Go, NoSend, Fail
<1>5. CASE GpuStep \/ FwRecv \/ (\E m \in FwMsgs : FwSend(m)) \/ UNCHANGED vars
  BY <1>5 DEF GpuStep, GpuCheck, GpuSend, GpuRest, FwRecv, FwSend, FwRest, vars
<1> QED
  BY <1>1, <1>2, <1>3, <1>4, <1>5, StepCases

\* m is on its way out in this state.
MaySend(m) ==
    \/ ipc = "rx" /\ m \in tosend
    \/ pc = "send_init" /\ m = InitMsg
    \/ pc = "send_ap" /\ m = ApOnMsg
    \/ pc = "send_fw" /\ m = StartMsg(FIRMWARE)
    \/ pc = "send_db" /\ m = StartMsg(DOORBELL)
    \/ pc = "send_quiesce" /\ m = Out(MGMT, "AP_PWR", PWR_QUIESCED)
    \/ pc = "send_sleep" /\ m = Out(MGMT, "IOP_PWR", PWR_SLEEP)
    \/ gpc = "send" /\ \E ep \in GpuEndpoints : m = Out(ep, "GPU", 0)

\* The history only grows, and only by what was on its way.
LEMMA WhatIsSent ==
    ASSUME [Next]_vars
    PROVE  sent \subseteq sent' /\ \A m \in sent' \ sent : MaySend(m)
<1> USE DEF MboxSend, MboxSendTimeout
<1>1. CASE IrqStep
  <2>1. CASE \E m \in tosend : IrqSend(m)
    BY <2>1 DEF IrqSend, MaySend
  <2>2. CASE i2a # <<>> /\ (IrqRecv(Head(i2a)) \/ IrqGetBuffer(Head(i2a)))
    BY <2>2 DEF IrqRecv, IrqGetBuffer, Recv
  <2>3. CASE Irq \/ IrqDone \/ IrqExit
    BY <2>3 DEF Irq, IrqDone, IrqExit
  <2> QED
    BY <1>1, <2>1, <2>2, <2>3 DEF IrqStep
<1>2. CASE WaitStep
  BY <1>2 DEF WaitStep, WaitTest, WaitExpire, WaitReturn
<1>3. CASE BootStep
  BY <1>3 DEF BootStep, BootEnable, BootRun, BootSendInit, BootRequestIrq,
     BootCheckIop, BootClearAp, BootSendAp, BootCheckRunning, BootStartFirmware,
     BootSendFirmware, BootStartDoorbell, BootSendDoorbell, BootStart,
     BootReport, BootFail, Send, Go, NoSend, MaySend, InitMsg, ApOnMsg, StartMsg
<1>4. CASE RemoveStep \/ Teardown
  BY <1>4 DEF RemoveStep, Teardown, Shutdown, ShutdownQuiesceAp, ShutdownSendQuiesce,
     ShutdownSleepIop, ShutdownSendSleep, RemoveFreeIrq, RemoveSyncIrq,
     RemoveStop, RemoveFree, RemovePut, Send, Go, NoSend, MaySend
<1>5. CASE GpuStep
  BY <1>5 DEF GpuStep, GpuCheck, GpuSend, MaySend
<1>6. CASE FwRecv \/ (\E m \in FwMsgs : FwSend(m)) \/ UNCHANGED vars
  BY <1>6 DEF FwRecv, FwSend, FwRest, vars
<1> QED
  BY <1>1, <1>2, <1>3, <1>4, <1>5, <1>6, StepCases

\* Slots are only filled, until RemoveFree empties them; the allocation count
\* follows.
LEMMA SlotsAndAllocations ==
    ASSUME DriverInv, [Next]_vars
    PROVE  /\ NoDmaLeak'
           /\ shmem \subseteq shmem' \/ RemoveFree
           /\ shmem' # shmem => IrqGetBuffer(Head(i2a)) \/ RemoveFree
<1>0. shmem \in SUBSET BufferEndpoints
  BY DEF DriverInv, TypeOK
<1>1. CASE IrqGetBuffer(Head(i2a))
  <2> DEFINE m == Head(i2a)
  <2>1. PICK ret \in BufferResults(m) :
           /\ RxGetBuffer(m, ret)
           /\ IF m.lo # 0 /\ ret = "none"
              THEN shmem' = shmem \cup {m.ep} /\ dma' = dma + 1
              ELSE UNCHANGED memVars
    BY <1>1 DEF IrqGetBuffer
  <2>2. CASE m.lo # 0 /\ ret = "none"
    <3>1. m.ep \notin shmem
      BY <2>1, <2>2 DEF BufferResults
    <3>2. IsFiniteSet(shmem)
      BY <1>0, ShmemFinite
    <3>3. Cardinality(shmem \cup {m.ep}) = Cardinality(shmem) + 1
      BY <3>1, <3>2, FS_AddElement
    <3> QED
      BY <1>1, <2>1, <2>2, <3>3 DEF NoDmaLeak, DriverInv
  <2>3. CASE ~(m.lo # 0 /\ ret = "none")
    BY <1>1, <2>1, <2>3 DEF NoDmaLeak, DriverInv
  <2> QED
    BY <2>2, <2>3
<1>2. CASE RemoveFree
  <2>1. dma' = 0
    BY <1>0, <1>2, ShmemFinite DEF RemoveFree, NoDmaLeak, DriverInv
  <2>2. Cardinality({}) = 0
    BY FS_EmptySet
  <2> QED
    BY <1>2, <2>1, <2>2 DEF RemoveFree, NoDmaLeak
<1>3. CASE UNCHANGED memVars
  BY <1>3 DEF NoDmaLeak, DriverInv
<1>4. IrqGetBuffer(Head(i2a)) \/ RemoveFree \/ UNCHANGED memVars
  <2>1. CASE IrqStep
    BY <2>1 DEF IrqStep, Irq, IrqRecv, IrqSend, IrqDone, IrqExit
  <2>2. CASE WaitStep
    BY <2>2 DEF WaitStep, WaitTest, WaitExpire, WaitReturn
  <2>3. CASE BootStep
    BY <2>3 DEF BootStep, BootEnable, BootRun, BootSendInit, BootRequestIrq,
       BootCheckIop, BootClearAp, BootSendAp, BootCheckRunning, BootStartFirmware,
       BootSendFirmware, BootStartDoorbell, BootSendDoorbell, BootStart,
       BootReport, BootFail
  <2>4. CASE RemoveStep \/ Teardown
    BY <2>4 DEF RemoveStep, Teardown, Shutdown, ShutdownQuiesceAp, ShutdownSendQuiesce,
       ShutdownSleepIop, ShutdownSendSleep, RemoveFreeIrq, RemoveSyncIrq,
       RemoveStop, RemovePut
  <2>5. CASE GpuStep \/ FwRecv \/ (\E m \in FwMsgs : FwSend(m)) \/ UNCHANGED vars
    BY <2>5 DEF GpuStep, GpuCheck, GpuSend, GpuRest, FwRecv, FwSend, FwRest, vars
  <2> QED
    BY <2>1, <2>2, <2>3, <2>4, <2>5, StepCases
<1> QED
  BY <1>1, <1>2, <1>3, <1>4

\* Only the interrupt thread touches its own state.
LEMMA ProbeLeavesHandler ==
    ASSUME [Next]_vars, ~IrqStep
    PROVE  UNCHANGED <<handlerVars, irqVars, endpoints, buffers, powerVars,
                       epmap_done, crashed, version>>
<1>1. CASE WaitStep
  BY <1>1 DEF WaitStep, WaitTest, WaitExpire, WaitReturn
<1>2. CASE BootStep
  BY <1>2 DEF BootStep, BootEnable, BootRun, BootSendInit, BootRequestIrq,
     BootCheckIop, BootClearAp, BootSendAp, BootCheckRunning, BootStartFirmware,
     BootSendFirmware, BootStartDoorbell, BootSendDoorbell, BootStart,
     BootReport, BootFail, Send, Go
<1>3. CASE RemoveStep \/ Teardown
  BY <1>3 DEF RemoveStep, Teardown, Shutdown, ShutdownQuiesceAp, ShutdownSendQuiesce,
     ShutdownSleepIop, ShutdownSendSleep, RemoveFreeIrq, RemoveSyncIrq,
     RemoveStop, RemoveFree, RemovePut, Send, Go
<1>4. CASE GpuStep \/ FwRecv \/ (\E m \in FwMsgs : FwSend(m)) \/ UNCHANGED vars
  BY <1>4 DEF GpuStep, GpuCheck, GpuSend, GpuRest, FwRecv, FwSend, FwRest, vars
<1> QED
  BY <1>1, <1>2, <1>3, <1>4, StepCases

\* The interrupt thread leaves the other threads and the hardware alone.
LEMMA IrqLeavesProbe ==
    ASSUME IrqStep
    PROVE  UNCHANGED <<pc, gpc, hwVars, upVars>>
  BY DEF IrqStep, Irq, IrqRecv, IrqGetBuffer, Recv, IrqSend, IrqDone, IrqExit

\* The interrupt thread is idle or the interrupt is not yet freed.
LEMMA IrqNeedsRequest ==
    ASSUME Stopping, IrqStep
    PROVE  irq_requested \/ pc = "sync_irq"
  BY DEF Stopping, IrqStep, Irq, IrqRecv, IrqGetBuffer, Recv, IrqSend, IrqDone,
         IrqExit

----------------------------------------------------------------------------
\* Each part of the invariant is preserved.

\* Handlers leave only replies, system endpoint starts and recorded buffers
\* to be sent, and RemoveFree finds no handler running.
LEMMA HandlerRestStep ==
    ASSUME DriverInv, [Next]_vars
    PROVE  HandlerRest'
<1> DEFINE h == Head(i2a)
<1>1. CASE ~IrqStep
  <2>1. UNCHANGED <<handlerVars, irqVars>>
    BY <1>1, ProbeLeavesHandler
  <2>2. shmem \subseteq shmem' \/ RemoveFree
    BY SlotsAndAllocations
  <2>3. RemoveFree => tosend = {}
    BY DEF DriverInv, HandlerRest, Stopping, RemoveFree, Go
  <2> QED
    BY <2>1, <2>2, <2>3 DEF DriverInv, HandlerRest
<1>2. CASE Irq \/ IrqExit
  BY <1>2 DEF DriverInv, HandlerRest, Irq, IrqExit
<1>3. CASE IrqRecv(h)
  <2>1. ipc' = "rx"
    BY <1>3 DEF IrqRecv, Recv
  <2>2. \A m \in tosend' :
           m.type \notin {"GPU", "BUFFER"} /\ (m.type = "STARTEP" => m.arg \in SystemEndpoints)
    <3>1. CASE RxHello(h)
      BY <3>1 DEF RxHello, Remaining, Out
    <3>2. CASE RxEpmap(h)
      BY <3>2 DEF RxEpmap, Remaining, Starts, Out
    <3>3. CASE RxEcho(h)
      BY <3>3 DEF RxEcho, Remaining, Out
    <3>4. CASE RxIopAck(h) \/ RxApAck(h) \/ RxCrash(h) \/ RxDropped(h)
      BY <3>4 DEF RxIopAck, RxApAck, RxCrash, RxDropped, Remaining
    <3> QED
      BY <1>3, <3>1, <3>2, <3>3, <3>4 DEF IrqRecv, RxPlain
  <2> QED
    BY <2>1, <2>2 DEF HandlerRest
<1>4. CASE IrqGetBuffer(h)
  <2>1. ipc' = "rx"
    BY <1>4 DEF IrqGetBuffer, Recv
  <2>2. PICK ret \in BufferResults(h) :
           /\ RxGetBuffer(h, ret)
           /\ h.lo # 0 /\ ret = "none" => shmem' = shmem \cup {h.ep}
    BY <1>4 DEF IrqGetBuffer
  <2> QED
    BY <2>1, <2>2 DEF RxGetBuffer, Remaining, Out, HandlerRest
<1>5. ASSUME NEW m \in tosend, IrqSend(m) PROVE HandlerRest'
  BY <1>5 DEF DriverInv, HandlerRest, IrqSend, Remaining
<1>6. CASE IrqDone
  BY <1>6 DEF DriverInv, HandlerRest, IrqDone, StoreFlag
<1> QED
  BY <1>1, <1>2, <1>3, <1>4, <1>5, <1>6 DEF IrqStep

\* agx_rtbuddy_remove takes down the interrupt, the CPU, the buffers and the
\* power domain in that order, and no other thread brings one back.
LEMMA StoppingStep ==
    ASSUME DriverInv, [Next]_vars
    PROVE  Stopping'
<1>1. CASE IrqStep
  <2>1. UNCHANGED <<pc, gpc, hwVars, upVars>>
    BY <1>1, IrqLeavesProbe
  <2>2. irq_requested \/ pc = "sync_irq"
    BY <1>1, IrqNeedsRequest DEF DriverInv
  <2> QED
    BY <2>1, <2>2 DEF DriverInv, Stopping
<1>2. CASE ~IrqStep
  <2>0. UNCHANGED ipc
    BY <1>2, ProbeLeavesHandler
  <2>1. CASE WaitStep
    <3>1. pc' = pc \/ pc' \in {"wait_iop", "fail", "check_iop", "check_run", "sleep_iop", "free_irq"}
      BY <2>1 DEF WaitStep, WaitTest, WaitExpire, WaitReturn, AfterWait, WaitPcs
    <3>2. UNCHANGED <<hwVars, upVars, memVars>> /\ pc \in WaitPcs
      BY <2>1 DEF WaitStep, WaitTest, WaitExpire, WaitReturn
    <3> QED
      BY <2>0, <3>1, <3>2 DEF DriverInv, Stopping, WaitPcs
  <2>2. CASE BootStep
    BY <2>0, <2>2 DEF DriverInv, Stopping, BootStep, BootEnable, BootRun,
       BootSendInit, BootRequestIrq, BootCheckIop, BootClearAp, BootSendAp, BootCheckRunning,
       BootStartFirmware, BootSendFirmware, BootStartDoorbell,
       BootSendDoorbell, BootStart, BootReport, BootFail, Send, Go
  <2>3. CASE RemoveStep \/ Teardown
    BY <2>0, <2>3 DEF DriverInv, Stopping, RemoveStep, Teardown, Shutdown, ShutdownQuiesceAp,
       ShutdownSendQuiesce, ShutdownSleepIop, ShutdownSendSleep, RemoveFreeIrq,
       RemoveSyncIrq, RemoveStop, RemoveFree, RemovePut, Send, Go
  <2>4. CASE GpuStep \/ FwRecv \/ (\E m \in FwMsgs : FwSend(m)) \/ UNCHANGED vars
    BY <2>0, <2>4 DEF DriverInv, Stopping, GpuStep, GpuCheck, GpuSend, GpuRest,
       FwRecv, FwSend, FwRest, vars
  <2> QED
    BY <1>2, <2>1, <2>2, <2>3, <2>4, StepCases
<1> QED
  BY <1>1, <1>2

\* Until boot has sent INIT there is no interrupt and no endpoint is up, so
\* boot and a removal after its failure are the only steps possible.
LEMMA QuietBeforeInitStep ==
    ASSUME DriverInv, [Next]_vars
    PROVE  QuietBeforeInit'
<1>1. CASE InitMsg \in sent
  BY <1>1, WhatIsSent DEF QuietBeforeInit
<1>2. CASE InitMsg \notin sent
  <2>1. /\ sent = {} /\ ipc = "idle" /\ ~irq_requested
        /\ iop_power = PWR_OFF /\ ~firmware_up /\ gpc = "idle"
        /\ pc \in {"new", "run", "send_init", "fail", "shutdown", "free_irq",
                   "stop", "free", "put", "gone"}
    BY <1>2 DEF DriverInv, QuietBeforeInit
  <2>2. ~IrqStep
    BY <2>1, IrqNeedsRequest DEF DriverInv
  <2>3. UNCHANGED <<irqVars, powerVars>>
    BY <2>2, ProbeLeavesHandler
  <2>4. ~Running
    BY <2>1 DEF Running, Level, PWR_OFF, PWR_ON
  <2>5. ~WaitStep
    BY <2>1 DEF WaitStep, WaitTest, WaitExpire, WaitReturn, WaitPcs
  <2>6. CASE BootSendInit
    BY <2>1, <2>3, <2>6 DEF BootSendInit, Send, Go, MboxSend, MboxSendTimeout,
       QuietBeforeInit, InitMsg
  <2>7. CASE BootEnable \/ BootRun \/ BootFail
    BY <2>1, <2>3, <2>7 DEF BootEnable, BootRun, BootFail, Go, NoSend,
       QuietBeforeInit
  <2>8. CASE Shutdown \/ RemoveFreeIrq \/ RemoveStop \/ RemoveFree \/ RemovePut
    BY <2>1, <2>3, <2>4, <2>8 DEF Shutdown, ShutdownQuiesceAp, RemoveFreeIrq, RemoveStop,
       RemoveFree, RemovePut, Go, NoSend, QuietBeforeInit
  <2>9. BootStep => BootSendInit \/ BootEnable \/ BootRun \/ BootFail
    BY <2>1 DEF BootStep, BootRequestIrq, BootCheckIop, BootClearAp, BootSendAp,
       BootCheckRunning, BootStartFirmware, BootSendFirmware,
       BootStartDoorbell, BootSendDoorbell, BootStart, BootReport, Send, Go
  <2>10. RemoveStep \/ Teardown =>
           Shutdown \/ RemoveFreeIrq \/ RemoveStop \/ RemoveFree \/ RemovePut
    BY <2>1 DEF RemoveStep, Teardown, ShutdownQuiesceAp,
       ShutdownSendQuiesce, ShutdownSleepIop,
       ShutdownSendSleep, RemoveSyncIrq, Send, Go
  <2>11. ~GpuStep
    BY <2>1, <2>4 DEF GpuStep, GpuCheck, GpuSend, Started
  <2>12. CASE FwRecv \/ (\E m \in FwMsgs : FwSend(m)) \/ UNCHANGED vars
    BY <2>1, <2>12 DEF FwRecv, FwSend, FwRest, vars, QuietBeforeInit
  <2> QED
    BY <2>2, <2>5, <2>6, <2>7, <2>8, <2>9, <2>10, <2>11, <2>12, StepCases
<1> QED
  BY <1>1, <1>2

\* A new buffer message comes from the running handler, whose buffer is in
\* its slot.
LEMMA GrantsRecordedStep ==
    ASSUME DriverInv, [Next]_vars
    PROVE  GrantsRecorded'
<1> SUFFICES ASSUME pc' \notin {"put", "gone"},
                    NEW ep \in BufferEndpoints, Out(ep, "BUFFER", 0) \in sent'
             PROVE  ep \in shmem'
  BY DEF GrantsRecorded, Granted
<1>1. ~RemoveFree
  BY DEF RemoveFree, Go
<1>2. shmem \subseteq shmem'
  BY <1>1, SlotsAndAllocations
<1>3. pc \notin {"put", "gone"}
  <2>1. CASE IrqStep
    BY <2>1, IrqLeavesProbe
  <2>2. CASE WaitStep \/ BootStep
    BY <2>2 DEF WaitStep, WaitTest, WaitExpire, WaitReturn, WaitPcs, BootStep,
       BootEnable, BootRun, BootSendInit, BootRequestIrq, BootCheckIop, BootClearAp,
       BootSendAp, BootCheckRunning, BootStartFirmware, BootSendFirmware,
       BootStartDoorbell, BootSendDoorbell, BootStart, BootReport, BootFail,
       Send, Go
  <2>3. CASE RemoveStep \/ Teardown
    BY <2>3 DEF RemoveStep, Teardown, Shutdown, ShutdownQuiesceAp, ShutdownSendQuiesce,
       ShutdownSleepIop, ShutdownSendSleep, RemoveFreeIrq, RemoveSyncIrq,
       RemoveStop, RemoveFree, RemovePut, Send, Go
  <2>4. CASE GpuStep \/ FwRecv \/ (\E m \in FwMsgs : FwSend(m)) \/ UNCHANGED vars
    BY <2>4 DEF GpuStep, GpuCheck, GpuSend, GpuRest, FwRecv, FwSend, FwRest, vars
  <2> QED
    BY <2>1, <2>2, <2>3, <2>4, StepCases
<1>4. CASE Out(ep, "BUFFER", 0) \in sent
  BY <1>2, <1>3, <1>4 DEF DriverInv, GrantsRecorded, Granted
<1>5. CASE Out(ep, "BUFFER", 0) \notin sent
  <2>1. Out(ep, "BUFFER", 0) \in tosend
    BY <1>5, WhatIsSent DEF MaySend, InitMsg, ApOnMsg, StartMsg, Out
  <2> QED
    BY <1>2, <2>1 DEF DriverInv, HandlerRest, Out
<1> QED
  BY <1>4, <1>5

\* A wait that passed without an error found its flag set.
LEMMA BootOrderStep ==
    ASSUME DriverInv, [Next]_vars
    PROVE  BootOrder'
<1>0. /\ endpoints \subseteq endpoints' /\ sent \subseteq sent'
      /\ epmap_done => epmap_done'
      /\ error # "none" => error' # "none"
  BY Monotone, WhatIsSent
<1> USE DEF BootOrder, AfterEpmap, AfterAp, WaitPcs
<1>1. CASE IrqStep
  <2>1. UNCHANGED pc
    BY <1>1, IrqLeavesProbe
  <2>2. waiter' = waiter \/ waiter' = "test"
    BY <1>1 DEF IrqStep, Irq, IrqRecv, IrqGetBuffer, Recv, IrqSend, IrqDone, IrqExit
  <2> QED
    BY <1>0, <2>1, <2>2 DEF DriverInv
<1>2. CASE WaitTest \/ WaitExpire
  <2>1. pc = "wait_epmap" /\ waiter' = "passed" => epmap_done \/ error # "none"
    BY <1>2 DEF WaitTest, WaitExpire, Satisfied, Done
  <2> QED
    BY <1>0, <1>2, <2>1 DEF DriverInv, WaitTest, WaitExpire
<1>3. CASE WaitReturn
  <2>1. waiter' = "test" /\ UNCHANGED error
    BY <1>3 DEF WaitReturn
  <2>2. \/ pc = "wait_epmap" /\ pc' = "wait_iop" /\ error = "none" /\ waiter = "passed"
        \/ pc = "wait_iop" /\ pc' = "check_iop"
        \/ pc = "wait_ap" /\ pc' = "check_run"
        \/ pc' \in {"fail", "sleep_iop", "free_irq"}
    BY <1>3 DEF WaitReturn, AfterWait
  <2> QED
    BY <1>0, <2>1, <2>2 DEF DriverInv
<1>4. CASE BootSendAp
  <2>1. pc = "send_ap" /\ UNCHANGED waiter
    BY <1>4 DEF BootSendAp, Send, Go
  <2>2. pc' = "fail" \/ (pc' = "wait_ap" /\ ApOnMsg \in sent')
    BY <1>4 DEF BootSendAp, Send, Go, MboxSend, ApOnMsg
  <2> QED
    BY <1>0, <2>1, <2>2 DEF DriverInv
<1>5. CASE BootStartFirmware \/ BootStartDoorbell
  BY <1>0, <1>5 DEF DriverInv, BootStartFirmware, BootStartDoorbell, BootStart,
     MayStart, Go
<1>6. CASE BootEnable \/ BootRun \/ BootSendInit \/ BootRequestIrq \/ BootCheckIop \/ BootClearAp
  BY <1>0, <1>6 DEF DriverInv, BootEnable, BootRun, BootSendInit,
     BootRequestIrq, BootCheckIop, BootClearAp, Send, Go
<1>7. CASE BootCheckRunning \/ BootSendFirmware \/ BootSendDoorbell \/ BootReport \/ BootFail
  BY <1>0, <1>7 DEF DriverInv, BootCheckRunning, BootSendFirmware,
     BootSendDoorbell, BootReport, BootFail, Send, Go
<1>8. CASE RemoveStep \/ Teardown
  BY <1>0, <1>8 DEF DriverInv, RemoveStep, Teardown, Shutdown, ShutdownQuiesceAp,
     ShutdownSendQuiesce, ShutdownSleepIop, ShutdownSendSleep, RemoveFreeIrq,
     RemoveSyncIrq, RemoveStop, RemoveFree, RemovePut, Send, Go
<1>9. CASE GpuStep \/ FwRecv \/ (\E m \in FwMsgs : FwSend(m)) \/ UNCHANGED vars
  BY <1>0, <1>9 DEF DriverInv, GpuStep, GpuCheck, GpuSend, GpuRest, FwRecv,
     FwSend, FwRest, vars
<1> QED
  BY <1>1, <1>2, <1>3, <1>4, <1>5, <1>6, <1>7, <1>8, <1>9, StepCases
     DEF BootStep, WaitStep

\* An endpoint is marked up by the step that sent its start.
LEMMA UpMeansStartedStep ==
    ASSUME DriverInv, [Next]_vars
    PROVE  UpMeansStarted'
<1>0. sent \subseteq sent'
  BY WhatIsSent
<1> USE DEF UpMeansStarted
<1>1. CASE IrqStep
  BY <1>0, <1>1, IrqLeavesProbe DEF DriverInv
<1>2. CASE BootSendFirmware
  BY <1>0, <1>2 DEF DriverInv, BootSendFirmware, Send, Go, MboxSend, StartMsg
<1>3. CASE BootSendDoorbell
  BY <1>0, <1>3 DEF DriverInv, BootSendDoorbell, Send, Go, MboxSend, StartMsg
<1>4. CASE GpuStep
  BY <1>0, <1>4 DEF DriverInv, GpuStep, GpuCheck, GpuSend, GpuRest, Started
<1>5. CASE WaitStep
  BY <1>0, <1>5 DEF DriverInv, WaitStep, WaitTest, WaitExpire, WaitReturn
<1>6. CASE BootStep /\ ~BootSendFirmware /\ ~BootSendDoorbell
  BY <1>0, <1>6 DEF DriverInv, BootStep, BootEnable, BootRun, BootSendInit,
     BootRequestIrq, BootCheckIop, BootClearAp, BootSendAp, BootCheckRunning,
     BootStartFirmware, BootStartDoorbell, BootStart, BootReport, BootFail,
     Send, Go
<1>7. CASE RemoveStep \/ Teardown
  BY <1>0, <1>7 DEF DriverInv, RemoveStep, Teardown, Shutdown, ShutdownQuiesceAp,
     ShutdownSendQuiesce, ShutdownSleepIop, ShutdownSendSleep, RemoveFreeIrq,
     RemoveSyncIrq, RemoveStop, RemoveFree, RemovePut, Send, Go
<1>8. CASE FwRecv \/ (\E m \in FwMsgs : FwSend(m)) \/ UNCHANGED vars
  BY <1>0, <1>8 DEF DriverInv, FwRecv, FwSend, FwRest, vars
<1> QED
  BY <1>1, <1>2, <1>3, <1>4, <1>5, <1>6, <1>7, <1>8, StepCases

\* Boot stops the CPU and clears the endpoint flags only on its way out.
LEMMA BootProgressStep ==
    ASSUME DriverInv, [Next]_vars
    PROVE  BootProgress'
<1> USE DEF BootProgress, AfterEpmap
<1>1. CASE IrqStep
  BY <1>1, IrqLeavesProbe DEF DriverInv
<1>2. CASE WaitTest \/ WaitExpire
  BY <1>2 DEF DriverInv, WaitTest, WaitExpire
<1>3. CASE WaitReturn
  <2>1. \/ pc \in {"wait_epmap", "wait_iop", "wait_ap"}
           /\ pc' \in {"wait_iop", "check_iop", "check_run", "fail"}
        \/ pc' \in {"sleep_iop", "free_irq"}
    BY <1>3 DEF WaitReturn, AfterWait, WaitPcs
  <2> QED
    BY <1>3, <2>1 DEF DriverInv, WaitReturn
<1>4. CASE BootStep
  BY <1>4 DEF DriverInv, BootStep, BootEnable, BootRun, BootSendInit,
     BootRequestIrq, BootCheckIop, BootClearAp, BootSendAp, BootCheckRunning,
     BootStartFirmware, BootSendFirmware, BootStartDoorbell, BootSendDoorbell,
     BootStart, BootReport, BootFail, Send, Go
<1>5. CASE RemoveStep \/ Teardown
  BY <1>5 DEF DriverInv, RemoveStep, Teardown, Shutdown, ShutdownQuiesceAp,
     ShutdownSendQuiesce, ShutdownSleepIop, ShutdownSendSleep, RemoveFreeIrq,
     RemoveSyncIrq, RemoveStop, RemoveFree, RemovePut, Send, Go
<1>6. CASE GpuStep \/ FwRecv \/ (\E m \in FwMsgs : FwSend(m)) \/ UNCHANGED vars
  BY <1>6 DEF DriverInv, GpuStep, GpuCheck, GpuSend, GpuRest, FwRecv,
     FwSend, FwRest, vars
<1> QED
  BY <1>1, <1>2, <1>3, <1>4, <1>5, <1>6, StepCases DEF WaitStep

\* The crashlog endpoint: the buffer's address is sent before the handler
\* returns, or the failure is recorded.
LEMMA CrashlogStep ==
    ASSUME DriverInv, [Next]_vars
    PROVE  CrashlogGranted' /\ CrashAfterGrant'
<1> DEFINE h == Head(i2a)
<1>0. /\ Granted \subseteq Granted' /\ buffers \subseteq buffers'
      /\ error # "none" => error' # "none"
  BY Monotone, WhatIsSent DEF Granted
<1> USE DEF CrashlogGranted, CrashAfterGrant
<1>1. CASE ~IrqStep
  BY <1>0, <1>1, ProbeLeavesHandler DEF DriverInv
<1>2. CASE Irq \/ IrqExit
  BY <1>0, <1>2 DEF DriverInv, Irq, IrqExit
<1>3. CASE IrqRecv(h)
  <2>1. tosend = {}
    BY <1>3 DEF DriverInv, HandlerRest, IrqRecv, Recv
  <2>2. UNCHANGED buffers
    BY <1>3 DEF IrqRecv, RxPlain, RxHello, RxEpmap, RxIopAck, RxApAck, RxCrash,
       RxEcho, RxDropped
  <2>3. crashed' = crashed \/ CRASHLOG \in buffers
    BY <1>3 DEF IrqRecv, RxPlain, RxHello, RxEpmap, RxIopAck, RxApAck, RxCrash,
       IsCrash, RxEcho, RxDropped
  <2> QED
    BY <1>0, <2>1, <2>2, <2>3 DEF DriverInv
<1>4. CASE IrqGetBuffer(h)
  <2>1. tosend = {}
    BY <1>4 DEF DriverInv, HandlerRest, IrqGetBuffer, Recv
  <2>2. PICK ret \in BufferResults(h) : RxGetBuffer(h, ret)
    BY <1>4 DEF IrqGetBuffer
  <2>3. UNCHANGED crashed
    BY <2>2 DEF RxGetBuffer
  <2>4. CRASHLOG \in buffers' =>
          CRASHLOG \in buffers \/ Out(CRASHLOG, "BUFFER", 0) \in tosend'
    BY <2>2 DEF RxGetBuffer, Remaining
  <2> QED
    BY <1>0, <2>1, <2>3, <2>4 DEF DriverInv
<1>5. ASSUME NEW m \in tosend, IrqSend(m) PROVE CrashlogGranted' /\ CrashAfterGrant'
  <2>1. UNCHANGED <<buffers, crashed>>
    BY <1>5 DEF IrqSend
  <2>2. CASE MboxSend(m) /\ tosend' = tosend \ {m}
    <3>1. CRASHLOG \in BufferEndpoints
      BY DEF BufferEndpoints
    <3>2. Out(CRASHLOG, "BUFFER", 0) = m => CRASHLOG \in Granted'
      BY <2>2, <3>1 DEF MboxSend, Granted
    <3> QED
      BY <1>0, <2>1, <2>2, <3>2 DEF DriverInv
  <2>3. CASE Fail("ETIMEDOUT")
    <3>1. error' # "none"
      BY <2>3 DEF Fail
    <3> QED
      BY <2>1, <3>1 DEF DriverInv
  <2> QED
    BY <1>5, <2>2, <2>3 DEF IrqSend
<1>6. CASE IrqDone
  BY <1>0, <1>6 DEF DriverInv, IrqDone, StoreFlag
<1> QED
  BY <1>1, <1>2, <1>3, <1>4, <1>5, <1>6 DEF IrqStep

\* The handler starts system endpoints only, so an application endpoint is
\* started by boot, at a point where the rest has happened.
LEMMA AppStartOrderStep ==
    ASSUME DriverInv, [Next]_vars
    PROVE  AppStartOrder'
<1> SUFFICES ASSUME NEW ep \in {FIRMWARE, DOORBELL}, StartMsg(ep) \in sent'
             PROVE  epmap_done' /\ ep \in endpoints' /\ ApOnMsg \in sent'
  BY DEF AppStartOrder, ApOnMsg
<1>0. /\ endpoints \subseteq endpoints' /\ sent \subseteq sent'
      /\ epmap_done => epmap_done'
  BY Monotone, WhatIsSent
<1>1. CASE StartMsg(ep) \in sent
  BY <1>0, <1>1 DEF DriverInv, AppStartOrder, ApOnMsg
<1>2. CASE StartMsg(ep) \notin sent
  <2>1. StartMsg(ep) \notin tosend
    BY DEF DriverInv, HandlerRest, StartMsg, Out, SystemEndpoints, CRASHLOG,
       SYSLOG, DEBUG, IOREPORT, OSLOG, FIRMWARE, DOORBELL
  <2>2. MaySend(StartMsg(ep))
    BY <1>2, WhatIsSent
  <2>3. \/ pc = "send_fw" /\ ep = FIRMWARE
        \/ pc = "send_db" /\ ep = DOORBELL
    BY <2>1, <2>2 DEF MaySend, InitMsg, ApOnMsg, StartMsg, Out
  <2> QED
    BY <1>0, <2>3 DEF DriverInv, BootOrder, AfterEpmap, AfterAp
<1> QED
  BY <1>1, <1>2

\* A GPU message is sent by a caller that passed the test of
\* agx_rtbuddy_started, and what it found then was started for good.
LEMMA GpuAfterStartStep ==
    ASSUME DriverInv, [Next]_vars
    PROVE  GpuAfterStart'
<1> SUFFICES ASSUME NEW ep \in {FIRMWARE, DOORBELL}, Out(ep, "GPU", 0) \in sent'
             PROVE  {StartMsg(FIRMWARE), StartMsg(DOORBELL)} \subseteq sent'
  BY DEF GpuAfterStart
<1>0. sent \subseteq sent'
  BY WhatIsSent
<1>1. CASE Out(ep, "GPU", 0) \in sent
  BY <1>0, <1>1 DEF DriverInv, GpuAfterStart
<1>2. CASE Out(ep, "GPU", 0) \notin sent
  <2>1. Out(ep, "GPU", 0) \notin tosend
    BY DEF DriverInv, HandlerRest, Out
  <2>2. MaySend(Out(ep, "GPU", 0))
    BY <1>2, WhatIsSent
  <2>3. gpc = "send"
    BY <2>1, <2>2 DEF MaySend, InitMsg, ApOnMsg, StartMsg, Out
  <2> QED
    BY <1>0, <2>3 DEF DriverInv, UpMeansStarted
<1> QED
  BY <1>1, <1>2

----------------------------------------------------------------------------
\* The initial state satisfies the invariant.
LEMMA InitInv == Init => DriverInv
<1> SUFFICES ASSUME Init PROVE DriverInv
  OBVIOUS
<1>1. TypeOK
  BY InitType
<1>2. NoDmaLeak
  BY FS_EmptySet DEF Init, NoDmaLeak
<1>3. Granted = {}
  BY DEF Init, Granted
<1> USE DEF Init, RtkInit
<1>4. HandlerRest /\ QuietBeforeInit /\ Stopping
  BY DEF HandlerRest, QuietBeforeInit, Stopping
<1>5. GrantsRecorded /\ CrashlogGranted /\ CrashAfterGrant
  BY <1>3 DEF GrantsRecorded, CrashlogGranted, CrashAfterGrant
<1>6. BootOrder /\ UpMeansStarted /\ BootProgress
  BY DEF BootOrder, UpMeansStarted, BootProgress, AfterEpmap, AfterAp
<1>7. AppStartOrder /\ GpuAfterStart
  BY DEF AppStartOrder, GpuAfterStart
<1> QED
  BY <1>1, <1>2, <1>4, <1>5, <1>6, <1>7 DEF DriverInv

\* Every step preserves the invariant.
LEMMA StepInv == ASSUME DriverInv, [Next]_vars PROVE DriverInv'
<1>1. TypeOK'
  <2>1. TypeOK /\ NoDmaLeak
    BY DEF DriverInv
  <2>2. CASE UNCHANGED vars
    <3>1. RtkTypeOK'
      BY <2>1, <2>2 DEF TypeOK, RtkTypeOK, vars
    <3> QED
      BY <2>1, <2>2, <3>1 DEF TypeOK, vars
  <2>3. CASE Next
    BY <2>1, <2>3, IrqType, ProbeType, OthersType DEF Next, DriverNext
  <2> QED
    BY <2>2, <2>3
<1> QED
  BY <1>1, SlotsAndAllocations, HandlerRestStep, QuietBeforeInitStep,
     StoppingStep, GrantsRecordedStep, BootOrderStep, UpMeansStartedStep,
     BootProgressStep, CrashlogStep, AppStartOrderStep, GpuAfterStartStep
     DEF DriverInv

\* The invariant holds in every reachable state.
THEOREM DriverInvHolds == Spec => []DriverInv
  BY InitInv, StepInv, PTL DEF Spec

\* rtbuddy.c and rtkit.c keep their state well typed, the queues and the drain
\* loop within their limits.
THEOREM TypeOKHolds == Spec => []TypeOK
<1>1. DriverInv => TypeOK
  BY DEF DriverInv
<1> QED
  BY <1>1, DriverInvHolds, PTL

\* agx_rtbuddy_boot: INIT is the first message on the wire.
THEOREM InitFirstHolds == Spec => []InitFirst
<1>1. DriverInv => InitFirst
  BY DEF DriverInv, QuietBeforeInit, InitFirst
<1> QED
  BY <1>1, DriverInvHolds, PTL

\* agx_rtbuddy_remove: a running coprocessor never holds the address of a
\* freed buffer.
THEOREM GrantedBuffersLiveHolds == Spec => []GrantedBuffersLive
<1>1. DriverInv => GrantedBuffersLive
  BY DEF DriverInv, Stopping, GrantsRecorded, GrantedBuffersLive
<1> QED
  BY <1>1, DriverInvHolds, PTL

\* agx_rtbuddy_ops_buffer leaks no allocation.
THEOREM NoDmaLeakHolds == Spec => []NoDmaLeak
<1>1. DriverInv => NoDmaLeak
  BY DEF DriverInv
<1> QED
  BY <1>1, DriverInvHolds, PTL

\* agx_rtbuddy_boot starts the application endpoints in order.
THEOREM AppStartOrderHolds == Spec => []AppStartOrder
<1>1. DriverInv => AppStartOrder
  BY DEF DriverInv
<1> QED
  BY <1>1, DriverInvHolds, PTL

\* agx_rtbuddy_send_gpu: no GPU message before both endpoints were started.
THEOREM GpuAfterStartHolds == Spec => []GpuAfterStart
<1>1. DriverInv => GpuAfterStart
  BY DEF DriverInv
<1> QED
  BY <1>1, DriverInvHolds, PTL

\* agx_rtbuddy_remove and agx_teardown leave nothing behind.
THEOREM TornDownCleanHolds == Spec => []TornDownClean
<1>1. DriverInv => TornDownClean
  <2> SUFFICES ASSUME DriverInv PROVE TornDownClean
    OBVIOUS
  <2>1. shmem = {} => dma = 0
    BY FS_EmptySet DEF DriverInv, NoDmaLeak
  <2> QED
    BY <2>1 DEF DriverInv, Stopping, TornDownClean
<1> QED
  BY <1>1, DriverInvHolds, PTL

\* agx_rtkit_rx_crashlog reports no crash before the buffer was granted.
THEOREM CrashAfterGrantHolds == Spec => []CrashAfterGrant
<1>1. DriverInv => CrashAfterGrant
  BY DEF DriverInv
<1> QED
  BY <1>1, DriverInvHolds, PTL

\* agx_rtkit_rx_hello agrees on a version both sides speak.
THEOREM VersionAgreedHolds == Spec => VersionAgreed
<1> DEFINE h == Head(i2a)
           A == version' # version => /\ version' \in h.lo..h.hi
                                      /\ version' \in PROTO_MIN..PROTO_MAX
<1>1. ASSUME DriverInv, [Next]_vars PROVE [A]_vars
  <2> SUFFICES ASSUME version' # version PROVE A
    BY <1>1
  <2>1. IrqStep
    BY <1>1, ProbeLeavesHandler
  <2>2. i2a # <<>> /\ RxHello(h)
    <3>1. ~Irq /\ ~IrqDone /\ ~IrqExit
      BY DEF Irq, IrqDone, StoreFlag, IrqExit
    <3>2. ~(\E m \in tosend : IrqSend(m)) /\ ~IrqGetBuffer(h)
      BY DEF IrqSend, IrqGetBuffer, RxGetBuffer
    <3>3. i2a # <<>> /\ RxPlain(h)
      BY <2>1, <3>1, <3>2 DEF IrqStep, IrqRecv
    <3> QED
      BY <3>3 DEF RxPlain, RxEpmap, RxIopAck, RxApAck, RxCrash, RxEcho, RxDropped
  <2>3. h.lo \in Nat /\ h.hi \in Nat
    <3>1. i2a \in Seq(InMsgs)
      BY <1>1 DEF DriverInv, TypeOK
    <3>2. h \in InMsgs
      BY <2>2, <3>1
    <3> QED
      BY <3>2 DEF InMsgs
  <2> QED
    BY <2>2, <2>3 DEF RxHello, HelloRefused, Want, PROTO_MIN, PROTO_MAX
<1> QED
  BY <1>1, DriverInvHolds, PTL DEF Spec, VersionAgreed

\* agx_rtbuddy_set_power: ON is reported by a complete boot only, OFF after
\* everything is stopped and freed.
THEOREM PowerReportsHolds == Spec => PowerReports
<1> DEFINE A == power' # power =>
                  \/ power' = "ON" /\ cpu_running /\ firmware_up /\ doorbell_up
                  \/ power' = "OFF" /\ ~cpu_running /\ ~irq_requested /\ dma' = 0
<1>1. ASSUME DriverInv, [Next]_vars PROVE [A]_vars
  <2> SUFFICES ASSUME power' # power PROVE A
    BY <1>1
  <2>1. BootReport \/ RemoveFree
    <3>1. ~IrqStep /\ ~WaitStep
      BY IrqLeavesProbe DEF WaitStep, WaitTest, WaitExpire, WaitReturn
    <3>2. ~(BootStep /\ ~BootReport)
      BY DEF BootStep, BootEnable, BootRun, BootSendInit, BootRequestIrq,
         BootCheckIop, BootClearAp, BootSendAp, BootCheckRunning, BootStartFirmware,
         BootSendFirmware, BootStartDoorbell, BootSendDoorbell, BootStart,
         BootFail
    <3>3. ~((RemoveStep \/ Teardown) /\ ~RemoveFree)
      BY DEF RemoveStep, Teardown, Shutdown, ShutdownQuiesceAp, ShutdownSendQuiesce,
         ShutdownSleepIop, ShutdownSendSleep, RemoveFreeIrq, RemoveSyncIrq,
         RemoveStop, RemovePut
    <3>4. ~(GpuStep \/ FwRecv \/ (\E m \in FwMsgs : FwSend(m)) \/ UNCHANGED vars)
      BY DEF GpuStep, GpuCheck, GpuSend, GpuRest, FwRecv, FwSend, FwRest, vars
    <3> QED
      BY <1>1, <3>1, <3>2, <3>3, <3>4, StepCases
  <2>2. CASE BootReport
    BY <1>1, <2>2 DEF BootReport, Go, DriverInv, BootProgress, AfterEpmap
  <2>3. CASE RemoveFree
    <3>1. dma' = 0
      BY <1>1, <2>3, ShmemFinite DEF RemoveFree, NoDmaLeak, DriverInv, TypeOK
    <3> QED
      BY <1>1, <2>3, <3>1 DEF RemoveFree, Go, DriverInv, Stopping
  <2> QED
    BY <2>1, <2>2, <2>3
<1> QED
  BY <1>1, DriverInvHolds, PTL DEF Spec, PowerReports
============================================================================
