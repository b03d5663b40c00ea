---------------------------- MODULE RTBuddyTypes ----------------------------
(***************************************************************************)
(* Type correctness of RTBuddy, the first layer of its proofs: every       *)
(* action preserves TypeOK, given that every allocation is in a slot.      *)
(***************************************************************************)
EXTENDS RTBuddy, TLAPS, FiniteSetTheorems

USE FwMsgsAssumption, GpuAssumption, CapsAssumption, FaultsAssumption
USE DEF rtkVars, powerVars, flagVars, handlerVars, wireVars, irqVars, hwVars,
        upVars, memVars

\* What may be sent: every message the driver composes is one of OutMsgs.
LEMMA OutType ==
    ASSUME NEW ep \in Nat, NEW type \in OutTypes, NEW arg \in Nat
    PROVE  Out(ep, type, arg) \in OutMsgs
  BY DEF Out, OutMsgs

\* A send keeps both the queue and the history well typed and in bounds.
LEMMA MboxSendType ==
    ASSUME TypeOK, NEW m \in OutMsgs, MboxSend(m)
    PROVE  /\ a2i' \in Seq(OutMsgs) /\ Len(a2i') <= A2ICap
           /\ sent' \subseteq OutMsgs
  BY DEF TypeOK, MboxSend

\* A receive handler leaves the RTKit state and its own remainder well typed.
LEMMA RxType ==
    ASSUME RtkTypeOK, NEW m \in InMsgs,
           RxPlain(m) \/ \E ret \in Errors : RxGetBuffer(m, ret)
    PROVE  RtkTypeOK'
<1> USE DEF RtkTypeOK, Remaining, InMsgs
<1>1. CASE RxHello(m)
  <2>1. Want(m) \in Nat
    BY DEF Want, PROTO_MAX
  <2>2. Out(MGMT, "HELLO_REPLY", Want(m)) \in OutMsgs
    BY <2>1, OutType DEF MGMT, OutTypes
  <2> QED
    BY <1>1, <2>1, <2>2 DEF RxHello, Fail, Errors, Flags
<1>2. CASE RxEpmap(m)
  <2>1. Out(MGMT, "EPMAP_REPLY", m.lo) \in OutMsgs
    BY OutType DEF MGMT, OutTypes
  <2>2. ASSUME NEW eps PROVE Starts(eps) \subseteq OutMsgs
    <3> SUFFICES ASSUME NEW ep \in SystemEndpoints
                 PROVE  Out(MGMT, "STARTEP", ep) \in OutMsgs
      BY DEF Starts
    <3>1. ep \in Nat
      BY DEF SystemEndpoints, CRASHLOG, SYSLOG, DEBUG, IOREPORT, OSLOG
    <3> QED
      BY <3>1, OutType DEF MGMT, OutTypes
  <2> QED
    BY <1>2, <2>1, <2>2 DEF RxEpmap, Flags
<1>3. CASE RxIopAck(m) \/ RxApAck(m)
  BY <1>3 DEF RxIopAck, RxApAck, Flags
<1>4. CASE RxCrash(m) \/ RxDropped(m)
  BY <1>4 DEF RxCrash, RxDropped, Flags
<1>5. CASE RxEcho(m)
  <2>1. Out(m.ep, "ECHO", 0) \in OutMsgs
    BY OutType DEF OutTypes
  <2> QED
    BY <1>5, <2>1 DEF RxEcho, Flags
<1>6. ASSUME NEW ret \in Errors, RxGetBuffer(m, ret) PROVE RtkTypeOK'
  <2>1. Out(m.ep, "BUFFER", 0) \in OutMsgs
    BY OutType DEF OutTypes
  <2> QED
    BY <1>6, <2>1 DEF RxGetBuffer, WantsBuffer, Fail, Errors, Flags
<1> QED
  BY <1>1, <1>2, <1>3, <1>4, <1>5, <1>6 DEF RxPlain

\* The initial state is well typed.
LEMMA InitType == Init => TypeOK
<1> SUFFICES ASSUME Init PROVE TypeOK
  OBVIOUS
<1> USE DEF Init
<1>1. RtkTypeOK
  <2>1. {MGMT} \subseteq Nat /\ PWR_OFF \in Nat
    BY DEF MGMT, PWR_OFF
  <2>2. error \in Errors /\ tostore \in Flags
    BY DEF RtkInit, Errors, Flags
  <2> QED
    BY <2>1, <2>2 DEF RtkInit, RtkTypeOK
<1>2. handled \in 0..DrainMax
  BY DEF CapsAssumption
<1>3. a2i \in Seq(OutMsgs) /\ Len(a2i) <= A2ICap
  BY DEF CapsAssumption
<1>4. i2a \in Seq(InMsgs) /\ Len(i2a) <= I2ACap
  BY DEF CapsAssumption
<1>5. pc \in Pcs
  BY DEF Pcs, BootPcs
<1> QED
  BY <1>1, <1>2, <1>3, <1>4, <1>5 DEF TypeOK

\* The interrupt thread preserves types.
LEMMA IrqType == ASSUME TypeOK, IrqStep PROVE TypeOK'
<1> USE DEF TypeOK
<1>1. CASE Irq
  <2>1. RtkTypeOK'
    BY <1>1 DEF Irq, RtkTypeOK
  <2> QED
    BY <1>1, <2>1 DEF Irq
<1>2. ASSUME i2a # <<>>, IrqRecv(Head(i2a)) PROVE TypeOK'
  <2>1. Head(i2a) \in InMsgs /\ Tail(i2a) \in Seq(InMsgs) /\ Len(Tail(i2a)) <= I2ACap
    BY <1>2
  <2>2. RtkTypeOK'
    BY <1>2, <2>1, RxType DEF IrqRecv
  <2> QED
    BY <1>2, <2>1, <2>2 DEF IrqRecv, Recv
<1>3. ASSUME i2a # <<>>, IrqGetBuffer(Head(i2a)) PROVE TypeOK'
  <2>1. Head(i2a) \in InMsgs /\ Tail(i2a) \in Seq(InMsgs) /\ Len(Tail(i2a)) <= I2ACap
    BY <1>3
  <2>2. PICK ret \in BufferResults(Head(i2a)) : RxGetBuffer(Head(i2a), ret)
    BY <1>3 DEF IrqGetBuffer
  <2>3. ret \in Errors
    BY <2>2 DEF BufferResults, Errors
  <2>4. RtkTypeOK'
    BY <2>1, <2>2, <2>3, RxType
  <2>5. Head(i2a).ep \in BufferEndpoints
    BY <2>2 DEF RxGetBuffer, WantsBuffer
  <2>6. shmem' \subseteq BufferEndpoints /\ dma' \in Nat
    BY <1>3, <2>5 DEF IrqGetBuffer
  <2> QED
    BY <1>3, <2>1, <2>4, <2>6 DEF IrqGetBuffer, Recv
<1>4. ASSUME NEW m \in tosend, IrqSend(m) PROVE TypeOK'
  <2>1. m \in OutMsgs
    BY DEF RtkTypeOK
  <2>2. /\ a2i' \in Seq(OutMsgs) /\ Len(a2i') <= A2ICap
        /\ sent' \subseteq OutMsgs
    BY <1>4, <2>1, MboxSendType DEF IrqSend, MboxSendTimeout
  <2>3. RtkTypeOK'
    BY <1>4 DEF IrqSend, RtkTypeOK, Fail, Remaining, Errors, Flags
  <2> QED
    BY <1>4, <2>2, <2>3 DEF IrqSend
<1>5. CASE IrqDone
  <2>1. RtkTypeOK'
    BY <1>5 DEF IrqDone, StoreFlag, RtkTypeOK, Flags
  <2> QED
    BY <1>5, <2>1 DEF IrqDone
<1>6. CASE IrqExit
  <2>1. RtkTypeOK'
    BY <1>6 DEF IrqExit, RtkTypeOK
  <2> QED
    BY <1>6, <2>1 DEF IrqExit
<1> QED
  BY <1>1, <1>2, <1>3, <1>4, <1>5, <1>6 DEF IrqStep

\* A send of the probing thread preserves the types of what it changes.
LEMMA SendType ==
    ASSUME TypeOK, NEW from, NEW ok, NEW ko, NEW m \in OutMsgs,
           Send(from, m, ok, ko)
    PROVE  /\ a2i' \in Seq(OutMsgs) /\ Len(a2i') <= A2ICap
           /\ sent' \subseteq OutMsgs
           /\ error' \in Errors
           /\ pc' \in {ok, ko}
           /\ Go(from, pc')
<1>1. CASE Go(from, ok) /\ MboxSend(m) /\ UNCHANGED error
  BY <1>1, MboxSendType DEF TypeOK, RtkTypeOK, Go
<1>2. CASE Go(from, ko) /\ MboxSendTimeout /\ Fail("ETIMEDOUT")
  BY <1>2 DEF TypeOK, RtkTypeOK, MboxSendTimeout, Fail, Errors, Go
<1> QED
  BY <1>1, <1>2 DEF Send

\* The messages of the probing thread and of the GPU senders are well typed.
LEMMA DriverMsgsType ==
    /\ InitMsg \in OutMsgs
    /\ Out(MGMT, "AP_PWR", PWR_ON) \in OutMsgs
    /\ Out(MGMT, "STARTEP", FIRMWARE) \in OutMsgs
    /\ Out(MGMT, "STARTEP", DOORBELL) \in OutMsgs
    /\ Out(MGMT, "AP_PWR", PWR_QUIESCED) \in OutMsgs
    /\ Out(MGMT, "IOP_PWR", PWR_SLEEP) \in OutMsgs
    /\ \A ep \in GpuEndpoints : Out(ep, "GPU", 0) \in OutMsgs
  BY DEF InitMsg, Out, OutMsgs, OutTypes, MGMT, PWR_INIT, PWR_ON, PWR_QUIESCED,
         PWR_SLEEP, FIRMWARE, DOORBELL, GpuAssumption

\* A step of the probing thread is well typed if what it assigns is.
LEMMA GoType ==
    ASSUME TypeOK, NEW from, NEW to \in Pcs, Go(from, to),
           error' \in Errors, iop_acked' \in BOOLEAN, ap_acked' \in BOOLEAN,
           hwVars' \in BOOLEAN \X BOOLEAN \X BOOLEAN \X BOOLEAN,
           upVars' \in BOOLEAN \X BOOLEAN \X {"OFF", "ON"},
           shmem' \subseteq BufferEndpoints, dma' \in Nat,
           a2i' \in Seq(OutMsgs), Len(a2i') <= A2ICap, sent' \subseteq OutMsgs
    PROVE  TypeOK'
<1>1. RtkTypeOK'
  BY DEF Go, TypeOK, RtkTypeOK
<1> QED
  BY <1>1 DEF Go, TypeOK

\* A send of the probing thread preserves types, whatever else the step does
\* to the endpoint flags.
LEMMA SendTypeOK ==
    ASSUME TypeOK, NEW from, NEW ok \in Pcs, NEW ko \in Pcs, NEW m \in OutMsgs,
           Send(from, m, ok, ko), SameAcks,
           UNCHANGED <<hwVars, power, memVars>>,
           firmware_up' \in BOOLEAN, doorbell_up' \in BOOLEAN
    PROVE  TypeOK'
<1>1. /\ a2i' \in Seq(OutMsgs) /\ Len(a2i') <= A2ICap
      /\ sent' \subseteq OutMsgs
      /\ error' \in Errors
      /\ pc' \in {ok, ko}
      /\ Go(from, pc')
  BY SendType
<1>2. iop_acked' \in BOOLEAN /\ ap_acked' \in BOOLEAN
  BY DEF SameAcks, TypeOK, RtkTypeOK
<1>3. /\ hwVars' \in BOOLEAN \X BOOLEAN \X BOOLEAN \X BOOLEAN
      /\ upVars' \in BOOLEAN \X BOOLEAN \X {"OFF", "ON"}
      /\ shmem' \subseteq BufferEndpoints /\ dma' \in Nat
  BY DEF TypeOK
<1>4. pc' \in Pcs
  BY <1>1
<1> QED
  BY <1>1, <1>2, <1>3, <1>4, GoType

\* The slots are finitely many, so the allocations in them can be counted.
LEMMA ShmemFinite ==
    ASSUME NEW S \in SUBSET BufferEndpoints
    PROVE  IsFiniteSet(S) /\ Cardinality(S) \in Nat
<1>1. IsFiniteSet(0..8)
  <2>1. 0 \in Int /\ 8 \in Int
    OBVIOUS
  <2> QED
    BY <2>1, FS_Interval, Zenon
<1>2. S \in SUBSET (0..8)
  BY DEF BufferEndpoints, CRASHLOG, SYSLOG, IOREPORT, OSLOG
<1>3. IsFiniteSet(S)
  BY <1>1, <1>2, FS_Subset
<1> QED
  BY <1>3, FS_CardinalityType

\* A wait preserves types.
LEMMA WaitType == ASSUME TypeOK, WaitStep PROVE TypeOK'
<1>1. RtkTypeOK'
  BY DEF TypeOK, RtkTypeOK, WaitStep, WaitTest, WaitExpire, WaitReturn
<1>2. CASE WaitTest \/ WaitExpire
  BY <1>1, <1>2 DEF TypeOK, WaitTest, WaitExpire
<1>3. CASE WaitReturn
  <2>1. pc' \in Pcs
    BY <1>3 DEF WaitReturn, AfterWait, WaitPcs, Pcs, BootPcs, RemovePcs
  <2> QED
    BY <1>1, <1>3, <2>1 DEF TypeOK, WaitReturn
<1> QED
  BY <1>2, <1>3 DEF WaitStep

\* The probing thread preserves types; freeing the buffers does because no
\* allocation is counted that is not in a slot.
LEMMA ProbeType == ASSUME TypeOK, NoDmaLeak, ProbeStep \/ Teardown PROVE TypeOK'
<1>1. CASE WaitStep
  BY <1>1, WaitType
<1>2. CASE BootEnable \/ BootRun \/ BootRequestIrq \/ BootCheckIop \/ BootClearAp
           \/ BootCheckRunning \/ BootStartFirmware \/ BootStartDoorbell
           \/ BootReport \/ BootFail
  <2> USE DEF BootEnable, BootRun, BootRequestIrq, BootCheckIop, BootClearAp,
       BootCheckRunning, BootStartFirmware, BootStartDoorbell, BootStart,
       BootReport, BootFail, Go, NoSend, SameAcks
  <2>1. RtkTypeOK'
    BY <1>2 DEF TypeOK, RtkTypeOK
  <2>2. pc' \in Pcs
    BY <1>2 DEF Pcs, BootPcs, RemovePcs
  <2>3. UNCHANGED <<waiter, irqVars, gpc, memVars, wireVars, i2a>>
    BY <1>2
  <2>4. /\ outbox' \in BOOLEAN /\ cpu_running' \in BOOLEAN
        /\ irq_requested' \in BOOLEAN /\ powered' \in BOOLEAN
        /\ firmware_up' \in BOOLEAN /\ doorbell_up' \in BOOLEAN
        /\ power' \in {"OFF", "ON"}
    BY <1>2 DEF TypeOK
  <2> QED
    BY <2>1, <2>2, <2>3, <2>4 DEF TypeOK
<1>3. CASE BootSendInit \/ BootSendAp \/ ShutdownSendQuiesce \/ ShutdownSendSleep
  <2>1. firmware_up' \in BOOLEAN /\ doorbell_up' \in BOOLEAN
    BY <1>3 DEF BootSendInit, BootSendAp, ShutdownSendQuiesce,
         ShutdownSendSleep, TypeOK
  <2> QED
    BY <1>3, <2>1, SendTypeOK, DriverMsgsType DEF BootSendInit, BootSendAp,
       ShutdownSendQuiesce, ShutdownSendSleep, InitMsg, Pcs, BootPcs, RemovePcs
<1>4. CASE BootSendFirmware
  <2>1. firmware_up' \in BOOLEAN /\ doorbell_up' \in BOOLEAN
    BY <1>4 DEF BootSendFirmware, TypeOK
  <2> QED
    BY <1>4, <2>1, SendTypeOK, DriverMsgsType
       DEF BootSendFirmware, Pcs, BootPcs
<1>5. CASE BootSendDoorbell
  <2>1. firmware_up' \in BOOLEAN /\ doorbell_up' \in BOOLEAN
    BY <1>5 DEF BootSendDoorbell, TypeOK
  <2> QED
    BY <1>5, <2>1, SendTypeOK, DriverMsgsType
       DEF BootSendDoorbell, Pcs, BootPcs
<1>6. CASE Teardown \/ Shutdown \/ ShutdownQuiesceAp \/ ShutdownSleepIop \/ RemoveFreeIrq
           \/ RemoveSyncIrq \/ RemoveStop \/ RemovePut
  <2> USE DEF Teardown, Shutdown, ShutdownQuiesceAp, ShutdownSleepIop, RemoveFreeIrq,
       RemoveSyncIrq, RemoveStop, RemovePut, Go, NoSend, SameAcks
  <2>1. RtkTypeOK'
    BY <1>6 DEF TypeOK, RtkTypeOK
  <2>2. pc' \in Pcs
    BY <1>6 DEF Pcs, BootPcs, RemovePcs
  <2>3. UNCHANGED <<waiter, irqVars, gpc, memVars, wireVars, i2a>>
    BY <1>6
  <2>4. /\ outbox' \in BOOLEAN /\ cpu_running' \in BOOLEAN
        /\ irq_requested' \in BOOLEAN /\ powered' \in BOOLEAN
        /\ firmware_up' \in BOOLEAN /\ doorbell_up' \in BOOLEAN
        /\ power' \in {"OFF", "ON"}
    BY <1>6 DEF TypeOK
  <2> QED
    BY <2>1, <2>2, <2>3, <2>4 DEF TypeOK
<1>7. CASE RemoveFree
  <2>1. dma' = 0
    BY <1>7, ShmemFinite DEF RemoveFree, NoDmaLeak, TypeOK
  <2>2. RtkTypeOK'
    BY <1>7 DEF TypeOK, RtkTypeOK, RemoveFree, Go, NoSend, SameAcks
  <2>3. pc' \in Pcs
    BY <1>7 DEF RemoveFree, Go, Pcs, RemovePcs
  <2>4. dma' \in Nat /\ shmem' \subseteq BufferEndpoints
    BY <1>7, <2>1 DEF RemoveFree
  <2> QED
    BY <1>7, <2>2, <2>3, <2>4 DEF TypeOK, RemoveFree, Go, NoSend, SameAcks
<1> QED
  BY <1>1, <1>2, <1>3, <1>4, <1>5, <1>6, <1>7
     DEF ProbeStep, BootStep, RemoveStep

\* The callers of the GPU senders and the coprocessor preserve types.
LEMMA OthersType ==
    ASSUME TypeOK, GpuStep \/ FwRecv \/ Unbound \/ \E m \in FwMsgs : FwSend(m)
    PROVE  TypeOK'
<1>1. RtkTypeOK'
  BY DEF TypeOK, RtkTypeOK, GpuStep, GpuCheck, GpuSend, GpuRest, FwRecv, FwSend,
         FwRest, Unbound, vars
<1>2. CASE GpuCheck
  BY <1>1, <1>2 DEF TypeOK, GpuCheck, GpuRest
<1>3. ASSUME NEW ep \in GpuEndpoints, GpuSend(ep) PROVE TypeOK'
  <2>1. /\ a2i' \in Seq(OutMsgs) /\ Len(a2i') <= A2ICap
        /\ sent' \subseteq OutMsgs
    <3>1. CASE MboxSend(Out(ep, "GPU", 0))
      BY <3>1, DriverMsgsType, MboxSendType
    <3>2. CASE MboxSendTimeout
      BY <3>2 DEF MboxSendTimeout, TypeOK
    <3> QED
      BY <1>3, <3>1, <3>2 DEF GpuSend
  <2> QED
    BY <1>1, <1>3, <2>1 DEF TypeOK, GpuSend, GpuRest
<1>4. CASE FwRecv
  <2>1. a2i' \in Seq(OutMsgs) /\ Len(a2i') <= A2ICap
    BY <1>4 DEF TypeOK, FwRecv
  <2> QED
    BY <1>1, <1>4, <2>1 DEF TypeOK, FwRecv, FwRest
<1>5. ASSUME NEW m \in FwMsgs, FwSend(m) PROVE TypeOK'
  <2>1. i2a' \in Seq(InMsgs) /\ Len(i2a') <= I2ACap
    BY <1>5 DEF TypeOK, FwSend, FwMsgsAssumption
  <2> QED
    BY <1>1, <1>5, <2>1 DEF TypeOK, FwSend, FwRest
<1>6. CASE Unbound
  BY <1>1, <1>6 DEF TypeOK, Unbound, vars
<1> QED
  BY <1>2, <1>3, <1>4, <1>5, <1>6 DEF GpuStep
============================================================================
