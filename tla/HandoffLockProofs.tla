------------------------- MODULE HandoffLockProofs -------------------------
(***************************************************************************)
(* Proofs about HandoffLock for every value of MaxSpins.                   *)
(*                                                                         *)
(* Mutual exclusion is not inductive: it needs to know that each flag byte *)
(* says what its owner's program counter says, and that no store to the    *)
(* AP's flag is pending where the code has passed a barrier.               *)
(***************************************************************************)
EXTENDS HandoffLock, TLAPS

\* The AP has raised its flag, in program order.
ApRaised ==
    pc_ap \in {"set_dmb", "test_fw", "test_turn", "yield", "retake_dmb",
               "spin", "giveup", "acquire_dmb", "held", "release_dmb",
               "set_turn", "turn_dmb", "clear"}

FwRaised ==
    pc_fw \in {"test_ap", "test_turn", "yield", "held", "set_turn", "clear"}

\* Each flag agrees with the program counter of the side that owns it.
FlagsAgree ==
    /\ ApRaised <=> ApLoad("lock_ap") = 1
    /\ FwRaised <=> lock_fw = 1

\* A store is pending only between the store and the next barrier.
PendingAgrees ==
    /\ wbuf["lock_ap"] # None =>
         pc_ap \in {"set_dmb", "yield_dmb", "retake_dmb", "giveup_dmb", "clear_dmb"}
    /\ wbuf["turn"] # None => pc_ap = "turn_dmb"
    /\ wbuf["data"] # None => pc_ap \in {"held", "release_dmb"}

LockedAgrees ==
    locked <=> pc_ap \in {"held", "release_dmb", "set_turn", "turn_dmb",
                          "clear", "clear_dmb"}

\* The count passes max_spins only on the way out of a timed-out call.
SpinsAgree ==
    spins > MaxSpins => pc_ap \in {"idle", "giveup", "giveup_dmb"}

\* The inductive invariant.
LockInv ==
    /\ TypeOK /\ SpinsAgree
    /\ FlagsAgree /\ PendingAgrees /\ LockedAgrees /\ MutualExclusion

USE MaxSpinsAssumption DEF ApLoc, Bit, None

\* Init establishes the invariant: flags down, buffer empty, nobody inside.
LEMMA InitInv == Init => LockInv
<1> SUFFICES ASSUME Init PROVE LockInv
  OBVIOUS
<1> USE DEF Init
<1>1. TypeOK
  <2>1. spins \in 0..(MaxSpins + 1)
    OBVIOUS
  <2>2. mem \in [ApLoc -> Bit] /\ wbuf \in [ApLoc -> Bit \cup {None}]
    OBVIOUS
  <2> QED
    BY <2>1, <2>2 DEF TypeOK, ApPcs, ApBarriers, FwPcs
<1>5. SpinsAgree
  BY DEF SpinsAgree
<1>2. FlagsAgree
  BY DEF FlagsAgree, ApRaised, FwRaised, ApLoad
<1>3. PendingAgrees /\ LockedAgrees
  BY DEF PendingAgrees, LockedAgrees
<1>4. MutualExclusion
  BY DEF MutualExclusion, ApInside, FwInside
<1> QED
  BY <1>1, <1>2, <1>3, <1>4, <1>5 DEF LockInv

\* The counter stays within max_spins + 1 while it is counted up and is reset
\* by the next call.
LEMMA StepType == LockInv /\ [Next]_vars => (TypeOK /\ SpinsAgree)'
<1> SUFFICES ASSUME LockInv, [Next]_vars PROVE (TypeOK /\ SpinsAgree)'
  OBVIOUS
<1> USE DEF LockInv, TypeOK, SpinsAgree, ApPcs, FwPcs, ApBarriers
<1>1. CASE ApLock
  BY <1>1 DEF ApLock, ApGoto
<1>2. ASSUME NEW v \in Bit, ApWork(v) PROVE (TypeOK /\ SpinsAgree)'
  BY <1>2 DEF ApWork, ApGoto, ApStore
<1>3. CASE ApProceed
  <2>1. CASE ApSetFlag \/ ApYield \/ ApRetake \/ ApGiveUp \/ ApSetTurn \/ ApClearFlag
    BY <2>1 DEF ApSetFlag, ApYield, ApRetake, ApGiveUp, ApSetTurn, ApHandTurnOver, ApClearFlag,
                ApGoto, ApStore
  <2>2. CASE ApTestFw \/ ApTestTurn \/ ApUnlock
    BY <2>2 DEF ApTestFw, ApTestTurn, ApMustYield, ApUnlock, ApGoto, ApLoad
  <2>3. CASE ApTurnWait
    <3>1. spins <= MaxSpins \/ MaxSpins = 0 \/ OutOfSpins
      BY DEF OutOfSpins
    <3> QED
      BY <2>3, <3>1 DEF ApTurnWait, ApGoto, CountSpin, OutOfSpins
  <2>4. CASE ApSpin
    BY <2>4 DEF ApSpin, ApGoto, CountSpin, OutOfSpins
  <2>5. CASE ApBarrier
    BY <2>5 DEF ApBarrier, ApBarrierMet, ApGoto, AfterBarrier
  <2> QED
    BY <1>3, <2>1, <2>2, <2>3, <2>4, <2>5 DEF ApProceed
<1>4. ASSUME NEW l \in ApLoc, Drain(l) PROVE (TypeOK /\ SpinsAgree)'
  BY <1>4 DEF Drain
<1>5. CASE FwLock \/ FwProceed
  BY <1>5 DEF FwLock, FwProceed, FwSetFlag, FwTestAp, FwTestTurn, FwYield,
              FwTurnWait, FwRetake, FwUnlock, FwSetTurn, FwClearFlag, FwMove
<1>6. CASE UNCHANGED vars
  BY <1>6 DEF vars
<1> QED
  BY <1>1, <1>2, <1>3, <1>4, <1>5, <1>6 DEF Next

\* Every step keeps the flags, the pending stores and ho->locked in agreement
\* with the program counters, and lets in only one side.
LEMMA StepInv == LockInv /\ [Next]_vars => LockInv'
<1> SUFFICES ASSUME LockInv, [Next]_vars PROVE LockInv'
  OBVIOUS
<1> DEFINE Goal == FlagsAgree /\ PendingAgrees /\ LockedAgrees /\ MutualExclusion
<1>0. TypeOK' /\ SpinsAgree'
  BY StepType
<1> SUFFICES Goal'
  BY <1>0 DEF LockInv
<1> USE DEF LockInv, TypeOK, FlagsAgree, PendingAgrees, LockedAgrees,
            MutualExclusion, ApRaised, FwRaised, ApLoad, ApInside, FwInside
<1>1. CASE ApLock
  BY <1>1 DEF ApLock, ApGoto
<1>2. ASSUME NEW v \in Bit, ApWork(v) PROVE Goal'
  BY <1>2 DEF ApWork, ApGoto, ApStore
<1>3. CASE ApProceed
  <2>1. CASE ApSetFlag
    BY <2>1 DEF ApSetFlag, ApGoto, ApStore
  <2>2. CASE ApTestFw
    BY <2>2 DEF ApTestFw, ApGoto
  <2>3. CASE ApTestTurn
    BY <2>3 DEF ApTestTurn, ApMustYield, ApGoto
  <2>4. CASE ApYield
    BY <2>4 DEF ApYield, ApGoto, ApStore
  <2>5. CASE ApTurnWait
    BY <2>5 DEF ApTurnWait, ApGoto
  <2>6. CASE ApRetake
    BY <2>6 DEF ApRetake, ApGoto, ApStore
  <2>7. CASE ApSpin
    BY <2>7 DEF ApSpin, ApGoto
  <2>8. CASE ApGiveUp
    BY <2>8 DEF ApGiveUp, ApGoto, ApStore
  <2>9. CASE ApUnlock
    BY <2>9 DEF ApUnlock, ApGoto
  <2>10. CASE ApSetTurn
    BY <2>10 DEF ApSetTurn, ApHandTurnOver, ApGoto, ApStore
  <2>11. CASE ApClearFlag
    BY <2>11 DEF ApClearFlag, ApGoto, ApStore
  <2>12. CASE ApBarrier
    BY <2>12 DEF ApBarrier, ApBarrierMet, ApBarriers, ApGoto, AfterBarrier, Drained
  <2> QED
    BY <1>3, <2>1, <2>2, <2>3, <2>4, <2>5, <2>6, <2>7, <2>8, <2>9, <2>10,
       <2>11, <2>12 DEF ApProceed
<1>4. ASSUME NEW l \in ApLoc, Drain(l) PROVE Goal'
  BY <1>4 DEF Drain
<1>5. CASE FwLock \/ FwProceed
  <2>1. CASE FwLock \/ FwSetFlag \/ FwTestTurn \/ FwYield \/ FwTurnWait \/ FwRetake
    BY <2>1 DEF FwLock, FwSetFlag, FwTestTurn, FwYield, FwTurnWait, FwRetake, FwMove
  <2>2. CASE FwTestAp
    BY <2>2 DEF FwTestAp, FwMove
  <2>3. CASE FwUnlock \/ FwSetTurn \/ FwClearFlag
    BY <2>3 DEF FwUnlock, FwSetTurn, FwClearFlag, FwMove
  <2> QED
    BY <1>5, <2>1, <2>2, <2>3 DEF FwProceed
<1>6. CASE UNCHANGED vars
  BY <1>6 DEF vars
<1> QED
  BY <1>1, <1>2, <1>3, <1>4, <1>5, <1>6 DEF Next

\* The invariant holds in every reachable state.
THEOREM InvariantHolds == Spec => []LockInv
  BY InitInv, StepInv, PTL DEF Spec

\* agx_handoff_lock counts no further than max_spins + 1, for every max_spins,
\* and the state of the lock is well typed.
THEOREM TypeOKHolds == Spec => []TypeOK
<1>1. LockInv => TypeOK
  BY DEF LockInv
<1> QED
  BY <1>1, InvariantHolds, PTL

\* handoff_test.cpp:199, for every max_spins: the kernel's agx_handoff_lock
\* and the mirrored firmware never enter the critical section together.
THEOREM MutualExclusionHolds == Spec => []MutualExclusion
<1>1. LockInv => MutualExclusion
  BY DEF LockInv
<1> QED
  BY <1>1, InvariantHolds, PTL

\* What agx_handoff_unlock's first barrier is for, for every max_spins: the
\* firmware never holds the lock while a store the kernel made under it is
\* still pending.
THEOREM FirmwareSeesApStoresHolds == Spec => []FirmwareSeesApStores
<1>1. LockInv => FirmwareSeesApStores
  BY DEF LockInv, FirmwareSeesApStores, MutualExclusion, PendingAgrees,
         ApInside, FwInside, ApLoad, FlagsAgree
<1> QED
  BY <1>1, InvariantHolds, PTL

\* handoff_test.cpp:131, for every max_spins: an unlock and both timeouts of
\* agx_handoff_lock leave the AP's flag byte clear and ho->locked false.
THEOREM IdleLeavesNoFlagHolds == Spec => []IdleLeavesNoFlag
<1>1. LockInv => IdleLeavesNoFlag
  BY DEF LockInv, TypeOK, IdleLeavesNoFlag, FlagsAgree, PendingAgrees,
         LockedAgrees, ApRaised, ApLoad
<1> QED
  BY <1>1, InvariantHolds, PTL
============================================================================
