---------------------------- MODULE HandoffLock ----------------------------
(***************************************************************************)
(* The lock of the GFX handoff page (src/gfxhandoff.c): the kernel (AP)    *)
(* and the coprocessor firmware (FW) share two flag bytes and a turn word, *)
(* and each side runs its half of a Dekker style protocol.                 *)
(*                                                                         *)
(* The AP half is agx_handoff_lock/agx_handoff_unlock, one step for every  *)
(* access to the page.  The AP's stores go through a store buffer (wbuf)   *)
(* that drains at any moment and in any order across locations; a barrier  *)
(* is a step that waits for the buffer to be empty.  The FW half is the    *)
(* mirrored implementation of tests/handoff_test.cpp, whose accesses are   *)
(* sequentially consistent.                                                *)
(***************************************************************************)
EXTENDS Naturals

CONSTANT MaxSpins   \* the max_spins argument; 0 means "wait for ever"

ASSUME MaxSpinsAssumption == MaxSpins \in Nat

\* What a location holds in the store buffer when no store to it is pending.
None == 2
Bit == {0, 1}

\* The locations the AP stores to.  "data" stands for whatever the critical
\* section of the AP writes (page tables, flush records).
ApLoc == {"lock_ap", "turn", "data"}

VARIABLES
    mem,       \* the shared page, as far as the AP stores to it
    lock_fw,   \* the firmware's flag byte in the same page
    wbuf,      \* the AP's store buffer
    locked,    \* ho->locked
    spins,     \* the local of agx_handoff_lock
    pc_ap,
    pc_fw

vars == <<mem, lock_fw, wbuf, locked, spins, pc_ap, pc_fw>>

----------------------------------------------------------------------------
\* The AP's memory accesses.

Drained == \A l \in ApLoc : wbuf[l] = None

\* What an AP load of l returns: its own newest store, else the page.
ApLoad(l) == IF wbuf[l] = None THEN mem[l] ELSE wbuf[l]

\* An AP store; a pending older store to the same location is superseded.
ApStore(l, v) == wbuf' = [wbuf EXCEPT ![l] = v]

\* One pending store reaches the page.
Drain(l) ==
    /\ wbuf[l] # None
    /\ mem' = [mem EXCEPT ![l] = wbuf[l]]
    /\ wbuf' = [wbuf EXCEPT ![l] = None]
    /\ UNCHANGED <<lock_fw, locked, spins, pc_ap, pc_fw>>

----------------------------------------------------------------------------
\* Where the AP and the firmware are.

\* The points of the AP that stand at a barrier.
ApBarriers == {"set_dmb", "yield_dmb", "retake_dmb", "giveup_dmb",
               "acquire_dmb", "release_dmb", "turn_dmb", "clear_dmb"}

ApPcs == ApBarriers \cup
         {"idle", "set", "test_fw", "test_turn", "yield", "turn_wait",
          "retake", "spin", "giveup", "held", "set_turn", "clear"}

FwPcs == {"idle", "set", "test_ap", "test_turn", "yield", "turn_wait",
          "retake", "held", "set_turn", "clear"}

\* The AP owns the critical section from the read that lets it in until
\* agx_handoff_unlock starts handing it over, the firmware likewise.
ApInside == pc_ap \in {"acquire_dmb", "held", "release_dmb", "set_turn",
                       "turn_dmb", "clear"}
FwInside == pc_fw \in {"held", "set_turn", "clear"}

Init ==
    /\ mem = [l \in ApLoc |-> 0]
    /\ lock_fw = 0
    /\ wbuf = [l \in ApLoc |-> None]
    /\ locked = FALSE
    /\ spins = 0
    /\ pc_ap = "idle"
    /\ pc_fw = "idle"

----------------------------------------------------------------------------
\* agx_handoff_lock, on the AP.

ApGoto(p) == pc_ap' = p

\* A caller asks for the lock.
ApLock ==
    /\ pc_ap = "idle"
    /\ ApGoto("set")
    /\ spins' = 0
    /\ UNCHANGED <<mem, lock_fw, wbuf, locked, pc_fw>>

\* Variant for the checks: the barrier of line 29 is missing.
ApSetFlagNoBarrier ==
    /\ pc_ap = "set"
    /\ ApStore("lock_ap", 1)
    /\ ApGoto("test_fw")
    /\ UNCHANGED <<mem, lock_fw, locked, spins, pc_fw>>

ApSetFlag ==
    /\ pc_ap = "set"
    /\ ApStore("lock_ap", 1)
    /\ ApGoto("set_dmb")
    /\ UNCHANGED <<mem, lock_fw, locked, spins, pc_fw>>

ApTestFw ==
    /\ pc_ap = "test_fw"
    /\ ApGoto(IF lock_fw = 0 THEN "acquire_dmb" ELSE "test_turn")
    /\ UNCHANGED <<mem, lock_fw, wbuf, locked, spins, pc_fw>>

\* Variant for the checks: the turn test of line 32 is inverted.
ApMayInsist == ApLoad("turn") = 0

ApMustYield == ApLoad("turn") # 0

ApTestTurn ==
    /\ pc_ap = "test_turn"
    /\ ApGoto(IF ApMustYield THEN "yield" ELSE "spin")
    /\ UNCHANGED <<mem, lock_fw, wbuf, locked, spins, pc_fw>>

ApYield ==
    /\ pc_ap = "yield"
    /\ ApStore("lock_ap", 0)
    /\ ApGoto("yield_dmb")
    /\ UNCHANGED <<mem, lock_fw, locked, spins, pc_fw>>

\* Variant for the checks: the bound is off by one.
OutOfSpinsLate == MaxSpins # 0 /\ spins > MaxSpins

\* "max_spins && ++spins > max_spins" is true; the counter is left alone
\* when max_spins is 0.
OutOfSpins == MaxSpins # 0 /\ spins + 1 > MaxSpins
CountSpin == spins' = IF MaxSpins = 0 THEN spins ELSE spins + 1

\* The inner loop: the flag is already down, so running out returns at once.
ApTurnWait ==
    /\ pc_ap = "turn_wait"
    /\ \/ ApLoad("turn") = 0 /\ ApGoto("retake") /\ UNCHANGED spins
       \/ ApLoad("turn") # 0 /\ OutOfSpins /\ ApGoto("idle") /\ CountSpin
       \/ ApLoad("turn") # 0 /\ ~OutOfSpins /\ ApGoto("turn_wait") /\ CountSpin
    /\ UNCHANGED <<mem, lock_fw, wbuf, locked, pc_fw>>

ApRetake ==
    /\ pc_ap = "retake"
    /\ ApStore("lock_ap", 1)
    /\ ApGoto("retake_dmb")
    /\ UNCHANGED <<mem, lock_fw, locked, spins, pc_fw>>

\* Variant for the checks: the flag stays up after a timeout (line 45).
ApSpinKeepsFlag ==
    /\ pc_ap = "spin"
    /\ ApGoto(IF OutOfSpins THEN "idle" ELSE "test_fw")
    /\ CountSpin
    /\ UNCHANGED <<mem, lock_fw, wbuf, locked, pc_fw>>

\* The end of the outer loop's body.
ApSpin ==
    /\ pc_ap = "spin"
    /\ ApGoto(IF OutOfSpins THEN "giveup" ELSE "test_fw")
    /\ CountSpin
    /\ UNCHANGED <<mem, lock_fw, wbuf, locked, pc_fw>>

ApGiveUp ==
    /\ pc_ap = "giveup"
    /\ ApStore("lock_ap", 0)
    /\ ApGoto("giveup_dmb")
    /\ UNCHANGED <<mem, lock_fw, locked, spins, pc_fw>>

----------------------------------------------------------------------------
\* The critical section of the AP and agx_handoff_unlock.

\* The AP writes under the lock.
ApWork(v) ==
    /\ pc_ap = "held"
    /\ ApStore("data", v)
    /\ ApGoto("held")
    /\ UNCHANGED <<mem, lock_fw, locked, spins, pc_fw>>

ApUnlock ==
    /\ pc_ap = "held"
    /\ ApGoto("release_dmb")
    /\ UNCHANGED <<mem, lock_fw, wbuf, locked, spins, pc_fw>>

\* Variant for the checks: the turn is not handed over (line 60).
ApKeepTurn == UNCHANGED wbuf

ApHandTurnOver == ApStore("turn", 1)

ApSetTurn ==
    /\ pc_ap = "set_turn"
    /\ ApHandTurnOver
    /\ ApGoto("turn_dmb")
    /\ UNCHANGED <<mem, lock_fw, locked, spins, pc_fw>>

ApClearFlag ==
    /\ pc_ap = "clear"
    /\ ApStore("lock_ap", 0)
    /\ ApGoto("clear_dmb")
    /\ UNCHANGED <<mem, lock_fw, locked, spins, pc_fw>>

\* Where each barrier leads.
AfterBarrier(p) ==
    CASE p = "set_dmb" -> "test_fw"
      [] p = "yield_dmb" -> "turn_wait"
      [] p = "retake_dmb" -> "spin"
      [] p = "giveup_dmb" -> "idle"
      [] p = "acquire_dmb" -> "held"
      [] p = "release_dmb" -> "set_turn"
      [] p = "turn_dmb" -> "clear"
      [] p = "clear_dmb" -> "idle"

\* Variant for the checks: the barriers of agx_handoff_unlock do nothing.
ApWeakBarrier == pc_ap \in {"release_dmb", "turn_dmb", "clear_dmb"} \/ Drained

ApBarrierMet == Drained

\* A barrier completes; the ones of lines 52 and 63 are followed by the
\* assignment to ho->locked.
ApBarrier ==
    /\ pc_ap \in ApBarriers /\ ApBarrierMet
    /\ ApGoto(AfterBarrier(pc_ap))
    /\ locked' = (IF pc_ap = "acquire_dmb" THEN TRUE
                  ELSE IF pc_ap = "clear_dmb" THEN FALSE ELSE locked)
    /\ UNCHANGED <<mem, lock_fw, wbuf, spins, pc_fw>>

----------------------------------------------------------------------------
\* The firmware's half: MirroredFirmwareLock of tests/handoff_test.cpp.

FwMove(from, to) ==
    /\ pc_fw = from
    /\ pc_fw' = to
    /\ UNCHANGED <<wbuf, locked, spins, pc_ap>>

FwLock == FwMove("idle", "set") /\ UNCHANGED <<mem, lock_fw>>

FwSetFlag == FwMove("set", "test_ap") /\ lock_fw' = 1 /\ UNCHANGED mem

FwTestAp ==
    /\ FwMove("test_ap", IF mem.lock_ap = 0 THEN "held" ELSE "test_turn")
    /\ UNCHANGED <<mem, lock_fw>>

FwTestTurn ==
    /\ FwMove("test_turn", IF mem.turn = 0 THEN "yield" ELSE "test_ap")
    /\ UNCHANGED <<mem, lock_fw>>

FwYield == FwMove("yield", "turn_wait") /\ lock_fw' = 0 /\ UNCHANGED mem

FwTurnWait ==
    /\ mem.turn # 0
    /\ FwMove("turn_wait", "retake")
    /\ UNCHANGED <<mem, lock_fw>>

FwRetake == FwMove("retake", "test_ap") /\ lock_fw' = 1 /\ UNCHANGED mem

FwUnlock == FwMove("held", "set_turn") /\ UNCHANGED <<mem, lock_fw>>

FwSetTurn ==
    /\ FwMove("set_turn", "clear")
    /\ mem' = [mem EXCEPT !.turn = 0]
    /\ UNCHANGED lock_fw

FwClearFlag == FwMove("clear", "idle") /\ lock_fw' = 0 /\ UNCHANGED mem

----------------------------------------------------------------------------
\* The steps of an attempt or a release under way, which the two processors
\* keep taking; ApLock and FwLock are choices of their callers, ApWork of the
\* critical section.

ApProceed ==
    \/ ApSetFlag \/ ApTestFw \/ ApTestTurn \/ ApYield \/ ApTurnWait
    \/ ApRetake \/ ApSpin \/ ApGiveUp \/ ApUnlock \/ ApSetTurn
    \/ ApClearFlag \/ ApBarrier

FwProceed ==
    \/ FwSetFlag \/ FwTestAp \/ FwTestTurn \/ FwYield \/ FwTurnWait
    \/ FwRetake \/ FwUnlock \/ FwSetTurn \/ FwClearFlag

Next ==
    \/ ApLock
    \/ \E v \in Bit : ApWork(v)
    \/ ApProceed
    \/ \E l \in ApLoc : Drain(l)
    \/ FwLock
    \/ FwProceed

Spec == Init /\ [][Next]_vars

\* Neither processor stops in the middle of a call, a critical section ends,
\* and a store becomes visible.
Fairness ==
    /\ WF_vars(ApProceed)
    /\ WF_vars(FwProceed)
    /\ \A l \in ApLoc : WF_vars(Drain(l))

FairSpec == Spec /\ Fairness

----------------------------------------------------------------------------
\* Every variable has its type, and the spin counter of agx_handoff_lock
\* never passes max_spins + 1.
TypeOK ==
    /\ mem \in [ApLoc -> Bit]
    /\ lock_fw \in Bit
    /\ wbuf \in [ApLoc -> Bit \cup {None}]
    /\ locked \in BOOLEAN
    /\ spins \in 0..(MaxSpins + 1)
    /\ pc_ap \in ApPcs
    /\ pc_fw \in FwPcs

\* handoff_test.cpp:199 - the kernel and the firmware are never inside the
\* critical section together, whatever the order of their accesses to the
\* page and of the AP's stores (agx_handoff_lock, lines 28-54).
MutualExclusion == ~(ApInside /\ FwInside)

\* What the AP stored while it held the lock is in the page whenever the
\* firmware holds it: the barrier at line 59 of agx_handoff_unlock.
FirmwareSeesApStores == FwInside => ApLoad("data") = mem["data"]

\* handoff_test.cpp:131 - whenever no call is under way, after an unlock and
\* after either way of timing out, the AP's flag byte is clear in the page
\* and ho->locked is false.
IdleLeavesNoFlag ==
    pc_ap = "idle" => mem["lock_ap"] = 0 /\ wbuf["lock_ap"] = None /\ ~locked

\* handoff_test.cpp:201 - with max_spins = 0 an AP that asks for the lock gets
\* it: agx_handoff_lock has no other way out, and the turn word rules out
\* starvation.
ApLockSucceeds == (MaxSpins = 0 /\ pc_ap = "set") ~> pc_ap = "held"

\* handoff_test.cpp:203 - "the mirrored firmware side completed every
\* iteration without deadlocking": a firmware that asks for the lock gets it.
FwLockSucceeds == pc_fw = "set" ~> pc_fw = "held"

\* The same promise in its weakest form: once the kernel has made its last
\* call (its loop of the test is over), a firmware that asks for the lock
\* gets it, for there is nobody left to wait for.
FwLockSucceedsAlone ==
    <>[](pc_ap = "idle") => (pc_fw = "set" ~> pc_fw = "held")
============================================================================
