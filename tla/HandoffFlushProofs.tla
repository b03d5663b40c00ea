------------------------ MODULE HandoffFlushProofs -------------------------
(***************************************************************************)
(* Proofs about HandoffFlush for any number of slots, any requests and any *)
(* max_spins.  Its steps are steps of the lock or leave the lock alone, so *)
(* the theorems of HandoffLockProofs hold of it too; and where requests    *)
(* follow the call of agx_handoff_wait_firmware that succeeds, every slot  *)
(* follows its protocol, in whatever order its stores arrive.              *)
(***************************************************************************)
EXTENDS HandoffFlush, HandoffLockProofs

\* agx_handoff_wait_firmware and the requests use the lock as its callers do.
THEOREM LockRefined == ReqSpec => Spec
<1>1. ReqInit => Init
  BY DEF ReqInit
<1>2. [ReqNext]_allVars => [Next]_vars
  BY DEF ReqNext, allVars, Next, ApCall, ApWorks, ApRuns, Drains, FwCall, FwRuns,
         WaitFirmware, WaitFirmwareProceed, WaitFirmwareNoLock, WaitFirmwareMagic,
         WaitFirmwareUnlocked, WaitFirmwareClear, WaitFirmwareDone, FwMagic,
         Prepare, CallerProceed, PrepareStore, WaitCacheflush, WaitCacheflushReturn,
         Complete, FwServe, FwTake, FwReport, SlotDrain, ApProceed
<1> QED
  BY <1>1, <1>2, PTL DEF ReqSpec, Spec

\* So whatever agx_handoff_wait_firmware and the requests do, the lock keeps its
\* promises: exclusion, visible stores, and no flag left behind.
THEOREM LockKept == ReqSpec => [](MutualExclusion /\ FirmwareSeesApStores /\ IdleLeavesNoFlag)
BY LockRefined, MutualExclusionHolds, FirmwareSeesApStoresHolds, IdleLeavesNoFlagHolds, PTL

----------------------------------------------------------------------------
\* The inductive invariant.

Contents == [SlotLoc -> Nat]
Records == [kind : {"nothing", "flush", "unmap"}, base : Nat, size : Nat]

ReqTypes ==
    /\ wf \in {"no", "lock", "unlock", "giveup", "clear"}
    /\ clr \in 0..Clears /\ initialized \in BOOLEAN /\ ordered \in BOOLEAN
    /\ page \in [Slots -> Contents] /\ stored \in [Slots -> Contents]
    /\ pend \in [Slots -> SUBSET SlotLoc]
    /\ rq \in [Slots -> {"idle", "addr", "size", "state", "wait"}]
    /\ asked \in [Slots -> Records]
    /\ fw \in [Slots -> Records]
    /\ served \in [Slots -> {"no", "whole", "torn"}]

\* An ordered hook has one store of a slot pending at a time.
OneAtATime(s) == ordered => \A f, g \in pend[s] : f = g

\* A slot nobody has used; only the clearing loop has stored to it.
Unused(s) ==
    /\ rq[s] = "idle" /\ asked[s] = Nothing /\ fw[s] = Nothing
    /\ page[s]["state"] # BUSY
    /\ \A f \in pend[s] : stored[s][f] = 0

\* The clearing loop has stored the fields before clr.
ClearedTo ==
    wf = "clear" => \A s \in Slots :
        /\ 3 * s < clr => SlotLoad(s, "state") = 0
        /\ 3 * s + 1 < clr => SlotLoad(s, "addr") = 0
        /\ 3 * s + 2 < clr => SlotLoad(s, "size") = 0

Preparing(s) == rq[s] \in SlotLoc

\* The protocol of a slot: what its fields, as the AP finds them, its caller
\* and the firmware know of the request it is used for.
SlotOK(s) ==
    /\ asked[s] = Nothing => ~Preparing(s) /\ \A f \in SlotLoc : SlotLoad(s, f) = 0
    /\ Preparing(s) => SlotLoad(s, "state") = IDLE
    /\ asked[s] # Nothing /\ rq[s] # "addr" => SlotLoad(s, "addr") = AddrOf(asked[s])
    /\ asked[s] # Nothing /\ rq[s] \notin {"addr", "size"} =>
          SlotLoad(s, "size") = asked[s].size
    /\ SlotLoad(s, "state") = BUSY => asked[s].kind = "flush"
    /\ page[s]["state"] = BUSY => "state" \notin pend[s] /\ (ordered => pend[s] = {})
    /\ fw[s] # Nothing => page[s]["state"] = BUSY /\ (ordered => fw[s] = asked[s])
    /\ asked[s].kind = "flush" /\ ~Preparing(s) /\ SlotLoad(s, "state") # BUSY =>
          served[s] # "no" /\ (ordered => served[s] = "whole")

ReqInv ==
    /\ ReqTypes /\ ClearedTo /\ \A s \in Slots : OneAtATime(s)
    /\ wf # "no" => ~initialized
    /\ ~initialized => \A s \in Slots : Unused(s)
    /\ initialized => \A s \in Slots : SlotOK(s)

USE RequestAssumption DEF IDLE, BUSY, DONE

\* The page may hold anything but a request, and nobody has used it yet.
LEMMA ReqInitInv == ReqInit => ReqInv
<1> SUFFICES ASSUME ReqInit PROVE ReqInv
  OBVIOUS
<1>1. 0 \in 0..Clears
  BY DEF Clears
<1>2. page \in [Slots -> Contents] /\ \A s \in Slots : page[s]["state"] # BUSY
  BY DEF ReqInit, Contents
<1>3. Nothing \in Records
  BY DEF Nothing, Records
<1>4. stored \in [Slots -> Contents] /\ pend \in [Slots -> SUBSET SlotLoc]
      /\ \A s \in Slots : pend[s] = {}
  BY DEF ReqInit, Contents
<1>5. ReqTypes
  BY <1>1, <1>2, <1>3, <1>4 DEF ReqInit, ReqTypes
<1> QED
  BY <1>2, <1>4, <1>5 DEF ReqInit, ReqInv, ClearedTo, Unused, OneAtATime

----------------------------------------------------------------------------
\* Stores and loads.

\* A store is what the AP finds from then on; it does not change the page.
LEMMA StoreKnown ==
    ASSUME ReqTypes, NEW s \in Slots, NEW f \in SlotLoc, NEW v \in Nat, SlotStore(s, f, v)
    PROVE  /\ page' \in [Slots -> Contents] /\ stored' \in [Slots -> Contents]
           /\ pend' \in [Slots -> SUBSET SlotLoc] /\ ordered' = ordered /\ page' = page
           /\ pend'[s] = pend[s] \cup {f} /\ (ordered => pend[s] = {})
           /\ stored'[s][f] = v /\ \A g \in SlotLoc \ {f} : stored'[s][g] = stored[s][g]
           /\ SlotLoad(s, f)' = v
           /\ \A g \in SlotLoc \ {f} : SlotLoad(s, g)' = SlotLoad(s, g)
           /\ \A q \in Slots \ {s} : pend'[q] = pend[q] /\ stored'[q] = stored[q]
           /\ OneAtATime(s)'
<1>1. stored[s] \in Contents /\ pend[s] \subseteq SlotLoc
  BY DEF ReqTypes
<1>2. stored' = [stored EXCEPT ![s] = [stored[s] EXCEPT ![f] = v]]
  BY DEF SlotStore
<1>3. [stored[s] EXCEPT ![f] = v] \in Contents
  BY <1>1 DEF Contents
<1>4. stored' \in [Slots -> Contents] /\ stored'[s] = [stored[s] EXCEPT ![f] = v]
      /\ \A q \in Slots \ {s} : stored'[q] = stored[q]
  BY <1>2, <1>3 DEF ReqTypes
<1>5. stored'[s][f] = v /\ \A g \in SlotLoc \ {f} : stored'[s][g] = stored[s][g]
  BY <1>1, <1>4 DEF Contents
<1>6. /\ pend' \in [Slots -> SUBSET SlotLoc] /\ pend'[s] = pend[s] \cup {f}
      /\ \A q \in Slots \ {s} : pend'[q] = pend[q]
  BY <1>1 DEF SlotStore, ReqTypes
<1>7. UNCHANGED <<ordered, page>> /\ (ordered => pend[s] = {})
  BY DEF SlotStore
<1>8. OneAtATime(s)'
  BY <1>6, <1>7 DEF OneAtATime
<1> QED
  BY <1>4, <1>5, <1>6, <1>7, <1>8 DEF SlotLoad, ReqTypes

\* A store that arrives is what the AP found before.
LEMMA DrainKnown ==
    ASSUME ReqTypes, NEW s \in Slots, NEW f \in SlotLoc, SlotDrain(s, f)
    PROVE  /\ page' \in [Slots -> Contents] /\ stored' \in [Slots -> Contents]
           /\ pend' \in [Slots -> SUBSET SlotLoc] /\ ordered' = ordered
           /\ f \in pend[s] /\ pend'[s] = pend[s] \ {f}
           /\ page'[s][f] = stored[s][f]
           /\ \A g \in SlotLoc \ {f} : page'[s][g] = page[s][g] /\ stored'[s][g] = stored[s][g]
           /\ \A g \in SlotLoc : SlotLoad(s, g)' = SlotLoad(s, g)
           /\ \A q \in Slots \ {s} :
                 page'[q] = page[q] /\ pend'[q] = pend[q] /\ stored'[q] = stored[q]
<1>1. stored[s] \in Contents /\ page[s] \in Contents /\ pend[s] \subseteq SlotLoc
      /\ stored[s][f] \in Nat
  BY DEF ReqTypes, Contents
<1>2. /\ stored' = [stored EXCEPT ![s] = [stored[s] EXCEPT ![f] = 0]]
      /\ page' = [page EXCEPT ![s] = [page[s] EXCEPT ![f] = stored[s][f]]]
  BY DEF SlotDrain
<1>3. [stored[s] EXCEPT ![f] = 0] \in Contents /\ [page[s] EXCEPT ![f] = stored[s][f]] \in Contents
  BY <1>1 DEF Contents
<1>4. /\ stored' \in [Slots -> Contents] /\ stored'[s] = [stored[s] EXCEPT ![f] = 0]
      /\ page' \in [Slots -> Contents] /\ page'[s] = [page[s] EXCEPT ![f] = stored[s][f]]
      /\ \A q \in Slots \ {s} : stored'[q] = stored[q] /\ page'[q] = page[q]
  BY <1>2, <1>3 DEF ReqTypes
<1>5. /\ page'[s][f] = stored[s][f]
      /\ \A g \in SlotLoc \ {f} : page'[s][g] = page[s][g] /\ stored'[s][g] = stored[s][g]
  BY <1>1, <1>4 DEF Contents
<1>6. /\ pend' \in [Slots -> SUBSET SlotLoc] /\ pend'[s] = pend[s] \ {f}
      /\ \A q \in Slots \ {s} : pend'[q] = pend[q]
  BY <1>1 DEF SlotDrain, ReqTypes
<1>7. ordered' = ordered /\ f \in pend[s]
  BY DEF SlotDrain
<1> QED
  BY <1>4, <1>5, <1>6, <1>7 DEF SlotLoad

----------------------------------------------------------------------------
\* The steps of the lock and the exchange of magic numbers keep the slots.
LEMMA MagicStep ==
    ASSUME ~AnyOrder, ReqInv, UNCHANGED slotVars,
           \/ UNCHANGED magicVars \/ WaitFirmware \/ WaitFirmwareNoLock
           \/ WaitFirmwareMagic \/ WaitFirmwareUnlocked \/ FwMagic
    PROVE  ReqInv'
<1> USE DEF ReqInv, slotVars, memVars
<1>1. \/ UNCHANGED <<wf, clr, initialized>>
      \/ /\ wf' \in {"no", "lock", "unlock", "giveup"} /\ UNCHANGED <<clr, initialized>>
         /\ wf' # "no" => ~initialized
      \/ wf' \in {"no", "clear"} /\ clr' = 0 /\ ~initialized /\ UNCHANGED initialized
  BY DEF magicVars, WaitFirmware, WaitFirmwareNoLock, WaitFirmwareMagic,
         WaitFirmwareUnlocked, FwMagic
<1>2. 0 \in 0..Clears /\ \A s \in Slots : s \in Nat
  BY DEF Clears, Slots
<1>3. ReqTypes'
  BY <1>1, <1>2 DEF ReqTypes
<1>4. ClearedTo'
  BY <1>1, <1>2 DEF ClearedTo, SlotLoad
<1>5. /\ (wf # "no" => ~initialized)'
      /\ (~initialized => \A s \in Slots : Unused(s))'
      /\ (initialized => \A s \in Slots : SlotOK(s))'
      /\ (\A s \in Slots : OneAtATime(s))'
  BY <1>1 DEF Unused, SlotOK, Preparing, SlotLoad, OneAtATime
<1> QED
  BY <1>3, <1>4, <1>5

\* Dividing by the three fields of a slot.
LEMMA DivideByFields ==
    ASSUME NEW c \in Nat
    PROVE  c \div 3 \in Nat /\ c % 3 \in 0..2 /\ c = 3 * (c \div 3) + (c % 3)
OBVIOUS

\* Each store of the loop clears the field it is for.
LEMMA ClearStep == ASSUME ReqInv, WaitFirmwareClear PROVE ReqInv'
<1> USE DEF ReqInv
<1>1. clr \in Nat /\ clr < 3 * FLUSH_SLOTS /\ ReqTypes /\ ~initialized /\ wf = "clear"
      /\ clr' = clr + 1 /\ UNCHANGED <<wf, initialized, rq, asked, fw, served>>
  BY DEF ReqTypes, Clears, WaitFirmwareClear
<1>2. PICK t \in Slots, m \in 0..2 : t = clr \div 3 /\ m = clr % 3 /\ clr = 3 * t + m
  <2>1. /\ clr \div 3 \in Nat /\ clr % 3 \in 0..2
        /\ clr = 3 * (clr \div 3) + (clr % 3)
    BY <1>1, DivideByFields
  <2>2. clr \div 3 <= FLUSH_SLOTS - 1
    BY <1>1, <2>1
  <2> QED
    BY <2>1, <2>2 DEF Slots
<1>3. PICK f \in SlotLoc : /\ SlotStore(t, f, 0)
                           /\ f = "state" <=> m = 0
                           /\ f = "addr" <=> m = 1
                           /\ f = "size" <=> m = 2
  <2>1. CASE m = 0
    BY <1>2, <2>1 DEF WaitFirmwareClear, SlotLoc
  <2>2. CASE m = 1
    BY <1>2, <2>2 DEF WaitFirmwareClear, SlotLoc
  <2>3. CASE m = 2
    BY <1>2, <2>3 DEF WaitFirmwareClear, SlotLoc
  <2> QED
    BY <2>1, <2>2, <2>3
<1>4. /\ page' \in [Slots -> Contents] /\ stored' \in [Slots -> Contents]
      /\ pend' \in [Slots -> SUBSET SlotLoc] /\ ordered' = ordered /\ page' = page
      /\ pend'[t] = pend[t] \cup {f}
      /\ stored'[t][f] = 0 /\ \A g \in SlotLoc \ {f} : stored'[t][g] = stored[t][g]
      /\ SlotLoad(t, f)' = 0
      /\ \A g \in SlotLoc \ {f} : SlotLoad(t, g)' = SlotLoad(t, g)
      /\ \A q \in Slots \ {t} : pend'[q] = pend[q] /\ stored'[q] = stored[q]
      /\ OneAtATime(t)'
  BY <1>1, <1>3, StoreKnown
<1>5. ReqTypes'
  <2>1. clr' \in 0..Clears
    BY <1>1 DEF Clears
  <2> QED
    BY <1>1, <1>4, <2>1 DEF ReqTypes
<1>6. ClearedTo'
  <2> SUFFICES ASSUME NEW s \in Slots
               PROVE  /\ 3 * s < clr' => SlotLoad(s, "state")' = 0
                      /\ 3 * s + 1 < clr' => SlotLoad(s, "addr")' = 0
                      /\ 3 * s + 2 < clr' => SlotLoad(s, "size")' = 0
    BY DEF ClearedTo
  <2>0. s \in Nat /\ t \in Nat
    BY DEF Slots
  <2>1. /\ 3 * s < clr => SlotLoad(s, "state") = 0
        /\ 3 * s + 1 < clr => SlotLoad(s, "addr") = 0
        /\ 3 * s + 2 < clr => SlotLoad(s, "size") = 0
    BY <1>1 DEF ClearedTo
  <2>2. CASE s = t
    <3>1. \A g \in SlotLoc : SlotLoad(s, g)' = IF g = f THEN 0 ELSE SlotLoad(s, g)
      BY <1>4, <2>2
    <3> QED
      BY <1>1, <1>2, <1>3, <2>0, <2>1, <2>2, <3>1 DEF SlotLoc
  <2>3. CASE s # t
    <3>1. \A g \in SlotLoc : SlotLoad(s, g)' = SlotLoad(s, g)
      BY <1>4, <2>3 DEF SlotLoad
    <3>2. 3 * s < clr' => 3 * s < clr
      BY <1>1, <1>2, <2>0, <2>3
    <3>3. 3 * s + 1 < clr' => 3 * s + 1 < clr
      BY <1>1, <1>2, <2>0, <2>3
    <3>4. 3 * s + 2 < clr' => 3 * s + 2 < clr
      BY <1>1, <1>2, <2>0, <2>3
    <3> QED
      BY <2>1, <3>1, <3>2, <3>3, <3>4 DEF SlotLoc
  <2> QED
    BY <2>2, <2>3
<1>7. ASSUME NEW s \in Slots PROVE Unused(s)' /\ OneAtATime(s)'
  BY <1>1, <1>4 DEF Unused, OneAtATime
<1> QED
  BY <1>1, <1>5, <1>6, <1>7

\* When the loop is done the AP finds every slot idle and empty.
LEMMA DoneStep == ASSUME ReqInv, WaitFirmwareDone PROVE ReqInv'
<1> USE DEF ReqInv, WaitFirmwareDone, slotVars, memVars
<1>1. ReqTypes' /\ ClearedTo' /\ wf' = "no" /\ initialized'
  BY DEF ReqTypes, ClearedTo
<1>2. ASSUME NEW s \in Slots PROVE SlotOK(s)' /\ OneAtATime(s)'
  <2>1. \A f \in SlotLoc : SlotLoad(s, f) = 0
    BY DEF ClearedTo, Clears, Slots, SlotLoc
  <2>2. /\ ~Preparing(s) /\ asked[s] = Nothing /\ fw[s] = Nothing
        /\ page[s]["state"] # BUSY /\ Nothing.kind = "nothing"
    BY DEF Unused, Preparing, SlotLoc, Nothing
  <2>3. SlotOK(s) /\ OneAtATime(s)
    BY <2>1, <2>2 DEF SlotOK, SlotLoc
  <2> QED
    BY <2>3 DEF SlotOK, Preparing, SlotLoad, OneAtATime
<1> QED
  BY <1>1, <1>2

----------------------------------------------------------------------------
\* A step of slot s leaves the others and the magic numbers alone.
Only(s) ==
    /\ UNCHANGED <<magicVars, ordered>>
    /\ \A q \in Slots \ {s} :
          /\ page'[q] = page[q] /\ pend'[q] = pend[q] /\ stored'[q] = stored[q]
          /\ rq'[q] = rq[q] /\ asked'[q] = asked[q]
          /\ fw'[q] = fw[q] /\ served'[q] = served[q]

\* The steps of a slot.
SlotStep(s) ==
    \/ \E r \in Requests : Prepare(s, r)
    \/ CallerProceed(s) \/ WaitCacheflush(s) \/ Complete(s) \/ FwServe(s)

\* A caller or the firmware acts only after agx_handoff_wait_firmware.
LEMMA StepsAfterInit ==
    ASSUME ~AnyOrder, ReqInv, NEW s \in Slots, SlotStep(s)
    PROVE  initialized
BY DEF SlotStep, CallerProceed, FwServe, Prepare, MayCall, PrepareStore, SlotLoc,
       WaitCacheflush, WaitCacheflushReturn, RqGo, Complete, FwTake, FwReport,
       ReqInv, Unused

\* One step at a time, each keeps the protocol of its slot.
LEMMA SlotStepOK ==
    ASSUME ~AnyOrder, ReqInv, NEW s \in Slots, SlotStep(s)
    PROVE  Only(s) /\ ReqTypes' /\ OneAtATime(s)' /\ SlotOK(s)'
<1>1. ReqTypes /\ SlotOK(s) /\ OneAtATime(s)
  BY StepsAfterInit DEF ReqInv
<1>2. /\ page[s] \in Contents /\ asked[s] \in Records /\ fw[s] \in Records
      /\ pend[s] \subseteq SlotLoc
  BY <1>1 DEF ReqTypes
<1>3. Nothing \in Records /\ Nothing.kind = "nothing"
  BY DEF Nothing, Records
<1>4. \A r \in Records : AddrOf(r) \in Nat /\ r.size \in Nat /\ StateFor(r) \in {BUSY, DONE}
  BY DEF AddrOf, Records, StateFor
<1>5. "state" \in SlotLoc /\ "addr" \in SlotLoc /\ "size" \in SlotLoc
  BY DEF SlotLoc
<1>6. page[s]["state"] = BUSY => SlotLoad(s, "state") = BUSY
  BY <1>1 DEF SlotOK, SlotLoad
<1> USE DEF Only, RqGo
<1>7. ASSUME NEW r \in Requests, Prepare(s, r)
      PROVE  Only(s) /\ ReqTypes' /\ OneAtATime(s)' /\ SlotOK(s)'
  <2>1. r \in Records /\ r # Nothing /\ r.kind \in {"flush", "unmap"}
    BY DEF Records, Nothing
  <2>2. Only(s) /\ ReqTypes'
    BY <1>1, <1>7, <2>1 DEF Prepare, ReqTypes, magicVars, memVars
  <2>3. /\ UNCHANGED memVars /\ SlotLoad(s, "state") = IDLE /\ rq'[s] = "addr"
        /\ asked'[s] = r /\ fw'[s] = fw[s]
    BY <1>1, <1>7 DEF Prepare, ReqTypes, MayPrepare
  <2>4. \A f : SlotLoad(s, f)' = SlotLoad(s, f)
    BY <2>3 DEF SlotLoad, memVars
  <2>5. OneAtATime(s)'
    BY <1>1, <2>3 DEF OneAtATime, memVars
  <2>6. fw[s] = Nothing /\ page[s]["state"] # BUSY
    BY <1>1, <1>6, <2>3 DEF SlotOK
  <2>7. SlotOK(s)'
    BY <1>5, <2>1, <2>3, <2>4, <2>6 DEF SlotOK, Preparing, memVars
  <2> QED
    BY <2>2, <2>5, <2>7
<1>8. CASE PrepareStore(s)
  <2>1. asked[s] # Nothing /\ Preparing(s) /\ SlotLoad(s, "state") = IDLE
        /\ fw[s] = Nothing /\ page[s]["state"] # BUSY
    BY <1>1, <1>6, <1>8 DEF PrepareStore, SlotOK, Preparing
  <2>2. UNCHANGED <<magicVars, asked, fw, served>>
    BY <1>8 DEF PrepareStore
  <2>3. ASSUME NEW f \in SlotLoc, NEW v \in Nat, NEW next \in {"size", "state", "idle"},
               SlotStore(s, f, v), rq' = [rq EXCEPT ![s] = next]
        PROVE  /\ Only(s) /\ ReqTypes' /\ OneAtATime(s)' /\ rq'[s] = next
               /\ page' = page /\ pend'[s] = pend[s] \cup {f} /\ SlotLoad(s, f)' = v
               /\ \A g \in SlotLoc \ {f} : SlotLoad(s, g)' = SlotLoad(s, g)
    <3>1. /\ page' \in [Slots -> Contents] /\ stored' \in [Slots -> Contents]
          /\ pend' \in [Slots -> SUBSET SlotLoc] /\ ordered' = ordered /\ page' = page
          /\ pend'[s] = pend[s] \cup {f} /\ SlotLoad(s, f)' = v
          /\ \A g \in SlotLoc \ {f} : SlotLoad(s, g)' = SlotLoad(s, g)
          /\ \A q \in Slots \ {s} : pend'[q] = pend[q] /\ stored'[q] = stored[q]
          /\ OneAtATime(s)'
      BY <1>1, <2>3, StoreKnown
    <3> QED
      BY <1>1, <2>2, <2>3, <3>1 DEF ReqTypes, magicVars
  <2>4. CASE rq[s] = "addr"
    <3>1. SlotStore(s, "addr", AddrOf(asked[s])) /\ rq' = [rq EXCEPT ![s] = "size"]
      BY <1>8, <2>4 DEF PrepareStore, FieldOf, NextField
    <3>2. /\ Only(s) /\ ReqTypes' /\ OneAtATime(s)' /\ rq'[s] = "size"
          /\ page' = page /\ SlotLoad(s, "addr")' = AddrOf(asked[s])
          /\ SlotLoad(s, "state")' = SlotLoad(s, "state")
      BY <1>2, <1>4, <1>5, <2>3, <3>1
    <3> QED
      BY <1>1, <1>5, <2>1, <2>2, <3>2 DEF SlotOK, Preparing
  <2>5. CASE rq[s] = "size"
    <3>1. SlotStore(s, "size", asked[s].size) /\ rq' = [rq EXCEPT ![s] = "state"]
      BY <1>8, <2>5 DEF PrepareStore, FieldOf, NextField
    <3>2. /\ Only(s) /\ ReqTypes' /\ OneAtATime(s)' /\ rq'[s] = "state"
          /\ page' = page /\ SlotLoad(s, "size")' = asked[s].size
          /\ SlotLoad(s, "state")' = SlotLoad(s, "state")
          /\ SlotLoad(s, "addr")' = SlotLoad(s, "addr")
      BY <1>2, <1>4, <1>5, <2>3, <3>1
    <3> QED
      BY <1>1, <1>5, <2>1, <2>2, <2>5, <3>2 DEF SlotOK, Preparing
  <2>6. CASE rq[s] = "state"
    <3>1. SlotStore(s, "state", StateFor(asked[s])) /\ rq' = [rq EXCEPT ![s] = "idle"]
      BY <1>8, <2>6 DEF PrepareStore, FieldOf, NextField
    <3>2. /\ Only(s) /\ ReqTypes' /\ OneAtATime(s)' /\ rq'[s] = "idle"
          /\ page' = page /\ SlotLoad(s, "state")' = StateFor(asked[s])
          /\ SlotLoad(s, "size")' = SlotLoad(s, "size")
          /\ SlotLoad(s, "addr")' = SlotLoad(s, "addr")
      BY <1>2, <1>4, <1>5, <2>3, <3>1
    <3> QED
      BY <1>1, <2>1, <2>2, <2>6, <3>2 DEF SlotOK, Preparing, StateFor, SlotLoc
  <2> QED
    BY <1>8, <2>4, <2>5, <2>6 DEF PrepareStore, SlotLoc
<1>9. CASE WaitCacheflush(s) \/ WaitCacheflushReturn(s)
  <2>1. Only(s) /\ ReqTypes'
    BY <1>1, <1>9 DEF WaitCacheflush, WaitCacheflushReturn, ReqTypes, magicVars, memVars
  <2>2. /\ rq[s] \in {"idle", "wait"} /\ rq'[s] \in {"idle", "wait"}
        /\ UNCHANGED <<memVars, asked, fw, served>>
    BY <1>1, <1>9 DEF WaitCacheflush, WaitCacheflushReturn, ReqTypes
  <2>3. \A f : SlotLoad(s, f)' = SlotLoad(s, f)
    BY <2>2 DEF SlotLoad, memVars
  <2>4. OneAtATime(s)'
    BY <1>1, <2>2 DEF OneAtATime, memVars
  <2>5. ~Preparing(s) /\ ~Preparing(s)'
    BY <2>2 DEF Preparing, SlotLoc
  <2>6. SlotOK(s)'
    BY <1>1, <2>2, <2>3, <2>5 DEF SlotOK, memVars
  <2> QED
    BY <2>1, <2>4, <2>6
<1>10. CASE Complete(s)
  <2>1. SlotStore(s, "state", IDLE) /\ SlotLoad(s, "state") = DONE
        /\ rq[s] = "idle" /\ UNCHANGED <<magicVars, rq, asked, fw, served>>
    BY <1>10 DEF Complete, MayCall, MayComplete
  <2>2. /\ page' \in [Slots -> Contents] /\ stored' \in [Slots -> Contents]
        /\ pend' \in [Slots -> SUBSET SlotLoc] /\ ordered' = ordered /\ page' = page
        /\ SlotLoad(s, "state")' = IDLE
        /\ \A g \in SlotLoc \ {"state"} : SlotLoad(s, g)' = SlotLoad(s, g)
        /\ \A q \in Slots \ {s} : pend'[q] = pend[q] /\ stored'[q] = stored[q]
        /\ OneAtATime(s)'
    BY <1>1, <1>5, <2>1, StoreKnown
  <2>3. Only(s) /\ ReqTypes'
    BY <1>1, <2>1, <2>2 DEF ReqTypes, magicVars
  <2>4. asked[s] # Nothing /\ fw[s] = Nothing /\ page[s]["state"] # BUSY /\ ~Preparing(s)
    BY <1>1, <1>5, <1>6, <2>1 DEF SlotOK, Preparing, SlotLoc
  <2>5. SlotOK(s)'
    BY <1>1, <1>5, <2>1, <2>2, <2>4 DEF SlotOK, Preparing
  <2> QED
    BY <2>2, <2>3, <2>5
<1>11. CASE FwTake(s)
  <2> DEFINE t == [kind |-> "flush", base |-> page[s]["addr"], size |-> page[s]["size"]]
  <2>1. t \in Records
    BY <1>2, <1>5 DEF Contents, Records
  <2>2. fw' = [fw EXCEPT ![s] = t] /\ UNCHANGED <<magicVars, memVars, rq, asked, served>>
    BY <1>11 DEF FwTake
  <2>3. page[s]["state"] = BUSY /\ asked[s].kind = "flush" /\ asked[s] # Nothing
        /\ ~Preparing(s)
    BY <1>1, <1>3, <1>6, <1>11 DEF FwTake, SlotOK
  <2>4. ordered => t = asked[s]
    <3> SUFFICES ASSUME ordered PROVE t = asked[s]
      OBVIOUS
    <3>1. pend[s] = {}
      BY <1>1, <2>3 DEF SlotOK
    <3>2. SlotLoad(s, "addr") = page[s]["addr"] /\ SlotLoad(s, "size") = page[s]["size"]
      BY <3>1 DEF SlotLoad
    <3>3. SlotLoad(s, "addr") = asked[s].base /\ SlotLoad(s, "size") = asked[s].size
      BY <1>1, <1>5, <2>3 DEF SlotOK, Preparing, AddrOf
    <3> QED
      BY <1>2, <2>3, <3>2, <3>3 DEF Records
  <2> HIDE DEF t
  <2>5. Only(s) /\ ReqTypes' /\ fw'[s] = t
    BY <1>1, <2>1, <2>2 DEF ReqTypes, magicVars, memVars
  <2>6. \A f : SlotLoad(s, f)' = SlotLoad(s, f)
    BY <2>2 DEF SlotLoad, memVars
  <2>7. OneAtATime(s)'
    BY <1>1, <2>2 DEF OneAtATime, memVars
  <2>8. SlotOK(s)'
    BY <1>1, <2>2, <2>3, <2>4, <2>5, <2>6 DEF SlotOK, Preparing, memVars
  <2> QED
    BY <2>5, <2>7, <2>8
<1>12. CASE FwReport(s)
  <2>1. /\ fw[s] # Nothing /\ page[s]["state"] = BUSY /\ "state" \notin pend[s]
        /\ (ordered => fw[s] = asked[s]) /\ asked[s].kind = "flush" /\ asked[s] # Nothing
        /\ ~Preparing(s)
    BY <1>1, <1>3, <1>6, <1>12 DEF FwReport, SlotOK
  <2>2. /\ page' = [page EXCEPT ![s] = [page[s] EXCEPT !["state"] = DONE]]
        /\ UNCHANGED <<magicVars, ordered, pend, stored, rq, asked>>
    BY <1>12 DEF FwReport
  <2>3. /\ [page[s] EXCEPT !["state"] = DONE] \in Contents
        /\ [page[s] EXCEPT !["state"] = DONE]["state"] = DONE
        /\ \A g \in SlotLoc \ {"state"} :
              [page[s] EXCEPT !["state"] = DONE][g] = page[s][g]
    BY <1>2, <1>5 DEF Contents
  <2>4. /\ page' \in [Slots -> Contents] /\ page'[s]["state"] = DONE
        /\ \A g \in SlotLoc \ {"state"} : page'[s][g] = page[s][g]
        /\ \A q \in Slots \ {s} : page'[q] = page[q]
    BY <1>1, <2>2, <2>3 DEF ReqTypes
  <2>5. /\ served'[s] = IF fw[s] = asked[s] THEN "whole" ELSE "torn"
        /\ served' \in [Slots -> {"no", "whole", "torn"}]
        /\ fw'[s] = Nothing /\ fw' \in [Slots -> Records]
        /\ \A q \in Slots \ {s} : fw'[q] = fw[q] /\ served'[q] = served[q]
    BY <1>1, <1>3, <1>12 DEF FwReport, ReqTypes
  <2>6. Only(s) /\ ReqTypes'
    BY <1>1, <2>2, <2>4, <2>5 DEF ReqTypes, magicVars
  <2>7. /\ SlotLoad(s, "state")' = DONE
        /\ \A g \in SlotLoc \ {"state"} : SlotLoad(s, g)' = SlotLoad(s, g)
    BY <2>1, <2>2, <2>4 DEF SlotLoad
  <2>8. OneAtATime(s)'
    BY <1>1, <2>2 DEF OneAtATime
  <2>9. SlotOK(s)'
    BY <1>1, <1>5, <2>1, <2>2, <2>4, <2>5, <2>7 DEF SlotOK, Preparing
  <2> QED
    BY <2>6, <2>8, <2>9
<1> HIDE DEF Only
<1> QED
  BY <1>7, <1>8, <1>9, <1>10, <1>11, <1>12 DEF SlotStep, CallerProceed, FwServe

\* Nothing that concerns another slot changes.
LEMMA OthersKept ==
    ASSUME NEW s \in Slots, Only(s), NEW q \in Slots \ {s}
    PROVE  /\ OneAtATime(q) => OneAtATime(q)'
           /\ SlotOK(q) => SlotOK(q)'
           /\ Unused(q) => Unused(q)'
           /\ \A f : SlotLoad(q, f)' = SlotLoad(q, f)
<1>1. /\ page'[q] = page[q] /\ pend'[q] = pend[q] /\ stored'[q] = stored[q]
      /\ rq'[q] = rq[q] /\ asked'[q] = asked[q]
      /\ fw'[q] = fw[q] /\ served'[q] = served[q] /\ ordered' = ordered
  BY DEF Only
<1>2. \A f : SlotLoad(q, f)' = SlotLoad(q, f)
  BY <1>1 DEF SlotLoad
<1> QED
  BY <1>1, <1>2 DEF OneAtATime, SlotOK, Unused, Preparing

\* A step of one slot keeps the invariant of all of them.
LEMMA SlotStepInv ==
    ASSUME ~AnyOrder, ReqInv, NEW s \in Slots, SlotStep(s)
    PROVE  ReqInv'
<1>1. initialized /\ Only(s) /\ ReqTypes' /\ OneAtATime(s)' /\ SlotOK(s)'
  BY SlotStepOK, StepsAfterInit
<1>2. ASSUME NEW q \in Slots PROVE SlotOK(q)' /\ OneAtATime(q)'
  BY <1>1, OthersKept DEF ReqInv
<1>3. initialized' /\ wf' = "no"
  BY <1>1 DEF ReqInv, ReqTypes, Only, magicVars
<1> QED
  BY <1>1, <1>2, <1>3 DEF ReqInv, ClearedTo

\* A store that arrives changes nothing that the AP finds; the state of a
\* request arrives last if the hook is ordered.
LEMMA DrainStepInv ==
    ASSUME ReqInv, NEW s \in Slots, NEW f \in SlotLoc, SlotDrain(s, f)
    PROVE  ReqInv'
<1>1. /\ page' \in [Slots -> Contents] /\ stored' \in [Slots -> Contents]
      /\ pend' \in [Slots -> SUBSET SlotLoc] /\ ordered' = ordered
      /\ f \in pend[s] /\ pend'[s] = pend[s] \ {f}
      /\ page'[s][f] = stored[s][f]
      /\ \A g \in SlotLoc \ {f} : page'[s][g] = page[s][g] /\ stored'[s][g] = stored[s][g]
      /\ \A g \in SlotLoc : SlotLoad(s, g)' = SlotLoad(s, g)
      /\ \A q \in Slots \ {s} :
            page'[q] = page[q] /\ pend'[q] = pend[q] /\ stored'[q] = stored[q]
  BY DrainKnown DEF ReqInv
<1>2. UNCHANGED <<magicVars, ordered, rq, asked, fw, served>>
  BY DEF SlotDrain
<1>3. Only(s)
  BY <1>1, <1>2 DEF Only
<1>4. ReqTypes'
  BY <1>1, <1>2 DEF ReqInv, ReqTypes, magicVars
<1>5. OneAtATime(s) /\ OneAtATime(s)'
  BY <1>1 DEF ReqInv, OneAtATime
<1>6. "state" \in SlotLoc /\ pend[s] \subseteq SlotLoc
  BY DEF SlotLoc, ReqInv, ReqTypes
<1>7. Unused(s) => Unused(s)'
  <2> SUFFICES ASSUME Unused(s) PROVE Unused(s)'
    OBVIOUS
  <2>1. page'[s]["state"] # BUSY
    BY <1>1, <1>6 DEF Unused
  <2>2. \A g \in pend'[s] : stored'[s][g] = 0
    BY <1>1, <1>6 DEF Unused
  <2> QED
    BY <1>2, <2>1, <2>2 DEF Unused
<1>8. SlotOK(s) => SlotOK(s)'
  <2> SUFFICES ASSUME SlotOK(s) PROVE SlotOK(s)'
    OBVIOUS
  <2>1. page'[s]["state"] = BUSY =>
           "state" \notin pend'[s] /\ (ordered => pend'[s] = {})
    <3>1. CASE f = "state"
      BY <1>1, <1>5, <3>1 DEF OneAtATime
    <3>2. CASE f # "state"
      BY <1>1, <1>6, <3>2 DEF SlotOK
    <3> QED
      BY <3>1, <3>2
  <2>2. page[s]["state"] = BUSY => page'[s]["state"] = BUSY
    BY <1>1, <1>6 DEF SlotOK
  <2>3. /\ SlotLoad(s, "state")' = SlotLoad(s, "state")
        /\ SlotLoad(s, "addr")' = SlotLoad(s, "addr")
        /\ SlotLoad(s, "size")' = SlotLoad(s, "size")
    BY <1>1 DEF SlotLoc
  <2> QED
    BY <1>1, <1>2, <2>1, <2>2, <2>3 DEF SlotOK, Preparing
<1>9. ClearedTo'
  <2>1. \A q \in Slots, g \in SlotLoc : SlotLoad(q, g)' = SlotLoad(q, g)
    BY <1>1, <1>3, OthersKept
  <2> QED
    BY <1>2, <2>1 DEF ReqInv, ClearedTo, magicVars, SlotLoc
<1>10. ASSUME NEW q \in Slots
       PROVE  OneAtATime(q)' /\ (Unused(q) => Unused(q)') /\ (SlotOK(q) => SlotOK(q)')
  BY <1>3, <1>5, <1>7, <1>8, OthersKept DEF ReqInv
<1> QED
  BY <1>2, <1>4, <1>9, <1>10 DEF ReqInv, magicVars

\* Every step is one of those.
LEMMA ReqStepCases ==
    ASSUME [ReqNext]_allVars
    PROVE  \/ UNCHANGED slotVars /\ (\/ UNCHANGED magicVars \/ WaitFirmware
                                     \/ WaitFirmwareNoLock \/ WaitFirmwareMagic
                                     \/ WaitFirmwareUnlocked \/ FwMagic)
           \/ WaitFirmwareClear \/ WaitFirmwareDone
           \/ \E s \in Slots : SlotStep(s)
           \/ \E s \in Slots, f \in SlotLoc : SlotDrain(s, f)
BY DEF ReqNext, allVars, reqVars, ApCall, ApWorks, ApRuns, Drains, FwCall, FwRuns,
       WaitFirmwareProceed, WaitFirmware, WaitFirmwareNoLock, WaitFirmwareMagic,
       WaitFirmwareUnlocked, FwMagic, SlotStep

\* The requests' invariant, where requests follow the exchange of magic numbers.
THEOREM ReqInvHolds == ASSUME ~AnyOrder PROVE ReqSpec => []ReqInv
<1>1. ReqInv /\ [ReqNext]_allVars => ReqInv'
  BY ReqStepCases, MagicStep, ClearStep, DoneStep, SlotStepInv, DrainStepInv
<1> QED
  BY ReqInitInv, <1>1, PTL DEF ReqSpec

\* After agx_handoff_wait_firmware has succeeded, whatever the page held and
\* however many slots it has, the AP finds an unused slot idle and empty.
THEOREM SlotsClearedHolds == ASSUME ~AnyOrder PROVE ReqSpec => []SlotsCleared
<1>1. ReqInv => SlotsCleared
  BY DEF ReqInv, SlotOK, SlotsCleared
<1> QED
  BY ReqInvHolds, <1>1, PTL

\* The firmware works on flushes that were accepted only, and if the write64
\* hook keeps the order of the stores, on exactly what was asked for.
THEOREM TakesRequestHolds == ASSUME ~AnyOrder PROVE ReqSpec => []TakesRequest
<1>1. ASSUME ReqInv, NEW s \in Slots, fw[s] # Nothing
      PROVE  asked[s].kind = "flush" /\ (ordered => fw[s] = asked[s])
  <2>1. SlotOK(s)
    BY <1>1 DEF ReqInv, Unused
  <2>2. SlotLoad(s, "state") = BUSY
    BY <1>1, <2>1 DEF SlotOK, SlotLoad
  <2> QED
    BY <1>1, <2>1, <2>2 DEF SlotOK
<1>2. ReqInv => TakesRequest
  BY <1>1 DEF TakesRequest
<1> QED
  BY ReqInvHolds, <1>2, PTL

\* Nothing the callers do disturbs a request the firmware has taken, in
\* whatever order their stores arrive.
THEOREM FirmwareUndisturbedHolds == ASSUME ~AnyOrder PROVE ReqSpec => FirmwareUndisturbed
<1> DEFINE Same(s) == \A f \in SlotLoc : SlotLoad(s, f)' = SlotLoad(s, f)
           Keeps == \A s \in Slots : fw[s] # Nothing =>
                       /\ asked'[s] = asked[s]
                       /\ fw'[s] = fw[s] => Same(s)
<1>1. ReqInv /\ [ReqNext]_allVars => [Keeps]_allVars
  <2> SUFFICES ASSUME ReqInv, [ReqNext]_allVars, NEW s \in Slots,
                      fw[s] # Nothing
               PROVE  /\ asked'[s] = asked[s]
                      /\ fw'[s] = fw[s] => Same(s)
    OBVIOUS
  <2>1. initialized /\ SlotOK(s) /\ wf = "no" /\ ReqTypes
    BY DEF ReqInv, Unused
  <2>2. CASE UNCHANGED slotVars
    BY <2>2 DEF slotVars, memVars, SlotLoad
  <2>3. CASE WaitFirmwareClear \/ WaitFirmwareDone
    BY <2>1, <2>3 DEF WaitFirmwareClear, WaitFirmwareDone
  <2>4. ASSUME NEW q \in Slots, SlotStep(q), q # s
        PROVE  asked'[s] = asked[s] /\ Same(s)
    <3>1. Only(q)
      BY <2>4, SlotStepOK
    <3> QED
      BY <2>4, <3>1, OthersKept DEF Only
  <2>5. CASE SlotStep(s)
    <3>1. SlotLoad(s, "state") = BUSY /\ ~Preparing(s)
      BY <2>1 DEF SlotOK, SlotLoad
    <3>2. ~Complete(s) /\ ~PrepareStore(s) /\ ~FwTake(s)
      BY <3>1, fw[s] # Nothing DEF Preparing, Complete, MayComplete, PrepareStore, FwTake
    <3>3. \A r : ~Prepare(s, r)
      BY <3>1 DEF Prepare, MayPrepare
    <3>4. FwReport(s) => UNCHANGED asked /\ fw'[s] = Nothing
      BY <2>1 DEF FwReport, ReqTypes
    <3>5. WaitCacheflush(s) \/ WaitCacheflushReturn(s) => UNCHANGED <<asked, memVars>>
      BY DEF WaitCacheflush, WaitCacheflushReturn
    <3>6. UNCHANGED memVars => Same(s)
      BY DEF memVars, SlotLoad
    <3> QED
      BY <2>5, <3>2, <3>3, <3>4, <3>5, <3>6 DEF SlotStep, CallerProceed, FwServe
  <2>6. ASSUME NEW q \in Slots, NEW g \in SlotLoc, SlotDrain(q, g)
        PROVE  asked'[s] = asked[s] /\ Same(s)
    <3>1. UNCHANGED asked
      BY <2>6 DEF SlotDrain
    <3>2. CASE q = s
      BY <2>1, <2>6, <3>1, <3>2, DrainKnown
    <3>3. CASE q # s
      <4>1. page'[s] = page[s] /\ pend'[s] = pend[s] /\ stored'[s] = stored[s]
        BY <2>1, <2>6, <3>3, DrainKnown
      <4> QED
        BY <3>1, <4>1 DEF SlotLoad
    <3> QED
      BY <3>2, <3>3
  <2> HIDE DEF Same
  <2> QED
    BY <2>2, <2>3, <2>4, <2>5, <2>6, ReqStepCases
<1> QED
  BY ReqInvHolds, <1>1, PTL DEF ReqSpec, FirmwareUndisturbed

\* agx_handoff_wait_cacheflush returns 0 for a requested flush only if the
\* firmware has served it since and, if the write64 hook keeps the order of
\* the stores, has flushed exactly that range.
THEOREM WaitMeansFlushedHolds == ASSUME ~AnyOrder PROVE ReqSpec => WaitMeansFlushed
<1> DEFINE Means(s) ==
        rq[s] = "wait" /\ SlotLoad(s, "state") # BUSY /\ asked[s].kind = "flush" =>
           served[s] # "no" /\ (ordered => served[s] = "whole")
<1>1. ReqInv => \A s \in Slots : Means(s)
  BY DEF ReqInv, Unused, SlotOK, Preparing, SlotLoc
<1>2. ReqInv /\ [ReqNext]_allVars =>
        [\A s \in Slots : rq[s] = "wait" /\ rq'[s] = "idle" /\ SlotLoad(s, "state") # BUSY
            /\ asked[s].kind = "flush" =>
               served[s] # "no" /\ (ordered => served[s] = "whole")]_allVars
  BY <1>1
<1> QED
  BY ReqInvHolds, <1>2, PTL DEF ReqSpec, WaitMeansFlushed
============================================================================
