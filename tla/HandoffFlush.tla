--------------------------- MODULE HandoffFlush ----------------------------
(***************************************************************************)
(* The requests of the GFX handoff page (src/gfxhandoff.c): the exchange   *)
(* of magic numbers under the lock (agx_handoff_wait_firmware) and the     *)
(* cache flush and unmap requests, one slot of the page per context.       *)
(*                                                                         *)
(* The thread that takes the lock is the one of HandoffLock; the requests  *)
(* of a context come from one caller, slots are independent.  The stores   *)
(* to a slot are pending until they reach the page, as those of the lock   *)
(* are, and the code calls no barrier for them.  What order they arrive in *)
(* is up to the write64 hook: a sequentially consistent one, such as that  *)
(* of handoff_test.cpp, waits for the store before (ordered); a plain      *)
(* store does not, and then they arrive in any order.                      *)
(*                                                                         *)
(* The waits do not count here: the firmware's pace is arbitrary, so a     *)
(* wait with a limit may end after any number of polls.                    *)
(***************************************************************************)
EXTENDS HandoffLock

CONSTANTS
    FLUSH_SLOTS,   \* AGX_HANDOFF_FLUSH_SLOTS, 65 in the code
    Requests,      \* the requests callers make: kind, base and size
    ADDR_SPAN,     \* AGX_HANDOFF_UNMAP_ADDR_MASK + 1
    UNMAP_TAG,     \* AGX_HANDOFF_UNMAP_TAG
    Leftovers,     \* what a slot may hold in the beginning
    LocksFirst,    \* the firmware may lock before it has written its magic
    AnyOrder       \* the functions are called in any order; otherwise
                   \* agx_handoff_wait_firmware until it succeeds, then requests

Slots == 0..(FLUSH_SLOTS - 1)

\* The fields of a slot.
SlotLoc == {"state", "addr", "size"}

IDLE == 0
BUSY == 1
DONE == 2

\* A slot may hold anything but a request, which nobody has made yet.
ASSUME RequestAssumption ==
    /\ FLUSH_SLOTS \in Nat \ {0}
    /\ Requests \subseteq [kind : {"flush", "unmap"}, base : Nat, size : Nat]
    /\ ADDR_SPAN \in Nat \ {0} /\ UNMAP_TAG \in Nat
    /\ \A p \in Leftovers : p \in [SlotLoc -> Nat] /\ p["state"] # BUSY
    /\ LocksFirst \in BOOLEAN /\ AnyOrder \in BOOLEAN

VARIABLES
    wf,                    \* agx_handoff_wait_firmware, where it is
    clr,                   \* the store of its clearing loop that is next
    magic_ap, magic_fw, initialized,
    ordered,               \* the write64 hook waits for earlier stores
    page,                  \* the slots
    pend,                  \* the fields with a store that is still pending
    stored,                \* and what that store is; 0 for the other fields
    rq,                    \* what the caller of a slot is doing
    asked,                 \* the last request prepare accepted
    fw,                    \* what the firmware has taken from a slot
    served                 \* it has carried out that request: "no", or with
                           \* its range, "whole", or another, "torn"

magicVars == <<wf, clr, magic_ap, magic_fw, initialized>>
memVars == <<ordered, page, pend, stored>>
slotVars == <<memVars, rq, asked, fw, served>>
reqVars == <<magicVars, slotVars>>
allVars == <<vars, reqVars>>

Nothing == [kind |-> "nothing", base |-> 0, size |-> 0]

\* Nobody has used the page yet.
ReqInit ==
    /\ Init
    /\ wf = "no" /\ clr = 0
    /\ magic_ap = FALSE /\ magic_fw = FALSE /\ initialized = FALSE
    /\ ordered \in BOOLEAN
    /\ page \in [Slots -> Leftovers]
    /\ pend = [s \in Slots |-> {}]
    /\ stored = [s \in Slots |-> [f \in SlotLoc |-> 0]]
    /\ rq = [s \in Slots |-> "idle"]
    /\ asked = [s \in Slots |-> Nothing]
    /\ fw = [s \in Slots |-> Nothing]
    /\ served = [s \in Slots |-> "no"]

----------------------------------------------------------------------------
\* The AP's accesses to a slot.

\* write64: an ordered one waits until the slot's earlier stores are visible.
SlotStore(s, f, v) ==
    /\ ordered => pend[s] = {}
    /\ stored' = [stored EXCEPT ![s][f] = v]
    /\ pend' = [pend EXCEPT ![s] = @ \cup {f}]
    /\ UNCHANGED <<ordered, page>>

\* read64: the AP's own newest store, else the page.
SlotLoad(s, f) == IF f \in pend[s] THEN stored[s][f] ELSE page[s][f]

\* One pending store reaches the page.
SlotDrain(s, f) ==
    /\ f \in pend[s]
    /\ page' = [page EXCEPT ![s][f] = stored[s][f]]
    /\ pend' = [pend EXCEPT ![s] = @ \ {f}]
    /\ stored' = [stored EXCEPT ![s][f] = 0]
    /\ UNCHANGED <<vars, magicVars, ordered, rq, asked, fw, served>>

----------------------------------------------------------------------------
\* The lock.  While agx_handoff_wait_firmware runs, its thread neither asks
\* for the lock nor releases it other than by the steps below.
ApFree == wf = "no" \/ pc_ap \notin {"idle", "held"}

ApCall == ApFree /\ ApLock /\ UNCHANGED reqVars
ApWorks == ApFree /\ UNCHANGED reqVars /\ \E v \in Bit : ApWork(v)
ApRuns == ApFree /\ ApProceed /\ UNCHANGED reqVars
Drains == UNCHANGED reqVars /\ \E l \in ApLoc : Drain(l)
FwCall == (LocksFirst \/ magic_fw) /\ FwLock /\ UNCHANGED reqVars
FwRuns == FwProceed /\ UNCHANGED reqVars

----------------------------------------------------------------------------
\* agx_handoff_wait_firmware.

\* Variant for the checks: the AP's magic is not written.
SayNothing == UNCHANGED magic_ap

SayMagic == magic_ap' = TRUE

\* The AP's magic, and the call of agx_handoff_lock.
WaitFirmware ==
    /\ wf = "no" /\ (AnyOrder \/ ~initialized) /\ ApLock
    /\ wf' = "lock" /\ SayMagic
    /\ UNCHANGED <<clr, magic_fw, initialized, slotVars>>

\* agx_handoff_lock has run out of spins.
WaitFirmwareNoLock ==
    /\ wf = "lock" /\ pc_ap = "idle"
    /\ wf' = "no"
    /\ UNCHANGED <<vars, clr, magic_ap, magic_fw, initialized, slotVars>>

\* The firmware's magic is there, or the limit is met: either way the lock
\* is released.
WaitFirmwareMagic ==
    /\ wf = "lock" /\ ApUnlock
    /\ magic_fw \/ MaxSpins # 0
    /\ wf' = IF magic_fw THEN "unlock" ELSE "giveup"
    /\ UNCHANGED <<clr, magic_ap, magic_fw, initialized, slotVars>>

WaitFirmwareUnlocked ==
    /\ wf \in {"unlock", "giveup"} /\ pc_ap = "idle"
    /\ wf' = IF wf = "unlock" THEN "clear" ELSE "no"
    /\ clr' = 0
    /\ UNCHANGED <<vars, magic_ap, magic_fw, initialized, slotVars>>

\* Variant for the checks: the loop stops one slot short.
ClearsShort == 3 * (FLUSH_SLOTS - 1)

\* The stores of the clearing loop: the three fields of each slot.
Clears == 3 * FLUSH_SLOTS

WaitFirmwareClear ==
    /\ wf = "clear" /\ clr < Clears
    /\ SlotStore(clr \div 3, CASE clr % 3 = 0 -> "state"
                               [] clr % 3 = 1 -> "addr"
                               [] clr % 3 = 2 -> "size", 0)
    /\ clr' = clr + 1
    /\ UNCHANGED <<vars, wf, magic_ap, magic_fw, initialized, rq, asked, fw, served>>

WaitFirmwareDone ==
    /\ wf = "clear" /\ clr = Clears
    /\ wf' = "no" /\ initialized' = TRUE
    /\ UNCHANGED <<vars, clr, magic_ap, magic_fw, slotVars>>

\* The firmware answers the AP's magic with its own, before anything else.
FwMagic ==
    /\ magic_ap /\ ~magic_fw /\ pc_fw = "idle"
    /\ magic_fw' = TRUE
    /\ UNCHANGED <<vars, wf, clr, magic_ap, initialized, slotVars>>

----------------------------------------------------------------------------
\* Requests.  Nothing in the code ties them to agx_handoff_wait_firmware.
MayCall(s) == rq[s] = "idle" /\ (AnyOrder \/ initialized)

RqGo(s, from, to) == rq[s] = from /\ rq' = [rq EXCEPT ![s] = to]

\* A slot that is not idle is refused, as is a context without a slot, and
\* nothing changes.
MayPrepare(s) == SlotLoad(s, "state") = IDLE

\* agx_handoff_prepare_cacheflush and agx_handoff_prepare_unmap.
Prepare(s, r) ==
    /\ MayCall(s) /\ MayPrepare(s)
    /\ RqGo(s, "idle", "addr")
    /\ asked' = [asked EXCEPT ![s] = r]
    /\ served' = [served EXCEPT ![s] = "no"]
    /\ UNCHANGED <<vars, magicVars, memVars, fw>>

\* What the address field says of a request.
AddrOf(r) == IF r.kind = "unmap" THEN UNMAP_TAG + (r.base % ADDR_SPAN) ELSE r.base

\* Variant for the checks: a flush is marked like an unmap.
DoneAtOnce(r) == DONE

\* The firmware has to act on a flush; an unmap is done at once.
StateFor(r) == IF r.kind = "flush" THEN BUSY ELSE DONE

FieldOf(r, f) ==
    CASE f = "addr" -> AddrOf(r)
      [] f = "size" -> r.size
      [] f = "state" -> StateFor(r)

\* Variant for the checks: the slot is marked before the size is there.
NextFieldEarly(f) ==
    CASE f = "addr" -> "state"
      [] f = "state" -> "size"
      [] f = "size" -> "idle"

\* The order of the stores, the state last.
NextField(f) ==
    CASE f = "addr" -> "size"
      [] f = "size" -> "state"
      [] f = "state" -> "idle"

PrepareStore(s) ==
    /\ rq[s] \in SlotLoc
    /\ SlotStore(s, rq[s], FieldOf(asked[s], rq[s]))
    /\ RqGo(s, rq[s], NextField(rq[s]))
    /\ UNCHANGED <<vars, magicVars, asked, fw, served>>

\* agx_handoff_wait_cacheflush: it returns 0 as soon as the slot is not
\* busy, and with a limit it may give up before.
WaitCacheflush(s) ==
    /\ MayCall(s) /\ RqGo(s, "idle", "wait")
    /\ UNCHANGED <<vars, magicVars, memVars, asked, fw, served>>

WaitCacheflushReturn(s) ==
    /\ RqGo(s, "wait", "idle")
    /\ SlotLoad(s, "state") # BUSY \/ MaxSpins # 0
    /\ UNCHANGED <<vars, magicVars, memVars, asked, fw, served>>

\* Variant for the checks: completing is not refused while the slot is busy.
MayCompleteBusy(s) == SlotLoad(s, "state") # IDLE

MayComplete(s) == SlotLoad(s, "state") = DONE

\* agx_handoff_complete_cacheflush and agx_handoff_complete_unmap, the same.
Complete(s) ==
    /\ MayCall(s) /\ MayComplete(s)
    /\ SlotStore(s, "state", IDLE)
    /\ UNCHANGED <<vars, magicVars, rq, asked, fw, served>>

\* The firmware finds a slot busy, takes the request and then reports it done.
FwTake(s) ==
    /\ page[s]["state"] = BUSY /\ fw[s] = Nothing
    /\ fw' = [fw EXCEPT ![s] = [kind |-> "flush", base |-> page[s]["addr"],
                                size |-> page[s]["size"]]]
    /\ UNCHANGED <<vars, magicVars, memVars, rq, asked, served>>

FwReport(s) ==
    /\ fw[s] # Nothing
    /\ page' = [page EXCEPT ![s]["state"] = DONE]
    /\ served' = [served EXCEPT ![s] = IF fw[s] = asked[s] THEN "whole" ELSE "torn"]
    /\ fw' = [fw EXCEPT ![s] = Nothing]
    /\ UNCHANGED <<vars, magicVars, ordered, pend, stored, rq, asked>>

----------------------------------------------------------------------------
WaitFirmwareProceed ==
    \/ WaitFirmwareNoLock \/ WaitFirmwareMagic \/ WaitFirmwareUnlocked
    \/ WaitFirmwareClear \/ WaitFirmwareDone

CallerProceed(s) == PrepareStore(s) \/ WaitCacheflushReturn(s)

FwServe(s) == FwTake(s) \/ FwReport(s)

ReqNext ==
    \/ ApCall \/ ApWorks \/ ApRuns \/ Drains \/ FwCall \/ FwRuns
    \/ WaitFirmware \/ WaitFirmwareProceed \/ FwMagic
    \/ \E s \in Slots :
          \/ \E r \in Requests : Prepare(s, r)
          \/ CallerProceed(s) \/ WaitCacheflush(s) \/ Complete(s) \/ FwServe(s)
          \/ \E f \in SlotLoc : SlotDrain(s, f)

ReqSpec == ReqInit /\ [][ReqNext]_allVars

\* As in HandoffLock, and: a caller goes on with a request, the firmware
\* answers a magic number and serves its slots.
ReqFairness ==
    /\ WF_allVars(ApRuns \/ WaitFirmwareProceed)
    /\ WF_allVars(FwRuns) /\ WF_allVars(FwMagic)
    /\ \A l \in ApLoc : WF_allVars(Drain(l) /\ UNCHANGED reqVars)
    /\ \A s \in Slots :
          /\ WF_allVars(CallerProceed(s)) /\ WF_allVars(FwServe(s))
          /\ \A f \in SlotLoc : WF_allVars(SlotDrain(s, f))

ReqFairSpec == ReqSpec /\ ReqFairness

----------------------------------------------------------------------------
\* handoff_test.cpp:110 - "every flush slot is cleared after initialization",
\* whatever the page held before: the AP finds a slot nobody has used since
\* idle and empty (the loop at line 90, which runs without the lock).
SlotsCleared ==
    initialized => \A s \in Slots :
        asked[s] = Nothing => \A f \in SlotLoc : SlotLoad(s, f) = 0

\* What the firmware works on is a flush that prepare accepted, never an
\* unmap or what an earlier call left behind; and if the write64 hook is
\* ordered it is the whole of that request, with none of its range from an
\* earlier one (lines 108-111).  With a plain hook the state may arrive
\* before the range.
TakesRequest ==
    \A s \in Slots : fw[s] # Nothing =>
        asked[s].kind = "flush" /\ (ordered => fw[s] = asked[s])

\* After a wait that timed out the caller may retry, complete or unmap at
\* will; none of it changes a slot the firmware is still working on, nor lets
\* the late answer pass for that of another request, in whatever order the
\* stores arrive.
FirmwareUndisturbed ==
    [][\A s \in Slots : fw[s] # Nothing =>
          /\ asked'[s] = asked[s]
          /\ fw'[s] = fw[s] => \A f \in SlotLoc : SlotLoad(s, f)' = SlotLoad(s, f)]_allVars

\* handoff_test.cpp:243 - "waiting for the cacheflush completes once firmware
\* finishes": agx_handoff_wait_cacheflush returns 0 for a requested flush
\* only if the firmware has served it since it was accepted and, if the
\* write64 hook is ordered, has flushed exactly that range.
WaitMeansFlushed ==
    [][\A s \in Slots :
          rq[s] = "wait" /\ rq'[s] = "idle" /\ SlotLoad(s, "state") # BUSY
             /\ asked[s].kind = "flush" =>
                served[s] # "no" /\ (ordered => served[s] = "whole")]_allVars

\* Without a limit, and with a firmware that answers the magic number before it
\* uses the lock, agx_handoff_wait_firmware succeeds, although it waits for
\* the answer with the lock held (line 79).
WaitFirmwareSucceeds == (MaxSpins = 0 /\ wf = "lock") ~> initialized
============================================================================
