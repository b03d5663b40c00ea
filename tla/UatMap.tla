------------------------------- MODULE UatMap -------------------------------
(***************************************************************************)
(* What the page table code of src/uat.c promises: per context a partial   *)
(* map from pages to physical pages, as the GPU sees it, changed by the    *)
(* calls of a driver that makes one call at a time.                        *)
(*                                                                         *)
(* A call takes effect at one moment between its call and its return,      *)
(* freeing a context at two: one for each half of the address space.  What *)
(* it returns says what it did.                                            *)
(***************************************************************************)
EXTENDS Naturals

CONSTANTS
    CONTEXT_COUNT, PAGE_SIZE, VA_LIMIT,
    Requests,   \* the calls: records with op, ctx, iova and phys
    None

VARIABLES
    map,   \* map[c][p] is where page p of context c goes
    req,   \* the call under way, or None
    ret    \* what the last call returned

mapVars == <<map, req, ret>>

Contexts == 0..(CONTEXT_COUNT - 1)
Pages == 0..(VA_LIMIT \div PAGE_SIZE - 1)
Page(va) == va \div PAGE_SIZE

\* The pages whose address has bit 42 clear, and the others.
Half(s) == {p \in Pages : 2 * PAGE_SIZE * p < VA_LIMIT <=> s = 0}

InRange(r) == r.ctx < CONTEXT_COUNT /\ r.iova < VA_LIMIT
Aligned(r) == r.iova % PAGE_SIZE = 0 /\ r.phys % PAGE_SIZE = 0

Init ==
    /\ map = [c \in Contexts |-> [p \in Pages |-> None]]
    /\ req = None
    /\ ret = [code |-> "none", phys |-> 0]

Call(r) ==
    /\ req = None
    /\ req' = r
    /\ ret' = [code |-> "none", phys |-> 0]
    /\ UNCHANGED map

Pending(op) == req # None /\ req.op = op
Return(code, phys) == req' = None /\ ret' = [code |-> code, phys |-> phys]

\* Where the page of the call goes now, and a call that changes it.
Target == map[req.ctx][Page(req.iova)]
Set(phys) == map' = [map EXCEPT ![req.ctx][Page(req.iova)] = phys]

\* A page is mapped, also over an older mapping.
Map ==
    /\ Pending("map") /\ InRange(req) /\ Aligned(req)
    /\ Set(req.phys) /\ Return("ok", 0)

\* A call that fails changes nothing; memory may run out at any time.
MapFails ==
    /\ Pending("map")
    /\ Return(IF InRange(req) /\ Aligned(req) THEN "ENOMEM" ELSE "EINVAL", 0)
    /\ UNCHANGED map

Unmap ==
    /\ Pending("unmap") /\ InRange(req) /\ Target # None
    /\ Set(None) /\ Return("ok", 0)

UnmapFails ==
    /\ Pending("unmap")
    /\ ~InRange(req) \/ Target = None
    /\ Return(IF InRange(req) THEN "ENODATA" ELSE "EINVAL", 0)
    /\ UNCHANGED map

Lookup ==
    /\ Pending("lookup")
    /\ IF InRange(req) /\ Target # None
       THEN Return("ok", Target) ELSE Return("invalid", 0)
    /\ UNCHANGED map

\* Freeing a context looks at its number only.
FreeHalf(s) ==
    /\ Pending("free") /\ req.ctx < CONTEXT_COUNT
    /\ map' = [map EXCEPT ![req.ctx] =
                  [p \in Pages |-> IF p \in Half(s) THEN None ELSE @[p]]]
    /\ UNCHANGED <<req, ret>>

FreeDone ==
    /\ Pending("free")
    /\ req.ctx < CONTEXT_COUNT => \A p \in Pages : map[req.ctx][p] = None
    /\ Return("ok", 0)
    /\ UNCHANGED map

Next ==
    \/ \E r \in Requests : Call(r)
    \/ Map \/ MapFails \/ Unmap \/ UnmapFails \/ Lookup
    \/ \E s \in {0, 1} : FreeHalf(s)
    \/ FreeDone

Spec == Init /\ [][Next]_mapVars
=============================================================================
