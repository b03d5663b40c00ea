-------------------------------- MODULE Uat --------------------------------
(***************************************************************************)
(* The GPU page tables (src/uat.c): three levels of tables per context and *)
(* half of the address space, allocated on demand, and next to them a tree *)
(* of nodes with host pointers, through which the driver finds its tables. *)
(*                                                                         *)
(* The driver makes one call at a time; the GPU walks the tables at every  *)
(* moment, so each store it can see is a step.  A node is named by its     *)
(* table.  Every allocation may fail.  Attribute bits and the ASID, which  *)
(* is the number of the context, are left out.                             *)
(***************************************************************************)
EXTENDS Naturals, FiniteSets

CONSTANTS
    CONTEXT_COUNT, PAGE_SIZE,
    PA_LIMIT,   \* an entry has room for physical addresses below it, 2^48
    L1_COUNT, L2_COUNT, L3_COUNT,   \* the entries of a table, by level
    Frames,     \* the physical pages that alloc_table hands out
    Requests,   \* the calls: records with op, ctx, iova and phys
    None

ASSUME GeometryAssumption ==
    /\ CONTEXT_COUNT \in Nat \ {0} /\ PAGE_SIZE \in Nat \ {0}
    /\ PA_LIMIT \in Nat \ {0}
    /\ L1_COUNT \in Nat \ {0} /\ L2_COUNT \in Nat \ {0} /\ L3_COUNT \in Nat \ {0}
ASSUME FramesAssumption == IsFiniteSet(Frames) /\ None \notin Frames
ASSUME RequestsAssumption ==
    /\ Requests \subseteq [op : {"map", "unmap", "lookup", "free"},
                           ctx : Nat, iova : Nat, phys : 0..(PA_LIMIT - 1)]
    /\ None \notin Requests

VARIABLES
    l0,         \* the hardware's root: a table per context and half
    table,      \* the contents of the tables
    l1,         \* uat->l1, the roots of the driver's tree
    children,   \* node->children
    tables,     \* the tables allocated
    books,      \* the number of bookkeeping allocations alive
    pc, level, node, new, half,   \* where the call under way is
    req, ret

walkVars == <<level, node, half>>
treeVars == <<l0, table, l1, children>>
vars == <<treeVars, tables, books, pc, walkVars, new, req, ret>>

Contexts == 0..(CONTEXT_COUNT - 1)
Indices == 0..(L1_COUNT - 1) \cup 0..(L2_COUNT - 1) \cup 0..(L3_COUNT - 1)
Blank == [i \in Indices |-> None]

----------------------------------------------------------------------------
\* The parts of an address (include/agx/uat.h), from the page upwards.

L2_SPAN == PAGE_SIZE * L3_COUNT
L1_SPAN == L2_SPAN * L2_COUNT
HALF_SPAN == L1_SPAN * L1_COUNT
VA_LIMIT == 2 * HALF_SPAN

\* Variant for the checks: the index is taken one bit too high.
L2IndexShifted(va) == (va \div (2 * L2_SPAN)) % L2_COUNT

L3Index(va) == (va \div PAGE_SIZE) % L3_COUNT
L2Index(va) == (va \div L2_SPAN) % L2_COUNT
L1Index(va) == (va \div L1_SPAN) % L1_COUNT
TtbrSelect(va) == (va \div HALF_SPAN) % 2
PageOffset(va) == va % PAGE_SIZE

\* The address field of an entry.
Pte(phys) == (phys - PageOffset(phys)) % PA_LIMIT

Init ==
    /\ l0 = [c \in Contexts |-> [s \in {0, 1} |-> None]]
    /\ l1 = [c \in Contexts |-> [s \in {0, 1} |-> None]]
    /\ table = [f \in Frames |-> Blank]
    /\ children = [f \in Frames |-> Blank]
    /\ tables = {} /\ books = 0
    /\ pc = "idle" /\ level = 1 /\ node = None /\ new = None /\ half = 0
    /\ req = None
    /\ ret = [code |-> "none", phys |-> 0]

Call(r) ==
    /\ pc = "idle"
    /\ pc' = "start" /\ req' = r
    /\ ret' = [code |-> "none", phys |-> 0]
    /\ UNCHANGED <<treeVars, tables, books, walkVars, new>>

\* The locals of a call are gone when it returns.
Return(code, phys) ==
    /\ pc' = "idle" /\ req' = None
    /\ level' = 1 /\ node' = None /\ half' = 0
    /\ ret' = [code |-> code, phys |-> phys]

Starting(op) == pc = "start" /\ req.op = op
InRange == req.ctx < CONTEXT_COUNT /\ req.iova < VA_LIMIT

----------------------------------------------------------------------------
\* agx_uat_map_page.

MapInvalid ==
    /\ Starting("map")
    /\ ~InRange \/ PageOffset(req.iova) # 0 \/ PageOffset(req.phys) # 0
    /\ Return("EINVAL", 0)
    /\ UNCHANGED <<treeVars, tables, books, new>>

MapStart ==
    /\ Starting("map") /\ InRange
    /\ PageOffset(req.iova) = 0 /\ PageOffset(req.phys) = 0
    /\ pc' = "walk"
    /\ UNCHANGED <<treeVars, tables, books, walkVars, new, req, ret>>

\* The next node of the walk: a root, or a child of the node reached.
Index == IF level = 2 THEN L1Index(req.iova) ELSE L2Index(req.iova)
Slot == IF level = 1 THEN l1[req.ctx][TtbrSelect(req.iova)]
        ELSE children[node][Index]

WalkDown ==
    /\ pc = "walk" /\ Slot # None
    /\ node' = Slot
    /\ IF level = 3 THEN pc' = "leaf" /\ UNCHANGED level
                    ELSE level' = level + 1 /\ UNCHANGED pc
    /\ UNCHANGED <<treeVars, tables, books, half, new, req, ret>>

\* agx_uat_new_node: the node, its table and its array of children.  What was
\* allocated before the one that fails is given back.
NewNode ==
    /\ pc = "walk" /\ Slot = None
    /\ \/ /\ pc' = "new_table" /\ books' = books + 1
          /\ UNCHANGED <<walkVars, req, ret>>
       \/ Return("ENOMEM", 0) /\ UNCHANGED books
    /\ UNCHANGED <<treeVars, tables, new>>

\* Variant for the checks: the node is given back twice.
GiveBackTwice == books' = books - 2

GiveBackNode == books' = books - 1

NewTable(f) ==
    /\ pc = "new_table"
    /\ \/ /\ f \notin tables
          /\ tables' = tables \cup {f} /\ new' = f
          /\ table' = [table EXCEPT ![f] = Blank]
          /\ pc' = "new_children"
          /\ UNCHANGED <<books, walkVars, req, ret>>
       \/ /\ Return("ENOMEM", 0) /\ GiveBackNode
          /\ UNCHANGED <<table, tables, new>>
    /\ UNCHANGED <<l0, l1, children>>

\* Variant for the checks: the table is not given back (line 45).
KeepTable == UNCHANGED tables

GiveBackTable == tables' = tables \ {new}

NewChildren ==
    /\ pc = "new_children"
    /\ \/ /\ books' = books + 1
          /\ children' = [children EXCEPT ![new] = Blank]
          /\ pc' = "link"
          /\ UNCHANGED <<tables, walkVars, new, req, ret>>
       \/ /\ Return("ENOMEM", 0) /\ GiveBackTable /\ GiveBackNode
          /\ new' = None
          /\ UNCHANGED children
    /\ UNCHANGED <<l0, l1, table>>

\* agx_uat_l1 and agx_uat_child: the new node enters the tree, and its table
\* the hardware's.
Link ==
    /\ pc = "link"
    /\ IF level = 1
       THEN /\ l1' = [l1 EXCEPT ![req.ctx][TtbrSelect(req.iova)] = new]
            /\ l0' = [l0 EXCEPT ![req.ctx][TtbrSelect(req.iova)] = new]
            /\ UNCHANGED <<table, children>>
       ELSE /\ children' = [children EXCEPT ![node][Index] = new]
            /\ table' = [table EXCEPT ![node][Index] = new]
            /\ UNCHANGED <<l0, l1>>
    /\ pc' = "walk" /\ new' = None
    /\ UNCHANGED <<tables, books, walkVars, req, ret>>

MapLeaf ==
    /\ pc = "leaf"
    /\ table' = [table EXCEPT ![node][L3Index(req.iova)] = Pte(req.phys)]
    /\ Return("ok", 0)
    /\ UNCHANGED <<l0, l1, children, tables, books, new>>

----------------------------------------------------------------------------
\* agx_uat_lookup and agx_uat_unmap_page: they read the tree, which only the
\* driver changes, so they are one step.

Child(n, i) == IF n = None THEN None ELSE children[n][i]

\* The L3 node of an address, or None.
Found ==
    Child(Child(l1[req.ctx][TtbrSelect(req.iova)], L1Index(req.iova)),
          L2Index(req.iova))

Leaf == IF Found = None THEN None ELSE table[Found][L3Index(req.iova)]

Lookup ==
    /\ Starting("lookup")
    /\ IF InRange /\ Leaf # None THEN Return("ok", Leaf) ELSE Return("invalid", 0)
    /\ UNCHANGED <<treeVars, tables, books, new>>

UnmapFails ==
    /\ Starting("unmap")
    /\ ~InRange \/ Leaf = None
    /\ Return(IF InRange THEN "ENODATA" ELSE "EINVAL", 0)
    /\ UNCHANGED <<treeVars, tables, books, new>>

Unmap ==
    /\ Starting("unmap") /\ InRange /\ Leaf # None
    /\ table' = [table EXCEPT ![Found][L3Index(req.iova)] = None]
    /\ Return("ok", 0)
    /\ UNCHANGED <<l0, l1, children, tables, books, new>>

----------------------------------------------------------------------------
\* agx_uat_free_context: for each half the tree is freed, then the roots are
\* cleared.

FreeStart ==
    /\ Starting("free")
    /\ IF req.ctx < CONTEXT_COUNT
       THEN pc' = "free" /\ UNCHANGED <<walkVars, req, ret>>
       ELSE Return("ok", 0)
    /\ UNCHANGED <<treeVars, tables, books, new>>

\* agx_uat_free_node: a node with everything below it.  The nodes of the last
\* level have an array of children that is never filled.  What is freed is
\* left blank here: nothing may depend on its contents any more.
Kids(nodes) == {children[n][i] : n \in nodes, i \in Indices} \ {None}
Subtree(root) ==
    IF root = None THEN {} ELSE {root} \cup Kids({root}) \cup Kids(Kids({root}))

FreeNodes ==
    /\ pc = "free"
    /\ LET gone == Subtree(l1[req.ctx][half])
       IN  /\ tables' = tables \ gone
           /\ books' = books - 2 * Cardinality(gone)
           /\ table' = [f \in Frames |-> IF f \in gone THEN Blank ELSE table[f]]
           /\ children' = [f \in Frames |-> IF f \in gone THEN Blank ELSE children[f]]
    /\ pc' = "clear"
    /\ UNCHANGED <<l0, l1, walkVars, new, req, ret>>

\* Variant for the checks: the hardware keeps its root (line 211).
KeepL0 == UNCHANGED l0

ClearL0 == l0' = [l0 EXCEPT ![req.ctx][half] = None]

FreeClear ==
    /\ pc = "clear"
    /\ l1' = [l1 EXCEPT ![req.ctx][half] = None] /\ ClearL0
    /\ IF half = 0
       THEN half' = 1 /\ pc' = "free" /\ UNCHANGED <<level, node, req, ret>>
       ELSE Return("ok", 0)
    /\ UNCHANGED <<table, children, tables, books, new>>

----------------------------------------------------------------------------
Next ==
    \/ \E r \in Requests : Call(r)
    \/ MapInvalid \/ MapStart \/ WalkDown
    \/ NewNode \/ (\E f \in Frames : NewTable(f)) \/ NewChildren
    \/ Link \/ MapLeaf
    \/ Lookup \/ UnmapFails \/ Unmap
    \/ FreeStart \/ FreeNodes \/ FreeClear

Spec == Init /\ [][Next]_vars

----------------------------------------------------------------------------
\* Every variable has its type; more is never freed than was allocated.
TypeOK ==
    /\ l0 \in [Contexts -> [{0, 1} -> Frames \cup {None}]]
    /\ l1 \in [Contexts -> [{0, 1} -> Frames \cup {None}]]
    /\ table \in [Frames -> [Indices -> Frames \cup Nat \cup {None}]]
    /\ children \in [Frames -> [Indices -> Frames \cup {None}]]
    /\ tables \subseteq Frames /\ books \in Nat
    /\ pc \in {"idle", "start", "walk", "new_table", "new_children", "link",
               "leaf", "free", "clear"}
    /\ level \in 1..3 /\ half \in {0, 1}
    /\ node \in Frames \cup {None} /\ new \in Frames \cup {None}
    /\ req \in Requests \cup {None}

Freeing(c) == pc \in {"free", "clear"} /\ req.ctx = c

\* The tables the hardware reaches from the root of a context.
Entries(fs) == {table[f][i] : f \in fs, i \in Indices} \ {None}
Roots(c) == {l0[c][0], l0[c][1]} \ {None}
Reached(c) ==
    Roots(c) \cup Entries(Roots(c)) \cup Entries(Entries(Roots(c)))

\* Whenever the GPU walks the tables of a context that is not being freed, it
\* meets only tables that are allocated, and none of another context: a table
\* is linked when it is ready, and what was freed is unlinked.
WalkLive ==
    \A c \in Contexts : ~Freeing(c) =>
        /\ Reached(c) \subseteq tables
        /\ \A d \in Contexts \ {c} : Reached(c) \cap Reached(d) = {}

\* uat_test.cpp:374 - between calls every table and every bookkeeping
\* allocation is in the tree, where agx_uat_free_context finds it, whichever
\* allocations failed before.
NothingLost ==
    pc = "idle" =>
        /\ tables = UNION {Subtree(l1[c][s]) : c \in Contexts, s \in {0, 1}}
        /\ books = 2 * Cardinality(tables)

\* The page the GPU finds for an address; a freed table has no contents.
Step(f, i) == IF f \in tables THEN table[f][i] ELSE None
Translate(c, va) ==
    Step(Step(Step(l0[c][TtbrSelect(va)], L1Index(va)), L2Index(va)), L3Index(va))

Pages == 0..(VA_LIMIT \div PAGE_SIZE - 1)

\* The pages of every context as the GPU sees them.
GpuMap == [c \in Contexts |-> [p \in Pages |-> Translate(c, p * PAGE_SIZE)]]

Abs == INSTANCE UatMap WITH map <- GpuMap

\* uat_test.cpp:356 - the tables implement the reference map: at every moment
\* the GPU's view of every page of every context is that of the map, no call
\* touches another page, a failed call touches none, and what a call returns
\* is true of the map.
ImplementsMap == Abs!Spec
=============================================================================
