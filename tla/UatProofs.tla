----------------------------- MODULE UatProofs ------------------------------
(***************************************************************************)
(* Proofs about Uat: the tables form a tree at every moment, nothing is    *)
(* lost, the GPU walks only live tables of its own context, and the tables *)
(* implement the reference map, for every geometry and every set of calls. *)
(***************************************************************************)
EXTENDS Uat, FiniteSetTheorems, TLAPS

----------------------------------------------------------------------------
\* The inductive invariant.  The frames carry a level (0 outside the tree) and
\* the context they belong to; the levels and owners are not state of the
\* driver, so the invariant says that some assignment of them fits.

Halves == {0, 1}
Slots == Frames \cup {None}

\* Roots are of level 1, children one level further down, in the same context.
Levelled(lvl, own) ==
    /\ \A c \in Contexts, s \in Halves : l1[c][s] # None =>
          lvl[l1[c][s]] = 1 /\ own[l1[c][s]] = c
    /\ \A n \in Frames, i \in Indices : children[n][i] # None =>
          /\ lvl[n] \in {1, 2}
          /\ lvl[children[n][i]] = lvl[n] + 1
          /\ own[children[n][i]] = own[n]

\* Every frame of the tree hangs in a slot.
Rooted(lvl) ==
    /\ \A f \in Frames : lvl[f] = 1 =>
          \E c \in Contexts, s \in Halves : l1[c][s] = f
    /\ \A f \in Frames : lvl[f] \in {2, 3} =>
          \E n \in Frames, i \in Indices : children[n][i] = f

\* The hardware's tables above the last level are the driver's tree.
Mirrored(lvl) == \A f \in Frames : lvl[f] \in {1, 2} => table[f] = children[f]

\* No frame hangs in two slots.
Injective ==
    /\ \A c, d \in Contexts, s, t \in Halves :
          l1[c][s] = l1[d][t] /\ l1[c][s] # None => c = d /\ s = t
    /\ \A n, m \in Frames, i, j \in Indices :
          children[n][i] = children[m][j] /\ children[n][i] # None =>
             n = m /\ i = j

\* The root of the half that is freed but not unlinked yet, and the table
\* that is allocated but not linked yet.
Gone == IF pc = "clear" THEN {l1[req.ctx][half]} ELSE {}
Fresh == {new} \ {None}

Allocated(lvl) == tables = ({f \in Frames : lvl[f] # 0} \ Gone) \cup Fresh

Tree ==
    \E lvl \in [Frames -> 0..3], own \in [Frames -> Contexts] :
        /\ Levelled(lvl, own) /\ Rooted(lvl) /\ Mirrored(lvl) /\ Allocated(lvl)
        /\ \A f \in Fresh : lvl[f] = 0

\* The bookkeeping of a node: itself and its array of children.
Counted ==
    books = CASE pc = "new_table" -> 2 * Cardinality(tables) + 1
              [] pc = "new_children" -> 2 * Cardinality(tables) - 1
              [] OTHER -> 2 * Cardinality(tables)

Building == pc \in {"new_table", "new_children", "link"}

\* The walk of a map call has followed the tree down to its node.
Root == l1[req.ctx][TtbrSelect(req.iova)]
Walked ==
    pc = "walk" \/ Building =>
        /\ level = 2 => node = Root /\ node # None
        /\ level = 3 => /\ Root # None /\ node # None
                        /\ node = children[Root][L1Index(req.iova)]

CallUnderWay ==
    /\ pc = "idle" <=> req = None
    /\ pc \in {"idle", "start", "free", "clear"} => level = 1 /\ node = None
    /\ pc \notin {"free", "clear"} => half = 0
    /\ new # None <=> pc \in {"new_children", "link"}
    /\ pc \in {"walk", "leaf"} \/ Building =>
          /\ req.op = "map" /\ InRange
          /\ PageOffset(req.iova) = 0 /\ PageOffset(req.phys) = 0
    /\ Building => Slot = None
    /\ new # None => table[new] = Blank
    /\ pc = "link" => children[new] = Blank
    /\ pc = "leaf" => node = Found /\ node # None
    /\ pc \in {"free", "clear"} =>
          /\ req.op = "free" /\ req.ctx \in Contexts
          /\ half = 1 => l1[req.ctx][0] = None
    /\ pc = "clear" /\ l1[req.ctx][half] # None =>
          children[l1[req.ctx][half]] = Blank

Inv ==
    /\ TypeOK /\ l0 = l1 /\ Tree /\ Injective
    /\ Counted /\ Walked /\ CallUnderWay

----------------------------------------------------------------------------
\* Division, and the parts of an address.

\* Quotient and remainder of natural numbers.
LEMMA DivMod ==
    ASSUME NEW x \in Nat, NEW d \in Nat \ {0}
    PROVE  /\ x \div d \in Nat /\ x % d \in Nat /\ x % d < d
           /\ x = d * (x \div d) + (x % d)
OBVIOUS

\* The spans of the levels are positive.
LEMMA Spans ==
    /\ L2_SPAN \in Nat \ {0} /\ L1_SPAN \in Nat \ {0} /\ HALF_SPAN \in Nat \ {0}
    /\ VA_LIMIT \in Nat \ {0}
<1>1. L2_SPAN \in Nat \ {0}
  BY GeometryAssumption DEF L2_SPAN
<1>2. L1_SPAN \in Nat \ {0}
  BY <1>1, GeometryAssumption DEF L1_SPAN
<1>3. HALF_SPAN \in Nat \ {0}
  BY <1>2, GeometryAssumption DEF HALF_SPAN
<1> QED  BY <1>1, <1>2, <1>3 DEF VA_LIMIT

\* Every index of an address is an index of its table.
LEMMA IndexTypes ==
    ASSUME NEW va \in Nat
    PROVE  /\ L1Index(va) \in Indices /\ L2Index(va) \in Indices
           /\ L3Index(va) \in Indices /\ TtbrSelect(va) \in {0, 1}
<1>1. L1Index(va) \in 0..(L1_COUNT - 1)
  BY Spans, GeometryAssumption, DivMod DEF L1Index
<1>2. L2Index(va) \in 0..(L2_COUNT - 1)
  BY Spans, GeometryAssumption, DivMod DEF L2Index
<1>3. L3Index(va) \in 0..(L3_COUNT - 1)
  BY Spans, GeometryAssumption, DivMod DEF L3Index
<1>4. TtbrSelect(va) \in {0, 1}
  BY Spans, DivMod DEF TtbrSelect
<1> QED  BY <1>1, <1>2, <1>3, <1>4 DEF Indices

\* What a call may carry.
LEMMA RequestTypes ==
    ASSUME NEW r \in Requests
    PROVE  /\ r # None
           /\ r.op \in {"map", "unmap", "lookup", "free"}
           /\ r.ctx \in Nat /\ r.iova \in Nat /\ r.phys \in Nat
           /\ r.phys < PA_LIMIT
           /\ r.ctx < CONTEXT_COUNT => r.ctx \in Contexts
BY RequestsAssumption, GeometryAssumption DEF Contexts

\* The address field of an entry is a number, and that of an aligned address
\* is the address.
LEMMA PteValue ==
    ASSUME NEW p \in Nat, p < PA_LIMIT
    PROVE  Pte(p) \in Nat /\ (PageOffset(p) = 0 => Pte(p) = p)
<1>1. PageOffset(p) \in Nat /\ p - PageOffset(p) \in Nat
  <2>1. p \div PAGE_SIZE \in Nat /\ p % PAGE_SIZE \in Nat
        /\ p = PAGE_SIZE * (p \div PAGE_SIZE) + (p % PAGE_SIZE)
    BY DivMod, GeometryAssumption
  <2>2. PAGE_SIZE * (p \div PAGE_SIZE) \in Nat
    BY <2>1, GeometryAssumption
  <2> QED  BY <2>1, <2>2 DEF PageOffset
<1>2. Pte(p) \in Nat
  BY <1>1, DivMod, GeometryAssumption DEF Pte
<1>3. ASSUME PageOffset(p) = 0 PROVE Pte(p) = p
  BY <1>3, GeometryAssumption DEF Pte
<1> QED  BY <1>2, <1>3

\* Storing into one slot of a table of tables.
LEMMA StoreType ==
    ASSUME NEW S, NEW T, NEW V, NEW g \in [S -> [T -> V]],
           NEW a \in S, NEW b \in T, NEW v \in V
    PROVE  [g EXCEPT ![a][b] = v] \in [S -> [T -> V]]
<1>1. [g[a] EXCEPT ![b] = v] \in [T -> V]
  OBVIOUS
<1>2. [g EXCEPT ![a] = [g[a] EXCEPT ![b] = v]] \in [S -> [T -> V]]
  BY <1>1
<1> QED  BY <1>2

----------------------------------------------------------------------------
\* The invariant holds at the start.

\* Nothing is allocated and no call is under way.
LEMMA InitHolds == Init => Inv
<1> SUFFICES ASSUME Init PROVE Inv
  OBVIOUS
<1>0. 0 \in Contexts
  BY GeometryAssumption DEF Contexts
<1>1. TypeOK
  BY GeometryAssumption DEF Init, TypeOK, Blank
<1>2. Tree
  <2> DEFINE lvl == [f \in Frames |-> 0]  own == [f \in Frames |-> 0]
  <2>1. lvl \in [Frames -> 0..3] /\ own \in [Frames -> Contexts]
    BY <1>0
  <2>2. Levelled(lvl, own) /\ Rooted(lvl) /\ Mirrored(lvl)
    BY DEF Init, Levelled, Rooted, Mirrored, Halves, Blank
  <2>3. Allocated(lvl) /\ Fresh = {}
    BY DEF Init, Allocated, Gone, Fresh
  <2> QED  BY <2>1, <2>2, <2>3 DEF Tree
<1>3. Injective
  BY DEF Init, Injective, Halves, Blank
<1>4. Counted
  BY FS_EmptySet DEF Init, Counted
<1>5. Walked /\ CallUnderWay
  BY DEF Init, Walked, CallUnderWay, Building
<1> QED  BY <1>1, <1>2, <1>3, <1>4, <1>5 DEF Init, Inv

----------------------------------------------------------------------------
\* Every step keeps the invariant.

\* A step that leaves the tables alone leaves the tree alone.
LEMMA TreeFrame ==
    ASSUME Tree, Injective, l0 = l1, Gone' = Gone, UNCHANGED <<treeVars, tables, new>>
    PROVE  Tree' /\ Injective' /\ (l0 = l1)'
<1>1. PICK lvl \in [Frames -> 0..3], own \in [Frames -> Contexts] :
        /\ Levelled(lvl, own) /\ Rooted(lvl) /\ Mirrored(lvl) /\ Allocated(lvl)
        /\ \A f \in Fresh : lvl[f] = 0
  BY DEF Tree
<1>2. Levelled(lvl, own)' /\ Rooted(lvl)' /\ Mirrored(lvl)' /\ Allocated(lvl)'
  BY <1>1 DEF Levelled, Rooted, Mirrored, Allocated, Fresh, treeVars
<1>3. \A f \in Fresh' : lvl[f] = 0
  BY <1>1 DEF Fresh
<1> QED  BY <1>2, <1>3 DEF Tree, Injective, treeVars

\* A call that has returned has left no trace but in the tables.
LEMMA ReturnFrame ==
    ASSUME NEW code, NEW phys, Return(code, phys), new' = None
    PROVE  Walked' /\ CallUnderWay' /\ Gone' = {}
BY DEF Return, Walked, CallUnderWay, Building, Gone

\* The driver calls.
LEMMA CallKeeps ==
    ASSUME Inv, NEW r \in Requests, Call(r)
    PROVE  Inv'
<1>1. Tree' /\ Injective' /\ (l0 = l1)'
  BY TreeFrame DEF Inv, Call, Gone
<1>2. TypeOK'
  BY DEF Inv, TypeOK, Call, treeVars, walkVars
<1>3. Counted'
  BY DEF Inv, Counted, Call
<1>4. Walked' /\ CallUnderWay'
  BY RequestTypes DEF Inv, Walked, CallUnderWay, Building, Call, walkVars, treeVars
<1> QED  BY <1>1, <1>2, <1>3, <1>4 DEF Inv

\* The calls that change nothing but what they return.
LEMMA ReturnKeeps ==
    ASSUME Inv, NEW code, NEW phys, Return(code, phys),
           pc \in {"start", "walk"}, UNCHANGED <<treeVars, tables, books, new>>
    PROVE  Inv'
<1>0. new' = None
  BY DEF Inv, CallUnderWay
<1>1. Tree' /\ Injective' /\ (l0 = l1)'
  BY <1>0, TreeFrame, ReturnFrame DEF Inv, Gone
<1>2. TypeOK'
  BY DEF Inv, TypeOK, Return, treeVars
<1>3. Counted'
  BY DEF Inv, Counted, Return
<1>4. Walked' /\ CallUnderWay'
  BY <1>0, ReturnFrame
<1> QED  BY <1>1, <1>2, <1>3, <1>4 DEF Inv

\* The walk starts at the root's slot.
LEMMA MapStartKeeps ==
    ASSUME Inv, MapStart
    PROVE  Inv'
<1>1. Tree' /\ Injective' /\ (l0 = l1)'
  BY TreeFrame DEF Inv, MapStart, Starting, Gone
<1>2. TypeOK'
  BY DEF Inv, TypeOK, MapStart, treeVars, walkVars
<1>3. Counted'
  BY DEF Inv, Counted, MapStart, Starting
<1>4. Walked' /\ CallUnderWay'
  BY DEF Inv, Walked, CallUnderWay, Building, MapStart, Starting, walkVars, InRange
<1> QED  BY <1>1, <1>2, <1>3, <1>4 DEF Inv

\* Where a map call is.
LEMMA MapTypes ==
    ASSUME Inv, pc \in {"walk", "leaf"} \/ Building
    PROVE  /\ req \in Requests /\ req.ctx \in Contexts /\ req.iova \in Nat
           /\ req.phys \in Nat /\ req.phys < PA_LIMIT
           /\ TtbrSelect(req.iova) \in Halves
           /\ L1Index(req.iova) \in Indices /\ L2Index(req.iova) \in Indices
           /\ L3Index(req.iova) \in Indices /\ Index \in Indices
           /\ Root \in Slots
<1>1. req \in Requests
  BY DEF Inv, TypeOK, CallUnderWay, Building
<1>2. req.ctx \in Contexts
  BY <1>1, RequestTypes DEF Inv, CallUnderWay, InRange
<1> QED  BY <1>1, <1>2, RequestTypes, IndexTypes DEF Inv, TypeOK, Halves, Slots, Root, Index

\* The node of the walk is one of the tree, at the level above the next.
LEMMA NodeLevel ==
    ASSUME Inv, pc = "walk" \/ Building, level # 1
    PROVE  node \in Frames /\ level \in {2, 3}
BY DEF Inv, Walked, TypeOK

\* The walk follows a slot that is filled.
LEMMA WalkDownKeeps ==
    ASSUME Inv, WalkDown
    PROVE  Inv'
<1>0. pc = "walk" /\ pc' \in {"walk", "leaf"}
  BY DEF WalkDown, Inv, TypeOK
<1>1. Tree' /\ Injective' /\ (l0 = l1)'
  BY <1>0, TreeFrame DEF Inv, WalkDown, Gone
<1>a. Slot \in Frames
  <2>1. CASE level = 1
    BY <2>1, <1>0, MapTypes DEF WalkDown, Slot, Root, Slots
  <2>2. CASE level # 1
    BY <2>2, <1>0, MapTypes, NodeLevel DEF WalkDown, Slot, Inv, TypeOK
  <2> QED  BY <2>1, <2>2
<1>2. TypeOK'
  BY <1>a, <1>0 DEF Inv, TypeOK, WalkDown, treeVars
<1>3. Counted'
  BY <1>0 DEF Inv, Counted, WalkDown
<1>4. Walked'
  BY <1>0, <1>a, FramesAssumption
     DEF Inv, TypeOK, Walked, Building, WalkDown, Slot, Index, Root, treeVars
<1>5. CallUnderWay'
  <2>1. pc' = "leaf" => node' = Found' /\ node' # None
    BY <1>0, <1>a, FramesAssumption
       DEF Inv, Walked, WalkDown, Slot, Index, Root, Found, Child, treeVars
  <2> QED  BY <2>1, <1>0 DEF Inv, CallUnderWay, Building, WalkDown, InRange
<1> QED  BY <1>1, <1>2, <1>3, <1>4, <1>5 DEF Inv

\* The slot is empty: a node is allocated, or the call fails.
LEMMA NewNodeKeeps ==
    ASSUME Inv, NewNode
    PROVE  Inv'
<1>1. CASE Return("ENOMEM", 0) /\ UNCHANGED books
  BY <1>1, ReturnKeeps DEF NewNode
<1>2. CASE pc' = "new_table" /\ books' = books + 1 /\ UNCHANGED <<walkVars, req, ret>>
  <2>1. Tree' /\ Injective' /\ (l0 = l1)'
    BY <1>2, TreeFrame DEF Inv, NewNode, Gone
  <2>2. TypeOK'
    BY <1>2 DEF Inv, TypeOK, NewNode, treeVars, walkVars
  <2>3. Counted'
    BY <1>2 DEF Inv, Counted, NewNode
  <2>4. Walked'
    BY <1>2 DEF Inv, Walked, NewNode, Building, Root, treeVars, walkVars
  <2>5. CallUnderWay'
    BY <1>2 DEF Inv, CallUnderWay, NewNode, Building, Slot, Index, InRange, treeVars, walkVars
  <2> QED  BY <2>1, <2>2, <2>3, <2>4, <2>5 DEF Inv
<1> QED  BY <1>1, <1>2 DEF NewNode

\* What alloc_table hands out is outside the tree.
LEMMA NewTableKeeps ==
    ASSUME Inv, NEW f \in Frames, NewTable(f)
    PROVE  Inv'
<1>0. pc = "new_table" /\ new = None /\ f # None /\ Gone = {} /\ Fresh = {}
  BY FramesAssumption DEF NewTable, Inv, CallUnderWay, Gone, Fresh
<1>f. IsFiniteSet(tables) /\ Cardinality(tables) \in Nat
  BY FS_Subset, FS_CardinalityType, FramesAssumption DEF Inv, TypeOK
<1>c. books = 2 * Cardinality(tables) + 1
  BY <1>0 DEF Inv, Counted
<1>1. CASE /\ Return("ENOMEM", 0) /\ GiveBackNode
           /\ UNCHANGED <<table, tables, new>>
  <2>1. Tree' /\ Injective' /\ (l0 = l1)' /\ Walked' /\ CallUnderWay'
    BY <1>0, <1>1, TreeFrame, ReturnFrame DEF Inv, NewTable, treeVars
  <2>2. books' = 2 * Cardinality(tables)
    BY <1>1, <1>c, <1>f DEF GiveBackNode
  <2>3. TypeOK'
    BY <1>1, <1>f, <2>2 DEF Inv, TypeOK, NewTable, Return
  <2>4. Counted'
    BY <1>1, <2>2 DEF Counted, Return
  <2> QED  BY <2>1, <2>3, <2>4 DEF Inv
<1>2. CASE /\ f \notin tables
           /\ tables' = tables \cup {f} /\ new' = f
           /\ table' = [table EXCEPT ![f] = Blank]
           /\ pc' = "new_children"
           /\ UNCHANGED <<books, walkVars, req, ret>>
  <2>1. PICK lvl \in [Frames -> 0..3], own \in [Frames -> Contexts] :
          /\ Levelled(lvl, own) /\ Rooted(lvl) /\ Mirrored(lvl) /\ Allocated(lvl)
    BY DEF Inv, Tree
  <2>2. lvl[f] = 0
    BY <1>0, <1>2, <2>1 DEF Allocated
  <2>3. Levelled(lvl, own)' /\ Rooted(lvl)'
    BY <2>1 DEF NewTable, Levelled, Rooted
  <2>4. Mirrored(lvl)'
    BY <1>2, <2>1, <2>2 DEF NewTable, Mirrored, Inv, TypeOK
  <2>5. Allocated(lvl)' /\ \A g \in Fresh' : lvl[g] = 0
    BY <1>0, <1>2, <2>1, <2>2 DEF Allocated, Gone, Fresh
  <2>6. Tree'
    BY <2>3, <2>4, <2>5 DEF Tree
  <2>7. Injective' /\ (l0 = l1)'
    BY DEF Inv, NewTable, Injective
  <2>a. Cardinality(tables') = Cardinality(tables) + 1
    BY <1>2, <1>f, FS_AddElement
  <2>8. Counted'
    BY <1>2, <1>c, <1>f, <2>a DEF Counted
  <2>9. Walked'
    BY <1>0, <1>2 DEF Inv, NewTable, Walked, Building, Root, walkVars
  <2>10. CallUnderWay'
    BY <1>0, <1>2 DEF Inv, NewTable, TypeOK, CallUnderWay, Building, Slot, Index,
                      InRange, walkVars
  <2>11. TypeOK'
    BY <1>2 DEF Inv, NewTable, TypeOK, walkVars, Blank
  <2> QED  BY <2>6, <2>7, <2>8, <2>9, <2>10, <2>11 DEF Inv
<1> QED  BY <1>1, <1>2 DEF NewTable

\* The node is complete, or its parts are given back.
LEMMA NewChildrenKeeps ==
    ASSUME Inv, NewChildren
    PROVE  Inv'
<1>0. pc = "new_children" /\ new \in Frames /\ new # None /\ Gone = {} /\ Fresh = {new}
  BY FramesAssumption DEF NewChildren, Inv, TypeOK, CallUnderWay, Gone, Fresh
<1>f. IsFiniteSet(tables) /\ Cardinality(tables) \in Nat
  BY FS_Subset, FS_CardinalityType, FramesAssumption DEF Inv, TypeOK
<1>c. books = 2 * Cardinality(tables) - 1
  BY <1>0 DEF Inv, Counted
<1>1. PICK lvl \in [Frames -> 0..3], own \in [Frames -> Contexts] :
        /\ Levelled(lvl, own) /\ Rooted(lvl) /\ Mirrored(lvl) /\ Allocated(lvl)
        /\ lvl[new] = 0
  BY <1>0 DEF Inv, Tree
<1>2. new \in tables
  BY <1>0, <1>1 DEF Allocated
<1>3. CASE /\ Return("ENOMEM", 0) /\ GiveBackTable /\ GiveBackNode
           /\ new' = None
           /\ UNCHANGED children
  <2>1. Walked' /\ CallUnderWay' /\ Gone' = {} /\ Fresh' = {}
    BY <1>3, ReturnFrame DEF Fresh
  <2>2. Levelled(lvl, own)' /\ Rooted(lvl)' /\ Mirrored(lvl)'
    BY <1>1, <1>3 DEF NewChildren, Levelled, Rooted, Mirrored
  <2>3. Allocated(lvl)'
    BY <1>0, <1>1, <1>3, <2>1 DEF Allocated, GiveBackTable
  <2>4. Tree'
    BY <2>1, <2>2, <2>3 DEF Tree
  <2>5. Injective' /\ (l0 = l1)'
    BY <1>3 DEF Inv, NewChildren, Injective
  <2>a. Cardinality(tables') = Cardinality(tables) - 1 /\ Cardinality(tables') \in Nat
    BY <1>2, <1>3, <1>f, FS_RemoveElement, FS_CardinalityType DEF GiveBackTable
  <2>6. books' = 2 * Cardinality(tables') /\ books' \in Nat
    BY <1>3, <1>c, <1>f, <2>a DEF GiveBackNode
  <2>7. Counted' /\ TypeOK'
    BY <1>3, <2>6 DEF Counted, Inv, TypeOK, NewChildren, Return, GiveBackTable
  <2> QED  BY <2>1, <2>4, <2>5, <2>7 DEF Inv
<1>4. CASE /\ books' = books + 1
           /\ children' = [children EXCEPT ![new] = Blank]
           /\ pc' = "link"
           /\ UNCHANGED <<tables, walkVars, new, req, ret>>
  <2>1. TypeOK'
    BY <1>0, <1>4 DEF Inv, NewChildren, TypeOK, walkVars, Blank
  <2>2. children' = children
    <3>1. children[new] = Blank
      <4>1. children[new] \in [Indices -> Frames \cup {None}]
        BY <1>0 DEF Inv, TypeOK
      <4>2. \A i \in Indices : children[new][i] = None
        BY <1>0, <1>1 DEF Levelled
      <4> QED  BY <4>1, <4>2 DEF Blank
    <3> QED  BY <1>0, <1>4, <3>1 DEF Inv, TypeOK
  <2>3. Tree' /\ Injective' /\ (l0 = l1)'
    BY <1>0, <1>4, <2>2, TreeFrame DEF Inv, NewChildren, treeVars, Gone
  <2>4. Counted'
    BY <1>4, <1>c, <1>f DEF Counted
  <2>5. Walked'
    BY <1>0, <1>4, <2>2 DEF Inv, NewChildren, Walked, Building, Root, walkVars
  <2>6. CallUnderWay'
    BY <1>0, <1>4, <2>2
       DEF Inv, NewChildren, TypeOK, CallUnderWay, Building, Slot, Index, InRange, walkVars
  <2> QED  BY <2>1, <2>3, <2>4, <2>5, <2>6 DEF Inv
<1> QED  BY <1>3, <1>4 DEF NewChildren

\* The new node enters the tree at the level of the walk, in an empty slot.
LEMMA LinkKeeps ==
    ASSUME Inv, Link
    PROVE  Inv'
<1>0. /\ pc = "link" /\ pc' = "walk" /\ new \in Frames /\ new' = None
      /\ Gone = {} /\ Fresh = {new} /\ Gone' = {} /\ Fresh' = {}
  BY FramesAssumption DEF Link, Inv, TypeOK, CallUnderWay, Gone, Fresh
<1>1. PICK lvl \in [Frames -> 0..3], own \in [Frames -> Contexts] :
        /\ Levelled(lvl, own) /\ Rooted(lvl) /\ Mirrored(lvl) /\ Allocated(lvl)
        /\ lvl[new] = 0
  BY <1>0 DEF Inv, Tree
<1>2. /\ req.ctx \in Contexts /\ TtbrSelect(req.iova) \in Halves
      /\ L1Index(req.iova) \in Indices /\ Index \in Indices
  BY <1>0, MapTypes DEF Building
<1>b. /\ table[new] = Blank /\ children[new] = Blank /\ Slot = None
  BY <1>0, FramesAssumption DEF Inv, CallUnderWay, Building
<1>t. TypeOK'
  <2>1. CASE level = 1
    <3>1. /\ l1 \in [Contexts -> [Halves -> Slots]] /\ l0 = l1 /\ new \in Slots
          /\ l1' = [l1 EXCEPT ![req.ctx][TtbrSelect(req.iova)] = new]
          /\ l0' = [l0 EXCEPT ![req.ctx][TtbrSelect(req.iova)] = new]
      BY <2>1 DEF Link, Inv, TypeOK, Halves, Slots
    <3>2. [l1 EXCEPT ![req.ctx][TtbrSelect(req.iova)] = new] \in [Contexts -> [Halves -> Slots]]
      BY <1>2, <3>1, StoreType, Zenon
    <3> QED  BY <1>0, <2>1, <3>1, <3>2 DEF Link, Inv, TypeOK, walkVars, Halves, Slots
  <2>2. CASE level # 1
    <3> DEFINE E == Frames \cup Nat \cup {None}
    <3>1. /\ children \in [Frames -> [Indices -> Slots]] /\ new \in Slots
          /\ table \in [Frames -> [Indices -> E]] /\ new \in E
          /\ children' = [children EXCEPT ![node][Index] = new]
          /\ table' = [table EXCEPT ![node][Index] = new]
      BY <1>0, <2>2 DEF Link, Inv, TypeOK, Slots
    <3>2. node \in Frames
      BY <1>0, <2>2, NodeLevel DEF Building
    <3> HIDE DEF E
    <3>3. [children EXCEPT ![node][Index] = new] \in [Frames -> [Indices -> Slots]]
      BY <1>2, <3>1, <3>2, StoreType, Zenon
    <3>4. [table EXCEPT ![node][Index] = new] \in [Frames -> [Indices -> E]]
      BY <1>2, <3>1, <3>2, StoreType, Zenon
    <3> QED  BY <1>0, <2>2, <3>1, <3>3, <3>4 DEF Link, Inv, TypeOK, walkVars, Slots, E
  <2> QED  BY <2>1, <2>2
<1>c. Counted'
  BY <1>0 DEF Link, Inv, Counted
<1>l. (l0 = l1)'
  BY DEF Link, Inv
<1>u. CallUnderWay'
  BY <1>0 DEF Link, Inv, CallUnderWay, Building, InRange, walkVars
\* The new node hangs in no slot yet.
<1>n. /\ \A c \in Contexts, s \in Halves : l1[c][s] # new
      /\ \A n \in Frames, i \in Indices : children[n][i] # new
  <2>1. new # None
    BY <1>0, FramesAssumption
  <2>2. \A c \in Contexts, s \in Halves : l1[c][s] # new
    BY <1>1, <2>1 DEF Levelled
  <2>3. \A n \in Frames, i \in Indices : children[n][i] # new
    BY <1>1, <2>1 DEF Levelled
  <2> QED  BY <2>2, <2>3
<1>3. CASE level = 1
  <2> DEFINE sel == TtbrSelect(req.iova)
  <2>0. /\ l1' = [l1 EXCEPT ![req.ctx][sel] = new] /\ UNCHANGED <<table, children>>
        /\ l1[req.ctx][sel] = None
    BY <1>3, <1>b DEF Link, Slot
  <2>1. PICK lvl1 \in [Frames -> 0..3], own1 \in [Frames -> Contexts] :
          lvl1 = [lvl EXCEPT ![new] = 1] /\ own1 = [own EXCEPT ![new] = req.ctx]
    <3>1. [lvl EXCEPT ![new] = 1] \in [Frames -> 0..3]
      BY <1>0
    <3>2. [own EXCEPT ![new] = req.ctx] \in [Frames -> Contexts]
      BY <1>2
    <3> QED  BY <3>1, <3>2
  <2>2. \A c \in Contexts, s \in Halves :
          l1'[c][s] = IF c = req.ctx /\ s = sel THEN new ELSE l1[c][s]
    BY <1>2, <2>0 DEF Inv, TypeOK, Halves
  <2> HIDE DEF sel
  <2>3. Levelled(lvl1, own1)'
    <3>1. \A c \in Contexts, s \in Halves : l1'[c][s] # None =>
             lvl1[l1'[c][s]] = 1 /\ own1[l1'[c][s]] = c
      BY <1>0, <1>1, <1>n, <2>1, <2>2 DEF Levelled, Inv, TypeOK, Halves
    <3>2. \A n \in Frames, i \in Indices : children[n][i] # None =>
            /\ n # new /\ children[n][i] \in Frames /\ children[n][i] # new
      BY <1>b, <1>n DEF Inv, TypeOK, Blank
    <3>3. \A n \in Frames, i \in Indices : children[n][i] # None =>
            /\ lvl1[n] \in {1, 2}
            /\ lvl1[children[n][i]] = lvl1[n] + 1
            /\ own1[children[n][i]] = own1[n]
      BY <1>1, <2>1, <3>2 DEF Levelled
    <3> QED  BY <2>0, <3>1, <3>3 DEF Levelled
  <2>4. Rooted(lvl1)'
    <3>1. \A f \in Frames : lvl1[f] = 1 =>
            \E c \in Contexts, s \in Halves : l1'[c][s] = f
      <4> SUFFICES ASSUME NEW f \in Frames, lvl1[f] = 1
                   PROVE  \E c \in Contexts, s \in Halves : l1'[c][s] = f
        OBVIOUS
      <4>1. CASE f = new
        BY <4>1, <1>2, <2>2 DEF sel
      <4>2. CASE f # new
        <5>1. PICK c \in Contexts, s \in Halves : l1[c][s] = f
          BY <4>2, <1>1, <2>1 DEF Rooted
        <5>2. f # None
          BY FramesAssumption
        <5> QED  BY <5>1, <5>2, <2>0, <2>2
      <4> QED  BY <4>1, <4>2
    <3> QED  BY <1>1, <2>0, <2>1, <3>1 DEF Rooted
  <2>5. Mirrored(lvl1)'
    BY <1>1, <1>b, <2>0, <2>1 DEF Mirrored
  <2>6. Allocated(lvl1)'
    BY <1>0, <1>1, <2>1, FramesAssumption DEF Allocated, Link
  <2>7. Tree'
    BY <1>0, <2>1, <2>3, <2>4, <2>5, <2>6 DEF Tree
  <2>8. Injective'
    BY <1>n, <2>0, <2>2 DEF Injective, Inv
  <2>9. Walked'
    BY <1>3, <1>0 DEF Link, Walked, walkVars
  <2> QED  BY <1>t, <1>c, <1>l, <1>u, <2>7, <2>8, <2>9 DEF Inv
<1>4. CASE level # 1
  <2> DEFINE ix == Index
  <2>0. /\ children' = [children EXCEPT ![node][ix] = new]
        /\ table' = [table EXCEPT ![node][ix] = new]
        /\ UNCHANGED <<l0, l1>> /\ children[node][ix] = None
    BY <1>4, <1>b DEF Link, Slot
  <2>1. node \in Frames /\ level \in {2, 3} /\ ix \in Indices
    BY <1>0, <1>2, <1>4, NodeLevel DEF Building
  <2>2. lvl[node] = level - 1
    <3>1. level = 2 => lvl[node] = 1
      BY <1>0, <1>1, <1>2 DEF Inv, Walked, Building, Root, Levelled
    <3>2. level = 3 => lvl[node] = 2
      <4> SUFFICES ASSUME level = 3 PROVE lvl[node] = 2
        OBVIOUS
      <4>1. Root \in Frames /\ node = children[Root][L1Index(req.iova)] /\ node # None
        BY <1>0, <1>2 DEF Inv, Walked, Building, Root, TypeOK, Halves
      <4>2. lvl[Root] = 1
        BY <4>1, <1>1, <1>2, FramesAssumption DEF Levelled, Root
      <4> QED  BY <4>1, <4>2, <1>1, <1>2 DEF Levelled
    <3> QED  BY <2>1, <3>1, <3>2
  <2> HIDE DEF ix
  <2>3. node # new /\ own[node] \in Contexts
    BY <1>1, <2>1, <2>2
  <2>4. PICK lvl1 \in [Frames -> 0..3], own1 \in [Frames -> Contexts] :
          lvl1 = [lvl EXCEPT ![new] = level] /\ own1 = [own EXCEPT ![new] = own[node]]
    <3>1. [lvl EXCEPT ![new] = level] \in [Frames -> 0..3]
      BY <1>0, <2>1
    <3>2. [own EXCEPT ![new] = own[node]] \in [Frames -> Contexts]
      BY <2>3
    <3> QED  BY <3>1, <3>2
  <2>5. \A n \in Frames, i \in Indices :
          children'[n][i] = IF n = node /\ i = ix THEN new ELSE children[n][i]
    BY <2>0, <2>1 DEF Inv, TypeOK
  <2>6. Levelled(lvl1, own1)'
    <3>1. \A c \in Contexts, s \in Halves : l1'[c][s] # None =>
             lvl1[l1'[c][s]] = 1 /\ own1[l1'[c][s]] = c
      BY <1>1, <1>n, <2>0, <2>4 DEF Levelled, Inv, TypeOK, Halves
    <3>2. \A n \in Frames, i \in Indices : children[n][i] # None =>
            /\ n # new /\ children[n][i] \in Frames /\ children[n][i] # new
      BY <1>b, <1>n DEF Inv, TypeOK, Blank
    <3>3. \A n \in Frames, i \in Indices : children'[n][i] # None =>
            /\ lvl1[n] \in {1, 2}
            /\ lvl1[children'[n][i]] = lvl1[n] + 1
            /\ own1[children'[n][i]] = own1[n]
      <4> SUFFICES ASSUME NEW n \in Frames, NEW i \in Indices, children'[n][i] # None
                   PROVE  /\ lvl1[n] \in {1, 2}
                          /\ lvl1[children'[n][i]] = lvl1[n] + 1
                          /\ own1[children'[n][i]] = own1[n]
        OBVIOUS
      <4>1. CASE n = node /\ i = ix
        BY <4>1, <1>0, <2>1, <2>2, <2>3, <2>4, <2>5
      <4>2. CASE ~(n = node /\ i = ix)
        BY <4>2, <1>1, <2>4, <2>5, <3>2 DEF Levelled
      <4> QED  BY <4>1, <4>2
    <3> QED  BY <3>1, <3>3 DEF Levelled
  <2>7. Rooted(lvl1)'
    <3>1. \A f \in Frames : lvl1[f] = 1 => \E c \in Contexts, s \in Halves : l1'[c][s] = f
      BY <1>1, <2>0, <2>1, <2>4 DEF Rooted
    <3>2. \A f \in Frames : lvl1[f] \in {2, 3} =>
            \E n \in Frames, i \in Indices : children'[n][i] = f
      <4> SUFFICES ASSUME NEW f \in Frames, lvl1[f] \in {2, 3}
                   PROVE  \E n \in Frames, i \in Indices : children'[n][i] = f
        OBVIOUS
      <4>1. CASE f = new
        BY <4>1, <2>1, <2>5
      <4>2. CASE f # new
        <5>1. PICK n \in Frames, i \in Indices : children[n][i] = f
          BY <4>2, <1>1, <2>4 DEF Rooted
        <5>2. f # None
          BY FramesAssumption
        <5> QED  BY <5>1, <5>2, <2>0, <2>5
      <4> QED  BY <4>1, <4>2
    <3> QED  BY <3>1, <3>2 DEF Rooted
  <2>8. Mirrored(lvl1)'
    <3> SUFFICES ASSUME NEW f \in Frames, lvl1[f] \in {1, 2} PROVE table'[f] = children'[f]
      BY DEF Mirrored
    <3>1. CASE f = new
      BY <3>1, <1>b, <2>0, <2>1, <2>3 DEF Inv, TypeOK
    <3>2. CASE f # new
      BY <3>2, <1>1, <2>0, <2>1, <2>4 DEF Mirrored, Inv, TypeOK
    <3> QED  BY <3>1, <3>2
  <2>9. Allocated(lvl1)'
    BY <1>0, <1>1, <2>1, <2>4, FramesAssumption DEF Allocated, Link
  <2>10. Tree'
    BY <1>0, <2>4, <2>6, <2>7, <2>8, <2>9 DEF Tree
  <2>11. Injective'
    BY <1>n, <2>0, <2>5 DEF Injective, Inv
  <2>12. Walked'
    <3>2. level = 3 => Root \in Frames /\ Root # None
      BY <1>0, <1>2 DEF Inv, Walked, Building, Root, TypeOK, Halves
    <3>1. level = 3 => Root # node
      BY <1>1, <1>2, <2>1, <2>2, <3>2 DEF Levelled, Root
    <3>3. level = 3 => children'[Root][L1Index(req.iova)] = children[Root][L1Index(req.iova)]
      BY <1>2, <2>5, <3>1, <3>2
    <3> QED  BY <1>0, <2>0, <3>3 DEF Link, Inv, Walked, Building, Root, walkVars
  <2> QED  BY <1>t, <1>c, <1>l, <1>u, <2>10, <2>11, <2>12 DEF Inv
<1> QED  BY <1>3, <1>4

\* The node agx_uat_lookup finds for an address is of the last level.
LEMMA FoundLevel ==
    ASSUME TypeOK, req \in Requests, req.ctx \in Contexts, Found # None,
           NEW lvl \in [Frames -> 0..3], NEW own \in [Frames -> Contexts],
           Levelled(lvl, own)
    PROVE  Found \in Frames /\ lvl[Found] = 3
<1> DEFINE a == L1Index(req.iova)  b == L2Index(req.iova)
           mid == Child(Root, a)
<1>1. Root \in Slots /\ a \in Indices /\ b \in Indices /\ TtbrSelect(req.iova) \in Halves
  BY RequestTypes, IndexTypes DEF TypeOK, Root, Slots, Halves
<1>2. Found = Child(mid, b)
  BY DEF Found, Root
<1> HIDE DEF a, b
<1>3. mid # None /\ Root # None
  BY <1>2 DEF Child
<1>4. Root \in Frames /\ lvl[Root] = 1
  BY <1>1, <1>3 DEF Levelled, Slots, Root
<1>5. mid = children[Root][a] /\ mid \in Frames
  BY <1>1, <1>3, <1>4 DEF Child, TypeOK
<1>6. lvl[mid] = 2
  BY <1>1, <1>3, <1>4, <1>5 DEF Levelled
<1>7. Found = children[mid][b] /\ Found \in Frames
  BY <1>1, <1>2, <1>3, <1>5 DEF Child, TypeOK
<1> QED  BY <1>1, <1>5, <1>6, <1>7 DEF Levelled

\* Writing an entry of a last-level table, as map and unmap do.
LEMMA LeafStoreKeeps ==
    ASSUME Inv, pc \in {"start", "leaf"}, req \in Requests, req.ctx \in Contexts,
           Found # None, NEW v \in Frames \cup Nat \cup {None},
           table' = [table EXCEPT ![Found][L3Index(req.iova)] = v],
           Return("ok", 0), UNCHANGED <<l0, l1, children, tables, books, new>>
    PROVE  Inv'
<1>0. new' = None /\ new = None /\ Gone = {}
  BY DEF Inv, CallUnderWay, Gone
<1>1. PICK lvl \in [Frames -> 0..3], own \in [Frames -> Contexts] :
        /\ Levelled(lvl, own) /\ Rooted(lvl) /\ Mirrored(lvl) /\ Allocated(lvl)
  BY DEF Inv, Tree
<1>2. Found \in Frames /\ lvl[Found] = 3
  BY <1>1, FoundLevel DEF Inv
<1>3. L3Index(req.iova) \in Indices
  BY RequestTypes, IndexTypes
<1>4. TypeOK'
  <2> DEFINE E == Frames \cup Nat \cup {None}
  <2>1. table \in [Frames -> [Indices -> E]] /\ v \in E
    BY DEF Inv, TypeOK
  <2> HIDE DEF E
  <2>2. [table EXCEPT ![Found][L3Index(req.iova)] = v] \in [Frames -> [Indices -> E]]
    BY <1>2, <1>3, <2>1, StoreType, Zenon
  <2>3. table' \in [Frames -> [Indices -> Frames \cup Nat \cup {None}]]
    BY <2>2 DEF E
  <2> QED  BY <2>3 DEF Inv, TypeOK, Return
<1>5. Walked' /\ CallUnderWay' /\ Gone' = {}
  BY <1>0, ReturnFrame
<1>6. Levelled(lvl, own)' /\ Rooted(lvl)'
  BY <1>1 DEF Levelled, Rooted
<1>7. Mirrored(lvl)'
  BY <1>1, <1>2 DEF Mirrored, Inv, TypeOK
<1>8. Allocated(lvl)' /\ Fresh' = {}
  BY <1>0, <1>1, <1>5 DEF Allocated, Fresh
<1>9. Tree' /\ Injective' /\ (l0 = l1)'
  BY <1>6, <1>7, <1>8 DEF Tree, Injective, Inv
<1>10. Counted'
  BY DEF Counted, Inv, Return
<1> QED  BY <1>4, <1>5, <1>9, <1>10 DEF Inv

\* agx_uat_map_page writes the entry of its page.
LEMMA MapLeafKeeps ==
    ASSUME Inv, MapLeaf
    PROVE  Inv'
<1>1. /\ req \in Requests /\ req.ctx \in Contexts
      /\ Pte(req.phys) \in Frames \cup Nat \cup {None}
  BY MapTypes, PteValue DEF MapLeaf
<1>2. node = Found /\ Found # None
  BY DEF Inv, CallUnderWay, MapLeaf
<1> QED  BY <1>1, <1>2, LeafStoreKeeps DEF MapLeaf

\* agx_uat_unmap_page clears the entry of its page.
LEMMA UnmapKeeps ==
    ASSUME Inv, Unmap
    PROVE  Inv'
<1>1. req \in Requests
  BY DEF Unmap, Starting, Inv, TypeOK, CallUnderWay
<1>2. req.ctx \in Contexts /\ Found # None
  BY <1>1, RequestTypes DEF Unmap, InRange, Leaf
<1> QED  BY <1>1, <1>2, LeafStoreKeeps DEF Unmap, Starting

\* agx_uat_free_context refuses a context out of range.
LEMMA FreeStartKeeps ==
    ASSUME Inv, FreeStart
    PROVE  Inv'
<1>1. CASE req.ctx < CONTEXT_COUNT
  <2>1. Tree' /\ Injective' /\ (l0 = l1)'
    BY <1>1, TreeFrame DEF Inv, FreeStart, Starting, Gone
  <2>2. TypeOK'
    BY <1>1 DEF Inv, TypeOK, FreeStart, treeVars, walkVars
  <2>3. Counted'
    BY <1>1 DEF Inv, Counted, FreeStart, Starting
  <2>4. req \in Requests
    BY DEF FreeStart, Starting, Inv, TypeOK, CallUnderWay
  <2>5. Walked' /\ CallUnderWay'
    BY <1>1, <2>4, RequestTypes
       DEF Inv, Walked, CallUnderWay, Building, FreeStart, Starting, walkVars
  <2> QED  BY <2>1, <2>2, <2>3, <2>5 DEF Inv
<1>2. CASE ~(req.ctx < CONTEXT_COUNT)
  BY <1>2, ReturnKeeps DEF FreeStart, Starting
<1> QED  BY <1>1, <1>2

\* A root with everything below it, in terms of the slots.
LEMMA SubtreeSlots ==
    ASSUME TypeOK, NEW root \in Frames, NEW f
    PROVE  f \in Subtree(root) <=>
             \/ f = root
             \/ f # None /\ \E i \in Indices : children[root][i] = f
             \/ f # None /\ \E i, j \in Indices :
                  children[root][i] # None /\ children[children[root][i]][j] = f
<1>1. root # None
  BY FramesAssumption
<1>2. \A x : x \in Kids({root}) <=> x # None /\ \E i \in Indices : children[root][i] = x
  BY DEF Kids
<1>3. f \in Kids(Kids({root})) <=>
        f # None /\ \E n \in Kids({root}), j \in Indices : children[n][j] = f
  BY DEF Kids
<1> QED  BY <1>1, <1>2, <1>3 DEF Subtree

\* What is freed with a root is closed under the tree: a node goes exactly
\* when its parent does, and no other root goes.
LEMMA SubtreeClosed ==
    ASSUME TypeOK, Injective, NEW c \in Contexts, NEW s \in Halves,
           NEW lvl \in [Frames -> 0..3], NEW own \in [Frames -> Contexts],
           Levelled(lvl, own)
    PROVE  LET gone == Subtree(l1[c][s])
           IN  /\ gone \subseteq Frames
               /\ l1[c][s] # None => l1[c][s] \in gone
               /\ \A f \in gone : f = l1[c][s] \/ lvl[f] \in {2, 3}
               /\ \A f \in gone : lvl[f] # 0
               /\ \A n \in Frames, i \in Indices : children[n][i] # None =>
                     (children[n][i] \in gone <=> n \in gone)
<1> DEFINE root == l1[c][s]  gone == Subtree(root)
<1>1. CASE root = None
  BY <1>1 DEF Subtree
<1>2. CASE root # None
  <2>1. root \in Frames /\ lvl[root] = 1
    BY <1>2 DEF TypeOK, Levelled, Halves
  <2>2. \A f : f \in gone <=>
             \/ f = root
             \/ f # None /\ \E i \in Indices : children[root][i] = f
             \/ f # None /\ \E i, j \in Indices :
                  children[root][i] # None /\ children[children[root][i]][j] = f
    BY <2>1, SubtreeSlots
  <2> HIDE DEF gone, root
  <2>3. \A i \in Indices : children[root][i] # None =>
           children[root][i] \in Frames /\ lvl[children[root][i]] = 2
    BY <2>1 DEF Levelled, TypeOK
  <2>4. \A i, j \in Indices :
           children[root][i] # None /\ children[children[root][i]][j] # None =>
             /\ children[children[root][i]][j] \in Frames
             /\ lvl[children[children[root][i]][j]] = 3
    BY <2>3 DEF Levelled, TypeOK
  <2>5. \A f \in gone : f \in Frames /\ lvl[f] # 0 /\ (f = root \/ lvl[f] \in {2, 3})
    BY <2>1, <2>2, <2>3, <2>4
  <2>6. ASSUME NEW n \in Frames, NEW i \in Indices, children[n][i] # None, n \in gone
        PROVE  children[n][i] \in gone
    <3>1. CASE n = root
      BY <3>1, <2>6, <2>2
    <3>2. ASSUME NEW k \in Indices, children[root][k] = n, n # None
          PROVE  children[n][i] \in gone
      BY <3>2, <2>6, <2>2
    <3>3. ASSUME NEW k \in Indices, NEW j \in Indices, children[root][k] # None,
                 children[children[root][k]][j] = n, n # None
          PROVE  FALSE
      BY <3>3, <2>4, <2>6 DEF Levelled
    <3> QED  BY <2>2, <2>6, <3>1, <3>2, <3>3
  <2>7. ASSUME NEW n \in Frames, NEW i \in Indices, children[n][i] # None,
               children[n][i] \in gone
        PROVE  n \in gone
    <3>1. CASE children[n][i] = root
      BY <3>1, <2>7, <2>1 DEF Levelled
    <3>2. ASSUME NEW k \in Indices, children[root][k] = children[n][i]
          PROVE  n \in gone
      BY <3>2, <2>7, <2>1, <2>2 DEF Injective
    <3>3. ASSUME NEW k \in Indices, NEW j \in Indices, children[root][k] # None,
                 children[children[root][k]][j] = children[n][i]
          PROVE  n \in gone
      <4>1. n = children[root][k]
        BY <3>3, <2>7, <2>3 DEF Injective
      <4> QED  BY <4>1, <3>3, <2>2
    <3> QED  BY <2>2, <2>7, <3>1, <3>2, <3>3
  <2>8. root \in gone
    BY <2>2
  <2> QED  BY <2>5, <2>6, <2>7, <2>8 DEF gone, root
<1> QED  BY <1>1, <1>2

\* The tree of a half is freed; its root still hangs in its slot.
LEMMA FreeNodesKeeps ==
    ASSUME Inv, FreeNodes
    PROVE  Inv'
<1>0. /\ pc = "free" /\ pc' = "clear" /\ new = None /\ new' = None
      /\ req.ctx \in Contexts /\ half \in Halves /\ Gone = {} /\ Fresh = {} /\ Fresh' = {}
  BY DEF FreeNodes, Inv, TypeOK, CallUnderWay, Gone, Fresh, Halves
<1>1. PICK lvl \in [Frames -> 0..3], own \in [Frames -> Contexts] :
        /\ Levelled(lvl, own) /\ Rooted(lvl) /\ Mirrored(lvl) /\ Allocated(lvl)
  BY DEF Inv, Tree
<1>r. PICK root : root = l1[req.ctx][half]
  OBVIOUS
<1>g. PICK gone : gone = Subtree(root)
  OBVIOUS
<1>2. /\ gone \subseteq Frames
      /\ root # None => root \in gone
      /\ \A f \in gone : f = root \/ lvl[f] \in {2, 3}
      /\ \A f \in gone : lvl[f] # 0
      /\ \A n \in Frames, i \in Indices : children[n][i] # None =>
            (children[n][i] \in gone <=> n \in gone)
  BY <1>0, <1>1, <1>r, <1>g, SubtreeClosed DEF Inv
<1>3. /\ tables' = tables \ gone
      /\ books' = books - 2 * Cardinality(gone)
      /\ table' = [f \in Frames |-> IF f \in gone THEN Blank ELSE table[f]]
      /\ children' = [f \in Frames |-> IF f \in gone THEN Blank ELSE children[f]]
      /\ l1' = l1 /\ l0' = l0
  BY <1>r, <1>g DEF FreeNodes
<1>4. gone \subseteq tables
  BY <1>0, <1>1, <1>2 DEF Allocated
<1>5. /\ IsFiniteSet(tables) /\ Cardinality(tables) \in Nat
      /\ IsFiniteSet(gone) /\ Cardinality(gone) \in Nat
      /\ Cardinality(tables \ gone) = Cardinality(tables) - Cardinality(gone)
      /\ Cardinality(tables \ gone) \in Nat
  <2>1. IsFiniteSet(tables) /\ IsFiniteSet(gone)
    BY <1>4, FS_Subset, FramesAssumption DEF Inv, TypeOK
  <2>2. Cardinality(tables \ gone) = Cardinality(tables) - Cardinality(tables \cap gone)
        /\ IsFiniteSet(tables \ gone)
    BY <2>1, FS_Difference
  <2>3. tables \cap gone = gone
    BY <1>4
  <2> QED  BY <2>1, <2>2, <2>3, FS_CardinalityType
<1>6. books' = 2 * Cardinality(tables') /\ books' \in Nat
  BY <1>0, <1>3, <1>5 DEF Inv, Counted
<1>7. Counted'
  BY <1>0, <1>6 DEF Counted
<1>8. TypeOK'
  <2>1. Blank \in [Indices -> Frames \cup {None}] /\ Blank \in [Indices -> Frames \cup Nat \cup {None}]
    BY DEF Blank
  <2>2. children' \in [Frames -> [Indices -> Frames \cup {None}]]
    BY <1>3, <2>1 DEF Inv, TypeOK
  <2>3. table' \in [Frames -> [Indices -> Frames \cup Nat \cup {None}]]
    BY <1>3, <2>1 DEF Inv, TypeOK
  <2> QED  BY <1>0, <1>3, <1>6, <2>2, <2>3 DEF FreeNodes, Inv, TypeOK, walkVars
<1>9. PICK lvl1 \in [Frames -> 0..3] :
        lvl1 = [f \in Frames |-> IF f \in gone /\ f # root THEN 0 ELSE lvl[f]]
  <2>1. [f \in Frames |-> IF f \in gone /\ f # root THEN 0 ELSE lvl[f]] \in [Frames -> 0..3]
    OBVIOUS
  <2> QED  BY <2>1
<1>10. \A n \in Frames, i \in Indices :
         children'[n][i] = IF n \in gone THEN None ELSE children[n][i]
  BY <1>3 DEF Blank
<1>11. \A n \in Frames, i \in Indices : children'[n][i] # None =>
         /\ children'[n][i] = children[n][i] /\ n \notin gone
         /\ children[n][i] \in Frames /\ children[n][i] \notin gone
  BY <1>2, <1>10 DEF Inv, TypeOK
<1>12. Levelled(lvl1, own)'
  <2>1. \A c \in Contexts, s \in Halves : l1[c][s] # None =>
          lvl1[l1[c][s]] = 1 /\ own[l1[c][s]] = c
    <3> SUFFICES ASSUME NEW c \in Contexts, NEW s \in Halves, l1[c][s] # None
                 PROVE  lvl1[l1[c][s]] = 1 /\ own[l1[c][s]] = c
      OBVIOUS
    <3>1. l1[c][s] \in Frames /\ lvl[l1[c][s]] = 1 /\ own[l1[c][s]] = c
      BY <1>1 DEF Levelled, Inv, TypeOK, Halves
    <3> QED  BY <3>1, <1>2, <1>9
  <2>2. \A n \in Frames, i \in Indices : children'[n][i] # None =>
          /\ lvl1[n] \in {1, 2}
          /\ lvl1[children'[n][i]] = lvl1[n] + 1
          /\ own[children'[n][i]] = own[n]
    BY <1>1, <1>9, <1>11 DEF Levelled
  <2> QED  BY <1>3, <2>1, <2>2 DEF Levelled
<1>13. Rooted(lvl1)'
  <2>1. \A f \in Frames : lvl1[f] = 1 => \E c \in Contexts, s \in Halves : l1[c][s] = f
    BY <1>1, <1>9 DEF Rooted
  <2>2. \A f \in Frames : lvl1[f] \in {2, 3} =>
          \E n \in Frames, i \in Indices : children'[n][i] = f
    <3> SUFFICES ASSUME NEW f \in Frames, lvl1[f] \in {2, 3}
                 PROVE  \E n \in Frames, i \in Indices : children'[n][i] = f
      OBVIOUS
    <3>1. lvl[f] \in {2, 3} /\ (f \in gone => f = root)
      BY <1>9
    <3>2. root \in Frames => lvl[root] = 1
      BY <1>0, <1>1, <1>r, FramesAssumption DEF Levelled
    <3>3. f \notin gone
      BY <3>1, <3>2
    <3>4. PICK n \in Frames, i \in Indices : children[n][i] = f
      BY <1>1, <3>1 DEF Rooted
    <3>5. n \notin gone
      BY <3>3, <3>4, <1>2, FramesAssumption
    <3> QED  BY <3>4, <3>5, <1>10
  <2> QED  BY <1>3, <2>1, <2>2 DEF Rooted
<1>14. Mirrored(lvl1)'
  BY <1>1, <1>3, <1>9 DEF Mirrored
<1>15. Allocated(lvl1)'
  <2>1. Gone' = {root}
    BY <1>0, <1>3, <1>r DEF Gone, FreeNodes, walkVars
  <2> QED  BY <1>0, <1>1, <1>2, <1>3, <1>9, <2>1, FramesAssumption DEF Allocated
<1>16. Tree'
  BY <1>0, <1>9, <1>12, <1>13, <1>14, <1>15 DEF Tree
<1>17. Injective' /\ (l0 = l1)'
  BY <1>3, <1>11 DEF Injective, Inv
<1>18. Walked' /\ CallUnderWay'
  <2>1. root # None => children'[root] = Blank
    BY <1>2, <1>3
  <2> QED  BY <1>0, <1>3, <1>r, <2>1
           DEF Walked, CallUnderWay, Building, FreeNodes, Inv, walkVars
<1> QED  BY <1>7, <1>8, <1>16, <1>17, <1>18 DEF Inv

\* The slots of the root are cleared.
LEMMA FreeClearKeeps ==
    ASSUME Inv, FreeClear
    PROVE  Inv'
<1>0. /\ pc = "clear" /\ pc' \in {"free", "idle"} /\ new = None /\ new' = None
      /\ req.ctx \in Contexts /\ half \in Halves /\ Fresh = {} /\ Fresh' = {} /\ Gone' = {}
  BY DEF FreeClear, Return, Inv, TypeOK, CallUnderWay, Gone, Fresh, Halves
<1>1. PICK lvl \in [Frames -> 0..3], own \in [Frames -> Contexts] :
        /\ Levelled(lvl, own) /\ Rooted(lvl) /\ Mirrored(lvl) /\ Allocated(lvl)
  BY DEF Inv, Tree
<1>r. PICK root : root = l1[req.ctx][half]
  OBVIOUS
<1>2. /\ l1' = [l1 EXCEPT ![req.ctx][half] = None] /\ l0' = l1'
      /\ UNCHANGED <<table, children, tables, books, new>>
  BY DEF FreeClear, ClearL0, Inv
<1>3. /\ Gone = {root} /\ root \in Slots
      /\ root # None => lvl[root] = 1 /\ children[root] = Blank
  BY <1>0, <1>1, <1>r DEF Gone, Inv, TypeOK, Halves, Slots, CallUnderWay, Levelled
<1>4. PICK lvl1 \in [Frames -> 0..3] :
        lvl1 = [f \in Frames |-> IF f = root THEN 0 ELSE lvl[f]]
  <2>1. [f \in Frames |-> IF f = root THEN 0 ELSE lvl[f]] \in [Frames -> 0..3]
    OBVIOUS
  <2> QED  BY <2>1
<1>5. /\ l1' \in [Contexts -> [Halves -> Slots]]
      /\ \A c \in Contexts, s \in Halves :
           l1'[c][s] = IF c = req.ctx /\ s = half THEN None ELSE l1[c][s]
  <2>1. l1 \in [Contexts -> [Halves -> Slots]] /\ None \in Slots
    BY DEF Inv, TypeOK, Halves, Slots
  <2>2. [l1 EXCEPT ![req.ctx][half] = None] \in [Contexts -> [Halves -> Slots]]
    BY <1>0, <2>1, StoreType, Zenon
  <2> QED  BY <1>0, <1>2, <2>1, <2>2
<1>6. TypeOK'
  BY <1>0, <1>2, <1>5 DEF FreeClear, Return, Inv, TypeOK, Halves, Slots
<1>7. Counted'
  BY <1>0, <1>2 DEF Inv, Counted
<1>8. Levelled(lvl1, own)'
  <2>1. \A c \in Contexts, s \in Halves : l1'[c][s] # None =>
          lvl1[l1'[c][s]] = 1 /\ own[l1'[c][s]] = c
    <3> SUFFICES ASSUME NEW c \in Contexts, NEW s \in Halves, l1'[c][s] # None
                 PROVE  lvl1[l1'[c][s]] = 1 /\ own[l1'[c][s]] = c
      OBVIOUS
    <3>1. l1'[c][s] = l1[c][s] /\ ~(c = req.ctx /\ s = half)
      BY <1>5
    <3>2. l1[c][s] # root
      BY <1>0, <1>r, <3>1 DEF Inv, Injective
    <3>3. l1[c][s] \in Frames
      BY <3>1 DEF Inv, TypeOK, Halves
    <3> QED  BY <1>1, <1>4, <3>1, <3>2, <3>3 DEF Levelled
  <2>2. \A n \in Frames, i \in Indices : children[n][i] # None =>
          n # root /\ children[n][i] # root /\ children[n][i] \in Frames
    <3> SUFFICES ASSUME NEW n \in Frames, NEW i \in Indices, children[n][i] # None
                 PROVE  n # root /\ children[n][i] # root /\ children[n][i] \in Frames
      OBVIOUS
    <3>1. n # root
      BY <1>3, FramesAssumption DEF Blank
    <3>2. children[n][i] \in Frames
      BY DEF Inv, TypeOK
    <3>3. lvl[children[n][i]] \in {2, 3}
      BY <1>1 DEF Levelled
    <3> QED  BY <1>3, <3>1, <3>2, <3>3
  <2>3. \A n \in Frames, i \in Indices : children[n][i] # None =>
          /\ lvl1[n] \in {1, 2}
          /\ lvl1[children[n][i]] = lvl1[n] + 1
          /\ own[children[n][i]] = own[n]
    BY <1>1, <1>4, <2>2 DEF Levelled
  <2> QED  BY <1>2, <2>1, <2>3 DEF Levelled
<1>9. Rooted(lvl1)'
  <2>1. \A f \in Frames : lvl1[f] = 1 => \E c \in Contexts, s \in Halves : l1'[c][s] = f
    <3> SUFFICES ASSUME NEW f \in Frames, lvl1[f] = 1
                 PROVE  \E c \in Contexts, s \in Halves : l1'[c][s] = f
      OBVIOUS
    <3>1. f # root /\ lvl[f] = 1
      BY <1>4
    <3>2. PICK c \in Contexts, s \in Halves : l1[c][s] = f
      BY <1>1, <3>1 DEF Rooted
    <3> QED  BY <3>1, <3>2, <1>5, <1>r
  <2> QED  BY <1>1, <1>2, <1>4, <2>1 DEF Rooted
<1>10. Mirrored(lvl1)'
  BY <1>1, <1>2, <1>4 DEF Mirrored
<1>11. Allocated(lvl1)'
  BY <1>0, <1>1, <1>2, <1>3, <1>4 DEF Allocated
<1>12. Tree'
  BY <1>0, <1>4, <1>8, <1>9, <1>10, <1>11 DEF Tree
<1>13. Injective' /\ (l0 = l1)'
  BY <1>2, <1>5 DEF Inv, Injective
<1>14. Walked' /\ CallUnderWay'
  <2>1. CASE half = 0
    <3>1. l1'[req.ctx][0] = None
      BY <1>0, <1>5, <2>1
    <3> QED  BY <1>0, <2>1, <3>1 DEF FreeClear, Inv, Walked, CallUnderWay, Building
  <2>2. CASE half # 0
    BY <1>0, <2>2, ReturnFrame DEF FreeClear
  <2> QED  BY <2>1, <2>2
<1> QED  BY <1>6, <1>7, <1>12, <1>13, <1>14 DEF Inv

\* Every step keeps the invariant.
LEMMA StepHolds == Inv /\ [Next]_vars => Inv'
<1> SUFFICES ASSUME Inv, [Next]_vars PROVE Inv'
  OBVIOUS
<1>1. CASE UNCHANGED vars
  <2>1. Tree' /\ Injective' /\ (l0 = l1)'
    BY <1>1, TreeFrame DEF Inv, vars, treeVars, walkVars, Gone
  <2>2. TypeOK' /\ Counted'
    BY <1>1 DEF Inv, TypeOK, Counted, vars, treeVars, walkVars
  <2>3. Walked' /\ CallUnderWay'
    BY <1>1 DEF Inv, Walked, CallUnderWay, Building, Root, Slot, Index, Found, Child,
                InRange, vars, treeVars, walkVars
  <2> QED  BY <2>1, <2>2, <2>3 DEF Inv
<1>2. ASSUME NEW r \in Requests, Call(r) PROVE Inv'
  BY <1>2, CallKeeps
<1>3. CASE MapInvalid
  BY <1>3, ReturnKeeps DEF MapInvalid, Starting
<1>4. CASE Lookup
  BY <1>4, ReturnKeeps DEF Lookup, Starting
<1>5. CASE UnmapFails
  BY <1>5, ReturnKeeps DEF UnmapFails, Starting
<1>6. ASSUME NEW f \in Frames, NewTable(f) PROVE Inv'
  BY <1>6, NewTableKeeps
<1> QED
  BY <1>1, <1>2, <1>3, <1>4, <1>5, <1>6, MapStartKeeps, WalkDownKeeps, NewNodeKeeps,
     NewChildrenKeeps, LinkKeeps, MapLeafKeeps, UnmapKeeps, FreeStartKeeps,
     FreeNodesKeeps, FreeClearKeeps
  DEF Next

\* The inductive invariant holds throughout: at every moment of every call the
\* driver's tables form a tree that the hardware's mirror.
THEOREM InvHolds == Spec => []Inv
BY InitHolds, StepHolds, PTL DEF Spec

\* Every variable keeps its type, and never more bookkeeping is freed than was
\* allocated, for every geometry, set of frames and set of calls.
THEOREM UatTypeOK == Spec => []TypeOK
<1>1. Inv => TypeOK
  BY DEF Inv
<1> QED  BY <1>1, InvHolds, PTL

----------------------------------------------------------------------------
\* What the tree gives.

\* The frames the hardware reaches from a context are of the tree and its own.
LEMMA ReachedOwned ==
    ASSUME Inv, NEW c \in Contexts,
           NEW lvl \in [Frames -> 0..3], NEW own \in [Frames -> Contexts],
           Levelled(lvl, own), Mirrored(lvl)
    PROVE  \A f \in Reached(c) : f \in Frames /\ lvl[f] # 0 /\ own[f] = c
<1>1. \A f \in Roots(c) : f \in Frames /\ lvl[f] = 1 /\ own[f] = c
  BY DEF Roots, Inv, TypeOK, Levelled, Halves
\* One level down.
<1>2. ASSUME NEW S, NEW k \in {1, 2},
             \A f \in S : f \in Frames /\ lvl[f] = k /\ own[f] = c
      PROVE  \A f \in Entries(S) : f \in Frames /\ lvl[f] = k + 1 /\ own[f] = c
  <2> SUFFICES ASSUME NEW f \in Entries(S)
               PROVE  f \in Frames /\ lvl[f] = k + 1 /\ own[f] = c
    OBVIOUS
  <2>1. PICK n \in S, i \in Indices : f = table[n][i] /\ f # None
    BY DEF Entries
  <2>2. n \in Frames /\ lvl[n] = k /\ own[n] = c
    BY <1>2
  <2>3. f = children[n][i]
    BY <1>2, <2>1, <2>2 DEF Mirrored
  <2> QED  BY <2>1, <2>2, <2>3 DEF Levelled, Inv, TypeOK
<1>3. \A f \in Entries(Roots(c)) : f \in Frames /\ lvl[f] = 2 /\ own[f] = c
  BY <1>1, <1>2
<1>4. \A f \in Entries(Entries(Roots(c))) : f \in Frames /\ lvl[f] = 3 /\ own[f] = c
  BY <1>2, <1>3
<1> QED  BY <1>1, <1>3, <1>4 DEF Reached

\* A GPU that walks the tables of a context that is not being freed meets only
\* allocated tables, and none of another context, while agx_uat_map_page
\* builds and agx_uat_free_context takes down whatever else.
THEOREM UatWalkLive == Spec => []WalkLive
<1>1. ASSUME Inv PROVE WalkLive
  <2> SUFFICES ASSUME NEW c \in Contexts, ~Freeing(c)
               PROVE  /\ Reached(c) \subseteq tables
                      /\ \A d \in Contexts \ {c} : Reached(c) \cap Reached(d) = {}
    BY DEF WalkLive
  <2>1. PICK lvl \in [Frames -> 0..3], own \in [Frames -> Contexts] :
          Levelled(lvl, own) /\ Mirrored(lvl) /\ Allocated(lvl)
    BY <1>1 DEF Inv, Tree
  <2>2. \A d \in Contexts : \A f \in Reached(d) : f \in Frames /\ lvl[f] # 0 /\ own[f] = d
    BY <1>1, <2>1, ReachedOwned
  <2>3. \A f \in Reached(c) : f \notin Gone
    <3>1. CASE pc = "clear"
      <4>1. req.ctx \in Contexts /\ req.ctx # c /\ half \in Halves
        BY <1>1, <3>1 DEF Freeing, Inv, TypeOK, CallUnderWay, Halves
      <4>2. l1[req.ctx][half] \in Frames => own[l1[req.ctx][half]] = req.ctx
        BY <2>1, <4>1, FramesAssumption DEF Levelled
      <4> QED  BY <3>1, <2>2, <4>1, <4>2 DEF Gone
    <3> QED  BY <3>1 DEF Gone
  <2>4. Reached(c) \subseteq tables
    BY <2>1, <2>2, <2>3 DEF Allocated
  <2> QED  BY <2>2, <2>4
<1> QED  BY <1>1, InvHolds, PTL

\* Between calls every table and every bookkeeping allocation is in the tree,
\* where agx_uat_free_context finds it, whichever allocations failed before.
THEOREM UatNothingLost == Spec => []NothingLost
<1>1. ASSUME Inv PROVE NothingLost
  <2> SUFFICES ASSUME pc = "idle"
               PROVE  /\ tables = UNION {Subtree(l1[c][s]) : c \in Contexts, s \in {0, 1}}
                      /\ books = 2 * Cardinality(tables)
    BY DEF NothingLost
  <2>1. PICK lvl \in [Frames -> 0..3], own \in [Frames -> Contexts] :
          Levelled(lvl, own) /\ Rooted(lvl) /\ Allocated(lvl)
    BY <1>1 DEF Inv, Tree
  <2>2. tables = {f \in Frames : lvl[f] # 0}
    BY <1>1, <2>1 DEF Allocated, Gone, Fresh, Inv, CallUnderWay
  <2>3. \A c \in Contexts, s \in Halves : Subtree(l1[c][s]) \subseteq tables
    BY <1>1, <2>1, <2>2, SubtreeClosed DEF Inv
  <2>4. \A f \in tables : \E c \in Contexts, s \in Halves : f \in Subtree(l1[c][s])
    <3>1. ASSUME NEW f \in Frames, lvl[f] = 1
          PROVE  \E c \in Contexts, s \in Halves : f \in Subtree(l1[c][s])
      <4>1. PICK c \in Contexts, s \in Halves : l1[c][s] = f
        BY <2>1, <3>1 DEF Rooted
      <4> QED  BY <4>1, <1>1, <2>1, SubtreeClosed, FramesAssumption DEF Inv
    \* A node of the tree is in the subtree its parent is in.
    <3>2. ASSUME NEW f \in Frames, NEW k \in {1, 2}, lvl[f] = k + 1,
                 \A n \in Frames : lvl[n] = k =>
                     \E c \in Contexts, s \in Halves : n \in Subtree(l1[c][s])
          PROVE  \E c \in Contexts, s \in Halves : f \in Subtree(l1[c][s])
      <4>1. PICK n \in Frames, i \in Indices : children[n][i] = f
        BY <2>1, <3>2 DEF Rooted
      <4>2. lvl[n] = k
        BY <2>1, <3>2, <4>1, FramesAssumption DEF Levelled
      <4>3. PICK c \in Contexts, s \in Halves : n \in Subtree(l1[c][s])
        BY <3>2, <4>2
      <4>4. f \in Subtree(l1[c][s])
        BY <1>1, <2>1, <4>1, <4>3, SubtreeClosed, FramesAssumption DEF Inv
      <4> QED  BY <4>4
    <3>3. \A n \in Frames : lvl[n] = 2 =>
            \E c \in Contexts, s \in Halves : n \in Subtree(l1[c][s])
      BY <3>1, <3>2
    <3>4. \A n \in Frames : lvl[n] = 3 =>
            \E c \in Contexts, s \in Halves : n \in Subtree(l1[c][s])
      BY <3>2, <3>3
    <3> QED  BY <2>2, <3>1, <3>3, <3>4
  <2>5. books = 2 * Cardinality(tables)
    BY <1>1 DEF Inv, Counted
  <2> QED  BY <2>3, <2>4, <2>5 DEF Halves
<1> QED  BY <1>1, InvHolds, PTL

----------------------------------------------------------------------------
\* The parts of an address determine its page.

\* Multiplication is monotone.
LEMMA MulMono ==
    ASSUME NEW a \in Nat, NEW b \in Nat, NEW c \in Nat, b <= c
    PROVE  a * b <= a * c
OBVIOUS

\* A quotient with a remainder below the divisor is the quotient.
LEMMA DivUnique ==
    ASSUME NEW x \in Nat, NEW d \in Nat \ {0}, NEW q \in Nat, NEW r \in Nat,
           r < d, x = d * q + r
    PROVE  q = x \div d /\ r = x % d
OBVIOUS

\* Dividing by a product is dividing twice.
LEMMA DivDiv ==
    ASSUME NEW x \in Nat, NEW a \in Nat \ {0}, NEW b \in Nat \ {0}
    PROVE  x \div (a * b) = (x \div a) \div b
<1> DEFINE q == x \div a  r == x % a  q2 == q \div b  r2 == q % b
<1>1. q \in Nat /\ r \in Nat /\ r < a /\ x = a * q + r
  BY DivMod
<1>2. q2 \in Nat /\ r2 \in Nat /\ r2 < b /\ q = b * q2 + r2
  BY <1>1, DivMod
<1> HIDE DEF q, r, q2, r2
<1>3. a * b \in Nat \ {0}
  OBVIOUS
<1>4. a * q = a * (b * q2) + a * r2
  BY <1>1, <1>2
<1>5. x = (a * b) * q2 + (a * r2 + r)
  BY <1>1, <1>2, <1>4
<1>6. a * (r2 + 1) <= a * b
  BY <1>2, MulMono
<1>7. a * r2 + r \in Nat /\ a * r2 + r < a * b
  BY <1>1, <1>2, <1>6
<1>8. q2 = x \div (a * b)
  BY <1>3, <1>5, <1>7, <1>2, DivUnique
<1> QED  BY <1>8 DEF q2, q

\* Two numbers with the same quotient and remainder are equal.
LEMMA SameParts ==
    ASSUME NEW x \in Nat, NEW y \in Nat, NEW d \in Nat \ {0},
           x \div d = y \div d, x % d = y % d
    PROVE  x = y
BY DivMod

\* The indices of an address as the digits of its page number.
LEMMA Digits ==
    ASSUME NEW va \in Nat, va < VA_LIMIT
    PROVE  LET q == va \div PAGE_SIZE
               q2 == q \div L3_COUNT
               q1 == q2 \div L2_COUNT
           IN  /\ q \in Nat /\ q2 \in Nat /\ q1 \in Nat /\ q1 \div L1_COUNT \in Nat
               /\ L3Index(va) = q % L3_COUNT /\ L2Index(va) = q2 % L2_COUNT
               /\ L1Index(va) = q1 % L1_COUNT /\ TtbrSelect(va) = q1 \div L1_COUNT
<1> DEFINE q == va \div PAGE_SIZE
           q2 == q \div L3_COUNT
           q1 == q2 \div L2_COUNT
           q0 == q1 \div L1_COUNT
<1>1. q \in Nat
  BY DivMod, GeometryAssumption
<1>2. q2 \in Nat /\ va \div L2_SPAN = q2
  BY <1>1, DivDiv, DivMod, GeometryAssumption DEF L2_SPAN
<1>3. q1 \in Nat /\ va \div L1_SPAN = q1
  <2>1. va \div (L2_SPAN * L2_COUNT) = (va \div L2_SPAN) \div L2_COUNT
    BY Spans, DivDiv, GeometryAssumption
  <2> HIDE DEF q2
  <2> QED  BY <1>2, <2>1, DivMod, GeometryAssumption DEF L1_SPAN
<1>4. q0 \in Nat /\ va \div HALF_SPAN = q0
  <2>1. va \div (L1_SPAN * L1_COUNT) = (va \div L1_SPAN) \div L1_COUNT
    BY Spans, DivDiv, GeometryAssumption
  <2> HIDE DEF q1
  <2> QED  BY <1>3, <2>1, DivMod, GeometryAssumption DEF HALF_SPAN
<1> HIDE DEF q, q2, q1, q0
<1>5. q0 < 2
  <2>1. va = HALF_SPAN * q0 + (va % HALF_SPAN) /\ va % HALF_SPAN \in Nat
    BY <1>4, Spans, DivMod
  <2>2. ASSUME 2 <= q0 PROVE FALSE
    BY <1>4, <2>1, <2>2, Spans, MulMono DEF VA_LIMIT
  <2> QED  BY <1>4, <2>2
<1>6. TtbrSelect(va) = q0
  BY <1>4, <1>5 DEF TtbrSelect
<1> QED  BY <1>1, <1>2, <1>3, <1>4, <1>6 DEF q, q2, q1, q0, L3Index, L2Index, L1Index

\* The first address of a page, and the page of an address.
LEMMA PageBounds ==
    /\ \A p \in Pages : /\ p \in Nat /\ p * PAGE_SIZE \in Nat /\ p * PAGE_SIZE < VA_LIMIT
                        /\ (p * PAGE_SIZE) \div PAGE_SIZE = p
    /\ \A va \in Nat : va < VA_LIMIT => va \div PAGE_SIZE \in Pages
<1> DEFINE K == 2 * ((L3_COUNT * L2_COUNT) * L1_COUNT)
<1>1. K \in Nat \ {0} /\ VA_LIMIT = PAGE_SIZE * K
  <2>1. L3_COUNT * L2_COUNT \in Nat \ {0}
    BY GeometryAssumption
  <2>2. (L3_COUNT * L2_COUNT) * L1_COUNT \in Nat \ {0}
    BY <2>1, GeometryAssumption
  <2>3. L1_SPAN = PAGE_SIZE * (L3_COUNT * L2_COUNT)
    BY GeometryAssumption DEF L1_SPAN, L2_SPAN
  <2>4. HALF_SPAN = PAGE_SIZE * ((L3_COUNT * L2_COUNT) * L1_COUNT)
    BY <2>1, <2>3, GeometryAssumption DEF HALF_SPAN
  <2>5. VA_LIMIT = PAGE_SIZE * K
    BY <2>2, <2>4, GeometryAssumption DEF VA_LIMIT
  <2> QED  BY <2>2, <2>5
<1> HIDE DEF K
<1>2. VA_LIMIT \div PAGE_SIZE = K
  BY <1>1, DivUnique, GeometryAssumption
<1>3. ASSUME NEW p \in Pages
      PROVE  /\ p \in Nat /\ p * PAGE_SIZE \in Nat /\ p * PAGE_SIZE < VA_LIMIT
             /\ (p * PAGE_SIZE) \div PAGE_SIZE = p
  <2>1. p \in Nat /\ p + 1 <= K
    BY <1>1, <1>2 DEF Pages
  <2>2. PAGE_SIZE * (p + 1) <= PAGE_SIZE * K
    BY <1>1, <2>1, MulMono, GeometryAssumption
  <2>3. p * PAGE_SIZE \in Nat /\ p * PAGE_SIZE = PAGE_SIZE * p + 0
    BY <2>1, GeometryAssumption
  <2>4. (p * PAGE_SIZE) \div PAGE_SIZE = p
    BY <2>1, <2>3, DivUnique, GeometryAssumption
  <2>5. p * PAGE_SIZE < VA_LIMIT
    BY <1>1, <2>1, <2>2, <2>3, GeometryAssumption
  <2> QED  BY <2>1, <2>3, <2>4, <2>5
<1>4. ASSUME NEW va \in Nat, va < VA_LIMIT
      PROVE  va \div PAGE_SIZE \in Pages
  <2>1. va \div PAGE_SIZE \in Nat /\ PAGE_SIZE * (va \div PAGE_SIZE) <= va
    BY DivMod, GeometryAssumption
  <2>2. ASSUME K <= va \div PAGE_SIZE PROVE FALSE
    <3>1. PAGE_SIZE * K <= PAGE_SIZE * (va \div PAGE_SIZE)
      BY <1>1, <2>1, <2>2, MulMono, GeometryAssumption
    <3> QED  BY <1>1, <1>4, <2>1, <3>1, GeometryAssumption
  <2> QED  BY <1>1, <1>2, <2>1, <2>2 DEF Pages
<1> QED  BY <1>3, <1>4

\* Two addresses have the same indices exactly when they are of one page.
LEMMA SamePage ==
    ASSUME NEW p \in Pages, NEW va \in Nat, va < VA_LIMIT
    PROVE  (/\ TtbrSelect(p * PAGE_SIZE) = TtbrSelect(va)
            /\ L1Index(p * PAGE_SIZE) = L1Index(va)
            /\ L2Index(p * PAGE_SIZE) = L2Index(va)
            /\ L3Index(p * PAGE_SIZE) = L3Index(va)) <=> p = va \div PAGE_SIZE
<1> DEFINE q == va \div PAGE_SIZE
           q2 == q \div L3_COUNT
           q1 == q2 \div L2_COUNT
           p2 == p \div L3_COUNT
           p1 == p2 \div L2_COUNT
<1>1. /\ q \in Nat /\ q2 \in Nat /\ q1 \in Nat
      /\ L3Index(va) = q % L3_COUNT /\ L2Index(va) = q2 % L2_COUNT
      /\ L1Index(va) = q1 % L1_COUNT /\ TtbrSelect(va) = q1 \div L1_COUNT
  BY Digits
<1>2. p \in Nat /\ p * PAGE_SIZE \in Nat /\ p * PAGE_SIZE < VA_LIMIT
      /\ (p * PAGE_SIZE) \div PAGE_SIZE = p
  BY PageBounds
<1>3. /\ p2 \in Nat /\ p1 \in Nat
      /\ L3Index(p * PAGE_SIZE) = p % L3_COUNT /\ L2Index(p * PAGE_SIZE) = p2 % L2_COUNT
      /\ L1Index(p * PAGE_SIZE) = p1 % L1_COUNT
      /\ TtbrSelect(p * PAGE_SIZE) = p1 \div L1_COUNT
  BY <1>2, Digits
<1>4. ASSUME /\ p % L3_COUNT = q % L3_COUNT /\ p2 % L2_COUNT = q2 % L2_COUNT
             /\ p1 % L1_COUNT = q1 % L1_COUNT /\ p1 \div L1_COUNT = q1 \div L1_COUNT
      PROVE  p = q
  <2> HIDE DEF q
  <2>1. p1 = q1
    <3> HIDE DEF p1, q1
    <3> QED  BY <1>1, <1>3, <1>4, SameParts, GeometryAssumption
  <2>2. p2 = q2
    <3> HIDE DEF p2, q2
    <3> QED  BY <1>1, <1>3, <1>4, <2>1, SameParts, GeometryAssumption
  <2> QED  BY <1>1, <1>2, <1>4, <2>2, SameParts, GeometryAssumption
<1>5. ASSUME p = q
      PROVE  /\ p % L3_COUNT = q % L3_COUNT /\ p2 % L2_COUNT = q2 % L2_COUNT
             /\ p1 % L1_COUNT = q1 % L1_COUNT /\ p1 \div L1_COUNT = q1 \div L1_COUNT
  BY <1>5
<1> HIDE DEF q, q2, q1, p2, p1
<1>6. p = q <=> p = va \div PAGE_SIZE
  BY DEF q
<1> QED  BY <1>1, <1>3, <1>4, <1>5, <1>6

\* The half of the map a page is in is the one its address selects.
LEMMA HalfSelected ==
    ASSUME NEW p \in Pages, NEW s \in Halves
    PROVE  p \in Abs!Half(s) <=> TtbrSelect(p * PAGE_SIZE) = s
<1>1. p \in Nat /\ p * PAGE_SIZE \in Nat /\ p * PAGE_SIZE < VA_LIMIT
  BY PageBounds
<1>2. p * PAGE_SIZE < HALF_SPAN <=> 2 * PAGE_SIZE * p < VA_LIMIT
  BY <1>1, Spans, GeometryAssumption DEF VA_LIMIT
<1>3. PICK x \in Nat : x = p * PAGE_SIZE
  BY <1>1
<1>4. TtbrSelect(x) = IF x < HALF_SPAN THEN 0 ELSE 1
  <2>1. CASE x < HALF_SPAN
    <3>1. x \div HALF_SPAN = 0
      BY <2>1, Spans, DivUnique
    <3> QED  BY <2>1, <3>1 DEF TtbrSelect
  <2>2. CASE ~(x < HALF_SPAN)
    <3>1. x - HALF_SPAN \in Nat /\ x - HALF_SPAN < HALF_SPAN
      BY <1>1, <1>3, <2>2, Spans DEF VA_LIMIT
    <3>2. x = HALF_SPAN * 1 + (x - HALF_SPAN)
      BY Spans
    <3>3. x \div HALF_SPAN = 1
      BY <3>1, <3>2, Spans, DivUnique
    <3> QED  BY <2>2, <3>3 DEF TtbrSelect
  <2> QED  BY <2>1, <2>2
<1>5. p \in Abs!Half(s) <=> (2 * PAGE_SIZE * p < VA_LIMIT <=> s = 0)
  BY DEF Abs!Half, Abs!Pages, Pages
<1> QED  BY <1>2, <1>3, <1>4, <1>5 DEF Halves

----------------------------------------------------------------------------
\* The driver's tree shows what the GPU sees.

Path(c, va) == Child(Child(l1[c][TtbrSelect(va)], L1Index(va)), L2Index(va))
View(c, va) ==
    IF Path(c, va) = None THEN None ELSE table[Path(c, va)][L3Index(va)]

\* The nodes on a path.
LEMMA PathNodes ==
    ASSUME TypeOK, NEW c \in Contexts, NEW va \in Nat,
           NEW lvl \in [Frames -> 0..3], NEW own \in [Frames -> Contexts],
           Levelled(lvl, own), Path(c, va) # None
    PROVE  LET r == l1[c][TtbrSelect(va)]
               n == children[r][L1Index(va)]
           IN  /\ r \in Frames /\ lvl[r] = 1
               /\ n \in Frames /\ lvl[n] = 2
               /\ Path(c, va) = children[n][L2Index(va)]
               /\ Path(c, va) \in Frames /\ lvl[Path(c, va)] = 3
<1> DEFINE r == l1[c][TtbrSelect(va)]
           n == children[r][L1Index(va)]
<1>1. /\ TtbrSelect(va) \in Halves /\ L1Index(va) \in Indices /\ L2Index(va) \in Indices
  BY IndexTypes DEF Halves
<1>2. r # None /\ n # None
  BY DEF Path, Child
<1>3. r \in Frames /\ lvl[r] = 1
  BY <1>1, <1>2 DEF TypeOK, Levelled, Halves
<1>4. Path(c, va) = children[n][L2Index(va)]
  BY <1>2 DEF Path, Child
<1> HIDE DEF r
<1>5. n \in Frames /\ lvl[n] = 2
  BY <1>1, <1>2, <1>3 DEF TypeOK, Levelled
<1> HIDE DEF n
<1>6. Path(c, va) \in Frames /\ lvl[Path(c, va)] = 3
  BY <1>1, <1>4, <1>5 DEF TypeOK, Levelled
<1> QED  BY <1>3, <1>4, <1>5, <1>6 DEF r, n

\* Each last-level table has one path.
LEMMA PathInjective ==
    ASSUME Inv, NEW c \in Contexts, NEW d \in Contexts, NEW va \in Nat, NEW vb \in Nat,
           Path(c, va) # None, Path(c, va) = Path(d, vb)
    PROVE  /\ c = d /\ TtbrSelect(va) = TtbrSelect(vb)
           /\ L1Index(va) = L1Index(vb) /\ L2Index(va) = L2Index(vb)
<1>1. PICK lvl \in [Frames -> 0..3], own \in [Frames -> Contexts] : Levelled(lvl, own)
  BY DEF Inv, Tree
<1>2. /\ TtbrSelect(va) \in Halves /\ TtbrSelect(vb) \in Halves
      /\ L1Index(va) \in Indices /\ L2Index(va) \in Indices
      /\ L1Index(vb) \in Indices /\ L2Index(vb) \in Indices
  BY IndexTypes DEF Halves
<1>3. PICK r1 \in Frames, n1 \in Frames :
        /\ r1 = l1[c][TtbrSelect(va)] /\ n1 = children[r1][L1Index(va)]
        /\ Path(c, va) = children[n1][L2Index(va)]
  BY <1>1, PathNodes DEF Inv
<1>4. PICK r2 \in Frames, n2 \in Frames :
        /\ r2 = l1[d][TtbrSelect(vb)] /\ n2 = children[r2][L1Index(vb)]
        /\ Path(d, vb) = children[n2][L2Index(vb)]
  BY <1>1, PathNodes DEF Inv
<1>5. /\ \A n, m \in Frames, i, j \in Indices :
           children[n][i] = children[m][j] /\ children[n][i] # None => n = m /\ i = j
      /\ \A x, y \in Contexts, s, t \in Halves :
           l1[x][s] = l1[y][t] /\ l1[x][s] # None => x = y /\ s = t
  BY DEF Inv, Injective
<1>6. n1 = n2 /\ L2Index(va) = L2Index(vb)
  <2>1. children[n1][L2Index(va)] = children[n2][L2Index(vb)]
        /\ children[n1][L2Index(va)] # None
    BY <1>3, <1>4
  <2> QED  BY <1>2, <1>5, <2>1
<1>7. r1 = r2 /\ L1Index(va) = L1Index(vb)
  <2>1. children[r1][L1Index(va)] = children[r2][L1Index(vb)]
        /\ children[r1][L1Index(va)] # None
    BY <1>3, <1>4, <1>6, FramesAssumption
  <2> QED  BY <1>2, <1>5, <2>1
<1>8. c = d /\ TtbrSelect(va) = TtbrSelect(vb)
  <2>1. l1[c][TtbrSelect(va)] = l1[d][TtbrSelect(vb)] /\ l1[c][TtbrSelect(va)] # None
    BY <1>3, <1>4, <1>7, FramesAssumption
  <2> QED  BY <1>2, <1>5, <2>1
<1> QED  BY <1>6, <1>7, <1>8

\* The GPU and the driver see the same entry, at every moment.
LEMMA TranslateIsView ==
    ASSUME Inv, NEW c \in Contexts, NEW va \in Nat
    PROVE  Translate(c, va) = View(c, va)
<1> DEFINE r == l1[c][TtbrSelect(va)]
           n == Step(r, L1Index(va))
           m == Step(n, L2Index(va))
<1>1. PICK lvl \in [Frames -> 0..3], own \in [Frames -> Contexts] :
        Levelled(lvl, own) /\ Mirrored(lvl) /\ Allocated(lvl)
  BY DEF Inv, Tree
<1>2. /\ TtbrSelect(va) \in Halves /\ L1Index(va) \in Indices /\ L2Index(va) \in Indices
      /\ None \notin tables
  BY IndexTypes, FramesAssumption DEF Halves, Inv, TypeOK
<1>3. r \in Slots /\ (r # None => lvl[r] = 1)
  BY <1>1, <1>2 DEF Inv, TypeOK, Slots, Halves, Levelled
<1>4. Translate(c, va) = Step(m, L3Index(va))
  BY DEF Translate, Inv
<1>5. \A f \in Frames : lvl[f] # 0 /\ f \notin Gone => f \in tables
  BY <1>1 DEF Allocated
<1>6. n = Child(r, L1Index(va))
  <2>1. CASE r = None
    BY <2>1, <1>2 DEF Step, Child
  <2>2. CASE r # None /\ r \notin Gone
    BY <2>2, <1>1, <1>3, <1>5 DEF Step, Child, Mirrored, Slots
  <2>3. CASE r # None /\ r \in Gone
    <3>1. children[r] = Blank
      BY <2>3 DEF Gone, Inv, CallUnderWay
    <3>2. r \notin tables
      <4>1. r \notin Fresh
        BY <2>3 DEF Gone, Fresh, Inv, CallUnderWay
      <4> QED  BY <2>3, <4>1, <1>1 DEF Allocated
    <3> QED  BY <2>3, <1>2, <3>1, <3>2 DEF Step, Child, Blank
  <2> QED  BY <2>1, <2>2, <2>3
\* Only a root can be freed and still be linked.
<1>7. \A f \in Frames : lvl[f] \in {2, 3} => f \in tables
  <2>1. ASSUME NEW f \in Gone, f \in Frames PROVE lvl[f] = 1
    <3>1. pc = "clear" /\ f = l1[req.ctx][half] /\ req.ctx \in Contexts /\ half \in Halves
      BY <2>1 DEF Gone, Inv, TypeOK, CallUnderWay, Halves
    <3> QED  BY <1>1, <2>1, <3>1, FramesAssumption DEF Levelled
  <2> QED  BY <1>5, <2>1
<1>8. n \in Slots /\ (n # None => lvl[n] = 2)
  BY <1>1, <1>2, <1>3, <1>6 DEF Child, Slots, Inv, TypeOK, Levelled
<1>9. m = Child(n, L2Index(va))
  <2> HIDE DEF n
  <2> QED  BY <1>1, <1>2, <1>7, <1>8 DEF Step, Child, Mirrored, Slots
<1>10. m \in Slots /\ (m # None => lvl[m] = 3)
  <2> HIDE DEF n
  <2> QED  BY <1>1, <1>2, <1>8, <1>9 DEF Child, Slots, Inv, TypeOK, Levelled
<1>11. m = Path(c, va)
  BY <1>6, <1>9 DEF Path
<1> HIDE DEF m
<1> QED  BY <1>2, <1>4, <1>7, <1>10, <1>11 DEF View, Step, Slots

\* So the map the GPU sees is the view of its pages.
LEMMA GpuMapIsView ==
    Inv => GpuMap = [c \in Contexts |-> [p \in Pages |-> View(c, p * PAGE_SIZE)]]
<1> SUFFICES ASSUME Inv
             PROVE  GpuMap = [c \in Contexts |-> [p \in Pages |-> View(c, p * PAGE_SIZE)]]
  OBVIOUS
<1>1. \A c \in Contexts, p \in Pages :
        Translate(c, p * PAGE_SIZE) = View(c, p * PAGE_SIZE)
  BY PageBounds, TranslateIsView
<1> QED  BY <1>1 DEF GpuMap

----------------------------------------------------------------------------
\* How the steps change the view.

\* The view depends on the tree and the tables alone.
LEMMA ViewUnchanged ==
    ASSUME UNCHANGED <<l1, children, table>>, NEW c \in Contexts, NEW va \in Nat
    PROVE  View(c, va)' = View(c, va)
BY DEF View, Path, Child

\* A table that is handed out is on no path.
LEMMA NewTableView ==
    ASSUME Inv, NEW f \in Frames, NewTable(f), NEW c \in Contexts, NEW va \in Nat
    PROVE  View(c, va)' = View(c, va)
<1>1. Path(c, va)' = Path(c, va)
  BY DEF NewTable, Path, Child
<1>2. CASE UNCHANGED table
  BY <1>1, <1>2 DEF View
<1>3. CASE f \notin tables /\ table' = [table EXCEPT ![f] = Blank]
  <2>1. PICK lvl \in [Frames -> 0..3], own \in [Frames -> Contexts] :
          Levelled(lvl, own) /\ Allocated(lvl)
    BY DEF Inv, Tree
  <2>2. lvl[f] = 0
    BY <1>3, <2>1 DEF NewTable, Allocated, Gone
  <2>3. Path(c, va) # None => Path(c, va) \in Frames /\ lvl[Path(c, va)] = 3
    BY <2>1, PathNodes DEF Inv
  <2>4. Path(c, va) # None => table'[Path(c, va)] = table[Path(c, va)]
    BY <1>3, <2>2, <2>3 DEF Inv, TypeOK
  <2> QED  BY <1>1, <2>4 DEF View
<1> QED  BY <1>2, <1>3 DEF NewTable

\* A node that is not linked yet is on no path.
LEMMA NewChildrenView ==
    ASSUME Inv, NewChildren, NEW c \in Contexts, NEW va \in Nat
    PROVE  View(c, va)' = View(c, va)
<1>1. PICK lvl \in [Frames -> 0..3], own \in [Frames -> Contexts] :
        Levelled(lvl, own) /\ \A f \in Fresh : lvl[f] = 0
  BY DEF Inv, Tree
<1>2. new \in Frames /\ lvl[new] = 0
  BY <1>1 DEF Inv, TypeOK, CallUnderWay, NewChildren, Fresh
<1>3. children[new] = Blank
  <2>1. children[new] \in [Indices -> Frames \cup {None}]
    BY <1>2 DEF Inv, TypeOK
  <2>2. \A i \in Indices : children[new][i] = None
    BY <1>1, <1>2 DEF Levelled
  <2> QED  BY <2>1, <2>2 DEF Blank
<1>4. children' = children
  BY <1>2, <1>3 DEF NewChildren, Inv, TypeOK
<1> QED  BY <1>4, ViewUnchanged DEF NewChildren

\* A table that is linked is blank: it adds nothing to the map.
LEMMA LinkView ==
    ASSUME Inv, Link, NEW c \in Contexts, NEW va \in Nat
    PROVE  View(c, va)' = View(c, va)
<1>0. pc = "link" /\ new \in Frames /\ new # None
  BY FramesAssumption DEF Link, Inv, TypeOK, CallUnderWay
<1>1. PICK lvl \in [Frames -> 0..3], own \in [Frames -> Contexts] :
        Levelled(lvl, own) /\ lvl[new] = 0
  BY <1>0 DEF Inv, Tree, Fresh
<1>2. /\ req.ctx \in Contexts /\ TtbrSelect(req.iova) \in Halves
      /\ L1Index(req.iova) \in Indices /\ Index \in Indices /\ Root \in Slots
  BY <1>0, MapTypes DEF Building
<1>b. /\ table[new] = Blank /\ children[new] = Blank /\ Slot = None
  BY <1>0 DEF Inv, CallUnderWay, Building
<1>3. PICK s \in Halves, i \in Indices, j \in Indices, k \in Indices :
        s = TtbrSelect(va) /\ i = L1Index(va) /\ j = L2Index(va) /\ k = L3Index(va)
  BY IndexTypes DEF Halves
<1>4. PICK r \in Slots : r = l1[c][s]
  BY DEF Inv, TypeOK, Slots, Halves
<1>5. /\ Path(c, va) = Child(Child(r, i), j)
      /\ View(c, va) = IF Path(c, va) = None THEN None ELSE table[Path(c, va)][k]
      /\ Path(c, va)' = (Child(Child(l1[c][s], i), j))'
      /\ View(c, va)' = IF Path(c, va)' = None THEN None ELSE table'[Path(c, va)'][k]
  BY <1>3, <1>4 DEF Path, View
<1>6. CASE level = 1
  <2>1. /\ l1' = [l1 EXCEPT ![req.ctx][TtbrSelect(req.iova)] = new]
        /\ UNCHANGED <<table, children>> /\ l1[req.ctx][TtbrSelect(req.iova)] = None
    BY <1>6, <1>b DEF Link, Slot
  <2>2. CASE c = req.ctx /\ s = TtbrSelect(req.iova)
    <3>1. r = None /\ l1'[c][s] = new
      BY <2>1, <2>2, <1>2, <1>4 DEF Inv, TypeOK, Halves
    <3>2. Path(c, va) = None /\ Path(c, va)' = None
      BY <1>0, <1>5, <1>b, <2>1, <3>1 DEF Child, Blank
    <3> QED  BY <1>5, <3>2
  <2>3. CASE ~(c = req.ctx /\ s = TtbrSelect(req.iova))
    <3>1. l1'[c][s] = r
      BY <2>1, <2>3, <1>2, <1>4 DEF Inv, TypeOK, Halves
    <3>2. PICK n : n = Child(r, i)
      OBVIOUS
    <3>3. Child(l1[c][s], i)' = n
      BY <2>1, <3>1, <3>2 DEF Child
    <3>4. Path(c, va) = Child(n, j)
      BY <1>5, <3>2
    <3>5. Path(c, va)' = Child(n, j)
      BY <1>5, <2>1, <3>3 DEF Child
    <3> QED  BY <1>5, <2>1, <3>4, <3>5
  <2> QED  BY <2>2, <2>3
<1>7. CASE level # 1
  <2>0. PICK ix \in Indices : ix = Index
    BY <1>2
  <2>1. /\ children' = [children EXCEPT ![node][ix] = new]
        /\ table' = [table EXCEPT ![node][ix] = new]
        /\ UNCHANGED <<l0, l1>> /\ children[node][ix] = None
    BY <1>7, <1>b, <2>0 DEF Link, Slot
  <2>2. node \in Frames /\ level \in {2, 3}
    BY <1>0, <1>7, NodeLevel DEF Building
  <2>3. lvl[node] \in {1, 2}
    <3>1. level = 2 => lvl[node] = 1
      BY <1>0, <1>1, <1>2 DEF Inv, Walked, Building, Root, Levelled
    <3>2. level = 3 => Root \in Frames /\ lvl[Root] = 1
      BY <1>0, <1>1, <1>2 DEF Inv, Walked, Building, Root, Levelled, Slots
    <3>3. level = 3 => lvl[node] = 2
      BY <1>0, <1>1, <1>2, <3>2 DEF Inv, Walked, Building, Levelled
    <3> QED  BY <2>2, <3>1, <3>3
  <2>4. \A n \in Frames, x \in Indices :
          children'[n][x] = IF n = node /\ x = ix THEN new ELSE children[n][x]
    BY <2>1, <2>2 DEF Inv, TypeOK
  <2>5. \A f \in Frames : f # node => table'[f] = table[f]
    BY <2>1, <2>2 DEF Inv, TypeOK
  <2>n. node # new
    BY <1>1, <2>3
  \* The first step of the path.
  <2>6. PICK n \in Slots : n = Child(r, i)
    BY <1>4 DEF Child, Slots, Inv, TypeOK
  <2>7. n # None => lvl[n] = 2 /\ r # None
    BY <1>1, <1>4, <2>6 DEF Child, Levelled, Slots
  <2>8. PICK n1 \in Slots : n1 = Child(r, i)'
    <3>1. Child(r, i)' \in Slots
      <4>1. CASE r = None
        BY <4>1 DEF Child, Slots
      <4>2. CASE r # None
        <5>1. r \in Frames /\ children[r][i] \in Slots
          BY <4>2 DEF Slots, Inv, TypeOK
        <5>2. children'[r][i] \in Slots
          BY <1>0, <2>4, <5>1 DEF Slots
        <5> QED  BY <4>2, <5>2 DEF Child
      <4> QED  BY <4>1, <4>2
    <3> QED  BY <3>1
  <2>9. n1 = n \/ (n1 = new /\ n = None)
    BY <1>4, <2>1, <2>4, <2>6, <2>8 DEF Child, Slots
  <2>10. Path(c, va) = Child(n, j) /\ Path(c, va)' = Child(n1, j)'
    BY <1>4, <1>5, <2>1, <2>6, <2>8 DEF Child
  <2>11. CASE n1 = new /\ n = None
    BY <1>0, <1>5, <1>b, <2>4, <2>10, <2>11, <2>n DEF Child, Blank
  <2>12. CASE n1 = n
    <3>1. CASE n = None
      BY <1>5, <2>10, <2>12, <3>1 DEF Child
    <3>2. CASE n # None /\ ~(n = node /\ j = ix)
      <4>1. n \in Frames
        BY <3>2 DEF Slots
      <4>2. Path(c, va)' = Path(c, va)
        BY <2>4, <2>10, <2>12, <3>2, <4>1 DEF Child
      <4>3. Path(c, va) # None => Path(c, va) \in Frames /\ lvl[Path(c, va)] = 3
        BY <1>1, PathNodes DEF Inv
      <4>4. Path(c, va) # None => Path(c, va) # node
        BY <2>3, <4>3
      <4> QED  BY <1>5, <2>5, <4>2, <4>3, <4>4
    <3>3. CASE n # None /\ n = node /\ j = ix
      <4>1. Path(c, va) = None
        BY <2>1, <2>10, <3>3 DEF Child
      <4>2. Path(c, va)' = new
        BY <2>2, <2>4, <2>10, <2>12, <3>3 DEF Child
      <4>3. table'[new][k] = None
        BY <1>0, <1>b, <2>5, <2>n DEF Blank
      <4> QED  BY <1>0, <1>5, <4>1, <4>2, <4>3
    <3> QED  BY <3>1, <3>2, <3>3
  <2> QED  BY <2>9, <2>11, <2>12
<1> QED  BY <1>6, <1>7

\* Writing a last-level entry changes the map at the page of the call alone.
LEMMA LeafStoreView ==
    ASSUME Inv, req \in Requests, req.ctx \in Contexts, req.iova < VA_LIMIT,
           Found # None, NEW v,
           table' = [table EXCEPT ![Found][L3Index(req.iova)] = v],
           UNCHANGED <<l1, children>>, NEW c \in Contexts, NEW p \in Pages
    PROVE  View(c, p * PAGE_SIZE)' =
             IF c = req.ctx /\ p = req.iova \div PAGE_SIZE THEN v
             ELSE View(c, p * PAGE_SIZE)
<1>1. PICK lvl \in [Frames -> 0..3], own \in [Frames -> Contexts] : Levelled(lvl, own)
  BY DEF Inv, Tree
<1>2. PICK f \in Frames : f = Found
  BY <1>1, FoundLevel DEF Inv
<1>3. PICK va \in Nat : va = p * PAGE_SIZE
  BY PageBounds
<1>4. PICK k \in Indices : k = L3Index(req.iova)
  BY RequestTypes, IndexTypes
<1>5. PICK j \in Indices : j = L3Index(va)
  BY IndexTypes
<1>6. req.iova \in Nat /\ f = Path(req.ctx, req.iova) /\ f # None
  BY <1>2, RequestTypes DEF Found, Path
<1>7. Path(c, va)' = Path(c, va)
  BY DEF Path, Child
<1>8. \A n \in Frames, x \in Indices :
        table'[n][x] = IF n = f /\ x = k THEN v ELSE table[n][x]
  BY <1>2, <1>4 DEF Inv, TypeOK
<1>9. Path(c, va) # None => Path(c, va) \in Frames
  BY <1>1, PathNodes DEF Inv
<1>10. Path(c, va) = f /\ j = k <=> c = req.ctx /\ p = req.iova \div PAGE_SIZE
  <2>1. ASSUME Path(c, va) = f, j = k
        PROVE  c = req.ctx /\ p = req.iova \div PAGE_SIZE
    <3>1. /\ c = req.ctx /\ TtbrSelect(va) = TtbrSelect(req.iova)
          /\ L1Index(va) = L1Index(req.iova) /\ L2Index(va) = L2Index(req.iova)
      BY <1>6, <2>1, PathInjective
    <3> QED  BY <1>3, <1>4, <1>5, <1>6, <2>1, <3>1, SamePage
  <2>2. ASSUME c = req.ctx, p = req.iova \div PAGE_SIZE
        PROVE  Path(c, va) = f /\ j = k
    <3>1. /\ TtbrSelect(va) = TtbrSelect(req.iova)
          /\ L1Index(va) = L1Index(req.iova) /\ L2Index(va) = L2Index(req.iova)
          /\ L3Index(va) = L3Index(req.iova)
      BY <1>3, <1>6, <2>2, SamePage
    <3>2. Path(c, va) = Path(req.ctx, req.iova)
      BY <2>2, <3>1 DEF Path
    <3> QED  BY <1>4, <1>5, <1>6, <3>1, <3>2
  <2> QED  BY <2>1, <2>2
<1>11. View(c, va)' = IF Path(c, va) = None THEN None ELSE table'[Path(c, va)][j]
  BY <1>5, <1>7 DEF View
<1>12. View(c, va) = IF Path(c, va) = None THEN None ELSE table[Path(c, va)][j]
  BY <1>5 DEF View
<1>13. View(c, va)' = IF c = req.ctx /\ p = req.iova \div PAGE_SIZE THEN v
                      ELSE View(c, va)
  <2>1. CASE Path(c, va) = None
    BY <2>1, <1>6, <1>10, <1>11, <1>12
  <2>2. CASE Path(c, va) # None
    <3>1. table'[Path(c, va)][j] =
            IF Path(c, va) = f /\ j = k THEN v ELSE table[Path(c, va)][j]
      BY <1>8, <1>9, <2>2
    <3> QED  BY <2>2, <3>1, <1>10, <1>11, <1>12
  <2> QED  BY <2>1, <2>2
<1> QED  BY <1>3, <1>13

\* Freeing the tables of a half empties it and leaves the rest alone.
LEMMA FreeNodesView ==
    ASSUME Inv, FreeNodes, NEW c \in Contexts, NEW va \in Nat
    PROVE  View(c, va)' =
             IF c = req.ctx /\ TtbrSelect(va) = half THEN None ELSE View(c, va)
<1>0. req.ctx \in Contexts /\ half \in Halves
  BY DEF FreeNodes, Inv, TypeOK, CallUnderWay, Halves
<1>1. PICK lvl \in [Frames -> 0..3], own \in [Frames -> Contexts] : Levelled(lvl, own)
  BY DEF Inv, Tree
<1>2. PICK root \in Slots : root = l1[req.ctx][half]
  BY <1>0 DEF Inv, TypeOK, Slots, Halves
<1>3. PICK gone : gone = Subtree(root)
  OBVIOUS
<1>4. /\ root # None => root \in gone
      /\ \A f \in gone : f = root \/ lvl[f] \in {2, 3}
      /\ \A n \in Frames, i \in Indices : children[n][i] # None =>
            (children[n][i] \in gone <=> n \in gone)
  BY <1>0, <1>1, <1>2, <1>3, SubtreeClosed DEF Inv
<1>5. /\ table' = [f \in Frames |-> IF f \in gone THEN Blank ELSE table[f]]
      /\ children' = [f \in Frames |-> IF f \in gone THEN Blank ELSE children[f]]
      /\ l1' = l1
  BY <1>2, <1>3 DEF FreeNodes
<1>6. PICK s \in Halves, i \in Indices, j \in Indices, k \in Indices :
        s = TtbrSelect(va) /\ i = L1Index(va) /\ j = L2Index(va) /\ k = L3Index(va)
  BY IndexTypes DEF Halves
<1>7. PICK r \in Slots : r = l1[c][s]
  BY DEF Inv, TypeOK, Slots, Halves
<1>8. PICK n : n = Child(r, i)
  OBVIOUS
<1>9. /\ Path(c, va) = Child(n, j)
      /\ View(c, va) = IF Path(c, va) = None THEN None ELSE table[Path(c, va)][k]
      /\ Path(c, va)' = Child(Child(r, i), j)'
      /\ View(c, va)' = IF Path(c, va)' = None THEN None ELSE table'[Path(c, va)'][k]
  BY <1>5, <1>6, <1>7, <1>8 DEF Path, View
<1>10. CASE c = req.ctx /\ s = half
  <2>1. r = None \/ (r \in Frames /\ r \in gone)
    BY <1>2, <1>4, <1>7, <1>10 DEF Slots
  <2>2. Child(r, i)' = None
    BY <1>5, <2>1 DEF Child, Blank
  <2>3. Path(c, va)' = None
    BY <1>9, <2>2 DEF Child
  <2> QED  BY <1>6, <1>9, <1>10, <2>3
<1>11. CASE ~(c = req.ctx /\ s = half)
  <2>1. r # None => r # root
    BY <1>0, <1>2, <1>7, <1>11 DEF Inv, Injective
  <2>2. r # None => r \in Frames /\ lvl[r] = 1
    BY <1>1, <1>7 DEF Levelled, Slots
  <2>3. r # None => r \notin gone
    BY <1>4, <2>1, <2>2
  \* A child of a node that stays, stays.
  <2>k. ASSUME NEW x \in Slots, x # None => x \notin gone, NEW y \in Indices
        PROVE  /\ Child(x, y)' = Child(x, y) /\ Child(x, y) \in Slots
               /\ Child(x, y) # None => Child(x, y) \notin gone
    <3>1. CASE x = None
      BY <3>1 DEF Child, Slots
    <3>2. CASE x # None
      <4>1. x \in Frames /\ x \notin gone
        BY <2>k, <3>2 DEF Slots
      <4>2. Child(x, y) = children[x][y] /\ children[x][y] \in Slots
        BY <3>2, <4>1 DEF Child, Slots, Inv, TypeOK
      <4>3. children'[x] = children[x]
        BY <1>5, <4>1
      <4>4. Child(x, y)' = children[x][y]
        BY <3>2, <4>3 DEF Child
      <4>5. children[x][y] # None => children[x][y] \notin gone
        BY <1>4, <4>1
      <4> QED  BY <4>2, <4>4, <4>5
    <3> QED  BY <3>1, <3>2
  <2>4. Child(r, i)' = n /\ n \in Slots /\ (n # None => n \notin gone)
    BY <1>8, <2>3, <2>k
  <2>5. Path(c, va)' = Child(n, j)'
    BY <1>9, <2>4 DEF Child
  <2>6. Path(c, va)' = Path(c, va)
    BY <1>9, <2>4, <2>5, <2>k
  <2>7. Path(c, va) # None => Path(c, va) \in Frames /\ Path(c, va) \notin gone
    BY <1>9, <2>4, <2>k DEF Slots
  <2> QED  BY <1>5, <1>6, <1>9, <1>11, <2>6, <2>7
<1> QED  BY <1>10, <1>11

\* Unlinking the freed root shows nothing new.
LEMMA FreeClearView ==
    ASSUME Inv, FreeClear, NEW c \in Contexts, NEW va \in Nat
    PROVE  View(c, va)' = View(c, va)
<1>0. pc = "clear" /\ req.ctx \in Contexts /\ half \in Halves
  BY DEF FreeClear, Inv, TypeOK, CallUnderWay, Halves
<1>1. /\ l1' = [l1 EXCEPT ![req.ctx][half] = None] /\ UNCHANGED <<table, children>>
  BY DEF FreeClear
<1>2. PICK s \in Halves, i \in Indices, j \in Indices :
        s = TtbrSelect(va) /\ i = L1Index(va) /\ j = L2Index(va)
  BY IndexTypes DEF Halves
<1>3. PICK r \in Slots : r = l1[c][s]
  BY DEF Inv, TypeOK, Slots, Halves
<1>4. l1'[c][s] = IF c = req.ctx /\ s = half THEN None ELSE r
  BY <1>0, <1>1, <1>3 DEF Inv, TypeOK, Halves
<1>5. PICK n : n = Child(r, i)
  OBVIOUS
<1>6. Child(l1[c][s], i)' = n
  <2>1. CASE c = req.ctx /\ s = half
    <3>1. r # None => children[r] = Blank
      BY <1>0, <1>3, <2>1 DEF Inv, CallUnderWay
    <3>2. n = None
      BY <1>5, <3>1 DEF Child, Blank
    <3> QED  BY <1>4, <2>1, <3>2 DEF Child
  <2>2. CASE ~(c = req.ctx /\ s = half)
    BY <1>1, <1>4, <1>5, <2>2 DEF Child
  <2> QED  BY <2>1, <2>2
<1>7. Path(c, va) = Child(n, j) /\ Path(c, va)' = Child(n, j)'
  BY <1>2, <1>3, <1>5, <1>6 DEF Path, Child
<1>8. Path(c, va)' = Path(c, va)
  BY <1>1, <1>7 DEF Child
<1> QED  BY <1>1, <1>8 DEF View

----------------------------------------------------------------------------
\* The refinement.

\* A step that leaves the view alone leaves the map alone.
LEMMA MapKept ==
    ASSUME Inv, Inv', \A c \in Contexts, va \in Nat : View(c, va)' = View(c, va)
    PROVE  GpuMap' = GpuMap
<1>1. (Inv => GpuMap = [c \in Contexts |-> [p \in Pages |-> View(c, p * PAGE_SIZE)]])'
  BY GpuMapIsView, PTL
<1>2. GpuMap' = [c \in Contexts |-> [p \in Pages |-> View(c, p * PAGE_SIZE)']]
  BY <1>1
<1>3. \A p \in Pages : p * PAGE_SIZE \in Nat
  BY PageBounds
<1> QED  BY <1>2, <1>3, GpuMapIsView

\* The entry a lookup or an unmap reads is the one of the map.
LEMMA LeafIsTarget ==
    ASSUME Inv, req \in Requests, InRange
    PROVE  Leaf = Abs!Target
<1>1. req.ctx \in Contexts /\ req.iova \in Nat /\ req.iova < VA_LIMIT
  BY RequestTypes DEF InRange
<1>2. PICK p \in Pages : p = req.iova \div PAGE_SIZE
  BY <1>1, PageBounds
<1>3. Abs!Target = View(req.ctx, p * PAGE_SIZE)
  BY <1>1, <1>2, GpuMapIsView DEF Abs!Target, Abs!Page
<1>4. /\ TtbrSelect(p * PAGE_SIZE) = TtbrSelect(req.iova)
      /\ L1Index(p * PAGE_SIZE) = L1Index(req.iova)
      /\ L2Index(p * PAGE_SIZE) = L2Index(req.iova)
      /\ L3Index(p * PAGE_SIZE) = L3Index(req.iova)
  BY <1>1, <1>2, SamePage
<1>5. View(req.ctx, p * PAGE_SIZE) = View(req.ctx, req.iova)
  BY <1>4 DEF View, Path
<1>6. View(req.ctx, req.iova) = Leaf
  BY DEF View, Path, Leaf, Found
<1> QED  BY <1>3, <1>5, <1>6

\* A leaf store of Uat is a Set of the map.
LEMMA LeafStoreSets ==
    ASSUME Inv, Inv', req \in Requests, InRange, Found # None, NEW v,
           table' = [table EXCEPT ![Found][L3Index(req.iova)] = v],
           UNCHANGED <<l1, children>>
    PROVE  Abs!Set(v)
<1>0. req.ctx \in Contexts /\ req.iova \in Nat /\ req.iova < VA_LIMIT
  BY RequestTypes DEF InRange
<1>1. (Inv => GpuMap = [c \in Contexts |-> [p \in Pages |-> View(c, p * PAGE_SIZE)]])'
  BY GpuMapIsView, PTL
<1>2. GpuMap' = [c \in Contexts |-> [p \in Pages |-> View(c, p * PAGE_SIZE)']]
  BY <1>1
<1>3. PICK q \in Pages : q = req.iova \div PAGE_SIZE
  BY <1>0, PageBounds
<1>4. \A c \in Contexts, p \in Pages :
        View(c, p * PAGE_SIZE)' =
           IF c = req.ctx /\ p = q THEN v ELSE View(c, p * PAGE_SIZE)
  BY <1>0, <1>3, LeafStoreView
<1>5. GpuMap = [c \in Contexts |-> [p \in Pages |-> View(c, p * PAGE_SIZE)]]
  BY GpuMapIsView
<1>6. GpuMap' = [GpuMap EXCEPT ![req.ctx][q] = v]
  BY <1>0, <1>2, <1>4, <1>5
<1> QED  BY <1>3, <1>6 DEF Abs!Set, Abs!Page

\* No page is mapped at first.
LEMMA InitRefines == Init => Abs!Init
<1> SUFFICES ASSUME Init PROVE Abs!Init
  OBVIOUS
<1>1. Inv
  BY InitHolds
<1>2. \A c \in Contexts, p \in Pages : View(c, p * PAGE_SIZE) = None
  <2> SUFFICES ASSUME NEW c \in Contexts, NEW p \in Pages
               PROVE  View(c, p * PAGE_SIZE) = None
    OBVIOUS
  <2>1. TtbrSelect(p * PAGE_SIZE) \in {0, 1}
    BY PageBounds, IndexTypes
  <2> QED  BY <2>1 DEF Init, View, Path, Child
<1>3. GpuMap = [c \in Contexts |-> [p \in Pages |-> None]]
  BY <1>1, <1>2, GpuMapIsView
<1> QED  BY <1>3 DEF Init, Abs!Init, Abs!Contexts, Abs!Pages, Contexts, Pages

\* A call whose memory runs out fails and changes no page.
LEMMA MapOutOfMemory ==
    ASSUME Inv, pc = "walk" \/ Building, Return("ENOMEM", 0), GpuMap' = GpuMap
    PROVE  Abs!MapFails
<1>1. req \in Requests
  BY MapTypes
<1> QED  BY <1>1, RequestTypes
         DEF Inv, CallUnderWay, Return, InRange, PageOffset,
             Abs!MapFails, Abs!Pending, Abs!Return, Abs!InRange, Abs!Aligned

\* Every step of the tables is a step of the map, or none.
LEMMA StepRefines ==
    ASSUME Inv, Inv', [Next]_vars
    PROVE  [Abs!Next]_(Abs!mapVars)
<1> DEFINE Stutter == UNCHANGED <<GpuMap, req, ret>>
<1>0. Stutter => [Abs!Next]_(Abs!mapVars)
  BY DEF Abs!mapVars
<1>r. pc # "idle" => req \in Requests /\ req # None
  BY DEF Inv, TypeOK, CallUnderWay
<1>k. UNCHANGED treeVars => GpuMap' = GpuMap
  BY ViewUnchanged, MapKept DEF treeVars
<1>1. CASE UNCHANGED vars
  BY <1>0, <1>1, <1>k DEF vars
<1>2. ASSUME NEW r \in Requests, Call(r) PROVE Abs!Next
  BY <1>2, <1>k DEF Call, Inv, CallUnderWay, Abs!Next, Abs!Call
<1>3. CASE MapInvalid
  <2>1. Abs!MapFails
    BY <1>3, <1>k, <1>r DEF MapInvalid, Starting, Return, InRange, PageOffset,
       Abs!MapFails, Abs!Pending, Abs!Return, Abs!InRange, Abs!Aligned
  <2> QED  BY <2>1 DEF Abs!Next
<1>4. CASE MapStart
  BY <1>4, <1>0, <1>k DEF MapStart
<1>5. CASE WalkDown
  BY <1>5, <1>0, <1>k DEF WalkDown
<1>6. CASE NewNode
  <2>1. CASE Return("ENOMEM", 0)
    BY <1>6, <2>1, <1>k, MapOutOfMemory DEF NewNode, Abs!Next
  <2>2. CASE UNCHANGED <<walkVars, req, ret>>
    BY <1>6, <2>2, <1>0, <1>k DEF NewNode
  <2> QED  BY <1>6, <2>1, <2>2 DEF NewNode
<1>7. ASSUME NEW f \in Frames, NewTable(f) PROVE [Abs!Next]_(Abs!mapVars)
  <2>1. GpuMap' = GpuMap
    BY <1>7, NewTableView, MapKept
  <2>2. CASE Return("ENOMEM", 0)
    BY <1>7, <2>1, <2>2, MapOutOfMemory DEF NewTable, Building, Abs!Next
  <2>3. CASE UNCHANGED <<books, walkVars, req, ret>>
    BY <2>1, <2>3, <1>0
  <2> QED  BY <1>7, <2>2, <2>3 DEF NewTable
<1>8. CASE NewChildren
  <2>1. GpuMap' = GpuMap
    BY <1>8, NewChildrenView, MapKept
  <2>2. CASE Return("ENOMEM", 0)
    BY <1>8, <2>1, <2>2, MapOutOfMemory DEF NewChildren, Building, Abs!Next
  <2>3. CASE UNCHANGED <<tables, walkVars, new, req, ret>>
    BY <2>1, <2>3, <1>0
  <2> QED  BY <1>8, <2>2, <2>3 DEF NewChildren
<1>9. CASE Link
  <2>1. GpuMap' = GpuMap
    BY <1>9, LinkView, MapKept
  <2> QED  BY <1>9, <2>1, <1>0 DEF Link
<1>10. CASE MapLeaf
  <2>1. /\ req \in Requests /\ req # None /\ req.phys \in Nat /\ req.phys < PA_LIMIT
        /\ node = Found /\ Found # None
        /\ req.op = "map" /\ InRange
        /\ PageOffset(req.iova) = 0 /\ PageOffset(req.phys) = 0
    BY <1>10, <1>r, MapTypes DEF MapLeaf, Inv, CallUnderWay
  <2>2. Pte(req.phys) = req.phys
    BY <2>1, PteValue
  <2>3. Abs!Set(req.phys)
    BY <1>10, <2>1, <2>2, LeafStoreSets DEF MapLeaf
  <2>4. Abs!Map
    BY <1>10, <2>1, <2>3 DEF MapLeaf, Return, InRange, PageOffset,
       Abs!Map, Abs!Pending, Abs!Return, Abs!InRange, Abs!Aligned
  <2> QED  BY <2>4 DEF Abs!Next
<1>11. CASE Lookup
  <2>1. InRange => Leaf = Abs!Target
    BY <1>11, <1>r, LeafIsTarget DEF Lookup, Starting
  <2>2. Abs!InRange(req) <=> InRange
    BY DEF InRange, Abs!InRange
  <2>3. Abs!Lookup
    BY <1>11, <1>k, <1>r, <2>1, <2>2
       DEF Lookup, Starting, Return, Abs!Lookup, Abs!Pending, Abs!Return
  <2> QED  BY <2>3 DEF Abs!Next
<1>12. CASE UnmapFails
  <2>1. InRange => Leaf = Abs!Target
    BY <1>12, <1>r, LeafIsTarget DEF UnmapFails, Starting
  <2>2. Abs!InRange(req) <=> InRange
    BY DEF InRange, Abs!InRange
  <2>3. Abs!UnmapFails
    BY <1>12, <1>k, <1>r, <2>1, <2>2
       DEF UnmapFails, Starting, Return, Abs!UnmapFails, Abs!Pending, Abs!Return
  <2> QED  BY <2>3 DEF Abs!Next
<1>13. CASE Unmap
  <2>1. req \in Requests /\ req # None /\ InRange /\ Found # None
    BY <1>13, <1>r DEF Unmap, Starting, Leaf
  <2>2. Leaf = Abs!Target
    BY <2>1, LeafIsTarget
  <2>3. Abs!InRange(req)
    BY <2>1 DEF InRange, Abs!InRange
  <2>4. Abs!Set(None)
    BY <1>13, <2>1, LeafStoreSets DEF Unmap
  <2>5. Abs!Unmap
    BY <1>13, <2>1, <2>2, <2>3, <2>4
       DEF Unmap, Starting, Return, Abs!Unmap, Abs!Pending, Abs!Return
  <2> QED  BY <2>5 DEF Abs!Next
<1>14. CASE FreeStart
  <2>1. CASE req.ctx < CONTEXT_COUNT
    BY <1>14, <2>1, <1>0, <1>k DEF FreeStart
  <2>2. CASE ~(req.ctx < CONTEXT_COUNT)
    <3>1. Abs!FreeDone
      BY <1>14, <2>2, <1>k, <1>r
         DEF FreeStart, Starting, Return, Abs!FreeDone, Abs!Pending, Abs!Return
    <3> QED  BY <3>1 DEF Abs!Next
  <2> QED  BY <2>1, <2>2
<1>15. CASE FreeNodes
  <2>1. /\ req \in Requests /\ req # None /\ req.op = "free" /\ req.ctx \in Contexts
        /\ half \in Halves /\ req.ctx < CONTEXT_COUNT
    BY <1>15, <1>r, GeometryAssumption
       DEF FreeNodes, Inv, TypeOK, CallUnderWay, Contexts, Halves
  <2>2. (Inv => GpuMap = [c \in Contexts |-> [p \in Pages |-> View(c, p * PAGE_SIZE)]])'
    BY GpuMapIsView, PTL
  <2>3. GpuMap' = [c \in Contexts |-> [p \in Pages |-> View(c, p * PAGE_SIZE)']]
    BY <2>2
  <2>4. \A c \in Contexts, p \in Pages :
          View(c, p * PAGE_SIZE)' =
            IF c = req.ctx /\ p \in Abs!Half(half) THEN None ELSE View(c, p * PAGE_SIZE)
    BY <1>15, <2>1, FreeNodesView, HalfSelected, PageBounds
  <2>5. GpuMap = [c \in Contexts |-> [p \in Pages |-> View(c, p * PAGE_SIZE)]]
    BY GpuMapIsView
  <2>6. GpuMap' = [GpuMap EXCEPT ![req.ctx] =
                     [p \in Pages |-> IF p \in Abs!Half(half) THEN None ELSE @[p]]]
    BY <2>1, <2>3, <2>4, <2>5
  <2>7. Abs!FreeHalf(half)
    BY <1>15, <2>1, <2>6 DEF FreeNodes, Abs!FreeHalf, Abs!Pending, Abs!Pages, Pages
  <2> QED  BY <2>1, <2>7 DEF Abs!Next, Halves
<1>16. CASE FreeClear
  <2>1. GpuMap' = GpuMap
    BY <1>16, FreeClearView, MapKept
  <2>2. CASE half = 0
    BY <1>16, <2>1, <2>2, <1>0 DEF FreeClear
  <2>3. CASE half # 0
    <3>1. /\ req \in Requests /\ req # None /\ req.op = "free" /\ req.ctx \in Contexts
          /\ half = 1 /\ pc = "clear" /\ l1[req.ctx][0] = None
          /\ l1[req.ctx][1] # None => children[l1[req.ctx][1]] = Blank
      BY <1>16, <2>3, <1>r DEF FreeClear, Inv, TypeOK, CallUnderWay
    <3>2. \A p \in Pages : View(req.ctx, p * PAGE_SIZE) = None
      <4> SUFFICES ASSUME NEW p \in Pages PROVE View(req.ctx, p * PAGE_SIZE) = None
        OBVIOUS
      <4>1. TtbrSelect(p * PAGE_SIZE) \in {0, 1} /\ L1Index(p * PAGE_SIZE) \in Indices
        BY PageBounds, IndexTypes
      <4>2. Child(l1[req.ctx][TtbrSelect(p * PAGE_SIZE)], L1Index(p * PAGE_SIZE)) = None
        BY <3>1, <4>1 DEF Child, Blank
      <4> QED  BY <4>2 DEF View, Path, Child
    <3>3. \A p \in Pages : GpuMap[req.ctx][p] = None
      BY <3>1, <3>2, GpuMapIsView
    <3>4. Abs!FreeDone
      BY <1>16, <2>1, <2>3, <3>1, <3>3
         DEF FreeClear, Return, Abs!FreeDone, Abs!Pending, Abs!Return, Abs!Pages, Pages
    <3> QED  BY <3>4 DEF Abs!Next
  <2> QED  BY <2>2, <2>3
<1> HIDE DEF Stutter
<1> QED
  BY <1>1, <1>2, <1>3, <1>4, <1>5, <1>6, <1>7, <1>8, <1>9, <1>10, <1>11, <1>12, <1>13,
     <1>14, <1>15, <1>16
  DEF Next

\* The tables implement the reference map (uat_test.cpp:356), for every
\* geometry, every set of frames and every set of calls: at every moment the
\* GPU's view of every page is that of the map, no call touches another page,
\* a failed call touches none, and what a call returns is true of the map.
THEOREM UatImplementsMap == Spec => ImplementsMap
<1>1. Init => Abs!Init
  BY InitRefines
<1>2. Inv /\ Inv' /\ [Next]_vars => [Abs!Next]_(Abs!mapVars)
  BY StepRefines
<1> QED  BY <1>1, <1>2, InvHolds, PTL DEF Spec, ImplementsMap, Abs!Spec
=============================================================================
