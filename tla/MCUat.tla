------------------------------- MODULE MCUat -------------------------------
(***************************************************************************)
(* Model checking of Uat with tables of two entries.                       *)
(***************************************************************************)
EXTENDS Uat, TLC

Req(op, c, va, pa) == [op |-> op, ctx |-> c, iova |-> va, phys |-> pa]

\* Two pages of one L3 table, one that shares only the L2 table, one that
\* shares only the root, and one of the other half.
MCIovas == {0, 2, 4, 8, 16}

\* Both contexts, and calls that are refused: a context and an address beyond
\* the limit, and addresses inside a page.
MCRequests ==
    {Req("map", 0, va, 2) : va \in MCIovas} \cup
    {Req("map", 0, 0, 0), Req("map", 1, 0, 4), Req("map", 2, 0, 0),
     Req("map", 0, 32, 0), Req("map", 0, 1, 0), Req("map", 0, 0, 1)} \cup
    {Req("unmap", 0, va, 0) : va \in {0, 4, 32}} \cup
    {Req("lookup", 0, va, 0) : va \in {0, 3, 16, 32}} \cup
    {Req("free", c, 0, 0) : c \in 0..2}

FrameSymmetry == Permutations(Frames)
============================================================================
