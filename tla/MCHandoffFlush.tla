-------------------------- MODULE MCHandoffFlush ---------------------------
(***************************************************************************)
(* Model checking of HandoffFlush, with HandoffLock inside: two flushes    *)
(* that differ in every field and an unmap whose base is too wide for its  *)
(* address, on a page that holds something in every field.                 *)
(***************************************************************************)
EXTENDS HandoffFlush

Request(kind, base, size) == [kind |-> kind, base |-> base, size |-> size]
ThreeRequests == {Request("flush", 1, 1), Request("flush", 6, 2), Request("unmap", 6, 2)}
NoRequests == {}

Old == {[f \in SlotLoc |-> CASE f = "state" -> DONE [] f = "addr" -> 9 [] f = "size" -> 1]}
============================================================================
