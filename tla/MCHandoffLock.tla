--------------------------- MODULE MCHandoffLock ---------------------------
(***************************************************************************)
(* Model checking of HandoffLock: one kernel thread against one firmware,  *)
(* with the spin bound the configuration gives.                            *)
(***************************************************************************)
EXTENDS HandoffLock
============================================================================
