------------------------- MODULE MCRTBuddyDisplay --------------------------
(***************************************************************************)
(* Model checking of RTBuddyDisplay: the messages of MCRTBuddy, and two    *)
(* listeners that can be exchanged for each other.                         *)
(***************************************************************************)
EXTENDS RTBuddyDisplay, MCRTBuddy, TLC

Exchange == Permutations(Listeners)
============================================================================
