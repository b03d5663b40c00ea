----------------------------- MODULE MCMailbox -----------------------------
(***************************************************************************)
(* Model checking of Mailbox: three threads (a boot, a handler and a GPU   *)
(* caller), queues that fill up, and messages that differ in both words.   *)
(***************************************************************************)
EXTENDS Mailbox

TwoMsgs == {Msg(0, 1), Msg(33, 2)}
============================================================================
