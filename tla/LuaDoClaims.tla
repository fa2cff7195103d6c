---------------------------- MODULE LuaDoClaims ----------------------------
(***************************************************************************)
(* What a comment says of the coroutine library and the code does not do.  *)
(***************************************************************************)
EXTENDS LuaDo

(* lbaselib.c:500: a suspended coroutine that has not yielded is in its      *)
(* initial state; one that has returned is dead.                             *)
ReturnedStep ==
  \A co \in Thread :
    Top = Resume(co) /\ ci[co] = <<>> /\ Len(cstack') < Len(cstack)
      => costatus(MainThread, co)' = "dead"
ReturnedIsDead == [][ReturnedStep]_vars
=============================================================================
