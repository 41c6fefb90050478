-------------------------- MODULE MCAccountLockout --------------------------
(* A small instance of AccountLockout: two logins in flight, an unlock, and  *)
(* a ladder of two rungs in place of four, so that both a first lock and a   *)
(* longer second one are reached with few failures.                          *)
EXTENDS AccountLockout, TLC

CONSTANTS l1, l2, a1

MCLadder == (2 :> 1) @@ (4 :> 2)
=============================================================================
