---------------------------- MODULE LockoutPolicy ----------------------------
(***************************************************************************)
(* What the lockout ladder promises for one account, with no requests and  *)
(* no database rows in it: failures since the last success are counted one *)
(* by one, the failure that reaches a rung locks the account for at most   *)
(* that rung's duration, nothing but time ends a lock, and while it lasts  *)
(* neither a failure nor a success is possible.                            *)
(***************************************************************************)
EXTENDS Integers

CONSTANT Ladder     \* failures since the last success |-> duration of the lock

VARIABLES
    fails,      \* failures since the last success
    lock        \* ticks until the lock ends; NULL when there is none

NULL == -1

PolicyInit == fails = 0 /\ lock = NULL

Fail ==
    /\ lock = NULL
    /\ fails' = fails + 1
    /\ lock' \in IF fails' \in DOMAIN Ladder THEN 0 .. Ladder[fails'] ELSE {NULL}

Succeed ==
    /\ lock = NULL
    /\ fails' = 0
    /\ UNCHANGED lock

Unlock ==
    /\ lock = 0
    /\ lock' = NULL
    /\ UNCHANGED fails

Pass ==
    /\ lock > 0
    /\ lock' = lock - 1
    /\ UNCHANGED fails

PolicyNext == Fail \/ Succeed \/ Unlock \/ Pass

PolicySpec == PolicyInit /\ [][PolicyNext]_<<fails, lock>>
=============================================================================
