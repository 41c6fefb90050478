---------------------------- MODULE MCWrongAnswers ----------------------------
(* An instance for TLC of the two counts of wrong answers, that of the        *)
(* password and that of the second factor, side by side: they share nothing.  *)
EXTENDS AccountLockout, MfaBudget, TLC

CONSTANTS l1, v1, v2, v3

MCLadder == (2 :> 1) @@ (4 :> 2)

CountsSpec ==
    /\ LockoutInit /\ BudgetInit
    /\ [][ \/ LockoutNext /\ UNCHANGED budget
           \/ BudgetNext /\ UNCHANGED lockoutVars ]_<<lockoutVars, budget>>

\* TLC looks at either count with the other one untouched.
OneCount ==
    \/ row = NoRow /\ failures = 0 /\ \A r \in Logins : pc[r] = "idle"
    \/ carry = Clean /\ counted = Uncounted /\ \A v \in Visits : visit[v] = Away

Interchangeable == Permutations(Visits)
=============================================================================
