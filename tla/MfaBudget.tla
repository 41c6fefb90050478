------------------------------ MODULE MfaBudget ------------------------------
(***************************************************************************)
(* The budget of wrong answers to an MFA challenge, as requests in flight   *)
(* share it.  A request reads the row of its login session when its         *)
(* dependencies are resolved, decides by what it has read, and commits      *)
(* later the columns that it has changed; what others have committed since  *)
(* is not read again.                                                       *)
(*                                                                         *)
(* One row, which stays: once it is deleted a commit changes nothing.       *)
(* AuthFlow has the pages, the users and the cookies around it.             *)
(***************************************************************************)
EXTENDS Integers, FiniteSets

CONSTANTS
    Visits,      \* the requests in flight, to /login and to the challenge pages
    MaxAttempts, \* MFA_MAX_ATTEMPTS
    MaxCounted   \* a bound on mfa_attempts_count

ASSUME BudgetAssumption ==
    /\ IsFiniteSet(Visits)
    /\ MaxAttempts \in Nat \ {0}
    /\ MaxCounted \in Nat

VARIABLES
    carry,    \* the columns of the row that carry the challenge
    visit,    \* visit[v]: how far the request v has come, and what it has read
    counted   \* history: counted[n], how many wrong answers were counted on top
              \* of n, since a wipe of the row last took hold

budget == <<carry, visit, counted>>

\* lock: mfa_locked_until is NULL, ahead or past.
Columns == [pending: BOOLEAN, attempts: 0 .. MaxCounted, lock: {"none", "running", "over"}]
Clean == [pending |-> FALSE, attempts |-> 0, lock |-> "none"]
Away == [step |-> "away"]
Visit == [step: {"login", "pend", "challenge"}, read: Columns]
Uncounted == [n \in 0 .. MaxCounted |-> 0]

BudgetTypeOK ==
    /\ carry \in Columns
    /\ visit \in [Visits -> Visit \cup {Away}]
    /\ counted \in [0 .. MaxCounted -> Nat]

BudgetInit ==
    /\ carry = Clean
    /\ visit = [v \in Visits |-> Away]
    /\ counted = Uncounted

-----------------------------------------------------------------------------
On(v, step) == visit[v].step = step
Has(v) == visit[v].read
Goes(v, step, read) == visit' = [visit EXCEPT ![v] = [step |-> step, read |-> read]]
Ends(v) == visit' = [visit EXCEPT ![v] = Away]

\* BaseRepository.update: the columns that differ from what v has read.
Commits(v, set) ==
    carry' = [c \in DOMAIN carry |-> IF set[c] = Has(v)[c] THEN carry[c] ELSE set[c]]

\* The wipe that /login, a right answer and the self-healing share.
Wipes(v) ==
    /\ Commits(v, Clean)
    /\ counted' = IF Has(v).attempts # 0 \/ Has(v).lock # "none" THEN Uncounted ELSE counted

\* get_optional_login_session.
Reads(v, step) ==
    /\ visit[v] = Away
    /\ Goes(v, step, carry)
    /\ UNCHANGED <<carry, counted>>

-----------------------------------------------------------------------------
\* POST /login with the right password: whatever was carried is wiped.
LoginWipes(v) ==
    /\ On(v, "login")
    /\ Wipes(v)
    /\ Goes(v, "pend", Clean)

\* The user has MFA enabled: a second commit names who is pending.
LoginPends(v) ==
    /\ On(v, "pend")
    /\ Commits(v, [Has(v) EXCEPT !.pending = TRUE])
    /\ Ends(v)
    /\ UNCHANGED counted

\* _gate_mfa_challenge lets v through.
Passes(v) == On(v, "challenge") /\ Has(v).pending /\ Has(v).lock # "running"

\* It sends v back under a lock, and whoever is pending is dropped.
Bounces(v) ==
    /\ On(v, "challenge") /\ Has(v).pending /\ Has(v).lock = "running"
    /\ Commits(v, [Has(v) EXCEPT !.pending = FALSE])
    /\ Ends(v)
    /\ UNCHANGED counted

\* Only a lock is written.
BugFailedAttempt(read) ==
    [read EXCEPT !.lock = IF read.attempts + 1 >= MaxAttempts THEN "running" ELSE @]

\* The lock comes one answer late.
BugLate(read) ==
    [read EXCEPT !.attempts = @ + 1,
                 !.lock = IF read.attempts + 1 > MaxAttempts THEN "running" ELSE @]

FailedAttempt(read) ==
    [read EXCEPT !.attempts = @ + 1,
                 !.lock = IF read.attempts + 1 >= MaxAttempts THEN "running" ELSE @]

\* _record_failed_mfa_attempt, on any of the three pages.
AnswerFails(v) ==
    /\ Passes(v)
    /\ Has(v).attempts < MaxCounted
    /\ Commits(v, FailedAttempt(Has(v)))
    /\ counted' = [counted EXCEPT ![Has(v).attempts] = @ + 1]
    /\ Ends(v)

\* complete_login_after_mfa, a self-healing bounce, or a user who is gone.
AnswerSucceeds(v) ==
    /\ Passes(v)
    /\ Wipes(v)
    /\ Ends(v)

\* A page is shown, a limit or an expired challenge comes first, a request dies.
Leaves(v) ==
    /\ visit[v] # Away
    /\ Ends(v)
    /\ UNCHANGED <<carry, counted>>

\* mfa_locked_until is reached, for the row and for what v has read of it.
LockElapses ==
    /\ carry.lock = "running"
    /\ carry' = [carry EXCEPT !.lock = "over"]
    /\ UNCHANGED <<visit, counted>>
ReadLockElapses(v) ==
    /\ visit[v] # Away /\ Has(v).lock = "running"
    /\ visit' = [visit EXCEPT ![v].read.lock = "over"]
    /\ UNCHANGED <<carry, counted>>

BudgetNext ==
    \/ \E v \in Visits :
          \/ Reads(v, "login") \/ LoginWipes(v) \/ LoginPends(v)
          \/ Reads(v, "challenge") \/ Bounces(v) \/ AnswerFails(v) \/ AnswerSucceeds(v)
          \/ Leaves(v) \/ ReadLockElapses(v)
    \/ LockElapses

BudgetSpec == BudgetInit /\ [][BudgetNext]_budget

-----------------------------------------------------------------------------
(* Properties.                                                               *)

Before(n) == IF n = 0 THEN 0 ELSE counted[n - 1]

(* What the budget of a login session is worth when answers are in flight at *)
(* once: between two wipes, as many wrong answers as there are requests are  *)
(* counted on top of the same number, for each time that this number was     *)
(* written, and once more for those that read it before the wipe.  Without   *)
(* overlap, one.                                                             *)
BudgetBounds ==
    \A n \in 0 .. MaxCounted : counted[n] <= Cardinality(Visits) * (Before(n) + 1)

(* Until there is a lock, no answer was counted on top of the last number    *)
(* below MFA_MAX_ATTEMPTS, or above, however late it is committed and        *)
(* whatever /login and right answers have wiped meanwhile.                   *)
BudgetLocks ==
    carry.lock = "none" => \A n \in MaxAttempts - 1 .. MaxCounted : counted[n] = 0
=============================================================================
