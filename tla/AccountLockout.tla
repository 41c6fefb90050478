--------------------------- MODULE AccountLockout ---------------------------
(***************************************************************************)
(* The per-account lockout of fief (SEC-1): the row of user_lockouts of    *)
(* one user, and the requests that read and write it concurrently: POST    *)
(* /login (check_locked, then authenticate, then record_failed or reset)   *)
(* and the admin endpoint POST /users/{id}/unlock (reset).                 *)
(*                                                                         *)
(* Every repository call is a SELECT followed by a COMMIT of the changed   *)
(* columns only, in a session of its own request, so another request may   *)
(* commit in between.  A timestamp is represented by the ticks that remain *)
(* until it, 0 once it has elapsed.                                        *)
(***************************************************************************)
EXTENDS Integers, FiniteSets

CONSTANTS
    Logins,       \* the login requests that may be in flight at one time
    Admins,       \* the unlock requests that may be in flight at one time
    Ladder,       \* rung of failed_count |-> duration of its lock, in ticks
    MaxFailures   \* bound of the model: failed authentications explored

ASSUME LadderAssumption ==
    /\ DOMAIN Ladder \subseteq Nat \ {0}
    /\ \A n \in DOMAIN Ladder : Ladder[n] \in Nat \ {0}

ASSUME RequestAssumption ==
    /\ Logins \cap Admins = {}
    /\ MaxFailures \in Nat

LockoutRequests == Logins \cup Admins

VARIABLES
    row,        \* the user_lockouts row of the account
    pc,         \* pc[r]: where request r stands
    pending,    \* pending[r]: the columns that the next COMMIT of r writes
    failures    \* history: authentications that failed so far

lockoutVars == <<row, pc, pending, failures>>

NULL == -1      \* SQL NULL, and the failed_count of a row that is not there
Keep == -2      \* a column that an UPDATE leaves out, because it is unchanged

NoRow == [count |-> NULL, until |-> NULL]
Row == [count: Nat, until: Nat \cup {NULL}]
NoWrite == [count |-> Keep, until |-> Keep]
Write == [count: Nat \cup {Keep}, until: Nat \cup {NULL, Keep}]

Exists(r) == r # NoRow

LockoutTypeOK ==
    /\ row \in Row \cup {NoRow}
    /\ pc \in [LockoutRequests ->
                 {"idle", "unlocking", "checked", "creating", "failing", "clearing"}]
    /\ pending \in [LockoutRequests -> Write]
    /\ failures \in Nat

LockoutInit ==
    /\ row = NoRow
    /\ pc = [r \in LockoutRequests |-> "idle"]
    /\ pending = [r \in LockoutRequests |-> NoWrite]
    /\ failures = 0

-----------------------------------------------------------------------------
(* Definitions named Bug... are slips that the code could have had; each one  *)
(* stands beside the definition it would replace and is used nowhere else.   *)

\* The rung is looked up with the count that the next failure will reach.
BugAppliedNext(n, otherwise) ==
    IF n + 1 \in DOMAIN Ladder THEN Ladder[n + 1] ELSE otherwise

(* The locked_until that failed_count = n brings: a rung sets it, any other *)
(* value leaves what was there.                                             *)
Applied(n, otherwise) == IF n \in DOMAIN Ladder THEN Ladder[n] ELSE otherwise

(* The UPDATE that clear() emits for the row it has read.                   *)
Cleared(seen) == [count |-> IF seen.count = 0 THEN Keep ELSE 0,
                  until |-> IF seen.until = NULL THEN Keep ELSE NULL]

Updated(w) == [count |-> IF w.count = Keep THEN row.count ELSE w.count,
               until |-> IF w.until = Keep THEN row.until ELSE w.until]

(* Request r moves on to the COMMIT of w, or to a state that writes nothing. *)
Goto(r, where, w) ==
    /\ pc' = [pc EXCEPT ![r] = where]
    /\ pending' = [pending EXCEPT ![r] = w]

-----------------------------------------------------------------------------
(* check_locked: the SELECT, and what follows from the row it returns.      *)

\* A lock in the future raises AccountLocked; the request ends there.
RejectLocked(r) ==
    /\ pc[r] = "idle"
    /\ row.until > 0
    /\ UNCHANGED lockoutVars

\* No row or no lock: the request goes on to authenticate.
PassCheck(r) ==
    /\ pc[r] = "idle"
    /\ row.until = NULL
    /\ Goto(r, "checked", NoWrite)
    /\ UNCHANGED <<row, failures>>

\* A lock that ends now still counts as a lock, so it is never cleared.
BugFindElapsedLocked(r) ==
    /\ pc[r] = "idle"
    /\ row.until = 0
    /\ UNCHANGED lockoutVars

\* The lock has elapsed: upsert keeps failed_count and clears locked_until.
FindElapsed(r) ==
    /\ pc[r] = "idle"
    /\ row.until = 0
    /\ Goto(r, "unlocking", [count |-> Keep, until |-> NULL])
    /\ UNCHANGED <<row, failures>>

\* Auto-unlock forgets the failures, too.
BugCommitUnlockForgets(r) ==
    /\ pc[r] = "unlocking"
    /\ row' = [count |-> 0, until |-> NULL]
    /\ Goto(r, "checked", NoWrite)
    /\ UNCHANGED failures

CommitUnlock(r) ==
    /\ pc[r] = "unlocking"
    /\ row' = Updated(pending[r])
    /\ Goto(r, "checked", NoWrite)
    /\ UNCHANGED failures

(* authenticate refuses the credentials: record_failed reads the row.       *)

\* No row yet: the repository will insert one.
FailFirst(r) ==
    /\ pc[r] = "checked"
    /\ failures < MaxFailures
    /\ ~Exists(row)
    /\ Goto(r, "creating", [count |-> 1, until |-> Applied(1, NULL)])
    /\ failures' = failures + 1
    /\ UNCHANGED row

\* One failure is counted twice.
BugFailAgainTwice(r) ==
    /\ pc[r] = "checked"
    /\ failures < MaxFailures
    /\ Exists(row)
    /\ LET n == row.count + 2
       IN  Goto(r, "failing", [count |-> n, until |-> Applied(n, Keep)])
    /\ failures' = failures + 1
    /\ UNCHANGED row

\* A row: failed_count + 1, and a new locked_until only on a rung.
FailAgain(r) ==
    /\ pc[r] = "checked"
    /\ failures < MaxFailures
    /\ Exists(row)
    /\ LET n == row.count + 1
       IN  Goto(r, "failing", [count |-> n, until |-> Applied(n, Keep)])
    /\ failures' = failures + 1
    /\ UNCHANGED row

\* The INSERT; on a row that another request has created in the meantime it
\* breaks the primary key, the session rolls back and the answer is a 503.
CommitCreate(r) ==
    /\ pc[r] = "creating"
    /\ row' = IF Exists(row) THEN row ELSE pending[r]
    /\ Goto(r, "idle", NoWrite)
    /\ UNCHANGED failures

CommitFailure(r) ==
    /\ pc[r] = "failing"
    /\ row' = Updated(pending[r])
    /\ Goto(r, "idle", NoWrite)
    /\ UNCHANGED failures

(* reset: after a successful authentication, or called by an administrator. *)

MayReset(r) == pc[r] = IF r \in Admins THEN "idle" ELSE "checked"

\* clear returns at once when there is no row.
ResetNothing(r) ==
    /\ MayReset(r)
    /\ ~Exists(row)
    /\ Goto(r, "idle", NoWrite)
    /\ UNCHANGED <<row, failures>>

ReadForReset(r) ==
    /\ MayReset(r)
    /\ Exists(row)
    /\ Goto(r, "clearing", Cleared(row))
    /\ UNCHANGED <<row, failures>>

CommitReset(r) ==
    /\ pc[r] = "clearing"
    /\ row' = Updated(pending[r])
    /\ Goto(r, "idle", NoWrite)
    /\ UNCHANGED failures

-----------------------------------------------------------------------------
(* A tick of the clock brings every timestamp nearer, those already computed *)
(* but not yet committed included.                                           *)
Nearer(t) == IF t > 0 THEN t - 1 ELSE t

Tick ==
    /\ row' = [row EXCEPT !.until = Nearer(@)]
    /\ pending' = [r \in LockoutRequests |-> [pending[r] EXCEPT !.until = Nearer(@)]]
    /\ UNCHANGED <<pc, failures>>

CheckLocked(r) == RejectLocked(r) \/ PassCheck(r) \/ FindElapsed(r) \/ CommitUnlock(r)

RecordFailed(r) == FailFirst(r) \/ FailAgain(r) \/ CommitCreate(r) \/ CommitFailure(r)

Reset(r) == ResetNothing(r) \/ ReadForReset(r) \/ CommitReset(r)

LockoutNext ==
    \/ \E r \in Logins : CheckLocked(r) \/ RecordFailed(r) \/ Reset(r)
    \/ \E r \in Admins : Reset(r)
    \/ Tick

LockoutSpec == LockoutInit /\ [][LockoutNext]_lockoutVars

\* Time passes, a request that has started runs to its end, and users who are
\* turned away try again; nothing makes an administrator act.
Fairness ==
    /\ WF_lockoutVars(Tick)
    /\ \A r \in Logins : WF_lockoutVars(CheckLocked(r) \/ RecordFailed(r) \/ Reset(r))
    /\ \A r \in Admins : WF_lockoutVars(CommitReset(r))

FairSpec == LockoutSpec /\ Fairness

-----------------------------------------------------------------------------
(* An account never locks early: however the requests interleave, the stored *)
(* failed_count, and any failed_count about to be stored, is at most the     *)
(* number of authentications that failed, so a rung is never reached with    *)
(* fewer failures than it names (record_failed, increment_and_apply_ladder). *)
CountWithinFailures ==
    /\ row.count <= failures
    /\ \A r \in LockoutRequests : pending[r].count <= failures

\* A lock is on the account only if some rung has been earned by failures.
NeverLocksEarly ==
    row.until # NULL => \E n \in DOMAIN Ladder : n <= failures

(* No account stays locked for ever: as long as somebody tries to log in, a  *)
(* locked_until that has been set is cleared again (check_locked).           *)
LockEnds == (row.until # NULL) ~> (row.until = NULL)

(* With one request at a time the row implements the policy of the ladder.  *)
Policy == INSTANCE LockoutPolicy
            WITH fails <- IF Exists(row) THEN row.count ELSE 0, lock <- row.until

ImplementsPolicy == Policy!PolicySpec
=============================================================================
