----------------------------- MODULE RateLimiter -----------------------------
(***************************************************************************)
(* The sliding window of the rate limiter: a sorted set in Redis with a     *)
(* member for every request, scored by the clock of the process that got    *)
(* it.  A check is one transaction of Redis, which comes after the clock was *)
(* read; if Redis fails, the request passes.                                *)
(*                                                                         *)
(* One key.  That the set expires as a whole is left out: what it would take *)
(* away has left the window.                                                *)
(***************************************************************************)
EXTENDS FiniteSetsExt, Integers

CONSTANTS
    MaxCount,    \* RateLimitWindow.max_count
    PerSeconds,  \* RateLimitWindow.per_seconds, in ticks of the clock
    MaxTime      \* a bound on the clock

ASSUME WindowAssumption ==
    MaxCount \in Nat \ {0} /\ PerSeconds \in Nat \ {0} /\ MaxTime \in Nat

VARIABLES
    now,      \* the clock
    bucket,   \* bucket[t]: the members with the score t; as many as matter
    admitted  \* history: admitted[t], how many passed that were counted at once at t

limiter == <<now, bucket, admitted>>

Times == 0 .. MaxTime
Cap(n) == IF n > MaxCount THEN MaxCount + 1 ELSE n

LimiterTypeOK ==
    /\ now \in Times
    /\ bucket \in [Times -> 0 .. MaxCount + 1]
    /\ admitted \in [Times -> Nat]

LimiterInit ==
    /\ now = 0
    /\ bucket = [t \in Times |-> 0]
    /\ admitted = [t \in Times |-> 0]

Tick ==
    /\ now < MaxTime
    /\ now' = now + 1
    /\ UNCHANGED <<bucket, admitted>>

BugRecorded(stamp) ==
    [t \in Times |-> IF t <= stamp - PerSeconds + 1 /\ t # stamp THEN 0
                     ELSE IF t = stamp THEN Cap(bucket[t] + 1) ELSE bucket[t]]
\* The set without what has left the window, and with the new member, scored stamp.
Recorded(stamp) ==
    [t \in Times |-> IF t <= stamp - PerSeconds THEN 0
                     ELSE IF t = stamp THEN Cap(bucket[t] + 1) ELSE bucket[t]]

Total(f, S) == FoldSet(LAMBDA t, n : f[t] + n, 0, S)
Members(set) == Total(set, Times)

(* RateLimiter.check: a request that is refused counts as well.              *)
Check(stamp, passes) ==
    /\ bucket' = Recorded(stamp)
    /\ passes = (Members(Recorded(stamp)) <= MaxCount)
    /\ admitted' = IF passes /\ stamp = now THEN [admitted EXCEPT ![now] = @ + 1] ELSE admitted
    /\ UNCHANGED now

\* Redis fails: the request passes, and nobody counts it.
FailsOpen == UNCHANGED limiter

(* No window of the length of the limit lets more pass than the limit,      *)
(* wherever it begins; those that Redis did not see, or saw later than       *)
(* their clock says, come on top.                                           *)
WithinWindow ==
    \A t \in Times : Total(admitted, {s \in Times : t - PerSeconds < s /\ s <= t}) <= MaxCount
=============================================================================
