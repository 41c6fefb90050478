--------------------------- MODULE ChallengesProofs ----------------------------
(* What Challenges promises of codes and ceremonies, proved for every number  *)
(* of requests, login sessions, challenges and ticks.                        *)
EXTENDS Challenges, FiniteSetTheorems, WellFoundedInduction, TLAPS

-----------------------------------------------------------------------------
(* Types.                                                                    *)

LEMMA StepForm ==
    ASSUME TypeOK, NEW q \in Requests
    PROVE  /\ At(q, "check") \/ At(q, "verify") \/ At(q, "write") => request[q] \in Typing
           /\ At(q, "burn") \/ At(q, "read") \/ At(q, "count") \/ At(q, "attest")
                  => request[q] \in Answering
  BY DEF TypeOK, At, Typing, Answering, Idle

RequestsOK == request \in [Requests -> {Idle} \cup Typing \cup Answering]
RestOK ==
    /\ factor \in {"totp", "passkey"} /\ LimiterTypeOK
    /\ lastUsed \in Times \cup {None}
    /\ challenge \in [Keys -> Nonces \cup {None}]
    /\ \A k \in Keys : challenge[k] # None => challenge[k] \in issued
    /\ issued \subseteq Nonces
    /\ signCount \in Counts \cup {None}
    /\ accepted \in [Times -> 0 .. 2]
    /\ crossed \subseteq Times
    /\ answered \in [Nonces -> 0 .. 2]
    /\ shared \subseteq Nonces
    /\ seen \in [Counts -> 0 .. 2] /\ loose \in BOOLEAN

LEMMA RequestsStay ==
    ASSUME TypeOK, [Next]_vars
    PROVE  RequestsOK'
<1>1. RequestsOK
  BY DEF TypeOK, RequestsOK
<1>2. CASE request' = request
  BY <1>1, <1>2 DEF RequestsOK
<1>3. ASSUME NEW q \in Requests, NEW r \in {Idle} \cup Typing \cup Answering,
             request' = [request EXCEPT ![q] = r]
      PROVE  RequestsOK'
  BY <1>1, <1>3 DEF RequestsOK
<1>4. ASSUME NEW q \in Requests, NEW step \in {"check", "verify", "write"}, NEW at \in Times,
             Goes(q, [step |-> step, at |-> at])
      PROVE  RequestsOK'
  BY <1>3, <1>4 DEF Goes, Typing
<1>5. ASSUME NEW q \in Requests, Ends(q)
      PROVE  RequestsOK'
  BY <1>3, <1>5 DEF Ends, Goes
<1>6. now \in Times
  BY DEF TypeOK, LimiterTypeOK
<1>7. ASSUME NEW q \in Requests, Type(q) \/ Gate(q) \/ Verify(q) \/ Accept(q)
      PROVE  RequestsOK'
  <2>1. CASE Ends(q)
    BY <1>5, <2>1
  <2>2. CASE Goes(q, Idle)
    BY <1>3, <2>2 DEF Goes
  <2>3. QED
    BY <1>4, <1>6, <1>7, <2>1, <2>2 DEF Type, Gate, Verify, Accept
<1>8. ASSUME NEW q \in Requests, NEW k \in Keys, NEW n \in Nonces, NEW c \in Counts, Take(q, k, n, c)
      PROVE  RequestsOK'
  <2> DEFINE r == [step |-> "burn", key |-> k, taken |-> challenge[k], signed |-> n, count |-> c,
                   stored |-> None]
  <2>1. r \in Answering
    BY <1>8 DEF Take, TypeOK, Answering
  <2>2. request' = [request EXCEPT ![q] = r]
    BY <1>8 DEF Take, Goes
  <2> HIDE DEF r
  <2>3. QED
    BY <1>3, <2>1, <2>2
<1>9. ASSUME NEW q \in Requests, Burn(q)
      PROVE  RequestsOK'
  <2> DEFINE r == [request[q] EXCEPT
                      !.step = IF request[q].key = Enrolment THEN "attest" ELSE "read"]
  <2>1. r \in Answering
    BY <1>9, StepForm DEF Burn, Answering
  <2>2. request' = [request EXCEPT ![q] = r]
    BY <1>9 DEF Burn
  <2> HIDE DEF r
  <2>3. QED
    BY <1>3, <2>1, <2>2
<1>10. ASSUME NEW q \in Requests, ReadCredential(q)
       PROVE  RequestsOK'
  <2> DEFINE r == [request[q] EXCEPT !.step = "count", !.stored = signCount]
  <2>1. r \in Answering
    BY <1>10, StepForm DEF ReadCredential, Answering, TypeOK
  <2>2. request' = [request EXCEPT ![q] = Idle] \/ request' = [request EXCEPT ![q] = r]
    BY <1>10 DEF ReadCredential, Ends, Goes
  <2> HIDE DEF r
  <2>3. QED
    BY <1>3, <2>1, <2>2
<1>11. CASE PasskeysDelete
  <2>1. ASSUME NEW q \in Requests, At(q, "count")
        PROVE  [request[q] EXCEPT !.stored = None] \in Answering
    BY <2>1, StepForm DEF Answering
  <2>2. ASSUME NEW q \in Requests
        PROVE  request'[q] \in {Idle} \cup Typing \cup Answering
    BY <1>1, <1>11, <2>1 DEF PasskeysDelete, RequestsOK
  <2>3. QED
    BY <1>11, <2>2 DEF PasskeysDelete, RequestsOK
<1>12. QED
  BY <1>2, <1>5, <1>7, <1>8, <1>9, <1>10, <1>11
  DEF Next, vars, Typed, Ceremony, MfaPasskeyVerify, PasskeysRegisterFinish, UpdateAfterAssertion,
      FinishRegistration, BeginRegistration, BeginAssertion, Issue, Expire, Stop, Keys

LEMMA RestStays ==
    ASSUME TypeOK, [Next]_vars
    PROVE  RestOK'
<1>1. RestOK
  BY DEF TypeOK, RestOK
<1> USE DEF RestOK, LimiterTypeOK, limiter, totp, passkey
<1>2. CASE UNCHANGED <<factor, limiter, totp, passkey>>
  BY <1>1, <1>2
<1>3. ASSUME Tick, UNCHANGED <<factor, totp, passkey>>
      PROVE  RestOK'
  BY <1>1, <1>3, WindowAssumption DEF Tick, Times
<1>4. ASSUME NEW q \in Requests, Gate(q), UNCHANGED factor
      PROVE  RestOK'
  <2>1. \A n \in Nat : Cap(n) \in 0 .. MaxCount + 1
    BY WindowAssumption DEF Cap
  <2>2. \A stamp : Recorded(stamp) \in [Times -> 0 .. MaxCount + 1]
    BY <1>1, <2>1, WindowAssumption DEF Recorded
  <2>3. CASE UNCHANGED limiter
    BY <1>1, <1>4, <2>3 DEF Gate
  <2>4. ASSUME NEW passes \in BOOLEAN, Check(request[q].at, passes)
        PROVE  RestOK'
    <3>1. bucket' \in [Times -> 0 .. MaxCount + 1] /\ now' = now
      BY <2>2, <2>4 DEF Check
    <3>2. admitted' \in [Times -> Nat]
      BY <1>1, <2>4 DEF Check
    <3>3. QED
      BY <1>1, <1>4, <3>1, <3>2 DEF Gate
  <2>5. QED
    BY <1>4, <2>3, <2>4 DEF Gate, FailsOpen
<1>5. \A n \in 0 .. 2 : Again(n) \in 0 .. 2
  BY DEF Again
<1>6. ASSUME NEW q \in Requests, Verify(q) \/ Accept(q), UNCHANGED factor
      PROVE  RestOK'
  BY <1>1, <1>5, <1>6, StepForm DEF Verify, Accept, Typing
<1>7. ASSUME NEW k \in Keys, NEW n \in Nonces, Issue(k, n), UNCHANGED factor
      PROVE  RestOK'
  BY <1>1, <1>7 DEF Issue
<1>8. ASSUME NEW k \in Keys, Expire(k), UNCHANGED factor
      PROVE  RestOK'
  BY <1>1, <1>8 DEF Expire
<1>9. ASSUME NEW q \in Requests, NEW k \in Keys, NEW n \in Nonces, NEW c \in Counts,
             Take(q, k, n, c), UNCHANGED factor
      PROVE  RestOK'
  BY <1>1, <1>9 DEF Take
<1>10. ASSUME NEW q \in Requests, Burn(q), UNCHANGED factor
       PROVE  RestOK'
  BY <1>1, <1>10 DEF Burn
<1>11. ASSUME NEW q \in Requests, UpdateAfterAssertion(q) \/ FinishRegistration(q), UNCHANGED factor
       PROVE  RestOK'
  <2>1. request[q].count \in Counts /\ request[q].taken \in Nonces
    BY <1>11, StepForm DEF UpdateAfterAssertion, FinishRegistration, Answering
  <2>2. answered' \in [Nonces -> 0 .. 2] /\ signCount' \in Counts \cup {None}
    BY <1>1, <1>5, <1>11, <2>1 DEF UpdateAfterAssertion, FinishRegistration
  <2>3. \A c : Only(c) \in [Counts -> 0 .. 2]
    BY DEF Only
  <2>4. seen' \in [Counts -> 0 .. 2]
    BY <1>1, <1>5, <1>11, <2>1, <2>3 DEF UpdateAfterAssertion, FinishRegistration
  <2>5. loose' \in BOOLEAN
    BY <1>1, <1>11 DEF UpdateAfterAssertion, FinishRegistration
  <2>6. QED
    BY <1>1, <1>11, <2>2, <2>4, <2>5 DEF UpdateAfterAssertion, FinishRegistration
<1>12. CASE PasskeysDelete /\ UNCHANGED factor
  BY <1>1, <1>12 DEF PasskeysDelete
<1>13. ASSUME NEW q \in Requests, ReadCredential(q), UNCHANGED factor
       PROVE  RestOK'
  BY <1>1, <1>13 DEF ReadCredential
<1>14. QED
  BY <1>2, <1>3, <1>4, <1>6, <1>7, <1>8, <1>9, <1>10, <1>11, <1>12, <1>13
  DEF Next, vars, Typed, Type, Ceremony, MfaPasskeyVerify, PasskeysRegisterFinish,
      BeginRegistration, BeginAssertion, Stop, Keys

(* Counts, clocks and challenges keep their types; what Redis has was issued. *)
THEOREM TypeCorrect == Spec => []TypeOK
<1>1. Init => TypeOK
  <2>1. \A c : Only(c) \in [Counts -> 0 .. 2]
    BY DEF Only
  <2>2. Init => LimiterTypeOK
    BY WindowAssumption DEF Init, LimiterInit, LimiterTypeOK, Times
  <2>3. Init => seen \in [Counts -> 0 .. 2] /\ loose \in BOOLEAN
    BY <2>1 DEF Init
  <2>4. QED
    BY <2>2, <2>3, ChallengeAssumption DEF Init, TypeOK
<1>2. TypeOK /\ [Next]_vars => TypeOK'
  BY RequestsStay, RestStays DEF RequestsOK, RestOK, TypeOK
<1>3. QED
  BY <1>1, <1>2, PTL DEF Spec

-----------------------------------------------------------------------------
(* Codes.                                                                    *)

\* The requests that are about to accept a code, and those of the step t.
Writing == {q \in Requests : At(q, "write")}
WritingAt(t) == {q \in Writing : request[q].at = t}

(* A step that is over, and at which no verifications overlapped, has one     *)
(* request that may still accept, or one that did.  At the present step, so   *)
(* long as none overlapped, an acceptance is the last thing that was written.*)
Past(t) ==
    /\ \A p, q \in WritingAt(t) : p = q
    /\ accepted[t] = 0 \/ (accepted[t] = 1 /\ WritingAt(t) = {})
Present ==
    \/ accepted[now] = 0 /\ WritingAt(now) = {}
    \/ accepted[now] = 0 /\ \E q \in WritingAt(now) : Writing = {q}
    \/ accepted[now] = 1 /\ Writing = {} /\ lastUsed = now
InTime ==
    /\ \A q \in Writing : request[q].at <= now
    /\ \A t \in Times : t > now => accepted[t] = 0
    /\ \A t \in Times : t < now /\ t \notin crossed => Past(t)
    /\ now \notin crossed => Present

LEMMA InTimeKept ==
    ASSUME TypeOK, TypeOK', InTime, [Next]_vars
    PROVE  InTime'
<1>1. /\ now \in Nat /\ now \in Times /\ \A t \in Times : t \in Nat
      /\ \A q \in Writing : request[q].at \in Times
  <2>1. now \in Times
    BY DEF TypeOK, LimiterTypeOK
  <2>2. \A t \in Times : t \in Nat
    BY WindowAssumption DEF Times
  <2>3. \A q \in Writing : request[q].at \in Times
    BY StepForm DEF Writing, Typing
  <2>4. QED
    BY <2>1, <2>2, <2>3
<1>2. /\ \A q \in Requests : At(q, "write")' <=> request'[q].step = "write"
      /\ \A q \in Requests : At(q, "write") <=> request[q].step = "write"
  BY DEF At
\* No one else is about to accept a code, nor was one accepted.
<1>3. ASSUME UNCHANGED <<now, accepted, lastUsed>>, crossed \subseteq crossed',
             \A q \in Writing' : q \in Writing /\ request'[q].at = request[q].at
      PROVE  InTime'
  <2>1. \A q \in Writing' : request'[q].at <= now'
    BY <1>3 DEF InTime
  <2>2. ASSUME NEW t \in Times
        PROVE  WritingAt(t)' \subseteq WritingAt(t)
    BY <1>3 DEF WritingAt
  <2>3. ASSUME NEW t \in Times, Past(t)
        PROVE  Past(t)'
    BY <1>3, <2>2, <2>3 DEF Past
  <2>4. ASSUME Present
        PROVE  Present'
    <3>1. WritingAt(now)' \subseteq WritingAt(now) /\ Writing' \subseteq Writing
      BY <1>1, <1>3, <2>2
    <3>2. QED
      BY <1>3, <2>4, <3>1 DEF Present, WritingAt
  <2>5. QED
    BY <1>3, <2>1, <2>3, <2>4 DEF InTime
<1>4. ASSUME NEW q \in Requests, NEW r, request' = [request EXCEPT ![q] = r]
      PROVE  request'[q] = r /\ \A x \in Requests \ {q} : request'[x] = request[x]
  BY <1>4 DEF TypeOK
<1>5. ASSUME NEW q \in Requests, NEW r, request' = [request EXCEPT ![q] = r], r.step # "write"
      PROVE  \A x \in Writing' : x \in Writing /\ request'[x].at = request[x].at
  BY <1>2, <1>4, <1>5 DEF Writing
<1>6. Idle.step = "idle"
  BY DEF Idle
<1>7. ASSUME Tick, UNCHANGED <<totp, request>>
      PROVE  InTime'
  <2>1. now' = now + 1 /\ UNCHANGED <<accepted, lastUsed, crossed, request>>
    BY <1>7 DEF Tick, totp
  <2>2. Writing' = Writing /\ \A t : WritingAt(t)' = WritingAt(t)
    BY <2>1 DEF Writing, WritingAt, At
  <2>3. \A t \in Times : Past(t)' <=> Past(t)
    BY <2>1, <2>2 DEF Past
  <2>4. now \notin crossed => Past(now)
    BY DEF InTime, Present, Past, WritingAt
  <2>5. PICK n \in Times : n = now'
    BY DEF TypeOK, LimiterTypeOK
  <2>6. accepted[n] = 0 /\ \A q \in Writing : request[q].at # n
    BY <1>1, <2>1, <2>5 DEF InTime
  <2>7. accepted'[now'] = 0 /\ \A q \in Writing' : request'[q].at # now'
    BY <2>1, <2>2, <2>5, <2>6
  <2>8. Present'
    BY <2>7 DEF Present, WritingAt
  <2>9. \A t \in Times : t < now' /\ t \notin crossed' => Past(t)'
    <3> SUFFICES ASSUME NEW t \in Times, t < now', t \notin crossed
                 PROVE  Past(t)
      BY <2>1, <2>3
    <3>1. t < now \/ t = now
      BY <1>1, <2>1
    <3>2. QED
      BY <2>4, <3>1 DEF InTime
  <2>10. /\ \A q \in Writing' : request'[q].at <= now'
         /\ \A t \in Times : t > now' => accepted'[t] = 0
    <3>1. \A q \in Writing : request[q].at <= now + 1
      <4>1. \A q \in Writing : request[q].at \in Nat /\ request[q].at <= now
        BY <1>1 DEF InTime
      <4>2. QED
        BY <1>1, <4>1
    <3>2. \A t \in Times : t > now + 1 => accepted[t] = 0
      BY <1>1 DEF InTime
    <3>3. QED
      BY <2>1, <2>2, <3>1, <3>2
  <2>11. QED
    BY <2>8, <2>9, <2>10 DEF InTime
<1>8. ASSUME NEW q \in Requests, Verify(q)
      PROVE  InTime'
  <2>1. CASE Ends(q) /\ UNCHANGED crossed
    BY <1>3, <1>5, <1>6, <1>8, <2>1 DEF Verify, Ends, Goes, limiter
  <2>2. CASE /\ ~Replays(now) /\ Goes(q, [step |-> "write", at |-> now])
             /\ crossed' = IF Others(q, "write") # {} THEN crossed \cup {now} ELSE crossed
    <3> DEFINE r == [step |-> "write", at |-> now]
    <3>1. request' = [request EXCEPT ![q] = r] /\ UNCHANGED <<now, accepted, lastUsed>>
          /\ q \notin Writing
      BY <1>8, <2>2 DEF Verify, Goes, limiter, Writing, At
    <3>2. r.step = "write" /\ r.at = now
      OBVIOUS
    <3> HIDE DEF r
    <3>3. /\ request'[q].at = now /\ request'[q].step = "write"
          /\ \A x \in Requests \ {q} : request'[x] = request[x]
      BY <1>4, <3>1, <3>2
    <3>4. Writing' = Writing \cup {q}
      BY <1>2, <3>3 DEF Writing
    <3>5. \A t \in Times : t # now => WritingAt(t)' = WritingAt(t)
      BY <3>1, <3>3, <3>4 DEF WritingAt, Writing
    <3>6. \A t \in Times : t # now /\ Past(t) => Past(t)'
      BY <3>1, <3>5 DEF Past
    <3>7. ASSUME now \notin crossed'
          PROVE  Present'
      <4>1. now \notin crossed /\ Writing = {}
        BY <1>2, <2>2, <3>1, <3>7 DEF Others, Writing
      <4>2. accepted[now] = 0
        <5>1. now # None /\ now <= now
          BY <1>1, ChallengeAssumption
        <5>2. lastUsed # now
          BY <2>2, <5>1 DEF Replays
        <5>3. Present
          BY <4>1 DEF InTime
        <5>4. QED
          BY <4>1, <5>2, <5>3 DEF Present
      <4>3. Writing' = {q} /\ q \in WritingAt(now)'
        BY <3>1, <3>3, <3>4, <4>1 DEF WritingAt
      <4>4. QED
        BY <3>1, <4>2, <4>3 DEF Present
    <3>8. \A x \in Writing' : request'[x].at <= now'
      BY <1>1, <3>1, <3>3, <3>4 DEF InTime, Writing
    <3>9. crossed \subseteq crossed'
      BY <2>2
    <3>10. QED
      BY <1>1, <3>1, <3>6, <3>7, <3>8, <3>9 DEF InTime
  <2>3. QED
    BY <1>8, <2>1, <2>2 DEF Verify
<1>9. ASSUME NEW q \in Requests, Accept(q)
      PROVE  InTime'
  <2>1. PICK t \in Times : request[q].at = t
    BY <1>1, <1>9 DEF Accept, Writing
  <2>2. /\ request' = [request EXCEPT ![q] = Idle] /\ UNCHANGED <<now, crossed>>
        /\ accepted' = [accepted EXCEPT ![t] = Again(@)] /\ lastUsed' = t
        /\ q \in Writing /\ q \in WritingAt(t)
    BY <1>9, <2>1 DEF Accept, Ends, Goes, limiter, Writing, WritingAt
  <2>3. /\ Writing' = Writing \ {q}
        /\ \A x \in Writing' : request'[x] = request[x]
    <3>1. /\ request'[q].step = "idle"
          /\ \A x \in Requests \ {q} : request'[x] = request[x]
      BY <1>4, <1>6, <2>2
    <3>2. \A x \in Requests : x \in Writing' <=> x \in Writing /\ x # q
      BY <1>2, <3>1 DEF Writing
    <3>3. Writing' \subseteq Requests /\ Writing \subseteq Requests
      BY DEF Writing
    <3>4. QED
      BY <3>1, <3>2, <3>3
  <2>4. t <= now /\ \A x \in Writing' : request'[x].at <= now'
    BY <2>1, <2>2, <2>3 DEF InTime
  <2>5. ASSUME NEW s \in Times, s # t
        PROVE  WritingAt(s)' = WritingAt(s) /\ accepted'[s] = accepted[s]
    BY <2>1, <2>2, <2>3, <2>5 DEF WritingAt, TypeOK
  <2>6. \A s \in Times : s # t /\ Past(s) => Past(s)'
    BY <2>5 DEF Past
  <2>7. accepted[t] = 0 => accepted'[t] = 1
    BY <2>2 DEF TypeOK, Again
  <2>8. ASSUME t < now, t \notin crossed
        PROVE  Past(t)'
    <3>1. Past(t)
      BY <2>8 DEF InTime
    <3>2. WritingAt(t) = {q} /\ accepted[t] = 0
      BY <2>2, <3>1 DEF Past
    <3>3. WritingAt(t)' = {}
      BY <2>3, <3>2 DEF WritingAt
    <3>4. QED
      BY <2>7, <3>2, <3>3 DEF Past
  <2>9. ASSUME now \notin crossed
        PROVE  Present'
    <3>1. Present
      BY <2>9 DEF InTime
    <3>2. CASE t = now
      <4>1. Writing = {q} /\ accepted[now] = 0
        BY <2>2, <3>1, <3>2 DEF Present
      <4>2. QED
        BY <2>2, <2>3, <2>7, <3>2, <4>1 DEF Present
    <3>3. CASE t # now
      <4>1. accepted[now] = 0 /\ WritingAt(now) = {}
        BY <2>1, <2>2, <3>1, <3>3 DEF Present, WritingAt
      <4>2. accepted'[now] = 0 /\ WritingAt(now)' = {}
        BY <1>1, <2>2, <2>5, <3>3, <4>1
      <4>3. QED
        BY <2>2, <4>2 DEF Present
    <3>4. QED
      BY <3>2, <3>3
  <2>10. \A s \in Times : s > now => accepted'[s] = 0
    <3> SUFFICES ASSUME NEW s \in Times, s > now
                 PROVE  accepted'[s] = 0
      OBVIOUS
    <3>1. s # t
      <4>1. s \in Nat /\ t \in Nat /\ now \in Nat /\ t <= now /\ s > now
        BY <1>1, <2>1, <2>4
      <4>2. QED
        BY <4>1
    <3>2. QED
      BY <2>5, <3>1 DEF InTime
  <2>11. QED
    BY <2>2, <2>4, <2>6, <2>8, <2>9, <2>10 DEF InTime
<1>10. ASSUME NEW q \in Requests, Type(q) \/ Gate(q)
       PROVE  InTime'
  <2>1. UNCHANGED <<now, totp>>
    BY <1>10 DEF Type, Gate, Check, FailsOpen, limiter
  <2>2. \A x \in Writing' : x \in Writing /\ request'[x].at = request[x].at
    BY <1>5, <1>6, <1>10 DEF Type, Gate, Goes
  <2>3. QED
    BY <1>3, <2>1, <2>2 DEF totp
<1>11. ASSUME NEW q \in Requests, Stop(q)
       PROVE  InTime'
  BY <1>3, <1>5, <1>6, <1>11 DEF Stop, Ends, Goes, limiter, totp
\* Ceremonies leave codes alone.
<1>12. ASSUME UNCHANGED <<now, totp>>, \A q \in Requests : ~At(q, "write")' \/ request'[q] = request[q]
       PROVE  InTime'
  <2>1. \A x \in Writing' : x \in Writing /\ request'[x].at = request[x].at
    BY <1>12 DEF Writing, At
  <2>2. QED
    BY <1>3, <1>12, <2>1 DEF totp
<1>13. ASSUME NEW q \in Requests, NEW k \in Keys, NEW n \in Nonces, NEW c \in Counts, Take(q, k, n, c)
       PROVE  InTime'
  <2> DEFINE r == [step |-> "burn", key |-> k, taken |-> challenge[k], signed |-> n, count |-> c,
                   stored |-> None]
  <2>1. request' = [request EXCEPT ![q] = r] /\ UNCHANGED <<now, totp>>
    BY <1>13 DEF Take, Goes, limiter
  <2>2. r.step # "write"
    OBVIOUS
  <2> HIDE DEF r
  <2>3. QED
    BY <1>2, <1>4, <1>12, <2>1, <2>2
<1>14. ASSUME NEW q \in Requests, Burn(q)
       PROVE  InTime'
  <2>1. request'[q].step # "write" /\ \A x \in Requests \ {q} : request'[x] = request[x]
    BY <1>14, StepForm DEF Burn, Answering, TypeOK
  <2>2. QED
    BY <1>2, <1>12, <1>14, <2>1 DEF Burn, limiter
<1>15. ASSUME NEW q \in Requests, ReadCredential(q)
       PROVE  InTime'
  <2> DEFINE r == [request[q] EXCEPT !.step = "count", !.stored = signCount]
  <2>1. r.step = "count"
    BY <1>15, StepForm DEF ReadCredential, Answering
  <2>2. request' = [request EXCEPT ![q] = Idle] \/ request' = [request EXCEPT ![q] = r]
    BY <1>15 DEF ReadCredential, Ends, Goes
  <2> HIDE DEF r
  <2>3. QED
    BY <1>2, <1>4, <1>6, <1>12, <1>15, <2>1, <2>2 DEF ReadCredential, limiter
<1>16. ASSUME NEW q \in Requests, UpdateAfterAssertion(q) \/ FinishRegistration(q)
       PROVE  InTime'
  BY <1>2, <1>4, <1>6, <1>12, <1>16 DEF UpdateAfterAssertion, FinishRegistration, Ends, Goes, limiter
<1>17. CASE UNCHANGED <<now, totp, request>>
  BY <1>12, <1>17
<1>18. CASE PasskeysDelete
  <2>1. \A q \in Requests : request'[q] = request[q] \/ request'[q].step = "count"
    BY <1>18, StepForm DEF PasskeysDelete, At, Answering
  <2>2. QED
    BY <1>2, <1>12, <1>18, <2>1 DEF PasskeysDelete, limiter
<1>19. QED
  BY <1>7, <1>8, <1>9, <1>10, <1>11, <1>13, <1>14, <1>15, <1>16, <1>17, <1>18
  DEF Next, vars, limiter, totp, Typed, Ceremony, MfaPasskeyVerify, PasskeysRegisterFinish,
      BeginRegistration, BeginAssertion, Issue, Expire, Keys

(* TotpService.verify: at one step one code is accepted, unless verifications *)
(* overlapped at that step.                                                  *)
THEOREM CodesOnce == Spec => []OncePerStep
<1>1. Init => InTime
  <2> SUFFICES ASSUME Init PROVE InTime
    OBVIOUS
  <2>1. Writing = {}
    BY DEF Init, Writing, At, Idle
  <2>2. /\ now = 0 /\ 0 \in Times /\ \A t \in Times : accepted[t] = 0 /\ ~(t < 0)
    BY WindowAssumption DEF Init, LimiterInit, Times
  <2>3. WritingAt(now) = {}
    BY <2>1 DEF WritingAt
  <2>4. QED
    BY <2>1, <2>2, <2>3 DEF InTime, Present
<1>2. TypeOK /\ TypeOK' /\ InTime /\ [Next]_vars => InTime'
  BY InTimeKept
<1>3. TypeOK /\ InTime => OncePerStep
  BY DEF TypeOK, LimiterTypeOK, InTime, Present, Past, OncePerStep, Times
<1>4. QED
  BY <1>1, <1>2, <1>3, TypeCorrect, PTL DEF Spec

-----------------------------------------------------------------------------
(* Ceremonies.                                                               *)

Taking == {q \in Requests : At(q, "burn") \/ At(q, "read") \/ At(q, "count") \/ At(q, "attest")}

(* A challenge is kept under one key at most, and whoever took it and has     *)
(* burnt it, or had it answered, will not find it again.                     *)
Kept ==
    /\ \A k, j \in Keys : challenge[k] # None /\ challenge[k] = challenge[j] => k = j
    /\ \A q \in Taking : /\ request[q].taken \in issued
                         /\ \A k \in Keys : challenge[k] = request[q].taken => k = request[q].key
    /\ \A n \in Nonces : n \notin issued => answered[n] = 0
Away(n) == \A k \in Keys : challenge[k] # n
TakenOnce(n) ==
    /\ \A p, q \in Took(n) : p = q
    /\ \A q \in Took(n) : At(q, "burn") \/ Away(n)
    /\ answered[n] = 0 \/ (answered[n] = 1 /\ Took(n) = {} /\ Away(n))
Burnt == Kept /\ \A n \in Nonces : n \notin shared => TakenOnce(n)

LEMMA BurntKept ==
    ASSUME TypeOK, TypeOK', Burnt, [Next]_vars
    PROVE  Burnt'
<1>1. \A n \in Nonces : \A q \in Requests : /\ q \in Took(n) <=> q \in Taking /\ request[q].taken = n
                                            /\ q \in Took(n)' <=> q \in Taking' /\ request'[q].taken = n
  BY DEF Took, Taking
<1>2. \A n \in Nonces : Took(n) \subseteq Requests /\ Took(n)' \subseteq Requests
  BY DEF Took
<1>3. /\ Taking \subseteq Requests /\ Taking' \subseteq Requests
      /\ \A q \in Requests : q \in Taking <=> request[q].step \in {"burn", "read", "count", "attest"}
      /\ \A q \in Requests : q \in Taking' <=> request'[q].step \in {"burn", "read", "count", "attest"}
      /\ \A q \in Requests : At(q, "burn") <=> request[q].step = "burn"
      /\ \A q \in Requests : At(q, "burn")' <=> request'[q].step = "burn"
  BY DEF Taking, At
<1>4. \A q \in Taking : /\ request[q].taken \in Nonces /\ request[q].key \in Keys
                        /\ request[q] \in Answering
  BY StepForm DEF Taking, Answering
<1>5. \A n \in Nonces : n # None
  BY ChallengeAssumption
<1>6. ASSUME NEW q \in Requests, NEW r, request' = [request EXCEPT ![q] = r]
      PROVE  request'[q] = r /\ \A x \in Requests \ {q} : request'[x] = request[x]
  BY <1>6 DEF TypeOK
<1>7. Idle.step = "idle"
  BY DEF Idle
\* Challenges go, and so do the requests that took them.
<1>8. ASSUME UNCHANGED <<issued, answered, shared>>,
             \A k \in Keys : challenge'[k] = challenge[k] \/ challenge'[k] = None,
             \A q \in Taking' : /\ q \in Taking /\ request'[q].taken = request[q].taken
                                /\ request'[q].key = request[q].key
                                /\ At(q, "burn")' <=> At(q, "burn")
      PROVE  Burnt'
  <2>1. Kept'
    BY <1>4, <1>5, <1>8 DEF Burnt, Kept
  <2>2. ASSUME NEW n \in Nonces
        PROVE  /\ Took(n)' \subseteq Took(n) /\ (Away(n) => Away(n)')
               /\ \A q \in Took(n)' : At(q, "burn")' <=> At(q, "burn")
    BY <1>1, <1>2, <1>5, <1>8 DEF Away
  <2>3. ASSUME NEW n \in Nonces, TakenOnce(n)
        PROVE  TakenOnce(n)'
    <3>1. answered'[n] = answered[n] /\ Took(n)' \subseteq Took(n) /\ (Away(n) => Away(n)')
      BY <1>8, <2>2
    <3>2. \A p, q \in Took(n)' : p = q
      BY <2>3, <3>1 DEF TakenOnce
    <3>3. \A q \in Took(n)' : At(q, "burn")' \/ Away(n)'
      BY <2>2, <2>3, <3>1 DEF TakenOnce
    <3>4. answered'[n] = 0 \/ (answered'[n] = 1 /\ Took(n)' = {} /\ Away(n)')
      BY <2>3, <3>1 DEF TakenOnce
    <3>5. QED
      BY <3>2, <3>3, <3>4 DEF TakenOnce
  <2>4. QED
    BY <1>8, <2>1, <2>3 DEF Burnt
\* A request that takes part in no ceremony, or leaves it.
<1>9. ASSUME UNCHANGED <<issued, answered, shared>>,
             \A k \in Keys : challenge'[k] = challenge[k] \/ challenge'[k] = None,
             NEW q \in Requests, NEW r, request' = [request EXCEPT ![q] = r],
             r.step \notin {"burn", "read", "count", "attest"}
      PROVE  Burnt'
  <2>1. q \notin Taking' /\ \A x \in Requests \ {q} : request'[x] = request[x]
    <3>1. request'[q] = r /\ \A x \in Requests \ {q} : request'[x] = request[x]
      BY <1>6, <1>9
    <3>2. request'[q].step \notin {"burn", "read", "count", "attest"}
      BY <1>9, <3>1
    <3>3. QED
      BY <1>3, <3>1, <3>2
  <2>2. QED
    BY <1>3, <1>8, <1>9, <2>1
<1>10. ASSUME NEW k \in Keys, NEW n \in Nonces, Issue(k, n)
       PROVE  Burnt'
  <2>1. /\ n \notin issued /\ issued' = issued \cup {n}
        /\ challenge' = [challenge EXCEPT ![k] = n]
        /\ UNCHANGED <<answered, shared, request>>
    BY <1>10 DEF Issue
  <2>2. Taking' = Taking /\ (\A m \in Nonces : Took(m)' = Took(m))
        /\ \A q \in Requests : At(q, "burn")' <=> At(q, "burn")
    BY <2>1 DEF Taking, Took, At
  <2>3. \A j \in Keys : challenge'[j] = IF j = k THEN n ELSE challenge[j]
    BY <2>1 DEF TypeOK
  <2>4. \A j \in Keys : challenge[j] # None => challenge[j] \in issued
    BY DEF TypeOK
  <2>5. Kept'
    BY <1>5, <2>1, <2>2, <2>3, <2>4 DEF Burnt, Kept
  <2>6. ASSUME NEW m \in Nonces, m \notin shared
        PROVE  TakenOnce(m)'
    <3>1. CASE m = n
      <4>1. Took(m) = {} /\ answered[m] = 0
        BY <1>1, <1>2, <2>1, <3>1 DEF Burnt, Kept
      <4>2. QED
        BY <2>1, <2>2, <4>1 DEF TakenOnce
    <3>2. CASE m # n
      <4>1. Away(m)' <=> (\A j \in Keys : j # k => challenge[j] # m)
        BY <2>3, <3>2 DEF Away
      <4>2. TakenOnce(m)
        BY <2>6 DEF Burnt
      <4>3. /\ Took(m)' = Took(m) /\ answered'[m] = answered[m] /\ (Away(m) => Away(m)')
            /\ \A x \in Took(m) : At(x, "burn")' <=> At(x, "burn")
        BY <1>2, <2>1, <2>2, <4>1 DEF Away
      <4>4. QED
        BY <4>2, <4>3 DEF TakenOnce
    <3>3. QED
      BY <3>1, <3>2
  <2>7. QED
    BY <2>1, <2>5, <2>6 DEF Burnt
<1>11. ASSUME NEW q \in Requests, NEW k \in Keys, NEW n \in Nonces, NEW c \in Counts, Take(q, k, n, c)
       PROVE  Burnt'
  <2>1. PICK m \in Nonces : challenge[k] = m /\ m \in issued
    BY <1>11 DEF Take, TypeOK
  <2> DEFINE r == [step |-> "burn", key |-> k, taken |-> m, signed |-> n, count |-> c,
                   stored |-> None]
  <2>2. /\ request' = [request EXCEPT ![q] = r] /\ UNCHANGED <<challenge, issued, answered>>
        /\ request[q] = Idle
        /\ shared' = IF Took(m) # {} THEN shared \cup {m} ELSE shared
    BY <1>11, <2>1 DEF Take, Goes
  <2>3. r.step = "burn" /\ r.taken = m /\ r.key = k
    OBVIOUS
  <2> HIDE DEF r
  <2>4. /\ request'[q].step = "burn" /\ request'[q].taken = m /\ request'[q].key = k
        /\ q \notin Taking /\ q \in Taking' /\ At(q, "burn")'
        /\ \A x \in Requests \ {q} : request'[x] = request[x]
    BY <1>3, <1>6, <1>7, <2>2, <2>3
  <2>5. \A x \in Taking' : x = q \/ (x \in Taking /\ request'[x] = request[x])
    BY <1>3, <2>4
  <2>6. Kept'
    <3>1. \A i, j \in Keys : challenge'[i] # None /\ challenge'[i] = challenge'[j] => i = j
      BY <2>2 DEF Burnt, Kept
    <3>2. \A j \in Keys : challenge[j] = m => j = k
      BY <1>5, <2>1 DEF Burnt, Kept
    <3>3. request'[q].taken \in issued' /\ \A j \in Keys : challenge'[j] = request'[q].taken => j = request'[q].key
      BY <2>1, <2>2, <2>4, <3>2
    <3>4. \A x \in Taking : /\ request[x].taken \in issued'
                            /\ \A j \in Keys : challenge'[j] = request[x].taken => j = request[x].key
      BY <2>2 DEF Burnt, Kept
    <3>5. \A x \in Taking' : /\ request'[x].taken \in issued'
                             /\ \A j \in Keys : challenge'[j] = request'[x].taken => j = request'[x].key
      <4> SUFFICES ASSUME NEW x \in Taking'
                   PROVE  /\ request'[x].taken \in issued'
                          /\ \A j \in Keys : challenge'[j] = request'[x].taken => j = request'[x].key
        OBVIOUS
      <4>1. CASE x = q
        BY <3>3, <4>1
      <4>2. CASE x \in Taking /\ request'[x] = request[x]
        BY <3>4, <4>2
      <4>3. QED
        BY <2>5, <4>1, <4>2
    <3>6. \A j \in Nonces : j \notin issued' => answered'[j] = 0
      BY <2>2 DEF Burnt, Kept
    <3>7. QED
      BY <3>1, <3>5, <3>6 DEF Kept
  <2>7. ASSUME NEW j \in Nonces, j # m, j \notin shared
        PROVE  TakenOnce(j)'
    <3>1. \A x \in Requests : x \in Took(j)' <=> x \in Took(j)
      BY <1>1, <1>3, <2>4, <2>7
    <3>2. Took(j)' = Took(j)
      <4> DEFINE W == Took(j)'
                 V == Took(j)
      <4> HIDE DEF W, V
      <4>1. (\A x \in Requests : x \in W <=> x \in V) /\ W \subseteq Requests /\ V \subseteq Requests
        BY <1>2, <3>1 DEF W, V
      <4>2. W = V
        BY <4>1
      <4>3. QED
        BY <4>2 DEF W, V
    <3>3. \A x \in Took(j) : At(x, "burn")' <=> At(x, "burn")
      BY <1>1, <1>2, <1>3, <2>4
    <3>4. TakenOnce(j) /\ (Away(j)' <=> Away(j))
      BY <2>2, <2>7 DEF Burnt, Away
    <3>5. QED
      BY <2>2, <3>2, <3>3, <3>4 DEF TakenOnce
  <2>8. ASSUME m \notin shared'
        PROVE  TakenOnce(m)'
    <3>1. m \notin shared /\ Took(m) = {}
      BY <2>2, <2>8
    <3>2. answered[m] = 0
      BY <2>1, <3>1 DEF Burnt, TakenOnce, Away
    <3>3. \A x \in Took(m)' : x = q
      BY <1>1, <1>2, <1>3, <2>4, <3>1
    <3>4. QED
      BY <2>2, <2>4, <3>2, <3>3 DEF TakenOnce
  <2>9. QED
    BY <2>2, <2>6, <2>7, <2>8 DEF Burnt
<1>12. ASSUME NEW q \in Requests, Burn(q)
       PROVE  Burnt'
  <2>1. PICK k \in Keys, m \in Nonces : request[q].key = k /\ request[q].taken = m
    BY <1>4, <1>12 DEF Burn, Taking
  <2>2. /\ challenge' = [challenge EXCEPT ![k] = None]
        /\ UNCHANGED <<issued, answered, shared>> /\ q \in Taking
    BY <1>12, <2>1 DEF Burn, Taking
  <2>3. /\ request'[q].step \in {"attest", "read"} /\ request'[q].taken = m /\ request'[q].key = k
        /\ \A x \in Requests \ {q} : request'[x] = request[x]
    BY <1>4, <1>12, <2>1, <2>2 DEF Burn, Answering, TypeOK
  <2>4. \A x \in Taking' : /\ x \in Taking /\ request'[x].taken = request[x].taken
                           /\ request'[x].key = request[x].key
    BY <1>3, <2>1, <2>2, <2>3
  <2>5. \A j \in Keys : challenge'[j] = IF j = k THEN None ELSE challenge[j]
    BY <2>2 DEF TypeOK
  <2>6. Kept'
    BY <1>4, <1>5, <2>2, <2>4, <2>5 DEF Burnt, Kept
  <2>7. Away(m)'
    BY <1>5, <2>1, <2>2, <2>5 DEF Away, Burnt, Kept
  <2>8. ASSUME NEW n \in Nonces, n \notin shared
        PROVE  TakenOnce(n)'
    <3>1. Took(n)' \subseteq Took(n) /\ (Away(n) => Away(n)')
      BY <1>1, <1>2, <1>5, <2>4, <2>5 DEF Away
    <3>2. \A x \in Took(n)' : At(x, "burn")' \/ Away(n)'
      <4> SUFFICES ASSUME NEW x \in Took(n)'
                   PROVE  At(x, "burn")' \/ Away(n)'
        OBVIOUS
      <4>1. x \in Requests /\ x \in Took(n)
        BY <1>2, <3>1
      <4>2. CASE x = q
        BY <1>1, <2>1, <2>7, <4>1, <4>2
      <4>3. CASE x # q
        BY <1>3, <2>3, <2>8, <3>1, <4>1, <4>3 DEF Burnt, TakenOnce
      <4>4. QED
        BY <4>2, <4>3
    <3>3. TakenOnce(n)
      BY <2>8 DEF Burnt
    <3>4. QED
      BY <2>2, <3>1, <3>2, <3>3 DEF TakenOnce
  <2>9. QED
    BY <2>2, <2>6, <2>8 DEF Burnt
<1>13. ASSUME NEW q \in Requests, ReadCredential(q)
       PROVE  Burnt'
  <2> DEFINE r == [request[q] EXCEPT !.step = "count", !.stored = signCount]
  <2>1. UNCHANGED <<issued, answered, shared, challenge>> /\ At(q, "read") /\ q \in Taking
    BY <1>13 DEF ReadCredential, Taking
  <2>2. r.step = "count" /\ r.taken = request[q].taken /\ r.key = request[q].key
    BY <1>4, <2>1 DEF Answering
  <2>3. request' = [request EXCEPT ![q] = Idle] \/ request' = [request EXCEPT ![q] = r]
    BY <1>13 DEF ReadCredential, Ends, Goes
  <2> HIDE DEF r
  <2>4. CASE request' = [request EXCEPT ![q] = Idle]
    BY <1>7, <1>9, <2>1, <2>4
  <2>5. CASE request' = [request EXCEPT ![q] = r]
    <3>1. request'[q] = r /\ \A x \in Requests \ {q} : request'[x] = request[x]
      BY <1>6, <2>5
    <3>2. ~At(q, "burn") /\ ~At(q, "burn")'
      BY <1>3, <2>1, <2>2, <3>1 DEF At
    <3>3. QED
      BY <1>3, <1>8, <2>1, <2>2, <3>1, <3>2
  <2>6. QED
    BY <2>3, <2>4, <2>5
\* The one that answers is the one that took the challenge, and burnt it.
<1>14. ASSUME NEW q \in Requests, At(q, "count") \/ At(q, "attest"), Ends(q),
              UNCHANGED <<issued, shared, challenge>>,
              answered' = [answered EXCEPT ![request[q].taken] = Again(@)]
       PROVE  Burnt'
  <2>1. PICK m \in Nonces : request[q].taken = m
    BY <1>4, <1>14 DEF Taking
  <2>2. /\ answered' = [answered EXCEPT ![m] = Again(@)] /\ request' = [request EXCEPT ![q] = Idle]
        /\ q \in Taking /\ ~At(q, "burn") /\ m \in issued
    BY <1>14, <2>1 DEF Ends, Goes, Taking, At, Burnt, Kept
  <2>3. request'[q].step = "idle" /\ \A x \in Requests \ {q} : request'[x] = request[x]
    BY <1>6, <1>7, <2>2
  <2>4. q \notin Taking' /\ \A x \in Taking' : x \in Taking /\ request'[x] = request[x]
    BY <1>3, <2>3
  <2>5. \A n \in Nonces : n # m => answered'[n] = answered[n]
    BY <2>2 DEF TypeOK
  <2>6. Kept'
    BY <1>14, <2>2, <2>4, <2>5 DEF Burnt, Kept
  <2>7. ASSUME NEW n \in Nonces, n \notin shared
        PROVE  TakenOnce(n)'
    <3>1. /\ \A x \in Took(n)' : x \in Took(n) /\ (At(x, "burn")' <=> At(x, "burn"))
          /\ q \notin Took(n)' /\ TakenOnce(n) /\ Away(n)' = Away(n)
      <4>1. \A x \in Took(n)' : x \in Took(n) /\ (At(x, "burn")' <=> At(x, "burn"))
        BY <1>1, <1>2, <1>3, <2>4
      <4>2. q \notin Took(n)' /\ TakenOnce(n)
        BY <1>1, <2>4, <2>7 DEF Burnt
      <4>3. Away(n)' = Away(n)
        BY <1>14 DEF Away
      <4>4. QED
        BY <4>1, <4>2, <4>3
    <3>2. CASE n # m
      BY <2>5, <3>1, <3>2 DEF TakenOnce
    <3>3. CASE n = m
      <4>1. q \in Took(n)
        BY <1>1, <2>1, <2>2, <3>3
      <4>2. Away(n) /\ answered[n] = 0 /\ \A x \in Took(n) : x = q
        BY <2>2, <3>1, <4>1 DEF TakenOnce
      <4>3. Took(n)' = {}
        BY <3>1, <4>2
      <4>4. answered'[n] = 1
        BY <2>2, <3>3, <4>2 DEF TypeOK, Again
      <4>5. QED
        BY <3>1, <4>2, <4>3, <4>4 DEF TakenOnce
    <3>4. QED
      BY <3>2, <3>3
  <2>8. QED
    BY <1>14, <2>6, <2>7 DEF Burnt
<1>15. ASSUME NEW q \in Requests, UpdateAfterAssertion(q)
       PROVE  Burnt'
  BY <1>14, <1>15 DEF UpdateAfterAssertion
<1>16. ASSUME NEW q \in Requests, FinishRegistration(q)
       PROVE  Burnt'
  <2>1. CASE answered' = answered
    BY <1>7, <1>9, <1>16, <2>1 DEF FinishRegistration, Ends, Goes
  <2>2. CASE answered' = [answered EXCEPT ![request[q].taken] = Again(@)]
    BY <1>14, <1>16, <2>2 DEF FinishRegistration
  <2>3. QED
    BY <1>16, <2>1, <2>2 DEF FinishRegistration
<1>17. ASSUME NEW q \in Requests, Typed(q) \/ Stop(q)
       PROVE  Burnt'
  <2>1. UNCHANGED passkey
    BY <1>17 DEF Typed, Type, Gate, Verify, Accept, Stop
  <2>2. ASSUME NEW step \in {"check", "verify", "write"}, NEW at, Goes(q, [step |-> step, at |-> at])
        PROVE  Burnt'
    <3> DEFINE r == [step |-> step, at |-> at]
    <3>1. r.step = step /\ request' = [request EXCEPT ![q] = r]
      BY <2>2 DEF Goes
    <3> HIDE DEF r
    <3>2. QED
      BY <1>9, <2>1, <3>1 DEF passkey
  <2>3. ASSUME Goes(q, Idle)
        PROVE  Burnt'
    BY <1>7, <1>9, <2>1, <2>3 DEF Goes, passkey
  <2>4. QED
    BY <1>17, <2>2, <2>3 DEF Typed, Type, Gate, Verify, Accept, Stop, Ends
<1>18. ASSUME NEW k \in Keys, Expire(k)
       PROVE  Burnt'
  <2>1. \A j \in Keys : challenge'[j] = challenge[j] \/ challenge'[j] = None
    BY <1>18 DEF Expire, TypeOK
  <2>2. QED
    BY <1>8, <1>18, <2>1 DEF Expire, Taking, At
<1>19. CASE UNCHANGED <<challenge, issued, answered, shared, request>>
  BY <1>8, <1>19 DEF Taking, At
<1>20. CASE PasskeysDelete
  <2>1. \A q \in Requests : \/ request'[q] = request[q]
                            \/ /\ At(q, "count") /\ request'[q].step = "count"
                               /\ request'[q].taken = request[q].taken
                               /\ request'[q].key = request[q].key
    BY <1>20, StepForm DEF PasskeysDelete, At, Answering
  <2>2. \A x \in Taking' : /\ x \in Taking /\ request'[x].taken = request[x].taken
                           /\ request'[x].key = request[x].key
                           /\ At(x, "burn")' <=> At(x, "burn")
    BY <2>1 DEF Taking, At
  <2>3. QED
    BY <1>8, <1>20, <2>2 DEF PasskeysDelete
<1>21. QED
  BY <1>10, <1>11, <1>12, <1>13, <1>15, <1>16, <1>17, <1>18, <1>19, <1>20
  DEF Next, vars, passkey, Ceremony, MfaPasskeyVerify, PasskeysRegisterFinish, BeginRegistration,
      BeginAssertion, Keys

(* WebAuthnService, _load_challenge and _clear_challenge: a challenge that     *)
(* only one request took from Redis is answered once.                        *)
THEOREM ChallengesOnce == Spec => []AnsweredOnce
<1>1. Init => Burnt
  <2> SUFFICES ASSUME Init PROVE Burnt
    OBVIOUS
  <2>1. Taking = {} /\ \A n \in Nonces : Took(n) = {}
    BY DEF Init, Taking, Took, At, Idle
  <2>2. QED
    BY <2>1 DEF Init, Burnt, Kept, TakenOnce
<1>2. TypeOK /\ TypeOK' /\ Burnt /\ [Next]_vars => Burnt'
  BY BurntKept
<1>3. TypeOK /\ Burnt => AnsweredOnce
  BY DEF TypeOK, Burnt, TakenOnce, AnsweredOnce
<1>4. QED
  BY <1>1, <1>2, <1>3, TypeCorrect, PTL DEF Spec

-----------------------------------------------------------------------------
(* Clones.                                                                   *)

\* The answers that were compared with the row and will write to it.
Pending == {q \in Requests : At(q, "count") /\ request[q].stored # None}

(* So long as answers do not overlap and no count goes back to 0, the row has *)
(* the highest count that was seen; the one answer that is to write to it has *)
(* read it as it is, and counts on from it.                                  *)
Follows(q) ==
    /\ request[q].stored = signCount
    /\ request[q].count = 0 \/ request[q].count > signCount
Highest ==
    /\ \A c \in Counts \ {0} : seen[c] <= 1 /\ (c > signCount => seen[c] = 0)
    /\ \A p, q \in Pending : p = q
    /\ \A q \in Pending : Follows(q)
Ascends ==
    /\ signCount = None => Pending = {}
    /\ loose \/ (signCount # None => Highest)
    /\ CountsOnce

LEMMA AscendsKept ==
    ASSUME TypeOK, TypeOK', Ascends, [Next]_vars
    PROVE  Ascends'
<1>1. /\ Pending \subseteq Requests /\ Pending' \subseteq Requests
      /\ \A q \in Requests : q \in Pending <=> request[q].step = "count" /\ request[q].stored # None
      /\ \A q \in Requests : q \in Pending' <=> request'[q].step = "count" /\ request'[q].stored # None
  BY DEF Pending, At
<1>2. ASSUME NEW q \in Requests, NEW r, request' = [request EXCEPT ![q] = r]
      PROVE  request'[q] = r /\ \A x \in Requests \ {q} : request'[x] = request[x]
  BY <1>2 DEF TypeOK
<1>3. Idle.step = "idle"
  BY DEF Idle
<1>4. /\ \A c \in Counts : c \in Nat
      /\ seen \in [Counts -> 0 .. 2] /\ seen' \in [Counts -> 0 .. 2]
      /\ signCount \in Counts \cup {None} /\ None \notin Counts
  BY ChallengeAssumption DEF Counts, TypeOK
\* The credential is left alone, and no answer is compared with it.
<1>5. ASSUME UNCHANGED <<signCount, seen, loose>>,
             \A q \in Pending' : q \in Pending /\ request'[q] = request[q]
      PROVE  Ascends'
  <2>1. ASSUME Highest
        PROVE  Highest'
    BY <1>5, <2>1 DEF Highest, Follows
  <2>2. CountsOnce'
    BY <1>5 DEF Ascends, CountsOnce
  <2>3. QED
    BY <1>5, <2>1, <2>2 DEF Ascends
<1>6. ASSUME UNCHANGED <<signCount, seen, loose>>,
             NEW q \in Requests, NEW r, request' = [request EXCEPT ![q] = r], r.step # "count"
      PROVE  Ascends'
  BY <1>1, <1>2, <1>5, <1>6
<1>7. ASSUME UNCHANGED <<signCount, seen, loose>>, NEW q \in Requests, Ends(q)
      PROVE  Ascends'
  BY <1>3, <1>6, <1>7 DEF Ends, Goes
<1>8. ASSUME NEW q \in Requests, Typed(q)
      PROVE  Ascends'
  <2>1. ASSUME NEW step \in {"check", "verify", "write"}, NEW at, Goes(q, [step |-> step, at |-> at]),
               UNCHANGED <<signCount, seen, loose>>
        PROVE  Ascends'
    <3> DEFINE r == [step |-> step, at |-> at]
    <3>1. r.step # "count" /\ request' = [request EXCEPT ![q] = r]
      BY <2>1 DEF Goes
    <3> HIDE DEF r
    <3>2. QED
      BY <1>6, <2>1, <3>1
  <2>2. UNCHANGED <<signCount, seen, loose>>
    BY <1>8 DEF Typed, Type, Gate, Verify, Accept, passkey
  <2>3. QED
    BY <1>7, <1>8, <2>1, <2>2 DEF Typed, Type, Gate, Verify, Accept, Ends
<1>9. ASSUME NEW q \in Requests, NEW k \in Keys, NEW n \in Nonces, NEW c \in Counts, Take(q, k, n, c)
      PROVE  Ascends'
  <2> DEFINE r == [step |-> "burn", key |-> k, taken |-> challenge[k], signed |-> n, count |-> c,
                   stored |-> None]
  <2>1. r.step # "count" /\ request' = [request EXCEPT ![q] = r] /\ UNCHANGED <<signCount, seen, loose>>
    BY <1>9 DEF Take, Goes
  <2> HIDE DEF r
  <2>2. QED
    BY <1>6, <2>1
<1>10. ASSUME NEW q \in Requests, Burn(q)
       PROVE  Ascends'
  <2>1. request'[q].step # "count" /\ \A x \in Requests \ {q} : request'[x] = request[x]
    BY <1>10, StepForm DEF Burn, Answering, TypeOK
  <2>2. QED
    BY <1>1, <1>5, <1>10, <2>1 DEF Burn
\* The answer joins those that are pending: another one makes the count loose.
<1>11. ASSUME NEW q \in Requests, ReadCredential(q)
       PROVE  Ascends'
  <2> DEFINE r == [request[q] EXCEPT !.step = "count", !.stored = signCount]
  <2>1. CASE Ends(q) /\ UNCHANGED loose
    BY <1>7, <1>11, <2>1 DEF ReadCredential
  <2>2. CASE /\ signCount # None /\ ~RollsBack(request[q].count, signCount)
             /\ request' = [request EXCEPT ![q] = r]
             /\ loose' = (loose \/ Others(q, "count") # {})
    <3>1. request[q] \in Answering
      BY <1>11, StepForm DEF ReadCredential
    <3>2. r.count = request[q].count /\ r.stored = signCount /\ request[q].count \in Counts
      BY <3>1 DEF Answering
    <3> HIDE DEF r
    <3>3. /\ request'[q].count = request[q].count /\ request'[q].stored = signCount
          /\ \A x \in Requests \ {q} : request'[x] = request[x]
      BY <1>2, <2>2, <3>2
    <3>4. UNCHANGED <<signCount, seen>>
      BY <1>11 DEF ReadCredential
    <3>5. CountsOnce'
      BY <2>2, <3>4 DEF Ascends, CountsOnce
    <3>6. ASSUME ~loose'
          PROVE  Highest'
      <4>1. ~loose /\ Highest /\ Others(q, "count") = {}
        BY <2>2, <3>6 DEF Ascends
      <4>2. \A x \in Pending' : x = q
        BY <1>1, <3>3, <4>1 DEF Others, At
      <4>3. request[q].count = 0 \/ request[q].count > signCount
        <5>1. signCount \in Nat /\ request[q].count \in Nat
          BY <1>4, <2>2, <3>2
        <5>2. QED
          BY <2>2, <5>1 DEF RollsBack
      <4>4. \A x \in Pending' : Follows(x)'
        BY <3>3, <3>4, <4>2, <4>3 DEF Follows
      <4>5. QED
        BY <3>4, <4>1, <4>2, <4>4 DEF Highest
    <3>7. QED
      BY <2>2, <3>4, <3>5, <3>6 DEF Ascends
  <2>3. QED
    BY <1>11, <2>1, <2>2 DEF ReadCredential
\* The one that is pending writes a count that was not seen, or a 0.
<1>12. ASSUME NEW q \in Requests, UpdateAfterAssertion(q)
       PROVE  Ascends'
  <2>1. CASE request[q].stored = None
    BY <1>7, <1>12, <2>1 DEF UpdateAfterAssertion
  <2>2. CASE request[q].stored # None
    <3>1. PICK c \in Counts : request[q].count = c
      BY <1>12, StepForm DEF UpdateAfterAssertion, Answering
    <3>2. /\ signCount' = c /\ seen' = [seen EXCEPT ![c] = Again(@)]
          /\ loose' = (loose \/ (c = 0 /\ signCount # 0))
          /\ q \in Pending /\ Ends(q)
      BY <1>12, <2>2, <3>1 DEF UpdateAfterAssertion, Pending
    <3>3. q \notin Pending' /\ \A x \in Pending' : x \in Pending
      <4>1. request'[q] = Idle /\ \A x \in Requests \ {q} : request'[x] = request[x]
        BY <1>2, <3>2 DEF Ends, Goes
      <4>2. QED
        BY <1>1, <1>3, <4>1
    <3>4. ASSUME ~loose'
          PROVE  Highest'
      <4>1. ~loose /\ Highest /\ signCount \in Counts /\ Follows(q)
        BY <1>4, <3>2, <3>4 DEF Ascends, Highest
      <4>2. c = 0 => signCount = 0
        BY <3>2, <3>4
      <4>3. c # 0 => c > signCount
        BY <3>1, <4>1 DEF Follows
      <4>4. Pending' = {}
        BY <3>2, <3>3, <4>1 DEF Highest
      <4>5. ASSUME NEW d \in Counts \ {0}
            PROVE  seen'[d] <= 1 /\ (d > signCount' => seen'[d] = 0)
        <5>1. CASE d = c
          <6>1. seen[d] = 0 /\ seen'[d] = Again(0)
            BY <1>4, <3>2, <4>1, <4>3, <4>5, <5>1 DEF Highest
          <6>2. c \in Nat
            BY <1>4
          <6>3. QED
            BY <3>2, <5>1, <6>1, <6>2 DEF Again
        <5>2. CASE d # c
          <6>1. seen'[d] = seen[d]
            BY <1>4, <3>2, <5>2
          <6>2. d > c => d > signCount
            BY <1>4, <4>1, <4>2, <4>3
          <6>3. QED
            BY <3>2, <4>1, <6>1, <6>2 DEF Highest
        <5>3. QED
          BY <5>1, <5>2
      <4>6. QED
        BY <4>4, <4>5 DEF Highest
    <3>5. signCount' # None
      BY <1>4, <3>2
    <3>6. QED
      BY <3>4, <3>5 DEF Ascends, CountsOnce, Highest
  <2>3. QED
    BY <2>1, <2>2
<1>13. ASSUME NEW q \in Requests, FinishRegistration(q)
       PROVE  Ascends'
  <2>1. CASE UNCHANGED <<signCount, seen, loose>>
    BY <1>7, <1>13, <2>1 DEF FinishRegistration
  <2>2. CASE /\ signCount = None /\ signCount' = request[q].count
             /\ seen' = Only(request[q].count) /\ loose' = FALSE
    <3>1. PICK c \in Counts : request[q].count = c
      BY <1>13, StepForm DEF FinishRegistration, Answering
    <3>2. Pending = {} /\ Ends(q)
      BY <1>13, <2>2 DEF Ascends, FinishRegistration
    <3>3. Pending' = {}
      BY <1>1, <1>2, <1>3, <3>2 DEF Ends, Goes
    <3>4. \A d \in Counts \ {0} : seen'[d] <= 1 /\ (d > c => seen'[d] = 0)
      BY <1>4, <2>2, <3>1 DEF Only
    <3>5. QED
      BY <1>4, <2>2, <3>1, <3>3, <3>4 DEF Ascends, CountsOnce, Highest
  <2>3. QED
    BY <1>13, <2>1, <2>2 DEF FinishRegistration
<1>14. CASE PasskeysDelete
  <2>1. ASSUME NEW q \in Requests
        PROVE  ~(request'[q].step = "count" /\ request'[q].stored # None)
    <3>1. CASE At(q, "count")
      <4>1. request'[q] = [request[q] EXCEPT !.stored = None] /\ request[q] \in Answering
        BY <1>14, <3>1, StepForm DEF PasskeysDelete
      <4>2. QED
        BY <4>1 DEF Answering
    <3>2. CASE ~At(q, "count")
      BY <1>14, <3>2 DEF PasskeysDelete, At
    <3>3. QED
      BY <3>1, <3>2
  <2>2. Pending' = {} /\ signCount' = None /\ UNCHANGED <<seen, loose>>
    BY <1>1, <1>14, <2>1 DEF PasskeysDelete
  <2>3. QED
    BY <2>2 DEF Ascends, CountsOnce
<1>15. ASSUME NEW q \in Requests, Stop(q)
       PROVE  Ascends'
  BY <1>7, <1>15 DEF Stop, passkey
<1>16. CASE UNCHANGED <<signCount, seen, loose, request>>
  BY <1>5, <1>16 DEF Pending, At
<1>17. QED
  BY <1>8, <1>9, <1>10, <1>11, <1>12, <1>13, <1>14, <1>15, <1>16
  DEF Next, vars, passkey, Ceremony, MfaPasskeyVerify, PasskeysRegisterFinish, BeginRegistration,
      BeginAssertion, Issue, Expire, Keys

(* WebAuthnService.verify_assertion: no count but 0 comes twice from one       *)
(* credential, unless answers overlapped or the count went back to 0.         *)
THEOREM CopiesNoticed == Spec => []CountsOnce
<1>1. Init => Ascends
  <2> SUFFICES ASSUME Init PROVE Ascends
    OBVIOUS
  <2>1. Pending = {}
    BY DEF Init, Pending, At, Idle
  <2>2. \A c \in Counts \ {0} : seen[c] <= 1 /\ (c > signCount /\ signCount # None => seen[c] = 0)
    <3>1. \A c \in Counts : c \in Nat
      BY ChallengeAssumption DEF Counts
    <3>2. QED
      BY <3>1, ChallengeAssumption DEF Init, Only, Counts
  <2>3. QED
    BY <2>1, <2>2 DEF Init, Ascends, Highest, CountsOnce
<1>2. TypeOK /\ TypeOK' /\ Ascends /\ [Next]_vars => Ascends'
  BY AscendsKept
<1>3. Ascends => CountsOnce
  BY DEF Ascends
<1>4. QED
  BY <1>1, <1>2, <1>3, TypeCorrect, PTL DEF Spec

-----------------------------------------------------------------------------
(* Induction, over a set of numbers.                                          *)
LEMMA Least ==
    ASSUME NEW T \in SUBSET Nat, T # {}
    PROVE  \E x \in T : \A y \in T : x <= y
<1> DEFINE R == OpToRel(<, Nat)
<1>1. IsWellFoundedOn(R, Nat)
  BY NatLessThanWellFounded
<1>2. \A x, y \in Nat : x < y => <<x, y>> \in R
  BY DEF OpToRel
<1> HIDE DEF R
<1>3. PICK x \in T : \A y \in T : ~(<<y, x>> \in R)
  BY <1>1, WFMin
<1>4. ASSUME NEW y \in T PROVE x <= y
  <2>1. ~(y < x)
    BY <1>2, <1>3, Zenon
  <2>2. QED
    BY <2>1
<1>5. QED
  BY <1>4

LEMMA Induct ==
    ASSUME NEW T \in SUBSET Nat, 0 \in T, \A n \in T : n + 1 \in T
    PROVE  T = Nat
<1> SUFFICES ASSUME T # Nat PROVE FALSE
  OBVIOUS
<1> DEFINE U == Nat \ T
<1>1. PICK x \in U : \A y \in U : x <= y
  <2>1. U \in SUBSET Nat /\ U # {}
    OBVIOUS
  <2> HIDE DEF U
  <2>2. QED
    BY <2>1, Least
<1>2. x # 0 /\ x \in Nat
  BY <1>1
<1>3. x - 1 \in Nat /\ x - 1 \notin U
  BY <1>1, <1>2
<1>4. QED
  BY <1>1, <1>2, <1>3

-----------------------------------------------------------------------------
(* Sums over the times of a window.                                          *)

First(s) == CHOOSE t \in s : TRUE
\* As FoldSet goes through the subsets of a set
Sums(f, S, sum) ==
    sum = [s \in SUBSET S |-> IF s = {} THEN 0 ELSE f[First(s)] + sum[s \ {First(s)}]]

(* The sets of n times at most: what induction goes by.                      *)
Small(S, n) == {s \in SUBSET S : Cardinality(s) <= n}

LEMMA FirstIsIn ==
    ASSUME NEW s, s # {}
    PROVE  First(s) \in s
  BY DEF First

LEMMA SubsetsAreFinite ==
    ASSUME NEW s \in SUBSET Times
    PROVE  /\ IsFiniteSet(s) /\ Cardinality(s) \in Nat
           /\ \A x \in s : Cardinality(s \ {x}) = Cardinality(s) - 1
           /\ Cardinality(s) = 0 <=> s = {}
<1>1. IsFiniteSet(Times)
  BY WindowAssumption, FS_Interval DEF Times
<1>2. IsFiniteSet(s)
  BY <1>1, FS_Subset
<1>3. QED
  BY <1>2, FS_CardinalityType, FS_RemoveElement, FS_EmptySet

LEMMA Smaller ==
    ASSUME NEW S \in SUBSET Times, NEW n \in Nat, NEW s \in Small(S, n + 1), NEW x \in s
    PROVE  s \ {x} \in Small(S, n)
<1>1. s \in SUBSET Times
  BY DEF Small
<1>2. QED
  BY <1>1, SubsetsAreFinite DEF Small

LEMMA SumsExist ==
    ASSUME NEW S \in SUBSET Times, NEW f
    PROVE  \E sum : Sums(f, S, sum)
<1> DEFINE Upto(n, g) ==
               \A s \in Small(S, n) :
                   g[s] = IF s = {} THEN 0 ELSE f[First(s)] + g[s \ {First(s)}]
           T == {n \in Nat : \E g : Upto(n, g)}
<1>1. 0 \in T
  <2> DEFINE g == [s \in SUBSET S |-> 0]
  <2>1. Upto(0, g)
    BY SubsetsAreFinite DEF Small
  <2>2. QED
    BY <2>1
<1>2. ASSUME NEW n \in T PROVE n + 1 \in T
  <2>1. PICK g : Upto(n, g)
    BY <1>2
  <2> DEFINE h == [s \in SUBSET S |-> IF s = {} THEN 0 ELSE f[First(s)] + g[s \ {First(s)}]]
  <2>2. ASSUME NEW s \in Small(S, n) PROVE h[s] = g[s]
    BY <2>1 DEF Small
  <2>3. ASSUME NEW s \in Small(S, n + 1)
        PROVE  h[s] = IF s = {} THEN 0 ELSE f[First(s)] + h[s \ {First(s)}]
    <3>1. CASE s = {}
      BY <3>1
    <3>2. CASE s # {}
      <4>1. s \ {First(s)} \in Small(S, n)
        BY <3>2, FirstIsIn, Smaller
      <4>2. h[s \ {First(s)}] = g[s \ {First(s)}]
        BY <2>2, <4>1
      <4>3. s \in SUBSET S
        BY DEF Small
      <4>4. QED
        BY <3>2, <4>2, <4>3
    <3>3. QED
      BY <3>1, <3>2
  <2> HIDE DEF h
  <2>4. Upto(n + 1, h)
    BY <2>3
  <2>5. \E k : Upto(n + 1, k)
    BY <2>4
  <2> HIDE DEF Upto
  <2>6. QED
    BY <2>5
<1>3. T = Nat
  <2>1. T \in SUBSET Nat
    OBVIOUS
  <2> HIDE DEF T
  <2>2. QED
    BY <1>1, <1>2, <2>1, Induct
<1>4. PICK n \in Nat : n = Cardinality(S)
  BY SubsetsAreFinite
<1>5. PICK g : Upto(n, g)
  BY <1>3
<1>6. Small(S, n) = SUBSET S
  <2>1. ASSUME NEW s \in SUBSET S PROVE Cardinality(s) <= Cardinality(S)
    BY SubsetsAreFinite, FS_Subset
  <2>2. QED
    BY <1>4, <2>1 DEF Small
<1> DEFINE sum == [s \in SUBSET S |-> g[s]]
<1>7. ASSUME NEW s \in SUBSET S, s # {} PROVE s \ {First(s)} \in SUBSET S
  OBVIOUS
<1>8. ASSUME NEW s \in SUBSET S
      PROVE  sum[s] = IF s = {} THEN 0 ELSE f[First(s)] + sum[s \ {First(s)}]
  BY <1>5, <1>6, <1>7
<1>9. Sums(f, S, sum)
  BY <1>8 DEF Sums
<1>10. QED
  BY <1>9

LEMMA TotalIsLast ==
    ASSUME NEW S \in SUBSET Times, NEW f
    PROVE  \E sum : Sums(f, S, sum) /\ Total(f, S) = sum[S]
<1>1. \E sum : Sums(f, S, sum)
  BY SumsExist
<1> DEFINE sum == CHOOSE g : Sums(f, S, g)
<1>2. Sums(f, S, sum)
  BY <1>1
<1>3. Total(f, S) = sum[S]
  BY DEF Total, FoldSet, MapThenFoldSet, Sums, First
<1>4. QED
  BY <1>2, <1>3
(* Sums over a set and over one that it contains agree on what they share.    *)
LEMMA SumsAgree ==
    ASSUME NEW S \in SUBSET Times, NEW f, NEW sum, Sums(f, S, sum),
           NEW S2 \in SUBSET S, NEW sum2, Sums(f, S2, sum2)
    PROVE  sum[S2] = sum2[S2]
<1> DEFINE T == {n \in Nat : \A s \in Small(S2, n) : sum[s] = sum2[s]}
<1>0. S2 \in SUBSET Times
  OBVIOUS
<1>1. ASSUME NEW s \in SUBSET S2
      PROVE  /\ sum[s] = IF s = {} THEN 0 ELSE f[First(s)] + sum[s \ {First(s)}]
             /\ sum2[s] = IF s = {} THEN 0 ELSE f[First(s)] + sum2[s \ {First(s)}]
  BY DEF Sums
<1>2. 0 \in T
  <2>1. ASSUME NEW s \in Small(S2, 0) PROVE s = {} /\ s \in SUBSET S2
    BY <1>0, SubsetsAreFinite DEF Small
  <2>2. QED
    BY <1>1, <2>1
<1>3. ASSUME NEW n \in T PROVE n + 1 \in T
  <2>1. ASSUME NEW s \in Small(S2, n + 1) PROVE sum[s] = sum2[s]
    <3>1. s \in SUBSET S2
      BY DEF Small
    <3>2. CASE s = {}
      BY <1>1, <3>1, <3>2
    <3>3. CASE s # {}
      <4>1. s \ {First(s)} \in Small(S2, n)
        BY <1>0, <3>3, FirstIsIn, Smaller
      <4>2. sum[s \ {First(s)}] = sum2[s \ {First(s)}]
        BY <4>1
      <4>3. QED
        BY <1>1, <3>1, <3>3, <4>2
    <3>4. QED
      BY <3>2, <3>3
  <2>2. QED
    BY <2>1
<1>4. T = Nat
  <2>1. T \in SUBSET Nat
    OBVIOUS
  <2> HIDE DEF T
  <2>2. QED
    BY <1>2, <1>3, <2>1, Induct
<1>5. S2 \in Small(S2, Cardinality(S2)) /\ Cardinality(S2) \in Nat
  BY <1>0, SubsetsAreFinite DEF Small
<1>6. QED
  BY <1>4, <1>5

(* What Total is, with any member taken first.                                  *)
LEMMA TotalByFirst ==
    ASSUME NEW S \in SUBSET Times, NEW f
    PROVE  Total(f, S) = IF S = {} THEN 0 ELSE f[First(S)] + Total(f, S \ {First(S)})
<1>1. PICK sum : Sums(f, S, sum) /\ Total(f, S) = sum[S]
  BY TotalIsLast
<1>2. CASE S = {}
  BY <1>1, <1>2 DEF Sums
<1>3. CASE S # {}
  <2> DEFINE R == S \ {First(S)}
  <2>1. R \in SUBSET S /\ R \in SUBSET Times
    OBVIOUS
  <2>2. sum[S] = f[First(S)] + sum[R]
    BY <1>1, <1>3 DEF Sums
  <2> HIDE DEF R
  <2>3. PICK rest : Sums(f, R, rest) /\ Total(f, R) = rest[R]
    BY <2>1, TotalIsLast
  <2>4. sum[R] = rest[R]
    BY <1>1, <2>1, <2>3, SumsAgree
  <2>5. Total(f, S) = f[First(S)] + Total(f, R)
    BY <1>1, <2>2, <2>3, <2>4
  <2>6. QED
    BY <1>3, <2>5 DEF R
<1>4. QED
  BY <1>2, <1>3

LEMMA TotalTakes ==
    ASSUME NEW S \in SUBSET Times, NEW f \in [Times -> Nat]
    PROVE  Total(f, S) \in Nat /\ \A x \in S : Total(f, S) = f[x] + Total(f, S \ {x})
<1> DEFINE Takes(s) == Total(f, s) \in Nat /\ \A x \in s : Total(f, s) = f[x] + Total(f, s \ {x})
           T == {n \in Nat : \A s \in Small(Times, n) : Takes(s)}
<1>0. Takes({})
  BY TotalByFirst
<1>1. 0 \in T
  <2>1. ASSUME NEW s \in Small(Times, 0) PROVE s = {}
    BY SubsetsAreFinite DEF Small
  <2> HIDE DEF Takes
  <2>2. QED
    BY <1>0, <2>1
<1>2. ASSUME NEW n \in T PROVE n + 1 \in T
  <2>1. ASSUME NEW s \in Small(Times, n + 1) PROVE Takes(s)
    <3>1. s \in SUBSET Times
      BY DEF Small
    <3>2. CASE s = {}
      <4> HIDE DEF Takes
      <4>1. QED
        BY <1>0, <3>2
    <3>3. CASE s # {}
      <4> DEFINE c == First(s)
      <4>1. c \in s /\ c \in Times /\ f[c] \in Nat
        BY <3>1, <3>3, FirstIsIn
      <4>2. Total(f, s) = f[c] + Total(f, s \ {c})
        BY <3>1, <3>3, TotalByFirst
      <4> HIDE DEF c
      <4>3. \A x \in s : Takes(s \ {x})
        BY Smaller
      <4>4. Total(f, s) \in Nat
        BY <4>1, <4>2, <4>3
      <4>5. ASSUME NEW x \in s, x # c PROVE Total(f, s) = f[x] + Total(f, s \ {x})
        <5>1. Total(f, s \ {c}) = f[x] + Total(f, (s \ {c}) \ {x})
          BY <4>1, <4>3, <4>5
        <5>2. Total(f, s \ {x}) = f[c] + Total(f, (s \ {x}) \ {c})
          BY <4>1, <4>3, <4>5
        <5>3. (s \ {c}) \ {x} = (s \ {x}) \ {c}
          OBVIOUS
        <5>4. x \in Times /\ f[x] \in Nat
          BY <3>1
        <5>5. Total(f, (s \ {c}) \ {x}) \in Nat
          <6>1. CASE n = 0
            <7>1. s \ {c} \in SUBSET Times /\ Cardinality(s \ {c}) = 0
              BY <3>1, <4>1, <6>1, SubsetsAreFinite DEF Small
            <7>2. QED
              BY <4>5, <7>1, SubsetsAreFinite
          <6>2. CASE n # 0
            <7>1. s \ {c} \in Small(Times, n)
              BY <4>1, Smaller
            <7>2. n - 1 \in Nat /\ (n - 1) + 1 = n
              BY <6>2
            <7>3. (s \ {c}) \ {x} \in Small(Times, n - 1)
              BY <4>5, <7>1, <7>2, Smaller
            <7>4. (s \ {c}) \ {x} \in Small(Times, n)
              BY <7>2, <7>3, SubsetsAreFinite DEF Small
            <7>5. QED
              BY <7>4
          <6>3. QED
            BY <6>1, <6>2
        <5>6. Total(f, s) = f[c] + (f[x] + Total(f, (s \ {c}) \ {x}))
          BY <4>2, <5>1
        <5>7. f[x] + Total(f, s \ {x}) = f[x] + (f[c] + Total(f, (s \ {c}) \ {x}))
          BY <5>2, <5>3
        <5>8. \A i, j, k \in Nat : i + (j + k) = j + (i + k)
          OBVIOUS
        <5>9. QED
          BY <4>1, <5>4, <5>5, <5>6, <5>7, <5>8
      <4>6. QED
        BY <4>2, <4>4, <4>5
    <3>4. QED
      BY <3>2, <3>3
  <2> HIDE DEF Takes
  <2>2. QED
    BY <2>1
<1>3. T = Nat
  <2>1. T \in SUBSET Nat
    OBVIOUS
  <2> HIDE DEF T
  <2>2. QED
    BY <1>1, <1>2, <2>1, Induct
<1>4. S \in Small(Times, Cardinality(S)) /\ Cardinality(S) \in Nat
  BY SubsetsAreFinite DEF Small
<1>5. QED
  BY <1>3, <1>4

(* A sum is at most another one, if its members are, and those that are not   *)
(* in the other one add nothing.                                              *)
LEMMA TotalIsMonotone ==
    ASSUME NEW W \in SUBSET Times, NEW V \in SUBSET Times,
           NEW f \in [Times -> Nat], NEW g \in [Times -> Nat],
           \A t \in W : f[t] <= (IF t \in V THEN g[t] ELSE 0)
    PROVE  Total(f, W) <= Total(g, V)
<1> DEFINE Below(w, v) ==
               (\A t \in w : f[t] <= (IF t \in v THEN g[t] ELSE 0)) => Total(f, w) <= Total(g, v)
           T == {n \in Nat : \A w \in Small(Times, n), v \in SUBSET Times : Below(w, v)}
<1>1. 0 \in T
  <2>1. ASSUME NEW w \in Small(Times, 0) PROVE w = {}
    BY SubsetsAreFinite DEF Small
  <2>2. ASSUME NEW v \in SUBSET Times PROVE Below({}, v)
    <3>1. Total(f, {}) = 0 /\ Total(g, v) \in Nat
      BY TotalByFirst, TotalTakes
    <3>2. QED
      BY <3>1
  <2> HIDE DEF Below
  <2>3. QED
    BY <2>1, <2>2
<1>2. ASSUME NEW n \in T PROVE n + 1 \in T
  <2>1. ASSUME NEW w \in Small(Times, n + 1), NEW v \in SUBSET Times PROVE Below(w, v)
    <3>1. w \in SUBSET Times
      BY DEF Small
    <3>2. CASE w = {}
      <4>1. Total(f, {}) = 0
        BY TotalByFirst
      <4>2. QED
        BY <3>2, <4>1, TotalTakes
    <3>3. ASSUME NEW x \in w PROVE Below(w, v)
      <4>1. w \ {x} \in Small(Times, n) /\ v \ {x} \in SUBSET Times
        BY Smaller
      <4>2. Below(w \ {x}, v) /\ Below(w \ {x}, v \ {x})
        BY <4>1
      <4>3. Total(f, w) = f[x] + Total(f, w \ {x}) /\ Total(f, w \ {x}) \in Nat
        BY <3>1, TotalTakes
      <4>4. x \in v => Total(g, v) = g[x] + Total(g, v \ {x}) /\ Total(g, v \ {x}) \in Nat
        BY TotalTakes
      <4>5. Total(g, v) \in Nat /\ f[x] \in Nat /\ g[x] \in Nat
        BY <3>1, TotalTakes
      <4>6. SUFFICES ASSUME \A t \in w : f[t] <= (IF t \in v THEN g[t] ELSE 0)
                     PROVE  Total(f, w) <= Total(g, v)
        OBVIOUS
      <4>7. CASE x \in v
        <5>1. Total(f, w \ {x}) <= Total(g, v \ {x})
          BY <4>2, <4>6
        <5>2. f[x] <= g[x]
          BY <4>6, <4>7
        <5>3. QED
          BY <4>3, <4>4, <4>5, <4>7, <5>1, <5>2
      <4>8. CASE x \notin v
        <5>1. Total(f, w \ {x}) <= Total(g, v)
          BY <4>2, <4>6
        <5>2. f[x] <= 0
          BY <4>6, <4>8
        <5>3. QED
          BY <4>3, <4>5, <5>1, <5>2
      <4>9. QED
        BY <4>7, <4>8
    <3>4. QED
      BY <3>2, <3>3
  <2> HIDE DEF Below
  <2>2. QED
    BY <2>1
<1>3. T = Nat
  <2>1. T \in SUBSET Nat
    OBVIOUS
  <2> HIDE DEF T
  <2>2. QED
    BY <1>1, <1>2, <2>1, Induct
<1>4. W \in Small(Times, Cardinality(W)) /\ Cardinality(W) \in Nat
  BY SubsetsAreFinite DEF Small
<1>5. Below(W, V)
  BY <1>3, <1>4
<1>6. QED
  BY <1>5

-----------------------------------------------------------------------------
(* The window.                                                               *)

Window(t) == {s \in Times : t - PerSeconds < s /\ s <= t}
(* What a check relies on: nothing is admitted in the future, everything that *)
(* was admitted within the window of the clock is still in the bucket, and no *)
(* check comes before its stamp.                                             *)
Counted ==
    /\ \A s \in Times : s > now => admitted[s] = 0
    /\ \A s \in Window(now) : admitted[s] <= bucket[s]
Stamped == \A q \in Requests : At(q, "check") => request[q].at <= now
Admits(s) == \A t \in Times : Total(s, Window(t)) <= MaxCount

LEMMA WindowsAreTotals ==
    /\ WithinWindow <=> Admits(admitted)
    /\ WithinWindow' <=> Admits(admitted')
  BY DEF WithinWindow, Admits, Window

LEMMA MembersAreTotal ==
    ASSUME NEW set PROVE Members(set) = Total(set, Times)
  BY DEF Members

LEMMA StampedKept ==
    ASSUME TypeOK, TypeOK', Stamped, [Next]_vars
    PROVE  Stamped'
<1> USE DEF Stamped, At
<1>1. now \in Times /\ now' \in Times /\ now <= now'
  <2>1. now \in Times /\ now' \in Times
    BY DEF TypeOK, LimiterTypeOK
  <2>2. now' = now \/ now' = now + 1
    BY DEF Next, vars, limiter, Typed, Type, Gate, Check, FailsOpen, Verify, Accept, Ceremony,
       MfaPasskeyVerify, PasskeysRegisterFinish, Take, Burn, ReadCredential, UpdateAfterAssertion,
       FinishRegistration, BeginRegistration, BeginAssertion, Issue, Expire, PasskeysDelete, Stop, Tick
  <2>3. QED
    BY <2>1, <2>2 DEF Times
<1>2. ASSUME NEW q \in Requests, request'[q].step = "check"
      PROVE  request'[q] = request[q] \/ request'[q].at = now
  <2>1. request \in [Requests -> {Idle} \cup Typing \cup Answering]
    BY DEF TypeOK
  <2>2. CASE request' = request
    BY <2>2
  <2>3. ASSUME NEW p \in Requests, NEW r, Goes(p, r), r.step # "check" \/ r.at = now
        PROVE  request'[q] = request[q] \/ request'[q].at = now
    BY <1>2, <2>1, <2>3 DEF Goes
  <2>4. Idle.step # "check"
    BY DEF Idle
  <2>5. ASSUME NEW p \in Requests, Typed(p)
        PROVE  request'[q] = request[q] \/ request'[q].at = now
    BY <2>3, <2>4, <2>5 DEF Typed, Type, Gate, Verify, Accept, Ends
  <2>6. ASSUME NEW p \in Requests, Ceremony(p)
        PROVE  request'[q] = request[q] \/ request'[q].at = now
    <3>1. ASSUME Burn(p)
          PROVE  request'[q] = request[q] \/ request'[q].at = now
      BY <1>2, <2>1, <3>1 DEF Burn
    <3>2. ASSUME ReadCredential(p)
          PROVE  request'[q] = request[q] \/ request'[q].at = now
      <4> DEFINE r == [request[p] EXCEPT !.step = "count", !.stored = signCount]
      <4>1. request[p] \in Answering
        BY <3>2, StepForm DEF ReadCredential
      <4>2. r.step = "count"
        BY <4>1 DEF Answering
      <4> HIDE DEF r
      <4>3. Goes(p, Idle) \/ Goes(p, r)
        BY <3>2 DEF ReadCredential, r, Ends, Goes
      <4>4. QED
        BY <2>3, <2>4, <4>2, <4>3
    <3>3. ASSUME NEW k, NEW n, NEW c, Take(p, k, n, c)
          PROVE  request'[q] = request[q] \/ request'[q].at = now
      <4> DEFINE r == [step |-> "burn", key |-> k, taken |-> challenge[k], signed |-> n,
                       count |-> c, stored |-> None]
      <4>1. r.step # "check" /\ Goes(p, r)
        BY <3>3 DEF Take
      <4> HIDE DEF r
      <4>2. QED
        BY <2>3, <4>1
    <3>4. QED
      BY <2>3, <2>4, <2>6, <3>1, <3>2, <3>3
      DEF Ceremony, MfaPasskeyVerify, PasskeysRegisterFinish, UpdateAfterAssertion,
          FinishRegistration, Ends
  <2>7. CASE PasskeysDelete
    <3>1. request'[q] = request[q] \/ (At(q, "count") /\ request'[q] = [request[q] EXCEPT !.stored = None])
      BY <2>7 DEF PasskeysDelete
    <3>2. At(q, "count") => [request[q] EXCEPT !.stored = None].step = "count"
      BY StepForm DEF At, Answering
    <3>3. request'[q] = request[q] \/ request'[q].step = "count"
      BY <3>1, <3>2
    <3>4. QED
      BY <1>2, <3>3
  <2>8. QED
    BY <2>2, <2>3, <2>4, <2>5, <2>6, <2>7
    DEF Next, vars, BeginRegistration, BeginAssertion, Issue, Expire, Stop, Ends
<1>3. ASSUME NEW q \in Requests, request'[q].step = "check" PROVE request'[q].at <= now'
  <2>1. CASE request'[q] = request[q]
    <3>1. request[q].step = "check" /\ request[q].at <= now
      BY <1>3, <2>1
    <3>2. request[q].at \in Times
      BY <3>1, StepForm DEF Typing
    <3>3. QED
      BY <1>1, <2>1, <3>1, <3>2 DEF Times
  <2>2. CASE request'[q].at = now
    BY <1>1, <2>2
  <2>3. QED
    BY <1>2, <1>3, <2>1, <2>2
<1>4. QED
  BY <1>3

(* A check at the clock drops what has left the window and nothing else, so    *)
(* that a bucket of no more than the limit covers all that was admitted.      *)
LEMMA CheckCounts ==
    ASSUME TypeOK, TypeOK', Counted, WithinWindow, NEW stamp \in Times, stamp <= now,
           NEW passes \in BOOLEAN, Check(stamp, passes)
    PROVE  Counted' /\ WithinWindow'
<1>1. /\ now \in Times /\ now' = now
      /\ admitted \in [Times -> Nat] /\ admitted' \in [Times -> Nat]
      /\ bucket \in [Times -> 0 .. MaxCount + 1] /\ bucket' \in [Times -> 0 .. MaxCount + 1]
      /\ bucket' \in [Times -> Nat]
  BY WindowAssumption DEF TypeOK, LimiterTypeOK, Check
<1>2. \A t \in Times : t \in Nat
  BY DEF Times
<1>3. ASSUME NEW s \in Window(now), s # stamp PROVE bucket'[s] = bucket[s]
  BY <1>1, <1>2, <1>3, WindowAssumption DEF Check, Recorded, Window
<1>4. ASSUME NEW s \in Window(now), s = stamp PROVE bucket'[s] = Cap(bucket[s] + 1)
  BY <1>1, <1>2, <1>4, WindowAssumption DEF Check, Recorded, Window
<1>5. \A n \in 0 .. MaxCount + 1 : Cap(n + 1) >= n /\ (Cap(n + 1) <= MaxCount => Cap(n + 1) = n + 1)
  BY WindowAssumption DEF Cap
<1>6. CASE admitted' = admitted
  <2>1. ASSUME NEW s \in Window(now) PROVE admitted[s] <= bucket'[s]
    <3>1. s \in Times /\ admitted[s] <= bucket[s] /\ bucket'[s] >= bucket[s]
      BY <1>1, <1>3, <1>4, <1>5 DEF Counted, Window
    <3>2. QED
      BY <1>1, <3>1
  <2>2. Counted'
    BY <1>1, <1>6, <2>1 DEF Counted, Window
  <2>3. WithinWindow'
    BY <1>6, WindowsAreTotals
  <2>4. QED
    BY <2>2, <2>3
<1>7. CASE passes /\ stamp = now /\ admitted' = [admitted EXCEPT ![now] = @ + 1]
  <2>1. Total(bucket', Times) <= MaxCount
    BY <1>7, MembersAreTotal DEF Check
  <2>2. now \in Window(now)
    BY <1>1, <1>2, WindowAssumption DEF Window
  <2>3. bucket'[now] = bucket[now] + 1
    <3>1. Total(bucket', Times) = bucket'[now] + Total(bucket', Times \ {now})
      BY <1>1, TotalTakes
    <3>2. Total(bucket', Times \ {now}) \in Nat
      BY <1>1, TotalTakes
    <3>3. bucket'[now] <= MaxCount
      BY <1>1, <2>1, <3>1, <3>2, WindowAssumption
    <3>4. QED
      BY <1>1, <1>4, <1>5, <1>7, <2>2, <3>3
  <2>4. ASSUME NEW s \in Window(now) PROVE admitted'[s] <= bucket'[s]
    <3>1. s \in Times /\ admitted[s] <= bucket[s]
      BY DEF Counted, Window
    <3>2. CASE s = now
      BY <1>1, <1>7, <2>3, <3>1, <3>2
    <3>3. CASE s # now
      BY <1>1, <1>3, <1>7, <3>1, <3>3
    <3>4. QED
      BY <3>2, <3>3
  <2>5. ASSUME NEW s \in Times, s > now PROVE admitted'[s] = 0
    BY <1>1, <1>2, <1>7, <2>5 DEF Counted
  <2>6. Counted'
    BY <1>1, <2>4, <2>5 DEF Counted, Window
  <2>7. ASSUME NEW t \in Times PROVE Total(admitted', Window(t)) <= MaxCount
    <3>1. Window(t) \in SUBSET Times
      BY DEF Window
    <3>2. Total(admitted', Window(t)) \in Nat
      BY <1>1, <3>1, TotalTakes
    <3>3. CASE now \in Window(t)
      <4>1. ASSUME NEW s \in Window(t) PROVE admitted'[s] <= bucket'[s]
        <5>1. s \in Times /\ t \in Times /\ now \in Times /\ t - PerSeconds < s /\ now <= t
          BY <3>3 DEF Window
        <5>2. CASE s > now
          BY <1>1, <2>5, <5>1, <5>2
        <5>3. CASE s <= now
          <6>1. s \in Window(now)
            BY <1>2, <5>1, <5>3, WindowAssumption DEF Window
          <6>2. QED
            BY <2>4, <6>1
        <5>4. QED
          BY <1>2, <5>1, <5>2, <5>3
      <4>2. Total(admitted', Window(t)) <= Total(bucket', Times)
        BY <1>1, <3>1, <4>1, TotalIsMonotone
      <4>3. QED
        BY <1>1, <2>1, <3>2, <4>2, TotalTakes, WindowAssumption
    <3>4. CASE now \notin Window(t)
      <4>1. ASSUME NEW s \in Window(t) PROVE admitted'[s] = admitted[s]
        BY <1>1, <1>7, <3>1, <3>4
      <4>2. \A s \in Window(t) : admitted'[s] <= (IF s \in Window(t) THEN admitted[s] ELSE 0)
        BY <1>1, <3>1, <4>1
      <4>3. Total(admitted', Window(t)) <= Total(admitted, Window(t))
        BY <1>1, <3>1, <4>2, TotalIsMonotone
      <4>4. Total(admitted, Window(t)) <= MaxCount /\ Total(admitted, Window(t)) \in Nat
        BY <1>1, <3>1, TotalTakes, WindowsAreTotals DEF Admits
      <4>5. QED
        BY <3>2, <4>3, <4>4, WindowAssumption
    <3>5. QED
      BY <3>3, <3>4
  <2>8. WithinWindow'
    BY <2>7, WindowsAreTotals DEF Admits
  <2>9. QED
    BY <2>6, <2>8
<1>8. QED
  BY <1>6, <1>7 DEF Check

LEMMA TickCounts ==
    ASSUME TypeOK, TypeOK', Counted, WithinWindow, Tick
    PROVE  Counted' /\ WithinWindow'
<1>1. /\ now \in Times /\ now' = now + 1 /\ bucket' = bucket /\ admitted' = admitted
      /\ bucket \in [Times -> Nat]
  BY WindowAssumption DEF TypeOK, LimiterTypeOK, Tick
<1>2. \A t \in Times : t \in Nat
  BY DEF Times
<1>3. ASSUME NEW s \in Times, s > now + 1 PROVE admitted[s] = 0
  BY <1>1, <1>2, <1>3 DEF Counted
<1>4. ASSUME NEW s \in Times, now + 1 - PerSeconds < s, s <= now + 1
      PROVE  admitted[s] <= bucket[s]
  <2>1. CASE s = now + 1
    BY <1>1, <1>2, <2>1 DEF Counted
  <2>2. CASE s # now + 1
    BY <1>1, <1>2, <1>4, <2>2, WindowAssumption DEF Counted, Window
  <2>3. QED
    BY <2>1, <2>2
<1>5. Counted'
  <2>1. ASSUME NEW s \in Times, s > now' PROVE admitted'[s] = 0
    BY <1>1, <1>3, <2>1
  <2>2. ASSUME NEW s \in Window(now') PROVE admitted'[s] <= bucket'[s]
    <3>1. s \in Times /\ now' - PerSeconds < s /\ s <= now'
      BY DEF Window
    <3>2. now' = now + 1 /\ now \in Nat /\ s \in Nat
      BY <1>1, <1>2, <3>1
    <3>3. now + 1 - PerSeconds < s /\ s <= now + 1
      BY <3>1, <3>2, WindowAssumption
    <3>4. admitted[s] <= bucket[s]
      BY <1>4, <3>1, <3>3
    <3>5. QED
      BY <1>1, <3>4
  <2>3. QED
    BY <1>1, <2>1, <2>2 DEF Counted, Window
<1>6. WithinWindow'
  BY <1>1, WindowsAreTotals
<1>7. QED
  BY <1>5, <1>6

(* RateLimiter.check: no window of the length of the limit lets more pass     *)
(* than the limit, of the requests that Redis counted at once.               *)
THEOREM LimitHolds == Spec => []WithinWindow
<1>1. Init => Counted /\ Stamped /\ WithinWindow
  <2> SUFFICES ASSUME Init PROVE Counted /\ Stamped /\ WithinWindow
    OBVIOUS
  <2>1. /\ now = 0 /\ bucket = [t \in Times |-> 0] /\ admitted = [t \in Times |-> 0]
        /\ request = [q \in Requests |-> Idle]
    BY DEF Init, LimiterInit
  <2>2. Counted /\ Stamped
    BY <2>1 DEF Counted, Stamped, Window, At, Idle
  <2>3. ASSUME NEW t \in Times PROVE Total(admitted, Window(t)) <= MaxCount
    <3>1. Window(t) \in SUBSET Times /\ {} \in SUBSET Times
      BY DEF Window
    <3>2. admitted \in [Times -> Nat]
      BY <2>1
    <3>3. \A s \in Window(t) : admitted[s] <= (IF s \in {} THEN admitted[s] ELSE 0)
      BY <2>1, <3>1
    <3>4. Total(admitted, Window(t)) <= Total(admitted, {})
      BY <3>1, <3>2, <3>3, TotalIsMonotone
    <3>5. Total(admitted, {}) = 0 /\ Total(admitted, Window(t)) \in Nat
      BY <3>1, <3>2, TotalByFirst, TotalTakes
    <3>6. QED
      BY <3>4, <3>5, WindowAssumption
  <2>4. QED
    BY <2>2, <2>3, WindowsAreTotals DEF Admits
<1>2. TypeOK /\ TypeOK' /\ Counted /\ Stamped /\ WithinWindow /\ [Next]_vars
          => Counted' /\ Stamped' /\ WithinWindow'
  <2> SUFFICES ASSUME TypeOK, TypeOK', Counted, Stamped, WithinWindow, [Next]_vars
               PROVE  Counted' /\ WithinWindow'
    BY StampedKept
  <2>1. CASE UNCHANGED limiter
    <3>1. now' = now /\ bucket' = bucket /\ admitted' = admitted
      BY <2>1 DEF limiter
    <3>2. Counted'
      BY <3>1 DEF Counted, Window
    <3>3. WithinWindow'
      BY <3>1, WindowsAreTotals
    <3>4. QED
      BY <3>2, <3>3
  <2>2. ASSUME NEW q \in Requests, Gate(q) PROVE Counted' /\ WithinWindow'
    <3>1. CASE UNCHANGED limiter
      BY <2>1, <3>1
    <3>2. ASSUME NEW passes \in BOOLEAN, Check(request[q].at, passes)
          PROVE  Counted' /\ WithinWindow'
      <4>1. request[q].at \in Times /\ request[q].at <= now
        BY <2>2, StepForm DEF Gate, Stamped, Typing
      <4>2. QED
        BY <3>2, <4>1, CheckCounts
    <3>3. QED
      BY <2>2, <3>1, <3>2 DEF Gate, FailsOpen
  <2>3. QED
    BY <2>1, <2>2, TickCounts
    DEF Next, vars, Typed, Type, Verify, Accept, Ceremony, MfaPasskeyVerify, PasskeysRegisterFinish,
        Take, Burn, ReadCredential, UpdateAfterAssertion, FinishRegistration, BeginRegistration,
        BeginAssertion, Issue, Expire, PasskeysDelete, Stop
<1>3. QED
  BY <1>1, <1>2, TypeCorrect, PTL DEF Spec
=============================================================================
