------------------------------ MODULE Challenges ------------------------------
(***************************************************************************)
(* The answers to second factors, where they meet time and Redis: codes of  *)
(* TOTP behind the rate limiter, and the two ceremonies of WebAuthn, whose   *)
(* challenges Redis keeps until they are used or expire.                    *)
(*                                                                         *)
(* One user with one secret and one credential.  A tick is a time step of   *)
(* TOTP.  A code is right when it is of the step before, this one or the    *)
(* next.  Whoever sees the page with a challenge may answer it, with any    *)
(* count: the credential may have been cloned, and what the library makes of *)
(* its count is not relied on.  Signatures, origins and the budget of a login *)
(* session (MfaBudget) are left out.  The user has the one kind of factor or *)
(* the other: the two share no state, so that together they would do nothing *)
(* that they do not do alone.                                                *)
(***************************************************************************)
EXTENDS RateLimiter

CONSTANTS
    Requests,  \* requests in flight
    Logins,    \* login sessions that wait for a second factor
    Enrolment, \* the key of the challenge of a registration
    Nonces,    \* challenges; each is issued once
    MaxSign,   \* a bound on the counts of authenticators
    None       \* no such value

Keys == Logins \cup {Enrolment}
Counts == 0 .. MaxSign

ASSUME ChallengeAssumption ==
    Enrolment \notin Logins /\ None \notin Nonces \cup Counts \cup Times /\ MaxSign \in Nat

VARIABLES
    factor,     \* what the user has enrolled or will enrol
    lastUsed,   \* last_used_step of the secret
    challenge,  \* challenge[k]: what Redis has for the key k
    issued,     \* the challenges issued so far
    signCount,  \* sign_count of the credential; None when there is none
    request,    \* request[q]: how far the request q has come
    accepted,   \* history: accepted[t], how many codes were accepted at t
    crossed,    \* history: the steps at which two verifications overlapped
    answered,   \* history: how often a challenge was answered rightly
    shared,     \* history: challenges that two requests took out of Redis
    seen,       \* history: seen[c], how often the credential came with the count c
    loose       \* history: two answers overlapped, or the count went back to 0

totp == <<lastUsed, accepted, crossed>>
passkey == <<challenge, issued, signCount, answered, shared, seen, loose>>
vars == <<factor, limiter, totp, passkey, request>>

Idle == [step |-> "idle"]
Typing == [step: {"check", "verify", "write"}, at: Times]
Answering == [step: {"burn", "read", "assert", "count", "attest"}, key: Keys,
              taken: Nonces, signed: Nonces, count: Counts, stored: Counts \cup {None}]

TypeOK ==
    /\ factor \in {"totp", "passkey"}
    /\ LimiterTypeOK
    /\ lastUsed \in Times \cup {None}
    /\ challenge \in [Keys -> Nonces \cup {None}]
    /\ \A k \in Keys : challenge[k] # None => challenge[k] \in issued
    /\ issued \subseteq Nonces
    /\ signCount \in Counts \cup {None}
    /\ request \in [Requests -> {Idle} \cup Typing \cup Answering]
    /\ accepted \in [Times -> 0 .. 2]
    /\ crossed \subseteq Times
    /\ answered \in [Nonces -> 0 .. 2]
    /\ shared \subseteq Nonces
    /\ seen \in [Counts -> 0 .. 2] /\ loose \in BOOLEAN

\* A credential that is new, or there is none
Only(count) == [c \in Counts |-> IF c = count THEN 1 ELSE 0]

Init ==
    /\ factor \in {"totp", "passkey"}
    /\ LimiterInit
    /\ lastUsed = None
    /\ challenge = [k \in Keys |-> None]
    /\ issued = {}
    /\ signCount \in IF factor = "passkey" THEN Counts \cup {None} ELSE {None}
    /\ request = [q \in Requests |-> Idle]
    /\ accepted = [t \in Times |-> 0]
    /\ crossed = {}
    /\ answered = [n \in Nonces |-> 0]
    /\ shared = {}
    /\ seen = Only(signCount) /\ loose = FALSE

-----------------------------------------------------------------------------
At(q, step) == request[q].step = step
Goes(q, r) == request' = [request EXCEPT ![q] = r]
Ends(q) == Goes(q, Idle)
\* Never, once, or more than once
Again(n) == IF n < 2 THEN n + 1 ELSE n

Stop(q) ==
    /\ request[q] # Idle /\ Ends(q)
    /\ UNCHANGED <<limiter, totp, passkey>>

-----------------------------------------------------------------------------
(* Codes: mfa_totp, RateLimiter.check, TotpService.verify.                   *)

Type(q) ==
    /\ request[q] = Idle
    /\ Goes(q, [step |-> "check", at |-> now])
    /\ UNCHANGED <<limiter, totp, passkey>>

\* The next step reads the clock again.
Gate(q) ==
    /\ At(q, "check")
    /\ \/ \E passes \in BOOLEAN :
             /\ Check(request[q].at, passes)
             /\ Goes(q, IF passes THEN [step |-> "verify", at |-> now] ELSE Idle)
       \/ FailsOpen /\ Goes(q, [step |-> "verify", at |-> now])
    /\ UNCHANGED <<totp, passkey>>

Others(q, step) == {p \in Requests \ {q} : At(p, step)}
Replays(t) == IF lastUsed = None THEN FALSE ELSE t <= lastUsed

\* The row is read, and the code compared: a replayed or a wrong one is refused.
Verify(q) ==
    /\ At(q, "verify")
    /\ \/ Ends(q) /\ UNCHANGED crossed
       \/ /\ ~Replays(now)
          /\ Goes(q, [step |-> "write", at |-> now])
          /\ crossed' = IF Others(q, "write") # {} THEN crossed \cup {now} ELSE crossed
    /\ UNCHANGED <<limiter, lastUsed, accepted, passkey>>

BugAccept(q) ==
    /\ At(q, "write")
    /\ accepted' = [accepted EXCEPT ![request[q].at] = Again(@)]
    /\ Ends(q)
    /\ UNCHANGED <<limiter, lastUsed, crossed, passkey>>
Accept(q) ==
    /\ At(q, "write")
    /\ lastUsed' = request[q].at
    /\ accepted' = [accepted EXCEPT ![request[q].at] = Again(@)]
    /\ Ends(q)
    /\ UNCHANGED <<limiter, crossed, passkey>>

-----------------------------------------------------------------------------
(* Passkeys: WebAuthnService and the routes that use it.                     *)

Issue(k, n) ==
    /\ n \notin issued
    /\ issued' = issued \cup {n}
    /\ challenge' = [challenge EXCEPT ![k] = n]
    /\ UNCHANGED <<limiter, totp, signCount, answered, shared, seen, loose, request>>

BeginRegistration(n) == Issue(Enrolment, n)
\* mfa_passkey: without a credential there is no challenge.
BeginAssertion(k, n) == signCount # None /\ Issue(k, n)

Expire(k) ==
    /\ challenge[k] # None
    /\ challenge' = [challenge EXCEPT ![k] = None]
    /\ UNCHANGED <<limiter, totp, issued, signCount, answered, shared, seen, loose, request>>

Took(n) ==
    {p \in Requests : \/ At(p, "burn") /\ request[p].taken = n
                      \/ At(p, "read") /\ request[p].taken = n
                      \/ At(p, "count") /\ request[p].taken = n
                      \/ At(p, "attest") /\ request[p].taken = n}

\* The challenge is read; the answer is to the challenge n, and has the count c.
Take(q, k, n, c) ==
    /\ request[q] = Idle
    /\ challenge[k] # None /\ n \in issued
    /\ Goes(q, [step |-> "burn", key |-> k, taken |-> challenge[k], signed |-> n, count |-> c,
                stored |-> None])
    /\ shared' = IF Took(challenge[k]) # {} THEN shared \cup {challenge[k]} ELSE shared
    /\ UNCHANGED <<limiter, totp, challenge, issued, signCount, answered, seen, loose>>
MfaPasskeyVerify(q, n, c) == \E k \in Logins : Take(q, k, n, c)
PasskeysRegisterFinish(q, n, c) == Take(q, Enrolment, n, c)

BugBurn(q) ==
    /\ At(q, "burn")
    /\ request' = [request EXCEPT ![q].step = IF request[q].key = Enrolment THEN "attest" ELSE "read"]
    /\ UNCHANGED <<limiter, totp, passkey>>
\* The key is deleted, whatever it has by now.
Burn(q) ==
    /\ At(q, "burn")
    /\ challenge' = [challenge EXCEPT ![request[q].key] = None]
    /\ request' = [request EXCEPT ![q].step = IF request[q].key = Enrolment THEN "attest" ELSE "read"]
    /\ UNCHANGED <<limiter, totp, issued, signCount, answered, shared, seen, loose>>

BugRollsBack(count, stored) == count < stored /\ stored > 0 /\ count # 0
RollsBack(count, stored) == count <= stored /\ stored > 0 /\ count # 0

\* The credential is read and the answer verified.
ReadCredential(q) ==
    /\ At(q, "read")
    /\ \/ Ends(q) /\ UNCHANGED loose
       \/ /\ request[q].signed = request[q].taken
          /\ signCount # None /\ ~RollsBack(request[q].count, signCount)
          /\ request' = [request EXCEPT ![q].step = "count", ![q].stored = signCount]
          /\ loose' = (loose \/ Others(q, "count") # {})
    /\ UNCHANGED <<limiter, totp, challenge, issued, signCount, answered, shared, seen>>

\* The row is written if it is still there; the sign-in goes on.
UpdateAfterAssertion(q) ==
    /\ At(q, "count")
    /\ IF request[q].stored = None THEN UNCHANGED <<signCount, seen, loose>>
       ELSE /\ signCount' = request[q].count
            /\ seen' = [seen EXCEPT ![request[q].count] = Again(@)]
            /\ loose' = (loose \/ (request[q].count = 0 /\ signCount # 0))
    /\ answered' = [answered EXCEPT ![request[q].taken] = Again(@)]
    /\ Ends(q)
    /\ UNCHANGED <<limiter, totp, challenge, issued, shared>>

\* An authenticator that is registered already refuses to be so again.
FinishRegistration(q) ==
    /\ At(q, "attest")
    /\ IF request[q].signed = request[q].taken /\ signCount = None
       THEN /\ signCount' = request[q].count
            /\ answered' = [answered EXCEPT ![request[q].taken] = Again(@)]
            /\ seen' = Only(request[q].count) /\ loose' = FALSE
       ELSE UNCHANGED <<signCount, answered, seen, loose>>
    /\ Ends(q)
    /\ UNCHANGED <<limiter, totp, challenge, issued, shared>>

\* An answer that is on its way has no row to write to: stored is None.
PasskeysDelete ==
    /\ signCount # None
    /\ signCount' = None
    /\ request' = [q \in Requests |-> IF At(q, "count") THEN [request[q] EXCEPT !.stored = None]
                                     ELSE request[q]]
    /\ UNCHANGED <<limiter, totp, challenge, issued, answered, shared, seen, loose>>

-----------------------------------------------------------------------------
Typed(q) == Type(q) \/ Gate(q) \/ Verify(q) \/ Accept(q)
Ceremony(q) ==
    \/ \E n \in Nonces, c \in Counts : MfaPasskeyVerify(q, n, c) \/ PasskeysRegisterFinish(q, n, c)
    \/ Burn(q) \/ ReadCredential(q) \/ UpdateAfterAssertion(q) \/ FinishRegistration(q)

Next ==
    /\ UNCHANGED factor
    /\ \/ factor = "totp" /\ Tick /\ UNCHANGED <<totp, passkey, request>>
       \/ factor = "totp" /\ \E q \in Requests : Typed(q)
       \/ /\ factor = "passkey"
          /\ \/ \E q \in Requests : Ceremony(q)
             \/ \E n \in Nonces : BeginRegistration(n) \/ \E k \in Logins : BeginAssertion(k, n)
             \/ \E k \in Keys : Expire(k)
             \/ PasskeysDelete
       \/ \E q \in Requests : Stop(q)

Spec == Init /\ [][Next]_vars

-----------------------------------------------------------------------------
(* Properties.                                                               *)

(* At one time step one code of TOTP is accepted: what is seen over a        *)
(* shoulder does not work at once.  Two verifications at the same time both  *)
(* read the step before either writes it, and both succeed.                 *)
OncePerStep == \A t \in Times : t \notin crossed => accepted[t] <= 1

(* A challenge is answered once, unless two answers took it out of Redis     *)
(* before one of them deleted it.                                           *)
AnsweredOnce == \A n \in Nonces : n \notin shared => answered[n] <= 1

(* verify_assertion: a clone is noticed.  From the registration of a          *)
(* credential on, no count but 0 comes twice, the one it was registered with  *)
(* included; whatever else is answered, retried or given up in between, an   *)
(* answer that is sent again, or one of a copy that lags behind, fails.  The *)
(* exceptions are the code's: two answers that overlap between reading the   *)
(* row and writing it, and a 0, which is taken from any authenticator and    *)
(* sets the count back.                                                      *)
CountsOnce == loose \/ \A c \in Counts \ {0} : seen[c] <= 1
=============================================================================
