---------------------------- MODULE SecondFactors ----------------------------
(***************************************************************************)
(* The second factors of one user, their rows and users.mfa_enabled, under  *)
(* the requests of the dashboard and of the challenge pages that run at the *)
(* same time.  Every action is one statement of a request: a SELECT that    *)
(* later statements rely on, or a statement with its COMMIT.                *)
(*                                                                         *)
(* Which code was typed in is abstracted to right or wrong; a wrong or a    *)
(* replayed one changes no row of this module and is no action.             *)
(***************************************************************************)
EXTENDS FiniteSets, Naturals

CONSTANTS
    Requests,                    \* requests that may be in flight together
    Secrets, Codes, Passkeys,    \* ids of rows: those of Secrets and Codes are used once
    NumCodes,                    \* RecoveryCodeService.NUM_CODES
    Mishaps                      \* what may happen: "crash", "lost_key"

ASSUME FactorAssumption == NumCodes \in Nat \ {0}

VARIABLES
    enabled,     \* users.mfa_enabled
    secret,      \* secret[x]: the row x of user_totp_secrets
    recovery,    \* recovery[c]: the row c of user_mfa_recovery_codes
    passkeys,    \* the rows of user_webauthn_credentials
    request,     \* request[p]: how far the request p has come
    proved,      \* history: the secrets whose first code was right
    accepted,    \* history: the recovery codes that were accepted
    repeated,    \* history: those that were accepted once more
    shared,      \* history: those that two requests held at once
    replaced     \* history: those that were deleted before they were accepted

history == <<proved, accepted, repeated, shared, replaced>>
vars == <<enabled, secret, recovery, passkeys, request, proved, accepted, repeated,
          shared, replaced>>

Idle == [step |-> "idle"]
NoRow == [row |-> "none"]

(* seen is mfa_enabled in the identity map of the request, row the row that  *)
(* it has read, has what recompute_mfa_enabled has counted so far, and left  *)
(* the recovery codes to come; calm is history: no other request has changed *)
(* what the user has enrolled, or the flag, since this one came.             *)
Step == {"start", "clear", "create", "confirm", "raise", "wipe", "fill", "stamp",
         "use", "drop", "forget", "recount", "count", "write"}
Busy == [step: Step, seen: BOOLEAN, row: Secrets \cup Codes \cup {NoRow},
         login: BOOLEAN, has: BOOLEAN, left: 0 .. NumCodes, calm: BOOLEAN]

TypeOK ==
    /\ enabled \in BOOLEAN
    /\ secret \in [Secrets -> {"unused", "pending", "confirmed", "deleted"}]
    /\ recovery \in [Codes -> {"unused", "fresh", "used", "deleted"}]
    /\ passkeys \subseteq Passkeys
    /\ request \in [Requests -> Busy \cup {Idle}]
    /\ proved \subseteq Secrets
    /\ accepted \subseteq Codes /\ repeated \subseteq Codes
    /\ shared \subseteq Codes /\ replaced \subseteq Codes

Init ==
    /\ enabled = FALSE
    /\ secret = [x \in Secrets |-> "unused"]
    /\ recovery = [c \in Codes |-> "unused"]
    /\ passkeys = {}
    /\ request = [p \in Requests |-> Idle]
    /\ proved = {}
    /\ accepted = {}
    /\ repeated = {}
    /\ shared = {}
    /\ replaced = {}

-----------------------------------------------------------------------------
At(p, step) == request[p] # Idle /\ request[p].step = step

\* p reads, and goes on with r.
Reads(p, r) == request' = [request EXCEPT ![p] = r]


To(p, step) == [request[p] EXCEPT !.step = step]

Stored == {x \in Secrets : secret[x] \in {"pending", "confirmed"}}
Confirmed == {x \in Secrets : secret[x] = "confirmed"}
Stands(c) == recovery[c] \in {"fresh", "used"}
Factors == Confirmed # {} \/ passkeys # {}

(* p commits, and goes on with r.                                            *)
Commits(p, r) ==
    LET moved == <<enabled, Confirmed, passkeys>>' # <<enabled, Confirmed, passkeys>>
    IN  request' = [q \in Requests |->
                       IF q = p THEN r
                       ELSE IF moved /\ request[q] # Idle THEN [request[q] EXCEPT !.calm = FALSE]
                       ELSE request[q]]

\* delete_by_user_id, of both tables.
NoSecret == secret' = [x \in Secrets |-> IF x \in Stored THEN "deleted" ELSE secret[x]]
NoCodes ==
    /\ recovery' = [c \in Codes |-> IF Stands(c) THEN "deleted" ELSE recovery[c]]
    /\ replaced' = replaced \cup {c \in Codes : Stands(c) /\ c \notin accepted}

\* The session token or the login session of a request leads to the user.
Arrive(p) ==
    /\ request[p] = Idle
    /\ Reads(p, [step |-> "start", seen |-> enabled, row |-> NoRow, login |-> FALSE,
                 has |-> FALSE, left |-> 0, calm |-> TRUE])
    /\ UNCHANGED <<enabled, secret, recovery, passkeys, history>>

-----------------------------------------------------------------------------
(* begin_enrollment, by itself or after a wrong code for confirm_enrollment. *)

BeginEnrollment(p) ==
    /\ At(p, "start")
    /\ Reads(p, IF Confirmed # {} THEN Idle
                ELSE To(p, IF Stored # {} THEN "clear" ELSE "create"))
    /\ UNCHANGED <<enabled, secret, recovery, passkeys, history>>

\* The rows of the user are deleted, whichever they are by now.
Clear(p) ==
    /\ At(p, "clear")
    /\ NoSecret
    /\ UNCHANGED <<enabled, recovery, passkeys, history>>
    /\ Commits(p, To(p, "create"))

\* A user has one row: the INSERT of a second one is a 503.
Create(p) ==
    /\ At(p, "create")
    /\ IF Stored = {}
       THEN \E x \in Secrets :
               /\ secret[x] = "unused"
               /\ secret' = [secret EXCEPT ![x] = "pending"]
       ELSE UNCHANGED secret
    /\ UNCHANGED <<enabled, recovery, passkeys, history>>
    /\ Commits(p, Idle)

-----------------------------------------------------------------------------
(* confirm_enrollment, with the right code for the secret that it reads.     *)

ConfirmEnrollment(p) ==
    /\ At(p, "start")
    /\ \E x \in Secrets :
          /\ secret[x] = "pending"
          /\ proved' = proved \cup {x}
          /\ Reads(p, [To(p, "confirm") EXCEPT !.row = x])
    /\ UNCHANGED <<enabled, secret, recovery, passkeys, accepted, repeated, shared, replaced>>

\* The row of the user is confirmed, whichever it is by now.
BugConfirm(p) ==
    /\ At(p, "confirm")
    /\ secret' = [x \in Secrets |-> IF x \in Stored THEN "confirmed" ELSE secret[x]]
    /\ UNCHANGED <<enabled, recovery, passkeys, history>>
    /\ Commits(p, IF Stored # {} THEN To(p, "raise") ELSE Idle)

\* An UPDATE of the very row; one that is gone is a 503.
Confirm(p) ==
    /\ At(p, "confirm")
    /\ LET x == request[p].row
           there == x \in Stored
       IN  /\ secret' = IF there THEN [secret EXCEPT ![x] = "confirmed"] ELSE secret
           /\ UNCHANGED <<enabled, recovery, passkeys, history>>
           /\ Commits(p, IF there THEN To(p, "raise") ELSE Idle)

\* An UPDATE for what this request has not seen to be set already.
Raise(p) ==
    /\ At(p, "raise")
    /\ enabled' = (enabled \/ ~request[p].seen)
    /\ UNCHANGED <<secret, recovery, passkeys, history>>
    /\ Commits(p, To(p, "wipe"))

-----------------------------------------------------------------------------
(* generate_for: after a confirmation, or asked for by an enrolled user.     *)

Regenerate(p) ==
    /\ At(p, "start") /\ request[p].seen
    /\ Reads(p, To(p, "wipe"))
    /\ UNCHANGED <<enabled, secret, recovery, passkeys, history>>

Wipe(p) ==
    /\ At(p, "wipe")
    /\ NoCodes
    /\ UNCHANGED <<enabled, secret, passkeys, proved, accepted, repeated, shared>>
    /\ Commits(p, [To(p, "fill") EXCEPT !.left = NumCodes])

Fill(p) ==
    /\ At(p, "fill")
    /\ \E c \in Codes :
          /\ recovery[c] = "unused"
          /\ recovery' = [recovery EXCEPT ![c] = "fresh"]
    /\ UNCHANGED <<enabled, secret, passkeys, history>>
    /\ Commits(p, IF request[p].left = 1 THEN Idle ELSE [request[p] EXCEPT !.left = @ - 1])

-----------------------------------------------------------------------------
(* The second factor is asked for: by a challenge page, or by the dashboard  *)
(* before it disables TOTP.                                                  *)

Verify(p) ==
    /\ At(p, "start")
    /\ \E x \in Confirmed, login \in BOOLEAN :
          Reads(p, [To(p, "stamp") EXCEPT !.row = x, !.login = login])
    /\ UNCHANGED <<enabled, secret, recovery, passkeys, history>>

\* last_used_step is written to the row, or the request ends in a 503.
Stamp(p) ==
    /\ At(p, "stamp")
    /\ UNCHANGED <<enabled, secret, recovery, passkeys, history>>
    /\ Commits(p, IF request[p].row \in Stored /\ ~request[p].login THEN To(p, "drop") ELSE Idle)

\* A code matches row c: whoever holds it already shares it.
Matches(p, c) ==
    /\ shared' = IF \E q \in Requests : At(q, "use") /\ request[q].row = c
                 THEN shared \cup {c} ELSE shared
    /\ Reads(p, [To(p, "use") EXCEPT !.row = c])

\* Used codes are looked through, too.
BugConsume(p) ==
    /\ At(p, "start")
    /\ \E c \in Codes : Stands(c) /\ Matches(p, c)
    /\ UNCHANGED <<enabled, secret, recovery, passkeys, proved, accepted, repeated, replaced>>

\* consume: the unused rows alone are looked through.
Consume(p) ==
    /\ At(p, "start")
    /\ \E c \in Codes : recovery[c] = "fresh" /\ Matches(p, c)
    /\ UNCHANGED <<enabled, secret, recovery, passkeys, proved, accepted, repeated, replaced>>

\* The row is merged back, whether or not it is still there.
BugUse(p) ==
    /\ At(p, "use")
    /\ LET c == request[p].row
       IN  /\ recovery' = [recovery EXCEPT ![c] = "used"]
           /\ accepted' = accepted \cup {c}
           /\ repeated' = IF c \in accepted THEN repeated \cup {c} ELSE repeated
    /\ UNCHANGED <<enabled, secret, passkeys, proved, shared, replaced>>
    /\ Commits(p, To(p, "drop"))

\* mark_used: an UPDATE, and a 503 where a tear-down or a new set was faster.
Use(p) ==
    /\ At(p, "use")
    /\ LET c == request[p].row
       IN  IF Stands(c)
           THEN /\ recovery' = [recovery EXCEPT ![c] = "used"]
                /\ accepted' = accepted \cup {c}
                /\ repeated' = IF c \in accepted THEN repeated \cup {c} ELSE repeated
           ELSE UNCHANGED <<recovery, accepted, repeated>>
    /\ UNCHANGED <<enabled, secret, passkeys, proved, shared, replaced>>
    /\ Commits(p, IF Stands(request[p].row) THEN To(p, "drop") ELSE Idle)

\* A challenge page finds no confirmed secret, or one that it cannot decrypt.
SelfHeal(p) ==
    /\ At(p, "start")
    /\ \/ request[p].seen /\ Confirmed = {}
       \/ Confirmed # {} /\ "lost_key" \in Mishaps
    /\ Reads(p, To(p, "drop"))
    /\ UNCHANGED <<enabled, secret, recovery, passkeys, history>>

\* An administrator asks for a new enrolment.
ForceReenroll(p) ==
    /\ At(p, "start")
    /\ Reads(p, To(p, "drop"))
    /\ UNCHANGED <<enabled, secret, recovery, passkeys, history>>

-----------------------------------------------------------------------------
(* disable, and recompute_mfa_enabled after it and after passkeys.           *)

Drop(p) ==
    /\ At(p, "drop")
    /\ NoSecret
    /\ UNCHANGED <<enabled, recovery, passkeys, history>>
    /\ Commits(p, To(p, "forget"))

Forget(p) ==
    /\ At(p, "forget")
    /\ NoCodes
    /\ UNCHANGED <<enabled, secret, passkeys, proved, accepted, repeated, shared>>
    /\ Commits(p, To(p, "recount"))

\* A passkey that is there already breaks the unique constraint: a 503.
AddPasskey(p) ==
    /\ At(p, "start")
    /\ \E k \in Passkeys \ passkeys : passkeys' = passkeys \cup {k}
    /\ UNCHANGED <<enabled, secret, recovery, history>>
    /\ Commits(p, To(p, "recount"))

RemovePasskey(p) ==
    /\ At(p, "start")
    /\ \E k \in passkeys : passkeys' = passkeys \ {k}
    /\ UNCHANGED <<enabled, secret, recovery, history>>
    /\ Commits(p, To(p, "recount"))

Recount(p) ==
    /\ At(p, "recount")
    /\ Reads(p, [To(p, "count") EXCEPT !.has = (Confirmed # {})])
    /\ UNCHANGED <<enabled, secret, recovery, passkeys, history>>

\* TOTP alone decides.
BugCount(p) ==
    /\ At(p, "count")
    /\ Reads(p, To(p, "write"))
    /\ UNCHANGED <<enabled, secret, recovery, passkeys, history>>

Count(p) ==
    /\ At(p, "count")
    /\ Reads(p, [To(p, "write") EXCEPT !.has = @ \/ passkeys # {}])
    /\ UNCHANGED <<enabled, secret, recovery, passkeys, history>>

\* An UPDATE only if the flag is not what this request has seen.
Written(p) == IF request[p].has = request[p].seen THEN enabled ELSE request[p].has

Write(p) ==
    /\ At(p, "write")
    /\ enabled' = Written(p)
    /\ UNCHANGED <<secret, recovery, passkeys, history>>
    /\ Commits(p, Idle)

-----------------------------------------------------------------------------
\* The process dies, or a statement fails: what is committed stays.
CutOff(p) ==
    /\ "crash" \in Mishaps
    /\ request[p] # Idle
    /\ Reads(p, Idle)
    /\ UNCHANGED <<enabled, secret, recovery, passkeys, history>>

Enrol(p) ==
    BeginEnrollment(p) \/ Clear(p) \/ Create(p) \/ ConfirmEnrollment(p) \/ Confirm(p) \/ Raise(p)
Generate(p) == Regenerate(p) \/ Wipe(p) \/ Fill(p)
Ask(p) == Verify(p) \/ Stamp(p) \/ Consume(p) \/ Use(p) \/ SelfHeal(p) \/ ForceReenroll(p)
Disable(p) ==
    \/ Drop(p) \/ Forget(p) \/ AddPasskey(p) \/ RemovePasskey(p)
    \/ Recount(p) \/ Count(p) \/ Write(p)

Next ==
    \E p \in Requests :
        Arrive(p) \/ Enrol(p) \/ Generate(p) \/ Ask(p) \/ Disable(p) \/ CutOff(p)

Spec == Init /\ [][Next]_vars

-----------------------------------------------------------------------------
(* Properties.                                                               *)

(* A secret is confirmed only by a right code for that very secret, however  *)
(* many tabs show QR codes of secrets that have replaced one another         *)
(* (begin_enrollment, confirm_enrollment).                                   *)
ConfirmedWasProved == \A x \in Confirmed : x \in proved

(* A recovery code is accepted once, unless two requests had read it before  *)
(* either marked it used (consume, mark_used).                               *)
OnceEach == repeated \subseteq shared

(* A recovery code that a new set or a tear-down has deleted first is never  *)
(* accepted, and no late UPDATE brings the row of a code or of a secret back *)
(* (generate_for: "the previous set cannot satisfy a future consume call").  *)
GoneForGood ==
    [][/\ replaced' \cap accepted' = {}
       /\ \A x \in Secrets : secret[x] = "deleted" => secret'[x] = "deleted"
       /\ \A c \in Codes : recovery[c] = "deleted" => recovery'[c] = "deleted"]_vars

(* A new enrolment deletes a confirmed secret only in a race: something was  *)
(* enrolled after it had looked (begin_enrollment: "Refuses to clobber a     *)
(* confirmed row").                                                          *)
ConfirmedIsKept ==
    [][\A x \in Confirmed :
          secret'[x] = "deleted" =>
              \E p \in Requests : At(p, "drop") \/ (At(p, "clear") /\ ~request[p].calm)]_vars

(* Whatever races and crashes have done to mfa_enabled before, a request     *)
(* that sets it, and in whose time nothing else was enrolled or torn down,   *)
(* leaves it right: to toggle once more heals it (the caveat of             *)
(* mfa_state.py).                                                            *)
TogglingHeals ==
    \A p \in Requests :
        request[p] # Idle /\ request[p].calm =>
            /\ At(p, "raise") => Factors
            /\ At(p, "write") => (Written(p) <=> Factors)
=============================================================================
