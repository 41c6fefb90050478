------------------------------ MODULE AuthFlow ------------------------------
(***************************************************************************)
(* The sign-in flow of fief's hosted pages: /authorize, /login, the MFA    *)
(* challenge, email verification, /consent and /logout, as they read and   *)
(* write the login session and the session token that the cookies of a     *)
(* browser name.  One action stands for one request, handled as a whole;   *)
(* what requests in flight at the same moment do to each other's rows is   *)
(* the subject of other modules: MfaBudget counts the wrong answers to a   *)
(* challenge, Challenges checks the answers themselves.                    *)
(*                                                                         *)
(* A browser of Tabbed has many tabs: it sends any request at any time,    *)
(* with the cookies it then has.  Any other browser has one tab and        *)
(* follows redirects and links.  Every user is active, of one tenant.      *)
(***************************************************************************)
EXTENDS Integers, FiniteSets

CONSTANTS
    Users, Browsers, Clients, Scopes,
    FirstParty,      \* the clients whose scopes need no consent
    Tabbed,          \* the browsers that are free to open any page
    Required,        \* tenant.mfa_required
    None,            \* a cookie or a column that is not set
    \* Bounds of the model.
    Enrolments,      \* the factors a user may have at the start
    Requests,        \* what the clients ask of /authorize
    Expiries,        \* what may elapse: "login", "session", "lock", "challenge"
    MaxLogins, MaxSessions

ASSUME FlowAssumption ==
    /\ FirstParty \subseteq Clients
    /\ Tabbed \subseteq Browsers
    /\ Required \in BOOLEAN
    /\ MaxLogins \in Nat
    /\ MaxSessions \in Nat
    /\ None \notin Users \cup Int

\* totp: the secret that was confirmed, "broken" when it no longer decrypts.
Enrolment == [verified: BOOLEAN, totp: {"none", "confirmed", "broken"},
              passkey: BOOLEAN, enabled: BOOLEAN, recovery: Nat]

(* A request to /authorize that its dependencies accept.  recent says that  *)
(* max_age is absent or above the age of the session.                       *)
Request == [client: Clients, scope: SUBSET Scopes, acr: {0, 1}, recent: BOOLEAN,
            prompt: {"absent", "none", "login", "consent"},
            screen: {"login", "register"}]

ASSUME RequestAssumption ==
    /\ Enrolments \subseteq Enrolment
    /\ Requests \subseteq Request

LoginIds == 1 .. MaxLogins
SessionIds == 1 .. MaxSessions

VARIABLES
    users,       \* users[u]: the email flag and the second factors of u
    login,       \* login[l]: the login session l, a row of login_sessions
    session,     \* session[s]: the user of the session token s
    browser,     \* browser[b]: the cookies of b and the page it is about to open
    grant,       \* grant[u, c]: the scope u has granted to c, {} for no row
    codes,       \* history: the authorization codes that were issued
    asked,       \* history: asked[l], the request that created l
    primary,     \* history: primary[l], whose password was last accepted with l
    born,        \* history: born[s], how the session token s came about
    allowed      \* history: the <<page, user, client, scope>> allowed at /consent

vars == <<users, login, session, browser, grant, codes, asked, primary, born, allowed>>

Unused == [state |-> "unused"]
Deleted == [state |-> "deleted"]
LoginRow == [client: Clients, scope: SUBSET Scopes, acr: {0, 1},
             pending: Users \cup {None}, lock: {"none", "running", "over"},
             expired: BOOLEAN, challenge: BOOLEAN]
SessionRow == [user: Users]
Pages == {"client", "login", "register", "totp", "totp-form", "recover",
          "recover-form", "passkey", "passkey-form", "verify-request", "verify",
          "consent", "consent-form", "enroll", "profile", "error", "any"}
BrowserRow == [login: LoginIds \cup {None}, session: SessionIds \cup {None},
               page: Pages, shown: SUBSET LoginIds]
Birth == [login: LoginIds \cup {None}, primary: Users \cup {None},
          factor: {"none", "totp", "recovery", "passkey"}]
NoBirth == [factor |-> None]
Code == [login: LoginIds, session: SessionIds, user: Users, client: Clients,
         scope: SUBSET Scopes, acr: {0, 1}]

TypeOK ==
    /\ users \in [Users -> Enrolment]
    /\ login \in [LoginIds -> LoginRow \cup {Unused, Deleted}]
    /\ session \in [SessionIds -> SessionRow \cup {Unused, Deleted}]
    /\ browser \in [Browsers -> BrowserRow]
    /\ grant \in [Users \X Clients -> SUBSET Scopes]
    /\ codes \subseteq Code
    /\ asked \in [LoginIds -> Request \cup {Unused}]
    /\ primary \in [LoginIds -> Users \cup {None}]
    /\ born \in [SessionIds -> Birth \cup {NoBirth}]
    /\ allowed \subseteq LoginIds \X Users \X Clients \X SUBSET Scopes

Landing(b, page) == IF b \in Tabbed THEN "any" ELSE page

Init ==
    /\ users \in [Users -> Enrolments]
    /\ login = [l \in LoginIds |-> Unused]
    /\ session = [s \in SessionIds |-> Unused]
    /\ browser = [b \in Browsers |-> [login |-> None, session |-> None,
                                      page |-> Landing(b, "client"), shown |-> {}]]
    /\ grant = [uc \in Users \X Clients |-> {}]
    /\ codes = {}
    /\ asked = [l \in LoginIds |-> Unused]
    /\ primary = [l \in LoginIds |-> None]
    /\ born = [s \in SessionIds |-> NoBirth]
    /\ allowed = {}

-----------------------------------------------------------------------------
(* What a request of browser b reads before its handler runs.               *)

At(b, page) == b \in Tabbed \/ browser[b].page = page

\* get_session_token: the row of the cookie, unless it is gone.
SessionOf(b) == browser[b].session
SignedIn(b) == SessionOf(b) # None /\ session[SessionOf(b)] \in SessionRow
UserOf(b) == session[SessionOf(b)].user

\* get_optional_login_session: no cookie, or the row of the cookie, not expired.
LoginOf(b) == browser[b].login
Stored(l) == l # None /\ login[l] \notin {Unused, Deleted}
Live(l) == Stored(l) /\ ~login[l].expired
Continues(b) == LoginOf(b) = None \/ Live(LoginOf(b))

\* The page that b opens reads the login session first, or, as /consent does,
\* after the session token.
InFlow(b) ==
    \/ b \in Tabbed
    \/ browser[b].page \notin {"client", "error", "profile", "enroll",
                               "consent", "consent-form"}
    \/ browser[b].page \in {"consent", "consent-form"} /\ SignedIn(b)

\* A response that redirects b to a page and sets no cookie.
Redirect(b, page) == browser' = [browser EXCEPT ![b].page = Landing(b, page)]

NextLogin == Cardinality({l \in LoginIds : login[l] # Unused}) + 1
NextSession == Cardinality({s \in SessionIds : session[s] # Unused}) + 1

-----------------------------------------------------------------------------
(* /authorize.                                                              *)

(* The session of b is good enough: straight on to /consent, with acr 0.    *)
Reuses(b, r) == SignedIn(b) /\ r.recent /\ r.prompt # "login" /\ r.acr = 0

(* create_login_session.  The prompt is not stored.                         *)
Authorizes(b, r) ==
    /\ NextLogin \in LoginIds
    /\ login' = [login EXCEPT ![NextLogin] =
                    [client |-> r.client, scope |-> r.scope,
                     acr |-> IF Reuses(b, r) THEN 0 ELSE 1,
                     pending |-> None, lock |-> "none",
                     expired |-> FALSE, challenge |-> FALSE]]
    /\ asked' = [asked EXCEPT ![NextLogin] = r]
    /\ browser' = [browser EXCEPT ![b].login = NextLogin,
                      ![b].page = Landing(b, IF Reuses(b, r) THEN "consent" ELSE r.screen)]
    /\ UNCHANGED <<users, session, grant, codes, primary, born, allowed>>

\* prompt=none and prompt=consent without a session: login_required.
Refused(b, r) == r.prompt \in {"none", "consent"} /\ ~SignedIn(b)

Authorize(b) ==
    \E r \in Requests :
        /\ At(b, "client") \/ At(b, "error")
        /\ ~Refused(b, r)
        /\ Authorizes(b, r)

(* The login session has expired: 303 to regenerate_authorization_url, whose *)
(* acr_values is the acr that was stored, whose prompt is the one that was   *)
(* not stored, and which has no max_age and no screen.                       *)
Regenerate(b) ==
    /\ InFlow(b)
    /\ Stored(LoginOf(b)) /\ login[LoginOf(b)].expired
    /\ LET row == login[LoginOf(b)] IN
       Authorizes(b, [client |-> row.client, scope |-> row.scope, acr |-> row.acr,
                      recent |-> TRUE, prompt |-> "absent", screen |-> "login"])

(* The row of the login cookie is gone: a fatal 400, and the cookie stays.  *)
InvalidLoginSession(b) ==
    /\ InFlow(b)
    /\ LoginOf(b) # None /\ ~Stored(LoginOf(b))
    /\ Redirect(b, "error")
    /\ UNCHANGED <<users, login, session, grant, codes, asked, primary, born, allowed>>

-----------------------------------------------------------------------------
(* rotate_session_token: the session of the cookie is deleted, and u gets a  *)
(* new one; evicted names the sessions that are revoked in the same request. *)
Rotate(b, u, evicted, birth, page) ==
    /\ NextSession \in SessionIds
    /\ session' = [s \in SessionIds |->
                      IF s = NextSession THEN [user |-> u]
                      ELSE IF s = SessionOf(b) \/ s \in evicted THEN Deleted ELSE session[s]]
    /\ browser' = [browser EXCEPT ![b].session = NextSession,
                                  ![b].page = Landing(b, page)]
    /\ born' = [born EXCEPT ![NextSession] = birth]

\* A session of u that the password alone has opened.
ByPassword(b, u) == [login |-> LoginOf(b), primary |-> u, factor |-> "none"]

\* A session that a second factor has opened.
ByFactor(b, factor) ==
    [login |-> LoginOf(b), primary |-> primary[LoginOf(b)], factor |-> factor]

\* The MFA carry-state of a login session, wiped.
Wiped(row) == [row EXCEPT !.pending = None, !.lock = "none"]

-----------------------------------------------------------------------------
(* POST /login with the right password of u.  A wrong one changes nothing    *)
(* here: see AccountLockout.                                                 *)

Remembered(b, u) ==
    primary' = IF LoginOf(b) = None THEN primary ELSE [primary EXCEPT ![LoginOf(b)] = u]

\* mfa_enabled, and a login session to carry on with: the challenge comes next.
Deferred(b, u) == users[u].enabled /\ LoginOf(b) # None

\* A user who is pending already stays pending.
BugFirstPending(b, u) ==
    /\ At(b, "login") /\ Continues(b)
    /\ Deferred(b, u)
    /\ login' = [login EXCEPT ![LoginOf(b)].pending = IF @ = None THEN u ELSE @]
    /\ Remembered(b, u)
    /\ Redirect(b, "totp")
    /\ UNCHANGED <<users, session, grant, codes, asked, born, allowed>>

LoginDeferred(b, u) ==
    /\ At(b, "login") /\ Continues(b)
    /\ Deferred(b, u)
    /\ login' = [login EXCEPT ![LoginOf(b)] = [Wiped(@) EXCEPT !.pending = u]]
    /\ Remembered(b, u)
    /\ Redirect(b, "totp")
    /\ UNCHANGED <<users, session, grant, codes, asked, born, allowed>>

\* The pending user and the lock of an earlier challenge are left behind.
BugLoginCompletes(b, u) ==
    /\ At(b, "login") /\ Continues(b)
    /\ ~Deferred(b, u)
    /\ Remembered(b, u)
    /\ Rotate(b, u, {}, ByPassword(b, u), "verify-request")
    /\ UNCHANGED <<users, login, grant, codes, asked, allowed>>

(* Otherwise the session is minted at once.  Where the tenant requires MFA   *)
(* and u has none, the way leads to the enrollment page.                     *)
LoginCompletes(b, u) ==
    /\ At(b, "login") /\ Continues(b)
    /\ ~Deferred(b, u)
    /\ login' = IF LoginOf(b) = None THEN login
                ELSE [login EXCEPT ![LoginOf(b)] = Wiped(@)]
    /\ Remembered(b, u)
    /\ Rotate(b, u, {}, ByPassword(b, u),
              IF Required /\ ~users[u].enabled THEN "enroll" ELSE "verify-request")
    /\ UNCHANGED <<users, grant, codes, asked, allowed>>

-----------------------------------------------------------------------------
(* Email verification.                                                       *)

Onward(b) == IF LoginOf(b) = None THEN "profile" ELSE "consent"

VerifyRequest(b) ==
    /\ At(b, "verify-request") /\ Continues(b)
    /\ Redirect(b, CASE ~SignedIn(b) -> "login"
                     [] SignedIn(b) /\ users[UserOf(b)].verified -> Onward(b)
                     [] OTHER -> "verify")
    /\ UNCHANGED <<users, login, session, grant, codes, asked, primary, born, allowed>>

\* The right code is typed in.
Verify(b) ==
    /\ At(b, "verify") /\ Continues(b) /\ SignedIn(b)
    /\ users' = [users EXCEPT ![UserOf(b)].verified = TRUE]
    /\ Redirect(b, Onward(b))
    /\ UNCHANGED <<login, session, grant, codes, asked, primary, born, allowed>>

\* The confirmation page of the link in the mail is submitted, in any browser.
VerifyLink(b, u) ==
    /\ b \in Tabbed
    /\ ~users[u].verified
    /\ users' = [users EXCEPT ![u].verified = TRUE]
    /\ Redirect(b, "login")
    /\ UNCHANGED <<login, session, grant, codes, asked, primary, born, allowed>>

-----------------------------------------------------------------------------
(* The MFA challenge: _gate_mfa_challenge, and the three pages behind it.    *)

ChallengePage == {"totp", "recover", "passkey"}
ChallengePages == ChallengePage \cup {"totp-form", "recover-form", "passkey-form"}

\* The gate lets b through, for the user whom the login session names.
Challenged(b) ==
    /\ LoginOf(b) # None /\ Live(LoginOf(b))
    /\ login[LoginOf(b)].pending # None
    /\ login[LoginOf(b)].lock # "running"
PendingUser(b) == login[LoginOf(b)].pending

WriteLogin(b, row) == login' = [login EXCEPT ![LoginOf(b)] = row]

\* The gate sends b back to /login; under a lock the pending user is dropped.
GateBounces(b) ==
    /\ \E page \in ChallengePages : At(b, page)
    /\ Continues(b) /\ ~Challenged(b)
    /\ login' = [l \in LoginIds |->
                    IF l = LoginOf(b) /\ login[l].lock = "running"
                    THEN [login[l] EXCEPT !.pending = None] ELSE login[l]]
    /\ Redirect(b, "login")
    /\ UNCHANGED <<users, session, grant, codes, asked, primary, born, allowed>>

\* The flag is left as it is.
BugTornDown(e) == [e EXCEPT !.totp = "none", !.recovery = 0]

(* TotpService.disable: a passkey that is left keeps mfa_enabled up.         *)
TornDown(e) == [e EXCEPT !.totp = "none", !.recovery = 0, !.enabled = e.passkey]

\* The TOTP factor is torn down and the browser is sent back to /login.
SelfHeals(b) ==
    /\ users' = [users EXCEPT ![PendingUser(b)] = TornDown(@)]
    /\ WriteLogin(b, Wiped(login[LoginOf(b)]))
    /\ Redirect(b, "login")
    /\ UNCHANGED <<session, grant, codes, asked, primary, born, allowed>>

\* The flag without a confirmed secret, whether or not there is a passkey.
Orphaned(u) == users[u].enabled /\ users[u].totp = "none"

\* GET /mfa/totp and GET /mfa/recover.
OpenChallenge(b) ==
    /\ Challenged(b)
    /\ ~Orphaned(PendingUser(b))
    /\ \/ At(b, "totp") /\ Redirect(b, "totp-form")
       \/ At(b, "recover") /\ Redirect(b, "recover-form")
    /\ UNCHANGED <<users, login, session, grant, codes, asked, primary, born, allowed>>

OpenOrphaned(b) ==
    /\ At(b, "totp") \/ At(b, "recover")
    /\ Challenged(b)
    /\ Orphaned(PendingUser(b))
    /\ SelfHeals(b)

\* GET /mfa/passkey: a new challenge, or on to /mfa/totp without a passkey.
OpenPasskey(b) ==
    /\ At(b, "passkey")
    /\ Challenged(b)
    /\ IF users[PendingUser(b)].passkey
       THEN /\ WriteLogin(b, [login[LoginOf(b)] EXCEPT !.challenge = TRUE])
            /\ Redirect(b, "passkey-form")
       ELSE Redirect(b, "totp") /\ UNCHANGED login
    /\ UNCHANGED <<users, session, grant, codes, asked, primary, born, allowed>>

\* The links from one challenge page to another, and the reload of a page.
FollowLink(b, page) ==
    /\ b \notin Tabbed
    /\ browser[b].page \in {"totp-form", "recover-form", "passkey-form"}
    /\ Redirect(b, page)
    /\ UNCHANGED <<users, login, session, grant, codes, asked, primary, born, allowed>>

(* complete_login_after_mfa.                                                 *)
Completes(b, evicted, factor) ==
    /\ WriteLogin(b, [Wiped(login[LoginOf(b)])
                         EXCEPT !.challenge = IF factor = "passkey" THEN FALSE ELSE @])
    /\ Rotate(b, PendingUser(b), evicted, ByFactor(b, factor), "verify-request")
    /\ UNCHANGED <<grant, codes, asked, primary, allowed>>

\* INCONSISTENT_STATE: a secret that does not decrypt, or none under the flag.
Inconsistent(u) == users[u].totp = "broken" \/ Orphaned(u)

TotpRight(b) ==
    /\ At(b, "totp-form")
    /\ Challenged(b)
    /\ users[PendingUser(b)].totp = "confirmed"
    /\ Completes(b, {}, "totp")
    /\ UNCHANGED users

TotpInconsistent(b) ==
    /\ At(b, "totp-form")
    /\ Challenged(b)
    /\ Inconsistent(PendingUser(b))
    /\ SelfHeals(b)

\* auto_revoke_others: the sessions of u but the one just minted.
OthersOf(u) == {s \in SessionIds : session[s] = [user |-> u]}

\* The sessions of the user live on.
BugRecoverRight(b) ==
    /\ At(b, "recover-form")
    /\ Challenged(b)
    /\ users[PendingUser(b)].recovery > 0
    /\ Completes(b, {}, "recovery")
    /\ users' = [users EXCEPT ![PendingUser(b)] = TornDown(@)]

(* A recovery code is consumed: MFA is torn down, the session minted, and    *)
(* every other session of the user is revoked.                               *)
RecoverRight(b) ==
    /\ At(b, "recover-form")
    /\ Challenged(b)
    /\ users[PendingUser(b)].recovery > 0
    /\ Completes(b, OthersOf(PendingUser(b)), "recovery")
    /\ users' = [users EXCEPT ![PendingUser(b)] = TornDown(@)]

(* verify_assertion accepts any stored credential, of any user.              *)
PasskeyRight(b) ==
    /\ At(b, "passkey-form")
    /\ Challenged(b)
    /\ login[LoginOf(b)].challenge
    /\ \E u \in Users : users[u].passkey
    /\ Completes(b, {}, "passkey")
    /\ UNCHANGED users

\* The sign count went back: the challenge is used up, nothing is counted.
PasskeyRollsBack(b) ==
    /\ At(b, "passkey-form")
    /\ Challenged(b)
    /\ login[LoginOf(b)].challenge
    /\ WriteLogin(b, [login[LoginOf(b)] EXCEPT !.challenge = FALSE])
    /\ UNCHANGED <<users, session, browser, grant, codes, asked, primary, born, allowed>>

(* _record_failed_mfa_attempt: any wrong answer may be the one that locks.   *)
Failed(row) == {row, [row EXCEPT !.lock = "running"]}

\* A form comes back with an error, or the way leads to /login under a lock.
AnswersWrong(b, page) ==
    /\ At(b, page)
    /\ Challenged(b)
    /\ \E row \in Failed(login[LoginOf(b)]) :
          /\ WriteLogin(b, row)
          /\ Redirect(b, IF row.lock = "running" THEN "login" ELSE page)
    /\ UNCHANGED <<users, session, grant, codes, asked, primary, born, allowed>>

\* INVALID or REPLAY; a secret that is gone with its flag counts as invalid.
TotpWrong(b) == AnswersWrong(b, "totp-form") /\ ~Inconsistent(PendingUser(b))

RecoverWrong(b) == AnswersWrong(b, "recover-form")

\* The page stays: the lock shows at the next request only.
PasskeyWrong(b) ==
    /\ At(b, "passkey-form")
    /\ Challenged(b)
    /\ login[LoginOf(b)].challenge
    /\ \E row \in Failed(login[LoginOf(b)]) :
          WriteLogin(b, [row EXCEPT !.challenge = FALSE])
    /\ UNCHANGED <<users, session, browser, grant, codes, asked, primary, born, allowed>>

-----------------------------------------------------------------------------
(* /consent: the session token first, then the email, then the login session. *)

Verified(b) == SignedIn(b) /\ users[UserOf(b)].verified

ConsentRedirects(b) ==
    /\ At(b, "consent") \/ At(b, "consent-form")
    /\ ~Verified(b)
    /\ Redirect(b, IF SignedIn(b) THEN "verify-request" ELSE "login")
    /\ UNCHANGED <<users, login, session, grant, codes, asked, primary, born, allowed>>

ConsentWithoutLogin(b) ==
    /\ At(b, "consent") \/ At(b, "consent-form")
    /\ Verified(b) /\ LoginOf(b) = None
    /\ Redirect(b, "error")
    /\ UNCHANGED <<users, login, session, grant, codes, asked, primary, born, allowed>>

Consents(b) ==
    /\ At(b, "consent") \/ At(b, "consent-form")
    /\ Verified(b)
    /\ LoginOf(b) # None /\ Live(LoginOf(b))

GrantOf(b) == grant[<<UserOf(b), login[LoginOf(b)].client>>]

\* Any grant will do, whatever its scope.
BugNeedsConsent(b) ==
    /\ login[LoginOf(b)].client \notin FirstParty
    /\ GrantOf(b) = {}

(* get_needs_consent.                                                        *)
NeedsConsent(b) ==
    /\ login[LoginOf(b)].client \notin FirstParty
    /\ ~(GrantOf(b) # {} /\ login[LoginOf(b)].scope \subseteq GrantOf(b))

CodeFor(b) == [login |-> LoginOf(b), session |-> SessionOf(b), user |-> UserOf(b),
               client |-> login[LoginOf(b)].client, scope |-> login[LoginOf(b)].scope,
               acr |-> login[LoginOf(b)].acr]

\* delete_login_session, with a redirect to the client; tab was submitted.
EndsLogin(b, tab) ==
    /\ WriteLogin(b, Deleted)
    /\ browser' = [browser EXCEPT ![b].login = None, ![b].shown = @ \ {tab},
                                  ![b].page = Landing(b, "client")]
    /\ UNCHANGED <<users, session, asked, primary, born>>

\* No consent is needed: a code, from a GET and from a POST alike.
ConsentIsGiven(b) ==
    /\ Consents(b)
    /\ ~NeedsConsent(b)
    /\ codes' = codes \cup {CodeFor(b)}
    /\ EndsLogin(b, None)
    /\ UNCHANGED <<grant, allowed>>

\* GET: the page names the client and the scopes of the login session.
ShowConsent(b) ==
    /\ Consents(b)
    /\ NeedsConsent(b)
    /\ browser' = [browser EXCEPT
                      ![b].page = Landing(b, "consent-form"),
                      ![b].shown = IF b \in Tabbed THEN @ \cup {LoginOf(b)} ELSE {LoginOf(b)}]
    /\ UNCHANGED <<users, login, session, grant, codes, asked, primary, born, allowed>>

\* A consent page that was rendered is submitted; tab is what it showed.
Submits(b, tab) ==
    /\ At(b, "consent-form")
    /\ tab \in browser[b].shown
    /\ Consents(b)
    /\ NeedsConsent(b)

Allow(b) ==
    \E tab \in LoginIds :
        /\ Submits(b, tab)
        /\ LET u == UserOf(b)
               row == login[LoginOf(b)]
           IN /\ grant' = [grant EXCEPT ![<<u, row.client>>] = row.scope]
              /\ allowed' = allowed \cup {<<tab, u, row.client, row.scope>>}
        /\ codes' = codes \cup {CodeFor(b)}
        /\ EndsLogin(b, tab)

Deny(b) ==
    \E tab \in LoginIds :
        /\ Submits(b, tab)
        /\ EndsLogin(b, tab)
        /\ UNCHANGED <<grant, codes, allowed>>

-----------------------------------------------------------------------------
(* /logout, and the passing of time.                                         *)

Logout(b) ==
    /\ At(b, "profile")
    /\ session' = IF SignedIn(b) THEN [session EXCEPT ![SessionOf(b)] = Deleted]
                  ELSE session
    /\ browser' = [browser EXCEPT ![b].session = None, ![b].page = Landing(b, "client")]
    /\ UNCHANGED <<users, login, grant, codes, asked, primary, born, allowed>>

\* A login session expires, and the nightly clean-up deletes the row.
ExpireLogin(l) ==
    /\ "login" \in Expiries
    /\ Stored(l)
    /\ login' = [login EXCEPT ![l] = IF @.expired THEN Deleted ELSE [@ EXCEPT !.expired = TRUE]]
    /\ UNCHANGED <<users, session, browser, grant, codes, asked, primary, born, allowed>>

\* An expired session token is never found again.
ExpireSession(s) ==
    /\ "session" \in Expiries
    /\ session[s] \in SessionRow
    /\ session' = [session EXCEPT ![s] = Deleted]
    /\ UNCHANGED <<users, login, browser, grant, codes, asked, primary, born, allowed>>

\* mfa_locked_until is reached.
ElapseLock(l) ==
    /\ "lock" \in Expiries
    /\ Stored(l) /\ login[l].lock = "running"
    /\ login' = [login EXCEPT ![l].lock = "over"]
    /\ UNCHANGED <<users, session, browser, grant, codes, asked, primary, born, allowed>>

\* The Redis key of the WebAuthn challenge times out.
ElapseChallenge(l) ==
    /\ "challenge" \in Expiries
    /\ Stored(l) /\ login[l].challenge
    /\ login' = [login EXCEPT ![l].challenge = FALSE]
    /\ UNCHANGED <<users, session, browser, grant, codes, asked, primary, born, allowed>>

-----------------------------------------------------------------------------
SignIn(b) ==
    \/ Authorize(b) \/ Regenerate(b) \/ InvalidLoginSession(b)
    \/ \E u \in Users : LoginDeferred(b, u) \/ LoginCompletes(b, u) \/ VerifyLink(b, u)
    \/ VerifyRequest(b) \/ Verify(b)

Challenge(b) ==
    \/ GateBounces(b) \/ OpenChallenge(b) \/ OpenOrphaned(b) \/ OpenPasskey(b)
    \/ \E page \in ChallengePage : FollowLink(b, page)
    \/ TotpRight(b) \/ TotpWrong(b) \/ TotpInconsistent(b)
    \/ RecoverRight(b) \/ RecoverWrong(b)
    \/ PasskeyRight(b) \/ PasskeyWrong(b) \/ PasskeyRollsBack(b)

Decide(b) ==
    \/ ConsentRedirects(b) \/ ConsentWithoutLogin(b) \/ ConsentIsGiven(b)
    \/ ShowConsent(b) \/ Allow(b) \/ Deny(b) \/ Logout(b)

Elapse ==
    \/ \E l \in LoginIds : ExpireLogin(l) \/ ElapseLock(l) \/ ElapseChallenge(l)
    \/ \E s \in SessionIds : ExpireSession(s)

Next ==
    \/ \E b \in Browsers : SignIn(b) \/ Challenge(b) \/ Decide(b)
    \/ Elapse

Spec == Init /\ [][Next]_vars

(* A browser follows a redirect at once.  Its user may take any number of    *)
(* wrong turns, and yet gets right, in the end, what can be got right again  *)
(* and again: the link, the password, a code, the mail, the button.          *)
Fairness ==
    \A b \in Browsers \ Tabbed :
        /\ WF_vars(VerifyRequest(b) \/ GateBounces(b) \/ OpenChallenge(b)
                     \/ OpenOrphaned(b) \/ OpenPasskey(b))
        /\ WF_vars(ConsentRedirects(b) \/ ConsentWithoutLogin(b)
                     \/ ConsentIsGiven(b) \/ ShowConsent(b))
        /\ \A page \in ChallengePage : SF_vars(FollowLink(b, page))
        /\ SF_vars(\E u \in Users : LoginDeferred(b, u) \/ LoginCompletes(b, u))
        /\ SF_vars(TotpRight(b) \/ TotpInconsistent(b))
        /\ SF_vars(RecoverRight(b)) /\ SF_vars(PasskeyRight(b))
        /\ SF_vars(Verify(b))
        /\ SF_vars(Allow(b) \/ Deny(b))

FairSpec == Spec /\ Fairness

-----------------------------------------------------------------------------
(* Properties.                                                               *)

(* A user is challenged with a login session only after the password of that *)
(* very user was the last one accepted with it, whoever else has tried to    *)
(* sign in with the same login session before (the POST of /login).          *)
PendingProvedPassword ==
    \A l \in LoginIds :
        Live(l) /\ login[l].pending # None => primary[l] = login[l].pending

(* A live session token that stems from a challenge is that of the user      *)
(* whose password was the last one proved with the same login session, when  *)
(* the challenge was passed (complete_login_after_mfa).  Whose passkey has   *)
(* answered it is not promised.                                              *)
FactorFollowsPassword ==
    \A s \in SessionIds :
        session[s] \in SessionRow /\ born[s].factor # "none" =>
            born[s].login # None /\ born[s].primary = session[s].user

(* Every code for a client that is not first-party covers only scopes that   *)
(* its user has allowed this client at /consent, in one go, whatever         *)
(* narrower grants have replaced the row of the grant since.                 *)
ConsentCovers ==
    \A c \in codes : c.client \notin FirstParty =>
        \E a \in allowed : a[2] = c.user /\ a[3] = c.client /\ c.scope \subseteq a[4]

(* A sign-in with a recovery code outlives every older session of its user.  *)
RecoveryEvicts ==
    \A s, t \in SessionIds :
        session[s] \in SessionRow /\ session[t] = session[s] /\ born[s].factor = "recovery"
            => t >= s

\* A user whose only factor is a passkey bounces between /login and /mfa/totp:
\* the flag stays up, and no page leads to the passkey.
Stranded(b) ==
    /\ Challenged(b)
    /\ Orphaned(PendingUser(b))
    /\ users[PendingUser(b)].passkey

(* Whoever is asked to sign in for a client, and goes on, is sent back to    *)
(* the client, with a code or with a refusal, and is not led in circles,     *)
(* unless the login session expires meanwhile: a flag without a factor and a *)
(* secret that does not decrypt are healed on the way.  One user is led in   *)
(* circles: with a passkey and nothing else (_gate_mfa_challenge).           *)
SignInEnds ==
    \A b \in Browsers \ Tabbed : \A l \in LoginIds :
        browser[b].page = "login" /\ LoginOf(b) = l
            ~> \/ browser[b].page \in {"client", "enroll"}
               \/ ~Live(l)
               \/ Stranded(b)
=============================================================================
