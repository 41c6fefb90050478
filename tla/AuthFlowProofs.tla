--------------------------- MODULE AuthFlowProofs ---------------------------
(***************************************************************************)
(* Theorems of the sign-in flow, for any number of users, browsers, clients *)
(* and login sessions: every variable keeps its type, the challenge stays   *)
(* bound to the password, and so does the session it leads to, a recovery   *)
(* code evicts, no code exceeds a consent, and the budget of MfaBudget      *)
(* bounds the wrong answers.                                                *)
(***************************************************************************)
EXTENDS AuthFlow, MfaBudget, FiniteSetTheorems, TLAPS

-----------------------------------------------------------------------------
(* Rows of login_sessions.                                                  *)

\* The columns that the requests rewrite keep a row a row.
LEMMA RowOperations ==
    ASSUME NEW row \in LoginRow
    PROVE  /\ Wiped(row) \in LoginRow
           /\ Failed(row) \subseteq LoginRow
           /\ \A u \in Users \cup {None} : [row EXCEPT !.pending = u] \in LoginRow
           /\ [row EXCEPT !.challenge = TRUE] \in LoginRow
           /\ [row EXCEPT !.challenge = FALSE] \in LoginRow
           /\ [row EXCEPT !.expired = TRUE] \in LoginRow
           /\ [row EXCEPT !.lock = "over"] \in LoginRow
<1>1. Wiped(row) \in LoginRow
    BY DEF LoginRow, Wiped
<1>2. Failed(row) \subseteq LoginRow
    BY DEF LoginRow, Failed
<1>3. \A u \in Users \cup {None} : [row EXCEPT !.pending = u] \in LoginRow
    BY DEF LoginRow
<1>4. [row EXCEPT !.challenge = TRUE] \in LoginRow
    BY DEF LoginRow
<1>5. [row EXCEPT !.challenge = FALSE] \in LoginRow
    BY DEF LoginRow
<1>6. [row EXCEPT !.expired = TRUE] \in LoginRow
    BY DEF LoginRow
<1>7. [row EXCEPT !.lock = "over"] \in LoginRow
    BY DEF LoginRow
<1> QED BY <1>1, <1>2, <1>3, <1>4, <1>5, <1>6, <1>7

\* What the cookie of a browser names is a row, where a request needs one.
LEMMA CookieRow ==
    ASSUME TypeOK, NEW b \in Browsers
    PROVE  /\ LoginOf(b) \in LoginIds \cup {None}
           /\ SessionOf(b) \in SessionIds \cup {None}
           /\ Live(LoginOf(b)) => LoginOf(b) \in LoginIds /\ login[LoginOf(b)] \in LoginRow
           /\ SignedIn(b) => SessionOf(b) \in SessionIds /\ UserOf(b) \in Users
           /\ Challenged(b) => PendingUser(b) \in Users
<1>1. LoginOf(b) \in LoginIds \cup {None} /\ SessionOf(b) \in SessionIds \cup {None}
    BY DEF TypeOK, BrowserRow, LoginOf, SessionOf
<1>2. Live(LoginOf(b)) => LoginOf(b) \in LoginIds /\ login[LoginOf(b)] \in LoginRow
    BY <1>1 DEF TypeOK, Live, Stored
<1>3. SignedIn(b) => SessionOf(b) \in SessionIds /\ UserOf(b) \in Users
    BY <1>1 DEF SignedIn, UserOf, SessionRow
<1>4. Challenged(b) => PendingUser(b) \in Users
    BY <1>2 DEF Challenged, PendingUser, LoginRow
<1> QED BY <1>1, <1>2, <1>3, <1>4

\* A redirect changes the page only.
LEMMA RedirectType ==
    ASSUME TypeOK, NEW b \in Browsers, NEW page \in Pages, Redirect(b, page)
    PROVE  browser' \in [Browsers -> BrowserRow]
<1>1. Landing(b, page) \in Pages
    BY DEF Landing, Pages
<1> QED BY <1>1 DEF TypeOK, Redirect, BrowserRow

\* A row or a deletion written under the cookie of a browser.
LEMMA WriteType ==
    ASSUME TypeOK, NEW b \in Browsers, NEW row \in LoginRow \cup {Deleted}, WriteLogin(b, row)
    PROVE  login' \in [LoginIds -> LoginRow \cup {Unused, Deleted}]
BY DEF TypeOK, WriteLogin

\* A rotation writes a session token, its birth and the cookie.
LEMMA RotateType ==
    ASSUME TypeOK, NEW b \in Browsers, NEW u \in Users, NEW evicted \in SUBSET SessionIds,
           NEW birth \in Birth, NEW page \in Pages, Rotate(b, u, evicted, birth, page)
    PROVE  /\ session' \in [SessionIds -> SessionRow \cup {Unused, Deleted}]
           /\ browser' \in [Browsers -> BrowserRow]
           /\ born' \in [SessionIds -> Birth \cup {NoBirth}]
<1>1. Landing(b, page) \in Pages
    BY DEF Landing, Pages
<1>2. NextSession \in SessionIds
    BY DEF Rotate
<1>3. session' \in [SessionIds -> SessionRow \cup {Unused, Deleted}]
    <2>1. [user |-> u] \in SessionRow
        BY DEF SessionRow
    <2> QED BY <2>1 DEF TypeOK, Rotate
<1>4. browser' \in [Browsers -> BrowserRow]
    <2>1. [browser[b] EXCEPT !.session = NextSession, !.page = Landing(b, page)] \in BrowserRow
        BY <1>1, <1>2 DEF TypeOK, BrowserRow
    <2>2. browser' = [browser EXCEPT ![b] = [browser[b] EXCEPT !.session = NextSession,
                                                              !.page = Landing(b, page)]]
        BY DEF TypeOK, Rotate, BrowserRow
    <2> QED BY <2>1, <2>2 DEF TypeOK
<1>5. born' \in [SessionIds -> Birth \cup {NoBirth}]
    BY <1>2 DEF TypeOK, Rotate
<1> QED BY <1>3, <1>4, <1>5

-----------------------------------------------------------------------------
(* Type correctness.                                                        *)

\* Init, with the enrolments of RequestAssumption.
LEMMA InitType == Init => TypeOK
<1> SUFFICES ASSUME Init PROVE TypeOK
    OBVIOUS
<1>1. users \in [Users -> Enrolment]
    BY RequestAssumption DEF Init
<1>2. browser \in [Browsers -> BrowserRow]
    BY DEF Init, BrowserRow, Landing, Pages
<1> QED BY <1>1, <1>2 DEF Init, TypeOK

\* create_login_session, from /authorize and from an expired login session.
LEMMA AuthorizesType ==
    ASSUME TypeOK, NEW b \in Browsers, NEW r \in Request, Authorizes(b, r)
    PROVE  TypeOK'
<1> DEFINE row == [client |-> r.client, scope |-> r.scope,
                   acr |-> IF Reuses(b, r) THEN 0 ELSE 1,
                   pending |-> None, lock |-> "none",
                   expired |-> FALSE, challenge |-> FALSE]
           page == Landing(b, IF Reuses(b, r) THEN "consent" ELSE r.screen)
<1>1. NextLogin \in LoginIds
    BY DEF Authorizes
<1>2. row \in LoginRow
    BY DEF LoginRow, Request
<1>3. page \in Pages
    BY DEF Landing, Pages, Request
<1> HIDE DEF row, page
<1>4. login' = [login EXCEPT ![NextLogin] = row]
    BY DEF Authorizes, row
<1>5. browser' \in [Browsers -> BrowserRow]
    <2>1. browser' = [browser EXCEPT ![b] = [browser[b] EXCEPT !.login = NextLogin, !.page = page]]
        <3>1. browser' = [browser EXCEPT ![b].login = NextLogin, ![b].page = page]
            BY DEF Authorizes, page
        <3>2. browser[b] \in BrowserRow
            BY DEF TypeOK
        <3> QED BY <3>1, <3>2 DEF TypeOK, BrowserRow
    <2>2. [browser[b] EXCEPT !.login = NextLogin, !.page = page] \in BrowserRow
        BY <1>1, <1>3 DEF TypeOK, BrowserRow
    <2> QED BY <2>1, <2>2 DEF TypeOK
<1>6. asked' \in [LoginIds -> Request \cup {Unused}]
    BY DEF TypeOK, Authorizes
<1>7. login' \in [LoginIds -> LoginRow \cup {Unused, Deleted}]
    BY <1>2, <1>4 DEF TypeOK
<1> QED BY <1>5, <1>6, <1>7 DEF TypeOK, Authorizes

LEMMA RegenerateType ==
    ASSUME TypeOK, NEW b \in Browsers, Regenerate(b)
    PROVE  TypeOK'
<1> DEFINE row == login[LoginOf(b)]
           r == [client |-> row.client, scope |-> row.scope, acr |-> row.acr,
                 recent |-> TRUE, prompt |-> "absent", screen |-> "login"]
<1>1. row \in LoginRow
    BY CookieRow DEF Regenerate, Stored, TypeOK
<1>2. r \in Request
    BY <1>1 DEF LoginRow, Request
<1>3. Authorizes(b, r)
    BY DEF Regenerate
<1> QED BY <1>2, <1>3, AuthorizesType

\* A request that does nothing but redirect.
LEMMA OnlyRedirects ==
    ASSUME TypeOK, NEW b \in Browsers, NEW page \in Pages, Redirect(b, page),
           UNCHANGED <<users, login, session, grant, codes, asked, primary, born, allowed>>
    PROVE  TypeOK'
BY RedirectType DEF TypeOK

\* A request that rewrites the login session of its cookie, and redirects.
LEMMA WritesAndRedirects ==
    ASSUME TypeOK, NEW b \in Browsers, NEW page \in Pages, Redirect(b, page),
           NEW row \in LoginRow, WriteLogin(b, row),
           UNCHANGED <<users, session, grant, codes, asked, primary, born, allowed>>
    PROVE  TypeOK'
<1>1. browser' \in [Browsers -> BrowserRow]
    BY RedirectType
<1>2. login' \in [LoginIds -> LoginRow \cup {Unused, Deleted}]
    BY WriteType
<1> QED BY <1>1, <1>2 DEF TypeOK

\* The pages that the handlers redirect to.
LEMMA PageNames ==
    /\ {"login", "register", "totp", "totp-form", "recover", "recover-form", "passkey",
        "passkey-form", "verify-request", "verify", "consent", "consent-form",
        "enroll", "profile", "error", "client"} \subseteq Pages
    /\ \A b \in Browsers : Onward(b) \in Pages
BY DEF Pages, Onward

LEMMA RedirectingActions ==
    ASSUME TypeOK, NEW b \in Browsers,
           \/ InvalidLoginSession(b) \/ VerifyRequest(b) \/ OpenChallenge(b)
           \/ \E page \in ChallengePage : FollowLink(b, page)
           \/ ConsentRedirects(b) \/ ConsentWithoutLogin(b)
    PROVE  TypeOK'
<1>1. CASE InvalidLoginSession(b)
    BY <1>1, OnlyRedirects, PageNames DEF InvalidLoginSession
<1>2. CASE VerifyRequest(b)
    BY <1>2, OnlyRedirects, PageNames DEF VerifyRequest
<1>3. CASE OpenChallenge(b)
    BY <1>3, OnlyRedirects, PageNames DEF OpenChallenge
<1>4. CASE \E page \in ChallengePage : FollowLink(b, page)
    BY <1>4, OnlyRedirects, PageNames DEF FollowLink, ChallengePage
<1>5. CASE ConsentRedirects(b)
    BY <1>5, OnlyRedirects, PageNames DEF ConsentRedirects
<1>6. CASE ConsentWithoutLogin(b)
    BY <1>6, OnlyRedirects, PageNames DEF ConsentWithoutLogin
<1> QED BY <1>1, <1>2, <1>3, <1>4, <1>5, <1>6

\* A wrong answer on a page of the challenge.
LEMMA WrongAnswers ==
    ASSUME TypeOK, NEW b \in Browsers,
           TotpWrong(b) \/ RecoverWrong(b) \/ PasskeyWrong(b) \/ PasskeyRollsBack(b)
    PROVE  TypeOK'
<1>1. LoginOf(b) \in LoginIds /\ login[LoginOf(b)] \in LoginRow
    BY CookieRow DEF TotpWrong, RecoverWrong, AnswersWrong, PasskeyWrong, PasskeyRollsBack,
                     Challenged
<1>2. ASSUME NEW page \in Pages, AnswersWrong(b, page) PROVE TypeOK'
    <2>1. PICK row \in Failed(login[LoginOf(b)]) :
             /\ WriteLogin(b, row)
             /\ Redirect(b, IF row.lock = "running" THEN "login" ELSE page)
        BY <1>2 DEF AnswersWrong
    <2>2. row \in LoginRow
        BY <1>1, RowOperations
    <2>3. (IF row.lock = "running" THEN "login" ELSE page) \in Pages
        BY PageNames
    <2>4. UNCHANGED <<users, session, grant, codes, asked, primary, born, allowed>>
        BY <1>2 DEF AnswersWrong
    <2> QED BY <2>1, <2>2, <2>3, <2>4, WritesAndRedirects
<1>3. CASE TotpWrong(b) \/ RecoverWrong(b)
    BY <1>2, <1>3, PageNames DEF TotpWrong, RecoverWrong
<1>4. CASE PasskeyWrong(b)
    <2>1. PICK row \in Failed(login[LoginOf(b)]) :
             WriteLogin(b, [row EXCEPT !.challenge = FALSE])
        BY <1>4 DEF PasskeyWrong
    <2>2. [row EXCEPT !.challenge = FALSE] \in LoginRow
        BY <1>1, RowOperations
    <2>3. login' \in [LoginIds -> LoginRow \cup {Unused, Deleted}]
        BY <2>1, <2>2, WriteType
    <2> QED BY <1>4, <2>3 DEF PasskeyWrong, TypeOK
<1>5. CASE PasskeyRollsBack(b)
    <2>1. [login[LoginOf(b)] EXCEPT !.challenge = FALSE] \in LoginRow
        BY <1>1, RowOperations
    <2>2. login' \in [LoginIds -> LoginRow \cup {Unused, Deleted}]
        BY <1>5, <2>1, WriteType DEF PasskeyRollsBack
    <2> QED BY <1>5, <2>2 DEF PasskeyRollsBack, TypeOK
<1> QED BY <1>3, <1>4, <1>5

\* The password of u is accepted.
LEMMA LoginType ==
    ASSUME TypeOK, NEW b \in Browsers, NEW u \in Users,
           LoginDeferred(b, u) \/ LoginCompletes(b, u)
    PROVE  TypeOK'
<1>1. primary' \in [LoginIds -> Users \cup {None}]
    BY CookieRow DEF LoginDeferred, LoginCompletes, Remembered, TypeOK
<1>2. LoginOf(b) # None => LoginOf(b) \in LoginIds /\ login[LoginOf(b)] \in LoginRow
    BY CookieRow DEF LoginDeferred, LoginCompletes, Continues
<1>3. LoginOf(b) # None => Wiped(login[LoginOf(b)]) \in LoginRow
    BY <1>2, RowOperations
<1>4. CASE LoginDeferred(b, u)
    <2>1. LoginOf(b) # None
        BY <1>4 DEF LoginDeferred, Deferred
    <2>2. [Wiped(login[LoginOf(b)]) EXCEPT !.pending = u] \in LoginRow
        BY <1>3, <2>1, RowOperations
    <2>3. login' = [login EXCEPT ![LoginOf(b)] = [Wiped(login[LoginOf(b)]) EXCEPT !.pending = u]]
        BY <1>4, <1>2, <2>1 DEF LoginDeferred, TypeOK
    <2>4. browser' \in [Browsers -> BrowserRow]
        BY <1>4, RedirectType, PageNames DEF LoginDeferred
    <2>5. login' \in [LoginIds -> LoginRow \cup {Unused, Deleted}]
        BY <2>2, <2>3 DEF TypeOK
    <2> QED BY <1>1, <1>4, <2>4, <2>5 DEF LoginDeferred, TypeOK
<1>5. CASE LoginCompletes(b, u)
    <2>1. login' \in [LoginIds -> LoginRow \cup {Unused, Deleted}]
        BY <1>3, <1>5 DEF LoginCompletes, TypeOK
    <2>2. ByPassword(b, u) \in Birth
        BY CookieRow DEF ByPassword, Birth, TypeOK, Enrolment
    <2>3. PICK page \in Pages : Rotate(b, u, {}, ByPassword(b, u), page)
        BY <1>5, PageNames DEF LoginCompletes
    <2>4. /\ session' \in [SessionIds -> SessionRow \cup {Unused, Deleted}]
          /\ browser' \in [Browsers -> BrowserRow]
          /\ born' \in [SessionIds -> Birth \cup {NoBirth}]
        BY <2>2, <2>3, RotateType
    <2> QED BY <1>1, <1>5, <2>1, <2>4 DEF LoginCompletes, TypeOK
<1> QED BY <1>4, <1>5

\* The email of a user is verified.
LEMMA VerifyType ==
    ASSUME TypeOK, NEW b \in Browsers, NEW u \in Users, Verify(b) \/ VerifyLink(b, u)
    PROVE  TypeOK'
<1>1. \A v \in Users : [users[v] EXCEPT !.verified = TRUE] \in Enrolment
    BY DEF TypeOK, Enrolment
<1>2. CASE Verify(b)
    <2>1. UserOf(b) \in Users
        BY <1>2, CookieRow DEF Verify
    <2>2. users' = [users EXCEPT ![UserOf(b)] = [users[UserOf(b)] EXCEPT !.verified = TRUE]]
        BY <1>2 DEF Verify
    <2>3. browser' \in [Browsers -> BrowserRow]
        BY <1>2, RedirectType, PageNames DEF Verify
    <2> QED BY <1>1, <1>2, <2>1, <2>2, <2>3 DEF Verify, TypeOK
<1>3. CASE VerifyLink(b, u)
    <2>1. users' = [users EXCEPT ![u] = [users[u] EXCEPT !.verified = TRUE]]
        BY <1>3 DEF VerifyLink
    <2>2. browser' \in [Browsers -> BrowserRow]
        BY <1>3, RedirectType, PageNames DEF VerifyLink
    <2> QED BY <1>1, <1>3, <2>1, <2>2 DEF VerifyLink, TypeOK
<1> QED BY <1>2, <1>3

\* The gate, and the tear-down of orphaned factors.
LEMMA GateType ==
    ASSUME TypeOK, NEW b \in Browsers, GateBounces(b)
    PROVE  TypeOK'
<1>1. browser' \in [Browsers -> BrowserRow]
    BY RedirectType, PageNames DEF GateBounces
<1>2. ASSUME NEW l \in LoginIds, l = LoginOf(b)
      PROVE  login[l] \in LoginRow
    BY <1>2, CookieRow, FlowAssumption DEF GateBounces, Continues, LoginIds
<1>3. \A l \in LoginIds : l = LoginOf(b) =>
         [login[l] EXCEPT !.pending = None] \in LoginRow
    BY <1>2, RowOperations
<1>4. login' \in [LoginIds -> LoginRow \cup {Unused, Deleted}]
    BY <1>3 DEF GateBounces, TypeOK
<1> QED BY <1>1, <1>4 DEF GateBounces, TypeOK

LEMMA TornDownType ==
    ASSUME NEW e \in Enrolment
    PROVE  TornDown(e) \in Enrolment
BY DEF Enrolment, TornDown

LEMMA SelfHealType ==
    ASSUME TypeOK, NEW b \in Browsers, Challenged(b), SelfHeals(b)
    PROVE  TypeOK'
<1>1. LoginOf(b) \in LoginIds /\ login[LoginOf(b)] \in LoginRow /\ PendingUser(b) \in Users
    BY CookieRow DEF Challenged
<1>2. Wiped(login[LoginOf(b)]) \in LoginRow
    BY <1>1, RowOperations
<1>3. TornDown(users[PendingUser(b)]) \in Enrolment
    BY <1>1, TornDownType DEF TypeOK
<1>4. users' \in [Users -> Enrolment]
    BY <1>1, <1>3 DEF SelfHeals, TypeOK
<1>5. login' \in [LoginIds -> LoginRow \cup {Unused, Deleted}]
    BY <1>2, WriteType DEF SelfHeals
<1>6. browser' \in [Browsers -> BrowserRow]
    BY RedirectType, PageNames DEF SelfHeals
<1> QED BY <1>4, <1>5, <1>6 DEF SelfHeals, TypeOK

LEMMA OpenPasskeyType ==
    ASSUME TypeOK, NEW b \in Browsers, OpenPasskey(b)
    PROVE  TypeOK'
<1>1. [login[LoginOf(b)] EXCEPT !.challenge = TRUE] \in LoginRow
    BY CookieRow, RowOperations DEF OpenPasskey, Challenged
<1>2. CASE users[PendingUser(b)].passkey
    BY <1>1, <1>2, WritesAndRedirects, PageNames DEF OpenPasskey
<1>3. CASE ~users[PendingUser(b)].passkey
    BY <1>3, OnlyRedirects, PageNames DEF OpenPasskey
<1> QED BY <1>2, <1>3

\* An answer that completes the challenge, whatever it does to the factors.
LEMMA CompletesType ==
    ASSUME TypeOK, NEW b \in Browsers, NEW evicted \in SUBSET SessionIds,
           NEW factor \in {"totp", "recovery", "passkey"},
           Challenged(b), Completes(b, evicted, factor), users' \in [Users -> Enrolment]
    PROVE  TypeOK'
<1> DEFINE row == [Wiped(login[LoginOf(b)])
                      EXCEPT !.challenge = IF factor = "passkey" THEN FALSE ELSE @]
<1>1. LoginOf(b) \in LoginIds /\ login[LoginOf(b)] \in LoginRow /\ PendingUser(b) \in Users
    BY CookieRow DEF Challenged
<1>2. row \in LoginRow
    BY <1>1, RowOperations DEF LoginRow
<1>3. login' \in [LoginIds -> LoginRow \cup {Unused, Deleted}]
    BY <1>2, WriteType DEF Completes
<1>4. ByFactor(b, factor) \in Birth
    BY <1>1 DEF ByFactor, Birth, TypeOK
<1>5. /\ session' \in [SessionIds -> SessionRow \cup {Unused, Deleted}]
      /\ browser' \in [Browsers -> BrowserRow]
      /\ born' \in [SessionIds -> Birth \cup {NoBirth}]
    BY <1>1, <1>4, RotateType, PageNames DEF Completes
<1> QED BY <1>3, <1>5 DEF Completes, TypeOK

LEMMA RightAnswers ==
    ASSUME TypeOK, NEW b \in Browsers, TotpRight(b) \/ RecoverRight(b) \/ PasskeyRight(b)
    PROVE  TypeOK'
<1>1. CASE TotpRight(b)
    BY <1>1, CompletesType DEF TotpRight, TypeOK
<1>2. CASE RecoverRight(b)
    <2>1. PendingUser(b) \in Users
        BY <1>2, CookieRow DEF RecoverRight
    <2>2. users' \in [Users -> Enrolment]
        BY <1>2, <2>1, TornDownType DEF RecoverRight, TypeOK
    <2>3. OthersOf(PendingUser(b)) \in SUBSET SessionIds
        BY DEF OthersOf
    <2> QED BY <1>2, <2>2, <2>3, CompletesType DEF RecoverRight
<1>3. CASE PasskeyRight(b)
    BY <1>3, CompletesType DEF PasskeyRight, TypeOK
<1> QED BY <1>1, <1>2, <1>3

\* A consent page is shown, and the login session ends at /consent.
LEMMA EndsLoginType ==
    ASSUME TypeOK, NEW b \in Browsers, NEW tab, EndsLogin(b, tab),
           grant' \in [Users \X Clients -> SUBSET Scopes], codes' \subseteq Code,
           allowed' \subseteq LoginIds \X Users \X Clients \X SUBSET Scopes
    PROVE  TypeOK'
<1>1. login' \in [LoginIds -> LoginRow \cup {Unused, Deleted}]
    BY WriteType DEF EndsLogin
<1>2. Landing(b, "client") \in Pages
    BY DEF Landing, Pages
<1>3. browser' \in [Browsers -> BrowserRow]
    <2>1. browser' = [browser EXCEPT ![b] =
                         [browser[b] EXCEPT !.login = None, !.shown = @ \ {tab},
                                            !.page = Landing(b, "client")]]
        BY DEF TypeOK, EndsLogin, BrowserRow
    <2>2. browser[b] \in BrowserRow /\ browser[b].shown \ {tab} \in SUBSET LoginIds
        BY DEF TypeOK, BrowserRow
    <2>3. \A left \in SUBSET LoginIds :
             [browser[b] EXCEPT !.login = None, !.shown = left,
                                !.page = Landing(b, "client")] \in BrowserRow
        BY <1>2, <2>2 DEF BrowserRow
    <2>4. [browser[b] EXCEPT !.login = None, !.shown = @ \ {tab},
                             !.page = Landing(b, "client")] \in BrowserRow
        BY <2>2, <2>3
    <2> QED BY <2>1, <2>4 DEF TypeOK
<1> QED BY <1>1, <1>3 DEF EndsLogin, TypeOK

\* The rows behind a consent, and the code that is cut from them.
LEMMA ConsentRows ==
    ASSUME TypeOK, NEW b \in Browsers, Consents(b)
    PROVE  /\ LoginOf(b) \in LoginIds /\ login[LoginOf(b)] \in LoginRow
           /\ SessionOf(b) \in SessionIds /\ UserOf(b) \in Users
           /\ CodeFor(b) \in Code
<1>1. /\ LoginOf(b) \in LoginIds /\ login[LoginOf(b)] \in LoginRow
      /\ SessionOf(b) \in SessionIds /\ UserOf(b) \in Users
    BY CookieRow DEF Consents, Verified
<1>2. CodeFor(b) \in Code
    BY <1>1 DEF CodeFor, Code, LoginRow
<1> QED BY <1>1, <1>2

LEMMA ConsentType ==
    ASSUME TypeOK, NEW b \in Browsers,
           ConsentIsGiven(b) \/ ShowConsent(b) \/ Allow(b) \/ Deny(b)
    PROVE  TypeOK'
<1>1. Consents(b)
    BY DEF ConsentIsGiven, ShowConsent, Allow, Deny, Submits
<1>2. CASE ConsentIsGiven(b)
    BY <1>1, <1>2, ConsentRows, EndsLoginType DEF ConsentIsGiven, TypeOK
<1>3. CASE ShowConsent(b)
    <2>1. Landing(b, "consent-form") \in Pages
        BY DEF Landing, Pages
    <2> DEFINE seen == IF b \in Tabbed THEN browser[b].shown \cup {LoginOf(b)} ELSE {LoginOf(b)}
    <2>2. seen \in SUBSET LoginIds
        BY <1>1, ConsentRows DEF TypeOK, BrowserRow
    <2>3. browser' = [browser EXCEPT ![b] =
                         [browser[b] EXCEPT !.page = Landing(b, "consent-form"), !.shown = seen]]
        BY <1>3 DEF ShowConsent, TypeOK, BrowserRow
    <2> HIDE DEF seen
    <2>4. [browser[b] EXCEPT !.page = Landing(b, "consent-form"), !.shown = seen] \in BrowserRow
        BY <2>1, <2>2 DEF TypeOK, BrowserRow
    <2>5. browser' \in [Browsers -> BrowserRow]
        BY <2>3, <2>4 DEF TypeOK
    <2> QED BY <1>3, <2>5 DEF ShowConsent, TypeOK
<1>4. CASE Allow(b)
    <2>1. PICK tab \in LoginIds :
             /\ grant' = [grant EXCEPT ![<<UserOf(b), login[LoginOf(b)].client>>]
                              = login[LoginOf(b)].scope]
             /\ allowed' = allowed \cup {<<tab, UserOf(b), login[LoginOf(b)].client,
                                           login[LoginOf(b)].scope>>}
             /\ codes' = codes \cup {CodeFor(b)}
             /\ EndsLogin(b, tab)
        BY <1>4 DEF Allow
    <2>2. login[LoginOf(b)].client \in Clients /\ login[LoginOf(b)].scope \in SUBSET Scopes
        BY <1>1, ConsentRows DEF LoginRow
    <2>3. grant' \in [Users \X Clients -> SUBSET Scopes]
        BY <1>1, <2>1, <2>2, ConsentRows DEF TypeOK
    <2>4. allowed' \subseteq LoginIds \X Users \X Clients \X SUBSET Scopes
        BY <1>1, <2>1, <2>2, ConsentRows DEF TypeOK
    <2>5. codes' \subseteq Code
        BY <1>1, <2>1, ConsentRows DEF TypeOK
    <2> QED BY <2>1, <2>3, <2>4, <2>5, EndsLoginType
<1>5. CASE Deny(b)
    BY <1>5, EndsLoginType DEF Deny, TypeOK
<1> QED BY <1>2, <1>3, <1>4, <1>5

\* /logout, and whatever elapses.
LEMMA LogoutType ==
    ASSUME TypeOK, NEW b \in Browsers, Logout(b)
    PROVE  TypeOK'
<1>1. Landing(b, "client") \in Pages
    BY DEF Landing, Pages
<1>2. [browser[b] EXCEPT !.session = None, !.page = Landing(b, "client")] \in BrowserRow
    BY <1>1 DEF TypeOK, BrowserRow
<1>3. browser' = [browser EXCEPT ![b] = [browser[b] EXCEPT !.session = None,
                                                          !.page = Landing(b, "client")]]
    BY DEF Logout, TypeOK, BrowserRow
<1>4. browser' \in [Browsers -> BrowserRow]
    BY <1>2, <1>3 DEF TypeOK
<1>5. session' \in [SessionIds -> SessionRow \cup {Unused, Deleted}]
    BY DEF Logout, TypeOK
<1> QED BY <1>4, <1>5 DEF Logout, TypeOK

LEMMA ElapseType == TypeOK /\ Elapse => TypeOK'
<1> SUFFICES ASSUME TypeOK, Elapse PROVE TypeOK'
    OBVIOUS
<1>1. ASSUME NEW l \in LoginIds, ExpireLogin(l) \/ ElapseLock(l) \/ ElapseChallenge(l)
      PROVE  TypeOK'
    <2>1. login[l] \in LoginRow
        BY <1>1 DEF ExpireLogin, ElapseLock, ElapseChallenge, Stored, TypeOK
    <2>2. login' = [login EXCEPT ![l] = login'[l]]
        BY <1>1 DEF ExpireLogin, ElapseLock, ElapseChallenge, TypeOK
    <2>3. \/ login'[l] = Deleted
          \/ login'[l] = [login[l] EXCEPT !.expired = TRUE]
          \/ login'[l] = [login[l] EXCEPT !.lock = "over"]
          \/ login'[l] = [login[l] EXCEPT !.challenge = FALSE]
        BY <1>1 DEF ExpireLogin, ElapseLock, ElapseChallenge, TypeOK
    <2>4. login'[l] \in LoginRow \cup {Deleted}
        BY <2>1, <2>3, RowOperations
    <2>5. login' \in [LoginIds -> LoginRow \cup {Unused, Deleted}]
        BY <2>2, <2>4 DEF TypeOK
    <2> QED BY <1>1, <2>5 DEF ExpireLogin, ElapseLock, ElapseChallenge, TypeOK
<1>2. ASSUME NEW s \in SessionIds, ExpireSession(s)
      PROVE  TypeOK'
    BY <1>2 DEF ExpireSession, TypeOK
<1> QED BY <1>1, <1>2 DEF Elapse

-----------------------------------------------------------------------------
\* Every step keeps the types.
LEMMA InductiveType == TypeOK /\ [Next]_vars => TypeOK'
<1> SUFFICES ASSUME TypeOK, [Next]_vars PROVE TypeOK'
    OBVIOUS
<1>1. ASSUME NEW b \in Browsers, SignIn(b) PROVE TypeOK'
    <2>1. CASE Authorize(b)
        BY <2>1, AuthorizesType, RequestAssumption DEF Authorize
    <2>2. CASE Regenerate(b)
        BY <2>2, RegenerateType
    <2>3. CASE InvalidLoginSession(b) \/ VerifyRequest(b)
        BY <2>3, RedirectingActions
    <2>4. CASE \E u \in Users : LoginDeferred(b, u) \/ LoginCompletes(b, u)
        BY <2>4, LoginType
    <2>5. CASE Verify(b)
        <3>1. UserOf(b) \in Users
            BY <2>5, CookieRow DEF Verify
        <3> QED BY <2>5, <3>1, VerifyType
    <2>6. CASE \E u \in Users : VerifyLink(b, u)
        BY <2>6, VerifyType
    <2> QED BY <1>1, <2>1, <2>2, <2>3, <2>4, <2>5, <2>6 DEF SignIn
<1>2. ASSUME NEW b \in Browsers, Challenge(b) PROVE TypeOK'
    <2>1. CASE GateBounces(b)
        BY <2>1, GateType
    <2>2. CASE OpenChallenge(b) \/ \E page \in ChallengePage : FollowLink(b, page)
        BY <2>2, RedirectingActions
    <2>3. CASE OpenOrphaned(b) \/ TotpInconsistent(b)
        BY <2>3, SelfHealType DEF OpenOrphaned, TotpInconsistent
    <2>4. CASE OpenPasskey(b)
        BY <2>4, OpenPasskeyType
    <2>5. CASE TotpRight(b) \/ RecoverRight(b) \/ PasskeyRight(b)
        BY <2>5, RightAnswers
    <2>6. CASE TotpWrong(b) \/ RecoverWrong(b) \/ PasskeyWrong(b) \/ PasskeyRollsBack(b)
        BY <2>6, WrongAnswers
    <2> QED BY <1>2, <2>1, <2>2, <2>3, <2>4, <2>5, <2>6 DEF Challenge
<1>3. ASSUME NEW b \in Browsers, Decide(b) PROVE TypeOK'
    BY <1>3, RedirectingActions, ConsentType, LogoutType DEF Decide
<1>4. CASE Elapse
    BY <1>4, ElapseType
<1>5. CASE UNCHANGED vars
    BY <1>5 DEF vars, TypeOK
<1> QED BY <1>1, <1>2, <1>3, <1>4, <1>5 DEF Next

(* The types hold of every reachable state, however many users, browsers,   *)
(* clients and login sessions there are.                                    *)
THEOREM TypeCorrect == Spec => []TypeOK
<1>1. Init => TypeOK
    BY InitType
<1>2. TypeOK /\ [Next]_vars => TypeOK'
    BY InductiveType
<1> QED BY <1>1, <1>2, PTL DEF Spec

-----------------------------------------------------------------------------
(* What a step may do to a login session that is stored afterwards.          *)

\* It is new, or its challenge is over: nobody is pending.
Cleared(l) == login'[l].pending = None

\* A password was accepted: its user is pending.
Begun(l) == login'[l].pending = primary'[l]

\* The columns that the challenge does not touch.
Kept(l) ==
    /\ login[l] \notin {Unused, Deleted}
    /\ primary'[l] = primary[l]
    /\ login[l].expired => login'[l].expired
    /\ login'[l].pending = login[l].pending

LoginStep(l) ==
    login'[l] \notin {Unused, Deleted} => Cleared(l) \/ Begun(l) \/ Kept(l)

LEMMA StoredId ==
    ASSUME NEW l \in LoginIds
    PROVE  Stored(l) <=> login[l] \notin {Unused, Deleted}
BY FlowAssumption DEF LoginIds, Stored

\* Requests that leave every login session as it was.
LEMMA UntouchedLogins ==
    ASSUME TypeOK, UNCHANGED <<login, primary>>, NEW l \in LoginIds
    PROVE  LoginStep(l)
BY DEF LoginStep, Kept, Stored

LEMMA DeletedRow == Deleted # Unused /\ Deleted \notin LoginRow /\ Unused \notin LoginRow
BY DEF Deleted, Unused, LoginRow

\* Requests that write the login session of the cookie, and no other.
LEMMA OneLogin ==
    ASSUME TypeOK, NEW b \in Browsers, NEW row, LoginOf(b) \in LoginIds, WriteLogin(b, row),
           primary' = primary, LoginStep(LoginOf(b)), NEW l \in LoginIds
    PROVE  LoginStep(l)
<1>1. CASE l = LoginOf(b)
    BY <1>1
<1>2. CASE l # LoginOf(b)
    BY <1>2 DEF WriteLogin, TypeOK, LoginStep, Kept, Stored
<1> QED BY <1>1, <1>2

LEMMA AuthorizesStep ==
    ASSUME TypeOK, NEW b \in Browsers, NEW r \in Request, Authorizes(b, r), NEW l \in LoginIds
    PROVE  LoginStep(l)
<1>1. CASE l = NextLogin
    BY <1>1 DEF Authorizes, TypeOK, LoginStep, Cleared
<1>2. CASE l # NextLogin
    BY <1>2 DEF Authorizes, TypeOK, LoginStep, Kept, Stored
<1> QED BY <1>1, <1>2

LEMMA RegenerateStep ==
    ASSUME TypeOK, NEW b \in Browsers, Regenerate(b), NEW l \in LoginIds
    PROVE  LoginStep(l)
<1> DEFINE row == login[LoginOf(b)]
           r == [client |-> row.client, scope |-> row.scope, acr |-> row.acr,
                 recent |-> TRUE, prompt |-> "absent", screen |-> "login"]
<1>1. row \in LoginRow
    BY CookieRow DEF Regenerate, Stored, TypeOK
<1>2. r \in Request
    BY <1>1 DEF LoginRow, Request
<1>3. Authorizes(b, r)
    BY DEF Regenerate
<1> QED BY <1>2, <1>3, AuthorizesStep

LEMMA PasswordStep ==
    ASSUME TypeOK, NEW b \in Browsers, NEW u \in Users,
           LoginDeferred(b, u) \/ LoginCompletes(b, u), NEW l \in LoginIds
    PROVE  LoginStep(l)
<1>1. LoginOf(b) # None => LoginOf(b) \in LoginIds /\ login[LoginOf(b)] \in LoginRow
    BY CookieRow DEF LoginDeferred, LoginCompletes, Continues
<1>2. CASE l # LoginOf(b)
    <2>1. login'[l] = login[l]
        BY <1>2 DEF LoginDeferred, LoginCompletes, TypeOK
    <2>2. primary'[l] = primary[l]
        BY <1>2 DEF LoginDeferred, LoginCompletes, Remembered, TypeOK
    <2> QED BY <2>1, <2>2 DEF LoginStep, Kept, Stored
<1>3. CASE l = LoginOf(b)
    <2>1. LoginOf(b) \in LoginIds /\ LoginOf(b) # None
        BY <1>3, FlowAssumption DEF LoginIds
    <2>2. login[l] \in LoginRow
        BY <1>1, <1>3, <2>1
    <2>3. CASE LoginCompletes(b, u)
        <3>1. login'[l] = Wiped(login[l])
            BY <1>3, <2>1, <2>3 DEF LoginCompletes, TypeOK
        <3> QED BY <2>2, <3>1 DEF Wiped, LoginRow, LoginStep, Cleared
    <2>4. CASE LoginDeferred(b, u)
        <3>1. login'[l] = [Wiped(login[l]) EXCEPT !.pending = u]
            BY <1>3, <2>1, <2>4 DEF LoginDeferred, TypeOK
        <3>2. primary'[l] = u
            BY <1>3, <2>1, <2>4 DEF LoginDeferred, Remembered, TypeOK
        <3> QED BY <2>2, <3>1, <3>2 DEF Wiped, LoginRow, LoginStep, Begun
    <2> QED BY <2>3, <2>4
<1> QED BY <1>2, <1>3

LEMMA ChallengeStep ==
    ASSUME TypeOK, NEW b \in Browsers, Challenge(b), NEW l \in LoginIds
    PROVE  LoginStep(l)
<1>1. CASE OpenChallenge(b) \/ \E page \in ChallengePage : FollowLink(b, page)
    BY <1>1, UntouchedLogins DEF OpenChallenge, FollowLink
<1>2. CASE GateBounces(b)
    <2>1. login'[l] \in {login[l], [login[l] EXCEPT !.pending = None]}
        BY <1>2 DEF GateBounces, TypeOK
    <2>2. l = LoginOf(b) => login[l] \in LoginRow
        BY <1>2, CookieRow, FlowAssumption DEF GateBounces, Continues, LoginIds
    <2>3. l # LoginOf(b) => login'[l] = login[l]
        BY <1>2 DEF GateBounces, TypeOK
    <2>4. CASE login'[l] = login[l]
        BY <1>2, <2>4 DEF GateBounces, LoginStep, Kept, Stored
    <2>5. CASE login'[l] # login[l]
        BY <1>2, <2>1, <2>2, <2>3, <2>5, DeletedRow
        DEF GateBounces, LoginStep, Cleared, LoginRow
    <2> QED BY <2>4, <2>5
<1>3. ASSUME Challenged(b)
      PROVE  LoginOf(b) \in LoginIds /\ login[LoginOf(b)] \in LoginRow /\ Stored(LoginOf(b))
    BY <1>3, CookieRow DEF Challenged, Live
<1>4. ASSUME NEW row, WriteLogin(b, row), LoginOf(b) \in LoginIds
      PROVE  login'[LoginOf(b)] = row
    BY <1>4 DEF WriteLogin, TypeOK
<1>5. CASE OpenOrphaned(b) \/ TotpInconsistent(b)
    <2>1. Challenged(b) /\ WriteLogin(b, Wiped(login[LoginOf(b)])) /\ primary' = primary
        BY <1>5 DEF OpenOrphaned, TotpInconsistent, SelfHeals
    <2>2. login'[LoginOf(b)] = Wiped(login[LoginOf(b)])
        BY <1>3, <1>4, <2>1
    <2>3. LoginStep(LoginOf(b))
        BY <1>3, <2>1, <2>2 DEF LoginStep, Cleared, Wiped, LoginRow
    <2> QED BY <1>3, <2>1, <2>3, OneLogin
<1>6. CASE OpenPasskey(b) \/ PasskeyRollsBack(b)
    <2>1. Challenged(b) /\ primary' = primary
        BY <1>6 DEF OpenPasskey, PasskeyRollsBack
    <2>2. CASE UNCHANGED login
        BY <2>1, <2>2, UntouchedLogins
    <2>3. ASSUME NEW c \in BOOLEAN, WriteLogin(b, [login[LoginOf(b)] EXCEPT !.challenge = c])
          PROVE  LoginStep(l)
        <3>1. login'[LoginOf(b)] = [login[LoginOf(b)] EXCEPT !.challenge = c]
            BY <1>3, <1>4, <2>1, <2>3
        <3>2. LoginStep(LoginOf(b))
            BY <1>3, <2>1, <3>1, DeletedRow DEF LoginStep, Kept, LoginRow, Stored
        <3> QED BY <1>3, <2>1, <2>3, <3>2, OneLogin
    <2> QED BY <1>6, <2>2, <2>3 DEF OpenPasskey, PasskeyRollsBack
<1>7. CASE TotpRight(b) \/ RecoverRight(b) \/ PasskeyRight(b)
    <2>1. PICK factor \in {"totp", "recovery", "passkey"}, evicted \in SUBSET SessionIds :
             Challenged(b) /\ Completes(b, evicted, factor)
        BY <1>7 DEF TotpRight, RecoverRight, PasskeyRight, OthersOf
    <2>2. PICK c \in BOOLEAN :
             WriteLogin(b, [Wiped(login[LoginOf(b)]) EXCEPT !.challenge = c])
        BY <1>3, <2>1 DEF Completes, Wiped, LoginRow
    <2>3. login'[LoginOf(b)] = [Wiped(login[LoginOf(b)]) EXCEPT !.challenge = c]
        BY <1>3, <1>4, <2>1, <2>2
    <2>4. LoginStep(LoginOf(b))
        BY <1>3, <2>1, <2>3 DEF LoginStep, Cleared, Wiped, LoginRow
    <2>5. primary' = primary
        BY <2>1 DEF Completes
    <2> QED BY <1>3, <2>1, <2>2, <2>4, <2>5, OneLogin
<1>8. CASE TotpWrong(b) \/ RecoverWrong(b) \/ PasskeyWrong(b)
    <2> DEFINE row == login[LoginOf(b)]
    <2>1. Challenged(b) /\ primary' = primary
        BY <1>8 DEF TotpWrong, RecoverWrong, AnswersWrong, PasskeyWrong
    <2>2. PICK failed \in Failed(row) :
             WriteLogin(b, failed) \/ WriteLogin(b, [failed EXCEPT !.challenge = FALSE])
        BY <1>8 DEF TotpWrong, RecoverWrong, AnswersWrong, PasskeyWrong
    <2>3. failed.pending = row.pending /\ failed.expired = row.expired /\ failed \in LoginRow
        BY <1>3, <2>1, RowOperations DEF Failed, LoginRow
    <2>4. PICK after : /\ WriteLogin(b, after)
                       /\ after.pending = row.pending
                       /\ after.expired = row.expired
        BY <2>2, <2>3 DEF LoginRow
    <2>5. login'[LoginOf(b)] = after
        BY <1>3, <1>4, <2>1, <2>4
    <2>6. Kept(LoginOf(b))
        BY <1>3, <2>1, <2>4, <2>5 DEF Kept, Stored
    <2>7. LoginStep(LoginOf(b))
        BY <2>6 DEF LoginStep
    <2> QED BY <1>3, <2>1, <2>4, <2>7, OneLogin
<1> QED BY <1>1, <1>2, <1>5, <1>6, <1>7, <1>8 DEF Challenge

LEMMA DecideStep ==
    ASSUME TypeOK, NEW b \in Browsers, Decide(b), NEW l \in LoginIds
    PROVE  LoginStep(l)
<1>1. CASE ConsentRedirects(b) \/ ConsentWithoutLogin(b) \/ ShowConsent(b) \/ Logout(b)
    BY <1>1, UntouchedLogins DEF ConsentRedirects, ConsentWithoutLogin, ShowConsent, Logout
<1>2. CASE ConsentIsGiven(b) \/ Allow(b) \/ Deny(b)
    <2>1. Consents(b) /\ WriteLogin(b, Deleted) /\ primary' = primary
        BY <1>2 DEF ConsentIsGiven, Allow, Deny, Submits, EndsLogin
    <2>2. LoginOf(b) \in LoginIds
        BY <2>1, ConsentRows
    <2>3. login'[LoginOf(b)] = Deleted
        BY <2>1, <2>2 DEF WriteLogin, TypeOK
    <2>4. LoginStep(LoginOf(b))
        BY <2>3 DEF LoginStep, Stored
    <2> QED BY <2>1, <2>2, <2>4, OneLogin
<1> QED BY <1>1, <1>2 DEF Decide

LEMMA ElapseStep ==
    ASSUME TypeOK, Elapse, NEW l \in LoginIds
    PROVE  LoginStep(l)
<1>1. primary' = primary
    BY DEF Elapse, ExpireLogin, ElapseLock, ElapseChallenge, ExpireSession
<1>2. CASE login'[l] = login[l]
    BY <1>1, <1>2 DEF LoginStep, Kept, Stored
<1>3. CASE login'[l] # login[l]
    <2>1. ExpireLogin(l) \/ ElapseLock(l) \/ ElapseChallenge(l)
        BY <1>3 DEF Elapse, ExpireLogin, ElapseLock, ElapseChallenge, ExpireSession, TypeOK
    <2>2. login[l] \in LoginRow /\ Stored(l)
        BY <2>1 DEF ExpireLogin, ElapseLock, ElapseChallenge, Stored, TypeOK
    <2>3. \/ login'[l] = Deleted
          \/ login'[l] = [login[l] EXCEPT !.expired = TRUE]
          \/ login'[l] = [login[l] EXCEPT !.lock = "over"]
          \/ login'[l] = [login[l] EXCEPT !.challenge = FALSE]
        BY <2>1 DEF ExpireLogin, ElapseLock, ElapseChallenge, TypeOK
    <2>4. CASE login'[l] = Deleted
        BY <2>4 DEF LoginStep, Stored
    <2>5. CASE login'[l] # Deleted
        BY <1>1, <2>2, <2>3, <2>5, DeletedRow DEF LoginStep, Kept, LoginRow
    <2> QED BY <2>4, <2>5
<1> QED BY <1>2, <1>3

LEMMA LoginSteps ==
    ASSUME TypeOK, [Next]_vars, NEW l \in LoginIds
    PROVE  LoginStep(l)
<1>1. ASSUME NEW b \in Browsers, SignIn(b) PROVE LoginStep(l)
    <2>1. CASE Authorize(b)
        BY <2>1, AuthorizesStep, RequestAssumption DEF Authorize
    <2>2. CASE Regenerate(b)
        BY <2>2, RegenerateStep
    <2>3. CASE \E u \in Users : LoginDeferred(b, u) \/ LoginCompletes(b, u)
        BY <2>3, PasswordStep
    <2>4. CASE InvalidLoginSession(b) \/ VerifyRequest(b) \/ Verify(b)
               \/ \E u \in Users : VerifyLink(b, u)
        BY <2>4, UntouchedLogins DEF InvalidLoginSession, VerifyRequest, Verify, VerifyLink
    <2> QED BY <1>1, <2>1, <2>2, <2>3, <2>4 DEF SignIn
<1>2. CASE UNCHANGED vars
    BY <1>2, UntouchedLogins DEF vars
<1> QED BY <1>1, <1>2, ChallengeStep, DecideStep, ElapseStep DEF Next

-----------------------------------------------------------------------------
(* The challenge is bound to the password: the user who is pending is the    *)
(* one whose password was the last accepted with the login session.          *)
THEOREM PendingBound == Spec => []PendingProvedPassword
<1>1. Init => PendingProvedPassword
    BY DeletedRow DEF Init, PendingProvedPassword, Live, Stored
<1>2. TypeOK /\ PendingProvedPassword /\ [Next]_vars => PendingProvedPassword'
    <2> SUFFICES ASSUME TypeOK, PendingProvedPassword, [Next]_vars, NEW l \in LoginIds,
                        Live(l)', login'[l].pending # None
                 PROVE  primary'[l] = login'[l].pending
        BY DEF PendingProvedPassword
    <2>1. LoginStep(l)
        BY LoginSteps
    <2>2. login'[l] \notin {Unused, Deleted} /\ ~login'[l].expired
        BY DEF Live, Stored
    <2> QED BY <2>1, <2>2, StoredId
        DEF LoginStep, Cleared, Begun, Kept, PendingProvedPassword, Live
<1> QED BY <1>1, <1>2, TypeCorrect, PTL DEF Spec

-----------------------------------------------------------------------------
(* Session tokens.                                                           *)

\* A cookie names a session token that was minted.
CookieNamesToken ==
    \A b \in Browsers : SessionOf(b) # None => session[SessionOf(b)] # Unused

\* The challenge that is behind b was passed, and its user has a session.
MintedBy(b, s) ==
    /\ Challenged(b)
    /\ session'[s] = [user |-> PendingUser(b)]
    /\ born'[s].login = LoginOf(b)
    /\ born'[s].primary = primary[LoginOf(b)]

\* What a step may do to a session token.
SessionStep(s) ==
    \/ session'[s] = session[s] /\ born'[s] = born[s]
    \/ session'[s] = Deleted /\ session[s] # Unused
    \/ session'[s] \in SessionRow /\ born'[s].factor = "none"
    \/ session'[s] \in SessionRow /\ \E b \in Browsers : MintedBy(b, s)

LEMMA TokenRows == Deleted # Unused /\ Deleted \notin SessionRow /\ Unused \notin SessionRow
BY DEF Deleted, Unused, SessionRow

\* A rotation mints the next token, and deletes tokens that were minted.
LEMMA RotateStep ==
    ASSUME TypeOK, CookieNamesToken, NEW b \in Browsers, NEW u \in Users,
           NEW evicted \in SUBSET {t \in SessionIds : session[t] # Unused},
           NEW birth, NEW page, Rotate(b, u, evicted, birth, page), NEW s \in SessionIds
    PROVE  \/ session'[s] = session[s] /\ born'[s] = born[s]
           \/ session'[s] = Deleted /\ session[s] # Unused
           \/ session'[s] = [user |-> u] /\ born'[s] = birth
<1>1. CASE s = NextSession
    <2>1. session'[s] = [user |-> u]
        BY <1>1 DEF Rotate
    <2>2. born'[s] = birth
        BY <1>1 DEF Rotate, TypeOK
    <2> QED BY <2>1, <2>2
<1>2. CASE s # NextSession /\ (s = SessionOf(b) \/ s \in evicted)
    <2>1. s = SessionOf(b) => session[s] # Unused
        BY FlowAssumption DEF CookieNamesToken, SessionIds
    <2> QED BY <1>2, <2>1 DEF Rotate, TypeOK
<1>3. CASE s # NextSession /\ s # SessionOf(b) /\ s \notin evicted
    BY <1>3 DEF Rotate, TypeOK
<1> QED BY <1>1, <1>2, <1>3

LEMMA SessionSteps ==
    ASSUME TypeOK, CookieNamesToken, [Next]_vars, NEW s \in SessionIds
    PROVE  SessionStep(s)
<1>1. ASSUME UNCHANGED <<session, born>>
      PROVE  SessionStep(s)
    BY <1>1 DEF SessionStep
<1>2. ASSUME NEW b \in Browsers, SignIn(b) PROVE SessionStep(s)
    <2>1. ASSUME NEW u \in Users, LoginCompletes(b, u) PROVE SessionStep(s)
        <3>1. PICK page : Rotate(b, u, {}, ByPassword(b, u), page)
            BY <2>1 DEF LoginCompletes
        <3>2. {} \in SUBSET {t \in SessionIds : session[t] # Unused}
            OBVIOUS
        <3>3. \/ session'[s] = session[s] /\ born'[s] = born[s]
              \/ session'[s] = Deleted /\ session[s] # Unused
              \/ session'[s] = [user |-> u] /\ born'[s] = ByPassword(b, u)
            BY <3>1, <3>2, RotateStep
        <3>4. [user |-> u] \in SessionRow /\ ByPassword(b, u).factor = "none"
            BY DEF SessionRow, ByPassword
        <3> QED BY <3>3, <3>4 DEF SessionStep
    <2>2. ASSUME ~ \E u \in Users : LoginCompletes(b, u)
          PROVE  UNCHANGED <<session, born>>
        BY <1>2, <2>2 DEF SignIn, Authorize, Regenerate, Authorizes, InvalidLoginSession,
                     LoginDeferred, VerifyRequest, Verify, VerifyLink
    <2> QED BY <1>1, <2>1, <2>2
<1>3. ASSUME NEW b \in Browsers, Challenge(b) PROVE SessionStep(s)
    <2>1. CASE TotpRight(b) \/ RecoverRight(b) \/ PasskeyRight(b)
        <3>1. PICK factor \in {"totp", "recovery", "passkey"}, evicted \in {{}, OthersOf(PendingUser(b))} :
                 Challenged(b) /\ Completes(b, evicted, factor)
            BY <2>1 DEF TotpRight, RecoverRight, PasskeyRight
        <3>2. PendingUser(b) \in Users
            BY <3>1, CookieRow
        <3>3. evicted \in SUBSET {t \in SessionIds : session[t] # Unused}
            BY <3>1 DEF OthersOf, Unused
        <3>4. Rotate(b, PendingUser(b), evicted, ByFactor(b, factor), "verify-request")
            BY <3>1 DEF Completes
        <3>5. \/ session'[s] = session[s] /\ born'[s] = born[s]
              \/ session'[s] = Deleted /\ session[s] # Unused
              \/ session'[s] = [user |-> PendingUser(b)] /\ born'[s] = ByFactor(b, factor)
            BY <3>2, <3>3, <3>4, RotateStep
        <3>6. [user |-> PendingUser(b)] \in SessionRow
            BY <3>2 DEF SessionRow
        <3>7. ByFactor(b, factor).login = LoginOf(b)
              /\ ByFactor(b, factor).primary = primary[LoginOf(b)]
            BY DEF ByFactor
        <3> QED BY <3>1, <3>5, <3>6, <3>7 DEF SessionStep, MintedBy
    <2>2. CASE GateBounces(b) \/ OpenChallenge(b) \/ OpenOrphaned(b) \/ OpenPasskey(b)
               \/ (\E page \in ChallengePage : FollowLink(b, page)) \/ TotpWrong(b) \/ TotpInconsistent(b) \/ RecoverWrong(b)
               \/ PasskeyWrong(b) \/ PasskeyRollsBack(b)
        BY <1>1, <2>2 DEF GateBounces, OpenChallenge, OpenOrphaned, OpenPasskey, FollowLink,
                          TotpWrong, TotpInconsistent, RecoverWrong, AnswersWrong,
                          PasskeyWrong, PasskeyRollsBack, SelfHeals
    <2> QED BY <1>3, <2>1, <2>2 DEF Challenge
<1>4. ASSUME NEW b \in Browsers, Decide(b) PROVE SessionStep(s)
    <2>1. CASE Logout(b)
        BY <2>1, TokenRows DEF Logout, SessionStep, SignedIn, TypeOK
    <2>2. CASE ~Logout(b)
        BY <1>1, <1>4, <2>2 DEF Decide, ConsentRedirects, ConsentWithoutLogin, ConsentIsGiven,
                                ShowConsent, Allow, Deny, EndsLogin
    <2> QED BY <2>1, <2>2
<1>5. CASE Elapse
    <2>1. CASE \E t \in SessionIds : ExpireSession(t)
        BY <2>1, TokenRows DEF ExpireSession, SessionStep, TypeOK
    <2>2. CASE \E l \in LoginIds : ExpireLogin(l) \/ ElapseLock(l) \/ ElapseChallenge(l)
        BY <1>1, <2>2 DEF ExpireLogin, ElapseLock, ElapseChallenge
    <2> QED BY <1>5, <2>1, <2>2 DEF Elapse
<1> QED BY <1>1, <1>2, <1>3, <1>4, <1>5 DEF Next, vars

\* A request sets the session cookie to nothing, or to the token it mints.
LEMMA CookieSteps ==
    ASSUME TypeOK, [Next]_vars, NEW b \in Browsers
    PROVE  \/ browser'[b].session = browser[b].session
           \/ browser'[b].session = None
           \/ browser'[b].session \in SessionIds /\ session'[browser'[b].session] \in SessionRow
<1> DEFINE Goal == \/ browser'[b].session = browser[b].session
                   \/ browser'[b].session = None
                   \/ /\ browser'[b].session \in SessionIds
                      /\ session'[browser'[b].session] \in SessionRow
<1>1. browser[b] \in BrowserRow
    BY DEF TypeOK
<1>2. ASSUME NEW a \in Browsers, NEW page, Redirect(a, page) PROVE Goal
    BY <1>2, <1>1 DEF Redirect, TypeOK, BrowserRow
<1>3. ASSUME NEW a \in Browsers, NEW u \in Users, NEW evicted, NEW birth, NEW page,
             Rotate(a, u, evicted, birth, page)
      PROVE  Goal
    <2>1. a # b => browser'[b] = browser[b]
        BY <1>3 DEF Rotate, TypeOK
    <2>2. a = b => browser'[b].session = NextSession
        BY <1>1, <1>3 DEF Rotate, TypeOK, BrowserRow
    <2>3. NextSession \in SessionIds /\ session'[NextSession] \in SessionRow
        BY <1>3 DEF Rotate, SessionRow
    <2> QED BY <2>1, <2>2, <2>3
<1>4. ASSUME NEW a \in Browsers, NEW r, Authorizes(a, r) PROVE Goal
    BY <1>4, <1>1 DEF Authorizes, TypeOK, BrowserRow
<1>5. ASSUME NEW a \in Browsers, NEW tab, EndsLogin(a, tab) PROVE Goal
    BY <1>5, <1>1 DEF EndsLogin, TypeOK, BrowserRow
<1>6. ASSUME NEW a \in Browsers, ShowConsent(a) \/ Logout(a) PROVE Goal
    BY <1>6, <1>1 DEF ShowConsent, Logout, TypeOK, BrowserRow
<1>7. ASSUME browser' = browser PROVE Goal
    BY <1>7
<1> HIDE DEF Goal
<1>8. ASSUME NEW a \in Browsers, SignIn(a) PROVE Goal
    BY <1>8, <1>2, <1>3, <1>4 DEF SignIn, Authorize, Regenerate, InvalidLoginSession,
       LoginDeferred, LoginCompletes, VerifyRequest, Verify, VerifyLink
<1>9. ASSUME NEW a \in Browsers, Challenge(a) PROVE Goal
    <2>1. CASE TotpRight(a) \/ RecoverRight(a) \/ PasskeyRight(a)
        <3>1. PendingUser(a) \in Users
            BY <2>1, CookieRow DEF TotpRight, RecoverRight, PasskeyRight
        <3> QED BY <2>1, <3>1, <1>3 DEF TotpRight, RecoverRight, PasskeyRight, Completes
    <2>2. CASE ~(TotpRight(a) \/ RecoverRight(a) \/ PasskeyRight(a))
        BY <1>9, <2>2, <1>2, <1>7 DEF Challenge, GateBounces, OpenChallenge, OpenOrphaned,
           OpenPasskey, FollowLink, TotpWrong, TotpInconsistent, RecoverWrong, AnswersWrong,
           PasskeyWrong, PasskeyRollsBack, SelfHeals
    <2> QED BY <2>1, <2>2
<1>10. ASSUME NEW a \in Browsers, Decide(a) PROVE Goal
    BY <1>10, <1>2, <1>5, <1>6 DEF Decide, ConsentRedirects, ConsentWithoutLogin,
       ConsentIsGiven, Allow, Deny
<1>11. ASSUME Elapse PROVE Goal
    BY <1>11, <1>7 DEF Elapse, ExpireLogin, ElapseLock, ElapseChallenge, ExpireSession
<1>12. Goal
    BY <1>7, <1>8, <1>9, <1>10, <1>11 DEF Next, vars
<1> QED BY <1>12 DEF Goal

LEMMA CookiesName == Spec => []CookieNamesToken
<1>1. Init => CookieNamesToken
    BY DEF Init, CookieNamesToken, SessionOf
<1>2. TypeOK /\ CookieNamesToken /\ [Next]_vars => CookieNamesToken'
    <2> SUFFICES ASSUME TypeOK, CookieNamesToken, [Next]_vars, NEW b \in Browsers,
                        browser'[b].session # None
                 PROVE  session'[browser'[b].session] # Unused
        BY DEF CookieNamesToken, SessionOf
    <2>1. CASE browser'[b].session = browser[b].session
        <3>1. browser[b].session \in SessionIds /\ session[browser[b].session] # Unused
            BY <2>1 DEF TypeOK, BrowserRow, CookieNamesToken, SessionOf
        <3>2. SessionStep(browser[b].session)
            BY <3>1, SessionSteps
        <3> QED BY <2>1, <3>1, <3>2, TokenRows DEF SessionStep
    <2>2. CASE session'[browser'[b].session] \in SessionRow
        BY <2>2, TokenRows
    <2> QED BY <2>1, <2>2, CookieSteps
<1> QED BY <1>1, <1>2, TypeCorrect, PTL DEF Spec

(* A live session token that a challenge opened is that of the user whose    *)
(* password the login session had proved last when the challenge was passed. *)
THEOREM FactorsFollow == Spec => []FactorFollowsPassword
<1>1. Init => FactorFollowsPassword
    BY TokenRows DEF Init, FactorFollowsPassword
<1>2. TypeOK /\ CookieNamesToken /\ PendingProvedPassword /\ FactorFollowsPassword /\ [Next]_vars
        => FactorFollowsPassword'
    <2> SUFFICES ASSUME TypeOK, CookieNamesToken, PendingProvedPassword, FactorFollowsPassword,
                        [Next]_vars, NEW s \in SessionIds,
                        session'[s] \in SessionRow, born'[s].factor # "none"
                 PROVE  born'[s].login # None /\ born'[s].primary = session'[s].user
        BY DEF FactorFollowsPassword
    <2>1. CASE session'[s] = session[s] /\ born'[s] = born[s]
        BY <2>1 DEF FactorFollowsPassword
    <2>2. ASSUME NEW b \in Browsers, MintedBy(b, s)
          PROVE  born'[s].login # None /\ born'[s].primary = session'[s].user
        <3>1. LoginOf(b) \in LoginIds /\ Live(LoginOf(b)) /\ LoginOf(b) # None
              /\ login[LoginOf(b)].pending # None
            BY <2>2, CookieRow DEF MintedBy, Challenged
        <3>2. primary[LoginOf(b)] = PendingUser(b)
            BY <3>1 DEF PendingProvedPassword, PendingUser
        <3> QED BY <2>2, <3>1, <3>2 DEF MintedBy
    <2> QED BY <2>1, <2>2, SessionSteps, TokenRows DEF SessionStep
<1> QED BY <1>1, <1>2, TypeCorrect, CookiesName, PendingBound, PTL DEF Spec

-----------------------------------------------------------------------------
(* The birth of session tokens.                                              *)

\* b gets a token of u, after the password alone or after a second factor.
PasswordMints(b, u) ==
    \E page : ~Deferred(b, u) /\ Rotate(b, u, {}, ByPassword(b, u), page)
FactorMints(b, u) ==
    \E page : \E factor \in {"totp", "recovery", "passkey"} :
        Rotate(b, u, IF factor = "recovery" THEN OthersOf(u) ELSE {}, ByFactor(b, factor), page)

\* Otherwise tokens stay what they are, or are deleted.
NoneBorn ==
    /\ born' = born
    /\ \A s \in SessionIds : \/ session'[s] = session[s]
                             \/ session'[s] = Deleted /\ session[s] # Unused

LEMMA BirthSteps ==
    ASSUME TypeOK, [Next]_vars
    PROVE  NoneBorn \/ \E b \in Browsers, u \in Users : PasswordMints(b, u) \/ FactorMints(b, u)
<1> DEFINE Goal == NoneBorn \/ \E b \in Browsers, u \in Users : PasswordMints(b, u) \/ FactorMints(b, u)
<1>1. ASSUME UNCHANGED <<session, born>> PROVE Goal
    BY <1>1 DEF NoneBorn
<1>2. ASSUME NEW b \in Browsers, SignIn(b) PROVE Goal
    <2>1. ASSUME NEW u \in Users, LoginCompletes(b, u) PROVE Goal
        BY <2>1 DEF LoginCompletes, PasswordMints
    <2>2. ASSUME ~ \E u \in Users : LoginCompletes(b, u)
          PROVE  UNCHANGED <<session, born>>
        BY <1>2, <2>2 DEF SignIn, Authorize, Regenerate, Authorizes, InvalidLoginSession,
                     LoginDeferred, VerifyRequest, Verify, VerifyLink
    <2> QED BY <1>1, <2>1, <2>2
<1>3. ASSUME NEW b \in Browsers, Challenge(b) PROVE Goal
    <2>1. CASE TotpRight(b) \/ RecoverRight(b) \/ PasskeyRight(b)
        <3>1. PendingUser(b) \in Users
            BY <2>1, CookieRow DEF TotpRight, RecoverRight, PasskeyRight
        <3>2. FactorMints(b, PendingUser(b))
            BY <2>1 DEF TotpRight, RecoverRight, PasskeyRight, Completes, FactorMints
        <3> QED BY <3>1, <3>2
    <2>2. CASE ~(TotpRight(b) \/ RecoverRight(b) \/ PasskeyRight(b))
        BY <1>1, <1>3, <2>2 DEF Challenge, GateBounces, OpenChallenge, OpenOrphaned, OpenPasskey,
           FollowLink, TotpWrong, TotpInconsistent, RecoverWrong, AnswersWrong, PasskeyWrong,
           PasskeyRollsBack, SelfHeals
    <2> QED BY <2>1, <2>2
<1>4. ASSUME NEW b \in Browsers, Decide(b) PROVE Goal
    <2>1. CASE Logout(b)
        BY <2>1, TokenRows DEF Logout, NoneBorn, SignedIn, TypeOK
    <2>2. CASE ~Logout(b)
        BY <1>1, <1>4, <2>2 DEF Decide, ConsentRedirects, ConsentWithoutLogin, ConsentIsGiven,
                                ShowConsent, Allow, Deny, EndsLogin
    <2> QED BY <2>1, <2>2
<1>5. CASE Elapse
    <2>1. CASE \E t \in SessionIds : ExpireSession(t)
        BY <2>1, TokenRows DEF ExpireSession, NoneBorn, TypeOK
    <2>2. CASE \E l \in LoginIds : ExpireLogin(l) \/ ElapseLock(l) \/ ElapseChallenge(l)
        BY <1>1, <2>2 DEF ExpireLogin, ElapseLock, ElapseChallenge
    <2> QED BY <1>5, <2>1, <2>2 DEF Elapse
<1> QED BY <1>1, <1>2, <1>3, <1>4, <1>5 DEF Next, vars

Minted == {s \in SessionIds : session[s] # Unused}

\* Tokens are minted in the order of their numbers.
TokensInOrder == \A s \in SessionIds : s \in Minted <=> s <= Cardinality(Minted)

LEMMA MintedFinite == IsFiniteSet(Minted) /\ Cardinality(Minted) \in Nat
<1>1. IsFiniteSet(SessionIds)
    BY FlowAssumption, FS_Interval DEF SessionIds
<1>2. Minted \in SUBSET SessionIds
    BY DEF Minted
<1>3. IsFiniteSet(Minted)
    BY <1>1, <1>2, FS_Subset
<1> QED BY <1>3, FS_CardinalityType

LEMMA OrderKept ==
    ASSUME TypeOK, TokensInOrder, [Next]_vars, CookieNamesToken
    PROVE  TokensInOrder'
<1>1. CASE NoneBorn
    <2>1. Minted' = Minted
        BY <1>1, TokenRows DEF NoneBorn, Minted
    <2> QED BY <2>1 DEF TokensInOrder
<1>2. ASSUME NEW b \in Browsers, NEW u, NEW evicted, NEW birth, NEW page,
             \A s \in evicted : session[s] # Unused,
             Rotate(b, u, evicted, birth, page)
      PROVE  TokensInOrder'
    <2> DEFINE n == Cardinality(Minted) + 1
    <2>1. n \in SessionIds /\ NextSession = n
        BY <1>2 DEF Rotate, NextSession, Minted
    <2>2. n \notin Minted /\ Cardinality(Minted) \in Nat
        BY <2>1, MintedFinite DEF TokensInOrder
    <2>3. \A s \in SessionIds : session'[s] # Unused <=> s = n \/ session[s] # Unused
        <3>1. [user |-> u] # Unused
            BY DEF Unused
        <3>2. \A s \in SessionIds : s = SessionOf(b) => session[s] # Unused
            BY FlowAssumption DEF CookieNamesToken, SessionIds
        <3> QED BY <1>2, <2>1, <3>1, <3>2, TokenRows DEF Rotate
    <2>4. Minted' = Minted \cup {n}
        BY <2>1, <2>3 DEF Minted
    <2>5. Cardinality(Minted') = Cardinality(Minted) + 1
        BY <2>2, <2>4, MintedFinite, FS_AddElement
    <2>6. \A s \in SessionIds : s \in Nat
        BY DEF SessionIds
    <2> QED BY <2>1, <2>2, <2>4, <2>5, <2>6 DEF TokensInOrder
<1>3. ASSUME NEW b \in Browsers, NEW u \in Users, PasswordMints(b, u) \/ FactorMints(b, u)
      PROVE  TokensInOrder'
    <2>1. \A s \in OthersOf(u) : session[s] # Unused
        BY DEF OthersOf, Unused
    <2> QED BY <1>2, <1>3, <2>1 DEF PasswordMints, FactorMints
<1> QED BY <1>1, <1>3, BirthSteps

LEMMA TokensOrdered == Spec => []TokensInOrder
<1>1. Init => TokensInOrder
    <2> SUFFICES ASSUME Init PROVE TokensInOrder
        OBVIOUS
    <2>1. Minted = {}
        BY DEF Init, Minted
    <2>2. Cardinality(Minted) = 0
        BY <2>1, FS_EmptySet
    <2>3. \A s \in SessionIds : ~(s <= 0)
        BY DEF SessionIds
    <2> QED BY <2>1, <2>2, <2>3 DEF TokensInOrder
<1>2. TypeOK /\ CookieNamesToken /\ TokensInOrder /\ [Next]_vars => TokensInOrder'
    BY OrderKept
<1> QED BY <1>1, <1>2, TypeCorrect, CookiesName, PTL DEF Spec

(* POST /mfa/recover: a session that a recovery code opened outlives every    *)
(* older session of its user.                                                *)
THEOREM RecoveryOutlives == Spec => []RecoveryEvicts
<1>1. Init => RecoveryEvicts
    BY TokenRows DEF Init, RecoveryEvicts
<1>2. TypeOK /\ TokensInOrder /\ RecoveryEvicts /\ [Next]_vars => RecoveryEvicts'
    <2> SUFFICES ASSUME TypeOK, TokensInOrder, RecoveryEvicts, [Next]_vars,
                        NEW s \in SessionIds, NEW t \in SessionIds,
                        session'[s] \in SessionRow, session'[t] = session'[s],
                        born'[s].factor = "recovery"
                 PROVE  t >= s
        BY DEF RecoveryEvicts
    <2>1. CASE session'[s] = session[s] /\ born'[s] = born[s] /\ session'[t] = session[t]
        BY <2>1 DEF RecoveryEvicts
    <2>2. CASE NoneBorn
        BY <2>1, <2>2, TokenRows DEF NoneBorn
    <2>3. ASSUME NEW b \in Browsers, NEW u \in Users, NEW evicted, NEW birth, NEW page,
                 birth.factor = "recovery" => evicted = OthersOf(u),
                 Rotate(b, u, evicted, birth, page)
          PROVE  t >= s
        <3> DEFINE n == Cardinality(Minted) + 1
        <3>1. n \in SessionIds /\ NextSession = n
            BY <2>3 DEF Rotate, NextSession, Minted
        <3>2. \A x \in SessionIds : session[x] # Unused => x < n
            BY MintedFinite DEF TokensInOrder, Minted, SessionIds
        <3>3. session'[n] = [user |-> u] /\ born'[n] = birth
            BY <2>3, <3>1 DEF Rotate, TypeOK
        <3>4. \A x \in SessionIds \ {n} : /\ born'[x] = born[x]
                                          /\ session'[x] # Deleted
                                                => session'[x] = session[x] /\ x \notin evicted
            BY <2>3, <3>1 DEF Rotate, TypeOK
        <3>5. CASE s = n
            <4>1. evicted = OthersOf(u)
                BY <2>3, <3>3, <3>5
            <4>2. ASSUME t # n PROVE FALSE
                <5>1. session'[t] = [user |-> u] /\ session'[t] # Deleted
                    BY <3>3, <3>5, TokenRows
                <5>2. session[t] = [user |-> u] /\ t \notin evicted
                    BY <3>4, <4>2, <5>1
                <5> QED BY <4>1, <5>2 DEF OthersOf
            <4> QED BY <3>5, <4>2 DEF SessionIds
        <3>6. CASE s # n
            <4>1. session'[s] = session[s] /\ born'[s] = born[s]
                BY <3>4, <3>6, TokenRows
            <4>2. CASE t = n
                <5>1. s < n
                    BY <3>2, <4>1, TokenRows
                <5> QED BY <4>2, <5>1 DEF SessionIds
            <4>3. CASE t # n
                <5>1. session'[t] = session[t]
                    BY <3>4, <4>3, TokenRows
                <5> QED BY <2>1, <4>1, <5>1
            <4> QED BY <4>2, <4>3
        <3> QED BY <3>5, <3>6
    <2>4. ASSUME NEW b \in Browsers, NEW u \in Users, PasswordMints(b, u)
          PROVE  t >= s
        <3>1. ByPassword(b, u).factor # "recovery"
            BY DEF ByPassword
        <3> QED BY <2>3, <2>4, <3>1 DEF PasswordMints
    <2>5. ASSUME NEW b \in Browsers, NEW u \in Users, FactorMints(b, u)
          PROVE  t >= s
        <3>1. PICK page, factor :
                 /\ factor \in {"totp", "recovery", "passkey"}
                 /\ Rotate(b, u, IF factor = "recovery" THEN OthersOf(u) ELSE {},
                           ByFactor(b, factor), page)
            BY <2>5 DEF FactorMints
        <3>2. ByFactor(b, factor).factor = factor
            BY DEF ByFactor
        <3> QED BY <2>3, <3>1, <3>2
    <2> QED BY <2>2, <2>4, <2>5, BirthSteps
<1> QED BY <1>1, <1>2, TypeCorrect, TokensOrdered, PTL DEF Spec

-----------------------------------------------------------------------------
(* Consent.                                                                  *)

\* A row of grants is what its user allowed at some consent page.
GrantAllowed ==
    \A u \in Users, c \in Clients :
        grant[<<u, c>>] # {} => \E a \in allowed : a[2] = u /\ a[3] = c /\ a[4] = grant[<<u, c>>]

\* The requests that touch grants and codes.
LEMMA ConsentSteps ==
    ASSUME [Next]_vars
    PROVE  \/ UNCHANGED <<grant, codes, allowed>>
           \/ \E b \in Browsers : ConsentIsGiven(b) \/ Allow(b)
<1>1. ASSUME NEW b \in Browsers, SignIn(b) PROVE UNCHANGED <<grant, codes, allowed>>
    BY <1>1 DEF SignIn, Authorize, Regenerate, Authorizes, InvalidLoginSession,
       LoginDeferred, LoginCompletes, VerifyRequest, Verify, VerifyLink
<1>2. ASSUME NEW b \in Browsers, Challenge(b) PROVE UNCHANGED <<grant, codes, allowed>>
    BY <1>2 DEF Challenge, GateBounces, OpenChallenge, OpenOrphaned, OpenPasskey, FollowLink,
       TotpRight, TotpWrong, TotpInconsistent, RecoverRight, RecoverWrong, AnswersWrong, PasskeyRight,
       PasskeyWrong, PasskeyRollsBack, SelfHeals, Completes
<1>3. ASSUME NEW b \in Browsers, Decide(b), ~ConsentIsGiven(b), ~Allow(b)
      PROVE  UNCHANGED <<grant, codes, allowed>>
    BY <1>3 DEF Decide, ConsentRedirects, ConsentWithoutLogin, ShowConsent, Deny, Logout
<1>4. Elapse => UNCHANGED <<grant, codes, allowed>>
    BY DEF Elapse, ExpireLogin, ElapseLock, ElapseChallenge, ExpireSession
<1> QED BY <1>1, <1>2, <1>3, <1>4 DEF Next, vars

\* What Allow writes, for the user and the client of the request.
LEMMA AllowWrites ==
    ASSUME TypeOK, NEW b \in Browsers, Allow(b)
    PROVE  LET u == UserOf(b)
               c == login[LoginOf(b)].client
               scope == login[LoginOf(b)].scope
           IN /\ u \in Users /\ c \in Clients
              /\ grant' = [grant EXCEPT ![<<u, c>>] = scope]
              /\ \E a \in allowed' : a[2] = u /\ a[3] = c /\ a[4] = scope
              /\ allowed \subseteq allowed'
              /\ codes' = codes \cup {CodeFor(b)}
<1>1. UserOf(b) \in Users /\ login[LoginOf(b)].client \in Clients
    BY ConsentRows DEF Allow, Submits, LoginRow
<1>2. PICK tab \in LoginIds :
         /\ grant' = [grant EXCEPT ![<<UserOf(b), login[LoginOf(b)].client>>]
                          = login[LoginOf(b)].scope]
         /\ allowed' = allowed \cup {<<tab, UserOf(b), login[LoginOf(b)].client,
                                       login[LoginOf(b)].scope>>}
         /\ codes' = codes \cup {CodeFor(b)}
    BY DEF Allow
<1>3. \E a \in allowed' : /\ a[2] = UserOf(b)
                          /\ a[3] = login[LoginOf(b)].client
                          /\ a[4] = login[LoginOf(b)].scope
    <2> DEFINE new == <<tab, UserOf(b), login[LoginOf(b)].client, login[LoginOf(b)].scope>>
    <2>1. new[2] = UserOf(b) /\ new[3] = login[LoginOf(b)].client
          /\ new[4] = login[LoginOf(b)].scope
        OBVIOUS
    <2>2. new \in allowed'
        BY <1>2
    <2> HIDE DEF new
    <2> QED BY <2>1, <2>2
<1> QED BY <1>1, <1>2, <1>3

LEMMA GrantsAllowed == Spec => []GrantAllowed
<1>1. Init => GrantAllowed
    BY DEF Init, GrantAllowed
<1>2. TypeOK /\ GrantAllowed /\ [Next]_vars => GrantAllowed'
    <2> SUFFICES ASSUME TypeOK, GrantAllowed, [Next]_vars, NEW u \in Users, NEW c \in Clients,
                        grant'[<<u, c>>] # {}
                 PROVE  \E a \in allowed' : a[2] = u /\ a[3] = c /\ a[4] = grant'[<<u, c>>]
        BY DEF GrantAllowed
    <2>1. CASE grant' = grant /\ allowed' = allowed
        BY <2>1 DEF GrantAllowed
    <2>2. ASSUME NEW b \in Browsers, Allow(b)
          PROVE  \E a \in allowed' : a[2] = u /\ a[3] = c /\ a[4] = grant'[<<u, c>>]
        <3> DEFINE v == UserOf(b)
                   d == login[LoginOf(b)].client
                   scope == login[LoginOf(b)].scope
        <3>1. /\ v \in Users /\ d \in Clients
              /\ grant' = [grant EXCEPT ![<<v, d>>] = scope]
              /\ \E a \in allowed' : a[2] = v /\ a[3] = d /\ a[4] = scope
              /\ allowed \subseteq allowed'
            BY <2>2, AllowWrites
        <3> HIDE DEF v, d, scope
        <3>2. CASE u = v /\ c = d
            <4>1. grant'[<<u, c>>] = scope
                BY <3>1, <3>2 DEF TypeOK
            <4> QED BY <3>1, <3>2, <4>1
        <3>3. CASE ~(u = v /\ c = d)
            <4>1. grant'[<<u, c>>] = grant[<<u, c>>]
                BY <3>1, <3>3 DEF TypeOK
            <4> QED BY <3>1, <4>1 DEF GrantAllowed
        <3> QED BY <3>2, <3>3
    <2> QED BY <2>1, <2>2, ConsentSteps DEF ConsentIsGiven
<1> QED BY <1>1, <1>2, TypeCorrect, PTL DEF Spec

(* No code exceeds a consent: its scopes were allowed to its client by its   *)
(* user in one go, however grants have been replaced since.                  *)
THEOREM CodesCovered == Spec => []ConsentCovers
<1>1. Init => ConsentCovers
    BY DEF Init, ConsentCovers
<1>2. TypeOK /\ GrantAllowed /\ ConsentCovers /\ [Next]_vars => ConsentCovers'
    <2> SUFFICES ASSUME TypeOK, GrantAllowed, ConsentCovers, [Next]_vars,
                        NEW c \in codes', c.client \notin FirstParty
                 PROVE  \E a \in allowed' : a[2] = c.user /\ a[3] = c.client /\ c.scope \subseteq a[4]
        BY DEF ConsentCovers
    <2>1. CASE codes' = codes /\ allowed' = allowed
        BY <2>1 DEF ConsentCovers
    <2>2. ASSUME NEW b \in Browsers
          PROVE  /\ CodeFor(b).user = UserOf(b)
                 /\ CodeFor(b).client = login[LoginOf(b)].client
                 /\ CodeFor(b).scope = login[LoginOf(b)].scope
        BY DEF CodeFor
    <2>3. ASSUME NEW b \in Browsers, Allow(b)
          PROVE  \E a \in allowed' : a[2] = c.user /\ a[3] = c.client /\ c.scope \subseteq a[4]
        <3>1. c \in codes \/ c = CodeFor(b)
            BY <2>3, AllowWrites
        <3>2. allowed \subseteq allowed'
            BY <2>3, AllowWrites
        <3>3. CASE c \in codes
            BY <3>2, <3>3 DEF ConsentCovers
        <3>4. CASE c = CodeFor(b)
            <4>1. PICK a \in allowed' : /\ a[2] = UserOf(b)
                                        /\ a[3] = login[LoginOf(b)].client
                                        /\ a[4] = login[LoginOf(b)].scope
                BY <2>3, AllowWrites
            <4> QED BY <2>2, <3>4, <4>1
        <3> QED BY <3>1, <3>3, <3>4
    <2>4. ASSUME NEW b \in Browsers, ConsentIsGiven(b)
          PROVE  \E a \in allowed' : a[2] = c.user /\ a[3] = c.client /\ c.scope \subseteq a[4]
        <3>1. (c \in codes \/ c = CodeFor(b)) /\ allowed' = allowed
            BY <2>4 DEF ConsentIsGiven
        <3>2. CASE c \in codes
            BY <3>1, <3>2 DEF ConsentCovers
        <3>3. CASE c = CodeFor(b)
            <4>1. UserOf(b) \in Users /\ login[LoginOf(b)].client \in Clients
                BY <2>4, ConsentRows DEF ConsentIsGiven, LoginRow
            <4>2. GrantOf(b) # {} /\ login[LoginOf(b)].scope \subseteq GrantOf(b)
                BY <2>2, <2>4, <3>3 DEF ConsentIsGiven, NeedsConsent
            <4>3. PICK a \in allowed : /\ a[2] = UserOf(b)
                                       /\ a[3] = login[LoginOf(b)].client
                                       /\ a[4] = GrantOf(b)
                BY <4>1, <4>2 DEF GrantAllowed, GrantOf
            <4> QED BY <2>2, <3>1, <3>3, <4>2, <4>3
        <3> QED BY <3>1, <3>2, <3>3
    <2> QED BY <2>1, <2>3, <2>4, ConsentSteps
<1> QED BY <1>1, <1>2, TypeCorrect, GrantsAllowed, PTL DEF Spec

-----------------------------------------------------------------------------
(* The budget of wrong answers (MfaBudget).                                  *)

\* What a commit leaves in the columns is what was there or what was set.
LEMMA CommitsColumns ==
    ASSUME BudgetTypeOK, NEW v \in Visits, visit[v] \in Visit, NEW set \in Columns,
           Commits(v, set)
    PROVE  /\ carry' \in Columns
           /\ carry'.attempts = IF set.attempts = Has(v).attempts THEN carry.attempts
                                ELSE set.attempts
           /\ carry'.lock = IF set.lock = Has(v).lock THEN carry.lock ELSE set.lock
<1>1. DOMAIN carry = {"pending", "attempts", "lock"}
    BY DEF BudgetTypeOK, Columns
<1>2. /\ carry'.pending = IF set.pending = Has(v).pending THEN carry.pending ELSE set.pending
      /\ carry'.attempts = IF set.attempts = Has(v).attempts THEN carry.attempts
                           ELSE set.attempts
      /\ carry'.lock = IF set.lock = Has(v).lock THEN carry.lock ELSE set.lock
    BY <1>1 DEF Commits
<1>3. carry' = [pending |-> carry'.pending, attempts |-> carry'.attempts, lock |-> carry'.lock]
    BY <1>1 DEF Commits
<1>4. carry'.pending \in BOOLEAN /\ carry'.attempts \in 0 .. MaxCounted
      /\ carry'.lock \in {"none", "running", "over"}
    BY <1>2 DEF BudgetTypeOK, Columns
<1> QED BY <1>2, <1>3, <1>4 DEF Columns

\* What a request has read, or sets, is a row of these columns.
LEMMA VisitColumns ==
    ASSUME BudgetTypeOK, NEW v \in Visits, visit[v] # Away
    PROVE  /\ visit[v] \in Visit /\ Has(v) \in Columns
           /\ Clean \in Columns
           /\ \A p \in BOOLEAN : [Has(v) EXCEPT !.pending = p] \in Columns
           /\ Has(v).attempts < MaxCounted => FailedAttempt(Has(v)) \in Columns
           /\ [visit[v] EXCEPT !.read.lock = "over"] \in Visit
<1>1. visit[v] \in Visit /\ Has(v) \in Columns
    BY DEF BudgetTypeOK, Visit, Has
<1>2. Clean \in Columns
    BY BudgetAssumption DEF Clean, Columns
<1>3. \A p \in BOOLEAN : [Has(v) EXCEPT !.pending = p] \in Columns
    BY <1>1 DEF Columns
<1>4. ASSUME Has(v).attempts < MaxCounted
      PROVE  FailedAttempt(Has(v)) \in Columns
    <2>1. ASSUME NEW read \in Columns, read.attempts < MaxCounted
          PROVE  FailedAttempt(read) \in Columns
        <3>1. read.attempts + 1 \in 0 .. MaxCounted
            BY <2>1, BudgetAssumption DEF Columns
        <3>2. \A n \in 0 .. MaxCounted, k \in {"none", "running", "over"} :
                 [read EXCEPT !.attempts = n, !.lock = k] \in Columns
            BY DEF Columns
        <3>3. (IF read.attempts + 1 >= MaxAttempts THEN "running" ELSE read.lock)
                 \in {"none", "running", "over"}
            BY DEF Columns
        <3> QED BY <3>1, <3>2, <3>3 DEF FailedAttempt
    <2> QED BY <1>1, <1>4, <2>1
<1>5. [visit[v] EXCEPT !.read.lock = "over"] \in Visit
    BY <1>1 DEF Visit, Columns
<1> QED BY <1>1, <1>2, <1>3, <1>4, <1>5

\* The steps of a request that touch neither the history nor the count.
Quiet(v) ==
    /\ UNCHANGED counted
    /\ carry'.attempts = carry.attempts /\ carry'.lock = carry.lock
    /\ visit' = [visit EXCEPT ![v] = visit'[v]]

\* A wrong answer, as the row and the history see it.
Counts(v) ==
    /\ On(v, "challenge")
    /\ Has(v).attempts < MaxCounted
    /\ carry'.attempts = Has(v).attempts + 1
    /\ Has(v).attempts + 1 >= MaxAttempts => carry'.lock = "running"
    /\ Has(v).attempts + 1 < MaxAttempts => carry'.lock = carry.lock
    /\ counted' = [counted EXCEPT ![Has(v).attempts] = @ + 1]
    /\ visit' = [visit EXCEPT ![v] = Away]

\* A wipe that takes hold.
Empties ==
    /\ counted' = Uncounted
    /\ carry'.attempts \in {0, carry.attempts}

BudgetStep ==
    \/ \E v \in Visits :
          \/ Quiet(v) /\ (visit'[v] = Away \/ visit'[v].read.attempts = carry.attempts
                            \/ visit'[v].step # "challenge"
                            \/ /\ visit[v] # Away /\ visit'[v].step = visit[v].step
                               /\ visit'[v].read.attempts = visit[v].read.attempts)
          \/ Counts(v)
    \/ Empties
    \/ UNCHANGED <<visit, counted>> /\ carry'.attempts = carry.attempts
          /\ (carry'.lock = "none" => carry.lock = "none")

\* Every step keeps the types, and is one of these kinds.
LEMMA BudgetSteps ==
    ASSUME BudgetTypeOK, [BudgetNext]_budget
    PROVE  BudgetTypeOK' /\ BudgetStep
<1> DEFINE Goal == BudgetTypeOK' /\ BudgetStep
<1>1. CASE UNCHANGED budget
    BY <1>1 DEF budget, BudgetTypeOK, BudgetStep
<1>2. CASE LockElapses
    <2>1. carry' \in Columns /\ carry'.attempts = carry.attempts /\ carry'.lock = "over"
        BY <1>2 DEF LockElapses, BudgetTypeOK, Columns
    <2> QED BY <1>2, <2>1 DEF LockElapses, BudgetTypeOK, BudgetStep
<1>3. ASSUME NEW v \in Visits, NEW step \in {"login", "challenge"}, Reads(v, step) PROVE Goal
    <2>1. visit' = [visit EXCEPT ![v] = [step |-> step, read |-> carry]]
        BY <1>3 DEF Reads, Goes
    <2>2. visit'[v] = [step |-> step, read |-> carry]
        BY <2>1 DEF BudgetTypeOK
    <2>3. [step |-> step, read |-> carry] \in Visit
        BY DEF BudgetTypeOK, Visit
    <2>4. BudgetTypeOK'
        BY <1>3, <2>1, <2>3 DEF Reads, BudgetTypeOK
    <2>5. Quiet(v)
        BY <1>3, <2>1, <2>2 DEF Reads, Quiet
    <2> QED BY <2>2, <2>4, <2>5 DEF BudgetStep
<1>4. ASSUME NEW v \in Visits, Leaves(v) PROVE Goal
    <2>1. visit' = [visit EXCEPT ![v] = Away] /\ visit'[v] = Away
        BY <1>4 DEF Leaves, Ends, BudgetTypeOK
    <2> QED BY <1>4, <2>1 DEF Leaves, BudgetTypeOK, BudgetStep, Quiet
<1>5. ASSUME NEW v \in Visits, ReadLockElapses(v) PROVE Goal
    <2>1. [visit[v] EXCEPT !.read.lock = "over"] \in Visit
        BY <1>5, VisitColumns DEF ReadLockElapses
    <2>2. visit' = [visit EXCEPT ![v] = [visit[v] EXCEPT !.read.lock = "over"]]
          /\ visit'[v] = [visit[v] EXCEPT !.read.lock = "over"]
        BY <1>5 DEF ReadLockElapses, BudgetTypeOK
    <2>3. visit'[v].step = visit[v].step /\ visit'[v].read.attempts = visit[v].read.attempts
        BY <1>5, <2>2, VisitColumns DEF ReadLockElapses, Visit, Columns
    <2>4. BudgetTypeOK'
        BY <1>5, <2>1, <2>2 DEF ReadLockElapses, BudgetTypeOK
    <2> QED BY <1>5, <2>2, <2>3, <2>4 DEF ReadLockElapses, BudgetStep, Quiet
<1>6. ASSUME NEW v \in Visits, NEW p \in BOOLEAN, visit[v] # Away,
             Commits(v, [Has(v) EXCEPT !.pending = p]), Ends(v), UNCHANGED counted
      PROVE  Goal
    <2> DEFINE set == [Has(v) EXCEPT !.pending = p]
    <2>1. set \in Columns /\ visit[v] \in Visit /\ Has(v) \in Columns
        BY <1>6, VisitColumns
    <2>2. set.attempts = Has(v).attempts /\ set.lock = Has(v).lock
        BY <2>1 DEF Columns
    <2> HIDE DEF set
    <2>3. Commits(v, set)
        BY <1>6 DEF set
    <2>4. carry' \in Columns /\ carry'.attempts = carry.attempts /\ carry'.lock = carry.lock
        BY <2>1, <2>2, <2>3, CommitsColumns
    <2>5. visit' = [visit EXCEPT ![v] = Away] /\ visit'[v] = Away
        BY <1>6 DEF Ends, BudgetTypeOK
    <2> QED BY <1>6, <2>4, <2>5 DEF BudgetTypeOK, BudgetStep, Quiet
<1>7. ASSUME NEW v \in Visits, LoginPends(v) \/ Bounces(v) PROVE Goal
    <2>1. visit[v] # Away
        BY <1>7 DEF LoginPends, Bounces, On, Away
    <2> QED BY <1>6, <1>7, <2>1 DEF LoginPends, Bounces
<1>8. ASSUME NEW v \in Visits, NEW after \in {Away, [step |-> "pend", read |-> Clean]},
             visit[v] # Away, Wipes(v), visit' = [visit EXCEPT ![v] = after]
      PROVE  Goal
    <2>1. Clean \in Columns /\ visit[v] \in Visit /\ Has(v) \in Columns
        BY <1>8, VisitColumns
    <2>2. /\ carry' \in Columns
          /\ carry'.attempts = IF Clean.attempts = Has(v).attempts THEN carry.attempts
                               ELSE Clean.attempts
          /\ carry'.lock = IF Clean.lock = Has(v).lock THEN carry.lock ELSE Clean.lock
        BY <1>8, <2>1, CommitsColumns DEF Wipes
    <2>3. Clean.attempts = 0 /\ Clean.lock = "none"
        BY DEF Clean
    <2>4. after \in Visit \cup {Away} /\ (after = Away \/ after.step # "challenge")
        BY <2>1 DEF Visit
    <2>5. counted' \in [0 .. MaxCounted -> Nat]
        BY <1>8 DEF Wipes, Uncounted, BudgetTypeOK
    <2>6. BudgetTypeOK'
        BY <1>8, <2>2, <2>4, <2>5 DEF BudgetTypeOK
    <2>7. visit'[v] = after
        BY <1>8 DEF BudgetTypeOK
    <2>8. CASE Has(v).attempts # 0 \/ Has(v).lock # "none"
        BY <1>8, <2>2, <2>3, <2>6, <2>8 DEF Wipes, BudgetStep, Empties
    <2>9. CASE Has(v).attempts = 0 /\ Has(v).lock = "none"
        BY <1>8, <2>2, <2>3, <2>4, <2>6, <2>7, <2>9 DEF Wipes, BudgetStep, Quiet
    <2> QED BY <2>8, <2>9
<1>9. ASSUME NEW v \in Visits, LoginWipes(v) \/ AnswerSucceeds(v) PROVE Goal
    <2>1. visit[v] # Away
        BY <1>9 DEF LoginWipes, AnswerSucceeds, Passes, On, Away
    <2> QED BY <1>8, <1>9, <2>1 DEF LoginWipes, AnswerSucceeds, Goes, Ends
<1>10. ASSUME NEW v \in Visits, AnswerFails(v) PROVE Goal
    <2> DEFINE set == FailedAttempt(Has(v))
    <2>1. visit[v] # Away /\ On(v, "challenge") /\ Has(v).attempts < MaxCounted
        BY <1>10 DEF AnswerFails, Passes, On, Away
    <2>2. set \in Columns /\ visit[v] \in Visit /\ Has(v) \in Columns
        BY <2>1, VisitColumns
    <2>3. /\ set.attempts = Has(v).attempts + 1
          /\ set.lock = IF Has(v).attempts + 1 >= MaxAttempts THEN "running" ELSE Has(v).lock
        BY <2>2 DEF FailedAttempt, Columns
    <2>4. Has(v).lock # "running" /\ Commits(v, set) /\ Ends(v)
          /\ counted' = [counted EXCEPT ![Has(v).attempts] = @ + 1]
        BY <1>10 DEF AnswerFails, Passes
    <2> HIDE DEF set
    <2>5. /\ carry' \in Columns
          /\ carry'.attempts = IF set.attempts = Has(v).attempts THEN carry.attempts
                               ELSE set.attempts
          /\ carry'.lock = IF set.lock = Has(v).lock THEN carry.lock ELSE set.lock
        BY <2>2, <2>4, CommitsColumns
    <2>6. Has(v).attempts \in 0 .. MaxCounted /\ MaxCounted \in Nat /\ MaxAttempts \in Nat
        BY <2>2, BudgetAssumption DEF Columns
    <2>7. carry'.attempts = Has(v).attempts + 1
        BY <2>3, <2>5, <2>6
    <2>8. Has(v).attempts + 1 >= MaxAttempts => carry'.lock = "running"
        BY <2>3, <2>4, <2>5
    <2>9. Has(v).attempts + 1 < MaxAttempts => carry'.lock = carry.lock
        BY <2>3, <2>5, <2>6
    <2>10. visit' = [visit EXCEPT ![v] = Away]
        BY <2>4 DEF Ends
    <2>11. counted' \in [0 .. MaxCounted -> Nat]
        BY <2>4, <2>6 DEF BudgetTypeOK
    <2>12. BudgetTypeOK'
        BY <2>5, <2>10, <2>11 DEF BudgetTypeOK
    <2> QED BY <2>1, <2>4, <2>7, <2>8, <2>9, <2>10, <2>12 DEF BudgetStep, Counts
<1> QED BY <1>1, <1>2, <1>3, <1>4, <1>5, <1>7, <1>9, <1>10 DEF BudgetNext

(* The columns and the requests in flight keep their types.                  *)
THEOREM BudgetTypeCorrect == BudgetSpec => []BudgetTypeOK
<1>1. BudgetInit => BudgetTypeOK
    BY BudgetAssumption DEF BudgetInit, BudgetTypeOK, Clean, Columns, Uncounted
<1>2. BudgetTypeOK /\ [BudgetNext]_budget => BudgetTypeOK'
    BY BudgetSteps
<1> QED BY <1>1, <1>2, PTL DEF BudgetSpec

\* Those who may still answer on top of n.
Holders(n) == {v \in Visits : On(v, "challenge") /\ Has(v).attempts = n}
Width == Cardinality(Visits)

\* While n is not in the row, nobody joins its holders.
Bounded(n) ==
    IF carry.attempts = n THEN counted[n] <= Width * Before(n)
    ELSE counted[n] + Cardinality(Holders(n)) <= Width * (Before(n) + 1)
BudgetInv == \A n \in 0 .. MaxCounted : Bounded(n)

LEMMA HoldersFinite ==
    ASSUME NEW n
    PROVE  /\ IsFiniteSet(Holders(n)) /\ Width \in Nat
           /\ Cardinality(Holders(n)) \in Nat /\ Cardinality(Holders(n)) <= Width
<1>1. Holders(n) \subseteq Visits
    BY DEF Holders
<1> QED BY <1>1, BudgetAssumption, FS_Subset, FS_CardinalityType DEF Width

LEMMA BeforeType ==
    ASSUME BudgetTypeOK, NEW n \in 0 .. MaxCounted
    PROVE  Before(n) \in Nat /\ counted[n] \in Nat
  BY BudgetAssumption DEF BudgetTypeOK, Before

LEMMA MoreTimes ==
    ASSUME NEW k \in Nat, NEW m \in Nat, NEW x \in Nat, m <= x
    PROVE  k * m \in Nat /\ k * (m + 1) = k * m + k /\ k * m <= k * x
<1>1. PICK d \in Nat : x = m + d
    <2>1. x - m \in Nat /\ x = m + (x - m)
        OBVIOUS
    <2> QED BY <2>1
<1>2. k * m \in Nat /\ k * d \in Nat
    OBVIOUS
<1>3. k * x = k * m + k * d
    BY <1>1
<1>4. k * (m + 1) = k * m + k
    OBVIOUS
<1> QED BY <1>2, <1>3, <1>4

\* Whatever the row has, a bound that leaves room for every holder.
LEMMA Roomy ==
    ASSUME BudgetTypeOK, NEW n \in 0 .. MaxCounted, Bounded(n), carry.attempts = n
    PROVE  counted[n] + Width <= Width * (Before(n) + 1)
<1>1. Width * (Before(n) + 1) = Width * Before(n) + Width /\ Width * Before(n) \in Nat
    BY HoldersFinite, BeforeType, MoreTimes
<1> QED BY <1>1, HoldersFinite, BeforeType DEF Bounded

\* A request that comes to hold nothing new on top of n.
LEMMA FewerHolders ==
    ASSUME NEW n, NEW S, S \subseteq Holders(n)
    PROVE  Cardinality(S) \in Nat /\ Cardinality(S) <= Cardinality(Holders(n))
  BY HoldersFinite, FS_Subset, FS_CardinalityType

LEMMA BudgetKept ==
    ASSUME BudgetTypeOK, BudgetInv, [BudgetNext]_budget
    PROVE  BudgetInv'
<1> SUFFICES ASSUME NEW n \in 0 .. MaxCounted PROVE Bounded(n)'
    BY DEF BudgetInv
<1>1. BudgetTypeOK' /\ BudgetStep
    BY BudgetSteps
<1>2. Bounded(n)
    BY DEF BudgetInv
<1>3. /\ Width \in Nat /\ Cardinality(Holders(n)) \in Nat
      /\ Before(n) \in Nat /\ counted[n] \in Nat
    BY HoldersFinite, BeforeType
<1>4. Cardinality(Holders(n)') \in Nat /\ Cardinality(Holders(n)') <= Width
    <2>1. Holders(n)' \subseteq Visits
        BY DEF Holders
    <2> QED BY <2>1, BudgetAssumption, FS_Subset, FS_CardinalityType DEF Width
<1>5. Width * (Before(n) + 1) = Width * Before(n) + Width /\ Width * Before(n) \in Nat
    BY <1>3, MoreTimes
<1>6. ASSUME counted' = counted, carry'.attempts = carry.attempts,
             carry.attempts # n => Holders(n)' \subseteq Holders(n)
      PROVE  Bounded(n)'
    <2>1. Before(n)' = Before(n)
        BY <1>6 DEF Before
    <2>2. CASE carry.attempts = n
        BY <1>2, <1>6, <2>1, <2>2 DEF Bounded, Width
    <2>3. CASE carry.attempts # n
        <3>1. Cardinality(Holders(n)') <= Cardinality(Holders(n))
            BY <1>6, <2>3, FewerHolders
        <3> QED BY <1>2, <1>3, <1>4, <1>6, <2>1, <2>3, <3>1, <1>5 DEF Bounded, Width
    <2> QED BY <2>2, <2>3
<1>7. ASSUME NEW v \in Visits, Quiet(v),
             \/ visit'[v] = Away \/ visit'[v].read.attempts = carry.attempts
             \/ visit'[v].step # "challenge"
             \/ /\ visit[v] # Away /\ visit'[v].step = visit[v].step
                /\ visit'[v].read.attempts = visit[v].read.attempts
      PROVE  Bounded(n)'
    <2>1. \A w \in Visits \ {v} : visit'[w] = visit[w]
        BY <1>7 DEF Quiet, BudgetTypeOK
    <2>2. carry.attempts # n => Holders(n)' \subseteq Holders(n)
        BY <1>7, <2>1 DEF Holders, On, Has, Away
    <2> QED BY <1>6, <1>7, <2>2 DEF Quiet
<1>8. ASSUME NEW v \in Visits, Counts(v) PROVE Bounded(n)'
    <2> DEFINE a == Has(v).attempts
    <2>1. visit[v] # Away
        BY <1>8 DEF Counts, On, Away
    <2>2. a \in 0 .. MaxCounted /\ a < MaxCounted /\ MaxCounted \in Nat
        BY <1>8, <2>1, VisitColumns, BudgetAssumption DEF Counts, Columns
    <2>3. carry'.attempts = a + 1 /\ counted' = [counted EXCEPT ![a] = @ + 1]
        BY <1>8 DEF Counts
    <2>4. v \in Holders(a)
        BY <1>8 DEF Counts, Holders
    <2>5. \A w \in Visits \ {v} : visit'[w] = visit[w]
        BY <1>8 DEF Counts, BudgetTypeOK
    <2>6. visit'[v] = Away
        BY <1>8 DEF Counts, BudgetTypeOK
    <2>7. Holders(n)' = Holders(n) \ {v}
        BY <2>5, <2>6 DEF Holders, On, Has, Away
    <2> HIDE DEF a
    <2>8. CASE n = a
        <3>1. counted'[n] = counted[n] + 1
            BY <2>3, <2>8 DEF BudgetTypeOK
        <3>2. Before(n)' = Before(n)
            BY <2>2, <2>3, <2>8, BudgetAssumption DEF Before, BudgetTypeOK
        <3>3. Cardinality(Holders(n)') = Cardinality(Holders(n)) - 1
            BY <2>4, <2>7, <2>8, HoldersFinite, FS_RemoveElement
        <3>4. counted[n] + Cardinality(Holders(n)) <= Width * (Before(n) + 1)
            BY <1>2, <1>3, <1>5, Roomy, HoldersFinite DEF Bounded
        <3>5. carry'.attempts # n
            BY <2>2, <2>3, <2>8
        <3>6. counted'[n] + Cardinality(Holders(n)') <= Width * (Before(n)' + 1)
            BY <1>3, <3>1, <3>2, <3>3, <3>4
        <3> QED BY <3>5, <3>6 DEF Bounded, Width
    <2>9. CASE n = a + 1
        <3>1. counted'[n] = counted[n]
            BY <2>2, <2>3, <2>9 DEF BudgetTypeOK
        <3>2. Before(n)' = Before(n) + 1
            BY <2>2, <2>3, <2>9, BudgetAssumption DEF Before, BudgetTypeOK
        <3>3. counted[n] <= Width * (Before(n) + 1)
            BY <1>2, <1>3, <1>5 DEF Bounded
        <3> QED BY <2>3, <2>9, <3>1, <3>2, <3>3 DEF Bounded, Width
    <2>10. CASE n # a /\ n # a + 1
        <3>1. counted'[n] = counted[n]
            BY <2>3, <2>10 DEF BudgetTypeOK
        <3>2. Before(n)' = Before(n)
            BY <2>2, <2>3, <2>10, BudgetAssumption DEF Before, BudgetTypeOK
        <3>3. Cardinality(Holders(n)') <= Cardinality(Holders(n))
            BY <2>7, FewerHolders
        <3>4. counted[n] + Cardinality(Holders(n)) <= Width * (Before(n) + 1)
            BY <1>2, <1>3, <1>5, Roomy, HoldersFinite DEF Bounded
        <3>5. counted'[n] + Cardinality(Holders(n)') <= Width * (Before(n)' + 1)
            BY <1>3, <1>4, <3>1, <3>2, <3>3, <3>4, <1>5
        <3> QED BY <2>3, <2>10, <3>5 DEF Bounded, Width
    <2> QED BY <2>8, <2>9, <2>10
<1>9. CASE Empties
    <2>1. counted'[n] = 0 /\ Before(n)' = 0
        BY <1>9, BudgetAssumption DEF Empties, Uncounted, Before
    <2>2. Width * 0 = 0 /\ Width * (0 + 1) = Width
        BY <1>3
    <2>3. counted'[n] <= Width * Before(n)'
        BY <2>1, <2>2
    <2>4. counted'[n] + Cardinality(Holders(n)') <= Width * (Before(n)' + 1)
        BY <1>3, <1>4, <2>1, <2>2
    <2> QED BY <2>3, <2>4 DEF Bounded, Width
<1>10. CASE UNCHANGED <<visit, counted>> /\ carry'.attempts = carry.attempts
    BY <1>6, <1>10 DEF Holders, On, Has
<1> QED BY <1>1, <1>7, <1>8, <1>9, <1>10 DEF BudgetStep

(* _record_failed_mfa_attempt: however many requests answer at once, no more *)
(* wrong answers are counted on top of a number than requests may have read  *)
(* it, for every width, limit and bound.                                     *)
THEOREM BudgetHolds == BudgetSpec => []BudgetBounds
<1>1. BudgetInit => BudgetInv
    <2> SUFFICES ASSUME BudgetInit, NEW n \in 0 .. MaxCounted PROVE Bounded(n)
        BY DEF BudgetInv
    <2>1. Holders(n) = {}
        BY DEF BudgetInit, Holders, On, Away
    <2>2. counted[n] = 0 /\ Before(n) = 0
        BY BudgetAssumption DEF BudgetInit, Uncounted, Before
    <2>3. Cardinality(Holders(n)) = 0
        BY <2>1, FS_EmptySet
    <2>4. Width * 0 = 0 /\ Width * (0 + 1) = Width /\ Width \in Nat
        BY HoldersFinite
    <2> QED BY <2>2, <2>3, <2>4 DEF Bounded
<1>2. BudgetTypeOK /\ BudgetInv /\ [BudgetNext]_budget => BudgetInv'
    BY BudgetKept
<1>3. BudgetTypeOK /\ BudgetInv => BudgetBounds
    <2> SUFFICES ASSUME BudgetTypeOK, BudgetInv, NEW n \in 0 .. MaxCounted
                 PROVE  counted[n] <= Width * (Before(n) + 1)
        BY DEF BudgetBounds, Width
    <2>1. Bounded(n) /\ Width \in Nat /\ Cardinality(Holders(n)) \in Nat
          /\ Before(n) \in Nat /\ counted[n] \in Nat
        BY HoldersFinite, BeforeType DEF BudgetInv
    <2>2. Width * (Before(n) + 1) = Width * Before(n) + Width /\ Width * Before(n) \in Nat
        BY <2>1, MoreTimes
    <2> QED BY <2>1, <2>2 DEF Bounded
<1> QED BY <1>1, <1>2, <1>3, BudgetTypeCorrect, PTL DEF BudgetSpec

(* Until a lock is set, no answer was counted on top of the last number      *)
(* below the limit, or above, whatever was wiped and however late.           *)
THEOREM BudgetEnds == BudgetSpec => []BudgetLocks
<1>1. BudgetInit => BudgetLocks
    BY BudgetAssumption DEF BudgetInit, BudgetLocks, Uncounted
<1>2. BudgetTypeOK /\ BudgetLocks /\ [BudgetNext]_budget => BudgetLocks'
    <2> SUFFICES ASSUME BudgetTypeOK, BudgetLocks, [BudgetNext]_budget, carry'.lock = "none",
                        NEW n \in MaxAttempts - 1 .. MaxCounted
                 PROVE  counted'[n] = 0
        BY DEF BudgetLocks
    <2>1. BudgetStep
        BY BudgetSteps
    <2>2. n \in 0 .. MaxCounted /\ MaxAttempts \in Nat /\ n >= MaxAttempts - 1
        BY BudgetAssumption
    <2>3. CASE Empties
        BY <2>2, <2>3 DEF Empties, Uncounted
    <2>4. CASE counted' = counted /\ carry.lock = "none"
        BY <2>4 DEF BudgetLocks
    <2>5. ASSUME NEW v \in Visits, Counts(v) PROVE counted'[n] = 0
        <3>1. Has(v).attempts \in 0 .. MaxCounted
            <4>1. visit[v] # Away
                BY <2>5 DEF Counts, On, Away
            <4>2. Has(v) \in Columns
                BY <4>1, VisitColumns
            <4> QED BY <4>2 DEF Columns
        <3>2. Has(v).attempts + 1 < MaxAttempts /\ carry.lock = "none"
            BY <2>2, <2>5, <3>1 DEF Counts
        <3>3. counted'[n] = counted[n]
            BY <2>2, <2>5, <3>1, <3>2 DEF Counts, BudgetTypeOK
        <3> QED BY <3>2, <3>3 DEF BudgetLocks
    <2> QED BY <2>1, <2>3, <2>4, <2>5 DEF BudgetStep, Quiet
<1> QED BY <1>1, <1>2, BudgetTypeCorrect, PTL DEF BudgetSpec
=============================================================================
