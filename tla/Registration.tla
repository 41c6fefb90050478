----------------------------- MODULE Registration -----------------------------
(***************************************************************************)
(* How users come to be: by a password, by the account that they have at an *)
(* OAuth provider, and by the hand of an administrator.  A registration     *)
(* session is a row that the cookie of a browser names; it ends with the    *)
(* registration, and so it is meant to make one user.                       *)
(*                                                                         *)
(* A request is taken from commit to commit and keeps what it read at first.*)
(* One tenant and one provider; rates, the fields of the form, the rules of *)
(* passwords and the minted session tokens are left out.                    *)
(***************************************************************************)
EXTENDS FiniteSets, Naturals

CONSTANTS
    Users, OAuthAccounts, Sessions, Flows,  \* ids of rows; each is used once
    Addresses,                              \* e-mail addresses, in lower case
    Requests,                               \* requests in flight
    None                                    \* no such value

ASSUME RegistrationAssumption ==
    None \notin Users \cup OAuthAccounts \cup Sessions \cup Flows \cup Addresses

VARIABLES
    users,     \* users[u]: the row of users
    accounts,  \* accounts[o]: the row of oauth_accounts
    sessions,  \* sessions[s]: the row of registration_sessions
    flows,     \* flows[f]: the row of oauth_sessions
    request,   \* request[q]: how far the request q has come
    settled,   \* history: the user of an account for which no registration was open
    made,      \* history: the users that came out of a registration session
    disturbed  \* history: sessions that two requests used at once, or one did not finish

tables == <<users, accounts, sessions, flows>>
vars == <<tables, request, settled, made, disturbed>>

Lives == {"unused", "live", "gone"}
Live(table) == {x \in DOMAIN table : table[x].life = "live"}
Fresh(table) == {x \in DOMAIN table : table[x].life = "unused"}

User == [life: Lives, email: Addresses \cup {None}, active: BOOLEAN]
Account == [life: Lives, user: Users \cup {None}, email: Addresses \cup {None}]
Session == [life: Lives, account: OAuthAccounts \cup {None}, email: Addresses \cup {None}]
Flow == [life: Lives, account: OAuthAccounts \cup {None}]
NoSession == [life |-> "gone", account |-> None, email |-> None]

(* A request: the step that comes next, and what it goes by.  noted says     *)
(* that the session had the address already when it was read.                *)
Idle == [step |-> "idle"]
Creating == [step: {"insert", "note", "link", "finish"}, user: Users \cup {None},
             email: Addresses, session: Sessions,
             account: OAuthAccounts \cup {None}, noted: BOOLEAN]
Calling == [step: {"adopt", "attach", "tokens", "enrol"}, account: OAuthAccounts,
            email: Addresses \cup {None}, user: Users \cup {None}, flow: Flows]

TypeOK ==
    /\ users \in [Users -> User]
    /\ \A u, v \in Live(users) : u # v => users[u].email # users[v].email
    /\ accounts \in [OAuthAccounts -> Account]
    /\ \A o \in OAuthAccounts : accounts[o].user # None => users[accounts[o].user].life = "live"
    /\ \A o, p \in Live(accounts) : o # p /\ accounts[o].user # None
                                      => accounts[o].user # accounts[p].user
    /\ sessions \in [Sessions -> Session]
    /\ \A s \in Sessions : sessions[s].account # None => accounts[sessions[s].account].life = "live"
    /\ flows \in [Flows -> Flow]
    /\ \A f \in Flows : flows[f].account # None => accounts[flows[f].account].life = "live"
    /\ request \in [Requests -> Creating \cup Calling \cup {Idle}]
    /\ settled \in [OAuthAccounts -> Users \cup {None}]
    /\ made \in [Sessions -> SUBSET Users]
    /\ disturbed \subseteq Sessions

\* No one has signed in yet, at most one user was made by an administrator.
Init ==
    /\ \E us \in {{}} \cup {{u} : u \in Users}, e \in Addresses :
          users = [u \in Users |-> IF u \in us
                      THEN [life |-> "live", email |-> e, active |-> TRUE]
                      ELSE [life |-> "unused", email |-> None, active |-> FALSE]]
    /\ accounts = [o \in OAuthAccounts |-> [life |-> "unused", user |-> None, email |-> None]]
    /\ sessions = [s \in Sessions |-> [NoSession EXCEPT !.life = "unused"]]
    /\ flows = [f \in Flows |-> [life |-> "unused", account |-> None]]
    /\ request = [q \in Requests |-> Idle]
    /\ settled = [o \in OAuthAccounts |-> None]
    /\ made = [s \in Sessions |-> {}]
    /\ disturbed = {}

-----------------------------------------------------------------------------
At(q, step) == request[q].step = step
Goes(q, r) == request' = [request EXCEPT ![q] = r]
GoesTo(q, step) == request' = [request EXCEPT ![q].step = step]
Ends(q) == Goes(q, Idle)

\* get_optional_registration_session, get_oauth_session, get_by_provider_and_account_id
HasSession(s) == s \in Live(sessions)
HasFlow(f) == f \in Live(flows)
Known(o) == o \in Live(accounts)

\* The requests that register with the session s.
With(s) ==
    {q \in Requests : \/ At(q, "insert") /\ request[q].session = s
                      \/ At(q, "note") /\ request[q].session = s
                      \/ At(q, "link") /\ request[q].session = s
                      \/ At(q, "finish") /\ request[q].session = s}

(* The process dies, the client goes away, or a constraint fails: what is    *)
(* committed stands.  A session whose user is made but that was not deleted  *)
(* can be used again.                                                        *)
Stop(q) ==
    /\ request[q] # Idle /\ Ends(q)
    /\ disturbed' = IF At(q, "note") \/ At(q, "link") \/ At(q, "finish")
                    THEN disturbed \cup {request[q].session} ELSE disturbed
    /\ UNCHANGED <<tables, made>>

-----------------------------------------------------------------------------
(* Registrations.                                                            *)

\* RegistrationFlow.create_registration_session
Opens(s, o, e) ==
    /\ s \in Fresh(sessions)
    /\ sessions' = [sessions EXCEPT ![s] = [life |-> "live", account |-> o, email |-> e]]

\* The page without a session opens one.
ShowPage(s) ==
    /\ Opens(s, None, None)
    /\ UNCHANGED <<users, accounts, flows, request, made, disturbed>>

(* The form is submitted.  An address that is taken ends it here: the page   *)
(* goes on as if it had worked, and the session stays.                       *)
Register(q, s, e) ==
    /\ request[q] = Idle
    /\ HasSession(s)
    /\ \A u \in Live(users) : users[u].email # e
    /\ Goes(q, [step |-> "insert", user |-> None, email |-> e, session |-> s,
                account |-> sessions[s].account, noted |-> sessions[s].email = e])
    /\ disturbed' = IF With(s) # {} THEN disturbed \cup {s} ELSE disturbed
    /\ UNCHANGED <<tables, made>>

\* UserManager.create, up to the commit of the user
Insert(q, u) ==
    /\ At(q, "insert") /\ u \in Fresh(users)
    /\ \A v \in Live(users) : users[v].email # request[q].email
    /\ users' = [users EXCEPT ![u] = [life |-> "live", email |-> request[q].email,
                                      active |-> TRUE]]
    /\ request' = [request EXCEPT ![q].step = "note", ![q].user = u]
    /\ made' = [made EXCEPT ![request[q].session] = @ \cup {u}]
    /\ UNCHANGED <<accounts, sessions, flows, disturbed>>

\* Her address goes to the session, unless it was there when the session was read.
Note(q) ==
    /\ At(q, "note")
    /\ LET s == request[q].session
       IN  /\ request[q].noted \/ s \in Live(sessions)
           /\ sessions' = IF request[q].noted THEN sessions
                          ELSE [sessions EXCEPT ![s].email = request[q].email]
    /\ GoesTo(q, IF request[q].account = None THEN "finish" ELSE "link")
    /\ UNCHANGED <<users, accounts, flows, made, disturbed>>

\* The account is linked, to whomever it was linked before.
Link(q) ==
    /\ At(q, "link")
    /\ LET o == request[q].account
       IN  /\ o \in Live(accounts) /\ request[q].user \in Live(users)
           /\ accounts' = [accounts EXCEPT ![o].user = request[q].user]
    /\ GoesTo(q, "finish")
    /\ UNCHANGED <<users, sessions, flows, made, disturbed>>

BugFinish(q) ==
    /\ At(q, "finish") /\ request[q].user \in Live(users)
    /\ Ends(q)
    /\ UNCHANGED <<tables, made, disturbed>>
\* A session token is minted, and the registration session deleted.
Finish(q) ==
    /\ At(q, "finish") /\ request[q].user \in Live(users)
    /\ sessions' = [sessions EXCEPT ![request[q].session] = NoSession]
    /\ Ends(q)
    /\ UNCHANGED <<users, accounts, flows, made, disturbed>>

-----------------------------------------------------------------------------
(* The OAuth provider.                                                       *)

Authorize(f) ==
    /\ f \in Fresh(flows)
    /\ flows' = [flows EXCEPT ![f].life = "live"]
    /\ UNCHANGED <<users, accounts, sessions, request, made, disturbed>>

(* The provider says that it is the account o, with the address e.  The flow *)
(* is not spent; an inactive user is turned away.                            *)
Callback(q, f, o, e) ==
    /\ request[q] = Idle /\ HasFlow(f)
    /\ LET row == accounts[o]
       IN  /\ row.user # None => users[row.user].active
           /\ Goes(q, [step |-> IF Known(o) THEN "tokens" ELSE "adopt", account |-> o, flow |-> f,
                       email |-> IF Known(o) THEN row.email ELSE e, user |-> row.user])
    /\ UNCHANGED <<tables, made, disturbed>>

\* A new account; another request that was faster breaks the unique constraint.
Adopt(q) ==
    /\ At(q, "adopt") /\ request[q].account \in Fresh(accounts)
    /\ accounts' = [accounts EXCEPT ![request[q].account] =
                        [life |-> "live", user |-> None, email |-> request[q].email]]
    /\ GoesTo(q, "attach")
    /\ UNCHANGED <<users, sessions, flows, made, disturbed>>

\* The flow is told of the account, if the clean-up has left it.
Attach(q) ==
    /\ At(q, "attach") /\ request[q].flow \in Live(flows)
    /\ request[q].account \in Live(accounts)
    /\ flows' = [flows EXCEPT ![request[q].flow].account = request[q].account]
    /\ GoesTo(q, "enrol")
    /\ UNCHANGED <<users, accounts, sessions, made, disturbed>>

BugTokens(q) ==
    /\ At(q, "tokens") /\ request[q].account \in Live(accounts)
    /\ GoesTo(q, "enrol")
    /\ UNCHANGED <<tables, made, disturbed>>
\* The tokens are stored; a user who was found is signed in, or a registration begins.
Tokens(q) ==
    /\ At(q, "tokens") /\ request[q].account \in Live(accounts)
    /\ IF request[q].user # None THEN Ends(q) ELSE GoesTo(q, "enrol")
    /\ UNCHANGED <<tables, made, disturbed>>

Enrol(q, s) ==
    /\ At(q, "enrol") /\ request[q].account \in Live(accounts)
    /\ Opens(s, request[q].account, request[q].email)
    /\ Ends(q)
    /\ UNCHANGED <<users, accounts, flows, made, disturbed>>

-----------------------------------------------------------------------------
(* Administrators and the clean-up.                                          *)

Deactivate(u) ==
    /\ u \in Live(users) /\ users[u].active
    /\ users' = [users EXCEPT ![u].active = FALSE]
    /\ UNCHANGED <<accounts, sessions, flows, request, made, disturbed>>

BugDeleteUser(u) ==
    /\ u \in Live(users)
    /\ users' = [users EXCEPT ![u] = [life |-> "gone", email |-> None, active |-> FALSE]]
    /\ UNCHANGED <<accounts, sessions, flows, request, made, disturbed>>
\* Her account goes with her, and the sessions that name the account go with it.
DeleteUser(u) ==
    LET lost == {o \in OAuthAccounts : accounts[o].user = u}
    IN  /\ u \in Live(users)
        /\ users' = [users EXCEPT ![u] = [life |-> "gone", email |-> None, active |-> FALSE]]
        /\ accounts' = [o \in OAuthAccounts |->
               IF o \in lost THEN [life |-> "gone", user |-> None, email |-> None] ELSE accounts[o]]
        /\ sessions' = [s \in Sessions |->
               IF sessions[s].account \in lost THEN NoSession ELSE sessions[s]]
        /\ flows' = [f \in Flows |-> IF flows[f].account \in lost
                                     THEN [life |-> "gone", account |-> None] ELSE flows[f]]
        /\ UNCHANGED <<request, made, disturbed>>

DropSession(s) ==
    /\ s \in Live(sessions)
    /\ sessions' = [sessions EXCEPT ![s] = NoSession]
    /\ UNCHANGED <<users, accounts, flows, request, made, disturbed>>

DropFlow(f) ==
    /\ f \in Live(flows)
    /\ flows' = [flows EXCEPT ![f] = [life |-> "gone", account |-> None]]
    /\ UNCHANGED <<users, accounts, sessions, request, made, disturbed>>

-----------------------------------------------------------------------------
\* A registration for the account o may still link it.
Open(o) ==
    \/ \E s \in Live(sessions) : sessions[s].account = o
    \/ \E q \in Requests : request[q] # Idle /\ request[q].account = o

Step ==
    \/ \E q \in Requests :
          \/ \E s \in Sessions, e \in Addresses : Register(q, s, e)
          \/ \E u \in Users : Insert(q, u)
          \/ Note(q) \/ Link(q) \/ Finish(q) \/ Stop(q)
          \/ \E f \in Flows, o \in OAuthAccounts, e \in Addresses \cup {None} : Callback(q, f, o, e)
          \/ Adopt(q) \/ Attach(q) \/ Tokens(q)
          \/ \E s \in Sessions : Enrol(q, s)
    \/ \E s \in Sessions : ShowPage(s) \/ DropSession(s)
    \/ \E f \in Flows : Authorize(f) \/ DropFlow(f)
    \/ \E u \in Users : Deactivate(u) \/ DeleteUser(u)

Next ==
    /\ Step
    /\ settled' = [o \in OAuthAccounts |-> IF Open(o) THEN settled[o] ELSE accounts[o].user]

Spec == Init /\ [][Next]_vars

-----------------------------------------------------------------------------
(* Properties.                                                               *)

(* Once an account of the provider is linked and no registration for it is   *)
(* open, it signs in the same user for as long as she exists: the callback   *)
(* never opens a registration for an account that it has found a user for.   *)
LinkedForGood ==
    \A o \in Live(accounts) : settled[o] # None => accounts[o].user = settled[o]

(* A registration session makes one user: what more it makes comes from a    *)
(* form that was sent twice at once, or from a request that broke off after  *)
(* the commit of the user (RegistrationFlow.create_user has three commits).  *)
OneUserEach ==
    \A s \in Sessions : s \notin disturbed => Cardinality(made[s]) <= 1
=============================================================================
