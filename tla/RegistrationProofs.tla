-------------------------- MODULE RegistrationProofs ---------------------------
(* What Registration promises, proved for every number of users, accounts,    *)
(* sessions and requests.                                                    *)
EXTENDS Registration, FiniteSetTheorems, TLAPS

-----------------------------------------------------------------------------
(* Types.                                                                    *)

RowsOK ==
    /\ users \in [Users -> User]
    /\ \A u, v \in Live(users) : u # v => users[u].email # users[v].email
    /\ accounts \in [OAuthAccounts -> Account]
    /\ \A o \in OAuthAccounts : accounts[o].user # None => users[accounts[o].user].life = "live"
    /\ \A o, p \in Live(accounts) : o # p /\ accounts[o].user # None
                                      => accounts[o].user # accounts[p].user
    /\ sessions \in [Sessions -> Session]
    /\ \A s \in Sessions : sessions[s].account # None => accounts[sessions[s].account].life = "live"
    /\ flows \in [Flows -> Flow]
    /\ \A f \in Flows : flows[f].account # None => accounts[flows[f].account].life = "live"
RequestsOK == request \in [Requests -> Creating \cup Calling \cup {Idle}]

(* The request at a step has the form of that step.                          *)
LEMMA StepForm ==
    ASSUME RequestsOK, NEW q \in Requests
    PROVE  /\ At(q, "insert") \/ At(q, "note") \/ At(q, "link") \/ At(q, "finish")
                  => request[q] \in Creating
           /\ At(q, "adopt") \/ At(q, "attach") \/ At(q, "tokens") \/ At(q, "enrol")
                  => request[q] \in Calling
  BY DEF RequestsOK, At, Creating, Calling, Idle

LEMMA RequestsStay ==
    ASSUME TypeOK, Step
    PROVE  RequestsOK'
<1>1. RequestsOK
  BY DEF TypeOK, RequestsOK
<1>2. CASE request' = request
  BY <1>1, <1>2 DEF RequestsOK
<1>3. ASSUME NEW q \in Requests, NEW r \in Creating \cup Calling \cup {Idle},
             request' = [request EXCEPT ![q] = r]
      PROVE  RequestsOK'
  BY <1>1, <1>3 DEF RequestsOK
<1>4. ASSUME NEW q \in Requests, Ends(q)
      PROVE  RequestsOK'
  BY <1>3, <1>4 DEF Ends, Goes
<1>5. ASSUME NEW q \in Requests, NEW s \in Sessions, NEW e \in Addresses, Register(q, s, e)
      PROVE  RequestsOK'
  <2> DEFINE r == [step |-> "insert", user |-> None, email |-> e, session |-> s,
                   account |-> sessions[s].account, noted |-> sessions[s].email = e]
  <2>1. r \in Creating
    BY DEF TypeOK, Session, Creating
  <2>2. request' = [request EXCEPT ![q] = r]
    BY <1>5 DEF Register, Goes
  <2> HIDE DEF r
  <2>3. QED
    BY <1>3, <2>1, <2>2
<1>6. ASSUME NEW q \in Requests, NEW u \in Users, Insert(q, u)
      PROVE  RequestsOK'
  <2> DEFINE r == [request[q] EXCEPT !.step = "note", !.user = u]
  <2>1. r \in Creating
    BY <1>1, <1>6, StepForm DEF Insert, Creating
  <2>2. request' = [request EXCEPT ![q] = r]
    BY <1>6 DEF Insert
  <2> HIDE DEF r
  <2>3. QED
    BY <1>3, <2>1, <2>2
<1>7. ASSUME NEW q \in Requests, NEW step, GoesTo(q, step),
             \/ request[q] \in Creating /\ step \in {"link", "finish"}
             \/ request[q] \in Calling /\ step \in {"attach", "enrol"}
      PROVE  RequestsOK'
  <2> DEFINE r == [request[q] EXCEPT !.step = step]
  <2>1. r \in Creating \cup Calling
    BY <1>7 DEF Creating, Calling
  <2>2. request' = [request EXCEPT ![q] = r]
    BY <1>7 DEF GoesTo
  <2> HIDE DEF r
  <2>3. QED
    BY <1>3, <2>1, <2>2
<1>8. ASSUME NEW q \in Requests, Note(q) \/ Link(q) \/ Finish(q) \/ Stop(q)
      PROVE  RequestsOK'
  BY <1>1, <1>4, <1>7, <1>8, StepForm DEF Note, Link, Finish, Stop
<1>9. ASSUME NEW q \in Requests, NEW f \in Flows, NEW o \in OAuthAccounts,
             NEW e \in Addresses \cup {None}, Callback(q, f, o, e)
      PROVE  RequestsOK'
  <2> DEFINE r == [step |-> IF Known(o) THEN "tokens" ELSE "adopt", account |-> o, flow |-> f,
                   email |-> IF Known(o) THEN accounts[o].email ELSE e, user |-> accounts[o].user]
  <2>1. r \in Calling
    BY DEF TypeOK, Account, Calling
  <2>2. request' = [request EXCEPT ![q] = r]
    BY <1>9 DEF Callback, Goes
  <2> HIDE DEF r
  <2>3. QED
    BY <1>3, <2>1, <2>2
<1>10. ASSUME NEW q \in Requests, Adopt(q) \/ Attach(q) \/ Tokens(q)
       PROVE  RequestsOK'
  BY <1>1, <1>4, <1>7, <1>10, StepForm DEF Adopt, Attach, Tokens
<1>11. QED
  BY <1>2, <1>4, <1>5, <1>6, <1>8, <1>9, <1>10
  DEF Step, Enrol, ShowPage, DropSession, Authorize, DropFlow, Deactivate, DeleteUser

(* The user that a request has made is its own until it links her: no other   *)
(* request and no account has her.                                           *)
Linking == {q \in Requests : At(q, "note") \/ At(q, "link")}
OwnUser ==
    /\ \A q \in Linking : /\ request[q].user \in Users /\ users[request[q].user].life # "unused"
                          /\ \A o \in OAuthAccounts : accounts[o].user # request[q].user
    /\ \A p, q \in Linking : p # q => request[p].user # request[q].user

LEMMA OwnUserKept ==
    ASSUME TypeOK, OwnUser, Step
    PROVE  OwnUser'
<1>1. RequestsOK /\ RequestsOK'
  BY RequestsStay DEF TypeOK, RequestsOK
\* A step by which nobody is about to link a user who was not, or an account she has not.
<1>2. ASSUME \A q \in Linking' : q \in Linking /\ request'[q].user = request[q].user,
             \A u \in Users : users[u].life # "unused" => users'[u].life # "unused",
             \A o \in OAuthAccounts : \/ accounts'[o].user \in {accounts[o].user, None}
                                     \/ \A q \in Linking' : request[q].user # accounts'[o].user
      PROVE  OwnUser'
  BY <1>2, RegistrationAssumption DEF OwnUser
<1>3. ASSUME NEW q \in Requests, NEW r, request' = [request EXCEPT ![q] = r],
             r.step \in {"link", "note"} => q \in Linking /\ r.user = request[q].user
      PROVE  \A x \in Linking' : x \in Linking /\ request'[x].user = request[x].user
  BY <1>1, <1>3 DEF RequestsOK, Linking, At
<1>4. ASSUME NEW q \in Requests, Ends(q)
      PROVE  \A x \in Linking' : x \in Linking /\ request'[x].user = request[x].user
  BY <1>3, <1>4 DEF Ends, Goes, Idle
<1>5. ASSUME NEW q \in Requests, NEW step, GoesTo(q, step), request[q] \in Creating \cup Calling,
             step \in {"link", "note"} => q \in Linking
      PROVE  \A x \in Linking' : x \in Linking /\ request'[x].user = request[x].user
  <2> DEFINE r == [request[q] EXCEPT !.step = step]
  <2>1. request' = [request EXCEPT ![q] = r]
    BY <1>5 DEF GoesTo
  <2>2. r.step = step /\ r.user = request[q].user
    BY <1>5 DEF Creating, Calling
  <2> HIDE DEF r
  <2>3. QED
    BY <1>3, <1>5, <2>1, <2>2
<1>6. ASSUME NEW q \in Requests, NEW s \in Sessions, NEW e \in Addresses, Register(q, s, e)
      PROVE  OwnUser'
  <2> DEFINE r == [step |-> "insert", user |-> None, email |-> e, session |-> s,
                   account |-> sessions[s].account, noted |-> sessions[s].email = e]
  <2>1. request' = [request EXCEPT ![q] = r] /\ UNCHANGED tables
    BY <1>6 DEF Register, Goes
  <2>2. r.step = "insert"
    OBVIOUS
  <2> HIDE DEF r
  <2>3. QED
    BY <1>2, <1>3, <2>1, <2>2 DEF tables
<1>7. ASSUME NEW q \in Requests, NEW u \in Users, Insert(q, u)
      PROVE  OwnUser'
  <2>1. request[q] \in Creating /\ q \notin Linking
    BY <1>1, <1>7, StepForm DEF Insert, Linking, At
  <2>2. /\ request'[q].user = u /\ \A x \in Requests \ {q} : request'[x] = request[x]
        /\ accounts' = accounts /\ users'[u].life = "live"
        /\ \A v \in Users \ {u} : users'[v] = users[v]
    BY <1>1, <1>7, <2>1 DEF Insert, RequestsOK, Creating, TypeOK
  <2>3. users[u].life = "unused" /\ \A o \in OAuthAccounts : accounts[o].user # u
    BY <1>7, RegistrationAssumption DEF Insert, Fresh, TypeOK
  <2>4. \A x \in Linking' : x = q \/ x \in Linking
    BY <2>2 DEF Linking, At
  <2>5. QED
    BY <2>2, <2>3, <2>4 DEF OwnUser, Linking
<1>8. ASSUME NEW q \in Requests, NEW f \in Flows, NEW o \in OAuthAccounts,
             NEW e \in Addresses \cup {None}, Callback(q, f, o, e)
      PROVE  OwnUser'
  <2> DEFINE r == [step |-> IF Known(o) THEN "tokens" ELSE "adopt", account |-> o, flow |-> f,
                   email |-> IF Known(o) THEN accounts[o].email ELSE e, user |-> accounts[o].user]
  <2>1. request' = [request EXCEPT ![q] = r] /\ UNCHANGED tables
    BY <1>8 DEF Callback, Goes
  <2>2. r.step \notin {"link", "note"}
    OBVIOUS
  <2> HIDE DEF r
  <2>3. QED
    BY <1>2, <1>3, <2>1, <2>2 DEF tables
<1>9. ASSUME NEW q \in Requests, Link(q)
      PROVE  OwnUser'
  <2> DEFINE o == request[q].account
             u == request[q].user
  <2>1. q \in Linking /\ GoesTo(q, "finish") /\ users' = users
        /\ accounts' = [accounts EXCEPT ![o].user = u]
    BY <1>9 DEF Link, Linking
  <2>2. \A x \in Linking' : x \in Linking \ {q} /\ request'[x].user = request[x].user
    BY <1>1, <1>5, <1>9, <2>1, StepForm DEF Link, GoesTo, RequestsOK, Linking, At, Creating
  <2>3. \A p \in OAuthAccounts : accounts'[p].user \in {accounts[p].user, u}
    BY <2>1 DEF TypeOK, Account
  <2>4. \A x \in Linking' : request[x].user # u
    BY <2>1, <2>2 DEF OwnUser
  <2> HIDE DEF u
  <2>5. QED
    BY <1>2, <2>1, <2>2, <2>3, <2>4
<1>10. ASSUME NEW q \in Requests, Note(q) \/ Finish(q) \/ Stop(q) \/ Attach(q) \/ Tokens(q)
       PROVE  OwnUser'
  <2>1. UNCHANGED <<users, accounts>>
    BY <1>10 DEF Note, Finish, Stop, Attach, Tokens, tables
  <2>2. \A x \in Linking' : x \in Linking /\ request'[x].user = request[x].user
    BY <1>1, <1>4, <1>5, <1>10, StepForm DEF Note, Finish, Stop, Attach, Tokens, Linking
  <2>3. QED
    BY <1>2, <2>1, <2>2
<1>11. ASSUME NEW q \in Requests, Adopt(q)
       PROVE  OwnUser'
  <2>1. \A x \in Linking' : x \in Linking /\ request'[x].user = request[x].user
    BY <1>1, <1>5, <1>11, StepForm DEF Adopt
  <2>2. users' = users /\ \A o \in OAuthAccounts : accounts'[o].user \in {accounts[o].user, None}
    BY <1>11 DEF Adopt, TypeOK, Account
  <2>3. QED
    BY <1>2, <2>1, <2>2
<1>12. ASSUME NEW q \in Requests, NEW s \in Sessions, Enrol(q, s)
       PROVE  OwnUser'
  BY <1>2, <1>4, <1>12 DEF Enrol
<1>13. ASSUME request' = request,
              \A u \in Users : users[u].life # "unused" => users'[u].life # "unused",
              \A o \in OAuthAccounts : accounts'[o].user \in {accounts[o].user, None}
       PROVE  OwnUser'
  <2>1. \A x \in Linking' : x \in Linking /\ request'[x].user = request[x].user
    BY <1>13 DEF Linking, At
  <2>2. QED
    BY <1>2, <1>13, <2>1
<1>14. ASSUME NEW u \in Users, DeleteUser(u) \/ Deactivate(u)
       PROVE  OwnUser'
  <2>1. \A v \in Users : users[v].life # "unused" => users'[v].life # "unused"
    BY <1>14 DEF DeleteUser, Deactivate, TypeOK, User
  <2>2. \A o \in OAuthAccounts : accounts'[o].user \in {accounts[o].user, None}
    BY <1>14 DEF DeleteUser, Deactivate
  <2>3. QED
    BY <1>13, <1>14, <2>1, <2>2 DEF DeleteUser, Deactivate
<1>15. QED
  BY <1>6, <1>7, <1>8, <1>9, <1>10, <1>11, <1>12, <1>13, <1>14
  DEF Step, ShowPage, DropSession, Authorize, DropFlow

LEMMA RowsStay ==
    ASSUME TypeOK, OwnUser, Step
    PROVE  RowsOK'
<1>1. RowsOK /\ RequestsOK
  BY DEF TypeOK, RowsOK, RequestsOK
<1> USE DEF Live, Fresh
<1>2. CASE UNCHANGED tables
  BY <1>1, <1>2 DEF tables, RowsOK
<1>3. ASSUME NEW q \in Requests, NEW u \in Users, Insert(q, u)
      PROVE  RowsOK'
  <2>1. request[q].email \in Addresses
    BY <1>1, <1>3, StepForm DEF Insert, Creating
  <2>2. /\ users' \in [Users -> User] /\ users'[u].life = "live"
        /\ users'[u].email = request[q].email
        /\ \A v \in Users \ {u} : users'[v] = users[v]
    BY <1>1, <1>3, <2>1 DEF Insert, RowsOK, User, Lives
  <2>3. UNCHANGED <<accounts, sessions, flows>>
    BY <1>3 DEF Insert
  <2>4. \A v \in Live(users) : v # u /\ users[v].email # request[q].email
    BY <1>3 DEF Insert
  <2>5. \A v, w \in Live(users') : v # w => users'[v].email # users'[w].email
    BY <1>1, <2>2, <2>4 DEF RowsOK
  <2>6. \A o \in OAuthAccounts : accounts[o].user # None => users'[accounts[o].user].life = "live"
    BY <1>1, <2>2 DEF RowsOK, Account
  <2>7. QED
    BY <1>1, <2>2, <2>3, <2>5, <2>6 DEF RowsOK
<1>4. ASSUME NEW s \in Sessions, NEW row \in Session, sessions' = [sessions EXCEPT ![s] = row],
             UNCHANGED <<users, accounts, flows>>,
             row.account # None => accounts[row.account].life = "live"
      PROVE  RowsOK'
  BY <1>1, <1>4 DEF RowsOK
<1>5. NoSession \in Session
  BY DEF NoSession, Session, Lives
<1>6. ASSUME NEW q \in Requests, Note(q)
      PROVE  RowsOK'
  <2> DEFINE s == request[q].session
             row == [sessions[s] EXCEPT !.email = request[q].email]
  <2>1. s \in Sessions /\ request[q].email \in Addresses
    BY <1>1, <1>6, StepForm DEF Note, Creating
  <2>2. row \in Session /\ row.account = sessions[s].account
    BY <1>1, <2>1 DEF RowsOK, Session
  <2>3. CASE request[q].noted
    BY <1>2, <1>6, <2>3 DEF Note, tables
  <2>4. CASE ~request[q].noted
    <3>1. sessions' = [sessions EXCEPT ![s] = row] /\ UNCHANGED <<users, accounts, flows>>
      BY <1>6, <2>4 DEF Note
    <3>2. row.account # None => accounts[row.account].life = "live"
      BY <1>1, <2>1, <2>2 DEF RowsOK
    <3> HIDE DEF row
    <3>3. QED
      BY <1>4, <2>1, <2>2, <3>1, <3>2
  <2>5. QED
    BY <2>3, <2>4
<1>7. ASSUME NEW q \in Requests, Finish(q)
      PROVE  RowsOK'
  <2>1. request[q].session \in Sessions
    BY <1>1, <1>7, StepForm DEF Finish, Creating
  <2>2. QED
    BY <1>4, <1>5, <1>7, <2>1 DEF Finish, NoSession
<1>8. ASSUME NEW s \in Sessions, DropSession(s)
      PROVE  RowsOK'
  BY <1>4, <1>5, <1>8 DEF DropSession, NoSession
<1>9. ASSUME NEW s \in Sessions, NEW o \in OAuthAccounts \cup {None}, NEW e \in Addresses \cup {None},
             Opens(s, o, e), o # None => o \in Live(accounts), UNCHANGED <<users, accounts, flows>>
      PROVE  RowsOK'
  BY <1>4, <1>9 DEF Opens, Session, Lives
<1>10. ASSUME NEW q \in Requests, NEW s \in Sessions, Enrol(q, s)
       PROVE  RowsOK'
  BY <1>1, <1>9, <1>10, StepForm DEF Enrol, Calling
<1>11. ASSUME NEW s \in Sessions, ShowPage(s)
       PROVE  RowsOK'
  BY <1>9, <1>11 DEF ShowPage
<1>12. ASSUME NEW q \in Requests, Link(q)
       PROVE  RowsOK'
  <2> DEFINE o == request[q].account
             u == request[q].user
  <2>1. o \in Live(accounts) /\ u \in Live(users) /\ UNCHANGED <<users, sessions, flows>>
        /\ accounts' = [accounts EXCEPT ![o].user = u]
    BY <1>12 DEF Link
  <2>4. \A p \in OAuthAccounts : accounts[p].user # u
    BY <1>12 DEF Link, OwnUser, Linking
  <2> HIDE DEF o, u
  <2>2. /\ accounts' \in [OAuthAccounts -> Account]
        /\ accounts'[o].user = u /\ \A p \in OAuthAccounts \ {o} : accounts'[p] = accounts[p]
        /\ \A p \in OAuthAccounts : accounts'[p].life = accounts[p].life
    BY <1>1, <2>1 DEF RowsOK, Account
  <2>3. QED
    BY <1>1, <2>1, <2>2, <2>4 DEF RowsOK
<1>13. ASSUME NEW q \in Requests, Adopt(q)
       PROVE  RowsOK'
  BY <1>1, <1>13, StepForm DEF Adopt, Calling, RowsOK, Account, Lives
<1>14. ASSUME NEW f \in Flows, NEW row \in Flow, flows' = [flows EXCEPT ![f] = row],
              UNCHANGED <<users, accounts, sessions>>,
              row.account # None => accounts[row.account].life = "live"
       PROVE  RowsOK'
  BY <1>1, <1>14 DEF RowsOK
<1>15. ASSUME NEW q \in Requests, Attach(q)
       PROVE  RowsOK'
  BY <1>1, <1>15, StepForm DEF Attach, Calling, RowsOK, Flow
<1>16. ASSUME NEW f \in Flows, Authorize(f) \/ DropFlow(f)
       PROVE  RowsOK'
  BY <1>1, <1>16 DEF Authorize, DropFlow, RowsOK, Flow, Lives
<1>17. ASSUME NEW u \in Users, Deactivate(u)
       PROVE  RowsOK'
  <2>1. /\ users' \in [Users -> User]
        /\ \A v \in Users : users'[v].life = users[v].life /\ users'[v].email = users[v].email
    BY <1>1, <1>17 DEF Deactivate, RowsOK, User
  <2>2. UNCHANGED <<accounts, sessions, flows>>
    BY <1>17 DEF Deactivate
  <2>3. QED
    BY <1>1, <2>1, <2>2 DEF RowsOK, Account
<1>18. ASSUME NEW u \in Users, DeleteUser(u)
       PROVE  RowsOK'
  <2>1. /\ users' \in [Users -> User]
        /\ \A v \in Users : users'[v].life = "live" => v # u /\ users'[v] = users[v]
        /\ \A v \in Users \ {u} : users'[v] = users[v]
    BY <1>1, <1>18 DEF DeleteUser, RowsOK, User, Lives
  <2>2. /\ accounts' \in [OAuthAccounts -> Account]
        /\ \A o \in OAuthAccounts :
              IF accounts[o].user = u THEN accounts'[o].user = None /\ accounts'[o].life = "gone"
              ELSE accounts'[o] = accounts[o]
    BY <1>1, <1>18 DEF DeleteUser, RowsOK, Account, Lives
  <2>3. /\ sessions' \in [Sessions -> Session]
        /\ \A s \in Sessions : sessions'[s].account # None =>
              /\ sessions'[s].account = sessions[s].account
              /\ ~(sessions[s].account \in OAuthAccounts /\ accounts[sessions[s].account].user = u)
    BY <1>1, <1>5, <1>18 DEF DeleteUser, RowsOK, NoSession
  <2>4. /\ flows' \in [Flows -> Flow]
        /\ \A f \in Flows : flows'[f].account # None =>
              /\ flows'[f].account = flows[f].account
              /\ ~(flows[f].account \in OAuthAccounts /\ accounts[flows[f].account].user = u)
    BY <1>1, <1>18 DEF DeleteUser, RowsOK, Flow, Lives
  <2>5. /\ \A v, w \in Live(users') : v # w => users'[v].email # users'[w].email
        /\ \A o \in OAuthAccounts : accounts'[o].user # None => users'[accounts'[o].user].life = "live"
        /\ \A o, p \in Live(accounts') : o # p /\ accounts'[o].user # None
                                           => accounts'[o].user # accounts'[p].user
    BY <1>1, <2>1, <2>2 DEF RowsOK, Account
  <2>6. /\ \A s \in Sessions : sessions'[s].account # None => accounts'[sessions'[s].account].life = "live"
        /\ \A f \in Flows : flows'[f].account # None => accounts'[flows'[f].account].life = "live"
    BY <1>1, <2>2, <2>3, <2>4 DEF RowsOK, Session, Flow
  <2>7. QED
    BY <2>1, <2>2, <2>3, <2>4, <2>5, <2>6 DEF RowsOK
<1>19. QED
  BY <1>2, <1>3, <1>6, <1>7, <1>8, <1>10, <1>11, <1>12, <1>13, <1>15, <1>16, <1>17, <1>18
  DEF Step, tables, Register, Stop, Callback, Tokens

(* UserManager.create, RegistrationFlow.create_user, UserRepository.delete:  *)
(* rows refer to rows that exist, no two users have one address, and no two  *)
(* accounts of the provider one user.                                        *)
THEOREM TypeCorrect == Spec => []TypeOK
<1>1. Init => TypeOK /\ OwnUser
  BY RegistrationAssumption
  DEF Init, TypeOK, User, Account, Session, Flow, NoSession, Lives, Live, Idle, OwnUser, Linking, At
<1>2. TypeOK /\ OwnUser /\ [Next]_vars => TypeOK' /\ OwnUser'
  <2>1. CASE UNCHANGED vars
    BY <2>1 DEF vars, tables, TypeOK, Live, OwnUser, Linking, At
  <2>2. ASSUME TypeOK, OwnUser, Next
        PROVE  TypeOK' /\ OwnUser'
    <3>1. RowsOK' /\ RequestsOK'
      BY <2>2, RowsStay, RequestsStay DEF Next
    <3>4. OwnUser'
      BY <2>2, OwnUserKept DEF Next
    <3>2. settled' \in [OAuthAccounts -> Users \cup {None}]
      BY <2>2 DEF Next, TypeOK, Account
    <3>3. disturbed' \in SUBSET Sessions /\ made' \in [Sessions -> SUBSET Users]
      <4>1. \A q \in Requests : At(q, "insert") \/ At(q, "note") \/ At(q, "link") \/ At(q, "finish")
                => request[q].session \in Sessions
        BY <2>2, StepForm DEF TypeOK, RequestsOK, Creating
      <4>2. CASE UNCHANGED <<disturbed, made>>
        BY <2>2, <4>2 DEF TypeOK
      <4>3. ASSUME NEW q \in Requests, NEW s \in Sessions, NEW e \in Addresses, Register(q, s, e)
            PROVE  disturbed' \in SUBSET Sessions /\ made' \in [Sessions -> SUBSET Users]
        BY <2>2, <4>3 DEF Register, TypeOK
      <4>4. ASSUME NEW q \in Requests, NEW u \in Users, Insert(q, u)
            PROVE  disturbed' \in SUBSET Sessions /\ made' \in [Sessions -> SUBSET Users]
        BY <2>2, <4>1, <4>4 DEF Insert, TypeOK
      <4>5. ASSUME NEW q \in Requests, Stop(q)
            PROVE  disturbed' \in SUBSET Sessions /\ made' \in [Sessions -> SUBSET Users]
        BY <2>2, <4>1, <4>5 DEF Stop, TypeOK
      <4>6. QED
        BY <2>2, <4>2, <4>3, <4>4, <4>5
        DEF Next, Step, Note, Link, Finish, Callback, Adopt, Attach, Tokens, Enrol, ShowPage,
            DropSession, Authorize, DropFlow, Deactivate, DeleteUser
    <3>5. QED
      BY <3>1, <3>2, <3>3, <3>4 DEF TypeOK, RowsOK, RequestsOK
  <2>3. QED
    BY <2>1, <2>2
<1>3. QED
  BY <1>1, <1>2, PTL DEF Spec

-----------------------------------------------------------------------------
(* Registration sessions.                                                    *)

Registering(q) == At(q, "insert") \/ At(q, "note") \/ At(q, "link") \/ At(q, "finish")

LEMMA IdleForm == Idle.step = "idle"
  BY DEF Idle

(* A session that one request at a time uses, and finishes, has made nobody   *)
(* until that request inserts its user, and is gone when the request ends.   *)
OneMade(s) ==
    /\ \A p, q \in With(s) : p = q
    /\ \A q \in With(s) : made[s] = IF At(q, "insert") THEN {} ELSE {request[q].user}
    /\ With(s) = {} /\ sessions[s].life # "gone" => made[s] = {}
    /\ \E u : made[s] \subseteq {u}
SessionsMakeOne == \A s \in Sessions : s \notin disturbed => OneMade(s)

LEMMA SessionsMakeOneKept ==
    ASSUME TypeOK, SessionsMakeOne, Step
    PROVE  SessionsMakeOne'
<1>1. RequestsOK /\ RequestsOK'
  BY RequestsStay DEF TypeOK, RequestsOK
<1>2. \A s \in Sessions : /\ With(s) \subseteq Requests
                          /\ \A q \in Requests :
                                q \in With(s) <=> Registering(q) /\ request[q].session = s
  BY DEF With, Registering
<1>3. \A s \in Sessions : /\ With(s)' \subseteq Requests
                          /\ \A q \in Requests :
                                q \in With(s)' <=> Registering(q)' /\ request'[q].session = s
  BY DEF With, Registering
<1>0. ASSUME NEW s \in Sessions,
             \A x \in Requests : Registering(x)' /\ request'[x].session = s
                                     <=> Registering(x) /\ request[x].session = s
      PROVE  With(s)' = With(s)
  <2>1. \A x \in Requests : x \in With(s)' <=> x \in With(s)
    BY <1>0, <1>2, <1>3
  <2>2. With(s)' \subseteq Requests /\ With(s) \subseteq Requests
    BY <1>2, <1>3
  <2> DEFINE W == With(s)'
             V == With(s)
  <2> HIDE DEF W, V
  <2>3. (\A x \in Requests : x \in W <=> x \in V) /\ W \subseteq Requests /\ V \subseteq Requests
    BY <2>1, <2>2 DEF W, V
  <2>4. W = V
    BY <2>3
  <2>5. QED
    BY <2>4 DEF W, V
\* A session that is used by whom it was used before, who has not made a user meanwhile.
<1>4. ASSUME NEW s \in Sessions, s \notin disturbed, made'[s] = made[s],
             sessions[s].life = "gone" => sessions'[s].life = "gone",
             With(s)' = With(s),
             \A q \in With(s) : /\ request'[q].user = request[q].user
                                /\ At(q, "insert")' <=> At(q, "insert")
      PROVE  OneMade(s)'
  BY <1>4 DEF SessionsMakeOne, OneMade
<1>5. ASSUME disturbed \subseteq disturbed', made' = made,
             \A s \in Sessions : sessions[s].life = "gone" => sessions'[s].life = "gone",
             \A q \in Requests :
                 \/ request'[q] = request[q]
                 \/ (~Registering(q) /\ ~Registering(q)')
      PROVE  SessionsMakeOne'
  <2>1. ASSUME NEW s \in Sessions
        PROVE  /\ With(s)' = With(s)
               /\ \A q \in With(s) : request'[q] = request[q]
    <3>1. \A x \in Requests : Registering(x)' /\ request'[x].session = s
                                  <=> Registering(x) /\ request[x].session = s
      BY <1>5 DEF Registering, At
    <3>2. \A x \in With(s) : request'[x] = request[x]
      BY <1>2, <1>5
    <3>3. QED
      BY <1>0, <3>1, <3>2
  <2>2. QED
    BY <1>4, <1>5, <2>1 DEF SessionsMakeOne, At
\* A request goes on, and its session with it.
<1>6. ASSUME NEW q \in Requests, NEW r, request' = [request EXCEPT ![q] = r]
      PROVE  request'[q] = r /\ \A x \in Requests \ {q} : request'[x] = request[x]
  BY <1>1, <1>6 DEF RequestsOK
<1>7. ASSUME NEW q \in Requests, NEW s \in Sessions, NEW e \in Addresses, Register(q, s, e)
      PROVE  SessionsMakeOne'
  <2> DEFINE r == [step |-> "insert", user |-> None, email |-> e, session |-> s,
                   account |-> sessions[s].account, noted |-> sessions[s].email = e]
  <2>0. request' = [request EXCEPT ![q] = r] /\ request[q] = Idle
    BY <1>7 DEF Register, Goes
  <2>1. /\ sessions' = sessions /\ made' = made /\ sessions[s].life = "live"
        /\ disturbed' = IF With(s) # {} THEN disturbed \cup {s} ELSE disturbed
    BY <1>7 DEF Register, tables, HasSession, Live
  <2>2. r.step = "insert" /\ r.session = s
    OBVIOUS
  <2> HIDE DEF r
  <2>3. /\ At(q, "insert")' /\ request'[q].session = s /\ ~Registering(q)
        /\ \A x \in Requests \ {q} : request'[x] = request[x]
    BY <1>6, <2>0, <2>2, IdleForm DEF At, Registering
  <2>4. ASSUME NEW t \in Sessions, t \notin disturbed'
        PROVE  OneMade(t)'
    <3>1. CASE t # s
      <4>1. With(t)' = With(t)
        BY <1>0, <2>3, <3>1 DEF Registering, At
      <4>2. \A x \in With(t) : request'[x] = request[x]
        BY <1>2, <2>3
      <4>3. t \notin disturbed
        BY <2>1, <2>4
      <4>4. QED
        BY <1>4, <2>1, <4>1, <4>2, <4>3 DEF At
    <3>2. CASE t = s
      <4>1. With(s) = {} /\ t \notin disturbed
        BY <2>1, <2>4, <3>2
      <4>2. \A x \in Requests : x \in With(t)' <=> x = q
        BY <1>2, <1>3, <2>3, <3>2, <4>1 DEF Registering, At
      <4>4. With(t)' = {q}
        BY <1>3, <4>2
      <4>5. made[t] = {}
        BY <2>1, <3>2, <4>1 DEF SessionsMakeOne, OneMade
      <4>6. QED
        BY <2>1, <2>3, <4>4, <4>5 DEF OneMade
    <3>3. QED
      BY <3>1, <3>2
  <2>5. QED
    BY <2>4 DEF SessionsMakeOne
<1>8. ASSUME NEW q \in Requests, NEW u \in Users, Insert(q, u)
      PROVE  SessionsMakeOne'
  <2>1. PICK s \in Sessions : request[q].session = s
    BY <1>1, <1>8, StepForm DEF Insert, Creating
  <2>2. /\ request' = [request EXCEPT ![q].step = "note", ![q].user = u]
        /\ made' = [made EXCEPT ![s] = @ \cup {u}]
        /\ sessions' = sessions /\ disturbed' = disturbed
        /\ At(q, "insert") /\ request[q] \in Creating
    BY <1>1, <1>8, <2>1, StepForm DEF Insert
  <2>3. /\ request'[q].session = s /\ request'[q].user = u /\ request'[q].step = "note"
        /\ \A x \in Requests \ {q} : request'[x] = request[x]
    BY <1>1, <2>1, <2>2 DEF RequestsOK, Creating
  <2>4. \A t \in Sessions : With(t)' = With(t) /\ (q \in With(t) <=> t = s)
    <3>1. \A t \in Sessions : q \in With(t) <=> t = s
      BY <1>2, <2>1, <2>2 DEF Registering
    <3>2. Registering(q) /\ Registering(q)'
      BY <2>2, <2>3 DEF Registering, At
    <3>3. \A x \in Requests \ {q} : Registering(x)' <=> Registering(x)
      BY <2>3 DEF Registering, At
    <3>4. \A t \in Sessions, x \in Requests :
              Registering(x)' /\ request'[x].session = t <=> Registering(x) /\ request[x].session = t
      BY <2>1, <2>3, <3>2, <3>3
    <3>5. QED
      BY <1>0, <3>1, <3>4
  <2>5. ASSUME NEW t \in Sessions, t \notin disturbed, t # s
        PROVE  OneMade(t)'
    <3>1. made'[t] = made[t] /\ sessions' = sessions
      BY <2>2, <2>5 DEF TypeOK
    <3>2. \A x \in With(t) : request'[x] = request[x]
      BY <1>2, <2>3, <2>4, <2>5
    <3>3. QED
      BY <1>4, <2>4, <2>5, <3>1, <3>2 DEF At
  <2>6. ASSUME s \notin disturbed
        PROVE  OneMade(s)'
    <3>5. OneMade(s) /\ q \in With(s)
      BY <2>4, <2>6 DEF SessionsMakeOne
    <3>1. With(s) = {q} /\ made[s] = {}
      BY <2>2, <3>5 DEF OneMade
    <3>2. With(s)' = {q}
      BY <2>4, <3>1
    <3>3. made'[s] = {u}
      BY <2>2, <3>1 DEF TypeOK
    <3>4. QED
      BY <2>3, <3>2, <3>3 DEF OneMade, At
  <2>7. QED
    BY <2>2, <2>5, <2>6 DEF SessionsMakeOne
<1>9. ASSUME NEW q \in Requests, NEW step \in {"link", "finish"}, GoesTo(q, step),
             At(q, "note") \/ At(q, "link"), made' = made, disturbed' = disturbed,
             \A s \in Sessions : sessions[s].life = "gone" => sessions'[s].life = "gone"
      PROVE  SessionsMakeOne'
  <2>1. request[q] \in Creating
    BY <1>1, <1>9, StepForm
  <2>2. /\ request'[q].step = step /\ request'[q].session = request[q].session
        /\ request'[q].user = request[q].user
        /\ \A x \in Requests \ {q} : request'[x] = request[x]
    BY <1>1, <1>9, <2>1 DEF GoesTo, RequestsOK, Creating
  <2>3. \A t \in Sessions : With(t)' = With(t)
    BY <1>0, <1>9, <2>2 DEF Registering, At
  <2>4. \A x \in Requests : /\ Registering(x) => request'[x].user = request[x].user
                            /\ At(x, "insert")' <=> At(x, "insert")
    BY <1>9, <2>2 DEF At
  <2>5. QED
    BY <1>2, <1>4, <1>9, <2>3, <2>4 DEF SessionsMakeOne
<1>10. ASSUME NEW q \in Requests, Note(q) \/ Link(q)
       PROVE  SessionsMakeOne'
  <2>1. \A s \in Sessions : sessions[s].life = "gone" => sessions'[s].life = "gone"
    <3>1. CASE Note(q)
      BY <3>1 DEF Note, TypeOK, Session
    <3>2. CASE Link(q)
      BY <3>2 DEF Link
    <3>3. QED
      BY <1>10, <3>1, <3>2
  <2>2. QED
    BY <1>9, <1>10, <2>1 DEF Note, Link
\* The request that ends leaves its session gone, without a user, or disturbed.
<1>11. ASSUME NEW q \in Requests, Finish(q) \/ Stop(q)
       PROVE  SessionsMakeOne'
  <2>1. request' = [request EXCEPT ![q] = Idle] /\ made' = made /\ disturbed \subseteq disturbed'
    BY <1>11 DEF Finish, Stop, Ends, Goes
  <2>2. request'[q].step = "idle" /\ \A x \in Requests \ {q} : request'[x] = request[x]
    BY <1>6, <2>1, IdleForm
  <2>3. \A t \in Sessions : sessions[t].life = "gone" => sessions'[t].life = "gone"
    BY <1>11 DEF Finish, Stop, tables, TypeOK, NoSession
  <2>4. ASSUME NEW t \in Sessions, t \notin disturbed', q \notin With(t)
        PROVE  OneMade(t)'
    <3>1. With(t)' = With(t)
      BY <1>0, <1>2, <2>2, <2>4 DEF Registering, At
    <3>2. \A x \in With(t) : request'[x] = request[x]
      BY <1>2, <2>2, <2>4
    <3>3. QED
      BY <1>4, <2>1, <2>3, <2>4, <3>1, <3>2 DEF At
  <2>5. ASSUME NEW t \in Sessions, t \notin disturbed', q \in With(t)
        PROVE  OneMade(t)'
    <3>1. request[q].session = t /\ Registering(q)
      BY <1>2, <2>5
    <3>2. OneMade(t) /\ With(t) = {q}
      BY <2>1, <2>5 DEF SessionsMakeOne, OneMade
    <3>3. With(t)' = {}
      BY <1>2, <1>3, <2>2, <3>2 DEF Registering, At
    <3>4. CASE Finish(q)
      <4>1. sessions'[t].life = "gone"
        BY <3>1, <3>4 DEF Finish, NoSession, TypeOK
      <4>2. QED
        BY <2>1, <3>2, <3>3, <4>1 DEF OneMade
    <3>5. CASE Stop(q)
      <4>1. At(q, "insert")
        BY <2>5, <3>1, <3>5 DEF Stop, Registering
      <4>2. made[t] = {}
        BY <3>2, <4>1 DEF OneMade
      <4>3. QED
        BY <2>1, <3>3, <4>2 DEF OneMade
    <3>6. QED
      BY <1>11, <3>4, <3>5
  <2>6. QED
    BY <2>4, <2>5 DEF SessionsMakeOne
<1>12. ASSUME NEW q \in Requests, NEW step \in {"attach", "enrol"}, GoesTo(q, step),
              request[q] \in Calling, ~Registering(q)
       PROVE  \A x \in Requests :
                  request'[x] = request[x] \/ (~Registering(x) /\ ~Registering(x)')
  <2>1. request'[q].step = step /\ \A x \in Requests \ {q} : request'[x] = request[x]
    BY <1>1, <1>12 DEF GoesTo, RequestsOK, Calling
  <2>2. ~Registering(q)'
    BY <2>1 DEF Registering, At
  <2>3. QED
    BY <1>12, <2>1, <2>2
<1>13. ASSUME NEW q \in Requests, Adopt(q) \/ Attach(q) \/ Tokens(q)
       PROVE  SessionsMakeOne'
  <2>1. ~Registering(q)
    BY <1>13 DEF Adopt, Attach, Tokens, Registering, At
  <2>2. \A x \in Requests : request'[x] = request[x] \/ (~Registering(x) /\ ~Registering(x)')
    <3>1. CASE Ends(q)
      BY <1>6, <2>1, <3>1, IdleForm DEF Ends, Goes, Registering, At
    <3>2. QED
      BY <1>1, <1>12, <1>13, <2>1, <3>1, StepForm DEF Adopt, Attach, Tokens
  <2>3. QED
    BY <1>5, <1>13, <2>2 DEF Adopt, Attach, Tokens, tables
<1>14. ASSUME NEW q \in Requests, NEW f \in Flows, NEW o \in OAuthAccounts,
              NEW e \in Addresses \cup {None}, Callback(q, f, o, e)
       PROVE  SessionsMakeOne'
  <2> DEFINE r == [step |-> IF Known(o) THEN "tokens" ELSE "adopt", account |-> o, flow |-> f,
                   email |-> IF Known(o) THEN accounts[o].email ELSE e, user |-> accounts[o].user]
  <2>1. request' = [request EXCEPT ![q] = r] /\ UNCHANGED <<tables, made, disturbed>>
        /\ ~Registering(q)
    BY <1>14 DEF Callback, Goes, Registering, At, Idle
  <2>2. r.step \in {"tokens", "adopt"}
    OBVIOUS
  <2> HIDE DEF r
  <2>3. request'[q] = r /\ \A x \in Requests \ {q} : request'[x] = request[x]
    BY <1>6, <2>1
  <2>4. ~Registering(q)'
    BY <2>2, <2>3 DEF Registering, At
  <2>5. QED
    BY <1>5, <2>1, <2>3, <2>4 DEF tables
<1>15. ASSUME NEW s \in Sessions, NEW o, NEW e, Opens(s, o, e)
       PROVE  \A t \in Sessions : sessions[t].life = "gone" => sessions'[t].life = "gone"
  BY <1>15 DEF Opens, Fresh, TypeOK
<1>16. ASSUME NEW q \in Requests, NEW s \in Sessions, Enrol(q, s)
       PROVE  SessionsMakeOne'
  <2>1. ~Registering(q) /\ Ends(q) /\ UNCHANGED <<made, disturbed>>
    BY <1>16 DEF Enrol, Registering, At
  <2>2. \A x \in Requests : request'[x] = request[x] \/ (~Registering(x) /\ ~Registering(x)')
    BY <1>6, <2>1, IdleForm DEF Ends, Goes, Registering, At
  <2>3. \A t \in Sessions : sessions[t].life = "gone" => sessions'[t].life = "gone"
    BY <1>15, <1>16 DEF Enrol
  <2>4. QED
    BY <1>5, <2>1, <2>2, <2>3
<1>17. ASSUME NEW s \in Sessions, ShowPage(s) \/ DropSession(s)
       PROVE  SessionsMakeOne'
  <2>1. \A t \in Sessions : sessions[t].life = "gone" => sessions'[t].life = "gone"
    BY <1>15, <1>17 DEF ShowPage, DropSession, NoSession, TypeOK
  <2>2. QED
    BY <1>5, <1>17, <2>1 DEF ShowPage, DropSession
<1>18. ASSUME NEW u \in Users, DeleteUser(u)
       PROVE  SessionsMakeOne'
  <2>1. \A t \in Sessions : sessions[t].life = "gone" => sessions'[t].life = "gone"
    BY <1>18 DEF DeleteUser, NoSession
  <2>2. QED
    BY <1>5, <1>18, <2>1 DEF DeleteUser
<1>19. QED
  BY <1>5, <1>7, <1>8, <1>10, <1>11, <1>13, <1>14, <1>16, <1>17, <1>18
  DEF Step, Authorize, DropFlow, Deactivate

(* RegistrationFlow.create_user, delete_registration_session: a session that  *)
(* one request at a time uses and finishes makes one user.                   *)
THEOREM OneUserMade == Spec => []OneUserEach
<1>1. Init => SessionsMakeOne
  BY DEF Init, SessionsMakeOne, OneMade, With, At, Idle
<1>2. TypeOK /\ SessionsMakeOne /\ [Next]_vars => SessionsMakeOne'
  <2>1. CASE UNCHANGED vars
    BY <2>1 DEF vars, tables, SessionsMakeOne, OneMade, With, At
  <2>2. QED
    BY <2>1, SessionsMakeOneKept DEF Next
<1>3. SessionsMakeOne => OneUserEach
  <2> SUFFICES ASSUME SessionsMakeOne, NEW s \in Sessions, s \notin disturbed
               PROVE  Cardinality(made[s]) <= 1
    BY DEF OneUserEach
  <2>1. PICK u : made[s] \subseteq {u}
    BY DEF SessionsMakeOne, OneMade
  <2>2. IsFiniteSet({u}) /\ Cardinality({u}) = 1
    BY FS_Singleton
  <2>3. Cardinality(made[s]) <= Cardinality({u})
    BY <2>1, <2>2, FS_Subset
  <2>4. QED
    BY <2>2, <2>3
<1>4. QED
  BY <1>1, <1>2, <1>3, TypeCorrect, PTL DEF Spec

-----------------------------------------------------------------------------
(* Accounts of the provider.                                                 *)

(* No registration for the account o is under way: its callbacks have found   *)
(* a user, whom they will sign in.                                           *)
Closed(o) ==
    /\ \A s \in Sessions : sessions[s].life = "live" => sessions[s].account # o
    /\ \A q \in Requests : At(q, "idle") \/ request[q].account # o
                               \/ (At(q, "tokens") /\ request[q].user # None)
Linked ==
    /\ \A o \in OAuthAccounts : accounts[o].user # None => accounts[o].life = "live"
    /\ \A o \in OAuthAccounts : settled[o] # None =>
           /\ accounts[o].life # "unused"
           /\ accounts[o].life = "live" => accounts[o].user = settled[o] /\ Closed(o)

(* An account with a user keeps her as long as no registration is under way,  *)
(* and none begins.                                                          *)
LEMMA ClosedKept ==
    ASSUME TypeOK, Step, NEW o \in OAuthAccounts,
           accounts[o].life = "live", accounts[o].user # None, Closed(o)
    PROVE  /\ accounts'[o].life # "unused"
           /\ accounts'[o].life = "live" => accounts'[o].user = accounts[o].user /\ Closed(o)'
<1>1. RequestsOK /\ RequestsOK' /\ RowsOK
  BY RequestsStay DEF TypeOK, RequestsOK, RowsOK
<1> DEFINE Same == accounts'[o] = accounts[o]
           NoSessions == \A s \in Sessions : sessions'[s].life = "live" => sessions'[s].account # o
           Fine(r) == r.step = "idle" \/ r.account # o \/ (r.step = "tokens" /\ r.user # None)
<1>2. \A q \in Requests : Fine(request[q])
  BY DEF Closed, At
<1>3. \A s \in Sessions : sessions[s].life = "live" => sessions[s].account # o
  BY DEF Closed
<1>4. ASSUME NEW q \in Requests, NEW r, request' = [request EXCEPT ![q] = r], Fine(r)
      PROVE  \A x \in Requests : Fine(request'[x])
  BY <1>1, <1>2, <1>4 DEF RequestsOK
<1>5. ASSUME NEW q \in Requests, Ends(q)
      PROVE  \A x \in Requests : Fine(request'[x])
  <2>1. Fine(Idle)
    BY IdleForm
  <2>2. QED
    BY <1>4, <1>5, <2>1 DEF Ends, Goes
<1>6. ASSUME NEW q \in Requests, NEW step, GoesTo(q, step),
             request[q] \in Creating \cup Calling, ~At(q, "tokens")
      PROVE  \A x \in Requests : Fine(request'[x])
  <2> DEFINE r == [request[q] EXCEPT !.step = step]
  <2>1. request' = [request EXCEPT ![q] = r]
    BY <1>6 DEF GoesTo
  <2>2. request[q].account # o /\ r.account = request[q].account
    BY <1>2, <1>6 DEF At, Creating, Calling
  <2>3. Fine(r)
    BY <2>2
  <2> HIDE DEF r
  <2>4. QED
    BY <1>4, <2>1, <2>3
<1>7. ASSUME Same, NoSessions, \A x \in Requests : Fine(request'[x])
      PROVE  /\ accounts'[o].life # "unused"
             /\ accounts'[o].life = "live" => accounts'[o].user = accounts[o].user /\ Closed(o)'
  BY <1>7 DEF Closed, At
<1>8. sessions' = sessions => NoSessions
  BY <1>3
<1>9. ASSUME NEW q \in Requests, NEW s \in Sessions, NEW e \in Addresses, Register(q, s, e)
      PROVE  Same /\ NoSessions /\ \A x \in Requests : Fine(request'[x])
  <2> DEFINE r == [step |-> "insert", user |-> None, email |-> e, session |-> s,
                   account |-> sessions[s].account, noted |-> sessions[s].email = e]
  <2>1. request' = [request EXCEPT ![q] = r] /\ UNCHANGED tables /\ sessions[s].life = "live"
    BY <1>9 DEF Register, Goes, HasSession, Live
  <2>2. r.account = sessions[s].account
    OBVIOUS
  <2>3. Fine(r)
    BY <1>3, <2>1, <2>2
  <2> HIDE DEF r
  <2>4. QED
    BY <1>4, <1>8, <2>1, <2>3 DEF tables
<1>10. ASSUME NEW q \in Requests, NEW u \in Users, Insert(q, u)
       PROVE  Same /\ NoSessions /\ \A x \in Requests : Fine(request'[x])
  <2> DEFINE r == [request[q] EXCEPT !.step = "note", !.user = u]
  <2>1. request' = [request EXCEPT ![q] = r] /\ UNCHANGED <<accounts, sessions>>
    BY <1>10 DEF Insert
  <2>2. request[q].account # o /\ r.account = request[q].account
    BY <1>1, <1>2, <1>10, StepForm DEF Insert, At, Creating
  <2>3. Fine(r)
    BY <2>2
  <2> HIDE DEF r
  <2>4. QED
    BY <1>4, <1>8, <2>1, <2>3
<1>11. ASSUME NEW q \in Requests, Note(q)
       PROVE  Same /\ NoSessions /\ \A x \in Requests : Fine(request'[x])
  <2>1. NoSessions
    BY <1>3, <1>11 DEF Note, TypeOK, Session
  <2>2. QED
    BY <1>1, <1>6, <1>11, <2>1, StepForm DEF Note, At
<1>12. ASSUME NEW q \in Requests, Link(q)
       PROVE  Same /\ NoSessions /\ \A x \in Requests : Fine(request'[x])
  <2>1. request[q].account # o
    BY <1>2, <1>12 DEF Link, At
  <2>2. Same
    BY <1>12, <2>1 DEF Link, TypeOK
  <2>3. QED
    BY <1>1, <1>6, <1>8, <1>12, <2>2, StepForm DEF Link, At
<1>13. ASSUME NEW q \in Requests, Finish(q)
       PROVE  Same /\ NoSessions /\ \A x \in Requests : Fine(request'[x])
  <2>1. NoSessions
    BY <1>3, <1>13 DEF Finish, NoSession, TypeOK
  <2>2. QED
    BY <1>5, <1>13, <2>1 DEF Finish
<1>14. ASSUME NEW q \in Requests, NEW f \in Flows, NEW p \in OAuthAccounts,
              NEW e \in Addresses \cup {None}, Callback(q, f, p, e)
       PROVE  Same /\ NoSessions /\ \A x \in Requests : Fine(request'[x])
  <2> DEFINE r == [step |-> IF Known(p) THEN "tokens" ELSE "adopt", account |-> p, flow |-> f,
                   email |-> IF Known(p) THEN accounts[p].email ELSE e, user |-> accounts[p].user]
  <2>1. request' = [request EXCEPT ![q] = r] /\ UNCHANGED tables
    BY <1>14 DEF Callback, Goes
  <2>2. Fine(r)
    BY DEF Known, Live, TypeOK
  <2> HIDE DEF r
  <2>3. QED
    BY <1>4, <1>8, <2>1, <2>2 DEF tables
<1>15. ASSUME NEW q \in Requests, Adopt(q)
       PROVE  Same /\ NoSessions /\ \A x \in Requests : Fine(request'[x])
  <2>1. request[q].account # o
    BY <1>2, <1>15 DEF Adopt, At
  <2>2. Same
    BY <1>15, <2>1 DEF Adopt, TypeOK
  <2>3. QED
    BY <1>1, <1>6, <1>8, <1>15, <2>2, StepForm DEF Adopt, At
<1>16. ASSUME NEW q \in Requests, Attach(q)
       PROVE  Same /\ NoSessions /\ \A x \in Requests : Fine(request'[x])
  BY <1>1, <1>6, <1>8, <1>16, StepForm DEF Attach, At
<1>17. ASSUME NEW q \in Requests, Tokens(q)
       PROVE  Same /\ NoSessions /\ \A x \in Requests : Fine(request'[x])
  <2>1. UNCHANGED tables
    BY <1>17 DEF Tokens
  <2>2. CASE request[q].user # None
    BY <1>5, <1>8, <1>17, <2>1, <2>2 DEF Tokens, tables
  <2>3. CASE request[q].user = None
    <3> DEFINE r == [request[q] EXCEPT !.step = "enrol"]
    <3>1. request' = [request EXCEPT ![q] = r]
      BY <1>17, <2>3 DEF Tokens, GoesTo
    <3>2. request[q].account # o /\ r.account = request[q].account
      BY <1>1, <1>2, <1>17, <2>3, StepForm DEF Tokens, At, Calling
    <3>3. Fine(r)
      BY <3>2
    <3> HIDE DEF r
    <3>4. QED
      BY <1>4, <1>8, <2>1, <3>1, <3>3 DEF tables
  <2>4. QED
    BY <2>2, <2>3
<1>18. ASSUME NEW q \in Requests, NEW s \in Sessions, Enrol(q, s)
       PROVE  Same /\ NoSessions /\ \A x \in Requests : Fine(request'[x])
  <2>1. request[q].account # o
    BY <1>2, <1>18 DEF Enrol, At
  <2>2. NoSessions
    BY <1>3, <1>18, <2>1 DEF Enrol, Opens, TypeOK
  <2>3. QED
    BY <1>5, <1>18, <2>2 DEF Enrol
<1>19. ASSUME NEW q \in Requests, Stop(q)
       PROVE  Same /\ NoSessions /\ \A x \in Requests : Fine(request'[x])
  BY <1>5, <1>8, <1>19 DEF Stop, tables
<1>20. ASSUME NEW s \in Sessions, ShowPage(s) \/ DropSession(s)
       PROVE  Same /\ NoSessions /\ \A x \in Requests : Fine(request'[x])
  <2>1. NoSessions
    BY <1>3, <1>20, RegistrationAssumption DEF ShowPage, DropSession, Opens, NoSession, TypeOK
  <2>2. QED
    BY <1>2, <1>20, <2>1 DEF ShowPage, DropSession
<1>21. ASSUME NEW u \in Users, DeleteUser(u)
       PROVE  /\ accounts'[o].life # "unused"
              /\ accounts'[o].life = "live" => accounts'[o].user = accounts[o].user /\ Closed(o)'
  <2>1. NoSessions
    BY <1>3, <1>21 DEF DeleteUser, NoSession
  <2>2. accounts'[o].life = "gone" \/ Same
    BY <1>21 DEF DeleteUser
  <2>3. request' = request
    BY <1>21 DEF DeleteUser
  <2>4. QED
    BY <1>2, <1>7, <2>1, <2>2, <2>3
<1>22. ASSUME NEW f \in Flows, Authorize(f) \/ DropFlow(f)
       PROVE  Same /\ NoSessions /\ \A x \in Requests : Fine(request'[x])
  BY <1>2, <1>8, <1>22 DEF Authorize, DropFlow
<1>23. ASSUME NEW u \in Users, Deactivate(u)
       PROVE  Same /\ NoSessions /\ \A x \in Requests : Fine(request'[x])
  BY <1>2, <1>8, <1>23 DEF Deactivate
<1> HIDE DEF Same, NoSessions, Fine
<1>24. QED
  BY <1>7, <1>9, <1>10, <1>11, <1>12, <1>13, <1>14, <1>15, <1>16, <1>17, <1>18, <1>19, <1>20,
     <1>21, <1>22, <1>23
  DEF Step

(* What is gone does not come back, and only rows that exist have a user.     *)
LEMMA AccountsPass ==
    ASSUME TypeOK, Step, NEW o \in OAuthAccounts,
           accounts[o].user # None => accounts[o].life = "live"
    PROVE  /\ accounts'[o].user # None => accounts'[o].life = "live"
           /\ accounts[o].life = "gone" => accounts'[o].life = "gone"
<1>1. CASE accounts' = accounts
  BY <1>1
<1>2. ASSUME NEW q \in Requests, Link(q)
      PROVE  accounts'[o].life = accounts[o].life /\ (accounts'[o].user = accounts[o].user \/ accounts[o].life = "live")
  BY <1>2 DEF Link, Live, TypeOK, Account
<1>3. ASSUME NEW q \in Requests, Adopt(q)
      PROVE  accounts'[o] = accounts[o] \/ (accounts[o].life = "unused" /\ accounts'[o].user = None)
  BY <1>3 DEF Adopt, Fresh, TypeOK, Account
<1>4. ASSUME NEW u \in Users, DeleteUser(u)
      PROVE  accounts'[o] = accounts[o] \/ (accounts'[o].life = "gone" /\ accounts'[o].user = None)
  BY <1>4 DEF DeleteUser
<1>5. QED
  BY <1>1, <1>2, <1>3, <1>4
  DEF Step, Register, Insert, Note, Finish, Stop, Callback, Attach, Tokens, Enrol, ShowPage,
      DropSession, Authorize, DropFlow, Deactivate, tables

(* oauth_callback, RegistrationFlow.create_user: an account that is linked,   *)
(* while no registration for it is under way, keeps its user.                *)
THEOREM LinksStay == Spec => []LinkedForGood
<1>1. Init => Linked
  BY RegistrationAssumption DEF Init, Linked
<1>2. TypeOK /\ Linked /\ [Next]_vars => Linked'
  <2>1. CASE UNCHANGED vars
    BY <2>1 DEF vars, tables, Linked, Closed, At
  <2>2. ASSUME TypeOK, Linked, Next, NEW o \in OAuthAccounts
        PROVE  /\ accounts'[o].user # None => accounts'[o].life = "live"
               /\ settled'[o] # None =>
                      /\ accounts'[o].life # "unused"
                      /\ accounts'[o].life = "live" => accounts'[o].user = settled'[o] /\ Closed(o)'
    <3>1. Step /\ settled'[o] = IF Open(o) THEN settled[o] ELSE accounts[o].user
      BY <2>2 DEF Next
    <3>2. /\ accounts'[o].user # None => accounts'[o].life = "live"
          /\ accounts[o].life = "gone" => accounts'[o].life = "gone"
      BY <2>2, <3>1, AccountsPass DEF Linked
    <3>3. /\ accounts[o].life \in Lives
          /\ accounts[o].user # None => accounts[o].life = "live"
      BY <2>2 DEF TypeOK, Account, Linked
    <3>4. ~Open(o) => Closed(o)
      BY <2>2, IdleForm DEF Open, Closed, Live, At, TypeOK
    <3>5. ASSUME accounts[o].life = "live", accounts[o].user # None, Closed(o)
          PROVE  /\ accounts'[o].life # "unused"
                 /\ accounts'[o].life = "live" => accounts'[o].user = accounts[o].user /\ Closed(o)'
      BY <2>2, <3>1, <3>5, ClosedKept
    <3>6. CASE Open(o)
      <4>1. CASE settled[o] = None
        BY <3>1, <3>2, <3>6, <4>1
      <4>2. CASE settled[o] # None /\ accounts[o].life = "live"
        BY <2>2, <3>1, <3>2, <3>5, <3>6, <4>2 DEF Linked
      <4>3. CASE settled[o] # None /\ accounts[o].life = "gone"
        BY <3>2, <4>3
      <4>4. QED
        BY <2>2, <3>3, <4>1, <4>2, <4>3 DEF Linked, Lives
    <3>7. CASE ~Open(o)
      BY <3>1, <3>2, <3>3, <3>4, <3>5, <3>7
    <3>8. QED
      BY <3>6, <3>7
  <2>3. QED
    BY <2>1, <2>2 DEF Linked
<1>3. TypeOK /\ Linked => LinkedForGood
  BY DEF TypeOK, Linked, LinkedForGood, Live
<1>4. QED
  BY <1>1, <1>2, <1>3, TypeCorrect, PTL DEF Spec
=============================================================================
