---------------------------- MODULE AccountsProofs ----------------------------
(* What Accounts and AccountLockout promise, proved for every number of       *)
(* users, addresses, passwords and requests, and for every ladder.  The two   *)
(* share no state: the row of the lockout is not among the columns of a user. *)
EXTENDS Accounts, AccountLockout, FiniteSetTheorems, TLAPS

-----------------------------------------------------------------------------
(* Types.                                                                    *)

(* What an UPDATE would make of a row has the types of one: it is that row,   *)
(* with the columns that are set.                                            *)
Filled(u, set, c) == IF set[c] = None THEN users[u][c] ELSE set[c]

LEMMA WrittenRow ==
    ASSUME TypeOK, NEW q \in Requests, request[q] \in Writing
    PROVE  LET u == request[q].user
               set == request[q].set
           IN  Written(q) = [life |-> users[u].life, email |-> Filled(u, set, "email"),
                             verified |-> Filled(u, set, "verified"),
                             active |-> Filled(u, set, "active"),
                             word |-> Filled(u, set, "word"), hash |-> users[u].hash]
<1> DEFINE u == request[q].user
           set == request[q].set
           this == users[u]
<1>1. this \in User
  BY DEF TypeOK, Writing
<1>2. DOMAIN this = {"life", "email", "verified", "active", "word", "hash"}
  BY <1>1 DEF User
<1> HIDE DEF this
<1>3. Written(q) = [this EXCEPT !.email = Filled(u, set, "email"),
                               !.verified = Filled(u, set, "verified"),
                               !.active = Filled(u, set, "active"),
                               !.word = Filled(u, set, "word")]
  BY Zenon DEF Written, Filled, this
<1>4. QED
  BY <1>1, <1>2, <1>3 DEF this

LEMMA FilledType ==
    ASSUME TypeOK, NEW u \in Users, NEW set \in Columns
    PROVE  /\ Filled(u, set, "email") \in Addresses \cup {None}
           /\ Filled(u, set, "verified") \in BOOLEAN
           /\ Filled(u, set, "active") \in BOOLEAN
           /\ Filled(u, set, "word") \in Words \cup {None}
<1> DEFINE this == users[u]
<1>1. /\ this.email \in Addresses \cup {None} /\ this.verified \in BOOLEAN
      /\ this.active \in BOOLEAN /\ this.word \in Words \cup {None}
  BY DEF TypeOK, User
<1>2. /\ set.email \in Addresses \cup {None} /\ set.verified \in BOOLEAN \cup {None}
      /\ set.active \in BOOLEAN \cup {None} /\ set.word \in Words \cup {None}
  BY DEF Columns
<1> HIDE DEF this
<1>3. QED
  BY <1>1, <1>2, Zenon DEF Filled, this

LEMMA WrittenType ==
    ASSUME TypeOK, NEW q \in Requests, request[q] \in Writing
    PROVE  /\ Written(q) \in User
           /\ Written(q).life = users[request[q].user].life
           /\ Written(q).hash = users[request[q].user].hash
           /\ Written(q).email = Filled(request[q].user, request[q].set, "email")
           /\ Written(q).verified = Filled(request[q].user, request[q].set, "verified")
           /\ Written(q).word = Filled(request[q].user, request[q].set, "word")
<1> DEFINE u == request[q].user
           set == request[q].set
<1>1. u \in Users /\ set \in Columns
  BY DEF Writing
<1>2. users[u].life \in Lives /\ users[u].hash \in Hashes
  BY <1>1 DEF TypeOK, User
<1>3. QED
  BY <1>1, <1>2, WrittenRow, FilledType DEF User

(* So has the row that Edits proposes, and its difference to the old one.    *)
LEMMA EditsType ==
    ASSUME TypeOK, NEW u \in Users, NEW new \in Edits(u)
    PROVE  new \in User
<1> DEFINE this == users[u]
<1>1. this \in User
  BY DEF TypeOK
<1> HIDE DEF this
<1>2. CASE new \in {[this EXCEPT !.email = x[1], !.verified = x[2]] : x \in Addresses \X BOOLEAN}
  BY <1>1, <1>2 DEF User
<1>3. CASE new \in {[this EXCEPT !.word = w] : w \in Words}
  BY <1>1, <1>3 DEF User
<1>4. CASE new \in {[this EXCEPT !.active = ~@]}
  BY <1>1, <1>4 DEF User
<1>5. QED
  BY <1>2, <1>3, <1>4, Zenon DEF Edits, this

LEMMA DifferingType ==
    ASSUME TypeOK, NEW u \in Users, NEW new \in User
    PROVE  Differing(u, new) \in Columns
  BY AccountsAssumption DEF TypeOK, Differing, Columns, User

(* The request at a step has the form of that step.                          *)
LEMMA StepForm ==
    ASSUME TypeOK, NEW q \in Requests
    PROVE  /\ At(q, "insert") \/ At(q, "greet") => request[q] \in Creating
           /\ At(q, "purge") \/ At(q, "mail") => request[q] \in Sending
           /\ At(q, "confirm") \/ At(q, "store") \/ At(q, "upgrade") \/ At(q, "save")
                  => request[q] \in Writing
  BY DEF TypeOK, At, Creating, Sending, Writing, Idle

\* A store writes the password and the hash of one row.
LEMMA StoreWrites ==
    ASSUME TypeOK, NEW q \in Requests, Store(q)
    PROVE  /\ \A x \in Users \ {request[q].user} : users'[x] = users[x]
           /\ \A x \in Users : x = request[q].user =>
                  /\ users'[x].word = request[q].set.word /\ users'[x].hash = hashes + 1
                  /\ users'[x].life = users[x].life /\ users'[x].email = users[x].email
                  /\ users'[x].verified = users[x].verified
<1> DEFINE u == request[q].user
           new == [users[u] EXCEPT !.word = request[q].set.word, !.hash = hashes + 1]
<1>1. u \in Users /\ users[u] \in User
  BY DEF Store, Live, TypeOK
<1>2. new.word = request[q].set.word /\ new.hash = hashes + 1 /\ new.life = users[u].life
      /\ new.email = users[u].email /\ new.verified = users[u].verified
  BY <1>1 DEF User
<1>3. users' = [users EXCEPT ![u] = new]
  BY <1>1 DEF Store, TypeOK
<1> HIDE DEF new
<1>4. QED
  BY <1>1, <1>2, <1>3 DEF TypeOK

-----------------------------------------------------------------------------
(* A step begins a request, or goes on with one, or is an event of its own.  *)

Kept == UNCHANGED <<users, hashes, proved, uses, newest, overtaken>>

\* What changes neither a user nor what the history says of one.
Minor(q, r) ==
    /\ Kept
    /\ request' = [request EXCEPT ![q] = r]
    /\ r \in Creating \cup Sending \cup {Idle}

Resets(q, k, w) == ResetPassword(q, k, w)
Changes(q, u, w) ==
    u \in Live(users) /\ Stores(q, "store", u, w, None)
Upgrades(q, u, w) ==
    u \in Live(users) /\ users[u].word = w /\ Stores(q, "upgrade", u, w, None)

Kinds ==
    \/ Kept /\ request' = request
    \/ \E q \in Requests : \E r \in Creating \cup Sending \cup {Idle} : Minor(q, r)
    \/ \E q \in Requests, u \in Users : Insert(q, u)
    \/ \E q \in Requests, c \in codes : Show(q, c)
    \/ \E q \in Requests, w \in Words : \E k \in links : Resets(q, k, w)
    \/ \E q \in Requests, u \in Users, w \in Words : Changes(q, u, w) \/ Upgrades(q, u, w)
    \/ \E q \in Requests, u \in Users : \E new \in Edits(u) : Edit(q, u, new)
    \/ \E q \in Requests : Confirm(q) \/ Store(q) \/ Save(q)
    \/ \E u \in Users : DeleteUser(u)

LEMMA StepKinds ==
    ASSUME TypeOK, [Next]_vars
    PROVE  Kinds
<1> USE DEF Kept
<1>1. CASE UNCHANGED vars
  BY <1>1 DEF vars, tables, history, Kinds
<1>2. CASE Registering
  <2>1. CASE \E q \in Requests, e \in Addresses, w \in Words : \E v \in BOOLEAN : Create(q, e, w, v)
    <3> PICK q \in Requests, e \in Addresses, w \in Words, v \in BOOLEAN : Create(q, e, w, v)
      BY <2>1
    <3> DEFINE new == [life |-> "live", email |-> e, verified |-> v, active |-> TRUE,
                       word |-> w, hash |-> 0]
               r == [step |-> "insert", user |-> None, new |-> new]
    <3>1. r \in Creating
      BY DEF Creating, NewUser
    <3>2. Minor(q, r)
      BY <3>1 DEF Create, Goes, Nothing, Minor, tables, history
    <3>3. QED
      BY <3>1, <3>2 DEF Kinds
  <2>2. CASE \E q \in Requests : Greet(q)
    <3> PICK q \in Requests : Greet(q)
      BY <2>2
    <3>1. Minor(q, Idle)
      BY DEF Greet, Ends, Goes, Minor, history
    <3>2. QED
      BY <3>1 DEF Kinds
  <2>3. CASE \E q \in Requests, u \in Users : Insert(q, u)
    BY <2>3 DEF Kinds
  <2>4. QED
    BY <1>2, <2>1, <2>2, <2>3 DEF Registering, CreateUser, CreateOnDashboard, Register
<1>3. CASE Verifying
  <2>1. CASE \E q \in Requests, u \in Users : \E e \in Addresses \cup {None} : Ask(q, u, e)
    <3> PICK q \in Requests, u \in Users, e \in Addresses \cup {None} : Ask(q, u, e)
      BY <2>1
    <3> DEFINE r == [step |-> "purge", user |-> u, email |-> e]
    <3>1. r \in Sending
      BY DEF Sending
    <3>2. Minor(q, r)
      BY <3>1 DEF Ask, Goes, Nothing, Minor, tables, history
    <3>3. QED
      BY <3>1, <3>2 DEF Kinds
  <2>2. CASE \E q \in Requests, c \in codes : Show(q, c)
    BY <2>2 DEF Kinds
  <2>3. CASE \E q \in Requests : Purge(q) \/ Mail(q)
    <3> PICK q \in Requests : Purge(q) \/ Mail(q)
      BY <2>3
    <3> DEFINE r == IF request'[q] = Idle THEN Idle ELSE [request[q] EXCEPT !.step = "mail"]
    <3>1. request[q] \in Sending
      BY StepForm DEF Purge, Mail
    <3>2. r \in Sending \cup {Idle}
      BY <3>1 DEF Purge, Mail, Ends, Goes, GoesTo, TypeOK, Sending, Idle
    <3>3. request' = [request EXCEPT ![q] = r]
      BY <3>1 DEF Purge, Mail, Ends, Goes, GoesTo, TypeOK, Sending, Idle
    <3>4. Minor(q, r)
      BY <3>2, <3>3 DEF Purge, Mail, Minor, history
    <3>5. QED
      BY <3>2, <3>4 DEF Kinds
  <2>4. CASE \E q \in Requests : Confirm(q)
    BY <2>4 DEF Kinds
  <2>5. CASE (\E u \in Users : Welcome(u)) \/ (\E c \in codes : ExpireCode(c) \/ DropCode(c))
    BY <2>5 DEF Kinds, Welcome, ExpireCode, DropCode, history
  <2>6. \A u \in Users : users[u].email \in Addresses \cup {None}
    BY DEF TypeOK, User
  <2>7. QED
    BY <1>3, <2>1, <2>2, <2>3, <2>4, <2>5, <2>6
    DEF Verifying, AskAtSignIn, AskForUser, ChangeEmail, ChangeEmailByApi,
        Verify, VerifyOnDashboard, VerifyByApi, VerifyLink
<1>4. CASE Changing
  <2>1. CASE \E u \in Users : ForgotPassword(u)
    BY <2>1 DEF Kinds, ForgotPassword, history
  <2>2. CASE \E q \in Requests : Stop(q)
    <3> PICK q \in Requests : Stop(q)
      BY <2>2
    <3>1. Minor(q, Idle)
      BY DEF Stop, Ends, Goes, Nothing, Minor, tables, history
    <3>2. QED
      BY <3>1 DEF Kinds
  <2>3. CASE \E q \in Requests, e \in Addresses, w \in Words : Authenticate(q, e, w)
    <3> PICK q \in Requests, w \in Words, u \in Users : Upgrades(q, u, w)
      BY <2>3 DEF Authenticate, Upgrades, Live, TypeOK
    <3>1. QED
      BY DEF Kinds
  <2>4. CASE \E q \in Requests, w \in Words, u \in Users : Changes(q, u, w)
    BY <2>4 DEF Kinds
  <2>5. CASE \E q \in Requests, w \in Words : \E k \in links : ResetPassword(q, k, w)
    BY <2>5 DEF Kinds, Resets
  <2>6. CASE \E q \in Requests, u \in Users : \E new \in Edits(u) : Edit(q, u, new)
    BY <2>6 DEF Kinds
  <2>7. CASE (\E u \in Users : DeleteUser(u)) \/ (\E q \in Requests : Store(q) \/ Save(q))
    BY <2>7 DEF Kinds
  <2>8. QED
    BY <1>4, <2>1, <2>2, <2>3, <2>4, <2>5, <2>6, <2>7
    DEF Changing, DeleteOnDashboard, ChangePassword, ChangePasswordByApi, Changes,
        UpdateUser, UpdateOnDashboard
<1>5. QED
  BY <1>1, <1>2, <1>3, <1>4 DEF Next

-----------------------------------------------------------------------------
(* Types, with one account for an address.                                   *)

LEMMA StoresForm ==
    ASSUME TypeOK, NEW q \in Requests, NEW step \in {"store", "upgrade"}, NEW u \in Users,
           NEW w \in Words, NEW by \in Links \cup {None}
    PROVE  [step |-> step, user |-> u, by |-> by,
            set |-> [email |-> None, verified |-> None, active |-> None, word |-> w]] \in Writing
  BY DEF Writing, Columns

(* What becomes of the users decides about the types of what refers to them. *)
TypesOfRows ==
    /\ users \in [Users -> User]
    /\ \A u \in Users : users[u].life = "live" => users[u].email # None
    /\ \A u, v \in Users : u # v /\ users[u].life = "live" /\ users[v].life = "live"
                               => users[u].email # users[v].email
TypesOfRequests == request \in [Requests -> Creating \cup Sending \cup Writing \cup {Idle}]

LEMMA RowsKeepTypes ==
    ASSUME TypeOK, [Next]_vars
    PROVE  TypesOfRows'
<1>1. CASE users' = users
  BY <1>1 DEF TypesOfRows, TypeOK
<1>2. ASSUME NEW q \in Requests, NEW u \in Users, Insert(q, u)
      PROVE  TypesOfRows'
  <2> DEFINE this == [request[q].new EXCEPT !.hash = hashes + 1]
  <2>1. request[q].new \in NewUser /\ hashes + 1 \in Hashes
    BY <1>2, StepForm, AccountsAssumption DEF Insert, Creating, TypeOK, Hashes
  <2>2. this \in User /\ this.email # None
    BY <2>1, AccountsAssumption DEF User, NewUser, Lives
  <2>3. users' = [users EXCEPT ![u] = this] /\ Unique(u, this.email)
    BY <1>2 DEF Insert
  <2> HIDE DEF this
  <2>4. QED
    BY <2>2, <2>3 DEF TypesOfRows, TypeOK, Unique, Live
<1>3. ASSUME NEW q \in Requests, Confirm(q) \/ Save(q)
      PROVE  TypesOfRows'
  <2> DEFINE u == request[q].user
  <2>1. u \in Users /\ Written(q) \in User /\ Written(q).life = users[u].life
    BY <1>3, StepForm, WrittenType DEF Confirm, Save, Writing
  <2>2. PICK this \in User : /\ users' = [users EXCEPT ![u] = this]
                            /\ this.email = Written(q).email /\ this.life = Written(q).life
    <3>1. CASE Confirm(q)
      BY <2>1, <3>1 DEF Confirm
    <3>2. CASE Save(q)
      <4> DEFINE h == IF request[q].set.word # None THEN hashes + 1 ELSE Written(q).hash
                 this == [Written(q) EXCEPT !.hash = h]
      <4>1. Written(q).hash \in Hashes
        BY <2>1 DEF User
      <4>2. h \in Hashes
        BY <3>2, <4>1, AccountsAssumption DEF Save, TypeOK, Hashes
      <4>3. this \in User /\ this.email = Written(q).email /\ this.life = Written(q).life
        BY <2>1, <4>2 DEF User
      <4>4. users' = [users EXCEPT ![u] = this]
        BY <3>2 DEF Save
      <4>5. QED
        BY <4>3, <4>4
    <3>3. QED
      BY <1>3, <3>1, <3>2
  <2>3. /\ Unique(u, Written(q).email) /\ users[u].life = "live"
        /\ Written(q).email # None
    <3>1. Unique(u, Written(q).email) /\ users[u].life = "live"
      BY <1>3 DEF Confirm, Save, Stays, Live
    <3>2. Written(q).email = Filled(u, request[q].set, "email")
      BY <1>3, StepForm, WrittenType DEF Confirm, Save
    <3>3. QED
      BY <2>1, <3>1, <3>2 DEF Filled, TypeOK
  <2> HIDE DEF u
  <2>4. QED
    BY <2>1, <2>2, <2>3 DEF TypesOfRows, TypeOK, Unique, Live
<1>4. ASSUME NEW q \in Requests, Store(q)
      PROVE  TypesOfRows'
  <2> DEFINE u == request[q].user
             this == [users[u] EXCEPT !.word = request[q].set.word, !.hash = hashes + 1]
  <2>1. u \in Users /\ request[q].set.word \in Words \cup {None} /\ hashes + 1 \in Hashes
    BY <1>4, StepForm, AccountsAssumption DEF Store, Writing, Columns, TypeOK, Hashes
  <2>2. this \in User /\ this.email = users[u].email /\ this.life = users[u].life
    <3>1. users[u] \in User
      BY <2>1 DEF TypeOK
    <3>2. QED
      BY <2>1, <3>1 DEF User
  <2>3. users' = [users EXCEPT ![u] = this]
    BY <1>4 DEF Store
  <2> HIDE DEF this, u
  <2>4. QED
    BY <2>1, <2>2, <2>3 DEF TypesOfRows, TypeOK
<1>5. ASSUME NEW u \in Users, DeleteUser(u)
      PROVE  TypesOfRows'
  <2> DEFINE this == [users[u] EXCEPT !.life = "gone"]
  <2>1. this \in User /\ this.life = "gone"
    BY DEF User, TypeOK, Lives
  <2>2. users' = [users EXCEPT ![u] = this]
    BY <1>5 DEF DeleteUser
  <2> HIDE DEF this
  <2>3. QED
    BY <2>1, <2>2 DEF TypesOfRows, TypeOK
<1>6. QED
  BY <1>1, <1>2, <1>3, <1>4, <1>5, StepKinds
  DEF Kinds, Kept, Minor, Show, Resets, ResetPassword, Changes, Upgrades, Stores, Edit,
      Nothing, tables

LEMMA RequestsKeepTypes ==
    ASSUME TypeOK, [Next]_vars
    PROVE  TypesOfRequests'
<1> USE DEF TypesOfRequests
<1>1. CASE request' = request
  BY <1>1 DEF TypeOK
<1>2. SUFFICES ASSUME NEW q \in Requests, NEW r \in Creating \cup Sending \cup Writing \cup {Idle},
                      request' = [request EXCEPT ![q] = r]
               PROVE  TypesOfRequests'
  <2>1. ASSUME NEW q \in Requests, NEW u \in Users, Insert(q, u)
        PROVE  \E r \in Creating : request' = [request EXCEPT ![q] = r]
    <3> DEFINE r == [request[q] EXCEPT !.step = "greet", !.user = u]
    <3>1. r \in Creating
      BY <2>1, StepForm DEF Insert, Creating
    <3>2. request' = [request EXCEPT ![q] = r]
      BY <2>1 DEF Insert
    <3>3. QED
      BY <3>1, <3>2
  <2>2. ASSUME NEW q \in Requests, NEW c \in codes, Show(q, c)
        PROVE  \E r \in Writing : request' = [request EXCEPT ![q] = r]
    <3> DEFINE new == [users[c.user] EXCEPT !.email = c.email, !.verified = TRUE]
               r == [step |-> "confirm", user |-> c.user, by |-> None,
                     set |-> Differing(c.user, new)]
    <3>1. c.user \in Users /\ new \in User
      <4>1. c.user \in Users /\ c.email \in Addresses
        BY DEF TypeOK, Code
      <4>2. users[c.user] \in User
        BY <4>1 DEF TypeOK
      <4>3. QED
        BY <4>1, <4>2 DEF User
    <3>2. r \in Writing
      BY <3>1, DifferingType DEF Writing
    <3>3. request' = [request EXCEPT ![q] = r]
      BY <2>2 DEF Show, Goes
    <3>4. QED
      BY <3>2, <3>3
  <2>3. ASSUME NEW q \in Requests, NEW u \in Users, NEW new \in Edits(u), Edit(q, u, new)
        PROVE  \E r \in Writing : request' = [request EXCEPT ![q] = r]
    <3> DEFINE r == [step |-> "save", user |-> u, set |-> Differing(u, new), by |-> None]
    <3>1. r \in Writing
      BY EditsType, DifferingType DEF Writing
    <3>2. request' = [request EXCEPT ![q] = r]
      BY <2>3 DEF Edit, Goes
    <3>3. QED
      BY <3>1, <3>2
  <2>4. ASSUME NEW q \in Requests, NEW w \in Words, NEW k \in links, Resets(q, k, w)
        PROVE  \E r \in Writing : request' = [request EXCEPT ![q] = r]
    <3>1. k \in Links /\ k[1] \in Users
      BY DEF TypeOK, Links
    <3>2. QED
      BY <2>4, <3>1, StoresForm DEF Resets, ResetPassword, Stores, Goes
  <2>5. ASSUME NEW q \in Requests, NEW u \in Users, NEW w \in Words,
               Changes(q, u, w) \/ Upgrades(q, u, w)
        PROVE  \E r \in Writing : request' = [request EXCEPT ![q] = r]
    BY <2>5, StoresForm DEF Changes, Upgrades, Stores, Goes
  <2>6. ASSUME NEW q \in Requests, Confirm(q)
        PROVE  \E r \in Sending : request' = [request EXCEPT ![q] = r]
    BY <2>6, StepForm DEF Confirm, Goes, Sending, Writing
  <2>7. ASSUME NEW q \in Requests, Store(q) \/ Save(q)
        PROVE  request' = [request EXCEPT ![q] = Idle]
    BY <2>7 DEF Store, Save, Ends, Goes
  <2>8. QED
    BY <1>1, <1>2, <2>1, <2>2, <2>3, <2>4, <2>5, <2>6, <2>7, StepKinds
    DEF Kinds, Minor, DeleteUser
<1>3. QED
  BY <1>2 DEF TypeOK

(* A code belongs to a user who lives: it is mailed to one, and goes with    *)
(* her.                                                                      *)
LEMMA CodesKeepTypes ==
    ASSUME TypeOK, [Next]_vars
    PROVE  (codes \subseteq {c \in Code : users[c.user].life = "live"})'
<1> DEFINE Good == {c \in Code : users[c.user].life = "live"}
<1>1. codes \subseteq Good /\ TypesOfRows'
  BY RowsKeepTypes DEF TypeOK
<1>2. \A u \in Live(users) : users[u].email \in Addresses /\ u \in Users
  BY DEF Live, TypeOK, User
<1>3. ASSUME NEW u \in Live(users), NEW e \in Addresses, Mailed(u, e), users' = users
      PROVE  codes' \subseteq Good'
  <2> DEFINE d == [user |-> u, email |-> e, stale |-> FALSE]
  <2>1. d \in Code /\ users[d.user].life = "live"
    BY <1>2 DEF Code, Live
  <2>2. codes' = codes \cup {d}
    BY <1>3 DEF Mailed
  <2> HIDE DEF d
  <2>3. QED
    BY <1>1, <1>3, <2>1, <2>2
<1>4. ASSUME NEW u \in Users, DeleteUser(u)
      PROVE  codes' \subseteq Good'
  <2>1. \A v \in Users \ {u} : users'[v] = users[v]
    BY <1>4 DEF DeleteUser, TypeOK
  <2>2. codes' = {c \in codes : c.user # u}
    BY <1>4 DEF DeleteUser, Without
  <2>3. QED
    BY <1>1, <2>1, <2>2 DEF Code
<1>5. ASSUME codes' \subseteq codes, \A u \in Users : users[u].life = "live" => users'[u].life = "live"
      PROVE  codes' \subseteq Good'
  BY <1>1, <1>5 DEF Code
<1>6. CASE UNCHANGED vars
  BY <1>5, <1>6 DEF vars, tables
<1>7. CASE Registering
  <2>1. codes' = codes
    BY <1>7 DEF Registering, CreateUser, CreateOnDashboard, Register, Create, Nothing, tables,
                Greet, Insert
  <2>2. CASE users' = users
    BY <1>5, <2>1, <2>2
  <2>3. CASE \E q \in Requests, u \in Users : Insert(q, u)
    BY <1>5, <2>1, <2>3 DEF Insert, TypeOK
  <2>4. QED
    BY <1>7, <2>2, <2>3 DEF Registering, CreateUser, CreateOnDashboard, Register, Create,
                            Nothing, tables, Greet
<1>8. CASE Verifying
  <2>1. CASE \E q \in Requests, u \in Users, e \in Addresses \cup {None} : Ask(q, u, e)
    BY <1>5, <2>1 DEF Ask, Nothing, tables
  <2>2. CASE \E q \in Requests, c \in codes : Show(q, c)
    BY <1>5, <2>2 DEF Show, tables
  <2>3. CASE \E q \in Requests : Purge(q)
    BY <1>5, <2>3 DEF Purge, Without
  <2>4. CASE \E q \in Requests : Mail(q)
    <3> PICK q \in Requests : Mail(q)
      BY <2>4
    <3>1. request[q].user \in Live(users) /\ request[q].email \in Addresses
      BY StepForm DEF Mail, At, Sending
    <3>2. QED
      BY <1>3, <3>1 DEF Mail
  <2>5. CASE \E q \in Requests : Confirm(q)
    <3> PICK q \in Requests : Confirm(q)
      BY <2>5
    <3>1. request[q].user \in Users /\ Written(q).life = users[request[q].user].life
      BY StepForm, WrittenType DEF Confirm, Writing
    <3>2. QED
      BY <1>5, <3>1 DEF Confirm, TypeOK
  <2>6. CASE \E u \in Users : Welcome(u)
    BY <1>2, <1>3, <1>5, <2>6 DEF Welcome
  <2>7. CASE \E c \in codes : ExpireCode(c)
    <3> PICK c \in codes : ExpireCode(c)
      BY <2>7
    <3> DEFINE d == [c EXCEPT !.stale = TRUE]
    <3>1. d \in Code /\ d.user = c.user
      BY <1>1 DEF Code
    <3>2. codes' = (codes \ {c}) \cup {d} /\ users' = users
      BY DEF ExpireCode
    <3> HIDE DEF d
    <3>3. QED
      BY <1>1, <3>1, <3>2
  <2>8. CASE \E c \in codes : DropCode(c)
    BY <1>5, <2>8 DEF DropCode
  <2>9. QED
    <3>1. \A u \in Users : users[u].email \in Addresses \cup {None}
      BY DEF TypeOK, User
    <3>2. QED
      BY <1>8, <2>1, <2>2, <2>3, <2>4, <2>5, <2>6, <2>7, <2>8, <3>1
      DEF Verifying, AskAtSignIn, AskForUser, ChangeEmail, ChangeEmailByApi,
          Verify, VerifyOnDashboard, VerifyByApi, VerifyLink
<1>9. CASE Changing
  <2>1. CASE \E u \in Users : DeleteUser(u) \/ DeleteOnDashboard(u)
    BY <1>4, <2>1 DEF DeleteOnDashboard
  <2>2. CASE \E q \in Requests : Store(q)
    <3> PICK q \in Requests : Store(q)
      BY <2>2
    <3>1. \A u \in Users : users[u].life = "live" => users'[u].life = "live"
      BY DEF Store, TypeOK, User
    <3>2. QED
      BY <1>5, <3>1 DEF Store
  <2>3. CASE \E q \in Requests : Save(q)
    <3> PICK q \in Requests : Save(q)
      BY <2>3
    <3>1. /\ request[q].user \in Users /\ Written(q).life = users[request[q].user].life
          /\ Written(q) \in User
      BY StepForm, WrittenType DEF Save, Writing
    <3>2. \A u \in Users : users[u].life = "live" => users'[u].life = "live"
      BY <3>1 DEF Save, TypeOK, User
    <3>3. QED
      BY <1>5, <3>2 DEF Save
  <2>4. CASE codes' = codes /\ users' = users
    BY <1>5, <2>4
  <2>5. QED
    BY <1>9, <2>1, <2>2, <2>3, <2>4
    DEF Changing, ForgotPassword, ResetPassword, ChangePassword, ChangePasswordByApi,
        Authenticate, Stores, Nothing, tables, UpdateUser, UpdateOnDashboard, Edit, Stop
<1>10. QED
  BY <1>6, <1>7, <1>8, <1>9 DEF Next

(* What is counted and remembered.                                           *)
LEMMA RestKeepsTypes ==
    ASSUME TypeOK, [Next]_vars
    PROVE  /\ (hashes \in Hashes /\ proved \subseteq Users \X Addresses)'
           /\ (uses \in [Links -> Nat] /\ newest \in [Users -> Words \cup {None}])'
           /\ (overtaken \subseteq Users)'
<1> DEFINE Rest == /\ hashes \in Hashes /\ proved \subseteq Users \X Addresses
                   /\ uses \in [Links -> Nat] /\ newest \in [Users -> Words \cup {None}]
                   /\ overtaken \subseteq Users
<1>1. Rest
  BY DEF TypeOK
<1>2. CASE UNCHANGED <<hashes, proved, uses, newest, overtaken>>
  BY <1>1, <1>2
<1>3. ASSUME NEW q \in Requests, NEW u \in Users, Insert(q, u)
      PROVE  Rest'
  <2> DEFINE this == [request[q].new EXCEPT !.hash = hashes + 1]
  <2>1. request[q].new \in NewUser /\ hashes + 1 \in Hashes
    BY <1>3, StepForm, AccountsAssumption DEF Insert, Creating, TypeOK, Hashes
  <2>2. this.word \in Words /\ this.email \in Addresses
    BY <2>1 DEF NewUser
  <2>3. /\ newest' = [newest EXCEPT ![u] = this.word] /\ hashes' = hashes + 1
        /\ proved' = proved \/ proved' = proved \cup {<<u, this.email>>}
        /\ UNCHANGED <<uses, overtaken>>
    BY <1>3 DEF Insert
  <2> HIDE DEF this
  <2>4. QED
    BY <1>1, <2>1, <2>2, <2>3
<1>4. ASSUME NEW q \in Requests, NEW c \in codes, Show(q, c)
      PROVE  Rest'
  BY <1>1, <1>4 DEF Show, tables, TypeOK, Code
<1>5. ASSUME NEW q \in Requests, Store(q)
      PROVE  Rest'
  <2> DEFINE u == request[q].user
             w == request[q].set.word
             k == request[q].by
  <2>1. /\ u \in Users /\ w \in Words \cup {None} /\ k \in Links \cup {None}
        /\ hashes + 1 \in Hashes
    BY <1>5, StepForm, AccountsAssumption DEF Store, Writing, Columns, TypeOK, Hashes
  <2>2. /\ newest' = newest \/ newest' = [newest EXCEPT ![u] = w]
        /\ overtaken' = overtaken \/ overtaken' = overtaken \cup {u}
        /\ uses' = IF k = None THEN uses ELSE [uses EXCEPT ![k] = @ + 1]
        /\ hashes' = hashes + 1 /\ proved' = proved
    BY <1>5 DEF Store
  <2> HIDE DEF u, w, k
  <2>3. QED
    BY <1>1, <2>1, <2>2
<1>6. ASSUME NEW q \in Requests, Save(q)
      PROVE  Rest'
  <2> DEFINE u == request[q].user
             w == request[q].set.word
             e == Written(q).email
  <2>1. u \in Users /\ w \in Words \cup {None} /\ Written(q) \in User
    BY <1>6, StepForm, WrittenType DEF Save, Writing, Columns
  <2>2. Written(q).email = Filled(u, request[q].set, "email") /\ users[u].email # None
    BY <1>6, StepForm, WrittenType DEF Save, Stays, Live, TypeOK
  <2>3. e \in Addresses
    BY <2>1, <2>2 DEF Filled, User
  <2>4. /\ newest' = newest \/ newest' = [newest EXCEPT ![u] = w]
        /\ overtaken' = overtaken \/ overtaken' = overtaken \cup {u}
        /\ proved' = proved \/ proved' = proved \cup {<<u, e>>}
        /\ hashes' = hashes \/ (hashes < MaxHashes /\ hashes' = hashes + 1)
        /\ uses' = uses
    <3>1. newest' = newest \/ newest' = [newest EXCEPT ![u] = w]
      BY <1>6, Zenon DEF Save
    <3>2. overtaken' = overtaken \/ overtaken' = overtaken \cup {u}
      BY <1>6, Zenon DEF Save
    <3>3. proved' = proved \/ proved' = proved \cup {<<u, e>>}
      BY <1>6, Zenon DEF Save
    <3>4. hashes' = hashes \/ (hashes < MaxHashes /\ hashes' = hashes + 1)
      BY <1>6, Zenon DEF Save
    <3>5. QED
      BY <1>6, <3>1, <3>2, <3>3, <3>4 DEF Save
  <2>5. hashes' \in Hashes
    BY <2>4, AccountsAssumption DEF TypeOK, Hashes
  <2> HIDE DEF u, w, e
  <2>6. QED
    BY <1>1, <2>1, <2>3, <2>4, <2>5
<1>7. QED
  BY <1>2, <1>3, <1>4, <1>5, <1>6, StepKinds
  DEF Kinds, Kept, Minor, Resets, ResetPassword, Changes, Upgrades, Stores, Edit, Nothing,
      tables, history, Confirm, DeleteUser

LEMMA BoundsKeepTypes ==
    ASSUME TypeOK, [Next]_vars
    PROVE  (welcomes \subseteq Users /\ links \subseteq Links /\ starts \in 0 .. MaxStarts)'
<1>1. CASE UNCHANGED vars
  BY <1>1 DEF vars, tables, TypeOK
<1>2. \A q \in Requests : Begins(q) => starts' \in 0 .. MaxStarts
  BY AccountsAssumption DEF Begins, TypeOK
<1>3. \A q \in Requests : Greet(q) => welcomes' \subseteq Users
  BY DEF Greet, TypeOK, Live
<1>4. \A u \in Users : ForgotPassword(u) => links' \subseteq Links
  BY DEF ForgotPassword, LinkFor, Links, TypeOK, User
<1>5. CASE Registering
  BY <1>2, <1>3, <1>5
  DEF Registering, CreateUser, CreateOnDashboard, Register, Create, Nothing, tables, history,
      Greet, Insert, TypeOK
<1>6. CASE Verifying
  BY <1>2, <1>6
  DEF Verifying, AskAtSignIn, AskForUser, ChangeEmail, ChangeEmailByApi, Ask, Nothing, tables,
      Verify, VerifyOnDashboard, VerifyByApi, VerifyLink, Show, Purge, Mail, Confirm, Welcome,
      ExpireCode, DropCode, TypeOK
<1>7. CASE Changing
  BY <1>2, <1>4, <1>7
  DEF Changing, ForgotPassword, DeleteUser, DeleteOnDashboard, ResetPassword, ChangePassword,
      ChangePasswordByApi, Authenticate, Stores, Nothing, tables, UpdateUser, UpdateOnDashboard,
      Edit, Stop, Store, Save, TypeOK
<1>8. QED
  BY <1>1, <1>5, <1>6, <1>7 DEF Next

(* The types of every column, with a live user for every code and one live   *)
(* user for every address (the unique constraint that UserManager relies on  *)
(* when two requests have looked an address up at once).                     *)
THEOREM TypeCorrect == Spec => []TypeOK
<1>1. Init => TypeOK
  <2> SUFFICES ASSUME Init PROVE TypeOK
    OBVIOUS
  <2> PICK us \in {{}} \cup {{u} : u \in Users}, e \in Addresses, w \in Words :
        users = [u \in Users |->
               IF u \in us THEN [life |-> "live", email |-> e, verified |-> TRUE,
                                 active |-> TRUE, word |-> w, hash |-> 0]
               ELSE NoUser]
    BY DEF Init
  <2>1. 0 \in Hashes /\ 0 \in 0 .. MaxStarts
    BY AccountsAssumption DEF Hashes
  <2>2. /\ users \in [Users -> User]
        /\ \A u \in Users : /\ users[u].life = "live" <=> u \in us
                            /\ u \in us => users[u].email = e
    BY <2>1 DEF User, Lives, NoUser
  <2>3. \A u, v \in us : u = v
    OBVIOUS
  <2>4. QED
    BY <2>1, <2>2, <2>3, AccountsAssumption DEF Init, TypeOK, Live, User, Links
<1>2. TypeOK /\ [Next]_vars => TypeOK'
  BY RowsKeepTypes, RequestsKeepTypes, CodesKeepTypes, RestKeepsTypes, BoundsKeepTypes
  DEF TypeOK, TypesOfRows, TypesOfRequests
<1>3. QED
  BY <1>1, <1>2, PTL DEF Spec

-----------------------------------------------------------------------------
(* Addresses that count as verified.                                         *)

\* A user of whom a request is about to write was there when it began.
UsersThere ==
    \A q \in Requests : request[q] \in Writing => users[request[q].user].life # "unused"

LEMMA UsersStayThere ==
    ASSUME TypeOK, UsersThere, [Next]_vars
    PROVE  UsersThere' /\ \A u \in Users : users[u].life # "unused" => users'[u].life # "unused"
<1> DEFINE Stay == \A u \in Users : users[u].life # "unused" => users'[u].life # "unused"
           Old == \A q \in Requests : request'[q] \in Writing =>
                     \/ request'[q].user = request[q].user /\ request[q] \in Writing
                     \/ users[request'[q].user].life # "unused"
<1>1. Stay
  <2>1. CASE users' = users
    BY <2>1
  <2>2. ASSUME NEW q \in Requests, NEW u \in Users, Insert(q, u)
        PROVE  Stay
    BY <2>2 DEF Insert, TypeOK
  <2>3. ASSUME NEW q \in Requests, Confirm(q) \/ Save(q)
        PROVE  Stay
    <3>1. /\ request[q].user \in Users /\ Written(q) \in User
          /\ Written(q).life = users[request[q].user].life
      BY <2>3, StepForm, WrittenType DEF Confirm, Save, Writing
    <3>2. QED
      BY <2>3, <3>1 DEF Confirm, Save, TypeOK, User
  <2>4. ASSUME NEW q \in Requests, Store(q)
        PROVE  Stay
    BY <2>4 DEF Store, TypeOK, User
  <2>5. ASSUME NEW u \in Users, DeleteUser(u)
        PROVE  Stay
    BY <2>5 DEF DeleteUser, TypeOK, User
  <2>6. QED
    BY <2>1, <2>2, <2>3, <2>4, <2>5, StepKinds
    DEF Kinds, Kept, Minor, Show, Resets, ResetPassword, Changes, Upgrades, Stores, Edit,
        Nothing, tables
<1>2. Old
  <2>1. CASE request' = request
    BY <2>1
  <2>2. ASSUME NEW q \in Requests, NEW r, request' = [request EXCEPT ![q] = r],
               r \in Writing => users[r.user].life # "unused"
        PROVE  Old
    BY <2>2 DEF TypeOK
  <2>3. \A r \in Creating \cup Sending \cup {Idle} : r \notin Writing
    BY DEF Creating, Sending, Idle, Writing
  <2>4. ASSUME NEW q \in Requests, NEW u \in Users, Insert(q, u)
        PROVE  Old
    <3> DEFINE r == [request[q] EXCEPT !.step = "greet", !.user = u]
    <3>1. r \in Creating
      BY <2>4, StepForm DEF Insert, Creating
    <3>2. request' = [request EXCEPT ![q] = r]
      BY <2>4 DEF Insert
    <3> HIDE DEF r
    <3>3. QED
      BY <2>2, <2>3, <3>1, <3>2
  <2>5. ASSUME NEW q \in Requests, NEW c \in codes, Show(q, c)
        PROVE  Old
    <3>1. users[c.user].life = "live"
      BY DEF TypeOK
    <3>2. PICK set : request' = [request EXCEPT ![q] =
                        [step |-> "confirm", user |-> c.user, by |-> None, set |-> set]]
      BY <2>5 DEF Show, Goes
    <3>3. QED
      BY <2>2, <3>1, <3>2
  <2>6. ASSUME NEW q \in Requests, NEW u \in Live(users), NEW step, NEW w, NEW by,
               Stores(q, step, u, w, by)
        PROVE  Old
    BY <2>2, <2>6 DEF Stores, Goes, Live
  <2>7. ASSUME NEW q \in Requests, NEW u \in Users, NEW new \in Edits(u), Edit(q, u, new)
        PROVE  Old
    <3>1. PICK set : request' = [request EXCEPT ![q] =
                        [step |-> "save", user |-> u, set |-> set, by |-> None]]
      BY <2>7 DEF Edit, Goes
    <3>2. QED
      BY <2>2, <2>7, <3>1 DEF Edit, Live
  <2>8. ASSUME NEW q \in Requests, Confirm(q)
        PROVE  Old
    <3> DEFINE r == [step |-> "purge", user |-> request[q].user, email |-> None]
    <3>1. r \notin Writing
      BY DEF Writing
    <3>2. request' = [request EXCEPT ![q] = r]
      BY <2>8 DEF Confirm, Goes
    <3> HIDE DEF r
    <3>3. QED
      BY <2>2, <3>1, <3>2
  <2>9. ASSUME NEW q \in Requests, Store(q) \/ Save(q)
        PROVE  Old
    BY <2>2, <2>3, <2>9 DEF Store, Save, Ends, Goes
  <2>10. QED
    <3>1. ASSUME NEW q \in Requests, NEW r \in Creating \cup Sending \cup {Idle}, Minor(q, r)
          PROVE  Old
      BY <2>2, <2>3, <3>1 DEF Minor
    <3>2. ASSUME NEW q \in Requests, NEW w \in Words, NEW k \in links, Resets(q, k, w)
          PROVE  Old
      BY <2>6, <3>2 DEF Resets, ResetPassword
    <3>3. ASSUME NEW q \in Requests, NEW u \in Users, NEW w \in Words,
                 Changes(q, u, w) \/ Upgrades(q, u, w)
          PROVE  Old
      BY <2>6, <3>3 DEF Changes, Upgrades
    <3>4. QED
      BY <2>1, <2>4, <2>5, <2>7, <2>8, <2>9, <3>1, <3>2, <3>3, StepKinds DEF Kinds, DeleteUser
<1>3. QED
  <2> SUFFICES ASSUME NEW q \in Requests, request'[q] \in Writing
               PROVE  users'[request'[q].user].life # "unused"
    BY <1>1 DEF UsersThere
  <2>1. request'[q].user \in Users
    BY DEF Writing
  <2>2. QED
    BY <1>1, <1>2, <2>1 DEF UsersThere

(* A request that is about to confirm vouches for an address that was        *)
(* proved: the one it will store or, if the row had it already, the one that *)
(* the row has now, which only another proof can have put there.             *)
Vouches(q) ==
    At(q, "confirm") =>
        LET u == request[q].user
        IN  <<u, Filled(u, request[q].set, "email")>> \in proved
Vouched == VerifiedMeansProved /\ UsersThere /\ \A q \in Requests : Vouches(q)

LEMMA VouchedKept ==
    ASSUME TypeOK, TypeOK', Vouched, [Next]_vars
    PROVE  Vouched'
<1>1. UsersThere' /\ UsersThere
  BY UsersStayThere DEF Vouched
<1>2. \A u \in Users : users[u].life = "live" /\ users[u].verified => <<u, users[u].email>> \in proved
  BY DEF Vouched, VerifiedMeansProved, Live, TypeOK
<1> DEFINE Verified(us, p) == \A u \in Users : us[u].life = "live" /\ us[u].verified => <<u, us[u].email>> \in p
           Confirms == \A q \in Requests : Vouches(q)
<1>3. SUFFICES Verified(users', proved') /\ Confirms'
  BY <1>1 DEF Vouched, VerifiedMeansProved, Live, TypeOK
<1>4. Verified(users, proved) /\ Confirms
  BY <1>2 DEF Vouched
\* The requests that are as before go on vouching.
<1>5. ASSUME NEW x \in Requests, request'[x] = request[x], proved \subseteq proved',
             At(x, "confirm") =>
                 \/ users'[request[x].user].email = users[request[x].user].email
                 \/ <<request[x].user, users'[request[x].user].email>> \in proved'
      PROVE  Vouches(x)'
  BY <1>4, <1>5 DEF Vouches, Filled, At
<1>6. ASSUME NEW q \in Requests, NEW r, request' = [request EXCEPT ![q] = r], r.step # "confirm",
             users' = users, proved' = proved
      PROVE  Verified(users', proved') /\ Confirms'
  <2>1. Vouches(q)'
    BY <1>6 DEF Vouches, At, TypeOK
  <2>2. \A x \in Requests \ {q} : request'[x] = request[x]
    BY <1>6 DEF TypeOK
  <2>3. QED
    BY <1>4, <1>5, <1>6, <2>1, <2>2
<1>7. ASSUME NEW q \in Requests, NEW u \in Users, Insert(q, u)
      PROVE  Verified(users', proved') /\ Confirms'
  <2> DEFINE this == [request[q].new EXCEPT !.hash = hashes + 1]
  <2>1. users' = [users EXCEPT ![u] = this]
        /\ proved' = IF this.verified THEN proved \cup {<<u, this.email>>} ELSE proved
    BY <1>7 DEF Insert
  <2> HIDE DEF this
  <2>2. Verified(users', proved')
    BY <1>4, <2>1 DEF TypeOK
  <2>3. /\ request'[q].step = "greet"
        /\ \A x \in Requests \ {q} : request'[x] = request[x]
    BY <1>7, StepForm DEF Insert, TypeOK, Creating
  <2>4. \A x \in Requests : At(x, "confirm") => users'[request[x].user] = users[request[x].user]
    BY <1>1, <1>7, <2>1, StepForm DEF UsersThere, Insert, TypeOK, Writing
  <2>5. QED
    BY <1>5, <2>1, <2>2, <2>3, <2>4 DEF Vouches, At
<1>8. ASSUME NEW q \in Requests, NEW c \in codes, Show(q, c)
      PROVE  Verified(users', proved') /\ Confirms'
  <2> DEFINE u == c.user
             new == [users[u] EXCEPT !.email = c.email, !.verified = TRUE]
             r == [step |-> "confirm", user |-> u, by |-> None, set |-> Differing(u, new)]
  <2>1. /\ users' = users /\ proved' = proved \cup {<<u, c.email>>}
        /\ request' = [request EXCEPT ![q] = r]
    BY <1>8 DEF Show, Goes, tables
  <2>2. Verified(users', proved')
    BY <1>4, <2>1
  <2>3. u \in Users /\ c.email \in Addresses
    BY DEF TypeOK, Code
  <2>4. new.email = c.email
    BY <2>3 DEF TypeOK, User
  <2>5. Filled(u, Differing(u, new), "email") = c.email
    BY <2>3, <2>4, AccountsAssumption DEF Filled, Differing
  <2>6. request'[q] = r /\ \A x \in Requests \ {q} : request'[x] = request[x]
    BY <2>1 DEF TypeOK
  <2> HIDE DEF new
  <2>7. Vouches(q)'
    BY <2>1, <2>5, <2>6 DEF Vouches, At, Filled
  <2>8. QED
    BY <1>5, <2>1, <2>2, <2>6, <2>7
<1>9. ASSUME NEW q \in Requests, Confirm(q) \/ Save(q)
      PROVE  Verified(users', proved') /\ Confirms'
  <2> DEFINE u == request[q].user
             set == request[q].set
             e == Filled(u, set, "email")
             v == Filled(u, set, "verified")
  <2>1. u \in Users /\ Written(q).email = e /\ Written(q).verified = v /\ Written(q) \in User
    BY <1>9, StepForm, WrittenType DEF Confirm, Save, Writing
  <2>2. \A x \in Users \ {u} : users'[x] = users[x]
    BY <1>9 DEF Confirm, Save, TypeOK
  <2>3. users'[u].email = e /\ users'[u].verified = v /\ users[u].life = "live"
    BY <1>9, <2>1 DEF Confirm, Save, TypeOK, User, Stays, Live
  <2>4. proved \subseteq proved'
    BY <1>9 DEF Confirm, Save, history
  <2>5. <<u, e>> \in proved' \/ (Save(q) /\ set.email = None /\ set.verified = None)
    <3>1. CASE Confirm(q)
      BY <1>4, <2>4, <3>1 DEF Vouches, Confirm
    <3>2. CASE Save(q) /\ (set.email # None \/ set.verified # None)
      BY <2>1, <3>2 DEF Save
    <3>3. QED
      BY <1>9, <3>1, <3>2
  <2>6. set.email = None /\ set.verified = None => e = users[u].email /\ v = users[u].verified
    BY DEF Filled
  <2>7. Verified(users', proved')
    BY <1>4, <2>2, <2>3, <2>4, <2>5, <2>6
  <2>8. /\ request'[q].step # "confirm"
        /\ \A x \in Requests \ {q} : request'[x] = request[x]
    BY <1>9 DEF Confirm, Save, Ends, Goes, Idle, TypeOK
  <2>9. Vouches(q)'
    BY <2>8 DEF Vouches, At
  <2>10. \A x \in Requests \ {q} : Vouches(x)'
    <3> SUFFICES ASSUME NEW x \in Requests \ {q}, At(x, "confirm")
                 PROVE  \/ users'[request[x].user].email = users[request[x].user].email
                        \/ <<request[x].user, users'[request[x].user].email>> \in proved'
      BY <1>5, <2>4, <2>8
    <3>1. request[x].user \in Users
      BY StepForm DEF Writing
    <3>2. QED
      BY <2>2, <2>3, <2>5, <2>6, <3>1
  <2>11. QED
    BY <2>7, <2>9, <2>10
<1>10. ASSUME NEW q \in Requests, Store(q)
      PROVE  Verified(users', proved') /\ Confirms'
  <2>1. \A x \in Users : /\ users'[x].life = users[x].life /\ users'[x].email = users[x].email
                         /\ users'[x].verified = users[x].verified
    BY <1>10, StoreWrites
  <2>2. /\ request'[q].step # "confirm" /\ proved' = proved
        /\ \A x \in Requests \ {q} : request'[x] = request[x]
    BY <1>10 DEF Store, Ends, Goes, Idle, TypeOK
  <2>3. \A x \in Requests : At(x, "confirm") => request[x].user \in Users
    BY StepForm DEF Writing
  <2>4. QED
    BY <1>4, <1>5, <2>1, <2>2, <2>3 DEF Vouches, At
<1>11. ASSUME NEW u \in Users, DeleteUser(u)
      PROVE  Verified(users', proved') /\ Confirms'
  <2>1. \A x \in Users : /\ users'[x].email = users[x].email /\ users'[x].verified = users[x].verified
                         /\ users'[x].life = "live" => users[x].life = "live"
    BY <1>11 DEF DeleteUser, TypeOK, User
  <2>2. request' = request /\ proved' = proved
    BY <1>11 DEF DeleteUser, history
  <2>3. \A x \in Requests : At(x, "confirm") => request[x].user \in Users
    BY StepForm DEF Writing
  <2>4. QED
    BY <1>4, <1>5, <2>1, <2>2, <2>3
<1>12. QED
  <2>1. CASE Kept /\ request' = request
    BY <1>4, <1>5, <2>1 DEF Kept
  <2>2. ASSUME NEW q \in Requests, NEW r \in Creating \cup Sending \cup {Idle}, Minor(q, r)
        PROVE  Verified(users', proved') /\ Confirms'
    <3>1. r.step # "confirm"
      BY DEF Creating, Sending, Idle
    <3>2. QED
      BY <1>6, <2>2, <3>1 DEF Minor, Kept
  <2>3. ASSUME NEW q \in Requests, NEW step \in {"store", "upgrade"}, NEW u, NEW w, NEW by,
               Stores(q, step, u, w, by)
        PROVE  Verified(users', proved') /\ Confirms'
    <3> DEFINE r == [step |-> step, user |-> u, by |-> by,
                     set |-> [email |-> None, verified |-> None, active |-> None, word |-> w]]
    <3>1. request' = [request EXCEPT ![q] = r] /\ Kept
      BY <2>3 DEF Stores, Goes, Nothing, tables, history, Kept
    <3>2. r.step # "confirm"
      BY <2>3
    <3> HIDE DEF r
    <3>3. QED
      BY <1>6, <3>1, <3>2 DEF Kept
  <2>4. ASSUME NEW q \in Requests, NEW u \in Users, NEW new \in Edits(u), Edit(q, u, new)
        PROVE  Verified(users', proved') /\ Confirms'
    <3> DEFINE r == [step |-> "save", user |-> u, set |-> Differing(u, new), by |-> None]
    <3>1. request' = [request EXCEPT ![q] = r] /\ Kept
      BY <2>4 DEF Edit, Goes, Nothing, tables, history, Kept
    <3>2. r.step # "confirm"
      OBVIOUS
    <3> HIDE DEF r
    <3>3. QED
      BY <1>6, <3>1, <3>2 DEF Kept
  <2>5. QED
    BY <1>7, <1>8, <1>9, <1>10, <1>11, <2>1, <2>2, <2>3, <2>4, StepKinds
    DEF Kinds, Resets, ResetPassword, Changes, Upgrades

(* UserManager.verify_email: whatever overlaps, a verified address was        *)
(* proved by its user or set by an administrator.                            *)
THEOREM VerifiedIsProved == Spec => []VerifiedMeansProved
<1>1. Init => Vouched
  BY DEF Init, Vouched, VerifiedMeansProved, UsersThere, Vouches, At, Idle, Writing, Live
<1>2. TypeOK /\ TypeOK' /\ Vouched /\ [Next]_vars => Vouched'
  BY VouchedKept
<1>3. Vouched => VerifiedMeansProved
  BY DEF Vouched
<1>4. QED
  BY <1>1, <1>2, <1>3, TypeCorrect, PTL DEF Spec

-----------------------------------------------------------------------------
(* Passwords.                                                                *)

(* A request that will store a password has one, a request that confirms an  *)
(* address has none, and an upgrade stores the password that is the newest,  *)
(* unless the user's is overtaken.                                           *)
Bears(q) ==
    /\ At(q, "store") \/ At(q, "upgrade") => request[q].set.word # None
    /\ At(q, "confirm") => request[q].set.word = None
    /\ At(q, "upgrade") /\ request[q].user \notin overtaken
           => request[q].set.word = newest[request[q].user]
Latest == PasswordIsNewest /\ UsersThere /\ \A q \in Requests : Bears(q)

LEMMA LatestKept ==
    ASSUME TypeOK, TypeOK', Latest, [Next]_vars
    PROVE  Latest'
<1>1. UsersThere' /\ UsersThere
  BY UsersStayThere DEF Latest
<1>2. \A u \in Users : users[u].life = "live" /\ u \notin overtaken => users[u].word = newest[u]
  BY DEF Latest, PasswordIsNewest, Live, TypeOK
<1> DEFINE Newest(us, n, o) == \A u \in Users : us[u].life = "live" /\ u \notin o => us[u].word = n[u]
           Bear == \A q \in Requests : Bears(q)
<1>3. SUFFICES Newest(users', newest', overtaken') /\ Bear'
  BY <1>1 DEF Latest, PasswordIsNewest, Live, TypeOK
<1>4. Newest(users, newest, overtaken) /\ Bear
  BY <1>2 DEF Latest
\* The requests that are as before, unless their user's password was overtaken.
<1>5. ASSUME NEW x \in Requests, request'[x] = request[x], overtaken \subseteq overtaken',
             At(x, "upgrade") => \/ newest'[request[x].user] = newest[request[x].user]
                                 \/ request[x].user \in overtaken'
      PROVE  Bears(x)'
  BY <1>4, <1>5 DEF Bears, At
\* What a request becomes, when nothing else changes.
<1>6. ASSUME NEW q \in Requests, NEW r, request' = [request EXCEPT ![q] = r],
             UNCHANGED <<users, newest, overtaken>>,
             r.step = "confirm" => r.set.word = None,
             r.step = "store" \/ r.step = "upgrade" => r.set.word # None,
             r.step = "upgrade" /\ r.user \notin overtaken => r.set.word = newest[r.user]
      PROVE  Newest(users', newest', overtaken') /\ Bear'
  <2>1. request'[q] = r /\ \A x \in Requests \ {q} : request'[x] = request[x]
    BY <1>6 DEF TypeOK
  <2>2. Bears(q)'
    BY <1>6, <2>1 DEF Bears, At
  <2>3. QED
    BY <1>4, <1>5, <1>6, <2>1, <2>2
<1>7. ASSUME NEW q \in Requests, NEW r \in Creating \cup Sending \cup {Idle}, Minor(q, r)
      PROVE  Newest(users', newest', overtaken') /\ Bear'
  <2>1. r.step # "confirm" /\ r.step # "store" /\ r.step # "upgrade"
    BY DEF Creating, Sending, Idle
  <2>2. QED
    BY <1>6, <1>7, <2>1 DEF Minor, Kept
<1>8. ASSUME NEW q \in Requests, NEW u \in Users, Insert(q, u)
      PROVE  Newest(users', newest', overtaken') /\ Bear'
  <2> DEFINE this == [request[q].new EXCEPT !.hash = hashes + 1]
  <2>1. users' = [users EXCEPT ![u] = this] /\ newest' = [newest EXCEPT ![u] = this.word]
        /\ overtaken' = overtaken
    BY <1>8 DEF Insert
  <2> HIDE DEF this
  <2>2. Newest(users', newest', overtaken')
    BY <1>4, <2>1 DEF TypeOK
  <2>3. /\ request'[q].step = "greet"
        /\ \A x \in Requests \ {q} : request'[x] = request[x]
    BY <1>8, StepForm DEF Insert, TypeOK, Creating
  <2>4. \A x \in Requests : At(x, "upgrade") => newest'[request[x].user] = newest[request[x].user]
    BY <1>1, <1>8, <2>1, StepForm DEF UsersThere, Insert, TypeOK, Writing
  <2>5. Bears(q)'
    BY <2>3 DEF Bears, At
  <2>6. QED
    BY <1>5, <2>1, <2>2, <2>3, <2>4, <2>5
<1>9. ASSUME NEW q \in Requests, NEW c \in codes, Show(q, c)
      PROVE  Newest(users', newest', overtaken') /\ Bear'
  <2> DEFINE u == c.user
             new == [users[u] EXCEPT !.email = c.email, !.verified = TRUE]
             r == [step |-> "confirm", user |-> u, by |-> None, set |-> Differing(u, new)]
  <2>1. /\ request' = [request EXCEPT ![q] = r] /\ UNCHANGED <<users, newest, overtaken>>
    BY <1>9 DEF Show, Goes, tables
  <2>2. new.word = users[u].word
    BY DEF TypeOK, Code, User
  <2> HIDE DEF new
  <2>3. Differing(u, new).word = None
    BY <2>2 DEF Differing
  <2>4. r.step = "confirm" /\ r.set.word = None
    BY <2>3
  <2> HIDE DEF r
  <2>5. QED
    BY <1>6, <2>1, <2>4
<1>10. ASSUME NEW q \in Requests, NEW step \in {"store", "upgrade"}, NEW u \in Users, NEW w \in Words,
              NEW by, Stores(q, step, u, w, by),
              step = "upgrade" /\ u \notin overtaken => w = newest[u]
       PROVE  Newest(users', newest', overtaken') /\ Bear'
  <2> DEFINE r == [step |-> step, user |-> u, by |-> by,
                   set |-> [email |-> None, verified |-> None, active |-> None, word |-> w]]
  <2>1. request' = [request EXCEPT ![q] = r] /\ UNCHANGED <<users, newest, overtaken>>
    BY <1>10 DEF Stores, Goes, Nothing, tables, history
  <2>2. r.step = step /\ r.set.word = w /\ r.user = u /\ w # None
    BY AccountsAssumption
  <2> HIDE DEF r
  <2>3. QED
    BY <1>6, <1>10, <2>1, <2>2
<1>11. ASSUME NEW q \in Requests, NEW u \in Users, NEW new \in Edits(u), Edit(q, u, new)
       PROVE  Newest(users', newest', overtaken') /\ Bear'
  <2> DEFINE r == [step |-> "save", user |-> u, set |-> Differing(u, new), by |-> None]
  <2>1. request' = [request EXCEPT ![q] = r] /\ UNCHANGED <<users, newest, overtaken>>
    BY <1>11 DEF Edit, Goes, Nothing, tables, history
  <2>2. r.step = "save"
    OBVIOUS
  <2> HIDE DEF r
  <2>3. QED
    BY <1>6, <2>1, <2>2
<1>12. ASSUME NEW q \in Requests, Confirm(q)
       PROVE  Newest(users', newest', overtaken') /\ Bear'
  <2> DEFINE u == request[q].user
  <2>1. u \in Users /\ request[q].set.word = None /\ Written(q) \in User
        /\ Written(q).word = Filled(u, request[q].set, "word")
    BY <1>4, <1>12, StepForm, WrittenType DEF Confirm, Writing, Bears
  <2>2. Written(q).word = users[u].word
    BY <2>1 DEF Filled
  <2>3. users' = [users EXCEPT ![u] = Written(q)] /\ UNCHANGED <<newest, overtaken>>
        /\ users[u].life = "live"
    BY <1>12 DEF Confirm, history, Stays, Live
  <2>4. Newest(users', newest', overtaken')
    BY <1>4, <2>1, <2>2, <2>3 DEF TypeOK
  <2>5. /\ request'[q].step = "purge"
        /\ \A x \in Requests \ {q} : request'[x] = request[x]
    BY <1>12 DEF Confirm, Goes, TypeOK
  <2>6. Bears(q)'
    BY <2>5 DEF Bears, At
  <2>7. QED
    BY <1>5, <2>3, <2>4, <2>5, <2>6
\* Whatever stores a password overtakes the upgrades that are due.
<1>13. ASSUME NEW q \in Requests, request' = [request EXCEPT ![q] = Idle],
              NEW u \in Users, NEW w, newest' = [newest EXCEPT ![u] = w],
              overtaken' = IF Overtakes(q, u) THEN overtaken \cup {u} ELSE overtaken
       PROVE  Bear'
  <2>1. request'[q].step = "idle" /\ \A x \in Requests \ {q} : request'[x] = request[x]
    BY <1>13 DEF Idle, TypeOK
  <2>2. \A x \in Requests \ {q} :
            At(x, "upgrade") => \/ newest'[request[x].user] = newest[request[x].user]
                                \/ request[x].user \in overtaken'
    BY <1>4, <1>13 DEF Overtakes, Bears, TypeOK
  <2>3. Bears(q)'
    BY <2>1 DEF Bears, At
  <2>4. QED
    BY <1>5, <1>13, <2>1, <2>2, <2>3
<1>14. ASSUME NEW q \in Requests, Store(q)
       PROVE  Newest(users', newest', overtaken') /\ Bear'
  <2> DEFINE u == request[q].user
             w == request[q].set.word
  <2>1. u \in Users /\ w # None /\ request' = [request EXCEPT ![q] = Idle]
    BY <1>4, <1>14, StepForm DEF Store, Writing, Bears, Ends, Goes
  <2>2. /\ \A x \in Users \ {u} : users'[x] = users[x]
        /\ users'[u].word = w
        /\ overtaken' = IF Overtakes(q, u) THEN overtaken \cup {u} ELSE overtaken
    BY <1>14, <2>1, StoreWrites DEF Store
  <2>3. CASE At(q, "store")
    <3>1. newest' = [newest EXCEPT ![u] = w]
      BY <1>14, <2>3 DEF Store, At
    <3>2. Newest(users', newest', overtaken')
      BY <1>4, <2>1, <2>2, <3>1 DEF TypeOK
    <3>3. QED
      BY <1>13, <2>1, <2>2, <3>1, <3>2
  <2>4. CASE At(q, "upgrade")
    <3>1. newest' = newest /\ (u \notin overtaken => w = newest[u])
      BY <1>4, <1>14, <2>4 DEF Store, Bears
    <3>2. newest' = [newest EXCEPT ![u] = newest[u]]
      BY <3>1 DEF TypeOK
    <3>3. Newest(users', newest', overtaken')
      BY <1>4, <2>1, <2>2, <3>1
    <3>4. QED
      BY <1>13, <2>1, <2>2, <3>2, <3>3
  <2>5. QED
    BY <1>14, <2>3, <2>4 DEF Store
<1>15. ASSUME NEW q \in Requests, Save(q)
       PROVE  Newest(users', newest', overtaken') /\ Bear'
  <2> DEFINE u == request[q].user
             w == request[q].set.word
  <2>1. /\ u \in Users /\ request' = [request EXCEPT ![q] = Idle]
        /\ Written(q) \in User /\ Written(q).word = Filled(u, request[q].set, "word")
        /\ users[u].life = "live"
    BY <1>15, StepForm, WrittenType DEF Save, Writing, Ends, Goes, Stays, Live
  <2>2. Filled(u, request[q].set, "word") = IF w = None THEN users[u].word ELSE w
    BY DEF Filled
  <2>3. /\ \A x \in Users \ {u} : users'[x] = users[x]
        /\ users'[u].word = IF w = None THEN users[u].word ELSE w
    BY <1>15, <2>1, <2>2 DEF Save, TypeOK, User
  <2>4. CASE w = None
    <3>1. newest' = newest /\ overtaken' = overtaken
      BY <1>15, <2>4 DEF Save
    <3>2. Newest(users', newest', overtaken')
      BY <1>4, <2>1, <2>3, <2>4, <3>1
    <3>3. request'[q].step = "idle" /\ \A x \in Requests \ {q} : request'[x] = request[x]
      BY <2>1 DEF Idle, TypeOK
    <3>4. Bears(q)'
      BY <3>3 DEF Bears, At
    <3>5. QED
      BY <1>5, <3>1, <3>2, <3>3, <3>4
  <2>5. CASE w # None
    <3>1. /\ newest' = [newest EXCEPT ![u] = w]
          /\ overtaken' = IF Overtakes(q, u) THEN overtaken \cup {u} ELSE overtaken
      BY <1>15, <2>5 DEF Save
    <3>2. Newest(users', newest', overtaken')
      BY <1>4, <2>1, <2>3, <2>5, <3>1 DEF TypeOK
    <3>3. QED
      BY <1>13, <2>1, <3>1, <3>2
  <2>6. QED
    BY <2>4, <2>5
<1>16. ASSUME NEW u \in Users, DeleteUser(u)
       PROVE  Newest(users', newest', overtaken') /\ Bear'
  <2>1. \A x \in Users : /\ users'[x].word = users[x].word
                         /\ users'[x].life = "live" => users[x].life = "live"
    BY <1>16 DEF DeleteUser, TypeOK, User
  <2>2. UNCHANGED <<request, newest, overtaken>>
    BY <1>16 DEF DeleteUser, history
  <2>3. QED
    BY <1>4, <1>5, <2>1, <2>2
<1>17. QED
  <2>1. CASE Kept /\ request' = request
    BY <1>4, <1>5, <2>1 DEF Kept
  <2>2. ASSUME NEW q \in Requests, NEW w \in Words, NEW k \in links, Resets(q, k, w)
        PROVE  Newest(users', newest', overtaken') /\ Bear'
    BY <1>10, <2>2 DEF Resets, ResetPassword, Live, TypeOK
  <2>3. ASSUME NEW q \in Requests, NEW u \in Users, NEW w \in Words,
               Changes(q, u, w) \/ Upgrades(q, u, w)
        PROVE  Newest(users', newest', overtaken') /\ Bear'
    BY <1>4, <1>10, <2>3 DEF Changes, Upgrades, Live
  <2>4. QED
    BY <1>7, <1>8, <1>9, <1>11, <1>12, <1>14, <1>15, <1>16, <2>1, <2>2, <2>3, StepKinds DEF Kinds

(* UserManager.authenticate, reset_password, update: the password of a user  *)
(* is the one set last, unless a write of another was due when it was.       *)
THEOREM NewestIsStored == Spec => []PasswordIsNewest
<1>1. Init => Latest
  BY DEF Init, Latest, PasswordIsNewest, UsersThere, Bears, At, Idle, Writing, Live
<1>2. TypeOK /\ TypeOK' /\ Latest /\ [Next]_vars => Latest'
  BY LatestKept
<1>3. Latest => PasswordIsNewest
  BY DEF Latest
<1>4. QED
  BY <1>1, <1>2, <1>3, TypeCorrect, PTL DEF Spec

-----------------------------------------------------------------------------
(* Reset links.                                                              *)

\* The requests that are about to store a password for the link k.
By(k) == {q \in Requests : (At(q, "store") \/ At(q, "upgrade")) /\ request[q].by = k}

(* Hashes are numbered as they are stored, so a link that was used names one *)
(* that is no longer current: no new request will be admitted for it.        *)
HashesAreCounted == \A u \in Users : users[u].hash <= hashes
UsedIsOld == \A k \in Links : uses[k] = 0 \/ k[2] < users[k[1]].hash
ByItsLink(q) ==
    \A k \in Links : q \in By(k) => k[1] = request[q].user /\ k[2] <= users[k[1]].hash
Bounded == \A k \in Links : uses[k] + Cardinality(By(k)) <= Cardinality(Requests)
Spending == HashesAreCounted /\ UsedIsOld /\ Bounded /\ \A q \in Requests : ByItsLink(q)

LEMMA ByIsFinite ==
    ASSUME NEW k
    PROVE  /\ IsFiniteSet(Requests) /\ IsFiniteSet(By(k))
           /\ Cardinality(Requests) \in Nat /\ Cardinality(By(k)) \in Nat
           /\ Cardinality(By(k)) <= Cardinality(Requests)
<1>1. By(k) \subseteq Requests
  BY DEF By
<1>2. QED
  BY <1>1, AccountsAssumption, FS_CardinalityType, FS_Subset

LEMMA HashesGrow ==
    ASSUME TypeOK, TypeOK', HashesAreCounted, [Next]_vars
    PROVE  /\ HashesAreCounted'
           /\ \A u \in Users : users[u].hash <= users'[u].hash
<1> DEFINE Grow == /\ HashesAreCounted'
                   /\ \A u \in Users : users[u].hash <= users'[u].hash
<1>1. hashes \in Nat /\ \A u \in Users : users[u].hash \in Nat /\ users[u].hash <= hashes
  BY DEF TypeOK, User, Hashes, HashesAreCounted
<1>2. CASE users' = users /\ hashes' = hashes
  BY <1>1, <1>2 DEF HashesAreCounted
<1>3. ASSUME NEW q \in Requests, NEW u \in Users, Insert(q, u)
      PROVE  Grow
  <2> DEFINE this == [request[q].new EXCEPT !.hash = hashes + 1]
  <2>1. request[q].new \in NewUser
    BY <1>3, StepForm DEF Insert, Creating
  <2>2. this.hash = hashes + 1
    BY <2>1 DEF NewUser
  <2>3. users' = [users EXCEPT ![u] = this] /\ hashes' = hashes + 1
    BY <1>3 DEF Insert
  <2> HIDE DEF this
  <2>4. QED
    BY <1>1, <2>2, <2>3 DEF TypeOK, HashesAreCounted
<1>4. ASSUME NEW q \in Requests, Store(q)
      PROVE  Grow
  <2>1. /\ \A x \in Users : users'[x].hash \in {users[x].hash, hashes + 1}
        /\ hashes' = hashes + 1
    BY <1>4, StoreWrites DEF Store
  <2>2. QED
    BY <1>1, <2>1 DEF HashesAreCounted
<1>5. ASSUME NEW q \in Requests, Save(q)
      PROVE  Grow
  <2> DEFINE u == request[q].user
             word == request[q].set.word # None
  <2>1. Written(q) \in User /\ Written(q).hash = users[u].hash /\ u \in Users
    BY <1>5, StepForm, WrittenType DEF Save, Writing
  <2>2. /\ users' = [users EXCEPT ![u] = [Written(q) EXCEPT !.hash = IF word THEN hashes + 1 ELSE @]]
        /\ hashes' = IF word THEN hashes + 1 ELSE hashes
    BY <1>5 DEF Save
  <2>3. \A x \in Users : \/ users'[x].hash = users[x].hash
                         \/ word /\ users'[x].hash = hashes + 1
    BY <2>1, <2>2 DEF TypeOK, User
  <2> HIDE DEF word
  <2>4. QED
    BY <1>1, <2>2, <2>3 DEF HashesAreCounted
<1>6. ASSUME NEW q \in Requests, Confirm(q)
      PROVE  Grow
  <2>1. Written(q).hash = users[request[q].user].hash
    BY <1>6, StepForm, WrittenType DEF Confirm, Writing
  <2>2. users' = [users EXCEPT ![request[q].user] = Written(q)] /\ hashes' = hashes
    BY <1>6 DEF Confirm
  <2>3. \A x \in Users : users'[x].hash = users[x].hash
    BY <2>1, <2>2 DEF TypeOK
  <2>4. QED
    BY <1>1, <2>2, <2>3 DEF HashesAreCounted
<1>7. ASSUME NEW u \in Users, DeleteUser(u)
      PROVE  Grow
  <2>1. hashes' = hashes /\ \A x \in Users : users'[x].hash = users[x].hash
    BY <1>7 DEF DeleteUser, TypeOK, User
  <2>2. QED
    BY <1>1, <2>1 DEF HashesAreCounted
<1>8. QED
  BY <1>2, <1>3, <1>4, <1>5, <1>6, <1>7, StepKinds
  DEF Kinds, Kept, Minor, Show, tables, Resets, ResetPassword, Changes, Upgrades, Stores, Edit, Nothing

LEMMA SpendingKept ==
    ASSUME TypeOK, TypeOK', Spending, [Next]_vars
    PROVE  Spending'
<1>1. /\ HashesAreCounted'
      /\ \A u \in Users : /\ users[u].hash \in Nat /\ users'[u].hash \in Nat
                          /\ users[u].hash <= users'[u].hash
  BY HashesGrow DEF Spending, TypeOK, User, Hashes
<1>2. \A k \in Links : k[1] \in Users /\ k[2] \in Nat /\ uses[k] \in Nat /\ k # None
  BY AccountsAssumption DEF Links, Hashes, TypeOK
<1> DEFINE Rest == UsedIsOld' /\ Bounded' /\ \A q \in Requests : ByItsLink(q)'
<1>3. SUFFICES Rest
  BY <1>1 DEF Spending
\* A step after which no more requests go by a link than before, and each as before.
<1>4. ASSUME uses' = uses,
             \A q \in Requests : \/ request'[q] = request[q]
                                 \/ \A k \in Links : q \notin By(k)'
      PROVE  Rest
  <2>1. ASSUME NEW k \in Links
        PROVE  /\ By(k)' \subseteq By(k)
               /\ \A q \in By(k)' : request'[q].user = request[q].user
    BY <1>4, <2>1 DEF By, At
  <2>2. Bounded'
    <3> SUFFICES ASSUME NEW k \in Links
                 PROVE  uses[k] + Cardinality(By(k)') <= Cardinality(Requests)
      BY <1>4 DEF Bounded
    <3>1. Cardinality(By(k)') <= Cardinality(By(k)) /\ Cardinality(By(k)') \in Nat
      BY <2>1, ByIsFinite, FS_Subset, FS_CardinalityType
    <3>2. uses[k] + Cardinality(By(k)) <= Cardinality(Requests)
      BY DEF Spending, Bounded
    <3>3. QED
      BY <1>2, <3>1, <3>2, ByIsFinite
  <2>3. UsedIsOld'
    BY <1>1, <1>2, <1>4 DEF Spending, UsedIsOld
  <2>4. ASSUME NEW q \in Requests
        PROVE  ByItsLink(q)'
    BY <1>1, <1>2, <2>1 DEF Spending, ByItsLink
  <2>5. QED
    BY <2>2, <2>3, <2>4
\* In particular one that makes a request what goes by no link.
<1>5. ASSUME NEW q \in Requests, NEW r, request' = [request EXCEPT ![q] = r], uses' = uses,
             r.step \notin {"store", "upgrade"} \/ r.by = None
      PROVE  Rest
  <2>1. request'[q] = r /\ \A x \in Requests \ {q} : request'[x] = request[x]
    BY <1>5 DEF TypeOK
  <2>2. \A k \in Links : q \notin By(k)'
    BY <1>2, <1>5, <2>1 DEF By, At
  <2>3. QED
    BY <1>4, <1>5, <2>1, <2>2
<1>6. ASSUME NEW q \in Requests, NEW r \in Creating \cup Sending \cup {Idle}, Minor(q, r)
      PROVE  Rest
  <2>1. r.step \notin {"store", "upgrade"}
    BY DEF Creating, Sending, Idle
  <2>2. QED
    BY <1>5, <1>6, <2>1 DEF Minor, Kept
<1>7. ASSUME NEW q \in Requests, NEW u \in Users, Insert(q, u)
      PROVE  Rest
  <2> DEFINE r == [request[q] EXCEPT !.step = "greet", !.user = u]
  <2>1. r.step = "greet"
    BY <1>7, StepForm DEF Insert, Creating
  <2>2. request' = [request EXCEPT ![q] = r] /\ uses' = uses
    BY <1>7 DEF Insert
  <2> HIDE DEF r
  <2>3. QED
    BY <1>5, <2>1, <2>2
<1>8. ASSUME NEW q \in Requests, NEW c \in codes, Show(q, c)
      PROVE  Rest
  <2> DEFINE r == [step |-> "confirm", user |-> c.user, by |-> None, set |->
                   Differing(c.user, [users[c.user] EXCEPT !.email = c.email, !.verified = TRUE])]
  <2>1. request' = [request EXCEPT ![q] = r] /\ uses' = uses
    BY <1>8 DEF Show, Goes
  <2>2. r.step = "confirm"
    OBVIOUS
  <2> HIDE DEF r
  <2>3. QED
    BY <1>5, <2>1, <2>2
<1>9. ASSUME NEW q \in Requests, NEW step, NEW u, NEW w, Stores(q, step, u, w, None)
      PROVE  Rest
  <2> DEFINE r == [step |-> step, user |-> u, by |-> None,
                   set |-> [email |-> None, verified |-> None, active |-> None, word |-> w]]
  <2>1. request' = [request EXCEPT ![q] = r] /\ uses' = uses /\ r.by = None
    BY <1>9 DEF Stores, Goes, Nothing, history
  <2> HIDE DEF r
  <2>2. QED
    BY <1>5, <2>1
\* The link is that of the hash as it is, so it was not used before.
<1>10. ASSUME NEW q \in Requests, NEW w \in Words, NEW k \in links, Resets(q, k, w)
       PROVE  Rest
  <2> DEFINE u == k[1]
             r == [step |-> "store", user |-> u, by |-> k,
                   set |-> [email |-> None, verified |-> None, active |-> None, word |-> w]]
  <2>1. /\ request' = [request EXCEPT ![q] = r]
        /\ users' = users /\ uses' = uses
        /\ k = <<u, users[u].hash>> /\ k \in Links
    BY <1>10 DEF Resets, ResetPassword, Stores, Goes, Nothing, tables, history, LinkFor, TypeOK
  <2>2. request'[q] = r /\ \A x \in Requests \ {q} : request'[x] = request[x]
    BY <2>1 DEF TypeOK
  <2>3. uses[k] = 0
    BY <1>1, <1>2, <2>1 DEF Spending, UsedIsOld
  <2>4. ASSUME NEW j \in Links, j # k
        PROVE  By(j)' \subseteq By(j) /\ q \notin By(j)'
    BY <2>2, <2>4 DEF By, At
  <2>5. Bounded'
    <3> SUFFICES ASSUME NEW j \in Links
                 PROVE  uses[j] + Cardinality(By(j)') <= Cardinality(Requests)
      BY <2>1 DEF Bounded
    <3>1. CASE j = k
      <4>1. By(j)' \subseteq Requests
        BY DEF By
      <4>2. Cardinality(By(j)') <= Cardinality(Requests) /\ Cardinality(By(j)') \in Nat
        BY <4>1, ByIsFinite, FS_Subset, FS_CardinalityType
      <4>3. QED
        BY <2>3, <3>1, <4>2
    <3>2. CASE j # k
      <4>1. Cardinality(By(j)') <= Cardinality(By(j)) /\ Cardinality(By(j)') \in Nat
        BY <2>4, <3>2, ByIsFinite, FS_Subset, FS_CardinalityType
      <4>2. uses[j] + Cardinality(By(j)) <= Cardinality(Requests)
        BY DEF Spending, Bounded
      <4>3. QED
        BY <1>2, <4>1, <4>2, ByIsFinite
    <3>3. QED
      BY <3>1, <3>2
  <2>6. UsedIsOld'
    BY <2>1 DEF Spending, UsedIsOld
  <2>7. ASSUME NEW x \in Requests, NEW j \in Links, x \in By(j)'
        PROVE  j[1] = request'[x].user /\ j[2] <= users[j[1]].hash
    <3>1. CASE x = q
      <4>1. j = k
        BY <2>4, <2>7, <3>1
      <4>2. j[1] = u /\ j[2] = users[u].hash /\ request'[x].user = u
        BY <2>1, <2>2, <3>1, <4>1
      <4>3. QED
        BY <1>1, <1>2, <4>2
    <3>2. CASE x # q
      BY <2>2, <2>7, <3>2 DEF Spending, ByItsLink, By, At
    <3>3. QED
      BY <3>1, <3>2
  <2>8. QED
    BY <2>1, <2>5, <2>6, <2>7 DEF ByItsLink
<1>11. ASSUME NEW q \in Requests, NEW u \in Users, NEW new \in Edits(u), Edit(q, u, new)
       PROVE  Rest
  <2> DEFINE r == [step |-> "save", user |-> u, set |-> Differing(u, new), by |-> None]
  <2>1. request' = [request EXCEPT ![q] = r] /\ uses' = uses
    BY <1>11 DEF Edit, Goes, Nothing, history
  <2>2. r.step = "save"
    OBVIOUS
  <2> HIDE DEF r
  <2>3. QED
    BY <1>5, <2>1, <2>2
<1>12. ASSUME NEW q \in Requests, Confirm(q)
       PROVE  Rest
  <2> DEFINE r == [step |-> "purge", user |-> request[q].user, email |-> None]
  <2>1. request' = [request EXCEPT ![q] = r] /\ uses' = uses
    BY <1>12 DEF Confirm, Goes, history
  <2>2. r.step = "purge"
    OBVIOUS
  <2> HIDE DEF r
  <2>3. QED
    BY <1>5, <2>1, <2>2
<1>13. ASSUME NEW q \in Requests, Save(q)
       PROVE  Rest
  <2>1. request' = [request EXCEPT ![q] = Idle] /\ uses' = uses /\ Idle.step = "idle"
    BY <1>13 DEF Save, Ends, Goes, Idle
  <2>2. QED
    BY <1>5, <2>1
\* One request less goes by the link, and the hash it names is replaced.
<1>14. ASSUME NEW q \in Requests, Store(q)
       PROVE  Rest
  <2> DEFINE u == request[q].user
             k == request[q].by
  <2>1. /\ request' = [request EXCEPT ![q] = Idle]
        /\ u \in Users /\ k \in Links \cup {None}
        /\ uses' = IF k = None THEN uses ELSE [uses EXCEPT ![k] = @ + 1]
    BY <1>14, StepForm DEF Store, Ends, Goes, Writing
  <2>2. CASE k = None
    BY <1>5, <2>1, <2>2 DEF Idle
  <2>3. CASE k # None
    <3>1. k \in Links /\ q \in By(k)
      BY <1>14, <2>1, <2>3 DEF Store, By
    <3>2. k[1] = u /\ users[u].hash <= hashes /\ k[2] <= users[u].hash
      BY <2>1, <3>1 DEF Spending, ByItsLink, HashesAreCounted
    <3>3. users'[u].hash = hashes + 1 /\ hashes \in Nat
      BY <1>14, <2>1, StoreWrites DEF TypeOK, Hashes
    <3>4. request'[q] = Idle /\ \A x \in Requests \ {q} : request'[x] = request[x]
      BY <2>1 DEF TypeOK
    <3>5. \A j \in Links : By(j)' \subseteq By(j) \ {q}
      BY <3>4 DEF By, At, Idle
    <3>6. Bounded'
      <4> SUFFICES ASSUME NEW j \in Links
                   PROVE  uses'[j] + Cardinality(By(j)') <= Cardinality(Requests)
        BY DEF Bounded
      <4>1. uses[j] + Cardinality(By(j)) <= Cardinality(Requests)
        BY DEF Spending, Bounded
      <4>2. CASE j = k
        <5>1. By(j)' \subseteq By(j) \ {q} /\ q \in By(j)
          BY <3>1, <3>5, <4>2
        <5>2. /\ IsFiniteSet(By(j) \ {q})
              /\ Cardinality(By(j) \ {q}) = Cardinality(By(j)) - 1
          BY <5>1, ByIsFinite, FS_RemoveElement
        <5>3. Cardinality(By(j)') <= Cardinality(By(j) \ {q}) /\ Cardinality(By(j)') \in Nat
          BY <5>1, <5>2, FS_Subset, FS_CardinalityType
        <5>4. uses'[j] = uses[j] + 1
          BY <2>1, <2>3, <3>1, <4>2 DEF TypeOK
        <5>5. QED
          BY <1>2, <4>1, <5>2, <5>3, <5>4, ByIsFinite
      <4>3. CASE j # k
        <5>1. Cardinality(By(j)') <= Cardinality(By(j)) /\ Cardinality(By(j)') \in Nat
          BY <3>5, ByIsFinite, FS_Subset, FS_CardinalityType
        <5>2. uses'[j] = uses[j]
          BY <2>1, <2>3, <4>3 DEF TypeOK
        <5>3. QED
          BY <1>2, <4>1, <5>1, <5>2, ByIsFinite
      <4>4. QED
        BY <4>2, <4>3
    <3>7. UsedIsOld'
      <4> SUFFICES ASSUME NEW j \in Links
                   PROVE  uses'[j] = 0 \/ j[2] < users'[j[1]].hash
        BY DEF UsedIsOld
      <4>1. CASE j = k
        BY <1>1, <1>2, <2>1, <3>1, <3>2, <3>3, <4>1
      <4>2. CASE j # k
        <5>1. uses'[j] = uses[j]
          BY <2>1, <2>3, <4>2 DEF TypeOK
        <5>2. QED
          BY <1>1, <1>2, <5>1 DEF Spending, UsedIsOld
      <4>3. QED
        BY <4>1, <4>2
    <3>8. ASSUME NEW x \in Requests
          PROVE  ByItsLink(x)'
      BY <1>1, <1>2, <3>4, <3>5 DEF Spending, ByItsLink
    <3>9. QED
      BY <3>6, <3>7, <3>8
  <2>4. QED
    BY <2>2, <2>3
<1>15. ASSUME NEW u \in Users, DeleteUser(u)
       PROVE  Rest
  <2>1. request' = request /\ uses' = uses
    BY <1>15 DEF DeleteUser, history
  <2>2. QED
    BY <1>4, <2>1
<1>16. QED
  <2>1. CASE Kept /\ request' = request
    BY <1>4, <2>1 DEF Kept
  <2>2. QED
    BY <1>6, <1>7, <1>8, <1>9, <1>10, <1>11, <1>12, <1>13, <1>14, <1>15, <2>1, StepKinds
    DEF Kinds, Changes, Upgrades

(* UserManager.reset_password: a link is worth no more changes of the        *)
(* password than there are requests at once.                                 *)
THEOREM LinkSpends == Spec => []LinkIsSpent
<1>1. Init => Spending
  <2> SUFFICES ASSUME Init PROVE Spending
    OBVIOUS
  <2>1. \A q \in Requests : request[q] = [step |-> "idle"]
    BY DEF Init, Idle
  <2>2. \A k \in Links : By(k) = {} /\ uses[k] = 0
    BY <2>1 DEF Init, By, At
  <2>3. \A u \in Users : users[u].hash = 0
    BY DEF Init, NoUser
  <2>4. Bounded
    BY <2>2, ByIsFinite, FS_EmptySet DEF Bounded
  <2>5. QED
    BY <2>2, <2>3, <2>4 DEF Init, Spending, HashesAreCounted, UsedIsOld, ByItsLink
<1>2. TypeOK /\ TypeOK' /\ Spending /\ [Next]_vars => Spending'
  BY SpendingKept
<1>3. TypeOK /\ Spending => LinkIsSpent
  <2> SUFFICES ASSUME TypeOK, Spending, NEW k \in Links
               PROVE  uses[k] <= Cardinality(Requests)
    BY DEF LinkIsSpent
  <2>1. uses[k] + Cardinality(By(k)) <= Cardinality(Requests) /\ uses[k] \in Nat
    BY DEF Spending, Bounded, TypeOK
  <2>2. QED
    BY <2>1, ByIsFinite
<1>4. QED
  BY <1>1, <1>2, <1>3, TypeCorrect, PTL DEF Spec

-----------------------------------------------------------------------------
(* The lockout.                                                              *)

(* What a request is about to write has the type of a write, an INSERT is a  *)
(* whole row, and an UPDATE is only prepared by a request that saw a row.    *)
PendingOK ==
    \A r \in LockoutRequests :
        /\ pc[r] = "creating" => pending[r] \in Row
        /\ pc[r] \in {"failing", "clearing", "unlocking"} => Exists(row)

IInv == LockoutTypeOK /\ PendingOK

LEMMA AppliedType ==
    \A n \in Nat : /\ Applied(n, NULL) \in Nat \cup {NULL}
                    /\ Applied(n, Keep) \in Nat \cup {Keep}
  BY LadderAssumption DEF Applied

LEMMA UpdatedType ==
    ASSUME row \in Row, NEW w \in Write
    PROVE  Updated(w) \in Row
  BY DEF Updated, Row, Write, Keep, NULL

LEMMA NoRowIsNotARow == NoRow \notin Row
  BY DEF NoRow, Row, NULL

(* Type correctness: the columns keep their types, however the commits of    *)
(* the requests interleave; in particular no UPDATE is applied to no row.    *)
THEOREM InductiveType == LockoutSpec => []IInv
<1>1. LockoutInit => IInv
  BY NoRowIsNotARow DEF LockoutInit, IInv, LockoutTypeOK, PendingOK, NoWrite, Write
<1>2. IInv /\ [LockoutNext]_lockoutVars => IInv'
  <2> SUFFICES ASSUME IInv, [LockoutNext]_lockoutVars
               PROVE  IInv'
    OBVIOUS
  <2> USE DEF IInv, LockoutTypeOK, PendingOK, Exists, Goto
  <2>1. ASSUME NEW r \in LockoutRequests, PassCheck(r)
        PROVE  IInv'
    BY <2>1 DEF PassCheck, NoWrite, Write
  <2>2. ASSUME NEW r \in LockoutRequests, FindElapsed(r)
        PROVE  IInv'
    BY <2>2, NoRowIsNotARow DEF FindElapsed, Write, NoRow, NULL
  <2>3. ASSUME NEW r \in LockoutRequests,
               \/ CommitUnlock(r) \/ CommitFailure(r) \/ CommitReset(r)
        PROVE  IInv'
    <3>1. row \in Row /\ pending[r] \in Write
      BY <2>3 DEF CommitUnlock, CommitFailure, CommitReset
    <3>2. row' \in Row /\ row' # NoRow
      BY <2>3, <3>1, UpdatedType, NoRowIsNotARow
         DEF CommitUnlock, CommitFailure, CommitReset
    <3>3. QED
      BY <2>3, <3>2 DEF CommitUnlock, CommitFailure, CommitReset, NoWrite, Write
  <2>4. ASSUME NEW r \in LockoutRequests, FailFirst(r)
        PROVE  IInv'
    <3>1. [count |-> 1, until |-> Applied(1, NULL)] \in Row
      BY AppliedType DEF Row
    <3>2. [count |-> 1, until |-> Applied(1, NULL)] \in Write
      BY <3>1 DEF Row, Write
    <3>3. QED
      BY <2>4, <3>1, <3>2 DEF FailFirst
  <2>5. ASSUME NEW r \in LockoutRequests, FailAgain(r)
        PROVE  IInv'
    <3>1. row.count + 1 \in Nat
      BY <2>5 DEF FailAgain, Row
    <3>2. Applied(row.count + 1, Keep) \in Nat \cup {NULL, Keep}
      BY <3>1, AppliedType
    <3>3. QED
      BY <2>5, <3>1, <3>2 DEF FailAgain, Write
  <2>6. ASSUME NEW r \in LockoutRequests, CommitCreate(r)
        PROVE  IInv'
    <3>1. row' \in Row /\ row' # NoRow
      BY <2>6, NoRowIsNotARow DEF CommitCreate
    <3>2. QED
      BY <2>6, <3>1 DEF CommitCreate, NoWrite, Write
  <2>7. ASSUME NEW r \in LockoutRequests, ResetNothing(r)
        PROVE  IInv'
    BY <2>7 DEF ResetNothing, NoWrite, Write
  <2>8. ASSUME NEW r \in LockoutRequests, ReadForReset(r)
        PROVE  IInv'
    <3>1. Cleared(row) \in Write
      BY DEF Cleared, Write, Row, Keep, NULL
    <3>2. QED
      BY <2>8, <3>1 DEF ReadForReset
  <2>9. ASSUME Tick
        PROVE  IInv'
    <3>1. \A t \in Nat \cup {NULL, Keep} : Nearer(t) \in Nat \cup {NULL, Keep}
      BY DEF Nearer, NULL, Keep
    <3>2. \A t \in Nat \cup {NULL} : Nearer(t) \in Nat \cup {NULL}
      BY DEF Nearer, NULL
    <3>3. row \in Row => row' \in Row
      BY <2>9, <3>2 DEF Tick, Row
    <3>4. row = NoRow => row' = NoRow
      BY <2>9 DEF Tick, NoRow, Nearer, NULL
    <3>5. ASSUME NEW r \in LockoutRequests
          PROVE  /\ pending'[r] \in Write
                 /\ pending[r] \in Row => pending'[r] \in Row
      <4>1. pending[r] \in Write /\ pending'[r] = [pending[r] EXCEPT !.until = Nearer(@)]
        BY <2>9 DEF Tick
      <4>2. pending'[r] \in Write
        BY <3>1, <4>1 DEF Write
      <4>3. pending[r] \in Row => pending'[r] \in Row
        BY <3>2, <4>1 DEF Row
      <4>4. QED
        BY <4>2, <4>3
    <3>6. pending' \in [LockoutRequests -> Write]
      BY <2>9, <3>5 DEF Tick
    <3>7. QED
      BY <2>9, <3>3, <3>4, <3>5, <3>6, NoRowIsNotARow DEF Tick
  <2>10. CASE UNCHANGED lockoutVars
    BY <2>10 DEF lockoutVars
  <2>11. QED
    BY <2>1, <2>2, <2>3, <2>4, <2>5, <2>6, <2>7, <2>8, <2>9, <2>10
       DEF LockoutNext, CheckLocked, RecordFailed, Reset, RejectLocked, lockoutVars, LockoutRequests
<1>3. QED
  BY <1>1, <1>2, PTL DEF LockoutSpec

(* Type correctness of the model, for every ladder and set of requests.      *)
THEOREM LockoutTypes == LockoutSpec => []LockoutTypeOK
  BY InductiveType, PTL DEF IInv

-----------------------------------------------------------------------------
(* A failed_count is counted up from one that was stored, and the failure    *)
(* that counts it up is itself one more failure.  In-flight counts have to   *)
(* be bounded as well as the stored one: they are what will be stored.       *)
THEOREM CountBounded == LockoutSpec => []CountWithinFailures
<1>1. LockoutInit => CountWithinFailures
  BY DEF LockoutInit, CountWithinFailures, NoRow, NoWrite, NULL, Keep
<1>2. IInv /\ CountWithinFailures /\ [LockoutNext]_lockoutVars => CountWithinFailures'
  <2> SUFFICES ASSUME IInv, CountWithinFailures, [LockoutNext]_lockoutVars
               PROVE  CountWithinFailures'
    OBVIOUS
  <2> USE DEF IInv, LockoutTypeOK, CountWithinFailures, Goto
  <2>0. /\ row.count \in Int
        /\ \A r \in LockoutRequests : pending[r].count \in Int
    BY DEF Row, NoRow, Write, NULL, Keep
  <2>1. ASSUME NEW r \in LockoutRequests,
               \/ PassCheck(r) \/ FindElapsed(r)
               \/ ResetNothing(r) \/ ReadForReset(r)
        PROVE  CountWithinFailures'
    <3>1. row' = row /\ failures' = failures /\ pending'[r].count \in {Keep, 0}
      BY <2>1 DEF PassCheck, FindElapsed, ResetNothing, ReadForReset, NoWrite, Cleared
    <3>2. \A q \in LockoutRequests : q # r => pending'[q] = pending[q]
      BY <2>1 DEF PassCheck, FindElapsed, ResetNothing, ReadForReset
    <3>3. QED
      BY <3>1, <3>2 DEF Keep
  <2>2. ASSUME NEW r \in LockoutRequests,
               CommitUnlock(r) \/ CommitFailure(r) \/ CommitReset(r)
        PROVE  CountWithinFailures'
    <3>1. row' = Updated(pending[r]) /\ failures' = failures
      BY <2>2 DEF CommitUnlock, CommitFailure, CommitReset
    <3>2. row'.count <= failures
      BY <3>1, <2>0 DEF Updated
    <3>3. \A q \in LockoutRequests : pending'[q].count \in {pending[q].count, Keep}
      BY <2>2 DEF CommitUnlock, CommitFailure, CommitReset, NoWrite
    <3>4. QED
      BY <3>1, <3>2, <3>3 DEF Keep
  <2>3. ASSUME NEW r \in LockoutRequests, FailFirst(r) \/ FailAgain(r)
        PROVE  CountWithinFailures'
    <3>1. row' = row /\ failures' = failures + 1 /\ pending'[r].count <= failures + 1
      BY <2>3, <2>0 DEF FailFirst, FailAgain
    <3>2. \A q \in LockoutRequests : q # r => pending'[q] = pending[q]
      BY <2>3 DEF FailFirst, FailAgain
    <3>3. QED
      BY <3>1, <3>2, <2>0
  <2>4. ASSUME NEW r \in LockoutRequests, CommitCreate(r)
        PROVE  CountWithinFailures'
    <3>1. row' \in {row, pending[r]} /\ failures' = failures
      BY <2>4 DEF CommitCreate
    <3>2. \A q \in LockoutRequests : pending'[q].count \in {pending[q].count, Keep}
      BY <2>4 DEF CommitCreate, NoWrite
    <3>3. QED
      BY <3>1, <3>2 DEF Keep
  <2>5. ASSUME Tick
        PROVE  CountWithinFailures'
    <3>1. row'.count = row.count /\ failures' = failures
      BY <2>5 DEF Tick, Row, NoRow
    <3>2. \A q \in LockoutRequests : pending'[q].count = pending[q].count
      BY <2>5 DEF Tick, Write
    <3>3. QED
      BY <3>1, <3>2
  <2>6. CASE UNCHANGED lockoutVars
    BY <2>6 DEF lockoutVars
  <2>7. QED
    BY <2>1, <2>2, <2>3, <2>4, <2>5, <2>6
       DEF LockoutNext, CheckLocked, RecordFailed, Reset, RejectLocked, lockoutVars, LockoutRequests
<1>3. QED
  BY <1>1, <1>2, InductiveType, PTL DEF LockoutSpec

-----------------------------------------------------------------------------
(* A lock, stored or about to be stored, has been earned by enough failures. *)
RungEarned == \E n \in DOMAIN Ladder : n <= failures

LocksEarned ==
    /\ row.until >= 0 => RungEarned
    /\ \A r \in LockoutRequests : pending[r].until >= 0 => RungEarned

(* No account is locked before the failures that a rung of the ladder names. *)
THEOREM NoEarlyLock == LockoutSpec => []NeverLocksEarly
<1>1. LockoutInit => LocksEarned
  BY DEF LockoutInit, LocksEarned, NoRow, NoWrite, NULL, Keep
<1>2. IInv /\ CountWithinFailures /\ LocksEarned /\ [LockoutNext]_lockoutVars => LocksEarned'
  <2> SUFFICES ASSUME IInv, CountWithinFailures, LocksEarned, [LockoutNext]_lockoutVars
               PROVE  LocksEarned'
    OBVIOUS
  <2> USE DEF IInv, LockoutTypeOK, LocksEarned, Goto
  <2>1. /\ row.until \in Int
        /\ \A r \in LockoutRequests : pending[r].until \in Int
    BY DEF Row, NoRow, Write, NULL, Keep
  <2>2. failures' >= failures /\ failures' \in Int
    BY DEF LockoutNext, CheckLocked, RecordFailed, Reset, RejectLocked, PassCheck, FindElapsed,
           CommitUnlock, FailFirst, FailAgain, CommitCreate, CommitFailure,
           ResetNothing, ReadForReset, CommitReset, Tick, lockoutVars
  <2>3. RungEarned => RungEarned'
    BY <2>2, LadderAssumption DEF RungEarned
  <2>4. ASSUME NEW r \in LockoutRequests,
               \/ PassCheck(r) \/ FindElapsed(r)
               \/ ResetNothing(r) \/ ReadForReset(r)
        PROVE  LocksEarned'
    <3>1. row' = row /\ pending'[r].until \in {Keep, NULL}
      BY <2>4 DEF PassCheck, FindElapsed, ResetNothing, ReadForReset, NoWrite, Cleared
    <3>2. \A q \in LockoutRequests : q # r => pending'[q] = pending[q]
      BY <2>4 DEF PassCheck, FindElapsed, ResetNothing, ReadForReset
    <3>3. QED
      BY <3>1, <3>2, <2>1, <2>3 DEF Keep, NULL
  <2>5. ASSUME NEW r \in LockoutRequests,
               \/ CommitUnlock(r) \/ CommitFailure(r)
               \/ CommitReset(r) \/ CommitCreate(r)
        PROVE  LocksEarned'
    <3>1. row'.until \in {row.until, pending[r].until}
      BY <2>5 DEF CommitUnlock, CommitFailure, CommitReset, CommitCreate, Updated
    <3>2. \A q \in LockoutRequests : pending'[q].until \in {pending[q].until, Keep}
      BY <2>5 DEF CommitUnlock, CommitFailure, CommitReset, CommitCreate, NoWrite
    <3>3. QED
      BY <3>1, <3>2, <2>1, <2>3 DEF Keep
  <2>6. ASSUME NEW r \in LockoutRequests, FailFirst(r) \/ FailAgain(r)
        PROVE  LocksEarned'
    <3>1. PICK n \in Nat : /\ n <= failures'
                           /\ \/ pending'[r].until = Applied(n, NULL)
                              \/ pending'[r].until = Applied(n, Keep)
      <4>1. CASE FailFirst(r)
        BY <4>1 DEF FailFirst
      <4>2. CASE FailAgain(r)
        <5>1. row.count + 1 \in Nat /\ row.count + 1 <= failures'
          BY <4>2 DEF FailAgain, CountWithinFailures, Row, Exists
        <5>2. QED
          BY <4>2, <5>1 DEF FailAgain
      <4>3. QED
        BY <2>6, <4>1, <4>2
    <3>2. pending'[r].until >= 0 => RungEarned'
      BY <3>1 DEF Applied, RungEarned, NULL, Keep
    <3>3. row' = row /\ \A q \in LockoutRequests : q # r => pending'[q] = pending[q]
      BY <2>6 DEF FailFirst, FailAgain
    <3>4. QED
      BY <3>2, <3>3, <2>3
  <2>7. ASSUME Tick
        PROVE  LocksEarned'
    <3>1. row'.until >= 0 => row.until >= 0
      BY <2>7, <2>1 DEF Tick, Nearer, Row, NoRow
    <3>2. \A q \in LockoutRequests : pending'[q].until >= 0 => pending[q].until >= 0
      BY <2>7, <2>1 DEF Tick, Nearer, Write
    <3>3. QED
      BY <3>1, <3>2, <2>3
  <2>8. CASE UNCHANGED lockoutVars
    BY <2>8, <2>3 DEF lockoutVars
  <2>9. QED
    BY <2>4, <2>5, <2>6, <2>7, <2>8
       DEF LockoutNext, CheckLocked, RecordFailed, Reset, RejectLocked, lockoutVars, LockoutRequests
<1>3. IInv /\ LocksEarned => NeverLocksEarly
  BY DEF IInv, LockoutTypeOK, LocksEarned, NeverLocksEarly, RungEarned, Row, NoRow, NULL
<1>4. QED
  BY <1>1, <1>2, <1>3, InductiveType, CountBounded, PTL DEF LockoutSpec
-----------------------------------------------------------------------------
(* The ladder, for an account whose owner tries once at a time.             *)

\* One login is under way, and no administrator is in the middle of a reset.
OneAtATime ==
    /\ \A r, s \in LockoutRequests : pc[r] # "idle" /\ pc[s] # "idle" => r = s
    /\ \A a \in Admins : pc[a] = "idle"

(* What the only request relies on: nobody has changed the row since it read *)
(* it, time apart, so that its COMMIT brings the next state of the policy.   *)
Awaits(n, until, otherwise) ==
    IF n \in DOMAIN Ladder THEN until \in 0 .. Ladder[n] ELSE until = otherwise

Relied ==
    \A r \in LockoutRequests :
        /\ pc[r] # "idle" => row.until = IF pc[r] = "unlocking" THEN 0 ELSE NULL
        /\ pc[r] = "creating" =>
              /\ row = NoRow /\ pending[r].count = 1
              /\ Awaits(1, pending[r].until, NULL)
        /\ pc[r] = "failing" =>
              /\ pending[r].count = row.count + 1
              /\ Awaits(row.count + 1, pending[r].until, Keep)
        /\ pc[r] = "clearing" => pending[r] = Cleared(row)
        /\ pc[r] = "unlocking" => pending[r] = [count |-> Keep, until |-> NULL]

LEMMA ReliedInit == LockoutInit => Relied
  BY DEF LockoutInit, Relied

LEMMA ReliedStep == IInv /\ OneAtATime /\ Relied /\ [LockoutNext]_lockoutVars /\ OneAtATime' => Relied'
  <1> SUFFICES ASSUME IInv, OneAtATime, Relied, [LockoutNext]_lockoutVars, OneAtATime'
               PROVE  Relied'
    OBVIOUS
  <1> USE DEF IInv, LockoutTypeOK, PendingOK, Exists, Goto
  \* Whoever goes on is the only one, so that nobody else's reliance is at stake.
  <1>1. ASSUME NEW r \in LockoutRequests, pc[r] # "idle" \/ pc'[r] # "idle",
               \A q \in LockoutRequests \ {r} : pc'[q] = pc[q],
               NEW q \in LockoutRequests \ {r}
        PROVE  pc'[q] = "idle"
    BY <1>1 DEF OneAtATime
  <1>2. ASSUME NEW r \in LockoutRequests, PassCheck(r)
        PROVE  Relied'
    <2>1. /\ pc'[r] = "checked" /\ row' = row /\ row.until = NULL
          /\ \A q \in LockoutRequests \ {r} : pc'[q] = pc[q]
      BY <1>2 DEF PassCheck
    <2>2. \A q \in LockoutRequests \ {r} : pc'[q] = "idle"
      BY <2>1, <1>1
    <2> QED BY <2>1, <2>2 DEF Relied
  <1>3. ASSUME NEW r \in LockoutRequests, FindElapsed(r)
        PROVE  Relied'
    <2>1. /\ pc'[r] = "unlocking" /\ row' = row /\ row.until = 0
          /\ pending'[r] = [count |-> Keep, until |-> NULL]
          /\ \A q \in LockoutRequests \ {r} : pc'[q] = pc[q]
      BY <1>3 DEF FindElapsed
    <2>2. \A q \in LockoutRequests \ {r} : pc'[q] = "idle"
      BY <2>1, <1>1
    <2> QED BY <2>1, <2>2 DEF Relied
  <1>4. ASSUME NEW r \in LockoutRequests, CommitUnlock(r)
        PROVE  Relied'
    <2>1. /\ pc[r] = "unlocking" /\ pc'[r] = "checked" /\ row' = Updated(pending[r])
          /\ \A q \in LockoutRequests \ {r} : pc'[q] = pc[q]
      BY <1>4 DEF CommitUnlock
    <2>2. \A q \in LockoutRequests \ {r} : pc'[q] = "idle"
      BY <2>1, <1>1
    <2>3. row'.until = NULL
      BY <2>1 DEF Relied, Updated, NULL, Keep
    <2> QED BY <2>1, <2>2, <2>3 DEF Relied
  <1>5. ASSUME NEW r \in LockoutRequests, FailFirst(r)
        PROVE  Relied'
    <2>1. /\ pc[r] = "checked" /\ pc'[r] = "creating" /\ row' = row /\ row = NoRow
          /\ pending'[r] = [count |-> 1, until |-> Applied(1, NULL)]
          /\ \A q \in LockoutRequests \ {r} : pc'[q] = pc[q]
      BY <1>5 DEF FailFirst
    <2>2. \A q \in LockoutRequests \ {r} : pc'[q] = "idle"
      BY <2>1, <1>1
    <2>3. Awaits(1, Applied(1, NULL), NULL)
      BY LadderAssumption DEF Awaits, Applied
    <2>4. row.until = NULL
      BY <2>1 DEF NoRow
    <2> QED BY <2>1, <2>2, <2>3, <2>4 DEF Relied
  <1>6. ASSUME NEW r \in LockoutRequests, FailAgain(r)
        PROVE  Relied'
    <2>1. /\ pc[r] = "checked" /\ pc'[r] = "failing" /\ row' = row /\ row \in Row
          /\ pending'[r] = [count |-> row.count + 1, until |-> Applied(row.count + 1, Keep)]
          /\ \A q \in LockoutRequests \ {r} : pc'[q] = pc[q]
      BY <1>6 DEF FailAgain
    <2>2. \A q \in LockoutRequests \ {r} : pc'[q] = "idle"
      BY <2>1, <1>1
    <2>3. row.count + 1 \in Nat
      BY <2>1 DEF Row
    <2>4. Awaits(row.count + 1, Applied(row.count + 1, Keep), Keep)
      BY <2>3, LadderAssumption DEF Awaits, Applied
    <2>5. row.until = NULL
      BY <2>1 DEF Relied
    <2> QED BY <2>1, <2>2, <2>4, <2>5 DEF Relied
  <1>7. ASSUME NEW r \in LockoutRequests,
               CommitCreate(r) \/ CommitFailure(r) \/ CommitReset(r) \/ ResetNothing(r)
        PROVE  Relied'
    <2>1. /\ pc'[r] = "idle"
          /\ \A q \in LockoutRequests \ {r} : pc'[q] = pc[q]
      BY <1>7 DEF CommitCreate, CommitFailure, CommitReset, ResetNothing
    <2>2. \A q \in LockoutRequests \ {r} : pc[r] # "idle" => pc'[q] = "idle"
      BY <2>1, <1>1
    <2>3. CASE pc[r] # "idle"
      BY <2>1, <2>2, <2>3 DEF Relied
    <2>4. CASE pc[r] = "idle"
      <3>1. row' = row /\ \A q \in LockoutRequests \ {r} : pending'[q] = pending[q]
        BY <1>7, <2>4 DEF CommitCreate, CommitFailure, CommitReset, ResetNothing
      <3> QED BY <2>1, <3>1 DEF Relied, Cleared
    <2> QED BY <2>3, <2>4
  <1>8. ASSUME NEW r \in LockoutRequests, ReadForReset(r)
        PROVE  Relied'
    <2>1. /\ pc[r] = IF r \in Admins THEN "idle" ELSE "checked"
          /\ pc'[r] = "clearing" /\ row' = row /\ pending'[r] = Cleared(row)
          /\ \A q \in LockoutRequests \ {r} : pc'[q] = pc[q]
      BY <1>8 DEF ReadForReset, MayReset
    <2>2. \A q \in LockoutRequests \ {r} : pc'[q] = "idle"
      BY <2>1, <1>1
    <2>3. r \notin Admins
      BY <2>1 DEF OneAtATime
    <2>4. row.until = NULL
      BY <2>1, <2>3 DEF Relied
    <2> QED BY <2>1, <2>2, <2>4 DEF Relied, Cleared
  <1>9. ASSUME Tick
        PROVE  Relied'
    <2>1. pc' = pc /\ row'.count = row.count /\ row'.until = Nearer(row.until)
      BY <1>9 DEF Tick, Row, NoRow
    <2>2. row = NoRow => row' = NoRow
      BY <1>9 DEF Tick, NoRow, Nearer, NULL
    <2>3. \A r \in LockoutRequests : /\ pending'[r] = [pending[r] EXCEPT !.until = Nearer(@)]
                              /\ pending[r] \in Write
      BY <1>9 DEF Tick
    <2>4. \A r \in LockoutRequests : /\ pending'[r].count = pending[r].count
                              /\ pending'[r].until = Nearer(pending[r].until)
      BY <2>3 DEF Write
    <2>5. Nearer(0) = 0 /\ Nearer(NULL) = NULL /\ Nearer(Keep) = Keep
      BY DEF Nearer, NULL, Keep
    <2>6. \A n \in Nat : \A m \in 0 .. n : Nearer(m) \in 0 .. n
      BY DEF Nearer
    <2>7. ASSUME NEW n \in Nat, NEW until, NEW otherwise \in {NULL, Keep},
                 Awaits(n, until, otherwise)
          PROVE  Awaits(n, Nearer(until), otherwise)
      BY <2>5, <2>6, <2>7, LadderAssumption DEF Awaits
    <2>8. ASSUME NEW r \in LockoutRequests, pc[r] = "creating"
          PROVE  row' = NoRow /\ pending'[r].count = 1 /\ Awaits(1, pending'[r].until, NULL)
      <3>1. row = NoRow /\ pending[r].count = 1 /\ Awaits(1, pending[r].until, NULL)
        BY <2>8 DEF Relied
      <3> QED BY <3>1, <2>2, <2>4, <2>7
    <2>9. ASSUME NEW r \in LockoutRequests, pc[r] = "failing"
          PROVE  /\ pending'[r].count = row.count + 1
                 /\ Awaits(row.count + 1, pending'[r].until, Keep)
      <3>1. /\ pending[r].count = row.count + 1
            /\ Awaits(row.count + 1, pending[r].until, Keep)
        BY <2>9 DEF Relied
      <3>2. row.count + 1 \in Nat
        BY <2>9 DEF Row
      <3> QED BY <3>1, <3>2, <2>4, <2>7
    <2>10. ASSUME NEW r \in LockoutRequests, pc[r] = "clearing"
           PROVE  pending'[r] = Cleared(row)' /\ row.until = NULL
      <3>1. pending[r] = Cleared(row) /\ row.until = NULL
        BY <2>10 DEF Relied
      <3>2. Cleared(row)' = Cleared(row)
        BY <3>1, <2>1, <2>5 DEF Cleared
      <3>3. Cleared(row).until = Keep
        BY <3>1 DEF Cleared
      <3>4. pending'[r] = pending[r]
        BY <2>3, <3>1, <3>3, <2>5 DEF Write
      <3> QED BY <3>1, <3>2, <3>4
    <2>11. ASSUME NEW r \in LockoutRequests, pc[r] = "unlocking"
           PROVE  pending'[r] = [count |-> Keep, until |-> NULL]
      <3>1. pending[r] = [count |-> Keep, until |-> NULL]
        BY <2>11 DEF Relied
      <3> QED BY <3>1, <2>3, <2>5
    <2>12. ASSUME NEW r \in LockoutRequests, pc[r] # "idle"
           PROVE  row'.until = IF pc[r] = "unlocking" THEN 0 ELSE NULL
      BY <2>12, <2>1, <2>5 DEF Relied
    <2> QED BY <2>1, <2>8, <2>9, <2>10, <2>11, <2>12 DEF Relied
  <1>10. CASE UNCHANGED lockoutVars
    BY <1>10 DEF lockoutVars, Relied, Cleared
  <1> QED
    BY <1>2, <1>3, <1>4, <1>5, <1>6, <1>7, <1>8, <1>9, <1>10
       DEF LockoutNext, CheckLocked, RecordFailed, Reset, RejectLocked, lockoutVars, LockoutRequests

\* Each step of the requests and of the clock is a step of the policy, or none.
LEMMA LadderStep ==
    IInv /\ OneAtATime /\ Relied /\ [LockoutNext]_lockoutVars /\ OneAtATime'
    => [Policy!PolicyNext]_<<IF Exists(row) THEN row.count ELSE 0, row.until>>
  <1> DEFINE fails == IF Exists(row) THEN row.count ELSE 0
             lock == row.until
  <1> SUFFICES ASSUME IInv, OneAtATime, Relied, [LockoutNext]_lockoutVars, OneAtATime'
               PROVE  Policy!PolicyNext \/ (fails' = fails /\ lock' = lock)
    BY DEF Exists
  <1> USE DEF IInv, LockoutTypeOK, PendingOK, Exists, Goto
  <1>1. ASSUME NEW r \in LockoutRequests, CommitUnlock(r)
        PROVE  Policy!PolicyNext
    <2>1. /\ row.until = 0 /\ row \in Row
          /\ pending[r] = [count |-> Keep, until |-> NULL] /\ row' = Updated(pending[r])
      BY <1>1 DEF CommitUnlock, Relied
    <2>2. row'.count = row.count /\ row'.until = NULL
      BY <2>1 DEF Updated, NULL, Keep
    <2>3. row # NoRow /\ row' # NoRow
      BY <2>1, <2>2 DEF Row, NoRow, NULL
    <2> QED BY <2>1, <2>2, <2>3 DEF Policy!PolicyNext, Policy!Unlock, Policy!NULL, NULL
  <1>2. ASSUME NEW r \in LockoutRequests, CommitCreate(r)
        PROVE  Policy!PolicyNext
    <2>1. /\ row = NoRow /\ row' = pending[r] /\ pending[r].count = 1
          /\ Awaits(1, pending[r].until, NULL)
      BY <1>2 DEF CommitCreate, Relied
    <2>2. row' # NoRow
      BY <2>1 DEF NoRow, NULL
    <2>3. lock = NULL /\ fails = 0 /\ fails' = 1
      BY <2>1, <2>2 DEF NoRow
    <2>4. lock' \in IF 1 \in DOMAIN Ladder THEN 0 .. Ladder[1] ELSE {NULL}
      BY <2>1 DEF Awaits
    <2> QED BY <2>3, <2>4 DEF Policy!PolicyNext, Policy!Fail, Policy!NULL, NULL
  <1>3. ASSUME NEW r \in LockoutRequests, CommitFailure(r)
        PROVE  Policy!PolicyNext
    <2>1. /\ row \in Row /\ row' = Updated(pending[r]) /\ pending[r].count = row.count + 1
          /\ Awaits(row.count + 1, pending[r].until, Keep)
          /\ row.until = NULL
      BY <1>3 DEF CommitFailure, Relied
    <2>2. row.count \in Nat /\ row'.count = row.count + 1
      BY <2>1 DEF Row, Updated, Keep
    <2>3. row # NoRow /\ row' # NoRow
      BY <2>1, <2>2 DEF Row, NoRow, NULL
    <2>4. lock' \in IF row.count + 1 \in DOMAIN Ladder THEN 0 .. Ladder[row.count + 1]
                    ELSE {NULL}
      <3>1. CASE row.count + 1 \in DOMAIN Ladder
        BY <2>1, <3>1 DEF Updated, Awaits, Keep
      <3>2. CASE row.count + 1 \notin DOMAIN Ladder
        BY <2>1, <3>2 DEF Updated, Awaits
      <3> QED BY <3>1, <3>2
    <2> QED BY <2>1, <2>2, <2>3, <2>4 DEF Policy!PolicyNext, Policy!Fail, Policy!NULL, NULL
  <1>4. ASSUME NEW r \in LockoutRequests, CommitReset(r)
        PROVE  Policy!PolicyNext
    <2>1. /\ row \in Row /\ row' = Updated(pending[r]) /\ pending[r] = Cleared(row)
          /\ row.until = NULL
      BY <1>4 DEF CommitReset, Relied
    <2>2. row'.count = 0 /\ row'.until = NULL
      BY <2>1 DEF Row, Updated, Cleared, Keep
    <2>3. row' # NoRow
      BY <2>2 DEF NoRow, NULL
    <2> QED BY <2>1, <2>2, <2>3 DEF Policy!PolicyNext, Policy!Succeed, Policy!NULL, NULL
  <1>5. CASE Tick
    <2>1. row'.count = row.count /\ row'.until = Nearer(row.until)
      BY <1>5 DEF Tick, Row, NoRow
    <2>2. (row' = NoRow) = (row = NoRow)
      BY <2>1, <1>5 DEF Tick, NoRow, Row, Nearer, NULL
    <2>3. row.until \in Nat \cup {NULL}
      BY DEF Row, NoRow
    <2>4. CASE row.until > 0
      BY <2>1, <2>2, <2>3, <2>4 DEF Nearer, Policy!PolicyNext, Policy!Pass
    <2>5. CASE ~(row.until > 0)
      BY <2>1, <2>2, <2>5 DEF Nearer
    <2> QED BY <2>4, <2>5
  <1>6. ASSUME row' = row
        PROVE  fails' = fails /\ lock' = lock
    BY <1>6
  <1>7. ASSUME NEW r \in LockoutRequests,
               \/ RejectLocked(r) \/ PassCheck(r) \/ FindElapsed(r) \/ FailFirst(r)
               \/ FailAgain(r) \/ ResetNothing(r) \/ ReadForReset(r)
        PROVE  row' = row
    BY <1>7 DEF RejectLocked, PassCheck, FindElapsed, FailFirst, FailAgain, ResetNothing,
                ReadForReset, lockoutVars
  <1>8. CASE UNCHANGED lockoutVars
    BY <1>6, <1>8 DEF lockoutVars
  <1> QED
    BY <1>1, <1>2, <1>3, <1>4, <1>5, <1>6, <1>7, <1>8
       DEF LockoutNext, CheckLocked, RecordFailed, Reset, LockoutRequests

(* As long as the logins of a user come one after the other, and no          *)
(* administrator intervenes, the row implements the policy of the ladder,    *)
(* whatever its rungs and however long each login takes.                     *)
THEOREM LadderImplemented == LockoutSpec /\ []OneAtATime => ImplementsPolicy
<1>1. LockoutInit => Policy!PolicyInit
  BY DEF LockoutInit, Exists, NoRow, Policy!PolicyInit, Policy!NULL, NULL
<1> QED
  BY <1>1, ReliedInit, ReliedStep, LadderStep, InductiveType, PTL
     DEF LockoutSpec, ImplementsPolicy, Policy!PolicySpec
=============================================================================
