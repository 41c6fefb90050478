------------------------------ MODULE Accounts -------------------------------
(***************************************************************************)
(* The accounts of one tenant: users, their addresses and passwords, the    *)
(* codes that verify an address and the links that reset a password.        *)
(*                                                                         *)
(* A request is taken from commit to commit.  What it read at first stays   *)
(* with it, and an UPDATE writes the columns that differ from that.  Rates, *)
(* the strength of passwords, sessions and the names of fields are left     *)
(* out; a check of them that fails ends the request before it did anything. *)
(***************************************************************************)
EXTENDS FiniteSets, Naturals

CONSTANTS
    Users,                 \* ids of rows; each is used once
    Addresses, Words,      \* e-mail addresses, passwords
    Lower,                 \* Lower[e]: the address e in lower case
    Requests,              \* requests in flight
    None,                  \* no such value
    MaxHashes, MaxStarts   \* bounds: password hashes stored, requests made

ASSUME AccountsAssumption ==
    /\ Lower \in [Addresses -> Addresses]
    /\ None \notin Users \cup Addresses \cup Words \cup BOOLEAN \cup (Users \X Nat)
    /\ MaxHashes \in Nat /\ MaxStarts \in Nat
    /\ IsFiniteSet(Requests)

VARIABLES
    users,     \* the rows of users
    codes,     \* the rows of email_verifications
    welcomes,  \* users with a task on_after_register in the queue
    links,     \* the reset links that were mailed
    request,   \* request[q]: how far the request q has come
    hashes,    \* the number of the last hash of a password
    starts,    \* how many requests there were
    proved,    \* history: <<u, e>> if u has shown a code mailed to e, or an administrator set it
    uses,      \* history: uses[k]: how many resets the link k has brought about
    newest,    \* history: the password that u has set last
    overtaken  \* history: users whose password changed while a write of the old one was due

tables == <<users, codes, welcomes, links, hashes>>
history == <<proved, uses, newest, overtaken>>
vars == <<tables, request, starts, history>>

Lives == {"unused", "live", "gone"}
Hashes == 0 .. MaxHashes
Links == Users \X Hashes

(* hash numbers the hash that is stored: every hash has its own salt, so no  *)
(* two are the same.  Number 0 is of the legacy kind.                        *)
User == [life: Lives, email: Addresses \cup {None}, verified: BOOLEAN, active: BOOLEAN,
         word: Words \cup {None}, hash: Hashes]
NoUser == [life |-> "unused", email |-> None, verified |-> FALSE, active |-> FALSE,
           word |-> None, hash |-> 0]
Code == [user: Users, email: Addresses, stale: BOOLEAN]

(* A request: the step that comes next, and what it goes by.  set are the    *)
(* columns it will write, None for those it leaves out.                      *)
Idle == [step |-> "idle"]
NewUser == [life: {"live"}, email: Addresses, verified: BOOLEAN, active: {TRUE},
            word: Words, hash: {0}]
Creating == [step: {"insert", "greet"}, user: Users \cup {None}, new: NewUser]
Sending == [step: {"purge"}, user: Users, email: Addresses \cup {None}]
           \cup [step: {"mail"}, user: Users, email: Addresses]
Columns == [email: Addresses \cup {None}, verified: BOOLEAN \cup {None},
            active: BOOLEAN \cup {None}, word: Words \cup {None}]
Writing == [step: {"confirm", "store", "upgrade", "save"}, user: Users, set: Columns,
            by: Links \cup {None}]

\* Two users may have the same address in different case, but not letter by letter.
TypeOK ==
    /\ users \in [Users -> User]
    /\ \A u \in Users : users[u].life = "live" => users[u].email # None
    /\ \A u, v \in Users : u # v /\ users[u].life = "live" /\ users[v].life = "live"
                               => users[u].email # users[v].email
    /\ codes \subseteq {c \in Code : users[c.user].life = "live"}
    /\ welcomes \subseteq Users
    /\ links \subseteq Links
    /\ request \in [Requests -> Creating \cup Sending \cup Writing \cup {Idle}]
    /\ hashes \in Hashes /\ starts \in 0 .. MaxStarts
    /\ proved \subseteq Users \X Addresses
    /\ uses \in [Links -> Nat]
    /\ newest \in [Users -> Words \cup {None}]
    /\ overtaken \subseteq Users

Live(table) == {x \in DOMAIN table : table[x].life = "live"}

\* At most one user, with a verified address and a hash of the legacy kind.
Init ==
    /\ \E us \in {{}} \cup {{u} : u \in Users}, e \in Addresses, w \in Words :
          users = [u \in Users |->
              IF u \in us THEN [life |-> "live", email |-> e, verified |-> TRUE,
                                active |-> TRUE, word |-> w, hash |-> 0]
              ELSE NoUser]
    /\ newest = [u \in Users |-> users[u].word]
    /\ proved = {<<u, users[u].email>> : u \in Live(users)}
    /\ codes = {} /\ welcomes = {} /\ links = {}
    /\ request = [q \in Requests |-> Idle]
    /\ hashes = 0 /\ starts = 0 /\ overtaken = {}
    /\ uses = [k \in Links |-> 0]

-----------------------------------------------------------------------------
(* Requests.                                                                 *)

At(q, step) == request[q].step = step
Begins(q) == request[q] = Idle /\ starts < MaxStarts /\ starts' = starts + 1
Goes(q, r) == request' = [request EXCEPT ![q] = r]
GoesTo(q, step) == request' = [request EXCEPT ![q].step = step]
Ends(q) == Goes(q, Idle)
Nothing == UNCHANGED <<tables, history>>

\* UserRepository.get_by_email_and_tenant; with two users it raises.
Having(e) == {u \in Live(users) : Lower[users[u].email] = Lower[e]}

\* The unique constraint on the address and the tenant.
Unique(u, e) == \A v \in Live(users) \ {u} : users[v].email # e

\* The process dies, the client goes away, or a check fails: what is committed stands.
Stop(q) ==
    /\ request[q] # Idle /\ Ends(q) /\ Nothing /\ UNCHANGED starts

-----------------------------------------------------------------------------
(* New users: UserManager.create, for an administrator or a registration.    *)

Create(q, e, w, verified) ==
    /\ Begins(q) /\ Having(e) = {}
    /\ Goes(q, [step |-> "insert", user |-> None,
                new |-> [life |-> "live", email |-> e, verified |-> verified, active |-> TRUE,
                         word |-> w, hash |-> 0]])
    /\ Nothing

Register(q, e, w) == Create(q, e, w, FALSE)
CreateUser(q, e, w, verified) == Create(q, e, w, verified)
CreateOnDashboard(q, e, w, verified) == Create(q, e, w, verified)

Insert(q, u) ==
    /\ At(q, "insert") /\ users[u].life = "unused" /\ hashes < MaxHashes
    /\ LET row == [request[q].new EXCEPT !.hash = hashes + 1]
       IN  /\ Unique(u, row.email)
           /\ users' = [users EXCEPT ![u] = row]
           /\ newest' = [newest EXCEPT ![u] = row.word]
           /\ proved' = IF row.verified THEN proved \cup {<<u, row.email>>} ELSE proved
    /\ hashes' = hashes + 1
    /\ request' = [request EXCEPT ![q].step = "greet", ![q].user = u]
    /\ UNCHANGED <<codes, welcomes, links, starts, uses, overtaken>>

\* on_after_register; the values of the fields were stored with a commit of their own.
Greet(q) ==
    /\ At(q, "greet") /\ request[q].user \in Live(users)
    /\ welcomes' = welcomes \cup {request[q].user}
    /\ Ends(q)
    /\ UNCHANGED <<users, codes, links, hashes, starts, history>>

-----------------------------------------------------------------------------
(* Verification of an address.                                               *)

\* UserManager.request_verify_email
Ask(q, u, e) ==
    /\ Begins(q)
    /\ u \in Live(users) /\ users[u].active
    /\ users[u].email # e => Having(e) = {}
    /\ Goes(q, [step |-> "purge", user |-> u, email |-> e])
    /\ Nothing

Unverified(u) == ~users[u].verified

AskAtSignIn(q, u) == Unverified(u) /\ Ask(q, u, users[u].email)
AskForUser(q, u) == Unverified(u) /\ Ask(q, u, users[u].email)
ChangeEmail(q, u, e, w) == users[u].verified /\ users[u].word = w /\ Ask(q, u, e)
ChangeEmailByApi(q, u, e) == Ask(q, u, e)

Without(u) == {c \in codes : c.user # u}

\* delete_by_user: before a code is mailed, and after one was shown.
Purge(q) ==
    /\ At(q, "purge")
    /\ codes' = Without(request[q].user)
    /\ IF request[q].email = None THEN Ends(q) ELSE GoesTo(q, "mail")
    /\ UNCHANGED <<users, welcomes, links, hashes, starts, history>>

Mailed(u, e) == codes' = codes \cup {[user |-> u, email |-> e, stale |-> FALSE]}

Mail(q) ==
    /\ At(q, "mail") /\ request[q].user \in Live(users)
    /\ Mailed(request[q].user, request[q].email)
    /\ Ends(q)
    /\ UNCHANGED <<users, welcomes, links, hashes, starts, history>>

\* The task on_after_register; what fails after the commit brings it back.
Welcome(u) ==
    /\ u \in welcomes /\ u \in Live(users)
    /\ IF Unverified(u) THEN Mailed(u, users[u].email) ELSE UNCHANGED codes
    /\ welcomes' \in {welcomes, welcomes \ {u}}
    /\ UNCHANGED <<users, links, hashes, request, starts, history>>

\* An UPDATE sets the columns that differ from the row as it was read.
Differing(u, new) ==
    [c \in {"email", "verified", "active", "word"} |->
        IF new[c] = users[u][c] THEN None ELSE new[c]]

Written(q) ==
    LET Column(c) == IF request[q].set[c] = None THEN users[request[q].user][c]
                     ELSE request[q].set[c]
    IN  [users[request[q].user] EXCEPT
            !.email = Column("email"), !.verified = Column("verified"),
            !.active = Column("active"), !.word = Column("word")]

\* verify_email and verify_email_by_code: the row is read, and written later.
Show(q, c) ==
    /\ Begins(q) /\ c \in codes
    /\ Goes(q, [step |-> "confirm", user |-> c.user, by |-> None, set |->
                Differing(c.user, [users[c.user] EXCEPT !.email = c.email, !.verified = TRUE])])
    /\ proved' = proved \cup {<<c.user, c.email>>}
    /\ UNCHANGED <<tables, uses, newest, overtaken>>

Verify(q, c) == users[c.user].active /\ Show(q, c)
VerifyOnDashboard(q, c) == users[c.user].active /\ users[c.user].verified /\ Show(q, c)
VerifyByApi(q, c) == users[c.user].active /\ Show(q, c)
VerifyLink(q, c) == ~c.stale /\ Show(q, c)

Stays(q) == request[q].user \in Live(users) /\ Unique(request[q].user, Written(q).email)

BugConfirm(q) ==
    /\ At(q, "confirm") /\ request[q].user \in Live(users)
    /\ users' = [users EXCEPT ![request[q].user].verified = TRUE]
    /\ Goes(q, [step |-> "purge", user |-> request[q].user, email |-> None])
    /\ UNCHANGED <<codes, welcomes, links, hashes, starts, history>>
Confirm(q) ==
    /\ At(q, "confirm") /\ Stays(q)
    /\ users' = [users EXCEPT ![request[q].user] = Written(q)]
    /\ Goes(q, [step |-> "purge", user |-> request[q].user, email |-> None])
    /\ UNCHANGED <<codes, welcomes, links, hashes, starts, history>>

-----------------------------------------------------------------------------
(* Passwords.                                                                *)

\* UserManager.forgot_password: the link carries a fingerprint of the hash that is stored.
LinkFor(u) == <<u, users[u].hash>>

ForgotPassword(u) ==
    /\ u \in Live(users) /\ users[u].active
    /\ links' = links \cup {LinkFor(u)}
    /\ UNCHANGED <<users, codes, welcomes, hashes, request, starts, history>>

\* A password that will be stored, by a reset link, a form or at a sign-in.
Stores(q, step, u, w, by) ==
    /\ Begins(q)
    /\ Goes(q, [step |-> step, user |-> u, by |-> by,
                set |-> [email |-> None, verified |-> None, active |-> None, word |-> w]])
    /\ Nothing

BugResetPassword(q, k, w) ==
    /\ k \in links
    /\ LET u == k[1] IN u \in Live(users) /\ users[u].active /\ Stores(q, "store", u, w, k)
\* UserManager.reset_password: the fingerprint is that of the hash as it is now.
ResetPassword(q, k, w) ==
    /\ k \in links
    /\ LET u == k[1]
       IN  u \in Live(users) /\ k = LinkFor(u) /\ users[u].active /\ Stores(q, "store", u, w, k)

ChangePassword(q, u, old, w) ==
    u \in Live(users) /\ users[u].verified /\ users[u].word = old /\ Stores(q, "store", u, w, None)
ChangePasswordByApi(q, u, w) == u \in Live(users) /\ users[u].active /\ Stores(q, "store", u, w, None)

BugAuthenticate(q, e, w) ==
    \E u \in Live(users) : Having(e) = {u} /\ users[u].hash = 0 /\ Stores(q, "upgrade", u, w, None)
\* A sign-in with the right password, whose hash is of the legacy kind, replaces it.
Authenticate(q, e, w) ==
    \E u \in Live(users) :
        Having(e) = {u} /\ users[u].word = w /\ users[u].hash = 0 /\ Stores(q, "upgrade", u, w, None)

\* Other requests that are about to write the password of u.
Overtakes(q, u) ==
    \E x \in Requests \ {q} :
        (At(x, "store") \/ At(x, "upgrade") \/ At(x, "save"))
            /\ request[x].user = u /\ request[x].set.word # None

Store(q) ==
    /\ At(q, "store") \/ At(q, "upgrade")
    /\ request[q].user \in Live(users) /\ hashes < MaxHashes
    /\ LET u == request[q].user
           k == request[q].by
       IN  /\ users' = [users EXCEPT ![u].word = request[q].set.word, ![u].hash = hashes + 1]
           /\ newest' = IF At(q, "upgrade") THEN newest ELSE [newest EXCEPT ![u] = request[q].set.word]
           /\ overtaken' = IF Overtakes(q, u) THEN overtaken \cup {u} ELSE overtaken
           /\ uses' = IF k = None THEN uses ELSE [uses EXCEPT ![k] = @ + 1]
    /\ hashes' = hashes + 1
    /\ Ends(q)
    /\ UNCHANGED <<codes, welcomes, links, starts, proved>>

-----------------------------------------------------------------------------
(* Administrators.                                                           *)

\* UserManager.update, with any of an address, its flag, a password and is_active
Edit(q, u, new) ==
    /\ Begins(q)
    /\ u \in Live(users)
    /\ new.email # users[u].email => Having(new.email) = {}
    /\ Goes(q, [step |-> "save", user |-> u, set |-> Differing(u, new), by |-> None])
    /\ Nothing

UpdateUser(q, u, new) == Edit(q, u, new)
UpdateOnDashboard(q, u, new) == new.active = users[u].active /\ Edit(q, u, new)

Save(q) ==
    /\ At(q, "save") /\ Stays(q)
    /\ LET u == request[q].user
           set == request[q].set
           word == set.word # None
       IN  /\ word => hashes < MaxHashes
           /\ hashes' = IF word THEN hashes + 1 ELSE hashes
           /\ users' = [users EXCEPT ![u] = [Written(q) EXCEPT !.hash = IF word THEN hashes + 1 ELSE @]]
           /\ newest' = IF word THEN [newest EXCEPT ![u] = set.word] ELSE newest
           /\ overtaken' = IF word /\ Overtakes(q, u) THEN overtaken \cup {u} ELSE overtaken
           /\ proved' = IF set.email # None \/ set.verified # None
                        THEN proved \cup {<<u, Written(q).email>>} ELSE proved
    /\ Ends(q)
    /\ UNCHANGED <<codes, welcomes, links, starts, uses>>

BugDeleteUser(u) ==
    /\ u \in Live(users)
    /\ users' = [users EXCEPT ![u].life = "gone"]
    /\ UNCHANGED <<codes, welcomes, links, hashes, request, starts, history>>
\* Everything that refers to the user goes with her.
DeleteUser(u) ==
    /\ u \in Live(users)
    /\ users' = [users EXCEPT ![u].life = "gone"]
    /\ codes' = Without(u)
    /\ UNCHANGED <<welcomes, links, hashes, request, starts, history>>

DeleteOnDashboard(u) == DeleteUser(u)

-----------------------------------------------------------------------------
(* Time and the clean-up.                                                    *)

ExpireCode(c) ==
    /\ c \in codes /\ ~c.stale
    /\ codes' = (codes \ {c}) \cup {[c EXCEPT !.stale = TRUE]}
    /\ UNCHANGED <<users, welcomes, links, hashes, request, starts, history>>

DropCode(c) ==
    /\ c \in codes /\ c.stale
    /\ codes' = codes \ {c}
    /\ UNCHANGED <<users, welcomes, links, hashes, request, starts, history>>

-----------------------------------------------------------------------------
Registering ==
    \/ \E q \in Requests, e \in Addresses, w \in Words :
          \/ \E v \in BOOLEAN : CreateUser(q, e, w, v) \/ CreateOnDashboard(q, e, w, v)
          \/ Register(q, e, w)
    \/ \E q \in Requests : Greet(q) \/ \E u \in Users : Insert(q, u)

Verifying ==
    \/ \E q \in Requests, u \in Users :
          \/ AskAtSignIn(q, u) \/ AskForUser(q, u)
          \/ \E e \in Addresses :
                ChangeEmailByApi(q, u, e) \/ \E w \in Words : ChangeEmail(q, u, e, w)
    \/ \E q \in Requests, c \in codes :
          Verify(q, c) \/ VerifyOnDashboard(q, c) \/ VerifyByApi(q, c) \/ VerifyLink(q, c)
    \/ \E q \in Requests : Purge(q) \/ Mail(q) \/ Confirm(q)
    \/ \E u \in Users : Welcome(u)
    \/ \E c \in codes : ExpireCode(c) \/ DropCode(c)

\* What an administrator changes at once: the address, the password, or is_active.
Edits(u) ==
    {[users[u] EXCEPT !.email = x[1], !.verified = x[2]] : x \in Addresses \X BOOLEAN}
    \cup {[users[u] EXCEPT !.word = w] : w \in Words}
    \cup {[users[u] EXCEPT !.active = ~@]}

Changing ==
    \/ \E u \in Users : ForgotPassword(u) \/ DeleteUser(u) \/ DeleteOnDashboard(u)
    \/ \E q \in Requests, w \in Words :
          \/ \E k \in links : ResetPassword(q, k, w)
          \/ \E u \in Users, old \in Words : ChangePassword(q, u, old, w)
          \/ \E u \in Users : ChangePasswordByApi(q, u, w)
          \/ \E e \in Addresses : Authenticate(q, e, w)
    \/ \E q \in Requests, u \in Users : \E new \in Edits(u) :
          UpdateUser(q, u, new) \/ UpdateOnDashboard(q, u, new)
    \/ \E q \in Requests : Store(q) \/ Save(q) \/ Stop(q)

Next == Registering \/ Verifying \/ Changing

Spec == Init /\ [][Next]_vars

-----------------------------------------------------------------------------
(* Properties.                                                               *)

(* An address that counts as verified was mailed a code that this user has   *)
(* shown, or was set by an administrator: however requests, deliveries and   *)
(* changes of the address overlap, the flag never vouches for another one.   *)
VerifiedMeansProved ==
    \A u \in Live(users) : users[u].verified => <<u, users[u].email>> \in proved

(* A reset link is good for one change of the password.  Only requests that  *)
(* are in flight together can get more out of it, one each.                  *)
LinkIsSpent == \A k \in Links : uses[k] <= Cardinality(Requests)

(* A password that was replaced stays replaced, unless a write of it was due *)
(* when the new one was stored.                                              *)
PasswordIsNewest ==
    \A u \in Live(users) : u \notin overtaken => users[u].word = newest[u]
=============================================================================
