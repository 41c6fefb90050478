---------------------------- MODULE RoleSyncProofs ----------------------------
(***************************************************************************)
(* Theorems about RoleSync, for any number of users, roles, permissions,    *)
(* requests and workers, any queue and any number of retries and deaths.    *)
(***************************************************************************)
EXTENDS RoleSync, FiniteSetTheorems, SequenceTheorems, TLAPS

-----------------------------------------------------------------------------
(* What is under way.                                                       *)

Occupied == {w \in Workers : worker[w] # Idle}

(* Tasks name rows that exist or did, a request has something left to send,  *)
(* whoever registers does so once, and workers insert what they have read.   *)
Named(t) == roles[t.role] # "unused" /\ (t.user = NoUser \/ users[t.user] # "unused")

RequestKnown(x) ==
    /\ x.step = "send" => x.sends # <<>>
    /\ x.step = "edit" => roles[x.role] # "unused"
    /\ x.step \in {"join", "fill"} =>
          /\ users[x.user] # "unused"
          /\ \A r \in x.todo \cup ({x.role} \ {NoRole}) : roles[r] # "unused"
          /\ (x.role = NoRole) <=> (x.step = "join")
          /\ x.role \notin x.todo
WorkKnown(x) ==
    /\ x.step = "insert" => \/ x.task.task = "created" /\ x.found \subseteq Permissions
                            \/ x.task.task = "updated" /\ x.found \subseteq Users
    /\ x.step = "revoke" => x.task.task # "created"

Known ==
    /\ \A t \in Unfinished : Named(t)
    /\ \A q \in Requests : RequestKnown(request[q])
    /\ \A w \in Workers : WorkKnown(worker[w])
    /\ \A p, q \in Requests :
          Enlisted(p) /\ Enlisted(q) /\ request[p].user = request[q].user => p = q

\* Nobody inserts a direct grant twice: so many rows there can be at most.
Grantors(d) == {q \in Requests : At(q, "grant") /\ request[q].direct = d}
DirectBound ==
    \A d \in Direct : direct[d] + Cardinality(Grantors(d)) <= Cardinality(Requests)

-----------------------------------------------------------------------------
(* One role on its own: the tasks that wait for a worker, what the workers   *)
(* have in hand, who is joining it, who holds it and who was granted what.   *)

Waiting(r) ==
    {t \in Task : /\ t.role = r
                  /\ \/ \E q \in Requests : /\ At(q, "send")
                                            /\ \E i \in DOMAIN request[q].sends :
                                                  t = request[q].sends[i]
                     \/ \E i \in DOMAIN queue : t = queue[i]}
Hands(r) == {worker[w] : w \in {x \in Occupied : worker[x].task.role = r}}
Concerns(r) == {q \in Requests : Enlisted(q) /\ r \in request[q].todo \cup {request[q].role}}
Joining(r) == {request[q] : q \in Concerns(r)}
Held(r) == {h[1] : h \in {x \in holds : x[2] = r}}
Rights(r) == {<<g[1], g[2]>> : g \in {x \in grants : x[3] = r}}

Of(G, u) == {p \in Permissions : <<u, p>> \in G}
Tasks(W, H) == W \cup {x.task : x \in H}
Quiet(W, H, J, u) ==
    /\ \A t \in Tasks(W, H) : t.task # "updated" /\ t.user # u
    /\ \A j \in J : j.user # u

\* Nothing of an update has been done, or part of its deletions.
Unapplied(L, I, B, G, t) ==
    \A u \in L : IF u \in B THEN /\ I \ t.added \subseteq Of(G, u)
                                 /\ Of(G, u) \subseteq (I \ t.added) \cup t.removed
                 ELSE Of(G, u) = {}
\* All of an update has been done but for the deletion of what is left.
Applied(L, I, B, G, left) ==
    \A u \in L : IF u \in B THEN I \subseteq Of(G, u) /\ Of(G, u) \subseteq I \cup left
                 ELSE Of(G, u) = {}

\* An update is alone with its role, and the tasks of a user are all the same.
Apart(W, H, J) ==
    /\ \A t, s \in Tasks(W, H) :
          t.task = "updated" \/ t.user = s.user =>
             t.task = s.task /\ t.added = s.added /\ t.removed = s.removed
    /\ \A t \in Tasks(W, H), j \in J : t.task # "updated" /\ t.user # j.user

TaskFits(L, I, B, G, H, t) ==
    /\ t.task = "updated" =>
          /\ t.added \subseteq I /\ t.removed \cap I = {}
          /\ \/ Unapplied(L, I, B, G, t)
             \/ Applied(L, I, B, G, {})
             \/ Applied(L, I, B, G, t.removed) /\ \E x \in H : x.step = "revoke"
    /\ t.task = "created" /\ t.user \in L => t.user \in B /\ Of(G, t.user) \in {{}, I}
    /\ t.task = "deleted" => t.user \notin B

HandFits(L, I, B, G, x) ==
    /\ x.task.task = "updated" =>
          /\ x.step \in {"read", "insert"} => x.todo = x.task.removed
          /\ x.step = "insert" => x.found = B
          /\ x.step = "revoke" => /\ x.todo \subseteq x.task.removed
                                  /\ Applied(L, I, B, G, x.todo)
          /\ x.step = "ack" => Applied(L, I, B, G, {})
    /\ x.task.task = "created" /\ x.task.user \in L =>
          /\ x.step = "insert" => x.found = I
          /\ x.step = "ack" => Of(G, x.task.user) = I
    /\ x.task.task = "deleted" /\ x.step = "ack" => Of(G, x.task.user) = {}

JoinFits(r, L, I, B, G, j) ==
    j.user \in L => /\ Of(G, j.user) = {} /\ j.seen[r] = I
                    /\ r \in j.todo => j.user \notin B
                    /\ j.role = r => j.user \in B

Fits(r, L, I, B, G, W, H, J) ==
    /\ Apart(W, H, J)
    /\ \A t \in Tasks(W, H) : TaskFits(L, I, B, G, H, t)
    /\ \A x \in H : HandFits(L, I, B, G, x)
    /\ \A j \in J : JoinFits(r, L, I, B, G, j)
    /\ \A u \in L : Quiet(W, H, J, u) => Of(G, u) = IF u \in B THEN I ELSE {}

(* A role that nothing came in between of is where its tasks will find it.   *)
FitsNow(r) ==
    Fits(r, Live(users), includes[r], Held(r), Rights(r), Waiting(r), Hands(r), Joining(r))
Settling == \A r \in Live(roles) \ raced : FitsNow(r)

\* All that concerns the role is as it was.
SameRole(r) ==
    /\ Live(users)' = Live(users) /\ includes'[r] = includes[r]
    /\ Held(r)' = Held(r) /\ Rights(r)' = Rights(r)
    /\ Waiting(r)' = Waiting(r) /\ Hands(r)' = Hands(r) /\ Joining(r)' = Joining(r)


-----------------------------------------------------------------------------
(* Records.                                                                 *)

LEMMA TaskFields ==
    ASSUME NEW t \in Task
    PROVE  /\ t.role \in Roles /\ t.retries \in 0 .. MaxRetries
           /\ t.task \in {"created", "deleted", "updated"}
           /\ t.added \in SUBSET Permissions /\ t.removed \in SUBSET Permissions
           /\ t.task = "updated" => t.user = NoUser
           /\ t.task # "updated" => t.user \in Users /\ t.added = {} /\ t.removed = {}
    BY DEF Task

LEMMA NewTasks ==
    /\ \A u \in Users, r \in Roles : Created(u, r) \in Task /\ Deleted(u, r) \in Task
    /\ \A r \in Roles : \A a, d \in SUBSET Permissions : Updated(r, a, d) \in Task
    /\ \A t \in Task : t.retries < MaxRetries => [t EXCEPT !.retries = @ + 1] \in Task
<1>1. \A u \in Users, r \in Roles : Created(u, r) \in Task /\ Deleted(u, r) \in Task
    BY RoleSyncAssumption DEF Created, Deleted, Task
<1>2. \A r \in Roles : \A a, d \in SUBSET Permissions : Updated(r, a, d) \in Task
    BY RoleSyncAssumption DEF Updated, Task
<1>3. \A t \in Task : t.retries < MaxRetries => [t EXCEPT !.retries = @ + 1] \in Task
    BY RoleSyncAssumption DEF Task
<1> QED BY <1>1, <1>2, <1>3

\* The kinds of work and of requests tell themselves apart by their steps.
LEMMA WorkFields ==
    ASSUME NEW x \in Work
    PROVE  /\ x.step \in {"read", "insert", "revoke", "ack"} /\ x.task \in Task
           /\ x.found \in (SUBSET Permissions) \cup (SUBSET Users)
           /\ x.todo \in SUBSET Permissions /\ x # Idle
           /\ x = [step |-> x.step, task |-> x.task, found |-> x.found, todo |-> x.todo]
    BY DEF Work, Idle

Record == Sending \cup Editing \cup Enlisting \cup Granting \cup {Idle}

LEMMA RequestFields ==
    ASSUME NEW x \in Record
    PROVE  /\ x.step = "send" => x \in Sending /\ x.sends \in Seq(Task)
           /\ x.step = "edit" => x \in Editing /\ x.role \in Roles /\ x.old \in SUBSET Permissions
           /\ x.step \in {"join", "fill"} =>
                 /\ x \in Enlisting /\ x.user \in Users /\ x.role \in Roles \cup {NoRole}
                 /\ x.todo \in SUBSET Roles /\ x.seen \in [Roles -> SUBSET Permissions]
           /\ x.step = "grant" => x \in Granting /\ x.direct \in Users \X Permissions
           /\ (x = Idle) <=> (x.step = "idle")
<1>1. CASE x \in Sending
    BY <1>1 DEF Sending, Idle
<1>2. CASE x \in Editing
    BY <1>2 DEF Editing, Idle
<1>3. CASE x \in Enlisting
    BY <1>3 DEF Enlisting, Idle
<1>4. CASE x \in Granting
    BY <1>4 DEF Granting, Idle
<1>5. CASE x = Idle
    BY <1>5 DEF Idle
<1> QED BY <1>1, <1>2, <1>3, <1>4, <1>5 DEF Record

\* What a worker's own steps leave of its work.
LEMMA WorkSteps ==
    ASSUME TypeOK, NEW w \in Workers, worker[w] # Idle
    PROVE  /\ worker[w] \in Work
           /\ \A step \in {"read", "insert", "revoke", "ack"} :
                 Goes(w, step) => worker' = [worker EXCEPT ![w] =
                    [step |-> step, task |-> worker[w].task,
                     found |-> worker[w].found, todo |-> worker[w].todo]]
           /\ Read(w) => worker' = [worker EXCEPT ![w] =
                 [step |-> IF worker[w].task.task = "deleted" THEN "revoke" ELSE "insert",
                  task |-> worker[w].task,
                  found |-> CASE worker[w].task.task = "created" -> includes[worker[w].task.role]
                              [] worker[w].task.task = "updated" ->
                                    {h[1] : h \in {x \in holds : x[2] = worker[w].task.role}}
                              [] worker[w].task.task = "deleted" -> {},
                  todo |-> worker[w].todo]]
           /\ \A p \in Permissions : RevokeOne(w, p) => worker' = [worker EXCEPT ![w] =
                 [step |-> IF worker[w].todo = {p} THEN "ack" ELSE "revoke",
                  task |-> worker[w].task, found |-> worker[w].found,
                  todo |-> worker[w].todo \ {p}]]
<1>1. worker[w] \in Work /\ worker \in [Workers -> Work \cup {Idle}]
    BY DEF TypeOK
<1>2. \A step \in {"read", "insert", "revoke", "ack"} :
          Goes(w, step) => worker' = [worker EXCEPT ![w] =
             [step |-> step, task |-> worker[w].task,
              found |-> worker[w].found, todo |-> worker[w].todo]]
    BY <1>1 DEF Goes, Work
<1>3. ASSUME Read(w)
      PROVE  worker' = [worker EXCEPT ![w] =
                 [step |-> IF worker[w].task.task = "deleted" THEN "revoke" ELSE "insert",
                  task |-> worker[w].task,
                  found |-> CASE worker[w].task.task = "created" -> includes[worker[w].task.role]
                              [] worker[w].task.task = "updated" ->
                                    {h[1] : h \in {x \in holds : x[2] = worker[w].task.role}}
                              [] worker[w].task.task = "deleted" -> {},
                  todo |-> worker[w].todo]]
    <2> DEFINE s == IF worker[w].task.task = "deleted" THEN "revoke" ELSE "insert"
               f == CASE worker[w].task.task = "created" -> includes[worker[w].task.role]
                      [] worker[w].task.task = "updated" ->
                            {h[1] : h \in {x \in holds : x[2] = worker[w].task.role}}
                      [] worker[w].task.task = "deleted" -> {}
    <2>1. worker' = [worker EXCEPT ![w].step = s, ![w].found = f]
        BY <1>3 DEF Read
    <2> HIDE DEF s, f
    <2> DEFINE y == [worker[w] EXCEPT !.step = s]
               z == [y EXCEPT !.found = f]
               new == [step |-> s, task |-> worker[w].task, found |-> f,
                       todo |-> worker[w].todo]
    <2>2. worker' = [worker EXCEPT ![w] = z]
        BY <2>1
    <2>3. y = [step |-> s, task |-> worker[w].task, found |-> worker[w].found,
               todo |-> worker[w].todo]
        BY <1>1 DEF Work
    <2> HIDE DEF y
    <2>4. z = new
        BY <2>3
    <2> HIDE DEF z, new
    <2>5. worker' = [worker EXCEPT ![w] = new]
        BY <2>2, <2>4
    <2> QED BY <2>5 DEF s, f, new
<1>4. ASSUME NEW p \in Permissions, RevokeOne(w, p)
      PROVE  worker' = [worker EXCEPT ![w] =
                 [step |-> IF worker[w].todo = {p} THEN "ack" ELSE "revoke",
                  task |-> worker[w].task, found |-> worker[w].found,
                  todo |-> worker[w].todo \ {p}]]
    <2> DEFINE s == IF worker[w].todo = {p} THEN "ack" ELSE "revoke"
               d == worker[w].todo \ {p}
    <2>1. worker' = [worker EXCEPT ![w].todo = d, ![w].step = s]
        BY <1>4 DEF RevokeOne
    <2> HIDE DEF s, d
    <2> DEFINE y == [worker[w] EXCEPT !.todo = d]
               z == [y EXCEPT !.step = s]
               new == [step |-> s, task |-> worker[w].task, found |-> worker[w].found,
                       todo |-> d]
    <2>2. worker' = [worker EXCEPT ![w] = z]
        BY <2>1
    <2>3. y = [step |-> worker[w].step, task |-> worker[w].task, found |-> worker[w].found,
               todo |-> d]
        BY <1>1 DEF Work
    <2> HIDE DEF y
    <2>4. z = new
        BY <2>3
    <2> HIDE DEF z, new
    <2>5. worker' = [worker EXCEPT ![w] = new]
        BY <2>2, <2>4
    <2> QED BY <2>5 DEF s, d, new
<1> QED BY <1>1, <1>2, <1>3, <1>4

-----------------------------------------------------------------------------
(* Types.                                                                   *)

TablesOK ==
    /\ users \in [Users -> Lives] /\ roles \in [Roles -> Lives]
    /\ includes \in [Roles -> SUBSET Permissions]
    /\ permissions \in [Permissions -> Lives]
    /\ holds \subseteq {h \in Users \X Roles : users[h[1]] = "live" /\ roles[h[2]] = "live"}
    /\ grants \subseteq {g \in Users \X Permissions \X Roles :
                            /\ users[g[1]] = "live" /\ permissions[g[2]] = "live"
                            /\ roles[g[3]] = "live"}
    /\ \A r \in Roles : /\ includes[r] \subseteq Live(permissions)
                        /\ roles[r] # "live" => includes[r] = {}
    /\ direct \in [Direct -> Nat]
FlowOK ==
    /\ queue \in Seq(Task) /\ Len(queue) <= MaxQueue
    /\ worker \in [Workers -> Work \cup {Idle}]
    /\ request \in [Requests -> Record]
    /\ raced \subseteq Roles
    /\ mishaps \in 0 .. MaxMishaps /\ changes \in 0 .. MaxChanges
Types == TablesOK /\ FlowOK /\ DirectBound

LEMMA TypesImplyTypeOK == Types => TypeOK
<1> SUFFICES ASSUME Types PROVE TypeOK
    OBVIOUS
<1>1. direct \in [Direct -> 0 .. Cardinality(Requests)]
    <2>1. Cardinality(Requests) \in Nat
        BY RoleSyncAssumption, FS_CardinalityType
    <2>2. ASSUME NEW d \in Direct
          PROVE  direct[d] \in 0 .. Cardinality(Requests)
        <3>1. IsFiniteSet(Grantors(d))
            BY RoleSyncAssumption, FS_Subset DEF Grantors
        <3>2. Cardinality(Grantors(d)) \in Nat
            BY <3>1, FS_CardinalityType
        <3>3. direct[d] \in Nat
            BY DEF Types, TablesOK
        <3>4. direct[d] + Cardinality(Grantors(d)) <= Cardinality(Requests)
            BY DEF Types, DirectBound
        <3> HIDE DEF Types, DirectBound
        <3> QED BY <2>1, <3>2, <3>3, <3>4
    <2> QED BY <2>2 DEF Types, TablesOK
<1> QED BY <1>1 DEF Types, TablesOK, FlowOK, TypeOK, Record

LEMMA SameTables == TablesOK /\ UNCHANGED tables => TablesOK'
BY DEF TablesOK, tables, Live

\* The same for a part of the variables.
LEMMA FlowSteps ==
    ASSUME FlowOK, queue' = queue, worker' = worker, mishaps' = mishaps,
           changes' = changes \/ (changes < MaxChanges /\ changes' = changes + 1),
           NEW rs \in SUBSET Roles, raced' = raced \cup rs,
           \/ request' = request
           \/ \E q \in Requests, x \in Record : request' = [request EXCEPT ![q] = x]
    PROVE  FlowOK'
<1>1. changes' \in 0 .. MaxChanges
    BY RoleSyncAssumption DEF FlowOK
<1>2. request' \in [Requests -> Record]
    BY DEF FlowOK
<1> QED BY <1>1, <1>2 DEF FlowOK

LEMMA FlowUnraced ==
    ASSUME FlowOK, queue' = queue, worker' = worker, mishaps' = mishaps, raced' = raced,
           changes' = changes \/ (changes < MaxChanges /\ changes' = changes + 1),
           \/ request' = request
           \/ \E q \in Requests, x \in Record : request' = [request EXCEPT ![q] = x]
    PROVE  FlowOK'
<1>1. {} \in SUBSET Roles /\ raced' = raced \cup {}
    OBVIOUS
<1> QED BY <1>1, FlowSteps

\* What requests may become.
LEMMA NewRecords ==
    /\ \A r \in Roles, u \in Users :
          /\ [step |-> "send", sends |-> <<Created(u, r)>>] \in Record
          /\ [step |-> "send", sends |-> <<Deleted(u, r), Deleted(u, r)>>] \in Record
    /\ \A r \in Roles : \A old, new \in SUBSET Permissions :
          /\ [step |-> "edit", role |-> r, old |-> old] \in Record
          /\ [step |-> "send", sends |-> <<Updated(r, new \ old, old \ new)>>] \in Record
    /\ \A s \in Seq(Task) : [step |-> "send", sends |-> s] \in Record
    /\ \A step \in {"join", "fill"}, u \in Users, r \in Roles \cup {NoRole}, todo \in SUBSET Roles,
          seen \in [Roles -> SUBSET Permissions] :
          [step |-> step, user |-> u, role |-> r, todo |-> todo, seen |-> seen] \in Record
    /\ \A d \in Direct : [step |-> "grant", direct |-> d] \in Record
    /\ Idle \in Record
<1> USE DEF Record
<1>1. \A s \in Seq(Task) : [step |-> "send", sends |-> s] \in Record
    BY DEF Sending
<1>2. ASSUME NEW r \in Roles, NEW u \in Users
      PROVE  /\ [step |-> "send", sends |-> <<Created(u, r)>>] \in Record
             /\ [step |-> "send", sends |-> <<Deleted(u, r), Deleted(u, r)>>] \in Record
    <2>1. Created(u, r) \in Task /\ Deleted(u, r) \in Task
        BY NewTasks
    <2>2. <<Created(u, r)>> \in Seq(Task) /\ <<Deleted(u, r), Deleted(u, r)>> \in Seq(Task)
        BY <2>1
    <2> QED BY <1>1, <2>2
<1>3. ASSUME NEW r \in Roles, NEW old \in SUBSET Permissions, NEW new \in SUBSET Permissions
      PROVE  [step |-> "send", sends |-> <<Updated(r, new \ old, old \ new)>>] \in Record
    <2>1. Updated(r, new \ old, old \ new) \in Task
        BY NewTasks
    <2>2. <<Updated(r, new \ old, old \ new)>> \in Seq(Task)
        BY <2>1
    <2> QED BY <1>1, <2>2
<1>4. \A r \in Roles : \A old \in SUBSET Permissions :
          [step |-> "edit", role |-> r, old |-> old] \in Record
    BY DEF Editing
<1>5. \A step \in {"join", "fill"}, u \in Users, r \in Roles \cup {NoRole}, todo \in SUBSET Roles,
          seen \in [Roles -> SUBSET Permissions] :
          [step |-> step, user |-> u, role |-> r, todo |-> todo, seen |-> seen] \in Record
    BY DEF Enlisting
<1>6. \A d \in Direct : [step |-> "grant", direct |-> d] \in Record
    BY RoleSyncAssumption DEF Granting
<1> QED BY <1>1, <1>2, <1>3, <1>4, <1>5, <1>6

\* The steps of a registration, as whole records.
LEMMA EnlistSteps ==
    ASSUME FlowOK, NEW q \in Requests
    PROVE  /\ \A r \in Roles : Join(q, r) => request' = [request EXCEPT ![q] =
                 [step |-> "fill", user |-> request[q].user, role |-> r,
                  todo |-> request[q].todo \ {r}, seen |-> request[q].seen]]
           /\ Fill(q) => request' = [request EXCEPT ![q] =
                 IF request[q].todo = {} THEN Idle
                 ELSE [step |-> "join", user |-> request[q].user, role |-> NoRole,
                       todo |-> request[q].todo, seen |-> request[q].seen]]
           /\ Send(q) => request' = [request EXCEPT ![q] =
                 IF Len(request[q].sends) = 1 THEN Idle
                 ELSE [step |-> "send", sends |-> Tail(request[q].sends)]]
<1>0. request \in [Requests -> Record] /\ request[q] \in Record
    BY DEF FlowOK
<1>1. ASSUME NEW r \in Roles, Join(q, r)
      PROVE  request' = [request EXCEPT ![q] =
                 [step |-> "fill", user |-> request[q].user, role |-> r,
                  todo |-> request[q].todo \ {r}, seen |-> request[q].seen]]
    <2> DEFINE x == request[q]
               x1 == [x EXCEPT !.step = "fill"]
               x2 == [x1 EXCEPT !.role = r]
               d == x.todo \ {r}
               x3 == [x2 EXCEPT !.todo = d]
               new == [step |-> "fill", user |-> x.user, role |-> r, todo |-> d, seen |-> x.seen]
    <2>1. x \in Enlisting
        BY <1>0, <1>1, RequestFields DEF Join, At
    <2>2. request' = [request EXCEPT ![q] = x3]
        BY <1>1 DEF Join
    <2> HIDE DEF d
    <2>3. x1 = [step |-> "fill", user |-> x.user, role |-> x.role, todo |-> x.todo, seen |-> x.seen]
        BY <2>1 DEF Enlisting
    <2> HIDE DEF x1
    <2>4. x2 = [step |-> "fill", user |-> x.user, role |-> r, todo |-> x.todo, seen |-> x.seen]
        BY <2>3
    <2> HIDE DEF x2
    <2>5. x3 = new
        BY <2>4
    <2> HIDE DEF x3, new
    <2>6. request' = [request EXCEPT ![q] = new]
        BY <2>2, <2>5
    <2> QED BY <2>6 DEF new, d
<1>2. ASSUME Fill(q)
      PROVE  request' = [request EXCEPT ![q] =
                 IF request[q].todo = {} THEN Idle
                 ELSE [step |-> "join", user |-> request[q].user, role |-> NoRole,
                       todo |-> request[q].todo, seen |-> request[q].seen]]
    <2> DEFINE x == request[q]
               x1 == [x EXCEPT !.step = "join"]
               x2 == [x1 EXCEPT !.role = NoRole]
               new == [step |-> "join", user |-> x.user, role |-> NoRole, todo |-> x.todo,
                       seen |-> x.seen]
    <2>1. x \in Enlisting
        BY <1>0, <1>2, RequestFields DEF Fill, At
    <2>2. request' = [request EXCEPT ![q] = IF x.todo = {} THEN Idle ELSE x2]
        BY <1>2 DEF Fill
    <2>3. x1 = [step |-> "join", user |-> x.user, role |-> x.role, todo |-> x.todo, seen |-> x.seen]
        BY <2>1 DEF Enlisting
    <2> HIDE DEF x1
    <2>4. x2 = new
        BY <2>3
    <2> HIDE DEF x2, new
    <2>5. request' = [request EXCEPT ![q] = IF x.todo = {} THEN Idle ELSE new]
        BY <2>2, <2>4
    <2> QED BY <2>5 DEF new
<1>3. ASSUME Send(q)
      PROVE  request' = [request EXCEPT ![q] =
                 IF Len(request[q].sends) = 1 THEN Idle
                 ELSE [step |-> "send", sends |-> Tail(request[q].sends)]]
    <2> DEFINE x == request[q]
               s == Tail(x.sends)
               x1 == [x EXCEPT !.sends = s]
               new == [step |-> "send", sends |-> s]
    <2>1. x \in Sending
        BY <1>0, <1>3, RequestFields DEF Send, At
    <2>2. request' = [request EXCEPT ![q] = IF Len(x.sends) = 1 THEN Idle ELSE x1]
        BY <1>3 DEF Send
    <2> HIDE DEF s
    <2>3. x1 = new
        BY <2>1 DEF Sending
    <2> HIDE DEF x1, new
    <2>4. request' = [request EXCEPT ![q] = IF Len(x.sends) = 1 THEN Idle ELSE new]
        BY <2>2, <2>3
    <2> QED BY <2>4 DEF new, s
<1> QED BY <1>1, <1>2, <1>3

\* The tables, action by action.
LEMMA RolesKeepTables ==
    ASSUME TablesOK, NEW q \in Requests, NEW u \in Users, NEW r \in Roles,
           u \in Live(users), r \in Live(roles), AddRole(q, u, r) \/ DeleteRole(q, u, r)
    PROVE  TablesOK'
<1>1. /\ holds' \subseteq holds \cup {<<u, r>>}
      /\ UNCHANGED <<users, roles, includes, permissions, grants, direct>>
    BY DEF AddRole, DeleteRole
<1>2. users[u] = "live" /\ roles[r] = "live"
    BY DEF Live
<1> QED BY <1>1, <1>2 DEF TablesOK, Live

LEMMA CreateRoleKeepsTables ==
    ASSUME TablesOK, NEW r \in Roles, NEW new \in SUBSET Permissions, CreateRole(r, new)
    PROVE  TablesOK'
<1>1. /\ new \subseteq Live(permissions) /\ roles' = [roles EXCEPT ![r] = "live"]
      /\ includes' = [includes EXCEPT ![r] = new]
      /\ UNCHANGED <<users, permissions, holds, grants, direct>>
    BY DEF CreateRole
<1>2. roles' \in [Roles -> Lives] /\ \A x \in Roles : roles[x] = "live" => roles'[x] = "live"
    BY <1>1 DEF TablesOK, Lives
<1>3. /\ includes' \in [Roles -> SUBSET Permissions]
      /\ \A x \in Roles : includes'[x] \subseteq Live(permissions)
      /\ \A x \in Roles : roles'[x] # "live" => includes'[x] = {}
    BY <1>1 DEF TablesOK
<1>4. Live(permissions)' = Live(permissions)
    BY <1>1 DEF Live
<1> QED BY <1>1, <1>2, <1>3, <1>4 DEF TablesOK

LEMMA UpdateRoleKeepsTables ==
    ASSUME TablesOK, FlowOK, NEW q \in Requests, NEW new \in SUBSET Permissions,
           UpdateRole(q, new)
    PROVE  TablesOK'
<1> DEFINE r == request[q].role
           rest == includes[r] \ request[q].old
<1>1. /\ roles[r] = "live" /\ new \subseteq Live(permissions)
      /\ includes' = [includes EXCEPT ![r] = rest \cup new]
      /\ UNCHANGED <<users, roles, permissions, holds, grants, direct>>
    BY DEF UpdateRole
<1>2. r \in Roles
    BY RequestFields DEF UpdateRole, At, FlowOK
<1>3. rest \cup new \subseteq Live(permissions)
    BY <1>1, <1>2 DEF TablesOK
<1> HIDE DEF r, rest
<1>4. /\ includes' \in [Roles -> SUBSET Permissions]
      /\ \A x \in Roles : includes'[x] \subseteq Live(permissions)
      /\ \A x \in Roles : roles'[x] # "live" => includes'[x] = {}
    BY <1>1, <1>2, <1>3 DEF TablesOK, Live
<1>5. Live(permissions)' = Live(permissions)
    BY <1>1 DEF Live
<1> QED BY <1>1, <1>4, <1>5 DEF TablesOK

LEMMA RemovalKeepsTables ==
    ASSUME TablesOK,
           \/ \E r \in Roles : RemoveRole(r)
           \/ \E p \in Permissions : RemovePermission(p)
           \/ \E u \in Users : RemoveUser(u)
    PROVE  TablesOK'
<1>1. ASSUME NEW r \in Roles, RemoveRole(r)
      PROVE  TablesOK'
    <2>1. /\ roles' = [roles EXCEPT ![r] = "deleted"]
          /\ includes' = [includes EXCEPT ![r] = {}]
          /\ holds' = {h \in holds : h[2] # r} /\ grants' = {g \in grants : g[3] # r}
          /\ UNCHANGED <<users, permissions, direct>>
        BY <1>1 DEF RemoveRole
    <2>2. roles' \in [Roles -> Lives] /\ \A x \in Roles : x # r => roles'[x] = roles[x]
        BY <2>1 DEF TablesOK, Lives
    <2>3. /\ includes' \in [Roles -> SUBSET Permissions]
          /\ \A x \in Roles : includes'[x] \subseteq Live(permissions)
          /\ \A x \in Roles : roles'[x] # "live" => includes'[x] = {}
        BY <2>1, <2>2 DEF TablesOK
    <2>4. Live(permissions)' = Live(permissions)
        BY <2>1 DEF Live
    <2>5. holds' \subseteq {h \in Users \X Roles : users'[h[1]] = "live" /\ roles'[h[2]] = "live"}
        BY <2>1, <2>2 DEF TablesOK
    <2>6. grants' \subseteq {g \in Users \X Permissions \X Roles :
                             users'[g[1]] = "live" /\ permissions'[g[2]] = "live" /\ roles'[g[3]] = "live"}
        BY <2>1, <2>2 DEF TablesOK
    <2> QED BY <2>1, <2>2, <2>3, <2>4, <2>5, <2>6 DEF TablesOK
<1>2. ASSUME NEW p \in Permissions, RemovePermission(p)
      PROVE  TablesOK'
    <2>1. /\ permissions' = [permissions EXCEPT ![p] = "deleted"]
          /\ includes' = [r \in Roles |-> includes[r] \ {p}]
          /\ grants' = {g \in grants : g[2] # p}
          /\ direct' = [d \in Direct |-> IF d[2] = p THEN 0 ELSE direct[d]]
          /\ UNCHANGED <<users, roles, holds>>
        BY <1>2 DEF RemovePermission
    <2>2. /\ permissions' \in [Permissions -> Lives]
          /\ \A x \in Permissions : x # p => permissions'[x] = permissions[x]
        BY <2>1 DEF TablesOK, Lives
    <2>3. Live(permissions) \ {p} \subseteq Live(permissions)'
        BY <2>2 DEF Live, TablesOK
    <2>4. direct' \in [Direct -> Nat]
        BY <2>1 DEF TablesOK
    <2>5. grants' \subseteq {g \in Users \X Permissions \X Roles :
                             users'[g[1]] = "live" /\ permissions'[g[2]] = "live" /\ roles'[g[3]] = "live"}
        BY <2>1, <2>2 DEF TablesOK
    <2>6. /\ includes' \in [Roles -> SUBSET Permissions]
          /\ \A r \in Roles : /\ includes'[r] \subseteq Live(permissions)'
                              /\ roles'[r] # "live" => includes'[r] = {}
        BY <2>1, <2>3 DEF TablesOK
    <2> QED BY <2>1, <2>2, <2>4, <2>5, <2>6 DEF TablesOK
<1>3. ASSUME NEW u \in Users, RemoveUser(u)
      PROVE  TablesOK'
    <2>1. /\ users' = [users EXCEPT ![u] = "deleted"]
          /\ holds' = {h \in holds : h[1] # u} /\ grants' = {g \in grants : g[1] # u}
          /\ direct' = [d \in Direct |-> IF d[1] = u THEN 0 ELSE direct[d]]
          /\ UNCHANGED <<roles, includes, permissions>>
        BY <1>3 DEF RemoveUser
    <2>2. users' \in [Users -> Lives] /\ \A x \in Users : x # u => users'[x] = users[x]
        BY <2>1 DEF TablesOK, Lives
    <2>3. direct' \in [Direct -> Nat]
        BY <2>1 DEF TablesOK
    <2>4. Live(permissions)' = Live(permissions)
        BY <2>1 DEF Live
    <2>5. holds' \subseteq {h \in Users \X Roles : users'[h[1]] = "live" /\ roles'[h[2]] = "live"}
        BY <2>1, <2>2 DEF TablesOK
    <2>6. grants' \subseteq {g \in Users \X Permissions \X Roles :
                             users'[g[1]] = "live" /\ permissions'[g[2]] = "live" /\ roles'[g[3]] = "live"}
        BY <2>1, <2>2 DEF TablesOK
    <2> QED BY <2>1, <2>2, <2>3, <2>4, <2>5, <2>6 DEF TablesOK
<1> QED BY <1>1, <1>2, <1>3

LEMMA AdditionKeepsTables ==
    ASSUME TablesOK,
           \/ \E p \in Permissions : CreatePermission(p)
           \/ \E q \in Requests, u \in Users : Register(q, u)
           \/ \E d \in Direct : RevokeDirect(d)
           \/ \E q \in Requests : GrantDirect(q) /\ request[q].direct \in Users \X Permissions
    PROVE  TablesOK'
<1>1. ASSUME NEW p \in Permissions, CreatePermission(p)
      PROVE  TablesOK'
    <2>1. /\ permissions' = [permissions EXCEPT ![p] = "live"]
          /\ UNCHANGED <<users, roles, includes, holds, grants, direct>>
        BY <1>1 DEF CreatePermission
    <2>2. /\ permissions' \in [Permissions -> Lives]
          /\ \A x \in Permissions : permissions[x] = "live" => permissions'[x] = "live"
        BY <2>1 DEF TablesOK, Lives
    <2>3. Live(permissions) \subseteq Live(permissions)'
        BY <2>2 DEF Live, TablesOK
    <2> QED BY <2>1, <2>2, <2>3 DEF TablesOK
<1>2. ASSUME NEW q \in Requests, NEW u \in Users, Register(q, u)
      PROVE  TablesOK'
    <2>1. /\ users' = [users EXCEPT ![u] = "live"]
          /\ UNCHANGED <<roles, includes, permissions, holds, grants, direct>>
        BY <1>2 DEF Register
    <2>2. /\ users' \in [Users -> Lives]
          /\ \A x \in Users : users[x] = "live" => users'[x] = "live"
        BY <2>1 DEF TablesOK, Lives
    <2>3. Live(permissions)' = Live(permissions)
        BY <2>1 DEF Live
    <2> QED BY <2>1, <2>2, <2>3 DEF TablesOK
<1>3. ASSUME direct' \in [Direct -> Nat],
             UNCHANGED <<users, roles, includes, permissions, holds, grants>>
      PROVE  TablesOK'
    BY <1>3 DEF TablesOK, Live
<1>4. ASSUME NEW d \in Direct, RevokeDirect(d)
      PROVE  TablesOK'
    BY <1>3, <1>4 DEF RevokeDirect, TablesOK
<1>5. ASSUME NEW q \in Requests, GrantDirect(q)
      PROVE  TablesOK'
    <2> DEFINE d == request[q].direct
    <2>1. direct' = [direct EXCEPT ![d] = @ + 1] \/ direct' = direct
        BY <1>5 DEF GrantDirect
    <2> HIDE DEF d
    <2>2. direct' \in [Direct -> Nat]
        BY <2>1 DEF TablesOK
    <2> QED BY <1>3, <1>5, <2>2 DEF GrantDirect
<1> QED BY <1>1, <1>2, <1>4, <1>5

\* Rows that are inserted together, and rows that are deleted.
LEMMA InsertKeepsTables ==
    ASSUME TablesOK, NEW rows \in SUBSET (Users \X Permissions \X Roles), Insertable(rows),
           grants' = grants \cup rows,
           UNCHANGED <<users, roles, includes, permissions, holds, direct>>
    PROVE  TablesOK'
<1>1. \A g \in rows : users[g[1]] = "live" /\ permissions[g[2]] = "live" /\ roles[g[3]] = "live"
    BY DEF Insertable, Live
<1> QED BY <1>1 DEF TablesOK, Live

LEMMA RevocationKeepsTables ==
    ASSUME TablesOK, grants' \subseteq grants,
           UNCHANGED <<users, roles, includes, permissions, holds, direct>>
    PROVE  TablesOK'
BY DEF TablesOK, Live

LEMMA JoinKeepsTables ==
    ASSUME TablesOK, FlowOK, NEW q \in Requests, NEW r \in Roles, Join(q, r)
    PROVE  TablesOK'
<1> DEFINE u == request[q].user
<1>1. /\ users[u] = "live" /\ roles[r] = "live" /\ holds' = holds \cup {<<u, r>>}
      /\ UNCHANGED <<users, roles, includes, permissions, grants, direct>>
    BY DEF Join
<1>2. u \in Users
    BY RequestFields DEF Join, At, FlowOK
<1> HIDE DEF u
<1> QED BY <1>1, <1>2 DEF TablesOK, Live

\* The rows that a task, or a registration, is about to insert.
LEMMA BatchType ==
    ASSUME FlowOK, TablesOK
    PROVE  /\ \A w \in Workers : Insert(w) /\ Known => Batch(w) \subseteq Users \X Permissions \X Roles
           /\ \A q \in Requests : At(q, "fill") /\ Known =>
                 /\ request[q].user \in Users /\ request[q].role \in Roles
                 /\ request[q].todo \in SUBSET Roles
                 /\ request[q].seen[request[q].role] \in SUBSET Permissions
                 /\ Rows({request[q].user}, request[q].seen[request[q].role], request[q].role)
                       \subseteq Users \X Permissions \X Roles
<1>1. ASSUME NEW w \in Workers, Insert(w), Known
      PROVE  Batch(w) \subseteq Users \X Permissions \X Roles
    <2>1. worker[w] # Idle /\ Working(w, "insert")
        BY <1>1 DEF Insert, Working, Idle
    <2>2. worker[w] \in Work
        BY <2>1 DEF FlowOK
    <2>3. worker[w].task \in Task
        BY <2>2, WorkFields
    <2>4. /\ worker[w].task.role \in Roles /\ worker[w].task.added \in SUBSET Permissions
          /\ worker[w].task.task # "updated" => worker[w].task.user \in Users
        BY <2>3, TaskFields
    <2>5. CASE worker[w].task.task = "created" /\ worker[w].found \subseteq Permissions
        BY <2>4, <2>5 DEF Batch, Rows
    <2>6. CASE worker[w].task.task = "updated" /\ worker[w].found \subseteq Users
        BY <2>4, <2>6 DEF Batch, Rows
    <2> QED BY <1>1, <2>1, <2>5, <2>6 DEF Known, WorkKnown, Working
<1>2. ASSUME NEW q \in Requests, At(q, "fill"), Known
      PROVE  /\ request[q].user \in Users /\ request[q].role \in Roles
             /\ request[q].todo \in SUBSET Roles
             /\ request[q].seen[request[q].role] \in SUBSET Permissions
             /\ Rows({request[q].user}, request[q].seen[request[q].role], request[q].role)
                   \subseteq Users \X Permissions \X Roles
    <2>1. /\ request[q].user \in Users /\ request[q].role \in Roles \cup {NoRole}
          /\ request[q].todo \in SUBSET Roles /\ request[q].seen \in [Roles -> SUBSET Permissions]
        BY <1>2, RequestFields DEF FlowOK, At
    <2>2. request[q].role # NoRole
        BY <1>2 DEF Known, RequestKnown, At
    <2>3. request[q].seen[request[q].role] \in SUBSET Permissions
        BY <2>1, <2>2
    <2> QED BY <2>1, <2>2, <2>3 DEF Rows
<1> QED BY <1>1, <1>2

-----------------------------------------------------------------------------
(* Where tasks are.                                                         *)

LEMMA UnfinishedTasks ==
    ASSUME FlowOK
    PROVE  /\ Unfinished \subseteq Task
           /\ \A t : t \in Unfinished <=>
                 \/ \E q \in Requests : /\ At(q, "send")
                                        /\ \E i \in DOMAIN request[q].sends :
                                              t = request[q].sends[i]
                 \/ \E i \in DOMAIN queue : t = queue[i]
                 \/ \E w \in Workers : worker[w] # Idle /\ t = worker[w].task
<1>1. \A t : t \in Unfinished <=>
          \/ \E q \in Requests : At(q, "send") /\ \E i \in DOMAIN request[q].sends :
                                                    t = request[q].sends[i]
          \/ \E i \in DOMAIN queue : t = queue[i]
          \/ \E w \in Workers : worker[w] # Idle /\ t = worker[w].task
    <2> DEFINE A == UNION {{request[q].sends[i] : i \in DOMAIN request[q].sends} :
                              q \in {x \in Requests : At(x, "send")}}
               B == {queue[i] : i \in DOMAIN queue}
               C == {worker[w].task : w \in {x \in Workers : worker[x] # Idle}}
    <2>1. \A t : t \in A <=> \E q \in Requests : /\ At(q, "send")
                                                 /\ \E i \in DOMAIN request[q].sends :
                                                       t = request[q].sends[i]
        OBVIOUS
    <2>2. \A t : t \in B <=> \E i \in DOMAIN queue : t = queue[i]
        OBVIOUS
    <2>3. \A t : t \in C <=> \E w \in Workers : worker[w] # Idle /\ t = worker[w].task
        OBVIOUS
    <2>4. Unfinished = A \cup B \cup C
        BY DEF Unfinished
    <2> HIDE DEF A, B, C
    <2> QED BY <2>1, <2>2, <2>3, <2>4
<1>2. \A q \in Requests : At(q, "send") => \A i \in DOMAIN request[q].sends :
          request[q].sends[i] \in Task
    BY RequestFields DEF FlowOK, At
<1>3. \A i \in DOMAIN queue : queue[i] \in Task
    BY DEF FlowOK
<1>4. \A w \in Workers : worker[w] # Idle => worker[w].task \in Task
    BY WorkFields DEF FlowOK
<1> QED BY <1>1, <1>2, <1>3, <1>4

\* The tasks of a role are those that wait and those in hand.
LEMMA TasksOfRole ==
    ASSUME FlowOK, NEW r
    PROVE  /\ \A t : t \in Tasks(Waiting(r), Hands(r)) <=> t \in Unfinished /\ t.role = r
           /\ Waiting(r) \subseteq Task
           /\ \A x \in Hands(r) : /\ x \in Work /\ x # Idle /\ x.task.role = r
                                  /\ \E w \in Workers : x = worker[w]
           /\ \A w \in Workers : worker[w] # Idle /\ worker[w].task.role = r => worker[w] \in Hands(r)
<1>1. \A x : x \in Hands(r) <=> \E w \in Workers : /\ worker[w] # Idle /\ worker[w].task.role = r
                                                    /\ x = worker[w]
    BY DEF Hands, Occupied
<1>2. \A x \in Hands(r) : x \in Work /\ x # Idle /\ x.task.role = r
    BY <1>1 DEF FlowOK
<1>3. ASSUME NEW t
      PROVE  t \in Tasks(Waiting(r), Hands(r)) <=> t \in Unfinished /\ t.role = r
    <2>1. t \in Tasks(Waiting(r), Hands(r)) <=>
             \/ t \in Waiting(r)
             \/ \E w \in Workers : worker[w] # Idle /\ worker[w].task.role = r /\ t = worker[w].task
        BY <1>1 DEF Tasks
    <2>2. t \in Unfinished <=>
             \/ \E q \in Requests : At(q, "send") /\ \E i \in DOMAIN request[q].sends :
                                                    t = request[q].sends[i]
             \/ \E i \in DOMAIN queue : t = queue[i]
             \/ \E w \in Workers : worker[w] # Idle /\ t = worker[w].task
        BY UnfinishedTasks
    <2>3. t \in Unfinished => t \in Task
        BY UnfinishedTasks
    <2> QED BY <2>1, <2>2, <2>3 DEF Waiting
<1> QED BY <1>1, <1>2, <1>3 DEF Waiting

\* What is under way of a role, for a user or for all.
LEMMA PendingOrQuiet ==
    ASSUME FlowOK, NEW r, r # NoRole
    PROVE  /\ \A u : (~Pending(r, {u})) <=> Quiet(Waiting(r), Hands(r), Joining(r), u)
           /\ Pending(r, {}) <=> \E t \in Tasks(Waiting(r), Hands(r)) : t.task = "updated"
           /\ ~Pending(r, Users) => Tasks(Waiting(r), Hands(r)) = {} /\ Joining(r) = {}
<1>1. \A t : t \in Tasks(Waiting(r), Hands(r)) <=> t \in Unfinished /\ t.role = r
    BY TasksOfRole
<1>2. \A j : j \in Joining(r) <=> \E q \in Requests :
          Enlisted(q) /\ r \in request[q].todo \cup {request[q].role} /\ j = request[q]
    BY DEF Joining, Concerns
<1>3. \A who : Pending(r, who) <=>
          \/ \E t \in Tasks(Waiting(r), Hands(r)) : t.task = "updated" \/ t.user \in who
          \/ \E j \in Joining(r) : j.user \in who
    BY <1>1, <1>2 DEF Pending
<1>4. \A t \in Tasks(Waiting(r), Hands(r)) : t.task # "updated" => t.user \in Users
    BY <1>1, UnfinishedTasks, TaskFields
<1>5. \A j \in Joining(r) : j.user \in Users
    BY <1>2, RequestFields DEF Enlisted, At, FlowOK
<1>6. \A u : (~Pending(r, {u})) <=> Quiet(Waiting(r), Hands(r), Joining(r), u)
    BY <1>3 DEF Quiet
<1> HIDE DEF Pending
<1>7. Pending(r, {}) <=> \E t \in Tasks(Waiting(r), Hands(r)) : t.task = "updated"
    BY <1>3
<1>8. ~Pending(r, Users) => Tasks(Waiting(r), Hands(r)) = {} /\ Joining(r) = {}
    BY <1>3, <1>4, <1>5
<1> QED BY <1>6, <1>7, <1>8

\* All of a role that waits or is being joined, where only its tasks are in the way.
LEMMA RacedType ==
    ASSUME FlowOK
    PROVE  /\ \A q \in Requests : At(q, "send") =>
                 {request[q].sends[i].role : i \in DOMAIN request[q].sends} \in SUBSET Roles
           /\ \A q \in Requests : Enlisted(q) =>
                 request[q].todo \cup ({request[q].role} \ {NoRole}) \in SUBSET Roles
<1>1. ASSUME NEW q \in Requests, At(q, "send"), NEW i \in DOMAIN request[q].sends
      PROVE  request[q].sends[i].role \in Roles
    BY <1>1, RequestFields, TaskFields DEF FlowOK, At
<1>2. ASSUME NEW q \in Requests, Enlisted(q)
      PROVE  request[q].todo \cup ({request[q].role} \ {NoRole}) \in SUBSET Roles
    BY <1>2, RequestFields DEF FlowOK, Enlisted, At
<1> QED BY <1>1, <1>2

-----------------------------------------------------------------------------
(* What a change of one request, or of one worker, does to all of this.     *)

Becomes(q, x) == request' = [request EXCEPT ![q] = x]
Has(w, x) == worker' = [worker EXCEPT ![w] = x]

Ages ==
    /\ \A u \in Users : users[u] # "unused" => users'[u] # "unused"
    /\ \A r \in Roles : roles[r] # "unused" => roles'[r] # "unused"

LEMMA SameAges == users' = users /\ roles' = roles => Ages
BY DEF Ages

LEMMA KnownFrom ==
    ASSUME FlowOK, Known, Ages,
           \A t \in Unfinished' : t \in Unfinished \/ Named(t)',
           \A q \in Requests : request'[q] = request[q] \/ RequestKnown(request[q])',
           \A w \in Workers : worker'[w] = worker[w] \/ WorkKnown(worker[w])',
           \A p, q \in Requests : Enlisted(p)' /\ Enlisted(q)'
               /\ request'[p].user = request'[q].user => p = q
    PROVE  Known'
<1>1. ASSUME NEW t \in Unfinished'
      PROVE  Named(t)'
    <2>1. CASE t \in Unfinished
        <3>1. Named(t) /\ t \in Task
            BY <2>1, UnfinishedTasks DEF Known
        <3>2. t.role \in Roles /\ (t.user = NoUser \/ t.user \in Users)
            BY <3>1, TaskFields
        <3> QED BY <3>1, <3>2 DEF Named, Ages
    <2> QED BY <1>1, <2>1
<1>2. ASSUME NEW q \in Requests
      PROVE  RequestKnown(request[q])'
    <2>1. CASE request'[q] = request[q]
        <3> DEFINE x == request[q]
        <3>1. RequestKnown(request[q])
            BY DEF Known
        <3>2. request[q] \in Record
            BY DEF FlowOK
        <3>3. /\ x.step = "edit" => x.role \in Roles
              /\ x.step \in {"join", "fill"} => /\ x.user \in Users /\ x.todo \in SUBSET Roles
                                                /\ x.role \in Roles \cup {NoRole}
            BY <3>2, RequestFields
        <3> QED BY <2>1, <3>1, <3>3 DEF RequestKnown, Ages
    <2> QED BY <2>1
<1>3. \A w \in Workers : WorkKnown(worker[w])'
    BY DEF Known, WorkKnown
<1> QED BY <1>1, <1>2, <1>3 DEF Known

LEMMA DirectFrom ==
    ASSUME Types, TablesOK',
           \A d \in Direct : direct'[d] <= direct[d] /\ Grantors(d)' \subseteq Grantors(d)
    PROVE  DirectBound'
<1> SUFFICES ASSUME NEW d \in Direct
             PROVE  direct'[d] + Cardinality(Grantors(d)') <= Cardinality(Requests)
    BY DEF DirectBound
<1>1. IsFiniteSet(Grantors(d)) /\ Cardinality(Requests) \in Nat
    BY RoleSyncAssumption, FS_Subset, FS_CardinalityType DEF Grantors
<1>2. /\ Cardinality(Grantors(d)) \in Nat /\ Cardinality(Grantors(d)') \in Nat
      /\ Cardinality(Grantors(d)') <= Cardinality(Grantors(d))
    <2>1. Grantors(d)' \subseteq Grantors(d)
        OBVIOUS
    <2> QED BY <1>1, <2>1, FS_Subset, FS_CardinalityType
<1>3. direct[d] \in Nat /\ direct'[d] \in Nat /\ direct'[d] <= direct[d]
    BY DEF Types, TablesOK
<1>4. direct[d] + Cardinality(Grantors(d)) <= Cardinality(Requests)
    BY DEF Types, DirectBound
<1> QED BY <1>1, <1>2, <1>3, <1>4

\* Where no request begins to insert a direct grant.
LEMMA NoNewGrantor ==
    ASSUME Types, TablesOK', \A d \in Direct : direct'[d] <= direct[d],
           \/ request' = request
           \/ \E q \in Requests, x \in Record :
                 x.step # "grant" /\ request' = [request EXCEPT ![q] = x]
    PROVE  DirectBound'
<1>1. \A d \in Direct : Grantors(d)' \subseteq Grantors(d)
    <2>1. ASSUME NEW q \in Requests, NEW x \in Record, x.step # "grant",
                 request' = [request EXCEPT ![q] = x]
          PROVE  \A d \in Direct : Grantors(d)' \subseteq Grantors(d)
        <3>1. \A p \in Requests : request'[p] = IF p = q THEN x ELSE request[p]
            BY <2>1 DEF Types, FlowOK
        <3> QED BY <2>1, <3>1 DEF Grantors, At
    <2>2. CASE request' = request
        BY <2>2 DEF Grantors, At
    <2> QED BY <2>1, <2>2
<1> QED BY <1>1, DirectFrom

LEMMA SameDirect ==
    ASSUME TablesOK, direct' = direct
    PROVE  \A d \in Direct : direct'[d] <= direct[d]
BY DEF TablesOK

\* A change of one request on the list of tasks, and on those who join a role.
LEMMA RequestViews ==
    ASSUME FlowOK, NEW q \in Requests, NEW x \in Record,
           Becomes(q, x), queue' = queue, worker' = worker
    PROVE  /\ \A r : Hands(r)' = Hands(r)
           /\ \A p \in Requests : request'[p] = IF p = q THEN x ELSE request[p]
           /\ ~At(q, "send") /\ x.step # "send" =>
                 \A r : Waiting(r)' = Waiting(r)
           /\ ~At(q, "send") /\ x.step = "send" =>
                 \A r : Waiting(r)' = Waiting(r)
                           \cup {t \in Task : t.role = r /\ \E i \in DOMAIN x.sends : t = x.sends[i]}
           /\ At(q, "send") /\ x.step # "send" =>
                 \A r : (\A i \in DOMAIN request[q].sends : request[q].sends[i].role # r)
                           => Waiting(r)' = Waiting(r)
           /\ ~Enlisted(q) /\ x.step \notin {"join", "fill"} =>
                 \A r : Joining(r)' = Joining(r)
<1>1. \A p \in Requests : request'[p] = IF p = q THEN x ELSE request[p]
    BY DEF FlowOK, Becomes
<1>2. \A r : Hands(r)' = Hands(r)
    BY DEF Hands, Occupied
<1> DEFINE Sent(p, t) == At(p, "send") /\ \E i \in DOMAIN request[p].sends : t = request[p].sends[i]
<1>3. \A r, t : t \in Waiting(r) <=> t \in Task /\ t.role = r
                   /\ ((\E p \in Requests : Sent(p, t)) \/ \E i \in DOMAIN queue : t = queue[i])
    BY DEF Waiting
<1>4. \A r, t : t \in Waiting(r)' <=> t \in Task /\ t.role = r
                   /\ ((\E p \in Requests : Sent(p, t)') \/ \E i \in DOMAIN queue : t = queue[i])
    BY DEF Waiting
<1>5. \A p \in Requests \ {q} : \A t : Sent(p, t)' <=> Sent(p, t)
    BY <1>1 DEF At
<1>6. \A t : Sent(q, t)' <=> x.step = "send" /\ \E i \in DOMAIN x.sends : t = x.sends[i]
    BY <1>1 DEF At
<1>7. ASSUME ~At(q, "send"), x.step # "send", NEW r
      PROVE  Waiting(r)' = Waiting(r)
    <2>1. \A t : Sent(q, t)' <=> Sent(q, t)
        BY <1>6, <1>7
    <2> HIDE DEF Sent
    <2>2. \A t : t \in Waiting(r)' <=> t \in Waiting(r)
        BY <1>3, <1>4, <1>5, <2>1
    <2> QED BY <2>2
<1>8. ASSUME ~At(q, "send"), x.step = "send", NEW r
      PROVE  Waiting(r)' = Waiting(r)
                \cup {t \in Task : t.role = r /\ \E i \in DOMAIN x.sends : t = x.sends[i]}
    <2>1. \A t : ~Sent(q, t)
        BY <1>8
    <2>2. \A t : Sent(q, t)' <=> \E i \in DOMAIN x.sends : t = x.sends[i]
        BY <1>6, <1>8
    <2> DEFINE N == {t \in Task : t.role = r /\ \E i \in DOMAIN x.sends : t = x.sends[i]}
    <2>3. \A t : t \in N <=> t \in Task /\ t.role = r /\ Sent(q, t)'
        BY <2>2
    <2> HIDE DEF Sent, N
    <2>4. \A t : t \in Waiting(r)' <=> t \in Waiting(r) \cup N
        BY <1>3, <1>4, <1>5, <2>1, <2>3
    <2>5. Waiting(r)' = Waiting(r) \cup N
        BY <2>4
    <2> QED BY <2>5 DEF N
<1>9. ASSUME At(q, "send"), x.step # "send", NEW r,
             \A i \in DOMAIN request[q].sends : request[q].sends[i].role # r
      PROVE  Waiting(r)' = Waiting(r)
    <2>1. \A t : t.role = r => ~Sent(q, t) /\ ~Sent(q, t)'
        BY <1>6, <1>9
    <2> HIDE DEF Sent
    <2>2. \A t : t \in Waiting(r)' <=> t \in Waiting(r)
        BY <1>3, <1>4, <1>5, <2>1
    <2> QED BY <2>2
<1>10. ASSUME ~Enlisted(q), x.step \notin {"join", "fill"}, NEW r
       PROVE  Joining(r)' = Joining(r)
    <2>1. Concerns(r)' = Concerns(r) /\ q \notin Concerns(r)
        BY <1>1, <1>10 DEF Concerns, Enlisted, At
    <2>2. \A p \in Concerns(r) : request'[p] = request[p]
        BY <1>1, <2>1 DEF Concerns
    <2> QED BY <2>1, <2>2 DEF Joining
<1> QED BY <1>1, <1>2, <1>7, <1>8, <1>9, <1>10

\* A change of one worker, and of the queue.
LEMMA WorkerViews ==
    ASSUME FlowOK, NEW w \in Workers, NEW x \in Work \cup {Idle},
           Has(w, x), request' = request
    PROVE  /\ \A p \in Workers : worker'[p] = IF p = w THEN x ELSE worker[p]
           /\ \A r : /\ Joining(r)' = Joining(r)
                     /\ \A y \in Hands(r)' : y \in Hands(r) \/ (y = x /\ x # Idle /\ x.task.role = r)
                     /\ Hands(r) \ {worker[w]} \subseteq Hands(r)'
                     /\ x # Idle /\ x.task.role = r => x \in Hands(r)'
                     /\ /\ worker[w] # Idle => worker[w].task.role # r
                        /\ x # Idle => x.task.role # r
                        => Hands(r)' = Hands(r)
<1>1. \A p \in Workers : worker'[p] = IF p = w THEN x ELSE worker[p]
    BY DEF FlowOK, Has
<1>2. \A r, y : y \in Hands(r) <=>
          \E p \in Workers : worker[p] # Idle /\ worker[p].task.role = r /\ y = worker[p]
    BY DEF Hands, Occupied
<1>3. \A r, y : y \in Hands(r)' <=>
          \E p \in Workers : worker'[p] # Idle /\ worker'[p].task.role = r /\ y = worker'[p]
    BY DEF Hands, Occupied
<1>4. ASSUME NEW r
      PROVE  /\ Joining(r)' = Joining(r)
             /\ \A y \in Hands(r)' : y \in Hands(r) \/ (y = x /\ x # Idle /\ x.task.role = r)
             /\ Hands(r) \ {worker[w]} \subseteq Hands(r)'
             /\ x # Idle /\ x.task.role = r => x \in Hands(r)'
    <2>1. Joining(r)' = Joining(r)
        BY DEF Joining, Concerns, Enlisted, At
    <2>2. \A y \in Hands(r)' : y \in Hands(r) \/ (y = x /\ x # Idle /\ x.task.role = r)
        BY <1>1, <1>2, <1>3
    <2>3. Hands(r) \ {worker[w]} \subseteq Hands(r)'
        BY <1>1, <1>2, <1>3
    <2>4. x # Idle /\ x.task.role = r => x \in Hands(r)'
        BY <1>1, <1>3
    <2> QED BY <2>1, <2>2, <2>3, <2>4
<1>5. ASSUME NEW r, worker[w] # Idle => worker[w].task.role # r, x # Idle => x.task.role # r
      PROVE  Hands(r)' = Hands(r)
    <2>1. \A y : y \in Hands(r)' <=> y \in Hands(r)
        BY <1>1, <1>2, <1>3, <1>5
    <2> QED BY <2>1
<1> QED BY <1>1, <1>4, <1>5

LEMMA QueueViews ==
    ASSUME FlowOK, request' = request
    PROVE  /\ queue' = queue => \A r : Waiting(r)' = Waiting(r)
           /\ \A t \in Task : queue' = Append(queue, t) =>
                 \A r : Waiting(r)' = Waiting(r) \cup (IF t.role = r THEN {t} ELSE {})
           /\ queue # <<>> /\ queue' = Tail(queue) =>
                 /\ Head(queue) \in Task
                 /\ \A r : Waiting(r) = Waiting(r)'
                              \cup (IF Head(queue).role = r THEN {Head(queue)} ELSE {})
<1> DEFINE Sent(t) == \E p \in Requests : /\ At(p, "send")
                                          /\ \E i \in DOMAIN request[p].sends :
                                                t = request[p].sends[i]
<1>1. \A r, t : t \in Waiting(r) <=>
          t \in Task /\ t.role = r /\ (Sent(t) \/ \E i \in DOMAIN queue : t = queue[i])
    BY DEF Waiting
<1>2. \A r, t : t \in Waiting(r)' <=>
          t \in Task /\ t.role = r /\ (Sent(t) \/ \E i \in DOMAIN queue' : t = queue'[i])
    BY DEF Waiting, At
<1> HIDE DEF Sent
<1>0. queue \in Seq(Task)
    BY DEF FlowOK
<1>3. ASSUME queue' = queue, NEW r
      PROVE  Waiting(r)' = Waiting(r)
    <2>1. \A t : t \in Waiting(r)' <=> t \in Waiting(r)
        BY <1>1, <1>2, <1>3
    <2> QED BY <2>1
<1>4. ASSUME NEW s \in Task, queue' = Append(queue, s), NEW r
      PROVE  Waiting(r)' = Waiting(r) \cup (IF s.role = r THEN {s} ELSE {})
    <2>1. \A t : (\E i \in DOMAIN queue' : t = queue'[i])
                     <=> t = s \/ \E i \in DOMAIN queue : t = queue[i]
        <3>1. /\ DOMAIN queue = 1 .. Len(queue) /\ DOMAIN queue' = 1 .. Len(queue) + 1
              /\ Len(queue) \in Nat /\ queue'[Len(queue) + 1] = s
              /\ \A i \in 1 .. Len(queue) : queue'[i] = queue[i]
            BY <1>0, <1>4
        <3> QED BY <3>1
    <2>2. \A t : t \in Waiting(r)' <=> t \in Waiting(r) \/ (t = s /\ s.role = r)
        BY <1>1, <1>2, <2>1
    <2> QED BY <2>2
<1>5. ASSUME queue # <<>>, queue' = Tail(queue)
      PROVE  /\ Head(queue) \in Task
             /\ \A r : Waiting(r) = Waiting(r)'
                          \cup (IF Head(queue).role = r THEN {Head(queue)} ELSE {})
    <2>1. /\ DOMAIN queue = 1 .. Len(queue) /\ DOMAIN queue' = 1 .. Len(queue) - 1
          /\ Len(queue) \in Nat \ {0} /\ Head(queue) = queue[1]
          /\ \A i \in 1 .. Len(queue) - 1 : queue'[i] = queue[i + 1]
        BY <1>0, <1>5
    <2>2. Head(queue) \in Task
        BY <1>0, <1>5
    <2>3. \A t : (\E i \in DOMAIN queue : t = queue[i])
                     <=> t = Head(queue) \/ \E i \in DOMAIN queue' : t = queue'[i]
        <3>1. ASSUME NEW i \in DOMAIN queue
              PROVE  queue[i] = Head(queue) \/ \E j \in DOMAIN queue' : queue[i] = queue'[j]
            <4>1. i = 1 \/ (i - 1 \in DOMAIN queue' /\ queue'[i - 1] = queue[i])
                BY <2>1
            <4> QED BY <2>1, <4>1
        <3>2. ASSUME NEW j \in DOMAIN queue'
              PROVE  \E i \in DOMAIN queue : queue'[j] = queue[i]
            <4>1. j + 1 \in DOMAIN queue /\ queue'[j] = queue[j + 1]
                BY <2>1
            <4> QED BY <4>1
        <3>3. 1 \in DOMAIN queue
            BY <2>1
        <3> QED BY <2>1, <3>1, <3>2, <3>3
    <2>4. ASSUME NEW r
          PROVE  Waiting(r) = Waiting(r)' \cup (IF Head(queue).role = r THEN {Head(queue)} ELSE {})
        <3>1. \A t : t \in Waiting(r) <=>
                  t \in Waiting(r)' \/ (t = Head(queue) /\ Head(queue).role = r)
            BY <1>1, <1>2, <2>2, <2>3
        <3> QED BY <3>1
    <2> QED BY <2>2, <2>4
<1> QED BY <1>3, <1>4, <1>5

\* Sending a task does not change where it waits.
LEMMA SendViews ==
    ASSUME FlowOK, Known, NEW q \in Requests, Send(q)
    PROVE  /\ \A r : Waiting(r)' = Waiting(r) /\ Hands(r)' = Hands(r) /\ Joining(r)' = Joining(r)
           /\ \E x \in Record : /\ x.step \in {"send", "idle"} /\ (x.step = "send" => x.sends # <<>>)
                                /\ request' = [request EXCEPT ![q] = x]
           /\ Head(request[q].sends) \in Task
<1> DEFINE s == request[q].sends
           x == IF Len(s) = 1 THEN Idle ELSE [step |-> "send", sends |-> Tail(s)]
<1>1. s \in Seq(Task) /\ s # <<>>
    <2>1. request[q] \in Record /\ request[q].step = "send"
        BY DEF Send, At, FlowOK
    <2> QED BY <2>1, RequestFields DEF Known, RequestKnown
<1>2. /\ request' = [request EXCEPT ![q] = x] /\ queue' = Append(queue, Head(s))
      /\ worker' = worker /\ At(q, "send")
    BY EnlistSteps DEF Send
<1>3. /\ DOMAIN s = 1 .. Len(s) /\ Len(s) \in Nat \ {0} /\ Head(s) = s[1] /\ Head(s) \in Task
      /\ Tail(s) \in Seq(Task) /\ DOMAIN Tail(s) = 1 .. Len(s) - 1
      /\ \A i \in 1 .. Len(s) - 1 : Tail(s)[i] = s[i + 1]
      /\ Len(s) # 1 => Tail(s) # <<>>
    <2> HIDE DEF s
    <2>1. /\ Len(s) \in Nat \ {0} /\ DOMAIN s = 1 .. Len(s) /\ Head(s) = s[1] /\ Head(s) \in Task
        BY <1>1
    <2>2. /\ Tail(s) \in Seq(Task) /\ Len(Tail(s)) = Len(s) - 1
          /\ \A i \in 1 .. Len(s) - 1 : Tail(s)[i] = s[i + 1]
        BY <1>1
    <2>3. DOMAIN Tail(s) = 1 .. Len(s) - 1
        BY <2>2
    <2>4. Len(s) # 1 => Tail(s) # <<>>
        BY <2>1, <2>2
    <2> QED BY <2>1, <2>2, <2>3, <2>4
<1>4. x \in Record /\ x.step \in {"send", "idle"} /\ (x.step = "send" => x.sends # <<>>)
    <2>1. CASE Len(s) = 1
        BY <2>1, NewRecords DEF Idle
    <2>2. CASE Len(s) # 1
        BY <2>2, <1>3, NewRecords
    <2> QED BY <2>1, <2>2
<1>5. \A t : (\E i \in DOMAIN s : t = s[i])
                <=> t = Head(s) \/ (x.step = "send" /\ \E i \in DOMAIN x.sends : t = x.sends[i])
    <2>1. CASE Len(s) = 1
        BY <2>1, <1>3 DEF Idle
    <2>2. CASE Len(s) # 1
        <3>1. x = [step |-> "send", sends |-> Tail(s)]
            BY <2>2
        <3>2. ASSUME NEW i \in DOMAIN s
              PROVE  s[i] = Head(s) \/ \E j \in DOMAIN Tail(s) : s[i] = Tail(s)[j]
            <4>1. i = 1 \/ (i - 1 \in DOMAIN Tail(s) /\ Tail(s)[i - 1] = s[i])
                BY <1>3
            <4> QED BY <1>3, <4>1
        <3>3. ASSUME NEW j \in DOMAIN Tail(s)
              PROVE  \E i \in DOMAIN s : Tail(s)[j] = s[i]
            <4>1. j + 1 \in DOMAIN s /\ Tail(s)[j] = s[j + 1]
                BY <1>3
            <4> QED BY <4>1
        <3>4. 1 \in DOMAIN s
            BY <1>3
        <3> HIDE DEF x, s
        <3> QED BY <3>1, <3>2, <3>3, <3>4, <1>3
    <2> QED BY <2>1, <2>2
<1>6. \A t : (\E i \in DOMAIN queue' : t = queue'[i])
                 <=> t = Head(s) \/ \E i \in DOMAIN queue : t = queue[i]
    <2>1. queue \in Seq(Task)
        BY DEF FlowOK
    <2>2. /\ DOMAIN queue = 1 .. Len(queue) /\ DOMAIN queue' = 1 .. Len(queue) + 1
          /\ Len(queue) \in Nat /\ queue'[Len(queue) + 1] = Head(s)
          /\ \A i \in 1 .. Len(queue) : queue'[i] = queue[i]
        BY <2>1, <1>2
    <2> QED BY <2>2
<1> HIDE DEF x
<1>7. \A p \in Requests : request'[p] = IF p = q THEN x ELSE request[p]
    BY <1>2 DEF FlowOK
<1> DEFINE Sent(p, t) == At(p, "send") /\ \E i \in DOMAIN request[p].sends : t = request[p].sends[i]
<1>8. ASSUME NEW r
      PROVE  Waiting(r)' = Waiting(r)
    <2>1. \A t : t \in Waiting(r) <=> t \in Task /\ t.role = r
               /\ ((\E p \in Requests : Sent(p, t)) \/ \E i \in DOMAIN queue : t = queue[i])
        BY DEF Waiting
    <2>2. \A t : t \in Waiting(r)' <=> t \in Task /\ t.role = r
               /\ ((\E p \in Requests : Sent(p, t)') \/ \E i \in DOMAIN queue' : t = queue'[i])
        BY DEF Waiting
    <2>3. \A p \in Requests \ {q} : \A t : Sent(p, t)' <=> Sent(p, t)
        BY <1>7 DEF At
    <2>4. \A t : Sent(q, t) <=> t = Head(s) \/ Sent(q, t)'
        <3>1. \A t : Sent(q, t) <=> \E i \in DOMAIN s : t = s[i]
            BY <1>2
        <3>2. \A t : Sent(q, t)' <=> x.step = "send" /\ \E i \in DOMAIN x.sends : t = x.sends[i]
            BY <1>7 DEF At
        <3> HIDE DEF Sent, s
        <3> QED BY <3>1, <3>2, <1>5
    <2> HIDE DEF Sent, s
    <2>5. \A t : t \in Waiting(r)' <=> t \in Waiting(r)
        BY <1>6, <2>1, <2>2, <2>3, <2>4
    <2> QED BY <2>5
<1>9. \A r : Hands(r)' = Hands(r)
    BY <1>2 DEF Hands, Occupied
<1>10. ASSUME NEW r
       PROVE  Joining(r)' = Joining(r)
    <2>1. Concerns(r)' = Concerns(r) /\ q \notin Concerns(r)
        BY <1>7, <1>2, <1>4 DEF Concerns, Enlisted, At
    <2>2. \A p \in Concerns(r) : request'[p] = request[p]
        BY <1>7, <2>1 DEF Concerns
    <2> QED BY <2>1, <2>2 DEF Joining
<1> QED BY <1>2, <1>3, <1>4, <1>8, <1>9, <1>10

LEMMA TasksOfRoleNow ==
    FlowOK => \A r, t : t \in Tasks(Waiting(r), Hands(r)) <=> t \in Unfinished /\ t.role = r
BY TasksOfRole

LEMMA TasksOfRoleNext ==
    FlowOK' => (\A r, t : t \in Tasks(Waiting(r), Hands(r)) <=> t \in Unfinished /\ t.role = r)'
BY TasksOfRoleNow, PTL

\* Where no task is new.
LEMMA NoNewTask ==
    ASSUME FlowOK, FlowOK', NEW N,
           \A r : Tasks(Waiting(r), Hands(r))' \subseteq Tasks(Waiting(r), Hands(r)) \cup N
    PROVE  \A t \in Unfinished' : t \in Unfinished \/ t \in N
<1>1. \A r, t : t \in Tasks(Waiting(r), Hands(r)) <=> t \in Unfinished /\ t.role = r
    BY TasksOfRole
<1>2. (\A r, t : t \in Tasks(Waiting(r), Hands(r)) <=> t \in Unfinished /\ t.role = r)'
    BY TasksOfRoleNext
<1> QED BY <1>1, <1>2

-----------------------------------------------------------------------------
(* One role on its own: its workers.                                        *)

Shapes(L, I, B, G, W, H, J) ==
    /\ L \in SUBSET Users /\ I \in SUBSET Permissions
    /\ B \in SUBSET L /\ G \in SUBSET (L \X Permissions)
    /\ W \in SUBSET Task /\ H \in SUBSET Work /\ \A x \in H : WorkKnown(x)
    /\ J \in SUBSET Enlisting

Like(t, s) == t.task = s.task /\ t.user = s.user /\ t.added = s.added /\ t.removed = s.removed

\* The worker that had x in hand has y now, or has nothing any more.
Turns(H, x, y, H2) == /\ x \in H /\ y \in H2 /\ H \ {x} \subseteq H2
                      /\ \A z \in H2 : z \in H \/ z = y
Drops(H, x, H2) == x \in H /\ H \ {x} \subseteq H2 /\ H2 \subseteq H

LEMMA ShapedTasks ==
    ASSUME NEW L, NEW I, NEW B, NEW G, NEW W, NEW H, NEW J, Shapes(L, I, B, G, W, H, J)
    PROVE  /\ Tasks(W, H) \subseteq Task
           /\ \A x \in H : x.task \in Tasks(W, H) /\ x \in Work
           /\ \A t \in W : t \in Tasks(W, H)
BY WorkFields DEF Shapes, Tasks

\* Tasks are told apart by what they are about, and so is silence.
LEMMA LikeTasks ==
    ASSUME NEW W, NEW H, NEW J, NEW W2, NEW H2, NEW J2, Apart(W, H, J),
           \A t \in Tasks(W2, H2) : \E s \in Tasks(W, H) : Like(t, s),
           \A j \in J2 : \E k \in J : j.user = k.user
    PROVE  Apart(W2, H2, J2)
<1>1. ASSUME NEW t \in Tasks(W2, H2), NEW s \in Tasks(W2, H2),
             t.task = "updated" \/ t.user = s.user
      PROVE  t.task = s.task /\ t.added = s.added /\ t.removed = s.removed
    <2>1. PICK t1 \in Tasks(W, H) : Like(t, t1)
        OBVIOUS
    <2>2. PICK s1 \in Tasks(W, H) : Like(s, s1)
        OBVIOUS
    <2> QED BY <1>1, <2>1, <2>2 DEF Apart, Like
<1>2. ASSUME NEW t \in Tasks(W2, H2), NEW j \in J2
      PROVE  t.task # "updated" /\ t.user # j.user
    <2>1. PICK t1 \in Tasks(W, H) : Like(t, t1)
        OBVIOUS
    <2>2. PICK k \in J : j.user = k.user
        OBVIOUS
    <2> QED BY <2>1, <2>2 DEF Apart, Like
<1> QED BY <1>1, <1>2 DEF Apart

LEMMA LikeQuiet ==
    ASSUME NEW W, NEW H, NEW J, NEW W2, NEW H2, NEW J2, NEW u, Quiet(W2, H2, J2, u),
           \A s \in Tasks(W, H) : \E t \in Tasks(W2, H2) : Like(t, s),
           \A k \in J : \E j \in J2 : j.user = k.user
    PROVE  Quiet(W, H, J, u)
BY DEF Quiet, Like

LEMMA LikeFits ==
    ASSUME NEW L, NEW I, NEW B, NEW G, NEW H, NEW H2, NEW t, NEW s, Like(t, s),
           TaskFits(L, I, B, G, H, s),
           (\E x \in H : x.step = "revoke") => \E x \in H2 : x.step = "revoke"
    PROVE  TaskFits(L, I, B, G, H2, t)
BY DEF TaskFits, Like, Unapplied

\* A worker takes a task, or reads what it needs.
LEMMA FitsTurn ==
    ASSUME NEW r, NEW L, NEW I, NEW B, NEW G, NEW W, NEW H, NEW J, NEW W2, NEW H2,
           Shapes(L, I, B, G, W, H, J), Fits(r, L, I, B, G, W, H, J), NEW y,
           \A t \in Tasks(W2, H2) : t \in Tasks(W, H),
           \A t \in Tasks(W, H) : t \in Tasks(W2, H2),
           \A z \in H2 : z \in H \/ z = y,
           \A z \in H : z.step = "revoke" => z \in H2,
           y \in H2, HandFits(L, I, B, G, y)
    PROVE  Fits(r, L, I, B, G, W2, H2, J)
<1>1. Apart(W2, H2, J)
    BY DEF Apart, Fits
<1>2. ASSUME NEW t \in Tasks(W2, H2)
      PROVE  TaskFits(L, I, B, G, H2, t)
    <2>1. TaskFits(L, I, B, G, H, t)
        BY DEF Fits
    <2>2. Like(t, t)
        BY DEF Like
    <2> QED BY <2>1, <2>2, LikeFits
<1>3. \A z \in H2 : HandFits(L, I, B, G, z)
    BY DEF Fits
<1>4. \A u : Quiet(W2, H2, J, u) => Quiet(W, H, J, u)
    BY DEF Quiet
<1> QED BY <1>1, <1>2, <1>3, <1>4 DEF Fits

\* A worker puts its task back, unless it dies in the middle of an update.
LEMMA FitsReturn ==
    ASSUME NEW r, NEW L, NEW I, NEW B, NEW G, NEW W, NEW H, NEW J, NEW W2, NEW H2,
           Shapes(L, I, B, G, W, H, J), Fits(r, L, I, B, G, W, H, J),
           NEW x, Drops(H, x, H2), NEW s, Like(s, x.task), W2 = W \cup {s},
           ~(x.step = "revoke" /\ x.task.added # {})
    PROVE  Fits(r, L, I, B, G, W2, H2, J)
<1> DEFINE T == Tasks(W, H)
           T2 == Tasks(W2, H2)
<1>0. x \in H /\ x \in Work /\ x.task \in Task
    BY WorkFields DEF Drops, Shapes
<1>1. \A t \in T2 : \E t1 \in T : Like(t, t1)
    <2>1. \A t \in T2 : t \in T \/ t = s
        BY DEF Tasks, Drops
    <2>2. x.task \in T
        BY <1>0 DEF Tasks
    <2>3. \A t : Like(t, t)
        BY DEF Like
    <2> HIDE DEF T, T2
    <2> QED BY <2>1, <2>2, <2>3
<1>2. \A t1 \in T : \E t \in T2 : Like(t, t1)
    <2>1. \A t \in T : t \in T2 \/ t = x.task
        BY DEF Tasks, Drops
    <2>2. s \in T2
        BY DEF Tasks
    <2>3. \A t : Like(t, t)
        BY DEF Like
    <2> HIDE DEF T, T2
    <2> QED BY <2>1, <2>2, <2>3
<1>3. Apart(W2, H2, J)
    BY <1>1, LikeTasks DEF Fits
<1>4. \A u : Quiet(W2, H2, J, u) => Quiet(W, H, J, u)
    <2> SUFFICES ASSUME NEW u, Quiet(W2, H2, J, u) PROVE Quiet(W, H, J, u)
        OBVIOUS
    <2>1. \A k \in J : \E j \in J : j.user = k.user
        OBVIOUS
    <2> QED BY <1>2, <2>1, LikeQuiet
<1>5. ASSUME NEW t \in T2
      PROVE  TaskFits(L, I, B, G, H2, t)
    <2>1. PICK t1 \in T : Like(t, t1)
        BY <1>1
    <2>2. TaskFits(L, I, B, G, H, t1)
        BY DEF Fits
    <2>3. CASE x.step # "revoke"
        <3>1. (\E z \in H : z.step = "revoke") => \E z \in H2 : z.step = "revoke"
            BY <2>3 DEF Drops
        <3> QED BY <2>1, <2>2, <3>1, LikeFits
    <2>4. CASE x.step = "revoke" /\ x.task.added = {} /\ t1.task = "updated"
        <3>1. x.task \in T
            BY <1>0 DEF Tasks
        <3>2. x.task.task = "updated" /\ t1.added = {} /\ x.task.removed = t1.removed
            BY <3>1, <2>4 DEF Fits, Apart
        <3>3. x.todo \subseteq x.task.removed /\ Applied(L, I, B, G, x.todo)
            BY <1>0, <2>4, <3>2 DEF Fits, HandFits
        <3>4. Unapplied(L, I, B, G, t)
            BY <2>1, <3>2, <3>3 DEF Applied, Unapplied, Like
        <3> QED BY <2>1, <2>2, <2>4, <3>4 DEF TaskFits, Like
    <2>5. CASE t1.task # "updated"
        BY <2>1, <2>2, <2>5 DEF TaskFits, Like
    <2> QED BY <2>3, <2>4, <2>5
<1>6. \A z \in H2 : HandFits(L, I, B, G, z)
    BY DEF Fits, Drops
<1> QED BY <1>3, <1>4, <1>5, <1>6 DEF Fits

\* A worker is done with its task, or gives up what it was not needed for.
LEMMA FitsDrop ==
    ASSUME NEW r, NEW L, NEW I, NEW B, NEW G, NEW W, NEW H, NEW J, NEW H2,
           Shapes(L, I, B, G, W, H, J), Fits(r, L, I, B, G, W, H, J),
           NEW x, Drops(H, x, H2), x.step # "revoke",
           x.task.task = "updated" =>
              Applied(L, I, B, G, {}) \/ \E z \in H2 : z.step = "revoke",
           x.task.task = "created" /\ x.task.user \in L => Of(G, x.task.user) = I,
           x.task.task = "deleted" /\ x.task.user \in L => Of(G, x.task.user) = {}
    PROVE  Fits(r, L, I, B, G, W, H2, J)
<1>0. x \in H /\ x.task \in Tasks(W, H) /\ x.task \in Task /\ Tasks(W, H2) \subseteq Tasks(W, H)
    BY WorkFields DEF Drops, Shapes, Tasks
<1>1. Apart(W, H2, J)
    BY <1>0 DEF Apart, Fits
<1>2. ASSUME NEW t \in Tasks(W, H2)
      PROVE  TaskFits(L, I, B, G, H2, t)
    <2>1. TaskFits(L, I, B, G, H, t)
        BY <1>0 DEF Fits
    <2>2. Like(t, t)
        BY DEF Like
    <2>3. (\E z \in H : z.step = "revoke") => \E z \in H2 : z.step = "revoke"
        BY DEF Drops
    <2> QED BY <2>1, <2>2, <2>3, LikeFits
<1>3. \A z \in H2 : HandFits(L, I, B, G, z)
    BY DEF Fits, Drops
<1>4. ASSUME NEW u \in L, Quiet(W, H2, J, u)
      PROVE  Of(G, u) = IF u \in B THEN I ELSE {}
    <2>1. CASE Quiet(W, H, J, u)
        BY <2>1 DEF Fits
    <2>2. CASE ~Quiet(W, H, J, u)
        <3>1. \A t \in Tasks(W, H) : t \in Tasks(W, H2) \/ t = x.task
            BY DEF Tasks, Drops
        <3>2. x.task.task = "updated" \/ x.task.user = u
            BY <1>4, <2>2, <3>1 DEF Quiet
        <3>3. CASE x.task.task = "updated"
            <4>1. \A z \in H2 : z.step = "revoke" => z.task.task = "updated"
                <5>1. \A z \in H2 : z.task \in Tasks(W, H2) /\ z.task \in Tasks(W, H)
                    BY <1>0 DEF Tasks
                <5> QED BY <1>0, <3>3, <5>1 DEF Fits, Apart
            <4>2. \A z \in H2 : z.task.task # "updated"
                BY <1>4 DEF Quiet, Tasks
            <4>3. Applied(L, I, B, G, {})
                BY <3>3, <4>1, <4>2
            <4> QED BY <4>3 DEF Applied
        <3>4. CASE x.task.task = "created" /\ x.task.user = u
            BY <1>0, <3>4 DEF Fits, TaskFits
        <3>5. CASE x.task.task = "deleted" /\ x.task.user = u
            BY <1>0, <3>5 DEF Fits, TaskFits
        <3> QED BY <1>0, <3>2, <3>3, <3>4, <3>5, TaskFields
    <2> QED BY <2>1, <2>2
<1> QED BY <1>1, <1>2, <1>3, <1>4 DEF Fits

\* An update is at work on its role, alone: what it did last is all that changed.
LEMMA FitsUpdating ==
    ASSUME NEW r, NEW L, NEW I, NEW B, NEW G, NEW W, NEW H, NEW J, NEW G2, NEW H2,
           Shapes(L, I, B, G, W, H, J), Fits(r, L, I, B, G, W, H, J),
           NEW x, NEW y, Turns(H, x, y, H2), y.task = x.task, x.task.task = "updated",
           HandFits(L, I, B, G2, y), \A z \in H : HandFits(L, I, B, G2, z),
           TaskFits(L, I, B, G2, H2, x.task)
    PROVE  Fits(r, L, I, B, G2, W, H2, J)
<1>1. x.task \in Tasks(W, H) /\ x.task \in Tasks(W, H2) /\ Tasks(W, H2) \subseteq Tasks(W, H)
    BY DEF Turns, Tasks
<1>2. /\ \A t \in Tasks(W, H2) : t.task = "updated" /\ t.added = x.task.added
                                 /\ t.removed = x.task.removed
      /\ J = {}
    BY <1>1 DEF Fits, Apart
<1>3. Apart(W, H2, J)
    BY <1>1 DEF Apart, Fits
<1>4. ASSUME NEW t \in Tasks(W, H2)
      PROVE  TaskFits(L, I, B, G2, H2, t)
    BY <1>2 DEF TaskFits, Unapplied
<1>5. \A z \in H2 : HandFits(L, I, B, G2, z)
    BY DEF Turns
<1>6. \A u : ~Quiet(W, H2, J, u)
    BY <1>1 DEF Quiet
<1> QED BY <1>2, <1>3, <1>4, <1>5, <1>6 DEF Fits

\* A task of one user is at work: the others do not notice.
LEMMA FitsServing ==
    ASSUME NEW r, NEW L, NEW I, NEW B, NEW G, NEW W, NEW H, NEW J, NEW G2, NEW H2,
           Shapes(L, I, B, G, W, H, J), Fits(r, L, I, B, G, W, H, J),
           NEW x, NEW y, Turns(H, x, y, H2), y.task = x.task, x.task.task # "updated",
           \A u : u # x.task.user => Of(G2, u) = Of(G, u),
           HandFits(L, I, B, G2, y),
           \A z \in H : z.task.user = x.task.user => HandFits(L, I, B, G2, z),
           TaskFits(L, I, B, G2, H2, x.task)
    PROVE  Fits(r, L, I, B, G2, W, H2, J)
<1>1. /\ x.task \in Tasks(W, H) /\ x.task \in Tasks(W, H2) /\ Tasks(W, H2) \subseteq Tasks(W, H)
      /\ \A z \in H : z.task \in Tasks(W, H)
    BY DEF Turns, Tasks
<1>2. /\ \A t \in Tasks(W, H) : /\ t.task # "updated"
                                /\ t.user = x.task.user => t.task = x.task.task
      /\ \A j \in J : j.user # x.task.user
    BY <1>1 DEF Fits, Apart
<1>3. Apart(W, H2, J)
    BY <1>1 DEF Apart, Fits
<1>4. ASSUME NEW t \in Tasks(W, H2)
      PROVE  TaskFits(L, I, B, G2, H2, t)
    <2>1. CASE t.user = x.task.user
        BY <1>1, <1>2, <2>1 DEF TaskFits
    <2>2. CASE t.user # x.task.user
        <3>1. TaskFits(L, I, B, G, H, t) /\ Of(G2, t.user) = Of(G, t.user) /\ t.task # "updated"
            BY <1>1, <1>2, <2>2 DEF Fits
        <3> QED BY <3>1 DEF TaskFits
    <2> QED BY <2>1, <2>2
<1>5. ASSUME NEW z \in H2
      PROVE  HandFits(L, I, B, G2, z)
    <2>1. CASE z = y \/ z.task.user = x.task.user
        BY <2>1 DEF Turns
    <2>2. CASE z \in H /\ z.task.user # x.task.user
        <3>1. /\ HandFits(L, I, B, G, z) /\ Of(G2, z.task.user) = Of(G, z.task.user)
              /\ z.task.task # "updated"
            BY <1>1, <1>2, <2>2 DEF Fits
        <3> QED BY <3>1 DEF HandFits
    <2> QED BY <2>1, <2>2 DEF Turns
<1>6. ASSUME NEW j \in J
      PROVE  JoinFits(r, L, I, B, G2, j)
    <2>1. JoinFits(r, L, I, B, G, j) /\ Of(G2, j.user) = Of(G, j.user)
        BY <1>2 DEF Fits
    <2> QED BY <2>1 DEF JoinFits
<1>7. ASSUME NEW u \in L, Quiet(W, H2, J, u)
      PROVE  Of(G2, u) = IF u \in B THEN I ELSE {}
    <2>1. u # x.task.user
        BY <1>1, <1>7 DEF Quiet
    <2>2. \A t \in Tasks(W, H) : t \in Tasks(W, H2)
        BY DEF Turns, Tasks
    <2>3. Quiet(W, H, J, u)
        BY <1>7, <2>2 DEF Quiet
    <2> QED BY <2>1, <2>3 DEF Fits
<1> QED BY <1>3, <1>4, <1>5, <1>6, <1>7 DEF Fits

\* An update inserts what was added, for those who hold the role.
LEMMA FitsInsertUpdated ==
    ASSUME NEW r, NEW L, NEW I, NEW B, NEW G, NEW W, NEW H, NEW J, NEW G2, NEW H2,
           Shapes(L, I, B, G, W, H, J), Fits(r, L, I, B, G, W, H, J),
           NEW x, NEW y, Turns(H, x, y, H2), y.task = x.task, x.task.task = "updated",
           x.step = "insert", y.todo = x.todo, y.step = IF x.todo = {} THEN "ack" ELSE "revoke",
           G2 = G \cup {<<u, p>> : u \in x.found, p \in x.task.added}
    PROVE  Fits(r, L, I, B, G2, W, H2, J)
<1> DEFINE A == x.task.added
           D == x.task.removed
<1>1. x \in H /\ x \in Work /\ x.task \in Task /\ A \in SUBSET Permissions /\ x.task \in Tasks(W, H)
    BY WorkFields, TaskFields DEF Turns, Shapes, Tasks
<1>2. /\ x.todo = D /\ x.found = B /\ A \subseteq I /\ D \cap I = {}
      /\ Unapplied(L, I, B, G, x.task) \/ Applied(L, I, B, G, {}) \/ Applied(L, I, B, G, D)
    BY <1>1 DEF Fits, HandFits, TaskFits
<1>3. \A u : Of(G2, u) = IF u \in B THEN Of(G, u) \cup A ELSE Of(G, u)
    BY <1>1, <1>2 DEF Of
<1> HIDE DEF A, D
<1>4. Applied(L, I, B, G2, D)
    <2>1. CASE Unapplied(L, I, B, G, x.task)
        BY <1>2, <1>3, <2>1 DEF Unapplied, Applied, A, D
    <2>2. CASE Applied(L, I, B, G, {}) \/ Applied(L, I, B, G, D)
        BY <1>2, <1>3, <2>2 DEF Applied
    <2> QED BY <1>2, <2>1, <2>2
<1>5. \A left : Applied(L, I, B, G, left) => Applied(L, I, B, G2, left)
    BY <1>2, <1>3 DEF Applied
<1>6. HandFits(L, I, B, G2, y)
    BY <1>2, <1>4 DEF HandFits, D
<1>7. ASSUME NEW z \in H
      PROVE  HandFits(L, I, B, G2, z)
    <2>1. HandFits(L, I, B, G, z)
        BY DEF Fits
    <2>2. z.task \in Tasks(W, H)
        BY DEF Tasks
    <2>3. z.task.task = "updated"
        BY <1>1, <2>2 DEF Fits, Apart
    <2> QED BY <1>5, <2>1, <2>3 DEF HandFits
<1>8. TaskFits(L, I, B, G2, H2, x.task)
    <2>1. x.todo # {} => \E z \in H2 : z.step = "revoke"
        BY DEF Turns
    <2>2. x.todo = {} => Applied(L, I, B, G2, {})
        BY <1>2, <1>4
    <2> QED BY <1>2, <1>4, <2>1, <2>2 DEF TaskFits, A, D
<1> QED BY <1>6, <1>7, <1>8, FitsUpdating

\* An update deletes what was removed, one permission after the other.
LEMMA FitsRevokeOne ==
    ASSUME NEW r, NEW L, NEW I, NEW B, NEW G, NEW W, NEW H, NEW J, NEW G2, NEW H2,
           Shapes(L, I, B, G, W, H, J), Fits(r, L, I, B, G, W, H, J),
           NEW x, NEW y, Turns(H, x, y, H2), y.task = x.task, x.task.task = "updated",
           x.step = "revoke", NEW p \in x.todo, y.todo = x.todo \ {p},
           y.step = IF x.todo = {p} THEN "ack" ELSE "revoke",
           G2 = {g \in G : g[2] # p}
    PROVE  Fits(r, L, I, B, G2, W, H2, J)
<1>1. x \in H /\ x.task \in Tasks(W, H)
    BY DEF Turns, Tasks
<1>2. /\ x.todo \subseteq x.task.removed /\ x.task.removed \cap I = {} /\ x.task.added \subseteq I
      /\ Applied(L, I, B, G, x.todo)
    BY <1>1 DEF Fits, HandFits, TaskFits
<1>3. \A u : Of(G2, u) = Of(G, u) \ {p}
    BY DEF Of
<1>4. \A left : Applied(L, I, B, G, left) => Applied(L, I, B, G2, left)
    BY <1>2, <1>3 DEF Applied
<1>5. Applied(L, I, B, G2, y.todo)
    BY <1>2, <1>3 DEF Applied
<1>6. x.todo = {p} => Applied(L, I, B, G2, {})
    BY <1>5
<1>7. HandFits(L, I, B, G2, y)
    BY <1>2, <1>5, <1>6 DEF HandFits
<1>8. ASSUME NEW z \in H
      PROVE  HandFits(L, I, B, G2, z)
    <2>1. HandFits(L, I, B, G, z)
        BY DEF Fits
    <2>2. z.task \in Tasks(W, H)
        BY DEF Tasks
    <2>3. z.task.task = "updated"
        BY <1>1, <2>2 DEF Fits, Apart
    <2> QED BY <1>4, <2>1, <2>3 DEF HandFits
<1>9. TaskFits(L, I, B, G2, H2, x.task)
    <2>1. Applied(L, I, B, G2, x.task.removed)
        BY <1>2, <1>5 DEF Applied
    <2>2. x.todo # {p} => \E z \in H2 : z.step = "revoke"
        BY DEF Turns
    <2> QED BY <1>2, <1>6, <2>1, <2>2 DEF TaskFits
<1> QED BY <1>7, <1>8, <1>9, FitsUpdating

\* A user gets what the role includes.
LEMMA FitsInsertCreated ==
    ASSUME NEW r, NEW L, NEW I, NEW B, NEW G, NEW W, NEW H, NEW J, NEW G2, NEW H2,
           Shapes(L, I, B, G, W, H, J), Fits(r, L, I, B, G, W, H, J),
           NEW x, NEW y, Turns(H, x, y, H2), y.task = x.task, x.task.task = "created",
           x.step = "insert", y.step = "ack",
           x.task.user \notin L => x.found = {},
           G2 = G \cup {<<u, p>> : u \in {x.task.user}, p \in x.found}
    PROVE  Fits(r, L, I, B, G2, W, H2, J)
<1> DEFINE v == x.task.user
<1>1. x \in H /\ x.task \in Tasks(W, H) /\ x.found \subseteq Permissions
    BY DEF Turns, Tasks, Shapes, WorkKnown
<1>2. v \in L => v \in B /\ Of(G, v) \in {{}, I} /\ x.found = I
    BY <1>1 DEF Fits, HandFits, TaskFits
<1>3. /\ \A u : u # v => Of(G2, u) = Of(G, u)
      /\ Of(G2, v) = Of(G, v) \cup x.found
    BY <1>1 DEF Of
<1>4. v \in L => Of(G2, v) = I
    BY <1>2, <1>3
<1>5. HandFits(L, I, B, G2, y)
    BY <1>4 DEF HandFits
<1>6. ASSUME NEW z \in H, z.task.user = v
      PROVE  HandFits(L, I, B, G2, z)
    <2>1. HandFits(L, I, B, G, z)
        BY DEF Fits
    <2>2. z.task \in Tasks(W, H)
        BY DEF Tasks
    <2>3. z.task.task = "created"
        BY <1>1, <1>6, <2>2 DEF Fits, Apart
    <2> QED BY <1>4, <1>6, <2>1, <2>3 DEF HandFits
<1>7. TaskFits(L, I, B, G2, H2, x.task)
    BY <1>2, <1>4 DEF TaskFits
<1> QED BY <1>3, <1>5, <1>6, <1>7, FitsServing

\* A user loses all that came from the role.
LEMMA FitsRevokeAll ==
    ASSUME NEW r, NEW L, NEW I, NEW B, NEW G, NEW W, NEW H, NEW J, NEW G2, NEW H2,
           Shapes(L, I, B, G, W, H, J), Fits(r, L, I, B, G, W, H, J),
           NEW x, NEW y, Turns(H, x, y, H2), y.task = x.task, x.task.task = "deleted",
           y.step = "ack", G2 = {g \in G : g[1] # x.task.user}
    PROVE  Fits(r, L, I, B, G2, W, H2, J)
<1> DEFINE v == x.task.user
<1>1. x \in H /\ x.task \in Tasks(W, H)
    BY DEF Turns, Tasks
<1>2. v \notin B
    BY <1>1 DEF Fits, TaskFits
<1>3. /\ \A u : u # v => Of(G2, u) = Of(G, u)
      /\ Of(G2, v) = {}
    BY DEF Of
<1>4. HandFits(L, I, B, G2, y)
    BY <1>3 DEF HandFits
<1>5. ASSUME NEW z \in H, z.task.user = v
      PROVE  HandFits(L, I, B, G2, z)
    <2>1. z.task \in Tasks(W, H)
        BY DEF Tasks
    <2>2. z.task.task = "deleted"
        BY <1>1, <1>5, <2>1 DEF Fits, Apart
    <2> QED BY <1>3, <1>5, <2>2 DEF HandFits
<1>6. TaskFits(L, I, B, G2, H2, x.task)
    BY <1>2 DEF TaskFits
<1> QED BY <1>3, <1>4, <1>5, <1>6, FitsServing

-----------------------------------------------------------------------------
(* One role on its own: its requests.                                       *)

LEMMA FitsStill ==
    ASSUME NEW r, NEW L, NEW I, NEW B, NEW G
    PROVE  Fits(r, L, I, B, G, {}, {}, {})
              <=> \A u \in L : Of(G, u) = IF u \in B THEN I ELSE {}
<1>1. Tasks({}, {}) = {}
    BY DEF Tasks
<1>2. \A u : Quiet({}, {}, {}, u)
    BY <1>1 DEF Quiet
<1>3. Apart({}, {}, {})
    BY <1>1 DEF Apart
<1> QED BY <1>1, <1>2, <1>3 DEF Fits

\* A user is given the role, or loses it, and a task will tell.
LEMMA FitsGiven ==
    ASSUME NEW r, NEW L, NEW I, NEW B, NEW G, NEW W, NEW H, NEW J, NEW W2, NEW B2,
           Shapes(L, I, B, G, W, H, J), Fits(r, L, I, B, G, W, H, J),
           NEW v \in L, Quiet(W, H, J, v), NEW t \in Task, W2 = W \cup {t},
           t.user = v, t.added = {}, t.removed = {},
           \/ t.task = "created" /\ v \notin B /\ B2 = B \cup {v}
           \/ t.task = "deleted" /\ v \in B /\ B2 = B \ {v}
    PROVE  Fits(r, L, I, B2, G, W2, H, J)
<1>1. /\ \A s \in Tasks(W, H) : s.task # "updated" /\ s.user # v
      /\ \A j \in J : j.user # v
      /\ \A x \in H : x.task \in Tasks(W, H)
    BY DEF Quiet, Tasks
<1>2. \A s : s \in Tasks(W2, H) <=> s \in Tasks(W, H) \/ s = t
    BY DEF Tasks
<1>3. \A u : u # v => (u \in B2 <=> u \in B)
    OBVIOUS
<1>4. Of(G, v) = IF v \in B THEN I ELSE {}
    BY DEF Fits
<1>5. Apart(W2, H, J)
    <2>1. Apart(W, H, J)
        BY DEF Fits
    <2>2. \A s \in Tasks(W2, H) : s.user = v => s = t
        BY <1>1, <1>2
    <2>3. \A s \in Tasks(W2, H), j \in J : s.task # "updated" /\ s.user # j.user
        BY <1>1, <1>2, <2>1 DEF Apart
    <2>4. ASSUME NEW s \in Tasks(W2, H), NEW s2 \in Tasks(W2, H), s.task = "updated" \/ s.user = s2.user
          PROVE  s.task = s2.task /\ s.added = s2.added /\ s.removed = s2.removed
        <3>1. CASE s.user = v
            BY <2>2, <2>4, <3>1, <1>1, <1>2
        <3>2. CASE s.user # v
            <4>1. s \in Tasks(W, H) /\ s.user = s2.user
                BY <1>1, <1>2, <2>4, <3>2
            <4>2. s2 \in Tasks(W, H)
                BY <1>2, <3>2, <4>1
            <4> QED BY <2>1, <2>4, <4>1, <4>2 DEF Apart
        <3> QED BY <3>1, <3>2
    <2> HIDE DEF Tasks
    <2> QED BY <2>3, <2>4 DEF Apart
<1>6. ASSUME NEW s \in Tasks(W2, H)
      PROVE  TaskFits(L, I, B2, G, H, s)
    <2>1. CASE s = t
        BY <1>4, <2>1 DEF TaskFits
    <2>2. CASE s \in Tasks(W, H)
        <3>1. TaskFits(L, I, B, G, H, s) /\ s.task # "updated" /\ s.user # v
            BY <1>1, <2>2 DEF Fits
        <3> QED BY <1>3, <3>1 DEF TaskFits
    <2> QED BY <1>2, <2>1, <2>2
<1>7. ASSUME NEW x \in H
      PROVE  HandFits(L, I, B2, G, x)
    <2>1. HandFits(L, I, B, G, x) /\ x.task.task # "updated"
        BY <1>1 DEF Fits
    <2> QED BY <2>1 DEF HandFits
<1>8. ASSUME NEW j \in J
      PROVE  JoinFits(r, L, I, B2, G, j)
    <2>1. JoinFits(r, L, I, B, G, j) /\ j.user # v
        BY <1>1 DEF Fits
    <2> QED BY <1>3, <2>1 DEF JoinFits
<1>9. ASSUME NEW u \in L, Quiet(W2, H, J, u)
      PROVE  Of(G, u) = IF u \in B2 THEN I ELSE {}
    <2>1. u # v /\ Quiet(W, H, J, u)
        BY <1>2, <1>9 DEF Quiet
    <2> QED BY <1>3, <2>1 DEF Fits
<1> QED BY <1>5, <1>6, <1>7, <1>8, <1>9 DEF Fits

\* The role is given other permissions, and a task will tell.
LEMMA FitsEdited ==
    ASSUME NEW r, NEW L, NEW I, NEW B, NEW G, NEW t \in Task, NEW new, NEW W2,
           Fits(r, L, I, B, G, {}, {}, {}), t.task = "updated",
           t.added = new \ I, t.removed = I \ new, W2 = {t}
    PROVE  Fits(r, L, new, B, G, W2, {}, {})
<1>1. \A u \in L : Of(G, u) = IF u \in B THEN I ELSE {}
    BY FitsStill
<1>2. Tasks(W2, {}) = {t}
    BY DEF Tasks
<1>3. Apart(W2, {}, {})
    BY <1>2 DEF Apart
<1>4. Unapplied(L, new, B, G, t)
    BY <1>1 DEF Unapplied
<1>5. TaskFits(L, new, B, G, {}, t)
    BY <1>4 DEF TaskFits
<1>6. \A u : ~Quiet(W2, {}, {}, u)
    BY <1>2 DEF Quiet
<1> QED BY <1>2, <1>3, <1>5, <1>6 DEF Fits

\* A permission is deleted, or a user.
LEMMA FitsPoorer ==
    ASSUME NEW r, NEW L, NEW I, NEW B, NEW G, NEW p, NEW I2, NEW G2,
           Fits(r, L, I, B, G, {}, {}, {}), \A i : i \in I2 <=> i \in I /\ i # p,
           \A g : g \in G2 <=> g \in G /\ g[2] # p
    PROVE  Fits(r, L, I2, B, G2, {}, {}, {})
<1>1. \A u \in L : Of(G, u) = IF u \in B THEN I ELSE {}
    BY FitsStill
<1>2. \A u : Of(G2, u) = Of(G, u) \ {p}
    BY DEF Of
<1>4. I2 = I \ {p}
    OBVIOUS
<1>3. \A u \in L : Of(G2, u) = IF u \in B THEN I2 ELSE {}
    BY <1>1, <1>2, <1>4
<1> QED BY <1>3, FitsStill

LEMMA FitsFewer ==
    ASSUME NEW r, NEW L, NEW I, NEW B, NEW G, NEW W, NEW H, NEW J, NEW v, NEW B2, NEW G2,
           Shapes(L, I, B, G, W, H, J), Fits(r, L, I, B, G, W, H, J),
           \A t \in Tasks(W, H) : t.task # "updated",
           B2 = B \ {v}, G2 = {g \in G : g[1] # v}
    PROVE  Fits(r, L \ {v}, I, B2, G2, W, H, J)
<1>1. \A u : u # v => Of(G2, u) = Of(G, u) /\ (u \in B2 <=> u \in B)
    BY DEF Of
<1>2. \A u : Of(G2, u) \subseteq Of(G, u)
    BY DEF Of
<1>3. \A x \in H : x.task \in Tasks(W, H)
    BY DEF Tasks
<1>4. ASSUME NEW t \in Tasks(W, H)
      PROVE  TaskFits(L \ {v}, I, B2, G2, H, t)
    BY <1>1 DEF Fits, TaskFits
<1>5. ASSUME NEW x \in H
      PROVE  HandFits(L \ {v}, I, B2, G2, x)
    <2>1. HandFits(L, I, B, G, x) /\ x.task.task # "updated"
        BY <1>3 DEF Fits
    <2> QED BY <1>1, <1>2, <2>1 DEF HandFits
<1>6. \A j \in J : JoinFits(r, L \ {v}, I, B2, G2, j)
    BY <1>1 DEF Fits, JoinFits
<1>7. ASSUME NEW u \in L \ {v}, Quiet(W, H, J, u)
      PROVE  Of(G2, u) = IF u \in B2 THEN I ELSE {}
    BY <1>1, <1>7 DEF Fits
<1> QED BY <1>4, <1>5, <1>6, <1>7 DEF Fits

\* Someone registers, who may have the role to join.
LEMMA FitsMore ==
    ASSUME NEW r, NEW L, NEW I, NEW B, NEW G, NEW W, NEW H, NEW J, NEW v, NEW J2,
           Shapes(L, I, B, G, W, H, J), Fits(r, L, I, B, G, W, H, J),
           v \notin L, \A t \in Tasks(W, H) : t.user # v, \A j \in J : j.user # v,
           \/ J2 = J
           \/ /\ \A t \in Tasks(W, H) : t.task # "updated"
              /\ \E j : /\ J2 = J \cup {j} /\ j.user = v /\ j.seen[r] = I /\ j.role # r
    PROVE  Fits(r, L \cup {v}, I, B, G, W, H, J2)
<1>1. Of(G, v) = {} /\ v \notin B
    BY DEF Shapes, Of
<1>2. \A x \in H : x.task \in Tasks(W, H)
    BY DEF Tasks
<1>3. /\ \A t : Unapplied(L, I, B, G, t) => Unapplied(L \cup {v}, I, B, G, t)
      /\ \A left : Applied(L, I, B, G, left) => Applied(L \cup {v}, I, B, G, left)
    BY <1>1 DEF Unapplied, Applied
<1>4. ASSUME NEW t \in Tasks(W, H)
      PROVE  TaskFits(L \cup {v}, I, B, G, H, t)
    <2>1. TaskFits(L, I, B, G, H, t) /\ t.user # v
        BY DEF Fits
    <2> QED BY <1>3, <2>1 DEF TaskFits
<1>5. ASSUME NEW x \in H
      PROVE  HandFits(L \cup {v}, I, B, G, x)
    <2>1. HandFits(L, I, B, G, x) /\ x.task.user # v
        BY <1>2 DEF Fits
    <2> QED BY <1>3, <2>1 DEF HandFits
<1>6. \A j \in J : JoinFits(r, L \cup {v}, I, B, G, j)
    BY DEF Fits, JoinFits
<1>7. \A j \in J2 : j \in J \/ JoinFits(r, L \cup {v}, I, B, G, j)
    BY <1>1 DEF JoinFits
<1>8. Apart(W, H, J2)
    BY DEF Apart, Fits
<1>9. ASSUME NEW u \in L \cup {v}, Quiet(W, H, J2, u)
      PROVE  Of(G, u) = IF u \in B THEN I ELSE {}
    <2>1. Quiet(W, H, J, u)
        BY <1>9 DEF Quiet
    <2> QED BY <1>1, <2>1 DEF Fits
<1> QED BY <1>4, <1>5, <1>6, <1>7, <1>8, <1>9 DEF Fits

\* Of those who join a role one has made a step.
Steps(J, j, k, J2) == j \in J /\ k \in J2 /\ \A z \in J2 : z = k \/ (z \in J /\ z.user # j.user)

\* She has joined another role, or been granted what that one includes.
LEMMA FitsElsewhere ==
    ASSUME NEW r, NEW L, NEW I, NEW B, NEW G, NEW W, NEW H, NEW J, NEW J2,
           Fits(r, L, I, B, G, W, H, J), NEW j, NEW k, Steps(J, j, k, J2),
           \A z \in J : z \in J2 \/ z.user = j.user,
           k.user = j.user, k.seen = j.seen, r \in k.todo => r \in j.todo,
           k.role = r => j.role = r
    PROVE  Fits(r, L, I, B, G, W, H, J2)
<1>1. Apart(W, H, J2)
    BY DEF Apart, Fits, Steps
<1>2. \A z \in J2 : JoinFits(r, L, I, B, G, z)
    BY DEF Fits, JoinFits, Steps
<1>3. \A u : Quiet(W, H, J2, u) => Quiet(W, H, J, u)
    BY DEF Quiet, Steps
<1> QED BY <1>1, <1>2, <1>3 DEF Fits

LEMMA FitsJoined ==
    ASSUME NEW r, NEW L, NEW I, NEW B, NEW G, NEW W, NEW H, NEW J, NEW J2, NEW B2,
           Shapes(L, I, B, G, W, H, J), Fits(r, L, I, B, G, W, H, J),
           NEW j, NEW k, Steps(J, j, k, J2), \A z \in J : z \in J2 \/ z.user = j.user,
           j.user \in L, k.user = j.user, k.seen = j.seen, r \notin k.todo,
           B2 = B \cup {j.user}
    PROVE  Fits(r, L, I, B2, G, W, H, J2)
<1> DEFINE v == j.user
<1>1. /\ \A t \in Tasks(W, H) : t.task # "updated" /\ t.user # v
      /\ \A x \in H : x.task \in Tasks(W, H)
    BY DEF Fits, Apart, Steps, Tasks
<1>2. Apart(W, H, J2)
    BY DEF Apart, Fits, Steps
<1>3. \A t \in Tasks(W, H) : TaskFits(L, I, B2, G, H, t)
    BY <1>1 DEF Fits, TaskFits
<1>4. ASSUME NEW x \in H
      PROVE  HandFits(L, I, B2, G, x)
    <2>1. HandFits(L, I, B, G, x) /\ x.task.task # "updated"
        BY <1>1 DEF Fits
    <2> QED BY <2>1 DEF HandFits
<1>5. JoinFits(r, L, I, B2, G, k)
    BY DEF Fits, JoinFits, Steps
<1>6. ASSUME NEW z \in J2, z # k
      PROVE  JoinFits(r, L, I, B2, G, z)
    <2>1. z \in J /\ z.user # v
        BY <1>6 DEF Steps
    <2> QED BY <2>1 DEF Fits, JoinFits
<1>7. ASSUME NEW u \in L, Quiet(W, H, J2, u)
      PROVE  Of(G, u) = IF u \in B2 THEN I ELSE {}
    <2>1. u # v /\ Quiet(W, H, J, u)
        BY <1>7 DEF Quiet, Steps
    <2> QED BY <2>1 DEF Fits
<1> QED BY <1>2, <1>3, <1>4, <1>5, <1>6, <1>7 DEF Fits

\* One is done with the role, and has her rows.
Leaves(J, j, J2) == /\ j \in J /\ \A z \in J2 : z \in J /\ z.user # j.user
                    /\ \A z \in J : z \in J2 \/ z.user = j.user
Gains(G, v, ps, G2) == Of(G2, v) = Of(G, v) \cup ps /\ \A u : u # v => Of(G2, u) = Of(G, u)

\* The grants of the role come with the registration.
LEMMA FitsFilled ==
    ASSUME NEW r, NEW L, NEW I, NEW B, NEW G, NEW W, NEW H, NEW J, NEW J2, NEW G2,
           Shapes(L, I, B, G, W, H, J), Fits(r, L, I, B, G, W, H, J),
           NEW j, Leaves(J, j, J2), j.role = r, NEW ps, ps = j.seen[r], j.user \notin L => ps = {},
           Gains(G, j.user, ps, G2)
    PROVE  Fits(r, L, I, B, G2, W, H, J2)
<1>0. /\ j \in J /\ \A z \in J2 : z \in J /\ z.user # j.user
      /\ \A z \in J : z \in J2 \/ z.user = j.user
    BY DEF Leaves
<1> DEFINE v == j.user
<1>1. /\ \A t \in Tasks(W, H) : t.task # "updated" /\ t.user # v
      /\ \A x \in H : x.task \in Tasks(W, H)
    BY <1>0 DEF Fits, Apart, Tasks
<1>2. /\ \A u : u # v => Of(G2, u) = Of(G, u)
      /\ Of(G2, v) = Of(G, v) \cup ps
    BY DEF Gains
<1>3. v \in L => v \in B /\ Of(G2, v) = I
    BY <1>0, <1>2 DEF Fits, JoinFits
<1>4. Apart(W, H, J2)
    BY <1>0 DEF Apart, Fits
<1>5. ASSUME NEW t \in Tasks(W, H)
      PROVE  TaskFits(L, I, B, G2, H, t)
    <2>1. TaskFits(L, I, B, G, H, t) /\ Of(G2, t.user) = Of(G, t.user) /\ t.task # "updated"
        BY <1>1, <1>2 DEF Fits
    <2> QED BY <2>1 DEF TaskFits
<1>6. ASSUME NEW x \in H
      PROVE  HandFits(L, I, B, G2, x)
    <2>1. /\ HandFits(L, I, B, G, x) /\ Of(G2, x.task.user) = Of(G, x.task.user)
          /\ x.task.task # "updated"
        BY <1>1, <1>2 DEF Fits
    <2> QED BY <2>1 DEF HandFits
<1>7. ASSUME NEW z \in J2
      PROVE  JoinFits(r, L, I, B, G2, z)
    <2>1. JoinFits(r, L, I, B, G, z) /\ Of(G2, z.user) = Of(G, z.user)
        BY <1>0, <1>2 DEF Fits
    <2> QED BY <2>1 DEF JoinFits
<1>8. ASSUME NEW u \in L, Quiet(W, H, J2, u)
      PROVE  Of(G2, u) = IF u \in B THEN I ELSE {}
    <2>1. CASE u = v
        BY <1>3, <2>1
    <2>2. CASE u # v
        <3>1. Quiet(W, H, J, u)
            BY <1>0, <1>8, <2>2 DEF Quiet
        <3> QED BY <1>2, <2>2, <3>1 DEF Fits
    <2> QED BY <2>1, <2>2
<1> QED BY <1>4, <1>5, <1>6, <1>7, <1>8 DEF Fits

-----------------------------------------------------------------------------
(* The invariant, and what its parts need of a step.                        *)

Sync == Types /\ Known /\ Settling

LEMMA NowShapes ==
    ASSUME TablesOK, FlowOK, Known, NEW r \in Roles
    PROVE  Shapes(Live(users), includes[r], Held(r), Rights(r),
                  Waiting(r), Hands(r), Joining(r))
<1>1. Live(users) \in SUBSET Users /\ includes[r] \in SUBSET Permissions
    BY DEF TablesOK, Live
<1>2. Held(r) \in SUBSET Live(users)
    BY DEF TablesOK, Live, Held
<1>3. Rights(r) \in SUBSET (Live(users) \X Permissions)
    BY DEF TablesOK, Live, Rights
<1>4. Waiting(r) \in SUBSET Task
    BY DEF Waiting
<1>5. Hands(r) \in SUBSET Work /\ \A x \in Hands(r) : WorkKnown(x)
    BY TasksOfRole DEF Known
<1>6. Joining(r) \in SUBSET Enlisting
    BY RequestFields DEF Joining, Concerns, Enlisted, At, FlowOK
<1> QED BY <1>1, <1>2, <1>3, <1>4, <1>5, <1>6 DEF Shapes

LEMMA SameFits ==
    ASSUME NEW r, FitsNow(r), SameRole(r)
    PROVE  FitsNow(r)'
BY DEF FitsNow, SameRole

LEMMA SettlingFrom ==
    ASSUME Settling, TablesOK', raced \subseteq raced',
           \A r \in Roles : roles'[r] = "live" /\ r \notin raced' =>
               FitsNow(r)' \/ (roles[r] = "live" /\ SameRole(r)),
           roles \in [Roles -> Lives]
    PROVE  Settling'
<1>1. \A r \in Roles : roles[r] = "live" /\ r \notin raced => FitsNow(r)
    BY DEF Settling, Live
<1>2. \A r \in Roles : roles'[r] = "live" /\ r \notin raced' => FitsNow(r)'
    BY <1>1, SameFits
<1>3. roles' \in [Roles -> Lives]
    BY DEF TablesOK
<1> QED BY <1>2, <1>3 DEF Settling, Live

LEMMA UnfinishedNow ==
    FlowOK => \A t : t \in Unfinished <=>
                 \/ \E q \in Requests : /\ At(q, "send")
                                        /\ \E i \in DOMAIN request[q].sends :
                                              t = request[q].sends[i]
                 \/ \E i \in DOMAIN queue : t = queue[i]
                 \/ \E w \in Workers : worker[w] # Idle /\ t = worker[w].task
BY UnfinishedTasks

LEMMA UnfinishedNext ==
    FlowOK' => (\A t : t \in Unfinished <=>
                 \/ \E q \in Requests : /\ At(q, "send")
                                        /\ \E i \in DOMAIN request[q].sends :
                                              t = request[q].sends[i]
                 \/ \E i \in DOMAIN queue : t = queue[i]
                 \/ \E w \in Workers : worker[w] # Idle /\ t = worker[w].task)'
BY UnfinishedNow, PTL

\* A request becomes x.
LEMMA RequestStep ==
    ASSUME Types, Known, Ages, TablesOK', NEW q \in Requests, NEW x \in Record,
           Becomes(q, x), queue' = queue, worker' = worker,
           mishaps' = mishaps \/ (mishaps < MaxMishaps /\ mishaps' = mishaps + 1),
           changes' = changes \/ (changes < MaxChanges /\ changes' = changes + 1),
           NEW rs \in SUBSET Roles, raced' = raced \cup rs,
           DirectBound' \/ (x.step # "grant" /\ direct' = direct),
           RequestKnown(x)',
           x.step = "send" => \A i \in DOMAIN x.sends : Named(x.sends[i])',
           x.step \in {"join", "fill"} =>
               \A p \in Requests : p # q /\ Enlisted(p) => request[p].user # x.user
    PROVE  Types' /\ Known'
<1>0. FlowOK'
    <2>1. changes' \in 0 .. MaxChanges /\ mishaps' \in 0 .. MaxMishaps
        <3>1. /\ changes \in 0 .. MaxChanges /\ mishaps \in 0 .. MaxMishaps
              /\ MaxChanges \in Nat /\ MaxMishaps \in Nat
            BY RoleSyncAssumption DEF Types, FlowOK
        <3> QED BY <3>1
    <2>2. request' \in [Requests -> Record]
        BY DEF Types, FlowOK, Becomes
    <2> QED BY <2>1, <2>2 DEF Types, FlowOK
<1>1. DirectBound'
    <2>1. CASE x.step # "grant" /\ direct' = direct
        <3>1. \A d \in Direct : direct'[d] <= direct[d]
            BY <2>1, SameDirect DEF Types
        <3>2. \E p \in Requests, y \in Record :
                  y.step # "grant" /\ request' = [request EXCEPT ![p] = y]
            BY <2>1 DEF Becomes
        <3> QED BY <3>1, <3>2, NoNewGrantor
    <2> QED BY <2>1
<1>2. \A p \in Requests : request'[p] = IF p = q THEN x ELSE request[p]
    BY DEF Types, FlowOK, Becomes
<1>3. ASSUME NEW t \in Unfinished'
      PROVE  t \in Unfinished \/ Named(t)'
    <2>1. \/ \E p \in Requests : /\ At(p, "send")'
                                 /\ \E i \in DOMAIN request'[p].sends : t = request'[p].sends[i]
          \/ \E i \in DOMAIN queue : t = queue[i]
          \/ \E w \in Workers : worker[w] # Idle /\ t = worker[w].task
        BY <1>0, <1>3, UnfinishedNext
    <2>2. CASE \/ \E i \in DOMAIN queue : t = queue[i]
               \/ \E w \in Workers : worker[w] # Idle /\ t = worker[w].task
        BY <2>2, UnfinishedNow DEF Types
    <2>3. ASSUME NEW p \in Requests, At(p, "send")',
                 NEW i \in DOMAIN request'[p].sends, t = request'[p].sends[i]
          PROVE  t \in Unfinished \/ Named(t)'
        <3>1. CASE p = q
            BY <1>2, <2>3, <3>1 DEF At
        <3>2. CASE p # q
            BY <1>2, <2>3, <3>2, UnfinishedNow DEF At, Types
        <3> QED BY <3>1, <3>2
    <2> QED BY <2>1, <2>2, <2>3
<1>4. \A p \in Requests : request'[p] = request[p] \/ RequestKnown(request[p])'
    BY <1>2
<1>5. \A p \in Requests : Enlisted(p)' <=> IF p = q THEN x.step \in {"join", "fill"} ELSE Enlisted(p)
    BY <1>2 DEF Enlisted, At
<1>6. \A p, s \in Requests : Enlisted(p)' /\ Enlisted(s)' /\ request'[p].user = request'[s].user
                               => p = s
    BY <1>2, <1>5 DEF Known
<1>7. Known'
    BY <1>3, <1>4, <1>6, KnownFrom DEF Types
<1> QED BY <1>0, <1>1, <1>7 DEF Types

\* Where only the tables change.
LEMMA TableStep ==
    ASSUME Types, Known, Ages, TablesOK', request' = request, queue' = queue, worker' = worker,
           mishaps' = mishaps, \A d \in Direct : direct'[d] <= direct[d],
           changes' = changes \/ (changes < MaxChanges /\ changes' = changes + 1),
           NEW rs \in SUBSET Roles, raced' = raced \cup rs
    PROVE  Types' /\ Known'
<1>1. FlowOK'
    BY FlowSteps DEF Types
<1>2. DirectBound'
    BY NoNewGrantor
<1>3. Unfinished' = Unfinished
    BY DEF Unfinished, At
<1>4. \A p \in Requests : Enlisted(p)' <=> Enlisted(p)
    BY DEF Enlisted, At
<1>5. Known'
    BY <1>3, <1>4, KnownFrom DEF Types, Known
<1> QED BY <1>1, <1>2, <1>5 DEF Types

LEMMA TableViews ==
    ASSUME request' = request, queue' = queue, worker' = worker
    PROVE  \A r : Waiting(r)' = Waiting(r) /\ Hands(r)' = Hands(r) /\ Joining(r)' = Joining(r)
BY DEF Waiting, Hands, Joining, Concerns, Enlisted, Occupied, At

\* A worker becomes x.
LEMMA WorkerStep ==
    ASSUME Types, Known, users' = users, roles' = roles, TablesOK', NEW w \in Workers,
           NEW x \in Work \cup {Idle}, Has(w, x), request' = request,
           direct' = direct, changes' = changes,
           mishaps' = mishaps \/ (mishaps < MaxMishaps /\ mishaps' = mishaps + 1),
           NEW rs \in SUBSET Roles, raced' = raced \cup rs,
           WorkKnown(x), x # Idle => Named(x.task),
           \/ queue' = queue
           \/ Len(queue) < MaxQueue /\ \E t \in Task : Named(t) /\ queue' = Append(queue, t)
           \/ queue # <<>> /\ queue' = Tail(queue)
    PROVE  Types' /\ Known'
<1>0. /\ queue \in Seq(Task) /\ Len(queue) \in Nat /\ Len(queue) <= MaxQueue
      /\ worker \in [Workers -> Work \cup {Idle}] /\ mishaps \in 0 .. MaxMishaps
      /\ MaxQueue \in Nat /\ MaxMishaps \in Nat
    BY RoleSyncAssumption DEF Types, FlowOK
<1>1. queue' \in Seq(Task) /\ Len(queue') <= MaxQueue
    <2>1. CASE queue' = queue
        BY <1>0, <2>1
    <2>2. ASSUME NEW t \in Task, Len(queue) < MaxQueue, queue' = Append(queue, t)
          PROVE  queue' \in Seq(Task) /\ Len(queue') <= MaxQueue
        BY <1>0, <2>2
    <2>3. CASE queue # <<>> /\ queue' = Tail(queue)
        BY <1>0, <2>3
    <2> QED BY <2>1, <2>2, <2>3
<1>2. mishaps' \in 0 .. MaxMishaps
    BY <1>0
<1>3. \A p \in Workers : worker'[p] = IF p = w THEN x ELSE worker[p]
    BY <1>0 DEF Has
<1>4. FlowOK'
    <2>1. worker' \in [Workers -> Work \cup {Idle}]
        BY <1>0 DEF Has
    <2> QED BY <1>1, <1>2, <2>1 DEF Types, FlowOK
<1>5. DirectBound'
    BY NoNewGrantor, SameDirect DEF Types
<1>6. \A i \in DOMAIN queue' : Named(queue'[i]) \/ \E j \in DOMAIN queue : queue'[i] = queue[j]
    <2>1. CASE queue' = queue
        BY <2>1
    <2>2. ASSUME NEW t \in Task, Named(t), queue' = Append(queue, t)
          PROVE  \A i \in DOMAIN queue' : Named(queue'[i]) \/ \E j \in DOMAIN queue : queue'[i] = queue[j]
        <3>1. /\ DOMAIN queue = 1 .. Len(queue) /\ DOMAIN queue' = 1 .. Len(queue) + 1
              /\ queue'[Len(queue) + 1] = t
              /\ \A i \in 1 .. Len(queue) : queue'[i] = queue[i]
            BY <1>0, <2>2
        <3> DEFINE n == Len(queue)
                   D == DOMAIN queue
                   E == DOMAIN queue'
        <3>3. n \in Nat /\ D = 1 .. n /\ E = 1 .. n + 1
            BY <1>0, <3>1
        <3> HIDE DEF n, D, E
        <3>4. \A i \in E : i = n + 1 \/ i \in D
            BY <3>3
        <3>2. \A i \in DOMAIN queue' : i = Len(queue) + 1 \/ i \in DOMAIN queue
            BY <3>4 DEF n, D, E
        <3> QED BY <2>2, <3>1, <3>2
    <2>3. CASE queue # <<>> /\ queue' = Tail(queue)
        <3>1. /\ DOMAIN queue = 1 .. Len(queue) /\ DOMAIN queue' = 1 .. Len(queue) - 1
              /\ \A i \in 1 .. Len(queue) - 1 : queue'[i] = queue[i + 1]
            BY <1>0, <2>3
        <3> DEFINE n == Len(queue)
                   D == DOMAIN queue
                   E == DOMAIN queue'
        <3>3. n \in Nat /\ D = 1 .. n /\ E = 1 .. n - 1
            BY <1>0, <3>1
        <3> HIDE DEF n, D, E
        <3>4. \A i \in E : i + 1 \in D
            BY <3>3
        <3>2. \A i \in DOMAIN queue' : i + 1 \in DOMAIN queue
            BY <3>4 DEF D, E
        <3> QED BY <3>1, <3>2
    <2> QED BY <2>1, <2>2, <2>3
<1>7. ASSUME NEW t \in Unfinished'
      PROVE  Named(t)
    <2>1. \/ \E p \in Requests : /\ At(p, "send")
                                 /\ \E i \in DOMAIN request[p].sends : t = request[p].sends[i]
          \/ \E i \in DOMAIN queue' : t = queue'[i]
          \/ \E p \in Workers : worker'[p] # Idle /\ t = worker'[p].task
        BY <1>4, <1>7, UnfinishedNext DEF At
    <2>2. CASE \E i \in DOMAIN queue' : t = queue'[i]
        BY <1>6, <2>2, UnfinishedNow DEF Types, Known
    <2>3. CASE \E p \in Workers : worker'[p] # Idle /\ t = worker'[p].task
        BY <1>3, <2>3, UnfinishedNow DEF Types, Known
    <2>4. CASE \E p \in Requests : /\ At(p, "send")
                                   /\ \E i \in DOMAIN request[p].sends : t = request[p].sends[i]
        BY <2>4, UnfinishedNow DEF Types, Known
    <2> QED BY <2>1, <2>2, <2>3, <2>4
<1>8. \A t \in Unfinished' : Named(t)'
    BY <1>7 DEF Named
<1>9. \A p \in Workers : worker'[p] = worker[p] \/ WorkKnown(worker[p])'
    <2>1. \A y : WorkKnown(y)' <=> WorkKnown(y)
        BY DEF WorkKnown
    <2> QED BY <1>3, <2>1
<1>10. \A p \in Requests : Enlisted(p)' <=> Enlisted(p)
    BY DEF Enlisted, At
<1>11. Known'
    BY <1>8, <1>9, <1>10, SameAges, KnownFrom DEF Types, Known
<1> QED BY <1>4, <1>5, <1>11 DEF Types

\* The rows of one role.
LEMMA RoleRows ==
    ASSUME NEW r \in Roles
    PROVE  /\ grants \subseteq Users \X Permissions \X Roles =>
                 \A u, p : <<u, p>> \in Rights(r) <=> <<u, p, r>> \in grants
           /\ holds \subseteq Users \X Roles => \A u : u \in Held(r) <=> <<u, r>> \in holds
<1>1. ASSUME grants \subseteq Users \X Permissions \X Roles, NEW u, NEW p
      PROVE  <<u, p>> \in Rights(r) <=> <<u, p, r>> \in grants
    <2>1. ASSUME <<u, p, r>> \in grants
          PROVE  <<u, p>> \in Rights(r)
        <3> DEFINE g == <<u, p, r>>
        <3>1. g \in {x \in grants : x[3] = r} /\ g[1] = u /\ g[2] = p
            BY <2>1
        <3> HIDE DEF g
        <3> QED BY <3>1 DEF Rights
    <2>2. ASSUME <<u, p>> \in Rights(r)
          PROVE  <<u, p, r>> \in grants
        <3>1. PICK g \in grants : g[3] = r /\ <<u, p>> = <<g[1], g[2]>>
            BY <2>2 DEF Rights
        <3>2. g = <<g[1], g[2], g[3]>>
            BY <1>1
        <3> QED BY <3>1, <3>2
    <2> QED BY <2>1, <2>2
<1>2. ASSUME holds \subseteq Users \X Roles, NEW u
      PROVE  u \in Held(r) <=> <<u, r>> \in holds
    <2>1. ASSUME <<u, r>> \in holds
          PROVE  u \in Held(r)
        <3> DEFINE h == <<u, r>>
        <3>1. h \in {x \in holds : x[2] = r} /\ h[1] = u
            BY <2>1
        <3> HIDE DEF h
        <3> QED BY <3>1 DEF Held
    <2>2. ASSUME u \in Held(r)
          PROVE  <<u, r>> \in holds
        <3>1. PICK h \in holds : h[2] = r /\ u = h[1]
            BY <2>2 DEF Held
        <3>2. h = <<h[1], h[2]>>
            BY <1>2
        <3> QED BY <3>1, <3>2
    <2> QED BY <2>1, <2>2
<1> QED BY <1>1, <1>2

LEMMA HeldNow ==
    TablesOK => \A r \in Roles : \A u : u \in Held(r) <=> <<u, r>> \in holds
<1> SUFFICES ASSUME TablesOK, NEW r \in Roles, NEW u PROVE u \in Held(r) <=> <<u, r>> \in holds
    OBVIOUS
<1>1. holds \subseteq Users \X Roles
    BY DEF TablesOK
<1> QED BY <1>1, RoleRows

LEMMA HeldNext ==
    TablesOK' => (\A r \in Roles : \A u : u \in Held(r) <=> <<u, r>> \in holds)'
BY HeldNow, PTL

LEMMA InitSync == Init => Sync
<1> SUFFICES ASSUME Init PROVE Sync
    OBVIOUS
<1>1. TablesOK
    BY DEF Init, TablesOK, Lives, Live
<1>2. FlowOK
    BY RoleSyncAssumption DEF Init, FlowOK, Record
<1>3. \A q \in Requests : request[q] = Idle
    BY DEF Init
<1>4. DirectBound
    <2>1. ASSUME NEW d \in Direct
          PROVE  direct[d] + Cardinality(Grantors(d)) <= Cardinality(Requests)
        <3>1. Grantors(d) = {}
            BY <1>3 DEF Grantors, At, Idle
        <3>2. Cardinality(Grantors(d)) = 0
            BY <3>1, FS_EmptySet
        <3>3. Cardinality(Requests) \in Nat /\ direct[d] = 0
            BY RoleSyncAssumption, FS_CardinalityType DEF Init
        <3> QED BY <3>2, <3>3
    <2> QED BY <2>1 DEF DirectBound
<1>5. \A r : Waiting(r) = {} /\ Hands(r) = {} /\ Joining(r) = {}
    BY <1>3 DEF Init, Waiting, Hands, Occupied, Joining, Concerns, Enlisted, At, Idle
<1>6. Known
    <2>1. Unfinished = {}
        BY <1>3 DEF Init, Unfinished, At, Idle
    <2>2. \A w \in Workers : worker[w] = Idle
        BY DEF Init
    <2> QED BY <1>3, <2>1, <2>2 DEF Known, RequestKnown, WorkKnown, Enlisted, At, Idle
<1>7. ASSUME NEW r \in Roles
      PROVE  FitsNow(r)
    <2>1. holds = {} \/ holds = Live(users) \X Live(roles)
        BY DEF Init
    <2>2. grants = {g \in Users \X Permissions \X Roles :
                        <<g[1], g[3]>> \in holds /\ g[2] \in includes[g[3]]}
        BY DEF Init
    <2>3. includes[r] \subseteq Permissions
        BY <1>1 DEF TablesOK
    <2>4. ASSUME NEW u \in Live(users)
          PROVE  Of(Rights(r), u) = IF u \in Held(r) THEN includes[r] ELSE {}
        <3>1. u \in Users
            BY DEF Live, Init
        <3>2. \A p : p \in Of(Rights(r), u) <=> p \in Permissions /\ <<u, p, r>> \in grants
            <4>1. \A p : <<u, p>> \in Rights(r) <=> <<u, p, r>> \in grants
                BY <2>2, RoleRows
            <4> QED BY <4>1 DEF Of
        <3>3. \A p : <<u, p, r>> \in grants <=> p \in Permissions /\ <<u, r>> \in holds /\ p \in includes[r]
            BY <2>2, <3>1
        <3>4. u \in Held(r) <=> <<u, r>> \in holds
            BY <2>1 DEF Held
        <3> QED BY <2>3, <3>2, <3>3, <3>4
    <2> QED BY <1>5, <2>4, FitsStill DEF FitsNow
<1>8. Settling
    BY <1>7 DEF Settling, Live, Init
<1> QED BY <1>1, <1>2, <1>4, <1>6, <1>8 DEF Sync, Types

-----------------------------------------------------------------------------
(* The workers.                                                             *)

\* What a worker has is in hand of its role, and of no other.
LEMMA Hand ==
    ASSUME FlowOK, Known, NEW w \in Workers, worker[w] # Idle
    PROVE  /\ worker[w] \in Work /\ worker[w].task \in Task /\ WorkKnown(worker[w])
           /\ worker[w].task.role \in Roles
           /\ worker[w] \in Hands(worker[w].task.role)
           /\ Named(worker[w].task)
<1>1. worker[w] \in Work /\ worker[w].task \in Task
    BY WorkFields DEF FlowOK
<1>2. worker[w].task \in Unfinished
    BY UnfinishedTasks
<1> QED BY <1>1, <1>2, TaskFields, TasksOfRole DEF Known

LEMMA TakeSync ==
    ASSUME Sync, NEW w \in Workers, Take(w)
    PROVE  Sync'
<1> DEFINE t == Head(queue)
           x == [step |-> "read", task |-> t, found |-> {}, todo |-> t.removed]
<1>1. /\ worker[w] = Idle /\ queue # <<>> /\ queue' = Tail(queue)
      /\ Has(w, x)
      /\ UNCHANGED <<users, roles, includes, permissions, holds, grants, direct, request, raced,
                     mishaps, changes>>
    BY DEF Take, tables, Has
<1>0. TablesOK /\ FlowOK /\ Known /\ Settling /\ Types
    BY DEF Sync, Types
<1>2. t \in Task /\ \A r : Waiting(r) = Waiting(r)' \cup (IF t.role = r THEN {t} ELSE {})
    BY <1>0, <1>1, QueueViews
<1>3. Named(t)
    <2>1. 1 \in DOMAIN queue /\ t = queue[1]
        BY <1>0, <1>1 DEF FlowOK
    <2>2. t \in Unfinished
        BY <1>0, <2>1, UnfinishedTasks
    <2> QED BY <1>0, <2>2 DEF Known
<1>4. x \in Work /\ x # Idle /\ x.task = t /\ WorkKnown(x)
    BY <1>2, TaskFields DEF Work, Idle, WorkKnown
<1>5. TablesOK'
    BY <1>0, <1>1, SameTables DEF tables
<1> HIDE DEF t
<1>6. x.step = "read" /\ x.todo = t.removed
    OBVIOUS
<1> HIDE DEF x
<1>7. Types' /\ Known'
    <2>1. raced' = raced \cup {} /\ {} \in SUBSET Roles
        BY <1>1
    <2> QED BY <1>0, <1>1, <1>3, <1>4, <1>5, <2>1, WorkerStep
<1>8. ASSUME NEW r \in Roles, roles'[r] = "live", r \notin raced'
      PROVE  FitsNow(r)' \/ (roles[r] = "live" /\ SameRole(r))
    <2>1. /\ Joining(r)' = Joining(r)
          /\ \A y \in Hands(r)' : y \in Hands(r) \/ (y = x /\ x.task.role = r)
          /\ Hands(r) \ {Idle} \subseteq Hands(r)'
          /\ x.task.role = r => x \in Hands(r)'
          /\ x.task.role # r => Hands(r)' = Hands(r)
        BY <1>0, <1>1, <1>4, WorkerViews
    <2>2. Live(users)' = Live(users) /\ Held(r)' = Held(r) /\ Rights(r)' = Rights(r)
        BY <1>1 DEF Live, Held, Rights
    <2>3. CASE t.role # r
        <3>1. x.task.role # r /\ Waiting(r)' = Waiting(r)
            BY <1>2, <1>4, <2>3
        <3> QED BY <1>1, <1>8, <2>1, <2>2, <3>1 DEF SameRole
    <2>4. CASE t.role = r
        <3>1. Idle \notin Hands(r) /\ Waiting(r) = Waiting(r)' \cup {t}
            BY <1>0, <1>2, <2>4, TasksOfRole
        <3>2. /\ \A s \in Tasks(Waiting(r)', Hands(r)') : s \in Tasks(Waiting(r), Hands(r))
              /\ \A s \in Tasks(Waiting(r), Hands(r)) : s \in Tasks(Waiting(r)', Hands(r)')
            BY <1>4, <2>1, <2>4, <3>1 DEF Tasks
        <3>3. HandFits(Live(users), includes[r], Held(r), Rights(r), x)
            BY <1>4, <1>6 DEF HandFits
        <3>4. Fits(r, Live(users), includes[r], Held(r), Rights(r),
                   Waiting(r), Hands(r), Joining(r))
            BY <1>0, <1>1, <1>8 DEF Settling, FitsNow, Live, TablesOK
        <3>5. \A z \in Hands(r) : z.step = "revoke" => z \in Hands(r)'
            BY <2>1, <3>1
        <3>6. Fits(r, Live(users), includes[r], Held(r), Rights(r),
                   Waiting(r)', Hands(r)', Joining(r))
            BY <1>0, <1>4, <2>1, <2>4, <3>2, <3>3, <3>4, <3>5, NowShapes, FitsTurn
        <3> QED BY <1>1, <2>1, <2>2, <3>6 DEF FitsNow
    <2> QED BY <2>3, <2>4
<1> QED BY <1>0, <1>1, <1>5, <1>7, <1>8, SettlingFrom DEF Sync, TablesOK

\* A worker goes on with the task it has.
LEMMA HandTurns ==
    ASSUME FlowOK, Known, NEW w \in Workers, worker[w] # Idle,
           NEW x \in Work, x.task = worker[w].task,
           Has(w, x), request' = request, queue' = queue, NEW r
    PROVE  /\ Waiting(r)' = Waiting(r) /\ Joining(r)' = Joining(r)
           /\ r = x.task.role => Turns(Hands(r), worker[w], x, Hands(r)')
           /\ r # x.task.role => Hands(r)' = Hands(r)
<1>1. worker[w] \in Hands(x.task.role)
    BY Hand
<1>2. x # Idle /\ x \in Work \cup {Idle}
    BY WorkFields
<1>3. Waiting(r)' = Waiting(r)
    BY QueueViews
<1>4. /\ Joining(r)' = Joining(r)
      /\ \A y \in Hands(r)' : y \in Hands(r) \/ (y = x /\ x # Idle /\ x.task.role = r)
      /\ Hands(r) \ {worker[w]} \subseteq Hands(r)'
      /\ x # Idle /\ x.task.role = r => x \in Hands(r)'
      /\ /\ worker[w] # Idle => worker[w].task.role # r
         /\ x # Idle => x.task.role # r
         => Hands(r)' = Hands(r)
    BY <1>2, WorkerViews
<1>5. r # x.task.role => Hands(r)' = Hands(r)
    BY <1>2, <1>4
<1>6. ASSUME r = x.task.role
      PROVE  Turns(Hands(r), worker[w], x, Hands(r)')
    <2>1. /\ \A y \in Hands(r)' : y \in Hands(r) \/ y = x
          /\ Hands(r) \ {worker[w]} \subseteq Hands(r)'
          /\ x \in Hands(r)' /\ worker[w] \in Hands(r)
        BY <1>1, <1>2, <1>4, <1>6
    <2> QED BY <2>1 DEF Turns
<1> QED BY <1>3, <1>4, <1>5, <1>6

\* It puts the task down.
LEMMA HandDrops ==
    ASSUME FlowOK, Known, NEW w \in Workers, worker[w] # Idle,
           Has(w, Idle), request' = request, NEW r
    PROVE  /\ Joining(r)' = Joining(r)
           /\ r = worker[w].task.role => Drops(Hands(r), worker[w], Hands(r)')
           /\ r # worker[w].task.role => Hands(r)' = Hands(r)
<1>1. worker[w] \in Hands(worker[w].task.role)
    BY Hand
<1>2. /\ Joining(r)' = Joining(r)
      /\ \A y \in Hands(r)' : y \in Hands(r)
      /\ Hands(r) \ {worker[w]} \subseteq Hands(r)'
      /\ (worker[w] # Idle => worker[w].task.role # r) => Hands(r)' = Hands(r)
    BY WorkerViews
<1>3. r = worker[w].task.role => Drops(Hands(r), worker[w], Hands(r)')
    BY <1>1, <1>2 DEF Drops
<1> QED BY <1>2, <1>3

LEMMA ReadSync ==
    ASSUME Sync, NEW w \in Workers, Read(w)
    PROVE  Sync'
<1> DEFINE t == worker[w].task
           f == CASE t.task = "created" -> includes[t.role]
                  [] t.task = "updated" -> {h[1] : h \in {x \in holds : x[2] = t.role}}
                  [] t.task = "deleted" -> {}
           y == [step |-> IF t.task = "deleted" THEN "revoke" ELSE "insert",
                 task |-> t, found |-> f, todo |-> worker[w].todo]
<1>0. TablesOK /\ FlowOK /\ Known /\ Settling /\ Types /\ TypeOK
    BY TypesImplyTypeOK DEF Sync, Types
<1>1. /\ worker[w] # Idle /\ worker[w].step = "read"
      /\ UNCHANGED <<users, roles, includes, permissions, holds, grants, direct, queue, request,
                     raced, mishaps, changes>>
    BY DEF Read, Working, Idle, tables
<1>2. Has(w, y)
    BY <1>0, <1>1, WorkSteps DEF Has
<1>3. worker[w] \in Work /\ t \in Task /\ t.role \in Roles /\ Named(t) /\ worker[w].todo \in SUBSET Permissions
    BY <1>0, <1>1, Hand, WorkFields
<1>4. /\ t.task = "created" => f = includes[t.role] /\ f \in SUBSET Permissions
      /\ t.task = "updated" => f = Held(t.role) /\ f \in SUBSET Users
      /\ t.task = "deleted" => f = {}
    BY <1>0, <1>3 DEF Held, TablesOK
<1> HIDE DEF f
<1>5. y \in Work /\ WorkKnown(y) /\ y.task = t
    BY <1>3, <1>4, TaskFields DEF Work, WorkKnown
<1>6. TablesOK'
    BY <1>0, <1>1, SameTables DEF tables
<1>7. /\ y.step \in {"insert", "revoke"}
      /\ y.step = "insert" => t.task # "deleted"
      /\ y.step = "revoke" => t.task = "deleted"
      /\ y.found = f /\ y.todo = worker[w].todo
    OBVIOUS
<1> HIDE DEF y, t
<1>8. Types' /\ Known'
    <2>1. raced' = raced \cup {} /\ {} \in SUBSET Roles
        BY <1>1
    <2>2. y \in Work \cup {Idle} /\ WorkKnown(y) /\ (y # Idle => Named(y.task))
        BY <1>3, <1>5
    <2> QED BY <1>0, <1>1, <1>2, <1>6, <2>1, <2>2, WorkerStep
<1>9. ASSUME NEW r \in Roles, roles'[r] = "live", r \notin raced'
      PROVE  FitsNow(r)' \/ (roles[r] = "live" /\ SameRole(r))
    <2>1. /\ Waiting(r)' = Waiting(r) /\ Joining(r)' = Joining(r)
          /\ r = t.role => Turns(Hands(r), worker[w], y, Hands(r)')
          /\ r # t.role => Hands(r)' = Hands(r)
        BY <1>0, <1>1, <1>2, <1>5, HandTurns DEF t
    <2>2. Live(users)' = Live(users) /\ Held(r)' = Held(r) /\ Rights(r)' = Rights(r)
        BY <1>1 DEF Live, Held, Rights
    <2>3. CASE t.role # r
        <3>1. Hands(r)' = Hands(r) /\ roles[r] = "live"
            BY <1>1, <1>9, <2>1, <2>3
        <3> QED BY <1>1, <2>1, <2>2, <3>1 DEF SameRole
    <2>4. CASE t.role = r
        <3>1. Fits(r, Live(users), includes[r], Held(r), Rights(r),
                   Waiting(r), Hands(r), Joining(r))
            BY <1>0, <1>1, <1>9 DEF Settling, FitsNow, Live, TablesOK
        <3>2. worker[w] \in Hands(r)
            BY <2>1, <2>4 DEF Turns
        <3>3. HandFits(Live(users), includes[r], Held(r), Rights(r), worker[w])
            BY <3>1, <3>2 DEF Fits
        <3>4. HandFits(Live(users), includes[r], Held(r), Rights(r), y)
            <4>1. y.step # "ack" /\ y.task = t
                BY <1>5, <1>7
            <4>2. ASSUME t.task = "updated"
                  PROVE  y.step = "insert" /\ y.found = Held(r) /\ y.todo = t.removed
                <5>1. worker[w].todo = t.removed
                    BY <1>1, <3>3, <4>2 DEF HandFits, t
                <5> QED BY <1>4, <1>7, <2>4, <4>2, <5>1
            <4>3. t.task = "created" => y.found = includes[r]
                BY <1>4, <1>7, <2>4
            <4> QED BY <4>1, <4>2, <4>3 DEF HandFits
        <3>5. /\ \A s \in Tasks(Waiting(r), Hands(r)') : s \in Tasks(Waiting(r), Hands(r))
              /\ \A s \in Tasks(Waiting(r), Hands(r)) : s \in Tasks(Waiting(r), Hands(r)')
            BY <1>5, <2>1, <2>4 DEF Tasks, Turns, t
        <3>6. /\ \A z \in Hands(r)' : z \in Hands(r) \/ z = y
              /\ \A z \in Hands(r) : z.step = "revoke" => z \in Hands(r)'
              /\ y \in Hands(r)'
            BY <1>1, <2>1, <2>4 DEF Turns
        <3>7. Fits(r, Live(users), includes[r], Held(r), Rights(r),
                   Waiting(r), Hands(r)', Joining(r))
            BY <1>0, <3>1, <3>4, <3>5, <3>6, NowShapes, FitsTurn
        <3> QED BY <1>1, <2>1, <2>2, <3>7 DEF FitsNow
    <2> QED BY <2>3, <2>4
<1> QED BY <1>0, <1>1, <1>6, <1>8, <1>9, SettlingFrom DEF Sync, TablesOK

\* What rows that come and go are to one role.
LEMMA RightsGain ==
    ASSUME NEW us, NEW ps, NEW r0, NEW r,
           grants' = grants \cup Rows(us, ps, r0)
    PROVE  Rights(r)' = IF r = r0 THEN Rights(r) \cup {<<u, p>> : u \in us, p \in ps} ELSE Rights(r)
<1>1. \A y : y \in Rights(r)' <=> \E g \in grants' : g[3] = r /\ y = <<g[1], g[2]>>
    BY DEF Rights
<1>2. \A y : y \in Rights(r) <=> \E g \in grants : g[3] = r /\ y = <<g[1], g[2]>>
    BY DEF Rights
<1>3. \A y : (\E g \in Rows(us, ps, r0) : g[3] = r /\ y = <<g[1], g[2]>>)
                <=> r = r0 /\ y \in {<<u, p>> : u \in us, p \in ps}
    <2>1. ASSUME NEW y, NEW g \in Rows(us, ps, r0), g[3] = r, y = <<g[1], g[2]>>
          PROVE  r = r0 /\ y \in {<<u, p>> : u \in us, p \in ps}
        <3>1. PICK u \in us, p \in ps : g = <<u, p, r0>>
            BY <2>1 DEF Rows
        <3> QED BY <2>1, <3>1
    <2>2. ASSUME NEW y \in {<<u, p>> : u \in us, p \in ps}, r = r0
          PROVE  \E g \in Rows(us, ps, r0) : g[3] = r /\ y = <<g[1], g[2]>>
        <3>1. PICK u \in us, p \in ps : y = <<u, p>>
            BY <2>2
        <3> DEFINE g == <<u, p, r0>>
        <3>2. g \in Rows(us, ps, r0) /\ g[3] = r /\ g[1] = u /\ g[2] = p
            BY <2>2 DEF Rows
        <3> HIDE DEF g
        <3> QED BY <3>1, <3>2
    <2> QED BY <2>1, <2>2
<1>4. \A y : y \in Rights(r)' <=> y \in Rights(r) \/ (r = r0 /\ y \in {<<u, p>> : u \in us, p \in ps})
    BY <1>1, <1>2, <1>3
<1> QED BY <1>4

LEMMA RightsRow ==
    ASSUME NEW r
    PROVE  /\ \A y : y \in Rights(r)' <=> \E g \in grants' : g[3] = r /\ y = <<g[1], g[2]>>
           /\ \A y : y \in Rights(r) <=> \E g \in grants : g[3] = r /\ y = <<g[1], g[2]>>
BY DEF Rights

\* A worker does what its task says, for the role that the task names.
LEMMA TurnSync ==
    ASSUME Sync, NEW w \in Workers, worker[w] # Idle, NEW x \in Work, x.task = worker[w].task,
           WorkKnown(x), Has(w, x), TablesOK',
           UNCHANGED <<users, roles, includes, permissions, holds, direct, queue, request, raced,
                       mishaps, changes>>,
           \A r \in Roles : r # x.task.role => Rights(r)' = Rights(r),
           \A r \in Roles :
               /\ r = x.task.role /\ roles[r] = "live" /\ r \notin raced
               /\ FitsNow(r) /\ Turns(Hands(r), worker[w], x, Hands(r)')
               => Fits(r, Live(users), includes[r], Held(r), Rights(r)',
                       Waiting(r), Hands(r)', Joining(r))
    PROVE  Sync'
<1>0. TablesOK /\ FlowOK /\ Known /\ Settling /\ Types
    BY DEF Sync, Types
<1>1. Types' /\ Known'
    <2>1. raced' = raced \cup {} /\ {} \in SUBSET Roles
        OBVIOUS
    <2>2. x \in Work \cup {Idle} /\ Named(x.task)
        BY <1>0, Hand
    <2> QED BY <1>0, <2>1, <2>2, WorkerStep
<1>2. ASSUME NEW r \in Roles, roles'[r] = "live", r \notin raced'
      PROVE  FitsNow(r)' \/ (roles[r] = "live" /\ SameRole(r))
    <2>1. /\ Waiting(r)' = Waiting(r) /\ Joining(r)' = Joining(r)
          /\ r = x.task.role => Turns(Hands(r), worker[w], x, Hands(r)')
          /\ r # x.task.role => Hands(r)' = Hands(r)
        BY <1>0, HandTurns
    <2>2. Live(users)' = Live(users) /\ Held(r)' = Held(r)
        BY DEF Live, Held
    <2>3. CASE x.task.role # r
        <3>1. Hands(r)' = Hands(r) /\ roles[r] = "live" /\ Rights(r)' = Rights(r)
            BY <1>2, <2>1, <2>3
        <3> QED BY <2>1, <2>2, <3>1 DEF SameRole
    <2>4. CASE x.task.role = r
        <3>1. FitsNow(r)
            BY <1>0, <1>2 DEF Settling, Live, TablesOK
        <3>2. Fits(r, Live(users), includes[r], Held(r), Rights(r)',
                   Waiting(r), Hands(r)', Joining(r))
            BY <1>2, <2>1, <2>4, <3>1
        <3> QED BY <2>1, <2>2, <3>2 DEF FitsNow
    <2> QED BY <2>3, <2>4
<1> QED BY <1>0, <1>1, <1>2, SettlingFrom DEF Sync, TablesOK

\* What a worker has after a statement of its task.
LEMMA StepFields ==
    ASSUME FlowOK, NEW w \in Workers, worker[w] # Idle,
           NEW step \in {"insert", "revoke", "ack"}, NEW todo \in SUBSET Permissions
    PROVE  LET x == [step |-> step, task |-> worker[w].task, found |-> worker[w].found, todo |-> todo]
           IN  x \in Work /\ x.step = step /\ x.task = worker[w].task /\ x.todo = todo
BY WorkFields DEF FlowOK, Work

LEMMA InsertSync ==
    ASSUME Sync, NEW w \in Workers, Insert(w)
    PROVE  Sync'
<1>0. TablesOK /\ FlowOK /\ Known /\ Settling /\ Types /\ TypeOK
    BY TypesImplyTypeOK DEF Sync, Types
<1> DEFINE o == worker[w]
           t == o.task
           s == IF t.task = "created" \/ o.todo = {} THEN "ack" ELSE "revoke"
<1>1. /\ o # Idle /\ o.step = "insert" /\ Insertable(Batch(w)) /\ grants' = grants \cup Batch(w)
      /\ UNCHANGED <<users, roles, includes, permissions, holds, direct, queue, request, raced,
                     mishaps, changes>>
    BY DEF Insert, Working, Idle
<1>2. o \in Work /\ t \in Task /\ WorkKnown(o) /\ t.role \in Roles /\ o.todo \in SUBSET Permissions
    BY <1>0, <1>1, Hand, WorkFields
<1>3. PICK x \in Work : /\ Has(w, x) /\ x.step = s /\ x.task = t /\ x.todo = o.todo
    <2> DEFINE y == [step |-> s, task |-> t, found |-> o.found, todo |-> o.todo]
    <2>1. s \in {"insert", "revoke", "ack"} /\ s \in {"read", "insert", "revoke", "ack"}
        OBVIOUS
    <2>2. Goes(w, s)
        BY DEF Insert
    <2> HIDE DEF s
    <2>3. Has(w, y)
        BY <1>0, <1>1, <2>1, <2>2, WorkSteps DEF Has
    <2>4. y \in Work /\ y.step = s /\ y.task = t /\ y.todo = o.todo
        BY <1>0, <1>1, <1>2, <2>1, StepFields
    <2> HIDE DEF y
    <2> QED BY <2>3, <2>4
<1>4. TablesOK'
    <2>1. Batch(w) \in SUBSET (Users \X Permissions \X Roles)
        BY <1>0, BatchType
    <2> QED BY <1>0, <1>1, <2>1, InsertKeepsTables
<1>5. t.task = "created" \/ t.task = "updated"
    BY <1>1, <1>2 DEF WorkKnown
<1>6. WorkKnown(x)
    BY <1>3, <1>5 DEF WorkKnown
<1>7. PICK us, ps : /\ Batch(w) = Rows(us, ps, t.role)
                    /\ us = IF t.task = "created" THEN {t.user} ELSE o.found
                    /\ ps = IF t.task = "created" THEN o.found ELSE t.added
    BY DEF Batch
<1> HIDE DEF s
<1>8. ASSUME NEW r \in Roles
      PROVE  Rights(r)' = IF r = t.role THEN Rights(r) \cup {<<u, p>> : u \in us, p \in ps}
                          ELSE Rights(r)
    BY <1>1, <1>7, RightsGain
<1>9. ASSUME NEW r \in Roles, r = x.task.role, roles[r] = "live", FitsNow(r),
             Turns(Hands(r), o, x, Hands(r)')
      PROVE  Fits(r, Live(users), includes[r], Held(r), Rights(r)',
                  Waiting(r), Hands(r)', Joining(r))
    <2>1. /\ Fits(r, Live(users), includes[r], Held(r), Rights(r), Waiting(r), Hands(r), Joining(r))
          /\ Shapes(Live(users), includes[r], Held(r), Rights(r), Waiting(r), Hands(r), Joining(r))
        BY <1>0, <1>9, NowShapes DEF FitsNow
    <2>2. Rights(r)' = Rights(r) \cup {<<u, p>> : u \in us, p \in ps}
        BY <1>3, <1>8, <1>9
    <2>3. CASE t.task = "updated"
        <3>1. x.step = IF o.todo = {} THEN "ack" ELSE "revoke"
            BY <1>3, <2>3 DEF s
        <3>2. Rights(r)' = Rights(r) \cup {<<u, p>> : u \in o.found, p \in t.added}
            BY <1>7, <2>2, <2>3
        <3> HIDE DEF o
        <3> QED BY <1>1, <1>3, <1>9, <2>1, <2>3, <3>1, <3>2, FitsInsertUpdated
    <2>4. CASE t.task = "created"
        <3>1. x.step = "ack"
            BY <1>3, <2>4 DEF s
        <3>2. Rights(r)' = Rights(r) \cup {<<u, p>> : u \in {t.user}, p \in o.found}
            BY <1>7, <2>2, <2>4
        <3>3. t.user \notin Live(users) => o.found = {}
            <4>1. ASSUME NEW p \in o.found
                  PROVE  users[t.user] = "live"
                <5> DEFINE g == <<t.user, p, t.role>>
                <5>1. g \in Batch(w) /\ g[1] = t.user
                    BY <1>7, <2>4 DEF Rows
                <5> HIDE DEF g, o
                <5> QED BY <1>1, <5>1 DEF Insertable
            <4>2. t.user \in Users
                BY <1>2, <2>4, TaskFields
            <4> QED BY <1>0, <4>1, <4>2 DEF Live, TablesOK
        <3> HIDE DEF o
        <3> QED BY <1>1, <1>3, <1>9, <2>1, <2>4, <3>1, <3>2, <3>3, FitsInsertCreated
    <2> QED BY <1>5, <2>3, <2>4
<1> HIDE DEF t
<1>10. \A r \in Roles : r # x.task.role => Rights(r)' = Rights(r)
    BY <1>3, <1>8
<1> QED BY <1>1, <1>3, <1>4, <1>6, <1>9, <1>10, TurnSync DEF t

LEMMA RevokeAllSync ==
    ASSUME Sync, NEW w \in Workers, RevokeAll(w)
    PROVE  Sync'
<1>0. TablesOK /\ FlowOK /\ Known /\ Settling /\ Types /\ TypeOK
    BY TypesImplyTypeOK DEF Sync, Types
<1> DEFINE o == worker[w]
           t == o.task
<1>1. /\ o # Idle /\ o.step = "revoke" /\ t.task = "deleted"
      /\ grants' = {g \in grants : ~(g[1] = t.user /\ g[3] = t.role)}
      /\ UNCHANGED <<users, roles, includes, permissions, holds, direct, queue, request, raced,
                     mishaps, changes>>
    BY DEF RevokeAll, Working, Idle
<1>2. o \in Work /\ t \in Task /\ WorkKnown(o) /\ t.role \in Roles /\ o.todo \in SUBSET Permissions
    BY <1>0, <1>1, Hand, WorkFields
<1>3. PICK x \in Work : /\ Has(w, x) /\ x.step = "ack" /\ x.task = t /\ x.todo = o.todo
    <2> DEFINE y == [step |-> "ack", task |-> t, found |-> o.found, todo |-> o.todo]
    <2>1. Has(w, y)
        BY <1>0, <1>1, WorkSteps DEF Has, RevokeAll
    <2>2. y \in Work /\ y.step = "ack" /\ y.task = t /\ y.todo = o.todo
        BY <1>0, <1>1, <1>2, StepFields
    <2> HIDE DEF y
    <2> QED BY <2>1, <2>2
<1>4. TablesOK'
    BY <1>0, <1>1, RevocationKeepsTables
<1>5. WorkKnown(x)
    BY <1>3 DEF WorkKnown
<1>6. ASSUME NEW r \in Roles
      PROVE  Rights(r)' = IF r = t.role THEN {g \in Rights(r) : g[1] # t.user} ELSE Rights(r)
    <2>1. \A y : y \in Rights(r)' <=> y \in Rights(r) /\ (r = t.role => y[1] # t.user)
        BY <1>1, RightsRow
    <2> QED BY <2>1
<1>7. ASSUME NEW r \in Roles, r = x.task.role, roles[r] = "live", FitsNow(r),
             Turns(Hands(r), o, x, Hands(r)')
      PROVE  Fits(r, Live(users), includes[r], Held(r), Rights(r)',
                  Waiting(r), Hands(r)', Joining(r))
    <2>1. /\ Fits(r, Live(users), includes[r], Held(r), Rights(r), Waiting(r), Hands(r), Joining(r))
          /\ Shapes(Live(users), includes[r], Held(r), Rights(r), Waiting(r), Hands(r), Joining(r))
        BY <1>0, <1>7, NowShapes DEF FitsNow
    <2>2. Rights(r)' = {g \in Rights(r) : g[1] # t.user}
        BY <1>3, <1>6, <1>7
    <2> HIDE DEF o
    <2> QED BY <1>1, <1>3, <1>7, <2>1, <2>2, FitsRevokeAll
<1> HIDE DEF t
<1>8. \A r \in Roles : r # x.task.role => Rights(r)' = Rights(r)
    BY <1>3, <1>6
<1> QED BY <1>1, <1>3, <1>4, <1>5, <1>7, <1>8, TurnSync DEF t

LEMMA RevokeOneSync ==
    ASSUME Sync, NEW w \in Workers, NEW p \in Permissions, RevokeOne(w, p)
    PROVE  Sync'
<1>0. TablesOK /\ FlowOK /\ Known /\ Settling /\ Types /\ TypeOK
    BY TypesImplyTypeOK DEF Sync, Types
<1> DEFINE o == worker[w]
           t == o.task
           s == IF o.todo = {p} THEN "ack" ELSE "revoke"
<1>1. /\ o # Idle /\ o.step = "revoke" /\ t.task = "updated" /\ p \in o.todo
      /\ grants' = {g \in grants : ~(g[2] = p /\ g[3] = t.role)}
      /\ UNCHANGED <<users, roles, includes, permissions, holds, direct, queue, request, raced,
                     mishaps, changes>>
    BY DEF RevokeOne, Working, Idle
<1>2. o \in Work /\ t \in Task /\ WorkKnown(o) /\ t.role \in Roles /\ o.todo \in SUBSET Permissions
    BY <1>0, <1>1, Hand, WorkFields
<1>3. PICK x \in Work : /\ Has(w, x) /\ x.step = s /\ x.task = t /\ x.todo = o.todo \ {p}
    <2> DEFINE d == o.todo \ {p}
               y == [step |-> s, task |-> t, found |-> o.found, todo |-> d]
    <2>1. Has(w, y)
        BY <1>0, <1>1, WorkSteps DEF Has
    <2>2. d \in SUBSET Permissions /\ s \in {"insert", "revoke", "ack"}
        BY <1>2
    <2> HIDE DEF s, d
    <2>3. y \in Work /\ y.step = s /\ y.task = t /\ y.todo = d
        BY <1>0, <1>1, <2>2, StepFields
    <2> HIDE DEF y
    <2> QED BY <2>1, <2>3 DEF d
<1>4. TablesOK'
    BY <1>0, <1>1, RevocationKeepsTables
<1>5. WorkKnown(x)
    BY <1>1, <1>3 DEF WorkKnown
<1>6. ASSUME NEW r \in Roles
      PROVE  Rights(r)' = IF r = t.role THEN {g \in Rights(r) : g[2] # p} ELSE Rights(r)
    <2>1. \A y : y \in Rights(r)' <=> y \in Rights(r) /\ (r = t.role => y[2] # p)
        BY <1>1, RightsRow
    <2> QED BY <2>1
<1>7. ASSUME NEW r \in Roles, r = x.task.role, roles[r] = "live", FitsNow(r),
             Turns(Hands(r), o, x, Hands(r)')
      PROVE  Fits(r, Live(users), includes[r], Held(r), Rights(r)',
                  Waiting(r), Hands(r)', Joining(r))
    <2>1. /\ Fits(r, Live(users), includes[r], Held(r), Rights(r), Waiting(r), Hands(r), Joining(r))
          /\ Shapes(Live(users), includes[r], Held(r), Rights(r), Waiting(r), Hands(r), Joining(r))
        BY <1>0, <1>7, NowShapes DEF FitsNow
    <2>2. Rights(r)' = {g \in Rights(r) : g[2] # p}
        BY <1>3, <1>6, <1>7
    <2>3. x.step = IF o.todo = {p} THEN "ack" ELSE "revoke"
        BY <1>3
    <2> HIDE DEF o, s
    <2> QED BY <1>1, <1>3, <1>7, <2>1, <2>2, <2>3, FitsRevokeOne
<1> HIDE DEF t
<1>8. \A r \in Roles : r # x.task.role => Rights(r)' = Rights(r)
    BY <1>3, <1>6
<1> QED BY <1>1, <1>3, <1>4, <1>5, <1>7, <1>8, TurnSync DEF t

\* A worker is rid of its task, which is done, given up or back in the queue.
LEMMA DropSync ==
    ASSUME Sync, NEW w \in Workers, worker[w] # Idle, Has(w, Idle),
           UNCHANGED <<users, roles, includes, permissions, holds, grants, direct, request,
                       changes>>,
           mishaps' = mishaps \/ (mishaps < MaxMishaps /\ mishaps' = mishaps + 1),
           NEW rs \in SUBSET Roles, raced' = raced \cup rs,
           \/ queue' = queue
           \/ Len(queue) < MaxQueue /\ \E s \in Task : /\ queue' = Append(queue, s)
                                                      /\ s.role = worker[w].task.role /\ Named(s),
           \A r \in Roles :
               /\ r = worker[w].task.role /\ roles[r] = "live" /\ r \notin raced'
               /\ FitsNow(r) /\ Drops(Hands(r), worker[w], Hands(r)')
               => Fits(r, Live(users), includes[r], Held(r), Rights(r),
                       Waiting(r)', Hands(r)', Joining(r))
    PROVE  Sync'
<1>0. TablesOK /\ FlowOK /\ Known /\ Settling /\ Types
    BY DEF Sync, Types
<1>1. TablesOK'
    BY <1>0, SameTables DEF tables
<1>2. Types' /\ Known'
    <2>1. Idle \in Work \cup {Idle} /\ WorkKnown(Idle)
        BY DEF WorkKnown, Idle
    <2>2. \/ queue' = queue
          \/ Len(queue) < MaxQueue /\ \E t \in Task : Named(t) /\ queue' = Append(queue, t)
          \/ queue # <<>> /\ queue' = Tail(queue)
        OBVIOUS
    <2> QED BY <1>0, <1>1, <2>1, <2>2, WorkerStep
<1>3. ASSUME NEW r \in Roles, roles'[r] = "live", r \notin raced'
      PROVE  FitsNow(r)' \/ (roles[r] = "live" /\ SameRole(r))
    <2>1. /\ Joining(r)' = Joining(r)
          /\ r = worker[w].task.role => Drops(Hands(r), worker[w], Hands(r)')
          /\ r # worker[w].task.role => Hands(r)' = Hands(r)
        BY <1>0, HandDrops
    <2>2. Live(users)' = Live(users) /\ Held(r)' = Held(r) /\ Rights(r)' = Rights(r)
        BY DEF Live, Held, Rights
    <2>3. CASE worker[w].task.role # r
        <3>1. Waiting(r)' = Waiting(r)
            <4>1. CASE queue' = queue
                BY <1>0, <4>1, QueueViews
            <4>2. ASSUME NEW s \in Task, queue' = Append(queue, s), s.role = worker[w].task.role
                  PROVE  Waiting(r)' = Waiting(r)
                <5>1. Waiting(r)' = Waiting(r) \cup (IF s.role = r THEN {s} ELSE {})
                    BY <1>0, <4>2, QueueViews
                <5> QED BY <2>3, <4>2, <5>1
            <4> QED BY <4>1, <4>2
        <3>2. Hands(r)' = Hands(r) /\ roles[r] = "live"
            BY <1>3, <2>1, <2>3
        <3> QED BY <2>1, <2>2, <3>1, <3>2 DEF SameRole
    <2>4. CASE worker[w].task.role = r
        <3>1. FitsNow(r)
            BY <1>0, <1>3 DEF Settling, Live, TablesOK
        <3>2. Fits(r, Live(users), includes[r], Held(r), Rights(r),
                   Waiting(r)', Hands(r)', Joining(r))
            BY <1>3, <2>1, <2>4, <3>1
        <3> QED BY <2>1, <2>2, <3>2 DEF FitsNow
    <2> QED BY <2>3, <2>4
<1> QED BY <1>0, <1>1, <1>2, <1>3, SettlingFrom DEF Sync, TablesOK

LEMMA AckSync ==
    ASSUME Sync, NEW w \in Workers, Ack(w)
    PROVE  Sync'
<1>0. TablesOK /\ FlowOK /\ Known /\ Settling /\ Types
    BY DEF Sync, Types
<1> DEFINE o == worker[w]
<1>1. /\ o # Idle /\ o.step = "ack" /\ Has(w, Idle) /\ queue' = queue /\ mishaps' = mishaps
      /\ raced' = raced \cup {} /\ {} \in SUBSET Roles
      /\ UNCHANGED <<users, roles, includes, permissions, holds, grants, direct, request, changes>>
    BY DEF Ack, Working, Idle, tables, Has
<1>2. ASSUME NEW r \in Roles, r = o.task.role, FitsNow(r), Drops(Hands(r), o, Hands(r)')
      PROVE  Fits(r, Live(users), includes[r], Held(r), Rights(r),
                  Waiting(r)', Hands(r)', Joining(r))
    <2>1. /\ Fits(r, Live(users), includes[r], Held(r), Rights(r), Waiting(r), Hands(r), Joining(r))
          /\ Shapes(Live(users), includes[r], Held(r), Rights(r), Waiting(r), Hands(r), Joining(r))
        BY <1>0, <1>2, NowShapes DEF FitsNow
    <2>2. Waiting(r)' = Waiting(r)
        BY <1>0, <1>1, QueueViews
    <2>3. HandFits(Live(users), includes[r], Held(r), Rights(r), o)
        BY <1>2, <2>1 DEF Drops, Fits
    <2> HIDE DEF o
    <2>4. /\ o.task.task = "updated" => Applied(Live(users), includes[r], Held(r), Rights(r), {})
          /\ o.task.task = "created" /\ o.task.user \in Live(users)
                => Of(Rights(r), o.task.user) = includes[r]
          /\ o.task.task = "deleted" => Of(Rights(r), o.task.user) = {}
        BY <1>1, <2>3 DEF HandFits
    <2>5. Fits(r, Live(users), includes[r], Held(r), Rights(r),
               Waiting(r), Hands(r)', Joining(r))
        BY <1>1, <1>2, <2>1, <2>4, FitsDrop
    <2> QED BY <2>2, <2>5
<1> QED BY <1>1, <1>2, DropSync

\* An update that cannot insert has inserted already; so has the task of one user.
LEMMA Refused ==
    ASSUME TablesOK, FlowOK, Known, NEW w \in Workers, Fails(w),
           NEW r \in Roles, r = worker[w].task.role, roles[r] = "live",
           Fits(r, Live(users), includes[r], Held(r), Rights(r), Waiting(r), Hands(r), Joining(r))
    PROVE  /\ worker[w].task.task = "updated" =>
                 \/ Applied(Live(users), includes[r], Held(r), Rights(r), {})
                 \/ \E z \in Hands(r) \ {worker[w]} : z.step = "revoke"
           /\ worker[w].task.task = "created" /\ worker[w].task.user \in Live(users)
                 => Of(Rights(r), worker[w].task.user) = includes[r]
           /\ worker[w].task.task = "deleted" => worker[w].task.user \notin Live(users)
<1> DEFINE o == worker[w]
           t == o.task
           L == Live(users)
           I == includes[r]
           B == Held(r)
           G == Rights(r)
<1>1. o # Idle /\ o.step \in {"read", "insert"}
    BY DEF Fails, Working, Idle
<1>2. o \in Work /\ t \in Task /\ WorkKnown(o) /\ o \in Hands(r)
    BY <1>1, Hand
<1>3. CASE o.step = "read"
    <2>1. t.user \notin L \cup {NoUser}
        BY <1>3 DEF Fails, Found, Working
    <2>2. t.task # "updated"
        BY <1>2, <2>1, TaskFields
    <2> QED BY <2>1, <2>2
<1>4. CASE o.step = "insert"
    <2>1. ~Insertable(Batch(w)) /\ t.task \in {"created", "updated"}
        BY <1>2, <1>4 DEF Fails, Working, WorkKnown
    <2>2. /\ TaskFits(L, I, B, G, Hands(r), t) /\ HandFits(L, I, B, G, o)
        BY <1>2 DEF Fits, Tasks
    <2>3. Shapes(L, I, B, G, Waiting(r), Hands(r), Joining(r))
        BY NowShapes
    <2>4. \A p \in I : p \in Live(permissions)
        BY DEF TablesOK
    <2>5. \A u \in L : users[u] = "live"
        BY DEF Live
    <2>6. \A u, p : <<u, p>> \in G <=> <<u, p, r>> \in grants
        <3>1. grants \subseteq Users \X Permissions \X Roles
            BY DEF TablesOK
        <3> QED BY <3>1, RoleRows, Zenon
    \* A row is in the way.
    <2>7. ASSUME NEW us, NEW ps, us \subseteq L, ps \subseteq I, Batch(w) = Rows(us, ps, r)
          PROVE  \E u \in us, p \in ps : p \in Of(G, u)
        <3>1. \A g \in Batch(w) : \E u \in us, p \in ps : g = <<u, p, r>>
            BY <2>7 DEF Rows
        <3>2. \A g \in Batch(w) : users[g[1]] = "live" /\ g[2] \in Live(permissions)
                                  /\ roles[g[3]] = "live"
            BY <2>4, <2>5, <2>7, <3>1
        <3>3. PICK g \in Batch(w) : g \in grants
            BY <2>1, <3>2 DEF Insertable
        <3>4. PICK u \in us, p \in ps : g = <<u, p, r>>
            BY <3>1
        <3>5. <<u, p>> \in G /\ p \in Permissions
            BY <2>3, <2>6, <2>7, <3>3, <3>4 DEF Shapes
        <3> QED BY <3>5 DEF Of
    <2>8. CASE t.task = "created"
        <3>1. ASSUME t.user \in L
              PROVE  Of(G, t.user) = I
            <4>1. o.found = I /\ Of(G, t.user) \in {{}, I}
                BY <1>4, <2>2, <2>8, <3>1 DEF HandFits, TaskFits
            <4>2. Batch(w) = Rows({t.user}, I, r)
                BY <2>8, <4>1 DEF Batch
            <4>3. Of(G, t.user) # {}
                BY <2>7, <3>1, <4>2
            <4> QED BY <4>1, <4>3
        <3> QED BY <2>8, <3>1
    <2>9. CASE t.task = "updated"
        <3>1. o.found = B /\ t.added \subseteq I /\ t.removed \cap I = {}
            BY <1>4, <2>2, <2>9 DEF HandFits, TaskFits
        <3>2. Batch(w) = Rows(B, t.added, r)
            BY <2>9, <3>1 DEF Batch
        <3>3. PICK u \in B, p \in t.added : p \in Of(G, u)
            BY <2>3, <2>7, <3>1, <3>2 DEF Shapes
        <3>4. ~Unapplied(L, I, B, G, t)
            <4>1. u \in L
                BY <2>3, <3>3 DEF Shapes
            <4> QED BY <3>1, <3>3, <4>1 DEF Unapplied
        <3>5. Applied(L, I, B, G, {}) \/ \E x \in Hands(r) : x.step = "revoke"
            BY <2>2, <2>9, <3>4 DEF TaskFits
        <3> QED BY <1>4, <2>9, <3>5
    <2> QED BY <2>1, <2>8, <2>9
<1> QED BY <1>1, <1>3, <1>4

LEMMA GiveUpSync ==
    ASSUME Sync, NEW w \in Workers, GiveUp(w)
    PROVE  Sync'
<1>0. TablesOK /\ FlowOK /\ Known /\ Settling /\ Types
    BY DEF Sync, Types
<1> DEFINE o == worker[w]
<1>1. /\ o # Idle /\ o.step # "revoke" /\ Fails(w)
      /\ Has(w, Idle) /\ queue' = queue /\ mishaps' = mishaps
      /\ raced' = raced \cup {} /\ {} \in SUBSET Roles
      /\ UNCHANGED <<users, roles, includes, permissions, holds, grants, direct, request, changes>>
    BY DEF GiveUp, Fails, Working, Idle, tables, Has
<1>2. ASSUME NEW r \in Roles, r = o.task.role, roles[r] = "live", FitsNow(r),
             Drops(Hands(r), o, Hands(r)')
      PROVE  Fits(r, Live(users), includes[r], Held(r), Rights(r),
                  Waiting(r)', Hands(r)', Joining(r))
    <2>1. /\ Fits(r, Live(users), includes[r], Held(r), Rights(r), Waiting(r), Hands(r), Joining(r))
          /\ Shapes(Live(users), includes[r], Held(r), Rights(r), Waiting(r), Hands(r), Joining(r))
        BY <1>0, <1>2, NowShapes DEF FitsNow
    <2>2. Waiting(r)' = Waiting(r)
        BY <1>0, <1>1, QueueViews
    <2>3. /\ o.task.task = "updated" =>
                \/ Applied(Live(users), includes[r], Held(r), Rights(r), {})
                \/ \E z \in Hands(r) \ {o} : z.step = "revoke"
          /\ o.task.task = "created" /\ o.task.user \in Live(users)
                => Of(Rights(r), o.task.user) = includes[r]
          /\ o.task.task = "deleted" => o.task.user \notin Live(users)
        BY <1>0, <1>1, <1>2, <2>1, Refused
    <2>4. Hands(r) \ {o} \subseteq Hands(r)'
        BY <1>2 DEF Drops
    <2> HIDE DEF o
    <2>5. Fits(r, Live(users), includes[r], Held(r), Rights(r),
               Waiting(r), Hands(r)', Joining(r))
        BY <1>1, <1>2, <2>1, <2>3, <2>4, FitsDrop
    <2> QED BY <2>2, <2>5
<1> QED BY <1>1, <1>2, DropSync

\* A task that goes back to the queue.
LEMMA ReturnSync ==
    ASSUME Sync, NEW w \in Workers, Retry(w) \/ DieWorking(w)
    PROVE  Sync'
<1>0. TablesOK /\ FlowOK /\ Known /\ Settling /\ Types
    BY DEF Sync, Types
<1> DEFINE o == worker[w]
<1>1. /\ o # Idle /\ Has(w, Idle) /\ Len(queue) < MaxQueue
      /\ UNCHANGED <<users, roles, includes, permissions, holds, grants, direct, request, changes>>
      /\ mishaps' = mishaps \/ (mishaps < MaxMishaps /\ mishaps' = mishaps + 1)
    BY DEF Retry, DieWorking, Fails, Working, Idle, tables, Has
<1>2. o \in Work /\ o.task \in Task /\ o.task.role \in Roles /\ Named(o.task)
    BY <1>0, <1>1, Hand
<1>3. PICK s \in Task : queue' = Append(queue, s) /\ Like(s, o.task) /\ s.role = o.task.role
    <2>1. CASE Retry(w)
        <3> DEFINE s == [o.task EXCEPT !.retries = @ + 1]
        <3>1. queue' = Append(queue, s) /\ o.task.retries < MaxRetries
            BY <2>1 DEF Retry
        <3>2. s \in Task
            BY <1>2, <3>1, NewTasks
        <3>3. Like(s, o.task) /\ s.role = o.task.role
            BY <1>2 DEF Task, Like
        <3> HIDE DEF s
        <3> QED BY <3>1, <3>2, <3>3
    <2>2. CASE DieWorking(w)
        <3>1. queue' = Append(queue, o.task)
            BY <2>2 DEF DieWorking
        <3> QED BY <1>2, <3>1 DEF Like
    <2> QED BY <2>1, <2>2
<1>4. PICK rs \in SUBSET Roles : /\ raced' = raced \cup rs
                                 /\ o.step = "revoke" /\ o.task.added # {} => o.task.role \in rs
    <2>1. CASE Retry(w)
        <3>1. raced' = raced \cup {} /\ {} \in SUBSET Roles /\ o.step # "revoke"
            BY <2>1 DEF Retry, Fails, Working
        <3> QED BY <3>1
    <2>2. CASE DieWorking(w)
        <3> DEFINE rs == IF o.step = "revoke" /\ o.task.added # {} THEN {o.task.role} ELSE {}
        <3>1. raced' = raced \cup rs
            BY <2>2 DEF DieWorking, Raced, Working
        <3>2. rs \in SUBSET Roles
            BY <1>2
        <3> QED BY <3>1, <3>2
    <2> QED BY <2>1, <2>2
<1>5. Named(s)
    BY <1>2, <1>3 DEF Named, Like
<1>6. ASSUME NEW r \in Roles, r = o.task.role, r \notin raced', FitsNow(r),
             Drops(Hands(r), o, Hands(r)')
      PROVE  Fits(r, Live(users), includes[r], Held(r), Rights(r),
                  Waiting(r)', Hands(r)', Joining(r))
    <2>1. /\ Fits(r, Live(users), includes[r], Held(r), Rights(r), Waiting(r), Hands(r), Joining(r))
          /\ Shapes(Live(users), includes[r], Held(r), Rights(r), Waiting(r), Hands(r), Joining(r))
        BY <1>0, <1>6, NowShapes DEF FitsNow
    <2>2. Waiting(r)' = Waiting(r) \cup {s}
        <3>1. Waiting(r)' = Waiting(r) \cup (IF s.role = r THEN {s} ELSE {})
            BY <1>0, <1>1, <1>3, QueueViews
        <3> QED BY <1>3, <1>6, <3>1
    <2>3. ~(o.step = "revoke" /\ o.task.added # {})
        BY <1>4, <1>6
    <2> HIDE DEF o
    <2> QED BY <1>3, <1>6, <2>1, <2>2, <2>3, FitsReturn
<1>7. Len(queue) < MaxQueue /\ \E z \in Task : /\ queue' = Append(queue, z)
                                               /\ z.role = worker[w].task.role /\ Named(z)
    BY <1>1, <1>3, <1>5
<1> QED BY <1>1, <1>4, <1>6, <1>7, DropSync

-----------------------------------------------------------------------------
(* The requests.                                                            *)

\* A request that has nothing to do with the users of a role.
LEMMA AsideSync ==
    ASSUME Sync, NEW q \in Requests, NEW x \in Record, Becomes(q, x),
           ~At(q, "send"), ~Enlisted(q), x.step \notin {"send", "join", "fill"},
           UNCHANGED <<users, roles, includes, permissions, holds, grants, queue, worker, raced,
                       mishaps>>,
           changes' = changes \/ (changes < MaxChanges /\ changes' = changes + 1),
           TablesOK', DirectBound' \/ (x.step # "grant" /\ direct' = direct),
           x.step = "edit" => roles[x.role] # "unused"
    PROVE  Sync'
<1>0. TablesOK /\ FlowOK /\ Known /\ Settling /\ Types
    BY DEF Sync, Types
<1>1. Types' /\ Known'
    <2>1. RequestKnown(x)'
        BY DEF RequestKnown
    <2>2. Ages
        BY SameAges
    <2>3. {} \in SUBSET Roles /\ raced' = raced \cup {}
        OBVIOUS
    <2> QED BY <1>0, <2>1, <2>2, <2>3, RequestStep
<1>2. ASSUME NEW r \in Roles, roles'[r] = "live", r \notin raced'
      PROVE  roles[r] = "live" /\ SameRole(r)
    <2>1. Hands(r)' = Hands(r) /\ Waiting(r)' = Waiting(r) /\ Joining(r)' = Joining(r)
        BY <1>0, RequestViews
    <2> QED BY <1>2, <2>1 DEF SameRole, Live, Held, Rights
<1> QED BY <1>0, <1>1, <1>2, SettlingFrom DEF Sync, TablesOK

LEMMA LoadSync ==
    ASSUME Sync, NEW q \in Requests, (\E r \in Roles : LoadRole(q, r)) \/ UpdateFails(q)
    PROVE  Sync'
<1>0. TablesOK /\ FlowOK /\ Types
    BY DEF Sync, Types
<1>1. ASSUME NEW r \in Roles, LoadRole(q, r)
      PROVE  Sync'
    <2> DEFINE y == [step |-> "edit", role |-> r, old |-> includes[r]]
    <2>1. y \in Record /\ Becomes(q, y) /\ roles[y.role] # "unused" /\ y.step = "edit"
        BY <1>0, <1>1, NewRecords DEF LoadRole, Becomes, TablesOK, Live
    <2>2. ~At(q, "send") /\ ~Enlisted(q)
        BY <1>1 DEF LoadRole, Idle, At, Enlisted
    <2>3. TablesOK'
        BY <1>0, <1>1, SameTables DEF LoadRole
    <2> HIDE DEF y
    <2> QED BY <1>1, <2>1, <2>2, <2>3, AsideSync DEF LoadRole, Begins, tables
<1>2. ASSUME UpdateFails(q)
      PROVE  Sync'
    <2>1. Idle \in Record /\ Becomes(q, Idle) /\ Idle.step = "idle"
        BY <1>2, NewRecords DEF UpdateFails, Ends, Becomes, Idle
    <2>2. ~At(q, "send") /\ ~Enlisted(q)
        BY <1>2 DEF UpdateFails, At, Enlisted
    <2>3. TablesOK'
        BY <1>0, <1>2, SameTables DEF UpdateFails
    <2> QED BY <1>2, <2>1, <2>2, <2>3, AsideSync DEF UpdateFails, tables
<1> QED BY <1>1, <1>2

LEMMA LookDirectSync ==
    ASSUME Sync, NEW q \in Requests, NEW d \in Direct, LookDirect(q, d)
    PROVE  Sync'
<1>0. TablesOK /\ FlowOK /\ Types
    BY DEF Sync, Types
<1> DEFINE y == [step |-> "grant", direct |-> d]
<1>1. y \in Record /\ Becomes(q, y) /\ y.step = "grant" /\ y.direct = d
    BY NewRecords DEF LookDirect, Becomes
<1>2. ~At(q, "send") /\ ~Enlisted(q) /\ ~At(q, "grant")
    BY DEF LookDirect, Idle, At, Enlisted
<1>3. TablesOK'
    BY <1>0, SameTables DEF LookDirect
<1> HIDE DEF y
<1>4. DirectBound'
    <2> SUFFICES ASSUME NEW e \in Direct
                 PROVE  direct'[e] + Cardinality(Grantors(e)') <= Cardinality(Requests)
        BY DEF DirectBound
    <2>1. direct' = direct /\ direct[d] = 0
        BY DEF LookDirect, tables
    <2>2. CASE e = d
        <3>1. Grantors(e)' \subseteq Requests
            BY DEF Grantors
        <3>2. /\ IsFiniteSet(Requests) /\ Cardinality(Grantors(e)') <= Cardinality(Requests)
              /\ Cardinality(Grantors(e)') \in Nat /\ Cardinality(Requests) \in Nat
            BY <3>1, RoleSyncAssumption, FS_Subset, FS_CardinalityType
        <3> QED BY <2>1, <2>2, <3>2
    <2>3. CASE e # d
        <3>1. \A p \in Requests : request'[p] = IF p = q THEN y ELSE request[p]
            BY <1>0, <1>1 DEF Becomes, FlowOK
        <3>2. Grantors(e)' = Grantors(e)
            BY <1>1, <1>2, <2>3, <3>1 DEF Grantors, At
        <3> QED BY <1>0, <2>1, <3>2 DEF Types, DirectBound
    <2> QED BY <2>2, <2>3
<1> QED BY <1>1, <1>2, <1>3, <1>4, AsideSync DEF LookDirect, Begins, tables

LEMMA GrantDirectSync ==
    ASSUME Sync, NEW q \in Requests, GrantDirect(q)
    PROVE  Sync'
<1>0. TablesOK /\ FlowOK /\ Types
    BY DEF Sync, Types
<1>1. Idle \in Record /\ Becomes(q, Idle) /\ Idle.step = "idle"
    BY NewRecords DEF GrantDirect, Ends, Becomes, Idle
<1>2. ~At(q, "send") /\ ~Enlisted(q) /\ At(q, "grant")
    BY DEF GrantDirect, At, Enlisted
<1>3. PICK d : d = request[q].direct
    OBVIOUS
<1>4. d \in Users \X Permissions
    BY <1>0, <1>2, <1>3, RequestFields DEF FlowOK, At
<1>5. TablesOK'
    BY <1>0, <1>3, <1>4, AdditionKeepsTables
<1>6. DirectBound'
    <2> SUFFICES ASSUME NEW e \in Direct
                 PROVE  direct'[e] + Cardinality(Grantors(e)') <= Cardinality(Requests)
        BY DEF DirectBound
    <2>1. direct' = [direct EXCEPT ![d] = @ + 1] \/ direct' = direct
        BY <1>3 DEF GrantDirect
    <2>2. direct[e] \in Nat /\ direct'[e] = IF e = d /\ direct' # direct THEN direct[e] + 1 ELSE direct[e]
        BY <1>0, <2>1 DEF TablesOK
    <2>3. \A p \in Requests : request'[p] = IF p = q THEN Idle ELSE request[p]
        BY <1>0, <1>1 DEF Becomes, FlowOK
    <2>4. Grantors(e)' = Grantors(e) \ {q}
        BY <1>1, <2>3 DEF Grantors, At
    <2>5. /\ IsFiniteSet(Grantors(e)) /\ Cardinality(Requests) \in Nat
          /\ Cardinality(Grantors(e)) \in Nat
        BY RoleSyncAssumption, FS_Subset, FS_CardinalityType DEF Grantors
    <2>6. q \in Grantors(e) <=> e = d
        BY <1>2, <1>3 DEF Grantors
    <2>7. Cardinality(Grantors(e)') = IF e = d THEN Cardinality(Grantors(e)) - 1
                                     ELSE Cardinality(Grantors(e))
        BY <2>4, <2>5, <2>6, FS_RemoveElement
    <2>8. direct[e] + Cardinality(Grantors(e)) <= Cardinality(Requests)
        BY <1>0 DEF Types, DirectBound
    <2> QED BY <2>2, <2>5, <2>7, <2>8
<1> QED BY <1>1, <1>2, <1>5, <1>6, AsideSync DEF GrantDirect, Ends

-----------------------------------------------------------------------------
(* The tables.                                                              *)

\* What is true of every task and of everyone who joins a role.
LEMMA NoStrangers ==
    ASSUME FlowOK, Known, NEW r \in Roles
    PROVE  /\ \A t \in Tasks(Waiting(r), Hands(r)) : /\ roles[r] # "unused"
                                                     /\ t.user \in Users => users[t.user] # "unused"
           /\ \A j \in Joining(r) : roles[r] # "unused" /\ users[j.user] # "unused"
<1>1. ASSUME NEW t \in Tasks(Waiting(r), Hands(r))
      PROVE  roles[r] # "unused" /\ (t.user \in Users => users[t.user] # "unused")
    <2>1. t \in Unfinished /\ t.role = r
        BY TasksOfRole
    <2> QED BY <2>1, RoleSyncAssumption DEF Known, Named
<1>2. ASSUME NEW j \in Joining(r)
      PROVE  roles[r] # "unused" /\ users[j.user] # "unused"
    <2>1. PICK q \in Requests : j = request[q] /\ Enlisted(q) /\ r \in j.todo \cup {j.role}
        BY DEF Joining, Concerns
    <2>2. r \in j.todo \cup ({j.role} \ {NoRole})
        BY <2>1, RoleSyncAssumption
    <2> QED BY <2>1, <2>2 DEF Known, RequestKnown, Enlisted, At
<1> QED BY <1>1, <1>2

\* Nothing is under way of a role that no one waits for.
LEMMA AtRest ==
    ASSUME FlowOK, NEW r \in Roles, ~Pending(r, Users)
    PROVE  Waiting(r) = {} /\ Hands(r) = {} /\ Joining(r) = {}
<1>1. r # NoRole
    BY RoleSyncAssumption
<1>2. Tasks(Waiting(r), Hands(r)) = {} /\ Joining(r) = {}
    BY <1>1, PendingOrQuiet
<1> QED BY <1>2 DEF Tasks

\* A permission appears, or a direct grant goes.
LEMMA ApartSync ==
    ASSUME Sync, (\E p \in Permissions : CreatePermission(p)) \/ (\E d \in Direct : RevokeDirect(d))
    PROVE  Sync'
<1>0. TablesOK /\ FlowOK /\ Known /\ Settling /\ Types
    BY DEF Sync, Types
<1>1. /\ UNCHANGED <<users, roles, includes, holds, grants, queue, worker, request, raced, mishaps>>
      /\ changes < MaxChanges /\ changes' = changes + 1
    BY DEF CreatePermission, RevokeDirect, Begins
<1>2. TablesOK'
    BY <1>0, AdditionKeepsTables
<1>3. \A d \in Direct : direct'[d] <= direct[d]
    <2>1. \A d \in Direct : direct[d] \in Nat
        BY <1>0 DEF TablesOK
    <2>2. \A d \in Direct : direct'[d] = direct[d] \/ direct'[d] = 0
        BY <1>0 DEF TablesOK, CreatePermission, RevokeDirect
    <2> QED BY <2>1, <2>2
<1>4. Types' /\ Known'
    <2>1. Ages
        BY <1>1, SameAges
    <2>2. {} \in SUBSET Roles /\ raced' = raced \cup {}
        BY <1>1
    <2> QED BY <1>0, <1>1, <1>2, <1>3, <2>1, <2>2, TableStep
<1>5. ASSUME NEW r \in Roles, roles'[r] = "live", r \notin raced'
      PROVE  roles[r] = "live" /\ SameRole(r)
    <2>1. Hands(r)' = Hands(r) /\ Waiting(r)' = Waiting(r) /\ Joining(r)' = Joining(r)
        BY <1>1, TableViews
    <2> QED BY <1>1, <1>5, <2>1 DEF SameRole, Live, Held, Rights
<1> QED BY <1>0, <1>1, <1>2, <1>4, <1>5, SettlingFrom DEF Sync, TablesOK

LEMMA CreateRoleSync ==
    ASSUME Sync, NEW r0 \in Roles, NEW new \in SUBSET Permissions, CreateRole(r0, new)
    PROVE  Sync'
<1>0. TablesOK /\ FlowOK /\ Known /\ Settling /\ Types
    BY DEF Sync, Types
<1>1. /\ UNCHANGED <<users, permissions, holds, grants, direct, queue, worker, request, raced, mishaps>>
      /\ changes < MaxChanges /\ changes' = changes + 1
      /\ roles[r0] = "unused" /\ roles' = [roles EXCEPT ![r0] = "live"]
      /\ includes' = [includes EXCEPT ![r0] = new]
    BY DEF CreateRole, Begins
<1>2. TablesOK'
    BY <1>0, CreateRoleKeepsTables
<1>3. Types' /\ Known'
    <2>1. Ages
        BY <1>0, <1>1 DEF Ages, TablesOK
    <2>2. {} \in SUBSET Roles /\ raced' = raced \cup {}
        BY <1>1
    <2>3. \A d \in Direct : direct'[d] <= direct[d]
        BY <1>0, <1>1, SameDirect
    <2> QED BY <1>0, <1>1, <1>2, <2>1, <2>2, <2>3, TableStep
<1>4. ASSUME NEW r \in Roles, roles'[r] = "live", r \notin raced'
      PROVE  FitsNow(r)' \/ (roles[r] = "live" /\ SameRole(r))
    <2>1. Hands(r)' = Hands(r) /\ Waiting(r)' = Waiting(r) /\ Joining(r)' = Joining(r)
        BY <1>1, TableViews
    <2>2. Live(users)' = Live(users) /\ Held(r)' = Held(r) /\ Rights(r)' = Rights(r)
        BY <1>1 DEF Live, Held, Rights
    <2>3. CASE r # r0
        <3>1. roles[r] = "live" /\ includes'[r] = includes[r]
            BY <1>0, <1>1, <1>4, <2>3 DEF TablesOK
        <3> QED BY <2>1, <2>2, <3>1 DEF SameRole
    <2>4. CASE r = r0
        <3>1. Tasks(Waiting(r), Hands(r)) = {} /\ Joining(r) = {}
            BY <1>0, <1>1, <2>4, NoStrangers
        <3>2. Waiting(r) = {} /\ Hands(r) = {}
            BY <3>1 DEF Tasks
        <3>3. Held(r) = {} /\ Rights(r) = {}
            BY <1>0, <1>1, <2>4 DEF TablesOK, Held, Rights
        <3>4. \A u : Of({}, u) = {}
            BY DEF Of
        <3>5. Fits(r, Live(users), new, {}, {}, {}, {}, {})
            BY <3>4, FitsStill
        <3>6. includes'[r] = new
            BY <1>0, <1>1, <2>4 DEF TablesOK
        <3> QED BY <2>1, <2>2, <3>1, <3>2, <3>3, <3>5, <3>6 DEF FitsNow
    <2> QED BY <2>3, <2>4
<1>5. raced \subseteq raced' /\ roles \in [Roles -> Lives]
    BY <1>0, <1>1 DEF TablesOK
<1> QED BY <1>0, <1>2, <1>3, <1>4, <1>5, SettlingFrom DEF Sync

LEMMA RemoveRoleSync ==
    ASSUME Sync, NEW r0 \in Roles, RemoveRole(r0)
    PROVE  Sync'
<1>0. TablesOK /\ FlowOK /\ Known /\ Settling /\ Types
    BY DEF Sync, Types
<1>1. /\ UNCHANGED <<users, permissions, direct, queue, worker, request, raced, mishaps>>
      /\ changes < MaxChanges /\ changes' = changes + 1
      /\ roles[r0] = "live" /\ roles' = [roles EXCEPT ![r0] = "deleted"]
      /\ includes' = [includes EXCEPT ![r0] = {}]
      /\ holds' = {h \in holds : h[2] # r0} /\ grants' = {g \in grants : g[3] # r0}
    BY DEF RemoveRole, Begins, Live
<1>2. TablesOK'
    BY <1>0, RemovalKeepsTables
<1>3. Types' /\ Known'
    <2>1. Ages
        BY <1>0, <1>1 DEF Ages, TablesOK
    <2>2. {} \in SUBSET Roles /\ raced' = raced \cup {}
        BY <1>1
    <2>3. \A d \in Direct : direct'[d] <= direct[d]
        BY <1>0, <1>1, SameDirect
    <2> QED BY <1>0, <1>1, <1>2, <2>1, <2>2, <2>3, TableStep
<1>4. ASSUME NEW r \in Roles, roles'[r] = "live", r \notin raced'
      PROVE  roles[r] = "live" /\ SameRole(r)
    <2>1. Hands(r)' = Hands(r) /\ Waiting(r)' = Waiting(r) /\ Joining(r)' = Joining(r)
        BY <1>1, TableViews
    <2>2. r # r0 /\ roles[r] = "live" /\ includes'[r] = includes[r]
        BY <1>0, <1>1, <1>4 DEF TablesOK
    <2>3. Live(users)' = Live(users)
        BY <1>1 DEF Live
    <2>4. Held(r)' = Held(r)
        <3>1. {x \in holds' : x[2] = r} = {x \in holds : x[2] = r}
            BY <1>1, <2>2
        <3> QED BY <3>1 DEF Held
    <2>5. Rights(r)' = Rights(r)
        <3>1. {x \in grants' : x[3] = r} = {x \in grants : x[3] = r}
            BY <1>1, <2>2
        <3> QED BY <3>1 DEF Rights
    <2> QED BY <2>1, <2>2, <2>3, <2>4, <2>5 DEF SameRole
<1>5. raced \subseteq raced' /\ roles \in [Roles -> Lives]
    BY <1>0, <1>1 DEF TablesOK
<1> QED BY <1>0, <1>2, <1>3, <1>4, <1>5, SettlingFrom DEF Sync

\* Direct grants that go with their permission or their user.
LEMMA LessDirect ==
    ASSUME TablesOK, \A d \in Direct : direct'[d] = 0 \/ direct'[d] = direct[d]
    PROVE  \A d \in Direct : direct'[d] <= direct[d]
<1>1. \A d \in Direct : direct[d] \in Nat
    BY DEF TablesOK
<1> QED BY <1>1

LEMMA RemovePermissionSync ==
    ASSUME Sync, NEW p \in Permissions, RemovePermission(p)
    PROVE  Sync'
<1>0. TablesOK /\ FlowOK /\ Known /\ Settling /\ Types
    BY DEF Sync, Types
<1> DEFINE rs == {r \in Roles : Pending(r, Users)}
<1>1. /\ UNCHANGED <<users, roles, holds, queue, worker, request, mishaps>>
      /\ changes < MaxChanges /\ changes' = changes + 1
      /\ includes' = [r \in Roles |-> includes[r] \ {p}]
      /\ grants' = {g \in grants : g[2] # p}
      /\ direct' = [d \in Direct |-> IF d[2] = p THEN 0 ELSE direct[d]]
      /\ raced' = raced \cup rs
    BY DEF RemovePermission, Begins, Raced
<1>2. TablesOK'
    BY <1>0, RemovalKeepsTables
<1>3. Types' /\ Known'
    <2>1. Ages
        BY <1>1, SameAges
    <2>2. rs \in SUBSET Roles
        OBVIOUS
    <2>3. \A d \in Direct : direct'[d] <= direct[d]
        BY <1>0, <1>1, LessDirect
    <2> HIDE DEF rs
    <2> QED BY <1>0, <1>1, <1>2, <2>1, <2>2, <2>3, TableStep
<1>4. ASSUME NEW r \in Roles, roles'[r] = "live", r \notin raced'
      PROVE  FitsNow(r)'
    <2>1. Hands(r)' = Hands(r) /\ Waiting(r)' = Waiting(r) /\ Joining(r)' = Joining(r)
        BY <1>1, TableViews
    <2>2. Waiting(r) = {} /\ Hands(r) = {} /\ Joining(r) = {}
        BY <1>0, <1>1, <1>4, AtRest
    <2>3. FitsNow(r)
        BY <1>0, <1>1, <1>4 DEF Settling, Live, TablesOK
    <2>4. Rights(r)' = {g \in Rights(r) : g[2] # p}
        <3>1. \A y : y \in Rights(r)' <=> y \in Rights(r) /\ y[2] # p
            BY <1>1, RightsRow
        <3> QED BY <3>1
    <2>5. /\ Live(users)' = Live(users) /\ Held(r)' = Held(r)
          /\ includes'[r] = includes[r] \ {p}
        BY <1>1 DEF Live, Held
    <2>6. Fits(r, Live(users), includes'[r], Held(r), Rights(r)', {}, {}, {})
        <3>1. Fits(r, Live(users), includes[r], Held(r), Rights(r), {}, {}, {})
            BY <2>2, <2>3 DEF FitsNow
        <3>2. \A i : i \in includes'[r] <=> i \in includes[r] /\ i # p
            BY <2>5
        <3>3. \A g : g \in Rights(r)' <=> g \in Rights(r) /\ g[2] # p
            BY <2>4
        <3> QED BY <3>1, <3>2, <3>3, FitsPoorer
    <2> QED BY <2>1, <2>2, <2>5, <2>6 DEF FitsNow
<1>5. raced \subseteq raced' /\ roles \in [Roles -> Lives]
    BY <1>0, <1>1 DEF TablesOK
<1> QED BY <1>0, <1>2, <1>3, <1>4, <1>5, SettlingFrom DEF Sync

LEMMA RemoveUserSync ==
    ASSUME Sync, NEW v \in Users, RemoveUser(v)
    PROVE  Sync'
<1>0. TablesOK /\ FlowOK /\ Known /\ Settling /\ Types
    BY DEF Sync, Types
<1> DEFINE rs == {r \in Roles : Pending(r, {})}
<1>1. /\ UNCHANGED <<roles, includes, permissions, queue, worker, request, mishaps>>
      /\ changes < MaxChanges /\ changes' = changes + 1
      /\ users' = [users EXCEPT ![v] = "deleted"]
      /\ holds' = {h \in holds : h[1] # v} /\ grants' = {g \in grants : g[1] # v}
      /\ direct' = [d \in Direct |-> IF d[1] = v THEN 0 ELSE direct[d]]
      /\ raced' = raced \cup rs
    BY DEF RemoveUser, Begins, Raced
<1>2. TablesOK'
    BY <1>0, RemovalKeepsTables
<1>3. Types' /\ Known'
    <2>1. Ages
        BY <1>0, <1>1 DEF Ages, TablesOK
    <2>2. rs \in SUBSET Roles
        OBVIOUS
    <2>3. \A d \in Direct : direct'[d] <= direct[d]
        BY <1>0, <1>1, LessDirect
    <2> HIDE DEF rs
    <2> QED BY <1>0, <1>1, <1>2, <2>1, <2>2, <2>3, TableStep
<1>4. ASSUME NEW r \in Roles, roles'[r] = "live", r \notin raced'
      PROVE  FitsNow(r)'
    <2>1. Hands(r)' = Hands(r) /\ Waiting(r)' = Waiting(r) /\ Joining(r)' = Joining(r)
        BY <1>1, TableViews
    <2>2. r # NoRole /\ ~Pending(r, {})
        BY <1>1, <1>4, RoleSyncAssumption
    <2>3. \A t \in Tasks(Waiting(r), Hands(r)) : t.task # "updated"
        BY <1>0, <2>2, PendingOrQuiet
    <2>4. /\ Fits(r, Live(users), includes[r], Held(r), Rights(r), Waiting(r), Hands(r), Joining(r))
          /\ Shapes(Live(users), includes[r], Held(r), Rights(r), Waiting(r), Hands(r), Joining(r))
        BY <1>0, <1>1, <1>4, NowShapes DEF Settling, Live, TablesOK, FitsNow
    <2>5. Rights(r)' = {g \in Rights(r) : g[1] # v}
        <3>1. \A y : y \in Rights(r)' <=> y \in Rights(r) /\ y[1] # v
            BY <1>1, RightsRow
        <3> QED BY <3>1
    <2>6. Held(r)' = Held(r) \ {v}
        <3>1. \A u : u \in Held(r)' <=> \E h \in holds' : h[2] = r /\ u = h[1]
            BY DEF Held
        <3>2. \A u : u \in Held(r) <=> \E h \in holds : h[2] = r /\ u = h[1]
            BY DEF Held
        <3>3. \A u : u \in Held(r)' <=> u \in Held(r) /\ u # v
            BY <1>1, <3>1, <3>2
        <3> QED BY <3>3
    <2>7. Live(users)' = Live(users) \ {v}
        BY <1>0, <1>1 DEF Live, TablesOK
    <2>8. Fits(r, Live(users) \ {v}, includes[r], Held(r)', Rights(r)',
               Waiting(r), Hands(r), Joining(r))
        BY <2>3, <2>4, <2>5, <2>6, FitsFewer
    <2> QED BY <1>1, <2>1, <2>7, <2>8 DEF FitsNow
<1>5. raced \subseteq raced' /\ roles \in [Roles -> Lives]
    BY <1>0, <1>1 DEF TablesOK
<1> QED BY <1>0, <1>2, <1>3, <1>4, <1>5, SettlingFrom DEF Sync

-----------------------------------------------------------------------------
(* A role is given, taken and edited.                                       *)

\* A request that has tasks to send after this, all the same.
LEMMA OneTask ==
    ASSUME NEW t, NEW s, s = <<t>> \/ s = <<t, t>>
    PROVE  s # <<>> /\ \A y : (\E i \in DOMAIN s : y = s[i]) <=> y = t
<1>1. CASE s = <<t>>
    <2>1. s # <<>> /\ DOMAIN s = {1} /\ s[1] = t
        BY <1>1
    <2> QED BY <2>1
<1>2. CASE s = <<t, t>>
    <2>1. s # <<>> /\ DOMAIN s = {1, 2} /\ s[1] = t /\ s[2] = t
        BY <1>2
    <2> QED BY <2>1
<1> QED BY <1>1, <1>2

\* What the service does when a role is given or taken: it sends t, once or twice.
Gives(q, u, r, t, x) ==
    /\ Becomes(q, x) /\ x.step = "send" /\ x.sends # <<>>
    /\ \A y : (\E i \in DOMAIN x.sends : y = x.sends[i]) <=> y = t
    /\ t.user = u /\ t.role = r /\ t.added = {} /\ t.removed = {}
    /\ \/ /\ t.task = "created" /\ <<u, r>> \notin holds
          /\ holds' = holds \cup {<<u, r>>}
       \/ /\ t.task = "deleted" /\ <<u, r>> \in holds
          /\ holds' = holds \ {<<u, r>>}

LEMMA Giving ==
    ASSUME NEW q \in Requests, NEW u \in Users, NEW r0 \in Roles,
           AddRole(q, u, r0) \/ DeleteRole(q, u, r0)
    PROVE  \E t \in Task, x \in Record : Gives(q, u, r0, t, x)
<1>1. CASE AddRole(q, u, r0)
    <2> DEFINE t == Created(u, r0)
               s == <<t>>
               x == [step |-> "send", sends |-> s]
    <2>1. t \in Task /\ x \in Record
        BY NewTasks, NewRecords
    <2>2. t.user = u /\ t.role = r0 /\ t.added = {} /\ t.removed = {} /\ t.task = "created"
        BY DEF Created
    <2>3. Becomes(q, x) /\ <<u, r0>> \notin holds /\ holds' = holds \cup {<<u, r0>>}
        BY <1>1 DEF AddRole, Sends, Becomes
    <2> HIDE DEF t
    <2>4. s # <<>> /\ \A y : (\E i \in DOMAIN s : y = s[i]) <=> y = t
        BY OneTask
    <2>5. x.step = "send" /\ x.sends = s
        OBVIOUS
    <2> HIDE DEF x, s
    <2>6. Gives(q, u, r0, t, x)
        BY <2>2, <2>3, <2>4, <2>5 DEF Gives
    <2> QED BY <2>1, <2>6
<1>2. CASE DeleteRole(q, u, r0)
    <2> DEFINE t == Deleted(u, r0)
               s == <<t, t>>
               x == [step |-> "send", sends |-> s]
    <2>1. t \in Task /\ x \in Record
        BY NewTasks, NewRecords
    <2>2. t.user = u /\ t.role = r0 /\ t.added = {} /\ t.removed = {} /\ t.task = "deleted"
        BY DEF Deleted
    <2>3. Becomes(q, x) /\ <<u, r0>> \in holds /\ holds' = holds \ {<<u, r0>>}
        BY <1>2 DEF DeleteRole, Sends, Becomes
    <2> HIDE DEF t
    <2>4. s # <<>> /\ \A y : (\E i \in DOMAIN s : y = s[i]) <=> y = t
        BY OneTask
    <2>5. x.step = "send" /\ x.sends = s
        OBVIOUS
    <2> HIDE DEF x, s
    <2>6. Gives(q, u, r0, t, x)
        BY <2>2, <2>3, <2>4, <2>5 DEF Gives
    <2> QED BY <2>1, <2>6
<1> QED BY <1>1, <1>2

LEMMA GivingSync ==
    ASSUME Sync, NEW q \in Requests, NEW v \in Users, NEW r0 \in Roles,
           v \in Live(users), r0 \in Live(roles), AddRole(q, v, r0) \/ DeleteRole(q, v, r0)
    PROVE  Sync'
<1>0. TablesOK /\ FlowOK /\ Known /\ Settling /\ Types
    BY DEF Sync, Types
<1> DEFINE rs == IF Pending(r0, {v}) THEN {r0} ELSE {}
<1>1. /\ UNCHANGED <<users, roles, includes, permissions, grants, direct, queue, worker, mishaps>>
      /\ changes < MaxChanges /\ changes' = changes + 1
      /\ request[q] = Idle /\ raced' = raced \cup rs
    BY DEF AddRole, DeleteRole, Begins, Raced
<1>gives. PICK t \in Task, x \in Record : Gives(q, v, r0, t, x)
    BY Giving
<1>2. /\ Becomes(q, x) /\ x.step = "send" /\ x.sends # <<>>
      /\ \A y : (\E i \in DOMAIN x.sends : y = x.sends[i]) <=> y = t
      /\ t.user = v /\ t.role = r0 /\ t.added = {} /\ t.removed = {}
      /\ \/ /\ t.task = "created" /\ <<v, r0>> \notin holds
            /\ holds' = holds \cup {<<v, r0>>}
         \/ /\ t.task = "deleted" /\ <<v, r0>> \in holds
            /\ holds' = holds \ {<<v, r0>>}
    BY <1>gives DEF Gives
<1>3. TablesOK'
    BY <1>0, RolesKeepTables
<1>4. Types' /\ Known'
    <2>1. rs \in SUBSET Roles
        OBVIOUS
    <2>2. Ages
        BY <1>1, SameAges
    <2>3. RequestKnown(x)'
        BY <1>2 DEF RequestKnown
    <2>4. Named(t)'
        BY <1>1, <1>2 DEF Named, Live
    <2>5. \A i \in DOMAIN x.sends : Named(x.sends[i])'
        BY <1>2, <2>4
    <2> HIDE DEF rs
    <2> QED BY <1>0, <1>1, <1>2, <1>3, <2>1, <2>2, <2>3, <2>5, RequestStep
<1>5. \A r : /\ Waiting(r)' = Waiting(r) \cup {y \in Task : y.role = r /\ y = t}
             /\ Hands(r)' = Hands(r) /\ Joining(r)' = Joining(r)
    <2>1. ~At(q, "send") /\ ~Enlisted(q)
        BY <1>1 DEF At, Enlisted, Idle
    <2>2. \A r : /\ Waiting(r)' = Waiting(r) \cup
                       {y \in Task : y.role = r /\ \E i \in DOMAIN x.sends : y = x.sends[i]}
                 /\ Hands(r)' = Hands(r) /\ Joining(r)' = Joining(r)
        BY <1>0, <1>1, <1>2, <2>1, RequestViews
    <2>3. \A r : {y \in Task : y.role = r /\ \E i \in DOMAIN x.sends : y = x.sends[i]}
                    = {y \in Task : y.role = r /\ y = t}
        BY <1>2
    <2> QED BY <2>2, <2>3
<1>6. \A r \in Roles : \A u : /\ u \in Held(r) <=> <<u, r>> \in holds
                              /\ u \in Held(r)' <=> <<u, r>> \in holds'
    BY <1>0, <1>3, HeldNow, HeldNext
<1>7. ASSUME NEW r \in Roles, roles'[r] = "live", r \notin raced'
      PROVE  FitsNow(r)' \/ (roles[r] = "live" /\ SameRole(r))
    <2>1. Live(users)' = Live(users) /\ Rights(r)' = Rights(r)
        BY <1>1 DEF Live, Rights
    <2>2. CASE r # r0
        <3>1. {y \in Task : y.role = r /\ y = t} = {}
            BY <1>2, <2>2
        <3>2. Waiting(r)' = Waiting(r) /\ Hands(r)' = Hands(r) /\ Joining(r)' = Joining(r)
            BY <1>5, <3>1
        <3>3. \A u : <<u, r>> \in holds' <=> <<u, r>> \in holds
            BY <1>2, <2>2
        <3>4. \A u : u \in Held(r)' <=> u \in Held(r)
            BY <1>6, <3>3
        <3>5. Held(r)' = Held(r)
            BY <3>4
        <3> QED BY <1>1, <1>7, <2>1, <3>2, <3>5 DEF SameRole
    <2>3. CASE r = r0
        <3>1. r # NoRole /\ ~Pending(r, {v})
            BY <1>1, <1>7, <2>3, RoleSyncAssumption
        <3>2. Quiet(Waiting(r), Hands(r), Joining(r), v)
            BY <1>0, <3>1, PendingOrQuiet
        <3>3. /\ Fits(r, Live(users), includes[r], Held(r), Rights(r), Waiting(r), Hands(r), Joining(r))
              /\ Shapes(Live(users), includes[r], Held(r), Rights(r), Waiting(r), Hands(r), Joining(r))
            BY <1>0, <1>1, <1>7, NowShapes DEF Settling, Live, TablesOK, FitsNow
        <3>4. Waiting(r)' = Waiting(r) \cup {t}
            BY <1>2, <1>5, <2>3
        <3>5. \/ t.task = "created" /\ v \notin Held(r) /\ Held(r)' = Held(r) \cup {v}
              \/ t.task = "deleted" /\ v \in Held(r) /\ Held(r)' = Held(r) \ {v}
            <4>1. CASE t.task = "created"
                <5>1. \A u : u \in Held(r)' <=> u \in Held(r) \/ u = v
                    BY <1>2, <1>6, <2>3, <4>1
                <5>2. v \notin Held(r)
                    BY <1>2, <1>6, <2>3, <4>1
                <5> QED BY <4>1, <5>1, <5>2
            <4>2. CASE t.task = "deleted"
                <5>1. \A u : u \in Held(r)' <=> u \in Held(r) /\ u # v
                    BY <1>2, <1>6, <2>3, <4>2
                <5>2. v \in Held(r)
                    BY <1>2, <1>6, <2>3, <4>2
                <5> QED BY <4>2, <5>1, <5>2
            <4> QED BY <1>2, <4>1, <4>2
        <3>6. Fits(r, Live(users), includes[r], Held(r)', Rights(r), Waiting(r)', Hands(r), Joining(r))
            BY <1>2, <3>2, <3>3, <3>4, <3>5, FitsGiven
        <3> QED BY <1>1, <1>5, <2>1, <3>6 DEF FitsNow
    <2> QED BY <2>2, <2>3
<1>8. raced \subseteq raced' /\ roles \in [Roles -> Lives]
    BY <1>0, <1>1 DEF TablesOK
<1> QED BY <1>0, <1>3, <1>4, <1>7, <1>8, SettlingFrom DEF Sync

LEMMA UpdateRoleSync ==
    ASSUME Sync, NEW q \in Requests, NEW new \in SUBSET Permissions, UpdateRole(q, new)
    PROVE  Sync'
<1>0. TablesOK /\ FlowOK /\ Known /\ Settling /\ Types
    BY DEF Sync, Types
<1>1. PICK r0, old : r0 = request[q].role /\ old = request[q].old
    OBVIOUS
<1>2. r0 \in Roles /\ old \in SUBSET Permissions /\ ~At(q, "send") /\ ~Enlisted(q)
    BY <1>0, <1>1, RequestFields DEF UpdateRole, At, Enlisted, FlowOK
<1> DEFINE rs == IF old # includes[r0] \/ Pending(r0, Users) THEN {r0} ELSE {}
           t == Updated(r0, new \ old, old \ new)
           s == <<t>>
           x == [step |-> "send", sends |-> s]
<1>3. /\ UNCHANGED <<users, roles, permissions, holds, grants, direct, queue, worker, mishaps,
                     changes>>
      /\ roles[r0] = "live" /\ raced' = raced \cup rs /\ Becomes(q, x)
      /\ includes' = [includes EXCEPT ![r0] = (includes[r0] \ old) \cup new]
    BY <1>1 DEF UpdateRole, Raced, Sends, Becomes
<1>4. /\ t \in Task /\ x \in Record /\ x.step = "send" /\ x.sends = s
      /\ t.role = r0 /\ t.task = "updated" /\ t.user = NoUser
      /\ t.added = new \ old /\ t.removed = old \ new
    BY <1>2, NewTasks, NewRecords DEF Updated
<1> HIDE DEF t
<1>5. s # <<>> /\ \A y : (\E i \in DOMAIN s : y = s[i]) <=> y = t
    BY OneTask
<1> HIDE DEF s, x
<1>6. TablesOK'
    BY <1>0, UpdateRoleKeepsTables
<1>7. Types' /\ Known'
    <2>1. rs \in SUBSET Roles
        BY <1>2
    <2>2. Ages
        BY <1>3, SameAges
    <2>3. RequestKnown(x)'
        BY <1>4, <1>5 DEF RequestKnown
    <2>4. Named(t)'
        BY <1>3, <1>4 DEF Named
    <2>5. \A i \in DOMAIN x.sends : Named(x.sends[i])'
        BY <1>4, <1>5, <2>4
    <2> HIDE DEF rs
    <2> QED BY <1>0, <1>3, <1>4, <1>6, <2>1, <2>2, <2>3, <2>5, RequestStep
<1>8. \A r : /\ Waiting(r)' = Waiting(r) \cup {y \in Task : y.role = r /\ y = t}
             /\ Hands(r)' = Hands(r) /\ Joining(r)' = Joining(r)
    <2>1. \A r : /\ Waiting(r)' = Waiting(r) \cup
                       {y \in Task : y.role = r /\ \E i \in DOMAIN x.sends : y = x.sends[i]}
                 /\ Hands(r)' = Hands(r) /\ Joining(r)' = Joining(r)
        BY <1>0, <1>2, <1>3, <1>4, RequestViews
    <2>2. \A r : {y \in Task : y.role = r /\ \E i \in DOMAIN x.sends : y = x.sends[i]}
                    = {y \in Task : y.role = r /\ y = t}
        BY <1>4, <1>5
    <2> QED BY <2>1, <2>2
<1>9. ASSUME NEW r \in Roles, roles'[r] = "live", r \notin raced'
      PROVE  FitsNow(r)' \/ (roles[r] = "live" /\ SameRole(r))
    <2>1. Live(users)' = Live(users) /\ Rights(r)' = Rights(r) /\ Held(r)' = Held(r)
        BY <1>3 DEF Live, Rights, Held
    <2>2. CASE r # r0
        <3>1. {y \in Task : y.role = r /\ y = t} = {}
            BY <1>4, <2>2
        <3>2. Waiting(r)' = Waiting(r) /\ Hands(r)' = Hands(r) /\ Joining(r)' = Joining(r)
            BY <1>8, <3>1
        <3>3. includes'[r] = includes[r]
            BY <1>0, <1>3, <2>2 DEF TablesOK
        <3> QED BY <1>3, <1>9, <2>1, <3>2, <3>3 DEF SameRole
    <2>3. CASE r = r0
        <3>1. old = includes[r] /\ ~Pending(r, Users)
            BY <1>3, <1>9, <2>3
        <3>2. Waiting(r) = {} /\ Hands(r) = {} /\ Joining(r) = {}
            BY <1>0, <3>1, AtRest
        <3>3. Fits(r, Live(users), includes[r], Held(r), Rights(r), {}, {}, {})
            BY <1>0, <1>3, <1>9, <3>2 DEF Settling, Live, TablesOK, FitsNow
        <3>4. Waiting(r)' = {t} /\ Hands(r)' = {} /\ Joining(r)' = {}
            BY <1>4, <1>8, <2>3, <3>2
        <3>5. includes'[r] = new
            BY <1>0, <1>3, <2>3, <3>1 DEF TablesOK
        <3>6. Fits(r, Live(users), new, Held(r), Rights(r), Waiting(r)', {}, {})
            BY <1>4, <3>1, <3>3, <3>4, FitsEdited
        <3> QED BY <2>1, <3>4, <3>5, <3>6 DEF FitsNow
    <2> QED BY <2>2, <2>3
<1>10. raced \subseteq raced' /\ roles \in [Roles -> Lives]
    BY <1>0, <1>3 DEF TablesOK
<1> QED BY <1>0, <1>6, <1>7, <1>9, <1>10, SettlingFrom DEF Sync

-----------------------------------------------------------------------------
(* Who registers joins the default roles, one by one.                       *)

Concern(x, r) == x.step \in {"join", "fill"} /\ r \in x.todo \cup {x.role}

LEMMA EnlistViews ==
    ASSUME FlowOK, Known, NEW q \in Requests, NEW x \in Record,
           Becomes(q, x), queue' = queue, worker' = worker, ~At(q, "send"), x.step # "send"
    PROVE  /\ \A r : Waiting(r)' = Waiting(r) /\ Hands(r)' = Hands(r)
           /\ ~Enlisted(q) => \A r, z : z \in Joining(r)' <=> z \in Joining(r) \/ (z = x /\ Concern(x, r))
           /\ Enlisted(q) =>
                 /\ \A r, z : z \in Joining(r)' <=> \/ z \in Joining(r) /\ z.user # request[q].user
                                                    \/ z = x /\ Concern(x, r)
                 /\ \A r : request[q] \in Joining(r) <=> Concern(request[q], r)
                 /\ \A r : \A z \in Joining(r) : z.user = request[q].user => z = request[q]
<1>1. \A r : Waiting(r)' = Waiting(r) /\ Hands(r)' = Hands(r)
    BY RequestViews
<1>2. \A p \in Requests : request'[p] = IF p = q THEN x ELSE request[p]
    BY RequestViews
<1>3. \A r, z : z \in Joining(r) <=> \E p \in Requests : z = request[p] /\ Concern(z, r)
    BY DEF Joining, Concerns, Concern, Enlisted, At
<1>4. \A r, z : z \in Joining(r)' <=> \E p \in Requests : z = request'[p] /\ Concern(z, r)
    BY DEF Joining, Concerns, Concern, Enlisted, At
<1>5. \A r, z : z \in Joining(r)' <=> \/ z = x /\ Concern(x, r)
                                      \/ \E p \in Requests \ {q} : z = request[p] /\ Concern(z, r)
    BY <1>2, <1>4
<1>6. ASSUME ~Enlisted(q), NEW r
      PROVE  ~Concern(request[q], r)
    BY <1>6 DEF Concern, Enlisted, At
<1>7. ASSUME Enlisted(q), NEW r, NEW p \in Requests, Concern(request[p], r),
             request[p].user = request[q].user
      PROVE  p = q
    BY <1>7 DEF Concern, Known, Enlisted, At
<1>8. ASSUME ~Enlisted(q)
      PROVE  \A r, z : z \in Joining(r)' <=> z \in Joining(r) \/ (z = x /\ Concern(x, r))
    BY <1>3, <1>5, <1>6, <1>8
<1>9. ASSUME Enlisted(q)
      PROVE  /\ \A r, z : z \in Joining(r)' <=> \/ z \in Joining(r) /\ z.user # request[q].user
                                                \/ z = x /\ Concern(x, r)
             /\ \A r : request[q] \in Joining(r) <=> Concern(request[q], r)
             /\ \A r : \A z \in Joining(r) : z.user = request[q].user => z = request[q]
    BY <1>3, <1>5, <1>7, <1>9
<1> QED BY <1>1, <1>8, <1>9

\* The registration of q has nothing to do with the role, before and after.
LEMMA Unconcerned ==
    ASSUME FlowOK, Known, NEW q \in Requests, NEW x \in Record,
           Becomes(q, x), queue' = queue, worker' = worker, ~At(q, "send"), x.step # "send",
           NEW r, ~Concern(request[q], r), ~Concern(x, r)
    PROVE  Waiting(r)' = Waiting(r) /\ Hands(r)' = Hands(r) /\ Joining(r)' = Joining(r)
<1>1. \A z : z \in Joining(r)' <=> z \in Joining(r)
    BY EnlistViews
<1>2. Joining(r)' = Joining(r)
    BY <1>1
<1> QED BY <1>2, EnlistViews

LEMMA RegisterSync ==
    ASSUME Sync, NEW q \in Requests, NEW v \in Users, Register(q, v)
    PROVE  Sync'
<1>0. TablesOK /\ FlowOK /\ Known /\ Settling /\ Types
    BY DEF Sync, Types
<1> DEFINE rs == {r \in ByDefault : Pending(r, {v})}
           y == [step |-> "join", user |-> v, role |-> NoRole, todo |-> ByDefault, seen |-> includes]
<1>1. /\ UNCHANGED <<roles, includes, permissions, holds, grants, direct, queue, worker, mishaps>>
      /\ changes < MaxChanges /\ changes' = changes + 1
      /\ request[q] = Idle /\ users[v] = "unused" /\ users' = [users EXCEPT ![v] = "live"]
      /\ raced' = raced \cup rs /\ Becomes(q, IF ByDefault = {} THEN Idle ELSE y)
    BY DEF Register, Begins, Raced, Becomes
<1>2. ByDefault \in SUBSET Roles /\ \A r \in ByDefault : roles[r] = "live"
    BY <1>0 DEF ByDefault, Live, TablesOK
<1>3. PICK x \in Record :
          /\ Becomes(q, x) /\ x.step # "send" /\ x.step # "grant" /\ x.step # "edit"
          /\ x.step \in {"join", "fill"} => ByDefault # {}
          /\ ByDefault # {} => /\ x.step = "join" /\ x.user = v /\ x.role = NoRole
                               /\ x.todo = ByDefault /\ x.seen = includes
    <2>1. CASE ByDefault = {}
        <3>1. Idle \in Record /\ Idle.step = "idle" /\ Becomes(q, Idle)
            BY <1>1, <2>1, NewRecords DEF Idle
        <3> QED BY <2>1, <3>1
    <2>2. CASE ByDefault # {}
        <3>1. y \in Record /\ Becomes(q, y)
            BY <1>0, <1>1, <1>2, <2>2, NewRecords DEF TablesOK
        <3>2. /\ y.step = "join" /\ y.user = v /\ y.role = NoRole
              /\ y.todo = ByDefault /\ y.seen = includes
            OBVIOUS
        <3> HIDE DEF y
        <3> QED BY <2>2, <3>1, <3>2
    <2> QED BY <2>1, <2>2
<1>4. TablesOK'
    BY <1>0, AdditionKeepsTables
<1>5. Types' /\ Known'
    <2>1. rs \in SUBSET Roles
        BY <1>2
    <2>2. Ages
        BY <1>0, <1>1 DEF Ages, TablesOK
    <2>3. RequestKnown(x)'
        <3>1. users'[v] = "live"
            BY <1>0, <1>1 DEF TablesOK
        <3> QED BY <1>1, <1>2, <1>3, <3>1, RoleSyncAssumption DEF RequestKnown
    <2>4. ASSUME NEW p \in Requests, Enlisted(p)
          PROVE  request[p].user # v
        <3>1. RequestKnown(request[p])
            BY <1>0 DEF Known
        <3>2. users[request[p].user] # "unused"
            BY <2>4, <3>1 DEF RequestKnown, Enlisted, At
        <3> QED BY <1>1, <3>2
    <2>5. x.step \in {"join", "fill"} =>
              \A p \in Requests : p # q /\ Enlisted(p) => request[p].user # x.user
        BY <1>3, <2>4
    <2> HIDE DEF rs
    <2> QED BY <1>0, <1>1, <1>3, <1>4, <2>1, <2>2, <2>3, <2>5, RequestStep
<1>6. ~At(q, "send") /\ ~Enlisted(q)
    BY <1>1 DEF At, Enlisted, Idle
<1>7. ASSUME NEW r \in Roles, roles'[r] = "live", r \notin raced'
      PROVE  FitsNow(r)'
    <2> DEFINE L == Live(users)
               I == includes[r]
               W == Waiting(r)
               H == Hands(r)
               J == Joining(r)
    <2>1. includes'[r] = I /\ Rights(r)' = Rights(r) /\ Held(r)' = Held(r)
        BY <1>1 DEF Rights, Held
    <2>2. Live(users)' = L \cup {v} /\ v \notin L
        BY <1>0, <1>1 DEF Live, TablesOK
    <2>3. /\ W' = W /\ H' = H
          /\ \A z : z \in J' <=> z \in J \/ (z = x /\ Concern(x, r))
        BY <1>0, <1>1, <1>3, <1>6, EnlistViews
    <2>4. /\ Fits(r, L, I, Held(r), Rights(r), W, H, J)
          /\ Shapes(L, I, Held(r), Rights(r), W, H, J)
        BY <1>0, <1>1, <1>7, NowShapes DEF Settling, Live, TablesOK, FitsNow
    <2>5. (\A t \in Tasks(W, H) : t.user # v) /\ \A j \in J : j.user # v
        BY <1>0, <1>1, NoStrangers
    <2>6. \/ J' = J
          \/ /\ \A t \in Tasks(W, H) : t.task # "updated"
             /\ \E j : /\ J' = J \cup {j} /\ j.user = v /\ j.seen[r] = I /\ j.role # r
        <3>0. r # NoRole
            BY RoleSyncAssumption
        <3>1. CASE r \in ByDefault
            <4>1. ~Pending(r, {v})
                BY <1>1, <1>7, <3>1
            <4>2. Quiet(W, H, J, v)
                BY <1>0, <3>0, <4>1, PendingOrQuiet
            <4>3. \A t \in Tasks(W, H) : t.task # "updated"
                BY <4>2 DEF Quiet
            <4>4. Concern(x, r) /\ x.user = v /\ x.seen[r] = I /\ x.role # r
                BY <1>3, <3>0, <3>1 DEF Concern
            <4>5. J' = J \cup {x}
                <5>1. \A z : z \in J' <=> z \in J \cup {x}
                    BY <2>3, <4>4
                <5> HIDE DEF J
                <5> QED BY <5>1
            <4> QED BY <4>3, <4>4, <4>5
        <3>2. CASE r \notin ByDefault
            <4>1. ~Concern(x, r)
                BY <1>3, <3>0, <3>2 DEF Concern
            <4>2. \A z : z \in J' <=> z \in J
                BY <2>3, <4>1
            <4> HIDE DEF J
            <4> QED BY <4>2
        <3> QED BY <3>1, <3>2
    <2>7. Fits(r, L \cup {v}, I, Held(r), Rights(r), W, H, J')
        BY <2>2, <2>4, <2>5, <2>6, FitsMore
    <2> QED BY <2>1, <2>2, <2>3, <2>7 DEF FitsNow
<1>8. raced \subseteq raced' /\ roles \in [Roles -> Lives]
    BY <1>0, <1>1 DEF TablesOK
<1> QED BY <1>0, <1>4, <1>5, <1>7, <1>8, SettlingFrom DEF Sync

\* A registration that goes on, or ends.
LEMMA EnlistStep ==
    ASSUME Sync, NEW q \in Requests, Enlisted(q), NEW x \in Record, Becomes(q, x),
           queue' = queue, worker' = worker, users' = users, roles' = roles, direct' = direct,
           mishaps' = mishaps, changes' = changes, TablesOK',
           NEW rs \in SUBSET Roles, raced' = raced \cup rs, RequestKnown(x),
           x.step \notin {"send", "grant"},
           x.step \in {"join", "fill"} => x.user = request[q].user
    PROVE  Types' /\ Known'
<1>1. Types /\ Known /\ Ages
    BY SameAges DEF Sync
<1>2. RequestKnown(x)'
    BY DEF RequestKnown
<1>3. x.step \in {"join", "fill"} =>
          \A p \in Requests : p # q /\ Enlisted(p) => request[p].user # x.user
    BY <1>1 DEF Known
<1> QED BY <1>1, <1>2, <1>3, RequestStep

\* What the request was.
LEMMA EnlistFields ==
    ASSUME FlowOK, Known, NEW q \in Requests, Enlisted(q)
    PROVE  LET o == request[q]
           IN  /\ o.user \in Users /\ o.todo \in SUBSET Roles /\ o.role \in Roles \cup {NoRole}
               /\ o.seen \in [Roles -> SUBSET Permissions] /\ users[o.user] # "unused"
               /\ \A r \in o.todo : roles[r] # "unused" /\ r # o.role
               /\ At(q, "join") => o.role = NoRole
               /\ At(q, "fill") => o.role \in Roles /\ roles[o.role] # "unused"
               /\ ~At(q, "send")
<1>1. request[q] \in Record /\ request[q].step \in {"join", "fill"} /\ RequestKnown(request[q])
    BY DEF FlowOK, Known, Enlisted, At
<1>2. /\ request[q].user \in Users /\ request[q].role \in Roles \cup {NoRole}
      /\ request[q].todo \in SUBSET Roles /\ request[q].seen \in [Roles -> SUBSET Permissions]
    BY <1>1, RequestFields
<1> QED BY <1>1, <1>2 DEF RequestKnown, At

LEMMA JoinSync ==
    ASSUME Sync, NEW q \in Requests, NEW r0 \in Roles, Join(q, r0)
    PROVE  Sync'
<1>0. TablesOK /\ FlowOK /\ Known /\ Settling /\ Types
    BY DEF Sync, Types
<1>1. PICK o : o = request[q]
    OBVIOUS
<1>2. At(q, "join") /\ Enlisted(q) /\ o.step = "join" /\ r0 \in o.todo
    BY <1>1 DEF Join, Enlisted, At
<1>3. /\ o.user \in Users /\ o.todo \in SUBSET Roles /\ o.role = NoRole
      /\ o.seen \in [Roles -> SUBSET Permissions]
      /\ users[o.user] # "unused" /\ \A r \in o.todo : roles[r] # "unused"
      /\ ~At(q, "send") /\ NoRole \notin Roles
    BY <1>0, <1>1, <1>2, EnlistFields, RoleSyncAssumption
<1>4. PICK x \in Record :
          /\ Becomes(q, x) /\ x.step = "fill" /\ x.user = o.user /\ x.role = r0
          /\ x.todo = o.todo \ {r0} /\ x.seen = o.seen
    <2> DEFINE d == o.todo \ {r0}
               y == [step |-> "fill", user |-> o.user, role |-> r0, todo |-> d, seen |-> o.seen]
    <2>1. d \in SUBSET Roles
        BY <1>3
    <2>2. Becomes(q, y)
        BY <1>0, <1>1, EnlistSteps DEF Becomes
    <2> HIDE DEF d
    <2>3. y \in Record
        BY <1>3, <2>1, NewRecords
    <2>4. y.step = "fill" /\ y.user = o.user /\ y.role = r0 /\ y.todo = d /\ y.seen = o.seen
        OBVIOUS
    <2> HIDE DEF y
    <2> QED BY <2>2, <2>3, <2>4 DEF d
<1>5. /\ UNCHANGED <<users, roles, includes, permissions, grants, direct, queue, worker, raced,
                     mishaps, changes>>
      /\ users[o.user] = "live" /\ holds' = holds \cup {<<o.user, r0>>}
    BY <1>1 DEF Join
<1>6. TablesOK'
    BY <1>0, JoinKeepsTables
<1>7. Types' /\ Known'
    <2>1. RequestKnown(x)
        BY <1>2, <1>3, <1>4 DEF RequestKnown
    <2>2. {} \in SUBSET Roles /\ raced' = raced \cup {}
        BY <1>5
    <2> QED BY <1>1, <1>2, <1>4, <1>5, <1>6, <2>1, <2>2, EnlistStep
<1>8. \A r \in Roles : /\ Concern(o, r) <=> r \in o.todo
                       /\ Concern(x, r) <=> r \in o.todo
    BY <1>2, <1>3, <1>4 DEF Concern
<1>9. \A r \in Roles : \A u : /\ u \in Held(r) <=> <<u, r>> \in holds
                              /\ u \in Held(r)' <=> <<u, r>> \in holds'
    BY <1>0, <1>6, HeldNow, HeldNext
<1>10. ASSUME NEW r \in Roles, roles'[r] = "live", r \notin raced'
       PROVE  FitsNow(r)' \/ (roles[r] = "live" /\ SameRole(r))
    <2> DEFINE L == Live(users)
               I == includes[r]
               B == Held(r)
               G == Rights(r)
               W == Waiting(r)
               H == Hands(r)
               J == Joining(r)
    <2>1. L' = L /\ I' = I /\ G' = G /\ roles[r] = "live"
        BY <1>5, <1>10 DEF Live, Rights
    <2>2. r # r0 => B' = B
        <3>1. ASSUME r # r0
              PROVE  \A u : u \in B' <=> u \in B
            BY <1>5, <1>9, <3>1
        <3> HIDE DEF B
        <3> QED BY <3>1
    <2>3. r = r0 => B' = B \cup {o.user}
        <3>1. ASSUME r = r0
              PROVE  \A u : u \in B' <=> u \in B \cup {o.user}
            BY <1>5, <1>9, <3>1
        <3> HIDE DEF B
        <3> QED BY <3>1
    <2>4. CASE r \notin o.todo
        <3>1. W' = W /\ H' = H /\ J' = J
            BY <1>0, <1>1, <1>3, <1>4, <1>5, <1>8, <2>4, Unconcerned
        <3>2. r # r0
            BY <1>2, <2>4
        <3> QED BY <2>1, <2>2, <3>1, <3>2 DEF SameRole
    <2>5. CASE r \in o.todo
        <3>1. /\ W' = W /\ H' = H
              /\ \A z : z \in J' <=> (z \in J /\ z.user # o.user) \/ z = x
              /\ o \in J
            BY <1>0, <1>1, <1>2, <1>3, <1>4, <1>5, <1>8, <2>5, EnlistViews
        <3>2. Fits(r, L, I, B, G, W, H, J) /\ Shapes(L, I, B, G, W, H, J)
            BY <1>0, <1>5, <1>10, <2>1, NowShapes DEF Settling, Live, TablesOK, FitsNow
        <3>3. Steps(J, o, x, J') /\ \A z \in J : z \in J' \/ z.user = o.user
            BY <3>1 DEF Steps
        <3>4. Fits(r, L, I, B', G, W, H, J')
            <4>1. CASE r # r0
                <5>1. (r \in x.todo => r \in o.todo) /\ x.role # r
                    BY <1>4, <4>1
                <5>2. Fits(r, L, I, B, G, W, H, J')
                    BY <1>4, <3>2, <3>3, <5>1, FitsElsewhere
                <5> QED BY <2>2, <4>1, <5>2
            <4>2. CASE r = r0
                <5>1. r \notin x.todo /\ o.user \in L
                    BY <1>0, <1>3, <1>4, <1>5, <4>2 DEF Live, TablesOK
                <5>2. B' = B \cup {o.user}
                    BY <2>3, <4>2
                <5> QED BY <1>4, <3>2, <3>3, <5>1, <5>2, FitsJoined
            <4> QED BY <4>1, <4>2
        <3> QED BY <2>1, <3>1, <3>4 DEF FitsNow
    <2> QED BY <2>4, <2>5
<1>11. raced \subseteq raced' /\ roles \in [Roles -> Lives]
    BY <1>0, <1>5 DEF TablesOK
<1> QED BY <1>0, <1>6, <1>7, <1>10, <1>11, SettlingFrom DEF Sync

LEMMA FillSync ==
    ASSUME Sync, NEW q \in Requests, Fill(q)
    PROVE  Sync'
<1>0. TablesOK /\ FlowOK /\ Known /\ Settling /\ Types
    BY DEF Sync, Types
<1>1. PICK o, r0, ps : o = request[q] /\ r0 = o.role /\ ps = o.seen[r0]
    OBVIOUS
<1>2. At(q, "fill") /\ Enlisted(q) /\ o.step = "fill"
    BY <1>1 DEF Fill, Enlisted, At
<1>3. /\ o.user \in Users /\ o.todo \in SUBSET Roles /\ r0 \in Roles /\ r0 \notin o.todo
      /\ o.seen \in [Roles -> SUBSET Permissions]
      /\ users[o.user] # "unused" /\ \A r \in o.todo : roles[r] # "unused"
      /\ ~At(q, "send") /\ NoRole \notin Roles
    BY <1>0, <1>1, <1>2, EnlistFields, RoleSyncAssumption
<1>4. PICK x \in Record :
          /\ Becomes(q, x) /\ x.step \notin {"send", "grant", "edit", "fill"}
          /\ x.step = "join" => /\ o.todo # {} /\ x.user = o.user /\ x.role = NoRole
                                /\ x.todo = o.todo /\ x.seen = o.seen
          /\ o.todo # {} => x.step = "join"
    <2> DEFINE y == [step |-> "join", user |-> o.user, role |-> NoRole, todo |-> o.todo,
                     seen |-> o.seen]
    <2>1. Becomes(q, IF o.todo = {} THEN Idle ELSE y)
        BY <1>0, <1>1, EnlistSteps DEF Becomes
    <2>2. CASE o.todo = {}
        <3>1. Becomes(q, Idle) /\ Idle \in Record /\ Idle.step = "idle"
            BY <2>1, <2>2, NewRecords DEF Idle
        <3> QED BY <2>2, <3>1
    <2>3. CASE o.todo # {}
        <3>1. Becomes(q, y) /\ y \in Record
            BY <1>3, <2>1, <2>3, NewRecords
        <3>2. y.step = "join" /\ y.user = o.user /\ y.role = NoRole /\ y.todo = o.todo /\ y.seen = o.seen
            OBVIOUS
        <3> HIDE DEF y
        <3> QED BY <2>3, <3>1, <3>2
    <2> QED BY <2>2, <2>3
<1>5. /\ UNCHANGED <<users, roles, includes, permissions, holds, direct, queue, worker, raced,
                     mishaps, changes>>
      /\ Insertable(Rows({o.user}, ps, r0)) /\ grants' = grants \cup Rows({o.user}, ps, r0)
    BY <1>1 DEF Fill
<1>6. TablesOK' /\ ps \in SUBSET Permissions
    <2>1. Rows({o.user}, ps, r0) \in SUBSET (Users \X Permissions \X Roles) /\ ps \in SUBSET Permissions
        BY <1>0, <1>1, <1>2, BatchType
    <2> QED BY <1>0, <1>5, <2>1, InsertKeepsTables
<1>7. Types' /\ Known'
    <2>1. RequestKnown(x)
        BY <1>3, <1>4 DEF RequestKnown
    <2>2. {} \in SUBSET Roles /\ raced' = raced \cup {}
        BY <1>5
    <2> QED BY <1>1, <1>2, <1>4, <1>5, <1>6, <2>1, <2>2, EnlistStep
<1>8. \A r \in Roles : /\ Concern(o, r) <=> r \in o.todo \/ r = r0
                       /\ Concern(x, r) <=> r \in o.todo
    BY <1>1, <1>2, <1>3, <1>4 DEF Concern
<1>9. o.user \notin Live(users) => ps = {}
    <2>1. ASSUME NEW p \in ps
          PROVE  users[o.user] = "live"
        <3> DEFINE g == <<o.user, p, r0>>
        <3>1. g \in Rows({o.user}, ps, r0) /\ g[1] = o.user
            BY DEF Rows
        <3> HIDE DEF g
        <3> QED BY <1>5, <3>1 DEF Insertable
    <2> QED BY <1>0, <1>3, <2>1 DEF Live, TablesOK
<1>10. ASSUME NEW r \in Roles, roles'[r] = "live", r \notin raced'
       PROVE  FitsNow(r)' \/ (roles[r] = "live" /\ SameRole(r))
    <2> DEFINE L == Live(users)
               I == includes[r]
               B == Held(r)
               G == Rights(r)
               W == Waiting(r)
               H == Hands(r)
               J == Joining(r)
    <2>1. L' = L /\ I' = I /\ B' = B /\ roles[r] = "live"
        BY <1>5, <1>10 DEF Live, Held
    <2>2. G' = IF r = r0 THEN G \cup {<<u, p>> : u \in {o.user}, p \in ps} ELSE G
        BY <1>5, RightsGain
    <2>3. CASE r \notin o.todo /\ r # r0
        <3>1. W' = W /\ H' = H /\ J' = J
            BY <1>0, <1>1, <1>3, <1>4, <1>5, <1>8, <2>3, Unconcerned
        <3> QED BY <2>1, <2>2, <2>3, <3>1 DEF SameRole
    <2>4. CASE r \in o.todo \/ r = r0
        <3>1. /\ W' = W /\ H' = H
              /\ \A z : z \in J' <=> (z \in J /\ z.user # o.user) \/ (z = x /\ Concern(x, r))
              /\ o \in J
            BY <1>0, <1>1, <1>2, <1>3, <1>4, <1>5, <1>8, <2>4, EnlistViews
        <3>2. Fits(r, L, I, B, G, W, H, J) /\ Shapes(L, I, B, G, W, H, J)
            BY <1>0, <1>5, <1>10, <2>1, NowShapes DEF Settling, Live, TablesOK, FitsNow
        <3>3. Fits(r, L, I, B, G', W, H, J')
            <4>1. CASE r # r0
                <5>1. r \in o.todo /\ Concern(x, r) /\ G' = G
                    BY <1>8, <2>2, <2>4, <4>1
                <5>2. Steps(J, o, x, J') /\ \A z \in J : z \in J' \/ z.user = o.user
                    BY <3>1, <5>1 DEF Steps
                <5>3. x.user = o.user /\ x.seen = o.seen /\ x.role # r
                    BY <1>3, <1>4, <5>1
                <5>4. Fits(r, L, I, B, G, W, H, J')
                    BY <3>2, <5>1, <5>2, <5>3, FitsElsewhere
                <5> QED BY <5>1, <5>4
            <4>2. CASE r = r0
                <5>1. ~Concern(x, r)
                    BY <1>3, <1>8, <4>2
                <5>2. Leaves(J, o, J')
                    BY <3>1, <5>1 DEF Leaves
                <5>3. G' = G \cup {<<u, p>> : u \in {o.user}, p \in ps}
                    BY <2>2, <4>2
                <5>4. o.role = r /\ ps = o.seen[r]
                    BY <1>1, <4>2
                <5>5. Gains(G, o.user, ps, G')
                    BY <1>6, <5>3 DEF Gains, Of
                <5> QED BY <1>9, <3>2, <5>2, <5>4, <5>5, FitsFilled
            <4> QED BY <4>1, <4>2
        <3> QED BY <2>1, <3>1, <3>3 DEF FitsNow
    <2> QED BY <2>3, <2>4
<1>11. raced \subseteq raced' /\ roles \in [Roles -> Lives]
    BY <1>0, <1>5 DEF TablesOK
<1> QED BY <1>0, <1>6, <1>7, <1>10, <1>11, SettlingFrom DEF Sync

LEMMA EnlistFailsSync ==
    ASSUME Sync, NEW q \in Requests, EnlistFails(q)
    PROVE  Sync'
<1>0. TablesOK /\ FlowOK /\ Known /\ Settling /\ Types
    BY DEF Sync, Types
<1>1. PICK o, rs : o = request[q] /\ rs = o.todo \cup ({o.role} \ {NoRole})
    OBVIOUS
<1>2. /\ UNCHANGED <<users, roles, includes, permissions, holds, grants, direct, queue, worker,
                     mishaps, changes>>
      /\ Enlisted(q) /\ raced' = raced \cup rs /\ Becomes(q, Idle)
    BY <1>1 DEF EnlistFails, Enlisted, Ends, Raced, Becomes, tables
<1>3. rs \in SUBSET Roles
    BY <1>0, <1>1, <1>2, RacedType
<1>4. Idle \in Record /\ Idle.step = "idle" /\ RequestKnown(Idle)
    BY NewRecords DEF Idle, RequestKnown
<1>5. TablesOK'
    BY <1>0, <1>2, SameTables DEF tables
<1>6. Types' /\ Known'
    BY <1>2, <1>3, <1>4, <1>5, EnlistStep
<1>7. ASSUME NEW r \in Roles, roles'[r] = "live", r \notin raced'
      PROVE  roles[r] = "live" /\ SameRole(r)
    <2>1. ~Concern(o, r) /\ ~Concern(Idle, r)
        BY <1>1, <1>2, <1>4, <1>7, RoleSyncAssumption DEF Concern
    <2>2. ~At(q, "send")
        BY <1>2 DEF Enlisted, At
    <2>3. Waiting(r)' = Waiting(r) /\ Hands(r)' = Hands(r) /\ Joining(r)' = Joining(r)
        BY <1>0, <1>1, <1>2, <1>4, <2>1, <2>2, Unconcerned
    <2> QED BY <1>2, <1>7, <2>3 DEF SameRole, Live, Held, Rights
<1>8. raced \subseteq raced' /\ roles \in [Roles -> Lives]
    BY <1>0, <1>2 DEF TablesOK
<1> QED BY <1>0, <1>5, <1>6, <1>7, <1>8, SettlingFrom DEF Sync

-----------------------------------------------------------------------------
(* The tasks of a request reach the queue, or do not.                       *)

LEMMA SendSync ==
    ASSUME Sync, NEW q \in Requests, Send(q)
    PROVE  Sync'
<1>0. TablesOK /\ FlowOK /\ Known /\ Settling /\ Types
    BY DEF Sync, Types
<1>1. /\ UNCHANGED <<users, roles, includes, permissions, holds, grants, direct, worker, raced,
                     mishaps, changes>>
      /\ Len(queue) < MaxQueue /\ queue' = Append(queue, Head(request[q].sends))
    BY DEF Send, tables
<1>2. \A r : Waiting(r)' = Waiting(r) /\ Hands(r)' = Hands(r) /\ Joining(r)' = Joining(r)
    BY <1>0, SendViews
<1>3. PICK x \in Record : /\ x.step \in {"send", "idle"} /\ (x.step = "send" => x.sends # <<>>)
                          /\ request' = [request EXCEPT ![q] = x]
    BY <1>0, SendViews
<1>4. PICK t \in Task : queue' = Append(queue, t)
    BY <1>0, <1>1, SendViews
<1>5. TablesOK'
    BY <1>0, <1>1, SameTables DEF tables
<1>6. FlowOK'
    <2>1. /\ queue \in Seq(Task) /\ Len(queue) \in Nat /\ MaxQueue \in Nat
          /\ request \in [Requests -> Record]
        BY <1>0, RoleSyncAssumption DEF FlowOK
    <2>2. queue' \in Seq(Task) /\ Len(queue') <= MaxQueue
        BY <1>1, <1>4, <2>1
    <2>3. request' \in [Requests -> Record]
        BY <1>3, <2>1
    <2> QED BY <1>0, <1>1, <2>2, <2>3 DEF FlowOK
<1>7. DirectBound'
    <2>1. \A d \in Direct : direct'[d] <= direct[d]
        BY <1>0, <1>1, SameDirect
    <2>2. \E p \in Requests, y \in Record : y.step # "grant" /\ request' = [request EXCEPT ![p] = y]
        BY <1>3
    <2> QED BY <1>0, <1>5, <2>1, <2>2, NoNewGrantor
<1>8. \A t1 \in Unfinished' : t1 \in Unfinished
    <2>1. \A r : Tasks(Waiting(r), Hands(r))' = Tasks(Waiting(r), Hands(r))
        BY <1>2
    <2>2. \A r : Tasks(Waiting(r), Hands(r))' \subseteq Tasks(Waiting(r), Hands(r)) \cup {}
        BY <2>1
    <2>3. \A t1 \in Unfinished' : t1 \in Unfinished \/ t1 \in {}
        BY <1>0, <1>6, <2>2, NoNewTask
    <2> QED BY <2>3
<1>9. Known'
    <2>1. \A p \in Requests : request'[p] = IF p = q THEN x ELSE request[p]
        BY <1>0, <1>3 DEF FlowOK
    <2>2. RequestKnown(x)'
        BY <1>3 DEF RequestKnown
    <2>3. \A p \in Requests : request'[p] = request[p] \/ RequestKnown(request[p])'
        BY <2>1, <2>2
    <2>4. \A p \in Requests : Enlisted(p)' => Enlisted(p) /\ request'[p] = request[p]
        BY <1>3, <2>1 DEF Enlisted, At
    <2>5. \A p, s \in Requests : Enlisted(p)' /\ Enlisted(s)' /\ request'[p].user = request'[s].user
                                   => p = s
        BY <1>0, <2>4 DEF Known
    <2>6. \A w \in Workers : worker'[w] = worker[w]
        BY <1>1
    <2>7. Ages
        BY <1>1, SameAges
    <2> QED BY <1>0, <1>8, <2>3, <2>5, <2>6, <2>7, KnownFrom
<1>10. ASSUME NEW r \in Roles, roles'[r] = "live"
       PROVE  roles[r] = "live" /\ SameRole(r)
    BY <1>1, <1>2, <1>10 DEF SameRole, Live, Held, Rights
<1>11. raced \subseteq raced' /\ roles \in [Roles -> Lives]
    BY <1>0, <1>1 DEF TablesOK
<1> QED BY <1>0, <1>5, <1>6, <1>7, <1>9, <1>10, <1>11, SettlingFrom DEF Sync, Types

LEMMA DieSendingSync ==
    ASSUME Sync, NEW q \in Requests, DieSending(q)
    PROVE  Sync'
<1>0. TablesOK /\ FlowOK /\ Known /\ Settling /\ Types
    BY DEF Sync, Types
<1>1. PICK rs : rs = {request[q].sends[i].role : i \in DOMAIN request[q].sends}
    OBVIOUS
<1>2. /\ UNCHANGED <<users, roles, includes, permissions, holds, grants, direct, queue, worker,
                     changes>>
      /\ At(q, "send") /\ raced' = raced \cup rs /\ Becomes(q, Idle)
      /\ mishaps < MaxMishaps /\ mishaps' = mishaps + 1
    BY <1>1 DEF DieSending, Ends, Raced, Becomes, tables
<1>3. rs \in SUBSET Roles
    BY <1>0, <1>1, <1>2, RacedType
<1>4. Idle \in Record /\ Idle.step = "idle" /\ RequestKnown(Idle)'
    BY NewRecords DEF Idle, RequestKnown
<1>5. TablesOK'
    BY <1>0, <1>2, SameTables DEF tables
<1>6. Types' /\ Known'
    <2>1. Ages
        BY <1>2, SameAges
    <2> QED BY <1>0, <1>2, <1>3, <1>4, <1>5, <2>1, RequestStep
<1>7. ASSUME NEW r \in Roles, roles'[r] = "live", r \notin raced'
      PROVE  roles[r] = "live" /\ SameRole(r)
    <2>1. \A i \in DOMAIN request[q].sends : request[q].sends[i].role # r
        BY <1>1, <1>2, <1>7
    <2>2. ~Enlisted(q)
        BY <1>2 DEF Enlisted, At
    <2>3. Waiting(r)' = Waiting(r) /\ Hands(r)' = Hands(r) /\ Joining(r)' = Joining(r)
        BY <1>0, <1>2, <1>4, <2>1, <2>2, RequestViews
    <2> QED BY <1>2, <1>7, <2>3 DEF SameRole, Live, Held, Rights
<1>8. raced \subseteq raced' /\ roles \in [Roles -> Lives]
    BY <1>0, <1>2 DEF TablesOK
<1> QED BY <1>0, <1>5, <1>6, <1>7, <1>8, SettlingFrom DEF Sync

-----------------------------------------------------------------------------
(* Every step.                                                              *)

LEMMA IdleSync == Sync /\ UNCHANGED vars => Sync'
<1> SUFFICES ASSUME Sync, UNCHANGED vars PROVE Sync'
    OBVIOUS
<1>1. UNCHANGED <<users, roles, includes, permissions, holds, grants, direct,
                  queue, worker, request, raced, mishaps, changes>>
    BY DEF vars
<1>2. TablesOK'
    BY <1>1, SameTables DEF Sync, Types, tables
<1>3. Types' /\ Known'
    <2>1. Ages
        BY <1>1, SameAges
    <2>2. {} \in SUBSET Roles /\ raced' = raced \cup {}
        BY <1>1
    <2>3. \A d \in Direct : direct'[d] <= direct[d]
        BY <1>1, SameDirect DEF Sync, Types
    <2> QED BY <1>1, <1>2, <2>1, <2>2, <2>3, TableStep DEF Sync
<1>4. \A r : Waiting(r)' = Waiting(r) /\ Hands(r)' = Hands(r) /\ Joining(r)' = Joining(r)
    BY <1>1, TableViews
<1>5. ASSUME NEW r \in Roles, roles'[r] = "live"
      PROVE  roles[r] = "live" /\ SameRole(r)
    BY <1>1, <1>4, <1>5 DEF SameRole, Live, Held, Rights
<1>6. raced \subseteq raced' /\ roles \in [Roles -> Lives]
    BY <1>1 DEF Sync, Types, TablesOK
<1> QED BY <1>2, <1>3, <1>5, <1>6, SettlingFrom DEF Sync

LEMMA NextSync == Sync /\ [Next]_vars => Sync'
<1> SUFFICES ASSUME Sync, [Next]_vars PROVE Sync'
    OBVIOUS
<1>1. CASE Administer
    <2>1. ASSUME NEW q \in Requests, NEW u \in Users, NEW r \in Roles,
                 \/ CreateUserRole(q, u, r) \/ GiveOnDashboard(q, u, r)
                 \/ DeleteUserRole(q, u, r) \/ TakeOnDashboard(q, u, r)
          PROVE  Sync'
        BY <2>1, GivingSync
           DEF CreateUserRole, GiveOnDashboard, DeleteUserRole, TakeOnDashboard
    <2>2. ASSUME NEW r \in Roles, NEW new \in SUBSET Permissions,
                 CreateRole(r, new) \/ CreateOnDashboard(r, new)
          PROVE  Sync'
        BY <2>2, CreateRoleSync DEF CreateOnDashboard
    <2>3. ASSUME NEW q \in Requests, NEW r \in Roles, LoadRole(q, r) \/ Join(q, r)
          PROVE  Sync'
        BY <2>3, LoadSync, JoinSync
    <2>4. ASSUME NEW q \in Requests, NEW new \in SUBSET Permissions,
                 UpdateRole(q, new) \/ EditOnDashboard(q, new)
          PROVE  Sync'
        BY <2>4, UpdateRoleSync DEF EditOnDashboard
    <2>5. ASSUME NEW q \in Requests, UpdateFails(q) \/ Fill(q) \/ EnlistFails(q)
          PROVE  Sync'
        BY <2>5, LoadSync, FillSync, EnlistFailsSync
    <2>6. ASSUME NEW q \in Requests, NEW u \in Users, Register(q, u)
          PROVE  Sync'
        BY <2>6, RegisterSync
    <2>7. ASSUME NEW r \in Roles, RemoveRole(r) \/ DeleteOnDashboard(r)
          PROVE  Sync'
        BY <2>7, RemoveRoleSync DEF DeleteOnDashboard
    <2>8. ASSUME NEW p \in Permissions,
                 \/ CreatePermission(p) \/ AddPermissionOnDashboard(p)
                 \/ RemovePermission(p) \/ DeletePermissionOnDashboard(p)
          PROVE  Sync'
        BY <2>8, ApartSync, RemovePermissionSync
           DEF AddPermissionOnDashboard, DeletePermissionOnDashboard
    <2>9. ASSUME NEW u \in Users, RemoveUser(u) \/ RemoveUserOnDashboard(u)
          PROVE  Sync'
        BY <2>9, RemoveUserSync DEF RemoveUserOnDashboard
    <2> QED BY <1>1, <2>1, <2>2, <2>3, <2>4, <2>5, <2>6, <2>7, <2>8, <2>9 DEF Administer
<1>2. CASE AdministerDirect
    <2>1. ASSUME NEW q \in Requests, NEW d \in Direct,
                 LookDirect(q, d) \/ LookDirectOnDashboard(q, d)
          PROVE  Sync'
        BY <2>1, LookDirectSync DEF LookDirectOnDashboard
    <2>2. ASSUME NEW q \in Requests, GrantDirect(q)
          PROVE  Sync'
        BY <2>2, GrantDirectSync
    <2>3. ASSUME NEW d \in Direct, RevokeDirect(d) \/ RevokeDirectOnDashboard(d)
          PROVE  Sync'
        BY <2>3, ApartSync DEF RevokeDirectOnDashboard
    <2> QED BY <1>2, <2>1, <2>2, <2>3 DEF AdministerDirect
<1>3. CASE \E q \in Requests : Send(q) \/ DieSending(q)
    BY <1>3, SendSync, DieSendingSync
<1>4. CASE \E w \in Workers : Perform(w) \/ DieWorking(w)
    BY <1>4, TakeSync, ReadSync, InsertSync, RevokeAllSync, RevokeOneSync, AckSync,
       ReturnSync, GiveUpSync DEF Perform
<1>5. CASE UNCHANGED vars
    BY <1>5, IdleSync
<1> QED BY <1>1, <1>2, <1>3, <1>4, <1>5 DEF Next

-----------------------------------------------------------------------------
(* The theorems.                                                            *)

LEMMA SyncAlways == Spec => []Sync
<1>1. Init => Sync
    BY InitSync
<1>2. Sync /\ [Next]_vars => Sync'
    BY NextSync
<1> QED BY <1>1, <1>2, PTL DEF Spec

\* Every variable keeps its type: among others, no row of user_roles or of
\* user_permissions outlives a row that it refers to, and no direct grant is
\* there more often than there are requests to insert it.
THEOREM TypesHold == Spec => []TypeOK
<1>1. Sync => TypeOK
    BY TypesImplyTypeOK DEF Sync
<1> QED BY <1>1, SyncAlways, PTL

\* Users end up with just the permissions of the roles they hold, however the
\* requests, the queue and the workers took their turns, unless something came
\* in between of the same role.
THEOREM UsersEndUpEntitled == Spec => []RolesSettle
<1>1. Sync => RolesSettle
    <2> SUFFICES ASSUME Sync, NEW r \in Live(roles) \ raced, ~Pending(r, Users),
                        NEW u \in Live(users)
                 PROVE  Granted(u, r) = Entitled(u, r)
        BY DEF RolesSettle
    <2>0. TablesOK /\ FlowOK /\ Known /\ Settling
        BY DEF Sync, Types
    <2>1. r \in Roles /\ grants \subseteq Users \X Permissions \X Roles
        BY <2>0 DEF TablesOK, Live
    <2>2. Waiting(r) = {} /\ Hands(r) = {} /\ Joining(r) = {}
        BY <2>0, <2>1, AtRest
    <2>3. Fits(r, Live(users), includes[r], Held(r), Rights(r), {}, {}, {})
        BY <2>0, <2>2 DEF Settling, FitsNow
    <2>4. Of(Rights(r), u) = IF u \in Held(r) THEN includes[r] ELSE {}
        BY <2>3, FitsStill
    <2>5. u \in Held(r) <=> <<u, r>> \in holds
        BY <2>0, <2>1, HeldNow
    <2>6. Granted(u, r) = Of(Rights(r), u)
        <3>1. \A p : p \in Granted(u, r) <=> <<u, p, r>> \in grants
            <4>1. ASSUME NEW p, p \in Granted(u, r)
                  PROVE  <<u, p, r>> \in grants
                <5>1. PICK g \in grants : g[1] = u /\ g[3] = r /\ p = g[2]
                    BY <4>1 DEF Granted
                <5>2. g = <<g[1], g[2], g[3]>>
                    BY <2>1
                <5> QED BY <5>1, <5>2
            <4>2. ASSUME NEW p, <<u, p, r>> \in grants
                  PROVE  p \in Granted(u, r)
                <5> DEFINE g == <<u, p, r>>
                <5>1. g \in grants /\ g[1] = u /\ g[3] = r /\ p = g[2]
                    BY <4>2
                <5> HIDE DEF g
                <5> QED BY <5>1 DEF Granted
            <4> QED BY <4>1, <4>2
        <3>2. \A p : p \in Of(Rights(r), u) <=> p \in Permissions /\ <<u, p, r>> \in grants
            <4>1. \A p : <<u, p>> \in Rights(r) <=> <<u, p, r>> \in grants
                BY <2>1, RoleRows
            <4> QED BY <4>1 DEF Of
        <3>3. \A p : <<u, p, r>> \in grants => p \in Permissions
            BY <2>1
        <3> QED BY <3>1, <3>2, <3>3
    <2> QED BY <2>4, <2>5, <2>6 DEF Entitled
<1> QED BY <1>1, SyncAlways, PTL

\* Nothing that belongs to another role than the role r changes, and no grant without one.
KeepsToRole(r) ==
    {g \in grants : g[3] # r} = {g \in grants' : g[3] # r} /\ direct' = direct

\* The step of one worker, which leaves the others alone.
LEMMA WorkersKeep ==
    ASSUME TypeOK, NEW p \in Workers, Perform(p) \/ DieWorking(p),
           NEW w \in Workers, worker[w] # Idle, worker'[w] # worker[w]
    PROVE  KeepsToRole(worker[w].task.role)
<1>1. worker \in [Workers -> Work \cup {Idle}]
    BY DEF TypeOK
<1>3. CASE \/ Take(p) \/ Read(p) \/ Ack(p) \/ Retry(p) \/ GiveUp(p) \/ DieWorking(p)
    BY <1>3 DEF Take, Read, Ack, Retry, GiveUp, DieWorking, tables, KeepsToRole
<1>4. CASE Insert(p)
    <2>1. w = p
        BY <1>1, <1>4 DEF Insert, Goes
    <2>2. \A g \in Batch(p) : g[3] = worker[p].task.role
        BY DEF Batch, Rows
    <2>3. \A g : g[3] # worker[p].task.role => (g \in grants' <=> g \in grants)
        BY <1>4, <2>2 DEF Insert
    <2> QED BY <1>4, <2>1, <2>3 DEF Insert, KeepsToRole
<1>5. CASE RevokeAll(p)
    <2>1. w = p
        BY <1>1, <1>5 DEF RevokeAll, Goes
    <2>2. \A g : g[3] # worker[p].task.role => (g \in grants' <=> g \in grants)
        BY <1>5 DEF RevokeAll
    <2> QED BY <1>5, <2>1, <2>2 DEF RevokeAll, KeepsToRole
<1>6. ASSUME NEW x \in Permissions, RevokeOne(p, x)
      PROVE  KeepsToRole(worker[w].task.role)
    <2>1. w = p
        BY <1>1, <1>6 DEF RevokeOne
    <2>2. \A g : g[3] # worker[p].task.role => (g \in grants' <=> g \in grants)
        BY <1>6 DEF RevokeOne
    <2> QED BY <1>6, <2>1, <2>2 DEF RevokeOne, KeepsToRole
<1> QED BY <1>3, <1>4, <1>5, <1>6 DEF Perform

\* The requests leave the workers alone.
LEMMA RequestsKeep ==
    ASSUME \/ Administer \/ AdministerDirect \/ \E q \in Requests : Send(q) \/ DieSending(q)
    PROVE  worker' = worker
<1>1. CASE Administer
    <2>1. \A q, u, r : AddRole(q, u, r) \/ DeleteRole(q, u, r) => worker' = worker
        BY DEF AddRole, DeleteRole
    <2>2. \A q, r, new : CreateRole(r, new) \/ LoadRole(q, r) \/ UpdateRole(q, new) => worker' = worker
        BY DEF CreateRole, LoadRole, UpdateRole
    <2>3. \A q, r, u : Join(q, r) \/ UpdateFails(q) \/ Register(q, u) => worker' = worker
        BY DEF Join, UpdateFails, Register
    <2>4. \A q : Fill(q) \/ EnlistFails(q) => worker' = worker
        BY DEF Fill, EnlistFails
    <2>5. \A r, p, u : RemoveRole(r) \/ CreatePermission(p) \/ RemovePermission(p) \/ RemoveUser(u)
              => worker' = worker
        BY DEF RemoveRole, CreatePermission, RemovePermission, RemoveUser
    <2> QED
        BY <1>1, <2>1, <2>2, <2>3, <2>4, <2>5
           DEF Administer, CreateUserRole, GiveOnDashboard, DeleteUserRole, TakeOnDashboard,
               CreateOnDashboard, EditOnDashboard, DeleteOnDashboard, AddPermissionOnDashboard,
               DeletePermissionOnDashboard, RemoveUserOnDashboard
<1>2. CASE AdministerDirect
    BY <1>2 DEF AdministerDirect, LookDirect, LookDirectOnDashboard, GrantDirect, RevokeDirect,
        RevokeDirectOnDashboard
<1>3. CASE \E q \in Requests : Send(q) \/ DieSending(q)
    BY <1>3 DEF Send, DieSending
<1> QED BY <1>1, <1>2, <1>3

\* The workers keep to their role: no statement of a task, and no task that
\* fails, is given up or is delivered again, changes what belongs to another
\* role, or a grant that belongs to none.
THEOREM WorkersKeepToTheirRole == Spec => TasksKeepToTheirRole
<1> DEFINE Kept == \A w \in Workers : worker[w] # Idle /\ worker'[w] # worker[w] =>
                       /\ {g \in grants : g[3] # worker[w].task.role}
                             = {g \in grants' : g[3] # worker[w].task.role}
                       /\ direct' = direct
<1>1. ASSUME TypeOK, [Next]_vars
      PROVE  [Kept]_vars
    <2> SUFFICES ASSUME Next, NEW w \in Workers, worker[w] # Idle, worker'[w] # worker[w]
                 PROVE  KeepsToRole(worker[w].task.role)
        BY <1>1 DEF KeepsToRole
    <2>1. \E p \in Workers : Perform(p) \/ DieWorking(p)
        BY RequestsKeep DEF Next
    <2> QED BY <1>1, <2>1, WorkersKeep
<1>2. TypeOK /\ [Next]_vars => [Kept]_vars
    BY <1>1
<1> QED BY <1>2, TypesHold, PTL DEF Spec, TasksKeepToTheirRole
=============================================================================
