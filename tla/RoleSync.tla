------------------------------ MODULE RoleSync ------------------------------
(***************************************************************************)
(* Roles, the users who hold them and the rows of user_permissions that are *)
(* derived from both.  A request commits its change of a role, or of who    *)
(* holds it, and then sends a task; workers take the tasks from a queue and *)
(* bring the derived rows up to date, statement by statement.               *)
(*                                                                         *)
(* Names, webhooks and the audit log are left out.  An update of a role     *)
(* that leaves its permissions out sends a task with nothing to do, and is  *)
(* no action.                                                               *)
(***************************************************************************)
EXTENDS FiniteSets, Naturals, Sequences

CONSTANTS
    Users, Roles, Permissions,   \* ids of rows; each is used once
    Requests, Workers,           \* requests in flight, threads of the worker
    Defaults,                    \* the roles that are granted_by_default
    Direct,                      \* the grants without a role that administrators try
    MaxQueue, MaxRetries,        \* bounds: messages in the queue, retries of a task
    MaxMishaps,                  \* bound: processes that die
    MaxChanges                   \* bound: requests that change something

\* What stands for the user of a task about all, and for no role.
NoUser == "no user"
NoRole == "none"

ASSUME RoleSyncAssumption ==
    /\ Direct \subseteq Users \X Permissions /\ Defaults \subseteq Roles
    /\ NoUser \notin Users /\ NoRole \notin Roles /\ IsFiniteSet(Requests)
    /\ MaxQueue \in Nat /\ MaxRetries \in Nat /\ MaxMishaps \in Nat
    /\ MaxChanges \in Nat

VARIABLES
    users,       \* users[u]: whether the id u is a row of users
    roles,       \* roles[r]: the same for roles
    includes,    \* includes[r]: roles_permissions of r
    permissions, \* the same for permissions
    holds,       \* the rows <<user, role>> of user_roles
    grants,      \* the rows <<user, permission, role>> of user_permissions
    direct,      \* direct[d]: how many rows d has there with no from_role_id
    queue,       \* messages of Dramatiq
    worker,      \* worker[w]: the task that w is at
    request,     \* request[q]: how far the request q has come
    raced,       \* history: roles for which something came in between
    mishaps,     \* how many processes have died
    changes      \* how many requests there were

vars == <<users, roles, includes, permissions, holds, grants, direct,
          queue, worker, request, raced, mishaps, changes>>
tables == <<users, roles, includes, permissions, holds, grants, direct>>

Lives == {"unused", "live", "deleted"}
Live(table) == {x \in DOMAIN table : table[x] = "live"}
Idle == [step |-> "idle"]

(* The messages: on_user_role_created and on_user_role_deleted name a user,  *)
(* on_role_updated the permissions that were added and those deleted.        *)
Task == [task: {"created", "deleted"}, user: Users, role: Roles,
         added: {{}}, removed: {{}}, retries: 0 .. MaxRetries]
        \cup [task: {"updated"}, user: {NoUser}, role: Roles, added: SUBSET Permissions,
              removed: SUBSET Permissions, retries: 0 .. MaxRetries]

(* A worker at its task: found are the permissions, or the holders, that it  *)
(* has read, and todo the permissions it has still to revoke.                *)
Work == [step: {"read", "insert", "revoke", "ack"}, task: Task,
         found: (SUBSET Permissions) \cup (SUBSET Users), todo: SUBSET Permissions]

(* A request with tasks to send, one with the page of a role open, one that  *)
(* registers a user, and one that is about to insert a direct grant.         *)
Sending == [step: {"send"}, sends: Seq(Task)]
Editing == [step: {"edit"}, role: Roles, old: SUBSET Permissions]
Enlisting == [step: {"join", "fill"}, user: Users, role: Roles \cup {NoRole}, todo: SUBSET Roles,
              seen: [Roles -> SUBSET Permissions]]
Granting == [step: {"grant"}, direct: Users \X Permissions]

TypeOK ==
    /\ users \in [Users -> Lives] /\ roles \in [Roles -> Lives]
    /\ includes \in [Roles -> SUBSET Permissions]
    /\ permissions \in [Permissions -> Lives]
    /\ holds \subseteq {h \in Users \X Roles : users[h[1]] = "live" /\ roles[h[2]] = "live"}
    /\ grants \subseteq {g \in Users \X Permissions \X Roles :
                            /\ users[g[1]] = "live" /\ permissions[g[2]] = "live"
                            /\ roles[g[3]] = "live"}
    /\ \A r \in Roles : /\ includes[r] \subseteq Live(permissions)
                        /\ roles[r] # "live" => includes[r] = {}
    /\ direct \in [Direct -> 0 .. Cardinality(Requests)]
    /\ queue \in Seq(Task) /\ Len(queue) <= MaxQueue
    /\ worker \in [Workers -> Work \cup {Idle}]
    /\ request \in [Requests -> Sending \cup Editing \cup Enlisting \cup Granting \cup {Idle}]
    /\ raced \subseteq Roles
    /\ mishaps \in 0 .. MaxMishaps /\ changes \in 0 .. MaxChanges

\* Roles that were given to everyone some time ago, or to no one; nothing is to be done.
Init ==
    /\ users \in [Users -> {"unused", "live"}]
    /\ roles \in [Roles -> {"unused", "live"}]
    /\ permissions \in [Permissions -> {"unused", "live"}]
    /\ includes \in [Roles -> SUBSET Live(permissions)]
    /\ \A r \in Roles : roles[r] = "unused" => includes[r] = {}
    /\ holds \in {{}, Live(users) \X Live(roles)}
    /\ grants = {g \in Users \X Permissions \X Roles :
                     <<g[1], g[3]>> \in holds /\ g[2] \in includes[g[3]]}
    /\ direct = [d \in Direct |-> 0]
    /\ queue = <<>>
    /\ worker = [w \in Workers |-> Idle]
    /\ request = [q \in Requests |-> Idle]
    /\ raced = {}
    /\ mishaps = 0 /\ changes = 0

-----------------------------------------------------------------------------
(* What is under way.                                                        *)

Created(u, r) == [task |-> "created", user |-> u, role |-> r,
                  added |-> {}, removed |-> {}, retries |-> 0]
Deleted(u, r) == [task |-> "deleted", user |-> u, role |-> r,
                  added |-> {}, removed |-> {}, retries |-> 0]
BugUpdated(r, added, removed) ==
    [task |-> "updated", user |-> NoUser, role |-> r,
     added |-> removed, removed |-> added, retries |-> 0]
Updated(r, added, removed) ==
    [task |-> "updated", user |-> NoUser, role |-> r,
     added |-> added, removed |-> removed, retries |-> 0]

At(q, step) == request[q].step = step
Working(w, step) == worker[w].step = step

\* The tasks that are not yet done: to be sent, in the queue or at a worker.
Unfinished ==
    (UNION {{request[q].sends[i] : i \in DOMAIN request[q].sends} :
               q \in {x \in Requests : At(x, "send")}})
    \cup {queue[i] : i \in DOMAIN queue}
    \cup {worker[w].task : w \in {x \in Workers : worker[x] # Idle}}

Enlisted(q) == At(q, "join") \/ At(q, "fill")

\* Something that concerns the role r is under way, of the user u or of all.
Pending(r, who) ==
    \/ \E t \in Unfinished : t.role = r /\ (t.task = "updated" \/ t.user \in who)
    \/ \E q \in Requests : Enlisted(q) /\ r \in request[q].todo \cup {request[q].role}
                           /\ request[q].user \in who

Sends(q, tasks) == request' = [request EXCEPT ![q] = [step |-> "send", sends |-> tasks]]
Ends(q) == request' = [request EXCEPT ![q] = Idle]
Raced(rs) == raced' = raced \cup rs
Begins == changes < MaxChanges /\ changes' = changes + 1

-----------------------------------------------------------------------------
(* Who holds a role: the service, and the routes of the API and of the       *)
(* dashboard, which look the rows up first.                                  *)

\* UserRolesService.add_role
AddRole(q, u, r) ==
    /\ Begins /\ request[q] = Idle
    /\ <<u, r>> \notin holds
    /\ holds' = holds \cup {<<u, r>>}
    /\ Sends(q, <<Created(u, r)>>)
    /\ Raced(IF Pending(r, {u}) THEN {r} ELSE {})
    /\ UNCHANGED <<users, roles, includes, permissions, grants, direct, queue, worker, mishaps>>

\* UserRolesService.delete_role, which sends its task twice
DeleteRole(q, u, r) ==
    /\ Begins /\ request[q] = Idle
    /\ <<u, r>> \in holds
    /\ holds' = holds \ {<<u, r>>}
    /\ Sends(q, <<Deleted(u, r), Deleted(u, r)>>)
    /\ Raced(IF Pending(r, {u}) THEN {r} ELSE {})
    /\ UNCHANGED <<users, roles, includes, permissions, grants, direct, queue, worker, mishaps>>

CreateUserRole(q, u, r) == u \in Live(users) /\ r \in Live(roles) /\ AddRole(q, u, r)
DeleteUserRole(q, u, r) == u \in Live(users) /\ r \in Live(roles) /\ DeleteRole(q, u, r)
GiveOnDashboard(q, u, r) == u \in Live(users) /\ r \in Live(roles) /\ AddRole(q, u, r)
TakeOnDashboard(q, u, r) == u \in Live(users) /\ r \in Live(roles) /\ DeleteRole(q, u, r)

-----------------------------------------------------------------------------
(* What a role includes.                                                     *)

CreateRole(r, new) ==
    /\ Begins
    /\ roles[r] = "unused" /\ new \subseteq Live(permissions)
    /\ roles' = [roles EXCEPT ![r] = "live"]
    /\ includes' = [includes EXCEPT ![r] = new]
    /\ UNCHANGED <<users, permissions, holds, grants, direct, queue, worker, request, raced,
                   mishaps>>

CreateOnDashboard(r, new) == CreateRole(r, new)

\* The role is loaded with its permissions, and with them the form.
LoadRole(q, r) ==
    /\ Begins /\ request[q] = Idle
    /\ r \in Live(roles)
    /\ request' = [request EXCEPT ![q] = [step |-> "edit", role |-> r, old |-> includes[r]]]
    /\ UNCHANGED <<tables, queue, worker, raced, mishaps>>

(* The rows of the old permissions are deleted and those of the new inserted *)
(* in one transaction.  A row that is there already is a 503; whether the    *)
(* absence of one to delete is noticed depends on the driver.                *)
UpdateRole(q, new) ==
    /\ At(q, "edit")
    /\ LET r == request[q].role
           old == request[q].old
           rest == includes[r] \ old
       IN  /\ roles[r] = "live" /\ new \subseteq Live(permissions) /\ rest \cap new = {}
           /\ includes' = [includes EXCEPT ![r] = rest \cup new]
           /\ Sends(q, <<Updated(r, new \ old, old \ new)>>)
           /\ Raced(IF old # includes[r] \/ Pending(r, Users) THEN {r} ELSE {})
    /\ UNCHANGED <<users, roles, permissions, holds, grants, direct, queue, worker, mishaps,
                   changes>>

EditOnDashboard(q, new) == UpdateRole(q, new)

\* An unknown permission, a role that has gone, or a conflict: nothing is stored.
UpdateFails(q) ==
    /\ At(q, "edit") /\ Ends(q)
    /\ UNCHANGED <<tables, queue, worker, raced, mishaps, changes>>

\* The rows that refer to the role go with it.
RemoveRole(r) ==
    /\ Begins
    /\ r \in Live(roles)
    /\ roles' = [roles EXCEPT ![r] = "deleted"]
    /\ includes' = [includes EXCEPT ![r] = {}]
    /\ holds' = {h \in holds : h[2] # r}
    /\ grants' = {g \in grants : g[3] # r}
    /\ UNCHANGED <<users, permissions, direct, queue, worker, request, raced, mishaps>>

DeleteOnDashboard(r) == RemoveRole(r)

CreatePermission(p) ==
    /\ Begins
    /\ permissions[p] = "unused"
    /\ permissions' = [permissions EXCEPT ![p] = "live"]
    /\ UNCHANGED <<users, roles, includes, holds, grants, direct, queue, worker, request,
                   raced, mishaps>>

AddPermissionOnDashboard(p) == CreatePermission(p)

RemovePermission(p) ==
    /\ Begins
    /\ p \in Live(permissions)
    /\ permissions' = [permissions EXCEPT ![p] = "deleted"]
    /\ includes' = [r \in Roles |-> includes[r] \ {p}]
    /\ grants' = {g \in grants : g[2] # p}
    /\ direct' = [d \in Direct |-> IF d[2] = p THEN 0 ELSE direct[d]]
    /\ Raced({r \in Roles : Pending(r, Users)})
    /\ UNCHANGED <<users, roles, holds, queue, worker, request, mishaps>>

DeletePermissionOnDashboard(p) == RemovePermission(p)

-----------------------------------------------------------------------------
(* Users who come and go.                                                    *)

RemoveUser(u) ==
    /\ Begins
    /\ u \in Live(users)
    /\ users' = [users EXCEPT ![u] = "deleted"]
    /\ holds' = {h \in holds : h[1] # u}
    /\ grants' = {g \in grants : g[1] # u}
    /\ direct' = [d \in Direct |-> IF d[1] = u THEN 0 ELSE direct[d]]
    /\ Raced({r \in Roles : Pending(r, {})})
    /\ UNCHANGED <<roles, includes, permissions, queue, worker, request, mishaps>>

RemoveUserOnDashboard(u) == RemoveUser(u)

\* RoleRepository.get_granted_by_default
ByDefault == Defaults \cap Live(roles)

(* UserManager.create and UserRolesService.add_default_roles, whose grants   *)
(* are those of the roles as they were read.                                 *)
Register(q, u) ==
    /\ Begins
    /\ request[q] = Idle /\ users[u] = "unused"
    /\ users' = [users EXCEPT ![u] = "live"]
    /\ request' = [request EXCEPT ![q] =
           IF ByDefault = {} THEN Idle
           ELSE [step |-> "join", user |-> u, role |-> NoRole, todo |-> ByDefault,
                 seen |-> includes]]
    /\ Raced({r \in ByDefault : Pending(r, {u})})
    /\ UNCHANGED <<roles, includes, permissions, holds, grants, direct, queue, worker,
                   mishaps>>

Join(q, r) ==
    /\ At(q, "join") /\ r \in request[q].todo
    /\ LET u == request[q].user
       IN  /\ users[u] = "live" /\ roles[r] = "live" /\ <<u, r>> \notin holds
           /\ holds' = holds \cup {<<u, r>>}
    /\ request' = [request EXCEPT ![q].step = "fill", ![q].role = r, ![q].todo = @ \ {r}]
    /\ UNCHANGED <<users, roles, includes, permissions, grants, direct, queue, worker,
                   raced, mishaps, changes>>

-----------------------------------------------------------------------------
(* The rows.                                                                 *)

Rows(us, ps, r) == {<<u, p, r>> : u \in us, p \in ps}

\* One INSERT of rows: it refers to rows that exist, and repeats none.
Insertable(rows) ==
    /\ rows \cap grants = {}
    /\ \A g \in rows : users[g[1]] = "live" /\ g[2] \in Live(permissions) /\ roles[g[3]] = "live"

\* UserRolePermissionsService.add_role_permissions, in the request
Fill(q) ==
    /\ At(q, "fill")
    /\ LET r == request[q].role
           rows == Rows({request[q].user}, request[q].seen[r], r)
       IN  /\ Insertable(rows)
           /\ grants' = grants \cup rows
    /\ request' = [request EXCEPT ![q] =
           IF @.todo = {} THEN Idle ELSE [@ EXCEPT !.step = "join", !.role = NoRole]]
    /\ UNCHANGED <<users, roles, includes, permissions, holds, direct, queue, worker,
                   raced, mishaps, changes>>

\* A conflict, or a row that has gone: the registration ends with a 503.
EnlistFails(q) ==
    /\ \/ /\ At(q, "fill")
          /\ ~Insertable(Rows({request[q].user}, request[q].seen[request[q].role], request[q].role))
       \/ /\ At(q, "join")
          /\ \E r \in request[q].todo :
                \/ users[request[q].user] # "live" \/ roles[r] # "live"
                \/ <<request[q].user, r>> \in holds
    /\ Ends(q)
    /\ Raced(request[q].todo \cup ({request[q].role} \ {NoRole}))
    /\ UNCHANGED <<tables, queue, worker, mishaps, changes>>

\* create_user_permission looks for the row first; no constraint covers a NULL role.
LookDirect(q, d) ==
    /\ Begins
    /\ request[q] = Idle /\ d[1] \in Live(users) /\ d[2] \in Live(permissions) /\ direct[d] = 0
    /\ request' = [request EXCEPT ![q] = [step |-> "grant", direct |-> d]]
    /\ UNCHANGED <<tables, queue, worker, raced, mishaps>>

LookDirectOnDashboard(q, d) == LookDirect(q, d)

GrantDirect(q) ==
    /\ At(q, "grant") /\ Ends(q)
    /\ LET d == request[q].direct
       IN  direct' = IF users[d[1]] = "live" /\ d[2] \in Live(permissions)
                     THEN [direct EXCEPT ![d] = @ + 1] ELSE direct
    /\ UNCHANGED <<users, roles, includes, permissions, holds, grants, queue, worker,
                   raced, mishaps, changes>>

\* delete_user_permission: with two rows scalar_one_or_none raises, and none is deleted.
RevokeDirect(d) ==
    /\ Begins
    /\ direct[d] = 1
    /\ direct' = [direct EXCEPT ![d] = 0]
    /\ UNCHANGED <<users, roles, includes, permissions, holds, grants, queue, worker,
                   request, raced, mishaps>>

RevokeDirectOnDashboard(d) == RevokeDirect(d)

-----------------------------------------------------------------------------
(* The queue and the workers.                                                *)

Send(q) ==
    /\ At(q, "send") /\ Len(queue) < MaxQueue
    /\ queue' = Append(queue, Head(request[q].sends))
    /\ request' = [request EXCEPT ![q] =
           IF Len(@.sends) = 1 THEN Idle ELSE [@ EXCEPT !.sends = Tail(request[q].sends)]]
    /\ UNCHANGED <<tables, worker, raced, mishaps, changes>>

\* The process of the request dies: its changes stand, its tasks are lost.
DieSending(q) ==
    /\ At(q, "send") /\ mishaps < MaxMishaps
    /\ mishaps' = mishaps + 1
    /\ Raced({request[q].sends[i].role : i \in DOMAIN request[q].sends})
    /\ Ends(q)
    /\ UNCHANGED <<tables, queue, worker, changes>>

Take(w) ==
    /\ worker[w] = Idle /\ queue # <<>>
    /\ worker' = [worker EXCEPT ![w] =
           [step |-> "read", task |-> Head(queue), found |-> {}, todo |-> Head(queue).removed]]
    /\ queue' = Tail(queue)
    /\ UNCHANGED <<tables, request, raced, mishaps, changes>>

Goes(w, step) == worker' = [worker EXCEPT ![w].step = step]

\* The objects of the task, and what it needs to know of them.
Found(t) == roles[t.role] = "live" /\ t.user \in Live(users) \cup {NoUser}

Read(w) ==
    /\ Working(w, "read")
    /\ LET t == worker[w].task
       IN  /\ Found(t)
           /\ worker' = [worker EXCEPT
                  ![w].step = IF t.task = "deleted" THEN "revoke" ELSE "insert",
                  ![w].found = CASE t.task = "created" -> includes[t.role]
                                 [] t.task = "updated" -> {h[1] : h \in {x \in holds : x[2] = t.role}}
                                 [] t.task = "deleted" -> {}]
    /\ UNCHANGED <<tables, queue, request, raced, mishaps, changes>>

\* What create_many inserts: all of it or, after a conflict, nothing.
Batch(w) ==
    LET t == worker[w].task
    IN  IF t.task = "created" THEN Rows({t.user}, worker[w].found, t.role)
        ELSE Rows(worker[w].found, t.added, t.role)

Insert(w) ==
    /\ Working(w, "insert") /\ Insertable(Batch(w))
    /\ grants' = grants \cup Batch(w)
    /\ Goes(w, IF worker[w].task.task = "created" \/ worker[w].todo = {} THEN "ack" ELSE "revoke")
    /\ UNCHANGED <<users, roles, includes, permissions, holds, direct, queue, request,
                   raced, mishaps, changes>>

BugRevokeAll(w) ==
    /\ Working(w, "revoke") /\ worker[w].task.task = "deleted"
    /\ grants' = {g \in grants : g[1] # worker[w].task.user}
    /\ direct' = [d \in Direct |-> IF d[1] = worker[w].task.user THEN 0 ELSE direct[d]]
    /\ Goes(w, "ack")
    /\ UNCHANGED <<users, roles, includes, permissions, holds, queue, request, raced, mishaps,
                   changes>>
\* delete_by_user_and_role
RevokeAll(w) ==
    /\ Working(w, "revoke") /\ worker[w].task.task = "deleted"
    /\ grants' = {g \in grants : ~(g[1] = worker[w].task.user /\ g[3] = worker[w].task.role)}
    /\ Goes(w, "ack")
    /\ UNCHANGED <<users, roles, includes, permissions, holds, direct, queue, request,
                   raced, mishaps, changes>>

\* delete_by_permission_and_role, one commit for every permission
RevokeOne(w, p) ==
    /\ Working(w, "revoke") /\ worker[w].task.task = "updated" /\ p \in worker[w].todo
    /\ grants' = {g \in grants : ~(g[2] = p /\ g[3] = worker[w].task.role)}
    /\ worker' = [worker EXCEPT ![w].todo = @ \ {p},
                                ![w].step = IF worker[w].todo = {p} THEN "ack" ELSE "revoke"]
    /\ UNCHANGED <<users, roles, includes, permissions, holds, direct, queue, request,
                   raced, mishaps, changes>>

Ack(w) ==
    /\ Working(w, "ack")
    /\ worker' = [worker EXCEPT ![w] = Idle]
    /\ UNCHANGED <<tables, queue, request, raced, mishaps, changes>>

(* An exception: the task goes back to the queue for a later attempt, from   *)
(* its beginning, until its retries are used up.                             *)
Fails(w) ==
    \/ Working(w, "read") /\ ~Found(worker[w].task)
    \/ Working(w, "insert") /\ ~Insertable(Batch(w))

Retry(w) ==
    /\ Fails(w) /\ worker[w].task.retries < MaxRetries /\ Len(queue) < MaxQueue
    /\ queue' = Append(queue, [worker[w].task EXCEPT !.retries = @ + 1])
    /\ worker' = [worker EXCEPT ![w] = Idle]
    /\ UNCHANGED <<tables, request, raced, mishaps, changes>>

GiveUp(w) ==
    /\ Fails(w) /\ worker[w].task.retries = MaxRetries
    /\ worker' = [worker EXCEPT ![w] = Idle]
    /\ UNCHANGED <<tables, queue, request, raced, mishaps, changes>>

(* The worker dies: the message was not acknowledged and is delivered again. *)
(* The rows of on_role_updated that are in make its second attempt fail.     *)
DieWorking(w) ==
    /\ worker[w] # Idle /\ mishaps < MaxMishaps /\ Len(queue) < MaxQueue
    /\ mishaps' = mishaps + 1
    /\ queue' = Append(queue, worker[w].task)
    /\ worker' = [worker EXCEPT ![w] = Idle]
    /\ Raced(IF Working(w, "revoke") /\ worker[w].task.added # {}
             THEN {worker[w].task.role} ELSE {})
    /\ UNCHANGED <<tables, request, changes>>

-----------------------------------------------------------------------------
Administer ==
    \/ \E q \in Requests, u \in Users, r \in Roles :
          \/ CreateUserRole(q, u, r) \/ GiveOnDashboard(q, u, r)
          \/ DeleteUserRole(q, u, r) \/ TakeOnDashboard(q, u, r)
    \/ \E r \in Roles, new \in SUBSET Permissions : CreateRole(r, new) \/ CreateOnDashboard(r, new)
    \/ \E q \in Requests, r \in Roles : LoadRole(q, r) \/ Join(q, r)
    \/ \E q \in Requests, new \in SUBSET Permissions : UpdateRole(q, new) \/ EditOnDashboard(q, new)
    \/ \E q \in Requests : UpdateFails(q) \/ Fill(q) \/ EnlistFails(q)
    \/ \E q \in Requests, u \in Users : Register(q, u)
    \/ \E r \in Roles : RemoveRole(r) \/ DeleteOnDashboard(r)
    \/ \E p \in Permissions :
          \/ CreatePermission(p) \/ AddPermissionOnDashboard(p)
          \/ RemovePermission(p) \/ DeletePermissionOnDashboard(p)
    \/ \E u \in Users : RemoveUser(u) \/ RemoveUserOnDashboard(u)

AdministerDirect ==
    \/ \E q \in Requests, d \in Direct : LookDirect(q, d) \/ LookDirectOnDashboard(q, d)
    \/ \E q \in Requests : GrantDirect(q)
    \/ \E d \in Direct : RevokeDirect(d) \/ RevokeDirectOnDashboard(d)

Perform(w) ==
    \/ Take(w) \/ Read(w) \/ Insert(w) \/ RevokeAll(w)
    \/ \E p \in Permissions : RevokeOne(w, p)
    \/ Ack(w) \/ Retry(w) \/ GiveUp(w)

Next ==
    \/ Administer \/ AdministerDirect
    \/ \E q \in Requests : Send(q) \/ DieSending(q)
    \/ \E w \in Workers : Perform(w) \/ DieWorking(w)

Spec == Init /\ [][Next]_vars

-----------------------------------------------------------------------------
(* Properties.                                                               *)

Granted(u, r) == {g[2] : g \in {x \in grants : x[1] = u /\ x[3] = r}}
Entitled(u, r) == IF <<u, r>> \in holds THEN includes[r] ELSE {}

(* When no change of a role, or of who holds it, met a task of the same role *)
(* that was not done yet, every user ends up with just the permissions of    *)
(* the roles she holds, whatever the other roles went through.               *)
RolesSettle ==
    \A r \in Live(roles) \ raced :
        ~Pending(r, Users) => \A u \in Live(users) : Granted(u, r) = Entitled(u, r)

(* The workers keep to their role: no task changes what a user has from      *)
(* another role, and a grant that names no role outlives every change of     *)
(* the roles.                                                                *)
TasksKeepToTheirRole ==
    [][\A w \in Workers : worker[w] # Idle /\ worker'[w] # worker[w] =>
          /\ {g \in grants : g[3] # worker[w].task.role}
                = {g \in grants' : g[3] # worker[w].task.role}
          /\ direct' = direct]_vars
=============================================================================
