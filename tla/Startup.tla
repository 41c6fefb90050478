------------------------------ MODULE Startup -------------------------------
(* What a server does before it serves (cli/admin.py, run_server): the       *)
(* initializer looks for the default tenant, its client, the admin role, the *)
(* default theme and the e-mail templates, and creates what is missing; then *)
(* the main user and the main API key are created.  Several servers may      *)
(* start at once, on an empty database or on one in use, and each may die    *)
(* between two commits.                                                      *)
(*                                                                           *)
(* An actor holds a plan: the commits it still has to make, drawn up from    *)
(* what it has read.  The reads that come between two commits are one step:  *)
(* what goes stale after it meets the constraints at the commit.             *)
EXTENDS Schema, Sequences

CONSTANTS
    Actors,         \* server processes and requests under way
    TemplateTypes,  \* the types of e-mail templates
    MaxRows,        \* how many rows with an id of their own each table ever gets
    MaxStarts,      \* how many starts there are
    MaxDeaths       \* how many commands or requests are broken off

VARIABLES
    db,          \* the rows of each table
    issued,      \* how many ids each table has given out, as far as it is bounded
    work,        \* what each actor is at, and the commits it has planned
    starts,      \* how many starts there have been
    deaths,      \* how many commands or requests have been broken off
    calm,        \* the starts with nobody else between commits, before or during
    torn,        \* what a command has left half made, or an administrator has
                 \* taken away, and no start makes whole: "role", "admin"
    overlapped   \* two plans for the default theme have been under way at once

vars == <<db, issued, work, starts, deaths, calm, torn, overlapped>>

Idle == [stage |-> "idle", plan |-> <<>>, row |-> NULL]

Init ==
    /\ db = [table \in Tables |-> {}]
    /\ issued = [table \in DOMAIN MaxRows |-> 0]
    /\ work = [a \in Actors |-> Idle]
    /\ starts = 0
    /\ deaths = 0
    /\ calm = {}
    /\ torn = {}
    /\ overlapped = FALSE

-----------------------------------------------------------------------------
(* Finding rows.                                                             *)
Main == 0  \* the client id, the address and the API key that the settings name
Where(table, column, value) == {row \in db[table] : row[column] = value}
DefaultTenants == Where("tenants", "default", TRUE)
DefaultThemes == Where("themes", "default", TRUE)
MainClients == Where("clients", "client_id", Main)
AdminPermissions == Where("permissions", "codename", "fief_admin")  \* fief:admin
AdminRoles == Where("roles", "name", "Administrator")
Only(rows) == CHOOSE row \in rows : TRUE

\* get_available_slug: the name as a slug, or with a random end if it is taken.
AvailableSlug(name) ==
    IF Where("tenants", "slug", <<name>>) = {} THEN <<name>>
    ELSE <<name, issued["tenants"] + 1>>

-----------------------------------------------------------------------------
(* Plans.                                                                    *)
NextId(table) == issued[table] + 1
MayIssue(table) == issued[table] < MaxRows[table]
Issue(tables) ==
    issued' = [t \in DOMAIN MaxRows |-> IF t \in tables THEN issued[t] + 1 ELSE issued[t]]

\* Is this plan, or what is left of it, about which theme is the default?
TouchesDefault(plan) ==
    \E i \in DOMAIN plan :
        \/ \E new \in plan[i].insert : new[1] = "themes" /\ new[2].default
        \/ \E u \in plan[i].update : u.table = "themes" /\ "default" \in DOMAIN u.columns

\* The actor reaches a stage with a plan of commits, maybe none, and the id
\* of the row that it goes on with.
ProceedWith(a, stage, plan, row) ==
    /\ work' = [work EXCEPT ![a] = [stage |-> stage, plan |-> plan, row |-> row]]
    /\ overlapped' =
        (overlapped \/ (/\ TouchesDefault(plan)
                        /\ \E b \in Actors \ {a} : TouchesDefault(work[b].plan)))

Proceed(a, stage, plan) == ProceedWith(a, stage, plan, NULL)

\* A request that has nothing left to commit has been answered.
Free(a) == work[a].stage \in {"idle", "up"} /\ work[a].plan = <<>>
Done(task) == IF task.stage = "request" /\ task.plan = <<>> THEN Idle ELSE task

Ready(a, stage) == work[a].stage = stage /\ work[a].plan = <<>>

RoleStages == {"role", "adminRole", "grantRole"}

\* An actor that gives up: its session is rolled back, its commits stay.
HalfMade(a) ==
    LET task == work[a]
    IN  CASE task.stage \in RoleStages /\ Len(task.plan) = 1 -> {"role"}
          [] task.stage = "user" /\ task.plan = <<>> -> {"admin"}
          [] task.stage = "granted" /\ task.plan # <<>> -> {"admin"}
          [] OTHER -> {}
GiveUp(a) ==
    /\ work' = [work EXCEPT ![a] = Idle]
    /\ torn' = torn \cup HalfMade(a)
    /\ calm' = calm \ {a}

Die(a) ==
    /\ deaths < MaxDeaths
    /\ ~Free(a)
    /\ GiveUp(a)
    /\ deaths' = deaths + 1
    /\ UNCHANGED <<db, issued, starts, overlapped>>

\* Where a deletion takes away what no start puts back: the role, with which
\* what it gave goes too, the permission, or what users hold of it.
Needs == [role |-> {"roles"}, admin |-> {"permissions", "user_permissions"}]
Loses(write) ==
    {part \in DOMAIN Needs : \E gone \in write.delete : gone[1] \in Needs[part]}

\* One commit of the plan, or the error that ends the command or request.
Commit(a) ==
    /\ work[a].plan # <<>>
    /\ LET write == Head(work[a].plan) IN
        IF Accepts(db, write)
        THEN /\ db' = After(db, write)
             /\ work' = [work EXCEPT ![a] = Done([work[a] EXCEPT !.plan = Tail(@)])]
             /\ calm' = calm \cap {a}
             /\ torn' = torn \cup Loses(write)
        ELSE GiveUp(a) /\ UNCHANGED db
    /\ UNCHANGED <<issued, starts, deaths, overlapped>>

\* A look-up that expects one row at most fails on two of them; create_admin
\* also fails where there is no default tenant.
FindsTwo(rows) == \E one, other \in rows : one # other
Misled(a) ==
    \/ Ready(a, "start") /\ FindsTwo(DefaultTenants)
    \/ Ready(a, "tenant") /\ FindsTwo(MainClients)
    \/ Ready(a, "role") /\ FindsTwo(DefaultThemes)
    \/ Ready(a, "adminRole") /\ Cardinality(DefaultTenants) # 1
    \/ Ready(a, "user") /\ FindsTwo(AdminRoles)
Stumble(a) ==
    /\ TRUE \in {Misled(a)}
    /\ GiveUp(a)
    /\ UNCHANGED <<db, issued, starts, deaths, overlapped>>
Reads == UNCHANGED <<db, starts, deaths, calm, torn>>

-----------------------------------------------------------------------------
(* init_all.                                                                 *)
BeginStart(a) ==
    /\ Free(a)
    /\ starts < MaxStarts
    /\ starts' = starts + 1
    /\ calm' = IF \A b \in Actors \ {a} : Free(b) THEN calm \cup {a} ELSE calm \ {a}
    /\ Proceed(a, "start", <<>>)
    /\ UNCHANGED <<db, issued, deaths, torn>>

\* Mutant: the client is seen to only where the tenant has just been created.
BugInitDefaultTenant(a) ==
    /\ Ready(a, "start")
    /\ ~FindsTwo(DefaultTenants)
    /\ IF DefaultTenants # {}
       THEN /\ Proceed(a, "client", <<>>)
            /\ UNCHANGED issued
       ELSE /\ MayIssue("tenants")
            /\ Issue({"tenants"})
            /\ ProceedWith(a, "tenant", <<Insert({<<"tenants",
                [id |-> NextId("tenants"), slug |-> AvailableSlug("default"),
                 default |-> TRUE, theme_id |-> NULL, email_domain_id |-> NULL]>>})>>,
                NextId("tenants"))
    /\ Reads

InitDefaultTenant(a) ==
    /\ Ready(a, "start")
    /\ ~FindsTwo(DefaultTenants)
    /\ IF DefaultTenants # {}
       THEN /\ ProceedWith(a, "tenant", <<>>, Only(DefaultTenants).id)
            /\ UNCHANGED issued
       ELSE /\ MayIssue("tenants")
            /\ Issue({"tenants"})
            /\ ProceedWith(a, "tenant", <<Insert({<<"tenants",
                [id |-> NextId("tenants"), slug |-> AvailableSlug("default"),
                 default |-> TRUE, theme_id |-> NULL, email_domain_id |-> NULL]>>})>>,
                NextId("tenants"))
    /\ Reads

\* The client's tenant is the one found or created just before; a client that
\* is there already only gets the redirect URIs it lacks.
InitDefaultClient(a) ==
    /\ Ready(a, "tenant")
    /\ ~FindsTwo(MainClients)
    /\ IF MainClients # {}
       THEN /\ Proceed(a, "client", <<Update("clients", Only(MainClients).id, Others)>>)
            /\ UNCHANGED issued
       ELSE /\ MayIssue("clients")
            /\ Issue({"clients"})
            /\ Proceed(a, "client", <<Insert({<<"clients",
                [id |-> NextId("clients"), client_id |-> Main,
                 tenant_id |-> work[a].row]>>})>>)
    /\ Reads

\* The role is created only where the permission is missing, in a commit of
\* its own after the permission's.
AdminRolePlan ==
    LET permission == NextId("permissions")
        role == NextId("roles")
    IN  <<Insert({<<"permissions", [id |-> permission, codename |-> "fief_admin"]>>}),
          Insert({<<"roles", [id |-> role, name |-> "Administrator"]>>,
                  <<"roles_permissions",
                    [id |-> <<role, permission>>, role_id |-> role,
                     permission_id |-> permission]>>})>>
InitAdminRole(a, before, stage) ==
    /\ Ready(a, before)
    /\ IF AdminPermissions # {}
       THEN Proceed(a, stage, <<>>) /\ UNCHANGED issued
       ELSE /\ MayIssue("permissions") /\ MayIssue("roles")
            /\ Issue({"permissions", "roles"})
            /\ Proceed(a, stage, AdminRolePlan)
    /\ Reads

InitDefaultTheme(a) ==
    /\ Ready(a, "role")
    /\ ~FindsTwo(DefaultThemes)
    /\ IF DefaultThemes # {}
       THEN Proceed(a, "theme", <<>>) /\ UNCHANGED issued
       ELSE /\ MayIssue("themes")
            /\ Issue({"themes"})
            /\ Proceed(a, "theme",
                <<Insert({<<"themes", [id |-> NextId("themes"), default |-> TRUE]>>})>>)
    /\ Reads

\* init_templates: a look-up and a commit for each type; the order of the
\* types does not matter.
InitTemplate(a) ==
    /\ Ready(a, "theme")
    /\ \E type \in TemplateTypes \ {row.type : row \in db["email_templates"]} :
        Proceed(a, "theme", <<Insert({<<"email_templates",
            [id |-> type, type |-> type]>>})>>)
    /\ UNCHANGED issued
    /\ Reads
TemplatesReady(a) ==
    /\ Ready(a, "theme")
    /\ TemplateTypes \subseteq {row.type : row \in db["email_templates"]}
    /\ Proceed(a, "templates", <<>>)
    /\ UNCHANGED issued
    /\ Reads

InitAll(a) ==
    \/ InitDefaultTenant(a)
    \/ InitDefaultClient(a)
    \/ InitAdminRole(a, "client", "role")
    \/ InitDefaultTheme(a)
    \/ InitTemplate(a)
    \/ TemplatesReady(a)
    \/ Stumble(a)

-----------------------------------------------------------------------------
(* create_admin, grant_admin_role and create_admin_api_key.                  *)
MainUsers ==
    {row \in db["users"] :
        row.email = Main /\ \E t \in DefaultTenants : row.tenant_id = t.id}

\* A main user who is there is left as it is: "Admin already exists".
CreateAdmin(a) ==
    /\ Ready(a, "adminRole")
    /\ Cardinality(DefaultTenants) = 1
    /\ IF MainUsers # {}
       THEN Proceed(a, "granted", <<>>) /\ UNCHANGED issued
       ELSE /\ MayIssue("users")
            /\ Issue({"users"})
            /\ ProceedWith(a, "user", <<Insert({<<"users",
                [id |-> NextId("users"), email |-> Main,
                 tenant_id |-> Only(DefaultTenants).id]>>})>>, NextId("users"))
    /\ Reads

\* add_role with run_in_worker=False: the role, then its permissions.
GrantPlan(user, role) ==
    <<Insert({<<"user_roles", [id |-> <<user, role>>, user_id |-> user,
                               role_id |-> role]>>}),
      Insert({<<"user_permissions",
                [id |-> <<user, link.permission_id, role>>, user_id |-> user,
                 permission_id |-> link.permission_id, from_role_id |-> role]>> :
                link \in {link \in db["roles_permissions"] : link.role_id = role}})>>
Has(user, role) == \E row \in db["user_roles"] : row.user_id = user /\ row.role_id = role

\* After its own commit create_admin goes on with the user it has created,
\* and grants nothing where there is no role yet.
GrantToNew(a) ==
    /\ Ready(a, "user")
    /\ ~FindsTwo(AdminRoles)
    /\ IF AdminRoles = {}
       THEN /\ Proceed(a, "granted", <<>>)
            /\ torn' = torn \cup {"admin"}
       ELSE /\ Proceed(a, "granted", GrantPlan(work[a].row, Only(AdminRoles).id))
            /\ torn' = torn
    /\ UNCHANGED <<db, issued, starts, deaths, calm>>

CreateKey(a) ==
    /\ Ready(a, "granted")
    /\ Proceed(a, "up",
        IF Where("admin_api_key", "token", Main) # {} THEN <<>>
        ELSE <<Insert({<<"admin_api_key", [id |-> Main, token |-> Main]>>})>>)
    /\ UNCHANGED issued
    /\ Reads

\* grant-admin-role, a command of its own for a user who is there already.
BeginGrant(a) ==
    /\ Free(a)
    /\ starts < MaxStarts
    /\ starts' = starts + 1
    /\ Proceed(a, "grant", <<>>)
    /\ calm' = calm \ {a}
    /\ UNCHANGED <<db, issued, deaths, torn>>
GrantAdminRole(a) ==
    /\ Ready(a, "grantRole")
    /\ IF \/ Cardinality(DefaultTenants) # 1 \/ MainUsers = {} \/ AdminRoles = {}
          \/ FindsTwo(AdminRoles) \/ Has(Only(MainUsers).id, Only(AdminRoles).id)
       THEN Proceed(a, "idle", <<>>)
       ELSE Proceed(a, "request", GrantPlan(Only(MainUsers).id, Only(AdminRoles).id))
    /\ UNCHANGED issued
    /\ Reads

RunServer(a) ==
    \/ BeginStart(a)
    \/ InitAll(a)
    \/ InitAdminRole(a, "templates", "adminRole")
    \/ CreateAdmin(a)
    \/ GrantToNew(a)
    \/ CreateKey(a)

Commands(a) ==
    \/ RunServer(a)
    \/ BeginGrant(a)
    \/ InitAdminRole(a, "grant", "grantRole")
    \/ GrantAdminRole(a)
    \/ Commit(a)
    \/ Die(a)
=============================================================================
