--------------------------- MODULE Administration ---------------------------
(* The administrators' routes on tenants, clients, themes, OAuth providers,  *)
(* user fields, e-mail templates and API keys, and those that delete users,  *)
(* roles, permissions and the roles of users, through the dashboard or the   *)
(* API, together with the servers that start meanwhile (Startup).  A route   *)
(* reads what it needs and draws up its plan of commits; other requests and  *)
(* starts may commit before and between them.  The routes that create and    *)
(* change users, roles and permissions are in Accounts and RoleSync, those   *)
(* on webhooks in Webhooks: here nobody renames the admin role or its        *)
(* permission, or gives and takes the permission otherwise than by the role. *)
EXTENDS Startup

CONSTANTS
    TenantNames,   \* the names that administrators give to tenants
    FieldSlugs,    \* the slugs that administrators give to user fields
    Domains,       \* the domains of the addresses that tenants send from
    MaxRequests    \* how many requests administrators make

\* The tables that the starts and the routes write, and those of them whose rows
\* get a number for an id.
RouteTables ==
    {"tenants", "clients", "themes", "oauth_providers", "tenants_oauth_providers",
     "email_domains", "email_templates", "user_fields", "users", "permissions",
     "roles", "roles_permissions", "user_roles", "user_permissions", "admin_api_key"}
NumberedTables ==
    {"tenants", "clients", "themes", "users", "oauth_providers", "user_fields",
     "permissions", "roles", "admin_api_key"}

ASSUME RoutesAssumption ==
    /\ RouteTables \subseteq Tables
    /\ MaxRows \in [NumberedTables -> Nat]
    /\ NULL \notin Nat

VARIABLE requests  \* how many requests there have been

allVars == <<vars, requests>>

AllInit == Init /\ requests = 0

-----------------------------------------------------------------------------
(* Who may ask.  A dashboard session counts for as long as its user exists   *)
(* and holds the admin permission, an API key for as long as it exists.      *)
MayUseDashboard ==
    \E held \in db["user_permissions"] :
        \E permission \in AdminPermissions : held.permission_id = permission.id
MayUseApi == db["admin_api_key"] # {}
MayAsk == TRUE \in {MayUseDashboard, MayUseApi}

\* A request with its plan.  One that is rejected plans nothing and is left out.
Request(a, plan) ==
    /\ Free(a)
    /\ requests < MaxRequests
    /\ requests' = requests + 1
    /\ Proceed(a, "request", plan)
    /\ UNCHANGED <<db, starts, deaths, calm, torn>>

-----------------------------------------------------------------------------
(* Tenants and clients.                                                      *)
Links(tenant, providers) ==
    {<<"tenants_oauth_providers",
       [id |-> <<tenant, p>>, tenant_id |-> tenant, oauth_provider_id |-> p]>> :
        p \in providers}
NewClient(tenant) ==
    <<"clients", [id |-> NextId("clients"), client_id |-> NextId("clients"),
                  tenant_id |-> tenant]>>
ThemeChoices == Ids(db, "themes") \cup {NULL}

\* The theme and the providers must exist; the tenant and, in a commit of its
\* own, its first client are created.
CreateTenant(a) ==
    /\ MayIssue("tenants") /\ MayIssue("clients")
    /\ Issue({"tenants", "clients"})
    /\ \E name \in TenantNames, theme \in ThemeChoices,
          providers \in SUBSET Ids(db, "oauth_providers") :
        LET tenant == NextId("tenants")
        IN  Request(a,
              <<Insert({<<"tenants", [id |-> tenant, slug |-> AvailableSlug(name),
                          default |-> FALSE, theme_id |-> theme,
                          email_domain_id |-> NULL]>>} \cup Links(tenant, providers)),
                Insert({NewClient(tenant)})>>)

\* The list of providers is replaced as a whole; the name does not change the slug.
UpdateTenant(a) ==
    /\ UNCHANGED issued
    /\ \E tenant \in Ids(db, "tenants"), theme \in ThemeChoices,
          providers \in SUBSET Ids(db, "oauth_providers") :
        LET linked == {link.oauth_provider_id :
                        link \in Where("tenants_oauth_providers", "tenant_id", tenant)}
        IN  Request(a, <<[Update("tenants", tenant, [theme_id |-> theme]) EXCEPT
                !.unlink = {<<"tenants_oauth_providers", <<tenant, p>>>> :
                                p \in linked \ providers},
                !.insert = Links(tenant, providers \ linked)]>>)

\* No tenant is spared, the default one neither.
DeleteTenant(a) ==
    /\ UNCHANGED issued
    /\ \E tenant \in Ids(db, "tenants") : Request(a, <<Delete("tenants", tenant)>>)

\* authenticate_domain: the domain of the new address is looked up or created,
\* and stored with the tenant in one commit.
SetTenantEmail(a) ==
    /\ UNCHANGED issued
    /\ \E tenant \in Ids(db, "tenants"), domain \in Domains :
        Request(a, <<[Update("tenants", tenant, [email_domain_id |-> domain]) EXCEPT
            !.insert = IF domain \in Ids(db, "email_domains") THEN {}
                       ELSE {<<"email_domains", [id |-> domain, domain |-> domain]>>}]>>)

\* verify_domain: the records of the tenant's domain are stored anew.
VerifyDomain(a) ==
    /\ UNCHANGED issued
    /\ \E tenant \in db["tenants"] :
        /\ tenant.email_domain_id # NULL
        /\ Request(a, <<Update("email_domains", tenant.email_domain_id, Others)>>)

CreateClient(a) ==
    /\ MayIssue("clients")
    /\ Issue({"clients"})
    /\ \E tenant \in Ids(db, "tenants") : Request(a, <<Insert({NewClient(tenant)})>>)

\* The form, the lifetimes and a new encryption key.
UpdateClient(a) ==
    /\ UNCHANGED issued
    /\ \E client \in Ids(db, "clients") :
        Request(a, <<Update("clients", client, Others)>>)

DeleteClient(a) ==
    /\ UNCHANGED issued
    /\ \E client \in Ids(db, "clients") : Request(a, <<Delete("clients", client)>>)

\* What the API and the dashboard offer alike, and what only the dashboard does.
TenantRoutes(a) == MayAsk /\ (CreateTenant(a) \/ UpdateTenant(a) \/ DeleteTenant(a))
TenantEmailRoutes(a) == MayUseDashboard /\ (SetTenantEmail(a) \/ VerifyDomain(a))
ClientRoutes(a) == MayAsk /\ (CreateClient(a) \/ UpdateClient(a) \/ DeleteClient(a))

-----------------------------------------------------------------------------
(* Themes.                                                                   *)
CreateTheme(a) ==
    /\ MayIssue("themes")
    /\ Issue({"themes"})
    /\ Request(a, <<Insert({<<"themes", [id |-> NextId("themes"), default |-> FALSE]>>})>>)

UpdateTheme(a) ==
    /\ UNCHANGED issued
    /\ \E theme \in Ids(db, "themes") : Request(a, <<Update("themes", theme, Others)>>)

\* Mutant: the new default is set before the old one is unset.
BugSetDefaultTheme(a) ==
    /\ UNCHANGED issued
    /\ Cardinality(DefaultThemes) = 1
    /\ \E theme \in Ids(db, "themes") \ {Only(DefaultThemes).id} :
        Request(a, <<Update("themes", theme, [default |-> TRUE]),
                     Update("themes", Only(DefaultThemes).id, [default |-> FALSE])>>)

\* The old default is unset and then the new one set, in two commits; where
\* there is no default nothing is done.
SetDefaultTheme(a) ==
    /\ UNCHANGED issued
    /\ Cardinality(DefaultThemes) = 1
    /\ \E theme \in Ids(db, "themes") \ {Only(DefaultThemes).id} :
        Request(a, <<Update("themes", Only(DefaultThemes).id, [default |-> FALSE]),
                     Update("themes", theme, [default |-> TRUE])>>)

ThemeRoutes(a) ==
    MayUseDashboard /\ (CreateTheme(a) \/ UpdateTheme(a) \/ SetDefaultTheme(a))

-----------------------------------------------------------------------------
(* OAuth providers, user fields, e-mail templates and API keys.              *)
CreateProvider(a) ==
    /\ MayIssue("oauth_providers")
    /\ Issue({"oauth_providers"})
    /\ Request(a, <<Insert({<<"oauth_providers", [id |-> NextId("oauth_providers")]>>})>>)
DeleteProvider(a) ==
    /\ UNCHANGED issued
    /\ \E p \in Ids(db, "oauth_providers") : Request(a, <<Delete("oauth_providers", p)>>)
UpdateProvider(a) ==
    /\ UNCHANGED issued
    /\ \E p \in Ids(db, "oauth_providers") :
        Request(a, <<Update("oauth_providers", p, Others)>>)
ProviderRoutes(a) ==
    MayAsk /\ (CreateProvider(a) \/ UpdateProvider(a) \/ DeleteProvider(a))

\* The slug is looked up before it is inserted or changed.
FreeSlugs == {slug \in FieldSlugs : Where("user_fields", "slug", slug) = {}}
CreateField(a) ==
    /\ MayIssue("user_fields")
    /\ Issue({"user_fields"})
    /\ \E slug \in FreeSlugs :
        Request(a, <<Insert({<<"user_fields",
                        [id |-> NextId("user_fields"), slug |-> slug]>>})>>)
UpdateField(a) ==
    /\ UNCHANGED issued
    /\ \E field \in db["user_fields"] : \E slug \in FreeSlugs \cup {field.slug} :
        Request(a, <<Update("user_fields", field.id, [slug |-> slug])>>)
DeleteField(a) ==
    /\ UNCHANGED issued
    /\ \E field \in Ids(db, "user_fields") : Request(a, <<Delete("user_fields", field)>>)
FieldRoutes(a) == MayAsk /\ (CreateField(a) \/ UpdateField(a) \/ DeleteField(a))

UpdateTemplate(a) ==
    /\ UNCHANGED issued
    /\ \E type \in Ids(db, "email_templates") :
        Request(a, <<Update("email_templates", type, Others)>>)
TemplateRoutes(a) == MayAsk /\ UpdateTemplate(a)

CreateApiKey(a) ==
    /\ MayIssue("admin_api_key")
    /\ Issue({"admin_api_key"})
    /\ Request(a, <<Insert({<<"admin_api_key", [id |-> NextId("admin_api_key"),
                              token |-> NextId("admin_api_key")]>>})>>)
DeleteApiKey(a) ==
    /\ UNCHANGED issued
    /\ \E key \in Ids(db, "admin_api_key") : Request(a, <<Delete("admin_api_key", key)>>)
ApiKeyRoutes(a) == MayUseDashboard /\ (CreateApiKey(a) \/ DeleteApiKey(a))

-----------------------------------------------------------------------------
(* Users, their roles, roles and permissions, as far as they are deleted:    *)
(* nobody's own user or role is spared, nor those of the main user.          *)
DeleteUser(a) == \E user \in Ids(db, "users") : Request(a, <<Delete("users", user)>>)
DeleteRole(a) == \E role \in Ids(db, "roles") : Request(a, <<Delete("roles", role)>>)
DeletePermission(a) ==
    \E permission \in Ids(db, "permissions") :
        Request(a, <<Delete("permissions", permission)>>)

\* delete_by_user_and_role: whichever permissions the role has given the user.
Revoked(user, role) ==
    {<<"user_permissions", <<user, p, role>>>> : p \in 1 .. MaxRows["permissions"]}

\* The role of the user, and then, in the worker, what it has given the user.
DeleteUserRole(a) ==
    \E held \in db["user_roles"] :
        Request(a, <<Delete("user_roles", held.id),
                     [NoChange EXCEPT !.delete = Revoked(held.user_id, held.role_id)]>>)

RightsRoutes(a) ==
    /\ MayAsk
    /\ UNCHANGED issued
    /\ DeleteUser(a) \/ DeleteRole(a) \/ DeletePermission(a) \/ DeleteUserRole(a)

-----------------------------------------------------------------------------
Administrate(a) ==
    \/ TenantRoutes(a) \/ TenantEmailRoutes(a) \/ ClientRoutes(a) \/ ThemeRoutes(a)
    \/ ProviderRoutes(a) \/ FieldRoutes(a) \/ TemplateRoutes(a) \/ ApiKeyRoutes(a)
    \/ RightsRoutes(a)

AllNext == \E a \in Actors : Administrate(a) \/ (Commands(a) /\ UNCHANGED requests)

Spec == AllInit /\ [][AllNext]_allVars

-----------------------------------------------------------------------------
(* Properties.                                                               *)
Belongs(table, column, owners) ==
    \A row \in db[table] : row[column] \in Ids(db, owners)
Points(table, column, others) ==
    \A row \in db[table] : row[column] \in Ids(db, others) \cup {NULL}

\* What is deleted takes along what belongs to it, however far, and is
\* forgotten where it was only chosen: no client or user without its tenant, no
\* right without its user, no tenant with a theme that is gone, also when the
\* row was read, and the reference written, while its target was being deleted.
RowsBelong ==
    /\ Belongs("clients", "tenant_id", "tenants")
    /\ Belongs("users", "tenant_id", "tenants")
    /\ Belongs("tenants_oauth_providers", "tenant_id", "tenants")
    /\ Belongs("tenants_oauth_providers", "oauth_provider_id", "oauth_providers")
    /\ Belongs("user_roles", "user_id", "users")
    /\ Belongs("user_permissions", "user_id", "users")
    /\ Points("tenants", "theme_id", "themes")
    /\ Points("tenants", "email_domain_id", "email_domains")

\* A server that has started finds everything in place, whatever earlier
\* starts have left half made and whatever administrators have deleted, unless
\* someone else committed during the start: the default tenant with the main
\* client, the default theme, the templates and the main API key.  The role and
\* the main user's grant are the exceptions.  No start repairs them once a
\* command has died, or failed, between their commits, and none puts back what
\* an administrator has deleted of them: the role, which comes only with a new
\* permission, or the permission that a user of old held, who gets no new one.
\* A main user who is deleted comes back with the grant.
StartsRepair ==
    \A a \in calm : Ready(a, "up") =>
        /\ \E tenant \in DefaultTenants : \E client \in MainClients :
            client.tenant_id = tenant.id
        /\ DefaultThemes # {}
        /\ TemplateTypes \subseteq Ids(db, "email_templates")
        /\ MayUseApi
        /\ "role" \notin torn => AdminRoles # {}
        /\ torn = {} => MayUseDashboard

\* There are never two default themes, over which every page and every later
\* start would stumble, unless two plans for the default were under way at
\* once: a request that dies half way leaves none, and the next start one.
OneDefaultTheme == ~overlapped => Cardinality(DefaultThemes) <= 1

=============================================================================
