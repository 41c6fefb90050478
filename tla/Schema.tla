------------------------------- MODULE Schema -------------------------------
(* The tables that the migrations create, as far as rows depend on one       *)
(* another: the foreign keys of each table with what happens to a row whose  *)
(* target is deleted, the columns that must differ between rows, and what    *)
(* the database makes of one commit.  Columns that nothing depends on, the   *)
(* indexes that are not unique and the down-grades are left out.             *)
EXTENDS Integers, FiniteSets

CONSTANTS
    Tables,  \* the tables that a model keeps, some of those below
    NULL     \* the value of a column that holds nothing

-----------------------------------------------------------------------------
(* How a key is declared.                                                    *)
Key(column, table, onDelete, nullable) ==
    [column |-> column, to |-> table, onDelete |-> onDelete, nullable |-> nullable]
Owner(column, table) == Key(column, table, "CASCADE", FALSE)
Parent(column, table) == Key(column, table, "CASCADE", TRUE)
Choice(column, table) == Key(column, table, "SET_NULL", TRUE)

Table(keys, unique) == [keys |-> keys, unique |-> unique]
Plain(unique) == Table({}, unique)

-----------------------------------------------------------------------------
(* The initial migration, in its order, and the later ones.                  *)
AuditTables == [audit_logs |-> Plain({})]
MailTables ==
    [email_domains |-> Plain({{"domain"}}), email_templates |-> Plain({{"type"}})]
ProviderTables == [oauth_providers |-> Plain({})]
RightTables == [permissions |-> Plain({{"codename"}}), roles |-> Plain({})]
ThemeTables == [themes |-> Plain({})]
FieldTables == [user_fields |-> Plain({{"slug"}})]
HookTables == [webhooks |-> Plain({})]
TenantTables ==
    [roles_permissions |->
        Table({Owner("permission_id", "permissions"), Owner("role_id", "roles")}, {}),
     tenants |->
        Table({Choice("theme_id", "themes"), Choice("email_domain_id", "email_domains")},
              {{"slug"}})]
HookLogTables == [webhook_logs |-> Table({Owner("webhook_id", "webhooks")}, {})]
\* Mutant: a client is kept, without a tenant, when its tenant is deleted.
BugClientTables ==
    [clients |-> Table({Choice("tenant_id", "tenants")}, {}),
     tenants_oauth_providers |->
        Table({Owner("oauth_provider_id", "oauth_providers"),
               Owner("tenant_id", "tenants")}, {})]
ClientTables ==
    [clients |-> Table({Owner("tenant_id", "tenants")}, {}),
     tenants_oauth_providers |->
        Table({Owner("oauth_provider_id", "oauth_providers"),
               Owner("tenant_id", "tenants")}, {})]
UserTables ==
    [users |-> Table({Owner("tenant_id", "tenants")}, {{"email", "tenant_id"}})]
CodeTables ==
    [authorization_codes |->
        Table({Owner("client_id", "clients"), Owner("user_id", "users")}, {{"code"}}),
     email_verifications |-> Table({Owner("user_id", "users")}, {{"code"}})]
ConsentTables ==
    [grants |->
        Table({Owner("client_id", "clients"), Owner("user_id", "users")},
              {{"user_id", "client_id"}}),
     login_sessions |-> Table({Owner("client_id", "clients")}, {{"token"}})]
OAuthTables ==
    [oauth_accounts |->
        Table({Owner("oauth_provider_id", "oauth_providers"),
               Owner("tenant_id", "tenants"), Parent("user_id", "users")},
              {{"oauth_provider_id", "user_id"}})]
TokenTables ==
    [refresh_tokens |->
        Table({Owner("client_id", "clients"), Owner("user_id", "users")}, {{"token"}}),
     session_tokens |-> Table({Owner("user_id", "users")}, {{"token"}})]
ValueTables ==
    [user_field_values |->
        Table({Owner("user_field_id", "user_fields"), Owner("user_id", "users")},
              {{"user_field_id", "user_id"}})]
HeldTables ==
    [user_permissions |->
        Table({Parent("from_role_id", "roles"), Owner("permission_id", "permissions"),
               Owner("user_id", "users")},
              {{"user_id", "permission_id", "from_role_id"}}),
     user_roles |->
        Table({Owner("role_id", "roles"), Owner("user_id", "users")},
              {{"user_id", "role_id"}})]
SessionTables ==
    [oauth_sessions |->
        Table({Owner("oauth_provider_id", "oauth_providers"),
               Parent("oauth_account_id", "oauth_accounts"),
               Owner("tenant_id", "tenants")}, {{"token"}}),
     registration_sessions |->
        Table({Parent("oauth_account_id", "oauth_accounts"),
               Owner("tenant_id", "tenants")}, {{"token"}})]

AdminTables ==
    [admin_api_key |-> Plain({{"token"}}), admin_session_tokens |-> Plain({{"token"}})]
AccountOnce(tables) ==
    [tables EXCEPT !.oauth_accounts.unique =
        @ \cup {{"oauth_provider_id", "account_id"}}]
BrandTables ==
    [brands |->
        Table({Owner("tenant_id", "tenants"), Choice("theme_id", "themes"),
               Choice("email_domain_id", "email_domains")}, {{"host"}})]
FactorTables ==
    [user_totp_secrets |-> Table({Owner("user_id", "users")}, {{"user_id"}}),
     user_mfa_recovery_codes |-> Table({Owner("user_id", "users")}, {})]
PendingUser(tables) ==
    [tables EXCEPT !.login_sessions.keys = @ \cup {Choice("mfa_pending_user_id", "users")}]
LockoutTables == [user_lockouts |-> Table({Owner("user_id", "users")}, {})]
PasskeyTables ==
    [user_webauthn_credentials |-> Table({Owner("user_id", "users")}, {{"credential_id"}})]

\* No two of them speak of one table: what a later migration adds to a table is
\* put with the table.
Migrations ==
    {AuditTables, MailTables, ProviderTables, RightTables, ThemeTables, FieldTables,
     HookTables, TenantTables, HookLogTables, ClientTables, UserTables, CodeTables,
     PendingUser(ConsentTables), AccountOnce(OAuthTables), TokenTables, ValueTables,
     HeldTables, SessionTables, AdminTables, BrandTables, FactorTables, LockoutTables,
     PasskeyTables}
Catalogue ==
    [table \in UNION {DOMAIN tables : tables \in Migrations} |->
        (CHOOSE tables \in Migrations : table \in DOMAIN tables)[table]]

\* A model that keeps some of the tables keeps the keys between those.
ASSUME TablesAssumption == IsFiniteSet(Tables) /\ Tables \subseteq DOMAIN Catalogue
KeysOf(table) == {key \in Catalogue[table].keys : key.to \in Tables}

-----------------------------------------------------------------------------
(* Rows and commits.  A row is a record of its columns, with its "id"; the   *)
(* database is a set of rows for each table.                                 *)
Ids(db, table) == {row.id : row \in db[table]}
Row(db, table, id) == CHOOSE row \in db[table] : row.id = id

\* What one transaction does: INSERTs, UPDATEs of some columns, the DELETE of
\* a row found before and the DELETE of rows of a secondary table.
NoChange == [insert |-> {}, update |-> {}, delete |-> {}, unlink |-> {}]
Insert(rows) == [NoChange EXCEPT !.insert = rows]
Update(table, id, columns) ==
    [NoChange EXCEPT !.update = {[table |-> table, id |-> id, columns |-> columns]}]
\* Columns that nothing else depends on: the UPDATE still wants its row.
Others == [column \in {} |-> NULL]
Delete(table, id) == [NoChange EXCEPT !.delete = {<<table, id>>}]

\* The columns of a row, some of them anew.
Over(columns, row) ==
    [c \in DOMAIN columns \cup DOMAIN row |->
        IF c \in DOMAIN columns THEN columns[c] ELSE row[c]]

\* The rows before any of them is deleted.
Changed(row, table, updates) ==
    LET mine == {u \in updates : u.table = table /\ u.id = row.id}
    IN  IF mine = {} THEN row ELSE Over((CHOOSE u \in mine : TRUE).columns, row)
Applied(db, write) ==
    [table \in Tables |->
        {Changed(row, table, write.update) :
            row \in {row \in db[table] : <<table, row.id>> \notin write.unlink}}
        \cup {new[2] : new \in {new \in write.insert : new[1] = table}}]

\* Every key of every row of these tables leads to a row, or is NULL where it may be.
KeysHold(db, tables) ==
    \A table \in tables : \A row \in db[table] : \A key \in KeysOf(table) :
        \/ row[key.column] \in Ids(db, key.to)
        \/ key.nullable /\ row[key.column] = NULL

\* No two rows share an id, or columns that must differ; NULLs never clash.
Distinct(rows, columns) ==
    \A one, other \in rows :
        (\A c \in columns : one[c] = other[c] /\ one[c] # NULL) => one = other
UniqueHolds(db, tables) ==
    \A table \in tables :
        \A columns \in Catalogue[table].unique \cup {{"id"}} : Distinct(db[table], columns)

Written(write) == {new[1] : new \in write.insert} \cup {u.table : u \in write.update}

\* The database takes the transaction: each row it updates or unlinks is
\* there (StaleDataError otherwise) and the constraints hold after it
\* (IntegrityError otherwise).
Accepts(db, write) ==
    /\ \A u \in write.update : u.id \in Ids(db, u.table)
    /\ \A gone \in write.unlink : gone[2] \in Ids(db, gone[1])
    /\ KeysHold(Applied(db, write), Written(write))
    /\ UniqueHolds(Applied(db, write), Written(write))

\* ON DELETE: the rows that go with those in dead, and the keys that forget them.
Follows(db, dead) ==
    dead \cup UNION {{<<table, row.id>> :
            row \in {row \in db[table] : \E key \in KeysOf(table) :
                key.onDelete = "CASCADE" /\ <<key.to, row[key.column]>> \in dead}} :
        table \in Tables}
Cascade(db, dead) ==
    LET rounds[n \in 0 .. Cardinality(Tables)] ==
            IF n = 0 THEN dead ELSE Follows(db, rounds[n - 1])
    IN  rounds[Cardinality(Tables)]
Forgets(row, table, dead) ==
    [column \in DOMAIN row |->
        IF \E key \in KeysOf(table) :
            /\ key.column = column
            /\ key.onDelete = "SET_NULL"
            /\ <<key.to, row[column]>> \in dead
        THEN NULL ELSE row[column]]
Without(db, dead) ==
    [table \in Tables |->
        {Forgets(row, table, dead) :
            row \in {row \in db[table] : <<table, row.id>> \notin dead}}]

After(db, write) ==
    LET applied == Applied(db, write)
    IN  IF write.delete = {} THEN applied
        ELSE Without(applied, Cascade(applied, write.delete))
=============================================================================
