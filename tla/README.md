# Fief, in TLA+

Fief is an identity provider: an authorization server for OAuth 2 and OpenID
Connect with hosted sign-in pages, multi-factor authentication, device
management, an administration API and a worker for background tasks. This
directory holds TLA+ models of it, the TLC configurations that check them on
small instances, and proofs that the TLA+ proof system checks for instances
of any size. Paths below are relative to the repository.

`PROJECT.json` is the index: the components, the runs, the hazards each property
is aimed at, for each definition the lines of code it stands for, and for each
property a mutation of the code that breaks it (the definitions named `Bug...`,
which stand in the modules beside what they mutate and are used nowhere else).

## The system

Fief is a FastAPI application in any number of processes, a database (PostgreSQL;
SQLite in small installations), a Redis, a worker that takes tasks from a Dramatiq
queue, and a scheduler that enqueues a clean-up and a heartbeat each night.

| Component | State it keeps | Operations | What makes it correct |
|---|---|---|---|
| Account lockout (`fief/services/security/account_lockout.py`) | a row per user: `failed_count`, `locked_until` | check, record a failure, reset, unlock | never locks early, never invents failures, unlocks in the end |
| Sign-in flow (`fief/apps/auth/routers/auth.py`, `fief/services/authentication_flow.py`) | login sessions, session tokens, grants, two cookies per browser | authorize, login, verify an address, the challenges, consent, logout | a challenge is bound to a password, wrong answers lock, codes carry what was allowed, every sign-in can end |
| Token endpoint (`fief/dependencies/token.py`, `fief/apps/auth/routers/token.py`) | authorization codes, refresh tokens | redeem either | answers stay within the consent, PKCE, one use, a retry where nothing was answered |
| Device sessions (`fief/services/security/device_sessions.py`) | session and refresh tokens by agent and network | list, revoke, sign out elsewhere | what is signed out is gone, and stays gone |
| Second factors (`totp.py`, `recovery_codes.py`, `webauthn.py`, `mfa_state.py`) | a secret, code hashes, credentials, `mfa_enabled`, challenges in Redis | enrol, confirm, verify, consume, disable | single use, no replay, the flag says what there is |
| Rate limiter (`rate_limiter.py`) | a sorted set per key in Redis | check | at most so many in any window, and fails open |
| User account (`fief/services/user_manager.py`, `reset.py`) | the user row, verification codes, reset links | create, verify, forgot, reset, change, delete | one account per address, an old password never returns, a verified address was proved |
| Registration, OAuth sign-in (`registration_flow.py`, `register.py`, `oauth.py`) | registration sessions, OAuth sessions and accounts | register, authorize, callback | one user per registration, an account of the provider stays with its user |
| Account dashboard (`fief/apps/auth/routers/dashboard.py`) | none of its own | the above on behalf of the signed-in user | - |
| Roles and permissions (`user_roles.py`, `tasks/roles.py`, `tasks/user_roles.py`) | roles, who holds them, permissions of users by role | add, remove, change, delete a role or a permission | when the queue is empty, permissions follow roles |
| Webhooks (`services/webhooks`, `tasks/webhooks.py`) | webhooks, logs | subscribe, trigger, deliver, retry | whoever subscribed is told, attempts are bounded and logged |
| Background tasks (`tasks/base.py`, `cleanup.py`) | the queue | send, run, retry | a task can be repeated and come late |
| Administration (`fief/apps/dashboard`, `fief/apps/api`) | tenants, clients, themes, providers, fields, templates, keys | create, change, delete | references lead somewhere, there is one default |
| Initializer, command line (`services/initializer.py`, `cli/admin.py`) | the same rows | create what is missing, grant the admin role | safe to repeat, repairs what a start that died left |
| Database and migrations (`alembic/versions`, `repositories/base.py`) | keys, ON DELETE rules, unique columns | one commit | - |
| Breached passwords (`breached_passwords.py`) | a cache of hash prefixes | look up | fails open, respects the threshold |
| Origins and branding (`client_ip.py`, `branding.py`, `origin_verifier.py`) | none | decide | trusts only what is configured |
| Middlewares, e-mail, templates, cryptography | none | rendering, library calls | - |

They share the database. A call of a repository is one statement and one commit
(`fief/repositories/base.py`); a request has one session, whose rows may be
stale by the time they are written, and an UPDATE writes only the columns that
the request has changed; isolation is READ COMMITTED. So every pair of calls in
a handler is a place for other requests to interleave, and for the process to
die. An update of a row that is gone fails the request with a 503, a deletion of
one does nothing. Dependencies that `yield`, such as `validate_grant_request`,
run their second half after the response.

The hard parts follow from this: absolute values written from an earlier read
(lockout, `mfa_enabled`, password hashes), several commits for one effect
(sign-out, registration, a code and its challenge, an answer and the deletion of
its grant, the default theme, a start of the server), cookies that several tabs of
a browser share and that decide which branch a handler takes, and tasks that come
late or twice.

## The modules

| Module | Models | State |
|---|---|---|
| `LockoutPolicy` | what the ladder promises for one account, without rows or requests | `fails`, `lock` |
| `AccountLockout` | the row and the requests in flight on it, commit by commit | `row`, `pc`, `pending`; history `failures` |
| `AuthFlow` | the routes of the sign-in flow, one request an action | `users`, `login`, `session`, `browser`, `grant`; history `codes`, `asked`, `primary`, `born`, `allowed` |
| `MfaBudget` | the count of wrong answers in a login session, read and committed apart by requests in flight | `carry`, `visit`; history `counted` |
| `TokenEndpoint` | `POST /token` and the issue of a code, commit by commit | `users`, `codes`, `refresh`, `request`; history `sent`, `origin`, `issued`, `lapsed`, `overlapped` |
| `DeviceSessions` | extends `TokenEndpoint` with session tokens and the ways to sign devices out | adds `session`, `revoking`, `sweeping` |
| `SecondFactors` | the factors of one user and `mfa_enabled`, commit by commit | `enabled`, `secret`, `recovery`, `passkeys`, `request`; history `proved`, `accepted`, `repeated`, `shared`, `replaced` |
| `RateLimiter` | the sliding window of one key | `now`, `bucket`; history `admitted` |
| `Challenges` | extends `RateLimiter` with the answers behind it: time steps of TOTP, challenges in Redis, sign counts | adds `factor`, `lastUsed`, `challenge`, `issued`, `signCount`, `request`; history `accepted`, `crossed`, `answered`, `shared` |
| `Accounts` | users, addresses, passwords, verification codes and reset links, commit by commit | `users`, `codes`, `welcomes`, `links`, `request`, `hashes`; history `proved`, `uses`, `newest`, `overtaken` |
| `Registration` | the ways users come to be, with the OAuth callback | `users`, `accounts`, `sessions`, `flows`, `request`; history `settled`, `made`, `disturbed` |
| `RoleSync` | roles, who holds them, and the tasks that copy permissions to users | `users`, `roles`, `includes`, `permissions`, `holds`, `grants`, `direct`, `queue`, `worker`, `request`; history `raced` |
| `Webhooks` | hooks, the tasks that tell them of events, and their log | `hooks`, `logs`, `trigger`, `delivery`; history `posts`, `died`, `changed` |
| `Schema` | the tables of the migrations and what one commit does to them | operators only |
| `Startup` | extends `Schema` with servers that start and commands that grant the admin role | `db`, `issued`, `work`; history `calm`, `torn`, `overlapped` |
| `Administration` | extends `Startup` with the administrators' routes | adds `requests` |
| `MC...` | the values of the constants for TLC | |
| `...Proofs` | the theorems | |

History variables record what happened and are read by no action.

**AccountLockout.** A request of `/login` does `check_locked`, `authenticate`,
then `record_failed` or `reset`. Each is a SELECT and, later, a commit: `pc[r]`
says which commit is due and `pending[r]` holds the columns it will write, with
`Keep` for those the UPDATE leaves out. A timestamp is the number of ticks until
it; `Tick` brings nearer those in the row and those about to be written. A
second INSERT of the row breaks the primary key and its failure is lost
(`CommitCreate`).

**AuthFlow.** A row of `login_sessions` has the client, scope and acr that
`/authorize` stored, the pending user, attempts and lock of the challenge, and
whether a WebAuthn challenge is in Redis. A browser has two cookies and, unless
it is in `Tabbed`, the page it is about to open; a `Tabbed` browser sends any
request at any time with its current cookies, which is what several tabs do. The
guards are the dependencies of the routes (`get_optional_login_session`,
`get_session_token`, `get_verified_email_user_from_session_token_or_verify`,
`get_consent_prompt`, `get_needs_consent`), evaluated in their order.
Verification of a second factor has its outcomes as actions: right, wrong, a
secret that no longer decrypts, a sign count that went back. PKCE, state, nonce,
branding and the rate limits are left out; every user is active and of one
tenant. A request is one action, and the count of
wrong answers, which requests in flight share, is left to `MfaBudget`: here any
wrong answer may be the one that locks (`Failed`).

**MfaBudget.** One login session and the requests on it, without the pages around:
`Reads` is the dependency that loads the row, and the handler decides by that copy
and commits later the columns it has changed (`Commits`). `counted[n]` is the number
of wrong answers whose request had read the count `n`, since the row was last wiped.

**TokenEndpoint.** A request `p` reads a grant (`ValidateCode`, `ValidateToken`),
looks the user up (`FindUser`), notes where the device was seen (`Touch`), mints
and answers (`Respond`), and deletes the grant when its dependency exits
(`Burn`); `CutOff` ends it at any point. A code is inserted without its
challenge, which the next commit of `/consent` flushes, before the redirect
leaves (`InsertCode`, `SendCode`). A refused request changes nothing and is no
action. The family of a refresh token is the code its chain goes back to; the
code itself keeps no such column, it is what the properties are about.

**DeviceSessions.** `Device(u, a, n)` is a row of the device list: the session
and refresh tokens of one user agent and one network. `Revoke` takes the tokens
that the list has now, since a `device_key` is a hash of their ids; `RevokeOne`
deletes them one commit at a time, sessions first. `SignOutOthers` and `Sweep`
are the two commits of `sign_out_others`, which `auto_revoke_others` shares. The
list's two SELECTs are taken as one read.

**SecondFactors.** A request `p` of the dashboard, a challenge page or an
administrator goes from statement to statement: `request[p].step` is the next
one, `seen` the `mfa_enabled` of the user row it has loaded (its session never
loads it again), `row` the row it has read, `has` what `recompute_mfa_enabled`
has counted. `BeginEnrollment`, `Clear`, `Create` are `begin_enrollment`;
`ConfirmEnrollment`, `Confirm`, `Raise` are `confirm_enrollment`, and the
recovery codes follow (`Wipe`, `Fill`); `Drop` to `Write` are `disable`, and
passkeys join it at `Recount`. Ids of rows are used once, so that a row that was
deleted and one that replaces it are told apart. `calm` records that nothing was
enrolled or torn down by others since the request came. A code is right or wrong
here; what time and Redis do to it is in `Challenges`.

**RateLimiter, Challenges.** `Check` is the transaction of Redis on the sorted
set, with a `stamp` that the process may have read some ticks before. `Challenges`
puts it in front of the codes of TOTP: a code is of the step before, this one or
the next, `Verify` reads `last_used_step` and `Accept` writes the step of the
clock. For passkeys, `Issue` stores a challenge, `Take` reads it and `Burn`
deletes it, `ReadCredential` reads the row whose count `RollsBack` compares. An
authenticator, or a copy of it, may answer with any count. A credential that is
deleted may be refused or missed by a request that has found it before. A user has
one kind of factor or the other: they share no state.

**Accounts.** A request reads the row of its user when it starts and keeps the
columns it will write (`set`); `Store`, `Save` and the others are its commits.
Creation inserts the row, then mails a code through a task (`Welcome`). A hash is
a number: whoever stores a password, even the old one, makes a new hash, and a
reset link is good for the hash it was made for. `Authenticate` may write an
upgraded hash of the password it has checked.

**Registration.** `RegistrationFlow.create_user` is three commits: the user, the
registration session, the link of the OAuth account. The callback finds the
account, updates its tokens and signs in, or inserts it and opens a registration
session in two further commits.

**RoleSync.** A request commits its change and then sends the task (`Send`), or
dies before. The queue hands its tasks to several workers, and one that
fails or loses its worker goes to the end of it, as often as `MaxRetries` and
`MaxMishaps` allow. `Read` is the first statement of a task, `Insert` the INSERT of
all permissions in one commit, which fails as a whole on a duplicate, `RevokeOne`
and `RevokeAll` are the deletions; `Join` and `Fill` do the same inside a
registration.
A permission without a role is a direct grant. `raced` has the roles for which a
change met a task that was not done.

**Webhooks.** `Fetch` reads the hook, `Attempt` posts, `LogResult` writes the log
and decides about a retry. A worker that dies leaves its task to another one,
from the start. An error that is neither an answer nor an `httpx.HTTPError`, such as
one of the database, ends the task for good (`DeliveryFails`): only a
`WebhookDeliveryError` is repeated.

**Schema, Startup, Administration.** `Schema` lists the keys and unique columns
of the tables, and what an INSERT, UPDATE or DELETE does with them: a violated
constraint fails it, a deletion cascades or sets NULL. An actor of `Startup` or
`Administration` reads, draws up the plan of commits it will make, and makes them
one at a time, with others in between; the reads between two commits are one
step, since what goes stale after it meets the constraints at the commit. Users,
roles, permissions and the roles of users are deleted here too, with what the worker
then takes from a user; that administrators create or rename them, or give a
permission directly, is not part of this module, so that every role in it is the
admin role. The model assumes that the options of the main user and the main API key are given.

## The runs

| Run | Shows | Bounds, and why they suffice |
|---|---|---|
| `lockout` | `CountWithinFailures`, `NeverLocksEarly`, `LockEnds` | two logins, one administrator, a ladder of two rungs, six failures: a lost update needs two writers, and the second rung is reached with the first one expired |
| `sign_in` | `PendingProvedPassword`, `FactorFollowsPassword`, `RecoveryEvicts`, `ConsentCovers` | two users, each new or with TOTP, a passkey, both, a secret that does not decrypt or a flag without a factor; two tabbed browsers, one login session, two sessions; locks, challenges and sessions expire: a challenge can pass between users and a sign-in can evict another. Or (`Alone`) one of the users with many tabs, three authorizations with two clients and overlapping scopes: a grant can be replaced by another and be asked for again, and a page left open can answer for a later authorization |
| `sign_in_ends` | `SignInEnds` under fairness | one browser without tabs, a user without MFA, unverified, with TOTP and one recovery code, with a passkey, with both, with a secret that does not decrypt, with or without a passkey, with a flag without a factor or a factor without the flag; two authorizations with two clients: the self-healing bounce is taken, and a login session can expire at any page |
| `wrong_answers` | `AccountLockout` with one request at a time implements `LockoutPolicy`; `BudgetBounds`, `BudgetLocks` | nine failures, beyond the last rung: the row's NULLs, its absence and the delay of its commits are invisible. Three requests at once, a limit of two, counts up to three: two answers can hide a third, a wipe can come between a read and a commit, a count can pass the limit under a lock. The two counts share nothing, so that either is explored with the other at rest (`OneCount`) |
| `tokens` | `AnswersWithinConsent`, `PkceHolds`, `NoFork`, `UnansweredKept`, `StaysDead`, `SignOutReaches` | two requests at once, one code, two refresh tokens, two sessions, two networks, with expiry, crash and deletion of the user: two redemptions of one grant, and each step of a refresh against each commit of a sign-out |
| `second_factors` | `ConfirmedWasProved`, `OnceEach`, `TogglingHeals`, `GoneForGood` | two requests at once, two secrets, two recovery codes to a set of two, one passkey, any request cut off anywhere, an undecryptable secret: two answers with one code, an enrolment against a confirmation, a new set against an answer, each factor with and without the other |
| `challenges` | `OncePerStep`, `AnsweredOnce`, `WithinWindow`, `CountsOnce` | two requests, a limit of one in two ticks, four ticks, one login session, three challenges, counts up to two: a window that slides past an entry, a code of three steps, a challenge replaced while an answer to the older one is checked, a copy that answers before, with and after the original, a count that comes back after two others |
| `accounts` | types (with one account per address), `VerifiedMeansProved`, `LinkIsSpent`, `PasswordIsNewest` | two users, two addresses, two passwords, two requests at once out of three, three hashes: a change of address against a verification, a reset against a sign-in that upgrades the hash, an account deleted in the middle |
| `registration` | types, `LinkedForGood`, `OneUserEach` | two users, one account of the provider, two registration sessions, one OAuth session, two requests: two callbacks for one account, a form sent twice, a request that dies between any two commits |
| `roles` | `RolesSettle`, `TasksKeepToTheirRole` | two users, roles and permissions, two requests, two workers, a queue of three, one retry, one death, two changes: a grant against an edit of the role, the second deletion against a new grant, a task repeated after a later one |
| `webhooks` | `LogIsComplete`, `PostsAreAimed`, and `EventsAreTold` under fairness | one event, two hooks, one retry, a death, a change, errors anywhere: a hook that is moved, unsubscribed or deleted between attempts, a worker that dies, or a task that breaks, after the post and before the log, attempts up to the last. The hook that is changed is called the first (`ChangesFirst`) |
| `administration` | `RowsBelong`, `StartsRepair`, `OneDefaultTheme` | three starts or grants of the role and two requests, four in all, two at a time, one of them broken off, two tenants, clients, themes, users, permissions and roles: a start on what another has left, a deletion under a request, a role or permission deleted between starts, two starts side by side |

Ids, users and requests are symmetric where no property tells them apart and no
liveness is checked. `MaxFailures`, `MaxCounted`, `MaxLogins`, `MaxSessions`, `MaxHashes`,
`MaxStarts`, `MaxChanges`, `MaxQueue`, `MaxRetries`, `MaxMishaps`, `MaxCrashes`,
`MaxDeaths`, `MaxCount`, `MaxRequests`, `MaxTogether`, `MaxRows`, `MaxTime`, `MaxSign` and the sets of ids bound
what has no bound in the code, or too large a one. `CHECK_DEADLOCK FALSE` is set
where these run out and everyone is done. Type invariants that are proved, see
below, are not run again.

**Exceptions.** Many properties except what the code does not prevent, by a
history variable that names it: `overlapped` redemptions of one grant, a `shared`
recovery code or challenge, `crossed` verifications of a code, an `overtaken` write
of a password, a `disturbed` registration session, a `raced` role, a task whose
worker `died` or that broke, a part of the admin's rights that is `torn`, a user
who is `Stranded`. The next section but one says what happens in these cases. The
properties state that it happens in no others.

**Fairness.** `AccountLockout`: time passes, a request that has started
finishes, and the user tries again; the administrator need not. Without retries
nothing would clear an elapsed lock, which the code does on the next attempt
only. `AuthFlow`: a browser follows redirects, and a link, at once (weak
fairness); a user may err, and be locked out, any number of times but gets right, in the
end, whatever stays possible again and again (strong fairness of the right
password, answer, mail and button). This is an assumption about people; what it
buys is that any cycle left is one the code imposes. `Webhooks`: a task in the
queue is run in the end, and a worker that has started goes on until it is done
or dies, which it does `MaxCrashes` times; that is what Dramatiq does as long as one
worker is up. Nobody need subscribe, change or post an event.

## The proofs

Proved for every value of the constants, from the named assumptions of the
modules alone (`LadderAssumption`, `RequestAssumption`, `FlowAssumption`, `BudgetAssumption`,
`TokenAssumption`, `FactorAssumption`, `ChallengeAssumption`, `WindowAssumption`,
`AccountsAssumption`, `RegistrationAssumption`, `RoleSyncAssumption`,
`WebhookAssumption`, `TablesAssumption`, `RoutesAssumption`):

- **Lockout.** `InductiveType` strengthens the types by what each `pc` says of
  `pending` (`PendingOK`): a "failing" commit writes a count, and no UPDATE
  finds the row missing. `CountBounded` is inductive as soon as the counts still
  to be written are included, as they are. `NoEarlyLock` needs `LocksEarned`,
  that a pending lock was earned too. `LadderImplemented` is the refinement of
  `LockoutPolicy`: as long as requests do not overlap (`OneAtATime`), what the only
  request has read still stands when it commits (`Relied`), and each of its commits is
  a step of the policy, whatever the number of requests. These proofs are in
  `AccountsProofs`.
- **Sign-in.** `TypeCorrect` goes action by action, with one lemma per group of
  handlers. `PendingBound` follows from a description of all that a step can do to
  one login session (`LoginStep`). `BirthSteps` says how a step can bring about a
  session token; with it `FactorsFollow` ties the session that a challenge opened to
  the password proved last, and `RecoveryOutlives` is inductive once tokens are known
  to be minted in order (`TokensInOrder`) and a cookie to name one that was minted
  (`CookieNamesToken`). `CodesCovered` needs `GrantAllowed`: every
  row of `grants` was allowed in one go.
- **Budget.** `BudgetHolds` strengthens `BudgetBounds` by what may still be counted on
  each number: the requests that have read it, and the times it was written.
  `BudgetEnds` needs that a count at or above the limit has a lock beside it, in the row
  and in every copy that was read of it.
- **Token endpoint.** The endpoint is proved in any environment that may evict
  refresh tokens (`TokenSpec`). `Kinship` is the inductive invariant: codes,
  refresh tokens, requests in flight and answers agree in user, client and scope
  with the code that they go back to, and a code that was sent has its
  challenge. `ConsentBounds` and `ChallengeAnswered` are read off it;
  `CodesKeptForRetry` and `DeadForGood` add where a grant can come from and go.
  `GrantsDoNotFork` has an invariant of its own (`Unforked`): unless two
  requests overlap, either the family has one grant, or one request has answered
  and is about to delete the older of two.
- **Device sessions.** `EndpointImplemented`: every step is a step of the
  endpoint, an eviction or a stutter, so that `EndpointPromises` carries over
  what was proved of it. `SignOutIsComplete` follows from the types and `Kinship` (the
  sweep goes by the user of the token, the property by the user of the code).
- **Second factors.** `FactorsRelied` says of each request in flight what its
  next write relies on: a calm one still sees the flag it loaded and the factors
  it counted, and nobody else's commit keeps it calm unless it leaves those alone
  (`CommitEffect`). `ProvedBeforeConfirmed`, `FlagHeals` and `ConfirmedKept` (the
  last one without a run) are read off it. `CodesRemembered` ties the rows of the
  codes to their past: accepted ones are not unused, replaced ones are deleted, and
  two holders of one code share it; `CodesUsedOnce` and `DeletedForGood` follow.
- **Challenges.** `InTime` tells the steps that are past from the one that is
  present: a code accepted at a step is the last one used, and a request about to
  write at a step that was not crossed is the only one. `OncePerStep` follows.
  `Burnt` says of each challenge that is not shared that one request at most has
  taken it, which burns it before it answers, and that nothing is left under any
  key once it is burnt (`Kept`: a challenge is under one key at most). `CopiesNoticed`
  rests on `Ascends`: as long as answers do not overlap and no 0 sets it back, the count
  that is stored is at least every one that was accepted, and a request about to write
  has read what is stored.
  `LimitHolds` is about sums over sets of times, which are folds: that a sum does not
  depend on the order of its members, and grows with them (`TotalIsMonotone`), goes by
  induction over the number of members. `Counted` then says that the bucket has all
  that was admitted within the window of the clock, so that a check that passes bounds
  every window that it falls into.
- **Accounts.** The types include that no two users who exist share an address:
  what a request read before it wrote is of no use, the unique column is.
  `VerifiedMeansProved` needs `Vouched`, that a request about to confirm vouches for an
  address that was proved. `PasswordIsNewest` needs `Bears`, that an upgrade
  that is due writes the newest password unless it was overtaken. `Spending` numbers the hashes in the order they were stored, so
  that a link that was used names one that is never current again, which bounds
  what it can do (`LinkIsSpent`).
- **Registration.** The types rest on `OwnUser`: the user a request has made is
  nobody else's until it is linked. `OneMade` and `SessionsMakeOne` follow a session through
  the commits of the requests that use it; `Linked` and `Closed` an account of the
  provider, from the link until its user is deleted.

- **Roles.** `Sync` is about the tasks as much as the rows. `DirectBound` counts the
  grants that no role stands for with those still to be inserted, and no account has a
  grant of a role that it could not have been given (`Known`). `Settling` says, role by
  role, that what a user should have by it is there or is owed by a task that will
  bring it; when no task is left, nothing is owed, which is `RolesSettle`.
- **Webhooks.** The types include that the tasks a trigger has still to make are not made
  (`MadeOnce`). For `LogIsComplete`, `Recorded` compares, attempt by attempt, what was
  posted with what is logged and what waits to be tried again: they differ by the
  attempt in flight, and by the workers that died. `PostsAreAimed` needs that nobody
  has heard of a hook that was not made yet (`NoneEarly`).
- **Administration.** `CatalogueFits` reads off the migrations that cascades only go
  from a table to tables of a higher level. There are four levels, so that what
  `Cascade` collects in as many rounds as there are tables is closed (`CascadeCloses`).
  `Orderly` says that the rows have the columns of their table and ids that were
  issued, that the keys hold, and that whatever plan an actor has drawn up consists
  of writes that can be undone by nobody but the constraints (`Tame`); each commit
  preserves it, which is `NothingDangles`, for every set of tables that is closed
  under references. `OneDefaultAtMost` needs that one actor at most is about to
  touch the default, and what the rest of its plan leaves as the default
  (`SingleDefault`, `Rests`). `StartsMend` follows a start through its stages.
  `Progress` says of a calm start that whatever an earlier stage saw to is there, and
  that what its own stage lacks is made by the first commit of its plan (`Mends`).
  That nothing is lost again meanwhile needs that nobody else is between two commits
  (`Quiet`) and that a start's writes only add rows (`Mild`). What others may have left
  before is bounded by `Halves` and `Grants`: a permission without a role, or a user
  without a grant, is somebody's unfinished business, or a command died over it or an
  administrator has deleted it (`torn`). `Tenancy`, that ids of tenants are never used twice, is why the tenant that
  a start chose for the main client is still the default one, or gone, when it commits.

Only model-checked: `SignInEnds`, `LockEnds` and `EventsAreTold`, since liveness
under fairness is beyond the prover.

## What the code does not promise

Each of the following is a behaviour of the models. The properties are stated
beside it.

Sign-in and lockout:

- Two failures at once are stored as one, and a slow one lowers the count
  (`user_lockout.py:72`, whose comment expects a double increment). A slow
  auto-unlock clears a lock that was set after it read the row; a reset that
  interleaves with a failure leaves the old count. A reset of the password does
  not reset the lockout.
- A user whose only factor is a passkey is sent from `/login` to `/mfa/totp` and back
  for ever (`auth.py:799`; the comment at 727 means to prevent it): such a user is
  `Stranded`, and excepted from `SignInEnds`.
- `/login` without a login session mints a full session at once (`auth.py:444`),
  whatever the factors; the comment above it says that the session waits.
- The count of wrong answers is read with the login session and committed after the
  answer was checked (`auth.py:815`): answers in flight at once are counted as one, and
  `MFA_MAX_ATTEMPTS` of them need not lock; the comment at 717 says that they do. What holds is
  `BudgetBounds`, a factor of the number of requests at once, and `BudgetLocks`. A
  sign-in with the right password, too, starts the count anew.
- A consent page left open allows what another tab has asked for since
  (`auth.py:1349`). `prompt=none` is not stored, and the consent page is shown
  (`authentication_flow.py:71`).
- A code for a login session that asks for a new sign-in (acr 1) can rest on a
  session older than it: `/consent` does not compare the two.
- `tenant.mfa_required` sends the user to enrol from `/login`, but a session
  that exists already passes `/consent`. An OAuth sign-in asks for no second factor
  (`oauth.py:164`).

Tokens and devices:

- A refresh in flight inserts its new token after the sweep of a sign-out: the
  device stays signed in. `SignOutReaches` is therefore about families at rest.
- A sign-out that ends between its two commits leaves the refresh tokens.
- Two redemptions at once of one grant both succeed and fork the chain.
- A refresh for a scope without `offline_access` uses the refresh token up and
  gives none back.
- A public client whose code has no challenge can never redeem it: a verifier is
  demanded by one check and refused by the next.

Second factors:

- `verify_assertion` looks a credential up by its id only, and not by the user
  whose challenge it answers; `FactorFollowsPassword` claims nothing of whose passkey
  it was.
- `begin_enrollment` deletes by user what it has read as unconfirmed: a secret
  that another tab confirms in between is lost (`totp.py:152`).
- Two requests that match one recovery code at once are both accepted; so are two
  that verify one code of TOTP, or take one challenge before either deletes it.
- A crash between the commit of the secret and that of `mfa_enabled` leaves a
  confirmed secret that no sign-in asks for.
- The replay check of TOTP stores the step of the clock, not of the code: one code
  is accepted at up to three steps.
- A sign count of 0 is accepted, and stored, over a larger one. An answer deletes
  the challenge of its key even when a newer one has replaced its own.
- Rejected requests count against the rate; a check whose clock was read before
  others wrote can exceed a window; without Redis every request passes.

Accounts and registration:

- Addresses are unique in their spelling and looked up in lower case: two accounts
  may differ in case only, and each look-up then raises.
- `verify_email` does not check that the code has expired; `verify_email_by_code`
  does. A reset link has no effect once the hash has changed, and does not expire
  otherwise here. A reset signs nobody out.
- The upgrade of a hash at sign-in may bring a password back that was replaced
  meanwhile (`user_manager.py:466`).
- A registration by OAuth that dies after the commit of the user leaves the account
  of the provider without one and the address taken. A second registration session
  for the same account links it to a second user.

Roles, webhooks, administration:

- A permission that was deleted, or one row that is there already, makes the whole
  INSERT of a task fail on every attempt; its deletions then never happen. A worker
  that dies between the two makes its task fail on its own rows. A repeated
  `on_user_role_created` gives permissions back that were taken with the role.
- Direct grants can be doubled, since a NULL role is equal to none; they can then not
  be removed.
- `webhooks_max_attempts` allows one attempt more. A process that dies between the
  commit and the task loses the event, and so does an error in the worker that is not
  a failed post: it is not repeated, and if it comes after the post that post is not in
  the log. Order is not kept over retries.
- A start that dies between the permission and the role of administrators leaves no
  role for good; one that dies before the grant leaves a main user without rights, and
  `grant-admin-role` refuses once the role is held, even without its permissions.
- The role of administrators is looked for by its permission (`initializer.py:240`):
  once an administrator has deleted the role, no start makes it again. Once the
  permission is deleted, the next start makes it with a second role of the same name,
  over which `get_by_name` stumbles whenever a main user is to be made or granted the
  role; a main user who is there gets nothing.
- Two servers that start at once on an empty database may make two default themes,
  and then every page raises. The default tenant may be deleted, with the
  users; the next start makes it anew.
- Setting the default theme is two commits; without a default the route does nothing.

## Not modelled

- *Breached passwords*: the list of a third party with a cache; whether a password is
  on it is an input, and one that is refused changes nothing.
- *Origins and branding* (`client_ip.py`, `branding.py`, `origin_verifier.py`): decisions
  over the characters of headers and host names, without state.
- *Middlewares, e-mail, templates, translations, cryptography, static files*:
  rendering and library calls; hashes, signatures and ids are abstracted to equality.
- *Account dashboard*: the label of a passkey. *Background tasks*: the row that the
  audit task writes, the heartbeat and the mails that change no row.
- Tokens of the hybrid flow, which travel in the redirect, are not among the answers
  of `TokenEndpoint`. Values of custom fields, down-grades and data migrations are
  left out. The queue, Redis and the database are modelled by how the code uses
  them.

## What is left

`AuthFlow` takes a request as one action; consents of several requests at once would
need its commits, as in `TokenEndpoint`. `Accounts` and `AuthFlow` could be composed for an account that changes
while its owner signs in.
