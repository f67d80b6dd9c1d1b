# StackBridge backend: a TLA+ model

StackBridge (`src/stackbridge-ts-backend`) is a Django REST backend with its own
authentication, a policy-based access control that administrators edit at run
time, and a few demonstration resources that the access control protects. All
its state is in PostgreSQL, except the demonstration objects, which are in the
memory of the server process. Every request is served by a thread of its own, and
management commands run beside the server, so the interesting behaviour is what
concurrent transactions do to each other.

This directory models that behaviour in TLA+, checks it with TLC on small
instances, and proves its safety properties with TLAPS for instances of any size.
`PROJECT.json` is the index: which definition models which lines, which run checks
which property, and a mutant of the code for each property that TLC must catch.

Run a check with `tlc -config <run>.cfg MC<module>.tla` and the proofs with
`tlapm <module>Proofs.tla`.

## 1. Inventory

Paths are relative to `apps/`.

### Authentication and sessions (`auth_service`)

* **State.** `auth_users` (`is_active`, `deleted_at`, `last_login_at`,
  `password_hash`), `auth_sessions` (`refresh_token_hash`, `created_at`,
  `expires_at`, `revoked_at`), and outside the database the signed token pairs that
  clients hold.
* **Operations.** `login_user` and `create_auth_session`; `rotate_refresh_token`,
  which revokes the session when a spent token comes back; `revoke_session`
  (logout); `revoke_all_sessions` (logout-all); `soft_delete_account`;
  `JWTAuthentication.authenticate` before every protected endpoint;
  `register_user` and the command `create_initial_admin`.
* **Interactions.** Sessions point to users. The profile view calls
  `soft_delete_account`, which calls `revoke_all_sessions`. Every other component
  gets its user from `authenticate`.
* **Hard.** Different orders of row locks in rotation and deletion; a login that
  commits while an UPDATE over "all sessions of the user" runs; a refresh token
  sent twice, by two workers or after a lost answer; an authentication that is
  stale when its endpoint acts; `timezone.now()` evaluated before a lock wait; a
  token expires at a whole second, its session row at a fraction of one.
* **Correct when** a token is exchanged once, the stored hash is that of the one
  unspent token, a session row lives as long as its refresh tokens and less than a second
  longer, a revoked session never changes again, a deleted account has
  no live session, and every request ends.

### Roles, assignments and registration (`access_service`, `auth_service`)

* **State.** `access_roles` (`code`, `is_system`, `is_active`) and
  `access_user_role_assignments`, with a partial unique index over the assignments
  that are not revoked.
* **Operations.** `assign_role`, `revoke_role`, `create_role`, `update_role`,
  `set_role_active`; `register_user` gives the role `user`,
  `create_initial_admin` the role `admin`.
* **Hard.** An assignment races the deletion of its account or the deactivation of
  its role; two administrators revoke the same assignment; foreign keys are
  checked at COMMIT and lock the rows they name, the administrator's own
  included; a registration is cut off in the middle; registration finds its role
  by a code that administrators can give to other roles.
* **Correct when** at most one assignment of a role to a user is active, an
  assignment is made only to a usable account and an active role, its revocation
  is final, and no account exists without its first role.

### Resources, actions, policies (`access_service`) and the seed command

* **State.** `access_resources` (`code`, `has_owner`, `is_active`), `access_actions`,
  `access_policies` (role, resource, action, `scope`, `is_active`), unique by role,
  resource and action.
* **Operations.** `create_*`, `update_*`, `set_access_object_active`,
  `deactivate_policy`; `seed_access_control`, which may be run again at any time and
  writes its whole catalogue in one transaction.
* **Hard.** `full_clean()` judges rows that nothing locks; `save()` writes every
  column back; the command bypasses `full_clean()`; the command and a PATCH lock
  rows in different orders; the views name resources by codes that a PATCH can
  change, so administrators can lock everybody out, themselves included.
* **Correct when** codes and keys stay unique, no edit is lost, an active `own`
  policy has a resource with owners, and the command, run again, restores the
  access it declares.

### Permission service and the gate of the access API

* **State.** None of their own; they read the catalogue.
* **Operations.** `get_effective_scope`, `check_permission`,
  `check_any_permission`, `AuthenticatedAPIView.require`.
* **Hard.** Overlapping roles; one query for each action, each with a new
  snapshot, while administrators edit.
* **Correct when** every scope is justified by a policy, withdrawing never grants,
  extending never denies, and who is entitled all the time is let in.

### Business objects (`business_service`)

* **State.** Three dictionaries under one `RLock` (orders have owners, products and
  stores do not).
* **Operations.** List, create, read, change, delete, each behind
  `check_permission`.
* **Hard.** The lock covers one dictionary operation and not the read, check,
  write of a request; lists filter by owner with code of their own; a restart
  loses the objects.
* **Correct when** an answer or a write is entitled by the object as it is at that
  moment, lists and details agree, and a deleted object stays deleted.

### Profiles (`profile_service`)

* **State.** `user_profiles`, one for each account, and in each request a user object
  that caches its profile.
* **Operations.** GET, PATCH and DELETE of `/profile/me`; the last is
  `soft_delete_account`.
* **Hard.** Three copies of the names meet in a PATCH: the one the view passes on, the
  locked one that `save()` writes back whole, and the cached one the answer is
  built from.
* **Correct when** a PATCH changes no name that it did not carry and answers with
  what it has written.

### The rest

Of the password service (a hashing library behind three functions) the session
model keeps what a successful login sees of it. Serializers, OpenAPI schema, settings
and migrations carry no protocol and are listed in `PROJECT.json` with the
reason they are left out. The URL tables say which requests there are; the next-state
relations stand for them.

## 2. Modules

| module | models | checked by |
| --- | --- | --- |
| `AuthSessions` | the session life cycle as transactions with row locks, crashes and deadlocks | `sessions`, `sessions_live`, `logout_all`, `sessions_deadlock` |
| `SessionPromise` | what clients are promised, without transactions | `sessions` (refinement) |
| `AuthSessionsProofs` | the invariant of deletions and revocations, final revocations | TLAPS |
| `SessionTokensProofs` | the invariant of tokens and callers, and that `AuthSessions` implements `SessionPromise` | TLAPS |
| `RoleAssignments` | assignments, roles and their codes, registration, account deletion; implements the catalogue of `Permissions` | `roles_races`, `roles_live` |
| `RoleAssignmentsProofs` | its invariant, its properties, and that it implements the catalogue | TLAPS |
| `AccessPolicies` | resources and policies with their unique keys, administrators and the seed command | `policy_edits`, `policy_own_race`, `policy_seed` |
| `AccessPoliciesProofs` | its invariant, unique keys, no lost update, what the seed command restores | TLAPS |
| `Permissions` | the permission service over a catalogue that changes | `access_checks` |
| `PermissionsProofs` | its three properties for any catalogue | TLAPS |
| `AdminRequests` | extends `Permissions` with the requests that pass the gate | `access_checks` |
| `AdminRequestsProofs` | who is let in, and that the proofs about the catalogue hold beside requests | TLAPS |
| `BusinessObjects` | lists; read, check, answer or write over the shared dictionaries | `orders` |
| `BusinessObjectsProofs` | all its properties for any number of threads | TLAPS |
| `Profiles` | GET and PATCH of a profile that a user object caches | `profiles` |
| `ProfilesProofs` | its invariant and both its properties for any number of tabs | TLAPS |

The modules `MC*` give TLC its symmetry sets and the constants that a
configuration file cannot write down.

### How PostgreSQL appears

`AuthSessions`, `RoleAssignments` and `AccessPolicies` share one picture of the
database. (`Profiles` has a simpler one: its transaction writes a single row, so the
write and the COMMIT are one step.)

* The variables named like tables (`users`, `sessions`, `rows`, ...) are the
  *committed* rows, `NULL` where a key has none. `tx[w]` holds the uncommitted
  writes of worker `w`; `Commit(w)` merges them, `Rollback(w)` drops them. A
  statement reads committed rows (READ COMMITTED, the default that the settings
  leave in force).
* `lock[x]` is the transaction that has locked row `x` by `select_for_update()`,
  UPDATE or DELETE. A statement that needs a row is enabled when the lock is free
  and then reads the newest committed version, as PostgreSQL re-evaluates the
  row after a wait. The end of the transaction frees its locks.
* An INSERT or UPDATE that meets an uncommitted row of the same unique key waits
  for that transaction (`KeyWriters`, `AssignmentWriters`, `AccountWriters`).
* Django declares its foreign keys DEFERRABLE INITIALLY DEFERRED. COMMIT
  therefore asks for KEY SHARE locks of the rows that new foreign keys name, and
  waits while somebody else holds them FOR UPDATE (`ForeignKeyTargets`,
  `NamedUsers`). These locks are waited for and not held, because the transaction
  ends in the same step.
* A cycle of such waits is what the deadlock detector finds: `InCycle` over the
  waits-for graph. `DeadlockVictim` rolls one of its members back.
* A step ends where another transaction could be seen: before a statement that may
  wait, before a statement with a snapshot of its own, before COMMIT. What lies
  between is one action, so an action is the code from one such point to the
  next, with its early returns as sibling actions (`...Reject`, `...Conflict`).
* `Crash(w)` may happen between any two steps and rolls back.

### Correspondence, module by module

**AuthSessions.** `pc[r]` is the point a request has reached and `presented[r]` the token
it came with (or the account that a login names). `BeginLogin` starts a login; under the lock
of the user row it then reads and writes everything in one action (`LoginUser`, or
`LoginReject`) and a COMMIT issues the pair. A refresh is `VerifyRefreshToken`, which checks
the token before the transaction begins, `RotateLockSession` (`select_for_update` with
`select_related` locks the session row first), then one of `RotateReject`, `RotateReuse`,
`RotateExchange`, each of which waits for the user row. `Authenticate` precedes logout,
logout-all and deletion and leaves in `presented[r]` what the endpoint will use, so it
may be stale when used. Logout-all is three kinds of step: `LogoutAll` evaluates
`timezone.now()`, `RevokeAllSnapshot` fixes the rows the UPDATE will visit,
`RevokeAllRow`, `RevokeAllSkip` and `RevokeAllViolation` visit one row each.
Deletion locks and writes the user and continues as logout-all does. A token is its
claims; its signature, the hashing of the refresh token and the HTTP headers are left out. The
clock has `TicksPerSecond` ticks a second: a row keeps `expires_at` to the tick, while
the `exp` claim is cut to whole seconds (`WholeSeconds`), as PyJWT does. The
field `parent` of a pair is history: the token that was exchanged for it.

**RoleAssignments.** A request begins in a stage named for its service function
(`BeginRoleRequest`, `BeginEnrolment`, `BeginDeletion`), with the first row lock still to come.
`AssignRole` locks the user, `AssignLockRole` the role,
`AssignReject` is the two refusals, `AssignInsert` and `AssignConflict` the INSERT
and its IntegrityError. `RevokeRole` locks and revokes the assignment, `RevokeMissing` finds
none. A role has a `code`; `UpdateRole` changes it, except that of a
system role. `Enrol` and `EnrolInsert` are both `register_user` and
`create_initial_admin`: lock the role, insert account, profile and assignment. A user stands for its email
address, so that a second registration meets the first. Role edits are a single step
each, since nothing between their lock and their COMMIT can be seen by others.
`Catalogue` instantiates `Permissions`: a pair is assigned when a committed assignment
that is not revoked says so, a role that does not exist yet counts as active (it
will be when it is created), policies and actions are none. Each COMMIT must be one
of its edits.

**AccessPolicies.** `rows` holds resources and policies together, since the
services treat them alike: `Key` is what the unique index of each is over, the code
of a resource and role, resource and action of a policy. A creation of either kind validates
without locks (`CreateResource`, `CreatePolicy`; `Acceptable`), then inserts (`Insert`), then
commits. An edit has found its row by id when it begins to wait for it (`BeginEdit`). A PATCH
of either kind is then `Update` (lock the row, put the fields into
the object `draft`), `UpdateClean` or `UpdateReject` (the checks of the service and
`full_clean()`), `UpdateSave` (`save()` writes the object back whole). `KeyConflict` is the
IntegrityError of both. What the request carries is chosen when it gets the row: the object
as it will be, and `asked` records the fields in which that differs from the row that was
read. The seed
command takes the resources, then the policies (`SeedTurn`), finds each by its key
and updates it (`SeedUpdate`) or, if an administrator has renamed or moved the row
away, creates another (`SeedCreate`); its policies name the resources it has found. The
order within each group is left open, which only adds behaviours. A *grant* is a role
with an action: the policy key needs no more. The role and action rows the command
locks are one lock each and `SeedStart` takes them at once, where the command takes the
roles first and the actions after the resources; at most one seeder at a time holds them. A
policy that the code lets somebody move to another action in between changes nothing: the command
has read no policy yet, and the rows it has locked by then are not those of the move, so its steps
could as well have come after that COMMIT.

**Permissions and AdminRequests.** The catalogue changes by whole transactions,
because what happens inside them is the subject of the other modules. `SetPolicy` is
`create_policy` or a PATCH, also one that moves the policy to or from another resource, which
is then no policy of this one; `MovePolicy` is a PATCH with another role or action. Neither
they nor `SetHasOwner` are guarded by what the services check of `own` and `has_owner`: the
run `policy_own_race` shows that the check can be passed by, and the seed command writes
both without it. `AdminRequests` runs the
loop of `check_any_permission` one query at a time against those edits.

**BusinessObjects.** `BeginCreate` and `BeginDetail` are POST and `_get`, `Check` is
`_require` with whatever scope the permission service answers, then `ReadObject`,
`CreateObject`, `UpdateObject`, `DeleteObject` or `RejectData`. `req[w].owner` is the
owner that was read before the check; the write uses the object as it is then.
`BeginList` has asked for the scope first, and `ListObjects` then answers with
`Listed`. Orders have owners; products stand for the two collections that have none.

**Profiles.** A request holds the user object that authentication made. `BeginPatch`
reads and caches its profile, `LockProfile` reads the row again under its lock and puts
the names into it, `SaveProfile` writes all of them, `Refresh` is
`refresh_from_db()`, which also forgets the cached profile, and `Show` builds the
answer. `since[w]` is history: what others have committed between the COMMIT of `w`
and its answer, which the answer need not or need show.

## 3. Runs

Passing runs:

| run | instance | distinct states | shows |
| --- | --- | --- | --- |
| `sessions` | 2 users, 2 sessions, 3 tokens, 2 requests, clock 0..2 with 2 ticks a second | 1,080,230 | types and both inductive invariants (`IndInv`, `TokenInv`); a refresh token is exchanged once; the stored hash is that of the unspent token; the row of a session outlives its refresh tokens, by less than a second; no live session of a deleted account; `last_login_at`; revoked rows are frozen; the caller's session ends; `AuthSessions` implements `SessionPromise` |
| `sessions_live` | 1 user, 2 sessions, 2 tokens, 2 requests, clock 0..1 | 74,860 | every request ends, from its first lock wait on |
| `roles_races` | 2 users, 3 roles, 4 codes, 3 assignments, 2 workers | 1,037,344 | the inductive invariant `RoleInv`; uniqueness, usable targets, final revocations, atomic registration with a system role; `RoleAssignments` implements the catalogue of `Permissions` |
| `roles_live` | 2 administrators, 2 roles, 4 assignments, 2 workers | 504,222 | every role request ends, from its first lock wait on, that of two administrators who assign to each other included |
| `profiles` | 1 user, 2 fields, 2 names, 3 workers | 2,428,816 | the inductive invariant `PatchInv`; no name is lost; the answer of a PATCH is of the time after it |
| `policy_edits` | 2 administrators, 2 resources, 2 codes, 2 policies, 1 grant | 439,056 | the inductive invariant `PolicyInv`; codes and policy keys stay unique, no lost update |
| `policy_seed` | 1 administrator, 1 seeder, 2 resources, 2 codes, 2 policies, 1 grant | 144,276 | `PolicyInv` with the parts about the command; the command restores the access it declares, renamed resources included; both end, their deadlock included |
| `access_checks` | 1 user, 2 roles, 2 actions, 1 request | 445,258 | the inductive invariant `GateInv`; deny by default; monotone scopes; who holds the permission all along is let in |
| `orders` | 2 users, 2 orders, 2 products, 2 threads | 489,864 | entitled reads and writes, lists agree with details, owners kept, no revival |

Runs that end in a violation, each a finding about the code:

| run | what happens |
| --- | --- |
| `logout_all` | A login commits after logout-all has computed its timestamp and before its UPDATE has a snapshot. The new session is younger than its revocation, `auth_sessions_revoke_time` refuses the UPDATE, the request answers 500 and *no* session is revoked. |
| `sessions_deadlock` | A refresh holds the session and wants the user, a deletion holds the user and wants the session. |
| `policy_own_race` | `create_policy` reads `has_owner` before the other administrator's COMMIT, `update_resource` looks for own policies before the new one is committed: an active `own` policy is left on a resource without owners, and `check_permission`, which does not look at `has_owner`, goes on granting by it. |

The deadlocks end: PostgreSQL cancels one member and the liveness runs include
that step. The finding is the 500 that its client gets. Two administrators who assign
roles to each other at the same time deadlock as well (each holds the other's row, which
the foreign key `assigned_by` asks for at COMMIT), and so do an administrator and the seed
command; `roles_live` and `policy_seed` contain these cycles and show that they end. Without the
step of the deadlock detector each of the three liveness properties fails: that is
their mutant.

### Bounds, and why they are enough

* Two workers are the fewest that race; every hazard listed for sessions, roles
  and policies is a conflict of two transactions. What more of them could do is
  covered by the proofs, which fix no number. `profiles` has three
  workers: one that answers while two others edit.
* `MaxTime` bounds the clock; `Jtis`, `SessionIds`, `AssignmentIds` and
  `PolicyIds` bound the rows ever created. One tick is enough to tell "before" from
  "after". In `sessions` a second has two ticks, the refresh token lives for three and the access
  token for two, so that logins and rotations fall on whole seconds and between them: tokens
  are cut or not, and those of the first second expire before the row of their session
  does. In `sessions_live` a tick is a second and everything lives for one, so that rows and tokens
  expire while requests wait.
* Two sessions let logout-all meet a row it may change and one it may not, three
  tokens a chain of two rotations and the replay of its first token.
* Two codes for two resources let them be renamed into each other's way, and with one
  grant there are two policy keys on which PATCH and POST meet. `policy_edits` asks for the
  scopes `own` and `all`; the administrator of `policy_seed` asks for `all`, against the
  `own` that the command declares. In `roles_races` two codes beside those of the system
  roles let the third role be renamed; its `RacesBound` lets nobody assign a role to himself
  and only `create_initial_admin` give that of the administrator.
* `roles_live` starts from a reachable state: `create_initial_admin` has run once for each
  of two accounts (`Administrators`). They may then assign and revoke each other's roles
  (`OnOthers`) and delete their accounts, while others try to register their addresses. The
  two ids that are left are enough for both to be in the INSERT at once.
* `access_checks` has two roles so that scopes overlap, and one request, because
  requests only read. `OneRoleCreates` lets only one of the roles have policies for the
  action `create`; for `manage`, the action that every endpoint asks for, both may.
* Symmetry is used over identifiers that no definition distinguishes (in `policy_edits` these
  are the resources, the policies and the codes as well as the administrators, since no command
  names any of them) and never in a run of a liveness property.
* `CHECK_DEADLOCK FALSE` is set for `AuthSessions` alone: when the clock has
  stopped, the tokens are spent and the last access token has expired, nothing more can
  happen in that instance. All other runs check that the model never stops.

### Fairness

`GoesOn(w)` is what the code of a request does next of its own accord, at whatever stage it
is: its next statement, its answer, COMMIT, or the cancellation by the deadlock detector.
`Fairness` is strong fairness of it for each worker. A thread of the server is scheduled
again, so that a step which stays possible is taken; where a statement waits for a row,
PostgreSQL queues the waiters, so that it gets the row in the end even if others take it in
between, and that makes the fairness strong; the detector runs after `deadlock_timeout`. One condition for
the whole of `GoesOn` is enough, because at each stage a request has one next statement,
whose outcome the database decides. The beginning of a request is no part of it, since no client is
obliged to send anything, and no crash, tick or refused permission is either. But a request
that has begun counts from then on: its wait for the first row is a stage of its own, and
must end too. The liveness
properties of sessions and roles except the states in which a worker wants a fresh
id and the finite pool of the instance is exhausted (`OutOfJtis`, `OutOfIds`),
because a fresh uuid4 is always to be had.

## 4. Proofs

Every type invariant, safety invariant, action property and refinement that a passing
run checks is also proved, for all values of the constants that satisfy the named
assumptions:

* `NULL` is no row, key or worker; keys of different tables are different
  (`NullAssumption`, `IdsAssumption`, `KeysAssumption`, `RowsAssumption`); a name of a
  profile is not its flag `is_active` (`FieldsAssumption`);
* lifetimes of tokens are naturals and that of the refresh token is positive, the clock is a
  natural and a second has at least one tick (`TTLAssumption`, `ClockAssumption`,
  `SecondAssumption`);
* requests ask for scopes and actions that exist (`ScopesAssumption`, `RequiredAssumption`);
* `RolesAssumption`: the roles `user` and `admin` are two system roles, as
  the seed command makes them;
* `SeedAssumption`: what the seed command declares is well formed, and no
  two of its rows have one key (`RESOURCES` is a dictionary, and no role names a resource and
  an action twice in `ROLE_POLICIES`).

TLC evaluates the assumptions in every run. The inductive invariants are invariants of
runs too (each has the `TypeOK` of its module as a conjunct), so each proof began with a
formula that TLC had found to hold.

### The argument

All the invariants of transactions have one form: what a worker that
has reached stage `pc[w]` has locked, what it has in memory and in `tx[w]`, and
that committed rows it relies on cannot change under its locks. A property of committed
rows is then an argument about COMMIT alone, and two conflicting transactions are excluded
because each would hold the same lock.

* **AuthSessionsProofs** (`Invariance`, `TypeCorrectness`, `DeletionSafety`,
  `RevocationIsFinal`). `DeletedAccountHasNoLiveSession` is not inductive: a
  transaction may be about to commit a live session, or a deletion about to commit
  with sessions it has not visited. `IndInv` adds what the code relies on, in parts:
  `ClockOK` (stamps are never in the future, so a revocation at `now` passes its CHECK),
  `ReferencesOK` (tokens point to sessions), `WritesOK` (a transaction holds
  the lock of every row it has written, and a pending session row was not revoked
  when written), `IssuingOK` (whoever is about to commit a live session
  holds the row of its account, which is usable), `DeletingOK` (whoever is about to commit
  a deletion has written or will visit each live session). `IssuingOK` and
  `DeletingOK` cannot both hold the lock of one user: that is the proof. There
  is one lemma for each action, `CommitStep` carries the two facts from pending to
  committed rows, and `NextStep` assembles them.
* **SessionTokensProofs** (`TokenInvariance`, `SingleUse`, `StoredHashIsCurrent`,
  `RowOutlivesTokens`, `LoginIsRecorded`, `CallerIsLoggedOut`, `PromiseIsKept`). `TokenInv` stands
  on `IndInv`. `StageOK` says what each stage has written: a rotation that is about to commit
  holds the session whose stored hash is that of the token it was sent, and nobody has
  exchanged this token; a login has written its session and the `last_login_at` of
  the user it has locked. So a second exchange of a token would have to find its hash stored
  after the first has replaced it. For `RowOutlivesTokens` the invariant says that the row of
  a session ends `RefreshTTL` after the issue of its current token, to the tick, and that no token of it
  was issued later; what is left is that `WholeSeconds` takes away less than a second
  (`WholeSecondsBound`). `CallerSessionOK` follows the session of an
  authenticated request to its COMMIT: it is revoked, or revoked in `tx[r]`, or among
  the rows still to be visited. `PromiseIsKept` is the step simulation: a COMMIT of a login
  or a rotation is one step of `SessionPromise`, so is one that revokes, and each
  other step leaves its variables as they are.
* **RoleAssignmentsProofs** (`RoleInvariance`, `TypeCorrect`, `AccountsAreEnrolled`,
  `UsableUsersAreAssigned`, `RevokedIsHistory`, `CatalogueIsImplemented`). `RoleInv`
  says that an assignment about to be inserted has its user and its role locked, usable and
  active; that whoever revokes holds the assignment; that pending rows have ids and keys
  of their own; and that the system roles keep their codes, without which registration
  would find another role. The simulation of the catalogue uses the invariant before and
  after a step: a COMMIT assigns, takes away or changes nothing visible, an edit of a role
  switches it.
* **AccessPoliciesProofs** (`PolicyInvariance`, `TypeCorrect`, `ForeignFieldsAreKept`,
  `SeedIsARestore`). `WritesOK` is what the unique index and the row locks give a
  pending row: who writes a committed row holds it, and the row agrees with it outside
  the fields in `asked`; no committed and no other pending row has its key. `EditOK` says the
  same of the object in memory between lock and UPDATE. `SeedOK` ties what the command has
  written to what it has still to do, in both directions (`Stands`). `SeedKeyIsNew` is the
  heart of it: the command may meet its resources under other ids than in its first run, and
  still two of its policies never get one key, because two codes never lead to one row.
* **ProfilesProofs** (`PatchInvariance`, `TypeCorrect`, `AnswerIsCurrent`,
  `ForeignNamesAreKept`). `PatchInv`: a request about to save holds the committed profile
  with its own names put into it; one that has saved finds its names there, but for those in
  `since`.
* **PermissionsProofs.** `DenyByDefault`, `WithdrawalIsSafe`, `ExtensionIsSafe`,
  from two lemmas on `Strongest` (it is a maximum of the set and monotone in it) and one on
  what the query returns before and after an edit.
* **AdminRequestsProofs** (`CatalogueIsKept`, `GateInvariance`, `TypeCorrect`, `HoldersGetIn`,
  `PermissionsAreKept`). Requests do not write the catalogue, so `Spec` implies
  `CatalogueSpec` and the theorems of `PermissionsProofs` hold of it. `GateInv`: an action
  that the caller has held since the request began is held still and has not been asked for yet.
* **BusinessObjectsProofs.** `EntitledAccess`, from `ReadsAreCurrent`: the object
  that a request has read is either gone or still belongs to the same owner,
  because ids are never used again and no write changes an owner. `ListsMatchDetails`
  follows from the type invariant (orders have owners, products none), `NoRevival`
  from `spent`: a new object has an id that was never given out.

### Model-checked only

`RequestsFinish` of sessions and of roles and `WorkersFinish`: they rest on fairness, hence
on ENABLED, which the prover does not treat. The cycles in `InCycle` are
computed by `TransitiveClosure`; no proof needs to know more of it than that a victim rolls
back. The three findings are violations and have nothing to prove.

## 5. Not modelled

* Token encoding, signatures, password hashing, normalisation of emails, codes and
  names, field validation, the wording of errors: data that no property tells apart.
* `create_action` and `update_action` have no action of their own: an access action is
  a row with a unique code, and what is done to it is what is done to a resource
  without owner. In a policy it comes as one with its role.
* The reading endpoints of the access API, which change nothing.
* The serializers, the OpenAPI schema and the migrations: declarations
  without state. The constraints that the migrations create are those of the models.
* Clock skew: the project deploys one server, and the models have one clock. With
  clocks that differ the CHECK on `revoked_at` could also refuse an ordinary logout.
* Isolation levels other than READ COMMITTED: the settings choose none.
* Emails: a user stands for an email address. The unique index over `Lower(email)`
  spans deleted accounts too, so the address of a deleted account cannot be registered
  again, while step 2 of `src/docs/access-control-design.md` section 5.1 asks only that no
  *active* user has it. No run shows this: the model has it by construction.

## 6. Plan

Written in this order, the most important behaviour first: `AuthSessions` and its
promise and proofs; `AccessPolicies`; `RoleAssignments`; `Permissions` and
`AdminRequests`; `BusinessObjects`; the proofs about the last two; `Profiles`, and the
refinement from `RoleAssignments` to `Permissions`.

The proofs came in the order of the list in section 4. Open is what section 5 leaves out and an
abstract specification of `AccessPolicies` alone: the catalogue of `Permissions` is too fine for
it, since one PATCH may move a policy to another resource and give it another scope, and one run
of the command writes all its rows.
