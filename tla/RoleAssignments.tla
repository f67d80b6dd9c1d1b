-------------------------- MODULE RoleAssignments --------------------------
(***************************************************************************)
(* Who holds which role: role assignments made and revoked by concurrent   *)
(* administrators while accounts are registered and deleted and roles are  *)
(* renamed and switched on and off.                                        *)
(*                                                                         *)
(* A service function is one READ COMMITTED transaction.  It waits for row *)
(* locks (select_for_update), for uncommitted rows of the same unique key  *)
(* (INSERT), and at COMMIT for the rows its new foreign keys point to,     *)
(* whose constraints Django declares DEFERRABLE INITIALLY DEFERRED.        *)
(***************************************************************************)
EXTENDS Integers, Relation

CONSTANTS
    Users,          \* auth_users, one for each email address
    Roles,          \* access_roles
    OtherCodes,     \* codes of roles, besides "user" and "admin"
    DefaultRole,    \* the role that seed_access_control gives code "user"
    AdminRole,      \* and the one it gives code "admin"
    AssignmentIds,
    Workers,        \* threads of the server and processes of the commands
    NULL

SystemRoles == {DefaultRole, AdminRole}
Rows == Users \cup Roles \cup AssignmentIds

ASSUME RolesAssumption == SystemRoles \subseteq Roles /\ DefaultRole # AdminRole
ASSUME RowsAssumption ==
    /\ Users \cap Roles = {}
    /\ Users \cap AssignmentIds = {}
    /\ Roles \cap AssignmentIds = {}

Codes == {"user", "admin"} \cup OtherCodes

RoleRow == [code : Codes, is_system : BOOLEAN, is_active : BOOLEAN]

AssignmentRow == [user        : Users,
                  role        : Roles,
                  assigned_by : Users \cup {NULL},
                  revoked     : BOOLEAN,
                  revoked_by  : Users \cup {NULL}]

\* Who asks, NULL for a registration and for a command, and for what.
Job == [caller : Users \cup {NULL}, user : Users, role : Roles \cup {NULL}]

ASSUME NullAssumption ==
    NULL \notin Rows \cup Workers \cup RoleRow \cup AssignmentRow \cup Job
                  \cup {"usable", "deleted"}

VARIABLES
    users,        \* the committed accounts: NULL, "usable" or "deleted"
    roles,        \* the committed roles, NULL where there is none
    assignments,  \* the committed assignments, NULL where there is none
    lock,         \* the transaction that locked a row FOR UPDATE
    pc,           \* the stage of each worker
    job,          \* the arguments of its service function
    tx            \* uncommitted writes, NULL where there is none

vars == <<users, roles, assignments, lock, pc, job, tx>>
database == <<users, roles, assignments>>

\* Called, the first row lock still to come.
Calls == {"assign_role", "revoke_role", "register_user",
          "create_initial_admin", "soft_delete_account"}

Stages == Calls \cup
    {"idle",
     "assigning",   \* assign_role has locked the user
     "inserting",   \* and the role, and accepted both
     "enrolling",   \* register_user or create_initial_admin has its role
     "committing"}  \* the last statement is done, COMMIT to come

NoWrites == [users       |-> [u \in Users |-> NULL],
             assignments |-> [a \in AssignmentIds |-> NULL]]

Rowful(table) == {k \in DOMAIN table : table[k] # NULL}

IsActive(row, u, x) == row.user = u /\ row.role = x /\ ~ row.revoked

\* The types, and on the committed rows the unique codes of roles and
\* access_user_role_active_uniq.
TypeOK ==
    /\ users \in [Users -> {"usable", "deleted", NULL}]
    /\ roles \in [Roles -> RoleRow \cup {NULL}]
    /\ assignments \in [AssignmentIds -> AssignmentRow \cup {NULL}]
    /\ lock \in [Rows -> Workers \cup {NULL}]
    /\ pc \in [Workers -> Stages]
    /\ job \in [Workers -> Job \cup {NULL}]
    /\ tx \in [Workers ->
                 [users       : [Users -> {"usable", "deleted", NULL}],
                  assignments : [AssignmentIds -> AssignmentRow \cup {NULL}]]]
    /\ \A x, y \in Rowful(roles) : roles[x].code = roles[y].code => x = y
    /\ \A a, b \in Rowful(assignments) :
          a # b => ~ \E u \in Users, x \in Roles :
                        IsActive(assignments[a], u, x) /\ IsActive(assignments[b], u, x)

\* seed_access_control has run and no transaction is open.
Seeded ==
    /\ roles = [x \in Roles |-> IF x \in SystemRoles
                                THEN [code |-> IF x = DefaultRole THEN "user" ELSE "admin",
                                      is_system |-> TRUE, is_active |-> TRUE]
                                ELSE NULL]
    /\ lock = [x \in Rows |-> NULL]
    /\ pc = [w \in Workers |-> "idle"]
    /\ job = [w \in Workers |-> NULL]
    /\ tx = [w \in Workers |-> NoWrites]

\* Nobody has registered.
Init ==
    /\ Seeded
    /\ users = [u \in Users |-> NULL]
    /\ assignments = [a \in AssignmentIds |-> NULL]

-----------------------------------------------------------------------------
(* Locks, keys and transactions.                                           *)

Free(x) == lock[x] = NULL

\* Other transactions that have inserted or revoked an assignment of u to x.
AssignmentWriters(w, u, x) ==
    {v \in Workers \ {w} :
        \E a \in Rowful(tx[v].assignments) :
            \/ IsActive(tx[v].assignments[a], u, x)
            \/ assignments[a] # NULL /\ IsActive(assignments[a], u, x)}

\* Other transactions that have inserted the account of u.
AccountWriters(w, u) ==
    {v \in Workers \ {w} : users[u] = NULL /\ tx[v].users[u] # NULL}

HasRole(u, x) == \E a \in Rowful(assignments) : IsActive(assignments[a], u, x)

FreshId(a) == assignments[a] = NULL /\ \A v \in Workers : tx[v].assignments[a] = NULL

\* The users named by assigned_by and revoked_by columns that w has written:
\* COMMIT asks for their KEY SHARE locks.
NamedUsers(w) ==
    {tx[w].assignments[a].assigned_by :
        a \in {b \in Rowful(tx[w].assignments) : assignments[b] = NULL}}
    \cup {tx[w].assignments[a].revoked_by : a \in Rowful(tx[w].assignments)}

Merge(table, writes) ==
    [k \in DOMAIN table |-> IF writes[k] = NULL THEN table[k] ELSE writes[k]]

Finish(w) ==
    /\ lock' = [x \in Rows |-> IF lock[x] = w THEN NULL ELSE lock[x]]
    /\ pc' = [pc EXCEPT ![w] = "idle"]
    /\ job' = [job EXCEPT ![w] = NULL]
    /\ tx' = [tx EXCEPT ![w] = NoWrites]

Rollback(w) == Finish(w) /\ UNCHANGED database

Commit(w) ==
    /\ pc[w] = "committing"
    /\ \A u \in NamedUsers(w) \cap Users : lock[u] \in {NULL, w}
    /\ users' = Merge(users, tx[w].users)
    /\ assignments' = Merge(assignments, tx[w].assignments)
    /\ Finish(w)
    /\ UNCHANGED roles

Assignment(u, x, by) == [user |-> u, role |-> x, assigned_by |-> by,
                         revoked |-> FALSE, revoked_by |-> NULL]

-----------------------------------------------------------------------------
(* A request begins: JWTAuthentication has found its caller usable, who    *)
(* may be deleted by the time the function runs, and get_user_and_role the *)
(* user and the role.                                                      *)

Call(w, function, c, u, x) ==
    /\ pc[w] = "idle"
    /\ job' = [job EXCEPT ![w] = [caller |-> c, user |-> u, role |-> x]]
    /\ pc' = [pc EXCEPT ![w] = function]
    /\ UNCHANGED <<database, lock, tx>>

BeginRoleRequest(w, function, c, u, x) ==
    /\ users[c] = "usable"
    /\ users[u] # NULL
    /\ roles[x] # NULL
    /\ Call(w, function, c, u, x)

BeginEnrolment(w, function, u) == Call(w, function, NULL, u, NULL)

BeginDeletion(w, u) ==
    /\ users[u] = "usable"
    /\ Call(w, "soft_delete_account", u, u, NULL)

-----------------------------------------------------------------------------
(* POST /access/users/{id}/roles: assign_role                              *)

\* Mutant: the user is read without select_for_update().
AssignRole_Unlocked(w) ==
    /\ pc[w] = "assign_role"
    /\ pc' = [pc EXCEPT ![w] = "assigning"]
    /\ UNCHANGED <<database, lock, job, tx>>

AssignRole(w) ==
    /\ pc[w] = "assign_role"
    /\ Free(job[w].user)
    /\ lock' = [lock EXCEPT ![job[w].user] = w]
    /\ pc' = [pc EXCEPT ![w] = "assigning"]
    /\ UNCHANGED <<database, job, tx>>

MayAssign(u, x) == users[u] = "usable" /\ roles[x].is_active

\* Mutant: the role is read without select_for_update().
AssignLockRole_Unlocked(w) ==
    /\ pc[w] = "assigning"
    /\ MayAssign(job[w].user, job[w].role)
    /\ pc' = [pc EXCEPT ![w] = "inserting"]
    /\ UNCHANGED <<database, lock, job, tx>>

AssignLockRole(w) ==
    /\ pc[w] = "assigning"
    /\ Free(job[w].role)
    /\ MayAssign(job[w].user, job[w].role)
    /\ lock' = [lock EXCEPT ![job[w].role] = w]
    /\ pc' = [pc EXCEPT ![w] = "inserting"]
    /\ UNCHANGED <<database, job, tx>>

\* InactiveUserError or InactiveRoleError
AssignReject(w) ==
    /\ pc[w] = "assigning"
    /\ Free(job[w].role)
    /\ ~ MayAssign(job[w].user, job[w].role)
    /\ Rollback(w)

WriteAssignment(w, a) ==
    /\ FreshId(a)
    /\ tx' = [tx EXCEPT ![w].assignments[a] =
                Assignment(job[w].user, job[w].role, job[w].caller)]
    /\ pc' = [pc EXCEPT ![w] = "committing"]

\* Mutant: the table has no constraint access_user_role_active_uniq.
AssignInsert_NoConstraint(w, a) ==
    /\ pc[w] = "inserting"
    /\ WriteAssignment(w, a)
    /\ UNCHANGED <<database, lock, job>>

AssignInsert(w, a) ==
    /\ pc[w] = "inserting"
    /\ AssignmentWriters(w, job[w].user, job[w].role) = {}
    /\ ~ HasRole(job[w].user, job[w].role)
    /\ WriteAssignment(w, a)
    /\ UNCHANGED <<database, lock, job>>

\* IntegrityError: RoleAlreadyAssignedError
AssignConflict(w) ==
    /\ pc[w] = "inserting"
    /\ AssignmentWriters(w, job[w].user, job[w].role) = {}
    /\ HasRole(job[w].user, job[w].role)
    /\ Rollback(w)

-----------------------------------------------------------------------------
(* DELETE /access/users/{id}/roles/{id}: revoke_role                       *)

WriteRevocation(w, a) ==
    /\ pc[w] = "revoke_role"
    /\ assignments[a] # NULL
    /\ IsActive(assignments[a], job[w].user, job[w].role)
    /\ tx' = [tx EXCEPT ![w].assignments[a] =
                [assignments[a] EXCEPT !.revoked = TRUE,
                                       !.revoked_by = job[w].caller]]
    /\ pc' = [pc EXCEPT ![w] = "committing"]

\* Mutant: the assignment is read without select_for_update().
RevokeRole_Unlocked(w, a) ==
    /\ WriteRevocation(w, a)
    /\ UNCHANGED <<database, lock, job>>

RevokeRole(w, a) ==
    /\ Free(a)
    /\ lock' = [lock EXCEPT ![a] = w]
    /\ WriteRevocation(w, a)
    /\ UNCHANGED <<database, job>>

\* ActiveRoleAssignmentNotFoundError
RevokeMissing(w) ==
    /\ pc[w] = "revoke_role"
    /\ ~ HasRole(job[w].user, job[w].role)
    /\ Rollback(w)

-----------------------------------------------------------------------------
(* Accounts: register_user gives the default role, create_initial_admin    *)
(* the admin role; both find the role by its code and lock it before they  *)
(* insert the account.  That there is none is left out: CatalogueOK.       *)

EnrolledCode(w) == IF pc[w] = "register_user" THEN "user" ELSE "admin"

Enrol(w, x) ==
    /\ pc[w] \in {"register_user", "create_initial_admin"}
    /\ roles[x] # NULL
    /\ roles[x].code = EnrolledCode(w)
    /\ roles[x].is_active
    /\ Free(x)
    /\ lock' = [lock EXCEPT ![x] = w]
    /\ job' = [job EXCEPT ![w].role = x]
    /\ pc' = [pc EXCEPT ![w] = "enrolling"]
    /\ UNCHANGED <<database, tx>>

\* Mutant: there is no transaction.atomic(), each INSERT commits on its own.
EnrolInsert_Autocommit(w, a) ==
    /\ pc[w] = "enrolling"
    /\ users[job[w].user] = NULL
    /\ FreshId(a)
    /\ users' = [users EXCEPT ![job[w].user] = "usable"]
    /\ tx' = [tx EXCEPT ![w].assignments[a] =
                Assignment(job[w].user, job[w].role, NULL)]
    /\ pc' = [pc EXCEPT ![w] = "committing"]
    /\ UNCHANGED <<roles, assignments, lock, job>>

\* INSERT of the account waits for another one of the same email.
EnrolInsert(w, a) ==
    LET u == job[w].user IN
    /\ pc[w] = "enrolling"
    /\ AccountWriters(w, u) = {}
    /\ users[u] = NULL
    /\ FreshId(a)
    /\ tx' = [tx EXCEPT ![w].users[u] = "usable",
                        ![w].assignments[a] = Assignment(u, job[w].role, NULL)]
    /\ pc' = [pc EXCEPT ![w] = "committing"]
    /\ UNCHANGED <<database, lock, job>>

\* IntegrityError: EmailAlreadyExistsError, or CommandError
EnrolConflict(w) ==
    /\ pc[w] = "enrolling"
    /\ AccountWriters(w, job[w].user) = {}
    /\ users[job[w].user] # NULL
    /\ Rollback(w)

\* DELETE /profile/me as far as the account goes: soft_delete_account
DeleteAccount(w) ==
    LET u == job[w].user IN
    /\ pc[w] = "soft_delete_account"
    /\ Free(u)
    /\ lock' = [lock EXCEPT ![u] = w]
    /\ tx' = [tx EXCEPT ![w].users[u] = "deleted"]
    /\ pc' = [pc EXCEPT ![w] = "committing"]
    /\ UNCHANGED <<database, job>>

-----------------------------------------------------------------------------
(* Roles.  Nothing lies between the last statement and COMMIT that another *)
(* transaction could see, so each is one step.                             *)

CodeTaken(code) == \E x \in Rowful(roles) : roles[x].code = code

CreateRole(x, code) ==
    /\ roles[x] = NULL
    /\ ~ CodeTaken(code)
    /\ roles' = [roles EXCEPT ![x] = [code |-> code, is_system |-> FALSE,
                                      is_active |-> TRUE]]
    /\ UNCHANGED <<users, assignments, lock, pc, job, tx>>

\* Mutant: the code of a system role may be changed like any other.
UpdateRole_SystemToo(x, code) ==
    /\ roles[x] # NULL
    /\ Free(x)
    /\ ~ CodeTaken(code)
    /\ roles' = [roles EXCEPT ![x].code = code]
    /\ UNCHANGED <<users, assignments, lock, pc, job, tx>>

\* update_role with another code
UpdateRole(x, code) ==
    /\ roles[x] # NULL
    /\ Free(x)
    /\ ~ roles[x].is_system
    /\ ~ CodeTaken(code)
    /\ roles' = [roles EXCEPT ![x].code = code]
    /\ UNCHANGED <<users, assignments, lock, pc, job, tx>>

SetRoleActive(x, is_active) ==
    /\ roles[x] # NULL
    /\ Free(x)
    /\ roles[x].is_system => is_active
    /\ roles' = [roles EXCEPT ![x].is_active = is_active]
    /\ UNCHANGED <<users, assignments, lock, pc, job, tx>>

-----------------------------------------------------------------------------
(* Failures.                                                               *)

\* The transactions a worker waits for while it holds locks or keys; at its
\* first lock wait it holds none and no cycle goes through it.
Blockers(w) ==
    CASE pc[w] = "assigning"  -> {lock[job[w].role]}
      [] pc[w] = "inserting"  -> AssignmentWriters(w, job[w].user, job[w].role)
      [] pc[w] = "enrolling"  -> AccountWriters(w, job[w].user)
      [] pc[w] = "committing" -> {lock[u] : u \in NamedUsers(w) \cap Users}
      [] OTHER                -> {}

WaitsFor(w, v) == v # w /\ v \in Blockers(w)

WaitsForGraph == [e \in Workers \X Workers |-> WaitsFor(e[1], e[2])]

InCycle(w) ==
    /\ \E v \in Workers : WaitsFor(w, v)
    /\ TransitiveClosure(WaitsForGraph, Workers)[w, w]

\* Mutant: the cancelled statement is sent again, its transaction left open.
DeadlockVictim_Retries(w) == InCycle(w) /\ UNCHANGED vars

\* PostgreSQL cancels one transaction of a cycle: 500 internal_error
DeadlockVictim(w) == InCycle(w) /\ Rollback(w)

\* The process of the worker dies, or its connection does.
Crash(w) == pc[w] # "idle" /\ Rollback(w)

-----------------------------------------------------------------------------
Request(w) ==
    \/ \E function \in {"assign_role", "revoke_role"}, c, u \in Users, x \in Roles :
          BeginRoleRequest(w, function, c, u, x)
    \/ \E function \in {"register_user", "create_initial_admin"}, u \in Users :
          BeginEnrolment(w, function, u)
    \/ \E u \in Users : BeginDeletion(w, u)

ServeRequest(w) ==
    \/ AssignRole(w)
    \/ AssignLockRole(w)
    \/ AssignReject(w)
    \/ \E a \in AssignmentIds : AssignInsert(w, a)
    \/ AssignConflict(w)
    \/ \E a \in AssignmentIds : RevokeRole(w, a)
    \/ RevokeMissing(w)
    \/ \E x \in Roles : Enrol(w, x)
    \/ \E a \in AssignmentIds : EnrolInsert(w, a)
    \/ EnrolConflict(w)
    \/ DeleteAccount(w)
    \/ Commit(w)

Next ==
    \/ \E w \in Workers :
          Request(w) \/ ServeRequest(w) \/ DeadlockVictim(w) \/ Crash(w)
    \/ \E x \in Roles, code \in Codes : CreateRole(x, code) \/ UpdateRole(x, code)
    \/ \E x \in Roles, b \in BOOLEAN : SetRoleActive(x, b)

Spec == Init /\ [][Next]_vars

\* A worker goes on with what it has begun; who waits is queued by PostgreSQL
\* and gets its turn in the end.
GoesOn(w) == ServeRequest(w) \/ DeadlockVictim(w)

Fairness == \A w \in Workers : SF_vars(GoesOn(w))

FairSpec == Spec /\ Fairness

-----------------------------------------------------------------------------
(* Properties.                                                             *)

\* Whenever an assignment comes into being its user is a usable account and
\* its role is active, at the COMMIT and not just when assign_role looked.
AssignedWhileUsable ==
    [][\A a \in AssignmentIds :
         assignments[a] = NULL /\ assignments'[a] # NULL
            => /\ users'[assignments'[a].user] = "usable"
               /\ roles'[assignments'[a].role].is_active]_vars

\* A revoked assignment is history: who revoked it is never overwritten and no
\* request makes it active again; a new assignment is a new row.
RevokedAssignmentIsFrozen ==
    [][\A a \in Rowful(assignments) :
         assignments[a].revoked => assignments'[a] = assignments[a]]_vars

\* An account never exists without the role it was enrolled with, whatever
\* step of the registration fails or is cut off, and this role is one that
\* the seed command made, whatever roles have been created and renamed since.
EveryAccountWasEnrolled ==
    \A u \in Users : users[u] # NULL =>
        \E a \in Rowful(assignments) :
            /\ assignments[a].user = u
            /\ assignments[a].role \in SystemRoles
            /\ assignments[a].assigned_by = NULL

\* A new assignment needs an id, and the model has only AssignmentIds.
OutOfIds ==
    /\ ~ \E a \in AssignmentIds : FreshId(a)
    /\ \E w \in Workers : pc[w] \in {"inserting", "enrolling"}

\* Every request is answered or cut off by a crash: no wait for a row, a key
\* or a foreign key lasts for ever, and no cycle of administrators who assign
\* to each other stays closed.
RequestsFinish ==
    \A w \in Workers : pc[w] # "idle" ~> (pc[w] = "idle" \/ OutOfIds)

\* The roles that users hold, as the permission service sees them: whatever
\* the transactions do inside, what they commit is a change that Permissions
\* knows, so that only active roles are assigned and each COMMIT gives, takes
\* or switches one role.  Policies and actions are constant here.
Catalogue == INSTANCE Permissions WITH
    Actions <- {},
    assigned <- {<<assignments[a].user, assignments[a].role>> :
                   a \in {b \in Rowful(assignments) : ~ assignments[b].revoked}},
    activeRoles <- {x \in Roles : roles[x] = NULL \/ roles[x].is_active},
    activeActions <- {},
    resource <- [has_owner |-> TRUE, is_active |-> TRUE],
    policies <- [k \in {} |-> NULL]

ImplementsCatalogue == Catalogue!CatalogueSpec

-----------------------------------------------------------------------------
(* Why the safety properties hold: what a transaction has locked and       *)
(* written by the stage it has reached.                                    *)

OnlyWrites(w, U, A) ==
    /\ \A u \in Users : tx[w].users[u] # NULL <=> u \in U
    /\ \A a \in AssignmentIds : tx[w].assignments[a] # NULL <=> a \in A

\* assign_role is about to commit assignment a.
Assigns(w, a) ==
    LET row == tx[w].assignments[a] IN
    /\ OnlyWrites(w, {}, {a})
    /\ assignments[a] = NULL
    /\ ~ row.revoked
    /\ roles[row.role] # NULL
    /\ MayAssign(row.user, row.role)
    /\ lock[row.user] = w /\ lock[row.role] = w

\* register_user or create_initial_admin is about to commit account u.
Enrols(w, u, a) ==
    LET row == tx[w].assignments[a] IN
    /\ OnlyWrites(w, {u}, {a})
    /\ users[u] = NULL /\ assignments[a] = NULL
    /\ tx[w].users[u] = "usable"
    /\ row.user = u /\ row.assigned_by = NULL /\ ~ row.revoked
    /\ row.role \in SystemRoles
    /\ roles[row.role].is_active
    /\ lock[row.role] = w

Revokes(w, a) ==
    /\ OnlyWrites(w, {}, {a})
    /\ assignments[a] # NULL
    /\ ~ assignments[a].revoked
    /\ lock[a] = w
    /\ tx[w].assignments[a] =
          [assignments[a] EXCEPT !.revoked = TRUE,
                                 !.revoked_by = tx[w].assignments[a].revoked_by]

Deletes(w, u) ==
    /\ OnlyWrites(w, {u}, {})
    /\ users[u] # NULL
    /\ lock[u] = w
    /\ tx[w].users[u] = "deleted"

StageOK(w) ==
    /\ pc[w] # "committing" => OnlyWrites(w, {}, {})
    /\ pc[w] \in Calls \cup {"assigning", "inserting", "enrolling"} => job[w] # NULL
    /\ pc[w] \in {"assign_role", "assigning", "inserting"} =>
          /\ users[job[w].user] # NULL
          /\ job[w].role \in Roles
          /\ roles[job[w].role] # NULL
    /\ pc[w] = "soft_delete_account" => users[job[w].user] # NULL
    /\ pc[w] \in {"assigning", "inserting"} => lock[job[w].user] = w
    /\ pc[w] = "inserting" =>
          /\ MayAssign(job[w].user, job[w].role)
          /\ lock[job[w].role] = w
    /\ pc[w] = "enrolling" =>
          /\ job[w].role \in SystemRoles
          /\ roles[job[w].role].is_active
          /\ lock[job[w].role] = w
    /\ pc[w] = "committing" =>
          \/ \E a \in AssignmentIds : Assigns(w, a)
          \/ \E u \in Users, a \in AssignmentIds : Enrols(w, u, a)
          \/ \E a \in AssignmentIds : Revokes(w, a)
          \/ \E u \in Users : Deletes(w, u)

\* Two transactions write different rows, and no two active assignments of
\* one user to one role, committed or not.
Apart(v, w) ==
    /\ \A u \in Users : tx[v].users[u] = NULL \/ tx[w].users[u] = NULL
    /\ \A a \in AssignmentIds :
          tx[v].assignments[a] = NULL \/ tx[w].assignments[a] = NULL
    /\ \A a, b \in AssignmentIds, u \in Users, x \in Roles :
          tx[v].assignments[a] # NULL /\ tx[w].assignments[b] # NULL
            => ~ (IsActive(tx[v].assignments[a], u, x) /\ IsActive(tx[w].assignments[b], u, x))

KeysOK ==
    /\ \A v, w \in Workers : v # w => Apart(v, w)
    /\ \A w \in Workers, a \in AssignmentIds : tx[w].assignments[a] # NULL =>
          \A u \in Users, x \in Roles :
             IsActive(tx[w].assignments[a], u, x) => ~ HasRole(u, x)

\* The roles of the seed command keep their codes, an assignment its account.
CatalogueOK ==
    /\ \A x \in SystemRoles : roles[x] # NULL /\ roles[x].is_system
    /\ roles[DefaultRole].code = "user" /\ roles[AdminRole].code = "admin"
    /\ \A a \in AssignmentIds :
          assignments[a] # NULL => users[assignments[a].user] # NULL

RoleInv ==
    /\ TypeOK
    /\ \A w \in Workers : StageOK(w)
    /\ KeysOK
    /\ CatalogueOK
    /\ EveryAccountWasEnrolled
=============================================================================
