----------------------- MODULE RoleAssignmentsProofs -----------------------
(***************************************************************************)
(* Proofs about role assignments for any number of users, roles and        *)
(* concurrent transactions: RoleInv is an inductive invariant.  With it    *)
(* only usable users get active roles, no account is without its role,     *)
(* and what the transactions commit are changes of the catalogue that      *)
(* Permissions knows.                                                      *)
(***************************************************************************)
EXTENDS RoleAssignments, TLAPS

-----------------------------------------------------------------------------
(* Types.                                                                  *)

Writes == [users       : [Users -> {"usable", "deleted", NULL}],
           assignments : [AssignmentIds -> AssignmentRow \cup {NULL}]]

\* No row, worker or job is NULL.
LEMMA NullIsNoRow ==
    /\ NULL \notin Users /\ NULL \notin Roles /\ NULL \notin AssignmentIds
    /\ NULL \notin Workers
    /\ NULL \notin RoleRow /\ NULL \notin AssignmentRow /\ NULL \notin Job
    /\ NULL # "usable" /\ NULL # "deleted"
  BY NullAssumption DEF Rows

\* The fields of the rows and of a job.
LEMMA Fields ==
    /\ \A row \in RoleRow : /\ row.code \in Codes
                            /\ row.is_system \in BOOLEAN /\ row.is_active \in BOOLEAN
    /\ \A row \in AssignmentRow : /\ row.user \in Users /\ row.role \in Roles
                                  /\ row.assigned_by \in Users \cup {NULL}
                                  /\ row.revoked \in BOOLEAN
                                  /\ row.revoked_by \in Users \cup {NULL}
    /\ \A j \in Job : /\ j.user \in Users /\ j.role \in Roles \cup {NULL}
                      /\ j.caller \in Users \cup {NULL}
  BY DEF RoleRow, AssignmentRow, Job

\* A transaction that has written nothing.
LEMMA NoWritesType ==
    /\ NoWrites \in Writes
    /\ \A u \in Users : NoWrites.users[u] = NULL
    /\ \A a \in AssignmentIds : NoWrites.assignments[a] = NULL
  BY DEF NoWrites, Writes

\* The part of TypeOK that the steps inside a transaction can disturb.
TxTypeOK ==
    /\ lock \in [Rows -> Workers \cup {NULL}]
    /\ pc \in [Workers -> Stages]
    /\ job \in [Workers -> Job \cup {NULL}]
    /\ tx \in [Workers -> Writes]

\* The keys that worker w has written are its own.
KeysOf(w) ==
    /\ \A v \in Workers \ {w} : Apart(v, w)
    /\ \A a \in AssignmentIds : tx[w].assignments[a] # NULL =>
          \A u \in Users, x \in Roles :
             IsActive(tx[w].assignments[a], u, x) => ~ HasRole(u, x)

-----------------------------------------------------------------------------
(* What one worker's step leaves to the others.                            *)

\* What a step of w leaves alone while it commits nothing.
Private(w) ==
    /\ UNCHANGED database
    /\ \A v \in Workers \ {w} : tx'[v] = tx[v] /\ pc'[v] = pc[v] /\ job'[v] = job[v]
    /\ \A k \in Rows : lock'[k] = lock[k] \/ lock[k] \in {NULL, w}

\* Another worker keeps its locks.
LEMMA LocksAreKept ==
    ASSUME NEW w \in Workers, Private(w), NEW v \in Workers \ {w}, NEW k \in Rows,
           lock[k] = v
    PROVE  lock'[k] = v
  BY NullIsNoRow DEF Private

\* Of a step that commits nothing only the worker that makes it is affected.
LEMMA PrivateStep ==
    ASSUME RoleInv, NEW w \in Workers, Private(w), TxTypeOK', StageOK(w)', KeysOf(w)'
    PROVE  RoleInv'
<1>1. /\ UNCHANGED <<users, roles, assignments>>
      /\ \A v \in Workers \ {w} : tx'[v] = tx[v] /\ pc'[v] = pc[v] /\ job'[v] = job[v]
      /\ \A v \in Workers \ {w}, k \in Rows : lock[k] = v => lock'[k] = v
  BY LocksAreKept DEF Private, database
<1>2. TypeOK'
  BY <1>1 DEF RoleInv, TypeOK, TxTypeOK, Writes, Rowful
<1>3. ASSUME NEW v \in Workers \ {w} PROVE StageOK(v)'
  <2>0. TypeOK /\ StageOK(v) /\ Users \subseteq Rows /\ Roles \subseteq Rows
        /\ AssignmentIds \subseteq Rows
    BY DEF RoleInv, Rows
  <2>1. \A a \in AssignmentIds : Assigns(v, a) => Assigns(v, a)'
    <3> SUFFICES ASSUME NEW a \in AssignmentIds, Assigns(v, a) PROVE Assigns(v, a)'
      OBVIOUS
    <3>1. tx[v].assignments[a] \in AssignmentRow
      BY <2>0 DEF Assigns, OnlyWrites, TypeOK
    <3> QED
      BY <1>1, <2>0, <3>1, Fields DEF Assigns, OnlyWrites, MayAssign
  <2>2. \A u \in Users, a \in AssignmentIds : Enrols(v, u, a) => Enrols(v, u, a)'
    <3> SUFFICES ASSUME NEW u \in Users, NEW a \in AssignmentIds, Enrols(v, u, a)
                 PROVE  Enrols(v, u, a)'
      OBVIOUS
    <3>1. tx[v].assignments[a] \in AssignmentRow
      BY <2>0 DEF Enrols, OnlyWrites, TypeOK
    <3> QED
      BY <1>1, <2>0, <3>1, Fields DEF Enrols, OnlyWrites
  <2>3. \A a \in AssignmentIds : Revokes(v, a) => Revokes(v, a)'
    BY <1>1, <2>0 DEF Revokes, OnlyWrites
  <2>4. \A u \in Users : Deletes(v, u) => Deletes(v, u)'
    BY <1>1, <2>0 DEF Deletes, OnlyWrites
  <2>5. /\ job[v] # NULL => job[v].user \in Rows
        /\ SystemRoles \subseteq Rows
    BY <2>0, Fields, RolesAssumption DEF TypeOK
  <2> QED
    BY <1>1, <2>0, <2>1, <2>2, <2>3, <2>4, <2>5 DEF StageOK, OnlyWrites, MayAssign
<1>4. KeysOK'
  <2>1. ASSUME NEW v \in Workers \ {w}, NEW q \in Workers \ {w}, v # q
        PROVE  Apart(v, q)'
    BY <1>1, <2>1 DEF RoleInv, KeysOK, Apart
  <2>2. ASSUME NEW v \in Workers \ {w} PROVE Apart(v, w)' /\ Apart(w, v)'
    BY DEF KeysOf, Apart
  <2>3. ASSUME NEW v \in Workers \ {w}, NEW a \in AssignmentIds,
               tx'[v].assignments[a] # NULL,
               NEW u \in Users, NEW x \in Roles, IsActive(tx'[v].assignments[a], u, x)
        PROVE  ~ HasRole(u, x)'
    BY <1>1, <2>3 DEF RoleInv, KeysOK, HasRole, Rowful
  <2> QED
    BY <2>1, <2>2, <2>3 DEF KeysOK, KeysOf
<1>5. CatalogueOK' /\ EveryAccountWasEnrolled'
  BY <1>1 DEF RoleInv, CatalogueOK, EveryAccountWasEnrolled, Rowful
<1> QED
  BY <1>2, <1>3, <1>4, <1>5 DEF RoleInv

LEMMA InitRoleInv == Init => RoleInv
<1> SUFFICES ASSUME Init PROVE RoleInv
  OBVIOUS
<1>1. /\ users = [u \in Users |-> NULL]
      /\ assignments = [a \in AssignmentIds |-> NULL]
      /\ pc = [w \in Workers |-> "idle"]
      /\ tx = [w \in Workers |-> NoWrites]
      /\ Rowful(assignments) = {}
  BY DEF Init, Seeded, Rowful
<1>2. \A x \in Roles :
         /\ x \in SystemRoles =>
              /\ roles[x] \in RoleRow /\ roles[x] # NULL
              /\ roles[x].is_system
              /\ roles[x].code = IF x = DefaultRole THEN "user" ELSE "admin"
         /\ x \notin SystemRoles => roles[x] = NULL
  <2>1. \A code \in {"user", "admin"} :
           [code |-> code, is_system |-> TRUE, is_active |-> TRUE] \in RoleRow
    BY DEF RoleRow, Codes
  <2> QED
    BY <2>1, NullIsNoRow DEF Init, Seeded
<1>3. \A x, y \in Rowful(roles) : roles[x].code = roles[y].code => x = y
  BY <1>2 DEF Init, Seeded, Rowful, SystemRoles
<1>4. roles \in [Roles -> RoleRow \cup {NULL}]
  BY <1>2 DEF Init, Seeded
<1>5. TypeOK
  BY <1>1, <1>3, <1>4, NoWritesType DEF Init, Seeded, TypeOK, Writes, Stages
<1>6. \A w \in Workers : StageOK(w)
  BY <1>1, NoWritesType DEF StageOK, OnlyWrites, Calls
<1>7. KeysOK
  BY <1>1, NoWritesType DEF KeysOK, Apart
<1>8. CatalogueOK
  BY <1>1, <1>2, RolesAssumption DEF CatalogueOK, SystemRoles
<1> QED
  BY <1>1, <1>5, <1>6, <1>7, <1>8 DEF RoleInv, EveryAccountWasEnrolled

-----------------------------------------------------------------------------
(* Steps inside a transaction.                                             *)

\* Who has written nothing, or writes no more, disturbs no key.
LEMMA KeysAreLeft ==
    ASSUME RoleInv, NEW w \in Workers, Private(w),
           tx'[w] = tx[w] \/ tx'[w] = NoWrites
    PROVE  KeysOf(w)'
<1>1. \A a \in AssignmentIds : NoWrites.assignments[a] = NULL
  BY NoWritesType
<1>2. \A u \in Users : NoWrites.users[u] = NULL
  BY NoWritesType
<1>3. CASE tx'[w] = tx[w]
  BY <1>3 DEF RoleInv, KeysOK, KeysOf, Private, database, Apart, HasRole, Rowful
<1>4. CASE tx'[w] = NoWrites
  BY <1>1, <1>2, <1>4 DEF KeysOf, Apart
<1> QED
  BY <1>3, <1>4

\* What Finish does to the locks and to the other workers.
LEMMA FinishEffect ==
    ASSUME TypeOK, NEW w \in Workers, Finish(w)
    PROVE  /\ TxTypeOK'
           /\ pc'[w] = "idle" /\ job'[w] = NULL /\ tx'[w] = NoWrites
           /\ \A v \in Workers \ {w} : tx'[v] = tx[v] /\ pc'[v] = pc[v] /\ job'[v] = job[v]
           /\ \A k \in Rows : lock'[k] = lock[k] \/ lock[k] = w
<1>1. TxTypeOK'
  BY NoWritesType DEF TypeOK, Finish, TxTypeOK, Stages, Writes
<1> QED
  BY <1>1 DEF TypeOK, Finish

LEMMA RollbackRoles ==
    ASSUME RoleInv, NEW w \in Workers, Rollback(w)
    PROVE  RoleInv'
<1>1. /\ TxTypeOK' /\ Private(w)
      /\ pc'[w] = "idle" /\ tx'[w] = NoWrites
  BY FinishEffect DEF Rollback, RoleInv, Private
<1>2. StageOK(w)'
  BY <1>1, NoWritesType DEF StageOK, OnlyWrites, Calls
<1> QED
  BY <1>1, <1>2, KeysAreLeft, PrivateStep

\* A request that begins has written and locked nothing.
LEMMA CallRoles ==
    ASSUME RoleInv, NEW w \in Workers, NEW function \in Calls,
           NEW c \in Users \cup {NULL}, NEW u \in Users, NEW x \in Roles \cup {NULL},
           Call(w, function, c, u, x),
           function = "assign_role" => users[u] # NULL /\ x \in Roles /\ roles[x] # NULL,
           function = "soft_delete_account" => users[u] # NULL
    PROVE  RoleInv'
<1> DEFINE j == [caller |-> c, user |-> u, role |-> x]
<1>1. /\ TypeOK /\ StageOK(w) /\ pc[w] = "idle"
      /\ job' = [job EXCEPT ![w] = j]
      /\ pc' = [pc EXCEPT ![w] = function]
      /\ UNCHANGED <<users, roles, assignments, lock, tx>>
  BY DEF RoleInv, Call, database
<1>2. j \in Job /\ j # NULL /\ j.user = u /\ j.role = x
  BY NullIsNoRow DEF Job
<1> HIDE DEF j
<1>3. TxTypeOK'
  BY <1>1, <1>2 DEF TypeOK, TxTypeOK, Stages, Writes
<1>4. Private(w) /\ pc'[w] = function /\ job'[w] = j /\ tx'[w] = tx[w]
  BY <1>1, <1>2 DEF TypeOK, Private, database
<1>5. StageOK(w)'
  BY <1>1, <1>2, <1>4 DEF StageOK, OnlyWrites, Calls
<1> QED
  BY <1>3, <1>4, <1>5, KeysAreLeft, PrivateStep

LEMMA RequestRoles ==
    ASSUME RoleInv, NEW w \in Workers, Request(w)
    PROVE  RoleInv'
<1>1. ASSUME NEW function \in {"assign_role", "revoke_role"}, NEW c \in Users,
             NEW u \in Users, NEW x \in Roles, BeginRoleRequest(w, function, c, u, x)
      PROVE  RoleInv'
  BY <1>1, CallRoles DEF BeginRoleRequest, Calls
<1>2. ASSUME NEW function \in {"register_user", "create_initial_admin"},
             NEW u \in Users, BeginEnrolment(w, function, u)
      PROVE  RoleInv'
  BY <1>2, CallRoles DEF BeginEnrolment, Calls
<1>3. ASSUME NEW u \in Users, BeginDeletion(w, u)
      PROVE  RoleInv'
  BY <1>3, CallRoles, NullIsNoRow DEF BeginDeletion, Calls
<1> QED
  BY <1>1, <1>2, <1>3 DEF Request

LEMMA AssignRoleRoles ==
    ASSUME RoleInv, NEW w \in Workers, AssignRole(w)
    PROVE  RoleInv'
<1> DEFINE u == job[w].user
           x == job[w].role
<1>1. /\ TypeOK /\ StageOK(w) /\ pc[w] = "assign_role" /\ lock[u] = NULL
      /\ lock' = [lock EXCEPT ![u] = w]
      /\ pc' = [pc EXCEPT ![w] = "assigning"]
      /\ UNCHANGED <<users, roles, assignments, job, tx>>
  BY DEF RoleInv, AssignRole, Free, database
<1>2. /\ job[w] # NULL /\ u \in Users /\ u \in Rows
      /\ users[u] # NULL /\ x \in Roles /\ roles[x] # NULL
  BY <1>1, Fields DEF StageOK, TypeOK, Rows, Calls
<1>3. TxTypeOK'
  BY <1>1, <1>2 DEF TypeOK, TxTypeOK, Stages, Writes
<1>4. Private(w) /\ pc'[w] = "assigning" /\ job'[w] = job[w] /\ tx'[w] = tx[w]
      /\ lock'[u] = w
  BY <1>1, <1>2 DEF TypeOK, Private, database
<1>5. StageOK(w)'
  BY <1>1, <1>2, <1>4 DEF StageOK, OnlyWrites, Calls
<1> QED
  BY <1>3, <1>4, <1>5, KeysAreLeft, PrivateStep

LEMMA AssignLockRoleRoles ==
    ASSUME RoleInv, NEW w \in Workers, AssignLockRole(w)
    PROVE  RoleInv'
<1> DEFINE u == job[w].user
           x == job[w].role
<1>1. /\ TypeOK /\ StageOK(w) /\ pc[w] = "assigning" /\ lock[x] = NULL
      /\ MayAssign(u, x)
      /\ lock' = [lock EXCEPT ![x] = w]
      /\ pc' = [pc EXCEPT ![w] = "inserting"]
      /\ UNCHANGED <<users, roles, assignments, job, tx>>
  BY DEF RoleInv, AssignLockRole, Free, database
<1>2. /\ job[w] # NULL /\ x \in Roles /\ x \in Rows /\ u \in Users /\ u \in Rows
      /\ users[u] # NULL /\ roles[x] # NULL /\ lock[u] = w
  BY <1>1, Fields DEF StageOK, TypeOK, Rows
<1>3. TxTypeOK'
  BY <1>1, <1>2 DEF TypeOK, TxTypeOK, Stages, Writes
<1>4. /\ Private(w) /\ pc'[w] = "inserting" /\ tx'[w] = tx[w]
      /\ lock'[u] = w /\ lock'[x] = w
  BY <1>1, <1>2 DEF TypeOK, Private, database
<1>5. StageOK(w)'
  BY <1>1, <1>2, <1>4 DEF StageOK, OnlyWrites, MayAssign, Calls
<1> QED
  BY <1>3, <1>4, <1>5, KeysAreLeft, PrivateStep

LEMMA EnrolRoles ==
    ASSUME RoleInv, NEW w \in Workers, NEW x \in Roles, Enrol(w, x)
    PROVE  RoleInv'
<1> DEFINE j == [job[w] EXCEPT !.role = x]
<1>1. /\ TypeOK /\ StageOK(w) /\ pc[w] \in {"register_user", "create_initial_admin"}
      /\ lock[x] = NULL
      /\ roles[x] # NULL /\ roles[x].code \in {"user", "admin"} /\ roles[x].is_active
      /\ lock' = [lock EXCEPT ![x] = w]
      /\ job' = [job EXCEPT ![w] = j]
      /\ pc' = [pc EXCEPT ![w] = "enrolling"]
      /\ UNCHANGED <<users, roles, assignments, tx>>
  BY DEF RoleInv, Enrol, EnrolledCode, Free, database
<1>2. j \in Job /\ j # NULL /\ j.role = x /\ x \in Rows
  <2>1. job[w] \in Job
    BY <1>1 DEF StageOK, TypeOK, Calls
  <2> QED
    BY <2>1, NullIsNoRow DEF Job, Rows
<1> HIDE DEF j
<1>3. x \in SystemRoles
  <2>1. \A y \in SystemRoles : y \in Rowful(roles)
    BY <1>1, RolesAssumption DEF RoleInv, CatalogueOK, Rowful, TypeOK
  <2>2. \E y \in SystemRoles : roles[y].code = roles[x].code
    BY <1>1 DEF RoleInv, CatalogueOK, SystemRoles
  <2>3. x \in Rowful(roles)
    BY <1>1 DEF Rowful, TypeOK
  <2> QED
    BY <1>1, <2>1, <2>2, <2>3 DEF TypeOK
<1>4. TxTypeOK'
  BY <1>1, <1>2 DEF TypeOK, TxTypeOK, Stages, Writes
<1>5. Private(w) /\ pc'[w] = "enrolling" /\ job'[w] = j /\ tx'[w] = tx[w] /\ lock'[x] = w
  BY <1>1, <1>2 DEF TypeOK, Private, database
<1>6. StageOK(w)'
  BY <1>1, <1>2, <1>3, <1>5 DEF StageOK, OnlyWrites, Calls
<1> QED
  BY <1>4, <1>5, <1>6, KeysAreLeft, PrivateStep

LEMMA DeleteAccountRoles ==
    ASSUME RoleInv, NEW w \in Workers, DeleteAccount(w)
    PROVE  RoleInv'
<1>0. PICK u \in Users : u = job[w].user
  BY Fields DEF RoleInv, TypeOK, StageOK, Calls, DeleteAccount
<1>1. /\ TypeOK /\ StageOK(w) /\ pc[w] = "soft_delete_account"
      /\ lock[u] = NULL /\ users[u] # NULL
      /\ lock' = [lock EXCEPT ![u] = w]
      /\ tx' = [tx EXCEPT ![w].users[u] = "deleted"]
      /\ pc' = [pc EXCEPT ![w] = "committing"]
      /\ UNCHANGED <<users, roles, assignments, job>>
  BY <1>0 DEF RoleInv, DeleteAccount, Free, database, StageOK
<1>2. u \in Rows /\ OnlyWrites(w, {}, {}) /\ tx \in [Workers -> Writes]
  BY <1>1 DEF StageOK, Rows, TypeOK, Writes
<1>3. TxTypeOK'
  <2>1. tx' \in [Workers -> Writes]
    BY <1>1, <1>2 DEF Writes
  <2> QED
    BY <1>1, <1>2, <2>1 DEF TypeOK, TxTypeOK, Stages, Writes
<1>4. /\ Private(w) /\ pc'[w] = "committing" /\ lock'[u] = w
      /\ \A v \in Users : tx'[w].users[v] = IF v = u THEN "deleted" ELSE NULL
      /\ \A a \in AssignmentIds : tx'[w].assignments[a] = NULL
  BY <1>1, <1>2 DEF TypeOK, Writes, Private, database, OnlyWrites
<1>5. Deletes(w, u)'
  BY <1>1, <1>4, NullIsNoRow DEF Deletes, OnlyWrites
<1>6. StageOK(w)'
  BY <1>4, <1>5 DEF StageOK, Calls
<1>7. KeysOf(w)'
  <2>1. ASSUME NEW v \in Workers \ {w} PROVE tx[v].users[u] = NULL
    <3>1. StageOK(v) /\ TypeOK
      BY DEF RoleInv
    <3>2. lock[u] # v
      BY <1>1, NullIsNoRow
    <3> QED
      BY <1>1, <3>1, <3>2 DEF StageOK, OnlyWrites, Assigns, Enrols, Revokes, Deletes
  <2> QED
    BY <1>4, <2>1 DEF KeysOf, Apart, Private
<1> QED
  BY <1>3, <1>4, <1>6, <1>7, PrivateStep

\* The row that revoke_role writes differs from the assignment in who revoked it.
LEMMA RevokedRow ==
    ASSUME TypeOK, NEW w \in Workers, NEW a \in AssignmentIds, Revokes(w, a)
    PROVE  LET row == tx[w].assignments[a] IN
           /\ row.revoked
           /\ row.user = assignments[a].user
           /\ row.role = assignments[a].role
           /\ row.assigned_by = assignments[a].assigned_by
<1> DEFINE by == tx[w].assignments[a].revoked_by
<1>1. /\ assignments[a] \in AssignmentRow
      /\ tx[w].assignments[a] = [assignments[a] EXCEPT !.revoked = TRUE, !.revoked_by = by]
  BY DEF TypeOK, Revokes
<1> HIDE DEF by
<1> QED
  BY <1>1 DEF AssignmentRow

LEMMA AssignInsertRoles ==
    ASSUME RoleInv, NEW w \in Workers, NEW a \in AssignmentIds, AssignInsert(w, a)
    PROVE  RoleInv'
<1> DEFINE u == job[w].user
           x == job[w].role
           row == Assignment(u, x, job[w].caller)
<1>1. /\ TypeOK /\ StageOK(w) /\ pc[w] = "inserting" /\ FreshId(a) /\ ~ HasRole(u, x)
      /\ AssignmentWriters(w, u, x) = {}
      /\ tx' = [tx EXCEPT ![w].assignments[a] = row]
      /\ pc' = [pc EXCEPT ![w] = "committing"]
      /\ UNCHANGED <<users, roles, assignments, lock, job>>
  BY DEF RoleInv, AssignInsert, WriteAssignment, database
<1>2. /\ job[w] \in Job /\ OnlyWrites(w, {}, {}) /\ tx \in [Workers -> Writes]
      /\ x \in Roles /\ MayAssign(u, x) /\ roles[x] # NULL /\ lock[u] = w /\ lock[x] = w
  BY <1>1 DEF StageOK, TypeOK, Writes, Calls
<1>3. /\ row \in AssignmentRow /\ row # NULL
      /\ row.user = u /\ row.role = x /\ ~ row.revoked
  <2>1. row \in AssignmentRow
    BY <1>2, Fields DEF Assignment, AssignmentRow
  <2> QED
    BY <2>1, NullIsNoRow DEF Assignment
<1> HIDE DEF row
<1>4. /\ TxTypeOK' /\ Private(w) /\ pc'[w] = "committing"
      /\ tx'[w].users = tx[w].users
      /\ \A b \in AssignmentIds : tx'[w].assignments[b] = IF b = a THEN row ELSE NULL
  <2>1. tx' \in [Workers -> Writes]
    BY <1>1, <1>2, <1>3 DEF Writes
  <2> QED
    BY <1>1, <1>2, <1>3, <2>1
       DEF TypeOK, TxTypeOK, Stages, Private, database, OnlyWrites, Writes
<1>5. Assigns(w, a)'
  BY <1>1, <1>2, <1>3, <1>4 DEF Assigns, OnlyWrites, MayAssign, FreshId
<1>6. StageOK(w)'
  BY <1>4, <1>5 DEF StageOK, Calls
<1>7. KeysOf(w)'
  <2>1. ASSUME NEW v \in Workers \ {w} PROVE Apart(v, w)'
    <3>1. tx'[v] = tx[v] /\ tx[v].assignments[a] = NULL
      BY <1>1, <1>4 DEF FreshId, Private
    <3>2. \A b \in AssignmentIds :
             tx[v].assignments[b] # NULL => ~ IsActive(tx[v].assignments[b], u, x)
      BY <1>1 DEF AssignmentWriters, Rowful, TypeOK
    <3> QED
      BY <1>2, <1>3, <1>4, <3>1, <3>2 DEF Apart, IsActive, OnlyWrites
  <2>2. ASSUME NEW b \in AssignmentIds, tx'[w].assignments[b] # NULL,
               NEW v \in Users, NEW y \in Roles, IsActive(tx'[w].assignments[b], v, y)
        PROVE  ~ HasRole(v, y)'
    BY <1>1, <1>3, <1>4, <2>2 DEF IsActive, HasRole, Rowful
  <2> QED
    BY <2>1, <2>2 DEF KeysOf
<1> QED
  BY <1>4, <1>6, <1>7, PrivateStep

\* The INSERTs of an enrolment, one after the other.
EnrolWrites(w, u, a, row) ==
    [tx EXCEPT ![w].users[u] = "usable", ![w].assignments[a] = row]

LEMMA PutRows ==
    ASSUME NEW S, NEW T, NEW z \in [users : S, assignments : T], NEW bs \in T
    PROVE  [users |-> z.users, assignments |-> bs] = [z EXCEPT !.assignments = bs]
OBVIOUS

LEMMA EnrolWrite ==
    ASSUME tx \in [Workers -> Writes], NEW w \in Workers, NEW u \in Users,
           NEW a \in AssignmentIds, NEW row \in AssignmentRow,
           tx' = EnrolWrites(w, u, a, row)
    PROVE  /\ tx' \in [Workers -> Writes]
           /\ \A v \in Workers \ {w} : tx'[v] = tx[v]
           /\ \A v \in Users :
                 tx'[w].users[v] = IF v = u THEN "usable" ELSE tx[w].users[v]
           /\ \A b \in AssignmentIds :
                 tx'[w].assignments[b] = IF b = a THEN row ELSE tx[w].assignments[b]
<1> DEFINE mid == [tx EXCEPT ![w].users[u] = "usable"]
<1>1. /\ mid \in [Workers -> Writes]
      /\ \A v \in Workers \ {w} : mid[v] = tx[v]
      /\ \A v \in Users : mid[w].users[v] = IF v = u THEN "usable" ELSE tx[w].users[v]
      /\ mid[w].assignments = tx[w].assignments
  BY DEF Writes
<1>2. tx' = [mid EXCEPT ![w].assignments[a] = row]
  BY DEF EnrolWrites
<1> HIDE DEF mid
<1>3. PICK bs \in [AssignmentIds -> AssignmentRow \cup {NULL}] :
         bs = [mid[w].assignments EXCEPT ![a] = row]
  BY <1>1 DEF Writes
<1> DEFINE r == [users |-> mid[w].users, assignments |-> bs]
<1>4. /\ r \in Writes /\ r.users = mid[w].users
      /\ \A b \in AssignmentIds :
            r.assignments[b] = IF b = a THEN row ELSE mid[w].assignments[b]
  BY <1>1, <1>3 DEF Writes
<1>5. r = [mid[w] EXCEPT !.assignments = bs]
  <2>1. PICK S, T : mid[w] \in [users : S, assignments : T] /\ bs \in T
    BY <1>1, <1>3 DEF Writes
  <2> QED
    BY <2>1, PutRows
<1> HIDE DEF r
<1>6. tx' = [mid EXCEPT ![w] = r]
  BY <1>2, <1>3, <1>5
<1>7. /\ tx' \in [Workers -> Writes] /\ tx'[w] = r
      /\ \A v \in Workers \ {w} : tx'[v] = mid[v]
  BY <1>1, <1>4, <1>6
<1> QED
  BY <1>1, <1>4, <1>7

LEMMA EnrolInsertRoles ==
    ASSUME RoleInv, NEW w \in Workers, NEW a \in AssignmentIds, EnrolInsert(w, a)
    PROVE  RoleInv'
<1> DEFINE u == job[w].user
           x == job[w].role
           row == Assignment(u, x, NULL)
<1>1. /\ TypeOK /\ StageOK(w) /\ CatalogueOK /\ pc[w] = "enrolling" /\ FreshId(a)
      /\ users[u] = NULL /\ AccountWriters(w, u) = {}
      /\ tx' = [tx EXCEPT ![w].users[u] = "usable", ![w].assignments[a] = row]
      /\ pc' = [pc EXCEPT ![w] = "committing"]
      /\ UNCHANGED <<users, roles, assignments, lock, job>>
  BY DEF RoleInv, EnrolInsert, database
<1>2. /\ job[w] \in Job /\ u \in Users /\ x \in Roles
      /\ OnlyWrites(w, {}, {}) /\ tx \in [Workers -> Writes]
      /\ x \in SystemRoles /\ roles[x].is_active /\ lock[x] = w
  BY <1>1, Fields, RolesAssumption DEF StageOK, TypeOK, Writes, Calls
<1>3. /\ row \in AssignmentRow /\ row # NULL
      /\ row.user = u /\ row.role = x /\ row.assigned_by = NULL /\ ~ row.revoked
  <2>1. row \in AssignmentRow
    BY <1>2 DEF Assignment, AssignmentRow
  <2> QED
    BY <2>1, NullIsNoRow DEF Assignment
<1> HIDE DEF row
<1>4. /\ TxTypeOK' /\ Private(w) /\ pc'[w] = "committing"
      /\ \A v \in Users : tx'[w].users[v] = IF v = u THEN "usable" ELSE NULL
      /\ \A b \in AssignmentIds : tx'[w].assignments[b] = IF b = a THEN row ELSE NULL
  <2>1. /\ tx' \in [Workers -> Writes]
        /\ \A v \in Workers \ {w} : tx'[v] = tx[v]
        /\ \A v \in Users :
              tx'[w].users[v] = IF v = u THEN "usable" ELSE tx[w].users[v]
        /\ \A b \in AssignmentIds :
              tx'[w].assignments[b] = IF b = a THEN row ELSE tx[w].assignments[b]
    <3>1. tx' = EnrolWrites(w, u, a, row)
      BY <1>1 DEF EnrolWrites
    <3> HIDE DEF u
    <3> QED
      BY <1>2, <1>3, <3>1, EnrolWrite
  <2>2. TxTypeOK'
    BY <1>1, <2>1 DEF TypeOK, TxTypeOK, Stages, Writes
  <2>3. Private(w) /\ pc'[w] = "committing"
    BY <1>1, <1>2, <2>1 DEF TypeOK, Private, database
  <2> QED
    BY <1>2, <2>1, <2>2, <2>3 DEF OnlyWrites
<1>5. Enrols(w, u, a)'
  <2>1. \A v \in Users : tx'[w].users[v] # NULL <=> v = u
    BY <1>4, NullIsNoRow
  <2>2. \A b \in AssignmentIds : tx'[w].assignments[b] # NULL <=> b = a
    BY <1>3, <1>4
  <2>3. u' = u
    BY <1>1
  <2> QED
    BY <1>1, <1>2, <1>3, <1>4, <2>1, <2>2, <2>3 DEF Enrols, OnlyWrites, FreshId
<1>6. StageOK(w)'
  <2>1. \E v \in Users, b \in AssignmentIds : Enrols(w, v, b)'
    <3>1. u' = u
      BY <1>1
    <3> QED
      BY <1>2, <1>5, <3>1
  <2> QED
    BY <1>4, <2>1 DEF StageOK, Calls
<1>7. KeysOf(w)'
  <2>1. ASSUME NEW v \in Workers \ {w} PROVE Apart(v, w)'
    <3>1. tx'[v] = tx[v] /\ tx[v].assignments[a] = NULL /\ tx[v].users[u] = NULL
      BY <1>1, <1>4 DEF FreshId, Private, AccountWriters
    <3>2. ASSUME NEW b \in AssignmentIds, tx[v].assignments[b] # NULL,
                 IsActive(tx[v].assignments[b], u, x)
          PROVE  FALSE
      <4>1. StageOK(v)
        BY DEF RoleInv
      <4>2. \/ Assigns(v, b)
            \/ \E y \in Users : Enrols(v, y, b)
            \/ Revokes(v, b)
        BY <3>2, <4>1 DEF StageOK, Assigns, Enrols, Revokes, Deletes, OnlyWrites
      <4>3. CASE Assigns(v, b)
        BY <1>1, <3>2, <4>3, NullIsNoRow DEF Assigns, MayAssign, IsActive
      <4>4. CASE \E y \in Users : Enrols(v, y, b)
        BY <3>1, <3>2, <4>4, NullIsNoRow DEF Enrols, IsActive
      <4>5. CASE Revokes(v, b)
        BY <1>1, <3>2, <4>5, RevokedRow DEF IsActive
      <4> QED
        BY <4>2, <4>3, <4>4, <4>5
    <3> QED
      BY <1>2, <1>3, <1>4, <3>1, <3>2 DEF Apart, IsActive
  <2>2. \A y \in Roles : ~ HasRole(u, y)
    BY <1>1 DEF HasRole, IsActive, CatalogueOK, Rowful, TypeOK
  <2>3. ASSUME NEW b \in AssignmentIds, tx'[w].assignments[b] # NULL,
               NEW v \in Users, NEW y \in Roles, IsActive(tx'[w].assignments[b], v, y)
        PROVE  ~ HasRole(v, y)'
    BY <1>1, <1>3, <1>4, <2>2, <2>3 DEF IsActive, HasRole, Rowful
  <2> QED
    BY <2>1, <2>3 DEF KeysOf
<1> QED
  BY <1>4, <1>6, <1>7, PrivateStep

LEMMA RevokeRoleRoles ==
    ASSUME RoleInv, NEW w \in Workers, NEW a \in AssignmentIds, RevokeRole(w, a)
    PROVE  RoleInv'
<1> DEFINE c == job[w].caller
           row == [assignments[a] EXCEPT !.revoked = TRUE, !.revoked_by = c]
<1>1. /\ TypeOK /\ StageOK(w) /\ pc[w] = "revoke_role" /\ lock[a] = NULL
      /\ assignments[a] # NULL /\ ~ assignments[a].revoked
      /\ lock' = [lock EXCEPT ![a] = w]
      /\ tx' = [tx EXCEPT ![w].assignments[a] = row]
      /\ pc' = [pc EXCEPT ![w] = "committing"]
      /\ UNCHANGED <<users, roles, assignments, job>>
  BY DEF RoleInv, RevokeRole, WriteRevocation, IsActive, Free, database
<1>2. /\ a \in Rows /\ OnlyWrites(w, {}, {}) /\ tx \in [Workers -> Writes]
      /\ assignments[a] \in AssignmentRow /\ c \in Users \cup {NULL}
  BY <1>1, Fields DEF StageOK, Rows, TypeOK, Writes, Calls
<1>3. /\ row \in AssignmentRow /\ row # NULL /\ row.revoked
      /\ row = [assignments[a] EXCEPT !.revoked = TRUE, !.revoked_by = row.revoked_by]
  <2>1. row \in AssignmentRow
    BY <1>2 DEF AssignmentRow
  <2> QED
    BY <1>2, <2>1, NullIsNoRow DEF AssignmentRow
<1> HIDE DEF row
<1>4. /\ tx'[w].users = tx[w].users
      /\ \A b \in AssignmentIds : tx'[w].assignments[b] = IF b = a THEN row ELSE NULL
      /\ \A v \in Workers \ {w} : tx'[v] = tx[v]
      /\ tx' \in [Workers -> Writes]
  <2>1. tx' = [tx EXCEPT ![w].assignments[a] = row]
    BY <1>1
  <2> QED
    BY <1>2, <1>3, <2>1 DEF OnlyWrites, Writes
<1>5. /\ TxTypeOK' /\ Private(w) /\ pc'[w] = "committing" /\ lock'[a] = w
  BY <1>1, <1>2, <1>4 DEF TypeOK, TxTypeOK, Stages, Private, database
<1>6. Revokes(w, a)'
  <2>1. \A b \in AssignmentIds : tx'[w].assignments[b] # NULL <=> b = a
    BY <1>3, <1>4
  <2>2. tx'[w].assignments[a] = row
    BY <1>4
  <2>3. \A u \in Users : tx'[w].users[u] = NULL
    BY <1>2, <1>4 DEF OnlyWrites
  <2> QED
    BY <1>1, <1>3, <1>5, <2>1, <2>2, <2>3 DEF Revokes, OnlyWrites
<1>7. StageOK(w)'
  BY <1>5, <1>6 DEF StageOK, Calls
<1>8. KeysOf(w)'
  <2>1. ASSUME NEW v \in Workers \ {w} PROVE Apart(v, w)'
    <3>1. StageOK(v) /\ lock[a] # v
      BY <1>1, NullIsNoRow DEF RoleInv
    <3>2. tx[v].assignments[a] = NULL
      BY <1>1, <3>1 DEF StageOK, OnlyWrites, Assigns, Enrols, Revokes, Deletes
    <3> QED
      BY <1>2, <1>3, <1>4, <3>2 DEF Apart, IsActive, OnlyWrites
  <2> QED
    BY <1>3, <1>4, <2>1 DEF KeysOf, IsActive
<1> QED
  BY <1>5, <1>7, <1>8, PrivateStep

-----------------------------------------------------------------------------
(* COMMIT.                                                                 *)

\* What COMMIT makes of the tables.
LEMMA CommitEffect ==
    ASSUME RoleInv, NEW w \in Workers, Commit(w)
    PROVE  /\ TxTypeOK'
           /\ pc'[w] = "idle" /\ tx'[w] = NoWrites
           /\ \A v \in Workers \ {w} : tx'[v] = tx[v] /\ pc'[v] = pc[v] /\ job'[v] = job[v]
           /\ \A v \in Workers \ {w}, k \in Rows : lock[k] = v => lock'[k] = v
           /\ roles' = roles
           /\ users' \in [Users -> {"usable", "deleted", NULL}]
           /\ assignments' \in [AssignmentIds -> AssignmentRow \cup {NULL}]
           /\ \A u \in Users :
                 users'[u] = IF tx[w].users[u] = NULL THEN users[u] ELSE tx[w].users[u]
           /\ \A a \in AssignmentIds :
                 assignments'[a] = IF tx[w].assignments[a] = NULL
                                   THEN assignments[a] ELSE tx[w].assignments[a]
           /\ \/ \E a \in AssignmentIds : Assigns(w, a)
              \/ \E u \in Users, a \in AssignmentIds : Enrols(w, u, a)
              \/ \E a \in AssignmentIds : Revokes(w, a)
              \/ \E u \in Users : Deletes(w, u)
<1>1. /\ TypeOK /\ StageOK(w) /\ pc[w] = "committing" /\ Finish(w) /\ roles' = roles
      /\ users' = Merge(users, tx[w].users)
      /\ assignments' = Merge(assignments, tx[w].assignments)
  BY DEF RoleInv, Commit
<1>2. tx[w] \in Writes
  BY <1>1 DEF TypeOK, Writes
<1>3. /\ users' \in [Users -> {"usable", "deleted", NULL}]
      /\ \A u \in Users :
            users'[u] = IF tx[w].users[u] = NULL THEN users[u] ELSE tx[w].users[u]
  BY <1>1, <1>2 DEF Merge, TypeOK, Writes
<1>4. /\ assignments' \in [AssignmentIds -> AssignmentRow \cup {NULL}]
      /\ \A a \in AssignmentIds :
            assignments'[a] = IF tx[w].assignments[a] = NULL
                              THEN assignments[a] ELSE tx[w].assignments[a]
  BY <1>1, <1>2 DEF Merge, TypeOK, Writes
<1>5. StageOK(w) /\ pc[w] = "committing"
  BY <1>1
<1> QED
  BY <1>1, <1>3, <1>4, <1>5, FinishEffect DEF StageOK

\* Which transaction it is that has written a row.
LEMMA Written ==
    ASSUME RoleInv, NEW w \in Workers, Commit(w)
    PROVE  /\ \A a \in AssignmentIds : tx[w].assignments[a] # NULL =>
                 \/ Assigns(w, a)
                 \/ \E u \in Users : Enrols(w, u, a)
                 \/ Revokes(w, a)
           /\ \A u \in Users : tx[w].users[u] # NULL =>
                 \/ \E a \in AssignmentIds : Enrols(w, u, a)
                 \/ Deletes(w, u)
<1>1. CASE \E a \in AssignmentIds : Assigns(w, a)
  BY <1>1 DEF Assigns, OnlyWrites
<1>2. CASE \E u \in Users, a \in AssignmentIds : Enrols(w, u, a)
  <2>1. PICK u \in Users, a \in AssignmentIds : Enrols(w, u, a)
    BY <1>2
  <2>2. OnlyWrites(w, {u}, {a})
    BY <2>1 DEF Enrols
  <2> QED
    BY <2>1, <2>2 DEF OnlyWrites
<1>3. CASE \E a \in AssignmentIds : Revokes(w, a)
  BY <1>3 DEF Revokes, OnlyWrites
<1>4. CASE \E u \in Users : Deletes(w, u)
  BY <1>4 DEF Deletes, OnlyWrites
<1> QED
  BY <1>1, <1>2, <1>3, <1>4, CommitEffect

\* What a COMMIT leaves to the other transactions.
LEMMA CommitStages ==
    ASSUME RoleInv, NEW w \in Workers, Commit(w), NEW v \in Workers \ {w}
    PROVE  StageOK(v)'
<1>1. /\ TypeOK /\ StageOK(v) /\ Apart(v, w)
      /\ tx'[v] = tx[v] /\ pc'[v] = pc[v] /\ job'[v] = job[v] /\ roles' = roles
      /\ \A k \in Rows : lock[k] = v => lock'[k] = v
  BY CommitEffect DEF RoleInv, KeysOK
<1>2. Users \subseteq Rows /\ Roles \subseteq Rows /\ AssignmentIds \subseteq Rows
  BY DEF Rows
<1>3. \A u \in Users : /\ users[u] # NULL => users'[u] # NULL
                       /\ tx[v].users[u] # NULL => users'[u] = users[u]
  BY <1>1, CommitEffect DEF Apart
<1>4. \A a \in AssignmentIds : tx[v].assignments[a] # NULL => assignments'[a] = assignments[a]
  BY <1>1, CommitEffect DEF Apart
\* A usable user that v has locked is not deleted.
<1>5. ASSUME NEW u \in Users, lock[u] = v, users[u] = "usable" PROVE users'[u] = "usable"
  <2>1. tx[w].users[u] = NULL
    BY <1>5, Written, NullIsNoRow DEF Enrols, Deletes
  <2> QED
    BY <1>5, <2>1, CommitEffect
<1>6. \A a \in AssignmentIds : Assigns(v, a) => Assigns(v, a)'
  <2> SUFFICES ASSUME NEW a \in AssignmentIds, Assigns(v, a) PROVE Assigns(v, a)'
    OBVIOUS
  <2>1. tx[v].assignments[a] \in AssignmentRow
    BY <1>1 DEF Assigns, OnlyWrites, TypeOK
  <2> QED
    BY <1>1, <1>2, <1>4, <1>5, <2>1, Fields DEF Assigns, OnlyWrites, MayAssign
<1>7. \A u \in Users, a \in AssignmentIds : Enrols(v, u, a) => Enrols(v, u, a)'
  <2> SUFFICES ASSUME NEW u \in Users, NEW a \in AssignmentIds, Enrols(v, u, a)
               PROVE  Enrols(v, u, a)'
    OBVIOUS
  <2>1. tx[v].assignments[a] \in AssignmentRow
    BY <1>1 DEF Enrols, OnlyWrites, TypeOK
  <2> QED
    BY <1>1, <1>2, <1>3, <1>4, <2>1, Fields DEF Enrols, OnlyWrites
<1>8. \A a \in AssignmentIds : Revokes(v, a) => Revokes(v, a)'
  BY <1>1, <1>2, <1>4 DEF Revokes, OnlyWrites
<1>9. \A u \in Users : Deletes(v, u) => Deletes(v, u)'
  BY <1>1, <1>2, <1>3 DEF Deletes, OnlyWrites
<1>10. /\ job[v] # NULL => job[v].user \in Users /\ job[v].user \in Rows
       /\ SystemRoles \subseteq Rows
  BY <1>1, <1>2, Fields, RolesAssumption DEF TypeOK
<1> QED
  BY <1>1, <1>2, <1>3, <1>5, <1>6, <1>7, <1>8, <1>9, <1>10 DEF StageOK, OnlyWrites, MayAssign, Calls

\* The assignments that COMMIT leaves as they are, and those it changes.
LEMMA CommittedRows ==
    ASSUME RoleInv, NEW w \in Workers, Commit(w), NEW a \in AssignmentIds,
           assignments'[a] # NULL
    PROVE  \/ assignments[a] # NULL /\ assignments'[a] = assignments[a]
           \/ /\ assignments'[a] = tx[w].assignments[a]
              /\ assignments[a] # NULL /\ Revokes(w, a)
              /\ assignments'[a].revoked
              /\ assignments'[a].user = assignments[a].user
              /\ assignments'[a].role = assignments[a].role
              /\ assignments'[a].assigned_by = assignments[a].assigned_by
           \/ /\ assignments'[a] = tx[w].assignments[a]
              /\ assignments[a] = NULL
              /\ Assigns(w, a) \/ Enrols(w, assignments'[a].user, a)
              /\ \A b \in AssignmentIds \ {a} : assignments'[b] = assignments[b]
<1>1. TypeOK
  BY DEF RoleInv
<1>2. CASE tx[w].assignments[a] = NULL
  BY <1>2, CommitEffect
<1>3. CASE tx[w].assignments[a] # NULL
  <2>1. assignments'[a] = tx[w].assignments[a]
    BY <1>3, CommitEffect
  <2>2. Assigns(w, a) \/ (\E u \in Users : Enrols(w, u, a)) \/ Revokes(w, a)
    BY <1>3, Written
  <2>3. CASE Revokes(w, a)
    <3>1. assignments[a] # NULL
      BY <2>3 DEF Revokes
    <3> QED
      BY <1>1, <2>1, <2>3, <3>1, RevokedRow
  <2>4. CASE Assigns(w, a) \/ \E u \in Users : Enrols(w, u, a)
    <3>1. assignments[a] = NULL /\ \A b \in AssignmentIds \ {a} : tx[w].assignments[b] = NULL
      BY <2>4 DEF Assigns, Enrols, OnlyWrites
    <3>2. Assigns(w, a) \/ Enrols(w, assignments'[a].user, a)
      BY <2>1, <2>4 DEF Enrols
    <3> QED
      BY <2>1, <3>1, <3>2, CommitEffect
  <2> QED
    BY <2>2, <2>3, <2>4
<1> QED
  BY <1>2, <1>3

LEMMA CommitRoles ==
    ASSUME RoleInv, NEW w \in Workers, Commit(w)
    PROVE  RoleInv'
<1>1. TypeOK /\ KeysOK /\ CatalogueOK /\ EveryAccountWasEnrolled
  BY DEF RoleInv
<1>2. \A a \in AssignmentIds, u \in Users, x \in Roles :
         assignments'[a] # NULL /\ IsActive(assignments'[a], u, x)
           => \/ assignments[a] # NULL /\ assignments'[a] = assignments[a]
              \/ /\ tx[w].assignments[a] # NULL
                 /\ assignments'[a] = tx[w].assignments[a]
                 /\ \A b \in AssignmentIds \ {a} : assignments'[b] = assignments[b]
  BY CommittedRows DEF IsActive
<1>3. TypeOK'
  <2>1. ASSUME NEW a \in AssignmentIds, NEW b \in AssignmentIds, a # b,
               assignments'[a] # NULL, assignments'[b] # NULL,
               NEW u \in Users, NEW x \in Roles,
               IsActive(assignments'[a], u, x), IsActive(assignments'[b], u, x)
        PROVE  FALSE
    <3>1. ASSUME NEW c \in AssignmentIds, assignments[c] # NULL, IsActive(assignments[c], u, x)
          PROVE  HasRole(u, x)
      BY <1>1, <3>1 DEF HasRole, Rowful, TypeOK
    <3>2. ASSUME NEW c \in AssignmentIds, tx[w].assignments[c] # NULL,
                 IsActive(tx[w].assignments[c], u, x)
          PROVE  ~ HasRole(u, x)
      BY <1>1, <3>2 DEF KeysOK
    <3>3. CASE assignments'[a] = assignments[a] /\ assignments'[b] = assignments[b]
      BY <1>1, <2>1, <3>3 DEF TypeOK, Rowful
    <3>4. CASE assignments'[a] = tx[w].assignments[a] /\ assignments'[b] = assignments[b]
      BY <2>1, <3>1, <3>2, <3>4
    <3>5. CASE assignments'[b] = tx[w].assignments[b] /\ assignments'[a] = assignments[a]
      BY <2>1, <3>1, <3>2, <3>5
    <3> QED
      BY <1>2, <2>1, <3>3, <3>4, <3>5
  <2>2. Rowful(assignments)' = {a \in AssignmentIds : assignments'[a] # NULL}
    BY CommitEffect DEF Rowful
  <2>3. Rowful(roles)' = Rowful(roles)
    BY CommitEffect DEF Rowful
  <2> QED
    BY <1>1, <2>1, <2>2, <2>3, CommitEffect DEF TypeOK, TxTypeOK, Writes
<1>4. \A v \in Workers : StageOK(v)'
  <2>1. StageOK(w)'
    BY CommitEffect, NoWritesType DEF StageOK, OnlyWrites, Calls
  <2> QED
    BY <2>1, CommitStages
<1>5. KeysOK'
  <2>1. ASSUME NEW v \in Workers, NEW q \in Workers, v # q
        PROVE  Apart(v, q)'
    <3>1. CASE v = w \/ q = w
      BY <3>1, CommitEffect, NoWritesType DEF Apart
    <3>2. CASE v # w /\ q # w
      BY <1>1, <2>1, <3>2, CommitEffect DEF KeysOK, Apart
    <3> QED
      BY <3>1, <3>2
  <2>2. ASSUME NEW v \in Workers, NEW a \in AssignmentIds, tx'[v].assignments[a] # NULL,
               NEW u \in Users, NEW x \in Roles, IsActive(tx'[v].assignments[a], u, x)
        PROVE  ~ HasRole(u, x)'
    <3>1. v # w /\ tx'[v] = tx[v]
      BY <2>2, CommitEffect, NoWritesType
    <3>2. ~ HasRole(u, x) /\ Apart(v, w)
      BY <1>1, <2>2, <3>1 DEF KeysOK
    <3>3. ASSUME NEW b \in AssignmentIds, assignments'[b] # NULL, IsActive(assignments'[b], u, x)
          PROVE  FALSE
      <4>1. CASE assignments[b] # NULL /\ assignments'[b] = assignments[b]
        BY <1>1, <3>2, <3>3, <4>1 DEF HasRole, Rowful, TypeOK
      <4>2. CASE tx[w].assignments[b] # NULL /\ assignments'[b] = tx[w].assignments[b]
        BY <2>2, <3>1, <3>2, <3>3, <4>2 DEF Apart
      <4> QED
        BY <1>2, <3>3, <4>1, <4>2
    <3> QED
      BY <3>3, CommitEffect DEF HasRole, Rowful
  <2> QED
    BY <2>1, <2>2 DEF KeysOK
<1>6. \A u \in Users : users[u] # NULL => users'[u] # NULL
  BY CommitEffect
<1>7. CatalogueOK'
  <2>1. ASSUME NEW a \in AssignmentIds, assignments'[a] # NULL
        PROVE  users'[assignments'[a].user] # NULL
    <3>1. assignments'[a].user \in Users
      BY <2>1, CommitEffect, Fields
    <3>2. CASE assignments[a] # NULL /\ assignments'[a].user = assignments[a].user
      BY <1>1, <1>6, <3>1, <3>2 DEF CatalogueOK
    <3>3. CASE assignments'[a] = tx[w].assignments[a] /\ Assigns(w, a)
      BY <1>6, <3>1, <3>3, NullIsNoRow DEF Assigns, MayAssign
    <3>4. CASE Enrols(w, assignments'[a].user, a)
      BY <3>1, <3>4, CommitEffect, NullIsNoRow DEF Enrols, OnlyWrites
    <3> QED
      BY <2>1, <3>2, <3>3, <3>4, CommittedRows
  <2> QED
    BY <1>1, <2>1, CommitEffect DEF CatalogueOK
<1>8. EveryAccountWasEnrolled'
  <2> SUFFICES ASSUME NEW u \in Users, users'[u] # NULL
               PROVE  \E a \in AssignmentIds :
                         /\ assignments'[a] # NULL
                         /\ assignments'[a].user = u
                         /\ assignments'[a].role \in SystemRoles
                         /\ assignments'[a].assigned_by = NULL
    BY CommitEffect DEF EveryAccountWasEnrolled, Rowful
  <2>1. CASE users[u] # NULL
    <3>1. PICK a \in AssignmentIds : /\ assignments[a] # NULL
                                     /\ assignments[a].user = u
                                     /\ assignments[a].role \in SystemRoles
                                     /\ assignments[a].assigned_by = NULL
      BY <1>1, <2>1 DEF EveryAccountWasEnrolled, Rowful, TypeOK
    <3>2. assignments'[a] # NULL
      BY <3>1, CommitEffect
    <3> QED
      BY <3>1, <3>2, CommittedRows
  <2>2. CASE users[u] = NULL
    <3>1. PICK a \in AssignmentIds : Enrols(w, u, a)
      BY <2>2, CommitEffect, Written DEF Deletes
    <3>2. assignments'[a] = tx[w].assignments[a] /\ tx[w].assignments[a] # NULL
      BY <3>1, CommitEffect DEF Enrols, OnlyWrites
    <3> QED
      BY <3>1, <3>2 DEF Enrols
  <2> QED
    BY <2>1, <2>2
<1> QED
  BY <1>3, <1>4, <1>5, <1>7, <1>8 DEF RoleInv

-----------------------------------------------------------------------------
(* Edits of a role.                                                        *)

\* Role x gets another row while no transaction has locked it, or keeps what
\* the transactions that have locked it rely on.
LEMMA EditRoleRoles ==
    ASSUME RoleInv, NEW x \in Roles, NEW row \in RoleRow,
           roles' = [roles EXCEPT ![x] = row],
           UNCHANGED <<users, assignments, lock, pc, job, tx>>,
           \A y \in Rowful(roles) \ {x} : roles[y].code # row.code,
           x \in SystemRoles => row.is_system /\ row.code = roles[x].code,
           roles[x].is_active /\ lock[x] # NULL => row.is_active
    PROVE  RoleInv'
<1>1. /\ TypeOK /\ CatalogueOK /\ row # NULL
      /\ \A y \in Roles : roles'[y] = IF y = x THEN row ELSE roles[y]
  BY NullIsNoRow DEF RoleInv, TypeOK
<1>2. TypeOK'
  <2>1. \A y, z \in Rowful(roles)' : roles'[y].code = roles'[z].code => y = z
    BY <1>1 DEF TypeOK, Rowful
  <2>2. Rowful(assignments)' = Rowful(assignments)
    BY DEF Rowful
  <2> QED
    BY <1>1, <2>1, <2>2 DEF TypeOK
<1>3. ASSUME NEW w \in Workers PROVE StageOK(w)'
  <2>1. StageOK(w) /\ NULL \notin Workers
    BY NullIsNoRow DEF RoleInv
  <2>2. ASSUME NEW y \in Roles, roles[y].is_active, lock[y] = w PROVE roles'[y].is_active
    BY <1>1, <2>1, <2>2
  <2>3. \A y \in Roles : roles[y] # NULL => roles'[y] # NULL
    BY <1>1
  <2>4. \A a \in AssignmentIds : Assigns(w, a) => Assigns(w, a)'
    <3> SUFFICES ASSUME NEW a \in AssignmentIds, Assigns(w, a) PROVE Assigns(w, a)'
      OBVIOUS
    <3>1. tx[w].assignments[a] \in AssignmentRow
      BY <1>1 DEF Assigns, OnlyWrites, TypeOK
    <3> QED
      BY <2>2, <2>3, <3>1, Fields DEF Assigns, OnlyWrites, MayAssign
  <2>5. \A u \in Users, a \in AssignmentIds : Enrols(w, u, a) => Enrols(w, u, a)'
    <3> SUFFICES ASSUME NEW u \in Users, NEW a \in AssignmentIds, Enrols(w, u, a)
                 PROVE  Enrols(w, u, a)'
      OBVIOUS
    <3>1. tx[w].assignments[a] \in AssignmentRow
      BY <1>1 DEF Enrols, OnlyWrites, TypeOK
    <3> QED
      BY <2>2, <3>1, Fields DEF Enrols, OnlyWrites
  <2>6. \A a \in AssignmentIds : Revokes(w, a) => Revokes(w, a)'
    BY DEF Revokes, OnlyWrites
  <2>7. \A u \in Users : Deletes(w, u) => Deletes(w, u)'
    BY DEF Deletes, OnlyWrites
  <2>8. SystemRoles \subseteq Roles
    BY RolesAssumption
  <2> QED
    BY <2>1, <2>2, <2>3, <2>4, <2>5, <2>6, <2>7, <2>8 DEF StageOK, OnlyWrites, MayAssign
<1>4. KeysOK'
  BY DEF RoleInv, KeysOK, Apart, HasRole, Rowful
<1>5. CatalogueOK'
  BY <1>1, RolesAssumption DEF CatalogueOK, SystemRoles
<1>6. EveryAccountWasEnrolled'
  BY DEF RoleInv, EveryAccountWasEnrolled, Rowful
<1> QED
  BY <1>2, <1>3, <1>4, <1>5, <1>6 DEF RoleInv

\* What the three edits make of the role.
LEMMA Edits ==
    ASSUME RoleInv, NEW x \in Roles,
           \/ \E code \in Codes : CreateRole(x, code) \/ UpdateRole(x, code)
           \/ \E b \in BOOLEAN : SetRoleActive(x, b)
    PROVE  \E row \in RoleRow :
              /\ roles' = [roles EXCEPT ![x] = row]
              /\ UNCHANGED <<users, assignments, lock, pc, job, tx>>
              /\ \A y \in Rowful(roles) \ {x} : roles[y].code # row.code
              /\ x \in SystemRoles => row.is_system /\ row.code = roles[x].code
              /\ roles[x] # NULL /\ row.is_active # roles[x].is_active => lock[x] = NULL
              /\ roles[x] = NULL => row.is_active
<1>1. TypeOK /\ CatalogueOK
  BY DEF RoleInv
<1>2. ASSUME NEW code \in Codes, CreateRole(x, code)
      PROVE  \E row \in RoleRow :
                /\ roles' = [roles EXCEPT ![x] = row]
                /\ roles[x] = NULL
                /\ row.code = code /\ row.is_active
  <2> DEFINE row == [code |-> code, is_system |-> FALSE, is_active |-> TRUE]
  <2>1. row \in RoleRow
    BY DEF RoleRow
  <2> QED
    BY <1>2, <2>1 DEF CreateRole
<1>3. CASE \E code \in Codes : CreateRole(x, code)
  <2>1. PICK code \in Codes : CreateRole(x, code)
    BY <1>3
  <2>2. PICK row \in RoleRow : /\ roles' = [roles EXCEPT ![x] = row]
                               /\ roles[x] = NULL
                               /\ row.code = code /\ row.is_active
    BY <1>2, <2>1
  <2>3. /\ UNCHANGED <<users, assignments, lock, pc, job, tx>>
        /\ \A y \in Rowful(roles) : roles[y].code # code
    BY <2>1 DEF CreateRole, CodeTaken
  <2>4. x \notin SystemRoles
    BY <1>1, <2>2 DEF CatalogueOK
  <2> QED
    BY <2>2, <2>3, <2>4
<1>4. ASSUME NEW code \in Codes, UpdateRole(x, code)
      PROVE  \E row \in RoleRow :
                /\ roles' = [roles EXCEPT ![x] = row]
                /\ roles[x] # NULL
                /\ row.code = code /\ row.is_active = roles[x].is_active
  <2> DEFINE row == [roles[x] EXCEPT !.code = code]
  <2>1. roles[x] \in RoleRow
    BY <1>1, <1>4 DEF TypeOK, UpdateRole
  <2>2. row \in RoleRow /\ row.code = code /\ row.is_active = roles[x].is_active
    BY <2>1 DEF RoleRow
  <2> QED
    BY <1>4, <2>2 DEF UpdateRole
<1>5. CASE \E code \in Codes : UpdateRole(x, code)
  <2>1. PICK code \in Codes : UpdateRole(x, code)
    BY <1>5
  <2>2. PICK row \in RoleRow : /\ roles' = [roles EXCEPT ![x] = row]
                               /\ roles[x] # NULL
                               /\ row.code = code /\ row.is_active = roles[x].is_active
    BY <1>4, <2>1
  <2>3. /\ UNCHANGED <<users, assignments, lock, pc, job, tx>>
        /\ \A y \in Rowful(roles) : roles[y].code # code
        /\ ~ roles[x].is_system
    BY <2>1 DEF UpdateRole, CodeTaken
  <2>4. x \notin SystemRoles
    BY <1>1, <2>3 DEF CatalogueOK
  <2> QED
    BY <2>2, <2>3, <2>4
<1>6. ASSUME NEW b \in BOOLEAN, SetRoleActive(x, b)
      PROVE  \E row \in RoleRow :
                /\ roles' = [roles EXCEPT ![x] = row]
                /\ row.code = roles[x].code /\ row.is_system = roles[x].is_system
  <2> DEFINE row == [roles[x] EXCEPT !.is_active = b]
  <2>1. roles[x] \in RoleRow
    BY <1>1, <1>6 DEF TypeOK, SetRoleActive
  <2>2. row \in RoleRow /\ row.code = roles[x].code /\ row.is_system = roles[x].is_system
    BY <2>1 DEF RoleRow
  <2> QED
    BY <1>6, <2>2 DEF SetRoleActive
<1>7. CASE \E b \in BOOLEAN : SetRoleActive(x, b)
  <2>1. /\ roles[x] # NULL /\ x \in Rowful(roles) /\ lock[x] = NULL
        /\ UNCHANGED <<users, assignments, lock, pc, job, tx>>
    BY <1>1, <1>7 DEF SetRoleActive, Free, TypeOK, Rowful
  <2>2. \A y \in Rowful(roles) \ {x} : roles[y].code # roles[x].code
    BY <1>1, <2>1 DEF TypeOK
  <2> QED
    BY <1>1, <1>6, <1>7, <2>1, <2>2 DEF CatalogueOK
<1> QED
  BY <1>3, <1>5, <1>7

LEMMA RoleEditRoles ==
    ASSUME RoleInv, NEW x \in Roles,
           \/ \E code \in Codes : CreateRole(x, code) \/ UpdateRole(x, code)
           \/ \E b \in BOOLEAN : SetRoleActive(x, b)
    PROVE  RoleInv'
<1>1. PICK row \in RoleRow :
         /\ roles' = [roles EXCEPT ![x] = row]
         /\ UNCHANGED <<users, assignments, lock, pc, job, tx>>
         /\ \A y \in Rowful(roles) \ {x} : roles[y].code # row.code
         /\ x \in SystemRoles => row.is_system /\ row.code = roles[x].code
         /\ roles[x] # NULL /\ row.is_active # roles[x].is_active => lock[x] = NULL
         /\ roles[x] = NULL => row.is_active
  BY Edits
<1> QED
  BY <1>1, EditRoleRoles

-----------------------------------------------------------------------------
(* The inductive invariant.                                                *)

LEMMA InductionStep == RoleInv /\ [Next]_vars => RoleInv'
<1> SUFFICES ASSUME RoleInv, [Next]_vars PROVE RoleInv'
  OBVIOUS
<1>1. ASSUME NEW w \in Workers, Request(w) PROVE RoleInv'
  BY <1>1, RequestRoles
<1>2. ASSUME NEW w \in Workers, ServeRequest(w) PROVE RoleInv'
  BY <1>2, AssignRoleRoles, AssignLockRoleRoles, AssignInsertRoles, RevokeRoleRoles,
     EnrolRoles, EnrolInsertRoles, DeleteAccountRoles, CommitRoles, RollbackRoles
     DEF ServeRequest, AssignReject, AssignConflict, RevokeMissing, EnrolConflict
<1>3. ASSUME NEW w \in Workers, DeadlockVictim(w) \/ Crash(w) PROVE RoleInv'
  BY <1>3, RollbackRoles DEF DeadlockVictim, Crash
<1>4. ASSUME NEW x \in Roles,
             \/ \E code \in Codes : CreateRole(x, code) \/ UpdateRole(x, code)
             \/ \E b \in BOOLEAN : SetRoleActive(x, b)
      PROVE  RoleInv'
  BY <1>4, RoleEditRoles
<1>5. CASE UNCHANGED vars
  <2> USE <1>5 DEF vars
  <2>1. TypeOK' /\ KeysOK' /\ CatalogueOK' /\ EveryAccountWasEnrolled'
    BY DEF RoleInv, TypeOK, Rowful, KeysOK, Apart, HasRole, CatalogueOK,
           EveryAccountWasEnrolled
  <2>2. ASSUME NEW w \in Workers PROVE StageOK(w)'
    <3>1. StageOK(w)
      BY DEF RoleInv
    <3>2. \A a \in AssignmentIds : Assigns(w, a)' = Assigns(w, a)
      BY DEF Assigns, OnlyWrites, MayAssign
    <3>3. \A u \in Users, a \in AssignmentIds : Enrols(w, u, a)' = Enrols(w, u, a)
      BY DEF Enrols, OnlyWrites
    <3>4. \A a \in AssignmentIds : Revokes(w, a)' = Revokes(w, a)
      BY DEF Revokes, OnlyWrites
    <3>5. \A u \in Users : Deletes(w, u)' = Deletes(w, u)
      BY DEF Deletes, OnlyWrites
    <3> QED
      BY <3>1, <3>2, <3>3, <3>4, <3>5 DEF StageOK, OnlyWrites, MayAssign
  <2> QED
    BY <2>1, <2>2 DEF RoleInv
<1> QED
  BY <1>1, <1>2, <1>3, <1>4, <1>5 DEF Next

\* What every transaction has locked and written by the stage it has reached.
THEOREM RoleInvariance == Spec => []RoleInv
  BY InitRoleInv, InductionStep, PTL DEF Spec

\* The types, and on the committed rows the unique codes and the unique active
\* assignment of a role to a user: the constraints of the database are never
\* met by a COMMIT that breaks them.
THEOREM TypeCorrect == Spec => []TypeOK
<1>1. RoleInv => TypeOK
  BY DEF RoleInv
<1> QED
  BY <1>1, RoleInvariance, PTL

\* Every account has the role of the seed command that it was enrolled with.
THEOREM AccountsAreEnrolled == Spec => []EveryAccountWasEnrolled
<1>1. RoleInv => EveryAccountWasEnrolled
  BY DEF RoleInv
<1> QED
  BY <1>1, RoleInvariance, PTL

-----------------------------------------------------------------------------
(* What a step does to the tables.                                         *)

\* Only COMMIT and the edits of a role write the database.
LEMMA OnlyCommitWrites ==
    ASSUME NEW w \in Workers,
           Request(w) \/ ServeRequest(w) \/ DeadlockVictim(w) \/ Crash(w),
           ~ Commit(w)
    PROVE  UNCHANGED database
  BY DEF Request, BeginRoleRequest, BeginEnrolment, BeginDeletion, Call, ServeRequest,
         DeadlockVictim, Crash, AssignRole, RevokeRole, RevokeMissing, Enrol,
         DeleteAccount, AssignLockRole, AssignReject, AssignInsert, AssignConflict,
         EnrolInsert, EnrolConflict, Rollback

\* An edit of a role leaves accounts and assignments alone.
LEMMA EditsLeaveAssignments ==
    ASSUME NEW x \in Roles,
           \/ \E code \in Codes : CreateRole(x, code) \/ UpdateRole(x, code)
           \/ \E b \in BOOLEAN : SetRoleActive(x, b)
    PROVE  UNCHANGED <<users, assignments>>
  BY DEF CreateRole, UpdateRole, SetRoleActive

\* So an assignment that a step changes is changed by a COMMIT.
LEMMA OnlyCommitAssigns ==
    ASSUME [Next]_vars
    PROVE  UNCHANGED assignments \/ \E w \in Workers : Commit(w)
  BY OnlyCommitWrites, EditsLeaveAssignments DEF Next, vars, database

\* Only usable users get a role, and only an active one, at the COMMIT.
THEOREM UsableUsersAreAssigned == Spec => AssignedWhileUsable
<1>1. ASSUME RoleInv, [Next]_vars, NEW a \in AssignmentIds,
             assignments[a] = NULL, assignments'[a] # NULL
      PROVE  /\ users'[assignments'[a].user] = "usable"
             /\ roles'[assignments'[a].role].is_active
  <2>1. PICK w \in Workers : Commit(w)
    BY <1>1, OnlyCommitAssigns
  <2>2. /\ assignments'[a] = tx[w].assignments[a]
        /\ Assigns(w, a) \/ Enrols(w, assignments'[a].user, a)
        /\ assignments'[a].user \in Users
        /\ roles' = roles
    <3>1. /\ assignments'[a] = tx[w].assignments[a]
          /\ Assigns(w, a) \/ Enrols(w, assignments'[a].user, a)
      BY <1>1, <2>1, CommittedRows
    <3>2. assignments'[a] \in AssignmentRow /\ roles' = roles
      BY <1>1, <2>1, CommitEffect
    <3> QED
      BY <3>1, <3>2, Fields
  <2>3. CASE Assigns(w, a)
    BY <1>1, <2>1, <2>2, <2>3, CommitEffect DEF Assigns, OnlyWrites, MayAssign
  <2>4. CASE Enrols(w, assignments'[a].user, a)
    BY <1>1, <2>1, <2>2, <2>4, CommitEffect, NullIsNoRow DEF Enrols
  <2> QED
    BY <2>2, <2>3, <2>4
<1>2. RoleInv /\ [Next]_vars =>
        [\A a \in AssignmentIds :
           assignments[a] = NULL /\ assignments'[a] # NULL
             => /\ users'[assignments'[a].user] = "usable"
                /\ roles'[assignments'[a].role].is_active]_vars
  BY <1>1
<1> QED
  BY <1>2, RoleInvariance, PTL DEF Spec, AssignedWhileUsable

\* What was revoked stays as it was revoked.
THEOREM RevokedIsHistory == Spec => RevokedAssignmentIsFrozen
<1>1. ASSUME RoleInv, [Next]_vars, NEW a \in Rowful(assignments), assignments[a].revoked
      PROVE  assignments'[a] = assignments[a]
  <2>1. a \in AssignmentIds /\ assignments[a] # NULL
    BY <1>1 DEF Rowful, RoleInv, TypeOK
  <2>2. ASSUME NEW w \in Workers, Commit(w) PROVE assignments'[a] = assignments[a]
    <3>1. assignments'[a] # NULL
      BY <2>1, <2>2, CommitEffect, <1>1
    <3>2. assignments'[a] = assignments[a] \/ Revokes(w, a)
      BY <1>1, <2>1, <2>2, <3>1, CommittedRows
    <3> QED
      BY <1>1, <3>2 DEF Revokes
  <2> QED
    BY <1>1, <2>2, OnlyCommitAssigns
<1>2. RoleInv /\ [Next]_vars =>
        [\A a \in Rowful(assignments) :
           assignments[a].revoked => assignments'[a] = assignments[a]]_vars
  BY <1>1
<1> QED
  BY <1>2, RoleInvariance, PTL DEF Spec, RevokedAssignmentIsFrozen

-----------------------------------------------------------------------------
(* What the transactions commit, as Permissions sees it.                   *)

\* The pairs of a user and a role it holds, and the active roles.
Held == {<<assignments[a].user, assignments[a].role>> :
           a \in {b \in Rowful(assignments) : ~ assignments[b].revoked}}
ActiveRoles == {x \in Roles : roles[x] = NULL \/ roles[x].is_active}

\* Whoever holds a role has an active assignment of it.
LEMMA HeldPairs ==
    ASSUME TypeOK, NEW e
    PROVE  e \in Held <=> \E a \in AssignmentIds :
                             /\ assignments[a] # NULL /\ ~ assignments[a].revoked
                             /\ e = <<assignments[a].user, assignments[a].role>>
  BY DEF Held, Rowful, TypeOK

LEMMA HeldPairsNext ==
    ASSUME TypeOK', NEW e
    PROVE  e \in Held' <=> \E a \in AssignmentIds :
                              /\ assignments'[a] # NULL /\ ~ assignments'[a].revoked
                              /\ e = <<assignments'[a].user, assignments'[a].role>>
  BY DEF Held, Rowful, TypeOK

LEMMA CatalogueStart == Init => Catalogue!CatalogueInit
<1> SUFFICES ASSUME Init PROVE Catalogue!CatalogueInit
  OBVIOUS
<1>1. Held = {}
  BY DEF Init, Held, Rowful
<1>2. ActiveRoles = Roles
  <2>1. ASSUME NEW x \in Roles PROVE x \in ActiveRoles
    <3>1. CASE x \in SystemRoles
      BY <3>1 DEF Init, Seeded, ActiveRoles
    <3>2. CASE x \notin SystemRoles
      BY <3>2 DEF Init, Seeded, ActiveRoles
    <3> QED
      BY <3>1, <3>2
  <2> QED
    BY <2>1 DEF ActiveRoles
<1>3. [has_owner |-> TRUE, is_active |-> TRUE] \in [has_owner : BOOLEAN, is_active : {TRUE}]
  OBVIOUS
<1>4. Roles \X {} = {}
  OBVIOUS
<1>5. [k \in {} |-> NULL] = [k \in Roles \X {} |-> [scope |-> "none", is_active |-> FALSE]]
  BY <1>4
<1> QED
  BY <1>1, <1>2, <1>3, <1>5 DEF Catalogue!CatalogueInit, Held, ActiveRoles

\* A COMMIT gives one role, takes one, or is invisible.
LEMMA CommitCatalogue ==
    ASSUME RoleInv, RoleInv', NEW w \in Workers, Commit(w)
    PROVE  \/ \E u \in Users, x \in Roles : Catalogue!AssignRole(u, x) \/ Catalogue!RevokeRole(u, x)
           \/ UNCHANGED Catalogue!catalogue
<1>1. TypeOK /\ TypeOK' /\ ActiveRoles' = ActiveRoles
  BY CommitEffect DEF RoleInv, ActiveRoles
<1>2. CASE \E a \in AssignmentIds : assignments[a] = NULL /\ assignments'[a] # NULL
  <2>1. PICK a \in AssignmentIds : assignments[a] = NULL /\ assignments'[a] # NULL
    BY <1>2
  <2> DEFINE u == assignments'[a].user
             x == assignments'[a].role
  <2>2. /\ assignments'[a] = tx[w].assignments[a]
        /\ Assigns(w, a) \/ Enrols(w, u, a)
        /\ \A b \in AssignmentIds \ {a} : assignments'[b] = assignments[b]
        /\ u \in Users /\ x \in Roles
    BY <2>1, CommittedRows, CommitEffect, Fields
  <2>3. ~ assignments'[a].revoked /\ roles[x].is_active
    BY <2>2 DEF Assigns, Enrols, MayAssign
  <2>4. x \in ActiveRoles
    BY <2>2, <2>3 DEF ActiveRoles
  <2>5. Held' = Held \cup {<<u, x>>}
    <3>1. ASSUME NEW e PROVE e \in Held' <=> e \in Held \/ e = <<u, x>>
      BY <1>1, <2>1, <2>2, <2>3, HeldPairs, HeldPairsNext
    <3> QED
      BY <3>1
  <2>6. PICK v \in Users, y \in Roles : v = u /\ y = x
    BY <2>2
  <2>7. y \in ActiveRoles /\ Held' = Held \cup {<<v, y>>}
    BY <2>4, <2>5, <2>6
  <2>8. Catalogue!AssignRole(v, y)
    BY <1>1, <2>7 DEF Catalogue!AssignRole, Held, ActiveRoles
  <2> QED
    BY <2>8
<1>3. CASE \E a \in AssignmentIds : Revokes(w, a)
  <2>1. PICK a \in AssignmentIds : Revokes(w, a)
    BY <1>3
  <2> DEFINE u == assignments[a].user
             x == assignments[a].role
  <2>2. /\ assignments[a] # NULL /\ ~ assignments[a].revoked
        /\ assignments[a] \in AssignmentRow
        /\ u \in Users /\ x \in Roles
    BY <1>1, <2>1, Fields DEF Revokes, TypeOK
  <2>3. /\ assignments'[a].revoked
        /\ \A b \in AssignmentIds \ {a} : assignments'[b] = assignments[b]
    <3>1. tx[w].assignments[a].revoked
      BY <1>1, <2>1, RevokedRow
    <3>2. \A b \in AssignmentIds : tx[w].assignments[b] # NULL <=> b = a
      BY <2>1 DEF Revokes, OnlyWrites
    <3> QED
      BY <3>1, <3>2, CommitEffect
  <2>4. ASSUME NEW b \in AssignmentIds \ {a}, assignments[b] # NULL, ~ assignments[b].revoked
        PROVE  <<assignments[b].user, assignments[b].role>> # <<u, x>>
    BY <1>1, <2>2, <2>4 DEF TypeOK, Rowful, IsActive
  <2>5. Held' = Held \ {<<u, x>>}
    <3>1. ASSUME NEW e PROVE e \in Held' <=> e \in Held /\ e # <<u, x>>
      BY <1>1, <2>2, <2>3, <2>4, HeldPairs, HeldPairsNext
    <3> QED
      BY <3>1
  <2>6. PICK v \in Users, y \in Roles : v = u /\ y = x
    BY <2>2
  <2>7. Held' = Held \ {<<v, y>>}
    BY <2>5, <2>6
  <2>8. Catalogue!RevokeRole(v, y)
    BY <1>1, <2>7 DEF Catalogue!RevokeRole, Held, ActiveRoles
  <2> QED
    BY <2>8
<1>4. CASE /\ ~ \E a \in AssignmentIds : assignments[a] = NULL /\ assignments'[a] # NULL
           /\ ~ \E a \in AssignmentIds : Revokes(w, a)
  <2>1. \A a \in AssignmentIds : assignments'[a] = assignments[a]
    BY <1>4, CommittedRows, CommitEffect
  <2>2. Held' = Held
    <3>1. ASSUME NEW e PROVE e \in Held' <=> e \in Held
      BY <1>1, <2>1, HeldPairs, HeldPairsNext
    <3> QED
      BY <3>1
  <2> QED
    BY <1>1, <2>2 DEF Catalogue!catalogue, Held, ActiveRoles
<1> QED
  BY <1>2, <1>3, <1>4

\* An edit of a role switches it on or off, or is invisible.
LEMMA EditCatalogue ==
    ASSUME RoleInv, NEW x \in Roles,
           \/ \E code \in Codes : CreateRole(x, code) \/ UpdateRole(x, code)
           \/ \E b \in BOOLEAN : SetRoleActive(x, b)
    PROVE  Catalogue!ActivateRole(x) \/ Catalogue!DeactivateRole(x)
<1>1. PICK row \in RoleRow :
         /\ roles' = [roles EXCEPT ![x] = row]
         /\ UNCHANGED <<users, assignments, lock, pc, job, tx>>
  BY Edits
<1>2. row # NULL /\ row.is_active \in BOOLEAN
      /\ \A y \in Roles : roles'[y] = IF y = x THEN row ELSE roles[y]
  BY <1>1, NullIsNoRow, Fields DEF RoleInv, TypeOK
<1>3. Held' = Held
  BY <1>1 DEF Held, Rowful
<1>4. CASE row.is_active
  <2>1. ActiveRoles' = ActiveRoles \cup {x}
    BY <1>2, <1>4 DEF ActiveRoles
  <2> QED
    BY <1>3, <2>1 DEF Catalogue!ActivateRole, Held, ActiveRoles
<1>5. CASE ~ row.is_active
  <2>1. ActiveRoles' = ActiveRoles \ {x}
    BY <1>2, <1>5 DEF ActiveRoles
  <2> QED
    BY <1>3, <2>1 DEF Catalogue!DeactivateRole, Held, ActiveRoles
<1> QED
  BY <1>4, <1>5

LEMMA CatalogueStep ==
    RoleInv /\ RoleInv' /\ [Next]_vars => [Catalogue!EditCatalogue]_(Catalogue!catalogue)
<1> SUFFICES ASSUME RoleInv, RoleInv', [Next]_vars
             PROVE  Catalogue!EditCatalogue \/ UNCHANGED Catalogue!catalogue
  OBVIOUS
<1>1. UNCHANGED database => UNCHANGED Catalogue!catalogue
  BY DEF database, Catalogue!catalogue, Rowful
<1>2. ASSUME NEW w \in Workers,
             Request(w) \/ ServeRequest(w) \/ DeadlockVictim(w) \/ Crash(w), ~ Commit(w)
      PROVE  UNCHANGED database
  BY <1>2, OnlyCommitWrites
<1>3. ASSUME NEW w \in Workers, Commit(w)
      PROVE  Catalogue!EditCatalogue \/ UNCHANGED Catalogue!catalogue
  BY <1>3, CommitCatalogue
     DEF Catalogue!EditCatalogue, Catalogue!Withdraw, Catalogue!Extend
<1>4. ASSUME NEW x \in Roles,
             \/ \E code \in Codes : CreateRole(x, code) \/ UpdateRole(x, code)
             \/ \E b \in BOOLEAN : SetRoleActive(x, b)
      PROVE  Catalogue!EditCatalogue
  BY <1>4, EditCatalogue
     DEF Catalogue!EditCatalogue, Catalogue!Withdraw, Catalogue!Extend
<1> QED
  BY <1>1, <1>2, <1>3, <1>4 DEF Next, vars, database

\* Whatever the transactions do inside, what they commit are changes of the
\* catalogue: each COMMIT gives a role that is active or takes one, each edit
\* of a role switches it, and everything else is invisible to permission_service.
THEOREM CatalogueIsImplemented == Spec => ImplementsCatalogue
<1>1. Init => Catalogue!CatalogueInit
  BY CatalogueStart
<1>2. RoleInv /\ RoleInv' /\ [Next]_vars
        => [Catalogue!EditCatalogue]_(Catalogue!catalogue)
  BY CatalogueStep
<1> QED
  BY <1>1, <1>2, RoleInvariance, PTL
     DEF Spec, ImplementsCatalogue, Catalogue!CatalogueSpec
=============================================================================
