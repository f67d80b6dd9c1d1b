--------------------------- MODULE AccessPolicies ---------------------------
(***************************************************************************)
(* Resources and access policies of the access service, edited by          *)
(* concurrent administrators and by the command seed_access_control.       *)
(*                                                                         *)
(* A service function is one READ COMMITTED transaction.  select_for_update*)
(* waits for a row, INSERT and UPDATE wait for an uncommitted row of the   *)
(* same unique key, and COMMIT waits for the rows that new foreign keys    *)
(* point to (Django declares them DEFERRABLE INITIALLY DEFERRED, so        *)
(* PostgreSQL takes the KEY SHARE locks there).  Names and descriptions    *)
(* are left out; a role and an action come as one, with codes that stay.   *)
(***************************************************************************)
EXTENDS Integers, Relation

CONSTANTS
    Grants,        \* a role with an action: what a policy ties to a resource
    Codes,         \* of resources; the views name them as constants
    ResourceIds,
    PolicyIds,
    Admins,        \* worker threads that serve the access API
    Seeders,       \* processes that run seed_access_control once more
    Scopes,        \* the scopes requests ask for
    SeedRows,      \* what the command declares, under the ids of its first run
    NULL

Ids == ResourceIds \cup PolicyIds

ResourceRow == [code : Codes, has_owner : BOOLEAN, is_active : BOOLEAN]
PolicyRow == [grant : Grants, resource : ResourceIds,
              scope : {"none", "own", "all"}, is_active : BOOLEAN]
Row == ResourceRow \cup PolicyRow

RowType(i) == IF i \in ResourceIds THEN ResourceRow ELSE PolicyRow

Key(row) == IF "code" \in DOMAIN row THEN <<row.code>>
                                     ELSE <<row.grant, row.resource>>

SameKey(v, w) == Key(v) = Key(w)

SeedGrants == {SeedRows[v].grant : v \in DOMAIN SeedRows \cap PolicyIds}
Workers == Admins \cup Seeders

\* A row of Grants stands for its role and its action, locked together.
Lockable == Grants \cup Ids

ASSUME ScopesAssumption == Scopes \subseteq {"none", "own", "all"}
ASSUME IdsAssumption ==
    /\ Grants \cap Ids = {}
    /\ ResourceIds \cap PolicyIds = {}
    /\ Admins \cap Seeders = {}
ASSUME SeedAssumption ==
    /\ DOMAIN SeedRows \subseteq Ids
    /\ \A x \in DOMAIN SeedRows \cap ResourceIds :
          SeedRows[x] \in ResourceRow /\ SeedRows[x].is_active
    /\ \A p \in DOMAIN SeedRows \cap PolicyIds :
          /\ SeedRows[p] \in PolicyRow /\ SeedRows[p].is_active
          /\ SeedRows[p].resource \in DOMAIN SeedRows
          /\ SeedRows[p].scope = "own" => SeedRows[SeedRows[p].resource].has_owner
    /\ \A v, u \in DOMAIN SeedRows : v # u => ~ SameKey(SeedRows[v], SeedRows[u])
ASSUME NullAssumption ==
    /\ NULL \notin Lockable \cup Workers \cup Row \cup Codes \cup BOOLEAN
    /\ NULL \notin {"none", "own", "all"}

VARIABLES
    rows,    \* the committed resources and policies, NULL where there is none
    lock,    \* the transaction that locked a row FOR UPDATE
    pc,      \* the stage of each worker
    target,  \* the row it edits
    draft,   \* the object in its memory
    asked,   \* history: the fields its request alters
    todo,    \* what a seeder has still to update or create
    tx       \* uncommitted rows, NULL where there is none

vars == <<rows, lock, pc, target, draft, asked, todo, tx>>

Stages ==
    {"idle",
     "inserting",   \* a creation has validated its object, INSERT to come
     "waiting",     \* an edit asks for its row with select_for_update()
     "patching",    \* an update has its row and has changed its object
     "saving",      \* the object is validated, UPDATE to come
     "committing",  \* the last statement is done, COMMIT to come
     "starting",    \* the command has been called
     "seeding",
     "done"}        \* and has ended

Rowful(table) == {i \in DOMAIN table : table[i] # NULL}

\* The types, and the unique constraints on the committed rows.
TypeOK ==
    /\ rows \in [Ids -> Row \cup {NULL}]
    /\ \A i \in Rowful(rows) : rows[i] \in ResourceRow <=> i \in ResourceIds
    /\ \A i, j \in Rowful(rows) : i # j => ~ SameKey(rows[i], rows[j])
    /\ lock \in [Lockable -> Workers \cup {NULL}]
    /\ pc \in [Workers -> Stages]
    /\ target \in [Workers -> Ids \cup {NULL}]
    /\ draft \in [Workers -> Row \cup {NULL}]
    /\ asked \in [Workers -> SUBSET {"code", "has_owner", "grant", "resource",
                                     "scope", "is_active"}]
    /\ todo \in [Workers -> SUBSET DOMAIN SeedRows]
    /\ tx \in [Workers -> [Ids -> Row \cup {NULL}]]

NoRows == [i \in Ids |-> NULL]

\* The command has run once before the server was started; it is called again.
Init ==
    /\ rows = [i \in Ids |-> IF i \in DOMAIN SeedRows THEN SeedRows[i] ELSE NULL]
    /\ lock = [x \in Lockable |-> NULL]
    /\ pc = [w \in Workers |-> IF w \in Seeders THEN "starting" ELSE "idle"]
    /\ target = [w \in Workers |-> NULL]
    /\ draft = [w \in Workers |-> NULL]
    /\ asked = [w \in Workers |-> {}]
    /\ todo = [w \in Workers |-> {}]
    /\ tx = [w \in Workers |-> NoRows]

-----------------------------------------------------------------------------
(* Locks, keys and transactions.                                           *)

Free(x) == lock[x] = NULL

\* Another transaction has written a row of this key, or moved it away.
KeyWriters(w, row) ==
    {v \in Workers \ {w} :
        \E i \in Rowful(tx[v]) : \/ SameKey(tx[v][i], row)
                                 \/ rows[i] # NULL /\ SameKey(rows[i], row)}

\* An id that no committed and no pending row has (uuid4)
FreshId(i) == rows[i] = NULL /\ \A w \in Workers : tx[w][i] = NULL

Duplicate(row, self) == \E j \in Rowful(rows) \ {self} : SameKey(rows[j], row)

\* Mutant: no unique index, only the query of full_clean().
KeyIsFree_NoIndex(w, row, self) == ~ Duplicate(row, self)

\* The unique index takes the row, after it has waited for others of its key.
KeyIsFree(w, row, self) == KeyWriters(w, row) = {} /\ ~ Duplicate(row, self)

\* The rows whose KEY SHARE lock the deferred foreign keys ask for at COMMIT:
\* those of columns that differ from the committed row.
ForeignKeyTargets(w) ==
    UNION {LET new == tx[w][p]
               old == rows[p]
           IN  {x \in {new.grant, new.resource} :
                  old = NULL \/ x \notin {old.grant, old.resource}}
           : p \in Rowful(tx[w]) \cap PolicyIds}

Finish(w) ==
    /\ lock' = [x \in Lockable |-> IF lock[x] = w THEN NULL ELSE lock[x]]
    /\ pc' = [pc EXCEPT ![w] = IF w \in Seeders THEN "done" ELSE "idle"]
    /\ target' = [target EXCEPT ![w] = NULL]
    /\ draft' = [draft EXCEPT ![w] = NULL]
    /\ asked' = [asked EXCEPT ![w] = {}]
    /\ todo' = [todo EXCEPT ![w] = {}]
    /\ tx' = [tx EXCEPT ![w] = NoRows]

Rollback(w) == Finish(w) /\ UNCHANGED rows

Commit(w) ==
    /\ \/ pc[w] = "committing"
       \/ pc[w] = "seeding" /\ todo[w] = {}
    /\ \A x \in ForeignKeyTargets(w) : lock[x] \in {NULL, w}
    /\ rows' = [i \in Ids |-> IF tx[w][i] = NULL THEN rows[i] ELSE tx[w][i]]
    /\ Finish(w)

WriteRow(w, i, row) == tx' = [tx EXCEPT ![w][i] = row]

-----------------------------------------------------------------------------
(* Creation: create_resource and create_policy.  An action is a row with a *)
(* code too, and what create_action and update_action do to it is what     *)
(* their counterparts do to a resource.                                    *)

HasActiveOwnPolicy(x) ==
    \E p \in Rowful(rows) \cap PolicyIds :
        rows[p].resource = x /\ rows[p].scope = "own" /\ rows[p].is_active

\* What the service and full_clean() ask of an object before it is saved.  A
\* policy reads its resource, and a resource its policies, without locks.
Acceptable(row, self) ==
    /\ ~ Duplicate(row, self)
    /\ row \in ResourceRow => row.has_owner \/ ~ HasActiveOwnPolicy(self)
    /\ row \in PolicyRow =>
          /\ rows[row.resource] # NULL
          /\ row.scope = "own" => rows[row.resource].has_owner

Create(w, row) ==
    /\ pc[w] = "idle"
    /\ Acceptable(row, NULL)
    /\ draft' = [draft EXCEPT ![w] = row]
    /\ pc' = [pc EXCEPT ![w] = "inserting"]
    /\ UNCHANGED <<rows, lock, target, asked, todo, tx>>

CreateResource(w, row) == row.is_active /\ Create(w, row)

CreatePolicy(w, row) == row.scope \in Scopes /\ Create(w, row)

Insert(w, i) ==
    /\ pc[w] = "inserting"
    /\ draft[w] \in RowType(i)
    /\ FreshId(i)
    /\ KeyIsFree(w, draft[w], NULL)
    /\ WriteRow(w, i, draft[w])
    /\ pc' = [pc EXCEPT ![w] = "committing"]
    /\ UNCHANGED <<rows, lock, target, draft, asked, todo>>

-----------------------------------------------------------------------------
(* Edits: update_resource, update_policy, set_access_object_active,        *)
(* deactivate_policy.  A request finds row i by its id and asks for it;    *)
(* what it carries is chosen when it has got the row.                      *)

BeginEdit(w, i) ==
    /\ pc[w] = "idle"
    /\ rows[i] # NULL
    /\ target' = [target EXCEPT ![w] = i]
    /\ pc' = [pc EXCEPT ![w] = "waiting"]
    /\ UNCHANGED <<rows, lock, draft, asked, todo, tx>>

LockRow(w, i, stage, fields) ==
    /\ pc[w] = "waiting"
    /\ target[w] = i
    /\ Free(i)
    /\ lock' = [lock EXCEPT ![i] = w]
    /\ asked' = [asked EXCEPT ![w] = fields]
    /\ pc' = [pc EXCEPT ![w] = stage]
    /\ UNCHANGED target

\* PATCH: row is the object with the fields of the request put into it, and
\* the request asks for those that differ from what was read.
Altered(i, row) == {f \in DOMAIN row : row[f] # rows[i][f]}

\* Mutant: the row is read without select_for_update().
Update_Unlocked(w, i, row) ==
    /\ pc[w] = "waiting"
    /\ target[w] = i
    /\ asked' = [asked EXCEPT ![w] = Altered(i, row)]
    /\ draft' = [draft EXCEPT ![w] = row]
    /\ pc' = [pc EXCEPT ![w] = "patching"]
    /\ UNCHANGED <<rows, lock, target, todo, tx>>

Update(w, i, row) ==
    /\ LockRow(w, i, "patching", Altered(i, row))
    /\ draft' = [draft EXCEPT ![w] = row]
    /\ UNCHANGED <<rows, todo, tx>>

\* The request may carry code and has_owner.
UpdateResource(w, x, row) ==
    /\ target[w] = x
    /\ row.is_active = rows[x].is_active
    /\ Update(w, x, row)

UpdatePolicy(w, p, row) ==
    /\ target[w] = p
    /\ row.scope \in Scopes \cup {rows[p].scope}
    /\ Update(w, p, row)

UpdateClean(w) ==
    /\ pc[w] = "patching"
    /\ Acceptable(draft[w], target[w])
    /\ pc' = [pc EXCEPT ![w] = "saving"]
    /\ UNCHANGED <<rows, lock, target, draft, asked, todo, tx>>

UpdateReject(w) ==
    /\ pc[w] = "patching"
    /\ ~ Acceptable(draft[w], target[w])
    /\ Rollback(w)

UpdateSave(w) ==
    /\ pc[w] = "saving"
    /\ KeyIsFree(w, draft[w], target[w])
    /\ WriteRow(w, target[w], draft[w])
    /\ pc' = [pc EXCEPT ![w] = "committing"]
    /\ UNCHANGED <<rows, lock, target, draft, asked, todo>>

\* IntegrityError on INSERT or UPDATE: AccessObjectAlreadyExistsError
KeyConflict(w) ==
    /\ pc[w] \in {"inserting", "saving"}
    /\ KeyWriters(w, draft[w]) = {}
    /\ Duplicate(draft[w], target[w])
    /\ Rollback(w)

SetActive(w, i, is_active) ==
    /\ LockRow(w, i, "committing", {"is_active"})
    /\ WriteRow(w, i, [rows[i] EXCEPT !.is_active = is_active])
    /\ UNCHANGED <<rows, draft, todo>>

DeactivatePolicy(w, p) == SetActive(w, p, FALSE)

-----------------------------------------------------------------------------
(* seed_access_control, run again: roles, then resources, then actions,    *)
(* then policies, each by update_or_create (SELECT FOR UPDATE by key, then *)
(* UPDATE or INSERT), all in one transaction; full_clean() is never called.*)
(* Within resources and within policies the order is left open.            *)

SeedStart(w) ==
    /\ pc[w] = "starting"
    /\ \A g \in SeedGrants : Free(g)
    /\ lock' = [x \in Lockable |-> IF x \in SeedGrants THEN w ELSE lock[x]]
    /\ todo' = [todo EXCEPT ![w] = DOMAIN SeedRows]
    /\ asked' = [asked EXCEPT ![w] = {"has_owner", "is_active", "scope"}]
    /\ pc' = [pc EXCEPT ![w] = "seeding"]
    /\ UNCHANGED <<rows, target, draft, tx>>

SeedTurn(w, v) ==
    /\ v \in todo[w]
    /\ v \in PolicyIds => todo[w] \cap ResourceIds = {}

\* The resource that the command has found or created under the code of x.
Found(w, x) == CHOOSE y \in Rowful(tx[w]) : SameKey(tx[w][y], SeedRows[x])

SeedRow(w, v) ==
    IF v \in ResourceIds THEN SeedRows[v]
    ELSE [SeedRows[v] EXCEPT !.resource = Found(w, @)]

SeedWrite(w, v, i, row) ==
    /\ Free(i)
    /\ lock' = [lock EXCEPT ![i] = w]
    /\ todo' = [todo EXCEPT ![w] = @ \ {v}]
    /\ WriteRow(w, i, row)
    /\ UNCHANGED <<rows, pc, target, draft, asked>>

\* Mutant: get_or_create instead of update_or_create.
SeedUpdate_GetOrCreate(w, v, i) ==
    /\ SeedTurn(w, v)
    /\ rows[i] # NULL /\ SameKey(rows[i], SeedRow(w, v))
    /\ SeedWrite(w, v, i, rows[i])

SeedUpdate(w, v, i) ==
    /\ SeedTurn(w, v)
    /\ rows[i] # NULL /\ SameKey(rows[i], SeedRow(w, v))
    /\ SeedWrite(w, v, i, SeedRow(w, v))

\* The key has no committed row: PATCH has given the old row another key.
SeedCreate(w, v, i) ==
    /\ SeedTurn(w, v)
    /\ FreshId(i) /\ (i \in ResourceIds <=> v \in ResourceIds)
    /\ KeyIsFree(w, SeedRow(w, v), NULL)
    /\ SeedWrite(w, v, i, SeedRow(w, v))

-----------------------------------------------------------------------------
(* Failures.                                                               *)

\* The transactions a worker waits for while it holds locks or keys; at its
\* first wait it holds none and no cycle goes through it.
Blockers(w) ==
    CASE pc[w] = "saving"     -> KeyWriters(w, draft[w])
      [] pc[w] = "committing" -> {lock[x] : x \in ForeignKeyTargets(w)}
      [] pc[w] = "seeding"    ->
            UNION {KeyWriters(w, SeedRow(w, v))
                     \cup {lock[i] : i \in {j \in Rowful(rows) :
                                              SameKey(rows[j], SeedRow(w, v))}}
                   : v \in {u \in todo[w] : SeedTurn(w, u)}}
      [] OTHER                -> {}

WaitsFor(w, v) == v # w /\ v \in Blockers(w)

WaitsForGraph == [e \in Workers \X Workers |-> WaitsFor(e[1], e[2])]

InCycle(w) ==
    /\ \E v \in Workers : WaitsFor(w, v)
    /\ TransitiveClosure(WaitsForGraph, Workers)[w, w]

\* Mutant: the cancelled statement is sent again, its transaction left open.
DeadlockVictim_Retries(w) == InCycle(w) /\ UNCHANGED vars

\* PostgreSQL cancels one transaction of a cycle: 500, or the command fails.
DeadlockVictim(w) == InCycle(w) /\ Rollback(w)

\* The process of the worker dies, or its connection does.
Crash(w) ==
    /\ pc[w] \notin {"idle", "done"}
    /\ Rollback(w)

-----------------------------------------------------------------------------
Request(w) ==
    \/ \E row \in ResourceRow : CreateResource(w, row)
    \/ \E row \in PolicyRow : CreatePolicy(w, row)
    \/ \E i \in Ids : BeginEdit(w, i)

ServeRequest(w) ==
    \/ \E i \in Ids : Insert(w, i)
    \/ \E x \in ResourceIds, row \in ResourceRow : UpdateResource(w, x, row)
    \/ \E p \in PolicyIds, row \in PolicyRow : UpdatePolicy(w, p, row)
    \/ UpdateClean(w)
    \/ UpdateReject(w)
    \/ UpdateSave(w)
    \/ KeyConflict(w)
    \/ \E x \in ResourceIds, b \in BOOLEAN : SetActive(w, x, b)
    \/ \E p \in PolicyIds : DeactivatePolicy(w, p)

Seed(w) ==
    \/ SeedStart(w)
    \/ \E v \in DOMAIN SeedRows, i \in Ids : SeedUpdate(w, v, i) \/ SeedCreate(w, v, i)

Next ==
    \/ \E w \in Admins : Request(w) \/ ServeRequest(w)
    \/ \E w \in Seeders : Seed(w)
    \/ \E w \in Workers : Commit(w) \/ DeadlockVictim(w) \/ Crash(w)

Spec == Init /\ [][Next]_vars

\* A worker goes on with what it has begun; who waits for a lock or a key is
\* queued by PostgreSQL and gets it in the end.
GoesOn(w) ==
    \/ w \in Admins /\ ServeRequest(w)
    \/ w \in Seeders /\ Seed(w)
    \/ Commit(w)
    \/ DeadlockVictim(w)

Fairness == \A w \in Workers : SF_vars(GoesOn(w))

FairSpec == Spec /\ Fairness

-----------------------------------------------------------------------------
(* Properties.                                                             *)

\* `own` is valid only for resources declaring ownership: an active policy of
\* scope own never belongs to a resource that has no owner.  Both ends are
\* guarded, the policy by clean() and the resource by update_resource.
OwnPolicyNeedsOwner ==
    \A p \in Rowful(rows) \cap PolicyIds :
        rows[p].is_active /\ rows[p].scope = "own"
            => rows[rows[p].resource].has_owner

\* A COMMIT changes no field that its request did not alter: save() writes
\* every column back, and undoes nothing another administrator committed.
NoLostUpdate ==
    [][\A w \in Workers : Commit(w) =>
         \A i \in Rowful(rows) : \A f \in DOMAIN rows[i] \ asked[w] :
            rows'[i][f] = rows[i][f]]_vars

\* Whatever administrators have renamed, moved, rescoped or deactivated: when
\* the command ends well, the code of each of its resources names an active
\* row with its ownership, and this row has the command's policies.  So the
\* command ends a lock-out, also one that it runs into half way.
SeedRestoresAccess ==
    [][\A w \in Seeders : Commit(w) =>
         \A v \in DOMAIN SeedRows \cap PolicyIds :
            \E x \in ResourceIds, p \in PolicyIds :
                /\ rows'[x] = SeedRows[SeedRows[v].resource]
                /\ rows'[p] = [SeedRows[v] EXCEPT !.resource = x]]_vars

\* Every request and every run of the command ends, the wait for its first row
\* included: no wait for a row, a key or a foreign key lasts for ever, not even
\* when an administrator and the command wait for each other.
\* (A new row needs an id: the run has as many ids as keys.)
WorkersFinish ==
    \A w \in Workers :
        pc[w] \notin {"idle", "done"} ~> pc[w] \in {"idle", "done"}
-----------------------------------------------------------------------------
(* Why: what a transaction has locked, read and written by its stage.      *)

\* Where a row is committed, another version of it differs in these fields only.
Agrees(row, i, fields) == \A f \in DOMAIN rows[i] \ fields : row[f] = rows[i][f]

\* Whoever writes a committed row holds its lock; nobody else writes the id or
\* the key, and a key that a transaction moves a row to was free.
WritesOK(w) ==
    \A i \in Rowful(tx[w]) :
        /\ tx[w][i] \in RowType(i)
        /\ pc[w] \in {"committing", "seeding"}
        /\ rows[i] # NULL => lock[i] = w /\ Agrees(tx[w][i], i, asked[w])
        /\ \A j \in Rowful(rows) \ {i} : ~ SameKey(tx[w][i], rows[j])
        /\ \A j \in Rowful(tx[w]) \ {i} : ~ SameKey(tx[w][i], tx[w][j])
        /\ \A v \in Workers \ {w} :
              /\ tx[v][i] = NULL
              /\ \A j \in Rowful(tx[v]) : ~ SameKey(tx[w][i], tx[v][j])

\* From the lock to the UPDATE the object in memory is the committed row with
\* the fields of the request put into it.
EditOK(w) ==
    /\ pc[w] = "inserting" => draft[w] \in Row
    /\ pc[w] = "waiting" => target[w] \in Ids /\ rows[target[w]] # NULL
    /\ pc[w] \in {"patching", "saving"} =>
          \E i \in Ids :
             /\ target[w] = i /\ rows[i] # NULL /\ lock[i] = w
             /\ draft[w] \in RowType(i)
             /\ Agrees(draft[w], i, asked[w])

\* Row i is what the command of w has made of v: a policy stands on the row
\* that the command itself has written for the resource.
Stands(w, i, v) ==
    IF v \in ResourceIds THEN i \in ResourceIds /\ tx[w][i] = SeedRows[v]
    ELSE /\ i \in PolicyIds
         /\ \E x \in ResourceIds :
               /\ tx[w][x] = SeedRows[SeedRows[v].resource]
               /\ tx[w][i] = [SeedRows[v] EXCEPT !.resource = x]

SeedOK(w) ==
    /\ w \in Seeders => pc[w] \in {"starting", "seeding", "done"}
    /\ pc[w] # "seeding" => todo[w] = {}
    /\ pc[w] = "seeding" =>
          /\ asked[w] = {"has_owner", "is_active", "scope"}
          /\ \A v \in DOMAIN SeedRows \ todo[w] : \E i \in Ids : Stands(w, i, v)
          /\ \A i \in Rowful(tx[w]) :
                \E v \in DOMAIN SeedRows \ todo[w] : Stands(w, i, v)

PolicyInv ==
    /\ TypeOK
    /\ \A w \in Workers : WritesOK(w) /\ EditOK(w) /\ SeedOK(w)
=============================================================================
