------------------------ MODULE AccessPoliciesProofs ------------------------
(***************************************************************************)
(* Proofs about the edits of resources and policies and about the seed     *)
(* command, for any number of administrators, seeders, rows and keys:      *)
(* PolicyInv is an inductive invariant.                                    *)
(***************************************************************************)
EXTENDS AccessPolicies, Sequences, TLAPS

-----------------------------------------------------------------------------
(* Rows and keys.                                                          *)

LEMMA ResourceKey ==
    ASSUME NEW r \in ResourceRow
    PROVE  /\ r \in Row /\ r # NULL /\ r \notin PolicyRow
           /\ DOMAIN r = {"code", "has_owner", "is_active"}
           /\ Key(r) = <<r.code>>
<1>1. DOMAIN r = {"code", "has_owner", "is_active"}
  BY DEF ResourceRow
<1>2. r \notin PolicyRow
  <2>1. \A q \in PolicyRow : "grant" \in DOMAIN q
    BY DEF PolicyRow
  <2> QED
    BY <1>1, <2>1
<1> QED
  BY <1>1, <1>2, NullAssumption DEF Key, Row

LEMMA PolicyKey ==
    ASSUME NEW r \in PolicyRow
    PROVE  /\ r \in Row /\ r # NULL /\ r \notin ResourceRow
           /\ DOMAIN r = {"grant", "resource", "scope", "is_active"}
           /\ Key(r) = <<r.grant, r.resource>>
           /\ r.resource \in ResourceIds
<1>1. DOMAIN r = {"grant", "resource", "scope", "is_active"} /\ r.resource \in ResourceIds
  BY DEF PolicyRow
<1>2. r \notin ResourceRow
  BY <1>1, ResourceKey
<1>3. "code" \notin DOMAIN r
  BY <1>1
<1>4. r \in Row /\ r # NULL
  BY NullAssumption DEF Row
<1> QED
  BY <1>1, <1>2, <1>3, <1>4 DEF Key

\* Rows of one key are of one table.
LEMMA SameKeys ==
    ASSUME NEW r \in Row, NEW s \in Row
    PROVE  SameKey(r, s) <=>
             \/ r \in ResourceRow /\ s \in ResourceRow /\ r.code = s.code
             \/ /\ r \in PolicyRow /\ s \in PolicyRow
                /\ r.grant = s.grant /\ r.resource = s.resource
<1>1. CASE r \in ResourceRow /\ s \in ResourceRow
  BY <1>1, ResourceKey DEF SameKey
<1>2. CASE r \in PolicyRow /\ s \in PolicyRow
  BY <1>2, PolicyKey DEF SameKey
<1>3. ASSUME NEW a \in ResourceRow, NEW b \in PolicyRow
      PROVE  Key(a) # Key(b)
  <2>1. Len(Key(a)) = 1 /\ Len(Key(b)) = 2
    BY ResourceKey, PolicyKey
  <2> QED
    BY <2>1
<1>4. CASE r \in ResourceRow /\ s \in PolicyRow
  BY <1>3, <1>4, ResourceKey, PolicyKey DEF SameKey
<1>5. CASE r \in PolicyRow /\ s \in ResourceRow
  BY <1>3, <1>5, ResourceKey, PolicyKey DEF SameKey
<1> QED
  BY <1>1, <1>2, <1>4, <1>5 DEF Row

LEMMA SameKeyIsSymmetric ==
    ASSUME NEW r, NEW s
    PROVE  SameKey(r, s) <=> SameKey(s, r)
  BY DEF SameKey

LEMMA RowTypes ==
    ASSUME NEW i \in Ids
    PROVE  /\ RowType(i) \subseteq Row /\ NULL \notin Row
           /\ i \in PolicyIds <=> i \notin ResourceIds
           /\ i \in PolicyIds => RowType(i) = PolicyRow
           /\ \A r \in RowType(i) : r # NULL /\ (r \in ResourceRow <=> i \in ResourceIds)
  BY IdsAssumption, NullAssumption, ResourceKey, PolicyKey DEF Ids, RowType, Row

\* Committed and pending rows are of the table of their id.
LEMMA CommittedRow ==
    ASSUME TypeOK, NEW i \in Ids, rows[i] # NULL
    PROVE  /\ rows[i] \in RowType(i) /\ rows[i] \in Row /\ i \in Rowful(rows)
  BY IdsAssumption DEF TypeOK, RowType, Ids, Rowful, Row

\* What the command declares.
LEMMA SeedRowType ==
    ASSUME NEW v \in DOMAIN SeedRows
    PROVE  /\ v \in Ids
           /\ SeedRows[v] \in RowType(v) /\ SeedRows[v] \in Row
           /\ v \notin ResourceIds =>
                /\ SeedRows[v].resource \in DOMAIN SeedRows
                /\ SeedRows[v].resource \in ResourceIds
<1>1. v \in Ids
  BY SeedAssumption
<1>2. CASE v \in ResourceIds
  BY <1>2, SeedAssumption DEF RowType, Row
<1>3. CASE v \in PolicyIds
  <2>1. SeedRows[v] \in PolicyRow /\ SeedRows[v].resource \in DOMAIN SeedRows
    BY <1>3, SeedAssumption
  <2>2. v \notin ResourceIds
    BY <1>3, IdsAssumption
  <2>3. SeedRows[v].resource \in ResourceIds
    BY <2>1, PolicyKey
  <2> QED
    BY <1>1, <2>1, <2>2, <2>3 DEF RowType, Row
<1> QED
  BY <1>1, <1>2, <1>3 DEF Ids

\* A policy put on another resource.
LEMMA MovedPolicy ==
    ASSUME NEW r \in PolicyRow, NEW x \in ResourceIds
    PROVE  /\ [r EXCEPT !.resource = x] \in PolicyRow
           /\ [r EXCEPT !.resource = x].grant = r.grant
           /\ [r EXCEPT !.resource = x].resource = x
  BY DEF PolicyRow

-----------------------------------------------------------------------------
(* WritesOK, row by row.                                                   *)

TxType == [Workers -> [Ids -> Row \cup {NULL}]]

\* Nothing else has the id or the key of a row that w is about to write.
Apart(w, i, row) ==
    /\ \A j \in Ids \ {i} : rows[j] # NULL => ~ SameKey(row, rows[j])
    /\ \A j \in Ids \ {i} : tx[w][j] # NULL => ~ SameKey(row, tx[w][j])
    /\ \A v \in Workers \ {w} :
          /\ tx[v][i] = NULL
          /\ \A j \in Ids : tx[v][j] # NULL => ~ SameKey(row, tx[v][j])

PendingOK(w, i) ==
    tx[w][i] # NULL =>
        /\ tx[w][i] \in RowType(i)
        /\ pc[w] \in {"committing", "seeding"}
        /\ rows[i] # NULL => lock[i] = w /\ Agrees(tx[w][i], i, asked[w])
        /\ Apart(w, i, tx[w][i])

LEMMA WritesByRow ==
    ASSUME DOMAIN rows = Ids, tx \in TxType, NEW w \in Workers
    PROVE  WritesOK(w) <=> \A i \in Ids : PendingOK(w, i)
<1>1. Rowful(rows) = {i \in Ids : rows[i] # NULL}
  BY DEF Rowful
<1>2. \A v \in Workers : Rowful(tx[v]) = {i \in Ids : tx[v][i] # NULL}
  BY DEF Rowful, TxType
<1> QED
  BY <1>1, <1>2 DEF WritesOK, PendingOK, Apart

LEMMA WritesByRowNext ==
    ASSUME DOMAIN rows' = Ids, tx' \in TxType, NEW w \in Workers
    PROVE  WritesOK(w)' <=> \A i \in Ids : PendingOK(w, i)'
<1>1. Rowful(rows)' = {i \in Ids : rows'[i] # NULL}
  BY DEF Rowful
<1>2. \A v \in Workers : Rowful(tx[v])' = {i \in Ids : tx'[v][i] # NULL}
  BY DEF Rowful, TxType
<1> QED
  BY <1>1, <1>2 DEF WritesOK, PendingOK, Apart

LEMMA Pending ==
    ASSUME PolicyInv, NEW w \in Workers, NEW i \in Ids
    PROVE  PendingOK(w, i)
<1>1. DOMAIN rows = Ids /\ tx \in TxType /\ WritesOK(w)
  BY DEF PolicyInv, TypeOK, TxType
<1> QED
  BY <1>1, WritesByRow

\* Who has not written yet has nothing pending.
LEMMA NothingPending ==
    ASSUME PolicyInv, NEW w \in Workers, pc[w] \notin {"committing", "seeding"}
    PROVE  \A i \in Ids : tx[w][i] = NULL
  BY Pending DEF PendingOK

\* A row that is free and committed is in no transaction; nor is a fresh one.
LEMMA FreeRow ==
    ASSUME PolicyInv, NEW i \in Ids, \/ rows[i] # NULL /\ Free(i)
                                     \/ FreshId(i)
    PROVE  \A v \in Workers : tx[v][i] = NULL
<1>1. NULL \notin Workers
  BY NullAssumption
<1> QED
  BY <1>1, Pending DEF PendingOK, Free, FreshId

\* The key of a committed row that nobody has written is pending nowhere.
LEMMA CommittedKeyIsFree ==
    ASSUME PolicyInv, NEW i \in Ids, rows[i] # NULL,
           \A v \in Workers : tx[v][i] = NULL,
           NEW r, SameKey(r, rows[i])
    PROVE  /\ \A j \in Ids \ {i} : rows[j] # NULL => ~ SameKey(r, rows[j])
           /\ \A v \in Workers, j \in Ids : tx[v][j] # NULL => ~ SameKey(r, tx[v][j])
<1>1. \A j \in Ids \ {i} : rows[j] # NULL => ~ SameKey(r, rows[j])
  <2>1. \A j \in Ids \ {i} : rows[j] # NULL => ~ SameKey(rows[i], rows[j])
    BY CommittedRow DEF PolicyInv, TypeOK
  <2> QED
    BY <2>1 DEF SameKey
<1>2. ASSUME NEW v \in Workers, NEW j \in Ids, tx[v][j] # NULL
      PROVE  ~ SameKey(r, tx[v][j])
  <2>1. j # i
    BY <1>2
  <2>2. ~ SameKey(tx[v][j], rows[i])
    BY <1>2, <2>1, Pending DEF PendingOK, Apart
  <2> QED
    BY <2>2 DEF SameKey
<1> QED
  BY <1>1, <1>2

\* What the unique index tells whoever writes row r over row self, or NULL.
LEMMA FreeKey ==
    ASSUME PolicyInv, NEW w \in Workers, NEW r, NEW self, KeyIsFree(w, r, self)
    PROVE  /\ \A j \in Ids \ {self} : rows[j] # NULL => ~ SameKey(r, rows[j])
           /\ \A v \in Workers \ {w}, j \in Ids :
                 tx[v][j] # NULL => ~ SameKey(r, tx[v][j])
<1>1. \A j \in Ids : rows[j] # NULL => j \in Rowful(rows)
  BY CommittedRow DEF PolicyInv
<1>2. \A v \in Workers, j \in Ids : tx[v][j] # NULL => j \in Rowful(tx[v])
  BY DEF PolicyInv, TypeOK, Rowful
<1>3. \A j \in Rowful(rows) \ {self} : ~ SameKey(rows[j], r)
  BY DEF KeyIsFree, Duplicate
<1>4. \A v \in Workers \ {w} : \A j \in Rowful(tx[v]) : ~ SameKey(tx[v][j], r)
  BY DEF KeyIsFree, KeyWriters
<1> QED
  BY <1>1, <1>2, <1>3, <1>4, SameKeyIsSymmetric

-----------------------------------------------------------------------------
(* Steps that leave the other workers alone.                               *)

\* What w does not touch stays as the other worker v relies on it.
LEMMA OthersKeep ==
    ASSUME PolicyInv, NEW v \in Workers,
           pc'[v] = pc[v], target'[v] = target[v], draft'[v] = draft[v],
           asked'[v] = asked[v], todo'[v] = todo[v], tx'[v] = tx[v],
           \A x \in Ids : lock[x] = v => lock'[x] = v,
           \A i \in Ids : rows[i] # NULL /\ lock[i] = v => rows'[i] = rows[i],
           \A i \in Ids : rows[i] # NULL => rows'[i] # NULL
    PROVE  EditOK(v)' /\ SeedOK(v)'
<1>1. EditOK(v) /\ SeedOK(v)
  BY DEF PolicyInv
<1>2. EditOK(v)'
  <2>1. CASE pc[v] \in {"patching", "saving"}
    <3>1. PICK i \in Ids :
             /\ target[v] = i /\ rows[i] # NULL /\ lock[i] = v
             /\ draft[v] \in RowType(i)
             /\ Agrees(draft[v], i, asked[v])
      BY <1>1, <2>1 DEF EditOK
    <3>2. rows'[i] = rows[i] /\ lock'[i] = v
      BY <3>1
    <3>3. Agrees(draft[v], i, asked[v])'
      BY <3>1, <3>2 DEF Agrees
    <3> QED
      BY <2>1, <3>1, <3>2, <3>3 DEF EditOK
  <2>2. CASE pc[v] \notin {"patching", "saving"}
    BY <1>1, <2>2 DEF EditOK
  <2> QED
    BY <2>1, <2>2
<1>3. \A i, u : Stands(v, i, u) <=> Stands(v, i, u)'
  BY DEF Stands
<1>4. Rowful(tx[v])' = Rowful(tx[v])
  BY DEF Rowful
<1>5. SeedOK(v)'
  BY <1>1, <1>3, <1>4 DEF SeedOK
<1> QED
  BY <1>2, <1>5

\* A step that commits and writes nothing.
LEMMA NothingWritten ==
    ASSUME PolicyInv, UNCHANGED <<rows, tx>>,
           \A v \in Workers : (\E i \in Ids : tx[v][i] # NULL)
               => /\ pc'[v] \in {"committing", "seeding"}
                  /\ asked'[v] = asked[v]
                  /\ \A x \in Ids : lock[x] = v => lock'[x] = v
    PROVE  \A v \in Workers : WritesOK(v)'
<1>1. DOMAIN rows' = Ids /\ tx' \in TxType
  BY DEF PolicyInv, TypeOK, TxType
<1>2. ASSUME NEW v \in Workers, NEW i \in Ids, tx[v][i] # NULL
      PROVE  PendingOK(v, i)'
  <2>1. PendingOK(v, i)
    BY Pending
  <2> QED
    BY <1>2, <2>1 DEF PendingOK, Apart, Agrees
<1> QED
  BY <1>1, <1>2, WritesByRowNext DEF PendingOK

\* A step in which w writes one row.
LEMMA RowWritten ==
    ASSUME PolicyInv, NEW w \in Workers, NEW i \in Ids, NEW r \in RowType(i),
           WriteRow(w, i, r), UNCHANGED rows,
           \A v \in Workers : tx[v][i] = NULL,
           Apart(w, i, r),
           rows[i] # NULL => lock'[i] = w /\ Agrees(r, i, asked'[w]),
           pc'[w] \in {"committing", "seeding"},
           pc[w] = "seeding" => asked'[w] = asked[w],
           pc[w] # "committing",
           \A v \in Workers \ {w} : pc'[v] = pc[v] /\ asked'[v] = asked[v],
           \A v \in Workers, x \in Ids : lock[x] = v => lock'[x] = v
    PROVE  /\ tx' \in TxType
           /\ tx'[w][i] = r /\ \A j \in Ids \ {i} : tx'[w][j] = tx[w][j]
           /\ \A v \in Workers \ {w} : tx'[v] = tx[v]
           /\ \A v \in Workers : WritesOK(v)'
<1>1. tx \in TxType /\ DOMAIN rows = Ids
  BY DEF PolicyInv, TypeOK, TxType
<1>2. r \in Row /\ r # NULL
  BY RowTypes
<1>3. /\ tx' \in TxType
      /\ tx'[w][i] = r /\ \A j \in Ids \ {i} : tx'[w][j] = tx[w][j]
      /\ \A v \in Workers \ {w} : tx'[v] = tx[v]
  BY <1>1, <1>2 DEF WriteRow, TxType
<1>4. PendingOK(w, i)'
  BY <1>3 DEF PendingOK, Apart, Agrees
<1>5. ASSUME NEW j \in Ids \ {i}, tx[w][j] # NULL
      PROVE  PendingOK(w, j)'
  <2>1. PendingOK(w, j)
    BY Pending
  <2>2. pc[w] = "seeding" /\ asked'[w] = asked[w]
    BY <1>5, <2>1 DEF PendingOK
  <2>3. ~ SameKey(tx[w][j], r)
    BY <1>5, SameKeyIsSymmetric DEF Apart
  <2>4. Apart(w, j, tx[w][j])'
    BY <1>3, <1>5, <2>1, <2>3 DEF PendingOK, Apart
  <2> QED
    BY <1>3, <1>5, <2>1, <2>2, <2>4 DEF PendingOK, Agrees
<1>6. ASSUME NEW v \in Workers \ {w}, NEW j \in Ids, tx[v][j] # NULL
      PROVE  PendingOK(v, j)'
  <2>1. PendingOK(v, j) /\ j # i
    BY <1>6, Pending
  <2>2. ~ SameKey(tx[v][j], r)
    BY <1>6, SameKeyIsSymmetric DEF Apart
  <2>3. Apart(v, j, tx[v][j])'
    BY <1>3, <1>6, <2>1, <2>2 DEF PendingOK, Apart
  <2> QED
    BY <1>3, <1>6, <2>1, <2>3 DEF PendingOK, Agrees
<1>7. \A v \in Workers, j \in Ids : PendingOK(v, j)'
  BY <1>3, <1>4, <1>5, <1>6 DEF PendingOK
<1>8. \A v \in Workers : WritesOK(v)'
  BY <1>1, <1>3, <1>7, WritesByRowNext
<1> QED
  BY <1>3, <1>8

-----------------------------------------------------------------------------
(* Requests before they write.                                             *)

Columns == {"code", "has_owner", "grant", "resource", "scope", "is_active"}

RowsOK ==
    /\ rows \in [Ids -> Row \cup {NULL}]
    /\ \A i \in Ids : rows[i] # NULL => rows[i] \in RowType(i)
    /\ \A i, j \in Ids : i # j /\ rows[i] # NULL /\ rows[j] # NULL
                            => ~ SameKey(rows[i], rows[j])

WorkersOK ==
    /\ lock \in [Lockable -> Workers \cup {NULL}]
    /\ pc \in [Workers -> Stages]
    /\ target \in [Workers -> Ids \cup {NULL}]
    /\ draft \in [Workers -> Row \cup {NULL}]
    /\ asked \in [Workers -> SUBSET Columns]
    /\ todo \in [Workers -> SUBSET DOMAIN SeedRows]
    /\ tx \in TxType

LEMMA TypeParts == TypeOK <=> RowsOK /\ WorkersOK
<1>1. ASSUME rows \in [Ids -> Row \cup {NULL}]
      PROVE  /\ (\A i \in Rowful(rows) : rows[i] \in ResourceRow <=> i \in ResourceIds)
                   <=> \A i \in Ids : rows[i] # NULL => rows[i] \in RowType(i)
             /\ (\A i, j \in Rowful(rows) : i # j => ~ SameKey(rows[i], rows[j]))
                   <=> \A i, j \in Ids : i # j /\ rows[i] # NULL /\ rows[j] # NULL
                                            => ~ SameKey(rows[i], rows[j])
  <2>1. Rowful(rows) = {i \in Ids : rows[i] # NULL}
    BY <1>1 DEF Rowful
  <2>2. ASSUME NEW i \in Ids, rows[i] # NULL
        PROVE  (rows[i] \in ResourceRow <=> i \in ResourceIds) <=> rows[i] \in RowType(i)
    BY <1>1, <2>2, RowTypes DEF RowType, Row
  <2> QED
    BY <2>1, <2>2
<1> QED
  BY <1>1 DEF TypeOK, RowsOK, WorkersOK, Columns, TxType

LEMMA TypePartsNext == TypeOK' <=> RowsOK' /\ WorkersOK'
<1>1. TypeOK <=> RowsOK /\ WorkersOK
  BY TypeParts
<1> QED
  BY <1>1, PTL

\* A step of w that leaves the tables and the pending rows alone.
LEMMA PrivateStep ==
    ASSUME PolicyInv, NEW w \in Workers,
           UNCHANGED <<rows, tx, todo>>, WorkersOK',
           pc[w] \notin {"committing", "seeding"},
           \A v \in Workers \ {w} :
              /\ pc'[v] = pc[v] /\ target'[v] = target[v]
              /\ draft'[v] = draft[v] /\ asked'[v] = asked[v]
              /\ \A x \in Ids : lock[x] = v => lock'[x] = v,
           EditOK(w)', SeedOK(w)'
    PROVE  PolicyInv'
<1>1. TypeOK'
  <2>1. RowsOK /\ (RowsOK => RowsOK')
    BY TypeParts DEF PolicyInv, RowsOK
  <2> QED
    BY <2>1, TypePartsNext
<1>2. ASSUME NEW v \in Workers \ {w} PROVE EditOK(v)' /\ SeedOK(v)'
  BY <1>2, OthersKeep
<1>3. \A v \in Workers : WritesOK(v)'
  <2>1. ASSUME NEW v \in Workers, NEW i \in Ids, tx[v][i] # NULL
        PROVE  /\ pc'[v] \in {"committing", "seeding"} /\ asked'[v] = asked[v]
               /\ \A x \in Ids : lock[x] = v => lock'[x] = v
    <3>1. v # w
      BY <2>1, NothingPending
    <3>2. pc[v] \in {"committing", "seeding"}
      BY <2>1, NothingPending
    <3> QED
      BY <3>1, <3>2
  <2> QED
    BY <2>1, NothingWritten
<1> QED
  BY <1>1, <1>2, <1>3 DEF PolicyInv

\* A worker of the API is never the seed command.
LEMMA AdminSeedOK ==
    ASSUME PolicyInv, NEW w \in Admins,
           pc[w] # "seeding", pc'[w] # "seeding", todo' = todo
    PROVE  SeedOK(w)'
  BY IdsAssumption DEF SeedOK, PolicyInv, Workers

LEMMA WorkerTypes ==
    ASSUME PolicyInv
    PROVE  /\ TypeOK /\ RowsOK /\ WorkersOK
           /\ NULL \notin Workers /\ Ids \subseteq Lockable
           /\ Admins \subseteq Workers /\ Seeders \subseteq Workers
  BY TypeParts, NullAssumption DEF PolicyInv, Workers, Lockable

LEMMA CreateInv ==
    ASSUME PolicyInv, NEW w \in Admins, NEW row \in Row, Create(w, row)
    PROVE  PolicyInv'
<1>1. WorkersOK /\ w \in Workers
  BY WorkerTypes
<1>2. WorkersOK'
  BY <1>1 DEF Create, WorkersOK, Stages
<1>3. pc'[w] = "inserting" /\ draft'[w] = row
  BY <1>1 DEF Create, WorkersOK
<1>4. /\ UNCHANGED <<rows, tx, todo, lock>> /\ pc[w] = "idle"
      /\ \A v \in Workers \ {w} : /\ pc'[v] = pc[v] /\ target'[v] = target[v]
                                  /\ draft'[v] = draft[v] /\ asked'[v] = asked[v]
  BY <1>1 DEF Create, WorkersOK
<1>5. EditOK(w)' /\ SeedOK(w)'
  BY <1>3, <1>4, AdminSeedOK DEF EditOK
<1> QED
  BY <1>1, <1>2, <1>4, <1>5, PrivateStep

LEMMA BeginEditInv ==
    ASSUME PolicyInv, NEW w \in Admins, NEW i \in Ids, BeginEdit(w, i)
    PROVE  PolicyInv'
<1>1. WorkersOK /\ w \in Workers
  BY WorkerTypes
<1>2. WorkersOK'
  BY <1>1 DEF BeginEdit, WorkersOK, Stages
<1>3. pc'[w] = "waiting" /\ target'[w] = i /\ rows[i] # NULL
  BY <1>1 DEF BeginEdit, WorkersOK
<1>4. /\ UNCHANGED <<rows, tx, todo, lock>> /\ pc[w] = "idle"
      /\ \A v \in Workers \ {w} : /\ pc'[v] = pc[v] /\ target'[v] = target[v]
                                  /\ draft'[v] = draft[v] /\ asked'[v] = asked[v]
  BY <1>1 DEF BeginEdit, WorkersOK
<1>5. EditOK(w)' /\ SeedOK(w)'
  BY <1>3, <1>4, AdminSeedOK DEF EditOK
<1> QED
  BY <1>1, <1>2, <1>4, <1>5, PrivateStep

\* Getting a row takes its lock and no other.
LEMMA LockRowEffect ==
    ASSUME PolicyInv, NEW w \in Admins, NEW i \in Ids, NEW fields,
           NEW stage \in Stages, LockRow(w, i, stage, fields)
    PROVE  /\ pc[w] = "waiting" /\ rows[i] # NULL /\ Free(i)
           /\ lock' \in [Lockable -> Workers \cup {NULL}]
           /\ pc' \in [Workers -> Stages]
           /\ target' \in [Workers -> Ids \cup {NULL}]
           /\ asked' = [asked EXCEPT ![w] = fields]
           /\ lock'[i] = w /\ pc'[w] = stage /\ target'[w] = i /\ asked'[w] = fields
           /\ \A v \in Workers \ {w} : /\ pc'[v] = pc[v] /\ target'[v] = target[v]
                                       /\ asked'[v] = asked[v]
           /\ \A v \in Workers, x \in Ids : lock[x] = v => lock'[x] = v
<1>1. WorkersOK /\ w \in Workers /\ NULL \notin Workers /\ i \in Lockable /\ Ids \subseteq Lockable
  BY WorkerTypes
<1>2. rows[i] # NULL
  BY <1>1 DEF LockRow, PolicyInv, EditOK
<1> QED
  BY <1>1, <1>2 DEF LockRow, Free, WorkersOK

LEMMA UpdateInv ==
    ASSUME PolicyInv, NEW w \in Admins, NEW i \in Ids, NEW row \in RowType(i),
           Update(w, i, row)
    PROVE  PolicyInv'
<1>1. w \in Workers /\ WorkersOK
  BY WorkerTypes
<1>2. DOMAIN row \subseteq Columns /\ row \in Row
  <2>1. row \in Row
    BY RowTypes
  <2> QED
    BY <2>1, ResourceKey, PolicyKey DEF Row, Columns
<1>3. PICK F \in SUBSET Columns : F = Altered(i, row)
  BY <1>2 DEF Altered
<1>4. LockRow(w, i, "patching", F) /\ "patching" \in Stages
  BY <1>3 DEF Update, Stages
<1>5. /\ pc[w] = "waiting" /\ rows[i] # NULL
      /\ lock' \in [Lockable -> Workers \cup {NULL}]
      /\ pc' \in [Workers -> Stages]
      /\ target' \in [Workers -> Ids \cup {NULL}]
      /\ asked' = [asked EXCEPT ![w] = F]
      /\ lock'[i] = w /\ pc'[w] = "patching" /\ target'[w] = i
      /\ asked'[w] = F
      /\ \A v \in Workers \ {w} : /\ pc'[v] = pc[v] /\ target'[v] = target[v]
                                  /\ asked'[v] = asked[v]
      /\ \A v \in Workers, x \in Ids : lock[x] = v => lock'[x] = v
  BY <1>3, <1>4, LockRowEffect
<1>6. UNCHANGED <<rows, todo, tx>> /\ draft' = [draft EXCEPT ![w] = row]
  BY DEF Update
<1>7. WorkersOK'
  BY <1>1, <1>3, <1>2, <1>5, <1>6 DEF WorkersOK
<1>8. draft'[w] = row /\ \A v \in Workers \ {w} : draft'[v] = draft[v]
  BY <1>1, <1>6 DEF WorkersOK
<1>9. Agrees(row, i, F)
  <2>1. DOMAIN rows[i] = DOMAIN row
    <3>1. rows[i] \in RowType(i)
      BY <1>5, CommittedRow DEF PolicyInv
    <3> QED
      BY <3>1, ResourceKey, PolicyKey DEF RowType
  <2> QED
    BY <1>3, <2>1 DEF Agrees, Altered
<1>10. Agrees(draft[w], i, asked[w])'
  BY <1>5, <1>6, <1>8, <1>9 DEF Agrees
<1>11. EditOK(w)' /\ SeedOK(w)'
  <2>1. EditOK(w)'
    BY <1>5, <1>6, <1>8, <1>10 DEF EditOK
  <2> QED
    BY <1>5, <1>6, <2>1, AdminSeedOK
<1> QED
  BY <1>1, <1>5, <1>6, <1>7, <1>8, <1>11, PrivateStep

LEMMA UpdateCleanInv ==
    ASSUME PolicyInv, NEW w \in Admins, UpdateClean(w)
    PROVE  PolicyInv'
<1>1. WorkersOK /\ w \in Workers
  BY WorkerTypes
<1>2. /\ UNCHANGED <<rows, lock, target, draft, asked, todo, tx>>
      /\ pc[w] = "patching" /\ pc'[w] = "saving"
      /\ \A v \in Workers \ {w} : pc'[v] = pc[v]
  BY <1>1 DEF UpdateClean, WorkersOK
<1>3. WorkersOK'
  BY <1>1 DEF UpdateClean, WorkersOK, Stages
<1>4. EditOK(w)'
  <2>1. EditOK(w)
    BY <1>1 DEF PolicyInv
  <2> QED
    BY <1>2, <2>1 DEF EditOK, Agrees
<1>5. SeedOK(w)'
  BY <1>2, AdminSeedOK
<1> QED
  BY <1>1, <1>2, <1>3, <1>4, <1>5, PrivateStep

-----------------------------------------------------------------------------
(* The end of a transaction.                                               *)

LEMMA FinishEffect ==
    ASSUME PolicyInv, NEW w \in Workers, Finish(w)
    PROVE  /\ WorkersOK'
           /\ pc'[w] = (IF w \in Seeders THEN "done" ELSE "idle") /\ todo'[w] = {}
           /\ \A i \in Ids : tx'[w][i] = NULL
           /\ \A v \in Workers \ {w} :
                 /\ pc'[v] = pc[v] /\ target'[v] = target[v]
                 /\ draft'[v] = draft[v] /\ asked'[v] = asked[v]
                 /\ todo'[v] = todo[v] /\ tx'[v] = tx[v]
                 /\ \A x \in Ids : lock[x] = v => lock'[x] = v
<1>1. WorkersOK /\ NULL \notin Workers /\ Ids \subseteq Lockable
  BY WorkerTypes
<1>2. NoRows \in [Ids -> Row \cup {NULL}] /\ \A i \in Ids : NoRows[i] = NULL
  BY DEF NoRows
<1>3. /\ lock' \in [Lockable -> Workers \cup {NULL}]
      /\ pc' \in [Workers -> Stages]
      /\ target' \in [Workers -> Ids \cup {NULL}]
      /\ draft' \in [Workers -> Row \cup {NULL}]
      /\ asked' \in [Workers -> SUBSET Columns]
      /\ todo' \in [Workers -> SUBSET DOMAIN SeedRows]
  BY <1>1 DEF Finish, WorkersOK, Stages
<1>4. tx' \in TxType
  BY <1>1, <1>2 DEF Finish, WorkersOK, TxType
<1>5. /\ pc'[w] = (IF w \in Seeders THEN "done" ELSE "idle") /\ todo'[w] = {}
      /\ \A i \in Ids : tx'[w][i] = NULL
  BY <1>1, <1>2 DEF Finish, WorkersOK, TxType
<1>6. ASSUME NEW v \in Workers \ {w}
      PROVE  /\ pc'[v] = pc[v] /\ target'[v] = target[v]
             /\ draft'[v] = draft[v] /\ asked'[v] = asked[v]
             /\ todo'[v] = todo[v] /\ tx'[v] = tx[v]
             /\ \A x \in Ids : lock[x] = v => lock'[x] = v
  BY <1>1, <1>6 DEF Finish, WorkersOK, TxType
<1> QED
  BY <1>3, <1>4, <1>5, <1>6 DEF WorkersOK

\* The worker that has ended relies on nothing any more.
LEMMA EndedOK ==
    ASSUME NEW w \in Workers, todo'[w] = {},
           pc'[w] = IF w \in Seeders THEN "done" ELSE "idle"
    PROVE  EditOK(w)' /\ SeedOK(w)'
  BY DEF EditOK, SeedOK

LEMMA RollbackInv ==
    ASSUME PolicyInv, NEW w \in Workers, Rollback(w)
    PROVE  PolicyInv'
<1>1. /\ WorkersOK'
      /\ pc'[w] = (IF w \in Seeders THEN "done" ELSE "idle") /\ todo'[w] = {}
      /\ \A i \in Ids : tx'[w][i] = NULL
      /\ \A v \in Workers \ {w} :
            /\ pc'[v] = pc[v] /\ target'[v] = target[v]
            /\ draft'[v] = draft[v] /\ asked'[v] = asked[v]
            /\ todo'[v] = todo[v] /\ tx'[v] = tx[v]
            /\ \A x \in Ids : lock[x] = v => lock'[x] = v
  BY FinishEffect DEF Rollback
<1>2. UNCHANGED rows
  BY DEF Rollback
<1>3. TypeOK'
  <2>1. RowsOK /\ (RowsOK => RowsOK')
    BY <1>2, WorkerTypes DEF RowsOK
  <2> QED
    BY <1>1, <2>1, TypePartsNext
<1>4. ASSUME NEW v \in Workers PROVE EditOK(v)' /\ SeedOK(v)'
  <2>1. CASE v = w
    BY <1>1, <2>1, EndedOK
  <2>2. CASE v # w
    BY <1>1, <1>2, <2>2, OthersKeep
  <2> QED
    BY <2>1, <2>2
<1>5. ASSUME NEW v \in Workers, NEW i \in Ids, tx'[v][i] # NULL
      PROVE  PendingOK(v, i)'
  <2>1. v # w /\ tx'[v] = tx[v]
    BY <1>1, <1>5
  <2>2. PendingOK(v, i)
    BY Pending
  <2>3. Apart(v, i, tx[v][i])'
    BY <1>1, <1>2, <1>5, <2>1, <2>2 DEF PendingOK, Apart
  <2> QED
    BY <1>1, <1>2, <1>5, <2>1, <2>2, <2>3 DEF PendingOK, Agrees
<1>6. \A v \in Workers : WritesOK(v)'
  <2>1. DOMAIN rows' = Ids /\ tx' \in TxType
    BY <1>1, <1>2, WorkerTypes DEF RowsOK, WorkersOK
  <2> QED
    BY <1>5, <2>1, WritesByRowNext DEF PendingOK
<1> QED
  BY <1>3, <1>4, <1>6 DEF PolicyInv

-----------------------------------------------------------------------------
(* Requests that write.                                                    *)

\* What a write of w has to establish besides WritesOK.
LEMMA WriteStep ==
    ASSUME PolicyInv, NEW w \in Workers, UNCHANGED rows, WorkersOK',
           \A v \in Workers : WritesOK(v)',
           EditOK(w)', SeedOK(w)',
           \A v \in Workers \ {w} :
              /\ pc'[v] = pc[v] /\ target'[v] = target[v]
              /\ draft'[v] = draft[v] /\ asked'[v] = asked[v]
              /\ todo'[v] = todo[v] /\ tx'[v] = tx[v]
              /\ \A x \in Ids : lock[x] = v => lock'[x] = v
    PROVE  PolicyInv'
<1>1. TypeOK'
  <2>1. RowsOK /\ (RowsOK => RowsOK')
    BY WorkerTypes DEF RowsOK
  <2> QED
    BY <2>1, TypePartsNext
<1>2. ASSUME NEW v \in Workers \ {w} PROVE EditOK(v)' /\ SeedOK(v)'
  BY <1>2, OthersKeep
<1> QED
  BY <1>1, <1>2 DEF PolicyInv

LEMMA InsertInv ==
    ASSUME PolicyInv, NEW w \in Admins, NEW i \in Ids, Insert(w, i)
    PROVE  PolicyInv'
<1>1. w \in Workers /\ WorkersOK /\ NULL \notin Ids
  BY WorkerTypes, NullAssumption DEF Lockable
<1>2. PICK r \in RowType(i) : r = draft[w]
  BY DEF Insert
<1>3. /\ pc[w] = "inserting" /\ pc'[w] = "committing"
      /\ FreshId(i) /\ KeyIsFree(w, r, NULL) /\ WriteRow(w, i, r)
      /\ UNCHANGED <<rows, lock, target, draft, asked, todo>>
      /\ \A v \in Workers \ {w} : pc'[v] = pc[v]
      /\ pc' \in [Workers -> Stages]
  BY <1>1, <1>2 DEF Insert, WorkersOK, Stages
<1>4. /\ \A v \in Workers : tx[v][i] = NULL
      /\ \A j \in Ids : tx[w][j] = NULL
      /\ rows[i] = NULL
  BY <1>1, <1>3, FreeRow, NothingPending DEF FreshId
<1>5. Apart(w, i, r)
  <2>1. /\ \A j \in Ids \ {NULL} : rows[j] # NULL => ~ SameKey(r, rows[j])
        /\ \A v \in Workers \ {w}, j \in Ids : tx[v][j] # NULL => ~ SameKey(r, tx[v][j])
    BY <1>1, <1>3, FreeKey
  <2> QED
    BY <1>1, <1>4, <2>1 DEF Apart
<1>6. /\ tx' \in TxType
      /\ \A v \in Workers \ {w} : tx'[v] = tx[v]
      /\ \A v \in Workers : WritesOK(v)'
  BY <1>1, <1>3, <1>4, <1>5, RowWritten
<1>7. WorkersOK'
  BY <1>1, <1>3, <1>6 DEF WorkersOK
<1>8. EditOK(w)' /\ SeedOK(w)'
  <2>1. EditOK(w)'
    BY <1>3 DEF EditOK
  <2> QED
    BY <1>3, <2>1, AdminSeedOK
<1> QED
  BY <1>1, <1>3, <1>6, <1>7, <1>8, WriteStep

LEMMA UpdateSaveInv ==
    ASSUME PolicyInv, NEW w \in Admins, UpdateSave(w)
    PROVE  PolicyInv'
<1>1. w \in Workers /\ WorkersOK /\ NULL \notin Workers
  BY WorkerTypes
<1>2. PICK i \in Ids : /\ target[w] = i /\ rows[i] # NULL /\ lock[i] = w
                       /\ draft[w] \in RowType(i)
                       /\ Agrees(draft[w], i, asked[w])
  BY <1>1 DEF UpdateSave, PolicyInv, EditOK
<1>3. PICK r \in RowType(i) : r = draft[w]
  BY <1>2
<1>4. /\ pc[w] = "saving" /\ pc'[w] = "committing"
      /\ KeyIsFree(w, r, i) /\ WriteRow(w, i, r)
      /\ UNCHANGED <<rows, lock, target, draft, asked, todo>>
      /\ \A v \in Workers \ {w} : pc'[v] = pc[v]
      /\ pc' \in [Workers -> Stages]
  BY <1>1, <1>2, <1>3 DEF UpdateSave, WorkersOK, Stages
<1>5. /\ \A j \in Ids : tx[w][j] = NULL
      /\ \A v \in Workers : tx[v][i] = NULL
  <2>1. \A j \in Ids : tx[w][j] = NULL
    BY <1>1, <1>4, NothingPending
  <2>2. ASSUME NEW v \in Workers \ {w} PROVE tx[v][i] = NULL
    BY <1>2, <2>2, Pending DEF PendingOK
  <2> QED
    BY <2>1, <2>2
<1>6. Apart(w, i, r)
  <2>1. /\ \A j \in Ids \ {i} : rows[j] # NULL => ~ SameKey(r, rows[j])
        /\ \A v \in Workers \ {w}, j \in Ids : tx[v][j] # NULL => ~ SameKey(r, tx[v][j])
    BY <1>1, <1>4, FreeKey
  <2> QED
    BY <1>5, <2>1 DEF Apart
<1>7. Agrees(r, i, asked'[w]) /\ lock'[i] = w
  BY <1>2, <1>3, <1>4 DEF Agrees
<1>8. /\ tx' \in TxType
      /\ \A v \in Workers \ {w} : tx'[v] = tx[v]
      /\ \A v \in Workers : WritesOK(v)'
  BY <1>1, <1>4, <1>5, <1>6, <1>7, RowWritten
<1>9. WorkersOK'
  BY <1>1, <1>4, <1>8 DEF WorkersOK
<1>10. EditOK(w)' /\ SeedOK(w)'
  <2>1. EditOK(w)'
    BY <1>4 DEF EditOK
  <2> QED
    BY <1>4, <2>1, AdminSeedOK
<1> QED
  BY <1>1, <1>4, <1>8, <1>9, <1>10, WriteStep

LEMMA SwitchedRow ==
    ASSUME NEW i \in Ids, NEW r \in RowType(i), NEW b \in BOOLEAN
    PROVE  /\ [r EXCEPT !.is_active = b] \in RowType(i)
           /\ SameKey([r EXCEPT !.is_active = b], r)
           /\ \A f \in DOMAIN r \ {"is_active"} : [r EXCEPT !.is_active = b][f] = r[f]
<1>1. CASE r \in ResourceRow
  <2>1. [r EXCEPT !.is_active = b] \in ResourceRow /\ [r EXCEPT !.is_active = b].code = r.code
    BY <1>1 DEF ResourceRow
  <2>2. SameKey([r EXCEPT !.is_active = b], r)
    BY <1>1, <2>1, ResourceKey DEF SameKey
  <2> QED
    BY <1>1, <2>1, <2>2, RowTypes DEF RowType
<1>2. CASE r \in PolicyRow
  <2>1. /\ [r EXCEPT !.is_active = b] \in PolicyRow
        /\ [r EXCEPT !.is_active = b].grant = r.grant
        /\ [r EXCEPT !.is_active = b].resource = r.resource
    BY <1>2 DEF PolicyRow
  <2>2. SameKey([r EXCEPT !.is_active = b], r)
    BY <1>2, <2>1, PolicyKey DEF SameKey
  <2> QED
    BY <1>2, <2>1, <2>2, PolicyKey DEF RowType
<1> QED
  BY <1>1, <1>2 DEF RowType

LEMMA SetActiveInv ==
    ASSUME PolicyInv, NEW w \in Admins, NEW i \in Ids, NEW b \in BOOLEAN,
           SetActive(w, i, b)
    PROVE  PolicyInv'
<1>1. w \in Workers /\ WorkersOK
  BY WorkerTypes
<1>2. LockRow(w, i, "committing", {"is_active"}) /\ "committing" \in Stages
  BY DEF SetActive, Stages
<1>3. /\ pc[w] = "waiting" /\ rows[i] # NULL /\ Free(i)
      /\ lock' \in [Lockable -> Workers \cup {NULL}]
      /\ pc' \in [Workers -> Stages]
      /\ target' \in [Workers -> Ids \cup {NULL}]
      /\ asked' = [asked EXCEPT ![w] = {"is_active"}]
      /\ lock'[i] = w /\ pc'[w] = "committing" /\ target'[w] = i
      /\ asked'[w] = {"is_active"}
      /\ \A v \in Workers \ {w} : /\ pc'[v] = pc[v] /\ target'[v] = target[v]
                                  /\ asked'[v] = asked[v]
      /\ \A v \in Workers, x \in Ids : lock[x] = v => lock'[x] = v
  BY <1>2, LockRowEffect
<1>4. PICK old \in RowType(i) : old = rows[i]
  BY <1>3, CommittedRow DEF PolicyInv
<1>5. PICK r \in RowType(i) : r = [old EXCEPT !.is_active = b]
  BY SwitchedRow
<1>6. /\ SameKey(r, rows[i])
      /\ \A f \in DOMAIN rows[i] \ {"is_active"} : r[f] = rows[i][f]
  BY <1>4, <1>5, SwitchedRow
<1>7. WriteRow(w, i, r) /\ UNCHANGED <<rows, draft, todo>>
  BY <1>4, <1>5 DEF SetActive
<1>8. \A v \in Workers : tx[v][i] = NULL
  BY <1>3, FreeRow
<1>9. /\ \A j \in Ids \ {i} : rows[j] # NULL => ~ SameKey(r, rows[j])
      /\ \A v \in Workers, j \in Ids : tx[v][j] # NULL => ~ SameKey(r, tx[v][j])
  BY <1>3, <1>6, <1>8, CommittedKeyIsFree
<1>10. Apart(w, i, r)
  BY <1>1, <1>8, <1>9 DEF Apart
<1>11. Agrees(r, i, asked'[w])
  BY <1>3, <1>6 DEF Agrees
<1>12. /\ tx' \in TxType
       /\ \A v \in Workers \ {w} : tx'[v] = tx[v]
       /\ \A v \in Workers : WritesOK(v)'
  BY <1>1, <1>3, <1>7, <1>8, <1>10, <1>11, RowWritten
<1>13. WorkersOK'
  BY <1>1, <1>3, <1>7, <1>12 DEF WorkersOK, Columns
<1>14. EditOK(w)' /\ SeedOK(w)'
  <2>1. EditOK(w)'
    BY <1>3 DEF EditOK
  <2> QED
    BY <1>3, <1>7, <2>1, AdminSeedOK
<1> QED
  BY <1>1, <1>3, <1>7, <1>12, <1>13, <1>14, WriteStep

-----------------------------------------------------------------------------
(* The seed command.                                                       *)

LEMMA SeedStartInv ==
    ASSUME PolicyInv, NEW w \in Seeders, SeedStart(w)
    PROVE  PolicyInv'
<1>1. w \in Workers /\ RowsOK /\ WorkersOK /\ NULL \notin Workers /\ Ids \subseteq Lockable
  BY WorkerTypes
<1>2. /\ pc[w] = "starting" /\ pc'[w] = "seeding" /\ todo'[w] = DOMAIN SeedRows
      /\ asked'[w] = {"has_owner", "is_active", "scope"}
      /\ UNCHANGED <<rows, target, draft, tx>>
      /\ \A v \in Workers \ {w} :
            pc'[v] = pc[v] /\ asked'[v] = asked[v] /\ todo'[v] = todo[v]
  BY <1>1 DEF SeedStart, WorkersOK
<1>3. \A v \in Workers, x \in Ids : lock[x] = v => lock'[x] = v
  BY <1>1 DEF SeedStart, Free
<1>4. \A i \in Ids : tx[w][i] = NULL
  BY <1>1, <1>2, NothingPending
<1>5. TypeOK'
  <2>1. WorkersOK'
    BY <1>1 DEF SeedStart, WorkersOK, Stages, Columns
  <2>2. RowsOK'
    BY <1>1, <1>2 DEF RowsOK
  <2> QED
    BY <2>1, <2>2, TypePartsNext
<1>6. EditOK(w)' /\ SeedOK(w)'
  <2>1. Rowful(tx[w])' = {}
    BY <1>1, <1>2, <1>4 DEF WorkersOK, TxType, Rowful
  <2> QED
    BY <1>2, <2>1 DEF EditOK, SeedOK
<1>7. ASSUME NEW v \in Workers \ {w} PROVE EditOK(v)' /\ SeedOK(v)'
  BY <1>2, <1>3, <1>7, OthersKeep
<1>8. \A v \in Workers : WritesOK(v)'
  <2>1. ASSUME NEW v \in Workers, NEW i \in Ids, tx[v][i] # NULL
        PROVE  /\ pc'[v] \in {"committing", "seeding"} /\ asked'[v] = asked[v]
               /\ \A x \in Ids : lock[x] = v => lock'[x] = v
    <3>1. v # w
      BY <1>4, <2>1
    <3>2. pc[v] \in {"committing", "seeding"}
      BY <2>1, NothingPending
    <3> QED
      BY <1>2, <1>3, <3>1, <3>2
  <2> QED
    BY <1>2, <2>1, NothingWritten
<1> QED
  BY <1>5, <1>6, <1>7, <1>8 DEF PolicyInv

\* The resource a policy needs was written before: it is the one with the code.
LEMMA FoundRow ==
    ASSUME PolicyInv, NEW w \in Workers, NEW x \in DOMAIN SeedRows,
           x \in ResourceIds, pc[w] = "seeding", x \notin todo[w]
    PROVE  \E y \in ResourceIds : Found(w, x) = y /\ tx[w][y] = SeedRows[x]
<1>1. PICK i \in Ids : Stands(w, i, x)
  BY DEF PolicyInv, SeedOK
<1>2. i \in ResourceIds /\ tx[w][i] = SeedRows[x] /\ tx[w][i] # NULL
  BY <1>1, SeedRowType, RowTypes DEF Stands
<1>3. Rowful(tx[w]) = {j \in Ids : tx[w][j] # NULL}
  BY WorkerTypes DEF WorkersOK, TxType, Rowful
<1>4. ASSUME NEW y \in Rowful(tx[w]), SameKey(tx[w][y], SeedRows[x]) PROVE y = i
  <2>1. y \in Ids /\ Apart(w, i, tx[w][i])
    BY <1>2, <1>3, <1>4, Pending DEF PendingOK
  <2>2. SameKey(tx[w][i], tx[w][y])
    BY <1>2, <1>4 DEF SameKey
  <2> QED
    BY <1>3, <2>1, <2>2 DEF Apart
<1>5. i \in Rowful(tx[w]) /\ SameKey(tx[w][i], SeedRows[x])
  BY <1>2, <1>3 DEF SameKey
<1>6. Found(w, x) = i
  BY <1>4, <1>5 DEF Found
<1> QED
  BY <1>2, <1>6

\* What the command writes next.
LEMMA SeedRowNext ==
    ASSUME PolicyInv, NEW w \in Workers, NEW v \in DOMAIN SeedRows,
           pc[w] = "seeding", SeedTurn(w, v)
    PROVE  /\ SeedRow(w, v) \in RowType(v)
           /\ v \in ResourceIds => SeedRow(w, v) = SeedRows[v]
           /\ v \notin ResourceIds =>
                \E x \in ResourceIds :
                   /\ tx[w][x] = SeedRows[SeedRows[v].resource]
                   /\ SeedRow(w, v) = [SeedRows[v] EXCEPT !.resource = x]
<1>1. CASE v \in ResourceIds
  BY <1>1, SeedRowType DEF SeedRow
<1>2. CASE v \notin ResourceIds
  <2>1. /\ v \in Ids /\ v \in PolicyIds /\ SeedRows[v] \in PolicyRow
        /\ SeedRows[v].resource \in DOMAIN SeedRows
        /\ SeedRows[v].resource \in ResourceIds
    BY <1>2, SeedRowType DEF RowType, Ids
  <2>2. SeedRows[v].resource \notin todo[w]
    BY <2>1 DEF SeedTurn
  <2>3. PICK x \in ResourceIds : /\ Found(w, SeedRows[v].resource) = x
                                 /\ tx[w][x] = SeedRows[SeedRows[v].resource]
    BY <2>1, <2>2, FoundRow
  <2>4. SeedRow(w, v) = [SeedRows[v] EXCEPT !.resource = x]
    BY <1>2, <2>1, <2>3 DEF SeedRow, PolicyRow
  <2>5. SeedRow(w, v) \in RowType(v)
    BY <1>2, <2>1, <2>4, MovedPolicy DEF RowType
  <2> QED
    BY <1>2, <2>3, <2>4, <2>5
<1> QED
  BY <1>1, <1>2

\* Two rows of the declaration never get one key, wherever they are put.
LEMMA SeedKeyIsNew ==
    ASSUME PolicyInv, NEW w \in Workers, NEW v \in DOMAIN SeedRows,
           pc[w] = "seeding", SeedTurn(w, v),
           NEW r, r = SeedRow(w, v), NEW j \in Ids, tx[w][j] # NULL
    PROVE  ~ SameKey(r, tx[w][j])
<1>1. PICK u \in DOMAIN SeedRows \ todo[w] : Stands(w, j, u)
  <2>1. j \in Rowful(tx[w])
    BY WorkerTypes DEF WorkersOK, TxType, Rowful
  <2> QED
    BY <2>1 DEF PolicyInv, SeedOK
<1>2. u # v /\ ~ SameKey(SeedRows[u], SeedRows[v])
  BY SeedAssumption DEF SeedTurn
<1>3. /\ r \in RowType(v) /\ r \in Row /\ v \in Ids
      /\ tx[w][j] \in RowType(j) /\ tx[w][j] \in Row
      /\ SeedRows[u] \in RowType(u) /\ SeedRows[v] \in RowType(v)
  BY SeedRowNext, SeedRowType, RowTypes, Pending DEF PendingOK
<1>4. CASE v \in ResourceIds /\ u \in ResourceIds
  <2>1. r = SeedRows[v] /\ tx[w][j] = SeedRows[u]
    BY <1>1, <1>4, SeedRowNext DEF Stands
  <2> QED
    BY <1>2, <2>1 DEF SameKey
<1>5. CASE v \in ResourceIds /\ u \notin ResourceIds
  <2>1. j \in PolicyIds /\ r \in ResourceRow
    BY <1>1, <1>3, <1>5 DEF Stands, RowType
  <2> QED
    BY <1>3, <2>1, SameKeys, RowTypes, ResourceKey
<1>6. CASE v \notin ResourceIds /\ u \in ResourceIds
  <2>1. j \in ResourceIds /\ r \in PolicyRow
    BY <1>1, <1>3, <1>6 DEF Stands, RowType
  <2> QED
    BY <1>3, <2>1, SameKeys, RowTypes, PolicyKey
<1>7. CASE v \notin ResourceIds /\ u \notin ResourceIds
  <2>1. /\ SeedRows[v] \in PolicyRow /\ SeedRows[u] \in PolicyRow
        /\ SeedRows[v].resource \in DOMAIN SeedRows
        /\ SeedRows[u].resource \in DOMAIN SeedRows
    BY <1>7, SeedRowType DEF RowType
  <2>2. PICK x \in ResourceIds : /\ tx[w][x] = SeedRows[SeedRows[v].resource]
                                 /\ r = [SeedRows[v] EXCEPT !.resource = x]
    BY <1>7, SeedRowNext
  <2>3. PICK y \in ResourceIds : /\ tx[w][y] = SeedRows[SeedRows[u].resource]
                                 /\ tx[w][j] = [SeedRows[u] EXCEPT !.resource = y]
    BY <1>1, <1>7 DEF Stands
  <2>4. /\ r \in PolicyRow /\ r.grant = SeedRows[v].grant /\ r.resource = x
        /\ tx[w][j] \in PolicyRow
        /\ tx[w][j].grant = SeedRows[u].grant /\ tx[w][j].resource = y
    BY <2>1, <2>2, <2>3, MovedPolicy
  <2>5. SUFFICES ASSUME SameKey(r, tx[w][j]) PROVE FALSE
    OBVIOUS
  <2>6. SeedRows[u].grant = SeedRows[v].grant /\ x = y
    BY <1>3, <2>4, <2>5, SameKeys, PolicyKey
  <2>7. SeedRows[u].resource = SeedRows[v].resource
    <3>1. SameKey(SeedRows[SeedRows[u].resource], SeedRows[SeedRows[v].resource])
      BY <2>2, <2>3, <2>6 DEF SameKey
    <3> QED
      BY <2>1, <3>1, SeedAssumption
  <2>8. SameKey(SeedRows[u], SeedRows[v])
    BY <2>1, <2>6, <2>7, PolicyKey DEF SameKey
  <2> QED
    BY <1>2, <2>8
<1> QED
  BY <1>4, <1>5, <1>6, <1>7

\* One row of the declaration is written.
LEMMA SeedWriteInv ==
    ASSUME PolicyInv, NEW w \in Seeders, NEW v \in DOMAIN SeedRows, NEW i \in Ids,
           SeedTurn(w, v), NEW r, r = SeedRow(w, v), SeedWrite(w, v, i, r),
           i \in ResourceIds <=> v \in ResourceIds,
           \A u \in Workers : tx[u][i] = NULL,
           \A j \in Ids \ {i} : rows[j] # NULL => ~ SameKey(r, rows[j]),
           \A u \in Workers \ {w}, j \in Ids : tx[u][j] # NULL => ~ SameKey(r, tx[u][j]),
           rows[i] # NULL => SameKey(rows[i], r)
    PROVE  PolicyInv'
<1>1. w \in Workers /\ WorkersOK /\ NULL \notin Workers /\ Ids \subseteq Lockable
  BY WorkerTypes
<1>2. /\ pc[w] = "seeding"
      /\ asked[w] = {"has_owner", "is_active", "scope"}
  BY <1>1 DEF SeedTurn, PolicyInv, SeedOK
<1>3. /\ Free(i) /\ lock' = [lock EXCEPT ![i] = w]
      /\ todo' = [todo EXCEPT ![w] = @ \ {v}]
      /\ WriteRow(w, i, r)
      /\ UNCHANGED <<rows, pc, target, draft, asked>>
  BY DEF SeedWrite
<1>4. /\ lock' \in [Lockable -> Workers \cup {NULL}]
      /\ lock'[i] = w
      /\ \A u \in Workers, x \in Ids : lock[x] = u => lock'[x] = u
  BY <1>1, <1>3 DEF WorkersOK, Free
<1>5. /\ todo' \in [Workers -> SUBSET DOMAIN SeedRows]
      /\ todo'[w] = todo[w] \ {v}
      /\ \A u \in Workers \ {w} : todo'[u] = todo[u]
  BY <1>1, <1>3 DEF WorkersOK
<1>6. /\ r \in RowType(v)
      /\ v \in ResourceIds => r = SeedRows[v]
      /\ v \notin ResourceIds =>
           \E x \in ResourceIds :
              /\ tx[w][x] = SeedRows[SeedRows[v].resource]
              /\ r = [SeedRows[v] EXCEPT !.resource = x]
  BY <1>1, <1>2, SeedRowNext
<1>7. r \in RowType(i) /\ r # NULL
  BY <1>6, RowTypes DEF RowType
<1>8. Apart(w, i, r)
  <2>1. \A j \in Ids : tx[w][j] # NULL => ~ SameKey(r, tx[w][j])
    BY <1>1, <1>2, SeedKeyIsNew
  <2> QED
    BY <2>1 DEF Apart
<1>9. rows[i] # NULL => Agrees(r, i, asked'[w])
  <2>1. SUFFICES ASSUME rows[i] # NULL
                 PROVE  \A f \in DOMAIN rows[i] \ {"has_owner", "is_active", "scope"} :
                           r[f] = rows[i][f]
    BY <1>2, <1>3 DEF Agrees
  <2>2. /\ rows[i] \in RowType(i) /\ rows[i] \in Row /\ r \in Row /\ SameKey(rows[i], r)
    BY <1>7, <2>1, CommittedRow, RowTypes DEF PolicyInv
  <2>3. CASE i \in ResourceIds
    <3>1. rows[i] \in ResourceRow /\ rows[i].code = r.code
      BY <2>2, <2>3, SameKeys, ResourceKey DEF RowType
    <3> QED
      BY <3>1, ResourceKey
  <2>4. CASE i \notin ResourceIds
    <3>1. /\ rows[i] \in PolicyRow
          /\ rows[i].grant = r.grant /\ rows[i].resource = r.resource
      BY <2>2, <2>4, SameKeys, PolicyKey DEF RowType
    <3> QED
      BY <3>1, PolicyKey
  <2> QED
    BY <2>3, <2>4
<1>10. /\ tx' \in TxType
       /\ tx'[w][i] = r /\ \A j \in Ids \ {i} : tx'[w][j] = tx[w][j]
       /\ \A u \in Workers \ {w} : tx'[u] = tx[u]
       /\ \A u \in Workers : WritesOK(u)'
  BY <1>1, <1>2, <1>3, <1>4, <1>7, <1>8, <1>9, RowWritten
<1>11. WorkersOK'
  BY <1>1, <1>3, <1>4, <1>5, <1>10 DEF WorkersOK
<1>12. EditOK(w)'
  BY <1>2, <1>3 DEF EditOK
<1>13. ASSUME NEW u \in DOMAIN SeedRows \ todo[w], NEW j \in Ids, Stands(w, j, u)
       PROVE  Stands(w, j, u)'
  <2>1. tx[w][i] = NULL /\ \A y \in DOMAIN SeedRows : SeedRows[y] # NULL
    BY <1>1, SeedRowType, RowTypes
  <2>2. CASE u \in ResourceIds
    BY <1>10, <1>13, <2>1, <2>2 DEF Stands
  <2>3. CASE u \notin ResourceIds
    <3>1. SeedRows[u] \in PolicyRow /\ SeedRows[u].resource \in DOMAIN SeedRows
      BY <2>3, SeedRowType DEF RowType
    <3>2. PICK x \in ResourceIds :
             /\ tx[w][x] = SeedRows[SeedRows[u].resource]
             /\ tx[w][j] = [SeedRows[u] EXCEPT !.resource = x]
      BY <1>13, <2>3 DEF Stands
    <3>3. tx[w][j] # NULL /\ x \in Ids
      BY <3>1, <3>2, MovedPolicy, PolicyKey DEF Ids
    <3>4. tx'[w][x] = tx[w][x] /\ tx'[w][j] = tx[w][j]
      BY <1>10, <2>1, <3>1, <3>2, <3>3
    <3> QED
      BY <1>13, <2>3, <3>2, <3>4 DEF Stands
  <2> QED
    BY <2>2, <2>3
<1>14. Stands(w, i, v)'
  <2>1. CASE v \in ResourceIds
    BY <1>6, <1>10, <2>1 DEF Stands
  <2>2. CASE v \notin ResourceIds
    <3>1. PICK x \in ResourceIds :
             /\ tx[w][x] = SeedRows[SeedRows[v].resource]
             /\ r = [SeedRows[v] EXCEPT !.resource = x]
      BY <1>6, <2>2
    <3>2. x # i /\ x \in Ids /\ i \in PolicyIds
      BY <2>2 DEF Ids
    <3> QED
      BY <1>10, <2>2, <3>1, <3>2 DEF Stands
  <2> QED
    BY <2>1, <2>2
<1>15. SeedOK(w)'
  <2>1. DOMAIN SeedRows \ todo'[w] = (DOMAIN SeedRows \ todo[w]) \cup {v}
    BY <1>5
  <2>2. SeedOK(w)
    BY <1>1 DEF PolicyInv
  <2>3. ASSUME NEW u \in DOMAIN SeedRows \ todo'[w]
        PROVE  \E j \in Ids : Stands(w, j, u)'
    BY <1>2, <1>13, <1>14, <2>1, <2>2 DEF SeedOK
  <2>4. /\ Rowful(tx[w])' = {j \in Ids : tx'[w][j] # NULL}
        /\ Rowful(tx[w]) = {j \in Ids : tx[w][j] # NULL}
    BY <1>1, <1>10 DEF WorkersOK, TxType, Rowful
  <2>5. ASSUME NEW j \in Ids, tx'[w][j] # NULL
        PROVE  \E u \in DOMAIN SeedRows \ todo'[w] : Stands(w, j, u)'
    <3>1. CASE j = i
      BY <1>14, <2>1, <3>1
    <3>2. CASE j # i
      <4>1. PICK u \in DOMAIN SeedRows \ todo[w] : Stands(w, j, u)
        BY <1>2, <1>10, <2>2, <2>4, <2>5, <3>2 DEF SeedOK
      <4> QED
        BY <1>13, <2>1, <4>1
    <3> QED
      BY <3>1, <3>2
  <2> QED
    BY <1>2, <1>3, <2>3, <2>4, <2>5 DEF SeedOK
<1> QED
  BY <1>1, <1>3, <1>4, <1>5, <1>10, <1>11, <1>12, <1>15, WriteStep

LEMMA SeedUpdateInv ==
    ASSUME PolicyInv, NEW w \in Seeders, NEW v \in DOMAIN SeedRows, NEW i \in Ids,
           SeedUpdate(w, v, i)
    PROVE  PolicyInv'
<1>1. w \in Workers
  BY WorkerTypes
<1>2. PICK r : r = SeedRow(w, v)
  OBVIOUS
<1>3. /\ SeedTurn(w, v) /\ rows[i] # NULL /\ SameKey(rows[i], r)
      /\ SeedWrite(w, v, i, r) /\ Free(i)
  BY <1>2 DEF SeedUpdate, SeedWrite
<1>4. pc[w] = "seeding"
  BY <1>1, <1>3 DEF SeedTurn, PolicyInv, SeedOK
<1>5. \A u \in Workers : tx[u][i] = NULL
  BY <1>3, FreeRow
<1>6. /\ \A j \in Ids \ {i} : rows[j] # NULL => ~ SameKey(r, rows[j])
      /\ \A u \in Workers, j \in Ids : tx[u][j] # NULL => ~ SameKey(r, tx[u][j])
  BY <1>3, <1>5, SameKeyIsSymmetric, CommittedKeyIsFree
<1>7. i \in ResourceIds <=> v \in ResourceIds
  <2>1. r \in RowType(v) /\ r \in Row /\ v \in Ids
    BY <1>1, <1>2, <1>3, <1>4, SeedRowNext, SeedRowType, RowTypes
  <2>2. rows[i] \in RowType(i) /\ rows[i] \in Row
    BY <1>3, CommittedRow DEF PolicyInv
  <2>3. rows[i] \in ResourceRow <=> r \in ResourceRow
    BY <1>3, <2>1, <2>2, SameKeys, PolicyKey
  <2> QED
    BY <2>1, <2>2, <2>3, RowTypes
<1> QED
  BY <1>2, <1>3, <1>5, <1>6, <1>7, SeedWriteInv

LEMMA SeedCreateInv ==
    ASSUME PolicyInv, NEW w \in Seeders, NEW v \in DOMAIN SeedRows, NEW i \in Ids,
           SeedCreate(w, v, i)
    PROVE  PolicyInv'
<1>1. w \in Workers
  BY WorkerTypes
<1>2. PICK r : r = SeedRow(w, v)
  OBVIOUS
<1>3. /\ SeedTurn(w, v) /\ FreshId(i) /\ rows[i] = NULL /\ KeyIsFree(w, r, NULL)
      /\ i \in ResourceIds <=> v \in ResourceIds
      /\ SeedWrite(w, v, i, r)
  BY <1>2 DEF SeedCreate, FreshId
<1>4. \A u \in Workers : tx[u][i] = NULL
  BY <1>3, FreeRow
<1>5. /\ \A j \in Ids \ {NULL} : rows[j] # NULL => ~ SameKey(r, rows[j])
      /\ \A u \in Workers \ {w}, j \in Ids : tx[u][j] # NULL => ~ SameKey(r, tx[u][j])
  BY <1>1, <1>3, FreeKey
<1>6. NULL \notin Ids
  BY NullAssumption DEF Lockable
<1> QED
  BY <1>2, <1>3, <1>4, <1>5, <1>6, SeedWriteInv

-----------------------------------------------------------------------------
(* COMMIT.                                                                 *)

LEMMA CommitEffect ==
    ASSUME PolicyInv, NEW w \in Workers, Commit(w)
    PROVE  /\ rows' \in [Ids -> Row \cup {NULL}]
           /\ \A i \in Ids : rows'[i] = IF tx[w][i] = NULL THEN rows[i] ELSE tx[w][i]
           /\ \A v \in Workers \ {w}, i \in Ids :
                 tx[v][i] # NULL \/ (rows[i] # NULL /\ lock[i] = v) => rows'[i] = rows[i]
<1>1. RowsOK /\ WorkersOK
  BY WorkerTypes
<1>2. \A i \in Ids : rows'[i] = IF tx[w][i] = NULL THEN rows[i] ELSE tx[w][i]
  BY DEF Commit
<1>3. rows' \in [Ids -> Row \cup {NULL}]
  BY <1>1 DEF Commit, RowsOK, WorkersOK, TxType
<1>4. ASSUME NEW v \in Workers \ {w}, NEW i \in Ids,
             tx[v][i] # NULL \/ (rows[i] # NULL /\ lock[i] = v)
      PROVE  tx[w][i] = NULL
  BY <1>4, Pending DEF PendingOK, Apart
<1> QED
  BY <1>2, <1>3, <1>4

LEMMA CommitInv ==
    ASSUME PolicyInv, NEW w \in Workers, Commit(w)
    PROVE  PolicyInv'
<1>1. RowsOK /\ WorkersOK
  BY WorkerTypes
<1>2. /\ rows' \in [Ids -> Row \cup {NULL}]
      /\ \A i \in Ids : rows'[i] = IF tx[w][i] = NULL THEN rows[i] ELSE tx[w][i]
      /\ \A v \in Workers \ {w}, i \in Ids :
            tx[v][i] # NULL \/ (rows[i] # NULL /\ lock[i] = v) => rows'[i] = rows[i]
  BY CommitEffect
<1>3. /\ WorkersOK'
      /\ pc'[w] = (IF w \in Seeders THEN "done" ELSE "idle") /\ todo'[w] = {}
      /\ \A i \in Ids : tx'[w][i] = NULL
      /\ \A v \in Workers \ {w} :
            /\ pc'[v] = pc[v] /\ target'[v] = target[v]
            /\ draft'[v] = draft[v] /\ asked'[v] = asked[v]
            /\ todo'[v] = todo[v] /\ tx'[v] = tx[v]
            /\ \A x \in Ids : lock[x] = v => lock'[x] = v
  BY FinishEffect DEF Commit
<1>4. RowsOK'
  <2>1. ASSUME NEW i \in Ids, rows'[i] # NULL PROVE rows'[i] \in RowType(i)
    BY <1>1, <1>2, <2>1, Pending DEF RowsOK, PendingOK
  <2>2. ASSUME NEW i \in Ids, NEW j \in Ids, i # j, rows'[i] # NULL, rows'[j] # NULL
        PROVE  ~ SameKey(rows'[i], rows'[j])
    <3>1. PendingOK(w, i) /\ PendingOK(w, j)
      BY Pending
    <3>2. CASE tx[w][i] = NULL /\ tx[w][j] = NULL
      BY <1>1, <1>2, <2>2, <3>2 DEF RowsOK
    <3>3. CASE tx[w][i] # NULL
      BY <1>2, <2>2, <3>1, <3>3 DEF PendingOK, Apart
    <3>4. CASE tx[w][i] = NULL /\ tx[w][j] # NULL
      <4>1. ~ SameKey(rows'[j], rows'[i])
        BY <1>2, <2>2, <3>1, <3>4 DEF PendingOK, Apart
      <4> QED
        BY <4>1, SameKeyIsSymmetric
    <3> QED
      BY <3>2, <3>3, <3>4
  <2> QED
    BY <1>2, <2>1, <2>2 DEF RowsOK
<1>5. TypeOK'
  BY <1>3, <1>4, TypePartsNext
<1>6. ASSUME NEW v \in Workers PROVE EditOK(v)' /\ SeedOK(v)'
  <2>1. CASE v = w
    BY <1>3, <2>1, EndedOK
  <2>2. CASE v # w
    BY <1>2, <1>3, <2>2, OthersKeep
  <2> QED
    BY <2>1, <2>2
<1>7. ASSUME NEW v \in Workers, NEW i \in Ids, tx'[v][i] # NULL
      PROVE  PendingOK(v, i)'
  <2>1. v # w /\ tx'[v] = tx[v] /\ pc'[v] = pc[v] /\ asked'[v] = asked[v]
    BY <1>3, <1>7
  <2>2. PendingOK(v, i) /\ rows'[i] = rows[i]
    BY <1>2, <1>7, <2>1, Pending
  <2>3. Apart(v, i, tx[v][i])
    BY <1>7, <2>1, <2>2 DEF PendingOK
  <2>4. \A j \in Ids \ {i} : rows'[j] # NULL => ~ SameKey(tx[v][i], rows'[j])
    BY <1>2, <2>1, <2>3 DEF Apart
  <2>5. Apart(v, i, tx[v][i])'
    BY <1>3, <2>1, <2>3, <2>4 DEF Apart
  <2> QED
    BY <1>3, <1>7, <2>1, <2>2, <2>5 DEF PendingOK, Agrees
<1>8. \A v \in Workers : WritesOK(v)'
  <2>1. DOMAIN rows' = Ids /\ tx' \in TxType
    BY <1>2, <1>3 DEF WorkersOK
  <2> QED
    BY <1>7, <2>1, WritesByRowNext DEF PendingOK
<1> QED
  BY <1>5, <1>6, <1>8 DEF PolicyInv

-----------------------------------------------------------------------------
(* The theorems.                                                           *)

\* The tables hold what the command declared: its keys are all different.
LEMMA InitPolicyInv == Init => PolicyInv
<1> SUFFICES ASSUME Init PROVE PolicyInv
  OBVIOUS
<1>1. NULL \notin Workers /\ NULL \notin Row
  BY NullAssumption
<1>2. /\ \A w \in Workers :
            pc[w] = (IF w \in Seeders THEN "starting" ELSE "idle") /\ todo[w] = {}
      /\ \A w \in Workers, i \in Ids : tx[w][i] = NULL
      /\ tx \in TxType
  BY DEF Init, NoRows, TxType
<1>3. RowsOK
  <2>1. /\ rows \in [Ids -> Row \cup {NULL}]
        /\ \A i \in Ids : rows[i] # NULL => i \in DOMAIN SeedRows /\ rows[i] = SeedRows[i]
    BY SeedRowType DEF Init
  <2> QED
    BY <2>1, SeedRowType, SeedAssumption DEF RowsOK
<1>4. WorkersOK
  BY <1>2 DEF Init, WorkersOK, Stages
<1>5. \A w \in Workers : WritesOK(w)
  <2>1. DOMAIN rows = Ids
    BY <1>3 DEF RowsOK
  <2> QED
    BY <1>2, <2>1, WritesByRow DEF PendingOK
<1>6. \A w \in Workers : EditOK(w) /\ SeedOK(w)
  BY <1>2 DEF EditOK, SeedOK
<1> QED
  BY <1>3, <1>4, <1>5, <1>6, TypeParts DEF PolicyInv

LEMMA RequestInv ==
    ASSUME PolicyInv, NEW w \in Admins, Request(w)
    PROVE  PolicyInv'
<1>1. ASSUME NEW row \in ResourceRow, CreateResource(w, row) PROVE PolicyInv'
  BY <1>1, CreateInv, ResourceKey DEF CreateResource
<1>2. ASSUME NEW row \in PolicyRow, CreatePolicy(w, row) PROVE PolicyInv'
  BY <1>2, CreateInv, PolicyKey DEF CreatePolicy
<1>3. ASSUME NEW i \in Ids, BeginEdit(w, i) PROVE PolicyInv'
  BY <1>3, BeginEditInv
<1> QED
  BY <1>1, <1>2, <1>3 DEF Request

LEMMA ServeRequestInv ==
    ASSUME PolicyInv, NEW w \in Admins, ServeRequest(w)
    PROVE  PolicyInv'
<1>1. w \in Workers
  BY WorkerTypes
<1>2. CASE UpdateReject(w) \/ KeyConflict(w)
  BY <1>1, <1>2, RollbackInv DEF UpdateReject, KeyConflict
<1>3. ASSUME NEW x \in ResourceIds, NEW row \in ResourceRow, UpdateResource(w, x, row)
      PROVE  PolicyInv'
  <2>1. x \in Ids /\ row \in RowType(x) /\ Update(w, x, row)
    BY <1>3 DEF UpdateResource, Ids, RowType
  <2> QED
    BY <2>1, UpdateInv
<1>4. ASSUME NEW p \in PolicyIds, NEW row \in PolicyRow, UpdatePolicy(w, p, row)
      PROVE  PolicyInv'
  <2>1. p \in Ids /\ row \in RowType(p) /\ Update(w, p, row)
    BY <1>4, IdsAssumption DEF UpdatePolicy, Ids, RowType
  <2> QED
    BY <2>1, UpdateInv
<1>5. ASSUME NEW x \in ResourceIds, NEW b \in BOOLEAN, SetActive(w, x, b)
      PROVE  PolicyInv'
  <2>1. x \in Ids
    BY DEF Ids
  <2> QED
    BY <1>5, <2>1, SetActiveInv
<1>6. ASSUME NEW p \in PolicyIds, DeactivatePolicy(w, p) PROVE PolicyInv'
  <2>1. p \in Ids /\ SetActive(w, p, FALSE)
    BY <1>6 DEF DeactivatePolicy, Ids
  <2> QED
    BY <2>1, SetActiveInv
<1>7. ASSUME NEW i \in Ids, Insert(w, i) PROVE PolicyInv'
  BY <1>7, InsertInv
<1>8. CASE UpdateClean(w) \/ UpdateSave(w)
  BY <1>8, UpdateCleanInv, UpdateSaveInv
<1> QED
  BY <1>2, <1>3, <1>4, <1>5, <1>6, <1>7, <1>8 DEF ServeRequest

LEMMA InductionStep == PolicyInv /\ [Next]_vars => PolicyInv'
<1> SUFFICES ASSUME PolicyInv, [Next]_vars PROVE PolicyInv'
  OBVIOUS
<1>1. ASSUME NEW w \in Admins, Request(w) \/ ServeRequest(w) PROVE PolicyInv'
  BY <1>1, RequestInv, ServeRequestInv
<1>2. ASSUME NEW w \in Seeders, Seed(w) PROVE PolicyInv'
  BY <1>2, SeedStartInv, SeedUpdateInv, SeedCreateInv DEF Seed
<1>3. ASSUME NEW w \in Workers, Commit(w) \/ DeadlockVictim(w) \/ Crash(w)
      PROVE  PolicyInv'
  BY <1>3, CommitInv, RollbackInv DEF DeadlockVictim, Crash
<1>4. CASE UNCHANGED vars
  <2>1. TypeOK'
    <3>1. (RowsOK => RowsOK') /\ (WorkersOK => WorkersOK')
      BY <1>4 DEF vars, RowsOK, WorkersOK
    <3> QED
      BY <3>1, WorkerTypes, TypePartsNext
  <2>2. ASSUME NEW w \in Workers PROVE EditOK(w)' /\ SeedOK(w)'
    BY <1>4, OthersKeep DEF vars
  <2>3. \A w \in Workers : WritesOK(w)'
    <3>1. \A w \in Workers : (\E i \in Ids : tx[w][i] # NULL)
                                => pc[w] \in {"committing", "seeding"}
      BY NothingPending
    <3> QED
      BY <1>4, <3>1, NothingWritten DEF vars
  <2> QED
    BY <2>1, <2>2, <2>3 DEF PolicyInv
<1> QED
  BY <1>1, <1>2, <1>3, <1>4 DEF Next

\* What each transaction has locked, read and written by its stage.
THEOREM PolicyInvariance == Spec => []PolicyInv
  BY InitPolicyInv, InductionStep, PTL DEF Spec

\* The types and the unique constraints on the committed rows: no order of
\* creations, renames, moves and runs of the command ever commits a code, or a
\* role, resource and action, for the second time.
THEOREM TypeCorrect == Spec => []TypeOK
<1>1. PolicyInv => TypeOK
  BY DEF PolicyInv
<1> QED
  BY <1>1, PolicyInvariance, PTL

\* No save() of a whole row undoes a column that its request did not carry.
THEOREM ForeignFieldsAreKept == Spec => NoLostUpdate
<1>1. ASSUME PolicyInv, NEW w \in Workers, Commit(w), NEW i \in Rowful(rows),
             NEW f \in DOMAIN rows[i] \ asked[w]
      PROVE  rows'[i][f] = rows[i][f]
  <2>1. i \in Ids /\ rows[i] # NULL
    BY <1>1, WorkerTypes DEF RowsOK, Rowful
  <2>2. rows'[i] = IF tx[w][i] = NULL THEN rows[i] ELSE tx[w][i]
    BY <1>1, <2>1, CommitEffect
  <2>3. tx[w][i] # NULL => Agrees(tx[w][i], i, asked[w])
    BY <1>1, <2>1, Pending DEF PendingOK
  <2> QED
    BY <1>1, <2>2, <2>3 DEF Agrees
<1>2. PolicyInv /\ [Next]_vars
        => [\A w \in Workers : Commit(w) =>
              \A i \in Rowful(rows) : \A f \in DOMAIN rows[i] \ asked[w] :
                 rows'[i][f] = rows[i][f]]_vars
  BY <1>1
<1> QED
  BY <1>2, PolicyInvariance, PTL DEF Spec, NoLostUpdate

\* The command restores the access it declares, whatever it is run against.
THEOREM SeedIsARestore == Spec => SeedRestoresAccess
<1>1. ASSUME PolicyInv, NEW w \in Seeders, Commit(w),
             NEW v \in DOMAIN SeedRows \cap PolicyIds
      PROVE  \E x \in ResourceIds, p \in PolicyIds :
                /\ rows'[x] = SeedRows[SeedRows[v].resource]
                /\ rows'[p] = [SeedRows[v] EXCEPT !.resource = x]
  <2>1. w \in Workers /\ SeedOK(w) /\ v \notin ResourceIds
    <3>1. w \in Workers
      BY <1>1, WorkerTypes
    <3>2. SeedOK(w)
      BY <1>1, <3>1 DEF PolicyInv
    <3> QED
      BY <3>1, <3>2, IdsAssumption
  <2>2. pc[w] = "seeding" /\ todo[w] = {}
    BY <1>1, <2>1 DEF Commit, SeedOK
  <2>3. PICK p \in Ids : Stands(w, p, v)
    BY <2>1, <2>2 DEF SeedOK
  <2>4. PICK x \in ResourceIds :
           /\ p \in PolicyIds
           /\ tx[w][x] = SeedRows[SeedRows[v].resource]
           /\ tx[w][p] = [SeedRows[v] EXCEPT !.resource = x]
    BY <2>1, <2>3 DEF Stands
  <2>5. tx[w][x] # NULL /\ tx[w][p] # NULL /\ x \in Ids
    <3>1. /\ SeedRows[v] \in PolicyRow
          /\ SeedRows[v].resource \in DOMAIN SeedRows
      BY <2>1, SeedRowType DEF RowType
    <3>2. SeedRows[SeedRows[v].resource] # NULL
      BY <3>1, SeedRowType, NullAssumption
    <3> QED
      BY <2>4, <3>1, <3>2, MovedPolicy, PolicyKey DEF Ids
  <2>6. rows'[x] = tx[w][x] /\ rows'[p] = tx[w][p]
    BY <1>1, <2>1, <2>5, CommitEffect
  <2> QED
    BY <2>4, <2>6
<1>2. PolicyInv /\ [Next]_vars
        => [\A w \in Seeders : Commit(w) =>
              \A v \in DOMAIN SeedRows \cap PolicyIds :
                 \E x \in ResourceIds, p \in PolicyIds :
                     /\ rows'[x] = SeedRows[SeedRows[v].resource]
                     /\ rows'[p] = [SeedRows[v] EXCEPT !.resource = x]]_vars
  BY <1>1
<1> QED
  BY <1>2, PolicyInvariance, PTL DEF Spec, SeedRestoresAccess
=============================================================================
