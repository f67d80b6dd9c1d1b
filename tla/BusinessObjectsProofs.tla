----------------------- MODULE BusinessObjectsProofs -----------------------
(***************************************************************************)
(* The demonstration objects, for any number of users, objects and worker  *)
(* threads.                                                                *)
(***************************************************************************)
EXTENDS BusinessObjects, TLAPS

\* The state in which the process starts satisfies the invariant.
LEMMA InitIndInv == Init => IndInv
  BY IdsAssumption, NullAssumption
     DEF Init, IndInv, TypeOK, ReadsAreCurrent, Initial, Object, ObjectIds

\* A request that ends, or never began, leaves nothing to be said of it.
LEMMA GotoIdle ==
  ASSUME NEW w \in Workers, TypeOK, ReadsAreCurrent,
         Goto(w, "idle", NULL), UNCHANGED <<store, spent>>
  PROVE  IndInv'
  BY DEF IndInv, TypeOK, ReadsAreCurrent, Goto, Permitted, OwnerId

\* Where a request begins: it remembers the object, if any, as it is now.
LEMMA BeginStep ==
  ASSUME NEW w \in Workers, NEW u \in Users, IndInv,
         NEW action \in {"list", "create", "read", "update", "delete"},
         NEW kind \in Kinds, NEW o \in ObjectIds \cup {NULL},
         NEW owner \in Users \cup {NULL}, NEW scope \in Scopes,
         NEW stage \in {"listing", "checking"},
         action \in {"list", "create"} <=> o = NULL,
         action = "create" => (owner # NULL <=> kind = "orders"),
         o # NULL => o \in spent /\ kind = KindOf(o) /\ store[o].owner = owner,
         Goto(w, stage, Began(u, action, kind, o, owner, scope)),
         UNCHANGED <<store, spent>>
  PROVE  IndInv'
<1> DEFINE r == Began(u, action, kind, o, owner, scope)
<1>1. r \in Request /\ r # NULL
  BY NullAssumption DEF Request, Began
<1>2. r.action = action /\ r.kind = kind /\ r.id = o /\ r.owner = owner
  BY DEF Began
<1>3. Goto(w, stage, r)
  OBVIOUS
<1> HIDE DEF r
<1>4. TypeOK'
  BY <1>1, <1>3 DEF IndInv, TypeOK, Goto
<1>5. ReadsAreCurrent'
  BY <1>1, <1>2, <1>3
     DEF IndInv, TypeOK, ReadsAreCurrent, Goto, Permitted, OwnerId, KindOf
<1> QED
  BY <1>4, <1>5 DEF IndInv

\* The three ways in: a list, a creation, a request for one object.
LEMMA BeginSteps ==
  ASSUME NEW w \in Workers, NEW u \in Users, IndInv,
         \/ \E kind \in Kinds, scope \in Scopes : BeginList(w, u, kind, scope)
         \/ \E kind \in Kinds : BeginCreate(w, u, kind)
         \/ \E o \in ObjectIds, action \in {"read", "update", "delete"} :
               BeginDetail(w, u, o, action)
  PROVE  IndInv'
<1>1. ASSUME NEW kind \in Kinds, NEW scope \in Scopes, BeginList(w, u, kind, scope)
      PROVE  IndInv'
  BY <1>1, BeginStep DEF BeginList
<1>2. ASSUME NEW kind \in Kinds, BeginCreate(w, u, kind)
      PROVE  IndInv'
  <2>1. u # NULL
    BY NullAssumption
  <2>2. CASE kind = "orders"
    BY <1>2, <2>1, <2>2, BeginStep DEF BeginCreate, Scopes
  <2>3. CASE kind # "orders"
    BY <1>2, <2>3, BeginStep DEF BeginCreate, Scopes
  <2> QED
    BY <2>2, <2>3
<1>3. ASSUME NEW o \in ObjectIds, NEW action \in {"read", "update", "delete"},
             BeginDetail(w, u, o, action)
      PROVE  IndInv'
  <2>1. store[o] # NULL /\ store[o] \in Object /\ o \in spent /\ o # NULL
    BY <1>3, NullAssumption DEF BeginDetail, IndInv, TypeOK
  <2>2. store[o].owner \in Users \cup {NULL} /\ KindOf(o) \in Kinds /\ "none" \in Scopes
    BY <2>1 DEF Object, KindOf, Kinds, Scopes
  <2> QED
    BY <1>3, <2>1, <2>2, BeginStep DEF BeginDetail
<1> QED
  BY <1>1, <1>2, <1>3

\* check_permission lets a request through only with a scope that permits it.
LEMMA CheckStep ==
  ASSUME NEW w \in Workers, NEW scope \in Scopes, IndInv,
         Check(w, scope)
  PROVE  IndInv'
<1> DEFINE r == [req[w] EXCEPT !.scope = scope]
<1>1. pc[w] = "checking" /\ UNCHANGED <<store, spent>>
  BY DEF Check
<1>2. req[w] \in Request /\ req[w] # NULL
  BY <1>1 DEF IndInv, TypeOK, ReadsAreCurrent
<1>3. r \in Request /\ r.scope = scope /\ r.user = req[w].user /\ r.id = req[w].id
        /\ r.action = req[w].action /\ r.owner = req[w].owner /\ r.kind = req[w].kind
  BY <1>2 DEF Request
<1>4. CASE Permitted(req[w], scope)
  <2>1. Goto(w, "answering", r)
    BY <1>4 DEF Check
  <2>2. Permitted(r, r.scope) /\ r # NULL
    BY <1>3, <1>4, NullAssumption DEF Permitted, OwnerId
  <2> HIDE DEF r
  <2>3. TypeOK'
    BY <1>1, <1>3, <2>1 DEF IndInv, TypeOK, Goto
  <2>4. ReadsAreCurrent'
    BY <1>1, <1>2, <1>3, <2>1, <2>2
       DEF IndInv, TypeOK, ReadsAreCurrent, Goto, Permitted, OwnerId
  <2> QED
    BY <2>3, <2>4 DEF IndInv
<1>5. CASE ~ Permitted(req[w], scope)
  BY <1>1, <1>5, GotoIdle DEF Check, IndInv
<1> QED
  BY <1>4, <1>5

\* A new object has a new id, so no request in flight has read it.
LEMMA CreateStep ==
  ASSUME NEW w \in Workers, NEW o \in ObjectIds, IndInv, CreateObject(w, o)
  PROVE  IndInv'
<1> DEFINE v == [owner |-> req[w].owner, data |-> "first"]
<1>1. /\ pc[w] = "answering" /\ req[w].action = "create"
      /\ o \notin spent /\ KindOf(o) = req[w].kind
      /\ store' = [store EXCEPT ![o] = v] /\ spent' = spent \cup {o}
      /\ Goto(w, "idle", NULL)
  BY DEF CreateObject
<1>2. req[w] \in Request /\ (req[w].owner # NULL <=> o \in OrderIds)
  BY <1>1 DEF IndInv, TypeOK, ReadsAreCurrent, KindOf
<1>3. v \in Object /\ v # NULL /\ (v.owner # NULL <=> o \in OrderIds)
  BY <1>2, NullAssumption DEF Request, Object
<1> HIDE DEF v
<1>4. TypeOK'
  BY <1>1, <1>3 DEF IndInv, TypeOK, Goto
<1>5. ReadsAreCurrent'
  BY <1>1, <1>3 DEF IndInv, TypeOK, ReadsAreCurrent, Goto, Permitted, OwnerId
<1> QED
  BY <1>4, <1>5 DEF IndInv

\* PATCH keeps the owner of the object, DELETE and a late PATCH create none.
LEMMA WriteStep ==
  ASSUME NEW w \in Workers, IndInv, UpdateObject(w) \/ DeleteObject(w)
  PROVE  IndInv'
<1> DEFINE o == req[w].id
<1>1. pc[w] = "answering" /\ req[w].action \in {"update", "delete"}
        /\ Goto(w, "idle", NULL) /\ UNCHANGED spent
  BY DEF UpdateObject, DeleteObject
<1>2. o \in ObjectIds /\ o \in spent
  BY <1>1 DEF IndInv, TypeOK, ReadsAreCurrent
<1>3. /\ store' \in [ObjectIds -> Object \cup {NULL}]
      /\ \A p \in ObjectIds : store'[p] # NULL =>
            store[p] # NULL /\ store'[p].owner = store[p].owner
  <2>1. CASE DeleteObject(w)
    BY <1>2, <2>1 DEF DeleteObject, IndInv, TypeOK
  <2>2. CASE UpdateObject(w) /\ store[o] = NULL
    BY <2>2 DEF UpdateObject, IndInv, TypeOK
  <2>3. CASE UpdateObject(w) /\ store[o] # NULL
    <3>1. store[o] \in Object
      BY <1>2, <2>3 DEF IndInv, TypeOK
    <3> DEFINE v == [store[o] EXCEPT !.data = "second"]
    <3>2. v \in Object /\ v.owner = store[o].owner
      BY <3>1 DEF Object
    <3>3. store' = [store EXCEPT ![o] = v]
      BY <2>3 DEF UpdateObject
    <3> HIDE DEF v
    <3> QED
      BY <1>2, <2>3, <3>2, <3>3 DEF IndInv, TypeOK
  <2> QED
    BY <2>1, <2>2, <2>3
<1>4. TypeOK'
  BY <1>1, <1>3 DEF IndInv, TypeOK, Goto
<1>5. ReadsAreCurrent'
  BY <1>1, <1>3 DEF IndInv, TypeOK, ReadsAreCurrent, Goto, Permitted, OwnerId
<1> QED
  BY <1>4, <1>5 DEF IndInv

\* A restart forgets every request with the objects.
LEMMA RestartStep == IndInv /\ Restart => IndInv'
  BY IdsAssumption, NullAssumption
     DEF Restart, IndInv, TypeOK, ReadsAreCurrent, Initial, Object, ObjectIds

\* Every step keeps the invariant.
LEMMA NextStep == IndInv /\ [Next]_vars => IndInv'
<1> SUFFICES ASSUME IndInv, [Next]_vars PROVE IndInv'
  OBVIOUS
<1>1. ASSUME NEW w \in Workers, RejectData(w) \/ ListObjects(w) \/ ReadObject(w)
      PROVE  IndInv'
  BY <1>1, GotoIdle DEF RejectData, ListObjects, ReadObject, IndInv
<1>2. CASE Restart
  BY <1>2, RestartStep
<1>3. CASE UNCHANGED vars
  BY <1>3 DEF vars, IndInv, TypeOK, ReadsAreCurrent, Permitted, OwnerId
<1> QED
  BY <1>1, <1>2, <1>3, BeginSteps, CheckStep, CreateStep, WriteStep DEF Next, Access

\* The invariant holds in every reachable state, whatever threads do to the
\* collection between the read, the check and the write of another.
THEOREM Invariance == Spec => []IndInv
  BY InitIndInv, NextStep, PTL DEF Spec

\* Every object and request has its type, and orders alone have owners.
THEOREM TypeCorrectness == Spec => []TypeOK
  BY Invariance, PTL DEF IndInv

\* The owner that _get copied is the owner of the object while it exists.
THEOREM CurrentReads == Spec => []ReadsAreCurrent
  BY Invariance, PTL DEF IndInv

\* GET, PATCH and DELETE of the business views touch an object only if the
\* caller owns it now or was granted all.
THEOREM EntitledAccess == Spec => AccessIsEntitled
<1>1. ASSUME IndInv, NEW w \in Workers, Access(w), store[req[w].id] # NULL
      PROVE  req[w].scope = "all" \/ store[req[w].id].owner = req[w].user
  <2>1. pc[w] = "answering" /\ req[w].action \in {"read", "update", "delete"}
    BY <1>1 DEF Access, ReadObject, UpdateObject, DeleteObject
  <2>2. req[w].user \in Users /\ req[w].user # NULL
    BY <1>1, <2>1, NullAssumption DEF IndInv, TypeOK, ReadsAreCurrent, Request
  <2>3. Permitted(req[w], req[w].scope)
          /\ store[req[w].id].owner = req[w].owner
    BY <1>1, <2>1 DEF IndInv, ReadsAreCurrent
  <2> QED
    BY <2>2, <2>3 DEF Permitted, OwnerId
<1>2. IndInv /\ [Next]_vars =>
        [\A w \in Workers : Access(w) =>
           LET o == req[w].id IN
           store[o] # NULL => req[w].scope = "all" \/ store[o].owner = req[w].user]_vars
  BY <1>1
<1> QED
  BY <1>2, Invariance, PTL DEF Spec, AccessIsEntitled

\* GET of a collection shows what GET of each object would answer: the filter
\* of the list and the test of check_permission agree on every object.
THEOREM ListsMatchDetails == Spec => []ListMatchesDetail
<1>1. ASSUME TypeOK, NEW u \in Users, NEW o \in ObjectIds, NEW scope \in Scopes,
             store[o] # NULL
      PROVE  o \in Listed(u, KindOf(o), scope) <=>
             Permitted(Began(u, "read", KindOf(o), o, store[o].owner, scope), scope)
  <2>1. u # NULL
    BY NullAssumption
  <2>2. store[o].owner # NULL <=> KindOf(o) = "orders"
    BY <1>1 DEF TypeOK, KindOf
  <2> QED
    BY <1>1, <2>1, <2>2 DEF Listed, Permitted, OwnerId, Began, Scopes
<1>2. IndInv => ListMatchesDetail
  BY <1>1 DEF IndInv, ListMatchesDetail
<1> QED
  BY <1>2, Invariance, PTL

\* update_object ignores an id that has gone and create_object takes a new
\* one, so while the process lives no object comes back or changes hands.
THEOREM NoRevival == Spec => ObjectsAreNotRevived
<1> DEFINE Kept(o) == /\ store[o] = NULL => store'[o] = NULL
                      /\ store[o] # NULL /\ store'[o] # NULL =>
                            store'[o].owner = store[o].owner
<1>1. ASSUME IndInv, Next, ~ Restart, NEW o \in spent
      PROVE  Kept(o)
  <2>1. store \in [ObjectIds -> Object \cup {NULL}] /\ o \in ObjectIds
    BY <1>1 DEF IndInv, TypeOK
  <2>2. CASE UNCHANGED store
    BY <2>2
  <2>3. ASSUME NEW w \in Workers, NEW p \in ObjectIds, CreateObject(w, p)
        PROVE  Kept(o)
    BY <2>1, <2>3, <1>1 DEF CreateObject
  <2>4. ASSUME NEW w \in Workers, UpdateObject(w)
        PROVE  Kept(o)
    <3>1. CASE store[req[w].id] = NULL
      BY <2>4, <3>1 DEF UpdateObject
    <3>2. CASE store[req[w].id] # NULL
      <4> DEFINE q == req[w].id
      <4>1. store' = [store EXCEPT ![q] = [store[q] EXCEPT !.data = "second"]]
        BY <2>4, <3>2 DEF UpdateObject
      <4>2. CASE o = q
        <5>1. store[o] \in Object
          BY <2>1, <3>2, <4>2
        <5> QED
          BY <2>1, <3>2, <4>1, <4>2, <5>1 DEF Object
      <4>3. CASE o # q
        BY <2>1, <4>1, <4>3
      <4> QED
        BY <4>2, <4>3
    <3> QED
      BY <3>1, <3>2
  <2>5. ASSUME NEW w \in Workers, DeleteObject(w)
        PROVE  Kept(o)
    BY <2>1, <2>5 DEF DeleteObject
  <2> QED
    BY <1>1, <2>2, <2>3, <2>4, <2>5
       DEF Next, BeginList, BeginCreate, BeginDetail, Check, ListObjects, Access,
           ReadObject, RejectData
<1>2. IndInv /\ [Next]_vars => [~ Restart => \A o \in spent : Kept(o)]_vars
  BY <1>1
<1> HIDE DEF Kept
<1>3. [][~ Restart => \A o \in spent : Kept(o)]_vars => ObjectsAreNotRevived
  BY DEF Kept, ObjectsAreNotRevived
<1> QED
  BY <1>2, <1>3, Invariance, PTL DEF Spec
=============================================================================
