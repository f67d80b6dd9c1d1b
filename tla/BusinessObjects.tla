-------------------------- MODULE BusinessObjects --------------------------
(***************************************************************************)
(* The demonstration objects of the business service: dictionaries in the  *)
(* memory of the server, used by threads that each read the object, ask    *)
(* the permission service and then answer with the object or change it.    *)
(* The dictionaries are locked for each operation and not across them.     *)
(* Administrators may edit the policies at any moment, so any scope may be *)
(* the answer of the permission service; Permissions says how it comes     *)
(* about.  Products stand for the stores too, which are like them.         *)
(***************************************************************************)

CONSTANTS
    Users,
    OrderIds,    \* the keys of the collection that has owners
    ProductIds,  \* those of a collection that has none
    DemoIds,     \* the products that mock_data.py starts with
    Workers,     \* threads of the one server process
    NULL

ASSUME IdsAssumption == OrderIds \cap ProductIds = {} /\ DemoIds \subseteq ProductIds

ObjectIds == OrderIds \cup ProductIds
Kinds == {"orders", "products"}
Scopes == {"none", "own", "all"}

Object == [owner : Users \cup {NULL}, data : {"first", "second"}]

Request == [user   : Users,
            action : {"list", "create", "read", "update", "delete"},
            kind   : Kinds,
            id     : ObjectIds \cup {NULL},
            owner  : Users \cup {NULL},  \* as _get has read it
            scope  : Scopes]             \* as the permission service answered

ASSUME NullAssumption ==
    NULL \notin Users \cup ObjectIds \cup Object \cup Request

VARIABLES
    store,   \* the collections: NULL where an id has no object
    spent,   \* history: the ids that uuid4 has given out
    pc,
    req

vars == <<store, spent, pc, req>>

\* The types; orders have an owner and products have none.
TypeOK ==
    /\ store \in [ObjectIds -> Object \cup {NULL}]
    /\ spent \in SUBSET ObjectIds /\ DemoIds \subseteq spent
    /\ pc \in [Workers -> {"idle", "listing", "checking", "answering"}]
    /\ req \in [Workers -> Request \cup {NULL}]
    /\ \A o \in ObjectIds :
          store[o] # NULL => o \in spent /\ (store[o].owner # NULL <=> o \in OrderIds)

\* The collections of a process that has just started.
Initial ==
    [o \in ObjectIds |-> IF o \in DemoIds THEN [owner |-> NULL, data |-> "first"]
                                         ELSE NULL]

Init ==
    /\ store = Initial
    /\ spent = DemoIds
    /\ pc = [w \in Workers |-> "idle"]
    /\ req = [w \in Workers |-> NULL]

-----------------------------------------------------------------------------
(* Requests.                                                               *)

Goto(w, stage, r) ==
    /\ pc' = [pc EXCEPT ![w] = stage]
    /\ req' = [req EXCEPT ![w] = r]

Began(u, action, kind, o, owner, scope) ==
    [user |-> u, action |-> action, kind |-> kind, id |-> o,
     owner |-> owner, scope |-> scope]

KindOf(o) == IF o \in OrderIds THEN "orders" ELSE "products"

\* Mutant: the second test is left out.
Listed_Own(u, kind, scope) ==
    IF scope = "none" THEN {}
    ELSE {o \in ObjectIds : KindOf(o) = kind /\ store[o] # NULL
                              /\ (kind = "orders" /\ scope = "own" => store[o].owner = u)}

\* The objects that GET of a collection answers with; 403 shows none.
Listed(u, kind, scope) ==
    IF scope = "none" \/ (scope = "own" /\ kind # "orders") THEN {}
    ELSE {o \in ObjectIds : KindOf(o) = kind /\ store[o] # NULL
                              /\ (scope = "own" => store[o].owner = u)}

\* GET of a collection asks for the scope and then copies the objects.
BeginList(w, u, kind, scope) ==
    /\ pc[w] = "idle"
    /\ scope # "none"
    /\ Goto(w, "listing", Began(u, "list", kind, NULL, NULL, scope))
    /\ UNCHANGED <<store, spent>>

\* Answers with Listed, or refuses.
ListObjects(w) ==
    /\ pc[w] = "listing"
    /\ Goto(w, "idle", NULL)
    /\ UNCHANGED <<store, spent>>

\* POST: the owner to be is the caller, where the view has owners.
BeginCreate(w, u, kind) ==
    /\ pc[w] = "idle"
    /\ Goto(w, "checking", Began(u, "create", kind, NULL,
                                 IF kind = "orders" THEN u ELSE NULL, "none"))
    /\ UNCHANGED <<store, spent>>

\* GET, PATCH and DELETE of an object: _get copies it.  404 changes nothing.
BeginDetail(w, u, o, action) ==
    /\ pc[w] = "idle"
    /\ store[o] # NULL
    /\ Goto(w, "checking", Began(u, action, KindOf(o), o, store[o].owner, "none"))
    /\ UNCHANGED <<store, spent>>

\* Mutant: object_owner_id is the caller, as in ProfileMeView._require.
OwnerId_Caller(r) == r.user

\* object_owner_id = value.get("owner_id") if self.has_owner else None
OwnerId(r) == IF r.kind = "orders" THEN r.owner ELSE NULL

\* check_permission, when get_effective_scope has answered scope
Permitted(r, scope) ==
    \/ scope = "all"
    \/ scope = "own" /\ OwnerId(r) = r.user

Check(w, scope) ==
    /\ pc[w] = "checking"
    /\ IF Permitted(req[w], scope)
       THEN Goto(w, "answering", [req[w] EXCEPT !.scope = scope])
       ELSE Goto(w, "idle", NULL)
    /\ UNCHANGED <<store, spent>>

\* The answer is the copy that _get made.
ReadObject(w) ==
    /\ pc[w] = "answering" /\ req[w].action = "read"
    /\ Goto(w, "idle", NULL)
    /\ UNCHANGED <<store, spent>>

\* Mutant: owner_id is not added to the validated data.
CreateObject_NoOwner(w, o) ==
    /\ pc[w] = "answering" /\ req[w].action = "create"
    /\ o \notin spent /\ KindOf(o) = req[w].kind
    /\ store' = [store EXCEPT ![o] = [owner |-> NULL, data |-> "first"]]
    /\ spent' = spent \cup {o}
    /\ Goto(w, "idle", NULL)

\* Mutant: ids are only unique among the objects that are there.
CreateObject_ReusedId(w, o) ==
    /\ pc[w] = "answering" /\ req[w].action = "create"
    /\ store[o] = NULL /\ KindOf(o) = req[w].kind
    /\ store' = [store EXCEPT ![o] = [owner |-> req[w].owner, data |-> "first"]]
    /\ spent' = spent \cup {o}
    /\ Goto(w, "idle", NULL)

CreateObject(w, o) ==
    /\ pc[w] = "answering" /\ req[w].action = "create"
    /\ o \notin spent /\ KindOf(o) = req[w].kind
    /\ store' = [store EXCEPT ![o] = [owner |-> req[w].owner, data |-> "first"]]
    /\ spent' = spent \cup {o}
    /\ Goto(w, "idle", NULL)

\* Mutant: a missing object is put into the collection again.
UpdateObject_Upsert(w) ==
    /\ pc[w] = "answering" /\ req[w].action = "update"
    /\ store' = [store EXCEPT ![req[w].id] = [owner |-> req[w].owner,
                                              data |-> "second"]]
    /\ Goto(w, "idle", NULL)
    /\ UNCHANGED spent

\* value.update(data), or nothing when the object has gone: 200 either way
UpdateObject(w) ==
    LET o == req[w].id IN
    /\ pc[w] = "answering" /\ req[w].action = "update"
    /\ store' = IF store[o] = NULL THEN store
                ELSE [store EXCEPT ![o].data = "second"]
    /\ Goto(w, "idle", NULL)
    /\ UNCHANGED spent

\* pop(object_id, None): 204 whether this request removed it or another one
DeleteObject(w) ==
    /\ pc[w] = "answering" /\ req[w].action = "delete"
    /\ store' = [store EXCEPT ![req[w].id] = NULL]
    /\ Goto(w, "idle", NULL)
    /\ UNCHANGED spent

\* The serializer, or the ban on owner_id in a PATCH, refuses the data: 400
RejectData(w) ==
    /\ pc[w] = "answering" /\ req[w].action \in {"create", "update"}
    /\ Goto(w, "idle", NULL)
    /\ UNCHANGED <<store, spent>>

\* The process restarts: its memory and its requests are gone.
Restart ==
    /\ store' = Initial
    /\ pc' = [w \in Workers |-> "idle"]
    /\ req' = [w \in Workers |-> NULL]
    /\ UNCHANGED spent

Access(w) == ReadObject(w) \/ UpdateObject(w) \/ DeleteObject(w)

Next ==
    \/ \E w \in Workers, u \in Users, kind \in Kinds :
          \/ BeginCreate(w, u, kind)
          \/ \E scope \in Scopes : BeginList(w, u, kind, scope)
    \/ \E w \in Workers, u \in Users, o \in ObjectIds :
          \E action \in {"read", "update", "delete"} : BeginDetail(w, u, o, action)
    \/ \E w \in Workers, scope \in Scopes : Check(w, scope)
    \/ \E w \in Workers : ListObjects(w) \/ Access(w) \/ RejectData(w)
    \/ \E w \in Workers, o \in ObjectIds : CreateObject(w, o)
    \/ Restart

Spec == Init /\ [][Next]_vars

-----------------------------------------------------------------------------
(* Properties.                                                             *)

\* The dictionary that _get copied for a request may have gone, but has not
\* come to belong to anyone else, and who goes on has passed check_permission.
ReadsAreCurrent ==
    \A w \in Workers :
        pc[w] # "idle" =>
            /\ req[w] # NULL
            /\ req[w].action \in {"list", "create"} <=> req[w].id = NULL
            /\ req[w].action = "create" => (req[w].owner # NULL <=> req[w].kind = "orders")
            /\ req[w].id # NULL =>
                 /\ req[w].id \in spent /\ req[w].kind = KindOf(req[w].id)
                 /\ store[req[w].id] # NULL => store[req[w].id].owner = req[w].owner
            /\ pc[w] = "answering" => Permitted(req[w], req[w].scope)

IndInv == TypeOK /\ ReadsAreCurrent

\* The list of a collection and the check of each object are written apart:
\* for every caller and scope, and at every moment, the list shows exactly
\* the objects that a GET of the object would answer.
ListMatchesDetail ==
    \A u \in Users, o \in ObjectIds, scope \in Scopes :
        store[o] # NULL =>
            (o \in Listed(u, KindOf(o), scope) <=>
             Permitted(Began(u, "read", KindOf(o), o, store[o].owner, scope), scope))

\* An object that a request answers with, changes or removes is the caller's
\* own as the object is now, or the caller was granted all when the policies
\* were read: what _get read before the check has not gone stale in between.
AccessIsEntitled ==
    [][\A w \in Workers : Access(w) =>
         LET o == req[w].id IN
         store[o] # NULL => req[w].scope = "all" \/ store[o].owner = req[w].user]_vars

\* While the process lives, an object that has gone stays gone and keeps its
\* owner as long as it is there: a PATCH that lost the race against DELETE
\* does not bring it back.
ObjectsAreNotRevived ==
    [][~ Restart => \A o \in spent :
         /\ store[o] = NULL => store'[o] = NULL
         /\ store[o] # NULL /\ store'[o] # NULL => store'[o].owner = store[o].owner]_vars
=============================================================================
