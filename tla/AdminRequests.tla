--------------------------- MODULE AdminRequests ---------------------------
(***************************************************************************)
(* The gate of the access API: AuthenticatedAPIView.require asks           *)
(* check_any_permission, which queries one action after the other, each    *)
(* with a snapshot of its own, while administrators edit the catalogue.    *)
(***************************************************************************)
EXTENDS Permissions, Sequences

CONSTANTS
    Workers,
    Required,  \* the actions each endpoint asks for, in order: views.py
    NULL

ASSUME RequiredAssumption ==
    \A e \in DOMAIN Required : Required[e] \in Seq(Actions) /\ Required[e] # <<>>
ASSUME NullAssumption == NULL \notin Users

VARIABLES
    caller,   \* the user of the request a worker serves
    pending,  \* the actions its loop has still to query
    result,   \* what require has said to the last request
    held      \* history: required actions held ever since the request began

vars == <<catalogue, caller, pending, result, held>>
requests == <<caller, pending, result, held>>

\* The types; a request is open exactly as long as an action is pending.
TypeOK ==
    /\ CatalogueTypeOK
    /\ caller \in [Workers -> Users \cup {NULL}]
    /\ pending \in [Workers -> Seq(Actions)]
    /\ result \in [Workers -> {"open", "granted", "denied"}]
    /\ held \in [Workers -> SUBSET Actions]
    /\ \A w \in Workers : caller[w] = NULL <=> pending[w] = <<>>

Init ==
    /\ CatalogueInit
    /\ caller = [w \in Workers |-> NULL]
    /\ pending = [w \in Workers |-> <<>>]
    /\ result = [w \in Workers |-> "open"]
    /\ held = [w \in Workers |-> {}]

Asked(e) == {Required[e][i] : i \in DOMAIN Required[e]}

HasAll(u, a) == EffectiveScope(u, a) = "all"

Begin(w, u, e) ==
    /\ caller[w] = NULL
    /\ caller' = [caller EXCEPT ![w] = u]
    /\ pending' = [pending EXCEPT ![w] = Required[e]]
    /\ result' = [result EXCEPT ![w] = "open"]
    /\ held' = [held EXCEPT ![w] = {a \in Asked(e) : HasAll(u, a)}]
    /\ UNCHANGED catalogue

Answer(w, verdict) ==
    /\ result' = [result EXCEPT ![w] = verdict]
    /\ caller' = [caller EXCEPT ![w] = NULL]
    /\ pending' = [pending EXCEPT ![w] = <<>>]
    /\ UNCHANGED <<catalogue, held>>

\* One turn of the loop of check_any_permission.
Grant(w) ==
    /\ pending[w] # <<>>
    /\ HasAll(caller[w], Head(pending[w]))
    /\ Answer(w, "granted")

\* Mutant: the loop runs off the end and answers nothing.
TryNext_PastLast(w) ==
    /\ pending[w] # <<>>
    /\ ~ HasAll(caller[w], Head(pending[w]))
    /\ pending' = [pending EXCEPT ![w] = Tail(@)]
    /\ UNCHANGED <<catalogue, caller, result, held>>

TryNext(w) ==
    /\ pending[w] # <<>>
    /\ ~ HasAll(caller[w], Head(pending[w]))
    /\ Len(pending[w]) > 1
    /\ pending' = [pending EXCEPT ![w] = Tail(@)]
    /\ UNCHANGED <<catalogue, caller, result, held>>

\* Mutant: the AccessDeniedError is raised inside the loop.
Deny_FirstAction(w) ==
    /\ pending[w] # <<>>
    /\ ~ HasAll(caller[w], Head(pending[w]))
    /\ Answer(w, "denied")

Deny(w) ==
    /\ pending[w] # <<>>
    /\ ~ HasAll(caller[w], Head(pending[w]))
    /\ Len(pending[w]) = 1
    /\ Answer(w, "denied")

\* A committed edit; a request in progress keeps the actions it still holds.
Edit ==
    /\ EditCatalogue
    /\ UNCHANGED <<caller, pending, result>>
    /\ held' = [w \in Workers |->
                  IF caller[w] = NULL THEN held[w]
                  ELSE {a \in held[w] : HasAll(caller[w], a)'}]

Next ==
    \/ \E w \in Workers, u \in Users, e \in DOMAIN Required : Begin(w, u, e)
    \/ \E w \in Workers : Grant(w) \/ TryNext(w) \/ Deny(w)
    \/ Edit

Spec == Init /\ [][Next]_vars

-----------------------------------------------------------------------------
(* Properties.                                                             *)

\* Whoever held one of the required actions from beginning to end of the
\* request is let in, however the catalogue changed around it: a refusal says
\* that each of them was missing at some moment.
HolderIsNotDenied ==
    [][\A w \in Workers :
         pending[w] # <<>> /\ result'[w] = "denied" => held[w] = {}]_vars

-----------------------------------------------------------------------------
(* Why: as long as a request is open, what its caller has held all along   *)
(* it still holds, and the loop has not come to it yet.                    *)

RequestOK(w) ==
    \A u \in Users : caller[w] = u =>
        /\ result[w] = "open"
        /\ \A a \in held[w] :
              /\ HasAll(u, a)
              /\ \E i \in DOMAIN pending[w] : pending[w][i] = a

GateInv == TypeOK /\ \A w \in Workers : RequestOK(w)
=============================================================================
