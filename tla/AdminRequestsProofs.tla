------------------------ MODULE AdminRequestsProofs ------------------------
(***************************************************************************)
(* Proofs about the gate of the access API, for any catalogue, any lists   *)
(* of required actions and any number of concurrent requests and edits:    *)
(* GateInv is an inductive invariant, and what permission_service promises *)
(* of one moment holds while the gate asks its questions one by one.       *)
(***************************************************************************)
EXTENDS AdminRequests, PermissionsProofs

-----------------------------------------------------------------------------
(* The catalogue below the gate.                                           *)

\* A request never writes the catalogue: what was proved of its edits holds.
THEOREM CatalogueIsKept == Spec => CatalogueSpec
<1>1. Init => CatalogueInit
  BY DEF Init
<1>2. [Next]_vars => [EditCatalogue]_catalogue
  BY DEF Next, vars, Begin, Grant, TryNext, Deny, Answer, Edit
<1> QED
  BY <1>1, <1>2, PTL DEF Spec, CatalogueSpec

LEMMA CatalogueTypeKept == Spec => []CatalogueTypeOK
  BY CatalogueIsKept, CatalogueType, PTL

-----------------------------------------------------------------------------
(* The loop of check_any_permission.                                       *)

\* The turns of the loop: the list gets shorter, and nothing that comes after
\* its first action is lost.
LEMMA Turn ==
    ASSUME NEW s \in Seq(Actions), s # <<>>
    PROVE  /\ Head(s) \in Actions /\ Head(s) = s[1]
           /\ Tail(s) \in Seq(Actions)
           /\ Len(s) > 1 => Tail(s) # <<>>
           /\ \A i \in DOMAIN s : i # 1 => i - 1 \in DOMAIN Tail(s) /\ Tail(s)[i - 1] = s[i]
           /\ Len(s) = 1 => DOMAIN s = {1}
<1>1. /\ Len(s) \in Nat /\ Len(s) # 0 /\ DOMAIN s = 1 .. Len(s)
      /\ Head(s) = s[1] /\ s[1] \in Actions
      /\ Tail(s) \in Seq(Actions) /\ Len(Tail(s)) = Len(s) - 1
  OBVIOUS
<1>2. DOMAIN Tail(s) = 1 .. Len(s) - 1
  BY <1>1
<1>3. \A i \in 1 .. Len(s) - 1 : Tail(s)[i] = s[i + 1]
  BY <1>1
<1>4. Len(s) > 1 => Tail(s) # <<>>
  BY <1>1
<1>5. ASSUME NEW i \in DOMAIN s, i # 1
      PROVE  i - 1 \in DOMAIN Tail(s) /\ Tail(s)[i - 1] = s[i]
  <2>1. i \in Nat /\ i - 1 \in 1 .. Len(s) - 1 /\ (i - 1) + 1 = i
    BY <1>1, <1>5
  <2>2. Tail(s)[i - 1] = s[(i - 1) + 1]
    BY <1>3, <2>1
  <2> QED
    BY <1>2, <2>1, <2>2
<1>6. Len(s) = 1 => DOMAIN s = {1}
  BY <1>1
<1> QED
  BY <1>1, <1>4, <1>5, <1>6

LEMMA RequiredType ==
    ASSUME NEW e \in DOMAIN Required
    PROVE  Required[e] \in Seq(Actions) /\ Required[e] # <<>> /\ Asked(e) \in SUBSET Actions
  BY RequiredAssumption DEF Asked

LEMMA InitGateInv == Init /\ CatalogueTypeOK => GateInv
  BY DEF Init, GateInv, TypeOK, RequestOK

LEMMA SameCatalogue ==
    ASSUME UNCHANGED catalogue, NEW u, NEW a
    PROVE  HasAll(u, a)' <=> HasAll(u, a)
  BY DEF HasAll, EffectiveScope, Matching, catalogue

\* What a step of worker w leaves to the others while the catalogue stays.
LEMMA PrivateStep ==
    ASSUME GateInv, CatalogueTypeOK', NEW w \in Workers, UNCHANGED catalogue,
           NEW u \in Users \cup {NULL}, NEW s \in Seq(Actions),
           NEW verdict \in {"open", "granted", "denied"}, NEW H \in SUBSET Actions,
           caller' = [caller EXCEPT ![w] = u],
           pending' = [pending EXCEPT ![w] = s],
           result' = [result EXCEPT ![w] = verdict],
           held' = [held EXCEPT ![w] = H],
           u = NULL <=> s = <<>>,
           u # NULL => /\ verdict = "open"
                       /\ \A a \in H : HasAll(u, a) /\ \E i \in DOMAIN s : s[i] = a
    PROVE  GateInv'
<1>1. TypeOK'
  BY DEF GateInv, TypeOK
<1>2. ASSUME NEW v \in Workers PROVE RequestOK(v)'
  <2>1. \A x \in Users, a \in Actions : HasAll(x, a)' <=> HasAll(x, a)
    BY SameCatalogue
  <2>2. CASE v = w
    BY <2>1, <2>2, NullAssumption DEF GateInv, TypeOK, RequestOK
  <2>3. CASE v # w
    BY <2>1, <2>3 DEF GateInv, TypeOK, RequestOK
  <2> QED
    BY <2>2, <2>3
<1> QED
  BY <1>1, <1>2 DEF GateInv

LEMMA BeginInv ==
    ASSUME GateInv, CatalogueTypeOK', NEW w \in Workers, NEW u \in Users,
           NEW e \in DOMAIN Required, Begin(w, u, e)
    PROVE  GateInv'
<1> DEFINE H == {a \in Asked(e) : HasAll(u, a)}
<1>1. /\ u # NULL /\ Required[e] \in Seq(Actions) /\ Required[e] # <<>>
      /\ H \in SUBSET Actions
      /\ \A a \in H : HasAll(u, a) /\ \E i \in DOMAIN Required[e] : Required[e][i] = a
  BY RequiredType, NullAssumption DEF Asked
<1>2. /\ UNCHANGED catalogue
      /\ caller' = [caller EXCEPT ![w] = u]
      /\ pending' = [pending EXCEPT ![w] = Required[e]]
      /\ result' = [result EXCEPT ![w] = "open"]
      /\ held' = [held EXCEPT ![w] = H]
  BY DEF Begin
<1> HIDE DEF H
<1> QED
  BY <1>1, <1>2, PrivateStep

LEMMA AnswerInv ==
    ASSUME GateInv, CatalogueTypeOK', NEW w \in Workers,
           NEW verdict \in {"granted", "denied"}, Answer(w, verdict)
    PROVE  GateInv'
<1>1. TypeOK /\ <<>> \in Seq(Actions)
  BY DEF GateInv
<1>2. /\ UNCHANGED catalogue
      /\ caller' = [caller EXCEPT ![w] = NULL]
      /\ pending' = [pending EXCEPT ![w] = <<>>]
      /\ result' = [result EXCEPT ![w] = verdict]
      /\ held' = [held EXCEPT ![w] = held[w]]
      /\ held[w] \in SUBSET Actions
  BY <1>1 DEF Answer, TypeOK
<1> QED
  BY <1>1, <1>2, PrivateStep

LEMMA TryNextInv ==
    ASSUME GateInv, CatalogueTypeOK', NEW w \in Workers, TryNext(w)
    PROVE  GateInv'
<1> DEFINE s == pending[w]
<1>1. /\ TypeOK /\ RequestOK(w) /\ s \in Seq(Actions) /\ s # <<>> /\ Len(s) > 1
      /\ ~ HasAll(caller[w], Head(s))
      /\ caller[w] \in Users \cup {NULL} /\ caller[w] # NULL
      /\ held[w] \in SUBSET Actions /\ result[w] = "open"
  BY DEF GateInv, TypeOK, TryNext, RequestOK
<1>2. /\ Tail(s) \in Seq(Actions) /\ Tail(s) # <<>>
      /\ \A i \in DOMAIN s : i # 1 => \E j \in DOMAIN Tail(s) : Tail(s)[j] = s[i]
  BY <1>1, Turn
<1>3. \A a \in held[w] : HasAll(caller[w], a) /\ \E i \in DOMAIN Tail(s) : Tail(s)[i] = a
  <2> SUFFICES ASSUME NEW a \in held[w]
               PROVE  HasAll(caller[w], a) /\ \E i \in DOMAIN Tail(s) : Tail(s)[i] = a
    OBVIOUS
  <2>1. HasAll(caller[w], a) /\ \E i \in DOMAIN s : s[i] = a
    BY <1>1 DEF RequestOK
  <2>2. PICK i \in DOMAIN s : s[i] = a
    BY <2>1
  <2>3. i # 1
    BY <1>1, <2>1, <2>2, Turn
  <2> QED
    BY <1>2, <2>1, <2>2, <2>3
<1>4. /\ UNCHANGED catalogue
      /\ caller' = [caller EXCEPT ![w] = caller[w]]
      /\ pending' = [pending EXCEPT ![w] = Tail(s)]
      /\ result' = [result EXCEPT ![w] = "open"]
      /\ held' = [held EXCEPT ![w] = held[w]]
  BY <1>1 DEF TryNext, TypeOK
<1> HIDE DEF s
<1> QED
  BY <1>1, <1>2, <1>3, <1>4, PrivateStep

\* An edit takes from a request what its caller holds no longer.
LEMMA EditInv ==
    ASSUME GateInv, CatalogueTypeOK', Edit
    PROVE  GateInv'
<1>1. /\ TypeOK /\ UNCHANGED <<caller, pending, result>>
      /\ held' \in [Workers -> SUBSET Actions]
      /\ \A w \in Workers : caller[w] # NULL =>
            held'[w] = {a \in held[w] : HasAll(caller[w], a)'}
  BY DEF GateInv, TypeOK, Edit
<1>2. TypeOK'
  BY <1>1 DEF TypeOK
<1>3. ASSUME NEW w \in Workers PROVE RequestOK(w)'
  <2>1. ASSUME NEW u \in Users, caller[w] = u, NEW a \in held'[w]
        PROVE  a \in held[w] /\ HasAll(u, a)'
    <3>1. a \in held[w] /\ HasAll(caller[w], a)'
      BY <1>1, <2>1, NullAssumption
    <3>2. caller'[w] = u
      BY <1>1, <2>1
    <3> QED
      BY <3>1, <3>2 DEF HasAll, EffectiveScope, Matching
  <2> QED
    BY <1>1, <2>1 DEF GateInv, RequestOK
<1> QED
  BY <1>2, <1>3 DEF GateInv

LEMMA InductionStep == GateInv /\ CatalogueTypeOK' /\ [Next]_vars => GateInv'
<1> SUFFICES ASSUME GateInv, CatalogueTypeOK', [Next]_vars PROVE GateInv'
  OBVIOUS
<1>1. ASSUME NEW w \in Workers, NEW u \in Users, NEW e \in DOMAIN Required, Begin(w, u, e)
      PROVE  GateInv'
  BY <1>1, BeginInv
<1>2. ASSUME NEW w \in Workers, Grant(w) \/ TryNext(w) \/ Deny(w) PROVE GateInv'
  BY <1>2, AnswerInv, TryNextInv DEF Grant, Deny
<1>3. ASSUME Edit PROVE GateInv'
  BY <1>3, EditInv
<1>4. CASE UNCHANGED vars
  <2>1. TypeOK'
    BY <1>4 DEF vars, GateInv, TypeOK
  <2>2. ASSUME NEW w \in Workers PROVE RequestOK(w)'
    <3>1. \A u \in Users, a \in Actions : HasAll(u, a)' <=> HasAll(u, a)
      BY <1>4, SameCatalogue DEF vars
    <3> QED
      BY <1>4, <3>1 DEF vars, GateInv, TypeOK, RequestOK
  <2> QED
    BY <2>1, <2>2 DEF GateInv
<1> QED
  BY <1>1, <1>2, <1>3, <1>4 DEF Next

\* What the caller of an open request has held all along, it holds, and the
\* loop has still to ask for it.
THEOREM GateInvariance == Spec => []GateInv
  BY InitGateInv, InductionStep, CatalogueTypeKept, PTL DEF Spec

\* The types, and that a request is open while an action is pending.
THEOREM TypeCorrect == Spec => []TypeOK
<1>1. GateInv => TypeOK
  BY DEF GateInv
<1> QED
  BY <1>1, GateInvariance, PTL

\* Only who lacked every required action at some moment is refused.
THEOREM HoldersGetIn == Spec => HolderIsNotDenied
<1>1. ASSUME GateInv, [Next]_vars, NEW w \in Workers, pending[w] # <<>>,
             result'[w] = "denied"
      PROVE  held[w] = {}
  <2>1. TypeOK /\ RequestOK(w) /\ caller[w] \in Users /\ result[w] = "open"
    BY <1>1 DEF GateInv, TypeOK, RequestOK
  <2>2. Deny(w)
    BY <1>1, <2>1 DEF Next, vars, Begin, Grant, TryNext, Deny, Answer, Edit, TypeOK
  <2>3. /\ pending[w] \in Seq(Actions) /\ Len(pending[w]) = 1
        /\ ~ HasAll(caller[w], Head(pending[w]))
    BY <2>1, <2>2 DEF Deny, TypeOK
  <2>4. \A i \in DOMAIN pending[w] : pending[w][i] = Head(pending[w])
    BY <1>1, <2>3, Turn
  <2> QED
    BY <2>1, <2>3, <2>4 DEF RequestOK
<1>2. GateInv /\ [Next]_vars =>
        [\A w \in Workers :
           pending[w] # <<>> /\ result'[w] = "denied" => held[w] = {}]_vars
  BY <1>1
<1> QED
  BY <1>2, GateInvariance, PTL DEF Spec, HolderIsNotDenied

\* So what was proved of the catalogue alone holds while the gate is asked:
\* nobody gets a scope that no policy justifies, taking something away never
\* lets anyone do more, and giving something never lets anyone do less.
THEOREM PermissionsAreKept ==
    Spec => []ScopeIsJustified /\ WithdrawalNeverGrants /\ ExtensionNeverDenies
  BY CatalogueIsKept, DenyByDefault, WithdrawalIsSafe, ExtensionIsSafe, PTL
=============================================================================
