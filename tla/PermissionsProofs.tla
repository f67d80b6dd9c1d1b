-------------------------- MODULE PermissionsProofs --------------------------
(***************************************************************************)
(* What permission_service grants, for any number of users, roles, actions *)
(* and policies.                                                           *)
(***************************************************************************)
EXTENDS Permissions, TLAPS

\* The rows of the catalogue keep their types, whatever is edited.
LEMMA CatalogueType == CatalogueSpec => []CatalogueTypeOK
<1>1. CatalogueInit => CatalogueTypeOK
  <2> SUFFICES ASSUME CatalogueInit PROVE CatalogueTypeOK
    OBVIOUS
  <2>1. resource \in [has_owner : BOOLEAN, is_active : BOOLEAN]
    BY DEF CatalogueInit
  <2>2. NoPolicy \in PolicyRow
    BY DEF NoPolicy, PolicyRow, Scopes
  <2>3. policies \in [Roles \X Actions -> PolicyRow]
    BY <2>2, Zenon DEF CatalogueInit
  <2> QED
    BY <2>1, <2>3 DEF CatalogueInit, CatalogueTypeOK
<1>2. CatalogueTypeOK /\ [EditCatalogue]_catalogue => CatalogueTypeOK'
  <2> SUFFICES ASSUME CatalogueTypeOK, [EditCatalogue]_catalogue
               PROVE  CatalogueTypeOK'
    OBVIOUS
  <2> USE DEF CatalogueTypeOK
  <2>1. ASSUME NEW u \in Users, NEW x \in Roles, AssignRole(u, x) \/ RevokeRole(u, x)
        PROVE  CatalogueTypeOK'
    BY <2>1 DEF AssignRole, RevokeRole
  <2>2. ASSUME NEW x \in Roles, ActivateRole(x) \/ DeactivateRole(x)
        PROVE  CatalogueTypeOK'
    BY <2>2 DEF ActivateRole, DeactivateRole
  <2>3. ASSUME NEW a \in Actions, ActivateAction(a) \/ DeactivateAction(a)
        PROVE  CatalogueTypeOK'
    BY <2>3 DEF ActivateAction, DeactivateAction
  <2>4. ASSUME NEW b \in BOOLEAN, SetResourceActive(b) \/ SetHasOwner(b)
        PROVE  CatalogueTypeOK'
    BY <2>4 DEF SetResourceActive, SetHasOwner
  <2>5. ASSUME NEW x \in Roles, NEW a \in Actions, NEW row \in PolicyRow,
               SetPolicy(x, a, row)
        PROVE  CatalogueTypeOK'
    BY <2>5 DEF SetPolicy
  <2>6. ASSUME NEW x \in Roles, NEW a \in Actions, DeactivatePolicy(x, a)
        PROVE  CatalogueTypeOK'
    BY <2>6 DEF DeactivatePolicy, PolicyRow
  <2>7. ASSUME NEW k \in Roles \X Actions, NEW l \in Roles \X Actions,
               NEW row \in PolicyRow, MovePolicy(k, l, row)
        PROVE  CatalogueTypeOK'
    <3>1. NoPolicy \in PolicyRow
      BY DEF NoPolicy, PolicyRow, Scopes
    <3>2. policies' \in [Roles \X Actions -> PolicyRow]
      BY <2>7, <3>1 DEF MovePolicy
    <3> QED
      BY <2>7, <3>2 DEF MovePolicy
  <2>8. CASE UNCHANGED catalogue
    BY <2>8 DEF catalogue
  <2> QED
    BY <2>1, <2>2, <2>3, <2>4, <2>5, <2>6, <2>7, <2>8 DEF EditCatalogue, Withdraw, Extend
<1> QED
  BY <1>1, <1>2, PTL DEF CatalogueSpec

-----------------------------------------------------------------------------
(* The maximum of the matching scopes.                                     *)

\* Strongest is a scope of the set, and no scope of the set weighs more.
LEMMA StrongestIsMaximum ==
  ASSUME NEW S \in SUBSET Scopes
  PROVE  /\ Strongest(S) \in Scopes
         /\ S # {} => Strongest(S) \in S
         /\ \A t \in S : Weight[t] <= Weight[Strongest(S)]
<1>1. CASE S = {}
  BY <1>1 DEF Strongest, Scopes
<1>2. CASE S # {}
  <2>1. \E s \in S : \A t \in S : Weight[t] <= Weight[s]
    <3>1. CASE "all" \in S
      BY <3>1 DEF Scopes, Weight
    <3>2. CASE "all" \notin S /\ "own" \in S
      BY <3>2 DEF Scopes, Weight
    <3>3. CASE S = {"none"}
      BY <3>3 DEF Weight
    <3> QED
      BY <1>2, <3>1, <3>2, <3>3 DEF Scopes
  <2>2. Strongest(S) = CHOOSE s \in S : \A t \in S : Weight[t] <= Weight[s]
    BY <1>2 DEF Strongest
  <2> QED
    BY <2>1, <2>2
<1> QED
  BY <1>1, <1>2

\* More policies never weaken the answer.
LEMMA StrongestIsMonotone ==
  ASSUME NEW T \in SUBSET Scopes, NEW S \in SUBSET T
  PROVE  Weight[Strongest(S)] <= Weight[Strongest(T)]
<1>1. CASE S = {}
  <2>1. Weight[Strongest(S)] = 0
    BY <1>1 DEF Strongest, Weight
  <2> QED
    BY <2>1, StrongestIsMaximum DEF Scopes, Weight
<1>2. CASE S # {}
  BY <1>2, StrongestIsMaximum
<1> QED
  BY <1>1, <1>2

\* "none" weighs nothing.
LEMMA WeightIsPositive == \A s \in Scopes : Weight["none"] <= Weight[s]
  BY DEF Scopes, Weight

\* The scopes that the query returns.
Returned(u, a) == {policies[k].scope : k \in Matching(u, a)}

\* They are scopes.
LEMMA ReturnedType ==
  ASSUME CatalogueTypeOK, NEW u \in Users, NEW a \in Actions
  PROVE  Returned(u, a) \in SUBSET Scopes
<1>1. \A k \in Matching(u, a) : k \in Roles \X Actions
  BY DEF Matching, CatalogueTypeOK
<1> QED
  BY <1>1 DEF Returned, CatalogueTypeOK, PolicyRow

-----------------------------------------------------------------------------
(* Deny by default.                                                        *)

\* A scope other than none comes from an active policy of an assigned, active
\* role for an active action on the active resource.
THEOREM DenyByDefault == CatalogueSpec => []ScopeIsJustified
<1>1. CatalogueTypeOK => ScopeIsJustified
  <2> SUFFICES ASSUME CatalogueTypeOK, NEW u \in Users, NEW a \in Actions,
                      EffectiveScope(u, a) # "none"
               PROVE  /\ resource.is_active /\ a \in activeActions
                      /\ \E x \in activeRoles :
                           /\ <<u, x>> \in assigned
                           /\ policies[<<x, a>>] = [scope |-> EffectiveScope(u, a),
                                                is_active |-> TRUE]
    BY DEF ScopeIsJustified
  <2>1. /\ resource.is_active /\ a \in activeActions
        /\ EffectiveScope(u, a) = Strongest(Returned(u, a))
    BY DEF EffectiveScope, Returned
  <2>2. Returned(u, a) # {}
    BY <2>1 DEF Strongest
  <2>3. EffectiveScope(u, a) \in Returned(u, a)
    BY <2>1, <2>2, ReturnedType, StrongestIsMaximum
  <2>4. PICK x \in activeRoles :
          /\ <<u, x>> \in assigned
          /\ policies[<<x, a>>].is_active
          /\ policies[<<x, a>>].scope = EffectiveScope(u, a)
    BY <2>3 DEF Returned, Matching
  <2>5. policies[<<x, a>>] \in PolicyRow
    BY <2>4 DEF CatalogueTypeOK
  <2>6. policies[<<x, a>>] = [scope |-> EffectiveScope(u, a), is_active |-> TRUE]
    BY <2>4, <2>5 DEF PolicyRow
  <2> QED
    BY <2>1, <2>4, <2>6
<1> QED
  BY <1>1, CatalogueType, PTL

-----------------------------------------------------------------------------
(* Withdrawing and extending.                                              *)

\* Every policy row that the query finds after the step was found before it.
Shrinks ==
    /\ assigned' \subseteq assigned
    /\ activeRoles' \subseteq activeRoles
    /\ activeActions' \subseteq activeActions
    /\ resource'.is_active => resource.is_active
    /\ \A k \in Roles \X Actions :
          /\ policies'[k].scope = policies[k].scope
          /\ policies'[k].is_active => policies[k].is_active

\* And the other way round.
Grows ==
    /\ assigned \subseteq assigned'
    /\ activeRoles \subseteq activeRoles'
    /\ activeActions \subseteq activeActions'
    /\ resource.is_active => resource'.is_active
    /\ policies' = policies

\* Each withdrawal is of this kind.
LEMMA WithdrawShrinks == CatalogueTypeOK /\ Withdraw => Shrinks
<1> SUFFICES ASSUME CatalogueTypeOK, Withdraw PROVE Shrinks
  OBVIOUS
<1>1. ASSUME NEW u \in Users, NEW x \in Roles, RevokeRole(u, x) PROVE Shrinks
  BY <1>1 DEF RevokeRole, Shrinks
<1>2. ASSUME NEW x \in Roles, DeactivateRole(x) PROVE Shrinks
  BY <1>2 DEF DeactivateRole, Shrinks
<1>3. ASSUME NEW a \in Actions, DeactivateAction(a) PROVE Shrinks
  BY <1>3 DEF DeactivateAction, Shrinks
<1>4. CASE SetResourceActive(FALSE)
  BY <1>4 DEF SetResourceActive, Shrinks, CatalogueTypeOK
<1>5. ASSUME NEW x \in Roles, NEW a \in Actions, DeactivatePolicy(x, a) PROVE Shrinks
  BY <1>5 DEF DeactivatePolicy, Shrinks, CatalogueTypeOK, PolicyRow
<1> QED
  BY <1>1, <1>2, <1>3, <1>4, <1>5 DEF Withdraw

\* Each extension is of the other kind.
LEMMA ExtendGrows == CatalogueTypeOK /\ Extend => Grows
<1> SUFFICES ASSUME CatalogueTypeOK, Extend PROVE Grows
  OBVIOUS
<1>1. ASSUME NEW u \in Users, NEW x \in Roles, AssignRole(u, x) PROVE Grows
  BY <1>1 DEF AssignRole, Grows
<1>2. ASSUME NEW x \in Roles, ActivateRole(x) PROVE Grows
  BY <1>2 DEF ActivateRole, Grows
<1>3. ASSUME NEW a \in Actions, ActivateAction(a) PROVE Grows
  BY <1>3 DEF ActivateAction, Grows
<1>4. CASE SetResourceActive(TRUE)
  BY <1>4 DEF SetResourceActive, Grows, CatalogueTypeOK
<1> QED
  BY <1>1, <1>2, <1>3, <1>4 DEF Extend

\* A catalogue that shrinks shrinks what the query returns.
LEMMA ShrinkingScope ==
  ASSUME CatalogueTypeOK, CatalogueTypeOK', Shrinks, NEW u \in Users, NEW a \in Actions
  PROVE  Weight[EffectiveScope(u, a)'] <= Weight[EffectiveScope(u, a)]
<1>1. Returned(u, a)' \subseteq Returned(u, a)
  BY ZenonT(60) DEF Shrinks, Returned, Matching, CatalogueTypeOK
<1>2. Returned(u, a) \in SUBSET Scopes /\ Returned(u, a)' \in SUBSET Scopes
  BY <1>1, ReturnedType
<1>3. CASE resource'.is_active /\ a \in activeActions'
  <2>1. resource.is_active /\ a \in activeActions
    BY <1>3 DEF Shrinks
  <2>2. EffectiveScope(u, a) = Strongest(Returned(u, a))
    BY <2>1 DEF EffectiveScope, Returned
  <2>3. EffectiveScope(u, a)' = Strongest(Returned(u, a)')
    BY <1>3 DEF EffectiveScope, Returned, Strongest
  <2> QED
    BY <1>1, <1>2, <2>2, <2>3, StrongestIsMonotone
<1>4. CASE ~ (resource'.is_active /\ a \in activeActions')
  <2>1. EffectiveScope(u, a)' = "none"
    BY <1>4 DEF EffectiveScope
  <2>2. EffectiveScope(u, a) \in Scopes
    BY <1>2, StrongestIsMaximum DEF EffectiveScope, Returned, Scopes
  <2> QED
    BY <2>1, <2>2, WeightIsPositive
<1> QED
  BY <1>3, <1>4

\* And a catalogue that grows makes it grow.
LEMMA GrowingScope ==
  ASSUME CatalogueTypeOK, CatalogueTypeOK', Grows, NEW u \in Users, NEW a \in Actions
  PROVE  Weight[EffectiveScope(u, a)'] >= Weight[EffectiveScope(u, a)]
<1>1. Returned(u, a) \subseteq Returned(u, a)'
  BY DEF Grows, Returned, Matching
<1>2. Returned(u, a) \in SUBSET Scopes
  BY ReturnedType
<1>3. Returned(u, a)' \in SUBSET Scopes
  <2>1. \A k \in Matching(u, a)' : k \in Roles \X Actions
    BY DEF Matching, CatalogueTypeOK
  <2> QED
    BY <2>1 DEF Returned, CatalogueTypeOK, PolicyRow
<1>4. CASE resource.is_active /\ a \in activeActions
  <2>1. resource'.is_active /\ a \in activeActions'
    BY <1>4 DEF Grows
  <2>2. EffectiveScope(u, a) = Strongest(Returned(u, a))
    BY <1>4 DEF EffectiveScope, Returned
  <2>3. EffectiveScope(u, a)' = Strongest(Returned(u, a)')
    BY <2>1 DEF EffectiveScope, Returned, Strongest
  <2>4. Weight[Strongest(Returned(u, a))] <= Weight[Strongest(Returned(u, a)')]
    BY <1>1, <1>3, StrongestIsMonotone
  <2>5. \A s \in Scopes : Weight[s] \in Int
    BY DEF Scopes, Weight
  <2>6. Strongest(Returned(u, a)) \in Scopes /\ Strongest(Returned(u, a)') \in Scopes
    BY <1>2, <1>3, StrongestIsMaximum
  <2> QED
    BY <2>2, <2>3, <2>4, <2>5, <2>6
<1>5. CASE ~ (resource.is_active /\ a \in activeActions)
  <2>1. EffectiveScope(u, a) = "none"
    BY <1>5 DEF EffectiveScope
  <2>2. EffectiveScope(u, a)' \in Scopes
    BY <1>3, StrongestIsMaximum DEF EffectiveScope, Returned, Scopes, Strongest
  <2>3. \A s \in Scopes : Weight[s] >= Weight["none"]
    BY DEF Scopes, Weight
  <2> QED
    BY <2>1, <2>2, <2>3
<1> QED
  BY <1>4, <1>5

\* Taking a role, a policy, an action or the resource away never lets anyone
\* do more, with any set of overlapping roles.
THEOREM WithdrawalIsSafe == CatalogueSpec => WithdrawalNeverGrants
<1>1. CatalogueTypeOK /\ CatalogueTypeOK' /\ [EditCatalogue]_catalogue =>
        [Withdraw => \A u \in Users, a \in Actions :
           Weight[EffectiveScope(u, a)'] <= Weight[EffectiveScope(u, a)]]_catalogue
  BY WithdrawShrinks, ShrinkingScope
<1> QED
  BY <1>1, CatalogueType, PTL DEF CatalogueSpec, WithdrawalNeverGrants

\* Giving one more never lets anyone do less.
THEOREM ExtensionIsSafe == CatalogueSpec => ExtensionNeverDenies
<1>1. CatalogueTypeOK /\ CatalogueTypeOK' /\ [EditCatalogue]_catalogue =>
        [Extend => \A u \in Users, a \in Actions :
           Weight[EffectiveScope(u, a)'] >= Weight[EffectiveScope(u, a)]]_catalogue
  BY ExtendGrows, GrowingScope
<1> QED
  BY <1>1, CatalogueType, PTL DEF CatalogueSpec, ExtensionNeverDenies
=============================================================================
