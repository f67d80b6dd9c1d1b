---------------------------- MODULE Permissions ----------------------------
(***************************************************************************)
(* What a user may do: the permission service over the committed           *)
(* catalogue of roles, assignments, actions and policies of one protected  *)
(* resource.  The catalogue changes by whole transactions, whose insides   *)
(* are the subject of AccessPolicies and RoleAssignments.                  *)
(***************************************************************************)
EXTENDS Integers

CONSTANTS Users, Roles, Actions

Scopes == {"none", "own", "all"}

VARIABLES
    assigned,       \* pairs of a user and a role: assignments not revoked
    activeRoles,
    activeActions,
    resource,       \* the row of the protected resource
    policies        \* its policies, one for each role and action

catalogue == <<assigned, activeRoles, activeActions, resource, policies>>

PolicyRow == [scope : Scopes, is_active : BOOLEAN]

CatalogueTypeOK ==
    /\ assigned \subseteq Users \X Roles
    /\ activeRoles \subseteq Roles
    /\ activeActions \subseteq Actions
    /\ resource \in [has_owner : BOOLEAN, is_active : BOOLEAN]
    /\ policies \in [Roles \X Actions -> PolicyRow]

\* No policy is the same as an inactive one of scope none.
NoPolicy == [scope |-> "none", is_active |-> FALSE]

CatalogueInit ==
    /\ assigned = {}
    /\ activeRoles = Roles
    /\ activeActions = Actions
    /\ resource \in [has_owner : BOOLEAN, is_active : {TRUE}]
    /\ policies = [k \in Roles \X Actions |-> NoPolicy]

-----------------------------------------------------------------------------
(* permission_service.                                                     *)

Weight == [none |-> 0, own |-> 1, all |-> 2]

\* max(scopes, key=weight, default=none)
Strongest(scopes) ==
    IF scopes = {} THEN "none"
    ELSE CHOOSE s \in scopes : \A t \in scopes : Weight[t] <= Weight[s]

\* The policies that the query joins to user u and action a.
Matching(u, a) ==
    {<<x, a>> : x \in {y \in activeRoles :
                         <<u, y>> \in assigned /\ policies[<<y, a>>].is_active}}

\* Mutant: the query does not ask for resource__is_active.
EffectiveScope_AnyResource(u, a) ==
    IF a \in activeActions
    THEN Strongest({policies[k].scope : k \in Matching(u, a)})
    ELSE "none"

\* Mutant: scopes are compared as strings: "own" > "none" > "all".
EffectiveScope_Alphabetical(u, a) ==
    LET scopes == {policies[k].scope : k \in Matching(u, a)} IN
    CASE ~ resource.is_active \/ a \notin activeActions -> "none"
      [] "own" \in scopes -> "own"
      [] "own" \notin scopes /\ "none" \in scopes -> "none"
      [] OTHER -> Strongest(scopes)

\* get_effective_scope of a user whom the request has found usable
EffectiveScope(u, a) ==
    IF resource.is_active /\ a \in activeActions
    THEN Strongest({policies[k].scope : k \in Matching(u, a)})
    ELSE "none"

-----------------------------------------------------------------------------
(* Committed changes of the catalogue.                                     *)

\* assign_role, which refuses an inactive role
AssignRole(u, x) ==
    /\ x \in activeRoles
    /\ assigned' = assigned \cup {<<u, x>>}
    /\ UNCHANGED <<activeRoles, activeActions, resource, policies>>

RevokeRole(u, x) ==
    /\ assigned' = assigned \ {<<u, x>>}
    /\ UNCHANGED <<activeRoles, activeActions, resource, policies>>

ActivateRole(x) ==
    /\ activeRoles' = activeRoles \cup {x}
    /\ UNCHANGED <<assigned, activeActions, resource, policies>>

\* set_role_active, of a role that is no system role
DeactivateRole(x) ==
    /\ activeRoles' = activeRoles \ {x}
    /\ UNCHANGED <<assigned, activeActions, resource, policies>>

ActivateAction(a) ==
    /\ activeActions' = activeActions \cup {a}
    /\ UNCHANGED <<assigned, activeRoles, resource, policies>>

DeactivateAction(a) ==
    /\ activeActions' = activeActions \ {a}
    /\ UNCHANGED <<assigned, activeRoles, resource, policies>>

SetResourceActive(is_active) ==
    /\ resource' = [resource EXCEPT !.is_active = is_active]
    /\ UNCHANGED <<assigned, activeRoles, activeActions, policies>>

\* update_resource refuses to give up the owner under an own policy, but
\* seed_access_control does not, and a race defeats the refusal: see the run
\* policy_own_race of AccessPolicies.
SetHasOwner(has_owner) ==
    /\ resource' = [resource EXCEPT !.has_owner = has_owner]
    /\ UNCHANGED <<assigned, activeRoles, activeActions, policies>>

\* create_policy and update_policy, the policy that update_policy moves to or
\* from another resource included.  At the COMMIT an own policy may find the
\* owner given up, by the same race.
SetPolicy(x, a, row) ==
    /\ policies' = [policies EXCEPT ![<<x, a>>] = row]
    /\ UNCHANGED <<assigned, activeRoles, activeActions, resource>>

\* update_policy with another role or action, whose key must be free
MovePolicy(k, l, row) ==
    /\ policies[l] = NoPolicy
    /\ policies' = [policies EXCEPT ![k] = NoPolicy, ![l] = row]
    /\ UNCHANGED <<assigned, activeRoles, activeActions, resource>>

DeactivatePolicy(x, a) ==
    /\ policies' = [policies EXCEPT ![<<x, a>>].is_active = FALSE]
    /\ UNCHANGED <<assigned, activeRoles, activeActions, resource>>

\* What an administrator does to let users do less.
Withdraw ==
    \/ \E u \in Users, x \in Roles : RevokeRole(u, x)
    \/ \E x \in Roles : DeactivateRole(x)
    \/ \E a \in Actions : DeactivateAction(a)
    \/ SetResourceActive(FALSE)
    \/ \E x \in Roles, a \in Actions : DeactivatePolicy(x, a)

\* And to let them do more.
Extend ==
    \/ \E u \in Users, x \in Roles : AssignRole(u, x)
    \/ \E x \in Roles : ActivateRole(x)
    \/ \E a \in Actions : ActivateAction(a)
    \/ SetResourceActive(TRUE)

EditCatalogue ==
    \/ Withdraw
    \/ Extend
    \/ \E b \in BOOLEAN : SetHasOwner(b)
    \/ \E x \in Roles, a \in Actions, row \in PolicyRow : SetPolicy(x, a, row)
    \/ \E k, l \in Roles \X Actions, row \in PolicyRow : MovePolicy(k, l, row)

CatalogueSpec == CatalogueInit /\ [][EditCatalogue]_catalogue

-----------------------------------------------------------------------------
(* Properties.                                                             *)

\* Withdrawing a role, a policy, an action or the resource never widens what
\* anyone may do, whatever other roles the user has: the strongest scope of
\* fewer policies is no stronger.
WithdrawalNeverGrants ==
    [][Withdraw => \A u \in Users, a \in Actions :
         Weight[EffectiveScope(u, a)'] <= Weight[EffectiveScope(u, a)]]_catalogue

\* And another role, even one whose policy says "none", never narrows it.
ExtensionNeverDenies ==
    [][Extend => \A u \in Users, a \in Actions :
         Weight[EffectiveScope(u, a)'] >= Weight[EffectiveScope(u, a)]]_catalogue

\* Deny by default: who has a scope has an assigned active role with an active
\* policy of just this scope for an active action on the active resource.
ScopeIsJustified ==
    \A u \in Users, a \in Actions :
        EffectiveScope(u, a) # "none" =>
            /\ resource.is_active /\ a \in activeActions
            /\ \E x \in activeRoles :
                  /\ <<u, x>> \in assigned
                  /\ policies[<<x, a>>] = [scope |-> EffectiveScope(u, a), is_active |-> TRUE]
=============================================================================
