------------------------- MODULE MCRoleAssignments -------------------------
EXTENDS RoleAssignments, TLC

Symmetry == Permutations(Users) \cup Permutations(AssignmentIds)
              \cup Permutations(Workers) \cup Permutations(OtherCodes)

\* A bound of the races: nobody assigns a role to himself, and only
\* create_initial_admin gives the administrator's.
RacesBound ==
    \A w \in Workers : pc[w] = "assign_role" =>
        job[w].caller # job[w].user /\ job[w].role # AdminRole

RacesSpec == Init /\ [][Next /\ RacesBound']_vars

\* create_initial_admin has run once for each account: a state of Spec from
\* which administrators may assign roles to each other at once.
Administrators ==
    LET id == CHOOSE f \in [Users -> AssignmentIds] :
                \A u, v \in Users : f[u] = f[v] => u = v IN
    /\ Seeded
    /\ users = [u \in Users |-> "usable"]
    /\ assignments = [a \in AssignmentIds |->
                        IF \E u \in Users : id[u] = a
                        THEN Assignment(CHOOSE u \in Users : id[u] = a, AdminRole, NULL)
                        ELSE NULL]

\* A bound: each administrator assigns and revokes roles of the other.
OnOthers ==
    \A w \in Workers : job[w] # NULL =>
        (job[w].role # NULL => job[w].caller # job[w].user)

AdministratorsSpec ==
    Administrators /\ [][Next /\ OnOthers']_vars /\ Fairness
=============================================================================
