-------------------------- MODULE MCAdminRequests --------------------------
EXTENDS AdminRequests, TLC

CONSTANTS r1

\* POST /access/policies and the state endpoints
MCRequired == [post |-> <<"create", "manage">>, state |-> <<"manage">>]

\* Bound: of the roles only r1 is ever given a policy for "create".
OneRoleCreates ==
    \A x \in Roles \ {r1} : policies[<<x, "create">>] = NoPolicy
=============================================================================
