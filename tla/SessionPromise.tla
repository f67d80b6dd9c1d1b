--------------------------- MODULE SessionPromise ---------------------------
(***************************************************************************)
(* What the auth service promises its clients about sessions, with no      *)
(* transaction, lock, clock or retry in sight: a session is opened for an  *)
(* account that is not closed, one refresh token at a time can be          *)
(* exchanged for the next, an ended session stays ended, and closing an    *)
(* account ends all its sessions in the same step.                         *)
(***************************************************************************)
CONSTANTS Users, SessionIds, Jtis, NULL

VARIABLES
    closed,   \* accounts that were deleted
    owner,    \* the account of each session, NULL before it is opened
    current,  \* the refresh token of each session that may be exchanged
    issued,   \* every token ever handed out
    ended     \* sessions that were revoked

vars == <<closed, owner, current, issued, ended>>

SessionsOf(u) == {s \in SessionIds : owner[s] = u}

Init ==
    /\ closed = {}
    /\ owner = [s \in SessionIds |-> NULL]
    /\ current = [s \in SessionIds |-> NULL]
    /\ issued = {}
    /\ ended = {}

Issue(s, j) ==
    /\ j \notin issued
    /\ issued' = issued \cup {j}
    /\ current' = [current EXCEPT ![s] = j]

Open(u, s, j) ==
    /\ u \notin closed
    /\ owner[s] = NULL
    /\ owner' = [owner EXCEPT ![s] = u]
    /\ Issue(s, j)
    /\ UNCHANGED <<closed, ended>>

Exchange(s, j) ==
    /\ owner[s] # NULL /\ owner[s] \notin closed
    /\ s \notin ended
    /\ Issue(s, j)
    /\ UNCHANGED <<closed, owner, ended>>

\* logout, logout-all, or a used refresh token shown again
End(u, S) ==
    /\ S \subseteq SessionsOf(u)
    /\ ended' = ended \cup S
    /\ UNCHANGED <<closed, owner, current, issued>>

Close(u) ==
    /\ closed' = closed \cup {u}
    /\ ended' = ended \cup SessionsOf(u)
    /\ UNCHANGED <<owner, current, issued>>

Next ==
    \/ \E u \in Users, s \in SessionIds, j \in Jtis : Open(u, s, j)
    \/ \E s \in SessionIds, j \in Jtis : Exchange(s, j)
    \/ \E u \in Users, S \in SUBSET SessionIds : End(u, S)
    \/ \E u \in Users : Close(u)

Spec == Init /\ [][Next]_vars
=============================================================================
