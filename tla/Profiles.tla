------------------------------ MODULE Profiles ------------------------------
(***************************************************************************)
(* GET and PATCH /profile/me.  Authentication loads the user, and the user *)
(* object caches its profile once that has been read.  PATCH locks and     *)
(* reads the profile again, writes back every name of it, and answers from *)
(* the user object when that has been refreshed.  The account may be       *)
(* deleted at any moment; AuthSessions has the details.  The roles in the  *)
(* answer are a query of their own and are left out, and so are requests   *)
(* that are refused, which change nothing.                                 *)
(***************************************************************************)

CONSTANTS
    Users,
    NameFields,  \* first_name, last_name, middle_name
    Names,
    Workers,     \* threads of the server
    NULL

Profile == [NameFields -> Names]

\* The user object of a request, with the names that a PATCH carries.
Request == [user      : Users,
            is_active : BOOLEAN,
            profile   : Profile \cup {NULL},   \* cached, or not read yet
            changes   : UNION {[F -> Names] : F \in SUBSET NameFields}]

ASSUME NullAssumption == NULL \notin Workers \cup Profile \cup Request
ASSUME FieldsAssumption == "is_active" \notin NameFields

VARIABLES
    usable,    \* the accounts that are active and not deleted
    profiles,  \* the committed profiles
    lock,      \* the worker that locked a profile FOR UPDATE
    pc,
    req,
    draft,     \* the locked profile with the names of the request put into it
    since      \* history: fields that others have changed since this COMMIT

vars == <<usable, profiles, lock, pc, req, draft, since>>

\* The types; who saves a profile has it locked and nobody else has.
TypeOK ==
    /\ usable \in SUBSET Users
    /\ profiles \in [Users -> Profile]
    /\ lock \in [Users -> Workers \cup {NULL}]
    /\ pc \in [Workers -> {"idle", "patching", "saving", "refreshing", "showing"}]
    /\ req \in [Workers -> Request \cup {NULL}]
    /\ draft \in [Workers -> Profile \cup {NULL}]
    /\ since \in [Workers -> SUBSET (NameFields \cup {"is_active"})]
    /\ \A w \in Workers : pc[w] = "idle" <=> req[w] = NULL
    /\ \A u \in Users, w \in Workers :
          lock[u] = w <=> pc[w] = "saving" /\ req[w].user = u

Init ==
    /\ usable = Users
    /\ profiles \in [Users -> Profile]
    /\ lock = [u \in Users |-> NULL]
    /\ pc = [w \in Workers |-> "idle"]
    /\ req = [w \in Workers |-> NULL]
    /\ draft = [w \in Workers |-> NULL]
    /\ since = [w \in Workers |-> {}]

-----------------------------------------------------------------------------
Goto(w, stage, r, d) ==
    /\ pc' = [pc EXCEPT ![w] = stage]
    /\ req' = [req EXCEPT ![w] = r]
    /\ draft' = [draft EXCEPT ![w] = d]

\* What happens to user u is news for the others that have committed already.
Tell(w, u, fields) ==
    since' = [v \in Workers |->
                IF v = w THEN {}
                ELSE IF pc[v] \in {"refreshing", "showing"} /\ req[v].user = u
                     THEN since[v] \cup fields
                     ELSE since[v]]

BeginGet(w, u) ==
    /\ pc[w] = "idle"
    /\ u \in usable
    /\ Goto(w, "showing", [user |-> u, is_active |-> TRUE, profile |-> NULL,
                           changes |-> [f \in {} |-> NULL]], NULL)
    /\ UNCHANGED <<usable, profiles, lock, since>>

\* update_profile(profile=request.user.profile, ...) reads the profile.
BeginPatch(w, u, changes) ==
    /\ pc[w] = "idle"
    /\ u \in usable
    /\ Goto(w, "patching", [user |-> u, is_active |-> TRUE, profile |-> profiles[u],
                            changes |-> changes], NULL)
    /\ UNCHANGED <<usable, profiles, lock, since>>

Patched(profile, changes) ==
    [f \in NameFields |-> IF f \in DOMAIN changes THEN changes[f] ELSE profile[f]]

\* Mutant: the names are put into the profile that the view has passed.
LockProfile_Passed(w) ==
    LET u == req[w].user IN
    /\ pc[w] = "patching"
    /\ lock[u] = NULL
    /\ lock' = [lock EXCEPT ![u] = w]
    /\ Goto(w, "saving", req[w], Patched(req[w].profile, req[w].changes))
    /\ UNCHANGED <<usable, profiles, since>>

\* Mutant: the profile is read without select_for_update().
LockProfile_Unlocked(w) ==
    /\ pc[w] = "patching"
    /\ Goto(w, "saving", req[w], Patched(profiles[req[w].user], req[w].changes))
    /\ UNCHANGED <<usable, profiles, lock, since>>

LockProfile(w) ==
    LET u == req[w].user IN
    /\ pc[w] = "patching"
    /\ lock[u] = NULL
    /\ lock' = [lock EXCEPT ![u] = w]
    /\ Goto(w, "saving", req[w], Patched(profiles[u], req[w].changes))
    /\ UNCHANGED <<usable, profiles, since>>

\* save() of every column, and COMMIT
SaveProfile(w) ==
    LET u == req[w].user IN
    /\ pc[w] = "saving"
    /\ profiles' = [profiles EXCEPT ![u] = draft[w]]
    /\ lock' = [lock EXCEPT ![u] = NULL]
    /\ Tell(w, u, DOMAIN req[w].changes)
    /\ Goto(w, "refreshing", req[w], NULL)
    /\ UNCHANGED usable

\* Mutant: only the row of the user is read again.
Refresh_KeepsProfile(w) ==
    /\ pc[w] = "refreshing"
    /\ Goto(w, "showing", [req[w] EXCEPT !.is_active = req[w].user \in usable], NULL)
    /\ UNCHANGED <<usable, profiles, lock, since>>

\* refresh_from_db() reads the user and forgets what it had cached.
Refresh(w) ==
    /\ pc[w] = "refreshing"
    /\ Goto(w, "showing", [req[w] EXCEPT !.is_active = req[w].user \in usable,
                                         !.profile = NULL], NULL)
    /\ UNCHANGED <<usable, profiles, lock, since>>

\* _response_data: user.profile is read unless it is cached.
ShownNames(r) == IF r.profile = NULL THEN profiles[r.user] ELSE r.profile

Show(w) ==
    /\ pc[w] = "showing"
    /\ Goto(w, "idle", NULL, NULL)
    /\ since' = [since EXCEPT ![w] = {}]
    /\ UNCHANGED <<usable, profiles, lock>>

\* soft_delete_account, by a request that is not modelled here
DeleteAccount(u) ==
    /\ usable' = usable \ {u}
    /\ Tell(NULL, u, {"is_active"})
    /\ UNCHANGED <<profiles, lock, pc, req, draft>>

\* The process of the worker dies, or its connection does.
Crash(w) ==
    /\ pc[w] # "idle"
    /\ Goto(w, "idle", NULL, NULL)
    /\ lock' = [u \in Users |-> IF lock[u] = w THEN NULL ELSE lock[u]]
    /\ since' = [since EXCEPT ![w] = {}]
    /\ UNCHANGED <<usable, profiles>>

Patch(w) == LockProfile(w) \/ SaveProfile(w) \/ Refresh(w)

Next ==
    \/ \E w \in Workers, u \in Users :
          \/ BeginGet(w, u)
          \/ \E F \in SUBSET NameFields : \E changes \in [F -> Names] :
                BeginPatch(w, u, changes)
    \/ \E w \in Workers : Patch(w) \/ Show(w) \/ Crash(w)
    \/ \E u \in Users : DeleteAccount(u)

Spec == Init /\ [][Next]_vars

-----------------------------------------------------------------------------
(* Properties.                                                             *)

\* Two tabs of one user edit different names: whatever the order, a COMMIT
\* changes no name that its request did not carry, although save() writes all.
NamesAreNotLost ==
    [][\A w \in Workers, u \in Users :
         LET mine == pc[w] = "saving" /\ pc'[w] = "refreshing" /\ req[w].user = u IN
         mine => \A f \in NameFields :
            profiles'[u][f] = IF f \in DOMAIN req[w].changes THEN req[w].changes[f]
                                                             ELSE profiles[u][f]]_vars

\* The answer of a PATCH is of the time after it: each name it carried is
\* shown as it was sent, unless another PATCH has changed it since, and the
\* account is active only if the deletion has not come before.
PatchIsShown ==
    \A w \in Workers :
        pc[w] = "showing" /\ DOMAIN req[w].changes # {} =>
            /\ \A f \in DOMAIN req[w].changes \ since[w] :
                  ShownNames(req[w])[f] = req[w].changes[f]
            /\ req[w].is_active => req[w].user \in usable \/ "is_active" \in since[w]

-----------------------------------------------------------------------------
(* Why: what a PATCH relies on at each stage.  Whoever is about to save    *)
(* still holds the committed profile with its own names put into it; who   *)
(* has saved finds there the names it sent, but for the news in since.     *)

StageOK(w) ==
    LET r == req[w] IN
    /\ pc[w] = "saving" => draft[w] = Patched(profiles[r.user], r.changes)
    /\ pc[w] = "showing" => r.profile = NULL
    /\ pc[w] \in {"refreshing", "showing"} =>
          \A f \in DOMAIN r.changes \ since[w] : profiles[r.user][f] = r.changes[f]
    /\ pc[w] = "showing" /\ DOMAIN r.changes # {} /\ r.is_active =>
          r.user \in usable \/ "is_active" \in since[w]

PatchInv == TypeOK /\ \A w \in Workers : StageOK(w)
=============================================================================
