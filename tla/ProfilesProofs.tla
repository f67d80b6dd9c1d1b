--------------------------- MODULE ProfilesProofs ---------------------------
(***************************************************************************)
(* Proofs about profile updates for any number of users, names and         *)
(* concurrent requests: PatchInv is an inductive invariant.                *)
(***************************************************************************)
EXTENDS Profiles, TLAPS

Changes == UNION {[F -> Names] : F \in SUBSET NameFields}

\* The names of a request are names of the profile.
LEMMA ChangesType ==
    /\ \A c \in Changes : DOMAIN c \in SUBSET NameFields /\ \A f \in DOMAIN c : c[f] \in Names
    /\ \A F \in SUBSET NameFields : [F -> Names] \subseteq Changes
  BY DEF Changes

LEMMA RequestType ==
    /\ \A r \in Request : /\ r.user \in Users /\ r.is_active \in BOOLEAN
                          /\ r.profile \in Profile \cup {NULL}
                          /\ r.changes \in Changes
    /\ \A u \in Users, b \in BOOLEAN, p \in Profile \cup {NULL}, c \in Changes :
          [user |-> u, is_active |-> b, profile |-> p, changes |-> c] \in Request
  BY DEF Request, Changes

LEMMA NullIsNoRow == NULL \notin Workers /\ NULL \notin Profile /\ NULL \notin Request
  BY NullAssumption

\* Putting names into a profile makes a profile.
LEMMA PatchedType ==
    ASSUME NEW p \in Profile, NEW c \in Changes
    PROVE  /\ Patched(p, c) \in Profile
           /\ \A f \in NameFields : Patched(p, c)[f] = IF f \in DOMAIN c THEN c[f] ELSE p[f]
  BY ChangesType DEF Patched, Profile

\* The names of the record that a stage puts into req.
LEMMA GotoEffect ==
    ASSUME TypeOK, NEW w \in Workers,
           NEW stage \in {"idle", "patching", "saving", "refreshing", "showing"},
           NEW r \in Request \cup {NULL}, NEW d \in Profile \cup {NULL},
           Goto(w, stage, r, d)
    PROVE  /\ pc' \in [Workers -> {"idle", "patching", "saving", "refreshing", "showing"}]
           /\ req' \in [Workers -> Request \cup {NULL}]
           /\ draft' \in [Workers -> Profile \cup {NULL}]
           /\ pc'[w] = stage /\ req'[w] = r /\ draft'[w] = d
           /\ \A v \in Workers \ {w} :
                 pc'[v] = pc[v] /\ req'[v] = req[v] /\ draft'[v] = draft[v]
  BY DEF TypeOK, Goto

LEMMA InitPatchInv == Init => PatchInv
  BY NullIsNoRow DEF Init, PatchInv, TypeOK, StageOK

\* A step that moves w from one stage to another without a lock.
LEMMA PrivateStep ==
    ASSUME PatchInv, NEW w \in Workers,
           NEW stage \in {"idle", "patching", "refreshing", "showing"},
           NEW r \in Request \cup {NULL}, Goto(w, stage, r, NULL),
           stage = "idle" <=> r = NULL,
           pc[w] # "saving",
           UNCHANGED <<usable, profiles, lock>>,
           since' = since \/ since' = [since EXCEPT ![w] = {}],
           StageOK(w)'
    PROVE  PatchInv'
<1>0. /\ TypeOK
      /\ pc' \in [Workers -> {"idle", "patching", "saving", "refreshing", "showing"}]
      /\ req' \in [Workers -> Request \cup {NULL}]
      /\ draft' \in [Workers -> Profile \cup {NULL}]
      /\ pc'[w] = stage /\ req'[w] = r
      /\ \A v \in Workers \ {w} :
            pc'[v] = pc[v] /\ req'[v] = req[v] /\ draft'[v] = draft[v]
  <2>1. TypeOK /\ NULL \in Profile \cup {NULL}
    BY DEF PatchInv
  <2> QED
    BY <2>1, GotoEffect
<1>1. TypeOK'
  <2>1. \A v \in Workers : pc'[v] = "idle" <=> req'[v] = NULL
    BY <1>0 DEF TypeOK
  <2>2. \A u \in Users, v \in Workers :
           lock'[u] = v <=> pc'[v] = "saving" /\ req'[v].user = u
    BY <1>0 DEF TypeOK
  <2> QED
    BY <1>0, <2>1, <2>2 DEF TypeOK
<1>2. ASSUME NEW v \in Workers \ {w} PROVE StageOK(v)'
  <2>1. since'[v] = since[v]
    BY <1>0 DEF TypeOK
  <2> QED
    BY <1>0, <2>1 DEF PatchInv, StageOK
<1> QED
  BY <1>1, <1>2 DEF PatchInv

LEMMA BeginGetInv ==
    ASSUME PatchInv, NEW w \in Workers, NEW u \in Users, BeginGet(w, u)
    PROVE  PatchInv'
<1> DEFINE r == [user |-> u, is_active |-> TRUE, profile |-> NULL,
                 changes |-> [f \in {} |-> NULL]]
<1>1. [f \in {} |-> NULL] \in [{} -> Names]
  OBVIOUS
<1>2. r \in Request /\ r.profile = NULL /\ DOMAIN r.changes = {} /\ r # NULL
  <2>1. [f \in {} |-> NULL] \in Changes
    BY <1>1, ChangesType
  <2>2. r \in Request
    BY <2>1 DEF Request, Changes
  <2> QED
    BY <2>2, NullIsNoRow
<1>3. /\ Goto(w, "showing", r, NULL) /\ pc[w] = "idle"
      /\ UNCHANGED <<usable, profiles, lock, since>>
  BY DEF BeginGet
<1> HIDE DEF r
<1>4. StageOK(w)'
  BY <1>2, <1>3, GotoEffect DEF PatchInv, StageOK
<1> QED
  BY <1>2, <1>3, <1>4, PrivateStep

LEMMA BeginPatchInv ==
    ASSUME PatchInv, NEW w \in Workers, NEW u \in Users,
           NEW F \in SUBSET NameFields, NEW changes \in [F -> Names],
           BeginPatch(w, u, changes)
    PROVE  PatchInv'
<1> DEFINE r == [user |-> u, is_active |-> TRUE, profile |-> profiles[u],
                 changes |-> changes]
<1>1. r \in Request /\ r # NULL
  <2>1. changes \in Changes
    BY ChangesType
  <2>2. r \in Request
    BY <2>1 DEF Request, Changes, PatchInv, TypeOK
  <2> QED
    BY <2>2, NullIsNoRow
<1>2. /\ Goto(w, "patching", r, NULL) /\ pc[w] = "idle"
      /\ UNCHANGED <<usable, profiles, lock, since>>
  BY DEF BeginPatch
<1> HIDE DEF r
<1>3. StageOK(w)'
  BY <1>1, <1>2, GotoEffect DEF PatchInv, StageOK
<1> QED
  BY <1>1, <1>2, <1>3, PrivateStep

LEMMA RefreshInv ==
    ASSUME PatchInv, NEW w \in Workers, Refresh(w)
    PROVE  PatchInv'
<1>1. /\ TypeOK /\ StageOK(w) /\ pc[w] = "refreshing" /\ req[w] \in Request
  BY DEF PatchInv, TypeOK, Refresh
<1>2. PICK old \in Request, b \in BOOLEAN : old = req[w] /\ b = (old.user \in usable)
  <2>1. (req[w].user \in usable) \in BOOLEAN
    OBVIOUS
  <2> QED
    BY <1>1, <2>1, Zenon
<1> DEFINE r == [old EXCEPT !.is_active = b, !.profile = NULL]
<1>3. /\ Goto(w, "showing", r, NULL)
      /\ UNCHANGED <<usable, profiles, lock, since>>
  BY <1>2 DEF Refresh
<1>4. /\ r \in Request /\ r # NULL
      /\ r.user = old.user /\ r.profile = NULL /\ r.changes = old.changes
      /\ r.is_active = b
  <2> DEFINE Fields == [user : Users, is_active : BOOLEAN, profile : Profile \cup {NULL},
                        changes : Changes]
  <2>1. old \in Fields
    BY DEF Request, Changes
  <2>2. r \in Fields
    BY <2>1
  <2>3. r \in Request
    BY <2>2 DEF Request, Changes
  <2>4. r.user = old.user /\ r.profile = NULL /\ r.changes = old.changes /\ r.is_active = b
    BY <2>1
  <2> QED
    BY <2>3, <2>4, NullIsNoRow
<1> HIDE DEF r
<1>5. pc'[w] = "showing" /\ req'[w] = r
  BY <1>1, <1>3 DEF Goto, TypeOK
<1>6. r.is_active => req[w].user \in usable
  BY <1>2, <1>4
<1>7. StageOK(w)'
  BY <1>1, <1>2, <1>3, <1>4, <1>5, <1>6 DEF StageOK
<1> QED
  BY <1>1, <1>3, <1>4, <1>7, PrivateStep

LEMMA ShowInv ==
    ASSUME PatchInv, NEW w \in Workers, Show(w)
    PROVE  PatchInv'
<1>1. /\ Goto(w, "idle", NULL, NULL) /\ pc[w] = "showing"
      /\ UNCHANGED <<usable, profiles, lock>>
      /\ since' = [since EXCEPT ![w] = {}]
  BY DEF Show
<1>2. StageOK(w)'
  BY <1>1, GotoEffect DEF PatchInv, StageOK
<1> QED
  BY <1>1, <1>2, PrivateStep

LEMMA LockProfileInv ==
    ASSUME PatchInv, NEW w \in Workers, LockProfile(w)
    PROVE  PatchInv'
<1> DEFINE r == req[w]
           u == r.user
           d == Patched(profiles[u], r.changes)
<1>1. /\ TypeOK /\ pc[w] = "patching" /\ lock[u] = NULL
      /\ lock' = [lock EXCEPT ![u] = w]
      /\ Goto(w, "saving", r, d)
      /\ UNCHANGED <<usable, profiles, since>>
  BY DEF PatchInv, LockProfile
<1>2. r \in Request /\ u \in Users /\ d \in Profile
  BY <1>1, RequestType, PatchedType DEF TypeOK
<1> HIDE DEF d
<1>3. /\ pc' \in [Workers -> {"idle", "patching", "saving", "refreshing", "showing"}]
      /\ req' \in [Workers -> Request \cup {NULL}]
      /\ draft' \in [Workers -> Profile \cup {NULL}]
      /\ pc'[w] = "saving" /\ req'[w] = r /\ draft'[w] = d
      /\ \A v \in Workers \ {w} : pc'[v] = pc[v] /\ req'[v] = req[v] /\ draft'[v] = draft[v]
  BY <1>1, <1>2, GotoEffect
<1>4. TypeOK'
  <2>1. \A v \in Workers : pc'[v] = "idle" <=> req'[v] = NULL
    BY <1>1, <1>2, <1>3, NullIsNoRow DEF TypeOK
  <2>2. ASSUME NEW x \in Users, NEW v \in Workers
        PROVE  lock'[x] = v <=> pc'[v] = "saving" /\ req'[v].user = x
    BY <1>1, <1>2, <1>3, NullIsNoRow DEF TypeOK
  <2> QED
    BY <1>1, <1>2, <1>3, <2>1, <2>2 DEF TypeOK
<1>5. ASSUME NEW v \in Workers \ {w} PROVE StageOK(v)'
  BY <1>1, <1>3 DEF PatchInv, StageOK
<1>6. StageOK(w)'
  BY <1>1, <1>3 DEF StageOK, d
<1> QED
  BY <1>4, <1>5, <1>6 DEF PatchInv

\* Whoever saves changes nobody else's names: the profile is the locked one
\* but for the names of the request.
LEMMA SaveEffect ==
    ASSUME PatchInv, NEW w \in Workers, SaveProfile(w)
    PROVE  LET u == req[w].user
               c == req[w].changes
           IN  /\ u \in Users /\ lock[u] = w /\ DOMAIN c \in SUBSET NameFields
               /\ profiles' \in [Users -> Profile]
               /\ \A x \in Users \ {u} : profiles'[x] = profiles[x]
               /\ \A f \in NameFields :
                     profiles'[u][f] = IF f \in DOMAIN c THEN c[f] ELSE profiles[u][f]
<1> DEFINE u == req[w].user
           c == req[w].changes
<1>1. /\ TypeOK /\ StageOK(w) /\ pc[w] = "saving" /\ req[w] \in Request
      /\ profiles' = [profiles EXCEPT ![u] = draft[w]]
  BY DEF PatchInv, TypeOK, SaveProfile
<1>2. u \in Users /\ c \in Changes /\ profiles[u] \in Profile
  BY <1>1, RequestType DEF TypeOK
<1>3. draft[w] = Patched(profiles[u], c)
  BY <1>1 DEF StageOK
<1>4. /\ draft[w] \in Profile
      /\ \A f \in NameFields : draft[w][f] = IF f \in DOMAIN c THEN c[f] ELSE profiles[u][f]
  BY <1>2, <1>3, PatchedType
<1>5. lock[u] = w /\ DOMAIN c \in SUBSET NameFields
  BY <1>1, <1>2, ChangesType DEF TypeOK
<1> QED
  BY <1>1, <1>2, <1>4, <1>5 DEF TypeOK

LEMMA SaveProfileInv ==
    ASSUME PatchInv, NEW w \in Workers, SaveProfile(w)
    PROVE  PatchInv'
<1> DEFINE r == req[w]
           u == r.user
           F == DOMAIN r.changes
<1>1. /\ TypeOK /\ pc[w] = "saving" /\ r \in Request
      /\ lock' = [lock EXCEPT ![u] = NULL]
      /\ Goto(w, "refreshing", r, NULL)
      /\ Tell(w, u, F)
      /\ usable' = usable
  BY DEF PatchInv, SaveProfile, TypeOK
<1>2. /\ u \in Users /\ lock[u] = w /\ F \in SUBSET NameFields
      /\ profiles' \in [Users -> Profile]
      /\ \A x \in Users \ {u} : profiles'[x] = profiles[x]
      /\ \A f \in NameFields :
            profiles'[u][f] = IF f \in F THEN r.changes[f] ELSE profiles[u][f]
  BY SaveEffect
<1>3. /\ pc' \in [Workers -> {"idle", "patching", "saving", "refreshing", "showing"}]
      /\ req' \in [Workers -> Request \cup {NULL}]
      /\ draft' \in [Workers -> Profile \cup {NULL}]
      /\ pc'[w] = "refreshing" /\ req'[w] = r
      /\ \A v \in Workers \ {w} : pc'[v] = pc[v] /\ req'[v] = req[v] /\ draft'[v] = draft[v]
  BY <1>1, GotoEffect
<1>4. /\ since' \in [Workers -> SUBSET (NameFields \cup {"is_active"})]
      /\ since'[w] = {}
      /\ \A v \in Workers \ {w} :
            since'[v] = IF pc[v] \in {"refreshing", "showing"} /\ req[v].user = u
                        THEN since[v] \cup F ELSE since[v]
  BY <1>1, <1>2 DEF Tell, TypeOK
<1>5. TypeOK'
  <2>1. \A v \in Workers : pc'[v] = "idle" <=> req'[v] = NULL
    BY <1>1, <1>3, NullIsNoRow DEF TypeOK
  <2>2. ASSUME NEW x \in Users, NEW v \in Workers
        PROVE  lock'[x] = v <=> pc'[v] = "saving" /\ req'[v].user = x
    BY <1>1, <1>2, <1>3, NullIsNoRow DEF TypeOK
  <2> QED
    BY <1>1, <1>2, <1>3, <1>4, <2>1, <2>2 DEF TypeOK
<1>6. ASSUME NEW v \in Workers \ {w} PROVE StageOK(v)'
  <2>1. StageOK(v) /\ pc'[v] = pc[v] /\ req'[v] = req[v] /\ draft'[v] = draft[v]
    BY <1>3 DEF PatchInv
  <2>2. pc[v] \in {"saving", "refreshing", "showing"} =>
           /\ req[v].user \in Users
           /\ DOMAIN req[v].changes \in SUBSET NameFields
    BY <1>1, RequestType, ChangesType DEF TypeOK
  <2>3. CASE req[v].user # u
    BY <1>1, <1>2, <1>4, <2>1, <2>2, <2>3 DEF StageOK
  <2>4. CASE req[v].user = u
    <3>1. pc[v] # "saving"
      BY <1>1, <1>2, <2>4 DEF TypeOK
    <3> QED
      BY <1>1, <1>2, <1>4, <2>1, <2>2, <2>4, <3>1 DEF StageOK
  <2> QED
    BY <2>3, <2>4
<1>7. StageOK(w)'
  BY <1>2, <1>3, <1>4 DEF StageOK
<1> QED
  BY <1>5, <1>6, <1>7 DEF PatchInv

LEMMA DeleteAccountInv ==
    ASSUME PatchInv, NEW u \in Users, DeleteAccount(u)
    PROVE  PatchInv'
<1>1. /\ TypeOK /\ usable' = usable \ {u}
      /\ Tell(NULL, u, {"is_active"})
      /\ UNCHANGED <<profiles, lock, pc, req, draft>>
  BY DEF PatchInv, DeleteAccount
<1>2. /\ since' \in [Workers -> SUBSET (NameFields \cup {"is_active"})]
      /\ \A v \in Workers :
            since'[v] = IF pc[v] \in {"refreshing", "showing"} /\ req[v].user = u
                        THEN since[v] \cup {"is_active"} ELSE since[v]
  BY <1>1, NullIsNoRow DEF Tell, TypeOK
<1>3. TypeOK'
  BY <1>1, <1>2 DEF TypeOK
<1>4. ASSUME NEW v \in Workers PROVE StageOK(v)'
  BY <1>1, <1>2 DEF PatchInv, StageOK
<1> QED
  BY <1>3, <1>4 DEF PatchInv

LEMMA CrashInv ==
    ASSUME PatchInv, NEW w \in Workers, Crash(w)
    PROVE  PatchInv'
<1>1. /\ TypeOK /\ Goto(w, "idle", NULL, NULL)
      /\ lock' = [u \in Users |-> IF lock[u] = w THEN NULL ELSE lock[u]]
      /\ since' = [since EXCEPT ![w] = {}]
      /\ UNCHANGED <<usable, profiles>>
  BY DEF PatchInv, Crash
<1>2. /\ pc' \in [Workers -> {"idle", "patching", "saving", "refreshing", "showing"}]
      /\ req' \in [Workers -> Request \cup {NULL}]
      /\ draft' \in [Workers -> Profile \cup {NULL}]
      /\ pc'[w] = "idle" /\ req'[w] = NULL
      /\ \A v \in Workers \ {w} : pc'[v] = pc[v] /\ req'[v] = req[v] /\ draft'[v] = draft[v]
  BY <1>1, GotoEffect
<1>3. TypeOK'
  <2>1. \A v \in Workers : pc'[v] = "idle" <=> req'[v] = NULL
    BY <1>1, <1>2 DEF TypeOK
  <2>2. ASSUME NEW x \in Users, NEW v \in Workers
        PROVE  lock'[x] = v <=> pc'[v] = "saving" /\ req'[v].user = x
    BY <1>1, <1>2, NullIsNoRow DEF TypeOK
  <2> QED
    BY <1>1, <1>2, <2>1, <2>2 DEF TypeOK
<1>4. ASSUME NEW v \in Workers PROVE StageOK(v)'
  BY <1>1, <1>2 DEF PatchInv, TypeOK, StageOK
<1> QED
  BY <1>3, <1>4 DEF PatchInv

-----------------------------------------------------------------------------
(* The inductive invariant.                                                *)

LEMMA InductionStep == PatchInv /\ [Next]_vars => PatchInv'
<1> SUFFICES ASSUME PatchInv, [Next]_vars PROVE PatchInv'
  OBVIOUS
<1>1. CASE \E w \in Workers, u \in Users :
              \/ BeginGet(w, u)
              \/ \E F \in SUBSET NameFields : \E changes \in [F -> Names] :
                    BeginPatch(w, u, changes)
  BY <1>1, BeginGetInv, BeginPatchInv
<1>2. ASSUME NEW w \in Workers, Patch(w) \/ Show(w) \/ Crash(w) PROVE PatchInv'
  BY <1>2, LockProfileInv, SaveProfileInv, RefreshInv, ShowInv, CrashInv DEF Patch
<1>3. ASSUME NEW u \in Users, DeleteAccount(u) PROVE PatchInv'
  BY <1>3, DeleteAccountInv
<1>4. CASE UNCHANGED vars
  BY <1>4 DEF vars, PatchInv, TypeOK, StageOK
<1> QED
  BY <1>1, <1>2, <1>3, <1>4 DEF Next

\* What a PATCH relies on from the lock to the answer.
THEOREM PatchInvariance == Spec => []PatchInv
  BY InitPatchInv, InductionStep, PTL DEF Spec

\* The types, and that a profile is locked by the one who saves it.
THEOREM TypeCorrect == Spec => []TypeOK
<1>1. PatchInv => TypeOK
  BY DEF PatchInv
<1> QED
  BY <1>1, PatchInvariance, PTL

\* The answer shows what was sent, but for what came after the COMMIT.
THEOREM AnswerIsCurrent == Spec => []PatchIsShown
<1>1. ASSUME PatchInv, NEW w \in Workers, pc[w] = "showing", DOMAIN req[w].changes # {}
      PROVE  /\ \A f \in DOMAIN req[w].changes \ since[w] :
                   ShownNames(req[w])[f] = req[w].changes[f]
             /\ req[w].is_active => req[w].user \in usable \/ "is_active" \in since[w]
  BY <1>1 DEF PatchInv, StageOK, ShownNames
<1>2. PatchInv => PatchIsShown
  BY <1>1 DEF PatchIsShown
<1> QED
  BY <1>2, PatchInvariance, PTL

\* A request goes from saving to refreshing by its COMMIT only.
LEMMA OnlySavingRefreshes ==
    ASSUME PatchInv, [Next]_vars, NEW w \in Workers,
           pc[w] = "saving", pc'[w] = "refreshing"
    PROVE  SaveProfile(w)
<1>1. pc \in [Workers -> {"idle", "patching", "saving", "refreshing", "showing"}]
  BY DEF PatchInv, TypeOK
<1>2. ASSUME NEW v \in Workers, NEW stage, NEW r, NEW d, Goto(v, stage, r, d),
             stage # "refreshing"
      PROVE  FALSE
  BY <1>1, <1>2 DEF Goto
<1>3. ASSUME NEW v \in Workers, NEW u \in Users,
             \/ BeginGet(v, u)
             \/ \E F \in SUBSET NameFields : \E changes \in [F -> Names] :
                   BeginPatch(v, u, changes)
      PROVE  FALSE
  BY <1>2, <1>3 DEF BeginGet, BeginPatch
<1>4. ASSUME NEW v \in Workers, LockProfile(v) \/ Refresh(v) \/ Show(v) \/ Crash(v)
      PROVE  FALSE
  BY <1>2, <1>4 DEF LockProfile, Refresh, Show, Crash
<1>5. ASSUME NEW v \in Workers, SaveProfile(v) PROVE v = w
  BY <1>1, <1>5 DEF SaveProfile, Goto
<1>6. ASSUME NEW u \in Users, DeleteAccount(u) PROVE FALSE
  BY <1>6 DEF DeleteAccount
<1>7. CASE UNCHANGED vars
  BY <1>7 DEF vars
<1> QED
  BY <1>3, <1>4, <1>5, <1>6, <1>7 DEF Next, Patch

\* save() writes every column and still undoes nothing that others have saved.
THEOREM ForeignNamesAreKept == Spec => NamesAreNotLost
<1>1. ASSUME PatchInv, [Next]_vars, NEW w \in Workers, NEW u \in Users,
             pc[w] = "saving", pc'[w] = "refreshing", req[w].user = u,
             NEW f \in NameFields
      PROVE  profiles'[u][f] = IF f \in DOMAIN req[w].changes THEN req[w].changes[f]
                                                              ELSE profiles[u][f]
  <2>1. SaveProfile(w)
    BY <1>1, OnlySavingRefreshes
  <2> QED
    BY <1>1, <2>1, SaveEffect
<1>2. PatchInv /\ [Next]_vars =>
        [\A w \in Workers, u \in Users :
           LET mine == pc[w] = "saving" /\ pc'[w] = "refreshing" /\ req[w].user = u IN
           mine => \A f \in NameFields :
              profiles'[u][f] = IF f \in DOMAIN req[w].changes THEN req[w].changes[f]
                                                               ELSE profiles[u][f]]_vars
  BY <1>1
<1> QED
  BY <1>2, PatchInvariance, PTL DEF Spec, NamesAreNotLost
=============================================================================
