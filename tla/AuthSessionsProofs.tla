------------------------- MODULE AuthSessionsProofs -------------------------
(***************************************************************************)
(* Proofs about AuthSessions for any number of users, sessions, tokens and *)
(* concurrent requests: IndInv is an inductive invariant, and with it type *)
(* correctness, the safety of deletion and the finality of revocation.     *)
(***************************************************************************)
EXTENDS AuthSessions, TLAPS

-----------------------------------------------------------------------------
(* Initial states.                                                         *)

LEMMA NoWritesType ==
    /\ NoWrites \in Writes
    /\ \A u \in Users : NoWrites.users[u] = NULL
    /\ \A s \in SessionIds : NoWrites.sessions[s] = NULL
    /\ \A j \in Jtis : NoWrites.pairs[j] = NULL
BY DEF NoWrites, Writes

LEMMA InitTypeOK == Init => TypeOK
<1> SUFFICES ASSUME Init PROVE TypeOK
  OBVIOUS
<1>1. users \in [Users -> UserRow]
  <2>1. ASSUME NEW h \in {"outdated", "current"}
        PROVE  [is_active |-> TRUE, deleted_at |-> NULL,
                last_login_at |-> NULL, password_hash |-> h] \in UserRow
    BY DEF UserRow
  <2> QED
    BY <2>1 DEF Init
<1>2. now \in 0 .. MaxTime
  BY ClockAssumption DEF Init
<1>3. tx \in [Requests -> Writes]
  BY NoWritesType DEF Init
<1> QED
  BY <1>1, <1>2, <1>3 DEF Init, TypeOK, Stages, Timestamp

LEMMA InitIndInv == Init => IndInv
<1> SUFFICES ASSUME Init PROVE IndInv
  OBVIOUS
<1>1. TypeOK
  BY InitTypeOK
<1>2. ClockOK
  BY NoWritesType DEF Init, ClockOK
<1>3. ReferencesOK
  BY NoWritesType DEF Init, ReferencesOK, HasCaller, Endpoints
<1>4. WritesOK /\ IssuingOK /\ DeletingOK
  BY NoWritesType DEF Init, WritesOK, IssuingOK, DeletingOK
<1>5. DeletedAccountHasNoLiveSession
  BY DEF Init, DeletedAccountHasNoLiveSession
<1> QED
  BY <1>1, <1>2, <1>3, <1>4, <1>5 DEF IndInv

-----------------------------------------------------------------------------
(* What the types say of the rows a step reads.                            *)

LEMMA RowTypes ==
    ASSUME TypeOK
    PROVE  /\ \A s \in SessionIds : sessions[s] # NULL =>
                /\ sessions[s] \in SessionRow
                /\ sessions[s].user \in Users
                /\ sessions[s].created_at \in Nat
           /\ \A q \in Requests, s \in SessionIds : tx[q].sessions[s] # NULL =>
                /\ tx[q].sessions[s] \in SessionRow
                /\ tx[q].sessions[s].user \in Users
                /\ tx[q].sessions[s].created_at \in Nat
           /\ \A q \in Requests, j \in Jtis : tx[q].pairs[j] # NULL =>
                /\ tx[q].pairs[j] \in TokenPair
                /\ tx[q].pairs[j].session \in SessionIds
           /\ \A j \in Jtis : pairs[j] # NULL =>
                /\ pairs[j] \in TokenPair
                /\ pairs[j].user \in Users
                /\ pairs[j].session \in SessionIds
           /\ \A q \in Requests : tx[q] \in Writes /\ pc[q] \in Stages
           /\ now \in Nat /\ RefreshTTL \in Nat /\ RefreshTTL > 0
BY TTLAssumption, ClockAssumption
   DEF TypeOK, Writes, SessionRow, TokenPair, Timestamp

LEMMA CallerTypes ==
    ASSUME TypeOK, ReferencesOK, NEW r \in Requests,
           pc[r] \in HasCaller \cup {"refreshing"}
    PROVE  /\ presented[r] \in Jtis /\ pairs[presented[r]] # NULL
           /\ Caller(r) \in Users
           /\ CallerSession(r) \in SessionIds
           /\ sessions[CallerSession(r)] # NULL
<1>1. presented[r] \in Jtis /\ pairs[presented[r]] # NULL
  BY DEF ReferencesOK, TypeOK
<1> QED
  BY <1>1, RowTypes DEF Caller, CallerSession, ReferencesOK

-----------------------------------------------------------------------------
(* The end of a transaction.                                               *)

LEMMA FinishEffect ==
    ASSUME TypeOK, NEW r \in Requests, NEW stage \in Stages, Finish(r, stage)
    PROVE  /\ \A q \in Requests \ {r} :
                /\ tx'[q] = tx[q]
                /\ pc'[q] = pc[q]
                /\ presented'[q] = presented[q]
                /\ at'[q] = at[q]
                /\ targets'[q] = targets[q]
                /\ \A x \in Rows : lock[x] = q => lock'[x] = q
           /\ tx'[r] = NoWrites /\ pc'[r] = stage /\ presented'[r] = NULL
           /\ at'[r] = 0 /\ targets'[r] = {}
           /\ lock' \in [Rows -> Requests \cup {NULL}]
           /\ pc' \in [Requests -> Stages]
           /\ presented' \in [Requests -> Jtis \cup Users \cup {NULL}]
           /\ at' \in [Requests -> Timestamp]
           /\ targets' \in [Requests -> SUBSET SessionIds]
           /\ tx' \in [Requests -> Writes]
BY NoWritesType DEF TypeOK, Finish, Timestamp

LEMMA RollbackStep ==
    ASSUME IndInv, NEW r \in Requests,
           NEW stage \in {"idle", "integrity_error", "deadlock_detected"},
           Rollback(r, stage)
    PROVE  IndInv'
<1> USE DEF IndInv
<1>1. Finish(r, stage) /\ stage \in Stages \ HasCaller
      /\ UNCHANGED <<users, sessions, pairs, now>>
  BY DEF Rollback, database, Stages, HasCaller, Endpoints
<1>2. TypeOK'
  BY <1>1, FinishEffect DEF TypeOK
<1>3. ClockOK'
  BY <1>1, FinishEffect, NoWritesType, RowTypes DEF ClockOK
<1>4. ReferencesOK'
  BY <1>1, FinishEffect, NoWritesType DEF ReferencesOK
<1>5. WritesOK'
  BY <1>1, FinishEffect, NoWritesType, CallerTypes
     DEF WritesOK, Caller, CallerSession, Rows, HasCaller
<1>6. IssuingOK'
  BY <1>1, FinishEffect, NoWritesType, RowTypes DEF IssuingOK, IsUsable, Rows
<1>7. DeletingOK'
  BY <1>1, FinishEffect, NoWritesType DEF DeletingOK, Caller, LiveSessionsOf
<1>8. DeletedAccountHasNoLiveSession'
  BY <1>1 DEF DeletedAccountHasNoLiveSession
<1> QED
  BY <1>2, <1>3, <1>4, <1>5, <1>6, <1>7, <1>8

LEMMA CommitStep ==
    ASSUME IndInv, NEW r \in Requests, Commit(r)
    PROVE  IndInv'
<1> USE DEF IndInv
<1>1. Finish(r, "idle") /\ "idle" \in Stages \ HasCaller /\ now' = now
  BY DEF Commit, Stages, HasCaller, Endpoints
<1>2. /\ users' = [u \in Users |-> IF tx[r].users[u] = NULL
                                   THEN users[u] ELSE tx[r].users[u]]
      /\ sessions' = [s \in SessionIds |-> IF tx[r].sessions[s] = NULL
                                           THEN sessions[s] ELSE tx[r].sessions[s]]
      /\ pairs' = [j \in Jtis |-> IF tx[r].pairs[j] = NULL
                                  THEN pairs[j] ELSE tx[r].pairs[j]]
  BY DEF Commit, Merge, TypeOK
<1>3. TypeOK'
  <2>1. users' \in [Users -> UserRow]
    BY <1>2 DEF TypeOK, Writes
  <2>2. sessions' \in [SessionIds -> SessionRow \cup {NULL}]
    BY <1>2 DEF TypeOK, Writes
  <2>3. pairs' \in [Jtis -> TokenPair \cup {NULL}]
    BY <1>2 DEF TypeOK, Writes
  <2> QED
    BY <1>1, <2>1, <2>2, <2>3, FinishEffect DEF TypeOK
<1>4. ClockOK'
  <2>1. \A s \in SessionIds : sessions'[s] # NULL => sessions'[s].created_at <= now
    BY <1>2 DEF ClockOK
  <2>2. \A q \in Requests, s \in SessionIds :
           tx'[q].sessions[s] # NULL => tx'[q].sessions[s].created_at <= now
    BY <1>1, FinishEffect, NoWritesType DEF ClockOK
  <2>3. \A q \in Requests : at'[q] <= now
    BY <1>1, FinishEffect, RowTypes DEF ClockOK
  <2> QED
    BY <1>1, <2>1, <2>2, <2>3 DEF ClockOK
<1>5. ReferencesOK'
  <2>1. ASSUME NEW j \in Jtis, pairs'[j] # NULL
        PROVE  sessions'[pairs'[j].session] # NULL
    BY <1>2, <2>1, RowTypes DEF ReferencesOK
  <2>2. ASSUME NEW q \in Requests, NEW j \in Jtis, tx'[q].pairs[j] # NULL
        PROVE  LET s == tx'[q].pairs[j].session IN
               sessions'[s] # NULL \/ tx'[q].sessions[s] # NULL
    BY <1>1, <1>2, <2>2, FinishEffect, NoWritesType, RowTypes DEF ReferencesOK
  <2>3. ASSUME NEW q \in Requests
        PROVE  /\ pc'[q] \in HasCaller \cup {"refreshing"} =>
                     presented'[q] \in Jtis /\ pairs'[presented'[q]] # NULL
               /\ pc'[q] = "logging_in" => presented'[q] \in Users
    BY <1>1, <1>2, FinishEffect, CallerTypes DEF ReferencesOK
  <2>4. ASSUME NEW q \in Requests, NEW s \in targets'[q]
        PROVE  sessions'[s] # NULL
    BY <1>1, <1>2, FinishEffect DEF ReferencesOK, TypeOK
  <2> QED
    BY <2>1, <2>2, <2>3, <2>4 DEF ReferencesOK
<1>6. \A q \in Requests \ {r} :
        /\ \A u \in Users : lock[u] = q => users'[u] = users[u]
        /\ \A s \in SessionIds : lock[s] = q => sessions'[s] = sessions[s]
        /\ pc[q] \in HasCaller => /\ Caller(q)' = Caller(q)
                                  /\ CallerSession(q)' = CallerSession(q)
  BY <1>1, <1>2, FinishEffect, CallerTypes DEF WritesOK, Caller, CallerSession
<1>7. WritesOK'
  <2>1. \A q \in Requests, u \in Users : tx'[q].users[u] # NULL => lock'[u] = q
    BY <1>1, FinishEffect, NoWritesType DEF WritesOK, Rows
  <2>2. \A q \in Requests, s \in SessionIds :
          tx'[q].sessions[s] # NULL =>
            /\ lock'[s] = q
            /\ sessions'[s] # NULL => sessions'[s].revoked_at = NULL
    BY <1>1, <1>6, FinishEffect, NoWritesType DEF WritesOK, Rows
  <2>3. \A q \in Requests :
          pc'[q] = "rotating" => /\ lock'[CallerSession(q)'] = q
                                 /\ sessions'[CallerSession(q)'].user = Caller(q)'
    BY <1>1, <1>6, FinishEffect, CallerTypes DEF WritesOK, Rows, HasCaller
  <2>4. \A q \in Requests, j \in Jtis :
          tx'[q].pairs[j] # NULL =>
            /\ pairs'[j] = NULL
            /\ \A p \in Requests \ {q} : tx'[p].pairs[j] = NULL
    BY <1>1, <1>2, FinishEffect, NoWritesType, SMTT(30) DEF WritesOK
  <2> QED
    BY <2>1, <2>2, <2>3, <2>4 DEF WritesOK
<1>8. IssuingOK'
  BY <1>1, <1>6, FinishEffect, NoWritesType, RowTypes DEF IssuingOK, IsUsable, Rows
<1>9. DeletingOK'
  <2>1. SUFFICES ASSUME NEW q \in Requests \ {r}, NEW u \in Users,
                        tx[q].users[u] # NULL, tx[q].users[u].deleted_at # NULL
                 PROVE  /\ pc[q] \in {"stamped", "updating"}
                        /\ u = Caller(q)'
                        /\ pc[q] = "updating" =>
                             \A s \in LiveSessionsOf(u)' :
                                s \in targets[q] \/ tx[q].sessions[s] # NULL
    BY <1>1, FinishEffect, NoWritesType DEF DeletingOK
  <2>2. pc[q] \in {"stamped", "updating"} /\ u = Caller(q)' /\ lock[u] = q
    BY <1>6, <2>1 DEF DeletingOK, WritesOK, HasCaller
  <2>3. LiveSessionsOf(u)' \subseteq LiveSessionsOf(u)
    BY <1>2, <2>2 DEF LiveSessionsOf, IssuingOK
  <2> QED
    BY <2>1, <2>2, <2>3 DEF DeletingOK
<1>10. DeletedAccountHasNoLiveSession'
  <2>1. SUFFICES ASSUME NEW s \in SessionIds, sessions'[s] # NULL,
                        users'[sessions'[s].user].deleted_at # NULL,
                        sessions'[s].revoked_at = NULL
                 PROVE  FALSE
    BY DEF DeletedAccountHasNoLiveSession
  <2> DEFINE u == sessions'[s].user
  <2>2. u \in Users
    BY <1>3, <2>1, RowTypes DEF TypeOK, SessionRow
  <2>3. CASE tx[r].sessions[s] # NULL
    <3>1. pc[r] = "issuing" /\ IsUsable(u)
      BY <1>2, <2>1, <2>3 DEF IssuingOK
    <3>2. tx[r].users[u] # NULL /\ tx[r].users[u].deleted_at # NULL
      BY <1>2, <2>1, <2>2, <3>1 DEF IsUsable
    <3> QED
      BY <2>2, <3>1, <3>2 DEF DeletingOK
  <2>4. CASE tx[r].sessions[s] = NULL
    <3>1. sessions'[s] = sessions[s]
      BY <1>2, <2>4
    <3>2. s \in LiveSessionsOf(u)
      BY <2>1, <3>1 DEF LiveSessionsOf
    <3>3. tx[r].users[u] # NULL /\ tx[r].users[u].deleted_at # NULL
      BY <1>2, <2>1, <2>2, <3>1 DEF DeletedAccountHasNoLiveSession
    <3>4. pc[r] = "updating" /\ targets[r] = {}
      BY <2>2, <3>3 DEF DeletingOK, Commit
    <3> QED
      BY <2>2, <2>4, <3>2, <3>3, <3>4 DEF DeletingOK
  <2> QED
    BY <2>3, <2>4
<1> QED
  BY <1>3, <1>4, <1>5, <1>7, <1>8, <1>9, <1>10

-----------------------------------------------------------------------------
(* Steps inside a transaction: the tables stay as they are.                *)

\* What a step of r inside its transaction leaves alone.
Inside(r) ==
    /\ UNCHANGED <<users, sessions, pairs, now>>
    /\ \A q \in Requests \ {r} :
          /\ tx'[q] = tx[q]
          /\ pc'[q] = pc[q]
          /\ presented'[q] = presented[q]
          /\ at'[q] = at[q]
          /\ targets'[q] = targets[q]
          /\ \A x \in Rows : lock[x] = q => lock'[x] = q
    /\ \A x \in Rows : lock[x] = r => lock'[x] = r

\* The conjuncts of the invariant about one request.
SessionWritesOK(r) ==
    \A s \in SessionIds :
        tx[r].sessions[s] # NULL =>
          /\ tx[r].sessions[s].created_at <= now
          /\ lock[s] = r
          /\ sessions[s] # NULL => sessions[s].revoked_at = NULL
          /\ tx[r].sessions[s].revoked_at = NULL =>
                /\ pc[r] = "issuing"
                /\ lock[tx[r].sessions[s].user] = r
                /\ IsUsable(tx[r].sessions[s].user)

UserWritesOK(r) ==
    \A u \in Users :
        tx[r].users[u] # NULL =>
          /\ lock[u] = r
          /\ tx[r].users[u].deleted_at # NULL =>
                /\ pc[r] \in {"stamped", "updating"}
                /\ u = Caller(r)
                /\ pc[r] = "updating" =>
                     \A s \in LiveSessionsOf(u) :
                        s \in targets[r] \/ tx[r].sessions[s] # NULL

PairWritesOK(r) ==
    \A j \in Jtis :
        tx[r].pairs[j] # NULL =>
          /\ \/ sessions[tx[r].pairs[j].session] # NULL
             \/ tx[r].sessions[tx[r].pairs[j].session] # NULL
          /\ pairs[j] = NULL
          /\ \A q \in Requests \ {r} : tx[q].pairs[j] = NULL

CallerOK(r) ==
    /\ at[r] <= now
    /\ pc[r] \in HasCaller \cup {"refreshing"} =>
          presented[r] \in Jtis /\ pairs[presented[r]] # NULL
    /\ pc[r] = "logging_in" => presented[r] \in Users
    /\ pc[r] = "rotating" => /\ lock[CallerSession(r)] = r
                             /\ sessions[CallerSession(r)].user = Caller(r)
    /\ \A s \in targets[r] : sessions[s] # NULL

LEMMA RequestParts ==
    ASSUME IndInv, NEW r \in Requests
    PROVE  SessionWritesOK(r) /\ UserWritesOK(r) /\ PairWritesOK(r) /\ CallerOK(r)
<1> USE DEF IndInv
<1>1. SessionWritesOK(r)
  BY DEF SessionWritesOK, ClockOK, WritesOK, IssuingOK
<1>2. UserWritesOK(r)
  BY DEF UserWritesOK, WritesOK, DeletingOK
<1>3. PairWritesOK(r)
  BY DEF PairWritesOK, ReferencesOK, WritesOK
<1>4. CallerOK(r)
  BY DEF CallerOK, ClockOK, ReferencesOK, WritesOK
<1> QED
  BY <1>1, <1>2, <1>3, <1>4

\* For a step inside a transaction nothing else is left to prove.
LEMMA InsideStep ==
    ASSUME IndInv, NEW r \in Requests, Inside(r), TypeOK',
           SessionWritesOK(r)', UserWritesOK(r)', PairWritesOK(r)', CallerOK(r)'
    PROVE  IndInv'
<1> USE DEF IndInv, Inside
<1>1. ClockOK'
  BY DEF ClockOK, SessionWritesOK, CallerOK
<1>2. ReferencesOK'
  BY DEF ReferencesOK, PairWritesOK, CallerOK
<1>3. WritesOK'
  <2>1. \A q \in Requests, u \in Users : tx'[q].users[u] # NULL => lock'[u] = q
    BY DEF WritesOK, UserWritesOK, Rows
  <2>2. \A q \in Requests, s \in SessionIds :
          tx'[q].sessions[s] # NULL =>
            /\ lock'[s] = q
            /\ sessions'[s] # NULL => sessions'[s].revoked_at = NULL
    BY DEF WritesOK, SessionWritesOK, Rows
  <2>3. \A q \in Requests :
          pc'[q] = "rotating" => /\ lock'[CallerSession(q)'] = q
                                 /\ sessions'[CallerSession(q)'].user = Caller(q)'
    BY CallerTypes DEF WritesOK, CallerOK, Caller, CallerSession, Rows, HasCaller
  <2>4. \A q \in Requests, j \in Jtis :
          tx'[q].pairs[j] # NULL =>
            /\ pairs'[j] = NULL
            /\ \A p \in Requests \ {q} : tx'[p].pairs[j] = NULL
    BY DEF WritesOK, PairWritesOK
  <2> QED
    BY <2>1, <2>2, <2>3, <2>4 DEF WritesOK
<1>4. IssuingOK'
  BY RowTypes DEF IssuingOK, SessionWritesOK, IsUsable, Rows
<1>5. DeletingOK'
  BY DEF DeletingOK, UserWritesOK, Caller, LiveSessionsOf
<1>6. DeletedAccountHasNoLiveSession'
  BY DEF DeletedAccountHasNoLiveSession
<1> QED
  BY <1>1, <1>2, <1>3, <1>4, <1>5, <1>6

LEMMA WritesType ==
    ASSUME NEW w \in Writes
    PROVE  /\ \A u \in Users, row \in UserRow : [w EXCEPT !.users[u] = row] \in Writes
           /\ \A s \in SessionIds, row \in SessionRow :
                 [w EXCEPT !.sessions[s] = row] \in Writes
           /\ \A j \in Jtis, row \in TokenPair : [w EXCEPT !.pairs[j] = row] \in Writes
BY DEF Writes

LEMMA BeginLoginStep ==
    ASSUME IndInv, NEW r \in Requests, NEW u \in Users, BeginLogin(r, u)
    PROVE  IndInv'
<1>1. TypeOK /\ pc[r] = "idle"
  BY DEF IndInv, BeginLogin
<1>2. /\ presented' = [presented EXCEPT ![r] = u]
      /\ pc' = [pc EXCEPT ![r] = "logging_in"]
      /\ UNCHANGED <<users, sessions, pairs, now, lock, at, targets, tx>>
  BY DEF BeginLogin, database
<1>3. TypeOK'
  BY <1>1, <1>2 DEF TypeOK, Stages
<1>4. Inside(r)
  BY <1>1, <1>2 DEF Inside, TypeOK
<1>5. pc'[r] = "logging_in" /\ presented'[r] = u
  BY <1>1, <1>2 DEF TypeOK
<1>6. SessionWritesOK(r)'
  BY <1>1, <1>2, RequestParts DEF SessionWritesOK
<1>7. UserWritesOK(r)'
  BY <1>1, <1>2, RequestParts DEF UserWritesOK
<1>8. PairWritesOK(r)'
  BY <1>2, RequestParts DEF PairWritesOK
<1>9. CallerOK(r)'
  BY <1>1, <1>2, <1>5, RequestParts DEF CallerOK, HasCaller, Endpoints
<1> QED
  BY <1>3, <1>4, <1>6, <1>7, <1>8, <1>9, InsideStep

LEMMA LoginStep ==
    ASSUME IndInv, NEW r \in Requests, NEW s \in SessionIds, NEW j \in Jtis,
           LoginUser(r, s, j)
    PROVE  IndInv'
<1>0. PICK u \in Users : u = presented[r]
  BY RequestParts DEF CallerOK, LoginUser
<1> DEFINE urow == [users[u] EXCEPT !.last_login_at = now,
                                       !.password_hash = Rehashed(@)]
           srow == [user |-> u, refresh_token_hash |-> j, created_at |-> now,
                    expires_at |-> now + RefreshTTL, revoked_at |-> NULL]
           prow == [user |-> u, session |-> s, issued_at |-> now, parent |-> NULL]
<1>1. TypeOK /\ pc[r] = "logging_in" /\ Free(u) /\ IsUsable(u) /\ sessions[s] = NULL
      /\ Free(s) /\ FreshJti(j)
  BY <1>0 DEF IndInv, LoginUser, LoginWrites
<1>2. urow \in UserRow /\ urow.deleted_at = NULL
  <2>1. users[u].password_hash \in {"outdated", "current"}
    BY <1>1 DEF TypeOK, UserRow
  <2>2. Rehashed(users[u].password_hash) \in {"outdated", "current"}
    BY <2>1 DEF Rehashed, NeedsRehash
  <2>3. urow = [users[u] EXCEPT !.last_login_at = now,
                                !.password_hash = Rehashed(users[u].password_hash)]
    BY <1>1 DEF TypeOK, UserRow
  <2> QED
    BY <1>1, <2>2, <2>3, RowTypes DEF TypeOK, UserRow, Timestamp, IsUsable
<1>3. srow \in SessionRow /\ prow \in TokenPair
  BY <1>1, RowTypes DEF SessionRow, TokenPair, Timestamp
<1>4. /\ urow # NULL /\ srow # NULL /\ prow # NULL
      /\ srow.user = u /\ srow.created_at = now /\ srow.revoked_at = NULL
      /\ prow.session = s
  BY <1>2, <1>3, NullAssumption
<1>5. /\ lock' = [lock EXCEPT ![u] = r, ![s] = r]
      /\ pc' = [pc EXCEPT ![r] = "issuing"]
      /\ UNCHANGED <<users, sessions, pairs, now, presented, at, targets>>
      /\ tx' = [tx EXCEPT ![r].users[u] = urow, ![r].sessions[s] = srow,
                          ![r].pairs[j] = prow]
  BY <1>0 DEF LoginUser, LoginWrites, database
<1>6. tx \in [Requests -> Writes] /\ lock \in [Rows -> Requests \cup {NULL}]
      /\ pc \in [Requests -> Stages]
  BY <1>1 DEF TypeOK
<1> HIDE DEF urow, srow, prow
<1>7. TypeOK'
  <2>1. tx' = [tx EXCEPT ![r].users[u] = urow, ![r].sessions[s] = srow,
                         ![r].pairs[j] = prow]
    BY <1>5
  <2>2. tx \in [Requests -> Writes]
    BY <1>6
  <2>3. [[[tx[r] EXCEPT !.users[u] = urow] EXCEPT !.sessions[s] = srow]
                         EXCEPT !.pairs[j] = prow] \in Writes
    BY <1>2, <1>3, <2>2, WritesType
  <2>4. tx' \in [Requests -> Writes]
    BY <2>1, <2>2, <2>3
  <2> QED
    BY <1>1, <1>5, <2>4 DEF TypeOK, Stages
<1>8. Inside(r)
  BY <1>1, <1>5, <1>6, NullAssumption DEF Inside, Free
<1>9. /\ \A v \in Users : tx'[r].users[v] = IF v = u THEN urow ELSE tx[r].users[v]
      /\ \A v \in SessionIds :
            tx'[r].sessions[v] = IF v = s THEN srow ELSE tx[r].sessions[v]
      /\ \A v \in Jtis : tx'[r].pairs[v] = IF v = j THEN prow ELSE tx[r].pairs[v]
      /\ lock'[u] = r /\ lock'[s] = r /\ pc'[r] = "issuing"
  BY <1>5, <1>6, KeysAssumption DEF Writes, Rows
<1>10. SessionWritesOK(r)'
  <2>1. SUFFICES ASSUME NEW v \in SessionIds, tx'[r].sessions[v] # NULL
                 PROVE  /\ tx'[r].sessions[v].created_at <= now
                        /\ lock'[v] = r
                        /\ sessions[v] # NULL => sessions[v].revoked_at = NULL
                        /\ tx'[r].sessions[v].revoked_at = NULL =>
                              /\ lock'[tx'[r].sessions[v].user] = r
                              /\ IsUsable(tx'[r].sessions[v].user)
    BY <1>5, <1>9, ZenonT(60) DEF SessionWritesOK, IsUsable
  <2>2. CASE v = s
    BY <1>1, <1>4, <1>9, <2>2, RowTypes
  <2>3. CASE v # s
    BY <1>1, <1>8, <1>9, <2>1, <2>3, RequestParts DEF SessionWritesOK, Inside, Rows
  <2> QED
    BY <2>2, <2>3
<1>11. UserWritesOK(r)'
  BY <1>1, <1>2, <1>8, <1>9, RequestParts DEF UserWritesOK, Inside, Rows
<1>12. PairWritesOK(r)'
  <2>1. SUFFICES ASSUME NEW v \in Jtis, tx'[r].pairs[v] # NULL
                 PROVE  /\ \/ sessions[tx'[r].pairs[v].session] # NULL
                           \/ tx'[r].sessions[tx'[r].pairs[v].session] # NULL
                        /\ pairs[v] = NULL
                        /\ \A q \in Requests \ {r} : tx[q].pairs[v] = NULL
    <3>1. /\ sessions' = sessions /\ pairs' = pairs
          /\ \A q \in Requests \ {r} : tx'[q] = tx[q]
      BY <1>8 DEF Inside
    <3> QED
      BY <2>1, <3>1 DEF PairWritesOK
  <2>2. CASE v = j
    BY <1>1, <1>4, <1>9, <2>2 DEF FreshJti
  <2>3. CASE v # j
    <3>1. tx'[r].pairs[v] = tx[r].pairs[v] /\ tx[r].pairs[v] # NULL
      BY <1>9, <2>1, <2>3
    <3>2. tx[r].pairs[v].session \in SessionIds
      BY <1>1, <3>1, RowTypes
    <3> QED
      BY <1>4, <1>9, <3>1, <3>2, RequestParts DEF PairWritesOK
  <2> QED
    BY <2>2, <2>3
<1>13. CallerOK(r)'
  BY <1>1, <1>5, <1>9, RequestParts DEF CallerOK, HasCaller, Endpoints
<1> QED
  BY <1>7, <1>8, <1>10, <1>11, <1>12, <1>13, InsideStep

LEMMA VerifyRefreshTokenStep ==
    ASSUME IndInv, NEW r \in Requests, NEW j \in Jtis, VerifyRefreshToken(r, j)
    PROVE  IndInv'
<1>1. TypeOK /\ pc[r] = "idle" /\ pairs[j] # NULL
  BY DEF IndInv, VerifyRefreshToken
<1>2. /\ presented' = [presented EXCEPT ![r] = j]
      /\ pc' = [pc EXCEPT ![r] = "refreshing"]
      /\ UNCHANGED <<users, sessions, pairs, now, lock, at, targets, tx>>
  BY DEF VerifyRefreshToken, database
<1>3. TypeOK'
  BY <1>1, <1>2 DEF TypeOK, Stages
<1>4. Inside(r)
  BY <1>1, <1>2 DEF Inside, TypeOK
<1>5. pc'[r] = "refreshing" /\ presented'[r] = j
  BY <1>1, <1>2 DEF TypeOK
<1>6. SessionWritesOK(r)'
  BY <1>1, <1>2, RequestParts DEF SessionWritesOK
<1>7. UserWritesOK(r)'
  BY <1>1, <1>2, RequestParts DEF UserWritesOK
<1>8. PairWritesOK(r)'
  BY <1>2, RequestParts DEF PairWritesOK
<1>9. CallerOK(r)'
  BY <1>1, <1>2, <1>5, RequestParts DEF CallerOK
<1> QED
  BY <1>3, <1>4, <1>6, <1>7, <1>8, <1>9, InsideStep

LEMMA RotateLockSessionStep ==
    ASSUME IndInv, NEW r \in Requests, RotateLockSession(r)
    PROVE  IndInv'
<1>1. /\ TypeOK /\ ReferencesOK /\ pc[r] = "refreshing"
      /\ sessions[CallerSession(r)].user = Caller(r)
  BY DEF IndInv, RotateLockSession, SessionFound, Caller, CallerSession
<1>2. /\ presented[r] \in Jtis /\ pairs[presented[r]] # NULL
      /\ CallerSession(r) \in SessionIds
  BY <1>1, CallerTypes
<1>3. /\ lock' = [lock EXCEPT ![CallerSession(r)] = r]
      /\ pc' = [pc EXCEPT ![r] = "rotating"]
      /\ UNCHANGED <<users, sessions, pairs, now, presented, at, targets, tx>>
      /\ Free(CallerSession(r))
  BY DEF RotateLockSession, database
<1>4. /\ Caller(r)' = Caller(r) /\ CallerSession(r)' = CallerSession(r)
      /\ CallerSession(r) \in Rows
  BY <1>2, <1>3 DEF Caller, CallerSession, Rows
<1>5. TypeOK'
  BY <1>1, <1>3, <1>4 DEF TypeOK, Stages
<1>6. /\ Inside(r)
      /\ pc'[r] = "rotating" /\ lock'[CallerSession(r)] = r
  BY <1>1, <1>3, <1>4, NullAssumption DEF Inside, TypeOK, Free
<1>7. SessionWritesOK(r)'
  BY <1>1, <1>3, <1>6, RequestParts DEF SessionWritesOK, Inside, Rows
<1>8. UserWritesOK(r)'
  BY <1>1, <1>3, <1>6, RequestParts DEF UserWritesOK, Inside, Rows
<1>9. PairWritesOK(r)'
  BY <1>3, RequestParts DEF PairWritesOK
<1>10. CallerOK(r)'
  BY <1>1, <1>2, <1>3, <1>4, <1>6, RequestParts DEF CallerOK
<1> QED
  BY <1>5, <1>6, <1>7, <1>8, <1>9, <1>10, InsideStep

LEMMA AuthenticateStep ==
    ASSUME IndInv, NEW r \in Requests, NEW j \in Jtis, NEW endpoint \in Endpoints,
           Authenticate(r, j, endpoint)
    PROVE  IndInv'
<1>1. TypeOK /\ pc[r] = "idle" /\ pairs[j] # NULL
  BY DEF IndInv, Authenticate
<1>2. /\ presented' = [presented EXCEPT ![r] = j]
      /\ pc' = [pc EXCEPT ![r] = endpoint]
      /\ UNCHANGED <<users, sessions, pairs, now, lock, at, targets, tx>>
  BY DEF Authenticate, database
<1>3. TypeOK'
  BY <1>1, <1>2 DEF TypeOK, Stages
<1>4. Inside(r)
  BY <1>1, <1>2 DEF Inside, TypeOK
<1>5. pc'[r] = endpoint /\ presented'[r] = j
  BY <1>1, <1>2 DEF TypeOK
<1>6. SessionWritesOK(r)'
  BY <1>1, <1>2, RequestParts DEF SessionWritesOK
<1>7. UserWritesOK(r)'
  BY <1>1, <1>2, RequestParts DEF UserWritesOK
<1>8. PairWritesOK(r)'
  BY <1>2, RequestParts DEF PairWritesOK
<1>9. CallerOK(r)'
  BY <1>1, <1>2, <1>5, NullAssumption, RequestParts DEF CallerOK, Endpoints
<1> QED
  BY <1>3, <1>4, <1>6, <1>7, <1>8, <1>9, InsideStep

LEMMA LogoutAllStep ==
    ASSUME IndInv, NEW r \in Requests, LogoutAll(r)
    PROVE  IndInv'
<1>1. TypeOK /\ pc[r] = "logout_all"
  BY DEF IndInv, LogoutAll
<1>2. /\ at' = [at EXCEPT ![r] = now]
      /\ pc' = [pc EXCEPT ![r] = "stamped"]
      /\ UNCHANGED <<users, sessions, pairs, now, lock, presented, targets, tx>>
  BY DEF LogoutAll, database
<1>3. TypeOK'
  BY <1>1, <1>2, RowTypes DEF TypeOK, Stages, Timestamp
<1>4. Inside(r)
  BY <1>1, <1>2 DEF Inside, TypeOK
<1>5. pc'[r] = "stamped" /\ at'[r] = now
  BY <1>1, <1>2 DEF TypeOK
<1>6. SessionWritesOK(r)'
  BY <1>1, <1>2, RequestParts DEF SessionWritesOK
<1>7. UserWritesOK(r)'
  BY <1>1, <1>2, RequestParts DEF UserWritesOK
<1>8. PairWritesOK(r)'
  BY <1>2, RequestParts DEF PairWritesOK
<1>9. CallerOK(r)'
  BY <1>1, <1>2, <1>5, RowTypes, RequestParts DEF CallerOK, HasCaller, Endpoints
<1> QED
  BY <1>3, <1>4, <1>6, <1>7, <1>8, <1>9, InsideStep

LEMMA SnapshotStep ==
    ASSUME IndInv, NEW r \in Requests, RevokeAllSnapshot(r)
    PROVE  IndInv'
<1>1. TypeOK /\ pc[r] = "stamped"
  BY DEF IndInv, RevokeAllSnapshot, UpdateRows
<1>2. /\ targets' = [targets EXCEPT ![r] = LiveSessionsOf(Caller(r))]
      /\ pc' = [pc EXCEPT ![r] = "updating"]
      /\ UNCHANGED <<users, sessions, pairs, now, lock, presented, at, tx>>
  BY DEF RevokeAllSnapshot, UpdateRows, database
<1>3. TypeOK'
  BY <1>1, <1>2 DEF TypeOK, Stages, LiveSessionsOf
<1>4. Inside(r)
  BY <1>1, <1>2 DEF Inside, TypeOK
<1>5. pc'[r] = "updating" /\ targets'[r] = LiveSessionsOf(Caller(r))
  BY <1>1, <1>2 DEF TypeOK
<1>6. SessionWritesOK(r)'
  BY <1>1, <1>2, RequestParts DEF SessionWritesOK
<1>7. UserWritesOK(r)'
  <2>1. \A u \in Users : LiveSessionsOf(u)' = LiveSessionsOf(u)
    BY <1>2 DEF LiveSessionsOf
  <2>2. Caller(r)' = Caller(r)
    BY <1>2 DEF Caller
  <2> QED
    BY <1>1, <1>2, <1>5, <2>1, <2>2, RequestParts DEF UserWritesOK
<1>8. PairWritesOK(r)'
  BY <1>2, RequestParts DEF PairWritesOK
<1>9. CallerOK(r)'
  BY <1>1, <1>2, <1>5, RequestParts DEF CallerOK, HasCaller, LiveSessionsOf
<1> QED
  BY <1>3, <1>4, <1>6, <1>7, <1>8, <1>9, InsideStep

LEMMA SkipStep ==
    ASSUME IndInv, NEW r \in Requests, NEW s \in SessionIds, RevokeAllSkip(r, s)
    PROVE  IndInv'
<1>1. TypeOK /\ pc[r] = "updating" /\ sessions[s].revoked_at # NULL
  BY DEF IndInv, RevokeAllSkip, VisitRow
<1>2. /\ targets' = [targets EXCEPT ![r] = targets[r] \ {s}]
      /\ UNCHANGED <<users, sessions, pairs, now, lock, pc, presented, at, tx>>
  BY DEF RevokeAllSkip, database
<1>3. TypeOK'
  BY <1>1, <1>2 DEF TypeOK
<1>4. Inside(r)
  BY <1>1, <1>2 DEF Inside, TypeOK
<1>5. targets'[r] = targets[r] \ {s}
  BY <1>1, <1>2 DEF TypeOK
<1>6. SessionWritesOK(r)'
  BY <1>1, <1>2, RequestParts DEF SessionWritesOK
<1>7. UserWritesOK(r)'
  BY <1>1, <1>2, <1>5, RequestParts DEF UserWritesOK, Caller, LiveSessionsOf
<1>8. PairWritesOK(r)'
  BY <1>2, RequestParts DEF PairWritesOK
<1>9. CallerOK(r)'
  BY <1>1, <1>2, <1>5, RequestParts DEF CallerOK, HasCaller
<1> QED
  BY <1>3, <1>4, <1>6, <1>7, <1>8, <1>9, InsideStep

\* One session row is written into the transaction.
LEMMA SessionWrite ==
    ASSUME tx \in [Requests -> Writes], NEW r \in Requests, NEW s \in SessionIds,
           NEW row \in SessionRow, tx' = [tx EXCEPT ![r].sessions[s] = row]
    PROVE  /\ tx' \in [Requests -> Writes]
           /\ \A q \in Requests \ {r} : tx'[q] = tx[q]
           /\ tx'[r].users = tx[r].users
           /\ tx'[r].pairs = tx[r].pairs
           /\ \A v \in SessionIds :
                 tx'[r].sessions[v] = IF v = s THEN row ELSE tx[r].sessions[v]
<1>1. [tx[r] EXCEPT !.sessions[s] = row] \in Writes
  BY WritesType
<1>2. tx' \in [Requests -> Writes]
  BY <1>1
<1> QED
  BY <1>2 DEF Writes

\* session.revoked_at = timezone.now() by a request that locked the row.
LEMMA RevocationStep ==
    ASSUME IndInv, NEW r \in Requests,
           pc[r] \in {"rotating", "logout"},
           WriteRevocation(r, CallerSession(r)),
           lock' \in [Rows -> Requests \cup {NULL}],
           lock'[CallerSession(r)] = r,
           \A x \in Rows : lock[x] # NULL => lock'[x] = lock[x],
           pc' = [pc EXCEPT ![r] = "revoking"],
           UNCHANGED <<database, now, presented, at, targets>>
    PROVE  IndInv'
<1> DEFINE s == CallerSession(r)
           row == [sessions[s] EXCEPT !.revoked_at = now]
<1>1. TypeOK /\ ReferencesOK /\ ClockOK /\ pc[r] \in HasCaller
  BY DEF IndInv, HasCaller, Endpoints
<1>2. UNCHANGED <<users, sessions, pairs, now, presented, at, targets>>
  BY DEF database
<1>3. s \in SessionIds /\ sessions[s] \in SessionRow /\ sessions[s].created_at <= now
  BY <1>1, CallerTypes, RowTypes DEF ClockOK
<1>4. row \in SessionRow /\ row.revoked_at # NULL /\ row.created_at <= now
  BY <1>1, <1>3, RowTypes, NullAssumption DEF SessionRow, Timestamp
<1>5. row # NULL
  BY <1>4, NullAssumption
<1> HIDE DEF s, row
<1>6. tx' = IF sessions[s].revoked_at = NULL
            THEN [tx EXCEPT ![r].sessions[s] = row] ELSE tx
  BY DEF WriteRevocation, s, row
<1>7. /\ tx' \in [Requests -> Writes]
      /\ \A q \in Requests \ {r} : tx'[q] = tx[q]
      /\ tx'[r].users = tx[r].users
      /\ tx'[r].pairs = tx[r].pairs
      /\ \A v \in SessionIds :
            \/ tx'[r].sessions[v] = tx[r].sessions[v]
            \/ v = s /\ tx'[r].sessions[v] = row /\ sessions[s].revoked_at = NULL
  <2>1. tx \in [Requests -> Writes]
    BY <1>1 DEF TypeOK
  <2>2. CASE sessions[s].revoked_at = NULL
    <3>1. tx' = [tx EXCEPT ![r].sessions[s] = row]
      BY <1>6, <2>2
    <3>2. s \in SessionIds /\ row \in SessionRow
      BY <1>3, <1>4
    <3>3. /\ tx' \in [Requests -> Writes]
          /\ \A q \in Requests \ {r} : tx'[q] = tx[q]
          /\ tx'[r].users = tx[r].users
          /\ tx'[r].pairs = tx[r].pairs
          /\ \A v \in SessionIds :
                tx'[r].sessions[v] = IF v = s THEN row ELSE tx[r].sessions[v]
      <4>1. [tx[r] EXCEPT !.sessions[s] = row] \in Writes
        BY <2>1, <3>2, WritesType
      <4>2. tx' \in [Requests -> Writes]
        BY <2>1, <3>1, <4>1
      <4> QED
        BY <2>1, <3>1, <3>2, <4>2 DEF Writes
    <3> QED
      BY <2>2, <3>3
  <2>3. CASE sessions[s].revoked_at # NULL
    BY <1>6, <2>1, <2>3
  <2> QED
    BY <2>2, <2>3
<1>8. TypeOK'
  BY <1>1, <1>2, <1>7 DEF TypeOK, Stages
<1>9. Inside(r) /\ pc'[r] = "revoking"
  BY <1>1, <1>2, <1>7, NullAssumption DEF Inside, TypeOK
<1>10. SessionWritesOK(r)'
  <2>1. SUFFICES ASSUME NEW v \in SessionIds, tx'[r].sessions[v] # NULL
                 PROVE  /\ tx'[r].sessions[v].created_at <= now
                        /\ lock'[v] = r
                        /\ sessions[v] # NULL => sessions[v].revoked_at = NULL
                        /\ tx'[r].sessions[v].revoked_at # NULL
    BY <1>2 DEF SessionWritesOK
  <2>2. CASE tx'[r].sessions[v] = tx[r].sessions[v]
    BY <1>9, <2>1, <2>2, RequestParts DEF SessionWritesOK, Inside, Rows
  <2>3. CASE v = s /\ tx'[r].sessions[v] = row /\ sessions[s].revoked_at = NULL
    BY <1>4, <2>3 DEF s
  <2> QED
    BY <1>7, <2>2, <2>3
<1>11. UserWritesOK(r)'
  BY <1>7, <1>9, RequestParts DEF UserWritesOK, Inside, Rows
<1>12. PairWritesOK(r)'
  <2>1. \A j \in Jtis : tx[r].pairs[j] # NULL => tx[r].pairs[j].session \in SessionIds
    BY <1>1, RowTypes
  <2> QED
    BY <1>2, <1>5, <1>7, <2>1, RequestParts DEF PairWritesOK
<1>13. CallerOK(r)'
  BY <1>1, <1>2, <1>9, RequestParts DEF CallerOK
<1> QED
  BY <1>8, <1>9, <1>10, <1>11, <1>12, <1>13, InsideStep

LEMMA ReuseStep ==
    ASSUME IndInv, NEW r \in Requests, RotateReuse(r)
    PROVE  IndInv'
<1>1. TypeOK /\ ReferencesOK /\ pc[r] \in HasCaller /\ pc[r] = "rotating"
  BY DEF IndInv, RotateReuse, HasCaller
<1>2. Caller(r) \in Users /\ CallerSession(r) \in SessionIds
  BY <1>1, CallerTypes
<1>3. Free(Caller(r)) /\ lock' = [lock EXCEPT ![Caller(r)] = r]
  BY DEF RotateReuse, RotateLockUser
<1>4. lock[CallerSession(r)] = r
  BY <1>1, RequestParts DEF CallerOK
<1>5. /\ lock' \in [Rows -> Requests \cup {NULL}]
      /\ lock'[CallerSession(r)] = r
      /\ \A x \in Rows : lock[x] # NULL => lock'[x] = lock[x]
  BY <1>1, <1>2, <1>3, <1>4 DEF TypeOK, Rows, Free
<1> QED
  BY <1>1, <1>5, RevocationStep DEF RotateReuse

LEMMA LogoutStep ==
    ASSUME IndInv, NEW r \in Requests, LogoutSession(r)
    PROVE  IndInv'
<1>1. TypeOK /\ ReferencesOK /\ pc[r] \in HasCaller /\ pc[r] = "logout"
  BY DEF IndInv, LogoutSession, HasCaller, Endpoints
<1>2. CallerSession(r) \in SessionIds
  BY <1>1, CallerTypes
<1>3. Free(CallerSession(r)) /\ lock' = [lock EXCEPT ![CallerSession(r)] = r]
  BY DEF LogoutSession
<1>4. /\ lock' \in [Rows -> Requests \cup {NULL}]
      /\ lock'[CallerSession(r)] = r
      /\ \A x \in Rows : lock[x] # NULL => lock'[x] = lock[x]
  BY <1>1, <1>2, <1>3 DEF TypeOK, Rows, Free
<1> QED
  BY <1>1, <1>4, RevocationStep DEF LogoutSession

LEMMA RevokeRowStep ==
    ASSUME IndInv, NEW r \in Requests, NEW s \in SessionIds, RevokeAllRow(r, s)
    PROVE  IndInv'
<1> DEFINE row == [sessions[s] EXCEPT !.revoked_at = at[r]]
<1>1. /\ TypeOK /\ ReferencesOK /\ ClockOK /\ pc[r] = "updating"
      /\ s \in targets[r] /\ Free(s) /\ sessions[s].revoked_at = NULL
      /\ at[r] >= sessions[s].created_at
  BY DEF IndInv, RevokeAllRow, VisitRow
<1>2. /\ lock' = [lock EXCEPT ![s] = r]
      /\ targets' = [targets EXCEPT ![r] = targets[r] \ {s}]
      /\ UNCHANGED <<users, sessions, pairs, now, pc, presented, at>>
  BY DEF RevokeAllRow, database
<1>3. sessions[s] \in SessionRow /\ sessions[s].created_at <= now
  BY <1>1, RowTypes DEF ReferencesOK, ClockOK
<1>4. at[r] \in Timestamp /\ at[r] # NULL
  BY <1>1, NullAssumption DEF TypeOK
<1>5. row \in SessionRow /\ row.revoked_at # NULL /\ row.created_at <= now
  BY <1>1, <1>3, <1>4 DEF SessionRow, Timestamp
<1>6. row # NULL
  BY <1>5, NullAssumption
<1>7. tx' = [tx EXCEPT ![r].sessions[s] = row]
  BY DEF RevokeAllRow
<1> HIDE DEF row
<1>8. /\ tx' \in [Requests -> Writes]
      /\ \A q \in Requests \ {r} : tx'[q] = tx[q]
      /\ tx'[r].users = tx[r].users
      /\ tx'[r].pairs = tx[r].pairs
      /\ \A v \in SessionIds :
            tx'[r].sessions[v] = IF v = s THEN row ELSE tx[r].sessions[v]
  <2>1. tx \in [Requests -> Writes]
    BY <1>1 DEF TypeOK
  <2> QED
    BY <1>5, <1>7, <2>1, SessionWrite, ZenonT(60)
<1>9. TypeOK'
  BY <1>1, <1>2, <1>8 DEF TypeOK, Rows
<1>10. Inside(r) /\ lock'[s] = r /\ targets'[r] = targets[r] \ {s}
  BY <1>1, <1>2, <1>8, NullAssumption DEF Inside, TypeOK, Free, Rows
<1>11. SessionWritesOK(r)'
  <2>1. SUFFICES ASSUME NEW v \in SessionIds, tx'[r].sessions[v] # NULL
                 PROVE  /\ tx'[r].sessions[v].created_at <= now
                        /\ lock'[v] = r
                        /\ sessions[v] # NULL => sessions[v].revoked_at = NULL
                        /\ tx'[r].sessions[v].revoked_at # NULL
    BY <1>2 DEF SessionWritesOK
  <2>2. CASE v = s
    BY <1>1, <1>5, <1>8, <1>10, <2>2
  <2>3. CASE v # s
    BY <1>1, <1>8, <1>10, <2>1, <2>3, RequestParts DEF SessionWritesOK, Inside, Rows
  <2> QED
    BY <2>2, <2>3
<1>12. UserWritesOK(r)'
  <2>1. \A u \in Users : LiveSessionsOf(u)' = LiveSessionsOf(u)
    BY <1>2 DEF LiveSessionsOf
  <2>2. \A u \in Users : LiveSessionsOf(u) \subseteq SessionIds
    BY DEF LiveSessionsOf
  <2>3. Caller(r)' = Caller(r)
    BY <1>2 DEF Caller
  <2> QED
    BY <1>1, <1>2, <1>6, <1>8, <1>10, <2>1, <2>2, <2>3, RequestParts
       DEF UserWritesOK, Inside, Rows
<1>13. PairWritesOK(r)'
  <2>1. \A j \in Jtis : tx[r].pairs[j] # NULL => tx[r].pairs[j].session \in SessionIds
    BY <1>1, RowTypes
  <2> QED
    BY <1>2, <1>6, <1>8, <2>1, RequestParts DEF PairWritesOK
<1>14. CallerOK(r)'
  BY <1>1, <1>2, <1>10, RequestParts DEF CallerOK, HasCaller
<1> QED
  BY <1>9, <1>10, <1>11, <1>12, <1>13, <1>14, InsideStep

LEMMA ExchangeStep ==
    ASSUME IndInv, NEW r \in Requests, NEW k \in Jtis, RotateExchange(r, k)
    PROVE  IndInv'
<1> DEFINE s == CallerSession(r)
           u == Caller(r)
           row == RotatedRow(s, k)
           prow == [user |-> u, session |-> s, issued_at |-> now, parent |-> presented[r]]
<1>1. /\ TypeOK /\ ReferencesOK /\ ClockOK
      /\ pc[r] = "rotating" /\ pc[r] \in HasCaller
  BY DEF IndInv, RotateExchange, HasCaller
<1>2. /\ u \in Users /\ s \in SessionIds /\ presented[r] \in Jtis
      /\ sessions[s] \in SessionRow /\ sessions[s].created_at <= now
      /\ sessions[s] # NULL
  BY <1>1, CallerTypes, RowTypes DEF ClockOK
<1>3. /\ Free(u) /\ IsUsable(u) /\ IsActiveSession(s) /\ FreshJti(k)
      /\ lock' = [lock EXCEPT ![u] = r]
      /\ pc' = [pc EXCEPT ![r] = "issuing"]
      /\ UNCHANGED <<users, sessions, pairs, now, presented, at, targets>>
      /\ tx' = [tx EXCEPT ![r].sessions[s] = row, ![r].pairs[k] = prow]
  BY DEF RotateExchange, ExchangeFor, RotateLockUser, database
<1>4. row \in SessionRow /\ row.created_at <= now /\ row.user = sessions[s].user
  <2>1. k \in Jtis /\ now + RefreshTTL \in Nat /\ now + RefreshTTL > sessions[s].created_at
    BY <1>1, <1>2, RowTypes DEF SessionRow, Timestamp
  <2> QED
    BY <1>2, <2>1 DEF RotatedRow, SessionRow, Timestamp
<1>5. prow \in TokenPair /\ prow.session = s
  BY <1>1, <1>2, RowTypes DEF TokenPair, Timestamp
<1>6. row # NULL /\ prow # NULL
  BY <1>4, <1>5, NullAssumption
<1>7. lock[s] = r /\ sessions[s].user = u /\ sessions[s].revoked_at = NULL
  BY <1>1, <1>3, RequestParts DEF CallerOK, IsActiveSession
<1>8. tx \in [Requests -> Writes] /\ lock \in [Rows -> Requests \cup {NULL}]
  BY <1>1 DEF TypeOK
<1> HIDE DEF s, u, row, prow
<1>9. tx' \in [Requests -> Writes]
  <2>1. [[tx[r] EXCEPT !.sessions[s] = row] EXCEPT !.pairs[k] = prow] \in Writes
    BY <1>2, <1>4, <1>5, <1>8, WritesType
  <2>2. tx' = [tx EXCEPT ![r].sessions[s] = row, ![r].pairs[k] = prow]
    BY <1>3
  <2> QED
    BY <1>8, <2>1, <2>2
<1>10. /\ \A q \in Requests \ {r} : tx'[q] = tx[q]
       /\ tx'[r].users = tx[r].users
       /\ \A v \in SessionIds :
             tx'[r].sessions[v] = IF v = s THEN row ELSE tx[r].sessions[v]
       /\ \A v \in Jtis : tx'[r].pairs[v] = IF v = k THEN prow ELSE tx[r].pairs[v]
  BY <1>2, <1>3, <1>8 DEF Writes
<1>11. TypeOK'
  BY <1>1, <1>2, <1>3, <1>9 DEF TypeOK, Stages, Rows
<1>12. /\ Inside(r) /\ pc'[r] = "issuing"
       /\ lock'[s] = r /\ lock'[u] = r
  BY <1>1, <1>2, <1>3, <1>7, <1>8, <1>10, NullAssumption
     DEF Inside, TypeOK, Free, Rows
<1>13. SessionWritesOK(r)'
  <2>1. SUFFICES ASSUME NEW v \in SessionIds, tx'[r].sessions[v] # NULL
                 PROVE  /\ tx'[r].sessions[v].created_at <= now
                        /\ lock'[v] = r
                        /\ sessions[v] # NULL => sessions[v].revoked_at = NULL
                        /\ tx'[r].sessions[v].revoked_at = NULL =>
                              /\ lock'[tx'[r].sessions[v].user] = r
                              /\ IsUsable(tx'[r].sessions[v].user)
    BY <1>3, <1>12 DEF SessionWritesOK, IsUsable
  <2>2. CASE v = s
    BY <1>3, <1>4, <1>7, <1>10, <1>12, <2>2
  <2>3. CASE v # s
    BY <1>1, <1>10, <1>12, <2>1, <2>3, RequestParts DEF SessionWritesOK, Inside, Rows
  <2> QED
    BY <2>2, <2>3
<1>14. UserWritesOK(r)'
  BY <1>1, <1>10, <1>12, RequestParts DEF UserWritesOK, Inside, Rows
<1>15. PairWritesOK(r)'
  <2>1. SUFFICES ASSUME NEW v \in Jtis, tx'[r].pairs[v] # NULL
                 PROVE  /\ \/ sessions[tx'[r].pairs[v].session] # NULL
                           \/ tx'[r].sessions[tx'[r].pairs[v].session] # NULL
                        /\ pairs[v] = NULL
                        /\ \A q \in Requests \ {r} : tx[q].pairs[v] = NULL
    <3>1. /\ sessions' = sessions /\ pairs' = pairs
          /\ \A q \in Requests \ {r} : tx'[q] = tx[q]
      BY <1>3, <1>10
    <3> QED
      BY <2>1, <3>1 DEF PairWritesOK
  <2>2. CASE v = k
    BY <1>2, <1>3, <1>5, <1>10, <2>2 DEF FreshJti
  <2>3. CASE v # k
    <3>1. tx'[r].pairs[v] = tx[r].pairs[v] /\ tx[r].pairs[v] # NULL
      BY <1>10, <2>1, <2>3
    <3>2. tx[r].pairs[v].session \in SessionIds
      BY <1>1, <3>1, RowTypes
    <3> QED
      BY <1>6, <1>10, <3>1, <3>2, RequestParts DEF PairWritesOK
  <2> QED
    BY <2>2, <2>3
<1>16. CallerOK(r)'
  BY <1>1, <1>3, <1>12, RequestParts DEF CallerOK, HasCaller, Endpoints
<1> QED
  BY <1>11, <1>12, <1>13, <1>14, <1>15, <1>16, InsideStep

LEMMA DeleteAccountStep ==
    ASSUME IndInv, NEW r \in Requests, DeleteAccount(r)
    PROVE  IndInv'
<1> DEFINE u == Caller(r)
           row == SoftDeleted(u)
<1>1. /\ TypeOK /\ ReferencesOK
      /\ pc[r] = "delete_account" /\ pc[r] \in HasCaller
  BY DEF IndInv, DeleteAccount, HasCaller, Endpoints
<1>2. u \in Users /\ users[u] \in UserRow
  BY <1>1, CallerTypes DEF TypeOK
<1>3. /\ Free(u)
      /\ lock' = [lock EXCEPT ![u] = r]
      /\ at' = [at EXCEPT ![r] = now]
      /\ pc' = [pc EXCEPT ![r] = "stamped"]
      /\ UNCHANGED <<users, sessions, pairs, now, presented, targets>>
      /\ tx' = [tx EXCEPT ![r].users[u] = row]
  BY DEF DeleteAccount, DeleteAccountWrites, database
<1>4. row \in UserRow
  BY <1>1, <1>2, RowTypes DEF SoftDeleted, UserRow, Timestamp
<1>5. tx \in [Requests -> Writes]
  BY <1>1 DEF TypeOK
<1> HIDE DEF row
<1>6. tx' \in [Requests -> Writes]
  <2>1. [tx[r] EXCEPT !.users[u] = row] \in Writes
    BY <1>2, <1>4, <1>5, WritesType
  <2> QED
    BY <1>3, <1>5, <2>1
<1>7. /\ \A q \in Requests \ {r} : tx'[q] = tx[q]
      /\ tx'[r].sessions = tx[r].sessions
      /\ tx'[r].pairs = tx[r].pairs
      /\ \A v \in Users \ {u} : tx'[r].users[v] = tx[r].users[v]
  BY <1>2, <1>3, <1>5 DEF Writes
<1>8. TypeOK'
  BY <1>1, <1>2, <1>3, <1>6, RowTypes DEF TypeOK, Stages, Rows, Timestamp
<1>9. Inside(r) /\ pc'[r] = "stamped" /\ lock'[u] = r /\ at'[r] = now
  BY <1>1, <1>2, <1>3, <1>7, NullAssumption DEF Inside, TypeOK, Free, Rows
<1>10. SessionWritesOK(r)'
  <2>1. \A v \in SessionIds : tx[r].sessions[v] # NULL => tx[r].sessions[v].revoked_at # NULL
    BY <1>1, RequestParts DEF SessionWritesOK
  <2> QED
    BY <1>7, <1>9, <2>1, RequestParts DEF SessionWritesOK, Inside, Rows
<1>11. UserWritesOK(r)'
  <2>1. Caller(r)' = u
    BY <1>3 DEF Caller
  <2> QED
    BY <1>1, <1>7, <1>9, <2>1, RequestParts DEF UserWritesOK, Inside, Rows
<1>12. PairWritesOK(r)'
  BY <1>7, <1>9, RequestParts DEF PairWritesOK, Inside
<1>13. CallerOK(r)'
  BY <1>1, <1>3, <1>9, RowTypes, RequestParts DEF CallerOK
<1> QED
  BY <1>8, <1>9, <1>10, <1>11, <1>12, <1>13, InsideStep

LEMMA TickStep ==
    ASSUME IndInv, Tick
    PROVE  IndInv'
<1> USE DEF IndInv
<1>1. now < MaxTime /\ now' = now + 1
      /\ UNCHANGED <<users, sessions, pairs, lock, pc, presented, at, targets, tx>>
  BY DEF Tick, database
<1>2. TypeOK'
  BY <1>1, ClockAssumption DEF TypeOK
<1>3. ClockOK'
  <2>1. \A x \in Nat : x <= now => x <= now + 1
    BY RowTypes
  <2> QED
    BY <1>1, <2>1, RowTypes DEF ClockOK, TypeOK, Timestamp
<1>4. ReferencesOK' /\ WritesOK'
  BY <1>1 DEF ReferencesOK, WritesOK, Caller, CallerSession
<1>5. IssuingOK' /\ DeletingOK'
  BY <1>1 DEF IssuingOK, DeletingOK, IsUsable, Caller, LiveSessionsOf
<1>6. DeletedAccountHasNoLiveSession'
  BY <1>1 DEF DeletedAccountHasNoLiveSession
<1> QED
  BY <1>2, <1>3, <1>4, <1>5, <1>6

-----------------------------------------------------------------------------
(* The theorems.                                                           *)

\* Before its COMMIT a transaction changes no committed row.
LEMMA OnlyCommitWrites ==
    ASSUME NEW r \in Requests, RequestStep(r), ~ Commit(r)
    PROVE  UNCHANGED database
<1>1. ASSUME NEW stage, Rollback(r, stage) PROVE UNCHANGED database
  BY <1>1 DEF Rollback
<1>2. \/ LoginReject(r) \/ RotateReject(r) \/ DenyDeletion(r) \/ DeadlockVictim(r)
      \/ Crash(r) \/ RespondError(r)
      \/ \E s \in SessionIds : RevokeAllViolation(r, s)
      => UNCHANGED database
  BY <1>1 DEF LoginReject, RotateReject, DenyDeletion, DeadlockVictim, Crash,
              RespondError, RevokeAllViolation
<1>3. \/ \E u \in Users : BeginLogin(r, u)
      \/ \E s \in SessionIds, j \in Jtis : LoginUser(r, s, j)
      \/ \E j \in Jtis : VerifyRefreshToken(r, j)
      \/ RotateLockSession(r) \/ RotateReuse(r)
      \/ \E k \in Jtis : RotateExchange(r, k)
      => UNCHANGED database
  BY ZenonT(60) DEF BeginLogin, LoginUser, LoginWrites, VerifyRefreshToken,
         RotateLockSession, RotateReuse, RotateExchange, ExchangeFor
<1>4. \/ \E j \in Jtis, endpoint \in Endpoints : Authenticate(r, j, endpoint)
      \/ LogoutSession(r) \/ LogoutAll(r) \/ DeleteAccount(r)
      => UNCHANGED database
  BY DEF Authenticate, LogoutSession, LogoutAll, DeleteAccount, DeleteAccountWrites
<1>5. \/ RevokeAllSnapshot(r)
      \/ \E s \in SessionIds : RevokeAllRow(r, s) \/ RevokeAllSkip(r, s)
      => UNCHANGED database
  BY DEF RevokeAllSnapshot, UpdateRows, RevokeAllRow, RevokeAllSkip
<1> QED
  BY <1>2, <1>3, <1>4, <1>5 DEF RequestStep

LEMMA NextStep == IndInv /\ [Next]_vars => IndInv'
<1> SUFFICES ASSUME IndInv, [Next]_vars PROVE IndInv'
  OBVIOUS
<1>1. CASE UNCHANGED vars
  BY <1>1 DEF IndInv, vars, TypeOK, ClockOK, ReferencesOK, WritesOK, IssuingOK,
              DeletingOK, DeletedAccountHasNoLiveSession, Caller, CallerSession,
              IsUsable, LiveSessionsOf
<1>2. CASE Tick
  BY <1>2, TickStep
<1>3. CASE \E r \in Requests : RequestStep(r)
  <2>1. PICK r \in Requests : RequestStep(r)
    BY <1>3
  <2>2. CASE \E s \in SessionIds, j \in Jtis : LoginUser(r, s, j)
    BY <2>2, LoginStep
  <2>3. CASE RotateLockSession(r)
    BY <2>3, RotateLockSessionStep
  <2>4. CASE \/ LoginReject(r) \/ RotateReject(r) \/ DenyDeletion(r)
             \/ Crash(r) \/ RespondError(r)
    <3>1. Rollback(r, "idle")
      BY <2>4 DEF LoginReject, RotateReject, DenyDeletion, Crash, RespondError
    <3> QED
      BY <3>1, RollbackStep
  <2>5. CASE DeadlockVictim(r)
    <3>1. Rollback(r, "deadlock_detected")
      BY <2>5 DEF DeadlockVictim
    <3> QED
      BY <3>1, RollbackStep
  <2>6. CASE \E s \in SessionIds : RevokeAllViolation(r, s)
    <3>1. Rollback(r, "integrity_error")
      BY <2>6 DEF RevokeAllViolation
    <3> QED
      BY <3>1, RollbackStep
  <2>7. CASE RotateReuse(r)
    BY <2>7, ReuseStep
  <2>8. CASE \E k \in Jtis : RotateExchange(r, k)
    BY <2>8, ExchangeStep
  <2>9. CASE \E j \in Jtis, endpoint \in Endpoints : Authenticate(r, j, endpoint)
    BY <2>9, AuthenticateStep
  <2>10. CASE LogoutSession(r)
    BY <2>10, LogoutStep
  <2>11. CASE LogoutAll(r)
    BY <2>11, LogoutAllStep
  <2>12. CASE DeleteAccount(r)
    BY <2>12, DeleteAccountStep
  <2>13. CASE RevokeAllSnapshot(r)
    BY <2>13, SnapshotStep
  <2>14. CASE \E s \in SessionIds : RevokeAllRow(r, s)
    BY <2>14, RevokeRowStep
  <2>15. CASE \E s \in SessionIds : RevokeAllSkip(r, s)
    BY <2>15, SkipStep
  <2>16. CASE Commit(r)
    BY <2>16, CommitStep
  <2>17. CASE \E u \in Users : BeginLogin(r, u)
    BY <2>17, BeginLoginStep
  <2>18. CASE \E j \in Jtis : VerifyRefreshToken(r, j)
    BY <2>18, VerifyRefreshTokenStep
  <2> QED
    BY <2>1, <2>2, <2>3, <2>4, <2>5, <2>6, <2>7, <2>8, <2>9, <2>10, <2>11,
       <2>12, <2>13, <2>14, <2>15, <2>16, <2>17, <2>18 DEF RequestStep
<1> QED
  BY <1>1, <1>2, <1>3 DEF Next

\* IndInv holds in every reachable state.
THEOREM Invariance == Spec => []IndInv
<1>1. Init => IndInv
  BY InitIndInv
<1>2. IndInv /\ [Next]_vars => IndInv'
  BY NextStep
<1> QED
  BY <1>1, <1>2, PTL DEF Spec

\* Every committed or pending row has its type and passes the CHECK constraints
\* of its table, for any number of users, sessions, tokens and requests.
THEOREM TypeCorrectness == Spec => []TypeOK
<1>1. IndInv => TypeOK
  BY DEF IndInv
<1> QED
  BY <1>1, Invariance, PTL

\* soft_delete_account leaves no live session behind and no later or concurrent
\* login or refresh brings one back.
THEOREM DeletionSafety == Spec => []DeletedAccountHasNoLiveSession
<1>1. IndInv => DeletedAccountHasNoLiveSession
  BY DEF IndInv
<1> QED
  BY <1>1, Invariance, PTL

\* A committed revocation is final: only Commit changes session rows, and what
\* it writes was read under the lock of a row that was not revoked.
THEOREM RevocationIsFinal == Spec => RevokedSessionIsFrozen
<1> DEFINE Frozen == \A s \in SessionIds :
              sessions[s] # NULL =>
                 (sessions[s].revoked_at # NULL => sessions'[s] = sessions[s])
<1>1. IndInv /\ [Next]_vars => [Frozen]_vars
  <2> SUFFICES ASSUME IndInv, Next PROVE Frozen
    OBVIOUS
  <2>1. CASE sessions' = sessions
    BY <2>1
  <2>2. ASSUME NEW r \in Requests, Commit(r) PROVE Frozen
    BY <2>2 DEF Commit, Merge, IndInv, TypeOK, WritesOK
  <2>3. ASSUME NEW r \in Requests, RequestStep(r), ~ Commit(r)
        PROVE  sessions' = sessions
    BY <2>3, OnlyCommitWrites DEF database
  <2>4. Tick => sessions' = sessions
    BY DEF Tick, database
  <2> QED
    BY <2>1, <2>2, <2>3, <2>4 DEF Next
<1> QED
  BY <1>1, Invariance, PTL DEF Spec, RevokedSessionIsFrozen
=============================================================================
