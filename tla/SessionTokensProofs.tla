------------------------ MODULE SessionTokensProofs ------------------------
(***************************************************************************)
(* Proofs about refresh tokens for any number of users, sessions, tokens   *)
(* and concurrent requests: TokenInv is an inductive invariant on top of   *)
(* IndInv.  With it no token is exchanged twice, the stored hash is that   *)
(* of the one token that may be, the caller's session ends, and the        *)
(* transactions implement SessionPromise.                                  *)
(***************************************************************************)
EXTENDS AuthSessionsProofs

-----------------------------------------------------------------------------
(* What one request's step leaves to the others.                           *)

\* What a step of r leaves alone while it commits nothing.
Private(r) ==
    /\ UNCHANGED <<users, sessions, pairs, now>>
    /\ \A q \in Requests \ {r} :
          /\ tx'[q] = tx[q]
          /\ pc'[q] = pc[q]
          /\ presented'[q] = presented[q]
          /\ targets'[q] = targets[q]

\* The times in the rows are numbers.
LEMMA RowTimes ==
    ASSUME TypeOK
    PROVE  /\ \A s \in SessionIds : sessions[s] # NULL => sessions[s].expires_at \in Nat
           /\ \A j \in Jtis : pairs[j] # NULL => pairs[j].issued_at \in Nat
           /\ \A q \in Requests, j \in Jtis :
                 tx[q].pairs[j] # NULL => tx[q].pairs[j].issued_at \in Nat
           /\ \A u \in Users :
                 users[u].last_login_at # NULL => users[u].last_login_at \in Nat
BY DEF TypeOK, Writes, UserRow, SessionRow, TokenPair, Timestamp

LEMMA InitTokenInv == Init => TokenInv
<1> SUFFICES ASSUME Init PROVE TokenInv
  OBVIOUS
<1>1. ASSUME NEW r \in Requests PROVE StageOK(r) /\ CallerSessionOK(r)
  BY NoWritesType
     DEF Init, StageOK, CallerSessionOK, RevokingStages, WritesNothing, HasCaller, Endpoints
<1>2. HistoryOK
  BY DEF Init, HistoryOK
<1>3. RefreshTokenSingleUse /\ CurrentTokenIsLeaf
  BY DEF Init, RefreshTokenSingleUse, CurrentTokenIsLeaf
<1>4. ExpiryOK /\ LastLoginIsLatest
  BY DEF Init, ExpiryOK, LastLoginIsLatest
<1> QED
  BY <1>1, <1>2, <1>3, <1>4 DEF TokenInv

\* Of a step that commits nothing only the request that makes it is affected.
LEMMA PrivateStep ==
    ASSUME TokenInv, NEW r \in Requests, Private(r),
           StageOK(r)', CallerSessionOK(r)'
    PROVE  TokenInv'
<1> USE DEF Private
<1>1. ASSUME NEW q \in Requests \ {r} PROVE StageOK(q)'
  <2>1. StageOK(q) /\ Caller(q)' = Caller(q)
    BY DEF TokenInv, Caller
  <2>2. \A u \in Users, s \in SessionIds, j \in Jtis :
           Opens(q, u, s, j) => Opens(q, u, s, j)'
    BY DEF Opens
  <2>3. \A s \in SessionIds, k \in Jtis : Exchanges(q, s, k) => Exchanges(q, s, k)'
    BY ZenonT(60) DEF Exchanges
  <2>4. Revokes(q) => Revokes(q)'
    BY <2>1 DEF Revokes
  <2>5. WritesNothing(q) => WritesNothing(q)'
    BY DEF WritesNothing
  <2> QED
    BY <2>1, <2>2, <2>3, <2>4, <2>5 DEF StageOK
<1>2. ASSUME NEW q \in Requests \ {r} PROVE CallerSessionOK(q)'
  BY DEF TokenInv, CallerSessionOK, Caller, CallerSession
<1>3. HistoryOK' /\ RefreshTokenSingleUse' /\ CurrentTokenIsLeaf'
  BY DEF TokenInv, HistoryOK, RefreshTokenSingleUse, CurrentTokenIsLeaf
<1>4. ExpiryOK' /\ LastLoginIsLatest'
  BY DEF TokenInv, ExpiryOK, LastLoginIsLatest
<1> QED
  BY <1>1, <1>2, <1>3, <1>4 DEF TokenInv

LEMMA RollbackTokens ==
    ASSUME IndInv, TokenInv, NEW r \in Requests,
           NEW stage \in {"idle", "integrity_error", "deadlock_detected"},
           Rollback(r, stage)
    PROVE  TokenInv'
<1>1. /\ Finish(r, stage) /\ stage \in Stages
      /\ stage \notin HasCaller \cup RevokingStages \cup {"issuing"}
      /\ UNCHANGED <<users, sessions, pairs, now>>
  BY DEF Rollback, database, Stages, HasCaller, Endpoints, RevokingStages
<1>2. /\ tx'[r] = NoWrites /\ pc'[r] = stage /\ targets'[r] = {}
      /\ Private(r)
  BY <1>1, FinishEffect DEF IndInv, Private
<1>3. StageOK(r)'
  BY <1>1, <1>2, NoWritesType DEF StageOK, WritesNothing
<1>4. CallerSessionOK(r)'
  BY <1>1, <1>2 DEF CallerSessionOK, HasCaller
<1> QED
  BY <1>2, <1>3, <1>4, PrivateStep

-----------------------------------------------------------------------------
(* Steps inside a transaction.                                             *)

LEMMA BeginLoginTokens ==
    ASSUME IndInv, TokenInv, NEW r \in Requests, NEW u \in Users, BeginLogin(r, u)
    PROVE  TokenInv'
<1>1. /\ TypeOK /\ pc[r] = "idle"
      /\ presented' = [presented EXCEPT ![r] = u]
      /\ pc' = [pc EXCEPT ![r] = "logging_in"]
      /\ UNCHANGED <<users, sessions, pairs, now, at, targets, tx>>
  BY DEF IndInv, BeginLogin, database
<1>2. Private(r) /\ pc'[r] = "logging_in"
  BY <1>1 DEF Private, TypeOK
<1>3. WritesNothing(r) /\ targets[r] = {}
  BY <1>1 DEF TokenInv, StageOK, CallerSessionOK, RevokingStages
<1>4. StageOK(r)'
  BY <1>1, <1>2, <1>3 DEF StageOK, RevokingStages, WritesNothing
<1>5. CallerSessionOK(r)'
  BY <1>1, <1>2, <1>3 DEF CallerSessionOK, HasCaller, Endpoints
<1> QED
  BY <1>2, <1>4, <1>5, PrivateStep

LEMMA LoginTokens ==
    ASSUME IndInv, TokenInv, NEW r \in Requests, NEW s \in SessionIds,
           NEW j \in Jtis, LoginUser(r, s, j)
    PROVE  TokenInv'
<1>0. PICK u \in Users : u = presented[r]
  BY RequestParts DEF CallerOK, LoginUser
<1> DEFINE urow == [users[u] EXCEPT !.last_login_at = now,
                                    !.password_hash = Rehashed(@)]
           srow == [user |-> u, refresh_token_hash |-> j, created_at |-> now,
                    expires_at |-> now + RefreshTTL, revoked_at |-> NULL]
           prow == [user |-> u, session |-> s, issued_at |-> now, parent |-> NULL]
<1>1. /\ TypeOK /\ pc[r] = "logging_in" /\ IsUsable(u) /\ sessions[s] = NULL
      /\ pc' = [pc EXCEPT ![r] = "issuing"]
      /\ UNCHANGED <<users, sessions, pairs, now, presented, at, targets>>
      /\ tx' = [tx EXCEPT ![r].users[u] = urow, ![r].sessions[s] = srow,
                          ![r].pairs[j] = prow]
  BY <1>0 DEF IndInv, LoginUser, LoginWrites, database
<1>2. /\ urow.last_login_at = now /\ urow.deleted_at = NULL
      /\ urow.password_hash = "current"
  <2>1. /\ users[u].password_hash \in {"outdated", "current"}
        /\ DOMAIN users[u] = {"is_active", "deleted_at", "last_login_at", "password_hash"}
        /\ users[u].deleted_at = NULL
    BY <1>1 DEF TypeOK, UserRow, IsUsable
  <2>2. Rehashed(users[u].password_hash) = "current"
    BY <2>1 DEF Rehashed, NeedsRehash
  <2> QED
    BY <2>1, <2>2
<1>3. urow # NULL /\ srow # NULL /\ prow # NULL
  <2>1. Rehashed(users[u].password_hash) \in {"outdated", "current"}
    BY <1>1 DEF TypeOK, UserRow, Rehashed, NeedsRehash
  <2>2. urow = [users[u] EXCEPT !.last_login_at = now,
                                !.password_hash = Rehashed(users[u].password_hash)]
    BY <1>1 DEF TypeOK, UserRow
  <2>3. urow \in UserRow
    BY <1>1, <2>1, <2>2, RowTypes DEF TypeOK, UserRow, Timestamp, IsUsable
  <2>4. srow \in SessionRow /\ prow \in TokenPair
    BY <1>1, RowTypes DEF SessionRow, TokenPair, Timestamp
  <2> QED
    BY <2>3, <2>4, NullAssumption
<1>4. /\ srow.user = u /\ srow.refresh_token_hash = j /\ srow.revoked_at = NULL
      /\ srow.created_at = now /\ srow.expires_at = prow.issued_at + RefreshTTL
      /\ prow.issued_at <= now
      /\ prow.session = s /\ prow.parent = NULL
  BY <1>1, RowTypes
<1> HIDE DEF urow, srow, prow
<1>5. WritesNothing(r) /\ targets[r] = {} /\ tx \in [Requests -> Writes]
      /\ pc \in [Requests -> Stages]
  <2>1. targets[r] = {}
    BY <1>1 DEF TokenInv, CallerSessionOK
  <2> QED
    BY <1>1, <2>1 DEF TokenInv, StageOK, RevokingStages, TypeOK
<1>6. /\ \A q \in Requests \ {r} : tx'[q] = tx[q]
      /\ \A v \in Users : tx'[r].users[v] = IF v = u THEN urow ELSE NULL
      /\ \A v \in SessionIds : tx'[r].sessions[v] = IF v = s THEN srow ELSE NULL
      /\ \A v \in Jtis : tx'[r].pairs[v] = IF v = j THEN prow ELSE NULL
      /\ pc'[r] = "issuing"
  BY <1>1, <1>5 DEF Writes, WritesNothing
<1>7. Private(r)
  BY <1>1, <1>5, <1>6 DEF Private
<1>8. users[u].last_login_at # NULL => users[u].last_login_at <= now
  BY DEF TokenInv, HistoryOK
<1>9. Opens(r, u, s, j)'
  BY <1>1, <1>2, <1>3, <1>4, <1>6, <1>8, ZenonT(60) DEF Opens
<1>10. StageOK(r)'
  BY <1>6, <1>9 DEF StageOK, RevokingStages
<1>11. CallerSessionOK(r)'
  BY <1>1, <1>5, <1>6 DEF CallerSessionOK, HasCaller, Endpoints
<1> QED
  BY <1>7, <1>10, <1>11, PrivateStep

LEMMA VerifyRefreshTokenTokens ==
    ASSUME IndInv, TokenInv, NEW r \in Requests, NEW j \in Jtis,
           VerifyRefreshToken(r, j)
    PROVE  TokenInv'
<1>1. /\ TypeOK /\ pc[r] = "idle"
      /\ presented' = [presented EXCEPT ![r] = j]
      /\ pc' = [pc EXCEPT ![r] = "refreshing"]
      /\ UNCHANGED <<users, sessions, pairs, now, at, targets, tx>>
  BY DEF IndInv, VerifyRefreshToken, database
<1>2. Private(r) /\ pc'[r] = "refreshing"
  BY <1>1 DEF Private, TypeOK
<1>3. WritesNothing(r) /\ targets[r] = {}
  BY <1>1 DEF TokenInv, StageOK, CallerSessionOK, RevokingStages
<1>4. StageOK(r)'
  BY <1>1, <1>2, <1>3 DEF StageOK, RevokingStages, WritesNothing
<1>5. CallerSessionOK(r)'
  BY <1>1, <1>2, <1>3 DEF CallerSessionOK, HasCaller, Endpoints
<1> QED
  BY <1>2, <1>4, <1>5, PrivateStep

LEMMA RotateLockSessionTokens ==
    ASSUME IndInv, TokenInv, NEW r \in Requests, RotateLockSession(r)
    PROVE  TokenInv'
<1>1. /\ TypeOK /\ pc[r] = "refreshing" /\ sessions[CallerSession(r)].user = Caller(r)
      /\ pc' = [pc EXCEPT ![r] = "rotating"]
      /\ UNCHANGED <<users, sessions, pairs, now, presented, at, targets, tx>>
  BY DEF IndInv, RotateLockSession, SessionFound, Caller, CallerSession, database
<1>2. Private(r) /\ pc'[r] = "rotating"
  BY <1>1 DEF Private, TypeOK
<1>3. WritesNothing(r) /\ targets[r] = {}
  BY <1>1 DEF TokenInv, StageOK, CallerSessionOK, RevokingStages
<1>4. StageOK(r)'
  BY <1>1, <1>2, <1>3 DEF StageOK, RevokingStages, WritesNothing
<1>5. CallerSessionOK(r)'
  BY <1>1, <1>2, <1>3 DEF CallerSessionOK, Caller, CallerSession
<1> QED
  BY <1>2, <1>4, <1>5, PrivateStep

LEMMA AuthenticateTokens ==
    ASSUME IndInv, TokenInv, NEW r \in Requests, NEW j \in Jtis,
           NEW endpoint \in Endpoints, Authenticate(r, j, endpoint)
    PROVE  TokenInv'
<1>1. /\ TypeOK /\ pc[r] = "idle" /\ sessions[pairs[j].session].user = pairs[j].user
      /\ presented' = [presented EXCEPT ![r] = j]
      /\ pc' = [pc EXCEPT ![r] = endpoint]
      /\ UNCHANGED <<users, sessions, pairs, now, lock, at, targets, tx>>
  BY DEF IndInv, Authenticate, SessionFound, database
<1>2. Private(r) /\ pc'[r] = endpoint /\ presented'[r] = j
  BY <1>1 DEF Private, TypeOK
<1>3. WritesNothing(r) /\ targets[r] = {}
  BY <1>1 DEF TokenInv, StageOK, CallerSessionOK, RevokingStages
<1>4. StageOK(r)'
  BY <1>1, <1>2, <1>3 DEF StageOK, RevokingStages, WritesNothing, Endpoints
<1>5. CallerSessionOK(r)'
  BY <1>1, <1>2, <1>3 DEF CallerSessionOK, Caller, CallerSession, Endpoints
<1> QED
  BY <1>2, <1>4, <1>5, PrivateStep

\* WriteRevocation of a session of the caller, at a logout or a replay.
LEMMA RevocationTokens ==
    ASSUME IndInv, TokenInv, NEW r \in Requests, pc[r] \in {"rotating", "logout"},
           WriteRevocation(r, CallerSession(r)),
           pc' = [pc EXCEPT ![r] = "revoking"],
           UNCHANGED <<users, sessions, pairs, now, presented, at, targets>>
    PROVE  TokenInv'
<1> DEFINE s == CallerSession(r)
           row == [sessions[s] EXCEPT !.revoked_at = now]
<1>1. /\ TypeOK /\ pc[r] \in HasCaller /\ s \in SessionIds
      /\ sessions[s] # NULL /\ sessions[s] \in SessionRow
      /\ sessions[s].user = Caller(r) /\ sessions[s].created_at <= now /\ now \in Nat
  BY CallerTypes, RowTypes
     DEF IndInv, TokenInv, CallerSessionOK, HasCaller, Endpoints, ClockOK
<1>2. WritesNothing(r) /\ targets[r] = {} /\ tx \in [Requests -> Writes]
  BY <1>1 DEF TokenInv, StageOK, CallerSessionOK, RevokingStages, TypeOK
<1>3. /\ row \in SessionRow
      /\ row.revoked_at = now
      /\ row = [sessions[s] EXCEPT !.revoked_at = row.revoked_at]
  BY <1>1 DEF SessionRow, Timestamp
<1>4. row # NULL /\ now # NULL
  BY <1>1, <1>3, NullAssumption DEF Timestamp
<1>5. tx' = IF sessions[s].revoked_at = NULL
            THEN [tx EXCEPT ![r].sessions[s] = row] ELSE tx
  BY DEF WriteRevocation
<1> HIDE DEF s, row
<1>6. /\ pc'[r] = "revoking"
      /\ Private(r)
      /\ tx'[r].users = tx[r].users
      /\ tx'[r].pairs = tx[r].pairs
      /\ \A v \in SessionIds :
            tx'[r].sessions[v] = IF v = s /\ sessions[s].revoked_at = NULL
                                 THEN row ELSE NULL
  BY <1>1, <1>2, <1>5 DEF Private, Writes, WritesNothing, TypeOK
<1>7. Caller(r)' = Caller(r) /\ CallerSession(r)' = s
  BY DEF Caller, CallerSession, s
<1>8. Revokes(r)'
  BY <1>1, <1>2, <1>3, <1>4, <1>6, <1>7 DEF Revokes, WritesNothing
<1>9. StageOK(r)'
  BY <1>6, <1>8 DEF StageOK, RevokingStages
<1>10. CallerSessionOK(r)'
  BY <1>1, <1>2, <1>4, <1>6, <1>7 DEF CallerSessionOK
<1> QED
  BY <1>6, <1>9, <1>10, PrivateStep

LEMMA ExchangeTokens ==
    ASSUME IndInv, TokenInv, NEW r \in Requests, NEW k \in Jtis,
           RotateExchange(r, k)
    PROVE  TokenInv'
<1> DEFINE s == CallerSession(r)
           row == RotatedRow(s, k)
           prow == [user |-> Caller(r), session |-> s, issued_at |-> now,
                    parent |-> presented[r]]
<1>1. /\ TypeOK /\ pc[r] = "rotating" /\ pc[r] \in HasCaller
      /\ s \in SessionIds /\ presented[r] \in Jtis /\ Caller(r) \in Users
      /\ sessions[s] # NULL /\ sessions[s] \in SessionRow
      /\ sessions[s].created_at <= now
      /\ sessions[s].refresh_token_hash = presented[r]
  BY CallerTypes, RowTypes DEF IndInv, RotateExchange, HashMatches, HasCaller, ClockOK
<1>2. /\ pc' = [pc EXCEPT ![r] = "issuing"]
      /\ UNCHANGED <<users, sessions, pairs, now, presented, at, targets>>
      /\ tx' = [tx EXCEPT ![r].sessions[s] = row, ![r].pairs[k] = prow]
  BY DEF RotateExchange, ExchangeFor, database
<1>3. WritesNothing(r) /\ targets[r] = {} /\ tx \in [Requests -> Writes]
  BY <1>1 DEF TokenInv, StageOK, CallerSessionOK, RevokingStages, TypeOK
<1>4. /\ prow.session = s /\ prow.parent = sessions[s].refresh_token_hash
      /\ row = [sessions[s] EXCEPT !.refresh_token_hash = k,
                                   !.expires_at = prow.issued_at + RefreshTTL]
  BY <1>1 DEF RotatedRow
<1>11. /\ sessions[s].expires_at <= prow.issued_at + RefreshTTL
       /\ prow.issued_at <= now
  <2>1. /\ pairs[presented[r]] # NULL
        /\ pairs[presented[r]].issued_at \in Nat
        /\ pairs[presented[r]].issued_at <= now
        /\ sessions[s].expires_at = pairs[presented[r]].issued_at + RefreshTTL
    BY <1>1, RowTimes DEF TokenInv, ExpiryOK, HistoryOK
  <2>2. prow.issued_at = now /\ now \in Nat /\ RefreshTTL \in Nat
    BY <1>1, RowTypes
  <2> QED
    BY <2>1, <2>2
<1>5. row # NULL /\ prow # NULL
  <2>1. now + RefreshTTL \in Nat /\ now + RefreshTTL > sessions[s].created_at
    BY <1>1, RowTypes DEF SessionRow, Timestamp
  <2>2. row \in SessionRow
    BY <1>1, <2>1 DEF RotatedRow, SessionRow, Timestamp
  <2>3. prow \in TokenPair
    BY <1>1, RowTypes DEF TokenPair, Timestamp
  <2> QED
    BY <2>2, <2>3, NullAssumption
<1> HIDE DEF s, row, prow
<1>6. /\ Private(r)
      /\ pc'[r] = "issuing"
      /\ tx'[r].users = tx[r].users
      /\ \A v \in SessionIds : tx'[r].sessions[v] = IF v = s THEN row ELSE NULL
      /\ \A v \in Jtis : tx'[r].pairs[v] = IF v = k THEN prow ELSE NULL
  BY <1>1, <1>2, <1>3 DEF Private, Writes, WritesNothing, TypeOK
<1>7. s' = s
  BY <1>2 DEF s, CallerSession
<1>8. StageOK(r)'
  <2>1. \A v \in Users : tx'[r].users[v] = NULL
    BY <1>3, <1>6 DEF WritesNothing
  <2>2. /\ \A v \in SessionIds : tx'[r].sessions[v] # NULL <=> v = s
        /\ \A v \in Jtis : tx'[r].pairs[v] # NULL <=> v = k
    BY <1>5, <1>6
  <2>3. tx'[r].sessions[s] = row /\ tx'[r].pairs[k] = prow /\ sessions' = sessions
    BY <1>1, <1>2, <1>6
  <2>4. Exchanges(r, s, k)'
    BY <1>1, <1>2, <1>4, <1>7, <1>11, <2>1, <2>2, <2>3 DEF Exchanges
  <2> QED
    BY <1>1, <1>6, <1>7, <2>4 DEF StageOK, RevokingStages
<1>9. CallerSessionOK(r)'
  BY <1>2, <1>3, <1>6 DEF CallerSessionOK, HasCaller, Endpoints
<1> QED
  BY <1>6, <1>8, <1>9, PrivateStep

LEMMA LogoutAllTokens ==
    ASSUME IndInv, TokenInv, NEW r \in Requests, LogoutAll(r)
    PROVE  TokenInv'
<1>1. /\ TypeOK /\ pc[r] = "logout_all"
      /\ pc' = [pc EXCEPT ![r] = "stamped"]
      /\ UNCHANGED <<users, sessions, pairs, now, presented, targets, tx>>
  BY DEF IndInv, LogoutAll, database
<1>2. Private(r) /\ pc'[r] = "stamped"
  BY <1>1 DEF Private, TypeOK
<1>3. WritesNothing(r) /\ targets[r] = {}
  BY <1>1 DEF TokenInv, StageOK, CallerSessionOK, RevokingStages
<1>4. StageOK(r)'
  BY <1>1, <1>2, <1>3 DEF StageOK, RevokingStages, WritesNothing, Revokes
<1>5. CallerSessionOK(r)'
  BY <1>1, <1>2, <1>3
     DEF TokenInv, CallerSessionOK, Caller, CallerSession, HasCaller, Endpoints
<1> QED
  BY <1>2, <1>4, <1>5, PrivateStep

LEMMA DeleteAccountTokens ==
    ASSUME IndInv, TokenInv, NEW r \in Requests, DeleteAccount(r)
    PROVE  TokenInv'
<1> DEFINE u == Caller(r)
           row == SoftDeleted(u)
<1>1. /\ TypeOK /\ pc[r] = "delete_account" /\ pc[r] \in HasCaller
      /\ u \in Users /\ users[u] \in UserRow
      /\ now \in Nat /\ now # NULL
  BY CallerTypes, RowTypes, NullAssumption
     DEF IndInv, DeleteAccount, HasCaller, Endpoints, TypeOK, Timestamp
<1>2. /\ pc' = [pc EXCEPT ![r] = "stamped"]
      /\ UNCHANGED <<users, sessions, pairs, now, presented, targets>>
      /\ tx' = [tx EXCEPT ![r].users[u] = row]
  BY DEF DeleteAccount, DeleteAccountWrites, database
<1>3. WritesNothing(r) /\ targets[r] = {} /\ tx \in [Requests -> Writes]
  BY <1>1 DEF TokenInv, StageOK, CallerSessionOK, RevokingStages, TypeOK
<1>4. /\ row.deleted_at # NULL
      /\ row.last_login_at = users[u].last_login_at
      /\ row.password_hash = users[u].password_hash
  BY <1>1 DEF SoftDeleted, UserRow
<1>5. u' = u
  BY <1>2 DEF Caller
<1> HIDE DEF u, row
<1>6. /\ Private(r)
      /\ pc'[r] = "stamped"
      /\ tx'[r].sessions = tx[r].sessions
      /\ tx'[r].pairs = tx[r].pairs
      /\ \A v \in Users \ {u} : tx'[r].users[v] = NULL
      /\ tx'[r].users[u] = row
  BY <1>1, <1>2, <1>3 DEF Private, Writes, WritesNothing, TypeOK
<1>7. Revokes(r)'
  <2>1. Caller(r)' = u
    BY <1>5 DEF u
  <2> QED
    BY <1>2, <1>3, <1>4, <1>6, <2>1 DEF Revokes, WritesNothing
<1>8. StageOK(r)'
  BY <1>6, <1>7 DEF StageOK, RevokingStages
<1>9. CallerSessionOK(r)'
  BY <1>1, <1>2, <1>3, <1>6
     DEF TokenInv, CallerSessionOK, Caller, CallerSession, HasCaller
<1> QED
  BY <1>6, <1>8, <1>9, PrivateStep

LEMMA SnapshotTokens ==
    ASSUME IndInv, TokenInv, NEW r \in Requests, RevokeAllSnapshot(r)
    PROVE  TokenInv'
<1>1. /\ TypeOK /\ pc[r] = "stamped" /\ pc[r] \in HasCaller
      /\ targets' = [targets EXCEPT ![r] = LiveSessionsOf(Caller(r))]
      /\ pc' = [pc EXCEPT ![r] = "updating"]
      /\ UNCHANGED <<users, sessions, pairs, now, presented, tx>>
  BY DEF IndInv, RevokeAllSnapshot, UpdateRows, HasCaller, database
<1>2. /\ Private(r) /\ pc'[r] = "updating" /\ targets'[r] = LiveSessionsOf(Caller(r))
      /\ Caller(r)' = Caller(r) /\ CallerSession(r)' = CallerSession(r)
  BY <1>1 DEF Private, TypeOK, Caller, CallerSession
<1>3. StageOK(r)'
  BY <1>1, <1>2 DEF TokenInv, StageOK, RevokingStages, Revokes
<1>4. CallerSessionOK(r)'
  <2>1. CallerSession(r) \in SessionIds /\ sessions[CallerSession(r)] # NULL
    BY <1>1, CallerTypes DEF IndInv
  <2>2. sessions[CallerSession(r)].user = Caller(r)
    BY <1>1 DEF TokenInv, CallerSessionOK
  <2> QED
    BY <1>1, <1>2, <2>1, <2>2 DEF CallerSessionOK, LiveSessionsOf
<1> QED
  BY <1>2, <1>3, <1>4, PrivateStep

LEMMA RevokeRowTokens ==
    ASSUME IndInv, TokenInv, NEW r \in Requests, NEW s \in SessionIds,
           RevokeAllRow(r, s)
    PROVE  TokenInv'
<1> DEFINE row == [sessions[s] EXCEPT !.revoked_at = at[r]]
<1>1. /\ TypeOK /\ pc[r] = "updating" /\ s \in targets[r]
      /\ sessions[s] # NULL /\ sessions[s] \in SessionRow
      /\ at[r] >= sessions[s].created_at
      /\ at[r] \in Timestamp /\ at[r] # NULL
      /\ targets' = [targets EXCEPT ![r] = @ \ {s}]
      /\ UNCHANGED <<users, sessions, pairs, now, pc, presented, at>>
      /\ tx' = [tx EXCEPT ![r].sessions[s] = row]
  BY RowTypes, NullAssumption
     DEF IndInv, RevokeAllRow, VisitRow, ReferencesOK, TypeOK, database
<1>2. /\ row \in SessionRow /\ row.revoked_at # NULL
      /\ row = [sessions[s] EXCEPT !.revoked_at = row.revoked_at]
  BY <1>1 DEF SessionRow, Timestamp
<1>3. row # NULL
  BY <1>2, NullAssumption
<1> HIDE DEF row
<1>4. /\ Private(r)
      /\ targets'[r] = targets[r] \ {s}
      /\ tx'[r].users = tx[r].users
      /\ tx'[r].pairs = tx[r].pairs
      /\ \A v \in SessionIds :
            tx'[r].sessions[v] = IF v = s THEN row ELSE tx[r].sessions[v]
  BY <1>1 DEF Private, TypeOK, Writes
<1>5. /\ Caller(r)' = Caller(r) /\ CallerSession(r)' = CallerSession(r)
      /\ Revokes(r) /\ CallerSessionOK(r) /\ CallerSession(r) \in SessionIds
  BY <1>1, CallerTypes
     DEF Caller, CallerSession, TokenInv, StageOK, RevokingStages, IndInv, HasCaller
<1>6. StageOK(r)'
  <2>1. Revokes(r)'
    BY <1>1, <1>2, <1>4, <1>5 DEF Revokes, CallerSessionOK
  <2> QED
    BY <1>1, <2>1 DEF StageOK, RevokingStages
<1>7. CallerSessionOK(r)'
  BY <1>1, <1>3, <1>4, <1>5 DEF CallerSessionOK
<1> QED
  BY <1>4, <1>6, <1>7, PrivateStep

LEMMA SkipTokens ==
    ASSUME IndInv, TokenInv, NEW r \in Requests, NEW s \in SessionIds,
           RevokeAllSkip(r, s)
    PROVE  TokenInv'
<1>1. /\ TypeOK /\ pc[r] = "updating" /\ sessions[s].revoked_at # NULL
      /\ targets' = [targets EXCEPT ![r] = @ \ {s}]
      /\ UNCHANGED <<users, sessions, pairs, now, pc, presented, at, tx>>
  BY DEF IndInv, RevokeAllSkip, VisitRow, database
<1>2. Private(r) /\ targets'[r] = targets[r] \ {s}
  BY <1>1 DEF Private, TypeOK
<1>3. /\ Caller(r)' = Caller(r) /\ CallerSession(r)' = CallerSession(r)
      /\ StageOK(r) /\ CallerSessionOK(r)
  BY <1>1 DEF Caller, CallerSession, TokenInv
<1>4. StageOK(r)'
  BY <1>1, <1>3 DEF StageOK, RevokingStages, Revokes
<1>5. CallerSessionOK(r)'
  BY <1>1, <1>2, <1>3 DEF CallerSessionOK
<1> QED
  BY <1>2, <1>4, <1>5, PrivateStep

LEMMA TickTokens ==
    ASSUME IndInv, TokenInv, Tick
    PROVE  TokenInv'
<1>1. /\ now' = now + 1 /\ now \in Nat /\ TypeOK
      /\ UNCHANGED <<users, sessions, pairs, lock, pc, presented, at, targets, tx>>
  BY RowTypes DEF IndInv, Tick, database
<1>2. ASSUME NEW r \in Requests PROVE StageOK(r)' /\ CallerSessionOK(r)'
  <2>1. StageOK(r) /\ CallerSessionOK(r) /\ Caller(r)' = Caller(r)
        /\ CallerSession(r)' = CallerSession(r)
    BY <1>1 DEF TokenInv, Caller, CallerSession
  <2>6. \A j \in Jtis : tx[r].pairs[j] # NULL =>
          (tx[r].pairs[j].issued_at <= now => tx[r].pairs[j].issued_at <= now')
    BY <1>1, RowTimes
  <2>2. \A u \in Users, s \in SessionIds, j \in Jtis :
           Opens(r, u, s, j) => Opens(r, u, s, j)'
    BY <1>1, <2>6 DEF Opens
  <2>3. \A s \in SessionIds, k \in Jtis : Exchanges(r, s, k) => Exchanges(r, s, k)'
    BY <1>1, <2>6 DEF Exchanges
  <2>4. (Revokes(r) => Revokes(r)') /\ (WritesNothing(r) => WritesNothing(r)')
    BY <1>1, <2>1 DEF Revokes, WritesNothing
  <2>5. StageOK(r)'
    BY <1>1, <2>1, <2>2, <2>3, <2>4 DEF StageOK, RevokingStages
  <2> QED
    BY <1>1, <2>1, <2>5 DEF CallerSessionOK
<1>3. HistoryOK'
  <2>1. \A u \in Users : users[u].last_login_at # NULL => users[u].last_login_at \in Nat
    BY <1>1 DEF TypeOK, UserRow, Timestamp
  <2>2. \A j \in Jtis : pairs[j] # NULL => pairs[j].issued_at \in Nat
    BY <1>1, RowTimes
  <2> QED
    BY <1>1, <2>1, <2>2 DEF TokenInv, HistoryOK
<1>4. RefreshTokenSingleUse' /\ CurrentTokenIsLeaf'
  BY <1>1 DEF TokenInv, RefreshTokenSingleUse, CurrentTokenIsLeaf
<1>5. ExpiryOK' /\ LastLoginIsLatest'
  BY <1>1 DEF TokenInv, ExpiryOK, LastLoginIsLatest
<1> QED
  BY <1>2, <1>3, <1>4, <1>5 DEF TokenInv

-----------------------------------------------------------------------------
(* COMMIT.                                                                 *)

LEMMA CommitEffect ==
    ASSUME TypeOK, NEW r \in Requests, Commit(r)
    PROVE  /\ now' = now
           /\ users' \in [Users -> UserRow]
           /\ \A u \in Users : users'[u] = IF tx[r].users[u] = NULL
                                           THEN users[u] ELSE tx[r].users[u]
           /\ \A s \in SessionIds : sessions'[s] = IF tx[r].sessions[s] = NULL
                                                   THEN sessions[s] ELSE tx[r].sessions[s]
           /\ \A j \in Jtis : pairs'[j] = IF tx[r].pairs[j] = NULL
                                          THEN pairs[j] ELSE tx[r].pairs[j]
           /\ pc'[r] = "idle" /\ tx'[r] = NoWrites /\ targets'[r] = {}
           /\ \A q \in Requests \ {r} :
                 /\ tx'[q] = tx[q]
                 /\ pc'[q] = pc[q]
                 /\ presented'[q] = presented[q]
                 /\ targets'[q] = targets[q]
<1>1. Finish(r, "idle") /\ "idle" \in Stages /\ now' = now
  BY DEF Commit, Stages
<1>2. /\ users' = Merge(users, tx[r].users) /\ users \in [Users -> UserRow]
      /\ sessions' = Merge(sessions, tx[r].sessions) /\ DOMAIN sessions = SessionIds
      /\ pairs' = Merge(pairs, tx[r].pairs) /\ DOMAIN pairs = Jtis
      /\ tx[r].users \in [Users -> UserRow \cup {NULL}]
  BY DEF Commit, TypeOK, Writes
<1> QED
  BY <1>1, <1>2, FinishEffect DEF Merge

\* What a COMMIT leaves of the rows that were there, and all of those that
\* another transaction has locked.
LEMMA CommittedRows ==
    ASSUME IndInv, TokenInv, NEW r \in Requests, Commit(r)
    PROVE  /\ \A s \in SessionIds : sessions[s] # NULL =>
                /\ sessions'[s] # NULL
                /\ sessions'[s].user = sessions[s].user
                /\ sessions[s].revoked_at # NULL => sessions'[s].revoked_at # NULL
           /\ \A j \in Jtis : pairs[j] # NULL => pairs'[j] = pairs[j]
           /\ \A q \in Requests \ {r} :
                /\ \A u \in Users : lock[u] = q => users'[u] = users[u]
                /\ \A s \in SessionIds : lock[s] = q => sessions'[s] = sessions[s]
<1>1. TypeOK /\ WritesOK
  BY DEF IndInv
<1>2. StageOK(r) /\ pc[r] \in {"issuing"} \cup RevokingStages
  BY DEF Commit, TokenInv, RevokingStages
<1>3. ASSUME NEW s \in SessionIds, sessions[s] # NULL, tx[r].sessions[s] # NULL
      PROVE  tx[r].sessions[s].user = sessions[s].user
  <2>1. ASSUME NEW v \in SessionIds, NEW k \in Jtis, Exchanges(r, v, k)
        PROVE  tx[r].sessions[s].user = sessions[s].user
    <3>1. sessions[v] \in SessionRow /\ v = s
      BY <1>1, <1>3, <2>1, RowTypes DEF Exchanges
    <3> QED
      BY <2>1, <3>1 DEF Exchanges, SessionRow
  <2>2. ~ \E u \in Users, v \in SessionIds, j \in Jtis : Opens(r, u, v, j)
    BY <1>3 DEF Opens
  <2>3. ASSUME Revokes(r) PROVE tx[r].sessions[s].user = sessions[s].user
    <3>1. sessions[s] \in SessionRow
      BY <1>1, <1>3, RowTypes
    <3> QED
      BY <1>3, <2>3, <3>1 DEF Revokes, SessionRow
  <2> QED
    BY <1>2, <2>1, <2>2, <2>3 DEF StageOK
<1>4. \A s \in SessionIds : sessions[s] # NULL =>
        /\ sessions'[s] # NULL
        /\ sessions'[s].user = sessions[s].user
        /\ sessions[s].revoked_at # NULL => sessions'[s].revoked_at # NULL
  BY <1>1, <1>3, CommitEffect DEF WritesOK
<1>5. \A j \in Jtis : pairs[j] # NULL => pairs'[j] = pairs[j]
  BY <1>1, CommitEffect DEF WritesOK
<1>6. \A q \in Requests \ {r} :
        /\ \A u \in Users : lock[u] = q => users'[u] = users[u]
        /\ \A s \in SessionIds : lock[s] = q => sessions'[s] = sessions[s]
  BY <1>1, CommitEffect DEF WritesOK
<1> QED
  BY <1>4, <1>5, <1>6

LEMMA CommitKeepsStages ==
    ASSUME IndInv, TokenInv, NEW r \in Requests, Commit(r),
           NEW q \in Requests \ {r}
    PROVE  StageOK(q)' /\ CallerSessionOK(q)'
<1>1. TypeOK /\ WritesOK /\ ReferencesOK
  BY DEF IndInv
<1>2. StageOK(q) /\ CallerSessionOK(q)
  BY DEF TokenInv
<1>3. /\ tx'[q] = tx[q] /\ pc'[q] = pc[q] /\ now' = now
      /\ presented'[q] = presented[q] /\ targets'[q] = targets[q]
  BY <1>1, CommitEffect
<1>4. pc[q] \in HasCaller => Caller(q)' = Caller(q) /\ CallerSession(q)' = CallerSession(q)
  BY <1>1, <1>3, CallerTypes, CommittedRows DEF Caller, CallerSession
<1>5. /\ \A u \in Users : tx[q].users[u] # NULL => users'[u] = users[u]
      /\ \A s \in SessionIds : tx[q].sessions[s] # NULL => sessions'[s] = sessions[s]
  BY <1>1, CommittedRows DEF WritesOK
<1>6. \A u \in Users, s \in SessionIds, j \in Jtis :
         Opens(q, u, s, j) => Opens(q, u, s, j)'
  BY <1>3, <1>5 DEF Opens
<1>7. \A s \in SessionIds, k \in Jtis : Exchanges(q, s, k) => Exchanges(q, s, k)'
  BY <1>3, <1>5, ZenonT(60) DEF Exchanges
<1>8. pc[q] \in HasCaller /\ Revokes(q) => Revokes(q)'
  BY <1>3, <1>4, <1>5 DEF Revokes
<1>9. WritesNothing(q) => WritesNothing(q)'
  BY <1>3 DEF WritesNothing
<1>10. StageOK(q)'
  BY <1>2, <1>3, <1>6, <1>7, <1>8, <1>9 DEF StageOK, RevokingStages, HasCaller
<1>11. CallerSessionOK(q)'
  <2>1. pc[q] \in HasCaller =>
          CallerSession(q) \in SessionIds /\ sessions[CallerSession(q)] # NULL
    BY <1>1, CallerTypes
  <2>2. \A s \in targets[q] : s \in SessionIds /\ sessions[s] # NULL /\ pc[q] \in HasCaller
    BY <1>1, <1>2 DEF ReferencesOK, TypeOK, CallerSessionOK, HasCaller
  <2> QED
    BY <1>2, <1>3, <1>4, <2>1, <2>2, CommittedRows DEF CallerSessionOK, HasCaller
<1> QED
  BY <1>10, <1>11

\* The part of TokenInv that is about committed rows.
Agreement ==
    /\ HistoryOK
    /\ RefreshTokenSingleUse
    /\ CurrentTokenIsLeaf
    /\ ExpiryOK
    /\ LastLoginIsLatest

LEMMA CommitOpens ==
    ASSUME IndInv, TokenInv, NEW r \in Requests, Commit(r),
           NEW u \in Users, NEW s \in SessionIds, NEW j \in Jtis, Opens(r, u, s, j)
    PROVE  Agreement'
<1> DEFINE urow == tx[r].users[u]
           srow == tx[r].sessions[s]
           prow == tx[r].pairs[j]
<1>1. /\ TypeOK /\ WritesOK /\ ReferencesOK /\ ClockOK
      /\ HistoryOK /\ RefreshTokenSingleUse /\ CurrentTokenIsLeaf
      /\ ExpiryOK /\ LastLoginIsLatest
  BY DEF IndInv, TokenInv
<1>2. /\ now' = now
      /\ \A v \in Users : users'[v] = IF v = u THEN urow ELSE users[v]
      /\ \A v \in SessionIds : sessions'[v] = IF v = s THEN srow ELSE sessions[v]
      /\ \A v \in Jtis : pairs'[v] = IF v = j THEN prow ELSE pairs[v]
  BY <1>1, CommitEffect DEF Opens
<1>3. /\ sessions[s] = NULL /\ pairs[j] = NULL /\ prow # NULL /\ srow # NULL
      /\ srow.user = u /\ srow.refresh_token_hash = j /\ prow.session = s
      /\ prow.parent = NULL /\ srow.expires_at = prow.issued_at + RefreshTTL
      /\ prow.issued_at \in Nat /\ prow.issued_at <= now
      /\ urow.password_hash = "current" /\ urow.last_login_at = srow.created_at
      /\ users[u].last_login_at # NULL => users[u].last_login_at <= urow.last_login_at
      /\ srow.created_at \in Nat /\ srow.created_at <= now
  BY <1>1, RowTypes, RowTimes DEF Opens, WritesOK, ClockOK
<1>4. \A v \in Jtis : pairs[v] # NULL =>
        /\ pairs[v].session \in SessionIds /\ pairs[v].session # s
        /\ pairs[v].parent \in Jtis \cup {NULL} /\ pairs[v].parent # j
  BY <1>1, <1>3, RowTypes, NullAssumption DEF ReferencesOK, HistoryOK, TokenPair
<1>5. \A v \in SessionIds : sessions[v] # NULL =>
        /\ v # s
        /\ sessions[v].user \in Users /\ sessions[v].created_at \in Nat
        /\ sessions[v].refresh_token_hash \in Jtis
  BY <1>1, <1>3, RowTypes DEF SessionRow
<1> HIDE DEF urow, srow, prow
<1>6. j # NULL
  BY NullAssumption
<1>7. HistoryOK'
  <2>1. \A v \in Jtis : pairs'[v] # NULL =>
          /\ pairs'[v].parent # NULL => pairs'[pairs'[v].parent] # NULL
          /\ pairs'[v].issued_at <= now'
    BY <1>1, <1>2, <1>3, <1>4 DEF HistoryOK
  <2>2. \A v \in Users : users'[v].last_login_at # NULL => users'[v].last_login_at <= now'
    BY <1>1, <1>2, <1>3 DEF HistoryOK
  <2> QED
    BY <2>1, <2>2 DEF HistoryOK
<1>8. RefreshTokenSingleUse'
  BY <1>1, <1>2, <1>3 DEF RefreshTokenSingleUse
<1>9. CurrentTokenIsLeaf'
  <2>1. SUFFICES ASSUME NEW v \in Jtis, pairs'[v] # NULL
                 PROVE  sessions'[pairs'[v].session].refresh_token_hash = v
                          <=> \A k \in Jtis : pairs'[k] # NULL => pairs'[k].parent # v
    BY DEF CurrentTokenIsLeaf
  <2>2. CASE v = j
    BY <1>2, <1>3, <1>4, <1>6, <2>2
  <2>3. CASE v # j
    <3>1. /\ pairs'[v] = pairs[v] /\ pairs[v] # NULL /\ v # NULL
          /\ sessions'[pairs'[v].session] = sessions[pairs[v].session]
      BY <1>2, <1>4, <2>1, <2>3, NullAssumption
    <3>2. sessions[pairs[v].session].refresh_token_hash = v
            <=> \A k \in Jtis : pairs[k] # NULL => pairs[k].parent # v
      BY <1>1, <3>1 DEF CurrentTokenIsLeaf
    <3>3. (\A k \in Jtis : pairs[k] # NULL => pairs[k].parent # v)
            <=> \A k \in Jtis : pairs'[k] # NULL => pairs'[k].parent # v
      BY <1>2, <1>3, <3>1
    <3> QED
      BY <3>1, <3>2, <3>3
  <2> QED
    BY <2>2, <2>3
<1>10. ExpiryOK'
  <2>1. \A v \in SessionIds : sessions'[v] # NULL =>
          LET i == sessions'[v].refresh_token_hash IN
          /\ pairs'[i] # NULL
          /\ pairs'[i].session = v
          /\ sessions'[v].expires_at = pairs'[i].issued_at + RefreshTTL
    BY <1>1, <1>2, <1>3, <1>5 DEF ExpiryOK
  <2>2. \A v \in Jtis : pairs'[v] # NULL =>
          pairs'[v].issued_at + RefreshTTL <= sessions'[pairs'[v].session].expires_at
    BY <1>1, <1>2, <1>3, <1>4, RowTypes, RowTimes DEF ExpiryOK
  <2> QED
    BY <2>1, <2>2 DEF ExpiryOK
<1>11. LastLoginIsLatest'
  <2>1. \A v \in SessionIds : sessions[v] # NULL =>
          /\ users[sessions[v].user].last_login_at # NULL
          /\ users[sessions[v].user].last_login_at \in Nat
          /\ users[sessions[v].user].last_login_at >= sessions[v].created_at
          /\ users[sessions[v].user].password_hash = "current"
    BY <1>1, <1>5 DEF LastLoginIsLatest, TypeOK, UserRow, Timestamp
  <2>2. srow.created_at # NULL
    BY <1>3, NullAssumption DEF Timestamp
  <2> QED
    BY <1>2, <1>3, <1>5, <2>1, <2>2 DEF LastLoginIsLatest
<1> QED
  BY <1>7, <1>8, <1>9, <1>10, <1>11 DEF Agreement

LEMMA CommitExchanges ==
    ASSUME IndInv, TokenInv, NEW r \in Requests, Commit(r),
           NEW s \in SessionIds, NEW k \in Jtis, Exchanges(r, s, k)
    PROVE  Agreement'
<1> DEFINE srow == tx[r].sessions[s]
           prow == tx[r].pairs[k]
           j == sessions[s].refresh_token_hash
<1>1. /\ TypeOK /\ WritesOK /\ ReferencesOK /\ ClockOK
      /\ HistoryOK /\ RefreshTokenSingleUse /\ CurrentTokenIsLeaf
      /\ ExpiryOK /\ LastLoginIsLatest
  BY DEF IndInv, TokenInv
<1>2. /\ now' = now
      /\ \A v \in Users : users'[v] = users[v]
      /\ \A v \in SessionIds : sessions'[v] = IF v = s THEN srow ELSE sessions[v]
      /\ \A v \in Jtis : pairs'[v] = IF v = k THEN prow ELSE pairs[v]
  BY <1>1, CommitEffect DEF Exchanges
<1>3. /\ sessions[s] # NULL /\ sessions[s] \in SessionRow
      /\ pairs[k] = NULL /\ prow # NULL /\ srow # NULL
      /\ prow.session = s /\ prow.parent = j
      /\ j \in Jtis /\ pairs[j] # NULL /\ pairs[j].session = s
  BY <1>1, RowTypes DEF Exchanges, WritesOK, ExpiryOK, SessionRow
<1>4. /\ srow.user = sessions[s].user /\ srow.created_at = sessions[s].created_at
      /\ srow.refresh_token_hash = k
      /\ srow.expires_at = prow.issued_at + RefreshTTL
      /\ sessions[s].expires_at <= srow.expires_at /\ prow.issued_at <= now
  BY <1>3 DEF Exchanges, SessionRow
<1>5. \A v \in Jtis : pairs[v] # NULL =>
        /\ pairs[v].session \in SessionIds
        /\ pairs[v].parent \in Jtis \cup {NULL} /\ pairs[v].parent # k
  BY <1>1, <1>3, RowTypes, NullAssumption DEF ReferencesOK, HistoryOK, TokenPair
<1>6. \A v \in SessionIds : sessions[v] # NULL =>
        sessions[v].user \in Users /\ sessions[v].refresh_token_hash \in Jtis
  BY <1>1, RowTypes DEF SessionRow
<1>7. \A v \in Jtis : pairs[v] # NULL => pairs[v].parent # j
  BY <1>1, <1>3 DEF CurrentTokenIsLeaf
<1> HIDE DEF srow, prow, j
<1>8. j # NULL /\ j # k
  BY <1>3, NullAssumption
<1>9. HistoryOK'
  BY <1>1, <1>2, <1>3, <1>4, <1>5 DEF HistoryOK
<1>10. RefreshTokenSingleUse'
  BY <1>1, <1>2, <1>3, <1>7 DEF RefreshTokenSingleUse
<1>11. CurrentTokenIsLeaf'
  <2>1. SUFFICES ASSUME NEW v \in Jtis, pairs'[v] # NULL
                 PROVE  sessions'[pairs'[v].session].refresh_token_hash = v
                          <=> \A i \in Jtis : pairs'[i] # NULL => pairs'[i].parent # v
    BY DEF CurrentTokenIsLeaf
  <2>2. CASE v = k
    BY <1>2, <1>3, <1>4, <1>5, <1>8, <2>2
  <2>3. CASE v = j
    BY <1>2, <1>3, <1>4, <1>8, <2>3
  <2>4. CASE v # k /\ v # j
    <3>1. pairs'[v] = pairs[v] /\ pairs[v] # NULL
      BY <1>2, <2>1, <2>4
    <3>2. sessions[pairs[v].session].refresh_token_hash = v
            <=> \A i \in Jtis : pairs[i] # NULL => pairs[i].parent # v
      BY <1>1, <3>1 DEF CurrentTokenIsLeaf
    <3>3. (\A i \in Jtis : pairs[i] # NULL => pairs[i].parent # v)
            <=> \A i \in Jtis : pairs'[i] # NULL => pairs'[i].parent # v
      BY <1>2, <1>3, <2>4
    <3>4. sessions'[pairs'[v].session].refresh_token_hash = v
            <=> sessions[pairs[v].session].refresh_token_hash = v
      BY <1>2, <1>4, <1>5, <2>4, <3>1 DEF j
    <3> QED
      BY <3>2, <3>3, <3>4
  <2> QED
    BY <2>2, <2>3, <2>4
<1>12. ExpiryOK'
  <2>1. \A v \in SessionIds : sessions'[v] # NULL =>
          LET i == sessions'[v].refresh_token_hash IN
          /\ pairs'[i] # NULL
          /\ pairs'[i].session = v
          /\ sessions'[v].expires_at = pairs'[i].issued_at + RefreshTTL
    BY <1>1, <1>2, <1>3, <1>4, <1>6 DEF ExpiryOK
  <2>2. ASSUME NEW v \in Jtis, pairs'[v] # NULL
        PROVE  pairs'[v].issued_at + RefreshTTL <= sessions'[pairs'[v].session].expires_at
    <3>1. CASE v = k
      <4>1. prow.issued_at \in Nat /\ RefreshTTL \in Nat
        BY <1>1, <1>3, RowTypes, RowTimes DEF prow
      <4> QED
        BY <1>2, <1>3, <1>4, <3>1, <4>1
    <3>2. CASE v # k
      <4>1. /\ pairs'[v] = pairs[v] /\ pairs[v] # NULL /\ pairs[v].session \in SessionIds
            /\ pairs[v].issued_at + RefreshTTL <= sessions[pairs[v].session].expires_at
        BY <1>1, <1>2, <1>5, <2>2, <3>2 DEF ExpiryOK
      <4>2. CASE pairs[v].session # s
        BY <1>2, <4>1, <4>2
      <4>3. CASE pairs[v].session = s
        <5>1. /\ pairs[v].issued_at \in Nat /\ RefreshTTL \in Nat
              /\ sessions[s].expires_at \in Nat
              /\ srow.expires_at \in Nat
          BY <1>1, <1>3, <1>4, <4>1, RowTypes, RowTimes DEF srow, prow
        <5> QED
          BY <1>2, <1>4, <4>1, <4>3, <5>1
      <4> QED
        BY <4>2, <4>3
    <3> QED
      BY <3>1, <3>2
  <2> QED
    BY <2>1, <2>2 DEF ExpiryOK
<1>13. LastLoginIsLatest'
  BY <1>1, <1>2, <1>3, <1>4, <1>6 DEF LastLoginIsLatest
<1> QED
  BY <1>9, <1>10, <1>11, <1>12, <1>13 DEF Agreement

LEMMA CommitRevokes ==
    ASSUME IndInv, TokenInv, NEW r \in Requests, Commit(r), Revokes(r)
    PROVE  Agreement'
<1>1. /\ TypeOK
      /\ HistoryOK /\ RefreshTokenSingleUse /\ CurrentTokenIsLeaf
      /\ ExpiryOK /\ LastLoginIsLatest
  BY DEF IndInv, TokenInv
<1>2. /\ now' = now
      /\ \A v \in Jtis : pairs'[v] = pairs[v]
      /\ \A u \in Users : users'[u].last_login_at = users[u].last_login_at
                          /\ users'[u].password_hash = users[u].password_hash
  BY <1>1, CommitEffect DEF Revokes
<1>3. ASSUME NEW s \in SessionIds
      PROVE  /\ sessions'[s] # NULL <=> sessions[s] # NULL
             /\ sessions'[s] # NULL =>
                  /\ sessions'[s].user = sessions[s].user
                  /\ sessions'[s].created_at = sessions[s].created_at
                  /\ sessions'[s].expires_at = sessions[s].expires_at
                  /\ sessions'[s].refresh_token_hash = sessions[s].refresh_token_hash
  <2>1. CASE tx[r].sessions[s] = NULL
    BY <1>1, <2>1, CommitEffect
  <2>2. CASE tx[r].sessions[s] # NULL
    <3>1. sessions[s] # NULL /\ sessions[s] \in SessionRow
          /\ sessions'[s] = [sessions[s] EXCEPT !.revoked_at = tx[r].sessions[s].revoked_at]
          /\ sessions'[s] # NULL
      BY <1>1, <2>2, CommitEffect, RowTypes DEF Revokes
    <3> QED
      BY <3>1 DEF SessionRow
  <2> QED
    BY <2>1, <2>2
<1>4. HistoryOK' /\ RefreshTokenSingleUse'
  <2>1. \A v \in Jtis : pairs[v] # NULL => pairs[v].parent \in Jtis \cup {NULL}
    BY <1>1, RowTypes DEF TokenPair
  <2> QED
    BY <1>1, <1>2, <2>1 DEF HistoryOK, RefreshTokenSingleUse
<1>5. CurrentTokenIsLeaf'
  <2>1. \A v \in Jtis : pairs[v] # NULL =>
          pairs[v].session \in SessionIds /\ sessions[pairs[v].session] # NULL
    BY <1>1, RowTypes DEF IndInv, ReferencesOK
  <2> QED
    BY <1>1, <1>2, <1>3, <2>1 DEF CurrentTokenIsLeaf
<1>6. ExpiryOK'
  <2>1. \A s \in SessionIds : sessions[s] # NULL => sessions[s].refresh_token_hash \in Jtis
    BY <1>1, RowTypes DEF SessionRow
  <2> QED
    BY <1>1, <1>2, <1>3, <2>1, RowTypes DEF ExpiryOK, IndInv, ReferencesOK
<1>7. LastLoginIsLatest'
  <2>1. \A s \in SessionIds : sessions[s] # NULL => sessions[s].user \in Users
    BY <1>1, RowTypes
  <2> QED
    BY <1>1, <1>2, <1>3, <2>1 DEF LastLoginIsLatest
<1> QED
  BY <1>4, <1>5, <1>6, <1>7 DEF Agreement

LEMMA CommitTokens ==
    ASSUME IndInv, TokenInv, NEW r \in Requests, Commit(r)
    PROVE  TokenInv'
<1>1. StageOK(r) /\ pc[r] \in {"issuing"} \cup RevokingStages
  BY DEF Commit, TokenInv, RevokingStages
<1>2. Agreement'
  BY <1>1, CommitOpens, CommitExchanges, CommitRevokes DEF StageOK
<1>3. StageOK(r)' /\ CallerSessionOK(r)'
  <2>1. pc'[r] = "idle" /\ tx'[r] = NoWrites /\ targets'[r] = {}
    BY CommitEffect DEF IndInv
  <2> QED
    BY <2>1, NoWritesType
       DEF StageOK, CallerSessionOK, WritesNothing, RevokingStages, HasCaller, Endpoints
<1> QED
  BY <1>2, <1>3, CommitKeepsStages DEF TokenInv, Agreement

LEMMA TokenNextStep == IndInv /\ TokenInv /\ [Next]_vars => TokenInv'
<1> SUFFICES ASSUME IndInv, TokenInv, [Next]_vars PROVE TokenInv'
  OBVIOUS
<1>1. CASE UNCHANGED vars
  <2>1. ASSUME NEW r \in Requests PROVE StageOK(r)' /\ CallerSessionOK(r)'
    <3>1. StageOK(r) /\ CallerSessionOK(r)
      BY DEF TokenInv
    <3>2. \A u \in Users, s \in SessionIds, j \in Jtis :
             Opens(r, u, s, j) => Opens(r, u, s, j)'
      BY <1>1 DEF vars, Opens
    <3>3. \A s \in SessionIds, k \in Jtis : Exchanges(r, s, k) => Exchanges(r, s, k)'
      BY <1>1 DEF vars, Exchanges
    <3>4. (Revokes(r) => Revokes(r)') /\ (WritesNothing(r) => WritesNothing(r)')
      BY <1>1 DEF vars, Revokes, WritesNothing, Caller
    <3> QED
      BY <1>1, <3>1, <3>2, <3>3, <3>4
         DEF vars, StageOK, CallerSessionOK, Caller, CallerSession, RevokingStages
  <2>2. HistoryOK' /\ RefreshTokenSingleUse' /\ CurrentTokenIsLeaf'
    BY <1>1 DEF vars, TokenInv, HistoryOK, RefreshTokenSingleUse, CurrentTokenIsLeaf
  <2>3. ExpiryOK' /\ LastLoginIsLatest'
    BY <1>1 DEF vars, TokenInv, ExpiryOK, LastLoginIsLatest
  <2> QED
    BY <2>1, <2>2, <2>3 DEF TokenInv
<1>2. CASE Tick
  BY <1>2, TickTokens
<1>3. CASE \E r \in Requests : RequestStep(r)
  <2>1. PICK r \in Requests : RequestStep(r)
    BY <1>3
  <2>2. CASE \E s \in SessionIds, j \in Jtis : LoginUser(r, s, j)
    BY <2>2, LoginTokens
  <2>3. CASE RotateLockSession(r)
    BY <2>3, RotateLockSessionTokens
  <2>4. CASE \/ LoginReject(r) \/ RotateReject(r) \/ DenyDeletion(r)
             \/ Crash(r) \/ RespondError(r)
    <3>1. Rollback(r, "idle")
      BY <2>4 DEF LoginReject, RotateReject, DenyDeletion, Crash, RespondError
    <3> QED
      BY <3>1, RollbackTokens
  <2>5. CASE DeadlockVictim(r)
    <3>1. Rollback(r, "deadlock_detected")
      BY <2>5 DEF DeadlockVictim
    <3> QED
      BY <3>1, RollbackTokens
  <2>6. CASE \E s \in SessionIds : RevokeAllViolation(r, s)
    <3>1. Rollback(r, "integrity_error")
      BY <2>6 DEF RevokeAllViolation
    <3> QED
      BY <3>1, RollbackTokens
  <2>7. CASE RotateReuse(r)
    <3>1. /\ pc[r] \in {"rotating", "logout"}
          /\ WriteRevocation(r, CallerSession(r))
          /\ pc' = [pc EXCEPT ![r] = "revoking"]
          /\ UNCHANGED <<users, sessions, pairs, now, presented, at, targets>>
      BY <2>7 DEF RotateReuse, database
    <3> QED
      BY <3>1, RevocationTokens
  <2>8. CASE \E k \in Jtis : RotateExchange(r, k)
    BY <2>8, ExchangeTokens
  <2>9. CASE \E j \in Jtis, endpoint \in Endpoints : Authenticate(r, j, endpoint)
    BY <2>9, AuthenticateTokens
  <2>10. CASE LogoutSession(r)
    <3>1. /\ pc[r] \in {"rotating", "logout"}
          /\ WriteRevocation(r, CallerSession(r))
          /\ pc' = [pc EXCEPT ![r] = "revoking"]
          /\ UNCHANGED <<users, sessions, pairs, now, presented, at, targets>>
      BY <2>10 DEF LogoutSession, database
    <3> QED
      BY <3>1, RevocationTokens
  <2>11. CASE LogoutAll(r)
    BY <2>11, LogoutAllTokens
  <2>12. CASE DeleteAccount(r)
    BY <2>12, DeleteAccountTokens
  <2>13. CASE RevokeAllSnapshot(r)
    BY <2>13, SnapshotTokens
  <2>14. CASE \E s \in SessionIds : RevokeAllRow(r, s)
    BY <2>14, RevokeRowTokens
  <2>15. CASE \E s \in SessionIds : RevokeAllSkip(r, s)
    BY <2>15, SkipTokens
  <2>16. CASE Commit(r)
    BY <2>16, CommitTokens
  <2>17. CASE \E u \in Users : BeginLogin(r, u)
    BY <2>17, BeginLoginTokens
  <2>18. CASE \E j \in Jtis : VerifyRefreshToken(r, j)
    BY <2>18, VerifyRefreshTokenTokens
  <2> QED
    BY <2>1, <2>2, <2>3, <2>4, <2>5, <2>6, <2>7, <2>8, <2>9, <2>10, <2>11,
       <2>12, <2>13, <2>14, <2>15, <2>16, <2>17, <2>18 DEF RequestStep
<1> QED
  BY <1>1, <1>2, <1>3 DEF Next

-----------------------------------------------------------------------------
(* The theorems about tokens.                                              *)

\* TokenInv holds in every reachable state.
THEOREM TokenInvariance == Spec => []TokenInv
<1>1. Init => TokenInv
  BY InitTokenInv
<1>2. IndInv /\ TokenInv /\ [Next]_vars => TokenInv'
  BY TokenNextStep
<1> QED
  BY <1>1, <1>2, Invariance, PTL DEF Spec

\* rotate_refresh_token exchanges no token twice, however many workers get it
\* at the same time and however often a client sends it again.
THEOREM SingleUse == Spec => []RefreshTokenSingleUse
<1>1. TokenInv => RefreshTokenSingleUse
  BY DEF TokenInv
<1> QED
  BY <1>1, TokenInvariance, PTL

\* The hash that the session row stores is that of its one unspent token, so
\* reuse detection ends the session of a replay and of nobody else.
THEOREM StoredHashIsCurrent == Spec => []CurrentTokenIsLeaf
<1>1. TokenInv => CurrentTokenIsLeaf
  BY DEF TokenInv
<1> QED
  BY <1>1, TokenInvariance, PTL

\* jwt.encode takes less than a second away.
LEMMA WholeSecondsBound ==
    ASSUME NEW t \in Nat
    PROVE  WholeSeconds(t) <= t /\ t < WholeSeconds(t) + TicksPerSecond
<1>1. TicksPerSecond \in Nat /\ TicksPerSecond > 0
  BY SecondAssumption
<1>2. t % TicksPerSecond \in 0 .. TicksPerSecond - 1
  BY <1>1
<1> QED
  BY <1>1, <1>2 DEF WholeSeconds

\* The row of a session is over no earlier than any refresh token signed for it,
\* and less than a second later than the current one, whose exp claim is cut to
\* whole seconds.
THEOREM RowOutlivesTokens == Spec => []SessionOutlivesItsTokens
<1>1. IndInv /\ TokenInv => SessionOutlivesItsTokens
  <2> SUFFICES ASSUME IndInv, TokenInv, NEW j \in Jtis, pairs[j] # NULL
               PROVE  LET session == sessions[pairs[j].session] IN
                      /\ RefreshExp(j) <= session.expires_at
                      /\ session.refresh_token_hash = j =>
                            session.expires_at < RefreshExp(j) + TicksPerSecond
    BY DEF SessionOutlivesItsTokens
  <2> DEFINE s == pairs[j].session
             t == pairs[j].issued_at + RefreshTTL
  <2>1. TypeOK /\ ReferencesOK /\ ExpiryOK
    BY DEF IndInv, TokenInv
  <2>2. /\ pairs[j].issued_at \in Nat /\ RefreshTTL \in Nat /\ TicksPerSecond \in Nat
        /\ s \in SessionIds /\ sessions[s] # NULL
        /\ sessions[s].expires_at \in Nat
    BY <2>1, RowTypes, RowTimes, SecondAssumption DEF ReferencesOK
  <2>3. t \in Nat /\ t <= sessions[s].expires_at
    BY <2>1, <2>2 DEF ExpiryOK
  <2>4. sessions[s].refresh_token_hash = j => sessions[s].expires_at = t
    BY <2>1, <2>2 DEF ExpiryOK
  <2>5. /\ RefreshExp(j) = WholeSeconds(t) /\ RefreshExp(j) \in Int
        /\ RefreshExp(j) <= t /\ t < RefreshExp(j) + TicksPerSecond
    <3>1. RefreshExp(j) = WholeSeconds(t)
      BY DEF RefreshExp
    <3>2. WholeSeconds(t) \in Int
      BY <2>2, <2>3, SecondAssumption DEF WholeSeconds
    <3> QED
      BY <2>3, <3>1, <3>2, WholeSecondsBound
  <2> HIDE DEF s, t
  <2>6. RefreshExp(j) <= sessions[s].expires_at
    BY <2>2, <2>3, <2>5
  <2>7. sessions[s].refresh_token_hash = j =>
          sessions[s].expires_at < RefreshExp(j) + TicksPerSecond
    BY <2>4, <2>5
  <2> QED
    BY <2>6, <2>7 DEF s
<1> QED
  BY <1>1, Invariance, TokenInvariance, PTL

\* No concurrent login or deletion undoes the last_login_at or the new password
\* hash of a login that has committed.
THEOREM LoginIsRecorded == Spec => []LastLoginIsLatest
<1>1. TokenInv => LastLoginIsLatest
  BY DEF TokenInv
<1> QED
  BY <1>1, TokenInvariance, PTL

\* A logout, logout-all, deletion or detected replay that commits leaves the
\* session it came with revoked.
THEOREM CallerIsLoggedOut == Spec => CallerSessionEnds
<1> DEFINE Ends == \A r \in Requests :
              Commit(r) /\ pc[r] \in {"revoking", "updating"}
                 => sessions'[CallerSession(r)].revoked_at # NULL
<1>1. IndInv /\ TokenInv /\ [Next]_vars => [Ends]_vars
  <2> SUFFICES ASSUME IndInv, TokenInv, NEW r \in Requests, Commit(r),
                      pc[r] \in {"revoking", "updating"}
               PROVE  sessions'[CallerSession(r)].revoked_at # NULL
    OBVIOUS
  <2> DEFINE s == CallerSession(r)
  <2>1. TypeOK /\ s \in SessionIds /\ sessions[s] # NULL
    BY CallerTypes DEF IndInv, HasCaller
  <2>2. Revokes(r) /\ CallerSessionOK(r)
    BY DEF TokenInv, StageOK, RevokingStages
  <2>3. sessions[s].revoked_at # NULL \/ tx[r].sessions[s] # NULL
    BY <2>2 DEF CallerSessionOK, Commit
  <2>4. CASE sessions[s].revoked_at # NULL
    BY <2>1, <2>4, CommittedRows
  <2>5. CASE tx[r].sessions[s] # NULL
    <3>1. sessions'[s] = tx[r].sessions[s]
      BY <2>1, <2>5, CommitEffect
    <3> QED
      BY <2>1, <2>2, <2>5, <3>1 DEF Revokes
  <2> QED
    BY <2>3, <2>4, <2>5
<1> QED
  BY <1>1, Invariance, TokenInvariance, PTL DEF Spec, CallerSessionEnds

-----------------------------------------------------------------------------
(* The transactions implement the promise.                                 *)

\* The refinement mapping of Promise, by name.
Closed == {u \in Users : users[u].deleted_at # NULL}
Owner == [s \in SessionIds |-> IF sessions[s] = NULL THEN NULL ELSE sessions[s].user]
Current == [s \in SessionIds |->
              IF sessions[s] = NULL THEN NULL ELSE sessions[s].refresh_token_hash]
Issued == {j \in Jtis : pairs[j] # NULL}
Ended == {s \in SessionIds : sessions[s] # NULL /\ sessions[s].revoked_at # NULL}

LEMMA PromiseInit == Init => Promise!Init
<1> SUFFICES ASSUME Init PROVE Promise!Init
  OBVIOUS
<1>1. /\ \A u \in Users : users[u].deleted_at = NULL
      /\ \A s \in SessionIds : sessions[s] = NULL
      /\ \A j \in Jtis : pairs[j] = NULL
  BY DEF Init
<1> QED
  BY <1>1 DEF Promise!Init

\* The COMMIT of a login opens a session.
LEMMA CommitOpensPromise ==
    ASSUME IndInv, TokenInv, NEW r \in Requests, Commit(r),
           NEW u \in Users, NEW s \in SessionIds, NEW j \in Jtis, Opens(r, u, s, j)
    PROVE  Promise!Open(u, s, j)
<1> DEFINE srow == tx[r].sessions[s]
<1>1. /\ TypeOK /\ WritesOK /\ IssuingOK /\ u # NULL
      /\ srow # NULL /\ srow.user = u /\ srow.refresh_token_hash = j
      /\ srow.revoked_at = NULL /\ sessions[s] = NULL /\ pairs[j] = NULL
      /\ tx[r].users[u].deleted_at = NULL /\ users[u].deleted_at = NULL
  BY NullAssumption DEF IndInv, Opens, WritesOK, IssuingOK, IsUsable, Rows
<1>2. /\ \A v \in Users : users'[v] = IF v = u THEN tx[r].users[u] ELSE users[v]
      /\ \A v \in SessionIds : sessions'[v] = IF v = s THEN srow ELSE sessions[v]
      /\ \A v \in Jtis : pairs'[v] = IF v = j THEN tx[r].pairs[j] ELSE pairs[v]
      /\ tx[r].pairs[j] # NULL
  BY <1>1, CommitEffect DEF Opens
<1> HIDE DEF srow
<1>3. Closed' = Closed /\ u \notin Closed
  BY <1>1, <1>2 DEF Closed
<1>4. Owner' = [Owner EXCEPT ![s] = u] /\ Owner[s] = NULL
  BY <1>1, <1>2, ZenonT(60) DEF Owner
<1>5. Current' = [Current EXCEPT ![s] = j]
  BY <1>1, <1>2 DEF Current
<1>6. Issued' = Issued \cup {j} /\ j \notin Issued
  BY <1>1, <1>2 DEF Issued
<1>7. Ended' = Ended
  BY <1>1, <1>2 DEF Ended
<1> QED
  BY <1>3, <1>4, <1>5, <1>6, <1>7
     DEF Promise!Open, Promise!Issue, Closed, Owner, Current, Issued, Ended

\* The COMMIT of a rotation exchanges the current token.
LEMMA CommitExchangesPromise ==
    ASSUME IndInv, TokenInv, NEW r \in Requests, Commit(r), pc[r] = "issuing",
           NEW s \in SessionIds, NEW k \in Jtis, Exchanges(r, s, k)
    PROVE  Promise!Exchange(s, k)
<1> DEFINE srow == tx[r].sessions[s]
           u == sessions[s].user
<1>1. /\ TypeOK /\ WritesOK /\ IssuingOK
      /\ srow # NULL /\ sessions[s] # NULL /\ sessions[s] \in SessionRow
      /\ u \in Users /\ u # NULL
      /\ pairs[k] = NULL /\ sessions[s].revoked_at = NULL
  BY RowTypes, NullAssumption DEF IndInv, Exchanges, WritesOK, Rows
<1>2. /\ srow.user = u /\ srow.refresh_token_hash = k /\ srow.revoked_at = NULL
  BY <1>1 DEF Exchanges, SessionRow
<1>3. users[u].deleted_at = NULL
  BY <1>1, <1>2 DEF IssuingOK, IsUsable
<1>4. /\ \A v \in Users : users'[v] = users[v]
      /\ \A v \in SessionIds : sessions'[v] = IF v = s THEN srow ELSE sessions[v]
      /\ \A v \in Jtis : pairs'[v] = IF v = k THEN tx[r].pairs[k] ELSE pairs[v]
      /\ tx[r].pairs[k] # NULL
  BY <1>1, CommitEffect DEF Exchanges
<1> HIDE DEF srow, u
<1>5. Closed' = Closed
  BY <1>4 DEF Closed
<1>6. Owner' = Owner /\ Owner[s] = u /\ u \notin Closed
  BY <1>1, <1>2, <1>3, <1>4 DEF Owner, Closed, u
<1>7. Current' = [Current EXCEPT ![s] = k]
  BY <1>1, <1>2, <1>4, ZenonT(60) DEF Current
<1>8. Issued' = Issued \cup {k} /\ k \notin Issued
  BY <1>1, <1>4 DEF Issued
<1>9. Ended' = Ended /\ s \notin Ended
  BY <1>1, <1>2, <1>4 DEF Ended
<1> QED
  BY <1>1, <1>5, <1>6, <1>7, <1>8, <1>9
     DEF Promise!Exchange, Promise!Issue, Closed, Owner, Current, Issued, Ended

\* The COMMIT of a revocation ends sessions, that of a deletion all of them.
LEMMA CommitRevokesPromise ==
    ASSUME IndInv, TokenInv, NEW r \in Requests, Commit(r), Revokes(r),
           pc[r] \in {"revoking", "updating"}
    PROVE  \/ \E u \in Users, S \in SUBSET SessionIds : Promise!End(u, S)
           \/ \E u \in Users : Promise!Close(u)
<1>1. PICK u \in Users : u = Caller(r)
  BY CallerTypes DEF IndInv, HasCaller
<1>2. PICK S \in SUBSET SessionIds : S = {s \in SessionIds : tx[r].sessions[s] # NULL}
  OBVIOUS
<1>3. TypeOK /\ u # NULL
  BY NullAssumption DEF IndInv, Rows
<1>4. /\ \A v \in Jtis : pairs'[v] = pairs[v]
      /\ \A v \in Users : tx[r].users[v] # NULL => v = u /\ tx[r].users[v].deleted_at # NULL
      /\ \A v \in Users : users'[v] = IF tx[r].users[v] = NULL
                                      THEN users[v] ELSE tx[r].users[v]
  BY <1>1, <1>3, CommitEffect DEF Revokes
<1>5. ASSUME NEW s \in SessionIds
      PROVE  /\ sessions'[s] # NULL <=> sessions[s] # NULL
             /\ sessions[s] # NULL =>
                  /\ sessions'[s].user = sessions[s].user
                  /\ sessions'[s].refresh_token_hash = sessions[s].refresh_token_hash
                  /\ sessions'[s].revoked_at # NULL
                       <=> (sessions[s].revoked_at # NULL \/ s \in S)
             /\ s \in S => sessions[s] # NULL /\ sessions[s].user = u
  <2>1. CASE s \notin S
    <3>1. tx[r].sessions[s] = NULL
      BY <1>2, <2>1
    <3> QED
      BY <1>3, <2>1, <3>1, CommitEffect
  <2>2. CASE s \in S
    <3>1. /\ tx[r].sessions[s] # NULL
          /\ sessions[s] # NULL /\ sessions[s] \in SessionRow /\ sessions[s].user = u
          /\ sessions'[s] = [sessions[s] EXCEPT !.revoked_at = tx[r].sessions[s].revoked_at]
          /\ tx[r].sessions[s].revoked_at # NULL
          /\ sessions'[s] # NULL
      BY <1>1, <1>2, <1>3, <2>2, CommitEffect, RowTypes DEF Revokes
    <3> QED
      BY <2>2, <3>1 DEF SessionRow
  <2> QED
    BY <2>1, <2>2
<1>6. Owner' = Owner /\ Current' = Current /\ Issued' = Issued
  <2>1. Owner' = Owner
    BY <1>5 DEF Owner
  <2>2. Current' = Current
    BY <1>5 DEF Current
  <2>3. Issued' = Issued
    BY <1>4 DEF Issued
  <2> QED
    BY <2>1, <2>2, <2>3
<1>7. Ended' = Ended \cup S
  BY <1>5 DEF Ended
<1>8. S \subseteq {s \in SessionIds : Owner[s] = u}
  BY <1>3, <1>5 DEF Owner
<1>9. CASE \A v \in Users : tx[r].users[v] = NULL
  <2>1. Closed' = Closed
    BY <1>4, <1>9 DEF Closed
  <2>2. Promise!End(u, S)
    BY <1>6, <1>7, <1>8, <2>1
       DEF Promise!End, Promise!SessionsOf, Closed, Owner, Current, Issued, Ended
  <2> QED
    BY <2>2
<1>10. CASE \E v \in Users : tx[r].users[v] # NULL
  <2>1. tx[r].users[u] # NULL /\ tx[r].users[u].deleted_at # NULL
    BY <1>4, <1>10
  <2>2. pc[r] = "updating" /\ targets[r] = {} /\ DeletingOK
    BY <2>1 DEF Revokes, Commit, IndInv
  <2>3. Closed' = Closed \cup {u}
    BY <1>4, <2>1 DEF Closed
  <2>4. \A s \in SessionIds :
          sessions[s] # NULL /\ sessions[s].user = u => sessions[s].revoked_at # NULL \/ s \in S
    BY <1>2, <2>1, <2>2 DEF DeletingOK, LiveSessionsOf
  <2>5. Ended' = Ended \cup {s \in SessionIds : Owner[s] = u}
    BY <1>3, <1>5, <1>7, <1>8, <2>4 DEF Ended, Owner
  <2>6. Promise!Close(u)
    BY <1>6, <2>3, <2>5
       DEF Promise!Close, Promise!SessionsOf, Closed, Owner, Current, Issued, Ended
  <2> QED
    BY <2>6
<1> QED
  BY <1>9, <1>10

LEMMA PromiseStep == IndInv /\ TokenInv /\ [Next]_vars => [Promise!Next]_(Promise!vars)
<1> SUFFICES ASSUME IndInv, TokenInv, [Next]_vars
             PROVE  Promise!Next \/ UNCHANGED Promise!vars
  OBVIOUS
<1>1. UNCHANGED database => UNCHANGED Promise!vars
  BY DEF database, Promise!vars
<1>2. UNCHANGED vars \/ Tick => UNCHANGED database
  BY DEF vars, database, Tick
<1>3. ASSUME NEW r \in Requests, RequestStep(r), ~ Commit(r)
      PROVE  UNCHANGED database
  BY <1>3, OnlyCommitWrites
<1>4. ASSUME NEW r \in Requests, Commit(r)
      PROVE  Promise!Next
  <2>1. StageOK(r)
    BY DEF TokenInv
  <2>2. CASE pc[r] = "issuing"
    BY <1>4, <2>1, <2>2, CommitOpensPromise, CommitExchangesPromise
       DEF StageOK, Promise!Next
  <2>3. CASE pc[r] \in {"revoking", "updating"}
    BY <1>4, <2>1, <2>3, CommitRevokesPromise DEF StageOK, RevokingStages, Promise!Next
  <2> QED
    BY <1>4, <2>2, <2>3 DEF Commit
<1> QED
  BY <1>1, <1>2, <1>3, <1>4 DEF Next

\* The transactions of the auth service implement what SessionPromise says of
\* sessions: each COMMIT is one of its steps, every other step is invisible.
THEOREM PromiseIsKept == Spec => ImplementsPromise
<1>1. Init => Promise!Init
  BY PromiseInit
<1>2. IndInv /\ TokenInv /\ [Next]_vars => [Promise!Next]_(Promise!vars)
  BY PromiseStep
<1> QED
  BY <1>1, <1>2, Invariance, TokenInvariance, PTL
     DEF Spec, ImplementsPromise, Promise!Spec
=============================================================================
