---------------------------- MODULE AuthSessions ----------------------------
(***************************************************************************)
(* The session life cycle of the auth service: login, refresh-token        *)
(* rotation with reuse detection, logout, logout-all and the soft deletion *)
(* of an account, as concurrent HTTP requests against PostgreSQL.          *)
(*                                                                         *)
(* A request runs inside transaction.atomic at READ COMMITTED: what it     *)
(* reads is the committed tables, what it writes stays in its transaction  *)
(* until Commit, and select_for_update() or an UPDATE takes row locks that *)
(* the end of the transaction releases.  A step is the code between two    *)
(* points where another request can be seen: a statement that may wait for *)
(* a row lock, a statement with a snapshot of its own, or COMMIT.          *)
(***************************************************************************)
EXTENDS Integers, Relation

CONSTANTS
    Users,       \* primary keys of auth_users
    SessionIds,  \* primary keys of auth_sessions (uuid4)
    Jtis,        \* jti of the refresh tokens ever signed (uuid4)
    Requests,    \* worker threads, each serving one request at a time
    NULL,
    AccessTTL,   \* settings.JWT_ACCESS_TTL_MINUTES, in ticks
    RefreshTTL,  \* settings.JWT_REFRESH_TTL_DAYS, in ticks
    TicksPerSecond,  \* the clock is finer than the seconds a JWT counts
    MaxTime      \* bound of the clock

ASSUME TTLAssumption == AccessTTL \in Nat /\ RefreshTTL \in Nat \ {0}
ASSUME SecondAssumption == TicksPerSecond \in Nat \ {0}
ASSUME ClockAssumption == MaxTime \in Nat

Timestamp == Nat
Rows == Users \cup SessionIds

\* The rows that pass the CHECK constraints of their tables.
UserRow ==
    {w \in [is_active     : BOOLEAN,
            deleted_at    : Timestamp \cup {NULL},
            last_login_at : Timestamp \cup {NULL},
            password_hash : {"outdated", "current"}] :
        w.deleted_at # NULL => ~ w.is_active}

SessionRow ==
    {w \in [user               : Users,
            refresh_token_hash : Jtis,
            created_at         : Timestamp,
            expires_at         : Timestamp,
            revoked_at         : Timestamp \cup {NULL}] :
        /\ w.expires_at > w.created_at
        /\ w.revoked_at # NULL => w.revoked_at >= w.created_at}

\* An access token and a refresh token signed together.  parent is history:
\* the refresh token that was exchanged for the pair, NULL for a login.
TokenPair == [user      : Users,
              session   : SessionIds,
              issued_at : Timestamp,
              parent    : Jtis \cup {NULL}]

ASSUME NullAssumption ==
    /\ NULL \notin Rows \cup Jtis \cup Requests \cup Timestamp
    /\ NULL \notin UserRow \cup SessionRow \cup TokenPair
ASSUME KeysAssumption == Users \cap SessionIds = {}

Endpoints == {"logout", "logout_all", "delete_account"}
Stages == Endpoints \cup
    {"idle",
     "logging_in",        \* login_user asks for the lock of the account
     "refreshing",        \* the token is verified, the session row asked for
     "rotating",          \* session row locked, user row still to be locked
     "stamped",           \* revoke_all_sessions has evaluated timezone.now()
     "updating",          \* its UPDATE has a snapshot and visits the rows
     "issuing",           \* a token pair is written, COMMIT to come
     "revoking",          \* one revocation is written, COMMIT to come
     "integrity_error",   \* PostgreSQL refused a row: 500 internal_error
     "deadlock_detected"} \* PostgreSQL cancelled the statement: 500

VARIABLES
    users, sessions,  \* the committed rows, NULL where a key has no row
    pairs,            \* the token pairs handed to clients
    now,              \* timezone.now()
    lock,             \* the transaction holding each row lock
    pc,               \* the stage of each request
    presented,        \* the pair whose token a request presents, or the
                      \* account a login names
    at,               \* the revoked_at value computed by revoke_all_sessions
    targets,          \* session rows its UPDATE has still to visit
    tx                \* uncommitted writes, NULL where a row is not written

vars == <<users, sessions, pairs, now, lock, pc, presented, at, targets, tx>>
database == <<users, sessions, pairs>>

Writes == [users    : [Users -> UserRow \cup {NULL}],
           sessions : [SessionIds -> SessionRow \cup {NULL}],
           pairs    : [Jtis -> TokenPair \cup {NULL}]]

NoWrites == [users    |-> [u \in Users |-> NULL],
             sessions |-> [s \in SessionIds |-> NULL],
             pairs    |-> [j \in Jtis |-> NULL]]

\* Every committed and every pending row passes its table's constraints: of
\* all the writers only the UPDATE of revoke_all_sessions can offer a row that
\* PostgreSQL must refuse.
TypeOK ==
    /\ users \in [Users -> UserRow]
    /\ sessions \in [SessionIds -> SessionRow \cup {NULL}]
    /\ pairs \in [Jtis -> TokenPair \cup {NULL}]
    /\ now \in 0 .. MaxTime
    /\ lock \in [Rows -> Requests \cup {NULL}]
    /\ pc \in [Requests -> Stages]
    /\ presented \in [Requests -> Jtis \cup Users \cup {NULL}]
    /\ at \in [Requests -> Timestamp]
    /\ targets \in [Requests -> SUBSET SessionIds]
    /\ tx \in [Requests -> Writes]

\* register_user and create_initial_admin leave an active account with a hash
\* by today's parameters; a change of the hasher's settings outdates it.
Init ==
    /\ users \in [Users -> {[is_active |-> TRUE, deleted_at |-> NULL,
                             last_login_at |-> NULL, password_hash |-> h]
                            : h \in {"outdated", "current"}}]
    /\ sessions = [s \in SessionIds |-> NULL]
    /\ pairs = [j \in Jtis |-> NULL]
    /\ now = 0
    /\ lock = [x \in Rows |-> NULL]
    /\ pc = [r \in Requests |-> "idle"]
    /\ presented = [r \in Requests |-> NULL]
    /\ at = [r \in Requests |-> 0]
    /\ targets = [r \in Requests |-> {}]
    /\ tx = [r \in Requests |-> NoWrites]

-----------------------------------------------------------------------------
(* Tokens, accounts and sessions as the code reads them.                   *)

Caller(r) == pairs[presented[r]].user
CallerSession(r) == pairs[presented[r]].session

\* jwt.encode drops the fraction of a second of the exp claim.
WholeSeconds(t) == t - (t % TicksPerSecond)

AccessExp(j) == WholeSeconds(pairs[j].issued_at + AccessTTL)
RefreshExp(j) == WholeSeconds(pairs[j].issued_at + RefreshTTL)

AccessTokenValid(j) == AccessExp(j) > now
RefreshTokenValid(j) == RefreshExp(j) > now

IsUsable(u) == users[u].is_active /\ users[u].deleted_at = NULL
IsActiveSession(s) == sessions[s].revoked_at = NULL /\ sessions[s].expires_at > now

\* filter(id=payload.session_id, user_id=payload.user_id) finds a row
SessionFound(j) ==
    /\ sessions[pairs[j].session] # NULL
    /\ sessions[pairs[j].session].user = pairs[j].user

-----------------------------------------------------------------------------
(* Row locks and transactions.                                             *)

Free(x) == lock[x] = NULL

FreshJti(j) == pairs[j] = NULL /\ \A q \in Requests : tx[q].pairs[j] = NULL

Merge(table, writes) ==
    [k \in DOMAIN table |-> IF writes[k] = NULL THEN table[k] ELSE writes[k]]

\* The transaction of r ends: its locks go, its request moves to a stage.
Finish(r, stage) ==
    /\ lock' = [x \in Rows |-> IF lock[x] = r THEN NULL ELSE lock[x]]
    /\ pc' = [pc EXCEPT ![r] = stage]
    /\ presented' = [presented EXCEPT ![r] = NULL]
    /\ at' = [at EXCEPT ![r] = 0]
    /\ targets' = [targets EXCEPT ![r] = {}]
    /\ tx' = [tx EXCEPT ![r] = NoWrites]

Rollback(r, stage) == Finish(r, stage) /\ UNCHANGED <<database, now>>

Commit(r) ==
    /\ \/ pc[r] \in {"issuing", "revoking"}
       \/ pc[r] = "updating" /\ targets[r] = {}
    /\ users' = Merge(users, tx[r].users)
    /\ sessions' = Merge(sessions, tx[r].sessions)
    /\ pairs' = Merge(pairs, tx[r].pairs)
    /\ Finish(r, "idle")
    /\ UNCHANGED now

-----------------------------------------------------------------------------
(* POST /auth/login: login_user and create_auth_session.  The account of   *)
(* the email is locked before anything of it is read; an unknown email     *)
(* waits for nothing and writes nothing, and is left out.                  *)

BeginLogin(r, u) ==
    /\ pc[r] = "idle"
    /\ presented' = [presented EXCEPT ![r] = u]
    /\ pc' = [pc EXCEPT ![r] = "logging_in"]
    /\ UNCHANGED <<database, now, lock, at, targets, tx>>

\* verify_and_rehash_password, when the password is right
NeedsRehash(hash) == hash = "outdated"
Rehashed(hash) == IF NeedsRehash(hash) THEN "current" ELSE hash

LoginWrites(r, u, s, j) ==
    /\ sessions[s] = NULL /\ Free(s) /\ FreshJti(j)
    /\ tx' = [tx EXCEPT
         ![r].users[u] = [users[u] EXCEPT !.last_login_at = now,
                                          !.password_hash = Rehashed(@)],
         ![r].sessions[s] = [user |-> u, refresh_token_hash |-> j,
                             created_at |-> now,
                             expires_at |-> now + RefreshTTL,
                             revoked_at |-> NULL],
         ![r].pairs[j] = [user |-> u, session |-> s,
                          issued_at |-> now, parent |-> NULL]]
    /\ pc' = [pc EXCEPT ![r] = "issuing"]
    /\ UNCHANGED <<database, now, presented, at, targets>>

\* Mutant: the user is read without select_for_update().
LoginUser_Unlocked(r, s, j) ==
    LET u == presented[r] IN
    /\ pc[r] = "logging_in"
    /\ IsUsable(u)
    /\ LoginWrites(r, u, s, j)
    /\ lock' = [lock EXCEPT ![s] = r]

LoginUser(r, s, j) ==
    LET u == presented[r] IN
    /\ pc[r] = "logging_in"
    /\ Free(u)
    /\ IsUsable(u)
    /\ LoginWrites(r, u, s, j)
    /\ lock' = [lock EXCEPT ![u] = r, ![s] = r]

\* The account is not usable or the password is wrong.
LoginReject(r) ==
    /\ pc[r] = "logging_in"
    /\ Free(presented[r])
    /\ Rollback(r, "idle")

-----------------------------------------------------------------------------
(* POST /auth/refresh: rotate_refresh_token.  It verifies the token before *)
(* its transaction begins.  The SELECT joins the session with its user and *)
(* locks the two rows one after the other; session rows are never deleted, *)
(* so that it finds the session of every token that was signed.            *)

VerifyRefreshToken(r, j) ==
    /\ pc[r] = "idle"
    /\ pairs[j] # NULL
    /\ RefreshTokenValid(j)
    /\ presented' = [presented EXCEPT ![r] = j]
    /\ pc' = [pc EXCEPT ![r] = "refreshing"]
    /\ UNCHANGED <<database, now, lock, at, targets, tx>>

RotateLockSession(r) ==
    LET s == CallerSession(r) IN
    /\ pc[r] = "refreshing"
    /\ SessionFound(presented[r])
    /\ Free(s)
    /\ lock' = [lock EXCEPT ![s] = r]
    /\ pc' = [pc EXCEPT ![r] = "rotating"]
    /\ UNCHANGED <<database, now, presented, at, targets, tx>>

\* The SELECT gets the user row too and returns the two rows.
RotateLockUser(r) ==
    /\ Free(Caller(r))
    /\ lock' = [lock EXCEPT ![Caller(r)] = r]

HashMatches(r) == sessions[CallerSession(r)].refresh_token_hash = presented[r]

RotateReject(r) ==
    /\ pc[r] = "rotating"
    /\ Free(Caller(r))
    /\ \/ ~ IsUsable(Caller(r))
       \/ HashMatches(r) /\ ~ IsActiveSession(CallerSession(r))
    /\ Rollback(r, "idle")

\* session.revoked_at = timezone.now() unless it is set already
WriteRevocation(r, s) ==
    tx' = IF sessions[s].revoked_at = NULL
          THEN [tx EXCEPT ![r].sessions[s] = [sessions[s] EXCEPT !.revoked_at = now]]
          ELSE tx

RotateReuse(r) ==
    /\ pc[r] = "rotating"
    /\ RotateLockUser(r)
    /\ IsUsable(Caller(r))
    /\ ~ HashMatches(r)
    /\ WriteRevocation(r, CallerSession(r))
    /\ pc' = [pc EXCEPT ![r] = "revoking"]
    /\ UNCHANGED <<database, now, presented, at, targets>>

\* The pair k replaces the presented one in row, the new session row.
ExchangeFor(r, k, row) ==
    /\ RotateLockUser(r)
    /\ IsUsable(Caller(r))
    /\ FreshJti(k)
    /\ tx' = [tx EXCEPT
         ![r].sessions[CallerSession(r)] = row,
         ![r].pairs[k] = [user |-> Caller(r), session |-> CallerSession(r),
                          issued_at |-> now, parent |-> presented[r]]]
    /\ pc' = [pc EXCEPT ![r] = "issuing"]
    /\ UNCHANGED <<database, now, presented, at, targets>>

RotatedRow(s, k) == [sessions[s] EXCEPT !.refresh_token_hash = k,
                                        !.expires_at = now + RefreshTTL]

\* Mutant: update_fields lacks refresh_token_hash.
RotateExchange_KeepsHash(r, k) ==
    LET s == CallerSession(r) IN
    /\ pc[r] = "rotating"
    /\ HashMatches(r)
    /\ IsActiveSession(s)
    /\ ExchangeFor(r, k, [sessions[s] EXCEPT !.expires_at = now + RefreshTTL])

\* Mutant: update_fields lacks expires_at.
RotateExchange_KeepsExpiry(r, k) ==
    LET s == CallerSession(r) IN
    /\ pc[r] = "rotating"
    /\ HashMatches(r)
    /\ IsActiveSession(s)
    /\ ExchangeFor(r, k, [sessions[s] EXCEPT !.refresh_token_hash = k])

\* Mutant: the presented token is not compared with the stored hash.
RotateExchange_AnyToken(r, k) ==
    LET s == CallerSession(r) IN
    /\ pc[r] = "rotating"
    /\ IsActiveSession(s)
    /\ ExchangeFor(r, k, RotatedRow(s, k))

\* Mutant: a session is taken for active until it expires, revoked or not.
RotateExchange_Revoked(r, k) ==
    LET s == CallerSession(r) IN
    /\ pc[r] = "rotating"
    /\ HashMatches(r)
    /\ sessions[s].expires_at > now
    /\ ExchangeFor(r, k, RotatedRow(s, k))

RotateExchange(r, k) ==
    LET s == CallerSession(r) IN
    /\ pc[r] = "rotating"
    /\ HashMatches(r)
    /\ IsActiveSession(s)
    /\ ExchangeFor(r, k, RotatedRow(s, k))

-----------------------------------------------------------------------------
(* Authenticated requests.  JWTAuthentication reads session and user in    *)
(* one statement and a transaction of its own: nothing of what it saw is   *)
(* locked or read again when the view runs.                                *)

Authenticate(r, j, endpoint) ==
    /\ pc[r] = "idle"
    /\ pairs[j] # NULL
    /\ AccessTokenValid(j)
    /\ SessionFound(j)
    /\ IsActiveSession(pairs[j].session)
    /\ IsUsable(pairs[j].user)
    /\ presented' = [presented EXCEPT ![r] = j]
    /\ pc' = [pc EXCEPT ![r] = endpoint]
    /\ UNCHANGED <<database, now, lock, at, targets, tx>>

\* Mutant: the session is read without select_for_update().
LogoutSession_Unlocked(r) ==
    /\ pc[r] = "logout"
    /\ WriteRevocation(r, CallerSession(r))
    /\ pc' = [pc EXCEPT ![r] = "revoking"]
    /\ UNCHANGED <<database, now, lock, presented, at, targets>>

\* POST /auth/logout: revoke_session
LogoutSession(r) ==
    LET s == CallerSession(r) IN
    /\ pc[r] = "logout"
    /\ Free(s)
    /\ lock' = [lock EXCEPT ![s] = r]
    /\ WriteRevocation(r, s)
    /\ pc' = [pc EXCEPT ![r] = "revoking"]
    /\ UNCHANGED <<database, now, presented, at, targets>>

\* POST /auth/logout-all: revoke_all_sessions computes the time in Python
LogoutAll(r) ==
    /\ pc[r] = "logout_all"
    /\ at' = [at EXCEPT ![r] = now]
    /\ pc' = [pc EXCEPT ![r] = "stamped"]
    /\ UNCHANGED <<database, now, lock, presented, targets, tx>>

DeleteAccountWrites(r, row) ==
    /\ tx' = [tx EXCEPT ![r].users[Caller(r)] = row]
    /\ at' = [at EXCEPT ![r] = now]
    /\ pc' = [pc EXCEPT ![r] = "stamped"]
    /\ UNCHANGED <<database, now, presented, targets>>

\* User.soft_delete, whether the account is deleted already or not
SoftDeleted(u) == [users[u] EXCEPT !.is_active = FALSE, !.deleted_at = now]

\* Mutant: the user is read without select_for_update().
DeleteAccount_Unlocked(r) ==
    /\ pc[r] = "delete_account"
    /\ DeleteAccountWrites(r, SoftDeleted(Caller(r)))
    /\ UNCHANGED lock

\* Mutant: soft_delete leaves is_active alone.
DeleteAccount_StaysActive(r) ==
    /\ pc[r] = "delete_account"
    /\ Free(Caller(r))
    /\ lock' = [lock EXCEPT ![Caller(r)] = r]
    /\ DeleteAccountWrites(r, [users[Caller(r)] EXCEPT !.deleted_at = now])

\* DELETE /profile/me: soft_delete_account up to its UPDATE of the sessions
DeleteAccount(r) ==
    /\ pc[r] = "delete_account"
    /\ Free(Caller(r))
    /\ lock' = [lock EXCEPT ![Caller(r)] = r]
    /\ DeleteAccountWrites(r, SoftDeleted(Caller(r)))

\* check_permission refuses profiles/delete
DenyDeletion(r) ==
    /\ pc[r] = "delete_account"
    /\ Rollback(r, "idle")

-----------------------------------------------------------------------------
(* The UPDATE of revoke_all_sessions: it selects rows by its snapshot,     *)
(* then visits them in no order the code fixes, waits for the lock of each *)
(* and evaluates the filter again on the row it has got.                   *)

UpdateRows(r, rows) ==
    /\ pc[r] = "stamped"
    /\ targets' = [targets EXCEPT ![r] = rows]
    /\ pc' = [pc EXCEPT ![r] = "updating"]
    /\ UNCHANGED <<database, now, lock, presented, at, tx>>

LiveSessionsOf(u) ==
    {s \in SessionIds : /\ sessions[s] # NULL
                        /\ sessions[s].user = u
                        /\ sessions[s].revoked_at = NULL}

\* Mutant: the caller's session is passed as except_session_id.
RevokeAllSnapshot_KeepsCaller(r) ==
    UpdateRows(r, LiveSessionsOf(Caller(r)) \ {CallerSession(r)})

RevokeAllSnapshot(r) == UpdateRows(r, LiveSessionsOf(Caller(r)))

\* The UPDATE reaches row s and no other transaction holds it.
VisitRow(r, s) ==
    /\ pc[r] = "updating"
    /\ s \in targets[r]
    /\ Free(s)

RevokeAllRow(r, s) ==
    /\ VisitRow(r, s)
    /\ sessions[s].revoked_at = NULL
    /\ at[r] >= sessions[s].created_at
    /\ lock' = [lock EXCEPT ![s] = r]
    /\ tx' = [tx EXCEPT ![r].sessions[s] = [sessions[s] EXCEPT !.revoked_at = at[r]]]
    /\ targets' = [targets EXCEPT ![r] = @ \ {s}]
    /\ UNCHANGED <<database, now, pc, presented, at>>

RevokeAllSkip(r, s) ==
    /\ VisitRow(r, s)
    /\ sessions[s].revoked_at # NULL
    /\ targets' = [targets EXCEPT ![r] = @ \ {s}]
    /\ UNCHANGED <<database, now, lock, pc, presented, at, tx>>

\* The constraint auth_sessions_revoke_time refuses the new row.
RevokeAllViolation(r, s) ==
    /\ VisitRow(r, s)
    /\ sessions[s].revoked_at = NULL
    /\ at[r] < sessions[s].created_at
    /\ Rollback(r, "integrity_error")

-----------------------------------------------------------------------------
(* Failures and time.                                                      *)

\* The rows a request may ask for next while it holds others.
Needs(r) ==
    CASE pc[r] = "rotating" -> {Caller(r)}
      [] pc[r] = "updating" -> targets[r]
      [] OTHER              -> {}

WaitsFor(r, q) == r # q /\ \E x \in Needs(r) : lock[x] = q

WaitsForGraph == [e \in Requests \X Requests |-> WaitsFor(e[1], e[2])]

InCycle(r) ==
    /\ \E q \in Requests : WaitsFor(r, q)
    /\ TransitiveClosure(WaitsForGraph, Requests)[r, r]

\* Mutant: the cancelled statement is sent again, its transaction left open.
DeadlockVictim_Retries(r) ==
    /\ InCycle(r)
    /\ UNCHANGED vars

\* PostgreSQL's deadlock detector cancels one transaction of the cycle.
DeadlockVictim(r) ==
    /\ InCycle(r)
    /\ Rollback(r, "deadlock_detected")

\* The worker is killed or its connection is lost: PostgreSQL rolls back.
Crash(r) ==
    /\ pc[r] # "idle"
    /\ Rollback(r, "idle")

\* api_exception_handler answers 500 internal_error
RespondError(r) ==
    /\ pc[r] \in {"integrity_error", "deadlock_detected"}
    /\ Rollback(r, "idle")

Tick ==
    /\ now < MaxTime
    /\ now' = now + 1
    /\ UNCHANGED <<database, lock, pc, presented, at, targets, tx>>

-----------------------------------------------------------------------------
RequestStep(r) ==
    \/ \E u \in Users : BeginLogin(r, u)
    \/ \E s \in SessionIds, j \in Jtis : LoginUser(r, s, j)
    \/ LoginReject(r)
    \/ \E j \in Jtis : VerifyRefreshToken(r, j)
    \/ RotateLockSession(r)
    \/ RotateReject(r)
    \/ RotateReuse(r)
    \/ \E k \in Jtis : RotateExchange(r, k)
    \/ \E j \in Jtis, endpoint \in Endpoints : Authenticate(r, j, endpoint)
    \/ LogoutSession(r)
    \/ LogoutAll(r)
    \/ DeleteAccount(r)
    \/ DenyDeletion(r)
    \/ RevokeAllSnapshot(r)
    \/ \E s \in SessionIds : RevokeAllRow(r, s)
    \/ \E s \in SessionIds : RevokeAllSkip(r, s)
    \/ \E s \in SessionIds : RevokeAllViolation(r, s)
    \/ Commit(r)
    \/ DeadlockVictim(r)
    \/ Crash(r)
    \/ RespondError(r)

Next == (\E r \in Requests : RequestStep(r)) \/ Tick

Spec == Init /\ [][Next]_vars

(***************************************************************************)
(* Fairness.  A worker goes on with the request it has begun: to its next  *)
(* statement, to the answer, to COMMIT.  A statement that waits for a row  *)
(* lock gets it in the end, because PostgreSQL queues the waiters of a     *)
(* row: strong fairness.  Nothing obliges a client to send a request, a    *)
(* worker to crash, a password to be right or permission to be refused.    *)
(***************************************************************************)
LoginAnswer(r) ==
    LoginReject(r) \/ \E s \in SessionIds, j \in Jtis : LoginUser(r, s, j)

RotateAnswer(r) ==
    \/ RotateReject(r)
    \/ RotateReuse(r)
    \/ \E k \in Jtis : RotateExchange(r, k)

UpdateNextRow(r) ==
    \E s \in SessionIds :
        RevokeAllRow(r, s) \/ RevokeAllSkip(r, s) \/ RevokeAllViolation(r, s)

\* What the code of a request does next of its own accord, stage by stage.
GoesOn(r) ==
    \/ LoginAnswer(r)
    \/ RotateLockSession(r)
    \/ RotateAnswer(r)
    \/ LogoutSession(r)
    \/ LogoutAll(r)
    \/ DeleteAccount(r)
    \/ RevokeAllSnapshot(r)
    \/ UpdateNextRow(r)
    \/ Commit(r)
    \/ DeadlockVictim(r)
    \/ RespondError(r)

Fairness == \A r \in Requests : SF_vars(GoesOn(r))

FairSpec == Spec /\ Fairness

-----------------------------------------------------------------------------
(* Properties.                                                             *)

\* A deleted account has no session that is not revoked.  A login that read
\* the account before soft_delete_account must not commit its session after
\* the UPDATE took its snapshot: the lock of the user row orders the two.
DeletedAccountHasNoLiveSession ==
    \A s \in SessionIds :
        sessions[s] # NULL =>
            (users[sessions[s].user].deleted_at # NULL
                => sessions[s].revoked_at # NULL)

\* No refresh token is exchanged for two pairs, whether two workers rotate it
\* at the same time or a client sends it again after a lost answer.
RefreshTokenSingleUse ==
    \A j, k \in Jtis :
        /\ j # k
        /\ pairs[j] # NULL /\ pairs[k] # NULL
        /\ pairs[j].parent # NULL
        => pairs[j].parent # pairs[k].parent

\* The stored hash is always that of the one token of the session which was
\* never exchanged: with any other hash rotate_refresh_token would take the
\* honest client for a replay, or a replay for the honest client.
CurrentTokenIsLeaf ==
    \A j \in Jtis :
        pairs[j] # NULL =>
            (sessions[pairs[j].session].refresh_token_hash = j
                <=> \A k \in Jtis : pairs[k] # NULL => pairs[k].parent # j)

\* The row of a session is never over before a refresh token of it, current
\* or exchanged, and outlives its current token by less than one second: the
\* exp claim counts whole seconds and expires_at does not.
SessionOutlivesItsTokens ==
    \A j \in Jtis :
        pairs[j] # NULL =>
            LET session == sessions[pairs[j].session] IN
            /\ RefreshExp(j) <= session.expires_at
            /\ session.refresh_token_hash = j =>
                  session.expires_at < RefreshExp(j) + TicksPerSecond

\* With any number of logins in flight, last_login_at is no older than any
\* session of the user and the rehashed password is not lost.
LastLoginIsLatest ==
    \A s \in SessionIds :
        sessions[s] # NULL =>
            /\ users[sessions[s].user].last_login_at # NULL
            /\ users[sessions[s].user].last_login_at >= sessions[s].created_at
            /\ users[sessions[s].user].password_hash = "current"

\* Once a revocation is committed the row never changes again: revoked_at
\* keeps the first time, and no rotation that read the row earlier revives it.
RevokedSessionIsFrozen ==
    [][\A s \in SessionIds :
         sessions[s] # NULL =>
            (sessions[s].revoked_at # NULL => sessions'[s] = sessions[s])]_vars

\* When logout, logout-all, deletion or a detected reuse commits, the session
\* the request came with is revoked, whoever revoked it.
CallerSessionEnds ==
    [][\A r \in Requests :
         Commit(r) /\ pc[r] \in {"revoking", "updating"}
            => sessions'[CallerSession(r)].revoked_at # NULL]_vars

\* A rotation needs a new jti, and the model has only Jtis.
OutOfJtis ==
    /\ ~ \E k \in Jtis : FreshJti(k)
    /\ \E r \in Requests : pc[r] = "rotating"

\* Every request is answered, or cut off by a crash: no wait for a row lock,
\* from the first one on, lasts for ever, and no cycle of waits stays closed.
RequestsFinish ==
    \A r \in Requests : pc[r] # "idle" ~> (pc[r] = "idle" \/ OutOfJtis)

\* The transactions implement the promise: each COMMIT is one of its steps,
\* every other step is invisible.
Promise == INSTANCE SessionPromise WITH
    closed  <- {u \in Users : users[u].deleted_at # NULL},
    owner   <- [s \in SessionIds |->
                  IF sessions[s] = NULL THEN NULL ELSE sessions[s].user],
    current <- [s \in SessionIds |->
                  IF sessions[s] = NULL THEN NULL
                                        ELSE sessions[s].refresh_token_hash],
    issued  <- {j \in Jtis : pairs[j] # NULL},
    ended   <- {s \in SessionIds : sessions[s] # NULL /\ sessions[s].revoked_at # NULL}

ImplementsPromise == Promise!Spec

-----------------------------------------------------------------------------
(* Why the safety properties hold: the strengthening that each step keeps. *)

HasCaller == Endpoints \cup {"rotating", "stamped", "updating", "revoking"}

\* Whatever was stamped, was stamped in the past.
ClockOK ==
    /\ \A s \in SessionIds : sessions[s] # NULL => sessions[s].created_at <= now
    /\ \A r \in Requests, s \in SessionIds :
          tx[r].sessions[s] # NULL => tx[r].sessions[s].created_at <= now
    /\ \A r \in Requests : at[r] <= now

\* A token belongs to a session that exists, and a request to a token.
ReferencesOK ==
    /\ \A j \in Jtis : pairs[j] # NULL => sessions[pairs[j].session] # NULL
    /\ \A r \in Requests, j \in Jtis :
          tx[r].pairs[j] # NULL =>
            LET s == tx[r].pairs[j].session IN
            sessions[s] # NULL \/ tx[r].sessions[s] # NULL
    /\ \A r \in Requests :
          /\ pc[r] \in HasCaller \cup {"refreshing"} =>
                presented[r] \in Jtis /\ pairs[presented[r]] # NULL
          /\ pc[r] = "logging_in" => presented[r] \in Users
    /\ \A r \in Requests : \A s \in targets[r] : sessions[s] # NULL

\* A transaction has locked the rows it writes, a signed jti is never reused,
\* and a session row is only written while it is not revoked.
WritesOK ==
    /\ \A r \in Requests, u \in Users : tx[r].users[u] # NULL => lock[u] = r
    /\ \A r \in Requests, s \in SessionIds :
          tx[r].sessions[s] # NULL =>
            /\ lock[s] = r
            /\ sessions[s] # NULL => sessions[s].revoked_at = NULL
    /\ \A r \in Requests :
          pc[r] = "rotating" =>
            /\ lock[CallerSession(r)] = r
            /\ sessions[CallerSession(r)].user = Caller(r)
    /\ \A r \in Requests, j \in Jtis :
          tx[r].pairs[j] # NULL =>
            /\ pairs[j] = NULL
            /\ \A q \in Requests \ {r} : tx[q].pairs[j] = NULL

\* A transaction about to commit a live session holds its usable account.
IssuingOK ==
    \A r \in Requests, s \in SessionIds :
        tx[r].sessions[s] # NULL =>
            (tx[r].sessions[s].revoked_at = NULL =>
                /\ pc[r] = "issuing"
                /\ lock[tx[r].sessions[s].user] = r
                /\ IsUsable(tx[r].sessions[s].user))

\* A transaction about to delete an account has revoked each of its sessions
\* or has still to visit it.
DeletingOK ==
    \A r \in Requests, u \in Users :
        tx[r].users[u] # NULL =>
            (tx[r].users[u].deleted_at # NULL =>
                /\ pc[r] \in {"stamped", "updating"}
                /\ u = Caller(r)
                /\ pc[r] = "updating" =>
                     \A s \in LiveSessionsOf(u) :
                        s \in targets[r] \/ tx[r].sessions[s] # NULL)

IndInv ==
    /\ TypeOK
    /\ ClockOK
    /\ ReferencesOK
    /\ WritesOK
    /\ IssuingOK
    /\ DeletingOK
    /\ DeletedAccountHasNoLiveSession

-----------------------------------------------------------------------------
(* What a transaction has written by the stage it has reached, and with it *)
(* why tokens, sessions and accounts agree after every COMMIT.             *)

\* A login is about to open session s of account u with the pair j.
Opens(r, u, s, j) ==
    /\ \A v \in Users : tx[r].users[v] # NULL <=> v = u
    /\ \A v \in SessionIds : tx[r].sessions[v] # NULL <=> v = s
    /\ \A v \in Jtis : tx[r].pairs[v] # NULL <=> v = j
    /\ sessions[s] = NULL
    /\ tx[r].sessions[s].user = u
    /\ tx[r].sessions[s].refresh_token_hash = j
    /\ tx[r].sessions[s].revoked_at = NULL
    /\ tx[r].sessions[s].expires_at = tx[r].pairs[j].issued_at + RefreshTTL
    /\ tx[r].pairs[j].issued_at <= now
    /\ tx[r].pairs[j].session = s
    /\ tx[r].pairs[j].parent = NULL
    /\ tx[r].users[u].deleted_at = NULL
    /\ tx[r].users[u].password_hash = "current"
    /\ tx[r].users[u].last_login_at = tx[r].sessions[s].created_at
    /\ users[u].last_login_at # NULL
          => users[u].last_login_at <= tx[r].users[u].last_login_at

\* A rotation is about to replace the current token of session s by k.
Exchanges(r, s, k) ==
    /\ \A v \in Users : tx[r].users[v] = NULL
    /\ \A v \in SessionIds : tx[r].sessions[v] # NULL <=> v = s
    /\ \A v \in Jtis : tx[r].pairs[v] # NULL <=> v = k
    /\ sessions[s] # NULL
    /\ tx[r].sessions[s] =
          [sessions[s] EXCEPT !.refresh_token_hash = k,
                              !.expires_at = tx[r].pairs[k].issued_at + RefreshTTL]
    /\ sessions[s].expires_at <= tx[r].pairs[k].issued_at + RefreshTTL
    /\ tx[r].pairs[k].issued_at <= now
    /\ tx[r].pairs[k].session = s
    /\ tx[r].pairs[k].parent = sessions[s].refresh_token_hash

\* The other transactions revoke sessions of their caller, and a deletion
\* closes its account.
Revokes(r) ==
    /\ \A j \in Jtis : tx[r].pairs[j] = NULL
    /\ \A s \in SessionIds : tx[r].sessions[s] # NULL =>
          /\ sessions[s] # NULL
          /\ sessions[s].user = Caller(r)
          /\ tx[r].sessions[s] =
                [sessions[s] EXCEPT !.revoked_at = tx[r].sessions[s].revoked_at]
          /\ tx[r].sessions[s].revoked_at # NULL
    /\ \A u \in Users : tx[r].users[u] # NULL =>
          /\ u = Caller(r)
          /\ pc[r] # "revoking"
          /\ tx[r].users[u].deleted_at # NULL
          /\ tx[r].users[u].last_login_at = users[u].last_login_at
          /\ tx[r].users[u].password_hash = users[u].password_hash

WritesNothing(r) ==
    /\ \A u \in Users : tx[r].users[u] = NULL
    /\ \A s \in SessionIds : tx[r].sessions[s] = NULL
    /\ \A j \in Jtis : tx[r].pairs[j] = NULL

RevokingStages == {"stamped", "updating", "revoking"}

StageOK(r) ==
    /\ pc[r] = "issuing" =>
          \/ \E u \in Users, s \in SessionIds, j \in Jtis : Opens(r, u, s, j)
          \/ \E s \in SessionIds, k \in Jtis : Exchanges(r, s, k)
    /\ pc[r] \in RevokingStages => Revokes(r)
    /\ pc[r] \notin {"issuing"} \cup RevokingStages => WritesNothing(r)

\* The session a request came with belongs to its caller; whoever revokes has
\* revoked it, has found it revoked or has still to visit it.
CallerSessionOK(r) ==
    /\ pc[r] \in HasCaller => sessions[CallerSession(r)].user = Caller(r)
    /\ pc[r] \in {"updating", "revoking"} =>
          \/ sessions[CallerSession(r)].revoked_at # NULL
          \/ tx[r].sessions[CallerSession(r)] # NULL
          \/ CallerSession(r) \in targets[r]
    /\ \A s \in targets[r] : pc[r] = "updating" /\ sessions[s].user = Caller(r)

\* Only tokens that were handed out are exchanged; no token was signed and no
\* login made in the future.
HistoryOK ==
    /\ \A j \in Jtis : pairs[j] # NULL =>
          /\ pairs[j].parent # NULL => pairs[pairs[j].parent] # NULL
          /\ pairs[j].issued_at <= now
    /\ \A u \in Users : users[u].last_login_at # NULL => users[u].last_login_at <= now

\* expires_at is what create_refresh_token has computed for the current token,
\* before jwt.encode cuts it, and no earlier than that of the exchanged ones.
ExpiryOK ==
    /\ \A s \in SessionIds : sessions[s] # NULL =>
          LET j == sessions[s].refresh_token_hash IN
          /\ pairs[j] # NULL
          /\ pairs[j].session = s
          /\ sessions[s].expires_at = pairs[j].issued_at + RefreshTTL
    /\ \A j \in Jtis : pairs[j] # NULL =>
          pairs[j].issued_at + RefreshTTL <= sessions[pairs[j].session].expires_at

TokenInv ==
    /\ \A r \in Requests : StageOK(r) /\ CallerSessionOK(r)
    /\ HistoryOK
    /\ RefreshTokenSingleUse
    /\ CurrentTokenIsLeaf
    /\ ExpiryOK
    /\ LastLoginIsLatest

-----------------------------------------------------------------------------
(* What the tests of the repository expect and the code does not keep.     *)

\* POST /auth/logout-all answers 204: its UPDATE is never refused.
LogoutAllIsNotRefused == \A r \in Requests : pc[r] # "integrity_error"

\* DELETE /profile/me answers 204: its transaction is never part of a cycle
\* of lock waits.
DeletionIsNotDeadlocked ==
    \A r \in Requests :
        pc[r] \in HasCaller => ~ (InCycle(r) /\ lock[Caller(r)] = r)
=============================================================================
