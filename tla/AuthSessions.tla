---------------------------- MODULE AuthSessions ----------------------------
(***************************************************************************)
(* Sessions: internal/services/auth, with the tables auth_users,           *)
(* refresh_tokens and revoked_tokens, the Redis cache of revoked access    *)
(* tokens and the login guard.                                             *)
(*                                                                         *)
(* Every login starts a family of refresh tokens; each refresh spends one  *)
(* token and inserts the next; a spent token that comes back, and a        *)
(* logout, revoke the whole family.  One UPDATE revokes it: it sees the    *)
(* rows that were committed when it started, and locks them one by one.    *)
(*                                                                         *)
(* A refresh token and the access token handed out with it have one        *)
(* number; numbers are given in the order in which tokens are generated.   *)
(***************************************************************************)
EXTENDS Integers, FiniteSets

CONSTANTS
    Users,
    Workers,       \* goroutines that serve requests, over all replicas
    Replicas,
    Host,          \* Host[w]: the replica of w, which has its login guard
    MaxTokens,     \* bound: pairs of tokens handed out
    Bearers,       \* bound: access tokens that clients keep and present
    MaxTime,       \* bound of the clock
    AccessTTL,
    RefreshTTL,
    GuardMax,      \* failures NewLoginGuard allows per window
    GuardWindow,
    None

ASSUME SessionAssumptions ==
    /\ Host \in [Workers -> Replicas]
    /\ IsFiniteSet(Workers)
    /\ {MaxTokens, MaxTime, GuardWindow} \subseteq Nat
    /\ {AccessTTL, RefreshTTL, GuardMax} \subseteq Nat \ {0}
    /\ None \notin Int \cup Users \cup Workers

Tokens == 1 .. MaxTokens

ASSUME BearersAssumption == Bearers \subseteq Tokens

\* A row of refresh_tokens, with the expiry of the access token of the pair.
RefreshSession ==
    [user          : Users,
     family        : Tokens,
     expires       : Nat,
     accessExpires : Nat,
     revoked       : BOOLEAN,
     replacedBy    : Tokens \cup {None}]

ASSUME NoneIsNoSession == None \notin RefreshSession

VARIABLES
    now,
    users,     \* table auth_users: who is registered
    rows,      \* table refresh_tokens: a row, or None
    lock,      \* lock[t]: the transaction that holds the row lock of t
    revoked,   \* table revoked_tokens: access tokens
    cached,    \* access tokens marked as revoked in Redis
    attempts,  \* attempts[r][u]: the LoginGuard of replica r
    req,       \* req[w]: the request w serves
    ended      \* history: families revoked with no rotation under way

tables == <<users, rows, revoked>>
vars == <<now, users, rows, lock, revoked, cached, attempts, req, ended>>

Idle == [pc |-> "idle"]

NoAttempts == [count |-> 0, first |-> 0]

Unused == {t \in Tokens : rows[t] = None /\
            \A w \in Workers : req[w].pc \in {"begun", "rotating"} =>
                                  req[w].next # t}

Fresh(t) == t \in Unused /\ \A s \in Unused : t <= s

-----------------------------------------------------------------------------
(* Tokens and rows.                                                        *)

\* What TokenManager.Verify leaves to time: the signature is not modelled.
Verify(t) == rows[t].accessExpires > now

\* Faulty variant: Redis is trusted when it answers.
RevokedInCache(t) == t \in cached

\* WHERE token_id = $1 AND expires_at > now()
IsRevokedRow(t) == t \in revoked /\ rows[t].accessExpires > now

\* Redis may say yes; otherwise PostgreSQL decides.
IsTokenRevoked(t) == t \in cached \/ IsRevokedRow(t)

\* Faulty variant: a plain SELECT.
NoRowLock(w, t) == t \in Tokens

RowLockFree(w, t) == lock[t] \in {None, w}

\* Faulty variant: WHERE token_hash = $1.
OnlyItself(t) == {t}

\* The rows UPDATE ... WHERE family_id = $1 sees when it starts.
Family(t) == {s \in Tokens : rows[s] # None /\ rows[s].family = rows[t].family}

\* RevokedAt or ReplacedByHash is set.
Spent(t) == rows[t].revoked \/ rows[t].replacedBy # None

NewSession(u, family, stamp) ==
    [user |-> u, family |-> family, expires |-> stamp + RefreshTTL,
     accessExpires |-> now + AccessTTL, revoked |-> FALSE,
     replacedBy |-> None]

\* Faulty variant: one failure too many.
AllowAtLimit(a) == a.count = 0 \/ now - a.first > GuardWindow
                     \/ a.count <= GuardMax

Allow(a) == a.count = 0 \/ now - a.first > GuardWindow \/ a.count < GuardMax

RecordFailure(a) ==
    IF a.count = 0 \/ now - a.first > GuardWindow
    THEN [count |-> 1, first |-> now]
    ELSE [a EXCEPT !.count = @ + 1]

Done(w) == req' = [req EXCEPT ![w] = Idle]

Unlock(w) == lock' = [t \in Tokens |-> IF lock[t] = w THEN None ELSE lock[t]]

-----------------------------------------------------------------------------
(* Accounts.                                                               *)

\* issue: a new family, named by its first token.
issue(u) ==
    \E t \in Tokens :
        /\ Fresh(t)
        /\ rows' = [rows EXCEPT ![t] = NewSession(u, t, now)]

\* An e-mail address that is taken is refused by the unique index.
CreateUser(u) == u \notin users /\ users' = users \cup {u}

FindUserByEmail(u) == u \in users

\* CreateUser commits before issue, whose failure leaves the account.
Register(w, u) ==
    /\ req[w].pc = "idle"
    /\ CreateUser(u)
    /\ issue(u) \/ UNCHANGED rows
    /\ UNCHANGED <<now, lock, revoked, cached, attempts, req, ended>>

\* Login up to the guard, which forgets attempts older than its window.
LoginAllowed(w, u) ==
    LET a == attempts[Host[w]][u]
    IN  /\ req[w].pc = "idle"
        /\ Allow(a)
        /\ attempts' = [attempts EXCEPT ![Host[w]][u] =
              IF now - a.first > GuardWindow THEN NoAttempts ELSE a]
        /\ req' = [req EXCEPT ![w] = [pc |-> "allowed", user |-> u]]
        /\ UNCHANGED <<now, tables, lock, cached, ended>>

\* No such user, any other error of the lookup, or a wrong password.
LoginFails(w) ==
    /\ req[w].pc = "allowed"
    /\ attempts' = [attempts EXCEPT ![Host[w]][req[w].user] = RecordFailure(@)]
    /\ Done(w)
    /\ UNCHANGED <<now, tables, lock, cached, ended>>

LoginSucceeds(w) ==
    /\ req[w].pc = "allowed"
    /\ FindUserByEmail(req[w].user)
    /\ attempts' = [attempts EXCEPT ![Host[w]][req[w].user] = NoAttempts]
    /\ issue(req[w].user) \/ UNCHANGED rows
    /\ Done(w)
    /\ UNCHANGED <<now, users, lock, revoked, cached, ended>>

-----------------------------------------------------------------------------
(* CurrentUser, which the other services call to introspect a token.       *)

\* late: the token was already logged out when the request came.
CurrentUser(w, t) ==
    /\ req[w].pc = "idle"
    /\ rows[t] # None
    /\ Verify(t)
    /\ req' = [req EXCEPT ![w] = [pc |-> "verified", access |-> t,
                                  late |-> t \in revoked]]
    /\ UNCHANGED <<now, tables, lock, cached, attempts, ended>>

\* The lookups in Redis and PostgreSQL are one step: Redis is marked after
\* the row is committed.  A revoked token is marked again.
CheckRevoked(w) ==
    LET t == req[w].access
    IN  /\ req[w].pc = "verified"
        /\ IF IsTokenRevoked(t)
           THEN /\ cached' \in {cached, cached \cup {t}}
                /\ Done(w)
           ELSE /\ req' = [req EXCEPT ![w].pc = "current"]
                /\ UNCHANGED cached
        /\ UNCHANGED <<now, tables, lock, attempts, ended>>

\* FindUserByID and the answer.
AnswerUser(w) ==
    /\ req[w].pc = "current"
    /\ Done(w)
    /\ UNCHANGED <<now, tables, lock, cached, attempts, ended>>

\* The entry expires, or Redis loses it.
LoseCached(t) ==
    /\ t \in cached
    /\ cached' = cached \ {t}
    /\ UNCHANGED <<now, tables, lock, attempts, req, ended>>

-----------------------------------------------------------------------------
(* Refresh and logout.                                                     *)

\* Refresh reads its clock and generates the next token, then it begins.
Refresh(w, t) ==
    /\ req[w].pc = "idle"
    /\ rows[t] # None
    /\ \E n \in Tokens :
        /\ Fresh(n)
        /\ req' = [req EXCEPT ![w] = [pc |-> "begun", op |-> "refresh",
                                      token |-> t, next |-> n, at |-> now]]
    /\ UNCHANGED <<now, tables, lock, cached, attempts, ended>>

\* Its clock reading is stored as revoked_at and compared with nothing.
LogoutRefresh(t) == [pc |-> "begun", op |-> "logout", token |-> t,
                     next |-> None, at |-> 0]

\* The handler: a valid access token is revoked first; without one (none in
\* the request, or one that has expired) only the refresh token counts.
Logout(w, access, token) ==
    /\ req[w].pc = "idle"
    /\ \A t \in {access, token} : t # None => rows[t] # None
    /\ req' = [req EXCEPT ![w] =
          IF access # None /\ Verify(access)
          THEN [pc |-> "revoking", access |-> access, token |-> token]
          ELSE IF token # None THEN LogoutRefresh(token)
          ELSE Idle]
    /\ UNCHANGED <<now, tables, lock, cached, attempts, ended>>

RevokeToken(w) ==
    /\ req[w].pc = "revoking"
    /\ revoked' = revoked \cup {req[w].access}
    /\ req' = [req EXCEPT ![w].pc = "marking"]
    /\ UNCHANGED <<now, users, rows, lock, cached, attempts, ended>>

\* An error of Redis is ignored.
MarkRevoked(w) ==
    /\ req[w].pc = "marking"
    /\ cached' \in {cached, cached \cup {req[w].access}}
    /\ req' = [req EXCEPT ![w] =
          IF req[w].token = None THEN Idle ELSE LogoutRefresh(req[w].token)]
    /\ UNCHANGED <<now, tables, lock, attempts, ended>>

\* revokeRefreshFamilyTx starts: the snapshot of its UPDATE.
revokeRefreshFamilyTx(t) ==
    [pc |-> "sweeping", token |-> t, snapshot |-> Family(t), raced |-> FALSE]

\* SELECT ... FOR UPDATE, and what the two transactions decide on it.  The
\* UPDATE of a revocation starts in the same step: between the two statements
\* nothing can happen that could not happen before the lock on t was taken.
refreshSessionForUpdate(w) ==
    LET t == req[w].token
        expired == req[w].op = "refresh" /\ rows[t].expires <= req[w].at
        revoke == req[w].op = "logout" \/ Spent(t)
    IN  /\ req[w].pc = "begun"
        /\ RowLockFree(w, t)
        /\ IF expired
           THEN Done(w) /\ UNCHANGED lock
           ELSE /\ lock' = [lock EXCEPT ![t] = w]
                /\ req' = [req EXCEPT ![w] =
                      IF revoke THEN revokeRefreshFamilyTx(t)
                      ELSE [@ EXCEPT !.pc = "rotating"]]
        /\ UNCHANGED <<now, tables, cached, attempts, ended>>

\* Revocations of the family of t that have taken their snapshot.
Overtaken(t) ==
    {v \in Workers : req[v].pc = "sweeping"
                      /\ rows[req[v].token].family = rows[t].family}

\* UPDATE of the old row, INSERT of the new one, COMMIT; then Sign.
RotateRefreshSession(w) ==
    LET t == req[w].token
        n == req[w].next
    IN  /\ req[w].pc = "rotating"
        /\ rows' = [rows EXCEPT
              ![t] = [@ EXCEPT !.revoked = TRUE, !.replacedBy = n],
              ![n] = NewSession(rows[t].user, rows[t].family, req[w].at)]
        /\ req' = [v \in Workers |->
              IF v = w THEN Idle
              ELSE IF v \in Overtaken(t) THEN [req[v] EXCEPT !.raced = TRUE]
              ELSE req[v]]
        /\ Unlock(w)
        /\ UNCHANGED <<now, users, revoked, cached, attempts, ended>>

\* The rows it has yet to lock, in whatever order it scans them.
ToLock(w) == {t \in req[w].snapshot : lock[t] # w}

LockFamilyRow(w) ==
    /\ req[w].pc = "sweeping"
    /\ \E t \in ToLock(w) :
        /\ RowLockFree(w, t)
        /\ lock' = [lock EXCEPT ![t] = w]
    /\ UNCHANGED <<now, tables, cached, attempts, req, ended>>

CommitRevocation(w) ==
    /\ req[w].pc = "sweeping"
    /\ ToLock(w) = {}
    /\ rows' = [t \in Tokens |->
          IF t \in req[w].snapshot THEN [rows[t] EXCEPT !.revoked = TRUE]
          ELSE rows[t]]
    /\ ended' = IF req[w].raced THEN ended
                ELSE ended \cup {rows[req[w].token].family}
    /\ Done(w)
    /\ Unlock(w)
    /\ UNCHANGED <<now, users, revoked, cached, attempts>>

-----------------------------------------------------------------------------
(* Failures and time.                                                      *)

\* Faulty variant: the transaction stays open in the pool.
LeaveTxOpen(w) == lock' = [t \in Tokens |-> lock[t]]

\* The deferred tx.Rollback.
Rollback(w) == Unlock(w)

\* A statement fails, or the client goes away.  (A login and the last step of
\* CurrentUser have their failures among their own outcomes.)
Fail(w) ==
    /\ req[w].pc \notin {"idle", "allowed", "current"}
    /\ Done(w)
    /\ Rollback(w)
    /\ UNCHANGED <<now, tables, cached, attempts, ended>>

WaitsFor(w, v) ==
    /\ v # w
    /\ \/ req[w].pc = "begun" /\ lock[req[w].token] = v
       \/ /\ req[w].pc = "sweeping"
          /\ \A t \in ToLock(w) : ~RowLockFree(w, t)
          /\ \E t \in ToLock(w) : lock[t] = v

\* Two revocations of one family that hold a row each: PostgreSQL finds the
\* cycle and fails one of the statements.
Deadlocked(w) ==
    \E C \in SUBSET Workers :
        w \in C /\ \A v \in C : \E u \in C : WaitsFor(v, u)

FailDeadlocked(w) == Deadlocked(w) /\ Fail(w)

Tick ==
    /\ now < MaxTime
    /\ now' = now + 1
    /\ UNCHANGED <<tables, lock, cached, attempts, req, ended>>

Init ==
    /\ now = 0
    /\ users = {}
    /\ rows = [t \in Tokens |-> None]
    /\ lock = [t \in Tokens |-> None]
    /\ revoked = {}
    /\ cached = {}
    /\ attempts = [r \in Replicas |-> [u \in Users |-> NoAttempts]]
    /\ req = [w \in Workers |-> Idle]
    /\ ended = {}

Receive(w) ==
    \/ \E u \in Users : Register(w, u) \/ LoginAllowed(w, u)
    \/ \E t \in Bearers : CurrentUser(w, t)
    \/ \E t \in Tokens : Refresh(w, t)
    \/ \E access \in Bearers \cup {None}, token \in Tokens \cup {None} :
          Logout(w, access, token)

Work(w) ==
    \/ LoginFails(w) \/ LoginSucceeds(w)
    \/ CheckRevoked(w) \/ AnswerUser(w)
    \/ RevokeToken(w) \/ MarkRevoked(w)
    \/ RotateRefreshSession(w) \/ CommitRevocation(w)

\* The statements that may wait for a row lock.
Wait(w) == refreshSessionForUpdate(w) \/ LockFamilyRow(w)

Next ==
    \/ \E w \in Workers : Receive(w) \/ Work(w) \/ Wait(w) \/ Fail(w)
    \/ \E t \in Tokens : LoseCached(t)
    \/ Tick

\* A request goes on, PostgreSQL queues those who wait for a row lock, and it
\* breaks a cycle among them.  No other failure is needed for progress.
Spec ==
    /\ Init
    /\ [][Next]_vars
    /\ \A w \in Workers : SF_vars(Work(w) \/ Wait(w) \/ FailDeadlocked(w))

-----------------------------------------------------------------------------
(* Properties.                                                             *)

Request ==
    [pc : {"idle"}]
    \cup [pc : {"allowed"}, user : Users]
    \cup [pc : {"verified", "current"}, access : Tokens, late : BOOLEAN]
    \cup [pc : {"revoking", "marking"}, access : Tokens,
          token : Tokens \cup {None}]
    \cup [pc : {"begun", "rotating"}, op : {"refresh", "logout"},
          token : Tokens, next : Tokens \cup {None}, at : Nat]
    \cup [pc : {"sweeping"}, token : Tokens, snapshot : SUBSET Tokens,
          raced : BOOLEAN]

\* Types.  The login guard's check and its count are two critical sections:
\* with all workers between them it still counts no more failures than its
\* limit and the other workers.
TypeOK ==
    /\ now \in Nat
    /\ users \in SUBSET Users
    /\ rows \in [Tokens -> RefreshSession \cup {None}]
    /\ lock \in [Tokens -> Workers \cup {None}]
    /\ revoked \in SUBSET Tokens
    /\ cached \in SUBSET Tokens
    /\ attempts \in [Replicas -> [Users ->
          [count : 0 .. GuardMax + Cardinality(Workers) - 1, first : Nat]]]
    /\ req \in [Workers -> Request]
    /\ ended \in SUBSET Tokens

Live(t) == rows[t] # None /\ ~Spent(t)

\* However many requests present a refresh token at once, a family never has
\* two tokens that can be rotated.
OneLivePerFamily ==
    \A s, t \in Tokens :
        Live(s) /\ Live(t) /\ rows[s].family = rows[t].family => s = t

\* A reused token or a logout ends its family for good, unless a rotation
\* committed between the snapshot and the commit of the revocation: that one
\* row, which the UPDATE cannot see, is the only one that may survive.
RevocationEndsFamily ==
    \A t \in Tokens : Live(t) => rows[t].family \notin ended

\* A request that brings an access token already logged out is refused, even
\* when Redis never heard of the logout or has forgotten it; the query's
\* expires_at > now() lets it pass only once the token has expired.
LogoutEndsAccess ==
    \A w \in Workers :
        req[w].pc = "current" /\ req[w].late => ~Verify(req[w].access)

\* No request waits for ever for a row lock, not even when two revocations
\* lock the rows of a family in opposite orders: a worker is idle again and
\* again.
EveryRequestEnds == \A w \in Workers : []<>(req[w].pc = "idle")

=============================================================================
