------------------------- MODULE AuthSessionsProofs -------------------------
(***************************************************************************)
(* Proofs about AuthSessions, for any users, workers, replicas, tokens,    *)
(* lifetimes and limits of the login guard.                                *)
(***************************************************************************)
EXTENDS AuthSessions, FiniteSetTheorems, TLAPS

\* The workers that have passed the guard of replica r for user u and have not
\* counted their attempt yet.
Between(r, u) ==
    {w \in Workers : req[w].pc = "allowed" /\ Host[w] = r /\ req[w].user = u}

\* Whoever is past the check found fewer than GuardMax failures there.
GuardOK ==
    \A r \in Replicas, u \in Users :
        attempts[r][u].count + Cardinality(Between(r, u))
            <= GuardMax + Cardinality(Workers) - 1

Pending(w) == req[w].pc \in {"begun", "rotating"} /\ req[w].next # None

\* What a request may rely on at each point.
ReqOK(w) ==
    LET q == req[w]
    IN  /\ q.pc \in {"verified", "current", "revoking", "marking"} =>
              rows[q.access] # None
        /\ q.pc = "verified" /\ q.late => q.access \in revoked
        /\ q.pc = "current" /\ q.late => ~Verify(q.access)
        /\ q.pc \in {"revoking", "marking"} /\ q.token # None =>
              rows[q.token] # None
        /\ q.pc \in {"begun", "rotating", "sweeping"} => rows[q.token] # None
        /\ q.pc = "begun" /\ q.op = "refresh" => q.next # None
        /\ q.pc = "rotating" => /\ q.next # None
                                /\ lock[q.token] = w
                                /\ ~Spent(q.token)
        /\ Pending(w) => rows[q.next] = None
        /\ q.pc = "sweeping" => \A t \in q.snapshot : rows[t] # None
        /\ q.pc = "sweeping" /\ ~q.raced => Family(q.token) \subseteq q.snapshot

RequestsOK == \A w \in Workers : ReqOK(w)

\* No two requests have generated the same token.
NextsApart ==
    \A v, w \in Workers :
        v # w /\ Pending(v) /\ Pending(w) => req[v].next # req[w].next

\* The first token of a family stays in the table, so its number is not used
\* for another family.
FamiliesOK ==
    /\ \A t \in Tokens : rows[t] # None => rows[rows[t].family] # None
    /\ \A t \in ended : rows[t] # None

Inv ==
    /\ TypeOK
    /\ GuardOK
    /\ RequestsOK
    /\ NextsApart
    /\ FamiliesOK
    /\ OneLivePerFamily
    /\ RevocationEndsFamily

-----------------------------------------------------------------------------
(* Types, the guard's count and the requests of other workers.             *)

\* Sets of workers are finite and no larger than the set of all of them.
LEMMA WorkersCount ==
    /\ Cardinality(Workers) \in Nat
    /\ \A S \in SUBSET Workers : /\ IsFiniteSet(S)
                                  /\ Cardinality(S) \in Nat
                                  /\ Cardinality(S) <= Cardinality(Workers)
<1>1. IsFiniteSet(Workers)
  BY SessionAssumptions
<1> QED
  BY <1>1, FS_CardinalityType, FS_Subset

\* The columns of a refresh_tokens row.
LEMMA RowType ==
    ASSUME TypeOK, NEW t \in Tokens, rows[t] # None
    PROVE  /\ rows[t] \in RefreshSession
           /\ rows[t].user \in Users /\ rows[t].family \in Tokens
           /\ rows[t].expires \in Nat /\ rows[t].accessExpires \in Nat
           /\ rows[t].revoked \in BOOLEAN
           /\ rows[t].replacedBy \in Tokens \cup {None}
BY DEF TypeOK, RefreshSession

\* The fields of a request, by what it is doing.
LEMMA ReqType ==
    ASSUME TypeOK, NEW w \in Workers
    PROVE  /\ req[w] \in Request
           /\ req[w].pc = "allowed" => req[w].user \in Users
           /\ req[w].pc \in {"verified", "current"} =>
                 req[w] \in [pc : {"verified", "current"}, access : Tokens,
                             late : BOOLEAN]
           /\ req[w].pc \in {"revoking", "marking"} =>
                 req[w] \in [pc : {"revoking", "marking"}, access : Tokens,
                             token : Tokens \cup {None}]
           /\ req[w].pc \in {"begun", "rotating"} =>
                 req[w] \in [pc : {"begun", "rotating"},
                             op : {"refresh", "logout"}, token : Tokens,
                             next : Tokens \cup {None}, at : Nat]
           /\ req[w].pc = "sweeping" =>
                 req[w] \in [pc : {"sweeping"}, token : Tokens,
                             snapshot : SUBSET Tokens, raced : BOOLEAN]
BY DEF TypeOK, Request

\* A worker without a request.
LEMMA IdleType == Idle \in Request /\ Idle.pc = "idle"
BY DEF Idle, Request

\* A new session's row is well typed and belongs to the family it is given.
LEMMA NewSessionType ==
    ASSUME now \in Nat, NEW u \in Users, NEW f \in Tokens, NEW stamp \in Nat
    PROVE  /\ NewSession(u, f, stamp) \in RefreshSession
           /\ NewSession(u, f, stamp) # None
           /\ NewSession(u, f, stamp).family = f
<1>1. AccessTTL \in Nat /\ RefreshTTL \in Nat
  BY SessionAssumptions
<1>2. stamp + RefreshTTL \in Nat /\ now + AccessTTL \in Nat
  BY <1>1
<1>3. NewSession(u, f, stamp) \in RefreshSession
  BY <1>2 DEF NewSession, RefreshSession
<1> QED
  BY <1>3, NoneIsNoSession DEF NewSession

\* The guard's bound implies the type of its counts.
LEMMA AttemptsType ==
    ASSUME attempts' \in [Replicas -> [Users -> [count : Nat, first : Nat]]],
           GuardOK'
    PROVE  attempts' \in [Replicas -> [Users ->
              [count : 0 .. GuardMax + Cardinality(Workers) - 1, first : Nat]]]
<1>1. ASSUME NEW r \in Replicas, NEW u \in Users
      PROVE  attempts'[r][u].count \in 0 .. GuardMax + Cardinality(Workers) - 1
  <2>1. attempts'[r][u].count \in Nat
    OBVIOUS
  <2>2. Between(r, u)' \in SUBSET Workers
    BY DEF Between
  <2>3. Cardinality(Between(r, u)') \in Nat
    BY <2>2, WorkersCount
  <2>4. attempts'[r][u].count + Cardinality(Between(r, u)')
            <= GuardMax + Cardinality(Workers) - 1
    BY DEF GuardOK
  <2> QED
    BY <2>1, <2>3, <2>4, WorkersCount, SessionAssumptions
<1>2. \A r \in Replicas, u \in Users :
         attempts'[r][u] \in [count : 0 .. GuardMax + Cardinality(Workers) - 1,
                              first : Nat]
  BY <1>1
<1> QED
  BY <1>2

\* No login passes its check or counts: the guard is as it was.
LEMMA GuardSame ==
    ASSUME GuardOK, attempts' = attempts,
           \A v \in Workers : req[v].pc = "allowed" \/ req'[v].pc = "allowed" =>
                               req'[v] = req[v]
    PROVE  GuardOK'
<1>1. ASSUME NEW r \in Replicas, NEW u \in Users
      PROVE  Between(r, u)' = Between(r, u)
  BY DEF Between
<1> QED
  BY <1>1 DEF GuardOK

\* What a request that is left alone needs of a step.
LEMMA KeepReq ==
    ASSUME TypeOK, NEW v \in Workers, ReqOK(v), req'[v] = req[v],
           \A t \in Tokens : rows[t] # None =>
              rows'[t] # None /\ rows'[t].accessExpires = rows[t].accessExpires,
           Pending(v) => rows'[req[v].next] = None,
           req[v].pc = "rotating" =>
              /\ lock'[req[v].token] = v
              /\ rows'[req[v].token] = rows[req[v].token],
           revoked \subseteq revoked', now' \in Nat, now' >= now,
           req[v].pc = "sweeping" /\ ~req[v].raced =>
              Family(req[v].token)' \subseteq Family(req[v].token)
    PROVE  ReqOK(v)'
<1> DEFINE q == req[v]
<1>1. /\ q.pc \in {"verified", "current"} => q.access \in Tokens
      /\ q.pc \in {"revoking", "marking"} =>
            q.access \in Tokens /\ q.token \in Tokens \cup {None}
      /\ q.pc \in {"begun", "rotating"} => q.token \in Tokens
      /\ q.pc = "sweeping" => q.token \in Tokens /\ q.snapshot \subseteq Tokens
  BY ReqType
<1>2. q.pc = "current" /\ q.late => ~Verify(q.access)'
  <2> SUFFICES ASSUME q.pc = "current", q.late PROVE ~Verify(q.access)'
    OBVIOUS
  <2>1. /\ q.access \in Tokens /\ rows[q.access] # None
        /\ ~(rows[q.access].accessExpires > now)
    BY <1>1 DEF ReqOK, Verify
  <2>2. rows[q.access].accessExpires \in Nat /\ now \in Nat
    BY <2>1, RowType DEF TypeOK
  <2>3. rows'[q.access].accessExpires = rows[q.access].accessExpires
    BY <2>1
  <2> QED
    BY <2>1, <2>2, <2>3 DEF Verify
<1>3. Pending(v)' <=> Pending(v)
  BY DEF Pending
<1>4. q.pc = "rotating" => ~Spent(q.token)'
  BY DEF ReqOK, Spent
<1>5. q.pc = "sweeping" /\ ~q.raced => Family(q.token)' \subseteq q.snapshot
  BY DEF ReqOK
<1> QED
  BY <1>1, <1>2, <1>3, <1>4, <1>5 DEF ReqOK

\* Ending a request keeps what is known of the requests.
LEMMA IdleReqOK ==
    ASSUME NEW w \in Workers, req'[w] = Idle
    PROVE  ReqOK(w)' /\ ~Pending(w)'
BY DEF ReqOK, Pending, Idle

\* A step of w that changes no row: what it has to keep.
LEMMA LocalStep ==
    ASSUME Inv, NEW w \in Workers, NEW q \in Request,
           req' = [req EXCEPT ![w] = q],
           UNCHANGED <<now, users, rows, ended>>,
           lock' \in [Tokens -> Workers \cup {None}],
           \A t \in Tokens : lock[t] # w /\ lock[t] # None =>
                              lock'[t] = lock[t],
           revoked \subseteq revoked', revoked' \subseteq Tokens,
           cached' \subseteq Tokens,
           attempts' \in [Replicas -> [Users -> [count : Nat, first : Nat]]],
           GuardOK', ReqOK(w)',
           Pending(w)' => \A v \in Workers \ {w} :
                            Pending(v) => req[v].next # q.next
    PROVE  Inv'
<1>1. TypeOK'
  <2>1. attempts' \in [Replicas -> [Users ->
           [count : 0 .. GuardMax + Cardinality(Workers) - 1, first : Nat]]]
    BY AttemptsType
  <2>2. req' \in [Workers -> Request]
    BY DEF Inv, TypeOK
  <2> QED
    BY <2>1, <2>2 DEF Inv, TypeOK
<1>2. ASSUME NEW v \in Workers, v # w
      PROVE  ReqOK(v)' /\ req'[v] = req[v] /\ (Pending(v)' <=> Pending(v))
  <2>1. req'[v] = req[v]
    BY <1>2 DEF Inv, TypeOK
  <2>2. ReqOK(v)
    BY DEF Inv, RequestsOK
  <2>3. req[v].pc = "rotating" => lock'[req[v].token] = v
    <3>1. req[v].pc = "rotating" =>
             req[v].token \in Tokens /\ lock[req[v].token] = v
      BY <2>2, ReqType DEF Inv, ReqOK
    <3>2. v # None
      BY SessionAssumptions
    <3> QED
      BY <1>2, <3>1, <3>2
  <2>4. now \in Nat /\ now' = now /\ now' >= now /\ TypeOK
    BY DEF Inv, TypeOK
  <2>5. Pending(v) => rows'[req[v].next] = None
    BY <2>2 DEF ReqOK
  <2>6. req[v].pc = "sweeping" /\ ~req[v].raced =>
           Family(req[v].token)' \subseteq Family(req[v].token)
    BY <2>1 DEF Family
  <2>7. ReqOK(v)'
    BY <2>1, <2>2, <2>3, <2>4, <2>5, <2>6, KeepReq
  <2> QED
    BY <2>1, <2>7 DEF Pending
<1>3. RequestsOK'
  BY <1>2 DEF RequestsOK
<1>4. NextsApart'
  <2>1. req'[w] = q
    BY DEF Inv, TypeOK
  <2> QED
    BY <1>2, <2>1 DEF NextsApart, Inv
<1>5. FamiliesOK' /\ OneLivePerFamily' /\ RevocationEndsFamily'
  BY DEF Inv, FamiliesOK, OneLivePerFamily, RevocationEndsFamily, Live, Spent
<1> QED
  BY <1>1, <1>3, <1>4, <1>5 DEF Inv

\* The same for a step that is no login.
LEMMA QuietStep ==
    ASSUME Inv, NEW w \in Workers, NEW q \in Request,
           req' = [req EXCEPT ![w] = q],
           req[w].pc # "allowed", q.pc # "allowed",
           UNCHANGED <<now, users, rows, attempts, ended>>,
           lock' \in [Tokens -> Workers \cup {None}],
           \A t \in Tokens : lock[t] # w /\ lock[t] # None =>
                              lock'[t] = lock[t],
           revoked \subseteq revoked', revoked' \subseteq Tokens,
           cached' \subseteq Tokens, ReqOK(w)',
           Pending(w)' => \A v \in Workers \ {w} :
                            Pending(v) => req[v].next # q.next
    PROVE  Inv'
<1>1. attempts' \in [Replicas -> [Users -> [count : Nat, first : Nat]]]
  <2>1. attempts \in [Replicas -> [Users ->
           [count : 0 .. GuardMax + Cardinality(Workers) - 1, first : Nat]]]
    BY DEF Inv, TypeOK
  <2>2. \A r \in Replicas, u \in Users :
           attempts[r][u] \in [count : Nat, first : Nat]
    BY <2>1, WorkersCount, SessionAssumptions
  <2> QED
    BY <2>1, <2>2
<1>2. \A v \in Workers : v # w => req'[v] = req[v]
  BY DEF Inv, TypeOK
<1>3. req'[w] = q
  BY DEF Inv, TypeOK
<1>4. GuardOK'
  BY <1>2, <1>3, GuardSame DEF Inv
<1> QED
  BY <1>1, <1>4, LocalStep

-----------------------------------------------------------------------------
(* Introspection, and the steps of a logout and of a refresh that change   *)
(* no row.                                                                 *)

\* CurrentUser verifies the token and changes no table.
LEMMA CurrentUserInv ==
    ASSUME Inv, NEW w \in Workers, NEW t \in Bearers, CurrentUser(w, t)
    PROVE  Inv'
<1> DEFINE q == [pc |-> "verified", access |-> t, late |-> t \in revoked]
<1>1. t \in Tokens
  BY BearersAssumption
<1>2. q \in Request
  BY <1>1 DEF Request
<1>3. req' = [req EXCEPT ![w] = q] /\ req[w].pc = "idle"
  BY DEF CurrentUser
<1>4. req'[w] = q
  BY <1>3 DEF Inv, TypeOK
<1>5. q.pc = "verified" /\ q.access = t /\ (q.late => t \in revoked)
  OBVIOUS
<1>6. rows' = rows /\ rows[t] # None /\ revoked' = revoked
  BY DEF CurrentUser, tables
<1> HIDE DEF q
<1>7. ReqOK(w)' /\ ~Pending(w)'
  BY <1>4, <1>5, <1>6 DEF ReqOK, Pending
<1> QED
  BY <1>2, <1>3, <1>5, <1>7, QuietStep DEF CurrentUser, tables, Inv, TypeOK

\* The revocation check marks a revoked token in Redis again, and no row.
LEMMA CheckRevokedInv ==
    ASSUME Inv, NEW w \in Workers, CheckRevoked(w)
    PROVE  Inv'
<1> DEFINE t == req[w].access
<1>1. /\ req[w].pc = "verified" /\ ReqOK(w) /\ t \in Tokens
      /\ req[w] \in [pc : {"verified", "current"}, access : Tokens,
                     late : BOOLEAN]
  BY ReqType DEF CheckRevoked, Inv, RequestsOK
<1>2. CASE IsTokenRevoked(t)
  <2>1. req' = [req EXCEPT ![w] = Idle] /\ cached' \subseteq Tokens
    BY <1>1, <1>2 DEF CheckRevoked, Done, Inv, TypeOK
  <2>2. req'[w] = Idle
    BY <2>1 DEF Inv, TypeOK
  <2> QED
    BY <1>1, <2>1, <2>2, IdleType, IdleReqOK, QuietStep
    DEF CheckRevoked, tables, Inv, TypeOK
<1>3. CASE ~IsTokenRevoked(t)
  <2> DEFINE q == [req[w] EXCEPT !.pc = "current"]
  <2>1. req' = [req EXCEPT ![w] = q] /\ cached' = cached
    BY <1>3 DEF CheckRevoked
  <2>2. /\ q \in [pc : {"verified", "current"}, access : Tokens,
                   late : BOOLEAN]
        /\ q.pc = "current" /\ q.access = t /\ q.late = req[w].late
    BY <1>1
  <2>3. q \in Request
    BY <2>2 DEF Request
  <2>4. req'[w] = q
    BY <2>1 DEF Inv, TypeOK
  <2>5. q.late => ~Verify(t)'
    <3>1. q.late => t \in revoked
      BY <1>1, <2>2 DEF ReqOK
    <3>2. t \in revoked => ~(rows[t].accessExpires > now)
      BY <1>3 DEF IsTokenRevoked, IsRevokedRow
    <3>3. rows' = rows /\ now' = now
      BY DEF CheckRevoked, tables
    <3>4. t' = t
      BY <2>2, <2>4
    <3> HIDE DEF q, t
    <3> QED
      BY <3>1, <3>2, <3>3, <3>4 DEF Verify
  <2>6. rows'[t] # None
    BY <1>1 DEF ReqOK, CheckRevoked, tables
  <2>7. ReqOK(w)' /\ ~Pending(w)'
    BY <2>2, <2>4, <2>5, <2>6 DEF ReqOK, Pending
  <2> HIDE DEF q
  <2> QED
    BY <1>1, <2>1, <2>2, <2>3, <2>7, QuietStep
    DEF CheckRevoked, tables, Inv, TypeOK
<1> QED
  BY <1>2, <1>3

\* Releasing one worker's row locks keeps the locks of the others.
LEMMA UnlockKeeps ==
    ASSUME TypeOK, NEW w \in Workers, Unlock(w)
    PROVE  /\ lock' \in [Tokens -> Workers \cup {None}]
           /\ \A t \in Tokens : lock[t] # w /\ lock[t] # None =>
                                  lock'[t] = lock[t]
BY DEF TypeOK, Unlock

\* A request ends and leaves the rows as they are.
LEMMA EndsInv ==
    ASSUME Inv, NEW w \in Workers, AnswerUser(w) \/ Fail(w)
    PROVE  Inv'
<1>1. /\ req' = [req EXCEPT ![w] = Idle]
      /\ req[w].pc # "allowed"
      /\ UNCHANGED <<now, tables, cached, attempts, ended>>
      /\ lock' = lock \/ Unlock(w)
  BY DEF AnswerUser, Fail, Done, Rollback
<1>2. req'[w] = Idle
  BY <1>1 DEF Inv, TypeOK
<1>3. /\ lock' \in [Tokens -> Workers \cup {None}]
      /\ \A t \in Tokens : lock[t] # w /\ lock[t] # None => lock'[t] = lock[t]
  BY <1>1, UnlockKeeps DEF Inv, TypeOK
<1> QED
  BY <1>1, <1>2, <1>3, IdleType, IdleReqOK, QuietStep DEF tables, Inv, TypeOK

\* The request of a logout that goes on to its refresh token.
LEMMA LogoutRefreshOK ==
    ASSUME NEW w \in Workers, NEW t \in Tokens, rows[t] # None, rows' = rows,
           req'[w] = LogoutRefresh(t)
    PROVE  /\ LogoutRefresh(t) \in Request
           /\ LogoutRefresh(t).pc = "begun"
           /\ ReqOK(w)' /\ ~Pending(w)'
BY DEF LogoutRefresh, Request, ReqOK, Pending

\* Logout chooses what it revokes, the access token first.
LEMMA LogoutInv ==
    ASSUME Inv, NEW w \in Workers, NEW access \in Bearers \cup {None},
           NEW token \in Tokens \cup {None}, Logout(w, access, token)
    PROVE  Inv'
<1>1. /\ req[w].pc = "idle"
      /\ \A t \in {access, token} : t # None => rows[t] # None
      /\ UNCHANGED <<now, tables, lock, cached, attempts, ended>>
  BY DEF Logout
<1>2. ASSUME NEW q \in Request, q.pc # "allowed",
             req' = [req EXCEPT ![w] = q], ReqOK(w)', ~Pending(w)'
      PROVE  Inv'
  BY <1>1, <1>2, QuietStep DEF tables, Inv, TypeOK
<1>3. CASE access # None /\ Verify(access)
  <2> DEFINE q == [pc |-> "revoking", access |-> access, token |-> token]
  <2>1. access \in Tokens
    BY <1>3, BearersAssumption
  <2>2. q \in Request
    BY <2>1 DEF Request
  <2>3. req' = [req EXCEPT ![w] = q]
    BY <1>3 DEF Logout
  <2>4. req'[w] = q
    BY <2>3 DEF Inv, TypeOK
  <2>5. ReqOK(w)' /\ ~Pending(w)'
    BY <1>1, <1>3, <2>4 DEF ReqOK, Pending, tables
  <2> QED
    BY <1>2, <2>2, <2>3, <2>5
<1>4. CASE ~(access # None /\ Verify(access)) /\ token # None
  <2>1. req' = [req EXCEPT ![w] = LogoutRefresh(token)]
    BY <1>4 DEF Logout
  <2>2. req'[w] = LogoutRefresh(token)
    BY <2>1 DEF Inv, TypeOK
  <2>3. token \in Tokens /\ rows[token] # None /\ rows' = rows
    BY <1>1, <1>4 DEF tables
  <2>4. /\ LogoutRefresh(token) \in Request
        /\ LogoutRefresh(token).pc = "begun"
        /\ ReqOK(w)' /\ ~Pending(w)'
    BY <2>2, <2>3, LogoutRefreshOK
  <2> QED
    BY <1>2, <2>1, <2>4
<1>5. CASE ~(access # None /\ Verify(access)) /\ token = None
  <2>1. req' = [req EXCEPT ![w] = Idle]
    BY <1>5 DEF Logout
  <2>2. req'[w] = Idle
    BY <2>1 DEF Inv, TypeOK
  <2> QED
    BY <1>2, <2>1, <2>2, IdleType, IdleReqOK
<1> QED
  BY <1>3, <1>4, <1>5

\* Logout revokes the access token in the database.
LEMMA RevokeTokenInv ==
    ASSUME Inv, NEW w \in Workers, RevokeToken(w)
    PROVE  Inv'
<1> DEFINE q == [req[w] EXCEPT !.pc = "marking"]
<1>1. /\ req[w].pc = "revoking" /\ ReqOK(w)
      /\ req[w] \in [pc : {"revoking", "marking"}, access : Tokens,
                     token : Tokens \cup {None}]
  BY ReqType DEF RevokeToken, Inv, RequestsOK
<1>2. /\ q \in [pc : {"revoking", "marking"}, access : Tokens,
                 token : Tokens \cup {None}]
      /\ q.pc = "marking" /\ q.access = req[w].access
      /\ q.token = req[w].token
  BY <1>1
<1>3. q \in Request
  BY <1>2 DEF Request
<1>4. req' = [req EXCEPT ![w] = q] /\ rows' = rows
  BY DEF RevokeToken
<1>5. req'[w] = q
  BY <1>4 DEF Inv, TypeOK
<1>6. /\ revoked \subseteq revoked' /\ revoked' \subseteq Tokens
      /\ cached' \subseteq Tokens
  BY <1>1 DEF RevokeToken, Inv, TypeOK
<1> HIDE DEF q
<1>7. ReqOK(w)' /\ ~Pending(w)'
  BY <1>1, <1>2, <1>4, <1>5 DEF ReqOK, Pending
<1> QED
  BY <1>1, <1>2, <1>3, <1>4, <1>6, <1>7, QuietStep
  DEF RevokeToken, Inv, TypeOK

\* Logout marks the access token revoked in Redis.
LEMMA MarkRevokedInv ==
    ASSUME Inv, NEW w \in Workers, MarkRevoked(w)
    PROVE  Inv'
<1> DEFINE t == req[w].token
<1>1. /\ req[w].pc = "marking" /\ ReqOK(w)
      /\ req[w] \in [pc : {"revoking", "marking"}, access : Tokens,
                     token : Tokens \cup {None}]
  BY ReqType DEF MarkRevoked, Inv, RequestsOK
<1>2. /\ cached' \subseteq Tokens
      /\ UNCHANGED <<now, tables, lock, attempts, ended>>
  BY <1>1 DEF MarkRevoked, Inv, TypeOK
<1>3. ASSUME NEW q \in Request, q.pc # "allowed",
             req' = [req EXCEPT ![w] = q], ReqOK(w)', ~Pending(w)'
      PROVE  Inv'
  BY <1>1, <1>2, <1>3, QuietStep DEF tables, Inv, TypeOK
<1>4. CASE t = None
  <2>1. req' = [req EXCEPT ![w] = Idle]
    BY <1>4 DEF MarkRevoked
  <2>2. req'[w] = Idle
    BY <2>1 DEF Inv, TypeOK
  <2> QED
    BY <1>3, <2>1, <2>2, IdleType, IdleReqOK
<1>5. CASE t # None
  <2>1. req' = [req EXCEPT ![w] = LogoutRefresh(t)]
    BY <1>5 DEF MarkRevoked
  <2>2. req'[w] = LogoutRefresh(t)
    BY <2>1 DEF Inv, TypeOK
  <2>3. t \in Tokens /\ rows[t] # None /\ rows' = rows
    BY <1>1, <1>2, <1>5 DEF ReqOK, tables
  <2> HIDE DEF t
  <2>4. /\ LogoutRefresh(t) \in Request
        /\ LogoutRefresh(t).pc = "begun"
        /\ ReqOK(w)' /\ ~Pending(w)'
    BY <2>2, <2>3, LogoutRefreshOK
  <2> QED
    BY <1>3, <2>1, <2>4
<1> QED
  BY <1>4, <1>5

\* A fresh number is no row's and no other request's.
LEMMA FreshUnused ==
    ASSUME NEW n \in Tokens, Fresh(n)
    PROVE  /\ rows[n] = None
           /\ \A v \in Workers : Pending(v) => req[v].next # n
BY DEF Fresh, Unused, Pending

\* Refresh reads its clock, generates the next token and begins.
LEMMA RefreshInv ==
    ASSUME Inv, NEW w \in Workers, NEW t \in Tokens, Refresh(w, t)
    PROVE  Inv'
<1>1. PICK n \in Tokens :
         /\ Fresh(n)
         /\ req' = [req EXCEPT ![w] = [pc |-> "begun", op |-> "refresh",
                                       token |-> t, next |-> n, at |-> now]]
  BY DEF Refresh
<1> DEFINE q == [pc |-> "begun", op |-> "refresh", token |-> t, next |-> n,
                 at |-> now]
<1>2. q \in Request
  BY DEF Request, Inv, TypeOK
<1>3. req'[w] = q
  BY <1>1 DEF Inv, TypeOK
<1>4. n # None
  BY SessionAssumptions DEF Tokens
<1>5. rows' = rows /\ rows[t] # None
  BY DEF Refresh, tables
<1>6. ReqOK(w)'
  BY <1>1, <1>3, <1>4, <1>5, FreshUnused DEF ReqOK
<1> QED
  BY <1>1, <1>2, <1>3, <1>6, FreshUnused, QuietStep
  DEF Refresh, tables, Inv, TypeOK

\* Taking a free row lock disturbs no other transaction.
LEMMA LockKeeps ==
    ASSUME TypeOK, NEW w \in Workers, NEW t \in Tokens, RowLockFree(w, t),
           lock' = [lock EXCEPT ![t] = w]
    PROVE  /\ lock' \in [Tokens -> Workers \cup {None}]
           /\ lock'[t] = w
           /\ \A s \in Tokens : lock[s] # w /\ lock[s] # None =>
                                  lock'[s] = lock[s]
BY DEF TypeOK, RowLockFree

\* SELECT ... FOR UPDATE of the refresh token, with its outcomes.
LEMMA ForUpdateInv ==
    ASSUME Inv, NEW w \in Workers, refreshSessionForUpdate(w)
    PROVE  Inv'
<1> DEFINE t == req[w].token
           expired == req[w].op = "refresh" /\ rows[t].expires <= req[w].at
           revoke == req[w].op = "logout" \/ Spent(t)
<1>1. /\ req[w].pc = "begun" /\ ReqOK(w) /\ t \in Tokens /\ RowLockFree(w, t)
      /\ req[w] \in [pc : {"begun", "rotating"}, op : {"refresh", "logout"},
                     token : Tokens, next : Tokens \cup {None}, at : Nat]
  BY ReqType DEF refreshSessionForUpdate, Inv, RequestsOK
<1>2. /\ UNCHANGED <<now, tables, cached, attempts, ended>>
      /\ rows' = rows
  BY DEF refreshSessionForUpdate, tables
<1>3. CASE expired
  <2>1. req' = [req EXCEPT ![w] = Idle] /\ lock' = lock
    BY <1>3 DEF refreshSessionForUpdate, Done
  <2>2. req'[w] = Idle
    BY <2>1 DEF Inv, TypeOK
  <2> QED
    BY <1>1, <1>2, <2>1, <2>2, IdleType, IdleReqOK, QuietStep
    DEF tables, Inv, TypeOK
<1>4. ASSUME ~expired
      PROVE  /\ lock' = [lock EXCEPT ![t] = w]
             /\ req' = [req EXCEPT ![w] =
                   IF revoke THEN revokeRefreshFamilyTx(t)
                   ELSE [@ EXCEPT !.pc = "rotating"]]
             /\ lock' \in [Tokens -> Workers \cup {None}]
             /\ lock'[t] = w
             /\ \A s \in Tokens : lock[s] # w /\ lock[s] # None =>
                                    lock'[s] = lock[s]
  <2>1. /\ lock' = [lock EXCEPT ![t] = w]
        /\ req' = [req EXCEPT ![w] =
              IF revoke THEN revokeRefreshFamilyTx(t)
              ELSE [@ EXCEPT !.pc = "rotating"]]
    BY <1>4 DEF refreshSessionForUpdate
  <2> HIDE DEF t
  <2>2. TypeOK
    BY DEF Inv
  <2> QED
    BY <1>1, <2>1, <2>2, LockKeeps
<1>5. CASE ~expired /\ revoke
  <2> DEFINE q == revokeRefreshFamilyTx(t)
  <2>1. req' = [req EXCEPT ![w] = q]
    BY <1>4, <1>5
  <2>2. req'[w] = q
    BY <2>1 DEF Inv, TypeOK
  <2>3. /\ q.pc = "sweeping" /\ q.token = t /\ q.snapshot = Family(t)
        /\ q \in Request
    BY <1>1 DEF revokeRefreshFamilyTx, Request, Family
  <2>4. \A s \in Family(t) : rows[s] # None
    BY DEF Family
  <2>5. Family(req[w].token)' \subseteq q.snapshot
    BY <1>2, <2>2, <2>3 DEF Family
  <2>6. rows[t] # None
    BY <1>1 DEF ReqOK
  <2> HIDE DEF q
  <2>7. ReqOK(w)' /\ ~Pending(w)'
    BY <1>2, <2>2, <2>3, <2>4, <2>5, <2>6 DEF ReqOK, Pending
  <2> QED
    BY <1>1, <1>2, <1>4, <1>5, <2>1, <2>3, <2>7, QuietStep
    DEF tables, Inv, TypeOK
<1>6. CASE ~expired /\ ~revoke
  <2> DEFINE q == [req[w] EXCEPT !.pc = "rotating"]
  <2>1. req' = [req EXCEPT ![w] = q]
    BY <1>4, <1>6
  <2>2. req'[w] = q
    BY <2>1 DEF Inv, TypeOK
  <2>3. /\ q \in [pc : {"begun", "rotating"}, op : {"refresh", "logout"},
                   token : Tokens, next : Tokens \cup {None}, at : Nat]
        /\ q.pc = "rotating" /\ q.token = t /\ q.next = req[w].next
    BY <1>1
  <2>4. q \in Request
    BY <2>3 DEF Request
  <2>5. /\ rows[t] # None /\ req[w].next # None /\ Pending(w)
        /\ rows[req[w].next] = None /\ ~Spent(t)
    BY <1>1, <1>6 DEF ReqOK, Pending
  <2>6. \A v \in Workers \ {w} : Pending(v) => req[v].next # q.next
    BY <2>3, <2>5 DEF Inv, NextsApart
  <2>7. req'[w].token = t /\ lock'[t] = w
    BY <1>4, <1>6, <2>2, <2>3
  <2>8. ~Spent(req[w].token)'
    BY <1>2, <2>5, <2>7 DEF Spent
  <2> HIDE DEF q
  <2>9. ReqOK(w)'
    BY <1>2, <2>2, <2>3, <2>5, <2>7, <2>8 DEF ReqOK
  <2> QED
    BY <1>1, <1>2, <1>4, <1>6, <2>1, <2>3, <2>4, <2>6, <2>9, QuietStep
    DEF tables, Inv, TypeOK
<1> QED
  BY <1>3, <1>5, <1>6

\* The family's UPDATE waits for a locked row and takes its lock.
LEMMA LockFamilyRowInv ==
    ASSUME Inv, NEW w \in Workers, LockFamilyRow(w)
    PROVE  Inv'
<1>1. /\ req[w].pc = "sweeping" /\ ReqOK(w) /\ req[w] \in Request
      /\ req[w].snapshot \subseteq Tokens
  BY ReqType DEF LockFamilyRow, Inv, RequestsOK
<1>2. PICK t \in ToLock(w) : RowLockFree(w, t) /\ lock' = [lock EXCEPT ![t] = w]
  BY DEF LockFamilyRow
<1>3. t \in Tokens
  BY <1>1 DEF ToLock
<1>4. /\ lock' \in [Tokens -> Workers \cup {None}]
      /\ \A s \in Tokens : lock[s] # w /\ lock[s] # None => lock'[s] = lock[s]
  BY <1>2, <1>3, LockKeeps DEF Inv
<1>5. req' = [req EXCEPT ![w] = req[w]]
  BY DEF LockFamilyRow, Inv, TypeOK
<1>6. req' = req /\ rows' = rows
  BY DEF LockFamilyRow, tables
<1>7. ReqOK(w)' /\ ~Pending(w)'
  BY <1>1, <1>6 DEF ReqOK, Pending, Family
<1> QED
  BY <1>1, <1>4, <1>5, <1>7, QuietStep DEF LockFamilyRow, tables, Inv, TypeOK

-----------------------------------------------------------------------------
(* The login guard.                                                        *)

\* The guard's counters are numbers.
LEMMA CountsNat ==
    ASSUME TypeOK
    PROVE  attempts \in [Replicas -> [Users -> [count : Nat, first : Nat]]]
<1>1. \A r \in Replicas, u \in Users :
         attempts[r][u] \in [count : Nat, first : Nat]
  BY WorkersCount, SessionAssumptions DEF TypeOK
<1> QED
  BY <1>1 DEF TypeOK

\* One counter of the guard changes, by a step of the request w.
LEMMA GuardStep ==
    ASSUME TypeOK, GuardOK, NEW w \in Workers, NEW u \in Users,
           NEW b \in [count : Nat, first : Nat],
           attempts' = [attempts EXCEPT ![Host[w]][u] = b],
           \A v \in Workers : v # w => req'[v] = req[v],
           req[w].pc = "allowed" => req[w].user = u,
           req'[w].pc = "allowed" => req'[w].user = u,
           b.count + Cardinality(Between(Host[w], u)')
               <= GuardMax + Cardinality(Workers) - 1
    PROVE  /\ attempts' \in [Replicas -> [Users -> [count : Nat, first : Nat]]]
           /\ GuardOK'
<1>1. Host[w] \in Replicas
  BY SessionAssumptions
<1>2. attempts \in [Replicas -> [Users -> [count : Nat, first : Nat]]]
  BY CountsNat
<1>3. attempts' \in [Replicas -> [Users -> [count : Nat, first : Nat]]]
  BY <1>1, <1>2
<1>4. ASSUME NEW r \in Replicas, NEW x \in Users
      PROVE  attempts'[r][x].count + Cardinality(Between(r, x)')
                 <= GuardMax + Cardinality(Workers) - 1
  <2>1. CASE r = Host[w] /\ x = u
    BY <1>1, <1>2, <2>1
  <2>2. CASE ~(r = Host[w] /\ x = u)
    <3>1. Between(r, x)' = Between(r, x)
      BY <2>2 DEF Between
    <3>2. attempts'[r][x] = attempts[r][x]
      BY <1>1, <1>2, <2>2
    <3> QED
      BY <3>1, <3>2 DEF GuardOK
  <2> QED
    BY <2>1, <2>2
<1> QED
  BY <1>3, <1>4 DEF GuardOK

\* The guard's empty entry.
LEMMA NoAttemptsType ==
    NoAttempts \in [count : Nat, first : Nat] /\ NoAttempts.count = 0
BY DEF NoAttempts

\* The guard's reservation keeps its count.
LEMMA LoginAllowedInv ==
    ASSUME Inv, NEW w \in Workers, NEW u \in Users, LoginAllowed(w, u)
    PROVE  Inv'
<1> DEFINE a == attempts[Host[w]][u]
           b == IF now - a.first > GuardWindow THEN NoAttempts ELSE a
           q == [pc |-> "allowed", user |-> u]
<1>1. /\ req[w].pc = "idle"
      /\ a.count = 0 \/ now - a.first > GuardWindow \/ a.count < GuardMax
      /\ attempts' = [attempts EXCEPT ![Host[w]][u] = b]
      /\ req' = [req EXCEPT ![w] = q]
  BY DEF LoginAllowed, Allow
<1>2. a \in [count : Nat, first : Nat] /\ GuardMax \in Nat /\ GuardMax >= 1
  BY CountsNat, SessionAssumptions DEF Inv
<1>3. b \in [count : Nat, first : Nat] /\ b.count <= GuardMax - 1
  BY <1>1, <1>2, NoAttemptsType
<1>4. q \in Request
  BY DEF Request
<1>5. req'[w] = q /\ \A v \in Workers : v # w => req'[v] = req[v]
  BY <1>1 DEF Inv, TypeOK
<1>6. b.count + Cardinality(Between(Host[w], u)')
          <= GuardMax + Cardinality(Workers) - 1
  <2>1. Between(Host[w], u)' \in SUBSET Workers
    BY DEF Between
  <2>2. /\ Cardinality(Between(Host[w], u)') \in Nat
        /\ Cardinality(Between(Host[w], u)') <= Cardinality(Workers)
        /\ Cardinality(Workers) \in Nat
    BY <2>1, WorkersCount
  <2> HIDE DEF b
  <2> QED
    BY <1>2, <1>3, <2>2
<1>7. /\ attempts' \in [Replicas -> [Users -> [count : Nat, first : Nat]]]
      /\ GuardOK'
  <2>1. req[w].pc # "allowed" /\ req'[w].user = u
    BY <1>1, <1>5
  <2>2. TypeOK /\ GuardOK
    BY DEF Inv
  <2>3. attempts' = [attempts EXCEPT ![Host[w]][u] = b]
    BY <1>1
  <2> HIDE DEF b, q
  <2> QED
    BY <1>3, <1>5, <1>6, <2>1, <2>2, <2>3, GuardStep
<1>8. ReqOK(w)' /\ ~Pending(w)'
  BY <1>5 DEF ReqOK, Pending
<1> HIDE DEF q
<1> QED
  BY <1>1, <1>4, <1>7, <1>8, LocalStep DEF LoginAllowed, tables, Inv, TypeOK

\* A failed login is recorded by the guard.
LEMMA LoginFailsInv ==
    ASSUME Inv, NEW w \in Workers, LoginFails(w)
    PROVE  Inv'
<1> DEFINE u == req[w].user
           r == Host[w]
           a == attempts[r][u]
           b == RecordFailure(a)
<1>1. /\ req[w].pc = "allowed" /\ u \in Users /\ r \in Replicas
      /\ req' = [req EXCEPT ![w] = Idle]
      /\ attempts' = [attempts EXCEPT ![r][u] = RecordFailure(@)]
  BY ReqType, SessionAssumptions DEF LoginFails, Done, Inv
<1>2. /\ attempts \in [Replicas -> [Users -> [count : Nat, first : Nat]]]
      /\ a \in [count : Nat, first : Nat] /\ now \in Nat
  BY <1>1, CountsNat DEF Inv, TypeOK
<1>3. attempts' = [attempts EXCEPT ![r][u] = b]
  BY <1>1, <1>2
<1>4. b \in [count : Nat, first : Nat] /\ b.count <= a.count + 1
  BY <1>2 DEF RecordFailure
<1>5. req'[w] = Idle /\ \A v \in Workers : v # w => req'[v] = req[v]
  BY <1>1 DEF Inv, TypeOK
<1> DEFINE B == Between(r, u)
           C == {v \in Workers : req'[v].pc = "allowed" /\ Host[v] = r
                                  /\ req'[v].user = u}
<1>6. C = B \ {w} /\ w \in B
  BY <1>1, <1>5, IdleType DEF Between
<1>7. IsFiniteSet(B) /\ Cardinality(B) \in Nat
  <2>1. B \in SUBSET Workers
    BY DEF Between
  <2> QED
    BY <2>1, WorkersCount
<1>8. Cardinality(C) = Cardinality(B) - 1
  BY <1>6, <1>7, FS_RemoveElement
<1>9. a.count + Cardinality(B) <= GuardMax + Cardinality(Workers) - 1
  BY <1>1 DEF Inv, GuardOK
<1>10. b.count + Cardinality(C) <= GuardMax + Cardinality(Workers) - 1
  <2>1. /\ b.count \in Nat /\ a.count \in Nat /\ GuardMax \in Nat
        /\ Cardinality(Workers) \in Nat /\ Cardinality(B) \in Nat
    BY <1>2, <1>4, <1>7, WorkersCount, SessionAssumptions
  <2> HIDE DEF a, b, B, C
  <2> QED
    BY <1>4, <1>8, <1>9, <2>1
<1>11. ASSUME NEW x \in Users, x = u
       PROVE  /\ attempts' \in [Replicas -> [Users ->
                    [count : Nat, first : Nat]]]
              /\ GuardOK'
  <2>1. Between(Host[w], x)' = C
    BY <1>11 DEF Between
  <2>2. attempts' = [attempts EXCEPT ![Host[w]][x] = b]
    BY <1>3, <1>11
  <2>3. /\ req[w].pc = "allowed" => req[w].user = x
        /\ req'[w].pc = "allowed" => req'[w].user = x
    BY <1>5, <1>11, IdleType
  <2> HIDE DEF b, C
  <2> QED
    BY <1>4, <1>5, <1>10, <2>1, <2>2, <2>3, GuardStep DEF Inv
<1>12. /\ attempts' \in [Replicas -> [Users -> [count : Nat, first : Nat]]]
       /\ GuardOK'
  BY <1>1, <1>11
<1>13. ReqOK(w)' /\ ~Pending(w)'
  BY <1>5, IdleReqOK
<1> QED
  BY <1>1, <1>12, <1>13, IdleType, LocalStep
  DEF LoginFails, tables, Inv, TypeOK

-----------------------------------------------------------------------------
(* A new family.                                                           *)

\* What issue does to the table, if it does anything.
LEMMA IssueRows ==
    ASSUME Inv, NEW u \in Users, issue(u) \/ UNCHANGED rows, ended' = ended
    PROVE  /\ rows' \in [Tokens -> RefreshSession \cup {None}]
           /\ \A s \in Tokens : rows[s] # None => rows'[s] = rows[s]
           /\ \A v \in Workers : Pending(v) => rows'[req[v].next] = None
           /\ \A s \in Tokens : rows[s] # None =>
                 \A x \in Tokens : rows'[x] # None
                                     /\ rows'[x].family = rows[s].family
                                   => x \in Family(s)
           /\ FamiliesOK' /\ OneLivePerFamily' /\ RevocationEndsFamily'
<1>1. CASE UNCHANGED rows
  <2>1. \A v \in Workers : Pending(v) => rows'[req[v].next] = None
    BY <1>1 DEF Inv, RequestsOK, ReqOK
  <2>2. FamiliesOK' /\ OneLivePerFamily' /\ RevocationEndsFamily'
    BY <1>1 DEF Inv, FamiliesOK, OneLivePerFamily, RevocationEndsFamily,
                Live, Spent
  <2> QED
    BY <1>1, <2>1, <2>2 DEF Inv, TypeOK, Family
<1>2. CASE issue(u)
  <2>1. PICK t \in Tokens :
           Fresh(t) /\ rows' = [rows EXCEPT ![t] = NewSession(u, t, now)]
    BY <1>2 DEF issue
  <2> DEFINE s0 == NewSession(u, t, now)
  <2>2. s0 \in RefreshSession /\ s0 # None /\ s0.family = t
    BY NewSessionType DEF Inv, TypeOK
  <2>3. rows[t] = None /\ \A v \in Workers : Pending(v) => req[v].next # t
    BY <2>1, FreshUnused
  <2>4. rows \in [Tokens -> RefreshSession \cup {None}] /\ ended \subseteq Tokens
    BY DEF Inv, TypeOK
  <2>5. /\ rows' \in [Tokens -> RefreshSession \cup {None}]
        /\ rows'[t] = s0
        /\ \A s \in Tokens : s # t => rows'[s] = rows[s]
    BY <2>1, <2>2, <2>4
  <2>6. \A s \in Tokens : rows[s] # None =>
           /\ rows[s].family \in Tokens /\ rows[rows[s].family] # None
           /\ rows[s].family # t /\ s # t
    BY <2>3, RowType DEF Inv, FamiliesOK
  <2>7. \A v \in Workers : Pending(v) => rows'[req[v].next] = None
    <3>1. \A v \in Workers : Pending(v) =>
             req[v].next \in Tokens /\ rows[req[v].next] = None
      BY ReqType DEF Inv, RequestsOK, ReqOK, Pending
    <3> QED
      BY <2>3, <2>5, <3>1
  <2> HIDE DEF s0
  <2>8. FamiliesOK'
    BY <2>2, <2>3, <2>4, <2>5, <2>6 DEF Inv, FamiliesOK
  <2>9. OneLivePerFamily'
    BY <2>2, <2>5, <2>6 DEF Inv, OneLivePerFamily, Live, Spent
  <2>10. RevocationEndsFamily'
    <3>1. t \notin ended
      BY <2>3 DEF Inv, FamiliesOK
    <3> QED
      BY <2>2, <2>5, <3>1 DEF Inv, RevocationEndsFamily, Live, Spent
  <2>11. \A s \in Tokens : rows[s] # None =>
            \A x \in Tokens : rows'[x] # None
                                /\ rows'[x].family = rows[s].family
                              => x \in Family(s)
    BY <2>2, <2>5, <2>6 DEF Family
  <2> QED
    BY <2>3, <2>5, <2>7, <2>8, <2>9, <2>10, <2>11
<1> QED
  BY <1>1, <1>2

\* A registration, or a login that succeeds.
LEMMA IssuedInv ==
    ASSUME Inv, NEW u \in Users, issue(u) \/ UNCHANGED rows,
           req' \in [Workers -> Request],
           \A v \in Workers : req'[v] = req[v] \/ req'[v] = Idle,
           UNCHANGED <<now, lock, revoked, cached, ended>>,
           users' \in SUBSET Users,
           attempts' \in [Replicas -> [Users -> [count : Nat, first : Nat]]],
           GuardOK'
    PROVE  Inv'
<1>1. TypeOK'
  BY AttemptsType, IssueRows DEF Inv, TypeOK
<1>2. ASSUME NEW v \in Workers
      PROVE  ReqOK(v)' /\ (Pending(v)' => Pending(v) /\ req'[v] = req[v])
  <2>1. CASE req'[v] = Idle
    BY <2>1, IdleReqOK
  <2>2. CASE req'[v] = req[v]
    <3>1. ReqOK(v) /\ TypeOK /\ now' \in Nat /\ now' >= now
      BY DEF Inv, RequestsOK, TypeOK
    <3>2. req[v].pc \in {"rotating", "sweeping"} =>
             req[v].token \in Tokens /\ rows[req[v].token] # None
      BY <3>1, ReqType DEF ReqOK
    <3>3. req[v].pc = "sweeping" =>
             Family(req[v].token)' \subseteq Family(req[v].token)
      BY <2>2, <3>2, IssueRows DEF Family
    <3>4. req[v].pc = "rotating" =>
             /\ lock'[req[v].token] = v
             /\ rows'[req[v].token] = rows[req[v].token]
      BY <3>1, <3>2, IssueRows DEF ReqOK
    <3>5. ReqOK(v)'
      BY <2>2, <3>1, <3>3, <3>4, IssueRows, KeepReq
    <3> QED
      BY <2>2, <3>5 DEF Pending
  <2> QED
    BY <2>1, <2>2
<1>3. RequestsOK' /\ NextsApart'
  BY <1>2 DEF RequestsOK, NextsApart, Inv
<1> QED
  BY <1>1, <1>3, IssueRows DEF Inv

\* Registration creates the first session of a user.
LEMMA RegisterInv ==
    ASSUME Inv, NEW w \in Workers, NEW u \in Users, Register(w, u)
    PROVE  Inv'
<1>1. /\ issue(u) \/ UNCHANGED rows
      /\ UNCHANGED <<now, lock, revoked, cached, attempts, req, ended>>
      /\ users' \in SUBSET Users
  BY DEF Register, CreateUser, Inv, TypeOK
<1>2. attempts' \in [Replicas -> [Users -> [count : Nat, first : Nat]]]
  BY <1>1, CountsNat DEF Inv
<1>3. GuardOK'
  BY <1>1, GuardSame DEF Inv
<1> QED
  BY <1>1, <1>2, <1>3, IssuedInv DEF Inv, TypeOK

\* A successful login clears the guard and creates a session.
LEMMA LoginSucceedsInv ==
    ASSUME Inv, NEW w \in Workers, LoginSucceeds(w)
    PROVE  Inv'
<1>1. PICK u \in Users : u = req[w].user
  BY ReqType DEF LoginSucceeds, Inv
<1>2. /\ issue(u) \/ UNCHANGED rows
      /\ req' = [req EXCEPT ![w] = Idle]
      /\ attempts' = [attempts EXCEPT ![Host[w]][u] = NoAttempts]
      /\ UNCHANGED <<now, users, lock, revoked, cached, ended>>
  BY <1>1 DEF LoginSucceeds, Done
<1>3. /\ req'[w] = Idle /\ \A v \in Workers : v # w => req'[v] = req[v]
      /\ req' \in [Workers -> Request]
  BY <1>2, IdleType DEF Inv, TypeOK
<1>4. NoAttempts.count + Cardinality(Between(Host[w], u)')
          <= GuardMax + Cardinality(Workers) - 1
  <2>1. Between(Host[w], u)' \in SUBSET Workers
    BY DEF Between
  <2>2. /\ Cardinality(Between(Host[w], u)') \in Nat
        /\ Cardinality(Between(Host[w], u)') <= Cardinality(Workers)
        /\ Cardinality(Workers) \in Nat /\ GuardMax \in Nat \ {0}
    BY <2>1, WorkersCount, SessionAssumptions
  <2> QED
    BY <2>2, NoAttemptsType
<1>5. /\ attempts' \in [Replicas -> [Users -> [count : Nat, first : Nat]]]
      /\ GuardOK'
  BY <1>1, <1>2, <1>3, <1>4, IdleType, NoAttemptsType, GuardStep DEF Inv
<1> QED
  BY <1>2, <1>3, <1>5, IssuedInv DEF Inv, TypeOK

-----------------------------------------------------------------------------
(* The commits of a rotation and of a revocation.                          *)

\* The rotation replaces the token it holds the lock of.
LEMMA RotateInv ==
    ASSUME Inv, NEW w \in Workers, RotateRefreshSession(w)
    PROVE  Inv'
<1>0. TypeOK /\ ReqOK(w) /\ req[w].pc = "rotating"
  BY DEF Inv, RequestsOK, RotateRefreshSession
<1>1. PICK t \in Tokens, n \in Tokens, at \in Nat :
         t = req[w].token /\ n = req[w].next /\ at = req[w].at
  <2>1. /\ req[w].token \in Tokens /\ req[w].next \in Tokens \cup {None}
        /\ req[w].at \in Nat
    BY <1>0, ReqType
  <2> QED
    BY <1>0, <2>1 DEF ReqOK
<1>2. /\ rows[t] # None /\ n # None /\ lock[t] = w /\ ~Spent(t)
      /\ rows[n] = None /\ Pending(w) /\ n # t
  BY <1>0, <1>1 DEF ReqOK, Pending
<1> DEFINE old == [rows[t] EXCEPT !.revoked = TRUE, !.replacedBy = n]
           new == NewSession(rows[t].user, rows[t].family, at)
<1>3. /\ rows[t] \in RefreshSession
      /\ rows[t].user \in Users /\ rows[t].family \in Tokens
  BY <1>0, <1>2, RowType
<1>4. /\ new \in RefreshSession /\ new # None
      /\ new.family = rows[t].family
  BY <1>0, <1>3, NewSessionType DEF TypeOK
<1>5. /\ old \in RefreshSession /\ old # None /\ old.revoked = TRUE
      /\ old.family = rows[t].family
      /\ old.accessExpires = rows[t].accessExpires
  <2>1. /\ old \in RefreshSession /\ old.revoked = TRUE
        /\ old.family = rows[t].family
        /\ old.accessExpires = rows[t].accessExpires
    BY <1>3 DEF RefreshSession
  <2> QED
    BY <2>1, NoneIsNoSession
<1>6. /\ rows' \in [Tokens -> RefreshSession \cup {None}]
      /\ rows'[t] = old /\ rows'[n] = new
      /\ \A s \in Tokens : s # t /\ s # n => rows'[s] = rows[s]
  <2>1. rows' = [rows EXCEPT ![t] = old, ![n] = new]
    <3>1. rows' = [rows EXCEPT
             ![t] = [@ EXCEPT !.revoked = TRUE, !.replacedBy = n], ![n] = new]
      BY <1>1 DEF RotateRefreshSession
    <3> HIDE DEF new
    <3> QED
      BY <1>0, <3>1 DEF TypeOK
  <2> HIDE DEF old, new
  <2> QED
    BY <1>0, <1>2, <1>4, <1>5, <2>1 DEF TypeOK
<1>7. \A s \in Tokens : rows[s] # None =>
         /\ rows'[s] # None /\ rows'[s].family = rows[s].family
         /\ rows'[s].accessExpires = rows[s].accessExpires
  <2> HIDE DEF old, new
  <2> QED
    BY <1>2, <1>5, <1>6
<1>8. /\ lock' \in [Tokens -> Workers \cup {None}]
      /\ \A s \in Tokens : lock[s] # w /\ lock[s] # None => lock'[s] = lock[s]
  BY <1>0, UnlockKeeps DEF RotateRefreshSession
<1>9. /\ UNCHANGED <<now, users, revoked, cached, attempts, ended>>
      /\ now' \in Nat /\ now' >= now
  BY <1>0 DEF RotateRefreshSession, TypeOK
<1> HIDE DEF old, new
<1>10. req'[w] = Idle
  BY DEF RotateRefreshSession
<1>11. ASSUME NEW v \in Workers, v # w, v \in Overtaken(t)
       PROVE  /\ req'[v] \in Request /\ req'[v].pc = "sweeping"
              /\ req[v].pc = "sweeping" /\ ReqOK(v)' /\ ~Pending(v)'
  <2>1. req'[v] = [req[v] EXCEPT !.raced = TRUE] /\ req[v].pc = "sweeping"
    BY <1>1, <1>11 DEF RotateRefreshSession, Overtaken
  <2>2. req[v] \in [pc : {"sweeping"}, token : Tokens,
                    snapshot : SUBSET Tokens, raced : BOOLEAN]
    BY <1>0, <2>1, ReqType
  <2>3. /\ req'[v] \in [pc : {"sweeping"}, token : Tokens,
                         snapshot : SUBSET Tokens, raced : BOOLEAN]
        /\ req'[v].pc = "sweeping" /\ req'[v].raced = TRUE
        /\ req'[v].token = req[v].token
        /\ req'[v].snapshot = req[v].snapshot
    BY <2>1, <2>2
  <2>4. req'[v] \in Request
    BY <2>3 DEF Request
  <2>5. /\ rows[req[v].token] # None /\ req[v].token \in Tokens
        /\ \A s \in req[v].snapshot : s \in Tokens /\ rows[s] # None
    BY <2>1, <2>2 DEF Inv, RequestsOK, ReqOK
  <2>6. /\ rows'[req'[v].token] # None
        /\ \A s \in req'[v].snapshot : rows'[s] # None
    BY <1>7, <2>3, <2>5
  <2>7. ReqOK(v)' /\ ~Pending(v)'
    BY <2>3, <2>6 DEF ReqOK, Pending
  <2> QED
    BY <2>1, <2>3, <2>4, <2>7
<1>12. ASSUME NEW v \in Workers, v # w, v \notin Overtaken(t)
       PROVE  /\ req'[v] = req[v] /\ req'[v] \in Request
              /\ ReqOK(v)' /\ (Pending(v)' <=> Pending(v))
  <2>1. req'[v] = req[v] /\ req[v] \in Request /\ ReqOK(v)
    BY <1>0, <1>1, <1>12 DEF RotateRefreshSession, TypeOK, Inv, RequestsOK
  <2>2. Pending(v) => rows'[req[v].next] = None
    <3> SUFFICES ASSUME Pending(v) PROVE rows'[req[v].next] = None
      OBVIOUS
    <3>1. req[v].next \in Tokens /\ rows[req[v].next] = None
      BY <1>0, <2>1, ReqType DEF Pending, ReqOK
    <3>2. req[v].next # n
      BY <1>1, <1>2, <1>12 DEF Inv, NextsApart
    <3> QED
      BY <1>2, <1>6, <3>1, <3>2
  <2>3. req[v].pc = "rotating" =>
           /\ lock'[req[v].token] = v
           /\ rows'[req[v].token] = rows[req[v].token]
    <3> SUFFICES ASSUME req[v].pc = "rotating"
                 PROVE  /\ lock'[req[v].token] = v
                        /\ rows'[req[v].token] = rows[req[v].token]
      OBVIOUS
    <3>1. /\ req[v].token \in Tokens /\ rows[req[v].token] # None
          /\ lock[req[v].token] = v
      BY <1>0, <2>1, ReqType DEF ReqOK
    <3>2. v # None
      BY SessionAssumptions
    <3> QED
      BY <1>2, <1>6, <1>8, <1>12, <3>1, <3>2
  <2>4. req[v].pc = "sweeping" =>
           Family(req[v].token)' \subseteq Family(req[v].token)
    <3> SUFFICES ASSUME req[v].pc = "sweeping"
                 PROVE  Family(req[v].token)' \subseteq Family(req[v].token)
      OBVIOUS
    <3>1. /\ req[v].token \in Tokens /\ rows[req[v].token] # None
          /\ rows[req[v].token].family # rows[t].family
      BY <1>0, <1>12, <2>1, ReqType DEF ReqOK, Overtaken
    <3>2. rows'[req'[v].token].family = rows[req[v].token].family
      BY <1>7, <2>1, <3>1
    <3>3. \A x \in Tokens : rows[x] = None => rows'[x] = None \/ x = n
      BY <1>2, <1>6
    <3>4. rows'[n].family = rows[t].family
      BY <1>4, <1>6
    <3> QED
      BY <1>7, <3>1, <3>2, <3>3, <3>4 DEF Family
  <2>5. ReqOK(v)'
    BY <1>0, <1>7, <1>9, <2>1, <2>2, <2>3, <2>4, KeepReq
  <2> QED
    BY <2>1, <2>5 DEF Pending
<1>13. RequestsOK'
  BY <1>10, <1>11, <1>12, IdleReqOK DEF RequestsOK
<1>14. NextsApart'
  <2>1. ASSUME NEW v \in Workers, Pending(v)'
        PROVE  Pending(v) /\ req'[v] = req[v]
    BY <1>10, <1>11, <1>12, <2>1, IdleReqOK
  <2> QED
    BY <2>1 DEF NextsApart, Inv
<1>15. GuardOK'
  <2>1. ASSUME NEW v \in Workers,
               req[v].pc = "allowed" \/ req'[v].pc = "allowed"
        PROVE  req'[v] = req[v]
    BY <1>0, <1>10, <1>11, <1>12, <2>1, IdleType
  <2> QED
    BY <1>9, <2>1, GuardSame DEF Inv
<1>16. TypeOK'
  <2>1. \A v \in Workers : req'[v] \in Request
    BY <1>10, <1>11, <1>12, IdleType
  <2>2. req' \in [Workers -> Request]
    BY <2>1 DEF RotateRefreshSession
  <2> QED
    BY <1>0, <1>6, <1>8, <1>9, <2>2 DEF TypeOK
<1>17. FamiliesOK'
  <2>1. \A x \in Tokens : rows'[x] # None =>
           /\ rows'[x].family \in Tokens
           /\ rows[rows'[x].family] # None
    BY <1>0, <1>2, <1>3, <1>4, <1>5, <1>6, RowType DEF Inv, FamiliesOK
  <2>2. ended \subseteq Tokens
    BY <1>0 DEF TypeOK
  <2> QED
    BY <1>7, <1>9, <2>1, <2>2 DEF Inv, FamiliesOK
<1>18. \A x \in Tokens : Live(x)' =>
          \/ x = n /\ rows'[x].family = rows[t].family
          \/ x # t /\ Live(x) /\ rows'[x].family = rows[x].family
  BY <1>4, <1>5, <1>6 DEF Live, Spent
<1>19. Live(t)
  BY <1>2 DEF Live
<1>20. OneLivePerFamily'
  BY <1>18, <1>19 DEF Inv, OneLivePerFamily
<1>21. RevocationEndsFamily'
  BY <1>9, <1>18, <1>19 DEF Inv, RevocationEndsFamily
<1> QED
  BY <1>13, <1>14, <1>15, <1>16, <1>17, <1>20, <1>21 DEF Inv

\* The family's revocation commits.
LEMMA CommitRevocationInv ==
    ASSUME Inv, NEW w \in Workers, CommitRevocation(w)
    PROVE  Inv'
<1> DEFINE snap == req[w].snapshot
           fam == rows[req[w].token].family
<1>1. /\ TypeOK /\ ReqOK(w) /\ req[w].pc = "sweeping"
      /\ req[w].token \in Tokens /\ snap \subseteq Tokens
      /\ req[w].raced \in BOOLEAN
  BY ReqType DEF Inv, RequestsOK, CommitRevocation
<1>2. /\ rows[req[w].token] # None
      /\ \A s \in snap : rows[s] # None /\ lock[s] = w
      /\ ~req[w].raced => Family(req[w].token) \subseteq snap
  BY <1>1 DEF ReqOK, CommitRevocation, ToLock
<1>3. \A s \in Tokens :
         rows'[s] = IF s \in snap THEN [rows[s] EXCEPT !.revoked = TRUE]
                    ELSE rows[s]
  BY DEF CommitRevocation
<1>4. ASSUME NEW s \in snap
      PROVE  /\ rows'[s] \in RefreshSession /\ rows'[s] # None
             /\ rows'[s].revoked = TRUE
             /\ rows'[s].family = rows[s].family
             /\ rows'[s].accessExpires = rows[s].accessExpires
  <2>1. s \in Tokens /\ rows[s] \in RefreshSession
    BY <1>1, <1>2, RowType
  <2>2. /\ rows'[s] \in RefreshSession /\ rows'[s].revoked = TRUE
        /\ rows'[s].family = rows[s].family
        /\ rows'[s].accessExpires = rows[s].accessExpires
    BY <1>3, <2>1 DEF RefreshSession
  <2> QED
    BY <2>2, NoneIsNoSession
<1>5. rows' \in [Tokens -> RefreshSession \cup {None}]
  <2>1. \A s \in Tokens : rows'[s] \in RefreshSession \cup {None}
    BY <1>1, <1>3, <1>4 DEF TypeOK
  <2>2. rows' = [s \in Tokens |-> rows'[s]]
    BY DEF CommitRevocation
  <2> QED
    BY <2>1, <2>2
<1>6. \A s \in Tokens :
         /\ rows[s] # None =>
               /\ rows'[s] # None /\ rows'[s].family = rows[s].family
               /\ rows'[s].accessExpires = rows[s].accessExpires
         /\ rows[s] = None => rows'[s] = None
  BY <1>2, <1>3, <1>4
<1>7. /\ lock' \in [Tokens -> Workers \cup {None}]
      /\ \A s \in Tokens : lock[s] # w /\ lock[s] # None => lock'[s] = lock[s]
  BY <1>1, UnlockKeeps DEF CommitRevocation
<1>8. /\ UNCHANGED <<now, users, revoked, cached, attempts>>
      /\ now' \in Nat /\ now' >= now
      /\ req' = [req EXCEPT ![w] = Idle]
      /\ ended' = IF req[w].raced THEN ended ELSE ended \cup {fam}
  BY <1>1 DEF CommitRevocation, Done, TypeOK
<1>9. /\ req'[w] = Idle /\ \A v \in Workers : v # w => req'[v] = req[v]
      /\ req' \in [Workers -> Request]
  BY <1>1, <1>8, IdleType DEF TypeOK
<1>10. fam \in Tokens /\ rows[fam] # None
  BY <1>1, <1>2, RowType DEF Inv, FamiliesOK
<1>11. TypeOK'
  BY <1>1, <1>5, <1>7, <1>8, <1>9, <1>10 DEF TypeOK
<1>12. GuardOK'
  BY <1>1, <1>8, <1>9, IdleType, GuardSame DEF Inv
<1>13. ASSUME NEW v \in Workers, v # w
       PROVE  ReqOK(v)'
  <2>1. req'[v] = req[v] /\ ReqOK(v)
    BY <1>9, <1>13 DEF Inv, RequestsOK
  <2>2. Pending(v) => rows'[req[v].next] = None
    <3>1. Pending(v) => req[v].next \in Tokens /\ rows[req[v].next] = None
      BY <1>1, <2>1, ReqType DEF Pending, ReqOK
    <3> QED
      BY <1>6, <3>1
  <2>3. req[v].pc = "rotating" =>
           /\ lock'[req[v].token] = v
           /\ rows'[req[v].token] = rows[req[v].token]
    <3>1. req[v].pc = "rotating" =>
             req[v].token \in Tokens /\ lock[req[v].token] = v
      BY <1>1, <2>1, ReqType DEF ReqOK
    <3>2. v # None
      BY SessionAssumptions
    <3> QED
      BY <1>2, <1>3, <1>7, <1>13, <3>1, <3>2
  <2>4. req[v].pc = "sweeping" =>
           Family(req[v].token)' \subseteq Family(req[v].token)
    <3>1. req[v].pc = "sweeping" =>
             req[v].token \in Tokens /\ rows[req[v].token] # None
      BY <1>1, <2>1, ReqType DEF ReqOK
    <3> QED
      BY <1>6, <2>1, <3>1 DEF Family
  <2> QED
    BY <1>1, <1>6, <1>8, <2>1, <2>2, <2>3, <2>4, KeepReq
<1>14. RequestsOK'
  BY <1>9, <1>13, IdleReqOK DEF RequestsOK
<1>15. NextsApart'
  <2>1. ASSUME NEW v \in Workers, Pending(v)'
        PROVE  Pending(v) /\ req'[v] = req[v]
    BY <1>9, <2>1, IdleReqOK DEF Pending
  <2> QED
    BY <2>1 DEF NextsApart, Inv
<1>16. FamiliesOK'
  <2>1. \A s \in Tokens : rows'[s] # None =>
           rows'[s].family \in Tokens /\ rows[rows'[s].family] # None
    BY <1>1, <1>6, RowType DEF Inv, FamiliesOK
  <2>2. \A s \in ended' : s \in Tokens /\ rows[s] # None
    BY <1>1, <1>8, <1>10 DEF Inv, FamiliesOK, TypeOK
  <2> QED
    BY <1>6, <2>1, <2>2 DEF FamiliesOK
<1>17. \A s \in Tokens : Live(s)' =>
          s \notin snap /\ Live(s) /\ rows'[s].family = rows[s].family
  BY <1>3, <1>4 DEF Live, Spent
<1>18. OneLivePerFamily'
  BY <1>17 DEF Inv, OneLivePerFamily
<1>19. RevocationEndsFamily'
  <2> SUFFICES ASSUME NEW s \in Tokens, Live(s)'
               PROVE  rows'[s].family \notin ended'
    BY DEF RevocationEndsFamily
  <2>1. s \notin snap /\ Live(s) /\ rows'[s].family = rows[s].family
    BY <1>17
  <2>2. rows[s].family \notin ended
    BY <2>1 DEF Inv, RevocationEndsFamily
  <2>3. ~req[w].raced => rows[s].family # fam
    BY <1>2, <2>1 DEF Live, Family
  <2> QED
    BY <1>8, <2>1, <2>2, <2>3
<1> QED
  BY <1>11, <1>12, <1>14, <1>15, <1>16, <1>18, <1>19 DEF Inv

-----------------------------------------------------------------------------
(* Redis, time and the whole.                                              *)

\* Redis forgets, the clock advances, or nothing happens.
LEMMA AloneInv ==
    ASSUME Inv, cached' \subseteq cached, now' \in Nat, now' >= now,
           UNCHANGED <<tables, lock, attempts, req, ended>>
    PROVE  Inv'
<1>1. TypeOK'
  BY DEF Inv, TypeOK, tables
<1>2. ASSUME NEW v \in Workers
      PROVE  ReqOK(v)'
  <2>1. /\ TypeOK /\ ReqOK(v) /\ rows' = rows /\ lock' = lock /\ req' = req
        /\ revoked' = revoked
    BY DEF Inv, RequestsOK, tables
  <2>2. /\ Pending(v) => rows'[req[v].next] = None
        /\ req[v].pc = "rotating" => lock'[req[v].token] = v
    BY <2>1 DEF ReqOK
  <2>3. Family(req[v].token)' \subseteq Family(req[v].token)
    BY <2>1 DEF Family
  <2> QED
    BY <2>1, <2>2, <2>3, KeepReq
<1>3. GuardOK'
  BY GuardSame DEF Inv
<1>4. NextsApart' /\ FamiliesOK' /\ OneLivePerFamily' /\ RevocationEndsFamily'
  BY DEF Inv, NextsApart, Pending, FamiliesOK, OneLivePerFamily,
         RevocationEndsFamily, Live, Spent, tables
<1> QED
  BY <1>1, <1>2, <1>3, <1>4 DEF Inv, RequestsOK

\* The empty tables satisfy the invariant.
LEMMA InitInv == Init => Inv
<1> SUFFICES ASSUME Init PROVE Inv
  OBVIOUS
<1>1. \A w \in Workers : req[w] = Idle /\ req[w].pc = "idle"
  BY IdleType DEF Init
<1>2. TypeOK /\ GuardOK
  <2>1. /\ GuardMax \in Nat \ {0} /\ Cardinality(Workers) \in Nat
        /\ 0 \in 0 .. GuardMax + Cardinality(Workers) - 1
    BY WorkersCount, SessionAssumptions
  <2>2. \A r \in Replicas, u \in Users :
           attempts[r][u] = NoAttempts /\ attempts[r][u].count = 0
    BY NoAttemptsType DEF Init
  <2>3. NoAttempts \in [count : 0 .. GuardMax + Cardinality(Workers) - 1,
                        first : Nat]
    BY <2>1 DEF NoAttempts
  <2>4. TypeOK
    BY <2>3, IdleType DEF Init, TypeOK
  <2>5. \A r \in Replicas, u \in Users : Between(r, u) = {}
    BY <1>1 DEF Between
  <2>6. Cardinality({}) = 0
    BY FS_EmptySet
  <2>7. 0 + 0 <= GuardMax + Cardinality(Workers) - 1
    BY <2>1
  <2>8. \A r \in Replicas, u \in Users :
           attempts[r][u].count = 0 /\ Cardinality(Between(r, u)) = 0
    BY <2>2, <2>5, <2>6
  <2>9. GuardOK
    BY <2>7, <2>8 DEF GuardOK
  <2> QED
    BY <2>4, <2>9
<1>3. RequestsOK /\ NextsApart
  BY <1>1 DEF RequestsOK, NextsApart, ReqOK, Pending
<1>4. FamiliesOK /\ OneLivePerFamily /\ RevocationEndsFamily
  BY DEF Init, FamiliesOK, OneLivePerFamily, RevocationEndsFamily, Live
<1> QED
  BY <1>2, <1>3, <1>4 DEF Inv

\* Every operation of the auth service keeps the invariant.
LEMMA NextInv == Inv /\ [Next]_vars => Inv'
<1> SUFFICES ASSUME Inv, [Next]_vars PROVE Inv'
  OBVIOUS
<1>1. ASSUME NEW w \in Workers, Receive(w) PROVE Inv'
  BY <1>1, RegisterInv, LoginAllowedInv, CurrentUserInv, RefreshInv, LogoutInv
  DEF Receive
<1>2. ASSUME NEW w \in Workers, Work(w) PROVE Inv'
  BY <1>2, LoginFailsInv, LoginSucceedsInv, CheckRevokedInv, EndsInv,
     RevokeTokenInv, MarkRevokedInv, RotateInv, CommitRevocationInv
  DEF Work
<1>3. ASSUME NEW w \in Workers, Wait(w) PROVE Inv'
  BY <1>3, ForUpdateInv, LockFamilyRowInv DEF Wait
<1>4. ASSUME NEW w \in Workers, Fail(w) PROVE Inv'
  BY <1>4, EndsInv
<1>5. now \in Nat
  BY DEF Inv, TypeOK
<1>6. ASSUME NEW t \in Tokens, LoseCached(t) PROVE Inv'
  BY <1>5, <1>6, AloneInv DEF LoseCached
<1>7. ASSUME Tick PROVE Inv'
  BY <1>5, <1>7, AloneInv DEF Tick
<1>8. ASSUME UNCHANGED vars PROVE Inv'
  BY <1>5, <1>8, AloneInv DEF vars, tables
<1> QED
  BY <1>1, <1>2, <1>3, <1>4, <1>6, <1>7, <1>8 DEF Next

\* The invariant of every behaviour: types, the guard's count, what each
\* request relies on, and the state of every family.
THEOREM Invariance == Spec => []Inv
BY InitInv, NextInv, PTL DEF Spec

\* Every variable has its type; in particular LoginGuard, which checks and
\* counts in two critical sections, never counts more failures than its limit
\* and the other workers, however many logins run at once.
THEOREM TypeCorrect == Spec => []TypeOK
<1>1. Inv => TypeOK
  BY DEF Inv
<1> QED
  BY <1>1, Invariance, PTL

\* RotateRefreshSession: a family never has two tokens that can be rotated,
\* for any number of workers that present its tokens at once.
THEOREM RotationIsExclusive == Spec => []OneLivePerFamily
<1>1. Inv => OneLivePerFamily
  BY DEF Inv
<1> QED
  BY <1>1, Invariance, PTL

\* revokeRefreshFamilyTx: once a revocation that no rotation overtook has
\* committed, no token of its family can be rotated again.
THEOREM RevocationIsFinal == Spec => []RevocationEndsFamily
<1>1. Inv => RevocationEndsFamily
  BY DEF Inv
<1> QED
  BY <1>1, Invariance, PTL

\* CurrentUser: an access token that was logged out before the request came
\* is refused while it has not expired, whatever Redis remembers.
THEOREM LogoutIsFinal == Spec => []LogoutEndsAccess
<1>1. Inv => LogoutEndsAccess
  BY DEF Inv, RequestsOK, ReqOK, LogoutEndsAccess
<1> QED
  BY <1>1, Invariance, PTL

=============================================================================
