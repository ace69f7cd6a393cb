------------------------- MODULE OutboxRelayProofs -------------------------
(***************************************************************************)
(* Proofs about OutboxRelay, for every number of rows, relays, crashes and *)
(* requeues, every batch size, attempt limit and backoff table.            *)
(***************************************************************************)
EXTENDS OutboxRelay, SequenceTheorems, TLAPS

-----------------------------------------------------------------------------
(* Marks.                                                                  *)

\* What a row must be while a relay works on it.
InHand(row) == row \in Row /\ Publishable(row) /\ row.wait = 0

\* A row, committed or not yet, that no operator has touched is dead exactly
\* when it has used its attempts up.
AtLimit(row) ==
    /\ row.attempts <= MaxAttempts
    /\ (row.attempts = MaxAttempts) <=> (row.status = "DEAD")

\* The backoff table is never read out of its bounds.
LEMMA BackoffType ==
    ASSUME NEW n \in Nat
    PROVE  retryBackoff(n) \in Nat
<1>1. Len(Backoffs) \in Nat /\ Len(Backoffs) # 0
  BY RelayAssumptions, LenProperties, EmptySeq
<1>2. \A i \in 1 .. Len(Backoffs) : Backoffs[i] \in Nat
  BY RelayAssumptions, ElementOfSeq
<1> QED
  BY <1>1, <1>2 DEF retryBackoff

\* markSent changes the status only.
LEMMA SentMark ==
    ASSUME NEW row, InHand(row)
    PROVE  /\ markSent(row) \in Row
           /\ markSent(row).status = "SENT"
           /\ markSent(row).wait = 0
           /\ AtLimit(row) => AtLimit(markSent(row))
BY DEF InHand, Row, Publishable, markSent, AtLimit

\* markPublishFailure counts the attempt and gives up at the limit.
LEMMA FailureMark ==
    ASSUME NEW row, InHand(row)
    PROVE  /\ markPublishFailure(row) \in Row
           /\ markPublishFailure(row).status \in {"FAILED", "DEAD"}
           /\ AtLimit(row) => AtLimit(markPublishFailure(row))
<1> DEFINE n == row.attempts + 1
<1>1. row \in Row /\ row.status # "DEAD" /\ row.attempts \in Nat /\ n \in Nat
  BY DEF InHand, Row, Publishable
<1>2. retryBackoff(n) \in Nat
  BY <1>1, BackoffType
<1>3. CASE n >= MaxAttempts
  <2>1. markPublishFailure(row) =
          [row EXCEPT !.status = "DEAD", !.attempts = n, !.wait = 0]
    BY <1>3 DEF markPublishFailure, shouldMarkOutboxDead
  <2>2. AtLimit(row) => n = MaxAttempts
    BY <1>1, <1>3, RelayAssumptions DEF AtLimit
  <2> HIDE DEF n
  <2>3. /\ markPublishFailure(row) \in Row
        /\ markPublishFailure(row).status = "DEAD"
        /\ markPublishFailure(row).attempts = n
    <3>1. [row EXCEPT !.status = "DEAD", !.attempts = n, !.wait = 0] \in Row
      BY <1>1 DEF Row
    <3>2. /\ [row EXCEPT !.status = "DEAD", !.attempts = n, !.wait = 0].status
               = "DEAD"
          /\ [row EXCEPT !.status = "DEAD", !.attempts = n, !.wait = 0].attempts
               = n
      BY <1>1 DEF Row
    <3> QED
      BY <2>1, <3>1, <3>2
  <2> QED
    BY <2>2, <2>3, RelayAssumptions DEF AtLimit
<1>4. CASE ~(n >= MaxAttempts)
  <2>1. markPublishFailure(row) =
          [row EXCEPT !.status = "FAILED", !.attempts = n,
                      !.wait = retryBackoff(n)]
    BY <1>4 DEF markPublishFailure, shouldMarkOutboxDead
  <2>2. /\ markPublishFailure(row) \in Row
        /\ markPublishFailure(row).status = "FAILED"
        /\ markPublishFailure(row).attempts = n
    BY <1>1, <1>2, <2>1 DEF Row
  <2> HIDE DEF n
  <2> QED
    BY <1>1, <1>4, <2>2, RelayAssumptions DEF AtLimit
<1> QED
  BY <1>3, <1>4

-----------------------------------------------------------------------------
(* The inductive invariant.                                                *)

\* Batches do not overlap; a row a relay holds stays as it was selected; a
\* mark is made only on a row that is held and has been tried.
BatchesApart ==
    /\ \A r \in Relays : todo[r] \subseteq held[r]
    /\ \A r, s \in Relays : r # s => held[r] \cap held[s] = {}
    /\ \A r \in Relays : \A m \in held[r] : InHand(rows[m])
    /\ \A r \in Relays, m \in Msgs :
          dirty[r][m] # None => m \in held[r] /\ m \notin todo[r]

\* A sent row has nothing to wait for, so that time does not touch it.
SentIsIdle ==
    /\ \A m \in Msgs : rows[m] # None /\ rows[m].status = "SENT" =>
          rows[m].wait = 0
    /\ \A r \in Relays, m \in Msgs : MarkedSent(r, m) => dirty[r][m].wait = 0

MarksAtLimit ==
    requeues = 0 =>
        /\ \A m \in Msgs : rows[m] # None => AtLimit(rows[m])
        /\ \A r \in Relays, m \in Msgs :
              dirty[r][m] # None => AtLimit(dirty[r][m])

Inv ==
    /\ TypeOK
    /\ BatchesApart
    /\ SentIsIdle
    /\ EveryCopyAccountedFor
    /\ MarksAtLimit

\* The invariant holds before any row is there.
LEMMA InitInv == Init => Inv
<1> SUFFICES ASSUME Init PROVE Inv
  OBVIOUS
<1>1. TypeOK
  BY RelayAssumptions DEF Init, TypeOK, Clean
<1>2. BatchesApart /\ SentIsIdle /\ MarksAtLimit
  BY DEF Init, BatchesApart, SentIsIdle, MarksAtLimit, Clean, MarkedSent
<1>3. EveryCopyAccountedFor
  BY DEF Init, EveryCopyAccountedFor, Clean, MarkedSent
<1> QED
  BY <1>1, <1>2, <1>3 DEF Inv

-----------------------------------------------------------------------------
(* Steps.                                                                  *)

\* A business transaction inserts a row no relay can hold.
LEMMA InsertKeepsInv ==
    ASSUME Inv, NEW m \in Msgs, Insert(m)
    PROVE  Inv'
<1>1. PICK s \in Stamps :
        rows' = [rows EXCEPT ![m] = [status |-> "PENDING", attempts |-> 0,
                                     wait |-> 0, created |-> s]]
  BY DEF Insert
<1> DEFINE new == [status |-> "PENDING", attempts |-> 0, wait |-> 0,
                   created |-> s]
<1>2. new \in Row /\ AtLimit(new) /\ new.status # "SENT"
  BY RelayAssumptions DEF Row, AtLimit
<1>3. /\ rows[m] = None
      /\ UNCHANGED <<held, todo, dirty, copies, unrecorded, crashes, requeues>>
  BY DEF Insert
<1> HIDE DEF new
<1>4. rows' = [rows EXCEPT ![m] = new]
  BY <1>1 DEF new
<1>5. /\ rows'[m] = new
      /\ \A n \in Msgs \ {m} : rows'[n] = rows[n]
      /\ \A r \in Relays : m \notin held[r]
  BY <1>3, <1>4, NoneIsNoRow DEF Inv, TypeOK, BatchesApart, InHand
<1>6. TypeOK'
  BY <1>2, <1>3, <1>4 DEF Inv, TypeOK
<1>7. BatchesApart'
  BY <1>3, <1>5 DEF Inv, TypeOK, BatchesApart
<1>8. SentIsIdle'
  BY <1>2, <1>3, <1>5 DEF Inv, SentIsIdle, MarkedSent
<1>9. EveryCopyAccountedFor'
  BY <1>2, <1>3, <1>5 DEF Inv, EveryCopyAccountedFor, MarkedSent
<1>10. MarksAtLimit'
  BY <1>2, <1>3, <1>5 DEF Inv, MarksAtLimit
<1> QED
  BY <1>6, <1>7, <1>8, <1>9, <1>10 DEF Inv

\* FOR UPDATE SKIP LOCKED takes only rows that no other relay holds.
LEMMA SelectKeepsInv ==
    ASSUME Inv, NEW r \in Relays, selectAvailable(r)
    PROVE  Inv'
<1>1. PICK B \in OldestFirst(Available, BatchSize) :
        /\ held' = [held EXCEPT ![r] = B]
        /\ todo' = [todo EXCEPT ![r] = B]
  BY DEF selectAvailable
<1>2. /\ held[r] = {}
      /\ UNCHANGED <<rows, dirty, copies, unrecorded, crashes, requeues>>
  BY DEF selectAvailable
<1>3. /\ B \subseteq Msgs
      /\ \A m \in B : rows[m] # None /\ Publishable(rows[m])
                        /\ rows[m].wait = 0
      /\ \A m \in B, s \in Relays : m \notin held[s]
  BY DEF OldestFirst, Available, SkipLocked
<1>4. \A m \in B : InHand(rows[m])
  BY <1>3 DEF Inv, TypeOK, InHand
<1>5. \A m \in Msgs : dirty[r][m] = None
  BY <1>2 DEF Inv, BatchesApart
<1>6. TypeOK'
  BY <1>1, <1>2, <1>3 DEF Inv, TypeOK
<1>7. BatchesApart'
  BY <1>1, <1>2, <1>3, <1>4, <1>5 DEF Inv, TypeOK, BatchesApart
<1>8. SentIsIdle' /\ EveryCopyAccountedFor' /\ MarksAtLimit'
  BY <1>2 DEF Inv, SentIsIdle, EveryCopyAccountedFor, MarksAtLimit, MarkedSent
<1> QED
  BY <1>6, <1>7, <1>8 DEF Inv

\* A publish, confirmed or not, marks one row of the batch.
LEMMA MarkKeepsInv ==
    ASSUME Inv, NEW r \in Relays, NEW m \in todo[r], NEW mark \in Row,
           dirty' = [dirty EXCEPT ![r][m] = mark],
           NEW rest \in SUBSET todo[r], m \notin rest,
           todo' = [todo EXCEPT ![r] = rest],
           UNCHANGED <<rows, held, crashes, requeues>>,
           copies' \in [Msgs -> Nat], unrecorded' \in [Msgs -> Nat],
           \A n \in Msgs \ {m} :
               copies'[n] = copies[n] /\ unrecorded'[n] = unrecorded[n],
           copies'[m] - copies[m] = unrecorded'[m] - unrecorded[m] +
               IF mark.status = "SENT" THEN 1 ELSE 0,
           mark.status = "SENT" => mark.wait = 0,
           AtLimit(rows[m]) => AtLimit(mark)
    PROVE  Inv'
<1>1. /\ m \in Msgs /\ m \in held[r]
      /\ InHand(rows[m])
      /\ \A s \in Relays : dirty[s][m] = None
  BY DEF Inv, TypeOK, BatchesApart
<1>2. /\ dirty'[r][m] = mark
      /\ \A s \in Relays, n \in Msgs :
            ~(s = r /\ n = m) => dirty'[s][n] = dirty[s][n]
      /\ todo'[r] = rest
      /\ \A s \in Relays \ {r} : todo'[s] = todo[s]
  BY <1>1 DEF Inv, TypeOK
<1>3. TypeOK'
  BY <1>1 DEF Inv, TypeOK
<1>4. BatchesApart'
  BY <1>1, <1>2 DEF Inv, BatchesApart
<1>5. SentIsIdle'
  BY <1>2 DEF Inv, SentIsIdle, MarkedSent
<1>6. MarksAtLimit'
  <2>1. requeues = 0 => AtLimit(mark)
    BY <1>1, NoneIsNoRow DEF Inv, MarksAtLimit, InHand
  <2> QED
    BY <1>2, <2>1 DEF Inv, MarksAtLimit
<1>7. EveryCopyAccountedFor'
  <2>1. ASSUME NEW n \in Msgs, n # m
        PROVE  (\E s \in Relays : MarkedSent(s, n)')
                 <=> \E s \in Relays : MarkedSent(s, n)
    BY <1>2, <2>1 DEF MarkedSent
  <2>2. ASSUME NEW n \in Msgs, n # m
        PROVE  copies'[n] = unrecorded'[n] +
                 IF \/ rows'[n] # None /\ rows'[n].status = "SENT"
                    \/ \E s \in Relays : MarkedSent(s, n)'
                 THEN 1 ELSE 0
    BY <2>1, <2>2 DEF Inv, EveryCopyAccountedFor
  <2>3. copies[m] = unrecorded[m]
    <3>1. ~(rows[m] # None /\ rows[m].status = "SENT")
      BY <1>1 DEF InHand, Publishable
    <3>2. ~(\E s \in Relays : MarkedSent(s, m))
      BY <1>1 DEF MarkedSent
    <3>3. copies[m] = unrecorded[m] + 0 /\ unrecorded[m] \in Nat
      BY <1>1, <3>1, <3>2 DEF Inv, TypeOK, EveryCopyAccountedFor
    <3> QED
      BY <3>3
  <2>4. /\ rows'[m].status # "SENT"
        /\ (\E s \in Relays : MarkedSent(s, m)') <=> mark.status = "SENT"
    BY <1>1, <1>2, NoneIsNoRow DEF MarkedSent, InHand, Publishable
  <2>5. /\ copies'[m] \in Nat /\ unrecorded'[m] \in Nat
        /\ copies[m] \in Nat /\ unrecorded[m] \in Nat
    BY <1>1 DEF Inv, TypeOK
  <2>6. copies'[m] = unrecorded'[m] +
          IF \/ rows'[m] # None /\ rows'[m].status = "SENT"
             \/ \E s \in Relays : MarkedSent(s, m)'
          THEN 1 ELSE 0
    BY <2>3, <2>4, <2>5
  <2> QED
    BY <2>2, <2>6 DEF EveryCopyAccountedFor
<1> QED
  BY <1>3, <1>4, <1>5, <1>6, <1>7 DEF Inv

\* Both outcomes of a publish are such marks.
LEMMA PublishKeepsInv ==
    ASSUME Inv, NEW r \in Relays, PublishAcked(r) \/ PublishFailed(r)
    PROVE  Inv'
<1>0. ASSUME NEW m \in todo[r]
      PROVE  /\ m \in Msgs /\ InHand(rows[m])
             /\ copies[m] \in Nat /\ unrecorded[m] \in Nat
             /\ copies \in [Msgs -> Nat] /\ unrecorded \in [Msgs -> Nat]
  BY DEF Inv, TypeOK, BatchesApart
<1>1. CASE PublishAcked(r)
  <2>1. PICK m \in todo[r] :
          /\ copies' = [copies EXCEPT ![m] = @ + 1]
          /\ dirty' = [dirty EXCEPT ![r][m] = markSent(rows[m])]
          /\ todo' = [todo EXCEPT ![r] = @ \ {m}]
          /\ UNCHANGED <<rows, held, unrecorded, crashes, requeues>>
    BY <1>1 DEF PublishAcked
  <2> DEFINE mark == markSent(rows[m])
             rest == todo[r] \ {m}
  <2>2. /\ mark \in Row /\ mark.status = "SENT" /\ mark.wait = 0
        /\ AtLimit(rows[m]) => AtLimit(mark)
    BY <1>0, SentMark
  <2>3. /\ copies' \in [Msgs -> Nat] /\ unrecorded' \in [Msgs -> Nat]
        /\ \A n \in Msgs \ {m} :
              copies'[n] = copies[n] /\ unrecorded'[n] = unrecorded[n]
        /\ copies'[m] - copies[m] = unrecorded'[m] - unrecorded[m] +
              IF mark.status = "SENT" THEN 1 ELSE 0
    BY <1>0, <2>1, <2>2
  <2>4. /\ dirty' = [dirty EXCEPT ![r][m] = mark]
        /\ rest \in SUBSET todo[r] /\ m \notin rest
        /\ todo' = [todo EXCEPT ![r] = rest]
    BY <2>1
  <2> HIDE DEF mark, rest
  <2> QED
    BY <2>1, <2>2, <2>3, <2>4, MarkKeepsInv
<1>2. CASE PublishFailed(r)
  <2>1. PICK m \in todo[r], accepted \in {0, 1} :
          /\ copies' = [copies EXCEPT ![m] = @ + accepted]
          /\ unrecorded' = [unrecorded EXCEPT ![m] = @ + accepted]
          /\ dirty' = [dirty EXCEPT ![r][m] = markPublishFailure(rows[m])]
          /\ todo' = [todo EXCEPT ![r] = {}]
          /\ UNCHANGED <<rows, held, crashes, requeues>>
    BY <1>2 DEF PublishFailed
  <2> DEFINE mark == markPublishFailure(rows[m])
             rest == {}
  <2>2. /\ mark \in Row /\ mark.status # "SENT"
        /\ AtLimit(rows[m]) => AtLimit(mark)
    BY <1>0, FailureMark
  <2>3. /\ copies' \in [Msgs -> Nat] /\ unrecorded' \in [Msgs -> Nat]
        /\ \A n \in Msgs \ {m} :
              copies'[n] = copies[n] /\ unrecorded'[n] = unrecorded[n]
        /\ copies'[m] - copies[m] = unrecorded'[m] - unrecorded[m] +
              IF mark.status = "SENT" THEN 1 ELSE 0
    BY <1>0, <2>1, <2>2
  <2>4. /\ dirty' = [dirty EXCEPT ![r][m] = mark]
        /\ rest \in SUBSET todo[r] /\ m \notin rest
        /\ todo' = [todo EXCEPT ![r] = rest]
    BY <2>1
  <2> HIDE DEF mark, rest
  <2> QED
    BY <2>1, <2>2, <2>3, <2>4, MarkKeepsInv
<1> QED
  BY <1>1, <1>2

\* COMMIT turns the marks into rows.
LEMMA CommitKeepsInv ==
    ASSUME Inv, NEW r \in Relays, CommitBatch(r)
    PROVE  Inv'
<1>1. /\ rows' = [m \in Msgs |-> IF dirty[r][m] = None THEN rows[m]
                                                      ELSE dirty[r][m]]
      /\ held' = [held EXCEPT ![r] = {}]
      /\ dirty' = [dirty EXCEPT ![r] = Clean]
      /\ todo[r] = {}
      /\ UNCHANGED <<todo, copies, unrecorded, crashes, requeues>>
  BY DEF CommitBatch
<1>2. /\ \A m \in Msgs : dirty'[r][m] = None
      /\ \A s \in Relays \ {r} : dirty'[s] = dirty[s] /\ held'[s] = held[s]
      /\ held'[r] = {}
  BY <1>1 DEF Inv, TypeOK, Clean
<1>3. \A m \in Msgs : dirty[r][m] # None =>
        /\ m \in held[r] /\ InHand(rows[m])
        /\ \A s \in Relays \ {r} : m \notin held[s] /\ dirty[s][m] = None
  BY DEF Inv, TypeOK, BatchesApart
<1>4. TypeOK'
  BY <1>1 DEF Inv, TypeOK, Clean
<1>5. BatchesApart'
  <2>1. \A s \in Relays : \A m \in held'[s] : s # r /\ rows'[m] = rows[m]
    BY <1>1, <1>2, <1>3 DEF Inv, TypeOK
  <2> QED
    BY <1>1, <1>2, <2>1 DEF Inv, BatchesApart
<1>6. SentIsIdle'
  BY <1>1, <1>2 DEF Inv, SentIsIdle, MarkedSent
<1>7. MarksAtLimit'
  BY <1>1, <1>2 DEF Inv, MarksAtLimit
<1>8. EveryCopyAccountedFor'
  <2> SUFFICES ASSUME NEW m \in Msgs
               PROVE  (\/ rows'[m] # None /\ rows'[m].status = "SENT"
                       \/ \E s \in Relays : MarkedSent(s, m)')
                      <=>
                      (\/ rows[m] # None /\ rows[m].status = "SENT"
                       \/ \E s \in Relays : MarkedSent(s, m))
    BY <1>1 DEF Inv, EveryCopyAccountedFor
  <2>1. CASE dirty[r][m] = None
    BY <1>1, <1>2, <2>1 DEF MarkedSent
  <2>2. CASE dirty[r][m] # None
    BY <1>1, <1>2, <1>3, <2>2 DEF MarkedSent, InHand, Publishable
  <2> QED
    BY <2>1, <2>2
<1> QED
  BY <1>4, <1>5, <1>6, <1>7, <1>8 DEF Inv

\* A crash forgets the marks: the copies they recorded become unrecorded.
LEMMA CrashKeepsInv ==
    ASSUME Inv, NEW r \in Relays, Crash(r)
    PROVE  Inv'
<1>1. /\ crashes < MaxCrashes /\ crashes' = crashes + 1
      /\ unrecorded' = [m \in Msgs |->
            IF MarkedSent(r, m) THEN unrecorded[m] + 1 ELSE unrecorded[m]]
      /\ held' = [held EXCEPT ![r] = {}]
      /\ todo' = [todo EXCEPT ![r] = {}]
      /\ dirty' = [dirty EXCEPT ![r] = Clean]
      /\ UNCHANGED <<rows, copies, requeues>>
  BY DEF Crash
<1>2. /\ \A m \in Msgs : dirty'[r][m] = None
      /\ \A s \in Relays \ {r} : /\ dirty'[s] = dirty[s]
                                  /\ held'[s] = held[s] /\ todo'[s] = todo[s]
      /\ held'[r] = {} /\ todo'[r] = {}
  BY <1>1 DEF Inv, TypeOK, Clean
<1>3. TypeOK'
  <2>1. crashes' \in 0 .. MaxCrashes
    BY <1>1, RelayAssumptions DEF Inv, TypeOK
  <2>2. unrecorded' \in [Msgs -> Nat]
    BY <1>1 DEF Inv, TypeOK
  <2> QED
    BY <1>1, <2>1, <2>2 DEF Inv, TypeOK, Clean
<1>4. BatchesApart'
  BY <1>1, <1>2 DEF Inv, BatchesApart
<1>5. SentIsIdle'
  BY <1>1, <1>2 DEF Inv, SentIsIdle, MarkedSent
<1>6. MarksAtLimit'
  BY <1>1, <1>2 DEF Inv, MarksAtLimit
<1>7. EveryCopyAccountedFor'
  <2> SUFFICES ASSUME NEW m \in Msgs
               PROVE  copies'[m] = unrecorded'[m] +
                        IF \/ rows'[m] # None /\ rows'[m].status = "SENT"
                           \/ \E s \in Relays : MarkedSent(s, m)'
                        THEN 1 ELSE 0
    BY DEF EveryCopyAccountedFor
  <2>1. /\ unrecorded[m] \in Nat /\ copies'[m] = copies[m]
        /\ copies[m] = unrecorded[m] +
             IF \/ rows[m] # None /\ rows[m].status = "SENT"
                \/ \E s \in Relays : MarkedSent(s, m)
             THEN 1 ELSE 0
    BY <1>1 DEF Inv, TypeOK, EveryCopyAccountedFor
  <2>2. CASE MarkedSent(r, m)
    <3>1. /\ m \in held[r] /\ InHand(rows[m])
          /\ \A s \in Relays \ {r} : dirty[s][m] = None
      BY <2>2 DEF Inv, TypeOK, BatchesApart, MarkedSent
    <3>2. /\ ~(\E s \in Relays : MarkedSent(s, m)')
          /\ ~(rows'[m] # None /\ rows'[m].status = "SENT")
      BY <1>1, <1>2, <3>1 DEF MarkedSent, InHand, Publishable
    <3>3. unrecorded'[m] = unrecorded[m] + 1 /\ copies[m] = unrecorded[m] + 1
      BY <1>1, <2>1, <2>2
    <3> QED
      BY <2>1, <3>2, <3>3
  <2>3. CASE ~MarkedSent(r, m)
    <3>1. (\E s \in Relays : MarkedSent(s, m)')
            <=> \E s \in Relays : MarkedSent(s, m)
      BY <1>2, <2>3 DEF MarkedSent
    <3>2. unrecorded'[m] = unrecorded[m] /\ rows'[m] = rows[m]
      BY <1>1, <2>3
    <3> QED
      BY <2>1, <3>1, <3>2
  <2> QED
    BY <2>2, <2>3
<1> QED
  BY <1>3, <1>4, <1>5, <1>6, <1>7 DEF Inv

\* An operator requeues a dead row, which no relay holds.
LEMMA RequeueKeepsInv ==
    ASSUME Inv, NEW m \in Msgs, RequeueDead(m)
    PROVE  Inv'
<1>1. PICK attempts \in {0, rows[m].attempts} :
        rows' = [rows EXCEPT ![m].status = "FAILED",
                             ![m].attempts = attempts, ![m].wait = 0]
  BY DEF RequeueDead
<1>2. /\ rows[m] # None /\ rows[m].status = "DEAD" /\ SkipLocked(m)
      /\ requeues < MaxRequeues /\ requeues' = requeues + 1
      /\ UNCHANGED <<held, todo, dirty, copies, unrecorded, crashes>>
  BY DEF RequeueDead
<1> DEFINE new == [rows[m] EXCEPT !.status = "FAILED", !.attempts = attempts,
                                  !.wait = 0]
<1>3. rows[m] \in Row /\ attempts \in Nat
  BY <1>2 DEF Inv, TypeOK, Row
<1>4. new \in Row /\ new.status = "FAILED"
  BY <1>3 DEF Row
<1>5. rows' = [rows EXCEPT ![m] = new]
  BY <1>1, <1>3 DEF Inv, TypeOK, Row
<1> HIDE DEF new
<1>6. /\ rows'[m] = new
      /\ \A n \in Msgs \ {m} : rows'[n] = rows[n]
      /\ \A r \in Relays : m \notin held[r]
  BY <1>2, <1>5 DEF Inv, TypeOK, SkipLocked
<1>7. TypeOK'
  <2>1. requeues' \in 0 .. MaxRequeues
    BY <1>2, RelayAssumptions DEF Inv, TypeOK
  <2> QED
    BY <1>2, <1>4, <1>5, <2>1 DEF Inv, TypeOK
<1>8. BatchesApart'
  BY <1>2, <1>6 DEF Inv, TypeOK, BatchesApart
<1>9. SentIsIdle'
  BY <1>2, <1>4, <1>6 DEF Inv, SentIsIdle, MarkedSent
<1>10. EveryCopyAccountedFor'
  BY <1>2, <1>4, <1>6 DEF Inv, EveryCopyAccountedFor, MarkedSent
<1>11. MarksAtLimit'
  BY <1>2 DEF Inv, TypeOK, MarksAtLimit
<1> QED
  BY <1>7, <1>8, <1>9, <1>10, <1>11 DEF Inv

\* The passing of time touches only rows that wait.
LEMMA TickKeepsInv ==
    ASSUME Inv, Tick
    PROVE  Inv'
<1>1. /\ rows' = [m \in Msgs |-> IF Waiting(m)
                                THEN [rows[m] EXCEPT !.wait = @ - 1]
                                ELSE rows[m]]
      /\ UNCHANGED <<held, todo, dirty, copies, unrecorded, crashes, requeues>>
  BY DEF Tick
<1>2. ASSUME NEW m \in Msgs
      PROVE  /\ ~Waiting(m) => rows'[m] = rows[m]
             /\ rows[m] # None =>
                   /\ rows'[m] \in Row
                   /\ rows'[m].status = rows[m].status
                   /\ rows'[m].attempts = rows[m].attempts
             /\ rows[m] = None => rows'[m] = None
             /\ rows'[m] \in Row \cup {None}
  <2>1. CASE Waiting(m)
    <3>1. rows[m] \in Row /\ rows[m].wait - 1 \in Nat
      BY <2>1 DEF Waiting, Inv, TypeOK, Row
    <3>2. rows'[m] = [rows[m] EXCEPT !.wait = rows[m].wait - 1]
      BY <1>1, <2>1
    <3> QED
      BY <2>1, <3>1, <3>2 DEF Row, Waiting
  <2>2. CASE ~Waiting(m)
    BY <1>1, <2>2 DEF Inv, TypeOK
  <2> QED
    BY <2>1, <2>2
<1>3. TypeOK'
  BY <1>1, <1>2 DEF Inv, TypeOK
<1>4. BatchesApart'
  <2>1. \A r \in Relays : \A m \in held[r] : m \in Msgs /\ ~Waiting(m)
    BY DEF Inv, TypeOK, BatchesApart, InHand, Waiting
  <2> QED
    BY <1>1, <1>2, <2>1 DEF Inv, BatchesApart
<1>5. \A m \in Msgs : rows[m] # None /\ rows[m].status = "SENT" =>
        rows'[m] = rows[m]
  BY <1>2 DEF Inv, SentIsIdle, Waiting
<1>6. \A m \in Msgs : (rows'[m] # None /\ rows'[m].status = "SENT")
                     <=> (rows[m] # None /\ rows[m].status = "SENT")
  BY <1>2, NoneIsNoRow
<1>7. SentIsIdle'
  BY <1>1, <1>5, <1>6 DEF Inv, SentIsIdle, MarkedSent
<1>8. EveryCopyAccountedFor'
  BY <1>1, <1>6 DEF Inv, EveryCopyAccountedFor, MarkedSent
<1>9. MarksAtLimit'
  BY <1>1, <1>2 DEF Inv, MarksAtLimit, AtLimit
<1> QED
  BY <1>3, <1>4, <1>7, <1>8, <1>9 DEF Inv

\* Every step keeps the invariant.
LEMMA NextKeepsInv == Inv /\ [Next]_vars => Inv'
<1> SUFFICES ASSUME Inv, [Next]_vars PROVE Inv'
  OBVIOUS
<1>1. CASE UNCHANGED vars
  BY <1>1 DEF vars, Inv, TypeOK, BatchesApart, SentIsIdle,
              EveryCopyAccountedFor, MarksAtLimit, MarkedSent
<1>2. CASE Polling
  BY <1>1, <1>2 DEF Polling
<1> QED
  BY <1>1, <1>2, TickKeepsInv, InsertKeepsInv, RequeueKeepsInv,
     SelectKeepsInv, PublishKeepsInv, CommitKeepsInv, CrashKeepsInv
     DEF Next, RelayStep

\* Inv is an invariant of the relay.
THEOREM Invariance == Spec => []Inv
BY InitInv, NextKeepsInv, PTL DEF Spec

-----------------------------------------------------------------------------
(* The theorems.                                                           *)

\* Type correctness of the outbox table and of the batches in progress.
THEOREM TypeCorrect == Spec => []TypeOK
<1>1. Inv => TypeOK
  BY DEF Inv
<1> QED
  BY <1>1, Invariance, PTL

\* With any number of relays, a copy at the broker that no SENT mark records
\* is owed to a crash or a lost confirm, never to two relays working on one
\* row.
THEOREM CopiesAccountedFor == Spec => []EveryCopyAccountedFor
<1>1. Inv => EveryCopyAccountedFor
  BY DEF Inv
<1> QED
  BY <1>1, Invariance, PTL

\* Before an operator steps in, a row is dead exactly when it has used its
\* attempts up.
THEOREM GivenUpAtLimit == Spec => []DeadAtLimit
<1>1. Inv => DeadAtLimit
  BY DEF Inv, MarksAtLimit, AtLimit, DeadAtLimit
<1> QED
  BY <1>1, Invariance, PTL

\* A sent row never changes again.
THEOREM SentStaysSent == Spec => SentIsFinal
<1> DEFINE Final == \A m \in Msgs :
                        rows[m] # None /\ rows[m].status = "SENT" =>
                            rows'[m] = rows[m]
<1>1. Inv /\ [Next]_vars => [Final]_vars
  <2> SUFFICES ASSUME Inv, Next, NEW m \in Msgs, rows[m] # None,
                      rows[m].status = "SENT"
               PROVE  rows'[m] = rows[m]
    OBVIOUS
  <2>1. CASE Tick
    BY <2>1 DEF Tick, Waiting, Inv, SentIsIdle
  <2>2. CASE Polling
    BY <2>2 DEF Polling, vars
  <2>3. ASSUME NEW n \in Msgs, Insert(n) \/ RequeueDead(n)
        PROVE  rows'[m] = rows[m]
    <3>1. n # m
      BY <2>3 DEF Insert, RequeueDead
    <3> QED
      BY <2>3, <3>1 DEF Insert, RequeueDead, Inv, TypeOK
  <2>4. ASSUME NEW r \in Relays, CommitBatch(r) PROVE rows'[m] = rows[m]
    BY <2>4 DEF CommitBatch, Inv, BatchesApart, InHand, Publishable
  <2>5. ASSUME NEW r \in Relays,
               \/ selectAvailable(r) \/ PublishAcked(r) \/ PublishFailed(r)
               \/ Crash(r)
        PROVE  rows'[m] = rows[m]
    BY <2>5 DEF selectAvailable, PublishAcked, PublishFailed, Crash
  <2> QED
    BY <2>1, <2>2, <2>3, <2>4, <2>5 DEF Next, RelayStep
<1> QED
  BY <1>1, Invariance, PTL DEF Spec, SentIsFinal

=============================================================================
