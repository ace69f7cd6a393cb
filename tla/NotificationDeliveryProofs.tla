--------------------- MODULE NotificationDeliveryProofs ---------------------
(***************************************************************************)
(* Proofs about NotificationDelivery, for any messages, workers, lease,    *)
(* attempt limit, backoffs and clock skew.  The heart of the argument is   *)
(* that locked_until grows with every claim of a notification (Fence): a   *)
(* claim is granted only at a clock reading past the lease of the one      *)
(* before, or past the backoff its failure left behind.                    *)
(***************************************************************************)
EXTENDS NotificationDelivery, SequenceTheorems, TLAPS

\* Rows exist only for processed messages, and their columns fit together.
RowsOK ==
    \A m \in Msgs : rows[m] # None =>
        /\ m \in processed
        /\ rows[m].status = "PENDING" => rows[m].attempts = 0
        /\ rows[m].status = "PROCESSING" => rows[m].until \in Nat

\* A claim belongs to an attempt its row has counted.
ClaimsKnown ==
    \A w \in Workers : claim[w] # None =>
        /\ rows[claim[w].msg] # None
        /\ claim[w].attempt <= rows[claim[w].msg].attempts
        /\ claim[w].until = claim[w].at + Lease
        /\ claim[w].result = "ok" => claim[w].attempt \in mailed[claim[w].msg]

\* Two workers never hold the same attempt.
ClaimsApart ==
    \A w, v \in Workers :
        w # v /\ claim[w] # None /\ claim[v] # None
          /\ claim[w].msg = claim[v].msg => claim[w].attempt # claim[v].attempt

\* Older claims carry smaller leases, and a failure leaves a backoff that is
\* past the start of every claim.
Fence ==
    \A w \in Workers : claim[w] # None =>
        LET c == claim[w]
            row == rows[claim[w].msg]
        IN  /\ row.status = "PROCESSING" =>
                  /\ c.attempt = row.attempts => c.until = row.until
                  /\ c.attempt < row.attempts => c.until < row.until
            /\ row.status = "FAILED" /\ AttemptLeft(row) => c.at < row.next

\* Records are of counted attempts; that of the last one is the status.
RecordsOK ==
    \A m \in Msgs : \A r \in log[m] :
        /\ rows[m] # None
        /\ r.attempt <= rows[m].attempts
        /\ r.attempt = rows[m].attempts => r.status = rows[m].status
        /\ r.status = "SENT" => r.attempt = rows[m].attempts
        /\ \A s \in log[m] : r.attempt = s.attempt => r = s

\* A SENT row has its record and its mail.
SentOK ==
    \A m \in Msgs : rows[m] # None /\ rows[m].status = "SENT" =>
        /\ rows[m].attempts \in mailed[m]
        /\ [attempt |-> rows[m].attempts, status |-> "SENT"] \in log[m]

Inv ==
    /\ TypeOK
    /\ RowsOK
    /\ ClaimsKnown
    /\ ClaimsApart
    /\ Fence
    /\ RecordsOK
    /\ SentOK

-----------------------------------------------------------------------------

\* A backoff is a positive number of ticks, whatever the attempt.
LEMMA BackoffPositive ==
    ASSUME NEW a \in Nat
    PROVE  deliveryBackoff(a) \in Nat \ {0}
<1>1. Len(Backoffs) \in Nat \ {0}
  BY DeliveryAssumptions, EmptySeq, LenProperties
<1>2. \A i \in 1 .. Len(Backoffs) : Backoffs[i] \in Nat \ {0}
  BY DeliveryAssumptions, ElementOfSeq
<1> QED
  BY <1>1, <1>2 DEF deliveryBackoff

\* A clock reading is a time that is not in the future.
LEMMA ReadingsType ==
    ASSUME TypeOK, NEW t \in Readings
    PROVE  t \in Nat /\ t <= now
BY DeliveryAssumptions DEF TypeOK, Readings

\* The empty tables satisfy the invariant.
LEMMA InitInv == Init => Inv
BY DEF Init, Inv, TypeOK, RowsOK, ClaimsKnown, ClaimsApart, Fence, RecordsOK,
       SentOK

\* The clock only makes locks and backoffs run out.
LEMMA TickInv == ASSUME Inv, Tick PROVE Inv'
<1>1. now \in Nat /\ now' = now + 1
        /\ UNCHANGED <<processed, rows, log, claim, mailed>>
  BY DEF Inv, TypeOK, Tick
<1> QED
  BY <1>1 DEF Inv, TypeOK, RowsOK, ClaimsKnown, ClaimsApart, Fence, RecordsOK,
              SentOK

\* A message is claimed once, so its row is new and nothing refers to it yet.
LEMMA ProcessEnvelopeInv ==
    ASSUME Inv, NEW m \in Msgs, ProcessEnvelope(m)
    PROVE  Inv'
<1>1. PICK t \in Readings :
        rows' = [rows EXCEPT ![m] = [status |-> "PENDING", attempts |-> 0,
                                     next |-> t, until |-> None]]
  BY DEF ProcessEnvelope
<1>2. t \in Nat
  BY ReadingsType DEF Inv
<1> DEFINE new == [status |-> "PENDING", attempts |-> 0, next |-> t,
                   until |-> None]
<1>3. new \in Row /\ new # None
  BY <1>2, DeliveryAssumptions, NoneIsApart DEF Row
<1>4. /\ m \notin processed /\ rows[m] = None
      /\ processed' = processed \cup {m}
      /\ UNCHANGED <<now, log, claim, mailed>>
  BY DEF Inv, RowsOK, ProcessEnvelope, claimMessage
<1>5. /\ rows \in [Msgs -> Row \cup {None}]
      /\ rows' \in [Msgs -> Row \cup {None}]
      /\ rows'[m] = new
      /\ \A n \in Msgs : n # m => rows'[n] = rows[n]
  BY <1>1, <1>3 DEF Inv, TypeOK
<1>6. /\ new.status = "PENDING" /\ new.attempts = 0
  OBVIOUS
<1> HIDE DEF new
<1>7. \A w \in Workers : claim[w] # None =>
          claim[w].msg \in Msgs /\ claim[w].msg # m
  BY <1>4 DEF Inv, TypeOK, ClaimsKnown, Claim
<1>8. TypeOK'
  BY <1>4, <1>5 DEF Inv, TypeOK
<1>9. RowsOK'
  BY <1>4, <1>5, <1>6 DEF Inv, RowsOK
<1>10. ClaimsKnown'
  BY <1>4, <1>5, <1>7 DEF Inv, ClaimsKnown
<1>11. ClaimsApart'
  BY <1>4 DEF Inv, ClaimsApart
<1>12. Fence'
  BY <1>4, <1>5, <1>7 DEF Inv, Fence
<1>13. RecordsOK'
  BY <1>4, <1>5 DEF Inv, RecordsOK
<1>14. SentOK'
  BY <1>4, <1>5, <1>6 DEF Inv, SentOK
<1> QED
  BY <1>8, <1>9, <1>10, <1>11, <1>12, <1>13, <1>14 DEF Inv

\* The reading a claim is granted at is past the start of every older claim.
LEMMA ClaimIsLater ==
    ASSUME Inv, NEW m \in Msgs, NEW t \in Nat, rows[m] # None,
           AttemptLeft(rows[m]), Due(rows[m], t),
           NEW v \in Workers, claim[v] # None, claim[v].msg = m
    PROVE  claim[v].until < t + Lease
<1>1. claim[v] \in Claim /\ rows[m] \in Row
  BY DEF Inv, TypeOK
<1>2. /\ claim[v].attempt \in 1 .. MaxAttempts /\ claim[v].at \in Nat
      /\ claim[v].until \in Nat
      /\ claim[v].until = claim[v].at + Lease
      /\ claim[v].attempt <= rows[m].attempts
      /\ rows[m].attempts \in 0 .. MaxAttempts
      /\ rows[m].next \in Nat
  BY <1>1 DEF Inv, ClaimsKnown, Claim, Row
<1>3. CASE rows[m].status = "PENDING"
  BY <1>2, <1>3, DeliveryAssumptions DEF Inv, RowsOK
<1>4. CASE rows[m].status = "FAILED" /\ rows[m].next <= t
  <2>1. claim[v].at < rows[m].next
    BY <1>4 DEF Inv, Fence
  <2> QED
    BY <1>2, <1>4, <2>1, DeliveryAssumptions
<1>5. CASE rows[m].status = "PROCESSING" /\ rows[m].until <= t
  <2>1. rows[m].until \in Nat
    BY <1>5 DEF Inv, RowsOK
  <2>2. /\ claim[v].attempt = rows[m].attempts =>
              claim[v].until = rows[m].until
        /\ claim[v].attempt < rows[m].attempts =>
              claim[v].until < rows[m].until
    BY <1>5 DEF Inv, Fence
  <2>3. claim[v].until <= rows[m].until
    BY <1>2, <2>1, <2>2
  <2>4. Lease \in Nat \ {0}
    BY DeliveryAssumptions
  <2> QED
    BY <1>2, <1>5, <2>1, <2>3, <2>4
<1> QED
  BY <1>3, <1>4, <1>5 DEF Due

\* A worker's claim locks the delivery until a later time.
LEMMA ClaimNextDeliveryInv ==
    ASSUME Inv, NEW w \in Workers, ClaimNextDelivery(w)
    PROVE  Inv'
<1>1. PICK m \in Msgs, t \in Readings :
        /\ rows[m] # None
        /\ AttemptLeft(rows[m])
        /\ Due(rows[m], t)
        /\ rows' = [rows EXCEPT ![m].status = "PROCESSING",
                                ![m].attempts = @ + 1,
                                ![m].until = t + Lease]
        /\ claim' = [claim EXCEPT ![w] =
                [msg |-> m, attempt |-> rows[m].attempts + 1, at |-> t,
                 until |-> t + Lease, result |-> None]]
  BY DEF ClaimNextDelivery
<1>2. claim[w] = None /\ UNCHANGED <<now, processed, log, mailed>>
  BY DEF ClaimNextDelivery
<1>3. t \in Nat /\ t + Lease \in Nat
  BY ReadingsType, DeliveryAssumptions DEF Inv
<1> DEFINE a == rows[m].attempts + 1
           c == [msg |-> m, attempt |-> a, at |-> t, until |-> t + Lease,
                 result |-> None]
           row == [rows[m] EXCEPT !.status = "PROCESSING", !.attempts = a,
                                  !.until = t + Lease]
<1>4. rows[m] \in Row /\ rows[m].attempts \in Nat /\ a \in 1 .. MaxAttempts
  BY <1>1, DeliveryAssumptions DEF Inv, TypeOK, Row, AttemptLeft
<1>5. row \in Row /\ row # None
  <2>1. a \in 0 .. MaxAttempts
    BY <1>4, DeliveryAssumptions
  <2>2. row \in Row
    BY <1>3, <1>4, <2>1 DEF Row
  <2> QED
    BY <2>2, NoneIsApart
<1>6. c \in Claim /\ c # None
  BY <1>3, <1>4, NoneIsApart DEF Claim
<1>7. /\ row.status = "PROCESSING" /\ row.attempts = a
      /\ row.until = t + Lease
  BY <1>4 DEF Row
<1>8. /\ c.msg = m /\ c.attempt = a /\ c.at = t /\ c.until = t + Lease
      /\ c.result # "ok"
  BY NoneIsApart DEF Claim
<1>9. rows' = [rows EXCEPT ![m] = row]
  BY <1>1
<1>10. claim' = [claim EXCEPT ![w] = c]
  BY <1>1
<1> HIDE DEF c, row
<1>11. /\ rows' \in [Msgs -> Row \cup {None}]
       /\ rows'[m] = row
       /\ \A n \in Msgs : n # m => rows'[n] = rows[n]
  BY <1>5, <1>9 DEF Inv, TypeOK
<1>12. /\ claim' \in [Workers -> Claim \cup {None}]
       /\ claim'[w] = c
       /\ \A v \in Workers : v # w => claim'[v] = claim[v]
  BY <1>6, <1>10 DEF Inv, TypeOK
<1>13. \A v \in Workers : claim[v] # None =>
         /\ claim[v] \in Claim /\ claim[v].msg \in Msgs
         /\ claim[v].attempt \in Nat /\ claim[v].at \in Nat
         /\ claim[v].msg = m => claim[v].attempt < a
  <2> SUFFICES ASSUME NEW v \in Workers, claim[v] # None
               PROVE  /\ claim[v] \in Claim /\ claim[v].msg \in Msgs
                      /\ claim[v].attempt \in Nat /\ claim[v].at \in Nat
                      /\ claim[v].msg = m => claim[v].attempt < a
    OBVIOUS
  <2>1. claim[v] \in Claim
    BY DEF Inv, TypeOK
  <2>2. /\ claim[v].msg \in Msgs
        /\ claim[v].attempt \in Nat /\ claim[v].at \in Nat
    BY <2>1, DeliveryAssumptions DEF Claim
  <2> QED
    BY <1>4, <2>1, <2>2 DEF Inv, ClaimsKnown
<1>14. TypeOK'
  BY <1>2, <1>11, <1>12 DEF Inv, TypeOK
<1>15. RowsOK'
  BY <1>1, <1>2, <1>3, <1>7, <1>11 DEF Inv, RowsOK
<1>16. ClaimsKnown'
  BY <1>2, <1>4, <1>5, <1>7, <1>8, <1>11, <1>12, <1>13
     DEF Inv, ClaimsKnown
<1>17. ClaimsApart'
  <2> SUFFICES ASSUME NEW u \in Workers, NEW v \in Workers, u # v,
                      claim'[u] # None, claim'[v] # None,
                      claim'[u].msg = claim'[v].msg
               PROVE  claim'[u].attempt # claim'[v].attempt
    BY DEF ClaimsApart
  <2>1. CASE u = w
    BY <1>4, <1>8, <1>12, <1>13, <2>1
  <2>2. CASE v = w
    BY <1>4, <1>8, <1>12, <1>13, <2>2
  <2>3. CASE u # w /\ v # w
    BY <1>12, <2>3 DEF Inv, ClaimsApart
  <2> QED
    BY <2>1, <2>2, <2>3
<1>18. Fence'
  <2> SUFFICES ASSUME NEW v \in Workers, claim'[v] # None
               PROVE  /\ rows'[claim'[v].msg].status = "PROCESSING" =>
                           /\ claim'[v].attempt = rows'[claim'[v].msg].attempts
                                => claim'[v].until = rows'[claim'[v].msg].until
                           /\ claim'[v].attempt < rows'[claim'[v].msg].attempts
                                => claim'[v].until < rows'[claim'[v].msg].until
                      /\ rows'[claim'[v].msg].status = "FAILED"
                           /\ AttemptLeft(rows'[claim'[v].msg])
                              => claim'[v].at < rows'[claim'[v].msg].next
    BY DEF Fence, AttemptLeft
  <2>1. CASE v = w
    BY <1>4, <1>7, <1>8, <1>11, <1>12, <2>1
  <2>2. CASE v # w /\ claim[v].msg = m
    <3>1. claim'[v] = claim[v] /\ claim[v] # None
      BY <1>12, <2>2
    <3>2. claim[v].until < t + Lease
      BY <1>1, <1>3, <2>2, <3>1, ClaimIsLater
    <3>3. claim[v].attempt < a /\ claim[v].attempt \in Nat
      BY <1>13, <2>2, <3>1
    <3> QED
      BY <1>4, <1>7, <1>11, <2>2, <3>1, <3>2, <3>3
  <2>3. CASE v # w /\ claim[v].msg # m
    <3>1. claim'[v] = claim[v] /\ claim[v] # None
      BY <1>12, <2>3
    <3>2. rows'[claim[v].msg] = rows[claim[v].msg]
      BY <1>11, <1>13, <2>3, <3>1
    <3> QED
      BY <3>1, <3>2 DEF Inv, Fence
  <2> QED
    BY <2>1, <2>2, <2>3
<1>19. RecordsOK'
  <2> SUFFICES ASSUME NEW n \in Msgs, NEW r \in log[n]
               PROVE  /\ rows'[n] # None
                      /\ r.attempt <= rows'[n].attempts
                      /\ r.attempt = rows'[n].attempts =>
                            r.status = rows'[n].status
                      /\ r.status = "SENT" => r.attempt = rows'[n].attempts
                      /\ \A s \in log[n] : r.attempt = s.attempt => r = s
    BY <1>2 DEF RecordsOK
  <2>1. CASE n = m
    <3>1. /\ r.attempt \in Nat
          /\ r.attempt <= rows[m].attempts
          /\ r.status = "SENT" => r.attempt = rows[m].attempts
          /\ r.attempt = rows[m].attempts => r.status = rows[m].status
          /\ \A s \in log[n] : r.attempt = s.attempt => r = s
      BY <2>1, DeliveryAssumptions DEF Inv, RecordsOK, TypeOK, Record
    <3>2. rows[m].status # "SENT"
      BY <1>1 DEF Due
    <3> QED
      BY <1>4, <1>5, <1>7, <1>11, <2>1, <3>1, <3>2
  <2>2. CASE n # m
    BY <1>11, <2>2 DEF Inv, RecordsOK
  <2> QED
    BY <2>1, <2>2
<1>20. SentOK'
  BY <1>2, <1>7, <1>11 DEF Inv, SentOK
<1> QED
  BY <1>14, <1>15, <1>16, <1>17, <1>18, <1>19, <1>20 DEF Inv

\* The mail of an attempt is noted before the attempt can be called good.
LEMMA SendInv ==
    ASSUME Inv, NEW w \in Workers, Send(w)
    PROVE  Inv'
<1> DEFINE c == claim[w]
<1>1. PICK result \in {"ok", "error"}, taken \in BOOLEAN :
        /\ result = "ok" => taken
        /\ claim' = [claim EXCEPT ![w].result = result]
        /\ mailed' = IF taken
                     THEN [mailed EXCEPT ![c.msg] = @ \cup {c.attempt}]
                     ELSE mailed
  BY DEF Send
<1>2. c # None /\ UNCHANGED <<now, processed, rows, log>>
  BY DEF Send
<1>3. c \in Claim /\ c.msg \in Msgs /\ c.attempt \in 1 .. MaxAttempts
  BY <1>2 DEF Inv, TypeOK, Claim
<1> DEFINE d == [c EXCEPT !.result = result]
<1>4. /\ d \in Claim /\ d # None
      /\ d.msg = c.msg /\ d.attempt = c.attempt /\ d.at = c.at
      /\ d.until = c.until /\ d.result = result
  BY <1>3, NoneIsApart DEF Claim
<1>5. claim' = [claim EXCEPT ![w] = d]
  BY <1>1
<1> HIDE DEF d
<1>6. /\ claim' \in [Workers -> Claim \cup {None}]
      /\ claim'[w] = d
      /\ \A v \in Workers : v # w => claim'[v] = claim[v]
  BY <1>4, <1>5 DEF Inv, TypeOK
<1>7. /\ mailed' \in [Msgs -> SUBSET (1 .. MaxAttempts)]
      /\ \A m \in Msgs : mailed[m] \subseteq mailed'[m]
      /\ result = "ok" => c.attempt \in mailed'[c.msg]
  <2>1. mailed \in [Msgs -> SUBSET (1 .. MaxAttempts)]
    BY DEF Inv, TypeOK
  <2>2. CASE taken
    BY <1>1, <1>3, <2>1, <2>2
  <2>3. CASE ~taken
    BY <1>1, <2>1, <2>3
  <2> QED
    BY <2>2, <2>3
<1>8. \A v \in Workers : claim'[v] # None =>
        /\ claim[v] # None
        /\ claim'[v].msg = claim[v].msg
        /\ claim'[v].attempt = claim[v].attempt
        /\ claim'[v].at = claim[v].at
        /\ claim'[v].until = claim[v].until
        /\ v # w => claim'[v].result = claim[v].result
  BY <1>2, <1>4, <1>6
<1>9. TypeOK'
  BY <1>2, <1>6, <1>7 DEF Inv, TypeOK
<1>10. RowsOK' /\ RecordsOK'
  BY <1>2 DEF Inv, RowsOK, RecordsOK
<1>11. ClaimsKnown'
  <2> SUFFICES ASSUME NEW v \in Workers, claim'[v] # None
               PROVE  /\ rows[claim[v].msg] # None
                      /\ claim[v].attempt <= rows[claim[v].msg].attempts
                      /\ claim[v].until = claim[v].at + Lease
                      /\ claim'[v].result = "ok" =>
                            claim[v].attempt \in mailed'[claim[v].msg]
    BY <1>2, <1>8 DEF ClaimsKnown
  <2>1. /\ rows[claim[v].msg] # None
        /\ claim[v].attempt <= rows[claim[v].msg].attempts
        /\ claim[v].until = claim[v].at + Lease
        /\ claim[v].result = "ok" =>
              claim[v].attempt \in mailed[claim[v].msg]
    BY <1>8 DEF Inv, ClaimsKnown
  <2>2. CASE v = w
    BY <1>4, <1>6, <1>7, <2>1, <2>2
  <2>3. CASE v # w
    <3>1. claim[v].msg \in Msgs
      BY <1>8 DEF Inv, TypeOK, Claim
    <3> QED
      BY <1>7, <1>8, <2>1, <2>3, <3>1
  <2> QED
    BY <2>2, <2>3
<1>12. ClaimsApart'
  BY <1>8 DEF Inv, ClaimsApart
<1>13. Fence'
  BY <1>2, <1>8 DEF Inv, Fence, AttemptLeft
<1>14. SentOK'
  BY <1>2, <1>7 DEF Inv, SentOK
<1> QED
  BY <1>9, <1>10, <1>11, <1>12, <1>13, <1>14 DEF Inv

\* A current claim is the latest one.
LEMMA CurrentIsLatest ==
    ASSUME Inv, NEW w \in Workers, claim[w] # None,
           ClaimCurrent(rows[claim[w].msg], claim[w])
    PROVE  claim[w].attempt = rows[claim[w].msg].attempts
<1> DEFINE c == claim[w]
           row == rows[c.msg]
<1>1. c \in Claim /\ row # None /\ c.attempt <= row.attempts
  BY DEF Inv, TypeOK, ClaimsKnown
<1>2. row \in Row /\ c.until \in Nat /\ c.attempt \in 1 .. MaxAttempts
  BY <1>1 DEF Inv, TypeOK, Claim
<1>3. row.status = "PROCESSING" /\ row.until = c.until
        /\ row.attempts \in 0 .. MaxAttempts
  BY <1>2 DEF ClaimCurrent, Row
<1>4. ~(c.attempt < row.attempts)
  BY <1>2, <1>3 DEF Inv, Fence
<1> QED
  BY <1>1, <1>2, <1>3, <1>4, DeliveryAssumptions

\* Both marks: the latest claim ends its attempt with a status of its own and
\* a record.
LEMMA MarkInv ==
    ASSUME Inv, NEW w \in Workers, claim[w] # None,
           ClaimCurrent(rows[claim[w].msg], claim[w]),
           NEW new \in Row, new.status \in {"SENT", "FAILED"},
           new.attempts = rows[claim[w].msg].attempts,
           new.status = "SENT" => claim[w].result = "ok",
           new.status = "FAILED" /\ AttemptLeft(new) => claim[w].at < new.next,
           rows' = [rows EXCEPT ![claim[w].msg] = new],
           recordDelivery(claim[w], new.status),
           claim' = [claim EXCEPT ![w] = None],
           UNCHANGED <<now, processed, mailed>>
    PROVE  Inv'
<1> DEFINE c == claim[w]
           m == claim[w].msg
           r == [attempt |-> c.attempt, status |-> new.status]
<1>1. /\ c \in Claim /\ m \in Msgs /\ c.attempt \in 1 .. MaxAttempts
      /\ c.at \in Nat /\ c.until \in Nat
      /\ rows[m] # None /\ rows[m] \in Row
  BY DEF Inv, TypeOK, ClaimsKnown, Claim
<1>2. /\ c.attempt = rows[m].attempts /\ rows[m].status = "PROCESSING"
      /\ new # None
  BY CurrentIsLatest, NoneIsApart DEF ClaimCurrent
<1>3. r \in Record /\ r.attempt = c.attempt /\ r.status = new.status
  BY <1>1 DEF Record
<1>4. log' = [log EXCEPT ![m] = @ \cup {r}]
  BY DEF recordDelivery
<1> HIDE DEF r
<1>5. /\ rows' \in [Msgs -> Row \cup {None}]
      /\ rows'[m] = new
      /\ \A n \in Msgs : n # m => rows'[n] = rows[n]
  BY <1>1 DEF Inv, TypeOK
<1>6. /\ log' \in [Msgs -> SUBSET Record]
      /\ log'[m] = log[m] \cup {r}
      /\ \A n \in Msgs : n # m => log'[n] = log[n]
  BY <1>1, <1>3, <1>4 DEF Inv, TypeOK
<1>7. /\ claim' \in [Workers -> Claim \cup {None}]
      /\ claim'[w] = None
      /\ \A v \in Workers : v # w => claim'[v] = claim[v]
  BY DEF Inv, TypeOK
<1>8. \A v \in Workers : claim'[v] # None =>
         /\ v # w /\ claim'[v] = claim[v] /\ claim[v] # None
         /\ claim[v] \in Claim /\ claim[v].msg \in Msgs
  BY <1>7 DEF Inv, TypeOK, Claim
<1>9. TypeOK'
  BY <1>5, <1>6, <1>7 DEF Inv, TypeOK
<1>10. RowsOK'
  BY <1>1, <1>5 DEF Inv, RowsOK
<1>11. ClaimsKnown'
  BY <1>2, <1>5, <1>8 DEF Inv, ClaimsKnown
<1>12. ClaimsApart'
  BY <1>8 DEF Inv, ClaimsApart
<1>13. Fence'
  <2> SUFFICES ASSUME NEW v \in Workers, claim'[v] # None
               PROVE  /\ rows'[claim[v].msg].status = "PROCESSING" =>
                           /\ claim[v].attempt = rows'[claim[v].msg].attempts
                                => claim[v].until = rows'[claim[v].msg].until
                           /\ claim[v].attempt < rows'[claim[v].msg].attempts
                                => claim[v].until < rows'[claim[v].msg].until
                      /\ rows'[claim[v].msg].status = "FAILED"
                           /\ AttemptLeft(rows'[claim[v].msg])
                              => claim[v].at < rows'[claim[v].msg].next
    BY <1>8 DEF Fence, AttemptLeft
  <2>1. CASE claim[v].msg = m
    <3>1. /\ claim[v].attempt \in 1 .. MaxAttempts /\ claim[v].at \in Nat
          /\ claim[v].until \in Nat
      BY <1>8 DEF Claim
    <3>2. claim[v].attempt # c.attempt /\ claim[v].attempt <= rows[m].attempts
      BY <1>8, <2>1 DEF Inv, ClaimsApart, ClaimsKnown
    <3>3. claim[v].attempt < rows[m].attempts
      BY <1>1, <1>2, <3>1, <3>2, DeliveryAssumptions
    <3>4. claim[v].until < rows[m].until
      BY <1>2, <1>8, <2>1, <3>3 DEF Inv, Fence
    <3>5. rows[m].until = c.until
      BY DEF ClaimCurrent
    <3>6. claim[v].until = claim[v].at + Lease /\ c.until = c.at + Lease
      BY <1>8 DEF Inv, ClaimsKnown
    <3>7. claim[v].at < c.at
      BY <1>1, <3>1, <3>4, <3>5, <3>6, DeliveryAssumptions
    <3>8. new.next \in Nat
      BY DEF Row
    <3> QED
      BY <1>1, <1>5, <2>1, <3>1, <3>7, <3>8
  <2>2. CASE claim[v].msg # m
    BY <1>5, <1>8, <2>2 DEF Inv, Fence
  <2> QED
    BY <2>1, <2>2
<1>14. RecordsOK'
  <2>1. \A q \in log[m] : /\ q.attempt \in Nat
                          /\ q.attempt < c.attempt
                          /\ q.status # "SENT"
    <3> SUFFICES ASSUME NEW q \in log[m]
                 PROVE  /\ q.attempt \in Nat
                        /\ q.attempt < c.attempt
                        /\ q.status # "SENT"
      OBVIOUS
    <3>1. q \in Record
      BY <1>1 DEF Inv, TypeOK
    <3>2. q.attempt \in 1 .. MaxAttempts /\ q.status \in {"SENT", "FAILED"}
      BY <3>1 DEF Record
    <3>3. /\ q.attempt <= rows[m].attempts
          /\ q.attempt = rows[m].attempts => q.status = rows[m].status
          /\ q.status = "SENT" => q.attempt = rows[m].attempts
      BY <1>1 DEF Inv, RecordsOK
    <3> QED
      BY <1>1, <1>2, <3>2, <3>3, DeliveryAssumptions
  <2> SUFFICES ASSUME NEW n \in Msgs, NEW q \in log'[n]
               PROVE  /\ rows'[n] # None
                      /\ q.attempt <= rows'[n].attempts
                      /\ q.attempt = rows'[n].attempts =>
                            q.status = rows'[n].status
                      /\ q.status = "SENT" => q.attempt = rows'[n].attempts
                      /\ \A s \in log'[n] : q.attempt = s.attempt => q = s
    BY DEF RecordsOK
  <2>2. CASE n = m /\ q = r
    <3>1. \A s \in log'[n] : q.attempt = s.attempt => q = s
      BY <1>1, <1>3, <1>6, <2>1, <2>2
    <3> QED
      BY <1>1, <1>2, <1>3, <1>5, <2>2, <3>1
  <2>3. CASE n = m /\ q # r
    <3>1. q \in log[m]
      BY <1>6, <2>3
    <3>2. \A s \in log[m] : q.attempt = s.attempt => q = s
      BY <1>1, <3>1 DEF Inv, RecordsOK
    <3>3. \A s \in log'[n] : q.attempt = s.attempt => q = s
      BY <1>1, <1>3, <1>6, <2>1, <2>3, <3>1, <3>2
    <3> QED
      BY <1>1, <1>2, <1>5, <2>1, <2>3, <3>1, <3>3
  <2>4. CASE n # m
    BY <1>5, <1>6, <2>4 DEF Inv, RecordsOK
  <2> QED
    BY <2>2, <2>3, <2>4
<1>15. SentOK'
  <2> SUFFICES ASSUME NEW n \in Msgs, rows'[n] # None,
                      rows'[n].status = "SENT"
               PROVE  /\ rows'[n].attempts \in mailed[n]
                      /\ [attempt |-> rows'[n].attempts, status |-> "SENT"]
                            \in log'[n]
    BY DEF SentOK
  <2>1. CASE n = m
    <3>1. c.attempt \in mailed[m]
      BY <1>5, <2>1 DEF Inv, ClaimsKnown
    <3>2. r = [attempt |-> c.attempt, status |-> "SENT"]
      BY <1>5, <2>1 DEF r
    <3> QED
      BY <1>2, <1>5, <1>6, <2>1, <3>1, <3>2
  <2>2. CASE n # m
    BY <1>5, <1>6, <2>2 DEF Inv, SentOK
  <2> QED
    BY <2>1, <2>2
<1> QED
  BY <1>9, <1>10, <1>11, <1>12, <1>13, <1>14, <1>15 DEF Inv

\* A delivery marked sent is final.
LEMMA MarkDeliverySentInv ==
    ASSUME Inv, NEW w \in Workers, MarkDeliverySent(w)
    PROVE  Inv'
<1> DEFINE c == claim[w]
           new == [rows[c.msg] EXCEPT !.status = "SENT", !.until = None]
<1>1. /\ c # None /\ c.result = "ok"
      /\ ClaimCurrent(rows[c.msg], c)
      /\ rows' = [rows EXCEPT ![c.msg] = new]
      /\ recordDelivery(c, "SENT")
      /\ claim' = [claim EXCEPT ![w] = None]
      /\ UNCHANGED <<now, processed, mailed>>
  BY DEF MarkDeliverySent
<1>2. rows[c.msg] \in Row
  BY <1>1 DEF Inv, TypeOK, ClaimsKnown, Claim
<1>3. new \in Row /\ new.status = "SENT"
        /\ new.attempts = rows[c.msg].attempts
  BY <1>2 DEF Row
<1> HIDE DEF new
<1> QED
  BY <1>1, <1>3, MarkInv

\* A failed attempt schedules the next or is the last.
LEMMA MarkDeliveryFailedInv ==
    ASSUME Inv, NEW w \in Workers, MarkDeliveryFailed(w)
    PROVE  Inv'
<1> DEFINE c == claim[w]
<1>1. /\ c # None
      /\ ClaimCurrent(rows[c.msg], c)
      /\ recordDelivery(c, "FAILED")
      /\ claim' = [claim EXCEPT ![w] = None]
      /\ UNCHANGED <<now, processed, mailed>>
  BY DEF MarkDeliveryFailed
<1>2. PICK t \in Readings :
        /\ t >= c.at
        /\ rows' = [rows EXCEPT
                ![c.msg].status = "FAILED",
                ![c.msg].until = None,
                ![c.msg].next = IF c.attempt >= MaxAttempts THEN t
                                ELSE t + deliveryBackoff(c.attempt)]
  BY DEF MarkDeliveryFailed
<1> DEFINE next == IF c.attempt >= MaxAttempts THEN t
                   ELSE t + deliveryBackoff(c.attempt)
           new == [rows[c.msg] EXCEPT !.status = "FAILED", !.until = None,
                                      !.next = next]
<1>3. rows[c.msg] \in Row /\ c.attempt \in Nat /\ c.at \in Nat /\ t \in Nat
        /\ MaxAttempts \in Nat
  BY <1>1, ReadingsType, DeliveryAssumptions
     DEF Inv, TypeOK, ClaimsKnown, Claim
<1>4. next \in Nat /\ (c.attempt < MaxAttempts => c.at < next)
  BY <1>2, <1>3, BackoffPositive
<1>5. rows' = [rows EXCEPT ![c.msg] = new]
  BY <1>2
<1> HIDE DEF next
<1>6. /\ new \in Row /\ new.status = "FAILED" /\ new.next = next
      /\ new.attempts = rows[c.msg].attempts
  BY <1>3, <1>4 DEF Row
<1> HIDE DEF new
<1>7. new.status = "FAILED" /\ AttemptLeft(new) => c.at < new.next
  BY <1>1, <1>4, <1>6, CurrentIsLatest DEF AttemptLeft
<1>8. /\ new.status \in {"SENT", "FAILED"}
      /\ new.status = "SENT" => claim[w].result = "ok"
      /\ recordDelivery(c, new.status)
  BY <1>1, <1>6
<1> QED
  BY <1>1, <1>5, <1>6, <1>7, <1>8, MarkInv

\* Forgetting a claim, as MarkStale and LoseClaim do.
LEMMA DropClaimInv ==
    ASSUME Inv, NEW w \in Workers, claim' = [claim EXCEPT ![w] = None],
           UNCHANGED <<now, processed, rows, log, mailed>>
    PROVE  Inv'
<1>1. /\ claim' \in [Workers -> Claim \cup {None}]
      /\ \A v \in Workers : claim'[v] # None => claim'[v] = claim[v]
  BY DEF Inv, TypeOK
<1>2. TypeOK'
  BY <1>1 DEF Inv, TypeOK
<1>3. RowsOK' /\ RecordsOK' /\ SentOK'
  BY DEF Inv, RowsOK, RecordsOK, SentOK
<1>4. ClaimsKnown' /\ ClaimsApart'
  BY <1>1 DEF Inv, ClaimsKnown, ClaimsApart
<1>5. Fence'
  BY <1>1 DEF Inv, Fence, AttemptLeft
<1> QED
  BY <1>2, <1>3, <1>4, <1>5 DEF Inv

-----------------------------------------------------------------------------

\* Every step of consumer, workers and provider keeps the invariant.
LEMMA NextInv == Inv /\ [Next]_vars => Inv'
<1> SUFFICES ASSUME Inv, [Next]_vars PROVE Inv'
  OBVIOUS
<1>1. CASE UNCHANGED vars
  BY <1>1 DEF vars, Inv, TypeOK, RowsOK, ClaimsKnown, ClaimsApart, Fence,
              RecordsOK, SentOK, AttemptLeft
<1>2. CASE Tick
  BY <1>2, TickInv
<1>3. CASE \E m \in Msgs : ProcessEnvelope(m)
  BY <1>3, ProcessEnvelopeInv
<1>4. CASE \E m \in Msgs : SkipEnvelope(m)
  BY <1>1, <1>4 DEF SkipEnvelope
<1>5. CASE \E w \in Workers : ClaimNextDelivery(w)
  BY <1>5, ClaimNextDeliveryInv
<1>6. CASE \E w \in Workers : Send(w)
  BY <1>6, SendInv
<1>7. CASE \E w \in Workers : MarkDeliverySent(w)
  BY <1>7, MarkDeliverySentInv
<1>8. CASE \E w \in Workers : MarkDeliveryFailed(w)
  BY <1>8, MarkDeliveryFailedInv
<1>9. CASE \E w \in Workers : MarkStale(w)
  BY <1>9, DropClaimInv DEF MarkStale
<1>10. CASE \E w \in Workers : LoseClaim(w)
  BY <1>10, DropClaimInv DEF LoseClaim
<1> QED
  BY <1>1, <1>2, <1>3, <1>4, <1>5, <1>6, <1>7, <1>8, <1>9, <1>10
     DEF Next, Mark

\* The inductive invariant holds in every reachable state.
THEOREM Invariance == Spec => []Inv
  BY InitInv, NextInv, PTL DEF Spec

\* Types, and the attempt limit with them.
THEOREM TypeCorrect == Spec => []TypeOK
<1>1. Inv => TypeOK
  BY DEF Inv
<1> QED
  BY <1>1, Invariance, PTL

\* locked_until fences: only the latest claim of a notification can mark it,
\* however slow the clocks and the sends of the others are.
THEOREM ClaimsFenced == Spec => []OnlyLatestClaimCurrent
<1>1. Inv => OnlyLatestClaimCurrent
  <2> SUFFICES ASSUME Inv, NEW w \in Workers, claim[w] # None,
                      ClaimCurrent(rows[claim[w].msg], claim[w])
               PROVE  /\ claim[w].attempt = rows[claim[w].msg].attempts
                      /\ \A v \in Workers \ {w} :
                            claim[v] # None /\ claim[v].msg = claim[w].msg =>
                              ~ClaimCurrent(rows[claim[w].msg], claim[v])
    BY DEF OnlyLatestClaimCurrent
  <2>1. claim[w].attempt = rows[claim[w].msg].attempts
    BY CurrentIsLatest
  <2>2. ASSUME NEW v \in Workers \ {w}, claim[v] # None,
               claim[v].msg = claim[w].msg,
               ClaimCurrent(rows[claim[w].msg], claim[v])
        PROVE  FALSE
    <3>1. claim[v].attempt = rows[claim[v].msg].attempts
      BY <2>2, CurrentIsLatest
    <3> QED
      BY <2>1, <2>2, <3>1 DEF Inv, ClaimsApart
  <2> QED
    BY <2>1, <2>2
<1> QED
  BY <1>1, Invariance, PTL

\* A notification is SENT on the word of the attempt that mailed it.
THEOREM SentMeansMailed == Spec => []SentWasMailed
<1>1. Inv => SentWasMailed
  BY DEF Inv, SentOK, SentWasMailed
<1> QED
  BY <1>1, Invariance, PTL

\* The delivery records agree with the notification.
THEOREM RecordsAgree == Spec => []RecordsMatch
<1>1. Inv => RecordsMatch
  <2> SUFFICES ASSUME Inv, NEW m \in Msgs
               PROVE  /\ \A r, s \in log[m] : r.attempt = s.attempt => r = s
                      /\ {r \in log[m] : r.status = "SENT"} =
                            IF rows[m] # None /\ rows[m].status = "SENT"
                            THEN {[attempt |-> rows[m].attempts,
                                   status |-> "SENT"]}
                            ELSE {}
    BY DEF RecordsMatch
  <2>1. \A r, s \in log[m] : r.attempt = s.attempt => r = s
    BY DEF Inv, RecordsOK
  <2>2. \A r \in log[m] : r.status = "SENT" =>
          /\ rows[m] # None
          /\ rows[m].status = "SENT"
          /\ r.attempt = rows[m].attempts
    BY DEF Inv, RecordsOK
  <2>3. rows[m] # None /\ rows[m].status = "SENT" =>
          [attempt |-> rows[m].attempts, status |-> "SENT"] \in log[m]
    BY DEF Inv, SentOK
  <2> QED
    BY <2>1, <2>2, <2>3
<1> QED
  BY <1>1, Invariance, PTL

\* Nothing touches a notification that is SENT.
THEOREM SentStays == Spec => SentIsFinal
<1> DEFINE Stays == \A m \in Msgs :
          rows[m] # None /\ rows[m].status = "SENT" => rows'[m] = rows[m]
<1>1. Inv /\ [Next]_vars => [Stays]_vars
  <2> SUFFICES ASSUME Inv, Next, NEW m \in Msgs, rows[m] # None,
                      rows[m].status = "SENT"
               PROVE  rows'[m] = rows[m]
    OBVIOUS
  <2>1. rows \in [Msgs -> Row \cup {None}]
    BY DEF Inv, TypeOK
  <2>2. CASE \E n \in Msgs : ProcessEnvelope(n)
    BY <2>1, <2>2 DEF ProcessEnvelope, claimMessage, Inv, RowsOK
  <2>3. CASE \E w \in Workers : ClaimNextDelivery(w)
    BY <2>1, <2>3 DEF ClaimNextDelivery, Due
  <2>4. CASE \E w \in Workers : MarkDeliverySent(w) \/ MarkDeliveryFailed(w)
    BY <2>1, <2>4 DEF MarkDeliverySent, MarkDeliveryFailed, ClaimCurrent
  <2>5. CASE \/ Tick
             \/ \E n \in Msgs : SkipEnvelope(n)
             \/ \E w \in Workers : Send(w) \/ MarkStale(w) \/ LoseClaim(w)
    BY <2>5 DEF Tick, SkipEnvelope, Send, MarkStale, LoseClaim, vars
  <2> QED
    BY <2>2, <2>3, <2>4, <2>5 DEF Next, Mark
<1> QED
  BY <1>1, Invariance, PTL DEF Spec, SentIsFinal

=============================================================================
