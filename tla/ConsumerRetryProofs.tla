------------------------ MODULE ConsumerRetryProofs ------------------------
(***************************************************************************)
(* Proofs about ConsumerRetry, for any queues, bindings, consumers and     *)
(* messages, any number of retries, faults and buffered confirms.          *)
(***************************************************************************)
EXTENDS ConsumerRetry, SequenceTheorems, TLAPS

HeldOK == \A c \in Consumers : pc[c] = "idle" <=> held[c] = None

\* A delivery about to be acked without a retry is recorded.
HandledOK ==
    \A c \in Consumers :
        pc[c] = "handled" => held[c][1] \in processed[QueueOf[c]]

\* A delivery in hand has failed as often as its header says, and once more
\* when it is about to be published again.
HeldCounted ==
    \A c \in Consumers : held[c] # None =>
        /\ tries[QueueOf[c]][held[c][1]] >= held[c][2]
        /\ pc[c] \in {"failed", "waiting"} =>
              tries[QueueOf[c]][held[c][1]] >= held[c][2] + 1

\* The broker's answer to the last publish of c, as long as c has not read it.
LastConfirm(c) ==
    IF wire[c] # <<>> THEN wire[c][Len(wire[c])] ELSE got[c][Len(got[c])]

\* A delivery c holds and will not ack unless its message is safe elsewhere.
Keeps(c, m) ==
    /\ held[c] # None
    /\ held[c][1] = m
    /\ \/ pc[c] \in {"handling", "failed"}
       \/ pc[c] = "waiting" /\ ~LastConfirm(c)

Queued(q, m) ==
    \E x \in Copy : x[1] = m /\ (main[q][x] > 0 \/ retry[q][x] > 0)

Safe(q, m) ==
    \/ Settled(q, m)
    \/ Queued(q, m)
    \/ \E c \in Consumers : QueueOf[c] = q /\ Keeps(c, m)

\* NothingLostInStep without the deliveries that are as good as acked.
AllSafe ==
    \A q \in Queues \ skewed : \A m \in published :
        Key[m] \in EventBindings[q] => Safe(q, m)

Inv ==
    /\ TypeOK
    /\ HeldOK
    /\ HandledOK
    /\ HeldCounted
    /\ FailuresCounted
    /\ AppliedOnce
    /\ AllSafe

-----------------------------------------------------------------------------
(* Bags, deliveries and what keeps a message safe.                         *)

\* Putting a message in a queue counts one copy more.
LEMMA AddBag ==
    ASSUME NEW S, NEW bag \in [S -> Nat], NEW x \in S
    PROVE  /\ Add(bag, x) \in [S -> Nat]
           /\ Add(bag, x)[x] = bag[x] + 1
           /\ \A y \in S \ {x} : Add(bag, x)[y] = bag[y]
BY DEF Add

\* Taking a message from a queue counts one copy less.
LEMMA RemoveBag ==
    ASSUME NEW S, NEW bag \in [S -> Nat], NEW x \in S, bag[x] > 0
    PROVE  /\ Remove(bag, x) \in [S -> Nat]
           /\ \A y \in S \ {x} : Remove(bag, x)[y] = bag[y]
           /\ Remove(bag, x)[x] <= bag[x]
BY DEF Remove

\* A copy of a message is one of a bounded number of attempts.
LEMMA CopyType ==
    ASSUME NEW x \in Copy
    PROVE  x[1] \in Msgs /\ x[2] \in 0 .. MaxRetries /\ x = <<x[1], x[2]>>
BY DEF Copy

\* A held delivery is a copy.
LEMMA HeldType ==
    ASSUME TypeOK, HeldOK, NEW c \in Consumers, pc[c] # "idle"
    PROVE  /\ QueueOf[c] \in Queues
           /\ held[c] \in Copy /\ held[c] # None
           /\ held[c][1] \in Msgs /\ held[c][2] \in 0 .. MaxRetries
<1>1. held[c] \in Copy /\ held[c] # None
  BY DEF TypeOK, HeldOK
<1> QED
  BY <1>1, CopyType, RetryAssumptions

\* A delivery nobody touches stays where it is.
LEMMA KeeperStays ==
    ASSUME NEW d \in Consumers, NEW m, Keeps(d, m),
           held'[d] = held[d], pc'[d] = pc[d],
           wire'[d] = wire[d], got'[d] = got[d]
    PROVE  Keeps(d, m)'
BY DEF Keeps, LastConfirm

\* A message that has been settled stays settled.
LEMMA SettledStays ==
    ASSUME NEW q \in Queues, NEW m \in Msgs, Settled(q, m),
           processed[q] \subseteq processed'[q],
           dead[q][m] > 0 => dead'[q][m] > 0
    PROVE  Settled(q, m)'
BY DEF Settled

\* What is needed of a step for the counts of copies and dead letters.
LEMMA CountsKept ==
    ASSUME TypeOK, TypeOK', FailuresCounted,
           \A q \in Queues, m \in Msgs : tries'[q][m] >= tries[q][m],
           \A q \in Queues, x \in Copy :
              main'[q][x] + retry'[q][x] > 0 =>
                 main[q][x] + retry[q][x] > 0 \/ tries[q][x[1]] >= x[2],
           \A q \in Queues, m \in Msgs :
              dead'[q][m] > 0 =>
                 dead[q][m] > 0 \/ tries[q][m] >= MaxRetries + 1
    PROVE  FailuresCounted'
<1> SUFFICES ASSUME NEW q \in Queues, NEW m \in Msgs
             PROVE  /\ \A n \in 0 .. MaxRetries :
                          main'[q][<<m, n>>] + retry'[q][<<m, n>>] > 0 =>
                             tries'[q][m] >= n
                    /\ dead'[q][m] > 0 => tries'[q][m] = MaxRetries + 1
  BY DEF FailuresCounted
<1>1. /\ tries[q][m] \in 0 .. MaxRetries + 1
      /\ tries'[q][m] \in 0 .. MaxRetries + 1
      /\ tries'[q][m] >= tries[q][m]
  BY DEF TypeOK
<1>2. ASSUME NEW n \in 0 .. MaxRetries,
             main'[q][<<m, n>>] + retry'[q][<<m, n>>] > 0
      PROVE  tries'[q][m] >= n
  <2>1. <<m, n>> \in Copy
    BY DEF Copy
  <2>2. main[q][<<m, n>>] + retry[q][<<m, n>>] > 0 \/ tries[q][m] >= n
    BY <1>2, <2>1
  <2>3. tries[q][m] >= n
    BY <2>2 DEF FailuresCounted
  <2> QED
    BY <1>1, <2>3, RetryAssumptions
<1>3. ASSUME dead'[q][m] > 0
      PROVE  tries'[q][m] = MaxRetries + 1
  <2>1. tries[q][m] >= MaxRetries + 1
    BY <1>1, <1>3, RetryAssumptions DEF FailuresCounted
  <2> QED
    BY <1>1, <2>1, RetryAssumptions
<1> QED
  BY <1>2, <1>3

\* A step that takes nothing out of the queues, tables and dead letters need
\* only look after the deliveries in hand.
LEMMA SafeStays ==
    ASSUME NEW q \in Queues, NEW m \in Msgs, Safe(q, m),
           processed[q] \subseteq processed'[q],
           dead[q][m] > 0 => dead'[q][m] > 0,
           \A x \in Copy : main[q][x] > 0 \/ retry[q][x] > 0 =>
                            main'[q][x] > 0 \/ retry'[q][x] > 0,
           \A d \in Consumers : QueueOf[d] = q /\ Keeps(d, m) => Safe(q, m)'
    PROVE  Safe(q, m)'
<1>1. CASE Settled(q, m)
  BY <1>1, SettledStays DEF Safe
<1>2. CASE Queued(q, m)
  BY <1>2 DEF Safe, Queued
<1> QED
  BY <1>1, <1>2 DEF Safe

\* The handler's transaction changes a message's effect once, with its record.
LEMMA Committed ==
    ASSUME TypeOK, AppliedOnce, NEW q \in Queues, NEW m \in Msgs,
           Commit(q, m) \/ UNCHANGED <<processed, applied>>
    PROVE  /\ processed' \in [Queues -> SUBSET Msgs]
           /\ applied' \in [Queues -> [Msgs -> Nat]]
           /\ AppliedOnce'
           /\ \A p \in Queues : processed[p] \subseteq processed'[p]
           /\ Commit(q, m) => m \in processed'[q]
<1>1. CASE UNCHANGED <<processed, applied>>
  BY <1>1 DEF TypeOK, AppliedOnce, Commit, claimMessage
<1>2. CASE Commit(q, m) /\ ~claimMessage(q, m)
  BY <1>2 DEF TypeOK, AppliedOnce, Commit, claimMessage
<1>3. CASE Commit(q, m) /\ claimMessage(q, m)
  <2>1. /\ m \notin processed[q]
        /\ processed' = [processed EXCEPT ![q] = processed[q] \cup {m}]
        /\ applied' = [applied EXCEPT ![q] = Add(applied[q], m)]
    BY <1>3 DEF Commit, claimMessage, TypeOK
  <2>2. applied[q] \in [Msgs -> Nat] /\ applied[q][m] = 0
    BY <2>1 DEF TypeOK, AppliedOnce
  <2>3. /\ Add(applied[q], m) \in [Msgs -> Nat]
        /\ Add(applied[q], m)[m] = 1
        /\ \A n \in Msgs \ {m} : Add(applied[q], m)[n] = applied[q][n]
    BY <2>2, AddBag
  <2>4. /\ processed' \in [Queues -> SUBSET Msgs]
        /\ applied' \in [Queues -> [Msgs -> Nat]]
        /\ processed'[q] = processed[q] \cup {m}
        /\ applied'[q] = Add(applied[q], m)
        /\ \A p \in Queues \ {q} : /\ processed'[p] = processed[p]
                                   /\ applied'[p] = applied[p]
    BY <2>1, <2>3 DEF TypeOK
  <2>5. AppliedOnce'
    <3> SUFFICES ASSUME NEW p \in Queues, NEW n \in Msgs
                 PROVE  applied'[p][n] = IF n \in processed'[p] THEN 1 ELSE 0
      BY DEF AppliedOnce
    <3>1. applied[p][n] = IF n \in processed[p] THEN 1 ELSE 0
      BY DEF AppliedOnce
    <3> QED
      BY <2>1, <2>3, <2>4, <3>1
  <2> QED
    BY <2>4, <2>5
<1> QED
  BY <1>1, <1>2, <1>3

\* What Nack(false, true) leaves: the delivery is back in its queue.
LEMMA Requeued ==
    ASSUME TypeOK, HeldOK, NEW c \in Consumers, pc[c] # "idle", NackRequeue(c)
    PROVE  /\ main' \in [Queues -> [Copy -> Nat]]
           /\ main'[QueueOf[c]][held[c]] > 0
           /\ \A q \in Queues, x \in Copy : main'[q][x] >= main[q][x]
           /\ \A q \in Queues, x \in Copy :
                 main'[q][x] # main[q][x] => q = QueueOf[c] /\ x = held[c]
           /\ held' = [held EXCEPT ![c] = None]
           /\ pc' = [pc EXCEPT ![c] = "idle"]
<1> DEFINE q == QueueOf[c]
           x == held[c]
<1>1. q \in Queues /\ x \in Copy
  BY HeldType
<1>2. main' = [main EXCEPT ![q] = Add(main[q], x)]
  BY <1>1 DEF NackRequeue, TypeOK
<1>3. main \in [Queues -> [Copy -> Nat]] /\ main[q] \in [Copy -> Nat]
  BY <1>1 DEF TypeOK
<1> HIDE DEF q, x
<1>4. /\ Add(main[q], x) \in [Copy -> Nat]
      /\ Add(main[q], x)[x] = main[q][x] + 1
      /\ \A y \in Copy \ {x} : Add(main[q], x)[y] = main[q][y]
  BY <1>1, <1>3, AddBag
<1>5. main'[q] = Add(main[q], x) /\ \A p \in Queues \ {q} : main'[p] = main[p]
  BY <1>1, <1>2, <1>3
<1>6. main[q][x] \in Nat /\ \A p \in Queues, y \in Copy : main[p][y] \in Nat
  BY <1>1, <1>3
<1>7. /\ main' \in [Queues -> [Copy -> Nat]]
      /\ main'[q][x] > 0
      /\ \A p \in Queues, y \in Copy : main'[p][y] >= main[p][y]
      /\ \A p \in Queues, y \in Copy :
            main'[p][y] # main[p][y] => p = q /\ y = x
  BY <1>1, <1>2, <1>3, <1>4, <1>5, <1>6
<1> QED
  BY <1>7 DEF NackRequeue, q, x

-----------------------------------------------------------------------------
(* The steps.                                                              *)

\* Empty queues satisfy the invariant.
THEOREM InitInv == Init => Inv
<1> SUFFICES ASSUME Init PROVE Inv
  OBVIOUS
<1>1. TypeOK
  BY RetryAssumptions, EmptySeq DEF Init, TypeOK, EmptyBag
<1>2. HeldOK /\ HandledOK /\ HeldCounted /\ AllSafe
  BY DEF Init, HeldOK, HandledOK, HeldCounted, AllSafe
<1>3. FailuresCounted
  <2>1. \A m \in Msgs, n \in 0 .. MaxRetries : <<m, n>> \in Copy
    BY DEF Copy
  <2> QED
    BY <2>1 DEF Init, EmptyBag, FailuresCounted
<1>4. AppliedOnce
  BY DEF Init, AppliedOnce
<1> QED
  BY <1>1, <1>2, <1>3, <1>4 DEF Inv

\* A published event arrives in the queues bound to it.
LEMMA PublishEventStep ==
    ASSUME Inv, NEW m \in Msgs, PublishEvent(m)
    PROVE  Inv'
<1> DEFINE x == <<m, 0>>
<1>a. TypeOK /\ x \in Copy
  BY RetryAssumptions DEF Inv, Copy
<1>b. /\ published' = published \cup {m}
      /\ main' = [q \in Queues |-> IF Key[m] \in EventBindings[q]
                                   THEN Add(main[q], x) ELSE main[q]]
      /\ UNCHANGED <<retry, dead, processed, applied, tries, pc, held, wire,
                     got, skewed, faults>>
  BY DEF PublishEvent, database, session
<1> HIDE DEF x
<1>c. ASSUME NEW q \in Queues
      PROVE  /\ main'[q] \in [Copy -> Nat]
             /\ Key[m] \in EventBindings[q] => main'[q][x] > 0
             /\ \A y \in Copy : main'[q][y] >= main[q][y]
             /\ \A y \in Copy \ {x} : main'[q][y] = main[q][y]
  <2>1. main[q] \in [Copy -> Nat] /\ \A y \in Copy : main[q][y] \in Nat
    BY <1>a DEF TypeOK
  <2>2. /\ Add(main[q], x) \in [Copy -> Nat]
        /\ Add(main[q], x)[x] = main[q][x] + 1
        /\ \A y \in Copy \ {x} : Add(main[q], x)[y] = main[q][y]
    BY <1>a, <2>1, AddBag
  <2>3. main'[q] = IF Key[m] \in EventBindings[q] THEN Add(main[q], x)
                   ELSE main[q]
    BY <1>b
  <2> QED
    BY <1>a, <2>1, <2>2, <2>3
<1>1. TypeOK'
  <2>1. main' \in [Queues -> [Copy -> Nat]]
    BY <1>b, <1>c
  <2> QED
    BY <1>a, <1>b, <2>1 DEF TypeOK
<1>2. HeldOK'
  BY <1>b DEF Inv, HeldOK
<1>3. HandledOK'
  BY <1>b DEF Inv, HandledOK
<1>4. HeldCounted'
  BY <1>b DEF Inv, HeldCounted
<1>5. FailuresCounted'
  <2>1. \A q \in Queues, n \in Msgs : tries[q][n] \in Nat
    BY <1>a, RetryAssumptions DEF TypeOK
  <2>2. x[1] = m /\ x[2] = 0
    BY DEF x
  <2>3. \A q \in Queues, y \in Copy :
            main'[q][y] + retry'[q][y] > 0 =>
               main[q][y] + retry[q][y] > 0 \/ tries[q][y[1]] >= y[2]
    BY <1>b, <1>c, <2>1, <2>2
  <2> QED
    BY <1>a, <1>1, <1>b, <2>1, <2>3, CountsKept DEF Inv
<1>6. AppliedOnce'
  BY <1>b DEF Inv, AppliedOnce
<1>7. AllSafe'
  <2> SUFFICES ASSUME NEW q \in Queues \ skewed, NEW n \in published',
                      Key[n] \in EventBindings[q]
               PROVE  Safe(q, n)'
    BY <1>b DEF AllSafe
  <2>1. CASE n = m
    BY <1>a, <1>c, <2>1 DEF Safe, Queued, x
  <2>2. CASE n # m
    <3>1. n \in Msgs /\ Safe(q, n)
      BY <1>a, <1>b, <2>2 DEF Inv, AllSafe, TypeOK
    <3>2. CASE Settled(q, n)
      BY <1>b, <3>2 DEF Safe, Settled
    <3>3. CASE Queued(q, n)
      <4>1. PICK y \in Copy : y[1] = n /\ (main[q][y] > 0 \/ retry[q][y] > 0)
        BY <3>3 DEF Queued
      <4>2. main[q][y] \in Nat /\ main'[q][y] \in Nat
            /\ main'[q][y] >= main[q][y]
        BY <1>a, <1>c DEF TypeOK
      <4>3. Queued(q, n)'
        BY <1>b, <4>1, <4>2 DEF Queued
      <4> QED
        BY <4>3 DEF Safe
    <3>4. ASSUME NEW d \in Consumers, QueueOf[d] = q, Keeps(d, n)
          PROVE  Safe(q, n)'
      BY <1>b, <3>4, KeeperStays DEF Safe
    <3> QED
      BY <3>1, <3>2, <3>3, <3>4 DEF Safe
  <2> QED
    BY <2>1, <2>2
<1> QED
  BY <1>1, <1>2, <1>3, <1>4, <1>5, <1>6, <1>7 DEF Inv

\* The broker hands the consumer a delivery.
LEMMA DeliverStep ==
    ASSUME Inv, NEW c \in Consumers, Deliver(c)
    PROVE  Inv'
<1> DEFINE q == QueueOf[c]
<1>a. TypeOK /\ q \in Queues
  BY RetryAssumptions DEF Inv
<1>p. PICK x \in Copy : /\ main[q][x] > 0
                        /\ main' = [main EXCEPT ![q] = Remove(@, x)]
                        /\ held' = [held EXCEPT ![c] = x]
  BY DEF Deliver
<1>b. /\ pc[c] = "idle"
      /\ pc' = [pc EXCEPT ![c] = "handling"]
      /\ UNCHANGED <<published, retry, dead, processed, applied, tries, wire,
                     got, skewed, faults>>
  BY DEF Deliver, database
<1>c. /\ held'[c] = x /\ pc'[c] = "handling"
      /\ \A d \in Consumers \ {c} : held'[d] = held[d] /\ pc'[d] = pc[d]
  BY <1>a, <1>b, <1>p DEF TypeOK
<1>d. x # None /\ x[1] \in Msgs /\ x[2] \in 0 .. MaxRetries
  BY CopyType, RetryAssumptions
<1> HIDE DEF q
<1>e. /\ main' \in [Queues -> [Copy -> Nat]]
      /\ \A p \in Queues, y \in Copy : main'[p][y] <= main[p][y]
      /\ \A p \in Queues, y \in Copy :
            main'[p][y] # main[p][y] => p = q /\ y = x
  <2>1. main \in [Queues -> [Copy -> Nat]] /\ main[q] \in [Copy -> Nat]
    BY <1>a DEF TypeOK
  <2>2. /\ Remove(main[q], x) \in [Copy -> Nat]
        /\ \A y \in Copy \ {x} : Remove(main[q], x)[y] = main[q][y]
        /\ Remove(main[q], x)[x] <= main[q][x]
    BY <1>p, <2>1, RemoveBag
  <2>3. /\ main' \in [Queues -> [Copy -> Nat]]
        /\ main'[q] = Remove(main[q], x)
        /\ \A p \in Queues \ {q} : main'[p] = main[p]
    BY <1>a, <1>p, <2>1, <2>2
  <2>4. \A p \in Queues, y \in Copy : main[p][y] \in Nat
    BY <2>1
  <2> QED
    BY <2>1, <2>2, <2>3, <2>4
<1>1. TypeOK'
  <2>1. /\ held' \in [Consumers -> Copy \cup {None}]
        /\ pc' \in [Consumers -> {"idle", "handling", "handled", "failed",
                                  "waiting"}]
    BY <1>a, <1>b, <1>p DEF TypeOK
  <2> QED
    BY <1>a, <1>b, <1>e, <2>1 DEF TypeOK
<1>2. HeldOK'
  BY <1>c, <1>d DEF Inv, HeldOK
<1>3. HandledOK'
  BY <1>b, <1>c DEF Inv, HandledOK
<1>4. HeldCounted'
  <2>1. tries[q][x[1]] >= x[2]
    <3>1. main[q][x] \in Nat /\ retry[q][x] \in Nat
      BY <1>a DEF TypeOK
    <3>2. main[q][<<x[1], x[2]>>] + retry[q][<<x[1], x[2]>>] > 0
      BY <1>p, <3>1, CopyType
    <3> QED
      BY <1>a, <1>d, <3>2 DEF Inv, FailuresCounted
  <2> QED
    BY <1>b, <1>c, <2>1 DEF Inv, HeldCounted, q
<1>5. FailuresCounted'
  <2>1. \A p \in Queues, y \in Copy : /\ main[p][y] \in Nat
                                       /\ main'[p][y] \in Nat
                                       /\ retry[p][y] \in Nat
    BY <1>a, <1>e DEF TypeOK
  <2>2. \A p \in Queues, m \in Msgs : tries[p][m] >= tries[p][m]
    BY <1>a, RetryAssumptions DEF TypeOK
  <2>3. \A p \in Queues, y \in Copy :
            main'[p][y] + retry'[p][y] > 0 => main[p][y] + retry[p][y] > 0
    BY <1>b, <1>e, <2>1
  <2> QED
    BY <1>a, <1>1, <1>b, <2>2, <2>3, CountsKept DEF Inv
<1>6. AppliedOnce'
  BY <1>b DEF Inv, AppliedOnce
<1>7. AllSafe'
  <2> SUFFICES ASSUME NEW p \in Queues \ skewed, NEW m \in published,
                      Key[m] \in EventBindings[p]
               PROVE  Safe(p, m)'
    BY <1>b DEF AllSafe
  <2>1. m \in Msgs /\ Safe(p, m)
    BY <1>a DEF Inv, AllSafe, TypeOK
  <2>2. CASE Settled(p, m)
    BY <1>b, <2>2 DEF Safe, Settled
  <2>3. CASE Queued(p, m)
    <3>1. PICK y \in Copy : y[1] = m /\ (main[p][y] > 0 \/ retry[p][y] > 0)
      BY <2>3 DEF Queued
    <3>2. CASE p = q /\ y = x
      BY <1>c, <1>d, <3>1, <3>2 DEF Safe, Keeps, q
    <3>3. CASE ~(p = q /\ y = x)
      <4>1. main'[p][y] = main[p][y]
        BY <1>e, <3>3
      <4>2. Queued(p, m)'
        BY <1>b, <3>1, <4>1 DEF Queued
      <4> QED
        BY <4>2 DEF Safe
    <3> QED
      BY <3>2, <3>3
  <2>4. ASSUME NEW d \in Consumers, QueueOf[d] = p, Keeps(d, m)
        PROVE  Safe(p, m)'
    <3>1. d # c
      BY <1>b, <2>4 DEF Keeps
    <3> QED
      BY <1>b, <1>c, <2>4, <3>1, KeeperStays DEF Safe
  <2> QED
    BY <2>1, <2>2, <2>3, <2>4 DEF Safe
<1> QED
  BY <1>1, <1>2, <1>3, <1>4, <1>5, <1>6, <1>7 DEF Inv

\* A handler that succeeds records the message as processed.
LEMMA HandleOKStep ==
    ASSUME Inv, NEW c \in Consumers, HandleOK(c)
    PROVE  Inv'
<1> DEFINE q == QueueOf[c]
           m == held[c][1]
<1>a. /\ TypeOK /\ pc[c] = "handling"
      /\ q \in Queues /\ m \in Msgs /\ held[c] # None
  BY HeldType DEF Inv, HandleOK
<1>b. /\ Commit(q, m)
      /\ pc' = [pc EXCEPT ![c] = "handled"]
      /\ UNCHANGED <<published, main, retry, dead, tries, held, wire, got,
                     skewed, faults>>
  BY DEF HandleOK, broker
<1>c. /\ pc'[c] = "handled"
      /\ \A d \in Consumers \ {c} : pc'[d] = pc[d]
  BY <1>a, <1>b DEF TypeOK
<1> HIDE DEF q, m
<1>d. /\ processed' \in [Queues -> SUBSET Msgs]
      /\ applied' \in [Queues -> [Msgs -> Nat]]
      /\ AppliedOnce'
      /\ \A p \in Queues : processed[p] \subseteq processed'[p]
      /\ m \in processed'[q]
  BY <1>a, <1>b, Committed DEF Inv
<1>1. TypeOK'
  <2>1. pc' \in [Consumers -> {"idle", "handling", "handled", "failed",
                                  "waiting"}]
    BY <1>a, <1>b DEF TypeOK
  <2> QED
    BY <1>a, <1>b, <1>d, <2>1 DEF TypeOK
<1>2. HeldOK'
  BY <1>a, <1>b, <1>c DEF Inv, HeldOK
<1>3. HandledOK'
  BY <1>b, <1>c, <1>d, RetryAssumptions DEF Inv, HandledOK, q, m
<1>4. HeldCounted'
  BY <1>b, <1>c DEF Inv, HeldCounted
<1>5. FailuresCounted'
  BY <1>b DEF Inv, FailuresCounted
<1>6. AppliedOnce'
  BY <1>d
<1>7. AllSafe'
  <2> SUFFICES ASSUME NEW p \in Queues \ skewed, NEW n \in published,
                      Key[n] \in EventBindings[p]
               PROVE  Safe(p, n)'
    BY <1>b DEF AllSafe
  <2>1. n \in Msgs /\ Safe(p, n)
    BY <1>a DEF Inv, AllSafe, TypeOK
  <2>2. ASSUME NEW d \in Consumers \ {c}, QueueOf[d] = p, Keeps(d, n)
        PROVE  Safe(p, n)'
    BY <1>b, <1>c, <2>2, KeeperStays DEF Safe
  <2>3. ASSUME QueueOf[c] = p, Keeps(c, n)
        PROVE  Safe(p, n)'
    BY <1>d, <2>3 DEF Safe, Settled, Keeps, q, m
  <2> QED
    BY <1>b, <1>d, <2>1, <2>2, <2>3, SafeStays
<1> QED
  BY <1>1, <1>2, <1>3, <1>4, <1>5, <1>6, <1>7 DEF Inv

\* A handler returns an error, its transaction committed or not.
LEMMA HandleErrorStep ==
    ASSUME Inv, NEW c \in Consumers, HandleError(c)
    PROVE  Inv'
<1> DEFINE q == QueueOf[c]
           m == held[c][1]
           once == IF tries[q][m] > MaxRetries THEN tries[q][m]
                   ELSE tries[q][m] + 1
<1>a. /\ TypeOK /\ pc[c] = "handling"
      /\ q \in Queues /\ m \in Msgs /\ held[c] # None
      /\ held[c][2] \in 0 .. MaxRetries
  BY HeldType DEF Inv, HandleError
<1>b. /\ Commit(q, m) \/ UNCHANGED <<processed, applied>>
      /\ tries' = [tries EXCEPT ![q][m] = once]
      /\ pc' = [pc EXCEPT ![c] = "failed"]
      /\ UNCHANGED <<published, main, retry, dead, held, wire, got, skewed,
                     faults>>
  BY <1>a DEF HandleError, broker, TypeOK
<1>c. /\ pc'[c] = "failed"
      /\ \A d \in Consumers \ {c} : pc'[d] = pc[d]
  BY <1>a, <1>b DEF TypeOK
<1>d. /\ once \in 0 .. MaxRetries + 1
      /\ once >= tries[q][m]
      /\ once >= held[c][2] + 1
  <2>1. tries[q][m] \in 0 .. MaxRetries + 1
    BY <1>a DEF TypeOK
  <2>2. tries[q][m] >= held[c][2]
    BY <1>a DEF Inv, HeldCounted
  <2> QED
    BY <1>a, <2>1, <2>2, RetryAssumptions
<1> HIDE DEF q, m, once
<1>e. /\ tries' \in [Queues -> [Msgs -> 0 .. MaxRetries + 1]]
      /\ tries'[q][m] = once
      /\ \A p \in Queues, n \in Msgs : tries'[p][n] >= tries[p][n]
  <2>1. \A p \in Queues, n \in Msgs : tries[p][n] \in 0 .. MaxRetries + 1
    BY <1>a DEF TypeOK
  <2>2. /\ tries' \in [Queues -> [Msgs -> 0 .. MaxRetries + 1]]
        /\ tries'[q][m] = once
        /\ \A p \in Queues, n \in Msgs :
              tries'[p][n] = tries[p][n] \/ (p = q /\ n = m)
    BY <1>a, <1>b, <1>d DEF TypeOK
  <2> QED
    BY <1>d, <2>1, <2>2, RetryAssumptions
<1>f. /\ processed' \in [Queues -> SUBSET Msgs]
      /\ applied' \in [Queues -> [Msgs -> Nat]]
      /\ AppliedOnce'
      /\ \A p \in Queues : processed[p] \subseteq processed'[p]
  BY <1>a, <1>b, Committed DEF Inv
<1>1. TypeOK'
  <2>1. pc' \in [Consumers -> {"idle", "handling", "handled", "failed",
                                  "waiting"}]
    BY <1>a, <1>b DEF TypeOK
  <2> QED
    BY <1>a, <1>b, <1>e, <1>f, <2>1 DEF TypeOK
<1>2. HeldOK'
  BY <1>a, <1>b, <1>c DEF Inv, HeldOK
<1>3. HandledOK'
  BY <1>b, <1>c, <1>f, RetryAssumptions DEF Inv, HandledOK
<1>4. HeldCounted'
  <2> SUFFICES ASSUME NEW d \in Consumers, held[d] # None
               PROVE  /\ tries'[QueueOf[d]][held[d][1]] >= held[d][2]
                      /\ pc'[d] \in {"failed", "waiting"} =>
                            tries'[QueueOf[d]][held[d][1]] >= held[d][2] + 1
    BY <1>b DEF HeldCounted
  <2>1. /\ QueueOf[d] \in Queues
        /\ held[d][1] \in Msgs /\ held[d][2] \in 0 .. MaxRetries
    BY HeldType DEF Inv, HeldOK
  <2>2. /\ tries[QueueOf[d]][held[d][1]] \in Nat
        /\ tries'[QueueOf[d]][held[d][1]] \in Nat
        /\ tries'[QueueOf[d]][held[d][1]] >= tries[QueueOf[d]][held[d][1]]
    <3>1. \A p \in Queues, n \in Msgs :
              /\ tries[p][n] \in 0 .. MaxRetries + 1
              /\ tries'[p][n] \in 0 .. MaxRetries + 1
      BY <1>a, <1>e DEF TypeOK
    <3>2. \A i \in 0 .. MaxRetries + 1 : i \in Nat
      BY RetryAssumptions
    <3> QED
      BY <1>e, <2>1, <3>1, <3>2
  <2>3. /\ tries[QueueOf[d]][held[d][1]] >= held[d][2]
        /\ pc[d] \in {"failed", "waiting"} =>
              tries[QueueOf[d]][held[d][1]] >= held[d][2] + 1
    BY DEF Inv, HeldCounted
  <2>4. CASE d = c
    BY <1>a, <1>d, <1>e, <2>4, RetryAssumptions DEF q, m
  <2>5. CASE d # c
    BY <1>c, <2>1, <2>2, <2>3, <2>5, RetryAssumptions
  <2> QED
    BY <2>4, <2>5
<1>5. FailuresCounted'
  BY <1>a, <1>1, <1>b, <1>e, CountsKept DEF Inv
<1>6. AppliedOnce'
  BY <1>f
<1>7. AllSafe'
  <2> SUFFICES ASSUME NEW p \in Queues \ skewed, NEW n \in published,
                      Key[n] \in EventBindings[p]
               PROVE  Safe(p, n)'
    BY <1>b DEF AllSafe
  <2>1. n \in Msgs /\ Safe(p, n)
    BY <1>a DEF Inv, AllSafe, TypeOK
  <2>2. ASSUME NEW d \in Consumers \ {c}, QueueOf[d] = p, Keeps(d, n)
        PROVE  Safe(p, n)'
    BY <1>b, <1>c, <2>2, KeeperStays DEF Safe
  <2>3. ASSUME QueueOf[c] = p, Keeps(c, n)
        PROVE  Safe(p, n)'
    BY <1>b, <1>c, <2>3 DEF Safe, Keeps
  <2> QED
    BY <1>b, <1>f, <2>1, <2>2, <2>3, SafeStays
<1> QED
  BY <1>1, <1>2, <1>3, <1>4, <1>5, <1>6, <1>7 DEF Inv

\* A handled delivery is acknowledged.
LEMMA AckHandledStep ==
    ASSUME Inv, NEW c \in Consumers, AckHandled(c)
    PROVE  Inv'
<1>a. TypeOK /\ pc[c] = "handled"
  BY DEF Inv, AckHandled
<1>b. /\ held' = [held EXCEPT ![c] = None]
      /\ pc' = [pc EXCEPT ![c] = "idle"]
      /\ UNCHANGED <<published, main, retry, dead, processed, applied, tries,
                     wire, got, skewed, faults>>
  BY DEF AckHandled, Ack, database
<1>c. /\ pc'[c] = "idle" /\ held'[c] = None
      /\ \A d \in Consumers \ {c} : pc'[d] = pc[d] /\ held'[d] = held[d]
  BY <1>a, <1>b DEF TypeOK
<1>1. TypeOK'
  <2>1. /\ held' \in [Consumers -> Copy \cup {None}]
        /\ pc' \in [Consumers -> {"idle", "handling", "handled", "failed",
                                  "waiting"}]
    BY <1>a, <1>b DEF TypeOK
  <2> QED
    BY <1>a, <1>b, <2>1 DEF TypeOK
<1>2. HeldOK'
  BY <1>c DEF Inv, HeldOK
<1>3. HandledOK'
  BY <1>b, <1>c DEF Inv, HandledOK
<1>4. HeldCounted'
  BY <1>b, <1>c DEF Inv, HeldCounted
<1>5. FailuresCounted'
  BY <1>b DEF Inv, FailuresCounted
<1>6. AppliedOnce'
  BY <1>b DEF Inv, AppliedOnce
<1>7. AllSafe'
  <2> SUFFICES ASSUME NEW p \in Queues \ skewed, NEW n \in published,
                      Key[n] \in EventBindings[p]
               PROVE  Safe(p, n)'
    BY <1>b DEF AllSafe
  <2>1. n \in Msgs /\ Safe(p, n)
    BY <1>a DEF Inv, AllSafe, TypeOK
  <2>2. ASSUME NEW d \in Consumers \ {c}, QueueOf[d] = p, Keeps(d, n)
        PROVE  Safe(p, n)'
    BY <1>b, <1>c, <2>2, KeeperStays DEF Safe
  <2>3. ASSUME QueueOf[c] = p, Keeps(c, n)
        PROVE  Safe(p, n)'
    BY <1>a, <2>3 DEF Keeps
  <2> QED
    BY <1>b, <2>1, <2>2, <2>3, SafeStays
<1> QED
  BY <1>1, <1>2, <1>3, <1>4, <1>5, <1>6, <1>7 DEF Inv

\* A retry queue's TTL returns the copy to the main queue.
LEMMA ReturnFromRetryStep ==
    ASSUME Inv, NEW q \in Queues, ReturnFromRetry(q)
    PROVE  Inv'
<1>a. TypeOK
  BY DEF Inv
<1>p. PICK x \in Copy : /\ retry[q][x] > 0
                        /\ retry' = [retry EXCEPT ![q] = Remove(@, x)]
                        /\ main' = [main EXCEPT ![q] = Add(@, x)]
  BY DEF ReturnFromRetry
<1>b. UNCHANGED <<published, dead, processed, applied, tries, pc, held, wire,
                  got, skewed, faults>>
  BY DEF ReturnFromRetry, database, session
<1>c. /\ main' \in [Queues -> [Copy -> Nat]]
      /\ retry' \in [Queues -> [Copy -> Nat]]
      /\ main'[q][x] > 0
      /\ \A p \in Queues, y \in Copy :
            \/ main'[p][y] = main[p][y] /\ retry'[p][y] = retry[p][y]
            \/ p = q /\ y = x
  <2>1. /\ main \in [Queues -> [Copy -> Nat]] /\ main[q] \in [Copy -> Nat]
        /\ retry \in [Queues -> [Copy -> Nat]] /\ retry[q] \in [Copy -> Nat]
    BY <1>a DEF TypeOK
  <2>2. /\ Add(main[q], x) \in [Copy -> Nat]
        /\ Add(main[q], x)[x] = main[q][x] + 1
        /\ \A y \in Copy \ {x} : Add(main[q], x)[y] = main[q][y]
    BY <2>1, AddBag
  <2>3. /\ Remove(retry[q], x) \in [Copy -> Nat]
        /\ \A y \in Copy \ {x} : Remove(retry[q], x)[y] = retry[q][y]
    BY <1>p, <2>1, RemoveBag
  <2>4. /\ main' \in [Queues -> [Copy -> Nat]]
        /\ main'[q] = Add(main[q], x)
        /\ retry' \in [Queues -> [Copy -> Nat]]
        /\ retry'[q] = Remove(retry[q], x)
        /\ \A p \in Queues \ {q} : main'[p] = main[p] /\ retry'[p] = retry[p]
    BY <1>p, <2>1, <2>2, <2>3
  <2>5. main[q][x] \in Nat
    BY <2>1
  <2> QED
    BY <2>2, <2>3, <2>4, <2>5
<1>1. TypeOK'
  BY <1>a, <1>b, <1>c DEF TypeOK
<1>2. HeldOK'
  BY <1>b DEF Inv, HeldOK
<1>3. HandledOK'
  BY <1>b DEF Inv, HandledOK
<1>4. HeldCounted'
  BY <1>b DEF Inv, HeldCounted
<1>5. FailuresCounted'
  <2>1. main[q][x] \in Nat /\ retry[q][x] \in Nat
    BY <1>a DEF TypeOK
  <2>2. main[q][x] + retry[q][x] > 0
    BY <1>p, <2>1
  <2>3. \A p \in Queues, m \in Msgs : tries[p][m] >= tries[p][m]
    BY <1>a, RetryAssumptions DEF TypeOK
  <2>4. \A p \in Queues, y \in Copy :
            main'[p][y] + retry'[p][y] > 0 => main[p][y] + retry[p][y] > 0
    BY <1>c, <2>2
  <2> QED
    BY <1>a, <1>1, <1>b, <2>3, <2>4, CountsKept DEF Inv
<1>6. AppliedOnce'
  BY <1>b DEF Inv, AppliedOnce
<1>7. AllSafe'
  <2> SUFFICES ASSUME NEW p \in Queues \ skewed, NEW n \in published,
                      Key[n] \in EventBindings[p]
               PROVE  Safe(p, n)'
    BY <1>b DEF AllSafe
  <2>1. n \in Msgs /\ Safe(p, n)
    BY <1>a DEF Inv, AllSafe, TypeOK
  <2>2. ASSUME NEW d \in Consumers, QueueOf[d] = p, Keeps(d, n)
        PROVE  Safe(p, n)'
    BY <1>b, <2>2, KeeperStays DEF Safe
  <2>3. \A y \in Copy : main[p][y] > 0 \/ retry[p][y] > 0 =>
                         main'[p][y] > 0 \/ retry'[p][y] > 0
    BY <1>c
  <2> QED
    BY <1>b, <2>1, <2>2, <2>3, SafeStays
<1> QED
  BY <1>1, <1>2, <1>3, <1>4, <1>5, <1>6, <1>7 DEF Inv

\* A dead letter reaches the dead-letter queue of its own consumer alone.
LEMMA DeadLetterOwn ==
    ASSUME NEW q \in Queues, NEW p \in Queues, NEW m
    PROVE  deadLetterRoutingKey(q, m) \in deadLetterBindings(p) <=> p = q
BY DEF deadLetterRoutingKey, deadLetterBindings

\* A publish the broker takes puts the message into a retry queue, with a count
\* its failures justify, or into the dead-letter queue.
LEMMA Published ==
    ASSUME Inv, NEW c \in Consumers, pc[c] = "failed",
           NEW q, q = QueueOf[c], NEW x, x = held[c],
           IF DeliveryRetryCount(x) >= MaxRetries THEN publishDead(q, x[1])
           ELSE publishRetry(q, x[1], DeliveryRetryCount(x) + 1)
    PROVE  /\ retry' \in [Queues -> [Copy -> Nat]]
           /\ dead' \in [Queues -> [Msgs -> Nat]]
           /\ \/ \E y \in Copy : y[1] = x[1] /\ retry'[q][y] > 0
              \/ dead'[q][x[1]] > 0
           /\ \A p \in Queues, y \in Copy :
                 /\ retry[p][y] > 0 => retry'[p][y] > 0
                 /\ retry'[p][y] = retry[p][y] \/ tries[p][y[1]] >= y[2]
           /\ \A p \in Queues, n \in Msgs :
                 /\ dead[p][n] > 0 => dead'[p][n] > 0
                 /\ dead'[p][n] = dead[p][n] \/ tries[p][n] >= MaxRetries + 1
<1>a. /\ TypeOK /\ q \in Queues /\ x \in Copy
      /\ x[1] \in Msgs /\ x[2] \in 0 .. MaxRetries
  BY HeldType DEF Inv
<1>b. tries[q][x[1]] >= x[2] + 1
  BY HeldType DEF Inv, HeldCounted
<1>c. /\ retry \in [Queues -> [Copy -> Nat]]
      /\ dead \in [Queues -> [Msgs -> Nat]]
      /\ \A p \in Queues : retry[p] \in [Copy -> Nat] /\ dead[p] \in [Msgs -> Nat]
      /\ \A p \in Queues, y \in Copy : retry[p][y] \in Nat
      /\ \A p \in Queues, n \in Msgs : dead[p][n] \in Nat
  BY <1>a DEF TypeOK
<1>1. CASE x[2] >= MaxRetries
  <2>1. /\ dead' = [p \in Queues |-> IF p = q THEN Add(dead[p], x[1]) ELSE dead[p]]
        /\ retry' = retry
    BY <1>1, <1>a, DeadLetterOwn DEF DeliveryRetryCount, publishDead
  <2>2. /\ Add(dead[q], x[1]) \in [Msgs -> Nat]
        /\ Add(dead[q], x[1])[x[1]] = dead[q][x[1]] + 1
        /\ \A n \in Msgs \ {x[1]} : Add(dead[q], x[1])[n] = dead[q][n]
    <3>1. dead[q] \in [Msgs -> Nat]
      BY <1>a, <1>c
    <3> QED
      BY <1>a, <3>1, AddBag
  <2>3. /\ dead'[q] = Add(dead[q], x[1])
        /\ \A p \in Queues \ {q} : dead'[p] = dead[p]
    BY <1>a, <2>1
  <2>4. tries[q][x[1]] >= MaxRetries + 1
    BY <1>1, <1>a, <1>b, RetryAssumptions
  <2>5. dead' \in [Queues -> [Msgs -> Nat]]
    BY <1>a, <1>c, <2>1, <2>2
  <2> QED
    <3>1. dead[q][x[1]] \in Nat
      BY <1>a, <1>c
    <3>2. \A p \in Queues, n \in Msgs :
              /\ dead[p][n] > 0 => dead'[p][n] > 0
              /\ dead'[p][n] = dead[p][n] \/ (p = q /\ n = x[1])
      BY <2>2, <2>3, <3>1
    <3>3. dead'[q][x[1]] > 0
      BY <2>2, <2>3, <3>1
    <3>4. retry' \in [Queues -> [Copy -> Nat]]
      BY <1>c, <2>1
    <3> QED
      BY <2>1, <2>4, <2>5, <3>2, <3>3, <3>4
<1>2. CASE ~(x[2] >= MaxRetries)
  <2> DEFINE y == <<x[1], x[2] + 1>>
  <2>1. x[2] + 1 \in 1 .. MaxRetries
    BY <1>2, <1>a, RetryAssumptions
  <2>2. y \in Copy /\ y[1] = x[1] /\ y[2] = x[2] + 1
    BY <1>a, <2>1 DEF Copy
  <2>3. <<q, x[2] + 1>> \in retryBindings(q)
    <3>1. x[2] \in 0 .. Delays - 1
      BY <1>a, <2>1, RetryAssumptions, EnoughDelays
    <3> QED
      BY <3>1 DEF retryBindings
  <2>4. retry' = [retry EXCEPT ![q] = Add(retry[q], y)] /\ dead' = dead
    BY <1>2, <1>a, <1>c, <2>3 DEF DeliveryRetryCount, publishRetry
  <2> HIDE DEF y
  <2>5. /\ Add(retry[q], y) \in [Copy -> Nat]
        /\ Add(retry[q], y)[y] = retry[q][y] + 1
        /\ \A z \in Copy \ {y} : Add(retry[q], y)[z] = retry[q][z]
    <3>1. retry[q] \in [Copy -> Nat]
      BY <1>a, <1>c
    <3> QED
      BY <2>2, <3>1, AddBag
  <2>6. /\ retry' \in [Queues -> [Copy -> Nat]]
        /\ retry'[q] = Add(retry[q], y)
        /\ \A p \in Queues \ {q} : retry'[p] = retry[p]
    BY <1>a, <1>c, <2>4, <2>5
  <2>7. tries[q][y[1]] >= y[2]
    BY <1>b, <2>2
  <2>8. retry'[q][y] > 0
    BY <1>a, <1>c, <2>2, <2>5, <2>6
  <2> QED
    BY <1>a, <1>c, <2>2, <2>4, <2>5, <2>6, <2>7, <2>8
<1> QED
  BY <1>1, <1>2

\* The failed delivery's copy is published to its next queue.
LEMMA PublishFailedDeliveryStep ==
    ASSUME Inv, NEW c \in Consumers, PublishFailedDelivery(c)
    PROVE  Inv'
<1> DEFINE q == QueueOf[c]
           x == held[c]
<1>a. /\ TypeOK /\ pc[c] = "failed"
      /\ q \in Queues /\ x # None /\ x[1] \in Msgs
  BY HeldType DEF Inv, PublishFailedDelivery
<1>b. /\ pc' = [pc EXCEPT ![c] = "waiting"]
      /\ UNCHANGED <<published, main, processed, applied, tries, held, got,
                     skewed>>
  BY DEF PublishFailedDelivery, database
<1>c. /\ pc'[c] = "waiting"
      /\ \A d \in Consumers \ {c} : pc'[d] = pc[d]
  BY <1>a, <1>b DEF TypeOK
<1>d. \E b \in BOOLEAN :
        /\ wire' = [wire EXCEPT ![c] = Append(wire[c], b)]
        /\ b => IF DeliveryRetryCount(x) >= MaxRetries THEN publishDead(q, x[1])
                ELSE publishRetry(q, x[1], DeliveryRetryCount(x) + 1)
        /\ ~b => UNCHANGED <<retry, dead>>
        /\ faults' \in 0 .. MaxFaults
  <2>1. /\ faults \in 0 .. MaxFaults
        /\ wire \in [Consumers -> Seq(BOOLEAN)]
    BY <1>a DEF TypeOK
  <2>2. CASE /\ IF DeliveryRetryCount(x) >= MaxRetries
                THEN publishDead(q, x[1])
                ELSE publishRetry(q, x[1], DeliveryRetryCount(x) + 1)
             /\ wire' = [wire EXCEPT ![c] = Append(@, TRUE)]
             /\ UNCHANGED faults
    <3> WITNESS TRUE \in BOOLEAN
    <3> QED
      BY <2>1, <2>2
  <2>3. CASE /\ Fault
             /\ wire' = [wire EXCEPT ![c] = Append(@, FALSE)]
             /\ UNCHANGED <<retry, dead>>
    <3>1. faults' \in 0 .. MaxFaults
      BY <2>1, <2>3, RetryAssumptions DEF Fault
    <3> WITNESS FALSE \in BOOLEAN
    <3> QED
      BY <2>1, <2>3, <3>1
  <2> QED
    BY <2>2, <2>3 DEF PublishFailedDelivery
<1>e. PICK b \in BOOLEAN :
        /\ wire' = [wire EXCEPT ![c] = Append(wire[c], b)]
        /\ b => IF DeliveryRetryCount(x) >= MaxRetries THEN publishDead(q, x[1])
                ELSE publishRetry(q, x[1], DeliveryRetryCount(x) + 1)
        /\ ~b => UNCHANGED <<retry, dead>>
        /\ faults' \in 0 .. MaxFaults
  BY <1>d
<1>f. /\ retry' \in [Queues -> [Copy -> Nat]]
      /\ dead' \in [Queues -> [Msgs -> Nat]]
      /\ b => \/ \E y \in Copy : y[1] = x[1] /\ retry'[q][y] > 0
              \/ dead'[q][x[1]] > 0
      /\ \A p \in Queues, y \in Copy :
            /\ retry[p][y] > 0 => retry'[p][y] > 0
            /\ retry'[p][y] = retry[p][y] \/ tries[p][y[1]] >= y[2]
      /\ \A p \in Queues, n \in Msgs :
            /\ dead[p][n] > 0 => dead'[p][n] > 0
            /\ dead'[p][n] = dead[p][n] \/ tries[p][n] >= MaxRetries + 1
  <2>1. CASE b
    BY <1>a, <1>e, <2>1, Published
  <2>2. CASE ~b
    BY <1>a, <1>e, <2>2 DEF TypeOK
  <2> QED
    BY <2>1, <2>2
<1>g. /\ wire' \in [Consumers -> Seq(BOOLEAN)]
      /\ wire'[c] # <<>> /\ wire'[c][Len(wire'[c])] = b
      /\ \A d \in Consumers \ {c} : wire'[d] = wire[d]
  <2>1. wire \in [Consumers -> Seq(BOOLEAN)] /\ wire[c] \in Seq(BOOLEAN)
    BY <1>a DEF TypeOK
  <2>2. /\ Append(wire[c], b) \in Seq(BOOLEAN)
        /\ Append(wire[c], b) # <<>>
        /\ Append(wire[c], b)[Len(Append(wire[c], b))] = b
    BY <2>1, AppendProperties
  <2> QED
    BY <1>e, <2>1, <2>2
<1> HIDE DEF q, x
<1>1. TypeOK'
  <2>1. pc' \in [Consumers -> {"idle", "handling", "handled", "failed",
                                  "waiting"}]
    BY <1>a, <1>b DEF TypeOK
  <2> QED
    BY <1>a, <1>b, <1>e, <1>f, <1>g, <2>1 DEF TypeOK
<1>2. HeldOK'
  BY <1>a, <1>b, <1>c DEF Inv, HeldOK, x
<1>3. HandledOK'
  BY <1>b, <1>c DEF Inv, HandledOK
<1>4. HeldCounted'
  BY <1>a, <1>b, <1>c DEF Inv, HeldCounted
<1>5. FailuresCounted'
  <2>1. \A p \in Queues, n \in Msgs : tries'[p][n] >= tries[p][n]
    BY <1>a, <1>b, RetryAssumptions DEF TypeOK
  <2>2. \A p \in Queues, y \in Copy :
            main'[p][y] + retry'[p][y] > 0 =>
               main[p][y] + retry[p][y] > 0 \/ tries[p][y[1]] >= y[2]
    BY <1>b, <1>f
  <2>3. \A p \in Queues, n \in Msgs :
            dead'[p][n] > 0 =>
               dead[p][n] > 0 \/ tries[p][n] >= MaxRetries + 1
    BY <1>f
  <2> QED
    BY <1>a, <1>1, <2>1, <2>2, <2>3, CountsKept DEF Inv
<1>6. AppliedOnce'
  BY <1>b DEF Inv, AppliedOnce
<1>7. AllSafe'
  <2> SUFFICES ASSUME NEW p \in Queues \ skewed, NEW n \in published,
                      Key[n] \in EventBindings[p]
               PROVE  Safe(p, n)'
    BY <1>b DEF AllSafe
  <2>1. n \in Msgs /\ Safe(p, n)
    BY <1>a DEF Inv, AllSafe, TypeOK
  <2>2. ASSUME NEW d \in Consumers \ {c}, QueueOf[d] = p, Keeps(d, n)
        PROVE  Safe(p, n)'
    BY <1>b, <1>c, <1>g, <2>2, KeeperStays DEF Safe
  <2>3. ASSUME QueueOf[c] = p, Keeps(c, n)
        PROVE  Safe(p, n)'
    <3>1. p = q /\ n = x[1] /\ held'[c] = x
      BY <1>b, <2>3 DEF Keeps, q, x
    <3>2. CASE b
      BY <1>f, <3>1, <3>2 DEF Safe, Queued, Settled
    <3>3. CASE ~b
      <4>1. Keeps(c, n)'
        BY <1>a, <1>c, <1>g, <3>1, <3>3 DEF Keeps, LastConfirm
      <4> QED
        BY <2>3, <4>1 DEF Safe
    <3> QED
      BY <3>2, <3>3
  <2>4. \A y \in Copy : main[p][y] > 0 \/ retry[p][y] > 0 =>
                         main'[p][y] > 0 \/ retry'[p][y] > 0
    BY <1>b, <1>f
  <2>5. processed'[p] = processed[p] /\ (dead[p][n] > 0 => dead'[p][n] > 0)
    BY <1>b, <1>f, <2>1
  <2> QED
    BY <2>1, <2>2, <2>3, <2>4, <2>5, SafeStays
<1> QED
  BY <1>1, <1>2, <1>3, <1>4, <1>5, <1>6, <1>7 DEF Inv

\* The broker's confirm reaches the publisher.
LEMMA ReceiveConfirmStep ==
    ASSUME Inv, NEW c \in Consumers, ReceiveConfirm(c)
    PROVE  Inv'
<1> DEFINE w == wire[c]
           g == got[c]
<1>a. /\ TypeOK /\ w \in Seq(BOOLEAN) /\ g \in Seq(BOOLEAN)
      /\ w # <<>> /\ Len(g) <= ConfirmBuffer
  <2>1. w \in Seq(BOOLEAN) /\ g \in Seq(BOOLEAN)
    BY DEF Inv, TypeOK
  <2> QED
    BY <2>1, LenProperties, RetryAssumptions
       DEF Inv, ReceiveConfirm, ReaderBlocked
<1>b. /\ got' = [got EXCEPT ![c] = Append(g, Head(w))]
      /\ wire' = [wire EXCEPT ![c] = Tail(w)]
      /\ UNCHANGED <<published, main, retry, dead, processed, applied, tries, pc,
                     held, skewed, faults>>
  BY <1>a DEF ReceiveConfirm, broker, database, TypeOK
<1>c. /\ got'[c] = Append(g, Head(w)) /\ wire'[c] = Tail(w)
      /\ \A d \in Consumers \ {c} : got'[d] = got[d] /\ wire'[d] = wire[d]
  BY <1>a, <1>b DEF TypeOK
<1> HIDE DEF w, g
<1>d. /\ Tail(w) \in Seq(BOOLEAN) /\ Head(w) \in BOOLEAN
      /\ Append(g, Head(w)) \in Seq(BOOLEAN)
      /\ Len(Append(g, Head(w))) <= ConfirmBuffer + 1
  <2>1. Tail(w) \in Seq(BOOLEAN) /\ Head(w) \in BOOLEAN
    BY <1>a, HeadTailProperties
  <2>2. /\ Append(g, Head(w)) \in Seq(BOOLEAN)
        /\ Len(Append(g, Head(w))) = Len(g) + 1
    BY <1>a, <2>1, AppendProperties
  <2> QED
    BY <1>a, <2>1, <2>2, LenProperties, RetryAssumptions
<1>e. LastConfirm(c)' = LastConfirm(c)
  <2>1. LastConfirm(c) = w[Len(w)]
    BY <1>a DEF LastConfirm, w
  <2>2. Len(w) \in Nat /\ Len(w) # 0 /\ Len(g) \in Nat
    BY <1>a, LenProperties, EmptySeq
  <2>3. CASE Len(w) = 1
    <3>1. Tail(w) = <<>> /\ Head(w) = w[1]
      <4>1. Tail(w) \in Seq(BOOLEAN) /\ Len(Tail(w)) = 0
        BY <1>a, <2>3, HeadTailProperties
      <4>2. Tail(w) = <<>>
        BY <4>1, EmptySeq
      <4> QED
        BY <1>a, <4>2
    <3>2. Append(g, Head(w))[Len(Append(g, Head(w)))] = Head(w)
      BY <1>a, <1>d, AppendProperties
    <3> QED
      BY <1>c, <2>1, <2>3, <3>1, <3>2 DEF LastConfirm
  <2>4. CASE Len(w) # 1
    <3>1. Len(Tail(w)) = Len(w) - 1 /\ \A i \in 1 .. Len(Tail(w)) :
                                          Tail(w)[i] = w[i + 1]
      BY <1>a, HeadTailProperties
    <3>2. Tail(w) # <<>> /\ Tail(w)[Len(Tail(w))] = w[Len(w)]
      BY <2>2, <2>4, <3>1, EmptySeq
    <3> QED
      BY <1>c, <2>1, <3>2 DEF LastConfirm
  <2> QED
    BY <2>3, <2>4
<1>1. TypeOK'
  <2>1. got' \in [Consumers -> Seq(BOOLEAN)] /\ wire' \in [Consumers -> Seq(BOOLEAN)]
    BY <1>a, <1>b, <1>d DEF TypeOK
  <2>2. \A d \in Consumers : Len(got'[d]) <= ConfirmBuffer + 1
    BY <1>a, <1>c, <1>d DEF TypeOK
  <2> QED
    BY <1>a, <1>b, <2>1, <2>2 DEF TypeOK
<1>2. HeldOK'
  BY <1>b DEF Inv, HeldOK
<1>3. HandledOK'
  BY <1>b DEF Inv, HandledOK
<1>4. HeldCounted'
  BY <1>b DEF Inv, HeldCounted
<1>5. FailuresCounted'
  BY <1>b DEF Inv, FailuresCounted
<1>6. AppliedOnce'
  BY <1>b DEF Inv, AppliedOnce
<1>7. AllSafe'
  <2> SUFFICES ASSUME NEW p \in Queues \ skewed, NEW n \in published,
                      Key[n] \in EventBindings[p]
               PROVE  Safe(p, n)'
    BY <1>b DEF AllSafe
  <2>1. n \in Msgs /\ Safe(p, n)
    BY <1>a DEF Inv, AllSafe, TypeOK
  <2>2. ASSUME NEW d \in Consumers, QueueOf[d] = p, Keeps(d, n)
        PROVE  Keeps(d, n)'
    <3>1. CASE d = c
      BY <1>b, <1>e, <2>2, <3>1 DEF Keeps
    <3>2. CASE d # c
      BY <1>b, <1>c, <2>2, <3>2, KeeperStays
    <3> QED
      BY <3>1, <3>2
  <2>3. ASSUME NEW d \in Consumers, QueueOf[d] = p, Keeps(d, n)
        PROVE  Safe(p, n)'
    BY <2>2, <2>3 DEF Safe
  <2> QED
    BY <1>b, <2>1, <2>3, SafeStays
<1> QED
  BY <1>1, <1>2, <1>3, <1>4, <1>5, <1>6, <1>7 DEF Inv

\* A delivery that goes back to its queue endangers nothing, whatever becomes of
\* the confirms of its consumer.
LEMMA RequeueStep ==
    ASSUME Inv, NEW c \in Consumers, pc[c] # "idle", NackRequeue(c),
           wire' \in [Consumers -> Seq(BOOLEAN)],
           got' \in [Consumers -> Seq(BOOLEAN)],
           \A d \in Consumers : Len(got'[d]) <= ConfirmBuffer + 1,
           \A d \in Consumers \ {c} : wire'[d] = wire[d] /\ got'[d] = got[d],
           skewed \subseteq skewed', skewed' \in SUBSET Queues,
           faults' \in 0 .. MaxFaults,
           UNCHANGED <<published, retry, dead, processed, applied, tries>>
    PROVE  Inv'
<1> DEFINE q == QueueOf[c]
           x == held[c]
<1>a. /\ TypeOK /\ q \in Queues /\ x \in Copy /\ x # None
      /\ x[1] \in Msgs /\ x[2] \in 0 .. MaxRetries
  BY HeldType DEF Inv
<1>b. /\ main' \in [Queues -> [Copy -> Nat]]
      /\ main'[q][x] > 0
      /\ \A p \in Queues, y \in Copy : main'[p][y] >= main[p][y]
      /\ \A p \in Queues, y \in Copy :
            main'[p][y] # main[p][y] => p = q /\ y = x
      /\ held' = [held EXCEPT ![c] = None]
      /\ pc' = [pc EXCEPT ![c] = "idle"]
  BY Requeued DEF Inv
<1>c. /\ pc'[c] = "idle" /\ held'[c] = None
      /\ \A d \in Consumers \ {c} : pc'[d] = pc[d] /\ held'[d] = held[d]
  BY <1>a, <1>b DEF TypeOK
<1>d. tries[q][x[1]] >= x[2]
  BY <1>a DEF Inv, HeldCounted
<1> HIDE DEF q, x
<1>1. TypeOK'
  <2>1. /\ held' \in [Consumers -> Copy \cup {None}]
        /\ pc' \in [Consumers -> {"idle", "handling", "handled", "failed",
                                  "waiting"}]
    BY <1>a, <1>b DEF TypeOK
  <2> QED
    BY <1>a, <1>b, <2>1 DEF TypeOK
<1>2. HeldOK'
  BY <1>c DEF Inv, HeldOK
<1>3. HandledOK'
  BY <1>c DEF Inv, HandledOK
<1>4. HeldCounted'
  BY <1>c DEF Inv, HeldCounted
<1>5. FailuresCounted'
  <2>1. \A p \in Queues, m \in Msgs : tries'[p][m] >= tries[p][m]
    BY <1>a, RetryAssumptions DEF TypeOK
  <2>2. \A p \in Queues, y \in Copy :
            main'[p][y] + retry'[p][y] > 0 =>
               main[p][y] + retry[p][y] > 0 \/ tries[p][y[1]] >= y[2]
    BY <1>b, <1>d
  <2> QED
    BY <1>a, <1>1, <2>1, <2>2, CountsKept DEF Inv
<1>6. AppliedOnce'
  BY DEF Inv, AppliedOnce
<1>7. AllSafe'
  <2> SUFFICES ASSUME NEW p \in Queues \ skewed, NEW n \in published,
                      Key[n] \in EventBindings[p]
               PROVE  Safe(p, n)'
    BY DEF AllSafe
  <2>1. n \in Msgs /\ Safe(p, n)
    BY <1>a DEF Inv, AllSafe, TypeOK
  <2>2. ASSUME NEW d \in Consumers \ {c}, QueueOf[d] = p, Keeps(d, n)
        PROVE  Safe(p, n)'
    BY <1>c, <2>2, KeeperStays DEF Safe
  <2>3. ASSUME QueueOf[c] = p, Keeps(c, n)
        PROVE  Safe(p, n)'
    BY <1>a, <1>b, <2>3 DEF Safe, Queued, Keeps, q, x
  <2>4. \A y \in Copy : main[p][y] > 0 \/ retry[p][y] > 0 =>
                         main'[p][y] > 0 \/ retry'[p][y] > 0
    <3>1. \A y \in Copy : main[p][y] \in Nat /\ main'[p][y] \in Nat
      BY <1>a, <1>b DEF TypeOK
    <3> QED
      BY <1>b, <3>1
  <2> QED
    BY <2>1, <2>2, <2>3, <2>4, SafeStays
<1> QED
  BY <1>1, <1>2, <1>3, <1>4, <1>5, <1>6, <1>7 DEF Inv

\* The publisher gives up waiting for the confirm.
LEMMA ConfirmTimeoutStep ==
    ASSUME Inv, NEW c \in Consumers, ConfirmTimeout(c)
    PROVE  Inv'
<1>1. /\ pc[c] # "idle" /\ NackRequeue(c)
      /\ UNCHANGED <<published, retry, dead, processed, applied, tries, wire,
                     got, skewed>>
  BY DEF ConfirmTimeout, database
<1>2. faults' \in 0 .. MaxFaults
  BY RetryAssumptions DEF Inv, TypeOK, ConfirmTimeout, Fault
<1> QED
  BY <1>1, <1>2, RequeueStep DEF Inv, TypeOK

\* A lost session puts unacknowledged deliveries back.
LEMMA LoseSessionStep ==
    ASSUME Inv, NEW c \in Consumers, LoseSession(c)
    PROVE  Inv'
<1>a. /\ TypeOK
      /\ wire' = [wire EXCEPT ![c] = <<>>]
      /\ got' = [got EXCEPT ![c] = <<>>]
      /\ UNCHANGED <<published, retry, dead, processed, applied, tries, skewed>>
  BY DEF Inv, LoseSession, database
<1>b. faults' \in 0 .. MaxFaults
  BY RetryAssumptions DEF Inv, TypeOK, LoseSession, Fault
<1>c. /\ wire' \in [Consumers -> Seq(BOOLEAN)]
      /\ got' \in [Consumers -> Seq(BOOLEAN)]
      /\ \A d \in Consumers : Len(got'[d]) <= ConfirmBuffer + 1
      /\ \A d \in Consumers \ {c} : wire'[d] = wire[d] /\ got'[d] = got[d]
  <2>1. <<>> \in Seq(BOOLEAN) /\ Len(<<>>) = 0
    BY EmptySeq
  <2>2. /\ wire' \in [Consumers -> Seq(BOOLEAN)]
        /\ got' \in [Consumers -> Seq(BOOLEAN)]
        /\ got'[c] = <<>>
        /\ \A d \in Consumers \ {c} : wire'[d] = wire[d] /\ got'[d] = got[d]
    BY <1>a, <2>1 DEF TypeOK
  <2> QED
    BY <1>a, <2>1, <2>2, RetryAssumptions DEF TypeOK
<1>d. CASE held[c] # None
  <2>1. pc[c] # "idle" /\ NackRequeue(c)
    BY <1>d DEF Inv, HeldOK, LoseSession
  <2> QED
    BY <1>a, <1>b, <1>c, <2>1, RequeueStep DEF Inv, TypeOK
<1>e. CASE held[c] = None
  <2>a. UNCHANGED <<main, held, pc>>
    BY <1>e DEF LoseSession
  <2>1. TypeOK'
    BY <1>a, <1>b, <1>c, <2>a DEF TypeOK
  <2>2. HeldOK' /\ HandledOK' /\ HeldCounted'
    BY <1>a, <2>a DEF Inv, HeldOK, HandledOK, HeldCounted
  <2>3. FailuresCounted' /\ AppliedOnce'
    BY <1>a, <2>a DEF Inv, FailuresCounted, AppliedOnce
  <2>4. AllSafe'
    <3> SUFFICES ASSUME NEW p \in Queues \ skewed, NEW n \in published,
                        Key[n] \in EventBindings[p]
                 PROVE  Safe(p, n)'
      BY <1>a DEF AllSafe
    <3>1. n \in Msgs /\ Safe(p, n)
      BY <1>a DEF Inv, AllSafe, TypeOK
    <3>2. ASSUME NEW d \in Consumers, QueueOf[d] = p, Keeps(d, n)
          PROVE  Safe(p, n)'
      <4>1. d # c
        BY <1>e, <3>2 DEF Keeps
      <4> QED
        BY <1>c, <2>a, <3>2, <4>1, KeeperStays DEF Safe
    <3> QED
      BY <1>a, <2>a, <3>1, <3>2, SafeStays
  <2> QED
    BY <2>1, <2>2, <2>3, <2>4 DEF Inv
<1> QED
  BY <1>d, <1>e

\* The publisher reads a confirm, its own or an earlier one.
LEMMA ReadConfirmStep ==
    ASSUME Inv, NEW c \in Consumers, ReadConfirm(c)
    PROVE  Inv'
<1> DEFINE q == QueueOf[c]
           g == got[c]
<1>a. /\ TypeOK /\ pc[c] = "waiting" /\ q \in Queues
      /\ g \in Seq(BOOLEAN) /\ g # <<>> /\ wire[c] \in Seq(BOOLEAN)
  BY RetryAssumptions DEF Inv, TypeOK, ReadConfirm
<1>b. /\ IF Head(g) THEN Ack(c) ELSE NackRequeue(c)
      /\ got' = [got EXCEPT ![c] = Tail(g)]
      /\ skewed' = IF Outstanding(c) > 1 THEN skewed \cup {q} ELSE skewed
      /\ UNCHANGED <<published, retry, dead, processed, applied, tries, wire,
                     faults>>
  BY <1>a DEF ReadConfirm, database, TypeOK
<1>c. /\ got' \in [Consumers -> Seq(BOOLEAN)]
      /\ \A d \in Consumers : Len(got'[d]) <= ConfirmBuffer + 1
      /\ \A d \in Consumers \ {c} : got'[d] = got[d]
  <2>1. Tail(g) \in Seq(BOOLEAN) /\ Len(Tail(g)) = Len(g) - 1 /\ Len(g) \in Nat
    BY <1>a, HeadTailProperties, LenProperties
  <2>2. Len(g) <= ConfirmBuffer + 1
    BY <1>a DEF TypeOK
  <2> HIDE DEF g
  <2>3. /\ got' \in [Consumers -> Seq(BOOLEAN)] /\ got'[c] = Tail(g)
        /\ \A d \in Consumers \ {c} : got'[d] = got[d]
    BY <1>a, <1>b, <2>1 DEF TypeOK
  <2> QED
    <3>1. Len(Tail(g)) <= ConfirmBuffer + 1
      BY <2>1, <2>2, RetryAssumptions
    <3>2. \A d \in Consumers \ {c} : Len(got[d]) <= ConfirmBuffer + 1
      BY <1>a DEF TypeOK
    <3> QED
      BY <2>3, <3>1, <3>2
<1>d. skewed \subseteq skewed' /\ skewed' \in SUBSET Queues
  BY <1>a, <1>b DEF TypeOK
\* The confirm read is the one of the last publish, unless q is skewed now.
<1>e. Outstanding(c) > 1 \/ LastConfirm(c) = Head(g)
  <2>1. Len(g) \in Nat \ {0} /\ Len(wire[c]) \in Nat
    BY <1>a, LenProperties, EmptySeq
  <2>2. CASE Len(wire[c]) # 0 \/ Len(g) # 1
    <3>1. Outstanding(c) = Len(wire[c]) + Len(g)
      BY DEF Outstanding
    <3>2. \A i \in Nat, j \in Nat \ {0} : i # 0 \/ j # 1 => i + j > 1
      OBVIOUS
    <3> QED
      BY <2>1, <2>2, <3>1, <3>2
  <2>3. CASE Len(wire[c]) = 0 /\ Len(g) = 1
    <3>1. wire[c] = <<>>
      BY <1>a, <2>3, EmptySeq
    <3> QED
      BY <1>a, <2>3, <3>1 DEF LastConfirm
  <2> QED
    BY <2>2, <2>3
<1>f. CASE ~Head(g)
  BY <1>a, <1>b, <1>c, <1>d, <1>f, RequeueStep DEF TypeOK
<1>g. CASE Head(g)
  <2>a. /\ held' = [held EXCEPT ![c] = None]
        /\ pc' = [pc EXCEPT ![c] = "idle"]
        /\ main' = main
    BY <1>b, <1>g DEF Ack
  <2>b. /\ pc'[c] = "idle" /\ held'[c] = None
        /\ \A d \in Consumers \ {c} : pc'[d] = pc[d] /\ held'[d] = held[d]
    BY <1>a, <2>a DEF TypeOK
  <2>1. TypeOK'
    <3>1. /\ held' \in [Consumers -> Copy \cup {None}]
          /\ pc' \in [Consumers -> {"idle", "handling", "handled", "failed",
                                  "waiting"}]
      BY <1>a, <2>a DEF TypeOK
    <3> QED
      BY <1>a, <1>b, <1>c, <1>d, <2>a, <3>1 DEF TypeOK
  <2>2. HeldOK' /\ HandledOK' /\ HeldCounted'
    BY <1>b, <2>b DEF Inv, HeldOK, HandledOK, HeldCounted
  <2>3. FailuresCounted' /\ AppliedOnce'
    BY <1>b, <2>a DEF Inv, FailuresCounted, AppliedOnce
  <2>4. AllSafe'
    <3> SUFFICES ASSUME NEW p \in Queues \ skewed', NEW n \in published,
                        Key[n] \in EventBindings[p]
                 PROVE  Safe(p, n)'
      BY <1>b DEF AllSafe
    <3>1. n \in Msgs /\ Safe(p, n)
      BY <1>a, <1>d DEF Inv, AllSafe, TypeOK
    <3>2. ASSUME NEW d \in Consumers, QueueOf[d] = p, Keeps(d, n)
          PROVE  Safe(p, n)'
      <4>1. d # c
        BY <1>a, <1>b, <1>e, <1>g, <3>2 DEF Keeps
      <4> QED
        BY <1>b, <1>c, <2>b, <3>2, <4>1, KeeperStays DEF Safe
    <3> QED
      BY <1>b, <2>a, <3>1, <3>2, SafeStays
  <2> QED
    BY <2>1, <2>2, <2>3, <2>4 DEF Inv
<1> QED
  BY <1>f, <1>g

\* A stutter changes nothing.
LEMMA StutterStep ==
    ASSUME Inv, UNCHANGED vars
    PROVE  Inv'
<1>a. UNCHANGED <<published, main, retry, dead, processed, applied, tries, pc,
                  held, wire, got, skewed, faults>>
  BY DEF vars, broker, database, session
<1>1. TypeOK' /\ HeldOK' /\ HandledOK' /\ HeldCounted'
  BY <1>a DEF Inv, TypeOK, HeldOK, HandledOK, HeldCounted
<1>2. FailuresCounted' /\ AppliedOnce'
  BY <1>a DEF Inv, FailuresCounted, AppliedOnce
<1>3. AllSafe'
  BY <1>a DEF Inv, AllSafe, Safe, Settled, Queued, Keeps, LastConfirm
<1> QED
  BY <1>1, <1>2, <1>3 DEF Inv

\* Every step of broker and consumer keeps the invariant.
LEMMA NextStep ==
    ASSUME Inv, [Next]_vars
    PROVE  Inv'
<1>1. CASE Idle \/ UNCHANGED vars
  BY <1>1, StutterStep DEF Idle
<1>2. ASSUME NEW m \in Msgs, PublishEvent(m) PROVE Inv'
  BY <1>2, PublishEventStep
<1>3. ASSUME NEW q \in Queues, ReturnFromRetry(q) PROVE Inv'
  BY <1>3, ReturnFromRetryStep
<1>4. ASSUME NEW c \in Consumers, Run(c) PROVE Inv'
  BY <1>4, DeliverStep, HandleOKStep, HandleErrorStep, AckHandledStep,
     PublishFailedDeliveryStep, ReadConfirmStep DEF Run
<1>5. ASSUME NEW c \in Consumers,
             ReceiveConfirm(c) \/ ConfirmTimeout(c) \/ LoseSession(c)
      PROVE  Inv'
  BY <1>5, ReceiveConfirmStep, ConfirmTimeoutStep, LoseSessionStep
<1> QED
  BY <1>1, <1>2, <1>3, <1>4, <1>5 DEF Next

-----------------------------------------------------------------------------
(* The results.                                                            *)

\* The invariant of the retry machinery holds whatever fails.
THEOREM Invariance == Spec => []Inv
<1>1. Inv /\ [Next]_vars => Inv'
  BY NextStep
<1> QED
  BY InitInv, <1>1, PTL DEF Spec

\* Queues, tables and sessions always have their types; the reader never holds
\* more than one confirm the channel has no room for.
THEOREM TypeCorrect == Spec => []TypeOK
<1>1. Inv => TypeOK
  BY DEF Inv
<1> QED
  BY Invariance, <1>1, PTL

\* Whatever is requeued, retried or left over, the handler's change of a message
\* is committed at most once.
THEOREM EffectOnce == Spec => []AppliedOnce
<1>1. Inv => AppliedOnce
  BY DEF Inv
<1> QED
  BY Invariance, <1>1, PTL

\* Nobody's message is dead-lettered before its own consumer has failed on it
\* MaxConsumerRetries + 1 times.
THEOREM DeadLettersEarned == Spec => []FailuresCounted
<1>1. Inv => FailuresCounted
  BY DEF Inv
<1> QED
  BY Invariance, <1>1, PTL

\* For any consumers, retries and faults, a message can be lost only in a queue
\* one of whose consumers took a confirm for the wrong publish.
THEOREM LostOnlyByLateConfirm == Spec => []NothingLostInStep
<1>1. Inv => NothingLostInStep
  <2>1. ASSUME NEW q, NEW m, Safe(q, m) PROVE Circulates(q, m) \/ Settled(q, m)
    BY <2>1 DEF Safe, Queued, Keeps, Circulates
  <2> QED
    BY <2>1 DEF Inv, AllSafe, NothingLostInStep
<1> QED
  BY Invariance, <1>1, PTL

=============================================================================
