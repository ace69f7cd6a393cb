--------------------------- MODULE ConsumerRetry ---------------------------
(***************************************************************************)
(* The consumers of the event exchange and their retry queues:             *)
(* internal/platform/messaging/rabbitmq.go with the consumer loops of the  *)
(* feed projection and of the notification worker.                         *)
(*                                                                         *)
(* Each consumer queue has one retry queue per attempt, whose TTL returns  *)
(* a message to the consumer queue, and a dead-letter queue.  A delivery   *)
(* whose handler fails is published again, to the next retry queue or to   *)
(* the dead-letter queue, and is acked once a publisher confirm says yes;  *)
(* otherwise it is nacked and requeued.                                    *)
(*                                                                         *)
(* A copy of a message is a pair of the message and its retry count        *)
(* header.  Queues are bags: nothing below depends on their order, and a   *)
(* prefetched delivery nobody has looked at is like one still queued.      *)
(* Broker and AMQP library are modelled from how the code uses them.       *)
(***************************************************************************)
EXTENDS Integers, Sequences

CONSTANTS
    Queues,         \* the keys of retryPolicies
    Consumers,      \* consumer sessions, one per replica
    QueueOf,        \* QueueOf[c]: the queue c consumes
    Msgs,           \* envelopes, by message id
    Key,            \* Key[m]: the routing key
    EventBindings,  \* EventBindings[q]: the routing keys its patterns match
    MaxRetries,     \* MaxConsumerRetries
    Delays,         \* the number of consumerRetryDelays
    ConfirmBuffer,  \* capacity of the channel given to NotifyPublish
    MaxFaults,      \* bound on confirm timeouts, publishes the broker refuses
                    \* and lost sessions, taken together
    None

Copy == Msgs \X (0 .. MaxRetries)

ASSUME RetryAssumptions ==
    /\ QueueOf \in [Consumers -> Queues]
    /\ MaxRetries \in Nat /\ Delays \in Nat /\ ConfirmBuffer \in Nat
    /\ MaxFaults \in Nat
    /\ None \notin Copy

\* One delay for each retry.
ASSUME EnoughDelays == MaxRetries <= Delays

VARIABLES
    published,  \* messages the relay has published
    main,       \* main[q][x]: how many copies x the consumer queue holds
    retry,      \* retry[q][x]: copies in q's retry queue number x[2]
    dead,       \* dead[q][m]: copies of m in q's dead-letter queue
    processed,  \* processed[q]: the processed-messages table of q's consumer
    applied,    \* applied[q][m]: how often the handler's change was committed
    tries,      \* history: failed handlings of m by q, up to MaxRetries + 1
    pc,         \* where each consumer loop is
    held,       \* held[c]: the delivery it handles, unacked
    wire,       \* wire[c]: confirms of its publishes, not yet received
    got,        \* got[c]: confirms received and not yet read
    skewed,     \* history: queues where a confirm answered the wrong publish
    faults      \* how many faults there were

broker == <<main, retry, dead>>
database == <<processed, applied, tries>>
session == <<pc, held, wire, got>>
vars == <<published, broker, database, session, skewed, faults>>

-----------------------------------------------------------------------------
(* Topology.                                                               *)

Add(bag, x) == [bag EXCEPT ![x] = @ + 1]

Remove(bag, x) == [bag EXCEPT ![x] = @ - 1]

\* Faulty variant: queues are bound by the index, not by the attempt.
retryBindingsFromZero(q) == {<<q, i>> : i \in 0 .. Delays - 1}

\* declareConsumerTopology: the retry routing keys some queue is bound to.
retryBindings(q) == {<<q, i + 1>> : i \in 0 .. Delays - 1}

deadLetterBindings(q) ==
    {<<"dlq", q>>, <<"queue", q>>} \cup ({"event"} \X EventBindings[q])

\* Faulty variant: dead letters keep the key of their message.
originalKey(q, m) == <<"event", Key[m]>>

deadLetterRoutingKey(q, m) == <<"dlq", q>>

\* Faulty variant: the type of the header is not recognised.
countUnread(x) == 0

DeliveryRetryCount(x) == x[2]

\* Faulty variant: the claim is not looked at.
claimAlways(q, m) == m \in Msgs

claimMessage(q, m) == m \notin processed[q]

\* The AMQP reader hands a confirm to a full channel and waits: until somebody
\* reads it, no frame of the connection is received.
ReaderBlocked(c) == Len(got[c]) > ConfirmBuffer

Outstanding(c) == Len(wire[c]) + Len(got[c])

-----------------------------------------------------------------------------

\* The relay's publish to the topic exchange.
PublishEvent(m) ==
    /\ m \notin published
    /\ published' = published \cup {m}
    /\ main' = [q \in Queues |-> IF Key[m] \in EventBindings[q]
                                 THEN Add(main[q], <<m, 0>>) ELSE main[q]]
    /\ UNCHANGED <<retry, dead, database, session, skewed, faults>>

Deliver(c) ==
    LET q == QueueOf[c]
    IN  /\ pc[c] = "idle"
        /\ ~ReaderBlocked(c)
        /\ \E x \in Copy :
            /\ main[q][x] > 0
            /\ main' = [main EXCEPT ![q] = Remove(@, x)]
            /\ held' = [held EXCEPT ![c] = x]
        /\ pc' = [pc EXCEPT ![c] = "handling"]
        /\ UNCHANGED <<published, retry, dead, database, wire, got, skewed,
                       faults>>

\* The handler's transaction: claim of the message and change, or nothing.
Commit(q, m) ==
    IF claimMessage(q, m)
    THEN /\ processed' = [processed EXCEPT ![q] = @ \cup {m}]
         /\ applied' = [applied EXCEPT ![q] = Add(@, m)]
    ELSE UNCHANGED <<processed, applied>>

HandleOK(c) ==
    LET q == QueueOf[c]
        m == held[c][1]
    IN  /\ pc[c] = "handling"
        /\ Commit(q, m)
        /\ pc' = [pc EXCEPT ![c] = "handled"]
        /\ UNCHANGED <<published, broker, tries, held, wire, got, skewed,
                       faults>>

\* An error return, now or every time (a poison message).  The transaction may
\* have committed all the same, its answer lost.
HandleError(c) ==
    LET q == QueueOf[c]
        m == held[c][1]
    IN  /\ pc[c] = "handling"
        /\ \/ Commit(q, m)
           \/ UNCHANGED <<processed, applied>>
        /\ tries' = [tries EXCEPT ![q][m] = IF @ > MaxRetries THEN @ ELSE @ + 1]
        /\ pc' = [pc EXCEPT ![c] = "failed"]
        /\ UNCHANGED <<published, broker, held, wire, got, skewed, faults>>

\* delivery.Ack: the broker forgets the copy.
Ack(c) ==
    /\ held' = [held EXCEPT ![c] = None]
    /\ pc' = [pc EXCEPT ![c] = "idle"]
    /\ UNCHANGED main

\* delivery.Nack(false, true): back to the queue as it came.
NackRequeue(c) ==
    /\ main' = [main EXCEPT ![QueueOf[c]] = Add(@, held[c])]
    /\ held' = [held EXCEPT ![c] = None]
    /\ pc' = [pc EXCEPT ![c] = "idle"]

AckHandled(c) ==
    /\ pc[c] = "handled"
    /\ Ack(c)
    /\ UNCHANGED <<published, retry, dead, database, wire, got, skewed, faults>>

Fault == faults < MaxFaults /\ faults' = faults + 1

\* A message no queue is bound for is dropped, and confirmed.
publishRetry(q, m, next) ==
    /\ retry' = IF <<q, next>> \in retryBindings(q)
                THEN [retry EXCEPT ![q] = Add(@, <<m, next>>)] ELSE retry
    /\ UNCHANGED dead

publishDead(q, m) ==
    /\ dead' = [p \in Queues |->
                    IF deadLetterRoutingKey(q, m) \in deadLetterBindings(p)
                    THEN Add(dead[p], m) ELSE dead[p]]
    /\ UNCHANGED retry

PublishFailedDelivery(c) ==
    LET q == QueueOf[c]
        m == held[c][1]
        retryCount == DeliveryRetryCount(held[c])
    IN  /\ pc[c] = "failed"
        /\ \/ /\ IF retryCount >= MaxRetries THEN publishDead(q, m)
                 ELSE publishRetry(q, m, retryCount + 1)
              /\ wire' = [wire EXCEPT ![c] = Append(@, TRUE)]
              /\ UNCHANGED faults
           \/ /\ Fault
              /\ wire' = [wire EXCEPT ![c] = Append(@, FALSE)]
              /\ UNCHANGED <<retry, dead>>
        /\ pc' = [pc EXCEPT ![c] = "waiting"]
        /\ UNCHANGED <<published, main, database, held, got, skewed>>

ReceiveConfirm(c) ==
    /\ wire[c] # <<>>
    /\ ~ReaderBlocked(c)
    /\ got' = [got EXCEPT ![c] = Append(@, Head(wire[c]))]
    /\ wire' = [wire EXCEPT ![c] = Tail(@)]
    /\ UNCHANGED <<published, broker, database, pc, held, skewed, faults>>

\* publishWithConfirm takes the next confirm as the answer to its own publish,
\* whatever its delivery tag.
ReadConfirm(c) ==
    /\ pc[c] = "waiting"
    /\ got[c] # <<>>
    /\ IF Head(got[c]) THEN Ack(c) ELSE NackRequeue(c)
    /\ got' = [got EXCEPT ![c] = Tail(@)]
    /\ skewed' = IF Outstanding(c) > 1 THEN skewed \cup {QueueOf[c]} ELSE skewed
    /\ UNCHANGED <<published, retry, dead, database, wire, faults>>

ConfirmTimeout(c) ==
    /\ pc[c] = "waiting"
    /\ Fault
    /\ NackRequeue(c)
    /\ UNCHANGED <<published, retry, dead, database, wire, got, skewed>>

\* The TTL of the retry queue: its dead-letter exchange returns the copy.
ReturnFromRetry(q) ==
    /\ \E x \in Copy :
        /\ retry[q][x] > 0
        /\ retry' = [retry EXCEPT ![q] = Remove(@, x)]
        /\ main' = [main EXCEPT ![q] = Add(@, x)]
    /\ UNCHANGED <<published, dead, database, session, skewed, faults>>

\* The process or its connection dies, at any point; the loop reconnects with
\* a new channel and the broker requeues what was unacked.
LoseSession(c) ==
    /\ Fault
    /\ IF held[c] # None THEN NackRequeue(c) ELSE UNCHANGED <<main, held, pc>>
    /\ wire' = [wire EXCEPT ![c] = <<>>]
    /\ got' = [got EXCEPT ![c] = <<>>]
    /\ UNCHANGED <<published, retry, dead, database, skewed>>

-----------------------------------------------------------------------------

EmptyBag == [x \in Copy |-> 0]

Init ==
    /\ published = {}
    /\ main = [q \in Queues |-> EmptyBag]
    /\ retry = [q \in Queues |-> EmptyBag]
    /\ dead = [q \in Queues |-> [m \in Msgs |-> 0]]
    /\ processed = [q \in Queues |-> {}]
    /\ applied = [q \in Queues |-> [m \in Msgs |-> 0]]
    /\ tries = [q \in Queues |-> [m \in Msgs |-> 0]]
    /\ pc = [c \in Consumers |-> "idle"]
    /\ held = [c \in Consumers |-> None]
    /\ wire = [c \in Consumers |-> <<>>]
    /\ got = [c \in Consumers |-> <<>>]
    /\ skewed = {}
    /\ faults = 0

\* A consumer waits for deliveries.
Idle ==
    /\ \A c \in Consumers : pc[c] = "idle"
    /\ UNCHANGED vars

Run(c) ==
    \/ Deliver(c)
    \/ HandleOK(c)
    \/ HandleError(c)
    \/ AckHandled(c)
    \/ PublishFailedDelivery(c)
    \/ ReadConfirm(c)

Next ==
    \/ Idle
    \/ \E m \in Msgs : PublishEvent(m)
    \/ \E q \in Queues : ReturnFromRetry(q)
    \/ \E c \in Consumers : \/ Run(c)
                            \/ ReceiveConfirm(c)
                            \/ ConfirmTimeout(c)
                            \/ LoseSession(c)

Spec == Init /\ [][Next]_vars

\* The loop goes on whenever it can, handlers return, confirms arrive and TTLs
\* run out.  Faults owe nobody anything and are bounded.
Fairness ==
    /\ \A q \in Queues : WF_vars(ReturnFromRetry(q))
    /\ \A c \in Consumers : WF_vars(Run(c)) /\ WF_vars(ReceiveConfirm(c))

FairSpec == Spec /\ Fairness

-----------------------------------------------------------------------------
(* Properties.                                                             *)

\* Types of the queues, tables and sessions; no more confirms wait than the
\* channel and the reader can hold.
TypeOK ==
    /\ published \in SUBSET Msgs
    /\ main \in [Queues -> [Copy -> Nat]]
    /\ retry \in [Queues -> [Copy -> Nat]]
    /\ dead \in [Queues -> [Msgs -> Nat]]
    /\ processed \in [Queues -> SUBSET Msgs]
    /\ applied \in [Queues -> [Msgs -> Nat]]
    /\ tries \in [Queues -> [Msgs -> 0 .. MaxRetries + 1]]
    /\ pc \in [Consumers -> {"idle", "handling", "handled", "failed",
                             "waiting"}]
    /\ held \in [Consumers -> Copy \cup {None}]
    /\ wire \in [Consumers -> Seq(BOOLEAN)]
    /\ got \in [Consumers -> Seq(BOOLEAN)]
    /\ \A c \in Consumers : Len(got[c]) <= ConfirmBuffer + 1
    /\ skewed \in SUBSET Queues
    /\ faults \in 0 .. MaxFaults

Circulates(q, m) ==
    \/ \E x \in Copy : x[1] = m /\ (main[q][x] > 0 \/ retry[q][x] > 0)
    \/ \E c \in Consumers : QueueOf[c] = q /\ held[c] # None /\ held[c][1] = m

Settled(q, m) == m \in processed[q] \/ dead[q][m] > 0

\* At-least-once: every message published to a queue is still under way there,
\* or was processed, or is in the queue's dead-letter queue, whatever
\* deliveries fail, confirms come late and sessions die.
NothingLost ==
    \A q \in Queues : \A m \in published :
        Key[m] \in EventBindings[q] => Circulates(q, m) \/ Settled(q, m)

\* The one exception: a consumer that gave up waiting keeps its channel and
\* reads the late confirm as the answer to its next publish.  Where that has
\* not happened, not even refused publishes lose a message.
NothingLostInStep ==
    \A q \in Queues \ skewed : \A m \in published :
        Key[m] \in EventBindings[q] => Circulates(q, m) \/ Settled(q, m)

\* The handler's change is committed at most once for each message, however
\* many copies of it are handled: requeued, retried, and left over by a
\* timeout.  It is committed if and only if the message is recorded.
AppliedOnce ==
    \A q \in Queues, m \in Msgs :
        applied[q][m] = IF m \in processed[q] THEN 1 ELSE 0

\* A copy's retry count never runs ahead of the failures of its own consumer:
\* a message is dead-lettered for a queue only after that queue's handler has
\* failed on it MaxConsumerRetries + 1 times, and never on account of the
\* other consumer.
FailuresCounted ==
    \A q \in Queues, m \in Msgs :
        /\ \A n \in 0 .. MaxRetries :
              main[q][<<m, n>>] + retry[q][<<m, n>>] > 0 => tries[q][m] >= n
        /\ dead[q][m] > 0 => tries[q][m] = MaxRetries + 1

Stuck(q) == \A c \in Consumers : QueueOf[c] = q => ReaderBlocked(c)

\* No message goes round for ever: its last copy is processed or dead-lettered
\* in the end.  The exception are confirms of two publishes that had timed out:
\* they fill the channel of capacity one and the reader, and a consumer waiting
\* for deliveries then receives nothing more.
EventuallyOutOfCirculation ==
    \A q \in Queues, m \in Msgs :
        Circulates(q, m) ~> \/ ~Circulates(q, m) /\ Settled(q, m)
                            \/ Stuck(q)
                            \/ q \in skewed

=============================================================================
