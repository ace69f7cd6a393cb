---------------------------- MODULE OutboxRelay ----------------------------
(***************************************************************************)
(* The outbox relay: internal/services/outboxrelay/relay.go, run by        *)
(* cmd/outbox-relay in two replicas.  A relay locks a batch of available   *)
(* rows (FOR UPDATE SKIP LOCKED), publishes them one by one, waiting for   *)
(* the broker's confirm, marks each row inside the same transaction, and   *)
(* commits the marks together.  The broker and the table can therefore     *)
(* disagree: a publish may reach the broker although its confirm is lost,  *)
(* and a crash or a failed COMMIT forgets every mark of the batch.         *)
(*                                                                         *)
(* Time is kept as the number of ticks a row still has to wait             *)
(* (available_at minus now).                                               *)
(***************************************************************************)
EXTENDS Integers, Sequences, FiniteSets, FiniteSetsExt

CONSTANTS
    Msgs,         \* ids of outbox rows
    Stamps,       \* values of created_at
    Relays,       \* relay processes
    BatchSize,    \* OUTBOX_RELAY_BATCH_SIZE
    MaxAttempts,  \* MaxOutboxPublishAttempts
    Backoffs,     \* outboxRetryBackoffs, in ticks
    MaxCrashes,   \* bound on crashes, failed commits and shutdowns
    MaxRequeues,  \* bound on operator requeues
    None

ASSUME RelayAssumptions ==
    /\ IsFiniteSet(Msgs)
    /\ Stamps \subseteq Nat
    /\ BatchSize \in Nat \ {0}
    /\ MaxAttempts \in Nat \ {0}
    /\ Backoffs \in Seq(Nat) /\ Backoffs # <<>>
    /\ MaxCrashes \in Nat
    /\ MaxRequeues \in Nat

Row == [status   : {"PENDING", "FAILED", "SENT", "DEAD"},
        attempts : Nat,
        wait     : Nat,
        created  : Stamps]

ASSUME NoneIsNoRow == None \notin Row

VARIABLES
    rows,        \* table outbox_messages, as committed
    held,        \* held[r]: the rows relay r's transaction has locked
    todo,        \* todo[r]: those it has still to publish
    dirty,       \* dirty[r][m]: r's uncommitted version of row m, or None
    copies,      \* copies[m]: how often the broker has accepted m
    unrecorded,  \* history: accepted publishes of m that no mark records
    crashes,
    requeues

vars == <<rows, held, todo, dirty, copies, unrecorded, crashes, requeues>>

-----------------------------------------------------------------------------

retryBackoff(attempts) ==
    IF attempts <= 0 THEN Backoffs[1]
    ELSE IF attempts > Len(Backoffs) THEN Backoffs[Len(Backoffs)]
    ELSE Backoffs[attempts]

\* Faulty variant: one attempt too many.
deadPastLimit(attempts) == attempts > MaxAttempts

shouldMarkOutboxDead(attempts) == attempts >= MaxAttempts

markPublishFailure(row) ==
    LET attempts == row.attempts + 1
    IN  IF shouldMarkOutboxDead(attempts)
        THEN [row EXCEPT !.status = "DEAD", !.attempts = attempts, !.wait = 0]
        ELSE [row EXCEPT !.status = "FAILED", !.attempts = attempts,
                         !.wait = retryBackoff(attempts)]

\* Faulty variant: the metrics label instead of the column value.
markSentLabel(row) == [row EXCEPT !.status = "sent"]

markSent(row) == [row EXCEPT !.status = "SENT"]

Clean == [m \in Msgs |-> None]

\* Faulty variant: the rows are not locked.
NotLocked(m) == m \in Msgs

SkipLocked(m) == \A r \in Relays : m \notin held[r]

\* Faulty variant: failed rows are not selected again.
OnlyPending(row) == row.status = "PENDING"

Publishable(row) == row.status \in {"PENDING", "FAILED"}

Available ==
    {m \in Msgs : /\ rows[m] # None
                  /\ Publishable(rows[m])
                  /\ rows[m].wait = 0
                  /\ SkipLocked(m)}

\* ORDER BY created_at, id LIMIT n; ids are random, so rows with one stamp
\* may come in any order.
OldestFirst(S, n) ==
    {B \in SUBSET S :
        /\ Cardinality(B) = IF Cardinality(S) < n THEN Cardinality(S) ELSE n
        /\ \A m \in B, o \in S \ B : rows[m].created <= rows[o].created}

-----------------------------------------------------------------------------

\* A business transaction commits a new row; its stamp was read earlier, so
\* an older one may appear after a younger one.
Insert(m) ==
    /\ rows[m] = None
    /\ \E s \in Stamps :
        rows' = [rows EXCEPT ![m] = [status |-> "PENDING", attempts |-> 0,
                                     wait |-> 0, created |-> s]]
    /\ UNCHANGED <<held, todo, dirty, copies, unrecorded, crashes, requeues>>

selectAvailable(r) ==
    /\ held[r] = {}
    /\ Available # {}
    /\ \E B \in OldestFirst(Available, BatchSize) :
        /\ held' = [held EXCEPT ![r] = B]
        /\ todo' = [todo EXCEPT ![r] = B]
    /\ UNCHANGED <<rows, dirty, copies, unrecorded, crashes, requeues>>

\* The row whose turn it is in r's batch.
Turn(r) == OldestFirst(todo[r], 1)

\* The broker confirms: the row is marked sent and the batch goes on.
PublishAcked(r) ==
    \E m \in todo[r] :
        /\ {m} \in Turn(r)
        /\ copies' = [copies EXCEPT ![m] = @ + 1]
        /\ dirty' = [dirty EXCEPT ![r][m] = markSent(rows[m])]
        /\ todo' = [todo EXCEPT ![r] = @ \ {m}]
        /\ UNCHANGED <<rows, held, unrecorded, crashes, requeues>>

\* A nack, a closed channel, a confirm timeout or an envelope that cannot be
\* built: the row is marked failed or dead and the batch stops there.  The
\* broker may have accepted the message all the same.
PublishFailed(r) ==
    \E m \in todo[r], accepted \in {0, 1} :
        /\ {m} \in Turn(r)
        /\ copies' = [copies EXCEPT ![m] = @ + accepted]
        /\ unrecorded' = [unrecorded EXCEPT ![m] = @ + accepted]
        /\ dirty' = [dirty EXCEPT ![r][m] = markPublishFailure(rows[m])]
        /\ todo' = [todo EXCEPT ![r] = {}]
        /\ UNCHANGED <<rows, held, crashes, requeues>>

\* withBatch commits the marks also when the batch stopped at a failure.
CommitBatch(r) ==
    /\ held[r] # {}
    /\ todo[r] = {}
    /\ rows' = [m \in Msgs |-> IF dirty[r][m] = None THEN rows[m]
                                                     ELSE dirty[r][m]]
    /\ held' = [held EXCEPT ![r] = {}]
    /\ dirty' = [dirty EXCEPT ![r] = Clean]
    /\ UNCHANGED <<todo, copies, unrecorded, crashes, requeues>>

MarkedSent(r, m) == dirty[r][m] # None /\ dirty[r][m].status = "SENT"

\* A crash, a shutdown (the context is canceled, so COMMIT fails too) or a
\* lost connection: PostgreSQL rolls the batch back, attempts included.
Crash(r) ==
    /\ held[r] # {}
    /\ crashes < MaxCrashes
    /\ crashes' = crashes + 1
    /\ unrecorded' = [m \in Msgs |->
            IF MarkedSent(r, m) THEN unrecorded[m] + 1 ELSE unrecorded[m]]
    /\ held' = [held EXCEPT ![r] = {}]
    /\ todo' = [todo EXCEPT ![r] = {}]
    /\ dirty' = [dirty EXCEPT ![r] = Clean]
    /\ UNCHANGED <<rows, copies, requeues>>

\* scripts/requeue-dead-outbox.sh --apply, with or without --reset-attempts.
RequeueDead(m) ==
    /\ requeues < MaxRequeues
    /\ rows[m] # None
    /\ rows[m].status = "DEAD"
    /\ SkipLocked(m)
    /\ requeues' = requeues + 1
    /\ \E attempts \in {0, rows[m].attempts} :
        rows' = [rows EXCEPT ![m].status = "FAILED",
                             ![m].attempts = attempts, ![m].wait = 0]
    /\ UNCHANGED <<held, todo, dirty, copies, unrecorded, crashes>>

Waiting(m) == rows[m] # None /\ rows[m].wait > 0

Tick ==
    /\ \E m \in Msgs : Waiting(m)
    /\ rows' = [m \in Msgs |-> IF Waiting(m)
                               THEN [rows[m] EXCEPT !.wait = @ - 1]
                               ELSE rows[m]]
    /\ UNCHANGED <<held, todo, dirty, copies, unrecorded, crashes, requeues>>

-----------------------------------------------------------------------------

Init ==
    /\ rows = [m \in Msgs |-> None]
    /\ held = [r \in Relays |-> {}]
    /\ todo = [r \in Relays |-> {}]
    /\ dirty = [r \in Relays |-> Clean]
    /\ copies = [m \in Msgs |-> 0]
    /\ unrecorded = [m \in Msgs |-> 0]
    /\ crashes = 0
    /\ requeues = 0

RelayStep(r) ==
    \/ selectAvailable(r)
    \/ PublishAcked(r)
    \/ PublishFailed(r)
    \/ CommitBatch(r)

Resolved(m) == rows[m] # None /\ rows[m].status \in {"SENT", "DEAD"}

\* Every row has been sent or given up; a relay then only polls.
Polling ==
    /\ \A m \in Msgs : Resolved(m)
    /\ UNCHANGED vars

Next ==
    \/ Tick
    \/ Polling
    \/ \E m \in Msgs : Insert(m) \/ RequeueDead(m)
    \/ \E r \in Relays : RelayStep(r) \/ Crash(r)

Spec == Init /\ [][Next]_vars

\* A relay's loop polls for ever and each of its steps ends (a publish by the
\* confirm timeout at the latest); time passes.  Crashes are not fair, and
\* bounded: a relay that always crashes before COMMIT sends nothing.
Fairness ==
    /\ WF_vars(Tick)
    /\ \A r \in Relays : WF_vars(RelayStep(r))

FairSpec == Spec /\ Fairness

-----------------------------------------------------------------------------
(* Properties.                                                             *)

\* Types of the table and of the relays' transactions.
TypeOK ==
    /\ rows \in [Msgs -> Row \cup {None}]
    /\ held \in [Relays -> SUBSET Msgs]
    /\ todo \in [Relays -> SUBSET Msgs]
    /\ dirty \in [Relays -> [Msgs -> Row \cup {None}]]
    /\ copies \in [Msgs -> Nat]
    /\ unrecorded \in [Msgs -> Nat]
    /\ crashes \in 0 .. MaxCrashes
    /\ requeues \in 0 .. MaxRequeues

\* Every copy the broker accepted is either the one a SENT mark records or
\* one whose confirm or mark was lost.  So a row that is SENT was published,
\* and relays that neither crash nor miss a confirm publish each row once,
\* however their batches interleave.
EveryCopyAccountedFor ==
    \A m \in Msgs :
        copies[m] = unrecorded[m] +
            IF \/ rows[m] # None /\ rows[m].status = "SENT"
               \/ \E r \in Relays : MarkedSent(r, m)
            THEN 1 ELSE 0

\* A row is given up exactly when its attempts are used up: before an
\* operator steps in, DEAD means the last allowed attempt failed, and no row
\* that may still be published has used them all.
DeadAtLimit ==
    requeues = 0 => \A m \in Msgs : rows[m] # None =>
        /\ rows[m].attempts <= MaxAttempts
        /\ (rows[m].attempts = MaxAttempts) <=> (rows[m].status = "DEAD")

\* A sent row is final: no relay, whatever it read before, fails it, kills it
\* or puts it back.
SentIsFinal ==
    [][\A m \in Msgs :
          rows[m] # None /\ rows[m].status = "SENT" => rows'[m] = rows[m]]_vars

\* No row stays behind: a failing one does not hold up the others, and a
\* crashed relay's rows are picked up again.
EventuallyResolved ==
    \A m \in Msgs : rows[m] # None ~> Resolved(m)

=============================================================================
