# CityEvents in TLA+

TLA+ models of the CityEvents backend (Go services over PostgreSQL, RabbitMQ
and Redis), TLC configurations that check them on small instances, and TLAPS
proofs of the properties that matter most for instances of any size.

Paths below are relative to the repository (`src/`).

## The system

| Component | State it keeps | Operations | Hard because |
|---|---|---|---|
| event registration service (`internal/services/eventregistration`) | tables `events`, `event_registrations`, `outbox_messages`, `event_audit_events` | create, update, cancel an event; join, cancel a join; a manager's cancellation; status queries | several replicas; each request is a READ COMMITTED transaction serialised by the event's row lock, with its clock read *before* the lock |
| outbox relay (`internal/services/outboxrelay`, `cmd/outbox-relay`) | status, attempts and `available_at` of outbox rows | poll, publish with confirms, mark, commit; operator requeue | two relays; broker and table cannot commit together |
| messaging (`internal/platform/messaging`) | exchange, queues, retry queues (TTL), dead-letter queues | publish with confirm, republish a failed delivery | lost and late confirms, redelivery |
| feed projection (`internal/services/feedprojection`) | `feed_events`, `processed_messages` | apply an envelope once | at-least-once and reordered input, no versions |
| feed service (`internal/services/feed`) | Redis cache with a TTL | list, get | stale cache |
| notification worker (`internal/services/notification`) | notifications, deliveries with a lease | decide on an envelope; claim, send, mark | leases that expire during a send, attempts used up, crashes |
| auth service (`internal/services/auth`) | users, refresh sessions in families, revoked tokens, a cache of revocations, failed logins | register, login, refresh, logout, introspection, change role | rotation races with reuse detection; two stores for one revocation |
| media service and worker (`internal/services/media`) | table `media_assets`, objects in MinIO | create, mark uploaded, claim, process | claims without a lease; the object is written behind the service's back |
| gateway, rate limiter, token verification, configuration, metrics, health, frontend | (little or none) | | not protocol logic |

How they interact: the gateway calls the services over HTTP.  The services
introspect tokens at the auth service.  The registration service writes its
outbox in the same transaction as its tables; the relay moves outbox rows to a
RabbitMQ topic exchange; the feed worker and the notification worker consume
their own queues from it, each with retry queues and a dead-letter queue.

`PROJECT.json` lists every component with its status, and under `hazards` what
is hard to test in this code, line by line, with the properties that cover it.

## Modules

| Module | What it is |
|---|---|
| `EventRegistration` | the registration service on PostgreSQL |
| `SeatAllocation` | what that service promises: seats and a FIFO queue, one atomic step per request |
| `SeatRefinement` | the refinement mapping between the two |
| `EventRegistrationProofs` | TLAPS proofs about `EventRegistration`: its tables, its outbox and its audit log |
| `SeatRefinementProofs` | TLAPS proof that `EventRegistration` implements `SeatAllocation` |
| `OutboxRelay` | the relay processes over the outbox table |
| `OutboxRelayProofs` | TLAPS proofs about `OutboxRelay` |
| `NotificationDelivery` | the notification worker: one notification per message, deliveries under a lease |
| `NotificationDeliveryProofs` | TLAPS proofs about `NotificationDelivery` |
| `ConsumerRetry` | the consumer loops of both workers with retry queues, dead letters and publisher confirms |
| `ConsumerRetryProofs` | TLAPS proofs about `ConsumerRetry` |
| `FeedPipeline` | `EventRegistration` composed with the feed projection, the feed service and its cache |
| `FeedPipelineProofs` | TLAPS proofs about `FeedPipeline` |
| `AuthSessions` | refresh token families, logout, revoked access tokens, the login guard |
| `AuthSessionsProofs` | TLAPS proofs about `AuthSessions` |
| `MediaPipeline` | uploads from the presigned policy to READY or FAILED |
| `MediaPipelineProofs` | TLAPS proofs about `MediaPipeline` |
| `MC...` | instances for TLC, one for each module a run is about |

Definitions named *Faulty variant* in a comment are plausible bugs.  Each is
the mutant of some property: put in place of the definition that follows it,
TLC must find that property violated (`mutants` in `PROJECT.json`).

### EventRegistration

Variables `events`, `regs`, `outbox` and `audit` are the committed tables;
`regs[e]` is in insertion order, which the code itself never looks at.
`lock[e]` is the worker whose transaction holds the row lock of `e`.  Per
worker, `pc`, `req` and `snap` are the request in flight, its arguments with the
clock value read for it, and what its transaction has read so far.

A request takes four steps, because those are the moments other requests can
come between:

1. `Receive...`: HTTP handler and service layer: role check, validation, clock.
2. `selectEventForUpdate`: BEGIN and `SELECT ... FOR UPDATE` on the event row.
3. `readRegistrations`: the SELECTs over `event_registrations`.
4. the commit action, named after the repository method: decisions on what was
   read, all writes, outbox rows, audit record, COMMIT.

Writes go to the *current* tables while decisions use `snap`, so a transaction
that had read stale data would do harm; that it never has is a theorem
(`ReadsStayCurrent`), not an assumption.  In step 3 the SELECTs
of one transaction are one step: registration rows are written only under the
event's row lock, and `SnapshotsCurrent` states that nothing changes between the
read and the commit.  `Rollback` stands for every error return, lost connection
and crash before COMMIT.

Left out: text fields, JSON, identifiers' randomness (a fresh id is any unused
member of `Events`), `idempotency_key` (stored, never read) and the in-memory
repository used by unit tests.  The unique index on active registrations and
the CHECK on capacity are left out on purpose, to show the code does not rely
on them.  The roles are constants: a role changed between introspection and
commit is not modelled.

### SeatAllocation and SeatRefinement

The abstract state of an event is absent, open or closed, a number of places, a
set of seated users and a queue.  The mapping takes the queue from the
WAITLISTED rows by `waitlist_position`: a row's place is one more than the number
of waitlisted rows with a smaller position.  `Resize` records a design
decision of the code: places added by an organizer are not offered to the
queue, so a newcomer's `Take` may get one ahead of people who wait.

### OutboxRelay

`rows` is the table as committed.  A relay's transaction holds the rows it
locked (`held`), the ones it has yet to publish (`todo`) and its uncommitted
marks (`dirty`).  `copies` counts what the broker accepted and `unrecorded`, a
history variable, the accepted publishes whose confirm or whose mark was lost.
`PublishFailed` chooses whether the broker took the message all the same.
`Crash` is a crash, a shutdown or a failed COMMIT: all marks of the batch are
forgotten.  Rows may be inserted with any stamp, since business transactions
read `created_at` before they wait for a row lock.  Time is the number of ticks
a row still has to wait.

### NotificationDelivery

`processed`, `rows` and `log` are the tables `notification_processed_messages`,
`notifications` and `notification_deliveries`.  `claim[w]` is what `ProcessOne`
of replica `w` holds between `ClaimNextDelivery` and its mark; `mailed`, the only
variable the program does not have, is the set of attempts whose mail the server
took.  Claim, send and mark are separate steps, since the send runs outside any
transaction and the lease may run out meanwhile.  A replica's clock reading is
any value up to `MaxSkew` behind the true time, which covers a slow clock and a
reading that is old when it is used; a replica never reads its clock backwards.
`SKIP LOCKED` makes the claimed row any due row, not always the oldest.
`LoseClaim` is a crash, a shutdown or a mark that does not reach the database.
Left out: recipients, texts, the parse errors of a malformed message (those go
to the retry queues, see `ConsumerRetry`).

### ConsumerRetry

`main`, `retry` and `dead` are the queues of each consumer, as bags of copies; a
copy is a message with the value of its retry count header.  `retryBindings`
and `deadLetterBindings` say which routing keys reach a queue, so a publish to a
key nobody is bound to vanishes and is confirmed, as RabbitMQ does with a message
that is not mandatory.  `pc` and `held` are the loop of `Consumer.Run` and its
unacked delivery; `wire` and `got` are confirms still under way and confirms
in the Go channel of capacity one.  `HandleError` chooses whether the handler's
transaction committed all the same.  `PublishFailedDelivery` and `ReadConfirm`
are two steps, since between them lie the broker, the timeout and the AMQP
reader; `ReadConfirm` takes the head of the channel, as the code does, whatever
publish it answers.  Queue order is dropped on purpose: retries destroy it
anyway.  History variables: `tries`, `skewed` (queues where a confirm was read for
the wrong publish).

### FeedPipeline

Extends `EventRegistration`, whose steps it takes unchanged, with the tables
`feed_events` (`feed`) and `processed_messages` (`processed`), the detail entries of
Redis (`cache`) and reads in flight.  `HandleEnvelope(i)` applies the message at
place `i` of the outbox, any one and any number of times.  That is what relay and
retry queues may do: `OutboxRelay` and `ConsumerRetry` show at least once, and
their backoffs let any message be overtaken.  `inOrder`, a history variable, is
true while every message was first applied after the ones committed before it.
A read is a miss with its SELECT and, later, a `Set`; a hit changes nothing.

### AuthSessions

`rows` is `refresh_tokens`, with row locks in `lock`; an access token has the number
of the refresh token it was issued with, which is enough to revoke and
introspect it.  A refresh is: clock and new token (`Refresh`), the locking SELECT
with its decision (`refreshSessionForUpdate`), then either the rotation or the
family revocation.  The revocation is one UPDATE under READ COMMITTED: it has a
snapshot of the rows committed when it starts, and locks them one at a time in
any order, so a rotation that commits meanwhile adds a row it does not see, and
two revocations can wait for each other.  `Deadlocked` is PostgreSQL's cycle
detection.  `IsTokenRevoked` asks Redis and then PostgreSQL; Redis may lose any
entry and any mark.  The login guard's check and its count are two steps.
Histories: `ended` (families revoked without such a race), the field `late` of an
introspection (the token was logged out when it came in).

### MediaPipeline

`rows` is `media_assets`, `object` what MinIO holds under an asset's key and `open`
the policies that have not expired.  `MarkUploaded` and `ClaimNextUploaded` are a
locking SELECT and a commit each; `StatObject` and the mark are separate steps,
and the mark is an UPDATE by id that looks at no status.  `PostObject` is the
browser: any size the policy allows, any number of times.  `LoseClaim` is a crash
or a failed mark; the code has no lease here, so the asset stays PROCESSING, and
`lost` remembers it.  A presigned policy fixes the content type, so a type
mismatch cannot be reached and is left out.

## Runs

| Run | Shows | Bounds |
|---|---|---|
| `registration` | no overbooking, one active registration per user, nobody left on a canceled event, current reads, an outbox and audit log that match the tables, seats handed on, positions in arrival order; every behaviour implements `SeatAllocation` | 1 event, an organizer and 2 attendees (all may join), 2 workers, capacities 0 to 2, 1 clock value, 5 outbox and audit rows before requests stop |
| `registration_liveness` | `RequestsFinish` | 2 events, 2 users, 2 workers, 2 clock values, 3 outbox and audit rows before requests stop |
| `outbox_relay` | copies accounted for, attempt limit, SENT final, every row resolved | 2 rows, 2 stamps, 2 relays, batches of 2, 3 attempts with growing backoffs, 1 crash, 1 requeue |
| `notification_delivery` | `locked_until` fences off all claims but the last, SENT only if that attempt was mailed, records agree, SENT is final, nothing with an attempt left is forgotten | 1 message to notify about and 1 ignored, 2 replicas, lease 2, backoffs 1 and 2, 3 attempts, skew 1 |
| `consumer_retry` | no message lost unless a confirm was misread, each applied once, dead letters only after the consumer's own failures, every message out of circulation in the end | 2 messages, 2 queues of which one is consumed, 1 retry queue, confirm channel of 1, 2 faults |
| `feed_pipeline` | the feed agrees with the tables when messages were applied in order, duplicates or not; in any order the count is never too low; the cache catches up | 1 event, 2 users, 1 worker, capacities 1 and 2, 4 messages before requests stop, 1 reader |
| `auth_sessions` | one live token per family, revocation ends the family unless a rotation overtook it, logout ends access without Redis, every request ends | 1 user, 2 workers on 1 replica, 3 tokens, 2 clock values, 1 failed login allowed |
| `media_pipeline` | one worker per asset, statuses only move forward, READY was whole, uploads are processed unless their claim was lost | 2 assets, 2 users, 2 requests, 2 workers, sizes 0 to 3 with a limit of 2 |
| `publish_audited` (violation) | the README's publish flow lists an audit event; the code writes none | |
| `active_status_shown` (violation) | an active registration reported CANCELED | 2 clock values |
| `retry_loss` (violation) | a message acked on the confirm of another publish | as `consumer_retry` |
| `feed_converges` (violation) | a feed that disagrees with the tables for good | as `feed_pipeline`, without readers |

Why the bounds are enough to meet the interesting cases: overbooking, double
joins and lost promotions need two transactions and one contended event; a
waitlist needs capacity 1 and two more users, a reordered one needs a third
registration; requests received below the write bound still commit, so up to two
more transactions run past it.  Capacity 0 is there for validation to refuse.
The clock stands still in `registration` and moves in `registration_liveness` and
`active_status_shown`, where stamps and start times matter; the safety properties of
`registration` are proved for every clock.
A notification interacts with no other, so one is enough; three attempts let a
worker be two claims behind, and lease, backoffs and skew are such that takeover
after expiry, takeover after a failure, and a late mark after either all occur.
Time needs no bound of its own: `Tick` stops once no reading is before a
deadline, and each new deadline uses up an attempt.
`consumer_retry` needs two faults for each of its two exceptions: a timeout and a
refused publish misread a confirm, two timeouts fill the channel.  The second
queue is there to see dead letters cross over.  `feed_pipeline` needs a promotion
(capacity 1, two users) and a cancellation with two joins around it; the writers'
races are the business of `registration`, so one worker is enough.
`auth_sessions` needs a rotation and a revocation at once and two rows of one
family for a deadlock; one more clock value is past every expiry.
Attendees are symmetric, and so are workers; the properties of the runs that use
symmetry are safety properties.

### Fairness

`registration_liveness` assumes weak fairness of a worker's own steps (a Go
handler runs to its end) and strong fairness of the row lock: PostgreSQL queues
lock waiters, so a waiter is not passed over for ever.  Nothing is assumed of
users, and nothing makes a waiter give up.  `outbox_relay` assumes that a relay
polls for ever and that each step ends (a publish by its ten second confirm
timeout), and that time passes.  Crashes are not fair and are bounded, since a
relay that always dies before COMMIT would never record anything.
`notification_delivery` assumes that the delivery loop polls for ever, that time
passes, and that a send ends.  The last is an assumption on the SMTP server:
`smtp.SendMail` has no deadline, which `PROJECT.json` lists as a hazard.  Lost
claims are neither fair nor bounded, each costs an attempt.  `EventuallySettled`
says that a notification becomes SENT or runs out of attempts; one whose last
claim is lost then stays PROCESSING, since `delivery_attempts < 5` guards the
query that would take it over.

`consumer_retry`: the loop goes on, handlers return (an
assumption on PostgreSQL, as their context has no deadline), confirms arrive and TTLs run out; faults are not fair and are bounded.
`feed_pipeline`: a read request ends, Redis lets entries expire; nothing is assumed
of the projection.  `auth_sessions`: strong fairness of each request's own steps,
for the same reason as above (lock waiters are queued), and of PostgreSQL's
failing a statement in a cycle; `Fail` in general is not fair.
`media_pipeline`: the worker polls for ever and its calls return, transactions of
the service end, and a claim is not rolled back for ever; lost claims are not
excluded.

### Findings

1. *No audit record on publish* (`publish_audited`).  README.md:124-127 lists an
   audit event among what the publishing transaction inserts;
   `PostgresRepository.CreateEvent` inserts none.
2. *Active registration shown as canceled* (`active_status_shown`).  A request
   reads its clock before it waits for the row lock; `latestStatusTx` picks the
   row with the greatest `updated_at`.  Let a user's join J2 read its clock at
   t0, then the user's earlier registration be canceled with stamp t1 > t0, then
   J2 get the lock and commit: the user holds a seat with stamp t0, while
   `GetJoinStatus` and the event detail answer CANCELED from the row stamped t1.

3. *Acked on a late confirm* (`retry_loss`).  README.md:224 claims at-least-once.
   A consumer that timed out waiting for a confirm keeps its channel, and
   `publishWithConfirm` reads the late confirm as the answer to its next publish.
   If the broker refuses that one, the delivery is acked all the same and is gone.
   `NothingLostInStep` shows this is the only way to lose a message.
4. *The feed need not converge* (`feed_converges`).  README.md:97 calls the feed
   eventually consistent.  `upsertEvent` compares no version: when a message is
   overtaken (its publish or its handling failed once), the older one is applied
   last and stays.  A canceled event can be shown as published for ever.
   `FeedConvergesInOrder` shows that order is all that is missing.

Two behaviours the properties name as exceptions, and no document denies: two late
confirms fill the consumer's confirm channel and its AMQP reader, and it receives
nothing more until its connection is reset (`Stuck` in
`EventuallyOutOfCirculation`); and a rotation that commits between snapshot and
commit of a family's revocation leaves a live token (`raced`, behind
`RevocationEndsFamily`).

## Proofs

All obligations are checked by TLAPS with SMT (Z3), Zenon and LS4.

`EventRegistrationProofs` proves, for any sets of events, users and workers, any
role assignment and any capacities, from `ConstantAssumptions` (types of the
constants, and that `None` is none of the values it is compared with) and
`NoneIsNoRow`: `TypeOK`, `CapacityRespected`, `OneActive`,
`WaitlistInArrivalOrder`, `CanceledEventEmpty`, `SnapshotsCurrent` and
`SeatsKeptWhileQueued`.  The argument:

- none of these is inductive alone.  `Inv` adds `RequestsWellFormed` (what kind
  of request a worker may hold at each point), `LocksHeld` (a worker past its
  lock step is the owner of the row lock of its request's event) and `TablesOK`;
- `LocksHeld` makes two workers past the lock on one event the same worker, so a
  commit disturbs no other worker's snapshot: `SnapshotsCurrent` is preserved;
- with current snapshots, each commit is a change from one well-formed table to
  another.  `TablesOK` states per event that positions are bounded by the
  highest one, waitlisted rows are in arrival order, a user has at most one
  active row, confirmed rows fit the capacity, and an event that is not published
  has no active row.  Lemmas about rows (append, cancel, cancel and promote,
  cancel all) say that each change keeps these facts;
- the cardinality facts rest on the library's finite-set theorems.

The second half of the module proves what the outbox and the audit log tell of
the tables: `OutboxTellsState`, `OutboxCountsSeats` and `CancellationAuditedOnce`,
from `HistoryOK` and `AuditOK`.  `History` says of each event that

- no message speaks of an event that does not exist;
- the last event message carries the event's row, and while the event is
  published the last message about a user carries the status of the user's active
  registration, or CANCELED if there is none;
- messages that take a seat less messages that free one are the confirmed rows;
- no prefix of the outbox frees more seats than it takes (`NeverNegative`).  The
  service does not need this, the feed does: its UPDATE floors the count at zero,
  and a prefix below zero would make the floor bite on a reader in commit order.

The step from one outbox to the next is a lemma about appending one message
(`Grows`), so that a commit with two messages (cancel and promote) is two
applications of it.  `AuditOK` counts the records of successful cancellations:
the row lock and the status it guards make a second one impossible.

`SeatRefinementProofs` proves `Implementation == Spec => ImplementsSeatAllocation`,
the refinement with its queue, for any events, users and workers.  It uses `Inv`
throughout, since the mapping is a simulation only between well-formed tables:

- positions of waitlisted rows differ (`InArrivalOrder`), so the places are a
  bijection between the waitlisted rows and `1 .. n`, and the queue is
  determined by its length and each row's user at the row's place
  (`IsQueueOf`, `QueueUnique`);
- a row with the next position joins the end of the queue, a waitlisted row
  that is canceled or promoted leaves its place (`Without`), and the row the
  promotion query picks is at place 1; other changes leave the queue alone;
- confirmed rows and seated users are equally many, because a user has at most
  one active row (`OneActive`); so the capacity check on rows is the check on
  seats;
- reads are current, so what a commit decided on its snapshot holds of the
  tables it writes.

Each commit is then one action of `SeatAllocation` (`IsTake`, `IsEnqueue`, ...),
and every other step leaves all mapped variables unchanged (`Unseen`).

`FeedPipelineProofs` proves `FeedConvergesInOrder` and `CountNeverTooLow`, from the
assumptions of `EventRegistration` and `NoneIsNoFeedRow`.  `PipelineInv` is `Inv`,
`HistoryOK` and `FeedInv`.  `FeedInv` compares the feed's row of an event with the
messages applied so far, a set of places in the outbox:

- in any order (`FeedRowOK`) the row's count is at least the sum of the deltas
  applied, since the floor can only forget a decrement;
- while messages were first applied in commit order, they are a prefix of the
  outbox, the count is exactly that sum (this is where `NeverNegative` is used) and
  the row shows the last event message of the prefix (`InOrderRowOK`).

Once all messages are applied the sums are those of the whole outbox, which
`HistoryOK` equates with the tables.  The outbox only grows (`Extends`), so commits
after the messages were applied change nothing of what was seen.

`OutboxRelayProofs` proves, for any sets of rows and relays, any batch size,
attempt limit and backoffs: `TypeOK`, `EveryCopyAccountedFor`, `DeadAtLimit` and
`SentIsFinal`.  `Inv` adds that batches are disjoint, that dirty rows belong to
the batch and a row is marked at most once, that a SENT row is in no batch, and
that an uncommitted mark respects the limit.

`NotificationDeliveryProofs` proves, for any messages, workers, lease, attempt
limit, backoffs and skew (`DeliveryAssumptions`: lease and backoffs are positive;
`NoneIsApart`): `TypeOK`, `OnlyLatestClaimCurrent`, `SentWasMailed`,
`RecordsMatch` and `SentIsFinal`.  The heart of `Inv` is `Fence`: the
`locked_until` of a PROCESSING row is that of its last claim and greater than
that of any older one, and a FAILED row's `next_attempt_at` lies after the start
of every claim on it.  It holds because a row becomes claimable only at a
reading past its lease or its backoff (`ClaimIsLater`), whatever clock the
reading comes from.

`ConsumerRetryProofs` proves, for any queues, bindings, consumers and messages, any
number of retries and faults and any confirm buffer (`RetryAssumptions`;
`EnoughDelays`, which `envelope_test.go:79` tests): `TypeOK`, `AppliedOnce`,
`FailuresCounted` and `NothingLostInStep`.  The last is not inductive: a delivery
whose retry copy was accepted still counts as under way, but is about to be acked.
`AllSafe` leaves such deliveries out.  It asks that each message be recorded,
dead-lettered, queued, or held by a consumer that has not published it or whose
last publish was refused (`Keeps`, `LastConfirm`).  When only one confirm is
outstanding, the one read is the last one, so a positive answer means the copy
is in a queue; otherwise the queue is `skewed` and promises nothing.

`MediaPipelineProofs` proves, for any assets, users, sizes, requests and workers
(`MediaAssumptions`, `NoneIsNoAsset`): `TypeOK`, `OneWorkerPerAsset`,
`ReadyWasWhole` and `StatusMovesForward`.  `Inv` says what a process between its
locking SELECT and its commit may rely on: it owns the row's lock and the status
is what it read (`ServingOK`, `ClaimOK`); claims are apart; a worker that found
the object whole still sees it whole or posted again (`CheckedWhole`).

`AuthSessionsProofs` proves, for any users, workers, replicas, tokens, lifetimes
and limits of the guard (`SessionAssumptions`, `BearersAssumption`,
`NoneIsNoSession`): `TypeOK`, `OneLivePerFamily`, `RevocationEndsFamily` and
`LogoutEndsAccess`.  `Inv` adds four things:

- `GuardOK`: failures counted plus logins between the guard's check and its count
  are at most the limit and the other workers.  A login enters only below the
  limit, and counting moves it from the second term to the first;
- `ReqOK`: what each request relies on.  A rotation owns the lock of its row,
  which is not spent, and its next token is no row yet; a revocation that no
  rotation overtook has the whole family in its snapshot; an introspection that
  came with a logged-out token finds it in `revoked_tokens`;
- `NextsApart`: two requests never generated the same token;
- `FamiliesOK`: the first token of a family stays in the table, so a new family
  never takes the number of an old or an ended one.

A commit of a revocation holds the lock of every row of its snapshot, so no
rotation is at work on one of them; a rotation replaces the one live row of its
family by another.

Only model-checked: liveness (`RequestsFinish`, `EventuallyResolved`,
`EventuallySettled`, `EventuallyOutOfCirculation`, `CacheCatchesUp`,
`EveryRequestEnds`, `EventuallyProcessed`), since fairness and ENABLED are beyond
the backends used here.  Every safety property, every action property and the
refinement that a passing run checks is also a theorem.  No module a proof uses
declares a RECURSIVE operator.

## Not modelled

- *Gateway, configuration, logging, metrics, health, process start, frontend*: no
  state that two steps could disagree on.
- *Rate limiting*: one counter per key, changed in one atomic step per request;
  that a fixed window lets through twice its limit around a boundary is its design.
- *Tokens and introspection*: signatures and an HTTP call.  Expiry and the answer
  of introspection are in `AuthSessions`.
- *Auth, the rest*: `UpdateUserRole` and `EnsureSeedAdmin` write one user row each;
  roles are constants in the other modules.  Password hashing, cookies and CSRF
  tokens keep no state.
- *Feed, the rest*: `ListEvents` and its cache keys, which work like the detail key;
  search and paging.

## Plan

Done: the registration service with its abstract specification, the relay, the
consumers' retries, the projection and the feed's cache, notification deliveries,
sessions, and uploads; proofs of all their safety properties and of the
refinement.  Left:

1. An abstract specification of the pipeline from outbox to consumers (at least
   once, applied once), implemented by `OutboxRelay` and `ConsumerRetry`.
2. Bounds in the other direction for the feed: by how much its count may exceed
   the true one, in terms of the decrements the floor forgot.
3. Role changes while requests are in flight.
