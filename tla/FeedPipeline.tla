---------------------------- MODULE FeedPipeline ----------------------------
(***************************************************************************)
(* The registration service composed with the read side: the feed          *)
(* projection (internal/services/feedprojection) applies the service's     *)
(* outbox messages to the table feed_events, and the feed service          *)
(* (internal/services/feed) answers from that table through a Redis cache. *)
(*                                                                         *)
(* Between outbox and projection lie the relay and the broker, shown       *)
(* elsewhere (OutboxRelay, ConsumerRetry) to deliver every message at      *)
(* least once.  Here they are what the projection sees of them: any        *)
(* committed message, in any order, any number of times.  A failed publish *)
(* or a failed handling delays one message by up to half an hour while     *)
(* later ones pass, so no order can be excluded.                           *)
(***************************************************************************)
EXTENDS EventRegistration

CONSTANT Readers   \* requests the feed service serves at once

VARIABLES
    feed,       \* table feed_events: a row, or None
    processed,  \* table processed_messages: places in the outbox
    inOrder,    \* history: every message was applied after the ones before it
    cache,      \* cache[e]: the row under e's detail key in Redis, or None
    reading     \* reading[r]: the event and the row r read and has yet to cache

readSide == <<feed, processed, inOrder, cache, reading>>
pipelineVars == <<vars, readSide>>

\* startsAt is NULL (None) until an event message has been applied.
FeedEvent == [status   : {"PUBLISHED", "CANCELED"},
              capacity : Nat,
              startsAt : Nat \cup {None},
              count    : Nat]

ASSUME NoneIsNoFeedRow == None \notin FeedEvent

-----------------------------------------------------------------------------
(* The projection.                                                         *)

\* The defaults of the table.
NewRow == [status |-> "PUBLISHED", capacity |-> 0, startsAt |-> None,
           count |-> 0]

Existing(row) == IF row = None THEN NewRow ELSE row

\* The payload's fields overwrite the row, whatever is newer; the count stays.
upsertEvent(row, sent) ==
    [Existing(row) EXCEPT !.status = sent.status,
                          !.capacity = sent.capacity,
                          !.startsAt = sent.startsAt]

changeConfirmedCount(row, delta) ==
    [Existing(row) EXCEPT !.count = Max({@ + delta, 0})]

\* Faulty variant: previousStatus is not looked at.
deltaOfAny(msg) ==
    CASE msg.key \in {"join.confirmed", "join.promoted"} -> 1
      [] msg.key = "join.canceled" -> -1
      [] OTHER -> 0

\* What a registration message does to the count.
delta(msg) ==
    CASE msg.key \in {"join.confirmed", "join.promoted"} -> 1
      [] msg.key = "join.canceled" /\ msg.prev = "CONFIRMED" -> -1
      [] OTHER -> 0

apply(msg) ==
    LET e == msg.event
    IN  feed' = [feed EXCEPT ![e] =
            IF msg.key \in EventKeys THEN upsertEvent(@, msg.row)
            ELSE IF delta(msg) = 0 THEN @
            ELSE changeConfirmedCount(@, delta(msg))]

\* Faulty variant: ON CONFLICT DO NOTHING, and on with it.
claimAlways(i) == i \in DOMAIN outbox

claimMessage(i) == i \notin processed

\* One transaction: claim and change, or, for a duplicate, nothing.
HandleEnvelope(i) ==
    /\ IF claimMessage(i)
       THEN /\ apply(outbox[i])
            /\ processed' = processed \cup {i}
            /\ inOrder' = (inOrder /\ \A j \in 1 .. i - 1 : j \in processed)
       ELSE UNCHANGED <<feed, processed, inOrder>>
    /\ UNCHANGED <<vars, cache, reading>>

-----------------------------------------------------------------------------
(* The feed service.                                                       *)

\* WHERE event_id = $1 AND status = 'PUBLISHED'
Visible(row) == row # None /\ row.status = "PUBLISHED"

\* Cache.Get misses (or fails), and the repository answers.
GetEventMiss(r) ==
    /\ reading[r] = None
    /\ \E e \in Events :
        /\ Visible(feed[e])
        /\ reading' = [reading EXCEPT ![r] = [event |-> e, row |-> feed[e]]]
    /\ UNCHANGED <<vars, feed, processed, inOrder, cache>>

\* Cache.Set with cacheTTL, whatever the key holds by now; its error is ignored.
SetCache(r) ==
    /\ reading[r] # None
    /\ \/ cache' = [cache EXCEPT ![reading[r].event] = reading[r].row]
       \/ UNCHANGED cache
    /\ reading' = [reading EXCEPT ![r] = None]
    /\ UNCHANGED <<vars, feed, processed, inOrder>>

\* Faulty variant: an expiration of zero, which Redis takes for none.
NeverExpires(e) == FALSE

\* The entry has an expiry at all.
HasTTL(e) == cache[e] # None

\* cacheTTL has passed, or Redis dropped the entry.
ExpireCache(e) ==
    /\ HasTTL(e)
    /\ cache' = [cache EXCEPT ![e] = None]
    /\ UNCHANGED <<vars, feed, processed, inOrder, reading>>

-----------------------------------------------------------------------------

PipelineInit ==
    /\ Init
    /\ feed = [e \in Events |-> None]
    /\ processed = {}
    /\ inOrder = TRUE
    /\ cache = [e \in Events |-> None]
    /\ reading = [r \in Readers |-> None]

PipelineNext ==
    \/ Next /\ UNCHANGED readSide
    \/ \E i \in DOMAIN outbox : HandleEnvelope(i)
    \/ \E r \in Readers : GetEventMiss(r) \/ SetCache(r)
    \/ \E e \in Events : ExpireCache(e)

\* A read request ends, and Redis lets entries expire.
PipelineSpec ==
    /\ PipelineInit
    /\ [][PipelineNext]_pipelineVars
    /\ \A r \in Readers : WF_pipelineVars(SetCache(r))
    /\ \A e \in Events : WF_pipelineVars(ExpireCache(e))

-----------------------------------------------------------------------------
(* Properties.                                                             *)

Drained(e) == \A i \in DOMAIN outbox : outbox[i].event = e => i \in processed

\* The feed shows the event as the service's tables have it, the number of
\* confirmed attendees included as long as the event is published.
FeedMatches(e) ==
    IF events[e] = None THEN feed[e] = None
    ELSE /\ feed[e] # None
         /\ feed[e].status = events[e].status
         /\ feed[e].capacity = events[e].capacity
         /\ feed[e].startsAt = events[e].startsAt
         /\ IsPublished(e) => feed[e].count = confirmedCount(regs[e])

\* Eventually consistent: once all messages about an event are applied, the
\* feed agrees with the authoritative tables.
FeedConverges == \A e \in Events : Drained(e) => FeedMatches(e)

\* It does as long as the messages were first applied in commit order, however
\* many of them were delivered again.
FeedConvergesInOrder == inOrder => FeedConverges

\* In any order, and with duplicates, the floor at zero can only forget
\* decrements: once the messages of a published event are applied, its count
\* is never below the number of confirmed attendees.
CountNeverTooLow ==
    \A e \in Events :
        IsPublished(e) /\ Drained(e) =>
            feed[e].count >= confirmedCount(regs[e])

\* Readers race with the projection and with each other, and may put an old
\* row over a newer one; still the cache ends up without any row the feed does
\* not have, once the feed no longer changes.
CacheCatchesUp ==
    <>[](\A e \in Events : cache[e] # None => cache[e] = feed[e])

=============================================================================
