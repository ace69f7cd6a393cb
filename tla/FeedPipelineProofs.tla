------------------------- MODULE FeedPipelineProofs -------------------------
(***************************************************************************)
(* Proofs about FeedPipeline: what the feed's table says of an event whose *)
(* messages have been applied, in commit order or in any order, for every  *)
(* set of events, users, workers and readers and every bound.              *)
(***************************************************************************)
EXTENDS FeedPipeline, EventRegistrationProofs

-----------------------------------------------------------------------------
(* The projection's operators.                                             *)

\* GREATEST(confirmed_count + delta, 0)
LEMMA FloorAtZero ==
    ASSUME NEW x \in Int
    PROVE  Max({x, 0}) = IF x >= 0 THEN x ELSE 0
<1>1. CASE x >= 0
  <2>1. \E y \in {x, 0} : \A z \in {x, 0} : y >= z
    BY <1>1
  <2>2. Max({x, 0}) \in {x, 0} /\ \A z \in {x, 0} : Max({x, 0}) >= z
    BY <2>1 DEF Max
  <2> QED
    BY <1>1, <2>2
<1>2. CASE ~(x >= 0)
  <2>1. \E y \in {x, 0} : \A z \in {x, 0} : y >= z
    BY <1>2
  <2>2. Max({x, 0}) \in {x, 0} /\ \A z \in {x, 0} : Max({x, 0}) >= z
    BY <2>1 DEF Max
  <2> QED
    BY <1>2, <2>2
<1> QED
  BY <1>1, <1>2

\* The count an event has in the feed, zero without a row.
CountOf(row) == IF row = None THEN 0 ELSE row.count

\* The row of an event after one of its messages.
Applied(row, msg) ==
    IF msg.key \in EventKeys THEN upsertEvent(row, msg.row)
    ELSE IF delta(msg) = 0 THEN row
    ELSE changeConfirmedCount(row, delta(msg))

\* The row of the feed shows these values of an event row.
Shows(row, values) ==
    /\ row.status = values.status
    /\ row.capacity = values.capacity
    /\ row.startsAt = values.startsAt

Concerns(msg, e) == msg.event = e

\* new is the row of event e after its message msg.
Applies(new, row, msg, e) == Concerns(msg, e) /\ new = Applied(row, msg)

\* What a message does to the feed's row of its event.
LEMMA AppliedRow ==
    ASSUME NEW row \in FeedEvent \cup {None}, NEW msg \in Message,
           NEW e, NEW new, Applies(new, row, msg, e)
    PROVE  /\ new \in FeedEvent \cup {None}
           /\ CountOf(row) \in Nat /\ CountOf(new) \in Nat
           /\ new = None => /\ row = None /\ ~IsEventMessage(msg, e)
                            /\ ~SeatTaken(msg, e) /\ ~SeatFreed(msg, e)
           /\ SeatTaken(msg, e) => /\ CountOf(new) = CountOf(row) + 1
                                   /\ ~SeatFreed(msg, e)
           /\ SeatFreed(msg, e) =>
                  CountOf(new) = IF CountOf(row) - 1 >= 0
                                 THEN CountOf(row) - 1 ELSE 0
           /\ ~SeatTaken(msg, e) /\ ~SeatFreed(msg, e) =>
                  CountOf(new) = CountOf(row)
           /\ IsEventMessage(msg, e) => new # None /\ Shows(new, msg.row)
           /\ ~IsEventMessage(msg, e) /\ row # None =>
                  new # None /\ \A r : Shows(row, r) => Shows(new, r)
<1>0. msg.event = e /\ new = Applied(row, msg)
  BY DEF Applies, Concerns
<1>1. /\ Existing(row) \in FeedEvent
      /\ Existing(row).count = CountOf(row)
      /\ row # None => Existing(row) = row
      /\ CountOf(row) \in Nat
  BY DEF Existing, NewRow, FeedEvent, CountOf
<1>2. CASE msg.key \in EventKeys
  <2>1. msg.row \in EventRow
    BY <1>2 DEF Message, EventKeys, RegKeys
  <2>2. /\ new = [Existing(row) EXCEPT !.status = msg.row.status,
                                       !.capacity = msg.row.capacity,
                                       !.startsAt = msg.row.startsAt]
    BY <1>0, <1>2 DEF Applied, upsertEvent
  <2>3. /\ new \in FeedEvent /\ new.count = CountOf(row)
        /\ Shows(new, msg.row)
    BY <1>1, <2>1, <2>2 DEF FeedEvent, EventRow, Shows
  <2>4. new # None /\ CountOf(new) = CountOf(row)
    BY <2>3, NoneIsNoFeedRow DEF CountOf
  <2>5. IsEventMessage(msg, e) /\ ~SeatTaken(msg, e) /\ ~SeatFreed(msg, e)
    BY <1>0, <1>2 DEF IsEventMessage, SeatTaken, SeatFreed, EventKeys
  <2> QED
    BY <1>1, <2>3, <2>4, <2>5
<1>3. CASE msg.key \notin EventKeys /\ delta(msg) = 0
  <2>1. new = row
    BY <1>0, <1>3 DEF Applied
  <2>2. ~IsEventMessage(msg, e) /\ ~SeatTaken(msg, e) /\ ~SeatFreed(msg, e)
    BY <1>0, <1>3 DEF IsEventMessage, SeatTaken, SeatFreed, delta
  <2> QED
    BY <1>1, <2>1, <2>2
<1>4. CASE msg.key \notin EventKeys /\ delta(msg) # 0
  <2> DEFINE d == delta(msg)
  <2>1. /\ ~IsEventMessage(msg, e)
        /\ \/ d = 1 /\ SeatTaken(msg, e) /\ ~SeatFreed(msg, e)
           \/ d = -1 /\ SeatFreed(msg, e) /\ ~SeatTaken(msg, e)
    BY <1>0, <1>4 DEF IsEventMessage, SeatTaken, SeatFreed, delta
  <2>2. new = [Existing(row) EXCEPT !.count = Max({@ + d, 0})]
    BY <1>0, <1>4 DEF Applied, changeConfirmedCount
  <2> DEFINE n == IF CountOf(row) + d >= 0 THEN CountOf(row) + d ELSE 0
  <2>3. d \in Int /\ n \in Nat
    BY <1>1, <2>1
  <2> HIDE DEF d
  <2>4. Max({CountOf(row) + d, 0}) = n
    <3>1. CountOf(row) + d \in Int
      BY <1>1, <2>3
    <3> QED
      BY <3>1, FloorAtZero
  <2>5. new = [Existing(row) EXCEPT !.count = n]
    BY <1>1, <2>2, <2>4
  <2> HIDE DEF n
  <2>6. /\ new \in FeedEvent /\ new.count = n
        /\ \A values : Shows(Existing(row), values) => Shows(new, values)
    BY <1>1, <2>3, <2>5 DEF FeedEvent, Shows
  <2>7. new # None /\ CountOf(new) = n
    BY <2>6, NoneIsNoFeedRow DEF CountOf
  <2>8. /\ SeatTaken(msg, e) => n = CountOf(row) + 1
        /\ SeatFreed(msg, e) => n = IF CountOf(row) - 1 >= 0
                                    THEN CountOf(row) - 1 ELSE 0
    BY <1>1, <2>1 DEF n
  <2> QED
    BY <1>1, <2>1, <2>3, <2>6, <2>7, <2>8
<1> QED
  BY <1>2, <1>3, <1>4

-----------------------------------------------------------------------------
(* The messages applied so far: done, a set of places in a box.            *)

SeenUps(e, box, done) == Ups(box, e) \cap done
SeenDowns(e, box, done) == Downs(box, e) \cap done
SeenEvents(e, box, done) == EventsIn(box, e) \cap done

SeenCount(e, box, done) ==
    Cardinality(SeenUps(e, box, done)) - Cardinality(SeenDowns(e, box, done))

\* A row is there because of a message, and the floor only forgets decrements.
FeedRowOK(e, row, box, done) ==
    /\ row = None => /\ SeenUps(e, box, done) = {}
                     /\ SeenDowns(e, box, done) = {}
                     /\ SeenEvents(e, box, done) = {}
    /\ row # None => \E i \in done : Concerns(box[i], e)
    /\ CountOf(row) >= SeenCount(e, box, done)

\* What holds besides when the messages were applied in commit order: the
\* floor has forgotten nothing, and the last event message has the last word.
InOrderRowOK(e, row, box, done) ==
    /\ CountOf(row) = SeenCount(e, box, done)
    /\ \A m \in SeenEvents(e, box, done) :
          IsLast(SeenEvents(e, box, done), m) => Shows(row, box[m].row)

IsPrefix(done, box) == \E k \in 0 .. Len(box) : done = 1 .. k

\* Counts over the applied messages are numbers.
LEMMA SeenCountType ==
    ASSUME NEW box \in Seq(Message), NEW e, NEW done
    PROVE  /\ IsFiniteSet(SeenUps(e, box, done))
           /\ IsFiniteSet(SeenDowns(e, box, done))
           /\ Cardinality(SeenUps(e, box, done)) \in Nat
           /\ Cardinality(SeenDowns(e, box, done)) \in Nat
           /\ SeenCount(e, box, done) \in Int
<1>1. /\ IsFiniteSet(Ups(box, e)) /\ IsFiniteSet(Downs(box, e))
  BY BoxSets
<1>2. /\ SeenUps(e, box, done) \in SUBSET Ups(box, e)
      /\ SeenDowns(e, box, done) \in SUBSET Downs(box, e)
  BY DEF SeenUps, SeenDowns
<1>3. IsFiniteSet(SeenUps(e, box, done)) /\ IsFiniteSet(SeenDowns(e, box, done))
  BY <1>1, <1>2, FS_Subset
<1>4. /\ Cardinality(SeenUps(e, box, done)) \in Nat
      /\ Cardinality(SeenDowns(e, box, done)) \in Nat
  BY <1>3, FS_CardinalityType
<1> QED
  BY <1>3, <1>4 DEF SeenCount

\* One more message is applied.
Adds(after, done, i) == after = done \cup {i}

\* Applying one message more adds its delta to the sums.
LEMMA SeenOneMore ==
    ASSUME NEW box \in Seq(Message), NEW e, NEW done,
           NEW i \in DOMAIN box, i \notin done,
           NEW after, Adds(after, done, i)
    PROVE  /\ SeenEvents(e, box, after) =
                IF IsEventMessage(box[i], e)
                THEN SeenEvents(e, box, done) \cup {i}
                ELSE SeenEvents(e, box, done)
           /\ SeatTaken(box[i], e) \/ SeatFreed(box[i], e)
                \/ /\ SeenUps(e, box, after) = SeenUps(e, box, done)
                   /\ SeenDowns(e, box, after) = SeenDowns(e, box, done)
           /\ SeenCount(e, box, after) = SeenCount(e, box, done)
                + (IF SeatTaken(box[i], e) THEN 1 ELSE 0)
                - (IF SeatFreed(box[i], e) THEN 1 ELSE 0)
<1>1. /\ SeenEvents(e, box, after) =
              IF IsEventMessage(box[i], e)
              THEN SeenEvents(e, box, done) \cup {i}
              ELSE SeenEvents(e, box, done)
      /\ SeenUps(e, box, after) =
              IF SeatTaken(box[i], e) THEN SeenUps(e, box, done) \cup {i}
                                      ELSE SeenUps(e, box, done)
      /\ SeenDowns(e, box, after) =
              IF SeatFreed(box[i], e) THEN SeenDowns(e, box, done) \cup {i}
                                      ELSE SeenDowns(e, box, done)
  BY DEF Adds, SeenEvents, SeenUps, SeenDowns, EventsIn, Ups, Downs
<1>2. i \notin SeenUps(e, box, done) /\ i \notin SeenDowns(e, box, done)
  BY DEF SeenUps, SeenDowns
<1>3. /\ IsFiniteSet(SeenUps(e, box, done))
      /\ IsFiniteSet(SeenDowns(e, box, done))
      /\ Cardinality(SeenUps(e, box, done)) \in Nat
      /\ Cardinality(SeenDowns(e, box, done)) \in Nat
  BY SeenCountType
<1>4. /\ Cardinality(SeenUps(e, box, done) \cup {i}) =
              Cardinality(SeenUps(e, box, done)) + 1
      /\ Cardinality(SeenDowns(e, box, done) \cup {i}) =
              Cardinality(SeenDowns(e, box, done)) + 1
  BY <1>2, <1>3, FS_AddElement
<1>5. Cardinality(SeenUps(e, box, after)) =
        Cardinality(SeenUps(e, box, done))
        + (IF SeatTaken(box[i], e) THEN 1 ELSE 0)
  BY <1>1, <1>3, <1>4
<1>6. Cardinality(SeenDowns(e, box, after)) =
        Cardinality(SeenDowns(e, box, done))
        + (IF SeatFreed(box[i], e) THEN 1 ELSE 0)
  BY <1>1, <1>3, <1>4
<1>7. SeenCount(e, box, after) = SeenCount(e, box, done)
        + (IF SeatTaken(box[i], e) THEN 1 ELSE 0)
        - (IF SeatFreed(box[i], e) THEN 1 ELSE 0)
  BY <1>3, <1>5, <1>6 DEF SeenCount
<1> QED
  BY <1>1, <1>7

\* Commits after the messages were applied change nothing of what was seen.
LEMMA SeenStays ==
    ASSUME NEW box \in Seq(Message), NEW box2 \in Seq(Message),
           Len(box) <= Len(box2),
           \A i \in 1 .. Len(box) : box2[i] = box[i],
           NEW done \in SUBSET (1 .. Len(box)), NEW e
    PROVE  /\ SeenUps(e, box2, done) = SeenUps(e, box, done)
           /\ SeenDowns(e, box2, done) = SeenDowns(e, box, done)
           /\ SeenEvents(e, box2, done) = SeenEvents(e, box, done)
           /\ SeenCount(e, box2, done) = SeenCount(e, box, done)
           /\ \A i \in done : box2[i] = box[i]
           /\ \A row : FeedRowOK(e, row, box, done) =>
                          FeedRowOK(e, row, box2, done)
           /\ \A row : InOrderRowOK(e, row, box, done) =>
                          InOrderRowOK(e, row, box2, done)
           /\ IsPrefix(done, box) => IsPrefix(done, box2)
<1>1. /\ Len(box) \in Nat /\ Len(box2) \in Nat
      /\ DOMAIN box = 1 .. Len(box) /\ DOMAIN box2 = 1 .. Len(box2)
  BY LenProperties
<1>2. \A i \in done : i \in DOMAIN box /\ i \in DOMAIN box2 /\ box2[i] = box[i]
  BY <1>1
<1>3. /\ SeenUps(e, box2, done) = SeenUps(e, box, done)
      /\ SeenDowns(e, box2, done) = SeenDowns(e, box, done)
      /\ SeenEvents(e, box2, done) = SeenEvents(e, box, done)
  BY <1>2 DEF SeenUps, SeenDowns, SeenEvents, Ups, Downs, EventsIn
<1>4. SeenCount(e, box2, done) = SeenCount(e, box, done)
  BY <1>3 DEF SeenCount
<1>5. ASSUME NEW row, FeedRowOK(e, row, box, done)
      PROVE  FeedRowOK(e, row, box2, done)
  BY <1>2, <1>3, <1>4, <1>5 DEF FeedRowOK
<1>6. ASSUME NEW row, InOrderRowOK(e, row, box, done)
      PROVE  InOrderRowOK(e, row, box2, done)
  <2>1. \A m \in SeenEvents(e, box, done) : box2[m] = box[m]
    BY <1>2 DEF SeenEvents
  <2> QED
    BY <1>3, <1>4, <1>6, <2>1 DEF InOrderRowOK
<1>7. IsPrefix(done, box) => IsPrefix(done, box2)
  BY <1>1 DEF IsPrefix
<1> QED
  BY <1>2, <1>3, <1>4, <1>5, <1>6, <1>7

\* A message about another event is applied.
LEMMA ApplyOther ==
    ASSUME NEW box \in Seq(Message), NEW e, NEW done, NEW row,
           NEW i \in DOMAIN box, i \notin done, ~Concerns(box[i], e),
           NEW after, Adds(after, done, i)
    PROVE  /\ FeedRowOK(e, row, box, done) => FeedRowOK(e, row, box, after)
           /\ InOrderRowOK(e, row, box, done) =>
                  InOrderRowOK(e, row, box, after)
<1>1. /\ ~SeatTaken(box[i], e) /\ ~SeatFreed(box[i], e)
      /\ ~IsEventMessage(box[i], e)
  BY DEF SeatTaken, SeatFreed, IsEventMessage, Concerns
<1>2. /\ SeenUps(e, box, after) = SeenUps(e, box, done)
      /\ SeenDowns(e, box, after) = SeenDowns(e, box, done)
      /\ SeenEvents(e, box, after) = SeenEvents(e, box, done)
  BY <1>1, SeenOneMore
<1>3. SeenCount(e, box, after) = SeenCount(e, box, done)
  BY <1>2 DEF SeenCount
<1>4. FeedRowOK(e, row, box, done) => FeedRowOK(e, row, box, after)
  BY <1>2, <1>3 DEF FeedRowOK, Adds
<1>5. InOrderRowOK(e, row, box, done) => InOrderRowOK(e, row, box, after)
  BY <1>2, <1>3 DEF InOrderRowOK
<1> QED
  BY <1>4, <1>5

\* A message is applied, in whatever order.
LEMMA ApplyAny ==
    ASSUME NEW box \in Seq(Message), NEW e, NEW done,
           NEW row \in FeedEvent \cup {None},
           NEW i \in DOMAIN box, i \notin done, Concerns(box[i], e),
           NEW after, Adds(after, done, i), FeedRowOK(e, row, box, done)
    PROVE  FeedRowOK(e, Applied(row, box[i]), box, after)
<1> DEFINE m == box[i]
           new == Applied(row, m)
<1>1. m \in Message
  BY ElementOfSeq, LenProperties
<1>2. /\ CountOf(row) \in Nat /\ CountOf(new) \in Nat
      /\ new = None => /\ row = None /\ ~IsEventMessage(m, e)
                       /\ ~SeatTaken(m, e) /\ ~SeatFreed(m, e)
      /\ SeatTaken(m, e) => /\ CountOf(new) = CountOf(row) + 1
                            /\ ~SeatFreed(m, e)
      /\ SeatFreed(m, e) => CountOf(new) = IF CountOf(row) - 1 >= 0
                                           THEN CountOf(row) - 1 ELSE 0
      /\ ~SeatTaken(m, e) /\ ~SeatFreed(m, e) => CountOf(new) = CountOf(row)
  <2>1. Applies(new, row, m, e)
    BY DEF Applies
  <2> HIDE DEF new, m
  <2> QED
    BY <1>1, <2>1, AppliedRow
<1>3. SeenCount(e, box, done) \in Int /\ CountOf(row) >= SeenCount(e, box, done)
  BY SeenCountType DEF FeedRowOK
<1>4. /\ SeenEvents(e, box, after) =
              IF IsEventMessage(m, e) THEN SeenEvents(e, box, done) \cup {i}
                                      ELSE SeenEvents(e, box, done)
      /\ SeatTaken(m, e) \/ SeatFreed(m, e)
           \/ /\ SeenUps(e, box, after) = SeenUps(e, box, done)
              /\ SeenDowns(e, box, after) = SeenDowns(e, box, done)
      /\ SeenCount(e, box, after) = SeenCount(e, box, done)
           + (IF SeatTaken(m, e) THEN 1 ELSE 0)
           - (IF SeatFreed(m, e) THEN 1 ELSE 0)
  BY SeenOneMore
<1> HIDE DEF new
<1>5. new = None => /\ SeenUps(e, box, after) = {}
                    /\ SeenDowns(e, box, after) = {}
                    /\ SeenEvents(e, box, after) = {}
  BY <1>2, <1>4 DEF FeedRowOK
<1>6. CountOf(new) >= SeenCount(e, box, after)
  BY <1>2, <1>3, <1>4
<1>7. \E j \in after : Concerns(box[j], e)
  BY DEF Adds
<1> QED
  BY <1>5, <1>6, <1>7 DEF FeedRowOK, new

\* The message after all those applied is applied, and the box takes more
\* seats than it frees up to there: the floor is not felt.
AllBefore(done, i) == done \in SUBSET Nat /\ \A j \in done : j < i

\* Applying the next message in commit order keeps the row in step.
LEMMA ApplyNext ==
    ASSUME NEW box \in Seq(Message), NEW e, NEW done,
           NEW row \in FeedEvent \cup {None},
           NEW i \in DOMAIN box, Concerns(box[i], e),
           AllBefore(done, i),
           NEW after, Adds(after, done, i), SeenCount(e, box, after) >= 0,
           FeedRowOK(e, row, box, done), InOrderRowOK(e, row, box, done)
    PROVE  InOrderRowOK(e, Applied(row, box[i]), box, after)
<1> DEFINE m == box[i]
           new == Applied(row, m)
<1>0. i \in Nat /\ i \notin done
  BY LenProperties DEF AllBefore
<1>1. m \in Message /\ i \notin done
  BY <1>0, ElementOfSeq, LenProperties
<1>2. CountOf(row) = SeenCount(e, box, done) /\ SeenCount(e, box, done) \in Int
  BY SeenCountType DEF InOrderRowOK
<1>3. /\ SeenEvents(e, box, after) =
              IF IsEventMessage(m, e) THEN SeenEvents(e, box, done) \cup {i}
                                      ELSE SeenEvents(e, box, done)
      /\ SeenCount(e, box, after) = SeenCount(e, box, done)
           + (IF SeatTaken(m, e) THEN 1 ELSE 0)
           - (IF SeatFreed(m, e) THEN 1 ELSE 0)
  BY <1>1, SeenOneMore
<1>4. Applies(new, row, m, e) /\ m = box[i]
  BY DEF Applies
<1> HIDE DEF new, m
<1>5. /\ CountOf(row) \in Nat /\ CountOf(new) \in Nat
      /\ SeatTaken(m, e) => /\ CountOf(new) = CountOf(row) + 1
                            /\ ~SeatFreed(m, e)
      /\ SeatFreed(m, e) => CountOf(new) = IF CountOf(row) - 1 >= 0
                                           THEN CountOf(row) - 1 ELSE 0
      /\ ~SeatTaken(m, e) /\ ~SeatFreed(m, e) => CountOf(new) = CountOf(row)
  BY <1>1, <1>4, AppliedRow
<1>6. /\ IsEventMessage(m, e) => Shows(new, m.row)
      /\ ~IsEventMessage(m, e) /\ row # None =>
            \A r : Shows(row, r) => Shows(new, r)
  BY <1>1, <1>4, AppliedRow
<1>7. CountOf(new) = SeenCount(e, box, after)
  BY <1>2, <1>3, <1>5
<1>8. ASSUME NEW n \in SeenEvents(e, box, after),
             IsLast(SeenEvents(e, box, after), n)
      PROVE  Shows(new, box[n].row)
  <2>1. CASE IsEventMessage(m, e)
    <3>1. i \in SeenEvents(e, box, after)
      BY <1>3, <2>1
    <3>2. i <= n
      BY <1>8, <3>1 DEF IsLast
    <3>3. n \in SeenEvents(e, box, done) => n < i /\ n \in Nat
      BY DEF SeenEvents, AllBefore
    <3>4. n = i
      BY <1>0, <1>3, <2>1, <3>2, <3>3
    <3> QED
      BY <1>4, <1>6, <2>1, <3>4
  <2>2. CASE ~IsEventMessage(m, e)
    <3>1. SeenEvents(e, box, after) = SeenEvents(e, box, done)
      BY <1>3, <2>2
    <3>2. row # None
      BY <1>8, <3>1 DEF FeedRowOK
    <3>3. Shows(row, box[n].row)
      BY <1>8, <3>1 DEF InOrderRowOK
    <3> QED
      BY <1>6, <2>2, <3>2, <3>3
  <2> QED
    BY <2>1, <2>2
<1>9. InOrderRowOK(e, new, box, after)
  BY <1>7, <1>8 DEF InOrderRowOK
<1> QED
  BY <1>9 DEF new, m

-----------------------------------------------------------------------------
(* The outbox only grows.                                                  *)

Extends(new, box) ==
    /\ new \in Seq(Message)
    /\ Len(box) <= Len(new)
    /\ \A i \in 1 .. Len(box) : new[i] = box[i]

\* A box with a message appended extends the box.
LEMMA AppendExtends ==
    ASSUME NEW box \in Seq(Message), NEW m,
           Append(box, m) \in Seq(Message)
    PROVE  Extends(Append(box, m), box)
<1>1. /\ Len(Append(box, m)) = Len(box) + 1 /\ Len(box) \in Nat
      /\ \A i \in 1 .. Len(box) : Append(box, m)[i] = box[i]
  BY LenProperties
<1> QED
  BY <1>1 DEF Extends

\* A box with several messages appended extends the box.
LEMMA ConcatExtends ==
    ASSUME NEW box \in Seq(Message), NEW a, NEW b,
           box \o <<a, b>> \in Seq(Message)
    PROVE  Extends(box \o <<a, b>>, box)
<1> DEFINE new == box \o <<a, b>>
<1>1. /\ Len(box) \in Nat /\ Len(new) = Len(box) + 2
      /\ \A i \in 1 .. Len(box) : new[i] = box[i]
  BY LenProperties
<1> QED
  BY <1>1 DEF Extends

\* No step of the service takes back or changes a message committed.
LEMMA OutboxGrows ==
    ASSUME Inv, Inv', [Next]_vars
    PROVE  Extends(outbox', outbox)
<1>1. outbox \in Seq(Message) /\ outbox' \in Seq(Message)
  BY DEF Inv, TypeOK
<1>2. CASE UNCHANGED outbox
  <2>1. Len(outbox) \in Nat
    BY <1>1, LenProperties
  <2> QED
    BY <1>1, <1>2, <2>1 DEF Extends
<1>3. CASE \E m : outbox' = Append(outbox, m)
  BY <1>1, <1>3, AppendExtends
<1>4. CASE \E a, b : outbox' = outbox \o <<a, b>>
  BY <1>1, <1>4, ConcatExtends
<1>5. ASSUME NEW w \in Workers, cancelRegistrationTx(w)
      PROVE  \/ UNCHANGED outbox
             \/ \E m : outbox' = Append(outbox, m)
             \/ \E a, b : outbox' = outbox \o <<a, b>>
  BY <1>5 DEF cancelRegistrationTx
<1>6. ASSUME NEW w \in Workers, Commit(w)
      PROVE  \/ UNCHANGED outbox
             \/ \E m : outbox' = Append(outbox, m)
             \/ \E a, b : outbox' = outbox \o <<a, b>>
  BY <1>5, <1>6 DEF Commit, CreateEvent, UpdateEvent, CancelEvent,
     JoinExisting, JoinEvent, CancelJoin, CancelRegistration, tables
<1>7. ASSUME NEW w \in Workers,
             \/ ReceiveAny(w) \/ selectEventForUpdate(w)
             \/ readRegistrations(w) \/ Rollback(w)
      PROVE  UNCHANGED outbox
  BY <1>7 DEF ReceiveAny, ReceiveCreate, ReceiveUpdate, ReceiveCancelEvent,
              ReceiveJoin, ReceiveCancelJoin, ReceiveCancelRegistration,
              Receive, selectEventForUpdate, readRegistrations, Rollback,
              tables
<1>8. CASE Tick \/ Quiesced \/ UNCHANGED vars
  BY <1>2, <1>8 DEF Tick, Quiesced, vars, tables
<1> QED
  BY <1>2, <1>3, <1>4, <1>6, <1>7, <1>8 DEF Next

-----------------------------------------------------------------------------
(* The inductive invariant of the pipeline.                                *)

FeedInv ==
    /\ feed \in [Events -> FeedEvent \cup {None}]
    /\ processed \in SUBSET (1 .. Len(outbox))
    /\ inOrder \in BOOLEAN
    /\ \A e \in Events : FeedRowOK(e, feed[e], outbox, processed)
    /\ inOrder =>
          /\ IsPrefix(processed, outbox)
          /\ \A e \in Events : InOrderRowOK(e, feed[e], outbox, processed)

PipelineInv == Inv /\ HistoryOK /\ FeedInv

\* An empty feed satisfies the invariant.
LEMMA InitFeed == PipelineInit => FeedInv
<1> SUFFICES ASSUME PipelineInit PROVE FeedInv
  OBVIOUS
<1>1. outbox = <<>> /\ processed = {} /\ feed = [e \in Events |-> None]
  BY DEF PipelineInit, Init
<1>2. Len(outbox) = 0
  BY <1>1
<1>3. ASSUME NEW e \in Events
      PROVE  /\ SeenUps(e, outbox, processed) = {}
             /\ SeenDowns(e, outbox, processed) = {}
             /\ SeenEvents(e, outbox, processed) = {}
  BY <1>1 DEF SeenUps, SeenDowns, SeenEvents
<1>4. Cardinality({}) = 0
  BY FS_EmptySet
<1>5. ASSUME NEW e \in Events
      PROVE  /\ CountOf(feed[e]) = 0
             /\ SeenCount(e, outbox, processed) = 0
  <2>1. CountOf(feed[e]) = 0
    BY <1>1 DEF CountOf
  <2>2. /\ Cardinality(SeenUps(e, outbox, processed)) = 0
        /\ Cardinality(SeenDowns(e, outbox, processed)) = 0
    BY <1>3, <1>4
  <2> QED
    BY <2>1, <2>2 DEF SeenCount
<1>6. \A e \in Events : /\ FeedRowOK(e, feed[e], outbox, processed)
                        /\ InOrderRowOK(e, feed[e], outbox, processed)
  BY <1>1, <1>3, <1>5 DEF FeedRowOK, InOrderRowOK
<1>7. IsPrefix(processed, outbox)
  <2>1. 0 \in 0 .. Len(outbox) /\ processed = 1 .. 0
    BY <1>1, <1>2
  <2> QED
    BY <2>1 DEF IsPrefix
<1> QED
  BY <1>1, <1>6, <1>7 DEF FeedInv, PipelineInit

\* The service commits, and the read side stands still.
LEMMA CommitKeepsFeed ==
    ASSUME Inv, Inv', FeedInv, [Next]_vars, UNCHANGED <<feed, processed, inOrder>>
    PROVE  FeedInv'
<1>1. /\ outbox \in Seq(Message) /\ outbox' \in Seq(Message)
      /\ Len(outbox) <= Len(outbox')
      /\ \A i \in 1 .. Len(outbox) : outbox'[i] = outbox[i]
      /\ processed \in SUBSET (1 .. Len(outbox))
  BY OutboxGrows DEF Extends, Inv, TypeOK, FeedInv
<1>2. ASSUME NEW e
      PROVE  /\ \A row : FeedRowOK(e, row, outbox, processed) =>
                           FeedRowOK(e, row, outbox', processed)
             /\ \A row : InOrderRowOK(e, row, outbox, processed) =>
                           InOrderRowOK(e, row, outbox', processed)
             /\ IsPrefix(processed, outbox) => IsPrefix(processed, outbox')
  BY <1>1, SeenStays
<1>3. processed \in SUBSET (1 .. Len(outbox'))
  BY <1>1, LenProperties
<1> QED
  BY <1>2, <1>3 DEF FeedInv

\* A message is applied, or a duplicate is dropped.
LEMMA HandleKeepsFeed ==
    ASSUME Inv, HistoryOK, FeedInv, NEW i \in DOMAIN outbox, HandleEnvelope(i)
    PROVE  FeedInv'
<1>1. /\ outbox \in Seq(Message) /\ UNCHANGED outbox
      /\ DOMAIN outbox = 1 .. Len(outbox) /\ Len(outbox) \in Nat
  BY LenProperties DEF Inv, TypeOK, HandleEnvelope, vars, tables
<1>2. CASE i \in processed
  BY <1>1, <1>2 DEF HandleEnvelope, claimMessage, FeedInv
<1>3. CASE i \notin processed
  <2> DEFINE m == outbox[i]
             f == outbox[i].event
             row == Applied(feed[f], outbox[i])
  <2>1. /\ feed' = [feed EXCEPT ![f] = row]
        /\ processed' = processed \cup {i}
        /\ inOrder' = (inOrder /\ \A j \in 1 .. i - 1 : j \in processed)
    BY <1>3 DEF HandleEnvelope, claimMessage, apply, Applied
  <2>2. m \in Message /\ f \in Events
    <3>1. m \in Message
      BY <1>1, ElementOfSeq
    <3> QED
      BY <3>1 DEF Message
  <2>3. Adds(processed', processed, i) /\ Concerns(outbox[i], f)
    BY <2>1 DEF Adds, Concerns
  <2>4. /\ feed[f] \in FeedEvent \cup {None}
        /\ FeedRowOK(f, feed[f], outbox, processed)
    BY <2>2 DEF FeedInv
  <2>5. row \in FeedEvent \cup {None}
    <3>1. Applies(row, feed[f], m, f)
      BY DEF Applies, Concerns
    <3> HIDE DEF m, f, row
    <3> QED
      BY <2>2, <2>4, <3>1, AppliedRow
  <2> HIDE DEF f
  <2>6. FeedRowOK(f, row, outbox, processed')
    BY <1>1, <1>3, <2>3, <2>4, ApplyAny
  <2> HIDE DEF row
  <2>7. ASSUME NEW e \in Events, e # f
        PROVE  /\ FeedRowOK(e, feed[e], outbox, processed')
               /\ InOrderRowOK(e, feed[e], outbox, processed) =>
                      InOrderRowOK(e, feed[e], outbox, processed')
    <3>1. ~Concerns(outbox[i], e)
      BY <2>3, <2>7 DEF Concerns
    <3>2. FeedRowOK(e, feed[e], outbox, processed)
      BY DEF FeedInv
    <3> QED
      BY <1>1, <1>3, <2>3, <3>1, <3>2, ApplyOther
  <2>8. /\ feed'[f] = row
        /\ \A e \in Events : e # f => feed'[e] = feed[e]
        /\ feed' \in [Events -> FeedEvent \cup {None}]
    BY <2>1, <2>2, <2>5 DEF FeedInv
  <2>9. processed' \in SUBSET (1 .. Len(outbox')) /\ inOrder' \in BOOLEAN
    BY <1>1, <2>1 DEF FeedInv
  <2>10. ASSUME inOrder'
         PROVE  /\ IsPrefix(processed', outbox)
                /\ InOrderRowOK(f, row, outbox, processed')
    <3>1. inOrder /\ \A j \in 1 .. i - 1 : j \in processed
      BY <2>1, <2>10
    <3>2. PICK k \in 0 .. Len(outbox) : processed = 1 .. k
      BY <3>1 DEF FeedInv, IsPrefix
    <3>3. i = k + 1
      <4>1. i \in Nat \ {0} /\ k \in Nat /\ i > k
        BY <1>1, <1>3, <3>2
      <4>2. i - 1 \in 1 .. i - 1 => i - 1 <= k
        BY <3>1, <3>2
      <4> QED
        BY <4>1, <4>2
    <3>4. processed' = 1 .. i /\ i \in 0 .. Len(outbox)
      BY <1>1, <2>1, <3>2, <3>3
    <3>5. IsPrefix(processed', outbox)
      BY <3>4 DEF IsPrefix
    <3>6. SeenCount(f, outbox, processed') >= 0
      <4>1. NeverNegative(f, outbox)
        BY <2>2 DEF HistoryOK, History
      <4>2. Cardinality(SeenDowns(f, outbox, processed')) <=
              Cardinality(SeenUps(f, outbox, processed'))
        BY <3>4, <4>1 DEF NeverNegative, SeenDowns, SeenUps
      <4>3. /\ Cardinality(SeenUps(f, outbox, processed')) \in Nat
            /\ Cardinality(SeenDowns(f, outbox, processed')) \in Nat
        BY <1>1, SeenCountType
      <4> QED
        BY <4>2, <4>3 DEF SeenCount
    <3>7. AllBefore(processed, i)
      BY <3>2, <3>3 DEF AllBefore
    <3>8. InOrderRowOK(f, feed[f], outbox, processed)
      BY <2>2, <3>1 DEF FeedInv
    <3>9. InOrderRowOK(f, row, outbox, processed')
      BY <1>1, <2>3, <2>4, <3>6, <3>7, <3>8, ApplyNext DEF row
    <3> QED
      BY <3>5, <3>9
  <2>11. \A e \in Events : FeedRowOK(e, feed'[e], outbox', processed')
    BY <1>1, <2>6, <2>7, <2>8
  <2>12. ASSUME inOrder'
         PROVE  /\ IsPrefix(processed', outbox')
                /\ \A e \in Events :
                      InOrderRowOK(e, feed'[e], outbox', processed')
    <3>1. inOrder
      BY <2>1, <2>12
    <3>2. \A e \in Events : InOrderRowOK(e, feed[e], outbox, processed)
      BY <3>1 DEF FeedInv
    <3> QED
      BY <1>1, <2>7, <2>8, <2>10, <2>12, <3>2
  <2> QED
    BY <2>8, <2>9, <2>11, <2>12 DEF FeedInv
<1> QED
  BY <1>2, <1>3

\* Every step of service, relay, projection and readers keeps the invariant.
LEMMA NextKeepsPipeline ==
    PipelineInv /\ [PipelineNext]_pipelineVars => PipelineInv'
<1> SUFFICES ASSUME PipelineInv, [PipelineNext]_pipelineVars
             PROVE  PipelineInv'
  OBVIOUS
<1>1. [Next]_vars
  BY DEF PipelineNext, HandleEnvelope, GetEventMiss, SetCache, ExpireCache,
         pipelineVars
<1>2. Inv' /\ HistoryOK'
  BY <1>1, NextKeepsInv, NextKeepsHistory DEF PipelineInv
<1>3. CASE UNCHANGED <<feed, processed, inOrder>>
  BY <1>1, <1>2, <1>3, CommitKeepsFeed DEF PipelineInv
<1>4. CASE \E i \in DOMAIN outbox : HandleEnvelope(i)
  BY <1>2, <1>4, HandleKeepsFeed DEF PipelineInv
<1> QED
  BY <1>2, <1>3, <1>4 DEF PipelineInv, PipelineNext, readSide, pipelineVars,
     GetEventMiss, SetCache, ExpireCache

\* PipelineInv holds of every reachable state of service and projection.
THEOREM PipelineInvariance == PipelineSpec => []PipelineInv
<1>1. PipelineInit => PipelineInv
  BY InitInv, InitHistory, InitFeed DEF PipelineInit, PipelineInv
<1> QED
  BY <1>1, NextKeepsPipeline, PTL DEF PipelineSpec

-----------------------------------------------------------------------------
(* The theorems.                                                           *)

\* Once the messages about an event are applied, every one of them was seen.
LEMMA DrainedSeen ==
    ASSUME NEW e \in Events, Inv, FeedInv, Drained(e)
    PROVE  /\ SeenUps(e, outbox, processed) = Ups(outbox, e)
           /\ SeenDowns(e, outbox, processed) = Downs(outbox, e)
           /\ SeenEvents(e, outbox, processed) = EventsIn(outbox, e)
BY DEF Drained, SeenUps, SeenDowns, SeenEvents, Ups, Downs, EventsIn,
       SeatTaken, SeatFreed, IsEventMessage

\* What the feed shows of a drained event.
LEMMA DrainedRow ==
    ASSUME NEW e \in Events, PipelineInv, Drained(e), events[e] # None
    PROVE  /\ feed[e] \in FeedEvent /\ feed[e] # None
           /\ IsPublished(e) => feed[e].count >= confirmedCount(regs[e])
           /\ inOrder => Shows(feed[e], events[e])
           /\ inOrder /\ IsPublished(e) =>
                  feed[e].count = confirmedCount(regs[e])
<1>1. /\ FeedRowOK(e, feed[e], outbox, processed)
      /\ feed[e] \in FeedEvent \cup {None}
      /\ History(e, events[e], regs[e], outbox)
  BY DEF PipelineInv, HistoryOK, FeedInv
<1>2. /\ SeenUps(e, outbox, processed) = Ups(outbox, e)
      /\ SeenDowns(e, outbox, processed) = Downs(outbox, e)
      /\ SeenEvents(e, outbox, processed) = EventsIn(outbox, e)
  BY DrainedSeen DEF PipelineInv
<1>3. PICK m \in EventsIn(outbox, e) :
        IsLast(EventsIn(outbox, e), m) /\ outbox[m].row = events[e]
  BY <1>1 DEF History, EventTold
<1>4. feed[e] # None /\ feed[e] \in FeedEvent
  BY <1>1, <1>2, <1>3 DEF FeedRowOK
<1>5. CountOf(feed[e]) = feed[e].count
  BY <1>4 DEF CountOf
<1>6. IsPublished(e) =>
        SeenCount(e, outbox, processed) = confirmedCount(regs[e])
  BY <1>1, <1>2 DEF IsPublished, History, SeatsCounted, SeenCount
<1>7. ASSUME inOrder PROVE InOrderRowOK(e, feed[e], outbox, processed)
  BY <1>7 DEF PipelineInv, FeedInv
<1>8. inOrder => Shows(feed[e], events[e])
  BY <1>2, <1>3, <1>7 DEF InOrderRowOK
<1> QED
  BY <1>1, <1>4, <1>5, <1>6, <1>7, <1>8 DEF FeedRowOK, InOrderRowOK

\* As long as messages are first applied in commit order, however often they
\* are delivered again, the feed agrees with the tables of the service about
\* every event whose messages are applied.
THEOREM InOrderConvergence == PipelineSpec => []FeedConvergesInOrder
<1>1. PipelineInv => FeedConvergesInOrder
  <2> SUFFICES ASSUME PipelineInv, inOrder, NEW e \in Events, Drained(e)
               PROVE  FeedMatches(e)
    BY DEF FeedConvergesInOrder, FeedConverges
  <2>1. CASE events[e] = None
    <3>1. \A i \in DOMAIN outbox : outbox[i].event # e
      BY <2>1 DEF PipelineInv, HistoryOK, History
    <3>2. DOMAIN outbox = 1 .. Len(outbox)
      BY LenProperties DEF PipelineInv, Inv, TypeOK
    <3>3. FeedRowOK(e, feed[e], outbox, processed)
            /\ processed \in SUBSET (1 .. Len(outbox))
      BY DEF PipelineInv, FeedInv
    <3>4. feed[e] = None
      BY <3>1, <3>2, <3>3 DEF FeedRowOK, Concerns
    <3> QED
      BY <2>1, <3>4 DEF FeedMatches
  <2>2. CASE events[e] # None
    BY <2>2, DrainedRow DEF FeedMatches, Shows
  <2> QED
    BY <2>1, <2>2
<1> QED
  BY <1>1, PipelineInvariance, PTL

\* In any order, and with duplicates, the floor at zero only forgets
\* decrements: the feed never shows a published event with fewer attendees
\* than it has, once the event's messages are applied.
THEOREM CountsNeverTooLow == PipelineSpec => []CountNeverTooLow
<1>1. PipelineInv => CountNeverTooLow
  BY DrainedRow DEF CountNeverTooLow, IsPublished
<1> QED
  BY <1>1, PipelineInvariance, PTL

=============================================================================
