------------------------ MODULE SeatRefinementProofs ------------------------
(***************************************************************************)
(* Proof that EventRegistration implements SeatAllocation, for every set   *)
(* of events, users, workers and every bound.                              *)
(***************************************************************************)
EXTENDS SeatRefinement, EventRegistrationProofs

-----------------------------------------------------------------------------
(* Places in the queue.                                                    *)

W(rows) == WithStatus(rows, {"WAITLISTED"})

\* Positions tell waitlisted rows apart: what InArrivalOrder gives.
LEMMA PositionsDiffer ==
    ASSUME NEW rows \in Seq(RegRow), InArrivalOrder(rows)
    PROVE  /\ \A i \in W(rows) : rows[i] \in RegRow /\ rows[i].pos \in Nat
           /\ \A i, j \in W(rows) :
                 i = j \/ rows[i].pos < rows[j].pos \/ rows[j].pos < rows[i].pos
<1>1. /\ DOMAIN rows = 1 .. Len(rows) /\ Len(rows) \in Nat
      /\ \A i \in DOMAIN rows : rows[i] \in RegRow
  BY LenProperties, ElementOfSeq
<1>2. \A i \in W(rows) : /\ i \in 1 .. Len(rows)
                         /\ rows[i] \in RegRow /\ rows[i].pos \in Nat
  BY <1>1 DEF W, WithStatus, RegRow
<1>3. \A i, j \in W(rows) : i < j => rows[i].pos < rows[j].pos
  BY DEF InArrivalOrder, W
<1>4. \A i, j \in W(rows) : i = j \/ i < j \/ j < i
  BY <1>2
<1> QED
  BY <1>2, <1>3, <1>4

\* A place is a number from 1 to the number of waitlisted rows.
LEMMA PlaceType ==
    ASSUME NEW rows \in Seq(RegRow), InArrivalOrder(rows), NEW i \in W(rows)
    PROVE  /\ IsFiniteSet(Ahead(rows, i))
           /\ Cardinality(Ahead(rows, i)) \in Nat
           /\ Place(rows, i) \in 1 .. Cardinality(W(rows))
<1>1. IsFiniteSet(W(rows)) /\ Cardinality(W(rows)) \in Nat
  BY CountType DEF W
<1>2. Ahead(rows, i) \in SUBSET W(rows) /\ i \notin Ahead(rows, i)
  <2>1. rows[i].pos \in Nat
    BY PositionsDiffer
  <2> QED
    BY <2>1 DEF Ahead, W
<1>3. /\ IsFiniteSet(Ahead(rows, i))
      /\ Cardinality(Ahead(rows, i)) <= Cardinality(W(rows))
      /\ Cardinality(Ahead(rows, i)) = Cardinality(W(rows)) =>
             Ahead(rows, i) = W(rows)
  BY <1>1, <1>2, FS_Subset
<1>4. Cardinality(Ahead(rows, i)) \in Nat
  BY <1>3, FS_CardinalityType
<1>5. Cardinality(Ahead(rows, i)) # Cardinality(W(rows))
  BY <1>2, <1>3
<1> QED
  BY <1>1, <1>3, <1>4, <1>5 DEF Place

\* Who has the smaller position has the earlier place.
LEMMA PlacesInOrder ==
    ASSUME NEW rows \in Seq(RegRow), InArrivalOrder(rows),
           NEW i \in W(rows), NEW j \in W(rows), rows[i].pos < rows[j].pos
    PROVE  Place(rows, i) < Place(rows, j)
<1>1. /\ IsFiniteSet(Ahead(rows, i)) /\ Cardinality(Ahead(rows, i)) \in Nat
      /\ IsFiniteSet(Ahead(rows, j)) /\ Cardinality(Ahead(rows, j)) \in Nat
  BY PlaceType
<1>2. \A k \in W(rows) : rows[k].pos \in Nat
  BY PositionsDiffer
<1>3. /\ Ahead(rows, i) \in SUBSET Ahead(rows, j)
      /\ i \in Ahead(rows, j) /\ i \notin Ahead(rows, i)
  BY <1>2 DEF Ahead, W
<1>4. /\ Cardinality(Ahead(rows, i)) <= Cardinality(Ahead(rows, j))
      /\ Cardinality(Ahead(rows, i)) # Cardinality(Ahead(rows, j))
  BY <1>1, <1>3, FS_Subset
<1> QED
  BY <1>1, <1>4 DEF Place

\* Two waitlisted rows never share a place.
LEMMA PlacesDiffer ==
    ASSUME NEW rows \in Seq(RegRow), InArrivalOrder(rows),
           NEW i \in W(rows), NEW j \in W(rows),
           Place(rows, i) = Place(rows, j)
    PROVE  i = j
<1>1. /\ Place(rows, i) \in 1 .. Cardinality(W(rows))
      /\ Place(rows, j) \in 1 .. Cardinality(W(rows))
      /\ Cardinality(W(rows)) \in Nat
  BY PlaceType, CountType DEF W
<1>2. /\ ~(Place(rows, i) < Place(rows, j))
      /\ ~(Place(rows, j) < Place(rows, i))
  BY <1>1
<1> QED
  BY <1>2, PositionsDiffer, PlacesInOrder

\* Every place is taken: there are as many places as waitlisted rows.
LEMMA PlacesTaken ==
    ASSUME NEW rows \in Seq(RegRow), InArrivalOrder(rows),
           NEW k \in 1 .. Cardinality(W(rows))
    PROVE  \E i \in W(rows) : Place(rows, i) = k
<1> DEFINE T == 1 .. Cardinality(W(rows))
           f == [i \in W(rows) |-> Place(rows, i)]
<1>1. IsFiniteSet(W(rows)) /\ Cardinality(W(rows)) \in Nat
  BY CountType DEF W
<1>2. IsFiniteSet(T) /\ Cardinality(T) = Cardinality(W(rows))
  BY <1>1, FS_Interval
<1>3. f \in Injection(W(rows), T)
  <2>1. f \in [W(rows) -> T]
    BY PlaceType
  <2>2. \A i, j \in W(rows) : f[i] = f[j] => i = j
    BY PlacesDiffer
  <2> HIDE DEF f, T
  <2> QED
    BY <2>1, <2>2 DEF Injection, IsInjective
<1>4. f \in Surjection(W(rows), T)
  <2> HIDE DEF f, T
  <2> QED
    BY <1>1, <1>2, <1>3, FS_Injection
<1>5. \E i \in W(rows) : f[i] = k
  <2>1. k \in T
    OBVIOUS
  <2> HIDE DEF f, T
  <2> QED
    BY <1>4, <2>1 DEF Surjection
<1> QED
  BY <1>5

-----------------------------------------------------------------------------
(* The queue.                                                              *)

\* What determines a queue: as long as there are waitlisted rows, and each
\* row's user at the row's place.
IsQueueOf(q, rows) ==
    /\ q \in Seq(Users)
    /\ Len(q) = Cardinality(W(rows))
    /\ \A i \in W(rows) : q[Place(rows, i)] = rows[i].user

\* QueueOf is a queue of the waitlisted rows by place.
LEMMA QueueIsQueue ==
    ASSUME NEW rows \in Seq(RegRow), InArrivalOrder(rows)
    PROVE  IsQueueOf(QueueOf(rows), rows)
<1> DEFINE n == Cardinality(W(rows))
           row(k) == CHOOSE i \in W(rows) : Place(rows, i) = k
           q == [k \in 1 .. n |-> rows[row(k)].user]
<1>1. n \in Nat
  BY CountType DEF W
<1>2. ASSUME NEW k \in 1 .. n
      PROVE  row(k) \in W(rows) /\ Place(rows, row(k)) = k
  BY PlacesTaken
<1>3. \A i \in W(rows) : rows[i].user \in Users
  BY PositionsDiffer DEF RegRow
<1>4. q \in [1 .. n -> Users]
  BY <1>2, <1>3
<1>5. q \in Seq(Users) /\ Len(q) = n
  <2> HIDE DEF q, n
  <2> QED
    BY <1>1, <1>4, IsASeq
<1>6. ASSUME NEW i \in W(rows)
      PROVE  q[Place(rows, i)] = rows[i].user
  <2>1. Place(rows, i) \in 1 .. n
    BY PlaceType
  <2>2. row(Place(rows, i)) = i
    BY <1>2, <2>1, PlacesDiffer
  <2> QED
    BY <2>1, <2>2
<1>7. QueueOf(rows) = q
  BY DEF QueueOf, W
<1> QED
  BY <1>5, <1>6, <1>7 DEF IsQueueOf

\* A sequence that is a queue of the rows is QueueOf.
LEMMA QueueUnique ==
    ASSUME NEW rows \in Seq(RegRow), InArrivalOrder(rows),
           NEW p, IsQueueOf(p, rows)
    PROVE  QueueOf(rows) = p
<1> DEFINE q == QueueOf(rows)
<1>1. IsQueueOf(q, rows)
  BY QueueIsQueue
<1> HIDE DEF q
<1>2. /\ p \in Seq(Users) /\ q \in Seq(Users)
      /\ Len(p) = Cardinality(W(rows)) /\ Len(q) = Cardinality(W(rows))
  BY <1>1 DEF IsQueueOf
<1>3. ASSUME NEW k \in 1 .. Len(p)
      PROVE  p[k] = q[k]
  <2>1. k \in 1 .. Cardinality(W(rows))
    BY <1>2
  <2>2. PICK i \in W(rows) : Place(rows, i) = k
    BY <2>1, PlacesTaken
  <2> QED
    BY <1>1, <2>2 DEF IsQueueOf
<1>4. p = q
  BY <1>2, <1>3, SeqEqual
<1> QED
  BY <1>4 DEF q

\* A change that leaves the waitlisted rows alone leaves the queue alone.
LEMMA QueueStays ==
    ASSUME NEW rows \in Seq(RegRow), InArrivalOrder(rows),
           NEW new \in Seq(RegRow), InArrivalOrder(new),
           W(new) = W(rows), \A i \in W(rows) : new[i] = rows[i]
    PROVE  QueueOf(new) = QueueOf(rows)
<1>1. \A i \in W(rows) : Ahead(new, i) = Ahead(rows, i)
  BY DEF Ahead, W
<1>2. \A i \in W(rows) : Place(new, i) = Place(rows, i)
  BY <1>1 DEF Place
<1>3. IsQueueOf(QueueOf(rows), rows)
  BY QueueIsQueue
<1>4. IsQueueOf(QueueOf(rows), new)
  BY <1>2, <1>3 DEF IsQueueOf
<1> QED
  BY <1>4, QueueUnique

\* A row with a greater position than all others is last in the queue.
LEMMA QueueGrows ==
    ASSUME NEW rows \in Seq(RegRow), InArrivalOrder(rows),
           NEW new \in Seq(RegRow), InArrivalOrder(new),
           NEW last, last \notin W(rows), W(new) = W(rows) \cup {last},
           \A i \in W(rows) : new[i] = rows[i] /\ rows[i].pos < new[last].pos
    PROVE  QueueOf(new) = Append(QueueOf(rows), new[last].user)
<1> DEFINE q == QueueOf(rows)
           u == new[last].user
           p == Append(q, u)
<1>1. IsQueueOf(q, rows)
  BY QueueIsQueue
<1>2. /\ IsFiniteSet(W(rows)) /\ Cardinality(W(rows)) \in Nat
      /\ Cardinality(W(new)) = Cardinality(W(rows)) + 1
  BY CountType, FS_AddElement DEF W
<1>3. /\ \A i \in W(rows) : rows[i].pos \in Nat
      /\ new[last].pos \in Nat
      /\ u \in Users
  BY PositionsDiffer DEF RegRow
<1>4. /\ \A i \in W(rows) : Ahead(new, i) = Ahead(rows, i)
      /\ Ahead(new, last) = W(rows)
  BY <1>3 DEF Ahead, W
<1>5. /\ \A i \in W(rows) : Place(new, i) = Place(rows, i)
      /\ Place(new, last) = Cardinality(W(rows)) + 1
  BY <1>2, <1>4 DEF Place
<1>6. q \in Seq(Users) /\ Len(q) = Cardinality(W(rows))
  BY <1>1 DEF IsQueueOf
<1> HIDE DEF q, u
<1>7. /\ p \in Seq(Users)
      /\ Len(p) = Cardinality(W(new))
      /\ \A k \in 1 .. Len(q) : p[k] = q[k]
      /\ p[Len(q) + 1] = u
  BY <1>2, <1>3, <1>6, AppendProperties
<1> HIDE DEF p
<1>8. ASSUME NEW i \in W(new)
      PROVE  p[Place(new, i)] = new[i].user
  <2>1. CASE i = last
    BY <1>5, <1>6, <1>7, <2>1 DEF u
  <2>2. CASE i \in W(rows)
    <3>1. Place(rows, i) \in 1 .. Len(q)
      BY <1>6, <2>2, PlaceType
    <3>2. q[Place(rows, i)] = rows[i].user
      BY <1>1, <2>2 DEF IsQueueOf
    <3> QED
      BY <1>5, <1>7, <2>2, <3>1, <3>2
  <2> QED
    BY <2>1, <2>2
<1>9. IsQueueOf(p, new)
  BY <1>7, <1>8 DEF IsQueueOf
<1>10. QueueOf(new) = p
  BY <1>9, QueueUnique
<1> QED
  BY <1>10 DEF p, q, u

\* A queue without the user at place r.
Without(q, r) ==
    [k \in 1 .. Len(q) - 1 |-> IF k < r THEN q[k] ELSE q[k + 1]]

\* A row that is no longer waitlisted leaves its place to those behind it.
LEMMA QueueShrinks ==
    ASSUME NEW rows \in Seq(RegRow), InArrivalOrder(rows),
           NEW new \in Seq(RegRow), InArrivalOrder(new),
           NEW i \in W(rows), W(new) = W(rows) \ {i},
           \A j \in W(new) : new[j] = rows[j]
    PROVE  QueueOf(new) = Without(QueueOf(rows), Place(rows, i))
<1> DEFINE q == QueueOf(rows)
           n == Len(q)
           r == Place(rows, i)
           p == Without(q, r)
<1>1. IsQueueOf(q, rows)
  BY QueueIsQueue
<1>2. q \in Seq(Users) /\ n = Cardinality(W(rows)) /\ n \in Nat
  BY <1>1, LenProperties DEF IsQueueOf
<1>3. r \in 1 .. n
  BY <1>2, PlaceType
<1>4. Cardinality(W(new)) = n - 1
  BY <1>2, CountType, FS_RemoveElement DEF W
<1> HIDE DEF q
<1>5. p \in Seq(Users) /\ Len(p) = n - 1
  <2>1. \A k \in 1 .. n : q[k] \in Users
    BY <1>2, ElementOfSeq
  <2>2. p \in [1 .. n - 1 -> Users]
    BY <1>2, <1>3, <2>1 DEF Without
  <2>3. n - 1 \in Nat
    BY <1>2, <1>3
  <2> HIDE DEF p, n
  <2> QED
    BY <2>2, <2>3, IsASeq
<1>6. ASSUME NEW j \in W(new)
      PROVE  p[Place(new, j)] = new[j].user
  <2>1. j \in W(rows) /\ j # i /\ new[j] = rows[j]
    OBVIOUS
  <2>2. /\ Place(rows, j) \in 1 .. n
        /\ Place(new, j) \in 1 .. n - 1
        /\ q[Place(rows, j)] = rows[j].user
    BY <1>1, <1>2, <1>4, <2>1, PlaceType DEF IsQueueOf
  <2>3. /\ IsFiniteSet(Ahead(rows, j))
        /\ Cardinality(Ahead(rows, j)) \in Nat
    BY <2>1, PlaceType
  <2>4. CASE rows[j].pos < rows[i].pos
    <3>1. Place(rows, j) < r
      BY <2>1, <2>4, PlacesInOrder
    <3>2. Ahead(new, j) = Ahead(rows, j)
      <4>1. ~(rows[i].pos < rows[j].pos)
        BY <2>1, <2>4, PositionsDiffer
      <4> QED
        BY <2>1, <4>1 DEF Ahead, W
    <3>3. Place(new, j) = Place(rows, j)
      BY <3>2 DEF Place
    <3> HIDE DEF r, n
    <3> QED
      BY <1>2, <1>3, <2>1, <2>2, <3>1, <3>3 DEF Without, n
  <2>5. CASE rows[i].pos < rows[j].pos
    <3>1. r < Place(rows, j)
      BY <2>1, <2>5, PlacesInOrder
    <3>2. Ahead(new, j) = Ahead(rows, j) \ {i} /\ i \in Ahead(rows, j)
      BY <2>1, <2>5 DEF Ahead, W
    <3>3. Cardinality(Ahead(new, j)) = Cardinality(Ahead(rows, j)) - 1
      BY <2>3, <3>2, FS_RemoveElement
    <3>4. Place(new, j) = Place(rows, j) - 1
      BY <2>3, <3>3 DEF Place
    <3> HIDE DEF r, n
    <3> QED
      BY <1>2, <1>3, <2>1, <2>2, <3>1, <3>4 DEF Without, n
  <2> QED
    BY <2>1, <2>4, <2>5, PositionsDiffer
<1>7. IsQueueOf(p, new)
  BY <1>4, <1>5, <1>6 DEF IsQueueOf
<1>8. QueueOf(new) = p
  <2> HIDE DEF p
  <2> QED
    BY <1>7, QueueUnique
<1> QED
  BY <1>8 DEF q

-----------------------------------------------------------------------------
(* What each change of an event's rows is for its seats and its queue.     *)

\* SeatAllocation counts users, the service rows.
LEMMA UsersAreRows ==
    ASSUME NEW rows \in Seq(RegRow), OneActivePerUser(rows)
    PROVE  Cardinality(SeatsOf(rows)) = confirmedCount(rows)
<1> DEFINE C == WithStatus(rows, {"CONFIRMED"})
           f == [i \in C |-> rows[i].user]
<1>1. IsFiniteSet(C)
  BY CountType
<1>2. \A i, j \in C : rows[i].user = rows[j].user => i = j
  BY DEF OneActivePerUser, WithStatus, Active
<1>3. f \in Bijection(C, SeatsOf(rows))
  BY <1>2 DEF Bijection, Injection, Surjection, IsInjective, SeatsOf
<1>4. ExistsBijection(C, SeatsOf(rows))
  BY <1>3 DEF ExistsBijection
<1>5. Cardinality(SeatsOf(rows)) = Cardinality(C)
  BY <1>1, <1>4, FS_Bijection
<1> QED
  BY <1>5 DEF confirmedCount

\* Who has no active registration has no seat and is not in the queue.
LEMMA NotActiveNotThere ==
    ASSUME NEW rows \in Seq(RegRow), InArrivalOrder(rows), NEW u,
           activeRegistration(rows, u) = {}
    PROVE  /\ u \notin SeatsOf(rows)
           /\ \A k \in DOMAIN QueueOf(rows) : QueueOf(rows)[k] # u
<1> DEFINE q == QueueOf(rows)
<1>1. /\ \A i \in WithStatus(rows, {"CONFIRMED"}) : rows[i].user # u
      /\ \A i \in W(rows) : rows[i].user # u
  BY DEF activeRegistration, WithStatus, Active, W
<1>2. IsQueueOf(q, rows)
  BY QueueIsQueue
<1> HIDE DEF q
<1>3. ASSUME NEW k \in DOMAIN q
      PROVE  q[k] # u
  <2>1. k \in 1 .. Cardinality(W(rows))
    BY <1>2, LenProperties DEF IsQueueOf
  <2>2. PICK i \in W(rows) : Place(rows, i) = k
    BY <2>1, PlacesTaken
  <2> QED
    BY <1>1, <1>2, <2>2 DEF IsQueueOf
<1> QED
  BY <1>1, <1>3 DEF q, SeatsOf

\* A confirmed join takes a seat.
LEMMA JoinTakesSeat ==
    ASSUME NEW rows \in Seq(RegRow), InArrivalOrder(rows),
           NEW new \in RegRow, new.status = "CONFIRMED",
           InArrivalOrder(Append(rows, new))
    PROVE  /\ SeatsOf(Append(rows, new)) = SeatsOf(rows) \cup {new.user}
           /\ QueueOf(Append(rows, new)) = QueueOf(rows)
<1> DEFINE after == Append(rows, new)
           last == Len(rows) + 1
<1>1. /\ after \in Seq(RegRow)
      /\ \A i \in DOMAIN rows : after[i] = rows[i]
      /\ after[last] = new
  BY AppendedRows
<1>2. /\ W(after) = W(rows)
      /\ WithStatus(after, {"CONFIRMED"}) =
            WithStatus(rows, {"CONFIRMED"}) \cup {last}
  BY AppendedStatus DEF W
<1>3. \A S : WithStatus(rows, S) \subseteq DOMAIN rows
  BY DEF WithStatus
<1> HIDE DEF after, last
<1>4. QueueOf(after) = QueueOf(rows)
  <2>1. \A i \in W(rows) : after[i] = rows[i]
    BY <1>1, <1>3 DEF W
  <2>2. InArrivalOrder(after)
    BY DEF after
  <2> QED
    BY <1>1, <1>2, <2>1, <2>2, QueueStays
<1>5. SeatsOf(after) = SeatsOf(rows) \cup {new.user}
  BY <1>1, <1>2, <1>3 DEF SeatsOf
<1> QED
  BY <1>4, <1>5 DEF after

\* A waitlisted join goes to the end of the queue: its position is greater
\* than that of every row.
LEMMA JoinQueues ==
    ASSUME NEW rows \in Seq(RegRow), InArrivalOrder(rows),
           PositionsBounded(rows),
           NEW new \in RegRow, new.status = "WAITLISTED",
           new.pos = nextWaitlistPosition(rows),
           InArrivalOrder(Append(rows, new))
    PROVE  /\ SeatsOf(Append(rows, new)) = SeatsOf(rows)
           /\ QueueOf(Append(rows, new)) = Append(QueueOf(rows), new.user)
<1> DEFINE after == Append(rows, new)
           last == Len(rows) + 1
<1>1. /\ after \in Seq(RegRow)
      /\ \A i \in DOMAIN rows : after[i] = rows[i]
      /\ after[last] = new
      /\ last \notin DOMAIN rows
  BY AppendedRows
<1>2. /\ W(after) = W(rows) \cup {last}
      /\ WithStatus(after, {"CONFIRMED"}) = WithStatus(rows, {"CONFIRMED"})
  BY AppendedStatus DEF W
<1>3. \A S : WithStatus(rows, S) \subseteq DOMAIN rows
  BY DEF WithStatus
<1>4. \A i \in DOMAIN rows : rows[i].pos < new.pos
  BY NextPosition
<1> HIDE DEF after, last
<1>5. QueueOf(after) = Append(QueueOf(rows), after[last].user)
  <2>1. /\ \A i \in W(rows) : after[i] = rows[i] /\ rows[i].pos < after[last].pos
        /\ last \notin W(rows)
    BY <1>1, <1>3, <1>4 DEF W
  <2>2. InArrivalOrder(after)
    BY DEF after
  <2> QED
    BY <1>1, <1>2, <2>1, <2>2, QueueGrows
<1>6. SeatsOf(after) = SeatsOf(rows)
  BY <1>1, <1>2, <1>3 DEF SeatsOf
<1> QED
  BY <1>1, <1>5, <1>6 DEF after

\* A canceled confirmed registration frees its user's seat.
LEMMA CancelFreesSeat ==
    ASSUME NEW rows \in Seq(RegRow), InArrivalOrder(rows),
           OneActivePerUser(rows),
           NEW i \in WithStatus(rows, {"CONFIRMED"}), NEW t \in Nat,
           NEW new, new = SetStatus(rows, i, "CANCELED", t),
           InArrivalOrder(new)
    PROVE  /\ SeatsOf(new) = SeatsOf(rows) \ {rows[i].user}
           /\ QueueOf(new) = QueueOf(rows)
<1>1. i \in DOMAIN rows /\ rows[i].status = "CONFIRMED"
  BY DEF WithStatus
<1>2. /\ new \in Seq(RegRow)
      /\ DOMAIN new = DOMAIN rows
      /\ \A j \in DOMAIN rows : j # i => new[j] = rows[j]
      /\ new[i].status = "CANCELED"
  BY <1>1, CanceledRows, Z3
<1>3. /\ W(new) = W(rows)
      /\ WithStatus(new, {"CONFIRMED"}) = WithStatus(rows, {"CONFIRMED"}) \ {i}
      /\ \A j \in W(rows) : new[j] = rows[j]
      /\ \A j \in WithStatus(new, {"CONFIRMED"}) : new[j] = rows[j]
  BY <1>1, <1>2 DEF WithStatus, W
<1>4. \A j \in WithStatus(rows, {"CONFIRMED"}) :
        rows[j].user = rows[i].user => j = i
  BY DEF OneActivePerUser, WithStatus, Active
<1>5. SeatsOf(new) = SeatsOf(rows) \ {rows[i].user}
  BY <1>3, <1>4 DEF SeatsOf
<1> QED
  BY <1>2, <1>3, <1>5, QueueStays

\* A canceled waitlisted registration leaves the queue.
LEMMA CancelLeavesQueue ==
    ASSUME NEW rows \in Seq(RegRow), InArrivalOrder(rows),
           NEW i \in W(rows), NEW t \in Nat,
           NEW new, new = SetStatus(rows, i, "CANCELED", t),
           InArrivalOrder(new)
    PROVE  /\ SeatsOf(new) = SeatsOf(rows)
           /\ QueueOf(new) = Without(QueueOf(rows), Place(rows, i))
<1>1. i \in DOMAIN rows /\ rows[i].status = "WAITLISTED"
  BY DEF WithStatus, W
<1>2. /\ new \in Seq(RegRow)
      /\ DOMAIN new = DOMAIN rows
      /\ \A j \in DOMAIN rows : j # i => new[j] = rows[j]
      /\ new[i].status = "CANCELED"
  BY <1>1, CanceledRows, Z3
<1>3. /\ W(new) = W(rows) \ {i}
      /\ WithStatus(new, {"CONFIRMED"}) = WithStatus(rows, {"CONFIRMED"})
      /\ \A j \in W(new) : new[j] = rows[j]
      /\ \A j \in WithStatus(new, {"CONFIRMED"}) : new[j] = rows[j]
  BY <1>1, <1>2 DEF WithStatus, W
<1>4. SeatsOf(new) = SeatsOf(rows)
  BY <1>3 DEF SeatsOf
<1> QED
  BY <1>2, <1>3, <1>4, QueueShrinks

\* The row firstWaitlistedTx finds is the head of the queue.
LEMMA FirstIsHead ==
    ASSUME NEW rows \in Seq(RegRow), InArrivalOrder(rows),
           NEW p \in firstWaitlisted(rows)
    PROVE  /\ p \in W(rows)
           /\ Place(rows, p) = 1
           /\ QueueOf(rows) # <<>>
           /\ QueueOf(rows)[1] = rows[p].user
<1>1. p \in W(rows) /\ \A j \in W(rows) : rows[p].pos <= rows[j].pos
  <2>1. p \in W(rows)
    BY DEF firstWaitlisted, W
  <2>2. \A j \in W(rows) : rows[p].pos < rows[j].pos \/ rows[p].pos = rows[j].pos
    BY DEF firstWaitlisted, W
  <2> QED
    BY <2>1, <2>2, PositionsDiffer
<1>2. Ahead(rows, p) = {}
  <2>1. \A j \in W(rows) : ~(rows[j].pos < rows[p].pos)
    BY <1>1, PositionsDiffer
  <2> QED
    BY <2>1 DEF Ahead, W
<1>3. Place(rows, p) = 1
  BY <1>2, FS_EmptySet DEF Place
<1>4. /\ QueueOf(rows) \in Seq(Users)
      /\ Len(QueueOf(rows)) = Cardinality(W(rows))
      /\ QueueOf(rows)[1] = rows[p].user
  BY <1>1, <1>3, QueueIsQueue DEF IsQueueOf
<1>5. 1 \in 1 .. Cardinality(W(rows))
  BY <1>1, <1>3, PlaceType
<1>6. QueueOf(rows) # <<>>
  BY <1>4, <1>5
<1> QED
  BY <1>1, <1>3, <1>4, <1>6

\* The queue is empty when no row is waitlisted.
LEMMA NobodyQueued ==
    ASSUME NEW rows, W(rows) = {}
    PROVE  QueueOf(rows) = <<>>
<1>1. Cardinality(W(rows)) = 0
  BY FS_EmptySet
<1>2. 1 .. 0 = {}
  OBVIOUS
<1> QED
  BY <1>1, <1>2 DEF QueueOf, W

\* A promotion hands the canceled user's seat to the head of the queue.
LEMMA PromoteHandsOn ==
    ASSUME NEW row \in EventRow \cup {None}, NEW rows \in Seq(RegRow),
           RowsOK(row, rows),
           NEW i \in WithStatus(rows, {"CONFIRMED"}),
           NEW p \in firstWaitlisted(rows), NEW t \in Nat,
           NEW new, new = SetStatus(SetStatus(rows, i, "CANCELED", t),
                                    p, "CONFIRMED", t)
    PROVE  /\ SeatsOf(new) = (SeatsOf(rows) \ {rows[i].user})
                                \cup {rows[p].user}
           /\ QueueOf(new) = Without(QueueOf(rows), Place(rows, p))
<1> DEFINE mid == SetStatus(rows, i, "CANCELED", t)
<1>0. new = SetStatus(mid, p, "CONFIRMED", t)
  OBVIOUS
<1>1. /\ i \in DOMAIN rows /\ p \in DOMAIN rows /\ i # p
      /\ rows[i].status = "CONFIRMED" /\ rows[p].status = "WAITLISTED"
      /\ p \in W(rows)
  BY DEF WithStatus, firstWaitlisted, W
<1>2. /\ mid \in Seq(RegRow)
      /\ DOMAIN mid = DOMAIN rows
      /\ \A j \in DOMAIN rows : j # i => mid[j] = rows[j]
      /\ mid[i].status = "CANCELED"
  <2>1. rows \in Seq(RegRow) /\ i \in DOMAIN rows /\ t \in Nat
    BY <1>1
  <2>2. mid = SetStatus(rows, i, "CANCELED", t)
    OBVIOUS
  <2> QED
    <3> HIDE DEF mid
    <3> QED
      BY <2>1, <2>2, CanceledRows, Z3
<1> HIDE DEF mid
<1>3. /\ new \in Seq(RegRow)
      /\ DOMAIN new = DOMAIN mid
      /\ \A j \in DOMAIN mid : j # p => new[j] = mid[j]
      /\ new[p].user = mid[p].user
      /\ new[p].status = "CONFIRMED"
  <2> DEFINE after == SetStatus(mid, p, "CONFIRMED", t)
  <2>1. /\ mid \in Seq(RegRow) /\ p \in DOMAIN mid
        /\ "CONFIRMED" \in Active \cup {"CANCELED"}
    BY <1>1, <1>2 DEF Active
  <2>2. /\ after \in Seq(RegRow)
        /\ DOMAIN after = DOMAIN mid
        /\ \A j \in DOMAIN mid : j # p => after[j] = mid[j]
        /\ after[p].user = mid[p].user
        /\ after[p].status = "CONFIRMED"
    BY <2>1, SetStatusRows
  <2> HIDE DEF after
  <2>3. new = after
    BY <1>0 DEF after
  <2> QED
    BY <2>2, <2>3
<1>4. InArrivalOrder(rows) /\ OneActivePerUser(rows)
  BY DEF RowsOK
<1>5. InArrivalOrder(new)
  <2>1. p \in WithStatus(rows, {"WAITLISTED"})
    BY <1>1 DEF W
  <2> QED
    BY <1>0, <2>1, PromoteKeepsRows DEF RowsOK, mid
<1>6. /\ W(new) = W(rows) \ {p}
      /\ \A j \in W(new) : new[j] = rows[j]
      /\ WithStatus(new, {"CONFIRMED"}) =
            (WithStatus(rows, {"CONFIRMED"}) \ {i}) \cup {p}
      /\ \A j \in WithStatus(rows, {"CONFIRMED"}) \ {i} : new[j] = rows[j]
      /\ new[p].user = rows[p].user
  BY <1>1, <1>2, <1>3 DEF WithStatus, W
<1>7. \A j \in WithStatus(rows, {"CONFIRMED"}) :
        rows[j].user = rows[i].user => j = i
  BY <1>4 DEF OneActivePerUser, WithStatus, Active
<1>8. SeatsOf(new) = (SeatsOf(rows) \ {rows[i].user}) \cup {rows[p].user}
  BY <1>6, <1>7 DEF SeatsOf
<1> QED
  BY <1>1, <1>3, <1>4, <1>5, <1>6, <1>8, QueueShrinks

\* After the bulk UPDATE nobody has a seat or waits for one.
LEMMA CancelActiveEmpties ==
    ASSUME NEW rows \in Seq(RegRow), PositionsBounded(rows), NEW t \in Nat
    PROVE  /\ SeatsOf(CancelActive(rows, t)) = {}
           /\ QueueOf(CancelActive(rows, t)) = <<>>
<1> DEFINE after == CancelActive(rows, t)
<1>1. RowsOK(None, after)
  BY CancelActiveKeepsRows
<1> HIDE DEF after
<1>2. WithStatus(after, Active) = {}
  BY <1>1 DEF RowsOK, EmptyUnlessPublished
<1>3. WithStatus(after, {"CONFIRMED"}) = {} /\ W(after) = {}
  BY <1>2, NoActiveNoSeats DEF W
<1> QED
  BY <1>3, NobodyQueued DEF SeatsOf, after

\* A queue without its head is its tail.
LEMMA WithoutHead ==
    ASSUME NEW q \in Seq(Users), q # <<>>
    PROVE  Without(q, 1) = Tail(q)
<1>1. /\ Tail(q) \in Seq(Users) /\ Len(Tail(q)) = Len(q) - 1
      /\ \A k \in 1 .. Len(q) - 1 : Tail(q)[k] = q[k + 1]
      /\ Len(q) \in Nat
  BY HeadTailProperties, LenProperties
<1>2. DOMAIN Tail(q) = 1 .. Len(q) - 1
  BY <1>1, LenProperties
<1>3. Tail(q) = [k \in 1 .. Len(q) - 1 |-> Tail(q)[k]]
  BY <1>1, <1>2, LenProperties
<1>4. \A k \in 1 .. Len(q) - 1 : ~(k < 1)
  BY <1>1
<1> QED
  BY <1>1, <1>3, <1>4 DEF Without

\* Taking out the user at place r is what SeatAllocation does.
LEMMA WithoutIsRemoveAt ==
    ASSUME NEW q \in Seq(Users), NEW r \in 1 .. Len(q)
    PROVE  Without(q, r) = Seats!RemoveAt(q, r)
<1> DEFINE a == SubSeq(q, 1, r - 1)
           b == SubSeq(q, r + 1, Len(q))
           n == Len(q)
<1>1. n \in Nat /\ r \in Nat /\ r >= 1 /\ r <= n
      /\ \A k \in 1 .. n : q[k] \in Users
  BY LenProperties, ElementOfSeq
<1>2. /\ a \in Seq(Users) /\ Len(a) = r - 1
      /\ \A k \in 1 .. r - 1 : a[k] = q[k]
  <2>1. \A k \in 1 .. r - 1 : q[k] \in Users
    BY <1>1
  <2>2. /\ a \in Seq(Users)
        /\ Len(a) = IF 1 <= r - 1 THEN r - 1 - 1 + 1 ELSE 0
        /\ \A k \in 1 .. r - 1 - 1 + 1 : a[k] = q[1 + k - 1]
    BY <1>1, <2>1, SubSeqProperties
  <2> QED
    BY <1>1, <2>2
<1>3. /\ b \in Seq(Users) /\ Len(b) = n - r
      /\ \A k \in 1 .. n - r : b[k] = q[r + k]
  <2>1. \A k \in r + 1 .. n : q[k] \in Users
    BY <1>1
  <2>2. /\ b \in Seq(Users)
        /\ Len(b) = IF r + 1 <= n THEN n - (r + 1) + 1 ELSE 0
        /\ \A k \in 1 .. n - (r + 1) + 1 : b[k] = q[r + 1 + k - 1]
    BY <1>1, <2>1, SubSeqProperties
  <2> QED
    BY <1>1, <2>2
<1> HIDE DEF a, b, n
<1>4. /\ a \o b \in Seq(Users)
      /\ Len(a \o b) = n - 1
      /\ \A k \in 1 .. n - 1 :
            (a \o b)[k] = IF k <= r - 1 THEN a[k] ELSE b[k - (r - 1)]
  <2>1. Len(a) + Len(b) = n - 1
    BY <1>1, <1>2, <1>3
  <2> QED
    BY <1>2, <1>3, <2>1, ConcatProperties
<1>5. ASSUME NEW k \in 1 .. n - 1
      PROVE  (a \o b)[k] = IF k < r THEN q[k] ELSE q[k + 1]
  <2>1. CASE k < r
    BY <1>1, <1>2, <1>4, <2>1
  <2>2. CASE ~(k < r)
    <3>1. k - (r - 1) \in 1 .. n - r /\ ~(k <= r - 1)
      BY <1>1, <2>2
    <3>2. r + (k - (r - 1)) = k + 1
      BY <1>1
    <3> QED
      BY <1>3, <1>4, <2>2, <3>1, <3>2
  <2> QED
    BY <2>1, <2>2
<1>6. DOMAIN (a \o b) = 1 .. n - 1
  BY <1>4, LenProperties
<1>7. a \o b = [k \in 1 .. n - 1 |-> (a \o b)[k]]
  BY <1>4, <1>6, LenProperties
<1>8. a \o b = Without(q, r)
  BY <1>5, <1>7 DEF Without, n
<1> QED
  BY <1>8 DEF Seats!RemoveAt, a, b, n

-----------------------------------------------------------------------------
(* The steps of the mapping.                                               *)

\* A step that changes one event's row and registrations.
Changes(e, row, rows) ==
    /\ events' = [events EXCEPT ![e] = row]
    /\ regs' = [regs EXCEPT ![e] = rows]

\* What a change of one event's row and registrations is to SeatAllocation.
LEMMA MappedStep ==
    ASSUME TypeOK, NEW e \in Events, NEW row, NEW rows,
           Changes(e, row, rows)
    PROVE  /\ state' = [state EXCEPT ![e] = StateOf(row)]
           /\ places' = [places EXCEPT ![e] = PlacesOf(row)]
           /\ seats' = [seats EXCEPT ![e] = SeatsOf(rows)]
           /\ queue' = [queue EXCEPT ![e] = QueueOf(rows)]
           /\ StateOf(row) = StateOf(events[e]) => UNCHANGED state
           /\ PlacesOf(row) = PlacesOf(events[e]) => UNCHANGED places
           /\ SeatsOf(rows) = SeatsOf(regs[e]) => UNCHANGED seats
           /\ QueueOf(rows) = QueueOf(regs[e]) => UNCHANGED queue
BY DEF Changes, TypeOK, state, places, seats, queue

\* The mapped variables at one event.
LEMMA MappedValues ==
    ASSUME NEW e \in Events
    PROVE  /\ state[e] = StateOf(events[e])
           /\ places[e] = PlacesOf(events[e])
           /\ seats[e] = SeatsOf(regs[e])
           /\ queue[e] = QueueOf(regs[e])
BY DEF state, places, seats, queue

\* SeatAllocation counts with an instance of FiniteSets of its own.
LEMMA SameCardinality ==
    ASSUME NEW S
    PROVE  Seats!Cardinality(S) = Cardinality(S)
BY DEF Seats!Cardinality, Cardinality

\* One step per kind of request, each as a change of one event.
LEMMA IsPublish ==
    ASSUME TypeOK, NEW e \in Events, NEW row \in EventRow,
           Changes(e, row, regs[e]),
           events[e] = None, row.status = "PUBLISHED",
           row.capacity \in Capacities
    PROVE  Seats!Publish(e)
<1>1. /\ StateOf(events[e]) = "absent" /\ StateOf(row) = "open"
      /\ PlacesOf(row) = row.capacity /\ row.capacity > 0
  BY NoneIsNoRow DEF StateOf, PlacesOf, EventRow
<1>2. UNCHANGED <<seats, queue>>
  BY MappedStep
<1> QED
  BY <1>1, <1>2, MappedStep, MappedValues DEF Seats!Publish

\* A row written with another capacity is SeatAllocation's resizing.
LEMMA IsResize ==
    ASSUME TypeOK, NEW e \in Events, NEW row \in EventRow,
           Changes(e, row, regs[e]),
           events[e] \in EventRow, events[e].status = "PUBLISHED",
           row.status = "PUBLISHED", row.capacity \in Capacities,
           row.capacity >= Cardinality(SeatsOf(regs[e]))
    PROVE  Seats!Resize(e)
<1>1. /\ StateOf(events[e]) = "open" /\ StateOf(row) = "open"
      /\ PlacesOf(row) = row.capacity /\ row.capacity > 0
  BY NoneIsNoRow DEF StateOf, PlacesOf, EventRow
<1>2. UNCHANGED <<seats, queue>>
  BY MappedStep
<1>3. UNCHANGED state
  BY <1>1, MappedStep
<1> QED
  BY <1>1, <1>2, <1>3, MappedStep, MappedValues, SameCardinality DEF Seats!Resize

\* A row that leaves the published state closes the event.
LEMMA IsClose ==
    ASSUME TypeOK, NEW e \in Events, NEW row \in EventRow, NEW rows,
           Changes(e, row, rows),
           events[e] \in EventRow, events[e].status = "PUBLISHED",
           row.status = "CANCELED", row.capacity = events[e].capacity,
           SeatsOf(rows) = {}, QueueOf(rows) = <<>>
    PROVE  Seats!Close(e)
<1>1. /\ StateOf(events[e]) = "open" /\ StateOf(row) = "closed"
      /\ PlacesOf(row) = PlacesOf(events[e])
  BY NoneIsNoRow DEF StateOf, PlacesOf
<1>2. UNCHANGED places
  BY <1>1, MappedStep
<1> QED
  BY <1>1, <1>2, MappedStep, MappedValues DEF Seats!Close

\* A user who gets a free seat while nobody waits takes it.
LEMMA IsTake ==
    ASSUME TypeOK, NEW e \in Events, NEW u \in Users, NEW rows,
           Changes(e, events[e], rows),
           StateOf(events[e]) = "open",
           u \notin SeatsOf(regs[e]),
           \A k \in DOMAIN QueueOf(regs[e]) : QueueOf(regs[e])[k] # u,
           Cardinality(SeatsOf(regs[e])) < PlacesOf(events[e]),
           SeatsOf(rows) = SeatsOf(regs[e]) \cup {u},
           QueueOf(rows) = QueueOf(regs[e])
    PROVE  Seats!Take(e, u)
<1>1. UNCHANGED queue
  BY MappedStep
<1>2. u \notin Seats!ToSet(QueueOf(regs[e]))
  BY DEF Seats!ToSet
<1> QED
  BY <1>1, <1>2, MappedStep, MappedValues, SameCardinality
     DEF Seats!Take, Seats!Queued

\* A user who finds the event full joins the queue's end.
LEMMA IsEnqueue ==
    ASSUME TypeOK, NEW e \in Events, NEW u \in Users, NEW rows,
           Changes(e, events[e], rows),
           StateOf(events[e]) = "open",
           u \notin SeatsOf(regs[e]),
           \A k \in DOMAIN QueueOf(regs[e]) : QueueOf(regs[e])[k] # u,
           Cardinality(SeatsOf(regs[e])) >= PlacesOf(events[e]),
           SeatsOf(rows) = SeatsOf(regs[e]),
           QueueOf(rows) = Append(QueueOf(regs[e]), u)
    PROVE  Seats!Enqueue(e, u)
<1>1. UNCHANGED seats
  BY MappedStep
<1>2. u \notin Seats!ToSet(QueueOf(regs[e]))
  BY DEF Seats!ToSet
<1> QED
  BY <1>1, <1>2, MappedStep, MappedValues, SameCardinality
     DEF Seats!Enqueue, Seats!Queued

\* A seat given up while nobody waits is free.
LEMMA IsGiveUpUnclaimed ==
    ASSUME TypeOK, NEW e \in Events, NEW u \in Users, NEW rows,
           Changes(e, events[e], rows),
           u \in SeatsOf(regs[e]),
           QueueOf(regs[e]) = <<>>,
           SeatsOf(rows) = SeatsOf(regs[e]) \ {u},
           QueueOf(rows) = QueueOf(regs[e])
    PROVE  Seats!GiveUpSeat(e, u)
<1>1. UNCHANGED queue
  BY MappedStep
<1> QED
  BY <1>1, MappedStep, MappedValues DEF Seats!GiveUpSeat

\* A seat given up goes to the head of the queue.
LEMMA IsGiveUpHandedOn ==
    ASSUME TypeOK, NEW e \in Events, NEW u \in Users, NEW rows,
           Changes(e, events[e], rows),
           u \in SeatsOf(regs[e]),
           QueueOf(regs[e]) # <<>>,
           SeatsOf(rows) = (SeatsOf(regs[e]) \ {u}) \cup {Head(QueueOf(regs[e]))},
           QueueOf(rows) = Tail(QueueOf(regs[e]))
    PROVE  Seats!GiveUpSeat(e, u)
<1> QED
  BY MappedStep, MappedValues DEF Seats!GiveUpSeat

\* A waiting user who cancels leaves the queue.
LEMMA IsLeaveQueue ==
    ASSUME TypeOK, NEW e \in Events, NEW u \in Users, NEW rows,
           Changes(e, events[e], rows),
           QueueOf(regs[e]) \in Seq(Users),
           NEW k \in 1 .. Len(QueueOf(regs[e])), QueueOf(regs[e])[k] = u,
           SeatsOf(rows) = SeatsOf(regs[e]),
           QueueOf(rows) = Without(QueueOf(regs[e]), k)
    PROVE  Seats!LeaveQueue(e, u)
<1>1. UNCHANGED seats
  BY MappedStep
<1>2. QueueOf(rows) = Seats!RemoveAt(QueueOf(regs[e]), k)
  BY WithoutIsRemoveAt
<1>3. k \in DOMAIN QueueOf(regs[e])
  BY LenProperties
<1>4. u \in Seats!ToSet(QueueOf(regs[e]))
  BY <1>3 DEF Seats!ToSet
<1> QED
  BY <1>1, <1>2, <1>3, <1>4, MappedStep, MappedValues
     DEF Seats!LeaveQueue, Seats!Queued

-----------------------------------------------------------------------------
(* Every step of the service is one of SeatAllocation, or none.            *)

\* SeatAllocation does not see steps that write neither table.
LEMMA Unseen ==
    ASSUME UNCHANGED <<events, regs>>
    PROVE  UNCHANGED Seats!seatVars
BY DEF Seats!seatVars, state, places, seats, queue

\* CreateEvent is a Publish.
LEMMA CreatePublishes ==
    ASSUME Inv, NEW w \in Workers, CreateEvent(w)
    PROVE  Seats!Next
<1> DEFINE row == [status |-> "PUBLISHED", organizer |-> req[w].actor,
                   capacity |-> req[w].capacity, startsAt |-> req[w].startsAt]
<1>1. PICK e \in Events :
        /\ events[e] = None
        /\ events' = [events EXCEPT ![e] = row]
  BY DEF CreateEvent
<1>2. UNCHANGED regs
  BY DEF CreateEvent
<1>3. /\ req[w].actor \in Users
      /\ req[w].capacity \in Nat \ {0} /\ req[w].startsAt \in Nat
      /\ req[w].capacity \in Capacities \cup {None}
  BY DEF CreateEvent, Inv, RequestsWellFormed, Request
<1>4. row \in EventRow /\ row.status = "PUBLISHED"
  BY <1>3 DEF EventRow
<1>5. row.capacity \in Capacities
  BY <1>3, ConstantAssumptions
<1> HIDE DEF row
<1>6. Changes(e, row, regs[e])
  BY <1>1, <1>2 DEF Changes, Inv, TypeOK
<1>7. TypeOK
  BY DEF Inv
<1>8. Seats!Publish(e)
  BY <1>1, <1>4, <1>5, <1>6, <1>7, IsPublish
<1> QED
  BY <1>8 DEF Seats!Next

\* UpdateEvent is a Resize, or nothing when the capacity is left out.
LEMMA UpdateResizes ==
    ASSUME Inv, NEW w \in Workers, UpdateEvent(w)
    PROVE  Seats!Next \/ UNCHANGED Seats!seatVars
<1> DEFINE q == req[w]
           e == req[w].event
           row == UpdatedRow(events[e], q)
<1>1. pc[w] = "read"
  BY DEF UpdateEvent, Ready
<1>2. /\ q \in Request /\ e \in Events
      /\ events[e] \in EventRow /\ regs[e] \in Seq(RegRow)
      /\ snap[w].event = events[e] /\ snap[w].rows = regs[e]
      /\ RowsOK(events[e], regs[e])
  BY <1>1, ReadFacts
<1>3. /\ q.capacity # None =>
            ValidateCapacityChange(q.capacity, confirmedCount(regs[e]))
      /\ Validate(row, q.at)
      /\ events[e].status = "PUBLISHED"
      /\ events' = [events EXCEPT ![e].capacity = row.capacity,
                                  ![e].startsAt = row.startsAt]
      /\ UNCHANGED regs
  BY <1>2 DEF UpdateEvent
<1>4. /\ row.capacity = IF q.capacity = None THEN events[e].capacity
                                             ELSE q.capacity
      /\ row.startsAt = IF q.startsAt = None THEN events[e].startsAt
                                             ELSE q.startsAt
      /\ row.status = events[e].status
      /\ row.organizer = events[e].organizer
      /\ row = [events[e] EXCEPT !.capacity = row.capacity,
                                 !.startsAt = row.startsAt]
  BY <1>2 DEF UpdatedRow, EventRow
<1>5. row.capacity \in Nat \ {0} /\ row.startsAt \in Nat
  <2>1. row.capacity \in Int /\ row.startsAt \in Nat
    BY <1>2, <1>4, ConstantAssumptions DEF EventRow, Request
  <2> QED
    BY <1>3, <2>1 DEF Validate
<1> HIDE DEF row
<1>6. row \in EventRow
  BY <1>2, <1>4, <1>5 DEF EventRow
<1>7. events' = [events EXCEPT ![e] = row]
  BY <1>2, <1>3, <1>4 DEF Inv, TypeOK, EventRow
<1>8. Changes(e, row, regs[e])
  BY <1>3, <1>7 DEF Changes, Inv, TypeOK
<1>9. TypeOK
  BY DEF Inv
<1>10. CASE q.capacity = None
  <2>1. StateOf(row) = StateOf(events[e]) /\ PlacesOf(row) = PlacesOf(events[e])
    BY <1>2, <1>4, <1>6, <1>10, NoneIsNoRow DEF StateOf, PlacesOf
  <2>2. UNCHANGED <<state, places, seats, queue>>
    BY <1>2, <1>8, <1>9, <2>1, MappedStep
  <2> QED
    BY <2>2 DEF Seats!seatVars
<1>11. CASE q.capacity # None
  <2>1. row.capacity \in Capacities
    BY <1>2, <1>4, <1>11 DEF Request
  <2>2. confirmedCount(regs[e]) \in Nat
    BY <1>2, CountType DEF confirmedCount
  <2>3. Cardinality(SeatsOf(regs[e])) = confirmedCount(regs[e])
    BY <1>2, UsersAreRows DEF RowsOK
  <2>4. row.capacity >= confirmedCount(regs[e])
    BY <1>3, <1>4, <1>11, <2>2 DEF ValidateCapacityChange
  <2>5. row.capacity >= Cardinality(SeatsOf(regs[e]))
    BY <2>3, <2>4
  <2>6. row.status = "PUBLISHED"
    BY <1>3, <1>4
  <2> HIDE DEF e
  <2>7. Seats!Resize(e)
    BY <1>2, <1>3, <1>6, <1>8, <1>9, <2>1, <2>5, <2>6, IsResize
  <2> QED
    BY <1>2, <2>7 DEF Seats!Next
<1> QED
  BY <1>10, <1>11

\* CancelEvent is a Close, or nothing when the event is canceled already.
LEMMA CancelEventCloses ==
    ASSUME Inv, NEW w \in Workers, CancelEvent(w)
    PROVE  Seats!Next \/ UNCHANGED Seats!seatVars
<1> DEFINE q == req[w]
           e == req[w].event
           row == [events[e] EXCEPT !.status = "CANCELED"]
           rows == CancelActive(regs[e], q.at)
<1>1. pc[w] = "read"
  BY DEF CancelEvent, Ready
<1>2. /\ q \in Request /\ e \in Events
      /\ events[e] \in EventRow /\ regs[e] \in Seq(RegRow)
      /\ snap[w].event = events[e]
      /\ RowsOK(events[e], regs[e])
  BY <1>1, ReadFacts
<1>3. CASE events[e].status = "CANCELED"
  BY <1>2, <1>3, Unseen DEF CancelEvent
<1>4. CASE events[e].status # "CANCELED"
  <2>1. /\ events' = [events EXCEPT ![e] = row]
        /\ regs' = [regs EXCEPT ![e] = rows]
    BY <1>2, <1>4 DEF CancelEvent
  <2>2. q.at \in Nat
    BY <1>2 DEF Request
  <2>3. SeatsOf(rows) = {} /\ QueueOf(rows) = <<>>
    BY <1>2, <2>2, CancelActiveEmpties DEF RowsOK
  <2>4. /\ row \in EventRow /\ row.status = "CANCELED"
        /\ row.capacity = events[e].capacity
        /\ events[e].status = "PUBLISHED"
    BY <1>2, <1>4 DEF EventRow
  <2> HIDE DEF row, rows
  <2>5. Changes(e, row, rows)
    BY <2>1 DEF Changes
  <2>6. TypeOK
    BY DEF Inv
  <2> HIDE DEF e
  <2>7. Seats!Close(e)
    BY <1>2, <2>3, <2>4, <2>5, <2>6, IsClose
  <2> QED
    BY <1>2, <2>7 DEF Seats!Next
<1> QED
  BY <1>3, <1>4

\* JoinEvent is a Take while a place is free and an Enqueue when none is.
LEMMA JoinTakesOrQueues ==
    ASSUME Inv, NEW w \in Workers, JoinEvent(w)
    PROVE  Seats!Next
<1> DEFINE q == req[w]
           e == req[w].event
           rows == regs[e]
           status == DecideJoinStatus(events[e], confirmedCount(rows))
           new == [user |-> q.target, status |-> status,
                   pos |-> IF status = "WAITLISTED"
                           THEN nextWaitlistPosition(rows) ELSE 0,
                   created |-> q.at, updated |-> q.at]
<1>1. pc[w] = "read" /\ q.op = "join"
  BY DEF JoinEvent, Ready
<1>2. /\ q \in Request /\ e \in Events
      /\ events[e] \in EventRow /\ rows \in Seq(RegRow)
      /\ snap[w].event = events[e] /\ snap[w].rows = rows
      /\ RowsOK(events[e], rows)
  BY <1>1, ReadFacts
<1>3. /\ activeRegistration(rows, q.target) = {}
      /\ CanJoin(events[e], q.at)
      /\ regs' = [regs EXCEPT ![e] = Append(rows, new)]
      /\ UNCHANGED events
  BY <1>2 DEF JoinEvent
<1>4. q.target \in Users /\ q.at \in Nat
  BY <1>1, <1>2 DEF Inv, RequestsWellFormed, Request
<1>5. nextWaitlistPosition(rows) \in Nat
  BY <1>2, NextPosition DEF RowsOK
<1>6. /\ new \in RegRow /\ new.user = q.target
      /\ new.status = status
      /\ status = "WAITLISTED" => new.pos = nextWaitlistPosition(rows)
  BY <1>4, <1>5 DEF RegRow, DecideJoinStatus, Active
<1>7. TypeOK
  BY DEF Inv
<1>8. InArrivalOrder(Append(rows, new))
  <2>1. /\ new.status = DecideJoinStatus(events[e], confirmedCount(rows))
        /\ new.pos = IF new.status = "WAITLISTED"
                     THEN nextWaitlistPosition(rows) ELSE 0
        /\ events[e].status = "PUBLISHED"
    BY <1>3 DEF CanJoin
  <2> HIDE DEF new
  <2> QED
    BY <1>2, <1>3, <1>6, <2>1, JoinKeepsRows DEF RowsOK
<1> DEFINE after == Append(rows, new)
<1>9. Changes(e, events[e], after)
  BY <1>3 DEF Changes, Inv, TypeOK
<1> HIDE DEF new
<1>10. /\ StateOf(events[e]) = "open"
       /\ PlacesOf(events[e]) = events[e].capacity
       /\ events[e].capacity \in Nat
  BY <1>2, <1>3, NoneIsNoRow DEF StateOf, PlacesOf, CanJoin, EventRow
<1>11. /\ q.target \notin SeatsOf(rows)
       /\ \A k \in DOMAIN QueueOf(rows) : QueueOf(rows)[k] # q.target
  BY <1>2, <1>3, NotActiveNotThere DEF RowsOK
<1>12. /\ Cardinality(SeatsOf(rows)) = confirmedCount(rows)
       /\ confirmedCount(rows) \in Nat
  BY <1>2, UsersAreRows, CountType DEF RowsOK, confirmedCount
<1>13. CASE status = "CONFIRMED"
  <2>1. Cardinality(SeatsOf(rows)) < PlacesOf(events[e])
    BY <1>10, <1>12, <1>13 DEF DecideJoinStatus
  <2>2. /\ SeatsOf(after) = SeatsOf(rows) \cup {q.target}
        /\ QueueOf(after) = QueueOf(rows)
    BY <1>2, <1>6, <1>8, <1>13, JoinTakesSeat DEF RowsOK
  <2> HIDE DEF after, status
  <2>3. Seats!Take(e, q.target)
    BY <1>2, <1>4, <1>7, <1>9, <1>10, <1>11, <2>1, <2>2, IsTake
  <2> QED
    BY <1>2, <1>4, <2>3 DEF Seats!Next
<1>14. CASE status = "WAITLISTED"
  <2>1. Cardinality(SeatsOf(rows)) >= PlacesOf(events[e])
    BY <1>10, <1>12, <1>14 DEF DecideJoinStatus
  <2>2. /\ SeatsOf(after) = SeatsOf(rows)
        /\ QueueOf(after) = Append(QueueOf(rows), q.target)
    BY <1>2, <1>6, <1>8, <1>14, JoinQueues DEF RowsOK
  <2> HIDE DEF after, status
  <2>3. Seats!Enqueue(e, q.target)
    BY <1>2, <1>4, <1>7, <1>9, <1>10, <1>11, <2>1, <2>2, IsEnqueue
  <2> QED
    BY <1>2, <1>4, <2>3 DEF Seats!Next
<1> QED
  BY <1>13, <1>14 DEF DecideJoinStatus

\* cancelRegistrationTx, for an attendee or a manager: the seat is given up and
\* handed on in the same step, or the place in the queue is left.
LEMMA CancelGivesUp ==
    ASSUME Inv, NEW w \in Workers, pc[w] = "read",
           req[w].target \in Users, cancelRegistrationTx(w), UNCHANGED events
    PROVE  Seats!Next \/ UNCHANGED Seats!seatVars
<1> DEFINE q == req[w]
           e == req[w].event
           u == req[w].target
           rows == regs[e]
           mine == activeRegistration(rows, u)
           canceled(i) == SetStatus(rows, i, "CANCELED", q.at)
<1>1. /\ q \in Request /\ e \in Events
      /\ rows \in Seq(RegRow)
      /\ events[e] \in EventRow \cup {None}
      /\ snap[w].rows = rows
      /\ RowsOK(events[e], rows)
      /\ q.at \in Nat
  BY ReadFacts DEF Request
<1>2. TypeOK /\ InArrivalOrder(rows) /\ OneActivePerUser(rows)
  BY <1>1 DEF Inv, RowsOK
<1>3. ASSUME NEW i \in mine
      PROVE  /\ i \in WithStatus(rows, Active) /\ rows[i].user = u
             /\ \/ rows[i].status = "CONFIRMED"
                     /\ i \in WithStatus(rows, {"CONFIRMED"})
                \/ rows[i].status = "WAITLISTED" /\ i \in W(rows)
  BY DEF activeRegistration, WithStatus, Active, W
<1>4. ASSUME NEW i \in mine
      PROVE  InArrivalOrder(canceled(i))
  BY <1>1, <1>3, CancelKeepsRows DEF RowsOK
<1>5. ASSUME NEW i \in WithStatus(rows, {"CONFIRMED"}), rows[i].user = u
      PROVE  u \in SeatsOf(rows)
  BY <1>5 DEF SeatsOf
<1>6. CASE UNCHANGED regs
  BY <1>6, Unseen
<1>7. ASSUME NEW i \in mine,
             Promotable(rows, rows[i].status) = {},
             regs' = [regs EXCEPT ![e] = canceled(i)]
      PROVE  Seats!Next
  <2> DEFINE after == canceled(i)
  <2>1. Changes(e, events[e], after)
    BY <1>7 DEF Changes, Inv, TypeOK
  <2>2. InArrivalOrder(after)
    BY <1>4
  <2>3. after = SetStatus(rows, i, "CANCELED", q.at)
    OBVIOUS
  <2> HIDE DEF after, canceled
  <2>4. CASE rows[i].status = "CONFIRMED"
    <3>1. i \in WithStatus(rows, {"CONFIRMED"}) /\ rows[i].user = u
      BY <1>3, <2>4
    <3>2. W(rows) = {}
      BY <1>1, <1>2, <1>7, <2>4, SomebodyIsFirst DEF Promotable, W
    <3>3. QueueOf(rows) = <<>>
      BY <3>2, NobodyQueued
    <3>4. /\ SeatsOf(after) = SeatsOf(rows) \ {u}
          /\ QueueOf(after) = QueueOf(rows)
      BY <1>1, <1>2, <2>2, <2>3, <3>1, CancelFreesSeat
    <3>5. u \in SeatsOf(rows)
      BY <1>5, <3>1
    <3> HIDE DEF u, e
    <3>6. Seats!GiveUpSeat(e, u)
      BY <1>1, <1>2, <2>1, <3>3, <3>4, <3>5, IsGiveUpUnclaimed DEF u
    <3> QED
      BY <1>1, <3>6 DEF Seats!Next, u
  <2>5. CASE rows[i].status # "CONFIRMED"
    <3> DEFINE k == Place(rows, i)
    <3>1. i \in W(rows) /\ rows[i].user = u
      BY <1>3, <2>5
    <3>2. /\ SeatsOf(after) = SeatsOf(rows)
          /\ QueueOf(after) = Without(QueueOf(rows), k)
      BY <1>1, <1>2, <2>2, <2>3, <3>1, CancelLeavesQueue
    <3>3. /\ QueueOf(rows) \in Seq(Users)
          /\ k \in 1 .. Len(QueueOf(rows))
          /\ QueueOf(rows)[k] = u
      BY <1>1, <1>2, <3>1, QueueIsQueue, PlaceType DEF IsQueueOf
    <3> HIDE DEF u, e, k
    <3>4. Seats!LeaveQueue(e, u)
      BY <1>1, <1>2, <2>1, <3>2, <3>3, IsLeaveQueue DEF u
    <3> QED
      BY <1>1, <3>4 DEF Seats!Next, u
  <2> QED
    BY <2>4, <2>5
<1>8. ASSUME NEW i \in mine, NEW p \in Promotable(rows, rows[i].status),
             regs' = [regs EXCEPT
                        ![e] = SetStatus(canceled(i), p, "CONFIRMED", q.at)]
      PROVE  Seats!Next
  <2> DEFINE after == SetStatus(canceled(i), p, "CONFIRMED", q.at)
  <2>1. Changes(e, events[e], after)
    BY <1>8 DEF Changes, Inv, TypeOK
  <2>2. rows[i].status = "CONFIRMED" /\ p \in firstWaitlisted(rows)
    BY DEF Promotable
  <2>3. i \in WithStatus(rows, {"CONFIRMED"}) /\ rows[i].user = u
    BY <1>3, <2>2
  <2>4. after = SetStatus(SetStatus(rows, i, "CANCELED", q.at),
                          p, "CONFIRMED", q.at)
    OBVIOUS
  <2> HIDE DEF after, canceled
  <2>5. /\ SeatsOf(after) = (SeatsOf(rows) \ {u}) \cup {rows[p].user}
        /\ QueueOf(after) = Without(QueueOf(rows), Place(rows, p))
    <3>1. /\ events[e] \in EventRow \cup {None}
          /\ rows \in Seq(RegRow)
          /\ RowsOK(events[e], rows)
          /\ i \in WithStatus(rows, {"CONFIRMED"})
          /\ p \in firstWaitlisted(rows)
          /\ q.at \in Nat
          /\ after = SetStatus(SetStatus(rows, i, "CANCELED", q.at),
                               p, "CONFIRMED", q.at)
      BY <1>1, <2>2, <2>3, <2>4
    <3>2. rows[i].user = u
      BY <2>3
    <3>3. /\ SeatsOf(after) = (SeatsOf(rows) \ {rows[i].user})
                                \cup {rows[p].user}
          /\ QueueOf(after) = Without(QueueOf(rows), Place(rows, p))
      <4> HIDE DEF u, rows, q, e
      <4> QED
        BY <3>1, PromoteHandsOn, Z3
    <3> HIDE DEF u, rows
    <3> QED
      BY <3>2, <3>3
  <2>6. /\ Place(rows, p) = 1
        /\ QueueOf(rows) # <<>>
        /\ QueueOf(rows)[1] = rows[p].user
        /\ QueueOf(rows) \in Seq(Users)
    BY <1>1, <1>2, <2>2, FirstIsHead, QueueIsQueue DEF IsQueueOf
  <2>7. QueueOf(after) = Tail(QueueOf(rows))
    BY <2>5, <2>6, WithoutHead
  <2>8. Head(QueueOf(rows)) = rows[p].user
    BY <2>6
  <2>9. u \in SeatsOf(rows)
    BY <1>5, <2>3
  <2>10. SeatsOf(after) = (SeatsOf(rows) \ {u}) \cup {Head(QueueOf(rows))}
    BY <2>5, <2>8
  <2> HIDE DEF u, e
  <2>11. Seats!GiveUpSeat(e, u)
    BY <1>1, <1>2, <2>1, <2>6, <2>7, <2>9, <2>10, IsGiveUpHandedOn DEF u
  <2> QED
    BY <1>1, <2>11 DEF Seats!Next, u
<1>9. \/ UNCHANGED regs
      \/ \E i \in mine :
            /\ Promotable(rows, rows[i].status) = {}
            /\ regs' = [regs EXCEPT ![e] = canceled(i)]
      \/ \E i \in mine : \E p \in Promotable(rows, rows[i].status) :
            regs' = [regs EXCEPT
                       ![e] = SetStatus(canceled(i), p, "CONFIRMED", q.at)]
  BY <1>1 DEF cancelRegistrationTx
<1> QED
  BY <1>6, <1>7, <1>8, <1>9

\* The empty database is SeatAllocation's initial state.
LEMMA InitRefines == Init => Seats!Init
<1> SUFFICES ASSUME Init PROVE Seats!Init
  OBVIOUS
<1>1. /\ \A e \in Events : StateOf(events[e]) = "absent"
      /\ \A e \in Events : PlacesOf(events[e]) = 0
  BY DEF Init, StateOf, PlacesOf
<1>2. ASSUME NEW e \in Events
      PROVE  SeatsOf(regs[e]) = {} /\ QueueOf(regs[e]) = <<>>
  <2>1. \A S : WithStatus(regs[e], S) = {}
    BY DEF Init, WithStatus
  <2> QED
    BY <2>1, NobodyQueued DEF SeatsOf, W
<1> QED
  BY <1>1, <1>2 DEF Seats!Init, state, places, seats, queue

\* Every step of the service is a step of SeatAllocation or a stutter.
LEMMA NextRefines == Inv /\ [Next]_vars => [Seats!Next]_Seats!seatVars
<1> SUFFICES ASSUME Inv, [Next]_vars
             PROVE  Seats!Next \/ UNCHANGED Seats!seatVars
  OBVIOUS
<1>1. CASE UNCHANGED <<events, regs>>
  BY <1>1, Unseen
<1>2. ASSUME NEW w \in Workers, CancelJoin(w) \/ CancelRegistration(w)
      PROVE  Seats!Next \/ UNCHANGED Seats!seatVars
  <2>1. /\ pc[w] = "read" /\ cancelRegistrationTx(w) /\ UNCHANGED events
        /\ req[w].op \in {"cancelJoin", "cancelRegistration"}
    BY <1>2 DEF CancelJoin, CancelRegistration, Ready
  <2>2. req[w].target \in Users
    BY <2>1 DEF Inv, RequestsWellFormed
  <2> QED
    BY <2>1, <2>2, CancelGivesUp
<1>3. CASE Tick \/ Quiesced \/ UNCHANGED vars
  BY <1>1, <1>3 DEF Tick, Quiesced, vars, tables
<1>4. ASSUME NEW w \in Workers,
             \/ ReceiveAny(w) \/ selectEventForUpdate(w)
             \/ readRegistrations(w) \/ Rollback(w) \/ JoinExisting(w)
      PROVE  UNCHANGED <<events, regs>>
  BY <1>4 DEF ReceiveAny, ReceiveCreate, ReceiveUpdate, ReceiveCancelEvent,
              ReceiveJoin, ReceiveCancelJoin, ReceiveCancelRegistration,
              Receive, selectEventForUpdate, readRegistrations, Rollback,
              JoinExisting, tables
<1> QED
  BY <1>1, <1>2, <1>3, <1>4, CreatePublishes, UpdateResizes,
     CancelEventCloses, JoinTakesOrQueues DEF Next, Commit

\* Every committed request of the service, whatever it raced with, is one
\* atomic step of seats and a first-come-first-served queue.
THEOREM Implementation == Spec => ImplementsSeatAllocation
<1>1. Spec => Seats!Init
  BY InitRefines DEF Spec
<1>2. Inv /\ [Next]_vars => [Seats!Next]_Seats!seatVars
  BY NextRefines
<1> QED
  BY <1>1, <1>2, Invariance, PTL
     DEF Spec, ImplementsSeatAllocation, Seats!Spec

=============================================================================
