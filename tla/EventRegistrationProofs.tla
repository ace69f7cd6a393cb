---------------------- MODULE EventRegistrationProofs ----------------------
(***************************************************************************)
(* Proofs about EventRegistration, for every set of events, users, workers *)
(* and every bound: first its tables (types, seats, queue, caches, locks), *)
(* then what its outbox and its audit log tell of the tables.              *)
(***************************************************************************)
EXTENDS EventRegistration, FiniteSetTheorems, SequenceTheorems,
        WellFoundedInduction, TLAPS

-----------------------------------------------------------------------------
(* The greatest element of a bounded set of naturals.                      *)

\* A set of naturals with an upper bound has a greatest element, and Max
\* (COALESCE(MAX(...), 0) in the queries) is that element.
LEMMA MaxOfBounded ==
    ASSUME NEW S \in SUBSET Nat, S # {}, NEW b \in Nat, \A x \in S : x <= b
    PROVE  Max(S) \in S /\ \A x \in S : x <= Max(S)
<1> DEFINE R == OpToRel(<, Nat)
           U == {n \in Nat : \A x \in S : x <= n}
<1>1. \E n \in U : \A m \in U : ~(<<m, n>> \in R)
  <2>1. IsWellFoundedOn(R, Nat)
    BY NatLessThanWellFounded
  <2>2. U \subseteq Nat /\ U # {}
    OBVIOUS
  <2> HIDE DEF R, U
  <2> QED
    BY <2>1, <2>2, WFMin
<1>2. PICK n \in U : \A m \in U : ~(<<m, n>> \in R)
  BY <1>1
<1>3. \A m \in U : ~(m < n)
  BY <1>2 DEF OpToRel
<1>4. n \in S
  <2>1. SUFFICES ASSUME n \notin S PROVE FALSE
    OBVIOUS
  <2>2. PICK x \in S : TRUE
    OBVIOUS
  <2>3. n - 1 \in U
    BY <2>1, <2>2
  <2> QED
    BY <1>3, <2>3
<1>5. \A x \in S : n >= x
  OBVIOUS
<1> QED
  BY <1>4, <1>5 DEF Max

-----------------------------------------------------------------------------
(* Registration rows.                                                      *)

\* What holds of an event row and the registration rows beside it: the
\* capacity, canceled-event, one-active and waitlist properties as one
\* predicate of the two, with the bound that makes MAX(waitlist_position)
\* well defined.
PositionsBounded(rows) == \A i \in DOMAIN rows : rows[i].pos <= i

InArrivalOrder(rows) ==
    \A i, j \in WithStatus(rows, {"WAITLISTED"}) :
        /\ rows[i].pos > 0
        /\ i < j => rows[i].pos < rows[j].pos

OneActivePerUser(rows) ==
    \A i, j \in WithStatus(rows, Active) :
        rows[i].user = rows[j].user => i = j

SeatsFit(row, rows) == row # None => confirmedCount(rows) <= row.capacity

EmptyUnlessPublished(row, rows) ==
    ~(row # None /\ row.status = "PUBLISHED") =>
        WithStatus(rows, Active) = {}

RowsOK(row, rows) ==
    /\ PositionsBounded(rows)
    /\ InArrivalOrder(rows)
    /\ OneActivePerUser(rows)
    /\ SeatsFit(row, rows)
    /\ EmptyUnlessPublished(row, rows)

\* count(*) over the rows of an event is a natural number.
LEMMA CountType ==
    ASSUME NEW rows \in Seq(RegRow), NEW statuses
    PROVE  /\ IsFiniteSet(WithStatus(rows, statuses))
           /\ Cardinality(WithStatus(rows, statuses)) \in Nat
<1>1. IsFiniteSet(1 .. Len(rows))
  BY FS_Interval, LenProperties
<1>2. WithStatus(rows, statuses) \in SUBSET (1 .. Len(rows))
  BY LenProperties DEF WithStatus
<1>3. IsFiniteSet(WithStatus(rows, statuses))
  BY <1>1, <1>2, FS_Subset
<1> QED
  BY <1>3, FS_CardinalityType

\* nextWaitlistPositionTx returns a position greater than every position in
\* the table and at most one more than the number of rows.
LEMMA NextPosition ==
    ASSUME NEW rows \in Seq(RegRow), PositionsBounded(rows)
    PROVE  /\ nextWaitlistPosition(rows) \in Nat \ {0}
           /\ nextWaitlistPosition(rows) <= Len(rows) + 1
           /\ \A i \in DOMAIN rows : rows[i].pos < nextWaitlistPosition(rows)
<1> DEFINE S == {0} \cup {rows[i].pos : i \in DOMAIN rows}
<1>1. /\ DOMAIN rows = 1 .. Len(rows)
      /\ Len(rows) \in Nat
      /\ \A i \in DOMAIN rows : rows[i] \in RegRow
  BY LenProperties, ElementOfSeq
<1>2. \A i \in DOMAIN rows : rows[i].pos \in Nat /\ rows[i].pos <= Len(rows)
  BY <1>1 DEF PositionsBounded, RegRow
<1>3. S \in SUBSET Nat /\ S # {} /\ \A x \in S : x <= Len(rows)
  BY <1>1, <1>2
<1>4. Max(S) \in S /\ \A x \in S : x <= Max(S)
  <2> HIDE DEF S
  <2> QED
    BY <1>1, <1>3, MaxOfBounded
<1>5. \A i \in DOMAIN rows : rows[i].pos <= Max(S)
  BY <1>4
<1>6. Max(S) \in Nat /\ Max(S) <= Len(rows)
  BY <1>3, <1>4
<1>7. nextWaitlistPosition(rows) = 1 + Max(S)
  BY DEF nextWaitlistPosition
<1> HIDE DEF S
<1> QED
  BY <1>1, <1>2, <1>5, <1>6, <1>7

\* The new row is the last one, and the others stay where they are.
LEMMA AppendedRows ==
    ASSUME NEW rows \in Seq(RegRow), NEW row \in RegRow
    PROVE  /\ Append(rows, row) \in Seq(RegRow)
           /\ Len(rows) \in Nat
           /\ DOMAIN rows = 1 .. Len(rows)
           /\ DOMAIN Append(rows, row) = 1 .. Len(rows) + 1
           /\ \A i \in DOMAIN rows : Append(rows, row)[i] = rows[i]
           /\ Append(rows, row)[Len(rows) + 1] = row
<1>1. /\ Append(rows, row) \in Seq(RegRow)
      /\ Len(Append(rows, row)) = Len(rows) + 1
      /\ \A i \in 1 .. Len(rows) : Append(rows, row)[i] = rows[i]
      /\ Append(rows, row)[Len(rows) + 1] = row
  BY AppendProperties
<1>2. DOMAIN Append(rows, row) = 1 .. Len(rows) + 1
  BY <1>1, LenProperties
<1> QED
  BY <1>1, <1>2, LenProperties

\* What was appended to a sequence of rows that is still one is a row.
LEMMA AppendedIsElement ==
    ASSUME NEW rows \in Seq(RegRow), NEW row, Append(rows, row) \in Seq(RegRow)
    PROVE  row \in RegRow
<1>1. /\ Len(rows) \in Nat
      /\ Append(rows, row)[Len(rows) + 1] = row
      /\ Len(Append(rows, row)) = Len(rows) + 1
  BY LenProperties
<1>2. Len(rows) + 1 \in 1 .. Len(Append(rows, row))
  BY <1>1
<1> QED
  BY <1>1, <1>2, ElementOfSeq

\* Inserting a row adds it to the rows of its status and to no others.
LEMMA AppendedStatus ==
    ASSUME NEW rows \in Seq(RegRow), NEW row \in RegRow, NEW statuses
    PROVE  WithStatus(Append(rows, row), statuses) =
               IF row.status \in statuses
               THEN WithStatus(rows, statuses) \cup {Len(rows) + 1}
               ELSE WithStatus(rows, statuses)
<1> DEFINE new == Append(rows, row)
<1>1. /\ Len(rows) \in Nat
      /\ DOMAIN rows = 1 .. Len(rows)
      /\ DOMAIN new = 1 .. Len(rows) + 1
      /\ \A i \in DOMAIN rows : new[i] = rows[i]
      /\ new[Len(rows) + 1] = row
  BY AppendedRows
<1> HIDE DEF new
<1>2. WithStatus(new, statuses) =
        IF row.status \in statuses
        THEN WithStatus(rows, statuses) \cup {Len(rows) + 1}
        ELSE WithStatus(rows, statuses)
  BY <1>1 DEF WithStatus
<1> QED
  BY <1>2 DEF new

\* A join by a user without an active registration, seated when a place is
\* free and queued behind everybody when not, keeps RowsOK.
LEMMA JoinKeepsRows ==
    ASSUME NEW row \in EventRow, row.status = "PUBLISHED",
           NEW rows \in Seq(RegRow), RowsOK(row, rows),
           NEW new \in RegRow,
           activeRegistration(rows, new.user) = {},
           new.status = DecideJoinStatus(row, confirmedCount(rows)),
           new.pos = IF new.status = "WAITLISTED"
                     THEN nextWaitlistPosition(rows) ELSE 0
    PROVE  RowsOK(row, Append(rows, new))
<1> DEFINE after == Append(rows, new)
           last == Len(rows) + 1
<1>1. /\ Len(rows) \in Nat
      /\ DOMAIN rows = 1 .. Len(rows)
      /\ DOMAIN after = 1 .. last
      /\ \A i \in DOMAIN rows : after[i] = rows[i]
      /\ after[last] = new
      /\ last \notin DOMAIN rows
  BY AppendedRows
<1>2. \A S : WithStatus(after, S) =
        IF new.status \in S THEN WithStatus(rows, S) \cup {last}
                            ELSE WithStatus(rows, S)
  BY AppendedStatus
<1>3. \A S : WithStatus(rows, S) \subseteq DOMAIN rows
  BY DEF WithStatus
<1>4. \A i \in DOMAIN rows : rows[i] \in RegRow
  BY <1>1, ElementOfSeq
<1>5. /\ nextWaitlistPosition(rows) \in Nat \ {0}
      /\ nextWaitlistPosition(rows) <= last
      /\ \A i \in DOMAIN rows : rows[i].pos < nextWaitlistPosition(rows)
  BY NextPosition DEF RowsOK
<1> HIDE DEF after
<1>6. PositionsBounded(after)
  BY <1>1, <1>5 DEF RowsOK, PositionsBounded
<1>7. InArrivalOrder(after)
  <2>1. CASE new.status = "WAITLISTED"
    <3>1. WithStatus(after, {"WAITLISTED"}) =
            WithStatus(rows, {"WAITLISTED"}) \cup {last}
      BY <1>2, <2>1
    <3>2. \A i \in WithStatus(rows, {"WAITLISTED"}) :
            /\ i \in 1 .. Len(rows)
            /\ after[i].pos = rows[i].pos
            /\ after[i].pos < new.pos
            /\ after[i].pos > 0
      BY <1>1, <1>3, <1>5, <2>1 DEF RowsOK, InArrivalOrder
    <3>3. after[last].pos = new.pos /\ new.pos > 0
      BY <1>1, <1>5, <2>1
    <3>4. \A i, j \in WithStatus(rows, {"WAITLISTED"}) :
            i < j => after[i].pos < after[j].pos
      BY <3>2 DEF RowsOK, InArrivalOrder
    <3>5. /\ \A i \in WithStatus(rows, {"WAITLISTED"}) : ~(last < i)
          /\ ~(last < last)
      BY <1>1, <3>2
    <3> HIDE DEF last
    <3> QED
      BY <1>1, <3>1, <3>2, <3>3, <3>4, <3>5 DEF InArrivalOrder
  <2>2. CASE new.status # "WAITLISTED"
    BY <1>1, <1>2, <1>3, <2>2 DEF RowsOK, InArrivalOrder
  <2> QED
    BY <2>1, <2>2
<1>8. OneActivePerUser(after)
  <2>1. \A i \in WithStatus(rows, Active) : rows[i].user # new.user
    BY DEF activeRegistration
  <2> QED
    BY <1>1, <1>2, <1>3, <2>1 DEF RowsOK, OneActivePerUser
<1>9. SeatsFit(row, after)
  <2>1. IsFiniteSet(WithStatus(rows, {"CONFIRMED"}))
          /\ confirmedCount(rows) \in Nat
    BY CountType DEF confirmedCount
  <2>2. CASE new.status = "CONFIRMED"
    <3>1. confirmedCount(rows) < row.capacity
      BY <2>2 DEF DecideJoinStatus
    <3>2. WithStatus(after, {"CONFIRMED"}) =
            WithStatus(rows, {"CONFIRMED"}) \cup {last}
      BY <1>2, <2>2
    <3>3. confirmedCount(after) = confirmedCount(rows) + 1
      <4>1. last \notin WithStatus(rows, {"CONFIRMED"})
        BY <1>1, <1>3
      <4> QED
        BY <2>1, <3>2, <4>1, FS_AddElement DEF confirmedCount
    <3> QED
      BY <2>1, <3>1, <3>3 DEF SeatsFit, EventRow
  <2>3. CASE new.status # "CONFIRMED"
    BY <1>2, <2>3 DEF RowsOK, SeatsFit, confirmedCount
  <2> QED
    BY <2>2, <2>3
<1>10. EmptyUnlessPublished(row, after)
  BY NoneIsNoRow DEF EmptyUnlessPublished
<1> QED
  BY <1>6, <1>7, <1>8, <1>9, <1>10 DEF RowsOK, after

\* The UPDATE by id changes one row: its status, its position and its stamp.
LEMMA SetStatusRows ==
    ASSUME NEW rows \in Seq(RegRow), NEW i \in DOMAIN rows,
           NEW status \in Active \cup {"CANCELED"}, NEW t \in Nat
    PROVE  LET new == SetStatus(rows, i, status, t)
           IN  /\ new \in Seq(RegRow)
               /\ DOMAIN new = DOMAIN rows
               /\ \A j \in DOMAIN rows : j # i => new[j] = rows[j]
               /\ new[i].user = rows[i].user
               /\ new[i].status = status
               /\ new[i].pos = 0
<1> DEFINE changed == [rows[i] EXCEPT !.status = status, !.pos = 0,
                                      !.updated = t]
           new == [rows EXCEPT ![i] = changed]
<1>1. Len(rows) \in Nat /\ DOMAIN rows = 1 .. Len(rows) /\ rows[i] \in RegRow
  BY LenProperties, ElementOfSeq
<1>2. changed \in RegRow
  BY <1>1 DEF RegRow
<1>3. SetStatus(rows, i, status, t) = new
  BY <1>1 DEF SetStatus, RegRow
<1>4. /\ changed.user = rows[i].user
      /\ changed.status = status
      /\ changed.pos = 0
  BY <1>1 DEF RegRow
<1> HIDE DEF changed
<1>5. new \in Seq(RegRow)
  BY <1>1, <1>2, ExceptSeq
<1>6. /\ DOMAIN new = DOMAIN rows
      /\ \A j \in DOMAIN rows : j # i => new[j] = rows[j]
      /\ new[i] = changed
  OBVIOUS
<1> HIDE DEF new
<1> QED
  BY <1>3, <1>4, <1>5, <1>6

\* The same for a cancellation, as a relation between the two tables.
LEMMA CanceledRows ==
    ASSUME NEW rows \in Seq(RegRow), NEW i \in DOMAIN rows, NEW t \in Nat,
           NEW new, new = SetStatus(rows, i, "CANCELED", t)
    PROVE  /\ new \in Seq(RegRow)
           /\ DOMAIN new = DOMAIN rows
           /\ \A j \in DOMAIN rows : j # i => new[j] = rows[j]
           /\ new[i].user = rows[i].user
           /\ new[i].status = "CANCELED"
           /\ new[i].pos = 0
  BY SetStatusRows

\* Canceling an active registration keeps RowsOK.
LEMMA CancelKeepsRows ==
    ASSUME NEW row \in EventRow \cup {None}, NEW rows \in Seq(RegRow),
           RowsOK(row, rows),
           NEW i \in WithStatus(rows, Active), NEW t \in Nat
    PROVE  RowsOK(row, SetStatus(rows, i, "CANCELED", t))
<1> DEFINE after == SetStatus(rows, i, "CANCELED", t)
<1>1. /\ after \in Seq(RegRow)
      /\ DOMAIN after = DOMAIN rows
      /\ \A j \in DOMAIN rows : j # i => after[j] = rows[j]
      /\ after[i].user = rows[i].user
      /\ after[i].status = "CANCELED"
      /\ after[i].pos = 0
  <2>1. i \in DOMAIN rows
    BY DEF WithStatus
  <2> QED
    BY <2>1, SetStatusRows
<1>2. i \in DOMAIN rows /\ DOMAIN rows = 1 .. Len(rows) /\ Len(rows) \in Nat
  BY LenProperties DEF WithStatus
<1> HIDE DEF after
<1>3. PositionsBounded(after)
  BY <1>1, <1>2 DEF RowsOK, PositionsBounded
<1>4. \A S : "CANCELED" \notin S => WithStatus(after, S) = WithStatus(rows, S) \ {i}
  BY <1>1 DEF WithStatus
<1>5. InArrivalOrder(after)
  BY <1>1, <1>4 DEF RowsOK, InArrivalOrder, WithStatus
<1>6. OneActivePerUser(after)
  BY <1>1, <1>4 DEF RowsOK, OneActivePerUser, WithStatus, Active
<1>7. SeatsFit(row, after)
  <2>1. /\ WithStatus(after, {"CONFIRMED"}) \in
              SUBSET WithStatus(rows, {"CONFIRMED"})
        /\ IsFiniteSet(WithStatus(rows, {"CONFIRMED"}))
        /\ confirmedCount(rows) \in Nat
        /\ confirmedCount(after) \in Nat
    BY <1>1, <1>4, CountType DEF confirmedCount
  <2>2. confirmedCount(after) <= confirmedCount(rows)
    BY <2>1, FS_Subset DEF confirmedCount
  <2>3. row # None => row.capacity \in Nat
    BY DEF EventRow
  <2> QED
    BY <2>1, <2>2, <2>3 DEF RowsOK, SeatsFit
<1>8. EmptyUnlessPublished(row, after)
  BY DEF RowsOK, EmptyUnlessPublished
<1> QED
  BY <1>3, <1>5, <1>6, <1>7, <1>8 DEF RowsOK, after

\* Handing the seat of a canceled confirmed registration to a waitlisted one
\* keeps RowsOK: the number of seats taken stays the same.
LEMMA PromoteKeepsRows ==
    ASSUME NEW row \in EventRow \cup {None}, NEW rows \in Seq(RegRow),
           RowsOK(row, rows),
           NEW i \in WithStatus(rows, {"CONFIRMED"}),
           NEW p \in WithStatus(rows, {"WAITLISTED"}), NEW t \in Nat
    PROVE  LET after == SetStatus(SetStatus(rows, i, "CANCELED", t),
                                  p, "CONFIRMED", t)
           IN  /\ after \in Seq(RegRow) /\ RowsOK(row, after)
               /\ confirmedCount(after) = confirmedCount(rows)
<1> DEFINE mid == SetStatus(rows, i, "CANCELED", t)
<1>1. /\ i \in DOMAIN rows /\ p \in DOMAIN rows /\ i # p
      /\ rows[i].status = "CONFIRMED" /\ rows[p].status = "WAITLISTED"
      /\ DOMAIN rows = 1 .. Len(rows) /\ Len(rows) \in Nat
      /\ i \in WithStatus(rows, Active)
  BY LenProperties DEF WithStatus, Active
<1>2. /\ mid \in Seq(RegRow)
      /\ DOMAIN mid = DOMAIN rows
      /\ \A j \in DOMAIN rows : j # i => mid[j] = rows[j]
      /\ mid[i].user = rows[i].user
      /\ mid[i].status = "CANCELED"
      /\ mid[i].pos = 0
  <2>1. rows \in Seq(RegRow) /\ i \in DOMAIN rows /\ t \in Nat
    BY <1>1
  <2>2. mid = SetStatus(rows, i, "CANCELED", t)
    OBVIOUS
  <2> QED
    <3> HIDE DEF mid
    <3> QED
      BY <2>1, <2>2, CanceledRows, Z3
<1> HIDE DEF mid
<1> DEFINE after == SetStatus(mid, p, "CONFIRMED", t)
<1>3. /\ after \in Seq(RegRow)
      /\ DOMAIN after = DOMAIN mid
      /\ \A j \in DOMAIN mid : j # p => after[j] = mid[j]
      /\ after[p].user = mid[p].user
      /\ after[p].status = "CONFIRMED"
      /\ after[p].pos = 0
  <2>1. /\ mid \in Seq(RegRow) /\ p \in DOMAIN mid
        /\ "CONFIRMED" \in Active \cup {"CANCELED"}
    BY <1>1, <1>2 DEF Active
  <2> QED
    BY <2>1, SetStatusRows
<1> HIDE DEF after
<1>4. /\ DOMAIN after = DOMAIN rows
      /\ \A j \in DOMAIN rows : j # i /\ j # p => after[j] = rows[j]
      /\ after[i].status = "CANCELED" /\ after[i].pos = 0
      /\ after[p].status = "CONFIRMED" /\ after[p].pos = 0
      /\ after[p].user = rows[p].user
  BY <1>1, <1>2, <1>3
<1>5. PositionsBounded(after)
  BY <1>1, <1>4 DEF RowsOK, PositionsBounded
<1>6. /\ WithStatus(after, {"WAITLISTED"}) =
            WithStatus(rows, {"WAITLISTED"}) \ {p}
      /\ WithStatus(after, Active) = WithStatus(rows, Active) \ {i}
      /\ WithStatus(after, {"CONFIRMED"}) =
            (WithStatus(rows, {"CONFIRMED"}) \ {i}) \cup {p}
  BY <1>1, <1>4 DEF WithStatus, Active
<1>7. InArrivalOrder(after)
  <2>1. \A j \in WithStatus(after, {"WAITLISTED"}) :
          j \in WithStatus(rows, {"WAITLISTED"}) /\ after[j] = rows[j]
    BY <1>1, <1>4, <1>6 DEF WithStatus
  <2> QED
    BY <2>1 DEF RowsOK, InArrivalOrder
<1>8. OneActivePerUser(after)
  <2>1. \A j \in WithStatus(after, Active) :
          j \in WithStatus(rows, Active) /\ after[j].user = rows[j].user
    BY <1>1, <1>4, <1>6 DEF WithStatus
  <2> QED
    BY <2>1 DEF RowsOK, OneActivePerUser
<1>9. confirmedCount(after) = confirmedCount(rows)
  <2>1. IsFiniteSet(WithStatus(rows, {"CONFIRMED"}))
          /\ confirmedCount(rows) \in Nat
    BY CountType DEF confirmedCount
  <2>2. IsFiniteSet(WithStatus(rows, {"CONFIRMED"}) \ {i})
          /\ Cardinality(WithStatus(rows, {"CONFIRMED"}) \ {i}) =
                confirmedCount(rows) - 1
    BY <2>1, FS_RemoveElement DEF confirmedCount
  <2>3. p \notin WithStatus(rows, {"CONFIRMED"}) \ {i}
    BY <1>1 DEF WithStatus
  <2> QED
    BY <1>6, <2>1, <2>2, <2>3, FS_AddElement DEF confirmedCount
<1>10. SeatsFit(row, after)
  BY <1>9 DEF RowsOK, SeatsFit
<1>11. EmptyUnlessPublished(row, after)
  BY <1>1 DEF RowsOK, EmptyUnlessPublished
<1> QED
  BY <1>3, <1>5, <1>7, <1>8, <1>9, <1>10, <1>11 DEF RowsOK, after, mid

\* A waitlisted registration that is canceled takes no seat with it.
LEMMA CancelQueuedKeepsSeats ==
    ASSUME NEW rows \in Seq(RegRow), NEW i \in WithStatus(rows, {"WAITLISTED"}),
           NEW t \in Nat
    PROVE  confirmedCount(SetStatus(rows, i, "CANCELED", t)) =
               confirmedCount(rows)
<1> DEFINE after == SetStatus(rows, i, "CANCELED", t)
<1>1. i \in DOMAIN rows /\ rows[i].status = "WAITLISTED"
  BY DEF WithStatus
<1>2. /\ after \in Seq(RegRow)
      /\ DOMAIN after = DOMAIN rows
      /\ \A j \in DOMAIN rows : j # i => after[j] = rows[j]
      /\ after[i].user = rows[i].user
      /\ after[i].status = "CANCELED"
      /\ after[i].pos = 0
  BY <1>1, SetStatusRows
<1> HIDE DEF after
<1>3. WithStatus(after, {"CONFIRMED"}) = WithStatus(rows, {"CONFIRMED"})
  BY <1>1, <1>2 DEF WithStatus
<1> QED
  BY <1>3 DEF confirmedCount, after

\* While somebody waits, firstWaitlistedTx finds somebody: positions follow
\* the order of insertion, so the oldest waitlisted row comes first.
LEMMA SomebodyIsFirst ==
    ASSUME NEW rows \in Seq(RegRow), InArrivalOrder(rows),
           WithStatus(rows, {"WAITLISTED"}) # {}
    PROVE  firstWaitlisted(rows) # {}
<1> DEFINE W == WithStatus(rows, {"WAITLISTED"})
           R == OpToRel(<, Nat)
<1>1. W \subseteq DOMAIN rows /\ W \subseteq Nat /\ W # {}
  BY LenProperties DEF WithStatus
<1>2. IsWellFoundedOn(R, Nat)
  BY NatLessThanWellFounded
<1>3. \E i \in W : \A j \in W : ~(<<j, i>> \in R)
  <2> HIDE DEF R, W
  <2> QED
    BY <1>1, <1>2, WFMin
<1>4. PICK i \in W : \A j \in W : ~(<<j, i>> \in R)
  BY <1>3
<1>5. \A j \in W : ~(j < i)
  BY <1>1, <1>4 DEF OpToRel
<1>6. \A j \in W : j = i \/ i < j
  BY <1>1, <1>5
<1>7. \A j \in W : j # i => rows[i].pos < rows[j].pos
  BY <1>6 DEF InArrivalOrder
<1>8. rows[i].created \in Nat
  <2>1. i \in 1 .. Len(rows)
    BY <1>1, LenProperties
  <2>2. rows[i] \in RegRow
    BY <2>1, ElementOfSeq
  <2> QED
    BY <2>2 DEF RegRow
<1>9. i \in firstWaitlisted(rows)
  BY <1>7, <1>8 DEF firstWaitlisted
<1> QED
  BY <1>9

\* A join takes no seat from anybody.
LEMMA JoinKeepsSeats ==
    ASSUME NEW rows \in Seq(RegRow), NEW row \in RegRow
    PROVE  confirmedCount(Append(rows, row)) >= confirmedCount(rows)
<1> DEFINE after == Append(rows, row)
<1>1. after \in Seq(RegRow)
  BY AppendProperties
<1>2. WithStatus(rows, {"CONFIRMED"}) \in SUBSET WithStatus(after, {"CONFIRMED"})
  BY AppendedStatus
<1> HIDE DEF after
<1>3. /\ IsFiniteSet(WithStatus(after, {"CONFIRMED"}))
      /\ confirmedCount(rows) \in Nat /\ confirmedCount(after) \in Nat
  BY <1>1, CountType DEF confirmedCount
<1>4. confirmedCount(rows) <= confirmedCount(after)
  BY <1>2, <1>3, FS_Subset DEF confirmedCount
<1> QED
  BY <1>3, <1>4 DEF after

\* Rows without an active registration take no seat.
LEMMA NoActiveNoSeats ==
    ASSUME NEW rows, WithStatus(rows, Active) = {}
    PROVE  /\ WithStatus(rows, {"CONFIRMED"}) = {}
           /\ WithStatus(rows, {"WAITLISTED"}) = {}
           /\ confirmedCount(rows) = 0
<1>1. /\ WithStatus(rows, {"CONFIRMED"}) = {}
      /\ WithStatus(rows, {"WAITLISTED"}) = {}
  BY DEF WithStatus, Active
<1> QED
  BY <1>1, FS_EmptySet DEF confirmedCount

\* The bulk UPDATE of CancelEvent leaves no active row and keeps RowsOK,
\* whatever becomes of the event row.
LEMMA CancelActiveKeepsRows ==
    ASSUME NEW rows \in Seq(RegRow), PositionsBounded(rows), NEW t \in Nat
    PROVE  /\ CancelActive(rows, t) \in Seq(RegRow)
           /\ \A row \in EventRow \cup {None} :
                  RowsOK(row, CancelActive(rows, t))
<1> DEFINE after == CancelActive(rows, t)
<1>1. /\ Len(rows) \in Nat /\ DOMAIN rows = 1 .. Len(rows)
      /\ \A i \in DOMAIN rows : rows[i] \in RegRow
  BY LenProperties, ElementOfSeq
<1>2. /\ DOMAIN after = DOMAIN rows
      /\ \A i \in DOMAIN rows : /\ after[i] \in RegRow
                                /\ after[i].pos = rows[i].pos
                                /\ after[i].status \notin Active
  BY <1>1 DEF CancelActive, RegRow, Active
<1>3. after \in [1 .. Len(rows) -> RegRow]
  BY <1>1, <1>2 DEF CancelActive
<1>4. after \in Seq(RegRow)
  BY <1>1, <1>3, SeqDef
<1> HIDE DEF after
<1>5. WithStatus(after, Active) = {}
  BY <1>2 DEF WithStatus
<1>6. /\ WithStatus(after, {"WAITLISTED"}) = {}
      /\ confirmedCount(after) = 0
  BY <1>5, NoActiveNoSeats
<1>7. ASSUME NEW row \in EventRow \cup {None} PROVE RowsOK(row, after)
  <2>1. PositionsBounded(after)
    BY <1>2 DEF PositionsBounded
  <2>2. InArrivalOrder(after) /\ OneActivePerUser(after)
    BY <1>5, <1>6 DEF InArrivalOrder, OneActivePerUser
  <2>3. SeatsFit(row, after)
    BY <1>6 DEF SeatsFit, EventRow
  <2> QED
    BY <1>5, <2>1, <2>2, <2>3 DEF RowsOK, EmptyUnlessPublished
<1> QED
  BY <1>4, <1>7 DEF after

\* An event row that leaves room for the seats taken, published if the old
\* one was, may replace it.
LEMMA NewRowKeepsRows ==
    ASSUME NEW old \in EventRow \cup {None}, NEW row \in EventRow,
           NEW rows \in Seq(RegRow), RowsOK(old, rows),
           old # None => row.status = old.status,
           confirmedCount(rows) <= row.capacity
    PROVE  RowsOK(row, rows)
BY NoneIsNoRow DEF RowsOK, SeatsFit, EmptyUnlessPublished

-----------------------------------------------------------------------------
(* The inductive invariant.                                                *)

\* A request in flight is complete, and a create request has passed Validate.
RequestsWellFormed ==
    \A w \in Workers : pc[w] # "idle" =>
        /\ req[w] \in Request
        /\ req[w].op = "create" =>
              /\ pc[w] = "begun"
              /\ req[w].capacity \in Nat \ {0}
              /\ req[w].startsAt \in Nat
        /\ req[w].op # "create" => req[w].event \in Events
        /\ req[w].op \in {"join", "cancelJoin", "cancelRegistration"} =>
              req[w].target \in Users

\* A transaction past SELECT ... FOR UPDATE has found its event and holds the
\* row lock.
LocksHeld ==
    \A w \in Workers : pc[w] \in {"locked", "read"} =>
        /\ req[w].op # "create"
        /\ events[req[w].event] # None
        /\ lock[req[w].event] = w

TablesOK == \A e \in Events : RowsOK(events[e], regs[e])

Inv ==
    /\ TypeOK
    /\ RequestsWellFormed
    /\ LocksHeld
    /\ SnapshotsCurrent
    /\ TablesOK

\* The invariant holds of the empty database.
LEMMA InitInv == Init => Inv
<1> SUFFICES ASSUME Init PROVE Inv
  OBVIOUS
<1>1. <<>> \in Seq(RegRow) /\ <<>> \in Seq(Message) /\ <<>> \in Seq(AuditEvent)
  BY EmptySeq
<1>2. TypeOK
  BY <1>1 DEF Init, TypeOK, NoSnap
<1>3. RequestsWellFormed /\ LocksHeld /\ SnapshotsCurrent
  BY DEF Init, RequestsWellFormed, LocksHeld, SnapshotsCurrent
<1>4. \A S : WithStatus(<<>>, S) = {}
  BY DEF WithStatus
<1>5. RowsOK(None, <<>>)
  BY <1>4 DEF RowsOK, PositionsBounded, InArrivalOrder, OneActivePerUser,
              SeatsFit, EmptyUnlessPublished
<1> QED
  BY <1>2, <1>3, <1>5 DEF Inv, TablesOK, Init

-----------------------------------------------------------------------------
(* Steps.                                                                  *)

\* What is common to every COMMIT and ROLLBACK: a transaction that touches only
\* events T whose row lock it holds, or that were not there, ends without
\* disturbing what the others hold and have read.
LEMMA EndKeepsInv ==
    ASSUME Inv, NEW w \in Workers, EndTx(w), NEW T \in SUBSET Events,
           \A e \in T : lock[e] = w \/ events[e] = None,
           events' \in [Events -> EventRow \cup {None}],
           regs' \in [Events -> Seq(RegRow)],
           outbox' \in Seq(Message),
           audit' \in Seq(AuditEvent),
           \A f \in Events : events[f] # None => events'[f] # None,
           \A f \in Events \ T : events'[f] = events[f] /\ regs'[f] = regs[f],
           \A e \in T : RowsOK(events'[e], regs'[e])
    PROVE  Inv'
<1>1. TypeOK'
  <2>1. <<>> \in Seq(RegRow)
    BY EmptySeq
  <2> QED
    BY <2>1 DEF Inv, TypeOK, EndTx, NoSnap
<1>2. \A v \in Workers : pc'[v] # "idle" =>
        /\ v # w /\ pc[v] # "idle"
        /\ pc'[v] = pc[v] /\ req'[v] = req[v] /\ snap'[v] = snap[v]
  BY DEF Inv, TypeOK, EndTx
<1>3. RequestsWellFormed'
  BY <1>2 DEF Inv, RequestsWellFormed
<1>4. \A v \in Workers : pc'[v] \in {"locked", "read"} =>
        /\ pc[v] \in {"locked", "read"}
        /\ v # w /\ pc'[v] = pc[v] /\ req'[v] = req[v] /\ snap'[v] = snap[v]
        /\ req[v].op # "create"
        /\ req[v].event \in Events
        /\ events[req[v].event] # None
        /\ lock[req[v].event] = v
        /\ req[v].event \notin T
  BY <1>2 DEF Inv, RequestsWellFormed, LocksHeld
<1>5. ASSUME NEW v \in Workers, pc'[v] \in {"locked", "read"}
      PROVE  /\ req'[v].op # "create"
             /\ events'[req'[v].event] # None
             /\ lock'[req'[v].event] = v
             /\ snap'[v].event = events'[req'[v].event]
             /\ pc'[v] = "read" => snap'[v].rows = regs'[req'[v].event]
  <2>1. /\ pc[v] \in {"locked", "read"} /\ pc'[v] = pc[v]
        /\ v # w /\ req'[v] = req[v] /\ snap'[v] = snap[v]
        /\ req[v].op # "create"
        /\ req[v].event \in Events \ T
        /\ events[req[v].event] # None
        /\ lock[req[v].event] = v
    BY <1>4, <1>5
  <2>2. lock'[req[v].event] = v
    BY <2>1 DEF EndTx
  <2>3. /\ snap[v].event = events[req[v].event]
        /\ pc[v] = "read" => snap[v].rows = regs[req[v].event]
    BY <2>1 DEF Inv, SnapshotsCurrent
  <2> QED
    BY <2>1, <2>2, <2>3
<1>6. LocksHeld'
  BY <1>5 DEF LocksHeld
<1>7. SnapshotsCurrent'
  BY <1>5 DEF SnapshotsCurrent
<1>8. TablesOK'
  BY DEF Inv, TablesOK
<1> QED
  BY <1>1, <1>3, <1>6, <1>7, <1>8 DEF Inv

\* The same for the one event a request names.
LEMMA EndOneKeepsInv ==
    ASSUME Inv, NEW w \in Workers, EndTx(w), NEW e \in Events,
           lock[e] = w \/ events[e] = None,
           NEW row \in EventRow, NEW rows \in Seq(RegRow),
           events' = [events EXCEPT ![e] = row],
           regs' = [regs EXCEPT ![e] = rows],
           outbox' \in Seq(Message),
           audit' \in Seq(AuditEvent),
           RowsOK(row, rows)
    PROVE  Inv'
<1> DEFINE T == {e}
<1>1. /\ events' \in [Events -> EventRow \cup {None}]
      /\ regs' \in [Events -> Seq(RegRow)]
  BY DEF Inv, TypeOK
<1>2. /\ events'[e] = row /\ regs'[e] = rows
      /\ \A f \in Events \ {e} : events'[f] = events[f] /\ regs'[f] = regs[f]
      /\ \A f \in Events : events[f] # None => events'[f] # None
  BY NoneIsNoRow DEF Inv, TypeOK
<1>3. /\ T \in SUBSET Events
      /\ \A f \in Events \ T : events'[f] = events[f] /\ regs'[f] = regs[f]
      /\ \A f \in T : (lock[f] = w \/ events[f] = None)
      /\ \A f \in T : RowsOK(events'[f], regs'[f])
  BY <1>2
<1> HIDE DEF T
<1> QED
  BY <1>1, <1>2, <1>3, EndKeepsInv

\* A transaction past its reads: its request, its lock, and what it has read.
LEMMA ReadFacts ==
    ASSUME Inv, NEW w \in Workers, pc[w] = "read"
    PROVE  LET e == req[w].event
           IN  /\ req[w] \in Request
               /\ e \in Events
               /\ lock[e] = w
               /\ events[e] \in EventRow
               /\ regs[e] \in Seq(RegRow)
               /\ snap[w].event = events[e]
               /\ snap[w].rows = regs[e]
               /\ RowsOK(events[e], regs[e])
<1>1. /\ req[w] \in Request
      /\ req[w].event \in Events
      /\ events[req[w].event] # None
      /\ lock[req[w].event] = w
  BY DEF Inv, RequestsWellFormed, LocksHeld
<1> QED
  BY <1>1 DEF Inv, TypeOK, SnapshotsCurrent, TablesOK

\* Receiving a request.
LEMMA ReceiveKeepsInv ==
    ASSUME Inv, NEW w \in Workers, NEW q \in Request, Receive(w, q),
           q.op = "create" => q.capacity \in Nat \ {0} /\ q.startsAt \in Nat,
           q.op # "create" => q.event \in Events,
           q.op \in {"join", "cancelJoin", "cancelRegistration"} =>
               q.target \in Users
    PROVE  Inv'
<1>1. TypeOK'
  BY DEF Inv, TypeOK, Receive, tables
<1>2. /\ pc'[w] = "begun" /\ req'[w] = q
      /\ \A v \in Workers \ {w} : pc'[v] = pc[v] /\ req'[v] = req[v]
      /\ UNCHANGED <<events, regs, lock, snap>>
  BY DEF Inv, TypeOK, Receive, tables
<1>3. RequestsWellFormed'
  BY <1>2 DEF Inv, RequestsWellFormed
<1>4. LocksHeld'
  BY <1>2 DEF Inv, LocksHeld
<1>5. SnapshotsCurrent'
  BY <1>2 DEF Inv, SnapshotsCurrent
<1>6. TablesOK'
  BY <1>2 DEF Inv, TablesOK
<1> QED
  BY <1>1, <1>3, <1>4, <1>5, <1>6 DEF Inv

\* Every kind of request the service layer lets through.
LEMMA ReceiveAnyKeepsInv ==
    ASSUME Inv, NEW w \in Workers, ReceiveAny(w)
    PROVE  Inv'
<1>0. now \in Nat
  BY DEF Inv, TypeOK
<1>1. CASE ReceiveCreate(w)
  <2>1. PICK a \in Users, c \in Capacities, s \in StartTimes :
          /\ Validate([startsAt |-> s, capacity |-> c], now)
          /\ Receive(w, NewRequest("create", None, a, None, c, s))
    BY <1>1 DEF ReceiveCreate
  <2> DEFINE q == NewRequest("create", None, a, None, c, s)
  <2>2. c \in Nat \ {0} /\ s \in Nat
    BY <2>1, ConstantAssumptions DEF Validate
  <2>3. /\ q \in Request /\ q.op = "create" /\ q.capacity = c
        /\ q.startsAt = s
    BY <1>0 DEF NewRequest, Request, Ops
  <2> HIDE DEF q
  <2> QED
    BY <2>1, <2>2, <2>3, ReceiveKeepsInv DEF q
<1>2. CASE ReceiveUpdate(w)
  <2>1. PICK a \in Users, e \in Events, c \in Capacities \cup {None},
             s \in StartTimes \cup {None} :
          Receive(w, NewRequest("update", e, a, None, c, s))
    BY <1>2 DEF ReceiveUpdate
  <2> DEFINE q == NewRequest("update", e, a, None, c, s)
  <2>2. q \in Request /\ q.op = "update" /\ q.event \in Events
    BY <1>0 DEF NewRequest, Request, Ops
  <2> HIDE DEF q
  <2> QED
    BY <2>1, <2>2, ReceiveKeepsInv DEF q
<1>3. CASE ReceiveCancelEvent(w)
  <2>1. PICK a \in Users, e \in Events :
          Receive(w, NewRequest("cancelEvent", e, a, None, None, None))
    BY <1>3 DEF ReceiveCancelEvent
  <2> DEFINE q == NewRequest("cancelEvent", e, a, None, None, None)
  <2>2. q \in Request /\ q.op = "cancelEvent" /\ q.event \in Events
    BY <1>0 DEF NewRequest, Request, Ops
  <2> HIDE DEF q
  <2> QED
    BY <2>1, <2>2, ReceiveKeepsInv DEF q
<1>4. CASE ReceiveJoin(w)
  <2>1. PICK u \in Users, e \in Events :
          Receive(w, NewRequest("join", e, u, u, None, None))
    BY <1>4 DEF ReceiveJoin
  <2> DEFINE q == NewRequest("join", e, u, u, None, None)
  <2>2. /\ q \in Request /\ q.op = "join" /\ q.event \in Events
        /\ q.target \in Users
    BY <1>0 DEF NewRequest, Request, Ops
  <2> HIDE DEF q
  <2> QED
    BY <2>1, <2>2, ReceiveKeepsInv DEF q
<1>5. CASE ReceiveCancelJoin(w)
  <2>1. PICK u \in Users, e \in Events :
          Receive(w, NewRequest("cancelJoin", e, u, u, None, None))
    BY <1>5 DEF ReceiveCancelJoin
  <2> DEFINE q == NewRequest("cancelJoin", e, u, u, None, None)
  <2>2. /\ q \in Request /\ q.op = "cancelJoin" /\ q.event \in Events
        /\ q.target \in Users
    BY <1>0 DEF NewRequest, Request, Ops
  <2> HIDE DEF q
  <2> QED
    BY <2>1, <2>2, ReceiveKeepsInv DEF q
<1>6. CASE ReceiveCancelRegistration(w)
  <2>1. PICK a \in Users, u \in Users, e \in Events :
          Receive(w, NewRequest("cancelRegistration", e, a, u, None, None))
    BY <1>6 DEF ReceiveCancelRegistration
  <2> DEFINE q == NewRequest("cancelRegistration", e, a, u, None, None)
  <2>2. /\ q \in Request /\ q.op = "cancelRegistration"
        /\ q.event \in Events /\ q.target \in Users
    BY <1>0 DEF NewRequest, Request, Ops
  <2> HIDE DEF q
  <2> QED
    BY <2>1, <2>2, ReceiveKeepsInv DEF q
<1> QED
  BY <1>1, <1>2, <1>3, <1>4, <1>5, <1>6 DEF ReceiveAny

\* The payloads are messages.
LEMMA EventMessageType ==
    ASSUME NEW key \in EventKeys, NEW e \in Events, NEW row \in EventRow,
           NEW t \in Nat
    PROVE  eventMessage(key, e, row, t) \in Message
BY DEF eventMessage, Message

\* A registration's message is an outbox row.
LEMMA RegistrationMessageType ==
    ASSUME NEW key \in RegKeys, NEW e \in Events, NEW row,
           row.user \in Users, row.status \in Active \cup {"CANCELED"},
           NEW prev \in Active \cup {None}, NEW t \in Nat
    PROVE  registrationMessage(key, e, row, prev, t) \in Message
BY DEF registrationMessage, Message

\* Taking the row lock.
LEMMA LockKeepsInv ==
    ASSUME Inv, NEW w \in Workers, selectEventForUpdate(w)
    PROVE  Inv'
<1> DEFINE e == req[w].event
<1>1. /\ pc[w] = "begun" /\ req[w].op # "create"
      /\ e \in Events /\ events[e] # None /\ lock[e] = None
      /\ lock' = [lock EXCEPT ![e] = w]
      /\ snap' = [snap EXCEPT ![w].event = events[e]]
      /\ pc' = [pc EXCEPT ![w] = "locked"]
      /\ UNCHANGED <<now, events, regs, outbox, audit, req>>
  BY DEF selectEventForUpdate, RowLockFree, tables, Inv, RequestsWellFormed
<1>2. TypeOK'
  <2>1. /\ lock' \in [Events -> Workers \cup {None}]
        /\ pc' \in [Workers -> {"idle", "begun", "locked", "read"}]
    BY <1>1 DEF Inv, TypeOK
  <2>2. snap' \in [Workers -> [event : EventRow \cup {None},
                              rows  : Seq(RegRow)]]
    <3>1. events[e] \in EventRow \cup {None}
      BY <1>1 DEF Inv, TypeOK
    <3> QED
      BY <1>1, <3>1 DEF Inv, TypeOK
  <2> QED
    BY <1>1, <2>1, <2>2 DEF Inv, TypeOK
<1>3. RequestsWellFormed'
  BY <1>1 DEF Inv, TypeOK, RequestsWellFormed
<1>4. ASSUME NEW v \in Workers, pc'[v] \in {"locked", "read"}
      PROVE  /\ req[v].op # "create"
             /\ events[req[v].event] # None
             /\ lock'[req[v].event] = v
             /\ snap'[v].event = events[req[v].event]
             /\ pc'[v] = "read" => snap'[v].rows = regs[req[v].event]
  <2>1. CASE v = w
    BY <1>1, <2>1 DEF Inv, TypeOK
  <2>2. CASE v # w
    <3>1. /\ pc'[v] = pc[v] /\ snap'[v] = snap[v]
          /\ req[v].op # "create"
          /\ req[v].event \in Events
          /\ events[req[v].event] # None
          /\ lock[req[v].event] = v
      BY <1>1, <1>4, <2>2 DEF Inv, TypeOK, LocksHeld, RequestsWellFormed
    <3>2. req[v].event # e
      BY <1>1, <3>1, ConstantAssumptions
    <3>3. lock'[req[v].event] = v
      BY <1>1, <3>1, <3>2 DEF Inv, TypeOK
    <3> QED
      BY <1>4, <3>1, <3>3 DEF Inv, SnapshotsCurrent
  <2> QED
    BY <2>1, <2>2
<1>5. LocksHeld' /\ SnapshotsCurrent'
  BY <1>1, <1>4 DEF LocksHeld, SnapshotsCurrent
<1>6. TablesOK'
  BY <1>1 DEF Inv, TablesOK
<1> QED
  BY <1>2, <1>3, <1>5, <1>6 DEF Inv

\* Reading the registrations.
LEMMA ReadKeepsInv ==
    ASSUME Inv, NEW w \in Workers, readRegistrations(w)
    PROVE  Inv'
<1> DEFINE e == req[w].event
<1>1. /\ pc[w] = "locked" /\ req[w].op # "create"
      /\ e \in Events /\ events[e] # None /\ lock[e] = w
      /\ snap[w].event = events[e]
      /\ snap' = [snap EXCEPT ![w].rows = regs[e]]
      /\ pc' = [pc EXCEPT ![w] = "read"]
      /\ UNCHANGED <<now, events, regs, outbox, audit, lock, req>>
  BY DEF readRegistrations, tables, Inv, RequestsWellFormed, LocksHeld,
         SnapshotsCurrent
<1>2. TypeOK'
  BY <1>1 DEF Inv, TypeOK
<1>3. RequestsWellFormed'
  BY <1>1 DEF Inv, TypeOK, RequestsWellFormed
<1>4. LocksHeld'
  BY <1>1 DEF Inv, TypeOK, LocksHeld
<1>5. snap'[w].event = events[e] /\ snap'[w].rows = regs[e]
  BY <1>1 DEF Inv, TypeOK
<1>6. SnapshotsCurrent'
  BY <1>1, <1>5 DEF Inv, TypeOK, SnapshotsCurrent
<1>7. TablesOK'
  BY <1>1 DEF Inv, TablesOK
<1> QED
  BY <1>2, <1>3, <1>4, <1>6, <1>7 DEF Inv

\* A transaction that leaves the tables alone.
LEMMA NoWriteKeepsInv ==
    ASSUME Inv, NEW w \in Workers, EndTx(w), UNCHANGED tables
    PROVE  Inv'
<1>1. UNCHANGED <<events, regs, outbox, audit>>
  BY DEF tables
<1>2. /\ events' \in [Events -> EventRow \cup {None}]
      /\ regs' \in [Events -> Seq(RegRow)]
      /\ outbox' \in Seq(Message)
      /\ audit' \in Seq(AuditEvent)
  BY <1>1 DEF Inv, TypeOK
<1>3. {} \in SUBSET Events
  OBVIOUS
<1> QED
  BY <1>1, <1>2, <1>3, EndKeepsInv

\* CreateEvent.
LEMMA CreateKeepsInv ==
    ASSUME Inv, NEW w \in Workers, CreateEvent(w)
    PROVE  Inv'
<1> DEFINE row == [status |-> "PUBLISHED", organizer |-> req[w].actor,
                   capacity |-> req[w].capacity, startsAt |-> req[w].startsAt]
<1>1. PICK e \in Events :
        /\ events[e] = None
        /\ events' = [events EXCEPT ![e] = row]
        /\ outbox' = Append(outbox,
                eventMessage("event.published", e, row, req[w].at))
  BY DEF CreateEvent
<1>2. EndTx(w) /\ UNCHANGED <<regs, audit>>
  BY DEF CreateEvent
<1>3. /\ req[w].actor \in Users /\ req[w].at \in Nat
      /\ req[w].capacity \in Nat \ {0} /\ req[w].startsAt \in Nat
  BY DEF CreateEvent, Inv, RequestsWellFormed, Request
<1>4. row \in EventRow
  BY <1>3 DEF EventRow
<1>5. row.capacity \in Nat
  BY <1>3
<1> HIDE DEF row
<1>6. eventMessage("event.published", e, row, req[w].at) \in Message
  BY <1>3, <1>4, EventMessageType DEF EventKeys
<1>7. outbox' \in Seq(Message) /\ audit' \in Seq(AuditEvent)
  BY <1>1, <1>2, <1>6, AppendProperties DEF Inv, TypeOK
<1>8. regs[e] \in Seq(RegRow) /\ regs' = [regs EXCEPT ![e] = regs[e]]
  BY <1>2 DEF Inv, TypeOK
<1>9. RowsOK(row, regs[e])
  <2>1. RowsOK(None, regs[e])
    BY <1>1 DEF Inv, TablesOK
  <2>2. confirmedCount(regs[e]) = 0
    BY <2>1, NoActiveNoSeats DEF RowsOK, EmptyUnlessPublished
  <2> QED
    BY <1>4, <1>5, <1>8, <2>1, <2>2, NewRowKeepsRows
<1> QED
  BY <1>1, <1>2, <1>4, <1>7, <1>8, <1>9, EndOneKeepsInv

\* UpdateEvent: the capacity is compared with a count that is still true.
LEMMA UpdateKeepsInv ==
    ASSUME Inv, NEW w \in Workers, UpdateEvent(w)
    PROVE  Inv'
<1> DEFINE q == req[w]
           e == req[w].event
           row == UpdatedRow(events[e], q)
<1>1. pc[w] = "read"
  BY DEF UpdateEvent, Ready
<1>2. /\ q \in Request /\ e \in Events /\ lock[e] = w
      /\ events[e] \in EventRow /\ regs[e] \in Seq(RegRow)
      /\ snap[w].event = events[e] /\ snap[w].rows = regs[e]
      /\ RowsOK(events[e], regs[e])
  BY <1>1, ReadFacts
<1>3. /\ q.capacity # None =>
            ValidateCapacityChange(q.capacity, confirmedCount(regs[e]))
      /\ Validate(row, q.at)
      /\ events' = [events EXCEPT ![e].capacity = row.capacity,
                                  ![e].startsAt = row.startsAt]
      /\ outbox' = Append(outbox, eventMessage("event.updated", e, row, q.at))
      /\ UNCHANGED <<regs, audit>>
      /\ EndTx(w)
  BY <1>2 DEF UpdateEvent
<1>4. /\ row.capacity = IF q.capacity = None THEN events[e].capacity
                                             ELSE q.capacity
      /\ row.startsAt = IF q.startsAt = None THEN events[e].startsAt
                                             ELSE q.startsAt
      /\ row.status = events[e].status
      /\ row.organizer = events[e].organizer
      /\ row = [events[e] EXCEPT !.capacity = row.capacity,
                                 !.startsAt = row.startsAt]
  BY <1>2 DEF UpdatedRow, EventRow
<1>5. row.capacity \in Nat \ {0} /\ row.startsAt \in Nat
  <2>1. row.capacity \in Int /\ row.startsAt \in Nat
    BY <1>2, <1>4, ConstantAssumptions DEF EventRow, Request
  <2> QED
    BY <1>3, <2>1 DEF Validate
<1> HIDE DEF row
<1>6. row \in EventRow
  BY <1>2, <1>4, <1>5 DEF EventRow
<1>7. events' = [events EXCEPT ![e] = row]
  BY <1>2, <1>3, <1>4 DEF Inv, TypeOK, EventRow
<1>8. confirmedCount(regs[e]) <= row.capacity
  <2>1. CASE q.capacity = None
    BY <1>2, <1>4, <2>1, NoneIsNoRow DEF RowsOK, SeatsFit
  <2>2. CASE q.capacity # None
    <3>1. confirmedCount(regs[e]) \in Nat
      BY <1>2, CountType DEF confirmedCount
    <3> QED
      BY <1>3, <1>4, <1>5, <2>2, <3>1 DEF ValidateCapacityChange
  <2> QED
    BY <2>1, <2>2
<1>9. RowsOK(row, regs[e])
  BY <1>2, <1>4, <1>6, <1>8, NewRowKeepsRows
<1>10. eventMessage("event.updated", e, row, q.at) \in Message
  BY <1>2, <1>6, EventMessageType DEF EventKeys, Request
<1>11. /\ outbox' \in Seq(Message) /\ audit' \in Seq(AuditEvent)
       /\ regs' = [regs EXCEPT ![e] = regs[e]]
  BY <1>3, <1>10, AppendProperties DEF Inv, TypeOK
<1> QED
  BY <1>2, <1>3, <1>6, <1>7, <1>9, <1>11, EndOneKeepsInv

\* CancelEvent: no join is in flight past its lock, so none can follow the
\* bulk UPDATE.
LEMMA CancelEventKeepsInv ==
    ASSUME Inv, NEW w \in Workers, CancelEvent(w)
    PROVE  Inv'
<1> DEFINE q == req[w]
           e == req[w].event
           row == [events[e] EXCEPT !.status = "CANCELED"]
           record == [action |-> "event.cancel", event |-> e,
                      actor |-> q.actor, target |-> None,
                      result |-> CancelResult(events[e].status)]
<1>1. pc[w] = "read"
  BY DEF CancelEvent, Ready
<1>2. /\ q \in Request /\ e \in Events /\ lock[e] = w
      /\ events[e] \in EventRow /\ regs[e] \in Seq(RegRow)
      /\ snap[w].event = events[e] /\ snap[w].rows = regs[e]
      /\ RowsOK(events[e], regs[e])
  BY <1>1, ReadFacts
<1>3. /\ \/ UNCHANGED <<events, regs, outbox>>
         \/ /\ events' = [events EXCEPT ![e].status = "CANCELED"]
            /\ regs' = [regs EXCEPT ![e] = CancelActive(@, q.at)]
            /\ outbox' = Append(outbox,
                    eventMessage("event.canceled", e, row, q.at))
      /\ audit' = Append(audit, record)
      /\ EndTx(w)
  BY <1>2 DEF CancelEvent
<1>4. record \in AuditEvent
  BY <1>2 DEF AuditEvent, Request, CancelResult
<1>5. row \in EventRow
  BY <1>2 DEF EventRow
<1> HIDE DEF record
<1>6. audit' \in Seq(AuditEvent)
  BY <1>3, <1>4, AppendProperties DEF Inv, TypeOK
<1>7. CASE UNCHANGED <<events, regs, outbox>>
  <2>1. /\ events' \in [Events -> EventRow \cup {None}]
        /\ regs' \in [Events -> Seq(RegRow)]
        /\ outbox' \in Seq(Message)
    BY <1>7 DEF Inv, TypeOK
  <2>2. {} \in SUBSET Events
    OBVIOUS
  <2> QED
    BY <1>3, <1>6, <1>7, <2>1, <2>2, EndKeepsInv
<1>8. CASE /\ events' = [events EXCEPT ![e].status = "CANCELED"]
           /\ regs' = [regs EXCEPT ![e] = CancelActive(@, q.at)]
           /\ outbox' = Append(outbox,
                   eventMessage("event.canceled", e, row, q.at))
  <2>1. q.at \in Nat
    BY <1>2 DEF Request
  <2>2. /\ CancelActive(regs[e], q.at) \in Seq(RegRow)
        /\ \A r \in EventRow \cup {None} : RowsOK(r, CancelActive(regs[e], q.at))
    BY <1>2, <2>1, CancelActiveKeepsRows DEF RowsOK
  <2>3. events' = [events EXCEPT ![e] = row]
          /\ regs' = [regs EXCEPT ![e] = CancelActive(regs[e], q.at)]
    BY <1>8
  <2>4. eventMessage("event.canceled", e, row, q.at) \in Message
    BY <1>2, <1>5, <2>1, EventMessageType DEF EventKeys
  <2> HIDE DEF row
  <2>5. outbox' \in Seq(Message)
    BY <1>8, <2>4, AppendProperties DEF Inv, TypeOK
  <2> QED
    BY <1>2, <1>3, <1>5, <1>6, <2>2, <2>3, <2>5, EndOneKeepsInv
<1> QED
  BY <1>3, <1>7, <1>8

\* JoinEvent: the count that decides between a seat and the waitlist is still
\* true at COMMIT.
LEMMA JoinKeepsInv ==
    ASSUME Inv, NEW w \in Workers, JoinEvent(w)
    PROVE  Inv'
<1> DEFINE q == req[w]
           e == req[w].event
           status == DecideJoinStatus(events[e], confirmedCount(regs[e]))
           row == [user |-> q.target, status |-> status,
                   pos |-> IF status = "WAITLISTED"
                           THEN nextWaitlistPosition(regs[e]) ELSE 0,
                   created |-> q.at, updated |-> q.at]
           key == IF status = "WAITLISTED" THEN "join.waitlisted"
                                           ELSE "join.confirmed"
<1>1. pc[w] = "read" /\ q.op = "join"
  BY DEF JoinEvent, Ready
<1>2. /\ q \in Request /\ e \in Events /\ lock[e] = w
      /\ events[e] \in EventRow /\ regs[e] \in Seq(RegRow)
      /\ snap[w].event = events[e] /\ snap[w].rows = regs[e]
      /\ RowsOK(events[e], regs[e])
  BY <1>1, ReadFacts
<1>3. /\ activeRegistration(regs[e], q.target) = {}
      /\ CanJoin(events[e], q.at)
      /\ regs' = [regs EXCEPT ![e] = Append(regs[e], row)]
      /\ outbox' = Append(outbox, registrationMessage(key, e, row, None, q.at))
      /\ UNCHANGED <<events, audit>>
      /\ EndTx(w)
  BY <1>2 DEF JoinEvent
<1>4. q.target \in Users /\ q.at \in Nat
  BY <1>1, <1>2 DEF Inv, RequestsWellFormed, Request
<1>5. nextWaitlistPosition(regs[e]) \in Nat
  BY <1>2, NextPosition DEF RowsOK
<1>6. status \in Active
  BY DEF DecideJoinStatus, Active
<1>7. row \in RegRow
  BY <1>4, <1>5, <1>6 DEF RegRow
<1>8. registrationMessage(key, e, row, None, q.at) \in Message
  <2>1. key \in RegKeys
    BY DEF RegKeys
  <2>2. row.user \in Users /\ row.status \in Active \cup {"CANCELED"}
    BY <1>4, <1>6
  <2> HIDE DEF key, row
  <2> QED
    BY <1>2, <1>4, <2>1, <2>2, RegistrationMessageType
<1>9. RowsOK(events[e], Append(regs[e], row))
  <2>1. /\ row.user = q.target
        /\ row.status = DecideJoinStatus(events[e], confirmedCount(regs[e]))
        /\ row.pos = IF row.status = "WAITLISTED"
                     THEN nextWaitlistPosition(regs[e]) ELSE 0
        /\ events[e].status = "PUBLISHED"
    BY <1>3 DEF CanJoin
  <2> HIDE DEF row
  <2> QED
    BY <1>2, <1>3, <1>7, <2>1, JoinKeepsRows
<1> HIDE DEF row, key
<1>10. /\ Append(regs[e], row) \in Seq(RegRow)
       /\ events' = [events EXCEPT ![e] = events[e]]
       /\ outbox' \in Seq(Message) /\ audit' \in Seq(AuditEvent)
  BY <1>2, <1>3, <1>7, <1>8, AppendProperties DEF Inv, TypeOK
<1> QED
  BY <1>2, <1>3, <1>9, <1>10, EndOneKeepsInv

\* cancelRegistrationTx, in each of its three outcomes.
LEMMA CancelTxRows ==
    ASSUME Inv, NEW w \in Workers, pc[w] = "read",
           req[w].target \in Users, cancelRegistrationTx(w)
    PROVE  /\ outbox' \in Seq(Message)
           /\ \E new \in Seq(RegRow) :
                /\ regs' = [regs EXCEPT ![req[w].event] = new]
                /\ RowsOK(events[req[w].event], new)
                /\ Waitlisted(req[w].event) # {} =>
                      confirmedCount(new) >= confirmedCount(regs[req[w].event])
<1> DEFINE q == req[w]
           e == req[w].event
           rows == regs[e]
           mine == activeRegistration(rows, q.target)
           canceled(i) == SetStatus(rows, i, "CANCELED", q.at)
           canceledMessage(i) ==
               registrationMessage("join.canceled", e,
                                   [rows[i] EXCEPT !.status = "CANCELED"],
                                   rows[i].status, q.at)
<1>1. /\ q \in Request /\ e \in Events
      /\ events[e] \in EventRow /\ rows \in Seq(RegRow)
      /\ snap[w].rows = rows
      /\ RowsOK(events[e], rows)
      /\ q.at \in Nat
  BY ReadFacts DEF Request
<1>2. outbox \in Seq(Message) /\ regs \in [Events -> Seq(RegRow)]
  BY DEF Inv, TypeOK
<1>3. ASSUME NEW i \in mine
      PROVE  /\ i \in WithStatus(rows, Active) /\ i \in DOMAIN rows
             /\ rows[i] \in RegRow /\ rows[i].status \in Active
             /\ canceled(i) \in Seq(RegRow)
             /\ canceledMessage(i) \in Message
  <2>1. /\ i \in WithStatus(rows, Active) /\ i \in DOMAIN rows
        /\ rows[i].status \in Active
    BY DEF activeRegistration, WithStatus
  <2>2. rows[i] \in RegRow
    BY <1>1, <2>1, ElementOfSeq, LenProperties
  <2>3. canceled(i) \in Seq(RegRow)
    BY <1>1, <2>1, SetStatusRows
  <2> DEFINE m == [rows[i] EXCEPT !.status = "CANCELED"]
  <2>4. m.user \in Users /\ m.status = "CANCELED"
    BY <2>2 DEF RegRow
  <2> HIDE DEF m
  <2>5. registrationMessage("join.canceled", e, m, rows[i].status, q.at)
          \in Message
    BY <1>1, <2>1, <2>4, RegistrationMessageType DEF RegKeys
  <2> QED
    BY <2>1, <2>2, <2>3, <2>5 DEF m
<1>4. confirmedCount(rows) \in Nat
  BY <1>1, CountType DEF confirmedCount
<1>5. CASE UNCHANGED <<regs, outbox>>
  <2>1. regs' = [regs EXCEPT ![e] = rows] /\ outbox' \in Seq(Message)
    BY <1>1, <1>2, <1>5
  <2>2. confirmedCount(rows) >= confirmedCount(rows)
    BY <1>4
  <2> QED
    BY <1>1, <2>1, <2>2
<1>6. CASE \E i \in mine :
              /\ Promotable(rows, rows[i].status) = {}
              /\ regs' = [regs EXCEPT ![e] = canceled(i)]
              /\ outbox' = Append(outbox, canceledMessage(i))
  <2>1. PICK i \in mine :
          /\ Promotable(rows, rows[i].status) = {}
          /\ regs' = [regs EXCEPT ![e] = canceled(i)]
          /\ outbox' = Append(outbox, canceledMessage(i))
    BY <1>6
  <2>2. RowsOK(events[e], canceled(i))
    BY <1>1, <1>3, CancelKeepsRows
  <2>3. canceled(i) \in Seq(RegRow) /\ canceledMessage(i) \in Message
    BY <1>3
  <2>4. ASSUME Waitlisted(e) # {}
        PROVE  confirmedCount(canceled(i)) >= confirmedCount(rows)
    <3>1. firstWaitlisted(rows) # {}
      BY <1>1, <2>4, SomebodyIsFirst DEF RowsOK, Waitlisted
    <3>2. rows[i].status # "CONFIRMED"
      BY <2>1, <3>1 DEF Promotable
    <3>3. i \in WithStatus(rows, {"WAITLISTED"})
      BY <1>3, <3>2 DEF WithStatus, Active
    <3> QED
      BY <1>1, <1>4, <3>3, CancelQueuedKeepsSeats
  <2> HIDE DEF canceled, canceledMessage
  <2>5. outbox' \in Seq(Message)
    BY <1>2, <2>1, <2>3, AppendProperties
  <2> QED
    BY <2>1, <2>2, <2>3, <2>4, <2>5
<1>7. CASE \E i \in mine : \E p \in Promotable(rows, rows[i].status) :
              /\ regs' = [regs EXCEPT
                    ![e] = SetStatus(canceled(i), p, "CONFIRMED", q.at)]
              /\ outbox' = outbox \o
                    <<canceledMessage(i),
                      registrationMessage("join.promoted", e,
                          [rows[p] EXCEPT !.status = "CONFIRMED"],
                          "WAITLISTED", q.at)>>
  <2>1. PICK i \in mine : \E p \in Promotable(rows, rows[i].status) :
          /\ regs' = [regs EXCEPT
                ![e] = SetStatus(canceled(i), p, "CONFIRMED", q.at)]
          /\ outbox' = outbox \o
                <<canceledMessage(i),
                  registrationMessage("join.promoted", e,
                      [rows[p] EXCEPT !.status = "CONFIRMED"],
                      "WAITLISTED", q.at)>>
    BY <1>7
  <2>2. PICK p \in Promotable(rows, rows[i].status) :
          /\ regs' = [regs EXCEPT
                ![e] = SetStatus(canceled(i), p, "CONFIRMED", q.at)]
          /\ outbox' = outbox \o
                <<canceledMessage(i),
                  registrationMessage("join.promoted", e,
                      [rows[p] EXCEPT !.status = "CONFIRMED"],
                      "WAITLISTED", q.at)>>
    BY <2>1
  <2>3. /\ i \in WithStatus(rows, {"CONFIRMED"})
        /\ p \in WithStatus(rows, {"WAITLISTED"})
        /\ p \in DOMAIN rows
    BY <1>3 DEF Promotable, firstWaitlisted, WithStatus
  <2> DEFINE new == SetStatus(canceled(i), p, "CONFIRMED", q.at)
             m == [rows[p] EXCEPT !.status = "CONFIRMED"]
             first == canceledMessage(i)
             second == registrationMessage("join.promoted", e, m,
                                           "WAITLISTED", q.at)
  <2>4. /\ new \in Seq(RegRow) /\ RowsOK(events[e], new)
        /\ confirmedCount(new) = confirmedCount(rows)
    <3>1. /\ events[e] \in EventRow \cup {None} /\ rows \in Seq(RegRow)
          /\ RowsOK(events[e], rows) /\ q.at \in Nat
      BY <1>1
    <3> HIDE DEF q, e, rows
    <3> QED
      BY <2>3, <3>1, PromoteKeepsRows
  <2>5. rows[p] \in RegRow
    BY <1>1, <2>3, ElementOfSeq, LenProperties
  <2>6. m.user \in Users /\ m.status = "CONFIRMED"
    BY <2>5 DEF RegRow
  <2>7. second \in Message
    <3> HIDE DEF m
    <3> QED
      BY <1>1, <2>6, RegistrationMessageType DEF RegKeys, Active
  <2>8. first \in Message
    BY <1>3
  <2>9. outbox' = outbox \o <<first, second>>
    BY <2>2
  <2>10. regs' = [regs EXCEPT ![e] = new]
    BY <2>2
  <2> HIDE DEF first, second, new
  <2>11. outbox' \in Seq(Message)
    <3>1. <<first, second>> \in Seq(Message)
      BY <2>7, <2>8
    <3> QED
      BY <1>2, <2>9, <3>1, ConcatProperties
  <2>12. confirmedCount(new) >= confirmedCount(rows)
    BY <1>4, <2>4
  <2> QED
    BY <2>4, <2>10, <2>11, <2>12
<1> QED
  BY <1>1, <1>5, <1>6, <1>7 DEF cancelRegistrationTx

\* CancelJoin and CancelRegistration.
LEMMA CancelJoinKeepsInv ==
    ASSUME Inv, NEW w \in Workers, CancelJoin(w) \/ CancelRegistration(w)
    PROVE  Inv'
<1> DEFINE e == req[w].event
<1>1. /\ pc[w] = "read"
      /\ req[w].op \in {"cancelJoin", "cancelRegistration"}
      /\ cancelRegistrationTx(w)
      /\ UNCHANGED events
      /\ EndTx(w)
  BY DEF CancelJoin, CancelRegistration, Ready
<1>2. /\ req[w] \in Request /\ e \in Events /\ lock[e] = w
      /\ events[e] \in EventRow
  BY <1>1, ReadFacts
<1>3. req[w].target \in Users
  BY <1>1 DEF Inv, RequestsWellFormed
<1>4. outbox' \in Seq(Message)
  BY <1>1, <1>3, CancelTxRows
<1>5. PICK new \in Seq(RegRow) : /\ regs' = [regs EXCEPT ![e] = new]
                                 /\ RowsOK(events[e], new)
  BY <1>1, <1>3, CancelTxRows
<1>6. audit' \in Seq(AuditEvent)
  <2>1. CASE CancelJoin(w)
    BY <2>1 DEF CancelJoin, Inv, TypeOK
  <2>2. CASE CancelRegistration(w)
    <3> DEFINE record == [action |-> "registration.cancel_by_manager",
                          event |-> req[w].event, actor |-> req[w].actor,
                          target |-> req[w].target, result |-> "success"]
    <3>1. record \in AuditEvent
      BY <1>2, <1>3 DEF AuditEvent, Request
    <3>2. audit' = Append(audit, record)
      BY <2>2 DEF CancelRegistration
    <3> HIDE DEF record
    <3> QED
      BY <3>1, <3>2, AppendProperties DEF Inv, TypeOK
  <2> QED
    BY <2>1, <2>2
<1>7. events' = [events EXCEPT ![e] = events[e]]
  BY <1>1 DEF Inv, TypeOK
<1> QED
  BY <1>1, <1>2, <1>4, <1>5, <1>6, <1>7, EndOneKeepsInv

\* Every step keeps the invariant.
LEMMA NextKeepsInv == Inv /\ [Next]_vars => Inv'
<1> SUFFICES ASSUME Inv, [Next]_vars PROVE Inv'
  OBVIOUS
<1>1. CASE Tick
  BY <1>1 DEF Tick, tables, Inv, TypeOK, RequestsWellFormed, LocksHeld,
              SnapshotsCurrent, TablesOK
<1>2. CASE UNCHANGED vars
  BY <1>2 DEF vars, tables, Inv, TypeOK, RequestsWellFormed, LocksHeld,
              SnapshotsCurrent, TablesOK
<1>3. CASE Quiesced
  BY <1>2, <1>3 DEF Quiesced
<1>4. ASSUME NEW w \in Workers, Commit(w) PROVE Inv'
  <2>1. CASE JoinExisting(w)
    BY <2>1, NoWriteKeepsInv DEF JoinExisting
  <2> QED
    BY <1>4, <2>1, CreateKeepsInv, UpdateKeepsInv, CancelEventKeepsInv,
       JoinKeepsInv, CancelJoinKeepsInv DEF Commit
<1>5. ASSUME NEW w \in Workers, Rollback(w) PROVE Inv'
  BY <1>5, NoWriteKeepsInv DEF Rollback
<1> QED
  BY <1>1, <1>2, <1>3, <1>4, <1>5, ReceiveAnyKeepsInv, LockKeepsInv,
     ReadKeepsInv DEF Next

\* Inv is an invariant of the service.
THEOREM Invariance == Spec => []Inv
BY InitInv, NextKeepsInv, PTL DEF Spec

-----------------------------------------------------------------------------
(* The theorems.                                                           *)

\* Type correctness of the tables and of the transactions in flight.
THEOREM TypeCorrect == Spec => []TypeOK
<1>1. Inv => TypeOK
  BY DEF Inv
<1> QED
  BY <1>1, Invariance, PTL

\* However many joins, cancellations and capacity changes are in flight, no
\* event has more confirmed attendees than places.
THEOREM NeverOverbooked == Spec => []CapacityRespected
<1>1. Inv => CapacityRespected
  BY DEF Inv, TablesOK, RowsOK, SeatsFit, CapacityRespected
<1> QED
  BY <1>1, Invariance, PTL

\* No user ever has two active registrations for one event.
THEOREM NeverTwoActive == Spec => []OneActive
<1>1. Inv => OneActive
  <2> SUFFICES ASSUME Inv, NEW e \in Events, NEW u \in Users
               PROVE  Cardinality({i \in WithStatus(regs[e], Active) :
                                     regs[e][i].user = u}) <= 1
    BY DEF OneActive
  <2> DEFINE S == {i \in WithStatus(regs[e], Active) : regs[e][i].user = u}
  <2>1. \A i, j \in S : i = j
    BY DEF Inv, TablesOK, RowsOK, OneActivePerUser
  <2> HIDE DEF S
  <2>2. ASSUME S = {} PROVE Cardinality(S) <= 1
    BY <2>2, FS_EmptySet
  <2>3. ASSUME S # {} PROVE Cardinality(S) <= 1
    <3>1. PICK i \in S : TRUE
      BY <2>3
    <3>2. S = {i}
      BY <2>1, <3>1
    <3>3. Cardinality({i}) = 1
      BY FS_Singleton
    <3> QED
      BY <3>2, <3>3
  <2>4. Cardinality(S) <= 1
    BY <2>2, <2>3
  <2> QED
    BY <2>4 DEF S
<1> QED
  BY <1>1, Invariance, PTL

\* Waitlist positions follow arrival and are never given twice.
THEOREM WaitlistOrdered == Spec => []WaitlistInArrivalOrder
<1>1. Inv => WaitlistInArrivalOrder
  BY DEF Inv, TablesOK, RowsOK, InArrivalOrder, WaitlistInArrivalOrder,
         Waitlisted
<1> QED
  BY <1>1, Invariance, PTL

\* A canceled event has no active registration, whatever was in flight when
\* it was canceled.
THEOREM NobodyLeftBehind == Spec => []CanceledEventEmpty
<1>1. Inv => CanceledEventEmpty
  BY DEF Inv, TablesOK, RowsOK, EmptyUnlessPublished, CanceledEventEmpty,
         IsPublished
<1> QED
  BY <1>1, Invariance, PTL

\* What a transaction has read is what is committed, until it commits.
THEOREM ReadsStayCurrent == Spec => []SnapshotsCurrent
<1>1. Inv => SnapshotsCurrent
  BY DEF Inv
<1> QED
  BY <1>1, Invariance, PTL

\* A seat given up while somebody waits is handed on in the same transaction.
THEOREM SeatsHandedOn == Spec => SeatsKeptWhileQueued
<1> DEFINE Kept == \A e \in Events :
                       Waitlisted(e) # {} /\ IsPublished(e)' =>
                           confirmedCount(regs'[e]) >= confirmedCount(regs[e])
<1>1. Inv /\ [Next]_vars => [Kept]_vars
  <2> SUFFICES ASSUME Inv, Next, NEW e \in Events, Waitlisted(e) # {},
                      IsPublished(e)'
               PROVE  confirmedCount(regs'[e]) >= confirmedCount(regs[e])
    OBVIOUS
  <2>1. regs[e] \in Seq(RegRow) /\ confirmedCount(regs[e]) \in Nat
    BY CountType DEF Inv, TypeOK, confirmedCount
  <2>2. CASE regs'[e] = regs[e]
    BY <2>1, <2>2
  <2>3. ASSUME NEW w \in Workers, CancelEvent(w) PROVE regs'[e] = regs[e]
    <3>1. pc[w] = "read"
      BY <2>3 DEF CancelEvent, Ready
    <3>2. /\ req[w].event \in Events /\ events[req[w].event] \in EventRow
          /\ events \in [Events -> EventRow \cup {None}]
          /\ regs \in [Events -> Seq(RegRow)]
      BY <3>1, ReadFacts DEF Inv, TypeOK
    <3>3. CASE UNCHANGED regs
      BY <3>3
    <3>4. CASE /\ events' = [events EXCEPT ![req[w].event].status = "CANCELED"]
               /\ regs' = [regs EXCEPT ![req[w].event] =
                               CancelActive(@, req[w].at)]
      <4>1. events'[req[w].event].status = "CANCELED"
        BY <3>2, <3>4 DEF EventRow
      <4>2. req[w].event # e
        BY <4>1 DEF IsPublished
      <4> QED
        BY <3>2, <3>4, <4>2
    <3> QED
      BY <2>3, <3>3, <3>4 DEF CancelEvent
  <2>4. ASSUME NEW w \in Workers, JoinEvent(w)
        PROVE  confirmedCount(regs'[e]) >= confirmedCount(regs[e])
    <3>1. pc[w] = "read" /\ req[w].event \in Events
      BY <2>4, ReadFacts DEF JoinEvent, Ready
    <3>2. PICK row : regs' = [regs EXCEPT ![req[w].event] = Append(@, row)]
      BY <2>4 DEF JoinEvent
    <3>3. CASE e # req[w].event
      BY <2>2, <3>2, <3>3 DEF Inv, TypeOK
    <3>4. CASE e = req[w].event
      <4>1. regs'[e] = Append(regs[e], row)
        BY <3>2, <3>4 DEF Inv, TypeOK
      <4>2. regs'[e] \in Seq(RegRow)
        BY <2>4, JoinKeepsInv DEF Inv, TypeOK
      <4>3. row \in RegRow
        BY <2>1, <4>1, <4>2, AppendedIsElement
      <4> QED
        BY <2>1, <4>1, <4>3, JoinKeepsSeats
    <3> QED
      BY <3>3, <3>4
  <2>5. ASSUME NEW w \in Workers, CancelJoin(w) \/ CancelRegistration(w)
        PROVE  confirmedCount(regs'[e]) >= confirmedCount(regs[e])
    <3>1. /\ pc[w] = "read" /\ cancelRegistrationTx(w)
          /\ req[w].event \in Events
          /\ req[w].target \in Users
      BY <2>5, ReadFacts DEF CancelJoin, CancelRegistration, Ready, Inv,
                             RequestsWellFormed
    <3>2. PICK new \in Seq(RegRow) :
            /\ regs' = [regs EXCEPT ![req[w].event] = new]
            /\ Waitlisted(req[w].event) # {} =>
                  confirmedCount(new) >= confirmedCount(regs[req[w].event])
      BY <3>1, CancelTxRows
    <3>3. CASE e # req[w].event
      BY <2>2, <3>2, <3>3 DEF Inv, TypeOK
    <3>4. CASE e = req[w].event
      BY <3>2, <3>4 DEF Inv, TypeOK
    <3> QED
      BY <3>3, <3>4
  <2>6. CASE UNCHANGED regs
    BY <2>2, <2>6
  <2>7. CASE Tick \/ Quiesced
    BY <2>6, <2>7 DEF Tick, Quiesced, vars, tables
  <2>8. ASSUME NEW w \in Workers,
               \/ ReceiveAny(w) \/ selectEventForUpdate(w)
               \/ readRegistrations(w) \/ Rollback(w)
               \/ CreateEvent(w) \/ UpdateEvent(w) \/ JoinExisting(w)
        PROVE  UNCHANGED regs
    BY <2>8 DEF ReceiveAny, ReceiveCreate, ReceiveUpdate, ReceiveCancelEvent,
                ReceiveJoin, ReceiveCancelJoin, ReceiveCancelRegistration,
                Receive, selectEventForUpdate, readRegistrations, Rollback,
                CreateEvent, UpdateEvent, JoinExisting, tables
  <2> QED
    BY <2>2, <2>3, <2>4, <2>5, <2>6, <2>7, <2>8 DEF Next, Commit
<1> QED
  BY <1>1, Invariance, PTL DEF Spec, SeatsKeptWhileQueued

-----------------------------------------------------------------------------
(* A box is a sequence of outbox messages in commit order.                 *)

\* The messages that add one to the feed's count and those that take one off.
SeatTaken(m, e) ==
    m.event = e /\ m.key \in {"join.confirmed", "join.promoted"}

SeatFreed(m, e) ==
    m.event = e /\ m.key = "join.canceled" /\ m.prev = "CONFIRMED"

IsEventMessage(m, e) == m.event = e /\ m.key \in EventKeys

IsAbout(m, e, u) == m.event = e /\ m.key \in RegKeys /\ m.user = u

Ups(box, e) == {i \in DOMAIN box : SeatTaken(box[i], e)}
Downs(box, e) == {i \in DOMAIN box : SeatFreed(box[i], e)}
EventsIn(box, e) == {i \in DOMAIN box : IsEventMessage(box[i], e)}
AboutIn(box, e, u) == {i \in DOMAIN box : IsAbout(box[i], e, u)}

IsLast(S, m) == m \in S /\ \A i \in S : i <= m

\* The last event message carries the event row.
EventTold(e, row, box) ==
    row # None => \E m \in EventsIn(box, e) :
        IsLast(EventsIn(box, e), m) /\ box[m].row = row

\* The last message about a user carries the status of the registration.
UserTold(u, e, rows, box) ==
    \/ AboutIn(box, e, u) = {} /\ activeRegistration(rows, u) = {}
    \/ \E m \in AboutIn(box, e, u) :
        /\ IsLast(AboutIn(box, e, u), m)
        /\ activeRegistration(rows, u) = {} => box[m].status = "CANCELED"
        /\ \A i \in activeRegistration(rows, u) :
              rows[i].status = box[m].status

SeatsCounted(e, rows, box) ==
    Cardinality(Ups(box, e)) - Cardinality(Downs(box, e))
        = confirmedCount(rows)

\* No prefix of the outbox frees more seats than it takes: the floor at zero
\* in the feed's UPDATE is never felt by a reader in commit order.
NeverNegative(e, box) ==
    \A k \in 0 .. Len(box) :
        Cardinality(Downs(box, e) \cap (1 .. k))
            <= Cardinality(Ups(box, e) \cap (1 .. k))

\* What the outbox tells of one event, its row and its registrations.
History(e, row, rows, box) ==
    /\ row = None => \A i \in DOMAIN box : box[i].event # e
    /\ EventTold(e, row, box)
    /\ row # None /\ row.status = "PUBLISHED" =>
          /\ \A u \in Users : UserTold(u, e, rows, box)
          /\ SeatsCounted(e, rows, box)
    /\ NeverNegative(e, box)

\* One message is committed.
Grows(new, box, m) == new = Append(box, m)

\* Appending a message adds its place to the sets it belongs to.
LEMMA AppendBox ==
    ASSUME NEW box \in Seq(Message), NEW m \in Message, NEW new,
           Grows(new, box, m)
    PROVE  /\ new \in Seq(Message)
           /\ Len(box) \in Nat /\ Len(new) = Len(box) + 1
           /\ DOMAIN box = 1 .. Len(box) /\ DOMAIN new = 1 .. Len(box) + 1
           /\ \A i \in 1 .. Len(box) : new[i] = box[i]
           /\ new[Len(box) + 1] = m
  BY AppendProperties, LenProperties DEF Grows

\* What an appended message adds to the sets the counts are taken of.
LEMMA AppendSets ==
    ASSUME NEW box \in Seq(Message), NEW m \in Message, NEW new,
           Grows(new, box, m), NEW e
    PROVE  /\ Ups(new, e) = IF SeatTaken(m, e)
                            THEN Ups(box, e) \cup {Len(box) + 1}
                            ELSE Ups(box, e)
           /\ Downs(new, e) = IF SeatFreed(m, e)
                              THEN Downs(box, e) \cup {Len(box) + 1}
                              ELSE Downs(box, e)
           /\ EventsIn(new, e) = IF IsEventMessage(m, e)
                                 THEN EventsIn(box, e) \cup {Len(box) + 1}
                                 ELSE EventsIn(box, e)
           /\ \A u : AboutIn(new, e, u) =
                        IF IsAbout(m, e, u)
                        THEN AboutIn(box, e, u) \cup {Len(box) + 1}
                        ELSE AboutIn(box, e, u)
<1>1. /\ Len(box) \in Nat
      /\ DOMAIN box = 1 .. Len(box) /\ DOMAIN new = 1 .. Len(box) + 1
      /\ \A i \in 1 .. Len(box) : new[i] = box[i]
      /\ new[Len(box) + 1] = m
  BY AppendBox
<1>2. /\ DOMAIN new = DOMAIN box \cup {Len(box) + 1}
      /\ \A i \in DOMAIN box : new[i] = box[i]
  BY <1>1
<1>3. Ups(new, e) = IF SeatTaken(m, e) THEN Ups(box, e) \cup {Len(box) + 1}
                                       ELSE Ups(box, e)
  BY <1>1, <1>2 DEF Ups
<1>4. Downs(new, e) = IF SeatFreed(m, e)
                      THEN Downs(box, e) \cup {Len(box) + 1}
                      ELSE Downs(box, e)
  BY <1>1, <1>2 DEF Downs
<1>5. EventsIn(new, e) = IF IsEventMessage(m, e)
                         THEN EventsIn(box, e) \cup {Len(box) + 1}
                         ELSE EventsIn(box, e)
  BY <1>1, <1>2 DEF EventsIn
<1>6. ASSUME NEW u
      PROVE  AboutIn(new, e, u) = IF IsAbout(m, e, u)
                                  THEN AboutIn(box, e, u) \cup {Len(box) + 1}
                                  ELSE AboutIn(box, e, u)
  BY <1>1, <1>2 DEF AboutIn
<1> QED
  BY <1>3, <1>4, <1>5, <1>6

\* The sets are finite sets of places in the box.
LEMMA BoxSets ==
    ASSUME NEW box \in Seq(Message), NEW e
    PROVE  /\ Ups(box, e) \in SUBSET (1 .. Len(box))
           /\ Downs(box, e) \in SUBSET (1 .. Len(box))
           /\ EventsIn(box, e) \in SUBSET (1 .. Len(box))
           /\ \A u : AboutIn(box, e, u) \in SUBSET (1 .. Len(box))
           /\ IsFiniteSet(Ups(box, e)) /\ IsFiniteSet(Downs(box, e))
           /\ Cardinality(Ups(box, e)) \in Nat
           /\ Cardinality(Downs(box, e)) \in Nat
<1>1. Len(box) \in Nat /\ DOMAIN box = 1 .. Len(box)
  BY LenProperties
<1>2. /\ Ups(box, e) \in SUBSET (1 .. Len(box))
      /\ Downs(box, e) \in SUBSET (1 .. Len(box))
      /\ EventsIn(box, e) \in SUBSET (1 .. Len(box))
      /\ \A u : AboutIn(box, e, u) \in SUBSET (1 .. Len(box))
  BY <1>1 DEF Ups, Downs, EventsIn, AboutIn
<1>3. IsFiniteSet(1 .. Len(box))
  BY <1>1, FS_Interval
<1>4. IsFiniteSet(Ups(box, e)) /\ IsFiniteSet(Downs(box, e))
  BY <1>2, <1>3, FS_Subset
<1> QED
  BY <1>2, <1>4, FS_CardinalityType

\* How the counts grow.
LEMMA AppendCounts ==
    ASSUME NEW box \in Seq(Message), NEW m \in Message, NEW new,
           Grows(new, box, m), NEW e
    PROVE  /\ Cardinality(Ups(new, e)) =
                Cardinality(Ups(box, e)) + (IF SeatTaken(m, e) THEN 1 ELSE 0)
           /\ Cardinality(Downs(new, e)) =
                Cardinality(Downs(box, e)) + (IF SeatFreed(m, e) THEN 1 ELSE 0)
<1> DEFINE last == Len(box) + 1
<1>1. /\ IsFiniteSet(Ups(box, e)) /\ IsFiniteSet(Downs(box, e))
      /\ Cardinality(Ups(box, e)) \in Nat
      /\ Cardinality(Downs(box, e)) \in Nat
      /\ Ups(box, e) \in SUBSET (1 .. Len(box))
      /\ Downs(box, e) \in SUBSET (1 .. Len(box))
  BY BoxSets
<1>2. last \notin 1 .. Len(box)
  BY LenProperties
<1>3. last \notin Ups(box, e) /\ last \notin Downs(box, e)
  BY <1>1, <1>2
<1>4. /\ Ups(new, e) = IF SeatTaken(m, e) THEN Ups(box, e) \cup {last}
                                          ELSE Ups(box, e)
      /\ Downs(new, e) = IF SeatFreed(m, e) THEN Downs(box, e) \cup {last}
                                            ELSE Downs(box, e)
  BY AppendSets
<1> HIDE DEF last
<1>5. /\ Cardinality(Ups(box, e) \cup {last}) = Cardinality(Ups(box, e)) + 1
      /\ Cardinality(Downs(box, e) \cup {last}) =
            Cardinality(Downs(box, e)) + 1
  BY <1>1, <1>3, FS_AddElement
<1>6. Cardinality(Ups(new, e)) =
        Cardinality(Ups(box, e)) + (IF SeatTaken(m, e) THEN 1 ELSE 0)
  BY <1>1, <1>4, <1>5
<1>7. Cardinality(Downs(new, e)) =
        Cardinality(Downs(box, e)) + (IF SeatFreed(m, e) THEN 1 ELSE 0)
  BY <1>1, <1>4, <1>5
<1> QED
  BY <1>6, <1>7

\* Only the whole of the longer box has to be looked at again.
LEMMA AppendNeverNegative ==
    ASSUME NEW box \in Seq(Message), NEW m \in Message, NEW new,
           Grows(new, box, m), NEW e, NeverNegative(e, box),
           Cardinality(Downs(new, e)) <= Cardinality(Ups(new, e))
    PROVE  NeverNegative(e, new)
<1> DEFINE last == Len(box) + 1
<1>1. /\ new \in Seq(Message) /\ Len(box) \in Nat /\ Len(new) = last
  BY AppendBox
<1>2. /\ Ups(new, e) \in SUBSET (1 .. last)
      /\ Downs(new, e) \in SUBSET (1 .. last)
  BY <1>1, BoxSets
<1>3. /\ Ups(new, e) \in {Ups(box, e), Ups(box, e) \cup {last}}
      /\ Downs(new, e) \in {Downs(box, e), Downs(box, e) \cup {last}}
  BY AppendSets
<1> SUFFICES ASSUME NEW k \in 0 .. last
             PROVE  Cardinality(Downs(new, e) \cap (1 .. k))
                      <= Cardinality(Ups(new, e) \cap (1 .. k))
  BY <1>1 DEF NeverNegative
<1>4. CASE k = last
  <2>1. /\ Downs(new, e) \cap (1 .. k) = Downs(new, e)
        /\ Ups(new, e) \cap (1 .. k) = Ups(new, e)
    BY <1>2, <1>4
  <2> QED
    BY <2>1
<1>5. CASE k # last
  <2>1. k \in 0 .. Len(box) /\ last \notin 1 .. k
    BY <1>1, <1>5
  <2>2. /\ Downs(new, e) \cap (1 .. k) = Downs(box, e) \cap (1 .. k)
        /\ Ups(new, e) \cap (1 .. k) = Ups(box, e) \cap (1 .. k)
    BY <1>3, <2>1
  <2> QED
    BY <2>1, <2>2 DEF NeverNegative
<1> QED
  BY <1>4, <1>5

\* The whole outbox is one of its own prefixes.
LEMMA WholeNotNegative ==
    ASSUME NEW box \in Seq(Message), NEW e, NeverNegative(e, box)
    PROVE  Cardinality(Downs(box, e)) <= Cardinality(Ups(box, e))
<1>1. Len(box) \in 0 .. Len(box)
  BY LenProperties
<1>2. /\ Downs(box, e) \cap (1 .. Len(box)) = Downs(box, e)
      /\ Ups(box, e) \cap (1 .. Len(box)) = Ups(box, e)
  BY BoxSets
<1> QED
  BY <1>1, <1>2 DEF NeverNegative

\* A message about another event changes nothing.
LEMMA OtherHistory ==
    ASSUME NEW box \in Seq(Message), NEW m \in Message, NEW new,
           Grows(new, box, m), NEW e, m.event # e, NEW row, NEW rows,
           History(e, row, rows, box)
    PROVE  History(e, row, rows, new)
<1>1. /\ Len(box) \in Nat
      /\ DOMAIN box = 1 .. Len(box) /\ DOMAIN new = 1 .. Len(box) + 1
      /\ \A i \in 1 .. Len(box) : new[i] = box[i]
      /\ new[Len(box) + 1] = m
  BY AppendBox
<1>2. /\ Ups(new, e) = Ups(box, e) /\ Downs(new, e) = Downs(box, e)
      /\ EventsIn(new, e) = EventsIn(box, e)
      /\ \A u : AboutIn(new, e, u) = AboutIn(box, e, u)
  BY AppendSets DEF SeatTaken, SeatFreed, IsEventMessage, IsAbout
<1>3. /\ \A i \in EventsIn(box, e) : new[i] = box[i]
      /\ \A u : \A i \in AboutIn(box, e, u) : new[i] = box[i]
  BY <1>1, BoxSets
<1>4. EventTold(e, row, new)
  BY <1>2, <1>3 DEF History, EventTold
<1>5. ASSUME NEW u \in Users, UserTold(u, e, rows, box)
      PROVE  UserTold(u, e, rows, new)
  BY <1>2, <1>3, <1>5 DEF UserTold
<1>6. SeatsCounted(e, rows, box) => SeatsCounted(e, rows, new)
  BY <1>2 DEF SeatsCounted
<1>7. NeverNegative(e, new)
  <2>1. Cardinality(Downs(box, e)) <= Cardinality(Ups(box, e))
    BY WholeNotNegative DEF History
  <2> QED
    BY <1>2, <2>1, AppendNeverNegative DEF History
<1>8. row = None => \A i \in DOMAIN new : new[i].event # e
  BY <1>1 DEF History
<1> QED
  BY <1>4, <1>5, <1>6, <1>7, <1>8 DEF History

\* A message that tells the new event row.
LEMMA EventHistory ==
    ASSUME NEW box \in Seq(Message), NEW m \in Message, NEW new,
           Grows(new, box, m), NEW e, IsEventMessage(m, e),
           NEW old, NEW rows \in Seq(RegRow), History(e, old, rows, box),
           NEW row \in EventRow, m.row = row, NEW rows2,
           row.status = "PUBLISHED" =>
               /\ rows2 = rows
               /\ \/ old = None /\ WithStatus(rows, Active) = {}
                  \/ old # None /\ old.status = "PUBLISHED"
    PROVE  History(e, row, rows2, new)
<1>1. /\ Len(box) \in Nat
      /\ DOMAIN box = 1 .. Len(box) /\ DOMAIN new = 1 .. Len(box) + 1
      /\ \A i \in 1 .. Len(box) : new[i] = box[i]
      /\ new[Len(box) + 1] = m
  BY AppendBox
<1>2. /\ m.key \in EventKeys
      /\ ~SeatTaken(m, e) /\ ~SeatFreed(m, e) /\ \A u : ~IsAbout(m, e, u)
  BY DEF IsEventMessage, SeatTaken, SeatFreed, IsAbout, EventKeys, RegKeys
<1>3. /\ Ups(new, e) = Ups(box, e) /\ Downs(new, e) = Downs(box, e)
      /\ EventsIn(new, e) = EventsIn(box, e) \cup {Len(box) + 1}
      /\ \A u : AboutIn(new, e, u) = AboutIn(box, e, u)
  BY <1>2, AppendSets
<1>4. EventTold(e, row, new)
  <2>1. \A i \in EventsIn(box, e) : i <= Len(box) + 1
    BY <1>1, BoxSets
  <2>2. IsLast(EventsIn(new, e), Len(box) + 1)
    BY <1>1, <1>3, <2>1 DEF IsLast
  <2> QED
    BY <1>1, <1>3, <2>2 DEF EventTold
<1>5. NeverNegative(e, new)
  <2>1. Cardinality(Downs(box, e)) <= Cardinality(Ups(box, e))
    BY WholeNotNegative DEF History
  <2> QED
    BY <1>3, <2>1, AppendNeverNegative DEF History
<1>6. ASSUME row.status = "PUBLISHED"
      PROVE  /\ \A u \in Users : UserTold(u, e, rows2, new)
             /\ SeatsCounted(e, rows2, new)
  <2>1. CASE old # None /\ old.status = "PUBLISHED"
    <3>1. \A u : \A i \in AboutIn(box, e, u) : new[i] = box[i]
      BY <1>1, BoxSets
    <3>2. ASSUME NEW u \in Users PROVE UserTold(u, e, rows, new)
      <4>1. UserTold(u, e, rows, box)
        BY <2>1 DEF History
      <4> QED
        BY <1>3, <3>1, <4>1 DEF UserTold
    <3>3. SeatsCounted(e, rows, new)
      BY <1>3, <2>1 DEF History, SeatsCounted
    <3> QED
      BY <1>6, <3>2, <3>3
  <2>2. CASE old = None /\ WithStatus(rows, Active) = {}
    <3>1. \A i \in DOMAIN box : box[i].event # e
      BY <2>2 DEF History
    <3>2. /\ Ups(box, e) = {} /\ Downs(box, e) = {}
          /\ \A u : AboutIn(box, e, u) = {}
      BY <3>1 DEF Ups, Downs, AboutIn, SeatTaken, SeatFreed, IsAbout
    <3>3. confirmedCount(rows) = 0
      BY <2>2, NoActiveNoSeats
    <3>4. \A u : activeRegistration(rows, u) = {}
      BY <2>2 DEF activeRegistration
    <3>5. Cardinality({}) = 0
      BY FS_EmptySet
    <3>6. SeatsCounted(e, rows, new)
      BY <1>3, <3>2, <3>3, <3>5 DEF SeatsCounted
    <3>7. \A u \in Users : UserTold(u, e, rows, new)
      BY <1>3, <3>2, <3>4 DEF UserTold
    <3> QED
      BY <1>6, <3>6, <3>7
  <2> QED
    BY <1>6, <2>1, <2>2
<1> QED
  BY <1>4, <1>5, <1>6, NoneIsNoRow DEF History

\* A message about one user of a published event, and rows that differ only
\* in that user's active registration, by as many seats as the message says.
LEMMA RegistrationHistory ==
    ASSUME NEW box \in Seq(Message), NEW m \in Message, NEW new,
           Grows(new, box, m), NEW e, NEW u, IsAbout(m, e, u),
           NEW row \in EventRow, row.status = "PUBLISHED",
           NEW rows \in Seq(RegRow), History(e, row, rows, box),
           NEW rows2 \in Seq(RegRow),
           \A v \in Users : v # u =>
               /\ activeRegistration(rows2, v) = activeRegistration(rows, v)
               /\ \A i \in activeRegistration(rows, v) :
                      rows2[i].status = rows[i].status,
           activeRegistration(rows2, u) = {} => m.status = "CANCELED",
           \A i \in activeRegistration(rows2, u) : rows2[i].status = m.status,
           confirmedCount(rows2) = confirmedCount(rows)
               + (IF SeatTaken(m, e) THEN 1 ELSE 0)
               - (IF SeatFreed(m, e) THEN 1 ELSE 0)
    PROVE  History(e, row, rows2, new)
<1>1. /\ Len(box) \in Nat
      /\ DOMAIN box = 1 .. Len(box) /\ DOMAIN new = 1 .. Len(box) + 1
      /\ \A i \in 1 .. Len(box) : new[i] = box[i]
      /\ new[Len(box) + 1] = m
  BY AppendBox
<1>2. /\ ~IsEventMessage(m, e) /\ IsAbout(m, e, u)
      /\ \A v : v # u => ~IsAbout(m, e, v)
  BY DEF IsEventMessage, IsAbout, EventKeys, RegKeys
<1>3. /\ EventsIn(new, e) = EventsIn(box, e)
      /\ AboutIn(new, e, u) = AboutIn(box, e, u) \cup {Len(box) + 1}
      /\ \A v : v # u => AboutIn(new, e, v) = AboutIn(box, e, v)
  BY <1>2, AppendSets
<1>4. /\ \A i \in EventsIn(box, e) : new[i] = box[i]
      /\ \A v : \A i \in AboutIn(box, e, v) : new[i] = box[i]
      /\ \A v : \A i \in AboutIn(box, e, v) : i <= Len(box)
  <2>1. /\ EventsIn(box, e) \subseteq 1 .. Len(box)
        /\ \A v : AboutIn(box, e, v) \subseteq 1 .. Len(box)
    BY BoxSets
  <2>2. \A i \in 1 .. Len(box) : new[i] = box[i] /\ i <= Len(box)
    BY <1>1
  <2> QED
    BY <2>1, <2>2
<1>5. row # None
  BY NoneIsNoRow
<1>6. EventTold(e, row, new)
  BY <1>3, <1>4 DEF History, EventTold
<1>7. SeatsCounted(e, rows2, new)
  <2>1. Cardinality(Ups(box, e)) - Cardinality(Downs(box, e))
          = confirmedCount(rows)
    BY <1>5 DEF History, SeatsCounted
  <2>2. /\ Cardinality(Ups(new, e)) =
              Cardinality(Ups(box, e)) + (IF SeatTaken(m, e) THEN 1 ELSE 0)
        /\ Cardinality(Downs(new, e)) =
              Cardinality(Downs(box, e)) + (IF SeatFreed(m, e) THEN 1 ELSE 0)
    BY AppendCounts
  <2>3. Cardinality(Ups(box, e)) \in Nat /\ Cardinality(Downs(box, e)) \in Nat
    BY BoxSets
  <2> QED
    BY <2>1, <2>2, <2>3 DEF SeatsCounted
<1>8. NeverNegative(e, new)
  <2>1. confirmedCount(rows2) \in Nat
    BY CountType DEF confirmedCount
  <2>2. new \in Seq(Message)
    BY AppendBox
  <2>3. Cardinality(Ups(new, e)) \in Nat /\ Cardinality(Downs(new, e)) \in Nat
    BY <2>2, BoxSets
  <2>4. Cardinality(Downs(new, e)) <= Cardinality(Ups(new, e))
    BY <1>7, <2>1, <2>3 DEF SeatsCounted
  <2> QED
    BY <2>4, AppendNeverNegative DEF History
<1>9. ASSUME NEW v \in Users PROVE UserTold(v, e, rows2, new)
  <2>1. UserTold(v, e, rows, box)
    BY <1>5 DEF History
  <2>2. CASE v # u
    BY <1>3, <1>4, <2>1, <2>2 DEF UserTold
  <2>3. CASE v = u
    <3>1. \A i \in AboutIn(box, e, u) : i <= Len(box) + 1
      <4>1. AboutIn(box, e, u) \in SUBSET (1 .. Len(box))
        BY BoxSets
      <4> QED
        BY <1>1, <4>1
    <3>2. IsLast(AboutIn(new, e, u), Len(box) + 1)
      BY <1>1, <1>3, <3>1 DEF IsLast
    <3>3. Len(box) + 1 \in AboutIn(new, e, u)
      BY <1>3
    <3>4. new[Len(box) + 1].status = m.status
      BY <1>1
    <3> QED
      BY <2>3, <3>2, <3>3, <3>4 DEF UserTold
  <2> QED
    BY <2>2, <2>3
<1> QED
  BY <1>5, <1>6, <1>7, <1>8, <1>9 DEF History

-----------------------------------------------------------------------------
(* What each kind of commit does to the rows, and what it says of it.      *)

\* A user without an active registration joins.
LEMMA JoinHistory ==
    ASSUME NEW box \in Seq(Message), NEW m \in Message, NEW new,
           Grows(new, box, m), NEW e,
           NEW row \in EventRow, row.status = "PUBLISHED",
           NEW rows \in Seq(RegRow), History(e, row, rows, box),
           NEW r \in RegRow, r.status \in Active,
           activeRegistration(rows, r.user) = {},
           IsAbout(m, e, r.user), m.status = r.status,
           m.key = IF r.status = "WAITLISTED" THEN "join.waitlisted"
                                              ELSE "join.confirmed"
    PROVE  History(e, row, Append(rows, r), new)
<1> DEFINE rows2 == Append(rows, r)
           last == Len(rows) + 1
<1>1. /\ rows2 \in Seq(RegRow) /\ Len(rows) \in Nat
      /\ DOMAIN rows = 1 .. Len(rows)
      /\ \A i \in DOMAIN rows : rows2[i] = rows[i]
      /\ rows2[last] = r
      /\ last \notin DOMAIN rows
  BY AppendedRows
<1>2. /\ WithStatus(rows2, Active) = WithStatus(rows, Active) \cup {last}
      /\ WithStatus(rows2, {"CONFIRMED"}) =
            IF r.status = "CONFIRMED"
            THEN WithStatus(rows, {"CONFIRMED"}) \cup {last}
            ELSE WithStatus(rows, {"CONFIRMED"})
  BY AppendedStatus
<1>3. \A S : WithStatus(rows, S) \subseteq DOMAIN rows
  BY DEF WithStatus
<1> HIDE DEF rows2, last
<1>4. /\ activeRegistration(rows2, r.user) = {last}
      /\ \A v : v # r.user =>
            activeRegistration(rows2, v) = activeRegistration(rows, v)
  BY <1>1, <1>2, <1>3 DEF activeRegistration
<1>5. \A v : \A i \in activeRegistration(rows, v) : rows2[i] = rows[i]
  BY <1>1, <1>3 DEF activeRegistration
<1>6. /\ SeatTaken(m, e) <=> r.status = "CONFIRMED"
      /\ ~SeatFreed(m, e)
  BY DEF SeatTaken, SeatFreed, IsAbout, Active
<1>7. /\ IsFiniteSet(WithStatus(rows, {"CONFIRMED"}))
      /\ confirmedCount(rows) \in Nat
  BY CountType DEF confirmedCount
<1>8. confirmedCount(rows2) = confirmedCount(rows)
        + (IF SeatTaken(m, e) THEN 1 ELSE 0)
        - (IF SeatFreed(m, e) THEN 1 ELSE 0)
  <2>1. last \notin WithStatus(rows, {"CONFIRMED"})
    BY <1>1, <1>3
  <2>2. Cardinality(WithStatus(rows, {"CONFIRMED"}) \cup {last}) =
          Cardinality(WithStatus(rows, {"CONFIRMED"})) + 1
    BY <1>7, <2>1, FS_AddElement
  <2> QED
    BY <1>2, <1>6, <1>7, <2>2 DEF confirmedCount
<1>9. /\ \A v \in Users : v # r.user =>
            /\ activeRegistration(rows2, v) = activeRegistration(rows, v)
            /\ \A i \in activeRegistration(rows, v) :
                  rows2[i].status = rows[i].status
      /\ activeRegistration(rows2, r.user) = {} => m.status = "CANCELED"
      /\ \A i \in activeRegistration(rows2, r.user) :
            rows2[i].status = m.status
  BY <1>1, <1>4, <1>5
<1> DEFINE u == r.user
<1>10. /\ \A v \in Users : v # u =>
             /\ activeRegistration(rows2, v) = activeRegistration(rows, v)
             /\ \A i \in activeRegistration(rows, v) :
                   rows2[i].status = rows[i].status
       /\ activeRegistration(rows2, u) = {} => m.status = "CANCELED"
       /\ \A i \in activeRegistration(rows2, u) : rows2[i].status = m.status
       /\ IsAbout(m, e, u)
  BY <1>9
<1> HIDE DEF u
<1>11. rows2 \in Seq(RegRow)
  BY <1>1
<1>12. History(e, row, rows2, new)
  BY <1>8, <1>10, <1>11, RegistrationHistory
<1> QED
  BY <1>12 DEF rows2

\* An active registration is canceled.
LEMMA CancelHistory ==
    ASSUME NEW box \in Seq(Message), NEW m \in Message, NEW new,
           Grows(new, box, m), NEW e,
           NEW row \in EventRow, row.status = "PUBLISHED",
           NEW rows \in Seq(RegRow), History(e, row, rows, box),
           OneActivePerUser(rows),
           NEW i \in WithStatus(rows, Active), NEW t \in Nat,
           IsAbout(m, e, rows[i].user), m.status = "CANCELED",
           m.key = "join.canceled", m.prev = rows[i].status
    PROVE  History(e, row, SetStatus(rows, i, "CANCELED", t), new)
<1> DEFINE rows2 == SetStatus(rows, i, "CANCELED", t)
           u == rows[i].user
<1>1. i \in DOMAIN rows /\ rows[i].status \in Active
  BY DEF WithStatus
<1>2. /\ rows2 \in Seq(RegRow)
      /\ DOMAIN rows2 = DOMAIN rows
      /\ \A j \in DOMAIN rows : j # i => rows2[j] = rows[j]
      /\ rows2[i].user = rows[i].user
      /\ rows2[i].status = "CANCELED"
  <2>1. i \in DOMAIN rows /\ rows2 = SetStatus(rows, i, "CANCELED", t)
    BY <1>1
  <2> HIDE DEF rows2
  <2> QED
    BY <2>1, CanceledRows, Z3
<1> HIDE DEF rows2
<1>3. /\ WithStatus(rows2, Active) = WithStatus(rows, Active) \ {i}
      /\ WithStatus(rows2, {"CONFIRMED"}) =
            WithStatus(rows, {"CONFIRMED"}) \ {i}
      /\ \A j \in WithStatus(rows2, Active) : rows2[j] = rows[j] /\ j # i
  BY <1>1, <1>2 DEF WithStatus, Active
<1>4. activeRegistration(rows2, u) = {}
  BY <1>1, <1>3 DEF activeRegistration, OneActivePerUser
<1>5. \A v : v # u =>
          /\ activeRegistration(rows2, v) = activeRegistration(rows, v)
          /\ \A j \in activeRegistration(rows, v) : rows2[j] = rows[j]
  BY <1>1, <1>2, <1>3 DEF activeRegistration, WithStatus
<1>6. /\ SeatFreed(m, e) <=> i \in WithStatus(rows, {"CONFIRMED"})
      /\ ~SeatTaken(m, e)
  BY <1>1 DEF SeatTaken, SeatFreed, IsAbout, WithStatus
<1>7. /\ IsFiniteSet(WithStatus(rows, {"CONFIRMED"}))
      /\ confirmedCount(rows) \in Nat
  BY CountType DEF confirmedCount
<1>8. confirmedCount(rows2) = confirmedCount(rows)
        + (IF SeatTaken(m, e) THEN 1 ELSE 0)
        - (IF SeatFreed(m, e) THEN 1 ELSE 0)
  <2>1. CASE i \in WithStatus(rows, {"CONFIRMED"})
    <3>1. Cardinality(WithStatus(rows, {"CONFIRMED"}) \ {i}) =
            Cardinality(WithStatus(rows, {"CONFIRMED"})) - 1
      BY <1>7, <2>1, FS_RemoveElement
    <3>2. confirmedCount(rows2) = confirmedCount(rows) - 1
      BY <1>3, <3>1 DEF confirmedCount
    <3> QED
      BY <1>6, <1>7, <2>1, <3>2
  <2>2. CASE i \notin WithStatus(rows, {"CONFIRMED"})
    <3>1. WithStatus(rows2, {"CONFIRMED"}) = WithStatus(rows, {"CONFIRMED"})
      BY <1>3, <2>2
    <3> QED
      BY <1>6, <1>7, <2>2, <3>1 DEF confirmedCount
  <2> QED
    BY <2>1, <2>2
<1>9. /\ \A v \in Users : v # u =>
            /\ activeRegistration(rows2, v) = activeRegistration(rows, v)
            /\ \A j \in activeRegistration(rows, v) :
                  rows2[j].status = rows[j].status
      /\ activeRegistration(rows2, u) = {} => m.status = "CANCELED"
      /\ \A j \in activeRegistration(rows2, u) : rows2[j].status = m.status
  BY <1>4, <1>5
<1> HIDE DEF u
<1>10. IsAbout(m, e, u)
  BY DEF u
<1> QED
  BY <1>2, <1>8, <1>9, <1>10, RegistrationHistory DEF rows2

\* A waitlisted registration is promoted.
LEMMA PromoteHistory ==
    ASSUME NEW box \in Seq(Message), NEW m \in Message, NEW new,
           Grows(new, box, m), NEW e,
           NEW row \in EventRow, row.status = "PUBLISHED",
           NEW rows \in Seq(RegRow), History(e, row, rows, box),
           OneActivePerUser(rows),
           NEW p \in WithStatus(rows, {"WAITLISTED"}), NEW t \in Nat,
           IsAbout(m, e, rows[p].user), m.status = "CONFIRMED",
           m.key = "join.promoted"
    PROVE  History(e, row, SetStatus(rows, p, "CONFIRMED", t), new)
<1> DEFINE rows2 == SetStatus(rows, p, "CONFIRMED", t)
           u == rows[p].user
<1>1. p \in DOMAIN rows /\ rows[p].status = "WAITLISTED"
  BY DEF WithStatus
<1>2. /\ rows2 \in Seq(RegRow)
      /\ DOMAIN rows2 = DOMAIN rows
      /\ \A j \in DOMAIN rows : j # p => rows2[j] = rows[j]
      /\ rows2[p].user = rows[p].user
      /\ rows2[p].status = "CONFIRMED"
  <2>1. "CONFIRMED" \in Active \cup {"CANCELED"}
    BY DEF Active
  <2> QED
    BY <1>1, <2>1, SetStatusRows
<1> HIDE DEF rows2
<1>3. /\ WithStatus(rows2, Active) = WithStatus(rows, Active)
      /\ WithStatus(rows2, {"CONFIRMED"}) =
            WithStatus(rows, {"CONFIRMED"}) \cup {p}
      /\ p \notin WithStatus(rows, {"CONFIRMED"})
      /\ p \in WithStatus(rows, Active)
  BY <1>1, <1>2 DEF WithStatus, Active
<1>4. \A j \in activeRegistration(rows2, u) : j = p
  <2>1. \A j \in WithStatus(rows2, Active) :
          rows2[j].user = u => rows[j].user = u
    BY <1>2, <1>3 DEF WithStatus
  <2> QED
    BY <1>3, <2>1 DEF activeRegistration, OneActivePerUser
<1>5. p \in activeRegistration(rows2, u)
  BY <1>2, <1>3 DEF activeRegistration
<1>6. \A v : v # u =>
          /\ activeRegistration(rows2, v) = activeRegistration(rows, v)
          /\ \A j \in activeRegistration(rows, v) : rows2[j] = rows[j]
  BY <1>1, <1>2, <1>3 DEF activeRegistration, WithStatus
<1>7. SeatTaken(m, e) /\ ~SeatFreed(m, e)
  BY DEF SeatTaken, SeatFreed, IsAbout
<1>8. /\ IsFiniteSet(WithStatus(rows, {"CONFIRMED"}))
      /\ confirmedCount(rows) \in Nat
  BY CountType DEF confirmedCount
<1>9. confirmedCount(rows2) = confirmedCount(rows)
        + (IF SeatTaken(m, e) THEN 1 ELSE 0)
        - (IF SeatFreed(m, e) THEN 1 ELSE 0)
  <2>1. confirmedCount(rows2) = confirmedCount(rows) + 1
    BY <1>3, <1>8, FS_AddElement DEF confirmedCount
  <2> QED
    BY <1>7, <1>8, <2>1
<1>10. /\ \A v \in Users : v # u =>
            /\ activeRegistration(rows2, v) = activeRegistration(rows, v)
            /\ \A j \in activeRegistration(rows, v) :
                  rows2[j].status = rows[j].status
       /\ activeRegistration(rows2, u) = {} => m.status = "CANCELED"
       /\ \A j \in activeRegistration(rows2, u) : rows2[j].status = m.status
  BY <1>2, <1>4, <1>5, <1>6
<1> HIDE DEF u
<1>11. IsAbout(m, e, u)
  BY DEF u
<1> QED
  BY <1>2, <1>9, <1>10, <1>11, RegistrationHistory DEF rows2

-----------------------------------------------------------------------------
(* The history invariant, commit by commit.                                *)

HistoryOK == \A e \in Events : History(e, events[e], regs[e], outbox)

\* One message about the one event a request names.
LEMMA OneMessageKeepsHistory ==
    ASSUME Inv, HistoryOK, NEW e \in Events, NEW m \in Message, m.event = e,
           outbox' = Append(outbox, m), NEW row, NEW rows,
           events' = [events EXCEPT ![e] = row],
           regs' = [regs EXCEPT ![e] = rows],
           History(e, row, rows, outbox')
    PROVE  HistoryOK'
<1>1. outbox \in Seq(Message) /\ Grows(outbox', outbox, m)
  BY DEF Inv, TypeOK, Grows
<1>2. ASSUME NEW f \in Events, f # e
      PROVE  History(f, events[f], regs[f], outbox')
  <2>1. History(f, events[f], regs[f], outbox)
    BY DEF HistoryOK
  <2> QED
    BY <1>1, <1>2, <2>1, OtherHistory
<1>3. /\ events'[e] = row /\ regs'[e] = rows
      /\ \A f \in Events : f # e => events'[f] = events[f] /\ regs'[f] = regs[f]
  BY DEF Inv, TypeOK
<1>4. ASSUME NEW f \in Events PROVE History(f, events'[f], regs'[f], outbox')
  BY <1>2, <1>3
<1> QED
  BY <1>4 DEF HistoryOK

\* A message about an event row.
LEMMA EventMessageFacts ==
    ASSUME NEW key \in EventKeys, NEW e \in Events, NEW row \in EventRow,
           NEW t \in Nat
    PROVE  LET m == eventMessage(key, e, row, t)
           IN  m \in Message /\ m.event = e /\ IsEventMessage(m, e)
                 /\ m.row = row
<1>1. eventMessage(key, e, row, t) \in Message
  BY EventMessageType
<1> QED
  BY <1>1 DEF eventMessage, IsEventMessage

\* A message about a registration.
LEMMA RegistrationMessageFacts ==
    ASSUME NEW key \in RegKeys, NEW e \in Events, NEW r,
           r.user \in Users, r.status \in Active \cup {"CANCELED"},
           NEW prev \in Active \cup {None}, NEW t \in Nat
    PROVE  LET m == registrationMessage(key, e, r, prev, t)
           IN  /\ m \in Message /\ m.event = e /\ IsAbout(m, e, r.user)
               /\ m.key = key /\ m.status = r.status /\ m.prev = prev
<1>1. registrationMessage(key, e, r, prev, t) \in Message
  BY RegistrationMessageType
<1> QED
  BY <1>1 DEF registrationMessage, IsAbout

\* CreateEvent: no message was ever about the fresh id.
LEMMA CreateKeepsHistory ==
    ASSUME Inv, HistoryOK, NEW w \in Workers, CreateEvent(w)
    PROVE  HistoryOK'
<1> DEFINE row == [status |-> "PUBLISHED", organizer |-> req[w].actor,
                   capacity |-> req[w].capacity, startsAt |-> req[w].startsAt]
<1>1. PICK e \in Events :
        /\ events[e] = None
        /\ events' = [events EXCEPT ![e] = row]
        /\ outbox' = Append(outbox,
                eventMessage("event.published", e, row, req[w].at))
  BY DEF CreateEvent
<1>2. /\ req[w].actor \in Users /\ req[w].at \in Nat
      /\ req[w].capacity \in Nat \ {0} /\ req[w].startsAt \in Nat
  BY DEF CreateEvent, Inv, RequestsWellFormed, Request
<1>3. row \in EventRow
  BY <1>2 DEF EventRow
<1> HIDE DEF row
<1>4. "event.published" \in EventKeys
  BY DEF EventKeys
<1> DEFINE m == eventMessage("event.published", e, row, req[w].at)
<1>5. m \in Message /\ m.event = e /\ IsEventMessage(m, e) /\ m.row = row
  BY <1>2, <1>3, <1>4, EventMessageFacts
<1>6. outbox' = Append(outbox, m)
  BY <1>1
<1> HIDE DEF m
<1>7. /\ regs[e] \in Seq(RegRow) /\ regs' = [regs EXCEPT ![e] = regs[e]]
      /\ outbox \in Seq(Message)
  BY DEF CreateEvent, Inv, TypeOK
<1>8. WithStatus(regs[e], Active) = {}
  BY <1>1 DEF Inv, TablesOK, RowsOK, EmptyUnlessPublished
<1>9. History(e, row, regs[e], outbox')
  <2>1. History(e, None, regs[e], outbox)
    BY <1>1 DEF HistoryOK
  <2>2. Grows(outbox', outbox, m)
    BY <1>6 DEF Grows
  <2> QED
    BY <1>3, <1>5, <1>7, <1>8, <2>1, <2>2, EventHistory
<1> QED
  BY <1>1, <1>5, <1>6, <1>7, <1>9, OneMessageKeepsHistory

\* UpdateEvent commits the row its message tells, published as it was.
LEMMA UpdateCommits ==
    ASSUME Inv, NEW w \in Workers, UpdateEvent(w)
    PROVE  LET e == req[w].event
               row == UpdatedRow(events[e], req[w])
           IN  /\ e \in Events /\ events[e] \in EventRow
               /\ events[e].status = "PUBLISHED"
               /\ row \in EventRow /\ row.status = "PUBLISHED"
               /\ events' = [events EXCEPT ![e] = row]
               /\ regs' = [regs EXCEPT ![e] = regs[e]]
               /\ outbox' = Append(outbox,
                      eventMessage("event.updated", e, row, req[w].at))
               /\ UNCHANGED audit
<1> DEFINE q == req[w]
           e == req[w].event
           row == UpdatedRow(events[e], q)
           m == eventMessage("event.updated", e, row, q.at)
<1>1. pc[w] = "read"
  BY DEF UpdateEvent, Ready
<1>2. /\ q \in Request /\ e \in Events
      /\ events[e] \in EventRow /\ regs[e] \in Seq(RegRow)
      /\ snap[w].event = events[e] /\ snap[w].rows = regs[e]
  BY <1>1, ReadFacts
<1>3. /\ events[e].status = "PUBLISHED"
      /\ Validate(row, q.at)
      /\ events' = [events EXCEPT ![e].capacity = row.capacity,
                                  ![e].startsAt = row.startsAt]
      /\ outbox' = Append(outbox, m)
      /\ UNCHANGED <<regs, audit>>
  BY <1>2 DEF UpdateEvent
<1>4. /\ row.capacity = IF q.capacity = None THEN events[e].capacity
                                             ELSE q.capacity
      /\ row.startsAt = IF q.startsAt = None THEN events[e].startsAt
                                             ELSE q.startsAt
      /\ row = [events[e] EXCEPT !.capacity = row.capacity,
                                 !.startsAt = row.startsAt]
  BY <1>2 DEF UpdatedRow, EventRow
<1>5. row.capacity \in Nat \ {0} /\ row.startsAt \in Nat
  <2>1. row.capacity \in Int /\ row.startsAt \in Nat
    BY <1>2, <1>4, ConstantAssumptions DEF EventRow, Request
  <2> QED
    BY <1>3, <2>1 DEF Validate
<1> HIDE DEF row
<1>6. row \in EventRow /\ row.status = "PUBLISHED"
  BY <1>2, <1>3, <1>4, <1>5 DEF EventRow
<1>7. events' = [events EXCEPT ![e] = row]
  BY <1>2, <1>3, <1>4 DEF Inv, TypeOK, EventRow
<1>8. regs' = [regs EXCEPT ![e] = regs[e]]
  BY <1>3 DEF Inv, TypeOK
<1> QED
  BY <1>2, <1>3, <1>6, <1>7, <1>8 DEF row

\* UpdateEvent: the payload is the row as it is committed.
LEMMA UpdateKeepsHistory ==
    ASSUME Inv, HistoryOK, NEW w \in Workers, UpdateEvent(w)
    PROVE  HistoryOK'
<1> DEFINE e == req[w].event
           t == req[w].at
           row == UpdatedRow(events[e], req[w])
           m == eventMessage("event.updated", e, row, t)
<1>1. pc[w] = "read"
  BY DEF UpdateEvent, Ready
<1>2. t \in Nat /\ regs[e] \in Seq(RegRow) /\ outbox \in Seq(Message)
  BY <1>1, ReadFacts DEF Request, Inv, TypeOK
<1>3. /\ e \in Events /\ events[e] \in EventRow
      /\ events[e].status = "PUBLISHED"
      /\ row \in EventRow /\ row.status = "PUBLISHED"
      /\ events' = [events EXCEPT ![e] = row]
      /\ regs' = [regs EXCEPT ![e] = regs[e]]
      /\ outbox' = Append(outbox, m)
  BY UpdateCommits
<1> HIDE DEF row, m, t
<1>4. m \in Message /\ m.event = e /\ IsEventMessage(m, e) /\ m.row = row
  <2>1. "event.updated" \in EventKeys
    BY DEF EventKeys
  <2> QED
    BY <1>2, <1>3, <2>1, EventMessageFacts DEF m
<1>5. History(e, row, regs[e], outbox')
  <2>1. History(e, events[e], regs[e], outbox)
    BY <1>3 DEF HistoryOK
  <2>2. Grows(outbox', outbox, m)
    BY <1>3 DEF Grows
  <2>3. events[e] # None
    BY <1>3, NoneIsNoRow
  <2> HIDE DEF e
  <2> QED
    BY <1>2, <1>3, <1>4, <2>1, <2>2, <2>3, EventHistory
<1> HIDE DEF e
<1> QED
  BY <1>3, <1>4, <1>5, OneMessageKeepsHistory

\* CancelEvent: a second cancellation says nothing more.
LEMMA CancelEventKeepsHistory ==
    ASSUME Inv, HistoryOK, NEW w \in Workers, CancelEvent(w)
    PROVE  HistoryOK'
<1> DEFINE q == req[w]
           e == req[w].event
           row == [events[e] EXCEPT !.status = "CANCELED"]
           rows == CancelActive(regs[e], q.at)
           m == eventMessage("event.canceled", e, row, q.at)
<1>1. pc[w] = "read"
  BY DEF CancelEvent, Ready
<1>2. /\ q \in Request /\ e \in Events
      /\ events[e] \in EventRow /\ regs[e] \in Seq(RegRow)
      /\ snap[w].event = events[e] /\ snap[w].rows = regs[e]
  BY <1>1, ReadFacts
<1>3. \/ UNCHANGED <<events, regs, outbox>>
      \/ /\ events' = [events EXCEPT ![e].status = "CANCELED"]
         /\ regs' = [regs EXCEPT ![e] = CancelActive(@, q.at)]
         /\ outbox' = Append(outbox, m)
  BY <1>2 DEF CancelEvent
<1>4. CASE UNCHANGED <<events, regs, outbox>>
  BY <1>4 DEF HistoryOK
<1>5. CASE /\ events' = [events EXCEPT ![e].status = "CANCELED"]
           /\ regs' = [regs EXCEPT ![e] = CancelActive(@, q.at)]
           /\ outbox' = Append(outbox, m)
  <2>1. row \in EventRow /\ row.status = "CANCELED" /\ q.at \in Nat
    BY <1>2 DEF EventRow, Request
  <2>2. /\ events' = [events EXCEPT ![e] = row]
        /\ regs' = [regs EXCEPT ![e] = rows]
        /\ outbox' = Append(outbox, m)
        /\ outbox \in Seq(Message)
    BY <1>5 DEF Inv, TypeOK
  <2> HIDE DEF row, rows, m
  <2>3. m \in Message /\ m.event = e /\ IsEventMessage(m, e) /\ m.row = row
    <3>1. "event.canceled" \in EventKeys
      BY DEF EventKeys
    <3> QED
      BY <1>2, <2>1, <3>1, EventMessageFacts DEF m
  <2>4. History(e, row, rows, outbox')
    <3>1. History(e, events[e], regs[e], outbox)
      BY <1>2 DEF HistoryOK
    <3>2. Grows(outbox', outbox, m)
      BY <2>2 DEF Grows
    <3> HIDE DEF q, e
    <3> QED
      BY <1>2, <2>1, <2>2, <2>3, <3>1, <3>2, EventHistory
  <2> HIDE DEF q, e
  <2> QED
    BY <1>2, <2>2, <2>3, <2>4, OneMessageKeepsHistory
<1> QED
  BY <1>3, <1>4, <1>5

\* JoinEvent: the message carries the status of the row inserted.
LEMMA JoinKeepsHistory ==
    ASSUME Inv, HistoryOK, NEW w \in Workers, JoinEvent(w)
    PROVE  HistoryOK'
<1> DEFINE q == req[w]
           e == req[w].event
           status == DecideJoinStatus(events[e], confirmedCount(regs[e]))
           row == [user |-> q.target, status |-> status,
                   pos |-> IF status = "WAITLISTED"
                           THEN nextWaitlistPosition(regs[e]) ELSE 0,
                   created |-> q.at, updated |-> q.at]
           key == IF status = "WAITLISTED" THEN "join.waitlisted"
                                           ELSE "join.confirmed"
           m == registrationMessage(key, e, row, None, q.at)
<1>1. pc[w] = "read" /\ q.op = "join"
  BY DEF JoinEvent, Ready
<1>2. /\ q \in Request /\ e \in Events
      /\ events[e] \in EventRow /\ regs[e] \in Seq(RegRow)
      /\ snap[w].event = events[e] /\ snap[w].rows = regs[e]
      /\ RowsOK(events[e], regs[e])
  BY <1>1, ReadFacts
<1>3. /\ activeRegistration(regs[e], q.target) = {}
      /\ CanJoin(events[e], q.at)
      /\ regs' = [regs EXCEPT ![e] = Append(regs[e], row)]
      /\ outbox' = Append(outbox, m)
      /\ UNCHANGED events
  BY <1>2 DEF JoinEvent
<1>4. q.target \in Users /\ q.at \in Nat
  BY <1>1, <1>2 DEF Inv, RequestsWellFormed, Request
<1>5. nextWaitlistPosition(regs[e]) \in Nat
  BY <1>2, NextPosition DEF RowsOK
<1>6. status \in Active
  BY DEF DecideJoinStatus, Active
<1>7. row \in RegRow
  BY <1>4, <1>5, <1>6 DEF RegRow
<1>8. row.user = q.target /\ row.status = status
  OBVIOUS
<1>9. key \in RegKeys
  BY DEF RegKeys
<1>10. key = IF row.status = "WAITLISTED" THEN "join.waitlisted"
                                          ELSE "join.confirmed"
  OBVIOUS
<1> HIDE DEF row, key, status, m
<1>11. /\ m \in Message /\ m.event = e /\ IsAbout(m, e, row.user)
       /\ m.key = key /\ m.status = row.status
  <2>1. /\ row.user \in Users /\ row.status \in Active \cup {"CANCELED"}
        /\ q.at \in Nat /\ None \in Active \cup {None}
    BY <1>4, <1>6, <1>8
  <2>2. m \in Message
    BY <1>2, <1>9, <2>1, RegistrationMessageType DEF m
  <2> QED
    BY <1>9, <2>2 DEF m, registrationMessage, IsAbout
<1>12. /\ events' = [events EXCEPT ![e] = events[e]]
       /\ outbox \in Seq(Message)
  BY <1>3 DEF Inv, TypeOK
<1>13. History(e, events[e], Append(regs[e], row), outbox')
  <2>1. History(e, events[e], regs[e], outbox)
    BY <1>2 DEF HistoryOK
  <2>2. Grows(outbox', outbox, m)
    BY <1>3 DEF Grows
  <2>3. events[e].status = "PUBLISHED"
    BY <1>3 DEF CanJoin
  <2>4. row.status \in Active /\ activeRegistration(regs[e], row.user) = {}
    BY <1>3, <1>6, <1>8
  <2>5. m.key = IF row.status = "WAITLISTED" THEN "join.waitlisted"
                                             ELSE "join.confirmed"
    BY <1>10, <1>11
  <2> HIDE DEF q, e
  <2> QED
    BY <1>2, <1>7, <1>11, <1>12, <2>1, <2>2, <2>3, <2>4, <2>5, JoinHistory
<1> DEFINE rows == Append(regs[e], row)
<1>14. regs' = [regs EXCEPT ![e] = rows] /\ History(e, events[e], rows, outbox')
  BY <1>3, <1>13
<1> HIDE DEF q, e, rows
<1> QED
  BY <1>2, <1>3, <1>11, <1>12, <1>14, OneMessageKeepsHistory

\* cancelRegistrationTx: the promotion is told after the cancellation, and
\* each carries what its row became.
LEMMA CancelTxKeepsHistory ==
    ASSUME Inv, HistoryOK, NEW w \in Workers, pc[w] = "read",
           req[w].target \in Users, cancelRegistrationTx(w), UNCHANGED events
    PROVE  HistoryOK'
<1> DEFINE q == req[w]
           e == req[w].event
           rows == regs[e]
           mine == activeRegistration(rows, q.target)
           canceled(i) == SetStatus(rows, i, "CANCELED", q.at)
           left(i) == [rows[i] EXCEPT !.status = "CANCELED"]
           canceledMessage(i) ==
               registrationMessage("join.canceled", e, left(i),
                                   rows[i].status, q.at)
<1>1. /\ q \in Request /\ e \in Events /\ q.at \in Nat
      /\ events[e] \in EventRow /\ rows \in Seq(RegRow)
      /\ snap[w].rows = rows
      /\ RowsOK(events[e], rows) /\ OneActivePerUser(rows)
  BY ReadFacts DEF Request, RowsOK
<1>2. /\ outbox \in Seq(Message) /\ regs \in [Events -> Seq(RegRow)]
      /\ events' = [events EXCEPT ![e] = events[e]]
  BY DEF Inv, TypeOK
<1>3. History(e, events[e], rows, outbox)
  BY <1>1 DEF HistoryOK
<1>4. ASSUME NEW i \in mine
      PROVE  /\ i \in WithStatus(rows, Active) /\ i \in DOMAIN rows
             /\ rows[i] \in RegRow /\ rows[i].status \in Active
             /\ events[e].status = "PUBLISHED"
             /\ canceledMessage(i) \in Message
             /\ canceledMessage(i).event = e
             /\ IsAbout(canceledMessage(i), e, rows[i].user)
             /\ canceledMessage(i).status = "CANCELED"
             /\ canceledMessage(i).key = "join.canceled"
             /\ canceledMessage(i).prev = rows[i].status
  <2>1. /\ i \in WithStatus(rows, Active) /\ i \in DOMAIN rows
        /\ rows[i].status \in Active
    BY DEF activeRegistration, WithStatus
  <2>2. rows[i] \in RegRow
    BY <1>1, <2>1, ElementOfSeq, LenProperties
  <2>3. events[e].status = "PUBLISHED"
    BY <1>1, <2>1 DEF RowsOK, EmptyUnlessPublished
  <2>4. left(i).user = rows[i].user /\ left(i).status = "CANCELED"
          /\ rows[i].user \in Users
    BY <2>2 DEF RegRow
  <2> DEFINE r == left(i)
             was == rows[i].status
  <2>5. /\ "join.canceled" \in RegKeys /\ was \in Active \cup {None}
        /\ r.user \in Users /\ r.status \in Active \cup {"CANCELED"}
    BY <2>1, <2>4 DEF RegKeys
  <2> DEFINE m == registrationMessage("join.canceled", e, r, was, q.at)
  <2>6. /\ m \in Message /\ m.event = e /\ IsAbout(m, e, r.user)
        /\ m.key = "join.canceled" /\ m.status = r.status /\ m.prev = was
    <3> HIDE DEF q, e, r, was
    <3> QED
      BY <1>1, <2>5, RegistrationMessageFacts
  <2>7. canceledMessage(i) = m
    OBVIOUS
  <2> HIDE DEF m, canceledMessage
  <2> QED
    BY <2>1, <2>2, <2>3, <2>4, <2>6, <2>7
<1>5. CASE UNCHANGED <<regs, outbox>>
  BY <1>5 DEF HistoryOK
<1>6. CASE \E i \in mine :
              /\ regs' = [regs EXCEPT ![e] = canceled(i)]
              /\ outbox' = Append(outbox, canceledMessage(i))
  <2>1. PICK i \in mine :
          /\ regs' = [regs EXCEPT ![e] = canceled(i)]
          /\ outbox' = Append(outbox, canceledMessage(i))
    BY <1>6
  <2> DEFINE m == canceledMessage(i)
             new == canceled(i)
  <2>2. /\ i \in WithStatus(rows, Active)
        /\ events[e].status = "PUBLISHED"
        /\ m \in Message /\ m.event = e
        /\ IsAbout(m, e, rows[i].user) /\ m.status = "CANCELED"
        /\ m.key = "join.canceled" /\ m.prev = rows[i].status
    BY <1>4
  <2>3. Grows(outbox', outbox, m)
    BY <2>1 DEF Grows
  <2>4. outbox' = Append(outbox, m) /\ regs' = [regs EXCEPT ![e] = new]
    BY <2>1
  <2> HIDE DEF m
  <2>5. History(e, events[e], new, outbox')
    <3> HIDE DEF q, e, rows
    <3> QED
      BY <1>1, <1>2, <1>3, <2>2, <2>3, CancelHistory
  <2> HIDE DEF q, e, rows, new
  <2> QED
    BY <1>1, <1>2, <2>2, <2>4, <2>5, OneMessageKeepsHistory
<1>7. CASE \E i \in mine : \E p \in Promotable(rows, rows[i].status) :
              /\ regs' = [regs EXCEPT
                    ![e] = SetStatus(canceled(i), p, "CONFIRMED", q.at)]
              /\ outbox' = outbox \o
                    <<canceledMessage(i),
                      registrationMessage("join.promoted", e,
                          [rows[p] EXCEPT !.status = "CONFIRMED"],
                          "WAITLISTED", q.at)>>
  <2>0. PICK i \in mine : \E p \in Promotable(rows, rows[i].status) :
          /\ regs' = [regs EXCEPT
                ![e] = SetStatus(canceled(i), p, "CONFIRMED", q.at)]
          /\ outbox' = outbox \o
                <<canceledMessage(i),
                  registrationMessage("join.promoted", e,
                      [rows[p] EXCEPT !.status = "CONFIRMED"],
                      "WAITLISTED", q.at)>>
    BY <1>7
  <2>1. PICK p \in Promotable(rows, rows[i].status) :
          /\ regs' = [regs EXCEPT
                ![e] = SetStatus(canceled(i), p, "CONFIRMED", q.at)]
          /\ outbox' = outbox \o
                <<canceledMessage(i),
                  registrationMessage("join.promoted", e,
                      [rows[p] EXCEPT !.status = "CONFIRMED"],
                      "WAITLISTED", q.at)>>
    BY <2>0
  <2> DEFINE mid == canceled(i)
             first == canceledMessage(i)
             r == [rows[p] EXCEPT !.status = "CONFIRMED"]
             second == registrationMessage("join.promoted", e, r,
                                           "WAITLISTED", q.at)
             box == Append(outbox, first)
             new == SetStatus(mid, p, "CONFIRMED", q.at)
  <2>2. /\ i \in WithStatus(rows, Active) /\ i \in DOMAIN rows
        /\ rows[i].status \in Active
        /\ events[e].status = "PUBLISHED"
        /\ first \in Message /\ first.event = e
        /\ IsAbout(first, e, rows[i].user) /\ first.status = "CANCELED"
        /\ first.key = "join.canceled" /\ first.prev = rows[i].status
    BY <1>4
  <2>3. /\ rows[i].status = "CONFIRMED"
        /\ p \in WithStatus(rows, {"WAITLISTED"})
    BY <2>2 DEF Promotable, firstWaitlisted
  <2>4. /\ p \in DOMAIN rows /\ p # i /\ rows[p].status = "WAITLISTED"
    BY <2>3 DEF WithStatus
  <2>5. rows[p] \in RegRow
    BY <1>1, <2>4, ElementOfSeq, LenProperties
  <2>6. r.user = rows[p].user /\ r.status = "CONFIRMED" /\ r.user \in Users
    BY <2>5 DEF RegRow
  <2>7. /\ second \in Message /\ second.event = e
        /\ IsAbout(second, e, r.user) /\ second.key = "join.promoted"
        /\ second.status = r.status
    <3>1. /\ "join.promoted" \in RegKeys
          /\ "WAITLISTED" \in Active \cup {None}
          /\ r.status \in Active \cup {"CANCELED"}
      BY <2>6 DEF RegKeys, Active
    <3>2. r.user \in Users
      BY <2>6
    <3> HIDE DEF q, e, r
    <3>3. second \in Message
      BY <1>1, <3>1, <3>2, RegistrationMessageType
    <3> QED
      BY <3>1, <3>3 DEF registrationMessage, IsAbout
  <2>8. /\ outbox' = outbox \o <<first, second>>
        /\ regs' = [regs EXCEPT ![e] = new]
    BY <2>1
  <2> HIDE DEF first, second, r
  <2>9. /\ mid \in Seq(RegRow) /\ DOMAIN mid = DOMAIN rows
        /\ \A j \in DOMAIN rows : j # i => mid[j] = rows[j]
    <3>1. mid = SetStatus(rows, i, "CANCELED", q.at)
      OBVIOUS
    <3> HIDE DEF mid, q, rows
    <3> QED
      BY <1>1, <2>2, <3>1, CanceledRows, Z3
  <2>10. RowsOK(events[e], mid)
    <3>1. events[e] \in EventRow \cup {None}
      BY <1>1
    <3> HIDE DEF q, e, rows
    <3> QED
      BY <1>1, <2>2, <3>1, CancelKeepsRows
  <2>11. History(e, events[e], mid, box)
    <3>1. Grows(box, outbox, first)
      BY DEF Grows
    <3> HIDE DEF q, e, rows, box
    <3> QED
      BY <1>1, <1>2, <1>3, <2>2, <3>1, CancelHistory
  <2>12. /\ box \in Seq(Message) /\ outbox' = Append(box, second)
    <3>1. outbox \o <<first, second>> = Append(Append(outbox, first), second)
      BY <1>2, <2>2, <2>7
    <3> QED
      BY <1>2, <2>2, <2>8, <3>1, AppendProperties
  <2>13. /\ p \in WithStatus(mid, {"WAITLISTED"}) /\ mid[p].user = r.user
    BY <2>4, <2>6, <2>9 DEF WithStatus
  <2> HIDE DEF mid, box
  <2>14. History(e, events[e], new, outbox')
    <3>1. Grows(outbox', box, second)
      BY <2>12 DEF Grows
    <3>2. OneActivePerUser(mid)
      BY <2>10 DEF RowsOK
    <3>3. IsAbout(second, e, mid[p].user) /\ second.status = "CONFIRMED"
      BY <2>6, <2>7, <2>13
    <3> HIDE DEF q, e, rows
    <3> QED
      BY <1>1, <2>2, <2>7, <2>9, <2>11, <2>12, <2>13, <3>1, <3>2, <3>3,
         PromoteHistory
  <2> HIDE DEF q, e, rows, new
  <2>15. ASSUME NEW f \in Events, f # e
         PROVE  History(f, events[f], regs[f], outbox')
    <3>1. History(f, events[f], regs[f], outbox)
      BY DEF HistoryOK
    <3>2. Grows(box, outbox, first) /\ Grows(outbox', box, second)
      BY <2>12 DEF Grows, box
    <3>3. History(f, events[f], regs[f], box)
      BY <1>2, <2>2, <2>15, <3>1, <3>2, OtherHistory
    <3> QED
      BY <2>7, <2>12, <2>15, <3>2, <3>3, OtherHistory
  <2>16. /\ regs'[e] = new /\ UNCHANGED events
         /\ \A f \in Events : f # e => regs'[f] = regs[f]
    BY <1>1, <1>2, <2>8
  <2>17. ASSUME NEW f \in Events
         PROVE  History(f, events'[f], regs'[f], outbox')
    BY <2>14, <2>15, <2>16
  <2> QED
    BY <2>17 DEF HistoryOK
<1>8. \/ UNCHANGED <<regs, outbox>>
      \/ \E i \in mine :
              /\ regs' = [regs EXCEPT ![e] = canceled(i)]
              /\ outbox' = Append(outbox, canceledMessage(i))
      \/ \E i \in mine : \E p \in Promotable(rows, rows[i].status) :
              /\ regs' = [regs EXCEPT
                    ![e] = SetStatus(canceled(i), p, "CONFIRMED", q.at)]
              /\ outbox' = outbox \o
                    <<canceledMessage(i),
                      registrationMessage("join.promoted", e,
                          [rows[p] EXCEPT !.status = "CONFIRMED"],
                          "WAITLISTED", q.at)>>
  BY <1>1 DEF cancelRegistrationTx
<1> QED
  BY <1>5, <1>6, <1>7, <1>8

\* Every step keeps the history.
LEMMA NextKeepsHistory == Inv /\ HistoryOK /\ [Next]_vars => HistoryOK'
<1> SUFFICES ASSUME Inv, HistoryOK, [Next]_vars PROVE HistoryOK'
  OBVIOUS
<1>1. CASE UNCHANGED <<events, regs, outbox>>
  BY <1>1 DEF HistoryOK
<1>2. ASSUME NEW w \in Workers, CancelJoin(w) \/ CancelRegistration(w)
      PROVE  HistoryOK'
  <2>1. /\ pc[w] = "read"
        /\ req[w].op \in {"cancelJoin", "cancelRegistration"}
        /\ cancelRegistrationTx(w) /\ UNCHANGED events
    BY <1>2 DEF CancelJoin, CancelRegistration, Ready
  <2>2. req[w].target \in Users
    BY <2>1 DEF Inv, RequestsWellFormed
  <2> QED
    BY <2>1, <2>2, CancelTxKeepsHistory
<1>3. ASSUME NEW w \in Workers,
             \/ ReceiveAny(w) \/ selectEventForUpdate(w)
             \/ readRegistrations(w) \/ Rollback(w) \/ JoinExisting(w)
      PROVE  UNCHANGED <<events, regs, outbox>>
  BY <1>3 DEF ReceiveAny, ReceiveCreate, ReceiveUpdate, ReceiveCancelEvent,
              ReceiveJoin, ReceiveCancelJoin, ReceiveCancelRegistration,
              Receive, selectEventForUpdate, readRegistrations, Rollback,
              JoinExisting, tables
<1>4. CASE Tick \/ Quiesced \/ UNCHANGED vars
  BY <1>1, <1>4 DEF Tick, Quiesced, vars, tables
<1> QED
  BY <1>1, <1>2, <1>3, <1>4, CreateKeepsHistory, UpdateKeepsHistory,
     CancelEventKeepsHistory, JoinKeepsHistory DEF Next, Commit

-----------------------------------------------------------------------------
(* The audit log.                                                          *)

Cancellations(log, e) ==
    {i \in DOMAIN log :
        log[i].event = e /\ log[i].action = "event.cancel"
        /\ log[i].result = "success"}

CancelAudited(e, row, log) ==
    Cardinality(Cancellations(log, e))
        = IF row # None /\ row.status = "CANCELED" THEN 1 ELSE 0

AuditOK == \A e \in Events : CancelAudited(e, events[e], audit)

\* How the number of records of a successful cancellation grows.
LEMMA AppendRecord ==
    ASSUME NEW log \in Seq(AuditEvent), NEW r \in AuditEvent, NEW e
    PROVE  /\ Cardinality(Cancellations(log, e)) \in Nat
           /\ Cardinality(Cancellations(Append(log, r), e)) =
                Cardinality(Cancellations(log, e))
                + (IF r.event = e /\ r.action = "event.cancel"
                      /\ r.result = "success" THEN 1 ELSE 0)
<1> DEFINE new == Append(log, r)
           last == Len(log) + 1
           S == Cancellations(log, e)
           one == r.event = e /\ r.action = "event.cancel"
                    /\ r.result = "success"
<1>1. /\ Len(log) \in Nat /\ DOMAIN log = 1 .. Len(log)
      /\ DOMAIN new = 1 .. last
      /\ \A i \in 1 .. Len(log) : new[i] = log[i]
      /\ new[last] = r
  <2>1. /\ Len(log) \in Nat /\ DOMAIN log = 1 .. Len(log)
    BY LenProperties
  <2>2. /\ new \in Seq(AuditEvent) /\ Len(new) = last /\ new[last] = r
        /\ \A i \in 1 .. Len(log) : new[i] = log[i]
    BY AppendProperties
  <2>3. DOMAIN new = 1 .. last
    BY <2>2, LenProperties
  <2> QED
    BY <2>1, <2>2, <2>3
<1>2. /\ DOMAIN new = DOMAIN log \cup {last} /\ last \notin DOMAIN log
      /\ \A i \in DOMAIN log : new[i] = log[i]
  BY <1>1
<1> HIDE DEF new
<1>3. /\ IsFiniteSet(S) /\ Cardinality(S) \in Nat /\ last \notin S
  <2>1. S \in SUBSET (1 .. Len(log)) /\ IsFiniteSet(1 .. Len(log))
    BY <1>1, FS_Interval DEF Cancellations
  <2>2. IsFiniteSet(S)
    BY <2>1, FS_Subset
  <2>3. last \notin S
    BY <1>2 DEF Cancellations
  <2> HIDE DEF S
  <2> QED
    BY <2>2, <2>3, FS_CardinalityType
<1>4. Cancellations(new, e) = IF one THEN S \cup {last} ELSE S
  BY <1>1, <1>2 DEF Cancellations
<1> HIDE DEF last, S
<1>5. Cardinality(S \cup {last}) = Cardinality(S) + 1
  BY <1>3, FS_AddElement
<1>6. Cardinality(Cancellations(new, e)) =
        Cardinality(S) + (IF one THEN 1 ELSE 0)
  BY <1>3, <1>4, <1>5
<1> QED
  BY <1>3, <1>6 DEF S, new

\* Every step keeps the audit log.
LEMMA NextKeepsAudit == Inv /\ AuditOK /\ [Next]_vars => AuditOK'
<1> SUFFICES ASSUME Inv, AuditOK, [Next]_vars PROVE AuditOK'
  OBVIOUS
<1>1. CASE UNCHANGED <<events, audit>>
  BY <1>1 DEF AuditOK
<1>2. ASSUME NEW w \in Workers, CancelEvent(w) PROVE AuditOK'
  <2> DEFINE e == req[w].event
             record == [action |-> "event.cancel", event |-> e,
                        actor |-> req[w].actor, target |-> None,
                        result |-> CancelResult(events[e].status)]
  <2>1. pc[w] = "read"
    BY <1>2 DEF CancelEvent, Ready
  <2>2. /\ req[w] \in Request /\ e \in Events /\ events[e] \in EventRow
        /\ events[e] # None /\ snap[w].event = events[e]
    BY <2>1, ReadFacts, NoneIsNoRow
  <2>3. /\ audit' = Append(audit, record)
        /\ IF events[e].status = "CANCELED" THEN UNCHANGED events
           ELSE events' = [events EXCEPT ![e].status = "CANCELED"]
    BY <1>2, <2>2 DEF CancelEvent
  <2>4. record \in AuditEvent
    BY <2>2 DEF AuditEvent, Request, CancelResult
  <2>5. /\ record.event = e /\ record.action = "event.cancel"
        /\ record.result = "success" <=> events[e].status # "CANCELED"
    BY DEF CancelResult
  <2> HIDE DEF record
  <2>6. audit \in Seq(AuditEvent)
    BY DEF Inv, TypeOK
  <2>7. \A f : /\ Cardinality(Cancellations(audit, f)) \in Nat
               /\ Cardinality(Cancellations(audit', f)) =
                    Cardinality(Cancellations(audit, f))
                    + (IF record.event = f /\ record.action = "event.cancel"
                          /\ record.result = "success" THEN 1 ELSE 0)
    BY <2>3, <2>4, <2>6, AppendRecord
  <2>8. ASSUME NEW f \in Events PROVE CancelAudited(f, events'[f], audit')
    <3>1. CancelAudited(f, events[f], audit)
      BY DEF AuditOK
    <3>2. CASE f # e
      <4>1. events'[f] = events[f]
        BY <2>2, <2>3, <3>2 DEF Inv, TypeOK
      <4>2. Cardinality(Cancellations(audit', f)) =
              Cardinality(Cancellations(audit, f))
        BY <2>5, <2>7, <3>2
      <4> QED
        BY <3>1, <4>1, <4>2 DEF CancelAudited
    <3>3. CASE f = e /\ events[e].status = "CANCELED"
      <4>1. events'[f] = events[f]
        BY <2>3, <3>3
      <4>2. Cardinality(Cancellations(audit', f)) =
              Cardinality(Cancellations(audit, f))
        BY <2>5, <2>7, <3>3
      <4> QED
        BY <3>1, <4>1, <4>2 DEF CancelAudited
    <3>4. CASE f = e /\ events[e].status # "CANCELED"
      <4>1. events'[f] = [events[f] EXCEPT !.status = "CANCELED"]
        BY <2>2, <2>3, <3>4 DEF Inv, TypeOK
      <4>2. events'[f].status = "CANCELED" /\ events'[f] # None
        BY <2>2, <3>4, <4>1, NoneIsNoRow DEF EventRow
      <4>3. Cardinality(Cancellations(audit, f)) = 0
        BY <3>1, <3>4 DEF CancelAudited
      <4>4. Cardinality(Cancellations(audit', f)) = 1
        BY <2>5, <2>7, <3>4, <4>3
      <4> QED
        BY <4>2, <4>4 DEF CancelAudited
    <3> QED
      BY <3>2, <3>3, <3>4
  <2> QED
    BY <2>8 DEF AuditOK
<1>3. ASSUME NEW w \in Workers, CancelRegistration(w) PROVE AuditOK'
  <2> DEFINE record == [action |-> "registration.cancel_by_manager",
                        event |-> req[w].event, actor |-> req[w].actor,
                        target |-> req[w].target, result |-> "success"]
  <2>1. pc[w] = "read" /\ req[w].op = "cancelRegistration"
    BY <1>3 DEF CancelRegistration, Ready
  <2>2. req[w] \in Request /\ req[w].event \in Events /\ req[w].target \in Users
    BY <2>1, ReadFacts DEF Inv, RequestsWellFormed
  <2>3. record \in AuditEvent /\ record.action # "event.cancel"
    BY <2>2 DEF AuditEvent, Request
  <2>4. audit' = Append(audit, record) /\ UNCHANGED events
    BY <1>3 DEF CancelRegistration
  <2> HIDE DEF record
  <2>5. audit \in Seq(AuditEvent)
    BY DEF Inv, TypeOK
  <2>6. \A f : /\ Cardinality(Cancellations(audit, f)) \in Nat
               /\ Cardinality(Cancellations(audit', f)) =
                    Cardinality(Cancellations(audit, f))
                    + (IF record.event = f /\ record.action = "event.cancel"
                          /\ record.result = "success" THEN 1 ELSE 0)
    BY <2>3, <2>4, <2>5, AppendRecord
  <2>7. \A f : Cardinality(Cancellations(audit', f)) =
                 Cardinality(Cancellations(audit, f))
    BY <2>3, <2>6
  <2> QED
    BY <2>4, <2>7 DEF AuditOK, CancelAudited
<1>4. ASSUME NEW w \in Workers, CreateEvent(w) PROVE AuditOK'
  <2> DEFINE row == [status |-> "PUBLISHED", organizer |-> req[w].actor,
                     capacity |-> req[w].capacity,
                     startsAt |-> req[w].startsAt]
  <2>1. PICK e \in Events :
          events[e] = None /\ events' = [events EXCEPT ![e] = row]
    BY <1>4 DEF CreateEvent
  <2>2. row.status = "PUBLISHED"
    OBVIOUS
  <2> HIDE DEF row
  <2>3. UNCHANGED audit /\ events'[e] = row
          /\ \A f \in Events : f # e => events'[f] = events[f]
    BY <1>4, <2>1 DEF CreateEvent, Inv, TypeOK
  <2> QED
    BY <2>1, <2>2, <2>3 DEF AuditOK, CancelAudited
<1>5. ASSUME NEW w \in Workers, UpdateEvent(w) PROVE AuditOK'
  <2> DEFINE e == req[w].event
             row == UpdatedRow(events[e], req[w])
  <2>1. /\ e \in Events /\ events[e] \in EventRow
        /\ events[e].status = "PUBLISHED"
        /\ row \in EventRow /\ row.status = "PUBLISHED"
        /\ events' = [events EXCEPT ![e] = row]
        /\ UNCHANGED audit
    BY <1>5, UpdateCommits
  <2> HIDE DEF e, row
  <2>2. ASSUME NEW f \in Events PROVE CancelAudited(f, events'[f], audit')
    <3>1. CASE f = e
      BY <2>1, <3>1 DEF AuditOK, CancelAudited, Inv, TypeOK
    <3>2. CASE f # e
      BY <2>1, <3>2 DEF AuditOK, CancelAudited, Inv, TypeOK
    <3> QED
      BY <3>1, <3>2
  <2> QED
    BY <2>2 DEF AuditOK
<1>6. ASSUME NEW w \in Workers,
             \/ ReceiveAny(w) \/ selectEventForUpdate(w)
             \/ readRegistrations(w) \/ Rollback(w) \/ JoinExisting(w)
             \/ JoinEvent(w) \/ CancelJoin(w)
      PROVE  UNCHANGED <<events, audit>>
  BY <1>6 DEF ReceiveAny, ReceiveCreate, ReceiveUpdate, ReceiveCancelEvent,
              ReceiveJoin, ReceiveCancelJoin, ReceiveCancelRegistration,
              Receive, selectEventForUpdate, readRegistrations, Rollback,
              JoinExisting, JoinEvent, CancelJoin, tables
<1>7. CASE Tick \/ Quiesced \/ UNCHANGED vars
  BY <1>1, <1>7 DEF Tick, Quiesced, vars, tables
<1> QED
  BY <1>1, <1>2, <1>3, <1>4, <1>5, <1>6, <1>7 DEF Next, Commit

-----------------------------------------------------------------------------
(* The theorems.                                                           *)

\* An empty outbox and an empty audit log tell of an empty database.
LEMMA InitHistory == Init => HistoryOK /\ AuditOK
<1> SUFFICES ASSUME Init PROVE HistoryOK /\ AuditOK
  OBVIOUS
<1>1. Cardinality({}) = 0
  BY FS_EmptySet
<1>2. Len(<<>>) = 0 /\ DOMAIN <<>> = {}
  OBVIOUS
<1>3. ASSUME NEW e \in Events
      PROVE  History(e, None, <<>>, <<>>) /\ CancelAudited(e, None, <<>>)
  <2>1. /\ Ups(<<>>, e) = {} /\ Downs(<<>>, e) = {}
        /\ Cancellations(<<>>, e) = {}
    BY <1>2 DEF Ups, Downs, Cancellations
  <2>2. NeverNegative(e, <<>>)
    <3> SUFFICES ASSUME NEW k \in 0 .. Len(<<>>)
                 PROVE  Cardinality(Downs(<<>>, e) \cap (1 .. k))
                          <= Cardinality(Ups(<<>>, e) \cap (1 .. k))
      BY DEF NeverNegative
    <3>1. /\ Downs(<<>>, e) \cap (1 .. k) = {}
          /\ Ups(<<>>, e) \cap (1 .. k) = {}
      BY <2>1
    <3>2. /\ Cardinality(Downs(<<>>, e) \cap (1 .. k)) = 0
          /\ Cardinality(Ups(<<>>, e) \cap (1 .. k)) = 0
      BY <1>1, <3>1
    <3> QED
      BY <3>2
  <2> QED
    BY <1>1, <1>2, <2>1, <2>2 DEF History, EventTold, CancelAudited
<1> QED
  BY <1>3 DEF Init, HistoryOK, AuditOK

\* Inv and the histories hold of every reachable state.
THEOREM HistoryInvariance == Spec => [](Inv /\ HistoryOK /\ AuditOK)
BY InitInv, InitHistory, NextKeepsInv, NextKeepsHistory, NextKeepsAudit, PTL
   DEF Spec

\* The last of a nonempty set of places is its Max.
LEMMA LastIsMax ==
    ASSUME NEW n \in Nat, NEW S \in SUBSET (1 .. n), NEW m, IsLast(S, m)
    PROVE  Max(S) = m
<1>1. S \in SUBSET Nat /\ S # {} /\ \A x \in S : x <= n
  BY DEF IsLast
<1>2. Max(S) \in S /\ \A x \in S : x <= Max(S)
  BY <1>1, MaxOfBounded
<1>3. m \in S /\ m <= Max(S) /\ Max(S) <= m /\ m \in Nat /\ Max(S) \in Nat
  BY <1>1, <1>2 DEF IsLast
<1> QED
  BY <1>3

\* Read in commit order, the outbox tells the state of the tables, whatever
\* requests raced: the last message about an event is its row, the last
\* message about a user the status of the user's registration.
THEOREM OutboxComplete == Spec => []OutboxTellsState
<1>1. Inv /\ HistoryOK => OutboxTellsState
  <2> SUFFICES ASSUME Inv, HistoryOK, NEW e \in Events, events[e] # None
               PROVE  /\ outbox[Max(EventMessages(e))].row = events[e]
                      /\ IsPublished(e) => \A u \in Users :
                          LET told == IF MessagesAbout(e, u) = {}
                                      THEN "CANCELED"
                                      ELSE outbox[Max(MessagesAbout(e, u))].status
                          IN  IF activeRegistration(regs[e], u) = {}
                              THEN told = "CANCELED"
                              ELSE \A i \in activeRegistration(regs[e], u) :
                                      regs[e][i].status = told
    BY DEF OutboxTellsState
  <2>1. outbox \in Seq(Message) /\ Len(outbox) \in Nat
    BY LenProperties DEF Inv, TypeOK
  <2>2. /\ EventMessages(e) = EventsIn(outbox, e)
        /\ \A u : MessagesAbout(e, u) = AboutIn(outbox, e, u)
    BY DEF EventMessages, EventsIn, IsEventMessage, MessagesAbout, AboutIn,
           IsAbout
  <2>3. /\ EventsIn(outbox, e) \in SUBSET (1 .. Len(outbox))
        /\ \A u : AboutIn(outbox, e, u) \in SUBSET (1 .. Len(outbox))
    BY <2>1, BoxSets
  <2>4. History(e, events[e], regs[e], outbox)
    BY DEF HistoryOK
  <2>5. PICK m \in EventsIn(outbox, e) :
          IsLast(EventsIn(outbox, e), m) /\ outbox[m].row = events[e]
    BY <2>4 DEF History, EventTold
  <2>6. Max(EventMessages(e)) = m
    BY <2>1, <2>2, <2>3, <2>5, LastIsMax
  <2>7. ASSUME IsPublished(e), NEW u \in Users
        PROVE  \/ MessagesAbout(e, u) = {}
                    /\ activeRegistration(regs[e], u) = {}
               \/ /\ MessagesAbout(e, u) # {}
                  /\ activeRegistration(regs[e], u) = {} =>
                        outbox[Max(MessagesAbout(e, u))].status = "CANCELED"
                  /\ \A i \in activeRegistration(regs[e], u) :
                        regs[e][i].status =
                            outbox[Max(MessagesAbout(e, u))].status
    <3>1. UserTold(u, e, regs[e], outbox)
      BY <2>4, <2>7 DEF History, IsPublished
    <3>2. CASE AboutIn(outbox, e, u) = {}
                 /\ activeRegistration(regs[e], u) = {}
      BY <2>2, <3>2
    <3>3. ASSUME NEW k \in AboutIn(outbox, e, u),
                 IsLast(AboutIn(outbox, e, u), k)
          PROVE  Max(MessagesAbout(e, u)) = k /\ MessagesAbout(e, u) # {}
      BY <2>1, <2>2, <2>3, <3>3, LastIsMax
    <3> QED
      BY <3>1, <3>2, <3>3 DEF UserTold
  <2> QED
    BY <2>5, <2>6, <2>7
<1> QED
  BY <1>1, HistoryInvariance, PTL

\* The feed's arithmetic over the outbox gives the number of confirmed
\* registrations, whatever was confirmed, canceled and promoted at once.
THEOREM OutboxArithmetic == Spec => []OutboxCountsSeats
<1>1. Inv /\ HistoryOK => OutboxCountsSeats
  BY DEF HistoryOK, History, SeatsCounted, Ups, Downs, SeatTaken, SeatFreed,
         OutboxCountsSeats, IsPublished
<1> QED
  BY <1>1, HistoryInvariance, PTL

\* However many managers cancel an event at once, exactly one record says so.
THEOREM CancellationOnce == Spec => []CancellationAuditedOnce
<1>1. AuditOK => CancellationAuditedOnce
  BY DEF AuditOK, CancelAudited, Cancellations, CancellationAuditedOnce
<1> QED
  BY <1>1, HistoryInvariance, PTL

=============================================================================
