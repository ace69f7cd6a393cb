--------------------------- MODULE SeatRefinement ---------------------------
(***************************************************************************)
(* EventRegistration implements SeatAllocation.  The seated users are      *)
(* those of the CONFIRMED rows and the queue is the WAITLISTED rows sorted *)
(* by waitlist_position: the mapping does not look at insertion order, so  *)
(* it is the numbering of the rows that has to make the queue first come,  *)
(* first served.  Everything before COMMIT maps to stuttering.             *)
(***************************************************************************)
EXTENDS EventRegistration

\* The waitlisted rows with a smaller position, and a row's place in the queue.
Ahead(rows, i) ==
    {j \in WithStatus(rows, {"WAITLISTED"}) : rows[j].pos < rows[i].pos}

Place(rows, i) == 1 + Cardinality(Ahead(rows, i))

\* The users of the waitlisted rows by waitlist_position.
QueueOf(rows) ==
    LET W == WithStatus(rows, {"WAITLISTED"})
    IN  [k \in 1 .. Cardinality(W) |->
            rows[CHOOSE i \in W : Place(rows, i) = k].user]

SeatsOf(rows) == {rows[i].user : i \in WithStatus(rows, {"CONFIRMED"})}

PlacesOf(row) == IF row = None THEN 0 ELSE row.capacity

StateOf(row) ==
    IF row = None THEN "absent"
    ELSE IF row.status = "PUBLISHED" THEN "open" ELSE "closed"

state  == [e \in Events |-> StateOf(events[e])]
places == [e \in Events |-> PlacesOf(events[e])]
seats  == [e \in Events |-> SeatsOf(regs[e])]
queue  == [e \in Events |-> QueueOf(regs[e])]

Seats == INSTANCE SeatAllocation WITH Sizes <- Capacities

\* Every committed request, whatever it raced with, is one step of the
\* seat-and-queue specification, and every other step changes nothing a user
\* could see of it.
ImplementsSeatAllocation == Seats!Spec

=============================================================================
