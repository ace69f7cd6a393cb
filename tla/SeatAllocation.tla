--------------------------- MODULE SeatAllocation ---------------------------
(***************************************************************************)
(* What the event-registration service promises, without rows, positions,  *)
(* clocks, locks or transactions: every event has a set of seated users    *)
(* and a first-come-first-served queue, and each request that succeeds is  *)
(* one atomic step.  EventRegistration implements this specification       *)
(* (module SeatRefinement).                                                *)
(***************************************************************************)
EXTENDS Integers, Sequences, SequencesExt

CONSTANTS
    Events,
    Users,
    Sizes    \* the numbers of places that may be asked for

VARIABLES
    state,  \* "absent", "open" or "closed"
    places, \* number of places
    seats,  \* the users with a place
    queue   \* the users waiting for one, in order

seatVars == <<state, places, seats, queue>>

Queued(e) == ToSet(queue[e])

Init ==
    /\ state = [e \in Events |-> "absent"]
    /\ places = [e \in Events |-> 0]
    /\ seats = [e \in Events |-> {}]
    /\ queue = [e \in Events |-> <<>>]

Publish(e) ==
    /\ state[e] = "absent"
    /\ state' = [state EXCEPT ![e] = "open"]
    /\ \E n \in Sizes : n > 0 /\ places' = [places EXCEPT ![e] = n]
    /\ UNCHANGED <<seats, queue>>

\* New places are not offered to the queue: they wait for the next Take.
Resize(e) ==
    /\ state[e] = "open"
    /\ \E n \in Sizes :
        /\ n > 0
        /\ n >= Cardinality(seats[e])
        /\ places' = [places EXCEPT ![e] = n]
    /\ UNCHANGED <<state, seats, queue>>

Close(e) ==
    /\ state[e] = "open"
    /\ state' = [state EXCEPT ![e] = "closed"]
    /\ seats' = [seats EXCEPT ![e] = {}]
    /\ queue' = [queue EXCEPT ![e] = <<>>]
    /\ UNCHANGED places

Take(e, u) ==
    /\ state[e] = "open"
    /\ u \notin seats[e] \cup Queued(e)
    /\ Cardinality(seats[e]) < places[e]
    /\ seats' = [seats EXCEPT ![e] = @ \cup {u}]
    /\ UNCHANGED <<state, places, queue>>

Enqueue(e, u) ==
    /\ state[e] = "open"
    /\ u \notin seats[e] \cup Queued(e)
    /\ Cardinality(seats[e]) >= places[e]
    /\ queue' = [queue EXCEPT ![e] = Append(@, u)]
    /\ UNCHANGED <<state, places, seats>>

\* A freed seat goes to the head of the queue in the same step.
GiveUpSeat(e, u) ==
    /\ u \in seats[e]
    /\ IF queue[e] = <<>>
       THEN seats' = [seats EXCEPT ![e] = @ \ {u}] /\ UNCHANGED queue
       ELSE /\ seats' = [seats EXCEPT ![e] = (@ \ {u}) \cup {Head(queue[e])}]
            /\ queue' = [queue EXCEPT ![e] = Tail(@)]
    /\ UNCHANGED <<state, places>>

LeaveQueue(e, u) ==
    /\ \E k \in DOMAIN queue[e] :
        /\ queue[e][k] = u
        /\ queue' = [queue EXCEPT ![e] = RemoveAt(@, k)]
    /\ UNCHANGED <<state, places, seats>>

Next ==
    \E e \in Events :
        \/ Publish(e)
        \/ Resize(e)
        \/ Close(e)
        \/ \E u \in Users : \/ Take(e, u)
                            \/ Enqueue(e, u)
                            \/ GiveUpSeat(e, u)
                            \/ LeaveQueue(e, u)

Spec == Init /\ [][Next]_seatVars

=============================================================================
