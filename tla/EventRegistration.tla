------------------------- MODULE EventRegistration -------------------------
(***************************************************************************)
(* The event-registration service on PostgreSQL: package                   *)
(* internal/services/eventregistration (service.go, domain.go and          *)
(* postgres_repository.go).                                                *)
(*                                                                         *)
(* Replicas of the service run requests concurrently.  A request reads the *)
(* wall clock in the service layer, then opens a READ COMMITTED            *)
(* transaction, takes the row lock of its event (SELECT ... FOR UPDATE),   *)
(* reads the registration rows, and commits its writes: event row,         *)
(* registration rows, outbox messages and audit record together.  The      *)
(* model keeps those four moments apart (Receive, Lock, Read, commit), so  *)
(* that the clock value, the locked event row and the rows read can each   *)
(* be stale when they are used, if the locking lets them.                  *)
(*                                                                         *)
(* Any error return, lost connection or crash before COMMIT is Rollback.   *)
(* The unique index on active registrations and the CHECK on capacity are  *)
(* left out on purpose: the properties show that the code never relies on  *)
(* them.                                                                   *)
(***************************************************************************)
EXTENDS Integers, Sequences, FiniteSets, FiniteSetsExt

CONSTANTS
    Events,       \* ids NewID may produce for events
    Users,        \* user ids, attendees and managers alike
    Role,         \* Role[u]: the role in u's token, after introspection
    Workers,      \* request goroutines, over all replicas
    Capacities,   \* capacities a create or update request may carry
    StartTimes,   \* start times a create or update request may carry
    MaxTime,      \* bound on the wall clock
    MaxWrites,    \* no request is received once outbox and audit log hold
                  \* this many rows
    None          \* an absent row, an optional field left out, no owner

ASSUME ConstantAssumptions ==
    /\ Role \in [Users -> {"USER", "ORGANIZER", "ADMIN"}]
    /\ Capacities \subseteq Int
    /\ StartTimes \subseteq Nat
    /\ MaxTime \in Nat
    /\ MaxWrites \in Nat
    /\ None \notin Workers \cup Users \cup Events \cup Int

VARIABLES
    now,     \* wall clock, in ticks
    events,  \* table events: a row, or None
    regs,    \* table event_registrations: regs[e] in insertion order
    outbox,  \* table outbox_messages, in commit order
    audit,   \* table event_audit_events, in commit order
    lock,    \* lock[e]: the worker whose transaction holds e's row lock
    pc,      \* where each worker is in its request
    req,     \* the request each worker serves
    snap     \* what its transaction has read

tables == <<events, regs, outbox, audit>>
vars == <<now, tables, lock, pc, req, snap>>

-----------------------------------------------------------------------------
(* Rows, messages and requests.                                            *)

Active == {"CONFIRMED", "WAITLISTED"}

EventRow == [status    : {"PUBLISHED", "CANCELED"},
             organizer : Users,
             capacity  : Nat \ {0},
             startsAt  : Nat]

ASSUME NoneIsNoRow == None \notin EventRow

\* pos is waitlist_position, 0 standing for NULL (NULLIF / COALESCE).
RegRow == [user    : Users,
           status  : Active \cup {"CANCELED"},
           pos     : Nat,
           created : Nat,
           updated : Nat]

EventKeys == {"event.published", "event.updated", "event.canceled"}

RegKeys == {"join.confirmed", "join.waitlisted", "join.canceled",
            "join.promoted"}

Message ==
    [key : EventKeys, event : Events, row : EventRow, at : Nat]
    \cup
    [key : RegKeys, event : Events, user : Users,
     status : Active \cup {"CANCELED"}, prev : Active \cup {None}, at : Nat]

AuditEvent == [action : {"event.cancel", "registration.cancel_by_manager"},
               event  : Events,
               actor  : Users,
               target : Users \cup {None},
               result : {"success", "noop"}]

Ops == {"create", "update", "cancelEvent", "join", "cancelJoin",
        "cancelRegistration"}

Request == [op       : Ops,
            event    : Events \cup {None},
            actor    : Users,
            target   : Users \cup {None},
            capacity : Capacities \cup {None},
            startsAt : StartTimes \cup {None},
            at       : Nat]

NoSnap == [event |-> None, rows |-> <<>>]

-----------------------------------------------------------------------------
(* Queries and decisions.                                                  *)

CanPublishEvents(u) == Role[u] \in {"ORGANIZER", "ADMIN"}

CanAdmin(u) == Role[u] = "ADMIN"

\* Faulty variant: no lower bound on the capacity.
ValidateWithoutCapacity(row, t) == row.startsAt > t

\* The text fields are left out: a blank one is an error return like any other.
Validate(row, t) == row.startsAt > t /\ row.capacity > 0

ValidateCapacityChange(newCapacity, confirmed) ==
    newCapacity > 0 /\ newCapacity >= confirmed

WithStatus(rows, statuses) ==
    {i \in DOMAIN rows : rows[i].status \in statuses}

confirmedCount(rows) == Cardinality(WithStatus(rows, {"CONFIRMED"}))

\* Faulty variant: a waitlisted registration does not count as active.
activeIfConfirmed(rows, u) ==
    {i \in WithStatus(rows, {"CONFIRMED"}) : rows[i].user = u}

activeRegistration(rows, u) ==
    {i \in WithStatus(rows, Active) : rows[i].user = u}

\* Faulty variant: the status of the event is not looked at.
CanJoinCanceled(row, t) == row.startsAt > t

CanJoin(row, t) == row.status = "PUBLISHED" /\ row.startsAt > t

DecideJoinStatus(row, confirmed) ==
    IF confirmed < row.capacity THEN "CONFIRMED" ELSE "WAITLISTED"

\* Faulty variant: the length of the waitlist plus one.
nextByCount(rows) == 1 + Cardinality(WithStatus(rows, {"WAITLISTED"}))

nextWaitlistPosition(rows) ==
    1 + Max({0} \cup {rows[i].pos : i \in DOMAIN rows})

\* Faulty variant: ORDER BY waitlist_position DESC.
lastWaitlisted(rows) ==
    LET W == WithStatus(rows, {"WAITLISTED"})
    IN  {i \in W : \A j \in W : rows[i].pos >= rows[j].pos}

\* ORDER BY waitlist_position, created_at LIMIT 1: the rows that may come first.
firstWaitlisted(rows) ==
    LET W == WithStatus(rows, {"WAITLISTED"})
    IN  {i \in W : \A j \in W :
            \/ rows[i].pos < rows[j].pos
            \/ rows[i].pos = rows[j].pos /\ rows[i].created <= rows[j].created}

\* ORDER BY updated_at DESC, created_at DESC LIMIT 1, over a user's rows.
latestRows(rows, u) ==
    LET R == {i \in DOMAIN rows : rows[i].user = u}
    IN  {i \in R : \A j \in R :
            \/ rows[i].updated > rows[j].updated
            \/ rows[i].updated = rows[j].updated
                 /\ rows[i].created >= rows[j].created}

\* What GetJoinStatus and GetEventDetail may tell the viewer u.
latestStatus(rows, u) ==
    IF latestRows(rows, u) = {} THEN {"NOT_JOINED"}
    ELSE {rows[i].status : i \in latestRows(rows, u)}

eventMessage(key, e, row, t) ==
    [key |-> key, event |-> e, row |-> row, at |-> t]

\* Faulty variant: the payload is built before the transition.
messageBeforeChange(key, e, row, prev, t) ==
    [key |-> key, event |-> e, user |-> row.user,
     status |-> IF prev = None THEN row.status ELSE prev,
     prev |-> prev, at |-> t]

\* Faulty variant: previousStatus is read after the transition.
messageWithNewStatus(key, e, row, prev, t) ==
    [key |-> key, event |-> e, user |-> row.user, status |-> row.status,
     prev |-> row.status, at |-> t]

registrationMessage(key, e, row, prev, t) ==
    [key |-> key, event |-> e, user |-> row.user, status |-> row.status,
     prev |-> prev, at |-> t]

-----------------------------------------------------------------------------
(* The service layer: authorisation, validation and the clock, before any  *)
(* transaction.                                                            *)

NewRequest(op, e, a, u, c, s) ==
    [op |-> op, event |-> e, actor |-> a, target |-> u, capacity |-> c,
     startsAt |-> s, at |-> now]

NoRequest == [op |-> None, event |-> None, actor |-> None, target |-> None,
              capacity |-> None, startsAt |-> None, at |-> 0]

Receive(w, q) ==
    /\ pc[w] = "idle"
    /\ Len(outbox) + Len(audit) < MaxWrites
    /\ req' = [req EXCEPT ![w] = q]
    /\ pc' = [pc EXCEPT ![w] = "begun"]
    /\ UNCHANGED <<now, tables, lock, snap>>

ReceiveCreate(w) ==
    \E a \in Users, c \in Capacities, s \in StartTimes :
        /\ CanPublishEvents(a)
        /\ Validate([startsAt |-> s, capacity |-> c], now)
        /\ Receive(w, NewRequest("create", None, a, None, c, s))

ReceiveUpdate(w) ==
    \E a \in Users, e \in Events, c \in Capacities \cup {None},
       s \in StartTimes \cup {None} :
        /\ CanPublishEvents(a)
        /\ Receive(w, NewRequest("update", e, a, None, c, s))

ReceiveCancelEvent(w) ==
    \E a \in Users, e \in Events :
        /\ CanPublishEvents(a)
        /\ Receive(w, NewRequest("cancelEvent", e, a, None, None, None))

ReceiveJoin(w) ==
    \E u \in Users, e \in Events :
        Receive(w, NewRequest("join", e, u, u, None, None))

ReceiveCancelJoin(w) ==
    \E u \in Users, e \in Events :
        Receive(w, NewRequest("cancelJoin", e, u, u, None, None))

ReceiveCancelRegistration(w) ==
    \E a \in Users, u \in Users, e \in Events :
        /\ CanPublishEvents(a)
        /\ Receive(w, NewRequest("cancelRegistration", e, a, u, None, None))

-----------------------------------------------------------------------------
(* Transactions.                                                           *)

\* Faulty variant: a plain SELECT.
NoRowLock(e) == e \in Events

\* The row lock: FOR UPDATE waits for the transaction that holds it.
RowLockFree(e) == lock[e] = None

selectEventForUpdate(w) ==
    LET e == req[w].event
    IN  /\ pc[w] = "begun"
        /\ req[w].op # "create"
        /\ events[e] # None
        /\ RowLockFree(e)
        /\ lock' = [lock EXCEPT ![e] = w]
        /\ snap' = [snap EXCEPT ![w].event = events[e]]
        /\ pc' = [pc EXCEPT ![w] = "locked"]
        /\ UNCHANGED <<now, tables, req>>

\* Each later statement reads the rows committed when it starts.
readRegistrations(w) ==
    /\ pc[w] = "locked"
    /\ snap' = [snap EXCEPT ![w].rows = regs[req[w].event]]
    /\ pc' = [pc EXCEPT ![w] = "read"]
    /\ UNCHANGED <<now, tables, lock, req>>

\* Faulty variant: the transaction is left open, and with it its row lock.
EndTxLeavingLock(w) ==
    /\ pc' = [pc EXCEPT ![w] = "idle"]
    /\ req' = [req EXCEPT ![w] = NoRequest]
    /\ snap' = [snap EXCEPT ![w] = NoSnap]
    /\ UNCHANGED <<now, lock>>

\* COMMIT and ROLLBACK both end the request and release its row lock.
EndTx(w) ==
    /\ lock' = [e \in Events |-> IF lock[e] = w THEN None ELSE lock[e]]
    /\ pc' = [pc EXCEPT ![w] = "idle"]
    /\ req' = [req EXCEPT ![w] = NoRequest]
    /\ snap' = [snap EXCEPT ![w] = NoSnap]
    /\ UNCHANGED now

Rollback(w) ==
    /\ pc[w] # "idle"
    /\ EndTx(w)
    /\ UNCHANGED tables

Ready(w, op) == pc[w] = "read" /\ req[w].op = op

\* The organizer of the event, or an admin.
MayManage(w) ==
    snap[w].event.organizer = req[w].actor \/ CanAdmin(req[w].actor)

CreateEvent(w) ==
    /\ pc[w] = "begun"
    /\ req[w].op = "create"
    /\ \E e \in Events :
        LET row == [status |-> "PUBLISHED", organizer |-> req[w].actor,
                    capacity |-> req[w].capacity,
                    startsAt |-> req[w].startsAt]
        IN  /\ events[e] = None
            /\ events' = [events EXCEPT ![e] = row]
            /\ outbox' = Append(outbox,
                    eventMessage("event.published", e, row, req[w].at))
    /\ UNCHANGED <<regs, audit>>
    /\ EndTx(w)

UpdatedRow(row, q) ==
    [row EXCEPT
        !.capacity = IF q.capacity = None THEN @ ELSE q.capacity,
        !.startsAt = IF q.startsAt = None THEN @ ELSE q.startsAt]

UpdateEvent(w) ==
    LET q == req[w]
        row == UpdatedRow(snap[w].event, q)
    IN  /\ Ready(w, "update")
        /\ MayManage(w)
        /\ snap[w].event.status = "PUBLISHED"
        /\ q.capacity # None =>
              ValidateCapacityChange(q.capacity, confirmedCount(snap[w].rows))
        /\ Validate(row, q.at)
        /\ events' = [events EXCEPT ![q.event].capacity = row.capacity,
                                    ![q.event].startsAt = row.startsAt]
        /\ outbox' = Append(outbox,
                eventMessage("event.updated", q.event, row, q.at))
        /\ UNCHANGED <<regs, audit>>
        /\ EndTx(w)

\* The bulk UPDATE: every active row, its waitlist position kept.
CancelActive(rows, t) ==
    [i \in DOMAIN rows |->
        IF rows[i].status \in Active
        THEN [rows[i] EXCEPT !.status = "CANCELED", !.updated = t]
        ELSE rows[i]]

\* Faulty variant: previousStatus is read after the row was changed.
CancelResultAfter(previous) == "noop"

\* previousStatus is the status the locked row had.
CancelResult(previous) == IF previous = "CANCELED" THEN "noop" ELSE "success"

CancelEvent(w) ==
    LET q == req[w]
        e == q.event
        row == [snap[w].event EXCEPT !.status = "CANCELED"]
    IN  /\ Ready(w, "cancelEvent")
        /\ MayManage(w)
        /\ IF snap[w].event.status = "CANCELED"
           THEN UNCHANGED <<events, regs, outbox>>
           ELSE /\ events' = [events EXCEPT ![e].status = "CANCELED"]
                /\ regs' = [regs EXCEPT ![e] = CancelActive(@, q.at)]
                /\ outbox' = Append(outbox,
                        eventMessage("event.canceled", e, row, q.at))
        /\ audit' = Append(audit,
                [action |-> "event.cancel", event |-> e, actor |-> q.actor,
                 target |-> None,
                 result |-> CancelResult(snap[w].event.status)])
        /\ EndTx(w)

\* A second join while a registration is active returns that registration.
JoinExisting(w) ==
    /\ Ready(w, "join")
    /\ activeRegistration(snap[w].rows, req[w].target) # {}
    /\ UNCHANGED tables
    /\ EndTx(w)

JoinEvent(w) ==
    LET q == req[w]
        e == q.event
        rows == snap[w].rows
        status == DecideJoinStatus(snap[w].event, confirmedCount(rows))
        row == [user |-> q.target, status |-> status,
                pos |-> IF status = "WAITLISTED"
                        THEN nextWaitlistPosition(rows) ELSE 0,
                created |-> q.at, updated |-> q.at]
        key == IF status = "WAITLISTED" THEN "join.waitlisted"
                                        ELSE "join.confirmed"
    IN  /\ Ready(w, "join")
        /\ activeRegistration(rows, q.target) = {}
        /\ CanJoin(snap[w].event, q.at)
        /\ regs' = [regs EXCEPT ![e] = Append(@, row)]
        /\ outbox' = Append(outbox,
                registrationMessage(key, e, row, None, q.at))
        /\ UNCHANGED <<events, audit>>
        /\ EndTx(w)

\* UPDATE ... SET status, waitlist_position = NULL, updated_at WHERE id = i.
SetStatus(rows, i, status, t) ==
    [rows EXCEPT ![i].status = status, ![i].pos = 0, ![i].updated = t]

\* Faulty variant: nobody is promoted.
PromotesNobody(rows, oldStatus) == {}

\* The rows to promote when a registration of that status is canceled.
Promotable(rows, oldStatus) ==
    IF oldStatus = "CONFIRMED" THEN firstWaitlisted(rows) ELSE {}

\* The three ways cancelRegistrationTx can go, as a relation between the
\* tables before and after it.
cancelRegistrationTx(w) ==
    LET q == req[w]
        e == q.event
        rows == snap[w].rows
        mine == activeRegistration(rows, q.target)
        canceled(i) == SetStatus(regs[e], i, "CANCELED", q.at)
        canceledMessage(i) ==
            registrationMessage("join.canceled", e,
                                [rows[i] EXCEPT !.status = "CANCELED"],
                                rows[i].status, q.at)
    IN  \/ mine = {} /\ UNCHANGED <<regs, outbox>>
        \/ \E i \in mine :
            /\ Promotable(rows, rows[i].status) = {}
            /\ regs' = [regs EXCEPT ![e] = canceled(i)]
            /\ outbox' = Append(outbox, canceledMessage(i))
        \/ \E i \in mine : \E p \in Promotable(rows, rows[i].status) :
            LET promoted == SetStatus(canceled(i), p, "CONFIRMED", q.at)
            IN  /\ regs' = [regs EXCEPT ![e] = promoted]
                /\ outbox' = outbox \o
                     <<canceledMessage(i),
                       registrationMessage("join.promoted", e,
                            [rows[p] EXCEPT !.status = "CONFIRMED"],
                            "WAITLISTED", q.at)>>

CancelJoin(w) ==
    /\ Ready(w, "cancelJoin")
    /\ cancelRegistrationTx(w)
    /\ UNCHANGED <<events, audit>>
    /\ EndTx(w)

CancelRegistration(w) ==
    /\ Ready(w, "cancelRegistration")
    /\ MayManage(w)
    /\ cancelRegistrationTx(w)
    /\ audit' = Append(audit,
            [action |-> "registration.cancel_by_manager",
             event |-> req[w].event, actor |-> req[w].actor,
             target |-> req[w].target, result |-> "success"])
    /\ UNCHANGED events
    /\ EndTx(w)

-----------------------------------------------------------------------------

Tick ==
    /\ now < MaxTime
    /\ now' = now + 1
    /\ UNCHANGED <<tables, lock, pc, req, snap>>

\* The bound is reached and nothing is in flight.
Quiesced ==
    /\ Len(outbox) + Len(audit) >= MaxWrites
    /\ \A w \in Workers : pc[w] = "idle"
    /\ UNCHANGED vars

Init ==
    /\ now = 0
    /\ events = [e \in Events |-> None]
    /\ regs = [e \in Events |-> <<>>]
    /\ outbox = <<>>
    /\ audit = <<>>
    /\ lock = [e \in Events |-> None]
    /\ pc = [w \in Workers |-> "idle"]
    /\ req = [w \in Workers |-> NoRequest]
    /\ snap = [w \in Workers |-> NoSnap]

ReceiveAny(w) ==
    \/ ReceiveCreate(w)
    \/ ReceiveUpdate(w)
    \/ ReceiveCancelEvent(w)
    \/ ReceiveJoin(w)
    \/ ReceiveCancelJoin(w)
    \/ ReceiveCancelRegistration(w)

Commit(w) ==
    \/ CreateEvent(w)
    \/ UpdateEvent(w)
    \/ CancelEvent(w)
    \/ JoinExisting(w)
    \/ JoinEvent(w)
    \/ CancelJoin(w)
    \/ CancelRegistration(w)

Next ==
    \/ Tick
    \/ Quiesced
    \/ \E w \in Workers :
        \/ ReceiveAny(w)
        \/ selectEventForUpdate(w)
        \/ readRegistrations(w)
        \/ Commit(w)
        \/ Rollback(w)

Spec == Init /\ [][Next]_vars

\* The code returns without waiting for anybody: its reads are done, or the
\* event is not there (ErrNotFound), or no fresh id is left for a new one.
Returns(w) ==
    \/ pc[w] = "read"
    \/ pc[w] = "begun" /\ req[w].op = "create"
    \/ pc[w] = "begun" /\ req[w].op # "create" /\ events[req[w].event] = None

\* A worker that waits for nobody goes on, and PostgreSQL grants the row lock
\* to each waiter in turn.  Users owe the service nothing (no fairness on
\* Receive), and nothing promises that a waiter gives up.
Fairness ==
    \A w \in Workers :
        /\ SF_vars(selectEventForUpdate(w))
        /\ WF_vars(readRegistrations(w))
        /\ WF_vars(Commit(w) \/ (Returns(w) /\ Rollback(w)))

FairSpec == Spec /\ Fairness

-----------------------------------------------------------------------------
(* Properties.                                                             *)

Confirmed(e) == WithStatus(regs[e], {"CONFIRMED"})
Waitlisted(e) == WithStatus(regs[e], {"WAITLISTED"})
IsPublished(e) == events[e] # None /\ events[e].status = "PUBLISHED"

\* Types of the tables and of the transactions in flight.
TypeOK ==
    /\ now \in Nat
    /\ events \in [Events -> EventRow \cup {None}]
    /\ regs \in [Events -> Seq(RegRow)]
    /\ outbox \in Seq(Message)
    /\ audit \in Seq(AuditEvent)
    /\ lock \in [Events -> Workers \cup {None}]
    /\ pc \in [Workers -> {"idle", "begun", "locked", "read"}]
    /\ req \in [Workers -> Request \cup {NoRequest}]
    /\ snap \in [Workers -> [event : EventRow \cup {None},
                            rows  : Seq(RegRow)]]

\* Joins, promotions and capacity changes in flight together never confirm
\* more attendees than the event has places.
CapacityRespected ==
    \A e \in Events :
        events[e] # None => confirmedCount(regs[e]) <= events[e].capacity

\* The code alone keeps one active registration per user and event: the
\* unique index idx_event_registrations_one_active never has to refuse a row.
OneActive ==
    \A e \in Events, u \in Users :
        Cardinality({i \in WithStatus(regs[e], Active) :
                        regs[e][i].user = u}) <= 1

\* MAX(waitlist_position) + 1 numbers the waitlist in arrival order and never
\* gives a position twice, although cancellations and promotions clear theirs.
WaitlistInArrivalOrder ==
    \A e \in Events : \A i, j \in Waitlisted(e) :
        /\ regs[e][i].pos > 0
        /\ i < j => regs[e][i].pos < regs[e][j].pos

\* A join or a promotion in flight while the event is canceled leaves no
\* active registration behind.
CanceledEventEmpty ==
    \A e \in Events :
        ~IsPublished(e) => WithStatus(regs[e], Active) = {}

\* READ COMMITTED gives each statement its own snapshot; the event row lock
\* is what keeps what a transaction has read equal to what is committed
\* until it commits.
SnapshotsCurrent ==
    \A w \in Workers :
        LET e == req[w].event
        IN  /\ pc[w] \in {"locked", "read"} => snap[w].event = events[e]
            /\ pc[w] = "read" => snap[w].rows = regs[e]

\* While somebody waits, no canceled seat goes idle: it is handed on in the
\* transaction that frees it.
SeatsKeptWhileQueued ==
    [][\A e \in Events :
          Waitlisted(e) # {} /\ IsPublished(e)' =>
              confirmedCount(regs'[e]) >= confirmedCount(regs[e])]_vars

MessagesAbout(e, u) ==
    {i \in DOMAIN outbox : outbox[i].event = e /\ outbox[i].key \in RegKeys
                            /\ outbox[i].user = u}

EventMessages(e) ==
    {i \in DOMAIN outbox : outbox[i].event = e /\ outbox[i].key \in EventKeys}

\* Read in commit order, the outbox tells the whole state: its last event
\* message is the event row, and its last message about a user is the status
\* of the user's registration, as long as the event is published.
OutboxTellsState ==
    \A e \in Events : events[e] # None =>
        /\ outbox[Max(EventMessages(e))].row = events[e]
        /\ IsPublished(e) => \A u \in Users :
            LET told == IF MessagesAbout(e, u) = {} THEN "CANCELED"
                        ELSE outbox[Max(MessagesAbout(e, u))].status
            IN  IF activeRegistration(regs[e], u) = {}
                THEN told = "CANCELED"
                ELSE \A i \in activeRegistration(regs[e], u) :
                        regs[e][i].status = told

\* The feed's arithmetic over the outbox (plus one for join.confirmed and
\* join.promoted, minus one for a join.canceled whose previousStatus is
\* CONFIRMED) gives the number of confirmed registrations.
OutboxCountsSeats ==
    \A e \in Events : IsPublished(e) =>
        LET up == {i \in DOMAIN outbox : outbox[i].event = e
                    /\ outbox[i].key \in {"join.confirmed", "join.promoted"}}
            down == {i \in DOMAIN outbox : outbox[i].event = e
                      /\ outbox[i].key = "join.canceled"
                      /\ outbox[i].prev = "CONFIRMED"}
        IN  Cardinality(up) - Cardinality(down) = confirmedCount(regs[e])

\* However many managers cancel an event at once, exactly one audit record
\* says it was canceled, and it is there as soon as the event is.
CancellationAuditedOnce ==
    \A e \in Events : events[e] # None =>
        Cardinality({i \in DOMAIN audit :
            audit[i].event = e /\ audit[i].action = "event.cancel"
            /\ audit[i].result = "success"})
          = IF events[e].status = "CANCELED" THEN 1 ELSE 0

\* A user with an active registration is never told by GetJoinStatus or by
\* the event detail that it is canceled.
ActiveStatusShown ==
    \A e \in Events, u \in Users :
        \A i \in activeRegistration(regs[e], u) :
            regs[e][i].status \in latestStatus(regs[e], u)

\* The transaction that publishes an event also writes an audit record.
PublishAudited ==
    \A e \in Events :
        events[e] # None => \E i \in DOMAIN audit : audit[i].event = e

\* No request waits for ever: not for the row lock, not on an error path.
RequestsFinish ==
    \A w \in Workers : pc[w] = "begun" ~> pc[w] = "idle"

=============================================================================
