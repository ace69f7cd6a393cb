------------------------ MODULE NotificationDelivery ------------------------
(***************************************************************************)
(* The notification worker: internal/services/notification, run by         *)
(* cmd/notification-worker in two replicas.  Its consumer records one      *)
(* notification per message; its delivery loop claims a notification for   *)
(* the time of a lease, sends the mail outside any transaction, and marks  *)
(* the row if the claim is still its own (status PROCESSING and the        *)
(* locked_until it wrote).                                                 *)
(*                                                                         *)
(* A replica reads its own clock, up to MaxSkew ticks behind the true      *)
(* time: because its clock is slow or because it read it some time ago.    *)
(* Within one replica the clock does not run backwards.                    *)
(***************************************************************************)
EXTENDS Integers, Sequences, FiniteSets

CONSTANTS
    Msgs,         \* ids of the messages, and of the notifications made of them
    Key,          \* Key[m]: the routing key of message m
    Workers,      \* delivery loops, one per replica
    Lease,        \* DefaultDeliveryLease, in ticks
    MaxAttempts,  \* MaxDeliveryAttempts
    Backoffs,     \* deliveryRetryBackoffs, in ticks
    MaxSkew,      \* how far a clock reading may be behind
    None

ASSUME DeliveryAssumptions ==
    /\ Lease \in Nat \ {0}
    /\ MaxAttempts \in Nat \ {0}
    /\ Backoffs \in Seq(Nat \ {0}) /\ Backoffs # <<>>
    /\ MaxSkew \in Nat

Row == [status   : {"PENDING", "PROCESSING", "SENT", "FAILED"},
        attempts : 0 .. MaxAttempts,
        next     : Nat,                \* next_attempt_at
        until    : Nat \cup {None}]    \* locked_until

\* What ProcessOne holds between its claim and its mark.
Claim == [msg     : Msgs,
          attempt : 1 .. MaxAttempts,
          at      : Nat,
          until   : Nat,
          result  : {None, "ok", "error"}]

Record == [attempt : 1 .. MaxAttempts, status : {"SENT", "FAILED"}]

ASSUME NoneIsApart == None \notin Nat \cup {"ok", "error"} \cup Row \cup Claim

VARIABLES
    now,        \* the true time
    processed,  \* table notification_processed_messages
    rows,       \* table notifications: a row, or None
    log,        \* table notification_deliveries, by notification
    claim,      \* claim[w]: the claim worker w acts on, or None
    mailed      \* mailed[m]: the attempts whose mail the server took

vars == <<now, processed, rows, log, claim, mailed>>

-----------------------------------------------------------------------------

\* The routing keys that make a notification.
Decide(key) ==
    key \in {"join.confirmed", "join.waitlisted", "join.promoted",
             "join.canceled", "event.canceled"}

Readings == (IF now > MaxSkew THEN now - MaxSkew ELSE 0) .. now

deliveryBackoff(attempts) ==
    IF attempts <= 0 THEN Backoffs[1]
    ELSE IF attempts > Len(Backoffs) THEN Backoffs[Len(Backoffs)]
    ELSE Backoffs[attempts]

\* Faulty variant: the result of ON CONFLICT DO NOTHING is not looked at.
claimAlways(m) == m \in Msgs

claimMessage(m) == m \notin processed

\* Faulty variant: expired leases are not taken over.
DueUnclaimed(row, t) == row.status \in {"PENDING", "FAILED"} /\ row.next <= t

Due(row, t) ==
    \/ row.status \in {"PENDING", "FAILED"} /\ row.next <= t
    \/ row.status = "PROCESSING" /\ row.until <= t

\* Faulty variant: one attempt too many.
AttemptLeftAtLimit(row) == row.attempts <= MaxAttempts

AttemptLeft(row) == row.attempts < MaxAttempts

\* Faulty variant: the lease is not compared.
ProcessingOnly(row, c) == row.status = "PROCESSING"

\* Faulty variant: the row is updated by its id alone.
AnyRow(row, c) == row.status \in {"PENDING", "PROCESSING", "SENT", "FAILED"}

\* The WHERE clause of updateDeliveryState: the claim is still its own.
ClaimCurrent(row, c) == row.status = "PROCESSING" /\ row.until = c.until

-----------------------------------------------------------------------------

\* The consumer: the claim of the message and its notification are one
\* transaction, so a redelivery finds both or none.
ProcessEnvelope(m) ==
    /\ Decide(Key[m])
    /\ claimMessage(m)
    /\ \E t \in Readings :
        rows' = [rows EXCEPT ![m] = [status |-> "PENDING", attempts |-> 0,
                                     next |-> t, until |-> None]]
    /\ processed' = processed \cup {m}
    /\ UNCHANGED <<now, log, claim, mailed>>

\* A redelivered message, or one no notification is made of, is only acked.
SkipEnvelope(m) ==
    /\ ~Decide(Key[m]) \/ ~claimMessage(m)
    /\ UNCHANGED vars

\* ORDER BY created_at, id ... SKIP LOCKED: the oldest due row no other
\* transaction has locked just then, hence possibly any due row.
ClaimNextDelivery(w) ==
    /\ claim[w] = None
    /\ \E m \in Msgs, t \in Readings :
        /\ rows[m] # None
        /\ AttemptLeft(rows[m])
        /\ Due(rows[m], t)
        /\ rows' = [rows EXCEPT ![m].status = "PROCESSING",
                                ![m].attempts = @ + 1,
                                ![m].until = t + Lease]
        /\ claim' = [claim EXCEPT ![w] =
                [msg |-> m, attempt |-> rows[m].attempts + 1, at |-> t,
                 until |-> t + Lease, result |-> None]]
    /\ UNCHANGED <<now, processed, log, mailed>>

\* A send that fails may have delivered the mail all the same.
Send(w) ==
    LET c == claim[w]
    IN  /\ c # None
        /\ c.result = None
        /\ \E result \in {"ok", "error"}, taken \in BOOLEAN :
            /\ result = "ok" => taken
            /\ claim' = [claim EXCEPT ![w].result = result]
            /\ mailed' = IF taken
                         THEN [mailed EXCEPT ![c.msg] = @ \cup {c.attempt}]
                         ELSE mailed
        /\ UNCHANGED <<now, processed, rows, log>>

recordDelivery(c, status) ==
    log' = [log EXCEPT ![c.msg] =
                @ \cup {[attempt |-> c.attempt, status |-> status]}]

MarkDeliverySent(w) ==
    LET c == claim[w]
    IN  /\ c # None
        /\ c.result = "ok"
        /\ ClaimCurrent(rows[c.msg], c)
        /\ rows' = [rows EXCEPT ![c.msg].status = "SENT",
                                ![c.msg].until = None]
        /\ recordDelivery(c, "SENT")
        /\ claim' = [claim EXCEPT ![w] = None]
        /\ UNCHANGED <<now, processed, mailed>>

\* On the last attempt next_attempt_at is simply now: nobody will look at it.
MarkDeliveryFailed(w) ==
    LET c == claim[w]
    IN  /\ c # None
        /\ c.result = "error"
        /\ ClaimCurrent(rows[c.msg], c)
        /\ \E t \in Readings :
            /\ t >= c.at
            /\ rows' = [rows EXCEPT
                    ![c.msg].status = "FAILED",
                    ![c.msg].until = None,
                    ![c.msg].next = IF c.attempt >= MaxAttempts THEN t
                                    ELSE t + deliveryBackoff(c.attempt)]
        /\ recordDelivery(c, "FAILED")
        /\ claim' = [claim EXCEPT ![w] = None]
        /\ UNCHANGED <<now, processed, mailed>>

\* ErrStaleDeliveryClaim: the transaction rolls back and the loop goes on.
MarkStale(w) ==
    LET c == claim[w]
    IN  /\ c # None
        /\ c.result # None
        /\ ~ClaimCurrent(rows[c.msg], c)
        /\ claim' = [claim EXCEPT ![w] = None]
        /\ UNCHANGED <<now, processed, rows, log, mailed>>

\* The process dies, is shut down, or cannot reach the database for its mark.
LoseClaim(w) ==
    /\ claim[w] # None
    /\ claim' = [claim EXCEPT ![w] = None]
    /\ UNCHANGED <<now, processed, rows, log, mailed>>

Deadline(row) == IF row.status = "PROCESSING" THEN row.until ELSE row.next

\* Time matters as long as some reading is still before a deadline.
Tick ==
    /\ \E m \in Msgs : /\ rows[m] # None
                       /\ rows[m].status # "SENT"
                       /\ AttemptLeft(rows[m])
                       /\ Deadline(rows[m]) + MaxSkew > now
    /\ now' = now + 1
    /\ UNCHANGED <<processed, rows, log, claim, mailed>>

-----------------------------------------------------------------------------

Init ==
    /\ now = 0
    /\ processed = {}
    /\ rows = [m \in Msgs |-> None]
    /\ log = [m \in Msgs |-> {}]
    /\ claim = [w \in Workers |-> None]
    /\ mailed = [m \in Msgs |-> {}]

Mark(w) == MarkDeliverySent(w) \/ MarkDeliveryFailed(w) \/ MarkStale(w)

Next ==
    \/ Tick
    \/ \E m \in Msgs : ProcessEnvelope(m) \/ SkipEnvelope(m)
    \/ \E w \in Workers : ClaimNextDelivery(w) \/ Send(w) \/ Mark(w)
                            \/ LoseClaim(w)

Spec == Init /\ [][Next]_vars

\* The delivery loop polls for ever, and SMTP answers or breaks off.  Claims
\* may be lost at any time: every claim uses up an attempt.
Fairness ==
    /\ WF_vars(Tick)
    /\ \A w \in Workers : /\ WF_vars(ClaimNextDelivery(w))
                          /\ WF_vars(Send(w))
                          /\ WF_vars(Mark(w))

FairSpec == Spec /\ Fairness

-----------------------------------------------------------------------------
(* Properties.                                                             *)

\* Types of the tables and of the claims; in particular no notification is
\* ever attempted more than MaxDeliveryAttempts times.
TypeOK ==
    /\ now \in Nat
    /\ processed \in SUBSET Msgs
    /\ rows \in [Msgs -> Row \cup {None}]
    /\ log \in [Msgs -> SUBSET Record]
    /\ claim \in [Workers -> Claim \cup {None}]
    /\ mailed \in [Msgs -> SUBSET (1 .. MaxAttempts)]

\* locked_until is a fence although it is only a clock reading: of all claims
\* still held on a notification at most one passes the WHERE clause of
\* updateDeliveryState, and it is the last one granted.
OnlyLatestClaimCurrent ==
    \A w \in Workers :
        LET c == claim[w]
        IN  c # None /\ ClaimCurrent(rows[c.msg], c) =>
              /\ c.attempt = rows[c.msg].attempts
              /\ \A v \in Workers \ {w} :
                    claim[v] # None /\ claim[v].msg = c.msg =>
                        ~ClaimCurrent(rows[c.msg], claim[v])

\* A notification is SENT only on the word of the attempt that sent it, never
\* on that of an earlier one whose lease ran out.
SentWasMailed ==
    \A m \in Msgs :
        rows[m] # None /\ rows[m].status = "SENT" =>
            rows[m].attempts \in mailed[m]

\* The delivery records agree with the notification: an attempt is recorded
\* at most once, and a SENT record exists exactly for the last attempt of a
\* SENT notification.
RecordsMatch ==
    \A m \in Msgs :
        /\ \A r, s \in log[m] : r.attempt = s.attempt => r = s
        /\ {r \in log[m] : r.status = "SENT"} =
              IF rows[m] # None /\ rows[m].status = "SENT"
              THEN {[attempt |-> rows[m].attempts, status |-> "SENT"]}
              ELSE {}

\* Neither a late mark, nor a late claim, nor a redelivered message touches a
\* notification that is SENT.
SentIsFinal ==
    [][\A m \in Msgs :
          rows[m] # None /\ rows[m].status = "SENT" => rows'[m] = rows[m]]_vars

Settled(m) ==
    rows[m] # None /\ (rows[m].status = "SENT" \/ ~AttemptLeft(rows[m]))

\* A notification is not forgotten while it has an attempt left, whatever
\* becomes of the worker that claimed it.  (One whose last attempt is lost
\* stays PROCESSING for good: nobody claims it again.)
EventuallySettled == \A m \in Msgs : rows[m] # None ~> Settled(m)

=============================================================================
