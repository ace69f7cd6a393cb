--------------------------- MODULE MediaPipeline ---------------------------
(***************************************************************************)
(* Media uploads: internal/services/media, the media service and the media *)
(* worker, with PostgreSQL (table media_assets) and MinIO between them.    *)
(*                                                                         *)
(* The service creates an asset and a presigned POST policy; the browser   *)
(* posts the object to MinIO on its own; the uploader then tells the       *)
(* service so; a worker claims the asset, looks at the object and marks    *)
(* the asset.  The two transactions that read a row before they write it   *)
(* (MarkUploaded, ClaimNextUploaded) are a locking step and a commit; the  *)
(* marks are single statements without any guard on the status.            *)
(***************************************************************************)
EXTENDS Integers

CONSTANTS
    Assets,        \* ids NewID may produce
    Users,
    Role,          \* Role[u]: the role introspection gives for u
    Events,
    Organizer,     \* Organizer[e]: who fetchEvent names, None if not found
    Sizes,         \* sizes an upload request may declare
    MaxUploadSize, \* MaxUploadSizeBytes
    Requests,      \* goroutines that serve MarkUploaded, over all replicas
    Workers,       \* media-worker processes
    None

ASSUME MediaAssumptions ==
    /\ Role \in [Users -> {"USER", "ORGANIZER", "ADMIN"}]
    /\ Organizer \in [Events -> Users \cup {None}]
    /\ Sizes \subseteq Int
    /\ MaxUploadSize \in Nat
    /\ Requests \cap Workers = {}
    /\ None \notin Assets \cup Users \cup Requests \cup Workers \cup Int

Status == {"UPLOADING", "UPLOADED", "PROCESSING", "READY", "FAILED"}

Final == {"READY", "FAILED"}

\* What StatObject and the comparisons after it may come to.
Reasons == {"stat error", "object missing", "size mismatch"}

Asset == [uploader : Users,
          size     : 1 .. MaxUploadSize,
          status   : Status,
          reason   : Reasons \cup {None}]

ASSUME NoneIsNoAsset == None \notin Asset \cup Reasons \cup {"ok"}

VARIABLES
    rows,     \* table media_assets: a row, or None
    lock,     \* lock[a]: the transaction that holds the row lock of a
    object,   \* object[a]: size of the object under a's key, None if none
    open,     \* assets whose POST policy has not expired
    serving,  \* serving[r]: the asset a MarkUploaded request has locked
    claim,    \* claim[w]: where ProcessOne of worker w is
    replaced, \* history: assets whose object was posted again after a check
    lost      \* history: assets whose claim was lost

vars == <<rows, lock, object, open, serving, claim, replaced, lost>>

NoClaim == [asset |-> None, pc |-> "idle", info |-> None]

-----------------------------------------------------------------------------

CanPublishEvents(u) == Role[u] \in {"ORGANIZER", "ADMIN"}

CanAdmin(u) == Role[u] = "ADMIN"

\* Faulty variant: no upper bound.
ValidateNonEmpty(size) == size > 0

ValidateUpload(size) == size > 0 /\ size <= MaxUploadSize

AuthorizeCreateMedia(u, e) ==
    /\ CanPublishEvents(u)
    /\ Organizer[e] # None
    /\ CanAdmin(u) \/ Organizer[e] = u

ValidateTransition(from, to) ==
    <<from, to>> \in {<<"UPLOADING", "UPLOADED">>, <<"UPLOADING", "FAILED">>,
                      <<"UPLOADED", "PROCESSING">>, <<"UPLOADED", "FAILED">>,
                      <<"PROCESSING", "READY">>, <<"PROCESSING", "FAILED">>}

NewAsset(u, size) == [uploader |-> u, size |-> size, status |-> "UPLOADING",
                      reason |-> None]

\* Faulty variant: a plain SELECT.
NoRowLock(a) == a \in Assets

\* FOR UPDATE waits for the lock, FOR UPDATE SKIP LOCKED passes the row over.
RowLockFree(a) == lock[a] = None

Claimable(row) == row.status = "UPLOADED"

\* Faulty variant: the size is not compared.
CheckedForPresence(a) == IF object[a] = None THEN "object missing" ELSE "ok"

\* StatObject without an error, then the comparisons of ProcessOne.  The
\* content type cannot differ: the POST policy fixes it.
Checked(a) ==
    IF object[a] = None THEN "object missing"
    ELSE IF object[a] # rows[a].size THEN "size mismatch"
    ELSE "ok"

-----------------------------------------------------------------------------
(* The service.                                                            *)

CreateUpload(a) ==
    /\ rows[a] = None
    /\ \E u \in Users, e \in Events, size \in Sizes :
        /\ ValidateUpload(size)
        /\ AuthorizeCreateMedia(u, e)
        /\ rows' = [rows EXCEPT ![a] = NewAsset(u, size)]
    /\ open' = open \cup {a}
    /\ UNCHANGED <<lock, object, serving, claim, replaced, lost>>

\* MarkUploaded up to its decision: the lock, then the two checks.  A request
\* that fails them rolls back at once, and has changed nothing.
SelectForUpdate(r) ==
    \E a \in Assets, u \in Users :
        /\ serving[r] = None
        /\ rows[a] # None
        /\ RowLockFree(a)
        /\ rows[a].uploader = u
        /\ ValidateTransition(rows[a].status, "UPLOADED")
        /\ lock' = [lock EXCEPT ![a] = r]
        /\ serving' = [serving EXCEPT ![r] = a]
        /\ UNCHANGED <<rows, object, open, claim, replaced, lost>>

MarkUploaded(r) ==
    LET a == serving[r]
    IN  /\ a # None
        /\ rows' = [rows EXCEPT ![a].status = "UPLOADED"]
        /\ lock' = [lock EXCEPT ![a] = None]
        /\ serving' = [serving EXCEPT ![r] = None]
        /\ UNCHANGED <<object, open, claim, replaced, lost>>

\* An error, a lost connection or a crash before COMMIT.
Rollback(r) ==
    /\ serving[r] # None
    /\ lock' = [lock EXCEPT ![serving[r]] = None]
    /\ serving' = [serving EXCEPT ![r] = None]
    /\ UNCHANGED <<rows, object, open, claim, replaced, lost>>

-----------------------------------------------------------------------------
(* The browser and MinIO: the policy allows any number of posts of at most *)
(* the declared size until it expires.                                     *)

AfterCheck(a) ==
    rows[a].status \in Final \/ \E w \in Workers :
        claim[w].asset = a /\ claim[w].pc = "checked"

PostObject(a) ==
    /\ a \in open
    /\ \E size \in 1 .. rows[a].size : object' = [object EXCEPT ![a] = size]
    /\ replaced' = IF AfterCheck(a) THEN replaced \cup {a} ELSE replaced
    /\ UNCHANGED <<rows, lock, open, serving, claim, lost>>

ExpirePolicy(a) ==
    /\ a \in open
    /\ open' = open \ {a}
    /\ UNCHANGED <<rows, lock, object, serving, claim, replaced, lost>>

-----------------------------------------------------------------------------
(* The worker.                                                             *)

\* ORDER BY updated_at, id among the rows not locked just then: with SKIP
\* LOCKED any of them may come first.
SelectUploaded(w) ==
    /\ claim[w].pc = "idle"
    /\ \E a \in Assets :
        /\ rows[a] # None
        /\ Claimable(rows[a])
        /\ RowLockFree(a)
        /\ lock' = [lock EXCEPT ![a] = w]
        /\ claim' = [claim EXCEPT ![w] =
                        [asset |-> a, pc |-> "selected", info |-> None]]
    /\ UNCHANGED <<rows, object, open, serving, replaced, lost>>

ClaimNextUploaded(w) ==
    LET a == claim[w].asset
    IN  /\ claim[w].pc = "selected"
        /\ rows' = [rows EXCEPT ![a].status = "PROCESSING"]
        /\ lock' = [lock EXCEPT ![a] = None]
        /\ claim' = [claim EXCEPT ![w].pc = "claimed"]
        /\ UNCHANGED <<object, open, serving, replaced, lost>>

\* Faulty variant: ProcessOne returns and leaves its transaction open.
LeaveClaimOpen(w) ==
    /\ claim[w].pc = "selected"
    /\ claim' = [claim EXCEPT ![w] = NoClaim]
    /\ UNCHANGED <<rows, lock, object, open, serving, replaced, lost>>

RollbackClaim(w) ==
    /\ claim[w].pc = "selected"
    /\ lock' = [lock EXCEPT ![claim[w].asset] = None]
    /\ claim' = [claim EXCEPT ![w] = NoClaim]
    /\ UNCHANGED <<rows, object, open, serving, replaced, lost>>

StatObject(w) ==
    /\ claim[w].pc = "claimed"
    /\ \E info \in {"stat error", Checked(claim[w].asset)} :
        claim' = [claim EXCEPT ![w].pc = "checked", ![w].info = info]
    /\ UNCHANGED <<rows, lock, object, open, serving, replaced, lost>>

\* UPDATE ... WHERE id: it waits for nobody, as no transaction can have locked
\* an asset that is PROCESSING.
markFinal(w, status, reason) ==
    /\ rows' = [rows EXCEPT ![claim[w].asset].status = status,
                            ![claim[w].asset].reason = reason]
    /\ claim' = [claim EXCEPT ![w] = NoClaim]
    /\ UNCHANGED <<lock, object, open, serving, replaced, lost>>

MarkReady(w) ==
    /\ claim[w].pc = "checked"
    /\ claim[w].info = "ok"
    /\ markFinal(w, "READY", None)

MarkFailed(w) ==
    /\ claim[w].pc = "checked"
    /\ claim[w].info # "ok"
    /\ markFinal(w, "FAILED", claim[w].info)

\* The worker dies, or its mark fails and ProcessOne returns: no query looks
\* at PROCESSING rows again.
LoseClaim(w) ==
    /\ claim[w].pc \in {"claimed", "checked"}
    /\ lost' = lost \cup {claim[w].asset}
    /\ claim' = [claim EXCEPT ![w] = NoClaim]
    /\ UNCHANGED <<rows, lock, object, open, serving, replaced>>

-----------------------------------------------------------------------------

Init ==
    /\ rows = [a \in Assets |-> None]
    /\ lock = [a \in Assets |-> None]
    /\ object = [a \in Assets |-> None]
    /\ open = {}
    /\ serving = [r \in Requests |-> None]
    /\ claim = [w \in Workers |-> NoClaim]
    /\ replaced = {}
    /\ lost = {}

\* Users stop when they like; a worker's poll may find nothing.
Quiet ==
    /\ \A a \in Assets : rows[a] # None
    /\ \A w \in Workers : claim[w].pc = "idle"
    /\ UNCHANGED vars

ProcessOne(w) ==
    \/ SelectUploaded(w)
    \/ ClaimNextUploaded(w)
    \/ StatObject(w)
    \/ MarkReady(w)
    \/ MarkFailed(w)

Next ==
    \/ Quiet
    \/ \E a \in Assets : CreateUpload(a) \/ PostObject(a) \/ ExpirePolicy(a)
    \/ \E r \in Requests : SelectForUpdate(r) \/ MarkUploaded(r) \/ Rollback(r)
    \/ \E w \in Workers : ProcessOne(w) \/ RollbackClaim(w) \/ LoseClaim(w)

Spec == Init /\ [][Next]_vars

\* The worker polls every second for ever and its calls return; a transaction
\* that has selected its row does not roll back for ever.  A transaction of
\* the service ends one way or the other.
Fairness ==
    /\ \A w \in Workers : /\ WF_vars(ProcessOne(w))
                          /\ SF_vars(ClaimNextUploaded(w))
    /\ \A r \in Requests : WF_vars(MarkUploaded(r) \/ Rollback(r))

FairSpec == Spec /\ Fairness

-----------------------------------------------------------------------------
(* Properties.                                                             *)

\* Types of the table, the objects and the claims; no declared size gets past
\* ValidateUpload that the table or the policy could not hold.
TypeOK ==
    /\ rows \in [Assets -> Asset \cup {None}]
    /\ lock \in [Assets -> Requests \cup Workers \cup {None}]
    /\ object \in [Assets -> (1 .. MaxUploadSize) \cup {None}]
    /\ open \in SUBSET Assets
    /\ serving \in [Requests -> Assets \cup {None}]
    /\ claim \in [Workers -> [asset : Assets \cup {None},
                              pc : {"idle", "selected", "claimed", "checked"},
                              info : Reasons \cup {"ok", None}]]
    /\ replaced \in SUBSET Assets
    /\ lost \in SUBSET Assets

\* markFinal updates by id alone, and the commits of MarkUploaded and
\* ClaimNextUploaded write what an earlier statement decided: still every
\* change of a status is one ValidateTransition allows, so READY and FAILED
\* are final and a repeated MarkUploaded never takes an asset back.
StatusMovesForward ==
    [][\A a \in Assets :
          rows[a] # None /\ rows'[a] # rows[a] =>
              /\ rows'[a] # None
              /\ ValidateTransition(rows[a].status, rows'[a].status)]_vars

\* Two workers never process one asset, and a worker acts only on an asset
\* that is still PROCESSING.
OneWorkerPerAsset ==
    \A w \in Workers : claim[w].pc \in {"claimed", "checked"} =>
        /\ rows[claim[w].asset].status = "PROCESSING"
        /\ \A v \in Workers \ {w} : claim[v].asset # claim[w].asset

\* An asset is READY only if its object was whole when the worker looked: it
\* can differ now only through a later post under a policy still valid.
ReadyWasWhole ==
    \A a \in Assets : rows[a] # None /\ rows[a].status = "READY" =>
        object[a] = rows[a].size \/ (a \in replaced /\ object[a] # None)

HasStatus(a, statuses) == rows[a] # None /\ rows[a].status \in statuses

\* An asset marked uploaded is processed to the end, unless a worker lost it
\* between its claim and its mark.
EventuallyProcessed ==
    \A a \in Assets :
        HasStatus(a, {"UPLOADED"}) ~> (HasStatus(a, Final) \/ a \in lost)

=============================================================================
