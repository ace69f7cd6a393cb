------------------------ MODULE MediaPipelineProofs ------------------------
(***************************************************************************)
(* Proofs about MediaPipeline, for any assets, users, requests and workers *)
(* and any sizes.                                                          *)
(***************************************************************************)
EXTENDS MediaPipeline, TLAPS

\* A request past its locking SELECT owns the lock of an asset that is still
\* UPLOADING: its commit writes what it decided on.
ServingOK ==
    \A r \in Requests : serving[r] # None =>
        lock[serving[r]] = r /\ HasStatus(serving[r], {"UPLOADING"})

\* Where a worker is says what its asset is, and before the claim commits the
\* worker owns its lock.
ClaimOK(w) ==
    /\ claim[w].pc = "idle" <=> claim[w].asset = None
    /\ claim[w].pc = "selected" =>
          lock[claim[w].asset] = w /\ HasStatus(claim[w].asset, {"UPLOADED"})
    /\ claim[w].pc \in {"claimed", "checked"} =>
          HasStatus(claim[w].asset, {"PROCESSING"})

ClaimsOK == \A w \in Workers : ClaimOK(w)

ClaimsApart ==
    \A v, w \in Workers :
        v # w /\ claim[w].asset # None => claim[v].asset # claim[w].asset

PoliciesOK == \A a \in open : rows[a] # None

Whole(a) == object[a] = rows[a].size \/ (a \in replaced /\ object[a] # None)

\* A worker that is about to mark an asset READY has seen it whole.
CheckedWhole ==
    \A w \in Workers :
        claim[w].pc = "checked" /\ claim[w].info = "ok" => Whole(claim[w].asset)

Inv ==
    /\ TypeOK
    /\ ServingOK
    /\ ClaimsOK
    /\ ClaimsApart
    /\ PoliciesOK
    /\ CheckedWhole
    /\ ReadyWasWhole

\* What StatusMovesForward asks of one step.
Forward ==
    \A a \in Assets :
        rows[a] # None /\ rows'[a] # rows[a] =>
            /\ rows'[a] # None
            /\ ValidateTransition(rows[a].status, rows'[a].status)

-----------------------------------------------------------------------------
(* The steps.                                                              *)

\* A row is a record, never None, and has its fields.
LEMMA RowType ==
    ASSUME TypeOK, NEW a \in Assets, rows[a] # None
    PROVE  /\ rows[a] \in Asset
           /\ rows[a].size \in 1 .. MaxUploadSize
           /\ rows[a].status \in Status
BY DEF TypeOK, Asset

\* A new asset's row is well typed.
LEMMA NewAssetType ==
    ASSUME NEW u \in Users, NEW size \in Sizes, ValidateUpload(size)
    PROVE  /\ NewAsset(u, size) \in Asset
           /\ NewAsset(u, size) # None
           /\ NewAsset(u, size).status = "UPLOADING"
           /\ NewAsset(u, size).size = size
BY MediaAssumptions, NoneIsNoAsset DEF NewAsset, Asset, ValidateUpload, Status

\* What an UPDATE of one row's status, or status and reason, leaves.
LEMMA RowUpdate ==
    ASSUME TypeOK, NEW a \in Assets, rows[a] # None,
           NEW status \in Status, NEW reason \in Reasons \cup {None},
           \/ rows' = [rows EXCEPT ![a].status = status]
           \/ rows' = [rows EXCEPT ![a].status = status, ![a].reason = reason]
    PROVE  /\ rows' \in [Assets -> Asset \cup {None}]
           /\ rows'[a] # None
           /\ rows'[a].status = status
           /\ rows'[a].size = rows[a].size
           /\ \A b \in Assets \ {a} : rows'[b] = rows[b]
<1> DEFINE one == [rows[a] EXCEPT !.status = status]
           two == [rows[a] EXCEPT !.status = status, !.reason = reason]
<1>1. rows \in [Assets -> Asset \cup {None}] /\ rows[a] \in Asset
  BY RowType DEF TypeOK
<1>2. /\ one \in Asset /\ one.status = status /\ one.size = rows[a].size
      /\ two \in Asset /\ two.status = status /\ two.size = rows[a].size
  BY <1>1 DEF Asset
<1>3. rows' = [rows EXCEPT ![a] = one] \/ rows' = [rows EXCEPT ![a] = two]
  BY <1>1
<1> HIDE DEF one, two
<1> QED
  BY <1>1, <1>2, <1>3, NoneIsNoAsset

\* The empty table and bucket satisfy the invariant.
THEOREM InitInv == Init => Inv
<1> SUFFICES ASSUME Init PROVE Inv
  OBVIOUS
<1> USE DEF Init, NoClaim
<1>1. TypeOK
  BY MediaAssumptions DEF TypeOK
<1>2. ServingOK /\ ClaimsOK /\ ClaimsApart /\ PoliciesOK
  BY DEF ServingOK, ClaimsOK, ClaimOK, ClaimsApart, PoliciesOK
<1>3. CheckedWhole /\ ReadyWasWhole
  BY DEF CheckedWhole, ReadyWasWhole
<1> QED
  BY <1>1, <1>2, <1>3 DEF Inv

\* CreateUpload inserts the asset and signs its policy.
LEMMA CreateUploadStep ==
    ASSUME Inv, NEW a \in Assets, CreateUpload(a)
    PROVE  Inv' /\ Forward
<1> PICK row \in Asset : /\ row # None
                         /\ row.status = "UPLOADING"
                         /\ rows' = [rows EXCEPT ![a] = row]
  BY NewAssetType DEF CreateUpload
<1>a. TypeOK
  BY DEF Inv
<1>b. /\ rows[a] = None
      /\ open' = open \cup {a}
      /\ UNCHANGED <<lock, object, serving, claim, replaced, lost>>
  BY DEF CreateUpload
<1>c. /\ rows' \in [Assets -> Asset \cup {None}]
      /\ rows'[a] = row
      /\ \A b \in Assets \ {a} : rows'[b] = rows[b]
  BY <1>a DEF TypeOK
<1>d. \A w \in Workers : claim[w].pc # "idle" =>
          claim[w].asset \in Assets \ {a}
  BY <1>a, <1>b DEF Inv, TypeOK, ClaimsOK, ClaimOK, HasStatus
<1>1. TypeOK'
  BY <1>a, <1>b, <1>c DEF TypeOK
<1>2. ServingOK'
  BY <1>a, <1>b, <1>c DEF Inv, TypeOK, ServingOK, HasStatus
<1>3. ClaimsOK'
  BY <1>a, <1>b, <1>c, <1>d DEF Inv, ClaimsOK, ClaimOK, HasStatus
<1>4. ClaimsApart'
  BY <1>b DEF Inv, ClaimsApart
<1>5. PoliciesOK'
  BY <1>a, <1>b, <1>c DEF Inv, TypeOK, PoliciesOK
<1>6. CheckedWhole'
  BY <1>b, <1>c, <1>d DEF Inv, CheckedWhole, Whole
<1>7. ReadyWasWhole'
  BY <1>b, <1>c DEF Inv, ReadyWasWhole
<1>8. Forward
  BY <1>b, <1>c DEF Forward
<1> QED
  BY <1>1, <1>2, <1>3, <1>4, <1>5, <1>6, <1>7, <1>8 DEF Inv

\* CompleteUpload locks the asset's row.
LEMMA SelectForUpdateStep ==
    ASSUME Inv, NEW r \in Requests, SelectForUpdate(r)
    PROVE  Inv' /\ Forward
<1> USE DEF Inv, TypeOK, SelectForUpdate, RowLockFree, ValidateTransition
<1>1. TypeOK'
  BY MediaAssumptions, NoneIsNoAsset
<1>2. ServingOK'
  BY MediaAssumptions, NoneIsNoAsset DEF ServingOK, HasStatus
<1>3. ClaimsOK'
  BY MediaAssumptions, NoneIsNoAsset DEF ClaimsOK, ClaimOK, HasStatus
<1>4. ClaimsApart'
  BY MediaAssumptions, NoneIsNoAsset DEF ClaimsApart, ClaimsOK, ClaimOK, HasStatus
<1>5. PoliciesOK'
  BY MediaAssumptions, NoneIsNoAsset DEF PoliciesOK
<1>6. CheckedWhole'
  BY MediaAssumptions, NoneIsNoAsset DEF CheckedWhole, Whole, ClaimsOK, ClaimOK, HasStatus
<1>7. ReadyWasWhole'
  BY MediaAssumptions, NoneIsNoAsset DEF ReadyWasWhole, CheckedWhole, Whole
<1>8. Forward
  BY DEF Forward
<1> QED
  BY <1>1, <1>2, <1>3, <1>4, <1>5, <1>6, <1>7, <1>8

\* CompleteUpload commits the uploaded status.
LEMMA MarkUploadedStep ==
    ASSUME Inv, NEW r \in Requests, MarkUploaded(r)
    PROVE  Inv' /\ Forward
<1> DEFINE a == serving[r]
<1>a. TypeOK /\ a \in Assets /\ rows[a] # None /\ lock[a] = r
      /\ rows[a].status = "UPLOADING"
  BY DEF Inv, TypeOK, ServingOK, HasStatus, MarkUploaded
<1>b. /\ rows' = [rows EXCEPT ![a].status = "UPLOADED"]
      /\ lock' = [lock EXCEPT ![a] = None]
      /\ serving' = [serving EXCEPT ![r] = None]
      /\ UNCHANGED <<object, open, claim, replaced, lost>>
  BY DEF MarkUploaded
<1> HIDE DEF a
<1>c. /\ rows' \in [Assets -> Asset \cup {None}]
      /\ rows'[a] # None
      /\ rows'[a].status = "UPLOADED"
      /\ \A b \in Assets \ {a} : rows'[b] = rows[b]
  BY <1>a, <1>b, RowUpdate DEF Status
<1>d. \A q \in Requests \ {r} : serving'[q] = serving[q] /\ serving[q] # a
  BY <1>a, <1>b, MediaAssumptions DEF Inv, TypeOK, ServingOK
<1>e. \A w \in Workers : claim[w].pc # "idle" =>
          claim[w].asset \in Assets \ {a}
  BY <1>a, MediaAssumptions DEF Inv, TypeOK, ClaimsOK, ClaimOK, HasStatus
<1>f. serving'[r] = None /\ \A b \in Assets \ {a} : lock'[b] = lock[b]
  BY <1>a, <1>b DEF TypeOK
<1>1. TypeOK'
  BY <1>a, <1>b, <1>c DEF TypeOK
<1>2. ServingOK'
  BY <1>a, <1>c, <1>d, <1>f DEF Inv, TypeOK, ServingOK, HasStatus
<1>3. ClaimsOK'
  BY <1>b, <1>c, <1>e, <1>f DEF Inv, ClaimsOK, ClaimOK, HasStatus
<1>4. ClaimsApart'
  BY <1>b DEF Inv, ClaimsApart
<1>5. PoliciesOK'
  BY <1>a, <1>b, <1>c DEF Inv, TypeOK, PoliciesOK
<1>6. CheckedWhole'
  BY <1>b, <1>c, <1>e DEF Inv, CheckedWhole, Whole
<1>7. ReadyWasWhole'
  BY <1>b, <1>c DEF Inv, ReadyWasWhole
<1>8. Forward
  BY <1>a, <1>c DEF Forward, ValidateTransition
<1> QED
  BY <1>1, <1>2, <1>3, <1>4, <1>5, <1>6, <1>7, <1>8 DEF Inv

\* CompleteUpload rolls back.
LEMMA RollbackStep ==
    ASSUME Inv, NEW r \in Requests, Rollback(r)
    PROVE  Inv' /\ Forward
<1> USE DEF Inv, TypeOK, Rollback
<1>1. TypeOK'
  BY MediaAssumptions, NoneIsNoAsset
<1>2. ServingOK'
  BY MediaAssumptions, NoneIsNoAsset DEF ServingOK, HasStatus
<1>3. ClaimsOK'
  <2>1. \A w \in Workers : claim[w].pc = "selected" =>
            claim[w].asset \in Assets /\ claim[w].asset # serving[r]
    BY MediaAssumptions DEF ClaimsOK, ClaimOK, HasStatus, ServingOK
  <2>2. \A b \in Assets \ {serving[r]} : lock'[b] = lock[b]
    OBVIOUS
  <2> QED
    BY <2>1, <2>2 DEF ClaimsOK, ClaimOK, HasStatus
<1>4. ClaimsApart'
  BY MediaAssumptions, NoneIsNoAsset DEF ClaimsApart, ClaimsOK, ClaimOK, HasStatus
<1>5. PoliciesOK'
  BY MediaAssumptions, NoneIsNoAsset DEF PoliciesOK
<1>6. CheckedWhole'
  BY MediaAssumptions, NoneIsNoAsset DEF CheckedWhole, Whole, ClaimsOK, ClaimOK, HasStatus
<1>7. ReadyWasWhole'
  BY MediaAssumptions, NoneIsNoAsset DEF ReadyWasWhole, CheckedWhole, Whole
<1>8. Forward
  BY DEF Forward
<1> QED
  BY <1>1, <1>2, <1>3, <1>4, <1>5, <1>6, <1>7, <1>8

\* A client posts an object under a policy that has not expired.
LEMMA PostObjectStep ==
    ASSUME Inv, NEW a \in Assets, PostObject(a)
    PROVE  Inv' /\ Forward
<1> USE DEF Inv, TypeOK, PostObject, AfterCheck, Final
<1>1. TypeOK'
  <2>1. rows[a].size \in 1 .. MaxUploadSize
    BY RowType DEF PoliciesOK
  <2>2. object' \in [Assets -> (1 .. MaxUploadSize) \cup {None}]
    BY <2>1, MediaAssumptions
  <2> QED
    BY <2>2
<1>2. ServingOK'
  BY MediaAssumptions, NoneIsNoAsset DEF ServingOK, HasStatus
<1>3. ClaimsOK'
  BY MediaAssumptions, NoneIsNoAsset DEF ClaimsOK, ClaimOK, HasStatus
<1>4. ClaimsApart'
  BY MediaAssumptions, NoneIsNoAsset DEF ClaimsApart, ClaimsOK, ClaimOK, HasStatus
<1>5. PoliciesOK'
  BY MediaAssumptions, NoneIsNoAsset DEF PoliciesOK
<1>6. CheckedWhole'
  BY MediaAssumptions, NoneIsNoAsset DEF CheckedWhole, Whole, ClaimsOK, ClaimOK, HasStatus
<1>7. ReadyWasWhole'
  BY MediaAssumptions, NoneIsNoAsset DEF ReadyWasWhole, CheckedWhole, Whole
<1>8. Forward
  BY DEF Forward
<1> QED
  BY <1>1, <1>2, <1>3, <1>4, <1>5, <1>6, <1>7, <1>8

\* A policy expires.
LEMMA ExpirePolicyStep ==
    ASSUME Inv, NEW a \in Assets, ExpirePolicy(a)
    PROVE  Inv' /\ Forward
<1> USE DEF Inv, TypeOK, ExpirePolicy
<1>1. TypeOK'
  BY MediaAssumptions, NoneIsNoAsset
<1>2. ServingOK'
  BY MediaAssumptions, NoneIsNoAsset DEF ServingOK, HasStatus
<1>3. ClaimsOK'
  BY MediaAssumptions, NoneIsNoAsset DEF ClaimsOK, ClaimOK, HasStatus
<1>4. ClaimsApart'
  BY MediaAssumptions, NoneIsNoAsset DEF ClaimsApart, ClaimsOK, ClaimOK, HasStatus
<1>5. PoliciesOK'
  BY MediaAssumptions, NoneIsNoAsset DEF PoliciesOK
<1>6. CheckedWhole'
  BY MediaAssumptions, NoneIsNoAsset DEF CheckedWhole, Whole, ClaimsOK, ClaimOK, HasStatus
<1>7. ReadyWasWhole'
  BY MediaAssumptions, NoneIsNoAsset DEF ReadyWasWhole, CheckedWhole, Whole
<1>8. Forward
  BY DEF Forward
<1> QED
  BY <1>1, <1>2, <1>3, <1>4, <1>5, <1>6, <1>7, <1>8

\* The worker reads an asset to claim.
LEMMA SelectUploadedStep ==
    ASSUME Inv, NEW w \in Workers, SelectUploaded(w)
    PROVE  Inv' /\ Forward
<1> USE DEF Inv, TypeOK, SelectUploaded, Claimable, RowLockFree
<1>1. TypeOK'
  BY MediaAssumptions, NoneIsNoAsset
<1>2. ServingOK'
  BY MediaAssumptions, NoneIsNoAsset DEF ServingOK, HasStatus
<1>3. ClaimsOK'
  BY MediaAssumptions, NoneIsNoAsset DEF ClaimsOK, ClaimOK, HasStatus
<1>4. ClaimsApart'
  BY MediaAssumptions, NoneIsNoAsset DEF ClaimsApart, ClaimsOK, ClaimOK, HasStatus
<1>5. PoliciesOK'
  BY MediaAssumptions, NoneIsNoAsset DEF PoliciesOK
<1>6. CheckedWhole'
  BY MediaAssumptions, NoneIsNoAsset DEF CheckedWhole, Whole, ClaimsOK, ClaimOK, HasStatus
<1>7. ReadyWasWhole'
  BY MediaAssumptions, NoneIsNoAsset DEF ReadyWasWhole, CheckedWhole, Whole
<1>8. Forward
  BY DEF Forward
<1> QED
  BY <1>1, <1>2, <1>3, <1>4, <1>5, <1>6, <1>7, <1>8

\* The worker's claim commits.
LEMMA ClaimNextUploadedStep ==
    ASSUME Inv, NEW w \in Workers, ClaimNextUploaded(w)
    PROVE  Inv' /\ Forward
<1> DEFINE a == claim[w].asset
<1>a. TypeOK /\ a \in Assets /\ rows[a] # None /\ lock[a] = w
      /\ rows[a].status = "UPLOADED"
  BY DEF Inv, TypeOK, ClaimsOK, ClaimOK, HasStatus, ClaimNextUploaded
<1>b. /\ rows' = [rows EXCEPT ![a].status = "PROCESSING"]
      /\ lock' = [lock EXCEPT ![a] = None]
      /\ claim' = [claim EXCEPT ![w].pc = "claimed"]
      /\ UNCHANGED <<object, open, serving, replaced, lost>>
  BY DEF ClaimNextUploaded
<1>c. /\ claim'[w].pc = "claimed" /\ claim'[w].asset = a
      /\ \A v \in Workers \ {w} : claim'[v] = claim[v]
  BY <1>a, <1>b DEF TypeOK
<1>d. \A v \in Workers \ {w} : claim[v].asset # a
  BY <1>a, MediaAssumptions DEF Inv, ClaimsApart
<1> HIDE DEF a
<1>e. /\ rows' \in [Assets -> Asset \cup {None}]
      /\ rows'[a] # None
      /\ rows'[a].status = "PROCESSING"
      /\ \A b \in Assets \ {a} : rows'[b] = rows[b]
  BY <1>a, <1>b, RowUpdate DEF Status
<1>f. \A r \in Requests : serving[r] # a
  BY <1>a, MediaAssumptions DEF Inv, TypeOK, ServingOK
<1>g. \A b \in Assets \ {a} : lock'[b] = lock[b]
  BY <1>a, <1>b DEF TypeOK
<1>1. TypeOK'
  <2>1. claim' \in [Workers -> [asset : Assets \cup {None},
                               pc : {"idle", "selected", "claimed", "checked"},
                               info : Reasons \cup {"ok", None}]]
    BY <1>a, <1>b DEF TypeOK
  <2> QED
    BY <1>a, <1>b, <1>e, <2>1 DEF TypeOK
<1>2. ServingOK'
  BY <1>a, <1>b, <1>e, <1>f, <1>g DEF Inv, TypeOK, ServingOK, HasStatus
<1>3. ClaimsOK'
  <2>1. ASSUME NEW v \in Workers \ {w} PROVE ClaimOK(v)'
    BY <1>a, <1>c, <1>d, <1>e, <1>g DEF Inv, TypeOK, ClaimsOK, ClaimOK, HasStatus
  <2> QED
    BY <1>a, <1>c, <1>e, <2>1, MediaAssumptions DEF ClaimsOK, ClaimOK, HasStatus
<1>4. ClaimsApart'
  BY <1>c, <1>d DEF Inv, ClaimsApart, a
<1>5. PoliciesOK'
  BY <1>a, <1>b, <1>e DEF Inv, TypeOK, PoliciesOK
<1>6. CheckedWhole'
  BY <1>a, <1>b, <1>c, <1>d, <1>e, MediaAssumptions
     DEF Inv, TypeOK, ClaimsOK, ClaimOK, CheckedWhole, Whole
<1>7. ReadyWasWhole'
  BY <1>b, <1>e DEF Inv, ReadyWasWhole
<1>8. Forward
  BY <1>a, <1>e DEF Forward, ValidateTransition
<1> QED
  BY <1>1, <1>2, <1>3, <1>4, <1>5, <1>6, <1>7, <1>8 DEF Inv

\* The worker's claim rolls back.
LEMMA RollbackClaimStep ==
    ASSUME Inv, NEW w \in Workers, RollbackClaim(w)
    PROVE  Inv' /\ Forward
<1> USE DEF Inv, TypeOK, RollbackClaim, NoClaim
<1>1. TypeOK'
  BY MediaAssumptions, NoneIsNoAsset
<1>2. ServingOK'
  <2>1. \A r \in Requests : serving[r] # None =>
            serving[r] \in Assets /\ serving[r] # claim[w].asset
    BY MediaAssumptions DEF ClaimsOK, ClaimOK, HasStatus, ServingOK
  <2>2. \A b \in Assets \ {claim[w].asset} : lock'[b] = lock[b]
    OBVIOUS
  <2> QED
    BY <2>1, <2>2 DEF ServingOK, HasStatus
<1>3. ClaimsOK'
  BY MediaAssumptions, NoneIsNoAsset DEF ClaimsOK, ClaimOK, HasStatus
<1>4. ClaimsApart'
  BY MediaAssumptions, NoneIsNoAsset DEF ClaimsApart, ClaimsOK, ClaimOK, HasStatus
<1>5. PoliciesOK'
  BY MediaAssumptions, NoneIsNoAsset DEF PoliciesOK
<1>6. CheckedWhole'
  BY MediaAssumptions, NoneIsNoAsset DEF CheckedWhole, Whole, ClaimsOK, ClaimOK, HasStatus
<1>7. ReadyWasWhole'
  BY MediaAssumptions, NoneIsNoAsset DEF ReadyWasWhole, CheckedWhole, Whole
<1>8. Forward
  BY DEF Forward
<1> QED
  BY <1>1, <1>2, <1>3, <1>4, <1>5, <1>6, <1>7, <1>8

\* The worker inspects the object.
LEMMA StatObjectStep ==
    ASSUME Inv, NEW w \in Workers, StatObject(w)
    PROVE  Inv' /\ Forward
<1> DEFINE a == claim[w].asset
<1>a. TypeOK /\ claim[w].pc = "claimed" /\ a \in Assets
  BY DEF Inv, TypeOK, ClaimsOK, ClaimOK, StatObject
<1>p. PICK info \in {"stat error", Checked(a)} :
        claim' = [claim EXCEPT ![w].pc = "checked", ![w].info = info]
  BY DEF StatObject
<1>b. UNCHANGED <<rows, lock, object, open, serving, replaced, lost>>
  BY DEF StatObject
<1>c. /\ info \in Reasons \cup {"ok"}
      /\ info = "ok" => object[a] = rows[a].size
  BY <1>p DEF Checked, Reasons
<1>d. /\ claim'[w].pc = "checked" /\ claim'[w].info = info
      /\ claim'[w].asset = a
      /\ \A v \in Workers \ {w} : claim'[v] = claim[v]
  BY <1>a, <1>p DEF TypeOK
<1>e. \A v \in Workers \ {w} : claim[v].asset # a
  BY <1>a, MediaAssumptions DEF Inv, ClaimsApart
<1>1. TypeOK'
  <2>1. claim' \in [Workers -> [asset : Assets \cup {None},
                               pc : {"idle", "selected", "claimed", "checked"},
                               info : Reasons \cup {"ok", None}]]
    BY <1>a, <1>c, <1>p DEF TypeOK
  <2> QED
    BY <1>a, <1>b, <2>1 DEF TypeOK
<1>2. ServingOK'
  BY <1>b DEF Inv, ServingOK, HasStatus
<1>3. ClaimsOK'
  <2>1. ASSUME NEW v \in Workers \ {w} PROVE ClaimOK(v)'
    <3>1. ClaimOK(v) /\ claim'[v] = claim[v]
      BY <1>d DEF Inv, ClaimsOK
    <3> QED
      BY <1>b, <3>1 DEF ClaimOK, HasStatus
  <2>2. ClaimOK(w)'
    BY <1>a, <1>b, <1>d, MediaAssumptions DEF Inv, ClaimsOK, ClaimOK, HasStatus
  <2> QED
    BY <2>1, <2>2 DEF ClaimsOK
<1> HIDE DEF a
<1>4. ClaimsApart'
  BY <1>d, <1>e DEF Inv, ClaimsApart, a
<1>5. PoliciesOK'
  BY <1>b DEF Inv, PoliciesOK
<1>6. CheckedWhole'
  BY <1>b, <1>c, <1>d DEF Inv, CheckedWhole, Whole
<1>7. ReadyWasWhole'
  BY <1>b DEF Inv, ReadyWasWhole
<1>8. Forward
  BY <1>b DEF Forward
<1> QED
  BY <1>1, <1>2, <1>3, <1>4, <1>5, <1>6, <1>7, <1>8 DEF Inv

\* Both marks: the worker's own asset, which is PROCESSING, becomes final.
LEMMA markFinalStep ==
    ASSUME Inv, NEW w \in Workers, claim[w].pc = "checked",
           NEW status \in Final, NEW reason \in Reasons \cup {None},
           status = "READY" => claim[w].info = "ok",
           markFinal(w, status, reason)
    PROVE  Inv' /\ Forward
<1> DEFINE a == claim[w].asset
<1>a. TypeOK /\ a \in Assets /\ rows[a] # None
      /\ rows[a].status = "PROCESSING"
  BY DEF Inv, TypeOK, ClaimsOK, ClaimOK, HasStatus
<1>b. /\ rows' = [rows EXCEPT ![a].status = status, ![a].reason = reason]
      /\ claim' = [claim EXCEPT ![w] = NoClaim]
      /\ UNCHANGED <<lock, object, open, serving, replaced, lost>>
  BY DEF markFinal
<1>c. /\ claim'[w] = NoClaim
      /\ \A v \in Workers \ {w} : claim'[v] = claim[v]
  BY <1>a, <1>b DEF TypeOK
<1>d. \A v \in Workers \ {w} : claim[v].asset # a
  BY <1>a, MediaAssumptions DEF Inv, ClaimsApart
<1>e. status = "READY" => Whole(a)
  BY DEF Inv, CheckedWhole
<1> HIDE DEF a
<1>f. /\ rows' \in [Assets -> Asset \cup {None}]
      /\ rows'[a] # None
      /\ rows'[a].status = status
      /\ rows'[a].size = rows[a].size
      /\ \A b \in Assets \ {a} : rows'[b] = rows[b]
  BY <1>a, <1>b, RowUpdate DEF Status, Final
<1>g. \A r \in Requests : serving[r] # a
  BY <1>a, MediaAssumptions DEF Inv, ServingOK, HasStatus
<1>1. TypeOK'
  <2>1. claim' \in [Workers -> [asset : Assets \cup {None},
                               pc : {"idle", "selected", "claimed", "checked"},
                               info : Reasons \cup {"ok", None}]]
    BY <1>a, <1>b DEF TypeOK, NoClaim
  <2> QED
    BY <1>a, <1>b, <1>f, <2>1 DEF TypeOK
<1>2. ServingOK'
  BY <1>a, <1>b, <1>f, <1>g DEF Inv, TypeOK, ServingOK, HasStatus
<1>3. ClaimsOK'
  <2>1. ASSUME NEW v \in Workers \ {w} PROVE ClaimOK(v)'
    BY <1>a, <1>b, <1>c, <1>d, <1>f DEF Inv, TypeOK, ClaimsOK, ClaimOK, HasStatus
  <2> QED
    BY <1>c, <2>1 DEF ClaimsOK, ClaimOK, NoClaim
<1>4. ClaimsApart'
  BY <1>c DEF Inv, ClaimsApart, NoClaim
<1>5. PoliciesOK'
  BY <1>a, <1>b, <1>f DEF Inv, TypeOK, PoliciesOK
<1>6. CheckedWhole'
  BY <1>a, <1>b, <1>c, <1>d, <1>f, MediaAssumptions
     DEF Inv, TypeOK, ClaimsOK, ClaimOK, CheckedWhole, Whole, NoClaim
<1>7. ReadyWasWhole'
  BY <1>a, <1>b, <1>e, <1>f DEF Inv, ReadyWasWhole, Whole
<1>8. Forward
  BY <1>a, <1>f DEF Forward, ValidateTransition, Final
<1> QED
  BY <1>1, <1>2, <1>3, <1>4, <1>5, <1>6, <1>7, <1>8 DEF Inv

\* The worker commits a ready asset.
LEMMA MarkReadyStep ==
    ASSUME Inv, NEW w \in Workers, MarkReady(w)
    PROVE  Inv' /\ Forward
BY markFinalStep DEF MarkReady, Final

\* The worker commits a failed asset.
LEMMA MarkFailedStep ==
    ASSUME Inv, NEW w \in Workers, MarkFailed(w)
    PROVE  Inv' /\ Forward
<1>1. claim[w].info \in Reasons \cup {None}
  BY DEF Inv, TypeOK, MarkFailed
<1> QED
  BY <1>1, markFinalStep DEF MarkFailed, Final

\* The worker stops with its claim held.
LEMMA LoseClaimStep ==
    ASSUME Inv, NEW w \in Workers, LoseClaim(w)
    PROVE  Inv' /\ Forward
<1> USE DEF Inv, TypeOK, LoseClaim, NoClaim
<1>1. TypeOK'
  <2>1. claim[w].asset \in Assets
    BY DEF ClaimsOK, ClaimOK
  <2>2. claim' \in [Workers -> [asset : Assets \cup {None},
                               pc : {"idle", "selected", "claimed", "checked"},
                               info : Reasons \cup {"ok", None}]]
    BY DEF Reasons
  <2> QED
    BY <2>1, <2>2
<1>2. ServingOK'
  BY MediaAssumptions, NoneIsNoAsset DEF ServingOK, HasStatus
<1>3. ClaimsOK'
  BY MediaAssumptions, NoneIsNoAsset DEF ClaimsOK, ClaimOK, HasStatus
<1>4. ClaimsApart'
  BY MediaAssumptions, NoneIsNoAsset DEF ClaimsApart, ClaimsOK, ClaimOK, HasStatus
<1>5. PoliciesOK'
  BY MediaAssumptions, NoneIsNoAsset DEF PoliciesOK
<1>6. CheckedWhole'
  BY MediaAssumptions, NoneIsNoAsset DEF CheckedWhole, Whole, ClaimsOK, ClaimOK, HasStatus
<1>7. ReadyWasWhole'
  BY MediaAssumptions, NoneIsNoAsset DEF ReadyWasWhole, CheckedWhole, Whole
<1>8. Forward
  BY DEF Forward
<1> QED
  BY <1>1, <1>2, <1>3, <1>4, <1>5, <1>6, <1>7, <1>8

\* A stutter changes nothing.
LEMMA StutterStep ==
    ASSUME Inv, UNCHANGED vars
    PROVE  Inv' /\ Forward
BY DEF Inv, TypeOK, ServingOK, ClaimsOK, ClaimOK, ClaimsApart, PoliciesOK,
       CheckedWhole, ReadyWasWhole, Whole, HasStatus, Forward, vars

\* Every step of service, clients and workers keeps the invariant.
LEMMA NextStep ==
    ASSUME Inv, [Next]_vars
    PROVE  Inv' /\ Forward
<1>1. CASE Quiet \/ UNCHANGED vars
  BY <1>1, StutterStep DEF Quiet
<1>2. ASSUME NEW a \in Assets, CreateUpload(a) \/ PostObject(a) \/ ExpirePolicy(a)
      PROVE  Inv' /\ Forward
  BY <1>2, CreateUploadStep, PostObjectStep, ExpirePolicyStep
<1>3. ASSUME NEW r \in Requests,
             SelectForUpdate(r) \/ MarkUploaded(r) \/ Rollback(r)
      PROVE  Inv' /\ Forward
  BY <1>3, SelectForUpdateStep, MarkUploadedStep, RollbackStep
<1>4. ASSUME NEW w \in Workers,
             ProcessOne(w) \/ RollbackClaim(w) \/ LoseClaim(w)
      PROVE  Inv' /\ Forward
  BY <1>4, SelectUploadedStep, ClaimNextUploadedStep, StatObjectStep,
     MarkReadyStep, MarkFailedStep, RollbackClaimStep, LoseClaimStep
     DEF ProcessOne
<1> QED
  BY <1>1, <1>2, <1>3, <1>4 DEF Next

-----------------------------------------------------------------------------
(* The results.                                                            *)

\* Requests, workers and the browser keep the invariant whatever they do.
THEOREM Invariance == Spec => []Inv
<1>1. Inv /\ [Next]_vars => Inv'
  BY NextStep
<1> QED
  BY InitInv, <1>1, PTL DEF Spec

\* The tables and claims always have their types; no asset is larger than
\* ValidateUpload allows.
THEOREM TypeCorrect == Spec => []TypeOK
<1>1. Inv => TypeOK
  BY DEF Inv
<1> QED
  BY Invariance, <1>1, PTL

\* With any number of workers, no asset is ever processed by two of them, and
\* none is acted on that is not PROCESSING.
THEOREM ClaimsExclusive == Spec => []OneWorkerPerAsset
<1>1. Inv => OneWorkerPerAsset
  BY MediaAssumptions
     DEF Inv, ClaimsOK, ClaimOK, ClaimsApart, HasStatus, OneWorkerPerAsset
<1> QED
  BY Invariance, <1>1, PTL

\* What is READY was whole when the worker looked, whatever the browser posts.
THEOREM ReadyMeansWhole == Spec => []ReadyWasWhole
<1>1. Inv => ReadyWasWhole
  BY DEF Inv
<1> QED
  BY Invariance, <1>1, PTL

\* Marks without a guard on the status still follow ValidateTransition.
THEOREM StatusForward == Spec => StatusMovesForward
<1>1. Inv /\ [Next]_vars =>
        [\A a \in Assets :
            rows[a] # None /\ rows'[a] # rows[a] =>
                /\ rows'[a] # None
                /\ ValidateTransition(rows[a].status, rows'[a].status)]_vars
  BY NextStep DEF Forward
<1> QED
  BY Invariance, <1>1, PTL DEF Spec, StatusMovesForward

=============================================================================
