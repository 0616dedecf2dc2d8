--------------------------- MODULE DeliveryProofs ---------------------------
(***************************************************************************)
(* Proofs about the delivery pipeline, for every number of tasks, items,   *)
(* attempts, faults and kills.  The argument has three layers: what each   *)
(* ledger operation does to an item (Written, Quiet), what a step does to  *)
(* the ledger and to the task that takes it (LedgerStep, TaskStep), and    *)
(* the inductive invariant IInv, which these two lemmas preserve.  On top  *)
(* of IInv stand the count of acceptances (CountInv, StaleInv), what is    *)
(* known about uploads (UploadInv) and about attachments (StoreInv).       *)
(***************************************************************************)
EXTENDS DeliveryTypes, FiniteSetTheorems

-----------------------------------------------------------------------------
(* What the invariants look at in an item, after each ledger operation.    *)

(* claim_delivery_item, on the fields the invariants look at.              *)
LEMMA ClaimedEffect ==
  ASSUME NEW it \in Item, NEW p \in Nat
  PROVE  LET n == Claimed(it, p) IN
         /\ n.status = "sending"
         /\ n.retryable = it.retryable
         /\ n.token = it.token + 1
         /\ n.mat = it.mat
         /\ n.matRetry = it.matRetry
         /\ n.matToken = it.matToken
         /\ n.cache = p
  BY DEF Claimed, Item

(* record_delivery_item_upload, on the fields the invariants look at.      *)
LEMMA UploadRecordedEffect ==
  ASSUME NEW it \in Item, NEW s \in Stages
  PROVE  LET n == UploadRecorded(it, s) IN
         /\ n.status = it.status
         /\ n.retryable = it.retryable
         /\ n.token = it.token
         /\ n.mat = it.mat
         /\ n.matRetry = it.matRetry
         /\ n.matToken = it.matToken
         /\ n.cache = it.cache
  BY DEF UploadRecorded, Item

(* finish_delivery_stage, on the fields the invariants look at.            *)
LEMMA StageFinishedEffect ==
  ASSUME NEW it \in Item, NEW s, NEW b, NEW p
  PROVE  LET n == StageFinished(it, s, b, p) IN
         /\ n.status = it.status
         /\ n.retryable = it.retryable
         /\ n.token = it.token
         /\ n.mat = it.mat
         /\ n.matRetry = it.matRetry
         /\ n.matToken = it.matToken
         /\ n.cache = it.cache
  BY DEF StageFinished, Item

(* finish_delivery_item, on the fields the invariants look at.             *)
LEMMA ItemFinishedEffect ==
  ASSUME NEW it \in Item, NEW s, NEW b, NEW m, NEW p
  PROVE  LET n == ItemFinished(it, s, b, m, p) IN
         /\ n.status = s
         /\ n.retryable = b
         /\ n.token = it.token
         /\ n.mat = it.mat
         /\ n.matRetry = it.matRetry
         /\ n.matToken = it.matToken
         /\ n.cache = IF s = "succeeded" \/ ~b THEN NoFile ELSE it.cache
  BY DEF ItemFinished, Item

(* claim_delivery_materialization, on the fields the invariants look at.   *)
LEMMA MaterializationClaimedEffect ==
  ASSUME NEW it \in Item
  PROVE  LET n == MaterializationClaimed(it) IN
         /\ n.status = it.status
         /\ n.retryable = it.retryable
         /\ n.token = it.token
         /\ n.mat = "materializing"
         /\ n.matRetry = it.matRetry
         /\ n.matToken = it.matToken + 1
         /\ n.cache = it.cache
  BY DEF MaterializationClaimed, Item

(* finish_delivery_materialization (downloaded), on the fields the invariants look at.*)
LEMMA MaterializedEffect ==
  ASSUME NEW it \in Item, NEW f
  PROVE  LET n == Materialized(it, f) IN
         /\ n.status = "pending"
         /\ n.retryable
         /\ n.token = it.token
         /\ n.mat = "materialized"
         /\ n.matRetry
         /\ n.matToken = it.matToken
         /\ n.cache = f
  BY DEF Materialized, Item

(* finish_delivery_materialization (failed), on the fields the invariants look at.*)
LEMMA MaterializationFailedEffect ==
  ASSUME NEW it \in Item, NEW b, NEW m
  PROVE  LET n == MaterializationFailed(it, b, m) IN
         /\ n.status = "failed"
         /\ n.retryable = b
         /\ n.token = it.token
         /\ n.mat = "failed"
         /\ n.matRetry = b
         /\ n.matToken = it.matToken
         /\ n.cache = NoFile
  BY DEF MaterializationFailed, Item

-----------------------------------------------------------------------------
(* The inductive invariant                                                 *)

Underway == Busy \ {"persist"}
Ready == {"materialized", "not_required"}

(* An item is not sent before its attachment is there; a download in       *)
(* progress is never one of an item that failed for good.                  *)
GoodItem(it) ==
  /\ it.mat \notin Ready => it.cache = NoFile /\ it.status \in {"pending", "failed"}
  /\ it.mat \in {"pending", "materializing"} => it.retryable
  /\ it.mat = "failed" => it.retryable = it.matRetry
  /\ it.status = "sending" => it.token > 0

ItemInv == \A i \in Items : GoodItem(items[i])

(* Before a request is planned nothing of it is in the ledger.             *)
PlanInv == plan = NoPlan => \A i \in Items : items[i] = NewItem(i \in MediaItems)

(* A task works for the planned request, at an item all predecessors of    *)
(* which are delivered, with a token the ledger has issued.                *)
TaskOK(w) ==
  /\ pc[w] = "persist" => job[w].fp \in Fingerprints /\ job[w].item = 1
  /\ pc[w] \in Underway =>
       /\ plan # NoPlan /\ job[w].fp = plan
       /\ \A i \in 1 .. (job[w].item - 1) : items[i].status = "succeeded"
  /\ pc[w] = "cleanup" /\ job[w].result = "ok" => Current(w).status = "succeeded"
  /\ pc[w] = "respond" => job[w].item = N /\ Current(w).status = "succeeded"
  /\ pc[w] = "claim" => Current(w).mat \in Ready
  /\ pc[w] \in Holding => job[w].token <= Current(w).token

TaskInv == \A w \in Workers : TaskOK(w)

(* No token is issued twice.                                               *)
TokenInv ==
  \A v, w \in Workers :
    /\ v # w /\ pc[v] \in Holding /\ pc[w] \in Holding
    /\ job[v].item = job[w].item
    => job[v].token # job[w].token

IInv == TypeOK /\ ItemInv /\ PlanInv /\ TaskInv /\ TokenInv /\ ItemsInOrder /\ RecordIsTrue

-----------------------------------------------------------------------------
(* What one ledger operation may do to an item, and what a step that is    *)
(* not a task's own operation may do to any item.                          *)
Keeps(a, b) ==
  /\ b \in Item /\ GoodItem(b)
  /\ a.mat \in Ready => b.mat \in Ready
  /\ Final(a) => b.status = a.status /\ b.retryable = a.retryable

Written(a, b) ==
  /\ Keeps(a, b)
  /\ \/ b.token = a.token /\ Phase(b) = Phase(a)
     \/ b.token = a.token + 1 /\ Phase(a) \in {"open", "held"} /\ Phase(b) = "held"
     \/ b.token = a.token /\ Phase(a) = "held" /\ Phase(b) \in {"open", "done", "dead"}
     \/ b.token = a.token /\ Phase(a) = "open" /\ Phase(b) = "dead"

Quiet(a, b) ==
  /\ Keeps(a, b)
  /\ b.token = a.token /\ b.matToken = a.matToken
  /\ Phase(b) = Phase(a) \/ (a.status = "sending" /\ Phase(b) = "open")

(* A claim takes an item that is neither delivered nor given up.           *)
LEMMA ClaimedStep ==
  ASSUME NEW it \in Item, NEW p \in Nat, GoodItem(it), it.mat \in Ready,
         ClaimOutcome(it) = "claimed"
  PROVE  Written(it, Claimed(it, p))
<1>1. Claimed(it, p) \in Item  BY ClaimedType
<1>2. it.token \in Nat /\ it.retryable \in BOOLEAN /\ it.status \in Statuses  BY DEF Item
<1>3. QED
  BY <1>1, <1>2, ClaimedEffect
  DEF Written, Keeps, GoodItem, Phase, Final, Ready, ClaimOutcome, Statuses

(* A recorded upload changes nothing of the outcome.                       *)
LEMMA UploadRecordedStep ==
  ASSUME NEW it \in Item, NEW s \in Stages, GoodItem(it)
  PROVE  Written(it, UploadRecorded(it, s))
  BY UploadRecordedType, UploadRecordedEffect
  DEF Written, Keeps, GoodItem, Phase, Final

(* Neither does a finished stage.                                          *)
LEMMA StageFinishedStep ==
  ASSUME NEW it \in Item, NEW s \in Stages, NEW b \in BOOLEAN, NEW p, GoodItem(it)
  PROVE  Written(it, StageFinished(it, s, b, p))
  BY StageFinishedType, StageFinishedEffect
  DEF Written, Keeps, GoodItem, Phase, Final

(* A finished attempt ends the claim it was made under.                    *)
LEMMA ItemFinishedStep ==
  ASSUME NEW it \in Item, NEW s \in {"succeeded", "failed"}, NEW b \in BOOLEAN,
         NEW m \in Messages, NEW p \in Stages \cup {"none"}, GoodItem(it),
         it.status = "sending"
  PROVE  Written(it, ItemFinished(it, s, b, m, p))
<1>1. ItemFinished(it, s, b, m, p) \in Item  BY ItemFinishedType
<1>2. QED
  BY <1>1, ItemFinishedEffect
  DEF Written, Keeps, GoodItem, Phase, Final, Ready

(* A download starts only for an item that may still be delivered ...      *)
LEMMA MaterializationClaimedStep ==
  ASSUME NEW it \in Item, GoodItem(it), MaterializationOutcome(it) = "claimed"
  PROVE  Written(it, MaterializationClaimed(it))
<1>1. MaterializationClaimed(it) \in Item  BY MaterializationClaimedType
<1>2. it.mat \in MaterializationStatuses /\ it.retryable \in BOOLEAN  BY DEF Item
<1>3. QED
  BY <1>1, <1>2, MaterializationClaimedEffect
  DEF Written, Keeps, GoodItem, Phase, Final, Ready, MaterializationOutcome,
      MaterializationStatuses

(* ... so that its end, which overwrites the status, undoes no outcome.    *)
LEMMA MaterializedStep ==
  ASSUME NEW it \in Item, NEW f \in Nat, GoodItem(it), it.mat = "materializing"
  PROVE  Written(it, Materialized(it, f))
<1>1. Materialized(it, f) \in Item  BY MaterializedType
<1> DEFINE n == Materialized(it, f)
<1>2. /\ n.status = "pending" /\ n.retryable /\ n.mat = "materialized"
      /\ n.token = it.token
  BY MaterializedEffect
<1>3. it.status \in {"pending", "failed"} /\ it.retryable
  BY DEF GoodItem, Ready
<1> HIDE DEF n
<1>4. Phase(it) = "open" /\ Phase(n) = "open" /\ ~Final(it)
  BY <1>2, <1>3 DEF Phase, Final
<1>5. GoodItem(n) /\ n.mat \in Ready
  BY <1>2 DEF GoodItem, Ready
<1>6. QED BY <1>1, <1>2, <1>4, <1>5 DEF Written, Keeps, n

(* A failed download of an undecided item leaves it open or gives it up.   *)
LEMMA MaterializationFailedStep ==
  ASSUME NEW it \in Item, NEW b \in BOOLEAN, NEW m \in Messages, GoodItem(it),
         it.mat = "materializing"
  PROVE  Written(it, MaterializationFailed(it, b, m))
<1>1. MaterializationFailed(it, b, m) \in Item  BY MaterializationFailedType
<1>2. QED
  BY <1>1, MaterializationFailedEffect DEF Written, Keeps, GoodItem, Phase, Final, Ready

(* A reconciliation ends attempts but touches no outcome.                  *)
LEMMA ReconciledStep ==
  ASSUME NEW it \in Item, GoodItem(it)
  PROVE  Quiet(it, Reconciled(it))
<1> DEFINE x == [it EXCEPT !.cache = NoFile, !.status = "expired",
                           !.retryable = FALSE, !.error = "cache_expired",
                           !.leased = FALSE, !.old = FALSE]
           y == [it EXCEPT !.cache = NoFile, !.old = FALSE]
<1>1. Reconciled(it) \in Item  BY ReconciledType
<1>2. CASE Reconciled(it) = it
  BY <1>1, <1>2 DEF Quiet, Keeps, Final
<1>3. CASE Reconciled(it) = x /\ Discarded(it) /\ Expired(it)
  <2>1. /\ x.status = "expired" /\ x.retryable = FALSE /\ x.cache = NoFile
        /\ x.token = it.token /\ x.matToken = it.matToken /\ x.mat = it.mat
        /\ x.matRetry = it.matRetry
    BY DEF Item
  <2>2. it.cache # NoFile /\ it.retryable /\ it.status \in {"pending", "sending", "failed"}
    BY <1>3 DEF Discarded, Expired, RetryableState
  <2> HIDE DEF x
  <2>3. QED BY <1>1, <1>3, <2>1, <2>2 DEF Quiet, Keeps, GoodItem, Phase, Final, Ready
<1>4. CASE Reconciled(it) = y
  <2>1. /\ y.status = it.status /\ y.retryable = it.retryable /\ y.cache = NoFile
        /\ y.token = it.token /\ y.matToken = it.matToken /\ y.mat = it.mat
        /\ y.matRetry = it.matRetry
    BY DEF Item
  <2> HIDE DEF y
  <2>3. QED BY <1>1, <1>4, <2>1 DEF Quiet, Keeps, GoodItem, Phase, Final, Ready
<1>5. QED BY <1>2, <1>3, <1>4 DEF Reconciled

(* Time ends leases and ages items, and touches no outcome.                *)
LEMMA TimeStep ==
  ASSUME NEW it \in Item, GoodItem(it)
  PROVE  /\ Quiet(it, it)
         /\ Quiet(it, [it EXCEPT !.leased = FALSE])
         /\ Quiet(it, [it EXCEPT !.matLeased = FALSE])
         /\ Quiet(it, [it EXCEPT !.old = TRUE])
<1> DEFINE Same(n) == /\ n \in Item
                      /\ n.status = it.status /\ n.retryable = it.retryable
                      /\ n.cache = it.cache /\ n.token = it.token
                      /\ n.matToken = it.matToken /\ n.mat = it.mat
                      /\ n.matRetry = it.matRetry
<1>1. Same(it) /\ Same([it EXCEPT !.leased = FALSE])  BY DEF Item
<1>2. Same([it EXCEPT !.matLeased = FALSE])  BY DEF Item
<1>3. Same([it EXCEPT !.old = TRUE])  BY DEF Item
<1>4. ASSUME NEW n, Same(n) PROVE Quiet(it, n)
  BY <1>4 DEF Quiet, Keeps, GoodItem, Phase, Final
<1> HIDE DEF Same
<1>5. QED BY <1>1, <1>2, <1>3, <1>4

(* What a step does to the ledger: a task writes the item it is at, or     *)
(* every item changes only in ways that touch no outcome.                  *)
LedgerStep ==
  \/ \E w \in Workers :
       /\ pc[w] \in Underway
       /\ Written(Current(w), items'[job[w].item])
       /\ \A i \in Items \ {job[w].item} : items'[i] = items[i]
  \/ \A i \in Items : Quiet(items[i], items'[i])

(* A task that writes an allowed item takes a LedgerStep.                  *)
LEMMA SetItemStep ==
  ASSUME TypeOK, NEW w \in Workers, NEW n, SetItem(w, n), pc[w] \in Underway,
         Written(Current(w), n)
  PROVE  LedgerStep
<1>1. job[w].item \in Items  BY DEF TypeOK, Job
<1>2. /\ items'[job[w].item] = n
      /\ \A i \in Items \ {job[w].item} : items'[i] = items[i]
  BY <1>1 DEF SetItem, TypeOK
<1>3. QED BY <1>2 DEF LedgerStep

(* Leaving the ledger alone is a LedgerStep.                               *)
LEMMA StutterStep ==
  ASSUME TypeOK, ItemInv, UNCHANGED items
  PROVE  LedgerStep
<1>1. \A i \in Items : items[i] \in Item /\ GoodItem(items[i])  BY DEF TypeOK, ItemInv
<1>2. \A i \in Items : Quiet(items[i], items[i])  BY <1>1, TimeStep
<1>3. QED BY <1>2 DEF LedgerStep

(* The invariant makes every step a LedgerStep.                            *)
LEMMA NextLedger ==
  ASSUME IInv, [Next]_vars
  PROVE  LedgerStep
<1> USE DEF ledger, disk, budget, history
<1>1. TypeOK /\ ItemInv  BY DEF IInv
<1>2. \A i \in Items : items[i] \in Item /\ GoodItem(items[i])
  BY <1>1 DEF TypeOK, ItemInv
<1>3. \A w \in Workers : /\ job[w].item \in Items /\ Current(w) \in Item
                         /\ GoodItem(Current(w)) /\ job[w] \in Job
  BY <1>1, <1>2 DEF TypeOK, Job, Current
<1>4. \A w \in Workers : /\ job[w].path \in Nat /\ job[w].matToken \in Nat
                         /\ job[w].result \in Messages /\ job[w].stage \in Stages
                         /\ job[w].prepared \in Stages \cup {"none"}
  BY <1>3 DEF Job
<1>5. CASE UNCHANGED items
  BY <1>1, <1>5, StutterStep
<1>6. ASSUME NEW w \in Workers, PersistDeliveryPlan(w) PROVE LedgerStep
  <2>1. CASE plan = NoPlan /\ items' = [i \in Items |-> NewItem(i \in MediaItems)]
    <3>1. \A i \in Items : items'[i] = items[i]  BY <2>1 DEF IInv, PlanInv
    <3>2. \A i \in Items : Quiet(items[i], items'[i])  BY <3>1, <1>2, TimeStep
    <3>3. QED BY <3>2 DEF LedgerStep
  <2>2. QED BY <1>5, <1>6, <2>1 DEF PersistDeliveryPlan
<1>7. ASSUME NEW w \in Workers, ClaimMaterialization(w) PROVE LedgerStep
  <2>1. CASE /\ MaterializationOutcome(Current(w)) = "claimed"
             /\ SetItem(w, MaterializationClaimed(Current(w)))
    <3>1. Written(Current(w), MaterializationClaimed(Current(w)))
      BY <1>3, <2>1, MaterializationClaimedStep
    <3>2. pc[w] \in Underway  BY <1>7 DEF ClaimMaterialization, Underway, Busy
    <3>3. QED BY <1>1, <2>1, <3>1, <3>2, SetItemStep
  <2>2. QED BY <1>5, <1>7, <2>1 DEF ClaimMaterialization
<1>8. ASSUME NEW w \in Workers, FinishMaterialization(w) PROVE LedgerStep
  <2> DEFINE n == Materialized(Current(w), job[w].matToken)
             f == MaterializationFailed(Current(w),
                    MaterializationRetryable(job[w].result), job[w].result)
  <2>1. pc[w] \in Underway  BY <1>8 DEF FinishMaterialization, Underway, Busy
  <2>2. CASE ActiveMaterialization(Current(w), job[w].matToken) /\ SetItem(w, n)
    <3>1. Written(Current(w), n)
      BY <1>3, <1>4, <2>2, MaterializedStep DEF ActiveMaterialization
    <3>2. QED BY <1>1, <2>1, <2>2, <3>1, SetItemStep
  <2>3. CASE ActiveMaterialization(Current(w), job[w].matToken) /\ SetItem(w, f)
    <3>1. MaterializationRetryable(job[w].result) \in BOOLEAN
      BY DEF MaterializationRetryable, MapDeliveryFailure
    <3>2. Written(Current(w), f)
      BY <1>3, <1>4, <2>3, <3>1, MaterializationFailedStep DEF ActiveMaterialization
    <3>3. QED BY <1>1, <2>1, <2>3, <3>2, SetItemStep
  <2>4. QED BY <1>5, <1>8, <2>2, <2>3 DEF FinishMaterialization
<1>9. ASSUME NEW w \in Workers, ClaimDeliveryItem(w) PROVE LedgerStep
  <2>1. CASE /\ ClaimOutcome(Current(w)) = "claimed"
             /\ SetItem(w, Claimed(Current(w), job[w].path))
    <3>1. pc[w] = "claim"  BY <1>9 DEF ClaimDeliveryItem
    <3>2. Current(w).mat \in Ready  BY <3>1 DEF IInv, TaskInv, TaskOK
    <3>3. Written(Current(w), Claimed(Current(w), job[w].path))
      BY <1>3, <1>4, <2>1, <3>2, ClaimedStep
    <3>4. pc[w] \in Underway  BY <3>1 DEF Underway, Busy
    <3>5. QED BY <1>1, <2>1, <3>3, <3>4, SetItemStep
  <2>2. QED BY <1>5, <1>9, <2>1 DEF ClaimDeliveryItem
<1>10. ASSUME NEW w \in Workers, PrepareOutbound(w) PROVE LedgerStep
  <2>1. CASE SetItem(w, UploadRecorded(Current(w), job[w].stage))
    <3>1. Written(Current(w), UploadRecorded(Current(w), job[w].stage))
      BY <1>3, <1>4, UploadRecordedStep
    <3>2. pc[w] \in Underway  BY <1>10 DEF PrepareOutbound, Underway, Busy
    <3>3. QED BY <1>1, <2>1, <3>1, <3>2, SetItemStep
  <2>2. QED BY <1>5, <1>10, <2>1 DEF PrepareOutbound
<1>11. ASSUME NEW w \in Workers, FinishDeliveryStage(w) PROVE LedgerStep
  <2> DEFINE u == job[w].result = "unsupported"
             n == StageFinished(Current(w), job[w].stage, u, job[w].prepared)
  <2>1. CASE SetItem(w, n)
    <3>1. CASE job[w].result = "unsupported"
      <4>1. Written(Current(w), n)  BY <3>1, <1>3, <1>4, StageFinishedStep
      <4>2. pc[w] \in Underway  BY <1>11 DEF FinishDeliveryStage, Underway, Busy
      <4>3. QED BY <1>1, <2>1, <4>1, <4>2, SetItemStep
    <3>2. CASE job[w].result # "unsupported"
      <4>1. Written(Current(w), n)  BY <3>2, <1>3, <1>4, StageFinishedStep
      <4>2. pc[w] \in Underway  BY <1>11 DEF FinishDeliveryStage, Underway, Busy
      <4>3. QED BY <1>1, <2>1, <4>1, <4>2, SetItemStep
    <3>3. QED BY <3>1, <3>2
  <2>2. QED BY <1>5, <1>11, <2>1 DEF FinishDeliveryStage
<1>12. ASSUME NEW w \in Workers, FinishDeliveryItem(w) PROVE LedgerStep
  <2> DEFINE ok == job[w].result = "ok"
             retryable == ~ok /\ MapDeliveryFailure(job[w].result)
             status == IF ok THEN "succeeded" ELSE "failed"
             n == ItemFinished(Current(w), status, retryable, job[w].result,
                               job[w].prepared)
  <2>1. CASE ActiveClaim(Current(w), job[w].token) /\ SetItem(w, n)
    <3>1. retryable \in BOOLEAN /\ status \in {"succeeded", "failed"}
      BY DEF MapDeliveryFailure
    <3>2. Current(w).status = "sending"  BY <2>1 DEF ActiveClaim
    <3> HIDE DEF retryable, status
    <3>3. Written(Current(w), n)
      BY <1>3, <1>4, <3>1, <3>2, ItemFinishedStep
    <3>4. pc[w] \in Underway  BY <1>12 DEF FinishDeliveryItem, Underway, Busy
    <3>5. QED BY <1>1, <2>1, <3>3, <3>4, SetItemStep
  <2>2. CASE UNCHANGED items  BY <2>2, <1>5
  <2>3. QED BY <1>12, <2>1, <2>2 DEF FinishDeliveryItem
<1>13. ASSUME NEW w \in Workers, Start(w) PROVE LedgerStep
  <2>1. \A i \in Items : Quiet(items[i], Reconciled(items[i]))
    BY <1>2, ReconciledStep
  <2>2. QED BY <1>13, <2>1 DEF Start, LedgerStep
<1>14. ASSUME NEW i \in Items, LeaseExpires(i) \/ MaterializationLeaseExpires(i)
       PROVE  LedgerStep
  <2>1. \A j \in Items : \/ items'[j] = items[j]
                         \/ items'[j] = [items[j] EXCEPT !.leased = FALSE]
                         \/ items'[j] = [items[j] EXCEPT !.matLeased = FALSE]
    BY <1>1, <1>14 DEF LeaseExpires, MaterializationLeaseExpires, TypeOK
  <2>2. \A j \in Items : Quiet(items[j], items'[j])  BY <1>2, <2>1, TimeStep
  <2>3. QED BY <2>2 DEF LedgerStep
<1>15. CASE DayPasses
  <2>1. \A j \in Items : items'[j] = [items[j] EXCEPT !.old = TRUE]
    BY <1>15 DEF DayPasses
  <2>2. \A j \in Items : Quiet(items[j], items'[j])  BY <1>2, <2>1, TimeStep
  <2>3. QED BY <2>2 DEF LedgerStep
<1>16. ASSUME NEW w \in Workers, Step(w) PROVE LedgerStep
  BY <1>5, <1>6, <1>7, <1>8, <1>9, <1>10, <1>11, <1>12, <1>13, <1>16
  DEF Step, AuthorizeDownload, Download, Authorize, AuthorizePrepared,
      SendOutbound, CleanupAttachmentCache, SaveDeliveryRecord, Sweep
<1>17. QED
  BY <1>5, <1>14, <1>15, <1>16
  DEF Next, vars, HandleNotification, RetryPendingDeliveries, Crash, Revoke

-----------------------------------------------------------------------------
(* What a step does to the task that takes it: the task is done or gone,   *)
(* starts, enters the plan, goes on at its item, or goes on to the next.   *)
Starts(w) == pc'[w] = "persist" /\ job'[w].fp \in Fingerprints /\ job'[w].item = 1

Enters(w) == /\ pc[w] = "persist" /\ pc'[w] = "materialize"
             /\ job'[w] = job[w] /\ plan' = job[w].fp

GoesOn(w) ==
  LET now == items'[job[w].item] IN
  /\ pc[w] \in Underway /\ pc'[w] \in Underway
  /\ job'[w].item = job[w].item /\ job'[w].fp = job[w].fp
  /\ pc'[w] = "cleanup" /\ job'[w].result = "ok" => now.status = "succeeded"
  /\ pc'[w] = "respond" => job[w].item = N /\ now.status = "succeeded"
  /\ pc'[w] = "claim" => now.mat \in Ready
  /\ pc'[w] \in Holding =>
       \/ pc[w] \in Holding /\ job'[w].token = job[w].token
       \/ pc[w] = "claim" /\ job'[w].token = Current(w).token + 1
                          /\ now.token = Current(w).token + 1

Advances(w) ==
  /\ pc[w] \in Underway /\ pc'[w] = "materialize"
  /\ job'[w].item = job[w].item + 1 /\ job'[w].fp = job[w].fp
  /\ items'[job[w].item].status = "succeeded"

Moved(w) ==
  \/ pc'[w] \notin Busy
  \/ Starts(w) \/ Enters(w) \/ GoesOn(w) \/ Advances(w)

Still(v) == pc'[v] = pc[v] /\ job'[v] = job[v]

TaskStep ==
  \/ \A v \in Workers : Still(v)
  \/ \E w \in Workers : Moved(w) /\ \A v \in Workers \ {w} : Still(v)

(* A task that returns.                                                    *)
LEMMA ReturnMoves ==
  ASSUME TypeOK, NEW w \in Workers, Return(w)
  PROVE  Moved(w) /\ \A v \in Workers \ {w} : Still(v)
  BY DEF TypeOK, Return, Goto, Moved, Still, Busy

(* A task that has delivered its item.                                     *)
LEMMA NextItemMoves ==
  ASSUME TypeOK, NEW w \in Workers, NextItem(w), pc[w] \in Underway,
         items'[job[w].item].status = "succeeded"
  PROVE  Moved(w) /\ \A v \in Workers \ {w} : Still(v)
<1>1. CASE /\ Goto(w, "materialize")
           /\ job' = [job EXCEPT ![w] = [NoJob EXCEPT !.fp = job[w].fp,
                                                      !.origin = job[w].origin,
                                                      !.item = job[w].item + 1]]
  <2> DEFINE n == [NoJob EXCEPT !.fp = job[w].fp, !.origin = job[w].origin,
                                !.item = job[w].item + 1]
  <2>1. n.fp = job[w].fp /\ n.item = job[w].item + 1
    BY DEF NoJob
  <2>2. job' = [job EXCEPT ![w] = n]  BY <1>1
  <2> HIDE DEF n
  <2>3. job'[w] = n /\ pc'[w] = "materialize" /\ \A v \in Workers \ {w} : Still(v)
    BY <1>1, <2>2 DEF TypeOK, Goto, Still
  <2>4. QED BY <2>1, <2>3 DEF Moved, Advances
<1>2. CASE job[w].item = N /\ Goto(w, "respond") /\ UNCHANGED job
  <2>1. pc'[w] = "respond" /\ \A v \in Workers \ {w} : Still(v)
    BY <1>2 DEF TypeOK, Goto, Still
  <2>2. GoesOn(w)
    BY <1>2, <2>1 DEF GoesOn, Underway, Busy, Holding
  <2>3. QED BY <2>1, <2>2 DEF Moved
<1>3. CASE Return(w)  BY <1>3, ReturnMoves
<1>4. QED BY <1>1, <1>2, <1>3 DEF NextItem

(* A task that keeps its item and goes somewhere no promise is attached    *)
(* to, or keeps its claim.                                                 *)
LEMMA PlainMoves ==
  ASSUME TypeOK, NEW w \in Workers, pc[w] \in Underway, NEW to, Goto(w, to),
         to \in {"authorize_download", "download", "finish_materialization"}
           \/ (pc[w] \in Holding /\ to \in Holding),
         /\ job'[w].item = job[w].item /\ job'[w].fp = job[w].fp
         /\ job'[w].token = job[w].token,
         \A v \in Workers \ {w} : job'[v] = job[v]
  PROVE  Moved(w) /\ \A v \in Workers \ {w} : Still(v)
<1>1. pc'[w] = to /\ \A v \in Workers \ {w} : Still(v)
  BY DEF TypeOK, Goto, Still
<1>2. to \in Underway /\ to \notin {"cleanup", "respond", "claim"}
  BY DEF Underway, Busy, Holding
<1>3. GoesOn(w)
  BY <1>1, <1>2 DEF GoesOn, Holding
<1>4. QED BY <1>1, <1>3 DEF Moved

(* Assignments to a task's memory leave its item, request and token.       *)
LEMMA JobFrame ==
  ASSUME TypeOK, NEW w \in Workers
  PROVE  LET Same(j) == /\ j[w].item = job[w].item /\ j[w].fp = job[w].fp
                        /\ j[w].token = job[w].token
                        /\ \A v \in Workers \ {w} : j[v] = job[v]
         IN  /\ Same(job)
             /\ \A m : Same([job EXCEPT ![w].result = m])
             /\ \A m : Same([job EXCEPT ![w].path = m])
             /\ \A m : Same([job EXCEPT ![w].matToken = m])
             /\ \A m : Same([job EXCEPT ![w].prepared = m])
             /\ \A m : Same([job EXCEPT ![w].cleanup = m])
<1>1. job \in [Workers -> Job] /\ job[w] \in Job  BY DEF TypeOK
<1> DEFINE Same(j) == /\ j[w].item = job[w].item /\ j[w].fp = job[w].fp
                      /\ j[w].token = job[w].token
                      /\ \A v \in Workers \ {w} : j[v] = job[v]
<1>2. Same(job)  OBVIOUS
<1>3. \A m : Same([job EXCEPT ![w].result = m])  BY <1>1 DEF Job
<1>4. \A m : Same([job EXCEPT ![w].path = m])  BY <1>1 DEF Job
<1>5. \A m : Same([job EXCEPT ![w].matToken = m])  BY <1>1 DEF Job
<1>6. \A m : Same([job EXCEPT ![w].prepared = m])  BY <1>1 DEF Job
<1>7. \A m : Same([job EXCEPT ![w].cleanup = m])  BY <1>1 DEF Job
<1>8. QED BY <1>2, <1>3, <1>4, <1>5, <1>6, <1>7

(* The invariant makes every step a TaskStep.                              *)
LEMMA NextTasks ==
  ASSUME IInv, [Next]_vars
  PROVE  TaskStep
<1> USE DEF ledger, disk, budget, history
<1> DEFINE Took(w) == Moved(w) /\ \A v \in Workers \ {w} : Still(v)
<1> SUFFICES (\A v \in Workers : Still(v)) \/ \E w \in Workers : Took(w)
  BY DEF TaskStep
<1>1. TypeOK  BY DEF IInv
<1>2. \A w \in Workers : /\ job[w].item \in Items /\ Current(w) \in Item
                         /\ job[w] \in Job /\ job[w].matToken \in Nat
                         /\ Current(w) = items[job[w].item]
                         /\ job[w].path \in Nat
  BY <1>1 DEF TypeOK, Job, Current
<1>3. CASE UNCHANGED <<pc, job>>
  BY <1>3 DEF Still
<1>4. ASSUME NEW w \in Workers, NEW fp \in Fingerprints, HandleNotification(w, fp)
      PROVE  Took(w)
  <2> DEFINE n == [NoJob EXCEPT !.fp = fp, !.origin = "notification"]
  <2>1. n.fp = fp /\ n.item = 1  BY DEF NoJob
  <2>2. job' = [job EXCEPT ![w] = n] /\ pc' = [pc EXCEPT ![w] = "persist"]
    BY <1>4 DEF HandleNotification, Goto
  <2> HIDE DEF n
  <2>3. QED BY <1>1, <2>1, <2>2 DEF TypeOK, Moved, Starts, Still
<1>5. ASSUME NEW w \in Workers, RetryPendingDeliveries(w) PROVE Took(w)
  <2> DEFINE n == [NoJob EXCEPT !.fp = plan]
  <2>1. n.fp = plan /\ n.item = 1  BY DEF NoJob
  <2>2. /\ job' = [job EXCEPT ![w] = n] /\ pc' = [pc EXCEPT ![w] = "persist"]
        /\ plan # NoPlan
    BY <1>5 DEF RetryPendingDeliveries, Goto
  <2> HIDE DEF n
  <2>3. QED BY <1>1, <2>1, <2>2 DEF TypeOK, Moved, Starts, Still
<1>6. ASSUME NEW w \in Workers, PersistDeliveryPlan(w) PROVE Took(w)
  <2>1. CASE Goto(w, "materialize") /\ job' = job /\ plan' = job[w].fp
    BY <1>1, <1>6, <2>1 DEF PersistDeliveryPlan, TypeOK, Goto, Moved, Enters, Still
  <2>2. CASE Return(w)  BY <1>1, <2>2, ReturnMoves
  <2>3. QED BY <1>6, <2>1, <2>2 DEF PersistDeliveryPlan
<1>7. ASSUME NEW w \in Workers, ClaimMaterialization(w) PROVE Took(w)
  <2>1. pc[w] \in Underway  BY <1>7 DEF ClaimMaterialization, Underway, Busy
  <2>2. CASE /\ MaterializationOutcome(Current(w)) = "materialized"
             /\ Goto(w, "claim")
             /\ job' = [job EXCEPT ![w].path = Current(w).path]
             /\ UNCHANGED items
    <3>1. Current(w).mat \in Ready
      BY <2>2 DEF MaterializationOutcome, Ready
    <3>2. /\ job'[w].item = job[w].item /\ job'[w].fp = job[w].fp
          /\ \A v \in Workers \ {w} : job'[v] = job[v]
      BY <1>1, <2>2, JobFrame
    <3>3. pc'[w] = "claim" /\ \A v \in Workers \ {w} : pc'[v] = pc[v]
      BY <1>1, <2>2 DEF Goto, TypeOK
    <3>4. GoesOn(w)
      BY <1>2, <2>1, <2>2, <3>1, <3>2, <3>3 DEF GoesOn, Underway, Busy, Holding
    <3>5. QED BY <3>2, <3>3, <3>4 DEF Moved, Still
  <2>3. CASE Return(w)  BY <1>1, <2>3, ReturnMoves
  <2>4. CASE /\ job' = [job EXCEPT ![w].matToken = Current(w).matToken + 1]
             /\ Goto(w, IF WhatsApp THEN "authorize_download" ELSE "download")
    <3>1. /\ job'[w].item = job[w].item /\ job'[w].fp = job[w].fp
          /\ job'[w].token = job[w].token
          /\ \A v \in Workers \ {w} : job'[v] = job[v]
      BY <1>1, <2>4, JobFrame
    <3>2. QED BY <1>1, <2>1, <2>4, <3>1, PlainMoves
  <2>5. QED BY <1>7, <2>2, <2>3, <2>4 DEF ClaimMaterialization
<1>8. ASSUME NEW w \in Workers, NEW to, Goto(w, to), pc[w] \in Underway,
             to \in {"authorize_download", "download", "finish_materialization"}
               \/ (pc[w] \in Holding /\ to \in Holding),
             \/ job' = job
             \/ \E m : job' = [job EXCEPT ![w].result = m]
             \/ \E m : job' = [job EXCEPT ![w].prepared = m]
             \/ \E p, m : job' = [job EXCEPT ![w].prepared = p, ![w].result = m]
             \/ \E s, p : job' = [job EXCEPT ![w].stage = s, ![w].prepared = p]
      PROVE  Took(w)
  <2>1. /\ job'[w].item = job[w].item /\ job'[w].fp = job[w].fp
        /\ job'[w].token = job[w].token
        /\ \A v \in Workers \ {w} : job'[v] = job[v]
    <3>1. CASE job' = job  BY <3>1
    <3>2. CASE \E m : job' = [job EXCEPT ![w].result = m]
      BY <1>1, <3>2, JobFrame
    <3>3. CASE \E m : job' = [job EXCEPT ![w].prepared = m]
      BY <1>1, <3>3, JobFrame
    <3>4. CASE \E p, m : job' = [job EXCEPT ![w].prepared = p, ![w].result = m]
      BY <1>1, <1>2, <3>4 DEF Job, TypeOK
    <3>5. CASE \E s, p : job' = [job EXCEPT ![w].stage = s, ![w].prepared = p]
      BY <1>1, <1>2, <3>5 DEF Job, TypeOK
    <3>6. QED BY <1>8, <3>1, <3>2, <3>3, <3>4, <3>5
  <2>2. QED BY <1>1, <1>8, <2>1, PlainMoves
<1>9. ASSUME NEW w \in Workers, AuthorizeDownload(w) PROVE Took(w)
  BY <1>8, <1>9 DEF AuthorizeDownload, Underway, Busy
<1>10. ASSUME NEW w \in Workers, Download(w) PROVE Took(w)
  BY <1>8, <1>10 DEF Download, Underway, Busy
<1>11. ASSUME NEW w \in Workers, FinishMaterialization(w) PROVE Took(w)
  <2> DEFINE n == Materialized(Current(w), job[w].matToken)
  <2>1. CASE /\ SetItem(w, n) /\ Goto(w, "claim")
             /\ job' = [job EXCEPT ![w].path = job[w].matToken]
    <3>1. items'[job[w].item].mat \in Ready
      <4>1. n.mat = "materialized"  BY <1>2, MaterializedEffect
      <4>2. items'[job[w].item] = n  BY <1>1, <1>2, <2>1 DEF SetItem, TypeOK
      <4>3. QED BY <4>1, <4>2 DEF Ready
    <3>2. /\ job'[w].item = job[w].item /\ job'[w].fp = job[w].fp
          /\ \A v \in Workers \ {w} : job'[v] = job[v]
      BY <1>1, <2>1, JobFrame
    <3>3. pc'[w] = "claim" /\ \A v \in Workers \ {w} : pc'[v] = pc[v]
      BY <1>1, <2>1 DEF Goto, TypeOK
    <3>4. pc[w] \in Underway  BY <1>11 DEF FinishMaterialization, Underway, Busy
    <3>5. GoesOn(w)
      BY <3>1, <3>2, <3>3, <3>4 DEF GoesOn, Underway, Busy, Holding
    <3>6. QED BY <3>2, <3>3, <3>5 DEF Moved, Still
  <2>2. CASE Return(w)  BY <1>1, <2>2, ReturnMoves
  <2>3. QED BY <1>11, <2>1, <2>2 DEF FinishMaterialization
<1>12. ASSUME NEW w \in Workers, ClaimDeliveryItem(w) PROVE Took(w)
  <2>1. pc[w] = "claim" /\ pc[w] \in Underway
    BY <1>12 DEF ClaimDeliveryItem, Underway, Busy
  <2>2. CASE ClaimOutcome(Current(w)) = "succeeded" /\ NextItem(w) /\ UNCHANGED items
    <3>1. items'[job[w].item].status = "succeeded"
      BY <1>2, <2>2 DEF ClaimOutcome
    <3>2. QED BY <1>1, <2>1, <2>2, <3>1, NextItemMoves
  <2>3. CASE Return(w)  BY <1>1, <2>3, ReturnMoves
  <2>4. CASE ClaimOutcome(Current(w)) = "claimed"
    <3>1. SetItem(w, Claimed(Current(w), job[w].path))
      BY <1>12, <2>4 DEF ClaimDeliveryItem
    <3>2. items'[job[w].item].token = Current(w).token + 1
      <4>1. Claimed(Current(w), job[w].path).token = Current(w).token + 1
        BY <1>2, ClaimedEffect
      <4>2. items'[job[w].item] = Claimed(Current(w), job[w].path)
        BY <1>1, <1>2, <3>1 DEF SetItem, TypeOK
      <4>3. QED BY <4>1, <4>2
    <3> DEFINE it == Current(w)
               c == [unsupported |-> it.unsupported, uploaded |-> it.uploaded,
                     media |-> it.media]
               s == IF it.unsupported THEN "fallback" ELSE "native"
               p == PreparedFrom(c, s)
               m == IF it.unsupported /\ job[w].item \notin FallbackItems
                    THEN "no_fallback" ELSE "ok"
    <3>3. job' = [job EXCEPT ![w] = [@ EXCEPT !.token = it.token + 1,
                    !.claim = c, !.stage = s, !.prepared = p, !.result = m]]
      BY <1>12, <2>4 DEF ClaimDeliveryItem
    <3> HIDE DEF c, s, p, m
    <3>4. /\ job'[w].item = job[w].item /\ job'[w].fp = job[w].fp
          /\ job'[w].token = Current(w).token + 1
          /\ \A v \in Workers \ {w} : job'[v] = job[v]
      <4> DEFINE n == [job[w] EXCEPT !.token = Current(w).token + 1,
                         !.claim = c, !.stage = s, !.prepared = p, !.result = m]
      <4>1. n.item = job[w].item /\ n.fp = job[w].fp /\ n.token = Current(w).token + 1
        BY <1>2 DEF Job
      <4>2. job' = [job EXCEPT ![w] = n]  BY <3>3
      <4> HIDE DEF n
      <4>3. QED BY <1>1, <4>1, <4>2 DEF TypeOK
    <3>5. /\ pc'[w] \in {"finish_item", "authorize"}
          /\ \A v \in Workers \ {w} : pc'[v] = pc[v]
      BY <1>1, <1>12, <2>4 DEF ClaimDeliveryItem, Goto, TypeOK
    <3>6. GoesOn(w)
      BY <2>1, <3>2, <3>4, <3>5 DEF GoesOn, Underway, Busy
    <3>7. QED BY <3>4, <3>5, <3>6 DEF Moved, Still
  <2>5. QED BY <1>12, <2>2, <2>3, <2>4 DEF ClaimDeliveryItem
<1>13. ASSUME NEW w \in Workers, Authorize(w) PROVE Took(w)
  BY <1>8, <1>13 DEF Authorize, Underway, Busy, Holding
<1>14. ASSUME NEW w \in Workers, PrepareOutbound(w) PROVE Took(w)
  <2>1. pc[w] \in Underway /\ pc[w] \in Holding
    BY <1>14 DEF PrepareOutbound, Underway, Busy, Holding
  <2>2. {"finish_stage", "authorize_prepared", "finish_item"} \subseteq Holding
    BY DEF Holding
  <2>3. \/ Goto(w, "finish_stage") /\ \E m : job' = [job EXCEPT ![w].result = m]
        \/ Goto(w, "authorize_prepared") /\ job' = job
        \/ Goto(w, "authorize_prepared") /\ \E m : job' = [job EXCEPT ![w].prepared = m]
        \/ /\ Goto(w, "finish_item")
           /\ \E p, m : job' = [job EXCEPT ![w].prepared = p, ![w].result = m]
    BY <1>14 DEF PrepareOutbound
  <2>4. QED BY <1>8, <2>1, <2>2, <2>3
<1>15. ASSUME NEW w \in Workers, AuthorizePrepared(w) PROVE Took(w)
  BY <1>8, <1>15 DEF AuthorizePrepared, Underway, Busy, Holding
<1>16. ASSUME NEW w \in Workers, SendOutbound(w) PROVE Took(w)
  <2>1. Goto(w, "finish_stage") /\ \E m : job' = [job EXCEPT ![w].result = m]
    BY <1>16 DEF SendOutbound
  <2>2. QED BY <1>8, <1>16, <2>1 DEF SendOutbound, Underway, Busy, Holding
<1>17. ASSUME NEW w \in Workers, FinishDeliveryStage(w) PROVE Took(w)
  <2>1. \/ /\ Goto(w, "authorize")
           /\ \E s, p : job' = [job EXCEPT ![w].stage = s, ![w].prepared = p]
        \/ Goto(w, "finish_item") /\ job' = job
        \/ Goto(w, "finish_item") /\ \E m : job' = [job EXCEPT ![w].result = m]
    BY <1>17 DEF FinishDeliveryStage
  <2>2. QED BY <1>8, <1>17, <2>1 DEF FinishDeliveryStage, Underway, Busy, Holding
<1>18. ASSUME NEW w \in Workers, FinishDeliveryItem(w) PROVE Took(w)
  <2> DEFINE ok == job[w].result = "ok"
             retryable == ~ok /\ MapDeliveryFailure(job[w].result)
             status == IF ok THEN "succeeded" ELSE "failed"
             n == ItemFinished(Current(w), status, retryable, job[w].result,
                               job[w].prepared)
  <2>1. pc[w] \in Underway  BY <1>18 DEF FinishDeliveryItem, Underway, Busy
  <2>2. ASSUME SetItem(w, n), ok PROVE items'[job[w].item].status = "succeeded"
    <3>1. n.status = "succeeded"
      <4>1. status = "succeeded"  BY <2>2
      <4> HIDE DEF status, retryable
      <4>2. QED BY <1>2, <4>1, ItemFinishedEffect
    <3> HIDE DEF n
    <3>2. items'[job[w].item] = n  BY <1>1, <1>2, <2>2 DEF SetItem, TypeOK
    <3>3. QED BY <3>1, <3>2
  <2>3. \/ Return(w)
        \/ SetItem(w, n) /\ ok /\ NextItem(w)
        \/ /\ SetItem(w, n) /\ Goto(w, "cleanup")
           /\ \E m : job' = [job EXCEPT ![w].cleanup = m]
    BY <1>18 DEF FinishDeliveryItem
  <2> HIDE DEF n
  <2>4. CASE SetItem(w, n) /\ ok /\ NextItem(w)
    BY <1>1, <2>1, <2>2, <2>4, NextItemMoves
  <2>5. CASE /\ SetItem(w, n) /\ Goto(w, "cleanup")
             /\ \E m : job' = [job EXCEPT ![w].cleanup = m]
    <3>1. /\ job'[w].item = job[w].item /\ job'[w].fp = job[w].fp
          /\ \A v \in Workers \ {w} : job'[v] = job[v]
      BY <1>1, <2>5, JobFrame
    <3>2. job'[w].result = job[w].result
      BY <1>1, <1>2, <2>5 DEF Job, TypeOK
    <3>3. pc'[w] = "cleanup" /\ \A v \in Workers \ {w} : pc'[v] = pc[v]
      BY <1>1, <2>5 DEF Goto, TypeOK
    <3>4. GoesOn(w)
      BY <2>1, <2>2, <2>5, <3>1, <3>2, <3>3 DEF GoesOn, Underway, Busy, Holding
    <3>5. QED BY <3>1, <3>3, <3>4 DEF Moved, Still
  <2>6. QED BY <1>1, <2>3, <2>4, <2>5, ReturnMoves
<1>19. ASSUME NEW w \in Workers, CleanupAttachmentCache(w) PROVE Took(w)
  <2>1. pc[w] = "cleanup" /\ pc[w] \in Underway /\ items' = items
    BY <1>19 DEF CleanupAttachmentCache, Underway, Busy
  <2>2. CASE job[w].result = "ok" /\ NextItem(w)
    <3>1. items'[job[w].item].status = "succeeded"
      BY <1>2, <2>1, <2>2 DEF IInv, TaskInv, TaskOK
    <3>2. QED BY <1>1, <2>1, <2>2, <3>1, NextItemMoves
  <2>3. CASE Return(w)  BY <1>1, <2>3, ReturnMoves
  <2>4. QED BY <1>19, <2>2, <2>3 DEF CleanupAttachmentCache
<1>20. ASSUME NEW w \in Workers, SaveDeliveryRecord(w) PROVE Took(w)
  BY <1>1, <1>20, ReturnMoves DEF SaveDeliveryRecord
<1>21. ASSUME NEW w \in Workers, Crash(w) PROVE Took(w)
  BY <1>1, <1>21 DEF Crash, TypeOK, Moved, Still, Busy
<1>22. ASSUME NEW w \in Workers, Start(w) PROVE Took(w)
  BY <1>1, <1>22 DEF Start, Goto, TypeOK, Moved, Still, Busy
<1>23. ASSUME NEW w \in Workers, Sweep(w) PROVE Took(w)
  BY <1>1, <1>23 DEF Sweep, Goto, TypeOK, Moved, Still, Busy
<1> HIDE DEF Took
<1>24. ASSUME NEW w \in Workers, Step(w) PROVE Took(w)
  BY <1>6, <1>7, <1>9, <1>10, <1>11, <1>12, <1>13, <1>14, <1>15, <1>16, <1>17,
     <1>18, <1>19, <1>20, <1>22, <1>23, <1>24 DEF Step
<1>25. QED
  BY <1>3, <1>4, <1>5, <1>21, <1>24
  DEF Next, vars, LeaseExpires, MaterializationLeaseExpires, DayPasses, Revoke

-----------------------------------------------------------------------------
(* The invariant is inductive                                              *)

(* An empty ledger and idle tasks satisfy the invariant.                   *)
LEMMA InvInit == Init => IInv
<1> SUFFICES ASSUME Init PROVE IInv
  OBVIOUS
<1>1. TypeOK  BY TypeInit
<1>2. \A i \in Items : /\ items[i] = NewItem(i \in MediaItems)
                       /\ items[i].status = "pending" /\ items[i].retryable
                       /\ items[i].token = 0 /\ items[i].matToken = 0
                       /\ items[i].cache = NoFile
                       /\ items[i].mat \in {"pending", "not_required"}
  BY DEF Init, NewItem
<1>3. ItemInv /\ PlanInv /\ ItemsInOrder
  BY <1>2 DEF ItemInv, GoodItem, Ready, PlanInv, ItemsInOrder
<1>4. TaskInv /\ TokenInv
  BY DEF Init, TaskInv, TaskOK, TokenInv, Underway, Busy, Holding
<1>5. RecordIsTrue  BY DEF Init, RecordIsTrue
<1>6. QED BY <1>1, <1>3, <1>4, <1>5 DEF IInv

(* The plan is written once, and the record only by save_delivery_record.  *)
LEMMA PlanAndRecord ==
  ASSUME [Next]_vars
  PROVE  /\ plan # NoPlan => plan' = plan
         /\ record' = record \/ \E w \in Workers : SaveDeliveryRecord(w)
<1> USE DEF ledger
<1> DEFINE Framed == (plan # NoPlan => plan' = plan) /\ record' = record
<1>1. ASSUME NEW w \in Workers, PersistDeliveryPlan(w) PROVE Framed
  BY <1>1 DEF PersistDeliveryPlan
<1>2. ASSUME NEW w \in Workers,
             \/ ClaimMaterialization(w) \/ AuthorizeDownload(w) \/ Download(w)
             \/ FinishMaterialization(w) \/ ClaimDeliveryItem(w)
      PROVE  Framed
  BY <1>2 DEF ClaimMaterialization, AuthorizeDownload, Download,
              FinishMaterialization, ClaimDeliveryItem
<1>3. ASSUME NEW w \in Workers,
             \/ Authorize(w) \/ PrepareOutbound(w) \/ AuthorizePrepared(w)
             \/ SendOutbound(w)
      PROVE  Framed
  BY <1>3 DEF Authorize, PrepareOutbound, AuthorizePrepared, SendOutbound
<1>4. ASSUME NEW w \in Workers,
             \/ FinishDeliveryStage(w) \/ FinishDeliveryItem(w)
             \/ CleanupAttachmentCache(w) \/ Start(w) \/ Sweep(w)
      PROVE  Framed
  BY <1>4 DEF FinishDeliveryStage, FinishDeliveryItem, CleanupAttachmentCache,
              Start, Sweep
<1>5. ASSUME NEW w \in Workers,
             \/ \E fp \in Fingerprints : HandleNotification(w, fp)
             \/ RetryPendingDeliveries(w) \/ Crash(w)
      PROVE  Framed
  BY <1>5 DEF HandleNotification, RetryPendingDeliveries, Crash
<1>6. ASSUME \/ \E i \in Items : LeaseExpires(i) \/ MaterializationLeaseExpires(i)
             \/ DayPasses \/ Revoke \/ UNCHANGED vars
      PROVE  Framed
  BY <1>6 DEF LeaseExpires, MaterializationLeaseExpires, DayPasses, Revoke, vars
<1>7. ASSUME NEW w \in Workers, SaveDeliveryRecord(w) PROVE plan' = plan
  BY <1>7 DEF SaveDeliveryRecord
<1> HIDE DEF Framed
<1>8. Framed \/ \E w \in Workers : SaveDeliveryRecord(w)
  BY <1>1, <1>2, <1>3, <1>4, <1>5, <1>6 DEF Next, Step
<1>9. QED BY <1>7, <1>8 DEF Framed

(* Nothing in the ledger goes back: delivered items stay delivered, tokens *)
(* only grow, and a planned request stays the planned one.                 *)
LEMMA LedgerGrows ==
  ASSUME IInv, [Next]_vars
  PROVE  /\ \A i \in Items : /\ Keeps(items[i], items'[i])
                             /\ items[i].token <= items'[i].token
                             /\ items[i].status = "succeeded"
                                  => items'[i].status = "succeeded"
         /\ plan # NoPlan => plan' = plan
<1>1. LedgerStep  BY NextLedger
<1>2. TypeOK /\ ItemInv  BY DEF IInv
<1>3. \A i \in Items : items[i] \in Item /\ GoodItem(items[i])
  BY <1>2 DEF TypeOK, ItemInv
<1>4. \A i \in Items : items[i].token \in Nat  BY <1>3 DEF Item
<1>5. \A i \in Items : Quiet(items[i], items[i])  BY <1>3, TimeStep
<1>6. \A i \in Items : Keeps(items[i], items'[i]) /\ items[i].token <= items'[i].token
  <2>1. CASE \A i \in Items : Quiet(items[i], items'[i])
    BY <1>4, <2>1 DEF Quiet
  <2>2. CASE \E w \in Workers :
               /\ pc[w] \in Underway
               /\ Written(Current(w), items'[job[w].item])
               /\ \A i \in Items \ {job[w].item} : items'[i] = items[i]
    BY <1>4, <1>5, <2>2 DEF Quiet, Written, Current
  <2>3. QED BY <1>1, <2>1, <2>2 DEF LedgerStep
<1>7. plan # NoPlan => plan' = plan  BY PlanAndRecord
<1>8. QED BY <1>6, <1>7 DEF Keeps, Final

(* A task that does not move keeps what it relies on.                      *)
LEMMA StillOK ==
  ASSUME IInv, [Next]_vars, NEW v \in Workers, Still(v)
  PROVE  TaskOK(v)'
<1>1. job[v].item \in Items /\ job[v].token \in Nat /\ TypeOK'
  BY TypeNext DEF IInv, TypeOK, Job
<1>2. items[job[v].item].token \in Nat /\ items'[job[v].item].token \in Nat
  BY <1>1 DEF IInv, TypeOK, Item
<1>3. TaskOK(v)  BY DEF IInv, TaskInv
<1>4. \A i \in 1 .. (job[v].item - 1) : i \in Items
  BY <1>1, ConstantsAssumption DEF Items
<1>5. pc[v] \in Underway => plan' = plan
  BY <1>3, LedgerGrows DEF TaskOK
<1>6. QED
  BY <1>1, <1>2, <1>3, <1>4, <1>5, LedgerGrows DEF TaskOK, Current, Still, Keeps

(* A task that moves finds what it relies on at its new place.             *)
LEMMA MovedOK ==
  ASSUME IInv, [Next]_vars, NEW w \in Workers, Moved(w)
  PROVE  TaskOK(w)'
<1>1. job[w].item \in Items /\ job[w].token \in Nat /\ TypeOK'
  BY TypeNext DEF IInv, TypeOK, Job
<1>2. items[job[w].item].token \in Nat /\ items'[job[w].item].token \in Nat
  BY <1>1 DEF IInv, TypeOK, Item
<1>3. TaskOK(w)  BY DEF IInv, TaskInv
<1>4. \A i \in 1 .. (job[w].item - 1) : i \in Items
  BY <1>1, ConstantsAssumption DEF Items
<1>5. pc[w] \in Underway =>
        /\ plan' = plan /\ plan # NoPlan /\ job[w].fp = plan
        /\ \A i \in 1 .. (job[w].item - 1) : items'[i].status = "succeeded"
  BY <1>3, <1>4, LedgerGrows DEF TaskOK
<1>6. CASE pc'[w] \notin Busy
  BY <1>6 DEF TaskOK, Underway, Busy, Holding
<1>7. CASE Starts(w)
  BY <1>7 DEF Starts, TaskOK, Underway, Holding
<1>8. CASE Enters(w)
  <2>1. /\ pc'[w] = "materialize" /\ job'[w].fp \in Fingerprints /\ job'[w].item = 1
        /\ plan' = job'[w].fp
    BY <1>3, <1>8 DEF Enters, TaskOK
  <2>2. QED BY <2>1, ConstantsAssumption DEF TaskOK, Underway, Busy, Holding
<1>9. CASE GoesOn(w)
  <2>1. job'[w].item = job[w].item /\ job'[w].fp = job[w].fp /\ pc[w] \in Underway
        /\ pc'[w] # "persist"
    BY <1>9 DEF GoesOn, Underway
  <2>2. pc'[w] \in Holding => job'[w].token <= items'[job[w].item].token
    BY <1>1, <1>2, <1>3, <1>9, LedgerGrows DEF GoesOn, TaskOK, Current
  <2>3. QED BY <1>5, <1>9, <2>1, <2>2 DEF GoesOn, TaskOK, Current
<1>10. CASE Advances(w)
  <2>1. /\ job'[w].item = job[w].item + 1 /\ job'[w].fp = job[w].fp
        /\ pc'[w] = "materialize" /\ pc[w] \in Underway
        /\ items'[job[w].item].status = "succeeded"
    BY <1>10 DEF Advances
  <2>2. \A i \in 1 .. (job'[w].item - 1) : items'[i].status = "succeeded"
    BY <1>1, <1>5, <2>1, ConstantsAssumption DEF Items
  <2>3. QED BY <1>5, <2>1, <2>2 DEF TaskOK, Underway, Busy, Holding
<1>11. QED BY <1>6, <1>7, <1>8, <1>9, <1>10 DEF Moved

(* Every step of the pipeline preserves the invariant.                     *)
LEMMA InvNext == IInv /\ [Next]_vars => IInv'
<1> SUFFICES ASSUME IInv, [Next]_vars PROVE IInv'
  OBVIOUS
<1>1. TypeOK /\ TypeOK'  BY TypeNext DEF IInv
<1>2. TaskStep  BY NextTasks
<1>3. LedgerStep  BY NextLedger
<1>4. ItemInv'  BY LedgerGrows DEF ItemInv, Keeps
<1>5. TaskInv'
  BY <1>2, StillOK, MovedOK DEF TaskStep, TaskInv
<1>6. TokenInv'
  <2> SUFFICES ASSUME NEW u \in Workers, NEW v \in Workers, u # v,
                      pc'[u] \in Holding, pc'[v] \in Holding,
                      job'[u].item = job'[v].item
               PROVE  job'[u].token # job'[v].token
    BY DEF TokenInv
  <2> DEFINE Kept(x) == /\ pc[x] \in Holding /\ job'[x].item = job[x].item
                        /\ job'[x].token = job[x].token
             New(x)  == /\ job'[x].item = job[x].item
                        /\ job'[x].token = Current(x).token + 1
  <2>1. ASSUME NEW x \in Workers, pc'[x] \in Holding, Moved(x)
        PROVE  Kept(x) \/ New(x)
    <3>1. GoesOn(x)
      BY <2>1 DEF Moved, Starts, Enters, Advances, Holding, Busy
    <3>2. QED BY <2>1, <3>1 DEF GoesOn
  <2>2. ASSUME NEW x \in Workers, pc'[x] \in Holding, Still(x) PROVE Kept(x)
    BY <2>2 DEF Still
  <2>3. \/ Kept(u) /\ Kept(v)
        \/ New(u) /\ Kept(v)
        \/ Kept(u) /\ New(v)
    BY <1>2, <2>1, <2>2 DEF TaskStep
  <2>4. \A x \in Workers : /\ job[x].item \in Items /\ job[x].token \in Nat
                           /\ Current(x) = items[job[x].item]
                           /\ Current(x).token \in Nat
                           /\ pc[x] \in Holding => job[x].token <= Current(x).token
    BY <1>1 DEF IInv, TaskInv, TaskOK, TypeOK, Job, Item, Current
  <2>5. CASE Kept(u) /\ Kept(v)
    BY <2>5 DEF IInv, TokenInv
  <2>6. CASE New(u) /\ Kept(v)
    <3>1. Current(u) = Current(v)  BY <2>4, <2>6
    <3>2. job[v].token <= Current(u).token  BY <2>4, <2>6, <3>1
    <3>3. QED BY <2>4, <2>6, <3>2
  <2>7. CASE Kept(u) /\ New(v)
    <3>1. Current(u) = Current(v)  BY <2>4, <2>7
    <3>2. job[u].token <= Current(v).token  BY <2>4, <2>7, <3>1
    <3>3. QED BY <2>4, <2>7, <3>2
  <2>8. QED BY <2>3, <2>5, <2>6, <2>7
<1>7. ItemsInOrder'
  <2> SUFFICES ASSUME NEW j \in Items, items'[j].token > 0 \/ items'[j].matToken > 0,
                      NEW i \in 1 .. (j - 1)
               PROVE  items'[i].status = "succeeded"
    BY DEF ItemsInOrder
  <2>1. i \in Items  BY ConstantsAssumption DEF Items
  <2>2. CASE items'[j].token = items[j].token /\ items'[j].matToken = items[j].matToken
    BY <2>1, <2>2, LedgerGrows DEF IInv, ItemsInOrder
  <2>3. CASE \E w \in Workers : pc[w] \in Underway /\ job[w].item = j
    BY <2>1, <2>3, LedgerGrows DEF IInv, TaskInv, TaskOK
  <2>4. QED BY <1>3, <2>2, <2>3 DEF LedgerStep, Quiet
<1>8. PlanInv'
  <2> SUFFICES ASSUME plan' = NoPlan, NEW i \in Items
               PROVE  items'[i] = NewItem(i \in MediaItems)
    BY DEF PlanInv
  <2>1. plan = NoPlan  BY LedgerGrows
  <2>2. \A w \in Workers : pc[w] \notin Underway  BY <2>1 DEF IInv, TaskInv, TaskOK
  <2>3. items[i] = NewItem(i \in MediaItems)  BY <2>1 DEF IInv, PlanInv
  <2>4. items[i].cache = NoFile /\ ~items[i].leased /\ ~items[i].matLeased
    BY <2>3 DEF NewItem
  <2>5. Reconciled(items[i]) = items[i]  BY <2>4 DEF Reconciled, Discarded
  <2>6. CASE items'[i] = items[i]  BY <2>3, <2>6
  <2>7. ASSUME NEW w \in Workers, Step(w) PROVE items'[i] = items[i]
    <3>1. CASE PersistDeliveryPlan(w)  BY <2>3, <3>1 DEF PersistDeliveryPlan
    <3>2. CASE Start(w)  BY <2>5, <3>2 DEF Start
    <3>3. CASE Sweep(w)  BY <3>3 DEF Sweep, ledger
    <3>4. QED
      BY <2>2, <2>7, <3>1, <3>2, <3>3
      DEF Step, ClaimMaterialization, AuthorizeDownload, Download,
          FinishMaterialization, ClaimDeliveryItem, Authorize, PrepareOutbound,
          AuthorizePrepared, SendOutbound, FinishDeliveryStage,
          FinishDeliveryItem, CleanupAttachmentCache, SaveDeliveryRecord,
          Underway, Busy
  <2>8. ASSUME NEW j \in Items, LeaseExpires(j) \/ MaterializationLeaseExpires(j)
        PROVE  items'[i] = items[i]
    BY <1>1, <2>4, <2>8 DEF LeaseExpires, MaterializationLeaseExpires, TypeOK
  <2>9. QED
    BY <2>1, <2>6, <2>7, <2>8
    DEF Next, vars, ledger, HandleNotification, RetryPendingDeliveries, Crash,
        DayPasses, Revoke
<1>9. RecordIsTrue'
  <2>1. CASE record' = record
    BY <2>1, <1>1, LedgerGrows, ConstantsAssumption DEF IInv, RecordIsTrue, TypeOK
  <2>2. ASSUME NEW w \in Workers, SaveDeliveryRecord(w) PROVE RecordIsTrue'
    <3>1. pc[w] = "respond" /\ record' = job[w].fp /\ items' = items /\ plan' = plan
      BY <2>2 DEF SaveDeliveryRecord
    <3>2. TaskOK(w)  BY DEF IInv, TaskInv
    <3>3. /\ job[w].item = N /\ items[N].status = "succeeded" /\ job[w].fp = plan
          /\ \A i \in 1 .. (N - 1) : items[i].status = "succeeded"
      BY <3>1, <3>2 DEF TaskOK, Current, Underway, Busy
    <3>4. \A i \in Items : i = N \/ i \in 1 .. (N - 1)
      BY ConstantsAssumption DEF Items
    <3>5. QED BY <3>1, <3>3, <3>4 DEF RecordIsTrue
  <2>3. QED BY <2>1, <2>2, PlanAndRecord
<1>10. QED BY <1>1, <1>4, <1>5, <1>6, <1>7, <1>8, <1>9 DEF IInv

-----------------------------------------------------------------------------
(* What follows from it                                                    *)

(* The inductive invariant holds in every reachable state.                 *)
LEMMA Invariance == Spec => []IInv
  BY InvInit, InvNext, PTL DEF Spec

(* At most one of the tasks that believe they hold a claim on an item can  *)
(* pass require_active_delivery_claim.                                     *)
THEOREM OneLiveHolderHolds == Spec => []OneLiveHolder
<1>1. IInv => OneLiveHolder
  BY DEF IInv, TokenInv, OneLiveHolder, ActiveClaim, Current
<1>2. QED BY <1>1, Invariance, PTL

(* Items are downloaded and claimed in the order of the plan.              *)
THEOREM ItemsInOrderHolds == Spec => []ItemsInOrder
<1>1. IInv => ItemsInOrder  BY DEF IInv
<1>2. QED BY <1>1, Invariance, PTL

(* A saved ok response is true: the planned request is delivered.          *)
THEOREM RecordIsTrueHolds == Spec => []RecordIsTrue
<1>1. IInv => RecordIsTrue  BY DEF IInv
<1>2. QED BY <1>1, Invariance, PTL

(* No task works for a request other than the planned one.                 *)
THEOREM ConflictNeverDeliversHolds == Spec => []ConflictNeverDelivers
<1>1. IInv => ConflictNeverDelivers
  BY DEF IInv, TaskInv, TaskOK, ConflictNeverDelivers, Underway
<1>2. QED BY <1>1, Invariance, PTL

(* A delivered item and one that failed for good keep their outcome.       *)
THEOREM OutcomeIsFinalHolds == Spec => OutcomeIsFinal
<1>1. IInv /\ [Next]_vars =>
        [\A i \in Items : Final(items[i]) =>
           /\ items'[i].status = items[i].status
           /\ items'[i].retryable = items[i].retryable]_vars
  BY LedgerGrows DEF Keeps
<1>2. QED BY <1>1, Invariance, PTL DEF Spec, OutcomeIsFinal

-----------------------------------------------------------------------------
(* The pipeline implements DeliveryPromise                                 *)

PhaseOf == [i \in Items |-> Phase(items[i])]
EpochOf == [i \in Items |-> items[i].token]

(* A fresh ledger is the abstract initial state.                           *)
LEMMA PromiseInit == Init => Promise!Init
<1> SUFFICES ASSUME Init PROVE Promise!Init
  OBVIOUS
<1>1. \A i \in Items : Phase(items[i]) = "open" /\ items[i].token = 0
  BY DEF Init, NewItem, Phase
<1>2. QED BY <1>1 DEF Promise!Init, Items

(* Every step is a step of the abstract specification, or none.            *)
LEMMA PromiseNext ==
  ASSUME IInv, [Next]_vars
  PROVE  [Promise!Next]_<<PhaseOf, EpochOf>>
<1>1. LedgerStep  BY NextLedger
<1>2. TypeOK /\ \A i \in Items : items[i] \in Item  BY DEF IInv, TypeOK
<1>3. PhaseOf' = [i \in Items |-> Phase(items'[i])] /\ EpochOf' = [i \in Items |-> items'[i].token]
  BY DEF PhaseOf, EpochOf
<1>4. CASE \A i \in Items : Phase(items'[i]) = Phase(items[i]) /\ items'[i].token = items[i].token
  BY <1>3, <1>4 DEF PhaseOf, EpochOf
<1>5. ASSUME NEW k \in Items,
             \A i \in Items \ {k} : /\ Phase(items'[i]) = Phase(items[i])
                                    /\ items'[i].token = items[i].token,
             \/ /\ items'[k].token = items[k].token + 1
                /\ Phase(items[k]) \in {"open", "held"} /\ Phase(items'[k]) = "held"
                /\ \A i \in 1 .. (k - 1) : items[i].status = "succeeded"
             \/ /\ items'[k].token = items[k].token
                /\ Phase(items[k]) = "held" /\ Phase(items'[k]) \in {"open", "done", "dead"}
                /\ \A i \in 1 .. (k - 1) : items[i].status = "succeeded"
             \/ /\ items'[k].token = items[k].token
                /\ Phase(items[k]) = "open" /\ Phase(items'[k]) = "dead"
                /\ \A i \in 1 .. (k - 1) : items[i].status = "succeeded"
      PROVE  Promise!Next
  <2>1. PhaseOf' = [PhaseOf EXCEPT ![k] = Phase(items'[k])]
    BY <1>3, <1>5 DEF PhaseOf
  <2>2. EpochOf' = [EpochOf EXCEPT ![k] = items'[k].token]
    BY <1>3, <1>5 DEF EpochOf
  <2>3. PhaseOf[k] = Phase(items[k]) /\ EpochOf[k] = items[k].token
    BY DEF PhaseOf, EpochOf
  <2>4. k \in 1 .. N /\ \A i \in 1 .. (k - 1) : i \in Items /\ PhaseOf[i] = "done"
    BY <1>5, ConstantsAssumption DEF PhaseOf, Phase, Items
  <2>5. EpochOf' = EpochOf \/ items'[k].token = items[k].token + 1
    BY <1>5, <2>2, <2>3 DEF EpochOf
  <2>6. Promise!Earlier(k)
    BY <2>4 DEF Promise!Earlier, PhaseOf
  <2>7. \/ Promise!Acquire(k) \/ Promise!Release(k) \/ Promise!Complete(k)
        \/ Promise!Abandon(k)
    BY <1>5, <2>1, <2>2, <2>3, <2>5, <2>6
    DEF Promise!Acquire, Promise!Release, Promise!Complete, Promise!Abandon,
        Promise!Undecided, PhaseOf, EpochOf
  <2>8. QED BY <2>4, <2>7 DEF Promise!Next
<1>6. CASE \E w \in Workers :
             /\ pc[w] \in Underway
             /\ Written(Current(w), items'[job[w].item])
             /\ \A i \in Items \ {job[w].item} : items'[i] = items[i]
  <2>1. PICK w \in Workers :
             /\ pc[w] \in Underway
             /\ Written(Current(w), items'[job[w].item])
             /\ \A i \in Items \ {job[w].item} : items'[i] = items[i]
    BY <1>6
  <2>2. job[w].item \in Items /\ Current(w) = items[job[w].item]
    BY <1>2 DEF TypeOK, Job, Current
  <2>3. \A i \in 1 .. (job[w].item - 1) : items[i].status = "succeeded"
    BY <2>1 DEF IInv, TaskInv, TaskOK
  <2>4. QED BY <1>4, <1>5, <2>1, <2>2, <2>3 DEF Written
<1>7. CASE \A i \in Items : Quiet(items[i], items'[i])
  <2>1. \A i \in Items : items'[i].token = items[i].token
    BY <1>7 DEF Quiet
  <2>2. CASE \A i \in Items : Phase(items'[i]) = Phase(items[i])
    BY <1>4, <2>1, <2>2
  <2>3. CASE \E i \in Items : Phase(items'[i]) # Phase(items[i])
    <3>1. PICK k \in Items : Phase(items'[k]) # Phase(items[k])
      BY <2>3
    <3>2. \A i \in Items : Phase(items'[i]) # Phase(items[i]) =>
             /\ items[i].status = "sending" /\ Phase(items'[i]) = "open"
             /\ items[i].token > 0
      BY <1>7 DEF Quiet, IInv, ItemInv, GoodItem
    <3>3. \A i \in 1 .. (k - 1) : items[i].status = "succeeded"
      BY <3>1, <3>2 DEF IInv, ItemsInOrder
    <3>4. \A i \in Items \ {k} : Phase(items'[i]) = Phase(items[i])
      <4> SUFFICES ASSUME NEW i \in Items \ {k}, Phase(items'[i]) # Phase(items[i])
                   PROVE  FALSE
        OBVIOUS
      <4>1. i \in 1 .. (k - 1) \/ k \in 1 .. (i - 1)
        BY ConstantsAssumption DEF Items
      <4>2. \A j \in 1 .. (i - 1) : items[j].status = "succeeded"
        BY <3>2 DEF IInv, ItemsInOrder
      <4>3. QED BY <3>1, <3>2, <3>3, <4>1, <4>2
    <3>5. Phase(items[k]) = "held" /\ Phase(items'[k]) = "open"
      BY <3>1, <3>2 DEF Phase
    <3>6. QED BY <1>5, <2>1, <3>3, <3>4, <3>5
  <2>4. QED BY <2>2, <2>3
<1>8. QED BY <1>1, <1>6, <1>7 DEF LedgerStep

(* The delivery pipeline implements DeliveryPromise: whatever its tasks,   *)
(* leases, downloads, kills and restarts do, an item is taken by numbered  *)
(* attempts, in order, and done or dead for ever.                          *)
THEOREM Refinement == Spec => KeepsPromise
<1>1. IInv /\ [Next]_vars => [Promise!Next]_<<PhaseOf, EpochOf>>
  BY PromiseNext
<1>2. QED
  BY <1>1, PromiseInit, Invariance, PTL DEF Spec, KeepsPromise, Promise!Spec, PhaseOf, EpochOf

-----------------------------------------------------------------------------
(* Consent                                                                 *)

(* Once consent is gone, only tasks past their last check may still send.  *)
LEMMA RevocationNext ==
  ASSUME TypeOK, NoSendAfterRevocation, [Next]_vars
  PROVE  NoSendAfterRevocation'
<1> USE DEF ledger, disk, budget, history
<1> DEFINE Safe(w) == pc[w] = "send" /\ Guarded(job[w].item) /\ ~consent => w \in grace
<1>1. \A w \in Workers : Safe(w)  BY DEF NoSendAfterRevocation
<1>2. \A w \in Workers : job[w] \in Job  BY DEF TypeOK
<1>3. CASE /\ consent' = consent /\ grace' = grace
           /\ \A v \in Workers : Still(v) \/ pc'[v] # "send"
  BY <1>1, <1>3 DEF NoSendAfterRevocation, Still
<1>4. ASSUME NEW w \in Workers, Authorize(w) \/ AuthorizePrepared(w)
      PROVE  NoSendAfterRevocation'
  <2>1. /\ consent' = consent /\ grace' = grace
        /\ \A v \in Workers \ {w} : Still(v)
    BY <1>4 DEF Authorize, AuthorizePrepared, Goto, TypeOK, Still
  <2>2. job'[w].item = job[w].item
    BY <1>2, <1>4 DEF Authorize, AuthorizePrepared, TypeOK, Job
  <2>3. pc'[w] = "send" => AuthorizeDeliveryContext(job[w].item, "ok")
    BY <1>4 DEF Authorize, AuthorizePrepared, Goto, TypeOK
  <2>4. AuthorizeDeliveryContext(job[w].item, "ok") => ~Guarded(job[w].item) \/ consent
    BY DEF AuthorizeDeliveryContext, Outages
  <2>5. QED BY <1>1, <2>1, <2>2, <2>3, <2>4 DEF NoSendAfterRevocation, Still
<1>5. ASSUME NEW w \in Workers, SendOutbound(w) \/ Crash(w)
      PROVE  NoSendAfterRevocation'
  <2>1. /\ consent' = consent /\ grace' = grace \ {w} /\ pc'[w] # "send"
        /\ \A v \in Workers \ {w} : Still(v)
    BY <1>5 DEF SendOutbound, Crash, Goto, TypeOK, Still
  <2>2. QED BY <1>1, <2>1 DEF NoSendAfterRevocation, Still
<1>6. CASE Revoke
  BY <1>6 DEF Revoke, NoSendAfterRevocation
<1>7. ASSUME NEW w \in Workers, Return(w) PROVE \A v \in Workers : Still(v) \/ pc'[v] # "send"
  BY <1>7 DEF Return, Goto, TypeOK, Still
<1>8. ASSUME NEW w \in Workers, NextItem(w) PROVE \A v \in Workers : Still(v) \/ pc'[v] # "send"
  <2>1. CASE Return(w)  BY <1>7, <2>1
  <2>2. CASE ~Return(w)
    BY <1>8, <2>2 DEF NextItem, Goto, TypeOK, Still
  <2>3. QED BY <2>1, <2>2
<1>9. ASSUME NEW w \in Workers, PersistDeliveryPlan(w) \/ ClaimMaterialization(w)
                                \/ FinishMaterialization(w)
      PROVE  NoSendAfterRevocation'
  BY <1>3, <1>7, <1>9
  DEF PersistDeliveryPlan, ClaimMaterialization, FinishMaterialization, Goto, TypeOK, Still
<1>10. ASSUME NEW w \in Workers, AuthorizeDownload(w) \/ Download(w) \/ Start(w) \/ Sweep(w)
      PROVE  NoSendAfterRevocation'
  BY <1>3, <1>10 DEF AuthorizeDownload, Download, Start, Sweep, Goto, TypeOK, Still
<1>11. ASSUME NEW w \in Workers, ClaimDeliveryItem(w) PROVE NoSendAfterRevocation'
  <2>1. \A v \in Workers : Still(v) \/ pc'[v] # "send"
    BY <1>7, <1>8, <1>11 DEF ClaimDeliveryItem, Goto, TypeOK, Still
  <2>2. QED BY <1>3, <1>11, <2>1 DEF ClaimDeliveryItem
<1>12. ASSUME NEW w \in Workers, PrepareOutbound(w) PROVE NoSendAfterRevocation'
  BY <1>3, <1>12 DEF PrepareOutbound, Goto, TypeOK, Still
<1>13. ASSUME NEW w \in Workers, FinishDeliveryStage(w) PROVE NoSendAfterRevocation'
  BY <1>3, <1>13 DEF FinishDeliveryStage, Goto, TypeOK, Still
<1>14. ASSUME NEW w \in Workers, FinishDeliveryItem(w) PROVE NoSendAfterRevocation'
  <2>1. \A v \in Workers : Still(v) \/ pc'[v] # "send"
    BY <1>7, <1>8, <1>14 DEF FinishDeliveryItem, Goto, TypeOK, Still
  <2>2. QED BY <1>3, <1>14, <2>1 DEF FinishDeliveryItem
<1>15. ASSUME NEW w \in Workers, CleanupAttachmentCache(w) \/ SaveDeliveryRecord(w)
      PROVE  NoSendAfterRevocation'
  BY <1>3, <1>7, <1>8, <1>15 DEF CleanupAttachmentCache, SaveDeliveryRecord
<1>16. ASSUME NEW w \in Workers,
              \/ \E fp \in Fingerprints : HandleNotification(w, fp)
              \/ RetryPendingDeliveries(w)
      PROVE  NoSendAfterRevocation'
  BY <1>3, <1>16 DEF HandleNotification, RetryPendingDeliveries, Goto, TypeOK, Still
<1>17. ASSUME \/ \E i \in Items : LeaseExpires(i) \/ MaterializationLeaseExpires(i)
              \/ DayPasses \/ UNCHANGED vars
      PROVE  NoSendAfterRevocation'
  BY <1>3, <1>17 DEF LeaseExpires, MaterializationLeaseExpires, DayPasses, vars, Still
<1>18. QED
  BY <1>4, <1>5, <1>6, <1>9, <1>10, <1>11, <1>12, <1>13, <1>14, <1>15, <1>16, <1>17
  DEF Next, Step

(* No item whose delivery Beacon no longer allows reaches the provider,    *)
(* except from a task that had passed its last check before.               *)
THEOREM NoSendAfterRevocationHolds == Spec => []NoSendAfterRevocation
<1>1. Init => NoSendAfterRevocation
  BY DEF Init, NoSendAfterRevocation
<1>2. TypeOK /\ NoSendAfterRevocation /\ [Next]_vars => NoSendAfterRevocation'
  BY RevocationNext
<1>3. QED BY <1>1, <1>2, TypeCorrect, PTL DEF Spec

-----------------------------------------------------------------------------
(* Duplicates.  For an item, the acceptances so far and the attempts that  *)
(* may still add one stay within its excuses, plus one while the item is   *)
(* neither free nor about to be given back.                                *)

(* The steps of an attempt up to its send.                                 *)
Trying == {"authorize", "prepare", "authorize_prepared", "send"}

(* A task that holds a claim and has not had an answer to a send under it; *)
(* one whose native video was refused may go on to the file fallback.      *)
Unsent(w) == pc[w] \in Trying \/ (pc[w] = "finish_stage" /\ job[w].result = "unsupported")

(* A task that is about to report that its attempt failed.                 *)
Failing(w) == /\ pc[w] \in {"finish_stage", "finish_item"} /\ ~Unsent(w)
              /\ job[w].result \notin {"ok", "stale"}

(* The unsent attempts at an item: each may still reach the user once.     *)
Tries(i) == {w \in Workers : job[w].item = i /\ Unsent(w)}

(* A task that will give the item back when it reports its failure.        *)
Gives(w, i) == /\ job[w].item = i /\ job[w].token = items[i].token /\ Failing(w)

(* Nothing of the item is under way, or only a report of a failure: the    *)
(* next claim is then an ordinary retry.                                   *)
Spent(i) == \/ items[i].status \in {"pending", "failed"}
            \/ items[i].status = "sending" /\ \E w \in Workers : Gives(w, i)

(* What an item without excuses may still add to its one delivery.         *)
Spare(i) == IF Spent(i) THEN 0 ELSE 1

(* The count behind DuplicatesAreExcused: an acceptance is paid for by the *)
(* attempt that made it, by an excuse, or by the spare one.                *)
CountOK(i) == /\ IsFiniteSet(Tries(i))
              /\ accepted[i] + Cardinality(Tries(i)) <= excused[i] + Spare(i)

(* The count holds for every item.                                         *)
CountInv == \A i \in Items : CountOK(i)

(* A task that was told that its claim is gone has really lost it, so it   *)
(* will not give the item back.                                            *)
StaleOK(w) ==
  /\ pc[w] = "finish_stage" => job[w].result # "stale"
  /\ pc[w] = "finish_item" /\ job[w].result = "stale" =>
       ~ActiveClaim(Current(w), job[w].token)

(* No task holds a claim that it believes to be lost.                      *)
StaleInv == \A w \in Workers : StaleOK(w)

(* Every other task stays where it is.                                     *)
Others(w) == \A v \in Workers \ {w} : Still(v)

(* A write that neither gives an item back nor renews a claim.             *)
Calm(a, b) ==
  /\ b.status \in {"pending", "failed"} => a.status \in {"pending", "failed"}
  /\ b.status = "sending" => a.status = "sending" /\ b.token = a.token /\ (b.leased => a.leased)

(* A step that adds no attempt, no acceptance and no excuse.               *)
Eases(w) ==
  /\ accepted' = accepted /\ excused' = excused
  /\ \A i \in Items : Calm(items[i], items'[i])
  /\ Unsent(w)' => Unsent(w) /\ job'[w].item = job[w].item
  /\ Failing(w)' => /\ Failing(w) /\ job'[w].item = job[w].item
                    /\ job'[w].token = job[w].token

(* A step that ends an attempt: without a send, accepted, or accepted with *)
(* the answer lost.                                                        *)
EndsTry(w) ==
  LET k == job[w].item IN
  /\ Unsent(w) /\ ~Unsent(w)' /\ job'[w].item = k
  /\ \A i \in Items : Calm(items[i], items'[i])
  /\ \A i \in Items \ {k} : accepted'[i] = accepted[i] /\ excused'[i] = excused[i]
  /\ \/ accepted'[k] = accepted[k] /\ excused'[k] = excused[k]
     \/ accepted'[k] = accepted[k] + 1 /\ excused'[k] = excused[k] + 1
     \/ accepted'[k] = accepted[k] + 1 /\ excused'[k] = excused[k] /\ ~Failing(w)'

(* finish_delivery_item of a failed attempt gives the item back.           *)
GivesUp(w) ==
  LET k == job[w].item IN
  /\ accepted' = accepted /\ excused' = excused
  /\ \A i \in Items \ {k} : items'[i] = items[i]
  /\ items[k].status = "sending" /\ Gives(w, k)
  /\ items'[k].status = "failed"
  /\ ~Unsent(w)' /\ ~Failing(w)'

(* claim_delivery_item: the item was free, or the claim taken over is      *)
(* excused.                                                                *)
TakesClaim(w) ==
  LET k == job[w].item IN
  /\ accepted' = accepted /\ job'[w].item = k /\ ~Unsent(w) /\ ~Failing(w)
  /\ \A i \in Items \ {k} : items'[i] = items[i] /\ excused'[i] = excused[i]
  /\ items'[k].status = "sending" /\ items'[k].token = items[k].token + 1
  /\ \/ items[k].status \in {"pending", "failed"} /\ excused'[k] = excused[k]
     \/ items[k].status \in {"sending", "expired"} /\ excused'[k] = excused[k] + 1
  /\ Unsent(w)' \/ Failing(w)'

(* What one task can do to the count.                                      *)
TryStep(w) == /\ Others(w) /\ StaleOK(w)'
              /\ Eases(w) \/ EndsTry(w) \/ GivesUp(w) \/ TakesClaim(w)

(* One step of one task adds or ends at most one attempt.                  *)
LEMMA TriesChange ==
  ASSUME NEW w \in Workers, Others(w), NEW i \in Items, IsFiniteSet(Tries(i))
  PROVE  /\ IsFiniteSet(Tries(i)')
         /\ Cardinality(Tries(i)) \in Nat /\ Cardinality(Tries(i)') \in Nat
         /\ (w \in Tries(i) <=> w \in Tries(i)') => Cardinality(Tries(i)') = Cardinality(Tries(i))
         /\ w \in Tries(i) \ Tries(i)' => Cardinality(Tries(i)') = Cardinality(Tries(i)) - 1
         /\ w \in Tries(i)' \ Tries(i) => Cardinality(Tries(i)') = Cardinality(Tries(i)) + 1
<1> DEFINE S == Tries(i)
           T == Tries(i)'
<1>1. \A v \in Workers \ {w} : v \in S <=> v \in T
  BY DEF Tries, Unsent, Others, Still
<1>2. S \subseteq Workers /\ T \subseteq Workers  BY DEF Tries
<1> SUFFICES /\ IsFiniteSet(T)
             /\ Cardinality(S) \in Nat /\ Cardinality(T) \in Nat
             /\ (w \in S <=> w \in T) => Cardinality(T) = Cardinality(S)
             /\ w \in S \ T => Cardinality(T) = Cardinality(S) - 1
             /\ w \in T \ S => Cardinality(T) = Cardinality(S) + 1
  OBVIOUS
<1>3. IsFiniteSet(S)  OBVIOUS
<1> HIDE DEF S, T
<1>4. Cardinality(S) \in Nat  BY <1>3, FS_CardinalityType
<1>5. CASE w \in S <=> w \in T
  <2>1. S = T  BY <1>1, <1>2, <1>5
  <2>2. QED BY <1>3, <1>4, <1>5, <2>1
<1>6. CASE w \in S /\ w \notin T
  <2>1. T = S \ {w}  BY <1>1, <1>2, <1>6
  <2>2. IsFiniteSet(T) /\ Cardinality(T) = Cardinality(S) - 1
    BY <1>3, <1>6, <2>1, FS_RemoveElement
  <2>3. Cardinality(T) \in Nat  BY <2>2, FS_CardinalityType
  <2>4. QED BY <1>4, <1>6, <2>2, <2>3
<1>7. CASE w \notin S /\ w \in T
  <2>1. T = S \cup {w}  BY <1>1, <1>2, <1>7
  <2>2. IsFiniteSet(T) /\ Cardinality(T) = Cardinality(S) + 1
    BY <1>3, <1>7, <2>1, FS_AddElement
  <2>3. Cardinality(T) \in Nat  BY <2>2, FS_CardinalityType
  <2>4. QED BY <1>4, <1>7, <2>2, <2>3
<1>8. QED BY <1>5, <1>6, <1>7

(* Each of the four kinds of step keeps the count.                         *)
LEMMA CountStep ==
  ASSUME TypeOK, TypeOK', TaskInv, CountInv, NEW w \in Workers, TryStep(w)
  PROVE  CountInv'
<1> SUFFICES ASSUME NEW i \in Items PROVE CountOK(i)'
  BY DEF CountInv
<1> DEFINE k == job[w].item
           C == Cardinality(Tries(i))
           D == Cardinality(Tries(i)')
<1>1. /\ IsFiniteSet(Tries(i)')
      /\ C \in Nat /\ D \in Nat
      /\ (w \in Tries(i) <=> w \in Tries(i)') => D = C
      /\ w \in Tries(i) \ Tries(i)' => D = C - 1
      /\ w \in Tries(i)' \ Tries(i) => D = C + 1
  BY TriesChange DEF CountInv, CountOK, TryStep
<1>2. /\ accepted[i] \in Nat /\ accepted'[i] \in Nat
      /\ excused[i] \in Nat /\ excused'[i] \in Nat /\ items[i].token \in Nat
  BY DEF TypeOK, Item
<1>3. accepted[i] + C <= excused[i] + Spare(i)  BY DEF CountInv, CountOK
<1>4. Spare(i) \in {0, 1} /\ Spare(i)' \in {0, 1}  BY DEF Spare
<1>5. w \in Tries(i) <=> k = i /\ Unsent(w)  BY DEF Tries
<1>6. w \in Tries(i)' <=> job'[w].item = i /\ Unsent(w)'  BY DEF Tries
<1> HIDE DEF C, D
<1>7. \A v \in Workers \ {w} : /\ Failing(v)' <=> Failing(v)
                               /\ job'[v].item = job[v].item /\ job'[v].token = job[v].token
  BY DEF TryStep, Others, Still, Failing, Unsent
<1> SUFFICES accepted'[i] + D <= excused'[i] + Spare(i)'
  BY <1>1 DEF CountOK, D
<1>8. ASSUME Calm(items[i], items'[i]),
             Gives(w, i)' => Gives(w, i) \/ items'[i].token # items[i].token
      PROVE  Spare(i) <= Spare(i)'
  <2>1. Spent(i)' => Spent(i)
    BY <1>7, <1>8 DEF Spent, Gives, Calm
  <2>2. QED BY <2>1 DEF Spare
<1>9. CASE Eases(w)
  <2>1. Spare(i) <= Spare(i)'
    BY <1>8, <1>9 DEF Eases, Gives
  <2>2. w \in Tries(i)' => w \in Tries(i)  BY <1>5, <1>6, <1>9 DEF Eases
  <2>3. accepted'[i] = accepted[i] /\ excused'[i] = excused[i]  BY <1>9 DEF Eases
  <2>4. QED BY <1>1, <1>2, <1>3, <1>4, <2>1, <2>2, <2>3
<1>10. CASE EndsTry(w)
  <2>1. CASE i = k
    <3>1. D = C - 1  BY <1>1, <1>5, <1>6, <1>10, <2>1 DEF EndsTry
    <3>2. CASE ~Failing(w)'
      <4>1. Spare(i) <= Spare(i)'  BY <1>8, <1>10, <3>2 DEF EndsTry, Gives
      <4>2. QED BY <1>1, <1>2, <1>3, <1>4, <1>10, <2>1, <3>1, <4>1 DEF EndsTry
    <3>3. CASE Failing(w)'
      BY <1>1, <1>2, <1>3, <1>4, <1>10, <2>1, <3>1, <3>3 DEF EndsTry
    <3>4. QED BY <3>2, <3>3
  <2>2. CASE i # k
    <3>1. Spare(i) <= Spare(i)'  BY <1>8, <1>10, <2>2 DEF EndsTry, Gives
    <3>2. D = C  BY <1>1, <1>5, <1>6, <1>10, <2>2 DEF EndsTry
    <3>3. QED BY <1>1, <1>2, <1>3, <1>4, <1>10, <2>2, <3>1, <3>2 DEF EndsTry
  <2>3. QED BY <2>1, <2>2
<1>11. CASE GivesUp(w)
  <2>1. D <= C  BY <1>1, <1>6, <1>11 DEF GivesUp
  <2>2. accepted'[i] = accepted[i] /\ excused'[i] = excused[i]  BY <1>11 DEF GivesUp
  <2>3. Spare(i) <= Spare(i)'
    <3>1. CASE i = k
      BY <1>4, <1>11, <3>1 DEF GivesUp, Spare, Spent
    <3>2. CASE i # k
      BY <1>8, <1>11, <3>2 DEF GivesUp, Calm, Gives
    <3>3. QED BY <3>1, <3>2
  <2>4. QED BY <1>1, <1>2, <1>3, <1>4, <2>1, <2>2, <2>3
<1>12. CASE TakesClaim(w)
  <2>1. accepted'[i] = accepted[i]  BY <1>12 DEF TakesClaim
  <2>2. CASE i = k
    <3>1. \A v \in Workers \ {w} : ~Gives(v, i)'
      <4> SUFFICES ASSUME NEW v \in Workers \ {w}, Gives(v, i)' PROVE FALSE
        OBVIOUS
      <4>1. job[v].item = i /\ job[v].token = items[i].token + 1 /\ Failing(v)
        BY <1>7, <1>12, <2>2 DEF Gives, TakesClaim
      <4>2. job[v].token <= items[i].token
        BY <4>1 DEF TaskInv, TaskOK, Current, Failing, Holding
      <4>3. QED BY <1>2, <4>1, <4>2
    <3>2. items[i].status \in {"pending", "failed"} => Spare(i) = 0
      BY DEF Spare, Spent
    <3>3. w \notin Tries(i)  BY <1>5, <1>12 DEF TakesClaim
    <3>4. CASE Unsent(w)'
      <4>1. ~Failing(w)'  BY <3>4 DEF Failing
      <4>2. Spare(i)' = 1
        BY <1>12, <2>2, <3>1, <4>1 DEF Spare, Spent, Gives, TakesClaim
      <4>3. D = C + 1  BY <1>1, <1>6, <1>12, <2>2, <3>3, <3>4 DEF TakesClaim
      <4>4. QED BY <1>1, <1>2, <1>3, <1>4, <1>12, <2>1, <2>2, <3>2, <4>2, <4>3 DEF TakesClaim
    <3>5. CASE ~Unsent(w)'
      <4>1. D = C  BY <1>1, <1>6, <3>3, <3>5
      <4>2. QED BY <1>1, <1>2, <1>3, <1>4, <1>12, <2>1, <2>2, <3>2, <4>1 DEF TakesClaim
    <3>6. QED BY <3>4, <3>5
  <2>3. CASE i # k
    <3>1. Spare(i) <= Spare(i)'  BY <1>8, <1>12, <2>3 DEF TakesClaim, Calm, Gives
    <3>2. D = C  BY <1>1, <1>5, <1>6, <1>12, <2>3 DEF TakesClaim
    <3>3. QED BY <1>1, <1>2, <1>3, <1>4, <1>12, <2>1, <2>3, <3>1, <3>2 DEF TakesClaim
  <2>4. QED BY <2>2, <2>3
<1>13. QED BY <1>9, <1>10, <1>11, <1>12 DEF TryStep

(* A step of the clock or of Beacon: no task moves.                        *)
Rests == /\ \A v \in Workers : Still(v)
         /\ accepted' = accepted /\ excused' = excused
         /\ \A i \in Items : Calm(items[i], items'[i])

(* The clock and Beacon keep the count.                                    *)
LEMMA CountRests ==
  ASSUME TypeOK, CountInv, Rests
  PROVE  CountInv'
<1> SUFFICES ASSUME NEW i \in Items PROVE CountOK(i)'
  BY DEF CountInv
<1>1. IsFiniteSet(Tries(i)) /\ accepted[i] + Cardinality(Tries(i)) <= excused[i] + Spare(i)
  BY DEF CountInv, CountOK
<1>2. Tries(i)' = Tries(i)  BY DEF Tries, Unsent, Rests, Still
<1>3. Spent(i)' => Spent(i)
  BY DEF Spent, Gives, Failing, Unsent, Rests, Still, Calm
<1>4. /\ accepted'[i] = accepted[i] /\ excused'[i] = excused[i]
      /\ accepted[i] \in Nat /\ excused[i] \in Nat
  BY DEF Rests, TypeOK
<1>5. Spare(i) <= Spare(i)' /\ Spare(i) \in {0, 1} /\ Spare(i)' \in {0, 1}
  BY <1>3 DEF Spare
<1>6. Cardinality(Tries(i)) \in Nat  BY <1>1, FS_CardinalityType
<1>7. accepted'[i] + Cardinality(Tries(i)') <= excused'[i] + Spare(i)'
  BY <1>1, <1>2, <1>4, <1>5, <1>6
<1>8. QED BY <1>1, <1>2, <1>7 DEF CountOK

(* A claim that was lost is not regained under its token.                  *)
LEMMA LostStaysLost ==
  ASSUME IInv, Rests \/ \E w \in Workers : TryStep(w),
         NEW i \in Items, NEW t \in Nat, t <= items[i].token, ~ActiveClaim(items[i], t)
  PROVE  ~ActiveClaim(items'[i], t)
<1>1. items[i].token \in Nat  BY DEF IInv, TypeOK, Item
<1>2. CASE Calm(items[i], items'[i])  BY <1>2 DEF Calm, ActiveClaim
<1>3. CASE items'[i] = items[i]  BY <1>3
<1>4. CASE items'[i].status = "failed" \/ items'[i].token = items[i].token + 1
  BY <1>1, <1>4 DEF ActiveClaim
<1>5. QED
  BY <1>2, <1>3, <1>4 DEF Rests, TryStep, Eases, EndsTry, GivesUp, TakesClaim

(* So a task that learnt that its claim is gone never finds it again.      *)
LEMMA StaleStep ==
  ASSUME IInv, StaleInv, Rests \/ \E w \in Workers : TryStep(w)
  PROVE  StaleInv'
<1>1. ASSUME NEW v \in Workers, Still(v) PROVE StaleOK(v)'
  <2>1. StaleOK(v)  BY DEF StaleInv
  <2>2. job[v].item \in Items /\ job[v].token \in Nat  BY DEF IInv, TypeOK, Job
  <2>3. pc[v] = "finish_item" => job[v].token <= items[job[v].item].token
    BY DEF IInv, TaskInv, TaskOK, Holding, Current
  <2>4. QED BY <1>1, <2>1, <2>2, <2>3, LostStaysLost DEF StaleOK, Still, Current
<1>2. QED BY <1>1 DEF StaleInv, Rests, TryStep, Others

(* The fields of an item that a claim is judged by, after each operation.  *)
LEMMA CalmOperations ==
  ASSUME NEW it \in Item
  PROVE  /\ Calm(it, it)
         /\ \A s : Calm(it, UploadRecorded(it, s))
         /\ \A s, b, p : Calm(it, StageFinished(it, s, b, p))
         /\ \A b, m, p : Calm(it, ItemFinished(it, "succeeded", b, m, p))
         /\ Calm(it, MaterializationClaimed(it))
         /\ Calm(it, Reconciled(it))
         /\ Calm(it, [it EXCEPT !.leased = FALSE])
         /\ Calm(it, [it EXCEPT !.matLeased = FALSE])
         /\ Calm(it, [it EXCEPT !.old = TRUE])
<1> DEFINE Same(n) == n.status = it.status /\ n.token = it.token /\ (n.leased => it.leased)
<1>1. ASSUME NEW n, Same(n) PROVE Calm(it, n)  BY <1>1 DEF Calm
<1>2. ASSUME NEW s PROVE Same(UploadRecorded(it, s))  BY DEF UploadRecorded, Item
<1>3. ASSUME NEW s, NEW b, NEW p PROVE Same(StageFinished(it, s, b, p))  BY DEF StageFinished, Item
<1>4. ASSUME NEW b, NEW m, NEW p PROVE Calm(it, ItemFinished(it, "succeeded", b, m, p))
  <2>1. ItemFinished(it, "succeeded", b, m, p).status = "succeeded"  BY ItemFinishedEffect
  <2>2. QED BY <2>1 DEF Calm
<1>5. Same(MaterializationClaimed(it))
  <2>1. MaterializationClaimed(it).leased = it.leased  BY DEF MaterializationClaimed, Item
  <2>2. QED BY <2>1, MaterializationClaimedEffect
<1>6. Same([it EXCEPT !.leased = FALSE]) /\ Same([it EXCEPT !.matLeased = FALSE])
      /\ Same([it EXCEPT !.old = TRUE])
  BY DEF Item
<1>7. Calm(it, Reconciled(it))
  <2> DEFINE x == [it EXCEPT !.cache = NoFile, !.status = "expired",
                             !.retryable = FALSE, !.error = "cache_expired",
                             !.leased = FALSE, !.old = FALSE]
             y == [it EXCEPT !.cache = NoFile, !.old = FALSE]
  <2>1. x.status = "expired" /\ Same(y)  BY DEF Item
  <2>2. Reconciled(it) \in {it, x, y}  BY Zenon DEF Reconciled
  <2> HIDE DEF x, y
  <2>3. QED BY <1>1, <2>1, <2>2 DEF Calm
<1>8. Same(it)  OBVIOUS
<1> HIDE DEF Same
<1>9. QED BY <1>1, <1>2, <1>3, <1>4, <1>5, <1>6, <1>7, <1>8

(* Assignments to a task's memory, as far as they matter to the count.     *)
LEMMA JobResult ==
  ASSUME TypeOK, NEW w \in Workers
  PROVE  /\ \A m : [job EXCEPT ![w].result = m][w].result = m
         /\ \A m : [job EXCEPT ![w].prepared = m][w].result = job[w].result
         /\ \A p, m : LET j == [job EXCEPT ![w].prepared = p, ![w].result = m]
                      IN /\ j[w].result = m /\ j[w].item = job[w].item
                         /\ j[w].token = job[w].token
                         /\ \A v \in Workers \ {w} : j[v] = job[v]
         /\ \A p, m : LET j == [job EXCEPT ![w].stage = p, ![w].prepared = m]
                      IN /\ j[w].result = job[w].result /\ j[w].item = job[w].item
                         /\ j[w].token = job[w].token
                         /\ \A v \in Workers \ {w} : j[v] = job[v]
<1>1. job \in [Workers -> Job] /\ job[w] \in Job  BY DEF TypeOK
<1>2. \A m : [job EXCEPT ![w].result = m][w].result = m  BY <1>1 DEF Job
<1>3. \A m : [job EXCEPT ![w].prepared = m][w].result = job[w].result  BY <1>1 DEF Job
<1>4. ASSUME NEW p, NEW m
      PROVE  LET j == [job EXCEPT ![w].prepared = p, ![w].result = m]
                      IN /\ j[w].result = m /\ j[w].item = job[w].item
                         /\ j[w].token = job[w].token
                         /\ \A v \in Workers \ {w} : j[v] = job[v]
  BY <1>1 DEF Job
<1>5. ASSUME NEW p, NEW m
      PROVE  LET j == [job EXCEPT ![w].stage = p, ![w].prepared = m]
                      IN /\ j[w].result = job[w].result /\ j[w].item = job[w].item
                         /\ j[w].token = job[w].token
                         /\ \A v \in Workers \ {w} : j[v] = job[v]
  BY <1>1 DEF Job
<1>6. QED BY <1>2, <1>3, <1>4, <1>5

(* A task that neither holds a claim afterwards nor changes one.           *)
LEMMA AwayStep ==
  ASSUME NEW w \in Workers, Others(w), pc'[w] \notin Holding,
         accepted' = accepted, excused' = excused,
         \A i \in Items : Calm(items[i], items'[i])
  PROVE  TryStep(w)
  BY DEF TryStep, Eases, StaleOK, Unsent, Failing, Trying, Holding

(* A task with a claim, at a step of its attempt that sends nothing.       *)
LEMMA AttemptStep ==
  ASSUME NEW w \in Workers, Others(w), Unsent(w), job'[w].item = job[w].item,
         accepted' = accepted, excused' = excused,
         \A i \in Items : Calm(items[i], items'[i]),
         pc'[w] \in Trying \/ (pc'[w] = "finish_stage" /\ job'[w].result # "stale")
  PROVE  TryStep(w)
<1>1. StaleOK(w)'  BY DEF StaleOK, Trying
<1>2. CASE Unsent(w)'
  <2>1. ~Failing(w)'  BY <1>2 DEF Failing
  <2>2. Eases(w)  BY <1>2, <2>1 DEF Eases
  <2>3. QED BY <1>1, <2>2 DEF TryStep
<1>3. CASE ~Unsent(w)'
  <2>1. EndsTry(w)  BY <1>3 DEF EndsTry
  <2>2. QED BY <1>1, <2>1 DEF TryStep
<1>4. QED BY <1>2, <1>3

(* Every step of the pipeline is of one of these kinds.                    *)
LEMMA TryNext ==
  ASSUME IInv, StaleInv, [Next]_vars
  PROVE  Rests \/ \E w \in Workers : TryStep(w)
<1> USE DEF ledger, disk, budget, history
<1>1. TypeOK  BY DEF IInv
<1>2. \A i \in Items : items[i] \in Item /\ GoodItem(items[i]) /\ items[i].token \in Nat
  BY DEF IInv, TypeOK, ItemInv, Item
<1>3. \A w \in Workers : /\ job[w].item \in Items /\ Current(w) = items[job[w].item]
                         /\ Current(w) \in Item
  BY <1>1, <1>2 DEF TypeOK, Job, Current
<1>4. items' = items => \A i \in Items : Calm(items[i], items'[i])
  BY <1>2, CalmOperations
<1>5. ASSUME NEW w \in Workers, NEW n, SetItem(w, n)
      PROVE  /\ items'[job[w].item] = n
             /\ \A i \in Items \ {job[w].item} : items'[i] = items[i]
             /\ Calm(Current(w), n) => \A i \in Items : Calm(items[i], items'[i])
  <2>1. /\ items'[job[w].item] = n
        /\ \A i \in Items \ {job[w].item} : items'[i] = items[i]
    BY <1>1, <1>3, <1>5 DEF SetItem, TypeOK
  <2>2. \A i \in Items : Calm(items[i], items[i])  BY <1>2, CalmOperations
  <2>3. QED BY <1>3, <2>1, <2>2
<1>6. ASSUME NEW w \in Workers, Return(w) PROVE Others(w) /\ pc'[w] \notin Holding
  BY <1>1, <1>6 DEF Return, Goto, TypeOK, Still, Others, Holding
<1>7. ASSUME NEW w \in Workers, NextItem(w) PROVE Others(w) /\ pc'[w] \notin Holding
  <2>1. CASE Return(w)  BY <1>6, <2>1
  <2>2. CASE ~Return(w)
    BY <1>1, <1>7, <2>2 DEF NextItem, Goto, TypeOK, Still, Others, Holding
  <2>3. QED BY <2>1, <2>2
<1>8. ASSUME NEW w \in Workers,
             \/ \E fp \in Fingerprints : HandleNotification(w, fp)
             \/ RetryPendingDeliveries(w) \/ Crash(w)
      PROVE  TryStep(w)
  <2>1. Others(w) /\ pc'[w] \notin Holding /\ accepted' = accepted /\ excused' = excused /\ items' = items
    BY <1>1, <1>8 DEF HandleNotification, RetryPendingDeliveries, Crash, Goto, TypeOK, Still, Others, Holding
  <2>2. QED BY <1>4, <2>1, AwayStep
<1>9. ASSUME NEW w \in Workers, PersistDeliveryPlan(w) PROVE TryStep(w)
  <2>1. Others(w) /\ pc'[w] \notin Holding /\ accepted' = accepted /\ excused' = excused
    BY <1>1, <1>6, <1>9 DEF PersistDeliveryPlan, Goto, TypeOK, Still, Others, Holding
  <2>2. \A i \in Items : items'[i] = items[i]
    BY <1>9 DEF PersistDeliveryPlan, IInv, PlanInv
  <2>3. \A i \in Items : Calm(items[i], items'[i])  BY <1>2, <2>2, CalmOperations
  <2>4. QED BY <2>1, <2>3, AwayStep
<1>10. ASSUME NEW w \in Workers, ClaimMaterialization(w) PROVE TryStep(w)
  <2>1. Others(w) /\ pc'[w] \notin Holding /\ accepted' = accepted /\ excused' = excused
    BY <1>1, <1>6, <1>10 DEF ClaimMaterialization, Goto, TypeOK, Still, Others, Holding
  <2>2. items' = items \/ SetItem(w, MaterializationClaimed(Current(w)))
    BY <1>10 DEF ClaimMaterialization
  <2>3. Calm(Current(w), MaterializationClaimed(Current(w)))  BY <1>3, CalmOperations
  <2>4. \A i \in Items : Calm(items[i], items'[i])  BY <1>4, <1>5, <2>2, <2>3
  <2>5. QED BY <2>1, <2>4, AwayStep
<1>11. ASSUME NEW w \in Workers, AuthorizeDownload(w) \/ Download(w) \/ Sweep(w) PROVE TryStep(w)
  <2>1. Others(w) /\ pc'[w] \notin Holding /\ accepted' = accepted /\ excused' = excused /\ items' = items
    BY <1>1, <1>11 DEF AuthorizeDownload, Download, Sweep, Goto, TypeOK, Still, Others, Holding
  <2>2. QED BY <1>4, <2>1, AwayStep
<1>12. ASSUME NEW w \in Workers, FinishMaterialization(w) PROVE TryStep(w)
  <2> DEFINE good == Materialized(Current(w), job[w].matToken)
             bad(b) == MaterializationFailed(Current(w), b, job[w].result)
  <2>1. Others(w) /\ pc'[w] \notin Holding /\ accepted' = accepted /\ excused' = excused
    BY <1>1, <1>6, <1>12 DEF FinishMaterialization, Goto, TypeOK, Still, Others, Holding
  <2>2. \/ items' = items
        \/ /\ ActiveMaterialization(Current(w), job[w].matToken)
           /\ SetItem(w, good) \/ \E b : SetItem(w, bad(b))
    BY <1>12 DEF FinishMaterialization
  <2>3. good.status = "pending" /\ \A b : bad(b).status = "failed"
    BY <1>3, MaterializedEffect, MaterializationFailedEffect
  <2> HIDE DEF good, bad
  <2>4. ActiveMaterialization(Current(w), job[w].matToken) => Current(w).status \in {"pending", "failed"}
    BY <1>2, <1>3 DEF ActiveMaterialization, GoodItem, Ready
  <2>5. ASSUME NEW n, SetItem(w, n), n.status \in {"pending", "failed"},
               ActiveMaterialization(Current(w), job[w].matToken)
        PROVE  \A i \in Items : Calm(items[i], items'[i])
    <3>1. Calm(Current(w), n)  BY <2>4, <2>5 DEF Calm
    <3>2. QED BY <1>5, <2>5, <3>1
  <2>6. \A i \in Items : Calm(items[i], items'[i])  BY <1>4, <2>2, <2>3, <2>5
  <2>7. QED BY <2>1, <2>6, AwayStep
<1>13. ASSUME NEW w \in Workers, CleanupAttachmentCache(w) \/ SaveDeliveryRecord(w) PROVE TryStep(w)
  <2>1. Others(w) /\ pc'[w] \notin Holding /\ accepted' = accepted /\ excused' = excused /\ items' = items
    BY <1>6, <1>7, <1>13 DEF CleanupAttachmentCache, SaveDeliveryRecord
  <2>2. QED BY <1>4, <2>1, AwayStep
<1>14. ASSUME NEW w \in Workers, Start(w) PROVE TryStep(w)
  <2>1. Others(w) /\ pc'[w] \notin Holding /\ accepted' = accepted /\ excused' = excused
    BY <1>1, <1>14 DEF Start, Goto, TypeOK, Still, Others, Holding
  <2>2. \A i \in Items : items'[i] = Reconciled(items[i])  BY <1>14 DEF Start
  <2>3. \A i \in Items : Calm(items[i], items'[i])  BY <1>2, <2>2, CalmOperations
  <2>4. QED BY <2>1, <2>3, AwayStep
<1>15. ASSUME NEW w \in Workers, ClaimDeliveryItem(w) PROVE TryStep(w)
  <2>1. CASE ClaimOutcome(Current(w)) # "claimed"
    <3>1. Others(w) /\ pc'[w] \notin Holding /\ accepted' = accepted /\ excused' = excused /\ items' = items
      BY <1>6, <1>7, <1>15, <2>1 DEF ClaimDeliveryItem
    <3>2. QED BY <1>4, <3>1, AwayStep
  <2>2. CASE ClaimOutcome(Current(w)) = "claimed"
    <3> DEFINE it == Current(w)
               k == job[w].item
               c == [unsupported |-> it.unsupported, uploaded |-> it.uploaded,
                     media |-> it.media]
               s == IF it.unsupported THEN "fallback" ELSE "native"
               p == PreparedFrom(c, s)
               none == it.unsupported /\ job[w].item \notin FallbackItems
               m == IF none THEN "no_fallback" ELSE "ok"
               n == [job[w] EXCEPT !.token = it.token + 1,
                         !.claim = c, !.stage = s, !.prepared = p, !.result = m]
    <3>1. job' = [job EXCEPT ![w] = n]
      BY <1>15, <2>2 DEF ClaimDeliveryItem
    <3>2. /\ pc[w] = "claim" /\ SetItem(w, Claimed(it, job[w].path))
          /\ Goto(w, IF none THEN "finish_item" ELSE "authorize")
          /\ excused' = [excused EXCEPT ![k] = IF it.status \in {"sending", "expired"} THEN @ + 1 ELSE @]
          /\ accepted' = accepted
      BY <1>15, <2>2 DEF ClaimDeliveryItem
    <3>3. n.item = k /\ n.result = m
      <4>1. job[w] \in Job  BY <1>1 DEF TypeOK
      <4> HIDE DEF c, s, p, m
      <4>2. QED BY <4>1 DEF Job
    <3> HIDE DEF n
    <3>4. job'[w].item = k /\ job'[w].result = m /\ \A v \in Workers \ {w} : job'[v] = job[v]
      BY <1>1, <3>1, <3>3 DEF TypeOK
    <3>5. /\ pc'[w] = IF none THEN "finish_item" ELSE "authorize"
          /\ \A v \in Workers \ {w} : pc'[v] = pc[v]
      BY <1>1, <3>2 DEF Goto, TypeOK
    <3>6. Others(w)  BY <3>4, <3>5 DEF Others, Still
    <3>7. /\ items'[k].status = "sending" /\ items'[k].token = items[k].token + 1
          /\ \A i \in Items \ {k} : items'[i] = items[i]
      <4>1. job[w].path \in Nat  BY <1>1 DEF TypeOK, Job
      <4>2. Claimed(it, job[w].path).status = "sending" /\ Claimed(it, job[w].path).token = it.token + 1
        BY <1>3, <4>1, ClaimedEffect
      <4>3. QED BY <1>3, <1>5, <3>2, <4>2
    <3>8. it.status \in {"pending", "failed", "sending", "expired"}
      BY <1>3, <2>2 DEF ClaimOutcome, Item, Statuses
    <3>9. /\ \A i \in Items \ {k} : excused'[i] = excused[i]
          /\ \/ items[k].status \in {"pending", "failed"} /\ excused'[k] = excused[k]
             \/ items[k].status \in {"sending", "expired"} /\ excused'[k] = excused[k] + 1
      BY <1>1, <1>3, <3>2, <3>8 DEF TypeOK
    <3>10. /\ ~Unsent(w) /\ ~Failing(w) /\ StaleOK(w)'
           /\ Unsent(w)' \/ Failing(w)'
      BY <3>2, <3>4, <3>5 DEF Unsent, Failing, Trying, StaleOK
    <3>11. TakesClaim(w)  BY <3>2, <3>4, <3>7, <3>9, <3>10 DEF TakesClaim
    <3>12. QED BY <3>6, <3>10, <3>11 DEF TryStep
  <2>3. QED BY <2>1, <2>2
<1>17. ASSUME NEW w \in Workers, Authorize(w) \/ AuthorizePrepared(w) PROVE TryStep(w)
  <2>1. Unsent(w)  BY <1>17 DEF Authorize, AuthorizePrepared, Unsent, Trying
  <2>2. PICK m : /\ AuthorizeDeliveryContext(job[w].item, m)
                 /\ job' = [job EXCEPT ![w].result = m]
                 /\ pc'[w] \in Trying \cup {"finish_stage"}
                 /\ \A v \in Workers \ {w} : pc'[v] = pc[v]
    <3>1. CASE Authorize(w)
      <4>1. PICK m : /\ AuthorizeDeliveryContext(job[w].item, m)
                     /\ job' = [job EXCEPT ![w].result = m]
                     /\ Goto(w, IF m # "ok" THEN "finish_stage"
                                ELSE IF job[w].prepared = "none" THEN "prepare" ELSE "send")
        BY <3>1 DEF Authorize
      <4>2. QED BY <1>1, <4>1 DEF Goto, TypeOK, Trying
    <3>2. CASE AuthorizePrepared(w)
      <4>1. PICK m : /\ AuthorizeDeliveryContext(job[w].item, m)
                     /\ job' = [job EXCEPT ![w].result = m]
                     /\ Goto(w, IF m = "ok" THEN "send" ELSE "finish_stage")
        BY <3>2 DEF AuthorizePrepared
      <4>2. QED BY <1>1, <4>1 DEF Goto, TypeOK, Trying
    <3>3. QED BY <1>17, <3>1, <3>2
  <2>3. m # "stale"  BY <2>2 DEF AuthorizeDeliveryContext, Outages
  <2>4. /\ job'[w].item = job[w].item /\ job'[w].result = m
        /\ \A v \in Workers \ {w} : job'[v] = job[v]
    BY <1>1, <2>2, JobFrame, JobResult
  <2>5. accepted' = accepted /\ excused' = excused /\ items' = items
    BY <1>17 DEF Authorize, AuthorizePrepared
  <2>6. Others(w)  BY <2>2, <2>4 DEF Others, Still
  <2>7. QED BY <1>4, <2>1, <2>2, <2>3, <2>4, <2>5, <2>6, AttemptStep
<1>18. ASSUME NEW w \in Workers, PrepareOutbound(w) PROVE TryStep(w)
  <2>1. Unsent(w) /\ accepted' = accepted /\ excused' = excused
    BY <1>18 DEF PrepareOutbound, Unsent, Trying
  <2>2. \A i \in Items : Calm(items[i], items'[i])
    <3>1. items' = items \/ SetItem(w, UploadRecorded(Current(w), job[w].stage))
      BY <1>18 DEF PrepareOutbound
    <3>2. Calm(Current(w), UploadRecorded(Current(w), job[w].stage))
      BY <1>3, CalmOperations
    <3>3. QED BY <1>4, <1>5, <3>1, <3>2
  <2>3. CASE /\ Goto(w, "finish_stage")
             /\ \E m \in {"file_missing", "upload_failed", "unsupported"} :
                  job' = [job EXCEPT ![w].result = m]
    <3>1. /\ job'[w].item = job[w].item /\ job'[w].result # "stale"
          /\ \A v \in Workers \ {w} : job'[v] = job[v]
      BY <1>1, <2>3, JobFrame, JobResult
    <3>2. pc'[w] = "finish_stage" /\ Others(w)
      BY <1>1, <2>3, <3>1 DEF Goto, TypeOK, Others, Still
    <3>3. QED BY <2>1, <2>2, <3>1, <3>2, AttemptStep
  <2>4. CASE /\ Goto(w, "authorize_prepared")
             /\ job' = job \/ \E m : job' = [job EXCEPT ![w].prepared = m]
    <3>1. /\ job'[w].item = job[w].item
          /\ \A v \in Workers \ {w} : job'[v] = job[v]
      <4>1. CASE job' = job  BY <4>1
      <4>2. CASE \E m : job' = [job EXCEPT ![w].prepared = m]  BY <1>1, <4>2, JobFrame
      <4>3. QED BY <2>4, <4>1, <4>2
    <3>2. pc'[w] \in Trying /\ Others(w)
      BY <1>1, <2>4, <3>1 DEF Goto, TypeOK, Others, Still, Trying
    <3>3. QED BY <2>1, <2>2, <3>1, <3>2, AttemptStep
  <2>5. CASE /\ Goto(w, "finish_item") /\ ~ActiveClaim(Current(w), job[w].token)
             /\ \E p : job' = [job EXCEPT ![w].prepared = p, ![w].result = "stale"]
             /\ items' = items
    <3>1. /\ job'[w].item = job[w].item /\ job'[w].result = "stale"
          /\ job'[w].token = job[w].token
          /\ \A v \in Workers \ {w} : job'[v] = job[v]
      <4>1. PICK p : job' = [job EXCEPT ![w].prepared = p, ![w].result = "stale"]  BY <2>5
      <4> DEFINE j == [job EXCEPT ![w].prepared = p, ![w].result = "stale"]
      <4>2. /\ j[w].item = job[w].item /\ j[w].result = "stale" /\ j[w].token = job[w].token
            /\ \A v \in Workers \ {w} : j[v] = job[v]
        BY <1>1 DEF TypeOK, Job
      <4>3. job' = j  BY <4>1
      <4> HIDE DEF j
      <4>4. QED BY <4>2, <4>3
    <3>2. pc'[w] = "finish_item" /\ Others(w)
      BY <1>1, <2>5, <3>1 DEF Goto, TypeOK, Others, Still
    <3>3. ~Unsent(w)' /\ ~Failing(w)'  BY <3>1, <3>2 DEF Unsent, Failing, Trying
    <3>4. StaleOK(w)'  BY <2>5, <3>1, <3>2 DEF StaleOK, Current
    <3>5. EndsTry(w)  BY <2>1, <2>2, <3>1, <3>3 DEF EndsTry
    <3>6. QED BY <3>2, <3>4, <3>5 DEF TryStep
  <2>6. QED BY <1>18, <2>3, <2>4, <2>5 DEF PrepareOutbound
<1>19. ASSUME NEW w \in Workers, SendOutbound(w) PROVE TryStep(w)
  <2> DEFINE k == job[w].item
  <2>1. Unsent(w) /\ items' = items  BY <1>19 DEF SendOutbound, Unsent, Trying
  <2>2. PICK m \in {"ok", "unconfirmed", "unavailable", "rejected", "unsupported"} :
          /\ job' = [job EXCEPT ![w].result = m]
          /\ \/ m = "ok" /\ accepted' = [accepted EXCEPT ![k] = @ + 1] /\ excused' = excused
             \/ /\ m = "unconfirmed"
                /\ accepted' = [accepted EXCEPT ![k] = @ + 1]
                /\ excused' = [excused EXCEPT ![k] = @ + 1]
             \/ accepted' = accepted /\ excused' = excused
    BY <1>19 DEF SendOutbound
  <2>3. /\ job'[w].item = k /\ job'[w].result = m
        /\ \A v \in Workers \ {w} : job'[v] = job[v]
    BY <1>1, <2>2, JobFrame, JobResult
  <2>4. pc'[w] = "finish_stage" /\ \A v \in Workers \ {w} : pc'[v] = pc[v]
    BY <1>1, <1>19 DEF SendOutbound, Goto, TypeOK
  <2>5. Others(w)  BY <2>3, <2>4 DEF Others, Still
  <2>6. CASE accepted' = accepted /\ excused' = excused
    BY <1>4, <2>1, <2>2, <2>3, <2>4, <2>5, <2>6, AttemptStep
  <2>7. CASE m \in {"ok", "unconfirmed"} /\ ~(accepted' = accepted /\ excused' = excused)
    <3>1. ~Unsent(w)' /\ (m = "ok" => ~Failing(w)') /\ StaleOK(w)'
      BY <2>3, <2>4, <2>7 DEF Unsent, Failing, Trying, StaleOK
    <3>2. /\ \A i \in Items \ {k} : accepted'[i] = accepted[i] /\ excused'[i] = excused[i]
          /\ \/ accepted'[k] = accepted[k] + 1 /\ excused'[k] = excused[k] + 1
             \/ accepted'[k] = accepted[k] + 1 /\ excused'[k] = excused[k] /\ m = "ok"
      BY <1>1, <1>3, <2>2, <2>7 DEF TypeOK
    <3>3. EndsTry(w)  BY <1>4, <2>1, <2>3, <3>1, <3>2 DEF EndsTry
    <3>4. QED BY <2>5, <3>1, <3>3 DEF TryStep
  <2>8. QED BY <2>2, <2>6, <2>7
<1>20. ASSUME NEW w \in Workers, FinishDeliveryStage(w) PROVE TryStep(w)
  <2> DEFINE active == ActiveClaim(Current(w), job[w].token)
  <2>1. /\ pc[w] = "finish_stage" /\ accepted' = accepted /\ excused' = excused
        /\ job[w].result # "stale"
    BY <1>20 DEF FinishDeliveryStage, StaleInv, StaleOK
  <2>2. \A i \in Items : Calm(items[i], items'[i])
    <3>1. items' = items
          \/ \E s, b, p : SetItem(w, StageFinished(Current(w), s, b, p))
      BY <1>20 DEF FinishDeliveryStage
    <3>2. \A s, b, p : Calm(Current(w), StageFinished(Current(w), s, b, p))
      BY <1>3, CalmOperations
    <3>3. QED BY <1>4, <1>5, <3>1, <3>2
  <2>3. CASE /\ Goto(w, "authorize") /\ job[w].result = "unsupported"
             /\ \E s, p : job' = [job EXCEPT ![w].stage = s, ![w].prepared = p]
    <3>1. /\ job'[w].item = job[w].item
          /\ \A v \in Workers \ {w} : job'[v] = job[v]
      <4>1. PICK s, p : job' = [job EXCEPT ![w].stage = s, ![w].prepared = p]  BY <2>3
      <4> DEFINE j == [job EXCEPT ![w].stage = s, ![w].prepared = p]
      <4>2. j[w].item = job[w].item /\ \A v \in Workers \ {w} : j[v] = job[v]
        BY <1>1 DEF TypeOK, Job
      <4>3. job' = j  BY <4>1
      <4> HIDE DEF j
      <4>4. QED BY <4>2, <4>3
    <3>2. pc'[w] \in Trying /\ Others(w)
      BY <1>1, <2>3, <3>1 DEF Goto, TypeOK, Others, Still, Trying
    <3>3. Unsent(w)  BY <2>1, <2>3 DEF Unsent
    <3>4. QED BY <2>1, <2>2, <3>1, <3>2, <3>3, AttemptStep
  <2>4. CASE Goto(w, "finish_item") /\ job' = job
    <3>1. pc'[w] = "finish_item" /\ Others(w)
      BY <1>1, <2>4 DEF Goto, TypeOK, Others, Still
    <3>2. ~Unsent(w)' /\ StaleOK(w)'
      BY <2>1, <2>4, <3>1 DEF Unsent, Trying, StaleOK
    <3>3. CASE Unsent(w)
      <4>1. EndsTry(w)  BY <2>1, <2>2, <2>4, <3>2, <3>3 DEF EndsTry
      <4>2. QED BY <3>1, <3>2, <4>1 DEF TryStep
    <3>4. CASE ~Unsent(w)
      <4>1. Failing(w)' => Failing(w)  BY <2>1, <2>4, <3>4 DEF Failing
      <4>2. Eases(w)  BY <2>1, <2>2, <2>4, <3>2, <4>1 DEF Eases
      <4>3. QED BY <3>1, <3>2, <4>2 DEF TryStep
    <3>5. QED BY <3>3, <3>4
  <2>5. CASE /\ ~active /\ Goto(w, "finish_item")
             /\ job' = [job EXCEPT ![w].result = "stale"]
             /\ items' = items
    <3>1. /\ job'[w].item = job[w].item /\ job'[w].result = "stale"
          /\ job'[w].token = job[w].token
          /\ \A v \in Workers \ {w} : job'[v] = job[v]
      BY <1>1, <2>5, JobFrame, JobResult
    <3>2. pc'[w] = "finish_item" /\ Others(w)
      BY <1>1, <2>5, <3>1 DEF Goto, TypeOK, Others, Still
    <3>3. ~Unsent(w)' /\ ~Failing(w)'  BY <3>1, <3>2 DEF Unsent, Failing, Trying
    <3>4. StaleOK(w)'  BY <2>5, <3>1, <3>2 DEF StaleOK, Current
    <3>5. Eases(w)  BY <2>1, <2>2, <3>3 DEF Eases
    <3>6. QED BY <3>2, <3>4, <3>5 DEF TryStep
  <2>6. QED BY <1>20, <2>3, <2>4, <2>5 DEF FinishDeliveryStage
<1>21. ASSUME NEW w \in Workers, FinishDeliveryItem(w) PROVE TryStep(w)
  <2> DEFINE k == job[w].item
             ok == job[w].result = "ok"
             retryable == ~ok /\ MapDeliveryFailure(job[w].result)
             status == IF ok THEN "succeeded" ELSE "failed"
             n == ItemFinished(Current(w), status, retryable, job[w].result,
                               job[w].prepared)
  <2>1. /\ pc[w] = "finish_item" /\ accepted' = accepted /\ excused' = excused
        /\ \/ ActiveClaim(Current(w), job[w].token) /\ SetItem(w, n)
           \/ items' = items
        /\ \/ Return(w) \/ NextItem(w)
           \/ Goto(w, "cleanup") /\ \E m : job' = [job EXCEPT ![w].cleanup = m]
    BY <1>21 DEF FinishDeliveryItem
  <2>2. Others(w) /\ pc'[w] \notin Holding
    <3>1. CASE Goto(w, "cleanup") /\ \E m : job' = [job EXCEPT ![w].cleanup = m]
      <4>1. \A v \in Workers \ {w} : job'[v] = job[v]  BY <1>1, <3>1, JobFrame
      <4>2. QED BY <1>1, <3>1, <4>1 DEF Goto, TypeOK, Others, Still, Holding
    <3>2. QED BY <1>6, <1>7, <2>1, <3>1
  <2>3. n.status = status
    <3> HIDE DEF status, retryable
    <3>1. QED BY <1>3, ItemFinishedEffect
  <2>4. CASE items' = items  BY <1>4, <2>1, <2>2, <2>4, AwayStep
  <2>5. CASE ok /\ SetItem(w, n)
    <3>1. Calm(Current(w), n)
      <4>1. n.status = "succeeded"  BY <2>3, <2>5
      <4> HIDE DEF n
      <4>2. QED BY <4>1 DEF Calm
    <3> HIDE DEF n
    <3>2. QED BY <1>5, <2>1, <2>2, <2>5, <3>1, AwayStep
  <2>6. CASE ~ok /\ ActiveClaim(Current(w), job[w].token) /\ SetItem(w, n)
    <3>1. n.status = "failed"  BY <2>3, <2>6
    <3> HIDE DEF n
    <3>2. items'[k].status = "failed" /\ \A i \in Items \ {k} : items'[i] = items[i]
      BY <1>5, <2>6, <3>1
    <3>3. items[k].status = "sending" /\ job[w].token = items[k].token
      BY <1>3, <2>6 DEF ActiveClaim
    <3>4. job[w].result # "stale"  BY <2>1, <2>6 DEF StaleInv, StaleOK
    <3>5. Gives(w, k)  BY <2>1, <2>6, <3>3, <3>4 DEF Gives, Failing, Unsent, Trying
    <3>6. ~Unsent(w)' /\ ~Failing(w)' /\ StaleOK(w)'
      BY <2>2 DEF Unsent, Failing, Trying, Holding, StaleOK
    <3>7. GivesUp(w)  BY <2>1, <3>2, <3>3, <3>5, <3>6 DEF GivesUp
    <3>8. QED BY <2>2, <3>6, <3>7 DEF TryStep
  <2>7. QED BY <2>1, <2>4, <2>5, <2>6
<1>22. ASSUME NEW j \in Items, LeaseExpires(j) \/ MaterializationLeaseExpires(j) PROVE Rests
  <2>1. \A i \in Items : \/ items'[i] = items[i]
                         \/ items'[i] = [items[i] EXCEPT !.leased = FALSE]
                         \/ items'[i] = [items[i] EXCEPT !.matLeased = FALSE]
    BY <1>1, <1>22 DEF LeaseExpires, MaterializationLeaseExpires, TypeOK
  <2>2. \A i \in Items : Calm(items[i], items'[i])  BY <1>2, <2>1, CalmOperations
  <2>3. QED BY <1>22, <2>2 DEF LeaseExpires, MaterializationLeaseExpires, Rests, Still
<1>23. CASE DayPasses
  <2>1. \A i \in Items : items'[i] = [items[i] EXCEPT !.old = TRUE]  BY <1>23 DEF DayPasses
  <2>2. \A i \in Items : Calm(items[i], items'[i])  BY <1>2, <2>1, CalmOperations
  <2>3. QED BY <1>23, <2>2 DEF DayPasses, Rests, Still
<1>24. CASE Revoke \/ UNCHANGED vars
  BY <1>4, <1>24 DEF Revoke, vars, Rests, Still
<1>25. ASSUME NEW w \in Workers, Step(w) PROVE TryStep(w)
  BY <1>9, <1>10, <1>11, <1>12, <1>13, <1>14, <1>15, <1>17, <1>18, <1>19, <1>20, <1>21, <1>25
  DEF Step
<1>26. QED
  BY <1>8, <1>22, <1>23, <1>24, <1>25 DEF Next

(* The user sees an item twice only for a reason: claim_delivery_item and  *)
(* send_outbound let a second acceptance through only after an answer the  *)
(* provider lost or a claim that was taken over.                           *)
THEOREM DuplicatesStayExcused == Spec => []DuplicatesAreExcused
<1> DEFINE Inv == CountInv /\ StaleInv
<1>1. Init => Inv
  <2> SUFFICES ASSUME Init PROVE Inv  OBVIOUS
  <2>1. \A i \in Items : Tries(i) = {}  BY DEF Init, Tries, Unsent, Trying
  <2>2. \A i \in Items : accepted[i] = 0 /\ excused[i] = 0  BY DEF Init
  <2>3. \A i \in Items : Spare(i) \in {0, 1}  BY DEF Spare
  <2>4. CountInv  BY <2>1, <2>2, <2>3, FS_EmptySet DEF CountInv, CountOK
  <2>5. StaleInv  BY DEF Init, StaleInv, StaleOK
  <2>6. QED BY <2>4, <2>5
<1>2. IInv /\ Inv /\ [Next]_vars => Inv'
  <2> SUFFICES ASSUME IInv, Inv, [Next]_vars PROVE Inv'  OBVIOUS
  <2>1. TypeOK /\ TypeOK' /\ TaskInv  BY TypeNext DEF IInv
  <2>2. Rests \/ \E w \in Workers : TryStep(w)  BY TryNext
  <2>3. QED BY <2>1, <2>2, StaleStep, CountRests, CountStep
<1>3. TypeOK /\ Inv => DuplicatesAreExcused
  <2> SUFFICES ASSUME TypeOK, Inv, NEW i \in Items PROVE accepted[i] <= 1 + excused[i]
    BY DEF DuplicatesAreExcused
  <2>1. CountOK(i)  BY DEF CountInv
  <2>2. Cardinality(Tries(i)) \in Nat  BY <2>1, FS_CardinalityType DEF CountOK
  <2>3. accepted[i] \in Nat /\ excused[i] \in Nat /\ Spare(i) \in {0, 1}
    BY DEF TypeOK, Spare
  <2>4. QED BY <2>1, <2>2, <2>3 DEF CountOK
<1> HIDE DEF Inv
<1>4. QED BY <1>1, <1>2, <1>3, TypeCorrect, Invariance, PTL DEF Spec

-----------------------------------------------------------------------------
(* Uploads.  A claim that is still live fixes the stage of its item, so    *)
(* the upload that send_delivery_stage finds or makes belongs to it.       *)

(* The upload kept by an item is that of the fallback only once the native *)
(* stage was refused (finish_delivery_stage).                              *)
UploadItem(it) == it.media = "fallback" => it.unsupported

(* A task that holds a claim works on the stage that its item is in, and   *)
(* what it prepared or found in its claim is not of the other stage.       *)
UploadTask(w) ==
  pc[w] \in Holding =>
    /\ job[w].prepared \in {"none", job[w].stage}
    /\ job[w].stage = "native" => job[w].claim.media # "fallback"
    /\ ActiveClaim(Current(w), job[w].token) =>
         IF job[w].stage = "fallback" THEN Current(w).unsupported
         ELSE pc[w] = "finish_item" \/ ~Current(w).unsupported

(* The uploads of all items and tasks.                                     *)
UploadInv == (\A i \in Items : UploadItem(items[i])) /\ \A w \in Workers : UploadTask(w)

(* A write that leaves the upload and the verdict on the stage alone.      *)
SameUploads(a, b) == b.media = a.media /\ b.unsupported = a.unsupported

(* A step of one task, as far as uploads go: only under its live claim     *)
(* does it change the verdict on the stage.                                *)
UploadStep(w) ==
  /\ Others(w) /\ UploadTask(w)'
  /\ \A i \in Items : UploadItem(items'[i])
  /\ \A i \in Items \ {job[w].item} : SameUploads(items[i], items'[i])
  /\ \/ items'[job[w].item].unsupported = Current(w).unsupported
     \/ pc[w] \in Holding /\ ActiveClaim(Current(w), job[w].token)

(* The operations that leave uploads and the verdict on the stage alone.   *)
LEMMA KeepsUploads ==
  ASSUME NEW it \in Item
  PROVE  /\ \A p : SameUploads(it, Claimed(it, p))
         /\ SameUploads(it, MaterializationClaimed(it))
         /\ \A f : SameUploads(it, Materialized(it, f))
         /\ \A b, m : SameUploads(it, MaterializationFailed(it, b, m))
         /\ SameUploads(it, Reconciled(it))
         /\ SameUploads(it, it)
         /\ SameUploads(it, [it EXCEPT !.leased = FALSE])
         /\ SameUploads(it, [it EXCEPT !.matLeased = FALSE])
         /\ SameUploads(it, [it EXCEPT !.old = TRUE])
<1> USE DEF SameUploads
<1>1. ASSUME NEW p PROVE SameUploads(it, Claimed(it, p))  BY DEF Claimed, Item
<1>5. SameUploads(it, MaterializationClaimed(it))  BY DEF MaterializationClaimed, Item
<1>6. ASSUME NEW f PROVE SameUploads(it, Materialized(it, f))  BY DEF Materialized, Item
<1>7. ASSUME NEW b, NEW m PROVE SameUploads(it, MaterializationFailed(it, b, m))
  BY DEF MaterializationFailed, Item
<1>8. SameUploads(it, Reconciled(it))
  <2> DEFINE x == [it EXCEPT !.cache = NoFile, !.status = "expired",
                             !.retryable = FALSE, !.error = "cache_expired",
                             !.leased = FALSE, !.old = FALSE]
             y == [it EXCEPT !.cache = NoFile, !.old = FALSE]
  <2>1. SameUploads(it, x) /\ SameUploads(it, y)  BY DEF Item
  <2>2. Reconciled(it) \in {it, x, y}  BY Zenon DEF Reconciled
  <2> HIDE DEF x, y
  <2>3. QED BY <2>1, <2>2
<1>9. SameUploads(it, [it EXCEPT !.leased = FALSE]) /\ SameUploads(it, [it EXCEPT !.matLeased = FALSE])
      /\ SameUploads(it, [it EXCEPT !.old = TRUE]) /\ SameUploads(it, it)
  BY DEF Item
<1> HIDE DEF SameUploads
<1>10. QED BY <1>1, <1>5, <1>6, <1>7, <1>8, <1>9

(* record_delivery_item_upload, on what uploads are judged by.             *)
LEMMA UploadRecordedMedia ==
  ASSUME NEW it \in Item, NEW s
  PROVE  /\ UploadRecorded(it, s).media = s
         /\ UploadRecorded(it, s).unsupported = it.unsupported
  BY DEF UploadRecorded, Item

(* finish_delivery_stage, on what uploads are judged by.                   *)
LEMMA StageFinishedMedia ==
  ASSUME NEW it \in Item, NEW s, NEW b, NEW p
  PROVE  /\ StageFinished(it, s, b, p).media = it.media
         /\ StageFinished(it, s, b, p).unsupported = IF s = "native" THEN b ELSE it.unsupported
  BY DEF StageFinished, Item

(* finish_delivery_item, on what uploads are judged by.                    *)
LEMMA ItemFinishedMedia ==
  ASSUME NEW it \in Item, NEW s, NEW b, NEW m, NEW p
  PROVE  /\ ItemFinished(it, s, b, m, p).media = IF p = "none" THEN it.media ELSE p
         /\ ItemFinished(it, s, b, m, p).unsupported = it.unsupported
  BY DEF ItemFinished, Item

(* Assignments to a task's memory, as far as they matter to uploads.       *)
LEMMA UploadFrame ==
  ASSUME TypeOK, NEW w \in Workers
  PROVE  LET Same(j) == /\ j[w].item = job[w].item /\ j[w].token = job[w].token
                        /\ j[w].stage = job[w].stage /\ j[w].claim = job[w].claim
                        /\ \A v \in Workers \ {w} : j[v] = job[v]
         IN  /\ \A m : LET j == [job EXCEPT ![w].result = m]
                       IN Same(j) /\ j[w].prepared = job[w].prepared
             /\ \A p : LET j == [job EXCEPT ![w].prepared = p] IN Same(j) /\ j[w].prepared = p
             /\ \A p, m : LET j == [job EXCEPT ![w].prepared = p, ![w].result = m]
                          IN Same(j) /\ j[w].prepared = p
             /\ \A s, p : LET j == [job EXCEPT ![w].stage = s, ![w].prepared = p]
                          IN /\ j[w].item = job[w].item /\ j[w].token = job[w].token
                             /\ j[w].stage = s /\ j[w].prepared = p /\ j[w].claim = job[w].claim
                             /\ \A v \in Workers \ {w} : j[v] = job[v]
<1>1. job \in [Workers -> Job] /\ job[w] \in Job  BY DEF TypeOK
<1> DEFINE Same(j) == /\ j[w].item = job[w].item /\ j[w].token = job[w].token
                        /\ j[w].stage = job[w].stage /\ j[w].claim = job[w].claim
                        /\ \A v \in Workers \ {w} : j[v] = job[v]
<1>2. ASSUME NEW m PROVE LET j == [job EXCEPT ![w].result = m]
                       IN Same(j) /\ j[w].prepared = job[w].prepared
  BY <1>1 DEF Job
<1>3. ASSUME NEW p PROVE LET j == [job EXCEPT ![w].prepared = p] IN Same(j) /\ j[w].prepared = p
  BY <1>1 DEF Job
<1>4. ASSUME NEW p, NEW m PROVE LET j == [job EXCEPT ![w].prepared = p, ![w].result = m]
                          IN Same(j) /\ j[w].prepared = p
  BY <1>1 DEF Job
<1>5. ASSUME NEW s, NEW p PROVE LET j == [job EXCEPT ![w].stage = s, ![w].prepared = p]
                          IN /\ j[w].item = job[w].item /\ j[w].token = job[w].token
                             /\ j[w].stage = s /\ j[w].prepared = p /\ j[w].claim = job[w].claim
                             /\ \A v \in Workers \ {w} : j[v] = job[v]
  BY <1>1 DEF Job
<1>6. QED BY <1>2, <1>3, <1>4, <1>5

(* A step of the clock or of Beacon, as far as uploads go.                 *)
UploadRests == /\ \A v \in Workers : Still(v)
               /\ \A i \in Items : SameUploads(items[i], items'[i])

(* A task that holds no claim afterwards and changed no upload.            *)
LEMMA UploadAway ==
  ASSUME UploadInv, NEW w \in Workers, Others(w), pc'[w] \notin Holding, job[w].item \in Items,
         \A i \in Items : SameUploads(items[i], items'[i])
  PROVE  UploadStep(w)
  BY DEF UploadStep, UploadInv, UploadItem, UploadTask, SameUploads, Current

(* Every step of the pipeline is of one of these two kinds.                *)
LEMMA UploadNext ==
  ASSUME IInv, UploadInv, [Next]_vars
  PROVE  UploadRests \/ \E w \in Workers : UploadStep(w)
<1> USE DEF ledger, disk, budget, history
<1>1. TypeOK  BY DEF IInv
<1>2. \A i \in Items : items[i] \in Item  BY <1>1 DEF TypeOK
<1>3. \A w \in Workers : /\ job[w].item \in Items /\ Current(w) = items[job[w].item]
                         /\ Current(w) \in Item /\ job[w].stage \in Stages /\ job[w] \in Job
                         /\ job[w].claim.media \in Stages \cup {"none"}
  BY <1>1, <1>2 DEF TypeOK, Job, Current
<1>4. items' = items => \A i \in Items : SameUploads(items[i], items'[i])
  BY DEF SameUploads
<1>5. ASSUME NEW w \in Workers, NEW n, SetItem(w, n)
      PROVE  /\ items'[job[w].item] = n
             /\ \A i \in Items \ {job[w].item} :
                  items'[i] = items[i] /\ SameUploads(items[i], items'[i])
             /\ SameUploads(Current(w), n) => \A i \in Items : SameUploads(items[i], items'[i])
  <2>1. /\ items'[job[w].item] = n
        /\ \A i \in Items \ {job[w].item} : items'[i] = items[i]
    BY <1>1, <1>3, <1>5 DEF SetItem, TypeOK
  <2>2. QED BY <1>3, <2>1 DEF SameUploads
<1>6. ASSUME NEW w \in Workers, Return(w) PROVE Others(w) /\ pc'[w] \notin Holding
  BY <1>1, <1>6 DEF Return, Goto, TypeOK, Still, Others, Holding
<1>7. ASSUME NEW w \in Workers, NextItem(w) PROVE Others(w) /\ pc'[w] \notin Holding
  <2>1. CASE Return(w)  BY <1>6, <2>1
  <2>2. CASE ~Return(w)
    BY <1>1, <1>7, <2>2 DEF NextItem, Goto, TypeOK, Still, Others, Holding
  <2>3. QED BY <2>1, <2>2
<1>8. ASSUME NEW w \in Workers,
             \/ \E fp \in Fingerprints : HandleNotification(w, fp)
             \/ RetryPendingDeliveries(w) \/ Crash(w) \/ Sweep(w)
             \/ AuthorizeDownload(w) \/ Download(w)
      PROVE  UploadStep(w)
  <2>1. Others(w) /\ pc'[w] \notin Holding /\ items' = items
    BY <1>1, <1>8 DEF HandleNotification, RetryPendingDeliveries, Crash, Sweep, AuthorizeDownload,
                      Download, Goto, TypeOK, Still, Others, Holding
  <2>2. QED BY <1>3, <1>4, <2>1, UploadAway
<1>9. ASSUME NEW w \in Workers, PersistDeliveryPlan(w) PROVE UploadStep(w)
  <2>1. Others(w) /\ pc'[w] \notin Holding
    BY <1>1, <1>6, <1>9 DEF PersistDeliveryPlan, Goto, TypeOK, Still, Others, Holding
  <2>2. \A i \in Items : items'[i] = items[i]
    BY <1>9 DEF PersistDeliveryPlan, IInv, PlanInv
  <2>3. QED BY <1>3, <2>1, <2>2, UploadAway DEF SameUploads
<1>10. ASSUME NEW w \in Workers, ClaimMaterialization(w) \/ FinishMaterialization(w) PROVE UploadStep(w)
  <2> DEFINE it == Current(w)
  <2>1. Others(w) /\ pc'[w] \notin Holding
    BY <1>1, <1>6, <1>10 DEF ClaimMaterialization, FinishMaterialization, Goto, TypeOK, Still, Others, Holding
  <2>2. \/ items' = items \/ SetItem(w, MaterializationClaimed(it))
        \/ \E f : SetItem(w, Materialized(it, f))
        \/ \E b, m : SetItem(w, MaterializationFailed(it, b, m))
    BY <1>10 DEF ClaimMaterialization, FinishMaterialization
  <2>3. \A i \in Items : SameUploads(items[i], items'[i])
    BY <1>3, <1>4, <1>5, <2>2, KeepsUploads
  <2>4. QED BY <1>3, <2>1, <2>3, UploadAway
<1>11. ASSUME NEW w \in Workers, CleanupAttachmentCache(w) \/ SaveDeliveryRecord(w) PROVE UploadStep(w)
  <2>1. Others(w) /\ pc'[w] \notin Holding /\ items' = items
    BY <1>6, <1>7, <1>11 DEF CleanupAttachmentCache, SaveDeliveryRecord
  <2>2. QED BY <1>3, <1>4, <2>1, UploadAway
<1>12. ASSUME NEW w \in Workers, Start(w) PROVE UploadStep(w)
  <2>1. Others(w) /\ pc'[w] \notin Holding
    BY <1>1, <1>12 DEF Start, Goto, TypeOK, Still, Others, Holding
  <2>2. \A i \in Items : items'[i] = Reconciled(items[i])  BY <1>12 DEF Start
  <2>3. \A i \in Items : SameUploads(items[i], items'[i])  BY <1>2, <2>2, KeepsUploads
  <2>4. QED BY <1>3, <2>1, <2>3, UploadAway
<1>13. ASSUME NEW w \in Workers, ClaimDeliveryItem(w) PROVE UploadStep(w)
  <2>1. CASE ClaimOutcome(Current(w)) # "claimed"
    <3>1. Others(w) /\ pc'[w] \notin Holding /\ items' = items
      BY <1>6, <1>7, <1>13, <2>1 DEF ClaimDeliveryItem
    <3>2. QED BY <1>3, <1>4, <3>1, UploadAway
  <2>2. CASE ClaimOutcome(Current(w)) = "claimed"
    <3> DEFINE it == Current(w)
               c == [unsupported |-> it.unsupported, uploaded |-> it.uploaded,
                     media |-> it.media]
               s == IF it.unsupported THEN "fallback" ELSE "native"
               p == PreparedFrom(c, s)
               none == it.unsupported /\ job[w].item \notin FallbackItems
               m == IF none THEN "no_fallback" ELSE "ok"
               n == [job[w] EXCEPT !.token = it.token + 1,
                         !.claim = c, !.stage = s, !.prepared = p, !.result = m]
    <3>1. job' = [job EXCEPT ![w] = n] /\ SetItem(w, Claimed(it, job[w].path))
          /\ Goto(w, IF none THEN "finish_item" ELSE "authorize")
      BY <1>13, <2>2 DEF ClaimDeliveryItem
    <3>2. n.item = job[w].item /\ n.stage = s /\ n.prepared = p /\ n.claim = c
      <4> HIDE DEF c, s, p, m
      <4>1. QED BY <1>3 DEF Job
    <3>3. UploadItem(it)  BY <1>3 DEF UploadInv
    <3>4. c.media = it.media /\ c.uploaded = it.uploaded  OBVIOUS
    <3>5. it.media \in Stages \cup {"none"}  BY <1>3 DEF Item
    <3>6. p \in {"none", s} /\ (s = "native" => it.media # "fallback")
          /\ (s = "fallback" <=> it.unsupported)
      <4> HIDE DEF c
      <4>1. QED BY <3>3, <3>4, <3>5 DEF PreparedFrom, UploadItem, Stages
    <3> HIDE DEF n, c, p
    <3>7. /\ job'[w].item = job[w].item /\ job'[w].stage = s /\ job'[w].prepared = p
          /\ job'[w].claim.media = it.media
          /\ \A v \in Workers \ {w} : job'[v] = job[v]
      BY <1>1, <3>1, <3>2, <3>4 DEF TypeOK
    <3>8. Others(w)
      BY <1>1, <3>1, <3>7 DEF Goto, TypeOK, Others, Still
    <3>9. \A i \in Items : SameUploads(items[i], items'[i])
      BY <1>3, <1>5, <3>1, KeepsUploads
    <3>10. items'[job[w].item].unsupported = it.unsupported  BY <1>3, <3>9 DEF SameUploads
    <3>11. s \in {"native", "fallback"}  OBVIOUS
    <3> HIDE DEF s
    <3>12. UploadTask(w)'  BY <3>6, <3>7, <3>10, <3>11 DEF UploadTask, Current
    <3>13. QED BY <3>8, <3>9, <3>10, <3>12 DEF UploadStep, UploadInv, UploadItem, SameUploads
  <2>3. QED BY <2>1, <2>2
<1>14. ASSUME NEW w \in Workers, pc[w] \in Holding, items' = items, NEW to \in Holding, Goto(w, to),
              to # "finish_item" => pc[w] # "finish_item",
              \/ job' = job \/ \E m : job' = [job EXCEPT ![w].result = m]
              \/ \E m : job' = [job EXCEPT ![w].prepared = job[w].stage, ![w].result = m]
       PROVE  UploadStep(w)
  <2>1. /\ job'[w].item = job[w].item /\ job'[w].token = job[w].token
        /\ job'[w].stage = job[w].stage /\ job'[w].claim = job[w].claim
        /\ job'[w].prepared \in {job[w].prepared, job[w].stage}
        /\ \A v \in Workers \ {w} : job'[v] = job[v]
    <3>1. CASE job' = job  BY <3>1
    <3>2. CASE \E m : job' = [job EXCEPT ![w].result = m]  BY <1>1, <3>2, UploadFrame
    <3>3. CASE \E m : job' = [job EXCEPT ![w].prepared = job[w].stage, ![w].result = m]
      BY <1>1, <3>3, UploadFrame
    <3>4. QED BY <1>14, <3>1, <3>2, <3>3
  <2>2. pc'[w] = to /\ Others(w)
    BY <1>1, <1>14, <2>1 DEF Goto, TypeOK, Others, Still
  <2>3. UploadTask(w)  BY DEF UploadInv
  <2>4. UploadTask(w)'  BY <1>14, <2>1, <2>2, <2>3 DEF UploadTask, Current
  <2>5. QED BY <1>14, <2>2, <2>4 DEF UploadStep, UploadInv, SameUploads, Current
<1>15. ASSUME NEW w \in Workers, Authorize(w) PROVE UploadStep(w)
  BY <1>14, <1>15 DEF Authorize, Holding
<1>16. ASSUME NEW w \in Workers, AuthorizePrepared(w) PROVE UploadStep(w)
  BY <1>14, <1>16 DEF AuthorizePrepared, Holding
<1>17. ASSUME NEW w \in Workers, SendOutbound(w) PROVE UploadStep(w)
  <2>1. /\ pc[w] = "send" /\ items' = items /\ Goto(w, "finish_stage")
        /\ \E m : job' = [job EXCEPT ![w].result = m]
    BY <1>17 DEF SendOutbound
  <2>2. {"send", "finish_stage"} \subseteq Holding  BY DEF Holding
  <2>3. QED BY <1>14, <2>1, <2>2
<1>18. ASSUME NEW w \in Workers, PrepareOutbound(w) PROVE UploadStep(w)
  <2> DEFINE n == UploadRecorded(Current(w), job[w].stage)
  <2>1. pc[w] = "prepare" /\ {"prepare", "authorize_prepared", "finish_stage", "finish_item"} \subseteq Holding
    BY <1>18 DEF PrepareOutbound, Holding
  <2>2. CASE /\ items' = items /\ Goto(w, "finish_stage")
             /\ \E m : job' = [job EXCEPT ![w].result = m]
    BY <1>14, <2>1, <2>2
  <2>3. CASE items' = items /\ Goto(w, "authorize_prepared") /\ job' = job
    BY <1>14, <2>1, <2>3
  <2>4. CASE /\ items' = items /\ Goto(w, "finish_item")
             /\ \E m : job' = [job EXCEPT ![w].prepared = job[w].stage, ![w].result = m]
    BY <1>14, <2>1, <2>4
  <2>5. CASE /\ ActiveClaim(Current(w), job[w].token) /\ SetItem(w, n)
             /\ job' = [job EXCEPT ![w].prepared = job[w].stage]
             /\ Goto(w, "authorize_prepared")
    <3>1. /\ job'[w].item = job[w].item /\ job'[w].token = job[w].token
          /\ job'[w].stage = job[w].stage /\ job'[w].claim = job[w].claim
          /\ job'[w].prepared = job[w].stage
          /\ \A v \in Workers \ {w} : job'[v] = job[v]
      BY <1>1, <2>5, UploadFrame
    <3>2. pc'[w] = "authorize_prepared" /\ Others(w)
      BY <1>1, <2>5, <3>1 DEF Goto, TypeOK, Others, Still
    <3>3. /\ n.media = job[w].stage /\ n.unsupported = Current(w).unsupported
      BY <1>3, UploadRecordedMedia
    <3> HIDE DEF n
    <3>4. items'[job[w].item] = n /\ \A i \in Items \ {job[w].item} :
             items'[i] = items[i] /\ SameUploads(items[i], items'[i])
      BY <1>5, <2>5
    <3>5. UploadTask(w)  BY DEF UploadInv
    <3>6. IF job[w].stage = "fallback" THEN n.unsupported ELSE ~n.unsupported
      BY <2>1, <2>5, <3>3, <3>5 DEF UploadTask
    <3>7. UploadTask(w)'
      BY <2>1, <3>1, <3>2, <3>4, <3>5, <3>6 DEF UploadTask, Current
    <3>8. UploadItem(n)  BY <3>3, <3>6 DEF UploadItem
    <3>9. \A i \in Items : UploadItem(items'[i])  BY <3>4, <3>8 DEF UploadInv
    <3>10. QED BY <2>1, <2>5, <3>2, <3>4, <3>7, <3>9 DEF UploadStep
  <2>6. QED BY <1>18, <2>2, <2>3, <2>4, <2>5 DEF PrepareOutbound
<1>19. ASSUME NEW w \in Workers, FinishDeliveryStage(w) PROVE UploadStep(w)
  <2> DEFINE fits == job[w].result = "unsupported"
             n == StageFinished(Current(w), job[w].stage, fits, job[w].prepared)
  <2>1. pc[w] = "finish_stage" /\ {"finish_stage", "authorize", "finish_item"} \subseteq Holding
    BY <1>19 DEF FinishDeliveryStage, Holding
  <2>2. CASE ~ActiveClaim(Current(w), job[w].token)
    <3>1. /\ items' = items /\ Goto(w, "finish_item")
          /\ \E m : job' = [job EXCEPT ![w].result = m]
      BY <1>19, <2>2 DEF FinishDeliveryStage
    <3>2. QED BY <1>14, <2>1, <3>1
  <2>3. CASE ActiveClaim(Current(w), job[w].token)
    <3>1. SetItem(w, n)  BY <1>19, <2>3 DEF FinishDeliveryStage
    <3>2. /\ n.media = Current(w).media
          /\ n.unsupported = IF job[w].stage = "native" THEN fits ELSE Current(w).unsupported
      <4> HIDE DEF fits
      <4>1. QED BY <1>3, StageFinishedMedia
    <3> HIDE DEF n
    <3>3. items'[job[w].item] = n /\ \A i \in Items \ {job[w].item} :
             items'[i] = items[i] /\ SameUploads(items[i], items'[i])
      BY <1>5, <3>1
    <3>4. UploadTask(w) /\ UploadItem(Current(w))  BY <1>3 DEF UploadInv
    <3>5. IF job[w].stage = "fallback" THEN Current(w).unsupported ELSE ~Current(w).unsupported
      BY <2>1, <2>3, <3>4 DEF UploadTask
    <3>6. UploadItem(n)  BY <1>3, <3>2, <3>4, <3>5 DEF UploadItem, Stages
    <3>7. \A i \in Items : UploadItem(items'[i])  BY <3>3, <3>6 DEF UploadInv
    <3>8. CASE Goto(w, "finish_item") /\ job' = job
      <4>1. pc'[w] = "finish_item" /\ Others(w)
        BY <1>1, <3>8 DEF Goto, TypeOK, Others, Still
      <4>2. UploadTask(w)'
        BY <1>3, <2>1, <3>2, <3>3, <3>4, <3>5, <3>8, <4>1 DEF UploadTask, Current, Stages
      <4>3. QED BY <2>1, <2>3, <3>3, <3>7, <4>1, <4>2 DEF UploadStep
    <3>9. CASE /\ fits /\ job[w].stage = "native" /\ Goto(w, "authorize")
               /\ job' = [job EXCEPT ![w].stage = "fallback",
                            ![w].prepared = PreparedFrom(job[w].claim, "fallback")]
      <4> DEFINE p == PreparedFrom(job[w].claim, "fallback")
      <4>1. p \in {"none", "fallback"}  BY DEF PreparedFrom
      <4>7. job' = [job EXCEPT ![w].stage = "fallback", ![w].prepared = p]  BY <3>9
      <4> HIDE DEF p
      <4>2. /\ job'[w].item = job[w].item /\ job'[w].token = job[w].token
            /\ job'[w].stage = "fallback" /\ job'[w].prepared = p
            /\ \A v \in Workers \ {w} : job'[v] = job[v]
        <5> DEFINE j == [job EXCEPT ![w].stage = "fallback", ![w].prepared = p]
        <5>1. /\ j[w].item = job[w].item /\ j[w].token = job[w].token
              /\ j[w].stage = "fallback" /\ j[w].prepared = p
              /\ \A v \in Workers \ {w} : j[v] = job[v]
          BY <1>1 DEF TypeOK, Job
        <5>2. job' = j  BY <4>7
        <5> HIDE DEF j
        <5>3. QED BY <5>1, <5>2
      <4>3. pc'[w] = "authorize" /\ Others(w)
        BY <1>1, <3>9, <4>2 DEF Goto, TypeOK, Others, Still
      <4>4. n.unsupported  BY <3>2, <3>9
      <4>5. UploadTask(w)'
        BY <3>3, <4>1, <4>2, <4>3, <4>4 DEF UploadTask, Current
      <4>6. QED BY <2>1, <2>3, <3>3, <3>7, <4>3, <4>5 DEF UploadStep
    <3>10. QED BY <1>19, <2>3, <3>8, <3>9 DEF FinishDeliveryStage
  <2>4. QED BY <2>2, <2>3
<1>20. ASSUME NEW w \in Workers, FinishDeliveryItem(w) PROVE UploadStep(w)
  <2> DEFINE ok == job[w].result = "ok"
             retryable == ~ok /\ MapDeliveryFailure(job[w].result)
             status == IF ok THEN "succeeded" ELSE "failed"
             n == ItemFinished(Current(w), status, retryable, job[w].result,
                               job[w].prepared)
  <2>1. /\ pc[w] = "finish_item"
        /\ \/ ActiveClaim(Current(w), job[w].token) /\ SetItem(w, n)
           \/ items' = items
        /\ \/ Return(w) \/ NextItem(w)
           \/ Goto(w, "cleanup") /\ \E m : job' = [job EXCEPT ![w].cleanup = m]
    BY <1>20 DEF FinishDeliveryItem
  <2>2. Others(w) /\ pc'[w] \notin Holding
    <3>1. CASE Goto(w, "cleanup") /\ \E m : job' = [job EXCEPT ![w].cleanup = m]
      <4>1. \A v \in Workers \ {w} : job'[v] = job[v]  BY <1>1, <3>1, JobFrame
      <4>2. QED BY <1>1, <3>1, <4>1 DEF Goto, TypeOK, Others, Still, Holding
    <3>2. QED BY <1>6, <1>7, <2>1, <3>1
  <2>3. CASE items' = items  BY <1>3, <1>4, <2>2, <2>3, UploadAway
  <2>4. CASE ActiveClaim(Current(w), job[w].token) /\ SetItem(w, n)
    <3>1. /\ n.media = IF job[w].prepared = "none" THEN Current(w).media ELSE job[w].prepared
          /\ n.unsupported = Current(w).unsupported
      <4> HIDE DEF status, retryable
      <4>1. QED BY <1>3, ItemFinishedMedia
    <3> HIDE DEF n
    <3>2. items'[job[w].item] = n /\ \A i \in Items \ {job[w].item} :
             items'[i] = items[i] /\ SameUploads(items[i], items'[i])
      BY <1>5, <2>4
    <3>3. UploadTask(w) /\ UploadItem(Current(w))  BY <1>3 DEF UploadInv
    <3>4. UploadItem(n)
      BY <2>1, <2>4, <3>1, <3>3 DEF UploadItem, UploadTask, Holding
    <3>5. \A i \in Items : UploadItem(items'[i])  BY <3>2, <3>4 DEF UploadInv
    <3>6. QED BY <2>2, <3>1, <3>2, <3>5 DEF UploadStep, UploadTask
  <2>5. QED BY <2>1, <2>3, <2>4
<1>21. ASSUME NEW j \in Items, LeaseExpires(j) \/ MaterializationLeaseExpires(j) PROVE UploadRests
  <2>1. \A i \in Items : \/ items'[i] = items[i]
                         \/ items'[i] = [items[i] EXCEPT !.leased = FALSE]
                         \/ items'[i] = [items[i] EXCEPT !.matLeased = FALSE]
    BY <1>1, <1>21 DEF LeaseExpires, MaterializationLeaseExpires, TypeOK
  <2>2. \A i \in Items : SameUploads(items[i], items'[i])  BY <1>2, <2>1, KeepsUploads
  <2>3. QED BY <1>21, <2>2 DEF LeaseExpires, MaterializationLeaseExpires, UploadRests, Still
<1>22. CASE DayPasses
  <2>1. \A i \in Items : items'[i] = [items[i] EXCEPT !.old = TRUE]  BY <1>22 DEF DayPasses
  <2>2. \A i \in Items : SameUploads(items[i], items'[i])  BY <1>2, <2>1, KeepsUploads
  <2>3. QED BY <1>22, <2>2 DEF DayPasses, UploadRests, Still
<1>23. CASE Revoke \/ UNCHANGED vars
  BY <1>4, <1>23 DEF Revoke, vars, UploadRests, Still
<1>24. ASSUME NEW w \in Workers, Step(w) PROVE UploadStep(w)
  BY <1>8, <1>9, <1>10, <1>11, <1>12, <1>13, <1>15, <1>16, <1>17, <1>18, <1>19, <1>20, <1>24
  DEF Step
<1>25. QED
  BY <1>8, <1>21, <1>22, <1>23, <1>24 DEF Next

(* Every step keeps uploads and stages together: two live claims never     *)
(* share an item, so no other task sees its stage change.                  *)
LEMMA UploadInvNext ==
  ASSUME IInv, StaleInv, UploadInv, [Next]_vars
  PROVE  UploadInv'
<1>1. Rests \/ \E w \in Workers : TryStep(w)  BY TryNext
<1>2. ASSUME NEW v \in Workers, Still(v),
             items'[job[v].item].unsupported = Current(v).unsupported
             \/ ~ActiveClaim(Current(v), job[v].token)
      PROVE  UploadTask(v)'
  <2>1. UploadTask(v)  BY DEF UploadInv
  <2>2. job[v].item \in Items /\ job[v].token \in Nat /\ Current(v) = items[job[v].item]
    BY DEF IInv, TypeOK, Job, Current
  <2>3. pc[v] \in Holding => job[v].token <= items[job[v].item].token
    BY <2>2 DEF IInv, TaskInv, TaskOK
  <2>4. pc[v] \in Holding /\ ActiveClaim(items'[job[v].item], job[v].token)
          => ActiveClaim(Current(v), job[v].token)
    BY <1>1, <2>2, <2>3, LostStaysLost
  <2>5. QED BY <1>2, <2>1, <2>2, <2>4 DEF UploadTask, Still, Current
<1>3. CASE UploadRests
  <2>1. \A v \in Workers : job[v].item \in Items  BY DEF IInv, TypeOK, Job
  <2>2. \A v \in Workers : UploadTask(v)'
    BY <1>2, <1>3, <2>1 DEF UploadRests, SameUploads, Current
  <2>3. QED BY <1>3, <2>2 DEF UploadRests, SameUploads, UploadInv, UploadItem
<1>4. ASSUME NEW w \in Workers, UploadStep(w) PROVE UploadInv'
  <2>1. ASSUME NEW v \in Workers \ {w} PROVE UploadTask(v)'
    <3>1. Still(v)  BY <1>4 DEF UploadStep, Others
    <3>2. job[v].item \in Items /\ Current(v) = items[job[v].item] /\ Current(w) = items[job[w].item]
      BY DEF IInv, TypeOK, Job, Current
    <3>3. CASE job[v].item # job[w].item
      BY <1>2, <1>4, <3>1, <3>2, <3>3 DEF UploadStep, SameUploads
    <3>4. CASE items'[job[w].item].unsupported = Current(w).unsupported /\ job[v].item = job[w].item
      BY <1>2, <3>1, <3>2, <3>4
    <3>5. CASE /\ pc[w] \in Holding /\ ActiveClaim(Current(w), job[w].token)
               /\ job[v].item = job[w].item
      <4>1. CASE pc[v] \in Holding
        <5>1. job[v].token # job[w].token  BY <3>5, <4>1 DEF IInv, TokenInv
        <5>2. ~ActiveClaim(Current(v), job[v].token)
          BY <3>2, <3>5, <5>1 DEF ActiveClaim
        <5>3. QED BY <1>2, <3>1, <5>2
      <4>2. CASE pc[v] \notin Holding  BY <3>1, <4>2 DEF UploadTask, Still
      <4>3. QED BY <4>1, <4>2
    <3>6. QED BY <1>4, <3>3, <3>4, <3>5 DEF UploadStep
  <2>2. QED BY <1>4, <2>1 DEF UploadStep, UploadInv
<1>5. QED BY <1>3, <1>4, UploadNext

-----------------------------------------------------------------------------
(* Attachments.  A file is named by its item and the token of its          *)
(* download; the invariant ties files, ledger and tasks together.          *)

(* An item that may still be sent from its cached attachment.              *)
Sendable(it) == RetryableState(it) /\ it.mat = "materialized"

(* The cache path is cleared or that of the last finished download.        *)
PathOK(it) ==
  /\ it.cache \in {NoFile, it.path}
  /\ it.mat = "materialized" => it.path = it.matToken /\ it.path > 0

(* An item no restart has expired keeps its file while it may be sent.     *)
LiveOK(i) ==
  i \notin lapsed =>
    /\ items[i].status # "expired" /\ (items[i].retryable \/ Final(items[i]))
    /\ Sendable(items[i]) => /\ items[i].cache = items[i].path
                             /\ <<i, items[i].path>> \in files

(* Files belong to downloads that were claimed; a running one is not aged. *)
TokensOK(i) ==
  /\ items[i].matLeased => <<i, items[i].matToken>> \notin aged
  /\ \A t \in Nat : <<i, t>> \in files \cup aged => 0 < t /\ t <= items[i].matToken

(* What is known about the attachment of an item.                          *)
CacheOK(i) == PathOK(items[i]) /\ LiveOK(i) /\ TokensOK(i)

(* What a task knows about the download of its item: its token was issued, *)
(* a token that is still the newest is under way, the path to claim is the *)
(* one recorded, and only a decided item is cleaned up.                    *)
MatTask(w) ==
  /\ pc[w] \in Materializing =>
       /\ 0 < job[w].matToken /\ job[w].matToken <= Current(w).matToken
       /\ job[w].matToken = Current(w).matToken => Current(w).mat = "materializing"
  /\ pc[w] = "claim" => job[w].path = Current(w).path
  /\ pc[w] = "cleanup" => Final(Current(w))

(* The file of a download appears with its success and stays until         *)
(* finish_delivery_materialization.                                        *)
DownloadTask(w) ==
  /\ pc[w] \in {"authorize_download", "download"} => File(w) \notin files
  /\ pc[w] = "finish_materialization" =>
       IF job[w].result # "ok" THEN File(w) \notin files
       ELSE ActiveMaterialization(Current(w), job[w].matToken) => File(w) \in files

(* reconcile_delivery_cache of a starting process removes files of expired *)
(* or decided items, and its sweep spares what may still be sent.          *)
SweepTask(w) ==
  /\ \A i \in Items, t \in Nat : <<i, t>> \in startup[w].delete =>
         items[i].mat \in Ready /\ (i \in lapsed \/ Final(items[i]))
  /\ pc[w] = "sweep" => \A i \in Items \ lapsed :
       Sendable(items[i]) /\ <<i, items[i].path>> \in aged
         => <<i, items[i].path>> \in startup[w].retained
  /\ crashes = 0 => pc[w] \notin {"down", "sweep"}

(* What is known about one task.                                           *)
StoreTask(w) == MatTask(w) /\ DownloadTask(w) /\ SweepTask(w)

(* Two downloads of an item never hold the same token.                     *)
MatTokens ==
  \A v, w \in Workers :
    /\ v # w /\ pc[v] \in Materializing /\ pc[w] \in Materializing
    /\ job[v].item = job[w].item
    => job[v].matToken # job[w].matToken

(* The inductive invariant about attachments.                              *)
StoreInv == /\ \A i \in Items : CacheOK(i)
            /\ \A w \in Workers : StoreTask(w)
            /\ MatTokens /\ FilesAreOwned

(* The task that will record or remove a file.                             *)
Owner(w, f) ==
  /\ job[w].item = f[1]
  /\ \/ pc[w] = "finish_materialization" /\ job[w].matToken = f[2]
     \/ pc[w] = "cleanup" /\ job[w].cleanup = f[2]

(* A file that the ledger names or a task will remove.                     *)
Owned(f) == items[f[1]].cache = f[2] \/ \E w \in Workers : Owner(w, f)

-----------------------------------------------------------------------------
(* A write that leaves the attachment of an item alone; a lease on the     *)
(* download may run out.                                                   *)
SameMedia(a, b) ==
  /\ b.status = a.status /\ b.retryable = a.retryable
  /\ b.mat = a.mat /\ b.matToken = a.matToken /\ (b.matLeased => a.matLeased)
  /\ b.path = a.path /\ b.cache = a.cache

(* A step that takes no file from an item that may be sent, and adds none  *)
(* that was not claimed.                                                   *)
SameFiles(i) ==
  /\ i \notin lapsed /\ Sendable(items[i]) /\ <<i, items[i].path>> \in files
       => <<i, items[i].path>> \in files'
  /\ \A t \in Nat : <<i, t>> \in files' \cup aged' =>
       <<i, t>> \in files \cup aged \/ (0 < t /\ t <= items[i].matToken)
  /\ \A t \in Nat : <<i, t>> \in aged' => <<i, t>> \in aged

(* A step of somebody else, seen from a task that downloads: tokens grow,  *)
(* and the newest one is the task's own only if it was before.             *)
MatStep(v) ==
  LET a == Current(v)
      b == items'[job[v].item]
  IN  /\ a.matToken <= b.matToken
      /\ a.mat \in Ready => b.path = a.path
      /\ pc[v] \in Materializing /\ job[v].matToken = b.matToken =>
           /\ job[v].matToken = a.matToken /\ b.mat = "materializing"
           /\ b.matLeased => a.matLeased

(* A step of somebody else, on the file of a download: it neither appears  *)
(* nor, under a live claim, disappears.                                    *)
FileStep(v) ==
  /\ pc[v] \in Materializing /\ File(v) \in files' => File(v) \in files
  /\ /\ pc[v] = "finish_materialization" /\ File(v) \in files
     /\ ActiveMaterialization(Current(v), job[v].matToken)
     => File(v) \in files'

(* A step brings no aged file into use.                                    *)
SweepItem(i) ==
  Sendable(items'[i]) /\ <<i, items'[i].path>> \in aged' =>
    /\ Sendable(items[i]) /\ items'[i].path = items[i].path
    /\ <<i, items[i].path>> \in aged

(* The types that the arguments about attachments use.                     *)
LEMMA StoreTypes ==
  ASSUME IInv
  PROVE  /\ \A i \in Items :
              /\ items[i] \in Item /\ GoodItem(items[i])
              /\ items[i].matToken \in Nat /\ items[i].path \in Nat /\ items[i].cache \in Nat
              /\ items[i].status \in Statuses /\ items[i].mat \in MaterializationStatuses
              /\ items[i].retryable \in BOOLEAN
         /\ \A w \in Workers :
              /\ job[w].item \in Items /\ Current(w) = items[job[w].item]
              /\ job[w] \in Job /\ job[w].matToken \in Nat /\ job[w].path \in Nat
              /\ job[w].cleanup \in Nat
  BY DEF IInv, TypeOK, Item, Job, ItemInv, Current

(* Every step keeps what is settled about an item.                         *)
LEMMA AllKeep ==
  ASSUME IInv, [Next]_vars
  PROVE  \A i \in Items : Keeps(items[i], items'[i])
<1>1. \A i \in Items : items[i] \in Item /\ GoodItem(items[i])  BY StoreTypes
<1>2. \A i \in Items : Keeps(items[i], items[i])  BY <1>1, TimeStep DEF Quiet
<1>3. LedgerStep  BY NextLedger
<1>4. \A w \in Workers : job[w].item \in Items /\ Current(w) = items[job[w].item]
  BY StoreTypes
<1>5. QED BY <1>2, <1>3, <1>4 DEF LedgerStep, Written, Quiet

(* A task that stands still keeps its knowledge about its download.        *)
LEMMA StillDownload ==
  ASSUME IInv, NEW v \in Workers, Still(v), MatTask(v), DownloadTask(v),
         MatStep(v), FileStep(v), Keeps(Current(v), items'[job[v].item])
  PROVE  MatTask(v)' /\ DownloadTask(v)'
<1>1. /\ Current(v)' = items'[job[v].item] /\ File(v)' = File(v)
      /\ pc'[v] = pc[v] /\ job'[v] = job[v]
  BY DEF Still, Current, File
<1>2. job[v].matToken \in Nat /\ Current(v).matToken \in Nat /\ items'[job[v].item].matToken \in Nat
  BY StoreTypes DEF Keeps, Item
<1>3. pc[v] = "claim" => Current(v).mat \in Ready
  BY DEF IInv, TaskInv, TaskOK
<1>4. MatTask(v)'
  <2>1. (pc[v] \in Materializing =>
           /\ 0 < job[v].matToken /\ job[v].matToken <= items'[job[v].item].matToken
           /\ job[v].matToken = items'[job[v].item].matToken
                => items'[job[v].item].mat = "materializing")
    BY <1>2 DEF MatTask, MatStep
  <2>2. pc[v] = "claim" => job[v].path = items'[job[v].item].path
    BY <1>3 DEF MatTask, MatStep
  <2>3. pc[v] = "cleanup" => Final(items'[job[v].item])
    BY DEF MatTask, Keeps, Final
  <2>4. QED BY <1>1, <2>1, <2>2, <2>3 DEF MatTask
<1>5. DownloadTask(v)'
  <2>1. {"authorize_download", "download", "finish_materialization"} = Materializing
    BY DEF Materializing
  <2>2. /\ pc[v] = "finish_materialization"
        /\ ActiveMaterialization(items'[job[v].item], job[v].matToken)
        => ActiveMaterialization(Current(v), job[v].matToken)
    BY <1>2, <2>1 DEF ActiveMaterialization, MatStep, MatTask
  <2>3. QED BY <1>1, <2>1, <2>2 DEF DownloadTask, FileStep
<1>6. QED BY <1>4, <1>5

(* A starting process that stands still keeps its lists sound.             *)
LEMMA StillSweep ==
  ASSUME NEW v \in Workers, SweepTask(v), startup'[v] = startup[v],
         \A i \in Items : Keeps(items[i], items'[i]),
         pc'[v] = "sweep" => pc[v] = "sweep" /\ \A i \in Items \ lapsed' : SweepItem(i),
         crashes' = 0 => pc'[v] \notin {"down", "sweep"},
         lapsed \subseteq lapsed'
  PROVE  SweepTask(v)'
<1>1. \A i \in Items, t \in Nat : <<i, t>> \in startup'[v].delete =>
         items'[i].mat \in Ready /\ (i \in lapsed' \/ Final(items'[i]))
  <2> SUFFICES ASSUME NEW i \in Items, NEW t \in Nat, <<i, t>> \in startup[v].delete
               PROVE  items'[i].mat \in Ready /\ (i \in lapsed' \/ Final(items'[i]))
    OBVIOUS
  <2>1. items[i].mat \in Ready /\ (i \in lapsed \/ Final(items[i]))  BY DEF SweepTask
  <2>2. QED BY <2>1 DEF Keeps, Final
<1>2. pc'[v] = "sweep" => \A i \in Items \ lapsed' :
       Sendable(items'[i]) /\ <<i, items'[i].path>> \in aged'
         => <<i, items'[i].path>> \in startup'[v].retained
  BY DEF SweepTask, SweepItem
<1>3. QED BY <1>1, <1>2 DEF SweepTask

(* An item whose attachment was left alone stays in order.                 *)
LEMMA SameStep ==
  ASSUME IInv, StoreInv, NEW i \in Items, SameMedia(items[i], items'[i]), SameFiles(i),
         lapsed \subseteq lapsed'
  PROVE  /\ CacheOK(i)' /\ SweepItem(i)
         /\ \A v \in Workers : job[v].item = i => MatStep(v)
<1>1. CacheOK(i)  BY DEF StoreInv
<1>2. items[i].matToken \in Nat /\ items[i].path \in Nat  BY StoreTypes
<1>3. PathOK(items[i])'  BY <1>1 DEF CacheOK, PathOK, SameMedia
<1>4. LiveOK(i)'
  <2>1. Final(items'[i]) <=> Final(items[i])  BY DEF Final, SameMedia
  <2>2. Sendable(items'[i]) <=> Sendable(items[i])  BY DEF Sendable, RetryableState, SameMedia
  <2>3. LiveOK(i)  BY <1>1 DEF CacheOK
  <2>4. QED BY <2>1, <2>2, <2>3 DEF LiveOK, SameMedia, SameFiles
<1>5. TokensOK(i)'
  BY <1>1, <1>2 DEF CacheOK, TokensOK, SameMedia, SameFiles
<1>6. SweepItem(i)
  BY <1>2 DEF SweepItem, SameMedia, SameFiles, Sendable, RetryableState
<1>7. ASSUME NEW v \in Workers, job[v].item = i PROVE MatStep(v)
  <2>1. MatTask(v) /\ Current(v) = items[i]  BY <1>7, StoreTypes DEF StoreInv, StoreTask
  <2>2. QED BY <1>2, <1>7, <2>1 DEF MatStep, MatTask, SameMedia
<1>8. QED BY <1>3, <1>4, <1>5, <1>6, <1>7 DEF CacheOK

(* What a step of a task has to show for the invariant to go on.           *)
LEMMA StoreStep ==
  ASSUME IInv, StoreInv, [Next]_vars, NEW w \in Workers, Others(w), StoreTask(w)',
         \A i \in Items : CacheOK(i)' /\ (i \notin lapsed' => SweepItem(i)),
         lapsed \subseteq lapsed', crashes' = 0 => crashes = 0,
         \A v \in Workers \ {w} : MatStep(v) /\ FileStep(v) /\ startup'[v] = startup[v],
         pc'[w] \in Materializing =>
           \A v \in Workers \ {w} : pc[v] \in Materializing /\ job[v].item = job'[w].item
                                      => job[v].matToken # job'[w].matToken,
         crashes' = 0 => \A f \in files' :
           f \notin files \/ items[f[1]].cache = f[2] \/ Owner(w, f) => Owned(f)'
  PROVE  StoreInv'
<1>1. \A i \in Items : Keeps(items[i], items'[i])  BY AllKeep
<1>2. ASSUME NEW v \in Workers \ {w} PROVE StoreTask(v)'
  <2>1. Still(v) /\ StoreTask(v) /\ MatStep(v) /\ FileStep(v)  BY DEF Others, StoreInv
  <2>2. Keeps(Current(v), items'[job[v].item])  BY <1>1, StoreTypes
  <2>3. MatTask(v)' /\ DownloadTask(v)'  BY <2>1, <2>2, StillDownload DEF StoreTask
  <2>4. crashes' = 0 => pc'[v] \notin {"down", "sweep"}
    BY <2>1 DEF StoreTask, SweepTask, Still
  <2>5. SweepTask(v)'  BY <1>1, <2>1, <2>4, StillSweep DEF StoreTask, Still
  <2>6. QED BY <2>3, <2>5 DEF StoreTask
<1>3. MatTokens'
  <2> SUFFICES ASSUME NEW u \in Workers, NEW v \in Workers, u # v,
                      pc'[u] \in Materializing, pc'[v] \in Materializing,
                      job'[u].item = job'[v].item
               PROVE  job'[u].matToken # job'[v].matToken
    BY DEF MatTokens
  <2>1. \A x \in Workers \ {w} : pc'[x] = pc[x] /\ job'[x] = job[x]  BY DEF Others, Still
  <2>2. CASE u # w /\ v # w  BY <2>1, <2>2 DEF StoreInv, MatTokens
  <2>3. CASE u = w  BY <2>1, <2>3
  <2>4. CASE v = w  BY <2>1, <2>4
  <2>5. QED BY <2>2, <2>3, <2>4
<1>4. FilesAreOwned'
  <2> SUFFICES ASSUME crashes' = 0, NEW f \in files' PROVE Owned(f)'
    BY DEF FilesAreOwned, Owned, Owner
  <2>1. CASE f \in files
    <3>1. Owned(f)  BY <2>1 DEF StoreInv, FilesAreOwned, Owned, Owner
    <3>2. CASE \E v \in Workers \ {w} : Owner(v, f)
      <4>1. PICK v \in Workers \ {w} : Owner(v, f)  BY <3>2
      <4>2. Owner(v, f)'  BY <4>1 DEF Others, Still, Owner
      <4>3. QED BY <4>2 DEF Owned
    <3>3. CASE ~\E v \in Workers \ {w} : Owner(v, f)
      BY <3>1, <3>3 DEF Owned
    <3>4. QED BY <3>2, <3>3
  <2>2. CASE f \notin files  BY <2>2
  <2>3. QED BY <2>1, <2>2
<1>5. \A v \in Workers : StoreTask(v)'  BY <1>2
<1>6. QED BY <1>3, <1>4, <1>5 DEF StoreInv

(* The operations that leave the attachment alone.                         *)
LEMMA SameMediaOperations ==
  ASSUME NEW it \in Item
  PROVE  /\ SameMedia(it, it)
         /\ \A s : SameMedia(it, UploadRecorded(it, s))
         /\ \A s, b, p : SameMedia(it, StageFinished(it, s, b, p))
         /\ SameMedia(it, [it EXCEPT !.leased = FALSE])
         /\ SameMedia(it, [it EXCEPT !.matLeased = FALSE])
         /\ SameMedia(it, [it EXCEPT !.old = TRUE])
<1>1. ASSUME NEW s PROVE SameMedia(it, UploadRecorded(it, s))  BY DEF UploadRecorded, Item, SameMedia
<1>2. ASSUME NEW s, NEW b, NEW p PROVE SameMedia(it, StageFinished(it, s, b, p))
  BY DEF StageFinished, Item, SameMedia
<1>3. SameMedia(it, it) /\ SameMedia(it, [it EXCEPT !.leased = FALSE])  BY DEF Item, SameMedia
<1>4. SameMedia(it, [it EXCEPT !.matLeased = FALSE])  BY DEF Item, SameMedia
<1>5. SameMedia(it, [it EXCEPT !.old = TRUE])  BY DEF Item, SameMedia
<1>6. QED BY <1>1, <1>2, <1>3, <1>4, <1>5

(* A step of a task that touches neither attachments nor files.            *)
LEMMA QuietStep ==
  ASSUME IInv, StoreInv, [Next]_vars, NEW w \in Workers, Others(w),
         \A i \in Items : SameMedia(items[i], items'[i]),
         files' = files, aged' = aged, lapsed' = lapsed,
         crashes' = 0 => crashes = 0 /\ pc'[w] # "down", pc'[w] # "sweep",
         startup' = startup \/ startup' = [startup EXCEPT ![w] = NoStartup],
         MatTask(w)', DownloadTask(w)',
         pc'[w] \in Materializing => /\ pc[w] \in Materializing
                                     /\ job'[w].item = job[w].item
                                     /\ job'[w].matToken = job[w].matToken,
         crashes' = 0 => \A f \in files : Owner(w, f) => Owner(w, f)'
  PROVE  StoreInv'
<1>1. \A i \in Items : SameFiles(i)  BY DEF SameFiles
<1>2. \A i \in Items : /\ CacheOK(i)' /\ SweepItem(i)
                       /\ \A v \in Workers : job[v].item = i => MatStep(v)
  BY <1>1, SameStep
<1>3. \A v \in Workers : MatStep(v) /\ FileStep(v)
  BY <1>2, StoreTypes DEF FileStep
<1>4. startup \in [Workers -> [delete : SUBSET (Items \X Nat), retained : SUBSET (Items \X Nat)]]
  BY DEF IInv, TypeOK
<1>5. \A v \in Workers \ {w} : startup'[v] = startup[v]  BY <1>4
<1>6. SweepTask(w)'
  <2>1. CASE startup' = startup
    <3>1. SweepTask(w)  BY DEF StoreInv, StoreTask
    <3>2. \A i \in Items : Keeps(items[i], items'[i])  BY AllKeep
    <3>3. QED BY <2>1, <3>1, <3>2, StillSweep
  <2>2. CASE startup' = [startup EXCEPT ![w] = NoStartup]
    <3>1. startup'[w].delete = {}  BY <1>4, <2>2 DEF NoStartup
    <3>2. QED BY <3>1 DEF SweepTask
  <2>3. QED BY <2>1, <2>2
<1>7. StoreTask(w)'  BY <1>6 DEF StoreTask
<1>8. pc'[w] \in Materializing =>
        \A v \in Workers \ {w} : pc[v] \in Materializing /\ job[v].item = job'[w].item
                                   => job[v].matToken # job'[w].matToken
  BY DEF StoreInv, MatTokens
<1>9. \A f \in files : f[1] \in Items  BY DEF IInv, TypeOK
<1>10. crashes' = 0 => \A f \in files' :
         f \notin files \/ items[f[1]].cache = f[2] \/ Owner(w, f) => Owned(f)'
  BY <1>9 DEF Owned, SameMedia
<1>11. QED BY <1>2, <1>3, <1>5, <1>7, <1>8, <1>10, StoreStep

(* Where a task neither downloads, nor is about to claim, nor removes.     *)
Elsewhere == {"idle", "persist", "materialize", "respond"} \cup Holding

(* A step to such a place from a place where no file is owned.             *)
LEMMA AwayStore ==
  ASSUME IInv, StoreInv, [Next]_vars, NEW w \in Workers, Others(w),
         \A i \in Items : SameMedia(items[i], items'[i]),
         files' = files, aged' = aged, lapsed' = lapsed, crashes' = crashes,
         startup' = startup, pc'[w] \in Elsewhere,
         pc[w] \notin {"finish_materialization", "cleanup"}
  PROVE  StoreInv'
<1>1. /\ pc'[w] \notin Materializing \cup {"claim", "cleanup", "down", "sweep"}
      /\ pc'[w] \notin {"authorize_download", "download", "finish_materialization"}
  BY DEF Elsewhere, Materializing, Holding
<1>2. MatTask(w)' /\ DownloadTask(w)'  BY <1>1 DEF MatTask, DownloadTask
<1>3. \A f \in files : ~Owner(w, f)  BY DEF Owner
<1>4. QED BY <1>1, <1>2, <1>3, QuietStep

(* All steps of this kind.                                                 *)
LEMMA StoreAway ==
  ASSUME IInv, StoreInv, [Next]_vars, NEW w \in Workers,
         \/ \E fp \in Fingerprints : HandleNotification(w, fp)
         \/ RetryPendingDeliveries(w) \/ PersistDeliveryPlan(w) \/ SaveDeliveryRecord(w)
         \/ ClaimMaterialization(w) /\ MaterializationOutcome(Current(w)) \in {"terminal_failed", "busy"}
         \/ ClaimDeliveryItem(w) /\ ClaimOutcome(Current(w)) # "claimed"
         \/ Authorize(w) \/ PrepareOutbound(w) \/ AuthorizePrepared(w) \/ SendOutbound(w)
         \/ FinishDeliveryStage(w)
         \/ FinishDeliveryItem(w) /\ ~ActiveClaim(Current(w), job[w].token)
  PROVE  StoreInv'
<1> USE DEF ledger, disk, budget, history
<1>1. TypeOK  BY DEF IInv
<1>2. \A i \in Items : SameMedia(items[i], items[i])  BY StoreTypes, SameMediaOperations
<1>3. ASSUME Return(w) PROVE Others(w) /\ pc'[w] \in Elsewhere
  BY <1>1, <1>3 DEF Return, Goto, TypeOK, Others, Still, Elsewhere
<1>4. ASSUME NextItem(w) PROVE Others(w) /\ pc'[w] \in Elsewhere
  <2>1. CASE Return(w)  BY <1>3, <2>1
  <2>2. CASE ~Return(w)
    BY <1>1, <1>4, <2>2 DEF NextItem, Goto, TypeOK, Others, Still, Elsewhere
  <2>3. QED BY <2>1, <2>2
<1>5. ASSUME NEW to \in Elsewhere, Goto(w, to), \A v \in Workers \ {w} : job'[v] = job[v]
      PROVE  Others(w) /\ pc'[w] \in Elsewhere
  BY <1>1, <1>5 DEF Goto, TypeOK, Others, Still
<1>6. ASSUME NEW n, SetItem(w, n), SameMedia(Current(w), n)
      PROVE  \A i \in Items : SameMedia(items[i], items'[i])
  <2>1. /\ items'[job[w].item] = n
        /\ \A i \in Items \ {job[w].item} : items'[i] = items[i]
    BY <1>1, <1>6, StoreTypes DEF SetItem, TypeOK
  <2>2. QED BY <1>2, <1>6, <2>1, StoreTypes
<1>7. ASSUME \/ \E fp \in Fingerprints : HandleNotification(w, fp)
             \/ RetryPendingDeliveries(w)
      PROVE  StoreInv'
  <2>1. /\ Others(w) /\ pc'[w] \in Elsewhere /\ pc[w] = "idle" /\ items' = items
        /\ files' = files /\ aged' = aged /\ lapsed' = lapsed /\ crashes' = crashes
        /\ startup' = startup
    BY <1>1, <1>7 DEF HandleNotification, RetryPendingDeliveries, Goto, TypeOK, Others, Still, Elsewhere
  <2>2. QED BY <1>2, <2>1, AwayStore
<1>8. ASSUME PersistDeliveryPlan(w) PROVE StoreInv'
  <2>1. /\ Others(w) /\ pc'[w] \in Elsewhere /\ pc[w] = "persist"
        /\ files' = files /\ aged' = aged /\ lapsed' = lapsed /\ crashes' = crashes
        /\ startup' = startup
    BY <1>1, <1>3, <1>8 DEF PersistDeliveryPlan, Goto, TypeOK, Others, Still, Elsewhere
  <2>2. \A i \in Items : items'[i] = items[i]
    BY <1>8 DEF PersistDeliveryPlan, IInv, PlanInv
  <2>3. QED BY <1>2, <2>1, <2>2, AwayStore
<1>9. ASSUME \/ SaveDeliveryRecord(w)
             \/ ClaimMaterialization(w) /\ MaterializationOutcome(Current(w)) \in {"terminal_failed", "busy"}
             \/ FinishDeliveryItem(w) /\ ~ActiveClaim(Current(w), job[w].token)
      PROVE  StoreInv'
  <2>1. /\ Return(w) /\ pc[w] \in {"respond", "materialize", "finish_item"} /\ items' = items
        /\ files' = files /\ aged' = aged /\ lapsed' = lapsed /\ crashes' = crashes
        /\ startup' = startup
    BY <1>9 DEF SaveDeliveryRecord, ClaimMaterialization, FinishDeliveryItem
  <2>2. QED BY <1>2, <1>3, <2>1, AwayStore
<1>10. ASSUME ClaimDeliveryItem(w), ClaimOutcome(Current(w)) # "claimed" PROVE StoreInv'
  <2>1. /\ Return(w) \/ NextItem(w)
        /\ pc[w] = "claim" /\ items' = items
        /\ files' = files /\ aged' = aged /\ lapsed' = lapsed /\ crashes' = crashes
        /\ startup' = startup
    BY <1>10 DEF ClaimDeliveryItem
  <2>2. QED BY <1>2, <1>3, <1>4, <2>1, AwayStore
<1>11. ASSUME Authorize(w) \/ AuthorizePrepared(w) \/ SendOutbound(w) PROVE StoreInv'
  <2>1. /\ \E m : job' = [job EXCEPT ![w].result = m]
        /\ pc[w] \in Holding /\ items' = items
        /\ files' = files /\ aged' = aged /\ lapsed' = lapsed /\ crashes' = crashes
        /\ startup' = startup
    BY <1>11 DEF Authorize, AuthorizePrepared, SendOutbound, Holding
  <2>2. \E to \in Elsewhere : Goto(w, to)
    BY <1>11 DEF Authorize, AuthorizePrepared, SendOutbound, Holding, Elsewhere
  <2>3. \A v \in Workers \ {w} : job'[v] = job[v]  BY <1>1, <2>1, JobFrame
  <2>4. pc[w] \notin {"finish_materialization", "cleanup"}  BY <2>1 DEF Holding
  <2>5. QED BY <1>2, <1>5, <2>1, <2>2, <2>3, <2>4, AwayStore
<1>12. ASSUME PrepareOutbound(w) PROVE StoreInv'
  <2>1. /\ pc[w] = "prepare"
        /\ files' = files /\ aged' = aged /\ lapsed' = lapsed /\ crashes' = crashes
        /\ startup' = startup
    BY <1>12 DEF PrepareOutbound
  <2>2. \/ job' = job \/ \E m : job' = [job EXCEPT ![w].result = m]
        \/ \E m : job' = [job EXCEPT ![w].prepared = m]
        \/ \E p, m : job' = [job EXCEPT ![w].prepared = p, ![w].result = m]
    BY <1>12 DEF PrepareOutbound
  <2>3. \A v \in Workers \ {w} : job'[v] = job[v]
    <3>1. CASE \E p, m : job' = [job EXCEPT ![w].prepared = p, ![w].result = m]
      BY <1>1, <3>1, JobResult
    <3>2. CASE job' = job  BY <3>2
    <3>3. CASE \E m : job' = [job EXCEPT ![w].result = m]  BY <1>1, <3>3, JobFrame
    <3>4. CASE \E m : job' = [job EXCEPT ![w].prepared = m]  BY <1>1, <3>4, JobFrame
    <3>5. QED BY <2>2, <3>1, <3>2, <3>3, <3>4
  <2>4. \E to \in Elsewhere : Goto(w, to)
    BY <1>12 DEF PrepareOutbound, Holding, Elsewhere
  <2>5. items' = items \/ SetItem(w, UploadRecorded(Current(w), job[w].stage))
    BY <1>12 DEF PrepareOutbound
  <2>6. SameMedia(Current(w), UploadRecorded(Current(w), job[w].stage))
    BY StoreTypes, SameMediaOperations
  <2>7. \A i \in Items : SameMedia(items[i], items'[i])  BY <1>2, <1>6, <2>5, <2>6
  <2>8. QED BY <1>5, <2>1, <2>3, <2>4, <2>7, AwayStore
<1>13. ASSUME FinishDeliveryStage(w) PROVE StoreInv'
  <2>1. /\ pc[w] = "finish_stage"
        /\ files' = files /\ aged' = aged /\ lapsed' = lapsed /\ crashes' = crashes
        /\ startup' = startup
    BY <1>13 DEF FinishDeliveryStage
  <2>2. \/ job' = job \/ \E m : job' = [job EXCEPT ![w].result = m]
        \/ \E s, p : job' = [job EXCEPT ![w].stage = s, ![w].prepared = p]
    BY <1>13 DEF FinishDeliveryStage
  <2>3. \A v \in Workers \ {w} : job'[v] = job[v]
    <3>1. CASE \E s, p : job' = [job EXCEPT ![w].stage = s, ![w].prepared = p]
      BY <1>1, <3>1, JobResult
    <3>2. CASE job' = job  BY <3>2
    <3>3. CASE \E m : job' = [job EXCEPT ![w].result = m]  BY <1>1, <3>3, JobFrame
    <3>4. QED BY <2>2, <3>1, <3>2, <3>3
  <2>4. \E to \in Elsewhere : Goto(w, to)
    BY <1>13 DEF FinishDeliveryStage, Holding, Elsewhere
  <2>5. items' = items \/ \E s, b, p : SetItem(w, StageFinished(Current(w), s, b, p))
    BY <1>13 DEF FinishDeliveryStage
  <2>6. \A s, b, p : SameMedia(Current(w), StageFinished(Current(w), s, b, p))
    BY StoreTypes, SameMediaOperations
  <2>7. \A i \in Items : SameMedia(items[i], items'[i])  BY <1>2, <1>6, <2>5, <2>6
  <2>8. QED BY <1>5, <2>1, <2>3, <2>4, <2>7, AwayStore
<1>14. QED BY <1>7, <1>8, <1>9, <1>10, <1>11, <1>12, <1>13

(* Assignments to a task's memory, as far as they matter to attachments.   *)
LEMMA StoreJob ==
  ASSUME TypeOK, NEW w \in Workers
  PROVE  LET Same(j) == /\ j[w].item = job[w].item
                        /\ \A v \in Workers \ {w} : j[v] = job[v]
         IN  /\ \A m : LET j == [job EXCEPT ![w].result = m]
                       IN Same(j) /\ j[w].matToken = job[w].matToken /\ j[w].result = m
             /\ \A m : LET j == [job EXCEPT ![w].path = m] IN Same(j) /\ j[w].path = m
             /\ \A m : LET j == [job EXCEPT ![w].matToken = m] IN Same(j) /\ j[w].matToken = m
             /\ \A m : LET j == [job EXCEPT ![w].cleanup = m] IN Same(j) /\ j[w].cleanup = m
<1>1. job \in [Workers -> Job] /\ job[w] \in Job  BY DEF TypeOK
<1> DEFINE Same(j) == /\ j[w].item = job[w].item
                      /\ \A v \in Workers \ {w} : j[v] = job[v]
<1>2. ASSUME NEW m PROVE LET j == [job EXCEPT ![w].result = m]
                         IN Same(j) /\ j[w].matToken = job[w].matToken /\ j[w].result = m
  BY <1>1 DEF Job
<1>3. ASSUME NEW m PROVE LET j == [job EXCEPT ![w].path = m] IN Same(j) /\ j[w].path = m
  BY <1>1 DEF Job
<1>4. ASSUME NEW m PROVE LET j == [job EXCEPT ![w].matToken = m] IN Same(j) /\ j[w].matToken = m
  BY <1>1 DEF Job
<1>5. ASSUME NEW m PROVE LET j == [job EXCEPT ![w].cleanup = m] IN Same(j) /\ j[w].cleanup = m
  BY <1>1 DEF Job
<1>6. QED BY <1>2, <1>3, <1>4, <1>5

(* What StoreInv says of one task and its item.                            *)
LEMMA StoreFacts ==
  ASSUME IInv, StoreInv, NEW w \in Workers
  PROVE  /\ StoreTask(w) /\ MatTask(w) /\ DownloadTask(w) /\ SweepTask(w)
         /\ CacheOK(job[w].item) /\ PathOK(Current(w)) /\ LiveOK(job[w].item) /\ TokensOK(job[w].item)
         /\ GoodItem(Current(w)) /\ Current(w) \in Item
         /\ Current(w).matToken \in Nat /\ Current(w).path \in Nat /\ Current(w).cache \in Nat
  BY StoreTypes DEF StoreInv, StoreTask, CacheOK

(* A kill forgets the task, and the files stay where they are.             *)
LEMMA StoreCrash ==
  ASSUME IInv, StoreInv, [Next]_vars, NEW w \in Workers, Crash(w)
  PROVE  StoreInv'
<1> USE DEF ledger, disk, budget, history
<1>1. TypeOK /\ crashes \in Nat  BY DEF IInv, TypeOK
<1>2. \A i \in Items : SameMedia(items[i], items[i])  BY StoreTypes, SameMediaOperations
<1>3. /\ Others(w) /\ pc'[w] = "down" /\ items' = items /\ crashes' # 0
      /\ files' = files /\ aged' = aged /\ lapsed' = lapsed
      /\ startup' = [startup EXCEPT ![w] = NoStartup]
  BY <1>1 DEF Crash, TypeOK, Others, Still
<1>4. pc'[w] \notin Materializing  BY <1>3 DEF Materializing
<1>5. MatTask(w)' /\ DownloadTask(w)'  BY <1>3, <1>4 DEF MatTask, DownloadTask
<1>6. QED BY <1>2, <1>3, <1>4, <1>5, QuietStep

(* claim_delivery_materialization of an attachment that is ready: the task *)
(* takes over its path.                                                    *)
LEMMA StoreReady ==
  ASSUME IInv, StoreInv, [Next]_vars, NEW w \in Workers, ClaimMaterialization(w),
         MaterializationOutcome(Current(w)) = "materialized"
  PROVE  StoreInv'
<1> USE DEF ledger, disk, budget, history
<1>1. TypeOK  BY DEF IInv
<1>2. \A i \in Items : SameMedia(items[i], items[i])  BY StoreTypes, SameMediaOperations
<1>3. /\ pc[w] = "materialize" /\ Goto(w, "claim") /\ items' = items /\ crashes' = crashes
      /\ files' = files /\ aged' = aged /\ lapsed' = lapsed /\ startup' = startup
      /\ job' = [job EXCEPT ![w].path = Current(w).path]
  BY DEF ClaimMaterialization
<1>4. /\ job'[w].item = job[w].item /\ job'[w].path = Current(w).path
      /\ \A v \in Workers \ {w} : job'[v] = job[v]
  BY <1>1, <1>3, StoreJob
<1>5. pc'[w] = "claim" /\ Others(w)  BY <1>1, <1>3, <1>4 DEF Goto, TypeOK, Others, Still
<1>6. pc'[w] \notin Materializing  BY <1>5 DEF Materializing
<1>7. MatTask(w)' /\ DownloadTask(w)'  BY <1>3, <1>4, <1>5, <1>6 DEF MatTask, DownloadTask, Current
<1>8. \A f \in files : ~Owner(w, f)  BY <1>3 DEF Owner
<1>9. QED BY <1>2, <1>3, <1>5, <1>6, <1>7, <1>8, QuietStep

(* A step that ends in finish_materialization, or goes on to the download, *)
(* without a file.                                                         *)
LEMMA StoreNoFile ==
  ASSUME IInv, StoreInv, [Next]_vars, NEW w \in Workers,
         pc[w] \in {"authorize_download", "download"}, NEW m,
         job' = [job EXCEPT ![w].result = m],
         NEW to, Goto(w, to),
         to = "download" \/ (to = "finish_materialization" /\ m # "ok"),
         items' = items, crashes' = crashes,
         files' = files, aged' = aged, lapsed' = lapsed, startup' = startup
  PROVE  StoreInv'
<1>1. TypeOK  BY DEF IInv
<1>2. \A i \in Items : SameMedia(items[i], items'[i])  BY StoreTypes, SameMediaOperations
<1>3. /\ job'[w].item = job[w].item /\ job'[w].matToken = job[w].matToken /\ job'[w].result = m
      /\ \A v \in Workers \ {w} : job'[v] = job[v]
  BY <1>1, StoreJob
<1>4. pc'[w] = to /\ Others(w)  BY <1>1, <1>3 DEF Goto, TypeOK, Others, Still
<1>5. pc[w] \in Materializing /\ to \in Materializing  BY DEF Materializing
<1>6. MatTask(w) /\ DownloadTask(w)  BY StoreFacts
<1>7. MatTask(w)'  BY <1>3, <1>4, <1>5, <1>6 DEF MatTask, Current
<1>8. DownloadTask(w)'  BY <1>3, <1>4, <1>6 DEF DownloadTask, File
<1>9. \A f \in files : ~Owner(w, f)  BY DEF Owner
<1>10. pc'[w] \notin {"down", "sweep"}  BY <1>4
<1>11. QED BY <1>2, <1>3, <1>4, <1>5, <1>7, <1>8, <1>9, <1>10, QuietStep

(* The consent asked for before a download writes no file.                 *)
LEMMA StoreAuthorizeDownload ==
  ASSUME IInv, StoreInv, [Next]_vars, NEW w \in Workers, AuthorizeDownload(w)
  PROVE  StoreInv'
<1> USE DEF ledger, disk, budget, history
<1>1. PICK m : /\ job' = [job EXCEPT ![w].result = m]
               /\ Goto(w, IF m = "ok" THEN "download" ELSE "finish_materialization")
  BY DEF AuthorizeDownload
<1>2. /\ pc[w] = "authorize_download" /\ items' = items /\ crashes' = crashes
      /\ files' = files /\ aged' = aged /\ lapsed' = lapsed /\ startup' = startup
  BY DEF AuthorizeDownload
<1>3. CASE m = "ok"
  <2>1. Goto(w, "download")  BY <1>1, <1>3
  <2>2. QED BY <1>1, <1>2, <2>1, StoreNoFile
<1>4. CASE m # "ok"
  <2>1. Goto(w, "finish_materialization")  BY <1>1, <1>4
  <2>2. QED BY <1>1, <1>2, <1>4, <2>1, StoreNoFile
<1>5. QED BY <1>3, <1>4

(* Two downloads of an item never write the same file.                     *)
LEMMA FilesDiffer ==
  ASSUME StoreInv, NEW v \in Workers, NEW w \in Workers, v # w,
         pc[v] \in Materializing, pc[w] \in Materializing
  PROVE  File(v) # File(w)
  BY DEF StoreInv, MatTokens, File

(* The download writes the file of its own token, or none.                 *)
LEMMA StoreDownload ==
  ASSUME IInv, StoreInv, [Next]_vars, NEW w \in Workers, Download(w)
  PROVE  StoreInv'
<1> USE DEF ledger, disk, budget, history
<1>1. TypeOK  BY DEF IInv
<1>2. /\ pc[w] = "download" /\ items' = items /\ crashes' = crashes
      /\ aged' = aged /\ lapsed' = lapsed /\ startup' = startup
      /\ Goto(w, "finish_materialization")
  BY DEF Download
<1>3. CASE files' = files /\ \E m \in {"media_failed", "proxy_missing"} : job' = [job EXCEPT ![w].result = m]
  BY <1>2, <1>3, StoreNoFile
<1>4. CASE files' = files \cup {File(w)} /\ job' = [job EXCEPT ![w].result = "ok"]
  <2>1. /\ job'[w].item = job[w].item /\ job'[w].matToken = job[w].matToken /\ job'[w].result = "ok"
        /\ \A v \in Workers \ {w} : job'[v] = job[v]
    BY <1>1, <1>4, StoreJob
  <2>2. pc'[w] = "finish_materialization" /\ Others(w)
    BY <1>1, <1>2, <2>1 DEF Goto, TypeOK, Others, Still
  <2>3. pc[w] \in Materializing /\ pc'[w] \in Materializing  BY <1>2, <2>2 DEF Materializing
  <2>4. /\ 0 < job[w].matToken /\ job[w].matToken <= Current(w).matToken
        /\ Current(w) = items[job[w].item]
    BY <2>3, StoreFacts, StoreTypes DEF MatTask
  <2>5. \A i \in Items : SameFiles(i)
    <3>1. \A i \in Items, t \in Nat : <<i, t>> \in files' =>
            <<i, t>> \in files \/ (i = job[w].item /\ t = job[w].matToken)
      BY <1>4 DEF File
    <3>2. QED BY <1>2, <1>4, <2>4, <3>1 DEF SameFiles
  <2>6. \A i \in Items : SameMedia(items[i], items'[i])  BY <1>2, StoreTypes, SameMediaOperations
  <2>7. \A i \in Items : /\ CacheOK(i)' /\ SweepItem(i)
                         /\ \A v \in Workers : job[v].item = i => MatStep(v)
    BY <1>2, <2>5, <2>6, SameStep
  <2>8. \A v \in Workers \ {w} : MatStep(v) /\ FileStep(v) /\ startup'[v] = startup[v]
    <3> SUFFICES ASSUME NEW v \in Workers \ {w}
                 PROVE  MatStep(v) /\ FileStep(v) /\ startup'[v] = startup[v]
      OBVIOUS
    <3>1. MatStep(v)  BY <2>7, StoreTypes
    <3>2. pc[v] \in Materializing => File(v) # File(w)  BY <2>3, FilesDiffer
    <3>3. QED BY <1>2, <1>4, <3>1, <3>2 DEF FileStep
  <2>9. StoreTask(w)'
    <3>1. MatTask(w)'  BY <1>2, <2>1, <2>2, <2>3, StoreFacts DEF MatTask, Current
    <3>2. DownloadTask(w)'  BY <1>4, <2>1, <2>2 DEF DownloadTask, File
    <3>3. SweepTask(w)'
      <4>1. \A i \in Items : Keeps(items[i], items'[i])  BY AllKeep
      <4>2. pc'[w] \notin {"down", "sweep"}  BY <2>2
      <4>3. SweepTask(w)  BY StoreFacts
      <4>4. QED BY <1>2, <4>1, <4>2, <4>3, StillSweep
    <3>4. QED BY <3>1, <3>2, <3>3 DEF StoreTask
  <2>10. \A v \in Workers \ {w} : pc[v] \in Materializing /\ job[v].item = job'[w].item
                                   => job[v].matToken # job'[w].matToken
    BY <2>1, <2>3 DEF StoreInv, MatTokens
  <2>11. \A f \in files' : f \notin files \/ items[f[1]].cache = f[2] \/ Owner(w, f) => Owned(f)'
    <3>1. \A f : ~Owner(w, f)  BY <1>2 DEF Owner
    <3>2. Owner(w, File(w))'
      BY <2>1, <2>2 DEF Owner, File
    <3>3. \A f \in files' : f \notin files => f = File(w)  BY <1>4
    <3>4. QED BY <1>2, <2>1, <3>1, <3>2, <3>3 DEF Owned, File
  <2>12. QED BY <1>2, <2>2, <2>7, <2>8, <2>9, <2>10, <2>11, StoreStep
<1>5. QED BY <1>3, <1>4 DEF Download

(* claim_delivery_item leaves the download alone.                          *)
LEMMA ClaimedMedia ==
  ASSUME NEW it \in Item, NEW p
  PROVE  Claimed(it, p).path = it.path /\ Claimed(it, p).matLeased = it.matLeased
  BY DEF Claimed, Item

(* finish_delivery_item leaves the download alone and may clear the cache. *)
LEMMA ItemFinishedCache ==
  ASSUME NEW it \in Item, NEW s, NEW b, NEW m, NEW p
  PROVE  /\ ItemFinished(it, s, b, m, p).path = it.path
         /\ ItemFinished(it, s, b, m, p).matLeased = it.matLeased
         /\ s = "succeeded" \/ ~b => ItemFinished(it, s, b, m, p).cache = NoFile
         /\ ~(s = "succeeded" \/ ~b) => ItemFinished(it, s, b, m, p).cache = it.cache
<1>1. /\ ItemFinished(it, s, b, m, p).path = it.path
      /\ ItemFinished(it, s, b, m, p).matLeased = it.matLeased
  BY DEF ItemFinished, Item
<1>2. ItemFinished(it, s, b, m, p).cache = IF s = "succeeded" \/ ~b THEN NoFile ELSE it.cache
  BY DEF ItemFinished, Item
<1>3. QED BY <1>1, <1>2

(* claim_delivery_materialization leaves the item's status alone.          *)
LEMMA MaterializationClaimedMedia ==
  ASSUME NEW it \in Item
  PROVE  /\ MaterializationClaimed(it).path = it.path
         /\ MaterializationClaimed(it).status = it.status
         /\ MaterializationClaimed(it).retryable = it.retryable
         /\ MaterializationClaimed(it).cache = it.cache
  BY DEF MaterializationClaimed, Item

(* finish_delivery_materialization ends the lease of the download.         *)
LEMMA MaterializedMedia ==
  ASSUME NEW it \in Item, NEW f
  PROVE  Materialized(it, f).path = f /\ Materialized(it, f).matLeased = FALSE
  BY DEF Materialized, Item

(* So it does after a failure.                                             *)
LEMMA MaterializationFailedMedia ==
  ASSUME NEW it \in Item, NEW b, NEW m
  PROVE  /\ MaterializationFailed(it, b, m).path = it.path
         /\ MaterializationFailed(it, b, m).matLeased = FALSE
  BY DEF MaterializationFailed, Item

(* A task writes its own item and no file: what is left to show.           *)
LEMMA WriteStep ==
  ASSUME IInv, StoreInv, [Next]_vars, NEW w \in Workers, Others(w),
         NEW k \in Items, k = job[w].item, NEW b, SetItem(w, b),
         files' = files, aged' = aged, lapsed' = lapsed, crashes' = crashes,
         startup' = startup, pc'[w] \notin {"down", "sweep"},
         MatTask(w)', DownloadTask(w)',
         CacheOK(k)', k \notin lapsed => SweepItem(k),
         \A v \in Workers \ {w} : job[v].item = k => MatStep(v),
         pc'[w] \in Materializing =>
           \A v \in Workers \ {w} : pc[v] \in Materializing /\ job[v].item = job'[w].item
                                      => job[v].matToken # job'[w].matToken,
         \A f \in files : f[1] = k /\ Current(w).cache = f[2] => Owned(f)',
         \A f \in files : Owner(w, f) => Owned(f)'
  PROVE  StoreInv'
<1>1. TypeOK /\ k \in Items /\ Current(w) = items[k]  BY StoreTypes DEF IInv
<1>2. items'[k] = b /\ \A i \in Items \ {k} : items'[i] = items[i]
  BY <1>1 DEF SetItem, TypeOK
<1>3. \A i \in Items \ {k} : SameMedia(items[i], items'[i])
  BY <1>2, StoreTypes, SameMediaOperations
<1>4. \A i \in Items : SameFiles(i)  BY DEF SameFiles
<1>5. \A i \in Items \ {k} : /\ CacheOK(i)' /\ SweepItem(i)
                             /\ \A v \in Workers : job[v].item = i => MatStep(v)
  BY <1>3, <1>4, SameStep
<1>6. \A i \in Items : CacheOK(i)' /\ (i \notin lapsed' => SweepItem(i))  BY <1>1, <1>5
<1>7. \A v \in Workers \ {w} : MatStep(v) /\ FileStep(v) /\ startup'[v] = startup[v]
  BY <1>5, StoreTypes DEF FileStep
<1>8. SweepTask(w)'
  <2>1. \A i \in Items : Keeps(items[i], items'[i])  BY AllKeep
  <2>2. SweepTask(w)  BY StoreFacts
  <2>3. QED BY <2>1, <2>2, StillSweep
<1>9. StoreTask(w)'  BY <1>8 DEF StoreTask
<1>10. \A f \in files' : f \notin files \/ items[f[1]].cache = f[2] \/ Owner(w, f) => Owned(f)'
  <2>1. \A f \in files : f[1] \in Items  BY <1>1 DEF TypeOK
  <2>2. \A f \in files : f[1] # k /\ items[f[1]].cache = f[2] => Owned(f)'
    BY <1>2, <2>1 DEF Owned
  <2>3. QED BY <1>1, <2>2
<1>11. QED BY <1>6, <1>7, <1>9, <1>10, StoreStep

(* claim_delivery_materialization issues a token that no task holds and no *)
(* file is named by.                                                       *)
LEMMA StoreClaimsDownload ==
  ASSUME IInv, StoreInv, [Next]_vars, NEW w \in Workers, ClaimMaterialization(w),
         MaterializationOutcome(Current(w)) = "claimed"
  PROVE  StoreInv'
<1> USE DEF ledger, disk, budget, history
<1> PICK k \in Items : k = job[w].item  BY StoreTypes
<1> DEFINE a == Current(w)
           b == MaterializationClaimed(a)
           t == a.matToken + 1
<1>1. TypeOK /\ k \in Items /\ a = items[k]  BY StoreTypes DEF IInv
<1>2. /\ pc[w] = "materialize" /\ SetItem(w, b) /\ crashes' = crashes
      /\ files' = files /\ aged' = aged /\ lapsed' = lapsed /\ startup' = startup
      /\ job' = [job EXCEPT ![w].matToken = t]
      /\ Goto(w, IF WhatsApp THEN "authorize_download" ELSE "download")
  BY DEF ClaimMaterialization
<1>3. /\ job'[w].item = k /\ job'[w].matToken = t /\ \A v \in Workers \ {w} : job'[v] = job[v]
  BY <1>1, <1>2, StoreJob
<1>4. pc'[w] \in {"authorize_download", "download"} /\ Others(w)
  BY <1>1, <1>2, <1>3 DEF Goto, TypeOK, Others, Still
<1>5. /\ a \in Item /\ GoodItem(a) /\ a.matToken \in Nat /\ PathOK(a) /\ LiveOK(k) /\ TokensOK(k)
  BY StoreFacts
<1>6. a.mat \notin Ready  BY DEF MaterializationOutcome, Ready
<1>7. /\ b.mat = "materializing" /\ b.matToken = t /\ b.path = a.path /\ b.cache = a.cache
      /\ b.status = a.status /\ b.retryable = a.retryable
  BY <1>5, MaterializationClaimedEffect, MaterializationClaimedMedia
<1> HIDE DEF b
<1>8. items'[k] = b  BY <1>1, <1>2 DEF SetItem, TypeOK
<1>9. \A u \in Nat : <<k, u>> \in files \cup aged => 0 < u /\ u <= a.matToken
  BY <1>1, <1>5 DEF TokensOK
<1>10. CacheOK(k)'
  <2>1. PathOK(b)  BY <1>5, <1>7 DEF PathOK
  <2>2. ~Sendable(b) /\ (Final(b) <=> Final(a))  BY <1>7 DEF Sendable, Final
  <2>3. LiveOK(k)'  BY <1>1, <1>2, <1>5, <1>7, <1>8, <2>2 DEF LiveOK
  <2>4. <<k, t>> \notin aged  BY <1>5, <1>9
  <2>5. TokensOK(k)'  BY <1>2, <1>5, <1>7, <1>8, <1>9, <2>4 DEF TokensOK
  <2>6. QED BY <1>8, <2>1, <2>3, <2>5 DEF CacheOK
<1>11. SweepItem(k)  BY <1>7, <1>8 DEF SweepItem, Sendable
<1>12. \A v \in Workers \ {w} : pc[v] \in Materializing /\ job[v].item = k => job[v].matToken < t
  <2> SUFFICES ASSUME NEW v \in Workers, pc[v] \in Materializing, job[v].item = k
               PROVE  job[v].matToken < t
    OBVIOUS
  <2>1. job[v].matToken <= Current(v).matToken /\ Current(v) = a /\ job[v].matToken \in Nat
    BY <1>1, StoreFacts, StoreTypes DEF MatTask
  <2>2. QED BY <1>5, <2>1
<1>13. \A v \in Workers \ {w} : job[v].item = k => MatStep(v)
  <2> SUFFICES ASSUME NEW v \in Workers \ {w}, job[v].item = k PROVE MatStep(v)
    OBVIOUS
  <2>1. Current(v) = a /\ job[v].matToken \in Nat  BY <1>1, StoreTypes
  <2>2. QED BY <1>5, <1>6, <1>7, <1>8, <1>12, <2>1 DEF MatStep
<1>14. MatTask(w)'
  BY <1>3, <1>4, <1>5, <1>7, <1>8 DEF MatTask, Current
<1>15. DownloadTask(w)'
  <2>1. <<k, t>> \notin files  BY <1>5, <1>9
  <2>2. QED BY <1>2, <1>3, <1>4, <2>1 DEF DownloadTask, File
<1>16. \A v \in Workers \ {w} : pc[v] \in Materializing /\ job[v].item = job'[w].item
                                   => job[v].matToken # job'[w].matToken
  BY <1>3, <1>5, <1>12
<1>17. \A f \in files : f[1] = k /\ a.cache = f[2] => Owned(f)'
  BY <1>7, <1>8 DEF Owned
<1>18. \A f \in files : ~Owner(w, f)  BY <1>2 DEF Owner
<1>19. pc'[w] \notin {"down", "sweep"}  BY <1>4
<1> HIDE DEF a, t
<1>20. QED
  BY <1>2, <1>4, <1>10, <1>11, <1>13, <1>14, <1>15, <1>16, <1>17, <1>18, <1>19, WriteStep DEF a

(* A download is over: the others on its item hold older tokens.           *)
LEMMA StoreFinishesDownload ==
  ASSUME IInv, StoreInv, [Next]_vars, NEW w \in Workers, FinishMaterialization(w),
         ActiveMaterialization(Current(w), job[w].matToken)
  PROVE  StoreInv'
<1> USE DEF ledger, disk, budget, history
<1> PICK k \in Items : k = job[w].item  BY StoreTypes
<1> DEFINE a == Current(w)
           t == job[w].matToken
<1>1. TypeOK /\ a = items[k] /\ t \in Nat  BY StoreTypes DEF IInv
<1>2. /\ pc[w] = "finish_materialization" /\ crashes' = crashes
      /\ files' = files /\ aged' = aged /\ lapsed' = lapsed /\ startup' = startup
  BY DEF FinishMaterialization
<1>3. pc[w] \in Materializing  BY <1>2 DEF Materializing
<1>4. /\ a \in Item /\ GoodItem(a) /\ a.matToken \in Nat /\ PathOK(a) /\ LiveOK(k) /\ TokensOK(k)
      /\ DownloadTask(w) /\ MatTask(w)
  BY StoreFacts
<1>5. a.mat = "materializing" /\ a.matToken = t /\ a.matLeased /\ 0 < t
  BY <1>3, <1>4 DEF ActiveMaterialization, MatTask
<1>6. a.cache = NoFile  BY <1>4, <1>5 DEF GoodItem, Ready
<1>7. \A u \in Nat : <<k, u>> \in files \cup aged => 0 < u /\ u <= t
  BY <1>1, <1>4, <1>5 DEF TokensOK
<1>8. ASSUME NEW b, SetItem(w, b), Others(w), b.matToken = t, ~b.matLeased, b.mat # "materializing",
             pc'[w] \in {"claim", "idle"}, MatTask(w)',
             PathOK(b), b.status # "expired", b.retryable \/ Final(b),
             Sendable(b) => b.cache = b.path /\ b.path = t /\ File(w) \in files,
             \A f \in files : Owner(w, f) => Owned(f)'
      PROVE  StoreInv'
  <2>1. items'[k] = b  BY <1>1, <1>8 DEF SetItem, TypeOK
  <2>2. LiveOK(k)'  BY <1>2, <1>8, <2>1 DEF LiveOK, File
  <2>3. TokensOK(k)'  BY <1>2, <1>7, <1>8, <2>1 DEF TokensOK
  <2>4. CacheOK(k)'  BY <1>8, <2>1, <2>2, <2>3 DEF CacheOK
  <2>5. <<k, t>> \notin aged  BY <1>1, <1>4, <1>5 DEF TokensOK
  <2>6. SweepItem(k)  BY <1>2, <1>8, <2>1, <2>5 DEF SweepItem
  <2>7. \A v \in Workers \ {w} : job[v].item = k => MatStep(v)
    <3> SUFFICES ASSUME NEW v \in Workers \ {w}, job[v].item = k PROVE MatStep(v)
      OBVIOUS
    <3>1. Current(v) = a  BY <1>1, StoreTypes
    <3>2. pc[v] \in Materializing => job[v].matToken # t
      BY <1>3 DEF StoreInv, MatTokens
    <3>3. a.mat \notin Ready  BY <1>5 DEF Ready
    <3>4. QED BY <1>1, <1>5, <1>8, <2>1, <3>1, <3>2, <3>3 DEF MatStep
  <2>8. pc'[w] \notin Materializing /\ pc'[w] \notin {"down", "sweep"}
    BY <1>8 DEF Materializing
  <2>9. DownloadTask(w)'  BY <1>8 DEF DownloadTask
  <2>10. \A f \in files : ~(f[1] = k /\ a.cache = f[2])
    <3>1. \A f \in files : f[2] \in Nat /\ f = <<f[1], f[2]>>  BY <1>1 DEF TypeOK
    <3>2. QED BY <1>6, <1>7, <3>1 DEF NoFile
  <2> HIDE DEF a, t
  <2>11. QED
    BY <1>2, <1>8, <2>4, <2>6, <2>7, <2>8, <2>9, <2>10, WriteStep DEF a
<1>9. CASE job[w].result = "ok"
  <2> DEFINE b == Materialized(a, t)
  <2>1. /\ SetItem(w, b) /\ Goto(w, "claim") /\ job' = [job EXCEPT ![w].path = t]
    BY <1>9 DEF FinishMaterialization
  <2>2. /\ job'[w].item = k /\ job'[w].path = t /\ \A v \in Workers \ {w} : job'[v] = job[v]
    BY <1>1, <2>1, StoreJob
  <2>3. pc'[w] = "claim" /\ Others(w)  BY <1>1, <2>1, <2>2 DEF Goto, TypeOK, Others, Still
  <2>4. /\ b.mat = "materialized" /\ b.matToken = t /\ b.path = t /\ b.cache = t
        /\ b.status = "pending" /\ b.retryable /\ ~b.matLeased
    <3>1. /\ b.mat = "materialized" /\ b.matToken = a.matToken /\ b.cache = t
          /\ b.status = "pending" /\ b.retryable
      BY <1>1, <1>4, MaterializedEffect
    <3>2. b.path = t /\ b.matLeased = FALSE  BY <1>4, MaterializedMedia
    <3> HIDE DEF b
    <3>3. QED BY <1>5, <3>1, <3>2
  <2> HIDE DEF b
  <2>5. items'[k] = b  BY <1>1, <2>1 DEF SetItem, TypeOK
  <2>6. File(w) \in files  BY <1>2, <1>4, <1>9 DEF DownloadTask
  <2>7. PathOK(b)  BY <1>5, <2>4 DEF PathOK
  <2>8. MatTask(w)'
    <3>1. pc'[w] \notin Materializing /\ pc'[w] # "cleanup"  BY <2>3 DEF Materializing
    <3>2. QED BY <2>2, <2>4, <2>5, <3>1 DEF MatTask, Current
  <2>9. \A f \in files : Owner(w, f) => Owned(f)'
    BY <1>2, <2>4, <2>5 DEF Owner, Owned
  <2>10. QED BY <1>8, <2>1, <2>3, <2>4, <2>6, <2>7, <2>8, <2>9
<1>10. CASE job[w].result # "ok"
  <2> DEFINE r == MaterializationRetryable(job[w].result)
             b == MaterializationFailed(a, r, job[w].result)
  <2>1. SetItem(w, b) /\ Return(w)  BY <1>10 DEF FinishMaterialization
  <2>2. pc'[w] = "idle" /\ Others(w)  BY <1>1, <2>1 DEF Return, Goto, TypeOK, Others, Still
  <2>3. r \in BOOLEAN  BY Zenon DEF MaterializationRetryable, MapDeliveryFailure
  <2> HIDE DEF r
  <2>4. /\ b.mat = "failed" /\ b.matToken = t /\ b.cache = NoFile
        /\ b.status = "failed" /\ b.retryable = r /\ ~b.matLeased
    <3>1. /\ b.mat = "failed" /\ b.matToken = a.matToken /\ b.cache = NoFile
          /\ b.status = "failed" /\ b.retryable = r
      BY <1>4, MaterializationFailedEffect
    <3>2. b.matLeased = FALSE
      <4> DEFINE m == job[w].result
      <4> HIDE DEF m
      <4>1. MaterializationFailed(a, r, m).matLeased = FALSE
        BY <1>4, MaterializationFailedMedia, Zenon
      <4>2. QED BY <4>1 DEF m
    <3> HIDE DEF b
    <3>3. QED BY <1>5, <3>1, <3>2
  <2> HIDE DEF b
  <2>5. PathOK(b) /\ ~Sendable(b) /\ (b.retryable \/ Final(b))
    BY <2>3, <2>4 DEF PathOK, Sendable, Final
  <2>6. MatTask(w)'
    BY <2>2 DEF MatTask, Materializing
  <2>7. \A f \in files : ~Owner(w, f)
    <3>1. File(w) \notin files  BY <1>2, <1>4, <1>10 DEF DownloadTask
    <3>2. \A f \in files : f = <<f[1], f[2]>>  BY <1>1 DEF TypeOK
    <3>3. QED BY <1>2, <3>1, <3>2 DEF Owner, File
  <2>8. QED BY <1>8, <2>1, <2>2, <2>4, <2>5, <2>6, <2>7
<1>11. QED BY <1>9, <1>10

(* A task removes a file that neither an item nor a download needs.        *)
LEMMA RemoveStep ==
  ASSUME IInv, StoreInv, [Next]_vars, NEW w \in Workers, Others(w), NEW g,
         files' = files \ {g}, aged' = aged \ {g}, items' = items,
         lapsed' = lapsed, crashes' = crashes, startup' = startup,
         pc'[w] \in Elsewhere,
         \A i \in Items : Sendable(items[i]) => <<i, items[i].path>> # g,
         \A v \in Workers \ {w} : /\ pc[v] = "finish_materialization"
                                  /\ ActiveMaterialization(Current(v), job[v].matToken)
                                  => File(v) # g,
         \A f \in files : Owner(w, f) => f = g
  PROVE  StoreInv'
<1>1. \A i \in Items : SameMedia(items[i], items'[i])  BY StoreTypes, SameMediaOperations
<1>2. \A i \in Items : SameFiles(i)  BY DEF SameFiles
<1>3. \A i \in Items : /\ CacheOK(i)' /\ SweepItem(i)
                       /\ \A v \in Workers : job[v].item = i => MatStep(v)
  BY <1>1, <1>2, SameStep
<1>4. \A v \in Workers \ {w} : MatStep(v) /\ FileStep(v) /\ startup'[v] = startup[v]
  <2> SUFFICES ASSUME NEW v \in Workers \ {w} PROVE MatStep(v) /\ FileStep(v)
    OBVIOUS
  <2>1. MatStep(v)  BY <1>3, StoreTypes
  <2>2. QED BY <2>1 DEF FileStep
<1>5. /\ pc'[w] \notin Materializing \cup {"claim", "cleanup", "down", "sweep"}
      /\ pc'[w] \notin {"authorize_download", "download", "finish_materialization"}
  BY DEF Elsewhere, Materializing, Holding
<1>6. StoreTask(w)'
  <2>1. MatTask(w)' /\ DownloadTask(w)'  BY <1>5 DEF MatTask, DownloadTask
  <2>2. \A i \in Items : Keeps(items[i], items'[i])  BY AllKeep
  <2>3. SweepTask(w)  BY StoreFacts
  <2>4. SweepTask(w)'  BY <1>5, <2>2, <2>3, StillSweep
  <2>5. QED BY <2>1, <2>4 DEF StoreTask
<1>7. \A f \in files' : f \notin files \/ items[f[1]].cache = f[2] \/ Owner(w, f) => Owned(f)'
  BY DEF Owned
<1>8. QED BY <1>3, <1>4, <1>5, <1>6, <1>7, StoreStep

(* The guard of a download that lost its claim drops its file.             *)
LEMMA StoreDropsDownload ==
  ASSUME IInv, StoreInv, [Next]_vars, NEW w \in Workers, FinishMaterialization(w),
         ~ActiveMaterialization(Current(w), job[w].matToken)
  PROVE  StoreInv'
<1> USE DEF ledger, disk, budget, history
<1>1. TypeOK  BY DEF IInv
<1>2. /\ pc[w] = "finish_materialization" /\ items' = items /\ crashes' = crashes
      /\ files' = files \ {File(w)} /\ aged' = aged \ {File(w)}
      /\ lapsed' = lapsed /\ startup' = startup /\ Return(w)
  BY DEF FinishMaterialization
<1>3. Others(w) /\ pc'[w] \in Elsewhere
  BY <1>1, <1>2 DEF Return, Goto, TypeOK, Others, Still, Elsewhere
<1>4. pc[w] \in Materializing  BY <1>2 DEF Materializing
<1>5. ASSUME NEW i \in Items, Sendable(items[i]) PROVE <<i, items[i].path>> # File(w)
  <2>1. CASE i = job[w].item
    <3>1. job[w].matToken = items[i].matToken => items[i].mat = "materializing"
      BY <1>4, <2>1, StoreFacts, StoreTypes DEF MatTask
    <3>2. items[i].path = items[i].matToken
      BY <1>5 DEF StoreInv, CacheOK, PathOK, Sendable
    <3>3. QED BY <1>5, <2>1, <3>1, <3>2 DEF Sendable, File
  <2>2. CASE i # job[w].item  BY <2>2 DEF File
  <2>3. QED BY <2>1, <2>2
<1>6. \A v \in Workers \ {w} : pc[v] = "finish_materialization" => File(v) # File(w)
  BY <1>4, FilesDiffer DEF Materializing
<1>7. \A f \in files : Owner(w, f) => f = File(w)
  <2>1. \A f \in files : f = <<f[1], f[2]>>  BY <1>1 DEF TypeOK
  <2>2. QED BY <1>2, <2>1 DEF Owner, File
<1>8. QED BY <1>2, <1>3, <1>5, <1>6, <1>7, RemoveStep

(* cleanup_attachment_cache removes the file of an item that is decided.   *)
LEMMA StoreCleans ==
  ASSUME IInv, StoreInv, [Next]_vars, NEW w \in Workers, CleanupAttachmentCache(w)
  PROVE  StoreInv'
<1> USE DEF ledger, disk, budget, history
<1> DEFINE g == <<job[w].item, job[w].cleanup>>
<1>1. TypeOK  BY DEF IInv
<1>2. /\ pc[w] = "cleanup" /\ items' = items /\ crashes' = crashes
      /\ files' = files \ {g} /\ aged' = aged \ {g}
      /\ lapsed' = lapsed /\ startup' = startup
      /\ Return(w) \/ NextItem(w)
  BY DEF CleanupAttachmentCache
<1>3. Others(w) /\ pc'[w] \in Elsewhere
  <2>1. CASE Return(w)
    BY <1>1, <2>1 DEF Return, Goto, TypeOK, Others, Still, Elsewhere
  <2>2. CASE ~Return(w)
    BY <1>1, <1>2, <2>2 DEF NextItem, Goto, TypeOK, Others, Still, Elsewhere
  <2>3. QED BY <2>1, <2>2
<1>4. Final(Current(w)) /\ Current(w) = items[job[w].item]
  BY <1>2, StoreFacts, StoreTypes DEF MatTask
<1>5. \A i \in Items : Sendable(items[i]) => <<i, items[i].path>> # g
  BY <1>4 DEF Sendable, RetryableState, Final
<1>6. ASSUME NEW v \in Workers \ {w}, ActiveMaterialization(Current(v), job[v].matToken)
      PROVE  File(v) # g
  <2>1. GoodItem(Current(v)) /\ Current(v) = items[job[v].item]  BY StoreFacts, StoreTypes
  <2>2. ~Final(Current(v))
    BY <1>6, <2>1 DEF ActiveMaterialization, GoodItem, Ready, Final
  <2>3. QED BY <1>4, <2>1, <2>2 DEF File
<1>7. \A f \in files : Owner(w, f) => f = g
  <2>1. \A f \in files : f = <<f[1], f[2]>>  BY <1>1 DEF TypeOK
  <2>2. QED BY <1>2, <2>1 DEF Owner
<1> HIDE DEF g
<1>8. QED BY <1>2, <1>3, <1>5, <1>6, <1>7, RemoveStep

(* What a claim and the end of an attempt have in common: they leave the   *)
(* download of the item alone.                                             *)
SameDownload(a, b) ==
  /\ b.mat = a.mat /\ b.matToken = a.matToken /\ b.path = a.path
  /\ b.matLeased = a.matLeased

(* A write of that kind, for an item with its file.                        *)
LEMMA KeepDownload ==
  ASSUME IInv, StoreInv, NEW k \in Items, NEW b, items'[k] = b, SameDownload(items[k], b),
         files' = files, aged' = aged, lapsed' = lapsed,
         b.cache \in {NoFile, b.path},
         k \notin lapsed => /\ b.status # "expired" /\ (b.retryable \/ Final(b))
                            /\ Sendable(b) => Sendable(items[k]) /\ b.cache = b.path
  PROVE  /\ CacheOK(k)' /\ (k \notin lapsed => SweepItem(k))
         /\ \A v \in Workers : job[v].item = k => MatStep(v)
<1>1. CacheOK(k) /\ PathOK(items[k]) /\ LiveOK(k) /\ TokensOK(k)  BY DEF StoreInv, CacheOK
<1>2. PathOK(b)  BY <1>1 DEF PathOK, SameDownload
<1>3. LiveOK(k)'  BY <1>1 DEF LiveOK, SameDownload
<1>4. TokensOK(k)'  BY <1>1 DEF TokensOK, SameDownload
<1>5. k \notin lapsed => SweepItem(k)  BY DEF SweepItem, SameDownload
<1>6. ASSUME NEW v \in Workers, job[v].item = k PROVE MatStep(v)
  <2>1. MatTask(v) /\ Current(v) = items[k] /\ items[k].matToken \in Nat
    BY <1>6, StoreTypes, StoreFacts
  <2>2. QED BY <1>6, <2>1 DEF MatStep, MatTask, SameDownload
<1>7. QED BY <1>2, <1>3, <1>4, <1>5, <1>6 DEF CacheOK

(* claim_delivery_item names the file of the finished download.            *)
LEMMA StoreClaims ==
  ASSUME IInv, StoreInv, [Next]_vars, NEW w \in Workers, ClaimDeliveryItem(w),
         ClaimOutcome(Current(w)) = "claimed"
  PROVE  StoreInv'
<1> USE DEF ledger, disk, budget, history
<1> PICK k \in Items : k = job[w].item  BY StoreTypes
<1> DEFINE a == Current(w)
           b == Claimed(a, job[w].path)
<1>1. TypeOK /\ a = items[k] /\ job[w].path \in Nat  BY StoreTypes DEF IInv
<1>2. /\ pc[w] = "claim" /\ SetItem(w, b) /\ crashes' = crashes
      /\ files' = files /\ aged' = aged /\ lapsed' = lapsed /\ startup' = startup
      /\ \E to \in {"finish_item", "authorize"} : Goto(w, to)
      /\ \E j : job' = [job EXCEPT ![w] = j]
  BY DEF ClaimDeliveryItem
<1>3. Others(w) /\ pc'[w] \in {"finish_item", "authorize"}
  BY <1>1, <1>2 DEF Goto, TypeOK, Others, Still
<1>4. /\ a \in Item /\ PathOK(a) /\ LiveOK(k) /\ TokensOK(k) /\ MatTask(w)
      /\ a.status \in Statuses /\ a.retryable \in BOOLEAN
  BY <1>1, StoreFacts, StoreTypes
<1>5. job[w].path = a.path  BY <1>2, <1>4 DEF MatTask
<1>6. /\ b.status = "sending" /\ b.retryable = a.retryable /\ b.cache = job[w].path
      /\ SameDownload(a, b)
  <2>1. /\ b.status = "sending" /\ b.retryable = a.retryable /\ b.cache = job[w].path
        /\ b.mat = a.mat /\ b.matToken = a.matToken
    BY <1>1, <1>4, ClaimedEffect
  <2>2. b.path = a.path /\ b.matLeased = a.matLeased  BY <1>4, ClaimedMedia
  <2>3. QED BY <2>1, <2>2 DEF SameDownload
<1> HIDE DEF b
<1>7. items'[k] = b  BY <1>1, <1>2 DEF SetItem, TypeOK
<1>8. k \notin lapsed => /\ b.status # "expired" /\ (b.retryable \/ Final(b))
                         /\ Sendable(b) => Sendable(a) /\ b.cache = b.path
  <2>1. k \notin lapsed => a.status # "expired" /\ (a.retryable \/ Final(a))
    BY <1>1, <1>4 DEF LiveOK
  <2>2. ~Final(a) /\ a.status # "succeeded"  BY DEF ClaimOutcome, Final
  <2>3. QED BY <1>4, <1>5, <1>6, <2>1, <2>2 DEF Sendable, RetryableState, SameDownload, Statuses
<1>9. b.cache \in {NoFile, b.path}  BY <1>5, <1>6 DEF SameDownload
<1>10. /\ CacheOK(k)' /\ (k \notin lapsed => SweepItem(k))
       /\ \A v \in Workers : job[v].item = k => MatStep(v)
  BY <1>1, <1>2, <1>6, <1>7, <1>8, <1>9, KeepDownload
<1>11. /\ pc'[w] \notin Materializing \cup {"claim", "cleanup", "down", "sweep"}
       /\ pc'[w] \notin {"authorize_download", "download", "finish_materialization"}
  BY <1>3 DEF Materializing
<1>12. MatTask(w)' /\ DownloadTask(w)'  BY <1>11 DEF MatTask, DownloadTask
<1>13. \A f \in files : f[1] = k /\ a.cache = f[2] => Owned(f)'
  <2> SUFFICES ASSUME NEW f \in files, f[1] = k, a.cache = f[2] PROVE Owned(f)'
    OBVIOUS
  <2>1. f[2] \in Nat /\ f = <<k, f[2]>>  BY <1>1 DEF TypeOK
  <2>2. 0 < f[2]  BY <1>4, <2>1 DEF TokensOK
  <2>3. a.cache = a.path  BY <1>4, <2>2 DEF PathOK, NoFile
  <2>4. QED BY <1>5, <1>6, <1>7, <2>3 DEF Owned
<1>14. \A f \in files : ~Owner(w, f)  BY <1>2 DEF Owner
<1> HIDE DEF a
<1>15. QED
  BY <1>2, <1>3, <1>10, <1>11, <1>12, <1>13, <1>14, WriteStep DEF a

(* finish_delivery_item keeps the file for a retry, or hands it to the     *)
(* task that removes it.                                                   *)
LEMMA StoreFinishes ==
  ASSUME IInv, StoreInv, [Next]_vars, NEW w \in Workers, FinishDeliveryItem(w),
         ActiveClaim(Current(w), job[w].token)
  PROVE  StoreInv'
<1> USE DEF ledger, disk, budget, history
<1> PICK k \in Items : k = job[w].item  BY StoreTypes
<1> DEFINE a == Current(w)
           ok == job[w].result = "ok"
           r == ~ok /\ MapDeliveryFailure(job[w].result)
           s == IF ok THEN "succeeded" ELSE "failed"
           b == ItemFinished(a, s, r, job[w].result, job[w].prepared)
           c == IF r THEN NoFile ELSE a.cache
<1>1. TypeOK /\ a = items[k]  BY StoreTypes DEF IInv
<1>2. /\ pc[w] = "finish_item" /\ SetItem(w, b) /\ crashes' = crashes
      /\ files' = files /\ aged' = aged /\ lapsed' = lapsed /\ startup' = startup
      /\ \/ c # NoFile /\ job' = [job EXCEPT ![w].cleanup = c] /\ Goto(w, "cleanup")
         \/ c = NoFile /\ (NextItem(w) \/ Return(w))
  BY DEF FinishDeliveryItem
<1>3. r \in BOOLEAN /\ s \in {"succeeded", "failed"} /\ (s = "succeeded" => ~r)
  BY DEF MapDeliveryFailure
<1>4. /\ a \in Item /\ PathOK(a) /\ LiveOK(k) /\ TokensOK(k)
      /\ a.status \in Statuses /\ a.retryable \in BOOLEAN
  BY <1>1, StoreFacts, StoreTypes
<1> HIDE DEF r, s
<1>5. /\ b.status = s /\ b.retryable = r /\ SameDownload(a, b)
      /\ b.cache = IF r THEN a.cache ELSE NoFile
  <2>1. /\ b.status = s /\ b.retryable = r /\ b.mat = a.mat /\ b.matToken = a.matToken
    BY <1>4, ItemFinishedEffect
  <2>2. /\ b.path = a.path /\ b.matLeased = a.matLeased
        /\ s = "succeeded" \/ ~r => b.cache = NoFile
        /\ ~(s = "succeeded" \/ ~r) => b.cache = a.cache
    BY <1>4, ItemFinishedCache
  <2> HIDE DEF b
  <2>3. QED BY <1>3, <2>1, <2>2 DEF SameDownload
<1> HIDE DEF b
<1>6. items'[k] = b  BY <1>1, <1>2 DEF SetItem, TypeOK
<1>7. k \notin lapsed => /\ b.status # "expired" /\ (b.retryable \/ Final(b))
                         /\ Sendable(b) => Sendable(a) /\ b.cache = b.path
  <2>1. a.status = "sending"  BY DEF ActiveClaim
  <2>2. k \notin lapsed => /\ a.retryable
                           /\ Sendable(a) => a.cache = a.path
    BY <1>1, <1>4, <2>1 DEF LiveOK, Final
  <2>3. QED BY <1>3, <1>5, <2>1, <2>2 DEF Sendable, RetryableState, SameDownload, Final
<1>8. b.cache \in {NoFile, b.path}  BY <1>4, <1>5 DEF SameDownload, PathOK
<1>9. /\ CacheOK(k)' /\ (k \notin lapsed => SweepItem(k))
      /\ \A v \in Workers : job[v].item = k => MatStep(v)
  BY <1>1, <1>2, <1>5, <1>6, <1>7, <1>8, KeepDownload
<1>10. \A f \in files : ~Owner(w, f)  BY <1>2 DEF Owner
<1>11. CASE c # NoFile /\ job' = [job EXCEPT ![w].cleanup = c] /\ Goto(w, "cleanup")
  <2>1. job'[w].item = k /\ job'[w].cleanup = c /\ \A v \in Workers \ {w} : job'[v] = job[v]
    BY <1>1, <1>11, StoreJob
  <2>2. pc'[w] = "cleanup" /\ Others(w)  BY <1>1, <1>11, <2>1 DEF Goto, TypeOK, Others, Still
  <2>3. ~r /\ c = a.cache  BY <1>11
  <2>4. Final(b)  BY <1>3, <1>5, <2>3 DEF Final
  <2>5. pc'[w] \notin Materializing \cup {"claim", "down", "sweep"}  BY <2>2 DEF Materializing
  <2>6. MatTask(w)' /\ DownloadTask(w)'
    BY <1>6, <2>1, <2>2, <2>4, <2>5 DEF MatTask, DownloadTask, Current
  <2>7. \A f \in files : f[1] = k /\ a.cache = f[2] => Owned(f)'
    BY <2>1, <2>2, <2>3 DEF Owned, Owner
  <2> HIDE DEF a, c
  <2>8. QED
    BY <1>2, <1>9, <1>10, <2>2, <2>5, <2>6, <2>7, WriteStep DEF a
<1>12. CASE c = NoFile /\ (NextItem(w) \/ Return(w))
  <2>1. Others(w) /\ pc'[w] \in Elsewhere
    <3>1. CASE Return(w)
      BY <1>1, <3>1 DEF Return, Goto, TypeOK, Others, Still, Elsewhere
    <3>2. CASE ~Return(w)
      BY <1>1, <1>12, <3>2 DEF NextItem, Goto, TypeOK, Others, Still, Elsewhere
    <3>3. QED BY <3>1, <3>2
  <2>2. /\ pc'[w] \notin Materializing \cup {"claim", "cleanup", "down", "sweep"}
        /\ pc'[w] \notin {"authorize_download", "download", "finish_materialization"}
    BY <2>1 DEF Elsewhere, Materializing, Holding
  <2>3. MatTask(w)' /\ DownloadTask(w)'  BY <2>2 DEF MatTask, DownloadTask
  <2>4. b.cache = a.cache  BY <1>5, <1>12
  <2>5. \A f \in files : f[1] = k /\ a.cache = f[2] => Owned(f)'
    BY <1>6, <2>4 DEF Owned
  <2> HIDE DEF a, c
  <2>6. QED
    BY <1>2, <1>9, <1>10, <2>1, <2>2, <2>3, <2>5, WriteStep DEF a
<1>13. QED BY <1>2, <1>11, <1>12

(* reconcile_delivery_cache, on an item it does not expire: the outcome    *)
(* stays, and an item that may be sent is not written at all.              *)
LEMMA ReconciledMedia ==
  ASSUME NEW it \in Item
  PROVE  LET n == Reconciled(it) IN
         /\ SameDownload(it, n) /\ n.cache \in {NoFile, it.cache}
         /\ ~(Discarded(it) /\ Expired(it)) =>
              /\ n.status = it.status /\ n.retryable = it.retryable
              /\ Sendable(n) => n = it
<1> DEFINE x == [it EXCEPT !.cache = NoFile, !.status = "expired",
                           !.retryable = FALSE, !.error = "cache_expired",
                           !.leased = FALSE, !.old = FALSE]
           y == [it EXCEPT !.cache = NoFile, !.old = FALSE]
           n == Reconciled(it)
<1>1. SameDownload(it, x) /\ x.cache = NoFile  BY DEF Item, SameDownload
<1>2. /\ SameDownload(it, y) /\ y.cache = NoFile
      /\ y.status = it.status /\ y.retryable = it.retryable
  BY DEF Item, SameDownload
<1>3. SameDownload(it, it)  BY DEF SameDownload
<1>4. \/ n = it
      \/ n = x /\ Discarded(it) /\ Expired(it)
      \/ n = y /\ Discarded(it) /\ ~Expired(it)
  BY Zenon DEF Reconciled
<1> HIDE DEF x, y, n
<1>5. Discarded(it) /\ ~Expired(it) => ~RetryableState(it)
  BY DEF Discarded, Retained
<1>6. CASE n = y /\ Discarded(it) /\ ~Expired(it)
  <2>1. ~Sendable(n)  BY <1>2, <1>5, <1>6 DEF Sendable, RetryableState
  <2>2. QED BY <1>2, <1>6, <2>1 DEF n
<1>7. CASE n = x /\ Discarded(it) /\ Expired(it)  BY <1>1, <1>7 DEF n
<1>8. CASE n = it  BY <1>3, <1>8 DEF n
<1>9. QED BY <1>4, <1>6, <1>7, <1>8

(* A process starts: what it will remove and keep, and whom it expired.    *)
LEMMA StoreStart ==
  ASSUME IInv, StoreInv, [Next]_vars, NEW w \in Workers, Start(w)
  PROVE  StoreInv'
<1> USE DEF ledger, disk, budget, history
<1>1. TypeOK  BY DEF IInv
<1>2. /\ pc[w] = "down" /\ crashes' = crashes /\ files' = files /\ aged' = aged
      /\ lapsed' = lapsed \cup {i \in Items : Discarded(items[i]) /\ Expired(items[i])}
      /\ \A i \in Items : items'[i] = Reconciled(items[i])
      /\ job' = job /\ Goto(w, "sweep")
  BY DEF Start
<1>3. startup' = [startup EXCEPT ![w] =
       [delete   |-> {<<i, items[i].cache>> : i \in {j \in Items : Discarded(items[j])}},
        retained |-> {<<i, items[i].cache>> : i \in {j \in Items : Retained(items[j])}}]]
  BY DEF Start
<1>4. Others(w) /\ pc'[w] = "sweep"  BY <1>1, <1>2 DEF Goto, TypeOK, Others, Still
<1>5. crashes' # 0
  <2>1. SweepTask(w)  BY StoreFacts
  <2>2. QED BY <1>2, <2>1 DEF SweepTask
<1>6. /\ startup'[w].delete = {<<i, items[i].cache>> : i \in {j \in Items : Discarded(items[j])}}
      /\ startup'[w].retained = {<<i, items[i].cache>> : i \in {j \in Items : Retained(items[j])}}
      /\ \A v \in Workers \ {w} : startup'[v] = startup[v]
  BY <1>1, <1>3 DEF TypeOK
<1>7. ASSUME NEW i \in Items
      PROVE  /\ SameDownload(items[i], items'[i]) /\ items'[i].cache \in {NoFile, items[i].cache}
             /\ i \notin lapsed' => /\ items'[i].status = items[i].status
                                    /\ items'[i].retryable = items[i].retryable
                                    /\ Sendable(items'[i]) => items'[i] = items[i]
  BY <1>2, StoreTypes, ReconciledMedia
<1>8. ASSUME NEW i \in Items
      PROVE  /\ CacheOK(i)' /\ (i \notin lapsed' => SweepItem(i))
             /\ \A v \in Workers : job[v].item = i => MatStep(v)
  <2>1. PathOK(items[i]) /\ LiveOK(i) /\ TokensOK(i)  BY DEF StoreInv, CacheOK
  <2>2. PathOK(items[i])'  BY <1>7, <2>1 DEF PathOK, SameDownload
  <2>3. LiveOK(i)'
    <3> SUFFICES ASSUME i \notin lapsed'
                 PROVE  /\ items'[i].status # "expired" /\ (items'[i].retryable \/ Final(items'[i]))
                        /\ Sendable(items'[i]) => /\ items'[i].cache = items'[i].path
                                                  /\ <<i, items'[i].path>> \in files'
      BY DEF LiveOK
    <3>1. i \notin lapsed  BY <1>2
    <3>2. QED BY <1>2, <1>7, <2>1, <3>1 DEF LiveOK, Final
  <2>4. TokensOK(i)'  BY <1>2, <1>7, <2>1 DEF TokensOK, SameDownload
  <2>5. i \notin lapsed' => SweepItem(i)  BY <1>2, <1>7 DEF SweepItem
  <2>6. ASSUME NEW v \in Workers, job[v].item = i PROVE MatStep(v)
    <3>1. MatTask(v) /\ Current(v) = items[i] /\ items[i].matToken \in Nat
      BY <2>6, StoreTypes, StoreFacts
    <3>2. QED BY <1>7, <2>6, <3>1 DEF MatStep, MatTask, SameDownload
  <2>7. QED BY <2>2, <2>3, <2>4, <2>5, <2>6 DEF CacheOK
<1>9. SweepTask(w)'
  <2>1. ASSUME NEW i \in Items, NEW t \in Nat, <<i, t>> \in startup'[w].delete
        PROVE  items'[i].mat \in Ready /\ (i \in lapsed' \/ Final(items'[i]))
    <3>1. Discarded(items[i])  BY <1>6, <2>1
    <3>2. items[i].mat \in Ready
      BY <3>1, StoreTypes DEF Discarded, GoodItem
    <3>3. items'[i].mat \in Ready  BY <1>7, <3>2 DEF SameDownload
    <3>4. ASSUME i \notin lapsed' PROVE Final(items'[i])
      <4>1. i \notin lapsed /\ ~Expired(items[i])  BY <1>2, <3>1, <3>4
      <4>2. ~RetryableState(items[i])  BY <3>1, <4>1 DEF Discarded, Retained
      <4>3. items[i].status # "expired" /\ (items[i].retryable \/ Final(items[i]))
        BY <4>1 DEF StoreInv, CacheOK, LiveOK
      <4>4. items[i].status \in Statuses  BY StoreTypes
      <4>5. Final(items[i])  BY <4>2, <4>3, <4>4 DEF RetryableState, Final, Statuses
      <4>6. QED BY <1>7, <3>4, <4>5 DEF Final
    <3>5. QED BY <3>3, <3>4
  <2>2. ASSUME NEW i \in Items \ lapsed', Sendable(items'[i])
        PROVE  <<i, items'[i].path>> \in startup'[w].retained
    <3>1. items'[i] = items[i] /\ i \notin lapsed  BY <1>2, <1>7, <2>2
    <3>2. Sendable(items[i]) /\ items[i].cache = items[i].path /\ items[i].path > 0
      BY <2>2, <3>1 DEF StoreInv, CacheOK, LiveOK, PathOK, Sendable
    <3>3. items[i].cache # NoFile  BY <3>2 DEF NoFile
    <3>4. ~(Discarded(items[i]) /\ Expired(items[i]))  BY <1>2, <2>2
    <3>5. Retained(items[i])
      BY <3>2, <3>3, <3>4 DEF Discarded, Retained, Sendable
    <3>6. QED BY <1>6, <3>1, <3>2, <3>5
  <2>3. QED BY <1>5, <2>1, <2>2 DEF SweepTask
<1>10. /\ pc'[w] \notin Materializing /\ pc'[w] \notin {"claim", "cleanup"}
  BY <1>4 DEF Materializing
<1>11. StoreTask(w)'
  <2>1. MatTask(w)' /\ DownloadTask(w)'  BY <1>4, <1>10 DEF MatTask, DownloadTask
  <2>2. QED BY <1>9, <2>1 DEF StoreTask
<1>12. \A v \in Workers \ {w} : MatStep(v) /\ FileStep(v) /\ startup'[v] = startup[v]
  BY <1>2, <1>6, <1>8, StoreTypes DEF FileStep
<1>13. lapsed \subseteq lapsed'  BY <1>2
<1>14. QED BY <1>4, <1>5, <1>8, <1>10, <1>11, <1>12, <1>13, StoreStep

(* The sweep of a starting process removes nothing that is still needed.   *)
LEMMA StoreSweeps ==
  ASSUME IInv, StoreInv, [Next]_vars, NEW w \in Workers, Sweep(w)
  PROVE  StoreInv'
<1> USE DEF ledger, disk, budget, history
<1>1. TypeOK  BY DEF IInv
<1>2. /\ pc[w] = "sweep" /\ crashes' = crashes /\ items' = items /\ job' = job
      /\ files' = files \ (startup[w].delete \cup (aged \ startup[w].retained))
      /\ aged' = aged \cap files' /\ lapsed' = lapsed
      /\ startup' = [startup EXCEPT ![w] = NoStartup] /\ Goto(w, "idle")
  BY DEF Sweep
<1>3. SweepTask(w)  BY StoreFacts
<1>4. crashes' # 0  BY <1>2, <1>3 DEF SweepTask
<1>5. Others(w) /\ pc'[w] = "idle"  BY <1>1, <1>2 DEF Goto, TypeOK, Others, Still
<1>6. /\ startup'[w].delete = {}
      /\ \A v \in Workers \ {w} : startup'[v] = startup[v]
  BY <1>1, <1>2 DEF TypeOK, NoStartup
<1>7. ASSUME NEW i \in Items PROVE SameFiles(i)
  <2>1. ASSUME i \notin lapsed, Sendable(items[i]), <<i, items[i].path>> \in files
        PROVE  <<i, items[i].path>> \in files'
    <3>1. ~Final(items[i])  BY <2>1 DEF Sendable, RetryableState, Final
    <3>2. items[i].path \in Nat  BY StoreTypes
    <3>3. <<i, items[i].path>> \notin startup[w].delete
      BY <1>3, <2>1, <3>1, <3>2 DEF SweepTask
    <3>4. <<i, items[i].path>> \in aged => <<i, items[i].path>> \in startup[w].retained
      BY <1>2, <1>3, <2>1 DEF SweepTask
    <3>5. QED BY <1>2, <2>1, <3>3, <3>4
  <2>2. QED BY <1>2, <2>1 DEF SameFiles
<1>8. \A i \in Items : SameMedia(items[i], items'[i])  BY <1>2, StoreTypes, SameMediaOperations
<1>9. \A i \in Items : /\ CacheOK(i)' /\ SweepItem(i)
                       /\ \A v \in Workers : job[v].item = i => MatStep(v)
  BY <1>2, <1>7, <1>8, SameStep
<1>10. ASSUME NEW v \in Workers PROVE MatStep(v) /\ FileStep(v)
  <2>1. MatStep(v)  BY <1>9, StoreTypes
  <2>2. ASSUME File(v) \in files, ActiveMaterialization(Current(v), job[v].matToken)
        PROVE  File(v) \in files'
    <3>1. /\ job[v].item \in Items /\ job[v].matToken \in Nat /\ Current(v) = items[job[v].item]
          /\ TokensOK(job[v].item)
      BY StoreTypes, StoreFacts
    <3>2. File(v) \notin aged
      BY <2>2, <3>1 DEF TokensOK, ActiveMaterialization, File
    <3>3. File(v) \notin startup[w].delete
      BY <1>3, <2>2, <3>1 DEF SweepTask, ActiveMaterialization, File, Ready
    <3>4. QED BY <1>2, <2>2, <3>2, <3>3
  <2>3. QED BY <1>2, <2>1, <2>2 DEF FileStep
<1>11. pc'[w] \notin Materializing  BY <1>5 DEF Materializing
<1>12. StoreTask(w)'
  <2>1. MatTask(w)' /\ DownloadTask(w)'  BY <1>5, <1>11 DEF MatTask, DownloadTask
  <2>2. SweepTask(w)'  BY <1>4, <1>5, <1>6 DEF SweepTask
  <2>3. QED BY <2>1, <2>2 DEF StoreTask
<1>13. QED BY <1>2, <1>4, <1>5, <1>6, <1>9, <1>10, <1>11, <1>12, StoreStep

(* Leases that run out, a day that passes, consent that ends.              *)
LEMMA StoreRests ==
  ASSUME IInv, StoreInv, [Next]_vars,
         \/ \E i \in Items : LeaseExpires(i) \/ MaterializationLeaseExpires(i)
         \/ DayPasses \/ Revoke \/ UNCHANGED vars
  PROVE  StoreInv'
<1> USE DEF ledger, disk, budget, history
<1>1. TypeOK  BY DEF IInv
<1>2. /\ pc' = pc /\ job' = job /\ startup' = startup /\ files' = files
      /\ lapsed' = lapsed /\ crashes' = crashes
  BY DEF LeaseExpires, MaterializationLeaseExpires, DayPasses, Revoke, vars
<1>3. \A i \in Items : \/ items'[i] = items[i]
                       \/ items'[i] = [items[i] EXCEPT !.leased = FALSE]
                       \/ items'[i] = [items[i] EXCEPT !.matLeased = FALSE]
                       \/ items'[i] = [items[i] EXCEPT !.old = TRUE]
  <2>1. CASE \E i \in Items : LeaseExpires(i)  BY <1>1, <2>1 DEF LeaseExpires, TypeOK
  <2>2. CASE \E i \in Items : MaterializationLeaseExpires(i)
    BY <1>1, <2>2 DEF MaterializationLeaseExpires, TypeOK
  <2>3. CASE DayPasses  BY <2>3 DEF DayPasses
  <2>4. CASE Revoke \/ UNCHANGED vars  BY <2>4 DEF Revoke, vars
  <2>5. QED BY <2>1, <2>2, <2>3, <2>4
<1>4. \A i \in Items : SameMedia(items[i], items'[i])
  BY <1>3, StoreTypes, SameMediaOperations
<1>5. \/ aged' = aged
      \/ /\ aged' = files /\ \A v \in Workers : pc[v] # "sweep"
         /\ \A i \in Items : ~items[i].matLeased
  BY DEF LeaseExpires, MaterializationLeaseExpires, DayPasses, Revoke, vars
<1>6. ASSUME NEW i \in Items
      PROVE  /\ CacheOK(i)' /\ (aged' = aged => SweepItem(i))
             /\ \A v \in Workers : job[v].item = i => MatStep(v)
  <2>1. CASE aged' = aged
    <3>1. SameFiles(i)  BY <1>2, <2>1 DEF SameFiles
    <3>2. QED BY <1>2, <1>4, <3>1, SameStep
  <2>2. CASE aged' = files /\ ~items[i].matLeased /\ aged' # aged
    <3>1. PathOK(items[i]) /\ LiveOK(i) /\ TokensOK(i)  BY DEF StoreInv, CacheOK
    <3>2. PathOK(items[i])'  BY <1>4, <3>1 DEF PathOK, SameMedia
    <3>3. LiveOK(i)'
      <4>1. Final(items'[i]) <=> Final(items[i])  BY <1>4 DEF Final, SameMedia
      <4>2. Sendable(items'[i]) <=> Sendable(items[i])
        BY <1>4 DEF Sendable, RetryableState, SameMedia
      <4>3. QED BY <1>2, <1>4, <3>1, <4>1, <4>2 DEF LiveOK, SameMedia
    <3>4. TokensOK(i)'  BY <1>2, <1>4, <2>2, <3>1 DEF TokensOK, SameMedia
    <3>5. ASSUME NEW v \in Workers, job[v].item = i PROVE MatStep(v)
      <4>1. MatTask(v) /\ Current(v) = items[i] /\ items[i].matToken \in Nat
        BY <3>5, StoreTypes, StoreFacts
      <4>2. QED BY <1>4, <3>5, <4>1 DEF MatStep, MatTask, SameMedia
    <3>6. QED BY <2>2, <3>2, <3>3, <3>4, <3>5 DEF CacheOK
  <2>3. QED BY <1>5, <2>1, <2>2
<1>7. ASSUME NEW v \in Workers PROVE StoreTask(v)'
  <2>1. Still(v) /\ FileStep(v)  BY <1>2 DEF Still, FileStep
  <2>2. MatStep(v)  BY <1>6, StoreTypes
  <2>3. \A i \in Items : Keeps(items[i], items'[i])  BY AllKeep
  <2>4. MatTask(v) /\ DownloadTask(v) /\ SweepTask(v)  BY StoreFacts
  <2>5. Keeps(Current(v), items'[job[v].item])  BY <2>3, StoreTypes
  <2>6. MatTask(v)' /\ DownloadTask(v)'  BY <2>1, <2>2, <2>4, <2>5, StillDownload
  <2>7. crashes' = 0 => pc'[v] \notin {"down", "sweep"}  BY <1>2, <2>4 DEF SweepTask
  <2>8. pc'[v] = "sweep" => pc[v] = "sweep" /\ \A i \in Items \ lapsed' : SweepItem(i)
    BY <1>2, <1>5, <1>6
  <2>9. SweepTask(v)'  BY <1>2, <2>3, <2>4, <2>7, <2>8, StillSweep
  <2>10. QED BY <2>6, <2>9 DEF StoreTask
<1>8. MatTokens'  BY <1>2 DEF StoreInv, MatTokens
<1>9. FilesAreOwned'
  <2>1. \A f \in files : f[1] \in Items  BY <1>1 DEF TypeOK
  <2>2. \A f \in files : items'[f[1]].cache = items[f[1]].cache  BY <1>4, <2>1 DEF SameMedia
  <2>3. QED BY <1>2, <2>2 DEF StoreInv, FilesAreOwned
<1>10. QED BY <1>6, <1>7, <1>8, <1>9 DEF StoreInv

(* Every step keeps what is known about attachments.                       *)
LEMMA StoreNext ==
  ASSUME IInv, StoreInv, [Next]_vars
  PROVE  StoreInv'
<1>1. ASSUME NEW w \in Workers, ClaimMaterialization(w) PROVE StoreInv'
  <2>1. MaterializationOutcome(Current(w)) \in {"materialized", "terminal_failed", "busy", "claimed"}
    BY DEF MaterializationOutcome
  <2>2. QED BY <1>1, <2>1, StoreAway, StoreReady, StoreClaimsDownload
<1>2. ASSUME NEW w \in Workers, FinishMaterialization(w) PROVE StoreInv'
  BY <1>2, StoreFinishesDownload, StoreDropsDownload
<1>3. ASSUME NEW w \in Workers, ClaimDeliveryItem(w) PROVE StoreInv'
  BY <1>3, StoreAway, StoreClaims
<1>4. ASSUME NEW w \in Workers, FinishDeliveryItem(w) PROVE StoreInv'
  BY <1>4, StoreAway, StoreFinishes
<1>5. ASSUME NEW w \in Workers, AuthorizeDownload(w) \/ Download(w) \/ CleanupAttachmentCache(w)
                                \/ Start(w) \/ Sweep(w) \/ Crash(w)
      PROVE  StoreInv'
  BY <1>5, StoreAuthorizeDownload, StoreDownload, StoreCleans, StoreStart, StoreSweeps, StoreCrash
<1>6. ASSUME NEW w \in Workers,
             \/ \E fp \in Fingerprints : HandleNotification(w, fp)
             \/ RetryPendingDeliveries(w) \/ PersistDeliveryPlan(w) \/ SaveDeliveryRecord(w)
             \/ Authorize(w) \/ PrepareOutbound(w) \/ AuthorizePrepared(w) \/ SendOutbound(w)
             \/ FinishDeliveryStage(w)
      PROVE  StoreInv'
  BY <1>6, StoreAway
<1>7. ASSUME NEW w \in Workers, Step(w) PROVE StoreInv'
  BY <1>1, <1>2, <1>3, <1>4, <1>5, <1>6, <1>7 DEF Step
<1>8. QED BY <1>5, <1>6, <1>7, StoreRests DEF Next

(* What the ledger refers to can be used and nothing else is kept: what    *)
(* send_delivery_stage reuses was uploaded for its stage, a retry finds    *)
(* its file unless the reconcile_delivery_cache of a restart expired it,   *)
(* and until a process is killed every file is named by the ledger or held *)
(* by the task that will record or remove it.                              *)
THEOREM StoredMediaFitsHolds == Spec => []StoredMediaFits
<1> DEFINE Inv == StaleInv /\ UploadInv /\ StoreInv
<1>1. Init => Inv
  <2> SUFFICES ASSUME Init PROVE Inv  OBVIOUS
  <2>1. \A i \in Items : /\ items[i].media = "none" /\ items[i].cache = NoFile
                         /\ items[i].mat # "materialized" /\ items[i].status = "pending"
                         /\ items[i].retryable /\ ~items[i].matLeased
    <3>1. \A i \in Items : items[i] = NewItem(i \in MediaItems)  BY DEF Init
    <3> TAKE i \in Items
    <3> DEFINE it == NewItem(i \in MediaItems)
    <3>2. it.media = "none" /\ it.cache = NoFile /\ it.status = "pending"
      BY DEF NewItem
    <3>3. it.retryable = TRUE /\ it.matLeased = FALSE
      BY DEF NewItem
    <3>4. it.mat # "materialized"
      <4>1. CASE i \in MediaItems  BY <4>1 DEF NewItem
      <4>2. CASE i \notin MediaItems  BY <4>2 DEF NewItem
      <4>3. QED BY <4>1, <4>2
    <3>5. items[i] = it  BY <3>1
    <3> HIDE DEF it
    <3>6. QED BY <3>2, <3>3, <3>4, <3>5
  <2>2. \A w \in Workers : pc[w] = "idle" /\ startup[w].delete = {}
    BY DEF Init, NoStartup
  <2>3. files = {} /\ aged = {}  BY DEF Init
  <2>4. StaleInv  BY <2>2 DEF StaleInv, StaleOK
  <2>5. UploadInv  BY <2>1, <2>2 DEF UploadInv, UploadItem, UploadTask, Holding
  <2>6. \A i \in Items : CacheOK(i)
    BY <2>1, <2>3 DEF CacheOK, PathOK, LiveOK, TokensOK, Sendable
  <2>7. \A w \in Workers : StoreTask(w)
    BY <2>2 DEF StoreTask, MatTask, DownloadTask, SweepTask, Materializing
  <2>8. MatTokens /\ FilesAreOwned
    BY <2>2, <2>3 DEF MatTokens, FilesAreOwned, Materializing
  <2>9. QED BY <2>4, <2>5, <2>6, <2>7, <2>8 DEF StoreInv
<1>2. IInv /\ Inv /\ [Next]_vars => Inv'
  <2> SUFFICES ASSUME IInv, Inv, [Next]_vars PROVE Inv'  OBVIOUS
  <2>1. StaleInv'
    <3>1. Rests \/ \E w \in Workers : TryStep(w)  BY TryNext
    <3>2. QED BY <3>1, StaleStep
  <2>2. UploadInv'  BY UploadInvNext
  <2>3. StoreInv'  BY StoreNext
  <2>4. QED BY <2>1, <2>2, <2>3
<1>3. Inv => StoredMediaFits
  <2> SUFFICES ASSUME Inv PROVE StoredMediaFits  OBVIOUS
  <2>1. UploadFitsStage  BY DEF UploadFitsStage, UploadInv, UploadTask, Holding
  <2>2. CacheKeptForRetry  BY DEF CacheKeptForRetry, StoreInv, CacheOK, LiveOK, Sendable
  <2>3. QED BY <2>1, <2>2 DEF StoredMediaFits, StoreInv
<1> HIDE DEF Inv
<1>4. QED BY <1>1, <1>2, <1>3, Invariance, PTL DEF Spec
=============================================================================
