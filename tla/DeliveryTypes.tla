--------------------------- MODULE DeliveryTypes ----------------------------
(***************************************************************************)
(* Type correctness of the delivery pipeline, proved for every number of   *)
(* tasks, items, attempts, faults and kills.                               *)
(***************************************************************************)
EXTENDS DeliveryProperties, TLAPS

-----------------------------------------------------------------------------
(* The ledger operations of store.rs write well-formed items.  A long      *)
(* EXCEPT is taken apart into a chain of short ones.                       *)

(* persist_delivery_plan writes an item.                                   *)
LEMMA NewItemType == \A i \in Items : NewItem(i \in MediaItems) \in Item
<1> TAKE i \in Items
<1>1. CASE i \in MediaItems
  BY <1>1 DEF NewItem, Item, Statuses, MaterializationStatuses, Stages, Messages, NoFile
<1>2. CASE i \notin MediaItems
  BY <1>2 DEF NewItem, Item, Statuses, MaterializationStatuses, Stages, Messages, NoFile
<1>3. QED BY <1>1, <1>2

(* claim_delivery_item writes an item.                                     *)
LEMMA ClaimedType == ASSUME NEW it \in Item, NEW p \in Nat PROVE Claimed(it, p) \in Item
<1> DEFINE a == [it EXCEPT !.status = "sending"]
           c(x) == [x EXCEPT !.token = @ + 1]
           d(x) == [x EXCEPT !.leased = TRUE, !.cache = p, !.old = FALSE]
<1>1. a \in Item  BY DEF Item, Statuses
<1>2. \A x \in Item : c(x) \in Item  BY DEF Item
<1>3. \A x \in Item : d(x) \in Item  BY DEF Item
<1>4. Claimed(it, p) = d(c(a))
  BY Zenon DEF Claimed
<1> HIDE DEF a, c, d
<1>5. QED BY <1>1, <1>2, <1>3, <1>4

(* record_delivery_item_upload writes an item.                             *)
LEMMA UploadRecordedType ==
  ASSUME NEW it \in Item, NEW s \in Stages PROVE UploadRecorded(it, s) \in Item
  BY DEF UploadRecorded, Item, Stages

(* finish_delivery_stage writes an item.                                   *)
LEMMA StageFinishedType ==
  ASSUME NEW it \in Item, NEW s \in Stages, NEW b \in BOOLEAN, NEW p
  PROVE  StageFinished(it, s, b, p) \in Item
  BY DEF StageFinished, Item, Stages

(* finish_delivery_item writes an item.                                    *)
LEMMA ItemFinishedType ==
  ASSUME NEW it \in Item, NEW s \in {"succeeded", "failed"}, NEW b \in BOOLEAN,
         NEW m \in Messages, NEW p \in Stages \cup {"none"}
  PROVE  ItemFinished(it, s, b, m, p) \in Item
<1> DEFINE a == [it EXCEPT !.status = s, !.retryable = b, !.error = m]
           newMedia(x) == IF p = "none" THEN x.media ELSE p
           newCache(x) == IF s = "succeeded" \/ ~b THEN NoFile ELSE x.cache
           c(x) == [x EXCEPT !.media = newMedia(x)]
           d(x) == [x EXCEPT !.leased = FALSE, !.old = FALSE]
           e(x) == [x EXCEPT !.cache = newCache(x)]
<1>1. a \in Item  BY DEF Item, Statuses
<1>2. \A x \in Item : c(x) \in Item  BY DEF Item, Stages
<1>3. \A x \in Item : d(x) \in Item  BY DEF Item
<1>4. \A x \in Item : e(x) \in Item  BY DEF Item, NoFile
<1>5. ItemFinished(it, s, b, m, p) = e(d(c(a)))
  BY Zenon DEF ItemFinished
<1> HIDE DEF a, c, d, e
<1>6. QED BY <1>1, <1>2, <1>3, <1>4, <1>5

(* claim_delivery_materialization writes an item.                          *)
LEMMA MaterializationClaimedType ==
  ASSUME NEW it \in Item PROVE MaterializationClaimed(it) \in Item
<1> DEFINE a == [it EXCEPT !.mat = "materializing"]
           c(x) == [x EXCEPT !.matToken = @ + 1]
           d(x) == [x EXCEPT !.matLeased = TRUE]
<1>1. a \in Item  BY DEF Item, MaterializationStatuses
<1>2. \A x \in Item : c(x) \in Item  BY DEF Item
<1>3. \A x \in Item : d(x) \in Item  BY DEF Item
<1>4. MaterializationClaimed(it) = d(c(a))
  BY Zenon DEF MaterializationClaimed
<1> HIDE DEF a, c, d
<1>5. QED BY <1>1, <1>2, <1>3, <1>4

(* finish_delivery_materialization, after a download, writes an item.      *)
LEMMA MaterializedType ==
  ASSUME NEW it \in Item, NEW f \in Nat PROVE Materialized(it, f) \in Item
<1> DEFINE a == [it EXCEPT !.mat = "materialized", !.matRetry = TRUE, !.matLeased = FALSE]
           c(x) == [x EXCEPT !.path = f, !.cache = f, !.status = "pending"]
           d(x) == [x EXCEPT !.retryable = TRUE, !.error = "ok", !.old = FALSE]
<1>1. a \in Item  BY DEF Item, MaterializationStatuses
<1>2. \A x \in Item : c(x) \in Item  BY DEF Item, Statuses
<1>3. \A x \in Item : d(x) \in Item  BY DEF Item, Messages
<1>4. Materialized(it, f) = d(c(a))
  BY Zenon DEF Materialized
<1> HIDE DEF a, c, d
<1>5. QED BY <1>1, <1>2, <1>3, <1>4

(* finish_delivery_materialization, after a failure, writes an item.       *)
LEMMA MaterializationFailedType ==
  ASSUME NEW it \in Item, NEW b \in BOOLEAN, NEW m \in Messages
  PROVE  MaterializationFailed(it, b, m) \in Item
<1> DEFINE a == [it EXCEPT !.mat = "failed", !.matRetry = b, !.matLeased = FALSE]
           c(x) == [x EXCEPT !.cache = NoFile, !.status = "failed"]
           d(x) == [x EXCEPT !.retryable = b, !.error = m, !.old = FALSE]
<1>1. a \in Item  BY DEF Item, MaterializationStatuses
<1>2. \A x \in Item : c(x) \in Item  BY DEF Item, Statuses, NoFile
<1>3. \A x \in Item : d(x) \in Item  BY DEF Item
<1>4. MaterializationFailed(it, b, m) = d(c(a))
  BY Zenon DEF MaterializationFailed
<1> HIDE DEF a, c, d
<1>5. QED BY <1>1, <1>2, <1>3, <1>4

(* reconcile_delivery_cache writes an item.                                *)
LEMMA ReconciledType == ASSUME NEW it \in Item PROVE Reconciled(it) \in Item
<1> DEFINE a == [it EXCEPT !.cache = NoFile, !.status = "expired", !.retryable = FALSE]
           d(x) == [x EXCEPT !.error = "cache_expired", !.leased = FALSE, !.old = FALSE]
           e == [it EXCEPT !.cache = NoFile, !.old = FALSE]
<1>1. a \in Item  BY DEF Item, Statuses, NoFile
<1>2. \A x \in Item : d(x) \in Item  BY DEF Item, Messages
<1>3. e \in Item  BY DEF Item, NoFile
<1>4. Reconciled(it) \in {it, d(a), e}
  BY Zenon DEF Reconciled
<1> HIDE DEF a, d, e
<1>5. QED BY <1>1, <1>2, <1>3, <1>4

-----------------------------------------------------------------------------
(* Type correctness                                                        *)

(* A fresh task memory, and each single assignment to one, is well formed. *)
LEMMA NoJobType == NoJob \in Job
  BY ConstantsAssumption
  DEF NoJob, NoClaim, Job, Items, Stages, Messages, NoFile

(* Each single assignment to a task's memory keeps its type.               *)
LEMMA JobTypes ==
  ASSUME NEW j \in Job
  PROVE  /\ \A m \in Messages : [j EXCEPT !.result = m] \in Job
         /\ \A n \in Nat : [j EXCEPT !.path = n] \in Job
         /\ \A n \in Nat : [j EXCEPT !.matToken = n] \in Job
         /\ \A n \in Nat : [j EXCEPT !.cleanup = n] \in Job
         /\ \A n \in Nat : [j EXCEPT !.token = n] \in Job
         /\ \A f \in Fingerprints \cup {NoPlan} : [j EXCEPT !.fp = f] \in Job
         /\ \A o \in {"notification", "recovery"} : [j EXCEPT !.origin = o] \in Job
         /\ \A i \in Items : [j EXCEPT !.item = i] \in Job
         /\ \A s \in Stages : [j EXCEPT !.stage = s] \in Job
         /\ \A p \in Stages \cup {"none"} : [j EXCEPT !.prepared = p] \in Job
<1>1. \A m \in Messages : [j EXCEPT !.result = m] \in Job  BY DEF Job
<1>2. \A n \in Nat : [j EXCEPT !.path = n] \in Job  BY DEF Job
<1>3. \A n \in Nat : [j EXCEPT !.matToken = n] \in Job  BY DEF Job
<1>4. \A n \in Nat : [j EXCEPT !.cleanup = n] \in Job  BY DEF Job
<1>5. \A n \in Nat : [j EXCEPT !.token = n] \in Job  BY DEF Job
<1>6. \A f \in Fingerprints \cup {NoPlan} : [j EXCEPT !.fp = f] \in Job  BY DEF Job
<1>7. \A o \in {"notification", "recovery"} : [j EXCEPT !.origin = o] \in Job  BY DEF Job
<1>8. \A i \in Items : [j EXCEPT !.item = i] \in Job  BY DEF Job
<1>9. \A s \in Stages : [j EXCEPT !.stage = s] \in Job  BY DEF Job
<1>10. \A p \in Stages \cup {"none"} : [j EXCEPT !.prepared = p] \in Job  BY DEF Job
<1>11. QED BY <1>1, <1>2, <1>3, <1>4, <1>5, <1>6, <1>7, <1>8, <1>9, <1>10

(* A gateway with an empty ledger is well typed.                           *)
LEMMA TypeInit == Init => TypeOK
<1> SUFFICES ASSUME Init PROVE TypeOK
  OBVIOUS
<1>1. items \in [Items -> Item]
  BY NewItemType DEF Init
<1>2. job \in [Workers -> Job] /\ pc \in [Workers -> Locations]
  BY NoJobType DEF Init, Locations
<1>3. QED
  BY <1>1, <1>2, ConstantsAssumption DEF Init, TypeOK, NoStartup

(* The two ways a task goes on to something else keep the types.           *)
LEMMA ReturnType ==
  ASSUME TypeOK, NEW w \in Workers, Return(w)
  PROVE  pc' \in [Workers -> Locations] /\ job' \in [Workers -> Job]
  BY NoJobType DEF Return, Goto, TypeOK, Locations

(* The same for the loop going on to the next item of the plan.            *)
LEMMA NextItemType ==
  ASSUME TypeOK, NEW w \in Workers, NextItem(w)
  PROVE  pc' \in [Workers -> Locations] /\ job' \in [Workers -> Job]
<1>1. CASE job[w].item < N
  <2> DEFINE a == [NoJob EXCEPT !.fp = job[w].fp]
             c(x) == [x EXCEPT !.origin = job[w].origin]
             d(x) == [x EXCEPT !.item = job[w].item + 1]
             n == [NoJob EXCEPT !.fp = job[w].fp, !.origin = job[w].origin,
                                !.item = job[w].item + 1]
  <2>1. job[w] \in Job  BY DEF TypeOK
  <2>2. /\ job[w].fp \in Fingerprints \cup {NoPlan}
        /\ job[w].origin \in {"notification", "recovery"}
        /\ job[w].item + 1 \in Items
    BY <2>1, <1>1, ConstantsAssumption DEF Job, Items
  <2>3. a \in Job  BY <2>2, NoJobType, JobTypes
  <2>4. \A x \in Job : c(x) \in Job  BY <2>2, JobTypes
  <2>5. \A x \in Job : d(x) \in Job  BY <2>2, JobTypes
  <2>6. n = d(c(a))  BY Zenon
  <2>7. n \in Job
    <3> HIDE DEF a, c, d, n
    <3> QED BY <2>3, <2>4, <2>5, <2>6
  <2>8. pc' = [pc EXCEPT ![w] = "materialize"] /\ job' = [job EXCEPT ![w] = n]
    <3>1. job[w].item # N
      BY <1>1, <2>1, ConstantsAssumption DEF Job, Items
    <3>2. QED BY <3>1 DEF NextItem, Goto
  <2> HIDE DEF n
  <2>9. QED BY <2>7, <2>8 DEF TypeOK, Locations, Busy
<1>2. CASE ~(job[w].item < N)
  BY <1>2, ReturnType DEF NextItem, Goto, TypeOK, Locations, Busy
<1>3. QED BY <1>1, <1>2

(* An assignment to one field of a task's memory keeps its type.           *)
LEMMA JobField ==
  ASSUME TypeOK, NEW w \in Workers
  PROVE  /\ \A m \in Messages : [job EXCEPT ![w].result = m] \in [Workers -> Job]
         /\ \A n \in Nat : [job EXCEPT ![w].path = n] \in [Workers -> Job]
         /\ \A n \in Nat : [job EXCEPT ![w].matToken = n] \in [Workers -> Job]
         /\ \A n \in Nat : [job EXCEPT ![w].cleanup = n] \in [Workers -> Job]
         /\ \A p \in Stages \cup {"none"} :
              [job EXCEPT ![w].prepared = p] \in [Workers -> Job]
<1>1. job \in [Workers -> Job] /\ job[w] \in Job
  BY DEF TypeOK
<1>2. QED BY <1>1, JobTypes

(* A ledger transaction that writes an item keeps the ledger well formed.  *)
LEMMA SetItemType ==
  ASSUME TypeOK, NEW w \in Workers, NEW it \in Item, SetItem(w, it)
  PROVE  items' \in [Items -> Item]
  BY DEF TypeOK, SetItem

(* Every step of the pipeline keeps the types.                             *)
LEMMA TypeNext == TypeOK /\ [Next]_vars => TypeOK'
<1> SUFFICES ASSUME TypeOK, [Next]_vars PROVE TypeOK'
  OBVIOUS
<1> USE DEF ledger, disk, budget, history
<1>1. ASSUME NEW w \in Workers, NEW fp \in Fingerprints, HandleNotification(w, fp)
      PROVE  TypeOK'
  <2> DEFINE a == [NoJob EXCEPT !.fp = fp]
             c(x) == [x EXCEPT !.origin = "notification"]
             n == [NoJob EXCEPT !.fp = fp, !.origin = "notification"]
  <2>1. a \in Job  BY NoJobType, JobTypes
  <2>2. \A x \in Job : c(x) \in Job  BY JobTypes
  <2>3. n = c(a)  BY Zenon
  <2>4. n \in Job
    <3> HIDE DEF a, c, n
    <3> QED BY <2>1, <2>2, <2>3
  <2>5. job' = [job EXCEPT ![w] = n]  BY <1>1 DEF HandleNotification
  <2> HIDE DEF n
  <2>6. QED BY <1>1, <2>4, <2>5 DEF HandleNotification, TypeOK, Goto, Locations, Busy
<1>2. ASSUME NEW w \in Workers, RetryPendingDeliveries(w) PROVE TypeOK'
  <2>1. [NoJob EXCEPT !.fp = plan] \in Job
    BY NoJobType, JobTypes DEF TypeOK
  <2>2. QED BY <1>2, <2>1 DEF RetryPendingDeliveries, TypeOK, Goto, Locations, Busy
<1>3. ASSUME NEW w \in Workers, PersistDeliveryPlan(w) PROVE TypeOK'
  <2>1. pc' \in [Workers -> Locations] /\ job' \in [Workers -> Job]
    BY <1>3, ReturnType DEF PersistDeliveryPlan, TypeOK, Goto, Locations, Busy
  <2>2. items' \in [Items -> Item]
    BY <1>3, NewItemType DEF PersistDeliveryPlan, TypeOK
  <2>3. plan' \in Fingerprints \cup {NoPlan}
    BY <1>3 DEF PersistDeliveryPlan, TypeOK, Job
  <2>4. QED BY <1>3, <2>1, <2>2, <2>3 DEF PersistDeliveryPlan, TypeOK
<1>4. ASSUME NEW w \in Workers, ClaimMaterialization(w) PROVE TypeOK'
  <2>1. job[w].item \in Items /\ Current(w) \in Item
    BY DEF TypeOK, Job, Current
  <2>2. Current(w).path \in Nat /\ Current(w).matToken + 1 \in Nat
    BY <2>1 DEF Item
  <2>a. /\ [job EXCEPT ![w].path = Current(w).path] \in [Workers -> Job]
        /\ [job EXCEPT ![w].matToken = Current(w).matToken + 1] \in [Workers -> Job]
    BY <2>2, JobField
  <2>b. pc' \in [Workers -> Locations]
    BY <1>4, ReturnType DEF ClaimMaterialization, TypeOK, Goto, Locations, Busy
  <2>3. pc' \in [Workers -> Locations] /\ job' \in [Workers -> Job]
    BY <1>4, <2>a, <2>b, ReturnType DEF ClaimMaterialization
  <2>4. items' \in [Items -> Item]
    BY <1>4, <2>1, MaterializationClaimedType DEF ClaimMaterialization, SetItem, TypeOK
  <2>5. QED BY <1>4, <2>3, <2>4 DEF ClaimMaterialization, TypeOK
<1>5. ASSUME NEW w \in Workers, NEW i, NEW answer, AuthorizeDeliveryContext(i, answer)
      PROVE  faults' \in 0 .. MaxFaults
  BY <1>5, ConstantsAssumption DEF AuthorizeDeliveryContext, TypeOK
<1>6. ASSUME NEW w \in Workers, AuthorizeDownload(w) PROVE TypeOK'
  <2>1. job' \in [Workers -> Job] /\ pc' \in [Workers -> Locations]
    BY <1>6, JobField DEF AuthorizeDownload, TypeOK, Goto, Locations, Busy
  <2>2. QED BY <1>5, <1>6, <2>1 DEF AuthorizeDownload, TypeOK
<1>7. ASSUME NEW w \in Workers, Download(w) PROVE TypeOK'
  <2>1. "ok" \in Messages /\ "media_failed" \in Messages /\ "proxy_missing" \in Messages
    BY DEF Messages
  <2>2. job' \in [Workers -> Job] /\ pc' \in [Workers -> Locations]
    BY <1>7, <2>1, JobField DEF Download, TypeOK, Goto, Locations, Busy
  <2>3. File(w) \in Items \X Nat
    BY DEF File, TypeOK, Job
  <2>4. QED BY <1>7, <2>2, <2>3, ConstantsAssumption DEF Download, TypeOK
<1>8. ASSUME NEW w \in Workers, FinishMaterialization(w) PROVE TypeOK'
  <2>1. /\ job[w].item \in Items /\ Current(w) \in Item /\ job[w].matToken \in Nat
        /\ job[w].result \in Messages
    BY DEF TypeOK, Job, Current
  <2>a. [job EXCEPT ![w].path = job[w].matToken] \in [Workers -> Job]
    BY <2>1, JobField
  <2>b. pc' \in [Workers -> Locations]
    BY <1>8, ReturnType DEF FinishMaterialization, TypeOK, Goto, Locations, Busy
  <2>2. pc' \in [Workers -> Locations] /\ job' \in [Workers -> Job]
    BY <1>8, <2>a, <2>b, ReturnType DEF FinishMaterialization
  <2>3. MaterializationRetryable(job[w].result) \in BOOLEAN
    BY DEF MaterializationRetryable, MapDeliveryFailure
  <2>c. /\ Materialized(Current(w), job[w].matToken) \in Item
        /\ MaterializationFailed(Current(w), MaterializationRetryable(job[w].result),
                                 job[w].result) \in Item
    BY <2>1, <2>3, MaterializedType, MaterializationFailedType
  <2>d. items \in [Items -> Item]  BY DEF TypeOK
  <2>4. items' \in [Items -> Item]
    BY <1>8, <2>c, <2>d, SetItemType DEF FinishMaterialization
  <2>5. files' \in SUBSET (Items \X Nat) /\ aged' \in SUBSET (Items \X Nat)
    BY <1>8 DEF FinishMaterialization, TypeOK
  <2>6. QED BY <1>8, <2>2, <2>4, <2>5 DEF FinishMaterialization, TypeOK
<1>9. ASSUME NEW w \in Workers, ClaimDeliveryItem(w) PROVE TypeOK'
  <2> DEFINE it == Current(w)
             claim == [unsupported |-> it.unsupported, uploaded |-> it.uploaded,
                       media |-> it.media]
             stage == IF it.unsupported THEN "fallback" ELSE "native"
             noFallback == it.unsupported /\ job[w].item \notin FallbackItems
             result == IF noFallback THEN "no_fallback" ELSE "ok"
             n == [job[w] EXCEPT !.token = it.token + 1, !.claim = claim,
                     !.stage = stage, !.prepared = PreparedFrom(claim, stage),
                     !.result = result]
             a == [job[w] EXCEPT !.token = it.token + 1]
             b(x) == [x EXCEPT !.claim = claim]
             c(x) == [x EXCEPT !.stage = stage]
             d(x) == [x EXCEPT !.prepared = PreparedFrom(claim, stage)]
             e(x) == [x EXCEPT !.result = result]
  <2>1. job[w].item \in Items /\ it \in Item /\ job[w] \in Job /\ job[w].path \in Nat
    BY DEF TypeOK, Job, Current
  <2>2. /\ it.token + 1 \in Nat /\ stage \in Stages
        /\ result \in Messages
        /\ it.unsupported \in BOOLEAN /\ it.uploaded \in SUBSET Stages
        /\ it.media \in Stages \cup {"none"}
    BY <2>1 DEF Item, Stages, Messages
  <2>3. PreparedFrom(claim, stage) \in Stages \cup {"none"}
    BY <2>2 DEF PreparedFrom
  <2>4. n \in Job
    <3>1. a \in Job  BY <2>1, <2>2, JobTypes
    <3>2. \A x \in Job : b(x) \in Job  BY <2>2 DEF Job
    <3>3. \A x \in Job : c(x) \in Job  BY <2>2, JobTypes
    <3>4. \A x \in Job : d(x) \in Job  BY <2>3, JobTypes
    <3>5. \A x \in Job : e(x) \in Job  BY <2>2, JobTypes
    <3>6. n = e(d(c(b(a))))  BY Zenon
    <3> HIDE DEF a, b, c, d, e, n
    <3>7. QED BY <3>1, <3>2, <3>3, <3>4, <3>5, <3>6
  <2>5. CASE ClaimOutcome(it) = "claimed"
    <3>1. job' = [job EXCEPT ![w] = n]
      BY <1>9, <2>5 DEF ClaimDeliveryItem
    <3> HIDE DEF n
    <3>2. job' \in [Workers -> Job]
      BY <2>4, <3>1 DEF TypeOK
    <3>3. pc' \in [Workers -> Locations]
      BY <1>9, <2>5 DEF ClaimDeliveryItem, TypeOK, Goto, Locations, Busy
    <3>a. Claimed(it, job[w].path) \in Item
      BY <2>1, ClaimedType
    <3>4. items' \in [Items -> Item]
      BY <1>9, <2>5, <3>a, SetItemType DEF ClaimDeliveryItem
    <3>5. excused' \in [Items -> Nat]
      BY <1>9, <2>5 DEF ClaimDeliveryItem, TypeOK
    <3>6. QED BY <1>9, <3>2, <3>3, <3>4, <3>5 DEF ClaimDeliveryItem, TypeOK
  <2>6. CASE ClaimOutcome(it) # "claimed"
    <3>1. pc' \in [Workers -> Locations] /\ job' \in [Workers -> Job]
      BY <1>9, <2>6, ReturnType, NextItemType DEF ClaimDeliveryItem
    <3>2. QED BY <1>9, <2>6, <3>1 DEF ClaimDeliveryItem, TypeOK
  <2>7. QED BY <2>5, <2>6
<1>10. ASSUME NEW w \in Workers, Authorize(w) PROVE TypeOK'
  <2>1. job' \in [Workers -> Job] /\ pc' \in [Workers -> Locations]
    BY <1>10, JobField DEF Authorize, TypeOK, Goto, Locations, Busy
  <2>2. QED BY <1>5, <1>10, <2>1 DEF Authorize, TypeOK
<1>11. ASSUME NEW w \in Workers, PrepareOutbound(w) PROVE TypeOK'
  <2>1. /\ job[w].item \in Items /\ Current(w) \in Item /\ job[w] \in Job
        /\ job[w].stage \in Stages
    BY DEF TypeOK, Job, Current
  <2>2. {"file_missing", "upload_failed", "unsupported", "stale"} \subseteq Messages
    BY DEF Messages
  <2>3. [job EXCEPT ![w].prepared = job[w].stage, ![w].result = "stale"] \in [Workers -> Job]
    BY <2>1, <2>2, JobTypes DEF TypeOK
  <2>4. pc' \in [Workers -> Locations]
    BY <1>11 DEF PrepareOutbound, TypeOK, Goto, Locations, Busy
  <2>a. /\ [job EXCEPT ![w].result = "file_missing"] \in [Workers -> Job]
        /\ [job EXCEPT ![w].result = "upload_failed"] \in [Workers -> Job]
        /\ [job EXCEPT ![w].result = "unsupported"] \in [Workers -> Job]
        /\ [job EXCEPT ![w].prepared = job[w].stage] \in [Workers -> Job]
        /\ job \in [Workers -> Job]
    BY <2>1, <2>2, JobField DEF TypeOK
  <2>5. job' \in [Workers -> Job]
    BY <1>11, <2>a, <2>3 DEF PrepareOutbound
  <2>6. items' \in [Items -> Item]
    BY <1>11, <2>1, UploadRecordedType DEF PrepareOutbound, SetItem, TypeOK
  <2>7. faults' \in 0 .. MaxFaults
    BY <1>11, ConstantsAssumption DEF PrepareOutbound, TypeOK
  <2>8. QED BY <1>11, <2>4, <2>5, <2>6, <2>7 DEF PrepareOutbound, TypeOK
<1>12. ASSUME NEW w \in Workers, AuthorizePrepared(w) PROVE TypeOK'
  <2>1. job' \in [Workers -> Job] /\ pc' \in [Workers -> Locations]
    BY <1>12, JobField DEF AuthorizePrepared, TypeOK, Goto, Locations, Busy
  <2>2. QED BY <1>5, <1>12, <2>1 DEF AuthorizePrepared, TypeOK
<1>13. ASSUME NEW w \in Workers, SendOutbound(w) PROVE TypeOK'
  <2>1. {"ok", "unconfirmed", "unavailable", "rejected", "unsupported"} \subseteq Messages
    BY DEF Messages
  <2>a. pc' \in [Workers -> Locations]
    BY <1>13 DEF SendOutbound, TypeOK, Goto, Locations, Busy
  <2>b. \A m \in {"ok", "unconfirmed", "unavailable", "rejected", "unsupported"} :
          [job EXCEPT ![w].result = m] \in [Workers -> Job]
    BY <2>1, JobField
  <2>2. pc' \in [Workers -> Locations] /\ job' \in [Workers -> Job]
    BY <1>13, <2>a, <2>b DEF SendOutbound
  <2>3. accepted' \in [Items -> Nat] /\ excused' \in [Items -> Nat]
    BY <1>13 DEF SendOutbound, TypeOK
  <2>4. faults' \in 0 .. MaxFaults
    BY <1>13, ConstantsAssumption DEF SendOutbound, TypeOK
  <2>5. QED BY <1>13, <2>2, <2>3, <2>4 DEF SendOutbound, TypeOK
<1>14. ASSUME NEW w \in Workers, FinishDeliveryStage(w) PROVE TypeOK'
  <2>1. /\ job[w].item \in Items /\ Current(w) \in Item /\ job[w] \in Job
        /\ job[w].stage \in Stages
        /\ job[w].claim \in [unsupported : BOOLEAN, uploaded : SUBSET Stages,
                              media : Stages \cup {"none"}]
    BY DEF TypeOK, Job, Current
  <2>2. PreparedFrom(job[w].claim, "fallback") \in Stages \cup {"none"}
    BY DEF PreparedFrom, Stages
  <2>3. "stale" \in Messages /\ "fallback" \in Stages
    BY DEF Messages, Stages
  <2>4. [job EXCEPT ![w].stage = "fallback",
                    ![w].prepared = PreparedFrom(job[w].claim, "fallback")]
          \in [Workers -> Job]
    BY <2>1, <2>2, <2>3, JobTypes DEF TypeOK
  <2>a. pc' \in [Workers -> Locations]
    BY <1>14 DEF FinishDeliveryStage, TypeOK, Goto, Locations, Busy
  <2>b. /\ [job EXCEPT ![w].result = "stale"] \in [Workers -> Job]
        /\ job \in [Workers -> Job]
    BY <2>3, JobField DEF TypeOK
  <2>5. pc' \in [Workers -> Locations] /\ job' \in [Workers -> Job]
    BY <1>14, <2>a, <2>b, <2>4 DEF FinishDeliveryStage
  <2>c. StageFinished(Current(w), job[w].stage, job[w].result = "unsupported",
                      job[w].prepared) \in Item
    <3>1. CASE job[w].result = "unsupported"
      BY <3>1, <2>1, StageFinishedType
    <3>2. CASE job[w].result # "unsupported"
      BY <3>2, <2>1, StageFinishedType
    <3>3. QED BY <3>1, <3>2
  <2>d. items \in [Items -> Item]  BY DEF TypeOK
  <2>6. items' \in [Items -> Item]
    BY <1>14, <2>c, <2>d, SetItemType DEF FinishDeliveryStage
  <2>7. QED BY <1>14, <2>5, <2>6 DEF FinishDeliveryStage, TypeOK
<1>15. ASSUME NEW w \in Workers, FinishDeliveryItem(w) PROVE TypeOK'
  <2>1. /\ job[w].item \in Items /\ Current(w) \in Item
        /\ job[w].result \in Messages /\ job[w].prepared \in Stages \cup {"none"}
    BY DEF TypeOK, Job, Current
  <2>2. NoFile \in Nat /\ Current(w).cache \in Nat
    BY <2>1 DEF NoFile, Item
  <2> DEFINE ok == job[w].result = "ok"
             retryable == ~ok /\ MapDeliveryFailure(job[w].result)
             status == IF ok THEN "succeeded" ELSE "failed"
             cleanup == IF retryable THEN NoFile ELSE Current(w).cache
  <2>a. [job EXCEPT ![w].cleanup = cleanup] \in [Workers -> Job]
    BY <2>2, JobField
  <2>b. \/ Return(w) \/ NextItem(w)
        \/ Goto(w, "cleanup") /\ job' = [job EXCEPT ![w].cleanup = cleanup]
    BY <1>15 DEF FinishDeliveryItem
  <2>c. ItemFinished(Current(w), status, retryable, job[w].result, job[w].prepared) \in Item
    <3>1. retryable \in BOOLEAN /\ status \in {"succeeded", "failed"}
      BY DEF MapDeliveryFailure
    <3> HIDE DEF retryable, status
    <3>2. QED BY <2>1, <3>1, ItemFinishedType
  <2>d. items \in [Items -> Item]  BY DEF TypeOK
  <2>e. \/ items' = items
        \/ SetItem(w, ItemFinished(Current(w), status, retryable, job[w].result,
                                   job[w].prepared))
    BY <1>15 DEF FinishDeliveryItem
  <2> HIDE DEF cleanup, status, retryable
  <2>3. pc' \in [Workers -> Locations] /\ job' \in [Workers -> Job]
    BY <2>a, <2>b, ReturnType, NextItemType DEF TypeOK, Goto, Locations, Busy
  <2>4. items' \in [Items -> Item]
    BY <2>c, <2>d, <2>e, SetItemType
  <2>5. QED BY <1>15, <2>3, <2>4 DEF FinishDeliveryItem, TypeOK
<1>16. ASSUME NEW w \in Workers, CleanupAttachmentCache(w) PROVE TypeOK'
  <2>1. pc' \in [Workers -> Locations] /\ job' \in [Workers -> Job]
    BY <1>16, ReturnType, NextItemType DEF CleanupAttachmentCache
  <2>2. QED BY <1>16, <2>1 DEF CleanupAttachmentCache, TypeOK
<1>17. ASSUME NEW w \in Workers, SaveDeliveryRecord(w) PROVE TypeOK'
  <2>1. pc' \in [Workers -> Locations] /\ job' \in [Workers -> Job]
    BY <1>17, ReturnType DEF SaveDeliveryRecord
  <2>2. record' \in Fingerprints \cup {NoPlan}
    BY <1>17 DEF SaveDeliveryRecord, TypeOK, Job
  <2>3. QED BY <1>17, <2>1, <2>2 DEF SaveDeliveryRecord, TypeOK
<1>18. ASSUME NEW w \in Workers, Crash(w) PROVE TypeOK'
  BY <1>18, NoJobType, ConstantsAssumption DEF Crash, TypeOK, Locations, NoStartup
<1>19. ASSUME NEW w \in Workers, Start(w) PROVE TypeOK'
  <2>1. items' \in [Items -> Item]
    BY <1>19, ReconciledType DEF Start, TypeOK
  <2>2. \A i \in Items : items[i].cache \in Nat
    BY DEF TypeOK, Item
  <2>3. startup' \in [Workers -> [delete : SUBSET (Items \X Nat),
                                  retained : SUBSET (Items \X Nat)]]
    BY <1>19, <2>2 DEF Start, TypeOK
  <2>4. pc' \in [Workers -> Locations]
    BY <1>19 DEF Start, TypeOK, Goto, Locations
  <2>5. lapsed' \in SUBSET Items
    BY <1>19 DEF Start, TypeOK
  <2>6. QED BY <1>19, <2>1, <2>3, <2>4, <2>5 DEF Start, TypeOK
<1>20. ASSUME NEW w \in Workers, Sweep(w) PROVE TypeOK'
  <2>1. files' \in SUBSET (Items \X Nat) /\ aged' \in SUBSET (Items \X Nat)
    BY <1>20 DEF Sweep, TypeOK
  <2>2. QED BY <1>20, <2>1 DEF Sweep, TypeOK, Goto, Locations, NoStartup
<1>21. \A it \in Item : /\ [it EXCEPT !.leased = FALSE] \in Item
                        /\ [it EXCEPT !.matLeased = FALSE] \in Item
                        /\ [it EXCEPT !.old = TRUE] \in Item
  BY DEF Item
<1>22. ASSUME NEW i \in Items, LeaseExpires(i) PROVE TypeOK'
  <2>1. items' \in [Items -> Item]
    BY <1>21, <1>22 DEF LeaseExpires, TypeOK
  <2>2. QED BY <1>22, <2>1 DEF LeaseExpires, TypeOK
<1>23. ASSUME NEW i \in Items, MaterializationLeaseExpires(i) PROVE TypeOK'
  <2>1. items' \in [Items -> Item]
    BY <1>21, <1>23 DEF MaterializationLeaseExpires, TypeOK
  <2>2. QED BY <1>23, <2>1 DEF MaterializationLeaseExpires, TypeOK
<1>24. CASE DayPasses
  <2>1. items' \in [Items -> Item]
    BY <1>21, <1>24 DEF DayPasses, TypeOK
  <2>2. QED BY <1>24, <2>1, ConstantsAssumption DEF DayPasses, TypeOK
<1>25. CASE Revoke
  BY <1>25 DEF Revoke, TypeOK
<1>26. CASE UNCHANGED vars
  BY <1>26 DEF vars, TypeOK
<1>27. QED
  BY <1>1, <1>2, <1>3, <1>4, <1>6, <1>7, <1>8, <1>9, <1>10, <1>11, <1>12,
     <1>13, <1>14, <1>15, <1>16, <1>17, <1>18, <1>19, <1>20, <1>22, <1>23,
     <1>24, <1>25, <1>26 DEF Next, Step

(* Type correctness: the ledger file and the memory of every task only     *)
(* ever hold the values the code can write.                                *)
THEOREM TypeCorrect == Spec => []TypeOK
  BY TypeInit, TypeNext, PTL DEF Spec
=============================================================================
