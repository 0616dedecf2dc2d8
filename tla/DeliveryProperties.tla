------------------------- MODULE DeliveryProperties -------------------------
(***************************************************************************)
(* What the delivery pipeline of DeliveryWorkers must guarantee.           *)
(***************************************************************************)
EXTENDS DeliveryWorkers

(* The variables stay in their types: the statuses the ledger file can     *)
(* hold, the locations and the memory of a delivery task.                  *)
TypeOK ==
  /\ plan \in Fingerprints \cup {NoPlan}
  /\ record \in Fingerprints \cup {NoPlan}
  /\ items \in [Items -> Item]
  /\ files \in SUBSET (Items \X Nat) /\ aged \in SUBSET (Items \X Nat)
  /\ pc \in [Workers -> Locations]
  /\ job \in [Workers -> Job]
  /\ startup \in [Workers -> [delete : SUBSET (Items \X Nat),
                              retained : SUBSET (Items \X Nat)]]
  /\ consent \in BOOLEAN
  /\ faults \in 0 .. MaxFaults /\ crashes \in 0 .. MaxCrashes
  /\ days \in 0 .. MaxDays
  /\ accepted \in [Items -> Nat] /\ excused \in [Items -> Nat]
  /\ grace \in SUBSET Workers /\ lapsed \in SUBSET Items

(* The claim fence of require_active_delivery_claim: of all tasks that     *)
(* believe they hold a claim on an item, at most one can still write it,   *)
(* however leases ran out and were taken over in between.                  *)
OneLiveHolder ==
  \A v, w \in Workers :
    /\ v # w /\ pc[v] \in Holding /\ pc[w] \in Holding
    /\ job[v].item = job[w].item
    => ~ (ActiveClaim(Current(v), job[v].token) /\ ActiveClaim(Current(w), job[w].token))

(* A delivered item, and an item that failed for good, keep that outcome:  *)
(* no late task, materialization, recovery pass or restart undoes it.      *)
(* finish_delivery_materialization overwrites the status unseen.           *)
Final(it) == it.status = "succeeded" \/ (it.status = "failed" /\ ~it.retryable)
OutcomeIsFinal ==
  [][\A i \in Items : Final(items[i]) =>
       /\ items'[i].status = items[i].status
       /\ items'[i].retryable = items[i].retryable]_vars

(* The loop over the items stops at the first that is not delivered: an    *)
(* item is downloaded or claimed only when all before it have succeeded,   *)
(* also when several tasks run the loop at once.                           *)
ItemsInOrder ==
  \A j \in Items : items[j].token > 0 \/ items[j].matToken > 0 =>
    \A i \in 1 .. (j - 1) : items[i].status = "succeeded"

(* The user sees an item twice only for a reason: an answer the provider   *)
(* lost, or a claim that was taken over after its lease or its cache ran   *)
(* out.  Retries, replays and concurrent passes alone never resend.        *)
DuplicatesAreExcused == \A i \in Items : accepted[i] <= 1 + excused[i]

(* Once Beacon stops allowing the delivery, only a task that had already   *)
(* passed its last check may still reach the provider; reused uploads and  *)
(* the file fallback are checked again.                                    *)
NoSendAfterRevocation ==
  \A w \in Workers :
    pc[w] = "send" /\ Guarded(job[w].item) /\ ~consent => w \in grace

(* send_delivery_stage reuses the item's upload for the native stage when  *)
(* the stage has none; that upload is never the one of the fallback stage. *)
UploadFitsStage ==
  \A w \in Workers :
    pc[w] = "send" => job[w].prepared \in {"none", job[w].stage}

(* An item the recovery loop may still send finds its cached attachment on *)
(* disk, unless a restart had expired it before.                           *)
CacheKeptForRetry ==
  \A i \in Items \ lapsed :
    RetryableState(items[i]) /\ items[i].mat = "materialized"
      => <<i, items[i].path>> \in files

(* Without a killed process no attachment is left behind: each cached file *)
(* is named by the ledger, or owned by the task that will remove it.       *)
FilesAreOwned ==
  crashes = 0 =>
    \A f \in files :
      \/ items[f[1]].cache = f[2]
      \/ \E w \in Workers : /\ job[w].item = f[1]
                            /\ \/ pc[w] = "finish_materialization" /\ job[w].matToken = f[2]
                               \/ pc[w] = "cleanup" /\ job[w].cleanup = f[2]

(* What the ledger refers to can be used and nothing else is kept: uploads *)
(* fit their stage, a retry finds its file, and every file has an owner.   *)
StoredMediaFits == UploadFitsStage /\ CacheKeptForRetry /\ FilesAreOwned

(* A saved ok response means that the planned request, and no other, was   *)
(* delivered completely.                                                   *)
RecordIsTrue ==
  record # NoPlan => record = plan /\ \A i \in Items : items[i].status = "succeeded"

(* A key reused for another request never reaches a claim (HTTP 409).      *)
ConflictNeverDelivers ==
  \A w \in Workers :
    pc[w] \in Busy \ {"persist"} => job[w].fp = plan

(* A persisted plan is settled: when faults, kills and outages end, the    *)
(* recovery loop brings every item to the user, or one failed for good.    *)
Settled == \/ \A i \in Items : items[i].status = "succeeded"
           \/ \E i \in Items : items[i].status = "failed" /\ ~items[i].retryable
PlanSettles == plan # NoPlan ~> Settled

(* Every process runs its recovery loop in a task of its own, and tokio    *)
(* keeps polling ready tasks; a task slot is shared with requests here,    *)
(* hence strong fairness for the loop.  Leases end because time passes.    *)
Fairness ==
  /\ \A w \in Workers : WF_vars(Step(w)) /\ SF_vars(RetryPendingDeliveries(w))
  /\ \A i \in Items : WF_vars(LeaseExpires(i)) /\ WF_vars(MaterializationLeaseExpires(i))

FairSpec == Spec /\ Fairness

(* The pipeline implements DeliveryPromise: an item is held while it is    *)
(* being sent, done when it succeeded and dead when it failed for good.    *)
Phase(it) == IF it.status = "succeeded" THEN "done"
             ELSE IF it.status = "failed" /\ ~it.retryable THEN "dead"
             ELSE IF it.status = "sending" THEN "held"
             ELSE "open"
Promise == INSTANCE DeliveryPromise WITH
             phase <- [i \in Items |-> Phase(items[i])],
             epoch <- [i \in Items |-> items[i].token]
KeepsPromise == Promise!Spec

(* README, on camera delivery: "a temporary authorization-service outage   *)
(* remains retryable".                                                     *)
OutageStaysRetryable ==
  \A i \in Items :
    items[i].status = "failed" /\ items[i].error \in {"camera_outage", "check_outage"}
      => items[i].retryable
=============================================================================
