--------------------------- MODULE DeliveryLedger ---------------------------
(***************************************************************************)
(* The delivery item ledger of the session store (src/src/store.rs), the   *)
(* file _delivery_items.json.  Every operation of the store runs under the *)
(* process mutex and the cross-process file lock and ends in one atomic    *)
(* replacement of the file, so an operation is a function from the item it *)
(* reads to the item it writes.  This module gives those functions, one    *)
(* per operation; DeliveryWorkers says who calls them and when.            *)
(*                                                                         *)
(* Data that no decision depends on (artifact ids, payloads, timestamps)   *)
(* is left out.  A claim token is a fresh UUID and `attempts' grows by one *)
(* with every claim, so the number of the attempt stands for the token.    *)
(* A lease is a Boolean: TRUE from the claim until the instant             *)
(* claim_expires_at is reached, whenever that is.                          *)
(***************************************************************************)
EXTENDS Naturals

Stages   == {"native", "fallback"}
Statuses == {"pending", "sending", "failed", "succeeded", "expired"}
MaterializationStatuses ==
  {"not_required", "pending", "materializing", "materialized", "failed"}

(* A cached attachment is named by the materialization attempt that        *)
(* downloaded it; NoFile is the JSON null of cache_path.                   *)
NoFile == 0

(* The classes of messages that can end an attempt.  "ok" is no message.   *)
Messages == {"ok", "revoked", "camera_outage", "check_outage", "media_failed",
             "proxy_missing", "file_missing", "upload_failed", "unavailable",
             "unconfirmed", "rejected", "unsupported", "no_fallback",
             "stale", "cache_expired"}

Item == [status     : Statuses,
         retryable  : BOOLEAN,
         token      : Nat,                       \* attempts = claim_token
         leased     : BOOLEAN,                   \* claim_expires_at > now
         unsupported: BOOLEAN,                   \* stages.native.status
         uploaded   : SUBSET Stages,             \* stages[s].provider_media_id
         media      : Stages \cup {"none"},      \* item.provider_media_id
         mat        : MaterializationStatuses,
         matRetry   : BOOLEAN,
         matToken   : Nat,
         matLeased  : BOOLEAN,
         path       : Nat,                       \* materialized_outbound path
         cache      : Nat,                       \* cache_path
         error      : Messages,                  \* last_error
         old        : BOOLEAN]                   \* updated_at beyond the TTL

(* persist_delivery_plan: the entry of an item that was not planned yet.   *)
NewItem(needsMaterialization) ==
  [status |-> "pending", retryable |-> TRUE, token |-> 0, leased |-> FALSE,
   unsupported |-> FALSE, uploaded |-> {}, media |-> "none",
   mat |-> IF needsMaterialization THEN "pending" ELSE "not_required",
   matRetry |-> needsMaterialization, matToken |-> 0, matLeased |-> FALSE,
   path |-> NoFile, cache |-> NoFile, error |-> "ok", old |-> FALSE]

-----------------------------------------------------------------------------
(* claim_delivery_item: the answer it gives and the item it writes when    *)
(* the answer is "claimed".  Only "failed" is looked at together with      *)
(* retryable, so an "expired" item, which is not retryable, is claimed.    *)
ClaimOutcomeResends(it) ==                  \* mutant: forgets "succeeded"
  IF it.status = "failed" /\ ~it.retryable THEN "terminal_failed"
  ELSE IF it.status = "sending" /\ it.leased THEN "busy"
  ELSE "claimed"

ClaimOutcomeRevives(it) ==                  \* mutant: ignores retryable
  IF it.status = "succeeded" THEN "succeeded"
  ELSE IF it.status = "sending" /\ it.leased THEN "busy"
  ELSE "claimed"

ClaimOutcome(it) ==
  IF it.status = "succeeded" THEN "succeeded"
  ELSE IF it.status = "failed" /\ ~it.retryable THEN "terminal_failed"
  ELSE IF it.status = "sending" /\ it.leased THEN "busy"
  ELSE "claimed"

Claimed(it, path) ==
  [it EXCEPT !.status = "sending", !.token = @ + 1, !.leased = TRUE,
             !.cache = path, !.old = FALSE]

(* require_active_delivery_claim: the fence of every later write.          *)
ActiveClaimOfAnyone(it, token) ==           \* mutant: no claim_token
  it.status = "sending" /\ it.leased

ActiveClaim(it, token) == it.status = "sending" /\ it.token = token /\ it.leased

(* record_delivery_item_upload *)
UploadRecorded(it, stage) ==
  [it EXCEPT !.uploaded = @ \cup {stage}, !.media = stage, !.old = FALSE]

(* finish_delivery_stage: only the stage is written, not updated_at of the *)
(* item; "unsupported" is the one stage status a later claim looks at.     *)
StageFinished(it, stage, unsupported, prepared) ==
  [it EXCEPT !.unsupported = IF stage = "native" THEN unsupported ELSE @,
             !.uploaded = IF prepared = "none" THEN @ ELSE @ \cup {stage}]

(* finish_delivery_item: the token stays, the lease and, when nothing will *)
(* retry the item, the cache path are cleared.                             *)
ItemFinished(it, status, retryable, message, prepared) ==
  [it EXCEPT !.status = status, !.retryable = retryable, !.error = message,
             !.media = IF prepared = "none" THEN @ ELSE prepared,
             !.leased = FALSE, !.old = FALSE,
             !.cache = IF status = "succeeded" \/ ~retryable THEN NoFile ELSE @]

-----------------------------------------------------------------------------
(* claim_delivery_materialization *)
MaterializationOutcome(it) ==
  IF it.mat \in {"materialized", "not_required"} THEN "materialized"
  ELSE IF it.mat = "failed" /\ ~it.matRetry THEN "terminal_failed"
  ELSE IF it.mat = "materializing" /\ it.matLeased THEN "busy"
  ELSE "claimed"

MaterializationClaimed(it) ==
  [it EXCEPT !.mat = "materializing", !.matToken = @ + 1, !.matLeased = TRUE]

(* require_active_nested_claim *)
ActiveMaterialization(it, token) ==
  it.mat = "materializing" /\ it.matToken = token /\ it.matLeased

(* finish_delivery_materialization: it overwrites the item's own status    *)
(* and cache path without looking at them.                                 *)
Materialized(it, file) ==
  [it EXCEPT !.mat = "materialized", !.matRetry = TRUE, !.matLeased = FALSE,
             !.path = file, !.cache = file, !.status = "pending",
             !.retryable = TRUE, !.error = "ok", !.old = FALSE]

MaterializationFailed(it, retryable, message) ==
  [it EXCEPT !.mat = "failed", !.matRetry = retryable, !.matLeased = FALSE,
             !.cache = NoFile, !.status = "failed", !.retryable = retryable,
             !.error = message, !.old = FALSE]

-----------------------------------------------------------------------------
(* reconcile_delivery_cache, run when a gateway process starts: items that *)
(* name a cache file either keep it or lose it.                            *)
RetryableIfNotSending(it) ==                \* mutant: a killed attempt is lost
  it.status \in {"pending", "failed"} /\ it.retryable

RetryableState(it) == it.status \in {"pending", "sending", "failed"} /\ it.retryable
Expired(it)   == RetryableState(it) /\ it.old
RetainedIfNotSending(it) ==                 \* mutant: drops a running attempt's
  /\ it.cache # NoFile /\ RetryableState(it) /\ ~Expired(it)
  /\ it.status # "sending"
Retained(it)  == it.cache # NoFile /\ RetryableState(it) /\ ~Expired(it)
Discarded(it) == it.cache # NoFile /\ ~Retained(it)

ReconciledUnknown(it) ==                    \* mutant: a status no reader knows
  IF ~Discarded(it) THEN it
  ELSE [it EXCEPT !.cache = NoFile, !.status = "discarded", !.retryable = FALSE]

Reconciled(it) ==
  IF ~Discarded(it) THEN it
  ELSE IF Expired(it)
       THEN [it EXCEPT !.cache = NoFile, !.status = "expired",
                       !.retryable = FALSE, !.error = "cache_expired",
                       !.leased = FALSE, !.old = FALSE]
       ELSE [it EXCEPT !.cache = NoFile, !.old = FALSE]

(* retryable_delivery_plans: is the plan that owns these items offered to  *)
(* the recovery loop?  A terminal failure blocks the whole plan; an        *)
(* "expired" item does not.                                                *)
RetryablePlan(items) ==
  /\ ~\E i \in DOMAIN items : items[i].status = "failed" /\ ~items[i].retryable
  /\ \E i \in DOMAIN items : RetryableState(items[i])
=============================================================================
