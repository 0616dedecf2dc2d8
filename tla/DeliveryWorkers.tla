-------------------------- MODULE DeliveryWorkers --------------------------
(***************************************************************************)
(* The delivery pipeline of the gateway (src/src/gateway.rs): several      *)
(* tasks, in one or in several processes, deliver the items of one         *)
(* delivery key through the ledger of DeliveryLedger.  A task is a         *)
(* notification request, or a pass of the five-second recovery loop        *)
(* (src/src/runtime.rs); both run deliver_outbound_items_guarded.          *)
(*                                                                         *)
(* A step of a task ends where the code awaits or releases the store lock: *)
(* a ledger transaction, an authorization call, a download, a provider     *)
(* call, a file removal.  Between two steps anything may happen: other     *)
(* tasks move, leases run out, consent is revoked, the process is killed.  *)
(***************************************************************************)
EXTENDS DeliveryLedger

CONSTANTS
  Workers,       \* tasks, each in a process of its own
  Fingerprints,  \* effective requests that callers send under the one key
  NoPlan,        \* not a fingerprint
  N,             \* the plan has items 1..N, in the order of split_outbound_items
  MediaItems,    \* items with an attachment to download and to upload
  FallbackItems, \* native videos whose hint allows sending them as a file
  WhatsApp,      \* the platform is WhatsApp: Beacon authorizes every send
  CameraItems,   \* items whose attachment needs camera consent
  Timely,        \* no live attempt outlasts its lease
  MaxAttempts,   \* bound: claims of an item, of either kind
  MaxFaults,     \* bound: failures of the network, Beacon or the provider
  MaxCrashes,    \* bound: kills of a process
  MaxDays        \* bound: times the 24 h cache TTL runs out

Items == 1 .. N

ASSUME ConstantsAssumption ==
  /\ N \in Nat /\ N > 0
  /\ MediaItems \subseteq Items /\ FallbackItems \subseteq MediaItems
  /\ CameraItems \subseteq MediaItems
  /\ WhatsApp \in BOOLEAN /\ Timely \in BOOLEAN
  /\ NoPlan \notin Fingerprints
  /\ MaxAttempts \in Nat /\ MaxFaults \in Nat
  /\ MaxCrashes \in Nat /\ MaxDays \in Nat

VARIABLES
  plan,      \* request_fingerprint of the key's record, or NoPlan
  items,     \* the items of that record
  record,    \* fingerprint of the saved ok response (_deliveries.json)
  files,     \* attachment cache: files on disk
  aged,      \* the files whose directory is older than the TTL
  pc,        \* where each task is
  job,       \* what each task remembers
  startup,   \* what a starting process took from the reconciliation
  consent,   \* does Beacon currently allow the delivery?
  faults, crashes, days,   \* how much of each bound is used
  (* history, read by no action of the code *)
  accepted,  \* how often the provider accepted each item
  excused,   \* answers lost by the provider, and claims taken over
  grace,     \* tasks that had passed their last check when consent ended
  lapsed     \* items a reconciliation has expired

ledger  == <<plan, items, record>>
disk    == <<files, aged>>
budget  == <<faults, crashes, days>>
history == <<accepted, excused, grace, lapsed>>
vars == <<ledger, disk, pc, job, startup, consent, budget, history>>

NoClaim == [unsupported |-> FALSE, uploaded |-> {}, media |-> "none"]
NoJob == [fp |-> NoPlan, origin |-> "recovery", item |-> 1, token |-> 0,
          matToken |-> 0, path |-> NoFile, stage |-> "native",
          prepared |-> "none", claim |-> NoClaim, result |-> "ok",
          cleanup |-> NoFile]
NoStartup == [delete |-> {}, retained |-> {}]

Job == [fp       : Fingerprints \cup {NoPlan},
        origin   : {"notification", "recovery"},
        item     : Items,
        token    : Nat,                     \* claim_token of the item claim
        matToken : Nat,                     \* of the materialization claim
        path     : Nat,                     \* attachment path to send from
        stage    : Stages,
        prepared : Stages \cup {"none"},    \* PreparedOutbound, by its stage
        claim    : [unsupported : BOOLEAN, uploaded : SUBSET Stages,
                    media : Stages \cup {"none"}],  \* the claim's snapshot
        result   : Messages,
        cleanup  : Nat]                     \* terminal_cache_path

Busy == {"persist", "materialize", "authorize_download", "download",
         "finish_materialization", "claim", "authorize", "prepare",
         "authorize_prepared", "send", "finish_stage", "finish_item",
         "cleanup", "respond"}
Holding == {"authorize", "prepare", "authorize_prepared", "send",
            "finish_stage", "finish_item"}
Materializing == {"authorize_download", "download", "finish_materialization"}
Locations == Busy \cup {"idle", "down", "sweep"}

Init ==
  /\ plan = NoPlan /\ record = NoPlan
  /\ items = [i \in Items |-> NewItem(i \in MediaItems)]
  /\ files = {} /\ aged = {}
  /\ pc = [w \in Workers |-> "idle"]
  /\ job = [w \in Workers |-> NoJob]
  /\ startup = [w \in Workers |-> NoStartup]
  /\ consent = TRUE
  /\ faults = 0 /\ crashes = 0 /\ days = 0
  /\ accepted = [i \in Items |-> 0]
  /\ excused = [i \in Items |-> 0]
  /\ grace = {} /\ lapsed = {}

-----------------------------------------------------------------------------
(* Helpers *)

Goto(w, to) == pc' = [pc EXCEPT ![w] = to]
Current(w) == items[job[w].item]
SetItem(w, it) == items' = [items EXCEPT ![job[w].item] = it]
File(w) == <<job[w].item, job[w].matToken>>

(* The task returns; nothing of it survives.                               *)
Return(w) == Goto(w, "idle") /\ job' = [job EXCEPT ![w] = NoJob]

(* deliver_outbound_items_guarded, at the end of one item: the next item,  *)
(* or the answer to the caller.  The recovery loop has no caller.          *)
NextItem(w) ==
  \/ /\ job[w].item < N
     /\ Goto(w, "materialize")
     /\ job' = [job EXCEPT ![w] = [NoJob EXCEPT !.fp = job[w].fp,
                                                !.origin = job[w].origin,
                                                !.item = job[w].item + 1]]
  \/ /\ job[w].item = N /\ job[w].origin = "notification"
     /\ Goto(w, "respond")
     /\ UNCHANGED job
  \/ /\ job[w].item = N /\ job[w].origin = "recovery"
     /\ Return(w)

(* map_delivery_failure looks for words in the message: "auth",            *)
(* "permission", "not configured", "unsupported" make a failure terminal.  *)
(* "Camera media authorization is unavailable" contains "auth".            *)
MapDeliveryFailure(message) ==
  message \notin {"revoked", "camera_outage", "proxy_missing", "rejected",
                  "unsupported", "no_fallback"}

(* authorize_delivery_context: the camera check first, then the WhatsApp   *)
(* check; an item that needs neither is not checked.                       *)
Guarded(i) == WhatsApp \/ i \in CameraItems
Outages(i) == (IF i \in CameraItems THEN {"camera_outage"} ELSE {})
              \cup (IF WhatsApp THEN {"check_outage"} ELSE {})
AuthorizeDeliveryContext(i, answer) ==
  \/ ~Guarded(i) /\ answer = "ok" /\ UNCHANGED faults
  \/ /\ Guarded(i)
     /\ answer = IF consent THEN "ok" ELSE "revoked"
     /\ UNCHANGED faults
  \/ answer \in Outages(i) /\ faults < MaxFaults /\ faults' = faults + 1

(* send_delivery_stage reuses an upload found in the claim's snapshot: the *)
(* stage's own, or for the native stage the item's.                        *)
PreparedFrom(claim, stage) ==
  IF stage \in claim.uploaded THEN stage
  ELSE IF stage = "native" THEN claim.media ELSE "none"

-----------------------------------------------------------------------------
(* A task starts *)

(* handle_notification_delivery: a saved response is returned, and a saved *)
(* response to another request is a conflict; neither goes further.        *)
HandleNotification(w, fp) ==
  /\ pc[w] = "idle" /\ record = NoPlan
  /\ Goto(w, "persist")
  /\ job' = [job EXCEPT ![w] = [NoJob EXCEPT !.fp = fp, !.origin = "notification"]]
  /\ UNCHANGED <<ledger, disk, startup, consent, budget, history>>

(* retry_pending_deliveries: the plan is read from the ledger.             *)
RetryPendingDeliveries(w) ==
  /\ pc[w] = "idle" /\ plan # NoPlan /\ RetryablePlan(items)
  /\ Goto(w, "persist")
  /\ job' = [job EXCEPT ![w] = [NoJob EXCEPT !.fp = plan]]
  /\ UNCHANGED <<ledger, disk, startup, consent, budget, history>>

(* persist_delivery_plan, and the first iteration of the item loop.        *)
PersistAnyPlan(w) ==          \* mutant: the fingerprint is not compared
  /\ pc[w] = "persist"
  /\ \/ /\ plan = NoPlan
        /\ plan' = job[w].fp
        /\ items' = [i \in Items |-> NewItem(i \in MediaItems)]
     \/ plan # NoPlan /\ UNCHANGED <<plan, items>>
  /\ Goto(w, "materialize")
  /\ UNCHANGED <<record, disk, job, startup, consent, budget, history>>

PersistDeliveryPlan(w) ==
  /\ pc[w] = "persist"
  /\ \/ /\ plan = NoPlan
        /\ plan' = job[w].fp
        /\ items' = [i \in Items |-> NewItem(i \in MediaItems)]
        /\ Goto(w, "materialize") /\ UNCHANGED job
     \/ /\ plan = job[w].fp
        /\ Goto(w, "materialize") /\ UNCHANGED <<plan, items, job>>
     \/ /\ plan \notin {NoPlan, job[w].fp}          \* IDEMPOTENCY_CONFLICT
        /\ Return(w) /\ UNCHANGED <<plan, items>>
  /\ UNCHANGED <<record, disk, startup, consent, budget, history>>

-----------------------------------------------------------------------------
(* materialize_delivery_item *)

ClaimMaterialization(w) ==
  LET it == Current(w) IN
  /\ pc[w] = "materialize"
  /\ \/ /\ MaterializationOutcome(it) = "materialized"
        /\ Goto(w, "claim")
        /\ job' = [job EXCEPT ![w].path = it.path]
        /\ UNCHANGED items
     \/ /\ MaterializationOutcome(it) \in {"terminal_failed", "busy"}
        /\ Return(w) /\ UNCHANGED items
     \/ /\ MaterializationOutcome(it) = "claimed"
        /\ it.matToken < MaxAttempts
        /\ SetItem(w, MaterializationClaimed(it))
        /\ job' = [job EXCEPT ![w].matToken = it.matToken + 1]
        /\ Goto(w, IF WhatsApp THEN "authorize_download" ELSE "download")
  /\ UNCHANGED <<plan, record, disk, startup, consent, budget, history>>

AuthorizeDownload(w) ==
  /\ pc[w] = "authorize_download"
  /\ \E answer \in Messages :
       /\ AuthorizeDeliveryContext(job[w].item, answer)
       /\ job' = [job EXCEPT ![w].result = answer]
       /\ Goto(w, IF answer = "ok" THEN "download" ELSE "finish_materialization")
  /\ UNCHANGED <<ledger, disk, startup, consent, crashes, days, history>>

(* materialize_attachments_in: the file is written under a guard that      *)
(* removes it unless the ledger takes it over.                             *)
Download(w) ==
  /\ pc[w] = "download"
  /\ \/ /\ files' = files \cup {File(w)}
        /\ job' = [job EXCEPT ![w].result = "ok"]
        /\ UNCHANGED faults
     \/ /\ faults < MaxFaults /\ faults' = faults + 1
        /\ \E message \in {"media_failed", "proxy_missing"} :
             job' = [job EXCEPT ![w].result = message]
        /\ UNCHANGED files
  /\ Goto(w, "finish_materialization")
  /\ UNCHANGED <<ledger, aged, startup, consent, crashes, days, history>>

(* A refused authorization is classified; every other failure is stored    *)
(* as retryable.                                                           *)
MaterializationRetryable(message) ==
  message \in {"media_failed", "proxy_missing"} \/ MapDeliveryFailure(message)

FinishMaterialization(w) ==
  LET it == Current(w) IN
  /\ pc[w] = "finish_materialization"
  /\ \/ /\ ActiveMaterialization(it, job[w].matToken) /\ job[w].result = "ok"
        /\ SetItem(w, Materialized(it, job[w].matToken))
        /\ job' = [job EXCEPT ![w].path = job[w].matToken]
        /\ Goto(w, "claim")
        /\ UNCHANGED disk
     \/ /\ ActiveMaterialization(it, job[w].matToken) /\ job[w].result # "ok"
        /\ SetItem(w, MaterializationFailed(it,
                        MaterializationRetryable(job[w].result), job[w].result))
        /\ Return(w)
        /\ UNCHANGED disk
     \/ /\ ~ActiveMaterialization(it, job[w].matToken)   \* the guard drops
        /\ files' = files \ {File(w)} /\ aged' = aged \ {File(w)}
        /\ Return(w)
        /\ UNCHANGED items
  /\ UNCHANGED <<plan, record, startup, consent, budget, history>>

-----------------------------------------------------------------------------
(* claim_delivery_item, and what the loop decides from the answer          *)

ClaimDeliveryItem(w) ==
  LET it == Current(w)
      claim == [unsupported |-> it.unsupported, uploaded |-> it.uploaded,
                media |-> it.media]
      stage == IF it.unsupported THEN "fallback" ELSE "native"
      noFallback == it.unsupported /\ job[w].item \notin FallbackItems
  IN
  /\ pc[w] = "claim"
  /\ \/ /\ ClaimOutcome(it) = "succeeded"
        /\ NextItem(w) /\ UNCHANGED <<items, excused>>
     \/ /\ ClaimOutcome(it) \in {"terminal_failed", "busy"}
        /\ Return(w) /\ UNCHANGED <<items, excused>>
     \/ /\ ClaimOutcome(it) = "claimed"
        /\ it.token < MaxAttempts
        /\ SetItem(w, Claimed(it, job[w].path))
        /\ job' = [job EXCEPT
             ![w] = [@ EXCEPT !.token = it.token + 1, !.claim = claim,
                              !.stage = stage,
                              !.prepared = PreparedFrom(claim, stage),
                              !.result = IF noFallback THEN "no_fallback" ELSE "ok"]]
        /\ Goto(w, IF noFallback THEN "finish_item" ELSE "authorize")
        /\ excused' = [excused EXCEPT ![job[w].item] =
                         IF it.status \in {"sending", "expired"} THEN @ + 1 ELSE @]
  /\ UNCHANGED <<plan, record, disk, startup, consent, budget, accepted, grace, lapsed>>

-----------------------------------------------------------------------------
(* send_delivery_stage *)

Authorize(w) ==
  /\ pc[w] = "authorize"
  /\ \E answer \in Messages :
       /\ AuthorizeDeliveryContext(job[w].item, answer)
       /\ job' = [job EXCEPT ![w].result = answer]
       /\ Goto(w, IF answer # "ok" THEN "finish_stage"
                  ELSE IF job[w].prepared = "none" THEN "prepare" ELSE "send")
  /\ UNCHANGED <<ledger, disk, startup, consent, crashes, days, history>>

(* prepare_outbound and, for an upload, record_delivery_item_upload.  An   *)
(* upload that cannot be recorded ends the stage without finishing it.     *)
PrepareOutbound(w) ==
  LET it == Current(w)
      i  == job[w].item
      fails(message) == /\ job' = [job EXCEPT ![w].result = message]
                        /\ Goto(w, "finish_stage")
                        /\ UNCHANGED items
  IN
  /\ pc[w] = "prepare"
  /\ \/ /\ i \notin MediaItems
        /\ Goto(w, "authorize_prepared")
        /\ UNCHANGED <<items, job, faults>>
     \/ /\ i \in MediaItems /\ <<i, job[w].path>> \notin files
        /\ fails("file_missing") /\ UNCHANGED faults
     \/ /\ i \in MediaItems /\ faults < MaxFaults /\ faults' = faults + 1
        /\ \/ fails("upload_failed")
           \/ job[w].stage = "native" /\ fails("unsupported")
     \/ /\ i \in MediaItems /\ <<i, job[w].path>> \in files
        /\ ActiveClaim(it, job[w].token)
        /\ SetItem(w, UploadRecorded(it, job[w].stage))
        /\ job' = [job EXCEPT ![w].prepared = job[w].stage]
        /\ Goto(w, "authorize_prepared")
        /\ UNCHANGED faults
     \/ /\ i \in MediaItems /\ <<i, job[w].path>> \in files
        /\ ~ActiveClaim(it, job[w].token)
        /\ job' = [job EXCEPT ![w].prepared = job[w].stage, ![w].result = "stale"]
        /\ Goto(w, "finish_item")
        /\ UNCHANGED <<items, faults>>
  /\ UNCHANGED <<plan, record, disk, startup, consent, crashes, days, history>>

SkipPreparedCheck(w) ==       \* mutant: consent is not asked again
  /\ pc[w] = "authorize_prepared"
  /\ Goto(w, "send")
  /\ UNCHANGED <<ledger, disk, job, startup, consent, budget, history>>

AuthorizePrepared(w) ==
  /\ pc[w] = "authorize_prepared"
  /\ \E answer \in Messages :
       /\ AuthorizeDeliveryContext(job[w].item, answer)
       /\ job' = [job EXCEPT ![w].result = answer]
       /\ Goto(w, IF answer = "ok" THEN "send" ELSE "finish_stage")
  /\ UNCHANGED <<ledger, disk, startup, consent, crashes, days, history>>

(* The provider.  A request whose answer is lost may have been accepted.   *)
SendOutbound(w) ==
  LET i == job[w].item
      answer(message) == job' = [job EXCEPT ![w].result = message]
  IN
  /\ pc[w] = "send"
  /\ \/ /\ answer("ok")
        /\ accepted' = [accepted EXCEPT ![i] = @ + 1]
        /\ UNCHANGED <<faults, excused>>
     \/ /\ faults < MaxFaults /\ faults' = faults + 1
        /\ \/ /\ answer("unconfirmed")
              /\ accepted' = [accepted EXCEPT ![i] = @ + 1]
              /\ excused' = [excused EXCEPT ![i] = @ + 1]
           \/ /\ \E m \in {"unavailable", "rejected"} : answer(m)
              /\ UNCHANGED <<accepted, excused>>
           \/ /\ i \in MediaItems /\ job[w].stage = "native"
              /\ answer("unsupported")
              /\ UNCHANGED <<accepted, excused>>
  /\ Goto(w, "finish_stage")
  /\ grace' = grace \ {w}
  /\ UNCHANGED <<ledger, disk, startup, consent, crashes, days, lapsed>>

(* finish_delivery_stage, and the choice of the file fallback.             *)
FinishDeliveryStage(w) ==
  LET it == Current(w)
      unsupported == job[w].result = "unsupported"
      active == ActiveClaim(it, job[w].token)
  IN
  /\ pc[w] = "finish_stage"
  /\ IF active
     THEN SetItem(w, StageFinished(it, job[w].stage, unsupported, job[w].prepared))
     ELSE UNCHANGED items
  /\ \/ /\ active /\ unsupported
        /\ job[w].stage = "native" /\ job[w].item \in FallbackItems
        /\ Goto(w, "authorize")
        /\ job' = [job EXCEPT
             ![w].stage = "fallback",
             ![w].prepared = PreparedFrom(job[w].claim, "fallback")]
     \/ /\ active
        /\ ~(unsupported /\ job[w].stage = "native" /\ job[w].item \in FallbackItems)
        /\ Goto(w, "finish_item") /\ UNCHANGED job
     \/ /\ ~active
        /\ Goto(w, "finish_item")
        /\ job' = [job EXCEPT ![w].result = "stale"]
  /\ UNCHANGED <<plan, record, disk, startup, consent, budget, history>>

-----------------------------------------------------------------------------
(* finish_delivery_item, and the removal of a cache file nobody needs      *)

FinishAndGoOn(w) ==           \* mutant: the loop goes on after a failure
  LET it == Current(w)
      ok == job[w].result = "ok"
      retryable == ~ok /\ MapDeliveryFailure(job[w].result)
      status == IF ok THEN "succeeded" ELSE "failed"
  IN
  /\ pc[w] = "finish_item"
  /\ \/ /\ ActiveClaim(it, job[w].token)
        /\ SetItem(w, ItemFinished(it, status, retryable, job[w].result, job[w].prepared))
        /\ NextItem(w)
     \/ /\ ~ActiveClaim(it, job[w].token)
        /\ Return(w) /\ UNCHANGED items
  /\ UNCHANGED <<plan, record, disk, startup, consent, budget, history>>

FinishDeliveryItem(w) ==
  LET it == Current(w)
      ok == job[w].result = "ok"
      retryable == ~ok /\ MapDeliveryFailure(job[w].result)
      status == IF ok THEN "succeeded" ELSE "failed"
      cleanup == IF retryable THEN NoFile ELSE it.cache
  IN
  /\ pc[w] = "finish_item"
  /\ \/ /\ ActiveClaim(it, job[w].token)
        /\ SetItem(w, ItemFinished(it, status, retryable, job[w].result, job[w].prepared))
        /\ \/ /\ cleanup # NoFile
              /\ job' = [job EXCEPT ![w].cleanup = cleanup]
              /\ Goto(w, "cleanup")
           \/ cleanup = NoFile /\ ok /\ NextItem(w)
           \/ cleanup = NoFile /\ ~ok /\ Return(w)
     \/ /\ ~ActiveClaim(it, job[w].token)
        /\ Return(w) /\ UNCHANGED items
  /\ UNCHANGED <<plan, record, disk, startup, consent, budget, history>>

CleanupAndGoOn(w) ==          \* mutant: the outcome is forgotten
  LET file == <<job[w].item, job[w].cleanup>> IN
  /\ pc[w] = "cleanup"
  /\ files' = files \ {file} /\ aged' = aged \ {file}
  /\ NextItem(w)
  /\ UNCHANGED <<ledger, startup, consent, budget, history>>

CleanupAttachmentCache(w) ==
  LET file == <<job[w].item, job[w].cleanup>> IN
  /\ pc[w] = "cleanup"
  /\ files' = files \ {file} /\ aged' = aged \ {file}
  /\ IF job[w].result = "ok" THEN NextItem(w) ELSE Return(w)
  /\ UNCHANGED <<ledger, startup, consent, budget, history>>

(* save_delivery_record: only an ok response is saved.                     *)
SaveDeliveryRecord(w) ==
  /\ pc[w] = "respond"
  /\ record' = job[w].fp
  /\ Return(w)
  /\ UNCHANGED <<plan, items, disk, startup, consent, budget, history>>

-----------------------------------------------------------------------------
(* The process of a task is killed, and started again                      *)

Crash(w) ==
  /\ pc[w] # "down" /\ crashes < MaxCrashes
  /\ crashes' = crashes + 1
  /\ pc' = [pc EXCEPT ![w] = "down"]
  /\ job' = [job EXCEPT ![w] = NoJob]
  /\ startup' = [startup EXCEPT ![w] = NoStartup]
  /\ grace' = grace \ {w}
  /\ UNCHANGED <<ledger, disk, consent, faults, days, accepted, excused, lapsed>>

(* from_config: reconcile_delivery_cache ...                               *)
Start(w) ==
  /\ pc[w] = "down"
  /\ items' = [i \in Items |-> Reconciled(items[i])]
  /\ startup' = [startup EXCEPT ![w] =
       [delete   |-> {<<i, items[i].cache>> : i \in {j \in Items : Discarded(items[j])}},
        retained |-> {<<i, items[i].cache>> : i \in {j \in Items : Retained(items[j])}}]]
  /\ Goto(w, "sweep")
  /\ lapsed' = lapsed \cup {i \in Items : Discarded(items[i]) /\ Expired(items[i])}
  /\ UNCHANGED <<plan, record, disk, job, consent, budget, accepted, excused, grace>>

(* ... then, outside the lock, remove_reconciled_attachment_cache and      *)
(* sweep_expired_attachment_cache.                                         *)
Sweep(w) ==
  /\ pc[w] = "sweep"
  /\ files' = files \ (startup[w].delete \cup (aged \ startup[w].retained))
  /\ aged' = aged \cap files'
  /\ startup' = [startup EXCEPT ![w] = NoStartup]
  /\ Goto(w, "idle")
  /\ UNCHANGED <<ledger, job, consent, budget, history>>

-----------------------------------------------------------------------------
(* The environment: time and consent                                       *)

(* claim_expires_at is reached.  When the build's lease covers an attempt  *)
(* (Timely), that only happens to a claim whose task is gone.              *)
LeaseExpires(i) ==
  /\ items[i].leased
  /\ Timely => ~\E w \in Workers : /\ pc[w] \in Holding /\ job[w].item = i
                                   /\ job[w].token = items[i].token
  /\ items' = [items EXCEPT ![i].leased = FALSE]
  /\ UNCHANGED <<plan, record, disk, pc, job, startup, consent, budget, history>>

MaterializationLeaseExpires(i) ==
  /\ items[i].matLeased
  /\ Timely => ~\E w \in Workers : /\ pc[w] \in Materializing /\ job[w].item = i
                                   /\ job[w].matToken = items[i].matToken
  /\ items' = [items EXCEPT ![i].matLeased = FALSE]
  /\ UNCHANGED <<plan, record, disk, pc, job, startup, consent, budget, history>>

(* ATTACHMENT_CACHE_TTL is far longer than any lease, and than a startup,  *)
(* which awaits nothing between the reconciliation and the sweep.          *)
DayPasses ==
  /\ days < MaxDays /\ plan # NoPlan
  /\ \A w \in Workers : pc[w] # "sweep"
  /\ \A i \in Items : ~items[i].leased /\ ~items[i].matLeased
  /\ days' = days + 1
  /\ items' = [i \in Items |-> [items[i] EXCEPT !.old = TRUE]]
  /\ aged' = files
  /\ UNCHANGED <<plan, record, files, pc, job, startup, consent, faults, crashes, history>>

Revoke ==
  /\ consent /\ \E i \in Items : Guarded(i)
  /\ consent' = FALSE
  /\ grace' = {w \in Workers : pc[w] = "send"}
  /\ UNCHANGED <<ledger, disk, pc, job, startup, budget, accepted, excused, lapsed>>

-----------------------------------------------------------------------------
Step(w) ==
  \/ PersistDeliveryPlan(w)
  \/ ClaimMaterialization(w) \/ AuthorizeDownload(w) \/ Download(w)
  \/ FinishMaterialization(w)
  \/ ClaimDeliveryItem(w)
  \/ Authorize(w) \/ PrepareOutbound(w) \/ AuthorizePrepared(w)
  \/ SendOutbound(w) \/ FinishDeliveryStage(w)
  \/ FinishDeliveryItem(w) \/ CleanupAttachmentCache(w)
  \/ SaveDeliveryRecord(w)
  \/ Start(w) \/ Sweep(w)

Next ==
  \/ \E w \in Workers :
       \/ \E fp \in Fingerprints : HandleNotification(w, fp)
       \/ RetryPendingDeliveries(w)
       \/ Step(w)
       \/ Crash(w)
  \/ \E i \in Items : LeaseExpires(i) \/ MaterializationLeaseExpires(i)
  \/ DayPasses
  \/ Revoke

Spec == Init /\ [][Next]_vars
=============================================================================
