# HarborGate: TLA+ models and proofs

HarborGate is a Rust gateway between messaging providers (WhatsApp, Weixin,
Feishu, mail, webhook) and the HarborBeacon assistant. It receives messages,
forwards them as turns, delivers replies and notifications, and on a shared
cloud number routes them to one of several home hubs ("Navi"). This directory
models the parts of it where order, failure and concurrency decide whether it is
correct. Source paths below are relative to `src/src/`.

## 1. Inventory

| Part | State | Operations | Talks to | Hard because |
|---|---|---|---|---|
| Delivery item ledger (`store.rs`) | `_delivery_items.json`: per delivery key a plan and its items, each with status, retryable flag, claim token, lease, stages, materialization, cache path; `_deliveries.json`: saved responses | plan, claim, record upload, finish stage, finish item, claim/finish materialization, reconcile, list retryable plans | pipeline | shared by requests, recovery loop and several processes; claims outlive their owners |
| Delivery pipeline (`gateway.rs`) and recovery loop (`runtime.rs`) | local variables of a task; the attachment cache directory | handle a notification, retry pending plans, materialize, authorize, prepare, send, finish, clean up; reconcile and sweep at start | ledger, HarborBeacon, provider adapters | awaits between every two ledger transactions; kills; lost answers; consent that ends in between |
| Navi fleet (`navi_fleet.rs`) | `routes.json`: active selection, pending proof, dedupe list, revisions, queued route updates | begin/claim/finish a binding proof, queue/claim/finish route updates, select, check, invalidate | cloud relay, pipeline, webhook | answers that arrive after a newer proof; acknowledgements that arrive after a newer update |
| Cloud relay client (`cloud_relay.rs`) | one exchange: request id, deadline, pinned identity; cached credentials | publish, republish, poll | hub | retries of an exchange that was already accepted |
| WhatsApp inbox (`adapters/whatsapp.rs`, worker in `server.rs`) | a directory with one file per message: status, attempts, claim and retry times, payload | enqueue, claim, finish | webhook, turns | provider redelivers; worker is killed |
| Weixin runtime and inbox (`adapters/weixin.rs`, `runtime.rs`) | inbox and cursor files by account; account in memory and on disk | poll, persist batch, commit cursor, claim, finish, unbind | provider, turns | cursor and messages are two files; login and logout between any two steps |
| Turns and sessions (`gateway.rs`, `store.rs`, `harborbeacon.rs`) | session files: history, metadata (route, conversation handle, continuation); `_routes.json` | handle inbound, handle gateway turn, plan a reply, plan a notification | HarborBeacon, fleet, ledger | metadata read before an await and written after it; three writes that can fail one by one; the chat's home may change meanwhile |
| HarborBeacon client (`harborbeacon.rs`) | a batch of attachments under way | submit a turn, download over the relay or locally, authorize camera media or a WhatsApp message | relay, local HarborBeacon, cache | media that change between two ranges, one artifact of several that fails, an outage that must not look like a refusal |
| Device sessions (`device_session.rs`) | `device-sessions.json`: pairing codes, sessions | issue, exchange, authenticate, log out | HTTP, command line | read, change, replace of one file by several processes; one-time codes; a write that happened and was reported as failed |
| HTTP surface (`server.rs`, `harboros_auth.rs`) | none beyond its configuration | route, authenticate, forward | all | precedence of credentials, a login over a socket that carries other answers too |
| Setup, configuration, wire formats, packaging | files | read, write, render | | I/O |

What makes each part correct: the properties of section 3; what is left is in section 7.

## 2. The models

### 2.1 Delivery

`DeliveryLedger` gives the ledger operations as functions from the item read to
the item written: each runs under the process mutex and the file lock and ends in
one atomic replacement of the file, so it is one step. Its fields are those a
decision depends on; a claim token (a UUID) is represented by the number of the
attempt, a lease by a Boolean that turns false when `claim_expires_at` is reached.

`DeliveryWorkers` has the tasks. A task is a notification request or a pass of the
recovery loop; its location `pc` is the await it is at, its memory `job` holds the
claim's snapshot, the tokens, the prepared upload and the result. Actions carry
the names of the functions they model; each ends where the code awaits or lets go
of the store lock:

* `HandleNotification`, `RetryPendingDeliveries`, `PersistDeliveryPlan`: a task
  starts; a fingerprint that differs from the planned one is refused.
* `ClaimMaterialization`, `AuthorizeDownload`, `Download`, `FinishMaterialization`:
  `materialize_delivery_item`, with the guard that removes an unclaimed file.
* `ClaimDeliveryItem`, `Authorize`, `PrepareOutbound`, `AuthorizePrepared`,
  `SendOutbound`, `FinishDeliveryStage`, `FinishDeliveryItem`,
  `CleanupAttachmentCache`: one item, its native stage and its file fallback.
* `SaveDeliveryRecord`: the response of a notification that succeeded.
* `Crash`, `Start`, `Sweep`: a kill at any location, and `from_config`.
* `LeaseExpires`, `MaterializationLeaseExpires`, `DayPasses`, `Revoke`: time and
  consent. `Timely` says whether a live attempt may outlast its lease.

A message is one of a dozen classes, which is what `map_delivery_failure` tells
apart. `accepted`, `excused`, `grace` and `lapsed` are history variables.
`DeliveryPromise` is the abstract specification: items are open, held by a
numbered attempt, done or dead, in order. `DeliveryProperties` states the
properties.

Left out of this model: messages without a delivery key (sent directly, no
ledger), ledger files written by older versions, several delivery keys (they share
nothing but the lock), the cleanup of `previous_cache_path` (it differs from the
current path in no reachable state), and the wording of errors.

### 2.2 The Navi fleet

`NaviFleet` is the directory `routes.json` and the tasks that use it. `route[r]` is
the record of a phone (active selection, pending proof, seen proofs, revision,
outstanding updates), `made` the history of selections: a generation, in the code
a UUID, is the number of its selection. The directory operations run under
the file lock and are one step each: `Begin` (a "NAVI hub.token" message), the
claim, answer and completion of a proof poll and of a route update by the
binding loops (`worker`, from `refresh_navi_binding`), `select` and its second look in
`authorize_delivery_context` and the notification poll (`out`), and
`invalidate_identity`. A new certificate met while asking whether a plain WhatsApp message
may be sent is taken for a refusal, elsewhere it invalidates the identity (`OutAnswers`). A
pending proof also carries, as history, the identity of the first answer recorded for it
(`first`): `DeviceIsPinned` compares a selection with that one, not with the one the guard
of `finish` reads. The homes are external: `session` has what a home answers for
a token, `identity` its certificate, `heard` the route status it applied last.

Abstractions: `next_poll` and `notification_next_poll` only space polls out, so any
entry may be due at any time; syntax checks end like an outage; seconds are scaled
down by `ProofLife`, `Skew`, `ExchangeLife`. `PairedInit` and
`SwitchedInit` in `MCNaviFleet` are states that `Spec` reaches from `Init` (a phone has
paired; it has switched homes); starting there leaves the bounds for what comes next.

### 2.3 The inboxes

`InboxPromise` says what a durable inbox owes a provider: new, held, settled, never
back, and an acknowledgement only for what is stored. Both inboxes refine it.

`WhatsAppInbox`: `Enqueue` stores the files of a batch one by one and may stop half
way (directory full, process killed); `ClaimMessage` is one scan in some order, with
the purge and the giving up it does on its way; `HandleInbound` is the turn;
`FinishMessage` writes the worker's copy back behind its fence. Times are kept as
what has passed or is left. The lock file counts in the directory's capacity. That
the provider stops redelivering before `Keep` is an assumption (`Replay <= Keep`).

`WeixinInbox`: the runtime thread is at an operation (`rt.op`) and in a phase of it
(`rt.ph`): `Discover` and `Adopt` are the two halves of `account()`, which every
operation calls first, then it acts under the inbox lock for the login it adopted.
`LoopHead` is the check at the head of the loop, to which failures return; a poll without
an account goes on with an empty batch and cursor. `Configured` and `Token` are the account
the environment names (`None` and 0 for none): it is in memory when no account file is
found at the start, and `account()` looks for its file when that of the current account is
missing (`Environment`, `NewAccount`, `Lookup`, `Discovered`).
`SaveAccountFile`/`SaveAccountState` are a login, `UnbindAsks`/`UnbindAdopts`/`Unbind`
a logout, which may fail between the files it removes. A login's number stands for
its token. An id names one payload, so the fingerprint conflict does not arise; the
limit of 100 messages a drain is beyond the bound. Context tokens, transport
state and sending are not modelled.

### 2.4 Turns, replies and notifications

`SessionTurns` is `handle_inbound` and `handle_gateway_turn`. A worker (an inbox worker
or a request) is at one of the places where the code waits or has just released the
store lock: asking HarborBeacon, then saving metadata, registering the route,
appending the pair of turns, replying. Each write reads its file again under the
lock and replaces its own part (`SetMetadata`, `AppendTurns`), each may fail
(`Fail`), and the message is then taken again. `HandleNaviText` and `EndProof` are
what the fleet does to the chat's selection in the meantime. Ids that the code
hashes are the tuples that are hashed, so that two ids are equal exactly if the code
would make them equal. HarborBeacon (`Response`) is external: a turn id it knows gets
the answer it got before, and an answer carries the turn id of its request; what
`map_turn_response` makes of an answer without one is not exercised. A WhatsApp number
belongs to a fleet in this model; without one the code treats WhatsApp like the other
platforms.

`ReplyPlan` has the pure functions between an answer and a delivery plan as
operators (`NativeAttachments`, `RenderRetrievalReply`, `SplitOutboundItems`,
`NativeVideoFileFallback`, `EffectiveRequest`), under the names they have in the code,
and two actions that apply them: `TurnReply`, the end of `handle_inbound`, and
`NotificationDelivery`, `handle_notification_delivery` up to the persisted plan, with the
idempotency record, the plan of an earlier call and the route registry. What then
happens to the items is `DeliveryWorkers`. A filter of the code is `Kept(s, I)`, the elements
of `s` at the positions `I`; it is defined by the rank of a position instead of by recursion,
so that it can be proved about, and `KeptIsSelected` in `MCSessionTurns` has TLC compare it
with `SelectSeq`.

### 2.5 The Cloud relay

`CloudRelay` is `exchange`: the loop's head decides between a post and a poll, the
answer is checked (`Mixed`: request id, deadline, identity against the pin and
against the earlier receipts), errors end the call or are retried, and the call has a
time budget from its beginning. The network loses requests and answers, and a post
that nobody waits for may still arrive; HarborCloud fails, loses an exchange and
has a clock of its own; the device may be replaced, its answer lost, its permission
withdrawn. Time counts in ticks that keep the order of the code's durations.

### 2.6 Device sessions, access, media

`DeviceSessions`: a request reads the clock, waits for the lock, and then reads, changes
and replaces the file; a reader takes the lock and decides. `PersistFails`
has both failures, before the file was replaced and after (setting its permissions
fails); `Crash` ends a request, or the command that issues codes, at any place and
gives the lock back, as the kernel does.

`ServiceAccess`: start-up with every configuration, service calls with every token and
contract version, and forwarded requests of every kind, method, camera and token. The
camera id of a path is checked twice, and `OddCameras` are the ids that only the first check
takes (section 5). A
login is a conversation with HarborOS (`Connect`, `Hear`, `LoginUnreachable`,
`AuthTimeout`) in which answers to other requests are skipped.

`MediaTransfer`: the cache directory (`CreateRoot`, `OpenRoot`, and `RootReplaced` by
somebody else), the batch of `materialize_attachments` with one file per artifact,
the download in ranges over the relay and the stream from the local HarborBeacon, the
removal of what a failed batch leaves, `AttachmentCacheGuard` (`KeepAttachment`,
`DropGuard`), and the two authorization calls. Bytes are counted in units; the home
may answer a range with any length, total and position.

## 3. Runs

| Run | Instance | Checks |
|---|---|---|
| `delivery_races` | 2 tasks, 1 camera video with fallback, 2 fingerprints, leases may lapse under a live attempt, 1 fault, 1 kill, 1 TTL, 2 attempts | fencing (`OneLiveHolder`), final outcomes, excused duplicates, revocation, what is stored of media (`StoredMediaFits`: upload reuse, cache retention and ownership), conflicts, truth of the saved response |
| `delivery_plan` | 2 tasks, 2 items, WhatsApp authorization, 3 attempts, 1 fault, 1 kill, leases cover live attempts | item order, refinement of `DeliveryPromise`, `PlanSettles` under `FairSpec` |
| `camera_outage` | violation | README: an authorization outage "remains retryable"; the code makes it terminal |
| `fleet_proofs` | 1 phone that has just switched homes, 2 homes, 3 tokens, room for 2 updates, 8 revisions, 3 seconds | proofs in the phone's order, answers only for the pending message, both homes told what they are (`HomesAreTold`), the limit of outstanding updates holds and never blocks a release |
| `fleet_devices` | 1 paired phone, 2 gateways, 1 delivery, 1 new certificate | the pinned device, sends for the selected home only, only lost homes dropped |
| `relay_exchange` | 2 exchanges of 3 kinds (one after the other), a budget of 2 ticks, 1 fault, 1 replaced device | a device does a call's work once; what a call returns comes from the right device, in time, and is not older than the call (`AnswersAreCurrent`); every call returns |
| `whatsapp_inbox` | 2 messages, room for 1, 2 processes, 2 attempts, crashes, replays, purge | fence, lease, payload kept, refinement of `InboxPromise`, `Settles` under `FairSpec` |
| `weixin_inbox` | 1 account, named by the environment with a token of its own, 2 logins, 1 restart, failures that end | refinement of `InboxPromise` (no message skipped), `Fetched` under `FairSpec` |
| `weixin_unbind` | 2 accounts, one of them named by the environment, logins, partial unbinds, a restart | nothing is left of a removed account but what the environment provides for |
| `weixin_switch` | violation | "Weixin account changed before inbox commit": a batch is stored for an account that logged in during its poll |
| `session_turns` | 4 messages of 2 chats (WhatsApp that is bound anew, Feishu shared with a gateway client), 2 workers, 3 takes, history of 2; and answers with up to 2 artifacts (or 4 images), hints and texts on 4 channels, and notifications under one key | conversations stay with their home, the continuation belongs to the last turn, one reply per message over a route that exists, whole exchanges and none lost, plans that fit the channel, attach artifacts of the answer only and list them where nothing is attached, same key same plan, no way around the fleet |
| `access` | 2 requests, 2 codes, 2 tokens, 1 failure; every configuration and request, with two cameras, one of an odd id; 2 media calls of up to 2 artifacts, files of up to 4 units in ranges of 2, 1 fault | sessions come from codes and end, a logout is final, a code handed out works; a service call needs a token; what is of the household or steers a camera is forwarded for an administrator's login or for the LAN's one camera, the rest for nobody (odd ids aside); cache whole, bounded and clean; verdicts founded; everything ends |

Two runs hold models that share no state: `MCSessionTurns` has `SessionTurns` and
`ReplyPlan`, `MCAccess` has `DeviceSessions`, `ServiceAccess` and `MediaTransfer`. A
behaviour belongs to one of them (the guards in `Next` say which), so the states add up
instead of multiplying, and nothing is claimed about their interaction. Properties
such as `StoredMediaFits`, `SessionsAreSound` or `CacheIsSound` are conjunctions of named
parts, each with its own comment.

Bounds. Tasks, fingerprints and gateways are interchangeable, hence the symmetry sets
of the safety runs. In the delivery runs, two tasks are enough for every race on a
claim (the fence compares one token); two attempts give a takeover, three let a plan settle after a takeover and
a fault. One fault, one kill and one TTL may fall at any step. Two items show the
order; the second is the one with a download. In the fleet two homes and three
tokens give a switch back, which is where generations matter; room for two updates
makes the third selection meet the limit. In the inboxes two processes give a
takeover, and `Keep` just above `Life` lets the purge follow the giving up within the
bound. In the WhatsApp inbox room for one message makes the
second one of a batch meet a full directory, so the replay of a half-stored batch
happens. In the relay, 2 ticks of budget with a republish after 1 give every call a
post, a repeated post and its end; the client keeps nothing between two calls, so
overlapping ones would only meet in HarborCloud, which tells them apart by request id.
Three takes of four messages give two overlapping turns of one chat and a retry;
a history of one pair makes every second turn cut it, so that an older exchange is
kept is seen by the theorem `HistoryStaysKept` only. Two overlapping requests are
enough for the session file, whose lock lets one in; a file of 4 units needs two
ranges, and totals of 0, 3, 4 and 5 are the empty, the odd, the largest and the too
large medium. Deadlock is not checked in the delivery, fleet, turn and access runs
because the bounded system stops when its attempts, revisions, takes or time are
used up.

Fairness. `FairSpec` assumes that a started task is polled on (tokio), that the
recovery loop runs again and again (it sleeps five seconds between passes), and
that leases end (they are points in time). It assumes nothing about requests,
providers or consent. The recovery loop has strong fairness because in the model
it shares a task slot with requests; in the code it has a task of its own.

The WhatsApp worker loop and a turn, whose calls have timeouts, go on (weak fairness)
and time passes; crashes, turn outcomes and the provider are free. For Weixin the
thread goes on, leases end, and polls are answered again and again (strong fairness
of `PollReturns`, since the code polls for ever and a provider that never answers
gives nothing to fetch). That a message fails only `MaxFailures` times is a bound of
the model: in the code a retry has no limit, and a message that failed for ever
would be claimed first again and again.

For the relay only the clock and the timers are fair: a call returns although the
network, HarborCloud and the device owe nothing. Requests for device sessions are served on
(weak fairness; codes and exchanges are bounded, so that the lock, which is held for one
replacement of the file, is free in the end), a HarborOS login is ended by its five seconds, and every await of a media
call returns, because a relay exchange has its deadline and a local request its time
limit. That a request is forwarded and then answered is not claimed: the proxy sets
no time limit for HarborBeacon's answer.

## 4. Proofs

Every safety invariant and action property that a passing run checks is also proved,
for every value of the constants that satisfies the named assumptions; three theorems
have a further hypothesis, given below with its reason. TLC evaluates the assumptions in
the runs. An invariant `Inv` is proved as `Spec => []Inv` from a stronger, inductive one: it holds initially, every action
keeps it (one lemma per action or group of actions), and it implies `Inv`.

| Module | Theorems | Inductive invariant |
|---|---|---|
| `DeliveryTypes` | `TypeCorrect` | `TypeOK` |
| `DeliveryProofs` | `OneLiveHolderHolds`, `ItemsInOrderHolds`, `RecordIsTrueHolds`, `ConflictNeverDeliversHolds`, `OutcomeIsFinalHolds`, `NoSendAfterRevocationHolds`, `Refinement`, `DuplicatesStayExcused`, `StoredMediaFitsHolds` | `IInv`; on top of it `CountInv`, `StaleInv`, `UploadInv`, `StoreInv` |
| `FleetProofs` | `HomesStayTold`, `PausesStayReported`, `ReleasesStayPossible`, `NewestProofsWin`, `AnswersFitProofs`, `DevicesStayPinned`, `SendsStaySelected`, `OnlyLostHomesAreDropped` | `FleetInv` |
| `RelayProofs` | `TurnsRunOnce`, `AnswersStayCurrent` | `RelayInv` |
| `WhatsAppProofs` | `InboxStaysSound`, `ClaimsStayRespected`, `InboxKeepsPromise` | `InboxInv` |
| `WeixinProofs` | `AccountsStaySound`, `OnlyARestartTakesUp`, `InboxKeepsPromise` | `AccountInv`, `PromiseInv` |
| `TurnsProofs` | `ConversationsStayHomeHolds`, `ContinuationAnswersLastTurnHolds`, `HistoryStaysKept`, `RepliesStaySound`, `NotificationsStaySafe`, `PlansStayFit` | `TurnsInv`, `RecordsInv`, `PlanInv`; `PlanIsFit` itself |
| `AccessProofs` | `AccessStaysFounded`, `SessionsStaySound`, `SessionsStayEarned`, `CacheStaysSound`, `VerdictsStayFounded` | `AccessInv`, `SessionInv`, `MediaInv` |

### 4.1 Delivery

For every number of tasks, items, attempts, faults, kills and both choices of `Timely`;
the only assumption is `ConstantsAssumption`.

`OneLiveHolder` needs that a token is never
issued twice (`TokenInv`), hence that held tokens are at most the ledger's;
`ItemsInOrder` needs that a task stands at an item all predecessors of which are
delivered (`TaskOK`) and that delivered stays delivered; that in turn needs that a
download in progress never belongs to an item that is being sent or decided
(`GoodItem`), because `finish_delivery_materialization` overwrites the status
unseen. `IInv` is their conjunction. Its preservation is proved in two lemmas over
the actions: `NextLedger` (a step writes the acting task's item by a `Written`
change, or changes all items quietly) and `NextTasks` (a step moves one task in one
of five ways); the invariant, the action property and the refinement of
`DeliveryPromise` follow from these two without looking at actions again.

Duplicates. Acceptances alone cannot be bounded step by step: an attempt that holds a
claim may still add one. `CountInv` says, for each item, that the acceptances so far plus
the tasks with an unsent attempt at it (`Tries`) are at most its excuses plus one, and
at most its excuses while the item is free or a failed attempt is about to give it back
(`Spare`). Four kinds of step touch this count: one that eases it, the end of an attempt,
`finish_delivery_item` of a failure, and a claim; the claim of an item that somebody
still holds is the one that is excused. `StaleInv` adds that a task which believes its
claim to be lost has lost it.

Stored media. `UploadInv` ties the stage of a live claim to the verdict on the native
stage in the ledger, so that the upload `send_delivery_stage` reuses is of its stage.
`StoreInv` ties files, ledger and tasks together: a file is named by an item and the
token of its download, tokens of downloads are never shared, an item that may still be
sent has its file unless a restart expired it, what a starting process is about to
remove belongs to an expired or a decided item and its sweep spares the rest, and until
a process is killed every file has an owner. `StoreStep` says what a step has to show;
there is one lemma for each action that touches a file or a download.

### 4.2 The fleet

For every number of phones, homes, tokens, gateways, deliveries and every limit, from
`FleetAssumption` (the life of an exchange is at most the skew, which the constants of
`navi_fleet.rs` satisfy) and `NullAssumption` (the value for a missing selection or
proof is neither; `Option::None`). `FleetInv` has three ideas. What `queue_route_update`
holds for a home is true of the route, and nothing leaves the queue before the home has
heard it or has lost its certificate, so what a home heard last together with what is
queued for it is the truth (`Reports`, `Told`, `Agrees`). The token of a proof is
remembered longer than a poll of it can be awaited, so `finish` may tell proofs apart by
their token (`Asked`). Every selection uses up a revision, so generations are not used
twice (`Numbered`). One lemma per function says what it does to one route;
`DirectoryStep` turns that into a step of the directory.

`HomesStayTold` assumes `MaxResets = 0`, as in the run `fleet_proofs`: `invalidate_identity` drops a pending proof
without a word to the home that was told to pause for it (section 5), so with changed
certificates that home is not told to resume. `PausesStayReported` needs no such
assumption and covers the rest: a home that must stop is told so.

### 4.3 The relay

From `RelayAssumptions`, for all calls, operations, time limits, skews and numbers of
faults. `RelayInv` follows a request id from the call to the request on the wire, the
exchange, the run on the device, the receipt and the result: at each place it is the
call's own, a result comes from the device the exchange names, and a success was
decided after the call began. That a device works once is the statement that runs are
told apart by id and device.

### 4.4 The inboxes

WhatsApp, from `WhatsAppAssumption` (a message is handed in again for no longer than
its file is kept: `Replay <= Keep`). A claim is told from a later one by the number of
attempts in the file, and a file may be purged while a worker still holds its claim; that
numbers never begin again rests on the times in `TimesInv`: what was purged is older
than what the provider still hands in. The refinement maps a file to the state that
`InboxPromise` names.

Weixin, from `WeixinAssumption`: the environment names no account or one of the accounts,
with any token, also that of a login, or none. `AccountsStaySound` holds for any number of
accounts, logins, unbinds and restarts. `AccountInv` adds that a login being saved has its
file already, and that an account in memory without a token keeps the thread at the head of
its loop (`Waits`), so that an operation always has a file or the environment's token behind
it (`CurrentFacts`). `OnlyARestartTakesUp` is its counterpart for the way back: in the running
process nothing but a file brings an account into memory; that of the environment without a
file comes with a restart. `InboxKeepsPromise` is
stated for one account that nobody unbinds, as in the run `weixin_inbox`: with another login during a poll
the promise is broken (`weixin_switch`). `PromiseInv` follows a fetched cursor on its way
to the sync file: what it passes over is stored.

### 4.5 Turns and notifications

From `TurnsAssumption` (the history's limit is even and not zero, as the store's 20; the
first home exists), for all messages, workers, hubs and bounds.
Neither `ConversationsStayHome` nor `ContinuationAnswersLastTurn` is inductive: what a worker sends comes from a session file,
what the file has comes from an answer, and the answer from what another worker sent.
`TurnsInv` follows handles and continuations through all three: a session's home can be
read off its key (`KeyHome`), an answer's home and turn are those of the request, and a
worker that is past the wait holds metadata whose continuation answers its own last
turn. `RecordsInv` adds that a history is a number of whole exchanges within the limit
(`WholeHistory`), and follows a route from the message it was derived from through
session, worker and registry to the plan. `RepliesStaySound` has two hypotheses about the
messages, which those of the run satisfy: `MessagesHaveIds` (section 5 has what happens
without) and `RoutesNameOneChat`. The theorems are about `TurnsSpec`; the behaviours of
`MCSessionTurns` are its behaviours, or leave its variables alone.

`NotificationsStaySafe` is about `PlanSpec`. Its point is the lemma
`FingerprintCoversPlan`: the effective request that is fingerprinted leaves out nothing of
the message that `handle_notification_delivery_from` would send, so a request accepted under an
old key sends what the old plan sends.

`PlansStayFit` is about `PlanSpec` too, for answers and notifications with any number of
artifacts and hints; the assumption `PlanInputs` says only what a JSON value is read as (a
list of artifacts, a list of hints, numbers that are not negative). The invariant looks at
the last call alone, so the work is in the data and not in the steps. Filters would need
an induction over the list; `Kept` does without, because ranks are an injection of the
positions kept into as many numbers, and an injection between finite sets of one size is
onto (`EveryRankIsTaken`). From there every attachment is traced back to an artifact of the answer by an
injection (`Copied` through filter and limit, `Traced` through the split), so that at most three
chosen attachments beside the videos are at most three shown ones, and two equal ids among
the chosen mean two among the artifacts. The one way out, which the proof needs and TLC
reaches, is an artifact that Weixin chooses twice (section 5).

### 4.6 Sessions, access, media

From `SessionAssumptions` and `MediaAssumption`, for all requests, secrets, times and
sizes. `SessionInv` has what the request that holds the lock knows: its copy is one of
the results of its operation on the file as it still is (`Holds`), so replacing the file
loses no code and revives no session; a code that was shown, is unused and in its
time waits in the file (`UsableIn`); a token whose logout was answered is revoked
(`OutGood`). `AccessInv` keeps with a request why it may be forwarded, with a
principal or for nobody, until it is (`Founded`). `MediaInv` accounts for every file of the cache as that of the running call,
kept by the ledger, or stuck (`Names`), says how much of the file being written is there
(`Parts`), and keeps with a call what the home answered (`Told`, `Cleared`).

### 4.7 Only model-checked

`PlanSettles`, `EveryCallReturns`, `Settles`, `Fetched` and `EverythingEnds` are liveness
under fairness, which is out of the prover's reach. So is that `Kept` equals `SelectSeq`,
which is recursive.

## 5. Findings and observations

`camera_outage` and `weixin_switch`: what the code does and the line it disagrees with
are quoted in `PROJECT.json`.

Met while modelling, not the subject of a run:

* A WhatsApp send whose answer is lost is sent again under the same delivery key;
  WhatsApp has no idempotency key to prevent it. `DuplicatesAreExcused` says that this,
  a kill and a lapsed lease are the only causes; the delivery contract v1.5 asks for no duplicate
  user-visible send.
* With two phones on one home, `invalidate_identity` (`navi_fleet.rs:155`) drops a pending
  proof without telling the former home of that phone to resume, although
  `docs/navi-whatsapp-binding-proof.md` says a cancelled switch reactivates it.
* A turn that is answered again (same turn id) saves the older answer's continuation
  over a newer one (`gateway.rs:556`).
* `claim_delivery_item` accepts an item that the reconciliation has expired
  (`store.rs:340`). If another item of the plan is still pending, the recovery loop
  claims the expired one again; its file is gone, which is a retryable failure, so
  the plan is retried without end. `PlanSettles` is checked without the TTL.
* A Weixin message that fails for ever is claimed first again and again
  (`runtime.rs:148`).
* A message without any id gets a turn id from its content and the instant it was
  normalized (`harborbeacon.rs:1119`): a copy of it is another turn.
* `handle_inbound` registers the route that the session names but derives the request's
  route key afresh (`gateway.rs:458`); they differ when the client once chose a key.
* An artifact without an id is neither attached by a hint nor listed
  (`gateway.rs:1985`); `ListGivesWayOnlyToAttachments` is stated for artifacts with ids.
* One attachment silences the whole list of artifacts (`gateway.rs:477`, `2553`, `2571`): of
  an image and a file on Feishu the image is sent, and the file is neither sent nor named.
  No document says otherwise, so this is not a finding.
* A turn that ended while another one of its chat waited is overwritten as the chat's last
  turn (`gateway.rs:451`); `ContinuationAnswersLastTurn` says that turn and continuation still
  belong together.
* A Weixin account that the environment names is back after an unbind and a restart, and it
  cannot be unbound while it has no file. A poll without an account commits its empty cursor
  for a login made in the meantime (`weixin.rs:388`, `590`), so that messages are fetched
  again; the inbox drops the copies.
* A control path with a camera id that is longer than 128 bytes or decodes to `?`, `#` or a
  control character passes the check of the path (`server.rs:1058`) but yields no camera
  (`server.rs:1190`), so it is forwarded without a principal. `NobodyGetsTheRest` excepts it.
* On Weixin an artifact of kind "image" with a video type is chosen by the image rule and
  again by a video hint (`gateway.rs:2383`); `split_outbound_items` then refuses the whole
  reply as `DUPLICATE_DELIVERY_ARTIFACT`, although the answer repeats nothing.
  `RefusalsAreFounded` excepts this case and no other.
* A medium replaced between two ranges by another of the same size is not noticed: the
  answers carry a total but no version. `FilesAreWhole` therefore speaks of lengths.
* An artifact without a URL passes the local permission check without being asked about
  (`NothingWithoutConsent` excepts it).
* A device-session request reads the clock before it waits for the lock, so a session
  may be opened that ended during the wait.

## 6. Mutants

Operators marked as mutants, or named for a fault and standing before the definition they
change, are faulty variants of it (a dropped guard, a missing reset, a swapped order).
Nothing uses them except the test that each property can fail.

## 7. Not modelled, and what comes next

Not modelled: `setup.rs` and `config.rs` (one writer, no protocol), the wire formats,
signatures and uploads of the provider adapters (I/O and encoding; how a send can end
is a choice in `DeliveryWorkers`), routing tables and pages of `server.rs`, the cache of
signing credentials of the relay, Weixin's QR login, context tokens and sending, and
packaging.

Next:

1. The Feishu runtime, which answers before it processes, and Weixin's QR login and
   context tokens.
2. Composition: an inbox with `SessionTurns` and the delivery promise, so that a message
   handed in once is replied to at most once across a crash.
3. Proofs: with the composition, that it implements both promises; `HomesAreTold` with
   changed certificates, once a home whose pending proof is dropped is told to resume.
