------------------------------ MODULE ReplyPlan ------------------------------
(***************************************************************************)
(* What is sent: how src/src/gateway.rs turns an answer of HarborBeacon,   *)
(* or a notification, into the items of a delivery plan.  The pure         *)
(* functions are operators; the two actions apply them the way             *)
(* handle_inbound and handle_notification_delivery do, the latter with the *)
(* idempotency record and the plan it finds in the store.  What happens to *)
(* the items afterwards is in DeliveryWorkers.                             *)
(*                                                                         *)
(* An artifact is [id, kind, mime, at]: its artifact_id or "", its kind,   *)
(* the family of its MIME type, and where it can be read.  Texts are kept  *)
(* as present or absent.                                                   *)
(***************************************************************************)
EXTENDS Naturals, Sequences, FiniteSets

CONSTANTS
  Answers,      \* the answers of turns that are tried: see TurnReply
  Notices,      \* the notifications that are tried: see NotificationDelivery
  RouteChoices, \* what the route registry can say of a route key
  Enabled,      \* the adapters that are configured
  Fleet         \* is a Navi fleet configured?

(* What a JSON value of the answer or the request is read as.  The id of   *)
(* an artifact stands for both readings of it: hint_artifact_id, which     *)
(* hints are matched with, and delivery_artifact_id, which names the item  *)
(* and also takes a blob_id or an id.                                      *)
Artifact == [id : STRING, kind : STRING, mime : STRING, at : STRING, fallback : BOOLEAN]
Hint     == [kind : STRING, id : STRING, fallback : STRING, max : Nat]
JsonList == [has : BOOLEAN, items : Seq(Artifact)]

ASSUME PlanInputs ==
  /\ \A a \in Answers : a.lists \in Seq(JsonList) /\ a.hints \in Seq(Hint)
  /\ \A n \in Notices : n.artifacts \in JsonList /\ n.content \in JsonList
                       /\ n.hints \in Seq(Hint)

VARIABLES
  route,        \* the registry's entry for the route key
  plan,         \* the persisted plan of the idempotency key, or NoPlan
  record,       \* the saved response of the key, or NoRecord
  last          \* what the last call came to

planVars == <<route, plan, record, last>>

NoPlan   == [set |-> FALSE]
NoRecord == [set |-> FALSE]
Absent   == [has |-> FALSE, items |-> <<>>]      \* a JSON list that is not there

-----------------------------------------------------------------------------
(* filter().collect(): the elements of s at the positions I, in their      *)
(* order.  The k-th of them is at the one position with k positions of I   *)
(* up to it, which needs no recursion over s.                              *)
Rank(I, i) == Cardinality({j \in I : j <= i})
At(I, k)   == CHOOSE i \in I : Rank(I, i) = k
Kept(s, I) == [k \in 1 .. Cardinality(I) |-> s[At(I, k)]]

(* artifact_candidates: the first of the four lists that is there.         *)
ArtifactCandidates(lists) ==
  LET there == Kept(lists, {i \in DOMAIN lists : lists[i].has})
  IN IF there = <<>> THEN <<>> ELSE Head(there).items

HasLocation(a) == a.at # "none"                  \* artifact_media_location

(* native_image_limit: 0 when no hint asks for images; otherwise the first *)
(* such hint's number, held between 1 and 3.                               *)
NativeImageLimit(hints) ==
  LET asks == Kept(hints, {i \in DOMAIN hints : hints[i].kind = "native_image"})
      Clamp(n) == IF n < 1 THEN 1 ELSE IF n > 3 THEN 3 ELSE n
  IN IF asks = <<>> THEN 0 ELSE Clamp(Head(asks).max)

FirstOf(s, n) == SubSeq(s, 1, IF n < Len(s) THEN n ELSE Len(s))

(* hinted_native_videos: for every well-formed hint the artifact with just *)
(* that artifact_id, once, marked so that it may fall back to a file.      *)
HintedNativeVideos(artifacts, hints) ==
  LET good == Kept(hints, {i \in DOMAIN hints : hints[i].kind = "native_video"
                             /\ hints[i].fallback = "file" /\ hints[i].id # ""})
      Found(id) == Kept(artifacts, {i \in DOMAIN artifacts : artifacts[i].id = id})
      Fits(id) == Found(id) # <<>> /\ Head(Found(id)).mime = "video"
                  /\ HasLocation(Head(Found(id)))
      once == Kept(good, {i \in DOMAIN good : Fits(good[i].id)
                            /\ \A j \in 1 .. i - 1 : good[j].id # good[i].id})
  IN [i \in DOMAIN once |-> [Head(Found(once[i].id)) EXCEPT !.fallback = TRUE]]

(* native_source_bound_attachments and weixin_native_attachments           *)
WeixinNativeAttachments(artifacts, hints) ==
  LET IsMedia(a) == HasLocation(a)
                    /\ (a.kind \in {"image", "video", "file"} \/ a.mime \in {"image", "video"})
      media  == Kept(artifacts, {i \in DOMAIN artifacts : IsMedia(artifacts[i])})
      images == Kept(media, {i \in DOMAIN media : media[i].kind = "image"
                                                  \/ media[i].mime = "image"})
      limit  == NativeImageLimit(hints)
      chosen == IF limit > 0 THEN FirstOf(images, limit)
                ELSE IF Len(images) = 1 /\ Len(media) = 1 THEN images ELSE <<>>
  IN IF media = <<>> THEN <<>> ELSE chosen \o HintedNativeVideos(artifacts, hints)

NativeAttachments(adapter, artifacts, hints) ==
  LET IsPicture(a) == a.kind = "image" /\ a.mime = "image" /\ HasLocation(a)
      images == Kept(artifacts, {i \in DOMAIN artifacts : IsPicture(artifacts[i])})
      limit == NativeImageLimit(hints)
  IN CASE adapter \notin {"feishu", "weixin", "whatsapp"} -> <<>>
       [] adapter = "weixin" -> WeixinNativeAttachments(artifacts, hints)
       [] OTHER -> IF limit > 0 THEN FirstOf(images, limit)
                   ELSE IF Len(images) = 1 THEN images ELSE <<>>

(* hinted_notification_attachments: the same choice for every platform,    *)
(* videos first.                                                           *)
HintedNotificationAttachments(artifacts, hints) ==
  LET images == Kept(artifacts, {i \in DOMAIN artifacts : artifacts[i].mime = "image"
                                                          /\ HasLocation(artifacts[i])})
  IN HintedNativeVideos(artifacts, hints) \o FirstOf(images, NativeImageLimit(hints))

(* render_retrieval_reply: artifacts are listed, three at most, unless     *)
(* some are sent natively.                                                 *)
RenderRetrievalReply(text, citations, artifacts, suppress) ==
  [said |-> text, cited |-> IF citations < 3 THEN citations ELSE 3,
   listed |-> IF suppress THEN <<>> ELSE FirstOf(artifacts, 3)]

HasText(reply) == reply.said \/ reply.cited > 0 \/ reply.listed # <<>>

(* split_outbound_items: the text first, then one item per attachment that *)
(* has an id; a duplicate id refuses the whole plan.                       *)
TextItem(attachments) ==
  [identity |-> <<"text">>, text |-> TRUE, attachments |-> attachments]

ItemOf(a) ==
  [identity |-> <<"artifact", a.id>>, text |-> FALSE, attachments |-> <<a>>]

SplitUnchecked(text, attachments) ==             \* mutant: duplicates pass
  LET named == Kept(attachments, {i \in DOMAIN attachments : attachments[i].id # ""})
      items == (IF text THEN <<TextItem(<<>>)>> ELSE <<>>)
               \o [i \in DOMAIN named |-> ItemOf(named[i])]
  IN [ok |-> TRUE, items |-> IF items = <<>> THEN <<TextItem(attachments)>> ELSE items]

SplitOutboundItems(text, attachments) ==
  LET named == Kept(attachments, {i \in DOMAIN attachments : attachments[i].id # ""})
      items == (IF text THEN <<TextItem(<<>>)>> ELSE <<>>)
               \o [i \in DOMAIN named |-> ItemOf(named[i])]
      twice == \E i, j \in DOMAIN named : i # j /\ named[i].id = named[j].id
  IN IF twice THEN [ok |-> FALSE, items |-> <<>>]
     ELSE [ok |-> TRUE, items |-> IF items = <<>> THEN <<TextItem(attachments)>> ELSE items]

(* native_video_file_fallback of an item: none, or the item as a file.     *)
NativeVideoFileFallback(item) ==
  IF /\ Len(item.attachments) = 1 /\ item.attachments[1].fallback
     /\ item.attachments[1].kind = "video" \/ item.attachments[1].mime = "video"
  THEN {[item EXCEPT !.attachments[1].kind = "file", !.attachments[1].mime = "other"]}
  ELSE {}

-----------------------------------------------------------------------------
(* The end of handle_inbound: the reply to a turn.  It depends on nothing  *)
(* but the answer, so it is tried before any notification only.            *)
Suppresses(chosen, artifacts) == chosen # <<>>

TurnReply(a) ==
  LET artifacts == ArtifactCandidates(a.lists)
      chosen == NativeAttachments(a.adapter, artifacts, a.hints)
      reply == RenderRetrievalReply(a.text, a.citations, artifacts,
                                    Suppresses(chosen, artifacts))
      split == SplitOutboundItems(HasText(reply), chosen)
  IN /\ last.call = "none" /\ ~plan.set
     /\ last' = [call |-> "turn", adapter |-> a.adapter, artifacts |-> artifacts,
                 reply |-> reply, ok |-> split.ok, items |-> split.items]
     /\ UNCHANGED <<route, plan, record>>

-----------------------------------------------------------------------------
(* validate_delivery_mode                                                  *)
ValidMode(n) ==
  CASE n.mode = "send"   -> ~n.replyTo /\ ~n.update
    [] n.mode = "reply"  -> n.replyTo /\ ~n.update
    [] n.mode = "update" -> n.update /\ ~n.replyTo
    [] OTHER -> FALSE

(* resolve_notification_route: by route key, or a platform and a recipient *)
ResolveNotificationRoute(n) ==
  IF n.routeKey THEN route
  ELSE IF n.platform = "" \/ n.chat = "" THEN [status |-> "missing"]
  ELSE [status |-> "active", platform |-> n.platform, chat |-> n.chat,
        adapter |-> n.platform]

(* delivery_content: the artifacts and hints beside the content win over   *)
(* the ones inside it.                                                     *)
DeliveryContent(n) ==
  [text |-> n.text,
   artifacts |-> IF n.artifacts.has THEN n.artifacts.items ELSE n.content.items,
   hints |-> n.hints]

(* The effective request, whose digest guards the idempotency key.         *)
EffectiveWithoutHandle(n, r) ==                  \* mutant: no conversation
  [id |-> n.id, routeKey |-> n.routeKey, platform |-> r.platform, chat |-> r.chat,
   content |-> DeliveryContent(n), mode |-> <<n.mode, n.replyTo, n.update>>,
   handle |-> "", selection |-> n.selection]

EffectiveRequest(n, r) ==
  [id |-> n.id, routeKey |-> n.routeKey, platform |-> r.platform, chat |-> r.chat,
   content |-> DeliveryContent(n), mode |-> <<n.mode, n.replyTo, n.update>>,
   handle |-> IF r.platform = "whatsapp" THEN n.handle ELSE "",
   selection |-> n.selection]

(* The outbound message, with outbound_delivery_metadata.                  *)
Outbound(n, r) ==
  LET c == DeliveryContent(n) IN
  [platform |-> r.platform, chat |-> r.chat, text |-> c.text,
   attachments |-> HintedNotificationAttachments(c.artifacts, c.hints),
   id |-> n.id, routeKey |-> n.routeKey, mode |-> <<n.mode, n.replyTo, n.update>>,
   handle |-> IF r.platform = "whatsapp" THEN n.handle ELSE "",
   selection |-> n.selection]

NeedsItsDevice(n, r) == r.platform = "whatsapp" /\ Fleet /\ ~n.selection

Refused(n, why) ==
  /\ last' = [call |-> "refused", why |-> why]
  /\ UNCHANGED <<plan, record>>

(* handle_notification_delivery_from, in the order of its checks: request, *)
(* route, adapter, fleet, idempotency record, plan.  Sending (`sent') is   *)
(* the business of DeliveryWorkers; a success is recorded.                 *)
NotificationDelivery(n) ==
  LET r == ResolveNotificationRoute(n)
      f == EffectiveRequest(n, r)
      out == Outbound(n, r)
      split == SplitOutboundItems(out.text, out.attachments)
  IN
  /\ UNCHANGED route
  /\ IF n.id = "" \/ ~ValidMode(n) \/ n.key = "" THEN Refused(n, "invalid")
     ELSE IF r.status # "active" THEN Refused(n, r.status)
     ELSE IF r.adapter \notin Enabled THEN Refused(n, "no_adapter")
     ELSE IF NeedsItsDevice(n, r) THEN Refused(n, "device_required")
     ELSE IF record.set /\ record.fingerprint # f THEN Refused(n, "conflict")
     ELSE IF record.set
       THEN /\ last' = [call |-> "replayed", out |-> out]
            /\ UNCHANGED <<plan, record>>
     ELSE IF ~split.ok THEN Refused(n, "duplicate")
     ELSE IF plan.set /\ plan.fingerprint # f THEN Refused(n, "conflict")
     ELSE /\ plan' = IF ~plan.set
                     THEN [set |-> TRUE, fingerprint |-> f, outbound |-> out, items |-> split.items]
                     ELSE plan
          /\ \E sent \in BOOLEAN :
               record' = IF sent THEN [set |-> TRUE, fingerprint |-> f] ELSE record
          /\ last' = [call |-> "planned", out |-> out, adapter |-> r.adapter,
                      items |-> split.items, selection |-> n.selection]

(* A turn of the chat registers the route, or it is marked expired.        *)
RouteChanges ==
  /\ route' \in RouteChoices /\ last' = [call |-> "none"]
  /\ UNCHANGED <<plan, record>>

-----------------------------------------------------------------------------
PlanInit ==
  /\ route \in RouteChoices /\ plan = NoPlan /\ record = NoRecord
  /\ last = [call |-> "none"]

PlanNext ==
  \/ RouteChanges
  \/ \E a \in Answers : TurnReply(a)
  \/ \E n \in Notices : NotificationDelivery(n)

PlanSpec == PlanInit /\ [][PlanNext]_planVars

-----------------------------------------------------------------------------
Planned == last.call \in {"turn", "planned"}

(* The items of a plan have different identities, from which the ledger's  *)
(* keys are made, so that no item's progress is taken for another's; there *)
(* is at least one, and only the first is a text (split_outbound_items).   *)
ItemsAreDistinct ==
  Planned /\ (last.call = "turn" => last.ok) =>
    /\ last.items # <<>>
    /\ \A i, j \in DOMAIN last.items :
         i # j => last.items[i].identity # last.items[j].identity
    /\ \A i \in DOMAIN last.items : last.items[i].text => i = 1

(* A message never floods the chat: beside the videos that were asked for  *)
(* it sends three attachments at most, however they are spread over the    *)
(* items; a reply sends only pictures on channels that take nothing else,  *)
(* and nothing on a channel without media (native_source_bound_attachments *)
(* and hinted_notification_attachments).                                   *)
AttachmentsFitTheChannel ==
  LET Places == UNION {{<<i, j>> : j \in DOMAIN last.items[i].attachments} :
                         i \in DOMAIN last.items}
      Shown(p) == last.items[p[1]].attachments[p[2]]
  IN /\ Planned => Cardinality({p \in Places : Shown(p).mime # "video"}) <= 3
     /\ last.call = "turn" /\ last.adapter # "weixin" =>
          \A p \in Places : last.adapter \in {"whatsapp", "feishu"}
                           /\ Shown(p).mime = "image"

(* A video that is sent as a file instead keeps the item's identity, and   *)
(* the file has no further fallback, so an item ends after two stages.     *)
FallbackEndsThere ==
  Planned => \A i \in DOMAIN last.items :
    \A f \in NativeVideoFileFallback(last.items[i]) :
      f.identity = last.items[i].identity /\ NativeVideoFileFallback(f) = {}

(* Only attachments that are really planned silence the list of artifacts  *)
(* in the text (render_retrieval_reply): a reply without any names the     *)
(* first three artifacts of the answer, in their order.  It does not say   *)
(* that every artifact is shown: a picture that is attached silences the   *)
(* list for the artifacts that are not.                                    *)
ListGivesWayOnlyToAttachments ==
  /\ last.call = "turn" /\ last.ok
  /\ \A k \in DOMAIN last.artifacts : last.artifacts[k].id # ""
  /\ \A i \in DOMAIN last.items : last.items[i].attachments = <<>>
  => last.reply.listed = FirstOf(last.artifacts, 3)

(* Whatever rule chooses it, an attachment is an artifact of the answer.   *)
AttachmentsAreOfTheAnswer ==
  last.call = "turn" /\ last.ok =>
    \A i \in DOMAIN last.items : \A j \in DOMAIN last.items[i].attachments :
      \E k \in DOMAIN last.artifacts :
        last.items[i].attachments[j].id = last.artifacts[k].id

(* A reply is refused for a repeated artifact only when the answer repeats *)
(* one, never because two rules chose the same artifact or a hint came     *)
(* twice; with one exception: Weixin chooses an artifact that is called an *)
(* image but has the type of a video by both rules.                        *)
RefusalsAreFounded ==
  last.call = "turn" /\ ~last.ok =>
    \/ \E i, j \in DOMAIN last.artifacts :
         i # j /\ last.artifacts[i].id = last.artifacts[j].id
    \/ /\ last.adapter = "weixin"
       /\ \E i \in DOMAIN last.artifacts :
            last.artifacts[i].kind = "image" /\ last.artifacts[i].mime = "video"

(* The plan of a reply can be carried out and keeps to the answer: its     *)
(* items have keys of their own, media the channel takes and the answer    *)
(* names, a list where nothing is attached, and no answer is turned down   *)
(* without a reason.                                                       *)
PlanIsFit ==
  /\ ItemsAreDistinct /\ AttachmentsFitTheChannel /\ FallbackEndsThere
  /\ ListGivesWayOnlyToAttachments /\ AttachmentsAreOfTheAnswer /\ RefusalsAreFounded

(* Whatever is accepted under an idempotency key that has a plan would     *)
(* send exactly what that plan sends, also after the route was registered  *)
(* anew: all the plan is made of is in the fingerprint.                    *)
SameKeySamePlan ==
  last.call \in {"planned", "replayed"} => last.out = plan.outbound

(* With a fleet, no notification reaches a WhatsApp chat but through the   *)
(* device it comes from, however the recipient is given.                   *)
FleetIsNotBypassed ==
  last.call = "planned" /\ last.out.platform = "whatsapp" /\ Fleet => last.selection

(* A repeated notification never sends something else under its old key,   *)
(* and none goes around the device that holds the WhatsApp number.         *)
NotificationsAreSafe == SameKeySamePlan /\ FleetIsNotBypassed
=============================================================================
