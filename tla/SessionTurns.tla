---------------------------- MODULE SessionTurns ----------------------------
(***************************************************************************)
(* Conversation turns: handle_inbound and handle_gateway_turn of           *)
(* src/src/gateway.rs, the session files and the route registry they keep  *)
(* in src/src/store.rs, and the turn request and answer of                 *)
(* src/src/harborbeacon.rs.                                                *)
(*                                                                         *)
(* A turn reads the session, waits for HarborBeacon, and then makes three  *)
(* separate writes (metadata, route, history) before it plans the reply.   *)
(* Every store call takes the store's lock for itself only, nothing spans  *)
(* the wait, so turns of one chat interleave at every step below; each     *)
(* write can fail, after which the inbox or the caller takes the whole     *)
(* message again.                                                          *)
(*                                                                         *)
(* Ids that the code hashes (turn ids, route keys, session keys) are the   *)
(* tuples that are hashed.  Metadata that the gateway writes and never     *)
(* reads back (session_id, trace ids, message_turn_ids) is left out.       *)
(***************************************************************************)
EXTENDS Naturals, Sequences, FiniteSets, TLC

CONSTANTS
  Messages,   \* messages of the providers and turns of gateway clients
  Msg,        \* what each of them says: a record, see MessageType
  Workers,    \* inbox workers and HTTP requests that take turns
  Hubs,       \* Navi hubs a WhatsApp chat can be bound to
  MaxTurns,   \* max_turns of the store, 20
  MaxTakes,   \* bound: how often a message is taken, over all messages
  MaxHomes    \* bound: how often a chat is bound

(* via: the adapter path or POST /api/gateway/turns; id: the provider's    *)
(* message id or ""; raw: an id found in the raw payload only; route: the  *)
(* route key that came along or <<>>; turn: the turn id a client chose;    *)
(* navi: a text `NAVI ...'; dlna: a turn of the DLNA domain.               *)
MessageType == [via : {"inbound", "gateway"}, platform : STRING, chat : STRING,
                user : STRING, navi : BOOLEAN, dlna : BOOLEAN, id : STRING,
                raw : STRING, turn : STRING, route : Seq(STRING)]

ASSUME TurnsAssumption ==
  /\ Msg \in [Messages -> MessageType]
  /\ MaxTurns \in Nat \ {0} /\ MaxTurns % 2 = 0
  /\ MaxTakes \in Nat /\ MaxHomes \in Nat \ {0}

VARIABLES
  file,       \* the session files: metadata and turns
  routes,     \* _routes.json
  planned,    \* the reply planned for a turn (persist_delivery_plan)
  home,       \* the Navi selection of the WhatsApp chat
  paused,     \* a proof is under way
  beacon,     \* is a HarborBeacon configured?
  work,       \* what every worker is doing
  taken,      \* how often a message was taken; the clock of normalize_inbound
  answers     \* external: the answers HarborBeacon gave

turnsVars == <<file, routes, planned, home, paused, beacon, work, taken, answers>>

NoHome   == [hub |-> "none", gen |-> 0]
Local    == [hub |-> "local", gen |-> 0]
NoTurn   == <<>>
NoHandle == [home |-> NoHome, n |-> 0]
NoCont   == [home |-> NoHome, turn |-> NoTurn]
NoAnswer == [turn |-> NoTurn, chat |-> "", handle |-> NoHandle, cont |-> NoCont, seq |-> 0]
Idle     == [pc |-> "idle"]

(* load_payload: a session without a file is empty.                        *)
Empty == [meta |-> [route |-> <<>>, last |-> NoTurn, handle |-> NoHandle,
                    cont |-> NoCont],
          turns |-> <<>>]
Load(key) == IF key \in DOMAIN file THEN file[key] ELSE Empty

(* The store's maps: an entry is made or replaced.                         *)
Put(f, key, value) == [x \in DOMAIN f \cup {key} |-> IF x = key THEN value ELSE f[x]]

-----------------------------------------------------------------------------
(* gateway_turn_to_inbound fills in what a client left out.                *)
GatewayTurnToInbound(msg) ==
  [msg EXCEPT !.platform = IF @ = "" THEN "webui" ELSE @,
              !.chat = IF @ = "" THEN msg.user ELSE @,
              !.id = IF @ = "" THEN msg.turn ELSE @]

In(m) == IF Msg[m].via = "gateway" THEN GatewayTurnToInbound(Msg[m]) ELSE Msg[m]

(* The registry's entry for a route: the chat it leads to.                 *)
Chat(m) == [platform |-> In(m).platform, chat |-> In(m).chat]

(* reject_unbound_dlna_turn                                                *)
RejectUnboundDlnaTurn(m) == Msg[m].dlna

(* derive_route_key, and resolved_route_key of handle_inbound, which looks *)
(* at the session in between.                                              *)
DeriveRouteKey(m) ==
  IF Msg[m].route # <<>> THEN Msg[m].route ELSE <<In(m).platform, In(m).chat>>

ResolvedRouteKey(m, meta) ==
  IF Msg[m].via = "inbound" /\ Msg[m].route = <<>> /\ meta.route # <<>>
  THEN meta.route ELSE DeriveRouteKey(m)

(* event_fingerprint, from which turn_id is derived.  A message without    *)
(* any id is told apart by its content and the instant it was normalized.  *)
FingerprintByTime(m, now) ==                 \* mutant: always the instant
  <<In(m).platform, In(m).chat, In(m).id, now>>

EventFingerprint(m, now) ==
  LET msg == In(m) IN
  IF msg.platform = "whatsapp" /\ msg.id # ""
    THEN <<msg.platform>> \o DeriveRouteKey(m) \o <<msg.id, 0>>
  ELSE IF msg.id # "" THEN <<msg.platform, msg.chat, msg.id, 0>>
  ELSE IF msg.raw # "" THEN <<msg.platform, msg.chat, msg.raw, 0>>
  ELSE <<msg.platform, msg.chat, ToString(m), now>>

(* build_turn_request, and what apply_channel_turn_overrides changes in a  *)
(* client's turn: its own turn id wins.                                    *)
BuildTurnRequest(w) ==
  [turn |-> EventFingerprint(w.m, w.now), handle |-> w.meta.handle,
   cont |-> w.meta.cont, route |-> DeriveRouteKey(w.m)]

ApplyChannelTurnOverrides(m, request) ==
  IF Msg[m].turn = "" THEN request ELSE [request EXCEPT !.turn = <<Msg[m].turn>>]

TurnRequest(w) ==
  IF Msg[w.m].via = "gateway" THEN ApplyChannelTurnOverrides(w.m, BuildTurnRequest(w))
  ELSE BuildTurnRequest(w)

(* map_turn_response: the continuation is made from the frame's token and  *)
(* names the turn of the response; a response without a turn gets the      *)
(* request's id as its task_id.                                            *)
MapTurnResponse(request, response) ==
  [turn   |-> IF response.turn = NoTurn THEN request.turn ELSE response.turn,
   handle |-> response.handle, seq |-> response.seq, chat |-> response.chat,
   cont   |-> IF response.frame THEN [home |-> response.home, turn |-> response.turn]
              ELSE NoCont]

(* The metadata both handlers save: the route of the request, the answer's *)
(* handle if it has one, its continuation or none.                         *)
SavedKeepingCont(meta, request, answer) ==   \* mutant: no remove("continuation")
  [route |-> request.route, last |-> answer.turn,
   handle |-> IF answer.handle = NoHandle THEN meta.handle ELSE answer.handle,
   cont |-> IF answer.cont = NoCont THEN meta.cont ELSE answer.cont]

SavedMetadata(meta, request, answer) ==
  [route |-> request.route, last |-> answer.turn,
   handle |-> IF answer.handle = NoHandle THEN meta.handle ELSE answer.handle,
   cont |-> answer.cont]

(* Selection::session_key: history and continuation belong to the chat and *)
(* the home it was bound to.                                               *)
ChatSessionKey(m, sel) == <<In(m).platform, In(m).chat>>   \* mutant: no home

SessionKey(m, sel) ==
  IF sel = NoHome THEN <<In(m).platform, In(m).chat>>
  ELSE <<In(m).platform, In(m).chat, sel.hub, sel.gen>>

Target(sel) == IF sel = NoHome THEN Local ELSE sel

-----------------------------------------------------------------------------
(* The first part of handle_inbound: normalize, select, load.  Reads of    *)
(* the store that follow each other without a wait are one step: what is   *)
(* read last is the session, and its key is fixed by then.  Without a      *)
(* HarborBeacon the answer is made up at once (fallback_reply).            *)
Take == taken < MaxTakes /\ taken' = taken + 1

(* A WhatsApp number always belongs to a fleet here; without one the code  *)
(* treats WhatsApp like the other platforms.                               *)
Selectable(m) ==
  IF In(m).platform = "whatsapp" THEN home # NoHome /\ ~paused ELSE TRUE

Selected(m) == IF In(m).platform = "whatsapp" THEN home ELSE NoHome

Begun(m, sel, meta, turns, pc, answer) ==
  [pc |-> pc, m |-> m, now |-> taken, target |-> Target(sel),
   key |-> SessionKey(m, sel), meta |-> meta, turns |-> turns,
   route |-> ResolvedRouteKey(m, meta), answer |-> answer]

HandleInbound(p, m) ==
  LET sel == Selected(m)
      s   == Load(SessionKey(m, sel))
      r   == ResolvedRouteKey(m, s.meta)
      asks == sel # NoHome \/ beacon
  IN
  /\ work[p] = Idle /\ Msg[m].via = "inbound" /\ ~Msg[m].navi /\ Take
  /\ Selectable(m)
  /\ work' = [work EXCEPT ![p] =
       IF asks THEN Begun(m, sel, s.meta, s.turns, "asking", NoAnswer)
       ELSE Begun(m, sel, [s.meta EXCEPT !.route = r], s.turns, "saving", NoAnswer)]
  /\ UNCHANGED <<file, routes, planned, home, paused, beacon, answers>>

(* A WhatsApp text `NAVI ...' opens a proof and registers the route; the   *)
(* second write can fail.                                                  *)
HandleNaviText(m) ==
  /\ Msg[m].navi /\ Take
  /\ paused' = TRUE
  /\ \/ routes' = Put(routes, DeriveRouteKey(m), Chat(m))
     \/ UNCHANGED routes
  /\ UNCHANGED <<file, planned, home, beacon, work, answers>>

(* handle_gateway_turn up to the wait: it needs a HarborBeacon, leaves     *)
(* WhatsApp to the fleet, and prefers the handle and the continuation that *)
(* the client was given with an earlier answer.                            *)
GatewayTurnAllowed(m) ==
  beacon /\ In(m).platform # "whatsapp" /\ ~RejectUnboundDlnaTurn(m)

HandleGatewayTurn(p, m) ==
  LET s == Load(SessionKey(m, NoHome)) IN
  /\ work[p] = Idle /\ Msg[m].via = "gateway" /\ Take
  /\ GatewayTurnAllowed(m)
  /\ \E given \in {NoAnswer} \cup
         {MapTurnResponse([turn |-> NoTurn], answers[t]) :
            t \in {u \in DOMAIN answers : u[1] = Local /\ answers[u].chat = In(m).chat}} :
       LET meta == [s.meta EXCEPT
             !.handle = IF given.handle = NoHandle THEN @ ELSE given.handle,
             !.cont = IF given.cont = NoCont THEN @ ELSE given.cont]
       IN work' = [work EXCEPT ![p] =
                     Begun(m, NoHome, meta, s.turns, "asking", NoAnswer)]
  /\ UNCHANGED <<file, routes, planned, home, paused, beacon, answers>>

(* HarborBeacon (external): a turn it knows is answered as before          *)
(* (turn_id is its idempotency anchor), a new one continues the given      *)
(* conversation or opens one, and may end in a frame that wants a reply.   *)
(* Assumed of it: it sends the turn id back.  If it did not, the last turn *)
(* would get the request's id and the continuation an empty one            *)
(* (map_turn_response).                                                    *)
Response(w, frame) ==
  LET request == TurnRequest(w)
      id == <<w.target, request.turn>>
      n  == Cardinality(DOMAIN answers) + 1
  IN IF id \in DOMAIN answers THEN answers[id]
     ELSE [turn |-> request.turn, chat |-> In(w.m).chat, seq |-> n, frame |-> frame,
           home |-> w.target,
           handle |-> IF request.handle # NoHandle THEN request.handle
                      ELSE [home |-> w.target, n |-> n]]

(* submit_turn and submit_turn_payload, with post_json: an answer, or an   *)
(* error that ends the attempt, perhaps after HarborBeacon took the turn.  *)
SubmitTurn(p) ==
  LET w == work[p] IN
  /\ w.pc = "asking"
  /\ \E frame \in BOOLEAN :
       LET r == Response(w, frame)
           a == MapTurnResponse(TurnRequest(w), r)
           met == Put(answers, <<w.target, TurnRequest(w).turn>>, r)
       IN \/ /\ answers' = met
             /\ work' = [work EXCEPT ![p] = [w EXCEPT !.pc = "saving", !.answer = a,
                           !.meta = SavedMetadata(w.meta, TurnRequest(w), a)]]
          \/ answers' \in {answers, met} /\ work' = [work EXCEPT ![p] = Idle]
  /\ UNCHANGED <<file, routes, planned, home, paused, beacon, taken>>

-----------------------------------------------------------------------------
(* The writes after the wait, in this order; each reads the file again     *)
(* under the lock and replaces its own part.                               *)
NextWrite(pc) ==
  CASE pc = "saving" -> "routing" [] pc = "routing" -> "appending"
    [] pc = "appending" -> "replying"

Write(p, pc) == work[p].pc = pc /\ work' = [work EXCEPT ![p].pc = NextWrite(pc)]

SetMetadataWhole(w) ==                       \* mutant: writes back what it read
  [meta |-> w.meta, turns |-> w.turns]

SetMetadata(w) == [meta |-> w.meta, turns |-> Load(w.key).turns]

SaveSession(p) ==
  LET w == work[p] IN
  /\ Write(p, "saving")
  /\ file' = Put(file, w.key, SetMetadata(w))
  /\ UNCHANGED <<routes, planned, home, paused, beacon, taken, answers>>

RegisterRoute(p) ==
  LET w == work[p] IN
  /\ Write(p, "routing")
  /\ routes' = Put(routes, w.route, Chat(w.m))
  /\ UNCHANGED <<file, planned, home, paused, beacon, taken, answers>>

LastTurns(turns) ==
  IF MaxTurns > 0 /\ Len(turns) > MaxTurns
  THEN SubSeq(turns, Len(turns) - MaxTurns + 1, Len(turns)) ELSE turns

Pair(m) == <<[role |-> "user", m |-> m], [role |-> "assistant", m |-> m]>>

AppendTurns(p) ==
  LET w == work[p] IN
  /\ Write(p, "appending")
  /\ file' = Put(file, w.key, [Load(w.key) EXCEPT !.turns = LastTurns(@ \o Pair(w.m))])
  /\ UNCHANGED <<routes, planned, home, paused, beacon, taken, answers>>

(* The end of a turn.  An adapter's reply is planned under the turn id: a  *)
(* turn that was planned with another answer is a conflict, an answer that *)
(* HarborBeacon did not give has no turn id and is sent without a plan. A  *)
(* client's turn returns the answer to the client.                         *)
Reply(p) ==
  LET w == work[p]
      t == w.answer.turn
  IN
  /\ w.pc = "replying"
  /\ work' = [work EXCEPT ![p] = Idle]
  /\ planned' = IF Msg[w.m].via = "inbound" /\ t # NoTurn /\ t \notin DOMAIN planned
                THEN Put(planned, t, [m |-> w.m, seq |-> w.answer.seq, route |-> w.route])
                ELSE planned
  /\ UNCHANGED <<file, routes, home, paused, beacon, taken, answers>>

(* A write fails, or the process stops: the attempt ends where it is.      *)
Fail(p) ==
  /\ work[p].pc \in {"saving", "routing", "appending", "replying"}
  /\ work' = [work EXCEPT ![p] = Idle]
  /\ UNCHANGED <<file, routes, planned, home, paused, beacon, taken, answers>>

(* The fleet (NaviFleet) ends the pause with a new selection or the old.   *)
EndProof ==
  /\ paused /\ paused' = FALSE
  /\ \/ /\ home.gen < MaxHomes
        /\ \E h \in Hubs : home' = [hub |-> h, gen |-> home.gen + 1]
     \/ UNCHANGED home
  /\ UNCHANGED <<file, routes, planned, beacon, work, taken, answers>>

-----------------------------------------------------------------------------
TurnsInit ==
  /\ file = <<>> /\ routes = <<>> /\ planned = <<>> /\ answers = <<>>
  /\ home \in {NoHome} \cup {[hub |-> h, gen |-> 1] : h \in Hubs}
  /\ paused = FALSE /\ beacon \in BOOLEAN
  /\ work = [p \in Workers |-> Idle]
  /\ taken = 0

TurnsNext ==
  \/ EndProof
  \/ \E m \in Messages : HandleNaviText(m)
  \/ \E p \in Workers :
       \/ \E m \in Messages : HandleInbound(p, m) \/ HandleGatewayTurn(p, m)
       \/ SubmitTurn(p) \/ SaveSession(p) \/ RegisterRoute(p) \/ AppendTurns(p)
       \/ Reply(p) \/ Fail(p)

TurnsSpec == TurnsInit /\ [][TurnsNext]_turnsVars

-----------------------------------------------------------------------------
(* The shape of the store's files and of a turn under way.                 *)
TurnsTypeOK ==
  /\ \A k \in DOMAIN file : /\ DOMAIN file[k].meta = DOMAIN Empty.meta
                            /\ Len(file[k].turns) <= MaxTurns
  /\ \A r \in DOMAIN routes : routes[r].chat \in {In(m).chat : m \in Messages}
  /\ \A p \in Workers :
       work[p].pc \in {"idle", "asking", "saving", "routing", "appending", "replying"}
  /\ home.gen <= MaxHomes /\ taken <= MaxTakes

(* A home never receives the handle or the continuation of a conversation  *)
(* that another home, or an earlier binding of the chat, opened, although  *)
(* the selection may change while a turn waits (session_key, and the       *)
(* refusal of WhatsApp turns in handle_gateway_turn).                      *)
ConversationsStayHome ==
  \A p \in Workers : work[p].pc = "asking" =>
    /\ work[p].meta.handle.home \in {NoHome, work[p].target}
    /\ work[p].meta.cont.home \in {NoHome, work[p].target}

(* The continuation in a session always answers the turn recorded as the   *)
(* session's last one, however turns of the chat overlap.                  *)
ContinuationAnswersLastTurn ==
  \A k \in DOMAIN file :
    file[k].meta.cont # NoCont => file[k].meta.cont.turn = file[k].meta.last

(* Copies and retries of a message lead to one planned reply, and no two   *)
(* messages share one (event_fingerprint, persist_delivery_plan).          *)
OneReplyPerMessage ==
  \A t, u \in DOMAIN planned : planned[t].m = planned[u].m <=> t = u

(* The route a planned reply names leads back to the chat it answers, so   *)
(* the recovery loop and later notifications can use it.                   *)
ReplyHasRoute ==
  \A t \in DOMAIN planned :
    LET r == planned[t].route IN
    r \in DOMAIN routes /\ routes[r].chat = In(planned[t].m).chat

(* A message is replied to once, into the chat it came from, over a route  *)
(* that notifications find afterwards.                                     *)
RepliesAreSound == OneReplyPerMessage /\ ReplyHasRoute

(* What the store keeps of a conversation is whole exchanges: a question   *)
(* and its answer, whatever was cut off at the front.                      *)
HistoryKeepsPairs ==
  \A k \in DOMAIN file :
    LET h == file[k].turns IN
    /\ Len(h) % 2 = 0
    /\ \A i \in 1 .. Len(h) \div 2 : SubSeq(h, 2 * i - 1, 2 * i) = Pair(h[2 * i].m)

(* No step loses an exchange that is recent enough to be kept: a history   *)
(* changes only by one more pair at its end.                               *)
HistoryOnlyGrows ==
  [][\A k \in DOMAIN file :
       file'[k].turns = file[k].turns
       \/ \E m \in Messages : file'[k].turns = LastTurns(file[k].turns \o Pair(m))]_turnsVars

(* The two together: overlapping turns neither tear nor lose an exchange.  *)
HistoryIsKept == [](TurnsTypeOK /\ HistoryKeepsPairs) /\ HistoryOnlyGrows
=============================================================================
