---------------------------- MODULE TurnsProofs ----------------------------
(***************************************************************************)
(* Overlapping turns keep conversations apart: ConversationsStayHome,      *)
(* ContinuationAnswersLastTurn, HistoryIsKept and RepliesAreSound hold for *)
(* all workers, hubs and bounds, and all messages that are what each       *)
(* theorem says.  The last parts are about ReplyPlan: NotificationsAreSafe *)
(* and PlanIsFit.                                                          *)
(*                                                                         *)
(* None of them is inductive.  What a worker sends comes from a session    *)
(* file, whose contents come from the answers another worker was given, so *)
(* TurnsInv follows a handle and a continuation through all three: the     *)
(* home of a session is written in its key, the home of an answer is the   *)
(* one that was asked.  RecordsInv follows a route in the same way, from   *)
(* the message it was derived from through session, turn and registry to   *)
(* the plan.                                                               *)
(***************************************************************************)
EXTENDS SessionTurns, ReplyPlan, FiniteSetTheorems, SequenceTheorems, TLAPS

-----------------------------------------------------------------------------
(* Types.                                                                  *)
Homes     == [hub : Hubs \cup {"none", "local"}, gen : Nat]
TurnIds   == {NoTurn} \cup {EventFingerprint(m, n) : m \in Messages, n \in Nat}
               \cup {<<Msg[m].turn>> : m \in Messages}
RouteKeys == {<<>>} \cup {DeriveRouteKey(m) : m \in Messages}
Keys      == {SessionKey(m, sel) : m \in Messages, sel \in Homes}
Chats     == {""} \cup {In(m).chat : m \in Messages}
Handle    == [home : Homes, n : Nat]
Cont      == [home : Homes, turn : TurnIds]
Meta      == [route : RouteKeys, last : TurnIds, handle : Handle, cont : Cont]
Turns     == Seq([role : {"user", "assistant"}, m : Messages])
Session   == [meta : Meta, turns : Turns]
Answer    == [turn : TurnIds, chat : Chats, handle : Handle, cont : Cont, seq : Nat]
Given     == [turn : TurnIds, chat : Chats, seq : Nat, frame : BOOLEAN,
              home : Homes, handle : Handle]
Request   == [turn : TurnIds, handle : Handle, cont : Cont, route : RouteKeys]
Writing   == {"saving", "routing", "appending", "replying"}
Work      == [pc : {"asking"} \cup Writing, m : Messages, now : Nat, target : Homes,
              key : Keys, meta : Meta, turns : Turns, route : RouteKeys, answer : Answer]

(* The inductive invariant, by the place where a conversation is kept.     *)
KeyHome(key) == IF Len(key) = 2 THEN Local ELSE [hub |-> key[3], gen |-> key[4]]

OfHome(meta, h) ==
  meta.handle.home \in {NoHome, h} /\ meta.cont.home \in {NoHome, h}

LastFits(meta) == meta.cont # NoCont => meta.cont.turn = meta.last

GoodSession(key, s) ==
  s \in Session /\ OfHome(s.meta, KeyHome(key)) /\ LastFits(s.meta)

GoodAnswer(id, r) ==
  /\ r \in Given /\ r.handle.home \in {NoHome, id[1]}
  /\ r.home = id[1] /\ r.turn = id[2]

GoodWork(w) ==
  /\ w \in Work
  /\ w.target = KeyHome(w.key)
  /\ OfHome(w.meta, w.target)
  /\ w.pc # "asking" => LastFits(w.meta)

FileInv    == \A k \in DOMAIN file : GoodSession(k, file[k])
AnswersInv == IsFiniteSet(DOMAIN answers) /\ \A id \in DOMAIN answers : GoodAnswer(id, answers[id])
WorkInv    == DOMAIN work = Workers /\ \A p \in Workers : work[p] = Idle \/ GoodWork(work[p])
TurnsInv   == FileInv /\ AnswersInv /\ WorkInv /\ home \in Homes /\ taken \in Nat

-----------------------------------------------------------------------------
(* The values that stand for `nothing' are well formed.                    *)
LEMMA Nothing ==
  /\ NoHome \in Homes /\ Local \in Homes /\ NoHandle \in Handle /\ NoCont \in Cont
  /\ NoTurn \in TurnIds /\ NoAnswer \in Answer
<1>1. NoHome \in Homes /\ Local \in Homes  BY DEF NoHome, Local, Homes
<1>2. NoTurn \in TurnIds  BY DEF TurnIds
<1>3. NoHandle \in Handle  BY <1>1 DEF NoHandle, Handle
<1>4. NoCont \in Cont  BY <1>1, <1>2 DEF NoCont, Cont
<1>5. "" \in Chats  BY DEF Chats
<1>6. NoAnswer \in Answer  BY <1>2, <1>3, <1>4, <1>5 DEF NoAnswer, Answer
<1>7. QED BY <1>1, <1>2, <1>3, <1>4, <1>6

(* load_payload: a missing session is empty, and an empty one is good.     *)
LEMMA LoadGood ==
  ASSUME FileInv, NEW key
  PROVE  GoodSession(key, Load(key))
<1>1. CASE key \in DOMAIN file  BY <1>1 DEF FileInv, Load
<1>2. CASE key \notin DOMAIN file
  <2>1. <<>> \in RouteKeys /\ <<>> \in Turns  BY DEF RouteKeys, Turns
  <2>2. Empty.meta \in Meta  BY <2>1, Nothing DEF Empty, Meta
  <2>3. Empty \in Session  BY <2>1, <2>2 DEF Empty, Session
  <2>4. Empty.meta.handle = NoHandle /\ Empty.meta.cont = NoCont  BY DEF Empty
  <2>5. NoHandle.home = NoHome /\ NoCont.home = NoHome  BY DEF NoHandle, NoCont
  <2>6. QED BY <1>2, <2>3, <2>4, <2>5 DEF GoodSession, OfHome, LastFits, Load
<1>3. QED BY <1>1, <1>2

(* session_key: the key of a session names the home that is asked.         *)
LEMMA KeyNamesHome ==
  ASSUME NEW m \in Messages, NEW sel \in Homes
  PROVE  /\ SessionKey(m, sel) \in Keys
         /\ KeyHome(SessionKey(m, sel)) = Target(sel)
         /\ Target(sel) \in Homes
<1>1. SessionKey(m, sel) \in Keys  BY DEF Keys
<1>2. CASE sel = NoHome  BY <1>1, <1>2, Nothing DEF SessionKey, KeyHome, Target
<1>3. CASE sel # NoHome
  <2>1. SessionKey(m, sel) = <<In(m).platform, In(m).chat, sel.hub, sel.gen>>
    BY <1>3 DEF SessionKey
  <2>2. KeyHome(SessionKey(m, sel)) = [hub |-> sel.hub, gen |-> sel.gen]
    BY <2>1 DEF KeyHome
  <2>3. sel = [hub |-> sel.hub, gen |-> sel.gen]  BY DEF Homes
  <2>4. QED BY <1>1, <1>3, <2>2, <2>3 DEF Target
<1>4. QED BY <1>2, <1>3

(* A turn begins well if what it took from the session did.                *)
LEMMA BegunGood ==
  ASSUME NEW m \in Messages, NEW sel \in Homes, NEW meta \in Meta, NEW turns \in Turns,
         NEW pc \in {"asking", "saving"}, taken \in Nat,
         OfHome(meta, Target(sel)), pc = "saving" => LastFits(meta)
  PROVE  GoodWork(Begun(m, sel, meta, turns, pc, NoAnswer))
<1> DEFINE w == Begun(m, sel, meta, turns, pc, NoAnswer)
<1>1. ResolvedRouteKey(m, meta) \in RouteKeys
  BY DEF ResolvedRouteKey, RouteKeys, Meta
<1>2. w \in Work
  BY <1>1, KeyNamesHome, Nothing DEF Begun, Work, Writing
<1>3. w.key = SessionKey(m, sel) /\ w.target = Target(sel) /\ w.meta = meta /\ w.pc = pc
  BY DEF Begun
<1> HIDE DEF w
<1>4. GoodWork(w)  BY <1>2, <1>3, KeyNamesHome DEF GoodWork
<1>5. QED BY <1>4 DEF w

(* A step that gives one worker good work, and leaves files and answers    *)
(* alone, keeps the invariant of the workers.                              *)
LEMMA OneWorker ==
  ASSUME WorkInv, NEW p \in Workers, NEW w, w = Idle \/ GoodWork(w),
         work' = [work EXCEPT ![p] = w]
  PROVE  WorkInv'
<1>1. DOMAIN work' = Workers /\ work'[p] = w  BY DEF WorkInv
<1>2. \A q \in Workers : q # p => work'[q] = work[q]  BY DEF WorkInv
<1>3. \A q \in Workers : work'[q] = Idle \/ GoodWork(work'[q])
  BY <1>1, <1>2 DEF WorkInv
<1>4. QED BY <1>1, <1>3 DEF WorkInv

(* A write moves the worker on; its work stays good.                       *)
LEMMA WriteKeeps ==
  ASSUME WorkInv, NEW p \in Workers, NEW pc \in {"saving", "routing", "appending"}, Write(p, pc)
  PROVE  WorkInv' /\ GoodWork(work[p]) /\ work[p].pc # "asking"
<1>1. work[p] # Idle  BY DEF Write, Idle
<1>2. GoodWork(work[p])  BY <1>1 DEF WorkInv
<1>3. NextWrite(pc) \in Writing  BY DEF NextWrite, Writing
<1> DEFINE w == [work[p] EXCEPT !.pc = NextWrite(pc)]
<1>4. w \in Work  BY <1>2, <1>3 DEF GoodWork, Work
<1>5. /\ w.target = work[p].target /\ w.key = work[p].key /\ w.meta = work[p].meta
  BY <1>2 DEF GoodWork, Work
<1>6. work[p].pc = pc  BY DEF Write
<1>7. work' = [work EXCEPT ![p] = w]  BY DEF Write
<1> HIDE DEF w
<1>8. GoodWork(w)  BY <1>2, <1>4, <1>5, <1>6 DEF GoodWork
<1>9. WorkInv'  BY <1>7, <1>8, OneWorker
<1>10. QED BY <1>2, <1>6, <1>9

(* A session replaced by a good one keeps the invariant of the files.      *)
LEMMA OneSession ==
  ASSUME FileInv, NEW key, NEW s, GoodSession(key, s), file' = Put(file, key, s)
  PROVE  FileInv'
<1>1. /\ DOMAIN file' = DOMAIN file \cup {key} /\ file'[key] = s
      /\ \A x \in DOMAIN file : x # key => file'[x] = file[x]
  BY DEF Put
<1>2. \A k \in DOMAIN file' : GoodSession(k, file'[k])  BY <1>1 DEF FileInv
<1>3. QED BY <1>2 DEF FileInv

(* HarborBeacon's answer is of the home that was asked and of the turn.    *)
LEMMA ResponseGood ==
  ASSUME AnswersInv, NEW w, GoodWork(w), NEW frame \in BOOLEAN
  PROVE  /\ TurnRequest(w).turn \in TurnIds /\ TurnRequest(w).route \in RouteKeys
         /\ GoodAnswer(<<w.target, TurnRequest(w).turn>>, Response(w, frame))
<1> DEFINE t == TurnRequest(w).turn
           id == <<w.target, t>>
           b == BuildTurnRequest(w)
           r == Response(w, frame)
<1>1. w \in Work /\ w.meta \in Meta  BY DEF GoodWork, Work
<1>a. b \in Request /\ b.handle = w.meta.handle
  BY <1>1 DEF BuildTurnRequest, Request, TurnIds, RouteKeys, Work, Meta
<1>b. <<Msg[w.m].turn>> \in TurnIds  BY <1>1 DEF TurnIds, Work
<1> HIDE DEF b
<1>2. /\ ApplyChannelTurnOverrides(w.m, b) \in Request
      /\ ApplyChannelTurnOverrides(w.m, b).handle = b.handle
  BY <1>a, <1>b DEF ApplyChannelTurnOverrides, Request
<1>3. t \in TurnIds /\ TurnRequest(w).route \in RouteKeys /\ TurnRequest(w).handle = w.meta.handle
  BY <1>a, <1>2 DEF TurnRequest, Request, b
<1>4. CASE id \in DOMAIN answers
  <2>1. r = answers[id]  BY <1>4 DEF Response
  <2>2. GoodAnswer(id, r)  BY <1>4, <2>1 DEF AnswersInv
  <2>3. QED BY <1>3, <2>2
<1>5. CASE id \notin DOMAIN answers
  <2> DEFINE n == Cardinality(DOMAIN answers) + 1
             h == IF TurnRequest(w).handle # NoHandle THEN TurnRequest(w).handle
                  ELSE [home |-> w.target, n |-> n]
  <2>1. n \in Nat  BY FS_CardinalityType DEF AnswersInv
  <2>2. w.meta.handle \in Handle /\ w.target \in Homes /\ In(w.m).chat \in Chats
    BY <1>1 DEF Meta, Work, Chats
  <2>3. h \in Handle /\ h.home \in {NoHome, w.target}
    BY <1>3, <2>1, <2>2 DEF Handle, GoodWork, OfHome
  <2>4. r = [turn |-> t, chat |-> In(w.m).chat, seq |-> n, frame |-> frame,
             home |-> w.target, handle |-> h]
    BY <1>5, Zenon DEF Response
  <2> HIDE DEF n, h, t, r
  <2>5. r \in Given  BY <1>3, <2>1, <2>2, <2>3, <2>4 DEF Given, t
  <2>6. r.handle = h /\ r.home = w.target /\ r.turn = t  BY <2>4
  <2>7. GoodAnswer(id, r)  BY <2>3, <2>5, <2>6 DEF GoodAnswer
  <2>8. QED BY <1>3, <2>7 DEF t, r
<1>6. QED BY <1>4, <1>5

(* map_turn_response and the metadata that is saved keep the home, and the *)
(* continuation is of the turn that becomes the last one.                  *)
LEMMA SavedGood ==
  ASSUME NEW w, GoodWork(w), NEW request, request.turn \in TurnIds, request.route \in RouteKeys,
         NEW r, GoodAnswer(<<w.target, request.turn>>, r)
  PROVE  LET a == MapTurnResponse(request, r)
             meta == SavedMetadata(w.meta, request, a)
         IN  a \in Answer /\ meta \in Meta /\ OfHome(meta, w.target) /\ LastFits(meta)
<1> DEFINE a == MapTurnResponse(request, r)
           meta == SavedMetadata(w.meta, request, a)
<1>1. r \in Given /\ r.home = w.target /\ r.turn = request.turn /\ r.handle.home \in {NoHome, w.target}
  BY DEF GoodAnswer
<1>2. w.meta \in Meta /\ w.target \in Homes /\ OfHome(w.meta, w.target)
  BY DEF GoodWork, Work
<1>3. /\ a.turn = request.turn /\ a.handle = r.handle /\ a.seq = r.seq /\ a.chat = r.chat
      /\ a.cont = IF r.frame THEN [home |-> w.target, turn |-> request.turn] ELSE NoCont
  BY <1>1 DEF MapTurnResponse
<1>4. a.cont \in Cont /\ a.cont.home \in {NoHome, w.target}
      /\ (a.cont # NoCont => a.cont.turn = request.turn)
  BY <1>2, <1>3, Nothing DEF Cont, NoCont
<1>5. a = [turn |-> a.turn, handle |-> a.handle, seq |-> a.seq, chat |-> a.chat, cont |-> a.cont]
  BY DEF MapTurnResponse
<1> HIDE DEF a
<1>6. a \in Answer  BY <1>1, <1>3, <1>4, <1>5 DEF Answer, Given
<1>7. /\ meta.route = request.route /\ meta.last = a.turn /\ meta.cont = a.cont
      /\ meta.handle \in {w.meta.handle, a.handle}
  BY DEF SavedMetadata
<1>8. meta \in Meta  BY <1>2, <1>6 DEF SavedMetadata, Meta, Answer
<1> HIDE DEF meta
<1>9. OfHome(meta, w.target)  BY <1>1, <1>2, <1>3, <1>4, <1>7 DEF OfHome
<1>10. LastFits(meta)  BY <1>3, <1>4, <1>7 DEF LastFits
<1>11. QED BY <1>6, <1>8, <1>9, <1>10 DEF a, meta

(* A turn that was answered goes on with good work.                        *)
LEMMA AnsweredGood ==
  ASSUME NEW w, GoodWork(w), NEW a \in Answer, NEW meta \in Meta,
         OfHome(meta, w.target), LastFits(meta)
  PROVE  GoodWork([w EXCEPT !.pc = "saving", !.answer = a, !.meta = meta])
<1> DEFINE v == [w EXCEPT !.pc = "saving", !.answer = a, !.meta = meta]
<1>1. v \in Work  BY DEF GoodWork, Work, Writing
<1>2. v.target = w.target /\ v.key = w.key /\ v.meta = meta  BY DEF GoodWork, Work
<1> HIDE DEF v
<1>3. GoodWork(v)  BY <1>1, <1>2 DEF GoodWork
<1>4. QED BY <1>3 DEF v

(* An answer added to what HarborBeacon gave keeps its invariant.          *)
LEMMA OneAnswer ==
  ASSUME AnswersInv, NEW id, NEW r, GoodAnswer(id, r),
         answers' \in {answers, Put(answers, id, r)}
  PROVE  AnswersInv'
<1>1. CASE answers' = answers  BY <1>1 DEF AnswersInv
<1>2. CASE answers' = Put(answers, id, r)
  <2>1. /\ DOMAIN answers' = DOMAIN answers \cup {id} /\ answers'[id] = r
        /\ \A x \in DOMAIN answers : x # id => answers'[x] = answers[x]
    BY <1>2 DEF Put
  <2>2. \A x \in DOMAIN answers' : GoodAnswer(x, answers'[x])  BY <2>1 DEF AnswersInv
  <2>3. IsFiniteSet(DOMAIN answers')  BY <2>1, FS_AddElement DEF AnswersInv
  <2>4. QED BY <2>2, <2>3 DEF AnswersInv
<1>3. QED BY <1>1, <1>2

-----------------------------------------------------------------------------
(* One lemma per action that changes a session, an answer or a turn.       *)
LEMMA HandleInboundKeeps ==
  ASSUME TurnsInv, NEW p \in Workers, NEW m \in Messages, HandleInbound(p, m)
  PROVE  TurnsInv'
<1> DEFINE sel == Selected(m)
           s == Load(SessionKey(m, sel))
           asked == Begun(m, sel, s.meta, s.turns, "asking", NoAnswer)
           routed == [s.meta EXCEPT !.route = ResolvedRouteKey(m, s.meta)]
           made == Begun(m, sel, routed, s.turns, "saving", NoAnswer)
<1>1. sel \in Homes  BY Nothing DEF TurnsInv, Selected
<1>2. GoodSession(SessionKey(m, sel), s)  BY LoadGood DEF TurnsInv
<1>3. OfHome(s.meta, Target(sel)) /\ LastFits(s.meta) /\ s.meta \in Meta /\ s.turns \in Turns
  BY <1>1, <1>2, KeyNamesHome DEF GoodSession, Session
<1>4. work' = [work EXCEPT ![p] = asked] \/ work' = [work EXCEPT ![p] = made]
  BY DEF HandleInbound
<1> HIDE DEF s, sel
<1>5. ResolvedRouteKey(m, s.meta) \in RouteKeys
  BY <1>3 DEF ResolvedRouteKey, RouteKeys, Meta
<1>6. /\ routed \in Meta /\ routed.handle = s.meta.handle /\ routed.cont = s.meta.cont
      /\ routed.last = s.meta.last
  BY <1>3, <1>5 DEF Meta
<1> HIDE DEF routed
<1>7. OfHome(routed, Target(sel)) /\ LastFits(routed)  BY <1>3, <1>6 DEF OfHome, LastFits
<1>8. taken \in Nat  BY DEF TurnsInv
<1>9. GoodWork(asked)  BY <1>1, <1>3, <1>8, BegunGood
<1>10. GoodWork(made)  BY <1>1, <1>3, <1>6, <1>7, <1>8, BegunGood
<1> HIDE DEF asked, made
<1>11. WorkInv'  BY <1>4, <1>9, <1>10, OneWorker DEF TurnsInv
<1>12. taken' \in Nat  BY <1>8 DEF HandleInbound, Take
<1>13. FileInv' /\ AnswersInv' /\ home' \in Homes
  BY DEF TurnsInv, HandleInbound, FileInv, AnswersInv
<1>14. QED BY <1>11, <1>12, <1>13 DEF TurnsInv

(* A client may bring the handle of an earlier answer, which the local     *)
(* home gave it.                                                           *)
LEMMA HandleGatewayTurnKeeps ==
  ASSUME TurnsInv, NEW p \in Workers, NEW m \in Messages, HandleGatewayTurn(p, m)
  PROVE  TurnsInv'
<1> DEFINE s == Load(SessionKey(m, NoHome))
           known == {u \in DOMAIN answers : u[1] = Local /\ answers[u].chat = In(m).chat}
           reused(u) == MapTurnResponse([turn |-> NoTurn], answers[u])
           meta(g) == [s.meta EXCEPT !.handle = IF g.handle = NoHandle THEN @ ELSE g.handle,
                                     !.cont = IF g.cont = NoCont THEN @ ELSE g.cont]
           begun(g) == Begun(m, NoHome, meta(g), s.turns, "asking", NoAnswer)
<1>1. PICK g \in {NoAnswer} \cup {reused(u) : u \in known} : work' = [work EXCEPT ![p] = begun(g)]
  BY DEF HandleGatewayTurn
<1>2. GoodSession(SessionKey(m, NoHome), s)  BY LoadGood DEF TurnsInv
<1>3. Target(NoHome) = Local  BY DEF Target
<1>4. OfHome(s.meta, Local) /\ s.meta \in Meta /\ s.turns \in Turns
  BY <1>2, <1>3, KeyNamesHome, Nothing DEF GoodSession, Session
<1> HIDE DEF s
<1>5. /\ g.handle \in Handle /\ g.cont \in Cont
      /\ g.handle.home \in {NoHome, Local} /\ g.cont.home \in {NoHome, Local}
  <2>1. CASE g = NoAnswer
    BY <2>1, Nothing DEF NoAnswer, NoHandle, NoCont
  <2>2. CASE \E u \in known : g = reused(u)
    <3>1. PICK u \in known : g = reused(u)  BY <2>2
    <3>2. GoodAnswer(u, answers[u])  BY DEF TurnsInv, AnswersInv
    <3>3. /\ answers[u] \in Given /\ answers[u].home = Local
          /\ answers[u].handle.home \in {NoHome, Local}
      BY <3>2 DEF GoodAnswer
    <3>4. g.handle = answers[u].handle /\ g.cont = IF answers[u].frame
             THEN [home |-> answers[u].home, turn |-> answers[u].turn] ELSE NoCont
      BY <3>1 DEF MapTurnResponse
    <3>5. answers[u].handle \in Handle /\ answers[u].turn \in TurnIds  BY <3>3 DEF Given
    <3>6. QED BY <3>3, <3>4, <3>5, Nothing DEF Cont, NoCont
  <2>3. QED BY <1>1, <2>1, <2>2
<1>6. /\ meta(g) \in Meta /\ meta(g).handle \in {s.meta.handle, g.handle}
      /\ meta(g).cont \in {s.meta.cont, g.cont}
  BY <1>4, <1>5 DEF Meta
<1> HIDE DEF meta
<1>7. OfHome(meta(g), Local)  BY <1>4, <1>5, <1>6 DEF OfHome
<1>8. GoodWork(begun(g))  BY <1>3, <1>4, <1>6, <1>7, BegunGood, Nothing DEF TurnsInv
<1> HIDE DEF begun
<1>9. WorkInv'  BY <1>1, <1>8, OneWorker DEF TurnsInv
<1>10. taken' \in Nat  BY DEF HandleGatewayTurn, Take, TurnsInv
<1>11. FileInv' /\ AnswersInv' /\ home' \in Homes
  BY DEF TurnsInv, HandleGatewayTurn, FileInv, AnswersInv
<1>12. QED BY <1>9, <1>10, <1>11 DEF TurnsInv

(* The answer is of the home and the turn that were asked for.             *)
LEMMA SubmitTurnKeeps ==
  ASSUME TurnsInv, NEW p \in Workers, SubmitTurn(p)
  PROVE  TurnsInv'
<1> DEFINE w == work[p]
           request == TurnRequest(w)
           id == <<w.target, request.turn>>
           a(r) == MapTurnResponse(request, r)
           meta(r) == SavedMetadata(w.meta, request, a(r))
           next(r) == [w EXCEPT !.pc = "saving", !.answer = a(r), !.meta = meta(r)]
<1>1. w # Idle  BY DEF SubmitTurn, Idle
<1>2. GoodWork(w)  BY <1>1 DEF TurnsInv, WorkInv
<1>3. PICK frame \in BOOLEAN :
        LET r == Response(w, frame) IN
        \/ answers' = Put(answers, id, r) /\ work' = [work EXCEPT ![p] = next(r)]
        \/ answers' \in {answers, Put(answers, id, r)} /\ work' = [work EXCEPT ![p] = Idle]
  BY DEF SubmitTurn
<1> DEFINE r == Response(w, frame)
<1>4. request.turn \in TurnIds /\ request.route \in RouteKeys /\ GoodAnswer(id, r)
  BY <1>2, ResponseGood DEF TurnsInv
<1>5. /\ answers' \in {answers, Put(answers, id, r)}
      /\ work' = [work EXCEPT ![p] = next(r)] \/ work' = [work EXCEPT ![p] = Idle]
  BY <1>3
<1> HIDE DEF r, w, request
<1>6. a(r) \in Answer /\ meta(r) \in Meta /\ OfHome(meta(r), w.target) /\ LastFits(meta(r))
  BY <1>2, <1>4, SavedGood
<1> HIDE DEF a, meta
<1>7. GoodWork(next(r))  BY <1>2, <1>6, AnsweredGood
<1> HIDE DEF next
<1>8. WorkInv'  BY <1>5, <1>7, OneWorker DEF TurnsInv
<1>9. AnswersInv'  BY <1>4, <1>5, OneAnswer DEF TurnsInv
<1>10. FileInv' /\ home' \in Homes /\ taken' \in Nat
  BY DEF TurnsInv, SubmitTurn, FileInv
<1>11. QED BY <1>8, <1>9, <1>10 DEF TurnsInv

(* What a turn saves goes to the session it was read from.                 *)
LEMMA SaveSessionKeeps ==
  ASSUME TurnsInv, NEW p \in Workers, SaveSession(p)
  PROVE  TurnsInv'
<1> DEFINE w == work[p]
           s == SetMetadata(w)
<1>1. WorkInv' /\ GoodWork(w) /\ w.pc # "asking"
  BY WriteKeeps DEF TurnsInv, SaveSession
<1>2. file' = Put(file, w.key, s)  BY DEF SaveSession
<1> HIDE DEF w
<1>3. GoodSession(w.key, Load(w.key))  BY LoadGood DEF TurnsInv
<1>4. w.meta \in Meta /\ Load(w.key).turns \in Turns
  BY <1>1, <1>3 DEF GoodWork, Work, GoodSession, Session
<1>5. s \in Session /\ s.meta = w.meta  BY <1>4 DEF SetMetadata, Session
<1> HIDE DEF s
<1>6. GoodSession(w.key, s)  BY <1>1, <1>5 DEF GoodSession, GoodWork
<1>7. FileInv'  BY <1>2, <1>6, OneSession DEF TurnsInv
<1>8. AnswersInv' /\ home' \in Homes /\ taken' \in Nat
  BY DEF TurnsInv, SaveSession, AnswersInv
<1>9. QED BY <1>1, <1>7, <1>8 DEF TurnsInv

(* The history has no part in it.                                          *)
LEMMA AppendTurnsKeeps ==
  ASSUME TurnsInv, NEW p \in Workers, AppendTurns(p)
  PROVE  TurnsInv'
<1> DEFINE w == work[p]
           s == Load(w.key)
           h == s.turns \o Pair(w.m)
           t == [s EXCEPT !.turns = LastTurns(h)]
<1>1. WorkInv' /\ GoodWork(w)
  BY WriteKeeps DEF TurnsInv, AppendTurns
<1>2. file' = Put(file, w.key, t)  BY DEF AppendTurns
<1> HIDE DEF w
<1>3. GoodSession(w.key, s)  BY LoadGood DEF TurnsInv
<1> HIDE DEF s
<1>4. s.turns \in Turns /\ w.m \in Messages
  BY <1>1, <1>3 DEF GoodWork, Work, GoodSession, Session
<1>5. h \in Turns  BY <1>4 DEF Turns, Pair
<1> HIDE DEF h
<1>6. LastTurns(h) \in Turns
  <2>1. MaxTurns \in Nat  BY TurnsAssumption
  <2>2. CASE MaxTurns > 0 /\ Len(h) > MaxTurns
    <3> DEFINE S == [role : {"user", "assistant"}, m : Messages]
    <3>1. h \in Seq(S) /\ Len(h) \in Nat  BY <1>5 DEF Turns
    <3>2. /\ Len(h) - MaxTurns + 1 \in 1 .. Len(h) + 1 /\ Len(h) \in 0 .. Len(h)
      BY <2>1, <2>2, <3>1
    <3> HIDE DEF S
    <3>3. SubSeq(h, Len(h) - MaxTurns + 1, Len(h)) \in Seq(S)
      BY <3>1, <3>2, SubSeqProperties
    <3>4. QED BY <2>2, <3>3 DEF LastTurns, Turns, S
  <2>3. CASE ~(MaxTurns > 0 /\ Len(h) > MaxTurns)  BY <1>5, <2>3 DEF LastTurns
  <2>4. QED BY <2>2, <2>3
<1>7. t \in Session /\ t.meta = s.meta  BY <1>3, <1>6 DEF GoodSession, Session
<1> HIDE DEF t
<1>8. GoodSession(w.key, t)  BY <1>3, <1>7 DEF GoodSession
<1>9. FileInv'  BY <1>2, <1>8, OneSession DEF TurnsInv
<1>10. AnswersInv' /\ home' \in Homes /\ taken' \in Nat
  BY DEF TurnsInv, AppendTurns, AnswersInv
<1>11. QED BY <1>1, <1>9, <1>10 DEF TurnsInv

(* The other steps end a turn, move it on, or change what no turn reads.   *)
LEMMA OtherStepsKeep ==
  ASSUME TurnsInv,
         \/ UNCHANGED turnsVars \/ EndProof
         \/ \E m \in Messages : HandleNaviText(m)
         \/ \E p \in Workers : RegisterRoute(p) \/ Reply(p) \/ Fail(p)
  PROVE  TurnsInv'
<1>1. FileInv' /\ AnswersInv'
  BY DEF TurnsInv, FileInv, AnswersInv, turnsVars, EndProof, HandleNaviText, RegisterRoute, Reply, Fail
<1>2. taken' \in Nat
  <2>1. CASE \E m \in Messages : HandleNaviText(m)  BY <2>1 DEF TurnsInv, HandleNaviText, Take
  <2>2. CASE UNCHANGED taken  BY <2>2 DEF TurnsInv
  <2>3. QED BY <2>1, <2>2 DEF turnsVars, EndProof, RegisterRoute, Reply, Fail
<1>3. home' \in Homes
  <2>1. CASE EndProof  BY <2>1 DEF TurnsInv, EndProof, Homes
  <2>2. CASE ~EndProof
    BY <2>2 DEF TurnsInv, turnsVars, HandleNaviText, RegisterRoute, Reply, Fail
  <2>3. QED BY <2>1, <2>2
<1>4. WorkInv'
  <2>1. CASE \E p \in Workers : Reply(p) \/ Fail(p)
    <3>1. PICK p \in Workers : work' = [work EXCEPT ![p] = Idle]  BY <2>1 DEF Reply, Fail
    <3>2. QED BY <3>1, OneWorker DEF TurnsInv
  <2>2. CASE \E p \in Workers : RegisterRoute(p)
    BY <2>2, WriteKeeps DEF RegisterRoute, TurnsInv
  <2>3. CASE UNCHANGED work  BY <2>3 DEF TurnsInv, WorkInv
  <2>4. QED BY <2>1, <2>2, <2>3 DEF turnsVars, EndProof, HandleNaviText
<1>5. QED BY <1>1, <1>2, <1>3, <1>4 DEF TurnsInv

-----------------------------------------------------------------------------
(* The invariant holds: every step of handle_inbound, handle_gateway_turn  *)
(* and the fleet keeps it.                                                 *)
THEOREM TurnsInvHolds == TurnsSpec => []TurnsInv
<1>1. TurnsInit => TurnsInv
  <2> SUFFICES ASSUME TurnsInit PROVE TurnsInv  OBVIOUS
  <2>1. DOMAIN file = {} /\ DOMAIN answers = {}  BY DEF TurnsInit
  <2>2. FileInv /\ AnswersInv  BY <2>1, FS_EmptySet DEF FileInv, AnswersInv
  <2>3. WorkInv /\ taken \in Nat  BY DEF TurnsInit, WorkInv
  <2>4. home \in Homes  BY Nothing DEF TurnsInit, Homes
  <2>5. QED BY <2>2, <2>3, <2>4 DEF TurnsInv
<1>2. TurnsInv /\ [TurnsNext]_turnsVars => TurnsInv'
  <2> SUFFICES ASSUME TurnsInv, [TurnsNext]_turnsVars PROVE TurnsInv'  OBVIOUS
  <2>1. CASE \E p \in Workers, m \in Messages : HandleInbound(p, m) \/ HandleGatewayTurn(p, m)
    BY <2>1, HandleInboundKeeps, HandleGatewayTurnKeeps
  <2>2. CASE \E p \in Workers : SubmitTurn(p) \/ SaveSession(p) \/ AppendTurns(p)
    BY <2>2, SubmitTurnKeeps, SaveSessionKeeps, AppendTurnsKeeps
  <2>3. CASE \/ UNCHANGED turnsVars \/ EndProof
             \/ \E m \in Messages : HandleNaviText(m)
             \/ \E p \in Workers : RegisterRoute(p) \/ Reply(p) \/ Fail(p)
    BY <2>3, OtherStepsKeep
  <2>4. QED BY <2>1, <2>2, <2>3 DEF TurnsNext
<1>3. QED BY <1>1, <1>2, PTL DEF TurnsSpec

(* Whatever turns overlap and however often a chat is bound anew, a home   *)
(* is never sent a conversation of another (session_key).                  *)
THEOREM ConversationsStayHomeHolds == TurnsSpec => []ConversationsStayHome
<1>1. TurnsInv => ConversationsStayHome
  <2> SUFFICES ASSUME TurnsInv, NEW p \in Workers, work[p].pc = "asking"
      PROVE OfHome(work[p].meta, work[p].target)
    BY DEF ConversationsStayHome, OfHome
  <2>1. work[p] # Idle  BY DEF Idle
  <2>2. QED BY <2>1 DEF TurnsInv, WorkInv, GoodWork
<1>2. QED BY <1>1, TurnsInvHolds, PTL

(* The metadata that set_metadata leaves in a session is always of one     *)
(* turn: the continuation never answers another one than the last.         *)
THEOREM ContinuationAnswersLastTurnHolds == TurnsSpec => []ContinuationAnswersLastTurn
<1>1. TurnsInv => ContinuationAnswersLastTurn
  BY DEF TurnsInv, FileInv, GoodSession, LastFits, ContinuationAnswersLastTurn
<1>2. QED BY <1>1, TurnsInvHolds, PTL

-----------------------------------------------------------------------------
(* The history of a session is a number of whole exchanges, MaxTurns       *)
(* entries at most.                                                        *)
Entry == [role : {"user", "assistant"}, m : Messages]

Exchanges(h, n) ==
  /\ h \in Seq(Entry) /\ Len(h) = 2 * n
  /\ \A i \in 1 .. n : /\ h[2 * i] = [role |-> "assistant", m |-> h[2 * i].m]
                       /\ h[2 * i - 1] = [role |-> "user", m |-> h[2 * i].m]

WholeHistory(h) == Len(h) <= MaxTurns /\ \E n \in Nat : Exchanges(h, n)

(* An exchange is two entries.                                             *)
LEMMA PairFacts ==
  ASSUME NEW m \in Messages
  PROVE  /\ Pair(m) \in Seq(Entry) /\ Len(Pair(m)) = 2
         /\ Pair(m)[1] = [role |-> "user", m |-> m]
         /\ Pair(m)[2] = [role |-> "assistant", m |-> m]
BY DEF Pair, Entry

(* One more exchange.                                                      *)
LEMMA OneMoreExchange ==
  ASSUME NEW h, NEW n \in Nat, Exchanges(h, n), NEW m \in Messages
  PROVE  Exchanges(h \o Pair(m), n + 1)
<1> DEFINE g == h \o Pair(m)
<1>1. h \in Seq(Entry) /\ Len(h) = 2 * n  BY DEF Exchanges
<1>2. /\ g \in Seq(Entry) /\ Len(g) = 2 * n + 2
      /\ \A i \in 1 .. 2 * n : g[i] = h[i]
      /\ g[2 * n + 1] = Pair(m)[1] /\ g[2 * n + 2] = Pair(m)[2]
  <2> DEFINE q == Pair(m)
  <2>1. q \in Seq(Entry) /\ Len(q) = 2  BY PairFacts
  <2> HIDE DEF q
  <2>2. /\ h \o q \in Seq(Entry) /\ Len(h \o q) = Len(h) + Len(q)
        /\ \A i \in 1 .. Len(h) + Len(q) : (h \o q)[i] =
             IF i <= Len(h) THEN h[i] ELSE q[i - Len(h)]
    BY <1>1, <2>1, ConcatProperties
  <2>3. g = h \o q  BY DEF q
  <2> HIDE DEF g
  <2>4. g \in Seq(Entry) /\ Len(g) = 2 * n + 2 /\ \A i \in 1 .. 2 * n + 2 : g[i] =
             IF i <= 2 * n THEN h[i] ELSE q[i - 2 * n]
    BY <1>1, <2>1, <2>2, <2>3
  <2>5. 2 * n + 1 \in 1 .. 2 * n + 2 /\ 2 * n + 2 \in 1 .. 2 * n + 2
        /\ ~(2 * n + 1 <= 2 * n) /\ ~(2 * n + 2 <= 2 * n)
        /\ 2 * n + 1 - 2 * n = 1 /\ 2 * n + 2 - 2 * n = 2
    OBVIOUS
  <2>6. g[2 * n + 1] = q[1] /\ g[2 * n + 2] = q[2]  BY <2>4, <2>5
  <2>7. \A i \in 1 .. 2 * n : i \in 1 .. 2 * n + 2 /\ i <= 2 * n  OBVIOUS
  <2>8. \A i \in 1 .. 2 * n : g[i] = h[i]  BY <2>4, <2>7
  <2>9. QED BY <2>4, <2>6, <2>8 DEF q
<1> HIDE DEF g
<1>3. ASSUME NEW i \in 1 .. n + 1
      PROVE  /\ g[2 * i] = [role |-> "assistant", m |-> g[2 * i].m]
             /\ g[2 * i - 1] = [role |-> "user", m |-> g[2 * i].m]
  <2>1. CASE i \in 1 .. n
    <3>1. g[2 * i] = h[2 * i] /\ g[2 * i - 1] = h[2 * i - 1]  BY <1>2, <2>1
    <3>2. QED BY <2>1, <3>1 DEF Exchanges
  <2>2. CASE i = n + 1
    <3>1. g[2 * i] = Pair(m)[2] /\ g[2 * i - 1] = Pair(m)[1]  BY <1>2, <2>2
    <3>2. /\ g[2 * i] = [role |-> "assistant", m |-> m]
          /\ g[2 * i - 1] = [role |-> "user", m |-> m]
      BY <3>1, PairFacts
    <3>3. g[2 * i].m = m  BY <3>2
    <3>4. QED BY <3>2, <3>3, Zenon
  <2>3. QED BY <2>1, <2>2
<1>4. 2 * (n + 1) = 2 * n + 2  OBVIOUS
<1>5. QED BY <1>2, <1>3, <1>4 DEF Exchanges, g

(* Dropping whole exchanges at the front leaves whole ones.                *)
LEMMA LastExchanges ==
  ASSUME NEW h, NEW n \in Nat, Exchanges(h, n), NEW k \in Nat, k <= n
  PROVE  Exchanges(SubSeq(h, Len(h) - 2 * k + 1, Len(h)), k)
<1> DEFINE a == 2 * n - 2 * k + 1
           b == 2 * n
           g == SubSeq(h, a, b)
<1>1. h \in Seq(Entry) /\ Len(h) = 2 * n  BY DEF Exchanges
<1>2. \A i \in a .. b : h[i] \in Entry
  <2>1. a .. b \subseteq 1 .. Len(h)  BY <1>1
  <2>2. QED BY <1>1, <2>1, ElementOfSeq
<1>3. a \in Int /\ b \in Int /\ b - a + 1 = 2 * k  OBVIOUS
<1>4. /\ g \in Seq(Entry) /\ Len(g) = 2 * k
      /\ \A i \in 1 .. 2 * k : g[i] = h[a + i - 1]
  <2> HIDE DEF a, b
  <2>1. /\ g \in Seq(Entry) /\ Len(g) = IF a <= b THEN b - a + 1 ELSE 0
        /\ \A i \in 1 .. b - a + 1 : g[i] = h[a + i - 1]
    BY <1>2, <1>3, SubSeqProperties
  <2>2. QED BY <1>3, <2>1
<1> HIDE DEF g
<1>5. ASSUME NEW i \in 1 .. k
      PROVE  /\ g[2 * i] = [role |-> "assistant", m |-> g[2 * i].m]
             /\ g[2 * i - 1] = [role |-> "user", m |-> g[2 * i].m]
  <2> DEFINE j == n - k + i
  <2>1. j \in 1 .. n /\ a + 2 * i - 1 = 2 * j /\ a + (2 * i - 1) - 1 = 2 * j - 1
    OBVIOUS
  <2>2. 2 * i \in 1 .. 2 * k /\ 2 * i - 1 \in 1 .. 2 * k  OBVIOUS
  <2>3. g[2 * i] = h[2 * j] /\ g[2 * i - 1] = h[2 * j - 1]  BY <1>4, <2>1, <2>2
  <2>4. QED BY <2>1, <2>3 DEF Exchanges
<1>6. QED BY <1>1, <1>4, <1>5 DEF Exchanges, g

(* append_turns keeps a history whole, whether it cuts or not.             *)
LEMMA AppendWhole ==
  ASSUME NEW h, WholeHistory(h), NEW m \in Messages
  PROVE  WholeHistory(LastTurns(h \o Pair(m)))
<1> DEFINE g == h \o Pair(m)
           k == MaxTurns \div 2
<1>1. PICK n \in Nat : Exchanges(h, n)  BY DEF WholeHistory
<1>2. MaxTurns \in Nat /\ MaxTurns > 0 /\ MaxTurns % 2 = 0  BY TurnsAssumption
<1>3. k \in Nat /\ MaxTurns = 2 * k  BY <1>2
<1>4. Exchanges(g, n + 1)  BY <1>1, OneMoreExchange
<1> HIDE DEF g, k
<1>5. Len(g) = 2 * (n + 1)  BY <1>4 DEF Exchanges
<1>6. CASE Len(g) > MaxTurns
  <2>1. LastTurns(g) = SubSeq(g, Len(g) - 2 * k + 1, Len(g))  BY <1>2, <1>3, <1>6 DEF LastTurns
  <2>2. k <= n + 1  BY <1>3, <1>5, <1>6
  <2>3. Exchanges(LastTurns(g), k)  BY <1>3, <1>4, <2>1, <2>2, LastExchanges
  <2>4. Len(LastTurns(g)) = 2 * k  BY <2>3 DEF Exchanges
  <2>5. QED BY <1>3, <2>3, <2>4 DEF WholeHistory, g
<1>7. CASE ~(Len(g) > MaxTurns)
  <2>1. LastTurns(g) = g  BY <1>7 DEF LastTurns
  <2>2. Len(g) <= MaxTurns  BY <1>2, <1>5, <1>7
  <2>3. QED BY <1>4, <2>1, <2>2 DEF WholeHistory, g
<1>8. QED BY <1>6, <1>7

(* A whole history in the words of HistoryKeepsPairs.                      *)
LEMMA WholeHasPairs ==
  ASSUME NEW h, WholeHistory(h)
  PROVE  /\ Len(h) % 2 = 0
         /\ \A i \in 1 .. Len(h) \div 2 : SubSeq(h, 2 * i - 1, 2 * i) = Pair(h[2 * i].m)
<1>1. PICK n \in Nat : Exchanges(h, n)  BY DEF WholeHistory
<1>2. h \in Seq(Entry) /\ Len(h) = 2 * n  BY <1>1 DEF Exchanges
<1>3. Len(h) % 2 = 0 /\ Len(h) \div 2 = n  BY <1>2
<1>4. ASSUME NEW i \in 1 .. n
      PROVE  SubSeq(h, 2 * i - 1, 2 * i) = Pair(h[2 * i].m)
  <2> DEFINE a == 2 * i - 1
             b == 2 * i
             m == h[b].m
             g == SubSeq(h, a, b)
  <2>1. a \in 1 .. Len(h) /\ b \in 1 .. Len(h) /\ b = a + 1 /\ a \in Int /\ b \in Int  BY <1>2
  <2>2. h[a] \in Entry /\ h[b] \in Entry  BY <1>2, <2>1, ElementOfSeq
  <2>3. h[b] = [role |-> "assistant", m |-> m] /\ h[a] = [role |-> "user", m |-> m]
    BY <1>1 DEF Exchanges
  <2>4. m \in Messages  BY <2>2 DEF Entry
  <2> HIDE DEF a, b, m
  <2>5. g \in Seq(Entry) /\ Len(g) = 2 /\ g[1] = h[a] /\ g[2] = h[b]
    <3>1. \A x \in a .. b : h[x] \in Entry  BY <2>1, <2>2
    <3>2. /\ g \in Seq(Entry) /\ Len(g) = IF a <= b THEN b - a + 1 ELSE 0
          /\ \A x \in 1 .. b - a + 1 : g[x] = h[a + x - 1]
      BY <2>1, <3>1, SubSeqProperties
    <3> HIDE DEF g
    <3>3. 1 \in 1 .. b - a + 1 /\ 2 \in 1 .. b - a + 1 /\ a + 1 - 1 = a /\ a + 2 - 1 = b
      BY <2>1
    <3>4. g[1] = h[a] /\ g[2] = h[b]  BY <3>2, <3>3
    <3>5. Len(g) = 2  BY <2>1, <3>2
    <3>6. QED BY <3>2, <3>4, <3>5
  <2> HIDE DEF g
  <2>6. \A x \in 1 .. 2 : g[x] = Pair(m)[x]  BY <2>3, <2>4, <2>5, PairFacts
  <2>7. g = Pair(m)
    <3> DEFINE q == Pair(m)
    <3>1. q \in Seq(Entry) /\ Len(g) = Len(q) /\ \A x \in 1 .. Len(g) : g[x] = q[x]
      BY <2>4, <2>5, <2>6, PairFacts
    <3> HIDE DEF q
    <3>2. g = q  BY <2>5, <3>1, SeqEqual
    <3>3. QED BY <3>2 DEF q
  <2>8. QED BY <2>7 DEF g, a, b, m
<1>5. QED BY <1>3, <1>4

-----------------------------------------------------------------------------
(* What the store's records say of routes and replies, besides TurnsInv: a *)
(* route is kept with the chat that a message of that route came from, a   *)
(* turn under way and a plan name such a route and the turn they answer.   *)
Leads(r, chat)      == \E m \in Messages : DeriveRouteKey(m) = r /\ In(m).chat = chat
RouteKnown(r, chat) == r = <<>> \/ Leads(r, chat)

SessionFits(k, s) == WholeHistory(s.turns) /\ RouteKnown(s.meta.route, k[2])

WorkFits(w, registered) ==
  /\ w.key[2] = In(w.m).chat
  /\ RouteKnown(w.meta.route, In(w.m).chat) /\ Leads(w.route, In(w.m).chat)
  /\ Msg[w.m].via = "inbound" => w.answer.turn \in {NoTurn, EventFingerprint(w.m, w.now)}
  /\ w.pc \in {"appending", "replying"} => w.route \in registered

PlanFits(t, q, registered) ==
  /\ q.m \in Messages /\ Msg[q.m].via = "inbound"
  /\ \E n \in Nat : t = EventFingerprint(q.m, n)
  /\ q.route \in registered /\ Leads(q.route, In(q.m).chat)

SessionsFit == \A k \in DOMAIN file : SessionFits(k, file[k])
WorkersFit  == \A p \in Workers : work[p] = Idle \/ WorkFits(work[p], DOMAIN routes)
PlansFit    == \A t \in DOMAIN planned : PlanFits(t, planned[t], DOMAIN routes)
RoutesLead  == \A r \in DOMAIN routes : Leads(r, routes[r].chat)
InBounds    == home.gen <= MaxHomes /\ taken <= MaxTakes
RecordsInv  == SessionsFit /\ WorkersFit /\ PlansFit /\ RoutesLead /\ InBounds

(* The step that HistoryOnlyGrows allows.                                  *)
Grows ==
  \A k \in DOMAIN file :
    \/ file'[k].turns = file[k].turns
    \/ \E m \in Messages : file'[k].turns = LastTurns(file[k].turns \o Pair(m))

(* A session that is read fits, with or without a file.                    *)
LEMMA LoadFits ==
  ASSUME SessionsFit, NEW key
  PROVE  SessionFits(key, Load(key))
<1>1. CASE key \in DOMAIN file  BY <1>1 DEF SessionsFit, Load
<1>2. CASE key \notin DOMAIN file
  <2>1. Load(key).turns = <<>> /\ Load(key).meta.route = <<>>  BY <1>2 DEF Load, Empty
  <2>2. Len(<<>>) = 0 /\ <<>> \in Seq(Entry)  BY EmptySeq
  <2>3. Exchanges(<<>>, 0)  BY <2>2 DEF Exchanges
  <2>4. WholeHistory(<<>>)  BY <2>2, <2>3, TurnsAssumption DEF WholeHistory
  <2>5. QED BY <2>1, <2>4 DEF SessionFits, RouteKnown
<1>3. QED BY <1>1, <1>2

(* The route that handle_inbound resolves leads to the chat.               *)
LEMMA ResolvedLeads ==
  ASSUME NEW m \in Messages, NEW meta, RouteKnown(meta.route, In(m).chat)
  PROVE  Leads(DeriveRouteKey(m), In(m).chat) /\ Leads(ResolvedRouteKey(m, meta), In(m).chat)
BY DEF RouteKnown, Leads, ResolvedRouteKey

(* The second part of a session's key is its chat.                         *)
LEMMA KeyNamesChat ==
  ASSUME NEW m \in Messages, NEW sel
  PROVE  SessionKey(m, sel)[2] = In(m).chat
BY DEF SessionKey

(* A turn that begins fits.                                                *)
LEMMA BegunFits ==
  ASSUME NEW m \in Messages, NEW sel, NEW meta, NEW turns, NEW pc \in {"asking", "saving"},
         RouteKnown(meta.route, In(m).chat), NEW R
  PROVE  WorkFits(Begun(m, sel, meta, turns, pc, NoAnswer), R)
<1> DEFINE w == Begun(m, sel, meta, turns, pc, NoAnswer)
<1>1. /\ w.m = m /\ w.key = SessionKey(m, sel) /\ w.meta = meta /\ w.pc = pc
      /\ w.route = ResolvedRouteKey(m, meta) /\ w.answer = NoAnswer
  BY DEF Begun
<1>2. NoAnswer.turn = NoTurn  BY DEF NoAnswer
<1> HIDE DEF w
<1>3. WorkFits(w, R)  BY <1>1, <1>2, ResolvedLeads, KeyNamesChat DEF WorkFits
<1>4. QED BY <1>3 DEF w

(* A step in which one worker goes on and no file is written.              *)
LEMMA WorkerGoesOn ==
  ASSUME TurnsInv, RecordsInv, NEW p \in Workers, NEW w,
         w = Idle \/ WorkFits(w, DOMAIN routes), work' = [work EXCEPT ![p] = w],
         UNCHANGED <<file, routes, planned, home>>, taken' <= MaxTakes
  PROVE  RecordsInv' /\ Grows
<1>1. \A q \in Workers : work'[q] = IF q = p THEN w ELSE work[q]
  BY DEF TurnsInv, WorkInv
<1>2. WorkersFit'  BY <1>1 DEF RecordsInv, WorkersFit
<1>3. SessionsFit' /\ PlansFit' /\ RoutesLead' /\ InBounds'
  BY DEF RecordsInv, SessionsFit, PlansFit, RoutesLead, InBounds
<1>4. QED BY <1>2, <1>3 DEF RecordsInv, Grows

(* A turn takes its route from the session or derives it.                  *)
LEMMA HandleInboundFits ==
  ASSUME TurnsInv, RecordsInv, NEW p \in Workers, NEW m \in Messages, HandleInbound(p, m)
  PROVE  RecordsInv' /\ Grows
<1> DEFINE sel == Selected(m)
           s == Load(SessionKey(m, sel))
           r == ResolvedRouteKey(m, s.meta)
           routed == [s.meta EXCEPT !.route = r]
           asked == Begun(m, sel, s.meta, s.turns, "asking", NoAnswer)
           made == Begun(m, sel, routed, s.turns, "saving", NoAnswer)
<1>1. work' = [work EXCEPT ![p] = asked] \/ work' = [work EXCEPT ![p] = made]
  BY DEF HandleInbound
<1>2. SessionFits(SessionKey(m, sel), s) /\ GoodSession(SessionKey(m, sel), s)
  BY LoadFits, LoadGood DEF RecordsInv, TurnsInv
<1> HIDE DEF s, sel
<1>3. RouteKnown(s.meta.route, In(m).chat) /\ s.meta \in Meta
  BY <1>2, KeyNamesChat DEF SessionFits, GoodSession, Session
<1>4. Leads(r, In(m).chat)  BY <1>3, ResolvedLeads
<1> HIDE DEF r
<1>5. routed.route = r  BY <1>3 DEF Meta
<1> HIDE DEF routed
<1>6. RouteKnown(routed.route, In(m).chat)  BY <1>4, <1>5 DEF RouteKnown
<1>7. WorkFits(asked, DOMAIN routes) /\ WorkFits(made, DOMAIN routes)
  BY <1>3, <1>6, BegunFits
<1> HIDE DEF asked, made
<1>8. UNCHANGED <<file, routes, planned, home>>  BY DEF HandleInbound
<1>9. taken' <= MaxTakes  BY TurnsAssumption DEF HandleInbound, Take, TurnsInv
<1>10. QED BY <1>1, <1>7, <1>8, <1>9, WorkerGoesOn

(* A client's turn derives its own.                                        *)
LEMMA HandleGatewayTurnFits ==
  ASSUME TurnsInv, RecordsInv, NEW p \in Workers, NEW m \in Messages, HandleGatewayTurn(p, m)
  PROVE  RecordsInv' /\ Grows
<1> DEFINE s == Load(SessionKey(m, NoHome))
           known == {u \in DOMAIN answers : u[1] = Local /\ answers[u].chat = In(m).chat}
           reused(u) == MapTurnResponse([turn |-> NoTurn], answers[u])
           meta(g) == [s.meta EXCEPT !.handle = IF g.handle = NoHandle THEN @ ELSE g.handle,
                                     !.cont = IF g.cont = NoCont THEN @ ELSE g.cont]
           begun(g) == Begun(m, NoHome, meta(g), s.turns, "asking", NoAnswer)
<1>1. PICK g \in {NoAnswer} \cup {reused(u) : u \in known} : work' = [work EXCEPT ![p] = begun(g)]
  BY DEF HandleGatewayTurn
<1>2. SessionFits(SessionKey(m, NoHome), s) /\ GoodSession(SessionKey(m, NoHome), s)
  BY LoadFits, LoadGood DEF RecordsInv, TurnsInv
<1> HIDE DEF s
<1>3. RouteKnown(s.meta.route, In(m).chat) /\ s.meta \in Meta
  BY <1>2, KeyNamesChat DEF SessionFits, GoodSession, Session
<1>4. meta(g).route = s.meta.route  BY <1>3 DEF Meta
<1> HIDE DEF meta
<1>5. RouteKnown(meta(g).route, In(m).chat)  BY <1>3, <1>4
<1>6. WorkFits(begun(g), DOMAIN routes)  BY <1>5, BegunFits
<1> HIDE DEF begun
<1>7. UNCHANGED <<file, routes, planned, home>>  BY DEF HandleGatewayTurn
<1>8. taken' <= MaxTakes  BY TurnsAssumption DEF HandleGatewayTurn, Take, TurnsInv
<1>9. QED BY <1>1, <1>6, <1>7, <1>8, WorkerGoesOn

(* The answer bears the turn id of the request.                            *)
LEMMA SubmitTurnFits ==
  ASSUME TurnsInv, RecordsInv, NEW p \in Workers, SubmitTurn(p)
  PROVE  RecordsInv' /\ Grows
<1> DEFINE w == work[p]
           request == TurnRequest(w)
           id == <<w.target, request.turn>>
           a(r) == MapTurnResponse(request, r)
           meta(r) == SavedMetadata(w.meta, request, a(r))
           next(r) == [w EXCEPT !.pc = "saving", !.answer = a(r), !.meta = meta(r)]
<1>1. w # Idle /\ w.pc = "asking"  BY DEF SubmitTurn, Idle
<1>2. GoodWork(w) /\ WorkFits(w, DOMAIN routes)
  BY <1>1 DEF TurnsInv, WorkInv, RecordsInv, WorkersFit
<1>3. PICK frame \in BOOLEAN :
        LET r == Response(w, frame) IN
        work' = [work EXCEPT ![p] = next(r)] \/ work' = [work EXCEPT ![p] = Idle]
  BY DEF SubmitTurn
<1> DEFINE r == Response(w, frame)
<1>4. GoodAnswer(id, r)  BY <1>2, ResponseGood DEF TurnsInv
<1>5. r.turn = request.turn  BY <1>4 DEF GoodAnswer
<1>6. a(r).turn = request.turn  BY <1>5 DEF MapTurnResponse
<1>7. meta(r).route = request.route  BY DEF SavedMetadata
<1>8. /\ request.route = DeriveRouteKey(w.m)
      /\ Msg[w.m].via = "inbound" => request.turn = EventFingerprint(w.m, w.now)
  <2>1. /\ BuildTurnRequest(w).route = DeriveRouteKey(w.m)
        /\ BuildTurnRequest(w).turn = EventFingerprint(w.m, w.now)
    BY DEF BuildTurnRequest
  <2>2. ApplyChannelTurnOverrides(w.m, BuildTurnRequest(w)).route = BuildTurnRequest(w).route
    BY DEF ApplyChannelTurnOverrides, BuildTurnRequest
  <2>3. QED BY <2>1, <2>2 DEF TurnRequest
<1>9. work' = [work EXCEPT ![p] = next(r)] \/ work' = [work EXCEPT ![p] = Idle]  BY <1>3
<1>10. w \in Work  BY <1>2 DEF GoodWork
<1> HIDE DEF w, request, r, a, meta
<1>11. /\ next(r).m = w.m /\ next(r).key = w.key /\ next(r).now = w.now
       /\ next(r).route = w.route /\ next(r).answer = a(r) /\ next(r).meta = meta(r)
       /\ next(r).pc = "saving"
  BY <1>10 DEF Work
<1> HIDE DEF next
<1>12. w.m \in Messages  BY <1>10 DEF Work
<1>13. Leads(DeriveRouteKey(w.m), In(w.m).chat)  BY <1>12 DEF Leads
<1>14. WorkFits(next(r), DOMAIN routes)
  BY <1>2, <1>6, <1>7, <1>8, <1>11, <1>13 DEF WorkFits, RouteKnown
<1>15. UNCHANGED <<file, routes, planned, home>> /\ taken' <= MaxTakes
  BY DEF SubmitTurn, RecordsInv, InBounds
<1>16. QED BY <1>9, <1>14, <1>15, WorkerGoesOn

(* A write moves the worker on; its records still fit.                     *)
LEMMA WriteFits ==
  ASSUME TurnsInv, RecordsInv, NEW p \in Workers,
         NEW pc \in {"saving", "routing", "appending"}, Write(p, pc),
         DOMAIN routes \subseteq DOMAIN routes',
         pc = "saving" \/ work[p].route \in DOMAIN routes'
  PROVE  WorkersFit' /\ work[p] \in Work /\ WorkFits(work[p], DOMAIN routes)
<1> DEFINE w == work[p]
           v == [w EXCEPT !.pc = NextWrite(pc)]
<1>1. w # Idle /\ w.pc = pc  BY DEF Write, Idle
<1>2. w \in Work /\ WorkFits(w, DOMAIN routes)
  BY <1>1 DEF TurnsInv, WorkInv, GoodWork, RecordsInv, WorkersFit
<1>3. work' = [work EXCEPT ![p] = v] /\ DOMAIN work = Workers  BY DEF Write, TurnsInv, WorkInv
<1>4. NextWrite(pc) = IF pc = "saving" THEN "routing"
                      ELSE IF pc = "routing" THEN "appending" ELSE "replying"
  BY DEF NextWrite
<1> DEFINE pc2 == NextWrite(pc)
<1> HIDE DEF w, pc2
<1>5. /\ v.m = w.m /\ v.key = w.key /\ v.now = w.now /\ v.route = w.route
      /\ v.answer = w.answer /\ v.meta = w.meta /\ v.pc = NextWrite(pc)
  BY <1>2 DEF Work
<1> HIDE DEF v
<1>6. WorkFits(v, DOMAIN routes')  BY <1>2, <1>4, <1>5 DEF WorkFits, w
<1>7. \A q \in Workers : work'[q] = IF q = p THEN v ELSE work[q]  BY <1>3
<1>8. ASSUME NEW q \in Workers PROVE work'[q] = Idle \/ WorkFits(work'[q], DOMAIN routes')
  BY <1>6, <1>7 DEF RecordsInv, WorkersFit, WorkFits
<1>9. QED BY <1>2, <1>8 DEF WorkersFit, w

(* A session that is written keeps the others.                             *)
LEMMA OneSessionFits ==
  ASSUME SessionsFit, NEW key, NEW s, SessionFits(key, s), file' = Put(file, key, s)
  PROVE  SessionsFit' /\ \A k \in DOMAIN file : file'[k] = IF k = key THEN s ELSE file[k]
<1>1. /\ DOMAIN file' = DOMAIN file \cup {key}
      /\ \A x \in DOMAIN file' : file'[x] = IF x = key THEN s ELSE file[x]
  BY DEF Put
<1>2. \A k \in DOMAIN file' : SessionFits(k, file'[k])  BY <1>1 DEF SessionsFit
<1>3. QED BY <1>1, <1>2 DEF SessionsFit

(* set_metadata replaces the metadata and keeps the turns it finds.        *)
LEMMA SaveSessionFits ==
  ASSUME TurnsInv, RecordsInv, NEW p \in Workers, SaveSession(p)
  PROVE  RecordsInv' /\ Grows
<1> DEFINE w == work[p]
           s == SetMetadata(w)
<1>1. WorkersFit' /\ w \in Work /\ WorkFits(w, DOMAIN routes)
  BY WriteFits DEF SaveSession
<1>2. file' = Put(file, w.key, s)  BY DEF SaveSession
<1>3. s.meta = w.meta /\ s.turns = Load(w.key).turns  BY DEF SetMetadata
<1>4. SessionFits(w.key, Load(w.key))  BY LoadFits DEF RecordsInv
<1> HIDE DEF w, s
<1>5. SessionFits(w.key, s)  BY <1>1, <1>3, <1>4 DEF SessionFits, WorkFits
<1>6. SessionsFit' /\ \A k \in DOMAIN file : file'[k] = IF k = w.key THEN s ELSE file[k]
  BY <1>2, <1>5, OneSessionFits DEF RecordsInv
<1>7. Grows  BY <1>3, <1>6 DEF Grows, Load
<1>8. PlansFit' /\ RoutesLead' /\ InBounds'
  BY DEF SaveSession, RecordsInv, PlansFit, RoutesLead, InBounds
<1>9. QED BY <1>1, <1>6, <1>7, <1>8 DEF RecordsInv

(* append_turns adds an exchange to the turns it finds.                    *)
LEMMA AppendTurnsFits ==
  ASSUME TurnsInv, RecordsInv, NEW p \in Workers, AppendTurns(p)
  PROVE  RecordsInv' /\ Grows
<1> DEFINE w == work[p]
           s == Load(w.key)
           h == LastTurns(s.turns \o Pair(w.m))
           t == [s EXCEPT !.turns = h]
<1>1. work[p].route \in DOMAIN routes
  <2>1. w.pc = "appending"  BY DEF AppendTurns, Write
  <2>2. w # Idle  BY <2>1 DEF Idle
  <2>3. QED BY <2>1, <2>2 DEF RecordsInv, WorkersFit, WorkFits
<1>2. WorkersFit' /\ w \in Work /\ WorkFits(w, DOMAIN routes)
  BY <1>1, WriteFits DEF AppendTurns
<1>3. file' = Put(file, w.key, t)  BY DEF AppendTurns
<1>4. SessionFits(w.key, s) /\ GoodSession(w.key, s)  BY LoadFits, LoadGood DEF RecordsInv, TurnsInv
<1>5. w.m \in Messages  BY <1>2 DEF Work
<1>6. \A k \in DOMAIN file : k = w.key => s = file[k]  BY DEF Load
<1> HIDE DEF w, s
<1>7. WholeHistory(h)  BY <1>4, <1>5, AppendWhole DEF SessionFits
<1>8. \A k \in DOMAIN file : k = w.key => h = LastTurns(file[k].turns \o Pair(w.m))
  BY <1>6
<1> HIDE DEF h
<1>9. t.turns = h /\ t.meta = s.meta  BY <1>4 DEF GoodSession, Session
<1> HIDE DEF t
<1>10. SessionFits(w.key, t)  BY <1>4, <1>7, <1>9 DEF SessionFits
<1>11. SessionsFit' /\ \A k \in DOMAIN file : file'[k] = IF k = w.key THEN t ELSE file[k]
  BY <1>3, <1>10, OneSessionFits DEF RecordsInv
<1>12. Grows  BY <1>5, <1>8, <1>9, <1>11 DEF Grows
<1>13. PlansFit' /\ RoutesLead' /\ InBounds'
  BY DEF AppendTurns, RecordsInv, PlansFit, RoutesLead, InBounds
<1>14. QED BY <1>2, <1>11, <1>12, <1>13 DEF RecordsInv

(* A route that is registered anew leads where it led.                     *)
LEMMA OneRoute ==
  ASSUME RoutesLead, NEW r, NEW c, Leads(r, c.chat), routes' = Put(routes, r, c)
  PROVE  RoutesLead' /\ DOMAIN routes' = DOMAIN routes \cup {r}
<1>1. /\ DOMAIN routes' = DOMAIN routes \cup {r}
      /\ \A x \in DOMAIN routes' : routes'[x] = IF x = r THEN c ELSE routes[x]
  BY DEF Put
<1>2. QED BY <1>1 DEF RoutesLead

(* A route is registered before the history is written.                    *)
LEMMA RegisterRouteFits ==
  ASSUME TurnsInv, RecordsInv, NEW p \in Workers, RegisterRoute(p)
  PROVE  RecordsInv' /\ Grows
<1> DEFINE w == work[p]
<1>1. w # Idle  BY DEF RegisterRoute, Write, Idle
<1>2. WorkFits(w, DOMAIN routes) /\ routes' = Put(routes, w.route, Chat(w.m))
  BY <1>1 DEF RecordsInv, WorkersFit, RegisterRoute
<1>3. Chat(w.m).chat = In(w.m).chat  BY DEF Chat
<1>4. Leads(w.route, Chat(w.m).chat)  BY <1>2, <1>3 DEF WorkFits
<1>5. RoutesLead' /\ DOMAIN routes' = DOMAIN routes \cup {w.route}
  BY <1>2, <1>4, OneRoute DEF RecordsInv
<1>6. WorkersFit'  BY <1>5, WriteFits DEF RegisterRoute
<1>7. PlansFit'  BY <1>5 DEF RegisterRoute, RecordsInv, PlansFit, PlanFits
<1>8. SessionsFit' /\ InBounds' /\ Grows
  BY DEF RegisterRoute, RecordsInv, SessionsFit, InBounds, Grows
<1>9. QED BY <1>5, <1>6, <1>7, <1>8 DEF RecordsInv

(* A NAVI text may register its route.                                     *)
LEMMA HandleNaviTextFits ==
  ASSUME TurnsInv, RecordsInv, NEW m \in Messages, HandleNaviText(m)
  PROVE  RecordsInv' /\ Grows
<1>1. Leads(DeriveRouteKey(m), Chat(m).chat)  BY DEF Leads, Chat
<1>2. RoutesLead' /\ DOMAIN routes \subseteq DOMAIN routes'
  <2>1. CASE routes' = routes  BY <2>1 DEF RecordsInv, RoutesLead
  <2>2. CASE routes' = Put(routes, DeriveRouteKey(m), Chat(m))
    BY <1>1, <2>2, OneRoute DEF RecordsInv
  <2>3. QED BY <2>1, <2>2 DEF HandleNaviText
<1>3. PlansFit'  BY <1>2 DEF HandleNaviText, RecordsInv, PlansFit, PlanFits
<1>4. WorkersFit'  BY <1>2 DEF HandleNaviText, RecordsInv, WorkersFit, WorkFits
<1>5. SessionsFit' /\ Grows  BY DEF HandleNaviText, RecordsInv, SessionsFit, Grows
<1>6. InBounds'  BY TurnsAssumption DEF HandleNaviText, RecordsInv, InBounds, Take, TurnsInv
<1>7. QED BY <1>2, <1>3, <1>4, <1>5, <1>6 DEF RecordsInv

(* A plan names the turn and a route that is registered by then.           *)
LEMMA ReplyFits ==
  ASSUME TurnsInv, RecordsInv, NEW p \in Workers, Reply(p)
  PROVE  RecordsInv' /\ Grows
<1> DEFINE w == work[p]
           t == w.answer.turn
           q == [m |-> w.m, seq |-> w.answer.seq, route |-> w.route]
           plans == Msg[w.m].via = "inbound" /\ t # NoTurn /\ t \notin DOMAIN planned
<1>1. w # Idle /\ w.pc = "replying"  BY DEF Reply, Idle
<1>2. w \in Work /\ WorkFits(w, DOMAIN routes)
  BY <1>1 DEF TurnsInv, WorkInv, GoodWork, RecordsInv, WorkersFit
<1>3. planned' = IF plans THEN Put(planned, t, q) ELSE planned  BY DEF Reply
<1>4. work' = [work EXCEPT ![p] = Idle] /\ UNCHANGED <<file, routes, home, taken>>  BY DEF Reply
<1>5. \A x \in Workers : work'[x] = IF x = p THEN Idle ELSE work[x]
  BY <1>4 DEF TurnsInv, WorkInv
<1>6. WorkersFit'  BY <1>4, <1>5 DEF RecordsInv, WorkersFit
<1>7. PlansFit'
  <2>1. CASE plans
    <3>1. w.m \in Messages /\ w.now \in Nat  BY <1>2 DEF Work
    <3>2. t = EventFingerprint(w.m, w.now) /\ w.route \in DOMAIN routes
          /\ Leads(w.route, In(w.m).chat)
      BY <1>1, <1>2, <2>1 DEF WorkFits
    <3>3. q.m = w.m /\ q.route = w.route  OBVIOUS
    <3>4. Msg[w.m].via = "inbound"  BY <2>1
    <3>5. planned' = Put(planned, t, q)  BY <1>3, <2>1
    <3> HIDE DEF w, t, q
    <3>6. PlanFits(t, q, DOMAIN routes)  BY <3>1, <3>2, <3>3, <3>4 DEF PlanFits
    <3>7. \A x \in DOMAIN planned' : x \in DOMAIN planned \cup {t}
             /\ planned'[x] = IF x = t THEN q ELSE planned[x]
      BY <3>5 DEF Put
    <3>8. QED BY <1>4, <3>6, <3>7 DEF RecordsInv, PlansFit
  <2>2. CASE ~plans
    <3>1. planned' = planned  BY <1>3, <2>2
    <3>2. QED BY <1>4, <3>1 DEF RecordsInv, PlansFit
  <2>3. QED BY <2>1, <2>2
<1>8. SessionsFit' /\ RoutesLead' /\ InBounds' /\ Grows
  BY <1>4 DEF RecordsInv, SessionsFit, RoutesLead, InBounds, Grows
<1>9. QED BY <1>6, <1>7, <1>8 DEF RecordsInv

(* The other steps write no file.                                          *)
LEMMA OtherStepsFit ==
  ASSUME TurnsInv, RecordsInv, UNCHANGED turnsVars \/ EndProof \/ \E p \in Workers : Fail(p)
  PROVE  RecordsInv' /\ Grows
<1>1. CASE UNCHANGED turnsVars
  BY <1>1 DEF turnsVars, RecordsInv, SessionsFit, WorkersFit, PlansFit, RoutesLead, InBounds, Grows
<1>2. CASE EndProof
  <2>1. SessionsFit' /\ WorkersFit' /\ PlansFit' /\ RoutesLead' /\ Grows
    BY <1>2 DEF EndProof, RecordsInv, SessionsFit, WorkersFit, PlansFit, RoutesLead, Grows
  <2>2. home.gen \in Nat /\ MaxHomes \in Nat  BY TurnsAssumption DEF TurnsInv, Homes
  <2>3. home'.gen <= MaxHomes
    <3>1. CASE home' = home  BY <3>1 DEF RecordsInv, InBounds
    <3>2. CASE home.gen < MaxHomes /\ \E h \in Hubs : home' = [hub |-> h, gen |-> home.gen + 1]
      BY <2>2, <3>2
    <3>3. QED BY <1>2, <3>1, <3>2 DEF EndProof
  <2>4. InBounds'  BY <1>2, <2>3 DEF EndProof, RecordsInv, InBounds
  <2>5. QED BY <2>1, <2>4 DEF RecordsInv
<1>3. ASSUME NEW p \in Workers, Fail(p) PROVE RecordsInv' /\ Grows
  <2>1. work' = [work EXCEPT ![p] = Idle] /\ UNCHANGED <<file, routes, planned, home>>
        /\ taken' <= MaxTakes
    BY <1>3 DEF Fail, RecordsInv, InBounds
  <2>2. QED BY <2>1, WorkerGoesOn
<1>4. QED BY <1>1, <1>2, <1>3

(* Every step keeps the records and loses no exchange.                     *)
LEMMA StepsFit ==
  ASSUME TurnsInv, RecordsInv, [TurnsNext]_turnsVars
  PROVE  RecordsInv' /\ Grows
<1>1. CASE \E p \in Workers, m \in Messages : HandleInbound(p, m) \/ HandleGatewayTurn(p, m)
  BY <1>1, HandleInboundFits, HandleGatewayTurnFits
<1>2. CASE \E p \in Workers : SubmitTurn(p) \/ SaveSession(p) \/ RegisterRoute(p)
                              \/ AppendTurns(p) \/ Reply(p)
  BY <1>2, SubmitTurnFits, SaveSessionFits, RegisterRouteFits, AppendTurnsFits, ReplyFits
<1>3. CASE \E m \in Messages : HandleNaviText(m)  BY <1>3, HandleNaviTextFits
<1>4. CASE UNCHANGED turnsVars \/ EndProof \/ \E p \in Workers : Fail(p)  BY <1>4, OtherStepsFit
<1>5. QED BY <1>1, <1>2, <1>3, <1>4 DEF TurnsNext

(* The records fit throughout.                                             *)
THEOREM RecordsInvHolds == TurnsSpec => []RecordsInv
<1>1. TurnsInit => RecordsInv
  <2> SUFFICES ASSUME TurnsInit PROVE RecordsInv  OBVIOUS
  <2>1. DOMAIN file = {} /\ DOMAIN routes = {} /\ DOMAIN planned = {}  BY DEF TurnsInit
  <2>2. SessionsFit /\ PlansFit /\ RoutesLead  BY <2>1 DEF SessionsFit, PlansFit, RoutesLead
  <2>3. WorkersFit  BY DEF TurnsInit, WorkersFit
  <2>4. home.gen \in {0, 1} /\ taken = 0  BY DEF TurnsInit, NoHome
  <2>5. InBounds  BY <2>4, TurnsAssumption DEF InBounds
  <2>6. QED BY <2>2, <2>3, <2>5 DEF RecordsInv
<1>2. TurnsInv /\ RecordsInv /\ [TurnsNext]_turnsVars => RecordsInv'  BY StepsFit
<1>3. QED BY <1>1, <1>2, TurnsInvHolds, PTL DEF TurnsSpec

(* However turns of a chat overlap and writes fail, a session's history is *)
(* whole exchanges and loses none that is recent enough to be kept         *)
(* (append_turns under the store's lock; set_metadata reads the turns      *)
(* again).                                                                 *)
THEOREM HistoryStaysKept == TurnsSpec => HistoryIsKept
<1>1. TurnsInv /\ RecordsInv => TurnsTypeOK /\ HistoryKeepsPairs
  <2> SUFFICES ASSUME TurnsInv, RecordsInv PROVE TurnsTypeOK /\ HistoryKeepsPairs  OBVIOUS
  <2>1. ASSUME NEW k \in DOMAIN file
        PROVE  /\ DOMAIN file[k].meta = DOMAIN Empty.meta /\ WholeHistory(file[k].turns)
    <3>1. file[k].meta \in Meta  BY DEF TurnsInv, FileInv, GoodSession, Session
    <3>2. DOMAIN file[k].meta = {"route", "last", "handle", "cont"}  BY <3>1 DEF Meta
    <3>3. DOMAIN Empty.meta = {"route", "last", "handle", "cont"}  BY DEF Empty
    <3>4. WholeHistory(file[k].turns)  BY DEF RecordsInv, SessionsFit, SessionFits
    <3>5. QED BY <3>2, <3>3, <3>4
  <2>2. \A k \in DOMAIN file : Len(file[k].turns) <= MaxTurns  BY <2>1 DEF WholeHistory
  <2>3. \A r \in DOMAIN routes : routes[r].chat \in {In(m).chat : m \in Messages}
    BY DEF RecordsInv, RoutesLead, Leads
  <2>4. ASSUME NEW p \in Workers
        PROVE  work[p].pc \in {"idle", "asking", "saving", "routing", "appending", "replying"}
    <3>1. CASE work[p] = Idle  BY <3>1 DEF Idle
    <3>2. CASE work[p] \in Work  BY <3>2 DEF Work, Writing
    <3>3. QED BY <3>1, <3>2 DEF TurnsInv, WorkInv, GoodWork
  <2>5. TurnsTypeOK  BY <2>1, <2>2, <2>3, <2>4 DEF TurnsTypeOK, RecordsInv, InBounds
  <2>6. HistoryKeepsPairs  BY <2>1, WholeHasPairs DEF HistoryKeepsPairs
  <2>7. QED BY <2>5, <2>6
<1>2. TurnsInv /\ RecordsInv /\ [TurnsNext]_turnsVars
      => [\A k \in DOMAIN file :
            file'[k].turns = file[k].turns
            \/ \E m \in Messages : file'[k].turns = LastTurns(file[k].turns \o Pair(m))]_turnsVars
  BY StepsFit DEF Grows
<1>3. QED BY <1>1, <1>2, TurnsInvHolds, RecordsInvHolds, PTL
  DEF TurnsSpec, HistoryIsKept, HistoryOnlyGrows

(* What replies need of the messages: a provider gives each one an id, no  *)
(* two the same, and a route key is used for one chat.                     *)
MessagesHaveIds ==
  \A m, k \in Messages : Msg[m].via = "inbound" /\ Msg[k].via = "inbound" =>
    \A i, j \in Nat : EventFingerprint(m, i) = EventFingerprint(k, j) <=> m = k

RoutesNameOneChat ==
  \A m, k \in Messages : DeriveRouteKey(m) = DeriveRouteKey(k) => In(m).chat = In(k).chat

(* For such messages, copies, retries and overlapping turns plan one reply *)
(* for each, over a route that is registered by then and leads back to the *)
(* chat (event_fingerprint, persist_delivery_plan, register_route).        *)
THEOREM RepliesStaySound ==
  ASSUME MessagesHaveIds, RoutesNameOneChat
  PROVE  TurnsSpec => []RepliesAreSound
<1>1. RecordsInv => RepliesAreSound
  <2> SUFFICES ASSUME RecordsInv PROVE RepliesAreSound  OBVIOUS
  <2>1. \A t \in DOMAIN planned : PlanFits(t, planned[t], DOMAIN routes)
    BY DEF RecordsInv, PlansFit
  <2>2. ASSUME NEW t \in DOMAIN planned, NEW u \in DOMAIN planned
        PROVE  planned[t].m = planned[u].m <=> t = u
    <3>1. PICK i \in Nat : t = EventFingerprint(planned[t].m, i)  BY <2>1 DEF PlanFits
    <3>2. PICK j \in Nat : u = EventFingerprint(planned[u].m, j)  BY <2>1 DEF PlanFits
    <3>3. QED BY <2>1, <3>1, <3>2 DEF PlanFits, MessagesHaveIds
  <2>3. ASSUME NEW t \in DOMAIN planned
        PROVE  LET r == planned[t].route IN
               r \in DOMAIN routes /\ routes[r].chat = In(planned[t].m).chat
    <3> DEFINE r == planned[t].route
    <3>1. r \in DOMAIN routes /\ Leads(r, In(planned[t].m).chat)  BY <2>1 DEF PlanFits
    <3>2. Leads(r, routes[r].chat)  BY <3>1 DEF RecordsInv, RoutesLead
    <3> HIDE DEF r
    <3>3. routes[r].chat = In(planned[t].m).chat  BY <3>1, <3>2 DEF Leads, RoutesNameOneChat
    <3>4. QED BY <3>1, <3>3 DEF r
  <2>4. QED BY <2>2, <2>3 DEF RepliesAreSound, OneReplyPerMessage, ReplyHasRoute
<1>2. QED BY <1>1, RecordsInvHolds, PTL

-----------------------------------------------------------------------------
(* Notifications.  A plan is found again by its idempotency key, a request *)
(* that comes with that key is compared with it by fingerprint.  So all    *)
(* that is sent must be in the fingerprint: this is the message it stands  *)
(* for.                                                                    *)
Rebuilt(f) ==
  [platform |-> f.platform, chat |-> f.chat, text |-> f.content.text,
   attachments |-> HintedNotificationAttachments(f.content.artifacts, f.content.hints),
   id |-> f.id, routeKey |-> f.routeKey, mode |-> f.mode,
   handle |-> f.handle, selection |-> f.selection]

(* A plan sends what its fingerprint says, a saved response belongs to the *)
(* plan, and nothing is accepted without one.                              *)
PlanIsRebuilt == plan.set => plan.outbound = Rebuilt(plan.fingerprint)
RecordHasPlan == record.set => plan.set /\ record.fingerprint = plan.fingerprint
AcceptedHasPlan == last.call \in {"planned", "replayed"} => plan.set
PlanInv == PlanIsRebuilt /\ RecordHasPlan /\ AcceptedHasPlan /\ NotificationsAreSafe

(* The effective request leaves out nothing of the outbound message that   *)
(* handle_notification_delivery_from makes of the same notification.       *)
LEMMA FingerprintCoversPlan ==
  ASSUME NEW n, NEW r
  PROVE  Outbound(n, r) = Rebuilt(EffectiveRequest(n, r))
<1> DEFINE c == DeliveryContent(n)
<1> HIDE DEF c
<1>1. /\ EffectiveRequest(n, r).content = c
      /\ EffectiveRequest(n, r).platform = r.platform
      /\ EffectiveRequest(n, r).chat = r.chat
      /\ EffectiveRequest(n, r).id = n.id
      /\ EffectiveRequest(n, r).routeKey = n.routeKey
      /\ EffectiveRequest(n, r).mode = <<n.mode, n.replyTo, n.update>>
      /\ EffectiveRequest(n, r).handle = IF r.platform = "whatsapp" THEN n.handle ELSE ""
      /\ EffectiveRequest(n, r).selection = n.selection
  BY DEF EffectiveRequest, c
<1> DEFINE f == EffectiveRequest(n, r)
<1> HIDE DEF f
<1> QED  BY <1>1, Zenon DEF Outbound, Rebuilt, f, c

(* Nothing was planned, recorded or accepted at first.                     *)
LEMMA PlanStarts == PlanInit => PlanInv
BY DEF PlanInit, PlanInv, PlanIsRebuilt, RecordHasPlan, AcceptedHasPlan, NotificationsAreSafe,
       SameKeySamePlan, FleetIsNotBypassed, NoPlan, NoRecord

(* A notification is turned down, finds its response, or makes or finds    *)
(* the plan of its fingerprint (handle_notification_delivery_from).        *)
LEMMA NotificationKeeps ==
  ASSUME PlanInv, NEW n \in Notices, NotificationDelivery(n)
  PROVE  PlanInv'
<1> DEFINE r == ResolveNotificationRoute(n)
           f == EffectiveRequest(n, r)
           out == Outbound(n, r)
           split == SplitOutboundItems(out.text, out.attachments)
<1>1. out = Rebuilt(f)  BY FingerprintCoversPlan
<1>2. out.platform = r.platform  BY DEF Outbound
<1> DEFINE Turned   == last'.call = "refused" /\ UNCHANGED <<plan, record>>
           Replayed == /\ record.set /\ record.fingerprint = f
                       /\ last' = [call |-> "replayed", out |-> out]
                       /\ UNCHANGED <<plan, record>>
           New      == [set |-> TRUE, fingerprint |-> f, outbound |-> out, items |-> split.items]
           Taken    == /\ ~NeedsItsDevice(n, r)
                       /\ (plan.set => plan.fingerprint = f)
                       /\ plan' = IF ~plan.set THEN New ELSE plan
                       /\ (record' = record \/ record' = [set |-> TRUE, fingerprint |-> f])
                       /\ last' = [call |-> "planned", out |-> out, adapter |-> r.adapter,
                                   items |-> split.items, selection |-> n.selection]
<1>3. Turned \/ Replayed \/ (~record.set /\ Taken)
  <2>1. \A w : Refused(n, w) => Turned  BY DEF Refused
  <2>2. r = ResolveNotificationRoute(n) /\ f = EffectiveRequest(n, r) /\ out = Outbound(n, r)
        /\ split = SplitOutboundItems(out.text, out.attachments)
    OBVIOUS
  <2> HIDE DEF r, f, out, split, Turned
  <2> QED  BY <2>1, <2>2 DEF NotificationDelivery
<1> HIDE DEF r, f, out, split
<1>4. CASE Turned
  BY <1>4 DEF PlanInv, PlanIsRebuilt, RecordHasPlan, AcceptedHasPlan, NotificationsAreSafe,
       SameKeySamePlan, FleetIsNotBypassed
<1>5. CASE Replayed
  BY <1>1, <1>5 DEF PlanInv, PlanIsRebuilt, RecordHasPlan, AcceptedHasPlan, NotificationsAreSafe,
       SameKeySamePlan, FleetIsNotBypassed
<1>6. CASE ~record.set /\ Taken
  <2>1. plan'.set /\ plan'.fingerprint = f /\ plan'.outbound = out
    BY <1>1, <1>6 DEF PlanInv, PlanIsRebuilt
  <2>2. record'.set => record'.fingerprint = f  BY <1>6
  <2>3. last'.call = "planned" /\ last'.out = out /\ last'.selection = n.selection  BY <1>6
  <2>4. out.platform = "whatsapp" /\ Fleet => n.selection  BY <1>2, <1>6 DEF NeedsItsDevice
  <2> QED  BY <1>1, <2>1, <2>2, <2>3, <2>4
           DEF PlanInv, PlanIsRebuilt, RecordHasPlan, AcceptedHasPlan, NotificationsAreSafe,
               SameKeySamePlan, FleetIsNotBypassed
<1> QED  BY <1>3, <1>4, <1>5, <1>6

(* A repeated notification never sends something else under its old key,   *)
(* and with a fleet none goes around the device that holds the WhatsApp    *)
(* number, whatever the notifications say and however routes change in     *)
(* between (handle_notification_delivery_from).                            *)
THEOREM NotificationsStaySafe == PlanSpec => []NotificationsAreSafe
<1>1. PlanInv /\ [PlanNext]_planVars => PlanInv'
  <2> SUFFICES ASSUME PlanInv, [PlanNext]_planVars PROVE PlanInv'  OBVIOUS
  <2> USE DEF PlanInv, PlanIsRebuilt, RecordHasPlan, AcceptedHasPlan, NotificationsAreSafe,
               SameKeySamePlan, FleetIsNotBypassed
  <2>1. CASE RouteChanges  BY <2>1 DEF RouteChanges
  <2>2. ASSUME NEW a \in Answers, TurnReply(a) PROVE PlanInv'
    <3>1. last'.call = "turn" /\ UNCHANGED <<plan, record>>  BY <2>2 DEF TurnReply
    <3> QED  BY <3>1
  <2>3. ASSUME NEW n \in Notices, NotificationDelivery(n) PROVE PlanInv'
    BY <2>3, NotificationKeeps
  <2>4. CASE UNCHANGED planVars  BY <2>4 DEF planVars
  <2> QED  BY <2>1, <2>2, <2>3, <2>4 DEF PlanNext
<1> QED  BY <1>1, PlanStarts, PTL DEF PlanSpec, PlanInv

-----------------------------------------------------------------------------
(* PlanIsFit.  It says nothing of the past, so what has to be followed is  *)
(* not a run but the data: from the lists of an answer through filters,    *)
(* limits and the split to the attachments of the items.  Each step keeps  *)
(* track of where an element came from and that it came from there once,   *)
(* so that counting what is shown is counting what was chosen.             *)

(* The rank of a position among the positions I: between 1 and their       *)
(* number, and larger for a larger position.                               *)
LEMMA RankFits ==
  ASSUME NEW n \in Nat, NEW I \in SUBSET (1 .. n)
  PROVE  /\ IsFiniteSet(I) /\ Cardinality(I) \in 0 .. n
         /\ \A i \in I : Rank(I, i) \in 1 .. Cardinality(I)
         /\ \A i, j \in I : i < j => Rank(I, i) < Rank(I, j)
<1>1. IsFiniteSet(1 .. n) /\ Cardinality(1 .. n) = n  BY FS_Interval
<1>2. IsFiniteSet(I) /\ Cardinality(I) \in Nat /\ Cardinality(I) <= n
  BY <1>1, FS_Subset, FS_CardinalityType
<1> DEFINE Up(i) == {j \in I : j <= i}
<1>3. ASSUME NEW i \in I PROVE Rank(I, i) \in 1 .. Cardinality(I)
  <2>1. Up(i) \in SUBSET I /\ i \in Up(i)  OBVIOUS
  <2>2. IsFiniteSet(Up(i)) /\ Cardinality(Up(i)) \in Nat /\ Cardinality(Up(i)) <= Cardinality(I)
    BY <1>2, <2>1, FS_Subset, FS_CardinalityType
  <2>3. Cardinality(Up(i)) # 0  BY <2>1, <2>2, FS_EmptySet
  <2> QED  BY <1>2, <2>2, <2>3 DEF Rank
<1>4. ASSUME NEW i \in I, NEW j \in I, i < j PROVE Rank(I, i) < Rank(I, j)
  <2>1. \A x \in Up(i) : x <= j  BY <1>4
  <2>2. Up(i) \in SUBSET Up(j)  BY <2>1
  <2>3. j \in Up(j) /\ j \notin Up(i)  BY <1>4
  <2>4. IsFiniteSet(Up(j)) /\ IsFiniteSet(Up(i))  BY <1>2, FS_Subset
  <2>5. Cardinality(Up(i)) <= Cardinality(Up(j)) /\ Cardinality(Up(i)) # Cardinality(Up(j))
    BY <2>2, <2>3, <2>4, FS_Subset
  <2>6. Cardinality(Up(i)) \in Nat /\ Cardinality(Up(j)) \in Nat  BY <2>4, FS_CardinalityType
  <2> QED  BY <2>5, <2>6 DEF Rank
<1> QED  BY <1>2, <1>3, <1>4

(* Every number up to the size of I is the rank of a position: ranks are   *)
(* an injection of I into as many numbers, hence onto them.  This takes    *)
(* the place of an induction over the filtered list.                       *)
LEMMA EveryRankIsTaken ==
  ASSUME NEW n \in Nat, NEW I \in SUBSET (1 .. n), NEW k \in 1 .. Cardinality(I)
  PROVE  At(I, k) \in I /\ Rank(I, At(I, k)) = k
<1> DEFINE f == [i \in I |-> Rank(I, i)]
           T == 1 .. Cardinality(I)
<1>1. Cardinality(I) \in Nat  BY RankFits
<1>2. f \in [I -> T]  BY RankFits
<1>3. ASSUME NEW i \in I, NEW j \in I, i # j PROVE f[i] # f[j]
  <2>1. i < j \/ j < i  BY <1>3
  <2>2. f[i] = Rank(I, i) /\ f[j] = Rank(I, j)  OBVIOUS
  <2>3. Rank(I, i) \in Nat /\ Rank(I, j) \in Nat  BY <1>2, <2>2
  <2> QED  BY <2>1, <2>2, <2>3, RankFits
<1>4. f \in Injection(I, T)  BY <1>2, <1>3 DEF Injection, IsInjective
<1>5. IsFiniteSet(T) /\ Cardinality(T) = Cardinality(I)  BY <1>1, FS_Interval
<1>6. f \in Surjection(I, T)
  <2> HIDE DEF f, T
  <2> QED  BY <1>4, <1>5, FS_Injection
<1>7. \E i \in I : Rank(I, i) = k  BY <1>6 DEF Surjection
<1> QED  BY <1>7 DEF At

(* What Kept returns: elements of s, at different positions of I each,     *)
(* and nothing only if I is empty.                                         *)
LEMMA KeptFits ==
  ASSUME NEW S, NEW s \in Seq(S), NEW I \in SUBSET (DOMAIN s)
  PROVE  /\ Kept(s, I) \in Seq(S) /\ Len(Kept(s, I)) \in 0 .. Len(s)
         /\ \A k \in DOMAIN Kept(s, I) : At(I, k) \in I /\ Kept(s, I)[k] = s[At(I, k)]
         /\ \A k, l \in DOMAIN Kept(s, I) : k # l => At(I, k) # At(I, l)
         /\ Kept(s, I) = <<>> <=> I = {}
<1> DEFINE n == Len(s)
           c == Cardinality(I)
           K == Kept(s, I)
<1>1. n \in Nat /\ DOMAIN s = 1 .. n /\ \A i \in 1 .. n : s[i] \in S  BY LenProperties, ElementOfSeq
<1>2. I \in SUBSET (1 .. n)  BY <1>1
<1>3. IsFiniteSet(I) /\ c \in 0 .. n  BY <1>1, <1>2, RankFits
<1>4. \A k \in 1 .. c : At(I, k) \in I /\ Rank(I, At(I, k)) = k
  BY <1>1, <1>2, EveryRankIsTaken
<1>5. DOMAIN K = 1 .. c /\ \A k \in 1 .. c : K[k] = s[At(I, k)]  BY DEF Kept
<1>6. K \in Seq(S) /\ Len(K) = c
  <2>1. \A k \in 1 .. c : s[At(I, k)] \in S  BY <1>1, <1>2, <1>4
  <2>2. K \in [1 .. c -> S]  BY <2>1 DEF Kept
  <2> QED  BY <1>3, <2>2, <1>5
<1>7. K = <<>> <=> I = {}
  <2>1. K = <<>> <=> c = 0
    <3> HIDE DEF K, c
    <3> QED  BY <1>6, EmptySeq
  <2> QED  BY <1>3, <2>1, FS_EmptySet
<1>8. \A k, l \in 1 .. c : k # l => At(I, k) # At(I, l)  BY <1>4
<1> QED  BY <1>3, <1>4, <1>5, <1>6, <1>7, <1>8

(* find(): the first of the kept elements is one of those filtered for.    *)
LEMMA HeadIsKept ==
  ASSUME NEW S, NEW s \in Seq(S), NEW I \in SUBSET (DOMAIN s), Kept(s, I) # <<>>
  PROVE  \E i \in I : Head(Kept(s, I)) = s[i]
<1> DEFINE K == Kept(s, I)
<1>1. K \in Seq(S) /\ \A k \in DOMAIN K : At(I, k) \in I /\ K[k] = s[At(I, k)]  BY KeptFits
<1> HIDE DEF K
<1>2. 1 \in DOMAIN K /\ Head(K) = K[1]  BY <1>1, EmptySeq, LenProperties DEF K
<1> QED  BY <1>1, <1>2 DEF K

(* take(n): at most n elements, the first ones, and some if there are      *)
(* any.                                                                    *)
LEMMA FirstOfFits ==
  ASSUME NEW S, NEW s \in Seq(S), NEW n \in Nat
  PROVE  /\ FirstOf(s, n) \in Seq(S)
         /\ Len(FirstOf(s, n)) <= n /\ Len(FirstOf(s, n)) <= Len(s)
         /\ \A i \in DOMAIN FirstOf(s, n) : i \in DOMAIN s /\ FirstOf(s, n)[i] = s[i]
         /\ s # <<>> /\ n > 0 => FirstOf(s, n) # <<>>
<1> DEFINE m == IF n < Len(s) THEN n ELSE Len(s)
           F == SubSeq(s, 1, m)
<1>1. Len(s) \in Nat /\ DOMAIN s = 1 .. Len(s) /\ \A i \in 1 .. Len(s) : s[i] \in S
  BY LenProperties, ElementOfSeq
<1>2. m \in Nat /\ m <= n /\ m <= Len(s)  BY <1>1
<1> HIDE DEF m
<1>3. \A i \in 1 .. m : s[i] \in S  BY <1>1, <1>2
<1>4. /\ F \in Seq(S) /\ Len(F) = IF 1 <= m THEN m - 1 + 1 ELSE 0
      /\ \A i \in 1 .. m - 1 + 1 : F[i] = s[1 + i - 1]
  BY <1>2, <1>3, SubSeqProperties
<1>5. Len(F) = m /\ DOMAIN F = 1 .. m /\ \A i \in 1 .. m : F[i] = s[i]
  <2> HIDE DEF F
  <2> QED  BY <1>2, <1>4, LenProperties
<1>6. s # <<>> /\ n > 0 => F # <<>>
  <2> SUFFICES ASSUME s # <<>>, n > 0 PROVE F # <<>>  OBVIOUS
  <2>1. Len(s) > 0  BY EmptySeq, <1>1
  <2>2. Len(F) > 0  BY <2>1, <1>1, <1>5 DEF m
  <2>3. Len(<<>>) = 0  BY EmptySeq
  <2> HIDE DEF F
  <2> QED  BY <2>2, <2>3
<1>7. FirstOf(s, n) = F  BY DEF FirstOf, m
<1> HIDE DEF F
<1> QED  BY <1>1, <1>2, <1>4, <1>5, <1>6, <1>7

(* native_image_limit answers with 0 to 3, whatever number a hint gives.   *)
LEMMA LimitFits ==
  ASSUME NEW hints \in Seq(Hint)
  PROVE  NativeImageLimit(hints) \in 0 .. 3
<1> DEFINE I == {i \in DOMAIN hints : hints[i].kind = "native_image"}
           asks == Kept(hints, I)
<1>1. CASE asks = <<>>  BY <1>1 DEF NativeImageLimit
<1>2. CASE asks # <<>>
  <2>1. I \in SUBSET (DOMAIN hints)  OBVIOUS
  <2>2. asks \in Seq(Hint)
    <3> HIDE DEF I
    <3> QED  BY <2>1, KeptFits
  <2>3. Head(asks) \in Hint
    <3> HIDE DEF asks
    <3> QED  BY <1>2, <2>2, HeadTailProperties
  <2>4. Head(asks).max \in Nat  BY <2>3 DEF Hint
  <2>5. NativeImageLimit(hints) = LET n == Head(asks).max IN
                                  IF n < 1 THEN 1 ELSE IF n > 3 THEN 3 ELSE n
    BY <1>2 DEF NativeImageLimit
  <2> HIDE DEF asks
  <2> QED  BY <2>4, <2>5
<1> QED  BY <1>1, <1>2

(* Videos of the artifacts: each has a video type and the id of an         *)
(* artifact with one, and no id comes twice.                               *)
VideosOf(v, artifacts) ==
  /\ v \in Seq(Artifact)
  /\ \A i \in DOMAIN v :
       /\ v[i].mime = "video"
       /\ \E j \in DOMAIN artifacts : v[i].id = artifacts[j].id /\ artifacts[j].mime = "video"
  /\ \A i, j \in DOMAIN v : i # j => v[i].id # v[j].id

(* hinted_native_videos chooses such videos, also when hints repeat or     *)
(* the artifacts do.                                                       *)
LEMMA VideosFit ==
  ASSUME NEW artifacts \in Seq(Artifact), NEW hints \in Seq(Hint)
  PROVE  VideosOf(HintedNativeVideos(artifacts, hints), artifacts)
<1> DEFINE G == {i \in DOMAIN hints : hints[i].kind = "native_video"
                   /\ hints[i].fallback = "file" /\ hints[i].id # ""}
           good == Kept(hints, G)
           Of(id) == {i \in DOMAIN artifacts : artifacts[i].id = id}
           Found(id) == Kept(artifacts, Of(id))
           Fits(id) == Found(id) # <<>> /\ Head(Found(id)).mime = "video"
                       /\ HasLocation(Head(Found(id)))
           O == {i \in DOMAIN good : Fits(good[i].id)
                   /\ \A j \in 1 .. i - 1 : good[j].id # good[i].id}
           once == Kept(good, O)
           Item(k) == [Head(Found(once[k].id)) EXCEPT !.fallback = TRUE]
           v == [k \in DOMAIN once |-> Item(k)]
<1>1. HintedNativeVideos(artifacts, hints) = v  BY DEF HintedNativeVideos
<1>2. good \in Seq(Hint)
  <2>1. G \in SUBSET (DOMAIN hints)  OBVIOUS
  <2> HIDE DEF G
  <2> QED  BY <2>1, KeptFits
<1> HIDE DEF good
<1>3. O \in SUBSET (DOMAIN good)  OBVIOUS
<1>4. \A k \in O : Fits(good[k].id) /\ \A j \in 1 .. k - 1 : good[j].id # good[k].id  OBVIOUS
<1>5. ASSUME NEW id, Fits(id)
      PROVE  \E j \in DOMAIN artifacts : Head(Found(id)) = artifacts[j] /\ artifacts[j].id = id
  <2>1. Of(id) \in SUBSET (DOMAIN artifacts) /\ \A i \in Of(id) : artifacts[i].id = id  OBVIOUS
  <2>2. Found(id) # <<>>  BY <1>5
  <2>3. \E i \in Of(id) : Head(Found(id)) = artifacts[i]
    <3> HIDE DEF Of
    <3> QED  BY <2>1, <2>2, HeadIsKept
  <2> HIDE DEF Of, Found
  <2> QED  BY <2>1, <2>3
<1>6. \A id : Fits(id) => Head(Found(id)).mime = "video"  OBVIOUS
<1> HIDE DEF Fits, Found, O
<1>7. /\ once \in Seq(Hint)
      /\ \A k \in DOMAIN once : At(O, k) \in O /\ once[k] = good[At(O, k)]
      /\ \A k, l \in DOMAIN once : k # l => At(O, k) # At(O, l)
  BY <1>2, <1>3, KeptFits
<1> HIDE DEF once
<1>8. ASSUME NEW k \in DOMAIN once
      PROVE  /\ Item(k) \in Artifact /\ Item(k).mime = "video" /\ Item(k).id = once[k].id
             /\ \E j \in DOMAIN artifacts : Item(k).id = artifacts[j].id
                                             /\ artifacts[j].mime = "video"
  <2> DEFINE id == once[k].id
  <2>1. Fits(id)  BY <1>4, <1>7, <1>8
  <2> HIDE DEF id
  <2>2. PICK j \in DOMAIN artifacts : Head(Found(id)) = artifacts[j] /\ artifacts[j].id = id
    BY <1>5, <2>1
  <2>3. artifacts[j] \in Artifact  BY <2>2, LenProperties, ElementOfSeq
  <2>4. artifacts[j].mime = "video"  BY <1>6, <2>1, <2>2
  <2>5. Item(k) = [artifacts[j] EXCEPT !.fallback = TRUE]  BY <2>2 DEF id
  <2>6. Item(k) \in Artifact /\ Item(k).mime = "video" /\ Item(k).id = artifacts[j].id
    <3> DEFINE x == artifacts[j]
    <3> HIDE DEF x, Item
    <3>1. x \in Artifact /\ x.mime = "video" /\ Item(k) = [x EXCEPT !.fallback = TRUE]
      BY <2>3, <2>4, <2>5 DEF x
    <3>2. Item(k) \in Artifact /\ Item(k).mime = "video" /\ Item(k).id = x.id
      BY <3>1 DEF Artifact
    <3> QED  BY <3>2 DEF x
  <2> QED  BY <2>2, <2>4, <2>6 DEF id
<1>9. ASSUME NEW k \in DOMAIN once, NEW l \in DOMAIN once, k # l PROVE once[k].id # once[l].id
  <2> DEFINE p == At(O, k)
             q == At(O, l)
  <2>1. p \in O /\ q \in O /\ p # q /\ once[k] = good[p] /\ once[l] = good[q]  BY <1>7, <1>9
  <2>2. p \in Nat \ {0} /\ q \in Nat \ {0}  BY <1>2, <1>3, <2>1, LenProperties
  <2> HIDE DEF p, q
  <2>3. p \in 1 .. q - 1 \/ q \in 1 .. p - 1  BY <2>1, <2>2
  <2> QED  BY <1>4, <2>1, <2>3
<1>10. v \in Seq(Artifact) /\ DOMAIN v = DOMAIN once
  <2>1. Len(once) \in Nat /\ DOMAIN once = 1 .. Len(once)  BY <1>7, LenProperties
  <2>2. \A k \in DOMAIN once : Item(k) \in Artifact  BY <1>8
  <2> HIDE DEF Item
  <2>3. v \in [1 .. Len(once) -> Artifact]  BY <2>1, <2>2
  <2> QED  BY <2>1, <2>3
<1>11. \A k \in DOMAIN v : v[k] = Item(k)  OBVIOUS
<1> HIDE DEF v, Item
<1> QED  BY <1>1, <1>8, <1>9, <1>10, <1>11 DEF VideosOf

(* The attachments that count against the limit.                           *)
Pictures(r) == {i \in DOMAIN r : r[i].mime # "video"}
FewPictures(r) == IsFiniteSet(Pictures(r)) /\ Cardinality(Pictures(r)) <= 3

(* An interval of m numbers has m elements.                                *)
LEMMA IntervalCounts ==
  ASSUME NEW n \in Nat, NEW m \in Nat
  PROVE  IsFiniteSet(n + 1 .. n + m) /\ Cardinality(n + 1 .. n + m) = m
<1> DEFINE a == n + 1
           b == n + m
<1>1. a \in Int /\ b \in Int  OBVIOUS
<1> HIDE DEF a, b
<1>2. IsFiniteSet(a .. b) /\ Cardinality(a .. b) = IF a > b THEN 0 ELSE b - a + 1
  BY <1>1, FS_Interval
<1> QED  BY <1>2 DEF a, b

(* The same, from 1.                                                       *)
LEMMA UpToCounts ==
  ASSUME NEW n \in Nat
  PROVE  IsFiniteSet(1 .. n) /\ Cardinality(1 .. n) = n
BY FS_Interval

(* Three attachments and any number of videos, in either order, are        *)
(* within the limit: before the videos in a reply of Weixin, after them    *)
(* in a notification.                                                      *)
LEMMA VideosAreNotCounted ==
  ASSUME NEW c \in Seq(Artifact), NEW v \in Seq(Artifact), Len(c) <= 3,
         \A i \in DOMAIN v : v[i].mime = "video"
  PROVE  FewPictures(c \o v) /\ FewPictures(v \o c)
<1>1. /\ Len(c) \in Nat /\ DOMAIN c = 1 .. Len(c)
      /\ Len(v) \in Nat /\ DOMAIN v = 1 .. Len(v)
  BY LenProperties
<1> DEFINE m == Len(c)
           n == Len(v)
<1>2. FewPictures(c \o v)
  <2> DEFINE r == c \o v
  <2>1. r \in Seq(Artifact) /\ Len(r) = m + n
        /\ \A i \in 1 .. m + n : r[i] = IF i <= m THEN c[i] ELSE v[i - m]
    BY ConcatProperties
  <2>2. DOMAIN r = 1 .. m + n  BY <2>1, LenProperties
  <2> HIDE DEF r
  <2>3. ASSUME NEW i \in 1 .. m + n, i > m PROVE r[i].mime = "video"
    <3>1. i - m \in 1 .. n  BY <1>1, <2>3
    <3> QED  BY <1>1, <2>1, <2>3, <3>1
  <2>4. Pictures(r) \in SUBSET (1 .. m)  BY <1>1, <2>2, <2>3 DEF Pictures
  <2>5. IsFiniteSet(1 .. m) /\ Cardinality(1 .. m) = m
    <3>1. m \in Nat  BY <1>1
    <3> HIDE DEF m
    <3> QED  BY <3>1, UpToCounts
  <2>6. IsFiniteSet(Pictures(r)) /\ Cardinality(Pictures(r)) <= m /\ Cardinality(Pictures(r)) \in Nat
    BY <2>4, <2>5, FS_Subset, FS_CardinalityType
  <2> QED  BY <1>1, <2>6 DEF FewPictures, r
<1>3. FewPictures(v \o c)
  <2> DEFINE r == v \o c
  <2>1. r \in Seq(Artifact) /\ Len(r) = n + m
        /\ \A i \in 1 .. n + m : r[i] = IF i <= n THEN v[i] ELSE c[i - n]
    BY ConcatProperties
  <2>2. DOMAIN r = 1 .. n + m  BY <2>1, LenProperties
  <2> HIDE DEF r
  <2>3. Pictures(r) \in SUBSET (n + 1 .. n + m)
    <3>1. \A i \in 1 .. n : r[i].mime = "video"  BY <1>1, <2>1
    <3> QED  BY <1>1, <2>2, <3>1 DEF Pictures
  <2>4. IsFiniteSet(n + 1 .. n + m) /\ Cardinality(n + 1 .. n + m) = m
    <3>1. n \in Nat /\ m \in Nat  BY <1>1
    <3> HIDE DEF n, m
    <3> QED  BY <3>1, IntervalCounts
  <2>5. IsFiniteSet(Pictures(r)) /\ Cardinality(Pictures(r)) <= m /\ Cardinality(Pictures(r)) \in Nat
    BY <2>3, <2>4, FS_Subset, FS_CardinalityType
  <2> QED  BY <1>1, <2>5 DEF FewPictures, r
<1> QED  BY <1>2, <1>3

(* Attachments with the ids of artifacts.                                  *)
Chosen(r, artifacts) ==
  r \in Seq(Artifact) /\ \A i \in DOMAIN r : \E j \in DOMAIN artifacts : r[i].id = artifacts[j].id

(* Three attachments are within the limit.                                 *)
LEMMA FewAreEnough ==
  ASSUME NEW c \in Seq(Artifact), Len(c) <= 3
  PROVE  FewPictures(c)
<1>1. <<>> \in Seq(Artifact) /\ \A i \in DOMAIN <<>> : <<>>[i].mime = "video"  BY EmptySeq
<1>2. c \o <<>> = c  BY ConcatEmptySeq
<1> QED  BY <1>1, <1>2, VideosAreNotCounted

(* Two lists of attachments chosen from the same artifacts are one such    *)
(* list together.                                                          *)
LEMMA ChosenTogether ==
  ASSUME NEW c, NEW v, NEW artifacts, Chosen(c, artifacts), Chosen(v, artifacts)
  PROVE  Chosen(c \o v, artifacts)
<1> DEFINE r == c \o v
<1>1. c \in Seq(Artifact) /\ v \in Seq(Artifact)  BY DEF Chosen
<1>2. r \in Seq(Artifact) /\ Len(r) = Len(c) + Len(v)
      /\ \A i \in 1 .. Len(c) + Len(v) : r[i] = IF i <= Len(c) THEN c[i] ELSE v[i - Len(c)]
  BY <1>1, ConcatProperties
<1>3. /\ Len(c) \in Nat /\ DOMAIN c = 1 .. Len(c)
      /\ Len(v) \in Nat /\ DOMAIN v = 1 .. Len(v)
      /\ DOMAIN r = 1 .. Len(r)
  BY <1>1, <1>2, LenProperties
<1> HIDE DEF r
<1>4. ASSUME NEW i \in DOMAIN r PROVE \E j \in DOMAIN artifacts : r[i].id = artifacts[j].id
  <2>1. CASE i <= Len(c)
    <3>1. i \in DOMAIN c /\ r[i] = c[i]  BY <1>2, <1>3, <1>4, <2>1
    <3> QED  BY <3>1 DEF Chosen
  <2>2. CASE ~(i <= Len(c))
    <3>1. i - Len(c) \in DOMAIN v /\ r[i] = v[i - Len(c)]  BY <1>2, <1>3, <1>4, <2>2
    <3> QED  BY <3>1 DEF Chosen
  <2> QED  BY <2>1, <2>2
<1> QED  BY <1>2, <1>4 DEF Chosen, r

(* Attachments that are artifacts of the answer, each from a place of its  *)
(* own; a clash of ids; what makes the refusal of an answer founded.       *)
Copied(r, artifacts) ==
  \E h \in [DOMAIN r -> DOMAIN artifacts] :
    /\ \A i \in DOMAIN r : r[i] = artifacts[h[i]]
    /\ \A i, j \in DOMAIN r : h[i] = h[j] => i = j

Clash(r)   == \E i, j \in DOMAIN r : i # j /\ r[i].id = r[j].id
Odd(a)     == a.kind = "image" /\ a.mime = "video"
Founded(adapter, artifacts) ==
  Clash(artifacts) \/ (adapter = "weixin" /\ \E i \in DOMAIN artifacts : Odd(artifacts[i]))

(* Copies have ids of artifacts, and clash only if the artifacts do.       *)
LEMMA CopiedIsChosen ==
  ASSUME NEW r \in Seq(Artifact), NEW artifacts, Copied(r, artifacts)
  PROVE  Chosen(r, artifacts) /\ (Clash(r) => Clash(artifacts))
<1>1. PICK h \in [DOMAIN r -> DOMAIN artifacts] :
        /\ \A i \in DOMAIN r : r[i] = artifacts[h[i]]
        /\ \A i, j \in DOMAIN r : h[i] = h[j] => i = j
  BY DEF Copied
<1>2. Chosen(r, artifacts)  BY <1>1 DEF Chosen
<1>3. Clash(r) => Clash(artifacts)  BY <1>1 DEF Clash
<1> QED  BY <1>2, <1>3

(* A selection of copies, each taken once, is a copy.                      *)
LEMMA PartIsCopied ==
  ASSUME NEW s, NEW r, NEW artifacts, Copied(s, artifacts),
         NEW g \in [DOMAIN r -> DOMAIN s],
         \A i \in DOMAIN r : r[i] = s[g[i]],
         \A i, j \in DOMAIN r : g[i] = g[j] => i = j
  PROVE  Copied(r, artifacts)
<1>1. PICK h \in [DOMAIN s -> DOMAIN artifacts] :
        /\ \A i \in DOMAIN s : s[i] = artifacts[h[i]]
        /\ \A i, j \in DOMAIN s : h[i] = h[j] => i = j
  BY DEF Copied
<1> DEFINE f == [i \in DOMAIN r |-> h[g[i]]]
<1>2. f \in [DOMAIN r -> DOMAIN artifacts]  OBVIOUS
<1>3. \A i \in DOMAIN r : r[i] = artifacts[f[i]]  BY <1>1
<1>4. \A i, j \in DOMAIN r : f[i] = f[j] => i = j  BY <1>1
<1> HIDE DEF f
<1> QED  BY <1>2, <1>3, <1>4 DEF Copied

(* Filtering copies, and taking the first of them, leaves copies.          *)
LEMMA KeptIsCopied ==
  ASSUME NEW s \in Seq(Artifact), NEW artifacts, Copied(s, artifacts),
         NEW I \in SUBSET (DOMAIN s), NEW n \in Nat
  PROVE  Copied(Kept(s, I), artifacts) /\ Copied(FirstOf(Kept(s, I), n), artifacts)
<1> DEFINE K == Kept(s, I)
           F == FirstOf(K, n)
<1>1. /\ K \in Seq(Artifact)
      /\ \A k \in DOMAIN K : At(I, k) \in I /\ K[k] = s[At(I, k)]
      /\ \A k, l \in DOMAIN K : k # l => At(I, k) # At(I, l)
  BY KeptFits
<1> HIDE DEF K
<1>2. \A i \in DOMAIN F : i \in DOMAIN K /\ F[i] = K[i]  BY <1>1, FirstOfFits
<1> HIDE DEF F
<1>3. Copied(K, artifacts)
  <2> DEFINE g == [k \in DOMAIN K |-> At(I, k)]
  <2>1. g \in [DOMAIN K -> DOMAIN s]  BY <1>1
  <2>2. \A k \in DOMAIN K : K[k] = s[g[k]]  BY <1>1
  <2>3. \A k, l \in DOMAIN K : g[k] = g[l] => k = l  BY <1>1
  <2> HIDE DEF g
  <2> QED  BY <2>1, <2>2, <2>3, PartIsCopied
<1>4. Copied(F, artifacts)
  <2> DEFINE g == [k \in DOMAIN F |-> k]
  <2>1. g \in [DOMAIN F -> DOMAIN K]  BY <1>2
  <2>2. \A k \in DOMAIN F : F[k] = K[g[k]]  BY <1>2
  <2>3. \A k, l \in DOMAIN F : g[k] = g[l] => k = l  OBVIOUS
  <2> HIDE DEF g
  <2> QED  BY <1>3, <2>1, <2>2, <2>3, PartIsCopied
<1> QED  BY <1>3, <1>4 DEF K, F

(* A list is a copy of itself.                                             *)
LEMMA AllIsCopied ==
  ASSUME NEW artifacts \in Seq(Artifact)
  PROVE  Copied(artifacts, artifacts)
<1> DEFINE h == [i \in DOMAIN artifacts |-> i]
<1>1. h \in [DOMAIN artifacts -> DOMAIN artifacts]  OBVIOUS
<1>2. \A i \in DOMAIN artifacts : h[i] = i  OBVIOUS
<1> HIDE DEF h
<1> QED  BY <1>1, <1>2 DEF Copied

(* When pictures and hinted videos together repeat an id, the artifacts    *)
(* do, or one of them is chosen as both, as weixin_native_attachments and  *)
(* hinted_native_videos do with an image of a video type.                  *)
LEMMA ClashOfConcat ==
  ASSUME NEW c \in Seq(Artifact), NEW v, NEW artifacts,
         Copied(c, artifacts), VideosOf(v, artifacts), Clash(c \o v),
         \A i \in DOMAIN c : c[i].kind = "image" \/ c[i].mime = "image"
  PROVE  Founded("weixin", artifacts)
<1> DEFINE r == c \o v
<1>1. v \in Seq(Artifact)  BY DEF VideosOf
<1>2. /\ r \in Seq(Artifact) /\ Len(r) = Len(c) + Len(v)
      /\ \A i \in 1 .. Len(c) + Len(v) : r[i] = IF i <= Len(c) THEN c[i] ELSE v[i - Len(c)]
  BY <1>1, ConcatProperties
<1>3. /\ Len(c) \in Nat /\ DOMAIN c = 1 .. Len(c)
      /\ Len(v) \in Nat /\ DOMAIN v = 1 .. Len(v)
      /\ DOMAIN r = 1 .. Len(r)
  BY <1>1, <1>2, LenProperties
<1>4. PICK i \in DOMAIN r, j \in DOMAIN r : i # j /\ r[i].id = r[j].id  BY DEF Clash
<1> HIDE DEF r
<1> DEFINE InC(x) == x \in DOMAIN c /\ r[x] = c[x]
           InV(x) == x - Len(c) \in DOMAIN v /\ r[x] = v[x - Len(c)]
<1>5. \A x \in DOMAIN r : InC(x) \/ InV(x)
  <2> SUFFICES ASSUME NEW x \in DOMAIN r PROVE InC(x) \/ InV(x)  OBVIOUS
  <2>1. CASE x <= Len(c)  BY <1>2, <1>3, <2>1
  <2>2. CASE ~(x <= Len(c))  BY <1>2, <1>3, <2>2
  <2> QED  BY <2>1, <2>2
<1>6. PICK h \in [DOMAIN c -> DOMAIN artifacts] :
        /\ \A x \in DOMAIN c : c[x] = artifacts[h[x]]
        /\ \A x, y \in DOMAIN c : h[x] = h[y] => x = y
  BY DEF Copied
<1>7. ASSUME NEW x \in DOMAIN r, NEW y \in DOMAIN r, InC(x), InV(y), r[x].id = r[y].id
      PROVE  Founded("weixin", artifacts)
  <2>1. PICK k \in DOMAIN artifacts : r[y].id = artifacts[k].id /\ artifacts[k].mime = "video"
    BY <1>7 DEF VideosOf
  <2> DEFINE l == h[x]
  <2>2. l \in DOMAIN artifacts /\ r[x] = artifacts[l]  BY <1>6, <1>7
  <2> HIDE DEF l
  <2>3. artifacts[l].kind = "image" \/ artifacts[l].mime = "image"  BY <1>7, <2>2
  <2>4. CASE l = k
    <3>1. Odd(artifacts[l])  BY <2>1, <2>3, <2>4 DEF Odd
    <3> QED  BY <2>2, <3>1 DEF Founded
  <2>5. CASE l # k  BY <1>7, <2>1, <2>2, <2>5 DEF Founded, Clash
  <2> QED  BY <2>4, <2>5
<1>8. CASE InC(i) /\ InC(j)
  <2>1. Clash(c)  BY <1>4, <1>8 DEF Clash
  <2> QED  BY <2>1, CopiedIsChosen DEF Founded
<1>9. CASE InV(i) /\ InV(j)
  <2>1. i - Len(c) # j - Len(c)  BY <1>2, <1>3, <1>4
  <2> QED  BY <1>4, <1>9, <2>1 DEF VideosOf
<1>10. CASE InC(i) /\ InV(j)  BY <1>4, <1>7, <1>10
<1>11. CASE InV(i) /\ InC(j)  BY <1>4, <1>7, <1>11
<1> QED  BY <1>4, <1>5, <1>8, <1>9, <1>10, <1>11

(* weixin_native_attachments: artifacts of the answer, three beside the    *)
(* videos, and no repeated id without a reason in the answer.              *)
LEMMA WeixinAttachmentsFit ==
  ASSUME NEW artifacts \in Seq(Artifact), NEW hints \in Seq(Hint)
  PROVE  /\ Chosen(WeixinNativeAttachments(artifacts, hints), artifacts)
         /\ FewPictures(WeixinNativeAttachments(artifacts, hints))
         /\ Clash(WeixinNativeAttachments(artifacts, hints)) => Founded("weixin", artifacts)
<1> DEFINE IsMedia(a) == HasLocation(a)
             /\ (a.kind \in {"image", "video", "file"} \/ a.mime \in {"image", "video"})
           M == {i \in DOMAIN artifacts : IsMedia(artifacts[i])}
           media == Kept(artifacts, M)
           P == {i \in DOMAIN media : media[i].kind = "image" \/ media[i].mime = "image"}
           images == Kept(media, P)
           limit == NativeImageLimit(hints)
           videos == HintedNativeVideos(artifacts, hints)
           chosen == IF limit > 0 THEN FirstOf(images, limit)
                     ELSE IF Len(images) = 1 /\ Len(media) = 1 THEN images ELSE <<>>
<1>1. WeixinNativeAttachments(artifacts, hints) = IF media = <<>> THEN <<>> ELSE chosen \o videos
  BY DEF WeixinNativeAttachments
<1>2. Copied(artifacts, artifacts)  BY AllIsCopied
<1>3. M \in SUBSET (DOMAIN artifacts)  OBVIOUS
<1> HIDE DEF M
<1>4. media \in Seq(Artifact) /\ Copied(media, artifacts)  BY <1>2, <1>3, KeptFits, KeptIsCopied
<1> HIDE DEF media
<1>5. P \in SUBSET (DOMAIN media) /\ \A i \in P : media[i].kind = "image" \/ media[i].mime = "image"
  OBVIOUS
<1> HIDE DEF P
<1>6. limit \in 0 .. 3  BY LimitFits
<1> DEFINE some == FirstOf(images, limit)
           Images(r) == \A i \in DOMAIN r : r[i].kind = "image" \/ r[i].mime = "image"
<1> HIDE DEF limit
<1>7. Copied(images, artifacts) /\ Copied(some, artifacts)
  BY <1>4, <1>5, <1>6, KeptIsCopied
<1>8. images \in Seq(Artifact) /\ Images(images)
  <2>1. images \in Seq(Artifact)
        /\ \A k \in DOMAIN images : At(P, k) \in P /\ images[k] = media[At(P, k)]
    BY <1>4, <1>5, KeptFits
  <2> HIDE DEF images
  <2> QED  BY <1>5, <2>1
<1> HIDE DEF images
<1>9. /\ some \in Seq(Artifact) /\ Len(some) <= limit
      /\ \A i \in DOMAIN some : i \in DOMAIN images /\ some[i] = images[i]
  BY <1>6, <1>8, FirstOfFits
<1> HIDE DEF some
<1> DEFINE e == <<>>
<1>10. e \in Seq(Artifact) /\ Len(e) = 0 /\ DOMAIN e = {}  BY EmptySeq
<1>11. chosen = some \/ (chosen = images /\ Len(images) = 1) \/ chosen = e  BY DEF some
<1> HIDE DEF e, chosen
<1>12. Copied(e, artifacts)
  <2> DEFINE h == [i \in DOMAIN e |-> 1]
  <2>1. h \in [DOMAIN e -> DOMAIN artifacts]  BY <1>10
  <2> QED  BY <1>10, <2>1 DEF Copied
<1>13. chosen \in Seq(Artifact) /\ Copied(chosen, artifacts) /\ Images(chosen) /\ Len(chosen) <= 3
  <2>1. Len(some) <= 3  BY <1>6, <1>9, LenProperties
  <2>2. CASE chosen = some  BY <1>7, <1>8, <1>9, <2>1, <2>2
  <2>3. CASE chosen = images /\ Len(images) = 1
    <3>1. Len(chosen) = 1  BY <2>3
    <3>2. Len(chosen) <= 3  BY <3>1
    <3> QED  BY <1>7, <1>8, <2>3, <3>2
  <2>4. CASE chosen = e
    <3>1. Len(chosen) <= 3  BY <1>10, <2>4
    <3> QED  BY <1>10, <1>12, <2>4, <3>1
  <2> QED  BY <1>11, <2>2, <2>3, <2>4
<1>14. VideosOf(videos, artifacts)  BY VideosFit
<1> HIDE DEF videos
<1>15. Chosen(videos, artifacts) /\ \A i \in DOMAIN videos : videos[i].mime = "video"
  BY <1>14 DEF VideosOf, Chosen
<1>16. Chosen(chosen \o videos, artifacts)  BY <1>13, <1>15, CopiedIsChosen, ChosenTogether
<1>17. FewPictures(chosen \o videos)  BY <1>13, <1>15, VideosAreNotCounted DEF Chosen
<1>18. Clash(chosen \o videos) => Founded("weixin", artifacts)  BY <1>13, <1>14, ClashOfConcat
<1>19. Chosen(e, artifacts) /\ FewPictures(e) /\ ~Clash(e)
  <2>1. Len(e) <= 3  BY <1>10
  <2>2. FewPictures(e)  BY <1>10, <2>1, FewAreEnough
  <2> QED  BY <1>10, <2>2 DEF Chosen, Clash
<1>20. WeixinNativeAttachments(artifacts, hints) = IF media = <<>> THEN e ELSE chosen \o videos
  BY <1>1 DEF e, chosen, images, limit, P
<1> QED  BY <1>16, <1>17, <1>18, <1>19, <1>20

(* A channel other than Weixin takes pictures, if it takes media at all.   *)
Fit(adapter, r) == adapter # "weixin" =>
  \A i \in DOMAIN r : adapter \in {"whatsapp", "feishu"} /\ r[i].mime = "image"

(* native_source_bound_attachments, on every channel: artifacts of the     *)
(* answer, three beside the videos, pictures where nothing else is taken,  *)
(* and no repeated id without a reason.                                    *)
LEMMA ReplyAttachmentsFit ==
  ASSUME NEW adapter, NEW artifacts \in Seq(Artifact), NEW hints \in Seq(Hint)
  PROVE  /\ Chosen(NativeAttachments(adapter, artifacts, hints), artifacts)
         /\ FewPictures(NativeAttachments(adapter, artifacts, hints))
         /\ Fit(adapter, NativeAttachments(adapter, artifacts, hints))
         /\ Clash(NativeAttachments(adapter, artifacts, hints)) => Founded(adapter, artifacts)
<1> DEFINE r == NativeAttachments(adapter, artifacts, hints)
           e == <<>>
<1>1. e \in Seq(Artifact) /\ Len(e) = 0 /\ DOMAIN e = {}  BY EmptySeq
<1>2. Chosen(e, artifacts) /\ FewPictures(e) /\ Fit(adapter, e) /\ ~Clash(e)
  <2> HIDE DEF e
  <2>1. Len(e) <= 3  BY <1>1
  <2>2. FewPictures(e)  BY <1>1, <2>1, FewAreEnough
  <2> QED  BY <1>1, <2>2 DEF Chosen, Fit, Clash
<1>3. CASE adapter \notin {"feishu", "weixin", "whatsapp"}
  <2>1. r = e  BY <1>3 DEF NativeAttachments
  <2> QED  BY <1>2, <2>1
<1>4. CASE adapter = "weixin"
  <2>1. r = WeixinNativeAttachments(artifacts, hints)  BY <1>4 DEF NativeAttachments
  <2> QED  BY <1>4, <2>1, WeixinAttachmentsFit DEF Fit
<1>5. CASE adapter \in {"feishu", "whatsapp"}
  <2> DEFINE IsPicture(a) == a.kind = "image" /\ a.mime = "image" /\ HasLocation(a)
             I == {i \in DOMAIN artifacts : IsPicture(artifacts[i])}
             images == Kept(artifacts, I)
             limit == NativeImageLimit(hints)
             some == FirstOf(images, limit)
  <2>1. r = IF limit > 0 THEN some ELSE IF Len(images) = 1 THEN images ELSE e
    BY <1>5 DEF NativeAttachments
  <2>2. I \in SUBSET (DOMAIN artifacts) /\ \A i \in I : artifacts[i].mime = "image"  OBVIOUS
  <2> HIDE DEF I
  <2>3. limit \in 0 .. 3  BY LimitFits
  <2> HIDE DEF limit
  <2>4. Copied(artifacts, artifacts)  BY AllIsCopied
  <2>5. Copied(images, artifacts) /\ Copied(some, artifacts)  BY <2>2, <2>3, <2>4, KeptIsCopied
  <2>6. images \in Seq(Artifact) /\ \A k \in DOMAIN images : images[k].mime = "image"
    <3>1. images \in Seq(Artifact)
          /\ \A k \in DOMAIN images : At(I, k) \in I /\ images[k] = artifacts[At(I, k)]
      BY <2>2, KeptFits
    <3> HIDE DEF images
    <3> QED  BY <2>2, <3>1
  <2> HIDE DEF images
  <2>7. /\ some \in Seq(Artifact) /\ Len(some) <= limit
        /\ \A i \in DOMAIN some : i \in DOMAIN images /\ some[i] = images[i]
    BY <2>3, <2>6, FirstOfFits
  <2> HIDE DEF some
  <2>8. Fit(adapter, images) /\ Fit(adapter, some)  BY <1>5, <2>6, <2>7 DEF Fit
  <2> DEFINE Good(x) == Chosen(x, artifacts) /\ (Clash(x) => Founded(adapter, artifacts))
  <2>9. Good(images) /\ Good(some)  BY <2>5, <2>6, <2>7, CopiedIsChosen DEF Founded
  <2>10. CASE limit > 0
    <3>1. r = some  BY <2>1, <2>10
    <3>2. Len(some) <= 3  BY <2>3, <2>7, LenProperties
    <3>3. FewPictures(some)  BY <2>7, <3>2, FewAreEnough
    <3> QED  BY <2>8, <2>9, <3>1, <3>3
  <2>11. CASE ~(limit > 0) /\ Len(images) = 1
    <3>1. r = images /\ Len(images) = 1  BY <2>1, <2>11
    <3>2. Len(images) <= 3  BY <3>1
    <3>3. FewPictures(images)  BY <2>6, <3>2, FewAreEnough
    <3> QED  BY <2>8, <2>9, <3>1, <3>3
  <2>12. CASE ~(limit > 0) /\ ~(Len(images) = 1)
    <3>1. r = e  BY <2>1, <2>12
    <3> QED  BY <1>2, <3>1
  <2> QED  BY <2>10, <2>11, <2>12
<1> QED  BY <1>3, <1>4, <1>5

(* hinted_notification_attachments: three attachments beside the videos.   *)
LEMMA NotificationAttachmentsFit ==
  ASSUME NEW artifacts \in Seq(Artifact), NEW hints \in Seq(Hint)
  PROVE  /\ HintedNotificationAttachments(artifacts, hints) \in Seq(Artifact)
         /\ FewPictures(HintedNotificationAttachments(artifacts, hints))
<1> DEFINE I == {i \in DOMAIN artifacts : artifacts[i].mime = "image" /\ HasLocation(artifacts[i])}
           images == Kept(artifacts, I)
           limit == NativeImageLimit(hints)
           some == FirstOf(images, limit)
           videos == HintedNativeVideos(artifacts, hints)
<1>1. HintedNotificationAttachments(artifacts, hints) = videos \o some
  BY DEF HintedNotificationAttachments
<1>2. limit \in 0 .. 3  BY LimitFits
<1> HIDE DEF limit
<1>3. images \in Seq(Artifact)
  <2>1. I \in SUBSET (DOMAIN artifacts)  OBVIOUS
  <2> HIDE DEF I
  <2> QED  BY <2>1, KeptFits
<1> HIDE DEF images
<1>4. some \in Seq(Artifact) /\ Len(some) <= limit  BY <1>2, <1>3, FirstOfFits
<1>5. Len(some) <= 3  BY <1>2, <1>4, LenProperties
<1> HIDE DEF some
<1>6. videos \in Seq(Artifact) /\ \A i \in DOMAIN videos : videos[i].mime = "video"
  BY VideosFit DEF VideosOf
<1> HIDE DEF videos
<1> QED  BY <1>1, <1>4, <1>5, <1>6, ConcatProperties, VideosAreNotCounted

(* The items split_outbound_items makes, and the attachments it makes      *)
(* them of; items that are the named attachments in order, after a text    *)
(* if o is 1.                                                              *)
Identities == {<<"text">>} \cup {<<"artifact", id>> : id \in STRING}
Item == [identity : Identities, text : BOOLEAN, attachments : Seq(Artifact)]
Named(att) == Kept(att, {i \in DOMAIN att : att[i].id # ""})

Spread(items, named, o) ==
  /\ items \in Seq(Item) /\ Len(items) = o + Len(named) /\ Len(items) > 0
  /\ o = 1 => items[1] = TextItem(<<>>)
  /\ \A i \in DOMAIN named : items[o + i] = ItemOf(named[i])

(* What TextItem and ItemOf return.                                        *)
LEMMA ItemTypes ==
  /\ \A a \in Artifact : ItemOf(a) \in Item
  /\ \A s \in Seq(Artifact) : TextItem(s) \in Item
<1>1. ASSUME NEW a \in Artifact PROVE ItemOf(a) \in Item
  <2>1. a.id \in STRING  BY DEF Artifact
  <2>2. <<"artifact", a.id>> \in Identities  BY <2>1 DEF Identities
  <2>3. <<a>> \in Seq(Artifact)  OBVIOUS
  <2> QED  BY <2>2, <2>3 DEF ItemOf, Item
<1>2. ASSUME NEW s \in Seq(Artifact) PROVE TextItem(s) \in Item
  <2>1. <<"text">> \in Identities  BY DEF Identities
  <2> QED  BY <2>1 DEF TextItem, Item
<1> QED  BY <1>1, <1>2

(* The attachments with an id are attachments, and have one.               *)
LEMMA NamedFits ==
  ASSUME NEW att \in Seq(Artifact)
  PROVE  /\ Named(att) \in Seq(Artifact) /\ Len(Named(att)) \in Nat
         /\ DOMAIN Named(att) = 1 .. Len(Named(att))
         /\ \A i \in DOMAIN Named(att) : Named(att)[i].id # "" /\ Named(att)[i] \in Artifact
<1> DEFINE N == {i \in DOMAIN att : att[i].id # ""}
           K == Kept(att, N)
<1>1. N \in SUBSET (DOMAIN att)  OBVIOUS
<1>2. \A i \in N : att[i].id # ""  OBVIOUS
<1>3. Named(att) = K  BY DEF Named
<1> HIDE DEF N
<1>4. K \in Seq(Artifact) /\ \A k \in DOMAIN K : At(N, k) \in N /\ K[k] = att[At(N, k)]
  BY <1>1, KeptFits
<1> HIDE DEF K
<1>5. \A i \in DOMAIN K : K[i].id # ""  BY <1>2, <1>4
<1>6. \A i \in DOMAIN K : K[i] \in Artifact  BY <1>4, LenProperties, ElementOfSeq
<1>7. Len(K) \in Nat /\ DOMAIN K = 1 .. Len(K)  BY <1>4, LenProperties
<1> QED  BY <1>3, <1>4, <1>5, <1>6, <1>7

(* Dropping the attachments without an id makes no new clash.              *)
LEMMA NamedClash ==
  ASSUME NEW att \in Seq(Artifact), Clash(Named(att))
  PROVE  Clash(att)
<1> DEFINE N == {i \in DOMAIN att : att[i].id # ""}
<1>1. N \in SUBSET (DOMAIN att) /\ Named(att) = Kept(att, N)  BY DEF Named
<1> HIDE DEF N
<1>2. Copied(att, att)  BY AllIsCopied
<1>3. Copied(Named(att), att)  BY <1>1, <1>2, KeptIsCopied
<1>4. Named(att) \in Seq(Artifact)  BY NamedFits
<1> QED  BY <1>3, <1>4, CopiedIsChosen

(* The three outcomes of split_outbound_items: refused for a repeated id,  *)
(* one text with everything, or a spread of the named attachments.         *)
LEMMA SplitIs ==
  ASSUME NEW text, NEW att \in Seq(Artifact)
  PROVE  LET sp == SplitOutboundItems(text, att)
             named == Named(att)
         IN \/ ~sp.ok /\ sp.items = <<>> /\ Clash(att)
            \/ sp.ok /\ ~text /\ named = <<>> /\ sp.items = <<TextItem(att)>>
            \/ /\ sp.ok /\ \A i, j \in DOMAIN named : i # j => named[i].id # named[j].id
               /\ \E o \in {0, 1} : Spread(sp.items, named, o)
<1> DEFINE sp == SplitOutboundItems(text, att)
           named == Named(att)
           first == IF text THEN <<TextItem(<<>>)>> ELSE <<>>
           rest == [i \in DOMAIN named |-> ItemOf(named[i])]
           items == first \o rest
           twice == \E i, j \in DOMAIN named : i # j /\ named[i].id = named[j].id
<1>1. sp = IF twice THEN [ok |-> FALSE, items |-> <<>>]
           ELSE [ok |-> TRUE, items |-> IF items = <<>> THEN <<TextItem(att)>> ELSE items]
  BY DEF SplitOutboundItems, Named
<1>2. /\ named \in Seq(Artifact) /\ Len(named) \in Nat /\ DOMAIN named = 1 .. Len(named)
      /\ \A i \in DOMAIN named : named[i] \in Artifact
  BY NamedFits
<1> HIDE DEF named
<1>3. rest \in Seq(Item) /\ Len(rest) = Len(named) /\ \A i \in DOMAIN named : rest[i] = ItemOf(named[i])
  <2>1. \A i \in DOMAIN named : ItemOf(named[i]) \in Item  BY <1>2, ItemTypes
  <2>2. rest \in [1 .. Len(named) -> Item]  BY <1>2, <2>1
  <2> QED  BY <1>2, <2>2
<1> HIDE DEF rest
<1>4. first \in Seq(Item) /\ Len(first) = IF text THEN 1 ELSE 0
  <2>1. TextItem(<<>>) \in Item  BY ItemTypes, EmptySeq
  <2> QED  BY <2>1, EmptySeq
<1>5. text => first[1] = TextItem(<<>>)  OBVIOUS
<1> HIDE DEF first
<1>6. /\ items \in Seq(Item) /\ Len(items) = Len(first) + Len(rest)
      /\ \A i \in 1 .. Len(first) + Len(rest) :
           items[i] = IF i <= Len(first) THEN first[i] ELSE rest[i - Len(first)]
  BY <1>3, <1>4, ConcatProperties
<1>7. CASE twice
  <2>1. ~sp.ok /\ sp.items = <<>>  BY <1>1, <1>7
  <2>2. Clash(named)  BY <1>7 DEF Clash
  <2>3. Clash(att)  BY <2>2, NamedClash DEF named
  <2> QED  BY <2>1, <2>3
<1>8. CASE ~twice /\ items = <<>>
  <2>1. sp.ok /\ sp.items = <<TextItem(att)>>  BY <1>1, <1>8
  <2>2. Len(items) = 0  BY <1>8, EmptySeq
  <2> HIDE DEF items
  <2>3. Len(first) + Len(named) = 0  BY <1>3, <1>6, <2>2
  <2>4. ~text /\ Len(named) = 0  BY <1>2, <1>4, <2>3
  <2>5. named = <<>>  BY <1>2, <2>4, EmptySeq
  <2> QED  BY <2>1, <2>4, <2>5 DEF named
<1>9. CASE ~twice /\ items # <<>>
  <2> DEFINE o == IF text THEN 1 ELSE 0
  <2>1. sp.ok /\ sp.items = items  BY <1>1, <1>9
  <2>2. Len(items) > 0
    <3> HIDE DEF items
    <3> QED  BY <1>6, <1>9, EmptySeq
  <2> HIDE DEF items
  <2>3. Len(first) = o /\ o \in {0, 1}  BY <1>4
  <2>4. o = 1 => items[1] = TextItem(<<>>)
    <3> SUFFICES ASSUME o = 1 PROVE items[1] = TextItem(<<>>)  OBVIOUS
    <3>1. text  OBVIOUS
    <3> HIDE DEF o
    <3>2. items[1] = first[1]  BY <1>2, <1>3, <1>6, <2>3
    <3> QED  BY <1>5, <3>1, <3>2
  <2>5. ASSUME NEW i \in DOMAIN named PROVE items[o + i] = ItemOf(named[i])
    <3> HIDE DEF o
    <3> DEFINE x == o + i
    <3>1. x \in 1 .. Len(first) + Len(rest) /\ ~(x <= Len(first)) /\ x - Len(first) = i
      BY <1>2, <1>3, <2>3, <2>5
    <3> HIDE DEF x
    <3>2. items[x] = rest[x - Len(first)]  BY <1>6, <3>1
    <3> QED  BY <1>3, <2>5, <3>1, <3>2 DEF x
  <2> HIDE DEF o
  <2>6. Spread(items, named, o)  BY <1>3, <1>6, <2>2, <2>3, <2>4, <2>5 DEF Spread
  <2>7. \A i, j \in DOMAIN named : i # j => named[i].id # named[j].id  BY <1>9
  <2>8. \E k \in {0, 1} : Spread(sp.items, named, k)  BY <2>1, <2>3, <2>6
  <2> HIDE DEF sp
  <2> QED  BY <2>1, <2>7, <2>8 DEF named, sp
<1> QED  BY <1>7, <1>8, <1>9

(* A list of items that ItemsAreDistinct accepts.                          *)
Distinct(items) ==
  /\ items # <<>>
  /\ \A i, j \in DOMAIN items : i # j => items[i].identity # items[j].identity
  /\ \A i \in DOMAIN items : items[i].text => i = 1

(* Every item of a spread is its text or one of the named attachments.     *)
LEMMA SpreadPlaces ==
  ASSUME NEW att \in Seq(Artifact), NEW items, NEW o \in {0, 1}, Spread(items, Named(att), o),
         NEW i \in DOMAIN items
  PROVE  \/ i = 1 /\ o = 1 /\ items[i] = TextItem(<<>>)
         \/ i - o \in DOMAIN Named(att) /\ items[i] = ItemOf(Named(att)[i - o])
<1> DEFINE named == Named(att)
<1>1. Len(named) \in Nat /\ DOMAIN named = 1 .. Len(named)  BY NamedFits
<1> HIDE DEF named
<1>2. Len(items) = o + Len(named) /\ items \in Seq(Item)  BY DEF Spread, named
<1>3. i \in 1 .. o + Len(named)  BY <1>2, LenProperties
<1>4. CASE i <= o
  <2>1. i = 1 /\ o = 1  BY <1>1, <1>3, <1>4
  <2> QED  BY <2>1 DEF Spread
<1>5. CASE ~(i <= o)
  <2>1. i - o \in DOMAIN named /\ o + (i - o) = i  BY <1>1, <1>3, <1>5
  <2>2. items[o + (i - o)] = ItemOf(named[i - o])  BY <2>1, Zenon DEF Spread, named
  <2>3. items[i] = ItemOf(named[i - o])  BY <2>1, <2>2
  <2> QED  BY <2>1, <2>3 DEF named
<1> QED  BY <1>4, <1>5

(* Identities differ in kind and in id.                                    *)
LEMMA IdentitiesDiffer ==
  ASSUME NEW x, NEW y
  PROVE  /\ <<"text">> # <<"artifact", x>>
         /\ <<"artifact", x>> = <<"artifact", y>> => x = y
OBVIOUS

(* The items of an accepted split have identities of their own, from       *)
(* which the ledger's keys are made.                                       *)
LEMMA SplitIsDistinct ==
  ASSUME NEW text, NEW att \in Seq(Artifact), SplitOutboundItems(text, att).ok
  PROVE  Distinct(SplitOutboundItems(text, att).items)
<1> DEFINE items == SplitOutboundItems(text, att).items
           named == Named(att)
<1>1. \/ items = <<TextItem(att)>>
      \/ /\ \A i, j \in DOMAIN named : i # j => named[i].id # named[j].id
         /\ \E o \in {0, 1} : Spread(items, named, o)
  BY SplitIs
<1> SUFFICES Distinct(items)  OBVIOUS
<1> HIDE DEF items
<1>2. CASE items = <<TextItem(att)>>
  <2>1. DOMAIN items = {1} /\ items # <<>>  BY <1>2
  <2> QED  BY <2>1 DEF Distinct
<1>3. ASSUME \A i, j \in DOMAIN named : i # j => named[i].id # named[j].id,
             NEW o \in {0, 1}, Spread(items, named, o)
      PROVE  Distinct(items)
  <2>1. items # <<>>
    <3>1. Len(items) > 0  BY <1>3 DEF Spread
    <3> QED  BY <3>1, EmptySeq
  <2>2. items \in Seq(Item)  BY <1>3 DEF Spread
  <2>3. \A i \in DOMAIN items : i \in Nat  BY <2>2, LenProperties
  <2>4. ASSUME NEW i \in DOMAIN items
        PROVE  \/ i = 1 /\ o = 1 /\ items[i].identity = <<"text">>
               \/ /\ i - o \in DOMAIN named /\ ~items[i].text
                  /\ items[i].identity = <<"artifact", named[i - o].id>>
    <3>1. \/ i = 1 /\ o = 1 /\ items[i] = TextItem(<<>>)
          \/ i - o \in DOMAIN named /\ items[i] = ItemOf(named[i - o])
      BY <1>3, <2>4, SpreadPlaces
    <3> QED  BY <3>1 DEF TextItem, ItemOf
  <2>5. ASSUME NEW i \in DOMAIN items, NEW j \in DOMAIN items, i # j
        PROVE  items[i].identity # items[j].identity
    <3> DEFINE a == items[i].identity
               b == items[j].identity
               Text(x, k) == k = 1 /\ x = <<"text">>
               Art(x, k) == k - o \in DOMAIN named /\ x = <<"artifact", named[k - o].id>>
    <3>1. (Text(a, i) \/ Art(a, i)) /\ (Text(b, j) \/ Art(b, j))  BY <2>4
    <3> SUFFICES a # b  OBVIOUS
    <3> HIDE DEF a, b
    <3>2. CASE Text(a, i) /\ Text(b, j)  BY <2>5, <3>2
    <3>3. CASE Text(a, i) /\ Art(b, j)  BY <3>3, IdentitiesDiffer
    <3>4. CASE Art(a, i) /\ Text(b, j)  BY <3>4, IdentitiesDiffer
    <3>5. CASE Art(a, i) /\ Art(b, j)
      <4>1. i - o # j - o  BY <2>3, <2>5
      <4>2. named[i - o].id # named[j - o].id  BY <1>3, <3>5, <4>1
      <4> QED  BY <3>5, <4>2, IdentitiesDiffer
    <3> QED  BY <3>1, <3>2, <3>3, <3>4, <3>5
  <2>6. \A i \in DOMAIN items : items[i].text => i = 1  BY <2>4
  <2> QED  BY <2>1, <2>5, <2>6 DEF Distinct
<1> QED  BY <1>1, <1>2, <1>3

(* native_video_file_fallback keeps the identity and leaves nothing to     *)
(* fall back to.                                                           *)
LEMMA FallbackIsFinal ==
  ASSUME NEW item \in Item, NEW f \in NativeVideoFileFallback(item)
  PROVE  f.identity = item.identity /\ NativeVideoFileFallback(f) = {}
<1> DEFINE s == item.attachments
           x == [s[1] EXCEPT !.kind = "file"]
           y == [x EXCEPT !.mime = "other"]
<1>1. s \in Seq(Artifact)  BY DEF Item
<1>2. Len(s) = 1 /\ f = [item EXCEPT !.attachments[1].kind = "file", !.attachments[1].mime = "other"]
  BY DEF NativeVideoFileFallback
<1>3. 1 \in DOMAIN s /\ s[1] \in Artifact  BY <1>1, <1>2
<1>4. f.identity = item.identity  BY <1>2 DEF Item
<1>5. f.attachments = [[s EXCEPT ![1] = x] EXCEPT ![1] = y]  BY <1>2, <1>3 DEF Item
<1>6. f.attachments[1] = y
  <2> HIDE DEF s, x, y
  <2>1. 1 \in DOMAIN s  BY <1>3
  <2> QED  BY <1>5, <2>1
<1>7. y.kind = "file" /\ y.mime = "other"
  <2> DEFINE a == s[1]
  <2> HIDE DEF a
  <2>1. a \in Artifact  BY <1>3 DEF a
  <2>2. y = [[a EXCEPT !.kind = "file"] EXCEPT !.mime = "other"]  BY DEF a
  <2> QED  BY <2>1, <2>2 DEF Artifact
<1> HIDE DEF y, x, s
<1>8. NativeVideoFileFallback(f) = {}  BY <1>6, <1>7 DEF NativeVideoFileFallback
<1> QED  BY <1>4, <1>8

(* Where attachments are shown in a list of items, and that every one      *)
(* shown comes from a place of its own in att.                             *)
Places(items) == UNION {{<<i, j>> : j \in DOMAIN items[i].attachments} : i \in DOMAIN items}
ShownAt(items, p) == items[p[1]].attachments[p[2]]
Traced(items, att) ==
  \E f \in [Places(items) -> DOMAIN att] :
    /\ \A p \in Places(items) : ShownAt(items, p) = att[f[p]]
    /\ \A p, q \in Places(items) : f[p] = f[q] => p = q

(* The places of attachments, without the union.                           *)
LEMMA PlacesAre ==
  ASSUME NEW items, NEW p
  PROVE  p \in Places(items) <=> \E i \in DOMAIN items :
           \E j \in DOMAIN items[i].attachments : p = <<i, j>>
BY DEF Places

(* What a spread shows comes from the attachments, each at most once.      *)
LEMMA SpreadIsTraced ==
  ASSUME NEW att \in Seq(Artifact), NEW items, NEW o \in {0, 1}, Spread(items, Named(att), o)
  PROVE  Traced(items, att)
<1> DEFINE N == {i \in DOMAIN att : att[i].id # ""}
           named == Named(att)
<1>1. N \in SUBSET (DOMAIN att)  OBVIOUS
<1>2. named = Kept(att, N)  BY DEF Named
<1> HIDE DEF N
<1>3. /\ \A k \in DOMAIN named : At(N, k) \in N /\ named[k] = att[At(N, k)]
      /\ \A k, l \in DOMAIN named : k # l => At(N, k) # At(N, l)
  BY <1>1, <1>2, KeptFits
<1> HIDE DEF named
<1>4. items \in Seq(Item)  BY DEF Spread
<1>5. \A i \in DOMAIN items : i \in Nat  BY <1>4, LenProperties
<1>6. ASSUME NEW p \in Places(items)
      PROVE  /\ p[1] \in DOMAIN items /\ p = <<p[1], 1>> /\ p[1] - o \in DOMAIN named
             /\ ShownAt(items, p) = named[p[1] - o]
  <2>1. PICK i \in DOMAIN items : \E j \in DOMAIN items[i].attachments : p = <<i, j>>
    BY <1>6, PlacesAre
  <2>2. PICK j \in DOMAIN items[i].attachments : p = <<i, j>>  BY <2>1
  <2>3. \/ items[i] = TextItem(<<>>)
        \/ i - o \in DOMAIN named /\ items[i] = ItemOf(named[i - o])
    BY <2>1, SpreadPlaces DEF named
  <2>4. CASE items[i] = TextItem(<<>>)
    <3>1. items[i].attachments = <<>>  BY <2>4 DEF TextItem
    <3>2. DOMAIN items[i].attachments = {}  BY <3>1
    <3> QED  BY <2>2, <3>2
  <2>5. CASE i - o \in DOMAIN named /\ items[i] = ItemOf(named[i - o])
    <3>1. items[i].attachments = <<named[i - o]>>  BY <2>5 DEF ItemOf
    <3>2. j = 1 /\ items[i].attachments[j] = named[i - o]  BY <2>2, <3>1
    <3>3. p[1] = i /\ p[2] = j  BY <2>2
    <3> QED  BY <2>1, <2>2, <2>5, <3>2, <3>3 DEF ShownAt
  <2> QED  BY <2>3, <2>4, <2>5
<1> DEFINE f == [p \in Places(items) |-> At(N, p[1] - o)]
<1>7. f \in [Places(items) -> DOMAIN att]  BY <1>1, <1>3, <1>6
<1>8. \A p \in Places(items) : ShownAt(items, p) = att[f[p]]  BY <1>3, <1>6
<1>9. ASSUME NEW p \in Places(items), NEW q \in Places(items), f[p] = f[q] PROVE p = q
  <2>1. At(N, p[1] - o) = At(N, q[1] - o)  BY <1>9
  <2>2. p[1] - o = q[1] - o  BY <1>3, <1>6, <2>1
  <2>3. p[1] \in Nat /\ q[1] \in Nat  BY <1>5, <1>6
  <2>4. p[1] = q[1]  BY <2>2, <2>3
  <2>5. p = <<p[1], 1>> /\ q = <<q[1], 1>>  BY <1>6
  <2> QED  BY <2>4, <2>5
<1> HIDE DEF f
<1> QED  BY <1>7, <1>8, <1>9 DEF Traced

(* What split_outbound_items shows comes from the attachments it was       *)
(* given, each at most once, whatever the outcome.                         *)
LEMMA SplitIsTraced ==
  ASSUME NEW text, NEW att \in Seq(Artifact)
  PROVE  /\ SplitOutboundItems(text, att).items \in Seq(Item)
         /\ Traced(SplitOutboundItems(text, att).items, att)
<1> DEFINE items == SplitOutboundItems(text, att).items
<1>1. \/ items = <<>>
      \/ items = <<TextItem(att)>>
      \/ \E o \in {0, 1} : Spread(items, Named(att), o)
  BY SplitIs
<1> SUFFICES items \in Seq(Item) /\ Traced(items, att)  OBVIOUS
<1> HIDE DEF items
<1>2. CASE items = <<>>
  <2>1. DOMAIN items = {} /\ items \in Seq(Item)  BY <1>2, EmptySeq
  <2>2. Places(items) = {}  BY <2>1 DEF Places
  <2> DEFINE f == [p \in Places(items) |-> 1]
  <2>3. f \in [Places(items) -> DOMAIN att]  BY <2>2
  <2> QED  BY <2>1, <2>2, <2>3 DEF Traced
<1>3. CASE items = <<TextItem(att)>>
  <2>1. DOMAIN items = {1} /\ items[1] = TextItem(att) /\ items \in Seq(Item)
    BY <1>3, ItemTypes
  <2>2. items[1].attachments = att  BY <2>1 DEF TextItem
  <2> DEFINE f == [p \in Places(items) |-> p[2]]
  <2>3. ASSUME NEW p \in Places(items)
        PROVE  p[2] \in DOMAIN att /\ p = <<1, p[2]>> /\ ShownAt(items, p) = att[p[2]]
    <3>1. PICK i \in DOMAIN items : \E j \in DOMAIN items[i].attachments : p = <<i, j>>
      BY <2>3, PlacesAre
    <3>2. PICK j \in DOMAIN items[i].attachments : p = <<i, j>>  BY <3>1
    <3>3. i = 1 /\ p[1] = 1 /\ p[2] = j  BY <2>1, <3>1, <3>2
    <3> QED  BY <2>2, <3>2, <3>3 DEF ShownAt
  <2>4. f \in [Places(items) -> DOMAIN att]  BY <2>3
  <2>5. \A p \in Places(items) : ShownAt(items, p) = att[f[p]]  BY <2>3
  <2>6. \A p, q \in Places(items) : f[p] = f[q] => p = q  BY <2>3
  <2> HIDE DEF f
  <2> QED  BY <2>1, <2>4, <2>5, <2>6 DEF Traced
<1>4. CASE \E o \in {0, 1} : Spread(items, Named(att), o)
  BY <1>4, SpreadIsTraced DEF Spread
<1> QED  BY <1>1, <1>2, <1>3, <1>4

(* So the items show no more pictures than were chosen: a bound on the     *)
(* attachments is a bound on the message.                                  *)
LEMMA TracedIsFew ==
  ASSUME NEW items, NEW att \in Seq(Artifact), Traced(items, att), FewPictures(att)
  PROVE  Cardinality({p \in Places(items) : ShownAt(items, p).mime # "video"}) <= 3
<1> DEFINE P == {p \in Places(items) : ShownAt(items, p).mime # "video"}
           Q == Pictures(att)
<1>1. PICK f \in [Places(items) -> DOMAIN att] :
         /\ \A p \in Places(items) : ShownAt(items, p) = att[f[p]]
         /\ \A p, q \in Places(items) : f[p] = f[q] => p = q
  BY DEF Traced
<1> DEFINE g == [p \in P |-> f[p]]
<1>2. g \in [P -> Q]  BY <1>1 DEF Pictures
<1>3. \A p, q \in P : g[p] = g[q] => p = q  BY <1>1
<1>4. g \in Injection(P, Q)  BY <1>2, <1>3 DEF Injection, IsInjective
<1>5. IsFiniteSet(Q) /\ Cardinality(Q) <= 3 /\ Cardinality(Q) \in Nat
  BY FS_CardinalityType DEF FewPictures
<1> HIDE DEF g, P, Q
<1>6. IsFiniteSet(P) /\ Cardinality(P) <= Cardinality(Q)  BY <1>4, <1>5, FS_Injection
<1>7. Cardinality(P) \in Nat  BY <1>6, FS_CardinalityType
<1>8. Cardinality(P) <= 3  BY <1>5, <1>6, <1>7
<1> QED  BY <1>8 DEF P

(* A sequence that is not empty has a first element.                       *)
LEMMA NonEmptyHasFirst ==
  ASSUME NEW S, NEW s \in Seq(S), s # <<>>
  PROVE  1 \in DOMAIN s
<1>1. Len(s) \in Nat \ {0}  BY EmptySeq
<1>2. DOMAIN s = 1 .. Len(s)  BY LenProperties
<1> QED  BY <1>1, <1>2

(* A list of one is not empty.                                             *)
LEMMA SingletonIsNotEmpty == \A x : <<x>> # <<>>
OBVIOUS

(* A spread of some attachments shows one.                                 *)
LEMMA SpreadShows ==
  ASSUME NEW named \in Seq(Artifact), 1 \in DOMAIN named,
         NEW items, NEW o \in {0, 1}, Spread(items, named, o)
  PROVE  \E i \in DOMAIN items : items[i].attachments # <<>>
<1>1. Len(named) \in Nat /\ DOMAIN named = 1 .. Len(named)  BY LenProperties
<1>2. items \in Seq(Item) /\ Len(items) = o + Len(named) /\ items[o + 1] = ItemOf(named[1])
  BY DEF Spread
<1>3. DOMAIN items = 1 .. Len(items)  BY <1>2, LenProperties
<1>4. o + 1 \in DOMAIN items  BY <1>1, <1>2, <1>3
<1>5. ItemOf(named[1]).attachments = <<named[1]>>  BY DEF ItemOf
<1>6. items[o + 1].attachments # <<>>  BY <1>2, <1>5, SingletonIsNotEmpty, Zenon
<1> QED  BY <1>4, <1>6, Zenon

(* Attachments that all have ids are shown, one at least.                  *)
LEMMA SplitShows ==
  ASSUME NEW text, NEW att \in Seq(Artifact), 1 \in DOMAIN att, \A i \in DOMAIN att : att[i].id # "",
         SplitOutboundItems(text, att).ok
  PROVE  \E i \in DOMAIN SplitOutboundItems(text, att).items :
           SplitOutboundItems(text, att).items[i].attachments # <<>>
<1> DEFINE items == SplitOutboundItems(text, att).items
           named == Named(att)
<1>1. named # <<>>
  <2> DEFINE N == {i \in DOMAIN att : att[i].id # ""}
  <2>1. N = DOMAIN att  OBVIOUS
  <2>2. DOMAIN att # {}  OBVIOUS
  <2>3. named = Kept(att, N)  BY DEF Named
  <2> HIDE DEF N, named
  <2> QED  BY <2>1, <2>2, <2>3, KeptFits
<1>2. \E o \in {0, 1} : Spread(items, named, o)  BY <1>1, SplitIs
<1>3. named \in Seq(Artifact)  BY NamedFits
<1> HIDE DEF named, items
<1>4. 1 \in DOMAIN named  BY <1>1, <1>3, NonEmptyHasFirst
<1>5. \E i \in DOMAIN items : items[i].attachments # <<>>  BY <1>2, <1>3, <1>4, SpreadShows, Zenon
<1> QED  BY <1>5, Zenon DEF items

(* artifact_candidates returns artifacts.                                  *)
LEMMA CandidatesFit ==
  ASSUME NEW lists \in Seq(JsonList)
  PROVE  ArtifactCandidates(lists) \in Seq(Artifact)
<1> DEFINE I == {i \in DOMAIN lists : lists[i].has}
           there == Kept(lists, I)
<1>1. ArtifactCandidates(lists) = IF there = <<>> THEN <<>> ELSE Head(there).items
  BY DEF ArtifactCandidates
<1>2. I \in SUBSET (DOMAIN lists)  OBVIOUS
<1> HIDE DEF I
<1>3. there \in Seq(JsonList)  BY <1>2, KeptFits
<1> HIDE DEF there
<1>4. CASE there = <<>>  BY <1>1, <1>4, EmptySeq
<1>5. CASE there # <<>>
  <2>1. Head(there) \in JsonList  BY <1>3, <1>5, HeadTailProperties
  <2> QED  BY <1>1, <1>5, <2>1 DEF JsonList
<1> QED  BY <1>4, <1>5

(* AttachmentsFitTheChannel of the items that were planned.                *)
LEMMA ChannelIsMet ==
  ASSUME Cardinality({p \in Places(last'.items) : ShownAt(last'.items, p).mime # "video"}) <= 3,
         last'.call = "turn" =>
           (last'.adapter # "weixin" => \A p \in Places(last'.items) :
              last'.adapter \in {"whatsapp", "feishu"} /\ ShownAt(last'.items, p).mime = "image")
  PROVE  AttachmentsFitTheChannel'
BY DEF AttachmentsFitTheChannel, Places, ShownAt

(* The reply of a turn (the end of handle_inbound) has a fit plan.         *)
LEMMA TurnIsFit ==
  ASSUME NEW a \in Answers, TurnReply(a)
  PROVE  PlanIsFit'
<1> DEFINE artifacts == ArtifactCandidates(a.lists)
           chosen == NativeAttachments(a.adapter, artifacts, a.hints)
           reply == RenderRetrievalReply(a.text, a.citations, artifacts,
                                         Suppresses(chosen, artifacts))
           text == HasText(reply)
           split == SplitOutboundItems(text, chosen)
<1>1. last' = [call |-> "turn", adapter |-> a.adapter, artifacts |-> artifacts,
               reply |-> reply, ok |-> split.ok, items |-> split.items]
  BY DEF TurnReply
<1>2. a.lists \in Seq(JsonList) /\ a.hints \in Seq(Hint)  BY PlanInputs
<1>3. artifacts \in Seq(Artifact)  BY <1>2, CandidatesFit
<1>4. reply.listed = IF chosen # <<>> THEN <<>> ELSE FirstOf(artifacts, 3)
  BY DEF RenderRetrievalReply, Suppresses
<1> HIDE DEF artifacts
<1>5. /\ Chosen(chosen, artifacts) /\ FewPictures(chosen) /\ Fit(a.adapter, chosen)
      /\ Clash(chosen) => Founded(a.adapter, artifacts)
  BY <1>2, <1>3, ReplyAttachmentsFit
<1> HIDE DEF chosen, reply, text
<1>6. chosen \in Seq(Artifact)  BY <1>5 DEF Chosen
<1>7. split.items \in Seq(Item) /\ Traced(split.items, chosen)  BY <1>6, SplitIsTraced
<1>8. split.ok => Distinct(split.items)  BY <1>6, SplitIsDistinct
<1>9. 1 \in DOMAIN chosen /\ (\A i \in DOMAIN chosen : chosen[i].id # "") /\ split.ok =>
        \E i \in DOMAIN split.items : split.items[i].attachments # <<>>
  BY <1>6, SplitShows
<1>10. ~split.ok => Clash(chosen)  BY <1>6, SplitIs
<1> HIDE DEF split
<1>11. /\ last'.call = "turn" /\ last'.adapter = a.adapter /\ last'.artifacts = artifacts
       /\ last'.reply = reply /\ last'.ok = split.ok /\ last'.items = split.items
  BY <1>1
<1>12. ItemsAreDistinct'  BY <1>8, <1>11 DEF ItemsAreDistinct, Planned, Distinct
<1>13. AttachmentsFitTheChannel'
  <2>1. Cardinality({p \in Places(split.items) : ShownAt(split.items, p).mime # "video"}) <= 3
    BY <1>5, <1>6, <1>7, TracedIsFew
  <2>2. a.adapter # "weixin" => \A p \in Places(split.items) :
          a.adapter \in {"whatsapp", "feishu"} /\ ShownAt(split.items, p).mime = "image"
    BY <1>5, <1>7 DEF Traced, Fit
  <2>3. last'.items = split.items /\ last'.adapter = a.adapter  BY <1>11
  <2> QED  BY <2>1, <2>2, <2>3, ChannelIsMet, Zenon
<1>14. FallbackEndsThere'
  <2>1. \A i \in DOMAIN split.items : split.items[i] \in Item  BY <1>7, LenProperties, ElementOfSeq
  <2>2. \A i \in DOMAIN split.items : \A f \in NativeVideoFileFallback(split.items[i]) :
          f.identity = split.items[i].identity /\ NativeVideoFileFallback(f) = {}
    BY <2>1, FallbackIsFinal
  <2> QED  BY <1>11, <2>2 DEF FallbackEndsThere
<1>15. ListGivesWayOnlyToAttachments'
  <2>1. ASSUME split.ok, \A k \in DOMAIN artifacts : artifacts[k].id # "",
               \A i \in DOMAIN split.items : split.items[i].attachments = <<>>
        PROVE  reply.listed = FirstOf(artifacts, 3)
    <3>1. \A i \in DOMAIN chosen : chosen[i].id # ""  BY <1>5, <2>1 DEF Chosen
    <3>2. 1 \notin DOMAIN chosen  BY <1>9, <2>1, <3>1
    <3>3. chosen = <<>>  BY <1>6, <3>2, NonEmptyHasFirst
    <3> QED  BY <1>4, <3>3
  <2> QED  BY <1>11, <2>1 DEF ListGivesWayOnlyToAttachments
<1>16. AttachmentsAreOfTheAnswer'
  <2>1. ASSUME NEW i \in DOMAIN split.items, NEW j \in DOMAIN split.items[i].attachments
        PROVE  \E k \in DOMAIN artifacts : split.items[i].attachments[j].id = artifacts[k].id
    <3>1. <<i, j>> \in Places(split.items)  BY DEF Places
    <3>2. ShownAt(split.items, <<i, j>>) = split.items[i].attachments[j]  BY DEF ShownAt
    <3>3. PICK k \in DOMAIN chosen : split.items[i].attachments[j] = chosen[k]
      BY <1>7, <3>1, <3>2 DEF Traced
    <3> QED  BY <1>5, <3>3 DEF Chosen
  <2> QED  BY <1>11, <2>1 DEF AttachmentsAreOfTheAnswer
<1>17. RefusalsAreFounded'
  <2> SUFFICES ASSUME ~split.ok
               PROVE  \/ \E i, j \in DOMAIN artifacts : i # j /\ artifacts[i].id = artifacts[j].id
                      \/ /\ a.adapter = "weixin"
                         /\ \E i \in DOMAIN artifacts : artifacts[i].kind = "image"
                                                        /\ artifacts[i].mime = "video"
    BY <1>11 DEF RefusalsAreFounded
  <2>1. Founded(a.adapter, artifacts)  BY <1>5, <1>10
  <2> QED  BY <2>1 DEF Founded, Clash, Odd
<1> QED  BY <1>12, <1>13, <1>14, <1>15, <1>16, <1>17 DEF PlanIsFit

(* A call that plans nothing has nothing to fit.                           *)
LEMMA NothingPlannedIsFit ==
  ASSUME last'.call \notin {"turn", "planned"}
  PROVE  PlanIsFit'
BY DEF PlanIsFit, ItemsAreDistinct, AttachmentsFitTheChannel, FallbackEndsThere,
       ListGivesWayOnlyToAttachments, AttachmentsAreOfTheAnswer, RefusalsAreFounded, Planned

(* What handle_notification_delivery_from plans is fit, and it plans       *)
(* nothing when it refuses or replays.                                     *)
LEMMA NotificationIsFit ==
  ASSUME NEW n \in Notices, NotificationDelivery(n)
  PROVE  PlanIsFit'
<1> DEFINE r == ResolveNotificationRoute(n)
           f == EffectiveRequest(n, r)
           out == Outbound(n, r)
           split == SplitOutboundItems(out.text, out.attachments)
           Took == /\ split.ok
                   /\ last' = [call |-> "planned", out |-> out, adapter |-> r.adapter,
                               items |-> split.items, selection |-> n.selection]
<1>1. last'.call \in {"refused", "replayed"} \/ Took
  <2>1. \A w : Refused(n, w) => last'.call = "refused"  BY DEF Refused
  <2>2. [call |-> "replayed", out |-> out].call = "replayed"  OBVIOUS
  <2> HIDE DEF r, f, out, split
  <2> QED  BY <2>1, <2>2 DEF NotificationDelivery, r, f, out, split
<1>2. CASE last'.call \in {"refused", "replayed"}  BY <1>2, NothingPlannedIsFit
<1>3. CASE Took
  <2> DEFINE c == DeliveryContent(n)
             att == HintedNotificationAttachments(c.artifacts, c.hints)
  <2>1. n.artifacts \in JsonList /\ n.content \in JsonList /\ n.hints \in Seq(Hint)  BY PlanInputs
  <2>2. c.artifacts \in Seq(Artifact) /\ c.hints \in Seq(Hint)
    BY <2>1 DEF DeliveryContent, JsonList
  <2>3. out.attachments = att  BY DEF Outbound
  <2>4. att \in Seq(Artifact) /\ FewPictures(att)
    <3> HIDE DEF c
    <3> QED  BY <2>2, NotificationAttachmentsFit
  <2> HIDE DEF att, out
  <2>5. split.items \in Seq(Item) /\ Traced(split.items, att)  BY <2>3, <2>4, SplitIsTraced
  <2>6. Distinct(split.items)  BY <1>3, <2>3, <2>4, SplitIsDistinct
  <2> HIDE DEF split
  <2>7. last'.call = "planned" /\ last'.items = split.items  BY <1>3
  <2>8. ItemsAreDistinct'  BY <2>6, <2>7 DEF ItemsAreDistinct, Planned, Distinct
  <2>9. AttachmentsFitTheChannel'
    <3>1. Cardinality({p \in Places(split.items) : ShownAt(split.items, p).mime # "video"}) <= 3
      BY <2>4, <2>5, TracedIsFew
    <3>2. last'.call # "turn" /\ last'.items = split.items  BY <2>7
    <3> QED  BY <3>1, <3>2, ChannelIsMet, Zenon
  <2>10. FallbackEndsThere'
    <3>1. \A i \in DOMAIN split.items : split.items[i] \in Item  BY <2>5, LenProperties, ElementOfSeq
    <3>2. \A i \in DOMAIN split.items : \A g \in NativeVideoFileFallback(split.items[i]) :
            g.identity = split.items[i].identity /\ NativeVideoFileFallback(g) = {}
      BY <3>1, FallbackIsFinal
    <3> QED  BY <2>7, <3>2 DEF FallbackEndsThere
  <2>11. ListGivesWayOnlyToAttachments'  BY <2>7 DEF ListGivesWayOnlyToAttachments
  <2>12. AttachmentsAreOfTheAnswer'  BY <2>7 DEF AttachmentsAreOfTheAnswer
  <2>13. RefusalsAreFounded'  BY <2>7 DEF RefusalsAreFounded
  <2> QED  BY <2>8, <2>9, <2>10, <2>11, <2>12, <2>13 DEF PlanIsFit
<1> QED  BY <1>1, <1>2, <1>3

(* The plan of every reply and notification is fit, for all answers and    *)
(* notifications, however many artifacts and hints they carry: its items   *)
(* have keys of their own, it shows three attachments at most beside the   *)
(* videos asked for and only what the channel takes and the answer names,  *)
(* a reply that attaches nothing lists the first three artifacts, a        *)
(* fallback ends, and no answer is refused as repeating an artifact        *)
(* without a reason in it (handle_inbound, split_outbound_items and what   *)
(* they call).                                                             *)
THEOREM PlansStayFit == PlanSpec => []PlanIsFit
<1>1. PlanInit => PlanIsFit
  BY DEF PlanInit, PlanIsFit, ItemsAreDistinct, AttachmentsFitTheChannel, FallbackEndsThere,
         ListGivesWayOnlyToAttachments, AttachmentsAreOfTheAnswer, RefusalsAreFounded, Planned
<1>2. PlanIsFit /\ [PlanNext]_planVars => PlanIsFit'
  <2> SUFFICES ASSUME PlanIsFit, [PlanNext]_planVars PROVE PlanIsFit'  OBVIOUS
  <2>1. CASE RouteChanges
    <3>1. last'.call = "none"  BY <2>1 DEF RouteChanges
    <3> QED  BY <3>1, NothingPlannedIsFit
  <2>2. ASSUME NEW a \in Answers, TurnReply(a) PROVE PlanIsFit'  BY <2>2, TurnIsFit
  <2>3. ASSUME NEW n \in Notices, NotificationDelivery(n) PROVE PlanIsFit'
    BY <2>3, NotificationIsFit
  <2>4. CASE UNCHANGED planVars
    <3>1. last' = last  BY <2>4 DEF planVars
    <3>2. ItemsAreDistinct'  BY <3>1 DEF PlanIsFit, ItemsAreDistinct, Planned
    <3>3. AttachmentsFitTheChannel'  BY <3>1 DEF PlanIsFit, AttachmentsFitTheChannel, Planned
    <3>4. FallbackEndsThere'  BY <3>1 DEF PlanIsFit, FallbackEndsThere, Planned
    <3>5. ListGivesWayOnlyToAttachments'
      BY <3>1 DEF PlanIsFit, ListGivesWayOnlyToAttachments
    <3>6. AttachmentsAreOfTheAnswer'  BY <3>1 DEF PlanIsFit, AttachmentsAreOfTheAnswer
    <3>7. RefusalsAreFounded'  BY <3>1 DEF PlanIsFit, RefusalsAreFounded
    <3> QED  BY <3>2, <3>3, <3>4, <3>5, <3>6, <3>7 DEF PlanIsFit
  <2> QED  BY <2>1, <2>2, <2>3, <2>4 DEF PlanNext
<1> QED  BY <1>1, <1>2, PTL DEF PlanSpec
=============================================================================
