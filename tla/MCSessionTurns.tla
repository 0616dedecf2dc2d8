--------------------------- MODULE MCSessionTurns ---------------------------
(* Instances of SessionTurns and ReplyPlan for TLC.  A behaviour is of one *)
(* of them: either turns are taken or replies and notifications planned.   *)
EXTENDS SessionTurns, ReplyPlan

Mail(via, platform, chat, id) ==
  [via |-> via, platform |-> platform, chat |-> chat, user |-> "u",
   navi |-> FALSE, dlna |-> FALSE, id |-> id, raw |-> "", turn |-> "", route |-> <<>>]

(* One WhatsApp chat that is bound again between its messages, one Feishu  *)
(* chat that a gateway client shares.                                      *)
Mixed == [w1 |-> [Mail("inbound", "whatsapp", "u", "1") EXCEPT !.route = <<"number", "u">>],
          nv |-> [Mail("inbound", "whatsapp", "u", "2") EXCEPT !.navi = TRUE,
                                                              !.route = <<"number", "u">>],
          f1 |-> Mail("inbound", "feishu", "c", "1"),
          g1 |-> [Mail("gateway", "feishu", "c", "") EXCEPT !.turn = "t1",
                                                            !.route = <<"key">>]]

WorkerSymmetry == Permutations(Workers)

-----------------------------------------------------------------------------
(* Inputs of ReplyPlan.                                                    *)
Art(id, kind, mime, at) ==
  [id |-> id, kind |-> kind, mime |-> mime, at |-> at, fallback |-> FALSE]

Some(s) == [has |-> TRUE, items |-> s]

Arts == {Art("a", "image", "image", "url"), Art("b", "image", "image", "path"),
         Art("a", "video", "video", "url"), Art("c", "file", "other", "none")}

Lists == {<<>>} \cup {<<x>> : x \in Arts} \cup {<<x, y>> : x, y \in Arts}
         \cup {<<Art("", "image", "image", "url")>>, <<Art("d", "image", "video", "url")>>,
               [i \in 1 .. 4 |-> Art(<<"p", "q", "r", "s">>[i], "image", "image", "url")]}

(* Keeping by position is selecting by a test.                             *)
ASSUME KeptIsSelected ==
  \A s \in Lists : Kept(s, {i \in DOMAIN s : s[i].mime = "image"})
                   = SelectSeq(s, LAMBDA a : a.mime = "image")

Video(id) == [kind |-> "native_video", id |-> id, fallback |-> "file", max |-> 0]
Images(n) == [kind |-> "native_image", id |-> "", fallback |-> "", max |-> n]

Hints == {<<>>, <<Images(0)>>, <<Images(9)>>, <<Video("a"), Video("a")>>,
          <<Images(2), Video("a"), Video("d")>>}

MCAnswers ==
  [adapter : {"weixin", "whatsapp", "feishu", "webhook"}, text : BOOLEAN,
   citations : {0, 4}, hints : Hints,
   lists : {<<Absent, Some(x), Some(<<>>)>> : x \in Lists}]

Notice == [id |-> "n", key |-> "k", mode |-> "send", replyTo |-> FALSE,
           update |-> FALSE, routeKey |-> TRUE, platform |-> "whatsapp",
           chat |-> "u", text |-> TRUE, artifacts |-> Absent,
           content |-> Some(<<Art("a", "video", "video", "url")>>),
           hints |-> <<Video("a")>>, handle |-> "h1", selection |-> TRUE]

MCNotices ==
  {[Notice EXCEPT !.routeKey = k, !.handle = h, !.selection = s] :
     k, s \in BOOLEAN, h \in {"h1", "h2"}}
  \cup {[Notice EXCEPT !.artifacts = Some(x), !.hints = h, !.text = t] :
          x \in {<<>>, <<Art("a", "image", "image", "url"), Art("a", "video", "video", "url")>>,
                 <<Art("b", "image", "image", "path"), Art("a", "video", "video", "url")>>,
                 <<Art("a", "video", "video", "url"), Art("a", "image", "image", "url")>>},
          h \in {<<Images(1)>>, <<Video("a"), Images(1)>>}, t \in BOOLEAN}
  \cup {[Notice EXCEPT !.mode = m, !.replyTo = r, !.update = u] :
          m \in {"send", "reply", "update", ""}, r, u \in BOOLEAN}
  \cup {[Notice EXCEPT !.key = ""], [Notice EXCEPT !.id = ""],
        [Notice EXCEPT !.routeKey = FALSE, !.chat = ""],
        [Notice EXCEPT !.routeKey = FALSE, !.platform = "mail"]}

MCRoutes == {[status |-> "not_found"], [status |-> "expired"]} \cup
  {[status |-> "active", platform |-> p, chat |-> c, adapter |-> p] :
     p \in {"whatsapp", "weixin"}, c \in {"u", "v"}}

-----------------------------------------------------------------------------
Init == TurnsInit /\ PlanInit
Next ==
  \/ last.call = "none" /\ plan = NoPlan /\ route.status = "not_found" /\ TurnsNext /\ UNCHANGED planVars
  \/ taken = 0 /\ ~beacon /\ home = NoHome /\ PlanNext /\ UNCHANGED turnsVars
Spec == Init /\ [][Next]_<<turnsVars, planVars>>
=============================================================================
