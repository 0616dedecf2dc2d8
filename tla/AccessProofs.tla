---------------------------- MODULE AccessProofs ----------------------------
(***************************************************************************)
(* Device sessions, the access checks and the transfer of media: each of   *)
(* the three components keeps its invariants in every behaviour of its     *)
(* own, for all requests, secrets, times, sizes and bounds.                *)
(***************************************************************************)
EXTENDS DeviceSessions, ServiceAccess, MediaTransfer, FiniteSetTheorems, FunctionTheorems, TLAPS

-----------------------------------------------------------------------------
(* Access.  A request waits for HarborOS exactly while a login is open, and *)
(* is forwarded with its own reason, or for nobody if it needs none.        *)

(* The identities that proxy_local_api hands on.                           *)
Principal == [source : {"harbornavi-lan", "harboros"},
              role : {"CAMERA_CONTROL", "CAMERA_VIEW", "FULL_ADMIN"},
              scope : SUBSET PathCameras]

(* How a request can end.                                                  *)
Outcomes ==
  {"", "served", "CONTRACT_VERSION_MISMATCH", "SERVICE_AUTH_FAILED", "VALIDATION",
   "HARBORBEACON_DISABLED", "HARBORBEACON_SERVICE_AUTH_UNAVAILABLE", "HARBOROS_AUTH_FAILED",
   "HARBOROS_ACCESS_DENIED", "HARBOROS_WEBUI_ACCESS_REQUIRED", "HARBOROS_FULL_ADMIN_REQUIRED",
   "HARBOROS_AUTH_UNAVAILABLE", "answered", "UNREACHABLE"}

(* A request to the HTTP surface.                                          *)
CallRecord ==
  [pc : {"idle", "login", "forwarding", "ended"}, kind : Kinds \cup {"", "turn", "notification"},
   method : Methods \cup {""}, camera : PathCameras \cup {""}, query : {"", "identity", "plain"},
   bearer : Tokens, token : {"none", "blank", "sent"}, principal : SUBSET Principal,
   outcome : Outcomes]

(* A LAN identity is for the one camera of the request, with control only  *)
(* where that is asked for.                                                *)
Confined(c, p) ==
  p.source = "harbornavi-lan" =>
    /\ c.kind \in {"control", "preview", "observation"} /\ p.scope = {c.camera}
    /\ p.role = "CAMERA_CONTROL" <=> c.kind \in ControlKinds

(* A request that goes on for nobody is none of the household's.           *)
Unowned(c) ==
  /\ <<c.kind, c.method>> \notin Personal
  /\ <<c.kind, c.method>> \in Steering => c.camera \in OddCameras

(* A forwarded request has the identity that its login or its address      *)
(* gives, or needs none.                                                   *)
Founded(c, answers) ==
  c.pc = "forwarding" =>
    /\ c.principal = {} => Unowned(c)
    /\ c.token = "sent" /\ c.principal # {} => c.principal = {Admin} /\ "SUCCESS" \in answers
    /\ \A p \in c.principal : Confined(c, p)

(* The inductive invariant of the access checks.                           *)
AccessInv ==
  /\ config = {} \/ \E c \in Configs : config = {c} /\ ValidateRequiredServiceAuth(c)
  /\ call \in CallRecord /\ Founded(call, heard)
  /\ login \in {"none", "connecting", "sent"} /\ (login # "none" => call.pc = "login")
  /\ call.outcome = "served" => config # {} /\ call.bearer \in GoodTokens \cap {Config.token, Config.previous}

(* Between two requests there is nothing to found.                         *)
LEMMA NoCallGood == NoCall \in CallRecord /\ NoCall.pc = "idle" /\ NoCall.outcome = ""
  BY DEF NoCall, CallRecord, Tokens, Outcomes

(* A refusal ends the request and grants nothing.                          *)
LEMMA FailGood ==
  ASSUME NEW c \in CallRecord, NEW outcome \in Outcomes, NEW answers
  PROVE  /\ Fail(c, outcome) \in CallRecord /\ Founded(Fail(c, outcome), answers)
         /\ Fail(c, outcome).pc = "ended" /\ Fail(c, outcome).outcome = outcome
<1> DEFINE f == [c EXCEPT !.pc = "ended", !.outcome = outcome]
<1>1. f \in CallRecord /\ f.pc = "ended" /\ f.outcome = outcome  BY DEF CallRecord
<1>2. QED BY <1>1 DEF Fail, Founded

(* A request that is forwarded with its own reason is founded.             *)
LEMMA ForwardGood ==
  ASSUME NEW c \in CallRecord, NEW P \in SUBSET Principal, NEW answers,
         c.token = "sent" /\ P # {} => P = {Admin} /\ "SUCCESS" \in answers,
         P = {} => Unowned(c), \A p \in P : Confined(c, p)
  PROVE  /\ Forward(c, P) \in CallRecord /\ Founded(Forward(c, P), answers)
         /\ Forward(c, P).pc = "forwarding" /\ Forward(c, P).outcome = c.outcome
         /\ Forward(c, P).bearer = c.bearer
<1> DEFINE f == [c EXCEPT !.pc = "forwarding", !.principal = P]
<1>1. f \in CallRecord /\ f.pc = "forwarding" /\ f.outcome = c.outcome /\ f.principal = P
      /\ f.token = c.token /\ f.kind = c.kind /\ f.camera = c.camera /\ f.bearer = c.bearer
      /\ f.method = c.method
  BY DEF CallRecord
<1>2. Forward(c, P) = f  BY DEF Forward
<1> HIDE DEF f
<1>3. Founded(f, answers)  BY <1>1 DEF Founded, Confined, Unowned
<1>4. QED BY <1>1, <1>2, <1>3

(* A request that needs no principal is none of the household's.           *)
LEMMA NobodysGood ==
  ASSUME NEW c, ~RequiresHarborOsPrincipal(c.method, c.kind, c.camera)
  PROVE  Unowned(c)
<1> DEFINE m == c.method
           k == c.kind
           o == c.camera \in OddCameras
<1>1. /\ k \notin {"dlna", "jobs"}
      /\ ~(k = "preview" /\ m = "POST" /\ ~o) /\ ~(k = "observation" /\ m = "GET")
      /\ ~(k \in ControlKinds /\ ~o /\ m \in {"GET", "PUT"})
      /\ ~(k = "search" /\ m = "POST") /\ ~(k = "conversations" /\ m = "GET")
      /\ ~(k = "settings" /\ m = "PATCH") /\ ~(k = "conversation" /\ m \in {"GET", "DELETE"})
  BY DEF RequiresHarborOsPrincipal, IsDetectionControl, ControlKinds
<1>2. Unowned(c) <=> /\ <<k, m>> \notin Personal
                     /\ <<k, m>> \in Steering => o
  BY DEF Unowned
<1> HIDE DEF m, k, o
<1>3. <<k, m>> \notin Personal  BY <1>1 DEF Personal
<1>4. <<k, m>> \in Steering => o  BY <1>1 DEF Steering, ControlKinds
<1>5. QED BY <1>2, <1>3, <1>4

(* The local network gets its one camera.                                  *)
LEMMA LanGood ==
  ASSUME NEW c \in CallRecord, c.camera \in PathCameras
  PROVE  LanPrincipal(c) \subseteq Principal /\ \A p \in LanPrincipal(c) : Confined(c, p)
<1> DEFINE L(role) == [source |-> "harbornavi-lan", role |-> role, scope |-> {c.camera}]
<1>1. \A role \in {"CAMERA_CONTROL", "CAMERA_VIEW"} :
        L(role) \in Principal /\ L(role).role = role /\ L(role).scope = {c.camera}
  BY DEF Principal
<1>2. \A role : Lan(role, c.camera) = L(role)  BY DEF Lan
<1> HIDE DEF L
<1>3. QED BY <1>1, <1>2 DEF LanPrincipal, IsDetectionControl, Confined, ControlKinds

(* proxy_beacon_request refuses, asks HarborOS or forwards.                *)
LEMMA ProxyGood ==
  ASSUME NEW c \in CallRecord, c.camera \in PathCameras, c.pc = "idle", c.outcome = "",
         NEW answers
  PROVE  LET p == ProxyBeaconRequest(c)
         IN p \in CallRecord /\ Founded(p, answers) /\ p.outcome # "served" /\ p.pc # "idle"
<1>1. \A o \in {"HARBORBEACON_DISABLED", "HARBORBEACON_SERVICE_AUTH_UNAVAILABLE",
                "HARBOROS_AUTH_FAILED"} :
        /\ Fail(c, o) \in CallRecord /\ Founded(Fail(c, o), answers)
        /\ Fail(c, o).pc = "ended" /\ Fail(c, o).outcome # "served"
  <2> TAKE o \in {"HARBORBEACON_DISABLED", "HARBORBEACON_SERVICE_AUTH_UNAVAILABLE",
                  "HARBOROS_AUTH_FAILED"}
  <2>1. o \in Outcomes /\ o # "served"  BY DEF Outcomes
  <2>2. QED BY <2>1, FailGood
<1>2. ASSUME ~RequiresHarborOsPrincipal(c.method, c.kind, c.camera)
      PROVE  /\ Forward(c, {}) \in CallRecord /\ Founded(Forward(c, {}), answers)
             /\ Forward(c, {}).pc = "forwarding" /\ Forward(c, {}).outcome = ""
  <2>1. {} \in SUBSET Principal  OBVIOUS
  <2>2. Unowned(c)  BY <1>2, NobodysGood
  <2>3. QED BY <2>1, <2>2, ForwardGood
<1>3. c.token # "sent" /\ LanPrincipal(c) # {} =>
        /\ Forward(c, LanPrincipal(c)) \in CallRecord
        /\ Founded(Forward(c, LanPrincipal(c)), answers)
        /\ Forward(c, LanPrincipal(c)).pc = "forwarding" /\ Forward(c, LanPrincipal(c)).outcome = ""
  BY LanGood, ForwardGood
<1> DEFINE l == [c EXCEPT !.pc = "login"]
<1>4. l \in CallRecord /\ l.pc = "login" /\ l.outcome = ""  BY DEF CallRecord
<1>5. Founded(l, answers)  BY <1>4 DEF Founded
<1> HIDE DEF l
<1>6. ProxyBeaconRequest(c) \in
        {Fail(c, "HARBORBEACON_DISABLED"), Fail(c, "HARBORBEACON_SERVICE_AUTH_UNAVAILABLE"),
         Fail(c, "HARBOROS_AUTH_FAILED"), l}
      \/ (/\ ~RequiresHarborOsPrincipal(c.method, c.kind, c.camera)
          /\ ProxyBeaconRequest(c) = Forward(c, {}))
      \/ (/\ c.token # "sent" /\ LanPrincipal(c) # {}
          /\ ProxyBeaconRequest(c) = Forward(c, LanPrincipal(c)))
  BY DEF ProxyBeaconRequest, l
<1>7. QED BY <1>1, <1>2, <1>3, <1>4, <1>5, <1>6

(* The server starts without a request.                                    *)
LEMMA AccessInvInit == AccessInit => AccessInv
  BY NoCallGood DEF AccessInit, AccessInv, Founded

(* serve refuses to start without the service tokens it requires.          *)
LEMMA ServeInv ==
  ASSUME AccessInv, NEW c \in Configs, Serve(c)  PROVE AccessInv'
  BY DEF Serve, AccessInv

(* A service call ends at its version, its bearer token or its handler.    *)
LEMMA ServiceInv ==
  ASSUME AccessInv, NEW kind \in {"turn", "notification"}, NEW version, NEW bearer \in Tokens,
         Service(kind, version, bearer)
  PROVE  AccessInv'
<1>1. PICK outcome \in {"CONTRACT_VERSION_MISMATCH", "SERVICE_AUTH_FAILED", "served"} :
        /\ call' = [NoCall EXCEPT !.pc = "ended", !.kind = kind, !.bearer = bearer,
                                  !.outcome = outcome]
        /\ outcome = "served" => RequireServiceAuth(bearer)
  BY DEF Service
<1> DEFINE o == [NoCall EXCEPT !.pc = "ended", !.kind = kind]
           n == [o EXCEPT !.bearer = bearer]
           m == [n EXCEPT !.outcome = outcome]
<1>a. o \in CallRecord /\ o.pc = "ended"
  BY NoCallGood DEF CallRecord
<1>b. call' = m  BY <1>1, Zenon DEF NoCall
<1> HIDE DEF o
<1>2. n \in CallRecord /\ n.pc = "ended" /\ n.bearer = bearer
  BY <1>a DEF CallRecord
<1>3. call' = m  BY <1>b
<1> HIDE DEF n
<1>c. outcome \in Outcomes  BY DEF Outcomes
<1>4. m \in CallRecord /\ m.pc = "ended" /\ m.bearer = bearer /\ m.outcome = outcome
  BY <1>2, <1>c DEF CallRecord
<1> HIDE DEF m
<1>5. config # {} /\ call.pc = "idle" /\ UNCHANGED <<config, login, heard>>  BY DEF Service
<1>6. PICK c \in Configs : config = {c} /\ ValidateRequiredServiceAuth(c)
  BY <1>5 DEF AccessInv
<1>7. Config = c  BY <1>6 DEF Config
<1>8. RequireServiceAuth(bearer) => bearer \in GoodTokens \cap {Config.token, Config.previous}
  BY <1>6, <1>7
  DEF RequireServiceAuth, ServiceTokenMatches, ValidateRequiredServiceAuth, ValidServiceToken
<1>9. Founded(m, heard)  BY <1>4 DEF Founded
<1>10. QED BY <1>1, <1>3, <1>4, <1>5, <1>8, <1>9 DEF AccessInv, Config

(* proxy_local_api ends, forwards for the LAN or opens a login.            *)
LEMMA ProxyInv ==
  ASSUME AccessInv, NEW method \in Methods, NEW kind \in Kinds, NEW camera \in PathCameras,
         NEW canonical \in BOOLEAN, NEW query \in {"", "identity", "plain"},
         NEW token \in {"none", "blank", "sent"},
         Proxy(method, kind, camera, canonical, query, token)
  PROVE  AccessInv'
<1> DEFINE q == SanitizedBeaconQuery(query)
           n == [NoCall EXCEPT !.kind = kind, !.method = method, !.camera = camera]
           c == [n EXCEPT !.query = q, !.token = token]
<1>1. q \in {"", "identity", "plain"}  BY DEF SanitizedBeaconQuery
<1>2. n \in CallRecord /\ n.pc = "idle" /\ n.camera = camera /\ n.outcome = ""
  BY NoCallGood DEF CallRecord
<1>3. c = [NoCall EXCEPT !.kind = kind, !.method = method, !.camera = camera,
                         !.query = SanitizedBeaconQuery(query), !.token = token]
  BY Zenon DEF NoCall
<1>4. call' = ProxyBeaconRequest(c) \/ call' = Fail(c, "VALIDATION")
  BY <1>3 DEF Proxy
<1> HIDE DEF n, q
<1>5. c \in CallRecord /\ c.pc = "idle" /\ c.camera = camera /\ c.outcome = ""
  BY <1>1, <1>2 DEF CallRecord
<1> HIDE DEF c
<1>6. call' \in CallRecord /\ Founded(call', {}) /\ call'.outcome # "served"
  <2>1. "VALIDATION" \in Outcomes  BY DEF Outcomes
  <2>2. CASE call' = Fail(c, "VALIDATION")  BY <1>5, <2>1, <2>2, FailGood
  <2>3. CASE call' = ProxyBeaconRequest(c)  BY <1>5, <2>3, ProxyGood
  <2>4. QED BY <1>4, <2>2, <2>3
<1>7. heard' = {} /\ config' = config /\ login' = (IF call'.pc = "login" THEN "connecting" ELSE "none")
  BY DEF Proxy
<1>8. QED BY <1>6, <1>7 DEF AccessInv

(* A frame from HarborOS decides the login that waits for it, or none.     *)
LEMMA HearInv ==
  ASSUME AccessInv, NEW answer \in Refusals \cup {"SUCCESS", "ping"}, NEW ours \in BOOLEAN,
         Hear(answer, ours)
  PROVE  AccessInv'
<1>1. login = "sent" /\ config' = config /\ call.pc = "login" /\ call \in CallRecord
      /\ heard' = (IF ours THEN heard \cup {answer} ELSE heard)
  BY DEF Hear, AccessInv
<1>2. CASE UNCHANGED <<call, login>>
  BY <1>1, <1>2 DEF AccessInv, Founded, Config
<1>3. CASE /\ login' = "none" /\ answer # "ping" /\ (answer \notin {"close", "garbage"} => ours)
           /\ call' = IF answer = "SUCCESS" THEN Forward(call, {Admin})
                      ELSE LoginFailed(call, LoginFailure(answer))
  <2>1. CASE answer = "SUCCESS"
    <3>1. "SUCCESS" \in heard' /\ call' = Forward(call, {Admin})  BY <1>1, <1>3, <2>1
    <3>2. Admin \in Principal /\ Admin.source = "harboros"  BY DEF Admin, Principal
    <3>3. \A p \in {Admin} : Confined(call, p)  BY <3>2 DEF Confined
    <3>4. /\ call' \in CallRecord /\ Founded(call', heard') /\ call'.outcome = call.outcome
          /\ call'.bearer = call.bearer
      BY <1>1, <3>1, <3>2, <3>3, ForwardGood
    <3>5. QED BY <1>1, <1>3, <3>4 DEF AccessInv, Config
  <2>2. CASE answer # "SUCCESS"
    <3>1. PICK o \in Outcomes \ {"served"} : call' = Fail(call, o)
      <4>1. answer \in Refusals  BY <1>3, <2>2
      <4>2. LoginFailure(answer) \in
              {"HARBOROS_AUTH_FAILED", "HARBOROS_ACCESS_DENIED", "HARBOROS_WEBUI_ACCESS_REQUIRED",
               "HARBOROS_FULL_ADMIN_REQUIRED", "HARBOROS_AUTH_UNAVAILABLE"}
        BY <4>1 DEF LoginFailure, Refusals
      <4>3. LoginFailure(answer) \in Outcomes \ {"served"}  BY <4>2 DEF Outcomes
      <4>4. call' = Fail(call, LoginFailure(answer))  BY <1>3, <2>2 DEF LoginFailed
      <4>5. QED BY <4>3, <4>4
    <3>2. call' \in CallRecord /\ Founded(call', heard') /\ call'.outcome # "served"
      BY <1>1, <3>1, FailGood
    <3>3. QED BY <1>1, <1>3, <3>2 DEF AccessInv
  <2>3. QED BY <2>1, <2>2
<1>4. QED BY <1>2, <1>3 DEF Hear, IsOurs

(* Every step of the access checks keeps the invariant.                    *)
LEMMA AccessInvNext ==
  ASSUME AccessInv, [AccessNext]_accessVars
  PROVE  AccessInv'
<1>1. CASE UNCHANGED accessVars  BY <1>1 DEF accessVars, AccessInv, Founded, Config
<1>2. CASE Connect  BY <1>2 DEF Connect, AccessInv, Founded, Config
<1>3. CASE LoginUnreachable \/ AuthTimeout
  <2>1. /\ login' = "none" /\ UNCHANGED <<config, heard>>
        /\ call' = Fail(call, "HARBOROS_AUTH_UNAVAILABLE")
    BY <1>3 DEF LoginUnreachable, AuthTimeout, LoginFailed
  <2>2. call' \in CallRecord /\ Founded(call', heard) /\ call'.outcome # "served"
    BY <2>1, FailGood DEF AccessInv, Outcomes
  <2>3. QED BY <2>1, <2>2 DEF AccessInv
<1>4. CASE Finish
  BY <1>4, NoCallGood DEF Finish, AccessInv, Founded
<1>5. ASSUME NEW outcome \in {"answered", "UNREACHABLE"}, BeaconAnswers(outcome)
      PROVE  AccessInv'
  <2>1. call' = Fail(call, outcome) /\ UNCHANGED <<config, login, heard>> /\ login = "none"
    BY <1>5 DEF BeaconAnswers, End, Fail, AccessInv
  <2>a. call \in CallRecord /\ outcome \in Outcomes /\ outcome # "served"
    BY <1>5 DEF AccessInv, Outcomes
  <2>2. call' \in CallRecord /\ Founded(call', heard) /\ call'.outcome # "served"
    BY <2>1, <2>a, FailGood
  <2>3. QED BY <2>1, <2>2 DEF AccessInv
<1>6. CASE \E kind \in {"turn", "notification"}, version \in {"", "current", "legacy", "other"},
               bearer \in Tokens : Service(kind, version, bearer)
  BY <1>6, ServiceInv
<1>7. CASE \E method \in Methods, kind \in Kinds, camera \in PathCameras, canonical \in BOOLEAN,
               query \in {"", "identity", "plain"}, token \in {"none", "blank", "sent"} :
               Proxy(method, kind, camera, canonical, query, token)
  <2>1. PICK method \in Methods, kind \in Kinds, camera \in PathCameras, canonical \in BOOLEAN,
             query \in {"", "identity", "plain"}, token \in {"none", "blank", "sent"} :
             Proxy(method, kind, camera, canonical, query, token)
    BY <1>7, Zenon
  <2>2. QED BY <2>1, ProxyInv
<1>8. CASE \E answer \in Refusals \cup {"SUCCESS", "ping"}, ours \in BOOLEAN : Hear(answer, ours)
  BY <1>8, HearInv
<1>9. QED
  BY <1>1, <1>2, <1>3, <1>4, <1>5, <1>6, <1>7, <1>8, ServeInv, Zenon DEF AccessNext

(* Service calls are served to known callers only, the household's         *)
(* requests are forwarded for an administrator or for the LAN's one        *)
(* camera only, and for nobody only what is none of these, odd camera ids  *)
(* aside: whatever tokens, requests and answers of HarborOS there are.     *)
THEOREM AccessStaysFounded == AccessSpec => []AccessIsFounded
<1>1. AccessInv => AccessIsFounded
  <2> SUFFICES ASSUME AccessInv PROVE AccessIsFounded  OBVIOUS
  <2>1. ServiceCallsAreKnown /\ LoginDecides /\ LanIsConfined
    BY DEF AccessInv, ServiceCallsAreKnown, LoginDecides, LanIsConfined, Founded, Confined
  <2>2. NobodyGetsTheRest  BY DEF AccessInv, NobodyGetsTheRest, Founded, Unowned
  <2>3. QED BY <2>1, <2>2 DEF AccessIsFounded
<1>2. QED BY <1>1, AccessInvInit, AccessInvNext, PTL DEF AccessSpec

-----------------------------------------------------------------------------
(* Device sessions.  The request that holds the lock has the only copy of  *)
(* the file that may replace it, made from the file as it still is; a      *)
(* token is made once, and the browser that ends its session got it after  *)
(* the session was in the file.                                            *)

(* The records of device-sessions.json, the codes that were issued and the *)
(* requests.                                                               *)
PairingRecord == [code : 1..MaxCodes, camera : Cameras, expires : Nat, consumed : BOOLEAN]
SessionRecord == [token : Nat, camera : Cameras, expires : Nat, revoked : BOOLEAN]
SessionFile   == [pairings : SUBSET PairingRecord, sessions : SUBSET SessionRecord]
CodeRecord    == [code : 1..MaxCodes, expires : Nat, known : BOOLEAN, used : BOOLEAN]

RequestRecord ==
  [pc : {"idle", "waiting", "locked", "answered"},
   op : {"", "issue", "exchange", "status", "logout"}, arg : Nat, token : Nat,
   camera : Cameras \cup {""}, at : Nat, late : BOOLEAN, copy : SUBSET SessionFile,
   granted : SUBSET Cameras]

(* What a request may make of the file f.                                  *)
Results(f, q) ==
  CASE q.op = "issue" -> {IssuePairing(f, q)}
    [] q.op = "exchange" -> {Exchange(f, q, p, q.token) : p \in Exchangeable(f, q)}
    [] q.op = "logout" -> {Revoke(f, s) : s \in Revocable(f, q.arg)}

(* What a request asks for, at the time n, with the codes C, the tokens H  *)
(* that were handed out and the tokens O that were logged out.             *)
Asks(q, n, C, H, O) ==
  /\ q.at <= n
  /\ q.pc = "idle" <=> q.op = ""
  /\ q.op = "issue" => /\ q.camera \in Cameras
                       /\ \E c \in C : c.code = q.arg /\ c.expires = q.at + PairingTtl
  /\ q.op \in {"status", "logout"} => q.arg \in H
  /\ q.late => q.arg \in O /\ q.granted = {}

(* What the request r holds: the lock h, and a copy that follows from f.   *)
Holds(q, r, h, f, H, T) ==
  /\ q.pc = "locked" <=> q.copy # {}
  /\ q.pc = "locked" =>
       /\ h = {r} /\ q.op \in {"issue", "exchange", "logout"} /\ q.copy \subseteq Results(f, q)
       /\ q.op = "exchange" =>
            q.token \in 1..T /\ q.token \notin H /\ \A s \in f.sessions : s.token # q.token

(* Every request knows what it asks for, and at most one holds the lock.   *)
RequestsInv ==
  /\ clock \in 0..MaxTime /\ tokens \in Nat /\ req \in [Requests -> RequestRecord]
  /\ holder = {} \/ \E r \in Requests : holder = {r}
  /\ \A r \in Requests : /\ Asks(req[r], clock, codes, handed, out)
                         /\ Holds(req[r], r, holder, file, handed, tokens)

(* Issued codes are numbered.                                              *)
CodesGood(C) ==
  /\ IsFiniteSet(C) /\ C \subseteq CodeRecord
  /\ \A c, d \in C : c.code = d.code => c = d
  /\ \A c \in C : c.code <= Cardinality(C)

(* A session is told by its token, and nothing in the file ends later than *)
(* its time to live allows.                                                *)
FileGood(f, n, T) ==
  /\ f \in SessionFile
  /\ \A p \in f.pairings : p.expires <= n + PairingTtl
  /\ \A s \in f.sessions : s.expires <= n + SessionTtl /\ s.token <= T
  /\ \A s, t \in f.sessions : s.token = t.token => s = t

(* Tokens that were handed out are known, and those logged out stay        *)
(* revoked.                                                                *)
OutGood(f, H, O, T) ==
  /\ O \subseteq H /\ H \subseteq 1..T
  /\ \A s \in f.sessions : s.token \in O => s.revoked

(* A code that was shown, is not used and is in its time waits in the      *)
(* file.                                                                   *)
UsableIn(f, C, n) ==
  \A c \in C : c.known /\ ~c.used /\ c.expires > n =>
    \E p \in f.pairings : p.code = c.code /\ ~p.consumed /\ p.expires = c.expires

(* The inductive invariant of the session file.                            *)
SessionInv ==
  /\ RequestsInv /\ CodesGood(codes) /\ FileGood(file, clock, tokens)
  /\ OutGood(file, handed, out, tokens) /\ UsableIn(file, codes, clock)

(* What is assumed of the constants.                                       *)
LEMMA SessionConstants ==
  /\ PairingTtl \in Nat /\ SessionTtl \in Nat /\ MaxTime \in Nat /\ MaxCodes \in Nat
  /\ \A k \in 1..MaxCodes : CameraOf[k] \in Cameras
  BY SessionAssumptions DEF Cameras

(* Between two requests nothing is asked.                                  *)
LEMMA NoRequestGood ==
  /\ NoRequest \in RequestRecord /\ NoRequest.pc = "idle" /\ NoRequest.op = ""
  /\ NoRequest.copy = {} /\ NoRequest.at = 0 /\ ~NoRequest.late
  BY DEF NoRequest, RequestRecord

(* Nothing is asked and nothing held between two requests.                 *)
LEMMA IdleAsks ==
  ASSUME NEW n \in Nat, NEW C, NEW H, NEW O, NEW r, NEW h, NEW f, NEW T
  PROVE  Asks(NoRequest, n, C, H, O) /\ Holds(NoRequest, r, h, f, H, T)
<1>1. 0 <= n  OBVIOUS
<1>2. Asks(NoRequest, n, C, H, O)  BY <1>1, NoRequestGood DEF Asks
<1>3. Holds(NoRequest, r, h, f, H, T)  BY NoRequestGood DEF Holds
<1>4. QED BY <1>2, <1>3

(* What becomes of a code, and that no two become one.                     *)
Note(q, error, c) ==
  IF c.code # q.arg THEN c
  ELSE [c EXCEPT !.known = @ \/ (q.op = "issue" /\ error = ""), !.used = @ \/ q.op = "exchange"]

(* What is remembered of a code when a request about it ends.              *)
LEMMA NoteGood ==
  ASSUME NEW c \in CodeRecord, NEW q, NEW error
  PROVE  LET d == Note(q, error, c)
         IN  /\ d \in CodeRecord /\ d.code = c.code /\ d.expires = c.expires
             /\ d.known = (c.known \/ (c.code = q.arg /\ q.op = "issue" /\ error = ""))
             /\ d.used = (c.used \/ (c.code = q.arg /\ q.op = "exchange"))
<1> DEFINE k == c.known \/ (q.op = "issue" /\ error = "")
           u == c.used \/ q.op = "exchange"
           d == [c EXCEPT !.known = k, !.used = u]
<1>1. CASE c.code # q.arg
  <2>1. Note(q, error, c) = c  BY <1>1 DEF Note
  <2>2. c.known \in BOOLEAN /\ c.used \in BOOLEAN  BY DEF CodeRecord
  <2>3. QED BY <1>1, <2>1, <2>2
<1>2. CASE c.code = q.arg
  <2>1. k \in BOOLEAN /\ u \in BOOLEAN  OBVIOUS
  <2>2. Note(q, error, c) = d  BY <1>2 DEF Note
  <2> HIDE DEF k, u
  <2>3. d \in CodeRecord /\ d.code = c.code /\ d.expires = c.expires /\ d.known = k /\ d.used = u
    BY <2>1 DEF CodeRecord
  <2> HIDE DEF d
  <2>4. k = (c.known \/ (c.code = q.arg /\ q.op = "issue" /\ error = ""))  BY <1>2 DEF k
  <2>5. u = (c.used \/ (c.code = q.arg /\ q.op = "exchange"))  BY <1>2 DEF u
  <2>6. QED BY <2>2, <2>3, <2>4, <2>5
<1>3. QED BY <1>1, <1>2

(* The issued codes stay numbered when a request ends.                     *)
LEMMA NotedGood ==
  ASSUME CodesGood(codes), NEW q, NEW error
  PROVE  /\ CodesGood(Noted(q, error)) /\ Cardinality(Noted(q, error)) = Cardinality(codes)
         /\ Noted(q, error) = {Note(q, error, c) : c \in codes}
<1> DEFINE N == {Note(q, error, c) : c \in codes}
           F == [c \in codes |-> Note(q, error, c)]
<1>1. Noted(q, error) = N  BY DEF Noted, Note
<1>2. \A c \in codes : Note(q, error, c) \in CodeRecord /\ Note(q, error, c).code = c.code
  BY NoteGood DEF CodesGood
<1>3. F \in [codes -> N] /\ (\A c, d \in codes : F[c] = F[d] => c = d)
      /\ \A x \in N : \E c \in codes : F[c] = x
  BY <1>2 DEF CodesGood
<1>4. F \in Bijection(codes, N)  BY <1>3, Fun_IsBij
<1>5. ExistsBijection(codes, N)  BY <1>4, Fun_ExistsBij
<1>6. IsFiniteSet(N) /\ Cardinality(N) = Cardinality(codes)  BY <1>5, FS_Bijection DEF CodesGood
<1>7. CodesGood(N)
  <2>1. N \subseteq CodeRecord  BY <1>2
  <2>2. \A x, y \in N : x.code = y.code => x = y  BY <1>2 DEF CodesGood
  <2>3. \A x \in N : x.code <= Cardinality(N)  BY <1>2, <1>6 DEF CodesGood
  <2> HIDE DEF N
  <2>4. QED BY <1>6, <2>1, <2>2, <2>3 DEF CodesGood
<1>8. QED BY <1>1, <1>6, <1>7

(* What the three operations make of a good file.                          *)
LEMMA IssueGood ==
  ASSUME NEW f, NEW n \in Nat, NEW T, FileGood(f, n, T), NEW q \in RequestRecord, q.at <= n,
         q.camera \in Cameras, q.arg \in 1..MaxCodes
  PROVE  LET g == IssuePairing(f, q)
         IN  /\ FileGood(g, n, T) /\ g.sessions = f.sessions
             /\ \A p \in f.pairings : ~p.consumed /\ p.expires > n => p \in g.pairings
             /\ \E p \in g.pairings : p.code = q.arg /\ ~p.consumed /\ p.expires = q.at + PairingTtl
<1> DEFINE x == [code |-> q.arg, camera |-> q.camera, expires |-> q.at + PairingTtl,
                 consumed |-> FALSE]
           P == {p \in f.pairings : LiveCode(p, q.at)} \cup {x}
           g == [f EXCEPT !.pairings = P]
<1>0. q.at \in Nat /\ PairingTtl \in Nat  BY SessionConstants DEF RequestRecord
<1>1. q.at \in Nat /\ q.at + PairingTtl \in Nat /\ q.at + PairingTtl <= n + PairingTtl
  BY <1>0
<1>2. x \in PairingRecord /\ x.code = q.arg /\ ~x.consumed /\ x.expires = q.at + PairingTtl
  BY <1>1 DEF PairingRecord
<1>3. f \in SessionFile /\ f.pairings \subseteq PairingRecord
  BY DEF FileGood, SessionFile
<1>4. IssuePairing(f, q) = g  BY DEF IssuePairing
<1> HIDE DEF x
<1>5. P \subseteq PairingRecord /\ \A p \in P : p.expires <= n + PairingTtl
  BY <1>1, <1>2, <1>3 DEF FileGood
<1>6. \A p \in f.pairings : ~p.consumed /\ p.expires > n => p \in P
  <2> SUFFICES ASSUME NEW p \in f.pairings, ~p.consumed, p.expires > n  PROVE LiveCode(p, q.at)
    OBVIOUS
  <2>1. p.expires \in Nat  BY <1>3 DEF PairingRecord
  <2>2. QED BY <1>1, <2>1 DEF LiveCode
<1>7. x \in P  OBVIOUS
<1> HIDE DEF P
<1>8. g \in SessionFile /\ g.sessions = f.sessions /\ g.pairings = P
  BY <1>3, <1>5 DEF SessionFile
<1> HIDE DEF g
<1>9. FileGood(g, n, T)  BY <1>5, <1>8 DEF FileGood
<1>10. QED BY <1>2, <1>4, <1>6, <1>7, <1>8, <1>9

(* exchange consumes one code and adds one session for its camera.         *)
LEMMA ExchangeGood ==
  ASSUME NEW f, NEW n \in Nat, NEW T, FileGood(f, n, T), NEW q \in RequestRecord, q.at <= n,
         q.token <= T, \A s \in f.sessions : s.token # q.token, NEW p \in Exchangeable(f, q)
  PROVE  LET g == Exchange(f, q, p, q.token)
         IN  /\ FileGood(g, n, T)
             /\ \A x \in f.pairings : x.code # q.arg => x \in g.pairings
             /\ \A s \in g.sessions : s \in f.sessions
                   \/ (s.token = q.token /\ s.camera = p.camera /\ s.expires = q.at + SessionTtl)
             /\ \E x \in g.pairings : x.code = p.code /\ x.consumed
             /\ p \in f.pairings /\ ~p.consumed /\ p.expires > q.at /\ p.code = q.arg
<1> DEFINE u == [p EXCEPT !.consumed = TRUE]
           s0 == [token |-> q.token, camera |-> p.camera, expires |-> q.at + SessionTtl,
                  revoked |-> FALSE]
           P == (f.pairings \ {p}) \cup {u}
           S == {s \in f.sessions : s.expires > q.at /\ ~s.revoked} \cup {s0}
           g == [pairings |-> P, sessions |-> S]
<1>1. p \in f.pairings /\ p \in PairingRecord /\ ~p.consumed /\ p.expires > q.at /\ p.code = q.arg
      /\ f.pairings \subseteq PairingRecord /\ f.sessions \subseteq SessionRecord
  BY DEF Exchangeable, LiveCode, FileGood, SessionFile
<1>0. q.at \in Nat /\ q.token \in Nat /\ SessionTtl \in Nat
  BY SessionConstants DEF RequestRecord
<1>2. q.at \in Nat /\ q.at + SessionTtl \in Nat /\ q.at + SessionTtl <= n + SessionTtl /\ q.token \in Nat
  BY <1>0
<1>3. u \in PairingRecord /\ u.consumed /\ u.code = p.code /\ u.expires = p.expires
  BY <1>1 DEF PairingRecord
<1>4. s0 \in SessionRecord /\ s0.token = q.token /\ s0.camera = p.camera
      /\ s0.expires = q.at + SessionTtl
  BY <1>1, <1>2 DEF SessionRecord, PairingRecord
<1>5. Exchange(f, q, p, q.token) = g  BY DEF Exchange
<1> HIDE DEF u, s0
<1>6. P \subseteq PairingRecord /\ \A x \in P : x.expires <= n + PairingTtl
  BY <1>1, <1>3 DEF FileGood
<1>7. S \subseteq SessionRecord /\ \A s \in S : s.expires <= n + SessionTtl /\ s.token <= T
  BY <1>1, <1>2, <1>4 DEF FileGood
<1>8. \A s, t \in S : s.token = t.token => s = t  BY <1>4 DEF FileGood
<1>9. \A x \in f.pairings : x.code # q.arg => x \in P  BY <1>1
<1>10. \A s \in S : s \in f.sessions \/ s = s0  OBVIOUS
<1>11. u \in P  OBVIOUS
<1> HIDE DEF P, S
<1>12. g \in SessionFile /\ g.pairings = P /\ g.sessions = S  BY <1>6, <1>7 DEF SessionFile
<1> HIDE DEF g
<1>13. FileGood(g, n, T)  BY <1>6, <1>7, <1>8, <1>12 DEF FileGood
<1>14. QED BY <1>1, <1>3, <1>4, <1>5, <1>9, <1>10, <1>11, <1>12, <1>13

(* revoke marks the session of the token and touches no other.             *)
LEMMA RevokeGood ==
  ASSUME NEW f, NEW n \in Nat, NEW T, FileGood(f, n, T), NEW token,
         NEW s \in Revocable(f, token)
  PROVE  LET g == Revoke(f, s)
         IN  /\ FileGood(g, n, T) /\ g.pairings = f.pairings
             /\ \A t \in g.sessions : t \in f.sessions \/ t.revoked
             /\ \A t \in g.sessions : t.token = token => t.revoked
<1> DEFINE r == [s EXCEPT !.revoked = TRUE]
           S == (f.sessions \ {s}) \cup {r}
           g == [f EXCEPT !.sessions = S]
<1>1. s \in f.sessions /\ s.token = token /\ f \in SessionFile /\ f.sessions \subseteq SessionRecord
  BY DEF Revocable, FileGood, SessionFile
<1>2. r \in SessionRecord /\ r.revoked /\ r.token = s.token /\ r.expires = s.expires
  BY <1>1 DEF SessionRecord
<1>3. Revoke(f, s) = g  BY DEF Revoke
<1> HIDE DEF r
<1>4. S \subseteq SessionRecord /\ \A t \in S : t.expires <= n + SessionTtl /\ t.token <= T
  BY <1>1, <1>2 DEF FileGood
<1>5. \A t, v \in S : t.token = v.token => t = v  BY <1>1, <1>2 DEF FileGood
<1>6. \A t \in S : (t \in f.sessions \/ t.revoked) /\ (t.token = token => t.revoked)
  BY <1>1, <1>2 DEF FileGood
<1> HIDE DEF S
<1>7. g \in SessionFile /\ g.pairings = f.pairings /\ g.sessions = S
  BY <1>1, <1>4 DEF SessionFile
<1> HIDE DEF g
<1>8. FileGood(g, n, T)  BY <1>4, <1>5, <1>7 DEF FileGood
<1>9. QED BY <1>3, <1>6, <1>7, <1>8

(* A request that does not hold the lock is not disturbed by what others   *)
(* do: the clock, the codes and the tokens only grow.                      *)
Grow(n, m, C, D, H, I, O, P) ==
  /\ n <= m /\ H \subseteq I /\ O \subseteq P
  /\ \A c \in C : \E d \in D : d.code = c.code /\ d.expires = c.expires

(* What a request asks for stays meaningful while time passes and others   *)
(* end.                                                                    *)
LEMMA AsksOn ==
  ASSUME NEW q \in RequestRecord, NEW n \in Nat, NEW m \in Nat, NEW C, NEW D, NEW H, NEW I,
         NEW O, NEW P, Asks(q, n, C, H, O), Grow(n, m, C, D, H, I, O, P)
  PROVE  Asks(q, m, D, I, P)
<1>1. q.at \in Nat  BY DEF RequestRecord
<1>a. q.at <= n  BY DEF Asks
<1>b. n <= m  BY DEF Grow
<1>2. q.at <= m  BY <1>1, <1>a, <1>b
<1>3. q.op = "issue" => q.camera \in Cameras
                        /\ \E c \in D : c.code = q.arg /\ c.expires = q.at + PairingTtl
  BY DEF Asks, Grow
<1>4. /\ q.pc = "idle" <=> q.op = ""
      /\ q.op \in {"status", "logout"} => q.arg \in I
      /\ q.late => q.arg \in P /\ q.granted = {}
  BY DEF Asks, Grow
<1>5. QED BY <1>2, <1>3, <1>4 DEF Asks

(* Only the request that has the lock depends on the file.                 *)
LEMMA HoldsNothing ==
  ASSUME NEW q, NEW r, NEW s, NEW h, NEW k, NEW f, NEW g, NEW H, NEW I, NEW T, NEW U,
         Holds(q, r, h, f, H, T), q.pc # "locked"
  PROVE  Holds(q, s, k, g, I, U)
  BY DEF Holds

(* The types that the steps below use.                                     *)
LEMMA NowIsNat ==
  ASSUME SessionInv
  PROVE  clock \in Nat /\ tokens \in Nat /\ req \in [Requests -> RequestRecord]
<1>1. clock \in 0..MaxTime /\ tokens \in Nat /\ req \in [Requests -> RequestRecord]
  BY DEF SessionInv, RequestsInv
<1>2. MaxTime \in Nat  BY SessionConstants
<1>3. QED BY <1>1, <1>2

(* The step of one request r that leaves the lock with it or free.         *)
LEMMA OneRequest ==
  ASSUME SessionInv, NEW r \in Requests, NEW q \in RequestRecord,
         req' = [req EXCEPT ![r] = q], tokens' \in Nat,
         clock' = clock, Grow(clock, clock, codes, codes', handed, handed', out, out'),
         holder' = {} \/ \E s \in Requests : holder' = {s},
         \/ \A s \in Requests \ {r} : req[s].pc # "locked"
         \/ file' = file /\ holder' = holder /\ handed' = handed /\ tokens' = tokens,
         Asks(q, clock', codes', handed', out'), Holds(q, r, holder', file', handed', tokens')
  PROVE  RequestsInv'
<1>1. clock \in Nat /\ clock \in 0..MaxTime /\ req \in [Requests -> RequestRecord]
  BY SessionConstants DEF SessionInv, RequestsInv
<1>2. req' \in [Requests -> RequestRecord] /\ req'[r] = q
      /\ \A s \in Requests \ {r} : req'[s] = req[s]
  BY <1>1
<1>3. \A s \in Requests \ {r} : Asks(req[s], clock', codes', handed', out')
  BY <1>1, AsksOn DEF SessionInv, RequestsInv
<1>4. \A s \in Requests \ {r} : Holds(req[s], s, holder', file', handed', tokens')
  <2> TAKE s \in Requests \ {r}
  <2>1. Holds(req[s], s, holder, file, handed, tokens)  BY DEF SessionInv, RequestsInv
  <2>2. CASE req[s].pc # "locked"  BY <2>1, <2>2, HoldsNothing
  <2>3. CASE req[s].pc = "locked"  BY <2>1, <2>3
  <2>4. QED BY <2>2, <2>3
<1>5. \A s \in Requests : Asks(req'[s], clock', codes', handed', out')
                          /\ Holds(req'[s], s, holder', file', handed', tokens')
  BY <1>2, <1>3, <1>4
<1>6. QED BY <1>1, <1>2, <1>5 DEF RequestsInv

(* Nobody else holds the lock.                                             *)
LEMMA LockIsMine ==
  ASSUME SessionInv, NEW r \in Requests, holder = {} \/ req[r].pc = "locked"
  PROVE  \A s \in Requests \ {r} : req[s].pc # "locked"
<1> SUFFICES ASSUME NEW s \in Requests, s # r, req[s].pc = "locked"  PROVE FALSE  OBVIOUS
<1>1. holder = {s}  BY DEF SessionInv, RequestsInv, Holds
<1>2. req[r].pc = "locked" => holder = {r}  BY DEF SessionInv, RequestsInv, Holds
<1>3. QED BY <1>1, <1>2

(* Standing still is a way to grow.                                        *)
LEMMA SameGrow ==
  ASSUME NEW n \in Nat, NEW C, NEW H, NEW O
  PROVE  Grow(n, n, C, C, H, H, O, O)
  BY DEF Grow

(* What the arguments of a request are.                                      *)
Stands(op, arg, camera, n, C, H) ==
  /\ op = "issue" => /\ camera \in Cameras
                     /\ \E c \in C : c.code = arg /\ c.expires = n + PairingTtl
  /\ op \in {"status", "logout"} => arg \in H

(* The requests and their arguments.                                       *)
Operation == {"issue", "exchange", "status", "logout"}
CameraArg == Cameras \cup {""}

(* The request that starts.                                                *)
Asked(op, arg, camera, n, late) ==
  [NoRequest EXCEPT !.pc = "waiting", !.op = op, !.arg = arg, !.camera = camera, !.at = n,
                    !.late = late]

(* A request that starts has its arguments and nothing else.               *)
LEMMA StartAsks ==
  ASSUME NEW op \in Operation, NEW arg \in Nat, NEW camera \in CameraArg, NEW n \in Nat, NEW late \in BOOLEAN
  PROVE  LET q == Asked(op, arg, camera, n, late)
         IN  /\ q \in RequestRecord /\ q.pc = "waiting" /\ q.op = op /\ q.arg = arg
             /\ q.camera = camera /\ q.at = n /\ q.late = late /\ q.copy = {} /\ q.granted = {}
  BY DEF NoRequest, RequestRecord, Operation, CameraArg, Asked

(* A request starts and waits for the lock.                                *)
LEMMA StartInv ==
  ASSUME SessionInv, NEW r \in Requests, NEW op \in Operation,
         NEW arg \in Nat, NEW camera \in CameraArg, Start(r, op, arg, camera),
         UNCHANGED tokens, Grow(clock, clock, codes, codes', handed, handed, out, out),
         Stands(op, arg, camera, clock, codes', handed)
  PROVE  RequestsInv'
<1> DEFINE late == arg \in out
           q == Asked(op, arg, camera, clock, late)
<1>1. clock \in Nat /\ tokens \in Nat /\ late \in BOOLEAN  BY NowIsNat
<1>2. /\ q \in RequestRecord /\ q.pc = "waiting" /\ q.op = op /\ q.arg = arg
      /\ q.camera = camera /\ q.at = clock /\ q.late = late /\ q.copy = {} /\ q.granted = {}
  <2> HIDE DEF late
  <2>1. QED BY <1>1, StartAsks
<1>3. req' = [req EXCEPT ![r] = q] /\ UNCHANGED <<clock, file, holder, handed, out>>
  BY DEF Start, Asked
<1> HIDE DEF q
<1>4. Asks(q, clock', codes', handed', out')
  <2>0. q.at = clock /\ clock' = clock  BY <1>2, <1>3
  <2>1. q.at <= clock'  BY <1>1, <2>0
  <2>2. q.op = "issue" => q.camera \in Cameras
                        /\ \E c \in codes' : c.code = q.arg /\ c.expires = q.at + PairingTtl
    BY <1>2 DEF Stands
  <2>3. op # "" /\ (op \in {"status", "logout"} => arg \in handed)  BY DEF Stands, Operation
  <2>4. QED BY <1>2, <1>3, <2>1, <2>2, <2>3 DEF Asks
<1>5. Holds(q, r, holder', file', handed', tokens')  BY <1>2 DEF Holds
<1>6. holder' = {} \/ \E s \in Requests : holder' = {s}  BY <1>3 DEF SessionInv, RequestsInv
<1>7. Grow(clock, clock, codes, codes', handed, handed', out, out')  BY <1>3
<1>8. QED BY <1>1, <1>2, <1>3, <1>4, <1>5, <1>6, <1>7, OneRequest

(* A request for a code draws a new one.                                   *)
LEMMA StartIssueInv ==
  ASSUME SessionInv, NEW r \in Requests, StartIssue(r)
  PROVE  SessionInv'
<1> DEFINE code == Cardinality(codes) + 1
           c0 == [code |-> code, expires |-> clock + PairingTtl, known |-> FALSE, used |-> FALSE]
<1>1. clock \in Nat /\ PairingTtl \in Nat /\ IsFiniteSet(codes) /\ Cardinality(codes) \in Nat
      /\ MaxCodes \in Nat
  BY SessionConstants, FS_CardinalityType DEF SessionInv, RequestsInv, CodesGood
<1>2. Cardinality(codes) < MaxCodes /\ Start(r, "issue", code, CameraOf[code])
      /\ codes' = codes \cup {c0} /\ UNCHANGED <<tokens, failures>>
  BY DEF StartIssue
<1>3. code \in 1..MaxCodes /\ code \in Nat  BY <1>1, <1>2
<1>4. CameraOf[code] \in Cameras /\ CameraOf[code] \in CameraArg /\ "issue" \in Operation
  BY <1>3, SessionConstants DEF CameraArg, Operation
<1>5. clock + PairingTtl \in Nat  BY <1>1
<1>6. c0 \in CodeRecord /\ c0.code = code /\ c0.expires = clock + PairingTtl /\ ~c0.known
  BY <1>3, <1>5 DEF CodeRecord
<1> HIDE DEF c0
<1>7. c0 \notin codes /\ \A c \in codes : c.code # code
  <2>1. \A c \in codes : c.code <= Cardinality(codes) /\ c.code \in Nat
    BY DEF SessionInv, CodesGood, CodeRecord
  <2>2. QED BY <1>1, <1>6, <2>1
<1>8. IsFiniteSet(codes') /\ Cardinality(codes') = code  BY <1>1, <1>2, <1>7, FS_AddElement
<1>9. CodesGood(codes')
  <2>1. codes' \subseteq CodeRecord  BY <1>2, <1>6 DEF SessionInv, CodesGood
  <2>2. \A c, d \in codes' : c.code = d.code => c = d  BY <1>2, <1>6, <1>7 DEF SessionInv, CodesGood
  <2>3. \A c \in codes' : c.code <= code
    <3>1. \A c \in codes : c.code <= Cardinality(codes) /\ c.code \in Nat
      BY DEF SessionInv, CodesGood, CodeRecord
    <3>2. QED BY <1>1, <1>2, <1>6, <3>1
  <2> HIDE DEF code
  <2>4. QED BY <1>8, <2>1, <2>2, <2>3 DEF CodesGood
<1>10. Grow(clock, clock, codes, codes', handed, handed, out, out)  BY <1>1, <1>2 DEF Grow
<1>11. \E c \in codes' : c.code = code /\ c.expires = clock + PairingTtl  BY <1>2, <1>6
<1> HIDE DEF code
<1>s. Stands("issue", code, CameraOf[code], clock, codes', handed)  BY <1>4, <1>11 DEF Stands
<1>12. RequestsInv'  BY <1>2, <1>3, <1>4, <1>10, <1>s, StartInv
<1>13. UNCHANGED <<clock, file, tokens, handed, out>>  BY <1>2 DEF Start
<1>14. UsableIn(file', codes', clock')  BY <1>2, <1>6, <1>13 DEF SessionInv, UsableIn
<1>15. FileGood(file', clock', tokens') /\ OutGood(file', handed', out', tokens')
  BY <1>13 DEF SessionInv
<1>16. QED BY <1>9, <1>12, <1>14, <1>15 DEF SessionInv

(* The other requests come with a code or a token.                         *)
LEMMA StartOtherInv ==
  ASSUME SessionInv, NEW r \in Requests, NEW op \in {"exchange", "status", "logout"},
         NEW arg \in Nat, Start(r, op, arg, ""), UNCHANGED <<codes, tokens>>,
         op \in {"status", "logout"} => arg \in handed
  PROVE  SessionInv'
<1>1. clock \in Nat  BY NowIsNat
<1>2. Grow(clock, clock, codes, codes', handed, handed, out, out)  BY <1>1, SameGrow
<1>3. op \in Operation /\ op # "issue" /\ "" \in CameraArg  BY DEF Operation, CameraArg
<1>s. Stands(op, arg, "", clock, codes', handed)  BY <1>3 DEF Stands
<1>4. RequestsInv'  BY <1>2, <1>3, <1>s, StartInv
<1>5. UNCHANGED <<clock, file, tokens, handed, out, codes>>  BY DEF Start
<1>6. QED BY <1>4, <1>5 DEF SessionInv

(* The end of a request, whatever it was.                                  *)
LEMMA EndRequest ==
  ASSUME SessionInv, NEW r \in Requests, req' = [req EXCEPT ![r] = NoRequest],
         clock' = clock, tokens' = tokens,
         Grow(clock, clock, codes, codes', handed, handed', out, out'),
         holder' = {} \/ \E s \in Requests : holder' = {s},
         \/ \A s \in Requests \ {r} : req[s].pc # "locked"
         \/ file' = file /\ holder' = holder /\ handed' = handed
  PROVE  RequestsInv'
<1>1. clock \in Nat /\ tokens' \in Nat  BY NowIsNat
<1>2. Asks(NoRequest, clock', codes', handed', out')
      /\ Holds(NoRequest, r, holder', file', handed', tokens')
  BY <1>1, IdleAsks
<1>3. NoRequest \in RequestRecord  BY NoRequestGood
<1>4. QED BY <1>1, <1>2, <1>3, OneRequest

(* A request that failed, or only read, leaves the file alone.             *)
LEMMA RespondInv ==
  ASSUME SessionInv, NEW r \in Requests, Respond(r)
  PROVE  SessionInv'
<1>1. clock \in Nat  BY NowIsNat
<1>2. UNCHANGED <<clock, file, holder, codes, tokens, handed, out>>
      /\ req' = [req EXCEPT ![r] = NoRequest]
  BY DEF Respond
<1>3. holder' = {} \/ \E s \in Requests : holder' = {s}  BY <1>2 DEF SessionInv, RequestsInv
<1>4. Grow(clock, clock, codes, codes', handed, handed', out, out')  BY <1>1, <1>2, SameGrow
<1>5. RequestsInv'  BY <1>2, <1>3, <1>4, EndRequest
<1>6. QED BY <1>2, <1>5 DEF SessionInv

(* A request takes the lock and works on its copy of the file.             *)
LEMMA ReadInv ==
  ASSUME SessionInv, NEW r \in Requests, Read(r)
  PROVE  SessionInv'
<1> DEFINE found == Current(file, req[r].arg, req[r].at)
           g == {s.camera : s \in found}
           q == [req[r] EXCEPT !.pc = "answered", !.granted = g]
<1>1. clock \in Nat /\ tokens \in Nat /\ req \in [Requests -> RequestRecord]
      /\ req[r] \in RequestRecord
  BY NowIsNat
<1>2. UNCHANGED <<clock, file, holder, codes, tokens, handed, out>>
      /\ req[r].pc = "waiting" /\ req[r].op = "status"
  BY DEF Read
<1>3. req' = [req EXCEPT ![r] = q]  BY <1>1 DEF Read
<1>4. found \subseteq file.sessions /\ file.sessions \subseteq SessionRecord
  BY DEF Current, SessionInv, FileGood, SessionFile
<1>5. g \subseteq Cameras  BY <1>4 DEF SessionRecord
<1>6. req[r].late => g = {}
  <2> SUFFICES ASSUME req[r].late PROVE found = {}  OBVIOUS
  <2>1. req[r].arg \in out  BY DEF SessionInv, RequestsInv, Asks
  <2>2. QED BY <2>1 DEF SessionInv, OutGood, Current
<1> HIDE DEF g
<1>7. /\ q \in RequestRecord /\ q.pc = "answered" /\ q.op = "status" /\ q.arg = req[r].arg
      /\ q.late = req[r].late /\ q.at = req[r].at /\ q.copy = req[r].copy /\ q.granted = g
  BY <1>1, <1>2, <1>5 DEF RequestRecord
<1> HIDE DEF q
<1>8. Asks(req[r], clock, codes, handed, out) /\ Holds(req[r], r, holder, file, handed, tokens)
  BY DEF SessionInv, RequestsInv
<1>9. Asks(q, clock', codes', handed', out')  BY <1>2, <1>6, <1>7, <1>8 DEF Asks
<1>10. Holds(q, r, holder', file', handed', tokens')  BY <1>2, <1>7, <1>8 DEF Holds
<1>11. holder' = {} \/ \E s \in Requests : holder' = {s}  BY <1>2 DEF SessionInv, RequestsInv
<1>12. Grow(clock, clock, codes, codes', handed, handed', out, out')  BY <1>1, <1>2, SameGrow
<1>13. RequestsInv'  BY <1>1, <1>2, <1>3, <1>7, <1>9, <1>10, <1>11, <1>12, OneRequest
<1>14. QED BY <1>2, <1>13 DEF SessionInv

(* The request that takes the lock makes its copy from the file.           *)
LEMMA LockInv ==
  ASSUME SessionInv, NEW r \in Requests, Lock(r)
  PROVE  SessionInv'
<1> DEFINE R == Changed(req[r])
           q == [req[r] EXCEPT !.pc = "locked", !.copy = R, !.token = tokens + 1]
<1>1. clock \in Nat /\ tokens \in Nat /\ req \in [Requests -> RequestRecord]
      /\ req[r] \in RequestRecord
  BY NowIsNat
<1>2. /\ UNCHANGED <<clock, file, codes, handed, out>> /\ holder = {} /\ holder' = {r}
      /\ req[r].pc = "waiting" /\ req[r].op # "status" /\ R # {}
      /\ tokens' = IF req[r].op = "exchange" THEN tokens + 1 ELSE tokens
  BY DEF Lock, LockIsFree
<1>3. req' = [req EXCEPT ![r] = q]  BY <1>1 DEF Lock
<1>4. Asks(req[r], clock, codes, handed, out)  BY DEF SessionInv, RequestsInv
<1>5. tokens' \in Nat /\ tokens <= tokens' /\ tokens + 1 \in Nat  BY <1>1, <1>2
<1>6. \A s \in file.sessions : s.token <= tokens /\ s.token \in Nat
  BY DEF SessionInv, FileGood, SessionFile, SessionRecord
<1>7. req[r].op \in {"issue", "exchange", "logout"}
  <2>1. req[r].op # ""  BY <1>2, <1>4 DEF Asks
  <2>2. req[r].op \in {"", "issue", "exchange", "status", "logout"}  BY <1>1 DEF RequestRecord
  <2>3. QED BY <1>2, <2>1, <2>2
<1>8. R \subseteq SessionFile
  <2>1. FileGood(file, clock, tokens + 1)
    <3>1. \A s \in file.sessions : s.token <= tokens + 1  BY <1>1, <1>6
    <3>2. QED BY <3>1 DEF SessionInv, FileGood
  <2>2. req[r].at <= clock  BY <1>4 DEF Asks
  <2>3. CASE req[r].op = "issue"
    <3>1. R = {IssuePairing(file, req[r])}  BY <2>3 DEF Changed
    <3>2. req[r].camera \in Cameras /\ req[r].arg \in 1..MaxCodes
      BY <1>4, <2>3 DEF Asks, SessionInv, CodesGood, CodeRecord
    <3>3. FileGood(IssuePairing(file, req[r]), clock, tokens + 1)
      BY <1>1, <2>1, <2>2, <3>2, IssueGood
    <3>4. QED BY <3>1, <3>3 DEF FileGood
  <2>4. CASE req[r].op = "exchange"
    <3> DEFINE e == [req[r] EXCEPT !.token = tokens + 1]
    <3>1. R = {Exchange(file, req[r], p, tokens + 1) : p \in Exchangeable(file, req[r])}
      BY <2>4 DEF Changed
    <3>2. e \in RequestRecord /\ e.token = tokens + 1 /\ e.at = req[r].at /\ e.arg = req[r].arg
      BY <1>1, <1>5 DEF RequestRecord
    <3> HIDE DEF e
    <3>3. Exchangeable(file, e) = Exchangeable(file, req[r])
          /\ \A p : Exchange(file, e, p, e.token) = Exchange(file, req[r], p, tokens + 1)
      BY <3>2 DEF Exchangeable, Exchange
    <3>4. e.token <= tokens + 1 /\ (\A s \in file.sessions : s.token # e.token) /\ e.at <= clock
      BY <1>1, <1>6, <2>2, <3>2
    <3>5. \A p \in Exchangeable(file, e) : FileGood(Exchange(file, e, p, e.token), clock, tokens + 1)
      BY <1>1, <2>1, <3>2, <3>4, ExchangeGood
    <3>6. QED BY <3>1, <3>3, <3>5 DEF FileGood
  <2>5. CASE req[r].op = "logout"
    <3>1. R = {Revoke(file, s) : s \in Revocable(file, req[r].arg)}  BY <2>5 DEF Changed
    <3>2. \A s \in Revocable(file, req[r].arg) : FileGood(Revoke(file, s), clock, tokens + 1)
      BY <1>1, <2>1, RevokeGood
    <3>3. QED BY <3>1, <3>2 DEF FileGood
  <2>6. QED BY <1>7, <2>3, <2>4, <2>5
<1>9. R \subseteq Results(file, q) /\ q \in RequestRecord /\ q.pc = "locked" /\ q.op = req[r].op
      /\ q.arg = req[r].arg /\ q.at = req[r].at /\ q.camera = req[r].camera /\ q.late = req[r].late
      /\ q.granted = req[r].granted /\ q.copy = R /\ q.token = tokens + 1
  <2> HIDE DEF R
  <2>1. q \in RequestRecord /\ q.pc = "locked" /\ q.op = req[r].op
      /\ q.arg = req[r].arg /\ q.at = req[r].at /\ q.camera = req[r].camera /\ q.late = req[r].late
      /\ q.granted = req[r].granted /\ q.copy = R /\ q.token = tokens + 1
    BY <1>1, <1>5, <1>8 DEF RequestRecord
  <2> HIDE DEF q
  <2>2. CASE req[r].op = "issue"
    <3>1. IssuePairing(file, q) = IssuePairing(file, req[r])  BY <2>1 DEF IssuePairing
    <3>2. QED BY <2>1, <2>2, <3>1 DEF R, Changed, Results
  <2>3. CASE req[r].op = "exchange"
    <3>1. Exchangeable(file, q) = Exchangeable(file, req[r])
          /\ \A p : Exchange(file, q, p, q.token) = Exchange(file, req[r], p, tokens + 1)
      BY <2>1 DEF Exchangeable, Exchange
    <3>2. R = {Exchange(file, req[r], p, tokens + 1) : p \in Exchangeable(file, req[r])}
      BY <2>3 DEF R, Changed
    <3>3. Results(file, q) = {Exchange(file, q, p, q.token) : p \in Exchangeable(file, q)}
      BY <2>1, <2>3 DEF Results
    <3>4. QED BY <2>1, <3>1, <3>2, <3>3
  <2>4. CASE req[r].op = "logout"
    BY <2>1, <2>4 DEF R, Changed, Results
  <2>5. QED BY <1>7, <2>1, <2>2, <2>3, <2>4
<1> HIDE DEF R, q
<1>10. Asks(q, clock', codes', handed', out')
  <2>1. q.pc # "idle" /\ q.op # ""  BY <1>7, <1>9
  <2>2. QED BY <1>2, <1>4, <1>9, <2>1 DEF Asks
<1>11. Holds(q, r, holder', file', handed', tokens')
  <2>1. q.op = "exchange" => q.token \in 1..tokens' /\ q.token \notin handed
                             /\ \A s \in file.sessions : s.token # q.token
    BY <1>1, <1>2, <1>6, <1>9 DEF SessionInv, OutGood
  <2>2. QED BY <1>2, <1>7, <1>9, <2>1 DEF Holds
<1>12. Grow(clock, clock, codes, codes', handed, handed', out, out')  BY <1>1, <1>2, SameGrow
<1>13. \A s \in Requests \ {r} : req[s].pc # "locked"  BY <1>2, LockIsMine
<1>14. RequestsInv'  BY <1>2, <1>3, <1>5, <1>9, <1>10, <1>11, <1>12, <1>13, OneRequest
<1>15. FileGood(file', clock', tokens')
  <2>1. \A s \in file.sessions : s.token <= tokens'  BY <1>1, <1>5, <1>6
  <2>2. QED BY <1>2, <2>1 DEF SessionInv, FileGood
<1>16. OutGood(file', handed', out', tokens')
  <2>1. 1..tokens \subseteq 1..tokens'  BY <1>1, <1>5
  <2>2. QED BY <1>2, <2>1 DEF SessionInv, OutGood
<1>17. QED BY <1>2, <1>14, <1>15, <1>16 DEF SessionInv

(* A request that finds nothing to change leaves the file; a logout that   *)
(* found no session is confirmed.                                          *)
LEMMA NotFoundInv ==
  ASSUME SessionInv, NEW r \in Requests, NotFound(r)
  PROVE  SessionInv'
<1> DEFINE error == IF req[r].op = "logout" THEN "InvalidSession" ELSE "InvalidPairing"
<1>1. clock \in Nat /\ tokens \in Nat  BY NowIsNat
<1>2. /\ UNCHANGED <<clock, file, holder, codes, tokens>> /\ holder = {} /\ Answer(r, error)
      /\ Changed(req[r]) = {}
  BY DEF NotFound, LockIsFree
<1>3. error # "" /\ (req[r].op = "logout" => error = "InvalidSession")  OBVIOUS
<1> HIDE DEF error
<1>4. handed' = handed /\ req' = [req EXCEPT ![r] = NoRequest]
      /\ (out' = out \/ (req[r].op = "logout" /\ out' = out \cup {req[r].arg}))
  BY <1>2, <1>3 DEF Answer, Confirms
<1>5. Grow(clock, clock, codes, codes', handed, handed', out, out')  BY <1>1, <1>2, <1>4 DEF Grow
<1>6. holder' = {}  BY <1>2
<1>7. RequestsInv'
  <2>1. \A s \in Requests \ {r} : req[s].pc # "locked"  BY <1>2, LockIsMine
  <2>2. QED BY <1>2, <1>4, <1>5, <1>6, <2>1, EndRequest
<1>8. OutGood(file', handed', out', tokens')
  <2>1. CASE out' = out  BY <1>2, <1>4, <2>1 DEF SessionInv
  <2>2. CASE req[r].op = "logout" /\ out' = out \cup {req[r].arg}
    <3>1. Revocable(file, req[r].arg) = {}  BY <1>2, <2>2 DEF Changed
    <3>2. \A s \in file.sessions : s.token = req[r].arg => s.revoked  BY <3>1 DEF Revocable
    <3>3. req[r].arg \in handed  BY <2>2 DEF SessionInv, RequestsInv, Asks
    <3>4. QED BY <1>2, <1>4, <2>2, <3>2, <3>3 DEF SessionInv, OutGood
  <2>3. QED BY <1>4, <2>1, <2>2
<1>9. QED BY <1>2, <1>7, <1>8 DEF SessionInv

(* What a request that holds the lock writes is good, and what it tells    *)
(* about its code and its token is true of what it wrote.                  *)
LEMMA WrittenGood ==
  ASSUME SessionInv, NEW r \in Requests, req[r].pc = "locked", NEW g \in req[r].copy, NEW error
  PROVE  /\ FileGood(g, clock, tokens)
         /\ UsableIn(g, Noted(req[r], error), clock)
         /\ \A s \in g.sessions : \/ s \in file.sessions \/ s.revoked
                                  \/ req[r].op = "exchange" /\ s.token = req[r].token
         /\ req[r].op = "logout" => \A s \in g.sessions : s.token = req[r].arg => s.revoked
<1> DEFINE q == req[r]
           N == Noted(q, error)
<1>1. clock \in Nat /\ tokens \in Nat /\ q \in RequestRecord  BY NowIsNat
<1>2. Asks(q, clock, codes, handed, out) /\ Holds(q, r, holder, file, handed, tokens)
  BY DEF SessionInv, RequestsInv
<1>3. FileGood(file, clock, tokens) /\ UsableIn(file, codes, clock) /\ CodesGood(codes)
  BY DEF SessionInv
<1>4. g \in Results(file, q) /\ q.at <= clock /\ q.op \in {"issue", "exchange", "logout"}
  BY <1>2 DEF Holds, Asks
<1>5. N = {Note(q, error, c) : c \in codes} /\ codes \subseteq CodeRecord
  BY <1>3, NotedGood DEF CodesGood
<1>6. \A d \in N : \E c \in codes :
         /\ d.code = c.code /\ d.expires = c.expires
         /\ d.known = (c.known \/ (c.code = q.arg /\ q.op = "issue" /\ error = ""))
         /\ d.used = (c.used \/ (c.code = q.arg /\ q.op = "exchange"))
  <2> TAKE d \in N
  <2>1. PICK c \in codes : d = Note(q, error, c)  BY <1>5
  <2>2. c \in CodeRecord  BY <1>5
  <2> HIDE DEF N, q
  <2>3. QED BY <2>1, <2>2, NoteGood
<1> HIDE DEF q, N
<1>7. CASE q.op = "issue"
  <2>1. g = IssuePairing(file, q)  BY <1>4, <1>7 DEF Results
  <2>2. q.camera \in Cameras /\ q.arg \in 1..MaxCodes
        /\ \E c \in codes : c.code = q.arg /\ c.expires = q.at + PairingTtl
    BY <1>2, <1>3, <1>5, <1>7 DEF Asks, CodeRecord
  <2>3. /\ FileGood(g, clock, tokens) /\ g.sessions = file.sessions
        /\ \A p \in file.pairings : ~p.consumed /\ p.expires > clock => p \in g.pairings
        /\ \E p \in g.pairings : p.code = q.arg /\ ~p.consumed /\ p.expires = q.at + PairingTtl
    BY <1>1, <1>3, <1>4, <2>1, <2>2, IssueGood
  <2>4. UsableIn(g, N, clock)
    <3> SUFFICES ASSUME NEW d \in N, d.known, ~d.used, d.expires > clock
                 PROVE  \E p \in g.pairings : p.code = d.code /\ ~p.consumed /\ p.expires = d.expires
      BY DEF UsableIn
    <3>1. PICK c \in codes :
         /\ d.code = c.code /\ d.expires = c.expires
         /\ d.known = (c.known \/ (c.code = q.arg /\ q.op = "issue" /\ error = ""))
         /\ d.used = (c.used \/ (c.code = q.arg /\ q.op = "exchange"))
      BY <1>6
    <3>2. CASE c.code = q.arg
      <4>1. PICK c2 \in codes : c2.code = q.arg /\ c2.expires = q.at + PairingTtl  BY <2>2
      <4>2. c2 = c  BY <1>3, <3>2, <4>1 DEF CodesGood
      <4>3. QED BY <2>3, <3>1, <3>2, <4>1, <4>2
    <3>3. CASE c.code # q.arg
      <4>1. c.known /\ ~c.used /\ c.expires > clock  BY <3>1, <3>3
      <4>2. PICK p \in file.pairings : p.code = c.code /\ ~p.consumed /\ p.expires = c.expires
        BY <1>3, <4>1 DEF UsableIn
      <4>3. p \in g.pairings  BY <2>3, <4>1, <4>2
      <4>4. QED BY <3>1, <4>2, <4>3
    <3>4. QED BY <3>2, <3>3
  <2>5. QED BY <1>7, <2>3, <2>4 DEF q, N
<1>8. CASE q.op = "exchange"
  <2>1. PICK p \in Exchangeable(file, q) : g = Exchange(file, q, p, q.token)
    BY <1>4, <1>8 DEF Results
  <2>2. q.token \in 1..tokens /\ \A s \in file.sessions : s.token # q.token
    BY <1>2, <1>8 DEF Holds, q
  <2>3. q.token <= tokens  BY <1>1, <2>2
  <2>4. /\ FileGood(g, clock, tokens)
        /\ \A x \in file.pairings : x.code # q.arg => x \in g.pairings
        /\ \A s \in g.sessions : s \in file.sessions
              \/ (s.token = q.token /\ s.camera = p.camera /\ s.expires = q.at + SessionTtl)
    BY <1>1, <1>3, <1>4, <2>1, <2>2, <2>3, ExchangeGood
  <2>5. UsableIn(g, N, clock)
    <3> SUFFICES ASSUME NEW d \in N, d.known, ~d.used, d.expires > clock
                 PROVE  \E x \in g.pairings : x.code = d.code /\ ~x.consumed /\ x.expires = d.expires
      BY DEF UsableIn
    <3>1. PICK c \in codes :
         /\ d.code = c.code /\ d.expires = c.expires
         /\ d.known = (c.known \/ (c.code = q.arg /\ q.op = "issue" /\ error = ""))
         /\ d.used = (c.used \/ (c.code = q.arg /\ q.op = "exchange"))
      BY <1>6
    <3>2. c.known /\ ~c.used /\ c.expires > clock /\ c.code # q.arg  BY <1>8, <3>1
    <3>3. PICK x \in file.pairings : x.code = c.code /\ ~x.consumed /\ x.expires = c.expires
      BY <1>3, <3>2 DEF UsableIn
    <3>4. QED BY <2>4, <3>1, <3>2, <3>3
  <2>6. QED BY <1>8, <2>4, <2>5 DEF q, N
<1>9. CASE q.op = "logout"
  <2>1. PICK s \in Revocable(file, q.arg) : g = Revoke(file, s)  BY <1>4, <1>9 DEF Results
  <2>2. /\ FileGood(g, clock, tokens) /\ g.pairings = file.pairings
        /\ \A t \in g.sessions : t \in file.sessions \/ t.revoked
        /\ \A t \in g.sessions : t.token = q.arg => t.revoked
    BY <1>1, <1>3, <2>1, RevokeGood
  <2>3. UsableIn(g, N, clock)
    <3> SUFFICES ASSUME NEW d \in N, d.known, ~d.used, d.expires > clock
                 PROVE  \E x \in g.pairings : x.code = d.code /\ ~x.consumed /\ x.expires = d.expires
      BY DEF UsableIn
    <3>1. PICK c \in codes :
         /\ d.code = c.code /\ d.expires = c.expires
         /\ d.known = (c.known \/ (c.code = q.arg /\ q.op = "issue" /\ error = ""))
         /\ d.used = (c.used \/ (c.code = q.arg /\ q.op = "exchange"))
      BY <1>6
    <3>2. c.known /\ ~c.used /\ c.expires > clock  BY <1>9, <3>1
    <3>3. QED BY <1>3, <2>2, <3>1, <3>2 DEF UsableIn
  <2>4. QED BY <1>9, <2>2, <2>3 DEF q, N
<1>10. QED BY <1>4, <1>7, <1>8, <1>9

(* The end of a request only adds to what is known.                        *)
LEMMA NotedGrow ==
  ASSUME CodesGood(codes), NEW q, NEW error, NEW n \in Nat, NEW H, NEW I, H \subseteq I,
         NEW O, NEW P, O \subseteq P
  PROVE  Grow(n, n, codes, Noted(q, error), H, I, O, P)
<1>1. codes \subseteq CodeRecord /\ Noted(q, error) = {Note(q, error, c) : c \in codes}
  BY NotedGood DEF CodesGood
<1>2. \A c \in codes : Note(q, error, c).code = c.code /\ Note(q, error, c).expires = c.expires
  BY <1>1, NoteGood
<1>3. QED BY <1>1, <1>2 DEF Grow

(* The file is replaced by the copy: the step that could lose a code or    *)
(* revive a session.                                                       *)
LEMMA PersistInv ==
  ASSUME SessionInv, NEW r \in Requests, Persist(r)
  PROVE  SessionInv'
<1>1. clock \in Nat /\ tokens \in Nat  BY NowIsNat
<1>2. /\ req[r].pc = "locked" /\ file' \in req[r].copy /\ holder' = {}
      /\ codes' = Noted(req[r], "") /\ Answer(r, "") /\ UNCHANGED <<clock, tokens>>
  BY DEF Persist
<1>3. /\ handed' = IF req[r].op = "exchange" THEN handed \cup {req[r].token} ELSE handed
      /\ out' = IF req[r].op = "logout" THEN out \cup {req[r].arg} ELSE out
      /\ req' = [req EXCEPT ![r] = NoRequest]
  BY <1>2 DEF Answer, Confirms
<1>4. /\ FileGood(file', clock, tokens)
      /\ UsableIn(file', Noted(req[r], ""), clock)
      /\ \A s \in file'.sessions : \/ s \in file.sessions \/ s.revoked
                                   \/ req[r].op = "exchange" /\ s.token = req[r].token
      /\ req[r].op = "logout" => \A s \in file'.sessions : s.token = req[r].arg => s.revoked
  BY <1>2, WrittenGood
<1>5. CodesGood(codes')  BY <1>2, NotedGood DEF SessionInv
<1>6. Grow(clock, clock, codes, codes', handed, handed', out, out')
  BY <1>1, <1>2, <1>3, NotedGrow DEF SessionInv
<1>7. RequestsInv'
  <2>1. \A s \in Requests \ {r} : req[s].pc # "locked"  BY <1>2, LockIsMine
  <2>2. QED BY <1>2, <1>3, <1>6, <2>1, EndRequest
<1>8. OutGood(file', handed', out', tokens')
  <2>1. Asks(req[r], clock, codes, handed, out) /\ Holds(req[r], r, holder, file, handed, tokens)
        /\ OutGood(file, handed, out, tokens)
    BY DEF SessionInv, RequestsInv
  <2>2. req[r].op = "exchange" => req[r].token \in 1..tokens /\ req[r].token \notin handed
    BY <1>2, <2>1 DEF Holds
  <2>3. req[r].op = "logout" => req[r].arg \in handed  BY <2>1 DEF Asks
  <2>4. out' \subseteq handed' /\ handed' \subseteq 1..tokens
    BY <1>3, <2>1, <2>2, <2>3 DEF OutGood
  <2>5. \A s \in file'.sessions : s.token \in out' => s.revoked
    BY <1>3, <1>4, <2>1, <2>2 DEF OutGood
  <2>6. QED BY <1>2, <2>4, <2>5 DEF OutGood
<1>9. QED BY <1>2, <1>4, <1>5, <1>7, <1>8 DEF SessionInv

(* The replacement fails: the file stays, and the caller is told.          *)
LEMMA PersistFailsInv ==
  ASSUME SessionInv, NEW r \in Requests, NEW written \in BOOLEAN, PersistFails(r, written)
  PROVE  SessionInv'
<1>1. clock \in Nat /\ tokens \in Nat  BY NowIsNat
<1>2. /\ req[r].pc = "locked" /\ holder' = {} /\ UNCHANGED <<clock, tokens>>
      /\ written => file' \in req[r].copy /\ codes' = Noted(req[r], "Unavailable")
      /\ ~written => file' = file /\ codes' = codes
      /\ Answer(r, "Unavailable")
  BY DEF PersistFails
<1>3. handed' = handed /\ out' = out /\ req' = [req EXCEPT ![r] = NoRequest]
  BY <1>2 DEF Answer, Confirms
<1>4. \A s \in Requests \ {r} : req[s].pc # "locked"  BY <1>2, LockIsMine
<1>5. CASE ~written
  <2>1. Grow(clock, clock, codes, codes', handed, handed', out, out')
    BY <1>1, <1>2, <1>3, <1>5, SameGrow
  <2>2. RequestsInv'  BY <1>2, <1>3, <1>4, <2>1, EndRequest
  <2>3. QED BY <1>2, <1>3, <1>5, <2>2 DEF SessionInv
<1>6. CASE written
  <2>1. /\ FileGood(file', clock, tokens)
        /\ UsableIn(file', Noted(req[r], "Unavailable"), clock)
        /\ \A s \in file'.sessions : \/ s \in file.sessions \/ s.revoked
                                     \/ req[r].op = "exchange" /\ s.token = req[r].token
    BY <1>2, <1>6, WrittenGood
  <2>2. CodesGood(codes')  BY <1>2, <1>6, NotedGood DEF SessionInv
  <2>3. Grow(clock, clock, codes, codes', handed, handed', out, out')
    BY <1>1, <1>2, <1>3, <1>6, NotedGrow DEF SessionInv
  <2>4. RequestsInv'  BY <1>2, <1>3, <1>4, <2>3, EndRequest
  <2>5. OutGood(file', handed', out', tokens')
    <3>1. Holds(req[r], r, holder, file, handed, tokens) /\ OutGood(file, handed, out, tokens)
      BY DEF SessionInv, RequestsInv
    <3>2. req[r].op = "exchange" => req[r].token \notin handed  BY <1>2, <3>1 DEF Holds
    <3>3. \A s \in file'.sessions : s.token \in out => s.revoked
      BY <2>1, <3>1, <3>2 DEF OutGood
    <3>4. QED BY <1>2, <1>3, <3>1, <3>3 DEF OutGood
  <2>6. QED BY <1>2, <1>6, <2>1, <2>2, <2>4, <2>5 DEF SessionInv
<1>7. QED BY <1>5, <1>6

(* The server dies between reading and replacing the file.                 *)
LEMMA CrashInv ==
  ASSUME SessionInv, NEW command \in BOOLEAN, Crash(command)
  PROVE  SessionInv'
<1> DEFINE gone == {r \in Requests : req[r].pc # "idle" /\ (req[r].op = "issue" <=> command)}
<1>1. clock \in Nat /\ tokens \in Nat /\ req \in [Requests -> RequestRecord]  BY NowIsNat
<1>2. /\ req' = [r \in Requests |-> IF r \in gone THEN NoRequest ELSE req[r]]
      /\ holder' = holder \ gone /\ UNCHANGED <<clock, file, codes, tokens, handed, out>>
  BY DEF Crash
<1> HIDE DEF gone
<1>3. req' \in [Requests -> RequestRecord]  BY <1>1, <1>2, NoRequestGood
<1>4. holder' = {} \/ \E r \in Requests : holder' = {r}
  BY <1>2 DEF SessionInv, RequestsInv
<1>5. \A r \in Requests : Asks(req'[r], clock', codes', handed', out')
                          /\ Holds(req'[r], r, holder', file', handed', tokens')
  <2> TAKE r \in Requests
  <2>1. Asks(req[r], clock, codes, handed, out) /\ Holds(req[r], r, holder, file, handed, tokens)
    BY DEF SessionInv, RequestsInv
  <2>2. CASE r \in gone
    <3>1. req'[r] = NoRequest  BY <1>2, <2>2
    <3>2. QED BY <1>1, <1>2, <3>1, IdleAsks
  <2>3. CASE r \notin gone
    <3>1. req'[r] = req[r]  BY <1>2, <2>3
    <3>2. CASE req[r].pc = "locked"
      <4>1. holder = {r}  BY <2>1, <3>2 DEF Holds
      <4>2. holder' = holder  BY <1>2, <2>3, <4>1
      <4>3. QED BY <1>2, <2>1, <3>1, <4>2
    <3>3. CASE req[r].pc # "locked"
      BY <1>2, <2>1, <3>1, <3>3, HoldsNothing
    <3>4. QED BY <3>2, <3>3
  <2>4. QED BY <2>2, <2>3
<1>6. RequestsInv'  BY <1>2, <1>3, <1>4, <1>5 DEF RequestsInv, SessionInv
<1>7. QED BY <1>2, <1>6 DEF SessionInv

(* Time passes: codes and sessions run out.                                *)
LEMMA SessionTickInv ==
  ASSUME SessionInv, SessionTick
  PROVE  SessionInv'
<1>1. clock \in Nat /\ tokens \in Nat /\ req \in [Requests -> RequestRecord]  BY NowIsNat
<1>2. clock < MaxTime /\ clock' = clock + 1
      /\ UNCHANGED <<file, holder, req, codes, tokens, handed, out>>
  BY DEF SessionTick
<1>3. MaxTime \in Nat /\ PairingTtl \in Nat /\ SessionTtl \in Nat  BY SessionConstants
<1>4. clock' \in 0..MaxTime /\ clock' \in Nat /\ clock <= clock'  BY <1>1, <1>2, <1>3
<1>5. Grow(clock, clock', codes, codes, handed, handed, out, out)  BY <1>4 DEF Grow
<1>6. \A r \in Requests : Asks(req[r], clock', codes, handed, out)
  BY <1>1, <1>4, <1>5, AsksOn DEF SessionInv, RequestsInv
<1>7. RequestsInv'  BY <1>2, <1>4, <1>6 DEF SessionInv, RequestsInv
<1>8. FileGood(file', clock', tokens')
  <2>1. FileGood(file, clock, tokens)  BY DEF SessionInv
  <2>2. file.pairings \subseteq PairingRecord /\ file.sessions \subseteq SessionRecord
    BY <2>1 DEF FileGood, SessionFile
  <2>3. \A p \in file.pairings : p.expires <= clock' + PairingTtl
    <3> TAKE p \in file.pairings
    <3>1. p.expires \in Nat  BY <2>2 DEF PairingRecord
    <3>2. p.expires <= clock + PairingTtl  BY <2>1 DEF FileGood
    <3>3. QED BY <1>1, <1>2, <1>3, <3>1, <3>2
  <2>4. \A s \in file.sessions : s.expires <= clock' + SessionTtl
    <3> TAKE s \in file.sessions
    <3>1. s.expires \in Nat  BY <2>2 DEF SessionRecord
    <3>2. s.expires <= clock + SessionTtl  BY <2>1 DEF FileGood
    <3>3. QED BY <1>1, <1>2, <1>3, <3>1, <3>2
  <2>5. QED BY <1>2, <2>1, <2>3, <2>4 DEF FileGood
<1>9. UsableIn(file', codes', clock')
  <2>1. \A c \in codes : c.expires > clock' => c.expires > clock
    <3> TAKE c \in codes
    <3>1. c.expires \in Nat  BY DEF SessionInv, CodesGood, CodeRecord
    <3>2. QED BY <1>1, <1>2, <3>1
  <2>2. QED BY <1>2, <2>1 DEF SessionInv, UsableIn
<1>10. QED BY <1>2, <1>7, <1>8, <1>9 DEF SessionInv

(* The first file is empty.                                                *)
LEMMA SessionInvInit == SessionInit => SessionInv
<1> SUFFICES ASSUME SessionInit PROVE SessionInv  OBVIOUS
<1>1. /\ clock = 0 /\ file = [pairings |-> {}, sessions |-> {}] /\ holder = {}
      /\ req = [r \in Requests |-> NoRequest]
      /\ codes = {} /\ tokens = 0 /\ handed = {} /\ out = {}
  BY DEF SessionInit
<1>2. clock \in 0..MaxTime /\ clock \in Nat /\ tokens \in Nat  BY <1>1, SessionConstants
<1>3. req \in [Requests -> RequestRecord] /\ \A r \in Requests : req[r] = NoRequest
  BY <1>1, NoRequestGood
<1>4. \A r \in Requests : Asks(req[r], clock, codes, handed, out)
                          /\ Holds(req[r], r, holder, file, handed, tokens)
  BY <1>2, <1>3, IdleAsks
<1>5. RequestsInv  BY <1>1, <1>2, <1>3, <1>4 DEF RequestsInv
<1>6. CodesGood(codes) /\ UsableIn(file, codes, clock)
  BY <1>1, FS_EmptySet DEF CodesGood, UsableIn
<1>7. file \in SessionFile /\ file.pairings = {} /\ file.sessions = {}  BY <1>1 DEF SessionFile
<1>8. FileGood(file, clock, tokens)  BY <1>7 DEF FileGood
<1>9. OutGood(file, handed, out, tokens)  BY <1>1, <1>7 DEF OutGood
<1>10. QED BY <1>5, <1>6, <1>8, <1>9 DEF SessionInv

(* Every step keeps the invariant.                                         *)
LEMMA SessionInvNext == SessionInv /\ [SessionNext]_sessionVars => SessionInv'
<1> SUFFICES ASSUME SessionInv, [SessionNext]_sessionVars PROVE SessionInv'  OBVIOUS
<1>1. ASSUME NEW r \in Requests, StartIssue(r) PROVE SessionInv'  BY <1>1, StartIssueInv
<1>2. ASSUME NEW r \in Requests, NEW c \in codes, StartExchange(r, c.code) PROVE SessionInv'
  <2>1. c.code \in Nat  BY SessionConstants DEF SessionInv, CodesGood, CodeRecord
  <2>2. Start(r, "exchange", c.code, "") /\ UNCHANGED <<codes, tokens>>  BY <1>2 DEF StartExchange
  <2>3. QED BY <2>1, <2>2, StartOtherInv
<1>3. ASSUME NEW r \in Requests, NEW token \in handed, NEW op \in {"status", "logout"},
             StartWithCookie(r, op, token)
      PROVE  SessionInv'
  <2>1. token \in Nat  BY NowIsNat DEF SessionInv, OutGood
  <2>2. Start(r, op, token, "") /\ UNCHANGED <<codes, tokens>>  BY <1>3 DEF StartWithCookie
  <2>3. QED BY <2>1, <2>2, StartOtherInv
<1>4. ASSUME NEW r \in Requests, ServeRequest(r) PROVE SessionInv'
  BY <1>4, ReadInv, RespondInv, LockInv, NotFoundInv, PersistInv DEF ServeRequest
<1>5. ASSUME NEW r \in Requests, NEW written \in BOOLEAN, PersistFails(r, written)
      PROVE  SessionInv'
  BY <1>5, PersistFailsInv
<1>6. ASSUME NEW command \in BOOLEAN, Crash(command) PROVE SessionInv'  BY <1>6, CrashInv
<1>7. CASE SessionTick  BY <1>7, SessionTickInv
<1>8. CASE UNCHANGED sessionVars
  BY <1>8 DEF SessionInv, RequestsInv, sessionVars
<1>9. QED BY <1>1, <1>2, <1>3, <1>4, <1>5, <1>6, <1>7, <1>8, Zenon DEF SessionNext

(* The invariant gives what the run checks.                                *)
LEMMA SessionInvImplies == SessionInv => SessionsAreSound
<1> SUFFICES ASSUME SessionInv PROVE SessionsAreSound  OBVIOUS
<1>1. \A r \in Requests : Asks(req[r], clock, codes, handed, out)
                          /\ Holds(req[r], r, holder, file, handed, tokens)
  BY DEF SessionInv, RequestsInv
<1>2. Cardinality(holder) <= 1
  <2>1. Cardinality(holder) = 0 \/ Cardinality(holder) = 1
    BY FS_EmptySet, FS_Singleton DEF SessionInv, RequestsInv
  <2>2. QED BY <2>1
<1>3. \A r \in Requests : req[r].pc \in {"idle", "waiting", "locked", "answered"}
  BY DEF SessionInv, RequestsInv, RequestRecord
<1>4. \A r \in Requests : (req[r].pc = "locked" <=> req[r].copy # {})
                          /\ (req[r].pc = "locked" => r \in holder)
  BY <1>1 DEF Holds
<1>5. /\ \A p \in file.pairings : p.camera \in Cameras /\ p.expires <= clock + PairingTtl
      /\ \A s \in file.sessions : s.camera \in Cameras /\ s.expires <= clock + SessionTtl
  BY DEF SessionInv, FileGood, SessionFile, PairingRecord, SessionRecord
<1>6. SessionTypeOK
  BY <1>2, <1>3, <1>4, <1>5 DEF SessionTypeOK, SessionInv, RequestsInv
<1>7. IssuedCodeIsUsable  BY DEF IssuedCodeIsUsable, SessionInv, UsableIn
<1>8. LogoutIsFinal  BY <1>1 DEF LogoutIsFinal, Asks
<1>9. QED BY <1>6, <1>7, <1>8 DEF SessionsAreSound

(* Hence it always holds.                                                  *)
LEMMA SessionInvariance == SessionSpec => []SessionInv
<1>1. SessionInit => SessionInv  BY SessionInvInit
<1>2. SessionInv /\ [SessionNext]_sessionVars => SessionInv'  BY SessionInvNext
<1>3. QED BY <1>1, <1>2, PTL DEF SessionSpec

(* Pairing codes that were handed out stay usable and a logout is final,   *)
(* however requests interleave, writes fail and the server dies between    *)
(* reading the session file and replacing it.                              *)
THEOREM SessionsStaySound == SessionSpec => []SessionsAreSound
<1>1. SessionInv => SessionsAreSound  BY SessionInvImplies
<1>2. QED BY <1>1, SessionInvariance, PTL

(* Only the request that holds the lock replaces the file, by its copy.    *)
LEMMA OnlyHolderWrites ==
  ASSUME [SessionNext]_sessionVars
  PROVE  file' = file \/ \E r \in Requests : req[r].pc = "locked" /\ file' \in req[r].copy
<1>1. ASSUME NEW r \in Requests, StartIssue(r) PROVE file' = file  BY <1>1 DEF StartIssue, Start
<1>2. ASSUME NEW r \in Requests, NEW c \in codes, StartExchange(r, c.code) PROVE file' = file
  BY <1>2 DEF StartExchange, Start
<1>3. ASSUME NEW r \in Requests, NEW token \in handed, NEW op \in {"status", "logout"},
             StartWithCookie(r, op, token)
      PROVE  file' = file
  BY <1>3 DEF StartWithCookie, Start
<1>4. ASSUME NEW r \in Requests, ServeRequest(r)
      PROVE  file' = file \/ (req[r].pc = "locked" /\ file' \in req[r].copy)
  BY <1>4 DEF ServeRequest, Read, Respond, Lock, NotFound, Persist
<1>5. ASSUME NEW r \in Requests, NEW written \in BOOLEAN, PersistFails(r, written)
      PROVE  file' = file \/ (req[r].pc = "locked" /\ file' \in req[r].copy)
  BY <1>5 DEF PersistFails
<1>6. ASSUME NEW command \in BOOLEAN, Crash(command) PROVE file' = file  BY <1>6 DEF Crash
<1>7. CASE SessionTick  BY <1>7 DEF SessionTick
<1>8. CASE UNCHANGED sessionVars  BY <1>8 DEF sessionVars
<1>9. QED BY <1>1, <1>2, <1>3, <1>4, <1>5, <1>6, <1>7, <1>8, Zenon DEF SessionNext

(* Only a read lets a request in.                                          *)
LEMMA OnlyReadAnswers ==
  ASSUME SessionInv, [SessionNext]_sessionVars, NEW s \in Requests,
         req[s].pc = "waiting", req'[s].pc = "answered"
  PROVE  Read(s)
<1>0. req \in [Requests -> RequestRecord] /\ NoRequest.pc = "idle"  BY NowIsNat, NoRequestGood
<1> DEFINE Kept == req'[s].pc # "answered" \/ req'[s] = req[s]
<1>1. ASSUME NEW r \in Requests, NEW op, NEW arg, NEW camera, Start(r, op, arg, camera)
      PROVE  Kept
  <2>1. req' = [req EXCEPT ![r] = Asked(op, arg, camera, clock, arg \in out)]
    BY <1>1 DEF Start, Asked
  <2>2. Asked(op, arg, camera, clock, arg \in out).pc = "waiting"  BY DEF Asked, NoRequest
  <2>3. QED BY <1>0, <2>1, <2>2
<1>2. ASSUME NEW r \in Requests, StartIssue(r) PROVE Kept  BY <1>1, <1>2 DEF StartIssue
<1>3. ASSUME NEW r \in Requests, NEW c \in codes, StartExchange(r, c.code) PROVE Kept
  BY <1>1, <1>3 DEF StartExchange
<1>4. ASSUME NEW r \in Requests, NEW token \in handed, NEW op \in {"status", "logout"},
             StartWithCookie(r, op, token)
      PROVE  Kept
  BY <1>1, <1>4 DEF StartWithCookie
<1>5. ASSUME NEW r \in Requests, req' = [req EXCEPT ![r] = NoRequest] PROVE Kept
  BY <1>0, <1>5
<1>6. ASSUME NEW r \in Requests, Lock(r) PROVE Kept
  <2>1. req' = [req EXCEPT ![r].pc = "locked", ![r].copy = Changed(req[r]), ![r].token = tokens + 1]
    BY <1>6 DEF Lock
  <2>2. CASE r = s
    <3>1. req'[s].pc = "locked"  BY <1>0, <2>1, <2>2 DEF RequestRecord
    <3>2. QED BY <3>1
  <2>3. CASE r # s  BY <1>0, <2>1, <2>3
  <2>4. QED BY <2>2, <2>3
<1>7. ASSUME NEW r \in Requests, r # s, Read(r) PROVE Kept
  BY <1>0, <1>7 DEF Read
<1>8. ASSUME NEW r \in Requests, ServeRequest(r) PROVE Kept \/ Read(s)
  <2>1. Respond(r) \/ NotFound(r) \/ Persist(r) => Kept
    BY <1>5 DEF Respond, NotFound, Persist, Answer
  <2>2. QED BY <1>6, <1>7, <1>8, <2>1 DEF ServeRequest
<1>9. ASSUME NEW r \in Requests, NEW written \in BOOLEAN, PersistFails(r, written) PROVE Kept
  BY <1>5, <1>9 DEF PersistFails, Answer
<1>10. ASSUME NEW command \in BOOLEAN, Crash(command) PROVE Kept  BY <1>0, <1>10 DEF Crash
<1>11. CASE SessionTick  BY <1>11 DEF SessionTick
<1>12. CASE UNCHANGED sessionVars  BY <1>12 DEF sessionVars
<1>13. Kept \/ Read(s)
  BY <1>2, <1>3, <1>4, <1>8, <1>9, <1>10, <1>11, <1>12, Zenon DEF SessionNext
<1>14. QED BY <1>13

(* A session that begins uses up a code of its camera, in the code's time. *)
LEMMA SessionEarned ==
  ASSUME SessionInv, [SessionNext]_sessionVars, NEW s \in file'.sessions \ file.sessions, ~s.revoked
  PROVE  \E p \in file.pairings :
            /\ ~p.consumed /\ p.camera = s.camera /\ s.expires - SessionTtl < p.expires
            /\ \E p2 \in file'.pairings : p2.code = p.code /\ p2.consumed
<1>1. PICK r \in Requests : req[r].pc = "locked" /\ file' \in req[r].copy  BY OnlyHolderWrites
<1> DEFINE q == req[r]
<1>2. clock \in Nat /\ tokens \in Nat /\ q \in RequestRecord  BY NowIsNat
<1>3. Asks(q, clock, codes, handed, out) /\ Holds(q, r, holder, file, handed, tokens)
  BY DEF SessionInv, RequestsInv
<1>4. FileGood(file, clock, tokens) /\ CodesGood(codes)  BY DEF SessionInv
<1>5. file' \in Results(file, q) /\ q.at <= clock /\ q.op \in {"issue", "exchange", "logout"}
  BY <1>1, <1>3 DEF Holds, Asks
<1>6. q.op = "exchange" => q.token \in 1..tokens /\ \A t \in file.sessions : t.token # q.token
  BY <1>1, <1>3 DEF Holds
<1> HIDE DEF q
<1>7. q.op # "issue"
  <2> SUFFICES ASSUME q.op = "issue" PROVE FALSE  OBVIOUS
  <2>1. file' = IssuePairing(file, q)  BY <1>5 DEF Results
  <2>2. q.camera \in Cameras /\ q.arg \in 1..MaxCodes
    BY <1>3, <1>4 DEF Asks, CodesGood, CodeRecord
  <2>3. file'.sessions = file.sessions  BY <1>2, <1>4, <1>5, <2>1, <2>2, IssueGood
  <2>4. QED BY <2>3
<1>8. q.op # "logout"
  <2> SUFFICES ASSUME q.op = "logout" PROVE FALSE  OBVIOUS
  <2>1. PICK t \in Revocable(file, q.arg) : file' = Revoke(file, t)  BY <1>5 DEF Results
  <2>2. \A v \in file'.sessions : v \in file.sessions \/ v.revoked
    BY <1>2, <1>4, <2>1, RevokeGood
  <2>3. QED BY <2>2
<1>9. CASE q.op = "exchange"
  <2>1. PICK p \in Exchangeable(file, q) : file' = Exchange(file, q, p, q.token)
    BY <1>5, <1>9 DEF Results
  <2>2. q.token <= tokens  BY <1>2, <1>6, <1>9
  <2>3. /\ \A v \in file'.sessions : v \in file.sessions
              \/ (v.token = q.token /\ v.camera = p.camera /\ v.expires = q.at + SessionTtl)
        /\ \E x \in file'.pairings : x.code = p.code /\ x.consumed
        /\ p \in file.pairings /\ ~p.consumed /\ p.expires > q.at
    BY <1>2, <1>4, <1>5, <1>6, <1>9, <2>1, <2>2, ExchangeGood
  <2>4. s.camera = p.camera /\ s.expires = q.at + SessionTtl  BY <2>3
  <2>5. q.at \in Nat /\ SessionTtl \in Nat  BY <1>2, SessionConstants DEF RequestRecord
  <2>6. p.expires \in Nat  BY <1>4, <2>3 DEF FileGood, SessionFile, PairingRecord
  <2>7. s.expires - SessionTtl < p.expires
    <3>1. p.expires > q.at  BY <2>3
    <3>2. s.expires = q.at + SessionTtl  BY <2>4
    <3>3. QED BY <2>5, <2>6, <3>1, <3>2
  <2>8. QED BY <2>3, <2>4, <2>7
<1>10. QED BY <1>5, <1>7, <1>8, <1>9

(* A session begins with a code that it uses up, issued for its camera and *)
(* still in its time, and whoever is let in with a token holds a session   *)
(* of the file that had not ended when the request came.                   *)
THEOREM SessionsStayEarned == SessionSpec => SessionsAreEarned
<1> DEFINE Begins == \A s \in file.sessions' \ file.sessions :
         ~s.revoked =>
            \E p \in file.pairings :
                /\ ~p.consumed /\ p.camera = s.camera
                /\ s.expires - SessionTtl < p.expires
                /\ \E p2 \in file.pairings' : p2.code = p.code /\ p2.consumed
           Ends == \A r \in Requests : (req[r].pc = "waiting" /\ req'[r].pc = "answered") =>
          \A camera \in req'[r].granted :
             \E s \in file.sessions : s.token = req[r].arg /\ s.camera = camera
                                      /\ req[r].at < s.expires
<1>1. SessionInv /\ [SessionNext]_sessionVars => [Begins]_sessionVars
  <2> SUFFICES ASSUME SessionInv, [SessionNext]_sessionVars,
                      NEW s \in file'.sessions \ file.sessions, ~s.revoked
               PROVE  \E p \in file.pairings :
                        /\ ~p.consumed /\ p.camera = s.camera
                        /\ s.expires - SessionTtl < p.expires
                        /\ \E p2 \in file'.pairings : p2.code = p.code /\ p2.consumed
    OBVIOUS
  <2>1. QED BY SessionEarned
<1>2. SessionInv /\ [SessionNext]_sessionVars => [Ends]_sessionVars
  <2> SUFFICES ASSUME SessionInv, [SessionNext]_sessionVars, NEW r \in Requests,
                      req[r].pc = "waiting", req'[r].pc = "answered",
                      NEW camera \in req'[r].granted
               PROVE  \E s \in file.sessions : s.token = req[r].arg /\ s.camera = camera
                                               /\ req[r].at < s.expires
    OBVIOUS
  <2>1. Read(r)  BY OnlyReadAnswers
  <2>2. req'[r].granted = {s.camera : s \in Current(file, req[r].arg, req[r].at)}
    BY <2>1, NowIsNat DEF Read, RequestRecord
  <2>3. PICK s \in Current(file, req[r].arg, req[r].at) : camera = s.camera  BY <2>2
  <2>4. s \in file.sessions /\ s.token = req[r].arg /\ s.expires > req[r].at
    BY <2>3 DEF Current
  <2>5. s.expires \in Nat /\ req[r].at \in Nat
    BY <2>4, NowIsNat DEF SessionInv, FileGood, SessionFile, SessionRecord, RequestRecord
  <2>6. QED BY <2>3, <2>4, <2>5
<1>3. SessionSpec => [][Begins]_sessionVars
  <2> HIDE DEF Begins
  <2>1. QED BY <1>1, SessionInvariance, PTL DEF SessionSpec
<1>4. SessionSpec => [][Ends]_sessionVars
  <2> HIDE DEF Ends
  <2>1. QED BY <1>2, SessionInvariance, PTL DEF SessionSpec
<1>5. QED BY <1>3, <1>4 DEF SessionsAreEarned, SessionsFollowCodes, SessionsEnd

-----------------------------------------------------------------------------
(* The transfer of media.  Between two steps of a call every file of the   *)
(* cache is an attachment that the ledger keeps, one that could not be     *)
(* removed, one of the batch, or the one that is being written; the part   *)
(* that is written belongs to one medium.                                  *)

(* The arguments and the state of a call of materialize_attachments or     *)
(* authorize_delivery.                                                     *)
Lists == Seq(Artifact)
Writing == {"range", "asked", "stream"}
TransferRecord ==
  [does : {"nothing", "materialize", "authorize", "whatsapp"}, relay : BOOLEAN, list : Lists,
   pc : {"idle", "next", "fetch", "range", "asked", "stream", "done"}, i : Nat \ {0},
   total : SUBSET Totals, left : Nat, files : SUBSET (Nat \X Nat), dir : BOOLEAN, failed : Nat,
   attached : SUBSET Nat, verdict : {"none", "allowed", "denied", "invalid", "unavailable"},
   asked : SUBSET Ids, refused : BOOLEAN]

(* What a call has been told, while the home consents to C.                *)
Cleared(t, k) == t.list[k].url = "none" \/ t.list[k].id \in t.asked

(* What a call attached or allowed was cleared by the home, and a denial   *)
(* was a refusal of the home.                                              *)
Told(t, C) ==
  /\ t.pc # "idle" => C \subseteq t.asked
  /\ t.verdict = "allowed" => \A k \in DOMAIN t.list : Cleared(t, k)
  /\ t.verdict = "denied" => t.refused
  /\ \A k \in t.attached : t.list[k].id \in t.asked
  /\ t.does = "authorize" => \A k \in DOMAIN t.list : k < t.i => Cleared(t, k)
  /\ t.does = "whatsapp" => Len(t.list) = 1 /\ t.i = 1
  /\ t.pc = "stream" => t.list[t.i].id \in t.asked
  /\ t.does # "materialize" => t.attached = {} /\ ~t.dir /\ t.pc \in {"idle", "next", "done"}

(* The files D of the cache in the call with number T.                     *)
Open(t, T) == IF t.pc \in Writing THEN {<<T, t.i>>} ELSE {}

(* A file in the cache belongs to the running call, is kept by the ledger, *)
(* or could not be removed.                                                *)
Names(t, D, K, S, T) ==
  /\ DOMAIN D = K \cup S \cup t.files \cup Open(t, T)
  /\ \A n \in DOMAIN D : n \in (1..T) \X Nat /\ D[n] \in File /\ D[n].len <= MaxBytes
  /\ t.files = {<<T, k>> : k \in t.attached} /\ \A k \in t.attached : k < t.i
  /\ t.pc # "idle" => /\ T >= 1 /\ \A n \in K : n[1] < T
                      /\ \A n \in S : n[1] = T => n[2] < t.i /\ n \notin t.files

(* A file that is attached or kept is whole and within the limit; the one  *)
(* being written has as much as the ranges gave.                           *)
Parts(t, D, K, T) ==
  /\ \A n \in t.files \cup K : ~D[n].torn /\ D[n].of = {D[n].len}
  /\ t.pc \in {"next", "fetch"} => t.total = {}
  /\ t.pc \in {"range", "asked"} => ~D[<<T, t.i>>].torn /\ D[<<T, t.i>>].of = t.total
  /\ t.pc = "stream" =>
       /\ ~D[<<T, t.i>>].torn /\ t.total = {D[<<T, t.i>>].len + t.left}
       /\ D[<<T, t.i>>].len = 0 \/ D[<<T, t.i>>].of = t.total

(* A directory of the cache has files in it, or is that of the running     *)
(* call.                                                                   *)
Dirs(t, D, B, T) ==
  /\ B \subseteq 1..T /\ \A n \in DOMAIN D : n[1] \in B
  /\ \A d \in B : (\E n \in DOMAIN D : n[1] = d) \/ (t.dir /\ d = T)
  /\ t.pc \in Writing \cup {"fetch"} => t.dir /\ T \in B
  /\ t.attached # {} => t.dir

(* The inductive invariant of the media calls and their cache.             *)
MediaInv ==
  /\ visible \in {"none", "ours", "other", "link"} /\ handle \in {{}, {"ours"}, {"other"}}
  /\ consent \subseteq Ids /\ transfers \in 0..MaxCalls /\ faults \in 0..MaxFaults
  /\ transfer \in TransferRecord /\ (transfer.pc = "idle" => transfer = NoTransfer)
  /\ Told(transfer, consent) /\ Names(transfer, disk, kept, stuck, transfers)
  /\ Parts(transfer, disk, kept, transfers) /\ Dirs(transfer, disk, dirs, transfers)

(* What is assumed of the constants.                                       *)
LEMMA MediaConstants ==
  /\ Chunk \in Nat /\ MaxBytes \in Nat /\ MaxCalls \in Nat /\ MaxFaults \in Nat
  /\ Chunk >= 1 /\ Totals \subseteq Nat /\ ArtifactLists \subseteq Lists
  BY MediaAssumption DEF Lists

(* Between two calls there is nothing to attach.                           *)
LEMMA NoTransferGood ==
  /\ NoTransfer \in TransferRecord /\ NoTransfer.pc = "idle" /\ NoTransfer.does = "nothing"
  /\ NoTransfer.files = {} /\ NoTransfer.attached = {} /\ NoTransfer.verdict = "none"
  /\ NoTransfer.dir = FALSE /\ NoTransfer.i = 1 /\ NoTransfer.total = {}
<1>1. <<>> \in Lists  BY DEF Lists
<1>2. QED BY <1>1 DEF NoTransfer, TransferRecord

(* Min of FiniteSetsExt, of two numbers.                                   *)
LEMMA MinOfTwo ==
  ASSUME NEW x \in Int, NEW y \in Int
  PROVE  Min({x, y}) \in {x, y} /\ Min({x, y}) <= x /\ Min({x, y}) <= y
<1>1. \E z \in {x, y} : \A w \in {x, y} : z <= w
  <2>1. CASE x <= y  BY <2>1
  <2>2. CASE y <= x  BY <2>2
  <2>3. QED BY <2>1, <2>2
<1>2. Min({x, y}) = CHOOSE z \in {x, y} : \A w \in {x, y} : z <= w  BY DEF Min
<1>3. QED BY <1>1, <1>2

(* Going on to the next artifact keeps what was attached.                  *)
LEMMA AfterGood ==
  ASSUME NEW u \in TransferRecord
  PROVE  LET v == After(u)
         IN  /\ v \in TransferRecord /\ v.i = u.i + 1 /\ v.pc = "next" /\ v.total = {}
             /\ v.does = u.does /\ v.list = u.list /\ v.files = u.files /\ v.dir = u.dir
             /\ v.attached = u.attached /\ v.verdict = u.verdict /\ v.asked = u.asked
             /\ v.refused = u.refused
<1>1. u.i + 1 \in Nat \ {0}  BY DEF TransferRecord
<1>2. QED BY <1>1 DEF TransferRecord, After

(* An artifact that failed is only counted.                                *)
LEMMA FailedGood ==
  ASSUME NEW u \in TransferRecord
  PROVE  LET v == [u EXCEPT !.failed = @ + 1]
         IN  /\ v \in TransferRecord /\ v.i = u.i
             /\ v.does = u.does /\ v.list = u.list /\ v.files = u.files /\ v.dir = u.dir
             /\ v.attached = u.attached /\ v.verdict = u.verdict /\ v.asked = u.asked
             /\ v.refused = u.refused
<1>1. u.failed + 1 \in Nat  BY DEF TransferRecord
<1>2. QED BY <1>1 DEF TransferRecord

(* The call in progress is at an artifact of its list.                     *)
LEMMA AtArtifact ==
  ASSUME transfer \in TransferRecord, transfer.i <= Len(transfer.list)
  PROVE  transfer.i \in DOMAIN transfer.list /\ This \in Artifact
<1>1. transfer.list \in Seq(Artifact) /\ transfer.i \in Nat \ {0}  BY DEF TransferRecord, Lists
<1>2. transfer.i \in 1..Len(transfer.list)  BY <1>1
<1>3. QED BY <1>1, <1>2 DEF This

(* An outcome of a step that leaves the call's answer as it was.           *)
LEMMA ToldOn ==
  ASSUME NEW t \in TransferRecord, NEW C, Told(t, C), t.pc # "idle", t.does = "materialize",
         NEW u \in TransferRecord, u.pc \notin {"idle", "stream"}, u.does = t.does,
         u.list = t.list, u.asked = t.asked, u.verdict = t.verdict, u.refused = t.refused,
         \A k \in u.attached : k \in t.attached \/ t.list[k].id \in t.asked
  PROVE  Told(u, C)
<1>1. \A k : Cleared(u, k) <=> Cleared(t, k)  BY DEF Cleared
<1>2. QED BY <1>1 DEF Told

(* Removing files: what could not be removed is stuck.                     *)
LEMMA Removing ==
  ASSUME NEW names, NEW gone, Removes(names, gone)
  PROVE  \E lost \in SUBSET (names \cap DOMAIN disk) :
            /\ stuck' = stuck \cup lost /\ DOMAIN disk' = (DOMAIN disk \ names) \cup lost
            /\ \A n \in DOMAIN disk' : disk'[n] = disk[n]
            /\ (UNCHANGED faults \/ Fault)
<1>1. disk' = Without(gone)  BY DEF Removes
<1>2. CASE gone = names /\ UNCHANGED <<stuck, faults>>
  <2>1. /\ stuck' = stuck \cup {} /\ DOMAIN disk' = (DOMAIN disk \ names) \cup {}
        /\ \A n \in DOMAIN disk' : disk'[n] = disk[n]
    BY <1>1, <1>2 DEF Without
  <2>2. QED BY <1>2, <2>1
<1>3. ASSUME NEW n \in names \cap DOMAIN disk, gone = names \ {n}, stuck' = stuck \cup {n}, Fault
      PROVE  \E lost \in SUBSET (names \cap DOMAIN disk) :
            /\ stuck' = stuck \cup lost /\ DOMAIN disk' = (DOMAIN disk \ names) \cup lost
            /\ \A m \in DOMAIN disk' : disk'[m] = disk[m]
            /\ (UNCHANGED faults \/ Fault)
  <2>1. /\ DOMAIN disk' = (DOMAIN disk \ names) \cup {n}
        /\ \A m \in DOMAIN disk' : disk'[m] = disk[m]
    BY <1>1, <1>3 DEF Without
  <2>2. {n} \in SUBSET (names \cap DOMAIN disk)  OBVIOUS
  <2>3. QED BY <1>3, <2>1, <2>2
<1>4. QED BY <1>2, <1>3 DEF Removes, MayRemove

(* Faults stay within their bound.                                         *)
LEMMA FaultsGood ==
  ASSUME MediaInv, UNCHANGED faults \/ Fault
  PROVE  faults' \in 0..MaxFaults
<1>1. faults \in 0..MaxFaults /\ MaxFaults \in Nat  BY MediaConstants DEF MediaInv
<1>2. QED BY <1>1 DEF Fault

(* What the invariant says of a call that is writing or about to.          *)
LEMMA NewName ==
  ASSUME MediaInv, transfer.pc \notin {"idle"}
  PROVE  /\ transfers \in Nat /\ transfer.i \in Nat /\ transfers >= 1
         /\ FileName = <<transfers, transfer.i>>
         /\ FileName \notin kept /\ FileName \notin stuck /\ FileName \notin transfer.files
         /\ kept \cap transfer.files = {} /\ stuck \cap transfer.files = {}
<1>1. transfers \in Nat /\ transfer.i \in Nat  BY MediaConstants DEF MediaInv, TransferRecord
<1>2. Names(transfer, disk, kept, stuck, transfers)  BY DEF MediaInv
<1>3. \A n \in kept \cup stuck \cup transfer.files : n[1] \in Nat /\ n[2] \in Nat
  BY <1>1, <1>2 DEF Names
<1>4. QED BY <1>1, <1>2, <1>3 DEF Names, FileName

(* The rest of the state does not change, or only in these ways.           *)
LEMMA StepGood ==
  ASSUME MediaInv, NEW u \in TransferRecord, Step(u), u.pc # "idle",
         UNCHANGED faults \/ Fault, Told(u, consent),
         Names(u, disk', kept, stuck', transfers), Parts(u, disk', kept, transfers),
         Dirs(u, disk', dirs', transfers)
  PROVE  MediaInv'
<1>1. transfer' = u /\ UNCHANGED <<visible, handle, consent, kept, transfers>>  BY DEF Step
<1>2. faults' \in 0..MaxFaults  BY FaultsGood
<1>3. QED BY <1>1, <1>2 DEF MediaInv

(* An artifact that fails leaves no part of it behind but what is stuck.   *)
LEMMA FailsInv ==
  ASSUME MediaInv, Materializing, transfer.pc \in Writing \cup {"fetch"}, ArtifactFails,
         UNCHANGED dirs
  PROVE  MediaInv'
<1> DEFINE t == transfer
           w == [transfer EXCEPT !.failed = @ + 1]
           u == After(w)
<1>1. PICK gone \in SUBSET {FileName} : Removes({FileName}, gone) /\ Step(u)
  BY DEF ArtifactFails
<1>2. PICK lost \in SUBSET ({FileName} \cap DOMAIN disk) :
            /\ stuck' = stuck \cup lost /\ DOMAIN disk' = (DOMAIN disk \ {FileName}) \cup lost
            /\ \A n \in DOMAIN disk' : disk'[n] = disk[n]
            /\ (UNCHANGED faults \/ Fault)
  BY <1>1, Removing
<1>3. t \in TransferRecord /\ t.pc # "idle" /\ t.does = "materialize"
      /\ Told(t, consent) /\ Names(t, disk, kept, stuck, transfers)
      /\ Parts(t, disk, kept, transfers) /\ Dirs(t, disk, dirs, transfers)
  BY DEF MediaInv, Writing, Materializing
<1>4. /\ u \in TransferRecord /\ u.i = t.i + 1 /\ u.pc = "next" /\ u.total = {}
      /\ u.does = t.does /\ u.list = t.list /\ u.files = t.files /\ u.dir = t.dir
      /\ u.attached = t.attached /\ u.verdict = t.verdict /\ u.asked = t.asked
      /\ u.refused = t.refused
  <2>1. /\ w \in TransferRecord /\ w.i = t.i
        /\ w.does = t.does /\ w.list = t.list /\ w.files = t.files /\ w.dir = t.dir
        /\ w.attached = t.attached /\ w.verdict = t.verdict /\ w.asked = t.asked
        /\ w.refused = t.refused
    BY <1>3, FailedGood
  <2> HIDE DEF w
  <2>2. QED BY <2>1, AfterGood
<1>5. /\ transfers \in Nat /\ t.i \in Nat /\ transfers >= 1 /\ FileName = <<transfers, t.i>>
      /\ FileName \notin kept /\ FileName \notin stuck /\ FileName \notin t.files
  BY <1>3, NewName
<1> HIDE DEF w, u, t
<1>6. Told(u, consent)  BY <1>3, <1>4, ToldOn
<1>7. DOMAIN disk' = kept \cup stuck' \cup t.files
  BY <1>2, <1>3, <1>5 DEF Names, Open
<1>8. Names(u, disk', kept, stuck', transfers)
  <2>1. DOMAIN disk' = kept \cup stuck' \cup u.files \cup Open(u, transfers)
    BY <1>4, <1>7 DEF Open, Writing
  <2>2. \A n \in DOMAIN disk' : n \in (1..transfers) \X Nat /\ disk'[n] \in File
                                /\ disk'[n].len <= MaxBytes
    BY <1>2, <1>3 DEF Names
  <2>3. \A k \in u.attached : k < u.i
    <3> TAKE k \in u.attached
    <3>1. k \in Nat /\ k < t.i  BY <1>3, <1>4 DEF Names, TransferRecord
    <3>2. QED BY <1>4, <1>5, <3>1
  <2>4. \A n \in stuck' : n[1] = transfers => n[2] < u.i /\ n \notin u.files
    <3> SUFFICES ASSUME NEW n \in stuck', n[1] = transfers PROVE n[2] < u.i /\ n \notin u.files
      OBVIOUS
    <3>1. CASE n = FileName  BY <1>4, <1>5, <3>1
    <3>2. CASE n # FileName
      <4>1. n \in stuck  BY <1>2, <3>2
      <4>2. n[2] < t.i /\ n \notin t.files /\ n[2] \in Nat  BY <1>3, <4>1 DEF Names
      <4>3. QED BY <1>4, <1>5, <4>2
    <3>3. QED BY <3>1, <3>2
  <2>5. QED BY <1>3, <1>4, <1>5, <2>1, <2>2, <2>3, <2>4 DEF Names
<1>9. Parts(u, disk', kept, transfers)
  <2>1. \A n \in u.files \cup kept : n \in DOMAIN disk' /\ disk'[n] = disk[n]
    BY <1>2, <1>4, <1>7
  <2>2. QED BY <1>3, <1>4, <2>1 DEF Parts
<1>10. Dirs(u, disk', dirs', transfers)
  <2>1. DOMAIN disk' \subseteq DOMAIN disk  BY <1>2
  <2>2. \A n \in DOMAIN disk : n # FileName => n \in DOMAIN disk'  BY <1>2
  <2>3. t.dir  BY <1>3 DEF Dirs, t
  <2>4. FileName[1] = transfers  BY <1>5
  <2>5. QED BY <1>3, <1>4, <2>1, <2>2, <2>3, <2>4 DEF Dirs, Writing
<1>11. QED BY <1>1, <1>2, <1>4, <1>6, <1>8, <1>9, <1>10, StepGood

(* A file that is whole joins the batch.                                   *)
LEMMA DoneInv ==
  ASSUME MediaInv, Materializing, transfer.pc \in Writing, NEW part \in File, ArtifactDone(part),
         part.len <= MaxBytes, ~part.torn, part.of = {part.len}, This.id \in transfer.asked,
         UNCHANGED <<dirs, stuck, faults>>
  PROVE  MediaInv'
<1> DEFINE t == transfer
           w == [transfer EXCEPT !.files = @ \cup {FileName}, !.attached = @ \cup {transfer.i}]
           u == After(w)
<1>1. disk' = [disk EXCEPT ![FileName] = part] /\ Step(u)  BY DEF ArtifactDone
<1>2. t \in TransferRecord /\ t.pc # "idle" /\ t.does = "materialize"
      /\ Told(t, consent) /\ Names(t, disk, kept, stuck, transfers)
      /\ Parts(t, disk, kept, transfers) /\ Dirs(t, disk, dirs, transfers)
  BY DEF MediaInv, Writing, Materializing
<1>3. /\ transfers \in Nat /\ t.i \in Nat /\ transfers >= 1 /\ FileName = <<transfers, t.i>>
      /\ FileName \notin kept /\ FileName \notin stuck /\ FileName \notin t.files
  BY <1>2, NewName
<1>4. /\ u \in TransferRecord /\ u.i = t.i + 1 /\ u.pc = "next" /\ u.total = {}
      /\ u.does = t.does /\ u.list = t.list /\ u.files = t.files \cup {FileName} /\ u.dir = t.dir
      /\ u.attached = t.attached \cup {t.i} /\ u.verdict = t.verdict /\ u.asked = t.asked
      /\ u.refused = t.refused
  <2>0. FileName \in Nat \X Nat  BY <1>3
  <2>1. /\ w \in TransferRecord /\ w.i = t.i
        /\ w.does = t.does /\ w.list = t.list /\ w.files = t.files \cup {FileName} /\ w.dir = t.dir
        /\ w.attached = t.attached \cup {t.i} /\ w.verdict = t.verdict /\ w.asked = t.asked
        /\ w.refused = t.refused
    BY <1>2, <1>3, <2>0 DEF TransferRecord
  <2> HIDE DEF w
  <2>2. QED BY <2>1, AfterGood
<1>5. FileName \in DOMAIN disk /\ DOMAIN disk = kept \cup stuck \cup t.files \cup {FileName}
  BY <1>2, <1>3 DEF Names, Open
<1>6. /\ DOMAIN disk' = DOMAIN disk /\ disk'[FileName] = part
      /\ \A n \in DOMAIN disk : n # FileName => disk'[n] = disk[n]
  BY <1>1, <1>5
<1>7. t.list[t.i].id \in t.asked  BY DEF This
<1> HIDE DEF w, u, t
<1>8. Told(u, consent)  BY <1>2, <1>4, <1>7, ToldOn
<1>9. Names(u, disk', kept, stuck', transfers)
  <2>1. DOMAIN disk' = kept \cup stuck' \cup u.files \cup Open(u, transfers)
    BY <1>4, <1>5, <1>6 DEF Open, Writing
  <2>2. \A n \in DOMAIN disk' : n \in (1..transfers) \X Nat /\ disk'[n] \in File
                                /\ disk'[n].len <= MaxBytes
    BY <1>2, <1>6 DEF Names
  <2>3. \A k \in u.attached : k < u.i
    <3> TAKE k \in u.attached
    <3>1. k = t.i \/ (k \in Nat /\ k < t.i)  BY <1>2, <1>4 DEF Names, TransferRecord
    <3>2. QED BY <1>3, <1>4, <3>1
  <2>4. \A n \in stuck' : n[1] = transfers => n[2] < u.i /\ n \notin u.files
    <3> SUFFICES ASSUME NEW n \in stuck, n[1] = transfers PROVE n[2] < u.i /\ n \notin u.files
      OBVIOUS
    <3>1. n[2] < t.i /\ n \notin t.files /\ n[2] \in Nat  BY <1>2, <1>5 DEF Names
    <3>2. QED BY <1>3, <1>4, <3>1
  <2>5. u.files = {<<transfers, k>> : k \in u.attached}  BY <1>2, <1>3, <1>4 DEF Names
  <2>6. QED BY <1>2, <1>3, <1>4, <2>1, <2>2, <2>3, <2>4, <2>5 DEF Names
<1>10. Parts(u, disk', kept, transfers)
  <2>1. \A n \in u.files \cup kept : ~disk'[n].torn /\ disk'[n].of = {disk'[n].len}
    BY <1>2, <1>3, <1>4, <1>5, <1>6 DEF Parts
  <2>2. QED BY <1>4, <2>1 DEF Parts
<1>11. Dirs(u, disk', dirs', transfers)
  <2>1. t.dir  BY <1>2 DEF Dirs, t, Writing
  <2>2. QED BY <1>2, <1>4, <1>6, <2>1 DEF Dirs, Writing
<1>12. QED BY <1>1, <1>4, <1>8, <1>9, <1>10, <1>11, StepGood

(* A step that changes no file and writes none.                            *)
LEMMA NamesOn ==
  ASSUME MediaInv, transfer.pc # "idle", transfer.pc \notin Writing,
         NEW u \in TransferRecord, u.pc \notin Writing, u.pc # "idle", u.i >= transfer.i,
         u.files = transfer.files, u.attached = transfer.attached
  PROVE  Names(u, disk, kept, stuck, transfers)
<1>1. Names(transfer, disk, kept, stuck, transfers) /\ transfer \in TransferRecord
  BY DEF MediaInv
<1>2. transfer.i \in Nat /\ u.i \in Nat  BY <1>1 DEF TransferRecord
<1>3. DOMAIN disk = kept \cup stuck \cup u.files \cup Open(u, transfers)
  BY <1>1 DEF Names, Open
<1>4. \A k \in u.attached : k < u.i
  <2> TAKE k \in u.attached
  <2>1. k \in Nat /\ k < transfer.i  BY <1>1 DEF Names, TransferRecord
  <2>2. QED BY <1>2, <2>1
<1>5. \A n \in stuck : n[1] = transfers => n[2] < u.i /\ n \notin u.files
  <2> SUFFICES ASSUME NEW n \in stuck, n[1] = transfers PROVE n[2] < u.i /\ n \notin u.files
    OBVIOUS
  <2>1. n[2] < transfer.i /\ n[2] \in Nat /\ n \notin transfer.files  BY <1>1 DEF Names
  <2>2. QED BY <1>2, <2>1
<1>6. QED BY <1>1, <1>3, <1>4, <1>5 DEF Names

(* A step of a call that touches no file.                                  *)
LEMMA QuietInv ==
  ASSUME MediaInv, transfer.pc # "idle", transfer.pc \notin Writing, transfer.total = {},
         NEW u \in TransferRecord, u.pc \in {"next", "fetch", "done"}, u.i >= transfer.i,
         u.files = transfer.files, u.attached = transfer.attached, u.total = {},
         Told(u, consent), Step(u), UNCHANGED <<disk, stuck>>, UNCHANGED faults \/ Fault,
         Dirs(u, disk, dirs', transfers)
  PROVE  MediaInv'
<1>1. u.pc \notin Writing /\ u.pc # "idle"  BY DEF Writing
<1>2. Names(u, disk, kept, stuck, transfers)  BY <1>1, NamesOn
<1>3. Parts(u, disk, kept, transfers)  BY DEF MediaInv, Parts
<1>4. disk' = disk /\ stuck' = stuck  OBVIOUS
<1>5. QED BY <1>1, <1>2, <1>3, <1>4, StepGood

(* An artifact of an unfit type, or a cache root that was replaced, fails; *)
(* else the directory of the call is there.                                *)
LEMMA PrepareInv ==
  ASSUME MediaInv, PrepareArtifact
  PROVE  MediaInv'
<1> DEFINE t == transfer
<1>1. t \in TransferRecord /\ t.pc = "next" /\ t.does = "materialize"
      /\ Told(t, consent) /\ Dirs(t, disk, dirs, transfers) /\ t.total = {}
  BY DEF MediaInv, PrepareArtifact, Materializing, Parts
<1>2. t.i \in Nat /\ t.i + 1 >= t.i /\ t.pc \notin Writing /\ t.failed + 1 \in Nat
      /\ transfers \in Nat /\ transfers >= 1
  BY <1>1, NewName DEF TransferRecord, Writing
<1>3. CASE Step(After([transfer EXCEPT !.failed = @ + 1])) /\ UNCHANGED <<dirs, disk, stuck, faults>>
  <2> DEFINE w == [transfer EXCEPT !.failed = @ + 1]
             u == After(w)
  <2>1. /\ w \in TransferRecord /\ w.i = t.i
        /\ w.does = t.does /\ w.list = t.list /\ w.files = t.files /\ w.dir = t.dir
        /\ w.attached = t.attached /\ w.verdict = t.verdict /\ w.asked = t.asked
        /\ w.refused = t.refused
    BY <1>1, FailedGood
  <2>2. Step(u)  BY <1>3
  <2> HIDE DEF w
  <2>3. /\ u \in TransferRecord /\ u.i = t.i + 1 /\ u.pc = "next" /\ u.total = {}
        /\ u.does = t.does /\ u.list = t.list /\ u.files = t.files /\ u.dir = t.dir
        /\ u.attached = t.attached /\ u.verdict = t.verdict /\ u.asked = t.asked
        /\ u.refused = t.refused
    BY <2>1, AfterGood
  <2> HIDE DEF u
  <2>4. Told(u, consent)  BY <1>1, <2>3, ToldOn
  <2>5. Dirs(u, disk, dirs', transfers)  BY <1>1, <1>3, <2>3 DEF Dirs, Writing
  <2>6. QED BY <1>1, <1>2, <1>3, <2>2, <2>3, <2>4, <2>5, QuietInv
<1>4. CASE /\ Step(After([transfer EXCEPT !.dir = TRUE, !.failed = @ + 1]))
           /\ UNCHANGED <<dirs, disk, stuck>> /\ (UNCHANGED faults \/ Fault)
  <2> DEFINE w == [transfer EXCEPT !.dir = TRUE, !.failed = @ + 1]
             u == After(w)
  <2>1. /\ w \in TransferRecord /\ w.i = t.i
        /\ w.does = t.does /\ w.list = t.list /\ w.files = t.files /\ w.dir = TRUE
        /\ w.attached = t.attached /\ w.verdict = t.verdict /\ w.asked = t.asked
        /\ w.refused = t.refused
    BY <1>1, <1>2 DEF TransferRecord
  <2>2. Step(u)  BY <1>4
  <2> HIDE DEF w
  <2>3. /\ u \in TransferRecord /\ u.i = t.i + 1 /\ u.pc = "next" /\ u.total = {}
        /\ u.does = t.does /\ u.list = t.list /\ u.files = t.files /\ u.dir = TRUE
        /\ u.attached = t.attached /\ u.verdict = t.verdict /\ u.asked = t.asked
        /\ u.refused = t.refused
    BY <2>1, AfterGood
  <2> HIDE DEF u
  <2>4. Told(u, consent)  BY <1>1, <2>3, ToldOn
  <2>5. Dirs(u, disk, dirs', transfers)  BY <1>1, <1>4, <2>3 DEF Dirs, Writing
  <2>6. QED BY <1>1, <1>2, <1>4, <2>2, <2>3, <2>4, <2>5, QuietInv
<1>5. CASE /\ dirs' = dirs \cup {transfers} /\ Step([transfer EXCEPT !.dir = TRUE, !.pc = "fetch"])
           /\ UNCHANGED <<disk, stuck, faults>>
  <2> DEFINE u == [transfer EXCEPT !.dir = TRUE, !.pc = "fetch"]
  <2>1. /\ u \in TransferRecord /\ u.i = t.i /\ u.pc = "fetch" /\ u.total = {}
        /\ u.does = t.does /\ u.list = t.list /\ u.files = t.files /\ u.dir = TRUE
        /\ u.attached = t.attached /\ u.verdict = t.verdict /\ u.asked = t.asked
        /\ u.refused = t.refused
    BY <1>1, <1>2 DEF TransferRecord
  <2>2. Step(u)  BY <1>5
  <2> HIDE DEF u
  <2>3. Told(u, consent)  BY <1>1, <2>1, ToldOn
  <2>4. Dirs(u, disk, dirs', transfers)
    <3>1. transfers \in 1..transfers  BY <1>2
    <3>2. QED BY <1>1, <1>5, <2>1, <3>1 DEF Dirs, Writing
  <2>5. u.i >= t.i  BY <1>2, <2>1
  <2>6. QED BY <1>1, <1>2, <1>5, <2>1, <2>2, <2>3, <2>4, <2>5, QuietInv
<1>6. QED BY <1>3, <1>4, <1>5 DEF PrepareArtifact

(* A file is made, empty, for the artifact at hand.                        *)
LEMMA CreateInv ==
  ASSUME MediaInv, Materializing, transfer.pc = "fetch", NEW u \in TransferRecord,
         CreateNewFile(u), u.pc \in Writing,
         u.i = transfer.i, u.does = transfer.does, u.list = transfer.list,
         u.files = transfer.files, u.dir = transfer.dir, u.attached = transfer.attached,
         u.verdict = transfer.verdict, u.asked = transfer.asked, u.refused = transfer.refused,
         u.pc = "stream" => This.id \in transfer.asked /\ u.total = {u.left},
         u.pc # "stream" => u.total = {}
  PROVE  MediaInv'
<1>1. CASE ArtifactFails /\ UNCHANGED dirs
  BY <1>1, FailsInv DEF Writing
<1>2. CASE /\ disk' = [n \in DOMAIN disk \cup {FileName} |-> IF n = FileName THEN Empty ELSE disk[n]]
           /\ Step(u) /\ UNCHANGED <<dirs, stuck, faults>>
  <2> DEFINE t == transfer
  <2>1. t \in TransferRecord /\ t.pc # "idle" /\ t.does = "materialize" /\ t.pc \notin Writing
        /\ Told(t, consent) /\ Names(t, disk, kept, stuck, transfers)
        /\ Parts(t, disk, kept, transfers) /\ Dirs(t, disk, dirs, transfers)
    BY DEF MediaInv, Writing, Materializing
  <2>2. /\ transfers \in Nat /\ t.i \in Nat /\ transfers >= 1 /\ FileName = <<transfers, t.i>>
        /\ FileName \notin kept /\ FileName \notin stuck /\ FileName \notin t.files
    BY <2>1, NewName
  <2>3. Empty \in File /\ ~Empty.torn /\ Empty.of = {} /\ Empty.len = 0
    BY MediaConstants DEF Empty, File
  <2>4. /\ DOMAIN disk' = DOMAIN disk \cup {FileName} /\ disk'[FileName] = Empty
        /\ \A n \in DOMAIN disk : n # FileName => disk'[n] = disk[n]
    BY <1>2
  <2>5. DOMAIN disk = kept \cup stuck \cup t.files  BY <2>1 DEF Names, Open
  <2> HIDE DEF t
  <2>6. Told(u, consent)
    <3>1. \A k : Cleared(u, k) <=> Cleared(t, k)  BY DEF Cleared, t
    <3>2. u.pc = "stream" => u.list[u.i].id \in u.asked  BY DEF This
    <3>3. u.pc # "idle"  BY DEF Writing
    <3>4. QED BY <2>1, <3>1, <3>2, <3>3 DEF Told, t
  <2>7. Names(u, disk', kept, stuck', transfers)
    <3>1. DOMAIN disk' = kept \cup stuck' \cup u.files \cup Open(u, transfers)
      BY <1>2, <2>2, <2>4, <2>5 DEF Open, t
    <3>2. \A n \in DOMAIN disk' : n \in (1..transfers) \X Nat /\ disk'[n] \in File
                                  /\ disk'[n].len <= MaxBytes
      BY <2>1, <2>2, <2>3, <2>4, MediaConstants DEF Names
    <3>3. QED BY <1>2, <2>1, <2>2, <3>1, <3>2 DEF Names, t
  <2>8. Parts(u, disk', kept, transfers)
    <3>1. \A n \in u.files \cup kept : ~disk'[n].torn /\ disk'[n].of = {disk'[n].len}
      BY <2>1, <2>2, <2>4, <2>5 DEF Parts, t
    <3>2. disk'[<<transfers, u.i>>] = Empty  BY <2>2, <2>4 DEF t
    <3>3. u.left \in Nat  BY DEF TransferRecord
    <3>4. u.pc = "stream" => u.total = {Empty.len + u.left}  BY <2>3, <3>3
    <3>5. u.pc \notin {"next", "fetch"}  BY DEF Writing
    <3>6. QED BY <2>3, <3>1, <3>2, <3>4, <3>5 DEF Parts
  <2>9. Dirs(u, disk', dirs', transfers)
    <3>1. t.dir /\ transfers \in dirs  BY <2>1 DEF Dirs, t
    <3>2. FileName[1] = transfers  BY <2>2
    <3>3. QED BY <1>2, <2>1, <2>4, <3>1, <3>2 DEF Dirs, t
  <2>10. u.pc # "idle"  BY DEF Writing
  <2>11. QED BY <1>2, <2>6, <2>7, <2>8, <2>9, <2>10, StepGood
<1>3. QED BY <1>1, <1>2 DEF CreateNewFile

(* A download over the relay creates its file before the first range.      *)
LEMMA DownloadInv ==
  ASSUME MediaInv, DownloadRemote
  PROVE  MediaInv'
<1> DEFINE u == [transfer EXCEPT !.pc = "range"]
<1>1. Materializing /\ transfer.pc = "fetch" /\ transfer \in TransferRecord /\ transfer.total = {}
  BY DEF DownloadRemote, MediaInv, Parts
<1>2. CASE ArtifactFails /\ UNCHANGED dirs  BY <1>1, <1>2, FailsInv
<1>3. CASE CreateNewFile(u)
  <2>1. /\ u \in TransferRecord /\ u.pc = "range" /\ u.total = {}
        /\ u.i = transfer.i /\ u.does = transfer.does /\ u.list = transfer.list
        /\ u.files = transfer.files /\ u.dir = transfer.dir /\ u.attached = transfer.attached
        /\ u.verdict = transfer.verdict /\ u.asked = transfer.asked
        /\ u.refused = transfer.refused
    BY <1>1 DEF TransferRecord
  <2>2. CreateNewFile(u)  BY <1>3
  <2> HIDE DEF u
  <2>3. u.pc \in Writing  BY <2>1 DEF Writing
  <2>4. QED BY <1>1, <2>1, <2>2, <2>3, CreateInv
<1>4. QED BY <1>2, <1>3 DEF DownloadRemote

(* The answer of the local HarborBeacon, with or without a length.         *)
LEMMA GetLocalInv ==
  ASSUME MediaInv, GetLocal
  PROVE  MediaInv'
<1>1. Materializing /\ transfer.pc = "fetch" /\ transfer \in TransferRecord /\ transfer.total = {}
  BY DEF GetLocal, MediaInv, Parts
<1>2. CASE ArtifactFails /\ UNCHANGED dirs  BY <1>1, <1>2, FailsInv
<1>3. ASSUME NEW n \in Totals, This.id \in consent,
             CreateNewFile([transfer EXCEPT !.pc = "stream", !.total = {n}, !.left = n])
      PROVE  MediaInv'
  <2> DEFINE u == [transfer EXCEPT !.pc = "stream", !.total = {n}, !.left = n]
  <2>1. n \in Nat  BY MediaConstants
  <2>2. /\ u \in TransferRecord /\ u.pc = "stream" /\ u.total = {n} /\ u.left = n
        /\ u.i = transfer.i /\ u.does = transfer.does /\ u.list = transfer.list
        /\ u.files = transfer.files /\ u.dir = transfer.dir /\ u.attached = transfer.attached
        /\ u.verdict = transfer.verdict /\ u.asked = transfer.asked
        /\ u.refused = transfer.refused
    BY <1>1, <2>1 DEF TransferRecord
  <2>3. CreateNewFile(u)  BY <1>3
  <2>4. This.id \in transfer.asked  BY <1>1, <1>3 DEF MediaInv, Told
  <2> HIDE DEF u
  <2>5. u.pc \in Writing  BY <2>2 DEF Writing
  <2>6. QED BY <1>1, <2>2, <2>3, <2>4, <2>5, CreateInv
<1>4. QED BY <1>2, <1>3 DEF GetLocal

(* A part is written, or the next one asked for.                           *)
LEMMA WriteInv ==
  ASSUME MediaInv, Materializing, transfer.pc \in Writing, NEW u \in TransferRecord, Step(u),
         u.pc \in Writing, UNCHANGED <<dirs, stuck, faults>>,
         u.i = transfer.i, u.does = transfer.does, u.list = transfer.list,
         u.files = transfer.files, u.dir = transfer.dir, u.attached = transfer.attached,
         u.verdict = transfer.verdict, u.asked = transfer.asked, u.refused = transfer.refused,
         u.pc = "stream" => transfer.pc = "stream",
         NEW part \in File, disk' = [disk EXCEPT ![FileName] = part],
         part.len <= MaxBytes, ~part.torn,
         u.pc # "stream" => part.of = u.total,
         u.pc = "stream" => u.total = {part.len + u.left} /\ (part.len = 0 \/ part.of = u.total)
  PROVE  MediaInv'
<1> DEFINE t == transfer
<1>1. t \in TransferRecord /\ t.pc # "idle" /\ t.does = "materialize"
      /\ Told(t, consent) /\ Names(t, disk, kept, stuck, transfers)
      /\ Parts(t, disk, kept, transfers) /\ Dirs(t, disk, dirs, transfers)
  BY DEF MediaInv, Writing, Materializing
<1>2. /\ transfers \in Nat /\ t.i \in Nat /\ transfers >= 1 /\ FileName = <<transfers, t.i>>
      /\ FileName \notin kept /\ FileName \notin stuck /\ FileName \notin t.files
  BY <1>1, NewName
<1>3. FileName \in DOMAIN disk /\ DOMAIN disk = kept \cup stuck \cup t.files \cup {FileName}
  BY <1>1, <1>2 DEF Names, Open
<1>4. /\ DOMAIN disk' = DOMAIN disk /\ disk'[FileName] = part
      /\ \A n \in DOMAIN disk : n # FileName => disk'[n] = disk[n]
  BY <1>3
<1>5. u.pc # "idle" /\ u.pc \notin {"next", "fetch"}  BY DEF Writing
<1> HIDE DEF t
<1>6. Told(u, consent)
  <2>1. \A k : Cleared(u, k) <=> Cleared(t, k)  BY DEF Cleared, t
  <2>2. QED BY <1>1, <1>5, <2>1 DEF Told, t
<1>7. Names(u, disk', kept, stuck', transfers)
  <2>1. DOMAIN disk' = kept \cup stuck' \cup u.files \cup Open(u, transfers)
    BY <1>2, <1>3, <1>4 DEF Open, t
  <2>2. \A n \in DOMAIN disk' : n \in (1..transfers) \X Nat /\ disk'[n] \in File
                                /\ disk'[n].len <= MaxBytes
    BY <1>1, <1>4 DEF Names
  <2>3. QED BY <1>1, <1>2, <2>1, <2>2 DEF Names, t
<1>8. Parts(u, disk', kept, transfers)
  <2>1. \A n \in u.files \cup kept : ~disk'[n].torn /\ disk'[n].of = {disk'[n].len}
    BY <1>1, <1>2, <1>3, <1>4 DEF Parts, t
  <2>2. disk'[<<transfers, u.i>>] = part  BY <1>2, <1>4 DEF t
  <2>3. QED BY <1>5, <2>1, <2>2 DEF Parts
<1>9. Dirs(u, disk', dirs', transfers)  BY <1>1, <1>4 DEF Dirs, t
<1>10. QED BY <1>5, <1>6, <1>7, <1>8, <1>9, StepGood

(* What is known of the file being written.                                *)
LEMMA PartsNow ==
  ASSUME MediaInv, transfer.pc \in Writing
  PROVE  /\ FileName \in DOMAIN disk /\ disk[FileName] \in File
         /\ disk[FileName].len <= MaxBytes /\ ~disk[FileName].torn
         /\ transfer.pc # "stream" => disk[FileName].of = transfer.total
         /\ transfer.pc = "stream" =>
              /\ transfer.total = {disk[FileName].len + transfer.left}
              /\ disk[FileName].len = 0 \/ disk[FileName].of = transfer.total
<1>1. Names(transfer, disk, kept, stuck, transfers) /\ Parts(transfer, disk, kept, transfers)
  BY DEF MediaInv
<1>2. FileName = <<transfers, transfer.i>>  BY DEF FileName
<1>3. FileName \in DOMAIN disk  BY <1>1, <1>2 DEF Names, Open
<1>4. QED BY <1>1, <1>2, <1>3 DEF Names, Parts, Writing

(* The next range is asked for.                                            *)
LEMMA RangeRequestInv ==
  ASSUME MediaInv, RangeRequest
  PROVE  MediaInv'
<1> DEFINE u == [transfer EXCEPT !.pc = "asked"]
           part == disk[FileName]
<1>1. Materializing /\ transfer.pc = "range" /\ transfer \in TransferRecord
      /\ Step(u) /\ UNCHANGED <<disk, dirs, stuck, faults>>
  BY DEF RangeRequest, MediaInv
<1>2. /\ u \in TransferRecord /\ u.pc = "asked" /\ u.total = transfer.total
      /\ u.i = transfer.i /\ u.does = transfer.does /\ u.list = transfer.list
      /\ u.files = transfer.files /\ u.dir = transfer.dir /\ u.attached = transfer.attached
      /\ u.verdict = transfer.verdict /\ u.asked = transfer.asked
      /\ u.refused = transfer.refused
  BY <1>1 DEF TransferRecord
<1> HIDE DEF u
<1>3. transfer.pc \in Writing /\ u.pc \in Writing  BY <1>1, <1>2 DEF Writing
<1>4. /\ FileName \in DOMAIN disk /\ part \in File /\ part.len <= MaxBytes /\ ~part.torn
      /\ part.of = transfer.total
  BY <1>1, <1>3, PartsNow
<1>5. Told(u, consent) /\ Names(u, disk, kept, stuck, transfers)
      /\ Parts(u, disk, kept, transfers) /\ Dirs(u, disk, dirs, transfers)
  <2>1. Told(transfer, consent) /\ Names(transfer, disk, kept, stuck, transfers)
        /\ Parts(transfer, disk, kept, transfers) /\ Dirs(transfer, disk, dirs, transfers)
    BY DEF MediaInv
  <2>2. \A k : Cleared(u, k) <=> Cleared(transfer, k)  BY <1>2 DEF Cleared
  <2>3. Told(u, consent)  BY <1>1, <1>2, <2>1, <2>2 DEF Told, Materializing
  <2>4. Names(u, disk, kept, stuck, transfers)  BY <1>1, <1>2, <1>3, <2>1 DEF Names, Open
  <2>5. Parts(u, disk, kept, transfers)  BY <1>1, <1>2, <2>1 DEF Parts
  <2>6. Dirs(u, disk, dirs, transfers)  BY <1>1, <1>2, <1>3, <2>1 DEF Dirs
  <2>7. QED BY <2>3, <2>4, <2>5, <2>6
<1>6. u.pc # "idle"  BY <1>2
<1>7. QED BY <1>1, <1>2, <1>5, <1>6, StepGood

(* A part that was decoded lies where it belongs and within its medium.    *)
LEMMA PartFits ==
  ASSUME NEW id, NEW a \in Answers(id), NEW offset \in Nat, Decoded(a, offset, RangeEnd(offset))
  PROVE  /\ a.at = offset /\ a.total \in Nat /\ a.total \in Totals /\ a.total <= MaxBytes
         /\ offset + a.len \in Nat /\ offset + a.len <= a.total /\ id \in consent
<1>1. /\ a.status \in {"refused", "failing"} \cup (IF id \in consent THEN {"200", "206"} ELSE {})
      /\ a.total \in Totals /\ a.len \in 0..Chunk
  BY DEF Answers
<1>2. /\ a.status \in {"200", "206"} /\ a.total <= MaxBytes /\ a.at = offset
      /\ a.len = Min({RangeEnd(offset) + 1, a.total}) - offset
  BY DEF Decoded
<1>3. a.total \in Nat /\ a.len \in Nat /\ Chunk \in Nat /\ MaxBytes \in Nat
  <2>1. a.total \in Totals /\ a.len \in 0..Chunk  BY <1>1
  <2>2. Chunk \in Nat /\ MaxBytes \in Nat /\ (\A x \in Totals : x \in Nat)  BY MediaConstants
  <2>3. \A x \in 0..Chunk : x \in Nat  BY <2>2
  <2>4. QED BY <2>1, <2>2, <2>3, Zenon
<1>4. RangeEnd(offset) \in Int
  <2>1. offset + Chunk - 1 \in Int /\ MaxBytes - 1 \in Int  BY <1>3
  <2>2. QED BY <2>1, MinOfTwo DEF RangeEnd
<1> DEFINE m == Min({RangeEnd(offset) + 1, a.total})
<1>5. m <= a.total /\ m \in Int
  <2>1. RangeEnd(offset) + 1 \in Int /\ a.total \in Int  BY <1>3, <1>4
  <2>2. QED BY <2>1, MinOfTwo
<1> HIDE DEF m
<1>6. a.len = m - offset  BY <1>2 DEF m
<1>7. offset + a.len = m  BY <1>3, <1>5, <1>6
<1>8. offset + a.len \in Nat  BY <1>3
<1>9. id \in consent  BY <1>1, <1>2
<1>10. QED BY <1>1, <1>2, <1>3, <1>5, <1>7, <1>8, <1>9

(* A range is appended only if it is the one that was asked for.           *)
LEMMA RangeArrivesInv ==
  ASSUME MediaInv, RangeArrives
  PROVE  MediaInv'
<1>1. Materializing /\ transfer.pc = "asked" /\ transfer \in TransferRecord
      /\ UNCHANGED <<dirs, stuck, faults>> /\ transfer.pc \in Writing
  BY DEF RangeArrives, MediaInv, Writing
<1> DEFINE offset == disk[FileName].len
           part(a) == [len |-> offset + a.len, of |-> disk[FileName].of \cup {a.total},
                       torn |-> disk[FileName].torn \/ a.at # offset]
           u(a) == [transfer EXCEPT !.total = {a.total}, !.pc = "range"]
<1>2. PICK a \in Answers(This.id) :
         /\ Decoded(a, offset, RangeEnd(offset)) /\ SameTotal(a)
         /\ IF part(a).len = a.total THEN ArtifactDone(part(a))
            ELSE disk' = [disk EXCEPT ![FileName] = part(a)] /\ Step(u(a))
  BY DEF RangeArrives
<1>3. /\ FileName \in DOMAIN disk /\ disk[FileName] \in File
      /\ ~disk[FileName].torn /\ disk[FileName].of = transfer.total
  BY <1>1, PartsNow
<1>4. offset \in Nat /\ transfer.total \subseteq Totals  BY <1>1, <1>3 DEF File, TransferRecord
<1>5. /\ a.at = offset /\ a.total \in Nat /\ a.total \in Totals /\ a.total <= MaxBytes
      /\ offset + a.len \in Nat /\ offset + a.len <= a.total /\ This.id \in consent
  <2> HIDE DEF offset
  <2>1. QED BY <1>2, <1>4, PartFits
<1>6. transfer.total \cup {a.total} = {a.total}  BY <1>2 DEF SameTotal
<1>7. part(a) = [len |-> offset + a.len, of |-> {a.total}, torn |-> FALSE]
  BY <1>3, <1>5, <1>6
<1>8. offset + a.len <= MaxBytes /\ offset + a.len \in 0..MaxBytes + 1
  <2> DEFINE x == offset + a.len
  <2>1. x \in Nat /\ x <= a.total /\ a.total <= MaxBytes /\ a.total \in Nat /\ MaxBytes \in Nat
    BY <1>5, MediaConstants
  <2> HIDE DEF x
  <2>2. x <= MaxBytes /\ x \in 0..MaxBytes + 1  BY <2>1
  <2>3. QED BY <2>2 DEF x
<1>9. /\ part(a) \in File /\ part(a).len = offset + a.len /\ part(a).of = {a.total}
      /\ ~part(a).torn
  BY <1>5, <1>7, <1>8 DEF File
<1>10. This.id \in transfer.asked  BY <1>1, <1>5 DEF MediaInv, Told
<1>11. CASE part(a).len = a.total
  <2>1. ArtifactDone(part(a))  BY <1>2, <1>11
  <2> HIDE DEF part
  <2>2. part(a).len <= MaxBytes /\ part(a).of = {part(a).len}  BY <1>5, <1>9, <1>11
  <2>3. QED BY <1>1, <1>9, <1>10, <2>1, <2>2, DoneInv
<1>12. CASE part(a).len # a.total
  <2>1. disk' = [disk EXCEPT ![FileName] = part(a)] /\ Step(u(a))  BY <1>2, <1>12
  <2>2. /\ u(a) \in TransferRecord /\ u(a).pc = "range" /\ u(a).total = {a.total}
        /\ u(a).i = transfer.i /\ u(a).does = transfer.does /\ u(a).list = transfer.list
        /\ u(a).files = transfer.files /\ u(a).dir = transfer.dir
        /\ u(a).attached = transfer.attached /\ u(a).verdict = transfer.verdict
        /\ u(a).asked = transfer.asked /\ u(a).refused = transfer.refused
    BY <1>1, <1>5 DEF TransferRecord
  <2> HIDE DEF part, u
  <2>3. u(a).pc \in Writing /\ u(a).pc # "stream"  BY <2>2 DEF Writing
  <2>4. part(a).len <= MaxBytes  BY <1>8, <1>9
  <2>5. QED BY <1>1, <1>9, <2>1, <2>2, <2>3, <2>4, WriteInv
<1>13. QED BY <1>11, <1>12

(* A piece of the stream is appended, within the limit.                    *)
LEMMA StreamArrivesInv ==
  ASSUME MediaInv, StreamArrives
  PROVE  MediaInv'
<1>1. Materializing /\ transfer.pc = "stream" /\ transfer \in TransferRecord /\ transfer.left > 0
      /\ transfer.pc \in Writing
  BY DEF StreamArrives, MediaInv, Writing
<1> DEFINE old == disk[FileName]
           part(n) == [old EXCEPT !.len = @ + n, !.of = transfer.total]
           u(n) == [transfer EXCEPT !.left = @ - n]
<1>2. PICK n \in 1..Min({transfer.left, Chunk}) :
         \/ /\ part(n).len <= MaxBytes /\ disk' = [disk EXCEPT ![FileName] = part(n)]
            /\ Step(u(n)) /\ UNCHANGED <<dirs, stuck, faults>>
         \/ ArtifactFails /\ UNCHANGED dirs
  BY DEF StreamArrives, WithinLimit
<1>3. CASE ArtifactFails /\ UNCHANGED dirs  BY <1>1, <1>3, FailsInv
<1>4. CASE /\ part(n).len <= MaxBytes /\ disk' = [disk EXCEPT ![FileName] = part(n)]
           /\ Step(u(n)) /\ UNCHANGED <<dirs, stuck, faults>>
  <2>1. transfer.left \in Nat /\ Chunk \in Nat /\ MaxBytes \in Nat
    BY <1>1, MediaConstants DEF TransferRecord
  <2>a. transfer.left \in Int /\ Chunk \in Int  BY <2>1
  <2>b. Min({transfer.left, Chunk}) \in {transfer.left, Chunk}
        /\ Min({transfer.left, Chunk}) <= transfer.left
    BY <2>a, MinOfTwo, Zenon
  <2>2. Min({transfer.left, Chunk}) \in Int /\ Min({transfer.left, Chunk}) <= transfer.left
    BY <2>a, <2>b
  <2>3. n \in Nat /\ 1 <= n /\ n <= transfer.left  BY <2>1, <2>2
  <2>4. old \in File /\ ~old.torn /\ transfer.total = {old.len + transfer.left}
    BY <1>1, PartsNow
  <2>5. old.len \in Nat /\ transfer.total \subseteq Totals /\ old.torn = FALSE
    BY <1>1, <2>4 DEF File, TransferRecord
  <2>6. part(n).len = old.len + n /\ part(n).of = transfer.total /\ part(n).torn = old.torn
    BY <2>4 DEF File
  <2> HIDE DEF old
  <2>7. old.len + n \in 0..MaxBytes + 1
    <3>1. old.len + n <= MaxBytes  BY <1>4, <2>6
    <3>2. QED BY <2>1, <2>3, <2>5, <3>1
  <2>8. /\ part(n) \in File /\ part(n).len = old.len + n /\ part(n).of = transfer.total
        /\ ~part(n).torn
    BY <2>4, <2>5, <2>6, <2>7 DEF File
  <2>9. transfer.left - n \in Nat  BY <2>1, <2>3
  <2>10. /\ u(n) \in TransferRecord /\ u(n).pc = "stream" /\ u(n).total = transfer.total
        /\ u(n).left = transfer.left - n
        /\ u(n).i = transfer.i /\ u(n).does = transfer.does /\ u(n).list = transfer.list
        /\ u(n).files = transfer.files /\ u(n).dir = transfer.dir
        /\ u(n).attached = transfer.attached /\ u(n).verdict = transfer.verdict
        /\ u(n).asked = transfer.asked /\ u(n).refused = transfer.refused
    BY <1>1, <2>9 DEF TransferRecord
  <2>11. disk' = [disk EXCEPT ![FileName] = part(n)] /\ Step(u(n)) /\ UNCHANGED <<dirs, stuck, faults>>
         /\ part(n).len <= MaxBytes
    BY <1>4
  <2> HIDE DEF part, u
  <2>12. u(n).total = {part(n).len + u(n).left}
    <3>1. old.len + transfer.left = (old.len + n) + (transfer.left - n)  BY <2>1, <2>3, <2>5
    <3>2. QED BY <2>4, <2>8, <2>10, <3>1
  <2>13. u(n).pc \in Writing  BY <2>10 DEF Writing
  <2>14. QED BY <1>1, <2>8, <2>10, <2>11, <2>12, <2>13, WriteInv
<1>5. QED BY <1>2, <1>3, <1>4

(* A stream that ends with nothing written leaves no attachment.           *)
LEMMA StreamEndsInv ==
  ASSUME MediaInv, StreamEnds
  PROVE  MediaInv'
<1>1. Materializing /\ transfer.pc = "stream" /\ transfer.left = 0 /\ transfer.pc \in Writing
  BY DEF StreamEnds, Writing
<1>2. CASE ArtifactFails /\ UNCHANGED dirs  BY <1>1, <1>2, FailsInv
<1>3. CASE disk[FileName].len > 0 /\ ArtifactDone(disk[FileName]) /\ UNCHANGED <<dirs, stuck, faults>>
  <2>1. /\ disk[FileName] \in File /\ disk[FileName].len <= MaxBytes /\ ~disk[FileName].torn
        /\ transfer.total = {disk[FileName].len + transfer.left}
        /\ disk[FileName].len = 0 \/ disk[FileName].of = transfer.total
    BY <1>1, PartsNow
  <2>2. disk[FileName].len \in Nat  BY <2>1 DEF File
  <2>3. disk[FileName].of = {disk[FileName].len}  BY <1>1, <1>3, <2>1, <2>2
  <2>4. This.id \in transfer.asked  BY <1>1 DEF MediaInv, Told, This
  <2>5. QED BY <1>1, <1>3, <2>1, <2>3, <2>4, DoneInv
<1>4. QED BY <1>2, <1>3 DEF StreamEnds

(* The end of a batch: nothing failed, or all of it is undone.             *)
LEMMA FinishInv ==
  ASSUME MediaInv, FinishBatch
  PROVE  MediaInv'
<1> DEFINE t == transfer
           files == IF MustUndo THEN {} ELSE t.files
           attached == IF MustUndo THEN {} ELSE t.attached
           dir == t.dir /\ files # {}
           u == [transfer EXCEPT !.files = files, !.pc = "done", !.attached = attached, !.dir = dir]
<1>1. t \in TransferRecord /\ t.pc = "next" /\ t.does = "materialize" /\ t.pc \notin Writing
      /\ Told(t, consent) /\ Names(t, disk, kept, stuck, transfers)
      /\ Parts(t, disk, kept, transfers) /\ Dirs(t, disk, dirs, transfers)
  BY DEF MediaInv, FinishBatch, Writing
<1>2. PICK gone \in SUBSET t.files :
        /\ IF MustUndo THEN Removes(t.files, gone)
           ELSE gone = {} /\ UNCHANGED <<disk, stuck, faults>>
        /\ IF files = {} /\ t.dir THEN RemoveDir(transfers, DOMAIN disk') ELSE UNCHANGED dirs
        /\ Step(u)
  BY DEF FinishBatch
<1>3. files \in SUBSET (Nat \X Nat) /\ attached \in SUBSET Nat /\ dir \in BOOLEAN
      /\ (files = {} \/ (files = t.files /\ attached = t.attached))
      /\ (files = {} => attached = {}) /\ (attached = {} => files = {})
  <2>1. t.files \in SUBSET (Nat \X Nat) /\ t.attached \in SUBSET Nat /\ t.dir \in BOOLEAN
    BY <1>1 DEF TransferRecord
  <2>a. t.files = {<<transfers, k>> : k \in t.attached}  BY <1>1 DEF Names
  <2>b. t.files = {} <=> t.attached = {}  BY <2>a
  <2>2. QED BY <2>1, <2>b
<1>4. /\ transfers \in Nat /\ transfers >= 1 /\ kept \cap t.files = {} /\ stuck \cap t.files = {}
  BY <1>1, NewName
<1>5. \E lost \in SUBSET t.files :
            /\ stuck' = stuck \cup lost /\ DOMAIN disk' = kept \cup stuck' \cup files
            /\ DOMAIN disk' \subseteq DOMAIN disk /\ lost \cap files = {}
            /\ (\A n \in DOMAIN disk' : disk'[n] = disk[n])
            /\ (UNCHANGED faults \/ Fault)
  <2>1. DOMAIN disk = kept \cup stuck \cup t.files  BY <1>1 DEF Names, Open
  <2>2. CASE MustUndo
    <3>1. PICK lost \in SUBSET (t.files \cap DOMAIN disk) :
            /\ stuck' = stuck \cup lost /\ DOMAIN disk' = (DOMAIN disk \ t.files) \cup lost
            /\ \A n \in DOMAIN disk' : disk'[n] = disk[n]
            /\ (UNCHANGED faults \/ Fault)
      BY <1>2, <2>2, Removing
    <3>2. files = {}  BY <2>2
    <3> HIDE DEF files
    <3>3. QED BY <1>4, <2>1, <3>1, <3>2
  <2>3. CASE ~MustUndo
    <3>1. stuck' = stuck \cup {} /\ disk' = disk /\ UNCHANGED faults /\ files = t.files
      BY <1>2, <2>3
    <3> HIDE DEF files
    <3>2. DOMAIN disk' = kept \cup stuck' \cup files /\ DOMAIN disk' \subseteq DOMAIN disk
          /\ (\A n \in DOMAIN disk' : disk'[n] = disk[n]) /\ {} \cap files = {}
      BY <2>1, <3>1
    <3>3. {} \in SUBSET t.files  OBVIOUS
    <3>4. QED BY <3>1, <3>2, <3>3
  <2>4. QED BY <2>2, <2>3
<1>6. PICK lost \in SUBSET t.files :
            /\ stuck' = stuck \cup lost /\ DOMAIN disk' = kept \cup stuck' \cup files
            /\ DOMAIN disk' \subseteq DOMAIN disk /\ lost \cap files = {}
            /\ (\A n \in DOMAIN disk' : disk'[n] = disk[n])
            /\ (UNCHANGED faults \/ Fault)
  BY <1>5
<1>d. dir = (t.dir /\ files # {})  OBVIOUS
<1> HIDE DEF files, attached, dir
<1>7. /\ u \in TransferRecord /\ u.pc = "done" /\ u.i = t.i
      /\ u.does = t.does /\ u.list = t.list /\ u.files = files /\ u.dir = dir
      /\ u.attached = attached /\ u.verdict = t.verdict /\ u.asked = t.asked
      /\ u.refused = t.refused
  BY <1>1, <1>3 DEF TransferRecord
<1> HIDE DEF u, t
<1>8. Told(u, consent)
  <2>1. \A k \in u.attached : k \in t.attached  BY <1>3, <1>7
  <2>2. QED BY <1>1, <1>7, <2>1, ToldOn
<1>9. Names(u, disk', kept, stuck', transfers)
  <2>1. DOMAIN disk' = kept \cup stuck' \cup u.files \cup Open(u, transfers)
    BY <1>6, <1>7 DEF Open, Writing
  <2>2. \A n \in DOMAIN disk' : n \in (1..transfers) \X Nat /\ disk'[n] \in File
                                /\ disk'[n].len <= MaxBytes
    BY <1>1, <1>6 DEF Names
  <2>3. u.files = {<<transfers, k>> : k \in u.attached} /\ \A k \in u.attached : k < u.i
    <3>1. CASE files = {}  BY <1>3, <1>7, <3>1
    <3>2. CASE files = t.files /\ attached = t.attached  BY <1>1, <1>7, <3>2 DEF Names
    <3>3. QED BY <1>3, <3>1, <3>2
  <2>4. \A n \in stuck' : n[1] = transfers => n[2] < u.i /\ n \notin u.files
    <3> SUFFICES ASSUME NEW n \in stuck', n[1] = transfers PROVE n[2] < u.i /\ n \notin u.files
      OBVIOUS
    <3>1. CASE n \in lost
      <4>1. n \in t.files  BY <3>1
      <4>2. PICK k \in t.attached : n = <<transfers, k>>  BY <1>1, <4>1 DEF Names
      <4>3. k < t.i  BY <1>1 DEF Names
      <4>4. n[2] < u.i  BY <1>7, <4>2, <4>3
      <4>5. QED BY <1>6, <1>7, <3>1, <4>4
    <3>2. CASE n \in stuck
      <4>1. n[2] < t.i /\ n \notin t.files  BY <1>1, <3>2 DEF Names
      <4>2. QED BY <1>3, <1>7, <4>1
    <3>3. QED BY <1>6, <3>1, <3>2
  <2>5. QED BY <1>1, <1>4, <2>1, <2>2, <2>3, <2>4 DEF Names
<1>10. Parts(u, disk', kept, transfers)
  <2>1. \A n \in u.files \cup kept : n \in t.files \cup kept /\ n \in DOMAIN disk'
    BY <1>3, <1>6, <1>7
  <2>2. QED BY <1>1, <1>6, <1>7, <2>1 DEF Parts
<1>11. Dirs(u, disk', dirs', transfers)
  <2>1. \A n \in t.files : n[1] = transfers  BY <1>1, <1>4 DEF Names
  <2>2. \A n \in DOMAIN disk : n \in DOMAIN disk' \/ n[1] = transfers
    BY <1>1, <1>6, <2>1 DEF Names, Open
  <2>3. dirs' \subseteq dirs /\ \A d \in dirs : d # transfers => d \in dirs'
    BY <1>2 DEF RemoveDir, t
  <2>4. \A n \in DOMAIN disk' : n[1] \in dirs'
    <3> TAKE n \in DOMAIN disk'
    <3>1. n[1] \in dirs  BY <1>1, <1>6 DEF Dirs
    <3>2. CASE n[1] # transfers  BY <2>3, <3>1, <3>2
    <3>3. CASE n[1] = transfers  BY <1>2, <3>1, <3>3 DEF RemoveDir
    <3>4. QED BY <3>2, <3>3
  <2>5. \A d \in dirs' : (\E n \in DOMAIN disk' : n[1] = d) \/ (u.dir /\ d = transfers)
    <3> TAKE d \in dirs'
    <3>1. (\E n \in DOMAIN disk : n[1] = d) \/ (t.dir /\ d = transfers)
      BY <1>1, <2>3 DEF Dirs
    <3>2. CASE d # transfers  BY <2>2, <3>1, <3>2
    <3>3. CASE d = transfers
      <4>1. CASE files # {}
        <5>1. PICK n \in files : TRUE  BY <4>1
        <5>2. n \in DOMAIN disk' /\ n[1] = transfers  BY <1>3, <1>6, <2>1, <5>1
        <5>3. QED BY <3>3, <5>2
      <4>2. CASE files = {} /\ t.dir
        <5>1. dirs' = IF \E n \in DOMAIN disk' : n[1] = transfers THEN dirs ELSE dirs \ {transfers}
          BY <1>2, <4>2 DEF RemoveDir, t
        <5>2. QED BY <3>3, <5>1
      <4>3. CASE files = {} /\ ~t.dir
        <5>1. t.attached = {}  BY <1>1, <4>3 DEF Dirs
        <5>2. t.files = {}  BY <1>1, <5>1 DEF Names
        <5>3. PICK n \in DOMAIN disk : n[1] = d  BY <3>1, <4>3
        <5>4. n \in DOMAIN disk'  BY <1>1, <1>6, <5>2 DEF Names, Open
        <5>5. QED BY <5>3, <5>4
      <4>4. QED BY <4>1, <4>2, <4>3
    <3>4. QED BY <3>2, <3>3
  <2>6. u.attached # {} => u.dir
    <3> SUFFICES ASSUME u.attached # {} PROVE u.dir  OBVIOUS
    <3>1. files # {} /\ attached = t.attached  BY <1>3, <1>7
    <3>2. t.dir  BY <1>1, <1>7, <3>1 DEF Dirs
    <3>3. QED BY <1>7, <1>d, <3>1, <3>2
  <2>7. QED BY <1>1, <1>7, <2>3, <2>4, <2>5, <2>6 DEF Dirs, Writing
<1>12. QED BY <1>2, <1>6, <1>7, <1>8, <1>9, <1>10, <1>11, StepGood

(* Between two calls.                                                      *)
LEMMA IdleGood ==
  ASSUME MediaInv, transfer' = NoTransfer, UNCHANGED <<visible, handle, transfers>>,
         consent' \subseteq Ids, UNCHANGED faults \/ Fault,
         DOMAIN disk' = kept' \cup stuck', DOMAIN disk' \subseteq DOMAIN disk,
         \A n \in DOMAIN disk' : disk'[n] = disk[n],
         \A n \in kept' : ~disk[n].torn /\ disk[n].of = {disk[n].len},
         dirs' \subseteq dirs, \A n \in DOMAIN disk' : n[1] \in dirs',
         \A d \in dirs' : \E n \in DOMAIN disk' : n[1] = d
  PROVE  MediaInv'
<1> DEFINE u == NoTransfer
<1>1. /\ u \in TransferRecord /\ u.pc = "idle" /\ u.does = "nothing" /\ u.files = {}
      /\ u.attached = {} /\ u.verdict = "none" /\ u.dir = FALSE
  BY NoTransferGood
<1> HIDE DEF u
<1>2. Names(transfer, disk, kept, stuck, transfers) /\ Dirs(transfer, disk, dirs, transfers)
  BY DEF MediaInv
<1>3. Told(u, consent')  BY <1>1 DEF Told
<1>4. Names(u, disk', kept', stuck', transfers)
  <2>1. DOMAIN disk' = kept' \cup stuck' \cup u.files \cup Open(u, transfers)
    BY <1>1 DEF Open, Writing
  <2>2. \A n \in DOMAIN disk' : n \in (1..transfers) \X Nat /\ disk'[n] \in File
                                /\ disk'[n].len <= MaxBytes
    BY <1>2 DEF Names
  <2>3. u.files = {<<transfers, k>> : k \in u.attached} /\ \A k \in u.attached : k < u.i  BY <1>1
  <2>4. QED BY <1>1, <2>1, <2>2, <2>3 DEF Names
<1>5. Parts(u, disk', kept', transfers)
  <2>1. \A n \in u.files \cup kept' : ~disk'[n].torn /\ disk'[n].of = {disk'[n].len}  BY <1>1
  <2>2. QED BY <1>1, <2>1 DEF Parts
<1>6. Dirs(u, disk', dirs', transfers)  BY <1>1, <1>2 DEF Dirs, Writing
<1>7. faults' \in 0..MaxFaults  BY FaultsGood
<1>8. transfer' = u  BY DEF u
<1>9. QED BY <1>1, <1>3, <1>4, <1>5, <1>6, <1>7, <1>8 DEF MediaInv, u

(* The ledger takes over the file: the guard lets go of it.                *)
LEMMA KeepInv ==
  ASSUME MediaInv, KeepAttachment
  PROVE  MediaInv'
<1>1. /\ transfer.pc = "done" /\ kept' = kept \cup transfer.files /\ transfer' = NoTransfer
      /\ Cardinality(transfer.attached) = 1
      /\ UNCHANGED <<visible, handle, dirs, stuck, consent, disk, transfers, faults>>
  BY DEF KeepAttachment
<1>2. Names(transfer, disk, kept, stuck, transfers) /\ Parts(transfer, disk, kept, transfers)
      /\ Dirs(transfer, disk, dirs, transfers) /\ consent \subseteq Ids
  BY DEF MediaInv
<1>3. DOMAIN disk = kept \cup stuck \cup transfer.files  BY <1>1, <1>2 DEF Names, Open, Writing
<1>4. transfer.attached # {}  BY <1>1, FS_EmptySet
<1>5. PICK k \in transfer.attached : TRUE  BY <1>4
<1>6. <<transfers, k>> \in DOMAIN disk  BY <1>2, <1>3, <1>5 DEF Names
<1>7. \A d \in dirs : \E n \in DOMAIN disk : n[1] = d
  <2> TAKE d \in dirs
  <2>1. (\E n \in DOMAIN disk : n[1] = d) \/ d = transfers  BY <1>2 DEF Dirs
  <2>2. <<transfers, k>>[1] = transfers  OBVIOUS
  <2>3. QED BY <1>6, <2>1, <2>2
<1>8. \A n \in kept' : ~disk[n].torn /\ disk[n].of = {disk[n].len}  BY <1>1, <1>2 DEF Parts
<1>9. \A n \in DOMAIN disk : n[1] \in dirs  BY <1>2 DEF Dirs
<1>10. DOMAIN disk' = kept' \cup stuck' /\ disk' = disk /\ dirs' = dirs /\ consent' \subseteq Ids
  BY <1>1, <1>2, <1>3
<1>11. QED BY <1>1, <1>7, <1>8, <1>9, <1>10, IdleGood

(* The guard removes what was not kept, or cannot.                         *)
LEMMA DropInv ==
  ASSUME MediaInv, DropGuard
  PROVE  MediaInv'
<1> DEFINE t == transfer
<1>1. /\ t.pc = "done" /\ transfer' = NoTransfer
      /\ (IF t.dir THEN RemoveDir(transfers, DOMAIN disk') ELSE UNCHANGED dirs)
      /\ UNCHANGED <<visible, handle, consent, kept, transfers>>
  BY DEF DropGuard
<1>2. PICK gone \in SUBSET t.files : Removes(t.files, gone)  BY DEF DropGuard
<1>3. PICK lost \in SUBSET (t.files \cap DOMAIN disk) :
            /\ stuck' = stuck \cup lost /\ DOMAIN disk' = (DOMAIN disk \ t.files) \cup lost
            /\ \A n \in DOMAIN disk' : disk'[n] = disk[n]
            /\ (UNCHANGED faults \/ Fault)
  BY <1>2, Removing
<1>4. Names(t, disk, kept, stuck, transfers) /\ Parts(t, disk, kept, transfers)
      /\ Dirs(t, disk, dirs, transfers) /\ consent \subseteq Ids
  BY DEF MediaInv
<1>5. kept \cap t.files = {} /\ stuck \cap t.files = {}  BY <1>1, NewName
<1>6. DOMAIN disk = kept \cup stuck \cup t.files  BY <1>1, <1>4 DEF Names, Open, Writing
<1> HIDE DEF t
<1>7. DOMAIN disk' = kept' \cup stuck' /\ DOMAIN disk' \subseteq DOMAIN disk
  BY <1>1, <1>3, <1>5, <1>6
<1>8. \A n \in t.files : n[1] = transfers  BY <1>4 DEF Names
<1>9. dirs' \subseteq dirs /\ \A d \in dirs : d # transfers => d \in dirs'
  BY <1>1 DEF RemoveDir
<1>10. \A n \in DOMAIN disk' : n[1] \in dirs'
  <2> TAKE n \in DOMAIN disk'
  <2>1. n[1] \in dirs  BY <1>4, <1>7 DEF Dirs
  <2>2. CASE n[1] # transfers  BY <1>9, <2>1, <2>2
  <2>3. CASE n[1] = transfers  BY <1>1, <2>1, <2>3 DEF RemoveDir
  <2>4. QED BY <2>2, <2>3
<1>11. \A d \in dirs' : \E n \in DOMAIN disk' : n[1] = d
  <2> TAKE d \in dirs'
  <2>1. (\E n \in DOMAIN disk : n[1] = d) \/ (t.dir /\ d = transfers)  BY <1>4, <1>9 DEF Dirs
  <2>2. CASE d # transfers  BY <1>3, <1>8, <2>1, <2>2
  <2>3. CASE d = transfers /\ t.dir
    <3>1. dirs' = IF \E n \in DOMAIN disk' : n[1] = transfers THEN dirs ELSE dirs \ {transfers}
      BY <1>1, <2>3 DEF RemoveDir
    <3>2. QED BY <2>3, <3>1
  <2>4. CASE ~t.dir
    <3>1. t.attached = {}  BY <1>4, <2>4 DEF Dirs
    <3>2. t.files = {}  BY <1>4, <3>1 DEF Names
    <3>3. QED BY <1>3, <2>1, <2>4, <3>2
  <2>5. QED BY <2>2, <2>3, <2>4
<1>12. \A n \in kept' : ~disk[n].torn /\ disk[n].of = {disk[n].len}  BY <1>1, <1>4 DEF Parts
<1>13. consent' \subseteq Ids /\ UNCHANGED <<visible, handle, transfers>>  BY <1>1, <1>4
<1>14. QED BY <1>1, <1>3, <1>7, <1>9, <1>10, <1>11, <1>12, <1>13, IdleGood

(* Asking for permission touches no file.                                  *)
LEMMA AskInv ==
  ASSUME MediaInv, transfer.does \in {"authorize", "whatsapp"}, transfer.pc = "next",
         NEW u \in TransferRecord, Step(u), UNCHANGED <<disk, dirs, stuck, faults>>,
         u.pc \in {"next", "done"}, u.does = transfer.does, u.list = transfer.list,
         u.total = transfer.total, u.files = transfer.files, u.dir = transfer.dir,
         u.attached = transfer.attached, u.asked = transfer.asked,
         u.verdict = "denied" => u.refused,
         u.verdict = "allowed" => \A k \in DOMAIN transfer.list : Cleared(transfer, k),
         \/ u.i = transfer.i
         \/ u.i = transfer.i + 1 /\ transfer.does = "authorize" /\ Cleared(transfer, transfer.i)
  PROVE  MediaInv'
<1> DEFINE t == transfer
<1>1. t \in TransferRecord /\ Told(t, consent) /\ Dirs(t, disk, dirs, transfers) /\ t.total = {}
  BY DEF MediaInv, Parts
<1>2. t.i \in Nat /\ u.i \in Nat /\ u.i >= t.i /\ t.list \in Seq(Artifact)
  BY <1>1 DEF TransferRecord, Lists
<1>3. \A k : Cleared(u, k) <=> Cleared(t, k)  BY DEF Cleared
<1>4. t.does = "authorize" => \A k \in DOMAIN t.list : k < u.i => Cleared(t, k)
  <2> SUFFICES ASSUME t.does = "authorize", NEW k \in DOMAIN t.list, k < u.i PROVE Cleared(t, k)
    OBVIOUS
  <2>1. k \in Nat  BY <1>2
  <2>2. k < t.i \/ (k = t.i /\ u.i = t.i + 1)  BY <1>2, <2>1
  <2>3. QED BY <1>1, <1>2, <2>2 DEF Told
<1> HIDE DEF t
<1>5. Told(u, consent)
  <2>1. t.attached = {} /\ ~t.dir  BY <1>1 DEF Told, t
  <2>2. t.pc = "next" /\ t.does \in {"authorize", "whatsapp"}  BY DEF t
  <2>3. u.does = "whatsapp" => Len(u.list) = 1 /\ u.i = 1
    BY <1>1 DEF Told, t
  <2>4. u.does = "authorize" => \A k \in DOMAIN u.list : k < u.i => Cleared(u, k)
    BY <1>3, <1>4 DEF t
  <2>5. u.verdict = "allowed" => \A k \in DOMAIN u.list : Cleared(u, k)  BY <1>3 DEF t
  <2>6. consent \subseteq u.asked  BY <1>1 DEF Told, t
  <2>7. u.attached = {} /\ ~u.dir /\ u.pc \in {"idle", "next", "done"} /\ u.pc # "stream"
    BY <2>1 DEF t
  <2>8. QED BY <2>3, <2>4, <2>5, <2>6, <2>7 DEF Told
<1>6. Dirs(u, disk, dirs', transfers)  BY <1>1 DEF Dirs, Writing, t
<1>7. transfer.pc # "idle" /\ transfer.pc \notin Writing /\ transfer.total = {}
      /\ u.pc \in {"next", "fetch", "done"} /\ u.total = {}
  BY <1>1 DEF Writing, t
<1>8. QED BY <1>2, <1>5, <1>6, <1>7, QuietInv DEF t

(* A verdict ends the call.                                                *)
LEMMA VerdictGood ==
  ASSUME transfer \in TransferRecord, NEW v \in {"allowed", "denied", "invalid", "unavailable"}
  PROVE  LET u == [transfer EXCEPT !.verdict = v, !.pc = "done"]
             w == [transfer EXCEPT !.verdict = v, !.pc = "done", !.refused = TRUE]
         IN  /\ u \in TransferRecord /\ u.verdict = v /\ u.pc = "done" /\ u.does = transfer.does
             /\ u.list = transfer.list /\ u.total = transfer.total /\ u.files = transfer.files
             /\ u.dir = transfer.dir /\ u.attached = transfer.attached
             /\ u.asked = transfer.asked /\ u.i = transfer.i
             /\ w \in TransferRecord /\ w.verdict = v /\ w.pc = "done" /\ w.does = transfer.does
             /\ w.list = transfer.list /\ w.total = transfer.total /\ w.files = transfer.files
             /\ w.dir = transfer.dir /\ w.attached = transfer.attached /\ w.refused = TRUE
             /\ w.asked = transfer.asked /\ w.i = transfer.i
  BY DEF TransferRecord

(* A verdict is founded on what the home answered for every artifact.      *)
LEMMA VerdictInv ==
  ASSUME MediaInv, transfer.does \in {"authorize", "whatsapp"}, transfer.pc = "next",
         NEW v \in {"allowed", "denied", "invalid", "unavailable"},
         (Verdict(v) /\ v # "denied") \/ (Refusal(v) /\ v # "allowed"),
         v = "allowed" => \A k \in DOMAIN transfer.list : Cleared(transfer, k)
  PROVE  MediaInv'
<1> DEFINE u == [transfer EXCEPT !.verdict = v, !.pc = "done"]
           w == [transfer EXCEPT !.verdict = v, !.pc = "done", !.refused = TRUE]
<1>1. transfer \in TransferRecord  BY DEF MediaInv
<1>2. /\ u \in TransferRecord /\ u.verdict = v /\ u.pc = "done" /\ u.does = transfer.does
      /\ u.list = transfer.list /\ u.total = transfer.total /\ u.files = transfer.files
      /\ u.dir = transfer.dir /\ u.attached = transfer.attached
      /\ u.asked = transfer.asked /\ u.i = transfer.i
      /\ w \in TransferRecord /\ w.verdict = v /\ w.pc = "done" /\ w.does = transfer.does
      /\ w.list = transfer.list /\ w.total = transfer.total /\ w.files = transfer.files
      /\ w.dir = transfer.dir /\ w.attached = transfer.attached /\ w.refused = TRUE
      /\ w.asked = transfer.asked /\ w.i = transfer.i
  BY <1>1, VerdictGood
<1>3. CASE Verdict(v) /\ v # "denied"
  <2>1. Step(u) /\ UNCHANGED <<disk, dirs, stuck, faults>>  BY <1>3 DEF Verdict
  <2> HIDE DEF u, w
  <2>2. QED BY <1>2, <1>3, <2>1, AskInv
<1>4. CASE Refusal(v) /\ v # "allowed"
  <2>1. Step(w) /\ UNCHANGED <<disk, dirs, stuck, faults>>  BY <1>4 DEF Refusal
  <2> HIDE DEF u, w
  <2>2. QED BY <1>2, <1>4, <2>1, AskInv
<1>5. QED BY <1>3, <1>4

(* A cleared artifact lets the check go on to the next one.                *)
LEMMA OnwardInv ==
  ASSUME MediaInv, transfer.does = "authorize", transfer.pc = "next", Onward,
         Cleared(transfer, transfer.i)
  PROVE  MediaInv'
<1> DEFINE u == [transfer EXCEPT !.i = @ + 1]
<1>1. transfer \in TransferRecord /\ transfer.i + 1 \in Nat \ {0}
  BY DEF MediaInv, TransferRecord
<1>2. /\ u \in TransferRecord /\ u.verdict = transfer.verdict /\ u.pc = "next"
      /\ u.does = transfer.does /\ u.refused = transfer.refused
      /\ u.list = transfer.list /\ u.total = transfer.total /\ u.files = transfer.files
      /\ u.dir = transfer.dir /\ u.attached = transfer.attached
      /\ u.asked = transfer.asked /\ u.i = transfer.i + 1
  BY <1>1 DEF TransferRecord
<1>3. Step(u) /\ UNCHANGED <<disk, dirs, stuck, faults>>  BY DEF Onward
<1> HIDE DEF u
<1>4. /\ u.verdict = "denied" => u.refused
      /\ u.verdict = "allowed" => \A k \in DOMAIN transfer.list : Cleared(transfer, k)
  BY <1>2 DEF MediaInv, Told
<1>5. QED BY <1>2, <1>3, <1>4, AskInv

(* authorize_delivery asks the home artifact by artifact.                  *)
LEMMA AuthorizeInv ==
  ASSUME MediaInv, Authorized \/ AuthorizeRemote \/ AuthorizeLocal
  PROVE  MediaInv'
<1>1. transfer \in TransferRecord /\ transfer.does = "authorize" /\ transfer.pc = "next"
      /\ Told(transfer, consent)
  BY DEF MediaInv, Authorized, AuthorizeRemote, AuthorizeLocal, Authorizing
<1>2. transfer.list \in Seq(Artifact) /\ transfer.i \in Nat \ {0} /\ consent \subseteq transfer.asked
  BY <1>1 DEF TransferRecord, Lists, Told
<1>3. CASE Authorized
  <2>1. transfer.i > Len(transfer.list) /\ Verdict("allowed")  BY <1>3 DEF Authorized, AllChecked
  <2>2. \A k \in DOMAIN transfer.list : k < transfer.i  BY <1>2, <2>1
  <2>3. \A k \in DOMAIN transfer.list : Cleared(transfer, k)  BY <1>1, <2>2 DEF Told
  <2>4. QED BY <1>1, <2>1, <2>3, VerdictInv
<1>4. ASSUME NEW v \in {"invalid", "unavailable"}, Verdict(v) PROVE MediaInv'
  <2>1. v \in {"allowed", "denied", "invalid", "unavailable"} /\ v # "denied" /\ v # "allowed"
    OBVIOUS
  <2>2. QED BY <1>1, <1>4, <2>1, VerdictInv
<1>5. ASSUME Refusal("denied") PROVE MediaInv'  BY <1>1, <1>5, VerdictInv
<1>6. ASSUME Onward, This.url = "none" \/ This.id \in consent PROVE MediaInv'
  <2>1. Cleared(transfer, transfer.i)  BY <1>2, <1>6 DEF Cleared, This
  <2>2. QED BY <1>1, <1>6, <2>1, OnwardInv
<1>7. CASE AuthorizeRemote
  <2>1. CASE Verdict("invalid")  BY <1>4, <2>1
  <2>2. CASE Verdict("unavailable")  BY <1>4, <2>2
  <2>3. CASE Refusal("denied")  BY <1>5, <2>3
  <2>4. ASSUME NEW a \in Answers(This.id), Decoded(a, 0, 0), Onward PROVE MediaInv'
    <3>1. a.status \in {"refused", "failing"} \cup (IF This.id \in consent THEN {"200", "206"} ELSE {})
      BY DEF Answers
    <3>2. a.status \in {"200", "206"}  BY <2>4 DEF Decoded
    <3>3. This.id \in consent  BY <3>1, <3>2
    <3>4. QED BY <1>6, <2>4, <3>3
  <2>5. \/ Verdict("invalid") \/ Verdict("unavailable") \/ Refusal("denied")
        \/ \E a \in Answers(This.id) : Decoded(a, 0, 0) /\ Onward
    BY <1>7 DEF AuthorizeRemote
  <2>6. QED BY <2>1, <2>2, <2>3, <2>4, <2>5
<1>8. CASE AuthorizeLocal
  <2>1. \/ Verdict("invalid") \/ Verdict("unavailable") \/ Refusal("denied")
        \/ Onward /\ (This.url = "none" \/ This.id \in consent)
    BY <1>8 DEF AuthorizeLocal
  <2>2. QED BY <1>4, <1>5, <1>6, <2>1
<1>9. QED BY <1>3, <1>7, <1>8

(* The check for WhatsApp is a single question.                            *)
LEMMA AuthorizeWhatsAppInv ==
  ASSUME MediaInv, AuthorizeWhatsApp
  PROVE  MediaInv'
<1>1. transfer \in TransferRecord /\ transfer.does = "whatsapp" /\ transfer.pc = "next"
      /\ Told(transfer, consent)
  BY DEF MediaInv, AuthorizeWhatsApp
<1>2. \/ Refusal("denied") \/ Verdict("unavailable")
      \/ This.id \in consent /\ Verdict("allowed")
  BY DEF AuthorizeWhatsApp, FailedCheck
<1>3. CASE Refusal("denied")  BY <1>1, <1>3, VerdictInv
<1>4. CASE Verdict("unavailable")  BY <1>1, <1>4, VerdictInv
<1>5. CASE This.id \in consent /\ Verdict("allowed")
  <2>1. Len(transfer.list) = 1 /\ transfer.i = 1 /\ consent \subseteq transfer.asked
    BY <1>1 DEF Told
  <2>2. transfer.list \in Seq(Artifact)  BY <1>1 DEF TransferRecord, Lists
  <2>3. \A k \in DOMAIN transfer.list : k = 1  BY <2>1, <2>2
  <2>4. \A k \in DOMAIN transfer.list : Cleared(transfer, k)
    BY <1>5, <2>1, <2>3 DEF Cleared, This
  <2>5. QED BY <1>1, <1>5, <2>4, VerdictInv
<1>6. QED BY <1>2, <1>3, <1>4, <1>5

(* A check returns its verdict.                                            *)
LEMMA ReturnInv ==
  ASSUME MediaInv, Return
  PROVE  MediaInv'
<1>1. /\ transfer.pc = "done" /\ transfer.does # "materialize" /\ transfer' = NoTransfer
      /\ UNCHANGED <<visible, handle, dirs, kept, stuck, consent, disk, transfers, faults>>
  BY DEF Return, Cache
<1>2. Told(transfer, consent) /\ Names(transfer, disk, kept, stuck, transfers)
      /\ Parts(transfer, disk, kept, transfers) /\ Dirs(transfer, disk, dirs, transfers)
      /\ consent \subseteq Ids
  BY DEF MediaInv
<1>3. transfer.attached = {} /\ ~transfer.dir  BY <1>1, <1>2 DEF Told
<1>4. transfer.files = {}  BY <1>2, <1>3 DEF Names
<1>5. DOMAIN disk = kept \cup stuck  BY <1>1, <1>2, <1>4 DEF Names, Open, Writing
<1>6. \A d \in dirs : \E n \in DOMAIN disk : n[1] = d  BY <1>2, <1>3 DEF Dirs
<1>7. \A n \in DOMAIN disk : n[1] \in dirs  BY <1>2 DEF Dirs
<1>8. \A n \in kept : ~disk[n].torn /\ disk[n].of = {disk[n].len}  BY <1>2 DEF Parts
<1>9. QED BY <1>1, <1>2, <1>5, <1>6, <1>7, <1>8, IdleGood

(* A call at its beginning, and what is known of it.                       *)
Begun(does, relay, list, C) ==
  [NoTransfer EXCEPT !.does = does, !.relay = relay, !.list = list, !.asked = C, !.pc = "next"]

Fresh(u, does, list, C) ==
  /\ u \in TransferRecord /\ u.does = does /\ u.list = list /\ u.asked = C
  /\ u.pc = "next" /\ u.i = 1 /\ u.total = {} /\ u.files = {} /\ u.attached = {}
  /\ u.dir = FALSE /\ u.verdict = "none"

(* A call begins with nothing attached and nothing decided.                *)
LEMMA BeginGood ==
  ASSUME NEW does, does \in {"materialize", "authorize", "whatsapp"}, NEW relay, relay \in BOOLEAN,
         NEW list \in Lists, NEW C \in SUBSET Ids
  PROVE  Fresh(Begun(does, relay, list, C), does, list, C)
<1> DEFINE v == [NoTransfer EXCEPT !.does = does, !.relay = relay, !.list = list]
<1>1. /\ v \in TransferRecord /\ v.does = does /\ v.list = list
      /\ v.i = 1 /\ v.total = {} /\ v.files = {} /\ v.attached = {}
      /\ v.dir = FALSE /\ v.verdict = "none"
  BY NoTransferGood DEF TransferRecord
<1>2. Begun(does, relay, list, C) = [v EXCEPT !.asked = C, !.pc = "next"]  BY DEF Begun
<1> HIDE DEF v
<1>3. QED BY <1>1, <1>2 DEF TransferRecord, Fresh

(* A call begins.                                                          *)
LEMMA BeginInv ==
  ASSUME MediaInv, NEW does \in {"materialize", "authorize", "whatsapp"}, NEW relay \in BOOLEAN,
         NEW list \in ArtifactLists, Begin(does, relay, list)
  PROVE  MediaInv'
<1> DEFINE u == Begun(does, relay, list, consent)
<1>1. /\ transfer = NoTransfer /\ transfers < MaxCalls /\ (does = "whatsapp" => Len(list) = 1)
      /\ transfers' = transfers + 1 /\ transfer' = u
      /\ UNCHANGED <<visible, handle, dirs, kept, stuck, consent, disk, faults>>
  BY DEF Begin, Cache, Begun
<1>2. /\ u \in TransferRecord /\ u.does = does /\ u.list = list /\ u.asked = consent
      /\ u.pc = "next" /\ u.i = 1 /\ u.total = {} /\ u.files = {} /\ u.attached = {}
      /\ u.dir = FALSE /\ u.verdict = "none"
  <2>1. list \in Lists /\ consent \in SUBSET Ids  BY MediaConstants DEF MediaInv
  <2>2. Fresh(u, does, list, consent)  BY <2>1, BeginGood, Zenon
  <2>3. QED BY <2>2 DEF Fresh
<1> HIDE DEF u
<1>3. NoTransfer.files = {} /\ NoTransfer.pc = "idle" /\ NoTransfer.dir = FALSE  BY NoTransferGood
<1>4. Names(transfer, disk, kept, stuck, transfers) /\ Parts(transfer, disk, kept, transfers)
      /\ Dirs(transfer, disk, dirs, transfers)
  BY DEF MediaInv
<1>5. transfers \in Nat /\ MaxCalls \in Nat /\ transfers' \in 0..MaxCalls /\ transfers' >= 1
      /\ transfers' \in Nat
  BY <1>1, MediaConstants DEF MediaInv
<1>6. DOMAIN disk = kept \cup stuck /\ kept \subseteq DOMAIN disk
  BY <1>1, <1>3, <1>4 DEF Names, Open, Writing
<1>7. Told(u, consent)
  <2>1. list \in Seq(Artifact)  BY MediaConstants DEF Lists
  <2>2. \A k \in DOMAIN list : k \in Nat /\ ~(k < 1)  BY <2>1
  <2>3. QED BY <1>1, <1>2, <2>2 DEF Told
<1>8. \A n \in DOMAIN disk : n[1] \in Nat /\ n[1] < transfers' /\ n[1] # transfers'
                             /\ n \in (1..transfers') \X Nat
  <2> TAKE n \in DOMAIN disk
  <2>1. n \in (1..transfers) \X Nat  BY <1>4 DEF Names
  <2>2. 1..transfers \subseteq 1..transfers'  BY <1>1, <1>5
  <2>3. n[1] \in 1..transfers  BY <2>1
  <2>4. n[1] \in Nat /\ n[1] < transfers'  BY <1>1, <1>5, <2>3
  <2>5. QED BY <2>1, <2>2, <2>4, <1>5
<1>9. Names(u, disk, kept, stuck, transfers')
  <2>1. DOMAIN disk = kept \cup stuck \cup u.files \cup Open(u, transfers')
    BY <1>2, <1>6 DEF Open, Writing
  <2>2. \A n \in DOMAIN disk : n \in (1..transfers') \X Nat /\ disk[n] \in File
                               /\ disk[n].len <= MaxBytes
    BY <1>4, <1>8 DEF Names
  <2>3. u.files = {<<transfers', k>> : k \in u.attached} /\ \A k \in u.attached : k < u.i  BY <1>2
  <2>4. /\ \A n \in kept : n[1] < transfers'
        /\ \A n \in stuck : n[1] = transfers' => n[2] < u.i /\ n \notin u.files
    BY <1>6, <1>8
  <2>5. QED BY <1>5, <2>1, <2>2, <2>3, <2>4 DEF Names
<1>10. Parts(u, disk, kept, transfers')  BY <1>2, <1>4 DEF Parts
<1>11. Dirs(u, disk, dirs, transfers')
  <2>1. dirs \subseteq 1..transfers'  BY <1>1, <1>4, <1>5 DEF Dirs
  <2>2. QED BY <1>1, <1>2, <1>3, <1>4, <2>1 DEF Dirs, Writing
<1>12. u.pc # "idle"  BY <1>2
<1>13. QED BY <1>1, <1>2, <1>5, <1>7, <1>9, <1>10, <1>11, <1>12 DEF MediaInv

(* A home may withdraw its consent at any time.                            *)
LEMMA WithdrawnInv ==
  ASSUME MediaInv, NEW id, ConsentWithdrawn(id)
  PROVE  MediaInv'
<1>1. /\ consent' \subseteq consent
      /\ UNCHANGED <<visible, handle, dirs, kept, stuck, disk, transfer, transfers, faults>>
  BY DEF ConsentWithdrawn, Cache
<1>2. Told(transfer, consent')  BY <1>1 DEF MediaInv, Told
<1>3. QED BY <1>1, <1>2 DEF MediaInv

(* The cache root is created, opened, or replaced by somebody else.        *)
LEMMA RootInv ==
  ASSUME MediaInv, CreateRoot \/ OpenRoot \/ RootReplaced
  PROVE  MediaInv'
<1>1. /\ UNCHANGED <<consent, disk, dirs, kept, stuck, transfer, transfers>>
      /\ (UNCHANGED faults \/ Fault)
  BY DEF CreateRoot, OpenRoot, RootReplaced
<1>2. visible' \in {"none", "ours", "other", "link"} /\ handle' \in {{}, {"ours"}, {"other"}}
  BY DEF CreateRoot, OpenRoot, RootReplaced, MediaInv
<1>3. faults' \in 0..MaxFaults  BY <1>1, FaultsGood
<1>4. QED BY <1>1, <1>2, <1>3 DEF MediaInv

(* The cache is empty at first.                                            *)
LEMMA MediaInvInit == MediaInit => MediaInv
<1> SUFFICES ASSUME MediaInit PROVE MediaInv  OBVIOUS
<1>1. /\ visible \in {"none", "ours", "link"} /\ handle = {}
      /\ consent = Ids /\ disk = <<>> /\ dirs = {} /\ kept = {} /\ stuck = {}
      /\ transfer = NoTransfer /\ transfers = 0 /\ faults = 0
  BY DEF MediaInit
<1> DEFINE u == NoTransfer
<1>2. /\ u \in TransferRecord /\ u.pc = "idle" /\ u.does = "nothing" /\ u.files = {}
      /\ u.attached = {} /\ u.verdict = "none" /\ u.dir = FALSE
  BY NoTransferGood
<1>3. DOMAIN disk = {}  BY <1>1
<1>4. transfers \in 0..MaxCalls /\ faults \in 0..MaxFaults  BY <1>1, MediaConstants
<1> HIDE DEF u
<1>5. Told(u, consent)  BY <1>2 DEF Told
<1>6. Names(u, disk, kept, stuck, transfers)  BY <1>1, <1>2, <1>3 DEF Names, Open, Writing
<1>7. Parts(u, disk, kept, transfers)  BY <1>1, <1>2 DEF Parts
<1>8. Dirs(u, disk, dirs, transfers)  BY <1>1, <1>2, <1>3 DEF Dirs, Writing
<1>9. transfer = u  BY <1>1 DEF u
<1>10. QED BY <1>1, <1>2, <1>4, <1>5, <1>6, <1>7, <1>8, <1>9 DEF MediaInv, u

(* Every step keeps the invariant.                                         *)
LEMMA MediaInvNext == MediaInv /\ [MediaNext]_mediaVars => MediaInv'
<1> SUFFICES ASSUME MediaInv, [MediaNext]_mediaVars PROVE MediaInv'  OBVIOUS
<1>1. CASE CreateRoot \/ OpenRoot \/ RootReplaced  BY <1>1, RootInv
<1>2. ASSUME NEW does \in {"materialize", "authorize", "whatsapp"}, NEW relay \in BOOLEAN,
             NEW list \in ArtifactLists, Begin(does, relay, list)
      PROVE  MediaInv'
  BY <1>2, BeginInv
<1>3. CASE Progress
  <2>1. CASE RangeFails \/ StreamFails
    <3>1. Materializing /\ transfer.pc \in Writing \cup {"fetch"} /\ ArtifactFails /\ UNCHANGED dirs
      BY <2>1 DEF RangeFails, StreamFails, Writing
    <3>2. QED BY <3>1, FailsInv
  <2>2. CASE PrepareArtifact \/ DownloadRemote \/ RangeRequest \/ RangeArrives \/ GetLocal
    BY <2>2, PrepareInv, DownloadInv, RangeRequestInv, RangeArrivesInv, GetLocalInv
  <2>3. CASE StreamArrives \/ StreamEnds \/ FinishBatch \/ KeepAttachment \/ DropGuard
    BY <2>3, StreamArrivesInv, StreamEndsInv, FinishInv, KeepInv, DropInv
  <2>4. CASE Authorized \/ AuthorizeRemote \/ AuthorizeLocal  BY <2>4, AuthorizeInv
  <2>5. CASE AuthorizeWhatsApp \/ Return  BY <2>5, AuthorizeWhatsAppInv, ReturnInv
  <2>6. QED BY <1>3, <2>1, <2>2, <2>3, <2>4, <2>5 DEF Progress
<1>4. ASSUME NEW id \in Ids, ConsentWithdrawn(id) PROVE MediaInv'  BY <1>4, WithdrawnInv
<1>5. CASE UNCHANGED mediaVars
  <2>1. /\ visible' = visible /\ handle' = handle /\ consent' = consent /\ disk' = disk
        /\ dirs' = dirs /\ kept' = kept /\ stuck' = stuck /\ transfer' = transfer
        /\ transfers' = transfers /\ faults' = faults
    BY <1>5 DEF mediaVars
  <2>2. QED BY <2>1 DEF MediaInv
<1>6. QED BY <1>1, <1>2, <1>3, <1>4, <1>5, Zenon DEF MediaNext

(* Hence it always holds.                                                  *)
LEMMA MediaInvariance == MediaSpec => []MediaInv
<1>1. MediaInit => MediaInv  BY MediaInvInit
<1>2. MediaInv /\ [MediaNext]_mediaVars => MediaInv'  BY MediaInvNext
<1>3. QED BY <1>1, <1>2, PTL DEF MediaSpec

(* An attachment is the whole of one medium and within the limit, and      *)
(* between two calls the cache holds nothing but what the ledger keeps and *)
(* what could not be removed: whatever the home answers, however media     *)
(* change between two ranges, and whoever replaces the cache's path.       *)
THEOREM CacheStaysSound == MediaSpec => []CacheIsSound
<1>1. MediaInv => CacheIsSound
  <2> SUFFICES ASSUME MediaInv PROVE CacheIsSound  OBVIOUS
  <2>1. Names(transfer, disk, kept, stuck, transfers) /\ Parts(transfer, disk, kept, transfers)
        /\ Dirs(transfer, disk, dirs, transfers) /\ transfer \in TransferRecord
    BY DEF MediaInv
  <2>2. transfer.pc \in {"idle", "next", "fetch", "range", "asked", "stream", "done"}
        /\ transfer.verdict \in {"none", "allowed", "denied", "invalid", "unavailable"}
    BY <2>1 DEF TransferRecord
  <2>3. \A n \in DOMAIN disk : n \in (1..transfers) \X Nat /\ disk[n] \in File
                               /\ disk[n].len <= MaxBytes
    BY <2>1 DEF Names
  <2>4. kept \subseteq DOMAIN disk /\ transfer.files \subseteq DOMAIN disk /\ dirs \subseteq 1..transfers
    BY <2>1 DEF Names, Dirs
  <2>5. MediaTypeOK  BY <2>2, <2>3, <2>4 DEF MediaTypeOK, MediaInv
  <2>6. FilesAreWhole  BY <2>1, <2>4 DEF FilesAreWhole, Parts
  <2>7. DiskIsBounded  BY <2>3 DEF DiskIsBounded
  <2>8. CacheIsClean
    <3> SUFFICES ASSUME transfer = NoTransfer
                 PROVE  DOMAIN disk = kept \cup stuck /\ dirs = {n[1] : n \in DOMAIN disk}
      BY DEF CacheIsClean
    <3>1. transfer.files = {} /\ transfer.pc = "idle" /\ transfer.dir = FALSE  BY NoTransferGood
    <3>2. DOMAIN disk = kept \cup stuck  BY <2>1, <3>1 DEF Names, Open, Writing
    <3>3. dirs = {n[1] : n \in DOMAIN disk}  BY <2>1, <3>1 DEF Dirs
    <3>4. QED BY <3>2, <3>3
  <2>9. QED BY <2>5, <2>6, <2>7, <2>8 DEF CacheIsSound
<1>2. QED BY <1>1, MediaInvariance, PTL

(* Nothing is sent or attached without the home's consent when the call    *)
(* began, and no outage is taken for a refusal.                            *)
THEOREM VerdictsStayFounded == MediaSpec => []VerdictsAreFounded
<1>1. MediaInv => VerdictsAreFounded
  BY DEF MediaInv, Told, Cleared, VerdictsAreFounded, NothingWithoutConsent, OutageIsNoRefusal
<1>2. QED BY <1>1, MediaInvariance, PTL
=============================================================================
