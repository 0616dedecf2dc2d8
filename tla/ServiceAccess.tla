---------------------------- MODULE ServiceAccess ----------------------------
(***************************************************************************)
(* Who may call the gateway (server.rs, harboros_auth.rs): the service     *)
(* tokens it is started with, the calls of HarborBeacon that carry one,    *)
(* and the requests it forwards to HarborBeacon on behalf of a HarborOS    *)
(* administrator, of the local network or of nobody.  A path is its kind,  *)
(* the camera it names, whether it is spelled canonically, and its query.  *)
(* HarborOS and HarborBeacon are external.  Requests share no state: one   *)
(* at a time.                                                              *)
(***************************************************************************)
EXTENDS Naturals

CONSTANTS
    GoodTokens,  \* tokens of the required form
    PathCameras,
    OddCameras   \* those among them whose decoded id is too long, or has a
                 \* control character, a ? or a #

\* Tokens of any kind: none, malformed, well formed.
Tokens == GoodTokens \cup {"", "malformed"}

VARIABLES
    config,   \* {} until the gateway is started, then the configuration it accepted
    call,     \* the request that is served
    login,    \* the login of that request at HarborOS
    heard     \* what HarborOS answered to that login

accessVars == <<config, call, login, heard>>

NoCall == [pc |-> "idle", kind |-> "", method |-> "", camera |-> "", query |-> "", bearer |-> "",
           token |-> "none", principal |-> {}, outcome |-> ""]
AccessInit == config = {} /\ call = NoCall /\ login = "none" /\ heard = {}

-----------------------------------------------------------------------------
(* Start-up. *)

\* valid_service_token: length and alphabet.
ValidServiceToken(t) == t \in GoodTokens
ValidateRequiredServiceAuth(c) ==
    /\ ValidServiceToken(c.token)
    /\ c.previous # "" => ValidServiceToken(c.previous) /\ c.previous # c.token
    /\ c.beacon => /\ ValidServiceToken(c.web)
                   /\ c.client = c.web
                   /\ c.web # c.token

Serve(c) ==
    /\ config = {}
    /\ ValidateRequiredServiceAuth(c)
    /\ config' = {c}
    /\ UNCHANGED <<call, login, heard>>

-----------------------------------------------------------------------------
(* Calls of HarborBeacon: a turn, a notification, a status request. *)

Config == CHOOSE c \in config : TRUE
End(outcome) == call' = [call EXCEPT !.pc = "ended", !.outcome = outcome]

ServiceTokenMatchesAny(actual, expected) == actual = expected
ServiceTokenMatches(actual, expected) == actual # "" /\ expected # "" /\ actual = expected

RequireServiceAuth(bearer) ==
    ServiceTokenMatches(bearer, Config.token) \/ ServiceTokenMatches(bearer, Config.previous)
RequireServiceContract(version) == version = "current"
\* A turn may leave the version out, or be of the earlier contract.
RequireGatewayTurnContract(version) == version \in {"", "current", "legacy"}

Service(kind, version, bearer) ==
    /\ config # {} /\ call.pc = "idle"
    /\ call' = [NoCall EXCEPT !.pc = "ended", !.kind = kind, !.bearer = bearer, !.outcome =
         IF ~(IF kind = "turn" THEN RequireGatewayTurnContract(version)
                               ELSE RequireServiceContract(version))
         THEN "CONTRACT_VERSION_MISMATCH"
         ELSE IF ~RequireServiceAuth(bearer) THEN "SERVICE_AUTH_FAILED"
         ELSE "served"]
    /\ UNCHANGED <<config, login, heard>>

-----------------------------------------------------------------------------
(* Requests that are forwarded. *)

ControlKinds == {"control", "preview"}

\* Paths that steer a camera must be spelled canonically.  The check of the
\* camera id in them (is_safe_detection_control_camera_id) takes odd ones.
Canonical(kind, canonical) == kind \in ControlKinds => canonical

\* Identity parameters are dropped from the query; only others remain.
SanitizedBeaconQuery(query) == IF query = "identity" THEN "" ELSE query

\* detection_control_camera_id, unlike that check, knows no odd camera.
IsDetectionControl(kind, camera) == kind \in ControlKinds /\ camera \notin OddCameras

RequiresHarborOsPrincipal(method, kind, camera) ==
    \/ kind \in {"dlna", "jobs"}
    \/ kind = "preview" /\ IsDetectionControl(kind, camera) /\ method = "POST"
    \/ kind = "observation" /\ method = "GET"
    \/ IsDetectionControl(kind, camera) /\ method \in {"GET", "PUT"}
    \/ kind = "search" /\ method = "POST"
    \/ kind = "conversations" /\ method = "GET"
    \/ kind = "settings" /\ method = "PATCH"
    \/ kind = "conversation" /\ method \in {"GET", "DELETE"}

Lan(role, camera) == [source |-> "harbornavi-lan", role |-> role, scope |-> {camera}]
Admin == [source |-> "harboros", role |-> "FULL_ADMIN", scope |-> {}]

\* Without a HarborOS token: one camera's detection, nothing else.  The path
\* of a preview is compared with its query.
LanPrincipal(c) ==
    IF IsDetectionControl(c.kind, c.camera)
       /\ (c.method \in {"GET", "PUT"}
             \/ (c.method = "POST" /\ c.kind = "preview" /\ c.query = ""))
    THEN {Lan("CAMERA_CONTROL", c.camera)}
    ELSE IF c.method = "GET" /\ c.kind = "observation" THEN {Lan("CAMERA_VIEW", c.camera)}
    ELSE {}

\* The request up to the point where it waits, for HarborOS or for HarborBeacon.
Forward(c, principal) == [c EXCEPT !.pc = "forwarding", !.principal = principal]
Fail(c, outcome) == [c EXCEPT !.pc = "ended", !.outcome = outcome]
ProxyBeaconRequest(c) ==
    IF ~Config.beacon THEN Fail(c, "HARBORBEACON_DISABLED")
    ELSE IF Config.web = "" THEN Fail(c, "HARBORBEACON_SERVICE_AUTH_UNAVAILABLE")
    ELSE IF ~RequiresHarborOsPrincipal(c.method, c.kind, c.camera) THEN Forward(c, {})
    ELSE IF c.token = "blank" THEN Fail(c, "HARBOROS_AUTH_FAILED")
    ELSE IF c.token = "sent" THEN [c EXCEPT !.pc = "login"]
    ELSE IF LanPrincipal(c) = {} THEN Fail(c, "HARBOROS_AUTH_FAILED")
    ELSE Forward(c, LanPrincipal(c))

Proxy(method, kind, camera, canonical, query, token) ==
    /\ config # {} /\ call.pc = "idle"
    /\ LET c == [NoCall EXCEPT !.kind = kind, !.method = method, !.camera = camera,
                               !.query = SanitizedBeaconQuery(query), !.token = token]
       IN call' = IF Canonical(kind, canonical) THEN ProxyBeaconRequest(c)
                  ELSE Fail(c, "VALIDATION")
    /\ login' = IF call'.pc = "login" THEN "connecting" ELSE "none"
    /\ heard' = {}
    /\ UNCHANGED config

\* The login at HarborOS: one connection, one request, the answer with its id.
Connect ==
    /\ login = "connecting"
    /\ login' = "sent"
    /\ UNCHANGED <<config, call, heard>>

\* principal_from_login_response
LoginFailure(answer) ==
    CASE answer \in {"AUTH_ERR", "EXPIRED"} -> "HARBOROS_AUTH_FAILED"
      [] answer = "DENIED" -> "HARBOROS_ACCESS_DENIED"
      [] answer = "no webui" -> "HARBOROS_WEBUI_ACCESS_REQUIRED"
      [] answer = "no admin" -> "HARBOROS_FULL_ADMIN_REQUIRED"
      [] answer \in {"other type", "error", "close", "garbage"} -> "HARBOROS_AUTH_UNAVAILABLE"
Refusals == {"AUTH_ERR", "EXPIRED", "DENIED", "no webui", "no admin", "other type",
             "error", "close", "garbage"}

LoginWaived(c, outcome) == Forward(c, {})   \* mutant: goes on for nobody

\* When HarborOS cannot be asked, the request is refused.
LoginFailed(c, outcome) == Fail(c, outcome)

IsOurs(ours) == ours
\* Answers to other requests, pings and pongs are skipped.
Hear(answer, ours) ==
    /\ login = "sent"
    /\ heard' = IF ours THEN heard \cup {answer} ELSE heard
    /\ IF answer = "ping" \/ (answer \notin {"close", "garbage"} /\ ~IsOurs(ours))
       THEN UNCHANGED <<call, login>>
       ELSE /\ login' = "none"
            /\ call' = IF answer = "SUCCESS" THEN Forward(call, {Admin})
                       ELSE LoginFailed(call, LoginFailure(answer))
    /\ UNCHANGED config

LoginUnreachable ==
    /\ login # "none"
    /\ login' = "none"
    /\ call' = LoginFailed(call, "HARBOROS_AUTH_UNAVAILABLE")
    /\ UNCHANGED <<config, heard>>

\* Five seconds for the whole login.
AuthTimeout ==
    /\ login # "none"
    /\ login' = "none"
    /\ call' = LoginFailed(call, "HARBOROS_AUTH_UNAVAILABLE")
    /\ UNCHANGED <<config, heard>>

\* HarborBeacon answers, or cannot be reached.
BeaconAnswers(outcome) ==
    /\ call.pc = "forwarding"
    /\ End(outcome)
    /\ UNCHANGED <<config, login, heard>>

Finish ==
    /\ call.pc = "ended"
    /\ call' = NoCall /\ heard' = {}
    /\ UNCHANGED <<config, login>>

Configs == [token : Tokens, previous : Tokens, beacon : BOOLEAN, web : Tokens, client : Tokens]
Methods == {"GET", "PUT", "POST", "PATCH", "DELETE"}
Kinds == {"dlna", "jobs", "control", "preview", "observation", "search", "conversations",
          "settings", "conversation", "other"}
AccessNext ==
    \/ \E c \in Configs : Serve(c)
    \/ \E kind \in {"turn", "notification"}, version \in {"", "current", "legacy", "other"},
          bearer \in Tokens : Service(kind, version, bearer)
    \/ \E method \in Methods, kind \in Kinds, camera \in PathCameras, canonical \in BOOLEAN,
          query \in {"", "identity", "plain"}, token \in {"none", "blank", "sent"} :
             Proxy(method, kind, camera, canonical, query, token)
    \/ Connect \/ LoginUnreachable \/ AuthTimeout \/ Finish
    \/ \E answer \in Refusals \cup {"SUCCESS", "ping"}, ours \in BOOLEAN : Hear(answer, ours)
    \/ \E outcome \in {"answered", "UNREACHABLE"} : BeaconAnswers(outcome)

\* Timers fire and finished requests end; HarborOS and HarborBeacon owe nothing.
AccessFairness == WF_accessVars(AuthTimeout)

AccessSpec == AccessInit /\ [][AccessNext]_accessVars

-----------------------------------------------------------------------------
(* Properties. *)

\* A service call is only served to a caller that shows a well-formed token of
\* the configuration: while no token is being rotated out, showing none does
\* not match the empty previous token.
ServiceCallsAreKnown ==
    call.outcome = "served" =>
        call.bearer \in GoodTokens \cap {Config.token, Config.previous}

\* A request that shows a HarborOS token goes on as that administrator or not at
\* all: a login that failed, timed out, or whose answer was meant for another
\* request never lets it through, and it never falls back to the local network.
LoginDecides ==
    (call.pc = "forwarding" /\ call.token = "sent" /\ call.principal # {}) =>
        /\ call.principal = {Admin}
        /\ "SUCCESS" \in heard

\* What is forwarded for the local network is confined to the camera of its path,
\* and the paths of the household's library, jobs and conversations are never
\* forwarded for it.
LanIsConfined ==
    call.pc = "forwarding" =>
        \A p \in call.principal : p.source = "harbornavi-lan" =>
            /\ call.kind \in {"control", "preview", "observation"}
            /\ p.scope = {call.camera}
            /\ p.role = "CAMERA_CONTROL" <=> call.kind \in ControlKinds

\* What is asked of the household (its media server, jobs, searches, settings
\* and conversations, what a camera saw) and what steers a camera.
Personal == ({"dlna", "jobs"} \X Methods)
            \cup {<<"search", "POST">>, <<"conversations", "GET">>, <<"settings", "PATCH">>,
                  <<"conversation", "GET">>, <<"conversation", "DELETE">>,
                  <<"observation", "GET">>}
Steering == (ControlKinds \X {"GET", "PUT"}) \cup {<<"preview", "POST">>}

\* Of these nothing is forwarded for nobody, whatever became of a login that was
\* begun for it; except that a camera whose id only the first of the two checks
\* takes is steered without a principal.  All other requests go on for nobody.
NobodyGetsTheRest ==
    call.pc = "forwarding" /\ call.principal = {} =>
        /\ <<call.kind, call.method>> \notin Personal
        /\ <<call.kind, call.method>> \in Steering => call.camera \in OddCameras

\* A service call is served only to a known caller; a request of the household
\* is forwarded only for an administrator who logged in, or for the LAN and its
\* one camera; what is forwarded for nobody is none of these, odd camera ids
\* aside (proxy_beacon_request).
AccessIsFounded ==
    ServiceCallsAreKnown /\ LoginDecides /\ LanIsConfined /\ NobodyGetsTheRest

\* A login ends, however much HarborOS sends that is not its answer.
LoginEnds == login # "none" ~> login = "none"
=============================================================================
