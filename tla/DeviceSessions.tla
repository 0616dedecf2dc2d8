--------------------------- MODULE DeviceSessions ---------------------------
(***************************************************************************)
(* Pairing codes and device sessions (device_session.rs) and the handlers  *)
(* that serve them (server.rs).  The state is one file that the server's   *)
(* requests and the command that issues codes change under a file lock:    *)
(* read, change, replace.  Secrets are numbers; the file keeps their       *)
(* digests, which are as different as the secrets are.                     *)
(***************************************************************************)
EXTENDS Naturals, FiniteSets

CONSTANTS
    Requests,    \* requests that run at the same time
    CameraOf,    \* the camera that each code is issued for
    PairingTtl, SessionTtl,
    MaxTime,     \* bound on the clock
    MaxCodes,    \* bound on the codes issued
    MaxTokens,   \* bound on the exchanges
    MaxFailures  \* bound on the writes that fail and the crashes

Cameras == {CameraOf[c] : c \in 1..MaxCodes}

ASSUME SessionAssumptions ==
    /\ PairingTtl \in Nat \ {0} /\ SessionTtl \in Nat \ {0}
    /\ MaxTime \in Nat /\ MaxCodes \in Nat /\ MaxTokens \in Nat /\ MaxFailures \in Nat

VARIABLES
    clock,
    file,     \* device-sessions.json: its pairings and sessions
    holder,   \* the request that holds the lock for writing, or {}
    req,      \* [Requests -> what the request is doing]
    codes,    \* codes given out so far, with what they are for
    tokens,   \* number of tokens made so far
    handed,   \* tokens that reached a browser, with the code they came from
    out,      \* tokens whose logout was answered
    failures

sessionVars == <<clock, file, holder, req, codes, tokens, handed, out, failures>>

NoRequest == [pc |-> "idle", op |-> "", arg |-> 0, token |-> 0, camera |-> "", at |-> 0, late |-> FALSE,
              copy |-> {}, granted |-> {}]
SessionInit ==
    /\ clock = 0 /\ file = [pairings |-> {}, sessions |-> {}] /\ holder = {}
    /\ req = [r \in Requests |-> NoRequest]
    /\ codes = {} /\ tokens = 0 /\ handed = {} /\ out = {} /\ failures = 0

-----------------------------------------------------------------------------
(* What the operations do to the contents of the file. *)

LiveCode(p, at) == ~p.consumed /\ p.expires > at
IssuePairing(f, q) ==
    [f EXCEPT !.pairings =
        {p \in @ : LiveCode(p, q.at)}
            \cup {[code |-> q.arg, camera |-> q.camera, expires |-> q.at + PairingTtl,
                   consumed |-> FALSE]}]

\* A code is used up by the exchange; sessions that ended are swept.
ExchangeableAgain(f, q) == {p \in f.pairings : p.expires > q.at /\ p.code = q.arg}
Exchangeable(f, q) == {p \in f.pairings : LiveCode(p, q.at) /\ p.code = q.arg}

Exchange(f, q, p, token) ==
    [pairings |-> (f.pairings \ {p}) \cup {[p EXCEPT !.consumed = TRUE]},
     sessions |-> {s \in f.sessions : s.expires > q.at /\ ~s.revoked}
                    \cup {[token |-> token, camera |-> p.camera,
                           expires |-> q.at + SessionTtl, revoked |-> FALSE]}]

\* Sessions a token opens, for a request that read the clock at `at`.
Current(f, token, at) == {s \in f.sessions : ~s.revoked /\ s.expires > at /\ s.token = token}

Revocable(f, token) == {s \in f.sessions : ~s.revoked /\ s.token = token}
Revoke(f, s) == [f EXCEPT !.sessions = (@ \ {s}) \cup {[s EXCEPT !.revoked = TRUE]}]

-----------------------------------------------------------------------------
(* The requests. *)

\* The clock is read before the lock is asked for.
Start(r, op, arg, camera) ==
    /\ req[r].pc = "idle"
    /\ req' = [req EXCEPT ![r] = [NoRequest EXCEPT !.pc = "waiting", !.op = op, !.arg = arg,
                                  !.camera = camera, !.at = clock, !.late = arg \in out]]
    /\ UNCHANGED <<clock, file, holder, handed, out>>

StartIssue(r) ==
    /\ Cardinality(codes) < MaxCodes
    /\ LET code == Cardinality(codes) + 1
       IN /\ Start(r, "issue", code, CameraOf[code])
          /\ codes' = codes \cup {[code |-> code, expires |-> clock + PairingTtl,
                                   known |-> FALSE, used |-> FALSE]}
    /\ UNCHANGED <<tokens, failures>>
StartExchange(r, code) ==
    /\ tokens < MaxTokens
    /\ Start(r, "exchange", code, "")
    /\ UNCHANGED <<codes, tokens, failures>>
StartWithCookie(r, op, token) ==
    /\ Start(r, op, token, "")
    /\ UNCHANGED <<codes, tokens, failures>>

\* `current` reads under the shared lock.
Read(r) ==
    /\ req[r].pc = "waiting" /\ req[r].op = "status"
    /\ holder = {}
    /\ LET found == Current(file, req[r].arg, req[r].at)
       IN req' = [req EXCEPT ![r].pc = "answered",
                             ![r].granted = {s.camera : s \in found}]
    /\ UNCHANGED <<clock, file, holder, codes, tokens, handed, out, failures>>
Respond(r) ==
    /\ req[r].pc = "answered"
    /\ req' = [req EXCEPT ![r] = NoRequest]
    /\ UNCHANGED <<clock, file, holder, codes, tokens, handed, out, failures>>

\* `with_locked_state` waits for the lock and loads the file; an operation that
\* refuses ends here.
Changed(q) ==
    CASE q.op = "issue" -> {IssuePairing(file, q)}
      [] q.op = "exchange" -> {Exchange(file, q, p, tokens + 1) : p \in Exchangeable(file, q)}
      [] q.op = "logout" -> {Revoke(file, s) : s \in Revocable(file, q.arg)}
LockIsFree == holder = {}

Lock(r) ==
    /\ req[r].pc = "waiting" /\ req[r].op # "status"
    /\ LockIsFree
    /\ Changed(req[r]) # {}
    /\ holder' = {r}
    /\ req' = [req EXCEPT ![r].pc = "locked", ![r].copy = Changed(req[r]), ![r].token = tokens + 1]
    /\ tokens' = IF req[r].op = "exchange" THEN tokens + 1 ELSE tokens
    /\ UNCHANGED <<clock, file, codes, handed, out, failures>>

\* What the answer tells the caller.  A logout is confirmed also when there was
\* no session to end.
ConfirmsAlways(q, error) == q.op = "logout"
Confirms(q, error) == q.op = "logout" /\ error \in {"", "InvalidSession"}

Answer(r, error) ==
    LET q == req[r]
    IN  /\ handed' = IF q.op = "exchange" /\ error = "" THEN handed \cup {q.token} ELSE handed
        /\ out' = IF Confirms(q, error) THEN out \cup {q.arg} ELSE out
        /\ req' = [req EXCEPT ![r] = NoRequest]
NotFound(r) ==
    /\ req[r].pc = "waiting" /\ req[r].op # "status"
    /\ LockIsFree
    /\ Changed(req[r]) = {}
    /\ Answer(r, IF req[r].op = "logout" THEN "InvalidSession" ELSE "InvalidPairing")
    /\ UNCHANGED <<clock, file, holder, codes, tokens, failures>>

\* What became of the codes, for the properties.
Noted(q, error) ==
    {IF c.code # q.arg THEN c
     ELSE [c EXCEPT !.known = @ \/ (q.op = "issue" /\ error = ""), !.used = @ \/ q.op = "exchange"]
        : c \in codes}

\* The file is replaced and the lock given back.
Persist(r) ==
    /\ req[r].pc = "locked"
    /\ file' \in req[r].copy
    /\ holder' = {}
    /\ codes' = Noted(req[r], "")
    /\ Answer(r, "")
    /\ UNCHANGED <<clock, tokens, failures>>

\* The write fails, or only setting the permissions of the new file does.
PersistFails(r, written) ==
    /\ req[r].pc = "locked"
    /\ failures < MaxFailures /\ failures' = failures + 1
    /\ file' \in IF written THEN req[r].copy ELSE {file}
    /\ holder' = {}
    /\ codes' = IF written THEN Noted(req[r], "Unavailable") ELSE codes
    /\ Answer(r, "Unavailable")
    /\ UNCHANGED <<clock, tokens>>

\* The server dies with all its requests, or the command that issues a code
\* does: the operating system drops the lock, and the file is whole.
Crash(command) ==
    LET gone == {r \in Requests : req[r].pc # "idle" /\ (req[r].op = "issue" <=> command)}
    IN  /\ gone # {}
        /\ failures < MaxFailures /\ failures' = failures + 1
        /\ req' = [r \in Requests |-> IF r \in gone THEN NoRequest ELSE req[r]]
        /\ holder' = holder \ gone
        /\ UNCHANGED <<clock, file, codes, tokens, handed, out>>

SessionTick ==
    /\ clock < MaxTime
    /\ clock' = clock + 1
    /\ UNCHANGED <<file, holder, req, codes, tokens, handed, out, failures>>

ServeRequest(r) == Read(r) \/ Respond(r) \/ Lock(r) \/ NotFound(r) \/ Persist(r)
SessionNext ==
    \/ \E r \in Requests :
         \/ StartIssue(r)
         \/ \E c \in codes : c.known /\ StartExchange(r, c.code)
         \/ \E token \in handed : \E op \in {"status", "logout"} : StartWithCookie(r, op, token)
         \/ ServeRequest(r)
         \/ \E written \in BOOLEAN : PersistFails(r, written)
    \/ \E command \in BOOLEAN : Crash(command)
    \/ SessionTick

\* Requests are served on.  Codes and exchanges are bounded, so the lock is free
\* from some time on, and a request that waits for it gets it.
SessionFairness == \A r \in Requests : WF_sessionVars(ServeRequest(r))

SessionSpec == SessionInit /\ [][SessionNext]_sessionVars

-----------------------------------------------------------------------------
(* Properties. *)

\* Shapes of the file and of the requests.
SessionTypeOK ==
    /\ clock \in 0..MaxTime /\ Cardinality(holder) <= 1
    /\ \A r \in Requests : /\ req[r].pc \in {"idle", "waiting", "locked", "answered"}
                           /\ req[r].pc = "locked" <=> req[r].copy # {}
                           /\ req[r].pc = "locked" => r \in holder
    /\ \A p \in file.pairings : p.camera \in Cameras /\ p.expires <= clock + PairingTtl
    /\ \A s \in file.sessions : s.camera \in Cameras /\ s.expires <= clock + SessionTtl

\* A code that was given to somebody, is still good and was not exchanged is in
\* the file: no other request's rewrite of the file loses it.
IssuedCodeIsUsable ==
    \A c \in codes :
        (c.known /\ ~c.used /\ c.expires > clock) => \E p \in file.pairings : p.code = c.code

\* A code opens the camera it was issued for, in its time, and only one session.
SessionsFollowCodes ==
    [][\A s \in file.sessions' \ file.sessions :
         ~s.revoked =>
            \E p \in file.pairings :
                /\ ~p.consumed /\ p.camera = s.camera
                /\ s.expires - SessionTtl < p.expires
                /\ \E p2 \in file.pairings' : p2.code = p.code /\ p2.consumed]_sessionVars

\* Once a logout was answered, no request that begins later is let in with its
\* token, whatever else rewrites the file meanwhile.
LogoutIsFinal == \A r \in Requests : req[r].late => req[r].granted = {}

\* Pairing and logout keep their word over interleaved rewrites of the one
\* session file: a code that was handed out works, a logout is for good.
SessionsAreSound == SessionTypeOK /\ IssuedCodeIsUsable /\ LogoutIsFinal

\* Who is let in with a token holds a session of the file that had not ended
\* when the request came.
SessionsEnd ==
    [][\A r \in Requests : (req[r].pc = "waiting" /\ req'[r].pc = "answered") =>
          \A camera \in req'[r].granted :
             \E s \in file.sessions : s.token = req[r].arg /\ s.camera = camera
                                      /\ req[r].at < s.expires]_sessionVars

\* A session begins with a code that is used up by it, and opens nothing after
\* its time.
SessionsAreEarned == SessionsFollowCodes /\ SessionsEnd

\* Every request is answered, or ended by a crash: nobody keeps the lock.
RequestsEnd == \A r \in Requests : req[r].pc # "idle" ~> req[r].pc = "idle"
=============================================================================
