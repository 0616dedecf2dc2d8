----------------------------- MODULE CloudRelay -----------------------------
(***************************************************************************)
(* The client of the Cloud relay (cloud_relay.rs): a call to a home's      *)
(* device is one exchange with HarborCloud, posted under one request id,   *)
(* polled, published again when the device may have missed it, and given   *)
(* up when its time is over.  HarborCloud, the message broker and the      *)
(* device are external: they are modelled from what the client expects of  *)
(* them and from the answers it checks.                                    *)
(*                                                                         *)
(* Time is counted in ticks; the constants keep the order of the code's    *)
(* durations, not their values.                                            *)
(***************************************************************************)
EXTENDS Integers, FiniteSets

CONSTANTS
    Calls,          \* the calls made, each once
    Uses,           \* what each call may be: [Calls -> set of
                    \* <<operation, expected_hub_identity, whether the request is well formed>>]
    Ttl,            \* [operations -> ticks]
    OldHub, NewHub, \* the identities of the device before and after its replacement
    NoIdentity,
    NoCall,
    Republish,      \* a pending exchange is posted again after this long (2 s)
    Skew,           \* HarborCloud's clock minus ours
    MaxTime,        \* bound on the clock
    MaxOpen,        \* bound on the calls that overlap: the client keeps nothing between them
    MaxFaults       \* bound on what goes wrong outside of the client

Identities == {OldHub, NewHub}

ASSUME RelayAssumptions ==
    /\ Republish \in Nat /\ MaxTime \in Nat \ {0} /\ MaxFaults \in Nat
    /\ Skew \in Int
    /\ \A c \in Calls : \A u \in Uses[c] : Ttl[u[1]] \in Nat \ {0} /\ u[2] \in Identities \cup {NoIdentity}
    /\ OldHub # NewHub /\ NoIdentity \notin Identities /\ NoCall \notin Calls

VARIABLES
    now,
    call,       \* [Calls -> the state of `exchange`]
    wire,       \* HTTP requests that have not arrived
    exchanges,  \* HarborCloud's exchanges
    published,  \* ids of the exchanges the broker carries to the device
    ran,        \* what devices did: one record per exchange and device
    hub,        \* the identity of the device that is connected
    revoked,    \* when the home withdrew its permission, or {}
    faults      \* what went wrong so far

vars == <<now, call, wire, exchanges, published, ran, hub, revoked, faults>>
cloud == <<exchanges, published, ran, hub, revoked>>

Fault == faults < MaxFaults /\ faults' = faults + 1

Idle == [pc |-> "idle", op |-> "", pin |-> NoIdentity, began |-> 0, end |-> 0, accepted |-> FALSE, deadline |-> {},
         identity |-> NoIdentity, publish |-> TRUE, posted |-> 0, reply |-> {}, result |-> {}]

Operation(c) == call[c].op
Pin(c) == call[c].pin

RelayInit ==
    /\ now = 1 /\ call = [c \in Calls |-> Idle]
    /\ wire = {}
    /\ exchanges = {} /\ published = {} /\ ran = {}
    /\ hub = OldHub /\ revoked = {} /\ faults = 0

-----------------------------------------------------------------------------
(* The client. *)

\* A post that nobody waits for any more may still arrive.
Abandoned(c) ==
    {r \in wire : r.call # c \/ ~r.live}
        \cup {[r EXCEPT !.live = FALSE] : r \in {x \in wire : x.call = c /\ x.post}}

\* A call ends with an error code, or with the device's answer.
Failed(code) == [code |-> code, from |-> NoIdentity, status |-> 0]
Ended(c, result) ==
    [Idle EXCEPT !.pc = "done", !.op = call[c].op, !.pin = call[c].pin, !.began = call[c].began,
                 !.identity = call[c].identity, !.result = {result}]
End(c, result) ==
    /\ call' = [call EXCEPT ![c] = Ended(c, result)]
    /\ wire' = Abandoned(c)

\* All attempts of a call carry the id it was given.
RequestIdPerAttempt(c) == <<c, now>>
RequestId(c) == c

\* A request is well formed when the hub id, the body and the sizes are, and a
\* turn is of WhatsApp.  Media and notifications need a client that is bound
\* to one device.
NeedsPin == {"mediaArtifact", "notificationOutbox", "notificationReceipt"}
Invalid(op, pin, fits) == ~fits \/ (op \in NeedsPin /\ pin = NoIdentity)
Begin(c, op, pin, fits) ==
    /\ call[c].pc = "idle"
    /\ now + Ttl[op] < MaxTime
    /\ Cardinality({d \in Calls : call[d].pc \notin {"idle", "done"}}) < MaxOpen
    /\ call' = [call EXCEPT ![c] =
         IF Invalid(op, pin, fits)
         THEN [Idle EXCEPT !.pc = "done", !.op = op, !.result = {Failed("VALIDATION")}]
         ELSE [Idle EXCEPT !.pc = "ready", !.op = op, !.pin = pin, !.began = now,
                           !.end = now + Ttl[op], !.identity = pin, !.posted = now]]
    /\ UNCHANGED <<now, wire, cloud, faults>>

\* The loop's head posts until the exchange is accepted and again when the
\* last post is old, and polls otherwise.
Posts(c) == ~call[c].accepted \/ now - call[c].posted >= Republish

\* The credentials are loaded and the request is signed and sent.  While there
\* are none that last long enough, the loop comes back here after its pause:
\* that is a Request that is not taken yet.
Request(c) ==
    /\ call[c].pc = "ready"
    /\ call' = [call EXCEPT ![c].pc = "waiting", ![c].publish = Posts(c)]
    /\ wire' = wire \cup {[call |-> c, id |-> RequestId(c), post |-> Posts(c),
                          pin |-> Pin(c), live |-> TRUE]}
    /\ UNCHANGED <<now, cloud, faults>>

\* The connection fails or is timed out.
TransportFails(c) ==
    /\ call[c].pc = "waiting"
    /\ call' = [call EXCEPT ![c].pc = "ready", ![c].reply = {}]
    /\ wire' = Abandoned(c)
    /\ Fault
    /\ UNCHANGED <<now, cloud>>

\* What is checked of a receipt before it is believed.
MixedAnyHub(c, a) ==
    \/ a.id # RequestId(c) \/ a.deadline <= now \/ call[c].deadline \notin {{}, {a.deadline}}
Mixed(c, a) ==
    \/ call[c].identity \notin {NoIdentity, a.identity}
    \/ a.id # RequestId(c)
    \/ a.deadline <= now
    \/ call[c].deadline \notin {{}, {a.deadline}}

\* A notification's answer is only used when the device succeeded.
Answered(c, a) ==
    IF Operation(c) \in {"notificationOutbox", "notificationReceipt"} /\ a.status # 200
    THEN Failed("NAVI_RELAY_UNAVAILABLE")
    ELSE [code |-> "OK", from |-> a.from, status |-> a.status]

ReceiveBusy(c, a) ==
    /\ a.kind = "busy"
    /\ call' = [call EXCEPT ![c].pc = "ready", ![c].reply = {}]
    /\ UNCHANGED wire
ReceiveError(c, a) ==
    /\ a.kind \in {"oversize", "changed", "refused"}
    /\ End(c, Failed(CASE a.kind = "oversize" -> "NAVI_RELAY_INVALID_RESPONSE"
                       [] a.kind = "changed" -> "NAVI_IDENTITY_CHANGED"
                       [] a.kind = "refused" -> "NAVI_RELAY_UNAVAILABLE"))
ReceiveMixed(c, a) ==
    /\ a.kind \in {"pending", "complete"}
    /\ Mixed(c, a)
    /\ End(c, Failed("NAVI_RELAY_UNAVAILABLE"))
ReceivePending(c, a) ==
    /\ a.kind = "pending" /\ ~Mixed(c, a)
    /\ call' = [call EXCEPT ![c] =
         [@ EXCEPT !.pc = "ready", !.reply = {}, !.identity = a.identity,
                   !.deadline = {a.deadline}, !.accepted = TRUE,
                   !.posted = IF call[c].publish THEN now ELSE call[c].posted]]
    /\ UNCHANGED wire
ReceiveComplete(c, a) ==
    /\ a.kind = "complete" /\ ~Mixed(c, a)
    /\ End(c, Answered(c, a))
Receive(c) ==
    /\ call[c].pc = "waiting"
    /\ \E a \in call[c].reply :
         \/ ReceiveBusy(c, a) \/ ReceiveError(c, a) \/ ReceiveMixed(c, a)
         \/ ReceivePending(c, a) \/ ReceiveComplete(c, a)
    /\ UNCHANGED <<now, cloud, faults>>

\* One deadline covers the credentials, the requests and the pauses.
TimeoutOfWait(c) ==
    /\ call[c].pc = "waiting"
    /\ now >= call[c].end
    /\ End(c, Failed("NAVI_RELAY_UNAVAILABLE"))
    /\ UNCHANGED <<now, cloud, faults>>
Timeout(c) ==
    /\ call[c].pc \notin {"idle", "done"}
    /\ now >= call[c].end
    /\ End(c, Failed("NAVI_RELAY_UNAVAILABLE"))
    /\ UNCHANGED <<now, cloud, faults>>

-----------------------------------------------------------------------------
(* HarborCloud, the broker and the device.  A request or a message that is lost
   is one that never arrives. *)

Reply(r, a) ==
    call' = IF r.live THEN [call EXCEPT ![r.call].reply = {a}] ELSE call
Plain(kind) == [kind |-> kind, id |-> NoCall, identity |-> NoIdentity, deadline |-> 0,
                from |-> NoIdentity, status |-> 0]
Receipt(e) == [kind |-> IF e.result = {} THEN "pending" ELSE "complete", id |-> e.id,
               identity |-> e.identity, deadline |-> e.deadline, from |-> e.from,
               status |-> IF e.result = {} THEN 0 ELSE CHOOSE s \in e.result : TRUE]

Arrives(r) == r \in wire /\ wire' = wire \ {r}

\* The first post makes the exchange; later ones carry it to the device again,
\* whichever is connected then.  A post that is pinned to another is refused.
CloudPost(r) ==
    /\ Arrives(r) /\ r.post
    /\ LET known == {e \in exchanges : e.id = r.id}
           new == [id |-> r.id, call |-> r.call, identity |-> hub, result |-> {},
                   deadline |-> now + Skew + Ttl[Operation(r.call)], from |-> NoIdentity]
           old == CHOOSE x \in known : TRUE
           e == IF known = {} THEN new
                ELSE IF old.result = {} THEN [old EXCEPT !.identity = hub] ELSE old
       IN IF r.pin \notin {NoIdentity, hub}
          THEN Reply(r, Plain("changed")) /\ UNCHANGED <<exchanges, published>>
          ELSE /\ exchanges' = (exchanges \ known) \cup {e}
               /\ published' = IF e.result = {} THEN published \cup {r.id} ELSE published
               /\ Reply(r, Receipt(e))
    /\ UNCHANGED <<now, ran, hub, revoked, faults>>

CloudGet(r) ==
    /\ Arrives(r) /\ ~r.post
    /\ LET known == {e \in exchanges : e.id = r.id}
       IN IF known = {} THEN Reply(r, Plain("refused"))
          ELSE Reply(r, Receipt(CHOOSE e \in known : TRUE))
    /\ UNCHANGED <<now, cloud, faults>>

\* Overload, a refusal, or an answer that is too long.
CloudErrs(r) ==
    /\ Arrives(r) /\ r.live
    /\ \E kind \in {"busy", "refused", "oversize"} : Reply(r, Plain(kind))
    /\ Fault
    /\ UNCHANGED <<now, cloud>>

\* The device runs an exchange once and repeats its answer; the answer may be
\* lost on its way back.
Run(id) == [id |-> id, by |-> hub, status |-> IF revoked = {} THEN 200 ELSE 403,
            call |-> (CHOOSE e \in exchanges : e.id = id).call]
Did(id) ==
    LET before == {x \in ran : x.id = id /\ x.by = hub}
    IN  IF before = {} THEN Run(id) ELSE CHOOSE x \in before : TRUE
DeviceRuns(id, answers) ==
    /\ id \in published
    /\ published' = published \ {id}
    /\ \E e \in exchanges :
         /\ e.id = id /\ e.identity = hub
         /\ ran' = ran \cup {Did(id)}
         /\ exchanges' = IF ~answers THEN exchanges
              ELSE (exchanges \ {e}) \cup {[e EXCEPT !.result = {Did(id).status}, !.from = hub]}
    /\ IF answers THEN UNCHANGED faults ELSE Fault
    /\ UNCHANGED <<now, call, wire, hub, revoked>>

\* HarborCloud loses an exchange it had made earlier.
CloudForgets(e) ==
    /\ e \in exchanges
    /\ e.deadline < now + Skew + Ttl[Operation(e.call)]
    /\ exchanges' = exchanges \ {e}
    /\ Fault
    /\ UNCHANGED <<now, call, wire, published, ran, hub, revoked>>

HubReplaced ==
    /\ hub = OldHub
    /\ hub' = NewHub
    /\ UNCHANGED <<now, call, wire, exchanges, published, ran, revoked, faults>>

PermissionRevoked ==
    /\ revoked = {}
    /\ revoked' = {now}
    /\ Fault
    /\ UNCHANGED <<now, call, wire, exchanges, published, ran, hub>>

Tick ==
    /\ now < MaxTime /\ \E c \in Calls : call[c].pc # "done"
    /\ now' = now + 1
    /\ UNCHANGED <<call, wire, cloud, faults>>

Done == (\A c \in Calls : call[c].pc \in {"idle", "done"}) /\ UNCHANGED vars

Client(c) ==
    \/ \E u \in Uses[c] : Begin(c, u[1], u[2], u[3])
    \/ Request(c) \/ TransportFails(c) \/ Receive(c) \/ Timeout(c)
CloudSteps ==
    \/ \E r \in wire : CloudPost(r) \/ CloudGet(r) \/ CloudErrs(r)
    \/ \E id \in published : \E answers \in BOOLEAN : DeviceRuns(id, answers)
    \/ \E e \in exchanges : CloudForgets(e)
    \/ HubReplaced \/ PermissionRevoked

Next == (\E c \in Calls : Client(c)) \/ CloudSteps \/ Tick \/ Done

\* Time passes and timers fire; nothing is assumed of the network, of
\* HarborCloud or of the device.
Fairness == WF_vars(Tick) /\ \A c \in Calls : WF_vars(Timeout(c))
Spec == RelayInit /\ [][Next]_vars /\ Fairness

-----------------------------------------------------------------------------
(* Properties. *)

Result(c) == CHOOSE r \in call[c].result : TRUE
HasAnswer(c) == call[c].result # {} /\ Result(c).code = "OK"

\* Shapes of the state that the client keeps for a call.
RelayTypeOK ==
    /\ now \in 1..MaxTime
    /\ \A c \in Calls :
         /\ call[c].pc \in {"idle", "ready", "waiting", "done"}
         /\ call[c].pc = "done" <=> call[c].result # {}
         /\ call[c].reply # {} => call[c].pc = "waiting"
         /\ call[c].identity \in Identities \cup {NoIdentity}

\* The answer a call returns was given by the device it is pinned to and, when
\* it is not pinned, by the device that every receipt of the call has named:
\* identity is compared in `exchange` also between the receipts of one call.
AnswerFromOneHub ==
    \A c \in Calls : HasAnswer(c) =>
        /\ Pin(c) # NoIdentity => Result(c).from = Pin(c)
        /\ call[c].identity # NoIdentity => Result(c).from = call[c].identity

\* Lost requests, lost answers, timeouts of the connection and the republish
\* of a pending exchange never make a device do the call's work twice: the
\* device knows the exchange again by its request id.
TurnRunsOnce ==
    \A c \in Calls, h \in Identities : Cardinality({x \in ran : x.call = c /\ x.by = h}) <= 1

\* An allowed delivery authorization was decided by the device after the call
\* began: permission that was withdrawn before is never overruled by an
\* earlier receipt ("a previous allowed receipt cannot satisfy a later check").
AuthorizationIsFresh ==
    \A c \in Calls :
        (HasAnswer(c) /\ Operation(c) = "deliveryAuthorization" /\ Result(c).status = 200)
            => \A t \in revoked : t >= call[c].began

\* No answer is used after the deadline HarborCloud set for it, and a call
\* whose exchange was made anew under another deadline is not answered.
AnswerInTime ==
    [][\A c \in Calls : (~HasAnswer(c) /\ HasAnswer(c)') =>
          \A a \in call[c].reply : /\ now < a.deadline
                                   /\ call[c].deadline \in {{}, {a.deadline}}]_vars

\* What a call returns is the current word of the home it was made to.
AnswersAreCurrent ==
    /\ [](RelayTypeOK /\ AnswerFromOneHub /\ AuthorizationIsFresh)
    /\ AnswerInTime

\* Every call returns, whatever the network, HarborCloud, the device and the
\* other calls do: the initial time budget is never extended.
EveryCallReturns == \A c \in Calls : (call[c].pc # "idle") ~> (call[c].pc = "done")
=============================================================================
