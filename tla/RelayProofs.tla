----------------------------- MODULE RelayProofs -----------------------------
(***************************************************************************)
(* The Cloud relay client makes a device do a call's work at most once and *)
(* returns only the current word of the home, for all calls, operations,   *)
(* time limits and clock skews, and however many things go wrong outside.  *)
(*                                                                         *)
(* The argument follows a request id from the call to the request on the   *)
(* wire, the exchange, the run on the device, the receipt and the result:  *)
(* at each place the id is the call's own, the device that answers is the  *)
(* one the receipt names, and a success was decided after the call began.  *)
(***************************************************************************)
EXTENDS CloudRelay, FiniteSetTheorems, TLAPS

(* What goes over the wire.                                                *)
Known    == Identities \cup {NoIdentity}
Statuses == {0, 200, 403}

ReplyRecord ==
  [kind : {"busy", "oversize", "changed", "refused", "pending", "complete"},
   id : Calls \cup {NoCall}, identity : Known, deadline : Int, from : Known, status : Statuses]

ResultRecord ==
  [code : {"OK", "VALIDATION", "NAVI_RELAY_INVALID_RESPONSE", "NAVI_IDENTITY_CHANGED",
           "NAVI_RELAY_UNAVAILABLE"}, from : Known, status : Statuses]

Operations == {""} \cup UNION {{u[1] : u \in Uses[c]} : c \in Calls}

CallRecord ==
  [pc : {"idle", "ready", "waiting", "done"}, op : Operations, pin : Known, began : Nat,
   end : Nat, accepted : BOOLEAN, deadline : SUBSET Int, identity : Known, publish : BOOLEAN,
   posted : Nat, reply : SUBSET ReplyRecord, result : SUBSET ResultRecord]

RequestRecord == [call : Calls, id : Calls, post : BOOLEAN, pin : Known, live : BOOLEAN]

ExchangeRecord ==
  [id : Calls, call : Calls, identity : Identities, result : {{}, {200}, {403}},
   deadline : Int, from : Known]

RunRecord == [id : Calls, by : Identities, status : {200, 403}, call : Calls]

(* The inductive invariant, place by place, for the time n and the time R  *)
(* of the revocation.  A call is good when what it was told, and what it   *)
(* returns, comes from the device it is bound to and is not older than it. *)
Fresh(q, R) == \A t \in R : t >= q.began

(* A reply that carries a result is of the call's own exchange, and a      *)
(* success in it was decided after the call began.                         *)
GoodReply(q, a, R) ==
  /\ a.kind \in {"pending", "complete"} => a.identity \in Identities
  /\ a.kind = "complete" => a.from = a.identity /\ (a.status = 200 => Fresh(q, R))

(* What a call returned came from the device it was bound to, and a        *)
(* success is fresh.                                                       *)
GoodResult(q, x, R) ==
  x.code = "OK" =>
    /\ x.from \in Identities
    /\ q.identity # NoIdentity => x.from = q.identity
    /\ x.status = 200 => Fresh(q, R)

(* What is known of a call.                                                *)
GoodCall(q, n, R) ==
  /\ q.pc = "done" <=> q.result # {}
  /\ q.reply # {} => q.pc = "waiting"
  /\ q.pc # "idle" => q.began <= n /\ Ttl[q.op] \in Nat
  /\ q.pin # NoIdentity => q.identity = q.pin
  /\ \A a \in q.reply : GoodReply(q, a, R)
  /\ \A a, b \in q.reply : a = b
  /\ \A x \in q.result : GoodResult(q, x, R)
  /\ \A x, y \in q.result : x = y

(* All calls are good.                                                     *)
CallsInv ==
  /\ now \in 1..MaxTime /\ hub \in Identities /\ revoked \in SUBSET Nat
  /\ call \in [Calls -> CallRecord]
  /\ \A c \in Calls : GoodCall(call[c], now, revoked)

(* Only a call that waits, and was not answered, has a live request, and   *)
(* only one.                                                               *)
WireInv ==
  /\ wire \subseteq RequestRecord
  /\ \A r \in wire : /\ r.id = r.call /\ call[r.call].pc # "idle"
                     /\ r.live => call[r.call].pc = "waiting" /\ call[r.call].reply = {}
  /\ \A r, s \in wire : r.live /\ s.live /\ r.call = s.call => r = s

(* An exchange is that of its call, and a result in it is the device's     *)
(* own.                                                                    *)
GoodExchange(e, q, R) ==
  /\ e.id = e.call /\ q.pc # "idle"
  /\ e.result # {} => e.from = e.identity
  /\ 200 \in e.result => Fresh(q, R)

(* All exchanges are good.                                                 *)
ExchangesInv ==
  /\ exchanges \subseteq ExchangeRecord
  /\ \A e \in exchanges : GoodExchange(e, call[e.call], revoked)

(* A device knows an exchange again by its id.                             *)
RunsInv ==
  /\ ran \subseteq RunRecord
  /\ \A x \in ran : /\ x.id = x.call /\ call[x.call].pc # "idle"
                    /\ x.status = 200 => Fresh(call[x.call], revoked)
  /\ \A x, y \in ran : x.id = y.id /\ x.by = y.by => x = y

(* The inductive invariant.                                                *)
RelayInv == CallsInv /\ WireInv /\ ExchangesInv /\ RunsInv

-----------------------------------------------------------------------------
(* What is assumed of the constants.                                       *)
LEMMA Constants ==
  /\ MaxTime \in Nat /\ MaxTime > 0 /\ Skew \in Int /\ NoIdentity \notin Identities
  /\ NoCall \notin Calls /\ OldHub \in Identities /\ NewHub \in Identities
  /\ \A c \in Calls : \A u \in Uses[c] :
       Ttl[u[1]] \in Nat /\ u[2] \in Known /\ u[1] \in Operations
<1>1. \A c \in Calls : \A u \in Uses[c] : u[1] \in Operations
  <2> SUFFICES ASSUME NEW c \in Calls, NEW u \in Uses[c]  PROVE u[1] \in Operations
    OBVIOUS
  <2>1. u[1] \in {v[1] : v \in Uses[c]}  OBVIOUS
  <2>2. QED BY <2>1 DEF Operations
<1>2. QED BY <1>1, RelayAssumptions DEF Identities, Known

(* Before a call there is nothing to answer.                               *)
LEMMA IdleGood == Idle \in CallRecord /\ Idle.pc = "idle" /\ Idle.pin = NoIdentity
                  /\ Idle.result = {} /\ Idle.reply = {} /\ Idle.began = 0
  BY DEF Idle, CallRecord, Operations, Known

(* A call goes back to the head of its loop.                               *)
LEMMA ReadyGood ==
  ASSUME NEW q \in CallRecord, NEW n, NEW R, GoodCall(q, n, R), q.pc = "waiting"
  PROVE  LET p == [q EXCEPT !.pc = "ready", !.reply = {}]
         IN  /\ p \in CallRecord /\ GoodCall(p, n, R)
             /\ p.pc = "ready" /\ p.began = q.began /\ p.op = q.op /\ p.reply = {}
<1> DEFINE p == [q EXCEPT !.pc = "ready", !.reply = {}]
<1>1. /\ p \in CallRecord /\ p.pc = "ready" /\ p.began = q.began /\ p.op = q.op /\ p.reply = {}
      /\ p.result = q.result /\ p.pin = q.pin /\ p.identity = q.identity
  BY DEF CallRecord
<1> HIDE DEF p
<1>2. GoodCall(p, n, R)  BY <1>1 DEF GoodCall, GoodResult, Fresh
<1>3. QED BY <1>1, <1>2 DEF p

(* A request is sent.                                                      *)
LEMMA WaitingGood ==
  ASSUME NEW q \in CallRecord, NEW n, NEW R, GoodCall(q, n, R), q.pc = "ready",
         NEW publish \in BOOLEAN
  PROVE  LET p == [q EXCEPT !.pc = "waiting", !.publish = publish]
         IN  /\ p \in CallRecord /\ GoodCall(p, n, R)
             /\ p.pc = "waiting" /\ p.began = q.began /\ p.op = q.op /\ p.reply = {}
<1> DEFINE p == [q EXCEPT !.pc = "waiting", !.publish = publish]
<1>1. /\ p \in CallRecord /\ p.pc = "waiting" /\ p.began = q.began /\ p.op = q.op
      /\ p.reply = q.reply /\ p.result = q.result /\ p.pin = q.pin /\ p.identity = q.identity
  BY DEF CallRecord
<1> HIDE DEF p
<1>2. p.reply = {}  BY <1>1 DEF GoodCall
<1>3. GoodCall(p, n, R)  BY <1>1, <1>2 DEF GoodCall, GoodResult, Fresh
<1>4. QED BY <1>1, <1>2, <1>3 DEF p

(* A receipt reaches the call.                                             *)
LEMMA ReplyGood ==
  ASSUME NEW q \in CallRecord, NEW n, NEW R, GoodCall(q, n, R), q.pc = "waiting",
         NEW a \in ReplyRecord, GoodReply(q, a, R)
  PROVE  LET p == [q EXCEPT !.reply = {a}]
         IN  /\ p \in CallRecord /\ GoodCall(p, n, R)
             /\ p.pc = "waiting" /\ p.began = q.began /\ p.op = q.op
<1> DEFINE p == [q EXCEPT !.reply = {a}]
<1>1. /\ p \in CallRecord /\ p.pc = "waiting" /\ p.began = q.began /\ p.op = q.op
      /\ p.reply = {a} /\ p.result = q.result /\ p.pin = q.pin /\ p.identity = q.identity
  BY DEF CallRecord
<1> HIDE DEF p
<1>2. GoodCall(p, n, R)  BY <1>1 DEF GoodCall, GoodResult, GoodReply, Fresh
<1>3. QED BY <1>1, <1>2 DEF p

(* A call ends.                                                            *)
LEMMA EndedGood ==
  ASSUME NEW c, call[c] \in CallRecord, NEW n, NEW R, GoodCall(call[c], n, R),
         call[c].pc # "idle", NEW x \in ResultRecord, GoodResult(call[c], x, R)
  PROVE  /\ Ended(c, x) \in CallRecord /\ GoodCall(Ended(c, x), n, R)
         /\ Ended(c, x).pc = "done" /\ Ended(c, x).began = call[c].began
         /\ Ended(c, x).op = call[c].op /\ Ended(c, x).reply = {}
<1> DEFINE q == call[c]
           i == [Idle EXCEPT !.pc = "done", !.op = q.op, !.pin = q.pin]
           p == [i EXCEPT !.began = q.began, !.identity = q.identity, !.result = {x}]
<1>1. /\ q.op \in Operations /\ q.pin \in Known /\ q.began \in Nat /\ q.identity \in Known
  BY DEF CallRecord
<1>2. i \in CallRecord /\ i.pc = "done" /\ i.op = q.op /\ i.pin = q.pin /\ i.reply = {}
  BY <1>1, IdleGood DEF CallRecord
<1>3. Ended(c, x) = p  BY Zenon DEF Ended, Idle
<1> HIDE DEF i
<1>4. /\ p \in CallRecord /\ p.pc = "done" /\ p.op = q.op /\ p.pin = q.pin /\ p.reply = {}
      /\ p.began = q.began /\ p.identity = q.identity /\ p.result = {x}
  BY <1>1, <1>2 DEF CallRecord
<1> HIDE DEF p
<1>5. GoodCall(p, n, R)  BY <1>4 DEF GoodCall, GoodResult, Fresh
<1>6. QED BY <1>3, <1>4, <1>5

Accepted(q, a, posted) ==
  [q EXCEPT !.pc = "ready", !.reply = {}, !.identity = a.identity,
            !.deadline = {a.deadline}, !.accepted = TRUE, !.posted = posted]

(* The exchange is accepted: the call is bound to the device and the       *)
(* deadline that its receipt names.                                        *)
LEMMA PendingGood ==
  ASSUME NEW q \in CallRecord, NEW n, NEW R, GoodCall(q, n, R), q.pc = "waiting",
         NEW a \in ReplyRecord, a.identity \in Identities, q.identity \in {NoIdentity, a.identity},
         NEW posted \in Nat
  PROVE  LET p == Accepted(q, a, posted)
         IN  /\ p \in CallRecord /\ GoodCall(p, n, R)
             /\ p.pc = "ready" /\ p.began = q.began /\ p.op = q.op /\ p.reply = {}
<1> DEFINE i == [q EXCEPT !.pc = "ready", !.reply = {}, !.identity = a.identity]
           p == [i EXCEPT !.deadline = {a.deadline}, !.accepted = TRUE, !.posted = posted]
<1>1. a.identity \in Known /\ {a.deadline} \in SUBSET Int  BY DEF ReplyRecord
<1>2. /\ i \in CallRecord /\ i.pc = "ready" /\ i.reply = {} /\ i.identity = a.identity
      /\ i.began = q.began /\ i.op = q.op /\ i.pin = q.pin /\ i.result = q.result
  BY <1>1 DEF CallRecord
<1>3. p = Accepted(q, a, posted)  BY Zenon DEF Accepted
<1> HIDE DEF i
<1>4. /\ p \in CallRecord /\ p.pc = "ready" /\ p.reply = {} /\ p.identity = a.identity
      /\ p.began = q.began /\ p.op = q.op /\ p.pin = q.pin /\ p.result = q.result
  BY <1>1, <1>2 DEF CallRecord
<1> HIDE DEF p
<1>5. q.result = {}  BY DEF GoodCall
<1>6. GoodCall(p, n, R)  BY <1>4, <1>5, Constants DEF GoodCall
<1>7. QED BY <1>3, <1>4, <1>6

(* A call begins, or is refused for its form.                              *)
LEMMA BegunGood ==
  ASSUME NEW op \in Operations, NEW pin \in Known, Ttl[op] \in Nat, NEW n \in Nat, NEW R
  PROVE  LET p == [Idle EXCEPT !.pc = "ready", !.op = op, !.pin = pin, !.began = n,
                               !.end = n + Ttl[op], !.identity = pin, !.posted = n]
         IN  p \in CallRecord /\ GoodCall(p, n, R) /\ p.pc = "ready"
<1> DEFINE i == [Idle EXCEPT !.pc = "ready", !.op = op, !.pin = pin]
           j == [i EXCEPT !.began = n, !.end = n + Ttl[op]]
           p == [j EXCEPT !.identity = pin, !.posted = n]
<1>1. i \in CallRecord /\ i.pc = "ready" /\ i.op = op /\ i.pin = pin /\ i.reply = {} /\ i.result = {}
  BY IdleGood DEF CallRecord
<1>2. p = [Idle EXCEPT !.pc = "ready", !.op = op, !.pin = pin, !.began = n,
                       !.end = n + Ttl[op], !.identity = pin, !.posted = n]
  BY Zenon DEF Idle
<1> HIDE DEF i
<1>3. n + Ttl[op] \in Nat  OBVIOUS
<1>4. j \in CallRecord /\ j.pc = "ready" /\ j.op = op /\ j.pin = pin /\ j.reply = {} /\ j.result = {}
      /\ j.began = n
  BY <1>1, <1>3 DEF CallRecord
<1> HIDE DEF j
<1>5. p \in CallRecord /\ p.pc = "ready" /\ p.op = op /\ p.pin = pin /\ p.reply = {} /\ p.result = {}
      /\ p.began = n /\ p.identity = pin
  BY <1>4 DEF CallRecord
<1> HIDE DEF p
<1>6. GoodCall(p, n, R)  BY <1>5 DEF GoodCall
<1>7. QED BY <1>2, <1>5, <1>6

(* A call that fails its validation returns at once.                       *)
LEMMA RefusedGood ==
  ASSUME NEW op \in Operations, Ttl[op] \in Nat, NEW n \in Nat, NEW R
  PROVE  LET p == [Idle EXCEPT !.pc = "done", !.op = op, !.result = {Failed("VALIDATION")}]
         IN  p \in CallRecord /\ GoodCall(p, n, R) /\ p.pc = "done"
<1> DEFINE x == Failed("VALIDATION")
           p == [Idle EXCEPT !.pc = "done", !.op = op, !.result = {x}]
<1>1. x \in ResultRecord /\ x.code = "VALIDATION"
  BY DEF Failed, ResultRecord, Known, Statuses
<1> HIDE DEF x
<1>2. p \in CallRecord /\ p.pc = "done" /\ p.op = op /\ p.pin = NoIdentity /\ p.reply = {}
      /\ p.result = {x} /\ p.began = 0
  BY <1>1, IdleGood DEF CallRecord
<1> HIDE DEF p
<1>3. GoodCall(p, n, R)  BY <1>1, <1>2 DEF GoodCall, GoodResult
<1>4. QED BY <1>2, <1>3 DEF p, x

(* An error is a result for every call.                                    *)
LEMMA FailedGood ==
  ASSUME NEW q, NEW R, NEW code \in {"VALIDATION", "NAVI_RELAY_INVALID_RESPONSE",
                                    "NAVI_IDENTITY_CHANGED", "NAVI_RELAY_UNAVAILABLE"}
  PROVE  Failed(code) \in ResultRecord /\ GoodResult(q, Failed(code), R)
                                        /\ Failed(code).code # "OK"
  BY DEF Failed, ResultRecord, Known, Statuses, GoodResult

(* Time passes; permission is withdrawn.                                   *)
LEMMA LaterGood ==
  ASSUME NEW q \in CallRecord, NEW n \in Nat, NEW R, GoodCall(q, n, R)
  PROVE  GoodCall(q, n + 1, R)
  BY DEF GoodCall, CallRecord

(* A revocation comes after the calls that have begun.                     *)
LEMMA RevokedGood ==
  ASSUME NEW q \in CallRecord, NEW n \in Nat, GoodCall(q, n, {})
  PROVE  GoodCall(q, n, {n}) /\ (q.pc # "idle" => Fresh(q, {n}))
<1>1. q.pc # "idle" => Fresh(q, {n})  BY DEF GoodCall, Fresh, CallRecord
<1>2. q.reply # {} \/ q.result # {} => q.pc # "idle"  BY DEF GoodCall
<1>3. QED BY <1>1, <1>2 DEF GoodCall, GoodReply, GoodResult

-----------------------------------------------------------------------------
(* One call changes, none that began begins again.                         *)
Goes(c, p) ==
  /\ p \in CallRecord /\ GoodCall(p, now, revoked)
  /\ call[c].pc # "idle" => p.pc # "idle" /\ p.began = call[c].began

(* What a step that changes one call keeps.                                *)
LEMMA CallsAfter ==
  ASSUME RelayInv, NEW c \in Calls, NEW p, Goes(c, p), call' = [call EXCEPT ![c] = p],
         UNCHANGED <<now, hub, revoked>>
  PROVE  /\ CallsInv' /\ call'[c] = p
         /\ \A d \in Calls : d # c => call'[d] = call[d]
         /\ \A d \in Calls : call[d].pc # "idle" =>
              call'[d].pc # "idle" /\ call'[d].began = call[d].began
<1>1. call \in [Calls -> CallRecord]  BY DEF RelayInv, CallsInv
<1>2. call' \in [Calls -> CallRecord] /\ call'[c] = p /\ \A d \in Calls : d # c => call'[d] = call[d]
  BY <1>1 DEF Goes
<1>3. \A d \in Calls : GoodCall(call'[d], now, revoked)
  <2> TAKE d \in Calls
  <2>1. CASE d = c  BY <2>1, <1>2 DEF Goes
  <2>2. CASE d # c  BY <2>2, <1>2 DEF RelayInv, CallsInv
  <2>3. QED BY <2>1, <2>2
<1>4. CallsInv'  BY <1>2, <1>3 DEF RelayInv, CallsInv
<1>5. QED BY <1>2, <1>4 DEF Goes

(* Exchanges and runs stay good when calls only go on.                     *)
LEMMA PlacesAfter ==
  ASSUME RelayInv, revoked' = revoked,
         \A d \in Calls : call[d].pc # "idle" =>
           call'[d].pc # "idle" /\ call'[d].began = call[d].began
  PROVE  /\ exchanges' = exchanges => ExchangesInv'
         /\ ran' = ran => RunsInv'
         /\ \A e \in exchanges : GoodExchange(e, call'[e.call], revoked')
<1>1. \A e \in exchanges : GoodExchange(e, call'[e.call], revoked')
  <2> TAKE e \in exchanges
  <2>1. e.call \in Calls /\ GoodExchange(e, call[e.call], revoked)
    BY DEF RelayInv, ExchangesInv, ExchangeRecord
  <2>2. QED BY <2>1 DEF GoodExchange, Fresh
<1>2. exchanges' = exchanges => ExchangesInv'  BY <1>1 DEF RelayInv, ExchangesInv
<1>3. ASSUME ran' = ran  PROVE RunsInv'
  <2>1. \A x \in ran : x.call \in Calls  BY DEF RelayInv, RunsInv, RunRecord
  <2>2. \A x \in ran : x.id = x.call /\ call'[x.call].pc # "idle"
                       /\ (x.status = 200 => Fresh(call'[x.call], revoked'))
    BY <2>1 DEF RelayInv, RunsInv, Fresh
  <2>3. QED BY <1>3, <2>2 DEF RelayInv, RunsInv
<1>4. QED BY <1>1, <1>2, <1>3

Remains(r, c) ==
  \/ r \in wire /\ (r.call = c => ~r.live)
  \/ r.call = c /\ r.id = c /\ ~r.live

(* Requests of other calls, and requests nobody waits for, stay good.      *)
LEMMA WireAfter ==
  ASSUME RelayInv, NEW c \in Calls, \A d \in Calls : d # c => call'[d] = call[d],
         call'[c].pc # "idle", wire' \subseteq RequestRecord,
         \A r \in wire' : Remains(r, c)
  PROVE  WireInv'
<1>1. \A r \in wire' : r.call \in Calls  BY DEF RequestRecord
<1>2. QED BY <1>1 DEF RelayInv, WireInv, Remains

(* A call that ended leaves only requests nobody waits for.                *)
LEMMA AbandonedWire ==
  ASSUME RelayInv, NEW c \in Calls, \A d \in Calls : d # c => call'[d] = call[d],
         call'[c].pc # "idle", wire' = Abandoned(c)
  PROVE  WireInv'
<1> DEFINE Cut(r) == [r EXCEPT !.live = FALSE]
<1>1. wire \subseteq RequestRecord /\ \A r \in wire : r.id = r.call  BY DEF RelayInv, WireInv
<1>2. \A r \in RequestRecord : Cut(r) \in RequestRecord /\ ~Cut(r).live
                              /\ Cut(r).call = r.call /\ Cut(r).id = r.id
  BY DEF RequestRecord
<1>3. wire' = {r \in wire : r.call # c \/ ~r.live}
                \cup {Cut(r) : r \in {x \in wire : x.call = c /\ x.post}}
  BY DEF Abandoned
<1> HIDE DEF Cut
<1>4. wire' \subseteq RequestRecord  BY <1>1, <1>2, <1>3
<1>5. \A r \in wire' : Remains(r, c)  BY <1>1, <1>2, <1>3 DEF Remains
<1>6. QED BY <1>4, <1>5, WireAfter

-----------------------------------------------------------------------------
(* The client's steps.                                                     *)
LEMMA Shapes ==
  ASSUME RelayInv, NEW c \in Calls
  PROVE  /\ call[c] \in CallRecord /\ GoodCall(call[c], now, revoked) /\ now \in Nat
         /\ \A a \in call[c].reply : a \in ReplyRecord
  BY Constants DEF RelayInv, CallsInv, CallRecord

(* A call begins, or is refused.                                           *)
LEMMA BeginInv ==
  ASSUME RelayInv, NEW c \in Calls, NEW u \in Uses[c], Begin(c, u[1], u[2], u[3])
  PROVE  RelayInv'
<1> DEFINE op == u[1]
           pin == u[2]
           p == [Idle EXCEPT !.pc = "ready", !.op = op, !.pin = pin, !.began = now,
                             !.end = now + Ttl[op], !.identity = pin, !.posted = now]
           f == [Idle EXCEPT !.pc = "done", !.op = op, !.result = {Failed("VALIDATION")}]
<1>1. op \in Operations /\ pin \in Known /\ Ttl[op] \in Nat /\ now \in Nat
  BY Constants, Shapes
<1>2. p \in CallRecord /\ GoodCall(p, now, revoked) /\ p.pc = "ready"
  BY <1>1, BegunGood
<1>3. f \in CallRecord /\ GoodCall(f, now, revoked) /\ f.pc = "done"
  BY <1>1, RefusedGood
<1>4. /\ call[c].pc = "idle"
      /\ call' = [call EXCEPT ![c] = p] \/ call' = [call EXCEPT ![c] = f]
      /\ UNCHANGED <<now, wire, exchanges, published, ran, hub, revoked, faults>>
  BY DEF Begin, cloud
<1> HIDE DEF p, f
<1>5. PICK q \in {p, f} : call' = [call EXCEPT ![c] = q]  BY <1>4
<1>6. Goes(c, q) /\ q.pc # "idle"  BY <1>2, <1>3, <1>4, <1>5 DEF Goes
<1>7. /\ CallsInv' /\ call'[c] = q
      /\ \A d \in Calls : d # c => call'[d] = call[d]
      /\ \A d \in Calls : call[d].pc # "idle" =>
           call'[d].pc # "idle" /\ call'[d].began = call[d].began
  BY <1>4, <1>5, <1>6, CallsAfter
<1>8. ExchangesInv' /\ RunsInv'  BY <1>4, <1>7, PlacesAfter
<1>9. WireInv'
  <2>1. \A r \in wire : r.call \in Calls /\ r.call # c
    BY <1>4 DEF RelayInv, WireInv, RequestRecord
  <2>2. QED BY <2>1, <1>4, <1>7 DEF RelayInv, WireInv
<1>10. QED BY <1>7, <1>8, <1>9 DEF RelayInv

(* A request is posted, polled for, or posted again.                       *)
LEMMA RequestInv ==
  ASSUME RelayInv, NEW c \in Calls, Request(c)
  PROVE  RelayInv'
<1> DEFINE p == [call[c] EXCEPT !.pc = "waiting", !.publish = Posts(c)]
           r == [call |-> c, id |-> c, post |-> Posts(c), pin |-> Pin(c), live |-> TRUE]
<1>1. Posts(c) \in BOOLEAN  BY DEF Posts
<1>2. /\ p \in CallRecord /\ GoodCall(p, now, revoked)
      /\ p.pc = "waiting" /\ p.began = call[c].began /\ p.reply = {}
  <2>1. call[c] \in CallRecord /\ GoodCall(call[c], now, revoked) /\ call[c].pc = "ready"
    BY Shapes DEF Request
  <2>2. QED BY <1>1, <2>1, WaitingGood
<1>3. /\ call[c].pc = "ready" /\ call' = [call EXCEPT ![c] = p] /\ wire' = wire \cup {r}
      /\ UNCHANGED <<now, exchanges, published, ran, hub, revoked, faults>>
  <2>1. wire' = wire \cup {r}  BY Zenon DEF Request, RequestId
  <2>2. call' = [call EXCEPT ![c] = p]  BY DEF Request, RelayInv, CallsInv
  <2>3. QED BY <2>1, <2>2 DEF Request, cloud
<1>4. r \in RequestRecord /\ r.call = c /\ r.id = c
  BY <1>1, Shapes DEF RequestRecord, Pin, CallRecord
<1> HIDE DEF p, r
<1>5. Goes(c, p)  BY <1>2 DEF Goes
<1>6. /\ CallsInv' /\ call'[c] = p
      /\ \A d \in Calls : d # c => call'[d] = call[d]
      /\ \A d \in Calls : call[d].pc # "idle" =>
           call'[d].pc # "idle" /\ call'[d].began = call[d].began
  BY <1>3, <1>5, CallsAfter
<1>7. ExchangesInv' /\ RunsInv'  BY <1>3, <1>6, PlacesAfter
<1>8. WireInv'
  <2>1. \A s \in wire : s.call \in Calls /\ (s.call = c => ~s.live)
    BY <1>3 DEF RelayInv, WireInv, RequestRecord
  <2>2. QED BY <2>1, <1>2, <1>3, <1>4, <1>6 DEF RelayInv, WireInv
<1>9. QED BY <1>6, <1>7, <1>8 DEF RelayInv

(* What the steps share in which a call goes on or ends, and abandons or   *)
(* keeps its requests.                                                     *)
LEMMA GoesInv ==
  ASSUME RelayInv, NEW c \in Calls, NEW p, Goes(c, p), call' = [call EXCEPT ![c] = p],
         p.pc # "idle", UNCHANGED <<now, exchanges, ran, hub, revoked>>,
         wire' = Abandoned(c) \/ (wire' = wire /\ call[c].reply # {})
  PROVE  RelayInv'
<1>1. /\ CallsInv' /\ call'[c] = p
      /\ \A d \in Calls : d # c => call'[d] = call[d]
      /\ \A d \in Calls : call[d].pc # "idle" =>
           call'[d].pc # "idle" /\ call'[d].began = call[d].began
  BY CallsAfter
<1>2. ExchangesInv' /\ RunsInv'  BY <1>1, PlacesAfter
<1>3. WireInv'
  <2>1. CASE wire' = Abandoned(c)  BY <2>1, <1>1, AbandonedWire
  <2>2. CASE wire' = wire /\ call[c].reply # {}
    <3>1. \A r \in wire' : Remains(r, c)  BY <2>2 DEF RelayInv, WireInv, Remains
    <3>2. wire' \subseteq RequestRecord  BY <2>2 DEF RelayInv, WireInv
    <3>3. QED BY <1>1, <3>1, <3>2, WireAfter
  <2>3. QED BY <2>1, <2>2
<1>4. QED BY <1>1, <1>2, <1>3 DEF RelayInv

(* A call returns a result that is good.                                   *)
LEMMA EndInv ==
  ASSUME RelayInv, NEW c \in Calls, call[c].pc # "idle", NEW x \in ResultRecord,
         GoodResult(call[c], x, revoked), End(c, x), UNCHANGED <<now, exchanges, ran, hub, revoked>>
  PROVE  RelayInv'
<1>1. /\ Ended(c, x) \in CallRecord /\ GoodCall(Ended(c, x), now, revoked)
      /\ Ended(c, x).pc = "done" /\ Ended(c, x).began = call[c].began
  BY Shapes, EndedGood
<1>2. Goes(c, Ended(c, x))  BY <1>1 DEF Goes
<1>3. QED BY <1>1, <1>2, GoesInv DEF End

(* The transport fails: the call is ready to ask again.                    *)
LEMMA TransportInv ==
  ASSUME RelayInv, NEW c \in Calls, TransportFails(c)
  PROVE  RelayInv'
<1> DEFINE p == [call[c] EXCEPT !.pc = "ready", !.reply = {}]
<1>1. p \in CallRecord /\ GoodCall(p, now, revoked) /\ p.pc = "ready" /\ p.began = call[c].began
  BY Shapes, ReadyGood DEF TransportFails
<1>2. call' = [call EXCEPT ![c] = p] /\ wire' = Abandoned(c)
      /\ UNCHANGED <<now, exchanges, ran, hub, revoked>>
  BY DEF TransportFails, cloud, RelayInv, CallsInv
<1> HIDE DEF p
<1>3. Goes(c, p)  BY <1>1 DEF Goes
<1>4. QED BY <1>1, <1>2, <1>3, GoesInv

(* The budget of a call is used up.                                        *)
LEMMA TimeoutInv ==
  ASSUME RelayInv, NEW c \in Calls, Timeout(c)
  PROVE  RelayInv'
<1> DEFINE x == Failed("NAVI_RELAY_UNAVAILABLE")
<1>1. x \in ResultRecord /\ GoodResult(call[c], x, revoked)  BY FailedGood
<1>2. call[c].pc # "idle" /\ End(c, x) /\ UNCHANGED <<now, exchanges, ran, hub, revoked>>
  BY DEF Timeout, cloud
<1> HIDE DEF x
<1>3. QED BY <1>1, <1>2, EndInv

(* A reply is checked before the call goes on with it or returns it.       *)
LEMMA ReceiveInv ==
  ASSUME RelayInv, NEW c \in Calls, Receive(c)
  PROVE  RelayInv'
<1>1. PICK a \in call[c].reply :
        \/ ReceiveBusy(c, a) \/ ReceiveError(c, a) \/ ReceiveMixed(c, a)
        \/ ReceivePending(c, a) \/ ReceiveComplete(c, a)
  BY DEF Receive
<1>2. call[c].pc = "waiting" /\ UNCHANGED <<now, exchanges, ran, hub, revoked>>
  BY DEF Receive, cloud
<1>3. /\ a \in ReplyRecord /\ GoodReply(call[c], a, revoked) /\ call[c] \in CallRecord
      /\ GoodCall(call[c], now, revoked) /\ now \in Nat
  BY Shapes DEF GoodCall
<1>4. CASE ReceiveBusy(c, a)
  <2> DEFINE p == [call[c] EXCEPT !.pc = "ready", !.reply = {}]
  <2>1. p \in CallRecord /\ GoodCall(p, now, revoked) /\ p.pc = "ready" /\ p.began = call[c].began
    BY <1>2, <1>3, ReadyGood
  <2>2. call' = [call EXCEPT ![c] = p] /\ wire' = wire /\ call[c].reply # {}
    BY <1>4, <1>1 DEF ReceiveBusy, RelayInv, CallsInv
  <2> HIDE DEF p
  <2>3. Goes(c, p)  BY <2>1 DEF Goes
  <2>4. QED BY <1>2, <2>1, <2>2, <2>3, GoesInv
<1>5. CASE ReceiveError(c, a)
  <2>1. PICK code \in {"NAVI_RELAY_INVALID_RESPONSE", "NAVI_IDENTITY_CHANGED",
                       "NAVI_RELAY_UNAVAILABLE"} : End(c, Failed(code))
    BY <1>5 DEF ReceiveError
  <2>2. Failed(code) \in ResultRecord /\ GoodResult(call[c], Failed(code), revoked)
    BY FailedGood
  <2>3. QED BY <1>2, <2>1, <2>2, EndInv
<1>6. CASE ReceiveMixed(c, a)
  <2> DEFINE x == Failed("NAVI_RELAY_UNAVAILABLE")
  <2>1. x \in ResultRecord /\ GoodResult(call[c], x, revoked)  BY FailedGood
  <2>2. End(c, x)  BY <1>6 DEF ReceiveMixed
  <2> HIDE DEF x
  <2>3. QED BY <1>2, <2>1, <2>2, EndInv
<1>7. CASE ReceivePending(c, a)
  <2> DEFINE posted == IF call[c].publish THEN now ELSE call[c].posted
             p == Accepted(call[c], a, posted)
  <2>1. posted \in Nat  BY <1>3 DEF CallRecord
  <2>2. a.identity \in Identities /\ call[c].identity \in {NoIdentity, a.identity}
    BY <1>3, <1>7 DEF ReceivePending, Mixed, GoodReply
  <2>3. call' = [call EXCEPT ![c] = p]  BY <1>7, Zenon DEF ReceivePending, Accepted
  <2>7. wire' = wire /\ call[c].reply # {}  BY <1>7, <1>1 DEF ReceivePending
  <2> HIDE DEF posted
  <2>4. p \in CallRecord /\ GoodCall(p, now, revoked) /\ p.pc = "ready" /\ p.began = call[c].began
    BY <1>2, <1>3, <2>1, <2>2, PendingGood
  <2> HIDE DEF p
  <2>5. Goes(c, p)  BY <2>4 DEF Goes
  <2>6. QED BY <1>2, <2>3, <2>4, <2>5, <2>7, GoesInv
<1>8. CASE ReceiveComplete(c, a)
  <2>1. CASE Answered(c, a) = Failed("NAVI_RELAY_UNAVAILABLE")
    <3> DEFINE x == Failed("NAVI_RELAY_UNAVAILABLE")
    <3>1. x \in ResultRecord /\ GoodResult(call[c], x, revoked)  BY FailedGood
    <3>2. End(c, x)  BY <1>8, <2>1 DEF ReceiveComplete
    <3> HIDE DEF x
    <3>3. QED BY <1>2, <3>1, <3>2, EndInv
  <2>2. CASE Answered(c, a) = [code |-> "OK", from |-> a.from, status |-> a.status]
    <3> DEFINE x == [code |-> "OK", from |-> a.from, status |-> a.status]
    <3>1. End(c, x)  BY <1>8, <2>2 DEF ReceiveComplete
    <3>2. x \in ResultRecord  BY <1>3 DEF ResultRecord, ReplyRecord
    <3>3. a.identity \in Identities /\ call[c].identity \in {NoIdentity, a.identity}
          /\ a.from = a.identity /\ (a.status = 200 => Fresh(call[c], revoked))
      BY <1>3, <1>8 DEF ReceiveComplete, Mixed, GoodReply
    <3>4. GoodResult(call[c], x, revoked)  BY <3>3 DEF GoodResult
    <3> HIDE DEF x
    <3>5. QED BY <1>2, <3>1, <3>2, <3>4, EndInv
  <2>3. QED BY <2>1, <2>2 DEF Answered
<1>9. QED BY <1>1, <1>4, <1>5, <1>6, <1>7, <1>8

-----------------------------------------------------------------------------
(* The steps of HarborCloud, the broker and the device.                    *)
LEMMA ReceiptGood ==
  ASSUME NEW e \in ExchangeRecord, NEW q, NEW R, GoodExchange(e, q, R)
  PROVE  Receipt(e) \in ReplyRecord /\ GoodReply(q, Receipt(e), R)
<1>1. CASE e.result = {}
  BY <1>1 DEF Receipt, ReplyRecord, ExchangeRecord, Known, Statuses, GoodReply
<1>2. CASE e.result # {}
  <2>1. PICK s \in {200, 403} : e.result = {s}  BY <1>2 DEF ExchangeRecord
  <2>2. (CHOOSE x \in e.result : TRUE) = s  BY <2>1
  <2> DEFINE k == [kind |-> "complete", id |-> e.id, identity |-> e.identity,
                   deadline |-> e.deadline, from |-> e.from, status |-> s]
  <2>3. Receipt(e) = k  BY <1>2, <2>2 DEF Receipt
  <2>4. k \in ReplyRecord /\ k.identity \in Identities /\ k.from = e.from /\ k.status = s
        /\ k.identity = e.identity
    BY <2>1 DEF ReplyRecord, ExchangeRecord, Known, Statuses
  <2> HIDE DEF k
  <2>5. GoodReply(q, k, R)  BY <1>2, <2>1, <2>4 DEF GoodReply, GoodExchange
  <2>6. QED BY <2>3, <2>4, <2>5
<1>3. QED BY <1>1, <1>2

(* A reply without a result promises nothing.                              *)
LEMMA PlainGood ==
  ASSUME NEW kind \in {"busy", "oversize", "changed", "refused"}, NEW q, NEW R
  PROVE  Plain(kind) \in ReplyRecord /\ GoodReply(q, Plain(kind), R)
  BY DEF Plain, ReplyRecord, Known, Statuses, GoodReply

(* A reply reaches its call, if that still waits for it.                   *)
LEMMA ReplyAfter ==
  ASSUME RelayInv, NEW r \in wire, wire' = wire \ {r}, NEW a \in ReplyRecord,
         GoodReply(call[r.call], a, revoked), Reply(r, a), UNCHANGED <<now, hub, revoked>>
  PROVE  /\ CallsInv' /\ WireInv'
         /\ \A d \in Calls : call[d].pc # "idle" =>
              call'[d].pc # "idle" /\ call'[d].began = call[d].began
<1> DEFINE c == r.call
<1>1. /\ c \in Calls /\ r.id = c /\ r \in RequestRecord /\ call[c].pc # "idle"
      /\ wire' \subseteq RequestRecord
  BY DEF RelayInv, WireInv, RequestRecord
<1>2. CASE r.live
  <2> DEFINE p == [call[c] EXCEPT !.reply = {a}]
  <2>1. call[c].pc = "waiting" /\ call[c] \in CallRecord /\ GoodCall(call[c], now, revoked)
    BY <1>1, <1>2, Shapes DEF RelayInv, WireInv
  <2>2. p \in CallRecord /\ GoodCall(p, now, revoked) /\ p.pc = "waiting" /\ p.began = call[c].began
    BY <2>1, ReplyGood
  <2>3. call' = [call EXCEPT ![c] = p]  BY <1>2 DEF Reply, RelayInv, CallsInv
  <2>4. \A s \in wire' : Remains(s, c)  BY <1>2 DEF RelayInv, WireInv, Remains
  <2> HIDE DEF p, c
  <2>5. Goes(c, p)  BY <2>2 DEF Goes
  <2>6. /\ CallsInv' /\ call'[c] = p
        /\ \A d \in Calls : d # c => call'[d] = call[d]
        /\ \A d \in Calls : call[d].pc # "idle" =>
             call'[d].pc # "idle" /\ call'[d].began = call[d].began
    BY <1>1, <2>3, <2>5, CallsAfter
  <2>7. WireInv'  BY <1>1, <2>2, <2>4, <2>6, WireAfter
  <2>8. QED BY <2>6, <2>7
<1>3. CASE ~r.live
  <2>1. call' = call  BY <1>3 DEF Reply
  <2>2. QED BY <2>1 DEF RelayInv, CallsInv, WireInv
<1>4. QED BY <1>2, <1>3

(* HarborCloud takes a request, or answers that it has it already.         *)
LEMMA CloudPostInv ==
  ASSUME RelayInv, NEW r \in wire, CloudPost(r)
  PROVE  RelayInv'
<1> DEFINE known == {e \in exchanges : e.id = r.id}
           new == [id |-> r.id, call |-> r.call, identity |-> hub, result |-> {},
                   deadline |-> now + Skew + Ttl[Operation(r.call)], from |-> NoIdentity]
           old == CHOOSE x \in known : TRUE
           e == IF known = {} THEN new
                ELSE IF old.result = {} THEN [old EXCEPT !.identity = hub] ELSE old
<1>1. /\ wire' = wire \ {r} /\ UNCHANGED <<now, ran, hub, revoked>>
      /\ \/ Reply(r, Plain("changed")) /\ exchanges' = exchanges
         \/ Reply(r, Receipt(e)) /\ exchanges' = (exchanges \ known) \cup {e}
  BY DEF CloudPost, Arrives
<1>2. r.call \in Calls /\ r.id = r.call /\ call[r.call].pc # "idle"
  BY DEF RelayInv, WireInv, RequestRecord
<1>3. hub \in Identities /\ exchanges \subseteq ExchangeRecord
  BY DEF RelayInv, CallsInv, ExchangesInv
<1>4. e \in ExchangeRecord /\ GoodExchange(e, call[r.call], revoked) /\ e.call = r.call
  <2>1. CASE known = {}
    <3>1. now + Skew + Ttl[Operation(r.call)] \in Int
      <4>1. Ttl[call[r.call].op] \in Nat /\ now \in Nat
        BY <1>2, Shapes DEF GoodCall
      <4>2. QED BY <4>1, Constants DEF Operation
    <3>2. new \in ExchangeRecord /\ new.result = {} /\ new.call = r.call /\ new.id = r.call
      BY <1>2, <1>3, <3>1 DEF ExchangeRecord, Known
    <3>3. e = new  BY <2>1
    <3> HIDE DEF new, e
    <3>4. QED BY <1>2, <3>2, <3>3 DEF GoodExchange
  <2>2. CASE known # {}
    <3>1. old \in exchanges /\ old.id = r.id  BY <2>2
    <3>2. old \in ExchangeRecord /\ GoodExchange(old, call[old.call], revoked) /\ old.call = r.call
      BY <1>2, <1>3, <3>1 DEF RelayInv, ExchangesInv, GoodExchange
    <3> HIDE DEF old
    <3>3. CASE old.result = {}
      <4> DEFINE m == [old EXCEPT !.identity = hub]
      <4>1. m \in ExchangeRecord /\ m.result = {} /\ m.call = old.call /\ m.id = old.id
        BY <1>3, <3>2, <3>3 DEF ExchangeRecord
      <4>2. e = m  BY <2>2, <3>3
      <4> HIDE DEF m, e
      <4>3. QED BY <3>2, <4>1, <4>2 DEF GoodExchange
    <3>4. CASE old.result # {}
      <4>1. e = old  BY <2>2, <3>4
      <4> HIDE DEF e
      <4>2. QED BY <3>2, <4>1
    <3>5. QED BY <3>3, <3>4
  <2>3. QED BY <2>1, <2>2
<1> HIDE DEF e, new, old
<1>5. PICK a \in ReplyRecord : Reply(r, a) /\ GoodReply(call[r.call], a, revoked)
  <2>1. Plain("changed") \in ReplyRecord /\ GoodReply(call[r.call], Plain("changed"), revoked)
    BY PlainGood
  <2>2. Receipt(e) \in ReplyRecord /\ GoodReply(call[r.call], Receipt(e), revoked)
    BY <1>4, ReceiptGood
  <2>3. QED BY <1>1, <2>1, <2>2
<1>6. /\ CallsInv' /\ WireInv'
      /\ \A d \in Calls : call[d].pc # "idle" =>
           call'[d].pc # "idle" /\ call'[d].began = call[d].began
  BY <1>1, <1>5, ReplyAfter
<1>7. /\ exchanges' = exchanges => ExchangesInv'
      /\ RunsInv'
      /\ \A x \in exchanges : GoodExchange(x, call'[x.call], revoked')
  BY <1>1, <1>6, PlacesAfter
<1>8. CASE exchanges' = (exchanges \ known) \cup {e}
  <2>1. GoodExchange(e, call'[e.call], revoked')
    BY <1>1, <1>2, <1>4, <1>6 DEF GoodExchange, Fresh
  <2>2. ExchangesInv'  BY <1>3, <1>4, <1>7, <1>8, <2>1 DEF ExchangesInv
  <2>3. QED BY <1>6, <1>7, <2>2 DEF RelayInv
<1>9. QED BY <1>1, <1>6, <1>7, <1>8 DEF RelayInv

(* HarborCloud answers a poll, or fails.                                   *)
LEMMA CloudGetInv ==
  ASSUME RelayInv, NEW r \in wire, CloudGet(r) \/ CloudErrs(r)
  PROVE  RelayInv'
<1>1. /\ wire' = wire \ {r} /\ UNCHANGED <<now, exchanges, ran, hub, revoked>>
  BY DEF CloudGet, CloudErrs, Arrives, cloud
<1>2. r.call \in Calls /\ r.id = r.call  BY DEF RelayInv, WireInv, RequestRecord
<1>3. PICK a \in ReplyRecord : Reply(r, a) /\ GoodReply(call[r.call], a, revoked)
  <2>1. \A kind \in {"busy", "oversize", "changed", "refused"} :
          Plain(kind) \in ReplyRecord /\ GoodReply(call[r.call], Plain(kind), revoked)
    BY PlainGood
  <2>2. CASE CloudErrs(r)  BY <2>1, <2>2 DEF CloudErrs
  <2>3. CASE CloudGet(r)
    <3> DEFINE known == {e \in exchanges : e.id = r.id}
               e == CHOOSE x \in known : TRUE
    <3>1. CASE known = {}  BY <2>1, <2>3, <3>1 DEF CloudGet
    <3>2. CASE known # {}
      <4>1. e \in exchanges /\ e.id = r.id  BY <3>2
      <4>2. Reply(r, Receipt(e))  BY <2>3, <3>2 DEF CloudGet
      <4> HIDE DEF e
      <4>3. e \in ExchangeRecord /\ GoodExchange(e, call[r.call], revoked)
        BY <1>2, <4>1 DEF RelayInv, ExchangesInv, GoodExchange
      <4>4. QED BY <4>2, <4>3, ReceiptGood
    <3>3. QED BY <3>1, <3>2
  <2>4. QED BY <2>2, <2>3
<1>4. /\ CallsInv' /\ WireInv'
      /\ \A d \in Calls : call[d].pc # "idle" =>
           call'[d].pc # "idle" /\ call'[d].began = call[d].began
  BY <1>1, <1>3, ReplyAfter
<1>5. ExchangesInv' /\ RunsInv'  BY <1>1, <1>4, PlacesAfter
<1>6. QED BY <1>4, <1>5 DEF RelayInv

(* A device runs an exchange it has not run, or repeats what it did.       *)
LEMMA DeviceRunsInv ==
  ASSUME RelayInv, NEW id \in published, NEW answers \in BOOLEAN, DeviceRuns(id, answers)
  PROVE  RelayInv'
<1>1. PICK e \in exchanges :
        /\ e.id = id /\ e.identity = hub /\ ran' = ran \cup {Did(id)}
        /\ exchanges' = IF ~answers THEN exchanges
             ELSE (exchanges \ {e}) \cup {[e EXCEPT !.result = {Did(id).status}, !.from = hub]}
  BY DEF DeviceRuns
<1>2. UNCHANGED <<now, call, wire, hub, revoked>>  BY DEF DeviceRuns
<1>3. /\ e \in ExchangeRecord /\ GoodExchange(e, call[e.call], revoked) /\ id \in Calls
      /\ e.call = id /\ hub \in Identities
  BY <1>1 DEF RelayInv, ExchangesInv, CallsInv, GoodExchange, ExchangeRecord
<1> DEFINE before == {x \in ran : x.id = id /\ x.by = hub}
           d == Did(id)
<1>4. /\ d \in RunRecord /\ d.id = id /\ d.call = id /\ d.by = hub
      /\ d.status = 200 => Fresh(call[id], revoked)
      /\ before # {} => d \in before
  <2>1. CASE before = {}
    <3>1. d = Run(id)  BY <2>1 DEF Did
    <3>2. (CHOOSE x \in exchanges : x.id = id) \in exchanges
          /\ (CHOOSE x \in exchanges : x.id = id).id = id
      BY <1>1
    <3>3. (CHOOSE x \in exchanges : x.id = id).call = id
      BY <3>2 DEF RelayInv, ExchangesInv, GoodExchange
    <3>4. Run(id) \in RunRecord /\ Run(id).id = id /\ Run(id).call = id /\ Run(id).by = hub
          /\ (Run(id).status = 200 => revoked = {})
      BY <1>3, <3>3 DEF Run, RunRecord
    <3>5. QED BY <2>1, <3>1, <3>4 DEF Fresh
  <2>2. CASE before # {}
    <3>1. d \in before  BY <2>2 DEF Did
    <3> HIDE DEF d
    <3>2. QED BY <3>1 DEF RelayInv, RunsInv
  <2>3. QED BY <2>1, <2>2
<1> HIDE DEF d
<1>5. RunsInv'
  <2>1. ran' = ran \cup {d}  BY <1>1 DEF d
  <2>2. \A x \in ran : x.id = d.id /\ x.by = d.by => x = d
    BY <1>4 DEF RelayInv, RunsInv
  <2>3. QED BY <1>2, <1>3, <1>4, <2>1, <2>2 DEF RelayInv, RunsInv, GoodExchange
<1>6. ExchangesInv'
  <2>1. CASE ~answers  BY <1>1, <1>2, <2>1 DEF RelayInv, ExchangesInv
  <2>2. CASE answers
    <3> DEFINE n == [e EXCEPT !.result = {d.status}, !.from = hub]
    <3>1. {d.status} \in {{}, {200}, {403}} /\ hub \in Known
      BY <1>3, <1>4 DEF RunRecord, Known
    <3>2. n \in ExchangeRecord /\ n.id = e.id /\ n.call = e.call /\ n.identity = e.identity
          /\ n.from = hub /\ n.result = {d.status}
      BY <1>3, <3>1 DEF ExchangeRecord
    <3>3. exchanges' = (exchanges \ {e}) \cup {n}  BY <1>1, <2>2 DEF d
    <3> HIDE DEF n
    <3>4. GoodExchange(n, call[n.call], revoked)
      BY <1>1, <1>3, <1>4, <3>2 DEF GoodExchange
    <3>5. QED BY <1>2, <3>2, <3>3, <3>4 DEF RelayInv, ExchangesInv
  <2>3. QED BY <2>1, <2>2
<1>7. CallsInv' /\ WireInv'  BY <1>2 DEF RelayInv, CallsInv, WireInv
<1>8. QED BY <1>5, <1>6, <1>7 DEF RelayInv

(* The home withdraws its permission: what succeeded so far belongs to     *)
(* calls that began before.                                                *)
LEMMA RevokedInv ==
  ASSUME RelayInv, PermissionRevoked
  PROVE  RelayInv'
<1>1. revoked = {} /\ revoked' = {now} /\ UNCHANGED <<now, call, wire, exchanges, ran, hub>>
  BY DEF PermissionRevoked
<1>2. now \in 1..MaxTime /\ now \in Nat  BY Constants DEF RelayInv, CallsInv
<1>3. \A c \in Calls : /\ call[c] \in CallRecord /\ GoodCall(call[c], now, {now})
                       /\ call[c].pc # "idle" => Fresh(call[c], {now})
  BY <1>1, <1>2, Shapes, RevokedGood
<1>4. CallsInv'  BY <1>1, <1>2, <1>3 DEF RelayInv, CallsInv
<1>5. ExchangesInv'
  BY <1>1, <1>3 DEF RelayInv, ExchangesInv, GoodExchange, ExchangeRecord
<1>6. RunsInv'
  <2>1. \A x \in ran : x.call \in Calls /\ call[x.call].pc # "idle"
    BY DEF RelayInv, RunsInv, RunRecord
  <2>2. \A x \in ran : Fresh(call[x.call], {now})  BY <1>3, <2>1
  <2>3. QED BY <1>1, <2>2 DEF RelayInv, RunsInv
<1>7. WireInv'  BY <1>1 DEF RelayInv, WireInv
<1>8. QED BY <1>4, <1>5, <1>6, <1>7 DEF RelayInv

(* Time passes, towards the deadlines.                                     *)
LEMMA TickInv ==
  ASSUME RelayInv, Tick
  PROVE  RelayInv'
<1>1. now < MaxTime /\ now' = now + 1 /\ UNCHANGED <<call, wire, exchanges, ran, hub, revoked>>
  BY DEF Tick, cloud
<1>2. now' \in 1..MaxTime /\ now \in Nat  BY <1>1, Constants DEF RelayInv, CallsInv
<1>3. \A c \in Calls : GoodCall(call[c], now + 1, revoked)  BY <1>2, Shapes, LaterGood
<1>4. CallsInv'  BY <1>1, <1>2, <1>3 DEF RelayInv, CallsInv
<1>5. QED BY <1>1, <1>4 DEF RelayInv, WireInv, ExchangesInv, RunsInv

-----------------------------------------------------------------------------
(* There is no call at first.                                              *)
LEMMA RelayInvInit == RelayInit => RelayInv
<1> SUFFICES ASSUME RelayInit  PROVE RelayInv  OBVIOUS
<1>1. GoodCall(Idle, now, revoked)  BY IdleGood DEF GoodCall
<1>2. now \in 1..MaxTime  BY Constants DEF RelayInit
<1>3. CallsInv  BY <1>1, <1>2, IdleGood, Constants DEF RelayInit, CallsInv
<1>4. QED BY <1>3 DEF RelayInit, RelayInv, WireInv, ExchangesInv, RunsInv

(* Every step keeps the invariant.                                         *)
LEMMA RelayInvNext ==
  ASSUME RelayInv, [Next]_vars
  PROVE  RelayInv'
<1>1. CASE UNCHANGED vars
  BY <1>1 DEF vars, RelayInv, CallsInv, WireInv, ExchangesInv, RunsInv
<1>2. ASSUME NEW c \in Calls, Client(c)  PROVE RelayInv'
  BY <1>2, BeginInv, RequestInv, TransportInv, ReceiveInv, TimeoutInv DEF Client
<1>3. CASE CloudSteps
  <2>1. ASSUME NEW e \in exchanges, CloudForgets(e)  PROVE RelayInv'
    BY <2>1 DEF CloudForgets, RelayInv, CallsInv, WireInv, ExchangesInv, RunsInv
  <2>2. CASE HubReplaced
    BY <2>2, Constants DEF HubReplaced, RelayInv, CallsInv, WireInv, ExchangesInv, RunsInv
  <2>3. QED
    BY <1>3, <2>1, <2>2, CloudPostInv, CloudGetInv, DeviceRunsInv, RevokedInv DEF CloudSteps
<1>4. QED BY <1>1, <1>2, <1>3, TickInv DEF Next, Done

(* The inductive invariant holds throughout every behaviour.               *)
THEOREM RelayInvariance == Spec => []RelayInv
  BY RelayInvInit, RelayInvNext, PTL DEF Spec

(* No device does the work of a call twice (TurnRunsOnce), however often   *)
(* its exchange is posted again, lost, forgotten or answered.              *)
THEOREM TurnsRunOnce == Spec => []TurnRunsOnce
<1>1. RelayInv => TurnRunsOnce
  <2> SUFFICES ASSUME RelayInv, NEW c \in Calls, NEW h \in Identities
               PROVE  Cardinality({x \in ran : x.call = c /\ x.by = h}) <= 1
    BY DEF TurnRunsOnce
  <2> DEFINE S == {x \in ran : x.call = c /\ x.by = h}
  <2>1. \A x, y \in S : x = y  BY DEF RelayInv, RunsInv
  <2>2. S = {} \/ \E x : S = {x}
    <3>1. SUFFICES ASSUME S # {}  PROVE \E x : S = {x}  OBVIOUS
    <3>2. PICK x : x \in S  BY <3>1
    <3>3. S = {x}  BY <2>1, <3>2
    <3>4. QED BY <3>3
  <2>3. Cardinality(S) = 0 \/ Cardinality(S) = 1  BY <2>2, FS_EmptySet, FS_Singleton
  <2>4. QED BY <2>3
<1>2. QED BY <1>1, RelayInvariance, PTL

-----------------------------------------------------------------------------
(* A call has an answer after a step and not before only if it had a       *)
(* receipt that passed the checks of `exchange`.                           *)
LEMMA EndAnswers ==
  ASSUME RelayInv, NEW c \in Calls, NEW d \in Calls, NEW x \in ResultRecord, End(d, x),
         x.code # "OK" \/ c # d, ~HasAnswer(c)
  PROVE  ~HasAnswer(c)'
<1>1. call \in [Calls -> CallRecord] /\ call' = [call EXCEPT ![d] = Ended(d, x)]
  BY DEF RelayInv, CallsInv, End
<1>2. CASE c # d
  <2>1. call'[c] = call[c]  BY <1>1, <1>2
  <2>2. QED BY <2>1 DEF HasAnswer, Result
<1>3. CASE c = d /\ x.code # "OK"
  <2>1. call'[c] = Ended(c, x)  BY <1>1, <1>3
  <2>2. Ended(c, x).result = {x}  BY DEF Ended, Idle
  <2>3. Result(c)' = x  BY <2>1, <2>2 DEF Result
  <2>4. QED BY <1>3, <2>3 DEF HasAnswer
<1>4. QED BY <1>2, <1>3

(* A step that keeps a call's result gives it no answer.                   *)
LEMMA SameResult ==
  ASSUME NEW c \in Calls, call'[c].result = call[c].result, ~HasAnswer(c)
  PROVE  ~HasAnswer(c)'
  BY DEF HasAnswer, Result

(* The beginning of a call is no answer.                                   *)
LEMMA BeginAnswers ==
  ASSUME RelayInv, NEW c \in Calls, NEW d \in Calls, NEW u \in Uses[d],
         Begin(d, u[1], u[2], u[3]), ~HasAnswer(c)
  PROVE  ~HasAnswer(c)'
<1> DEFINE p == [Idle EXCEPT !.pc = "ready", !.op = u[1], !.pin = u[2], !.began = now,
                             !.end = now + Ttl[u[1]], !.identity = u[2], !.posted = now]
           f == [Idle EXCEPT !.pc = "done", !.op = u[1], !.result = {Failed("VALIDATION")}]
<1>1. call \in [Calls -> CallRecord]
      /\ (call' = [call EXCEPT ![d] = p] \/ call' = [call EXCEPT ![d] = f])
  BY DEF RelayInv, CallsInv, Begin
<1>2. p.result = {}  BY Zenon DEF Idle
<1>3. f.result = {Failed("VALIDATION")}  BY Zenon DEF Idle
<1> HIDE DEF p, f
<1>4. CASE c # d  BY <1>1, <1>4, SameResult
<1>5. CASE c = d /\ call' = [call EXCEPT ![d] = p]
  BY <1>1, <1>2, <1>5 DEF HasAnswer
<1>6. CASE c = d /\ call' = [call EXCEPT ![d] = f]
  <2>1. Result(c)' = Failed("VALIDATION")  BY <1>1, <1>3, <1>6 DEF Result
  <2>2. QED BY <2>1 DEF HasAnswer, Failed
<1>7. QED BY <1>1, <1>4, <1>5, <1>6

(* Neither is a request, nor a transport that fails.                       *)
LEMMA QuietAnswers ==
  ASSUME RelayInv, NEW c \in Calls, NEW d \in Calls, Request(d) \/ TransportFails(d), ~HasAnswer(c)
  PROVE  ~HasAnswer(c)'
<1>1. call \in [Calls -> CallRecord] /\ call[c] \in CallRecord  BY DEF RelayInv, CallsInv
<1>2. CASE Request(d)
  <2>1. call'[c].result = call[c].result  BY <1>1, <1>2 DEF Request, CallRecord
  <2>2. QED BY <2>1, SameResult
<1>3. CASE TransportFails(d)
  <2>1. call'[c].result = call[c].result  BY <1>1, <1>3 DEF TransportFails, CallRecord
  <2>2. QED BY <2>1, SameResult
<1>4. QED BY <1>2, <1>3

(* Neither is a reply that has not been read.                              *)
LEMMA CloudAnswers ==
  ASSUME RelayInv, NEW c \in Calls, NEW r \in wire, NEW a, Reply(r, a), ~HasAnswer(c)
  PROVE  ~HasAnswer(c)'
<1>1. call \in [Calls -> CallRecord] /\ call[c] \in CallRecord  BY DEF RelayInv, CallsInv
<1>2. call'[c].result = call[c].result  BY <1>1 DEF Reply, CallRecord
<1>3. QED BY <1>2, SameResult

(* A call has its answer from its own reply, in which receipt and result   *)
(* are not mixed.                                                          *)
LEMMA ReceiveAnswers ==
  ASSUME RelayInv, NEW c \in Calls, NEW d \in Calls, Receive(d), ~HasAnswer(c), HasAnswer(c)'
  PROVE  c = d /\ \E a \in call[c].reply : ~Mixed(c, a)
<1>1. PICK a \in call[d].reply :
        \/ ReceiveBusy(d, a) \/ ReceiveError(d, a) \/ ReceiveMixed(d, a)
        \/ ReceivePending(d, a) \/ ReceiveComplete(d, a)
  BY DEF Receive
<1>2. call \in [Calls -> CallRecord] /\ call[c] \in CallRecord /\ a \in ReplyRecord
  BY Shapes DEF RelayInv, CallsInv
<1>3. ~ReceiveBusy(d, a)
  <2> SUFFICES ASSUME ReceiveBusy(d, a)  PROVE FALSE  OBVIOUS
  <2>1. call'[c].result = call[c].result  BY <1>2 DEF ReceiveBusy, CallRecord
  <2>2. QED BY <2>1, SameResult
<1>4. ~ReceivePending(d, a)
  <2> SUFFICES ASSUME ReceivePending(d, a)  PROVE FALSE  OBVIOUS
  <2> DEFINE posted == IF call[d].publish THEN now ELSE call[d].posted
             p == Accepted(call[d], a, posted)
  <2>1. call' = [call EXCEPT ![d] = p]  BY Zenon DEF ReceivePending, Accepted
  <2>2. p.result = call[d].result
    <3>1. call[d] \in CallRecord  BY <1>2
    <3> HIDE DEF posted
    <3>2. QED BY <3>1 DEF Accepted, CallRecord
  <2> HIDE DEF p
  <2>3. call'[c].result = call[c].result  BY <1>2, <2>1, <2>2
  <2>4. QED BY <2>3, SameResult
<1>5. ~ReceiveError(d, a)
  <2> SUFFICES ASSUME ReceiveError(d, a)  PROVE FALSE  OBVIOUS
  <2>1. PICK code \in {"NAVI_RELAY_INVALID_RESPONSE", "NAVI_IDENTITY_CHANGED",
                       "NAVI_RELAY_UNAVAILABLE"} : End(d, Failed(code))
    BY DEF ReceiveError
  <2>2. Failed(code) \in ResultRecord /\ Failed(code).code # "OK"  BY FailedGood
  <2>3. QED BY <2>1, <2>2, EndAnswers
<1>6. ~ReceiveMixed(d, a)
  <2> SUFFICES ASSUME ReceiveMixed(d, a)  PROVE FALSE  OBVIOUS
  <2> DEFINE x == Failed("NAVI_RELAY_UNAVAILABLE")
  <2>1. x \in ResultRecord /\ x.code # "OK"  BY FailedGood
  <2>2. End(d, x)  BY DEF ReceiveMixed
  <2> HIDE DEF x
  <2>3. QED BY <2>1, <2>2, EndAnswers
<1>7. ReceiveComplete(d, a)  BY <1>1, <1>3, <1>4, <1>5, <1>6
<1>8. c = d
  <2>1. Answered(d, a) \in ResultRecord
    <3>1. Failed("NAVI_RELAY_UNAVAILABLE") \in ResultRecord  BY FailedGood
    <3>2. [code |-> "OK", from |-> a.from, status |-> a.status] \in ResultRecord
      BY <1>2 DEF ResultRecord, ReplyRecord
    <3>3. QED BY <3>1, <3>2 DEF Answered
  <2>2. End(d, Answered(d, a))  BY <1>7 DEF ReceiveComplete
  <2>3. QED BY <2>1, <2>2, EndAnswers
<1>9. QED BY <1>7, <1>8 DEF ReceiveComplete

(* The answer was in time, and its deadline is the one the call was given. *)
LEMMA AnswerChecked ==
  ASSUME RelayInv, [Next]_vars, NEW c \in Calls, ~HasAnswer(c), HasAnswer(c)',
         NEW a \in call[c].reply
  PROVE  now < a.deadline /\ call[c].deadline \in {{}, {a.deadline}}
<1>1. \A d \in Calls : ~Timeout(d)
  <2> SUFFICES ASSUME NEW d \in Calls, Timeout(d)  PROVE FALSE  OBVIOUS
  <2> DEFINE x == Failed("NAVI_RELAY_UNAVAILABLE")
  <2>1. x \in ResultRecord /\ x.code # "OK"  BY FailedGood
  <2>2. End(d, x)  BY DEF Timeout
  <2> HIDE DEF x
  <2>3. QED BY <2>1, <2>2, EndAnswers
<1>2. call' # call  BY SameResult
<1>3. \A r \in wire : ~CloudPost(r) /\ ~CloudGet(r) /\ ~CloudErrs(r)
  <2> SUFFICES ASSUME NEW r \in wire, CloudPost(r) \/ CloudGet(r) \/ CloudErrs(r)
               PROVE  \E b : Reply(r, b)
    BY CloudAnswers
  <2>1. CASE CloudPost(r)  BY <2>1 DEF CloudPost
  <2>2. CASE CloudGet(r)  BY <2>2 DEF CloudGet
  <2>3. CASE CloudErrs(r)  BY <2>3 DEF CloudErrs
  <2>4. QED BY <2>1, <2>2, <2>3
<1>4. ~CloudSteps
  BY <1>2, <1>3 DEF CloudSteps, DeviceRuns, CloudForgets, HubReplaced, PermissionRevoked
<1>5. PICK d \in Calls : Client(d)  BY <1>2, <1>4 DEF Next, Tick, Done, vars
<1>6. Receive(d)  BY <1>1, <1>5, BeginAnswers, QuietAnswers DEF Client
<1>7. PICK b \in call[c].reply : ~Mixed(c, b)  BY <1>6, ReceiveAnswers
<1>8. a = b /\ a \in ReplyRecord /\ now \in Nat  BY Shapes DEF GoodCall
<1>9. a.deadline \in Int  BY <1>8 DEF ReplyRecord
<1>10. QED BY <1>7, <1>8, <1>9 DEF Mixed

(* What a call returns is the current word of the home it was made to      *)
(* (AnswersAreCurrent): it comes from the device the call is bound to, a   *)
(* permission in it is not older than the call, and it is used within the  *)
(* deadline HarborCloud set for it.                                        *)
THEOREM AnswersStayCurrent == Spec => AnswersAreCurrent
<1>1. RelayInv => RelayTypeOK /\ AnswerFromOneHub /\ AuthorizationIsFresh
  <2> SUFFICES ASSUME RelayInv  PROVE RelayTypeOK /\ AnswerFromOneHub /\ AuthorizationIsFresh
    OBVIOUS
  <2>1. now \in 1..MaxTime /\ \A c \in Calls : call[c] \in CallRecord /\ GoodCall(call[c], now, revoked)
    BY DEF RelayInv, CallsInv
  <2>2. RelayTypeOK  BY <2>1 DEF RelayTypeOK, CallRecord, GoodCall, Known
  <2>3. ASSUME NEW c \in Calls, HasAnswer(c)
        PROVE  GoodResult(call[c], Result(c), revoked) /\ Result(c).code = "OK"
    <3>1. Result(c) \in call[c].result /\ Result(c).code = "OK"  BY <2>3 DEF HasAnswer, Result
    <3>2. QED BY <2>1, <3>1 DEF GoodCall
  <2>4. \A c \in Calls : Pin(c) # NoIdentity => call[c].identity = Pin(c)
    BY <2>1 DEF GoodCall, Pin
  <2>5. AnswerFromOneHub  BY <2>3, <2>4 DEF AnswerFromOneHub, GoodResult
  <2>6. AuthorizationIsFresh  BY <2>3 DEF AuthorizationIsFresh, GoodResult, Fresh
  <2>7. QED BY <2>2, <2>5, <2>6
<1>2. RelayInv /\ [Next]_vars =>
        [\A c \in Calls : (~HasAnswer(c) /\ HasAnswer(c)') =>
           \A a \in call[c].reply : /\ now < a.deadline
                                    /\ call[c].deadline \in {{}, {a.deadline}}]_vars
  BY AnswerChecked
<1>3. QED BY <1>1, <1>2, RelayInvariance, PTL DEF Spec, AnswersAreCurrent, AnswerInTime
=============================================================================
