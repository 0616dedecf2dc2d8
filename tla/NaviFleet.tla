----------------------------- MODULE NaviFleet -----------------------------
(***************************************************************************)
(* The directory of selected homes (src/src/navi_fleet.rs), the file       *)
(* routes.json, and the tasks of the gateway that read and write it.       *)
(*                                                                         *)
(* A route is one phone on one official number.  The phone proves that it  *)
(* wants a home by sending a token that home showed; Gate polls the home   *)
(* until its Owner confirms, makes it the route's selection under a fresh  *)
(* generation, and reports every change of the selection to the homes      *)
(* concerned as numbered route updates.  Each function below runs under    *)
(* the directory's file lock and replaces the file atomically, or fails    *)
(* and writes nothing, so it is one step; between two of them Gate awaits  *)
(* an answer that the relay carries and anything may happen.               *)
(*                                                                         *)
(* Seconds are scaled down by the constants below.  next_poll and          *)
(* notification_next_poll only space the polls out and share them among    *)
(* the routes; here any entry may be due at any time.  Syntax checks of    *)
(* identifiers are left out: what fails them is the "outage" answer.       *)
(***************************************************************************)
EXTENDS Integers, FiniteSets, Sequences, FiniteSetsExt

CONSTANTS
  Routes,        \* phones: key(recipient, route_key)
  Hubs,          \* homes
  Tokens,        \* proof tokens; the session a token opens has its name
  HubOf,         \* [Tokens -> Hubs], the home that showed a token
  Gates,         \* gateway processes running the binding loop
  Deliveries,    \* outbound messages being prepared
  None,          \* JSON null
  ProofLife,     \* a proof is good for 300 s ...
  Skew,          \* ... and timestamps may be 60 s ahead
  ExchangeLife,  \* AUTH_TTL, 5 s
  UpdateLimit,   \* outstanding route updates of a route, 64
  SeenLimit,     \* remembered proofs of a route, 64
  RouteLimit,    \* routes in the directory, 4096
  MaxTime,       \* bound of the model: seconds that pass
  MaxRevision,   \* bound of the model: updates a route queues
  MaxResets      \* bound of the model: new certificates of a home

ASSUME FleetAssumption ==
  /\ HubOf \in [Tokens -> Hubs]
  /\ IsFiniteSet(Routes)
  /\ None \notin Hubs \cup Tokens \cup Routes
  /\ {ProofLife, Skew, ExchangeLife, UpdateLimit} \subseteq Nat \ {0}
  /\ {SeenLimit, RouteLimit, MaxTime, MaxRevision, MaxResets} \subseteq Nat
  /\ ExchangeLife <= Skew

VARIABLES
  clock,     \* now()
  route,     \* the directory
  made,      \* the selections made so far: generation g is made[g]
  worker,    \* the binding loop of every Gate
  out,       \* the deliveries and notification polls in flight
  identity,  \* the device certificate every home has now
  session,   \* the binding sessions the homes keep
  heard      \* the route status every home last applied, by generation

directory == <<route, made>>
homes == <<identity, session, heard>>
vars  == <<clock, route, made, worker, out, identity, session, heard>>

Statuses == {"active", "paused", "retired"}

Generations == 1..(MaxRevision * Cardinality(Routes))

Selection == [hub: Hubs, identity: 0..MaxResets, binding: Tokens,
              gen: Generations, at: 0..MaxTime,
              proved: 0..(MaxTime + Skew)]    \* history: the proof's time

Pending == [id: Tokens, hub: Hubs, occurred: 0..(MaxTime + Skew),
            until: Nat, identity: (0..MaxResets) \cup {None},
            first: (0..MaxResets) \cup {None}]    \* history: who answered first

Update == [sel: Selection, revision: Nat, status: Statuses]

Route == [known: BOOLEAN,                     \* recipient and route_key set
          active: Selection \cup {None},
          pending: Pending \cup {None},
          seen: SUBSET [id: Tokens, until: Nat],
          newest: 0..(MaxTime + Skew),        \* newest_proof_at
          revision: Nat,
          updates: SUBSET Update]

(* null is no record.                                                      *)
ASSUME NullAssumption == None \notin Selection \cup Pending

EmptyRoute == [known |-> FALSE, active |-> None, pending |-> None, seen |-> {},
               newest |-> 0, revision |-> 0, updates |-> {}]

-----------------------------------------------------------------------------
(* queue_route_update: the newest status of the active generation replaces *)
(* an older one that is still outstanding.                                 *)
QueueFailsAtLimit(R) ==            \* mutant: forgets the entry being replaced
  R.active # None /\ Cardinality(R.updates) >= UpdateLimit

QueueFails(R) ==
  /\ R.active # None
  /\ Cardinality(R.updates) >= UpdateLimit
  /\ \A u \in R.updates : u.sel.gen # R.active.gen

Queued(R, status) ==
  IF R.active = None THEN R
  ELSE [R EXCEPT !.revision = @ + 1,
                 !.updates  = {u \in @ : u.sel.gen # R.active.gen}
                   \cup {[sel |-> R.active, revision |-> R.revision + 1,
                          status |-> status]}]

Live(p) == p # None /\ p.until > clock

(* begin: a phone message "NAVI hub.token".  A replayed token changes      *)
(* nothing but the forgetting of old ones; a refused message changes       *)
(* nothing at all and has no step here.                                    *)
Fresh(occurred) == occurred > clock - ProofLife /\ occurred <= clock + Skew

SeenLifeShort == ProofLife \div 2      \* mutant: forgets before the proof ends

SeenLife == ProofLife + Skew

NeverOutOfDate(R, occurred) == FALSE   \* mutant: takes proofs in any order

OutOfDate(R, occurred) == occurred < R.newest

StillSeen(R) == {s \in R.seen : s.until > clock}

BeginEntry(r) == [route[r] EXCEPT !.known = TRUE, !.seen = StillSeen(route[r])]

Begun(R, t, occurred) ==
  [R EXCEPT !.seen    = @ \cup {[id |-> t, until |-> occurred + SeenLife]},
            !.newest  = occurred,
            !.pending = [id |-> t, hub |-> HubOf[t], occurred |-> occurred,
                         until |-> Min({occurred, clock}) + ProofLife,
                         identity |-> None, first |-> None]]

DirectoryFull(r) == ~route[r].known
                    /\ Cardinality({x \in Routes : route[x].known}) >= RouteLimit

Begin(r, t, occurred) ==
  LET R == BeginEntry(r)
      known == \E s \in R.seen : s.id = t
      N == Queued(Begun(R, t, occurred), "paused")
  IN  /\ Fresh(occurred) /\ ~DirectoryFull(r)
      /\ \/ known /\ route' = [route EXCEPT ![r] = R]
         \/ /\ ~known
            /\ ~OutOfDate(R, occurred) /\ Cardinality(R.seen) < SeenLimit
            /\ ~QueueFails(R)
            /\ R.revision + 3 <= MaxRevision            \* bound of the model
            /\ route' = [route EXCEPT ![r] = N]
      /\ UNCHANGED <<clock, made, worker, out, homes>>

-----------------------------------------------------------------------------
(* The binding loop (refresh_navi_binding): poll one pending proof, then   *)
(* deliver one route update, whatever became of the proof.                 *)
Idle == [pc |-> "idle"]
AfterProof == [pc |-> "afterProof"]

(* claim: proofs that ran out free their routes; one of the others is      *)
(* polled.  One route that cannot queue its update fails them all.         *)
Released(R) == Queued([R EXCEPT !.pending = None], "active")

RanOut == {r \in Routes : route[r].pending # None /\ ~Live(route[r].pending)}

ClaimBlocked == \E r \in RanOut : QueueFails(route[r])

Claim(g) ==
  /\ worker[g].pc = "idle" /\ ~ClaimBlocked
  /\ route' = [r \in Routes |-> IF r \in RanOut THEN Released(route[r])
                                                ELSE route[r]]
  /\ \/ \E r \in {r \in Routes : Live(route[r].pending)} :
          worker' = [worker EXCEPT ![g] =
            [pc |-> "proof", r |-> r, pending |-> route[r].pending,
             deadline |-> clock + ExchangeLife]]
     \/ /\ \A r \in Routes : ~Live(route[r].pending)
        /\ worker' = [worker EXCEPT ![g] = AfterProof]
  /\ UNCHANGED <<clock, made, out, homes>>

(* The relay gives up at the deadline of the exchange, or fails before; a  *)
(* restart of the process loses the exchange just the same.                *)
ProofExchangeFails(g) ==
  /\ worker[g].pc \in {"proof", "proofAnswered"}
  /\ worker' = [worker EXCEPT ![g] = AfterProof]
  /\ UNCHANGED <<clock, directory, out, homes>>

(* finish: the answer to a poll meets the directory as it is now.  An      *)
(* answer that fits none of the cases below is an error, which leaves the  *)
(* directory alone as ProofExchangeFails does.                             *)
SameProof(R, p) == R.pending # None /\ R.pending.id = p.id

PinnedByLast(R, answer) ==              \* mutant: a later answer pins anew
  answer.status = "awaiting" \/ R.pending.identity \in {None, answer.identity}

SameDevice(R, answer) == R.pending.identity \in {None, answer.identity}

Pinned(R, answer) ==
  [R EXCEPT !.pending.identity = answer.identity,
            !.pending.first = IF @ = None THEN answer.identity ELSE @,
            !.pending.until = Min({@, answer.until})]

NewSelection(R, p, answer) ==
  [hub |-> p.hub, identity |-> answer.identity, binding |-> p.id,
   gen |-> Len(made) + 1, at |-> clock, proved |-> R.pending.occurred]

Selected(R, sel) == [R EXCEPT !.active = sel, !.pending = None]

Bound(R, sel) == Queued(Selected(Queued(R, "retired"), sel), "active")

ConfirmationFits(R, at) == at >= R.pending.occurred /\ at <= clock + Skew

Finish(g) ==
  LET w == worker[g]
      r == w.r
      R == route[r]
      a == w.answer
      sel == NewSelection(R, w.pending, a)
  IN  /\ w.pc = "proofAnswered"
      /\ worker' = [worker EXCEPT ![g] = AfterProof]
      /\ \/ ~SameProof(R, w.pending) /\ UNCHANGED directory
         \/ /\ SameProof(R, w.pending)
            /\ ~Live(R.pending) \/ a.status = "refused"
            /\ ~QueueFails([R EXCEPT !.pending = None])
            /\ route' = [route EXCEPT ![r] = Released(R)]
            /\ UNCHANGED made
         \/ /\ SameProof(R, w.pending) /\ Live(R.pending)
            /\ a.status = "awaiting" /\ SameDevice(R, a) /\ a.until > clock
            /\ route' = [route EXCEPT ![r] = Pinned(R, a)]
            /\ UNCHANGED made
         \/ /\ SameProof(R, w.pending) /\ Live(R.pending)
            /\ a.status = "bound" /\ SameDevice(R, a) /\ a.until > clock
            /\ ConfirmationFits(R, a.confirmed)
            /\ ~QueueFails(R) /\ ~QueueFails(Selected(Queued(R, "retired"), sel))
            /\ route' = [route EXCEPT ![r] = Bound(R, sel)]
            /\ made' = Append(made, [sel |-> sel, r |-> r])
      /\ UNCHANGED <<clock, out, homes>>

(* claim_route_update: one outstanding update, the oldest poll first.      *)
ClaimRouteUpdate(g) ==
  /\ worker[g].pc = "afterProof"
  /\ \/ \E r \in Routes : \E u \in route[r].updates :
          worker' = [worker EXCEPT ![g] = [pc |-> "update", r |-> r, update |-> u]]
     \/ /\ \A r \in Routes : route[r].updates = {}
        /\ worker' = [worker EXCEPT ![g] = Idle]
  /\ UNCHANGED <<clock, directory, out, homes>>

UpdateExchangeFails(g) ==
  /\ worker[g].pc \in {"update", "updateAnswered"}
  /\ worker' = [worker EXCEPT ![g] = Idle]
  /\ UNCHANGED <<clock, directory, out, homes>>

(* finish_route_update: a receipt removes the update it names.             *)
AcknowledgedLate(R, u) ==                   \* mutant: any revision will do
  [R EXCEPT !.updates = {x \in @ : x.sel.gen # u.sel.gen}]

Acknowledged(R, u) ==
  [R EXCEPT !.updates = {x \in @ : x.sel.gen # u.sel.gen \/ x.revision # u.revision}]

FinishRouteUpdate(g) ==
  LET w == worker[g] IN
  /\ w.pc = "updateAnswered"
  /\ worker' = [worker EXCEPT ![g] = Idle]
  /\ route' = IF w.answer \in {"applied", "refused"}
              THEN [route EXCEPT ![w.r] = Acknowledged(@, w.update)]
              ELSE route
  /\ UNCHANGED <<clock, made, out, homes>>

-----------------------------------------------------------------------------
(* Turns and deliveries.  A message from the phone is answered by the      *)
(* selected home (select), a notification is pulled from it                *)
(* (notification_target); what comes back keeps that selection for good    *)
(* and asks for permission before it is sent (authorize_delivery_context). *)
Free == [pc |-> "free"]

Select(d, r, occurred) ==
  LET R == route[r] IN
  /\ out[d].pc = "free"
  /\ ~Live(R.pending) /\ R.active # None
  /\ occurred > R.active.at /\ occurred <= clock + Skew
  /\ out' = [out EXCEPT ![d] = [pc |-> "queued", r |-> r, sel |-> R.active]]
  /\ UNCHANGED <<clock, directory, worker, homes>>

NotificationTarget(d, r) ==
  LET R == route[r] IN
  /\ out[d].pc = "free"
  /\ ~Live(R.pending) /\ R.active # None
  /\ out' = [out EXCEPT ![d] = [pc |-> "outbox", r |-> r, sel |-> R.active]]
  /\ UNCHANGED <<clock, directory, worker, homes>>

(* check.  Of its failures "unavailable" keeps the delivery for a retry    *)
(* and "denied" ends it.                                                   *)
Check(d) ==
  LET R == route[out[d].r] IN
  IF Live(R.pending) THEN "unavailable"
  ELSE IF R.active # out[d].sel THEN "denied" ELSE "ok"

CheckedOnce(d) == "ok"         \* mutant: trusts the check before the await

CheckAgain(d) == Check(d)

OutboundTaskClient(d) ==
  /\ out[d].pc = "queued" /\ Check(d) # "unavailable"
  /\ out' = [out EXCEPT ![d] =
       IF Check(d) = "ok" THEN [@ EXCEPT !.pc = "asking"] ELSE Free]
  /\ UNCHANGED <<clock, directory, worker, homes>>

FinishAuthorization(d) ==
  /\ out[d].pc = "allowed"
  /\ out' = [out EXCEPT ![d] = CASE CheckAgain(d) = "ok" -> [@ EXCEPT !.pc = "sending"]
                                 [] CheckAgain(d) = "unavailable" -> [@ EXCEPT !.pc = "queued"]
                                 [] OTHER -> Free]
  /\ UNCHANGED <<clock, directory, worker, homes>>

Send(d) ==
  /\ out[d].pc = "sending"
  /\ out' = [out EXCEPT ![d] = Free]
  /\ UNCHANGED <<clock, directory, worker, homes>>

(* An exchange that failed is retried by the delivery loop; a notification *)
(* poll starts afresh.                                                     *)
AuthorizationFails(d) ==
  /\ out[d].pc \in {"asking", "outbox"}
  /\ out' = [out EXCEPT ![d] =
       IF @.pc = "asking" THEN [@ EXCEPT !.pc = "queued"] ELSE Free]
  /\ UNCHANGED <<clock, directory, worker, homes>>

(* invalidate_identity, for every route of the directory: Cloud said that  *)
(* the home of a selection has another certificate now.                    *)
OfDevice(sel, s) == sel.hub = s.hub /\ sel.identity = s.identity

InvalidatedHub(R, s) ==              \* mutant: forgets the new device as well
  [R EXCEPT !.active  = IF @ # None /\ @.hub = s.hub THEN None ELSE @,
            !.pending = IF @ # None /\ @.hub = s.hub THEN None ELSE @,
            !.updates = {u \in @ : u.sel.hub # s.hub}]

Invalidated(R, s) ==
  [R EXCEPT
    !.active  = IF @ # None /\ OfDevice(@, s) THEN None ELSE @,
    !.pending = IF @ # None /\ @.hub = s.hub /\ @.identity \in {None, s.identity}
                THEN None ELSE @,
    !.updates = {u \in @ : ~OfDevice(u.sel, s)}]

InvalidateIdentity(d) ==
  /\ out[d].pc = "changed"
  /\ out' = [out EXCEPT ![d] = Free]
  /\ route' = [r \in Routes |-> Invalidated(route[r], out[d].sel)]
  /\ UNCHANGED <<clock, made, worker, homes>>

-----------------------------------------------------------------------------
(* The homes, seen through the relay (external: HarborBeacon and Cloud).   *)
(* Cloud refuses an exchange that names another certificate.  A home binds *)
(* a session to the first phone that proves it, answers bound once the     *)
(* Owner confirmed, applies route updates in the order of their revisions  *)
(* and refuses those of a binding it revoked.                              *)
NoSession == [phone |-> None, confirmed |-> None, revoked |-> FALSE]

ProofAnswers(w) ==
  LET t == w.pending.id
      s == session[t]
      device == identity[w.pending.hub]
  IN  [status: {"awaiting"}, identity: {device}, confirmed: {None},
       until: (clock + 1)..(clock + ProofLife)]
      \cup [status: {"bound"}, identity: {device}, confirmed: {s.confirmed} \ {None},
            until: {clock + ProofLife}]
      \cup [status: {"refused"}, identity: {device}, confirmed: {None}, until: {0}]

Honest(w, a) ==
  LET s == session[w.pending.id] IN
  CASE s.revoked \/ s.phone \notin {None, w.r} -> a.status = "refused"
    [] s.confirmed # None                      -> a.status \in {"bound", "refused"}
    [] OTHER                                   -> a.status \in {"awaiting", "refused"}

AnswerProof(g) ==
  LET w == worker[g] IN
  /\ w.pc = "proof" /\ clock <= w.deadline
  /\ w.pending.identity \in {None, identity[w.pending.hub]}
  /\ \E a \in ProofAnswers(w) :
       /\ Honest(w, a)
       /\ worker' = [worker EXCEPT ![g] =
            [pc |-> "proofAnswered", r |-> w.r, pending |-> w.pending,
             deadline |-> w.deadline, answer |-> a]]
       /\ session' = IF a.status = "awaiting"
                     THEN [session EXCEPT ![w.pending.id].phone = w.r] ELSE session
  /\ UNCHANGED <<clock, directory, out, identity, heard>>

AnswerRouteUpdate(g) ==
  LET w == worker[g]
      u == w.update
      gone == identity[u.sel.hub] # u.sel.identity \/ session[u.sel.binding].revoked
  IN  /\ w.pc = "update"
      /\ worker' = [worker EXCEPT ![g] = [pc |-> "updateAnswered", r |-> w.r, update |-> u,
                      answer |-> IF gone THEN "refused"
                                 ELSE IF u.revision >= heard[u.sel.gen].revision
                                      THEN "applied" ELSE "stale"]]
      /\ heard' = IF ~gone /\ u.revision > heard[u.sel.gen].revision
                  THEN [heard EXCEPT ![u.sel.gen] =
                          [revision |-> u.revision, status |-> u.status]]
                  ELSE heard
      /\ UNCHANGED <<clock, directory, out, identity, session>>

(* A new certificate is news to the outbox poll and to the permission for  *)
(* camera attachments, which invalidate the identity; the permission for a *)
(* plain WhatsApp message takes it for a refusal like any other.           *)
OutAnswers(d) ==
  LET sel == out[d].sel IN
  IF identity[sel.hub] # sel.identity
  THEN {"changed"} \cup (IF out[d].pc = "asking" THEN {"free"} ELSE {})
  ELSE IF out[d].pc = "outbox" THEN {"queued"}
  ELSE IF session[sel.binding].revoked THEN {"free"} ELSE {"allowed"}

AnswerOut(d) ==
  /\ out[d].pc \in {"asking", "outbox"}
  /\ \E pc \in OutAnswers(d) :
       out' = [out EXCEPT ![d] = IF pc = "free" THEN Free ELSE [@ EXCEPT !.pc = pc]]
  /\ UNCHANGED <<clock, directory, worker, homes>>

OwnerConfirms(t) ==
  /\ session[t].phone # None /\ session[t].confirmed = None /\ ~session[t].revoked
  /\ session' = [session EXCEPT ![t].confirmed = clock]
  /\ UNCHANGED <<clock, directory, worker, out, identity, heard>>

OwnerRevokes(t) ==
  /\ ~session[t].revoked /\ session[t].phone # None
  /\ session' = [session EXCEPT ![t].revoked = TRUE]
  /\ UNCHANGED <<clock, directory, worker, out, identity, heard>>

(* A new certificate; a factory reset wipes the sessions as well.          *)
NewCertificate(h, wiped) ==
  /\ identity[h] < MaxResets
  /\ identity' = [identity EXCEPT ![h] = @ + 1]
  /\ session' = [t \in Tokens |->
                   IF wiped /\ HubOf[t] = h /\ session[t].phone # None
                   THEN [session[t] EXCEPT !.revoked = TRUE] ELSE session[t]]
  /\ UNCHANGED <<clock, directory, worker, out, heard>>

(* Time does not pass the deadline of an exchange that is still awaited.   *)
Tick ==
  /\ clock < MaxTime
  /\ \A g \in Gates : worker[g].pc \in {"proof", "proofAnswered"}
                        => clock < worker[g].deadline
  /\ clock' = clock + 1
  /\ UNCHANGED <<directory, worker, out, homes>>

-----------------------------------------------------------------------------
Init ==
  /\ clock = 0
  /\ route = [r \in Routes |-> EmptyRoute]
  /\ made = <<>>
  /\ worker = [g \in Gates |-> Idle]
  /\ out = [d \in Deliveries |-> Free]
  /\ identity = [h \in Hubs |-> 0]
  /\ session = [t \in Tokens |-> NoSession]
  /\ heard = [g \in Generations |-> [revision |-> 0, status |-> "retired"]]

BindingLoop(g) ==
  \/ Claim(g) \/ Finish(g) \/ ProofExchangeFails(g)
  \/ ClaimRouteUpdate(g) \/ FinishRouteUpdate(g) \/ UpdateExchangeFails(g)

Delivering(d) ==
  \/ OutboundTaskClient(d) \/ FinishAuthorization(d) \/ Send(d)
  \/ AuthorizationFails(d) \/ InvalidateIdentity(d) \/ AnswerOut(d)
  \/ \E r \in Routes : NotificationTarget(d, r)
  \/ \E r \in Routes, o \in 0..(clock + Skew) : Select(d, r, o)

Next ==
  \/ Tick
  \/ \E r \in Routes, t \in Tokens, o \in 0..(clock + Skew) : Begin(r, t, o)
  \/ \E g \in Gates : BindingLoop(g) \/ AnswerProof(g) \/ AnswerRouteUpdate(g)
  \/ \E d \in Deliveries : Delivering(d)
  \/ \E t \in Tokens : OwnerConfirms(t) \/ OwnerRevokes(t)
  \/ \E h \in Hubs, wiped \in BOOLEAN : NewCertificate(h, wiped)

Spec == Init /\ [][Next]_vars
=============================================================================
