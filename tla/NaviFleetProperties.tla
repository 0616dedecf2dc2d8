------------------------ MODULE NaviFleetProperties ------------------------
(***************************************************************************)
(* What the directory of selected homes promises.                          *)
(***************************************************************************)
EXTENDS NaviFleet

(* Every variable has the shape that navi_fleet.rs gives its records.      *)
FleetTypeOK ==
  /\ clock \in 0..MaxTime
  /\ \A r \in Routes :
       /\ route[r] \in Route
       /\ Cardinality(route[r].updates) <= UpdateLimit
       /\ Cardinality(route[r].seen) <= SeenLimit
       /\ route[r].revision <= MaxRevision
  /\ \A g \in Gates : worker[g].pc \in {"idle", "proof", "proofAnswered",
                                        "afterProof", "update", "updateAnswered"}
  /\ \A d \in Deliveries : out[d].pc \in {"free", "outbox", "queued", "asking",
                                          "allowed", "sending", "changed"}

(* What the home of a selection knows, or is about to be told, of its      *)
(* route: the outstanding update if there is one, else what it applied     *)
(* last.  A home that refuses the binding or is another device by now is   *)
(* told nothing.                                                           *)
Gone(sel) == identity[sel.hub] # sel.identity \/ session[sel.binding].revoked

Reported(r, sel) ==
  LET us == {u \in route[r].updates : u.sel.gen = sel.gen}
  IN  IF us = {} THEN heard[sel.gen].status ELSE (CHOOSE u \in us : TRUE).status

(* While a newer proof is open the former home is told to pause: begin     *)
(* queues the update and no acknowledgement of an older one can lose it.   *)
PauseIsReported ==
  \A r \in Routes :
    route[r].pending # None /\ route[r].active # None /\ ~Gone(route[r].active)
      => Reported(r, route[r].active) = "paused"

(* When no proof is open the selected home is told that it is active:      *)
(* "A cancelled/expired switch sends a new active revision for the former  *)
(* device" (docs/navi-whatsapp-binding-proof.md).                          *)
ReleaseIsReported ==
  \A r \in Routes :
    route[r].pending = None /\ route[r].active # None /\ ~Gone(route[r].active)
      => Reported(r, route[r].active) = "active"

(* A home that was replaced is told that it retired, or the update that    *)
(* says so is still outstanding: no two homes of a phone both end up       *)
(* believing that they are the selected one.                               *)
OldHomesRetire ==
  \A g \in DOMAIN made :
    LET sel == made[g].sel
        r == made[g].r
    IN  route[r].active # sel /\ ~Gone(sel) => Reported(r, sel) = "retired"

(* Each home knows, or is about to be told, where its phone stands.        *)
HomesAreTold == FleetTypeOK /\ PauseIsReported /\ ReleaseIsReported /\ OldHomesRetire

(* claim can always release the proofs that ran out: a route never has so  *)
(* many outstanding updates that queue_route_update refuses the release,   *)
(* which would stop the polls of every other route too.                    *)
ReleaseNeverBlocked ==
  \A r \in Routes : route[r].pending # None => ~QueueFails(route[r])

(* Proofs take effect in the order in which the phone sent them, however   *)
(* late or how often they arrive: a selection is never replaced by one     *)
(* that an older message asked for.                                        *)
NewestProofWins ==
  [][\A r \in Routes :
       route[r].active # None /\ route'[r].active # None
         => route'[r].active.proved >= route[r].active.proved]_vars

(* "A stale response cannot complete a newer pending proof": a selection   *)
(* is made only by an answer to the very message that is pending, even     *)
(* where the same token was sent twice.                                    *)
AnswerFitsProof ==
  [][\A r \in Routes, g \in Gates :
       /\ worker[g].pc = "proofAnswered" /\ worker'[g] # worker[g]
       /\ worker[g].r = r /\ route'[r] # route[r] /\ route[r].pending # None
       => worker[g].pending.occurred = route[r].pending.occurred]_vars

(* The first answer recorded for a proof pins the device: whatever answers *)
(* come between, late ones of another exchange included, only the device   *)
(* that answered first is ever selected by it.  A home that was reset      *)
(* during the proof cannot confirm what its former certificate observed.   *)
DeviceIsPinned ==
  [][\A r \in Routes :
       Len(made') > Len(made) /\ made'[Len(made')].r = r
         => route[r].pending.first \in {None, made'[Len(made')].sel.identity}]_vars

(* A message is sent only for the home that is selected at that moment and *)
(* while no newer proof is open, although the permission was asked for     *)
(* before the answer was awaited.                                          *)
SendsForSelectedHome ==
  [][\A d \in Deliveries :
       out[d].pc # "sending" /\ out'[d].pc = "sending"
         => LET R == route[out[d].r]
            IN  R.active = out[d].sel /\ ~Live(R.pending)]_vars

(* Only a home that has lost its certificate loses its phones: the late    *)
(* news of an old certificate leaves the selection of the new one alone.   *)
OnlyLostHomesDropped ==
  [][\A r \in Routes :
       route[r].active # None /\ route'[r].active = None
         => identity[route[r].active.hub] # route[r].active.identity]_vars
=============================================================================
