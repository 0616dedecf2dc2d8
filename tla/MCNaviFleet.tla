---------------------------- MODULE MCNaviFleet ----------------------------
(* Small instances of the directory: three tokens of two homes.  Two of    *)
(* them start from states that are reached early on from Init.             *)
EXTENDS NaviFleetProperties, TLC

CONSTANTS h1, h2, a1, a2, b1

GateSymmetry == Permutations(Gates)

MCHubOf == [t \in Tokens |-> IF t = b1 THEN h2 ELSE h1]

(* The directory at a later time: phone 1 selected home h1 with token a1   *)
(* and phone 2, if there is one, home h2 with token b1; both homes have    *)
(* acknowledged that they are active.                                      *)
First == [r \in Routes |-> IF r = 1 THEN a1 ELSE b1]

FirstSelection(r) ==
  [hub |-> HubOf[First[r]], identity |-> 0, binding |-> First[r], gen |-> r,
   at |-> 0, proved |-> 0]

PairedInit ==
  /\ clock = 1
  /\ route = [r \in Routes |->
       [EmptyRoute EXCEPT !.known = TRUE, !.active = FirstSelection(r), !.revision = 1,
          !.seen = {[id |-> First[r], until |-> SeenLife]}]]
  /\ made = [r \in Routes |-> [sel |-> FirstSelection(r), r |-> r]]
  /\ worker = [g \in Gates |-> Idle]
  /\ out = [d \in Deliveries |-> Free]
  /\ identity = [h \in Hubs |-> 0]
  /\ session = [t \in Tokens |-> IF \E r \in Routes : t = First[r]
                  THEN [phone |-> CHOOSE r \in Routes : t = First[r],
                        confirmed |-> 0, revoked |-> FALSE]
                  ELSE NoSession]
  /\ heard = [g \in Generations |-> IF g \in Routes
                THEN [revision |-> 1, status |-> "active"]
                ELSE [revision |-> 0, status |-> "retired"]]

PairedSpec == PairedInit /\ [][Next]_vars

(* Phone 1 has selected home h1 with token a1 and then home h2 with b1;    *)
(* neither home has been told of the switch yet.                           *)
Former  == [hub |-> h1, identity |-> 0, binding |-> a1, gen |-> 1, at |-> 0, proved |-> 0]
Current == [hub |-> h2, identity |-> 0, binding |-> b1, gen |-> 2, at |-> 1, proved |-> 1]

SwitchedInit ==
  /\ clock = 1
  /\ route = [r \in Routes |->
       [EmptyRoute EXCEPT !.known = TRUE, !.active = Current, !.newest = 1, !.revision = 4,
          !.seen = {[id |-> a1, until |-> SeenLife], [id |-> b1, until |-> 1 + SeenLife]},
          !.updates = {[sel |-> Former, revision |-> 3, status |-> "retired"],
                       [sel |-> Current, revision |-> 4, status |-> "active"]}]]
  /\ made = <<[sel |-> Former, r |-> 1], [sel |-> Current, r |-> 1]>>
  /\ worker = [g \in Gates |-> Idle]
  /\ out = [d \in Deliveries |-> Free]
  /\ identity = [h \in Hubs |-> 0]
  /\ session = [t \in Tokens |-> IF t \in {a1, b1}
       THEN [phone |-> 1, confirmed |-> IF t = a1 THEN 0 ELSE 1, revoked |-> FALSE]
       ELSE NoSession]
  /\ heard = [g \in Generations |->
       IF g = 1 THEN [revision |-> 2, status |-> "paused"]
       ELSE [revision |-> 0, status |-> "retired"]]

SwitchedSpec == SwitchedInit /\ [][Next]_vars
=============================================================================
