---------------------------- MODULE InboxPromise ----------------------------
(***************************************************************************)
(* What a durable inbox promises the provider that hands it messages: a    *)
(* message is new until it is stored, held until somebody is done with it, *)
(* and settled from then on, however often it is handed in again; and the  *)
(* provider is told to forget only messages that are no longer new.        *)
(***************************************************************************)
CONSTANT Messages

VARIABLES
  state,   \* "new", "held" or "settled", by message
  acked    \* the messages the provider need not hand in again

promise == <<state, acked>>

Order == {<<"new", "held">>, <<"held", "settled">>}

Init ==
  /\ state = [m \in Messages |-> "new"]
  /\ acked = {}

(* One step stores or settles any number of messages and answers for any   *)
(* of those that are stored by the end of it.                              *)
Advance ==
  /\ state' \in [Messages -> {"new", "held", "settled"}]
  /\ \A m \in Messages : state'[m] # state[m] => <<state[m], state'[m]>> \in Order

Acknowledge ==
  /\ acked \subseteq acked' /\ acked' \subseteq Messages
  /\ \A m \in acked' : state'[m] # "new"

Next == Advance /\ Acknowledge

Spec == Init /\ [][Next]_promise
=============================================================================
