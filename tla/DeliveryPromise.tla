-------------------------- MODULE DeliveryPromise ---------------------------
(***************************************************************************)
(* What the delivery pipeline promises about the items of one plan, with   *)
(* nothing of tasks, leases, downloads or restarts: each item is open,     *)
(* held by one attempt, done or dead; attempts are numbered; done and dead *)
(* are forever; nothing happens to an item before all earlier ones are     *)
(* done.                                                                   *)
(***************************************************************************)
EXTENDS Naturals

CONSTANT N

VARIABLES phase, epoch

Earlier(i) == \A j \in 1 .. (i - 1) : phase[j] = "done"
Undecided(i) == phase[i] \in {"open", "held"}

Init ==
  /\ phase = [i \in 1 .. N |-> "open"]
  /\ epoch = [i \in 1 .. N |-> 0]

(* A new attempt takes the item, from nobody or from a lapsed attempt.     *)
Acquire(i) ==
  /\ Undecided(i) /\ Earlier(i)
  /\ phase' = [phase EXCEPT ![i] = "held"]
  /\ epoch' = [epoch EXCEPT ![i] = @ + 1]

(* The attempt ends without an outcome.                                    *)
Release(i) ==
  /\ phase[i] = "held"
  /\ phase' = [phase EXCEPT ![i] = "open"]
  /\ UNCHANGED epoch

Complete(i) ==
  /\ phase[i] = "held"
  /\ phase' = [phase EXCEPT ![i] = "done"]
  /\ UNCHANGED epoch

(* Held or not: a refused download gives an item up before any attempt.    *)
Abandon(i) ==
  /\ Undecided(i) /\ Earlier(i)
  /\ phase' = [phase EXCEPT ![i] = "dead"]
  /\ UNCHANGED epoch

Next == \E i \in 1 .. N : Acquire(i) \/ Release(i) \/ Complete(i) \/ Abandon(i)

Spec == Init /\ [][Next]_<<phase, epoch>>
=============================================================================
