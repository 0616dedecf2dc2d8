----------------------------- MODULE MCDelivery -----------------------------
(* Instances of DeliveryProperties for TLC.                                *)
EXTENDS DeliveryProperties, TLC

TaskSymmetry == Permutations(Workers) \cup Permutations(Fingerprints)
=============================================================================
