-------------------------- MODULE MCOwnedDelegation --------------------------
(* OwnedDelegation on a small instance: identical calls and observed runs. *)
EXTENDS OwnedDelegation, TLC

CallSymmetry == Permutations(Requests) \cup Permutations(ObservedRuns)
=============================================================================
