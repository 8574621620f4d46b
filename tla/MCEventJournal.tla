--------------------------- MODULE MCEventJournal ----------------------------
(* Facts with a conflict, and the two steps of a mutable one; room for one *)
(* identity of each kind.                                                  *)
EXTENDS EventJournal, TLC

Fact(kind, value) == [kind |-> kind, key |-> "k", value |-> value]

SmallFacts ==
  {Fact("event", "a"),
   Fact("plan-revision", "draft"), Fact("plan-revision", "approved")}

SmallCapacity == [kind \in Kinds |-> 1]

HostSymmetry == Permutations(Hosts)
=============================================================================
