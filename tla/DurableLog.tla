----------------------------- MODULE DurableLog ------------------------------
(***************************************************************************)
(* What the journal promises across hosts, restarts and crashes: the       *)
(* history a restart would bring back grows by one fact at a time, no fact *)
(* of it contradicts an earlier one, and none of it is lost unless the     *)
(* storage itself was harmed, and then only from the end.                  *)
(***************************************************************************)
EXTENDS LedgerFacts

VARIABLES
  log,     \* the facts a restart would bring back, in order
  harmed   \* was the file damaged, or did the disk fail while it was read?

IsPrefixOf(short, long) ==
  Len(short) <= Len(long) /\ \A i \in 1..Len(short) : short[i] = long[i]

Init == log = <<>> /\ harmed = FALSE

Grow ==
  \E fact \in Facts :
    /\ \A i \in DOMAIN log :
         SameIdentity(log[i], fact) => Supersedes(log[i], fact)
    /\ log' = Append(log, fact)
    /\ UNCHANGED harmed

Suffer ==
  /\ harmed' = TRUE
  /\ IsPrefixOf(log', log)

Next == Grow \/ Suffer

Spec == Init /\ [][Next]_<<log, harmed>>
=============================================================================
