----------------------------- MODULE LedgerFacts -----------------------------
(***************************************************************************)
(* The facts the event ledger keeps (src/src/event-ledger.ts) and which    *)
(* fact may follow which: events and receipts are immutable, a plan        *)
(* revision leaves its draft once, an execution moves forward until it has *)
(* ended.  Of an execution snapshot only the status is kept here; the rest *)
(* of its transition check is PlanTransitions.                             *)
(***************************************************************************)
EXTENDS Naturals, Sequences, FiniteSets

CONSTANTS
  Facts,     \* the facts that may be offered: [kind, key, value]
  Capacity   \* per kind, maxEvents, maxReceipts, ...

Kinds == {"event", "receipt", "plan-revision", "execution-snapshot"}

ASSUME FactsType ==
  /\ \A f \in Facts : {"kind", "key", "value"} \subseteq DOMAIN f
  /\ \A f \in Facts : f.kind \in Kinds
ASSUME CapacityType == Capacity \in [Kinds -> Nat]

Status == INSTANCE PlanTransitions
            WITH Tasks <- {"task"}, Agents <- {}, NoAgent <- "none"

ASSUME SnapshotType ==
  \A f \in Facts : f.kind = "execution-snapshot" => f.value \in Status!ExecutionStatus

(* eventId, receiptId, planRevisionKey, executionId *)
SameIdentity(f, g) == f.kind = g.kind /\ f.key = g.key

(* assertPlanRevisionTransition, assertExecutionSnapshotTransition *)
Supersedes(old, new) ==
  \/ /\ new.kind = "plan-revision"
     /\ old.value = "draft"
     /\ new.value \in {"approved", "superseded"}
  \/ /\ new.kind = "execution-snapshot"
     /\ old.value \notin Status!TerminalExecution
     /\ new.value \in Status!ExecutionTransitions[old.value]

(* The places of a fact's earlier versions in a history of facts. *)
Versions(history, fact) ==
  {i \in DOMAIN history : SameIdentity(history[i], fact)}

(* The map entry a history leaves for the fact's identity. *)
Latest(history, fact) ==
  history[CHOOSE i \in Versions(history, fact) :
            \A j \in Versions(history, fact) : j <= i]

(* How many identities of a kind the ledger holds. *)
Held(history, kind) ==
  Cardinality({history[i].key :
                 i \in {j \in DOMAIN history : history[j].kind = kind}})

(* Mutated: a stored identity may be given another content. *)
AdmissibleTwice(history, fact) ==
  IF Versions(history, fact) = {}
  THEN Held(history, fact.kind) < Capacity[fact.kind]
  ELSE TRUE

(* What the recorders and loadRecord accept after that history. *)
Admissible(history, fact) ==
  IF Versions(history, fact) = {}
  THEN Held(history, fact.kind) < Capacity[fact.kind]
  ELSE Supersedes(Latest(history, fact), fact)
=============================================================================
