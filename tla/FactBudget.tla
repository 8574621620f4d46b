----------------------------- MODULE FactBudget ------------------------------
(***************************************************************************)
(* How the events of the ledger's bounded store are promised in advance    *)
(* (src/src/index.ts): an execution reserves the events it may record      *)
(* before its engine starts, and a cancel control the two events that will *)
(* close its audit chain.  Receipts are reserved in the same way.  An      *)
(* event that finds no room is dropped with a warning.                     *)
(***************************************************************************)
EXTENDS Integers, FiniteSets, FiniteSetsExt, Functions

CONSTANTS
  Executions,
  MaxEvents   \* maxEvents

ASSUME ExecutionsType == IsFiniteSet(Executions)
ASSUME MaxEventsType  == MaxEvents \in Nat

VARIABLES
  events,        \* how many events the ledger holds
  remaining,     \* eventsRemaining of the execution's reservation
  controlSlots   \* reservedControlEventSlots

budgetVars == <<events, remaining, controlSlots>>

BudgetType ==
  /\ events \in 0..MaxEvents
  /\ remaining \in [Executions -> Nat]
  /\ controlSlots \in Nat

BudgetInit ==
  /\ events = 0
  /\ remaining = [x \in Executions |-> 0]
  /\ controlSlots = 0

(* reservedExecutionFacts().events + reservedControlEventSlots *)
Reserved == SumFunction(remaining) + controlSlots

(* assertCanRecordFacts, with that many events on top of what is reserved. *)
Room(count) == events + Reserved + count <= MaxEvents

(* recordFoundryEvent of an event about an execution: its own reservation  *)
(* makes way for it while there is any left.                               *)
RecordOfExecution(x) ==
  LET slot == IF remaining[x] > 0 THEN 1 ELSE 0 IN
  /\ IF Room(1 - slot)
     THEN /\ events' = events + 1
          /\ remaining' = [remaining EXCEPT ![x] = @ - slot]
     ELSE UNCHANGED <<events, remaining>>
  /\ UNCHANGED controlSlots

(* recordFoundryEvent of any other event. *)
RecordOther ==
  /\ Room(1)
  /\ events' = events + 1
  /\ UNCHANGED <<remaining, controlSlots>>

(* What is promised fits beside what is recorded, whoever promises and      *)
(* records in which order: no event within a reservation is ever dropped.  *)
PromisesFit == events + Reserved <= MaxEvents
=============================================================================
