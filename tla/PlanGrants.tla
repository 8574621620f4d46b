----------------------------- MODULE PlanGrants -------------------------------
(***************************************************************************)
(* From an approved plan revision to its execution (src/src/index.ts):     *)
(* issuePlanExecutionGrant, consumeExecutionGrant, executeApprovedPlan and *)
(* the facts it reserves.  Issuing and executing await the capabilities of *)
(* the host, so any number of calls about one plan interleave there.       *)
(*                                                                         *)
(* A plan stands for one approved revision; it stays approved (PlanStore). *)
(* What an execution does between its start and its end is                 *)
(* WorkflowExecution; here it only records events.                         *)
(***************************************************************************)
EXTENDS FactBudget

CONSTANTS
  Plans,      \* keys of approved revisions
  Issuers,    \* calls of issuePlanExecutionGrant, one at a time each
  Grants,     \* identifiers randomUUID may return (model only)
  MaxGrants,  \* 256
  Envelope,   \* executionFactEnvelope(plan).events
  None        \* no plan, no grant

ASSUME PlansType     == None \notin Plans \cup Grants
ASSUME MaxGrantsType == MaxGrants \in Nat \ {0}
ASSUME EnvelopeType  == Envelope \in [Plans -> Nat] /\ \A p \in Plans : Envelope[p] >= 2

VARIABLES
  asking,   \* the plan each issuer awaits the capabilities for
  grantOf,  \* grantByPlanKey
  granted,  \* the plan each identifier was issued for
  stored,   \* executionGrants, the expired ones not yet pruned included
  expired,  \* grants whose expiresAt has passed
  active,   \* activePlanExecutions
  stage,    \* where each execution stands
  plan,     \* the plan it executes
  spent     \* the grant it consumed

grantVars == <<grantOf, granted, stored, expired>>
executionVars == <<active, stage, plan, spent>>
vars == <<budgetVars, asking, grantVars, executionVars>>

Stage ==
  {"new",
   "checking",  \* consumed its grant, awaits the capabilities
   "running",   \* its engine started
   "over"}

TypeOK ==
  /\ BudgetType
  /\ asking \in [Issuers -> Plans \cup {None}]
  /\ grantOf \in [Plans -> Grants \cup {None}]
  /\ granted \in [Grants -> Plans \cup {None}]
  /\ stored \subseteq Grants
  /\ expired \subseteq Grants
  /\ active \subseteq Plans
  /\ stage \in [Executions -> Stage]
  /\ plan \in [Executions -> Plans \cup {None}]
  /\ spent \in [Executions -> Grants \cup {None}]

Init ==
  /\ BudgetInit
  /\ asking = [i \in Issuers |-> None]
  /\ grantOf = [p \in Plans |-> None]
  /\ granted = [g \in Grants |-> None]
  /\ stored = {} /\ expired = {}
  /\ active = {}
  /\ stage = [x \in Executions |-> "new"]
  /\ plan = [x \in Executions |-> None]
  /\ spent = [x \in Executions |-> None]

(* The index without the grants that leave the store. *)
Unindexed(gone) ==
  [p \in Plans |-> IF grantOf[p] \in gone THEN None ELSE grantOf[p]]

(* pruneExecutionGrants *)
Prune ==
  /\ stored' = stored \ expired
  /\ grantOf' = Unindexed(expired)

(* assertPlanExecutionCapacity *)
CanStart(p) == Room(Envelope[p])

(* issuePlanExecutionGrant up to its await. *)
AskGrant(i, p) ==
  /\ asking[i] = None
  /\ Prune
  /\ asking' = IF p \notin active /\ CanStart(p)
               THEN [asking EXCEPT ![i] = p] ELSE asking
  /\ UNCHANGED <<budgetVars, granted, expired, executionVars>>

(* The capabilities do not fit the plan, or the call was aborted. *)
GrantRefused(i) ==
  /\ asking[i] # None
  /\ asking' = [asking EXCEPT ![i] = None]
  /\ UNCHANGED <<budgetVars, grantVars, executionVars>>

(* Another call was faster, or no more grants are stored: the first is     *)
(* answered with the grant of that call.                                   *)
GrantRepeated(i) ==
  /\ asking[i] # None
  /\ Prune
  /\ grantOf'[asking[i]] # None \/ Cardinality(stored') >= MaxGrants
  /\ asking' = [asking EXCEPT ![i] = None]
  /\ UNCHANGED <<budgetVars, granted, expired, executionVars>>

(* A new grant, after the await.  Whether the plan executes by now is not  *)
(* looked at again.                                                        *)
GrantIssued(i, g) ==
  LET p == asking[i] IN
  /\ p # None
  /\ granted[g] = None
  /\ grantOf[p] \in expired \cup {None}
  /\ Cardinality(stored \ expired) < MaxGrants
  /\ stored' = (stored \ expired) \cup {g}
  /\ grantOf' = [Unindexed(expired) EXCEPT ![p] = g]
  /\ granted' = [granted EXCEPT ![g] = p]
  /\ asking' = [asking EXCEPT ![i] = None]
  /\ UNCHANGED <<budgetVars, expired, executionVars>>

(* expiresAt passes.  Grants expire in the order they were issued; nothing *)
(* depends on it.                                                          *)
Expire(g) ==
  /\ g \in stored \ expired
  /\ expired' = expired \cup {g}
  /\ UNCHANGED <<budgetVars, asking, grantOf, granted, stored, executionVars>>

(* consumeExecutionGrant finds the grant and takes it out of the store. *)
Consume(g) ==
  /\ g \in stored \ expired
  /\ stored' = stored \ (expired \cup {g})
  /\ grantOf' = Unindexed(expired \cup {g})

(* Mutated: the plan is freed by whoever finds it active. *)
ExecuteRefusedFreeing(g) ==
  /\ Consume(g)
  /\ active' = active \ {granted[g]}
  /\ UNCHANGED <<budgetVars, asking, granted, expired, stage, plan, spent>>

(* The grant is for another plan, or expired meanwhile, or its plan is     *)
(* executing already: it is spent all the same.                            *)
ExecuteRefused(g) ==
  /\ Consume(g)
  /\ UNCHANGED <<budgetVars, asking, granted, expired, executionVars>>

(* executeApprovedPlan up to its await. *)
Execute(x, p, g) ==
  /\ stage[x] = "new"
  /\ Consume(g)
  /\ granted[g] = p
  /\ p \notin active
  /\ active' = active \cup {p}
  /\ stage' = [stage EXCEPT ![x] = "checking"]
  /\ plan' = [plan EXCEPT ![x] = p]
  /\ spent' = [spent EXCEPT ![x] = g]
  /\ UNCHANGED <<budgetVars, asking, granted, expired>>

(* The finally block. *)
Leave(x) ==
  /\ active' = active \ {plan[x]}
  /\ stage' = [stage EXCEPT ![x] = "over"]
  /\ UNCHANGED <<plan, spent>>

(* Capabilities that changed, a preflight that fails, a call aborted, no   *)
(* room for the facts, or an adapter that throws at once.                  *)
CheckFails(x) ==
  /\ stage[x] = "checking"
  /\ Leave(x)
  /\ UNCHANGED <<budgetVars, asking, grantVars>>

(* The engine throws after the queued checkpoint: the queued and the       *)
(* terminal event are recorded, the rest of the reservation is released.   *)
EngineThrows(x) ==
  /\ stage[x] = "checking"
  /\ CanStart(plan[x])
  /\ events' = events + 2
  /\ Leave(x)
  /\ UNCHANGED <<remaining, controlSlots, asking, grantVars>>

(* Mutated: the facts are not counted beside those of other executions. *)
EngineStartsUncounted(x) ==
  /\ stage[x] = "checking"
  /\ events + Envelope[plan[x]] <= MaxEvents
  /\ events' = events + 2
  /\ remaining' = [remaining EXCEPT ![x] = Envelope[plan[x]] - 2]
  /\ stage' = [stage EXCEPT ![x] = "running"]
  /\ UNCHANGED <<controlSlots, asking, grantVars, active, plan, spent>>

(* reservePlanExecutionFacts, claimed by the queued checkpoint; the queued *)
(* and the started event are recorded.                                     *)
EngineStarts(x) ==
  /\ stage[x] = "checking"
  /\ CanStart(plan[x])
  /\ events' = events + 2
  /\ remaining' = [remaining EXCEPT ![x] = Envelope[plan[x]] - 2]
  /\ stage' = [stage EXCEPT ![x] = "running"]
  /\ UNCHANGED <<controlSlots, asking, grantVars, active, plan, spent>>

(* An event about the execution, also after its end. *)
ExecutionRecords(x) ==
  /\ stage[x] \in {"running", "over"}
  /\ RecordOfExecution(x)
  /\ UNCHANGED <<asking, grantVars, executionVars>>

(* Mutated: the reservation of an ended execution is kept. *)
ExecutionEndsHolding(x) ==
  /\ stage[x] = "running"
  /\ Leave(x)
  /\ UNCHANGED <<events, remaining, controlSlots, asking, grantVars>>

(* The result and the disposal are there (WorkflowExecution): the rest of  *)
(* the reservation is released.                                            *)
ExecutionEnds(x) ==
  /\ stage[x] = "running"
  /\ remaining' = [remaining EXCEPT ![x] = 0]
  /\ Leave(x)
  /\ UNCHANGED <<events, controlSlots, asking, grantVars>>

(* A plan is saved or approved, or a tool is observed. *)
OthersRecord == RecordOther /\ UNCHANGED <<asking, grantVars, executionVars>>

(* A cancel control is requested (issueCancelControlGrant); it is consumed,  *)
(* or has its result, which takes one of the two slots, or it is           *)
(* invalidated, which frees both.                                          *)
ControlRequested ==
  /\ Room(3)
  /\ events' = events + 1
  /\ controlSlots' = controlSlots + 2
  /\ UNCHANGED <<remaining, asking, grantVars, executionVars>>

ControlRecords(freed) ==
  /\ controlSlots >= freed
  /\ events' = events + 1
  /\ controlSlots' = controlSlots - freed
  /\ UNCHANGED <<remaining, asking, grantVars, executionVars>>

Issuing ==
  \E i \in Issuers :
    \/ \E p \in Plans : AskGrant(i, p)
    \/ GrantRefused(i) \/ GrantRepeated(i)
    \/ \E g \in Grants : GrantIssued(i, g)

Ending(x) == CheckFails(x) \/ EngineThrows(x) \/ EngineStarts(x) \/ ExecutionEnds(x)

Executing ==
  \/ \E g \in Grants : Expire(g) \/ ExecuteRefused(g)
  \/ \E x \in Executions :
       \/ \E p \in Plans, g \in Grants : Execute(x, p, g)
       \/ Ending(x) \/ ExecutionRecords(x)

Next == \/ Issuing \/ Executing \/ OthersRecord \/ ControlRequested
        \/ \E freed \in 1..2 : ControlRecords(freed)

Spec == Init /\ [][Next]_vars

(* The capabilities arrive or fail to, and an execution ends               *)
(* (EveryExecutionEnds of WorkflowExecution).                              *)
FairSpec == Spec /\ \A x \in Executions : WF_vars(Ending(x))

-----------------------------------------------------------------------------
Executors == {x \in Executions : stage[x] \in {"checking", "running"}}

(* docs/agent-planner.md: "A duplicate active start for the same revision  *)
(* is rejected", and "a short-lived, single-use grant".  The set of active *)
(* plans is exactly the plans of the calls between their start and their   *)
(* finally block, one call each; and no two executions were paid with one  *)
(* grant, each with a grant for its plan that can no longer be found.      *)
EachStartHasItsGrant ==
  /\ active = {plan[x] : x \in Executors}
  /\ \A x, y \in Executors : plan[x] = plan[y] => x = y
  /\ \A x, y \in Executions : spent[x] = spent[y] /\ spent[x] # None => x = y
  /\ \A x \in Executions : spent[x] # None =>
       granted[spent[x]] = plan[x] /\ spent[x] \notin stored

(* Nothing stays taken for good: a plan is free again, and the events that *)
(* were reserved are released, whichever way its execution goes.           *)
NothingStaysTaken ==
  /\ \A p \in Plans : p \in active ~> p \notin active
  /\ \A x \in Executions : remaining[x] > 0 ~> remaining[x] = 0
=============================================================================
