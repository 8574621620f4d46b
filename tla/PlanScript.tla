----------------------------- MODULE PlanScript -----------------------------
(***************************************************************************)
(* The fixed script the workflow engine runs for every plan                *)
(* (WORKFLOW_PLAN_SCRIPT of src/src/workflow-adapter.ts) and the arguments *)
(* buildWorkflowPlanArgs gives it: it walks the waves in batches of        *)
(* maxConcurrent, awaits a batch before the next one, and skips a task one *)
(* of whose dependencies did not complete.  Prompts are left out.          *)
(***************************************************************************)
EXTENDS Preflight

(* statusById; "none" while the task has no status. *)
Result == {"none", "completed", "failed", "skipped"}

NoResults(p) == [id \in Ids(p.tasks) |-> "none"]

(* wave.slice(offset, offset + maxConcurrent), for every offset. *)
Slices(wave, size) ==
  [k \in 1..((Len(wave) + size - 1) \div size) |->
     SubSeq(wave, (k - 1) * size + 1,
            IF k * size < Len(wave) THEN k * size ELSE Len(wave))]

Batches(p) ==
  LET waves == ParallelWaves(p)
  IN  FlattenSeq([k \in DOMAIN waves |-> Slices(waves[k], p.maxConcurrent)])

Settled(results, batch) == \A id \in ToSet(batch) : results[id] # "none"

DependencyFailed(p, results, id) ==
  \E d \in Deps(Named(p.tasks, id)) : results[d] # "completed"

(* The skips of one batch, when the script comes to it. *)
Skip(p, results, batch) ==
  [id \in DOMAIN results |->
     IF id \in ToSet(batch) /\ results[id] = "none" /\ DependencyFailed(p, results, id)
     THEN "skipped" ELSE results[id]]

(* The script enters a batch once the one before it is settled. *)
Enter(p, results, before, batch) ==
  IF Settled(results, before) THEN Skip(p, results, batch) ELSE results

(* The script runs on as far as the results allow. *)
Advanced(p, batches, results) ==
  LET after[k \in 0..Len(batches)] ==
        IF k = 0 THEN results
        ELSE Enter(p, after[k - 1], IF k = 1 THEN <<>> ELSE batches[k - 1], batches[k])
  IN  after[Len(batches)]

(* The tasks of the first batch that is not settled: their Agents may run. *)
Runnable(batches, results) ==
  LET open == {k \in DOMAIN batches : ~Settled(results, batches[k])}
  IN  IF open = {} THEN {}
      ELSE {id \in ToSet(batches[CHOOSE k \in open : \A j \in open : k <= j]) :
              results[id] = "none"}

ScriptDone(results) == \A id \in DOMAIN results : results[id] # "none"

(* readWorkflowSummary: as many Agents were started as tasks not skipped.  *)
WellFormed(results, agentsStarted) ==
  Cardinality({id \in DOMAIN results : results[id] # "skipped"}) = agentsStarted
=============================================================================
