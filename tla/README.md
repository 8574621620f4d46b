# Verification of the DSH Product Subagent Console

This directory holds a TLA+ development of the plugin: what its host half
promises about delegations, plan executions and their record, the plan workbench
of the browser that works with it, and what the model checker TLC and the proof system TLAPS establish about it.

    tlc -workers 2 -config workflow.cfg MCWorkflowExecution.tla
    tlapm WorkflowExecutionProofs.tla

Paths below are relative to `src/src/` unless they say otherwise.

## The system

The plugin runs inside one single-threaded DSH host process. Everything that is
concurrent is a matter of which *continuation* runs next: promises of calls that
wait, timers, abort signals, the lifecycle edges of the subagent runtime, the
Agent events of the workflow engine, RPCs of the browser, and the unload of the
plugin or a restart of the host. A stretch of code between two `await`s is
atomic; that is the grain of every action in the models, except where the
process may end between two writes to the disk, or another process may look at
the disk: there a step is one write or one file-system call.

| Component | State it keeps | Operations | Interacts through |
| --- | --- | --- | --- |
| Admission controller (`domain.ts` 57-132) | active permits, FIFO queue, closed | acquire, release+pump, abort of a queued request, close | promises of `startOwned`, abort listeners |
| Live ledger (`domain.ts` 135-313) | attempts, runs, trimmed history, revision | createAttempt, markStarting, settleAttempt, publish, settle, relabel | called by `startOwned`, the subagent runtime's edges |
| Owned delegation (`index.ts` 1906-2000, 2357-2380; `tool.ts`) | one call's progress, its fused signal | startOwned, dispose, timeout, unload | controller, ledger, provider |
| Plan store (`plan-store.ts`, `index.ts` 864-886, 1826-1852, 2002-2006) | revisions of plans, each draft, approved or superseded | restore, saveDraft, approve, and the list of records each of them leaves | RPCs, event ledger |
| Preflight and waves (`plan-preflight.ts`, `plan-types.ts`) | none | preflightAgentPlan, deriveParallelWaves | plan store, execution |
| Workflow script (`workflow-adapter.ts` 23-129, 790-923) | status by task | validateStart, arguments, waves, batches, skip on failed dependency | engine |
| Execution grants (`index.ts` 897-1066, 1160-1167) | one-time grants and their index, active plan keys | issue, consume, execute, prune | RPCs, plan store, adapter |
| Fact reservations (`index.ts` 1068-1158, 2089-2122) | events promised to executions and controls | reserve, claim, release, record | execution grants, control grants, event ledger |
| Execution tracker and adapter (`planner-execution.ts`, `workflow-adapter.ts`) | snapshot, watchdog, monitor, active runs, history | start, cancel, Agent events, monitor, dispose | engine, event ledger, callers |
| Execution record (`plan-execution-transition.ts`, `plan-execution-store.ts`, `event-ledger.ts` 319-336) | latest snapshot of each execution | upsert, restore, evict | adapter, Foundry RPCs |
| Event ledger (`event-ledger.ts`) | hash-chained journal, events, revisions, snapshots, receipts | record…, load, quarantine, append | everything durable |
| Storage lock (`event-ledger.ts` 566-680, 218-233) | owner marker and `writer.lock` in the storage directory | claim, create, inspect, take over, unlink | other host processes, through the file system |
| Control grants (`index.ts` 1169-1400) | grants bound to run and cursor, reserved slots | issue, execute cancel, sweep, close all | browser, adapter, ledger |
| Recovery at start (`index.ts` 377-382, 2205-2299) | none of its own | close control chains, repair derived events and receipts, end interrupted executions | ledger, plan store, execution record |
| Capability catalog (`capability-catalog.ts`, `index.ts` 1403-1518) | by provider: cached models, load in flight, end of the cooldown | load, boundedWait, collectLlmRoutes | every RPC that needs the capabilities |
| Revision long-poll (`index.ts` 1521-1663) | listeners of each repository | wait for a revision, heartbeat | watch loops of the browser |
| Temporal view, conformance, recovery, query, capsule, recipe, telemetry (`temporal-execution.ts`, `conformance.ts`, `recovery.ts`, `run-query.ts`, `capsule.ts`, `recipe.ts`, `telemetry.ts`) | none | pure functions over the record | Foundry RPCs |
| Browser workbenches (`client/*Workbench*.tsx`, `client/SubagentWorkbenchView.tsx`, `client/index.ts`) | last snapshot, edited draft, running action, confirmations | watch loops, save, preflight, approve, execute, cancel | RPCs |

### What is hard

* **Interleaving.** `startOwned` has five awaits and six ways out; aborts,
  timeouts, edges and the unload fall between any two. `monitor` races the
  result, the watchdog and the disposal.
* **Late and reordered events.** A start edge may come after its attempt was
  settled; an agent-end before its agent-start, either after the execution
  ended.
* **A backend that does not answer.** Result and disposal may never settle and a
  cancellation may be ignored.
* **Crash and restart.** Every fact is journaled as it is taken, one line each. A
  handler that writes several may be cut between any two of them; a restart
  finds executions that nobody will ever finish, control chains without a
  result, snapshots without their event, plan revisions without the one they
  superseded.
* **Two hosts over one directory.** The storage lock is a file, read in one call
  and moved in another.
* **Checks before an await.** Approving, issuing a grant and executing await the
  capabilities of the session; whatever they looked at may have changed after.
* **A page over a moving host.** The browser shows a snapshot, a preflight and a
  confirmation while another editor saves, the capabilities change, the answer of
  an action it gave up is still on its way, or another host has started.
* **A record read back.** Report, recovery proposal, answers and capsule are made
  of whatever events arrived; they must not say more than those show.
* **Limits.** Permits, queue places, observed runs and history are bounded, and
  each bound is enforced by deleting or refusing something.

### What makes each component correct

* Controller: no permit lost or duplicated, first come first served, nobody
  waits beside a free permit.
* Owned delegation and ledger: a permit is held exactly while the run may be
  alive; every call has one card; every call ends.
* Execution: it reaches one recorded end that never changes; that end is honest
  (a success is whole, an accepted cancellation is not reported as success);
  tracker and record agree; a crash leaves `unknown`, never a guess.
* Plan store and grants: an approved revision is immutable, executes at most
  once at a time, and only under the capabilities that were shown.
* Reservations: what was promised to one execution or control is never used up
  by another and never outlives it.
* Controls: a grant acts at most once and only on the state it was issued for;
  its audit chain is whole and closed whatever happens to the host.
* Event ledger: a prefix of what was recorded survives a crash, a corrupt
  journal is never taken for history, durability is only claimed of what is on
  the disk.
* Storage lock: one writer, and the successor of a dead one gets to write.
* Preflight and script: what preflight calls executable runs within the limits,
  in the order of its dependencies, and never with two writers of one place.
* Record, report and exports: the events tell the same as the snapshots, the past
  of a run never changes, nothing is confirmed, reused or exported without what
  it rests on.
* Workbench: what is approved and executed is what the user reviewed, edits are
  not lost, and the page catches up with the host.
* Catalog and long-poll: the models are those of the newest question; no news waits
  for a heartbeat.

## Modules

`Admission` - the `AdmissionController`. `active`, `pending` and `closed` are its
fields; `grant[r]` is the promise `acquire` returned and, once released, the
`released` flag of its callback; `aborted` the state of the callers' signals.
`Acquire` is a disjunction of the four outcomes in the order the code tests
them. `Release` contains the whole `pump`: the loop grants at most once because
a single permit was freed and none other is free while someone waits
(`QueueOnlyWhenFull`, proved).

`OwnedDelegation` EXTENDS it with `startOwned` and the ledger. `stage[r]` is the
program counter of one call, one action for each segment between two awaits.
`provider[r]` is the run as the external runtime sees it (launched, published,
ended), and its edges (`RunPublished`, `RunEnded`) come at any time after the
launch. `ownedAborted` are the fused signals that aborted (caller, timeout or
unload). `attempt`, `run` and `history` are the ledger; `history` is the order
in which records finished, which is what `trimSettled` sorts by. Observed runs
(`ObservedRuns`) share the history and are refused at `MaxObservedActive`.

`PlanTransitions` - the snapshot of an execution, the two transition tables,
`Legal` (planExecutionTransitionError is undefined, times apart) and `Interrupted`
(what a restart makes of a record). A list of attempts per task replaces the flat
`bindings` array: `attemptNumber` is the position.

`ExecutionTimes` - createdAt, startedAt and finishedAt of an execution and the starts of
its attempts, as `Date.now` stamps them. `Sensible` is what `planExecutionSchema` asks of
them when the tracker parses a snapshot, `DatesMove` what `monotonicTimes` asks of a
snapshot and its successor when the ledger is given one, `Backdated` that a time lies
before the creation.

`ExecutionTracker` - the operators of `PlanExecutionTracker` and of the adapter
that change a snapshot: an Agent starts or ends, unsettled attempts are settled,
the result is turned into a status. Both modules that follow an execution use it.

`ExecutionLifecycle` - the abstract specification: an execution appears queued,
moves by legal transitions only, and never changes once it ended.

`WorkflowExecution` - one execution. `snapshot` is the tracker, `durable` the
record, `monitor` the program counter of `monitor` with the locals that survive
an await, `watchdog` the cancellation watchdog, `caller` `executeApprovedPlan`.
`launched` and `started` stand for the external engine, `clock` for `Date.now`, which
`ClockMoves` sets back or forth between two handlers as `ClockSteps` allows, and which is
`Steady` if none of its steps goes back;
`dates` and `kept` are the times in `snapshot` and `durable`. Every change of the tracker
is parsed by the schema and reaches `persistExecutionSnapshot` in the same step (`Track`);
a refusal of the ledger is only logged, whereas the last persist of `executeApprovedPlan`
(`CallerResumes`) rejects the call. Where the schema refuses, the handler throws: out of
`start` (`StartRejected`), into the engine (an Agent event changes nothing), out of
`monitor` (`Rejected`: half of the handler is kept, the run stays active and
`CallerRejected` tells the caller), or out of the constructor of the next host (stage
"down"). Several tracker updates in one synchronous segment are one step. The one
intermediate snapshot the ledger may keep when it refuses the last is that of a new attempt
in its first status (`Opened`); `RecordKeepsUp` shows that otherwise none is refused.

`StorageLock` - several host processes over one directory. `pc[h]` is the program
counter of `acquireStorageLock` and of `dispose`, a step for each file-system
call; `directory`, `marker` and `lock` are what the disk holds, a marker or lock torn
by a crash included. `MistakenPids` are the hosts whose pid another process carries
after their end, so that their lock looks alive; `SerialStarts` says that no host
starts while another is at it; `FailingDisk` are the hosts whose calls may fail.

`LedgerFacts` - what may follow what in the journal: a fact is a new record or a
new version of a plan revision or of an execution, and `Admissible` is the test
of the loader and of the recorders.

`EventJournal` EXTENDS both: `file` is the sequence of lines, a line being the
history its hash chain vouches for together with its own fact; `tail` whether
half a line follows; `history[h]` what host `h` has in memory; `storage[h]` its
durability. `Load` is the constructor, `Quarantine` its catch block, `AppendRecord`
and `AppendFails` the two ends of `append`, `EndsWhileAppending` the crash within.
`Damage` happens to the file once, between two hosts. `DurableLog` is the abstract
specification: a log that only grows, or is cut to a prefix by a harm.

`PlanStore` - one plan. `revisions` is the in-memory list, `ledger` its durable
copy; `SaveDraft` and `Approve` change the first and leave in `persisting` the list
that `persistPlanRevisions` then records one by one (`Persist`), with a crash
possible before each. `approval` is the RPC across its await, `capabilities` what
the session offers meanwhile. `clock` is the wall clock, which may step back
(`steppedBack`); the ledger refuses a version that is older than the one it holds.

`FactBudget` - the bounded store of events shared by executions, controls and
others. `remaining[x]` is the reservation of an execution, `controlSlots` the
slots of the controls, `Room` the test of `assertCanRecordFacts`.

`PlanGrants` EXTENDS it with the grants of approved plans. `asking[i]` is a call
of `issuePlanExecutionGrant` at its await; `stored` and `grantOf` are the two maps;
`stage[x]` is `executeApprovedPlan`, whose middle is one action each for the
engine's start and end (`WorkflowExecution` has the inside).

`ControlGrants` EXTENDS it with the cancel controls and the restart of the host.
`trail[x]` is the part of the ledger that is about one execution, in order, so the
cursor is its length; `todo` is the rest of the handler that runs, in which only
the end of the process may come between two entries. The constructor is the
`todo` "control", "derived", "interrupted": close the chains, repair missing
events, end interrupted executions.

`PlanShape` - a plan revision, its waves (`ParallelWaves`, as a fold) and the overlap
of write scopes. `Preflight` - every diagnostic of `preflightAgentPlan` with its
severity. `HostCapabilities` - the snapshot `executionCapabilities` makes of the
host. `PlanScript` - `validateStart`, the arguments of the script and its batches.

`ExecutionRecord` - what one snapshot makes the host write: events, receipts, in
their order (`recordExecutionTransitions`), what a restart adds to them, and the
execution as of a cursor (`View`, `projectExecutionAtCursor`). `Conformance` - the
report with its findings and receipts, and the recovery proposal. `RunExports` - the
answers to the queries with what they cite, the selection of a capsule, what its
schema asks of it, and which run may found a recipe. `FindingsAreDistinct` says when
`buildRecoveryProposal` does not throw; where it does, `PlanRun!Reports` is empty.

`PlanRun` composes them: one plan from its preflight through the script and its
Agents to the report. `engine` is what the Agents do, `live` the execution in memory,
`store` snapshot, trail and receipts in the ledger. `Do` makes the writes of one
handler, or some of them before the host stops. Agent events may be lost, an Agent
refused, one or two may run beside the plan, the execution may be cancelled. `behind` is how
far the clock has stepped back (`ClockStepsBack`), so that what is written later may be
stamped earlier: to a moment after the start of what still runs, since the tracker throws
otherwise, which is `WorkflowExecution`'s.

`CapabilityCatalog` - the models of one provider. Loads are numbered in the order
they began; `flight` is the one that callers join, `cached` the one whose models are
kept. `RevisionPoll` - comparison, subscription and heartbeat of the long-poll, and
the request of the browser's loop.

`PlanWorkbench` EXTENDS both with the plan workbench and the handlers it calls.
`ui` is the state of the component (one field for each `useState` that matters),
`call` the request of the action under way, `orphans` those that were given up and
may still take effect. `Show` is a change of state with the effects that React runs
after it. A handler that needs the capabilities is two steps, `HostReads` before its
await and `Concludes` after it. `Elsewhere` is the plan tool or another browser.

The `MC…` modules instantiate them. `OwnedDelegationProofs` (with the controller),
`WorkflowExecutionProofs`, `LedgerProofs` (lock and journal, plan store, grants),
`ControlGrantsProofs`, `PlanWorkbenchProofs` (with the catalog), `PlanRunProofs` (from the
preflight to the record of a run) and `RunReportProofs` (what is concluded from the record)
hold the proofs, `DataLemmas` the facts about sums and induction that several need. A `TypeOK` that
no run names is there for the reader and for the proofs. Not composed: `PlanStore`
takes the journal as a ledger that keeps every record it accepts (`JournalIsDurable`
is why), `PlanGrants` and `ControlGrants` take the execution as something that
starts, records events and ends (`EveryExecutionEnds`), `PlanWorkbench` takes the
repository as one that loses nothing (`AcknowledgedSurvives`).

Operators commented "Mutated" are deliberately wrong variants of the operator
that follows them. Substituting one for the other makes TLC refute the property
it is paired with in `PROJECT.json`, which shows that the property can fail.

## Runs

| Run | Instance | Shows |
| --- | --- | --- |
| `owned_safety` | 3 calls, 1 permit, 1 place, 3 observed runs of which 2 are listed while active, history 2 | permits, cards and history follow the calls |
| `owned_liveness` | 3 calls, 1 permit, 2 places, history 0 | queue exactness, no overtaking, and every call ends |
| `workflow` | 2 tasks; an engine with an Agent each and nothing new after the result, one with up to 2 Agents and events at any time, and the first once more under a clock that moves between 0 and 1, at any time with one Agent and once back with two | the record keeps up unless the execution is dated before its creation, an end is honest even if a handler throws half way, cancellation wins, the caller hears of every execution, and under a steady clock it ends on record; the orderly engine implements `ExecutionLifecycle` |
| `workflow_rewritten` | the first two engines of `workflow` | **violated**: a late agent-start rewrites a terminal tracker |
| `lock_serial` | 3 hosts that start one at a time, a failing disk, a reused pid | one writer; the successor of a dead one gets to write |
| `lock_together` | hosts that start together | **violated**: two hosts own the lock |
| `journal` | 3 hosts one after another, a failing disk, one damage | durability is claimed only of what is on disk; the loader accepts what the recorders wrote; implements `DurableLog` |
| `plans` | 3 revisions, 2 contents, 2 capability digests, clock 0..1 | every crash can be restored to what the repository had, what was acknowledged survives, an approved revision is never rewritten |
| `grants` | 2 plans, 2 callers, 2 executions, 3 grants, room for 5 events | every start has a grant of its own, one execution per plan, reservations that neither leak nor overlap, plans become free |
| `controls` | 2 executions, 2 grants, room for 11 events | audit chains whole, closed and with their slots across crashes, a newer event invalidates, no status without its event, every grant closes |
| `plan_run` | all graphs of 3 tasks, about 40 variants of plans and hosts, 10 executions with up to 2 faults, a step of the clock among them; a capsule of 6 events, 1 receipt, 3 findings | what runs is what preflight admitted; record, view, report, proposal, answers and capsule agree |
| `workbench` | 2 plans of 2 revisions, 11 scenarios of a few events each | review before approval and execution, edits survive, newest catalog, the page catches up |

**Bounds.** Three calls with one permit give a holder, a waiter and a third that
is refused (one place) or overtaken (two places). History limits 0 and 2 cover
"trim at once" and "trim one of several". Two tasks are the least for a partial
success; a second Agent for one task is the least for a list of two attempts. Two times
are the least for a start before a creation or an end before a start; the engine whose
events come late is tried under a clock that stands still, since the two together would fill a
state space; a steady clock might as well stand still, for the code compares times with >= only.
Three hosts are a dead owner, one that takes over and one that comes in between
or after. Three revisions are the least for a superseded, an approved and a
draft one together. In `grants` and `controls` the ledger has room for about one
execution and two controls, which is where promises compete; the record limits
of `LedgerFacts` and `PlanStore` are reached too. Two grants for one execution
are the least for one to invalidate the other. Three tasks are the least for a chain, a wave that needs two
batches, and a join; `MaxFindings` and the other limits of the capsule are small
enough to be reached by these runs. In `workbench` each scenario spends its own
few events, chosen so that those that disturb one another meet: edits with
another editor, with a tab change and with a lost answer; checks with changing
capabilities and with a catalog that expires; a restart with news. Bounds of the
model only: `MaxClock`, `Times`, `ClockSteps`, `Budgets`, `Cases`, the identifiers in `Grants` (a grant is issued once), one `Damage`,
`OtherEvents`, the executions (each runs once). All state spaces are finite
without a state constraint.

**Symmetry** is used for calls, observed runs, contents and digests in runs without
liveness only.

**Deadlock.** A call history of `OwnedDelegation` ends in `Quiet`, so TLC checks
for deadlock there, and in `grants` and `controls` somebody can always act or the
host can end. An execution really stops when it was released, refused or lost,
hosts that have all ended leave nothing to do, a plan whose revisions and clock are
used up rests, a run ends with its report, and a user may do nothing more; hence
`CHECK_DEADLOCK FALSE` in the other runs.

**Fairness.** `Segment(r)` is weakly fair: a settled promise runs its
continuation, a provider settles `start` and `dispose`, and the tools dispose
every run they were handed (`tool.ts` settleForeground, settleBackground).
Callers, signals and lifecycle edges are not fair. For an execution only timers
and continuations are fair (`planTimeoutMs`, `cancelGraceMs`,
`disposeGraceMs`); nothing is assumed of the engine or the clock, so `EveryExecutionEnds`
covers a backend that never answers and a tracker that throws. `Acquire(h)` of the storage lock is fair
because the constructor is synchronous. In `grants` the capabilities arrive or
fail and a started execution ends, which is what `EveryExecutionEnds` shows; the
callers are not fair. In `controls` a handler that has begun runs to its end, a
grant's time passes and the sweep's interval fires; nobody is assumed to execute
a grant. In `workbench` the host handles the request under way, boundedWait's timer
fires, and what arrives is shown; nothing is assumed of the user, the heartbeat or
the model provider, so `NewsArrives` covers a provider that never answers and does
not lean on the 25 seconds of a long-poll.

## Findings

1. `LateEventsCannotRewrite` - the comment at `workflow-adapter.ts` 560-562 does
   not hold while the disposal is awaited: `onAgentStart` still finds the run
   active.
2. `SingleWriter` - `recoverStaleStorageLock` reads the lock and later renames
   whatever has its name; of two hosts that start together over a stale lock both
   become its owner (`event-ledger.ts` 628-642; `docs/data-and-privacy.md` 35).

Observed while modelling and kept as conditions of properties, or as hazards:

* The unload aborts the controllers that exist and rejects the requests that wait;
  a call granted but not yet resumed is neither, and starts its provider with a
  signal nothing aborts (`index.ts` 568-579 and 1943-1953;
  `tests/service.spec.ts` 725). Its permit is still given back.
* An Agent start that was not observed leaves a start stamped with the creation of
  the execution, from which `inspectRun` concludes an order violation that did not
  happen; `ReportIsHonest` therefore speaks of runs whose Agents were all observed.
* After a crash `child-published` is not repaired, and a `throughCursor` beyond the
  last event of a run loses its report.
* "Why running" and "cancel impact" cite every event of the run (`run-query.ts` 189,
  247) while the schema of a fact allows 64 (`foundry-types.ts` 454): a run with more
  events has no answer to them. The model has no such limit.
* A new plan that was saved while others exist is not yet in the snapshot, so the
  selection effect shows the first plan of the snapshot instead. An approval whose
  answer was lost leaves the editor in draft although the host approved; a new plan
  whose answer was lost is saved twice by a retry.
* The preflight on screen may be of another plan; only `canApprove` compares it.
  `executionCapabilities` reads Subagent providers before its await and the tools
  after it; what is approved is the digest that was shown, and execution computes it
  again.
* Attempts are settled when the result is taken, not when the execution ends, so
  an Agent that starts in between stays `running` in the terminal record:
  `EndIsHonest` speaks of the orderly engine.
* A lock or marker torn by a crash is never recovered; every later host stays in
  memory (`SuccessorGetsTheDisk` asks for whole ones).
* A lost last line leaves a shorter journal that looks intact.
* A wall clock that stepped back makes the ledger refuse the record of a
  revision the repository already changed; after that the two disagree.
* The same of an execution: if it steps back behind the creation of a running
  execution, the ledger refuses the next attempt and everything after it, while the
  tracker goes on; `RecordKeepsUp` excepts these (`Backdated`). If it steps back behind
  the start of what is to be settled or ended, the schema throws out of `markRunning` or
  of `monitor`: no end is recorded, the run stays in `activeByWorkflowId`, and the caller
  gets the error. `EveryExecutionEnds` therefore promises a recorded end only if the
  clock is steady.
* If it stands before the start of what the next host has to close,
  `closeInterruptedDurableExecutions` throws out of the constructor (`index.ts` 2247-2261,
  382): the execution stays open and the plugin does not start until the clock has caught
  up, although `docs/data-and-privacy.md` 23 says that nonterminal recovered executions are
  closed as unknown. In the model that is the stage "down".
* All findings of Agents beside the plan have one identity (`conformance.ts` 112-118). With
  two of them `buildRecoveryProposal` throws (`recovery.ts` 258), uncaught through
  `foundrySnapshot` (`index.ts` 680-698): the snapshot of the session fails, with it
  `inspectRun`, the controls and the capsule of every run in it, although
  `tests/conformance.spec.ts` 493 has such events kept visible. `Reports` is then empty, and
  what the other properties say of reports is of runs that have one (`FindingsAreDistinct`).
* `conformance.ts` 285 compares the end of a dependency with the start of the next task
  by wall clock: after a step back a run in perfect order is reported as deviated.
  `ReportIsHonest` speaks of observed runs whose clock did not step back where it says
  that a success is confirmed.
* A grant may be issued for a plan that started to execute during the await, and
  is then spent on a refusal.
* Events of Agents beyond the plan use the reservation of the execution.

## Proofs

All theorems hold for every number of calls, permits, places, tasks, Agents, hosts, facts,
revisions, executions, grants, plans and requests; the assumptions are those of the modules.
Most say that sets are finite, bounds are positive or a value has a type (`CasesArePlans`: plans
and hosts that pass their parsers, the tasks being those of the plan). Five say more:
`ObservedApart` (a run the console only observes is not one it owns), `SnapshotType` (a
recorded snapshot has one of the statuses of the schema), `OneAgentPerTask` (an engine whose
events come in time launches one Agent for a task, as the fixed script does),
`EveryTaskHasAnAgent` (there is an Agent for the label of every task), and `EnvelopeType`
with `EnvelopeCovers` (what is reserved for an execution has room for what it records).
TLC evaluates all of them in the runs.

*Admission.* `IInv` = type, queue is the waiters, queue only when full, permits
accounted. The four need one another: the pump may drop the loop only because
no permit is free while someone waits, and the head can be granted only because
the queue has no aborted entry. From it: `PermitsNeverLeak`,
`NobodyWaitsBesideAFreePermit`, `QueueExact`, together `QueueAndPermits`, and
`FirstComeFirstServed`.

*Owned delegation.* The calls change the controller by its own actions only (the lemma
`UsesAdmission`, by the shape of the module), so its invariants carry over
(`PermitsNeverLeakInUse`). `PermitReturned` adds `Agree`, which ties the stage
of a call to its grant. `LedgerInv` says by cases what the ledger shows of a call, given
its stage and where its run is at the provider, and that the history lists what is
finished: trimming deletes exactly the records it drops from the list. From it:
`DelegationTypeOK`, `AttemptAlwaysTracksCall`, `HistoryIsAlwaysTheFinished`.

*Workflow.* The inductive invariant of `WorkflowExecutionProofs` ties the phase
of `monitor` to what tracker and record may show, e.g. that an end recorded
early is `unknown`, and that a cancellation before the result is remembered in
`preceded`. `DatesInv` ties the times to the statuses, so that a snapshot the schema took
(`Plausible`) is one the ledger takes, unless it is backdated, which it then stays. From
them: `WorkflowTyping`, `LedgerKeepsUp`, `CancellationWins`. Of an engine
that publishes no Agent after the race, `Obeys` says more: no task has two attempts, none
is at work once the result was taken, what a rejected `monitor` leaves has not ended, and
under a steady clock nothing is rejected and the record is the tracker's snapshot even after
the end. From it: `EndsAreHonest`, whatever the clock does, and, if it is steady, the
refinement `WorkflowImplementsLifecycle`, whose
steps are legal moves or leave the snapshot as it is. `workflow_rewritten` shows that the
condition cannot be dropped.

*Storage lock.* `LockInvariant` says that a host past the creation of its lock is
the one the lock names, and that nobody is about to move it away. The last part
needs `Orderly`: either hosts start one at a time, or no lock ever looks dead.
From it, `SingleWriterHolds`; `lock_together` shows that `Orderly` cannot be
dropped.

*Journal.* Its steps are steps of the lock or leave it alone, so under `Orderly` there is
one writer, and what that one knows is what the file holds (`JournalInv`). A file that a
successor could not load is only left behind by a host that no longer says "disk". From it:
`JournalTypeHolds`, `DiskMeansDiskAlways`, `OwnJournalLoadsAlways`. `JournalImplementsLog`
maps a line that was written to `Grow`, and a damage or a failure to read to `Suffer`;
what a quarantine or a torn line leaves is a prefix of what there was.

*Plan store.* What is pending in `persisting` is what ledger and repository differ in
(`Whole`), which is enough for `OneOpenDraftAlways`, `AcknowledgedSurvivesAlways` and
`ApprovedNeverRewrittenAlways`. `RestoreSucceedsAlways` needs the order too
(`OrderInv`): the list is recorded newest first, so what a crash leaves out is the one gap
`restore` repairs; a clock that stepped back breaks this order.

*Grants.* An execution that began keeps plan and grant (`Begun`), and a spent grant is
never stored again; from it `EachStartHasItsGrantAlways`. `PromisesFitAlways` is
arithmetic over the sum of the reservations.

*Controls.* `ControlInv` adds two facts to the two properties: an open grant's
`basis` is the place of its request in the trail (`RequestAtBasis`), and what a
handler has left to do at the adapter has its record already (`OnRecord`). A trail
only grows (`GrowthExtends`) and a crash only forgets `open` and `todo`, so neither is
ever undone. From it: `NewerEventsInvalidate`, `CancelsAreOnRecord`. The chains and
statuses need to know what the ledger is owed (`FullInv`). While a host serves, a chain
that is not closed is that of an open grant with its slots held back, and an execution
that lives holds a slot for each status it has not recorded. When the process ends the
reservations are gone, but what they covered is at least what the next host must write: a
closure for each open chain, an event for a snapshot without one, an end for each
execution that lived. So the repair fits, however often it is interrupted
(`RepairFits`), and with that: `ChainsAreAlwaysWhole`, `NoStatusIsEverLost`,
`ControlPromisesFit`.

*Catalog.* `CatalogInv` adds to the property that the load in flight is the newest,
still runs, and leaves nothing cached beside it. From it, `NewestLoadIsCached`. A late
answer is harmless only because a load is taken out of flight before another begins.

*Workbench.* Browser and host change the catalog by its own actions only (the lemma
`WorkbenchUsesCatalog`), so `WorkbenchCatalogIsNewest`. `CatalogStaysHonest` adds
`WaitInv`: a request that waits, given up by the browser or not, waits for a load that
still runs, since an answer is told to all of its waiters in one step. `BenchInv`
(`BenchAlwaysHolds`) is what page, requests and host know of each other, requests that
were given up included since the host may still hear of them: an approval names a
revision whose valid preflight was shown under that digest, with the warnings that were
ticked; a good answer is about what was asked; what the page lists and edits is of plans
the host has; while a save is under way the edits are those it carries. From it,
`HostAlwaysActsAsReviewed`. `EditsAlwaysSurvive` goes through `Show`, the one place where
the page changes: every step but typing and discarding either leaves a dirty editor alone
or is the answer to the save that carried its content, which the host then has.

*The plan that runs.* What preflight admits has distinct tasks and no cycle, so the waves
of `deriveParallelWaves` are the levels of its graph and every task is in one; batches are
cuts of waves that keep the limits. `AdmissionIsSound` is that for the waves, and for the
refusals of `validateStart`. `Scheduling` (inductive) adds how far the script is: a task is
reached only when its wave is, a wave only when the batches before it ended, and a result is
what the Agent of its task gave. From it `SafeSchedule`: dependencies completed, no more work
than the limits, no two writers below one place.

*The record of a run.* `Recording` (`AlwaysRecording`) says of the record on disk, at any moment: the snapshot
has the times of its events, in an order that dependencies allow if all Agents were observed
(`HeldIsGood`); an event is of the past of the snapshot and of a task that is bound
(`IsPast`), the statuses of a subject come in their order (`InOrder`); a receipt passed and
is of a child whose end is in the trail (`ReceiptsAreGood`), and under observation every
completed task has its lifecycle receipts (`TrailIsWhole`). While the host runs the trail
lacks nothing (`IsTold`) and memory is the record, and the clock stands where it should if
everything was observed (`ClockIsKept`); while it is down something may be missing,
and that is what the restart adds. Every part is needed for the next: `InOrder` so that a
status is recorded once, `IsPast` so that the view of a cursor sees all its events, `IsTold`
so that the repair of a restart does not write a status twice. A handler is a list of writes
and the host may stop after each; `Runs` states of such a list that every prefix leaves a good
record that extends the one before, and lists are put together. So one proof covers a handler
that ends and one that is cut short.

From `Recording`, with no further induction over steps: `PastIsKept` (a trail is only
extended and what is bound stays bound, so the view of a cursor does not change);
`TrailTellsTheRun` (the last status of every subject in the trail is that of the snapshot);
`ReuseStandsAlone` (the closure of what is affected is reached after as many rounds as there
are tasks, by counting; a dependency that did not complete is a finding of its own);
`ReportsAreHonest` (a task without its evidence or its success has a finding, and under
observation, by a clock that did not step back, a success has none, since preflight admitted no
verifier the host does not run, and the times are in the order of the trail).
`ExportsHold` shows that the selection of a capsule keeps three things true at each
element it takes: the evidence fits `MaxEvents`, it is in the trail, and nothing taken loses
its evidence when the rest is cut. A list of all findings in turn has each once
(`InTurnFacts`), so identities are unique as soon as two findings never share code and task,
which is so but for several Agents beside the plan.

*Data.* The library's induction takes the claim as an operator. `DataLemmas` states
induction over numbers and finite sets of a *set* of those for which the claim holds,
which the provers can instantiate, and proves with it what the sum of a function is and
how it changes with one argument. `PlanRunProofs` does the same for sequences, and shows that
the functions the model defines by recursion exist (`RecursionExists`): without that, nothing
is known of a CHOOSE.

Only model-checked is what needs fairness and ENABLED: `EveryCallEnds`, `EveryExecutionEnds`,
`SuccessorGetsTheDisk`, `NothingStaysTaken`, `EveryGrantCloses`, `NewsArrives`. Every
invariant, action property and refinement of a passing run is a theorem.

The proofs changed the model of a run in a few places. Where arms of a CASE could both hold
(`EvidenceStatus`, `TaskState`, the state of a report, `ModelDiagnostics`) TLC took the first
as the code does, but the language leaves it open: they are IF and ELSE now. Lists that were
sorted or selected by operators of the community modules are functions over their elements
(`InTurn`, `Fitting`, `Filled`), which the provers can unfold; on the way it turned out that
the capsule took the findings of one moment in the order of the report (`ByTime` now). That a verifier of a task has one
of the kinds of the schema, and that a capsule's limits are positive, is stated.

No module reachable from a proof declares a RECURSIVE operator.

## Plan

Done: the controller, the delegations, the execution, the storage lock and the
journal, the plan store, the grants, the controls and the restart; the plan from
preflight to capsule; the catalog, the long-poll and the plan workbench; proofs of all
their safety properties and refinements. What is left:

1. `RunConsole` - cancel controls as the Foundry workbench issues and confirms them
   (`AgentFoundryWorkbench.tsx` 255-560), over `ControlGrants`, with the run poll.
2. Several executions in the adapter's history (`makeHistoryRoom`) and the receipts of
   `FactBudget`.
3. Compositions: `PlanStore` over the journal; `PlanGrants` with `ExecutionLifecycle`.

## Known limits

* `PlanWorkbench` has one browser and one session, watches one of the four polls, and
  takes the time a watch request needs as part of the time of its answer. A content is
  the number of the edit that made it; preflight is reduced to the Subagent provider,
  the Agent and one model, of which `Preflight` has the rest. That the page drops the
  answer of an action for a selection it left is built in, as one comparison of the code.
* In `PlanRun` the clock steps back only while the script runs, and not behind a start that
  still matters: the rest is `WorkflowExecution`'s, which in turn has no events. A finding
  dated by the end of the execution comes last, also after a step back.
* Clocks are nondeterministic ends: a lease, a cache entry, a grant or a cooldown may
  end at any time, a heartbeat come at any time.
* `PlanRun` runs one Agent for each task; a second attempt of a task is in
  `WorkflowExecution` only. Findings of one moment are
  ordered by a digest and receipts by the time they were observed, which the model does not
  have: `RunExports` takes one order, of which the proofs assume nothing.
* The byte limits of plan, journal and capsule are represented by limits of number.

Not modelled, and why: the tools' argument schemas and wording, the drawing of the
browser client and its canvases, the Foundry and delegation workbenches (their
requests are the callers of `ControlGrants`, their polls have the shape of
`RevisionPoll`), the instantiation of recipes, telemetry, digests and redaction (pure
formatting of recorded facts), build scripts.
