------------------------------- MODULE PlanRun -------------------------------
(***************************************************************************)
(* One plan from its preflight to the report of its execution: preflight   *)
(* and validateStart, the fixed script in the workflow engine, the tracker *)
(* that follows the Agents, the host that persists each snapshot with the  *)
(* events and receipts derived from it, a crash between any two of these   *)
(* writes, the repair at the next start, and what the run inspector makes  *)
(* of the record (src/src/plan-preflight.ts, src/src/workflow-adapter.ts,  *)
(* src/src/index.ts, src/src/temporal-execution.ts, src/src/conformance.ts,*)
(* src/src/recovery.ts).                                                   *)
(*                                                                         *)
(* Approval, grants and reservations are in PlanGrants, the watchdog, late *)
(* events and the disposal race in WorkflowExecution.  The engine here     *)
(* runs one Agent for each task, may fail to publish some of their events, *)
(* and may run Agents beside the plan.                                     *)
(*                                                                         *)
(* The wall clock may step back while the Agents run, but not behind the   *)
(* start of what still runs: what the tracker and the ledger make of such  *)
(* a step is in WorkflowExecution.                                         *)
(***************************************************************************)
EXTENDS RunExports, HostCapabilities

CONSTANT
  Cases   \* what is tried: a plan revision, a host, and as a bound how often
          \* each kind of fault may happen

(* An Agent event is lost, an Agent is refused or is not of the plan, the  *)
(* execution is cancelled, the host stops, the clock steps back.           *)
FaultKinds == {"lost", "refused", "stray", "cancel", "stop", "clock"}

(* Tasks are those of every plan no two tasks of which share an identifier *)
(* and each of them has its Agent.                                         *)
ASSUME CasesArePlans ==
  \A case \in Cases :
    /\ IsPlan(case.plan) /\ IsHost(case.host)
    /\ case.faults \in [FaultKinds -> Nat]
    /\ Duplicates(case.plan.tasks) = {} => Ids(case.plan.tasks) = Tasks
ASSUME EveryTaskHasAnAgent == \A t \in Tasks : \E c \in Agents : TaskOf[c] = t

VARIABLES
  plan,     \* the plan revision
  caps,     \* the capabilities of the host
  args,     \* the batches buildWorkflowPlanArgs gives the script
  stage,    \* draft, refused | prepared, running, over | down, restored
  engine,   \* what the engine's Agents do, and the results of the script
  live,     \* the execution in memory
  store,    \* what the ledger holds: snapshot, trail and receipts
  faults,   \* what may still go wrong
  behind,   \* how far the wall clock has stepped back
  observed  \* every Agent was one of the plan, its events arrived, and the
            \* clock did not step back

vars == <<plan, caps, args, stage, engine, live, store, faults, behind, observed>>

Idle == [child |-> [t \in Tasks |-> "none"], results |-> [t \in Tasks |-> "none"],
         stray |-> 0, astray |-> 0]

Init ==
  /\ \E case \in Cases :
       plan = case.plan /\ caps = CapabilitiesOf(case.host) /\ faults = case.faults
  /\ args = <<>>
  /\ stage = "draft"
  /\ engine = Idle
  /\ live = Nothing
  /\ store = Empty
  /\ behind = 0
  /\ observed = TRUE

Fault(kind) ==
  /\ faults[kind] > 0
  /\ faults' = [faults EXCEPT ![kind] = @ - 1]

AgentOf(t) == CHOOSE c \in Agents : TaskOf[c] = t

(* Time passes with what is written, all of it after createdAt. *)
Now == Len(store.trail) - behind

(* The host makes the writes and goes on, or stops after some of them.     *)
Do(writes, held, next, after) ==
  /\ \/ /\ store' = Written(store, writes)
        /\ live' = held /\ stage' = after /\ engine' = next
        /\ UNCHANGED faults
     \/ /\ Fault("stop")
        /\ \E k \in 0..(Len(writes) - 1) : store' = Written(store, SubSeq(writes, 1, k))
        /\ live' = Nothing /\ stage' = "down" /\ engine' = Idle
  /\ UNCHANGED <<plan, caps, behind>>

(* The tracker passes through the held executions, and each is persisted.  *)
Track(helds, next, after) ==
  Do(Persisted(plan, live, helds), Last(<<live>> \o helds), next, after)

-----------------------------------------------------------------------------
(* From the draft to the running script.                                   *)

Refuse ==
  /\ stage = "draft" /\ ~StartAccepts(plan, caps)
  /\ stage' = "refused"
  /\ UNCHANGED <<plan, caps, args, engine, live, store, faults, behind, observed>>

Prepare ==
  /\ stage = "draft" /\ StartAccepts(plan, caps)
  /\ args' = Batches(plan)
  /\ Track(<<At(Nothing, Queued, 0)>>, Idle, "prepared")
  /\ UNCHANGED observed

EngineStartThrows ==
  /\ stage = "prepared"
  /\ Track(<<At(live, Finish(live.snapshot, "unknown"), Now)>>, Idle, "over")
  /\ UNCHANGED <<args, observed>>

(* The script runs up to the first batch with an Agent in it. *)
EngineStarts ==
  /\ stage = "prepared"
  /\ Track(<<At(live, [live.snapshot EXCEPT !.status = "running"], Now)>>,
           [Idle EXCEPT !.results = Advanced(plan, args, NoResults(plan))], "running")
  /\ UNCHANGED <<args, observed>>

-----------------------------------------------------------------------------
(* The Agents.                                                             *)

(* materializeBinding; the time is known of an Agent that starts only.     *)
Materialized(held, t, c, at) ==
  [held EXCEPT !.snapshot.attempts[t] = <<[agent |-> c, status |-> "starting"]>>,
               !.began[t] = at]

(* The engine goes on, and its event is published or is lost. *)
Lose(next) ==
  /\ Fault("lost")
  /\ observed' = FALSE
  /\ engine' = next
  /\ UNCHANGED <<plan, caps, args, stage, live, store, behind>>

Starting(t) == [engine EXCEPT !.child[t] = "working"]

AgentStarts(t) ==
  /\ stage = "running"
  /\ t \in Runnable(args, engine.results) /\ engine.child[t] = "none"
  /\ LET starting == Materialized(live, t, AgentOf(t), Now)
         running == At(starting, MarkAttempt(starting.snapshot, AgentOf(t), "running"), Now)
     IN  Do(Persisted(plan, live, <<starting, running>>)
              \o <<Write("event", Event("published", t, "none", Now))>>,
            running, Starting(t), "running")
  /\ UNCHANGED <<args, observed>>

AgentStartIsLost(t) ==
  /\ stage = "running"
  /\ t \in Runnable(args, engine.results) /\ engine.child[t] = "none"
  /\ Lose(Starting(t))

Ending(t, outcome) ==
  [engine EXCEPT
    !.child[t] = "done",
    !.results = Advanced(plan, args, [@ EXCEPT ![t] =
                  IF outcome = "completed" THEN "completed" ELSE "failed"])]

(* The engine cancels an Agent when the execution is being cancelled.      *)
Outcomes == {"completed", "failed"}
            \cup IF live.snapshot.cancelling THEN {"cancelled"} ELSE {}

(* The child-terminal and its receipts come before the attempt's own end.  *)
AgentEnds(t, outcome) ==
  /\ stage = "running" /\ engine.child[t] = "working" /\ outcome \in Outcomes
  /\ LET bound == IF Bound(live, t) THEN live ELSE Materialized(live, t, AgentOf(t), Unset)
         over == At(bound, MarkAttempt(bound.snapshot, AgentOf(t), outcome), Now)
     IN  Do(Persisted(plan, live, <<bound>>)
              \o <<Write("event", Event("terminal", t, "none", Now))>> \o Verified(plan, t)
              \o Persisted(plan, bound, <<over>>),
            over, Ending(t, outcome), "running")
  /\ UNCHANGED <<args, observed>>

AgentEndIsLost(t, outcome) ==
  /\ stage = "running" /\ engine.child[t] = "working" /\ outcome \in Outcomes
  /\ Lose(Ending(t, outcome))

(* agent() throws for a task it starts no Agent for. *)
AgentRefused(t) ==
  /\ stage = "running"
  /\ t \in Runnable(args, engine.results) /\ engine.child[t] = "none"
  /\ Fault("refused")
  /\ engine' = [engine EXCEPT !.results =
                  Advanced(plan, args, [@ EXCEPT ![t] = "failed"])]
  /\ UNCHANGED <<plan, caps, args, stage, live, store, behind, observed>>

(* onUnboundAgent, for an Agent no label of the plan names. *)
Unbound(kind, next) ==
  /\ store' = Written(store, <<Write("event", Event(kind, NoTask, "none", Now))>>)
  /\ engine' = next
  /\ UNCHANGED <<plan, caps, args, stage, live, behind>>

StrayAgentStarts ==
  /\ stage = "running" /\ Fault("stray")
  /\ Unbound("published", [engine EXCEPT !.stray = @ + 1, !.astray = @ + 1])
  /\ observed' = FALSE

StrayAgentEnds ==
  /\ stage = "running" /\ engine.astray > 0
  /\ Unbound("terminal", [engine EXCEPT !.astray = @ - 1])
  /\ UNCHANGED <<faults, observed>>

(* The user or a time server sets the clock back, here to a moment after   *)
(* the execution and every Agent that still runs have started.             *)
ClockStepsBack ==
  /\ stage = "running" /\ Fault("clock")
  /\ \E moment \in 1..(Now - 1) :
       /\ \A t \in Tasks : Over(live, t) \/ live.began[t] <= moment
       /\ behind' = Len(store.trail) - moment
  /\ observed' = FALSE
  /\ UNCHANGED <<plan, caps, args, stage, engine, live, store>>

-----------------------------------------------------------------------------
(* The end.                                                                *)

Cancel ==
  /\ stage = "running" /\ ~live.snapshot.cancelling /\ faults.cancel > 0
  /\ Track(<<At(live, RequestCancellation(live.snapshot), Now)>>, engine, stage)
  /\ UNCHANGED <<args, observed>>

(* markAttemptFinished for no Agent in particular: what it passes through. *)
Marks(held, t, status) ==
  LET open == IF Bound(held, t) THEN held ELSE Materialized(held, t, NoAgent, Unset)
      over == At(open, [open.snapshot EXCEPT !.attempts[t] = SettleLast(@, status)], Now)
  IN  IF ~Bound(held, t) /\ status = "skipped" THEN <<>> ELSE <<open, over>>

(* All tasks, in plan order, with the status each is to get. *)
MarkAll(held, statuses) ==
  LET helds[n \in 0..Len(plan.tasks)] ==
        IF n = 0 THEN <<held>>
        ELSE LET t == plan.tasks[n].id
             IN  helds[n - 1] \o Marks(Last(helds[n - 1]), t, statuses[t])
  IN  helds[Len(plan.tasks)]

(* markUnsettledAttempts looks at the tasks that have an attempt.          *)
Settle(held, status) ==
  MarkAll(held, [t \in Tasks |-> IF Bound(held, t) THEN status ELSE "skipped"])

EndsWith(helds, status) ==
  Track(Append(helds, At(Last(helds), Finish(Last(helds).snapshot, status), Now)),
        engine, "over")
  /\ UNCHANGED <<args, observed>>

Started == Cardinality({t \in Tasks : engine.child[t] # "none"}) + engine.stray

(* What monitor makes of the result before the disposal. *)
Concluded(stop) ==
  CASE stop = "completed" /\ WellFormed(engine.results, Started) ->
         MarkAll(live, engine.results)
    [] stop = "cancelled" ->
         Settle(At(live, RequestCancellation(live.snapshot), Now), "cancelled")
    [] OTHER -> Settle(live, "unknown")

(* The script returns once every task has a result; an engine that was     *)
(* cancelled or failed stops anywhere.                                     *)
ResultArrives(stop, clean) ==
  /\ stage = "running"
  /\ stop = "completed" => ScriptDone(engine.results)
  /\ LET helds == Concluded(stop)
         malformed == stop = "completed" /\ ~WellFormed(engine.results, Started)
     IN  IF clean /\ ~malformed /\ (live.snapshot.cancelling => stop = "cancelled")
         THEN EndsWith(helds, FinalStatus(Last(helds).snapshot, stop))
         ELSE EndsWith(helds \o Settle(Last(helds), "unknown"), "unknown")

-----------------------------------------------------------------------------
(* The host stops at rest, and starts again.                               *)
HostStops ==
  /\ stage \in {"prepared", "running", "over"}
  /\ Fault("stop")
  /\ stage' = "down" /\ live' = Nothing /\ engine' = Idle
  /\ UNCHANGED <<plan, caps, args, store, behind, observed>>

(* reconcileLifecycleReceipts: for each child-terminal of an attempt.      *)
Reverified(record) ==
  FlattenSeq([n \in DOMAIN record.trail |->
    IF /\ record.trail[n].kind = "terminal" /\ record.trail[n].task # NoTask
       /\ Bound(record.held, record.trail[n].task)
    THEN Verified(plan, record.trail[n].task) ELSE <<>>])

(* closeInterruptedDurableExecutions sets no startedAt. *)
Closed(held) ==
  [At(held, Interrupted(held.snapshot), Now) EXCEPT !.began = held.began]

(* Mutated: the events a crash kept out of the trail stay out of it. *)
RestartWithoutRepair ==
  /\ stage = "down"
  /\ Do(Reverified(store) \o Persisted(plan, store.held, <<Closed(store.held)>>),
        Closed(store.held), Idle, "restored")
  /\ UNCHANGED <<args, observed>>

Restart ==
  /\ stage = "down"
  /\ LET repair == IF store.held = Nothing THEN <<>>
                   ELSE Events(Transitions(plan, Nothing, store.held))
     IN  Do(repair \o Reverified(Written(store, repair))
              \o Persisted(plan, store.held, <<Closed(store.held)>>),
            Closed(store.held), Idle, "restored")
  /\ UNCHANGED <<args, observed>>

Next ==
  \/ Refuse \/ Prepare \/ EngineStartThrows \/ EngineStarts
  \/ \E t \in Tasks :
       \/ AgentStarts(t) \/ AgentStartIsLost(t) \/ AgentRefused(t)
       \/ \E outcome \in {"completed", "failed", "cancelled"} :
            AgentEnds(t, outcome) \/ AgentEndIsLost(t, outcome)
  \/ StrayAgentStarts \/ StrayAgentEnds \/ ClockStepsBack \/ Cancel
  \/ \E stop \in {"completed", "cancelled", "error"}, clean \in BOOLEAN :
       ResultArrives(stop, clean)
  \/ HostStops \/ Restart

Spec == Init /\ [][Next]_vars

-----------------------------------------------------------------------------
TypeOK ==
  /\ stage \in {"draft", "refused", "prepared", "running", "over", "down", "restored"}
  /\ live.snapshot = Absent \/ live.snapshot.status \in ExecutionStatus
  /\ faults \in [FaultKinds -> Nat] /\ behind \in 0..Len(store.trail) /\ observed \in BOOLEAN

(* A plan is the order its dependencies allow, as a definition of its own: *)
(* the level of a task is one more than the highest of its dependencies.   *)
Levels(p) ==
  {level \in [Ids(p.tasks) -> 1..Len(p.tasks)] :
     \A t \in TasksOf(p) :
       /\ \A d \in Deps(t) : level[d] < level[t.id]
       /\ level[t.id] = 1 \/ \E d \in Deps(t) : level[d] = level[t.id] - 1}

(* What preflight calls executable, validateStart does not refuse, fits    *)
(* the limits of the host and its own, and comes in waves that are the     *)
(* levels of its dependencies.                                             *)
PreflightAdmits ==
  stage = "draft" /\ Valid(plan, caps) =>
    /\ StartAccepts(plan, caps)
    /\ Len(plan.tasks) <= plan.maxAgents /\ plan.maxAgents <= caps.maxAgents
    /\ \E level \in Levels(plan) :
         \A k \in 1..Len(plan.tasks) :
           {id \in Ids(plan.tasks) : level[id] = k}
             = IF k <= Len(ParallelWaves(plan)) THEN ToSet(ParallelWaves(plan)[k]) ELSE {}

Working == {t \in Tasks : engine.child[t] = "working"}

(* No Agent works before all its dependencies completed, no more work at a *)
(* time than the plan and the host allow, and no two that work may write   *)
(* below the same place, whatever order the Agents end in.                 *)
ScheduleIsSafe ==
  /\ Cardinality(Working) <= plan.maxConcurrent
  /\ Cardinality(Working) <= caps.maxConcurrent
  /\ \A t \in Working :
       /\ \A d \in Deps(Named(plan.tasks, t)) : engine.results[d] = "completed"
       /\ \A u \in Working \ {t} :
            \A a \in Named(plan.tasks, t).claims, b \in Named(plan.tasks, u).claims :
              \E n \in 1..Len(a) :
                n <= Len(b) /\ Folded[a[n]] # Folded[b[n]]

(* The record can be read as of any cursor, and what it shows of a cursor  *)
(* never changes, through crashes and repairs.                             *)
ViewKeepsItsPast ==
  [][\A cursor \in 0..Len(store.trail) :
       View(store'.held, store'.trail, cursor) = View(store.held, store.trail, cursor)]_vars

Current == View(store.held, store.trail, Len(store.trail))

(* Unless the host is down, the events of the trail tell the same of the   *)
(* execution as its snapshot, although they are written after it; and if   *)
(* every Agent was observed the same times too.                            *)
RecordTellsTheRun ==
  stage \in {"prepared", "running", "over", "restored"} =>
    /\ Current.snapshot.status = store.held.snapshot.status
    /\ Current.snapshot.cancelling = store.held.snapshot.cancelling
    /\ \A t \in Tasks : StatusOf(Current, t) = StatusOf(store.held, t)
    /\ observed => Current.began = store.held.began /\ Current.ended = store.held.ended
    /\ stage # "restored" => live = store.held

(* The reports the host gives: of the snapshot as foundrySnapshot does,    *)
(* and of the view as inspectRun does, which asks for the snapshot first;  *)
(* none if that throws.                                                    *)
Reported(held) ==
  LET report == ReportOf(plan, held, store)
  IN  [held |-> held, report |-> report,
       proposal |-> Proposal(plan, held, report, store)]

Reports ==
  {r \in {Reported(store.held), Reported(Current)} : FindingsAreDistinct(store)}

(* An ended execution that is called confirmed completed every task and    *)
(* has the receipts its plan requires, whatever the clock did.  One whose  *)
(* Agents were all observed, by a clock that did not step back, has no     *)
(* task out of order, and is confirmed without a finding when it           *)
(* succeeded: preflight admitted no verifier the host does not run.        *)
ReportIsHonest ==
  stage \in {"over", "restored"} =>
    \A r \in Reports :
      /\ Ended(r.held.snapshot) /\ r.report.state = "confirmed" =>
           \A t \in Tasks :
             /\ StatusOf(r.held, t) = "completed"
             /\ \A v \in Required(plan, t) : Receipt(t, v, "pass") \in store.receipts
      /\ observed => \A f \in r.report.findings : f.code # "order-violation"
      /\ observed /\ r.held.snapshot.status = "succeeded" =>
           r.report.state = "confirmed" /\ r.report.findings = {}

(* docs/agent-foundry.md: recovery may reuse what completed and was        *)
(* verified; what it reuses never depends on what it repeats.              *)
ReuseIsClosed ==
  stage \in {"over", "restored"} =>
    \A r \in Reports :
      \A t \in r.proposal.reusable :
        /\ StatusOf(r.held, t) = "completed"
        /\ \A v \in Required(plan, t) : With(store, t, v, "pass")
        /\ Deps(Named(plan.tasks, t)) \subseteq r.proposal.reusable
        /\ t \notin r.proposal.affected

(* What an answer as of a cursor says rests on events through that cursor, *)
(* and what it calls proven on those of the task that was asked about, but *)
(* for the first divergence of the run.                                    *)
AnswersAreSupported(through) ==
  LET held == View(store.held, store.trail, through)
      record == [store EXCEPT !.held = held, !.trail = SubSeq(@, 1, through)]
      listed == Listed(held, record.trail, ReportOf(plan, held, record))
      all == ReceiptList(record)
      receipts == Only(all, {r \in ToSet(all) : r.cites # {}})
  IN  held # Nothing =>
        \A question \in Questions, t \in Tasks \cup {NoTask} :
          \A fact \in Facts(held, record.trail, listed, receipts, question, t) :
            /\ fact.cites \subseteq DOMAIN record.trail
            /\ fact.certainty = "proven" /\ question # "first-divergence" =>
                 fact.cites \subseteq Scoped(held, record.trail, t)

(* docs/agent-foundry.md on the capsule: "evidence references are closed,  *)
(* and large runs are deterministically bounded".  Whatever a capsule says *)
(* can be looked up in it, however little fits, so that its own schema     *)
(* accepts it.  A run that may found a recipe has nothing to recover.      *)
ExportsAreSupported ==
  stage \in {"over", "restored"} /\ FindingsAreDistinct(store) =>
    LET r == Reported(store.held)
        capsule == Capsule(r.held, store, r.report, r.proposal)
    IN  /\ Cardinality(capsule.events) <= MaxEvents
        /\ EvidenceResolves(capsule, r.held, store.trail)
        /\ ProposalResolves(capsule)
        /\ IdentitiesAreUnique(capsule)
        /\ VerifiedSource(plan, r.held, store, r.report) => r.proposal.reusable = Tasks
        /\ AnswersAreSupported(Len(store.trail) \div 2)
=============================================================================
