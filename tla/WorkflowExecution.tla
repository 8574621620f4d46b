-------------------------- MODULE WorkflowExecution --------------------------
(***************************************************************************)
(* One execution of an approved plan: the PlanExecutionTracker             *)
(* (src/src/planner-execution.ts), the start, cancel, monitor and event    *)
(* handlers of WorkflowPlanExecutionAdapter (src/src/workflow-adapter.ts)  *)
(* and executeApprovedPlan with its durable record (src/src/index.ts).     *)
(*                                                                         *)
(* The workflow engine is external: it may settle its result and the       *)
(* disposal at any time or never, may ignore a cancellation, and may lose, *)
(* delay or reorder the Agent events, but it publishes the start of an     *)
(* Agent at most once.                                                     *)
(*                                                                         *)
(* The wall clock is external too and may step back between two handlers,  *)
(* never within one.  The tracker then throws where the schema refuses its *)
(* times, and the ledger refuses what the tracker took.                    *)
(***************************************************************************)
EXTENDS ExecutionTracker, ExecutionTimes

CONSTANTS
  Launches,     \* the sets of Agents an engine may launch
  LateAgents,   \* those whose first event may follow the end of the race
  ClockSteps    \* how the wall clock may be set during each of these, <<from, to>>

ASSUME LaunchesType   == Launches \subseteq SUBSET Agents
ASSUME LateAgentsType == LateAgents \subseteq Agents
ASSUME ClockStepsType == ClockSteps \in [Launches -> SUBSET (Times \X Times)]

(* The script runs one Agent for a task; only an engine whose events come  *)
(* late is left free to run more.                                          *)
ASSUME OneAgentPerTask ==
  \A engine \in Launches :
    engine \cap LateAgents = {} =>
      \A c, d \in engine : TaskOf[c] = TaskOf[d] => c = d

VARIABLES
  snapshot,  \* the tracker's current snapshot
  durable,   \* the snapshot the ledger and the repository hold
  monitor,   \* where `monitor` stands, with its local variables
  watchdog,  \* the cancellation watchdog
  launched,  \* Agents the engine ever launches (external, fixed)
  started,   \* Agents whose start was published
  caller,    \* executeApprovedPlan
  clock,     \* Date.now
  dates,     \* the times in `snapshot`
  kept       \* the times in `durable`

(* The wall clock never steps back. *)
Steady == \A step \in ClockSteps[launched] : step[1] <= step[2]

vars == <<snapshot, durable, monitor, watchdog, launched, started, caller,
          clock, dates, kept>>

Stage ==
  {"idle",
   "prepared",  \* checkpointed as queued, the engine not called yet
   "racing",    \* awaiting the result or the watchdog
   "closing",   \* result taken: awaiting the disposal, perhaps the watchdog
   "draining",  \* watchdog expired, execution ended: awaiting the disposal
   "released",  \* settled and no longer active
   "rejected",  \* a tracker call threw: never settled, still active
   "refused",   \* start threw
   "down",      \* the host stopped, and the plugin of the next one cannot start
   "lost"}      \* the host restarted

StopReason == {"none", "completed", "malformed", "cancelled", "error"}

Monitor == [stage : Stage,
            stop : StopReason,
            preceded : BOOLEAN,   \* cancellationPrecededResult
            raced : BOOLEAN]      \* the disposal races the watchdog

TypeOK ==
  /\ snapshot \in Snapshot \cup {Absent}
  /\ durable \in Snapshot \cup {Absent}
  /\ monitor \in Monitor
  /\ watchdog \in {"off", "armed", "expired"}
  /\ launched \subseteq Agents
  /\ started \subseteq launched
  /\ caller \in {"idle", "awaiting", "returned", "threw", "lost"}
  /\ clock \in Times
  /\ dates \in Dates
  /\ kept \in Dates

Init ==
  /\ snapshot = Absent
  /\ durable = Absent
  /\ monitor = [stage |-> "idle", stop |-> "none",
                preceded |-> FALSE, raced |-> FALSE]
  /\ watchdog = "off"
  /\ launched \in Launches
  /\ started = {}
  /\ caller = "idle"
  /\ clock \in Times
  /\ dates = NoDates
  /\ kept = NoDates

-----------------------------------------------------------------------------
(* Every change of the tracker reaches persistExecutionSnapshot in the     *)
(* same synchronous step; a refusal is only logged.                        *)

(* The ledger and the repository take r with the times d. *)
Takes(r, d) ==
  \/ durable = Absent
  \/ ~Ended(durable) /\ Legal(durable, r) /\ DatesMove(kept, d)

NewAttempt(r, t) == r.attempts[t][Len(r.attempts[t])]

(* A new attempt of r is tracked and persisted as starting, before its own *)
(* status: with its startedAt if an Agent started, without any otherwise.  *)
(* Nothing is asked of the times of an attempt the ledger does not know.   *)
Opened(r, t) ==
  [snapshot EXCEPT
     !.attempts[t] = Append(@, [NewAttempt(r, t) EXCEPT !.status = "starting"])]

OpenedDates(r, t) ==
  [dates EXCEPT
     !.began[t] = Append(@, IF Live(NewAttempt(r, t)) THEN clock ELSE Unset)]

OpenedTasks(r) ==
  {t \in Tasks : /\ Len(snapshot.attempts[t]) < Len(r.attempts[t])
                 /\ Takes(Opened(r, t), dates)}

Persist(r, d) ==
  LET opened == OpenedTasks(r)
  IN  IF Takes(r, d) THEN durable' = r /\ kept' = d
      ELSE IF opened = {} THEN UNCHANGED <<durable, kept>>
      ELSE \E t \in opened : durable' = Opened(r, t) /\ kept' = OpenedDates(r, t)

Hold(r) ==
  LET d == Stamped(dates, snapshot, r, clock)
  IN  /\ snapshot' = r
      /\ dates' = d
      /\ Persist(r, d)

(* The schema takes everything the handler makes of the snapshot. *)
Track(r) == Sensible(dates, snapshot, r, clock) /\ Hold(r)

MoveTo(stage) == monitor' = [monitor EXCEPT !.stage = stage]

(* Mutated: the end is recorded before the attempts are settled. *)
HalfwayEnded(r, settled) ==
  [r EXCEPT
     !.attempts = [t \in Tasks |-> IF t \in settled THEN r.attempts[t]
                                   ELSE snapshot.attempts[t]]]

(* What a handler leaves behind that throws on its way to r: the tasks it  *)
(* settled before the schema refused one of them, or all of them but not   *)
(* the end of the execution.                                               *)
Halfway(r, settled) ==
  [r EXCEPT
     !.status = IF Ended(r) THEN snapshot.status ELSE r.status,
     !.attempts = [t \in Tasks |-> IF t \in settled THEN r.attempts[t]
                                   ELSE snapshot.attempts[t]]]

(* The promise of monitor is rejected; releaseActive is never called. *)
Rejected(r) ==
  LET early == SettledTooEarly(dates, snapshot, r, clock)
  IN  /\ ~Sensible(dates, snapshot, r, clock)
      /\ \E settled \in SUBSET (Tasks \ early) :
           /\ early = {} => settled = Tasks
           /\ Hold(Halfway(r, settled))
      /\ MoveTo("rejected")

(* activeByWorkflowId holds the run. *)
Active == monitor.stage \in {"racing", "closing", "draining", "rejected"}

-----------------------------------------------------------------------------
(* start, called by executeApprovedPlan.  Only a crash falls between the   *)
(* prepared checkpoint and the engine.                                     *)

CheckpointFails ==
  /\ monitor.stage = "idle"
  /\ MoveTo("refused")
  /\ caller' = "threw"
  /\ UNCHANGED <<snapshot, durable, watchdog, launched, started, clock, dates, kept>>

Prepare ==
  /\ monitor.stage = "idle"
  /\ Track(Queued)
  /\ MoveTo("prepared")
  /\ caller' = "awaiting"
  /\ UNCHANGED <<watchdog, launched, started, clock>>

EngineStartThrows ==
  /\ monitor.stage = "prepared"
  /\ Track(Finish(snapshot, "unknown"))
  /\ MoveTo("refused")
  /\ caller' = "threw"
  /\ UNCHANGED <<watchdog, launched, started, clock>>

(* Mutated: an abort seen at the start arms no watchdog. *)
EngineStartsUnwatched ==
  /\ monitor.stage = "prepared"
  /\ \E parentAborted \in BOOLEAN :
       LET running == [snapshot EXCEPT !.status = "running"]
       IN  Track(IF parentAborted THEN RequestCancellation(running) ELSE running)
  /\ MoveTo("racing")
  /\ UNCHANGED <<watchdog, launched, started, caller, clock>>

(* The parent may have aborted already. *)
EngineStarts ==
  /\ monitor.stage = "prepared"
  /\ \E parentAborted \in BOOLEAN :
       LET running == [snapshot EXCEPT !.status = "running"]
       IN  /\ Track(IF parentAborted THEN RequestCancellation(running)
                    ELSE running)
           /\ watchdog' = IF parentAborted THEN "armed" ELSE "off"
  /\ MoveTo("racing")
  /\ UNCHANGED <<launched, started, caller, clock>>

(* markRunning throws after the engine was started: start throws, and      *)
(* nobody watches the run or will end the queued record.                   *)
StartRejected ==
  /\ monitor.stage = "prepared"
  /\ ~Sensible(dates, snapshot, [snapshot EXCEPT !.status = "running"], clock)
  /\ MoveTo("refused")
  /\ caller' = "threw"
  /\ UNCHANGED <<snapshot, durable, watchdog, launched, started, clock, dates, kept>>

-----------------------------------------------------------------------------
(* cancel: the guards of its early return, then the watchdog.              *)
Cancel ==
  /\ Active
  /\ ~Ended(snapshot)
  /\ ~snapshot.cancelling
  /\ Track(RequestCancellation(snapshot))
  /\ watchdog' = IF watchdog = "off" THEN "armed" ELSE watchdog
  /\ UNCHANGED <<monitor, launched, started, caller, clock>>

(* Asked for by the user, the parent's signal, dispose or the unload... *)
CancelRequested == Cancel

(* ... or by planTimeoutMs. *)
PlanTimesOut == Cancel

-----------------------------------------------------------------------------
(* The Agent events of the engine, while the run is active.                *)

(* An engine that obeys: no Agent shows up once the race is over. *)
Timely(c) ==
  \/ c \in LateAgents
  \/ monitor.stage = "racing"
  \/ BindingsFor(snapshot.attempts[TaskOf[c]], c) # {}

AgentStart(c) ==
  /\ Active
  /\ c \in launched \ started
  /\ Timely(c)
  /\ started' = started \cup {c}
  /\ Track(MarkAttempt(snapshot, c, "running"))
  /\ UNCHANGED <<monitor, watchdog, launched, caller, clock>>

(* An end the schema refuses throws into the engine and changes nothing. *)
AgentEnd(c) ==
  /\ Active
  /\ c \in launched
  /\ Timely(c)
  /\ \E outcome \in {"completed", "failed", "cancelled"} :
       Track(MarkAttempt(snapshot, c, outcome))
  /\ UNCHANGED <<monitor, watchdog, launched, started, caller, clock>>

-----------------------------------------------------------------------------
(* monitor.                                                                *)

(* What the fixed script reports of the tasks: it skips only a task it     *)
(* launched no Agent for, and completes only one it did.                   *)
Summaries ==
  {s \in [Tasks -> {"completed", "failed", "skipped"}] :
     \A t \in Tasks :
       LET ran == \E c \in launched : TaskOf[c] = t
       IN  (s[t] = "skipped" => ~ran) /\ (s[t] = "completed" => ran)}

(* readWorkflowSummary: agentsStarted must be the tasks not skipped. *)
WellFormed(summary) ==
  Cardinality({t \in Tasks : summary[t] # "skipped"}) = Cardinality(launched)

(* The snapshot once the result was taken. *)
TakeResult(stop, s) ==
  /\ monitor.stage = "racing"
  /\ \/ /\ Track(s)
        /\ monitor' = [stage |-> "closing", stop |-> stop,
                       preceded |-> snapshot.cancelling, raced |-> ~s.cancelling]
     \/ Rejected(s)
  /\ UNCHANGED <<watchdog, launched, started, caller, clock>>

ResultCompleted ==
  \E summary \in Summaries :
    /\ WellFormed(summary)
    /\ TakeResult("completed", ApplySummary(snapshot, summary))

ResultMalformed ==
  TakeResult("malformed",
             Finish(MarkUnsettledAttempts(snapshot, "unknown"), "unknown"))

ResultCancelled ==
  TakeResult("cancelled",
    MarkUnsettledAttempts(RequestCancellation(snapshot), "cancelled"))

ResultError ==
  TakeResult("error", MarkUnsettledAttempts(snapshot, "unknown"))

(* The snapshot once everything unsettled is closed as unknown. *)
ClosedUnknown == Finish(MarkUnsettledAttempts(snapshot, "unknown"), "unknown")

(* The backend ignored the cancellation for cancelGraceMs. *)
WatchdogExpires ==
  /\ watchdog = "armed"
  /\ Active
  /\ watchdog' = "expired"
  /\ LET awaited == \/ monitor.stage = "racing"
                    \/ monitor.stage = "closing" /\ monitor.raced
     IN  \/ awaited /\ Track(ClosedUnknown) /\ MoveTo("draining")
         \/ awaited /\ Rejected(ClosedUnknown)
         \/ ~awaited /\ UNCHANGED <<snapshot, durable, monitor, dates, kept>>
  /\ UNCHANGED <<launched, started, caller, clock>>

(* The end the monitor derives once the disposal is over, `clean` if it    *)
(* settled.                                                                *)
Concluded(clean) ==
  IF clean /\ (monitor.preceded => monitor.stop = "cancelled")
  THEN Finish(snapshot, FinalStatus(snapshot, monitor.stop))
  ELSE ClosedUnknown

(* The disposal settled, was rejected or took longer than disposeGraceMs;  *)
(* releaseActive follows in the same step.                                 *)
DisposalEnds ==
  /\ monitor.stage = "closing"
  /\ \E clean \in BOOLEAN :
       \/ Track(Concluded(clean)) /\ MoveTo("released") /\ watchdog' = "off"
       \/ Rejected(Concluded(clean)) /\ UNCHANGED watchdog
  /\ UNCHANGED <<launched, started, caller, clock>>

DrainEnds ==
  /\ monitor.stage = "draining"
  /\ MoveTo("released")
  /\ watchdog' = "off"
  /\ UNCHANGED <<snapshot, durable, launched, started, caller, clock, dates, kept>>

-----------------------------------------------------------------------------
(* The end of executeApprovedPlan persists the snapshot once more: a       *)
(* refusal now rejects the call.                                           *)
CallerResumes ==
  /\ monitor.stage = "released"
  /\ caller = "awaiting"
  /\ caller' = IF <<durable, kept>> = <<snapshot, dates>> \/ Takes(snapshot, dates)
               THEN "returned" ELSE "threw"
  /\ IF Takes(snapshot, dates) THEN durable' = snapshot /\ kept' = dates
     ELSE UNCHANGED <<durable, kept>>
  /\ UNCHANGED <<snapshot, monitor, watchdog, launched, started, clock, dates>>

(* The rejected result rejects the call, and the disposal on its way out   *)
(* asks for a cancellation nobody is left to enforce.                      *)
CallerRejected ==
  /\ monitor.stage = "rejected"
  /\ caller = "awaiting"
  /\ caller' = "threw"
  /\ IF Ended(snapshot) \/ snapshot.cancelling
     THEN UNCHANGED <<snapshot, durable, dates, kept, watchdog>>
     ELSE /\ Track(RequestCancellation(snapshot))
          /\ watchdog' = IF watchdog = "off" THEN "armed" ELSE watchdog
  /\ UNCHANGED <<monitor, launched, started, clock>>

(* The host stops and a new one restores the journal and closes what was   *)
(* interrupted.  The constructor of the plugin throws where the schema or  *)
(* the ledger refuses the closed record.                                   *)
HostRestarts ==
  /\ monitor.stage \notin {"idle", "lost"}
  /\ LET closed == Interrupted(durable)
         times  == Stamped(kept, durable, closed, clock)
         closes == Sensible(kept, durable, closed, clock) /\ DatesMove(kept, times)
     IN  IF durable = Absent \/ Ended(durable)
         THEN UNCHANGED <<durable, kept>> /\ MoveTo("lost")
         ELSE IF closes THEN durable' = closed /\ kept' = times /\ MoveTo("lost")
         ELSE UNCHANGED <<durable, kept>> /\ MoveTo("down")
  /\ snapshot' = Absent
  /\ dates' = NoDates
  /\ watchdog' = "off"
  /\ caller' = "lost"
  /\ UNCHANGED <<launched, started, clock>>

(* The user, the system or a time server sets the clock. *)
ClockMoves ==
  /\ clock' \in Times \ {clock}
  /\ <<clock, clock'>> \in ClockSteps[launched]
  /\ UNCHANGED <<snapshot, durable, monitor, watchdog, launched, started, caller,
                 dates, kept>>

Next ==
  \/ CheckpointFails \/ Prepare \/ EngineStartThrows
  \/ EngineStarts \/ StartRejected
  \/ CancelRequested \/ PlanTimesOut
  \/ \E c \in Agents : AgentStart(c) \/ AgentEnd(c)
  \/ ResultCompleted \/ ResultMalformed \/ ResultCancelled \/ ResultError
  \/ WatchdogExpires \/ DisposalEnds \/ DrainEnds
  \/ CallerResumes \/ CallerRejected
  \/ HostRestarts
  \/ ClockMoves

Spec == Init /\ [][Next]_vars

(* Timers fire and continuations run: planTimeoutMs and cancelGraceMs      *)
(* elapse, disposeGraceMs bounds the disposal.  Nothing is assumed of the  *)
(* engine or of the clock.                                                 *)
FairSpec ==
  /\ Spec
  /\ WF_vars(PlanTimesOut) /\ WF_vars(WatchdogExpires)
  /\ WF_vars(DisposalEnds) /\ WF_vars(DrainEnds)
  /\ WF_vars(CallerResumes) /\ WF_vars(CallerRejected)

-----------------------------------------------------------------------------
(* What a watcher sees: the live tracker, or after a restart the restored  *)
(* record.                                                                 *)
Restarted == monitor.stage \in {"lost", "down"}
Watched   == IF Restarted THEN durable ELSE snapshot

(* Under a clock that never steps back, an execution whose engine publishes *)
(* no new Agent after the race keeps the promise of ExecutionLifecycle in  *)
(* memory, not only in the ledger that refuses to break it, and across a   *)
(* restart.                                                                *)
Orderly == launched \cap LateAgents = {}

Lifecycle ==
  INSTANCE ExecutionLifecycle
    WITH recorded <- IF Orderly /\ Steady THEN Watched ELSE Absent
KeepsLifecycle == Lifecycle!Spec

(* Nothing the tracker does to a live execution is refused by the ledger,  *)
(* and the two agree on how it ended; unless the clock stepped back behind *)
(* the creation of the execution, and one of its times shows it.  An end   *)
(* the ledger holds is the tracker's own in any case.                      *)
RecordKeepsUp ==
  ~Restarted =>
    /\ Ended(durable) => durable.status = snapshot.status
    /\ ~Backdated(dates) =>
         /\ durable.status = snapshot.status
         /\ ~Ended(snapshot) => durable = snapshot /\ kept = dates

(* A cancellation accepted before the result never ends as a success, a    *)
(* partial one or a failure, however the backend answers and whatever the  *)
(* clock does.                                                             *)
CancelledNeverSucceeds ==
  [](monitor.stage = "racing" /\ snapshot.cancelling
       => [](durable.status \notin {"succeeded", "partial", "failed"}))

(* The record of an ended execution shows no attempt still at work         *)
(* (CHANGELOG.md:60), and it succeeded only if every planned task has      *)
(* completed: neither a task without an Agent, a settled one whose events  *)
(* are missing, nor the sum over attempts may hide an unfinished task, and *)
(* no step of the clock lets half of a handler pass for its end.           *)
EndIsHonest ==
  Orderly /\ Ended(durable) =>
    \A t \in Tasks :
      /\ \A n \in DOMAIN durable.attempts[t] : ~Live(durable.attempts[t][n])
      /\ durable.status = "succeeded" =>
           \E n \in DOMAIN durable.attempts[t] :
             durable.attempts[t][n].status = "completed"

(* The caller of a started execution hears how it went, although the       *)
(* backend may never settle nor honour the cancellation and the tracker    *)
(* may throw; and if the clock never steps back, the record has an end.    *)
EveryExecutionEnds ==
  monitor.stage = "racing" ~> /\ caller # "awaiting"
                              /\ Steady => Ended(durable)

(* workflow-adapter.ts:560-562 says of an execution the watchdog closed     *)
(* that late events cannot rewrite its terminal attempts or the terminal   *)
(* execution.                                                              *)
LateEventsCannotRewrite ==
  [][monitor.stage = "draining" /\ ~Restarted' => snapshot' = snapshot]_vars
=============================================================================
