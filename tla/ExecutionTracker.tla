-------------------------- MODULE ExecutionTracker --------------------------
(***************************************************************************)
(* PlanExecutionTracker (src/src/planner-execution.ts): what each of its   *)
(* methods makes of a snapshot, and the end WorkflowPlanExecutionAdapter   *)
(* (src/src/workflow-adapter.ts) derives from one.  A method hands what it *)
(* makes to `replace`, which throws if the schema refuses its times: the   *)
(* modules that have a clock say when (ExecutionTimes!Sensible).           *)
(***************************************************************************)
EXTENDS PlanTransitions

CONSTANT TaskOf   \* the task each Agent's label names

ASSUME TaskOfType == TaskOf \in [Agents -> Tasks]

RequestCancellation(s) ==
  IF Ended(s) THEN s ELSE [s EXCEPT !.status = "stopping", !.cancelling = TRUE]

(* Mutated: an ended execution gets a new end. *)
FinishAnyway(s, status) == [s EXCEPT !.status = status]

Finish(s, status) == IF Ended(s) THEN s ELSE [s EXCEPT !.status = status]

(* markAttemptFinished without an Agent: only the last attempt of the task *)
(* is looked at, and only a live one changes.                              *)
SettleLast(list, status) ==
  IF list # <<>> /\ Live(list[Len(list)])
  THEN [list EXCEPT ![Len(list)].status = status]
  ELSE list

MarkUnsettledAttempts(s, status) ==
  [s EXCEPT !.attempts = [t \in Tasks |-> SettleLast(s.attempts[t], status)]]

(* applyReportedStatus: a skipped task gets no attempt. *)
Report(list, status) ==
  IF list = <<>> /\ status # "skipped"
  THEN <<[agent |-> NoAgent, status |-> status]>>
  ELSE SettleLast(list, status)

ApplySummary(s, summary) ==
  [s EXCEPT !.attempts = [t \in Tasks |-> Report(s.attempts[t], summary[t])]]

HasAttempt(s, status) ==
  \E t \in Tasks : \E n \in DOMAIN s.attempts[t] :
    s.attempts[t][n].status = status

(* Mutated: tasks without an attempt are not counted. *)
DeriveFromAttempts(s) ==
  IF \A id \in AttemptIds(s) : s.attempts[id[1]][id[2]].status = "completed"
  THEN "succeeded"
  ELSE IF HasAttempt(s, "completed") THEN "partial" ELSE "failed"

DeriveCompletionStatus(s) ==
  IF /\ Cardinality(AttemptIds(s)) = Cardinality(Tasks)
     /\ \A id \in AttemptIds(s) : s.attempts[id[1]][id[2]].status = "completed"
  THEN "succeeded"
  ELSE IF HasAttempt(s, "completed") THEN "partial" ELSE "failed"

(* bindingFor: the attempts an event of the Agent may mean. *)
BindingsFor(list, c) == {n \in 1..Len(list) : list[n].agent \in {c, NoAgent}}

(* Mutated: a terminal attempt gets a new status as well. *)
MarkListAlways(list, c, status) ==
  IF BindingsFor(list, c) = {}
  THEN Append(list, [agent |-> c, status |-> status])
  ELSE [list EXCEPT ![CHOOSE n \in BindingsFor(list, c) :
                        \A m \in BindingsFor(list, c) : m <= n] =
          [agent |-> c, status |-> status]]

(* markAttemptRunning and markAttemptFinished for an Agent's event: its    *)
(* last attempt gets the status unless it has a terminal one; an Agent     *)
(* without attempt materializes one.                                       *)
MarkList(list, c, status) ==
  LET mine == [agent |-> c, status |-> status]
      last == CHOOSE n \in BindingsFor(list, c) :
                \A m \in BindingsFor(list, c) : m <= n
  IN  IF BindingsFor(list, c) = {} THEN Append(list, mine)
      ELSE IF Live(list[last]) THEN [list EXCEPT ![last] = mine] ELSE list

MarkAttempt(s, c, status) ==
  [s EXCEPT !.attempts[TaskOf[c]] = MarkList(@, c, status)]

(* Mutated: a cancelled run is judged by its attempts. *)
FinalStatusByAttempts(s, stop) ==
  IF stop \in {"cancelled", "error"}
  THEN IF HasAttempt(s, "completed") THEN "partial" ELSE "failed"
  ELSE IF HasAttempt(s, "unknown") THEN "unknown" ELSE DeriveCompletionStatus(s)

(* The status an orderly end deserves. *)
FinalStatus(s, stop) ==
  CASE stop = "cancelled" -> "cancelled"
    [] stop = "error" -> IF HasAttempt(s, "completed") THEN "partial" ELSE "failed"
    [] OTHER -> IF HasAttempt(s, "unknown") THEN "unknown"
                ELSE DeriveCompletionStatus(s)
=============================================================================
