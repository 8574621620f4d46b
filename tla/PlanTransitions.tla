--------------------------- MODULE PlanTransitions ---------------------------
(***************************************************************************)
(* The snapshot of a plan execution and the changes of it that do not      *)
(* rewrite history (src/src/plan-execution-transition.ts).  A snapshot     *)
(* holds the execution's status, its cancellation request and, per task,   *)
(* the attempts in the order of their attemptNumber.  The identity fields  *)
(* never vary within one execution and are left out; its times, and what   *)
(* the same function asks of them, are ExecutionTimes.                     *)
(***************************************************************************)
EXTENDS Naturals, Sequences, FiniteSets

CONSTANTS
  Tasks,    \* the tasks of the approved plan
  Agents,   \* the Agents the workflow engine may start for them
  NoAgent   \* childId and workflowSeq of an attempt no Agent event named

ASSUME TasksFinite   == IsFiniteSet(Tasks) /\ Tasks # {}
ASSUME NoAgentIsNone == NoAgent \notin Agents

TerminalExecution == {"succeeded", "partial", "failed", "cancelled", "unknown"}
ExecutionStatus   == {"queued", "running", "stopping"} \cup TerminalExecution

TerminalAttempt ==
  {"completed", "failed", "cancelled", "rejected", "skipped", "unknown"}
AttemptStatus ==
  {"queued", "starting", "running", "waiting", "stopping"} \cup TerminalAttempt

Attempt == [agent : Agents \cup {NoAgent}, status : AttemptStatus]

Snapshot == [status : ExecutionStatus, cancelling : BOOLEAN,
             attempts : [Tasks -> Seq(Attempt)]]

Unattempted == [t \in Tasks |-> <<>>]

(* No execution of this identity exists yet. *)
Absent ==
  [status |-> "absent", cancelling |-> FALSE, attempts |-> Unattempted]

(* A planned task is not an attempt: a new execution has none. *)
Queued ==
  [status |-> "queued", cancelling |-> FALSE, attempts |-> Unattempted]

Ended(s) == s.status \in TerminalExecution
Live(a)  == a.status \notin TerminalAttempt

(* The attempts of a snapshot, each named by its task and number. *)
AttemptIds(s) == UNION {{t} \X DOMAIN s.attempts[t] : t \in Tasks}

ExecutionTransitions ==
  [status \in ExecutionStatus |->
    CASE status = "queued"   -> ExecutionStatus
      [] status = "running"  -> ExecutionStatus \ {"queued"}
      [] status = "stopping" -> {"stopping"} \cup TerminalExecution
      [] OTHER               -> {status}]

AttemptTransitions ==
  [status \in AttemptStatus |->
    CASE status = "queued"   -> AttemptStatus
      [] status = "starting" -> AttemptStatus \ {"queued", "skipped"}
      [] status \in {"running", "waiting"} ->
           AttemptStatus \ {"queued", "starting", "rejected", "skipped"}
      [] status = "stopping" ->
           {"stopping", "completed", "failed", "cancelled", "unknown"}
      [] OTHER -> {status}]

(* attemptTransitionError has nothing against statuses and identity. *)
AttemptMoves(before, after) ==
  /\ after.status \in AttemptTransitions[before.status]
  /\ before.agent # NoAgent => after.agent = before.agent

(* No attempt of the task disappeared or regressed. *)
ListMoves(before, after) ==
  /\ Len(before) <= Len(after)
  /\ \A n \in 1..Len(before) : AttemptMoves(before[n], after[n])

(* planExecutionTransitionError is undefined, its times apart. *)
Legal(before, after) ==
  /\ after.status \in ExecutionTransitions[before.status]
  /\ before.cancelling => after.cancelling
  /\ \A t \in Tasks : ListMoves(before.attempts[t], after.attempts[t])

InterruptedList(list) ==
  [n \in 1..Len(list) |->
     IF Live(list[n]) THEN [list[n] EXCEPT !.status = "unknown"] ELSE list[n]]

(* closeInterruptedDurableExecutions, on the start of a host. *)
Interrupted(held) ==
  IF held = Absent \/ Ended(held) THEN held
  ELSE [held EXCEPT
         !.status = "unknown",
         !.attempts = [t \in Tasks |-> InterruptedList(held.attempts[t])]]
=============================================================================
