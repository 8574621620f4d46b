--------------------------- MODULE ExecutionRecord ---------------------------
(***************************************************************************)
(* What is kept of one execution: its latest snapshot, the trail of events *)
(* derived from the snapshots or published by its Agents, and the receipts *)
(* of its lifecycle verifiers (src/src/index.ts); and the execution as it  *)
(* can be rebuilt at any cursor of the trail                               *)
(* (src/src/temporal-execution.ts).                                        *)
(*                                                                         *)
(* The fixed script runs one Agent for each task, so an attempt is named   *)
(* by its task.  A held execution is a snapshot with the times its         *)
(* attempts began and ended; 0 is createdAt.                               *)
(***************************************************************************)
EXTENDS ExecutionTracker, PlanScript, Integers

CONSTANT NoTask   \* the task of an event of the execution, or of no task

ASSUME NoTaskIsNone == NoTask \notin Tasks

Unset == -1

Untimed == [t \in Tasks |-> Unset]
Nothing == [snapshot |-> Absent, began |-> Untimed, ended |-> Untimed]

StatusOf(held, t) ==
  LET list == held.snapshot.attempts[t]
  IN  IF list = <<>> THEN "none" ELSE list[Len(list)].status

Bound(held, t) == held.snapshot.attempts[t] # <<>>
Over(held, t) == StatusOf(held, t) \in TerminalAttempt

(* The snapshot s follows at the time now: what began or ended has a time. *)
At(held, s, now) ==
  LET next == [held EXCEPT !.snapshot = s]
  IN  [next EXCEPT
        !.began = [t \in Tasks |->
           IF held.began[t] = Unset /\ StatusOf(next, t) \notin {"none", "starting"}
           THEN now ELSE held.began[t]],
        !.ended = [t \in Tasks |->
           IF held.ended[t] = Unset /\ Over(next, t) THEN now ELSE held.ended[t]]]

-----------------------------------------------------------------------------
(* Events and receipts.                                                    *)

Event(kind, t, status, at) == [kind |-> kind, task |-> t, status |-> status, at |-> at]

(* source and sourceEventId: a child and a receipt have one event of each  *)
(* kind, an execution and an attempt one for each status.  No two Agents   *)
(* beside the plan are the same.                                           *)
SameIdentity(e, f) ==
  /\ e.kind = f.kind /\ e.task = f.task
  /\ e.kind \in {"published", "terminal"} => e.task # NoTask
  /\ e.kind \in {"execution", "attempt"} => e.status = f.status

(* eventTimeForAttempt. *)
AttemptTime(held, t) ==
  LET at == IF Over(held, t) THEN held.ended[t] ELSE held.began[t]
  IN  IF at = Unset THEN 0 ELSE at

(* recordExecutionTransitions, the attempts in plan order. *)
Transitions(p, before, after) ==
  LET changed == Only(IdsInOrder(p), {t \in Tasks : StatusOf(before, t) # StatusOf(after, t)})
  IN  (IF before.snapshot.status = after.snapshot.status THEN <<>>
       ELSE <<Event("execution", NoTask, after.snapshot.status, 0)>>)
      \o [n \in DOMAIN changed |->
            Event("attempt", changed[n], StatusOf(after, changed[n]),
                  AttemptTime(after, changed[n]))]

Receipt(t, verifier, result) == [task |-> t, verifier |-> verifier, result |-> result]

Lifecycle(p, t) == {v \in Named(p.tasks, t).verifiers : v.kind = "lifecycle"}

-----------------------------------------------------------------------------
(* Writes, in the order the host makes them; each reaches the ledger or    *)
(* does not.                                                               *)

Write(kind, what) == [kind |-> kind, what |-> what]

Events(trail) == [n \in DOMAIN trail |-> Write("event", trail[n])]

(* persistExecutionSnapshot of each of the held executions, in order. *)
Persisted(p, before, helds) ==
  LET all == <<before>> \o helds
      one(k) == <<Write("snapshot", all[k + 1])>>
                \o Events(Transitions(p, all[k], all[k + 1]))
  IN  FlattenSeq([k \in DOMAIN helds |->
                    IF all[k] = all[k + 1] THEN <<>> ELSE one(k)])

(* recordLifecycleReceipts for the terminal event of a child. *)
Verified(p, t) ==
  FlattenSeq([n \in 1..Cardinality(Lifecycle(p, t)) |->
    <<Write("receipt", Receipt(t, SetToSeq(Lifecycle(p, t))[n], "pass")),
      Write("event", Event("evidence", t, "none", 0))>>])

Empty == [held |-> Nothing, trail |-> <<>>, receipts |-> {}]

Apply(record, w) ==
  CASE w.kind = "snapshot" -> [record EXCEPT !.held = w.what]
    [] w.kind = "receipt" -> [record EXCEPT !.receipts = @ \cup {w.what}]
    [] w.kind = "event" ->
         IF \E n \in DOMAIN record.trail : SameIdentity(record.trail[n], w.what)
         THEN record ELSE [record EXCEPT !.trail = Append(@, w.what)]

Written(record, writes) ==
  LET after[n \in 0..Len(writes)] ==
        IF n = 0 THEN record ELSE Apply(after[n - 1], writes[n])
  IN  after[Len(writes)]

-----------------------------------------------------------------------------
(* projectExecutionAtCursor.                                               *)

(* The cursors of the events of the execution and of the tasks it has      *)
(* attempts of.                                                            *)
Seen(held, trail, cursor) ==
  {n \in 1..cursor : trail[n].task = NoTask \/ Bound(held, trail[n].task)}

OfKind(trail, seen, kind, t) ==
  {n \in seen : trail[n].kind = kind /\ trail[n].task = t}

(* Mutated: an attempt that was seen shows the status it has now. *)
ViewedListNow(held, trail, seen, t) ==
  LET last == held.snapshot.attempts[t][Len(held.snapshot.attempts[t])]
  IN  IF OfKind(trail, seen, "attempt", t) = {} THEN <<>> ELSE <<last>>

(* The attempt of a task; its Agent is shown once it was published. *)
ViewedList(held, trail, seen, t) ==
  LET statuses == OfKind(trail, seen, "attempt", t)
      last == held.snapshot.attempts[t][Len(held.snapshot.attempts[t])]
  IN  IF statuses = {} THEN <<>>
      ELSE <<[agent |-> IF OfKind(trail, seen, "published", t) = {} THEN NoAgent ELSE last.agent,
              status |-> trail[Max(statuses)].status]>>

(* startedAt is the time of the first event of the attempt, whichever it   *)
(* is, and finishedAt that of the last if the attempt is over.             *)
ViewedTimes(trail, seen, t) ==
  LET statuses == OfKind(trail, seen, "attempt", t)
      last == trail[Max(statuses)]
  IN  IF statuses = {} THEN [began |-> Unset, ended |-> Unset]
      ELSE [began |-> trail[Min({n \in seen : trail[n].task = t})].at,
            ended |-> IF last.status \in TerminalAttempt THEN last.at ELSE Unset]

View(held, trail, cursor) ==
  LET seen == Seen(held, trail, cursor)
      statuses == OfKind(trail, seen, "execution", NoTask)
  IN  IF statuses = {} THEN Nothing
      ELSE [snapshot |->
              [status |-> trail[Max(statuses)].status,
               cancelling |-> \E n \in statuses : trail[n].status = "stopping",
               attempts |-> [t \in Tasks |-> ViewedList(held, trail, seen, t)]],
            began |-> [t \in Tasks |-> ViewedTimes(trail, seen, t).began],
            ended |-> [t \in Tasks |-> ViewedTimes(trail, seen, t).ended]]
=============================================================================
