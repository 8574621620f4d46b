--------------------------- MODULE ExecutionTimes ---------------------------
(***************************************************************************)
(* The times of a plan execution: createdAt, startedAt and finishedAt of   *)
(* the execution and startedAt of each attempt, all taken from Date.now,   *)
(* which may step back.  They decide whether planExecutionSchema           *)
(* (src/src/plan-types.ts) takes what the tracker made of a snapshot, and  *)
(* whether planExecutionTransitionError takes the snapshot after the one   *)
(* that is kept; PlanTransitions!Legal is that function's other half.      *)
(* The finishedAt of an attempt is compared when it is set and never       *)
(* again, so it is not kept.                                               *)
(***************************************************************************)
EXTENDS PlanTransitions, Integers

CONSTANT Times   \* what Date.now may return

ASSUME TimesAreNatural == Times \subseteq Nat

Unset  == -1
Moment == Times \cup {Unset}

Dates == [created : Moment, started : Moment, finished : Moment,
          began : [Tasks -> Seq(Moment)]]

NoDates ==
  [created |-> Unset, started |-> Unset, finished |-> Unset, began |-> Unattempted]

(* The times of r, which follows s with the times d at the moment now: a   *)
(* new execution is created, a queued one that goes on has started, an     *)
(* ended one finished, and an attempt begins when its record appears.      *)
Started(d, s, r, now) ==
  IF s.status = "queued" /\ r.status \in {"running", "stopping"}
  THEN now ELSE d.started

Finished(d, s, r, now) == IF Ended(r) /\ ~Ended(s) THEN now ELSE d.finished

Began(before, list, now) ==
  [n \in 1..Len(list) |-> IF n <= Len(before) THEN before[n] ELSE now]

Stamped(d, s, r, now) ==
  [created  |-> IF s = Absent THEN now ELSE d.created,
   started  |-> Started(d, s, r, now),
   finished |-> Finished(d, s, r, now),
   began    |-> [t \in Tasks |-> Began(d.began[t], r.attempts[t], now)]]

(* The tasks with an attempt that r settles before it began. *)
SettledTooEarly(d, s, r, now) ==
  {t \in Tasks :
     \E n \in 1..Len(d.began[t]) :
       /\ Live(s.attempts[t][n])
       /\ ~Live(r.attempts[t][n])
       /\ now < d.began[t][n]}

(* Mutated: a start before the creation is let through. *)
SensibleAnyStart(d, s, r, now) ==
  LET started  == Started(d, s, r, now)
      finished == Finished(d, s, r, now)
  IN  /\ finished # Unset /\ started # Unset => finished >= started
      /\ SettledTooEarly(d, s, r, now) = {}

(* planExecutionSchema parses r. *)
Sensible(d, s, r, now) ==
  LET started  == Started(d, s, r, now)
      finished == Finished(d, s, r, now)
  IN  /\ started # Unset => started >= (IF s = Absent THEN now ELSE d.created)
      /\ finished # Unset /\ started # Unset => finished >= started
      /\ SettledTooEarly(d, s, r, now) = {}

(* monotonicTimes of the execution and of each attempt; one that d lacks   *)
(* was opened before it got the status it has in e, so d knows it by then. *)
DatesMove(d, e) ==
  /\ d.started # Unset => e.started = d.started
  /\ e.started # Unset => e.started >= d.created
  /\ d.finished # Unset => e.finished = d.finished
  /\ e.finished # Unset =>
       e.finished >= (IF e.started # Unset THEN e.started ELSE d.created)
  /\ \A t \in Tasks : \A n \in 1..Len(e.began[t]) :
       /\ n <= Len(d.began[t]) /\ d.began[t][n] # Unset =>
            e.began[t][n] = d.began[t][n]
       /\ e.began[t][n] # Unset => e.began[t][n] >= d.created

(* A time of the execution lies before its creation. *)
Backdated(d) ==
  \/ d.finished # Unset /\ d.finished < d.created
  \/ \E t \in Tasks : \E n \in 1..Len(d.began[t]) :
       d.began[t][n] # Unset /\ d.began[t][n] < d.created
=============================================================================
