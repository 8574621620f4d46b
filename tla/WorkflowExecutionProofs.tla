----------------------- MODULE WorkflowExecutionProofs -----------------------
(***************************************************************************)
(* What WorkflowExecution keeps for every plan, every set of Agents, every *)
(* order of their events, late ones included, and every way the wall clock *)
(* moves: the durable record follows the tracker until a time before the   *)
(* creation of the execution shows, agrees with it on the end, and a       *)
(* cancellation beats the result.  Of an engine that publishes no Agent    *)
(* after the race it says more: the record shows at its end no attempt at  *)
(* work and no success without every task, and, if the clock never steps   *)
(* back, a watcher sees a behaviour of ExecutionLifecycle.                 *)
(***************************************************************************)
EXTENDS WorkflowExecution, SequenceTheorems, FiniteSetTheorems, WellFoundedInduction,
        TLAPS

Lists == Seq(Attempt)

(* A live attempt is at work, and its Agent was launched for its task. *)
LiveRan(list, t) ==
  \A n \in 1..Len(list) :
    Live(list[n]) => /\ list[n].status = "running"
                     /\ list[n].agent \in launched
                     /\ TaskOf[list[n].agent] = t

StageInv ==
  /\ monitor.stage = "idle" => snapshot = Absent
  /\ monitor.stage = "prepared" => snapshot \in Snapshot /\ snapshot.status = "queued"
  /\ monitor.stage = "racing" => snapshot \in Snapshot /\ ~Ended(snapshot)
  /\ monitor.stage \in {"closing", "rejected"} => snapshot \in Snapshot
  /\ monitor.stage \in {"draining", "released"} =>
       snapshot \in Snapshot /\ Ended(snapshot)
  /\ Active => snapshot.status # "queued"

RanInv == \A t \in Tasks : LiveRan(snapshot.attempts[t], t)

(* Every time lies between the creation of the execution and now. *)
InTime(d, now) ==
  /\ d.created <= now
  /\ d.started # Unset => d.created <= d.started /\ d.started <= now
  /\ d.finished # Unset => d.created <= d.finished /\ d.finished <= now
  /\ \A t \in Tasks : \A n \in 1..Len(d.began[t]) :
       d.began[t][n] # Unset => d.created <= d.began[t][n] /\ d.began[t][n] <= now

(* The times of the tracker: the schema took them, and a clock that never  *)
(* steps back leaves none of them out of order.                            *)
DatesInv ==
  /\ \A t \in Tasks : Len(dates.began[t]) = Len(snapshot.attempts[t])
  /\ dates.started # Unset => dates.created <= dates.started
  /\ dates.started # Unset /\ dates.finished # Unset => dates.started <= dates.finished
  /\ dates.finished # Unset => Ended(snapshot)
  /\ snapshot.status = "queued" => dates.started = Unset
  /\ snapshot = Absent => dates = NoDates
  /\ Steady => InTime(dates, clock)

(* The inductive invariant. *)
IInv == TypeOK /\ StageInv /\ RanInv /\ DatesInv /\ RecordKeepsUp

-----------------------------------------------------------------------------
(* Lists of attempts.                                                      *)

(* A nonempty set of positions has a last one. *)
LEMMA LastPosition ==
  ASSUME NEW k \in Nat, NEW S \in SUBSET (1..k), S # {}
  PROVE  \E n \in S : \A m \in S : m <= n
<1> DEFINE T == {k - n : n \in S}
<1>1. T \subseteq Nat /\ T # {}
  <2>1. \A n \in S : k - n \in Nat
    OBVIOUS
  <2>2. \E n \in S : k - n \in T
    OBVIOUS
  <2> QED
    BY <2>1, <2>2
<1> DEFINE R == {ss \in Nat \X Nat : ss[1] < ss[2]}
<1>w. IsWellFoundedOn(R, Nat)
  BY NatLessThanWellFounded DEF OpToRel
<1>2. PICK x \in T : \A y \in T : <<y, x>> \notin R
  <2> HIDE DEF R, T
  <2> QED
    BY <1>1, <1>w, WFMin
<1>3. \A y \in T : ~(y < x)
  BY <1>1, <1>2
<1>4. PICK n \in S : x = k - n
  OBVIOUS
<1>5. ASSUME NEW m \in S PROVE m <= n
  <2>1. k - m \in T
    OBVIOUS
  <2>2. ~(k - m < k - n)
    BY <1>3, <1>4, <2>1
  <2>3. k \in Int /\ m \in Int /\ n \in Int
    OBVIOUS
  <2> HIDE DEF T, R
  <2> QED
    BY ONLY <2>2, <2>3
<1> QED
  BY <1>5

(* A list of attempts makes a legal move to itself. *)
LEMMA ListStays ==
  ASSUME NEW list \in Lists
  PROVE  ListMoves(list, list)
<1>1. ASSUME NEW n \in 1..Len(list) PROVE AttemptMoves(list[n], list[n])
  <2>1. list[n] \in Attempt
    BY ElementOfSeq DEF Lists
  <2> QED
    BY <2>1 DEF AttemptMoves, AttemptTransitions, Attempt, AttemptStatus,
                TerminalAttempt
<1>2. Len(list) \in Nat
  BY LenProperties DEF Lists
<1> QED
  BY <1>1, <1>2 DEF ListMoves

(* Settling the last attempt of a task is a legal move of its list, unless *)
(* it skips a task that ran.                                               *)
LEMMA SettleLastMoves ==
  ASSUME NEW list \in Lists, NEW t \in Tasks, LiveRan(list, t),
         NEW status \in {"completed", "failed", "cancelled", "skipped", "unknown"},
         status = "skipped" => \A c \in launched : TaskOf[c] # t
  PROVE  LET r == SettleLast(list, status)
         IN  r \in Lists /\ ListMoves(list, r) /\ LiveRan(r, t)
<1> DEFINE r == SettleLast(list, status)
           k == Len(list)
<1>0. k \in Nat
  BY LenProperties DEF Lists
<1>1. CASE ~(list # <<>> /\ Live(list[k]))
  <2>1. r = list
    BY <1>1 DEF SettleLast
  <2> QED
    BY <2>1, ListStays
<1>2. CASE list # <<>> /\ Live(list[k])
  <2>1. k \in 1..k
    BY <1>0, <1>2, EmptySeq DEF Lists
  <2>2. list[k] \in Attempt
    BY <2>1, ElementOfSeq DEF Lists
  <2>3. /\ list[k].status = "running"
        /\ status # "skipped"
    BY <1>2, <2>1 DEF LiveRan
  <2>4. r = [list EXCEPT ![k] = [list[k] EXCEPT !.status = status]]
    BY <1>2 DEF SettleLast
  <2>5. [list[k] EXCEPT !.status = status] \in Attempt
    BY <2>2 DEF Attempt, AttemptStatus, TerminalAttempt
  <2>6. /\ r \in Lists
        /\ Len(r) = k
        /\ \A n \in 1..k : r[n] = IF n = k THEN [list[k] EXCEPT !.status = status]
                                  ELSE list[n]
    BY <2>1, <2>4, <2>5, ExceptSeq DEF Lists
  <2>7. ListMoves(list, r)
    <3>1. ASSUME NEW n \in 1..k PROVE AttemptMoves(list[n], r[n])
      <4>1. CASE n = k
        BY <4>1, <2>2, <2>3, <2>6
        DEF AttemptMoves, AttemptTransitions, Attempt, AttemptStatus, TerminalAttempt
      <4>2. CASE n # k
        BY <4>2, <2>6, ListStays DEF ListMoves
      <4> QED
        BY <4>1, <4>2
    <3> QED
      BY <3>1, <2>6, <1>0 DEF ListMoves
  <2>8. LiveRan(r, t)
    <3>1. ASSUME NEW n \in 1..k, Live(r[n])
          PROVE  n # k /\ r[n] = list[n]
      BY <3>1, <2>2, <2>6 DEF Live, TerminalAttempt, Attempt
    <3> QED
      BY <3>1, <2>6 DEF LiveRan
  <2> QED
    BY <2>6, <2>7, <2>8
<1> QED
  BY <1>1, <1>2

(* The reported status of a task is a legal move of its list. *)
LEMMA ReportMoves ==
  ASSUME NEW list \in Lists, NEW t \in Tasks, LiveRan(list, t),
         NEW status \in {"completed", "failed", "skipped"},
         status = "skipped" => \A c \in launched : TaskOf[c] # t
  PROVE  LET r == Report(list, status)
         IN  r \in Lists /\ ListMoves(list, r) /\ LiveRan(r, t)
<1>1. CASE list = <<>> /\ status # "skipped"
  <2> DEFINE a == [agent |-> NoAgent, status |-> status]
  <2>1. Report(list, status) = <<a>>
    BY <1>1 DEF Report
  <2>2. a \in Attempt /\ ~Live(a)
    BY <1>1 DEF Attempt, AttemptStatus, TerminalAttempt, Live
  <2>3. <<a>> \in Lists /\ Len(<<a>>) = 1 /\ <<a>>[1] = a
    BY <2>2 DEF Lists
  <2>4. Len(list) = 0
    BY <1>1
  <2>5. ListMoves(list, <<a>>)
    BY <2>3, <2>4 DEF ListMoves
  <2>6. LiveRan(<<a>>, t)
    BY <2>2, <2>3 DEF LiveRan
  <2> QED
    BY <2>1, <2>3, <2>5, <2>6
<1>2. CASE ~(list = <<>> /\ status # "skipped")
  BY <1>2, SettleLastMoves DEF Report
<1> QED
  BY <1>1, <1>2

(* An event of a launched Agent is a legal move of its task's list. *)
LEMMA MarkListMoves ==
  ASSUME NEW list \in Lists, NEW c \in Agents, c \in launched,
         LiveRan(list, TaskOf[c]),
         NEW status \in {"running", "completed", "failed", "cancelled"}
  PROVE  LET r == MarkList(list, c, status)
         IN  r \in Lists /\ ListMoves(list, r) /\ LiveRan(r, TaskOf[c])
<1> DEFINE r == MarkList(list, c, status)
           mine == [agent |-> c, status |-> status]
           found == BindingsFor(list, c)
           last == CHOOSE n \in found : \A m \in found : m <= n
           k == Len(list)
<1>0. k \in Nat
  BY LenProperties DEF Lists
<1>m. mine \in Attempt
  BY DEF Attempt, AttemptStatus, TerminalAttempt
<1>r. Live(mine) => mine.status = "running"
  BY DEF Live, TerminalAttempt
<1>1. CASE found = {}
  <2>1. r = Append(list, mine)
    BY <1>1 DEF MarkList
  <2>2. /\ r \in Lists
        /\ Len(r) = k + 1
        /\ \A n \in 1..k : r[n] = list[n]
        /\ r[k + 1] = mine
    BY <2>1, <1>m, AppendProperties DEF Lists
  <2>3. ListMoves(list, r)
    BY <2>2, <1>0, ListStays DEF ListMoves
  <2>4. \A n \in 1..k+1 : n \in 1..k \/ n = k + 1
    BY <1>0
  <2>5. LiveRan(r, TaskOf[c])
    BY <2>2, <2>4, <1>r DEF LiveRan
  <2> QED
    BY <2>2, <2>3, <2>5
<1>2. CASE found # {} /\ ~Live(list[last])
  <2>1. r = list
    BY <1>2 DEF MarkList
  <2> QED
    BY <2>1, ListStays
<1>3. CASE found # {} /\ Live(list[last])
  <2>1. last \in found
    <3>1. found \in SUBSET (1..k)
      BY DEF BindingsFor
    <3>2. \E n \in found : \A m \in found : m <= n
      BY <1>0, <1>3, <3>1, LastPosition
    <3> QED
      BY <3>2
  <2>2. last \in 1..k /\ list[last].agent \in {c, NoAgent}
    BY <2>1 DEF BindingsFor
  <2>3. list[last] \in Attempt
    BY <2>2, ElementOfSeq DEF Lists
  <2>4. list[last].status = "running"
    BY <1>3, <2>2 DEF LiveRan
  <2>5. r = [list EXCEPT ![last] = mine]
    BY <1>3 DEF MarkList
  <2>6. /\ r \in Lists
        /\ Len(r) = k
        /\ \A n \in 1..k : r[n] = IF n = last THEN mine ELSE list[n]
    BY <2>2, <2>5, <1>m, ExceptSeq DEF Lists
  <2>7. ListMoves(list, r)
    <3>1. AttemptMoves(list[last], mine)
      BY <2>2, <2>3, <2>4
      DEF AttemptMoves, AttemptTransitions, Attempt, AttemptStatus, TerminalAttempt
    <3> QED
      BY <3>1, <2>6, <1>0, ListStays DEF ListMoves
  <2>8. LiveRan(r, TaskOf[c])
    BY <2>6, <1>r DEF LiveRan
  <2> QED
    BY <2>6, <2>7, <2>8
<1> QED
  BY <1>1, <1>2, <1>3

-----------------------------------------------------------------------------
(* Snapshots.                                                              *)

Ran(s) == \A t \in Tasks : LiveRan(s.attempts[t], t)

AttemptsMove(s, r) == \A t \in Tasks : ListMoves(s.attempts[t], r.attempts[t])

(* r may follow s in the tracker: attempts and cancellation never regress, *)
(* an ended execution keeps its status, a live one goes towards its end.   *)
Follows(s, r) ==
  /\ r \in Snapshot /\ Ran(r) /\ AttemptsMove(s, r)
  /\ s.cancelling => r.cancelling
  /\ IF Ended(s) THEN r.status = s.status
     ELSE r.status \in {s.status, "stopping"} \cup TerminalExecution

(* A snapshot is a record of its three fields. *)
LEMMA SnapshotFields ==
  ASSUME NEW s \in Snapshot
  PROVE  /\ s.status \in ExecutionStatus
         /\ s.cancelling \in BOOLEAN
         /\ s.attempts \in [Tasks -> Lists]
         /\ \A t \in Tasks : s.attempts[t] \in Lists
BY DEF Snapshot, Lists

(* A snapshot whose attempts are unchanged makes a legal move of them. *)
LEMMA SameAttemptsMove ==
  ASSUME NEW s \in Snapshot, NEW r, r.attempts = s.attempts
  PROVE  AttemptsMove(s, r)
BY SnapshotFields, ListStays DEF AttemptsMove

(* RequestCancellation: the tracker may follow with it. *)
LEMMA CancelFollows ==
  ASSUME NEW s \in Snapshot, Ran(s)
  PROVE  /\ Follows(s, RequestCancellation(s))
         /\ RequestCancellation(s).attempts = s.attempts
<1> DEFINE r == RequestCancellation(s)
<1>1. CASE Ended(s)
  <2>1. r = s
    BY <1>1 DEF RequestCancellation
  <2> QED
    BY <1>1, <2>1, SameAttemptsMove DEF Follows
<1>2. CASE ~Ended(s)
  <2>1. r = [s EXCEPT !.status = "stopping", !.cancelling = TRUE]
    BY <1>2 DEF RequestCancellation
  <2>2. r \in Snapshot
    BY <2>1 DEF Snapshot, ExecutionStatus
  <2>3. r.status = "stopping" /\ r.cancelling = TRUE /\ r.attempts = s.attempts
    BY <2>1 DEF Snapshot
  <2>4. Ran(r)
    BY <2>3 DEF Ran
  <2> QED
    BY <1>2, <2>2, <2>3, <2>4, SameAttemptsMove DEF Follows
<1> QED
  BY <1>1, <1>2

(* Finish: the tracker may follow with it, and the execution has ended. *)
LEMMA FinishFollows ==
  ASSUME NEW s \in Snapshot, Ran(s), NEW status \in TerminalExecution
  PROVE  /\ Follows(s, Finish(s, status))
         /\ Ended(Finish(s, status))
         /\ Finish(s, status).attempts = s.attempts
<1> DEFINE r == Finish(s, status)
<1>1. CASE Ended(s)
  <2>1. r = s
    BY <1>1 DEF Finish
  <2> QED
    BY <1>1, <2>1, SameAttemptsMove DEF Follows
<1>2. CASE ~Ended(s)
  <2>1. r = [s EXCEPT !.status = status]
    BY <1>2 DEF Finish
  <2>2. r \in Snapshot
    BY <2>1 DEF Snapshot, ExecutionStatus
  <2>3. r.status = status /\ r.cancelling = s.cancelling /\ r.attempts = s.attempts
    BY <2>1 DEF Snapshot
  <2>4. Ran(r)
    BY <2>3 DEF Ran
  <2> QED
    BY <1>2, <2>2, <2>3, <2>4, SameAttemptsMove DEF Follows, Ended
<1> QED
  BY <1>1, <1>2

(* Two steps of the tracker within one handler are one step for a watcher, *)
(* when the first leaves the status alone or the second the attempts.      *)
LEMMA FollowsThenFinish ==
  ASSUME NEW s \in Snapshot, NEW r, Follows(s, r), r.status = s.status,
         NEW status \in TerminalExecution
  PROVE  Follows(s, Finish(r, status)) /\ Ended(Finish(r, status))
<1> DEFINE q == Finish(r, status)
<1>1. /\ Follows(r, q)
      /\ Ended(q)
      /\ q.attempts = r.attempts
  BY FinishFollows DEF Follows
<1>2. AttemptsMove(s, q)
  BY <1>1 DEF Follows, AttemptsMove
<1>3. Ended(s) <=> Ended(r)
  BY DEF Ended
<1> QED
  BY <1>1, <1>2, <1>3 DEF Follows, Ended

(* markUnsettledAttempts: the tracker may follow with it. *)
LEMMA SettleFollows ==
  ASSUME NEW s \in Snapshot, Ran(s), NEW status \in {"cancelled", "unknown"}
  PROVE  /\ Follows(s, MarkUnsettledAttempts(s, status))
         /\ MarkUnsettledAttempts(s, status).status = s.status
         /\ MarkUnsettledAttempts(s, status).cancelling = s.cancelling
<1> DEFINE r == MarkUnsettledAttempts(s, status)
           L(t) == SettleLast(s.attempts[t], status)
<1>1. \A t \in Tasks : /\ L(t) \in Lists
                       /\ ListMoves(s.attempts[t], L(t))
                       /\ LiveRan(L(t), t)
  <2> TAKE t \in Tasks
  <2>1. s.attempts[t] \in Lists /\ LiveRan(s.attempts[t], t)
    BY SnapshotFields DEF Ran
  <2> QED
    BY <2>1, SettleLastMoves
<1> HIDE DEF L
<1>2. r = [s EXCEPT !.attempts = [t \in Tasks |-> L(t)]]
  BY DEF MarkUnsettledAttempts, L
<1>3. r \in Snapshot
  BY <1>1, <1>2 DEF Snapshot, Lists
<1>4. /\ r.status = s.status
      /\ r.cancelling = s.cancelling
      /\ \A t \in Tasks : r.attempts[t] = L(t)
  BY <1>2 DEF Snapshot
<1>5. Ran(r) /\ AttemptsMove(s, r)
  BY <1>1, <1>4 DEF Ran, AttemptsMove
<1> QED
  BY <1>3, <1>4, <1>5 DEF Follows

(* A summary the script may report: the tracker may follow with it. *)
LEMMA SummaryFollows ==
  ASSUME NEW s \in Snapshot, Ran(s), NEW summary \in Summaries
  PROVE  /\ Follows(s, ApplySummary(s, summary))
         /\ ApplySummary(s, summary).status = s.status
         /\ ApplySummary(s, summary).cancelling = s.cancelling
<1> DEFINE r == ApplySummary(s, summary)
           L(t) == Report(s.attempts[t], summary[t])
<1>1. \A t \in Tasks : /\ L(t) \in Lists
                       /\ ListMoves(s.attempts[t], L(t))
                       /\ LiveRan(L(t), t)
  <2> TAKE t \in Tasks
  <2>1. s.attempts[t] \in Lists /\ LiveRan(s.attempts[t], t)
    BY SnapshotFields DEF Ran
  <2>2. summary[t] \in {"completed", "failed", "skipped"}
    BY DEF Summaries
  <2>3. summary[t] = "skipped" => \A c \in launched : TaskOf[c] # t
    BY DEF Summaries
  <2> QED
    BY <2>1, <2>2, <2>3, ReportMoves
<1> HIDE DEF L
<1>2. r = [s EXCEPT !.attempts = [t \in Tasks |-> L(t)]]
  BY DEF ApplySummary, L
<1>3. r \in Snapshot
  BY <1>1, <1>2 DEF Snapshot, Lists
<1>4. /\ r.status = s.status
      /\ r.cancelling = s.cancelling
      /\ \A t \in Tasks : r.attempts[t] = L(t)
  BY <1>2 DEF Snapshot
<1>5. Ran(r) /\ AttemptsMove(s, r)
  BY <1>1, <1>4 DEF Ran, AttemptsMove
<1> QED
  BY <1>3, <1>4, <1>5 DEF Follows

(* An Agent's event: the tracker may follow with it. *)
LEMMA MarkFollows ==
  ASSUME NEW s \in Snapshot, Ran(s), NEW c \in Agents, c \in launched,
         NEW status \in {"running", "completed", "failed", "cancelled"}
  PROVE  /\ Follows(s, MarkAttempt(s, c, status))
         /\ MarkAttempt(s, c, status).status = s.status
<1> DEFINE r == MarkAttempt(s, c, status)
           task == TaskOf[c]
           L == MarkList(s.attempts[task], c, status)
<1>0. task \in Tasks
  BY TaskOfType
<1>1. /\ L \in Lists
      /\ ListMoves(s.attempts[task], L)
      /\ LiveRan(L, task)
  BY <1>0, SnapshotFields, MarkListMoves DEF Ran
<1> HIDE DEF L, task
<1>2. r = [s EXCEPT !.attempts = [s.attempts EXCEPT ![task] = L]]
  BY DEF MarkAttempt, L, task
<1>3. r \in Snapshot
  BY <1>0, <1>1, <1>2 DEF Snapshot, Lists
<1>4. /\ r.status = s.status
      /\ r.cancelling = s.cancelling
      /\ \A t \in Tasks : r.attempts[t] = IF t = task THEN L ELSE s.attempts[t]
  BY <1>0, <1>2 DEF Snapshot
<1>5. Ran(r)
  BY <1>1, <1>4 DEF Ran
<1>6. AttemptsMove(s, r)
  BY <1>1, <1>4, SnapshotFields, ListStays DEF AttemptsMove
<1> QED
  BY <1>3, <1>4, <1>5, <1>6 DEF Follows

(* The ledger accepts whatever may follow a live snapshot. *)
LEMMA FollowsIsLegal ==
  ASSUME NEW s \in Snapshot, ~Ended(s), NEW r, Follows(s, r)
  PROVE  Legal(s, r)
<1>1. r.status \in ExecutionTransitions[s.status]
  BY SnapshotFields
  DEF Follows, Ended, ExecutionTransitions, ExecutionStatus, TerminalExecution
<1> QED
  BY <1>1 DEF Follows, AttemptsMove, Legal

(* s may follow in the tracker. *)
Succeeds(s) ==
  /\ s \in Snapshot /\ Ran(s) /\ AttemptsMove(snapshot, s)
  /\ IF Ended(snapshot) THEN s.status = snapshot.status ELSE Legal(snapshot, s)

LEMMA FollowsSucceeds ==
  ASSUME snapshot \in Snapshot, NEW s, Follows(snapshot, s)
  PROVE  Succeeds(s)
BY FollowsIsLegal DEF Follows, Succeeds

-----------------------------------------------------------------------------
(* Times.                                                                  *)

(* The schema takes the times of s, as far as the execution's own go. *)
Plausible(s) ==
  LET e == Stamped(dates, snapshot, s, clock)
  IN  /\ e.started # Unset => e.created <= e.started
      /\ e.started # Unset /\ e.finished # Unset => e.started <= e.finished

LEMMA Moments == Moment \subseteq Int /\ Times \subseteq Int /\ Times \subseteq Moment
                 /\ Unset \in Moment /\ \A m \in Times : m >= 0 /\ m # Unset
BY TimesAreNatural DEF Moment, Unset

(* The fields of times, and of those a snapshot is stamped with. *)
LEMMA DatesFields ==
  ASSUME NEW d \in Dates
  PROVE  /\ d.created \in Moment /\ d.started \in Moment /\ d.finished \in Moment
         /\ d.began \in [Tasks -> Seq(Moment)]
         /\ \A t \in Tasks : /\ d.began[t] \in Seq(Moment)
                             /\ Len(d.began[t]) \in Nat
                             /\ \A n \in 1..Len(d.began[t]) : d.began[t][n] \in Moment
<1>1. /\ d.created \in Moment /\ d.started \in Moment /\ d.finished \in Moment
      /\ d.began \in [Tasks -> Seq(Moment)]
  BY DEF Dates
<1>2. ASSUME NEW t \in Tasks
      PROVE  /\ d.began[t] \in Seq(Moment)
             /\ Len(d.began[t]) \in Nat
             /\ \A n \in 1..Len(d.began[t]) : d.began[t][n] \in Moment
  <2>1. d.began[t] \in Seq(Moment)
    BY <1>1
  <2> QED
    BY <2>1, LenProperties, ElementOfSeq
<1> QED
  BY <1>1, <1>2

LEMMA BeganList ==
  ASSUME NEW before \in Seq(Moment), NEW list \in Lists, NEW now \in Times
  PROVE  LET r == Began(before, list, now)
         IN  /\ r \in Seq(Moment)
             /\ Len(r) = Len(list)
             /\ \A n \in 1..Len(list) :
                  r[n] = IF n <= Len(before) THEN before[n] ELSE now
<1> DEFINE r == Began(before, list, now)
           k == Len(list)
<1>1. k \in Nat /\ Len(before) \in Nat
  BY LenProperties DEF Lists
<1>2. r = [n \in 1..k |-> IF n <= Len(before) THEN before[n] ELSE now]
  BY DEF Began
<1>3. \A n \in 1..k : (IF n <= Len(before) THEN before[n] ELSE now) \in Moment
  <2> TAKE n \in 1..k
  <2>1. n <= Len(before) => n \in 1..Len(before)
    BY <1>1
  <2> QED
    BY <2>1, ElementOfSeq, Moments
<1> HIDE DEF k, r
<1>4. r \in [1..k -> Moment]
  BY <1>2, <1>3
<1>5. r \in Seq(Moment)
  BY <1>1, <1>4, IsASeq
<1>6. Len(r) = k
  <2>1. DOMAIN r = 1..k /\ DOMAIN r = 1..Len(r) /\ Len(r) \in Nat
    BY <1>2, <1>5, LenProperties
  <2> QED
    BY <1>1, <2>1
<1> QED
  BY <1>2, <1>5, <1>6 DEF r, k

(* e is the times d of s stamped at the moment now for r. *)
IsStamp(e, d, s, r, now) ==
  /\ e \in Dates
  /\ e.created = IF s = Absent THEN now ELSE d.created
  /\ e.started = Started(d, s, r, now)
  /\ e.finished = Finished(d, s, r, now)
  /\ \A t \in Tasks :
       /\ Len(e.began[t]) = Len(r.attempts[t])
       /\ \A n \in 1..Len(r.attempts[t]) :
            e.began[t][n] = IF n <= Len(d.began[t]) THEN d.began[t][n] ELSE now

LEMMA StampedFields ==
  ASSUME NEW d \in Dates, NEW s, NEW r \in Snapshot, NEW now \in Times
  PROVE  IsStamp(Stamped(d, s, r, now), d, s, r, now)
<1> DEFINE e == Stamped(d, s, r, now)
           B(t) == Began(d.began[t], r.attempts[t], now)
<1>1. \A t \in Tasks :
        /\ B(t) \in Seq(Moment)
        /\ Len(B(t)) = Len(r.attempts[t])
        /\ \A n \in 1..Len(r.attempts[t]) :
             B(t)[n] = IF n <= Len(d.began[t]) THEN d.began[t][n] ELSE now
  <2> TAKE t \in Tasks
  <2>1. d.began[t] \in Seq(Moment) /\ r.attempts[t] \in Lists
    BY DatesFields, SnapshotFields
  <2> QED
    BY <2>1, BeganList
<1> HIDE DEF B
<1>2. /\ e.created = IF s = Absent THEN now ELSE d.created
      /\ e.started = Started(d, s, r, now)
      /\ e.finished = Finished(d, s, r, now)
      /\ e.began = [t \in Tasks |-> B(t)]
      /\ e = [created |-> IF s = Absent THEN now ELSE d.created,
              started |-> Started(d, s, r, now),
              finished |-> Finished(d, s, r, now),
              began |-> [t \in Tasks |-> B(t)]]
  BY DEF Stamped, B
<1>3. /\ Started(d, s, r, now) \in Moment
      /\ Finished(d, s, r, now) \in Moment
      /\ (IF s = Absent THEN now ELSE d.created) \in Moment
  BY DatesFields, Moments DEF Started, Finished
<1>4. [t \in Tasks |-> B(t)] \in [Tasks -> Seq(Moment)]
  BY <1>1
<1> HIDE DEF e
<1>5. e \in Dates
  BY <1>2, <1>3, <1>4 DEF Dates
<1> QED
  BY <1>1, <1>2, <1>5 DEF e, IsStamp

(* What the stamp adds to the times of the tracker, in one place. *)
LEMMA Stamp ==
  ASSUME TypeOK, DatesInv, snapshot \in Snapshot, NEW s, Succeeds(s)
  PROVE  LET e == Stamped(dates, snapshot, s, clock)
         IN  /\ e \in Dates
             /\ e.created = dates.created
             /\ e.started = Started(dates, snapshot, s, clock)
             /\ e.finished = Finished(dates, snapshot, s, clock)
             /\ \A t \in Tasks :
                  /\ Len(dates.began[t]) \in Nat
                  /\ Len(e.began[t]) = Len(s.attempts[t])
                  /\ Len(dates.began[t]) <= Len(s.attempts[t])
                  /\ \A n \in 1..Len(s.attempts[t]) :
                       e.began[t][n] =
                         IF n <= Len(dates.began[t]) THEN dates.began[t][n] ELSE clock
<1>1. dates \in Dates /\ clock \in Times /\ s \in Snapshot
  BY DEF TypeOK, Succeeds
<1>2. \A t \in Tasks : Len(dates.began[t]) <= Len(s.attempts[t])
  BY DEF DatesInv, Succeeds, AttemptsMove, ListMoves
<1>3. snapshot # Absent
  BY SnapshotFields DEF Absent, ExecutionStatus, TerminalExecution
<1>4. \A t \in Tasks : Len(dates.began[t]) \in Nat
  BY <1>1, DatesFields
<1> DEFINE e == Stamped(dates, snapshot, s, clock)
<1>5. IsStamp(e, dates, snapshot, s, clock)
  BY <1>1, <1>2, StampedFields
<1> HIDE DEF e
<1> QED
  BY <1>2, <1>3, <1>4, <1>5 DEF e, IsStamp

(* Once a time lies before the creation, one always does. *)
LEMMA StaysBackdated ==
  ASSUME TypeOK, DatesInv, snapshot \in Snapshot, NEW s, Succeeds(s), Backdated(dates)
  PROVE  Backdated(Stamped(dates, snapshot, s, clock))
<1> DEFINE e == Stamped(dates, snapshot, s, clock)
<1>s. /\ e.created = dates.created
      /\ e.finished = Finished(dates, snapshot, s, clock)
      /\ \A t \in Tasks :
           /\ Len(dates.began[t]) \in Nat
           /\ Len(e.began[t]) = Len(s.attempts[t])
           /\ Len(dates.began[t]) <= Len(s.attempts[t])
           /\ \A n \in 1..Len(s.attempts[t]) :
                e.began[t][n] =
                  IF n <= Len(dates.began[t]) THEN dates.began[t][n] ELSE clock
  BY Stamp
<1> HIDE DEF e
<1>1. CASE dates.finished # Unset /\ dates.finished < dates.created
  <2>1. e.finished = dates.finished
    BY <1>s, <1>1 DEF DatesInv, Finished
  <2> QED
    BY <1>s, <1>1, <2>1 DEF Backdated, e
<1>2. ASSUME NEW t \in Tasks, NEW n \in 1..Len(dates.began[t]),
             dates.began[t][n] # Unset, dates.began[t][n] < dates.created
      PROVE  Backdated(e)
  <2>0. Len(s.attempts[t]) \in Nat
    BY SnapshotFields, LenProperties DEF Succeeds, Lists
  <2>1. n \in 1..Len(s.attempts[t]) /\ n <= Len(dates.began[t])
    BY <1>s, <2>0
  <2>2. e.began[t][n] = dates.began[t][n] /\ n \in 1..Len(e.began[t])
    BY <1>s, <2>1
  <2> QED
    BY <1>s, <1>2, <2>2 DEF Backdated
<1> QED
  BY <1>1, <1>2 DEF Backdated, e

(* Times none of which lies before the creation move as the ledger wants. *)
LEMMA StampMoves ==
  ASSUME TypeOK, DatesInv, snapshot \in Snapshot, ~Ended(snapshot),
         NEW s, Succeeds(s), Plausible(s),
         ~Backdated(Stamped(dates, snapshot, s, clock))
  PROVE  DatesMove(dates, Stamped(dates, snapshot, s, clock))
<1> DEFINE e == Stamped(dates, snapshot, s, clock)
<1>s. /\ e \in Dates
      /\ e.created = dates.created
      /\ e.started = Started(dates, snapshot, s, clock)
      /\ e.finished = Finished(dates, snapshot, s, clock)
      /\ \A t \in Tasks :
           /\ Len(dates.began[t]) \in Nat
           /\ Len(e.began[t]) = Len(s.attempts[t])
           /\ Len(dates.began[t]) <= Len(s.attempts[t])
           /\ \A n \in 1..Len(s.attempts[t]) :
                e.began[t][n] =
                  IF n <= Len(dates.began[t]) THEN dates.began[t][n] ELSE clock
  BY Stamp
<1>p. /\ e.started # Unset => e.created <= e.started
      /\ e.started # Unset /\ e.finished # Unset => e.started <= e.finished
  BY DEF Plausible
<1>b. ~Backdated(e)
  OBVIOUS
<1> HIDE DEF e
<1>i. /\ e.created \in Int /\ e.started \in Int /\ e.finished \in Int
      /\ dates.created \in Int /\ dates.started \in Int
  BY <1>s, DatesFields, Moments DEF TypeOK
<1>1. dates.started # Unset => e.started = dates.started
  BY <1>s DEF DatesInv, Started
<1>2. e.started # Unset => e.started >= dates.created
  BY <1>s, <1>p, <1>i
<1>3. dates.finished # Unset => e.finished = dates.finished
  BY DEF DatesInv
<1>4. e.finished # Unset =>
        e.finished >= (IF e.started # Unset THEN e.started ELSE dates.created)
  <2>1. e.finished # Unset => ~(e.finished < e.created)
    BY <1>b DEF Backdated
  <2> QED
    BY <1>s, <1>p, <1>i, <2>1
<1>5. ASSUME NEW t \in Tasks, NEW n \in 1..Len(e.began[t])
      PROVE  /\ n <= Len(dates.began[t]) /\ dates.began[t][n] # Unset =>
                  e.began[t][n] = dates.began[t][n]
             /\ e.began[t][n] # Unset => e.began[t][n] >= dates.created
  <2>1. n \in 1..Len(s.attempts[t])
    BY <1>s
  <2>2. n <= Len(dates.began[t]) => e.began[t][n] = dates.began[t][n]
    BY <1>s, <2>1
  <2>3. e.began[t][n] # Unset => ~(e.began[t][n] < e.created)
    BY <1>b DEF Backdated
  <2>4. e.began[t][n] \in Int
    BY <1>s, DatesFields, Moments
  <2> QED
    BY <1>s, <1>i, <2>2, <2>3, <2>4
<1> QED
  BY <1>1, <1>2, <1>3, <1>4, <1>5 DEF DatesMove, e

(* A clock that never steps back dates nothing before the creation... *)
LEMMA InTimeIsNotBackdated ==
  ASSUME NEW d \in Dates, NEW now, InTime(d, now)
  PROVE  ~Backdated(d)
<1>1. d.created \in Int /\ d.finished \in Int
  BY DatesFields, Moments
<1>2. \A t \in Tasks : \A n \in 1..Len(d.began[t]) : d.began[t][n] \in Int
  BY DatesFields, Moments
<1> QED
  BY <1>1, <1>2 DEF InTime, Backdated

(* ... and lets every handler through, on times that are in order. *)
LEMMA InTimeIsSensible ==
  ASSUME NEW d \in Dates, NEW now \in Times, InTime(d, now), NEW s, s # Absent, NEW r,
         d.started # Unset /\ d.finished # Unset => d.started <= d.finished,
         d.finished # Unset => Ended(s)
  PROVE  Sensible(d, s, r, now)
<1>1. d.created \in Int /\ d.started \in Int /\ d.finished \in Int /\ now \in Int
  BY DatesFields, Moments
<1>2. Started(d, s, r, now) \in {now, d.started}
  BY DEF Started
<1>3. Finished(d, s, r, now) \in {now, d.finished}
  BY DEF Finished
<1>4. d.started # Unset => d.started <= now
  BY DEF InTime
<1>5. Started(d, s, r, now) # Unset => Started(d, s, r, now) >= d.created
  BY <1>1, <1>2 DEF InTime
<1>6. /\ Finished(d, s, r, now) # Unset
      /\ Started(d, s, r, now) # Unset
      => Finished(d, s, r, now) >= Started(d, s, r, now)
  <2>1. CASE s.status = "queued" /\ r.status \in {"running", "stopping"}
    <3>1. ~Ended(r) /\ ~Ended(s)
      BY <2>1 DEF Ended, TerminalExecution
    <3> QED
      BY <3>1 DEF Finished
  <2>2. CASE ~(s.status = "queued" /\ r.status \in {"running", "stopping"})
    <3>1. Started(d, s, r, now) = d.started
      BY <2>2 DEF Started
    <3> QED
      BY <1>1, <1>3, <1>4, <3>1
  <2> QED
    BY <2>1, <2>2
<1>7. SettledTooEarly(d, s, r, now) = {}
  <2>1. \A t \in Tasks : \A n \in 1..Len(d.began[t]) : ~(now < d.began[t][n])
    <3> TAKE t \in Tasks
    <3> TAKE n \in 1..Len(d.began[t])
    <3>1. d.began[t][n] \in Moment
      BY DatesFields
    <3>2. CASE d.began[t][n] = Unset
      BY <1>1, <3>2, Moments DEF Unset
    <3>3. CASE d.began[t][n] # Unset
      <4>1. d.began[t][n] <= now
        BY <3>3 DEF InTime
      <4>2. d.began[t][n] \in Int
        BY <3>1, Moments
      <4> QED
        BY <1>1, <4>1, <4>2
    <3> QED
      BY <3>2, <3>3
  <2> QED
    BY <2>1 DEF SettledTooEarly
<1> QED
  BY <1>5, <1>6, <1>7 DEF Sensible

(* What holding s makes of the record: s itself, or the first half of a    *)
(* new attempt where the ledger refused s, or nothing.                     *)
LEMMA HeldRecord ==
  ASSUME TypeOK, DatesInv, snapshot \in Snapshot, NEW s, Succeeds(s), Hold(s)
  PROVE  /\ snapshot' = s
         /\ dates' = Stamped(dates, snapshot, s, clock)
         /\ durable' \in Snapshot \cup {Absent}
         /\ kept' \in Dates
         /\ \/ durable' = s /\ kept' = dates' /\ Takes(s, dates')
            \/ ~Takes(s, dates') /\ UNCHANGED <<durable, kept>>
            \/ /\ ~Takes(s, dates')
               /\ ~(durable # Absent /\ Ended(durable))
               /\ durable'.status = snapshot.status
               /\ \E t \in Tasks : Len(snapshot.attempts[t]) < Len(s.attempts[t])
<1> DEFINE e == Stamped(dates, snapshot, s, clock)
<1>1. /\ snapshot' = s
      /\ dates' = e
      /\ Persist(s, e)
  BY DEF Hold
<1>2. e \in Dates /\ s \in Snapshot
  BY Stamp DEF Succeeds
<1> HIDE DEF e
<1>3. CASE Takes(s, e)
  <2>1. durable' = s /\ kept' = e
    BY <1>1, <1>3 DEF Persist
  <2> QED
    BY <1>1, <1>2, <1>3, <2>1 DEF e
<1>4. CASE ~Takes(s, e) /\ UNCHANGED <<durable, kept>>
  BY <1>1, <1>4 DEF TypeOK, e
<1>5. ASSUME ~Takes(s, e), NEW t \in OpenedTasks(s),
             durable' = Opened(s, t), kept' = OpenedDates(s, t)
      PROVE  /\ durable' \in Snapshot
             /\ kept' \in Dates
             /\ ~(durable # Absent /\ Ended(durable))
             /\ durable'.status = snapshot.status
             /\ t \in Tasks /\ Len(snapshot.attempts[t]) < Len(s.attempts[t])
  <2>1. /\ t \in Tasks
        /\ Len(snapshot.attempts[t]) < Len(s.attempts[t])
        /\ Takes(Opened(s, t), dates)
    BY DEF OpenedTasks
  <2>2. ~(durable # Absent /\ Ended(durable))
    BY <2>1 DEF Takes
  <2>3. /\ snapshot.attempts[t] \in Lists /\ s.attempts[t] \in Lists
        /\ snapshot.attempts \in [Tasks -> Lists]
    BY <1>2, <2>1, SnapshotFields
  <2> DEFINE list == s.attempts[t]
             k == Len(list)
             a == [NewAttempt(s, t) EXCEPT !.status = "starting"]
             opened == Append(snapshot.attempts[t], a)
             m == IF Live(NewAttempt(s, t)) THEN clock ELSE Unset
             began == Append(dates.began[t], m)
  <2>4. k \in 1..k
    <3>1. Len(snapshot.attempts[t]) \in Nat /\ k \in Nat
      BY <2>3, LenProperties DEF Lists
    <3> QED
      BY <2>1, <3>1
  <2>5. NewAttempt(s, t) \in Attempt
    BY <2>3, <2>4, ElementOfSeq DEF NewAttempt, Lists
  <2>6. a \in Attempt
    BY <2>5 DEF Attempt, AttemptStatus
  <2> HIDE DEF a
  <2>7. opened \in Lists
    BY <2>3, <2>6, AppendProperties DEF Lists
  <2>8. Opened(s, t) = [snapshot EXCEPT !.attempts = [snapshot.attempts EXCEPT ![t] = opened]]
    BY DEF Opened, a
  <2> HIDE DEF opened
  <2>9. [snapshot.attempts EXCEPT ![t] = opened] \in [Tasks -> Lists]
    BY <2>1, <2>3, <2>7
  <2>10. Opened(s, t) \in Snapshot /\ Opened(s, t).status = snapshot.status
    BY <2>8, <2>9 DEF Snapshot, Lists
  <2>11. m \in Moment
    BY Moments DEF TypeOK
  <2> HIDE DEF m
  <2>12. began \in Seq(Moment)
    BY <2>1, <2>11, DatesFields, AppendProperties DEF TypeOK
  <2>13. OpenedDates(s, t) = [dates EXCEPT !.began = [dates.began EXCEPT ![t] = began]]
    BY DEF OpenedDates, m
  <2> HIDE DEF began
  <2>14. [dates.began EXCEPT ![t] = began] \in [Tasks -> Seq(Moment)]
    BY <2>1, <2>12, DatesFields DEF TypeOK
  <2>15. OpenedDates(s, t) \in Dates
    BY <2>13, <2>14 DEF Dates, TypeOK
  <2> QED
    BY <1>5, <2>1, <2>2, <2>10, <2>15
<1>6. \/ Takes(s, e)
      \/ ~Takes(s, e) /\ UNCHANGED <<durable, kept>>
      \/ ~Takes(s, e) /\ \E t \in OpenedTasks(s) :
                           durable' = Opened(s, t) /\ kept' = OpenedDates(s, t)
  BY <1>1 DEF Persist
<1> QED
  BY <1>1, <1>3, <1>4, <1>5, <1>6 DEF e

(* A clock that never steps back stamps times in order. *)
LEMMA StampInTime ==
  ASSUME TypeOK, DatesInv, snapshot \in Snapshot, NEW s, Succeeds(s), Steady
  PROVE  InTime(Stamped(dates, snapshot, s, clock), clock)
<1> DEFINE e == Stamped(dates, snapshot, s, clock)
<1>s. /\ e \in Dates
      /\ e.created = dates.created
      /\ e.started = Started(dates, snapshot, s, clock)
      /\ e.finished = Finished(dates, snapshot, s, clock)
      /\ \A t \in Tasks :
           /\ Len(dates.began[t]) \in Nat
           /\ Len(e.began[t]) = Len(s.attempts[t])
           /\ Len(dates.began[t]) <= Len(s.attempts[t])
           /\ \A n \in 1..Len(s.attempts[t]) :
                e.began[t][n] =
                  IF n <= Len(dates.began[t]) THEN dates.began[t][n] ELSE clock
  BY Stamp
<1> HIDE DEF e
<1>0. /\ InTime(dates, clock)
      /\ dates.created \in Int /\ dates.started \in Int /\ dates.finished \in Int
      /\ clock \in Int
      /\ \A t \in Tasks : \A n \in 1..Len(dates.began[t]) : dates.began[t][n] \in Int
  BY DatesFields, Moments DEF DatesInv, TypeOK
<1>1. e.created <= clock
  BY <1>s, <1>0 DEF InTime
<1>2. e.started # Unset => e.created <= e.started /\ e.started <= clock
  BY <1>s, <1>0 DEF InTime, Started
<1>3. e.finished # Unset => e.created <= e.finished /\ e.finished <= clock
  BY <1>s, <1>0 DEF InTime, Finished
<1>4. ASSUME NEW t \in Tasks, NEW n \in 1..Len(e.began[t]), e.began[t][n] # Unset
      PROVE  e.created <= e.began[t][n] /\ e.began[t][n] <= clock
  <2>1. n \in 1..Len(s.attempts[t])
    BY <1>s
  <2>2. CASE n <= Len(dates.began[t])
    <3>1. n \in 1..Len(dates.began[t])
      BY <1>s, <2>2
    <3>2. e.began[t][n] = dates.began[t][n]
      BY <1>s, <2>1, <2>2
    <3> QED
      BY <1>s, <1>0, <1>4, <3>1, <3>2 DEF InTime
  <2>3. CASE ~(n <= Len(dates.began[t]))
    <3>1. e.began[t][n] = clock
      BY <1>s, <2>1, <2>3
    <3> QED
      BY <1>s, <1>0, <3>1 DEF InTime
  <2> QED
    BY <2>2, <2>3
<1> QED
  BY <1>1, <1>2, <1>3, <1>4 DEF InTime, e

(* The times s is stamped with keep what is known of the tracker's. *)
LEMMA HeldDates ==
  ASSUME TypeOK, DatesInv, snapshot \in Snapshot, NEW s, Succeeds(s), Plausible(s),
         snapshot' = s, dates' = Stamped(dates, snapshot, s, clock), UNCHANGED <<clock, launched>>
  PROVE  dates' \in Dates /\ DatesInv'
<1> DEFINE e == Stamped(dates, snapshot, s, clock)
<1>s. /\ e \in Dates
      /\ e.created = dates.created
      /\ e.started = Started(dates, snapshot, s, clock)
      /\ e.finished = Finished(dates, snapshot, s, clock)
      /\ \A t \in Tasks :
           /\ Len(dates.began[t]) \in Nat
           /\ Len(e.began[t]) = Len(s.attempts[t])
           /\ Len(dates.began[t]) <= Len(s.attempts[t])
           /\ \A n \in 1..Len(s.attempts[t]) :
                e.began[t][n] =
                  IF n <= Len(dates.began[t]) THEN dates.began[t][n] ELSE clock
  BY Stamp
<1>p. /\ e.started # Unset => e.created <= e.started
      /\ e.started # Unset /\ e.finished # Unset => e.started <= e.finished
  BY DEF Plausible
<1>d. dates' = e /\ snapshot' = s
  OBVIOUS
<1> HIDE DEF e
<1>1. e.finished # Unset => Ended(s)
  <2>1. Ended(snapshot) => Ended(s)
    BY DEF Succeeds, Ended
  <2> QED
    BY <1>s, <2>1 DEF Finished, DatesInv
<1>2. s.status = "queued" => e.started = Unset
  <2>1. s.status = "queued" => snapshot.status = "queued"
    BY SnapshotFields
    DEF Succeeds, Legal, Ended, ExecutionTransitions, ExecutionStatus, TerminalExecution
  <2> QED
    BY <1>s, <2>1 DEF Started, DatesInv
<1>3. Steady => InTime(e, clock)
  BY StampInTime DEF e
<1>4. s # Absent
  BY SnapshotFields DEF Succeeds, Absent, ExecutionStatus, TerminalExecution
<1>5. \A t \in Tasks : Len(e.began[t]) = Len(s.attempts[t])
  BY <1>s
<1> QED
  BY <1>s, <1>p, <1>d, <1>1, <1>2, <1>3, <1>4, <1>5 DEF DatesInv, Steady

(* A held step keeps the record in step with the tracker. *)
LEMMA HeldKeepsUp ==
  ASSUME TypeOK, DatesInv, RecordKeepsUp, ~Restarted, snapshot \in Snapshot,
         NEW s, Succeeds(s), Plausible(s), Hold(s)
  PROVE  /\ Ended(durable') => durable'.status = s.status
         /\ ~Backdated(dates') => /\ durable'.status = s.status
                                  /\ ~Ended(s) => durable' = s /\ kept' = dates'
<1>h. /\ dates' = Stamped(dates, snapshot, s, clock)
      /\ \/ durable' = s /\ kept' = dates' /\ Takes(s, dates')
         \/ ~Takes(s, dates') /\ UNCHANGED <<durable, kept>>
         \/ /\ ~Takes(s, dates')
            /\ ~(durable # Absent /\ Ended(durable))
            /\ durable'.status = snapshot.status
  BY HeldRecord
<1>1. Ended(snapshot) => s.status = snapshot.status
  BY DEF Succeeds
<1>2. ASSUME Ended(durable') PROVE durable'.status = s.status
  <2>1. CASE durable' = durable
    BY <1>1, <1>2, <2>1 DEF RecordKeepsUp, Ended
  <2>2. CASE durable'.status = snapshot.status
    BY <1>1, <1>2, <2>2 DEF Ended
  <2> QED
    BY <1>h, <2>1, <2>2
<1>3. ASSUME ~Backdated(dates')
      PROVE  /\ durable'.status = s.status
             /\ ~Ended(s) => durable' = s /\ kept' = dates'
  <2>1. ~Backdated(dates)
    BY <1>3, <1>h, StaysBackdated
  <2>2. CASE Ended(snapshot)
    <3>1. durable.status = snapshot.status /\ Ended(durable) /\ durable # Absent
      BY <2>1, <2>2 DEF RecordKeepsUp, Ended, Absent, TerminalExecution
    <3>2. s.status = snapshot.status /\ Ended(s)
      BY <1>1, <2>2 DEF Ended
    <3> QED
      BY <1>h, <3>1, <3>2 DEF Takes
  <2>3. CASE ~Ended(snapshot)
    <3>1. durable = snapshot /\ kept = dates
      BY <2>1, <2>3 DEF RecordKeepsUp
    <3>2. DatesMove(dates, dates')
      BY <1>3, <1>h, <2>3, StampMoves
    <3>3. Takes(s, dates')
      BY <2>3, <3>1, <3>2 DEF Takes, Succeeds
    <3> QED
      BY <1>h, <3>3
  <2> QED
    BY <2>2, <2>3
<1> QED
  BY <1>2, <1>3

(* The invariant's parts that only Hold changes, reassembled. *)
LEMMA HeldStep ==
  ASSUME IInv, ~Restarted, snapshot \in Snapshot,
         NEW s, Succeeds(s), Plausible(s), Hold(s), UNCHANGED <<launched, clock>>,
         monitor' \in Monitor, ~Restarted',
         watchdog' \in {"off", "armed", "expired"},
         started' \subseteq launched,
         caller' \in {"idle", "awaiting", "returned", "threw", "lost"}
  PROVE  snapshot' = s /\ TypeOK' /\ RanInv' /\ DatesInv' /\ RecordKeepsUp'
<1> USE DEF IInv
<1>1. /\ snapshot' = s
      /\ dates' = Stamped(dates, snapshot, s, clock)
      /\ durable' \in Snapshot \cup {Absent}
      /\ kept' \in Dates
  BY HeldRecord
<1>2. dates' \in Dates /\ DatesInv'
  BY <1>1, HeldDates
<1>3. s \in Snapshot /\ Ran(s)
  BY DEF Succeeds
<1>4. TypeOK'
  BY <1>1, <1>2, <1>3 DEF TypeOK
<1>5. RanInv'
  BY <1>1, <1>3 DEF RanInv, Ran, LiveRan
<1>6. /\ Ended(durable') => durable'.status = s.status
      /\ ~Backdated(dates') => /\ durable'.status = s.status
                               /\ ~Ended(s) => durable' = s /\ kept' = dates'
  BY HeldKeepsUp
<1>7. RecordKeepsUp'
  BY <1>1, <1>6 DEF RecordKeepsUp, Ended, Backdated
<1> QED
  BY <1>1, <1>2, <1>4, <1>5, <1>7

(* The schema that takes a step takes its times. *)
LEMMA SensibleIsPlausible ==
  ASSUME TypeOK, DatesInv, snapshot \in Snapshot, NEW s, Succeeds(s),
         Sensible(dates, snapshot, s, clock)
  PROVE  Plausible(s)
<1> DEFINE e == Stamped(dates, snapshot, s, clock)
<1>1. /\ e \in Dates
      /\ e.created = dates.created
      /\ e.started = Started(dates, snapshot, s, clock)
      /\ e.finished = Finished(dates, snapshot, s, clock)
  BY Stamp
<1> HIDE DEF e
<1>2. e.created \in Int /\ e.started \in Int /\ e.finished \in Int
  BY <1>1, DatesFields, Moments
<1>3. snapshot # Absent
  BY SnapshotFields DEF Absent, ExecutionStatus, TerminalExecution
<1> QED
  BY <1>1, <1>2, <1>3 DEF Sensible, Plausible, e

(* A tracked step. *)
LEMMA TrackedStep ==
  ASSUME IInv, ~Restarted, snapshot \in Snapshot,
         NEW s, Succeeds(s), Track(s), UNCHANGED <<launched, clock>>,
         monitor' \in Monitor, ~Restarted',
         watchdog' \in {"off", "armed", "expired"},
         started' \subseteq launched,
         caller' \in {"idle", "awaiting", "returned", "threw", "lost"}
  PROVE  snapshot' = s /\ TypeOK' /\ RanInv' /\ DatesInv' /\ RecordKeepsUp'
<1>1. Plausible(s) /\ Hold(s)
  BY SensibleIsPlausible DEF Track, IInv
<1> QED
  BY <1>1, HeldStep

(* What a handler leaves behind that threw on its way to r. *)
LEMMA HalfwayFollows ==
  ASSUME snapshot \in Snapshot, Ran(snapshot), NEW r, Follows(snapshot, r),
         NEW settled \in SUBSET Tasks
  PROVE  LET h == Halfway(r, settled)
         IN  /\ Follows(snapshot, h)
             /\ h.status = IF Ended(r) THEN snapshot.status ELSE r.status
             /\ \A t \in Tasks :
                  h.attempts[t] = IF t \in settled THEN r.attempts[t]
                                  ELSE snapshot.attempts[t]
<1> DEFINE h == Halfway(r, settled)
           L(t) == IF t \in settled THEN r.attempts[t] ELSE snapshot.attempts[t]
           status == IF Ended(r) THEN snapshot.status ELSE r.status
<1>1. r \in Snapshot /\ Ran(r) /\ AttemptsMove(snapshot, r)
  BY DEF Follows
<1>2. \A t \in Tasks : L(t) \in Lists /\ ListMoves(snapshot.attempts[t], L(t)) /\ LiveRan(L(t), t)
  BY <1>1, SnapshotFields, ListStays DEF AttemptsMove, Ran
<1>3. status \in ExecutionStatus
  BY <1>1, SnapshotFields
<1>4. h = [r EXCEPT !.status = status, !.attempts = [t \in Tasks |-> L(t)]]
  BY DEF Halfway
<1> HIDE DEF L, status
<1>5. [t \in Tasks |-> L(t)] \in [Tasks -> Lists]
  BY <1>2
<1>6. h \in Snapshot
  <2>1. h = [status |-> status, cancelling |-> r.cancelling,
             attempts |-> [t \in Tasks |-> L(t)]]
    BY <1>1, <1>4 DEF Snapshot
  <2>2. r.cancelling \in BOOLEAN
    BY <1>1, SnapshotFields
  <2> QED
    BY <1>3, <1>5, <2>1, <2>2 DEF Snapshot, Lists
<1>7. /\ h.status = status
      /\ h.cancelling = r.cancelling
      /\ \A t \in Tasks : h.attempts[t] = L(t)
  BY <1>1, <1>4 DEF Snapshot
<1> HIDE DEF h
<1>8. Ran(h) /\ AttemptsMove(snapshot, h)
  BY <1>2, <1>7 DEF Ran, AttemptsMove
<1>9. IF Ended(snapshot) THEN status = snapshot.status
      ELSE status \in {snapshot.status, "stopping"} \cup TerminalExecution
  BY DEF Follows, status
<1> QED
  BY <1>6, <1>7, <1>8, <1>9 DEF Follows, h, L, status

(* A step that neither starts nor ends an execution leaves its own times.   *)
LEMMA LiveIsPlausible ==
  ASSUME TypeOK, DatesInv, snapshot \in Snapshot, snapshot.status # "queued",
         NEW h, Succeeds(h), Ended(h) => Ended(snapshot)
  PROVE  Plausible(h)
<1> DEFINE e == Stamped(dates, snapshot, h, clock)
<1>1. /\ e.created = dates.created
      /\ e.started = Started(dates, snapshot, h, clock)
      /\ e.finished = Finished(dates, snapshot, h, clock)
  BY Stamp
<1>2. e.started = dates.started
  BY <1>1 DEF Started
<1>3. e.finished = dates.finished
  BY <1>1 DEF Finished
<1> HIDE DEF e
<1> QED
  BY <1>1, <1>2, <1>3 DEF Plausible, DatesInv, e

(* A handler that throws keeps the invariant. *)
LEMMA RejectedStep ==
  ASSUME IInv, monitor.stage \in {"racing", "closing"}, NEW r, Follows(snapshot, r),
         Rejected(r), UNCHANGED <<launched, clock>>,
         watchdog' \in {"off", "armed", "expired"},
         started' \subseteq launched,
         caller' \in {"idle", "awaiting", "returned", "threw", "lost"}
  PROVE  /\ IInv'
         /\ monitor' = [monitor EXCEPT !.stage = "rejected"]
         /\ snapshot'.status = IF Ended(r) THEN snapshot.status ELSE r.status
<1>1. /\ snapshot \in Snapshot /\ Ran(snapshot)
      /\ ~Restarted
      /\ snapshot.status # "queued"
  BY DEF IInv, StageInv, RanInv, Ran, Restarted, Active
<1>2. PICK settled \in SUBSET Tasks : Hold(Halfway(r, settled))
  BY DEF Rejected
<1> DEFINE h == Halfway(r, settled)
<1>3. /\ Follows(snapshot, h)
      /\ h.status = IF Ended(r) THEN snapshot.status ELSE r.status
  BY <1>1, HalfwayFollows
<1>4. Hold(h)
  BY <1>2
<1> HIDE DEF h
<1>5. Succeeds(h) /\ h \in Snapshot
  BY <1>1, <1>3, FollowsSucceeds DEF Follows
<1>6. Plausible(h)
  BY <1>1, <1>3, <1>5, LiveIsPlausible DEF IInv, Ended
<1>7. /\ monitor' = [monitor EXCEPT !.stage = "rejected"]
      /\ monitor' \in Monitor
      /\ monitor'.stage = "rejected"
  BY DEF Rejected, MoveTo, IInv, TypeOK, Monitor, Stage
<1>8. snapshot' = h /\ TypeOK' /\ RanInv' /\ DatesInv' /\ RecordKeepsUp'
  BY <1>1, <1>4, <1>5, <1>6, <1>7, HeldStep DEF Restarted
<1>9. StageInv'
  <2>1. h.status # "queued"
    BY <1>1, <1>3 DEF Follows, TerminalExecution
  <2> QED
    BY <1>5, <1>7, <1>8, <2>1 DEF StageInv
<1> QED
  BY <1>3, <1>7, <1>8, <1>9 DEF IInv

-----------------------------------------------------------------------------
(* A step that leaves the tracker and the record alone. *)
LEMMA QuietStep ==
  ASSUME IInv, UNCHANGED <<snapshot, durable, dates, kept, launched, clock>>,
         Restarted => Restarted',
         monitor' \in Monitor,
         watchdog' \in {"off", "armed", "expired"},
         started' \subseteq launched,
         caller' \in {"idle", "awaiting", "returned", "threw", "lost"}
  PROVE  TypeOK' /\ RanInv' /\ DatesInv' /\ RecordKeepsUp'
<1> USE DEF IInv
<1>1. TypeOK'
  BY DEF TypeOK
<1>2. RanInv'
  BY DEF RanInv, LiveRan
<1>3. DatesInv'
  BY DEF DatesInv, InTime, Steady
<1>4. RecordKeepsUp'
  BY DEF RecordKeepsUp
<1> QED
  BY <1>1, <1>2, <1>3, <1>4

(* The times before an execution. *)
LEMMA NoTimes ==
  /\ NoDates \in Dates
  /\ NoDates.started = Unset /\ NoDates.finished = Unset
  /\ \A t \in Tasks : NoDates.began[t] = <<>>
  /\ \A now \in Times : InTime(NoDates, now)
<1>1. Unattempted \in [Tasks -> Seq(Moment)] /\ \A t \in Tasks : Unattempted[t] = <<>>
  BY DEF Unattempted
<1>2. /\ NoDates = [created |-> Unset, started |-> Unset, finished |-> Unset,
                   began |-> Unattempted]
      /\ NoDates.created = Unset
      /\ NoDates.started = Unset
      /\ NoDates.finished = Unset
      /\ NoDates.began = Unattempted
  BY DEF NoDates
<1>3. NoDates \in Dates
  BY <1>1, <1>2, Moments DEF Dates
<1>4. ASSUME NEW now \in Times PROVE InTime(NoDates, now)
  <2>1. Unset <= now
    BY Moments DEF Unset
  <2>2. \A t \in Tasks : Len(NoDates.began[t]) = 0
    BY <1>1, <1>2
  <2> QED
    BY <1>2, <2>1, <2>2 DEF InTime
<1> QED
  BY <1>1, <1>2, <1>3, <1>4

(* The record of no execution. *)
LEMMA AbsentFields ==
  /\ ~Ended(Absent) /\ Absent.status # "queued" /\ Absent \notin Snapshot
  /\ \A t \in Tasks : Absent.attempts[t] = <<>> /\ LiveRan(Absent.attempts[t], t)
<1>1. Absent \notin Snapshot
  BY SnapshotFields DEF Absent, ExecutionStatus, TerminalExecution
<1>2. ~Ended(Absent) /\ Absent.status # "queued"
  BY DEF Absent, Ended, TerminalExecution
<1> QED
  BY <1>1, <1>2 DEF Absent, Unattempted, LiveRan

(* Without an execution the times are in order, whatever the clock says. *)
LEMMA AbsentDates ==
  ASSUME NEW now \in Times
  PROVE  /\ \A t \in Tasks : Len(NoDates.began[t]) = Len(Absent.attempts[t])
         /\ NoDates.started = Unset /\ NoDates.finished = Unset
         /\ InTime(NoDates, now)
BY NoTimes, AbsentFields

(* Initially nothing is recorded and nothing tracked. *)
LEMMA InitIInv == Init => IInv
<1> SUFFICES ASSUME Init PROVE IInv
  OBVIOUS
<1>1. TypeOK
  <2>1. monitor \in Monitor
    BY DEF Init, Monitor, Stage, StopReason
  <2> QED
    BY <2>1, LaunchesType, NoTimes DEF Init, TypeOK
<1>2. StageInv
  BY DEF Init, StageInv, Active
<1>3. RanInv
  BY AbsentFields DEF Init, RanInv
<1>4. RecordKeepsUp
  BY AbsentFields DEF Init, RecordKeepsUp
<1>5. DatesInv
  BY AbsentDates, AbsentFields DEF Init, DatesInv
<1> QED
  BY <1>1, <1>2, <1>3, <1>4, <1>5 DEF IInv

(* A new execution has a proper snapshot without attempts. *)
LEMMA QueuedSnapshot == Queued \in Snapshot /\ Ran(Queued) /\ ~Ended(Queued)
<1>1. Unattempted \in [Tasks -> Lists] /\ \A t \in Tasks : Unattempted[t] = <<>>
  BY DEF Unattempted, Lists
<1>2. Queued \in Snapshot
  BY <1>1 DEF Queued, Snapshot, ExecutionStatus, Lists
<1>3. Ran(Queued)
  BY <1>1 DEF Queued, Ran, LiveRan
<1> QED
  BY <1>2, <1>3 DEF Queued, Ended, TerminalExecution

(* The checkpoint of a new execution is taken... *)
LEMMA Prepared ==
  ASSUME IInv, Prepare
  PROVE  /\ snapshot = Absent /\ durable = Absent /\ dates = NoDates
         /\ snapshot' = Queued /\ durable' = Queued
         /\ dates' = Stamped(dates, snapshot, Queued, clock) /\ kept' = dates'
<1>1. monitor.stage = "idle" /\ Hold(Queued)
  BY DEF Prepare, Track
<1>2. snapshot = Absent /\ dates = NoDates
  BY <1>1 DEF IInv, StageInv, DatesInv
<1>3. durable = Absent
  <2>1. ~Backdated(dates)
    BY <1>2, NoTimes DEF Backdated
  <2> QED
    BY <1>1, <1>2, <2>1, AbsentFields DEF IInv, RecordKeepsUp, Restarted
<1> QED
  BY <1>1, <1>2, <1>3 DEF Hold, Persist, Takes

(* ... and its times are in order. *)
LEMMA PrepareIInv ==
  ASSUME IInv, Prepare
  PROVE  IInv'
<1> DEFINE e == Stamped(dates, snapshot, Queued, clock)
<1>1. /\ monitor' \in Monitor
      /\ monitor'.stage = "prepared"
      /\ caller' = "awaiting"
      /\ UNCHANGED <<watchdog, launched, started, clock>>
  BY DEF Prepare, MoveTo, IInv, TypeOK, Monitor, Stage
<1>2. Queued \in Snapshot /\ Ran(Queued) /\ Queued.status = "queued" /\ ~Ended(Queued)
  BY QueuedSnapshot DEF Queued
<1>3. snapshot = Absent /\ dates = NoDates
  BY Prepared
<1>5. IsStamp(e, dates, snapshot, Queued, clock)
  BY <1>2, StampedFields DEF IInv, TypeOK
<1>6. snapshot' = Queued /\ dates' = e /\ durable' = Queued /\ kept' = e
  BY Prepared
<1> HIDE DEF e
<1>8. /\ e \in Dates
      /\ e.created = clock
      /\ e.started = Unset
      /\ e.finished = Unset
      /\ \A t \in Tasks : Len(e.began[t]) = Len(Queued.attempts[t])
  BY <1>2, <1>3, <1>5, NoTimes DEF IsStamp, Started, Finished
<1>9. TypeOK'
  BY <1>1, <1>2, <1>6, <1>8 DEF IInv, TypeOK
<1>10. StageInv'
  BY <1>1, <1>2, <1>6 DEF StageInv, Active
<1>11. RanInv'
  BY <1>1, <1>2, <1>6 DEF RanInv, Ran, LiveRan
<1>12. RecordKeepsUp'
  BY <1>6 DEF RecordKeepsUp
<1>13. InTime(e, clock)
  <2>1. clock \in Int
    BY Moments DEF IInv, TypeOK
  <2>2. \A t \in Tasks : Len(e.began[t]) = 0
    BY <1>8 DEF Queued, Unattempted
  <2> QED
    BY <1>8, <2>1, <2>2 DEF InTime
<1>14. DatesInv'
  <2>1. Queued # Absent
    BY <1>2, AbsentFields
  <2> QED
    BY <1>1, <1>6, <1>8, <1>13, <2>1 DEF DatesInv
<1> QED
  BY <1>9, <1>10, <1>11, <1>12, <1>14 DEF IInv

(* The engine starts an execution the tracker may follow. *)
LEMMA EngineFollows ==
  ASSUME IInv, EngineStarts
  PROVE  \E s : /\ Track(s) /\ Succeeds(s)
                /\ s.attempts = snapshot.attempts
                /\ s.status \in {"running", "stopping"}
<1> DEFINE running == [snapshot EXCEPT !.status = "running"]
<1>1. PICK parentAborted \in BOOLEAN :
        Track(IF parentAborted THEN RequestCancellation(running) ELSE running)
  BY DEF EngineStarts
<1>3. snapshot \in Snapshot /\ snapshot.status = "queued" /\ Ran(snapshot)
  BY DEF EngineStarts, IInv, StageInv, RanInv, Ran
<1>4. /\ running \in Snapshot
      /\ running.status = "running"
      /\ running.cancelling = snapshot.cancelling
      /\ running.attempts = snapshot.attempts
  BY <1>3 DEF Snapshot, ExecutionStatus
<1> HIDE DEF running
<1>5. Ran(running) /\ ~Ended(running)
  BY <1>3, <1>4 DEF Ran, Ended, TerminalExecution
<1> DEFINE s == IF parentAborted THEN RequestCancellation(running) ELSE running
<1>6. RequestCancellation(running) =
        [running EXCEPT !.status = "stopping", !.cancelling = TRUE]
  BY <1>5 DEF RequestCancellation
<1>7. /\ Follows(running, RequestCancellation(running))
      /\ RequestCancellation(running).attempts = snapshot.attempts
      /\ RequestCancellation(running).status = "stopping"
  BY <1>4, <1>5, <1>6, CancelFollows DEF Snapshot
<1>8. /\ s \in Snapshot
      /\ Ran(s)
      /\ s.attempts = snapshot.attempts
      /\ s.status \in {"running", "stopping"}
      /\ snapshot.cancelling => s.cancelling
  BY <1>4, <1>5, <1>7 DEF Follows
<1>9. Track(s)
  BY <1>1
<1> HIDE DEF s
<1>10. AttemptsMove(snapshot, s)
  BY <1>3, <1>8, SameAttemptsMove
<1>11. Legal(snapshot, s) /\ ~Ended(snapshot)
  BY <1>3, <1>8, <1>10
  DEF Legal, AttemptsMove, ExecutionTransitions, ExecutionStatus, Ended,
      TerminalExecution
<1> QED
  BY <1>8, <1>9, <1>10, <1>11 DEF Succeeds

(* A start that fails or begins keeps the invariant. *)
LEMMA StartIInv ==
  ASSUME IInv,
         CheckpointFails \/ EngineStartThrows \/ EngineStarts \/ StartRejected
  PROVE  IInv'
<1>1. CASE CheckpointFails \/ StartRejected
  <2>1. /\ UNCHANGED <<snapshot, durable, watchdog, launched, started, clock, dates, kept>>
        /\ monitor' \in Monitor
        /\ monitor'.stage = "refused"
        /\ caller' = "threw"
        /\ monitor.stage \in {"idle", "prepared"}
    BY <1>1 DEF CheckpointFails, StartRejected, MoveTo, IInv, TypeOK, Monitor, Stage
  <2>2. TypeOK' /\ RanInv' /\ DatesInv' /\ RecordKeepsUp'
    BY <2>1, QuietStep DEF IInv, TypeOK, Restarted
  <2>3. StageInv'
    BY <2>1 DEF StageInv, Active
  <2> QED
    BY <2>2, <2>3 DEF IInv
<1>3. CASE EngineStartThrows
  <2>1. /\ monitor' \in Monitor
        /\ monitor'.stage = "refused"
        /\ monitor.stage = "prepared"
        /\ caller' = "threw"
        /\ UNCHANGED <<watchdog, launched, started, clock>>
        /\ Track(Finish(snapshot, "unknown"))
    BY <1>3 DEF EngineStartThrows, MoveTo, IInv, TypeOK, Monitor, Stage
  <2>2. snapshot \in Snapshot /\ Ran(snapshot)
    BY <2>1 DEF IInv, StageInv, RanInv, Ran
  <2>3. Succeeds(Finish(snapshot, "unknown"))
    BY <2>2, FinishFollows, FollowsSucceeds DEF TerminalExecution
  <2>4. TypeOK' /\ RanInv' /\ DatesInv' /\ RecordKeepsUp'
    BY <2>1, <2>2, <2>3, TrackedStep DEF IInv, TypeOK, Restarted
  <2>5. StageInv'
    BY <2>1 DEF StageInv, Active
  <2> QED
    BY <2>4, <2>5 DEF IInv
<1>4. CASE EngineStarts
  <2>1. PICK s : /\ Track(s) /\ Succeeds(s)
                 /\ s.status \in {"running", "stopping"}
    BY <1>4, EngineFollows
  <2>2. /\ monitor' \in Monitor
        /\ monitor'.stage = "racing"
        /\ monitor.stage = "prepared"
        /\ watchdog' \in {"off", "armed"}
        /\ UNCHANGED <<launched, started, caller, clock>>
    BY <1>4 DEF EngineStarts, MoveTo, IInv, TypeOK, Monitor, Stage
  <2>3. snapshot \in Snapshot
    BY <2>2 DEF IInv, StageInv
  <2>4. snapshot' = s /\ TypeOK' /\ RanInv' /\ DatesInv' /\ RecordKeepsUp'
    BY <2>1, <2>2, <2>3, TrackedStep DEF IInv, TypeOK, Restarted
  <2>5. s \in Snapshot /\ ~Ended(s)
    BY <2>1 DEF Succeeds, Ended, TerminalExecution
  <2>6. StageInv'
    BY <2>1, <2>2, <2>4, <2>5 DEF StageInv, Ended
  <2> QED
    BY <2>4, <2>6 DEF IInv
<1> QED
  BY <1>1, <1>3, <1>4

(* What a live stage says of the snapshot. *)
LEMMA ActiveSnapshot ==
  ASSUME IInv, Active \/ monitor.stage = "released"
  PROVE  /\ snapshot \in Snapshot
         /\ Ran(snapshot)
         /\ ~Restarted
BY DEF IInv, StageInv, RanInv, Ran, Active, Restarted

(* A cancellation keeps the invariant. *)
LEMMA CancelIInv ==
  ASSUME IInv, Cancel
  PROVE  IInv'
<1> DEFINE s == RequestCancellation(snapshot)
<1>1. /\ Active
      /\ ~Ended(snapshot)
      /\ Track(s)
      /\ UNCHANGED <<monitor, launched, started, caller, clock>>
      /\ watchdog' \in {"off", "armed", "expired"}
  BY DEF Cancel, IInv, TypeOK
<1>2. snapshot \in Snapshot /\ Ran(snapshot) /\ ~Restarted
  BY <1>1, ActiveSnapshot
<1>3. Follows(snapshot, s)
  BY <1>2, CancelFollows
<1>4. snapshot' = s /\ TypeOK' /\ RanInv' /\ DatesInv' /\ RecordKeepsUp'
  BY <1>1, <1>2, <1>3, FollowsSucceeds, TrackedStep DEF IInv, TypeOK, Restarted
<1>5. s \in Snapshot /\ s.status = "stopping"
  BY <1>1, <1>2, <1>3 DEF Follows, RequestCancellation, Snapshot
<1>6. StageInv'
  BY <1>1, <1>4, <1>5 DEF StageInv, IInv, Active, Ended, TerminalExecution
<1> QED
  BY <1>4, <1>6 DEF IInv

(* An Agent's event, timely or late, keeps the invariant. *)
LEMMA AgentIInv ==
  ASSUME IInv, NEW c \in Agents, AgentStart(c) \/ AgentEnd(c)
  PROVE  IInv'
<1>1. PICK status \in {"running", "completed", "failed", "cancelled"} :
        Track(MarkAttempt(snapshot, c, status))
  BY DEF AgentStart, AgentEnd
<1> DEFINE s == MarkAttempt(snapshot, c, status)
<1>2. /\ Active
      /\ c \in launched
      /\ started' \subseteq launched
      /\ UNCHANGED <<monitor, watchdog, launched, caller, clock>>
  BY DEF AgentStart, AgentEnd, IInv, TypeOK
<1>3. snapshot \in Snapshot /\ Ran(snapshot) /\ ~Restarted
  BY <1>2, ActiveSnapshot
<1>4. Follows(snapshot, s) /\ s.status = snapshot.status
  BY <1>2, <1>3, MarkFollows
<1>t. Track(s)
  BY <1>1
<1> HIDE DEF s
<1>5. snapshot' = s /\ TypeOK' /\ RanInv' /\ DatesInv' /\ RecordKeepsUp'
  BY <1>t, <1>2, <1>3, <1>4, FollowsSucceeds, TrackedStep DEF IInv, TypeOK, Restarted
<1>6. s \in Snapshot
  BY <1>4 DEF Follows
<1>7. StageInv'
  BY <1>2, <1>4, <1>5, <1>6 DEF StageInv, IInv, Active, Ended
<1> QED
  BY <1>5, <1>7 DEF IInv

(* Whatever result the monitor takes, the tracker may follow with it. *)
LEMMA ResultFollows ==
  ASSUME IInv,
         ResultCompleted \/ ResultMalformed \/ ResultCancelled \/ ResultError
  PROVE  \E s :
           /\ \E stop \in StopReason : TakeResult(stop, s)
           /\ Follows(snapshot, s)
           /\ s.status \in {snapshot.status, "stopping", "unknown"}
<1>1. monitor.stage = "racing"
  BY DEF ResultCompleted, ResultMalformed, ResultCancelled, ResultError, TakeResult
<1>2. snapshot \in Snapshot /\ Ran(snapshot) /\ ~Ended(snapshot)
  BY <1>1 DEF IInv, StageInv, RanInv, Ran
<1>r. {"completed", "malformed", "cancelled", "error"} \subseteq StopReason
  BY DEF StopReason
<1>3. CASE ResultCompleted
  <2>1. PICK summary \in Summaries :
          TakeResult("completed", ApplySummary(snapshot, summary))
    BY <1>3 DEF ResultCompleted
  <2> DEFINE s == ApplySummary(snapshot, summary)
  <2>2. Follows(snapshot, s) /\ s.status = snapshot.status
    BY <1>2, SummaryFollows
  <2>3. TakeResult("completed", s)
    BY <2>1
  <2> HIDE DEF s
  <2> QED
    BY <1>r, <2>2, <2>3
<1>4. CASE ResultMalformed
  <2> DEFINE r == MarkUnsettledAttempts(snapshot, "unknown")
             s == Finish(r, "unknown")
  <2>1. Follows(snapshot, r) /\ r.status = snapshot.status
    BY <1>2, SettleFollows
  <2>2. Follows(snapshot, s)
    BY <1>2, <2>1, FollowsThenFinish DEF TerminalExecution
  <2>3. r \in Snapshot /\ ~Ended(r)
    BY <1>2, <2>1 DEF Follows, Ended
  <2>4. s.status = "unknown"
    BY <2>3 DEF Finish, Snapshot
  <2>5. TakeResult("malformed", s)
    BY <1>4 DEF ResultMalformed
  <2> HIDE DEF s
  <2> QED
    BY <1>r, <2>2, <2>4, <2>5
<1>5. CASE ResultCancelled
  <2> DEFINE r == RequestCancellation(snapshot)
             s == MarkUnsettledAttempts(r, "cancelled")
  <2>1. Follows(snapshot, r) /\ r.attempts = snapshot.attempts
    BY <1>2, CancelFollows
  <2>2. r.status = "stopping"
    BY <1>2 DEF RequestCancellation, Snapshot
  <2>3. /\ Follows(r, s)
        /\ s.status = r.status
        /\ s.cancelling = r.cancelling
    BY <2>1, SettleFollows DEF Follows
  <2>4. AttemptsMove(snapshot, s)
    BY <2>1, <2>3 DEF Follows, AttemptsMove
  <2>5. Follows(snapshot, s)
    BY <1>2, <2>1, <2>2, <2>3, <2>4 DEF Follows
  <2>6. TakeResult("cancelled", s)
    BY <1>5 DEF ResultCancelled
  <2> HIDE DEF s
  <2> QED
    BY <1>r, <2>2, <2>3, <2>5, <2>6
<1>6. CASE ResultError
  <2> DEFINE s == MarkUnsettledAttempts(snapshot, "unknown")
  <2>1. Follows(snapshot, s) /\ s.status = snapshot.status
    BY <1>2, SettleFollows
  <2>2. TakeResult("error", s)
    BY <1>6 DEF ResultError
  <2> HIDE DEF s
  <2> QED
    BY <1>r, <2>1, <2>2
<1> QED
  BY <1>3, <1>4, <1>5, <1>6

(* Taking the result keeps the invariant. *)
LEMMA ResultIInv ==
  ASSUME IInv,
         ResultCompleted \/ ResultMalformed \/ ResultCancelled \/ ResultError
  PROVE  IInv'
<1>0. PICK s : /\ \E stop \in StopReason : TakeResult(stop, s)
               /\ Follows(snapshot, s)
               /\ s.status \in {snapshot.status, "stopping", "unknown"}
  BY ResultFollows
<1>1. PICK stop \in StopReason : TakeResult(stop, s)
  BY <1>0
<1>2. s \in Snapshot
  BY <1>0 DEF Follows
<1>3. /\ monitor.stage = "racing"
      /\ UNCHANGED <<watchdog, launched, started, caller, clock>>
  BY <1>1 DEF TakeResult
<1>4. snapshot \in Snapshot /\ ~Restarted /\ snapshot.status # "queued"
  BY <1>3 DEF IInv, StageInv, Restarted, Active
<1>5. CASE Rejected(s)
  BY <1>0, <1>3, <1>5, RejectedStep DEF IInv, TypeOK
<1>6. CASE /\ Track(s)
           /\ monitor' = [stage |-> "closing", stop |-> stop,
                          preceded |-> snapshot.cancelling, raced |-> ~s.cancelling]
  <2>1. snapshot.cancelling \in BOOLEAN
    BY <1>4, SnapshotFields
  <2>2. monitor' \in Monitor /\ monitor'.stage = "closing"
    BY <1>6, <2>1 DEF Monitor, Stage
  <2>3. snapshot' = s /\ TypeOK' /\ RanInv' /\ DatesInv' /\ RecordKeepsUp'
    BY <1>0, <1>3, <1>4, <1>6, <2>2, FollowsSucceeds, TrackedStep
    DEF IInv, TypeOK, Restarted
  <2>4. StageInv'
    BY <1>0, <1>2, <1>4, <2>2, <2>3 DEF StageInv
  <2> QED
    BY <2>3, <2>4 DEF IInv
<1> QED
  BY <1>1, <1>5, <1>6 DEF TakeResult

(* Closing the execution as unknown is a step the tracker may take. *)
LEMMA UnknownFollows ==
  ASSUME NEW s \in Snapshot, Ran(s)
  PROVE  LET r == Finish(MarkUnsettledAttempts(s, "unknown"), "unknown")
         IN  /\ Follows(s, r)
             /\ Ended(r)
             /\ ~Ended(s) => r.status = "unknown"
<1> DEFINE q == MarkUnsettledAttempts(s, "unknown")
           r == Finish(q, "unknown")
<1>1. Follows(s, q) /\ q.status = s.status
  BY SettleFollows
<1>2. Follows(s, r) /\ Ended(r)
  BY <1>1, FollowsThenFinish DEF TerminalExecution
<1>3. ASSUME ~Ended(s) PROVE r.status = "unknown"
  <2>1. ~Ended(q) /\ q \in Snapshot
    BY <1>1, <1>3 DEF Ended, Follows
  <2> QED
    BY <2>1 DEF Finish, Snapshot
<1> QED
  BY <1>2, <1>3

(* The watchdog keeps the invariant. *)
LEMMA WatchdogIInv ==
  ASSUME IInv, WatchdogExpires
  PROVE  IInv'
<1> DEFINE s == ClosedUnknown
<1>1. Active /\ watchdog' = "expired" /\ UNCHANGED <<launched, started, caller, clock>>
  BY DEF WatchdogExpires
<1>2. snapshot \in Snapshot /\ Ran(snapshot) /\ ~Restarted
  BY <1>1, ActiveSnapshot
<1>3. Follows(snapshot, s) /\ Ended(s) /\ s \in Snapshot
  BY <1>2, UnknownFollows DEF Follows, ClosedUnknown
<1> HIDE DEF s
<1>4. CASE Track(s) /\ MoveTo("draining")
  <2>1. monitor' \in Monitor /\ monitor'.stage = "draining"
    BY <1>4 DEF MoveTo, IInv, TypeOK, Monitor, Stage
  <2>3. snapshot' = s /\ TypeOK' /\ RanInv' /\ DatesInv' /\ RecordKeepsUp'
    BY <1>1, <1>2, <1>3, <1>4, <2>1, FollowsSucceeds, TrackedStep
    DEF IInv, TypeOK, Restarted
  <2>4. s.status # "queued"
    BY <1>3 DEF Ended, TerminalExecution
  <2>5. StageInv'
    BY <1>3, <2>1, <2>3, <2>4 DEF StageInv, Ended
  <2> QED
    BY <2>3, <2>5 DEF IInv
<1>5. CASE monitor.stage \in {"racing", "closing"} /\ Rejected(s)
  BY <1>1, <1>3, <1>5, RejectedStep DEF IInv, TypeOK
<1>6. CASE UNCHANGED <<snapshot, durable, monitor, dates, kept>>
  <2>1. TypeOK' /\ RanInv' /\ DatesInv' /\ RecordKeepsUp'
    BY <1>1, <1>6, QuietStep DEF IInv, TypeOK, Restarted
  <2>2. StageInv'
    BY <1>6 DEF IInv, StageInv, Active, Ended
  <2> QED
    BY <2>1, <2>2 DEF IInv
<1> QED
  BY <1>4, <1>5, <1>6 DEF WatchdogExpires, s

(* The end the monitor derives, clean or not. *)
LEMMA ConcludedFollows ==
  ASSUME IInv, monitor.stage = "closing", NEW clean \in BOOLEAN
  PROVE  LET s == Concluded(clean)
         IN  /\ Follows(snapshot, s)
             /\ Ended(s)
             /\ monitor.preceded /\ ~Ended(snapshot)
                  => s.status \in {"cancelled", "unknown"}
<1>2. snapshot \in Snapshot /\ Ran(snapshot)
  BY ActiveSnapshot DEF Active
<1>4. CASE clean /\ (monitor.preceded => monitor.stop = "cancelled")
  <2> DEFINE final == FinalStatus(snapshot, monitor.stop)
             s == Finish(snapshot, final)
  <2>1. final \in TerminalExecution
    BY DEF FinalStatus, DeriveCompletionStatus, TerminalExecution
  <2>2. monitor.preceded => final = "cancelled"
    BY <1>4 DEF FinalStatus
  <2>c. Concluded(clean) = s
    BY <1>4 DEF Concluded
  <2> HIDE DEF final
  <2>3. Follows(snapshot, s) /\ Ended(s)
    BY <1>2, <2>1, FinishFollows
  <2>4. ~Ended(snapshot) => s.status = final
    BY <1>2 DEF Finish, Snapshot
  <2> HIDE DEF s
  <2> QED
    BY <2>2, <2>3, <2>4, <2>c
<1>5. CASE ~(clean /\ (monitor.preceded => monitor.stop = "cancelled"))
  <2> DEFINE s == Finish(MarkUnsettledAttempts(snapshot, "unknown"), "unknown")
  <2>1. /\ Follows(snapshot, s)
        /\ Ended(s)
        /\ ~Ended(snapshot) => s.status = "unknown"
    BY <1>2, UnknownFollows
  <2>2. Concluded(clean) = s
    BY <1>5 DEF Concluded, ClosedUnknown
  <2> HIDE DEF s
  <2> QED
    BY <2>1, <2>2
<1> QED
  BY <1>4, <1>5

(* The end of the monitor keeps the invariant. *)
LEMMA ReleaseIInv ==
  ASSUME IInv, DisposalEnds \/ DrainEnds
  PROVE  IInv'
<1>1. CASE DisposalEnds
  <2>0. monitor.stage = "closing" /\ UNCHANGED <<launched, started, caller, clock>>
    BY <1>1 DEF DisposalEnds
  <2>1. PICK clean \in BOOLEAN :
          \/ Track(Concluded(clean)) /\ MoveTo("released") /\ watchdog' = "off"
          \/ Rejected(Concluded(clean)) /\ UNCHANGED watchdog
    BY <1>1 DEF DisposalEnds
  <2> DEFINE s == Concluded(clean)
  <2>2. Follows(snapshot, s) /\ Ended(s) /\ s \in Snapshot
    BY <2>0, ConcludedFollows DEF Follows
  <2>3. \/ Track(s) /\ MoveTo("released") /\ watchdog' = "off"
        \/ Rejected(s) /\ UNCHANGED watchdog
    BY <2>1
  <2> HIDE DEF s
  <2>4. CASE Rejected(s) /\ UNCHANGED watchdog
    BY <2>0, <2>2, <2>4, RejectedStep DEF IInv, TypeOK
  <2>5. CASE Track(s) /\ MoveTo("released") /\ watchdog' = "off"
    <3>1. monitor' \in Monitor /\ monitor'.stage = "released"
      BY <2>5 DEF MoveTo, IInv, TypeOK, Monitor, Stage
    <3>2. snapshot \in Snapshot /\ ~Restarted
      BY <2>0 DEF IInv, StageInv, Restarted
    <3>3. snapshot' = s /\ TypeOK' /\ RanInv' /\ DatesInv' /\ RecordKeepsUp'
      BY <2>0, <2>2, <2>5, <3>1, <3>2, FollowsSucceeds, TrackedStep
      DEF IInv, TypeOK, Restarted
    <3>4. StageInv'
      BY <2>2, <3>1, <3>3 DEF StageInv, Ended, Active
    <3> QED
      BY <3>3, <3>4 DEF IInv
  <2> QED
    BY <2>3, <2>4, <2>5
<1>2. CASE DrainEnds
  <2>1. /\ monitor.stage = "draining"
        /\ monitor' \in Monitor
        /\ monitor'.stage = "released"
        /\ watchdog' = "off"
        /\ UNCHANGED <<snapshot, durable, launched, started, caller, clock, dates, kept>>
    BY <1>2 DEF DrainEnds, MoveTo, IInv, TypeOK, Monitor, Stage
  <2>2. TypeOK' /\ RanInv' /\ DatesInv' /\ RecordKeepsUp'
    BY <2>1, QuietStep DEF IInv, TypeOK, Restarted
  <2>3. StageInv'
    BY <2>1 DEF IInv, StageInv, Ended, Active
  <2> QED
    BY <2>2, <2>3 DEF IInv
<1> QED
  BY <1>1, <1>2

(* The caller's last persist keeps the invariant: what it adds is the end  *)
(* of the tracker.                                                         *)
LEMMA CallerIInv ==
  ASSUME IInv, CallerResumes
  PROVE  IInv'
<1>1. /\ monitor.stage = "released"
      /\ UNCHANGED <<snapshot, monitor, watchdog, launched, started, clock, dates>>
      /\ caller' \in {"returned", "threw"}
      /\ \/ durable' = snapshot /\ kept' = dates
         \/ UNCHANGED <<durable, kept>>
  BY DEF CallerResumes
<1>2. snapshot \in Snapshot /\ Ended(snapshot)
  BY <1>1 DEF IInv, StageInv
<1>3. StageInv'
  BY <1>1 DEF IInv, StageInv, Active, Ended
<1>4. CASE durable' = snapshot /\ kept' = dates
  <2>1. TypeOK'
    BY <1>1, <1>2, <1>4 DEF IInv, TypeOK
  <2>2. RanInv'
    BY <1>1 DEF IInv, RanInv, LiveRan
  <2>3. DatesInv'
    BY <1>1 DEF IInv, DatesInv, InTime, Steady
  <2>4. RecordKeepsUp'
    BY <1>1, <1>4 DEF RecordKeepsUp
  <2> QED
    BY <1>3, <2>1, <2>2, <2>3, <2>4 DEF IInv
<1>5. CASE UNCHANGED <<durable, kept>>
  <2>1. TypeOK' /\ RanInv' /\ DatesInv' /\ RecordKeepsUp'
    BY <1>1, <1>5, QuietStep DEF IInv, TypeOK, Restarted
  <2> QED
    BY <1>3, <2>1 DEF IInv
<1> QED
  BY <1>1, <1>4, <1>5

(* So does the way out of a rejected call. *)
LEMMA RejectedCallerIInv ==
  ASSUME IInv, CallerRejected
  PROVE  IInv'
<1> DEFINE s == RequestCancellation(snapshot)
<1>1. /\ monitor.stage = "rejected"
      /\ UNCHANGED <<monitor, launched, started, clock>>
      /\ caller' = "threw"
      /\ watchdog' \in {"off", "armed", "expired"}
      /\ \/ UNCHANGED <<snapshot, durable, dates, kept>>
         \/ ~Ended(snapshot) /\ Track(s)
  BY DEF CallerRejected, IInv, TypeOK
<1>2. snapshot \in Snapshot /\ Ran(snapshot) /\ ~Restarted
  BY <1>1, ActiveSnapshot DEF Active
<1>3. CASE UNCHANGED <<snapshot, durable, dates, kept>>
  <2>1. TypeOK' /\ RanInv' /\ DatesInv' /\ RecordKeepsUp'
    BY <1>1, <1>3, QuietStep DEF IInv, TypeOK, Restarted
  <2>2. StageInv'
    BY <1>1, <1>3 DEF IInv, StageInv, Active, Ended
  <2> QED
    BY <2>1, <2>2 DEF IInv
<1>4. CASE ~Ended(snapshot) /\ Track(s)
  <2>1. Follows(snapshot, s)
    BY <1>2, CancelFollows
  <2>2. s \in Snapshot /\ s.status = "stopping"
    BY <1>2, <1>4, <2>1 DEF Follows, RequestCancellation, Snapshot
  <2>3. Track(s)
    BY <1>4
  <2> HIDE DEF s
  <2>4. snapshot' = s /\ TypeOK' /\ RanInv' /\ DatesInv' /\ RecordKeepsUp'
    BY <1>1, <1>2, <2>1, <2>3, FollowsSucceeds, TrackedStep DEF IInv, TypeOK, Restarted
  <2>5. StageInv'
    BY <1>1, <2>2, <2>4 DEF StageInv, Active
  <2> QED
    BY <2>4, <2>5 DEF IInv
<1> QED
  BY <1>1, <1>3, <1>4

(* The interrupted record is a snapshot, and its execution has ended. *)
LEMMA InterruptedSnapshot ==
  ASSUME NEW d \in Snapshot \cup {Absent}
  PROVE  /\ Interrupted(d) \in Snapshot \cup {Absent}
         /\ Interrupted(d).status \in {d.status, "unknown"}
<1>1. CASE d = Absent \/ Ended(d)
  BY <1>1 DEF Interrupted
<1>2. CASE ~(d = Absent \/ Ended(d))
  <2> DEFINE L(t) == InterruptedList(d.attempts[t])
  <2>1. d \in Snapshot
    BY <1>2
  <2>2. ASSUME NEW t \in Tasks PROVE L(t) \in Lists
    <3> DEFINE list == d.attempts[t]
    <3>1. list \in Lists
      BY <2>1, SnapshotFields
    <3> HIDE DEF list
    <3>2. Len(list) \in Nat
      BY <3>1, LenProperties DEF Lists
    <3>3. \A n \in 1..Len(list) :
            (IF Live(list[n]) THEN [list[n] EXCEPT !.status = "unknown"]
             ELSE list[n]) \in Attempt
      <4> TAKE n \in 1..Len(list)
      <4>1. list[n] \in Attempt
        BY <3>1, ElementOfSeq DEF Lists
      <4> QED
        BY <4>1 DEF Attempt, AttemptStatus, TerminalAttempt
    <3>4. InterruptedList(list) \in [1..Len(list) -> Attempt]
      BY <3>3 DEF InterruptedList
    <3>5. InterruptedList(list) \in Seq(Attempt)
      BY <3>2, <3>4, IsASeq
    <3> QED
      BY <3>5 DEF Lists, list
  <2> HIDE DEF L
  <2>3. Interrupted(d) =
          [d EXCEPT !.status = "unknown", !.attempts = [t \in Tasks |-> L(t)]]
    BY <1>2 DEF Interrupted, L
  <2> DEFINE closed == [t \in Tasks |-> L(t)]
  <2>4. closed \in [Tasks -> Lists]
    BY <2>2
  <2> HIDE DEF closed
  <2>5. Interrupted(d) = [d EXCEPT !.status = "unknown", !.attempts = closed]
    BY <2>3 DEF closed
  <2>6. Interrupted(d) \in Snapshot
    BY <2>1, <2>4, <2>5 DEF Snapshot, Lists, ExecutionStatus, TerminalExecution
  <2>7. Interrupted(d).status = "unknown"
    BY <2>1, <2>5 DEF Snapshot
  <2> QED
    BY <2>6, <2>7
<1> QED
  BY <1>1, <1>2

(* A restart of the host keeps the invariant. *)
LEMMA RestartIInv ==
  ASSUME IInv, HostRestarts
  PROVE  IInv'
<1>1. /\ \/ UNCHANGED <<durable, kept>>
         \/ /\ durable # Absent
            /\ durable' = Interrupted(durable)
            /\ kept' = Stamped(kept, durable, Interrupted(durable), clock)
      /\ snapshot' = Absent
      /\ dates' = NoDates
      /\ monitor' \in Monitor
      /\ monitor'.stage \in {"lost", "down"}
      /\ watchdog' = "off"
      /\ caller' = "lost"
      /\ UNCHANGED <<launched, started, clock>>
  BY DEF HostRestarts, MoveTo, IInv, TypeOK, Monitor, Stage
<1>2. durable' \in Snapshot \cup {Absent} /\ kept' \in Dates
  <2>1. CASE UNCHANGED <<durable, kept>>
    BY <2>1 DEF IInv, TypeOK
  <2>2. CASE /\ durable # Absent
             /\ durable' = Interrupted(durable)
             /\ kept' = Stamped(kept, durable, Interrupted(durable), clock)
    <3>1. Interrupted(durable) \in Snapshot
      <4>1. durable \in Snapshot
        BY <2>2 DEF IInv, TypeOK
      <4>2. /\ Interrupted(durable) \in Snapshot \cup {Absent}
            /\ Interrupted(durable).status \in {durable.status, "unknown"}
        BY <4>1, InterruptedSnapshot
      <4>3. Interrupted(durable).status # "absent"
        BY <4>1, <4>2, SnapshotFields DEF ExecutionStatus, TerminalExecution
      <4> QED
        BY <4>2, <4>3 DEF Absent
    <3>2. IsStamp(kept', kept, durable, Interrupted(durable), clock)
      BY <2>2, <3>1, StampedFields DEF IInv, TypeOK
    <3> QED
      BY <2>2, <3>1, <3>2 DEF IsStamp
  <2> QED
    BY <1>1, <2>1, <2>2
<1>3. TypeOK'
  BY <1>1, <1>2, NoTimes DEF IInv, TypeOK
<1>4. StageInv' /\ RecordKeepsUp'
  BY <1>1 DEF StageInv, RecordKeepsUp, Restarted, Active
<1>5. RanInv'
  BY <1>1, AbsentFields DEF RanInv, LiveRan
<1>6. DatesInv'
  BY <1>1, AbsentDates, AbsentFields DEF DatesInv, IInv, TypeOK
<1> QED
  BY <1>3, <1>4, <1>5, <1>6 DEF IInv

(* A clock that may not step back leaves every time before now. *)
LEMMA ClockIInv ==
  ASSUME IInv, ClockMoves
  PROVE  IInv'
<1>1. /\ clock' \in Times
      /\ Steady => clock <= clock'
      /\ UNCHANGED <<snapshot, durable, monitor, watchdog, launched, started, caller,
                     dates, kept>>
  BY DEF ClockMoves, Steady
<1>2. TypeOK' /\ StageInv' /\ RanInv' /\ RecordKeepsUp'
  BY <1>1 DEF IInv, TypeOK, StageInv, RanInv, LiveRan, RecordKeepsUp, Ended, Active, Restarted
<1>3. ASSUME Steady PROVE InTime(dates, clock')
  <2>1. /\ dates.created \in Int /\ dates.started \in Int /\ dates.finished \in Int
        /\ clock \in Int /\ clock' \in Int
        /\ \A t \in Tasks : \A n \in 1..Len(dates.began[t]) : dates.began[t][n] \in Int
    BY <1>1, DatesFields, Moments DEF IInv, TypeOK
  <2>2. InTime(dates, clock) /\ clock <= clock'
    BY <1>1, <1>3 DEF IInv, DatesInv
  <2>3. ASSUME NEW t \in Tasks, NEW n \in 1..Len(dates.began[t]), dates.began[t][n] # Unset
        PROVE  dates.created <= dates.began[t][n] /\ dates.began[t][n] <= clock'
    <3>1. dates.created <= dates.began[t][n] /\ dates.began[t][n] <= clock
      BY <2>2, <2>3 DEF InTime
    <3> QED
      BY <2>1, <2>2, <3>1
  <2> QED
    BY <2>1, <2>2, <2>3 DEF InTime
<1>4. DatesInv'
  BY <1>1, <1>3 DEF IInv, DatesInv, Steady
<1> QED
  BY <1>2, <1>4 DEF IInv

(* Every step keeps the invariant. *)
LEMMA StepIInv == IInv /\ [Next]_vars => IInv'
<1> SUFFICES ASSUME IInv, [Next]_vars PROVE IInv'
  OBVIOUS
<1>1. CASE CheckpointFails \/ EngineStartThrows \/ EngineStarts \/ StartRejected
  BY <1>1, StartIInv
<1>p. CASE Prepare
  BY <1>p, PrepareIInv
<1>2. CASE CancelRequested \/ PlanTimesOut
  BY <1>2, CancelIInv DEF CancelRequested, PlanTimesOut
<1>3. CASE \E c \in Agents : AgentStart(c) \/ AgentEnd(c)
  BY <1>3, AgentIInv
<1>4. CASE ResultCompleted \/ ResultMalformed \/ ResultCancelled \/ ResultError
  BY <1>4, ResultIInv
<1>5. CASE WatchdogExpires
  BY <1>5, WatchdogIInv
<1>6. CASE DisposalEnds \/ DrainEnds
  BY <1>6, ReleaseIInv
<1>7. CASE CallerResumes \/ CallerRejected
  BY <1>7, CallerIInv, RejectedCallerIInv
<1>8. CASE HostRestarts
  BY <1>8, RestartIInv
<1>9. CASE ClockMoves
  BY <1>9, ClockIInv
<1>10. CASE UNCHANGED vars
  <2>1. TypeOK' /\ RanInv' /\ DatesInv' /\ RecordKeepsUp'
    BY <1>10, QuietStep DEF vars, IInv, TypeOK, Restarted
  <2>2. StageInv'
    BY <1>10 DEF vars, IInv, StageInv, Active, Ended
  <2> QED
    BY <2>1, <2>2 DEF IInv
<1> QED
  BY <1>1, <1>p, <1>2, <1>3, <1>4, <1>5, <1>6, <1>7, <1>8, <1>9, <1>10 DEF Next

-----------------------------------------------------------------------------
(* The inductive invariant holds of every execution. *)
THEOREM WorkflowInvariant == Spec => []IInv
  BY InitIInv, StepIInv, PTL DEF Spec

(* Type correctness of the execution, the monitor and the record. *)
THEOREM WorkflowTyping == Spec => []TypeOK
<1>1. IInv => TypeOK
  BY DEF IInv
<1> QED
  BY <1>1, WorkflowInvariant, PTL

(* RecordKeepsUp: whatever the engine publishes and whenever, and wherever *)
(* the clock steps, an end the ledger holds is the tracker's; and unless a *)
(* time of the execution lies before its creation, the ledger refuses no   *)
(* change of a live execution and agrees on how it ended.                  *)
THEOREM LedgerKeepsUp == Spec => []RecordKeepsUp
<1>1. IInv => RecordKeepsUp
  BY DEF IInv
<1> QED
  BY <1>1, WorkflowInvariant, PTL

-----------------------------------------------------------------------------
Won == {"cancelled", "unknown"}

(* A cancellation came before the result, and no end denies it. *)
CancelWon ==
  \/ monitor.stage = "racing" /\ snapshot.cancelling
  \/ /\ monitor.stage = "closing"
     /\ monitor.preceded
     /\ ~Ended(snapshot) \/ snapshot.status \in Won
  \/ /\ monitor.stage = "rejected"
     /\ ~Ended(snapshot) \/ snapshot.status \in Won
  \/ monitor.stage \in {"draining", "released"} /\ snapshot.status \in Won
  \/ Restarted /\ durable.status \notin TerminalExecution \ Won

(* A rejected handler leaves the tracker where the cancellation won. *)
LEMMA RejectedWon ==
  ASSUME IInv, CancelWon, monitor.stage \in {"racing", "closing"},
         NEW s, Follows(snapshot, s), Rejected(s), UNCHANGED <<launched, clock>>,
         watchdog' \in {"off", "armed", "expired"},
         started' \subseteq launched,
         caller' \in {"idle", "awaiting", "returned", "threw", "lost"}
  PROVE  CancelWon'
<1>1. /\ monitor'.stage = "rejected"
      /\ snapshot'.status = IF Ended(s) THEN snapshot.status ELSE s.status
  BY RejectedStep DEF IInv, TypeOK, Monitor
<1>2. ~Ended(snapshot) \/ snapshot.status \in Won
  BY DEF CancelWon, IInv, StageInv, Restarted
<1>3. Ended(snapshot) => s.status = snapshot.status
  BY DEF Follows
<1> QED
  BY <1>1, <1>2, <1>3 DEF CancelWon, Ended

(* Once a cancellation came first, it stays so. *)
LEMMA CancelWonStep == IInv /\ CancelWon /\ [Next]_vars => CancelWon'
<1> SUFFICES ASSUME IInv, CancelWon, [Next]_vars PROVE CancelWon'
  OBVIOUS
<1>0. /\ monitor \in Monitor
      /\ Active \/ monitor.stage = "released" => snapshot \in Snapshot /\ Ran(snapshot)
  BY ActiveSnapshot DEF IInv, TypeOK
<1>1. CASE CheckpointFails \/ Prepare \/ EngineStartThrows \/ EngineStarts \/ StartRejected
  BY <1>1 DEF CheckpointFails, Prepare, EngineStartThrows, EngineStarts, StartRejected,
              CancelWon, Restarted
<1>2. CASE CancelRequested \/ PlanTimesOut
  <2>1. /\ Active /\ ~Ended(snapshot)
        /\ snapshot' = RequestCancellation(snapshot)
        /\ UNCHANGED monitor
    BY <1>2 DEF CancelRequested, PlanTimesOut, Cancel, Track, Hold
  <2>2. snapshot' = [snapshot EXCEPT !.status = "stopping", !.cancelling = TRUE]
    BY <2>1 DEF RequestCancellation
  <2>3. snapshot'.cancelling /\ ~Ended(snapshot)'
    BY <1>0, <2>1, <2>2 DEF Snapshot, Ended, TerminalExecution
  <2> QED
    BY <2>1, <2>3 DEF CancelWon, Active, Ended, Won, TerminalExecution, Restarted
<1>3. CASE \E c \in Agents : AgentStart(c) \/ AgentEnd(c)
  <2>1. PICK c \in Agents, status \in {"running", "completed", "failed", "cancelled"} :
          /\ Active /\ c \in launched
          /\ snapshot' = MarkAttempt(snapshot, c, status)
          /\ UNCHANGED monitor
    BY <1>3 DEF AgentStart, AgentEnd, Track, Hold, IInv, TypeOK
  <2>2. snapshot'.status = snapshot.status /\ (snapshot.cancelling => snapshot'.cancelling)
    BY <1>0, <2>1, MarkFollows DEF Follows
  <2> QED
    BY <2>1, <2>2 DEF CancelWon, Active, Ended, Restarted
<1>4. CASE ResultCompleted \/ ResultMalformed \/ ResultCancelled \/ ResultError
  <2>1. PICK s : /\ \E stop \in StopReason : TakeResult(stop, s)
                 /\ Follows(snapshot, s)
                 /\ s.status \in {snapshot.status, "stopping", "unknown"}
    BY <1>4, ResultFollows
  <2>2. /\ monitor.stage = "racing"
        /\ UNCHANGED <<watchdog, launched, started, caller, clock>>
        /\ \/ Rejected(s)
           \/ /\ snapshot' = s
              /\ monitor'.stage = "closing"
              /\ monitor'.preceded = snapshot.cancelling
    BY <2>1 DEF TakeResult, Track, Hold
  <2>3. snapshot.cancelling /\ ~Ended(snapshot)
    BY <2>2 DEF CancelWon, IInv, StageInv, Restarted
  <2>4. CASE Rejected(s)
    BY <2>1, <2>2, <2>4, RejectedWon DEF IInv, TypeOK
  <2>5. CASE /\ snapshot' = s
             /\ monitor'.stage = "closing"
             /\ monitor'.preceded = snapshot.cancelling
    BY <2>1, <2>3, <2>5 DEF CancelWon, Ended, Won, TerminalExecution
  <2> QED
    BY <2>2, <2>4, <2>5
<1>5. CASE WatchdogExpires
  <2> DEFINE s == ClosedUnknown
  <2>0. Active /\ UNCHANGED <<launched, started, caller, clock>> /\ watchdog' = "expired"
    BY <1>5 DEF WatchdogExpires
  <2>1. Follows(snapshot, s) /\ (~Ended(snapshot) => s.status = "unknown")
    BY <1>0, <2>0, UnknownFollows DEF ClosedUnknown
  <2>w. \/ Track(s) /\ MoveTo("draining")
        \/ monitor.stage \in {"racing", "closing"} /\ Rejected(s)
        \/ UNCHANGED <<snapshot, durable, monitor, dates, kept>>
    BY <1>5 DEF WatchdogExpires
  <2> HIDE DEF s
  <2>2. CASE Track(s) /\ MoveTo("draining")
    <3>1. snapshot' = s /\ monitor'.stage = "draining"
      BY <1>0, <2>2 DEF Track, Hold, MoveTo, Monitor
    <3>2. s.status \in Won
      BY <2>0, <2>1 DEF Active, CancelWon, Follows, Won, IInv, StageInv, Restarted
    <3> QED
      BY <3>1, <3>2 DEF CancelWon
  <2>3. CASE monitor.stage \in {"racing", "closing"} /\ Rejected(s)
    BY <2>0, <2>1, <2>3, RejectedWon DEF IInv, TypeOK
  <2>4. CASE UNCHANGED <<snapshot, durable, monitor, dates, kept>>
    BY <2>4 DEF CancelWon, Ended, Restarted
  <2> QED
    BY <2>w, <2>2, <2>3, <2>4
<1>6. CASE DisposalEnds
  <2>0. monitor.stage = "closing" /\ UNCHANGED <<launched, started, caller, clock>>
    BY <1>6 DEF DisposalEnds
  <2>1. PICK clean \in BOOLEAN :
          \/ Track(Concluded(clean)) /\ MoveTo("released") /\ watchdog' = "off"
          \/ Rejected(Concluded(clean)) /\ UNCHANGED watchdog
    BY <1>6 DEF DisposalEnds
  <2> DEFINE s == Concluded(clean)
  <2>2. Follows(snapshot, s) /\ (monitor.preceded /\ ~Ended(snapshot) => s.status \in Won)
    BY <2>0, ConcludedFollows DEF Won
  <2>3. \/ Track(s) /\ MoveTo("released")
        \/ Rejected(s) /\ UNCHANGED watchdog
    BY <2>1
  <2> HIDE DEF s
  <2>4. CASE Track(s) /\ MoveTo("released")
    <3>1. snapshot' = s /\ monitor'.stage = "released"
      BY <1>0, <2>4 DEF MoveTo, Track, Hold, Monitor
    <3> QED
      BY <2>0, <2>2, <3>1 DEF CancelWon, Follows, Restarted
  <2>5. CASE Rejected(s) /\ UNCHANGED watchdog
    BY <2>0, <2>2, <2>5, RejectedWon DEF IInv, TypeOK
  <2> QED
    BY <2>3, <2>4, <2>5
<1>7. CASE DrainEnds
  <2>1. monitor'.stage = "released" /\ UNCHANGED snapshot /\ monitor.stage = "draining"
    BY <1>0, <1>7 DEF DrainEnds, MoveTo, Monitor
  <2> QED
    BY <2>1 DEF CancelWon, Restarted
<1>8. CASE CallerResumes
  <2>1. UNCHANGED <<snapshot, monitor>> /\ monitor.stage = "released"
    BY <1>8 DEF CallerResumes
  <2> QED
    BY <2>1 DEF CancelWon, Restarted
<1>r. CASE CallerRejected
  <2>1. /\ UNCHANGED monitor /\ monitor.stage = "rejected"
        /\ \/ UNCHANGED snapshot
           \/ ~Ended(snapshot) /\ snapshot' = RequestCancellation(snapshot)
    BY <1>r DEF CallerRejected, Track, Hold
  <2>2. CASE UNCHANGED snapshot
    BY <2>1, <2>2 DEF CancelWon, Restarted, Ended
  <2>3. CASE ~Ended(snapshot) /\ snapshot' = RequestCancellation(snapshot)
    <3>1. snapshot' = [snapshot EXCEPT !.status = "stopping", !.cancelling = TRUE]
      BY <2>3 DEF RequestCancellation
    <3>2. ~Ended(snapshot)'
      BY <1>0, <2>1, <3>1 DEF Active, Snapshot, Ended, TerminalExecution
    <3> QED
      BY <2>1, <3>2 DEF CancelWon, Ended
  <2> QED
    BY <2>1, <2>2, <2>3
<1>9. CASE HostRestarts
  <2>1. /\ monitor.stage # "lost"
        /\ Restarted'
        /\ \/ durable' = durable
           \/ durable' = Interrupted(durable)
    BY <1>0, <1>9 DEF HostRestarts, MoveTo, Monitor, Restarted
  <2>2. durable'.status \in {durable.status, "unknown"}
    BY <2>1, InterruptedSnapshot DEF IInv, TypeOK
  <2>3. durable.status \notin TerminalExecution \ Won
    <3>1. CASE Restarted
      BY <3>1 DEF CancelWon, Restarted
    <3>2. CASE ~Restarted
      <4>1. Ended(durable) => durable.status = snapshot.status
        BY <3>2 DEF IInv, RecordKeepsUp
      <4>2. snapshot.status \notin TerminalExecution \ Won
        BY <3>2 DEF CancelWon, IInv, StageInv, Ended
      <4> QED
        BY <4>1, <4>2 DEF Ended
    <3> QED
      BY <3>1, <3>2
  <2> QED
    BY <2>1, <2>2, <2>3 DEF CancelWon, Won
<1>10. CASE ClockMoves \/ UNCHANGED vars
  BY <1>10 DEF ClockMoves, vars, CancelWon, Ended, Restarted
<1> QED
  BY <1>1, <1>2, <1>3, <1>4, <1>5, <1>6, <1>7, <1>8, <1>r, <1>9, <1>10 DEF Next

(* CancelledNeverSucceeds: a cancellation accepted before the result never *)
(* ends as succeeded, partial or failed, on any interleaving of the        *)
(* result, the watchdog, late events, the disposal and a restart.          *)
THEOREM CancellationWins == Spec => CancelledNeverSucceeds
<1>1. monitor.stage = "racing" /\ snapshot.cancelling => CancelWon
  BY DEF CancelWon
<1>2. IInv /\ CancelWon => durable.status \notin {"succeeded", "partial", "failed"}
  <2> SUFFICES ASSUME IInv, CancelWon
               PROVE  durable.status \notin TerminalExecution \ Won
    BY DEF TerminalExecution, Won
  <2>1. CASE Restarted
    BY <2>1 DEF CancelWon, Restarted
  <2>2. CASE ~Restarted
    BY <2>2 DEF CancelWon, IInv, StageInv, RecordKeepsUp, Ended
  <2> QED
    BY <2>1, <2>2
<1> QED
  BY <1>1, <1>2, WorkflowInvariant, CancelWonStep, PTL
  DEF Spec, CancelledNeverSucceeds

-----------------------------------------------------------------------------
(* The attempts of an orderly engine.                                      *)

OneEach == \A c, d \in launched : TaskOf[c] = TaskOf[d] => c = d

(* At most one attempt, of no Agent or of one launched for the task. *)
ShortList(list, t) ==
  /\ Len(list) <= 1
  /\ \A n \in 1..Len(list) :
       list[n].agent # NoAgent => list[n].agent \in launched /\ TaskOf[list[n].agent] = t

SettledList(list) == \A n \in 1..Len(list) : ~Live(list[n])
DoneList(list) == \E n \in DOMAIN list : list[n].status = "completed"

Short(s) == \A t \in Tasks : ShortList(s.attempts[t], t)
Settled(s) == \A t \in Tasks : SettledList(s.attempts[t])
Done(s) == \A t \in Tasks : DoneList(s.attempts[t])

(* What little arithmetic a list of at most one attempt needs. *)
LEMMA AtMostOne ==
  ASSUME NEW m \in Nat, m <= 1
  PROVE  m \in {0, 1} /\ (m # 0 => m = 1) /\ \A n \in 1..m : n = 1 /\ m = 1
OBVIOUS

LEMMA ShortSettle ==
  ASSUME NEW list \in Lists, NEW t, ShortList(list, t), NEW status \in TerminalAttempt
  PROVE  LET r == SettleLast(list, status)
         IN  ShortList(r, t) /\ SettledList(r) /\ (SettledList(list) => r = list)
<1> DEFINE r == SettleLast(list, status)
           k == Len(list)
<1>0. k \in Nat /\ k <= 1
  BY LenProperties DEF Lists, ShortList
<1>1. CASE ~(list # <<>> /\ Live(list[k]))
  <2>1. r = list
    BY <1>1 DEF SettleLast
  <2>2. SettledList(list)
    <3>1. list = <<>> => k = 0
      OBVIOUS
    <3>2. \A n \in 1..k : n = k /\ k # 0
      BY <1>0
    <3> QED
      BY <1>1, <3>1, <3>2 DEF SettledList
  <2> QED
    BY <2>1, <2>2
<1>2. CASE list # <<>> /\ Live(list[k])
  <2>1. k = 1
    <3>1. k # 0
      BY <1>2, EmptySeq DEF Lists
    <3> HIDE DEF k
    <3> QED
      BY <1>0, <3>1, AtMostOne
  <2>2. list[1] \in Attempt
    BY <2>1, ElementOfSeq DEF Lists
  <2>3. r = [list EXCEPT ![1] = [list[1] EXCEPT !.status = status]]
    BY <1>2, <2>1 DEF SettleLast
  <2>4. /\ [list[1] EXCEPT !.status = status] \in Attempt
        /\ [list[1] EXCEPT !.status = status].status = status
        /\ [list[1] EXCEPT !.status = status].agent = list[1].agent
    BY <2>2 DEF Attempt, AttemptStatus
  <2>5. Len(r) = 1 /\ r[1] = [list[1] EXCEPT !.status = status]
    BY <2>1, <2>3, <2>4, ExceptSeq DEF Lists
  <2>6. \A n \in 1..1 : n = 1
    OBVIOUS
  <2> HIDE DEF r
  <2>7. ShortList(r, t)
    BY <2>1, <2>4, <2>5, <2>6 DEF ShortList
  <2>8. SettledList(r)
    BY <2>4, <2>5, <2>6 DEF SettledList, Live
  <2>9. ~SettledList(list)
    BY <1>2, <2>1 DEF SettledList
  <2> QED
    BY <2>7, <2>8, <2>9 DEF r
<1> QED
  BY <1>1, <1>2

LEMMA ShortReport ==
  ASSUME NEW list \in Lists, NEW t, ShortList(list, t),
         NEW status \in {"completed", "failed", "skipped"}
  PROVE  LET r == Report(list, status)
         IN  ShortList(r, t) /\ SettledList(r)
<1>1. CASE list = <<>> /\ status # "skipped"
  <2> DEFINE r == <<[agent |-> NoAgent, status |-> status]>>
  <2>1. Len(r) = 1 /\ r[1].agent = NoAgent /\ r[1].status = status
    OBVIOUS
  <2>2. \A n \in 1..1 : n = 1
    OBVIOUS
  <2>3. Report(list, status) = r
    BY <1>1 DEF Report
  <2> HIDE DEF r
  <2>4. ShortList(r, t) /\ SettledList(r)
    BY <1>1, <2>1, <2>2 DEF ShortList, SettledList, Live, TerminalAttempt
  <2> QED
    BY <2>3, <2>4
<1>2. CASE ~(list = <<>> /\ status # "skipped")
  BY <1>2, ShortSettle DEF Report, TerminalAttempt
<1> QED
  BY <1>1, <1>2

LEMMA ShortMark ==
  ASSUME NEW list \in Lists, NEW c \in Agents, c \in launched, OneEach,
         ShortList(list, TaskOf[c]),
         NEW status \in {"running", "completed", "failed", "cancelled"}
  PROVE  LET r == MarkList(list, c, status)
         IN  /\ ShortList(r, TaskOf[c])
             /\ SettledList(list) /\ BindingsFor(list, c) # {} => r = list
<1> DEFINE r == MarkList(list, c, status)
           mine == [agent |-> c, status |-> status]
           found == BindingsFor(list, c)
           last == CHOOSE n \in found : \A m \in found : m <= n
           k == Len(list)
<1>0. k \in Nat /\ k <= 1
  BY LenProperties DEF Lists, ShortList
<1>m. mine \in Attempt /\ mine.agent = c
  BY DEF Attempt, AttemptStatus, TerminalAttempt
<1>1. CASE found = {}
  <2>1. k = 0
    <3>1. ASSUME k = 1
          PROVE  FALSE
      <4>1. list[1].agent \in {c, NoAgent}
        BY <3>1 DEF ShortList, OneEach
      <4> QED
        BY <1>1, <3>1, <4>1 DEF BindingsFor
    <3> HIDE DEF k
    <3> QED
      BY <1>0, <3>1, AtMostOne
  <2>2. r = Append(list, mine)
    BY <1>1 DEF MarkList
  <2>3. Len(r) = 1 /\ r[1] = mine
    BY <1>m, <2>1, <2>2, AppendProperties DEF Lists
  <2>4. \A n \in 1..1 : n = 1
    OBVIOUS
  <2> HIDE DEF r, mine, found, last, k
  <2>5. ShortList(r, TaskOf[c])
    BY <1>m, <2>3, <2>4 DEF ShortList
  <2> QED
    BY <1>1, <2>5 DEF r, found
<1>2. CASE found # {}
  <2>1. last \in found
    <3>1. found \in SUBSET (1..k)
      BY DEF BindingsFor
    <3>2. \E n \in found : \A m \in found : m <= n
      BY <1>0, <1>2, <3>1, LastPosition
    <3> QED
      BY <3>2
  <2>2. last \in 1..k /\ k = 1 /\ last = 1
    <3>1. last \in 1..k
      BY <2>1 DEF BindingsFor
    <3> HIDE DEF last, k
    <3> QED
      BY <1>0, <3>1, AtMostOne
  <2>3. r = IF Live(list[last]) THEN [list EXCEPT ![last] = mine] ELSE list
    BY <1>2 DEF MarkList
  <2>4. CASE ~Live(list[last])
    BY <2>3, <2>4
  <2>5. CASE Live(list[last])
    <3>1. r = [list EXCEPT ![1] = mine]
      BY <2>2, <2>3, <2>5
    <3>2. Len(r) = 1 /\ r[1] = mine
      BY <1>m, <2>2, <3>1, ExceptSeq DEF Lists
    <3>3. \A n \in 1..1 : n = 1
      OBVIOUS
    <3>4. ~SettledList(list)
      BY <2>2, <2>5 DEF SettledList
    <3> HIDE DEF r, mine, found, last, k
    <3>5. ShortList(r, TaskOf[c])
      BY <1>m, <3>2, <3>3 DEF ShortList
    <3> QED
      BY <3>4, <3>5 DEF r
  <2> QED
    BY <2>4, <2>5
<1> QED
  BY <1>1, <1>2

(* The same of a snapshot. *)
LEMMA SettleObeys ==
  ASSUME NEW s \in Snapshot, Short(s), NEW status \in {"cancelled", "unknown"}
  PROVE  LET r == MarkUnsettledAttempts(s, status)
         IN  Short(r) /\ Settled(r) /\ (Settled(s) => r = s)
<1> DEFINE r == MarkUnsettledAttempts(s, status)
           L(t) == SettleLast(s.attempts[t], status)
<1>1. \A t \in Tasks : /\ ShortList(L(t), t) /\ SettledList(L(t))
                       /\ SettledList(s.attempts[t]) => L(t) = s.attempts[t]
  <2> TAKE t \in Tasks
  <2>1. s.attempts[t] \in Lists /\ ShortList(s.attempts[t], t) /\ status \in TerminalAttempt
    BY SnapshotFields DEF Short, TerminalAttempt
  <2> QED
    BY <2>1, ShortSettle
<1> HIDE DEF L
<1>2. r = [s EXCEPT !.attempts = [t \in Tasks |-> L(t)]]
  BY DEF MarkUnsettledAttempts, L
<1>3. \A t \in Tasks : r.attempts[t] = L(t)
  BY <1>2 DEF Snapshot
<1>4. Settled(s) => r = s
  <2>1. Settled(s) => s.attempts = [t \in Tasks |-> L(t)]
    BY <1>1, SnapshotFields DEF Settled
  <2> QED
    BY <1>2, <2>1 DEF Snapshot
<1> QED
  BY <1>1, <1>3, <1>4 DEF Short, Settled

LEMMA SummaryObeys ==
  ASSUME NEW s \in Snapshot, Short(s), NEW summary \in Summaries
  PROVE  Short(ApplySummary(s, summary)) /\ Settled(ApplySummary(s, summary))
<1> DEFINE r == ApplySummary(s, summary)
           L(t) == Report(s.attempts[t], summary[t])
<1>1. \A t \in Tasks : ShortList(L(t), t) /\ SettledList(L(t))
  <2> TAKE t \in Tasks
  <2>1. /\ s.attempts[t] \in Lists /\ ShortList(s.attempts[t], t)
        /\ summary[t] \in {"completed", "failed", "skipped"}
    BY SnapshotFields DEF Short, Summaries
  <2> QED
    BY <2>1, ShortReport
<1> HIDE DEF L
<1>2. r = [s EXCEPT !.attempts = [t \in Tasks |-> L(t)]]
  BY DEF ApplySummary, L
<1>3. \A t \in Tasks : r.attempts[t] = L(t)
  BY <1>2 DEF Snapshot
<1> QED
  BY <1>1, <1>3 DEF Short, Settled

LEMMA MarkObeys ==
  ASSUME NEW s \in Snapshot, Short(s), OneEach, NEW c \in Agents, c \in launched,
         NEW status \in {"running", "completed", "failed", "cancelled"}
  PROVE  /\ Short(MarkAttempt(s, c, status))
         /\ Settled(s) /\ BindingsFor(s.attempts[TaskOf[c]], c) # {}
              => MarkAttempt(s, c, status) = s
<1> DEFINE r == MarkAttempt(s, c, status)
           task == TaskOf[c]
           L == MarkList(s.attempts[task], c, status)
<1>0. task \in Tasks
  BY TaskOfType
<1>1. /\ ShortList(L, task)
      /\ SettledList(s.attempts[task]) /\ BindingsFor(s.attempts[task], c) # {}
           => L = s.attempts[task]
  BY <1>0, SnapshotFields, ShortMark DEF Short
<1> HIDE DEF L, task
<1>2. r = [s EXCEPT !.attempts = [s.attempts EXCEPT ![task] = L]]
  BY DEF MarkAttempt, L, task
<1>3. \A t \in Tasks : r.attempts[t] = IF t = task THEN L ELSE s.attempts[t]
  BY <1>0, <1>2 DEF Snapshot
<1>4. Short(r)
  BY <1>1, <1>3 DEF Short
<1>5. L = s.attempts[task] => r = s
  <2>1. L = s.attempts[task] => [s.attempts EXCEPT ![task] = L] = s.attempts
    BY <1>0, SnapshotFields
  <2> QED
    BY <1>2, <2>1 DEF Snapshot
<1> QED
  BY <1>0, <1>1, <1>4, <1>5 DEF Settled, task

(* The sum over the attempts misses no task. *)
LEMMA SuccessIsDone ==
  ASSUME NEW s \in Snapshot, Short(s), DeriveCompletionStatus(s) = "succeeded"
  PROVE  Done(s)
<1>1. /\ Cardinality(AttemptIds(s)) = Cardinality(Tasks)
      /\ \A id \in AttemptIds(s) : s.attempts[id[1]][id[2]].status = "completed"
  BY DEF DeriveCompletionStatus
<1>2. \A t \in Tasks : /\ s.attempts[t] \in Lists
                       /\ DOMAIN s.attempts[t] = 1..Len(s.attempts[t])
                       /\ Len(s.attempts[t]) \in {0, 1}
  <2> TAKE t \in Tasks
  <2>1. s.attempts[t] \in Lists
    BY SnapshotFields
  <2>2. Len(s.attempts[t]) \in Nat /\ DOMAIN s.attempts[t] = 1..Len(s.attempts[t])
    BY <2>1, LenProperties DEF Lists
  <2>3. Len(s.attempts[t]) <= 1
    BY DEF Short, ShortList
  <2>4. Len(s.attempts[t]) \in {0, 1}
    BY <2>2, <2>3, AtMostOne
  <2> QED
    BY <2>1, <2>2, <2>4
<1>3. AttemptIds(s) = {<<t, 1>> : t \in {u \in Tasks : Len(s.attempts[u]) = 1}}
  <2>1. \A t \in Tasks : DOMAIN s.attempts[t] = IF Len(s.attempts[t]) = 1 THEN {1} ELSE {}
    BY <1>2
  <2>2. AttemptIds(s) \subseteq {<<t, 1>> : t \in {u \in Tasks : Len(s.attempts[u]) = 1}}
    BY <2>1 DEF AttemptIds
  <2>3. {<<t, 1>> : t \in {u \in Tasks : Len(s.attempts[u]) = 1}} \subseteq AttemptIds(s)
    BY <2>1 DEF AttemptIds
  <2> QED
    BY <2>2, <2>3
<1> DEFINE A == AttemptIds(s)
           f == [id \in A |-> id[1]]
<1>4. f \in Injection(A, Tasks)
  <2>1. \A id \in A : id[1] \in Tasks /\ id = <<id[1], 1>>
    BY <1>3
  <2>2. f \in [A -> Tasks]
    BY <2>1
  <2>3. \A a, b \in A : f[a] = f[b] => a = b
    BY <2>1
  <2> QED
    BY <2>2, <2>3 DEF Injection, IsInjective
<1>5. f \in Surjection(A, Tasks)
  <2> HIDE DEF f, A
  <2>1. /\ IsFiniteSet(Tasks)
        /\ Cardinality(A) = Cardinality(Tasks)
    BY <1>1, TasksFinite DEF A
  <2> QED
    BY <1>4, <2>1, FS_Injection
<1>6. \A t \in Tasks : \E id \in A : id[1] = t
  BY <1>5 DEF Surjection
<1>7. ASSUME NEW t \in Tasks
      PROVE  DoneList(s.attempts[t])
  <2>1. <<t, 1>> \in A
    BY <1>3, <1>6
  <2>2. s.attempts[t][1].status = "completed"
    BY <1>1, <2>1
  <2>3. 1 \in DOMAIN s.attempts[t]
    BY <2>1 DEF AttemptIds
  <2> QED
    BY <2>2, <2>3 DEF DoneList
<1> QED
  BY <1>7 DEF Done

-----------------------------------------------------------------------------
(* What an orderly engine adds to the invariant: at most one attempt for   *)
(* each task, none of them at work once the race is over, unless a handler *)
(* threw on its way, and then there is no end; and, if the clock never     *)
(* steps back, none throws and the record is the snapshot even after the   *)
(* end.                                                                    *)
Obeys ==
  /\ OneEach
  /\ Short(snapshot)
  /\ monitor.stage \notin {"racing", "rejected"} => Settled(snapshot)
  /\ monitor.stage = "rejected" => ~Ended(snapshot)
  /\ snapshot.status = "succeeded" => Done(snapshot)
  /\ Ended(durable) => Settled(durable)
  /\ durable.status = "succeeded" => Done(durable)
  /\ Steady => /\ monitor.stage \notin {"down", "rejected"}
               /\ ~Restarted => durable = snapshot

Obedient == Orderly => Obeys

(* What a step may change of the execution its watcher sees. *)
WatchedStep ==
  Steady =>
    \/ Watched' = Watched
    \/ Watched = Absent /\ Watched' = Queued
    \/ Watched # Absent /\ ~Ended(Watched) /\ Legal(Watched, Watched')

(* The snapshot s may follow in the tracker of an orderly engine, before   *)
(* the stage given.                                                        *)
Serves(s, stage) ==
  /\ Succeeds(s)
  /\ Short(s)
  /\ stage \notin {"racing", "rejected"} \/ Ended(s) => Settled(s)
  /\ stage = "rejected" => ~Ended(s)
  /\ s.status = "succeeded" => Done(s)
  /\ Ended(snapshot) => s = snapshot

(* The ledger of a host whose clock never steps back takes every change of *)
(* a live execution.                                                       *)
LEMMA SteadyTakes ==
  ASSUME IInv, Steady, ~Restarted, snapshot \in Snapshot, ~Ended(snapshot),
         NEW s, Succeeds(s), Plausible(s), Hold(s)
  PROVE  durable' = s
<1> USE DEF IInv
<1> DEFINE e == Stamped(dates, snapshot, s, clock)
<1>1. dates \in Dates /\ InTime(dates, clock)
  BY DEF TypeOK, DatesInv
<1>2. ~Backdated(dates)
  BY <1>1, InTimeIsNotBackdated
<1>3. durable = snapshot /\ kept = dates
  BY <1>2 DEF RecordKeepsUp
<1>4. e \in Dates /\ InTime(e, clock)
  BY Stamp, StampInTime
<1>5. ~Backdated(e)
  BY <1>4, InTimeIsNotBackdated
<1>6. DatesMove(dates, e)
  BY <1>5, StampMoves
<1> HIDE DEF e
<1>7. Takes(s, e)
  BY <1>3, <1>6 DEF Takes, Succeeds
<1>8. Persist(s, e)
  BY DEF Hold, e
<1> QED
  BY <1>7, <1>8 DEF Persist

LEMMA HeldObeys ==
  ASSUME IInv, Obeys, snapshot \in Snapshot, ~Restarted, ~Restarted',
         Steady => monitor'.stage # "rejected",
         NEW s, Serves(s, monitor'.stage), Plausible(s), Hold(s), UNCHANGED <<launched, clock>>
  PROVE  Obeys' /\ WatchedStep
<1>1. snapshot # Absent
  BY SnapshotFields DEF Absent, ExecutionStatus, TerminalExecution
<1>2. Succeeds(s)
  BY DEF Serves
<1>3. /\ snapshot' = s
      /\ \/ durable' = s
         \/ durable' = durable
         \/ /\ durable'.status = snapshot.status
            /\ \E t \in Tasks : Len(snapshot.attempts[t]) < Len(s.attempts[t])
  BY <1>2, HeldRecord DEF IInv
<1>4. (\E t \in Tasks : Len(snapshot.attempts[t]) < Len(s.attempts[t])) => ~Ended(snapshot)
  <2>1. ASSUME NEW t \in Tasks, Len(snapshot.attempts[t]) < Len(s.attempts[t])
        PROVE  s # snapshot
    <3>1. Len(snapshot.attempts[t]) \in Nat
      BY SnapshotFields, LenProperties DEF Lists
    <3> QED
      BY <2>1, <3>1
  <2> QED
    BY <2>1 DEF Serves
<1>5. /\ Ended(durable') => Settled(durable')
      /\ durable'.status = "succeeded" => Done(durable')
  <2>1. CASE durable' = s
    BY <2>1 DEF Serves
  <2>2. CASE durable' = durable
    BY <2>2 DEF Obeys
  <2>3. CASE durable'.status = snapshot.status /\ ~Ended(snapshot)
    BY <2>3 DEF Ended, TerminalExecution
  <2> QED
    BY <1>3, <1>4, <2>1, <2>2, <2>3
<1>6. ASSUME Steady PROVE durable' = s
  <2>1. durable = snapshot
    BY <1>6 DEF Obeys
  <2>2. CASE Ended(snapshot)
    <3>1. s = snapshot
      BY <2>2 DEF Serves
    <3> QED
      BY <1>3, <1>4, <2>1, <2>2, <3>1
  <2>3. CASE ~Ended(snapshot)
    BY <1>2, <1>6, <2>3, SteadyTakes
  <2> QED
    BY <2>2, <2>3
<1>7. Obeys'
  <2>1. OneEach'
    BY DEF Obeys, OneEach
  <2>2. /\ Short(snapshot)'
        /\ (monitor.stage \notin {"racing", "rejected"} => Settled(snapshot))'
        /\ (monitor.stage = "rejected" => ~Ended(snapshot))'
        /\ (snapshot.status = "succeeded" => Done(snapshot))'
    BY <1>3
    DEF Serves, Short, ShortList, Settled, SettledList, Done, DoneList, Ended, Live
  <2>3. /\ (Ended(durable) => Settled(durable))'
        /\ (durable.status = "succeeded" => Done(durable))'
    BY <1>5 DEF Settled, SettledList, Done, DoneList, Ended, Live
  <2>4. (Steady => (/\ monitor.stage \notin {"down", "rejected"}
                   /\ (~Restarted => durable = snapshot)))'
    BY <1>3, <1>6 DEF Restarted, Steady
  <2> QED
    BY <2>1, <2>2, <2>3, <2>4 DEF Obeys
<1>8. Watched = snapshot /\ Watched' = s
  BY <1>3 DEF Watched
<1>9. Ended(snapshot) \/ Legal(snapshot, s)
  BY <1>2 DEF Succeeds
<1>10. Ended(snapshot) => s = snapshot
  BY DEF Serves
<1>11. WatchedStep
  BY <1>1, <1>8, <1>9, <1>10 DEF WatchedStep
<1> QED
  BY <1>7, <1>11

LEMMA TrackObeys ==
  ASSUME IInv, Obeys, snapshot \in Snapshot, ~Restarted, ~Restarted',
         Steady => monitor'.stage # "rejected",
         NEW s, Serves(s, monitor'.stage), Track(s), UNCHANGED <<launched, clock>>
  PROVE  Obeys' /\ WatchedStep
<1>1. Plausible(s) /\ Hold(s)
  BY SensibleIsPlausible DEF Track, IInv, Serves
<1> QED
  BY <1>1, HeldObeys

(* A step that leaves the record and the tracker alone. *)
LEMMA IdleObeys ==
  ASSUME Obeys, UNCHANGED <<snapshot, durable, launched>>,
         ~Restarted, ~Restarted',
         monitor'.stage \notin {"racing", "rejected"} => Settled(snapshot),
         monitor'.stage = "rejected" => ~Steady /\ ~Ended(snapshot)
  PROVE  Obeys' /\ WatchedStep
<1>1. Watched' = Watched
  BY DEF Watched
<1>2. Obeys'
  BY DEF Obeys, OneEach, Short, ShortList, Settled, SettledList, Done, DoneList, Ended,
         Live, Restarted, Steady
<1> QED
  BY <1>1, <1>2 DEF WatchedStep

(* The schema takes an ended snapshot again. *)
LEMMA SameIsSensible ==
  ASSUME TypeOK, DatesInv, snapshot \in Snapshot, Ended(snapshot)
  PROVE  Sensible(dates, snapshot, snapshot, clock)
<1>1. snapshot # Absent
  BY SnapshotFields DEF Absent, ExecutionStatus, TerminalExecution
<1>2. Started(dates, snapshot, snapshot, clock) = dates.started
  BY DEF Started, Ended, TerminalExecution
<1>3. Finished(dates, snapshot, snapshot, clock) = dates.finished
  BY DEF Finished
<1>4. SettledTooEarly(dates, snapshot, snapshot, clock) = {}
  BY DEF SettledTooEarly
<1>5. dates.created \in Int /\ dates.started \in Int /\ dates.finished \in Int
  BY DatesFields, Moments DEF TypeOK
<1>6. /\ dates.started # Unset => dates.created <= dates.started
      /\ dates.started # Unset /\ dates.finished # Unset => dates.started <= dates.finished
  BY DEF DatesInv
<1> QED
  BY <1>1, <1>2, <1>3, <1>4, <1>5, <1>6 DEF Sensible

(* The schema takes every step of a clock that never steps back. *)
LEMMA SteadyIsSensible ==
  ASSUME TypeOK, DatesInv, snapshot \in Snapshot, Steady, NEW s
  PROVE  Sensible(dates, snapshot, s, clock)
<1>1. snapshot # Absent
  BY SnapshotFields DEF Absent, ExecutionStatus, TerminalExecution
<1>2. dates \in Dates /\ clock \in Times /\ InTime(dates, clock)
  BY DEF TypeOK, DatesInv
<1>3. /\ dates.started # Unset /\ dates.finished # Unset => dates.started <= dates.finished
      /\ dates.finished # Unset => Ended(snapshot)
  BY DEF DatesInv
<1> QED
  BY <1>1, <1>2, <1>3, InTimeIsSensible

(* A handler that throws does so on a clock that stepped back, and on its  *)
(* way to an end it does not reach.                                        *)
LEMMA RejectedObeys ==
  ASSUME IInv, Obeys, monitor.stage \in {"racing", "closing"},
         NEW r, Follows(snapshot, r), Serves(r, "closing"),
         Rejected(r), UNCHANGED <<launched, clock>>
  PROVE  Obeys' /\ WatchedStep
<1>1. /\ snapshot \in Snapshot /\ Ran(snapshot)
      /\ ~Restarted
      /\ snapshot.status # "queued"
  BY DEF IInv, StageInv, RanInv, Ran, Restarted, Active
<1>2. PICK settled \in SUBSET Tasks : Hold(Halfway(r, settled))
  BY DEF Rejected
<1> DEFINE h == Halfway(r, settled)
<1>3. /\ Follows(snapshot, h)
      /\ h.status = IF Ended(r) THEN snapshot.status ELSE r.status
      /\ \A t \in Tasks :
           h.attempts[t] = IF t \in settled THEN r.attempts[t] ELSE snapshot.attempts[t]
  BY <1>1, HalfwayFollows
<1>4. Hold(h)
  BY <1>2
<1> HIDE DEF h
<1>5. ~Steady
  BY <1>1, SteadyIsSensible DEF Rejected, IInv
<1>6. ~Ended(snapshot)
  BY <1>1, SameIsSensible DEF Rejected, IInv, Serves
<1>7. ~Ended(h)
  BY <1>3, <1>6 DEF Ended
<1>8. Short(h)
  BY <1>3 DEF Short, Serves, Obeys
<1>9. Succeeds(h)
  BY <1>1, <1>3, FollowsSucceeds
<1>10. Plausible(h)
  BY <1>1, <1>7, <1>9, LiveIsPlausible DEF IInv
<1>11. monitor'.stage = "rejected"
  BY DEF Rejected, MoveTo, IInv, TypeOK, Monitor
<1>12. Serves(h, monitor'.stage)
  BY <1>6, <1>7, <1>8, <1>9, <1>11 DEF Serves, Ended, TerminalExecution
<1> QED
  BY <1>1, <1>4, <1>5, <1>10, <1>11, <1>12, HeldObeys DEF Restarted

LEMMA StageKnown ==
  ASSUME IInv, NEW stage \in Stage, MoveTo(stage)
  PROVE  monitor'.stage = stage
BY DEF MoveTo, IInv, TypeOK, Monitor

(* No attempt: all of them are settled, and no task is done. *)
LEMMA UnattemptedObeys ==
  ASSUME NEW s, s.attempts = Unattempted
  PROVE  Short(s) /\ Settled(s)
<1>1. \A t \in Tasks : s.attempts[t] = <<>>
  BY DEF Unattempted
<1>2. \A t \in Tasks : Len(s.attempts[t]) = 0
  BY <1>1
<1>3. \A n \in 1..0 : FALSE
  OBVIOUS
<1> QED
  BY <1>2, <1>3 DEF Short, ShortList, Settled, SettledList

(* A live snapshot that follows another without ending may be tracked. *)
LEMMA FollowsServes ==
  ASSUME NEW s, snapshot \in Snapshot, ~Ended(snapshot), Follows(snapshot, s),
         Short(s), NEW stage,
         stage \notin {"racing", "rejected"} \/ Ended(s) => Settled(s),
         stage = "rejected" => ~Ended(s),
         s.status = "succeeded" => Done(s)
  PROVE  Serves(s, stage)
BY FollowsSucceeds DEF Serves

LEMMA StartObeys ==
  ASSUME IInv, Obeys,
         CheckpointFails \/ Prepare \/ EngineStartThrows \/ EngineStarts \/ StartRejected
  PROVE  Obeys' /\ WatchedStep
<1>1. CASE CheckpointFails \/ StartRejected
  <2>1. monitor.stage \in {"idle", "prepared"} /\ monitor'.stage = "refused"
    BY <1>1, StageKnown DEF CheckpointFails, StartRejected, Stage
  <2>2. UNCHANGED <<snapshot, durable, launched>>
    BY <1>1 DEF CheckpointFails, StartRejected
  <2> QED
    BY <2>1, <2>2, IdleObeys DEF Obeys, Restarted
<1>2. CASE Prepare
  <2>1. monitor.stage = "idle" /\ monitor'.stage = "prepared" /\ UNCHANGED launched
    BY <1>2, StageKnown DEF Prepare, Stage
  <2>2. /\ snapshot = Absent /\ durable = Absent
        /\ snapshot' = Queued /\ durable' = Queued
    BY <1>2, Prepared
  <2>4. Short(Queued) /\ Settled(Queued) /\ Queued.status = "queued"
    BY UnattemptedObeys DEF Queued
  <2>5. Obeys'
    BY <2>1, <2>2, <2>4
    DEF Obeys, OneEach, Short, ShortList, Settled, SettledList, Ended, Live,
        TerminalExecution
  <2> QED
    BY <2>1, <2>2, <2>5 DEF WatchedStep, Watched, Restarted
<1>3. CASE EngineStartThrows
  <2> DEFINE s == Finish(snapshot, "unknown")
  <2>1. monitor.stage = "prepared" /\ monitor'.stage = "refused"
    BY <1>3, StageKnown DEF EngineStartThrows, Stage
  <2>2. snapshot \in Snapshot /\ Ran(snapshot) /\ ~Ended(snapshot)
    BY <2>1 DEF IInv, StageInv, RanInv, Ran, Ended, TerminalExecution
  <2>3. Follows(snapshot, s) /\ s.attempts = snapshot.attempts
    BY <2>2, FinishFollows DEF TerminalExecution
  <2>4. s.status = "unknown"
    BY <2>2 DEF Finish, Snapshot
  <2>5. Track(s) /\ UNCHANGED <<launched, clock>>
    BY <1>3 DEF EngineStartThrows
  <2> HIDE DEF s
  <2>6. Short(s) /\ Settled(s)
    BY <2>1, <2>3 DEF Obeys, Short, Settled
  <2>7. Serves(s, monitor'.stage)
    BY <2>1, <2>2, <2>3, <2>4, <2>6, FollowsServes
  <2> QED
    BY <2>1, <2>2, <2>5, <2>7, TrackObeys DEF Restarted
<1>4. CASE EngineStarts
  <2>1. PICK s : /\ Track(s) /\ Succeeds(s)
                 /\ s.attempts = snapshot.attempts
                 /\ s.status \in {"running", "stopping"}
    BY <1>4, EngineFollows
  <2>2. /\ monitor.stage = "prepared" /\ monitor'.stage = "racing"
        /\ UNCHANGED <<launched, clock>>
    BY <1>4, StageKnown DEF EngineStarts, Stage
  <2>3. snapshot \in Snapshot /\ snapshot.status = "queued"
    BY <2>2 DEF IInv, StageInv
  <2>4. ~Ended(snapshot) /\ ~Ended(s) /\ s.status # "succeeded"
    BY <2>1, <2>3 DEF Ended, TerminalExecution
  <2>5. Short(s)
    BY <2>1 DEF Obeys, Short
  <2>6. Serves(s, monitor'.stage)
    BY <2>1, <2>2, <2>4, <2>5 DEF Serves
  <2> QED
    BY <2>1, <2>2, <2>3, <2>6, TrackObeys DEF Restarted
<1> QED
  BY <1>1, <1>2, <1>3, <1>4

LEMMA CancelObeys ==
  ASSUME IInv, Obeys, Cancel
  PROVE  Obeys' /\ WatchedStep
<1> DEFINE s == RequestCancellation(snapshot)
<1>1. /\ Active /\ ~Ended(snapshot) /\ Track(s)
      /\ UNCHANGED <<monitor, launched, clock>>
  BY DEF Cancel
<1>2. snapshot \in Snapshot /\ Ran(snapshot) /\ ~Restarted
  BY <1>1, ActiveSnapshot
<1>3. Follows(snapshot, s) /\ s.attempts = snapshot.attempts
  BY <1>2, CancelFollows
<1>4. s.status = "stopping"
  BY <1>1, <1>2 DEF RequestCancellation, Snapshot
<1> HIDE DEF s
<1>5. ~Ended(s)
  BY <1>4 DEF Ended, TerminalExecution
<1>6. Short(s) /\ (monitor'.stage \notin {"racing", "rejected"} => Settled(s))
  BY <1>1, <1>3 DEF Obeys, Short, Settled
<1>7. Serves(s, monitor'.stage)
  BY <1>1, <1>2, <1>3, <1>4, <1>5, <1>6, FollowsServes
<1>8. Steady => monitor'.stage # "rejected"
  BY <1>1 DEF Obeys
<1> QED
  BY <1>1, <1>2, <1>7, <1>8, TrackObeys DEF Restarted

(* An Agent of an orderly engine changes nothing once the race is over,    *)
(* unless a handler threw on its way.                                      *)
LEMMA AgentObeys ==
  ASSUME IInv, Orderly, Obeys, NEW c \in Agents, AgentStart(c) \/ AgentEnd(c)
  PROVE  Obeys' /\ WatchedStep
<1>1. PICK status \in {"running", "completed", "failed", "cancelled"} :
        Track(MarkAttempt(snapshot, c, status))
  BY DEF AgentStart, AgentEnd
<1> DEFINE s == MarkAttempt(snapshot, c, status)
<1>2. Active /\ c \in launched /\ Timely(c) /\ UNCHANGED <<monitor, launched, clock>>
  BY DEF AgentStart, AgentEnd
<1>3. snapshot \in Snapshot /\ Ran(snapshot) /\ ~Restarted
  BY <1>2, ActiveSnapshot
<1>4. Follows(snapshot, s) /\ s.status = snapshot.status
  BY <1>2, <1>3, MarkFollows
<1>5. OneEach /\ Short(snapshot)
  BY DEF Obeys
<1>6. /\ Short(s)
      /\ Settled(snapshot) /\ BindingsFor(snapshot.attempts[TaskOf[c]], c) # {}
           => s = snapshot
  BY <1>2, <1>3, <1>5, MarkObeys
<1>7. Track(s)
  BY <1>1
<1> HIDE DEF s
<1>8. Serves(s, monitor'.stage)
  <2>1. CASE monitor.stage \in {"racing", "rejected"}
    <3>1. ~Ended(snapshot)
      BY <2>1 DEF IInv, StageInv, Obeys
    <3>2. ~Ended(s) /\ s.status # "succeeded"
      BY <1>4, <3>1 DEF Ended, TerminalExecution
    <3> QED
      BY <1>2, <1>3, <1>4, <1>6, <2>1, <3>1, <3>2, FollowsServes
  <2>2. CASE monitor.stage \notin {"racing", "rejected"}
    <3>1. c \notin LateAgents
      BY <1>2 DEF Orderly
    <3>2. Settled(snapshot)
      BY <2>2 DEF Obeys
    <3>3. s = snapshot
      BY <1>2, <1>6, <2>2, <3>1, <3>2 DEF Timely
    <3>4. Succeeds(s)
      BY <1>3, <1>4, FollowsSucceeds
    <3>5. s.status = "succeeded" => Done(s)
      BY <3>3 DEF Obeys
    <3> QED
      BY <1>2, <1>6, <2>2, <3>2, <3>3, <3>4, <3>5 DEF Serves
  <2> QED
    BY <2>1, <2>2
<1>9. Steady => monitor'.stage # "rejected"
  BY <1>2 DEF Obeys
<1> QED
  BY <1>2, <1>3, <1>7, <1>8, <1>9, TrackObeys DEF Restarted

(* Whatever result the monitor takes, no attempt is left at work. *)
LEMMA ResultServes ==
  ASSUME IInv, Obeys,
         ResultCompleted \/ ResultMalformed \/ ResultCancelled \/ ResultError
  PROVE  \E s : /\ \E stop \in StopReason : TakeResult(stop, s)
                /\ Follows(snapshot, s) /\ Serves(s, "closing")
<1>1. monitor.stage = "racing"
  BY DEF ResultCompleted, ResultMalformed, ResultCancelled, ResultError, TakeResult
<1>2. snapshot \in Snapshot /\ Ran(snapshot) /\ ~Ended(snapshot) /\ Short(snapshot)
  BY <1>1 DEF IInv, StageInv, RanInv, Ran, Obeys
<1>r. {"completed", "malformed", "cancelled", "error"} \subseteq StopReason
  BY DEF StopReason
<1>3. CASE ResultCompleted
  <2>1. PICK summary \in Summaries :
          TakeResult("completed", ApplySummary(snapshot, summary))
    BY <1>3 DEF ResultCompleted
  <2> DEFINE s == ApplySummary(snapshot, summary)
  <2>2. Follows(snapshot, s) /\ s.status = snapshot.status
    BY <1>2, SummaryFollows
  <2>3. Short(s) /\ Settled(s)
    BY <1>2, SummaryObeys
  <2>4. TakeResult("completed", s)
    BY <2>1
  <2> HIDE DEF s
  <2>5. s.status # "succeeded"
    BY <1>2, <2>2 DEF Ended, TerminalExecution
  <2>6. Serves(s, "closing")
    BY <1>2, <2>2, <2>3, <2>5, FollowsServes
  <2> QED
    BY <1>r, <2>2, <2>4, <2>6
<1>4. CASE ResultMalformed
  <2> DEFINE r == MarkUnsettledAttempts(snapshot, "unknown")
             s == Finish(r, "unknown")
  <2>1. Follows(snapshot, r) /\ r.status = snapshot.status
    BY <1>2, SettleFollows
  <2>2. Follows(snapshot, s)
    BY <1>2, <2>1, FollowsThenFinish DEF TerminalExecution
  <2>3. r \in Snapshot /\ ~Ended(r) /\ Ran(r)
    BY <1>2, <2>1 DEF Follows, Ended
  <2>4. s.status = "unknown" /\ s.attempts = r.attempts
    BY <2>3 DEF Finish, Snapshot
  <2>5. Short(r) /\ Settled(r)
    BY <1>2, SettleObeys
  <2>6. TakeResult("malformed", s)
    BY <1>4 DEF ResultMalformed
  <2> HIDE DEF s, r
  <2>7. Short(s) /\ Settled(s)
    BY <2>4, <2>5 DEF Short, Settled
  <2>8. Serves(s, "closing")
    BY <1>2, <2>2, <2>4, <2>7, FollowsServes
  <2> QED
    BY <1>r, <2>2, <2>6, <2>8
<1>5. CASE ResultCancelled
  <2> DEFINE r == RequestCancellation(snapshot)
             s == MarkUnsettledAttempts(r, "cancelled")
  <2>1. Follows(snapshot, r) /\ r.attempts = snapshot.attempts
    BY <1>2, CancelFollows
  <2>2. r.status = "stopping"
    BY <1>2 DEF RequestCancellation, Snapshot
  <2>3. r \in Snapshot /\ Ran(r) /\ Short(r)
    BY <1>2, <2>1 DEF Follows, Short
  <2>4. TakeResult("cancelled", s)
    BY <1>5 DEF ResultCancelled
  <2> HIDE DEF r
  <2>5. Follows(r, s) /\ s.status = r.status /\ s.cancelling = r.cancelling
    BY <2>3, SettleFollows
  <2>6. Short(s) /\ Settled(s)
    BY <2>3, SettleObeys
  <2> HIDE DEF s
  <2>7. AttemptsMove(snapshot, s)
    BY <2>1, <2>5 DEF Follows, AttemptsMove
  <2>8. Follows(snapshot, s)
    BY <1>2, <2>1, <2>2, <2>5, <2>7 DEF Follows
  <2>9. Serves(s, "closing")
    BY <1>2, <2>2, <2>5, <2>6, <2>8, FollowsServes
  <2> QED
    BY <1>r, <2>4, <2>8, <2>9
<1>6. CASE ResultError
  <2> DEFINE s == MarkUnsettledAttempts(snapshot, "unknown")
  <2>1. Follows(snapshot, s) /\ s.status = snapshot.status
    BY <1>2, SettleFollows
  <2>2. Short(s) /\ Settled(s)
    BY <1>2, SettleObeys
  <2>3. TakeResult("error", s)
    BY <1>6 DEF ResultError
  <2> HIDE DEF s
  <2>4. s.status # "succeeded"
    BY <1>2, <2>1 DEF Ended, TerminalExecution
  <2>5. Serves(s, "closing")
    BY <1>2, <2>1, <2>2, <2>4, FollowsServes
  <2> QED
    BY <1>r, <2>1, <2>3, <2>5
<1> QED
  BY <1>3, <1>4, <1>5, <1>6

LEMMA ResultObeys ==
  ASSUME IInv, Obeys,
         ResultCompleted \/ ResultMalformed \/ ResultCancelled \/ ResultError
  PROVE  Obeys' /\ WatchedStep
<1>1. PICK s : /\ \E stop \in StopReason : TakeResult(stop, s)
               /\ Follows(snapshot, s) /\ Serves(s, "closing")
  BY ResultServes
<1>2. /\ monitor.stage = "racing"
      /\ UNCHANGED <<launched, clock>>
      /\ \/ Rejected(s)
         \/ Track(s) /\ monitor'.stage = "closing"
  BY <1>1 DEF TakeResult
<1>3. snapshot \in Snapshot
  BY <1>2 DEF IInv, StageInv
<1>4. CASE Rejected(s)
  BY <1>1, <1>2, <1>4, RejectedObeys
<1>5. CASE Track(s) /\ monitor'.stage = "closing"
  BY <1>1, <1>2, <1>3, <1>5, TrackObeys DEF Restarted
<1> QED
  BY <1>2, <1>4, <1>5

(* Closing the execution as unknown leaves no attempt at work, and changes *)
(* nothing of one that has ended.                                          *)
LEMMA UnknownServes ==
  ASSUME IInv, Obeys, snapshot \in Snapshot, Ran(snapshot), ~Restarted,
         NEW stage, stage # "rejected"
  PROVE  Serves(ClosedUnknown, stage) /\ Follows(snapshot, ClosedUnknown)
<1> DEFINE r == MarkUnsettledAttempts(snapshot, "unknown")
           s == Finish(r, "unknown")
<1>0. ClosedUnknown = s
  BY DEF ClosedUnknown
<1>1. /\ Short(r) /\ Settled(r)
      /\ Settled(snapshot) => r = snapshot
  BY SettleObeys DEF Obeys
<1>2. Follows(snapshot, s) /\ Ended(s) /\ (~Ended(snapshot) => s.status = "unknown")
  BY UnknownFollows
<1>3. r \in Snapshot /\ s.attempts = r.attempts
  BY SettleFollows DEF Follows, Finish, Snapshot
<1>4. CASE Ended(snapshot)
  <2>1. Settled(snapshot) /\ (snapshot.status = "succeeded" => Done(snapshot))
    BY <1>4 DEF Obeys, IInv, StageInv
  <2>2. r = snapshot
    BY <1>1, <2>1
  <2>3. s = snapshot
    BY <1>4, <2>2 DEF Finish
  <2> HIDE DEF s, r
  <2>4. Succeeds(snapshot)
    BY <1>2, <2>3, FollowsSucceeds
  <2>5. Serves(snapshot, stage)
    BY <1>4, <2>1, <2>4 DEF Serves, Obeys
  <2> QED
    BY <1>0, <1>2, <2>3, <2>5
<1>5. CASE ~Ended(snapshot)
  <2> HIDE DEF s, r
  <2>1. Short(s) /\ Settled(s) /\ s.status = "unknown"
    BY <1>1, <1>2, <1>3, <1>5 DEF Short, Settled
  <2>2. Serves(s, stage)
    BY <1>2, <1>5, <2>1, FollowsServes
  <2> QED
    BY <1>0, <1>2, <2>2
<1> QED
  BY <1>4, <1>5

LEMMA WatchdogObeys ==
  ASSUME IInv, Obeys, WatchdogExpires
  PROVE  Obeys' /\ WatchedStep
<1> DEFINE s == ClosedUnknown
<1>1. Active /\ UNCHANGED <<launched, clock>>
  BY DEF WatchdogExpires
<1>2. snapshot \in Snapshot /\ Ran(snapshot) /\ ~Restarted
  BY <1>1, ActiveSnapshot
<1>3. /\ Serves(s, "draining") /\ Serves(s, "closing")
      /\ Follows(snapshot, s)
  BY <1>2, UnknownServes
<1>w. \/ Track(s) /\ MoveTo("draining")
      \/ monitor.stage \in {"racing", "closing"} /\ Rejected(s)
      \/ UNCHANGED <<snapshot, durable, monitor, dates, kept>>
  BY DEF WatchdogExpires
<1> HIDE DEF s
<1>4. CASE Track(s) /\ MoveTo("draining")
  <2>1. monitor'.stage = "draining"
    BY <1>4, StageKnown DEF Stage
  <2> QED
    BY <1>1, <1>2, <1>3, <1>4, <2>1, TrackObeys DEF Restarted
<1>5. CASE monitor.stage \in {"racing", "closing"} /\ Rejected(s)
  BY <1>1, <1>3, <1>5, RejectedObeys
<1>6. CASE UNCHANGED <<snapshot, durable, monitor, dates, kept>>
  BY <1>1, <1>2, <1>6, IdleObeys DEF Obeys, Restarted
<1> QED
  BY <1>w, <1>4, <1>5, <1>6

(* An orderly end of the disposal: the status was derived from attempts    *)
(* that are all settled, and a success counted each of them.               *)
LEMMA FinalServes ==
  ASSUME Obeys, snapshot \in Snapshot, Ran(snapshot), monitor.stage = "closing",
         NEW stop, NEW stage \in {"closing", "released"}
  PROVE  LET s == Finish(snapshot, FinalStatus(snapshot, stop))
         IN  Serves(s, stage) /\ Follows(snapshot, s)
<1> DEFINE final == FinalStatus(snapshot, stop)
           s == Finish(snapshot, final)
<1>1. Short(snapshot) /\ Settled(snapshot)
  BY DEF Obeys
<1>f. final \in TerminalExecution
  BY DEF FinalStatus, DeriveCompletionStatus, TerminalExecution
<1>d. final = "succeeded" => DeriveCompletionStatus(snapshot) = "succeeded"
  BY DEF FinalStatus
<1> HIDE DEF final
<1>e. Follows(snapshot, s) /\ s.attempts = snapshot.attempts
  BY <1>f, FinishFollows
<1>2. CASE Ended(snapshot)
  <2>1. s = snapshot
    BY <1>2 DEF Finish
  <2>2. snapshot.status = "succeeded" => Done(snapshot)
    BY DEF Obeys
  <2> HIDE DEF s
  <2>3. Succeeds(s)
    BY <1>e, FollowsSucceeds
  <2>4. Serves(s, stage)
    BY <1>1, <1>2, <2>1, <2>2, <2>3 DEF Serves
  <2> QED
    BY <1>e, <2>4 DEF s, final
<1>3. CASE ~Ended(snapshot)
  <2>4. s.status = final
    BY <1>3 DEF Finish, Snapshot
  <2> HIDE DEF s
  <2>5. final = "succeeded" => Done(snapshot)
    BY <1>1, <1>d, SuccessIsDone
  <2>6. /\ Short(s) /\ Settled(s)
        /\ s.status = "succeeded" => Done(s)
    BY <1>1, <1>e, <2>4, <2>5 DEF Short, Settled, Done
  <2>7. Serves(s, stage)
    BY <1>3, <1>e, <2>6, FollowsServes
  <2> QED
    BY <1>e, <2>7 DEF s, final
<1> QED
  BY <1>2, <1>3

LEMMA ReleaseObeys ==
  ASSUME IInv, Obeys, DisposalEnds \/ DrainEnds
  PROVE  Obeys' /\ WatchedStep
<1>1. CASE DisposalEnds
  <2>0. monitor.stage = "closing" /\ UNCHANGED <<launched, clock>>
    BY <1>1 DEF DisposalEnds
  <2>1. PICK clean \in BOOLEAN :
          \/ Track(Concluded(clean)) /\ MoveTo("released")
          \/ Rejected(Concluded(clean))
    BY <1>1 DEF DisposalEnds
  <2>3. snapshot \in Snapshot /\ Ran(snapshot) /\ ~Restarted
    BY <2>0, ActiveSnapshot DEF Active
  <2> DEFINE s == Concluded(clean)
  <2>4. /\ Serves(s, "closing") /\ Serves(s, "released")
        /\ Follows(snapshot, s)
    <3>1. CASE clean /\ (monitor.preceded => monitor.stop = "cancelled")
      <4>1. s = Finish(snapshot, FinalStatus(snapshot, monitor.stop))
        BY <3>1 DEF Concluded
      <4> HIDE DEF s
      <4> QED
        BY <2>0, <2>3, <4>1, FinalServes
    <3>2. CASE ~(clean /\ (monitor.preceded => monitor.stop = "cancelled"))
      <4>1. s = ClosedUnknown
        BY <3>2 DEF Concluded
      <4> HIDE DEF s
      <4> QED
        BY <2>3, <4>1, UnknownServes
    <3> QED
      BY <3>1, <3>2
  <2>5. (Track(s) /\ MoveTo("released")) \/ Rejected(s)
    BY <2>1
  <2> HIDE DEF s
  <2>6. CASE Rejected(s)
    BY <2>0, <2>4, <2>6, RejectedObeys
  <2>7. CASE Track(s) /\ MoveTo("released")
    <3>1. monitor'.stage = "released"
      BY <2>7, StageKnown DEF Stage
    <3> QED
      BY <2>0, <2>3, <2>4, <2>7, <3>1, TrackObeys DEF Restarted
  <2> QED
    BY <2>5, <2>6, <2>7
<1>2. CASE DrainEnds
  <2>1. monitor.stage = "draining" /\ monitor'.stage = "released"
    BY <1>2, StageKnown DEF DrainEnds, Stage
  <2>2. UNCHANGED <<snapshot, durable, launched>>
    BY <1>2 DEF DrainEnds
  <2> QED
    BY <2>1, <2>2, IdleObeys DEF Obeys, Restarted
<1> QED
  BY <1>1, <1>2

LEMMA CallerObeys ==
  ASSUME IInv, Obeys, CallerResumes
  PROVE  Obeys' /\ WatchedStep
<1>1. /\ monitor.stage = "released"
      /\ durable' \in {durable, snapshot}
      /\ UNCHANGED <<snapshot, monitor, launched>>
  BY DEF CallerResumes
<1>2. CASE durable' = durable
  BY <1>1, <1>2, IdleObeys DEF Obeys, Restarted
<1>3. CASE durable' = snapshot
  <2>1. Watched' = Watched
    BY <1>1 DEF Watched, Restarted
  <2>2. /\ Settled(snapshot)
        /\ snapshot.status = "succeeded" => Done(snapshot)
    BY <1>1 DEF Obeys
  <2>3. Obeys'
    BY <1>1, <1>3, <2>2
    DEF Obeys, OneEach, Short, ShortList, Settled, SettledList, Done, DoneList, Ended,
        Live, Restarted
  <2> QED
    BY <2>1, <2>3 DEF WatchedStep
<1> QED
  BY <1>1, <1>2, <1>3

LEMMA RejectedCallerObeys ==
  ASSUME IInv, Obeys, CallerRejected
  PROVE  Obeys' /\ WatchedStep
<1> DEFINE s == RequestCancellation(snapshot)
<1>1. /\ monitor.stage = "rejected"
      /\ UNCHANGED <<monitor, launched, clock>>
      /\ UNCHANGED <<snapshot, durable>> \/ Track(s)
  BY DEF CallerRejected
<1>2. /\ snapshot \in Snapshot /\ Ran(snapshot) /\ ~Restarted
      /\ ~Ended(snapshot) /\ ~Steady
  BY <1>1, ActiveSnapshot DEF Active, Obeys
<1>3. CASE UNCHANGED <<snapshot, durable>>
  BY <1>1, <1>2, <1>3, IdleObeys DEF Obeys, Restarted
<1>4. CASE Track(s)
  <2>1. Follows(snapshot, s) /\ s.attempts = snapshot.attempts
    BY <1>2, CancelFollows
  <2>2. s.status = "stopping"
    BY <1>2 DEF RequestCancellation, Snapshot
  <2>3. Track(s)
    BY <1>4
  <2> HIDE DEF s
  <2>4. ~Ended(s)
    BY <2>2 DEF Ended, TerminalExecution
  <2>5. Short(s)
    BY <2>1 DEF Obeys, Short
  <2>6. Serves(s, monitor'.stage)
    BY <1>1, <1>2, <2>1, <2>2, <2>4, <2>5, FollowsServes
  <2> QED
    BY <1>1, <1>2, <2>3, <2>6, TrackObeys DEF Restarted
<1> QED
  BY <1>1, <1>3, <1>4

(* No attempt of an interrupted record is at work. *)
LEMMA InterruptedSettles ==
  ASSUME NEW s \in Snapshot, ~Ended(s)
  PROVE  Settled(Interrupted(s)) /\ Interrupted(s).status = "unknown"
<1> DEFINE L(t) == InterruptedList(s.attempts[t])
<1>1. s # Absent
  BY SnapshotFields DEF Absent, ExecutionStatus, TerminalExecution
<1>2. \A t \in Tasks : SettledList(L(t))
  <2> TAKE t \in Tasks
  <2> DEFINE list == s.attempts[t]
             one(n) == IF Live(list[n]) THEN [list[n] EXCEPT !.status = "unknown"]
                       ELSE list[n]
  <2>1. list \in Lists
    BY SnapshotFields
  <2> HIDE DEF list
  <2>2. Len(list) \in Nat
    BY <2>1, LenProperties DEF Lists
  <2>3. \A n \in 1..Len(list) : one(n) \in Attempt /\ ~Live(one(n))
    <3> TAKE n \in 1..Len(list)
    <3>1. list[n] \in Attempt
      BY <2>1, ElementOfSeq DEF Lists
    <3> QED
      BY <3>1 DEF Attempt, AttemptStatus, TerminalAttempt, Live
  <2>4. L(t) = [n \in 1..Len(list) |-> one(n)]
    BY DEF InterruptedList, list
  <2> HIDE DEF L, one
  <2>5. L(t) \in Seq(Attempt)
    <3>1. L(t) \in [1..Len(list) -> Attempt]
      BY <2>3, <2>4
    <3> QED
      BY <2>2, <3>1, IsASeq
  <2>6. 1..Len(L(t)) = 1..Len(list)
    BY <2>4, <2>5, LenProperties
  <2> QED
    BY <2>3, <2>4, <2>6 DEF SettledList
<1> HIDE DEF L
<1> DEFINE closed == [t \in Tasks |-> L(t)]
<1>3. Interrupted(s) = [s EXCEPT !.status = "unknown", !.attempts = closed]
  BY <1>1 DEF Interrupted, L
<1>4. closed = [t \in Tasks |-> L(t)]
  OBVIOUS
<1> HIDE DEF closed
<1>5. /\ Interrupted(s).status = "unknown"
      /\ \A t \in Tasks : Interrupted(s).attempts[t] = L(t)
  BY <1>3, <1>4 DEF Snapshot
<1> QED
  BY <1>2, <1>5 DEF Settled

(* What a restart closes was live before, and is settled after. *)
LEMMA InterruptedServes ==
  ASSUME NEW s \in Snapshot, Ran(s), Short(s), ~Ended(s)
  PROVE  /\ Legal(s, Interrupted(s))
         /\ Interrupted(s).status = "unknown"
         /\ Short(Interrupted(s)) /\ Settled(Interrupted(s))
<1> DEFINE r == Interrupted(s)
           L(t) == InterruptedList(s.attempts[t])
<1>1. \A t \in Tasks : /\ ListMoves(s.attempts[t], L(t))
                       /\ ShortList(L(t), t)
                       /\ SettledList(L(t))
  <2> TAKE t \in Tasks
  <2> DEFINE list == s.attempts[t]
             one(n) == IF Live(list[n]) THEN [list[n] EXCEPT !.status = "unknown"]
                       ELSE list[n]
  <2>1. list \in Lists /\ LiveRan(list, t) /\ ShortList(list, t)
    BY SnapshotFields DEF Ran, Short
  <2> HIDE DEF list
  <2>2. Len(list) \in Nat
    BY <2>1, LenProperties DEF Lists
  <2>3. \A n \in 1..Len(list) : one(n) \in Attempt
    <3> TAKE n \in 1..Len(list)
    <3>1. list[n] \in Attempt
      BY <2>1, ElementOfSeq DEF Lists
    <3> QED
      BY <3>1 DEF Attempt, AttemptStatus, TerminalAttempt
  <2>4. ASSUME NEW n \in 1..Len(list)
        PROVE  /\ AttemptMoves(list[n], one(n))
               /\ ~Live(one(n))
               /\ one(n).agent = list[n].agent
    <3>1. list[n] \in Attempt
      BY <2>1, ElementOfSeq DEF Lists
    <3>2. CASE Live(list[n])
      <4>1. list[n].status = "running"
        BY <2>1, <3>2 DEF LiveRan
      <4>2. /\ one(n).status = "unknown"
            /\ one(n).agent = list[n].agent
        BY <3>1, <3>2 DEF Attempt
      <4> HIDE DEF one
      <4>3. AttemptMoves(list[n], one(n))
        BY <4>1, <4>2 DEF AttemptMoves, AttemptTransitions, AttemptStatus, TerminalAttempt
      <4> QED
        BY <4>2, <4>3 DEF Live, TerminalAttempt
    <3>3. CASE ~Live(list[n])
      <4>1. one(n) = list[n]
        BY <3>3
      <4> HIDE DEF one
      <4>2. AttemptMoves(list[n], list[n])
        BY <2>1, ListStays DEF ListMoves
      <4> QED
        BY <3>3, <4>1, <4>2
    <3> QED
      BY <3>2, <3>3
  <2>5. L(t) = [n \in 1..Len(list) |-> one(n)]
    BY DEF InterruptedList, list
  <2> HIDE DEF L, one
  <2>6. L(t) \in Seq(Attempt) /\ Len(L(t)) = Len(list)
    <3>1. L(t) \in [1..Len(list) -> Attempt]
      BY <2>3, <2>5
    <3>2. L(t) \in Seq(Attempt)
      BY <2>2, <3>1, IsASeq
    <3>3. DOMAIN L(t) = 1..Len(list) /\ DOMAIN L(t) = 1..Len(L(t)) /\ Len(L(t)) \in Nat
      BY <2>5, <3>2, LenProperties
    <3> QED
      BY <2>2, <3>2, <3>3
  <2>7. \A n \in 1..Len(list) : L(t)[n] = one(n)
    BY <2>5
  <2>8. ListMoves(list, L(t))
    BY <2>2, <2>4, <2>6, <2>7 DEF ListMoves
  <2>9. ShortList(L(t), t) /\ SettledList(L(t))
    BY <2>1, <2>4, <2>6, <2>7 DEF ShortList, SettledList
  <2> QED
    BY <2>8, <2>9 DEF list
<1> HIDE DEF L
<1>2. s # Absent
  BY SnapshotFields DEF Absent, ExecutionStatus, TerminalExecution
<1> DEFINE closed == [t \in Tasks |-> L(t)]
<1>3. r = [s EXCEPT !.status = "unknown", !.attempts = closed]
  BY <1>2 DEF Interrupted, L
<1>4. closed = [t \in Tasks |-> L(t)]
  OBVIOUS
<1> HIDE DEF r, closed
<1>5. /\ r.status = "unknown"
      /\ r.cancelling = s.cancelling
      /\ \A t \in Tasks : r.attempts[t] = L(t)
  BY <1>3, <1>4 DEF Snapshot
<1>6. Legal(s, r)
  <2>1. r.status \in ExecutionTransitions[s.status]
    BY <1>5, SnapshotFields DEF Ended, ExecutionTransitions, ExecutionStatus, TerminalExecution
  <2> QED
    BY <1>1, <1>5, <2>1 DEF Legal
<1>7. Short(r) /\ Settled(r)
  BY <1>1, <1>5 DEF Short, Settled
<1> QED
  BY <1>5, <1>6, <1>7 DEF r

(* What is left of the first half of a restart, when the clock never       *)
(* stepped back: the ledger takes the closed record.                       *)
LEMMA SteadyCloses ==
  ASSUME IInv, Obeys, Steady, ~Restarted, durable # Absent, ~Ended(durable)
  PROVE  LET closed == Interrupted(durable)
         IN  /\ Sensible(kept, durable, closed, clock)
             /\ DatesMove(kept, Stamped(kept, durable, closed, clock))
             /\ Legal(durable, closed)
<1> USE DEF IInv
<1> DEFINE closed == Interrupted(snapshot)
<1>1. durable = snapshot
  BY DEF Obeys
<1>2. dates \in Dates /\ InTime(dates, clock)
  BY DEF TypeOK, DatesInv
<1>3. ~Backdated(dates)
  BY <1>2, InTimeIsNotBackdated
<1>4. kept = dates
  BY <1>1, <1>3 DEF RecordKeepsUp
<1>5. snapshot \in Snapshot /\ Ran(snapshot) /\ Short(snapshot) /\ ~Ended(snapshot)
  BY <1>1 DEF TypeOK, RanInv, Ran, Obeys
<1>6. /\ Legal(snapshot, closed)
      /\ closed.status = "unknown"
      /\ Settled(closed)
  BY <1>5, InterruptedServes
<1>7. closed \in Snapshot
  BY <1>5, <1>6, InterruptedSnapshot DEF Absent
<1> HIDE DEF closed
<1>8. Succeeds(closed)
  <2>1. Ran(closed)
    BY <1>6 DEF Ran, LiveRan, Settled, SettledList
  <2>2. AttemptsMove(snapshot, closed)
    BY <1>6 DEF Legal, AttemptsMove
  <2> QED
    BY <1>5, <1>6, <1>7, <2>1, <2>2 DEF Succeeds
<1>9. Sensible(dates, snapshot, closed, clock)
  BY <1>5, SteadyIsSensible
<1>10. Plausible(closed)
  BY <1>5, <1>8, <1>9, SensibleIsPlausible
<1> DEFINE e == Stamped(dates, snapshot, closed, clock)
<1>11. e \in Dates /\ InTime(e, clock)
  BY <1>5, <1>8, Stamp, StampInTime
<1>12. ~Backdated(e)
  BY <1>11, InTimeIsNotBackdated
<1>13. DatesMove(dates, e)
  BY <1>5, <1>8, <1>10, <1>12, StampMoves
<1> QED
  BY <1>1, <1>4, <1>6, <1>9, <1>13 DEF closed

(* A restart closes the record by a legal step, and leaves an ended one as *)
(* it was.                                                                 *)
LEMMA RestartObeys ==
  ASSUME IInv, Obeys, HostRestarts
  PROVE  Obeys' /\ WatchedStep
<1> DEFINE closed == Interrupted(durable)
<1>1. /\ monitor.stage \notin {"idle", "lost"}
      /\ snapshot' = Absent
      /\ UNCHANGED launched
  BY DEF HostRestarts
<1>2. \/ /\ durable = Absent \/ Ended(durable)
         /\ durable' = durable /\ monitor'.stage = "lost"
      \/ /\ ~(durable = Absent \/ Ended(durable))
         /\ durable' = closed /\ monitor'.stage = "lost"
      \/ /\ ~(durable = Absent \/ Ended(durable))
         /\ durable' = durable /\ monitor'.stage = "down"
         /\ ~(/\ Sensible(kept, durable, closed, clock)
              /\ DatesMove(kept, Stamped(kept, durable, closed, clock)))
  <2>1. monitor' = [monitor EXCEPT !.stage = "lost"] => monitor'.stage = "lost"
    BY DEF IInv, TypeOK, Monitor
  <2>2. monitor' = [monitor EXCEPT !.stage = "down"] => monitor'.stage = "down"
    BY DEF IInv, TypeOK, Monitor
  <2> QED
    BY <2>1, <2>2 DEF HostRestarts, MoveTo
<1> HIDE DEF closed
<1>3. OneEach /\ Restarted'
  BY <1>2 DEF Obeys, Restarted
<1>4. Steady => ~Restarted /\ durable = snapshot
  BY <1>1 DEF Obeys, Restarted
<1>5. Steady /\ durable # Absent /\ ~Ended(durable) =>
        /\ Sensible(kept, durable, closed, clock)
        /\ DatesMove(kept, Stamped(kept, durable, closed, clock))
        /\ Legal(durable, closed)
  BY <1>4, SteadyCloses DEF closed
<1>6. ~(durable = Absent \/ Ended(durable)) => Settled(closed) /\ closed.status = "unknown"
  BY InterruptedSettles DEF IInv, TypeOK, closed
<1>7. Short(Absent) /\ Settled(Absent) /\ Absent.status = "absent"
  BY UnattemptedObeys DEF Absent
<1>8. /\ Ended(durable') => Settled(durable')
      /\ durable'.status = "succeeded" => Done(durable')
  BY <1>2, <1>6 DEF Obeys
<1>9. Obeys'
  <2>1. /\ OneEach'
        /\ Short(snapshot)' /\ Settled(snapshot)'
        /\ snapshot'.status # "succeeded"
        /\ monitor'.stage # "rejected"
    BY <1>1, <1>2, <1>3, <1>7
    DEF OneEach, Short, ShortList, Settled, SettledList, Live
  <2>2. /\ (Ended(durable) => Settled(durable))'
        /\ (durable.status = "succeeded" => Done(durable))'
    BY <1>8 DEF Settled, SettledList, Done, DoneList, Ended, Live
  <2>3. Steady => monitor'.stage \notin {"down", "rejected"}
    BY <1>2, <1>5
  <2>4. Steady' <=> Steady
    BY DEF HostRestarts, Steady
  <2> QED
    BY <1>3, <2>1, <2>2, <2>3, <2>4 DEF Obeys
<1>10. WatchedStep
  <2> SUFFICES ASSUME Steady
               PROVE  \/ Watched' = Watched
                      \/ Watched # Absent /\ ~Ended(Watched) /\ Legal(Watched, Watched')
    BY DEF WatchedStep
  <2>1. Watched = durable /\ Watched' = durable'
    BY <1>3, <1>4 DEF Watched
  <2> QED
    BY <1>2, <1>5, <2>1
<1> QED
  BY <1>9, <1>10

LEMMA InitObeys == ASSUME Init, Orderly PROVE Obeys
<1>1. OneEach
  BY OneAgentPerTask DEF Init, Orderly, OneEach
<1>2. Short(Absent) /\ Settled(Absent) /\ Absent.status = "absent"
  BY UnattemptedObeys DEF Absent
<1> QED
  BY <1>1, <1>2, AbsentFields DEF Init, Obeys, Restarted

(* Every step of an orderly engine keeps these, and shows its watcher a    *)
(* step of the lifecycle.                                                  *)
LEMMA StepObeys ==
  ASSUME IInv, Orderly, Obeys, [Next]_vars
  PROVE  Obeys' /\ WatchedStep
<1>1. CASE CheckpointFails \/ Prepare \/ EngineStartThrows \/ EngineStarts \/ StartRejected
  BY <1>1, StartObeys
<1>2. CASE CancelRequested \/ PlanTimesOut
  BY <1>2, CancelObeys DEF CancelRequested, PlanTimesOut
<1>3. CASE \E c \in Agents : AgentStart(c) \/ AgentEnd(c)
  BY <1>3, AgentObeys
<1>4. CASE ResultCompleted \/ ResultMalformed \/ ResultCancelled \/ ResultError
  BY <1>4, ResultObeys
<1>5. CASE WatchdogExpires
  BY <1>5, WatchdogObeys
<1>6. CASE DisposalEnds \/ DrainEnds
  BY <1>6, ReleaseObeys
<1>7. CASE CallerResumes \/ CallerRejected
  BY <1>7, CallerObeys, RejectedCallerObeys
<1>8. CASE HostRestarts
  BY <1>8, RestartObeys
<1>9. CASE ClockMoves \/ UNCHANGED vars
  <2>1. UNCHANGED <<snapshot, durable, monitor, launched>>
    BY <1>9 DEF ClockMoves, vars
  <2>2. Watched' = Watched
    BY <2>1 DEF Watched, Restarted
  <2>3. Obeys'
    BY <2>1
    DEF Obeys, OneEach, Short, ShortList, Settled, SettledList, Done, DoneList, Ended,
        Live, Restarted, Steady
  <2> QED
    BY <2>2, <2>3 DEF WatchedStep
<1> QED
  BY <1>1, <1>2, <1>3, <1>4, <1>5, <1>6, <1>7, <1>8, <1>9 DEF Next

(* The engine is orderly or not from the start. *)
LEMMA SameEngine ==
  ASSUME [Next]_vars
  PROVE  launched' = launched /\ (Orderly' <=> Orderly) /\ (Steady' <=> Steady)
<1>1. launched' = launched
  BY DEF Next, vars, CheckpointFails, Prepare, EngineStartThrows, EngineStarts,
         CancelRequested, PlanTimesOut, Cancel, AgentStart, AgentEnd, ResultCompleted,
         ResultMalformed, ResultCancelled, ResultError, TakeResult, WatchdogExpires,
         DisposalEnds, DrainEnds, CallerResumes, CallerRejected, HostRestarts,
         StartRejected, ClockMoves
<1> QED
  BY <1>1 DEF Orderly, Steady

LEMMA AlwaysObedient == Spec => []Obedient
<1>1. Init => Obedient
  BY InitObeys DEF Obedient
<1>2. IInv /\ Obedient /\ [Next]_vars => Obedient'
  BY StepObeys, SameEngine DEF Obedient
<1> QED
  BY <1>1, <1>2, WorkflowInvariant, PTL DEF Spec

(* EndIsHonest: the record of an ended execution shows no attempt at work, *)
(* and a success has a completed attempt for every task of the plan, for   *)
(* every engine that launches one Agent for a task and none after the      *)
(* race.                                                                   *)
THEOREM EndsAreHonest == Spec => []EndIsHonest
<1>1. ASSUME IInv, Obedient PROVE EndIsHonest
  <2> SUFFICES ASSUME Orderly, Ended(durable), NEW t \in Tasks
               PROVE  /\ \A n \in DOMAIN durable.attempts[t] :
                           ~Live(durable.attempts[t][n])
                      /\ durable.status = "succeeded" =>
                           \E n \in DOMAIN durable.attempts[t] :
                             durable.attempts[t][n].status = "completed"
    BY DEF EndIsHonest
  <2>1. Settled(durable) /\ (durable.status = "succeeded" => Done(durable))
    BY <1>1 DEF Obedient, Obeys
  <2>2. durable \in Snapshot
    BY <1>1 DEF IInv, TypeOK, Ended, Absent, TerminalExecution
  <2>3. durable.attempts[t] \in Lists
    BY <2>2, SnapshotFields
  <2>4. DOMAIN durable.attempts[t] = 1..Len(durable.attempts[t])
    BY <2>3, LenProperties DEF Lists
  <2> QED
    BY <2>1, <2>4 DEF Settled, SettledList, Done, DoneList
<1> QED
  BY <1>1, WorkflowInvariant, AlwaysObedient, PTL

(* KeepsLifecycle: what a watcher of such an execution sees, in memory and *)
(* after a restart, is a behaviour of ExecutionLifecycle if the clock never *)
(* steps back: queued first, legal moves only, and nothing after the end.  *)
THEOREM WorkflowImplementsLifecycle == Spec => KeepsLifecycle
<1> DEFINE seen == IF Orderly /\ Steady THEN Watched ELSE Absent
<1>a. Lifecycle!Absent = Absent /\ Lifecycle!Queued = Queued
  BY DEF Lifecycle!Absent, Absent, Lifecycle!Queued, Queued, Lifecycle!Unattempted,
         Unattempted
<1>b. \A s, r : /\ Lifecycle!Ended(s) <=> Ended(s)
                /\ Lifecycle!Legal(s, r) <=> Legal(s, r)
  BY DEF Lifecycle!Ended, Ended, Lifecycle!Legal, Legal, Lifecycle!ListMoves, ListMoves,
         Lifecycle!AttemptMoves, AttemptMoves, Lifecycle!AttemptTransitions,
         AttemptTransitions, Lifecycle!AttemptStatus, AttemptStatus,
         Lifecycle!TerminalAttempt, TerminalAttempt, Lifecycle!ExecutionTransitions,
         ExecutionTransitions, Lifecycle!ExecutionStatus, ExecutionStatus,
         Lifecycle!TerminalExecution, TerminalExecution
<1>1. ASSUME Init PROVE Lifecycle!Init
  <2>1. Watched = Absent
    BY <1>1 DEF Init, Watched, Restarted
  <2> QED
    BY <1>a, <2>1 DEF Lifecycle!Init
<1>2. ASSUME IInv, Obedient, [Next]_vars PROVE [Lifecycle!Next]_seen
  <2>1. Orderly' <=> Orderly
    BY <1>2, SameEngine
  <2>2. CASE ~(Orderly /\ Steady)
    <3>1. seen' = seen
      BY <1>2, <2>1, <2>2, SameEngine
    <3> QED
      BY <3>1
  <2>3. CASE Orderly /\ Steady
    <3>1. WatchedStep
      BY <1>2, <2>3, StepObeys DEF Obedient
    <3>2. seen = Watched /\ seen' = Watched'
      BY <1>2, <2>1, <2>3, SameEngine
    <3>3. CASE Watched = Absent /\ Watched' = Queued
      <4>1. Lifecycle!Prepare
        BY <1>a, <3>2, <3>3 DEF Lifecycle!Prepare
      <4> QED
        BY <4>1 DEF Lifecycle!Next
    <3>4. CASE Watched # Absent /\ ~Ended(Watched) /\ Legal(Watched, Watched')
      <4>1. Lifecycle!Advance
        BY <1>a, <1>b, <3>2, <3>4 DEF Lifecycle!Advance
      <4> QED
        BY <4>1 DEF Lifecycle!Next
    <3> QED
      BY <2>3, <3>1, <3>2, <3>3, <3>4 DEF WatchedStep
  <2> QED
    BY <2>2, <2>3
<1>3. Spec => []IInv /\ []Obedient
  BY WorkflowInvariant, AlwaysObedient
<1> QED
  BY <1>1, <1>2, <1>3, PTL DEF Spec, KeepsLifecycle, Lifecycle!Spec
=============================================================================
