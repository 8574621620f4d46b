--------------------------- MODULE RunReportProofs ---------------------------
(***************************************************************************)
(* What may be concluded from the record of a run, for every plan, host    *)
(* and schedule of the Agents, wherever the host stops: what the view      *)
(* shows, what the report says, what a repair reuses, and what the exports *)
(* tell.                                                                   *)
(*                                                                         *)
(* All of it follows from two invariants of PlanRunProofs, Recording and   *)
(* Scheduling, and from what preflight decided (Decided): what a good      *)
(* record says is enough, and no step of the run is looked at again.       *)
(***************************************************************************)
EXTENDS PlanRunProofs

-----------------------------------------------------------------------------
(* What the view shows of a record.                                        *)

(* Every event up to the cursor is seen. *)
LEMMA AllIsSeen ==
  ASSUME NEW p, NEW record, NEW whole, RecordIsGood(p, record, whole),
         NEW cursor \in 0..Len(record.trail)
  PROVE  Seen(record.held, record.trail, cursor) = 1..cursor
<1>1. Len(record.trail) \in Nat
  BY DEF RecordIsGood
<1>2. \A n \in 1..Len(record.trail) :
        record.trail[n].task # NoTask => Bound(record.held, record.trail[n].task)
  BY DEF RecordIsGood, IsPast
<1> QED
  BY <1>1, <1>2 DEF Seen

LEMMA OneAttempt ==
  ASSUME NEW held \in HeldSet, NEW t \in Tasks, Bound(held, t)
  PROVE  Len(held.snapshot.attempts[t]) = 1
<1>1. held.snapshot.attempts[t] \in AttemptLists /\ held.snapshot.attempts[t] # <<>>
  BY HeldFields DEF Bound
<1>2. PICK a \in AttemptSet : held.snapshot.attempts[t] = <<a>>
  BY <1>1 DEF AttemptLists
<1> QED
  BY <1>2

(* The Agent of an attempt whose event is in the trail. *)
LEMMA PublishedAgent ==
  ASSUME NEW p, NEW record, NEW whole, RecordIsGood(p, record, whole), NEW t \in Tasks,
         NEW n \in 1..Len(record.trail), record.trail[n].kind = "published",
         record.trail[n].task = t
  PROVE  /\ Published(record.held, t)
         /\ record.held.snapshot.attempts[t][Len(record.held.snapshot.attempts[t])].agent = AgentOf(t)
<1>1. t # NoTask /\ IsPast(record.held, record.trail[n]) /\ record.held \in HeldSet
  BY NoTaskIsNone DEF RecordIsGood, HeldIsGood
<1>2. Published(record.held, t) /\ Bound(record.held, t)
  BY <1>1 DEF IsPast
<1>3. Len(record.held.snapshot.attempts[t]) = 1
  BY <1>1, <1>2, OneAttempt
<1> QED
  BY <1>2, <1>3 DEF Published

LEMMA LastOfSome ==
  ASSUME NEW N \in Nat, NEW S, S \subseteq 1..N, S # {}
  PROVE  Max(S) \in S /\ \A n \in S : n <= Max(S)
<1> DEFINE T == {N - n : n \in S}
<1>1. T \subseteq Nat /\ T # {} /\ S \subseteq Nat
  <2>1. \A n \in S : n \in Nat /\ N - n \in Nat
    OBVIOUS
  <2>2. \A m \in T : \E n \in S : m = N - n
    OBVIOUS
  <2>3. T \subseteq Nat
    BY <2>1, <2>2
  <2>4. PICK n \in S : TRUE
    OBVIOUS
  <2>5. N - n \in T
    OBVIOUS
  <2> QED
    BY <2>1, <2>3, <2>5
<1>2. PICK k \in T : \A m \in T : k <= m
  <2> HIDE DEF T
  <2> QED
    BY <1>1, LeastNumber
<1>3. PICK x \in S : k = N - x
  OBVIOUS
<1>4. \A y \in S : x >= y
  <2> SUFFICES ASSUME NEW y \in S
               PROVE  x >= y
    OBVIOUS
  <2>1. N - y \in T
    OBVIOUS
  <2>2. k <= N - y /\ x \in Nat /\ y \in Nat
    BY <1>1, <1>2, <2>1
  <2> QED
    BY <1>3, <2>2
<1>5. Max(S) \in S /\ \A y \in S : Max(S) >= y
  BY <1>4 DEF Max
<1> QED
  BY <1>5

LEMMA FirstOfSome ==
  ASSUME NEW N \in Nat, NEW S, S \subseteq 1..N, S # {}
  PROVE  Min(S) \in S /\ \A n \in S : Min(S) <= n
<1>1. S \subseteq Nat
  OBVIOUS
<1>2. PICK x \in S : \A y \in S : x <= y
  BY <1>1, LeastNumber
<1> QED
  BY <1>2 DEF Min

LEMMA ViewStays ==
  ASSUME NEW p, NEW q, NEW a, NEW b, NEW v, NEW w, RecordIsGood(p, a, v), RecordIsGood(q, b, w),
         Extends(a, b), NEW cursor \in 0..Len(a.trail)
  PROVE  View(b.held, b.trail, cursor) = View(a.held, a.trail, cursor)
<1> DEFINE seen == 1..cursor
<1>1. /\ Len(a.trail) \in Nat /\ Len(b.trail) \in Nat /\ Len(a.trail) <= Len(b.trail)
      /\ cursor \in 0..Len(b.trail) /\ cursor \in Nat
      /\ \A n \in seen : b.trail[n] = a.trail[n] /\ n \in 1..Len(a.trail) /\ n \in 1..Len(b.trail)
  BY DEF RecordIsGood, Extends
<1>2. Seen(a.held, a.trail, cursor) = seen /\ Seen(b.held, b.trail, cursor) = seen
  BY <1>1, AllIsSeen
<1> HIDE DEF seen
<1>3. \A kind, t : OfKind(b.trail, seen, kind, t) = OfKind(a.trail, seen, kind, t)
  BY <1>1 DEF OfKind
<1>4. \A kind, t : \A n \in OfKind(a.trail, seen, kind, t) : b.trail[n] = a.trail[n]
  BY <1>1 DEF OfKind
<1>5. \A kind, t : OfKind(a.trail, seen, kind, t) # {} =>
        Max(OfKind(a.trail, seen, kind, t)) \in OfKind(a.trail, seen, kind, t)
  <2> SUFFICES ASSUME NEW kind, NEW t, OfKind(a.trail, seen, kind, t) # {}
               PROVE  Max(OfKind(a.trail, seen, kind, t)) \in OfKind(a.trail, seen, kind, t)
    OBVIOUS
  <2> DEFINE S == OfKind(a.trail, seen, kind, t)
  <2>1. S \subseteq 1..cursor /\ S # {}
    BY DEF OfKind, seen
  <2> HIDE DEF S
  <2>2. Max(S) \in S
    BY <1>1, <2>1, LastOfSome
  <2> QED
    BY <2>2 DEF S
<1>6. \A t : {n \in seen : b.trail[n].task = t} = {n \in seen : a.trail[n].task = t}
  BY <1>1
<1>7. ASSUME NEW t \in Tasks
      PROVE  ViewedTimes(b.trail, seen, t) = ViewedTimes(a.trail, seen, t)
  <2>1. CASE OfKind(a.trail, seen, "attempt", t) = {}
    BY <1>3, <2>1 DEF ViewedTimes
  <2>2. CASE OfKind(a.trail, seen, "attempt", t) # {}
    <3> DEFINE S == {n \in seen : a.trail[n].task = t}
    <3>1. S \subseteq 1..cursor /\ S # {} /\ S \subseteq seen
      BY <2>2 DEF OfKind, seen
    <3> HIDE DEF S
    <3>2. Min(S) \in seen
      BY <1>1, <3>1, FirstOfSome
    <3>3. b.trail[Min(S)] = a.trail[Min(S)]
      BY <1>1, <3>2
    <3>4. b.trail[Max(OfKind(a.trail, seen, "attempt", t))] =
            a.trail[Max(OfKind(a.trail, seen, "attempt", t))]
      BY <1>4, <1>5, <2>2
    <3>5. S = {n \in seen : a.trail[n].task = t} /\ S = {n \in seen : b.trail[n].task = t}
      BY <1>6 DEF S
    <3> QED
      BY <1>3, <3>3, <3>4, <3>5 DEF ViewedTimes
  <2> QED
    BY <2>1, <2>2
<1>8. ASSUME NEW t \in Tasks
      PROVE  ViewedList(b.held, b.trail, seen, t) = ViewedList(a.held, a.trail, seen, t)
  <2>1. CASE OfKind(a.trail, seen, "attempt", t) = {}
    BY <1>3, <2>1 DEF ViewedList
  <2>2. CASE OfKind(a.trail, seen, "attempt", t) # {}
    <3>1. b.trail[Max(OfKind(a.trail, seen, "attempt", t))] =
            a.trail[Max(OfKind(a.trail, seen, "attempt", t))]
      BY <1>4, <1>5, <2>2
    <3>2. CASE OfKind(a.trail, seen, "published", t) = {}
      BY <1>3, <3>1, <3>2 DEF ViewedList
    <3>3. CASE OfKind(a.trail, seen, "published", t) # {}
      <4>1. PICK n \in seen : a.trail[n].kind = "published" /\ a.trail[n].task = t
        BY <3>3 DEF OfKind
      <4>2. b.trail[n].kind = "published" /\ b.trail[n].task = t
            /\ n \in 1..Len(a.trail) /\ n \in 1..Len(b.trail)
        BY <1>1, <4>1
      <4>3. a.held.snapshot.attempts[t][Len(a.held.snapshot.attempts[t])].agent = AgentOf(t)
        BY <4>1, <4>2, PublishedAgent
      <4>4. b.held.snapshot.attempts[t][Len(b.held.snapshot.attempts[t])].agent = AgentOf(t)
        BY <4>2, PublishedAgent
      <4> QED
        BY <1>3, <3>1, <4>3, <4>4 DEF ViewedList
    <3> QED
      BY <3>2, <3>3
  <2> QED
    BY <2>1, <2>2
<1> DEFINE statuses == OfKind(a.trail, seen, "execution", NoTask)
<1>9. /\ OfKind(b.trail, seen, "execution", NoTask) = statuses
      /\ \A n \in statuses : b.trail[n] = a.trail[n]
      /\ statuses # {} => b.trail[Max(statuses)] = a.trail[Max(statuses)]
  BY <1>3, <1>4, <1>5
<1>10. (\E n \in statuses : b.trail[n].status = "stopping") =
         (\E n \in statuses : a.trail[n].status = "stopping")
  BY <1>9
<1>11. statuses = OfKind(a.trail, seen, "execution", NoTask)
  OBVIOUS
<1> HIDE DEF statuses
<1>12. CASE statuses = {}
  BY <1>2, <1>9, <1>11, <1>12 DEF View
<1>13. CASE statuses # {}
  <2>1. [t \in Tasks |-> ViewedList(b.held, b.trail, seen, t)] =
          [t \in Tasks |-> ViewedList(a.held, a.trail, seen, t)]
    BY <1>8
  <2>2. /\ [t \in Tasks |-> ViewedTimes(b.trail, seen, t).began] =
             [t \in Tasks |-> ViewedTimes(a.trail, seen, t).began]
        /\ [t \in Tasks |-> ViewedTimes(b.trail, seen, t).ended] =
             [t \in Tasks |-> ViewedTimes(a.trail, seen, t).ended]
    BY <1>7
  <2>3. View(b.held, b.trail, cursor) =
          [snapshot |-> [status |-> b.trail[Max(statuses)].status,
                         cancelling |-> \E n \in statuses : b.trail[n].status = "stopping",
                         attempts |-> [t \in Tasks |-> ViewedList(b.held, b.trail, seen, t)]],
           began |-> [t \in Tasks |-> ViewedTimes(b.trail, seen, t).began],
           ended |-> [t \in Tasks |-> ViewedTimes(b.trail, seen, t).ended]]
    BY <1>2, <1>9, <1>13 DEF View
  <2>4. View(a.held, a.trail, cursor) =
          [snapshot |-> [status |-> a.trail[Max(statuses)].status,
                         cancelling |-> \E n \in statuses : a.trail[n].status = "stopping",
                         attempts |-> [t \in Tasks |-> ViewedList(a.held, a.trail, seen, t)]],
           began |-> [t \in Tasks |-> ViewedTimes(a.trail, seen, t).began],
           ended |-> [t \in Tasks |-> ViewedTimes(a.trail, seen, t).ended]]
    BY <1>2, <1>11, <1>13 DEF View
  <2>5. b.trail[Max(statuses)].status = a.trail[Max(statuses)].status
    BY <1>9, <1>13
  <2> QED
    BY <1>10, <2>1, <2>2, <2>3, <2>4, <2>5
<1> QED
  BY <1>12, <1>13

(* Whatever a step writes, what the record shows of a cursor it had reached *)
(* stays as it was.                                                         *)
LEMMA ShownStays ==
  ASSUME Recording, Scheduling, [Next]_vars
  PROVE  \A cursor \in 0..Len(store.trail) :
           View(store'.held, store'.trail, cursor) = View(store.held, store.trail, cursor)
<1>1. RecordIsGood(plan, store, observed)
  BY DEF Recording
<1>2. RecordIsGood(plan', store', observed') /\ Extends(store, store')
  BY RecordingSteps DEF RecordIsKept, Recording
<1> QED
  BY <1>1, <1>2, ViewStays

(* Whatever is written after a cursor, and however often the host stops    *)
(* and repairs its record: what the view shows of the cursor stays the     *)
(* same (projectExecutionAtCursor in temporal-execution.ts, over the       *)
(* events and snapshots index.ts appends).                                 *)
THEOREM PastIsKept == Spec => ViewKeepsItsPast
<1>1. Scheduling /\ Recording /\ [Next]_vars =>
        [\A cursor \in 0..Len(store.trail) :
           View(store'.held, store'.trail, cursor) = View(store.held, store.trail, cursor)]_vars
  BY ShownStays
<1> QED
  BY <1>1, AlwaysRecording, PTL DEF Spec, ViewKeepsItsPast

-----------------------------------------------------------------------------
(* The record tells the run.                                               *)

(* What is read back is what was held, up to the Agents. *)
SameRun(held, shown, whole) ==
  /\ shown.snapshot.status = held.snapshot.status
  /\ shown.snapshot.cancelling = held.snapshot.cancelling
  /\ \A t \in Tasks : StatusOf(shown, t) = StatusOf(held, t) /\ (Bound(shown, t) <=> Bound(held, t))
  /\ whole => shown.began = held.began /\ shown.ended = held.ended

LEMMA AbsentIsNothing ==
  ASSUME NEW p, NEW record, NEW whole, RecordIsGood(p, record, whole),
         record.held.snapshot.status = "absent"
  PROVE  /\ View(record.held, record.trail, Len(record.trail)) = Nothing
         /\ SameRun(record.held, Nothing, whole)
<1> DEFINE N == Len(record.trail)
           held == record.held
<1>1. N \in Nat /\ N \in 0..N
  BY DEF RecordIsGood
<1>2. Seen(held, record.trail, N) = 1..N
  BY <1>1, AllIsSeen
<1>3. ASSUME NEW n \in 1..N
      PROVE  record.trail[n].kind # "execution"
  <2>1. IsPast(held, record.trail[n])
    BY DEF RecordIsGood
  <2>2. ~(ExecutionRank(record.trail[n].status) < 0)
        \/ record.trail[n].status \notin ExecutionStatus
    BY ExecutionRankFacts
  <2> QED
    BY <2>1, <2>2, ExecutionRankFacts DEF IsPast
<1>4. OfKind(record.trail, 1..N, "execution", NoTask) = {}
  BY <1>3 DEF OfKind
<1>5. View(held, record.trail, N) = Nothing
  BY <1>2, <1>4 DEF View
<1>6. held \in HeldSet /\ HeldIsTimed(held, N) /\ HeldIsSound(held)
  BY DEF RecordIsGood, HeldIsGood
<1>7. ~held.snapshot.cancelling /\ \A t \in Tasks : ~Bound(held, t)
  BY <1>6 DEF HeldIsSound
<1>8. held.snapshot.cancelling = FALSE
  BY <1>6, <1>7 DEF HeldSet, SnapshotSet
<1>9. Nothing.snapshot = Absent /\ Absent.status = "absent" /\ Absent.cancelling = FALSE
      /\ Nothing.began = Untimed /\ Nothing.ended = Untimed
  BY DEF Nothing, Absent
<1>10. ASSUME NEW t \in Tasks
       PROVE  /\ StatusOf(held, t) = "none" /\ ~Bound(held, t)
              /\ StatusOf(Nothing, t) = "none" /\ ~Bound(Nothing, t)
              /\ held.began[t] = Unset /\ held.ended[t] = Unset
  <2>1. StatusOf(held, t) = "none" /\ ~Bound(held, t)
    BY <1>6, <1>7, HeldFacts
  <2>2. ~Over(held, t)
    BY <2>1 DEF Over, TerminalAttempt
  <2>3. held.began[t] = Unset /\ held.ended[t] = Unset
    BY <1>6, <2>1, <2>2 DEF HeldIsTimed
  <2> QED
    BY <2>1, <2>3, NothingFacts
<1>11. held.began = Untimed /\ held.ended = Untimed
  <2>1. held.began \in [Tasks -> Int] /\ held.ended \in [Tasks -> Int]
    BY <1>6 DEF HeldSet
  <2>2. held.began = [t \in Tasks |-> held.began[t]] /\ held.ended = [t \in Tasks |-> held.ended[t]]
    BY <2>1
  <2> QED
    BY <1>10, <2>2 DEF Untimed
<1> QED
  BY <1>5, <1>8, <1>9, <1>10, <1>11 DEF SameRun

(* The last event of a kind tells how the execution stands. *)
LEMMA LastStatus ==
  ASSUME NEW p, NEW record, NEW whole, RecordIsGood(p, record, whole),
         Told(record.trail, "execution", NoTask, record.held.snapshot.status)
  PROVE  LET seen == 1..Len(record.trail)
             statuses == OfKind(record.trail, seen, "execution", NoTask)
         IN  /\ statuses # {}
             /\ record.trail[Max(statuses)].status = record.held.snapshot.status
             /\ (\E n \in statuses : record.trail[n].status = "stopping")
                  <=> record.held.snapshot.cancelling
<1> DEFINE N == Len(record.trail)
           held == record.held
           statuses == OfKind(record.trail, 1..N, "execution", NoTask)
           last == Max(statuses)
<1>1. N \in Nat
  BY DEF RecordIsGood
<1>2. PICK n \in 1..N : /\ record.trail[n].kind = "execution" /\ record.trail[n].task = NoTask
                        /\ record.trail[n].status = held.snapshot.status
  BY DEF Told
<1>3. /\ \A m \in statuses : m \in 1..N /\ record.trail[m].kind = "execution"
                             /\ record.trail[m].task = NoTask
      /\ n \in statuses /\ statuses \subseteq 1..N
  BY <1>2 DEF OfKind
<1>4. \A m \in 1..N : record.trail[m].kind = "execution" /\ record.trail[m].task = NoTask
        => m \in statuses
  BY DEF OfKind
<1> HIDE DEF statuses
<1>5. last \in statuses /\ n <= last
  BY <1>1, <1>3, LastOfSome
<1> HIDE DEF last
<1>6. \A m \in statuses : IsPast(held, record.trail[m])
  BY <1>3 DEF RecordIsGood
<1>7. /\ \/ record.trail[last].status = held.snapshot.status
         \/ ExecutionRank(record.trail[last].status) < ExecutionRank(held.snapshot.status)
      /\ record.trail[last].status \in ExecutionStatus /\ held.snapshot.status \in ExecutionStatus
  BY <1>2, <1>3, <1>5, <1>6 DEF IsPast
<1>8. record.trail[last].status = held.snapshot.status
  <2>1. CASE n = last
    BY <1>2, <2>1
  <2>2. CASE n < last
    <3>1. ComesBefore(record.trail[n], record.trail[last])
      BY <1>1, <1>3, <1>5, <2>2 DEF RecordIsGood, InOrder
    <3>2. ExecutionRank(held.snapshot.status) < ExecutionRank(record.trail[last].status)
      BY <1>2, <1>3, <1>5, <3>1 DEF ComesBefore
    <3>3. ExecutionRank(held.snapshot.status) \in Int
          /\ ExecutionRank(record.trail[last].status) \in Int
      BY <1>7, ExecutionRankFacts
    <3> QED
      BY <1>7, <3>2, <3>3
  <2> QED
    BY <1>1, <1>3, <1>5, <2>1, <2>2
<1>9. ASSUME held.snapshot.cancelling
      PROVE  \E m \in statuses : record.trail[m].status = "stopping"
  <2>1. \/ held.snapshot.status = "stopping"
        \/ Told(record.trail, "execution", NoTask, "stopping")
    BY <1>9 DEF RecordIsGood
  <2>2. CASE held.snapshot.status = "stopping"
    BY <1>2, <1>3, <2>2
  <2>3. CASE Told(record.trail, "execution", NoTask, "stopping")
    BY <1>4, <2>3 DEF Told
  <2> QED
    BY <2>1, <2>2, <2>3
<1>10. ASSUME NEW m \in statuses, record.trail[m].status = "stopping"
       PROVE  held.snapshot.cancelling
  BY <1>3, <1>6, <1>10 DEF IsPast
<1>11. statuses # {}
  BY <1>3
<1> QED
  BY <1>8, <1>9, <1>10, <1>11 DEF statuses, last

LEMMA LastAttempt ==
  ASSUME NEW p, NEW record, NEW whole, RecordIsGood(p, record, whole), NEW t \in Tasks,
         Told(record.trail, "attempt", t, StatusOf(record.held, t))
  PROVE  LET seen == 1..Len(record.trail)
             statuses == OfKind(record.trail, seen, "attempt", t)
         IN  /\ statuses # {} /\ Max(statuses) \in statuses
             /\ record.trail[Max(statuses)].status = StatusOf(record.held, t)
             /\ StatusOf(record.held, t) \in TerminalAttempt =>
                  record.trail[Max(statuses)].at = record.held.ended[t]
<1> DEFINE N == Len(record.trail)
           held == record.held
           statuses == OfKind(record.trail, 1..N, "attempt", t)
           last == Max(statuses)
<1>1. N \in Nat
  BY DEF RecordIsGood
<1>2. PICK n \in 1..N : /\ record.trail[n].kind = "attempt" /\ record.trail[n].task = t
                        /\ record.trail[n].status = StatusOf(held, t)
  BY DEF Told
<1>3. /\ \A m \in statuses : m \in 1..N /\ record.trail[m].kind = "attempt"
                             /\ record.trail[m].task = t
      /\ n \in statuses /\ statuses \subseteq 1..N
  BY <1>2 DEF OfKind
<1> HIDE DEF statuses
<1>4. last \in statuses /\ n <= last
  BY <1>1, <1>3, LastOfSome
<1> HIDE DEF last
<1>5. \A m \in statuses : IsPast(held, record.trail[m])
  BY <1>3 DEF RecordIsGood
<1>6. /\ \/ record.trail[last].status = StatusOf(held, t)
         \/ Rank(record.trail[last].status) < Rank(StatusOf(held, t))
      /\ record.trail[last].status \in Reached /\ StatusOf(held, t) \in Reached
      /\ record.trail[last].status \in TerminalAttempt => record.trail[last].at = held.ended[t]
  BY <1>2, <1>3, <1>4, <1>5 DEF IsPast
<1>7. record.trail[last].status = StatusOf(held, t)
  <2>1. CASE n = last
    BY <1>2, <2>1
  <2>2. CASE n < last
    <3>1. ComesBefore(record.trail[n], record.trail[last])
      BY <1>1, <1>3, <1>4, <2>2 DEF RecordIsGood, InOrder
    <3>2. Rank(StatusOf(held, t)) < Rank(record.trail[last].status)
      BY <1>2, <1>3, <1>4, <3>1 DEF ComesBefore
    <3>3. Rank(StatusOf(held, t)) \in Int /\ Rank(record.trail[last].status) \in Int
      BY <1>6, RankFacts
    <3> QED
      BY <1>6, <3>2, <3>3
  <2> QED
    BY <1>1, <1>3, <1>4, <2>1, <2>2
<1>8. statuses # {}
  BY <1>3
<1> QED
  BY <1>4, <1>6, <1>7, <1>8 DEF statuses, last

LEMMA ShownAttempt ==
  ASSUME NEW p, NEW record, NEW whole, RecordIsGood(p, record, whole), IsTold(record),
         NEW t \in Tasks
  PROVE  LET seen == 1..Len(record.trail)
             list == ViewedList(record.held, record.trail, seen, t)
             times == ViewedTimes(record.trail, seen, t)
         IN  /\ list # <<>> <=> Bound(record.held, t)
             /\ (IF list = <<>> THEN "none" ELSE list[Len(list)].status) = StatusOf(record.held, t)
             /\ times.ended = record.held.ended[t]
             /\ whole => times.began = record.held.began[t]
<1> DEFINE N == Len(record.trail)
           held == record.held
           statuses == OfKind(record.trail, 1..N, "attempt", t)
           list == ViewedList(held, record.trail, 1..N, t)
           times == ViewedTimes(record.trail, 1..N, t)
<1>1. N \in Nat /\ held \in HeldSet /\ HeldIsTimed(held, N) /\ t # NoTask
  BY NoTaskIsNone DEF RecordIsGood, HeldIsGood
<1>2. CASE ~Bound(held, t)
  <2>1. StatusOf(held, t) = "none"
    BY <1>1, <1>2, HeldFacts
  <2>2. \A n \in 1..N : record.trail[n].task # t
    BY <1>1, <1>2 DEF RecordIsGood, IsPast
  <2>3. statuses = {}
    BY <2>2 DEF OfKind
  <2>4. ~Over(held, t)
    BY <2>1 DEF Over, TerminalAttempt
  <2>5. held.began[t] = Unset /\ held.ended[t] = Unset
    BY <1>1, <1>2, <2>4 DEF HeldIsTimed
  <2>6. list = <<>> /\ times.began = Unset /\ times.ended = Unset
    BY <2>3 DEF ViewedList, ViewedTimes
  <2> QED
    BY <1>2, <2>1, <2>5, <2>6
<1>3. CASE Bound(held, t)
  <2>1. Told(record.trail, "attempt", t, StatusOf(held, t))
    BY <1>3 DEF IsTold
  <2>2. /\ statuses # {} /\ Max(statuses) \in statuses
        /\ record.trail[Max(statuses)].status = StatusOf(held, t)
        /\ StatusOf(held, t) \in TerminalAttempt => record.trail[Max(statuses)].at = held.ended[t]
    BY <2>1, LastAttempt
  <2>3. \A n \in statuses : n \in 1..N /\ record.trail[n].task = t
    BY DEF OfKind
  <2>4. PICK agent : list = <<[agent |-> agent, status |-> record.trail[Max(statuses)].status]>>
    BY <2>2 DEF ViewedList
  <2> DEFINE S == {n \in 1..N : record.trail[n].task = t}
  <2>5. /\ times.began = record.trail[Min(S)].at
        /\ times.ended = IF record.trail[Max(statuses)].status \in TerminalAttempt
                         THEN record.trail[Max(statuses)].at ELSE Unset
    BY <2>2 DEF ViewedTimes
  <2>6. S \subseteq 1..N /\ Max(statuses) \in S
    BY <2>2, <2>3
  <2>7. \A n \in 1..N : record.trail[n].task = t => n \in S
    OBVIOUS
  <2>8. \A n \in S : record.trail[n].task = t
    OBVIOUS
  <2> HIDE DEF statuses, list, times, S
  <2>9. Min(S) \in S /\ \A n \in S : Min(S) <= n
    BY <1>1, <2>6, FirstOfSome
  <2>10. ASSUME whole
         PROVE  record.trail[Min(S)].at = held.began[t]
    <3>1. StartsAt(record.trail, t, held.began[t])
      BY <2>10 DEF RecordIsGood, TrailIsWhole
    <3>2. Min(S) \in 1..N /\ record.trail[Min(S)].task = t
      BY <2>6, <2>8, <2>9
    <3>3. \A m \in 1..(Min(S) - 1) : record.trail[m].task # t
      <4> SUFFICES ASSUME NEW m \in 1..(Min(S) - 1), record.trail[m].task = t
                   PROVE  FALSE
        OBVIOUS
      <4>1. m \in 1..N /\ m < Min(S)
        BY <1>1, <3>2
      <4>2. Min(S) <= m
        BY <2>7, <2>9, <4>1
      <4> QED
        BY <3>2, <4>1, <4>2
    <3> QED
      BY <3>1, <3>2, <3>3 DEF StartsAt
  <2>11. times.ended = held.ended[t]
    <3>1. CASE StatusOf(held, t) \in TerminalAttempt
      BY <2>2, <2>5, <3>1
    <3>2. CASE StatusOf(held, t) \notin TerminalAttempt
      BY <1>1, <2>2, <2>5, <3>2 DEF HeldIsTimed, Over
    <3> QED
      BY <3>1, <3>2
  <2>12. list # <<>> /\ list[Len(list)].status = StatusOf(held, t)
    BY <2>2, <2>4
  <2> QED
    BY <1>3, <2>5, <2>10, <2>11, <2>12 DEF list, times
<1> QED
  BY <1>2, <1>3

LEMMA TellsTheRun ==
  ASSUME NEW p, NEW record, NEW whole, RecordIsGood(p, record, whole), IsTold(record)
  PROVE  SameRun(record.held, View(record.held, record.trail, Len(record.trail)), whole)
<1> DEFINE N == Len(record.trail)
           held == record.held
           seen == 1..N
           statuses == OfKind(record.trail, seen, "execution", NoTask)
           shown == View(held, record.trail, N)
<1>1. N \in Nat /\ N \in 0..N /\ held \in HeldSet
  BY DEF RecordIsGood, HeldIsGood
<1>2. Seen(held, record.trail, N) = seen
  BY <1>1, AllIsSeen
<1>3. CASE held.snapshot.status = "absent"
  BY <1>3, AbsentIsNothing
<1>4. CASE held.snapshot.status # "absent"
  <2>1. Told(record.trail, "execution", NoTask, held.snapshot.status)
    BY <1>4 DEF IsTold
  <2>2. /\ statuses # {}
        /\ record.trail[Max(statuses)].status = held.snapshot.status
        /\ (\E n \in statuses : record.trail[n].status = "stopping") <=> held.snapshot.cancelling
    BY <2>1, LastStatus
  <2> DEFINE stopping == \E n \in statuses : record.trail[n].status = "stopping"
             lists == [t \in Tasks |-> ViewedList(held, record.trail, seen, t)]
             began == [t \in Tasks |-> ViewedTimes(record.trail, seen, t).began]
             ended == [t \in Tasks |-> ViewedTimes(record.trail, seen, t).ended]
  <2>3. shown = [snapshot |-> [status |-> record.trail[Max(statuses)].status,
                               cancelling |-> stopping, attempts |-> lists],
                 began |-> began, ended |-> ended]
    BY <1>2, <2>2 DEF View
  <2>4. ASSUME NEW t \in Tasks
        PROVE  /\ lists[t] # <<>> <=> Bound(held, t)
               /\ (IF lists[t] = <<>> THEN "none" ELSE lists[t][Len(lists[t])].status)
                    = StatusOf(held, t)
               /\ ended[t] = held.ended[t]
               /\ whole => began[t] = held.began[t]
    BY ShownAttempt
  <2>5. stopping = held.snapshot.cancelling
    <3>1. held.snapshot.cancelling \in BOOLEAN
      BY <1>1 DEF HeldSet, SnapshotSet
    <3> HIDE DEF statuses
    <3> QED
      BY <2>2, <3>1
  <2>6. held.began = [t \in Tasks |-> held.began[t]] /\ held.ended = [t \in Tasks |-> held.ended[t]]
    BY <1>1 DEF HeldSet
  <2>7. began = [t \in Tasks |-> began[t]] /\ ended = [t \in Tasks |-> ended[t]]
    OBVIOUS
  <2> HIDE DEF statuses, lists, began, ended, stopping, shown
  <2>8. ended = held.ended /\ (whole => began = held.began)
    BY <2>4, <2>6, <2>7
  <2>9. /\ shown.snapshot.status = held.snapshot.status
        /\ shown.snapshot.cancelling = stopping /\ shown.snapshot.attempts = lists
        /\ shown.began = began /\ shown.ended = ended
    BY <2>2, <2>3
  <2>10. ASSUME NEW t \in Tasks
         PROVE  StatusOf(shown, t) = StatusOf(held, t) /\ (Bound(shown, t) <=> Bound(held, t))
    <3>1. StatusOf(shown, t) = IF lists[t] = <<>> THEN "none" ELSE lists[t][Len(lists[t])].status
      BY <2>9 DEF StatusOf
    <3>2. Bound(shown, t) <=> lists[t] # <<>>
      BY <2>9 DEF Bound
    <3> QED
      BY <2>4, <3>1, <3>2
  <2> QED
    BY <2>5, <2>8, <2>9, <2>10 DEF SameRun, shown
<1> QED
  BY <1>3, <1>4

LEMMA RecordedTells == Recording => RecordTellsTheRun
<1> SUFFICES ASSUME Recording, stage \in {"prepared", "running", "over", "restored"}
             PROVE  /\ SameRun(store.held, Current, observed) /\ live = store.held
  BY DEF RecordTellsTheRun, SameRun
<1>1. RecordIsGood(plan, store, observed) /\ IsTold(store) /\ live = store.held
  BY DEF Recording
<1> QED
  BY <1>1, TellsTheRun DEF Current

(* The events alone tell of the execution what its snapshot says, in every *)
(* state of a host that runs: the status, the cancel that was asked for,   *)
(* the status of each task, and the times if every Agent was observed.     *)
(* After a crash between a snapshot and its events the restart adds what   *)
(* is missing (recordExecutionTransitions, the restore loop of index.ts).  *)
THEOREM TrailTellsTheRun == Spec => []RecordTellsTheRun
<1>1. Scheduling /\ Recording => RecordTellsTheRun
  BY RecordedTells
<1> QED
  BY <1>1, AlwaysRecording, PTL

-----------------------------------------------------------------------------
(* What a repair repeats.                                                  *)

Dependents(p, s) == {t \in Tasks : Deps(Named(p.tasks, t)) \cap s # {}}

(* The steps by which what is affected is found.                           *)
Spreads(K, p, report) ==
  /\ Affected(p, report) = K[Cardinality(Tasks)]
  /\ K[0] = {f.task : f \in report.findings} \cap Tasks
  /\ \A n \in 1..Cardinality(Tasks) : K[n] = K[n - 1] \cup Dependents(p, K[n - 1])

LEMMA AffectedSteps ==
  ASSUME NEW p, NEW report
  PROVE  \E K : Spreads(K, p, report)
<1> DEFINE N == Cardinality(Tasks)
           X == SUBSET Tasks
           first == {f.task : f \in report.findings} \cap Tasks
           G == [n \in 1..N |-> [s \in X |-> s \cup Dependents(p, s)]]
           K == CHOOSE spread : spread =
                  [k \in 0..N |->
                     IF k = 0 THEN first ELSE spread[k - 1] \cup Dependents(p, spread[k - 1])]
<1>1. N \in Nat /\ first \in X /\ Affected(p, report) = K[N] /\ IsFiniteSet(Tasks)
  <2>1. Affected(p, report) = K[N]
    BY DEF Affected, Dependents
  <2> HIDE DEF K
  <2> QED
    BY <2>1, TasksFinite, FS_CardinalityType
<1>2. G \in [1..N -> [X -> X]]
  <2>1. \A s \in X : s \cup Dependents(p, s) \in X
    BY DEF Dependents
  <2> HIDE DEF N, X
  <2> QED
    BY <2>1
<1>3. PICK f : Follows(f, N, X, first, G)
  <2> HIDE DEF N, X, G, first
  <2> QED
    BY <1>1, <1>2, RecursionExists
<1>4. f = [k \in 0..N |-> IF k = 0 THEN first ELSE f[k - 1] \cup Dependents(p, f[k - 1])]
  <2>1. /\ f = [n \in 0..N |-> IF n = 0 THEN first ELSE G[n][f[n - 1]]]
        /\ \A n \in 0..N : n # 0 => n \in 1..N /\ f[n - 1] \in X
    <3> HIDE DEF N, X, G, first
    <3> QED
      BY <1>1, <1>3, FollowsBody
  <2>2. \A n \in 0..N : n # 0 => G[n][f[n - 1]] = f[n - 1] \cup Dependents(p, f[n - 1])
    <3> HIDE DEF N, X
    <3> QED
      BY <2>1
  <2> HIDE DEF N, X, G, first
  <2> QED
    BY <2>1, <2>2
<1>5. K = [k \in 0..N |-> IF k = 0 THEN first ELSE K[k - 1] \cup Dependents(p, K[k - 1])]
  <2> HIDE DEF N, G, first
  <2> QED
    BY <1>4
<1> HIDE DEF K, N, G, first
<1>6. K[0] = first /\ \A n \in 1..N : K[n] = K[n - 1] \cup Dependents(p, K[n - 1])
  <2>1. 0 \in 0..N /\ \A n \in 1..N : n \in 0..N /\ n # 0
    BY <1>1
  <2> QED
    BY <1>5, <2>1
<1> QED
  <2>1. Spreads(K, p, report)
    BY <1>1, <1>6 DEF Spreads, N, first
  <2> QED
    BY <2>1

(* Tasks and whatever depends on them, in so many steps as there are tasks: *)
(* each step adds a task or adds none for good.                             *)
LEMMA AffectedIsClosed ==
  ASSUME NEW p, NEW report
  PROVE  /\ Affected(p, report) \subseteq Tasks
         /\ {f.task : f \in report.findings} \cap Tasks \subseteq Affected(p, report)
         /\ Dependents(p, Affected(p, report)) \subseteq Affected(p, report)
<1> DEFINE N == Cardinality(Tasks)
<1>0. PICK K : Spreads(K, p, report)
  BY AffectedSteps
<1>1. /\ Affected(p, report) = K[N]
      /\ K[0] = {f.task : f \in report.findings} \cap Tasks
      /\ \A n \in 1..N : K[n] = K[n - 1] \cup Dependents(p, K[n - 1])
  BY <1>0 DEF Spreads
<1> DEFINE X == SUBSET Tasks
           first == {f.task : f \in report.findings} \cap Tasks
<1>2. N \in Nat /\ first \in X /\ IsFiniteSet(Tasks) /\ K[0] = first
  BY <1>1, TasksFinite, FS_CardinalityType
<1> HIDE DEF N, first
<1> DEFINE Shut(s) == Dependents(p, s) \subseteq s
           Good(k) == /\ K[k] \in X /\ first \subseteq K[k]
                      /\ Shut(K[k]) \/ Cardinality(K[k]) >= k
           Q == {k \in Nat : k <= N => Good(k)}
<1>3. 0 \in Q
  <2>1. IsFiniteSet(first)
    BY <1>2, FS_Subset
  <2>2. Cardinality(first) >= 0
    BY <2>1, FS_CardinalityType
  <2> QED
    BY <1>2, <2>2
<1>4. ASSUME NEW k \in Nat, k \in Q
      PROVE  k + 1 \in Q
  <2> SUFFICES ASSUME k + 1 <= N
               PROVE  Good(k + 1)
    <3> HIDE DEF Good
    <3> QED
      OBVIOUS
  <2>1. Good(k) /\ k + 1 \in 1..N /\ (k + 1) - 1 = k
    <3> HIDE DEF Good
    <3> QED
      BY <1>2, <1>4
  <2> DEFINE s == K[k]
             next == K[k + 1]
  <2>2. next = s \cup Dependents(p, s) /\ s \in X /\ first \subseteq s
        /\ (Shut(s) \/ Cardinality(s) >= k)
    BY <1>1, <2>1
  <2>3. next \in X /\ first \subseteq next
    BY <2>2 DEF Dependents
  <2> HIDE DEF s, next
  <2>4. CASE Shut(s)
    <3>1. next = s
      BY <2>2, <2>4
    <3> QED
      BY <2>3, <2>4, <3>1 DEF next
  <2>5. CASE ~Shut(s)
    <3>1. IsFiniteSet(next) /\ s \in SUBSET next /\ s # next
      BY <1>2, <2>2, <2>3, <2>5, FS_Subset
    <3>2. Cardinality(s) \in Nat /\ Cardinality(next) \in Nat /\ Cardinality(s) <= Cardinality(next)
          /\ Cardinality(s) # Cardinality(next)
      BY <3>1, FS_Subset, FS_CardinalityType
    <3>3. Cardinality(s) >= k
      BY <2>2, <2>5
    <3>4. Cardinality(next) >= k + 1
      BY <3>2, <3>3
    <3> QED
      BY <2>3, <3>4 DEF next
  <2> QED
    BY <2>4, <2>5
<1>5. \A k \in Nat : k \in Q
  <2> HIDE DEF Q
  <2> QED
    BY <1>3, <1>4, NumberInduction
<1>6. Good(N)
  <2>1. N \in Nat /\ N <= N
    BY <1>2
  <2> HIDE DEF Good
  <2> QED
    BY <1>5, <2>1
<1>7. Shut(K[N])
  <2>1. CASE Cardinality(K[N]) >= N
    <3>1. K[N] \in SUBSET Tasks /\ IsFiniteSet(Tasks) /\ IsFiniteSet(K[N])
      BY <1>2, <1>6, FS_Subset
    <3>2. Cardinality(K[N]) <= N /\ Cardinality(K[N]) \in Nat
      BY <3>1, FS_Subset, FS_CardinalityType DEF N
    <3>3. Cardinality(Tasks) = Cardinality(K[N])
      BY <1>2, <2>1, <3>2 DEF N
    <3>4. Tasks = K[N]
      BY <3>1, <3>3, FS_Subset
    <3> QED
      BY <3>4 DEF Dependents
  <2> QED
    BY <1>6, <2>1
<1> QED
  BY <1>1, <1>2, <1>6, <1>7 DEF first

-----------------------------------------------------------------------------
(* What a repair may reuse.                                                *)

(* An attempt that completed has its beginning. *)
Readable(held) ==
  \A t \in Tasks : StatusOf(held, t) = "completed" => Bound(held, t) /\ held.began[t] # Unset

LEMMA ReportFacts ==
  ASSUME NEW p, NEW held, NEW record, NEW report, report = ReportOf(p, held, record), NEW t \in Tasks
  PROVE  /\ report.findings = Findings(p, held, record)
         /\ report.tasks[t] = TaskState(held, report.findings, t)
         /\ report.evidence[t] = EvidenceStatus(p, held, record, t)
  BY Zenon DEF ReportOf

(* The findings of a task that has an attempt. *)
LEMMA TaskFindings ==
  ASSUME NEW p, NEW held, NEW record, NEW t \in Tasks, Bound(held, t)
  PROVE  /\ DependencyFindings(p, held, t) \subseteq Findings(p, held, record)
         /\ EvidenceFindings(p, held, record, t) \subseteq Findings(p, held, record)
         /\ LifecycleFindings(held, record.trail, t) \subseteq Findings(p, held, record)
<1> DEFINE all(u) == IF ~Bound(held, u)
                     THEN Found(Ended(held.snapshot), "missing-planned", "blocking", "proven", u)
                     ELSE LifecycleFindings(held, record.trail, u)
                          \cup DependencyFindings(p, held, u)
                          \cup EvidenceFindings(p, held, record, u)
<1>1. all(t) \subseteq Findings(p, held, record)
  <2>1. UNION {all(u) : u \in Tasks} \subseteq Findings(p, held, record)
    BY Zenon DEF Findings
  <2> HIDE DEF all
  <2> QED
    BY <2>1
<1>2. all(t) = LifecycleFindings(held, record.trail, t)
                 \cup DependencyFindings(p, held, t) \cup EvidenceFindings(p, held, record, t)
  OBVIOUS
<1> QED
  BY <1>1, <1>2

(* A task that completed and is in no finding: its dependencies completed, *)
(* and what its plan requires of it is there.                              *)
LEMMA NothingFound ==
  ASSUME NEW p, NEW held, NEW record, NEW t \in Tasks, Bound(held, t),
         StatusOf(held, t) = "completed", held.began[t] # Unset,
         \A f \in Findings(p, held, record) : f.task # t \/ f.severity = "info"
  PROVE  /\ \A d \in Deps(Named(p.tasks, t)) : StatusOf(held, d) = "completed"
         /\ \A v \in Required(p, t) :
              With(record, t, v, "pass") /\ ~With(record, t, v, "fail")
<1>1. \A code, severity, certainty : /\ Finding(code, severity, certainty, t).task = t
                                     /\ Finding(code, severity, certainty, t).severity = severity
  BY DEF Finding
<1>2. \A S \in SUBSET Findings(p, held, record) :
        \A code, severity, certainty :
          severity # "info" => Finding(code, severity, certainty, t) \notin S
  BY <1>1
<1>3. DependencyFindings(p, held, t) \subseteq Findings(p, held, record)
      /\ EvidenceFindings(p, held, record, t) \subseteq Findings(p, held, record)
  BY TaskFindings
<1> DEFINE disorder == /\ held.began[t] # Unset
                       /\ \E d \in Deps(Named(p.tasks, t)) :
                            ~(StatusOf(held, d) = "completed" /\ held.ended[d] # Unset
                              /\ held.ended[d] <= held.began[t])
<1>4. ~disorder
  <2>1. DependencyFindings(p, held, t) =
          Found(disorder, "order-violation", "blocking", "derived", t)
    BY DEF DependencyFindings
  <2> HIDE DEF disorder
  <2>2. disorder => Finding("order-violation", "blocking", "derived", t)
                      \in DependencyFindings(p, held, t)
    BY <2>1 DEF Found
  <2> QED
    BY <1>2, <1>3, <2>2
<1>5. ASSUME NEW v \in Required(p, t)
      PROVE  With(record, t, v, "pass") /\ ~With(record, t, v, "fail")
  <2> DEFINE fails == With(record, t, v, "fail")
             lacks == ~With(record, t, v, "fail") /\ ~With(record, t, v, "pass")
             some(w) == Found(With(record, t, w, "fail"), "verifier-failed", "blocking", "proven", t)
                        \cup Found(~With(record, t, w, "fail") /\ ~With(record, t, w, "pass"),
                                   "evidence-missing", "warning", "proven", t)
  <2>1. EvidenceFindings(p, held, record, t) = UNION {some(w) : w \in Required(p, t)}
    BY DEF EvidenceFindings
  <2>2. some(v) = Found(fails, "verifier-failed", "blocking", "proven", t)
                  \cup Found(lacks, "evidence-missing", "warning", "proven", t)
    OBVIOUS
  <2> HIDE DEF some, fails, lacks
  <2>3. some(v) \subseteq EvidenceFindings(p, held, record, t)
    BY <2>1
  <2>4. /\ fails => Finding("verifier-failed", "blocking", "proven", t) \in some(v)
        /\ lacks => Finding("evidence-missing", "warning", "proven", t) \in some(v)
    BY <2>2 DEF Found
  <2>5. ~fails /\ ~lacks
    BY <1>2, <1>3, <2>3, <2>4
  <2> QED
    BY <2>5 DEF fails, lacks
<1> QED
  BY <1>4, <1>5

LEMMA ReusedWithItsDependencies ==
  ASSUME NEW p, Planned(p), NEW held, Readable(held), NEW record,
         NEW report, report = ReportOf(p, held, record),
         NEW t \in Reusable(p, held, report, record), NEW d \in Deps(Named(p.tasks, t))
  PROVE  d \in Reusable(p, held, report, record)
<1>1. /\ t \in Tasks /\ t \notin Affected(p, report) /\ StatusOf(held, t) = "completed"
  BY DEF Reusable
<1>2. Bound(held, t) /\ held.began[t] # Unset
  BY <1>1 DEF Readable
<1>3. d \in Tasks
  BY <1>1 DEF Planned
<1>4. report.findings = Findings(p, held, record)
  BY <1>1, ReportFacts
<1>5. \A u \in Tasks : u \notin Affected(p, report) => \A f \in report.findings : f.task # u
  BY AffectedIsClosed
<1>6. d \notin Affected(p, report)
  <2>1. d \in Affected(p, report) => t \in Dependents(p, Affected(p, report))
    BY <1>1 DEF Dependents
  <2> QED
    BY <1>1, <2>1, AffectedIsClosed
<1>7. StatusOf(held, d) = "completed"
  BY <1>1, <1>2, <1>4, <1>5, NothingFound
<1>8. Bound(held, d) /\ held.began[d] # Unset
  BY <1>3, <1>7 DEF Readable
<1>9. \A v \in Required(p, d) : With(record, d, v, "pass") /\ ~With(record, d, v, "fail")
  BY <1>3, <1>4, <1>5, <1>6, <1>7, <1>8, NothingFound
<1>10. report.tasks[d] = "confirmed"
  <2>1. report.tasks[d] = TaskState(held, report.findings, d)
    BY <1>3, ReportFacts
  <2>2. ~\E f \in report.findings : f.task = d /\ f.severity # "info"
    BY <1>3, <1>5, <1>6
  <2> QED
    BY <1>7, <1>8, <2>1, <2>2 DEF TaskState
<1>11. report.evidence[d] = IF Required(p, d) = {} THEN "not-required" ELSE "verified"
  <2>1. report.evidence[d] = EvidenceStatus(p, held, record, d)
    BY <1>3, ReportFacts
  <2> QED
    BY <1>9, <2>1 DEF EvidenceStatus
<1> QED
  BY <1>3, <1>6, <1>7, <1>9, <1>10, <1>11 DEF Reusable

(* Both readings of the record are readable. *)
LEMMA HeldIsReadable ==
  ASSUME NEW p, NEW record, NEW whole, RecordIsGood(p, record, whole)
  PROVE  Readable(record.held)
<1>1. record.held \in HeldSet /\ HeldIsTimed(record.held, Len(record.trail))
  BY DEF RecordIsGood, HeldIsGood
<1> SUFFICES ASSUME NEW t \in Tasks, StatusOf(record.held, t) = "completed"
             PROVE  Bound(record.held, t) /\ record.held.began[t] # Unset
  BY DEF Readable
<1>2. Bound(record.held, t)
  BY <1>1, HeldFacts
<1>3. record.held.began[t] # Unset
  BY <1>1 DEF HeldIsTimed
<1> QED
  BY <1>2, <1>3

LEMMA ShownIsReadable ==
  ASSUME NEW p, NEW record, NEW whole, RecordIsGood(p, record, whole), IsTold(record)
  PROVE  Readable(View(record.held, record.trail, Len(record.trail)))
<1> DEFINE N == Len(record.trail)
           held == record.held
           shown == View(held, record.trail, N)
<1>1. /\ SameRun(held, shown, whole) /\ Readable(held) /\ held \in HeldSet
      /\ N \in Nat /\ N \in 0..N
  <2>1. SameRun(held, shown, whole)
    BY TellsTheRun
  <2>2. Readable(held)
    BY HeldIsReadable
  <2>3. held \in HeldSet /\ N \in Nat /\ N \in 0..N
    BY DEF RecordIsGood, HeldIsGood
  <2> QED
    BY <2>1, <2>2, <2>3
<1> SUFFICES ASSUME NEW t \in Tasks, StatusOf(shown, t) = "completed"
             PROVE  Bound(shown, t) /\ shown.began[t] # Unset
  BY DEF Readable
<1>2. StatusOf(held, t) = "completed" /\ Bound(held, t) /\ Bound(shown, t)
  <2> HIDE DEF shown
  <2> QED
    BY <1>1 DEF SameRun, Readable
<1>3. Seen(held, record.trail, N) = 1..N
  BY <1>1, AllIsSeen
<1>4. held.snapshot.status # "absent"
  BY <1>2 DEF RecordIsGood, HeldIsGood, HeldIsSound
<1>5. OfKind(record.trail, 1..N, "execution", NoTask) # {}
  <2>1. Told(record.trail, "execution", NoTask, held.snapshot.status)
    BY <1>4 DEF IsTold
  <2> QED
    BY <2>1 DEF Told, OfKind
<1>6. shown.began[t] = ViewedTimes(record.trail, 1..N, t).began
  BY <1>3, <1>5 DEF View
<1> DEFINE statuses == OfKind(record.trail, 1..N, "attempt", t)
           S == {n \in 1..N : record.trail[n].task = t}
<1>7. statuses # {}
  <2>1. Told(record.trail, "attempt", t, StatusOf(held, t))
    BY <1>2 DEF IsTold
  <2> QED
    BY <2>1 DEF Told, OfKind
<1>8. ViewedTimes(record.trail, 1..N, t).began = record.trail[Min(S)].at
  BY <1>7 DEF ViewedTimes
<1>9. S \subseteq 1..N /\ S # {}
  BY <1>7 DEF OfKind
<1>10. Min(S) \in 1..N
  <2> HIDE DEF S
  <2> QED
    BY <1>1, <1>9, FirstOfSome
<1>11. record.trail[Min(S)].at \in Nat
  <2> DEFINE n == Min(S)
  <2> HIDE DEF n
  <2>1. n \in 1..Len(record.trail)
    BY <1>10 DEF n
  <2>2. record.trail[n] \in EventSet
    BY <2>1 DEF RecordIsGood
  <2>3. record.trail[n].at \in Nat
    BY <2>2 DEF EventSet
  <2> QED
    BY <2>3 DEF n
<1>12. \A n \in Nat : n # Unset
  BY DEF Unset
<1> QED
  BY <1>2, <1>6, <1>8, <1>11, <1>12

LEMMA RecordedReuse == Scheduling /\ Recording => ReuseIsClosed
<1> SUFFICES ASSUME Scheduling, Recording, stage \in {"over", "restored"}, NEW r \in Reports,
                    NEW t \in r.proposal.reusable
             PROVE  /\ StatusOf(r.held, t) = "completed"
                    /\ \A v \in Required(plan, t) : With(store, t, v, "pass")
                    /\ Deps(Named(plan.tasks, t)) \subseteq r.proposal.reusable
                    /\ t \notin r.proposal.affected
  BY DEF ReuseIsClosed
<1>1. Planned(plan)
  BY PlannedPlan DEF Scheduling
<1>2. RecordIsGood(plan, store, observed) /\ IsTold(store)
  BY DEF Recording
<1>3. Readable(store.held) /\ Readable(Current)
  BY <1>2, HeldIsReadable, ShownIsReadable DEF Current
<1>4. PICK held \in {store.held, Current} : r = Reported(held)
  BY DEF Reports
<1> DEFINE report == ReportOf(plan, held, store)
<1>5. /\ r.held = held /\ r.proposal.affected = Affected(plan, report)
      /\ r.proposal.reusable = Reusable(plan, held, report, store)
  BY <1>4, Zenon DEF Reported, Proposal
<1>6. Readable(held)
  BY <1>3, <1>4
<1>7. t \in Reusable(plan, held, report, store)
  BY <1>5
<1> HIDE DEF report
<1>8. /\ StatusOf(held, t) = "completed" /\ t \notin Affected(plan, report)
      /\ \A v \in Required(plan, t) : With(store, t, v, "pass")
  BY <1>7 DEF Reusable
<1>9. \A d \in Deps(Named(plan.tasks, t)) : d \in Reusable(plan, held, report, store)
  BY <1>1, <1>6, <1>7, ReusedWithItsDependencies DEF report
<1> QED
  BY <1>5, <1>8, <1>9

(* What a repair proposes to reuse completed, has the receipts its plan    *)
(* requires, depends on nothing that is repeated and is not itself         *)
(* affected, for any plan and whatever was lost of the record              *)
(* (affectedClosure and buildRecoveryProposal in recovery.ts).             *)
THEOREM ReuseStandsAlone == Spec => []ReuseIsClosed
<1>1. Scheduling /\ Recording => ReuseIsClosed
  BY RecordedReuse
<1> QED
  BY <1>1, AlwaysRecording, PTL

-----------------------------------------------------------------------------
(* The report.                                                             *)

(* The state of a report, and what it takes to be confirmed. *)
LEMMA ReportState ==
  ASSUME NEW p, NEW held, NEW record, NEW report, report = ReportOf(p, held, record)
  PROVE  report.state = "confirmed" <=>
           /\ \A f \in report.findings : f.severity = "info"
           /\ \A t \in Tasks : report.tasks[t] = "confirmed"
<1> DEFINE states == [t \in Tasks |-> TaskState(held, Findings(p, held, record), t)]
           some == \/ \E f \in Findings(p, held, record) : f.severity # "info"
                   \/ \E t \in Tasks : states[t] = "deviated"
           all == \A t \in Tasks : states[t] = "confirmed"
<1>1. /\ report.findings = Findings(p, held, record) /\ report.tasks = states
      /\ report.state = IF some THEN "deviated" ELSE IF all THEN "confirmed" ELSE "unknown"
  BY Zenon DEF ReportOf
<1>2. report.state = "confirmed" <=> ~some /\ all
  <2> HIDE DEF some, all
  <2> QED
    BY <1>1
<1>3. some <=> \/ \E f \in report.findings : f.severity # "info"
               \/ \E t \in Tasks : report.tasks[t] = "deviated"
  <2> HIDE DEF states
  <2> QED
    BY <1>1
<1>4. all <=> \A t \in Tasks : report.tasks[t] = "confirmed"
  <2> HIDE DEF states
  <2> QED
    BY <1>1
<1> HIDE DEF some, all
<1> QED
  BY <1>2, <1>3, <1>4

(* An ended execution that is called confirmed completed every task. *)
LEMMA ConfirmedCompleted ==
  ASSUME NEW p, NEW held, Readable(held), NEW record, NEW report,
         report = ReportOf(p, held, record), Ended(held.snapshot), report.state = "confirmed",
         NEW t \in Tasks
  PROVE  /\ StatusOf(held, t) = "completed"
         /\ \A v \in Required(p, t) : Receipt(t, v, "pass") \in record.receipts
<1>1. /\ report.findings = Findings(p, held, record)
      /\ report.tasks[t] = TaskState(held, report.findings, t)
  BY ReportFacts
<1>2. /\ \A f \in report.findings : f.severity = "info"
      /\ report.tasks[t] = "confirmed"
  BY ReportState
<1>3. /\ Bound(held, t)
      /\ StatusOf(held, t) \notin {"unknown", "failed", "cancelled", "rejected", "skipped"}
  BY <1>1, <1>2 DEF TaskState
<1>4. Over(held, t)
  <2> DEFINE open == Ended(held.snapshot) /\ ~Over(held, t)
  <2>1. Found(open, "lifecycle-incomplete", "blocking", "proven", t)
          \subseteq LifecycleFindings(held, record.trail, t)
    BY Zenon DEF LifecycleFindings
  <2>2. LifecycleFindings(held, record.trail, t) \subseteq report.findings
    BY <1>1, <1>3, TaskFindings
  <2> HIDE DEF open
  <2>3. open => Finding("lifecycle-incomplete", "blocking", "proven", t) \in report.findings
    BY <2>1, <2>2 DEF Found
  <2>4. Finding("lifecycle-incomplete", "blocking", "proven", t).severity = "blocking"
    BY DEF Finding
  <2>5. ~open
    BY <1>2, <2>3, <2>4
  <2> QED
    BY <2>5 DEF open
<1>5. StatusOf(held, t) = "completed"
  BY <1>3, <1>4 DEF Over, TerminalAttempt
<1>6. held.began[t] # Unset
  BY <1>5 DEF Readable
<1>7. \A v \in Required(p, t) : With(record, t, v, "pass")
  BY <1>1, <1>2, <1>3, <1>5, <1>6, NothingFound
<1> QED
  BY <1>5, <1>7 DEF With

(* An execution that kept the order of its plan. *)
KeptOrder(p, held) ==
  \A t \in Tasks : Bound(held, t) =>
    \A d \in Deps(Named(p.tasks, t)) :
      StatusOf(held, d) = "completed" /\ held.ended[d] # Unset /\ held.ended[d] <= held.began[t]

LEMMA NoOrderIsBroken ==
  ASSUME NEW p, NEW held, KeptOrder(p, held), NEW t \in Tasks, Bound(held, t)
  PROVE  DependencyFindings(p, held, t) = {}
<1> DEFINE disorder == /\ held.began[t] # Unset
                       /\ \E d \in Deps(Named(p.tasks, t)) :
                            ~(StatusOf(held, d) = "completed" /\ held.ended[d] # Unset
                              /\ held.ended[d] <= held.began[t])
<1>1. ~disorder
  BY DEF KeptOrder
<1>2. DependencyFindings(p, held, t) = Found(disorder, "order-violation", "blocking", "derived", t)
  BY DEF DependencyFindings
<1> HIDE DEF disorder
<1> QED
  BY <1>1, <1>2 DEF Found

(* The codes of the other findings. *)
LEMMA OtherCodes ==
  ASSUME NEW p, NEW held, NEW record, NEW t
  PROVE  /\ \A f \in LifecycleFindings(held, record.trail, t) : f.code # "order-violation"
         /\ \A f \in EvidenceFindings(p, held, record, t) : f.code # "order-violation"
<1>1. \A condition, code, severity, certainty :
        \A f \in Found(condition, code, severity, certainty, t) : f.code = code
  BY DEF Found, Finding
<1>2. \A f \in LifecycleFindings(held, record.trail, t) : f.code # "order-violation"
  <2> SUFFICES ASSUME NEW f \in LifecycleFindings(held, record.trail, t)
               PROVE  f.code # "order-violation"
    OBVIOUS
  <2>1. f.code \in {"lifecycle-incomplete", "missing-planned", "attempt-unsuccessful"}
    <3>1. \E condition, code, severity, certainty :
            /\ f \in Found(condition, code, severity, certainty, t)
            /\ code \in {"lifecycle-incomplete", "missing-planned", "attempt-unsuccessful"}
      BY DEF LifecycleFindings
    <3> QED
      BY <1>1, <3>1
  <2> QED
    BY <2>1
<1>3. \A f \in EvidenceFindings(p, held, record, t) : f.code # "order-violation"
  <2> SUFFICES ASSUME NEW f \in EvidenceFindings(p, held, record, t)
               PROVE  f.code # "order-violation"
    OBVIOUS
  <2>1. PICK v \in Required(p, t) :
          \/ f \in Found(With(record, t, v, "fail"), "verifier-failed", "blocking", "proven", t)
          \/ f \in Found(~With(record, t, v, "fail") /\ ~With(record, t, v, "pass"),
                         "evidence-missing", "warning", "proven", t)
    BY DEF EvidenceFindings
  <2> QED
    BY <1>1, <2>1
<1> QED
  BY <1>2, <1>3

LEMMA NoOrderFinding ==
  ASSUME NEW p, NEW held, KeptOrder(p, held), NEW record,
         NEW f \in Findings(p, held, record)
  PROVE  f.code # "order-violation"
<1>1. \A condition, code, severity, certainty, t :
        \A g \in Found(condition, code, severity, certainty, t) : g.code = code
  BY DEF Found, Finding
<1>2. CASE f \in Found(Has(record.trail, "published", NoTask), "unbound-actual", "warning",
                       "proven", NoTask)
  <2>1. f.code = "unbound-actual"
    BY <1>1, <1>2
  <2> QED
    BY <2>1
<1>3. ASSUME NEW t \in Tasks, ~Bound(held, t),
             f \in Found(Ended(held.snapshot), "missing-planned", "blocking", "proven", t)
      PROVE  f.code # "order-violation"
  <2>1. f.code = "missing-planned"
    BY <1>1, <1>3
  <2> QED
    BY <2>1
<1>4. ASSUME NEW t \in Tasks, Bound(held, t),
             f \in LifecycleFindings(held, record.trail, t)
                     \cup DependencyFindings(p, held, t) \cup EvidenceFindings(p, held, record, t)
      PROVE  f.code # "order-violation"
  BY <1>4, NoOrderIsBroken, OtherCodes
<1> QED
  BY <1>2, <1>3, <1>4, Zenon DEF Findings

(* Preflight lets no plan through that requires a verifier the host does   *)
(* not run.                                                                *)
LEMMA RequiredIsRun ==
  ASSUME NEW p, NEW host, NEW c, c = CapabilitiesOf(host), Valid(p, c),
         NEW t \in TasksOf(p), IsTask(t), NEW v \in t.verifiers, v.required
  PROVE  v.kind = "lifecycle"
<1> DEFINE weak == c.verifiers[v.kind] # "enforced"
           severity == IF v.required \/ c.verifiers[v.kind] = "unsupported"
                       THEN "error" ELSE "warning"
           code == "task.verifier-" \o v.kind
           some(w) == When(c.verifiers[w.kind] # "enforced",
                           IF w.required \/ c.verifiers[w.kind] = "unsupported"
                           THEN "error" ELSE "warning",
                           "task.verifier-" \o w.kind, {t.id})
<1>1. some(v) \subseteq VerifierDiagnostics(t, c)
  <2>1. VerifierDiagnostics(t, c) = UNION {some(w) : w \in t.verifiers}
    BY Zenon DEF VerifierDiagnostics
  <2> HIDE DEF some
  <2> QED
    BY <2>1
<1>2. some(v) = When(weak, severity, code, {t.id})
  OBVIOUS
<1>3. severity = "error"
  OBVIOUS
<1>4. VerifierDiagnostics(t, c) \subseteq Diagnostics(p, c)
  <2>1. VerifierDiagnostics(t, c) \subseteq TaskDiagnostics(p, t, c)
    BY Zenon DEF TaskDiagnostics
  <2>2. TaskDiagnostics(p, t, c) \subseteq Diagnostics(p, c)
    BY DiagnosticParts
  <2> QED
    BY <2>1, <2>2
<1>5. weak \in BOOLEAN
  OBVIOUS
<1> HIDE DEF some, weak, severity, code
<1>6. When(weak, "error", code, {t.id}) \subseteq Diagnostics(p, c)
  BY <1>1, <1>2, <1>3, <1>4
<1>7. ~weak
  BY <1>5, <1>6, NothingBlocks
<1>8. c.verifiers = [lifecycle |-> "enforced", schema |-> "unsupported",
                     test |-> "unsupported", manual |-> "unsupported"]
  BY DEF CapabilitiesOf
<1>9. v.kind \in {"lifecycle", "schema", "test", "manual"}
  BY DEF IsTask
<1> QED
  BY <1>7, <1>8, <1>9 DEF weak

(* A run whose Agents were all observed, that succeeded. *)
LEMMA SuccessFacts ==
  ASSUME NEW p, NEW record, RecordIsGood(p, record, TRUE),
         record.held.snapshot.status = "succeeded", NEW t \in Tasks,
         \A v \in Required(p, t) : v \in Lifecycle(p, t)
  PROVE  /\ StatusOf(record.held, t) = "completed"
         /\ \A v \in Required(p, t) : With(record, t, v, "pass") /\ ~With(record, t, v, "fail")
         /\ ~Has(record.trail, "published", NoTask)
<1>1. /\ HeldIsSound(record.held) /\ TrailIsWhole(p, record)
      /\ \A x \in record.receipts : x.result = "pass"
  BY DEF RecordIsGood, HeldIsGood, ReceiptsAreGood
<1>2. StatusOf(record.held, t) = "completed"
  BY <1>1 DEF HeldIsSound
<1>3. Evidence(p, record, t) /\ ~Has(record.trail, "published", NoTask)
  BY <1>1, <1>2 DEF TrailIsWhole
<1>4. ASSUME NEW v \in Required(p, t)
      PROVE  With(record, t, v, "pass") /\ ~With(record, t, v, "fail")
  <2>1. Receipt(t, v, "pass") \in record.receipts /\ Has(record.trail, "terminal", t)
    BY <1>3 DEF Evidence
  <2>2. Receipt(t, v, "fail") \notin record.receipts
    <3>1. Receipt(t, v, "fail").result = "fail"
      BY DEF Receipt
    <3> QED
      BY <1>1, <3>1
  <2> QED
    BY <2>1, <2>2 DEF With
<1> QED
  BY <1>2, <1>3, <1>4

LEMMA NothingToFind ==
  ASSUME NEW p, NEW held, NEW record, KeptOrder(p, held),
         ~Has(record.trail, "published", NoTask),
         \A t \in Tasks : /\ StatusOf(held, t) = "completed" /\ Bound(held, t)
                          /\ \A v \in Required(p, t) :
                               With(record, t, v, "pass") /\ ~With(record, t, v, "fail")
  PROVE  Findings(p, held, record) = {}
<1>1. \A code, severity, certainty, t : Found(FALSE, code, severity, certainty, t) = {}
  BY DEF Found
<1>2. ASSUME NEW t \in Tasks
      PROVE  /\ LifecycleFindings(held, record.trail, t) = {}
             /\ DependencyFindings(p, held, t) = {}
             /\ EvidenceFindings(p, held, record, t) = {}
  <2>1. LifecycleFindings(held, record.trail, t) = {}
    <3>1. StatusOf(held, t) = "completed" /\ Over(held, t)
      BY DEF Over, TerminalAttempt
    <3> DEFINE open == Ended(held.snapshot) /\ ~Over(held, t)
               skipped == StatusOf(held, t) = "skipped"
               failed == StatusOf(held, t) \in {"failed", "cancelled", "rejected"}
               certainty == IF Has(record.trail, "terminal", t)
                               \/ \E n \in DOMAIN record.trail :
                                    /\ record.trail[n].kind = "attempt" /\ record.trail[n].task = t
                                    /\ record.trail[n].status \in TerminalAttempt
                            THEN "proven" ELSE "derived"
    <3>2. LifecycleFindings(held, record.trail, t) =
            Found(open, "lifecycle-incomplete", "blocking", "proven", t)
            \cup Found(skipped, "missing-planned", "warning", "proven", t)
            \cup Found(failed, "attempt-unsuccessful", "blocking", certainty, t)
      BY DEF LifecycleFindings
    <3>3. ~open /\ ~skipped /\ ~failed
      BY <3>1
    <3> HIDE DEF open, skipped, failed, certainty
    <3> QED
      BY <3>2, <3>3 DEF Found
  <2>2. EvidenceFindings(p, held, record, t) = {}
    <3> DEFINE some(v) == Found(With(record, t, v, "fail"), "verifier-failed", "blocking", "proven", t)
                          \cup Found(~With(record, t, v, "fail") /\ ~With(record, t, v, "pass"),
                                     "evidence-missing", "warning", "proven", t)
    <3>1. EvidenceFindings(p, held, record, t) = UNION {some(v) : v \in Required(p, t)}
      BY DEF EvidenceFindings
    <3>2. \A v \in Required(p, t) : some(v) = {}
      BY DEF Found
    <3> HIDE DEF some
    <3> QED
      BY <3>1, <3>2
  <2>3. DependencyFindings(p, held, t) = {}
    BY NoOrderIsBroken
  <2> QED
    BY <2>1, <2>2, <2>3
<1>3. Found(Has(record.trail, "published", NoTask), "unbound-actual", "warning", "proven", NoTask) = {}
  BY DEF Found
<1> DEFINE all(t) == IF ~Bound(held, t)
                     THEN Found(Ended(held.snapshot), "missing-planned", "blocking", "proven", t)
                     ELSE LifecycleFindings(held, record.trail, t)
                          \cup DependencyFindings(p, held, t)
                          \cup EvidenceFindings(p, held, record, t)
<1>4. \A t \in Tasks : all(t) = {}
  BY <1>2
<1>5. Findings(p, held, record) =
        Found(Has(record.trail, "published", NoTask), "unbound-actual", "warning", "proven", NoTask)
        \cup UNION {all(t) : t \in Tasks}
  BY Zenon DEF Findings
<1> HIDE DEF all
<1> QED
  BY <1>3, <1>4, <1>5

LEMMA NothingFoundIsConfirmed ==
  ASSUME NEW p, NEW held, NEW record, NEW report, report = ReportOf(p, held, record),
         Findings(p, held, record) = {},
         \A t \in Tasks : StatusOf(held, t) = "completed" /\ Bound(held, t)
  PROVE  report.state = "confirmed" /\ report.findings = {}
<1>1. report.findings = {}
  <2>1. PICK t \in Tasks : TRUE
    BY TasksFinite
  <2> QED
    BY ReportFacts
<1>2. ASSUME NEW t \in Tasks
      PROVE  report.tasks[t] = "confirmed"
  <2>1. report.tasks[t] = TaskState(held, report.findings, t)
    BY ReportFacts
  <2> QED
    BY <1>1, <2>1 DEF TaskState
<1> QED
  BY <1>1, <1>2, ReportState

(* Both readings of the record kept the order, if all Agents were observed. *)
LEMMA OrderIsKept ==
  ASSUME NEW p, Planned(p), NEW record, RecordIsGood(p, record, TRUE), NEW held,
         SameRun(record.held, held, TRUE)
  PROVE  KeptOrder(p, held)
<1>1. HeldIsOrdered(p, record.held) /\ HeldIsTimed(record.held, Len(record.trail))
  BY DEF RecordIsGood, HeldIsGood
<1>2. /\ held.began = record.held.began /\ held.ended = record.held.ended
      /\ \A t \in Tasks : StatusOf(held, t) = StatusOf(record.held, t)
                          /\ (Bound(held, t) <=> Bound(record.held, t))
  BY DEF SameRun
<1> SUFFICES ASSUME NEW t \in Tasks, Bound(held, t), NEW d \in Deps(Named(p.tasks, t))
             PROVE  /\ StatusOf(held, d) = "completed" /\ held.ended[d] # Unset
                    /\ held.ended[d] <= held.began[t]
  BY DEF KeptOrder
<1>3. d \in Tasks
  BY DEF Planned
<1>4. StatusOf(record.held, d) = "completed" /\ record.held.ended[d] <= record.held.began[t]
  BY <1>1, <1>2 DEF HeldIsOrdered
<1>5. Over(record.held, d)
  BY <1>4 DEF Over, TerminalAttempt
<1>6. record.held.ended[d] # Unset
  BY <1>1, <1>3, <1>5 DEF HeldIsTimed
<1> QED
  BY <1>2, <1>3, <1>4, <1>6

(* What a plan that was started requires is run. *)
LEMMA StartedRequires ==
  ASSUME Scheduling, Decided, stage \notin {"draft", "refused"}, NEW t \in Tasks,
         NEW v \in Required(plan, t)
  PROVE  v \in Lifecycle(plan, t)
<1>1. PICK case \in Cases : plan = case.plan /\ caps = CapabilitiesOf(case.host)
  BY DEF Decided
<1>2. IsPlan(plan) /\ Valid(plan, caps) /\ Ids(plan.tasks) = Tasks
  BY PlannedPlan DEF Scheduling, PlanFits, Planned
<1>3. Named(plan.tasks, t) \in TasksOf(plan) /\ IsTask(Named(plan.tasks, t))
  <2>1. Named(plan.tasks, t) \in TasksOf(plan)
    BY <1>2, IdsFacts
  <2> QED
    BY <1>2, <2>1, PlanFacts
<1>4. v \in Named(plan.tasks, t).verifiers /\ v.required
  BY DEF Required
<1>5. v.kind = "lifecycle"
  BY <1>1, <1>2, <1>3, <1>4, RequiredIsRun
<1> QED
  BY <1>4, <1>5 DEF Lifecycle

LEMMA RecordedHonestly == Scheduling /\ Recording /\ Decided => ReportIsHonest
<1> SUFFICES ASSUME Scheduling, Recording, Decided, stage \in {"over", "restored"},
                    NEW r \in Reports
             PROVE  /\ Ended(r.held.snapshot) /\ r.report.state = "confirmed" =>
                         \A t \in Tasks :
                           /\ StatusOf(r.held, t) = "completed"
                           /\ \A v \in Required(plan, t) : Receipt(t, v, "pass") \in store.receipts
                    /\ observed => \A f \in r.report.findings : f.code # "order-violation"
                    /\ observed /\ r.held.snapshot.status = "succeeded" =>
                         r.report.state = "confirmed" /\ r.report.findings = {}
  BY DEF ReportIsHonest
<1>1. Planned(plan)
  BY PlannedPlan DEF Scheduling
<1>2. RecordIsGood(plan, store, observed) /\ IsTold(store) /\ observed \in BOOLEAN
  BY DEF Recording
<1>3. Readable(store.held) /\ Readable(Current) /\ SameRun(store.held, Current, observed)
  BY <1>2, HeldIsReadable, ShownIsReadable, TellsTheRun DEF Current
<1>4. SameRun(store.held, store.held, observed)
  BY DEF SameRun
<1>5. PICK held \in {store.held, Current} : r = Reported(held)
  BY DEF Reports
<1> DEFINE report == ReportOf(plan, held, store)
<1>6. r.held = held /\ r.report = report
  BY <1>5, Zenon DEF Reported
<1>7. Readable(held) /\ SameRun(store.held, held, observed)
  BY <1>3, <1>4, <1>5
<1> HIDE DEF report
<1>8. ASSUME Ended(held.snapshot), report.state = "confirmed", NEW t \in Tasks
      PROVE  /\ StatusOf(held, t) = "completed"
             /\ \A v \in Required(plan, t) : Receipt(t, v, "pass") \in store.receipts
  BY <1>7, <1>8, ConfirmedCompleted DEF report
<1>9. observed => KeptOrder(plan, held)
  <2> SUFFICES ASSUME observed
               PROVE  KeptOrder(plan, held)
    OBVIOUS
  <2>1. observed = TRUE
    BY <1>2
  <2>2. RecordIsGood(plan, store, TRUE) /\ SameRun(store.held, held, TRUE)
    BY <1>2, <1>7, <2>1
  <2> QED
    BY <1>1, <2>2, OrderIsKept
<1>10. report.findings = Findings(plan, held, store)
  <2>1. PICK t \in Tasks : TRUE
    BY TasksFinite
  <2> QED
    BY ReportFacts DEF report
<1>11. ASSUME observed, NEW f \in report.findings
       PROVE  f.code # "order-violation"
  BY <1>9, <1>10, <1>11, NoOrderFinding
<1>12. ASSUME observed, held.snapshot.status = "succeeded"
       PROVE  report.state = "confirmed" /\ report.findings = {}
  <2>1. observed = TRUE
    BY <1>2, <1>12
  <2>2. RecordIsGood(plan, store, TRUE) /\ store.held.snapshot.status = "succeeded"
    BY <1>2, <1>7, <1>12, <2>1 DEF SameRun
  <2>3. \A t \in Tasks : \A v \in Required(plan, t) : v \in Lifecycle(plan, t)
    BY StartedRequires
  <2>4. ASSUME NEW t \in Tasks
        PROVE  /\ StatusOf(store.held, t) = "completed"
               /\ \A v \in Required(plan, t) :
                    With(store, t, v, "pass") /\ ~With(store, t, v, "fail")
               /\ ~Has(store.trail, "published", NoTask)
    BY <2>2, <2>3, SuccessFacts
  <2>5. \A t \in Tasks : StatusOf(held, t) = "completed" /\ Bound(held, t)
    BY <1>7, <2>4 DEF SameRun, Readable
  <2>6. ~Has(store.trail, "published", NoTask)
    BY <2>4, TasksFinite
  <2>7. Findings(plan, held, store) = {}
    BY <1>9, <1>12, <2>4, <2>5, <2>6, NothingToFind
  <2> QED
    BY <2>5, <2>7, NothingFoundIsConfirmed DEF report
<1> QED
  BY <1>6, <1>8, <1>11, <1>12

LEMMA AlwaysDecided == Spec => []Decided
<1>1. Init => Decided
  <2> SUFFICES ASSUME Init
               PROVE  Decided
    OBVIOUS
  <2> QED
    BY DEF Init, Decided
<1>2. Decided /\ [Next]_vars => Decided'
  <2> SUFFICES ASSUME Decided, [Next]_vars
               PROVE  Decided'
    OBVIOUS
  <2> QED
    BY PlanAndHostStay DEF Decided
<1> QED
  BY <1>1, <1>2, PTL DEF Spec

(* An execution is called confirmed only when every task completed with    *)
(* the receipts its plan requires, whatever events were lost and wherever  *)
(* the clock was set back; one that succeeded while every Agent was        *)
(* observed, by a clock that did not step back, is confirmed without a     *)
(* finding, whether the report is made of the snapshot or of the view      *)
(* (buildConformanceReport, as foundrySnapshot and inspectRun of index.ts  *)
(* call it).                                                               *)
THEOREM ReportsAreHonest == Spec => []ReportIsHonest
<1>1. Scheduling /\ Recording /\ Decided => ReportIsHonest
  BY RecordedHonestly
<1> QED
  BY <1>1, AlwaysRecording, AlwaysDecided, PTL

-----------------------------------------------------------------------------
(* The three loops of the capsule.                                         *)

TurnUpTo(set, first) ==
  CHOOSE list : list = [n \in 0..Cardinality(set) |->
    IF n = 0 THEN <<>> ELSE Longer(list[n - 1], set, first)]

(* A set as a list: all of it, and nothing twice.                          *)
LEMMA InTurnFacts ==
  ASSUME NEW S, IsFiniteSet(S), NEW first, \A T \in SUBSET S : T # {} => first[T] \in T
  PROVE  /\ InTurn(S, first) \in Seq(S) /\ ToSet(InTurn(S, first)) = S
         /\ Distinct(InTurn(S, first))
<1> DEFINE N == Cardinality(S)
           Y == S \cup {first[{}]}
           X == Seq(Y)
           none == <<>>
           G == [n \in 1..N |-> [list \in X |-> Longer(list, S, first)]]
           K == TurnUpTo(S, first)
<1>1. N \in Nat
  BY FS_CardinalityType
<1>2. \A list \in X : Longer(list, S, first) \in X
  <2> TAKE list \in X
  <2> DEFINE T == S \ ToSet(list)
  <2>1. first[T] \in Y
    <3>1. T \in SUBSET S
      OBVIOUS
    <3>2. CASE T = {}
      BY <3>2
    <3>3. CASE T # {}
      <4>1. first[T] \in T
        BY <3>1, <3>3
      <4> QED
        BY <3>1, <4>1
    <3> QED
      BY <3>2, <3>3
  <2> HIDE DEF T, Y
  <2> QED
    BY <2>1 DEF Longer, T
<1>3. none \in X /\ G \in [1..N -> [X -> X]]
  <2> HIDE DEF X, N
  <2>1. G \in [1..N -> [X -> X]]
    BY <1>2
  <2> QED
    BY <2>1 DEF X
<1>4. Follows(K, N, X, none, G)
  <2> HIDE DEF X, Y, none, N
  <2>1. PICK f : Follows(f, N, X, none, G)
    BY <1>1, <1>3, RecursionExists
  <2>2. /\ f = [n \in 0..N |-> IF n = 0 THEN none ELSE G[n][f[n - 1]]]
        /\ \A n \in 0..N : n # 0 => n \in 1..N /\ f[n - 1] \in X
    BY <1>1, <1>3, <2>1, FollowsBody
  <2>3. \A n \in 1..N : \A list \in X : G[n][list] = Longer(list, S, first)
    OBVIOUS
  <2> HIDE DEF G
  <2>4. f = [n \in 0..N |-> IF n = 0 THEN none ELSE Longer(f[n - 1], S, first)]
    <3>1. \A n \in 0..N : (IF n = 0 THEN none ELSE G[n][f[n - 1]])
                            = IF n = 0 THEN none ELSE Longer(f[n - 1], S, first)
      BY <2>2, <2>3
    <3> QED
      BY <2>2, <3>1
  <2>5. K = [n \in 0..N |-> IF n = 0 THEN none ELSE Longer(K[n - 1], S, first)]
    BY <2>4 DEF TurnUpTo, N, none
  <2> HIDE DEF K
  <2>6. K = [n \in 0..N |-> K[n]] /\ K[0] = none
    <3>1. 0 \in 0..N
      BY <1>1
    <3> QED
      BY <2>5, <3>1
  <2>7. \A n \in 1..N : K[n] = Longer(K[n - 1], S, first)
    <3>1. \A n \in 1..N : n \in 0..N /\ n # 0
      BY <1>1
    <3> QED
      BY <2>5, <3>1
  <2>8. \A n \in 1..N : K[n - 1] \in X => K[n] = G[n][K[n - 1]]
    BY <2>3, <2>7
  <2> QED
    BY <1>1, <1>3, <2>6, <2>8, BodyFollows
<1>5. InTurn(S, first) = K[N]
  BY DEF InTurn, TurnUpTo
<1> HIDE DEF K
<1>6. K \in [0..N -> X] /\ K[0] = <<>> /\ \A n \in 1..N : K[n] = Longer(K[n - 1], S, first)
  <2>1. \A n \in 1..N : n - 1 \in 0..N
    BY <1>1
  <2> HIDE DEF X, N
  <2> QED
    BY <1>4, <2>1 DEF Follows
<1> DEFINE Good(n) == K[n] \in Seq(S) /\ Len(K[n]) = n /\ Distinct(K[n])
           Q == {n \in Nat : n <= N => Good(n)}
<1>7. 0 \in Q
  BY <1>6 DEF Distinct
<1>8. ASSUME NEW n \in Nat, n \in Q
      PROVE  n + 1 \in Q
  <2> SUFFICES ASSUME n + 1 <= N
               PROVE  Good(n + 1)
    OBVIOUS
  <2> DEFINE k == K[n]
             x == first[S \ ToSet(k)]
  <2>1. n <= N /\ n + 1 \in 1..N /\ (n + 1) - 1 = n
    BY <1>1
  <2>2. k \in Seq(S) /\ Len(k) = n /\ Distinct(k)
    <3>1. Good(n)
      <4> HIDE DEF Good, N
      <4> QED
        BY <1>8, <2>1
    <3> QED
      BY <3>1
  <2>3. K[n + 1] = Append(k, x)
    <3> HIDE DEF N
    <3>1. K[n + 1] = Longer(K[n], S, first)
      BY <1>6, <2>1
    <3> QED
      BY <3>1 DEF Longer
  <2> HIDE DEF k
  <2>4. x \in S \ ToSet(k)
    <3> DEFINE T == S \ ToSet(k)
    <3>1. Cardinality(ToSet(k)) = n
      BY <2>2, DistinctCount
    <3>2. ToSet(k) # S
      BY <2>1, <3>1, <1>1
    <3>3. T # {} /\ T \in SUBSET S
      BY <2>2, <3>2 DEF ToSet
    <3> QED
      BY <3>3
  <2> HIDE DEF x
  <2>5. \A m \in 1..n : k[m] # x
    BY <2>2, <2>4 DEF ToSet
  <2>6. /\ Append(k, x) \in Seq(S) /\ Len(Append(k, x)) = n + 1
        /\ \A m \in 1..n : Append(k, x)[m] = k[m]
        /\ Append(k, x)[n + 1] = x
        /\ DOMAIN Append(k, x) = 1..(n + 1)
    BY <2>2, <2>4
  <2>7. \A m \in 1..(n + 1) : m \in 1..n \/ m = n + 1
    OBVIOUS
  <2>8. Distinct(Append(k, x))
    <3>1. \A i, j \in 1..n : k[i] = k[j] => i = j
      BY <2>2 DEF Distinct
    <3> HIDE DEF N
    <3> QED
      BY <2>5, <2>6, <2>7, <3>1 DEF Distinct
  <2> QED
    BY <2>3, <2>6, <2>8
<1>9. \A n \in Nat : n \in Q
  <2> HIDE DEF Q
  <2> QED
    BY <1>7, <1>8, NumberInduction
<1>10. Good(N)
  <2>1. N <= N
    BY <1>1
  <2> HIDE DEF Good, N
  <2> QED
    BY <1>1, <1>9, <2>1
<1> DEFINE s == K[N]
<1>11. s \in Seq(S) /\ Len(s) = N /\ Distinct(s)
  BY <1>10
<1> HIDE DEF s
<1>12. IsFiniteSet(ToSet(s)) /\ Cardinality(ToSet(s)) = N
  BY <1>11, DistinctCount
<1>13. ToSet(s) \in SUBSET S
  BY <1>11 DEF ToSet
<1>14. ToSet(s) = S
  BY <1>12, <1>13, FS_Subset
<1> QED
  BY <1>5, <1>11, <1>14 DEF s

FilledUpTo(required, list, barred) ==
  CHOOSE events : events = [n \in 0..Len(list) |->
    IF n = 0 THEN required ELSE Fuller(events[n - 1], list[n], barred)]

(* There is room for what is filled in.                                    *)
LEMMA FilledFacts ==
  ASSUME NEW D, IsFiniteSet(D), NEW required \in SUBSET D, Cardinality(required) <= MaxEvents,
         NEW list \in Seq(D), NEW barred
  PROVE  /\ required \subseteq Filled(required, list, barred)
         /\ Filled(required, list, barred) \subseteq D
         /\ Cardinality(Filled(required, list, barred)) <= MaxEvents
<1> DEFINE N == Len(list)
           X == SUBSET D
           G == [n \in 1..N |-> [events \in X |-> Fuller(events, list[n], barred)]]
           K == FilledUpTo(required, list, barred)
<1>1. N \in Nat /\ \A n \in 1..N : list[n] \in D
  OBVIOUS
<1>2. G \in [1..N -> [X -> X]] /\ required \in X
  <2>1. \A n \in 1..N : \A events \in X : Fuller(events, list[n], barred) \in X
    BY <1>1 DEF Fuller
  <2> HIDE DEF X, N
  <2>2. G \in [1..N -> [X -> X]]
    BY <2>1
  <2> QED
    BY <2>2 DEF X
<1>3. Follows(K, N, X, required, G)
  <2> HIDE DEF X, N
  <2>1. PICK f : Follows(f, N, X, required, G)
    BY <1>1, <1>2, RecursionExists
  <2>2. /\ f = [n \in 0..N |-> IF n = 0 THEN required ELSE G[n][f[n - 1]]]
        /\ \A n \in 0..N : n # 0 => n \in 1..N /\ f[n - 1] \in X
    BY <1>1, <1>2, <2>1, FollowsBody
  <2>3. \A n \in 1..N : \A events \in X : G[n][events] = Fuller(events, list[n], barred)
    OBVIOUS
  <2> HIDE DEF G
  <2>4. f = [n \in 0..N |-> IF n = 0 THEN required ELSE Fuller(f[n - 1], list[n], barred)]
    <3>1. \A n \in 0..N : (IF n = 0 THEN required ELSE G[n][f[n - 1]])
                            = IF n = 0 THEN required ELSE Fuller(f[n - 1], list[n], barred)
      BY <2>2, <2>3
    <3> QED
      BY <2>2, <3>1
  <2>5. K = [n \in 0..N |-> IF n = 0 THEN required ELSE Fuller(K[n - 1], list[n], barred)]
    BY <2>4 DEF FilledUpTo, N
  <2> HIDE DEF K
  <2>6. K = [n \in 0..N |-> K[n]] /\ K[0] = required
    <3>1. 0 \in 0..N
      BY <1>1
    <3> QED
      BY <2>5, <3>1
  <2>7. \A n \in 1..N : K[n] = Fuller(K[n - 1], list[n], barred)
    <3>1. \A n \in 1..N : n \in 0..N /\ n # 0
      BY <1>1
    <3> QED
      BY <2>5, <3>1
  <2>8. \A n \in 1..N : K[n - 1] \in X => K[n] = G[n][K[n - 1]]
    BY <2>3, <2>7
  <2> QED
    BY <1>1, <1>2, <2>6, <2>8, BodyFollows
<1>4. Filled(required, list, barred) = K[N]
  BY DEF Filled, FilledUpTo
<1> HIDE DEF K
<1>5. /\ K[0] = required /\ \A n \in 0..N : K[n] \in X
      /\ \A n \in 1..N : K[n] = Fuller(K[n - 1], list[n], barred)
  <2>1. \A n \in 1..N : n - 1 \in 0..N
    BY <1>1
  <2> HIDE DEF X, N
  <2> QED
    BY <1>3, <2>1 DEF Follows
<1> DEFINE Good(n) == required \subseteq K[n] /\ Cardinality(K[n]) <= MaxEvents
           Q == {n \in Nat : n <= N => Good(n)}
<1>6. 0 \in Q
  BY <1>5
<1>7. ASSUME NEW n \in Nat, n \in Q
      PROVE  n + 1 \in Q
  <2> SUFFICES ASSUME n + 1 <= N
               PROVE  Good(n + 1)
    OBVIOUS
  <2> DEFINE k == K[n]
             x == list[n + 1]
  <2>1. n <= N /\ n + 1 \in 1..N /\ (n + 1) - 1 = n /\ n \in 0..N
    BY <1>1
  <2>2. Good(n) /\ k \in SUBSET D
    <3> HIDE DEF Good, N
    <3> QED
      BY <1>5, <1>7, <2>1
  <2>3. K[n + 1] = Fuller(k, x, barred)
    <3> HIDE DEF N
    <3> QED
      BY <1>5, <2>1
  <2> HIDE DEF k, x
  <2>4. IsFiniteSet(k) /\ Cardinality(k) \in Nat
    BY <2>2, FS_Subset, FS_CardinalityType
  <2>5. Cardinality(k \cup {x}) = IF x \in k THEN Cardinality(k) ELSE Cardinality(k) + 1
    BY <2>4, FS_AddElement
  <2>6. MaxEvents \in Nat
    BY CapsuleLimits
  <2> QED
    BY <2>2, <2>3, <2>4, <2>5, <2>6 DEF Fuller, k
<1>8. \A n \in Nat : n \in Q
  <2> HIDE DEF Q
  <2> QED
    BY <1>6, <1>7, NumberInduction
<1>9. Good(N) /\ K[N] \in X
  <2>1. N <= N /\ N \in 0..N
    BY <1>1
  <2> HIDE DEF Good, N, X
  <2> QED
    BY <1>1, <1>5, <1>8, <2>1
<1> QED
  BY <1>4, <1>9

(* No two entries of one identity.                                         *)
Lone(list) == \A m, n \in DOMAIN list : list[m].id = list[n].id => m = n

FittingUpTo(list, cited, room) ==
  CHOOSE kept : kept = [n \in 0..Len(list) |->
    IF n = 0 THEN [list |-> <<>>, cited |-> cited] ELSE Kept(kept[n - 1], list[n], room)]

LEMMA CitesMore ==
  ASSUME NEW Z, NEW list \in Seq(Z), NEW x \in Z
  PROVE  Cites(Append(list, x)) = Cites(list) \cup x.cites
<1>1. ToSet(Append(list, x)) = ToSet(list) \cup {x}
  BY AppendToSet
<1> QED
  BY <1>1 DEF Cites

LEMMA LoneMore ==
  ASSUME NEW Z, NEW list \in Seq(Z), NEW x \in Z, Lone(list),
         \A y \in ToSet(list) : y.id # x.id
  PROVE  Lone(Append(list, x))
<1> DEFINE N == Len(list)
           more == Append(list, x)
<1>1. N \in Nat /\ DOMAIN list = 1..N /\ DOMAIN more = 1..(N + 1)
  OBVIOUS
<1>2. (\A m \in 1..N : more[m] = list[m]) /\ more[N + 1] = x
  OBVIOUS
<1>3. \A m \in 1..N : list[m].id # x.id
  BY <1>1 DEF ToSet
<1>4. \A m \in 1..(N + 1) : m \in 1..N \/ m = N + 1
  BY <1>1
<1>5. \A m, n \in 1..N : list[m].id = list[n].id => m = n
  BY <1>1 DEF Lone
<1> HIDE DEF N, more
<1>6. ASSUME NEW m \in 1..(N + 1), NEW n \in 1..(N + 1), more[m].id = more[n].id
      PROVE  m = n
  <2>1. CASE m \in 1..N /\ n \in 1..N
    BY <1>2, <1>5, <1>6, <2>1
  <2>2. CASE m \in 1..N /\ n = N + 1
    BY <1>2, <1>3, <1>6, <2>2
  <2>3. CASE m = N + 1 /\ n \in 1..N
    BY <1>2, <1>3, <1>6, <2>3
  <2> QED
    BY <1>4, <2>1, <2>2, <2>3
<1>7. Lone(more)
  BY <1>1, <1>6 DEF Lone
<1> QED
  BY <1>7 DEF more

IsKept(state, cited, among, whole) ==
  /\ state.cited = cited \cup Cites(state.list)
  /\ Cardinality(state.cited) <= MaxEvents
  /\ ToSet(state.list) \subseteq among
  /\ whole => Lone(state.list)

LEMMA KeptOn ==
  ASSUME NEW D, IsFiniteSet(D), NEW Z, \A x \in Z : x.cites \subseteq D,
         NEW state \in [list : Seq(Z), cited : SUBSET D], NEW x \in Z, NEW cited, NEW room,
         NEW among, NEW whole, IsKept(state, cited, among, whole),
         whole => \A y \in among : y.id # x.id
  PROVE  /\ Kept(state, x, room) \in [list : Seq(Z), cited : SUBSET D]
         /\ IsKept(Kept(state, x, room), cited, among \cup {x}, whole)
<1> DEFINE next == [list |-> Append(state.list, x), cited |-> state.cited \cup x.cites]
           room1 == Cardinality(state.cited) < room /\ Fits(state.cited, x.cites)
<1>1. Kept(state, x, room) = IF room1 THEN next ELSE state
  BY DEF Kept
<1>2. CASE ~room1
  <2>1. Kept(state, x, room) = state
    BY <1>1, <1>2
  <2> QED
    BY <2>1 DEF IsKept
<1>3. CASE room1
  <2>1. Kept(state, x, room) = next
    BY <1>1, <1>3
  <2>2. next \in [list : Seq(Z), cited : SUBSET D]
    OBVIOUS
  <2>3. Cites(next.list) = Cites(state.list) \cup x.cites
    BY CitesMore
  <2>4. ToSet(next.list) = ToSet(state.list) \cup {x}
    BY AppendToSet
  <2>5. Cardinality(next.cited) <= MaxEvents
    BY <1>3 DEF Fits
  <2>6. whole => Lone(next.list)
    <3> SUFFICES ASSUME whole
                 PROVE  Lone(Append(state.list, x))
      OBVIOUS
    <3>1. Lone(state.list) /\ \A y \in ToSet(state.list) : y.id # x.id
      BY DEF IsKept
    <3> QED
      BY <3>1, LoneMore
  <2>7. IsKept(next, cited, among \cup {x}, whole)
    <3>1. next.cited = state.cited \cup x.cites
      OBVIOUS
    <3> HIDE DEF next
    <3> QED
      BY <2>3, <2>4, <2>5, <2>6, <3>1 DEF IsKept
  <2> QED
    BY <2>1, <2>2, <2>7
<1> QED
  BY <1>2, <1>3

(* What is kept is of the list, and its evidence fits.                     *)
LEMMA FittingFacts ==
  ASSUME NEW D, IsFiniteSet(D), NEW Z, \A x \in Z : x.cites \subseteq D,
         NEW list \in Seq(Z), NEW cited \in SUBSET D, Cardinality(cited) <= MaxEvents, NEW room
  PROVE  /\ Fitting(list, cited, room) \in Seq(Z)
         /\ ToSet(Fitting(list, cited, room)) \subseteq ToSet(list)
         /\ Cardinality(cited \cup Cites(Fitting(list, cited, room))) <= MaxEvents
         /\ Lone(list) => Lone(Fitting(list, cited, room))
<1> DEFINE N == Len(list)
           X == [list : Seq(Z), cited : SUBSET D]
           start == [list |-> <<>>, cited |-> cited]
           G == [n \in 1..N |-> [state \in X |-> Kept(state, list[n], room)]]
           K == FittingUpTo(list, cited, room)
<1>1. N \in Nat /\ \A n \in 1..N : list[n] \in Z
  OBVIOUS
<1>2. G \in [1..N -> [X -> X]] /\ start \in X
  <2>1. \A n \in 1..N : \A state \in X : Kept(state, list[n], room) \in X
    <3> TAKE n \in 1..N
    <3> TAKE state \in X
    <3>1. list[n].cites \subseteq D
      BY <1>1
    <3>2. [list |-> Append(state.list, list[n]), cited |-> state.cited \cup list[n].cites] \in X
      BY <1>1, <3>1
    <3> HIDE DEF X
    <3> QED
      BY <3>2 DEF Kept
  <2>2. start \in X
    OBVIOUS
  <2> HIDE DEF X, N, start
  <2> QED
    BY <2>1, <2>2
<1>3. Follows(K, N, X, start, G)
  <2>1. \A n \in 1..N : \A state \in X : G[n][state] = Kept(state, list[n], room)
    OBVIOUS
  <2>2. K = CHOOSE kept : kept = [n \in 0..N |->
              IF n = 0 THEN start ELSE Kept(kept[n - 1], list[n], room)]
    BY DEF FittingUpTo
  <2> HIDE DEF X, N, start, G, K
  <2>3. PICK f : Follows(f, N, X, start, G)
    BY <1>1, <1>2, RecursionExists
  <2>4. /\ f = [n \in 0..N |-> IF n = 0 THEN start ELSE G[n][f[n - 1]]]
        /\ \A n \in 0..N : n # 0 => n \in 1..N /\ f[n - 1] \in X
    BY <1>1, <1>2, <2>3, FollowsBody
  <2>5. f = [n \in 0..N |-> IF n = 0 THEN start ELSE Kept(f[n - 1], list[n], room)]
    <3>1. \A n \in 0..N : (IF n = 0 THEN start ELSE G[n][f[n - 1]])
                            = IF n = 0 THEN start ELSE Kept(f[n - 1], list[n], room)
      BY <2>1, <2>4
    <3> QED
      BY <2>4, <3>1
  <2>6. K = [n \in 0..N |-> IF n = 0 THEN start ELSE Kept(K[n - 1], list[n], room)]
    BY <2>2, <2>5
  <2>7. K = [n \in 0..N |-> K[n]] /\ K[0] = start
    <3>1. 0 \in 0..N
      BY <1>1
    <3> QED
      BY <2>6, <3>1
  <2>8. \A n \in 1..N : K[n] = Kept(K[n - 1], list[n], room)
    <3>1. \A n \in 1..N : n \in 0..N /\ n # 0
      BY <1>1
    <3> QED
      BY <2>6, <3>1
  <2>9. \A n \in 1..N : K[n - 1] \in X => K[n] = G[n][K[n - 1]]
    BY <2>1, <2>8
  <2> QED
    BY <1>1, <1>2, <2>7, <2>9, BodyFollows
<1>4. Fitting(list, cited, room) = K[N].list
  BY DEF Fitting, FittingUpTo
<1>5. /\ K[0] = start /\ \A n \in 0..N : K[n] \in X
      /\ \A n \in 1..N : K[n] = Kept(K[n - 1], list[n], room)
  <2>1. \A n \in 1..N : \A state \in X : G[n][state] = Kept(state, list[n], room)
    OBVIOUS
  <2>2. \A n \in 1..N : n - 1 \in 0..N
    BY <1>1
  <2> HIDE DEF X, N, K, start, G
  <2> QED
    BY <1>3, <2>1, <2>2 DEF Follows
<1> HIDE DEF K
<1> DEFINE among(n) == {list[m] : m \in 1..n}
           whole == Lone(list)
           Good(n) == IsKept(K[n], cited, among(n), whole)
           Q == {n \in Nat : n <= N => Good(n)}
<1>6. 0 \in Q
  <2>1. Cites(<<>>) = {} /\ ToSet(<<>>) = {} /\ Lone(<<>>)
    BY DEF Cites, ToSet, Lone
  <2>2. IsKept(start, cited, among(0), whole)
    BY <2>1 DEF IsKept
  <2> HIDE DEF start, among, whole
  <2> QED
    BY <1>5, <2>2
<1>7. ASSUME NEW n \in Nat, n \in Q
      PROVE  n + 1 \in Q
  <2> SUFFICES ASSUME n + 1 <= N
               PROVE  Good(n + 1)
    OBVIOUS
  <2> DEFINE k == K[n]
             x == list[n + 1]
  <2>1. n <= N /\ n + 1 \in 1..N /\ (n + 1) - 1 = n /\ n \in 0..N
    BY <1>1
  <2>2. Good(n) /\ k \in X
    <3> HIDE DEF Good, N, X
    <3> QED
      BY <1>5, <1>7, <2>1
  <2>3. K[n + 1] = Kept(k, x, room)
    <3> HIDE DEF N, X
    <3> QED
      BY <1>5, <2>1
  <2>4. among(n + 1) = among(n) \cup {x}
    OBVIOUS
  <2>5. whole => \A y \in among(n) : y.id # x.id
    <3> SUFFICES ASSUME whole, NEW m \in 1..n, list[m].id = list[n + 1].id
                 PROVE  FALSE
      OBVIOUS
    <3>1. m \in DOMAIN list /\ n + 1 \in DOMAIN list /\ m # n + 1
      BY <2>1
    <3> QED
      BY <3>1 DEF Lone
  <2>6. x \in Z
    BY <1>1, <2>1
  <2> HIDE DEF k, x, among, whole
  <2>7. IsKept(Kept(k, x, room), cited, among(n) \cup {x}, whole)
    BY <2>2, <2>5, <2>6, KeptOn DEF k
  <2> QED
    BY <2>3, <2>4, <2>7
<1>8. \A n \in Nat : n \in Q
  <2> HIDE DEF Q
  <2> QED
    BY <1>6, <1>7, NumberInduction
<1>9. Good(N) /\ K[N] \in X
  <2>1. N <= N /\ N \in 0..N
    BY <1>1
  <2> HIDE DEF Good, N, X
  <2> QED
    BY <1>1, <1>5, <1>8, <2>1
<1>10. among(N) = ToSet(list)
  BY DEF ToSet
<1> QED
  BY <1>4, <1>9, <1>10 DEF IsKept

LEMMA CutFacts ==
  ASSUME NEW Z, NEW list \in Seq(Z), NEW n \in Nat
  PROVE  /\ Cut(list, n) \in Seq(Z) /\ ToSet(Cut(list, n)) \subseteq ToSet(list)
         /\ Cites(Cut(list, n)) \subseteq Cites(list)
         /\ Lone(list) => Lone(Cut(list, n))
<1> DEFINE m == IF n < Len(list) THEN n ELSE Len(list)
           cut == SubSeq(list, 1, m)
<1>1. m \in Nat /\ m <= Len(list)
  OBVIOUS
<1>2. Cut(list, n) = cut
  BY DEF Cut
<1>3. /\ cut \in Seq(Z) /\ DOMAIN cut = 1..m
      /\ \A k \in 1..m : cut[k] = list[k] /\ k \in DOMAIN list
  <2> HIDE DEF m
  <2> QED
    BY <1>1
<1> HIDE DEF cut, m
<1>4. ToSet(cut) \subseteq ToSet(list)
  BY <1>3 DEF ToSet
<1>5. Lone(list) => Lone(cut)
  BY <1>3 DEF Lone
<1> QED
  BY <1>2, <1>3, <1>4, <1>5 DEF Cites

(* A list of some entries of another, none of them twice.                  *)
LEMMA LoneAmong ==
  ASSUME NEW list, NEW some, Lone(list), Distinct(some), ToSet(some) \subseteq ToSet(list)
  PROVE  Lone(some)
<1> SUFFICES ASSUME NEW m \in DOMAIN some, NEW n \in DOMAIN some, some[m].id = some[n].id
             PROVE  m = n
  BY DEF Lone
<1>1. some[m] \in ToSet(list) /\ some[n] \in ToSet(list)
  BY DEF ToSet
<1>2. PICK i \in DOMAIN list : some[m] = list[i]
  BY <1>1 DEF ToSet
<1>3. PICK j \in DOMAIN list : some[n] = list[j]
  BY <1>1 DEF ToSet
<1>4. i = j
  BY <1>2, <1>3 DEF Lone
<1> QED
  BY <1>2, <1>3, <1>4 DEF Distinct

LEMMA LoneOnly ==
  ASSUME NEW Z, NEW list \in Seq(Z), NEW set, Lone(list)
  PROVE  Lone(Only(list, set))
<1>1. Distinct(list)
  BY DEF Lone, Distinct
<1>2. Distinct(Only(list, set)) /\ ToSet(Only(list, set)) \subseteq ToSet(list)
  BY <1>1, OnlyFacts
<1> QED
  BY <1>2, LoneAmong

LEMMA ConcatFacts ==
  ASSUME NEW Z, NEW s \in Seq(Z), NEW t \in Seq(Z)
  PROVE  /\ s \o t \in Seq(Z) /\ ToSet(s \o t) = ToSet(s) \cup ToSet(t)
         /\ Cites(s \o t) = Cites(s) \cup Cites(t)
         /\ Lone(s) /\ Lone(t) /\ (\A x \in ToSet(s), y \in ToSet(t) : x.id # y.id) => Lone(s \o t)
<1> DEFINE M == Len(s)
           N == Len(t)
           both == s \o t
<1>1. /\ M \in Nat /\ N \in Nat /\ DOMAIN s = 1..M /\ DOMAIN t = 1..N
      /\ DOMAIN both = 1..(M + N) /\ both \in Seq(Z)
      /\ \A k \in 1..M : both[k] = s[k]
      /\ \A k \in 1..N : both[M + k] = t[k]
  OBVIOUS
<1> HIDE DEF both, M, N
<1>2. \A k \in 1..(M + N) : k \in 1..M \/ (k - M \in 1..N /\ k = M + (k - M))
  BY <1>1
<1>3. /\ \A k \in 1..M : k \in 1..(M + N)
      /\ \A k \in 1..N : M + k \in 1..(M + N)
  BY <1>1
<1>4. ToSet(both) = ToSet(s) \cup ToSet(t)
  <2>1. ToSet(both) \subseteq ToSet(s) \cup ToSet(t)
    <3> SUFFICES ASSUME NEW k \in 1..(M + N)
                 PROVE  both[k] \in ToSet(s) \cup ToSet(t)
      BY <1>1 DEF ToSet
    <3>1. CASE k \in 1..M
      BY <1>1, <3>1 DEF ToSet
    <3>2. CASE k - M \in 1..N /\ k = M + (k - M)
      <4> DEFINE j == k - M
      <4>1. j \in 1..N /\ both[k] = both[M + j]
        BY <3>2
      <4> HIDE DEF j
      <4> QED
        BY <1>1, <4>1 DEF ToSet
    <3> QED
      BY <1>2, <3>1, <3>2
  <2>2. ToSet(s) \cup ToSet(t) \subseteq ToSet(both)
    BY <1>1, <1>3 DEF ToSet
  <2> QED
    BY <2>1, <2>2
<1>5. ASSUME Lone(s), Lone(t), \A x \in ToSet(s), y \in ToSet(t) : x.id # y.id
      PROVE  Lone(both)
  <2>1. /\ \A i, j \in 1..M : s[i].id = s[j].id => i = j
        /\ \A i, j \in 1..N : t[i].id = t[j].id => i = j
    BY <1>1, <1>5 DEF Lone
  <2>2. \A i \in 1..M, j \in 1..N : s[i].id # t[j].id
    BY <1>1, <1>5 DEF ToSet
  <2>3. \A i \in 1..(M + N) :
          \/ i \in 1..M /\ both[i] = s[i]
          \/ \E k \in 1..N : i = M + k /\ both[i] = t[k]
    <3> SUFFICES ASSUME NEW i \in 1..(M + N), i \notin 1..M
                 PROVE  \E k \in 1..N : i = M + k /\ both[i] = t[k]
      BY <1>1
    <3> DEFINE j == i - M
    <3>1. j \in 1..N /\ i = M + j
      BY <1>2
    <3> HIDE DEF j
    <3>2. both[i] = t[j]
      BY <1>1, <3>1
    <3> QED
      BY <3>1, <3>2
  <2>4. ASSUME NEW i \in 1..(M + N), NEW j \in 1..(M + N), both[i].id = both[j].id
        PROVE  i = j
    <3>1. CASE i \in 1..M /\ both[i] = s[i] /\ j \in 1..M /\ both[j] = s[j]
      BY <2>1, <2>4, <3>1
    <3>2. CASE i \in 1..M /\ both[i] = s[i] /\ \E k \in 1..N : j = M + k /\ both[j] = t[k]
      BY <2>2, <2>4, <3>2
    <3>3. CASE j \in 1..M /\ both[j] = s[j] /\ \E k \in 1..N : i = M + k /\ both[i] = t[k]
      BY <2>2, <2>4, <3>3
    <3>4. CASE /\ \E k \in 1..N : i = M + k /\ both[i] = t[k]
               /\ \E k \in 1..N : j = M + k /\ both[j] = t[k]
      <4>1. PICK k \in 1..N : i = M + k /\ both[i] = t[k]
        BY <3>4
      <4>2. PICK l \in 1..N : j = M + l /\ both[j] = t[l]
        BY <3>4
      <4>3. k = l
        BY <2>1, <2>4, <4>1, <4>2
      <4> QED
        BY <4>1, <4>2, <4>3
    <3> QED
      BY <2>3, <3>1, <3>2, <3>3, <3>4
  <2> QED
    BY <1>1, <2>4 DEF Lone
<1>6. Cites(both) = Cites(s) \cup Cites(t)
  BY <1>4 DEF Cites
<1> QED
  BY <1>1, <1>4, <1>5, <1>6 DEF both

(* The first divergence that is proven, if there is one.                   *)
LEMMA FirstFacts ==
  ASSUME NEW Z, NEW listed \in Seq(Z), NEW first, first = FirstProvable(listed)
  PROVE  /\ first \in Seq(Z) /\ Lone(first)
         /\ \A f \in ToSet(first) : f \in ToSet(listed) /\ f.proven
         /\ first # <<>> => ToSet(first) = {first[1]}
         /\ Cites(first) \subseteq Cites(listed)
<1> DEFINE some == Only(listed, {f \in ToSet(listed) : f.proven})
           m == IF 1 < Len(some) THEN 1 ELSE Len(some)
<1>1. some \in Seq(Z) /\ ToSet(some) = ToSet(listed) \cap {f \in ToSet(listed) : f.proven}
  BY OnlyFacts
<1>2. first = Cut(some, 1)
  BY DEF FirstProvable
<1> HIDE DEF some
<1>3. /\ first \in Seq(Z) /\ ToSet(first) \subseteq ToSet(some)
  BY <1>1, <1>2, CutFacts
<1>4. first = SubSeq(some, 1, m)
  BY <1>2 DEF Cut
<1>5. m \in {0, 1} /\ Len(first) = m
  <2>1. Len(some) \in Nat
    BY <1>1
  <2>2. m \in {0, 1} /\ m <= Len(some)
    <3> DEFINE k == Len(some)
    <3> HIDE DEF k
    <3>1. k \in Nat => (IF 1 < k THEN 1 ELSE k) \in {0, 1} /\ (IF 1 < k THEN 1 ELSE k) <= k
      OBVIOUS
    <3> QED
      BY <2>1, <3>1 DEF k
  <2> HIDE DEF m
  <2>3. Len(SubSeq(some, 1, m)) = m
    BY <1>1, <2>2
  <2> QED
    BY <1>4, <2>2, <2>3
<1> HIDE DEF m
<1>6. DOMAIN first \subseteq {1} /\ (first # <<>> => DOMAIN first = {1})
  <2>1. \A list \in Seq(Z) : DOMAIN list = 1..Len(list)
    OBVIOUS
  <2>2. \A list \in Seq(Z) : list # <<>> => Len(list) # 0
    OBVIOUS
  <2>3. DOMAIN first = 1..Len(first) /\ Len(first) \in {0, 1}
    BY <1>3, <1>5, <2>1
  <2>4. first # <<>> => Len(first) # 0
    BY <1>3, <2>2
  <2>5. CASE Len(first) = 0
    BY <2>3, <2>4, <2>5
  <2>6. CASE Len(first) = 1
    BY <2>3, <2>6
  <2> QED
    BY <2>3, <2>5, <2>6
<1>7. Lone(first) /\ (first # <<>> => ToSet(first) = {first[1]})
  BY <1>6 DEF Lone, ToSet
<1>8. Cites(first) \subseteq Cites(listed)
  BY <1>1, <1>3 DEF Cites
<1> QED
  BY <1>1, <1>3, <1>7, <1>8

LEMMA LastOfTrail ==
  ASSUME NEW X, NEW trail \in Seq(X)
  PROVE  /\ LastOf(trail) \subseteq DOMAIN trail
         /\ IsFiniteSet(LastOf(trail)) /\ Cardinality(LastOf(trail)) <= 1
         /\ Len(trail) # 0 => Len(trail) \in LastOf(trail)
<1>1. Len(trail) \in Nat /\ DOMAIN trail = 1..Len(trail)
  OBVIOUS
<1>2. LastOf(trail) \subseteq 1..Len(trail)
  BY <1>1 DEF LastOf
<1>3. LastOf(trail) \in SUBSET {Len(trail)}
  BY DEF LastOf
<1>4. IsFiniteSet({Len(trail)}) /\ Cardinality({Len(trail)}) = 1
  BY FS_Singleton
<1>5. IsFiniteSet(LastOf(trail)) /\ Cardinality(LastOf(trail)) <= 1
  BY <1>3, <1>4, FS_Subset
<1> QED
  BY <1>1, <1>2, <1>5 DEF LastOf

(* There is room for less.                                                 *)
LEMMA RoomForLess ==
  ASSUME NEW D, IsFiniteSet(D), NEW more \in SUBSET D, Cardinality(more) <= MaxEvents,
         NEW less, less \subseteq more
  PROVE  Cardinality(less) <= MaxEvents
<1>1. IsFiniteSet(more)
  BY FS_Subset
<1>2. IsFiniteSet(less) /\ Cardinality(less) <= Cardinality(more)
  BY <1>1, FS_Subset
<1>3. Cardinality(less) \in Nat /\ Cardinality(more) \in Nat /\ MaxEvents \in Nat
  BY <1>1, <1>2, FS_CardinalityType, CapsuleLimits
<1> QED
  BY <1>2, <1>3

LEMMA FiniteRange ==
  ASSUME NEW S, IsFiniteSet(S), NEW f, DOMAIN f = S, f = [x \in S |-> f[x]],
         NEW T, \A y \in T : \E x \in S : y = f[x]
  PROVE  IsFiniteSet(T)
<1> DEFINE all == {f[x] : x \in S}
<1>1. f \in [S -> all]
  OBVIOUS
<1>2. f \in Surjection(S, all)
  BY <1>1 DEF Surjection
<1>3. IsFiniteSet(all)
  BY <1>2, FS_Surjection
<1>4. T \in SUBSET all
  OBVIOUS
<1> HIDE DEF all
<1> QED
  BY <1>3, <1>4, FS_Subset

(* The order of the capsule has a first in any of the lists.               *)
LEMMA FirstByTime ==
  ASSUME NEW S, IsFiniteSet(S), \A f \in S : f.at \in Int,
         NEW T \in SUBSET S, T # {}
  PROVE  \E f \in T : \A g \in T : f.at <= g.at
<1> DEFINE First(U) == \E f \in U : \A g \in U : f.at <= g.at
           Q == {U \in SUBSET S : U = {} \/ First(U)}
<1>1. {} \in Q
  OBVIOUS
<1>2. \A f, g, h \in S : f.at <= g.at /\ g.at <= h.at => f.at <= h.at
  OBVIOUS
<1>3. \A f, g \in S : f.at <= f.at /\ (f.at <= g.at \/ g.at <= f.at)
  OBVIOUS
<1>4. ASSUME NEW U \in SUBSET S, U \in Q, NEW x \in S \ U
      PROVE  U \cup {x} \in Q
  <2>1. CASE U = {}
    BY <1>3, <2>1
  <2>2. CASE First(U)
    <3>1. PICK f \in U : \A g \in U : f.at <= g.at
      BY <2>2
    <3>2. CASE x.at <= f.at
      <4>1. \A g \in U : x.at <= g.at
        BY <1>2, <3>1, <3>2
      <4> QED
        BY <1>3, <4>1
    <3>3. CASE f.at <= x.at
      BY <3>1, <3>3
    <3> QED
      BY <1>3, <3>2, <3>3
  <2> QED
    BY <1>4, <2>1, <2>2
<1>5. T \in Q
  <2> HIDE DEF Q
  <2> QED
    BY <1>1, <1>4, SetInduction
<1> QED
  BY <1>5

(* The findings in that order are the same findings.                       *)
LEMMA ByTimeFacts ==
  ASSUME NEW Z, \A x \in Z : x.at \in Int, NEW listed \in Seq(Z)
  PROVE  /\ ByTime(listed) \in Seq(Z) /\ ToSet(ByTime(listed)) = ToSet(listed)
         /\ Lone(listed) => Lone(ByTime(listed))
<1> DEFINE S == ToSet(listed)
           first == [left \in SUBSET S |-> CHOOSE f \in left : \A g \in left : f.at <= g.at]
           sorted == ByTime(listed)
<1>1. /\ S \subseteq Z /\ \A x \in S : \E n \in DOMAIN listed : x = listed[n]
      /\ DOMAIN listed = 1..Len(listed) /\ Len(listed) \in Nat
      /\ listed = [n \in DOMAIN listed |-> listed[n]]
  BY DEF ToSet
<1>2. IsFiniteSet(S)
  <2>1. IsFiniteSet(DOMAIN listed)
    BY <1>1, CountUpTo
  <2> HIDE DEF S
  <2> QED
    BY <1>1, <2>1, FiniteRange
<1>3. sorted = InTurn(S, first)
  BY Zenon DEF ByTime
<1> HIDE DEF S, sorted
<1>4. \A T \in SUBSET S : T # {} => first[T] \in T
  <2> SUFFICES ASSUME NEW T \in SUBSET S, T # {}
               PROVE  first[T] \in T
    OBVIOUS
  <2>1. \A f \in S : f.at \in Int
    BY <1>1
  <2>2. \E f \in T : \A g \in T : f.at <= g.at
    BY <1>2, <2>1, FirstByTime
  <2>3. first[T] = CHOOSE f \in T : \A g \in T : f.at <= g.at
    OBVIOUS
  <2> QED
    BY <2>2, <2>3
<1> HIDE DEF first
<1>5. sorted \in Seq(S) /\ ToSet(sorted) = S /\ Distinct(sorted)
  BY <1>2, <1>3, <1>4, InTurnFacts
<1>6. sorted \in Seq(Z)
  BY <1>1, <1>5
<1>7. ASSUME Lone(listed), NEW m \in DOMAIN sorted, NEW n \in DOMAIN sorted,
             sorted[m].id = sorted[n].id
      PROVE  m = n
  <2>1. sorted[m] \in S /\ sorted[n] \in S
    BY <1>5 DEF ToSet
  <2>2. PICK j \in DOMAIN listed : sorted[m] = listed[j]
    BY <1>1, <2>1
  <2>3. PICK k \in DOMAIN listed : sorted[n] = listed[k]
    BY <1>1, <2>1
  <2>4. sorted[m] = sorted[n]
    BY <1>7, <2>2, <2>3 DEF Lone
  <2> QED
    BY <1>5, <2>4 DEF Distinct
<1> QED
  BY <1>5, <1>6, <1>7 DEF S, sorted, Lone

(* What stands first in the list of findings, if the evidence of it fits.  *)
HeadOf(trail, listed) ==
  IF Fits(LastOf(trail), Cites(FirstProvable(listed))) THEN FirstProvable(listed) ELSE <<>>

KeptOf(trail, receipts, listed) ==
  Cut(Fitting(receipts, LastOf(trail) \cup Cites(HeadOf(trail, listed)), MaxEvents), MaxReceipts)

OthersOf(listed) ==
  Only(ByTime(listed),
       {f \in ToSet(listed) :
          FirstProvable(listed) = <<>> \/ f.id # FirstProvable(listed)[1].id})

ShownOf(trail, receipts, listed) ==
  Cut(HeadOf(trail, listed)
        \o Fitting(OthersOf(listed),
                   LastOf(trail) \cup Cites(HeadOf(trail, listed))
                     \cup Cites(KeptOf(trail, receipts, listed)), MaxEvents + 1),
      MaxFindings)

LEMMA SelectionIs ==
  ASSUME NEW trail, NEW receipts, NEW listed
  PROVE  /\ Selection(trail, receipts, listed).receipts = KeptOf(trail, receipts, listed)
         /\ Selection(trail, receipts, listed).findings = ShownOf(trail, receipts, listed)
         /\ Selection(trail, receipts, listed).required =
              LastOf(trail) \cup Cites(KeptOf(trail, receipts, listed))
                \cup Cites(ShownOf(trail, receipts, listed))
<1> DEFINE kept == KeptOf(trail, receipts, listed)
           shown == ShownOf(trail, receipts, listed)
<1>1. Selection(trail, receipts, listed) =
        [receipts |-> kept, findings |-> shown,
         required |-> LastOf(trail) \cup Cites(kept) \cup Cites(shown)]
  BY Zenon DEF Selection, KeptOf, ShownOf, HeadOf, OthersOf
<1> HIDE DEF kept, shown
<1> QED
  BY <1>1 DEF kept, shown

LEMMA CitesWithin ==
  ASSUME NEW D, NEW Z, \A x \in Z : x.cites \subseteq D, NEW list \in Seq(Z)
  PROVE  Cites(list) \subseteq D
<1>1. ToSet(list) \subseteq Z
  BY DEF ToSet
<1> QED
  BY <1>1 DEF Cites

LEMMA NothingToCite == Cites(<<>>) = {} /\ ToSet(<<>>) = {} /\ Lone(<<>>)
<1>1. ToSet(<<>>) = {}
  BY DEF ToSet
<1> QED
  BY <1>1 DEF Cites, Lone

CitesIn(Z, D) == \A x \in Z : x.cites \subseteq D

HeadIsGood(head, trail, listed, D, Z) ==
  /\ head \in Seq(Z) /\ Lone(head) /\ ToSet(head) \subseteq ToSet(listed)
  /\ head \in {<<>>, FirstProvable(listed)}
  /\ LastOf(trail) \cup Cites(head) \in SUBSET D
  /\ Cardinality(LastOf(trail) \cup Cites(head)) <= MaxEvents

LEMMA HeadFacts ==
  ASSUME NEW trail, NEW D, IsFiniteSet(D), LastOf(trail) \subseteq D,
         IsFiniteSet(LastOf(trail)), Cardinality(LastOf(trail)) <= 1,
         NEW Z, CitesIn(Z, D), NEW listed \in Seq(Z)
  PROVE  HeadIsGood(HeadOf(trail, listed), trail, listed, D, Z)
<1> DEFINE head == HeadOf(trail, listed)
           first == FirstProvable(listed)
           last == LastOf(trail)
<1>1. /\ first \in Seq(Z) /\ Lone(first)
      /\ \A f \in ToSet(first) : f \in ToSet(listed)
      /\ Cites(first) \subseteq Cites(listed)
  BY FirstFacts
<1>2. last \subseteq D /\ IsFiniteSet(last) /\ Cardinality(last) <= 1
  OBVIOUS
<1>3. Cites(listed) \subseteq D
  BY CitesWithin DEF CitesIn
<1>4. head = IF Fits(last, Cites(first)) THEN first ELSE <<>>
  BY DEF HeadOf
<1> SUFFICES HeadIsGood(head, trail, listed, D, Z)
  OBVIOUS
<1> HIDE DEF first, last, head
<1>5. CASE Fits(last, Cites(first))
  BY <1>1, <1>2, <1>3, <1>4, <1>5 DEF Fits, first, last, HeadIsGood
<1>6. CASE ~Fits(last, Cites(first))
  <2>1. head = <<>> /\ <<>> \in Seq(Z)
    BY <1>4, <1>6
  <2>2. last \cup Cites(head) = last
    BY <2>1, NothingToCite
  <2>3. Cardinality(last) <= MaxEvents
    <3>1. Cardinality(last) \in Nat /\ MaxEvents \in Nat \ {0}
      BY <1>2, FS_CardinalityType, CapsuleLimits
    <3> QED
      BY <1>2, <3>1
  <2> QED
    BY <1>2, <2>1, <2>2, <2>3, NothingToCite DEF last, HeadIsGood
<1> QED
  BY <1>5, <1>6

LEMMA SelectionFacts ==
  ASSUME NEW X, NEW trail \in Seq(X), NEW D, D = DOMAIN trail, IsFiniteSet(D),
         NEW R, \A x \in R : x.cites \subseteq D, NEW receipts \in Seq(R),
         NEW Z, \A x \in Z : x.cites \subseteq D /\ x.at \in Int, NEW listed \in Seq(Z),
         NEW s, s = Selection(trail, receipts, listed)
  PROVE  /\ ToSet(s.receipts) \subseteq ToSet(receipts)
         /\ ToSet(s.findings) \subseteq ToSet(listed)
         /\ LastOf(trail) \cup Cites(s.receipts) \cup Cites(s.findings) \subseteq s.required
         /\ s.required \in SUBSET D /\ Cardinality(s.required) <= MaxEvents
         /\ Lone(listed) => Lone(s.findings)
         /\ \A f \in ToSet(FirstProvable(listed)), g \in ToSet(s.findings) :
              f.id = g.id => f \in ToSet(s.findings)
<1> DEFINE first == FirstProvable(listed)
           last == LastOf(trail)
           head == HeadOf(trail, listed)
           some == last \cup Cites(head)
           fitting == Fitting(receipts, some, MaxEvents)
           kept == KeptOf(trail, receipts, listed)
           more == last \cup Cites(head) \cup Cites(kept)
           others == OthersOf(listed)
           rest == Fitting(others, more, MaxEvents + 1)
           shown == ShownOf(trail, receipts, listed)
<1>0. MaxReceipts \in Nat /\ MaxFindings \in Nat \ {0}
  BY CapsuleLimits
<1>1. /\ head \in Seq(Z) /\ Lone(head) /\ ToSet(head) \subseteq ToSet(listed)
      /\ head \in {<<>>, first} /\ some \in SUBSET D /\ Cardinality(some) <= MaxEvents
  <2>1. LastOf(trail) \subseteq D /\ IsFiniteSet(LastOf(trail)) /\ Cardinality(LastOf(trail)) <= 1
    BY LastOfTrail
  <2> HIDE DEF first, head
  <2>2. HeadIsGood(head, trail, listed, D, Z)
    <3>1. CitesIn(Z, D)
      BY DEF CitesIn
    <3> QED
      BY Zenon, <2>1, <3>1, HeadFacts DEF head
  <2> QED
    BY Zenon, <2>2 DEF first, HeadIsGood
<1>2. kept = Cut(fitting, MaxReceipts) /\ shown = Cut(head \o rest, MaxFindings)
  BY DEF KeptOf, ShownOf
<1>3. s.receipts = kept /\ s.findings = shown /\ s.required = last \cup Cites(kept) \cup Cites(shown)
  BY SelectionIs
<1>4. /\ \A f \in ToSet(first) : f \in ToSet(listed)
      /\ first # <<>> => ToSet(first) = {first[1]}
      /\ first \in Seq(Z)
  BY FirstFacts
<1>5. /\ others \in Seq(Z) /\ ToSet(others) \subseteq ToSet(listed)
      /\ \A f \in ToSet(others) : first = <<>> \/ f.id # first[1].id
      /\ Lone(listed) => Lone(others)
  <2> DEFINE sorted == ByTime(listed)
             apart == {f \in ToSet(listed) : first = <<>> \/ f.id # first[1].id}
  <2>0. /\ sorted \in Seq(Z) /\ ToSet(sorted) = ToSet(listed)
        /\ Lone(listed) => Lone(sorted)
    BY ByTimeFacts
  <2>3. others = Only(sorted, apart) /\ apart \subseteq ToSet(listed)
        /\ \A f \in apart : first = <<>> \/ f.id # first[1].id
    BY DEF OthersOf
  <2> HIDE DEF sorted, apart, first, others
  <2>1. others \in Seq(Z) /\ ToSet(others) = ToSet(sorted) \cap apart
    BY <2>0, <2>3, OnlyFacts
  <2>2. Lone(listed) => Lone(others)
    BY <2>0, <2>3, LoneOnly
  <2> QED
    BY <2>0, <2>1, <2>2, <2>3
<1> HIDE DEF first, head, others, kept, shown, last
<1>6. /\ fitting \in Seq(R) /\ ToSet(fitting) \subseteq ToSet(receipts)
      /\ Cardinality(some \cup Cites(fitting)) <= MaxEvents
  <2> HIDE DEF some
  <2> QED
    BY <1>1, FittingFacts
<1>7. Cites(fitting) \subseteq D
  <2> HIDE DEF fitting
  <2> QED
    BY <1>6, CitesWithin
<1> HIDE DEF fitting
<1>8. kept \in Seq(R) /\ ToSet(kept) \subseteq ToSet(receipts) /\ Cites(kept) \subseteq Cites(fitting)
  BY <1>0, <1>2, <1>6, CutFacts
<1>9. more \in SUBSET D /\ Cardinality(more) <= MaxEvents
  <2>1. some \cup Cites(fitting) \in SUBSET D /\ more \subseteq some \cup Cites(fitting)
    BY <1>1, <1>7, <1>8
  <2> HIDE DEF some, more
  <2>2. Cardinality(more) <= MaxEvents
    BY <1>6, <2>1, RoomForLess
  <2> QED
    BY <2>1, <2>2
<1>10. /\ rest \in Seq(Z) /\ ToSet(rest) \subseteq ToSet(others)
       /\ Cardinality(more \cup Cites(rest)) <= MaxEvents
       /\ Lone(others) => Lone(rest)
  <2> HIDE DEF more
  <2> QED
    BY <1>5, <1>9, FittingFacts
<1>11. Cites(rest) \subseteq D
  <2> HIDE DEF rest
  <2> QED
    BY <1>10, CitesWithin
<1> HIDE DEF rest
<1>12. /\ head \o rest \in Seq(Z) /\ ToSet(head \o rest) = ToSet(head) \cup ToSet(rest)
       /\ Cites(head \o rest) = Cites(head) \cup Cites(rest)
       /\ Lone(rest) /\ (\A x \in ToSet(head), y \in ToSet(rest) : x.id # y.id)
            => Lone(head \o rest)
  BY <1>1, <1>10, ConcatFacts
<1>13. \A x \in ToSet(head), y \in ToSet(rest) : x.id # y.id
  <2>1. CASE head = <<>>
    BY <2>1, NothingToCite
  <2>2. CASE head = first /\ first # <<>>
    BY <1>4, <1>5, <1>10, <2>2
  <2> QED
    BY <1>1, <2>1, <2>2
<1>14. /\ shown \in Seq(Z) /\ ToSet(shown) \subseteq ToSet(head) \cup ToSet(rest)
       /\ Cites(shown) \subseteq Cites(head) \cup Cites(rest)
       /\ Lone(listed) => Lone(shown)
  <2> DEFINE both == head \o rest
  <2>1. both \in Seq(Z) /\ (Lone(listed) => Lone(both))
    BY <1>5, <1>10, <1>12, <1>13
  <2>2. shown = Cut(both, MaxFindings) /\ ToSet(both) = ToSet(head) \cup ToSet(rest)
        /\ Cites(both) = Cites(head) \cup Cites(rest)
    BY <1>2, <1>12
  <2> HIDE DEF both
  <2>3. /\ Cut(both, MaxFindings) \in Seq(Z) /\ ToSet(Cut(both, MaxFindings)) \subseteq ToSet(both)
        /\ Cites(Cut(both, MaxFindings)) \subseteq Cites(both)
        /\ Lone(both) => Lone(Cut(both, MaxFindings))
    BY <1>0, <2>1, CutFacts
  <2> QED
    BY <2>1, <2>2, <2>3
<1>15. s.required \in SUBSET D /\ Cardinality(s.required) <= MaxEvents
  <2> DEFINE all == more \cup Cites(rest)
  <2>1. all \in SUBSET D /\ s.required \subseteq all
    BY <1>3, <1>9, <1>11, <1>14
  <2> HIDE DEF all
  <2>2. Cardinality(s.required) <= MaxEvents
    <3>1. Cardinality(all) <= MaxEvents
      BY <1>10 DEF all
    <3> QED
      BY <2>1, <3>1, RoomForLess
  <2> QED
    BY <2>1, <2>2
<1>16. ASSUME NEW f \in ToSet(first), NEW g \in ToSet(shown), f.id = g.id
       PROVE  f \in ToSet(shown)
  <2>1. first # <<>> /\ f = first[1]
    BY <1>4, <1>16, NothingToCite
  <2>2. g \in ToSet(head)
    BY <1>5, <1>10, <1>14, <1>16, <2>1
  <2>3. g = f
    BY <1>1, <1>4, <2>1, <2>2, NothingToCite
  <2> QED
    BY <1>16, <2>3
<1> QED
  BY <1>3, <1>8, <1>14, <1>15, <1>16, <1>1, <1>5, <1>10 DEF first, last

Codes == {"unbound-actual", "lifecycle-incomplete", "missing-planned", "attempt-unsuccessful",
          "order-violation", "verifier-failed", "evidence-missing"}

(* A finding is known by its code and its task.                            *)
FindingSeverity(held, code, t) ==
  IF code \in {"unbound-actual", "evidence-missing"} THEN "warning"
  ELSE IF code = "missing-planned" /\ Bound(held, t) THEN "warning"
  ELSE "blocking"

EndIsKnown(events, t) ==
  Has(events, "terminal", t)
  \/ \E n \in DOMAIN events :
       /\ events[n].kind = "attempt" /\ events[n].task = t
       /\ events[n].status \in TerminalAttempt

CertaintyOf(events, code, t) ==
  IF code = "order-violation" \/ (code = "attempt-unsuccessful" /\ ~EndIsKnown(events, t))
  THEN "derived" ELSE "proven"

FindingOf(held, events, code, t) ==
  Finding(code, FindingSeverity(held, code, t), CertaintyOf(events, code, t), t)

IsFinding(held, events, f, codes, t) ==
  /\ f.code \in codes /\ f.task = t /\ f = FindingOf(held, events, f.code, t)

LEMMA IsFindingOf ==
  ASSUME NEW held, NEW events, NEW code, NEW t, NEW codes, code \in codes,
         NEW condition, NEW severity, severity = FindingSeverity(held, code, t),
         NEW certainty, certainty = CertaintyOf(events, code, t),
         NEW f \in Found(condition, code, severity, certainty, t)
  PROVE  IsFinding(held, events, f, codes, t)
<1>1. f = Finding(code, severity, certainty, t)
  BY DEF Found
<1>2. f.code = code /\ f.task = t
  BY <1>1 DEF Finding
<1> QED
  BY <1>1, <1>2 DEF IsFinding, FindingOf

LEMMA BoundStatus ==
  ASSUME NEW held, NEW t, StatusOf(held, t) # "none"
  PROVE  Bound(held, t)
  BY DEF StatusOf, Bound

LEMMA LifecycleFindingsAre ==
  ASSUME NEW held, NEW events, NEW t \in Tasks, NEW f \in LifecycleFindings(held, events, t)
  PROVE  IsFinding(held, events, f, Codes \ {"unbound-actual"}, t)
<1> DEFINE open == Ended(held.snapshot) /\ ~Over(held, t)
           skipped == StatusOf(held, t) = "skipped"
           failed == StatusOf(held, t) \in {"failed", "cancelled", "rejected"}
           certainty == IF EndIsKnown(events, t) THEN "proven" ELSE "derived"
           codes == Codes \ {"unbound-actual"}
<1>1. \/ f \in Found(open, "lifecycle-incomplete", "blocking", "proven", t)
      \/ f \in Found(skipped, "missing-planned", "warning", "proven", t)
      \/ f \in Found(failed, "attempt-unsuccessful", "blocking", certainty, t)
  BY DEF LifecycleFindings, EndIsKnown
<1>2. {"lifecycle-incomplete", "missing-planned", "attempt-unsuccessful"} \subseteq codes
  BY DEF Codes
<1>3. /\ FindingSeverity(held, "lifecycle-incomplete", t) = "blocking"
      /\ FindingSeverity(held, "attempt-unsuccessful", t) = "blocking"
      /\ skipped => FindingSeverity(held, "missing-planned", t) = "warning"
  BY BoundStatus DEF FindingSeverity
<1>4. /\ CertaintyOf(events, "lifecycle-incomplete", t) = "proven"
      /\ CertaintyOf(events, "missing-planned", t) = "proven"
      /\ CertaintyOf(events, "attempt-unsuccessful", t) = certainty
  BY DEF CertaintyOf
<1> HIDE DEF open, failed, certainty, codes
<1>5. CASE f \in Found(open, "lifecycle-incomplete", "blocking", "proven", t)
  BY <1>2, <1>3, <1>4, <1>5, IsFindingOf DEF codes
<1>6. CASE f \in Found(skipped, "missing-planned", "warning", "proven", t)
  <2>1. skipped
    BY <1>6 DEF Found
  <2> QED
    BY <1>2, <1>3, <1>4, <1>6, <2>1, IsFindingOf DEF codes
<1>7. CASE f \in Found(failed, "attempt-unsuccessful", "blocking", certainty, t)
  BY <1>2, <1>3, <1>4, <1>7, IsFindingOf DEF codes
<1> QED
  BY <1>1, <1>5, <1>6, <1>7

LEMMA OtherFindingsAre ==
  ASSUME NEW p, NEW held, NEW record, NEW t \in Tasks,
         NEW f, f \in DependencyFindings(p, held, t) \cup EvidenceFindings(p, held, record, t)
  PROVE  IsFinding(held, record.trail, f, Codes \ {"unbound-actual"}, t)
<1> DEFINE events == record.trail
           codes == Codes \ {"unbound-actual"}
<1>1. {"order-violation", "verifier-failed", "evidence-missing"} \subseteq codes
  BY DEF Codes
<1>2. /\ FindingSeverity(held, "order-violation", t) = "blocking"
      /\ FindingSeverity(held, "verifier-failed", t) = "blocking"
      /\ FindingSeverity(held, "evidence-missing", t) = "warning"
  BY DEF FindingSeverity
<1>3. /\ CertaintyOf(events, "order-violation", t) = "derived"
      /\ CertaintyOf(events, "verifier-failed", t) = "proven"
      /\ CertaintyOf(events, "evidence-missing", t) = "proven"
  BY DEF CertaintyOf
<1>4. CASE f \in DependencyFindings(p, held, t)
  <2>1. PICK condition : f \in Found(condition, "order-violation", "blocking", "derived", t)
    BY <1>4 DEF DependencyFindings
  <2> HIDE DEF codes, events
  <2>2. IsFinding(held, events, f, codes, t)
    BY <1>1, <1>2, <1>3, <2>1, IsFindingOf
  <2> QED
    BY <2>2 DEF codes, events
<1>5. CASE f \in EvidenceFindings(p, held, record, t)
  <2>1. PICK v \in Required(p, t) :
          \/ f \in Found(With(record, t, v, "fail"), "verifier-failed", "blocking", "proven", t)
          \/ f \in Found(~With(record, t, v, "fail") /\ ~With(record, t, v, "pass"),
                         "evidence-missing", "warning", "proven", t)
    BY <1>5 DEF EvidenceFindings
  <2> DEFINE fails == With(record, t, v, "fail")
             lacks == ~With(record, t, v, "fail") /\ ~With(record, t, v, "pass")
  <2> HIDE DEF codes, events, fails, lacks
  <2>2. CASE f \in Found(fails, "verifier-failed", "blocking", "proven", t)
    BY <1>1, <1>2, <1>3, <2>2, IsFindingOf DEF codes, events
  <2>3. CASE f \in Found(lacks, "evidence-missing", "warning", "proven", t)
    BY <1>1, <1>2, <1>3, <2>3, IsFindingOf DEF codes, events
  <2> QED
    BY <2>1, <2>2, <2>3 DEF fails, lacks
<1> QED
  BY <1>4, <1>5

LEMMA FindingsAre ==
  ASSUME NEW p, NEW held, NEW record, NEW f \in Findings(p, held, record)
  PROVE  \/ IsFinding(held, record.trail, f, {"unbound-actual"}, NoTask)
            /\ Has(record.trail, "published", NoTask)
         \/ \E t \in Tasks : IsFinding(held, record.trail, f, Codes \ {"unbound-actual"}, t)
<1> DEFINE events == record.trail
           codes == Codes \ {"unbound-actual"}
           stray == Has(events, "published", NoTask)
           all(t) == IF ~Bound(held, t)
                     THEN Found(Ended(held.snapshot), "missing-planned", "blocking", "proven", t)
                     ELSE LifecycleFindings(held, record.trail, t)
                          \cup DependencyFindings(p, held, t)
                          \cup EvidenceFindings(p, held, record, t)
<1>1. Findings(p, held, record) =
        Found(stray, "unbound-actual", "warning", "proven", NoTask)
        \cup UNION {all(t) : t \in Tasks}
  BY Zenon DEF Findings
<1>2. CASE f \in Found(stray, "unbound-actual", "warning", "proven", NoTask)
  <2>1. stray
    BY <1>2 DEF Found
  <2>2. FindingSeverity(held, "unbound-actual", NoTask) = "warning"
        /\ CertaintyOf(events, "unbound-actual", NoTask) = "proven"
    BY DEF FindingSeverity, CertaintyOf
  <2> HIDE DEF events, stray, codes
  <2>3. IsFinding(held, events, f, {"unbound-actual"}, NoTask)
    BY <1>2, <2>2, IsFindingOf
  <2> QED
    BY <2>1, <2>3 DEF events, stray
<1>3. ASSUME NEW t \in Tasks, f \in all(t)
      PROVE  IsFinding(held, events, f, codes, t)
  <2>1. CASE ~Bound(held, t)
    <3>1. f \in Found(Ended(held.snapshot), "missing-planned", "blocking", "proven", t)
      BY <1>3, <2>1
    <3>2. /\ FindingSeverity(held, "missing-planned", t) = "blocking"
          /\ CertaintyOf(events, "missing-planned", t) = "proven" /\ "missing-planned" \in codes
      BY <2>1 DEF FindingSeverity, CertaintyOf, Codes
    <3> DEFINE ended == Ended(held.snapshot)
    <3> HIDE DEF all, codes, events, ended
    <3> QED
      BY <3>1, <3>2, IsFindingOf DEF ended
  <2>2. CASE Bound(held, t)
    <3>1. f \in LifecycleFindings(held, record.trail, t)
          \/ f \in DependencyFindings(p, held, t) \cup EvidenceFindings(p, held, record, t)
      BY <1>3, <2>2
    <3> HIDE DEF all
    <3> QED
      BY <3>1, LifecycleFindingsAre, OtherFindingsAre
  <2> QED
    BY <2>1, <2>2
<1> HIDE DEF all
<1>4. CASE \E t \in Tasks : f \in all(t)
  BY <1>3, <1>4
<1>5. f \in Found(stray, "unbound-actual", "warning", "proven", NoTask) \/ \E t \in Tasks : f \in all(t)
  BY <1>1
<1> QED
  BY <1>2, <1>4, <1>5

LEMMA SameFinding ==
  ASSUME NEW p, NEW held, NEW record,
         NEW f \in Findings(p, held, record), NEW g \in Findings(p, held, record),
         f.code = g.code, f.task = g.task
  PROVE  f = g
  BY FindingsAre DEF IsFinding

LEMMA FindingsFinite ==
  ASSUME NEW p, NEW held, NEW record
  PROVE  IsFiniteSet(Findings(p, held, record))
<1> DEFINE S == Codes \X (Tasks \cup {NoTask})
           F == [x \in S |-> FindingOf(held, record.trail, x[1], x[2])]
<1>1. IsFiniteSet(Codes) /\ IsFiniteSet(Tasks \cup {NoTask})
  <2>1. IsFiniteSet(Tasks \cup {NoTask})
    BY TasksFinite, FS_AddElement
  <2>2. IsFiniteSet(Codes)
    <3>1. \A some, x : IsFiniteSet(some) => IsFiniteSet(some \cup {x})
      BY FS_AddElement
    <3> DEFINE three == (({} \cup {"unbound-actual"}) \cup {"lifecycle-incomplete"})
                          \cup {"missing-planned"}
               five == (three \cup {"attempt-unsuccessful"}) \cup {"order-violation"}
               seven == (five \cup {"verifier-failed"}) \cup {"evidence-missing"}
    <3>2. IsFiniteSet(three)
      BY <3>1, FS_EmptySet
    <3>3. IsFiniteSet(five)
      <4> HIDE DEF three
      <4> QED
        BY <3>1, <3>2
    <3>4. IsFiniteSet(seven)
      <4> HIDE DEF five
      <4> QED
        BY <3>1, <3>3
    <3>5. seven = Codes
      BY DEF Codes
    <3> QED
      BY <3>4, <3>5
  <2> QED
    BY <2>1, <2>2
<1>2. IsFiniteSet(S)
  BY <1>1, FS_Product
<1>3. \A f \in Findings(p, held, record) : \E x \in S : f = F[x]
  <2> SUFFICES ASSUME NEW f \in Findings(p, held, record)
               PROVE  \E x \in S : f = F[x]
    OBVIOUS
  <2>1. PICK t \in Tasks \cup {NoTask} : IsFinding(held, record.trail, f, Codes, t)
    BY FindingsAre DEF IsFinding, Codes
  <2>2. <<f.code, t>> \in S /\ f = FindingOf(held, record.trail, f.code, t)
    BY <2>1 DEF IsFinding
  <2>3. F[<<f.code, t>>] = FindingOf(held, record.trail, f.code, t)
    BY <2>2
  <2> QED
    BY <2>2, <2>3
<1>4. DOMAIN F = S /\ F = [x \in S |-> F[x]]
  OBVIOUS
<1> HIDE DEF F, S
<1> QED
  BY <1>2, <1>3, <1>4, FiniteRange

(* compareFindings has a first in any of the lists.                        *)
LEMMA FirstInTurn ==
  ASSUME NEW S, IsFiniteSet(S), \A f \in S : f.at \in Int,
         NEW T \in SUBSET S, T # {}
  PROVE  \E f \in T : \A g \in T : ~Before(g, f)
<1> DEFINE First(U) == \E f \in U : \A g \in U : ~Before(g, f)
           Q == {U \in SUBSET S : U = {} \/ First(U)}
<1>1. {} \in Q
  OBVIOUS
<1>2. \A f, g, h \in S : Before(f, g) /\ Before(g, h) => Before(f, h)
  BY DEF Before
<1>3. \A f \in S : ~Before(f, f)
  BY DEF Before
<1>4. ASSUME NEW U \in SUBSET S, U \in Q, NEW x \in S \ U
      PROVE  U \cup {x} \in Q
  <2>1. CASE U = {}
    BY <1>3, <2>1
  <2>2. CASE First(U)
    <3>1. PICK f \in U : \A g \in U : ~Before(g, f)
      BY <2>2
    <3>2. CASE Before(x, f)
      <4>1. \A g \in U : ~Before(g, x)
        BY <1>2, <3>1, <3>2
      <4> QED
        BY <1>3, <4>1
    <3>3. CASE ~Before(x, f)
      BY <3>1, <3>3
    <3> QED
      BY <3>2, <3>3
  <2> QED
    BY <1>4, <2>1, <2>2
<1>5. T \in Q
  <2> HIDE DEF Q
  <2> QED
    BY <1>1, <1>4, SetInduction
<1> QED
  BY <1>5

(* What a record shows of the run is timed, and its trail is of its tasks. *)
Timed(held) == held.began \in [Tasks -> Int] /\ held.ended \in [Tasks -> Int]

IsListing(trail, x) ==
  /\ x.cites \subseteq DOMAIN trail /\ x.at \in Int
  /\ x.task \in Tasks \cup {NoTask} /\ x.id[2] = x.task
  /\ x.task # NoTask => \A n \in x.cites : trail[n].task \in {x.task, NoTask}

OfNoTask(report) == {f \in report.findings : f.task = NoTask}

UnboundListings(trail, report) ==
  {OfAgent(trail, f, n) : f \in OfNoTask(report), n \in Cursors(trail, "published", NoTask)}

BoundListings(held, trail, report) ==
  {OfTask(held, trail, f) : f \in report.findings \ OfNoTask(report)}

LEMMA UnboundAre ==
  ASSUME NEW trail, NEW report, NEW x \in UnboundListings(trail, report)
  PROVE  \E f \in OfNoTask(report) : \E n \in Cursors(trail, "published", NoTask) :
           x = OfAgent(trail, f, n)
  BY DEF UnboundListings

LEMMA ListingsAre ==
  ASSUME NEW held, NEW trail, NEW report
  PROVE  /\ Listings(held, trail, report) =
              UnboundListings(trail, report) \cup BoundListings(held, trail, report)
         /\ \A x \in UnboundListings(trail, report) :
              \E f \in OfNoTask(report) : \E n \in Cursors(trail, "published", NoTask) :
                x = OfAgent(trail, f, n)
         /\ \A x \in BoundListings(held, trail, report) :
              \E f \in report.findings \ OfNoTask(report) :
                x = OfTask(held, trail, f)
<1>1. Listings(held, trail, report) =
        UnboundListings(trail, report) \cup BoundListings(held, trail, report)
  BY SMT DEF Listings, UnboundListings, BoundListings, OfNoTask
<1> QED
  BY <1>1 DEF UnboundListings, BoundListings

LEMMA ListedIs ==
  ASSUME NEW held, NEW trail, NEW report
  PROVE  Listed(held, trail, report) =
           InTurn(Listings(held, trail, report),
                  [left \in SUBSET Listings(held, trail, report) |->
                     CHOOSE f \in left : \A g \in left : ~Before(g, f)])
  BY Zenon DEF Listed

LEMMA ListingFields ==
  ASSUME NEW f, NEW at, NEW cites
  PROVE  /\ Listing(f, at, cites).id = <<f.code, f.task>> /\ Listing(f, at, cites).task = f.task
         /\ Listing(f, at, cites).at = at /\ Listing(f, at, cites).cites = cites
         /\ Listing(f, at, cites).id[1] = f.code /\ Listing(f, at, cites).id[2] = f.task
  BY DEF Listing

LEMMA OfAgentFields ==
  ASSUME NEW trail, NEW f, NEW n, NEW x, x = OfAgent(trail, f, n)
  PROVE  /\ x.task = f.task /\ x.at = trail[n].at /\ x.cites = {n}
         /\ x.id[1] = f.code /\ x.id[2] = f.task
  BY ListingFields DEF OfAgent

LEMMA OfTaskFields ==
  ASSUME NEW held, NEW trail, NEW f, NEW x, x = OfTask(held, trail, f)
  PROVE  /\ x.task = f.task /\ x.at = ObservedAt(held, trail, f)
         /\ x.cites = Cited(held, trail, f)
         /\ x.id[1] = f.code /\ x.id[2] = f.task
  BY ListingFields DEF OfTask

LEMMA CitedFacts ==
  ASSUME NEW held, NEW trail, NEW f
  PROVE  /\ Cited(held, trail, f) \subseteq DOMAIN trail
         /\ \A n \in Cited(held, trail, f) : trail[n].task \in {f.task, NoTask}
<1>1. /\ ExecutionEnds(trail) \subseteq DOMAIN trail
      /\ \A n \in ExecutionEnds(trail) : trail[n].task = NoTask
  BY DEF ExecutionEnds, Cursors
<1>2. /\ TaskEnds(trail, f.task) \subseteq DOMAIN trail
      /\ \A n \in TaskEnds(trail, f.task) : trail[n].task = f.task
  BY DEF TaskEnds, Cursors
<1>3. /\ Cursors(trail, "terminal", f.task) \subseteq DOMAIN trail
      /\ \A n \in Cursors(trail, "terminal", f.task) : trail[n].task = f.task
  BY DEF Cursors
<1>4. /\ EventsOf(trail, f.task) \subseteq DOMAIN trail
      /\ \A n \in EventsOf(trail, f.task) : trail[n].task = f.task
  BY DEF EventsOf
<1>5. Cited(held, trail, f) \in
        {ExecutionEnds(trail), TaskEnds(trail, f.task), Cursors(trail, "terminal", f.task),
         EventsOf(trail, f.task)}
  BY DEF Cited
<1> QED
  BY <1>1, <1>2, <1>3, <1>4, <1>5

LEMMA ObservedAtFacts ==
  ASSUME NEW held, Timed(held), NEW X, NEW trail \in Seq(X), NEW f, f.task \in Tasks
  PROVE  ObservedAt(held, trail, f) \in Int
<1>1. held.began[f.task] \in Int /\ held.ended[f.task] \in Int /\ Len(trail) \in Int
  BY DEF Timed
<1> QED
  BY <1>1 DEF ObservedAt

LEMMA EachIsListing ==
  ASSUME NEW p, NEW held, Timed(held), NEW record, record.trail \in Seq(EventSet),
         NEW report, report.findings = Findings(p, held, record),
         NEW x \in Listings(held, record.trail, report)
  PROVE  IsListing(record.trail, x)
<1> DEFINE trail == record.trail
<1>1. ASSUME NEW f \in report.findings, f.task = NoTask,
             NEW n \in Cursors(trail, "published", NoTask), x = OfAgent(trail, f, n)
      PROVE  IsListing(trail, x)
  <2>1. n \in DOMAIN trail /\ trail[n].at \in Int
    <3>1. n \in DOMAIN trail
      BY DEF Cursors
    <3>2. trail[n] \in EventSet
      BY <3>1
    <3> QED
      BY <3>1, <3>2 DEF EventSet
  <2> HIDE DEF trail
  <2>2. x.cites = {n} /\ x.at = trail[n].at /\ x.task = NoTask /\ x.id[2] = NoTask
    BY <1>1, OfAgentFields, OfTaskFields
  <2> QED
    BY <2>1, <2>2 DEF IsListing
<1>2. ASSUME NEW f \in report.findings, f.task # NoTask,
             x = OfTask(held, trail, f)
      PROVE  IsListing(trail, x)
  <2>1. f.task \in Tasks
    BY <1>2, FindingsAre DEF IsFinding
  <2>2. ObservedAt(held, trail, f) \in Int
    BY <2>1, ObservedAtFacts
  <2> HIDE DEF trail
  <2>3. /\ x.cites = Cited(held, trail, f) /\ x.at = ObservedAt(held, trail, f)
        /\ x.task = f.task /\ x.id[2] = f.task
    BY <1>2, OfAgentFields, OfTaskFields
  <2>4. /\ Cited(held, trail, f) \subseteq DOMAIN trail
        /\ \A n \in Cited(held, trail, f) : trail[n].task \in {f.task, NoTask}
    BY CitedFacts
  <2> QED
    BY <2>1, <2>2, <2>3, <2>4 DEF IsListing
<1>3. \/ \E f \in report.findings : f.task = NoTask /\
           \E n \in Cursors(trail, "published", NoTask) : x = OfAgent(trail, f, n)
      \/ \E f \in report.findings : f.task # NoTask /\
           x = OfTask(held, trail, f)
  BY ListingsAre DEF OfNoTask
<1> QED
  BY <1>1, <1>2, <1>3

LEMMA ListingsFinite ==
  ASSUME NEW held, NEW X, NEW trail \in Seq(X), NEW report, IsFiniteSet(report.findings)
  PROVE  IsFiniteSet(Listings(held, trail, report))
<1> DEFINE unbound == OfNoTask(report)
           events == Cursors(trail, "published", NoTask)
           S == unbound \X events
           F == [x \in S |-> OfAgent(trail, x[1], x[2])]
           T == report.findings \ unbound
           G == [f \in T |-> OfTask(held, trail, f)]
<1>1. IsFiniteSet(unbound) /\ IsFiniteSet(T)
  <2>1. unbound \in SUBSET report.findings /\ T \in SUBSET report.findings
    BY DEF OfNoTask
  <2> HIDE DEF unbound, T
  <2> QED
    BY <2>1, FS_Subset
<1>2. IsFiniteSet(events)
  <2>1. Len(trail) \in Nat /\ events \in SUBSET (1..Len(trail))
    BY DEF Cursors
  <2>2. IsFiniteSet(1..Len(trail))
    BY <2>1, CountUpTo
  <2> HIDE DEF events
  <2> QED
    BY <2>1, <2>2, FS_Subset
<1>3. IsFiniteSet(S)
  <2> HIDE DEF unbound, events
  <2> QED
    BY <1>1, <1>2, FS_Product
<1>4. \A y \in UnboundListings(trail, report) : \E x \in S : y = F[x]
  <2> SUFFICES ASSUME NEW y \in UnboundListings(trail, report)
               PROVE  \E x \in S : y = F[x]
    OBVIOUS
  <2>1. \E f \in OfNoTask(report) : \E n \in Cursors(trail, "published", NoTask) :
          y = OfAgent(trail, f, n)
    <3> HIDE DEF F, G, S, T, unbound, events
    <3> QED
      BY UnboundAre
  <2>2. PICK f \in unbound, n \in events : y = OfAgent(trail, f, n)
    BY <2>1
  <2> HIDE DEF unbound, events
  <2>3. <<f, n>> \in S /\ F[<<f, n>>] = OfAgent(trail, f, n)
    OBVIOUS
  <2> QED
    BY <2>2, <2>3
<1>5. \A y \in BoundListings(held, trail, report) : \E x \in T : y = G[x]
  <2> SUFFICES ASSUME NEW y \in BoundListings(held, trail, report)
               PROVE  \E x \in T : y = G[x]
    OBVIOUS
  <2>1. PICK f \in T : y = OfTask(held, trail, f)
    BY ListingsAre
  <2> HIDE DEF T
  <2>2. G[f] = OfTask(held, trail, f)
    OBVIOUS
  <2> QED
    BY <2>1, <2>2
<1>6. DOMAIN F = S /\ F = [x \in S |-> F[x]] /\ DOMAIN G = T /\ G = [x \in T |-> G[x]]
  OBVIOUS
<1> HIDE DEF F, G, S, T
<1>7. IsFiniteSet(UnboundListings(trail, report))
  BY <1>3, <1>4, <1>6, FiniteRange
<1>8. IsFiniteSet(BoundListings(held, trail, report))
  BY <1>1, <1>5, <1>6, FiniteRange
<1> QED
  <2>1. IsFiniteSet(UnboundListings(trail, report) \cup BoundListings(held, trail, report))
    BY <1>7, <1>8, FS_Union
  <2>2. Listings(held, trail, report) =
          UnboundListings(trail, report) \cup BoundListings(held, trail, report)
    BY ListingsAre
  <2> QED
    BY <2>1, <2>2

(* A list of all of them.                                                  *)
IsListOf(listed, trail, S) ==
  /\ \A x \in S : IsListing(trail, x)
  /\ ToSet(listed) = S /\ listed \in Seq(S) /\ Distinct(listed)

LEMMA ListedFacts ==
  ASSUME NEW p, NEW held, Timed(held), NEW record, record.trail \in Seq(EventSet),
         NEW report, report.findings = Findings(p, held, record)
  PROVE  IsListOf(Listed(held, record.trail, report), record.trail,
                  Listings(held, record.trail, report))
<1> DEFINE listed == Listed(held, record.trail, report)
           S == Listings(held, record.trail, report)
           first == [left \in SUBSET S |-> CHOOSE f \in left : \A g \in left : ~Before(g, f)]
<1>1. IsFiniteSet(S)
  <2>1. IsFiniteSet(report.findings)
    BY FindingsFinite
  <2> QED
    BY <2>1, ListingsFinite
<1>2. \A x \in S : IsListing(record.trail, x)
  BY EachIsListing
<1>3. listed = InTurn(S, first)
  BY ListedIs
<1> HIDE DEF S
<1>4. \A T \in SUBSET S : T # {} => first[T] \in T
  <2> SUFFICES ASSUME NEW T \in SUBSET S, T # {}
               PROVE  first[T] \in T
    OBVIOUS
  <2>1. \A f \in S : f.at \in Int
    BY <1>2 DEF IsListing
  <2>2. \E f \in T : \A g \in T : ~Before(g, f)
    BY <1>1, <2>1, FirstInTurn
  <2>3. first[T] = CHOOSE f \in T : \A g \in T : ~Before(g, f)
    OBVIOUS
  <2> QED
    BY <2>2, <2>3
<1> HIDE DEF first
<1>5. InTurn(S, first) \in Seq(S) /\ ToSet(InTurn(S, first)) = S /\ Distinct(InTurn(S, first))
  BY <1>1, <1>4, InTurnFacts
<1> QED
  BY <1>2, <1>3, <1>5 DEF S, IsListOf

(* No two are known by the same name. *)
LEMMA ListedLone ==
  ASSUME NEW p, NEW held, Timed(held), NEW record, record.trail \in Seq(EventSet),
         NEW report, report.findings = Findings(p, held, record),
         NEW listed, listed = Listed(held, record.trail, report),
         FindingsAreDistinct(record)
  PROVE  Lone(listed)
<1> DEFINE trail == record.trail
           strays == Cursors(trail, "published", NoTask)
           S == Listings(held, trail, report)
<1>1. \A m, n \in strays : m = n
  BY DEF FindingsAreDistinct, Cursors
<1>2. ASSUME NEW x \in S
      PROVE  \E f \in report.findings :
               /\ x.id[1] = f.code /\ x.id[2] = f.task
               /\ \/ f.task = NoTask /\ \E n \in strays : x = OfAgent(trail, f, n)
                  \/ f.task # NoTask /\
                       x = OfTask(held, trail, f)
  <2>1. \/ \E f \in report.findings : f.task = NoTask /\
             \E n \in strays : x = OfAgent(trail, f, n)
        \/ \E f \in report.findings : f.task # NoTask /\
             x = OfTask(held, trail, f)
    BY <1>2, ListingsAre DEF OfNoTask
  <2>2. CASE \E f \in report.findings : f.task = NoTask /\
               \E n \in strays : x = OfAgent(trail, f, n)
    <3>1. PICK f \in report.findings, n \in strays :
            f.task = NoTask /\ x = OfAgent(trail, f, n)
      BY <2>2
    <3>2. x.id[1] = f.code /\ x.id[2] = f.task
      BY <3>1, OfAgentFields, OfTaskFields
    <3> HIDE DEF trail, strays
    <3> QED
      BY <3>1, <3>2
  <2>3. CASE \E f \in report.findings : f.task # NoTask /\
               x = OfTask(held, trail, f)
    <3>1. PICK f \in report.findings :
            f.task # NoTask /\ x = OfTask(held, trail, f)
      BY <2>3
    <3>2. x.id[1] = f.code /\ x.id[2] = f.task
      BY <3>1, OfAgentFields, OfTaskFields
    <3> HIDE DEF trail, strays
    <3> QED
      BY <3>1, <3>2
  <2> QED
    BY <2>1, <2>2, <2>3
<1> HIDE DEF strays, S
<1>3. ASSUME NEW x \in S, NEW y \in S, x.id = y.id
      PROVE  x = y
  <2> DEFINE Of(z, f) ==
               /\ z.id[1] = f.code /\ z.id[2] = f.task
               /\ \/ f.task = NoTask /\ \E n \in strays : z = OfAgent(trail, f, n)
                  \/ f.task # NoTask /\
                       z = OfTask(held, trail, f)
  <2>1. PICK f \in report.findings : Of(x, f)
    BY <1>2
  <2>2. PICK g \in report.findings : Of(y, g)
    BY <1>2
  <2>3. f.code = g.code /\ f.task = g.task
    BY <1>3, <2>1, <2>2
  <2>4. f = g
    BY <2>3, SameFinding
  <2> HIDE DEF trail
  <2> QED
    BY <1>1, <2>1, <2>2, <2>4
<1>4. ToSet(listed) = S /\ Distinct(listed)
  <2>1. IsListOf(Listed(held, record.trail, report), record.trail,
                 Listings(held, record.trail, report))
    BY ListedFacts
  <2> QED
    BY Zenon, <2>1 DEF S, IsListOf
<1> SUFFICES ASSUME NEW m \in DOMAIN listed, NEW n \in DOMAIN listed, listed[m].id = listed[n].id
             PROVE  m = n
  BY DEF Lone
<1>5. listed[m] \in S /\ listed[n] \in S
  BY <1>4 DEF ToSet
<1>6. listed[m] = listed[n]
  BY <1>3, <1>5
<1> QED
  BY <1>4, <1>6 DEF Distinct

(* The receipts.                                                           *)
IsReceipt(trail, x) ==
  /\ x.task \in Tasks /\ x.cites = Cursors(trail, "terminal", x.task)
  /\ x.cites \subseteq DOMAIN trail

ReceiptOf(trail, r) ==
  [task |-> r.task, verifier |-> r.verifier, cites |-> Cursors(trail, "terminal", r.task)]

ReceiptListings(record) == {ReceiptOf(record.trail, r) : r \in record.receipts}

LEMMA ReceiptListIs ==
  ASSUME NEW record
  PROVE  ReceiptList(record) =
           InTurn(ReceiptListings(record),
                  [left \in SUBSET ReceiptListings(record) |-> CHOOSE r \in left : TRUE])
  BY Zenon DEF ReceiptList, ReceiptListings, ReceiptOf

IsReceiptList(list, trail, S) ==
  /\ \A x \in S : IsReceipt(trail, x)
  /\ ToSet(list) = S /\ list \in Seq(S)

LEMMA ReceiptListFacts ==
  ASSUME NEW record, IsFiniteSet(record.receipts), \A r \in record.receipts : r.task \in Tasks
  PROVE  IsReceiptList(ReceiptList(record), record.trail, ReceiptListings(record))
<1> DEFINE S == ReceiptListings(record)
           first == [left \in SUBSET S |-> CHOOSE r \in left : TRUE]
           F == [r \in record.receipts |-> ReceiptOf(record.trail, r)]
<1>1. IsFiniteSet(S)
  <2>1. DOMAIN F = record.receipts /\ F = [r \in record.receipts |-> F[r]]
    OBVIOUS
  <2>2. \A x \in S : \E r \in record.receipts : x = F[r]
    BY DEF ReceiptListings
  <2> HIDE DEF F, S
  <2> QED
    BY <2>1, <2>2, FiniteRange
<1>2. \A x \in S : IsReceipt(record.trail, x)
  <2> SUFFICES ASSUME NEW x \in S
               PROVE  IsReceipt(record.trail, x)
    OBVIOUS
  <2>1. PICK r \in record.receipts : x = ReceiptOf(record.trail, r)
    BY DEF ReceiptListings
  <2>2. x.task = r.task /\ x.cites = Cursors(record.trail, "terminal", r.task)
    BY <2>1 DEF ReceiptOf
  <2>3. x.cites \subseteq DOMAIN record.trail
    BY <2>2 DEF Cursors
  <2> QED
    BY <2>2, <2>3 DEF IsReceipt
<1>3. ReceiptList(record) = InTurn(S, first)
  BY ReceiptListIs
<1> HIDE DEF S
<1>4. \A T \in SUBSET S : T # {} => first[T] \in T
  OBVIOUS
<1> HIDE DEF first
<1>5. InTurn(S, first) \in Seq(S) /\ ToSet(InTurn(S, first)) = S
  BY <1>1, <1>4, InTurnFacts
<1> QED
  BY <1>2, <1>3, <1>5 DEF S, IsReceiptList

(* Both readings of a record are timed.                                    *)
LEMMA HeldIsTimedToo ==
  ASSUME NEW held \in HeldSet
  PROVE  Timed(held)
  BY DEF HeldSet, Timed

LEMMA ViewIsTimed ==
  ASSUME NEW held, NEW trail \in Seq(EventSet), NEW cursor \in 0..Len(trail)
  PROVE  Timed(View(held, trail, cursor))
<1> DEFINE seen == Seen(held, trail, cursor)
           statuses == OfKind(trail, seen, "execution", NoTask)
           shown == View(held, trail, cursor)
<1>1. /\ Len(trail) \in Nat /\ cursor \in Nat /\ seen \subseteq 1..cursor
      /\ \A n \in 1..cursor : n \in 1..Len(trail) /\ trail[n] \in EventSet
  BY DEF Seen
<1>2. \A n \in seen : trail[n].at \in Int
  BY <1>1 DEF EventSet
<1> HIDE DEF seen
<1>3. ASSUME NEW t \in Tasks
      PROVE  ViewedTimes(trail, seen, t).began \in Int /\ ViewedTimes(trail, seen, t).ended \in Int
  <2> DEFINE S == {n \in seen : trail[n].task = t}
             mine == OfKind(trail, seen, "attempt", t)
             last == trail[Max(mine)]
  <2>1. Unset \in Int
    BY DEF Unset
  <2>2. CASE mine = {}
    BY <2>1, <2>2 DEF ViewedTimes
  <2>3. CASE mine # {}
    <3>1. S \subseteq 1..cursor /\ mine \subseteq S
      BY <1>1 DEF OfKind
    <3>2. Min(S) \in S /\ Max(mine) \in mine
      <4> HIDE DEF S, mine
      <4> QED
        BY <1>1, <2>3, <3>1, FirstOfSome, LastOfSome
    <3>3. Min(S) \in seen /\ Max(mine) \in seen
      BY <3>1, <3>2
    <3>4. trail[Min(S)].at \in Int /\ trail[Max(mine)].at \in Int
      <4> HIDE DEF S, mine
      <4> QED
        BY <1>2, <3>3
    <3>5. ViewedTimes(trail, seen, t) =
            [began |-> trail[Min(S)].at,
             ended |-> IF last.status \in TerminalAttempt THEN last.at ELSE Unset]
      BY <2>3 DEF ViewedTimes
    <3> HIDE DEF S, mine
    <3> QED
      BY <2>1, <3>4, <3>5
  <2> QED
    BY <2>2, <2>3
<1>4. CASE statuses = {}
  <2>1. shown = Nothing
    BY <1>4 DEF View, seen
  <2>2. Timed(Nothing)
    BY DEF Timed, Nothing, Untimed, Unset
  <2> QED
    BY <2>1, <2>2
<1>5. CASE statuses # {}
  <2>1. /\ shown.began = [t \in Tasks |-> ViewedTimes(trail, seen, t).began]
        /\ shown.ended = [t \in Tasks |-> ViewedTimes(trail, seen, t).ended]
    BY <1>5 DEF View, seen
  <2> HIDE DEF shown
  <2> QED
    BY <1>3, <2>1 DEF Timed, shown
<1> QED
  BY <1>4, <1>5

(* The events of a capsule.                                                *)
LEMMA ExportedFacts ==
  ASSUME NEW X, NEW trail \in Seq(X), NEW D, D = DOMAIN trail, IsFiniteSet(D),
         NEW receipts, NEW listed, NEW selected,
         selected.required \in SUBSET D, Cardinality(selected.required) <= MaxEvents,
         NEW events, events = ExportedEvents(trail, receipts, listed, selected)
  PROVE  /\ selected.required \subseteq events /\ events \subseteq D
         /\ Cardinality(events) <= MaxEvents
<1> DEFINE omitted == (ToSet(receipts) \ ToSet(selected.receipts))
                      \cup (ToSet(listed) \ ToSet(selected.findings))
           all == [n \in DOMAIN trail |-> n]
           early == {n \in DOMAIN trail :
             \/ trail[n].kind = "terminal"
             \/ trail[n].kind = "execution" /\ trail[n].status \in {"running"} \cup TerminalExecution
             \/ trail[n].kind = "attempt" /\ trail[n].status \in TerminalAttempt}
           prior == Only(all, early)
           barred == UNION {x.cites : x \in omitted} \ selected.required
<1>1. events = Filled(selected.required, prior \o all, barred)
  BY Zenon DEF ExportedEvents
<1>2. all \in Seq(D)
  <2>1. D = 1..Len(trail) /\ Len(trail) \in Nat
    OBVIOUS
  <2>2. all = [n \in 1..Len(trail) |-> n]
    BY <2>1
  <2> HIDE DEF all
  <2> QED
    BY <2>1, <2>2
<1> HIDE DEF all, early
<1>3. prior \in Seq(D)
  BY <1>2, OnlyFacts
<1> HIDE DEF prior, barred
<1> DEFINE list == prior \o all
           required == selected.required
<1>4. list \in Seq(D)
  BY <1>2, <1>3
<1>5. required \in SUBSET D /\ Cardinality(required) <= MaxEvents
  OBVIOUS
<1> HIDE DEF list, required, omitted
<1>6. /\ required \subseteq Filled(required, list, barred) /\ Filled(required, list, barred) \subseteq D
      /\ Cardinality(Filled(required, list, barred)) <= MaxEvents
  BY <1>4, <1>5, FilledFacts
<1> QED
  BY <1>1, <1>6 DEF list, required

(* What a capsule is built of.                                             *)
Built(c, trail, receipts, listed, s) ==
  /\ c.cursor = Len(trail) /\ c.events = ExportedEvents(trail, receipts, listed, s)
  /\ c.receipts = s.receipts /\ c.findings = s.findings
  /\ c.first = Only(FirstProvable(listed),
                    {f \in ToSet(listed) : f.id \in {g.id : g \in ToSet(s.findings)}})
  /\ \A t \in Tasks : c.tasks[t] = {id \in {g.id : g \in ToSet(s.findings)} : id[2] = t}

LEMMA CapsuleIs ==
  ASSUME NEW held, NEW record, NEW report, NEW proposal,
         NEW receipts, receipts = ReceiptList(record),
         NEW listed, listed = Listed(held, record.trail, report),
         NEW selected, selected = Selection(record.trail, receipts, listed),
         NEW c, c = Capsule(held, record, report, proposal)
  PROVE  Built(c, record.trail, receipts, listed, selected) /\ c.proposal = proposal
<1> DEFINE shown == {f.id : f \in ToSet(selected.findings)}
           events == ExportedEvents(record.trail, receipts, listed, selected)
           first == Only(FirstProvable(listed), {f \in ToSet(listed) : f.id \in shown})
           tasks == [t \in Tasks |-> {id \in shown : id[2] = t}]
<1>1. c = [cursor |-> Len(record.trail), events |-> events, receipts |-> selected.receipts,
           findings |-> selected.findings, first |-> first, tasks |-> tasks, proposal |-> proposal]
  BY Zenon DEF Capsule
<1>2. \A t \in Tasks : tasks[t] = {id \in shown : id[2] = t}
  OBVIOUS
<1> HIDE DEF shown, events, first, tasks
<1>3. /\ c.cursor = Len(record.trail) /\ c.events = events /\ c.receipts = selected.receipts
      /\ c.findings = selected.findings /\ c.first = first /\ c.tasks = tasks
      /\ c.proposal = proposal
  BY <1>1
<1> QED
  BY Zenon, <1>2, <1>3 DEF shown, events, first, Built

LEMMA IsGoodRecord ==
  ASSUME NEW p, NEW record, NEW whole, RecordIsGood(p, record, whole)
  PROVE  /\ record.trail \in Seq(EventSet) /\ record.held \in HeldSet /\ Timed(record.held)
         /\ IsFiniteSet(DOMAIN record.trail) /\ DOMAIN record.trail = 1..Len(record.trail)
         /\ Len(record.trail) \in Nat
         /\ IsFiniteSet(record.receipts)
         /\ \A r \in record.receipts : r.task \in Tasks /\ Has(record.trail, "terminal", r.task)
         /\ \A n \in DOMAIN record.trail :
              record.trail[n].task # NoTask => Bound(record.held, record.trail[n].task)
<1>1. record.trail \in Seq(EventSet) /\ record.held \in HeldSet
  BY DEF RecordIsGood, HeldIsGood
<1>2. DOMAIN record.trail = 1..Len(record.trail) /\ Len(record.trail) \in Nat
  BY <1>1
<1>3. IsFiniteSet(1..Len(record.trail))
  BY <1>2, CountUpTo
<1>4. \A n \in 1..Len(record.trail) :
        record.trail[n].task # NoTask => Bound(record.held, record.trail[n].task)
  BY DEF RecordIsGood, IsPast
<1>5. ReceiptsAreGood(record)
  BY DEF RecordIsGood
<1> QED
  BY <1>1, <1>2, <1>3, <1>4, <1>5, HeldIsTimedToo DEF ReceiptsAreGood

(* The evidence of a receipt is there and is of its task.                  *)
LEMMA ReceiptResolves ==
  ASSUME NEW p, NEW record, NEW whole, RecordIsGood(p, record, whole),
         NEW x \in ToSet(ReceiptList(record))
  PROVE  /\ x.cites # {} /\ Bound(record.held, x.task)
         /\ \A n \in x.cites : record.trail[n].task = x.task
<1>1. IsReceiptList(ReceiptList(record), record.trail, ReceiptListings(record))
  BY IsGoodRecord, ReceiptListFacts
<1>2. x \in ReceiptListings(record) /\ IsReceipt(record.trail, x)
  BY <1>1 DEF IsReceiptList
<1>3. PICK r \in record.receipts : x = ReceiptOf(record.trail, r)
  BY <1>2 DEF ReceiptListings
<1>4. x.task = r.task
  BY <1>3 DEF ReceiptOf
<1>5. r.task \in Tasks /\ Has(record.trail, "terminal", r.task)
  BY IsGoodRecord
<1>6. PICK n \in DOMAIN record.trail :
        record.trail[n].kind = "terminal" /\ record.trail[n].task = x.task
  BY <1>4, <1>5 DEF Has
<1>7. x.cites = Cursors(record.trail, "terminal", x.task)
  BY <1>2 DEF IsReceipt
<1>8. n \in x.cites /\ \A m \in x.cites : record.trail[m].task = x.task
  BY <1>6, <1>7 DEF Cursors
<1>9. x.task # NoTask
  BY <1>4, <1>5, NoTaskIsNone
<1>10. Bound(record.held, x.task)
  BY <1>6, <1>9, IsGoodRecord
<1> QED
  BY <1>8, <1>10

LEMMA FoundFindings ==
  ASSUME NEW p, NEW held, NEW record, NEW report, report = ReportOf(p, held, record)
  PROVE  report.findings = Findings(p, held, record)
<1>1. PICK t \in Tasks : TRUE
  BY TasksFinite
<1> QED
  BY <1>1, ReportFacts

(* What a selection may hold.                                              *)
Selected(s, trail, receipts, listed) ==
  /\ ToSet(s.receipts) \subseteq ToSet(receipts)
  /\ ToSet(s.findings) \subseteq ToSet(listed)
  /\ LastOf(trail) \cup Cites(s.receipts) \cup Cites(s.findings) \subseteq s.required
  /\ s.required \in SUBSET DOMAIN trail /\ Cardinality(s.required) <= MaxEvents
  /\ Lone(listed) => Lone(s.findings)
  /\ \A f \in ToSet(FirstProvable(listed)), g \in ToSet(s.findings) :
       f.id = g.id => f \in ToSet(s.findings)

(* What a selection is made from.                                          *)
CanSelect(X, trail, R, receipts, Z, listed) ==
  /\ trail \in Seq(X) /\ IsFiniteSet(DOMAIN trail)
  /\ receipts \in Seq(R) /\ \A x \in R : x.cites \subseteq DOMAIN trail
  /\ listed \in Seq(Z) /\ \A x \in Z : x.cites \subseteq DOMAIN trail /\ x.at \in Int

LEMMA SelectionIsSelected ==
  ASSUME NEW X, NEW trail, NEW R, NEW receipts, NEW Z, NEW listed,
         CanSelect(X, trail, R, receipts, Z, listed)
  PROVE  Selected(Selection(trail, receipts, listed), trail, receipts, listed)
<1> DEFINE D == DOMAIN trail
           s == Selection(trail, receipts, listed)
<1>1. trail \in Seq(X)
  BY DEF CanSelect
<1>2. D = DOMAIN trail /\ IsFiniteSet(D)
  BY DEF CanSelect
<1>3. receipts \in Seq(R) /\ \A x \in R : x.cites \subseteq D
  BY DEF CanSelect
<1>4. listed \in Seq(Z) /\ \A x \in Z : x.cites \subseteq D /\ x.at \in Int
  BY DEF CanSelect
<1>5. s = Selection(trail, receipts, listed)
  OBVIOUS
<1> HIDE DEF D, s
<1>6. /\ ToSet(s.receipts) \subseteq ToSet(receipts)
      /\ ToSet(s.findings) \subseteq ToSet(listed)
      /\ LastOf(trail) \cup Cites(s.receipts) \cup Cites(s.findings) \subseteq s.required
      /\ s.required \in SUBSET D /\ Cardinality(s.required) <= MaxEvents
      /\ Lone(listed) => Lone(s.findings)
      /\ \A f \in ToSet(FirstProvable(listed)), g \in ToSet(s.findings) :
           f.id = g.id => f \in ToSet(s.findings)
  BY <1>1, <1>2, <1>3, <1>4, <1>5, SelectionFacts
<1>7. Selected(s, trail, receipts, listed)
  BY Zenon, <1>2, <1>6 DEF Selected
<1> QED
  BY Zenon, <1>5, <1>7

LEMMA SelectedFacts ==
  ASSUME NEW p, NEW record, NEW whole, RecordIsGood(p, record, whole),
         NEW report, report = ReportOf(p, record.held, record),
         NEW receipts, receipts = ReceiptList(record),
         NEW listed, listed = Listed(record.held, record.trail, report),
         NEW selected, selected = Selection(record.trail, receipts, listed)
  PROVE  /\ Selected(selected, record.trail, receipts, listed)
         /\ \A x \in ToSet(listed) : IsListing(record.trail, x)
         /\ FindingsAreDistinct(record) => Lone(listed)
<1> DEFINE trail == record.trail
           D == DOMAIN trail
           R == ReceiptListings(record)
           Z == Listings(record.held, trail, report)
<1>1. /\ trail \in Seq(EventSet) /\ IsFiniteSet(D) /\ Timed(record.held)
      /\ report.findings = Findings(p, record.held, record)
  BY IsGoodRecord, FoundFindings
<1>2. IsReceiptList(receipts, trail, R)
  BY IsGoodRecord, ReceiptListFacts
<1>3. IsListOf(listed, trail, Z)
  BY <1>1, ListedFacts
<1>4. /\ receipts \in Seq(R) /\ \A x \in R : x.cites \subseteq D
      /\ listed \in Seq(Z) /\ \A x \in Z : x.cites \subseteq D /\ x.at \in Int
  BY <1>2, <1>3 DEF IsReceiptList, IsReceipt, IsListOf, IsListing
<1>5. \A x \in ToSet(listed) : IsListing(trail, x)
  BY <1>3 DEF IsListOf
<1>6. FindingsAreDistinct(record) => Lone(listed)
  BY <1>1, ListedLone
<1> HIDE DEF R, Z, D
<1>7. Selected(selected, trail, receipts, listed)
  <2>1. CanSelect(EventSet, trail, R, receipts, Z, listed)
    BY <1>1, <1>4 DEF CanSelect, D
  <2> HIDE DEF trail
  <2>2. selected = Selection(trail, receipts, listed)
    BY DEF trail
  <2> QED
    BY Zenon, <2>1, <2>2, SelectionIsSelected
<1> QED
  BY <1>5, <1>6, <1>7

IsBounded(c) == Cardinality(c.events) <= MaxEvents

LEMMA CapsuleResolves ==
  ASSUME NEW p, NEW record, NEW whole, RecordIsGood(p, record, whole),
         NEW report, report = ReportOf(p, record.held, record), NEW proposal,
         NEW c, c = Capsule(record.held, record, report, proposal)
  PROVE  /\ IsBounded(c)
         /\ EvidenceResolves(c, record.held, record.trail)
         /\ FindingsAreDistinct(record) => IdentitiesAreUnique(c)
<1> DEFINE trail == record.trail
           held == record.held
           D == DOMAIN trail
           receipts == ReceiptList(record)
           listed == Listed(held, trail, report)
           s == Selection(trail, receipts, listed)
           shown == {g.id : g \in ToSet(s.findings)}
<1>1. /\ c.cursor = Len(trail) /\ c.events = ExportedEvents(trail, receipts, listed, s)
      /\ c.receipts = s.receipts /\ c.findings = s.findings
      /\ c.first = Only(FirstProvable(listed), {f \in ToSet(listed) : f.id \in shown})
      /\ \A t \in Tasks : c.tasks[t] = {id \in shown : id[2] = t}
  <2>1. Built(c, trail, receipts, listed, s)
    <3> HIDE DEF receipts, listed, s
    <3> QED
      BY CapsuleIs DEF receipts, listed, s
  <2> QED
    BY Zenon, <2>1 DEF Built
<1>2. /\ Selected(s, trail, receipts, listed)
      /\ \A x \in ToSet(listed) : IsListing(trail, x)
      /\ FindingsAreDistinct(record) => Lone(listed)
  BY Zenon, SelectedFacts
<1>3. /\ trail \in Seq(EventSet) /\ IsFiniteSet(D) /\ D = 1..Len(trail) /\ Len(trail) \in Nat
      /\ \A n \in D : trail[n].task # NoTask => Bound(held, trail[n].task)
  BY IsGoodRecord
<1>4. \A x \in ToSet(receipts) :
        x.cites # {} /\ Bound(held, x.task) /\ \A n \in x.cites : trail[n].task = x.task
  BY ReceiptResolves
<1>5. listed \in Seq(Listings(held, trail, report))
  <2>1. report.findings = Findings(p, held, record) /\ Timed(held)
    BY IsGoodRecord, FoundFindings
  <2>2. IsListOf(listed, trail, Listings(held, trail, report))
    BY <1>3, <2>1, ListedFacts
  <2> QED
    BY <2>2 DEF IsListOf
<1> DEFINE events == c.events
<1>6. s.required \subseteq events /\ events \subseteq D /\ Cardinality(events) <= MaxEvents
  <2>1. s.required \in SUBSET D /\ Cardinality(s.required) <= MaxEvents
    BY <1>2 DEF Selected
  <2> HIDE DEF s, receipts, listed, trail, events
  <2>2. trail \in Seq(EventSet) /\ D = DOMAIN trail
    BY <1>3
  <2> HIDE DEF D
  <2>3. events = ExportedEvents(trail, receipts, listed, s)
    BY <1>1 DEF events
  <2> QED
    BY <1>3, <2>1, <2>2, <2>3, ExportedFacts
<1>7. /\ LastOf(trail) \subseteq events /\ Cites(s.receipts) \subseteq events
      /\ Cites(s.findings) \subseteq events
  <2> HIDE DEF s, receipts, listed, trail, events
  <2> QED
    BY <1>2, <1>6 DEF Selected
<1>8. /\ ToSet(s.receipts) \subseteq ToSet(receipts) /\ ToSet(s.findings) \subseteq ToSet(listed)
      /\ \A f \in ToSet(FirstProvable(listed)), g \in ToSet(s.findings) :
           f.id = g.id => f \in ToSet(s.findings)
  <2> HIDE DEF s, receipts, listed, trail
  <2> QED
    BY <1>2 DEF Selected
<1>9. ToSet(c.first) \subseteq {f \in ToSet(s.findings) : f.proven}
  <2> DEFINE first == FirstProvable(listed)
  <2>1. first \in Seq(Listings(held, trail, report)) /\ \A f \in ToSet(first) : f.proven
    BY <1>5, FirstFacts
  <2> HIDE DEF first, s, listed, trail, receipts
  <2>2. ToSet(c.first) = ToSet(first) \cap {f \in ToSet(listed) : f.id \in shown}
    <3> DEFINE among == {f \in ToSet(listed) : f.id \in shown}
    <3>1. c.first = Only(first, among)
      BY <1>1 DEF first
    <3> HIDE DEF among
    <3> QED
      BY <2>1, <3>1, OnlyFacts DEF among
  <2> QED
    BY <1>8, <2>1, <2>2 DEF first
<1> HIDE DEF s, receipts, listed, events
<1>10. LastOf(trail) = {Len(trail)} \ {0}
  BY DEF LastOf
<1>11. \A n \in events : n <= c.cursor
  <2> HIDE DEF trail
  <2> QED
    BY <1>1, <1>3, <1>6
<1>12. c.cursor \in events \/ (c.cursor = 0 /\ events = {})
  <2> HIDE DEF trail
  <2>1. CASE Len(trail) = 0
    <3>1. D = {}
      BY <1>3, <2>1
    <3> QED
      BY <1>1, <1>6, <2>1, <3>1
  <2>2. CASE Len(trail) # 0
    BY <1>1, <1>7, <1>10, <2>2
  <2> QED
    BY <2>1, <2>2
<1>13. ASSUME NEW f \in ToSet(s.findings)
       PROVE  /\ f.cites \subseteq events
              /\ f.task # NoTask => /\ f.id \in c.tasks[f.task]
                                    /\ \A n \in f.cites : trail[n].task \in {f.task, NoTask}
  <2> HIDE DEF trail
  <2>1. IsListing(trail, f)
    BY <1>2, <1>8
  <2>2. f.cites \subseteq events
    BY <1>7 DEF Cites
  <2>3. f.id \in shown
    OBVIOUS
  <2> HIDE DEF shown
  <2> QED
    BY <1>1, <2>1, <2>2, <2>3 DEF IsListing
<1>14. ASSUME NEW x \in ToSet(s.receipts)
       PROVE  /\ x.cites # {} /\ x.cites \subseteq events
              /\ Bound(held, x.task) /\ \A n \in x.cites : trail[n].task = x.task
  <2> HIDE DEF trail, held
  <2>1. x.cites \subseteq events
    BY <1>7 DEF Cites
  <2> QED
    BY <1>4, <1>8, <2>1
<1>15. \A n \in events : trail[n].task = NoTask \/ Bound(held, trail[n].task)
  BY <1>3, <1>6
<1>16. EvidenceResolves(c, held, trail)
  <2>1. c.receipts = s.receipts /\ c.findings = s.findings /\ c.events = events
    BY <1>1 DEF events
  <2> HIDE DEF trail, held
  <2> QED
    BY <1>9, <1>11, <1>12, <1>13, <1>14, <1>15, <2>1 DEF EvidenceResolves
<1>17. ASSUME FindingsAreDistinct(record)
       PROVE  IdentitiesAreUnique(c)
  <2>1. Lone(s.findings)
    <3> HIDE DEF trail
    <3> QED
      BY <1>2, <1>17 DEF Selected
  <2> QED
    BY <1>1, <2>1 DEF Lone, IdentitiesAreUnique
<1> QED
  BY <1>6, <1>16, <1>17 DEF IsBounded, events

-----------------------------------------------------------------------------
(* A run that may found a recipe.                                          *)

(* Without a finding nothing is affected.                                  *)
LEMMA NothingIsAffected ==
  ASSUME NEW p, NEW report, report.findings = {}
  PROVE  Affected(p, report) = {}
<1> DEFINE N == Cardinality(Tasks)
<1>0. PICK K : Spreads(K, p, report)
  BY AffectedSteps
<1>1. /\ Affected(p, report) = K[N]
      /\ K[0] = {f.task : f \in report.findings} \cap Tasks
      /\ \A n \in 1..N : K[n] = K[n - 1] \cup Dependents(p, K[n - 1])
  BY <1>0 DEF Spreads
<1>2. N \in Nat
  BY TasksFinite, FS_CardinalityType
<1> HIDE DEF N
<1> DEFINE Q == {k \in Nat : k <= N => K[k] = {}}
<1>3. 0 \in Q
  BY <1>1
<1>4. ASSUME NEW k \in Nat, k \in Q
      PROVE  k + 1 \in Q
  <2> SUFFICES ASSUME k + 1 <= N
               PROVE  K[k + 1] = {}
    OBVIOUS
  <2>1. k + 1 \in 1..N /\ (k + 1) - 1 = k /\ K[k] = {}
    BY <1>2, <1>4
  <2>2. K[k + 1] = K[k] \cup Dependents(p, K[k])
    BY <1>1, <2>1
  <2>3. Dependents(p, {}) = {}
    BY DEF Dependents
  <2> QED
    BY <2>1, <2>2, <2>3
<1>5. \A k \in Nat : k \in Q
  <2> HIDE DEF Q
  <2> QED
    BY <1>3, <1>4, NumberInduction
<1> QED
  BY <1>1, <1>2, <1>5

LEMMA VerifiedReuse ==
  ASSUME NEW p, NEW record, NEW whole, RecordIsGood(p, record, whole),
         NEW report, report = ReportOf(p, record.held, record),
         VerifiedSource(p, record.held, record, report)
  PROVE  Reusable(p, record.held, report, record) = Tasks
<1> DEFINE held == record.held
<1>1. /\ \A f \in report.findings : f.severity = "info"
      /\ \A t \in Tasks : report.tasks[t] = "confirmed"
  BY ReportState DEF VerifiedSource
<1>2. report.findings = {}
  <2> SUFFICES ASSUME NEW f \in report.findings
               PROVE  FALSE
    OBVIOUS
  <2>1. f \in Findings(p, held, record)
    BY FoundFindings
  <2>2. PICK t \in Tasks \cup {NoTask} : f = FindingOf(held, record.trail, f.code, t)
    BY <2>1, FindingsAre DEF IsFinding
  <2>3. f.severity = FindingSeverity(held, f.code, t)
    BY <2>2 DEF FindingOf, Finding
  <2> QED
    BY <1>1, <2>3 DEF FindingSeverity
<1>3. Affected(p, report) = {}
  BY <1>2, NothingIsAffected
<1>4. \A t \in Tasks : StatusOf(held, t) = "completed"
  BY DEF RecordIsGood, HeldIsGood, HeldIsSound, VerifiedSource
<1>5. ASSUME NEW t \in Tasks, NEW v \in Required(p, t)
      PROVE  With(record, t, v, "pass") /\ ~With(record, t, v, "fail")
  <2>1. With(record, t, v, "pass")
    BY DEF VerifiedSource
  <2>2. Receipt(t, v, "fail").result = "fail"
    BY DEF Receipt
  <2>3. Receipt(t, v, "fail") \notin record.receipts
    BY <2>2 DEF RecordIsGood, ReceiptsAreGood
  <2> QED
    BY <2>1, <2>3 DEF With
<1>6. ASSUME NEW t \in Tasks
      PROVE  t \in Reusable(p, held, report, record)
  <2>1. report.evidence[t] = EvidenceStatus(p, held, record, t)
    BY ReportFacts
  <2>2. report.evidence[t] = IF Required(p, t) = {} THEN "not-required" ELSE "verified"
    BY <1>5, <2>1 DEF EvidenceStatus
  <2> QED
    BY <1>1, <1>3, <1>4, <1>5, <2>2 DEF Reusable
<1>7. Reusable(p, held, report, record) \subseteq Tasks
  BY DEF Reusable
<1> QED
  BY <1>6, <1>7

(* An answer rests on events of the record, and what it calls proven on    *)
(* those of the task that was asked about.                                 *)
Rests(held, trail, question, t, fact) ==
  /\ fact.cites \subseteq DOMAIN trail
  /\ fact.certainty = "proven" /\ question # "first-divergence" =>
       fact.cites \subseteq Scoped(held, trail, t)

LEMMA FactFields ==
  ASSUME NEW certainty, NEW cites, NEW fact, fact = Fact(certainty, cites)
  PROVE  fact.certainty = certainty /\ fact.cites = cites
  BY DEF Fact

LEMMA ProvenRests ==
  ASSUME NEW held, NEW trail, NEW question, NEW t, NEW cites,
         cites \subseteq Scoped(held, trail, t), NEW certainty,
         NEW fact, fact = Fact(certainty, cites)
  PROVE  Rests(held, trail, question, t, fact)
<1>1. Scoped(held, trail, t) \subseteq DOMAIN trail
  BY DEF Scoped
<1> QED
  BY <1>1, FactFields DEF Rests

LEMMA DerivedRests ==
  ASSUME NEW held, NEW trail, NEW question, NEW t, NEW cites, cites \subseteq DOMAIN trail,
         NEW fact, fact = Fact("derived", cites)
  PROVE  Rests(held, trail, question, t, fact)
  BY FactFields DEF Rests

LEMMA AnswersRest ==
  ASSUME NEW held, NEW trail, NEW Z, NEW listed \in Seq(Z),
         \A x \in ToSet(listed) : x.cites \subseteq DOMAIN trail,
         NEW R, NEW receipts \in Seq(R), \A x \in ToSet(receipts) : IsReceipt(trail, x),
         NEW question \in Questions, NEW t \in Tasks \cup {NoTask},
         NEW fact \in Facts(held, trail, listed, receipts, question, t)
  PROVE  Rests(held, trail, question, t, fact)
<1> DEFINE events == Scoped(held, trail, t)
           ends == ExecutionEnds(trail) \cap events
           mine == {r \in ToSet(receipts) : Bound(held, r.task) /\ t \in {NoTask, r.task}}
           asked == Only(receipts, mine)
           active == {u \in Tasks : Bound(held, u) /\ ~Over(held, u) /\ t \in {NoTask, u}}
           last == {m \in events : \A k \in events : k <= m}
<1>1. \A r \in ToSet(asked) : r.cites \subseteq events
  <2>1. ToSet(asked) = ToSet(receipts) \cap mine
    <3> HIDE DEF mine
    <3> QED
      BY OnlyFacts
  <2> HIDE DEF asked
  <2> SUFFICES ASSUME NEW r \in ToSet(asked), NEW n \in r.cites
               PROVE  n \in events
    OBVIOUS
  <2>2. IsReceipt(trail, r) /\ Bound(held, r.task) /\ t \in {NoTask, r.task}
    BY <2>1
  <2>3. n \in DOMAIN trail /\ trail[n].task = r.task
    BY <2>2 DEF IsReceipt, Cursors
  <2> QED
    BY <2>2, <2>3 DEF Scoped
<1>2. Cites(asked) \subseteq events
  <2> HIDE DEF asked, events
  <2> QED
    BY <1>1 DEF Cites
<1>3. Cites(listed) \subseteq DOMAIN trail
  BY DEF Cites
<1>4. events \subseteq DOMAIN trail /\ ends \subseteq events
  BY DEF Scoped
<1>5. \A f \in ToSet(FirstProvable(listed)) : f.cites \subseteq DOMAIN trail
  BY FirstFacts
<1> DEFINE summary == {Fact("proven", ends), Fact("derived", Cites(listed)),
                       Fact("proven", Cites(asked))}
           why == IF Ended(held.snapshot) THEN {Fact("proven", ends)}
                  ELSE {Fact("derived", events)} \cup {Fact("proven", {n}) : n \in last}
           divergence == {Fact("proven", f.cites) : f \in ToSet(FirstProvable(listed))}
           activity == {Fact("proven", events \cap EventsOf(trail, u)) : u \in active}
           impact == {Fact("derived", events), Fact("derived", Cites(listed))}
           recovery == {Fact("derived", Cites(listed))}
           evidence == {Fact("proven", r.cites) : r \in ToSet(asked)}
<1>6. Facts(held, trail, listed, receipts, question, t) =
        CASE question = "summary" -> summary
          [] question = "why-running" -> why
          [] question = "first-divergence" -> divergence
          [] question = "active-tasks" -> activity
          [] question = "cancel-impact" -> impact
          [] question = "recovery-impact" -> recovery
          [] question = "evidence" -> evidence
  BY Zenon DEF Facts
<1>7. \A f \in summary : Rests(held, trail, question, t, f)
  <2> HIDE DEF ends, asked, events
  <2> QED
    BY <1>2, <1>3, <1>4, ProvenRests, DerivedRests DEF events
<1>8. \A f \in why : Rests(held, trail, question, t, f)
  <2>1. \A n \in last : {n} \subseteq events
    OBVIOUS
  <2> HIDE DEF ends, last
  <2>2. ASSUME NEW f \in why
        PROVE  f \in {Fact("proven", ends), Fact("derived", events)}
               \/ \E n \in last : f = Fact("proven", {n})
    BY <2>2
  <2> QED
    BY <1>4, <2>1, <2>2, ProvenRests
<1>9. question = "first-divergence" => \A f \in divergence : Rests(held, trail, question, t, f)
  <2> SUFFICES ASSUME question = "first-divergence", NEW x \in ToSet(FirstProvable(listed))
               PROVE  Rests(held, trail, question, t, Fact("proven", x.cites))
    OBVIOUS
  <2> QED
    BY <1>5, FactFields DEF Rests
<1>10. \A f \in activity : Rests(held, trail, question, t, f)
  <2> SUFFICES ASSUME NEW u \in active
               PROVE  Rests(held, trail, question, t, Fact("proven", events \cap EventsOf(trail, u)))
    OBVIOUS
  <2>1. events \cap EventsOf(trail, u) \subseteq Scoped(held, trail, t)
    OBVIOUS
  <2> QED
    BY <2>1, ProvenRests
<1>11. \A f \in impact \cup recovery : Rests(held, trail, question, t, f)
  <2> HIDE DEF events
  <2> QED
    BY <1>3, <1>4, DerivedRests
<1>12. \A f \in evidence : Rests(held, trail, question, t, f)
  <2> HIDE DEF asked
  <2> SUFFICES ASSUME NEW r \in ToSet(asked)
               PROVE  Rests(held, trail, question, t, Fact("proven", r.cites))
    OBVIOUS
  <2> QED
    BY <1>1, ProvenRests
<1>13. /\ question = "summary" => fact \in summary
       /\ question = "why-running" => fact \in why
       /\ question = "first-divergence" => fact \in divergence
       /\ question = "active-tasks" => fact \in activity
       /\ question = "cancel-impact" => fact \in impact
       /\ question = "recovery-impact" => fact \in recovery
       /\ question = "evidence" => fact \in evidence
  <2> HIDE DEF summary, why, divergence, activity, impact, recovery, evidence
  <2> QED
    BY <1>6
<1> HIDE DEF summary, why, divergence, activity, impact, recovery, evidence
<1> QED
  BY <1>7, <1>8, <1>9, <1>10, <1>11, <1>12, <1>13 DEF Questions

LEMMA RecordedAnswers ==
  ASSUME RecordIsGood(plan, store, observed), NEW through \in 0..Len(store.trail)
  PROVE  AnswersAreSupported(through)
<1> DEFINE held == View(store.held, store.trail, through)
           record == [store EXCEPT !.held = held, !.trail = SubSeq(store.trail, 1, through)]
           listed == Listed(held, record.trail, ReportOf(plan, held, record))
           all == ReceiptList(record)
           receipts == Only(all, {r \in ToSet(all) : r.cites # {}})
<1>1. /\ store.trail \in Seq(EventSet) /\ Len(store.trail) \in Nat
      /\ IsFiniteSet(store.receipts) /\ \A r \in store.receipts : r.task \in Tasks
      /\ DOMAIN store = {"held", "trail", "receipts"}
  BY IsGoodRecord DEF RecordIsGood
<1>2. Timed(held)
  BY <1>1, ViewIsTimed
<1> HIDE DEF held
<1>3. record.trail = SubSeq(store.trail, 1, through) /\ record.receipts = store.receipts
  BY <1>1
<1> HIDE DEF record
<1>4. record.trail \in Seq(EventSet)
  BY <1>1, <1>3
<1> DEFINE trail == record.trail
           report == ReportOf(plan, held, record)
           Z == Listings(held, trail, report)
           R == ReceiptListings(record)
<1>5. listed \in Seq(Z) /\ \A x \in ToSet(listed) : x.cites \subseteq DOMAIN trail
  <2>1. report.findings = Findings(plan, held, record)
    BY FoundFindings
  <2>2. IsListOf(Listed(held, trail, report), trail, Listings(held, trail, report))
    BY <1>2, <1>4, <2>1, ListedFacts
  <2> HIDE DEF trail, report
  <2>3. IsListOf(listed, trail, Z)
    BY <2>2 DEF report, trail
  <2> HIDE DEF listed, Z
  <2> QED
    BY <2>3 DEF IsListOf, IsListing
<1>6. all \in Seq(R) /\ \A x \in ToSet(all) : IsReceipt(trail, x)
  <2>1. IsReceiptList(all, trail, R)
    BY <1>1, <1>3, ReceiptListFacts
  <2> HIDE DEF all, R, trail
  <2> QED
    BY <2>1 DEF IsReceiptList
<1>7. receipts \in Seq(R) /\ \A x \in ToSet(receipts) : IsReceipt(trail, x)
  <2> DEFINE some == {r \in ToSet(all) : r.cites # {}}
  <2> HIDE DEF all, R, trail, some
  <2>1. Only(all, some) \in Seq(R) /\ ToSet(Only(all, some)) = ToSet(all) \cap some
    BY <1>6, OnlyFacts
  <2> QED
    BY <1>6, <2>1 DEF some
<1> HIDE DEF listed, receipts, Z, R
<1>8. ASSUME NEW question \in Questions, NEW t \in Tasks \cup {NoTask},
             NEW fact \in Facts(held, trail, listed, receipts, question, t)
      PROVE  Rests(held, trail, question, t, fact)
  BY <1>5, <1>7, AnswersRest
<1>9. AnswersAreSupported(through) =
        (held # Nothing =>
           \A question \in Questions, t \in Tasks \cup {NoTask} :
             \A fact \in Facts(held, trail, listed, receipts, question, t) :
               /\ fact.cites \subseteq DOMAIN trail
               /\ fact.certainty = "proven" /\ question # "first-divergence" =>
                    fact.cites \subseteq Scoped(held, trail, t))
  BY Zenon DEF AnswersAreSupported, held, record, listed, receipts
<1> QED
  BY <1>8, <1>9 DEF Rests

LEMMA ReportedFields ==
  ASSUME NEW held, NEW report, report = ReportOf(plan, held, store)
  PROVE  /\ Reported(held).held = held /\ Reported(held).report = report
         /\ Reported(held).proposal = Proposal(plan, held, report, store)
<1>1. Reported(held) = [held |-> held, report |-> report,
                        proposal |-> Proposal(plan, held, report, store)]
  BY Zenon DEF Reported
<1> QED
  BY <1>1

LEMMA ProposalIsSound ==
  ASSUME NEW p, NEW held, NEW report, NEW record, NEW c,
         c.proposal = Proposal(p, held, report, record)
  PROVE  ProposalResolves(c)
<1>1. /\ c.proposal.affected = Affected(p, report)
      /\ c.proposal.reusable = Reusable(p, held, report, record)
      /\ c.proposal.actions = {Action(p, held, t) : t \in Affected(p, report)}
  BY DEF Proposal
<1>2. \A t : Action(p, held, t).task = t
  BY DEF Action
<1>3. Reusable(p, held, report, record) \cap Affected(p, report) = {}
  BY DEF Reusable
<1> QED
  BY <1>1, <1>2, <1>3 DEF ProposalResolves

LEMMA RecordedExports == Scheduling /\ Recording => ExportsAreSupported
<1> SUFFICES ASSUME Recording
             PROVE  ExportsAreSupported
  OBVIOUS
<1>1. RecordIsGood(plan, store, observed)
  BY DEF Recording
<1> DEFINE r == Reported(store.held)
           report == ReportOf(plan, store.held, store)
           proposal == Proposal(plan, store.held, report, store)
           capsule == Capsule(r.held, store, r.report, r.proposal)
<1>2. r.held = store.held /\ r.report = report /\ r.proposal = proposal
  BY Zenon, ReportedFields
<1> HIDE DEF r
<1>3. /\ IsBounded(capsule) /\ EvidenceResolves(capsule, r.held, store.trail)
      /\ FindingsAreDistinct(store) => IdentitiesAreUnique(capsule)
  <2> HIDE DEF report, capsule, proposal
  <2>1. capsule = Capsule(store.held, store, report, proposal) /\ r.held = store.held
    BY <1>2 DEF capsule
  <2> QED
    BY <1>1, <2>1, CapsuleResolves DEF report
<1>4. ProposalResolves(capsule)
  <2>1. capsule.proposal = r.proposal
    <3> HIDE DEF capsule
    <3> QED
      BY CapsuleIs DEF capsule
  <2> HIDE DEF capsule, report
  <2> QED
    BY <1>2, <2>1, ProposalIsSound
<1>5. VerifiedSource(plan, r.held, store, r.report) => r.proposal.reusable = Tasks
  <2>1. proposal.reusable = Reusable(plan, store.held, report, store)
    BY DEF Proposal
  <2> HIDE DEF report, proposal
  <2> QED
    BY <1>1, <1>2, <2>1, VerifiedReuse DEF report
<1>6. AnswersAreSupported(Len(store.trail) \div 2)
  <2>1. Len(store.trail) \in Nat
    BY <1>1, IsGoodRecord
  <2>2. Len(store.trail) \div 2 \in 0..Len(store.trail)
    <3> DEFINE n == Len(store.trail)
    <3> HIDE DEF n
    <3>1. n \in Nat => n \div 2 \in 0..n
      OBVIOUS
    <3> QED
      BY <2>1, <3>1 DEF n
  <2> QED
    BY <1>1, <2>2, RecordedAnswers
<1>7. Cardinality(capsule.events) <= MaxEvents
  <2> HIDE DEF capsule
  <2> QED
    BY <1>3 DEF IsBounded
<1> HIDE DEF capsule
<1> QED
  BY Zenon, <1>3, <1>4, <1>5, <1>6, <1>7 DEF ExportsAreSupported, capsule, r

(* Whatever the limits of a capsule and however long the run: the capsule  *)
(* keeps within them, everything it names can be found in it, its findings *)
(* have identities of their own, a verified run has nothing to recover,    *)
(* and an answer as of a cursor rests on events up to it                   *)
(* (buildRunCapsule, isVerifiedSource, buildRunQuery), unless two Agents   *)
(* ran beside the plan: the host then gives none of them                   *)
(* (assertMatchingIdentity).                                               *)
THEOREM ExportsHold == Spec => []ExportsAreSupported
<1>1. Scheduling /\ Recording => ExportsAreSupported
  BY RecordedExports
<1> QED
  BY <1>1, AlwaysRecording, PTL
=============================================================================
