------------------------- MODULE ControlGrantsProofs --------------------------
(***************************************************************************)
(* What a cancel control may do, for any number of executions, grants and  *)
(* crashes.  The trail of an execution only grows, and an open grant       *)
(* remembers where in it the request stands: as long as that is the end,   *)
(* nothing newer came.  What the handler has left to do is lost in a crash *)
(* and what it recorded is not, so it never cancels without a record       *)
(* (ControlInv).                                                           *)
(*                                                                         *)
(* The rest (FullInv) is an account of what the ledger is owed.  While a   *)
(* host serves, every chain that is not closed is that of an open grant,   *)
(* whose slots are held back (SlotsExact), and every execution that lives  *)
(* has reserved a slot for each status it has not recorded (Covered).      *)
(* When the process ends, these reservations are gone, but what they       *)
(* covered is no less than what the next host must record: a closure for   *)
(* each open chain, an event for a snapshot that has none, and the end of  *)
(* each execution that lived (Owed).  So there is room for the repair      *)
(* (RepairFits), however often it is interrupted and taken up again.       *)
(***************************************************************************)
EXTENDS ControlGrants, DataLemmas

AnyKind == Status \cup {"none", "other"} \cup ControlKind
AnyEvent == [kind : AnyKind, grant : Grants \cup {None}]

Shape ==
  /\ trail \in [Executions -> Seq(AnyEvent)]
  /\ snapshot \in [Executions -> Status \cup {"none"}]
  /\ open \subseteq Grants
  /\ target \in [Grants -> Executions \cup {None}]
  /\ basis \in [Grants -> Nat]
  /\ cancelled \subseteq Grants
  /\ todo \in Seq(Op)

RequestAtBasis ==
  \A g \in open :
    /\ target[g] \in Executions
    /\ basis[g] \in 1..Len(trail[target[g]])
    /\ trail[target[g]][basis[g]] = Event("requested", g)

(* A handler goes on to the adapter or to the result only with a record. *)
OnRecord(work) ==
  \A n \in 1..Len(work) :
    work[n].op \in {"cancel", "result"} => work[n].of \in Grants /\ Consumed(work[n].of)

ControlInv ==
  /\ Shape /\ RequestAtBasis /\ OnRecord(todo)
  /\ NewerEventInvalidates /\ CancelIsOnRecord

-----------------------------------------------------------------------------
(* How a trail grows.                                                      *)

Grows(x, e) == trail' = [trail EXCEPT ![x] = Append(@, e)]

Extends ==
  \A x \in Executions :
    /\ Len(trail[x]) <= Len(trail'[x])
    /\ \A n \in 1..Len(trail[x]) : trail'[x][n] = trail[x][n]

LEMMA GrowthExtends ==
  ASSUME Shape, NEW x \in Executions, NEW e \in AnyEvent, Grows(x, e)
  PROVE  /\ trail' \in [Executions -> Seq(AnyEvent)]
         /\ Extends
         /\ trail'[x] = Append(trail[x], e)
         /\ \A y \in Executions : y # x => trail'[y] = trail[y]
<1>1. trail \in [Executions -> Seq(AnyEvent)]
  BY DEF Shape
<1>2. trail'[x] = Append(trail[x], e)
  BY <1>1 DEF Grows
<1>3. \A y \in Executions : y # x => trail'[y] = trail[y]
  BY <1>1 DEF Grows
<1>4. Append(trail[x], e) \in Seq(AnyEvent)
  BY <1>1
<1>5. trail' \in [Executions -> Seq(AnyEvent)]
  BY <1>1, <1>4 DEF Grows
<1>6. ASSUME NEW y \in Executions
      PROVE  /\ Len(trail[y]) <= Len(trail'[y])
             /\ \A n \in 1..Len(trail[y]) : trail'[y][n] = trail[y][n]
  <2>1. trail[y] \in Seq(AnyEvent)
    BY <1>1
  <2>2. CASE y = x
    BY <2>1, <2>2, <1>2
  <2>3. CASE y # x
    BY <2>1, <2>3, <1>3
  <2> QED
    BY <2>2, <2>3
<1> QED
  BY <1>2, <1>3, <1>5, <1>6 DEF Extends

LEMMA SameExtends ==
  ASSUME Shape, trail' = trail
  PROVE  Extends
<1>1. \A x \in Executions : trail[x] \in Seq(AnyEvent)
  BY DEF Shape
<1> QED
  BY <1>1 DEF Extends

(* A grant that was consumed stays so. *)
LEMMA ConsumptionLasts ==
  ASSUME Shape, Shape', Extends, NEW g \in Grants, Consumed(g), target'[g] = target[g]
  PROVE  Consumed(g)'
<1>1. target[g] \in Executions
  BY DEF Shape, Consumed, Requested
<1>2. trail[target[g]] \in Seq(AnyEvent) /\ trail'[target[g]] \in Seq(AnyEvent)
  BY <1>1 DEF Shape
<1>3. PICK n \in DOMAIN trail[target[g]] : trail[target[g]][n] = Event("consumed", g)
  BY DEF Consumed, InLedger, Range
<1>4. n \in 1..Len(trail[target[g]])
  BY <1>2, <1>3
<1>5. n \in DOMAIN trail'[target[g]] /\ trail'[target[g]][n] = Event("consumed", g)
  BY <1>1, <1>2, <1>3, <1>4 DEF Extends
<1> QED
  BY <1>5 DEF Consumed, InLedger, Range, Requested, Event

(* What was requested is still there, at the same place. *)
LEMMA BasisLasts ==
  ASSUME Shape, Shape', RequestAtBasis, Extends, open' \subseteq open,
         \A g \in open' : basis'[g] = basis[g] /\ target'[g] = target[g]
  PROVE  RequestAtBasis'
<1> SUFFICES ASSUME NEW g \in open'
             PROVE  /\ target'[g] \in Executions
                    /\ basis'[g] \in 1..Len(trail'[target'[g]])
                    /\ trail'[target'[g]][basis'[g]] = Event("requested", g)
  BY DEF RequestAtBasis, Event
<1>1. /\ target[g] \in Executions
      /\ basis[g] \in 1..Len(trail[target[g]])
      /\ trail[target[g]][basis[g]] = Event("requested", g)
  BY DEF RequestAtBasis
<1>2. trail[target[g]] \in Seq(AnyEvent) /\ trail'[target[g]] \in Seq(AnyEvent)
  BY <1>1 DEF Shape
<1> QED
  BY <1>1, <1>2 DEF Extends

(* An event that consumes nothing, or comes right after its request. *)
LEMMA GrowthKeepsOrder ==
  ASSUME Shape, NewerEventInvalidates,
         NEW x \in Executions, NEW e \in AnyEvent, Grows(x, e),
         e.kind = "consumed" =>
           Len(trail[x]) > 0 /\ trail[x][Len(trail[x])] = Event("requested", e.grant)
  PROVE  NewerEventInvalidates'
<1>1. trail[x] \in Seq(AnyEvent) /\ trail'[x] = Append(trail[x], e)
  BY GrowthExtends DEF Shape
<1> SUFFICES ASSUME NEW y \in Executions, NEW n \in DOMAIN trail'[y],
                    trail'[y][n].kind = "consumed"
             PROVE  n > 1 /\ trail'[y][n - 1] = Event("requested", trail'[y][n].grant)
  BY DEF NewerEventInvalidates, Event
<1>2. CASE y # x
  BY <1>2, GrowthExtends DEF NewerEventInvalidates
<1>3. CASE y = x
  <2>1. n \in 1..(Len(trail[x]) + 1)
    BY <1>1, <1>3
  <2>2. CASE n = Len(trail[x]) + 1
    <3>1. trail'[x][n] = e
      BY <1>1, <2>2
    <3>2. n > 1 /\ trail'[x][n - 1] = trail[x][n - 1] /\ n - 1 = Len(trail[x])
      BY <1>1, <2>2, <3>1, <1>3
    <3> QED
      BY <3>1, <3>2, <1>3
  <2>3. CASE n # Len(trail[x]) + 1
    <3>1. n \in DOMAIN trail[x] /\ trail'[x][n] = trail[x][n]
      BY <1>1, <2>1, <2>3
    <3>2. n > 1 /\ trail[x][n - 1] = Event("requested", trail[x][n].grant)
      BY <3>1, <1>3 DEF NewerEventInvalidates
    <3>3. trail'[x][n - 1] = trail[x][n - 1]
      BY <1>1, <2>1, <2>3, <3>2
    <3> QED
      BY <3>1, <3>2, <3>3, <1>3
  <2> QED
    BY <2>2, <2>3
<1> QED
  BY <1>2, <1>3

LEMMA SameOrder ==
  ASSUME NewerEventInvalidates, trail' = trail
  PROVE  NewerEventInvalidates'
  BY DEF NewerEventInvalidates, Event

-----------------------------------------------------------------------------
(* What is left to do.                                                     *)

HostWork  == {Do(o, None) : o \in {"close all", "control", "derived", "interrupted"}}
EventWork == {Do("event", x) : x \in Executions}
GrantWork == {Do(o, g) : o \in {"cancel", "result"}, g \in Grants}

LEMMA OpParts == Op = (HostWork \cup EventWork) \cup GrantWork
  BY DEF Op, HostWork, EventWork, GrantWork

LEMMA DoParts == \A o, of : Do(o, of).op = o /\ Do(o, of).of = of
  BY DEF Do

LEMMA TailOnRecord ==
  ASSUME Shape, OnRecord(todo), todo # <<>>
  PROVE  Tail(todo) \in Seq(Op) /\ OnRecord(Tail(todo))
<1>1. todo \in Seq(Op)
  BY DEF Shape
<1>2. /\ Tail(todo) \in Seq(Op)
      /\ Len(Tail(todo)) = Len(todo) - 1
      /\ \A n \in 1..Len(Tail(todo)) : Tail(todo)[n] = todo[n + 1]
  BY <1>1
<1>3. ASSUME NEW n \in 1..Len(Tail(todo)), Tail(todo)[n].op \in {"cancel", "result"}
      PROVE  Tail(todo)[n].of \in Grants /\ Consumed(Tail(todo)[n].of)
  <2>1. n + 1 \in 1..Len(todo) /\ Tail(todo)[n] = todo[n + 1]
    BY <1>1, <1>2
  <2> QED
    BY <1>3, <2>1 DEF OnRecord
<1> QED
  BY <1>2, <1>3 DEF OnRecord

LEMMA HeadOnRecord ==
  ASSUME Shape, OnRecord(todo), todo # <<>>, Head(todo).op \in {"cancel", "result"}
  PROVE  Head(todo).of \in Grants /\ Consumed(Head(todo).of)
<1>1. todo \in Seq(Op) /\ Head(todo) = todo[1] /\ 1 \in 1..Len(todo)
  BY DEF Shape
<1> QED
  BY <1>1 DEF OnRecord

LEMMA EventOnRecord ==
  ASSUME NEW rest \in Seq(Op), OnRecord(rest), NEW x \in Executions
  PROVE  /\ <<Do("event", x)>> \o rest \in Seq(Op)
         /\ OnRecord(<<Do("event", x)>> \o rest)
<1> DEFINE work == <<Do("event", x)>> \o rest
<1>1. Do("event", x) \in Op
  <2>1. Do("event", x) \in EventWork
    BY DEF EventWork
  <2> QED
    BY <2>1, OpParts
<1>2. /\ work \in Seq(Op)
      /\ work[1] = Do("event", x)
      /\ \A n \in 1..Len(work) : n # 1 => n - 1 \in 1..Len(rest) /\ work[n] = rest[n - 1]
  BY <1>1
<1>3. work[1].op = "event"
  BY <1>2 DEF Do
<1> HIDE DEF work
<1>4. OnRecord(work)
  BY <1>2, <1>3 DEF OnRecord
<1> QED
  BY <1>2, <1>4 DEF work

(* What a step must show for the invariant to hold after it. *)
LEMMA StepKeeps ==
  ASSUME ControlInv, Shape', Extends, RequestAtBasis', NewerEventInvalidates',
         \A g \in Grants : Requested(g) => target'[g] = target[g],
         \A g \in cancelled' : g \in Grants /\ Consumed(g),
         OnRecord(todo') \/ OnRecord(todo)'
  PROVE  ControlInv'
<1>1. ASSUME NEW g \in Grants, Consumed(g)
      PROVE  Consumed(g)'
  BY <1>1, ConsumptionLasts DEF ControlInv, Consumed
<1>2. CancelIsOnRecord'
  BY <1>1 DEF CancelIsOnRecord
<1>3. OnRecord(todo)'
  BY <1>1 DEF OnRecord
<1> QED
  BY <1>2, <1>3 DEF ControlInv

(* A step that issues nothing. *)
NoIssue ==
  /\ snapshot' \in [Executions -> Status \cup {"none"}]
  /\ open' \subseteq open
  /\ target' = target
  /\ basis' \in [Grants -> Nat]
  /\ \A g \in open' : basis'[g] = basis[g]
  /\ \A g \in cancelled' : g \in Grants /\ Consumed(g)
  /\ todo' \in Seq(Op)
  /\ OnRecord(todo')

LEMMA QuietStep ==
  ASSUME ControlInv, NoIssue, trail' = trail
  PROVE  ControlInv'
<1>1. Shape'
  BY DEF ControlInv, Shape, NoIssue
<1>2. Extends
  BY SameExtends DEF ControlInv
<1>3. RequestAtBasis'
  BY <1>1, <1>2, BasisLasts DEF ControlInv, NoIssue
<1>4. NewerEventInvalidates'
  BY SameOrder DEF ControlInv
<1> QED
  BY <1>1, <1>2, <1>3, <1>4, StepKeeps DEF NoIssue

LEMMA GrowthStep ==
  ASSUME ControlInv, NoIssue, NEW x \in Executions, NEW e \in AnyEvent, Grows(x, e),
         e.kind = "consumed" =>
           Len(trail[x]) > 0 /\ trail[x][Len(trail[x])] = Event("requested", e.grant)
  PROVE  ControlInv'
<1>1. Shape /\ RequestAtBasis /\ NewerEventInvalidates
  BY DEF ControlInv
<1>2. Extends /\ trail' \in [Executions -> Seq(AnyEvent)]
  BY <1>1, GrowthExtends
<1>3. Shape'
  BY <1>1, <1>2 DEF Shape, NoIssue
<1>4. RequestAtBasis'
  BY <1>1, <1>2, <1>3, BasisLasts DEF NoIssue
<1>5. NewerEventInvalidates'
  BY <1>1, GrowthKeepsOrder
<1> QED
  BY <1>2, <1>3, <1>4, <1>5, StepKeeps DEF NoIssue

LEMMA StatusEvent ==
  ASSUME NEW kind \in Status \cup {"none", "other"}
  PROVE  Event(kind, None) \in AnyEvent /\ Event(kind, None).kind # "consumed"
  BY DEF Event, AnyEvent, AnyKind, Status, Live

LEMMA ControlEvent ==
  ASSUME NEW kind \in ControlKind, NEW g \in Grants
  PROVE  /\ Event(kind, g) \in AnyEvent
         /\ Event(kind, g).kind = kind
         /\ Event(kind, g).grant = g
  BY DEF Event, AnyEvent, AnyKind

-----------------------------------------------------------------------------
(* The steps of the executions.                                            *)

LEMMA PersistQuiet ==
  ASSUME ControlInv, NEW x \in Executions, NEW status \in Status,
         NEW rest \in Seq(Op), OnRecord(rest), Persist(x, status, rest)
  PROVE  /\ snapshot' \in [Executions -> Status \cup {"none"}]
         /\ todo' \in Seq(Op)
         /\ OnRecord(todo')
<1>1. snapshot' \in [Executions -> Status \cup {"none"}]
  BY DEF Persist, ControlInv, Shape
<1> QED
  BY <1>1, EventOnRecord DEF Persist

LEMMA NothingOnRecord == <<>> \in Seq(Op) /\ OnRecord(<<>>)
  BY DEF OnRecord

LEMMA StartKeeps ==
  ASSUME ControlInv, NEW x \in Executions, Start(x)
  PROVE  ControlInv'
<1>1. Persist(x, "queued", <<>>) /\ UNCHANGED <<trail, grantVars, cancelled>>
  BY DEF Start
<1>2. "queued" \in Status
  BY DEF Status, Live
<1>3. NoIssue
  BY <1>1, <1>2, PersistQuiet, NothingOnRecord
     DEF NoIssue, ControlInv, Shape, grantVars, CancelIsOnRecord
<1> QED
  BY <1>1, <1>3, QuietStep

LEMMA AdvanceKeeps ==
  ASSUME ControlInv, NEW x \in Executions, NEW next \in Status, Advance(x, next)
  PROVE  ControlInv'
<1>1. Persist(x, next, <<>>) /\ UNCHANGED <<trail, grantVars, cancelled>>
  BY DEF Advance
<1>2. NoIssue
  BY <1>1, PersistQuiet, NothingOnRecord
     DEF NoIssue, ControlInv, Shape, grantVars, CancelIsOnRecord
<1> QED
  BY <1>1, <1>2, QuietStep

(* The trail is as it was, or longer by the event. *)
LEMMA TrailsKeeps ==
  ASSUME ControlInv, NEW x \in Executions, NEW kind \in Status \cup {"none", "other"},
         NoIssue, Trails(x, Event(kind, None))
  PROVE  ControlInv'
<1>1. trail' = trail \/ Grows(x, Event(kind, None))
  BY DEF Trails, Grows
<1> QED
  BY <1>1, QuietStep, GrowthStep, StatusEvent

LEMMA RecordStatusKeeps ==
  ASSUME ControlInv, RecordStatus
  PROVE  ControlInv'
<1>1. /\ todo # <<>> /\ Head(todo).op = "event" /\ todo' = Tail(todo)
      /\ UNCHANGED <<snapshot, grantVars, cancelled>>
  BY DEF RecordStatus
<1>2. Tail(todo) \in Seq(Op) /\ OnRecord(Tail(todo))
  BY <1>1, TailOnRecord DEF ControlInv
<1>3. NoIssue
  BY <1>1, <1>2 DEF NoIssue, ControlInv, Shape, grantVars, CancelIsOnRecord
<1>4. Head(todo).of \in Executions
  <2>1. Head(todo) \in Op
    BY <1>1 DEF ControlInv, Shape
  <2>2. \A w \in HostWork : w.op # "event"
    BY DoParts DEF HostWork
  <2>3. \A w \in GrantWork : w.op # "event"
    BY DoParts DEF GrantWork
  <2>4. Head(todo) \in EventWork
    BY <1>1, <2>1, <2>2, <2>3, OpParts
  <2> QED
    BY <2>4, DoParts DEF EventWork
<1>5. snapshot[Head(todo).of] \in Status \cup {"none", "other"}
  BY <1>4 DEF ControlInv, Shape
<1>6. trail' = trail \/ Trails(Head(todo).of, Event(snapshot[Head(todo).of], None))
  BY DEF RecordStatus
<1> QED
  BY <1>3, <1>4, <1>5, <1>6, QuietStep, TrailsKeeps

LEMMA RecordOtherOfKeeps ==
  ASSUME ControlInv, NEW x \in Executions, RecordOtherOf(x)
  PROVE  ControlInv'
<1>1. Trails(x, Event("other", None)) /\ UNCHANGED <<snapshot, grantVars, cancelled, todo>>
  BY DEF RecordOtherOf
<1>2. NoIssue
  BY <1>1 DEF NoIssue, ControlInv, Shape, grantVars, CancelIsOnRecord
<1> QED
  BY <1>1, <1>2, TrailsKeeps

LEMMA UnrelatedKeeps ==
  ASSUME ControlInv, UNCHANGED <<trail, snapshot, open, target, basis, cancelled, todo>>
  PROVE  ControlInv'
<1>1. NoIssue
  BY DEF NoIssue, ControlInv, Shape, CancelIsOnRecord
<1> QED
  BY <1>1, QuietStep

-----------------------------------------------------------------------------
(* The steps of the controls.                                              *)

LEMMA ControlGrowth ==
  ASSUME ControlInv, NEW g \in Grants, NEW kind \in ControlKind, NEW freed,
         Requested(g), RecordControl(g, kind, freed), NoIssue,
         kind = "consumed" => g \in open /\ basis[g] = Cursor(target[g])
  PROVE  ControlInv'
<1>1. target[g] \in Executions
  BY DEF ControlInv, Shape, Requested
<1>2. Grows(target[g], Event(kind, g))
  BY DEF RecordControl, Grows
<1>3. kind = "consumed" =>
        /\ Len(trail[target[g]]) > 0
        /\ trail[target[g]][Len(trail[target[g]])] = Event("requested", g)
  <2>1. trail[target[g]] \in Seq(AnyEvent)
    BY <1>1 DEF ControlInv, Shape
  <2> QED
    BY <2>1 DEF ControlInv, RequestAtBasis, Cursor
<1> QED
  BY <1>1, <1>2, <1>3, GrowthStep, ControlEvent

LEMMA OpenIsRequested ==
  ASSUME ControlInv, NEW g \in open
  PROVE  g \in Grants /\ Requested(g)
  BY NoneIsFresh DEF ControlInv, Shape, RequestAtBasis, Requested

LEMMA ForgetQuiet ==
  ASSUME ControlInv, NEW g \in Grants, Forget(g), UNCHANGED <<snapshot, cancelled>>,
         todo' \in Seq(Op), OnRecord(todo')
  PROVE  NoIssue
<1>1. /\ open' \subseteq open
      /\ target' = target
      /\ basis' \in [Grants -> Nat]
      /\ \A h \in open' : basis'[h] = basis[h]
  BY DEF Forget, ControlInv, Shape
<1> QED
  BY <1>1 DEF NoIssue, ControlInv, Shape, CancelIsOnRecord

LEMMA CloseKeeps ==
  ASSUME ControlInv, NEW g \in open, Close(g), todo' = todo
  PROVE  ControlInv'
<1>1. g \in Grants /\ Requested(g)
  BY OpenIsRequested
<1>2. NoIssue
  BY <1>1, ForgetQuiet DEF Close, ControlInv, Shape
<1>3. "closed" \in ControlKind
  BY DEF ControlKind
<1> QED
  BY <1>1, <1>2, <1>3, ControlGrowth DEF Close

LEMMA ExecuteKeeps ==
  ASSUME ControlInv, NEW g \in Grants, Execute(g)
  PROVE  ControlInv'
<1>1. /\ g \in open /\ basis[g] = Cursor(target[g])
      /\ RecordControl(g, "consumed", 1)
      /\ todo' = <<Do("cancel", g), Do("result", g)>>
      /\ UNCHANGED <<snapshot, grantVars, cancelled>>
  BY DEF Execute
<1>2. Requested(g) /\ target[g] \in Executions
  BY <1>1, OpenIsRequested DEF ControlInv, Shape, Requested
<1>3. Grows(target[g], Event("consumed", g))
  BY <1>1 DEF RecordControl, Grows
<1>4. ControlInv /\ trail[target[g]] \in Seq(AnyEvent) /\ Event("consumed", g) \in AnyEvent
  BY <1>2, ControlEvent DEF ControlInv, Shape, ControlKind
<1>5. /\ trail' \in [Executions -> Seq(AnyEvent)]
      /\ Extends
      /\ trail'[target[g]] = Append(trail[target[g]], Event("consumed", g))
  BY <1>2, <1>3, <1>4, GrowthExtends DEF ControlInv
<1>6. todo' \in Seq(Op)
  <2>1. Do("cancel", g) \in GrantWork /\ Do("result", g) \in GrantWork
    BY DEF GrantWork
  <2>2. Do("cancel", g) \in Op /\ Do("result", g) \in Op
    BY <2>1, OpParts
  <2> QED
    BY <1>1, <2>2
<1>7. Shape'
  BY <1>1, <1>5, <1>6 DEF ControlInv, Shape, grantVars
<1>8. RequestAtBasis'
  BY <1>1, <1>5, <1>7, BasisLasts DEF ControlInv, grantVars
<1>9. NewerEventInvalidates'
  <2>1. /\ Len(trail[target[g]]) > 0
        /\ trail[target[g]][Len(trail[target[g]])] = Event("requested", g)
    BY <1>1, <1>4 DEF ControlInv, RequestAtBasis, Cursor
  <2> QED
    BY <1>2, <1>3, <1>4, <2>1, GrowthKeepsOrder, ControlEvent DEF ControlInv, ControlKind
<1>10. Consumed(g)'
  <2>1. Len(trail[target[g]]) + 1 \in DOMAIN trail'[target[g]]
        /\ trail'[target[g]][Len(trail[target[g]]) + 1] = Event("consumed", g)
    BY <1>4, <1>5
  <2>2. target' = target
    BY <1>1 DEF grantVars
  <2> QED
    BY <1>2, <2>1, <2>2 DEF Consumed, Requested, InLedger, Range, Event
<1>11. OnRecord(todo)'
  <2>1. \A n \in 1..Len(todo') : todo'[n].of = g
    BY <1>1, DoParts
  <2> QED
    BY <1>10, <2>1 DEF OnRecord
<1>12. /\ \A h \in Grants : target'[h] = target[h]
       /\ \A h \in cancelled' : h \in Grants /\ Consumed(h)
  BY <1>1 DEF ControlInv, Shape, grantVars, CancelIsOnRecord
<1> QED
  BY <1>5, <1>7, <1>8, <1>9, <1>11, <1>12, StepKeeps

LEMMA IssueKeeps ==
  ASSUME ControlInv, NEW g \in Grants, NEW x \in Executions, Issue(g, x)
  PROVE  ControlInv'
<1>1. target[g] = None /\ Grant(g, x)
  BY DEF Issue
<1>2. /\ Grows(x, Event("requested", g))
      /\ open' = open \cup {g}
      /\ target' = [target EXCEPT ![g] = x]
      /\ basis' = [basis EXCEPT ![g] = Cursor(x) + 1]
      /\ UNCHANGED <<snapshot, cancelled, todo>>
  BY <1>1 DEF Grant, Grows
<1>3. /\ trail[x] \in Seq(AnyEvent)
      /\ Event("requested", g) \in AnyEvent
      /\ Event("requested", g).kind # "consumed"
  BY ControlEvent DEF ControlInv, Shape, ControlKind
<1>4. /\ trail' \in [Executions -> Seq(AnyEvent)]
      /\ Extends
      /\ trail'[x] = Append(trail[x], Event("requested", g))
  BY <1>2, <1>3, GrowthExtends DEF ControlInv
<1>5. Shape'
  BY <1>2, <1>3, <1>4 DEF ControlInv, Shape, Cursor
<1>6. \A h \in Grants : h # g => target'[h] = target[h] /\ basis'[h] = basis[h]
  BY <1>2 DEF ControlInv, Shape
<1>7. RequestAtBasis'
  <2> SUFFICES ASSUME NEW h \in open'
               PROVE  /\ target'[h] \in Executions
                      /\ basis'[h] \in 1..Len(trail'[target'[h]])
                      /\ trail'[target'[h]][basis'[h]] = Event("requested", h)
    BY DEF RequestAtBasis, Event
  <2>1. CASE h = g
    <3>1. target'[g] = x /\ basis'[g] = Len(trail[x]) + 1
      BY <1>2 DEF ControlInv, Shape, Cursor
    <3> QED
      BY <1>3, <1>4, <2>1, <3>1
  <2>2. CASE h # g
    <3>1. h \in open /\ h \in Grants
      BY <1>2, <2>2 DEF ControlInv, Shape
    <3>2. /\ target[h] \in Executions
          /\ basis[h] \in 1..Len(trail[target[h]])
          /\ trail[target[h]][basis[h]] = Event("requested", h)
      BY <3>1 DEF ControlInv, RequestAtBasis
    <3>3. trail[target[h]] \in Seq(AnyEvent) /\ trail'[target[h]] \in Seq(AnyEvent)
      BY <1>4, <3>2 DEF ControlInv, Shape
    <3> QED
      BY <1>4, <1>6, <2>2, <3>1, <3>2, <3>3 DEF Extends
  <2> QED
    BY <2>1, <2>2
<1>8. NewerEventInvalidates'
  BY <1>2, <1>3, GrowthKeepsOrder DEF ControlInv
<1>9. \A h \in Grants : Requested(h) => target'[h] = target[h]
  BY <1>1, <1>6 DEF Requested
<1> QED
  BY <1>2, <1>4, <1>5, <1>7, <1>8, <1>9, StepKeeps DEF ControlInv, Shape, CancelIsOnRecord

LEMMA CancelRunKeeps ==
  ASSUME ControlInv, CancelRun
  PROVE  ControlInv'
<1> DEFINE g == Head(todo).of
<1>1. /\ todo # <<>> /\ Head(todo).op = "cancel"
      /\ UNCHANGED <<trail, grantVars>>
  BY DEF CancelRun
<1>2. /\ Tail(todo) \in Seq(Op) /\ OnRecord(Tail(todo))
      /\ g \in Grants /\ Consumed(g)
  BY <1>1, TailOnRecord, HeadOnRecord DEF ControlInv
<1>3. target[g] \in Executions /\ "stopping" \in Status
  BY <1>2 DEF ControlInv, Shape, Consumed, Requested, Status, Live
<1>4. \/ /\ Persist(target[g], "stopping", Tail(todo))
         /\ cancelled' = cancelled \cup {g}
      \/ /\ todo' = Tail(todo)
         /\ UNCHANGED <<snapshot, cancelled>>
  BY DEF CancelRun
<1> HIDE DEF g
<1>5. /\ snapshot' \in [Executions -> Status \cup {"none"}]
      /\ todo' \in Seq(Op) /\ OnRecord(todo')
  BY <1>2, <1>3, <1>4, PersistQuiet DEF ControlInv, Shape
<1>6. \A h \in cancelled' : h \in Grants /\ Consumed(h)
  BY <1>2, <1>4 DEF ControlInv, Shape, CancelIsOnRecord
<1>7. NoIssue
  BY <1>1, <1>5, <1>6 DEF NoIssue, ControlInv, Shape, grantVars
<1> QED
  BY <1>1, <1>7, QuietStep

LEMMA RecordResultKeeps ==
  ASSUME ControlInv, RecordResult
  PROVE  ControlInv'
<1> DEFINE g == Head(todo).of
<1>1. /\ todo # <<>> /\ Head(todo).op = "result" /\ todo' = Tail(todo)
      /\ RecordControl(g, "closed", 1) /\ Forget(g)
      /\ UNCHANGED <<snapshot, cancelled>>
  BY DEF RecordResult
<1>2. /\ Tail(todo) \in Seq(Op) /\ OnRecord(Tail(todo))
      /\ g \in Grants /\ Consumed(g)
  BY <1>1, TailOnRecord, HeadOnRecord DEF ControlInv
<1> HIDE DEF g
<1>3. NoIssue
  BY <1>1, <1>2, ForgetQuiet
<1> QED
  BY <1>1, <1>2, <1>3, ControlGrowth DEF Consumed, ControlKind

-----------------------------------------------------------------------------
(* Unload, the end of the process, and the next host.                      *)

LEMMA HostWorkOnRecord ==
  ASSUME NEW work \in Seq(HostWork)
  PROVE  work \in Seq(Op) /\ OnRecord(work)
<1>1. \A w \in HostWork : w.op \notin {"cancel", "result"}
  BY DoParts DEF HostWork
<1>2. \A n \in 1..Len(work) : work[n] \in HostWork
  OBVIOUS
<1>3. work \in Seq(Op)
  BY OpParts
<1> QED
  BY <1>1, <1>2, <1>3 DEF OnRecord

LEMMA ShortWork ==
  ASSUME NEW W, NEW u \in W, NEW v \in W, NEW w \in W
  PROVE  <<u>> \in Seq(W) /\ <<u, v, w>> \in Seq(W)
  OBVIOUS

LEMMA HostWorks ==
  /\ Do("close all", None) \in HostWork
  /\ Do("control", None) \in HostWork
  /\ Do("derived", None) \in HostWork
  /\ Do("interrupted", None) \in HostWork
  BY DEF HostWork

LEMMA UnloadKeeps ==
  ASSUME ControlInv, Unload
  PROVE  ControlInv'
<1>1. todo' = <<Do("close all", None)>> /\ UNCHANGED <<trail, snapshot, grantVars, cancelled>>
  BY DEF Unload
<1>2. todo' \in Seq(HostWork)
  BY <1>1, HostWorks, ShortWork, Zenon
<1>3. todo' \in Seq(Op) /\ OnRecord(todo')
  BY <1>2, HostWorkOnRecord
<1>4. NoIssue
  BY <1>1, <1>3 DEF NoIssue, ControlInv, Shape, grantVars, CancelIsOnRecord
<1> QED
  BY <1>1, <1>4, QuietStep

LEMMA ProcessEndsKeeps ==
  ASSUME ControlInv, ProcessEnds
  PROVE  ControlInv'
<1>1. /\ todo' = <<>> /\ open' = {} /\ basis' = [g \in Grants |-> 0]
      /\ UNCHANGED <<trail, snapshot, target, cancelled>>
  BY DEF ProcessEnds
<1>2. NoIssue
  BY <1>1, NothingOnRecord DEF NoIssue, ControlInv, Shape, CancelIsOnRecord
<1> QED
  BY <1>1, <1>2, QuietStep

LEMMA RestartKeeps ==
  ASSUME ControlInv, Restart
  PROVE  ControlInv'
<1>1. /\ todo' = <<Do("control", None), Do("derived", None), Do("interrupted", None)>>
      /\ UNCHANGED <<trail, snapshot, grantVars, cancelled>>
  BY DEF Restart
<1>2. todo' \in Seq(HostWork)
  BY <1>1, HostWorks, ShortWork, Zenon
<1>3. todo' \in Seq(Op) /\ OnRecord(todo')
  BY <1>2, HostWorkOnRecord
<1>4. NoIssue
  BY <1>1, <1>3 DEF NoIssue, ControlInv, Shape, grantVars, CancelIsOnRecord
<1> QED
  BY <1>1, <1>4, QuietStep

LEMMA TailKeeps ==
  ASSUME ControlInv, todo # <<>>, todo' = Tail(todo),
         UNCHANGED <<trail, snapshot, grantVars, cancelled>>
  PROVE  ControlInv'
<1>1. Tail(todo) \in Seq(Op) /\ OnRecord(Tail(todo))
  BY TailOnRecord DEF ControlInv
<1>2. NoIssue
  BY <1>1 DEF NoIssue, ControlInv, Shape, grantVars, CancelIsOnRecord
<1> QED
  BY <1>2, QuietStep

LEMMA CloseAllKeeps ==
  ASSUME ControlInv, CloseAll
  PROVE  ControlInv'
<1>1. CASE \E g \in open : Close(g) /\ UNCHANGED todo
  BY <1>1, CloseKeeps
<1>2. CASE ~\E g \in open : Close(g) /\ UNCHANGED todo
  BY <1>2, TailKeeps DEF CloseAll
<1> QED
  BY <1>1, <1>2

LEMMA ReconcileControlKeeps ==
  ASSUME ControlInv, ReconcileControl
  PROVE  ControlInv'
<1>1. CASE \E g \in Unclosed :
             /\ trail' = [trail EXCEPT ![target[g]] = Append(@, Event("closed", g))]
             /\ UNCHANGED <<todo, snapshot, grantVars, cancelled>>
  <2>1. PICK g \in Unclosed :
          /\ Grows(target[g], Event("closed", g))
          /\ UNCHANGED <<todo, snapshot, grantVars, cancelled>>
    BY <1>1 DEF Grows
  <2>2. g \in Grants /\ target[g] \in Executions
    BY DEF Unclosed, Requested, ControlInv, Shape
  <2>3. NoIssue
    BY <2>1 DEF NoIssue, ControlInv, Shape, grantVars, CancelIsOnRecord
  <2> QED
    BY <2>1, <2>2, <2>3, GrowthStep, ControlEvent DEF ControlKind
<1>2. CASE todo' = Tail(todo) /\ UNCHANGED trail
  BY <1>2, TailKeeps DEF ReconcileControl
<1> QED
  BY <1>1, <1>2 DEF ReconcileControl

LEMMA ReconcileDerivedKeeps ==
  ASSUME ControlInv, ReconcileDerived
  PROVE  ControlInv'
<1>1. CASE \E x \in Underived : todo' = <<Do("event", x)>> \o todo
  <2>1. PICK x \in Executions : todo' = <<Do("event", x)>> \o todo
    BY <1>1 DEF Underived
  <2>2. todo' \in Seq(Op) /\ OnRecord(todo')
    BY <2>1, EventOnRecord DEF ControlInv, Shape
  <2>3. NoIssue /\ trail' = trail
    BY <2>2 DEF ReconcileDerived, NoIssue, ControlInv, Shape, grantVars, CancelIsOnRecord
  <2> QED
    BY <2>3, QuietStep
<1>2. CASE todo' = Tail(todo)
  BY <1>2, TailKeeps DEF ReconcileDerived
<1> QED
  BY <1>1, <1>2 DEF ReconcileDerived

LEMMA CloseInterruptedKeeps ==
  ASSUME ControlInv, CloseInterrupted
  PROVE  ControlInv'
<1>1. CASE \E x \in Executions : Persist(x, "over", todo)
  <2>1. PICK x \in Executions : Persist(x, "over", todo)
    BY <1>1
  <2>2. /\ snapshot' \in [Executions -> Status \cup {"none"}]
        /\ todo' \in Seq(Op) /\ OnRecord(todo')
    BY <2>1, PersistQuiet DEF ControlInv, Shape, Status
  <2>3. NoIssue /\ trail' = trail
    BY <2>2 DEF CloseInterrupted, NoIssue, ControlInv, Shape, grantVars, CancelIsOnRecord
  <2> QED
    BY <2>3, QuietStep
<1>2. CASE todo' = Tail(todo) /\ UNCHANGED snapshot
  BY <1>2, TailKeeps DEF CloseInterrupted
<1> QED
  BY <1>1, <1>2 DEF CloseInterrupted

-----------------------------------------------------------------------------
LEMMA InitControl == Init => ControlInv
<1> SUFFICES ASSUME Init PROVE ControlInv
  OBVIOUS
<1>1. <<>> \in Seq(AnyEvent)
  OBVIOUS
<1>2. Shape
  BY <1>1, NothingOnRecord DEF Init, Shape
<1> QED
  BY <1>2, NothingOnRecord
     DEF Init, ControlInv, RequestAtBasis, NewerEventInvalidates, CancelIsOnRecord

LEMMA NextKeepsControl == ControlInv /\ [Next]_vars => ControlInv'
<1> SUFFICES ASSUME ControlInv, [Next]_vars
             PROVE  ControlInv'
  OBVIOUS
<1>1. CASE ExecutionStep
  <2>1. CASE \E x \in Executions : Start(x)
    BY <2>1, StartKeeps
  <2>2. CASE \E x \in Executions : RecordOtherOf(x)
    BY <2>2, RecordOtherOfKeeps
  <2>3. CASE \E x \in Executions : Release(x)
    BY <2>3, UnrelatedKeeps DEF Release, grantVars
  <2>4. CASE \E x \in Executions : \E next \in Status : Advance(x, next)
    BY <2>4, AdvanceKeeps
  <2>5. CASE OthersRecord
    BY <2>5, UnrelatedKeeps DEF OthersRecord, grantVars
  <2> QED
    BY <1>1, <2>1, <2>2, <2>3, <2>4, <2>5 DEF ExecutionStep
<1>2. CASE ControlStep
  <2>1. PICK g \in Grants :
          \/ \E x \in Executions : Issue(g, x)
          \/ Expire(g) \/ Sweep(g) \/ ExecuteRefused(g) \/ Execute(g)
    BY <1>2 DEF ControlStep
  <2>2. CASE \E x \in Executions : Issue(g, x)
    BY <2>2, IssueKeeps
  <2>3. CASE Expire(g)
    BY <2>3, UnrelatedKeeps DEF Expire
  <2>4. CASE Sweep(g)
    BY <2>4, CloseKeeps DEF Sweep
  <2>5. CASE ExecuteRefused(g)
    BY <2>5, CloseKeeps DEF ExecuteRefused
  <2>6. CASE Execute(g)
    BY <2>6, ExecuteKeeps
  <2> QED
    BY <2>1, <2>2, <2>3, <2>4, <2>5, <2>6
<1>3. CASE Continue
  BY <1>3, RecordStatusKeeps, CancelRunKeeps, RecordResultKeeps, CloseAllKeeps,
     ReconcileControlKeeps, ReconcileDerivedKeeps, CloseInterruptedKeeps DEF Continue
<1>4. CASE Unload
  BY <1>4, UnloadKeeps
<1>5. CASE ProcessEnds
  BY <1>5, ProcessEndsKeeps
<1>6. CASE Restart
  BY <1>6, RestartKeeps
<1>7. CASE UNCHANGED vars
  BY <1>7, UnrelatedKeeps DEF vars, grantVars
<1> QED
  BY <1>1, <1>2, <1>3, <1>4, <1>5, <1>6, <1>7 DEF Next

LEMMA ControlInvariant == Spec => []ControlInv
<1>1. Init => ControlInv
  BY InitControl
<1>2. ControlInv /\ [Next]_vars => ControlInv'
  BY NextKeepsControl
<1> QED
  BY <1>1, <1>2, PTL DEF Spec

(* A cancel control consumes its grant only as the very next event after   *)
(* the request: any event of the execution in between spends the grant     *)
(* (executeCancelControl compares the cursor), with any number of grants   *)
(* and executions, and across restarts.                                    *)
THEOREM NewerEventsInvalidate == Spec => []NewerEventInvalidates
<1>1. ControlInv => NewerEventInvalidates
  BY DEF ControlInv
<1> QED
  BY <1>1, ControlInvariant, PTL

(* Whatever ends the process and whenever, an adapter that was told to     *)
(* cancel was told so by a grant whose consumption is in the ledger        *)
(* (executeCancelControl records before it calls).                         *)
THEOREM CancelsAreOnRecord == Spec => []CancelIsOnRecord
<1>1. ControlInv => CancelIsOnRecord
  BY DEF ControlInv
<1> QED
  BY <1>1, ControlInvariant, PTL

-----------------------------------------------------------------------------
(* The work of a handler, and where a host stands with it.                 *)

Publish(x)   == <<Do("event", x)>>
Carry(g)     == <<Do("cancel", g), Do("result", g)>>
Stopped(x, g) == <<Do("event", x), Do("result", g)>>
Answer(g)    == <<Do("result", g)>>
CloseDown    == <<Do("close all", None)>>
Boot         == <<Do("control", None), Do("derived", None), Do("interrupted", None)>>
Repair       == <<Do("derived", None), Do("interrupted", None)>>
RepairOf(x)  == <<Do("event", x), Do("derived", None), Do("interrupted", None)>>
Settle       == <<Do("interrupted", None)>>
SettleOf(x)  == <<Do("event", x), Do("interrupted", None)>>

EndOf(work) == work[Len(work)]

(* From the end of a process until the next host has repaired what it left. *)
Boots(status, work) == status = "down" \/ (work # <<>> /\ EndOf(work).op = "interrupted")

(* A grant is consumed and its result not yet recorded. *)
Finishes(work, g) == work # <<>> /\ EndOf(work) = Do("result", g)

(* A snapshot is written and its event comes next. *)
Awaits(work, x) == work # <<>> /\ Head(work) = Do("event", x)

Booting == Boots(host, todo)

Repairing == todo = Repair \/ \E x \in Executions : todo = RepairOf(x)
Settling == todo = Settle \/ \E x \in Executions : todo = SettleOf(x)

WorkShape ==
  \/ todo = <<>>
  \/ \E x \in Executions : todo = Publish(x)
  \/ \E g \in open : todo \in {Carry(g), Stopped(target[g], g), Answer(g)}
  \/ todo \in {CloseDown, Boot}
  \/ Repairing \/ Settling

LEMMA WorkParts ==
  ASSUME NEW x, NEW g
  PROVE  /\ Publish(x) # <<>> /\ Head(Publish(x)) = Do("event", x)
         /\ Tail(Publish(x)) = <<>> /\ EndOf(Publish(x)) = Do("event", x)
         /\ Carry(g) # <<>> /\ Head(Carry(g)) = Do("cancel", g)
         /\ Tail(Carry(g)) = Answer(g) /\ EndOf(Carry(g)) = Do("result", g)
         /\ Stopped(x, g) # <<>> /\ Head(Stopped(x, g)) = Do("event", x)
         /\ Tail(Stopped(x, g)) = Answer(g) /\ EndOf(Stopped(x, g)) = Do("result", g)
         /\ Answer(g) # <<>> /\ Head(Answer(g)) = Do("result", g)
         /\ Tail(Answer(g)) = <<>> /\ EndOf(Answer(g)) = Do("result", g)
  BY DEF Publish, Carry, Stopped, Answer, EndOf

LEMMA BootParts ==
  ASSUME NEW x
  PROVE  /\ CloseDown # <<>> /\ Head(CloseDown) = Do("close all", None)
         /\ Tail(CloseDown) = <<>> /\ EndOf(CloseDown) = Do("close all", None)
         /\ Boot # <<>> /\ Head(Boot) = Do("control", None)
         /\ Tail(Boot) = Repair /\ EndOf(Boot) = Do("interrupted", None)
         /\ Repair # <<>> /\ Head(Repair) = Do("derived", None)
         /\ Tail(Repair) = Settle /\ EndOf(Repair) = Do("interrupted", None)
         /\ RepairOf(x) # <<>> /\ Head(RepairOf(x)) = Do("event", x)
         /\ Tail(RepairOf(x)) = Repair /\ EndOf(RepairOf(x)) = Do("interrupted", None)
         /\ Settle # <<>> /\ Head(Settle) = Do("interrupted", None)
         /\ Tail(Settle) = <<>> /\ EndOf(Settle) = Do("interrupted", None)
         /\ SettleOf(x) # <<>> /\ Head(SettleOf(x)) = Do("event", x)
         /\ Tail(SettleOf(x)) = Settle /\ EndOf(SettleOf(x)) = Do("interrupted", None)
  BY DEF CloseDown, Boot, Repair, RepairOf, Settle, SettleOf, EndOf

LEMMA SameWork ==
  ASSUME NEW S, NEW s \in Seq(S), NEW t \in Seq(S), Len(s) = Len(t),
         \A i \in 1..Len(s) : s[i] = t[i]
  PROVE  s = t
  OBVIOUS

LEMMA OneBefore ==
  ASSUME NEW S, NEW a \in S, NEW b \in S, NEW c \in S
  PROVE  /\ <<a>> \o <<>> = <<a>>
         /\ <<a>> \o <<b>> = <<a, b>>
         /\ <<a>> \o <<b, c>> = <<a, b, c>>
<1>1. <<a>> \o <<>> = <<a>>
  OBVIOUS
<1>2. <<a>> \o <<b>> = <<a, b>>
  <2>1. /\ <<a>> \o <<b>> \in Seq(S) /\ <<a, b>> \in Seq(S)
        /\ Len(<<a>> \o <<b>>) = 2 /\ Len(<<a, b>>) = 2
        /\ \A i \in 1..2 : (<<a>> \o <<b>>)[i] = <<a, b>>[i]
    OBVIOUS
  <2> QED
    BY <2>1, SameWork
<1>3. <<a>> \o <<b, c>> = <<a, b, c>>
  <2>1. /\ <<a>> \o <<b, c>> \in Seq(S) /\ <<a, b, c>> \in Seq(S)
        /\ Len(<<a>> \o <<b, c>>) = 3 /\ Len(<<a, b, c>>) = 3
        /\ \A i \in 1..3 : (<<a>> \o <<b, c>>)[i] = <<a, b, c>>[i]
    OBVIOUS
  <2> QED
    BY <2>1, SameWork
<1> QED
  BY <1>1, <1>2, <1>3

LEMMA WorkAlso ==
  ASSUME NEW x, NEW g
  PROVE  /\ <<Do("event", x)>> \o <<>> = Publish(x)
         /\ <<Do("event", x)>> \o Answer(g) = Stopped(x, g)
         /\ <<Do("event", x)>> \o Repair = RepairOf(x)
         /\ <<Do("event", x)>> \o Settle = SettleOf(x)
<1> DEFINE S == {Do("event", x), Do("result", g), Do("derived", None), Do("interrupted", None)}
<1>1. /\ Do("event", x) \in S /\ Do("result", g) \in S
      /\ Do("derived", None) \in S /\ Do("interrupted", None) \in S
  OBVIOUS
<1> HIDE DEF S
<1> QED
  BY <1>1, OneBefore DEF Publish, Stopped, Answer, Repair, RepairOf, Settle, SettleOf

(* What the head of the work says of the rest. *)
LEMMA FirstOps ==
  /\ \A x : Head(Publish(x)).op = "event"
  /\ \A x : Head(RepairOf(x)).op = "event"
  /\ \A x : Head(SettleOf(x)).op = "event"
  /\ \A g : Head(Carry(g)).op = "cancel"
  /\ \A x, g : Head(Stopped(x, g)).op = "event"
  /\ \A g : Head(Answer(g)).op = "result"
  /\ Head(CloseDown).op = "close all" /\ Head(Boot).op = "control"
  /\ Head(Repair).op = "derived" /\ Head(Settle).op = "interrupted"
<1>0. \A work, o, of : Head(work) = Do(o, of) => Head(work).op = o
  BY DoParts
<1>1. ASSUME NEW x
      PROVE  Head(Publish(x)).op = "event"
  <2>1. Head(Publish(x)) = Do("event", x)
    BY WorkParts
  <2> QED
    BY <1>0, <2>1
<1>2. ASSUME NEW x
      PROVE  Head(RepairOf(x)).op = "event"
  <2>1. Head(RepairOf(x)) = Do("event", x)
    BY BootParts
  <2> QED
    BY <1>0, <2>1
<1>3. ASSUME NEW x
      PROVE  Head(SettleOf(x)).op = "event"
  <2>1. Head(SettleOf(x)) = Do("event", x)
    BY BootParts
  <2> QED
    BY <1>0, <2>1
<1>4. ASSUME NEW g
      PROVE  Head(Carry(g)).op = "cancel"
  <2>1. Head(Carry(g)) = Do("cancel", g)
    BY WorkParts
  <2> QED
    BY <1>0, <2>1
<1>5. ASSUME NEW x, NEW g
      PROVE  Head(Stopped(x, g)).op = "event"
  <2>1. Head(Stopped(x, g)) = Do("event", x)
    BY WorkParts
  <2> QED
    BY <1>0, <2>1
<1>6. ASSUME NEW g
      PROVE  Head(Answer(g)).op = "result"
  <2>1. Head(Answer(g)) = Do("result", g)
    BY WorkParts
  <2> QED
    BY <1>0, <2>1
<1>7. /\ Head(CloseDown).op = "close all" /\ Head(Boot).op = "control"
      /\ Head(Repair).op = "derived" /\ Head(Settle).op = "interrupted"
  BY BootParts, DoParts
<1> QED
  BY <1>1, <1>2, <1>3, <1>4, <1>5, <1>6, <1>7

LEMMA EventWorkIs ==
  ASSUME WorkShape, todo # <<>>, Head(todo).op = "event"
  PROVE  \/ \E x \in Executions : todo = Publish(x)
         \/ \E g \in open : todo = Stopped(target[g], g)
         \/ \E x \in Executions : todo = RepairOf(x)
         \/ \E x \in Executions : todo = SettleOf(x)
  BY FirstOps DEF WorkShape, Repairing, Settling

LEMMA CancelWorkIs ==
  ASSUME WorkShape, todo # <<>>, Head(todo).op = "cancel"
  PROVE  \E g \in open : todo = Carry(g)
  BY FirstOps DEF WorkShape, Repairing, Settling

LEMMA ResultWorkIs ==
  ASSUME WorkShape, todo # <<>>, Head(todo).op = "result"
  PROVE  \E g \in open : todo = Answer(g)
  BY FirstOps DEF WorkShape, Repairing, Settling

LEMMA HostWorkIs ==
  ASSUME WorkShape, todo # <<>>
  PROVE  /\ Head(todo).op = "close all" => todo = CloseDown
         /\ Head(todo).op = "control" => todo = Boot
         /\ Head(todo).op = "derived" => todo = Repair
         /\ Head(todo).op = "interrupted" => todo = Settle
  BY FirstOps DEF WorkShape, Repairing, Settling

(* Where a host stands with each kind of work. *)
LEMMA NoWork ==
  ASSUME NEW status, NEW x, NEW g
  PROVE  /\ Boots(status, <<>>) <=> status = "down"
         /\ ~Finishes(<<>>, g) /\ ~Awaits(<<>>, x)
  BY DEF Boots, Finishes, Awaits

LEMMA DifferentWork ==
  ASSUME NEW o, NEW of, NEW p, NEW qf
  PROVE  /\ Do(o, of) = Do(p, qf) <=> o = p /\ of = qf
         /\ Do(o, of).op = o
  BY DEF Do

LEMMA PublishWork ==
  ASSUME NEW status, NEW x, NEW y, NEW g
  PROVE  /\ Boots(status, Publish(x)) <=> status = "down"
         /\ ~Finishes(Publish(x), g)
         /\ Awaits(Publish(x), y) <=> y = x
<1>1. /\ Publish(x) # <<>> /\ Head(Publish(x)) = Do("event", x)
      /\ EndOf(Publish(x)) = Do("event", x)
  BY WorkParts
<1> QED
  BY <1>1, DifferentWork DEF Boots, Finishes, Awaits

LEMMA GrantWorkParts ==
  ASSUME NEW status, NEW x, NEW g, NEW h,
         NEW work \in {Carry(g), Stopped(x, g), Answer(g)}
  PROVE  /\ Boots(status, work) <=> status = "down"
         /\ Finishes(work, h) <=> h = g
<1>1. work # <<>> /\ EndOf(work) = Do("result", g)
  BY WorkParts
<1> QED
  BY <1>1, DifferentWork DEF Boots, Finishes

LEMMA GrantWorkAwaits ==
  ASSUME NEW x, NEW y, NEW g
  PROVE  /\ ~Awaits(Carry(g), y) /\ ~Awaits(Answer(g), y)
         /\ Awaits(Stopped(x, g), y) <=> y = x
<1>1. /\ Head(Carry(g)) = Do("cancel", g) /\ Head(Answer(g)) = Do("result", g)
      /\ Stopped(x, g) # <<>> /\ Head(Stopped(x, g)) = Do("event", x)
  BY WorkParts
<1> QED
  BY <1>1, DifferentWork DEF Awaits

LEMMA CloseDownWork ==
  ASSUME NEW status, NEW x, NEW g
  PROVE  /\ Boots(status, CloseDown) <=> status = "down"
         /\ ~Finishes(CloseDown, g) /\ ~Awaits(CloseDown, x)
<1>1. /\ CloseDown # <<>> /\ Head(CloseDown) = Do("close all", None)
      /\ EndOf(CloseDown) = Do("close all", None)
  BY BootParts
<1>2. /\ Do("close all", None).op = "close all"
      /\ Do("close all", None) # Do("result", g) /\ Do("close all", None) # Do("event", x)
  BY DEF Do
<1>3. Head(CloseDown) # Do("event", x)
  BY <1>1, <1>2
<1> QED
  BY <1>1, <1>2, <1>3 DEF Boots, Finishes, Awaits

LEMMA BootWork ==
  ASSUME NEW status, NEW x, NEW g,
         NEW work \in {Boot, Repair, RepairOf(x), Settle, SettleOf(x)}
  PROVE  Boots(status, work) /\ ~Finishes(work, g)
<1>1. work # <<>> /\ EndOf(work) = Do("interrupted", None)
  BY BootParts
<1> QED
  BY <1>1, DifferentWork DEF Boots, Finishes

LEMMA BootWorkAwaits ==
  ASSUME NEW x, NEW y
  PROVE  /\ ~Awaits(Boot, y) /\ ~Awaits(Repair, y) /\ ~Awaits(Settle, y)
         /\ Awaits(RepairOf(x), y) <=> y = x
         /\ Awaits(SettleOf(x), y) <=> y = x
<1>1. /\ Head(Boot) = Do("control", None) /\ Head(Repair) = Do("derived", None)
      /\ Head(Settle) = Do("interrupted", None)
      /\ RepairOf(x) # <<>> /\ Head(RepairOf(x)) = Do("event", x)
      /\ SettleOf(x) # <<>> /\ Head(SettleOf(x)) = Do("event", x)
  BY BootParts
<1> QED
  BY <1>1, DifferentWork DEF Awaits

-----------------------------------------------------------------------------
(* The audit chains.                                                       *)

Ordered ==
  \A g \in Grants : \A x \in Executions : \A n \in DOMAIN trail[x] :
    trail[x][n].grant = g =>
      /\ x = target[g] /\ trail[x][n].kind \in ControlKind
      /\ \A m \in 1..(n - 1) :
           trail[x][m].grant = g => Follows(trail[x][m].kind, trail[x][n].kind)

Begins == \A g \in Grants : Requested(g) => InLedger(target[g], Event("requested", g))

(* An open grant is not closed, and consumed only while its result is due. *)
OpenChains == \A g \in open : ~Closed(g) /\ (Consumed(g) <=> Finishes(todo, g))

(* Only a grant in the host's memory has a chain to go on with, except     *)
(* while a host repairs what another left.                                 *)
ChainsOpen ==
  IF Booting THEN open = {} ELSE \A g \in Grants : Requested(g) /\ ~Closed(g) => g \in open

(* The next host closes every chain before it goes on. *)
ChainsRepaired == Repairing \/ Settling => Unclosed = {}

DownIsIdle == host = "down" => todo = <<>>

ChainInv ==
  /\ ControlInv
  /\ Ordered /\ Begins /\ OpenChains /\ ChainsOpen /\ ChainsRepaired
  /\ WorkShape /\ DownIsIdle

LEMMA InLedgerIs ==
  ASSUME Shape, NEW x \in Executions, NEW e
  PROVE  InLedger(x, e) <=> \E n \in 1..Len(trail[x]) : trail[x][n] = e
<1>1. trail[x] \in Seq(AnyEvent)
  BY DEF Shape
<1> QED
  BY <1>1 DEF InLedger, Range

LEMMA LedgerSame ==
  ASSUME trail' = trail, NEW x, NEW e
  PROVE  InLedger(x, e)' <=> InLedger(x, e)
  BY DEF InLedger

LEMMA LedgerGrows ==
  ASSUME Shape, NEW x \in Executions, NEW e \in AnyEvent, Grows(x, e),
         NEW y \in Executions, NEW d
  PROVE  InLedger(y, d)' <=> InLedger(y, d) \/ (y = x /\ d = e)
<1>1. /\ trail' \in [Executions -> Seq(AnyEvent)]
      /\ trail'[x] = Append(trail[x], e)
      /\ \A z \in Executions : z # x => trail'[z] = trail[z]
  BY GrowthExtends
<1>2. trail[y] \in Seq(AnyEvent) /\ trail[x] \in Seq(AnyEvent)
  BY DEF Shape
<1>3. InLedger(y, d)' <=> \E n \in DOMAIN trail'[y] : trail'[y][n] = d
  BY DEF InLedger, Range
<1>4. InLedger(y, d) <=> \E n \in DOMAIN trail[y] : trail[y][n] = d
  BY DEF InLedger, Range
<1>5. CASE y # x
  BY <1>1, <1>3, <1>4, <1>5
<1>6. CASE y = x
  <2>1. DOMAIN trail[x] = 1..Len(trail[x]) /\ Len(trail[x]) \in Nat
    BY <1>2
  <2>2. /\ DOMAIN trail'[x] = 1..(Len(trail[x]) + 1)
        /\ trail'[x][Len(trail[x]) + 1] = e
        /\ \A n \in 1..Len(trail[x]) : trail'[x][n] = trail[x][n]
    BY <1>1, <1>2
  <2>3. ASSUME InLedger(y, d)'
        PROVE  InLedger(y, d) \/ (y = x /\ d = e)
    <3>1. PICK n \in 1..(Len(trail[x]) + 1) : trail'[x][n] = d
      BY <1>3, <1>6, <2>2, <2>3
    <3> QED
      BY SMTT(30), <1>4, <1>6, <2>1, <2>2, <3>1
  <2>4. ASSUME InLedger(y, d) \/ (y = x /\ d = e)
        PROVE  InLedger(y, d)'
    BY <1>3, <1>4, <1>6, <2>1, <2>2, <2>4
  <2> QED
    BY <2>3, <2>4
<1> QED
  BY <1>5, <1>6

LEMMA EventsDiffer ==
  ASSUME NEW k, NEW g, NEW l, NEW h
  PROVE  /\ Event(k, g) = Event(l, h) <=> k = l /\ g = h
         /\ Event(k, g).kind = k /\ Event(k, g).grant = g
  BY DEF Event

(* How the marks of a grant change. *)
SameMarks(g) ==
  /\ Requested(g)' <=> Requested(g)
  /\ Consumed(g)' <=> Consumed(g)
  /\ Closed(g)' <=> Closed(g)

LEMMA MarksSame ==
  ASSUME trail' = trail, target' = target, NEW g
  PROVE  SameMarks(g)
  BY DEF SameMarks, Requested, Consumed, Closed, InLedger, Event

LEMMA MarksGrow ==
  ASSUME Shape, NEW x \in Executions, NEW k, NEW h, Event(k, h) \in AnyEvent,
         Grows(x, Event(k, h)), NEW g \in Grants, target'[g] = target[g]
  PROVE  /\ Requested(g)' <=> Requested(g)
         /\ Consumed(g)' <=>
              Consumed(g) \/ (Requested(g) /\ target[g] = x /\ k = "consumed" /\ h = g)
         /\ Closed(g)' <=>
              Closed(g) \/ (Requested(g) /\ target[g] = x /\ k = "closed" /\ h = g)
<1>1. Requested(g)' <=> Requested(g)
  BY DEF Requested
<1>2. ASSUME Requested(g), NEW l
      PROVE  InLedger(target[g], Event(l, g))' <=>
               InLedger(target[g], Event(l, g)) \/ (target[g] = x /\ k = l /\ h = g)
  <2>1. target[g] \in Executions
    BY <1>2 DEF Requested, Shape
  <2>2. \A y \in Executions :
          InLedger(y, Event(l, g))' <=>
            InLedger(y, Event(l, g)) \/ (y = x /\ Event(l, g) = Event(k, h))
    BY LedgerGrows
  <2>3. InLedger(target[g], Event(l, g))' <=> Event(l, g) \in Range(trail'[target[g]])
    BY DEF InLedger, Event
  <2> QED
    BY <2>1, <2>2, <2>3, EventsDiffer DEF InLedger
<1> QED
  BY <1>1, <1>2 DEF Consumed, Closed

(* The order of a chain as its execution's trail grows. *)
LEMMA OrderGrows ==
  ASSUME Shape, Shape', Ordered, Begins,
         NEW x \in Executions, NEW e \in AnyEvent, Grows(x, e),
         \A h \in Grants : Requested(h) => target'[h] = target[h],
         \A h \in Grants : target'[h] # None /\ ~Requested(h) =>
                             x = target'[h] /\ e = Event("requested", h),
         e.grant \in Grants =>
           /\ x = target'[e.grant] /\ e.kind \in ControlKind
           /\ \A m \in 1..Len(trail[x]) :
                trail[x][m].grant = e.grant => Follows(trail[x][m].kind, e.kind)
  PROVE  Ordered' /\ Begins'
<1>1. /\ trail' \in [Executions -> Seq(AnyEvent)]
      /\ trail'[x] = Append(trail[x], e)
      /\ \A z \in Executions : z # x => trail'[z] = trail[z]
  BY GrowthExtends
<1>2. \A y \in Executions : trail[y] \in Seq(AnyEvent)
  BY DEF Shape
<1>3. /\ DOMAIN trail[x] = 1..Len(trail[x]) /\ Len(trail[x]) \in Nat
      /\ DOMAIN trail'[x] = 1..(Len(trail[x]) + 1)
      /\ trail'[x][Len(trail[x]) + 1] = e
      /\ \A n \in 1..Len(trail[x]) : trail'[x][n] = trail[x][n]
  BY <1>1, <1>2
<1>4. Ordered'
  <2> SUFFICES ASSUME NEW g \in Grants, NEW y \in Executions, NEW n \in DOMAIN trail'[y],
                      trail'[y][n].grant = g
               PROVE  /\ y = target'[g] /\ trail'[y][n].kind \in ControlKind
                      /\ \A m \in 1..(n - 1) :
                           trail'[y][m].grant = g => Follows(trail'[y][m].kind, trail'[y][n].kind)
    BY DEF Ordered, Follows
  <2>1. CASE y # x
    <3>1. trail'[y] = trail[y]
      BY <1>1, <2>1
    <3>2. /\ y = target[g] /\ trail[y][n].kind \in ControlKind
          /\ \A m \in 1..(n - 1) :
               trail[y][m].grant = g => Follows(trail[y][m].kind, trail[y][n].kind)
      BY <3>1 DEF Ordered
    <3>3. target'[g] = target[g]
      BY <3>2, NoneIsFresh DEF Requested
    <3> QED
      BY <3>1, <3>2, <3>3
  <2>2. CASE y = x /\ n # Len(trail[x]) + 1
    <3>1. n \in 1..Len(trail[x]) /\ trail'[x][n] = trail[x][n]
      BY <1>3, <2>2
    <3>2. \A m \in 1..(n - 1) : m \in 1..Len(trail[x]) /\ trail'[x][m] = trail[x][m]
      BY <1>3, <3>1
    <3>3. trail[x][n].grant = g
      BY <2>2, <3>1
    <3>4. /\ x = target[g] /\ trail[x][n].kind \in ControlKind
          /\ \A m \in 1..(n - 1) :
               trail[x][m].grant = g => Follows(trail[x][m].kind, trail[x][n].kind)
      BY <1>3, <3>1, <3>3 DEF Ordered
    <3>5. target'[g] = target[g]
      BY <3>4, NoneIsFresh DEF Requested
    <3> QED
      BY <2>2, <3>1, <3>2, <3>4, <3>5
  <2>3. CASE y = x /\ n = Len(trail[x]) + 1
    <3>1. trail'[x][n] = e /\ e.grant = g
      BY <1>3, <2>3
    <3>2. \A m \in 1..(n - 1) : m \in 1..Len(trail[x]) /\ trail'[x][m] = trail[x][m]
      BY <1>3, <2>3
    <3> QED
      BY <2>3, <3>1, <3>2
  <2> QED
    BY <2>1, <2>2, <2>3
<1>5. Begins'
  <2> SUFFICES ASSUME NEW g \in Grants, Requested(g)'
               PROVE  Event("requested", g) \in Range(trail'[target'[g]])
    BY DEF Begins, InLedger, Event
  <2>1. target'[g] \in Executions
    BY DEF Shape, Requested
  <2>2. \A y \in Executions : \A d : InLedger(y, d)' <=> InLedger(y, d) \/ (y = x /\ d = e)
    BY LedgerGrows
  <2>3. \A y \in Executions : \A d : d \in Range(trail'[y]) <=> InLedger(y, d) \/ (y = x /\ d = e)
    BY <2>2 DEF InLedger
  <2>4. CASE Requested(g)
    <3>1. target'[g] = target[g] /\ InLedger(target[g], Event("requested", g))
      BY <2>4 DEF Begins
    <3> QED
      BY <2>1, <2>3, <3>1
  <2>5. CASE ~Requested(g)
    <3>1. x = target'[g] /\ e = Event("requested", g)
      BY <2>5 DEF Requested
    <3> QED
      BY <2>1, <2>3, <3>1
  <2> QED
    BY <2>4, <2>5
<1> QED
  BY <1>4, <1>5

LEMMA OrderSame ==
  ASSUME Ordered, Begins, trail' = trail, target' = target
  PROVE  Ordered' /\ Begins'
  BY DEF Ordered, Begins, Follows, Requested, InLedger, Event

(* A step that adds nothing to a chain. *)
NoMark ==
  /\ target' = target
  /\ \/ trail' = trail
     \/ \E x \in Executions, k \in Status \cup {"none", "other"} : Grows(x, Event(k, None))

LEMMA NoMarkKeeps ==
  ASSUME Shape, Shape', Ordered, Begins, NoMark
  PROVE  Ordered' /\ Begins' /\ \A g \in Grants : SameMarks(g)
<1>1. CASE trail' = trail
  BY <1>1, OrderSame, MarksSame DEF NoMark
<1>2. ASSUME NEW x \in Executions, NEW k \in Status \cup {"none", "other"},
             Grows(x, Event(k, None))
      PROVE  Ordered' /\ Begins' /\ \A g \in Grants : SameMarks(g)
  <2>1. Event(k, None) \in AnyEvent /\ Event(k, None).grant \notin Grants
    BY StatusEvent, EventsDiffer, NoneIsFresh
  <2>2. \A h \in Grants : target'[h] = target[h]
    BY DEF NoMark
  <2>3. Ordered' /\ Begins'
    BY <1>2, <2>1, <2>2, OrderGrows DEF Requested
  <2>4. ASSUME NEW g \in Grants
        PROVE  SameMarks(g)
    <3>1. None # g
      BY NoneIsFresh
    <3> QED
      BY <1>2, <2>1, <2>2, <3>1, MarksGrow DEF SameMarks
  <2> QED
    BY <2>3, <2>4
<1> QED
  BY <1>1, <1>2 DEF NoMark

(* A step that leaves the chains and the phase of the host alone. *)
LEMMA ChainKeeps ==
  ASSUME ChainInv, ControlInv', NoMark, open' = open,
         Booting' <=> Booting,
         \A g \in open : Finishes(todo', g) <=> Finishes(todo, g),
         (Repairing \/ Settling)' => Repairing \/ Settling,
         WorkShape', DownIsIdle'
  PROVE  ChainInv'
<1>1. Shape /\ Shape' /\ open \subseteq Grants
  BY DEF ChainInv, ControlInv, Shape
<1>2. Ordered' /\ Begins' /\ \A g \in Grants : SameMarks(g)
  BY <1>1, NoMarkKeeps DEF ChainInv
<1>3. OpenChains'
  BY <1>1, <1>2 DEF OpenChains, ChainInv, SameMarks, Finishes, EndOf, Do
<1>4. ChainsOpen'
  BY <1>2 DEF ChainsOpen, ChainInv, SameMarks
<1>5. Unclosed' = Unclosed
  BY <1>2 DEF Unclosed, SameMarks
<1>6. ChainsRepaired'
  BY <1>5 DEF ChainsRepaired, ChainInv
<1> QED
  BY <1>2, <1>3, <1>4, <1>6 DEF ChainInv

(* A host that serves repairs nothing. *)
LEMMA ServingNow ==
  ASSUME ~Booting
  PROVE  ~Repairing /\ ~Settling
<1>1. ~Boots(host, todo)
  BY DEF Booting
<1>2. \A x : /\ Boots(host, Repair) /\ Boots(host, RepairOf(x))
             /\ Boots(host, Settle) /\ Boots(host, SettleOf(x))
  BY BootWork
<1> QED
  BY <1>1, <1>2 DEF Repairing, Settling

LEMMA ServingWork ==
  ASSUME ~Booting'
  PROVE  ~Repairing' /\ ~Settling'
<1>1. ~Boots(host', todo')
  BY DEF Booting, Boots, EndOf
<1>2. \A x : /\ Boots(host', Repair) /\ Boots(host', RepairOf(x))
             /\ Boots(host', Settle) /\ Boots(host', SettleOf(x))
  BY BootWork
<1>3. \A x : todo' # Repair /\ todo' # RepairOf(x) /\ todo' # Settle /\ todo' # SettleOf(x)
  BY <1>1, <1>2
<1> QED
  BY <1>3 DEF Repairing, Settling, Repair, RepairOf, Settle, SettleOf, Do

(* Work that puts a host in no other phase. *)
LEMMA IdlePhase ==
  ASSUME ChainInv, Idle
  PROVE  /\ ~Booting /\ ~Repairing /\ ~Settling /\ host # "down"
         /\ \A g : ~Finishes(todo, g)
<1>1. todo = <<>> /\ host # "down"
  BY DEF Idle
<1>2. ~Booting
  BY <1>1, NoWork DEF Booting
<1> QED
  BY <1>1, <1>2, NoWork, ServingNow

LEMMA UnchangedChains ==
  ASSUME ChainInv, ControlInv', NoMark, UNCHANGED <<open, todo, host>>
  PROVE  ChainInv'
<1>1. /\ Booting' <=> Booting
      /\ (Repairing \/ Settling)' <=> Repairing \/ Settling
  BY DEF Booting, Repairing, Settling, Boots, EndOf, Repair, RepairOf, Settle, SettleOf, Do
<1>2. target' = target
  BY DEF NoMark
<1>3. WorkShape' /\ DownIsIdle'
  BY <1>1, <1>2 DEF ChainInv, WorkShape, DownIsIdle, Publish, Carry, Stopped, Answer,
                    CloseDown, Boot, Do
<1> QED
  BY <1>1, <1>3, ChainKeeps

(* A handler that publishes a snapshot and ends with its event. *)
LEMMA PublishChains ==
  ASSUME ChainInv, ControlInv', Idle, NEW x \in Executions, NEW status \in Status,
         Persist(x, status, <<>>), UNCHANGED <<trail, target, open, host>>
  PROVE  ChainInv'
<1>1. todo' = Publish(x)
  BY WorkAlso DEF Persist
<1>2. WorkShape' /\ DownIsIdle'
  BY <1>1, IdlePhase DEF WorkShape, DownIsIdle, Publish, Do
<1>3. ~Booting'
  <2>1. Booting' <=> Boots(host', todo')
    BY DEF Booting, Boots, EndOf
  <2> QED
    BY <1>1, <2>1, IdlePhase, PublishWork
<1>4. \A g \in open : ~Finishes(todo', g)
  BY <1>1, PublishWork
<1> QED
  BY <1>2, <1>3, <1>4, ServingWork, IdlePhase, ChainKeeps DEF NoMark


LEMMA RecordStatusChains ==
  ASSUME ChainInv, ControlInv', RecordStatus
  PROVE  ChainInv'
<1>1. /\ todo # <<>> /\ Head(todo).op = "event" /\ todo' = Tail(todo)
      /\ UNCHANGED <<open, target, host>> /\ WorkShape
  BY DEF RecordStatus, grantVars, ChainInv
<1>2. host # "down" /\ host' # "down"
  BY <1>1 DEF ChainInv, DownIsIdle
<1>3. NoMark
  <2>1. Head(todo).of \in Executions
    <3>1. \/ \E x \in Executions : todo = Publish(x)
          \/ \E g \in open : todo = Stopped(target[g], g)
          \/ \E x \in Executions : todo = RepairOf(x)
          \/ \E x \in Executions : todo = SettleOf(x)
      BY <1>1, EventWorkIs
    <3>2. \A g \in open : target[g] \in Executions
      BY DEF ChainInv, ControlInv, RequestAtBasis
    <3>3. \E x \in Executions : Head(todo) = Do("event", x)
      <4>1. /\ \A x : Head(Publish(x)) = Do("event", x)
            /\ \A x, g : Head(Stopped(x, g)) = Do("event", x)
        BY DEF Publish, Stopped
      <4>2. /\ \A x : Head(RepairOf(x)) = Do("event", x)
            /\ \A x : Head(SettleOf(x)) = Do("event", x)
        BY DEF RepairOf, SettleOf
      <4> QED
        BY <3>1, <3>2, <4>1, <4>2
    <3> QED
      BY <3>3, DoParts
  <2>2. snapshot[Head(todo).of] \in Status \cup {"none", "other"}
    BY <2>1 DEF ChainInv, ControlInv, Shape
  <2>3. trail' = trail \/ Grows(Head(todo).of, Event(snapshot[Head(todo).of], None))
    BY DEF RecordStatus, Trails, Grows
  <2> QED
    BY <1>1, <2>1, <2>2, <2>3 DEF NoMark
<1>4. /\ Booting' <=> Boots(host', todo')
      /\ Booting <=> Boots(host, todo)
  BY DEF Booting, Boots, EndOf
<1>5. DownIsIdle'
  BY <1>2 DEF DownIsIdle
<1>6. CASE \E x \in Executions : todo = Publish(x)
  <2>1. PICK x \in Executions : todo = Publish(x)
    BY <1>6
  <2>2. todo' = <<>>
    BY <1>1, <2>1, WorkParts
  <2>3. ~Booting /\ ~Booting'
    BY <1>2, <1>4, <2>1, <2>2, PublishWork, NoWork
  <2>4. \A g \in open : ~Finishes(todo, g) /\ ~Finishes(todo', g)
    BY <2>1, <2>2, PublishWork, NoWork
  <2>5. WorkShape'
    BY <2>2 DEF WorkShape
  <2> QED
    BY <1>1, <1>3, <1>5, <2>3, <2>4, <2>5, ServingWork, ChainKeeps
<1>7. CASE \E g \in open : todo = Stopped(target[g], g)
  <2>1. PICK g \in open : todo = Stopped(target[g], g)
    BY <1>7
  <2>2. todo' = Answer(g)
    BY <1>1, <2>1, WorkParts
  <2>3. ~Booting /\ ~Booting'
    BY <1>2, <1>4, <2>1, <2>2, GrantWorkParts
  <2>4. \A h \in open : Finishes(todo, h) <=> Finishes(todo', h)
    BY <2>1, <2>2, GrantWorkParts
  <2>5. WorkShape'
    BY <1>1, <2>2 DEF WorkShape, Answer, Do
  <2> QED
    BY <1>1, <1>3, <1>5, <2>3, <2>4, <2>5, ServingWork, ChainKeeps
<1>8. CASE \E x \in Executions : todo = RepairOf(x)
  <2>1. PICK x \in Executions : todo = RepairOf(x)
    BY <1>8
  <2>2. todo' = Repair
    BY <1>1, <2>1, BootParts
  <2>3. Booting /\ Booting'
    BY <1>4, <2>1, <2>2, BootWork
  <2>4. \A h \in open : ~Finishes(todo, h) /\ ~Finishes(todo', h)
    BY <2>1, <2>2, BootWork
  <2>5. WorkShape' /\ Repairing
    BY <2>1, <2>2 DEF WorkShape, Repairing, Repair, Do
  <2> QED
    BY <1>1, <1>3, <1>5, <2>3, <2>4, <2>5, ChainKeeps
<1>9. CASE \E x \in Executions : todo = SettleOf(x)
  <2>1. PICK x \in Executions : todo = SettleOf(x)
    BY <1>9
  <2>2. todo' = Settle
    BY <1>1, <2>1, BootParts
  <2>3. Booting /\ Booting'
    BY <1>4, <2>1, <2>2, BootWork
  <2>4. \A h \in open : ~Finishes(todo, h) /\ ~Finishes(todo', h)
    BY <2>1, <2>2, BootWork
  <2>5. WorkShape' /\ Settling
    BY <2>1, <2>2 DEF WorkShape, Settling, Settle, Do
  <2> QED
    BY <1>1, <1>3, <1>5, <2>3, <2>4, <2>5, ChainKeeps
<1> QED
  BY <1>1, <1>6, <1>7, <1>8, <1>9, EventWorkIs

LEMMA CancelRunChains ==
  ASSUME ChainInv, ControlInv', CancelRun
  PROVE  ChainInv'
<1>1. /\ todo # <<>> /\ Head(todo).op = "cancel"
      /\ UNCHANGED <<open, target, host, trail>> /\ WorkShape
  BY DEF CancelRun, grantVars, ChainInv
<1>2. PICK g \in open : todo = Carry(g)
  BY <1>1, CancelWorkIs
<1>3. Head(todo).of = g /\ Tail(todo) = Answer(g)
  <2>1. Head(todo) = Do("cancel", g) /\ Tail(todo) = Answer(g)
    BY <1>2, WorkParts
  <2> QED
    BY <2>1, DoParts
<1>4. todo' = Stopped(target[g], g) \/ todo' = Answer(g)
  <2>1. \/ todo' = <<Do("event", target[g])>> \o Answer(g)
        \/ todo' = Answer(g)
    BY <1>3 DEF CancelRun, Persist
  <2> QED
    BY <2>1, WorkAlso
<1>5. host # "down" /\ host' # "down"
  BY <1>1 DEF ChainInv, DownIsIdle
<1>6. ~Booting /\ ~Booting'
  <2>1. /\ Booting' <=> Boots(host', todo')
        /\ Booting <=> Boots(host, todo)
    BY DEF Booting, Boots, EndOf
  <2> QED
    BY <1>2, <1>4, <1>5, <2>1, GrantWorkParts
<1>7. \A h \in open : Finishes(todo, h) <=> Finishes(todo', h)
  BY <1>2, <1>4, GrantWorkParts
<1>8. WorkShape' /\ DownIsIdle'
  BY <1>1, <1>4, <1>5 DEF WorkShape, DownIsIdle, Stopped, Answer, Do
<1> QED
  BY <1>1, <1>6, <1>7, <1>8, ServingWork, ChainKeeps DEF NoMark

LEMMA UnloadChains ==
  ASSUME ChainInv, ControlInv', Unload
  PROVE  ChainInv'
<1>1. /\ Idle /\ host' = "unloading" /\ todo' = CloseDown
      /\ UNCHANGED <<open, target, trail>>
  BY DEF Unload, grantVars, CloseDown
<1>2. ~Booting' /\ \A g \in open : ~Finishes(todo', g)
  <2>1. Booting' <=> Boots(host', todo')
    BY DEF Booting, Boots, EndOf
  <2> QED
    BY <1>1, <2>1, CloseDownWork
<1>3. WorkShape' /\ DownIsIdle'
  BY <1>1 DEF WorkShape, DownIsIdle, CloseDown, Do
<1> QED
  BY <1>1, <1>2, <1>3, IdlePhase, ServingWork, ChainKeeps DEF NoMark

LEMMA RestartChains ==
  ASSUME ChainInv, ControlInv', Restart
  PROVE  ChainInv'
<1>1. /\ host = "down" /\ host' = "up" /\ todo' = Boot /\ todo = <<>>
      /\ UNCHANGED <<open, target, trail>>
  BY DEF Restart, grantVars, Boot, ChainInv, DownIsIdle
<1>2. Booting /\ Booting'
  <2>1. Booting' <=> Boots(host', todo')
    BY DEF Booting, Boots, EndOf
  <2> QED
    BY <1>1, <2>1, BootWork DEF Booting, Boots
<1>3. open = {}
  BY <1>2 DEF ChainInv, ChainsOpen
<1>4. WorkShape' /\ DownIsIdle'
  BY <1>1 DEF WorkShape, DownIsIdle, Boot, Do
<1>5. ~(Repairing \/ Settling)'
  <2>1. Head(Boot) = Do("control", None)
    BY BootParts
  <2>2. Do("control", None) # Do("derived", None) /\ Do("control", None) # Do("interrupted", None)
    BY DEF Do
  <2>3. \A x : Do("control", None) # Do("event", x)
    BY DEF Do
  <2>4. \A x : Head(RepairOf(x)) = Do("event", x) /\ Head(SettleOf(x)) = Do("event", x)
    BY DEF RepairOf, SettleOf
  <2>5. Head(Repair) = Do("derived", None) /\ Head(Settle) = Do("interrupted", None)
    BY BootParts
  <2>6. Boot # Repair /\ Boot # Settle /\ \A x : Boot # RepairOf(x) /\ Boot # SettleOf(x)
    BY <2>1, <2>2, <2>3, <2>4, <2>5
  <2> QED
    BY <1>1, <2>6 DEF Repairing, Settling, Repair, RepairOf, Settle, SettleOf, Do
<1> QED
  BY <1>1, <1>2, <1>3, <1>4, <1>5, ChainKeeps DEF NoMark

LEMMA ProcessEndsChains ==
  ASSUME ChainInv, ControlInv', ProcessEnds
  PROVE  ChainInv'
<1>1. /\ host' = "down" /\ todo' = <<>> /\ open' = {}
      /\ UNCHANGED <<target, trail>>
  BY DEF ProcessEnds
<1>2. Ordered' /\ Begins'
  BY <1>1, OrderSame DEF ChainInv
<1>3. OpenChains' /\ ChainsOpen' /\ DownIsIdle' /\ WorkShape'
  BY <1>1 DEF OpenChains, ChainsOpen, Booting, Boots, DownIsIdle, WorkShape
<1>4. ChainsRepaired'
  <2>1. \A x : <<>> # RepairOf(x) /\ <<>> # SettleOf(x) /\ <<>> # Repair /\ <<>> # Settle
    BY BootParts
  <2> QED
    BY <1>1, <2>1 DEF ChainsRepaired, Repairing, Settling, Repair, RepairOf, Settle, SettleOf, Do
<1> QED
  BY <1>2, <1>3, <1>4 DEF ChainInv

LEMMA ReconcileDerivedChains ==
  ASSUME ChainInv, ControlInv', ReconcileDerived
  PROVE  ChainInv'
<1>1. /\ todo # <<>> /\ Head(todo).op = "derived" /\ WorkShape
      /\ UNCHANGED <<open, target, host, trail>>
  BY DEF ReconcileDerived, grantVars, ChainInv
<1>2. todo = Repair /\ Tail(todo) = Settle
  BY <1>1, HostWorkIs, BootParts
<1>3. todo' = Settle \/ \E x \in Executions : todo' = RepairOf(x)
  <2>1. todo' = Settle \/ \E x \in Executions : todo' = <<Do("event", x)>> \o Repair
    BY <1>2 DEF ReconcileDerived, Underived
  <2> QED
    BY <2>1, WorkAlso
<1>4. Booting' /\ Booting /\ Repairing
  <2>1. Booting' <=> Boots(host', todo')
    BY DEF Booting, Boots, EndOf
  <2> QED
    BY <1>2, <1>3, <2>1, BootWork DEF Booting, Repairing
<1>5. open = {}
  BY <1>4 DEF ChainInv, ChainsOpen
<1>6. WorkShape' /\ DownIsIdle'
  <2>1. host' # "down"
    BY <1>1 DEF ChainInv, DownIsIdle
  <2> QED
    BY <1>3, <2>1 DEF WorkShape, Settling, Repairing, DownIsIdle, Settle, RepairOf, Do
<1> QED
  BY <1>1, <1>4, <1>5, <1>6, ChainKeeps DEF NoMark

LEMMA CloseInterruptedChains ==
  ASSUME ChainInv, ControlInv', CloseInterrupted
  PROVE  ChainInv'
<1>1. /\ todo # <<>> /\ Head(todo).op = "interrupted" /\ WorkShape
      /\ UNCHANGED <<open, target, host, trail>>
  BY DEF CloseInterrupted, grantVars, ChainInv
<1>2. todo = Settle /\ Tail(todo) = <<>> /\ host # "down" /\ host' # "down"
  BY <1>1, HostWorkIs, BootParts DEF ChainInv, DownIsIdle
<1>3. Booting /\ Settling
  BY <1>2, BootWork DEF Booting, Settling
<1>4. open = {} /\ Unclosed = {}
  BY <1>3 DEF ChainInv, ChainsOpen, ChainsRepaired
<1>5. DownIsIdle'
  BY <1>2 DEF DownIsIdle
<1>6. Booting' <=> Boots(host', todo')
  BY DEF Booting, Boots, EndOf
<1>7. CASE \E x \in Executions : todo' = <<Do("event", x)>> \o Settle
  <2>1. PICK x \in Executions : todo' = SettleOf(x)
    BY <1>7, WorkAlso
  <2>2. Booting'
    BY <1>6, <2>1, BootWork
  <2>3. WorkShape'
    BY <2>1 DEF WorkShape, Settling, SettleOf, Do
  <2> QED
    BY <1>1, <1>3, <1>4, <1>5, <2>2, <2>3, ChainKeeps DEF NoMark
<1>8. CASE todo' = <<>>
  <2>1. Ordered' /\ Begins' /\ \A g \in Grants : SameMarks(g)
    BY <1>1, OrderSame, MarksSame DEF ChainInv
  <2>2. ~Booting'
    BY <1>2, <1>6, <1>8, NoWork
  <2>3. ChainsOpen' /\ OpenChains'
    BY <1>1, <1>4, <2>1, <2>2 DEF ChainsOpen, OpenChains, Unclosed, SameMarks
  <2>4. ChainsRepaired'
    BY <2>2, ServingWork DEF ChainsRepaired
  <2>5. WorkShape'
    BY <1>8 DEF WorkShape
  <2> QED
    BY <1>5, <2>1, <2>3, <2>4, <2>5 DEF ChainInv
<1> QED
  BY <1>2, <1>7, <1>8 DEF CloseInterrupted, Persist

(* One event more in the chain of a grant. *)
LEMMA EventIs ==
  ASSUME NEW e \in AnyEvent
  PROVE  e = Event(e.kind, e.grant)
  BY DEF AnyEvent, Event

LEMMA MarkFollows ==
  ASSUME ChainInv, NEW g \in Grants, Requested(g), ~Closed(g),
         NEW kind \in {"consumed", "closed"}, kind = "consumed" => ~Consumed(g),
         NEW m \in 1..Len(trail[target[g]]), trail[target[g]][m].grant = g
  PROVE  Follows(trail[target[g]][m].kind, kind)
<1> DEFINE e == trail[target[g]][m]
<1>1. target[g] \in Executions /\ Shape
  BY DEF Requested, ChainInv, ControlInv, Shape
<1>2. trail[target[g]] \in Seq(AnyEvent)
  BY <1>1 DEF Shape
<1>3. e \in AnyEvent /\ m \in DOMAIN trail[target[g]]
  BY <1>2
<1>4. e.kind \in ControlKind /\ e = Event(e.kind, g)
  BY <1>1, <1>3, EventIs DEF ChainInv, Ordered
<1>5. e.kind # "closed"
  BY <1>1, <1>4, InLedgerIs DEF Closed
<1>6. kind = "consumed" => e.kind # "consumed"
  BY <1>1, <1>4, InLedgerIs DEF Consumed
<1> QED
  BY <1>4, <1>5, <1>6 DEF Follows, ControlKind

LEMMA MarkKeeps ==
  ASSUME ChainInv, ControlInv', NEW g \in Grants, Requested(g), ~Closed(g),
         NEW kind \in {"consumed", "closed"}, kind = "consumed" => ~Consumed(g),
         Grows(target[g], Event(kind, g)), target' = target
  PROVE  /\ Ordered' /\ Begins'
         /\ \A h \in Grants :
              /\ Requested(h)' <=> Requested(h)
              /\ Consumed(h)' <=> Consumed(h) \/ (h = g /\ kind = "consumed")
              /\ Closed(h)' <=> Closed(h) \/ (h = g /\ kind = "closed")
<1>1. target[g] \in Executions /\ Shape /\ Shape'
  BY DEF Requested, ChainInv, ControlInv, Shape
<1>2. Event(kind, g) \in AnyEvent /\ Event(kind, g).kind = kind /\ Event(kind, g).grant = g
  BY ControlEvent DEF ControlKind
<1>3. \A m \in 1..Len(trail[target[g]]) :
        trail[target[g]][m].grant = g => Follows(trail[target[g]][m].kind, kind)
  BY MarkFollows
<1>4. Ordered /\ Begins /\ kind \in ControlKind
  BY DEF ChainInv, ControlKind
<1>5. Ordered' /\ Begins'
  <2>1. \A h \in Grants : target'[h] # None => Requested(h)
    BY DEF Requested
  <2> HIDE DEF Requested
  <2> QED
    BY <1>1, <1>2, <1>3, <1>4, <2>1, OrderGrows
<1>6. ASSUME NEW h \in Grants
      PROVE  /\ Requested(h)' <=> Requested(h)
             /\ Consumed(h)' <=> Consumed(h) \/ (h = g /\ kind = "consumed")
             /\ Closed(h)' <=> Closed(h) \/ (h = g /\ kind = "closed")
  <2>1. /\ Requested(h)' <=> Requested(h)
        /\ Consumed(h)' <=>
             Consumed(h) \/ (Requested(h) /\ target[h] = target[g] /\ kind = "consumed" /\ g = h)
        /\ Closed(h)' <=>
             Closed(h) \/ (Requested(h) /\ target[h] = target[g] /\ kind = "closed" /\ g = h)
    BY <1>1, <1>2, MarksGrow
  <2> QED
    BY <2>1
<1> QED
  BY <1>5, <1>6

LEMMA CloseChains ==
  ASSUME ChainInv, ControlInv', NEW g \in open, Close(g), todo' = todo, ~Finishes(todo, g)
  PROVE  /\ ChainInv'
         /\ \A h \in Grants : /\ Requested(h)' <=> Requested(h)
                              /\ Consumed(h)' <=> Consumed(h)
                              /\ Closed(h)' <=> Closed(h) \/ h = g
<1>1. /\ g \in Grants /\ Requested(g) /\ ~Closed(g) /\ ~Consumed(g)
      /\ ~Booting
  BY OpenIsRequested DEF ChainInv, OpenChains, ChainsOpen
<1>2. /\ Grows(target[g], Event("closed", g)) /\ target' = target
      /\ open' = open \ {g} /\ host' = host
  BY DEF Close, RecordControl, Forget, Grows
<1>3. /\ Ordered' /\ Begins'
      /\ \A h \in Grants : /\ Requested(h)' <=> Requested(h)
                           /\ Consumed(h)' <=> Consumed(h)
                           /\ Closed(h)' <=> Closed(h) \/ h = g
  BY <1>1, <1>2, MarkKeeps
<1>4. Booting' <=> Booting
  BY <1>2 DEF Booting, Boots, EndOf
<1>5. open \subseteq Grants
  BY DEF ChainInv, ControlInv, Shape
<1>6. OpenChains'
  BY <1>2, <1>3, <1>5 DEF OpenChains, ChainInv, Finishes, EndOf, Do
<1>7. ChainsOpen'
  BY <1>1, <1>2, <1>3, <1>4 DEF ChainsOpen, ChainInv
<1>8. ChainsRepaired'
  BY <1>1, <1>4, ServingWork DEF ChainsRepaired
<1>9. WorkShape'
  <2>1. WorkShape /\ ~Repairing /\ ~Settling
    BY <1>1, ServingNow DEF ChainInv
  <2>2. CASE todo = <<>> \/ todo \in {CloseDown, Boot}
    BY <2>2 DEF WorkShape, CloseDown, Boot, Do
  <2>3. CASE \E x \in Executions : todo = Publish(x)
    BY <2>3 DEF WorkShape, Publish, Do
  <2>4. CASE \E h \in open : todo \in {Carry(h), Stopped(target[h], h), Answer(h)}
    <3>1. PICK h \in open : todo \in {Carry(h), Stopped(target[h], h), Answer(h)}
      BY <2>4
    <3>2. h # g
      BY <3>1, GrantWorkParts
    <3>3. h \in open'
      BY <1>2, <3>2
    <3> QED
      BY <1>2, <3>1, <3>3 DEF WorkShape, Carry, Stopped, Answer, Do
  <2> QED
    BY <2>1, <2>2, <2>3, <2>4 DEF WorkShape
<1>10. DownIsIdle'
  BY <1>2 DEF DownIsIdle, ChainInv
<1> QED
  BY <1>3, <1>6, <1>7, <1>8, <1>9, <1>10 DEF ChainInv

LEMMA ExecuteChains ==
  ASSUME ChainInv, ControlInv', NEW g \in Grants, Execute(g)
  PROVE  /\ ChainInv'
         /\ \A h \in Grants : /\ Requested(h)' <=> Requested(h)
                              /\ Consumed(h)' <=> Consumed(h) \/ h = g
                              /\ Closed(h)' <=> Closed(h)
<1>1. /\ Idle /\ g \in open /\ todo' = Carry(g)
      /\ Grows(target[g], Event("consumed", g)) /\ target' = target
      /\ open' = open /\ host' = host
  BY DEF Execute, RecordControl, Grows, grantVars, Carry
<1>2. /\ ~Booting /\ ~Repairing /\ ~Settling /\ host # "down"
      /\ \A h : ~Finishes(todo, h)
  BY <1>1, IdlePhase
<1>3. /\ Requested(g) /\ ~Closed(g) /\ ~Consumed(g)
      /\ open \subseteq Grants /\ \A h \in open : ~Consumed(h)
  BY <1>1, <1>2, OpenIsRequested DEF ChainInv, OpenChains, ControlInv, Shape
<1>4. /\ Ordered' /\ Begins'
      /\ \A h \in Grants : /\ Requested(h)' <=> Requested(h)
                           /\ Consumed(h)' <=> Consumed(h) \/ h = g
                           /\ Closed(h)' <=> Closed(h)
  BY <1>1, <1>3, MarkKeeps
<1>5. ~Booting' /\ \A h : Finishes(todo', h) <=> h = g
  <2>1. Booting' <=> Boots(host', todo')
    BY DEF Booting, Boots, EndOf
  <2> QED
    BY <1>1, <1>2, <2>1, GrantWorkParts
<1>6. OpenChains'
  <2>1. \A h \in open' : ~Closed(h)' /\ (Consumed(h)' <=> Finishes(todo', h))
    BY <1>1, <1>3, <1>4, <1>5 DEF ChainInv, OpenChains
  <2> QED
    BY <2>1 DEF OpenChains, Finishes, EndOf, Do
<1>7. ChainsOpen'
  BY <1>1, <1>2, <1>4, <1>5 DEF ChainsOpen, ChainInv
<1>8. ChainsRepaired'
  BY <1>5, ServingWork DEF ChainsRepaired
<1>9. WorkShape' /\ DownIsIdle'
  BY <1>1, <1>2 DEF WorkShape, DownIsIdle, Carry, Do
<1> QED
  BY <1>4, <1>6, <1>7, <1>8, <1>9 DEF ChainInv

LEMMA RecordResultChains ==
  ASSUME ChainInv, ControlInv', RecordResult
  PROVE  /\ ChainInv' /\ todo' = <<>>
         /\ \E g \in open :
              /\ todo = Answer(g) /\ Consumed(g)
              /\ RecordControl(g, "closed", 1) /\ open' = open \ {g}
              /\ \A h \in Grants : /\ Requested(h)' <=> Requested(h)
                                   /\ Consumed(h)' <=> Consumed(h)
                                   /\ Closed(h)' <=> Closed(h) \/ h = g
<1>1. /\ todo # <<>> /\ Head(todo).op = "result" /\ todo' = Tail(todo) /\ host' = host
      /\ WorkShape
  BY DEF RecordResult, ChainInv
<1>2. PICK g \in open : todo = Answer(g)
  BY <1>1, ResultWorkIs
<1>3. Head(todo).of = g /\ todo' = <<>>
  <2>1. Head(todo) = Do("result", g) /\ Tail(todo) = <<>>
    BY <1>2, WorkParts
  <2> QED
    BY <1>1, <2>1, DoParts
<1>4. /\ RecordControl(g, "closed", 1) /\ open' = open \ {g} /\ target' = target
      /\ Grows(target[g], Event("closed", g))
  BY <1>3 DEF RecordResult, RecordControl, Forget, Grows
<1>5. host # "down"
  BY <1>1 DEF ChainInv, DownIsIdle
<1>6. ~Booting /\ ~Booting' /\ \A h : Finishes(todo, h) <=> h = g
  <2>1. /\ Booting' <=> Boots(host', todo')
        /\ Booting <=> Boots(host, todo)
    BY DEF Booting, Boots, EndOf
  <2>2. todo \in {Carry(g), Stopped(g, g), Answer(g)}
    BY <1>2
  <2>3. ~Boots(host, todo) /\ \A h : Finishes(todo, h) <=> h = g
    BY <1>5, <2>2, GrantWorkParts
  <2>4. ~Boots(host', todo')
    BY <1>1, <1>3, <1>5, NoWork
  <2> QED
    BY <2>1, <2>3, <2>4
<1>7. /\ g \in Grants /\ Requested(g) /\ ~Closed(g) /\ Consumed(g)
      /\ open \subseteq Grants /\ \A h \in open : h # g => ~Consumed(h)
  BY <1>6, OpenIsRequested DEF ChainInv, OpenChains, ControlInv, Shape
<1>8. /\ Ordered' /\ Begins'
      /\ \A h \in Grants : /\ Requested(h)' <=> Requested(h)
                           /\ Consumed(h)' <=> Consumed(h)
                           /\ Closed(h)' <=> Closed(h) \/ h = g
  BY <1>4, <1>7, MarkKeeps
<1>9. OpenChains'
  <2>1. \A h \in open' : ~Closed(h)' /\ ~Consumed(h)' /\ ~Finishes(todo', h)
    BY <1>3, <1>4, <1>7, <1>8, NoWork DEF ChainInv, OpenChains
  <2> QED
    BY <2>1 DEF OpenChains, Finishes, EndOf, Do
<1>10. ChainsOpen'
  BY <1>4, <1>6, <1>8 DEF ChainsOpen, ChainInv
<1>11. ChainsRepaired'
  BY <1>6, ServingWork DEF ChainsRepaired
<1>12. WorkShape' /\ DownIsIdle'
  BY <1>3 DEF WorkShape, DownIsIdle
<1>13. ChainInv'
  BY <1>8, <1>9, <1>10, <1>11, <1>12 DEF ChainInv
<1> QED
  BY <1>2, <1>3, <1>4, <1>7, <1>8, <1>13

LEMMA IssueChains ==
  ASSUME ChainInv, ControlInv', NEW g \in Grants, NEW x \in Executions, Issue(g, x)
  PROVE  /\ ChainInv'
         /\ \A h \in Grants : /\ Requested(h)' <=> Requested(h) \/ h = g
                              /\ Consumed(h)' <=> Consumed(h)
                              /\ Closed(h)' <=> Closed(h)
<1>1. /\ Idle /\ target[g] = None /\ todo' = todo /\ host' = host
      /\ Grows(x, Event("requested", g))
      /\ open' = open \cup {g}
      /\ target' = [target EXCEPT ![g] = x]
  BY DEF Issue, Grant, Grows
<1>2. /\ ~Booting /\ ~Repairing /\ ~Settling /\ host # "down"
      /\ \A h : ~Finishes(todo, h)
  BY <1>1, IdlePhase
<1>3. /\ Shape /\ Shape' /\ Ordered /\ Begins /\ open \subseteq Grants
      /\ ~Requested(g) /\ target'[g] = x
      /\ \A h \in Grants : h # g => target'[h] = target[h]
  BY <1>1 DEF ChainInv, ControlInv, Shape, Requested
<1>4. /\ Event("requested", g) \in AnyEvent
      /\ Event("requested", g).kind = "requested" /\ Event("requested", g).grant = g
  BY ControlEvent DEF ControlKind
<1>5. \A y \in Executions : \A n \in DOMAIN trail[y] : trail[y][n].grant # g
  BY <1>1, NoneIsFresh DEF ChainInv, Ordered
<1>6. Ordered' /\ Begins'
  <2>1. \A m \in 1..Len(trail[x]) : trail[x][m].grant # g
    <3>1. trail[x] \in Seq(AnyEvent)
      BY <1>3 DEF Shape
    <3> QED
      BY <1>5, <3>1
  <2>2. \A h \in Grants : Requested(h) => target'[h] = target[h]
    BY <1>3
  <2>3. \A h \in Grants : target'[h] # None /\ ~Requested(h) =>
          x = target'[h] /\ Event("requested", g) = Event("requested", h)
    BY <1>3 DEF Requested
  <2>4. "requested" \in ControlKind
    BY DEF ControlKind
  <2> QED
    BY <1>1, <1>3, <1>4, <2>1, <2>2, <2>3, <2>4, OrderGrows
<1>7. ASSUME NEW h \in Grants, h # g
      PROVE  SameMarks(h)
  BY <1>1, <1>3, <1>4, <1>7, MarksGrow DEF SameMarks
<1>8. Requested(g)' /\ ~Consumed(g)' /\ ~Closed(g)' /\ ~Consumed(g) /\ ~Closed(g)
  <2>1. Requested(g)'
    BY <1>3, NoneIsFresh DEF Requested
  <2>2. \A k \in {"consumed", "closed"} : ~InLedger(x, Event(k, g))
    <3> SUFFICES ASSUME NEW k \in {"consumed", "closed"}, InLedger(x, Event(k, g))
                 PROVE  FALSE
      OBVIOUS
    <3>1. PICK n \in DOMAIN trail[x] : trail[x][n] = Event(k, g)
      BY DEF InLedger, Range
    <3> QED
      BY <1>5, <3>1, EventsDiffer
  <2>3. \A k \in {"consumed", "closed"} : ~(Event(k, g) \in Range(trail'[x]))
    <3>1. \A k : InLedger(x, Event(k, g))' <=>
                   InLedger(x, Event(k, g)) \/ Event(k, g) = Event("requested", g)
      BY <1>1, <1>3, <1>4, LedgerGrows
    <3>2. \A k : InLedger(x, Event(k, g))' <=> Event(k, g) \in Range(trail'[x])
      BY DEF InLedger, Event
    <3>3. \A k \in {"consumed", "closed"} : Event(k, g) # Event("requested", g)
      BY EventsDiffer
    <3> QED
      BY <2>2, <3>1, <3>2, <3>3
  <2>4. ~Consumed(g)' /\ ~Closed(g)'
    BY <1>3, <2>3 DEF Consumed, Closed, InLedger, Event
  <2> QED
    BY <1>3, <2>1, <2>4 DEF Consumed, Closed
<1>9. \A h \in Grants : /\ Requested(h)' <=> Requested(h) \/ h = g
                        /\ Consumed(h)' <=> Consumed(h)
                        /\ Closed(h)' <=> Closed(h)
  BY <1>7, <1>8 DEF SameMarks
<1>10. ~Booting' /\ \A h : ~Finishes(todo', h)
  BY <1>1, <1>2 DEF Booting, Boots, EndOf
<1>11. OpenChains'
  <2>1. \A h \in open' : ~Closed(h)' /\ ~Consumed(h)' /\ ~Finishes(todo', h)
    BY <1>1, <1>2, <1>3, <1>8, <1>9, <1>10 DEF ChainInv, OpenChains
  <2> QED
    BY <2>1 DEF OpenChains, Finishes, EndOf, Do
<1>12. ChainsOpen'
  BY <1>1, <1>2, <1>9, <1>10 DEF ChainsOpen, ChainInv
<1>13. ChainsRepaired'
  BY <1>10, ServingWork DEF ChainsRepaired
<1>14. WorkShape' /\ DownIsIdle'
  <2>1. todo' = <<>>
    BY <1>1 DEF Idle
  <2> QED
    BY <2>1 DEF WorkShape, DownIsIdle
<1> QED
  BY <1>6, <1>9, <1>11, <1>12, <1>13, <1>14 DEF ChainInv

(* The next host closes a chain, or finds none that is not closed. *)
LEMMA ReconcileControlChains ==
  ASSUME ChainInv, ControlInv', ReconcileControl, Unclosed # {} => Room(1)
  PROVE  /\ ChainInv' /\ Booting /\ Booting' /\ todo = Boot
         /\ \/ \E g \in Unclosed :
                 /\ Grows(target[g], Event("closed", g))
                 /\ events' = events + 1 /\ todo' = todo
                 /\ Unclosed' = Unclosed \ {g}
            \/ /\ todo' = Repair /\ UNCHANGED <<events, trail>>
               /\ Unclosed = {} /\ Unclosed' = {}
<1>1. /\ todo # <<>> /\ Head(todo).op = "control" /\ WorkShape
      /\ UNCHANGED <<open, target, host>>
  BY DEF ReconcileControl, grantVars, ChainInv
<1>2. todo = Boot /\ Tail(todo) = Repair /\ host # "down" /\ host' # "down"
  BY <1>1, HostWorkIs, BootParts DEF ChainInv, DownIsIdle
<1>3. Booting /\ open = {}
  <2>1. Booting
    BY <1>2, BootWork DEF Booting
  <2> QED
    BY <2>1 DEF ChainInv, ChainsOpen
<1>4. Booting' <=> Boots(host', todo')
  BY DEF Booting, Boots, EndOf
<1>5. DownIsIdle' /\ OpenChains'
  BY <1>1, <1>2, <1>3 DEF DownIsIdle, OpenChains
<1>6. CASE Unclosed # {}
  <2>1. PICK g \in Unclosed : trail' = [trail EXCEPT ![target[g]] = Append(@, Event("closed", g))]
    BY <1>6 DEF ReconcileControl
  <2>2. Grows(target[g], Event("closed", g)) /\ events' = events + 1 /\ todo' = todo
    BY <1>6, <2>1 DEF ReconcileControl, Grows
  <2>3. g \in Grants /\ Requested(g) /\ ~Closed(g)
    BY DEF Unclosed
  <2>4. /\ Ordered' /\ Begins'
        /\ \A h \in Grants : /\ Requested(h)' <=> Requested(h)
                             /\ Consumed(h)' <=> Consumed(h)
                             /\ Closed(h)' <=> Closed(h) \/ h = g
    BY <1>1, <2>2, <2>3, MarkKeeps
  <2>5. Unclosed' = Unclosed \ {g}
    BY <2>4 DEF Unclosed
  <2>6. Booting'
    BY <1>2, <1>4, <2>2, BootWork
  <2>7. ChainsOpen'
    BY <1>1, <1>3, <2>6 DEF ChainsOpen
  <2>8. ~(Repairing \/ Settling)'
    <3>1. ~(Repairing \/ Settling)
      <4>1. Head(Boot) = Do("control", None)
        BY BootParts
      <4>2. Do("control", None) # Do("derived", None) /\ Do("control", None) # Do("interrupted", None)
        BY DEF Do
      <4>3. \A x : Do("control", None) # Do("event", x)
        BY DEF Do
      <4>4. \A x : Head(RepairOf(x)) = Do("event", x) /\ Head(SettleOf(x)) = Do("event", x)
        BY DEF RepairOf, SettleOf
      <4>5. Head(Repair) = Do("derived", None) /\ Head(Settle) = Do("interrupted", None)
        BY BootParts
      <4> QED
        BY <1>2, <4>1, <4>2, <4>3, <4>4, <4>5 DEF Repairing, Settling
    <3> QED
      BY <2>2, <3>1 DEF Repairing, Settling, Repair, RepairOf, Settle, SettleOf, Do
  <2>9. WorkShape'
    BY <1>2, <2>2 DEF WorkShape, Boot, Do
  <2>10. ChainInv'
    BY <1>5, <2>4, <2>7, <2>8, <2>9 DEF ChainInv, ChainsRepaired
  <2> QED
    BY <1>2, <1>3, <2>2, <2>5, <2>6, <2>10
<1>7. CASE Unclosed = {}
  <2>1. todo' = Repair /\ UNCHANGED <<events, trail>>
    BY <1>2, <1>7 DEF ReconcileControl
  <2>2. Ordered' /\ Begins' /\ \A g \in Grants : SameMarks(g)
    BY <1>1, <2>1, OrderSame, MarksSame DEF ChainInv
  <2>3. Unclosed' = Unclosed
    BY <2>2 DEF Unclosed, SameMarks
  <2>4. Booting'
    BY <1>4, <2>1, BootWork
  <2>5. ChainsOpen'
    BY <1>1, <1>3, <2>4 DEF ChainsOpen
  <2>6. ChainsRepaired'
    BY <1>7, <2>3 DEF ChainsRepaired
  <2>7. WorkShape'
    BY <2>1 DEF WorkShape, Repairing, Repair, Do
  <2>8. ChainInv'
    BY <1>5, <2>2, <2>5, <2>6, <2>7 DEF ChainInv
  <2> QED
    BY <1>2, <1>3, <1>7, <2>1, <2>3, <2>4, <2>8
<1> QED
  BY <1>6, <1>7

LEMMA CloseAllChains ==
  ASSUME ChainInv, ControlInv', CloseAll
  PROVE  /\ todo = CloseDown
         /\ \/ \E g \in open : Close(g) /\ todo' = todo /\ ~Finishes(todo, g)
            \/ /\ ChainInv' /\ open = {} /\ todo' = <<>>
               /\ UNCHANGED <<budgetVars, trail, snapshot, grantVars, cancelled, host>>
<1>1. /\ todo # <<>> /\ Head(todo).op = "close all" /\ WorkShape
  BY DEF CloseAll, ChainInv
<1>2. todo = CloseDown /\ Tail(todo) = <<>> /\ host # "down"
  BY <1>1, HostWorkIs, BootParts DEF ChainInv, DownIsIdle
<1>3. ~Booting /\ \A g : ~Finishes(todo, g)
  BY <1>2, CloseDownWork DEF Booting
<1>4. CASE /\ open = {} /\ todo' = <<>>
           /\ UNCHANGED <<budgetVars, trail, snapshot, grantVars, cancelled, host>>
  <2>1. ~Booting'
    <3>1. Booting' <=> Boots(host', todo')
      BY DEF Booting, Boots, EndOf
    <3> QED
      BY <1>2, <1>4, <3>1, NoWork
  <2>2. WorkShape' /\ DownIsIdle'
    BY <1>4 DEF WorkShape, DownIsIdle
  <2>3. NoMark /\ open' = open
    BY <1>4 DEF NoMark, grantVars
  <2>4. ChainInv'
    BY <1>3, <1>4, <2>1, <2>2, <2>3, ServingWork, ChainKeeps
  <2> QED
    BY <1>2, <1>4, <2>4
<1> QED
  BY <1>2, <1>3, <1>4 DEF CloseAll

-----------------------------------------------------------------------------
(* The budget.                                                             *)

BudgetInv == BudgetType /\ PromisesFit

(* The slots that are held back are those the open chains may still use. *)
SlotsExact ==
  /\ IsFiniteSet(open)
  /\ controlSlots = Cardinality({g \in open : ~Consumed(g)}) * 2
                    + Cardinality({g \in open : Consumed(g)})

LEMMA ReservedType ==
  ASSUME BudgetType
  PROVE  /\ events \in Nat /\ controlSlots \in Nat /\ remaining \in [Executions -> Nat]
         /\ SumFunction(remaining) \in Nat /\ Reserved \in Nat
         /\ Reserved = SumFunction(remaining) + controlSlots
         /\ \A x \in Executions : remaining[x] \in Nat /\ remaining[x] <= Reserved
<1>1. /\ SumFunction(remaining) \in Nat
      /\ \A x \in Executions : remaining[x] <= SumFunction(remaining)
  BY SumType, ExecutionsType DEF BudgetType
<1>2. /\ events \in Nat /\ controlSlots \in Nat /\ remaining \in [Executions -> Nat]
      /\ \A x \in Executions : remaining[x] \in Nat
  BY MaxEventsType DEF BudgetType
<1> QED
  BY <1>1, <1>2 DEF Reserved

LEMMA ReservationChanges ==
  ASSUME BudgetType, NEW x \in Executions, NEW n \in Nat,
         remaining' = [remaining EXCEPT ![x] = n], UNCHANGED controlSlots
  PROVE  /\ Reserved' = Reserved - remaining[x] + n
         /\ remaining' \in [Executions -> Nat]
<1>1. remaining \in [Executions -> Nat]
  BY DEF BudgetType
<1>2. SumFunction(remaining') = SumFunction(remaining) - remaining[x] + n
  BY <1>1, SumUpdate, ExecutionsType
<1>3. /\ SumFunction(remaining) \in Nat /\ remaining[x] \in Nat
      /\ controlSlots \in Nat /\ controlSlots' = controlSlots
  BY ReservedType DEF BudgetType
<1> QED
  BY <1>1, <1>2, <1>3 DEF Reserved

(* What makes the budget fit after a step. *)
LEMMA BudgetFits ==
  ASSUME events' \in Nat, remaining' \in [Executions -> Nat], controlSlots' \in Nat,
         events' + Reserved' <= MaxEvents
  PROVE  BudgetInv'
<1>1. SumFunction(remaining') \in Nat
  BY SumType, ExecutionsType
<1>2. Reserved' \in Nat
  BY <1>1 DEF Reserved
<1>3. \A a, b, m \in Nat : a + b <= m => a <= m
  OBVIOUS
<1>4. events' <= MaxEvents
  BY <1>2, <1>3, MaxEventsType
<1> QED
  BY <1>4, MaxEventsType DEF BudgetInv, BudgetType, PromisesFit

LEMMA SameBudget ==
  ASSUME BudgetInv, UNCHANGED budgetVars
  PROVE  BudgetInv'
  BY DEF BudgetInv, BudgetType, PromisesFit, Reserved, budgetVars

LEMMA RecordOfExecutionFits ==
  ASSUME BudgetInv, NEW x \in Executions, RecordOfExecution(x)
  PROVE  /\ BudgetInv' /\ UNCHANGED controlSlots
         /\ remaining[x] > 0 =>
              /\ events' = events + 1
              /\ remaining' = [remaining EXCEPT ![x] = remaining[x] - 1]
         /\ ~(remaining[x] > 0) =>
              /\ remaining' = remaining
              /\ Room(1) => events' = events + 1
              /\ ~Room(1) => events' = events
<1> DEFINE slot == IF remaining[x] > 0 THEN 1 ELSE 0
<1>1. /\ events \in Nat /\ Reserved \in Nat /\ controlSlots \in Nat
      /\ remaining[x] \in Nat /\ remaining \in [Executions -> Nat]
      /\ remaining[x] <= Reserved /\ events + Reserved <= MaxEvents
      /\ MaxEvents \in Nat /\ controlSlots' = controlSlots
  BY ReservedType, MaxEventsType DEF BudgetInv, PromisesFit, RecordOfExecution
<1>2. CASE remaining[x] > 0
  <2>1. events' = events + 1 /\ remaining' = [remaining EXCEPT ![x] = remaining[x] - 1]
    BY <1>1, <1>2 DEF RecordOfExecution, Room
  <2>2. Reserved' = Reserved - remaining[x] + (remaining[x] - 1)
        /\ remaining' \in [Executions -> Nat]
    <3>1. remaining[x] - 1 \in Nat /\ BudgetType /\ UNCHANGED controlSlots
      BY <1>1, <1>2 DEF BudgetInv
    <3> QED
      BY <2>1, <3>1, ReservationChanges
  <2>3. events' + Reserved' <= MaxEvents
    BY <1>1, <2>1, <2>2
  <2> QED
    BY <1>1, <1>2, <2>1, <2>2, <2>3, BudgetFits
<1>3. CASE ~(remaining[x] > 0)
  <2>1. remaining[x] - 0 = remaining[x]
    BY <1>1
  <2>2. remaining' = remaining
    BY <1>1, <1>3, <2>1 DEF RecordOfExecution
  <2>3. Reserved' = Reserved
    BY <1>1, <2>2 DEF Reserved
  <2>4. /\ Room(1) => events' = events + 1
        /\ ~Room(1) => events' = events
    BY <1>3 DEF RecordOfExecution, Room
  <2>5. events' \in Nat /\ events' + Reserved' <= MaxEvents
    BY <1>1, <2>3, <2>4 DEF Room
  <2> QED
    BY <1>1, <1>3, <2>2, <2>4, <2>5, BudgetFits
<1> QED
  BY <1>2, <1>3

(* An event about a control uses slots that were held back for it. *)
LEMMA RecordControlFits ==
  ASSUME BudgetInv, NEW g, NEW kind, NEW freed \in {1, 2}, RecordControl(g, kind, freed),
         controlSlots >= freed
  PROVE  BudgetInv' /\ events' = events + 1 /\ remaining' = remaining
         /\ controlSlots' = controlSlots - freed
<1>1. /\ events' = events + 1 /\ controlSlots' = controlSlots - freed /\ remaining' = remaining
  BY DEF RecordControl
<1>2. /\ events \in Nat /\ controlSlots \in Nat /\ SumFunction(remaining) \in Nat
      /\ Reserved = SumFunction(remaining) + controlSlots
      /\ events + Reserved <= MaxEvents /\ remaining \in [Executions -> Nat]
  BY ReservedType DEF BudgetInv, PromisesFit
<1>3. Reserved' = SumFunction(remaining) + (controlSlots - freed)
  BY <1>1 DEF Reserved
<1>4. events' + Reserved' <= MaxEvents /\ controlSlots' \in Nat /\ events' \in Nat
  BY <1>1, <1>2, <1>3, MaxEventsType
<1> QED
  BY <1>1, <1>2, <1>4, BudgetFits

LEMMA IssueBudget ==
  ASSUME BudgetInv, NEW g, NEW x, Issue(g, x)
  PROVE  BudgetInv' /\ controlSlots' = controlSlots + 2 /\ remaining' = remaining
<1>1. /\ events' = events + 1 /\ controlSlots' = controlSlots + 2 /\ remaining' = remaining
      /\ Room(3)
  BY DEF Issue, Grant
<1>2. /\ events \in Nat /\ controlSlots \in Nat /\ SumFunction(remaining) \in Nat
      /\ Reserved = SumFunction(remaining) + controlSlots
      /\ remaining \in [Executions -> Nat]
  BY ReservedType DEF BudgetInv
<1>3. Reserved' = SumFunction(remaining) + (controlSlots + 2)
  BY <1>1 DEF Reserved
<1>4. events' + Reserved' <= MaxEvents /\ controlSlots' \in Nat /\ events' \in Nat
  BY <1>1, <1>2, <1>3, MaxEventsType DEF Room
<1> QED
  BY <1>1, <1>2, <1>4, BudgetFits

-----------------------------------------------------------------------------
(* The slots.                                                              *)

OpenFresh == {g \in open : ~Consumed(g)}
OpenSpent == {g \in open : Consumed(g)}

LEMMA SlotsAre ==
  ASSUME SlotsExact
  PROVE  /\ IsFiniteSet(open) /\ IsFiniteSet(OpenFresh) /\ IsFiniteSet(OpenSpent)
         /\ Cardinality(OpenFresh) \in Nat /\ Cardinality(OpenSpent) \in Nat
         /\ controlSlots = Cardinality(OpenFresh) * 2 + Cardinality(OpenSpent)
<1>1. OpenFresh \in SUBSET open /\ OpenSpent \in SUBSET open /\ IsFiniteSet(open)
  BY DEF OpenFresh, OpenSpent, SlotsExact
<1>2. IsFiniteSet(OpenFresh) /\ IsFiniteSet(OpenSpent)
  BY <1>1, FS_Subset
<1>3. Cardinality(OpenFresh) \in Nat /\ Cardinality(OpenSpent) \in Nat
  BY <1>2, FS_CardinalityType
<1> QED
  BY <1>1, <1>2, <1>3 DEF SlotsExact, OpenFresh, OpenSpent

LEMMA SlotsSame ==
  ASSUME SlotsExact, open \subseteq Grants, open' = open, controlSlots' = controlSlots,
         \A g \in Grants : Consumed(g)' <=> Consumed(g)
  PROVE  SlotsExact'
<1>1. {g \in open : ~Consumed(g)}' = {g \in open : ~Consumed(g)}
  OBVIOUS
<1>2. {g \in open : Consumed(g)}' = {g \in open : Consumed(g)}
  OBVIOUS
<1> QED
  BY <1>1, <1>2 DEF SlotsExact

(* A grant that was not consumed leaves. *)
LEMMA SlotsClose ==
  ASSUME SlotsExact, open \subseteq Grants, NEW g \in open, ~Consumed(g), open' = open \ {g},
         \A h \in Grants : Consumed(h)' <=> Consumed(h)
  PROVE  /\ controlSlots >= 2
         /\ controlSlots' = controlSlots - 2 => SlotsExact'
<1>1. /\ IsFiniteSet(open) /\ IsFiniteSet(OpenFresh)
      /\ Cardinality(OpenFresh) \in Nat /\ Cardinality(OpenSpent) \in Nat
      /\ controlSlots = Cardinality(OpenFresh) * 2 + Cardinality(OpenSpent)
  BY SlotsAre
<1>2. OpenFresh' = OpenFresh \ {g} /\ OpenSpent' = OpenSpent /\ g \in OpenFresh
  BY DEF OpenFresh, OpenSpent
<1>3. /\ Cardinality(OpenFresh \ {g}) = Cardinality(OpenFresh) - 1
      /\ Cardinality(OpenFresh \ {g}) \in Nat /\ IsFiniteSet(open \ {g})
  BY <1>1, <1>2, FS_RemoveElement, FS_CardinalityType
<1>4. controlSlots >= 2
  BY <1>1, <1>3
<1>5. ASSUME controlSlots' = controlSlots - 2
      PROVE  SlotsExact'
  <2>1. controlSlots' = Cardinality(OpenFresh') * 2 + Cardinality(OpenSpent')
    BY <1>1, <1>2, <1>3, <1>5
  <2> QED
    BY <1>3, <2>1 DEF SlotsExact, OpenFresh, OpenSpent
<1> QED
  BY <1>4, <1>5

(* A grant that was consumed leaves. *)
LEMMA SlotsAnswer ==
  ASSUME SlotsExact, open \subseteq Grants, NEW g \in open, Consumed(g), open' = open \ {g},
         \A h \in Grants : Consumed(h)' <=> Consumed(h)
  PROVE  /\ controlSlots >= 1
         /\ controlSlots' = controlSlots - 1 => SlotsExact'
<1>1. /\ IsFiniteSet(open) /\ IsFiniteSet(OpenSpent)
      /\ Cardinality(OpenFresh) \in Nat /\ Cardinality(OpenSpent) \in Nat
      /\ controlSlots = Cardinality(OpenFresh) * 2 + Cardinality(OpenSpent)
  BY SlotsAre
<1>2. OpenSpent' = OpenSpent \ {g} /\ OpenFresh' = OpenFresh /\ g \in OpenSpent
  BY DEF OpenFresh, OpenSpent
<1>3. /\ Cardinality(OpenSpent \ {g}) = Cardinality(OpenSpent) - 1
      /\ Cardinality(OpenSpent \ {g}) \in Nat /\ IsFiniteSet(open \ {g})
  BY <1>1, <1>2, FS_RemoveElement, FS_CardinalityType
<1>4. controlSlots >= 1
  BY <1>1, <1>3
<1>5. ASSUME controlSlots' = controlSlots - 1
      PROVE  SlotsExact'
  <2>1. controlSlots' = Cardinality(OpenFresh') * 2 + Cardinality(OpenSpent')
    BY <1>1, <1>2, <1>3, <1>5
  <2> QED
    BY <1>3, <2>1 DEF SlotsExact, OpenFresh, OpenSpent
<1> QED
  BY <1>4, <1>5

(* A grant is consumed. *)
LEMMA SlotsConsume ==
  ASSUME SlotsExact, open \subseteq Grants, NEW g \in open, ~Consumed(g), open' = open,
         \A h \in Grants : Consumed(h)' <=> Consumed(h) \/ h = g
  PROVE  /\ controlSlots >= 1
         /\ controlSlots' = controlSlots - 1 => SlotsExact'
<1>1. /\ IsFiniteSet(open) /\ IsFiniteSet(OpenFresh) /\ IsFiniteSet(OpenSpent)
      /\ Cardinality(OpenFresh) \in Nat /\ Cardinality(OpenSpent) \in Nat
      /\ controlSlots = Cardinality(OpenFresh) * 2 + Cardinality(OpenSpent)
  BY SlotsAre
<1>2. /\ OpenFresh' = OpenFresh \ {g} /\ OpenSpent' = OpenSpent \cup {g}
      /\ g \in OpenFresh /\ g \notin OpenSpent
  BY DEF OpenFresh, OpenSpent
<1>3. /\ Cardinality(OpenFresh \ {g}) = Cardinality(OpenFresh) - 1
      /\ Cardinality(OpenFresh \ {g}) \in Nat
      /\ Cardinality(OpenSpent \cup {g}) = Cardinality(OpenSpent) + 1
  BY <1>1, <1>2, FS_RemoveElement, FS_AddElement, FS_CardinalityType
<1>4. controlSlots >= 1
  BY <1>1, <1>3
<1>5. ASSUME controlSlots' = controlSlots - 1
      PROVE  SlotsExact'
  <2>1. controlSlots' = Cardinality(OpenFresh') * 2 + Cardinality(OpenSpent')
    BY <1>1, <1>2, <1>3, <1>5
  <2> QED
    BY <1>1, <2>1 DEF SlotsExact, OpenFresh, OpenSpent
<1> QED
  BY <1>4, <1>5

(* A grant is issued. *)
LEMMA SlotsIssue ==
  ASSUME SlotsExact, open \subseteq Grants, NEW g \in Grants \ open, ~Consumed(g),
         open' = open \cup {g}, controlSlots' = controlSlots + 2,
         \A h \in Grants : Consumed(h)' <=> Consumed(h)
  PROVE  SlotsExact'
<1>1. /\ IsFiniteSet(open) /\ IsFiniteSet(OpenFresh)
      /\ Cardinality(OpenFresh) \in Nat /\ Cardinality(OpenSpent) \in Nat
      /\ controlSlots = Cardinality(OpenFresh) * 2 + Cardinality(OpenSpent)
  BY SlotsAre
<1>2. /\ OpenFresh' = OpenFresh \cup {g} /\ OpenSpent' = OpenSpent /\ g \notin OpenFresh
  BY DEF OpenFresh, OpenSpent
<1>3. /\ Cardinality(OpenFresh \cup {g}) = Cardinality(OpenFresh) + 1
      /\ IsFiniteSet(open \cup {g})
  BY <1>1, <1>2, FS_AddElement
<1>4. controlSlots' = Cardinality(OpenFresh') * 2 + Cardinality(OpenSpent')
  BY <1>1, <1>2, <1>3
<1> QED
  BY <1>3, <1>4 DEF SlotsExact, OpenFresh, OpenSpent

-----------------------------------------------------------------------------
(* What is still to be recorded of each execution.                         *)

Unrecorded(x) == {s \in Status : ~InLedger(x, Event(s, None))}
OthersOf(x) == {n \in DOMAIN trail[x] : trail[x][n].kind = "other"}

(* Its reservation has room for every status and every other event.        *)
Covered(x) ==
  remaining[x] >= Cardinality(Unrecorded(x)) + (OtherEvents - Cardinality(OthersOf(x)))

(* What a host that is no more still owes the ledger: the event of a       *)
(* snapshot without one, and the end of an execution that ran.             *)
Due(x) ==
  (IF x \in Underived THEN 1 ELSE 0) + (IF snapshot[x] \in Live THEN 1 ELSE 0)

Owed == [x \in Executions |-> Due(x)]

OverIsLast ==
  \A x \in Executions : InLedger(x, Event("over", None)) => snapshot[x] = "over"

AwaitedIsKnown == \A x \in Executions : Awaits(todo, x) => snapshot[x] # "none"

CarriedIsLive ==
  \A g \in Grants : todo = Carry(g) => snapshot[target[g]] \in {"queued", "running"}

CountsFit ==
  \A x \in Executions :
    IsFiniteSet(OthersOf(x)) /\ Cardinality(OthersOf(x)) <= OtherEvents

RunsAreCovered ==
  ~Booting => \A x \in Executions : snapshot[x] \in Live \/ Awaits(todo, x) => Covered(x)

StatusesAreDerived ==
  ~Booting \/ Settling => \A x \in Underived : Awaits(todo, x)

RepairFits ==
  Booting =>
    /\ remaining = [x \in Executions |-> 0]
    /\ IsFiniteSet(Unclosed)
    /\ events + Cardinality(Unclosed) + SumFunction(Owed) <= MaxEvents

DebtInv ==
  /\ OverIsLast /\ AwaitedIsKnown /\ CarriedIsLive /\ CountsFit
  /\ RunsAreCovered /\ StatusesAreDerived /\ RepairFits

LEMMA StatusFinite == IsFiniteSet(Status) /\ Cardinality(Status) \in Nat
<1>1. Status = ((({} \cup {"queued"}) \cup {"running"}) \cup {"stopping"}) \cup {"over"}
  BY DEF Status, Live
<1> QED
  BY <1>1, FS_EmptySet, FS_AddElement, FS_CardinalityType

LEMMA UnrecordedFinite ==
  ASSUME NEW x
  PROVE  /\ IsFiniteSet(Unrecorded(x)) /\ Cardinality(Unrecorded(x)) \in Nat
         /\ Cardinality(Unrecorded(x)) <= Cardinality(Status)
<1>1. Unrecorded(x) \in SUBSET Status
  BY DEF Unrecorded
<1> QED
  BY <1>1, StatusFinite, FS_Subset, FS_CardinalityType

LEMMA OthersFinite ==
  ASSUME CountsFit, NEW x \in Executions
  PROVE  /\ IsFiniteSet(OthersOf(x)) /\ Cardinality(OthersOf(x)) \in Nat
         /\ OtherEvents \in Nat /\ OtherEvents - Cardinality(OthersOf(x)) \in Nat
<1>1. Cardinality(OthersOf(x)) \in Nat
  BY FS_CardinalityType DEF CountsFit
<1> QED
  BY <1>1, EnvelopeCovers DEF CountsFit

(* A status without an event needs one. *)
LEMMA CoveredOne ==
  ASSUME BudgetType, CountsFit, NEW x \in Executions, Covered(x), NEW s \in Unrecorded(x)
  PROVE  /\ remaining[x] >= 1
         /\ \A t \in Unrecorded(x) : t # s => remaining[x] >= 2
<1>1. /\ IsFiniteSet(Unrecorded(x)) /\ Cardinality(Unrecorded(x)) \in Nat
      /\ OtherEvents - Cardinality(OthersOf(x)) \in Nat
      /\ remaining[x] \in Nat
  BY UnrecordedFinite, OthersFinite DEF BudgetType
<1>2. /\ IsFiniteSet(Unrecorded(x) \ {s}) /\ Cardinality(Unrecorded(x) \ {s}) \in Nat
      /\ Cardinality(Unrecorded(x) \ {s}) = Cardinality(Unrecorded(x)) - 1
  BY <1>1, FS_RemoveElement, FS_CardinalityType
<1>3. ASSUME NEW t \in Unrecorded(x), t # s
      PROVE  Cardinality(Unrecorded(x) \ {s}) >= 1
  <2>1. t \in Unrecorded(x) \ {s}
    BY <1>3
  <2>2. Cardinality(Unrecorded(x) \ {s}) # 0
    BY <1>2, <2>1, FS_EmptySet
  <2>3. \A n \in Nat : n # 0 => n >= 1
    OBVIOUS
  <2> QED
    BY <1>2, <2>2, <2>3
<1>4. \A r, u, v, d \in Nat : r >= u + d /\ v = u - 1 => r >= 1 /\ (v >= 1 => r >= 2)
  OBVIOUS
<1>5. /\ remaining[x] >= 1
      /\ Cardinality(Unrecorded(x) \ {s}) >= 1 => remaining[x] >= 2
  BY <1>1, <1>2, <1>4 DEF Covered
<1> QED
  BY <1>3, <1>5

(* The facts of a step about an execution. *)
SameFacts(x) ==
  /\ Unrecorded(x)' = Unrecorded(x)
  /\ OthersOf(x)' = OthersOf(x)
  /\ \A s : InLedger(x, Event(s, None))' <=> InLedger(x, Event(s, None))

LEMMA FactsSame ==
  ASSUME trail' = trail, NEW x
  PROVE  SameFacts(x)
  BY DEF SameFacts, Unrecorded, OthersOf, InLedger, Event

(* How the events about an execution change with its trail. *)
LEMMA OthersGrow ==
  ASSUME Shape, NEW x \in Executions, NEW e \in AnyEvent, Grows(x, e)
  PROVE  /\ Len(trail[x]) + 1 \notin OthersOf(x)
         /\ OthersOf(x)' = IF e.kind = "other" THEN OthersOf(x) \cup {Len(trail[x]) + 1}
                           ELSE OthersOf(x)
         /\ \A y \in Executions : y # x => OthersOf(y)' = OthersOf(y)
<1>1. /\ trail' \in [Executions -> Seq(AnyEvent)]
      /\ trail'[x] = Append(trail[x], e)
      /\ \A z \in Executions : z # x => trail'[z] = trail[z]
  BY GrowthExtends
<1>2. trail[x] \in Seq(AnyEvent)
  BY DEF Shape
<1>3. /\ DOMAIN trail[x] = 1..Len(trail[x]) /\ Len(trail[x]) \in Nat
      /\ DOMAIN trail'[x] = 1..(Len(trail[x]) + 1)
      /\ trail'[x][Len(trail[x]) + 1] = e
      /\ \A n \in 1..Len(trail[x]) : trail'[x][n] = trail[x][n]
  BY <1>1, <1>2
<1>4. Len(trail[x]) + 1 \notin OthersOf(x)
  BY <1>3 DEF OthersOf
<1>5. OthersOf(x)' = {n \in 1..(Len(trail[x]) + 1) : trail'[x][n].kind = "other"}
  BY <1>3 DEF OthersOf
<1>6. OthersOf(x) = {n \in 1..Len(trail[x]) : trail[x][n].kind = "other"}
  BY <1>3 DEF OthersOf
<1>7. \A n : n \in 1..(Len(trail[x]) + 1) <=> n \in 1..Len(trail[x]) \/ n = Len(trail[x]) + 1
  BY <1>3
<1>8. OthersOf(x)' = IF e.kind = "other" THEN OthersOf(x) \cup {Len(trail[x]) + 1}
                     ELSE OthersOf(x)
  BY <1>3, <1>5, <1>6, <1>7
<1>9. \A y \in Executions : y # x => OthersOf(y)' = OthersOf(y)
  BY <1>1 DEF OthersOf
<1> QED
  BY <1>4, <1>8, <1>9

LEMMA FactsControl ==
  ASSUME Shape, NEW x \in Executions, NEW kind \in ControlKind, NEW g \in Grants,
         Grows(x, Event(kind, g))
  PROVE  \A y \in Executions : SameFacts(y)
<1>1. /\ Event(kind, g) \in AnyEvent /\ Event(kind, g).kind # "other"
      /\ \A s : Event(s, None) # Event(kind, g)
  BY ControlEvent, EventsDiffer, NoneIsFresh DEF ControlKind
<1>2. \A y \in Executions : \A s : InLedger(y, Event(s, None))' <=> InLedger(y, Event(s, None))
  <2>1. \A y \in Executions : \A d : InLedger(y, d)' <=> InLedger(y, d) \/ (y = x /\ d = Event(kind, g))
    BY <1>1, LedgerGrows
  <2>2. \A y \in Executions : \A d : InLedger(y, d)' <=> d \in Range(trail'[y])
    BY DEF InLedger
  <2>3. \A y, s : InLedger(y, Event(s, None))' <=> Event(s, None) \in Range(trail'[y])
    BY DEF InLedger, Event
  <2> QED
    BY <1>1, <2>1, <2>2, <2>3
<1>3. \A y \in Executions : OthersOf(y)' = OthersOf(y)
  BY <1>1, OthersGrow
<1>4. \A y \in Executions : Unrecorded(y)' = Unrecorded(y)
  BY <1>2 DEF Unrecorded, Status, Live
<1> QED
  BY <1>2, <1>3, <1>4 DEF SameFacts

LEMMA FactsStatus ==
  ASSUME Shape, NEW x \in Executions, NEW k \in Status \cup {"other"},
         Grows(x, Event(k, None))
  PROVE  /\ \A y \in Executions : y # x => SameFacts(y)
         /\ \A s : InLedger(x, Event(s, None))' <=> InLedger(x, Event(s, None)) \/ s = k
         /\ Unrecorded(x)' = Unrecorded(x) \ {k}
         /\ k # "other" => OthersOf(x)' = OthersOf(x)
         /\ k = "other" => OthersOf(x)' = OthersOf(x) \cup {Len(trail[x]) + 1}
<1>1. /\ Event(k, None) \in AnyEvent /\ Event(k, None).kind = k
      /\ \A s : Event(s, None) = Event(k, None) <=> s = k
  BY StatusEvent, EventsDiffer
<1>2. \A y \in Executions : \A s :
        InLedger(y, Event(s, None))' <=> InLedger(y, Event(s, None)) \/ (y = x /\ s = k)
  <2>1. \A y \in Executions : \A d : InLedger(y, d)' <=> InLedger(y, d) \/ (y = x /\ d = Event(k, None))
    BY <1>1, LedgerGrows
  <2>2. \A y \in Executions : \A d : InLedger(y, d)' <=> d \in Range(trail'[y])
    BY DEF InLedger
  <2>3. \A y, s : InLedger(y, Event(s, None))' <=> Event(s, None) \in Range(trail'[y])
    BY DEF InLedger, Event
  <2> QED
    BY <1>1, <2>1, <2>2, <2>3
<1>3. /\ \A y \in Executions : y # x => OthersOf(y)' = OthersOf(y)
      /\ k # "other" => OthersOf(x)' = OthersOf(x)
      /\ k = "other" => OthersOf(x)' = OthersOf(x) \cup {Len(trail[x]) + 1}
  BY <1>1, OthersGrow
<1>4. \A y \in Executions : y # x => Unrecorded(y)' = Unrecorded(y)
  BY <1>2 DEF Unrecorded, Status, Live
<1>5. Unrecorded(x)' = Unrecorded(x) \ {k}
  BY <1>2 DEF Unrecorded, Status, Live
<1> QED
  BY <1>2, <1>3, <1>4, <1>5 DEF SameFacts

-----------------------------------------------------------------------------
(* The steps of a host that serves.                                        *)

FullInv == ChainInv /\ BudgetInv /\ SlotsExact /\ DebtInv

LEMMA ServingKeeps ==
  ASSUME DebtInv, Shape, ~Booting, ~Booting',
         \A x \in Executions : SameFacts(x),
         snapshot' = snapshot, remaining' = remaining,
         \A x \in Executions : Awaits(todo', x) <=> Awaits(todo, x),
         \A g \in Grants : todo' = Carry(g) => snapshot[target'[g]] \in {"queued", "running"}
  PROVE  DebtInv'
<1>1. OverIsLast'
  BY DEF OverIsLast, DebtInv, SameFacts
<1>2. AwaitedIsKnown'
  BY DEF AwaitedIsKnown, DebtInv, Awaits, Do
<1>3. CarriedIsLive'
  BY DEF CarriedIsLive, Carry, Do
<1>4. CountsFit'
  BY DEF CountsFit, DebtInv, SameFacts
<1>5. RunsAreCovered'
  <2>1. \A x \in Executions : Covered(x)' <=> Covered(x)
    BY DEF Covered, SameFacts
  <2>2. \A x \in Executions : snapshot'[x] \in Live \/ Awaits(todo', x) => Covered(x)'
    BY <2>1 DEF DebtInv, RunsAreCovered
  <2> QED
    BY <2>2 DEF RunsAreCovered, Live, Awaits, Do
<1>6. StatusesAreDerived'
  <2>1. Underived' = Underived
    BY DEF Underived, SameFacts
  <2>2. \A x \in Underived' : Awaits(todo', x)
    BY <2>1 DEF DebtInv, StatusesAreDerived, Underived
  <2> QED
    BY <2>2 DEF StatusesAreDerived, Awaits, Do
<1>7. RepairFits'
  BY DEF RepairFits
<1> QED
  BY <1>1, <1>2, <1>3, <1>4, <1>5, <1>6, <1>7 DEF DebtInv

(* A snapshot is published and its event comes next. *)
LEMMA PublishKeeps ==
  ASSUME DebtInv, Shape, ~Booting, ~Booting', trail' = trail,
         NEW x \in Executions, NEW status \in Status,
         snapshot' = [snapshot EXCEPT ![x] = status], snapshot[x] # "over",
         \A y \in Executions : ~Awaits(todo, y),
         \A y \in Executions : Awaits(todo', y) <=> y = x,
         \A g \in Grants : todo' # Carry(g),
         Covered(x)', \A y \in Executions : y # x => remaining'[y] = remaining[y]
  PROVE  DebtInv'
<1>1. \A y \in Executions : SameFacts(y)
  BY FactsSame
<1>2. /\ snapshot'[x] = status /\ status # "none"
      /\ \A y \in Executions : y # x => snapshot'[y] = snapshot[y]
  BY DEF Shape, Status, Live
<1>3. OverIsLast'
  BY <1>1, <1>2 DEF OverIsLast, DebtInv, SameFacts
<1>4. AwaitedIsKnown'
  BY <1>2 DEF AwaitedIsKnown, Awaits, Do
<1>5. CarriedIsLive'
  BY DEF CarriedIsLive, Carry, Do
<1>6. CountsFit'
  BY <1>1 DEF CountsFit, DebtInv, SameFacts
<1>7. RunsAreCovered'
  <2>1. \A y \in Executions : y # x => (Covered(y)' <=> Covered(y))
    BY <1>1 DEF Covered, SameFacts
  <2>2. \A y \in Executions : snapshot'[y] \in Live \/ Awaits(todo', y) => Covered(y)'
    BY <1>2, <2>1 DEF DebtInv, RunsAreCovered
  <2> QED
    BY <2>2 DEF RunsAreCovered, Live, Awaits, Do
<1>8. StatusesAreDerived'
  <2>1. Underived = {}
    BY DEF DebtInv, StatusesAreDerived, Underived
  <2>2. \A y \in Underived' : y = x
    BY <1>1, <1>2, <2>1 DEF Underived, SameFacts
  <2>3. \A y \in Underived' : Awaits(todo', y)
    BY <2>2
  <2> QED
    BY <2>3 DEF StatusesAreDerived, Awaits, Do
<1>9. RepairFits'
  BY DEF RepairFits
<1> QED
  BY <1>3, <1>4, <1>5, <1>6, <1>7, <1>8, <1>9 DEF DebtInv

LEMMA IdleAwaits ==
  ASSUME Idle
  PROVE  todo = <<>> /\ \A x : ~Awaits(todo, x)
  BY NoWork DEF Idle

(* No work but a cancellation is one. *)
LEMMA NotCarry ==
  ASSUME NEW work, NEW g,
         work = <<>> \/ (work # <<>> /\ Head(work).op # "cancel")
  PROVE  work # Carry(g)
<1>1. Carry(g) # <<>> /\ Head(Carry(g)).op = "cancel"
  BY WorkParts, FirstOps
<1> QED
  BY <1>1

LEMMA StartFits ==
  ASSUME FullInv, NEW x \in Executions, Start(x), ControlInv'
  PROVE  FullInv'
<1>1. /\ Idle /\ snapshot[x] = "none" /\ Room(Envelope)
      /\ remaining' = [remaining EXCEPT ![x] = Envelope]
      /\ Persist(x, "queued", <<>>)
      /\ UNCHANGED <<events, controlSlots, trail, grantVars, cancelled, host>>
  BY DEF Start
<1>2. "queued" \in Status
  BY DEF Status, Live
<1>3. ChainInv'
  BY <1>1, <1>2, PublishChains DEF FullInv, grantVars
<1>4. ChainInv /\ DebtInv /\ BudgetInv /\ SlotsExact /\ Shape /\ BudgetType
  BY DEF FullInv, ChainInv, ControlInv, BudgetInv
<1>5. /\ todo' = Publish(x) /\ snapshot' = [snapshot EXCEPT ![x] = "queued"]
      /\ open' = open /\ target' = target /\ host' = host
  BY <1>1, WorkAlso DEF Persist, grantVars
<1>6. ~Booting /\ ~Booting'
  <2>1. Booting' <=> Boots(host', todo')
    BY DEF Booting, Boots, EndOf
  <2> QED
    BY <1>1, <1>4, <1>5, <2>1, IdlePhase, PublishWork
<1>7. BudgetInv'
  <2>1. /\ events \in Nat /\ Reserved \in Nat /\ remaining[x] \in Nat /\ Envelope \in Nat
        /\ events' = events /\ controlSlots' \in Nat
    BY <1>1, <1>4, ReservedType, EnvelopeCovers
  <2>2. Reserved' = Reserved - remaining[x] + Envelope /\ remaining' \in [Executions -> Nat]
    BY <1>1, <1>4, <2>1, ReservationChanges
  <2>3. events' + Reserved' <= MaxEvents
    BY <1>1, <2>1, <2>2, MaxEventsType DEF Room
  <2> QED
    BY <2>1, <2>2, <2>3, BudgetFits
<1>8. SlotsExact'
  <2>1. open \subseteq Grants
    BY <1>4 DEF Shape
  <2>2. \A g \in Grants : Consumed(g)' <=> Consumed(g)
    BY <1>1, <1>5, MarksSame DEF SameMarks
  <2> QED
    BY <1>1, <1>4, <1>5, <2>1, <2>2, SlotsSame
<1>9. Covered(x)'
  <2>1. /\ Cardinality(Unrecorded(x)) \in Nat
        /\ Cardinality(Unrecorded(x)) <= Cardinality(Status)
        /\ Cardinality(OthersOf(x)) \in Nat
        /\ Cardinality(Status) \in Nat
    BY <1>4, UnrecordedFinite, OthersFinite, StatusFinite DEF DebtInv
  <2>2. remaining'[x] = Envelope
    BY <1>1, <1>4, ReservedType
  <2>3. Envelope >= Cardinality(Unrecorded(x)) + (OtherEvents - Cardinality(OthersOf(x)))
    BY <2>1, EnvelopeCovers
  <2> QED
    BY <1>1, <2>2, <2>3, FactsSame DEF Covered, SameFacts
<1>10. DebtInv'
  <2>1. \A y \in Executions : ~Awaits(todo, y)
    BY <1>1, IdleAwaits
  <2>2. \A y \in Executions : Awaits(todo', y) <=> y = x
    BY <1>5, PublishWork
  <2>3. \A g \in Grants : todo' # Carry(g)
    <3>1. todo' # <<>> /\ Head(todo').op # "cancel"
      BY <1>5, WorkParts, FirstOps
    <3> QED
      BY <3>1, NotCarry
  <2>4. \A y \in Executions : y # x => remaining'[y] = remaining[y]
    BY <1>1, <1>4, ReservedType
  <2> QED
    BY <1>1, <1>2, <1>4, <1>5, <1>6, <1>9, <2>1, <2>2, <2>3, <2>4, PublishKeeps
<1> QED
  BY <1>3, <1>7, <1>8, <1>10 DEF FullInv

LEMMA AdvanceFits ==
  ASSUME FullInv, NEW x \in Executions, NEW next \in Status, Advance(x, next), ControlInv'
  PROVE  FullInv'
<1>1. /\ Idle /\ snapshot[x] \in Live
      /\ Persist(x, next, <<>>)
      /\ UNCHANGED <<budgetVars, trail, grantVars, cancelled, host>>
  BY DEF Advance, Precedes, Live
<1>2. ChainInv'
  BY <1>1, PublishChains DEF FullInv, grantVars
<1>3. ChainInv /\ DebtInv /\ BudgetInv /\ SlotsExact /\ Shape /\ BudgetType
  BY DEF FullInv, ChainInv, ControlInv, BudgetInv
<1>4. /\ todo' = Publish(x) /\ snapshot' = [snapshot EXCEPT ![x] = next]
      /\ open' = open /\ target' = target /\ host' = host
      /\ remaining' = remaining /\ controlSlots' = controlSlots
  BY <1>1, WorkAlso DEF Persist, grantVars, budgetVars
<1>5. ~Booting /\ ~Booting'
  <2>1. Booting' <=> Boots(host', todo')
    BY DEF Booting, Boots, EndOf
  <2> QED
    BY <1>1, <1>3, <1>4, <2>1, IdlePhase, PublishWork
<1>6. BudgetInv'
  BY <1>1, <1>3, SameBudget
<1>7. SlotsExact'
  <2>1. open \subseteq Grants
    BY <1>3 DEF Shape
  <2>2. \A g \in Grants : Consumed(g)' <=> Consumed(g)
    BY <1>1, <1>4, MarksSame DEF SameMarks
  <2> QED
    BY <1>3, <1>4, <2>1, <2>2, SlotsSame
<1>8. Covered(x)'
  <2>1. Covered(x)
    BY <1>1, <1>3, <1>5 DEF DebtInv, RunsAreCovered
  <2> QED
    BY <1>1, <1>4, <2>1, FactsSame DEF Covered, SameFacts
<1>9. DebtInv'
  <2>1. \A y \in Executions : ~Awaits(todo, y)
    BY <1>1, IdleAwaits
  <2>2. \A y \in Executions : Awaits(todo', y) <=> y = x
    BY <1>4, PublishWork
  <2>3. \A g \in Grants : todo' # Carry(g)
    <3>1. todo' # <<>> /\ Head(todo').op # "cancel"
      BY <1>4, WorkParts, FirstOps
    <3> QED
      BY <3>1, NotCarry
  <2>4. snapshot[x] # "over"
    BY <1>1 DEF Live
  <2> QED
    BY <1>1, <1>3, <1>4, <1>5, <1>8, <2>1, <2>2, <2>3, <2>4, PublishKeeps
<1> QED
  BY <1>2, <1>6, <1>7, <1>9 DEF FullInv

(* An attempt, child or evidence event: a run that lives has room for it. *)
LEMMA RecordOtherOfFits ==
  ASSUME FullInv, NEW x \in Executions, RecordOtherOf(x), ControlInv'
  PROVE  FullInv'
<1>1. /\ Idle /\ RecordOfExecution(x) /\ Trails(x, Event("other", None))
      /\ Cardinality(OthersOf(x)) < OtherEvents
      /\ UNCHANGED <<snapshot, grantVars, cancelled, host, todo>>
  BY DEF RecordOtherOf, OthersOf
<1>2. ChainInv /\ DebtInv /\ BudgetInv /\ SlotsExact /\ Shape /\ BudgetType
  BY DEF FullInv, ChainInv, ControlInv, BudgetInv
<1>3. /\ open' = open /\ target' = target /\ host' = host /\ todo' = todo
      /\ snapshot' = snapshot
  BY <1>1 DEF grantVars
<1>4. trail' = trail \/ Grows(x, Event("other", None))
  BY <1>1 DEF Trails, Grows
<1>5. NoMark
  BY <1>3, <1>4 DEF NoMark
<1>6. ChainInv'
  BY <1>2, <1>3, <1>5, UnchangedChains
<1>7. BudgetInv' /\ controlSlots' = controlSlots
  BY <1>1, <1>2, RecordOfExecutionFits
<1>8. SlotsExact'
  <2>1. open \subseteq Grants /\ Shape' /\ Ordered /\ Begins
    BY <1>2 DEF Shape, ControlInv, ChainInv
  <2>2. \A g \in Grants : SameMarks(g)
    BY <1>2, <1>5, <2>1, NoMarkKeeps
  <2>3. \A g \in Grants : Consumed(g)' <=> Consumed(g)
    BY <2>2 DEF SameMarks
  <2> QED
    BY <1>2, <1>3, <1>7, <2>1, <2>3, SlotsSame
<1>9. ~Booting /\ ~Booting' /\ \A y : ~Awaits(todo, y)
  <2>1. ~Booting
    BY <1>1, <1>2, IdlePhase
  <2>2. Booting' <=> Booting
    BY <1>3 DEF Booting, Boots, EndOf
  <2> QED
    BY <1>1, <2>1, <2>2, IdleAwaits
<1>10. CASE trail' = trail
  <2>1. ~(events' > events) \/ Append(trail[x], Event("other", None)) = trail[x]
    <3>1. \/ ~(events' > events)
          \/ trail' = [trail EXCEPT ![x] = Append(trail[x], Event("other", None))]
      BY <1>1 DEF Trails
    <3>2. trail \in [Executions -> Seq(AnyEvent)]
      BY <1>2 DEF Shape
    <3> QED
      BY <1>10, <3>1, <3>2
  <2>2. Append(trail[x], Event("other", None)) # trail[x]
    <3>1. trail[x] \in Seq(AnyEvent) /\ Event("other", None) \in AnyEvent
      BY <1>2, StatusEvent DEF Shape
    <3>2. Len(Append(trail[x], Event("other", None))) # Len(trail[x])
      BY <3>1
    <3> QED
      BY <3>2
  <2>3. ~(remaining[x] > 0) /\ remaining' = remaining
    <3>1. events \in Nat
      BY <1>2, ReservedType
    <3> QED
      BY <1>1, <1>2, <2>1, <2>2, <3>1, RecordOfExecutionFits
  <2>4. \A y \in Executions : SameFacts(y)
    BY <1>10, FactsSame
  <2>5. DebtInv'
    <3>1. \A g \in Grants : todo' = Carry(g) => snapshot[target'[g]] \in {"queued", "running"}
      BY <1>2, <1>3 DEF DebtInv, CarriedIsLive
    <3> QED
      BY <1>2, <1>3, <1>9, <2>3, <2>4, <3>1, ServingKeeps
  <2> QED
    BY <1>6, <1>7, <1>8, <2>5 DEF FullInv
<1>11. CASE Grows(x, Event("other", None))
  <2> DEFINE k == Len(trail[x]) + 1
  <2>1. /\ \A y \in Executions : y # x => SameFacts(y)
        /\ \A s : InLedger(x, Event(s, None))' <=> InLedger(x, Event(s, None)) \/ s = "other"
        /\ Unrecorded(x)' = Unrecorded(x) \ {"other"}
        /\ OthersOf(x)' = OthersOf(x) \cup {k}
    BY <1>2, <1>11, FactsStatus
  <2>2. k \notin OthersOf(x)
    BY <1>2, <1>11, OthersGrow, StatusEvent
  <2>3. /\ IsFiniteSet(OthersOf(x)) /\ Cardinality(OthersOf(x)) \in Nat
        /\ OtherEvents \in Nat
    BY <1>2, OthersFinite DEF DebtInv
  <2> HIDE DEF k
  <2>4. /\ IsFiniteSet(OthersOf(x) \cup {k})
        /\ Cardinality(OthersOf(x) \cup {k}) = Cardinality(OthersOf(x)) + 1
    BY <2>2, <2>3, FS_AddElement
  <2>5. Unrecorded(x)' = Unrecorded(x)
    <3>1. "other" \notin Unrecorded(x)
      BY DEF Unrecorded, Status, Live
    <3> QED
      BY <2>1, <3>1
  <2>6. \A y \in Executions : \A s \in Status :
          InLedger(y, Event(s, None))' <=> InLedger(y, Event(s, None))
    BY <2>1 DEF SameFacts, Status, Live
  <2>7. CountsFit'
    <3>1. Cardinality(OthersOf(x)) + 1 <= OtherEvents
      BY <1>1, <2>3
    <3>2. \A y \in Executions :
            IsFiniteSet(OthersOf(y)') /\ Cardinality(OthersOf(y)') <= OtherEvents
      BY <1>2, <2>1, <2>4, <3>1 DEF CountsFit, DebtInv, SameFacts
    <3> QED
      BY <3>2 DEF CountsFit
  <2>8. RunsAreCovered'
    <3>1. ASSUME NEW y \in Executions, y # x, snapshot[y] \in Live
          PROVE  Covered(y)'
      <4>1. remaining'[y] = remaining[y]
        <5>1. remaining \in [Executions -> Nat]
          BY <1>2, ReservedType
        <5> QED
          BY <1>1, <1>2, <3>1, <5>1, RecordOfExecutionFits
      <4>2. Covered(y)
        BY <1>2, <1>9, <3>1 DEF DebtInv, RunsAreCovered
      <4> QED
        BY <2>1, <3>1, <4>1, <4>2 DEF Covered, SameFacts
    <3>2. ASSUME snapshot[x] \in Live
          PROVE  Covered(x)'
      <4>1. Covered(x) /\ Cardinality(Unrecorded(x)) \in Nat /\ remaining \in [Executions -> Nat]
        BY <1>2, <1>9, <3>2, UnrecordedFinite, ReservedType DEF DebtInv, RunsAreCovered
      <4>2. \A r, u, o, c \in Nat : r >= u + (o - c) /\ c < o => r > 0 /\ r - 1 >= u + (o - (c + 1))
        OBVIOUS
      <4>3. /\ remaining[x] > 0
            /\ remaining[x] - 1 >=
                 Cardinality(Unrecorded(x)) + (OtherEvents - (Cardinality(OthersOf(x)) + 1))
        BY <1>1, <2>3, <4>1, <4>2 DEF Covered
      <4>4. remaining'[x] = remaining[x] - 1
        BY <1>1, <1>2, <4>1, <4>3, RecordOfExecutionFits
      <4> QED
        BY <2>1, <2>4, <2>5, <4>3, <4>4 DEF Covered
    <3>3. \A y \in Executions : snapshot'[y] \in Live \/ Awaits(todo', y) => Covered(y)'
      BY <1>3, <1>9, <3>1, <3>2
    <3> QED
      BY <3>3 DEF RunsAreCovered, Live, Awaits, Do
  <2>9. StatusesAreDerived'
    <3>1. \A y \in Executions : snapshot[y] = "none" \/ InLedger(y, Event(snapshot[y], None))
      BY <1>2, <1>9 DEF DebtInv, StatusesAreDerived, Underived
    <3>2. \A y \in Executions : snapshot[y] = "none" \/ snapshot[y] \in Status
      BY <1>2 DEF Shape
    <3>3. \A y \in Executions :
            snapshot[y] = "none" \/ Event(snapshot[y], None) \in Range(trail'[y])
      <4>1. \A y \in Executions : \A s \in Status :
              InLedger(y, Event(s, None)) => Event(s, None) \in Range(trail'[y])
        BY <2>6 DEF InLedger, Event
      <4> QED
        BY <3>1, <3>2, <4>1
    <3>4. \A y \in Executions :
            ~(snapshot'[y] # "none" /\ Event(snapshot'[y], None) \notin Range(trail'[y]))
      BY <1>3, <3>3
    <3>5. Underived' = {}
      BY <3>4 DEF Underived, InLedger, Event
    <3> QED
      BY <3>5 DEF StatusesAreDerived
  <2>10. OverIsLast'
    BY <1>2, <1>3, <2>6 DEF OverIsLast, DebtInv, Status
  <2>11. AwaitedIsKnown' /\ CarriedIsLive'
    BY <1>2, <1>3 DEF AwaitedIsKnown, CarriedIsLive, DebtInv, Awaits, Carry, Do
  <2>12. RepairFits'
    BY <1>9 DEF RepairFits
  <2> QED
    BY <1>6, <1>7, <1>8, <2>7, <2>8, <2>9, <2>10, <2>11, <2>12 DEF FullInv, DebtInv
<1> QED
  BY <1>4, <1>10, <1>11

(* A step of a host that serves and does nothing to chains or snapshots. *)
LEMMA PlainFits ==
  ASSUME FullInv, ControlInv', Idle, BudgetInv',
         UNCHANGED <<controlSlots, trail, snapshot, open, target, host, todo>>,
         \A x \in Executions :
           remaining'[x] = remaining[x] \/ snapshot[x] \notin Live
  PROVE  FullInv'
<1>1. ChainInv /\ DebtInv /\ SlotsExact /\ Shape
  BY DEF FullInv, ChainInv, ControlInv
<1>2. ChainInv'
  BY <1>1, UnchangedChains DEF NoMark
<1>3. SlotsExact'
  <2>1. open \subseteq Grants
    BY <1>1 DEF Shape
  <2>2. \A g \in Grants : Consumed(g)' <=> Consumed(g)
    BY MarksSame DEF SameMarks
  <2> QED
    BY <1>1, <2>1, <2>2, SlotsSame
<1>4. ~Booting /\ ~Booting' /\ \A x : ~Awaits(todo, x)
  <2>1. ~Booting
    BY <1>1, IdlePhase
  <2>2. Booting' <=> Booting
    BY DEF Booting, Boots, EndOf
  <2> QED
    BY <2>1, <2>2, IdleAwaits
<1>5. \A x \in Executions : SameFacts(x)
  BY FactsSame
<1>6. OverIsLast' /\ CountsFit'
  BY <1>1, <1>5 DEF OverIsLast, CountsFit, DebtInv, SameFacts
<1>7. AwaitedIsKnown' /\ CarriedIsLive'
  BY <1>1 DEF AwaitedIsKnown, CarriedIsLive, DebtInv, Awaits, Carry, Do
<1>8. RunsAreCovered'
  <2>1. \A x \in Executions : snapshot'[x] \in Live \/ Awaits(todo', x) => Covered(x)'
    BY <1>1, <1>4, <1>5 DEF DebtInv, RunsAreCovered, Covered, SameFacts
  <2> QED
    BY <2>1 DEF RunsAreCovered, Live, Awaits, Do
<1>9. StatusesAreDerived'
  <2>1. Underived' = Underived
    BY <1>5 DEF Underived, SameFacts
  <2>2. Underived = {}
    BY <1>1, <1>4 DEF DebtInv, StatusesAreDerived, Underived
  <2> QED
    BY <2>1, <2>2 DEF StatusesAreDerived
<1>10. RepairFits'
  BY <1>4 DEF RepairFits
<1> QED
  BY <1>2, <1>3, <1>6, <1>7, <1>8, <1>9, <1>10 DEF FullInv, DebtInv

LEMMA ReleaseFits ==
  ASSUME FullInv, NEW x \in Executions, Release(x), ControlInv'
  PROVE  FullInv'
<1>1. /\ Idle /\ snapshot[x] = "over" /\ remaining' = [remaining EXCEPT ![x] = 0]
      /\ UNCHANGED <<events, controlSlots, trail, snapshot, grantVars, cancelled, host, todo>>
  BY DEF Release
<1>2. BudgetType /\ BudgetInv
  BY DEF FullInv, BudgetInv
<1>3. /\ events \in Nat /\ Reserved \in Nat /\ remaining[x] \in Nat /\ controlSlots \in Nat
      /\ remaining \in [Executions -> Nat] /\ events + Reserved <= MaxEvents
  BY <1>2, ReservedType DEF BudgetInv, PromisesFit
<1>4. Reserved' = Reserved - remaining[x] + 0 /\ remaining' \in [Executions -> Nat]
  BY <1>1, <1>2, ReservationChanges
<1>5. BudgetInv'
  <2>1. events' + Reserved' <= MaxEvents
    BY <1>1, <1>3, <1>4, MaxEventsType
  <2> QED
    BY <1>1, <1>3, <1>4, <2>1, BudgetFits
<1>6. \A y \in Executions : remaining'[y] = remaining[y] \/ snapshot[y] \notin Live
  BY <1>1, <1>3 DEF Live
<1> QED
  BY <1>1, <1>5, <1>6, PlainFits DEF grantVars

LEMMA OthersRecordFits ==
  ASSUME FullInv, OthersRecord, ControlInv'
  PROVE  FullInv'
<1>1. /\ Idle /\ Room(1) /\ events' = events + 1
      /\ UNCHANGED <<remaining, controlSlots, trail, snapshot, grantVars, cancelled, host, todo>>
  BY DEF OthersRecord, RecordOther
<1>2. BudgetType
  BY DEF FullInv, BudgetInv
<1>3. /\ events \in Nat /\ Reserved \in Nat /\ controlSlots \in Nat
      /\ remaining \in [Executions -> Nat] /\ Reserved' = Reserved
  BY <1>1, <1>2, ReservedType DEF Reserved
<1>4. BudgetInv'
  <2>1. events' + Reserved' <= MaxEvents /\ events' \in Nat
    BY <1>1, <1>3, MaxEventsType DEF Room
  <2> QED
    BY <1>1, <1>3, <2>1, BudgetFits
<1> QED
  BY <1>1, <1>4, PlainFits DEF grantVars

LEMMA ExpireFits ==
  ASSUME FullInv, NEW g \in Grants, Expire(g), ControlInv'
  PROVE  FullInv'
<1>1. /\ Idle
      /\ UNCHANGED <<budgetVars, trail, snapshot, open, target, basis, cancelled, host, todo>>
  BY DEF Expire
<1>2. BudgetInv'
  BY <1>1, SameBudget DEF FullInv
<1> QED
  BY <1>1, <1>2, PlainFits DEF budgetVars

(* The steps of the controls. *)
LEMMA SamePhase ==
  ASSUME UNCHANGED <<todo, host>>
  PROVE  Booting' <=> Booting
  BY DEF Booting, Boots, EndOf

LEMMA CarryOne ==
  ASSUME NEW g, NEW h, Carry(g) = Carry(h)
  PROVE  g = h
  BY GrantWorkParts

LEMMA OpenHasTarget ==
  ASSUME ChainInv, NEW g \in open
  PROVE  /\ g \in Grants /\ target[g] \in Executions /\ Requested(g) /\ ~Closed(g)
         /\ Consumed(g) <=> Finishes(todo, g)
<1>1. g \in Grants /\ target[g] \in Executions
  BY DEF ChainInv, ControlInv, Shape, RequestAtBasis
<1>2. Requested(g)
  BY <1>1, NoneIsFresh DEF Requested
<1> QED
  BY <1>1, <1>2 DEF ChainInv, OpenChains

LEMMA CloseFits ==
  ASSUME FullInv, ControlInv', NEW g \in open, Close(g), todo' = todo, ~Booting,
         ~Finishes(todo, g), \A h \in Grants : todo # Carry(h)
  PROVE  FullInv'
<1>1. ChainInv /\ DebtInv /\ BudgetInv /\ SlotsExact /\ Shape
  BY DEF FullInv, ChainInv, ControlInv
<1>2. /\ ChainInv'
      /\ \A h \in Grants : Consumed(h)' <=> Consumed(h)
  BY <1>1, CloseChains
<1>3. /\ g \in Grants /\ target[g] \in Executions /\ ~Consumed(g)
      /\ RecordControl(g, "closed", 2) /\ open' = open \ {g}
      /\ UNCHANGED <<snapshot, target, host>>
  BY <1>1, OpenHasTarget DEF Close, Forget
<1>4. open \subseteq Grants
  BY <1>1 DEF Shape
<1>5. controlSlots >= 2 /\ (controlSlots' = controlSlots - 2 => SlotsExact')
  BY <1>1, <1>2, <1>3, <1>4, SlotsClose
<1>6. BudgetInv' /\ remaining' = remaining /\ controlSlots' = controlSlots - 2
  BY <1>1, <1>3, <1>5, RecordControlFits
<1>7. \A x \in Executions : SameFacts(x)
  <2>1. Grows(target[g], Event("closed", g)) /\ "closed" \in ControlKind
    BY <1>3 DEF RecordControl, Grows, ControlKind
  <2> QED
    BY <1>1, <1>3, <2>1, FactsControl
<1>8. DebtInv'
  <2>1. ~Booting'
    BY <1>3, SamePhase
  <2> QED
    BY <1>1, <1>3, <1>6, <1>7, <2>1, ServingKeeps
<1> QED
  BY <1>2, <1>5, <1>6, <1>8 DEF FullInv

LEMMA IdleCloseFits ==
  ASSUME FullInv, ControlInv', NEW g \in open, Close(g), todo' = todo, Idle
  PROVE  FullInv'
<1>1. ~Booting /\ ~Finishes(todo, g)
  BY IdlePhase DEF FullInv
<1>2. \A h \in Grants : todo # Carry(h)
  BY NotCarry DEF Idle
<1> QED
  BY <1>1, <1>2, CloseFits

LEMMA ExecuteFits ==
  ASSUME FullInv, ControlInv', NEW g \in Grants, Execute(g)
  PROVE  FullInv'
<1>1. ChainInv /\ DebtInv /\ BudgetInv /\ SlotsExact /\ Shape
  BY DEF FullInv, ChainInv, ControlInv
<1>2. /\ ChainInv'
      /\ \A h \in Grants : Consumed(h)' <=> Consumed(h) \/ h = g
  BY <1>1, ExecuteChains
<1>3. /\ Idle /\ g \in open /\ snapshot[target[g]] \in {"queued", "running"}
      /\ RecordControl(g, "consumed", 1) /\ todo' = Carry(g)
      /\ UNCHANGED <<snapshot, open, target, host>>
  BY DEF Execute, Carry, grantVars
<1>4. ~Booting /\ (\A x : ~Awaits(todo, x)) /\ ~Finishes(todo, g) /\ host # "down"
  BY <1>1, <1>3, IdlePhase, IdleAwaits
<1>5. open \subseteq Grants /\ target[g] \in Executions /\ ~Consumed(g)
  BY <1>1, <1>3, <1>4, OpenHasTarget DEF Shape
<1>6. controlSlots >= 1 /\ (controlSlots' = controlSlots - 1 => SlotsExact')
  BY <1>1, <1>2, <1>3, <1>5, SlotsConsume
<1>7. BudgetInv' /\ remaining' = remaining /\ controlSlots' = controlSlots - 1
  BY <1>1, <1>3, <1>6, RecordControlFits
<1>8. \A x \in Executions : SameFacts(x)
  <2>1. Grows(target[g], Event("consumed", g)) /\ "consumed" \in ControlKind
    BY <1>3 DEF RecordControl, Grows, ControlKind
  <2> QED
    BY <1>1, <1>5, <2>1, FactsControl
<1>9. DebtInv'
  <2>1. Booting' <=> Boots(host', todo')
    BY DEF Booting, Boots, EndOf
  <2>2. ~Booting' /\ \A x : ~Awaits(todo', x)
    BY <1>3, <1>4, <2>1, GrantWorkParts, GrantWorkAwaits
  <2>3. \A h \in Grants : todo' = Carry(h) => snapshot[target'[h]] \in {"queued", "running"}
    BY <1>3, CarryOne
  <2> QED
    BY <1>1, <1>3, <1>4, <1>7, <1>8, <2>2, <2>3, ServingKeeps
<1> QED
  BY <1>2, <1>6, <1>7, <1>9 DEF FullInv

LEMMA IssueFits ==
  ASSUME FullInv, ControlInv', NEW g \in Grants, NEW x \in Executions, Issue(g, x)
  PROVE  FullInv'
<1>1. ChainInv /\ DebtInv /\ BudgetInv /\ SlotsExact /\ Shape
  BY DEF FullInv, ChainInv, ControlInv
<1>2. /\ ChainInv'
      /\ \A h \in Grants : Consumed(h)' <=> Consumed(h)
  BY <1>1, IssueChains
<1>3. /\ Idle /\ target[g] = None /\ open' = open \cup {g}
      /\ Grows(x, Event("requested", g))
      /\ UNCHANGED <<snapshot, todo, host>>
  BY DEF Issue, Grant, Grows
<1>4. BudgetInv' /\ controlSlots' = controlSlots + 2 /\ remaining' = remaining
  BY <1>1, IssueBudget
<1>5. SlotsExact'
  <2>1. ~Requested(g) /\ ~Consumed(g)
    BY <1>3 DEF Requested, Consumed
  <2>2. g \notin open
    BY <1>1, <2>1, OpenHasTarget
  <2>3. open \subseteq Grants
    BY <1>1 DEF Shape
  <2> QED
    BY <1>1, <1>2, <1>3, <1>4, <2>1, <2>2, <2>3, SlotsIssue
<1>6. \A y \in Executions : SameFacts(y)
  <2>1. "requested" \in ControlKind
    BY DEF ControlKind
  <2> QED
    BY <1>1, <1>3, <2>1, FactsControl
<1>7. DebtInv'
  <2>1. ~Booting /\ ~Booting'
    BY <1>1, <1>3, IdlePhase, SamePhase
  <2>2. \A h \in Grants : todo' # Carry(h)
    BY <1>3, NotCarry DEF Idle
  <2> QED
    BY <1>1, <1>3, <1>4, <1>6, <2>1, <2>2, ServingKeeps
<1> QED
  BY <1>2, <1>4, <1>5, <1>7 DEF FullInv

LEMMA CancelRunFits ==
  ASSUME FullInv, ControlInv', CancelRun
  PROVE  FullInv'
<1>1. ChainInv /\ DebtInv /\ BudgetInv /\ SlotsExact /\ Shape /\ WorkShape
  BY DEF FullInv, ChainInv, ControlInv
<1>2. ChainInv'
  BY <1>1, CancelRunChains
<1>3. PICK g \in open : todo = Carry(g)
  BY <1>1, CancelWorkIs DEF CancelRun
<1>4. /\ todo # <<>> /\ Head(todo) = Do("cancel", g) /\ Tail(todo) = Answer(g)
      /\ Head(todo).of = g
  <2>1. /\ Carry(g) # <<>> /\ Head(Carry(g)) = Do("cancel", g)
        /\ Tail(Carry(g)) = Answer(g)
    BY WorkParts, Zenon
  <2> QED
    BY <1>3, <2>1, DoParts
<1>5. /\ UNCHANGED <<budgetVars, trail, grantVars, host>>
      /\ \/ Persist(target[g], "stopping", Answer(g))
         \/ todo' = Answer(g) /\ snapshot' = snapshot
  BY <1>4 DEF CancelRun
<1>6. /\ g \in Grants /\ target[g] \in Executions
      /\ snapshot[target[g]] \in {"queued", "running"}
  BY <1>1, <1>3, OpenHasTarget DEF DebtInv, CarriedIsLive
<1>7. BudgetInv' /\ remaining' = remaining /\ controlSlots' = controlSlots
  BY <1>1, <1>5, SameBudget DEF budgetVars
<1>8. UNCHANGED <<trail, open, target, host>>
  BY <1>5 DEF grantVars
<1>9. SlotsExact'
  <2>1. open \subseteq Grants
    BY <1>1 DEF Shape
  <2>2. \A h \in Grants : Consumed(h)' <=> Consumed(h)
    BY <1>8, MarksSame DEF SameMarks
  <2> QED
    BY <1>1, <1>7, <1>8, <2>1, <2>2, SlotsSame
<1>10. host # "down" /\ ~Booting /\ \A x : ~Awaits(todo, x)
  <2>1. host # "down"
    BY <1>1, <1>4 DEF ChainInv, DownIsIdle
  <2>2. Booting <=> host = "down"
    BY <1>3, GrantWorkParts DEF Booting
  <2> QED
    BY <1>3, <2>1, <2>2, GrantWorkAwaits
<1>11. Booting' <=> Boots(host', todo')
  BY DEF Booting, Boots, EndOf
<1>12. CASE Persist(target[g], "stopping", Answer(g))
  <2>1. /\ snapshot' = [snapshot EXCEPT ![target[g]] = "stopping"]
        /\ todo' = Stopped(target[g], g)
    BY <1>12, WorkAlso DEF Persist
  <2>2. ~Booting' /\ \A y : Awaits(todo', y) <=> y = target[g]
    BY <1>8, <1>10, <1>11, <2>1, GrantWorkParts, GrantWorkAwaits
  <2>3. \A h \in Grants : todo' # Carry(h)
    <3>1. todo' # <<>> /\ Head(todo').op # "cancel"
      BY <2>1, WorkParts, FirstOps
    <3> QED
      BY <3>1, NotCarry
  <2>4. Covered(target[g])'
    <3>1. Covered(target[g])
      BY <1>1, <1>6, <1>10 DEF DebtInv, RunsAreCovered, Live
    <3>2. SameFacts(target[g])
      BY <1>8, FactsSame
    <3> QED
      BY <1>7, <1>8, <3>1, <3>2 DEF Covered, SameFacts
  <2>5. "stopping" \in Status /\ snapshot[target[g]] # "over"
    BY <1>6 DEF Status, Live
  <2>6. DebtInv'
    BY <1>1, <1>6, <1>7, <1>8, <1>10, <2>1, <2>2, <2>3, <2>4, <2>5, PublishKeeps
  <2> QED
    BY <1>2, <1>7, <1>9, <2>6 DEF FullInv
<1>13. CASE todo' = Answer(g) /\ snapshot' = snapshot
  <2>1. ~Booting' /\ \A y : ~Awaits(todo', y)
    BY <1>8, <1>10, <1>11, <1>13, GrantWorkParts, GrantWorkAwaits
  <2>2. \A h \in Grants : todo' # Carry(h)
    <3>1. todo' # <<>> /\ Head(todo').op # "cancel"
      BY <1>13, WorkParts, FirstOps
    <3> QED
      BY <3>1, NotCarry
  <2>3. \A x \in Executions : SameFacts(x)
    BY <1>8, FactsSame
  <2>4. DebtInv'
    BY <1>1, <1>7, <1>10, <1>13, <2>1, <2>2, <2>3, ServingKeeps
  <2> QED
    BY <1>2, <1>7, <1>9, <2>4 DEF FullInv
<1> QED
  BY <1>5, <1>12, <1>13

LEMMA RecordResultFits ==
  ASSUME FullInv, ControlInv', RecordResult
  PROVE  FullInv'
<1>1. ChainInv /\ DebtInv /\ BudgetInv /\ SlotsExact /\ Shape
  BY DEF FullInv, ChainInv, ControlInv
<1>2. ChainInv' /\ todo' = <<>>
  BY <1>1, RecordResultChains
<1>3. PICK g \in open :
        /\ todo = Answer(g) /\ Consumed(g)
        /\ RecordControl(g, "closed", 1) /\ open' = open \ {g}
        /\ \A h \in Grants : Consumed(h)' <=> Consumed(h)
  BY <1>1, RecordResultChains
<1>4. UNCHANGED <<snapshot, host, target>>
  BY DEF RecordResult, Forget
<1>5. g \in Grants /\ target[g] \in Executions /\ open \subseteq Grants
  BY <1>1, OpenHasTarget DEF Shape
<1>6. controlSlots >= 1 /\ (controlSlots' = controlSlots - 1 => SlotsExact')
  BY <1>1, <1>3, <1>5, SlotsAnswer
<1>7. BudgetInv' /\ remaining' = remaining /\ controlSlots' = controlSlots - 1
  BY <1>1, <1>3, <1>6, RecordControlFits
<1>8. \A x \in Executions : SameFacts(x)
  <2>1. Grows(target[g], Event("closed", g)) /\ "closed" \in ControlKind
    BY <1>3 DEF RecordControl, Grows, ControlKind
  <2> QED
    BY <1>1, <1>5, <2>1, FactsControl
<1>9. DebtInv'
  <2>1. todo # <<>> /\ host # "down"
    BY <1>1, <1>3, WorkParts DEF ChainInv, DownIsIdle
  <2>2. ~Booting /\ \A x : ~Awaits(todo, x)
    BY <1>3, <2>1, GrantWorkParts, GrantWorkAwaits DEF Booting
  <2>3. ~Booting'
    <3>1. Booting' <=> Boots(host', todo')
      BY DEF Booting, Boots, EndOf
    <3> QED
      BY <1>2, <1>4, <2>1, <3>1, NoWork
  <2>4. (\A x : ~Awaits(todo', x)) /\ \A h \in Grants : todo' # Carry(h)
    BY <1>2, NoWork, NotCarry
  <2> QED
    BY <1>1, <1>4, <1>7, <1>8, <2>2, <2>3, <2>4, ServingKeeps
<1> QED
  BY <1>2, <1>6, <1>7, <1>9 DEF FullInv

LEMMA UnloadFits ==
  ASSUME FullInv, ControlInv', Unload
  PROVE  FullInv'
<1>1. ChainInv /\ DebtInv /\ BudgetInv /\ SlotsExact /\ Shape
  BY DEF FullInv, ChainInv, ControlInv
<1>2. ChainInv'
  BY <1>1, UnloadChains
<1>3. /\ Idle /\ host' = "unloading" /\ todo' = CloseDown
      /\ UNCHANGED <<budgetVars, trail, snapshot, open, target>>
  BY DEF Unload, CloseDown, grantVars
<1>4. BudgetInv' /\ remaining' = remaining /\ controlSlots' = controlSlots
  BY <1>1, <1>3, SameBudget DEF budgetVars
<1>5. SlotsExact'
  <2>1. open \subseteq Grants
    BY <1>1 DEF Shape
  <2>2. \A h \in Grants : Consumed(h)' <=> Consumed(h)
    BY <1>3, MarksSame DEF SameMarks
  <2> QED
    BY <1>1, <1>3, <1>4, <2>1, <2>2, SlotsSame
<1>6. DebtInv'
  <2>1. ~Booting /\ \A x : ~Awaits(todo, x)
    BY <1>1, <1>3, IdlePhase, IdleAwaits
  <2>2. ~Booting' /\ \A x : ~Awaits(todo', x)
    <3>1. Booting' <=> Boots(host', todo')
      BY DEF Booting, Boots, EndOf
    <3> QED
      BY <1>3, <3>1, CloseDownWork
  <2>3. \A h \in Grants : todo' # Carry(h)
    <3>1. todo' # <<>> /\ Head(todo').op # "cancel"
      BY <1>3, BootParts, FirstOps
    <3> QED
      BY <3>1, NotCarry
  <2>4. \A x \in Executions : SameFacts(x)
    BY <1>3, FactsSame
  <2> QED
    BY <1>1, <1>3, <1>4, <2>1, <2>2, <2>3, <2>4, ServingKeeps
<1> QED
  BY <1>2, <1>4, <1>5, <1>6 DEF FullInv

LEMMA CloseAllFits ==
  ASSUME FullInv, ControlInv', CloseAll
  PROVE  FullInv'
<1>1. ChainInv /\ DebtInv /\ BudgetInv /\ SlotsExact /\ Shape
  BY DEF FullInv, ChainInv, ControlInv
<1>2. /\ todo = CloseDown
      /\ \/ \E g \in open : Close(g) /\ todo' = todo /\ ~Finishes(todo, g)
         \/ /\ ChainInv' /\ open = {} /\ todo' = <<>>
            /\ UNCHANGED <<budgetVars, trail, snapshot, grantVars, cancelled, host>>
  BY <1>1, CloseAllChains
<1>3. todo # <<>> /\ Head(todo).op # "cancel" /\ host # "down"
  BY <1>1, <1>2, BootParts, FirstOps DEF ChainInv, DownIsIdle
<1>4. ~Booting /\ \A x : ~Awaits(todo, x)
  BY <1>2, <1>3, CloseDownWork DEF Booting
<1>5. \A h \in Grants : todo # Carry(h)
  BY <1>3, NotCarry
<1>6. CASE \E g \in open : Close(g) /\ todo' = todo /\ ~Finishes(todo, g)
  BY <1>4, <1>5, <1>6, CloseFits
<1>7. CASE /\ ChainInv' /\ open = {} /\ todo' = <<>>
           /\ UNCHANGED <<budgetVars, trail, snapshot, grantVars, cancelled, host>>
  <2>1. UNCHANGED <<open, target, controlSlots, remaining>>
    BY <1>7 DEF grantVars, budgetVars
  <2>2. BudgetInv'
    BY <1>1, <1>7, SameBudget
  <2>3. SlotsExact'
    <3>1. \A h \in Grants : Consumed(h)' <=> Consumed(h)
      BY <1>7, <2>1, MarksSame DEF SameMarks
    <3>2. open \subseteq Grants
      BY <1>7
    <3> QED
      BY <1>1, <2>1, <3>1, <3>2, SlotsSame
  <2>4. DebtInv'
    <3>1. Booting' <=> Boots(host', todo')
      BY DEF Booting, Boots, EndOf
    <3>2. ~Booting' /\ (\A x : ~Awaits(todo', x)) /\ \A h \in Grants : todo' # Carry(h)
      BY <1>3, <1>7, <3>1, NoWork, NotCarry
    <3>3. \A x \in Executions : SameFacts(x)
      BY <1>7, FactsSame
    <3> QED
      BY <1>1, <1>4, <1>7, <2>1, <3>2, <3>3, ServingKeeps
  <2> QED
    BY <1>7, <2>2, <2>3, <2>4 DEF FullInv
<1> QED
  BY <1>2, <1>6, <1>7

-----------------------------------------------------------------------------
(* The steps of a host that repairs what another left.                     *)

LEMMA OwedType ==
  /\ Owed \in [Executions -> Nat] /\ SumFunction(Owed) \in Nat
  /\ \A x \in Executions : Owed[x] = Due(x) /\ Due(x) <= SumFunction(Owed)
  /\ \A x \in Underived : Due(x) >= 1
  /\ \A x \in Executions : snapshot[x] \in Live => Due(x) >= 1
<1>1. /\ \A x \in Executions : Due(x) \in Nat
      /\ \A x \in Underived : Due(x) >= 1
      /\ \A x \in Executions : snapshot[x] \in Live => Due(x) >= 1
  BY DEF Due
<1>2. Owed \in [Executions -> Nat] /\ \A x \in Executions : Owed[x] = Due(x)
  BY <1>1 DEF Owed
<1>3. SumFunction(Owed) \in Nat /\ \A x \in Executions : Owed[x] <= SumFunction(Owed)
  BY <1>2, ExecutionsType, SumType
<1> QED
  BY <1>1, <1>2, <1>3

(* Nothing is promised any more. *)
LEMMA NothingReserved ==
  ASSUME FullInv, Booting
  PROVE  /\ open = {} /\ controlSlots = 0 /\ Reserved = 0 /\ events \in Nat
         /\ remaining = [x \in Executions |-> 0]
<1>1. /\ ChainsOpen /\ SlotsExact /\ BudgetType /\ RepairFits
  BY DEF FullInv, ChainInv, BudgetInv, DebtInv
<1>2. open = {} /\ remaining = [x \in Executions |-> 0]
  BY <1>1 DEF ChainsOpen, RepairFits
<1>3. controlSlots = 0
  <2>1. {g \in open : ~Consumed(g)} = {} /\ {g \in open : Consumed(g)} = {}
    BY <1>2
  <2> QED
    BY <1>1, <2>1, FS_EmptySet DEF SlotsExact
<1>4. SumFunction(remaining) = 0
  BY <1>2, ExecutionsType, SumOfNothing
<1> QED
  BY <1>1, <1>2, <1>3, <1>4, ReservedType DEF Reserved

LEMMA NoSlots ==
  ASSUME open' = {}, controlSlots' = 0
  PROVE  SlotsExact'
<1>1. {g \in open' : ~Consumed(g)'} = {} /\ {g \in open' : Consumed(g)'} = {}
  OBVIOUS
<1> QED
  BY <1>1, FS_EmptySet DEF SlotsExact

(* What is owed has room. *)
LEMMA RoomToRepair ==
  ASSUME FullInv, Booting
  PROVE  /\ Unclosed # {} => Room(1)
         /\ Underived # {} => Room(1)
<1>1. /\ IsFiniteSet(Unclosed)
      /\ events + Cardinality(Unclosed) + SumFunction(Owed) <= MaxEvents
  BY DEF FullInv, DebtInv, RepairFits
<1>2. Cardinality(Unclosed) \in Nat /\ (Unclosed # {} => Cardinality(Unclosed) >= 1)
  BY <1>1, FS_CardinalityType, FS_EmptySet
<1>3. SumFunction(Owed) \in Nat /\ (Underived # {} => SumFunction(Owed) >= 1)
  <2>1. SumFunction(Owed) \in Nat
    BY OwedType
  <2>2. ASSUME NEW x \in Underived
        PROVE  SumFunction(Owed) >= 1
    <3>1. x \in Executions
      BY DEF Underived
    <3>2. Owed[x] \in Nat /\ Owed[x] = Due(x) /\ Due(x) <= SumFunction(Owed) /\ Due(x) >= 1
      BY <3>1, OwedType
    <3> QED
      BY <2>1, <3>2
  <2> QED
    BY <2>1, <2>2
<1>4. events \in Nat /\ Reserved = 0
  BY NothingReserved
<1> QED
  BY <1>1, <1>2, <1>3, <1>4, MaxEventsType DEF Room

LEMMA SameOwed ==
  ASSUME \A x \in Executions : SameFacts(x), snapshot' = snapshot
  PROVE  Underived' = Underived /\ Owed' = Owed
<1>1. Underived' = Underived
  BY DEF Underived, SameFacts
<1> QED
  BY <1>1 DEF Owed, Due

LEMMA SameUnclosed ==
  ASSUME trail' = trail, target' = target
  PROVE  Unclosed' = Unclosed
  BY MarksSame DEF Unclosed, SameMarks

LEMMA BootingKeeps ==
  ASSUME DebtInv, Booting, Booting',
         UNCHANGED <<events, remaining, trail, target, snapshot>>,
         \A x \in Executions : Awaits(todo', x) => snapshot[x] # "none",
         \A g \in Grants : todo' # Carry(g),
         Settling' => \A x \in Underived : Awaits(todo', x)
  PROVE  DebtInv'
<1>1. \A x \in Executions : SameFacts(x)
  BY FactsSame
<1>2. Underived' = Underived /\ Owed' = Owed /\ Unclosed' = Unclosed
  BY <1>1, SameOwed, SameUnclosed
<1>3. OverIsLast' /\ CountsFit'
  BY <1>1 DEF OverIsLast, CountsFit, DebtInv, SameFacts
<1>4. AwaitedIsKnown' /\ CarriedIsLive'
  BY DEF AwaitedIsKnown, CarriedIsLive, Awaits, Carry, Do
<1>5. RunsAreCovered'
  BY DEF RunsAreCovered
<1>6. StatusesAreDerived'
  BY <1>2 DEF StatusesAreDerived, Awaits, Do
<1>7. RepairFits'
  BY <1>2 DEF RepairFits, DebtInv
<1> QED
  BY <1>3, <1>4, <1>5, <1>6, <1>7 DEF DebtInv

(* What a host owed when it ended fits into what it had promised. *)
LEMMA OpenIsCounted ==
  ASSUME SlotsExact
  PROVE  /\ IsFiniteSet(open) /\ Cardinality(open) \in Nat
         /\ Cardinality(open) <= controlSlots
<1>1. /\ IsFiniteSet(open) /\ IsFiniteSet(OpenFresh) /\ IsFiniteSet(OpenSpent)
      /\ Cardinality(OpenFresh) \in Nat /\ Cardinality(OpenSpent) \in Nat
      /\ controlSlots = Cardinality(OpenFresh) * 2 + Cardinality(OpenSpent)
  BY SlotsAre
<1>2. open = OpenFresh \cup OpenSpent /\ OpenFresh \cap OpenSpent = {}
  BY DEF OpenFresh, OpenSpent
<1>3. Cardinality(OpenFresh \cup OpenSpent)
        = Cardinality(OpenFresh) + Cardinality(OpenSpent) - Cardinality(OpenFresh \cap OpenSpent)
  BY <1>1, FS_Union
<1>4. Cardinality(open) = Cardinality(OpenFresh) + Cardinality(OpenSpent)
  BY <1>1, <1>2, <1>3, FS_EmptySet
<1> QED
  BY <1>1, <1>4

LEMMA DueIsReserved ==
  ASSUME FullInv, ~Booting, NEW x \in Executions
  PROVE  Due(x) <= remaining[x]
<1>1. /\ DebtInv /\ BudgetType /\ Shape /\ CountsFit /\ remaining[x] \in Nat
  BY ReservedType DEF FullInv, ChainInv, ControlInv, BudgetInv, DebtInv
<1>2. snapshot[x] \in Live => "over" \in Unrecorded(x) /\ snapshot[x] # "over"
  BY <1>1 DEF DebtInv, OverIsLast, Unrecorded, Live, Status
<1>3. x \in Underived => Covered(x) /\ snapshot[x] \in Unrecorded(x)
  <2>1. snapshot[x] \in Status \cup {"none"}
    BY <1>1 DEF Shape
  <2>2. x \in Underived => Awaits(todo, x) /\ snapshot[x] \in Unrecorded(x)
    BY <1>1, <2>1 DEF DebtInv, StatusesAreDerived, Underived, Unrecorded
  <2> QED
    BY <1>1, <2>2 DEF DebtInv, RunsAreCovered
<1>4. snapshot[x] \in Live => Covered(x)
  BY <1>1 DEF DebtInv, RunsAreCovered
<1>5. CASE snapshot[x] \in Live /\ x \in Underived
  <2>1. remaining[x] >= 2
    BY <1>1, <1>2, <1>3, <1>5, CoveredOne
  <2> QED
    BY <1>1, <1>5, <2>1 DEF Due
<1>6. CASE snapshot[x] \in Live /\ x \notin Underived
  <2>1. remaining[x] >= 1
    BY <1>1, <1>2, <1>4, <1>6, CoveredOne
  <2> QED
    BY <1>1, <1>6, <2>1 DEF Due
<1>7. CASE snapshot[x] \notin Live /\ x \in Underived
  <2>1. remaining[x] >= 1
    BY <1>1, <1>3, <1>7, CoveredOne
  <2> QED
    BY <1>1, <1>7, <2>1 DEF Due
<1>8. CASE snapshot[x] \notin Live /\ x \notin Underived
  BY <1>1, <1>8 DEF Due
<1> QED
  BY <1>5, <1>6, <1>7, <1>8

LEMMA DebtFits ==
  ASSUME FullInv
  PROVE  /\ IsFiniteSet(Unclosed)
         /\ events + Cardinality(Unclosed) + SumFunction(Owed) <= MaxEvents
<1>1. CASE Booting
  BY <1>1 DEF FullInv, DebtInv, RepairFits
<1>2. CASE ~Booting
  <2>1. /\ events \in Nat /\ controlSlots \in Nat /\ SumFunction(remaining) \in Nat
        /\ remaining \in [Executions -> Nat]
        /\ Reserved = SumFunction(remaining) + controlSlots /\ events + Reserved <= MaxEvents
    BY ReservedType DEF FullInv, BudgetInv, PromisesFit
  <2>2. /\ IsFiniteSet(open) /\ Cardinality(open) \in Nat /\ Cardinality(open) <= controlSlots
    BY OpenIsCounted DEF FullInv
  <2>3. Unclosed \subseteq open
    BY <1>2 DEF FullInv, ChainInv, ChainsOpen, Unclosed
  <2>4. IsFiniteSet(Unclosed) /\ Cardinality(Unclosed) <= Cardinality(open)
    BY <2>2, <2>3, FS_Subset
  <2>5. Cardinality(Unclosed) \in Nat
    BY <2>4, FS_CardinalityType
  <2>6. SumFunction(Owed) \in Nat /\ SumFunction(Owed) <= SumFunction(remaining)
    <3>1. Owed \in [Executions -> Nat] /\ \A x \in Executions : Owed[x] = Due(x)
      BY OwedType
    <3>2. \A x \in Executions : Owed[x] <= remaining[x]
      BY <1>2, <3>1, DueIsReserved
    <3> QED
      BY <2>1, <3>1, <3>2, OwedType, ExecutionsType, SumMonotone
  <2> QED
    BY <2>1, <2>2, <2>4, <2>5, <2>6, MaxEventsType
<1> QED
  BY <1>1, <1>2

LEMMA ProcessEndsFits ==
  ASSUME FullInv, ControlInv', ProcessEnds
  PROVE  FullInv'
<1>1. ChainInv /\ DebtInv /\ BudgetInv /\ BudgetType
  BY DEF FullInv, BudgetInv
<1>2. ChainInv'
  BY <1>1, ProcessEndsChains
<1>3. /\ host' = "down" /\ todo' = <<>> /\ open' = {} /\ controlSlots' = 0
      /\ remaining' = [x \in Executions |-> 0]
      /\ UNCHANGED <<events, trail, snapshot, target>>
  BY DEF ProcessEnds
<1>4. SlotsExact'
  BY <1>3, NoSlots
<1>5. BudgetInv'
  <2>1. events \in Nat /\ events <= MaxEvents
    BY <1>1, MaxEventsType DEF BudgetType
  <2>2. Reserved' = 0
    <3>1. SumFunction(remaining') = 0
      BY <1>3, ExecutionsType, SumOfNothing
    <3> QED
      BY <1>3, <3>1 DEF Reserved
  <2> QED
    BY <1>3, <2>1, <2>2, MaxEventsType, BudgetFits
<1>6. Booting' /\ ~Settling'
  <2>1. (Booting' <=> Boots(host', todo'))
    BY DEF Booting, Boots, EndOf
  <2>2. ~Settling'
    <3>1. \A x : Settle # <<>> /\ SettleOf(x) # <<>>
      BY BootParts
    <3> QED
      BY <1>3, <3>1 DEF Settling, Settle, SettleOf, Do
  <2> QED
    BY <1>3, <2>1, <2>2, NoWork
<1>7. (\A x : ~Awaits(todo', x)) /\ \A g \in Grants : todo' # Carry(g)
  BY <1>3, NoWork, NotCarry
<1>8. /\ \A x \in Executions : SameFacts(x)
      /\ Owed' = Owed /\ Unclosed' = Unclosed
  BY <1>3, FactsSame, SameOwed, SameUnclosed
<1>9. DebtInv'
  <2>1. OverIsLast' /\ CountsFit'
    BY <1>1, <1>3, <1>8 DEF OverIsLast, CountsFit, DebtInv, SameFacts
  <2>2. AwaitedIsKnown' /\ CarriedIsLive'
    BY <1>7 DEF AwaitedIsKnown, CarriedIsLive, Awaits, Carry, Do
  <2>3. RunsAreCovered' /\ StatusesAreDerived'
    BY <1>6 DEF RunsAreCovered, StatusesAreDerived
  <2>4. RepairFits'
    BY <1>3, <1>8, DebtFits DEF RepairFits
  <2> QED
    BY <2>1, <2>2, <2>3, <2>4 DEF DebtInv
<1> QED
  BY <1>2, <1>4, <1>5, <1>9 DEF FullInv

LEMMA RestartFits ==
  ASSUME FullInv, ControlInv', Restart
  PROVE  FullInv'
<1>1. ChainInv /\ DebtInv /\ BudgetInv /\ SlotsExact
  BY DEF FullInv
<1>2. ChainInv'
  BY <1>1, RestartChains
<1>3. /\ host = "down" /\ todo' = Boot
      /\ UNCHANGED <<budgetVars, trail, snapshot, open, target>>
  BY DEF Restart, Boot, grantVars
<1>4. Booting /\ Booting'
  <2>1. Booting' <=> Boots(host', todo')
    BY DEF Booting, Boots, EndOf
  <2>2. \A x, g : Boots(host', Boot)
    BY BootWork
  <2> QED
    BY <1>3, <2>1, <2>2 DEF Booting, Boots
<1>5. /\ open' = {} /\ controlSlots' = 0
      /\ UNCHANGED <<events, remaining, trail, target, snapshot>>
  BY <1>3, <1>4, NothingReserved DEF budgetVars
<1>6. SlotsExact' /\ BudgetInv'
  BY <1>1, <1>3, <1>5, NoSlots, SameBudget
<1>7. DebtInv'
  <2>1. \A x : ~Awaits(todo', x)
    BY <1>3, BootWorkAwaits
  <2>2. \A g \in Grants : todo' # Carry(g)
    <3>1. Boot # <<>> /\ Head(Boot).op # "cancel"
      BY BootParts, FirstOps
    <3> QED
      BY <1>3, <3>1, NotCarry
  <2>3. ~Settling'
    <3>1. /\ Head(Boot).op = "control" /\ Head(Settle).op = "interrupted"
          /\ \A x : Head(SettleOf(x)).op = "event"
      BY FirstOps
    <3>2. Boot # Settle /\ \A x : Boot # SettleOf(x)
      BY <3>1
    <3> QED
      BY <1>3, <3>2 DEF Settling, Settle, SettleOf, Do
  <2> QED
    BY <1>1, <1>4, <1>5, <2>1, <2>2, <2>3, BootingKeeps
<1> QED
  BY <1>2, <1>6, <1>7 DEF FullInv

LEMMA ReconcileControlFits ==
  ASSUME FullInv, ControlInv', ReconcileControl
  PROVE  FullInv'
<1>1. ChainInv /\ DebtInv /\ BudgetInv /\ SlotsExact /\ Shape /\ BudgetType
  BY DEF FullInv, ChainInv, ControlInv, BudgetInv
<1>2. /\ UNCHANGED <<remaining, controlSlots, snapshot, open, target>>
      /\ todo # <<>> /\ Head(todo).op = "control"
  BY DEF ReconcileControl, grantVars
<1>3. Booting
  <2>1. todo = Boot
    BY <1>1, <1>2, HostWorkIs DEF ChainInv
  <2>2. \A x, g : Boots(host, Boot)
    BY BootWork
  <2> QED
    BY <2>1, <2>2 DEF Booting
<1>4. Unclosed # {} => Room(1)
  BY <1>3, RoomToRepair
<1>5. /\ ChainInv' /\ Booting' /\ todo = Boot
      /\ \/ \E g \in Unclosed :
              /\ Grows(target[g], Event("closed", g))
              /\ events' = events + 1 /\ todo' = todo
              /\ Unclosed' = Unclosed \ {g}
         \/ todo' = Repair /\ UNCHANGED <<events, trail>>
  BY <1>1, <1>4, ReconcileControlChains
<1>6. open' = {} /\ controlSlots' = 0 /\ SlotsExact'
  BY <1>2, <1>3, NothingReserved, NoSlots
<1>7. CASE todo' = Repair /\ UNCHANGED <<events, trail>>
  <2>1. BudgetInv'
    BY <1>1, <1>2, <1>7, SameBudget DEF budgetVars
  <2>2. \A x : ~Awaits(todo', x)
    BY <1>7, BootWorkAwaits
  <2>3. \A g \in Grants : todo' # Carry(g)
    <3>1. Repair # <<>> /\ Head(Repair).op # "cancel"
      BY BootParts, FirstOps
    <3> QED
      BY <1>7, <3>1, NotCarry
  <2>4. ~Settling'
    <3>1. /\ Head(Repair).op = "derived" /\ Head(Settle).op = "interrupted"
          /\ \A x : Head(SettleOf(x)).op = "event"
      BY FirstOps
    <3>2. Repair # Settle /\ \A x : Repair # SettleOf(x)
      BY <3>1
    <3> QED
      BY <1>7, <3>2 DEF Settling, Settle, SettleOf, Do
  <2>5. DebtInv'
    BY <1>1, <1>2, <1>3, <1>5, <1>7, <2>2, <2>3, <2>4, BootingKeeps
  <2> QED
    BY <1>5, <1>6, <2>1, <2>5 DEF FullInv
<1>8. ASSUME NEW g \in Unclosed, Grows(target[g], Event("closed", g)),
             events' = events + 1, todo' = todo, Unclosed' = Unclosed \ {g}
      PROVE  FullInv'
  <2>1. g \in Grants /\ target[g] \in Executions /\ "closed" \in ControlKind
    BY <1>1 DEF Unclosed, Requested, Shape, ControlKind
  <2>2. \A x \in Executions : SameFacts(x)
    BY <1>1, <1>8, <2>1, FactsControl
  <2>3. Owed' = Owed /\ Underived' = Underived
    BY <1>2, <2>2, SameOwed
  <2>4. BudgetInv'
    <3>1. /\ events \in Nat /\ remaining \in [Executions -> Nat] /\ Reserved \in Nat
          /\ Room(1)
      BY <1>1, <1>4, <1>8, ReservedType
    <3>2. Reserved' = Reserved
      BY <1>2 DEF Reserved
    <3>3. events' \in Nat /\ events' + Reserved' <= MaxEvents
      BY <1>8, <3>1, <3>2, MaxEventsType DEF Room
    <3> QED
      BY <1>2, <1>6, <3>1, <3>3, BudgetFits
  <2>5. OverIsLast' /\ CountsFit'
    BY <1>1, <1>2, <2>2 DEF OverIsLast, CountsFit, DebtInv, SameFacts
  <2>6. AwaitedIsKnown' /\ CarriedIsLive'
    BY <1>1, <1>2, <1>8 DEF AwaitedIsKnown, CarriedIsLive, DebtInv, Awaits, Carry, Do
  <2>7. RunsAreCovered'
    BY <1>5 DEF RunsAreCovered
  <2>8. StatusesAreDerived'
    <3>1. ~Settling'
      <4>1. Head(Boot).op = "control" /\ Head(Settle).op = "interrupted"
            /\ \A x : Head(SettleOf(x)).op = "event"
        BY FirstOps
      <4>2. Boot # Settle /\ \A x : Boot # SettleOf(x)
        BY <4>1
      <4> QED
        BY <1>5, <1>8, <4>2 DEF Settling, Settle, SettleOf, Do
    <3> QED
      BY <1>5, <3>1 DEF StatusesAreDerived
  <2>9. RepairFits'
    <3>1. /\ IsFiniteSet(Unclosed) /\ SumFunction(Owed) \in Nat /\ events \in Nat
          /\ events + Cardinality(Unclosed) + SumFunction(Owed) <= MaxEvents
          /\ remaining = [x \in Executions |-> 0]
      BY <1>1, <1>3, OwedType, NothingReserved DEF DebtInv, RepairFits
    <3>2. /\ IsFiniteSet(Unclosed \ {g}) /\ Cardinality(Unclosed) \in Nat
          /\ Cardinality(Unclosed \ {g}) = Cardinality(Unclosed) - 1
      BY <3>1, FS_RemoveElement, FS_CardinalityType
    <3>3. events' + Cardinality(Unclosed') + SumFunction(Owed') <= MaxEvents
      BY <1>8, <2>3, <3>1, <3>2, MaxEventsType
    <3> QED
      BY <1>2, <1>8, <3>1, <3>2, <3>3 DEF RepairFits
  <2> QED
    BY <1>5, <1>6, <2>4, <2>5, <2>6, <2>7, <2>8, <2>9 DEF FullInv, DebtInv
<1> QED
  BY <1>5, <1>7, <1>8

LEMMA ReconcileDerivedFits ==
  ASSUME FullInv, ControlInv', ReconcileDerived
  PROVE  FullInv'
<1>1. ChainInv /\ DebtInv /\ BudgetInv /\ SlotsExact
  BY DEF FullInv
<1>2. /\ UNCHANGED <<budgetVars, trail, snapshot, open, target, host>>
      /\ todo # <<>> /\ Head(todo).op = "derived"
  BY DEF ReconcileDerived, grantVars
<1>3. todo = Repair /\ Tail(todo) = Settle
  BY <1>1, <1>2, HostWorkIs, BootParts DEF ChainInv
<1>4. Booting
  <2>1. \A x, g : Boots(host, Repair)
    BY BootWork
  <2> QED
    BY <1>3, <2>1 DEF Booting
<1>5. ChainInv'
  BY <1>1, ReconcileDerivedChains
<1>6. /\ open' = {} /\ controlSlots' = 0
      /\ UNCHANGED <<events, remaining, trail, target, snapshot>>
  BY <1>2, <1>4, NothingReserved DEF budgetVars
<1>7. SlotsExact' /\ BudgetInv'
  BY <1>1, <1>2, <1>6, NoSlots, SameBudget
<1>8. \/ \E x \in Underived : todo' = RepairOf(x)
      \/ Underived = {} /\ todo' = Settle
  <2>1. Underived # {} => Room(1)
    BY <1>4, RoomToRepair
  <2>2. \/ \E x \in Underived : todo' = <<Do("event", x)>> \o Repair
        \/ Underived = {} /\ todo' = Settle
    BY <1>3, <2>1 DEF ReconcileDerived
  <2>3. \A x : <<Do("event", x)>> \o Repair = RepairOf(x)
    BY WorkAlso
  <2> QED
    BY <2>2, <2>3
<1>9. Booting' <=> Boots(host', todo')
  BY DEF Booting, Boots, EndOf
<1>10. ASSUME NEW x \in Underived, todo' = RepairOf(x)
       PROVE  DebtInv'
  <2>1. x \in Executions /\ snapshot[x] # "none"
    BY DEF Underived
  <2>2. Booting' /\ \A y : Awaits(todo', y) <=> y = x
    <3>1. \A g : Boots(host', RepairOf(x))
      BY BootWork
    <3> QED
      BY <1>9, <1>10, <3>1, BootWorkAwaits
  <2>3. \A g \in Grants : todo' # Carry(g)
    <3>1. RepairOf(x) # <<>> /\ Head(RepairOf(x)).op # "cancel"
      BY BootParts, FirstOps
    <3> QED
      BY <1>10, <3>1, NotCarry
  <2>4. ~Settling'
    <3>1. /\ Head(Settle).op = "interrupted" /\ Head(RepairOf(x)).op = "event"
          /\ \A y : Tail(RepairOf(x)) = Repair /\ Tail(SettleOf(y)) = Settle
      BY FirstOps, BootParts
    <3>2. Head(Repair).op = "derived"
      BY FirstOps
    <3>3. RepairOf(x) # Settle /\ \A y : RepairOf(x) # SettleOf(y)
      BY <3>1, <3>2
    <3> QED
      BY <1>10, <3>3 DEF Settling, Settle, SettleOf, Do
  <2> QED
    BY <1>1, <1>4, <1>6, <2>1, <2>2, <2>3, <2>4, BootingKeeps
<1>11. ASSUME Underived = {}, todo' = Settle
       PROVE  DebtInv'
  <2>1. Booting' /\ \A y : ~Awaits(todo', y)
    <3>1. \A x, g : Boots(host', Settle)
      BY BootWork
    <3> QED
      BY <1>9, <1>11, <3>1, BootWorkAwaits
  <2>2. \A g \in Grants : todo' # Carry(g)
    <3>1. Settle # <<>> /\ Head(Settle).op # "cancel"
      BY BootParts, FirstOps
    <3> QED
      BY <1>11, <3>1, NotCarry
  <2> QED
    BY <1>1, <1>4, <1>6, <1>11, <2>1, <2>2, BootingKeeps
<1> QED
  BY <1>5, <1>7, <1>8, <1>10, <1>11 DEF FullInv

LEMMA CloseInterruptedFits ==
  ASSUME FullInv, ControlInv', CloseInterrupted
  PROVE  FullInv'
<1>1. ChainInv /\ DebtInv /\ BudgetInv /\ SlotsExact /\ Shape
  BY DEF FullInv, ChainInv, ControlInv
<1>2. /\ UNCHANGED <<budgetVars, trail, open, target, host>>
      /\ todo # <<>> /\ Head(todo).op = "interrupted"
  BY DEF CloseInterrupted, grantVars
<1>3. todo = Settle /\ Tail(todo) = <<>> /\ host # "down"
  BY <1>1, <1>2, HostWorkIs, BootParts DEF ChainInv, DownIsIdle
<1>4. Booting
  <2>1. \A x, g : Boots(host, Settle)
    BY BootWork
  <2> QED
    BY <1>3, <2>1 DEF Booting
<1>5. ChainInv'
  BY <1>1, CloseInterruptedChains
<1>6. /\ open' = {} /\ controlSlots' = 0
      /\ UNCHANGED <<events, remaining, trail, target>>
  BY <1>2, <1>4, NothingReserved DEF budgetVars
<1>7. SlotsExact' /\ BudgetInv'
  BY <1>1, <1>2, <1>6, NoSlots, SameBudget
<1>8. Underived = {}
  <2>1. Settling /\ \A y : ~Awaits(todo, y)
    BY <1>3, BootWorkAwaits DEF Settling
  <2> QED
    BY <1>1, <2>1 DEF DebtInv, StatusesAreDerived, Underived
<1>9. Booting' <=> Boots(host', todo')
  BY DEF Booting, Boots, EndOf
<1>10. (\A x \in Executions : SameFacts(x)) /\ Unclosed' = Unclosed
  BY <1>2, FactsSame, SameUnclosed
<1>11. ASSUME NEW x \in Executions, snapshot[x] \in Live, Persist(x, "over", todo)
       PROVE  DebtInv'
  <2>1. /\ todo' = SettleOf(x)
        /\ snapshot'[x] = "over" /\ \A y \in Executions : y # x => snapshot'[y] = snapshot[y]
    BY <1>1, <1>3, <1>11, WorkAlso DEF Persist, Shape
  <2>2. Booting' /\ \A y : Awaits(todo', y) <=> y = x
    <3>1. \A g : Boots(host', SettleOf(x))
      BY BootWork
    <3> QED
      BY <1>9, <2>1, <3>1, BootWorkAwaits
  <2>3. \A g \in Grants : todo' # Carry(g)
    <3>1. SettleOf(x) # <<>> /\ Head(SettleOf(x)).op # "cancel"
      BY BootParts, FirstOps
    <3> QED
      BY <2>1, <3>1, NotCarry
  <2>4. OverIsLast' /\ CountsFit'
    BY <1>1, <1>10, <2>1 DEF OverIsLast, CountsFit, DebtInv, SameFacts
  <2>5. AwaitedIsKnown' /\ CarriedIsLive'
    <3>1. \A y \in Executions : Awaits(todo', y) => snapshot'[y] # "none"
      BY <2>1, <2>2
    <3> QED
      BY <2>3, <3>1 DEF AwaitedIsKnown, CarriedIsLive, Awaits, Carry, Do
  <2>6. RunsAreCovered'
    BY <2>2 DEF RunsAreCovered
  <2>7. Underived' \subseteq {x}
    BY <1>8, <1>10, <2>1 DEF Underived, SameFacts
  <2>8. StatusesAreDerived'
    <3>1. \A y \in Underived' : Awaits(todo', y)
      BY <2>2, <2>7
    <3> QED
      BY <3>1 DEF StatusesAreDerived, Awaits, Do
  <2>9. RepairFits'
    <3>1. /\ IsFiniteSet(Unclosed) /\ SumFunction(Owed) \in Nat /\ events \in Nat
          /\ events + Cardinality(Unclosed) + SumFunction(Owed) <= MaxEvents
          /\ remaining = [y \in Executions |-> 0] /\ Owed \in [Executions -> Nat]
      BY <1>1, <1>4, OwedType, NothingReserved DEF DebtInv, RepairFits
    <3>2. Owed' \in [Executions -> Nat] /\ \A y \in Executions : Owed'[y] <= Owed[y]
      <4>1. Owed'[x] \in Nat /\ Owed'[x] <= 1 /\ Owed[x] >= 1
        <5>1. Owed[x] >= 1
          BY <1>11, OwedType
        <5>2. Owed'[x] = IF x \in Underived' THEN 1 ELSE 0
          BY <2>1 DEF Owed, Due, Live
        <5> QED
          BY <5>1, <5>2
      <4>2. \A y \in Executions : y # x => Owed'[y] = Owed[y]
        BY <1>8, <2>1, <2>7 DEF Owed, Due
      <4>3. Owed' = [y \in Executions |-> Owed'[y]]
        BY DEF Owed
      <4>4. \A y \in Executions : Owed'[y] \in Nat /\ Owed'[y] <= Owed[y]
        BY <3>1, <4>1, <4>2
      <4> QED
        BY <4>3, <4>4
    <3>3. SumFunction(Owed') \in Nat /\ SumFunction(Owed') <= SumFunction(Owed)
      BY <3>1, <3>2, ExecutionsType, SumMonotone, SumType
    <3>4. Cardinality(Unclosed) \in Nat
      BY <3>1, FS_CardinalityType
    <3>5. events' + Cardinality(Unclosed') + SumFunction(Owed') <= MaxEvents
      BY <1>6, <1>10, <3>1, <3>3, <3>4, MaxEventsType
    <3> QED
      BY <1>6, <1>10, <3>1, <3>5 DEF RepairFits
  <2> QED
    BY <2>4, <2>5, <2>6, <2>8, <2>9 DEF DebtInv
<1>12. ASSUME \A x \in Executions : snapshot[x] \notin Live,
              todo' = <<>>, snapshot' = snapshot
       PROVE  DebtInv'
  <2>1. ~Booting' /\ (\A y : ~Awaits(todo', y)) /\ \A g \in Grants : todo' # Carry(g)
    BY <1>2, <1>3, <1>9, <1>12, NoWork, NotCarry
  <2>2. OverIsLast' /\ CountsFit'
    BY <1>1, <1>10, <1>12 DEF OverIsLast, CountsFit, DebtInv, SameFacts
  <2>3. AwaitedIsKnown' /\ CarriedIsLive'
    BY <2>1 DEF AwaitedIsKnown, CarriedIsLive, Awaits, Carry, Do
  <2>4. RunsAreCovered'
    <3>1. \A x \in Executions : ~(snapshot'[x] \in Live) /\ ~Awaits(todo', x)
      BY <1>12, <2>1
    <3> QED
      BY <3>1 DEF RunsAreCovered, Live, Awaits, Do
  <2>5. StatusesAreDerived'
    <3>1. Underived' = {}
      BY <1>8, <1>10, <1>12, SameOwed
    <3> QED
      BY <3>1 DEF StatusesAreDerived
  <2>6. RepairFits'
    BY <2>1 DEF RepairFits
  <2> QED
    BY <2>2, <2>3, <2>4, <2>5, <2>6 DEF DebtInv
<1> QED
  <2>1. DebtInv'
    BY <1>3, <1>11, <1>12 DEF CloseInterrupted
  <2> QED
    BY <1>5, <1>7, <2>1 DEF FullInv

(* The event of a published snapshot comes next, and then what is left. *)
LEMMA EventStep ==
  ASSUME ChainInv, RecordStatus
  PROVE  \E x \in Executions :
           /\ Head(todo) = Do("event", x) /\ Head(todo).of = x
           /\ \A y : Awaits(todo, y) <=> y = x
           /\ \A y : ~Awaits(todo', y)
           /\ \A g \in Grants : todo' # Carry(g)
           /\ Booting' <=> Booting
           /\ Settling' => Settling
<1>1. /\ todo # <<>> /\ Head(todo).op = "event" /\ todo' = Tail(todo)
      /\ host' = host /\ host # "down" /\ WorkShape
  BY DEF RecordStatus, ChainInv, DownIsIdle
<1>2. /\ Booting' <=> Boots(host, todo')
      /\ Booting <=> Boots(host, todo)
  BY <1>1 DEF Booting, Boots, EndOf
<1>3. ASSUME todo' = <<>> \/ (todo' # <<>> /\ Head(todo').op \in {"derived", "result"})
      PROVE  ~Settling' /\ \A g \in Grants : todo' # Carry(g)
  <2>1. /\ Settle # <<>> /\ Head(Settle).op = "interrupted"
        /\ \A x : SettleOf(x) # <<>> /\ Head(SettleOf(x)).op = "event"
    BY BootParts, FirstOps
  <2>2. todo' # Settle /\ \A x : todo' # SettleOf(x)
    BY <1>3, <2>1
  <2>3. ~Settling'
    BY <2>2 DEF Settling, Settle, SettleOf, Do
  <2> QED
    BY <1>3, <2>3, NotCarry
<1>4. ASSUME NEW x \in Executions, todo = Publish(x)
      PROVE  /\ Head(todo) = Do("event", x) /\ todo' = <<>>
             /\ \A y : Awaits(todo, y) <=> y = x
             /\ \A y : ~Awaits(todo', y)
             /\ ~Booting /\ ~Booting'
  <2>1. Head(Publish(x)) = Do("event", x) /\ Tail(Publish(x)) = <<>>
    BY WorkParts, Zenon
  <2>2. \A g : /\ Boots(host, Publish(x)) <=> host = "down"
               /\ \A y : Awaits(Publish(x), y) <=> y = x
    BY PublishWork, Zenon
  <2>3. \A y, g : ~Awaits(<<>>, y) /\ (Boots(host, <<>>) <=> host = "down")
    BY NoWork, Zenon
  <2> QED
    BY <1>1, <1>2, <1>4, <2>1, <2>2, <2>3
<1>5. ASSUME NEW g \in open, todo = Stopped(target[g], g)
      PROVE  /\ Head(todo) = Do("event", target[g]) /\ todo' = Answer(g)
             /\ \A y : Awaits(todo, y) <=> y = target[g]
             /\ \A y : ~Awaits(todo', y)
             /\ ~Booting /\ ~Booting'
  <2>1. /\ Head(Stopped(target[g], g)) = Do("event", target[g])
        /\ Tail(Stopped(target[g], g)) = Answer(g)
    BY WorkParts, Zenon
  <2>2. \A y : /\ ~Awaits(Answer(g), y)
               /\ Awaits(Stopped(target[g], g), y) <=> y = target[g]
    BY GrantWorkAwaits, Zenon
  <2>3. ~Boots(host, Stopped(target[g], g)) /\ ~Boots(host, Answer(g))
    BY <1>1, GrantWorkParts
  <2> QED
    BY <1>1, <1>2, <1>5, <2>1, <2>2, <2>3
<1>6. ASSUME NEW x \in Executions, todo = RepairOf(x)
      PROVE  /\ Head(todo) = Do("event", x) /\ todo' = Repair
             /\ \A y : Awaits(todo, y) <=> y = x
             /\ \A y : ~Awaits(todo', y)
             /\ Booting /\ Booting'
  <2>1. \A y, g : Boots(host, Repair) /\ Boots(host, RepairOf(y))
    BY BootWork
  <2> QED
    BY <1>1, <1>2, <1>6, <2>1, BootParts, BootWorkAwaits
<1>7. ASSUME NEW x \in Executions, todo = SettleOf(x)
      PROVE  /\ Head(todo) = Do("event", x) /\ todo' = Settle
             /\ \A y : Awaits(todo, y) <=> y = x
             /\ \A y : ~Awaits(todo', y)
             /\ Booting /\ Booting' /\ Settling
  <2>1. \A y, g : Boots(host, Settle) /\ Boots(host, SettleOf(y))
    BY BootWork
  <2>2. Settling
    BY <1>7 DEF Settling
  <2> QED
    BY <1>1, <1>2, <1>7, <2>1, <2>2, BootParts, BootWorkAwaits
<1>8. \A x : Do("event", x).of = x
  BY DoParts
<1>9. CASE \E x \in Executions : todo = Publish(x)
  BY <1>3, <1>4, <1>8, <1>9
<1>10. CASE \E g \in open : todo = Stopped(target[g], g)
  <2>1. PICK g \in open : todo = Stopped(target[g], g)
    BY <1>10
  <2>2. Answer(g) # <<>> /\ Head(Answer(g)).op = "result" /\ target[g] \in Executions
    <3>1. \A x : Answer(g) # <<>>
      BY WorkParts
    <3> QED
      BY <3>1, FirstOps, OpenHasTarget
  <2> QED
    BY <1>3, <1>5, <1>8, <2>1, <2>2
<1>11. CASE \E x \in Executions : todo = RepairOf(x)
  <2>1. Repair # <<>> /\ Head(Repair).op = "derived"
    BY BootParts, FirstOps
  <2> QED
    BY <1>3, <1>6, <1>8, <1>11, <2>1
<1>12. CASE \E x \in Executions : todo = SettleOf(x)
  <2>1. \A g \in Grants : Settle # Carry(g)
    <3>1. Settle # <<>> /\ Head(Settle).op # "cancel"
      BY BootParts, FirstOps
    <3> QED
      BY <3>1, NotCarry
  <2> QED
    BY <1>7, <1>8, <1>12, <2>1
<1> QED
  BY <1>1, <1>9, <1>10, <1>11, <1>12, EventWorkIs

(* There is room for the event, whoever records it. *)
LEMMA RecordStatusFits ==
  ASSUME FullInv, ControlInv', RecordStatus
  PROVE  FullInv'
<1>1. ChainInv /\ DebtInv /\ BudgetInv /\ SlotsExact /\ Shape /\ BudgetType
  BY DEF FullInv, ChainInv, ControlInv, BudgetInv
<1>2. ChainInv'
  BY <1>1, RecordStatusChains
<1>3. PICK x \in Executions :
        /\ Head(todo) = Do("event", x) /\ Head(todo).of = x
        /\ \A y : Awaits(todo, y) <=> y = x
        /\ \A y : ~Awaits(todo', y)
        /\ \A g \in Grants : todo' # Carry(g)
        /\ Booting' <=> Booting
        /\ Settling' => Settling
  BY <1>1, EventStep
<1>4. /\ UNCHANGED <<snapshot, open, target, host>>
      /\ IF InLedger(x, Event(snapshot[x], None)) THEN UNCHANGED <<budgetVars, trail>>
         ELSE RecordOfExecution(x) /\ Trails(x, Event(snapshot[x], None))
  BY <1>3 DEF RecordStatus, grantVars
<1>5. snapshot[x] \in Status /\ open \subseteq Grants
  BY <1>1, <1>3 DEF Shape, DebtInv, AwaitedIsKnown
<1>6. AwaitedIsKnown' /\ CarriedIsLive'
  BY <1>3 DEF AwaitedIsKnown, CarriedIsLive, Awaits, Carry, Do
<1>7. CASE InLedger(x, Event(snapshot[x], None))
  <2>1. /\ UNCHANGED <<budgetVars, trail>>
        /\ UNCHANGED <<events, remaining, controlSlots>>
    BY <1>4, <1>7 DEF budgetVars
  <2>2. BudgetInv'
    BY <1>1, <2>1, SameBudget
  <2>3. SlotsExact'
    <3>1. \A g \in Grants : Consumed(g)' <=> Consumed(g)
      BY <1>4, <2>1, MarksSame DEF SameMarks
    <3> QED
      BY <1>1, <1>4, <1>5, <2>1, <3>1, SlotsSame
  <2>4. (~Booting \/ Settling) => Underived = {}
    BY <1>1, <1>3, <1>7 DEF DebtInv, StatusesAreDerived, Underived
  <2>5. CASE Booting
    <3>1. Settling' => \A y \in Underived : Awaits(todo', y)
      BY <1>3, <2>4
    <3>2. DebtInv'
      BY <1>1, <1>3, <1>4, <2>1, <2>5, <3>1, BootingKeeps
    <3> QED
      BY <1>2, <2>2, <2>3, <3>2 DEF FullInv
  <2>6. CASE ~Booting
    <3>1. \A y \in Executions : SameFacts(y)
      BY <2>1, FactsSame
    <3>2. Underived' = {}
      BY <1>4, <2>4, <2>6, <3>1, SameOwed
    <3>3. OverIsLast' /\ CountsFit'
      BY <1>1, <1>4, <3>1 DEF OverIsLast, CountsFit, DebtInv, SameFacts
    <3>4. RunsAreCovered'
      <4>1. \A y \in Executions : snapshot'[y] \in Live \/ Awaits(todo', y) => Covered(y)'
        BY <1>1, <1>3, <1>4, <2>1, <2>6, <3>1 DEF DebtInv, RunsAreCovered, Covered, SameFacts
      <4> QED
        BY <4>1 DEF RunsAreCovered, Live, Awaits, Do
    <3>5. StatusesAreDerived' /\ RepairFits'
      BY <1>3, <2>6, <3>2 DEF StatusesAreDerived, RepairFits
    <3> QED
      BY <1>2, <1>6, <2>2, <2>3, <3>3, <3>4, <3>5 DEF FullInv, DebtInv
  <2> QED
    BY <2>5, <2>6
<1>8. CASE ~InLedger(x, Event(snapshot[x], None))
  <2>1. /\ RecordOfExecution(x) /\ Trails(x, Event(snapshot[x], None))
        /\ x \in Underived /\ snapshot[x] \in Unrecorded(x)
    BY <1>4, <1>5, <1>8 DEF Underived, Unrecorded, Status, Live
  <2>2. /\ BudgetInv' /\ controlSlots' = controlSlots
        /\ remaining[x] > 0 =>
             /\ events' = events + 1
             /\ remaining' = [remaining EXCEPT ![x] = remaining[x] - 1]
        /\ ~(remaining[x] > 0) =>
             /\ remaining' = remaining
             /\ Room(1) => events' = events + 1
    BY <1>1, <2>1, RecordOfExecutionFits
  <2>3. events \in Nat /\ remaining \in [Executions -> Nat]
    BY <1>1, ReservedType
  <2>4. ~Booting => Covered(x) /\ remaining[x] >= 1
    <3>1. ~Booting => Covered(x)
      BY <1>1, <1>3 DEF DebtInv, RunsAreCovered
    <3>2. Covered(x) => remaining[x] >= 1
      BY <1>1, <2>1, CoveredOne DEF DebtInv
    <3> QED
      BY <3>1, <3>2
  <2>5. events' = events + 1
    <3>1. Booting => Room(1)
      BY <2>1, RoomToRepair
    <3> QED
      BY <2>2, <2>3, <2>4, <3>1
  <2>6. Grows(x, Event(snapshot[x], None))
    BY <2>1, <2>3, <2>5 DEF Trails, Grows
  <2>7. SlotsExact' /\ Unclosed' = Unclosed
    <3>1. NoMark
      BY <1>4, <1>5, <2>6 DEF NoMark
    <3>2. Shape' /\ Ordered /\ Begins
      BY <1>1 DEF ControlInv, ChainInv
    <3>3. \A g \in Grants : SameMarks(g)
      BY <1>1, <3>1, <3>2, NoMarkKeeps
    <3>4. Unclosed' = Unclosed
      BY <3>3 DEF Unclosed, SameMarks
    <3>5. \A g \in Grants : Consumed(g)' <=> Consumed(g)
      BY <3>3 DEF SameMarks
    <3> QED
      BY <1>1, <1>4, <1>5, <2>2, <3>4, <3>5, SlotsSame
  <2>8. /\ \A y \in Executions : y # x => SameFacts(y)
        /\ \A s : InLedger(x, Event(s, None))' <=> InLedger(x, Event(s, None)) \/ s = snapshot[x]
        /\ Unrecorded(x)' = Unrecorded(x) \ {snapshot[x]}
        /\ OthersOf(x)' = OthersOf(x)
    <3>1. snapshot[x] \in Status \cup {"other"} /\ snapshot[x] # "other"
      BY <1>5 DEF Status, Live
    <3> QED
      BY <1>1, <2>6, <3>1, FactsStatus
  <2>9. OverIsLast'
    BY <1>1, <1>4, <2>8 DEF OverIsLast, DebtInv, SameFacts
  <2>10. CountsFit'
    BY <1>1, <2>8 DEF CountsFit, DebtInv, SameFacts
  <2>11. Underived' = Underived \ {x}
    <3>1. x \notin Underived'
      <4>1. \A s \in {snapshot[x]} : InLedger(x, Event(s, None))'
        BY <2>8
      <4>2. Event(snapshot[x], None) \in Range(trail'[x])
        BY <4>1 DEF InLedger, Event
      <4> QED
        BY <1>4, <4>2 DEF Underived, InLedger, Event
    <3>2. \A y \in Executions : y # x => (y \in Underived' <=> y \in Underived)
      BY <1>4, <2>8 DEF Underived, SameFacts
    <3>3. Underived' \subseteq Executions /\ Underived \subseteq Executions
      BY DEF Underived
    <3> QED
      BY <3>1, <3>2, <3>3
  <2>12. RunsAreCovered'
    <3>1. ASSUME ~Booting, NEW y \in Executions, snapshot[y] \in Live, y # x
          PROVE  Covered(y)'
      <4>1. Covered(y)
        BY <1>1, <3>1 DEF DebtInv, RunsAreCovered
      <4>2. remaining'[y] = remaining[y]
        BY <2>2, <2>3, <2>4, <3>1
      <4> QED
        BY <2>8, <3>1, <4>1, <4>2 DEF Covered, SameFacts
    <3>2. ASSUME ~Booting
          PROVE  Covered(x)'
      <4>1. /\ IsFiniteSet(Unrecorded(x)) /\ Cardinality(Unrecorded(x)) \in Nat
            /\ OtherEvents - Cardinality(OthersOf(x)) \in Nat
        BY <1>1, UnrecordedFinite, OthersFinite DEF DebtInv
      <4>2. Cardinality(Unrecorded(x) \ {snapshot[x]}) = Cardinality(Unrecorded(x)) - 1
        BY <2>1, <4>1, FS_RemoveElement
      <4>3. remaining'[x] = remaining[x] - 1
        BY <2>2, <2>3, <2>4, <3>2
      <4>4. \A r, u \in Nat : \A d \in Nat : r >= u + d => r - 1 >= u - 1 + d
        OBVIOUS
      <4>5. remaining[x] - 1 >=
              Cardinality(Unrecorded(x)) - 1 + (OtherEvents - Cardinality(OthersOf(x)))
        BY <2>3, <2>4, <3>2, <4>1, <4>4 DEF Covered
      <4> QED
        BY <2>8, <4>2, <4>3, <4>5 DEF Covered
    <3>3. ~Booting' =>
            \A y \in Executions : snapshot'[y] \in Live \/ Awaits(todo', y) => Covered(y)'
      BY <1>3, <1>4, <3>1, <3>2
    <3> QED
      BY <3>3 DEF RunsAreCovered, Live, Awaits, Do
  <2>13. StatusesAreDerived'
    <3>1. ~Booting \/ Settling => Underived \subseteq {x}
      BY <1>1, <1>3 DEF DebtInv, StatusesAreDerived, Underived
    <3>2. ~Booting' \/ Settling' => Underived' = {}
      BY <1>3, <2>11, <3>1
    <3> QED
      BY <3>2 DEF StatusesAreDerived
  <2>14. RepairFits'
    <3> SUFFICES ASSUME Booting
                 PROVE  RepairFits'
      BY <1>3 DEF RepairFits
    <3>1. /\ remaining = [y \in Executions |-> 0] /\ IsFiniteSet(Unclosed)
          /\ events + Cardinality(Unclosed) + SumFunction(Owed) <= MaxEvents
      BY <1>1 DEF DebtInv, RepairFits
    <3>2. remaining' = remaining
      BY <2>2, <3>1
    <3>3. Owed \in [Executions -> Nat] /\ Owed[x] >= 1 /\ SumFunction(Owed) \in Nat
      BY <2>1, OwedType
    <3>4. Owed' = [Owed EXCEPT ![x] = Owed[x] - 1]
      <4>1. Owed'[x] = Owed[x] - 1
        BY <1>4, <2>1, <2>11 DEF Owed, Due
      <4>2. \A y \in Executions : y # x => Owed'[y] = Owed[y]
        BY <1>4, <2>11 DEF Owed, Due
      <4>3. Owed' = [y \in Executions |-> Owed'[y]]
        BY DEF Owed
      <4> QED
        BY <3>3, <4>1, <4>2, <4>3
    <3>5. SumFunction(Owed') = SumFunction(Owed) - 1
      <4>1. Owed[x] - 1 \in Nat /\ Owed[x] \in Nat
        BY <3>3
      <4>2. \A v \in Nat :
              SumFunction([Owed EXCEPT ![x] = v]) = SumFunction(Owed) - Owed[x] + v
        BY <3>3, ExecutionsType, SumUpdate
      <4>3. SumFunction([Owed EXCEPT ![x] = Owed[x] - 1])
              = SumFunction(Owed) - Owed[x] + (Owed[x] - 1)
        BY <4>1, <4>2, Zenon
      <4>4. SumFunction(Owed') = SumFunction([Owed EXCEPT ![x] = Owed[x] - 1])
        BY <3>4, Zenon
      <4>5. \A a, b \in Nat : a - b + (b - 1) = a - 1
        OBVIOUS
      <4> QED
        BY <3>3, <4>1, <4>3, <4>4, <4>5
    <3>6. Cardinality(Unclosed) \in Nat
      BY <3>1, FS_CardinalityType
    <3>7. events' + Cardinality(Unclosed') + SumFunction(Owed') <= MaxEvents
      BY <2>3, <2>5, <2>7, <3>1, <3>3, <3>5, <3>6, MaxEventsType
    <3> QED
      BY <2>7, <3>1, <3>2, <3>7 DEF RepairFits
  <2> QED
    BY <1>2, <1>6, <2>2, <2>7, <2>9, <2>10, <2>12, <2>13, <2>14 DEF FullInv, DebtInv
<1> QED
  BY <1>7, <1>8

(* Everything a step may do. *)
LEMMA InitFull == Init => FullInv
<1> SUFFICES ASSUME Init
             PROVE  FullInv
  OBVIOUS
<1>1. /\ BudgetInit /\ trail = [x \in Executions |-> <<>>]
      /\ snapshot = [x \in Executions |-> "none"] /\ open = {}
      /\ target = [g \in Grants |-> None] /\ host = "up" /\ todo = <<>>
  BY DEF Init
<1>2. ~Booting /\ ~Repairing /\ ~Settling
  BY <1>1, NoWork, ServingNow DEF Booting
<1>3. \A x \in Executions : DOMAIN trail[x] = {} /\ Range(trail[x]) = {}
  <2>1. DOMAIN <<>> = {}
    OBVIOUS
  <2> QED
    BY <1>1, <2>1 DEF Range
<1>4. \A g \in Grants : ~Requested(g) /\ ~Consumed(g) /\ ~Closed(g)
  BY <1>1 DEF Requested, Consumed, Closed
<1>5. ChainInv
  <2>1. ControlInv
    BY InitControl
  <2>2. Ordered
    BY <1>3 DEF Ordered
  <2>3. Begins /\ OpenChains /\ ChainsOpen
    BY <1>1, <1>2, <1>4 DEF Begins, OpenChains, ChainsOpen
  <2>4. ChainsRepaired /\ WorkShape /\ DownIsIdle
    BY <1>1, <1>2 DEF ChainsRepaired, WorkShape, DownIsIdle
  <2> QED
    BY <2>1, <2>2, <2>3, <2>4 DEF ChainInv
<1>6. BudgetInv
  <2>1. SumFunction(remaining) = 0
    BY <1>1, ExecutionsType, SumOfNothing DEF BudgetInit
  <2> QED
    BY <1>1, <2>1, MaxEventsType DEF BudgetInit, BudgetInv, BudgetType, PromisesFit, Reserved
<1>7. SlotsExact
  <2>1. {g \in open : ~Consumed(g)} = {} /\ {g \in open : Consumed(g)} = {}
    BY <1>1
  <2> QED
    BY <1>1, <2>1, FS_EmptySet DEF SlotsExact, BudgetInit
<1>8. DebtInv
  <2>1. \A x, s : x \in Executions => ~InLedger(x, Event(s, None))
    BY <1>3 DEF InLedger
  <2>2. OverIsLast
    BY <2>1 DEF OverIsLast
  <2>3. (\A x : ~Awaits(todo, x)) /\ \A g \in Grants : todo # Carry(g)
    BY <1>1, NoWork, NotCarry
  <2>4. AwaitedIsKnown /\ CarriedIsLive
    BY <2>3 DEF AwaitedIsKnown, CarriedIsLive
  <2>5. CountsFit
    <3>1. \A x \in Executions : OthersOf(x) = {}
      BY <1>3 DEF OthersOf
    <3> QED
      BY <3>1, FS_EmptySet, EnvelopeCovers DEF CountsFit
  <2>6. RunsAreCovered
    BY <1>1, <2>3 DEF RunsAreCovered, Live
  <2>7. StatusesAreDerived
    BY <1>1 DEF StatusesAreDerived, Underived
  <2>8. RepairFits
    BY <1>2 DEF RepairFits
  <2> QED
    BY <2>2, <2>4, <2>5, <2>6, <2>7, <2>8 DEF DebtInv
<1> QED
  BY <1>5, <1>6, <1>7, <1>8 DEF FullInv

LEMMA NothingHappens ==
  ASSUME FullInv, ControlInv', UNCHANGED vars
  PROVE  FullInv'
<1>1. UNCHANGED <<events, remaining, controlSlots, trail, snapshot, open, target, host, todo>>
  BY DEF vars, budgetVars, grantVars
<1>2. \A g \in Grants : SameMarks(g)
  BY <1>1, MarksSame
<1>3. \A x \in Executions : SameFacts(x)
  BY <1>1, FactsSame
<1>4. ChainInv /\ DebtInv /\ BudgetInv /\ SlotsExact /\ Shape
  BY DEF FullInv, ChainInv, ControlInv
<1>5. ChainInv'
  BY <1>1, <1>4, UnchangedChains DEF NoMark
<1>6. BudgetInv'
  BY <1>1, <1>4, SameBudget DEF budgetVars
<1>7. SlotsExact'
  <2>1. open \subseteq Grants /\ \A g \in Grants : Consumed(g)' <=> Consumed(g)
    BY <1>2, <1>4 DEF Shape, SameMarks
  <2> QED
    BY <1>1, <1>4, <2>1, SlotsSame
<1>8. DebtInv'
  <2>1. Booting' <=> Booting
    BY <1>1, SamePhase
  <2>2. CASE ~Booting
    <3>1. \A x \in Executions : Awaits(todo', x) <=> Awaits(todo, x)
      BY <1>1
    <3>2. \A g \in Grants : todo' = Carry(g) => snapshot[target'[g]] \in {"queued", "running"}
      BY <1>1, <1>4 DEF DebtInv, CarriedIsLive
    <3> QED
      BY <1>1, <1>3, <1>4, <2>1, <2>2, <3>1, <3>2, ServingKeeps
  <2>3. CASE Booting
    <3>1. Underived' = Underived /\ Owed' = Owed /\ Unclosed' = Unclosed
      BY <1>1, <1>3, SameOwed, SameUnclosed
    <3>2. OverIsLast' /\ CountsFit' /\ RunsAreCovered' /\ RepairFits'
      BY <1>1, <1>3, <1>4, <2>1, <2>3, <3>1
         DEF OverIsLast, CountsFit, DebtInv, SameFacts, RunsAreCovered, RepairFits
    <3>3. AwaitedIsKnown' /\ CarriedIsLive'
      BY <1>1, <1>4 DEF AwaitedIsKnown, CarriedIsLive, DebtInv, Awaits, Carry, Do
    <3>4. StatusesAreDerived'
      <4>1. Settling' <=> Settling
        BY <1>1 DEF Settling, Settle, SettleOf, Do
      <4> QED
        BY <1>1, <1>4, <2>1, <2>3, <3>1, <4>1 DEF StatusesAreDerived, DebtInv, Awaits, Do
    <3> QED
      BY <3>2, <3>3, <3>4 DEF DebtInv
  <2> QED
    BY <2>2, <2>3
<1> QED
  BY <1>5, <1>6, <1>7, <1>8 DEF FullInv

LEMMA NextKeepsFull == FullInv /\ [Next]_vars => FullInv'
<1> SUFFICES ASSUME FullInv, [Next]_vars
             PROVE  FullInv'
  OBVIOUS
<1>1. ControlInv'
  BY NextKeepsControl DEF FullInv, ChainInv
<1>2. CASE ExecutionStep
  <2>1. CASE \E x \in Executions : Start(x)
    BY <1>1, <2>1, StartFits
  <2>2. CASE \E x \in Executions : RecordOtherOf(x)
    BY <1>1, <2>2, RecordOtherOfFits
  <2>3. CASE \E x \in Executions : Release(x)
    BY <1>1, <2>3, ReleaseFits
  <2>4. CASE \E x \in Executions : \E next \in Status : Advance(x, next)
    BY <1>1, <2>4, AdvanceFits
  <2>5. CASE OthersRecord
    BY <1>1, <2>5, OthersRecordFits
  <2> QED
    BY <1>2, <2>1, <2>2, <2>3, <2>4, <2>5 DEF ExecutionStep
<1>3. CASE ControlStep
  <2>1. PICK g \in Grants :
          \/ \E x \in Executions : Issue(g, x)
          \/ Expire(g) \/ Sweep(g) \/ ExecuteRefused(g) \/ Execute(g)
    BY <1>3 DEF ControlStep
  <2>2. CASE \E x \in Executions : Issue(g, x)
    BY <1>1, <2>2, IssueFits
  <2>3. CASE Expire(g)
    BY <1>1, <2>3, ExpireFits
  <2>4. CASE Sweep(g)
    BY <1>1, <2>4, IdleCloseFits DEF Sweep
  <2>5. CASE ExecuteRefused(g)
    BY <1>1, <2>5, IdleCloseFits DEF ExecuteRefused
  <2>6. CASE Execute(g)
    BY <1>1, <2>6, ExecuteFits
  <2> QED
    BY <2>1, <2>2, <2>3, <2>4, <2>5, <2>6
<1>4. CASE Continue
  BY <1>1, <1>4, RecordStatusFits, CancelRunFits, RecordResultFits, CloseAllFits,
     ReconcileControlFits, ReconcileDerivedFits, CloseInterruptedFits DEF Continue
<1>5. CASE Unload
  BY <1>1, <1>5, UnloadFits
<1>6. CASE ProcessEnds
  BY <1>1, <1>6, ProcessEndsFits
<1>7. CASE Restart
  BY <1>1, <1>7, RestartFits
<1>8. CASE UNCHANGED vars
  BY <1>1, <1>8, NothingHappens
<1> QED
  BY <1>2, <1>3, <1>4, <1>5, <1>6, <1>7, <1>8 DEF Next

LEMMA FullInvariant == Spec => []FullInv
<1>1. Init => FullInv
  BY InitFull
<1>2. FullInv /\ [Next]_vars => FullInv'
  BY NextKeepsFull
<1> QED
  BY <1>1, <1>2, PTL DEF Spec

(* Of every control there is one chain in the ledger, whoever closes it:    *)
(* the caller (completeFoundryControlGrant), the sweep, the unload or the   *)
(* next host (reconcileControlAudit).  No chain is left open by a crash,    *)
(* with any number of grants, executions and events and a ledger however    *)
(* full, since reservedControlEventSlots counts what each may still add.    *)
THEOREM ChainsAreAlwaysWhole == Spec => []ChainsAreWhole
<1>1. FullInv => ChainsAreWhole
  <2> SUFFICES ASSUME FullInv
               PROVE  ChainsAreWhole
    OBVIOUS
  <2>1. ChainInv /\ Ordered /\ Begins /\ OpenChains /\ ChainsOpen
    BY DEF FullInv, ChainInv
  <2>2. controlSlots = Cardinality({g \in open : ~Consumed(g)}) * 2
                       + Cardinality({g \in open : Consumed(g)})
    BY DEF FullInv, SlotsExact
  <2>3. ASSUME NEW g \in Grants, Idle, Requested(g), ~Closed(g)
        PROVE  g \in open /\ ~Consumed(g)
    <3>1. ~Booting /\ ~Finishes(todo, g)
      BY <2>1, <2>3, IdlePhase
    <3>2. g \in open
      BY <2>1, <2>3, <3>1 DEF ChainsOpen
    <3> QED
      BY <2>1, <3>1, <3>2 DEF OpenChains
  <2> QED
    BY <2>1, <2>2, <2>3 DEF ChainsAreWhole, Ordered, Begins
<1> QED
  BY <1>1, FullInvariant, PTL

(* Between two handlers the ledger tells the last status of each execution, *)
(* wherever the last process ended: what the next host repairs              *)
(* (reconcileDurableExecutionEvents, closeInterruptedDurableExecutions)     *)
(* never exceeds what was reserved, so it always finds room.                *)
THEOREM NoStatusIsEverLost == Spec => []NoStatusIsLost
<1>1. FullInv => NoStatusIsLost
  <2> SUFFICES ASSUME FullInv, Idle
               PROVE  Underived = {}
    BY DEF NoStatusIsLost
  <2>1. ~Booting /\ \A x : ~Awaits(todo, x)
    BY IdlePhase, IdleAwaits DEF FullInv
  <2> QED
    BY <2>1 DEF FullInv, DebtInv, StatusesAreDerived, Underived
<1> QED
  BY <1>1, FullInvariant, PTL

(* With controls and restarts too, what is promised fits beside what is     *)
(* recorded (reservedControlEventSlots, reservePlanExecutionFacts).         *)
THEOREM ControlPromisesFit == Spec => []PromisesFit
<1>1. FullInv => PromisesFit
  BY DEF FullInv, BudgetInv
<1> QED
  BY <1>1, FullInvariant, PTL
=============================================================================
