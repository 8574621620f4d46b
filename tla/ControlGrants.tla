---------------------------- MODULE ControlGrants -----------------------------
(***************************************************************************)
(* The cancel controls of running executions, their audit chains in the    *)
(* ledger, and what a restarted host repairs (src/src/index.ts):           *)
(* issueCancelControlGrant, executeCancelControl, the sweep, the unload,   *)
(* persistExecutionSnapshot with the events derived from it, and the       *)
(* reconciliation in the constructor.                                      *)
(*                                                                         *)
(* A host is one thread, but its process may end between any two writes of *)
(* the ledger: a handler that writes twice leaves its continuation in todo *)
(* and nothing but the end of the process comes in between.  The ledger    *)
(* and the execution snapshots survive; they are on disk (EventJournal).   *)
(***************************************************************************)
EXTENDS FactBudget, Sequences

CONSTANTS
  Grants,       \* identifiers randomUUID may return (model only)
  MaxGrants,    \* 256
  Envelope,     \* executionFactEnvelope(plan).events
  OtherEvents,  \* attempt, child and evidence events of one execution
  None

Live == {"queued", "running", "stopping"}
Status == Live \cup {"over"}
ControlKind == {"requested", "consumed", "closed"}

ASSUME NoneIsFresh    == None \notin Executions \cup Grants
ASSUME MaxGrantsType  == MaxGrants \in Nat \ {0}
ASSUME EnvelopeCovers == Envelope \in Nat /\ OtherEvents \in Nat
                         /\ Cardinality(Status) + OtherEvents <= Envelope

VARIABLES
  trail,      \* the events about each execution in the ledger, in order
  snapshot,   \* the status in its last execution snapshot
  open,       \* foundryControlGrants
  target,     \* the execution each grant is for
  basis,      \* issuedCursor
  expired,    \* grants whose expiresAt has passed
  cancelled,  \* grants whose cancel reached the adapter
  host,       \* "up", "unloading" or "down"
  todo        \* what the running handler has left to do

ledgerVars == <<events, trail, snapshot>>
grantVars == <<open, target, basis, expired>>
vars == <<budgetVars, trail, snapshot, grantVars, cancelled, host, todo>>

Event(kind, grant) == [kind |-> kind, grant |-> grant]
Do(op, of) == [op |-> op, of |-> of]

Op ==
  {Do(o, None) : o \in {"close all", "control", "derived", "interrupted"}}
  \cup {Do("event", x) : x \in Executions}
  \cup {Do(o, g) : o \in {"cancel", "result"}, g \in Grants}

Events ==
  [kind : Status \cup {"other"}, grant : {None}] \cup [kind : ControlKind, grant : Grants]

TypeOK ==
  /\ BudgetType
  /\ trail \in [Executions -> Seq(Events)]
  /\ snapshot \in [Executions -> Status \cup {"none"}]
  /\ open \subseteq Grants /\ Cardinality(open) <= MaxGrants
  /\ target \in [Grants -> Executions \cup {None}]
  /\ basis \in [Grants -> 0..MaxEvents]
  /\ expired \subseteq Grants
  /\ cancelled \subseteq Grants
  /\ host \in {"up", "unloading", "down"}
  /\ todo \in Seq(Op)

Init ==
  /\ BudgetInit
  /\ trail = [x \in Executions |-> <<>>]
  /\ snapshot = [x \in Executions |-> "none"]
  /\ open = {} /\ expired = {} /\ cancelled = {}
  /\ target = [g \in Grants |-> None]
  /\ basis = [g \in Grants |-> 0]
  /\ host = "up"
  /\ todo = <<>>

(* A handler may start: none is running. *)
Idle == host # "down" /\ todo = <<>>

(* runEventCursor *)
Cursor(x) == Len(trail[x])

InLedger(x, event) == event \in Range(trail[x])
Requested(g) == target[g] # None
Consumed(g) == Requested(g) /\ InLedger(target[g], Event("consumed", g))
Closed(g) == Requested(g) /\ InLedger(target[g], Event("closed", g))

-----------------------------------------------------------------------------
(* Executions: their snapshots and the events derived from them.           *)

(* persistExecutionSnapshot up to its event; the event comes next. *)
Persist(x, status, rest) ==
  /\ snapshot' = [snapshot EXCEPT ![x] = status]
  /\ todo' = <<Do("event", x)>> \o rest

(* reservePlanExecutionFacts and the queued checkpoint. *)
Start(x) ==
  /\ Idle /\ host = "up"
  /\ snapshot[x] = "none"
  /\ Room(Envelope)
  /\ remaining' = [remaining EXCEPT ![x] = Envelope]
  /\ Persist(x, "queued", <<>>)
  /\ UNCHANGED <<events, controlSlots, trail, grantVars, cancelled, host>>

Precedes(status, next) ==
  \/ status = "queued" /\ next # "queued"
  \/ status = "running" /\ next \in {"stopping", "over"}
  \/ status = "stopping" /\ next = "over"

(* The adapter publishes a snapshot. *)
Advance(x, next) ==
  /\ Idle
  /\ next \in Status /\ Precedes(snapshot[x], next)
  /\ Persist(x, next, <<>>)
  /\ UNCHANGED <<budgetVars, trail, grantVars, cancelled, host>>

(* What an event of the execution adds to its trail, when there is room. *)
Trails(x, event) ==
  trail' = IF events' > events
           THEN [trail EXCEPT ![x] = Append(@, event)] ELSE trail

(* recordExecutionTransitions: an event that is there already is not       *)
(* recorded again.                                                         *)
RecordStatus ==
  /\ todo # <<>> /\ Head(todo).op = "event"
  /\ LET x == Head(todo).of
         event == Event(snapshot[x], None)
     IN  IF InLedger(x, event) THEN UNCHANGED <<budgetVars, trail>>
         ELSE RecordOfExecution(x) /\ Trails(x, event)
  /\ todo' = Tail(todo)
  /\ UNCHANGED <<snapshot, grantVars, cancelled, host>>

(* An attempt, child or evidence event. *)
RecordOtherOf(x) ==
  /\ Idle
  /\ snapshot[x] \in Live \/ remaining[x] > 0
  /\ Cardinality({n \in DOMAIN trail[x] : trail[x][n].kind = "other"}) < OtherEvents
  /\ RecordOfExecution(x) /\ Trails(x, Event("other", None))
  /\ UNCHANGED <<snapshot, grantVars, cancelled, host, todo>>

(* releaseExecutionFactReservation, after the disposal. *)
Release(x) ==
  /\ Idle
  /\ snapshot[x] = "over" /\ remaining[x] > 0
  /\ remaining' = [remaining EXCEPT ![x] = 0]
  /\ UNCHANGED <<events, controlSlots, trail, snapshot, grantVars, cancelled, host, todo>>

(* Events about something else. *)
OthersRecord ==
  /\ Idle /\ RecordOther
  /\ UNCHANGED <<trail, snapshot, grantVars, cancelled, host, todo>>

-----------------------------------------------------------------------------
(* Controls.                                                               *)

(* Every handler begins with the sweep, so it finds no expired grant. *)
Swept == open \cap expired = {}

(* A control event that uses one of the reserved slots and frees others. *)
RecordControl(g, kind, freed) ==
  /\ Room(0)
  /\ events' = events + 1
  /\ controlSlots' = controlSlots - freed
  /\ trail' = [trail EXCEPT ![target[g]] = Append(@, Event(kind, g))]
  /\ UNCHANGED remaining

(* What every issue does once it is granted. *)
Grant(g, x) ==
  /\ events' = events + 1
  /\ controlSlots' = controlSlots + 2
  /\ trail' = [trail EXCEPT ![x] = Append(@, Event("requested", g))]
  /\ open' = open \cup {g}
  /\ target' = [target EXCEPT ![g] = x]
  /\ basis' = [basis EXCEPT ![g] = Cursor(x) + 1]
  /\ UNCHANGED <<remaining, snapshot, expired, cancelled, host, todo>>

(* issueCancelControlGrant for a proposal at the present cursor. *)
Issue(g, x) ==
  /\ Idle /\ host = "up" /\ Swept
  /\ target[g] = None
  /\ snapshot[x] \in {"queued", "running"}
  /\ Cardinality(open) < MaxGrants
  /\ Room(3)
  /\ Grant(g, x)

(* The record of the grant is deleted. *)
Forget(g) ==
  /\ open' = open \ {g}
  /\ expired' = expired \ {g}
  /\ basis' = [basis EXCEPT ![g] = 0]
  /\ UNCHANGED target

(* closeFoundryControlGrant of a grant that was not consumed: one event,   *)
(* and both slots are free.                                                *)
Close(g) ==
  /\ RecordControl(g, "closed", 2)
  /\ Forget(g)
  /\ UNCHANGED <<snapshot, cancelled, host>>

(* expiresAt passes. *)
Expire(g) ==
  /\ Idle
  /\ g \in open \ expired
  /\ expired' = expired \cup {g}
  /\ UNCHANGED <<budgetVars, trail, snapshot, open, target, basis, cancelled, host, todo>>

(* Mutated: a grant whose execution moved on is left to its execution. *)
SweepCurrent(g) ==
  /\ Idle /\ host = "up"
  /\ g \in open \cap expired
  /\ basis[g] = Cursor(target[g])
  /\ Close(g)
  /\ UNCHANGED todo

(* pruneFoundryControlGrants, by the interval or before another handler. *)
Sweep(g) ==
  /\ Idle /\ host = "up"
  /\ g \in open \cap expired
  /\ Close(g)
  /\ UNCHANGED todo

(* The execution moved on, ended, or is being cancelled: the grant is      *)
(* spent.  (A host that unloads has closed all of them.)                   *)
ExecuteRefused(g) ==
  /\ Idle /\ Swept
  /\ g \in open
  /\ \/ basis[g] # Cursor(target[g])
     \/ snapshot[target[g]] \notin {"queued", "running"}
  /\ Close(g)
  /\ UNCHANGED todo

(* Mutated: the cursor is not compared. *)
ExecuteStale(g) ==
  /\ Idle /\ host = "up" /\ Swept
  /\ g \in open
  /\ snapshot[target[g]] \in {"queued", "running"}
  /\ RecordControl(g, "consumed", 1)
  /\ todo' = <<Do("cancel", g), Do("result", g)>>
  /\ UNCHANGED <<snapshot, grantVars, cancelled, host>>

(* Mutated: the adapter is called without a record. *)
ExecuteUnrecorded(g) ==
  /\ Idle /\ host = "up" /\ Swept
  /\ g \in open
  /\ basis[g] = Cursor(target[g])
  /\ snapshot[target[g]] \in {"queued", "running"}
  /\ todo' = <<Do("cancel", g), Do("result", g)>>
  /\ UNCHANGED <<budgetVars, trail, snapshot, grantVars, cancelled, host>>

(* executeCancelControl up to the event that consumes the grant. *)
Execute(g) ==
  /\ Idle /\ host = "up" /\ Swept
  /\ g \in open
  /\ basis[g] = Cursor(target[g])
  /\ snapshot[target[g]] \in {"queued", "running"}
  /\ RecordControl(g, "consumed", 1)
  /\ todo' = <<Do("cancel", g), Do("result", g)>>
  /\ UNCHANGED <<snapshot, grantVars, cancelled, host>>

(* workflowAdapter.cancel publishes the stopping snapshot, or the adapter  *)
(* is gone, does not know the execution, or throws.                        *)
CancelRun ==
  /\ todo # <<>> /\ Head(todo).op = "cancel"
  /\ LET g == Head(todo).of IN
     \/ /\ Persist(target[g], "stopping", Tail(todo))
        /\ cancelled' = cancelled \cup {g}
     \/ /\ todo' = Tail(todo)
        /\ UNCHANGED <<snapshot, cancelled>>
  /\ UNCHANGED <<budgetVars, trail, grantVars, host>>

(* completeFoundryControlGrant *)
RecordResult ==
  /\ todo # <<>> /\ Head(todo).op = "result"
  /\ LET g == Head(todo).of IN
     RecordControl(g, "closed", 1) /\ Forget(g)
  /\ todo' = Tail(todo)
  /\ UNCHANGED <<snapshot, cancelled, host>>

-----------------------------------------------------------------------------
(* Unload, the end of the process, and the next host.                      *)

(* The effect that unloads the plugin; the workflow runs are disposed of   *)
(* afterwards, and end by Advance and Release.                             *)
Unload ==
  /\ Idle /\ host = "up"
  /\ host' = "unloading"
  /\ todo' = <<Do("close all", None)>>
  /\ UNCHANGED <<budgetVars, trail, snapshot, grantVars, cancelled>>

(* closeAllFoundryControlGrants *)
CloseAll ==
  /\ todo # <<>> /\ Head(todo).op = "close all"
  /\ \/ \E g \in open : Close(g) /\ UNCHANGED todo
     \/ /\ open = {}
        /\ todo' = Tail(todo)
        /\ UNCHANGED <<budgetVars, trail, snapshot, grantVars, cancelled, host>>

(* At any time, between any two writes. *)
ProcessEnds ==
  /\ host # "down"
  /\ host' = "down"
  /\ todo' = <<>>
  /\ open' = {} /\ expired' = {}
  /\ basis' = [g \in Grants |-> 0]
  /\ remaining' = [x \in Executions |-> 0]
  /\ controlSlots' = 0
  /\ UNCHANGED <<events, trail, snapshot, target, cancelled>>

(* Mutated: a snapshot whose event is missing is not repaired. *)
RestartUnrepaired ==
  /\ host = "down"
  /\ host' = "up"
  /\ todo' = <<Do("control", None), Do("interrupted", None)>>
  /\ UNCHANGED <<budgetVars, trail, snapshot, grantVars, cancelled>>

(* The constructor. *)
Restart ==
  /\ host = "down"
  /\ host' = "up"
  /\ todo' = <<Do("control", None), Do("derived", None), Do("interrupted", None)>>
  /\ UNCHANGED <<budgetVars, trail, snapshot, grantVars, cancelled>>

(* Mutated: only requests are looked for. *)
UnclosedRequests == {g \in Grants : Requested(g) /\ ~Consumed(g) /\ ~Closed(g)}

(* The requests and consumptions that are the causal parent of nothing. *)
Unclosed == {g \in Grants : Requested(g) /\ ~Closed(g)}

(* reconcileControlAudit *)
ReconcileControl ==
  /\ todo # <<>> /\ Head(todo).op = "control"
  /\ IF Unclosed # {} /\ Room(1)
     THEN /\ \E g \in Unclosed :
               trail' = [trail EXCEPT ![target[g]] = Append(@, Event("closed", g))]
          /\ events' = events + 1
          /\ UNCHANGED todo
     ELSE todo' = Tail(todo) /\ UNCHANGED <<events, trail>>
  /\ UNCHANGED <<remaining, controlSlots, snapshot, grantVars, cancelled, host>>

(* Executions whose snapshot has no event. *)
Underived ==
  {x \in Executions : snapshot[x] # "none" /\ ~InLedger(x, Event(snapshot[x], None))}

(* reconcileDurableExecutionEvents *)
ReconcileDerived ==
  /\ todo # <<>> /\ Head(todo).op = "derived"
  /\ IF Underived # {} /\ Room(1)
     THEN \E x \in Underived : todo' = <<Do("event", x)>> \o todo
     ELSE todo' = Tail(todo)
  /\ UNCHANGED <<budgetVars, trail, snapshot, grantVars, cancelled, host>>

(* closeInterruptedDurableExecutions *)
CloseInterrupted ==
  /\ todo # <<>> /\ Head(todo).op = "interrupted"
  /\ \/ \E x \in Executions : snapshot[x] \in Live /\ Persist(x, "over", todo)
     \/ /\ \A x \in Executions : snapshot[x] \notin Live
        /\ todo' = Tail(todo)
        /\ UNCHANGED snapshot
  /\ UNCHANGED <<budgetVars, trail, grantVars, cancelled, host>>

-----------------------------------------------------------------------------
ExecutionStep ==
  \/ \E x \in Executions :
       \/ Start(x) \/ RecordOtherOf(x) \/ Release(x)
       \/ \E next \in Status : Advance(x, next)
  \/ OthersRecord

ControlStep ==
  \E g \in Grants :
    \/ \E x \in Executions : Issue(g, x)
    \/ Expire(g) \/ Sweep(g) \/ ExecuteRefused(g) \/ Execute(g)

(* The rest of a handler that has begun. *)
Continue ==
  \/ RecordStatus \/ CancelRun \/ RecordResult \/ CloseAll
  \/ ReconcileControl \/ ReconcileDerived \/ CloseInterrupted

Next == ExecutionStep \/ ControlStep \/ Continue \/ Unload \/ ProcessEnds \/ Restart

Spec == Init /\ [][Next]_vars

(* A handler runs to its end, time passes, and the sweep's interval fires. *)
Fairness ==
  /\ WF_vars(Continue)
  /\ \A g \in Grants : WF_vars(Expire(g)) /\ WF_vars(Sweep(g))

FairSpec == Spec /\ Fairness

-----------------------------------------------------------------------------
(* The order in which the events of one control come, each at most once. *)
Follows(kind, next) ==
  \/ kind = "requested" /\ next \in {"consumed", "closed"}
  \/ kind = "consumed" /\ next = "closed"

(* The audit of a control is a chain: requested, perhaps consumed, and     *)
(* closed once, whichever of the caller, the sweep, the unload and the     *)
(* next host closes it.  The ledger itself would accept a second closure,  *)
(* since each of them writes under an identity of its own.  Whenever no    *)
(* handler runs, a chain that is not closed belongs to a grant that can    *)
(* still be used, however full the ledger was when the process ended       *)
(* (docs/data-and-privacy.md: "Incomplete control chains are closed as     *)
(* restarted or interrupted").  The slots held back in the ledger are       *)
(* those the open chains may still use, or a chain could not be closed.    *)
ChainsAreWhole ==
  /\ \A g \in Grants :
       /\ \A x \in Executions : \A n \in DOMAIN trail[x] :
            trail[x][n].grant = g =>
              /\ x = target[g]
              /\ \A m \in 1..(n - 1) :
                   trail[x][m].grant = g => Follows(trail[x][m].kind, trail[x][n].kind)
       /\ Requested(g) => InLedger(target[g], Event("requested", g))
       /\ Idle /\ Requested(g) /\ ~Closed(g) => g \in open /\ ~Consumed(g)
  /\ controlSlots = Cardinality({g \in open : ~Consumed(g)}) * 2
                    + Cardinality({g \in open : Consumed(g)})

(* docs/agent-foundry.md: "A newer run event invalidates the grant".       *)
NewerEventInvalidates ==
  \A x \in Executions : \A n \in DOMAIN trail[x] :
    trail[x][n].kind = "consumed" =>
      n > 1 /\ trail[x][n - 1] = Event("requested", trail[x][n].grant)

(* The adapter is called only after the consumption is on disk, so a       *)
(* cancellation is never without a record of who asked for it, and no      *)
(* restart can make the grant usable again.                                *)
CancelIsOnRecord == \A g \in cancelled : Consumed(g)

(* docs/data-and-privacy.md: "Nonterminal recovered executions are closed  *)
(* as unknown".  Whenever no handler runs, the last status of each         *)
(* execution has its event, although the process may have ended between    *)
(* the two and the ledger may be full; and a host that just started knows  *)
(* no execution that still runs.                                           *)
NoStatusIsLost == Idle => Underived = {}

(* Every grant is closed in the end, with nobody asking for it. *)
EveryGrantCloses == \A g \in Grants : g \in open ~> g \notin open
=============================================================================
