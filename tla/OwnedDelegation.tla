--------------------------- MODULE OwnedDelegation ---------------------------
(***************************************************************************)
(* startOwned (src/src/index.ts) over the AdmissionController and the      *)
(* ProductSubagentLedger (src/src/domain.ts).                              *)
(*                                                                         *)
(* A call of startOwned runs from one await to the next; each such segment *)
(* is one action, so that aborts, timeouts, the lifecycle edges the        *)
(* subagent runtime publishes and the unload of the plugin fall between    *)
(* any two of them.                                                        *)
(***************************************************************************)
EXTENDS Admission

CONSTANTS
  ObservedRuns,       \* runs started by tools the console only observes
  MaxObservedActive,  \* LedgerConfig.maxObservedActive
  HistoryLimit        \* LedgerConfig.historyLimit

ASSUME ObservedApart == ObservedRuns \cap Requests = {}
ASSUME ObservedBound == MaxObservedActive \in Nat \ {0}
ASSUME HistoryBound  == HistoryLimit \in Nat

VARIABLES
  stage,         \* where each call of startOwned stands
  provider,      \* the run of each call as the subagent runtime sees it
  ownedAborted,  \* calls whose fused ownedSignal has aborted
  attempt,       \* ledger: OwnedAttemptView by call
  run,           \* ledger: ObservedRunView by call or observed run
  history        \* ledger: finished records, oldest first

ledgerVars == <<attempt, run, history>>
callVars   == <<stage, provider, ownedAborted>>
vars       == <<admissionVars, callVars, ledgerVars>>

Stage ==
  {"idle",
   "admission",  \* awaiting acquire
   "starting",   \* awaiting the provider's start
   "lateRun",    \* start came back after the signal aborted: awaiting dispose
   "running",    \* the run is in its caller's hands
   "disposing",  \* awaiting the dispose the caller asked for
   "done"}

(* A settled attempt is named by its outcome; "lifecycle-missing" is the   *)
(* one the code shows as state unknown, the others as not-published.       *)
Outcome == {"queue-full", "cancelled-before-publication", "start-failed",
            "lifecycle-missing"}
AttemptState == {"absent", "queued", "starting"} \cup Outcome
RunState     == {"absent", "active", "ended"}
RunIds       == Requests \cup ObservedRuns

AttemptRecord(r) == <<"attempt", r>>
RunRecord(x)     == <<"run", x>>

(* The ownedSignal of the call exists and has not been disposed. *)
Linked(r) == stage[r] \in {"starting", "lateRun", "running", "disposing"}

TypeOK ==
  /\ AdmissionTypeOK
  /\ stage \in [Requests -> Stage]
  /\ provider \in [Requests -> {"none", "launched", "published", "ended"}]
  /\ ownedAborted \subseteq Requests
  /\ attempt \in [Requests -> AttemptState]
  /\ run \in [RunIds -> RunState]
  /\ history \in Seq({"attempt", "run"} \X RunIds)

Init ==
  /\ AdmissionInit
  /\ stage = [r \in Requests |-> "idle"]
  /\ provider = [r \in Requests |-> "none"]
  /\ ownedAborted = {}
  /\ attempt = [r \in Requests |-> "absent"]
  /\ run = [x \in RunIds |-> "absent"]
  /\ history = <<>>

-----------------------------------------------------------------------------
(* The ledger's operations.                                                *)

(* trimSettled: the oldest finished records beyond the limit are deleted.  *)
Trimmed(finished) ==
  LET excess == IF Len(finished) > HistoryLimit
                THEN Len(finished) - HistoryLimit ELSE 0
  IN  [kept    |-> SubSeq(finished, excess + 1, Len(finished)),
       dropped |-> {finished[i] : i \in 1..excess}]

(* The records after one more of them finished: att and runs hold its new  *)
(* state, `record` is appended to the history.                             *)
Finish(att, runs, record) ==
  LET trim == Trimmed(Append(history, record))
  IN  /\ history' = trim.kept
      /\ attempt' = [r \in Requests |->
                      IF AttemptRecord(r) \in trim.dropped
                      THEN "absent" ELSE att[r]]
      /\ run' = [x \in RunIds |->
                  IF RunRecord(x) \in trim.dropped
                  THEN "absent" ELSE runs[x]]

SettleAttempt(r, outcome) ==
  \/ /\ attempt[r] \in {"queued", "starting"}
     /\ Finish([attempt EXCEPT ![r] = outcome], run, AttemptRecord(r))
  \/ /\ attempt[r] \notin {"queued", "starting"}
     /\ UNCHANGED ledgerVars

(* settle: the end edge of a run the ledger shows as active. *)
SettleRun(x) ==
  \/ /\ run[x] = "active"
     /\ Finish(attempt, [run EXCEPT ![x] = "ended"], RunRecord(x))
  \/ /\ run[x] # "active"
     /\ UNCHANGED ledgerVars

-----------------------------------------------------------------------------
(* startOwned, one action per segment between two awaits.                  *)

(* createAttempt, then acquire up to its promise. *)
StartOwned(r) ==
  /\ stage[r] = "idle"
  /\ Acquire(r)
  /\ stage' = [stage EXCEPT ![r] = "admission"]
  /\ attempt' = [attempt EXCEPT ![r] = "queued"]
  /\ UNCHANGED <<provider, ownedAborted, run, history>>

AdmissionRejected(r) ==
  /\ stage[r] = "admission"
  /\ grant[r] \in {"full", "cancelled"}
  /\ SettleAttempt(r, IF grant[r] = "full" THEN "queue-full"
                      ELSE "cancelled-before-publication")
  /\ stage' = [stage EXCEPT ![r] = "done"]
  /\ UNCHANGED <<admissionVars, provider, ownedAborted>>

(* Mutated: the attempt is left pending. *)
AdmittedTooLateUnsettled(r) ==
  /\ stage[r] = "admission"
  /\ r \in aborted
  /\ Release(r)
  /\ stage' = [stage EXCEPT ![r] = "done"]
  /\ UNCHANGED <<provider, ownedAborted, ledgerVars>>

(* Granted, but the signal aborted before the continuation ran. *)
AdmittedTooLate(r) ==
  /\ stage[r] = "admission"
  /\ r \in aborted
  /\ Release(r)
  /\ SettleAttempt(r, "cancelled-before-publication")
  /\ stage' = [stage EXCEPT ![r] = "done"]
  /\ UNCHANGED <<provider, ownedAborted>>

(* ownedSignal, markStarting and the call of start. *)
BeginStart(r) ==
  /\ stage[r] = "admission"
  /\ grant[r] = "held"
  /\ r \notin aborted
  /\ stage' = [stage EXCEPT ![r] = "starting"]
  /\ provider' = [provider EXCEPT ![r] = "launched"]
  /\ attempt' = [attempt EXCEPT ![r] = IF @ = "queued" THEN "starting" ELSE @]
  /\ UNCHANGED <<admissionVars, ownedAborted, run, history>>

(* Mutated: the failed start keeps its permit. *)
StartThrowsWithPermit(r) ==
  /\ stage[r] = "starting"
  /\ SettleAttempt(r, IF r \in ownedAborted
                      THEN "cancelled-before-publication" ELSE "start-failed")
  /\ stage' = [stage EXCEPT ![r] = "done"]
  /\ UNCHANGED <<admissionVars, provider, ownedAborted>>

StartThrows(r) ==
  /\ stage[r] = "starting"
  /\ SettleAttempt(r, IF r \in ownedAborted
                      THEN "cancelled-before-publication" ELSE "start-failed")
  /\ Release(r)
  /\ stage' = [stage EXCEPT ![r] = "done"]
  /\ UNCHANGED <<provider, ownedAborted>>

StartReturnsLate(r) ==
  /\ stage[r] = "starting"
  /\ r \in ownedAborted
  /\ stage' = [stage EXCEPT ![r] = "lateRun"]
  /\ UNCHANGED <<admissionVars, provider, ownedAborted, ledgerVars>>

(* Mutated: the dispose of a late run does not release. *)
LateRunKeepsPermit(r) ==
  /\ stage[r] = "lateRun"
  /\ SettleAttempt(r, "cancelled-before-publication")
  /\ stage' = [stage EXCEPT ![r] = "done"]
  /\ UNCHANGED <<admissionVars, provider, ownedAborted>>

(* The late run's dispose settled, either way. *)
LateRunDisposed(r) ==
  /\ stage[r] = "lateRun"
  /\ \/ /\ run[r] = "absent"
        /\ SettleAttempt(r, "cancelled-before-publication")
     \/ /\ run[r] # "absent"
        /\ UNCHANGED ledgerVars
  /\ Release(r)
  /\ stage' = [stage EXCEPT ![r] = "done"]
  /\ UNCHANGED <<provider, ownedAborted>>

StartReturns(r) ==
  /\ stage[r] = "starting"
  /\ r \notin ownedAborted
  /\ \/ /\ run[r] = "absent"
        /\ SettleAttempt(r, "lifecycle-missing")
     \/ /\ run[r] # "absent"
        /\ UNCHANGED ledgerVars
  /\ stage' = [stage EXCEPT ![r] = "running"]
  /\ UNCHANGED <<admissionVars, provider, ownedAborted>>

(* The wrapped dispose: its first call starts, later ones do nothing. *)
CallerDisposes(r) ==
  /\ stage[r] = "running"
  /\ stage' = [stage EXCEPT ![r] = "disposing"]
  /\ UNCHANGED <<admissionVars, provider, ownedAborted, ledgerVars>>

RunDisposed(r) ==
  /\ stage[r] = "disposing"
  /\ Release(r)
  /\ stage' = [stage EXCEPT ![r] = "done"]
  /\ UNCHANGED <<provider, ownedAborted, ledgerVars>>

-----------------------------------------------------------------------------
(* The subagent runtime's lifecycle edges, delivered whenever it likes     *)
(* once the run was launched, also after startOwned gave it up.            *)

(* Mutated: the replaced attempt stays in the history. *)
RunPublishedKeepsHistory(r) ==
  /\ provider[r] = "launched"
  /\ provider' = [provider EXCEPT ![r] = "published"]
  /\ attempt' = [attempt EXCEPT ![r] = "absent"]
  /\ run' = [run EXCEPT ![r] = "active"]
  /\ UNCHANGED <<admissionVars, stage, ownedAborted, history>>

(* publish of an owned run: its attempt, settled or not, is replaced. *)
RunPublished(r) ==
  /\ provider[r] = "launched"
  /\ provider' = [provider EXCEPT ![r] = "published"]
  /\ attempt' = [attempt EXCEPT ![r] = "absent"]
  /\ run' = [run EXCEPT ![r] = "active"]
  /\ IF attempt[r] \in Outcome
     THEN \E i \in 1..Len(history) :
            /\ history[i] = AttemptRecord(r)
            /\ history' = Without(history, i)
     ELSE UNCHANGED history
  /\ UNCHANGED <<admissionVars, stage, ownedAborted>>

RunEnded(r) ==
  /\ provider[r] = "published"
  /\ provider' = [provider EXCEPT ![r] = "ended"]
  /\ SettleRun(r)
  /\ UNCHANGED <<admissionVars, stage, ownedAborted>>

(* publish of a run some other tool started: dropped at capacity.  A run   *)
(* once dropped or trimmed may stand for another one that starts later.    *)
ObservedActive == {o \in ObservedRuns : run[o] = "active"}

ObservedPublished(o) ==
  /\ run[o] = "absent"
  /\ Cardinality(ObservedActive) < MaxObservedActive
  /\ run' = [run EXCEPT ![o] = "active"]
  /\ UNCHANGED <<admissionVars, callVars, attempt, history>>

ObservedEnded(o) ==
  /\ SettleRun(o)
  /\ UNCHANGED <<admissionVars, callVars>>

-----------------------------------------------------------------------------
(* Cancellation.                                                           *)

CallerAborts(r) ==
  /\ Abort(r)
  /\ ownedAborted' = IF Linked(r) THEN ownedAborted \cup {r} ELSE ownedAborted
  /\ UNCHANGED <<stage, provider, ledgerVars>>

(* runTimeoutMs elapsed. *)
RunTimesOut(r) ==
  /\ Linked(r) /\ r \notin ownedAborted
  /\ ownedAborted' = ownedAborted \cup {r}
  /\ UNCHANGED <<admissionVars, stage, provider, ledgerVars>>

(* The plugin unloads: close the controller, abort every ownedController.  *)
Unload ==
  /\ Close
  /\ ownedAborted' = ownedAborted \cup {r \in Requests : Linked(r)}
  /\ UNCHANGED <<stage, provider, ledgerVars>>

-----------------------------------------------------------------------------
Finished(r) == stage[r] = "done" /\ provider[r] \in {"none", "launched", "ended"}

(* Every call is over: nothing is left to happen. *)
Quiet ==
  /\ \A r \in Requests : Finished(r)
  /\ UNCHANGED vars

Segment(r) ==
  \/ AdmissionRejected(r) \/ AdmittedTooLate(r) \/ BeginStart(r)
  \/ StartThrows(r) \/ StartReturnsLate(r) \/ LateRunDisposed(r)
  \/ StartReturns(r) \/ CallerDisposes(r) \/ RunDisposed(r)

Next ==
  \/ \E r \in Requests :
       StartOwned(r) \/ Segment(r) \/ RunPublished(r) \/ RunEnded(r)
         \/ CallerAborts(r) \/ RunTimesOut(r)
  \/ \E o \in ObservedRuns : ObservedPublished(o) \/ ObservedEnded(o)
  \/ Unload
  \/ Quiet

Spec == Init /\ [][Next]_vars

(* Settled promises run their continuations; a provider settles start and  *)
(* dispose; the tools dispose every run they were given (settleForeground, *)
(* settleRun).  Nothing is assumed of callers, signals or lifecycle edges. *)
FairSpec == Spec /\ \A r \in Requests : WF_vars(Segment(r))

-----------------------------------------------------------------------------
(* Every path out of startOwned gives the permit back exactly when the     *)
(* call is over, and none holds one before admission: a call occupies a    *)
(* permit precisely while its run may be alive.                            *)
PermitFollowsCall ==
  \A r \in Requests :
    /\ Linked(r) => grant[r] = "held"
    /\ stage[r] = "done" => grant[r] \in {"released", "full", "cancelled"}

(* The ledger shows a pending attempt for exactly the calls that wait for  *)
(* admission or for the provider: no zombie card after a call ended, and   *)
(* no call in flight without one until its run is published.  An attempt   *)
(* is never shown beside its run (assertIntegrity), also when the start    *)
(* edge arrives after the attempt was settled.                             *)
AttemptTracksCall ==
  \A r \in Requests :
    /\ attempt[r] = "queued" <=> stage[r] = "admission"
    /\ attempt[r] = "starting" <=> /\ stage[r] \in {"starting", "lateRun"}
                                   /\ provider[r] = "launched"
    /\ attempt[r] # "absent" => run[r] = "absent"

(* The history lists the finished records, each once, and stays within its *)
(* limit: trimming removes no live record and leaks no finished one.       *)
HistoryIsTheFinished ==
  /\ Len(history) <= HistoryLimit
  /\ \A i, j \in 1..Len(history) : history[i] = history[j] => i = j
  /\ {history[i] : i \in 1..Len(history)} =
       {AttemptRecord(r) : r \in {q \in Requests : attempt[q] \in Outcome}}
       \cup {RunRecord(x) : x \in {y \in RunIds : run[y] = "ended"}}

(* A call that asked for admission comes to an end: no permit is lost to   *)
(* an abort, a failed start, a late run or the unload, and no waiter is    *)
(* forgotten in the queue.                                                 *)
EveryCallEnds ==
  \A r \in Requests : stage[r] = "admission" ~> stage[r] = "done"
=============================================================================
