----------------------------- MODULE Conformance -----------------------------
(***************************************************************************)
(* How far an execution followed its plan: the findings and the state of   *)
(* each task (src/src/conformance.ts), and what a recovery would have to   *)
(* repeat and may reuse (src/src/recovery.ts).                             *)
(*                                                                         *)
(* The configuration of an event is copied from the role it is compared    *)
(* with and an attempt is bound to a planned task only, so the findings    *)
(* configuration-drift and unexpected-actual are left out.                 *)
(***************************************************************************)
EXTENDS ExecutionRecord

Finding(code, severity, certainty, t) ==
  [code |-> code, severity |-> severity, certainty |-> certainty, task |-> t]

Found(condition, code, severity, certainty, t) ==
  IF condition THEN {Finding(code, severity, certainty, t)} ELSE {}

Has(events, kind, t) == \E n \in DOMAIN events : events[n].kind = kind /\ events[n].task = t

(* Mutated: the result of a receipt is not looked at. *)
ReceiptAnyhow(record, t, v, result) ==
  \E r \in {"pass", "fail", "unknown"} :
    Receipt(t, v, r) \in record.receipts /\ Has(record.trail, "terminal", t)

(* The receipts the trail can vouch for: their child-terminal is in it. *)
With(record, t, v, result) ==
  Receipt(t, v, result) \in record.receipts /\ Has(record.trail, "terminal", t)

Required(p, t) == {v \in Named(p.tasks, t).verifiers : v.required}

LifecycleFindings(held, events, t) ==
  Found(Ended(held.snapshot) /\ ~Over(held, t),
        "lifecycle-incomplete", "blocking", "proven", t)
  \cup Found(StatusOf(held, t) = "skipped", "missing-planned", "warning", "proven", t)
  \cup Found(StatusOf(held, t) \in {"failed", "cancelled", "rejected"},
             "attempt-unsuccessful", "blocking",
             IF Has(events, "terminal", t)
                \/ \E n \in DOMAIN events :
                     /\ events[n].kind = "attempt" /\ events[n].task = t
                     /\ events[n].status \in TerminalAttempt
             THEN "proven" ELSE "derived", t)

DependencyFindings(p, held, t) ==
  Found(/\ held.began[t] # Unset
        /\ \E d \in Deps(Named(p.tasks, t)) :
             ~(StatusOf(held, d) = "completed" /\ held.ended[d] # Unset
               /\ held.ended[d] <= held.began[t]),
        "order-violation", "blocking", "derived", t)

EvidenceFindings(p, held, record, t) ==
  IF StatusOf(held, t) # "completed" THEN {}
  ELSE UNION {Found(With(record, t, v, "fail"), "verifier-failed", "blocking", "proven", t)
              \cup Found(~With(record, t, v, "fail") /\ ~With(record, t, v, "pass"),
                         "evidence-missing", "warning", "proven", t)
              : v \in Required(p, t)}

(* One finding for each code and node, although a task may break its       *)
(* order, or lack evidence, more than once.                                *)
Findings(p, held, record) ==
  Found(Has(record.trail, "published", NoTask), "unbound-actual", "warning", "proven", NoTask)
  \cup UNION {IF ~Bound(held, t)
              THEN Found(Ended(held.snapshot), "missing-planned", "blocking", "proven", t)
              ELSE LifecycleFindings(held, record.trail, t)
                   \cup DependencyFindings(p, held, t)
                   \cup EvidenceFindings(p, held, record, t)
              : t \in Tasks}

-----------------------------------------------------------------------------
(* The report.                                                             *)

EvidenceStatus(p, held, record, t) ==
  IF Required(p, t) = {} THEN "not-required"
  ELSE IF \E v \in Required(p, t) : With(record, t, v, "fail") THEN "failed"
  ELSE IF \A v \in Required(p, t) : With(record, t, v, "pass") THEN "verified"
  ELSE IF StatusOf(held, t) = "completed" THEN "missing" ELSE "unknown"

(* An attempt that still runs is taken for confirmed. *)
TaskState(held, findings, t) ==
  IF \E f \in findings : f.task = t /\ f.severity # "info" THEN "deviated"
  ELSE IF ~Bound(held, t) THEN IF Ended(held.snapshot) THEN "deviated" ELSE "unknown"
  ELSE IF StatusOf(held, t) = "unknown" THEN "unknown"
  ELSE IF StatusOf(held, t) \in {"failed", "cancelled", "rejected", "skipped"} THEN "deviated"
  ELSE "confirmed"

ReportOf(p, held, record) ==
  LET findings == Findings(p, held, record)
      states == [t \in Tasks |-> TaskState(held, findings, t)]
  IN  [findings |-> findings,
       tasks |-> states,
       evidence |-> [t \in Tasks |-> EvidenceStatus(p, held, record, t)],
       state |-> IF \/ \E f \in findings : f.severity # "info"
                    \/ \E t \in Tasks : states[t] = "deviated" THEN "deviated"
                 ELSE IF \A t \in Tasks : states[t] = "confirmed" THEN "confirmed"
                 ELSE "unknown"]

-----------------------------------------------------------------------------
(* The recovery proposal.                                                  *)

(* Mutated: only the tasks that deviated themselves. *)
AffectedAlone(p, report) == {f.task : f \in report.findings} \cap Tasks

(* affectedClosure: tasks with a finding and whatever depends on them. *)
Affected(p, report) ==
  LET spread[k \in 0..Cardinality(Tasks)] ==
        IF k = 0 THEN {f.task : f \in report.findings} \cap Tasks
        ELSE spread[k - 1]
             \cup {t \in Tasks : Deps(Named(p.tasks, t)) \cap spread[k - 1] # {}}
  IN  spread[Cardinality(Tasks)]

Reusable(p, held, report, record) ==
  {t \in Tasks \ Affected(p, report) :
     /\ report.tasks[t] = "confirmed"
     /\ StatusOf(held, t) = "completed"
     /\ IF Required(p, t) = {} THEN report.evidence[t] = "not-required"
        ELSE /\ report.evidence[t] = "verified"
             /\ \A v \in Required(p, t) : With(record, t, v, "pass")}

(* recoveryAction: the backend supports neither retry nor fork, and only a *)
(* task without effect, or with one that may be repeated in a scope it     *)
(* names, is safe.                                                         *)
Action(p, held, t) ==
  LET effect == Named(p.tasks, t).effect
      safe == effect = "pure" \/ (effect = "idempotent" /\ Named(p.tasks, t).scoped)
  IN  [task |-> t,
       kind |-> IF effect = "irreversible" \/ (effect = "compensatable" /\ Bound(held, t))
                THEN "fork" ELSE "retry",
       safe |-> safe,
       allowed |-> FALSE,
       reason |-> IF safe THEN "backend-unsupported" ELSE effect]

(* Each unbound Agent has a finding of its own, and all of them one        *)
(* identity (addFinding).  buildRecoveryProposal throws when two findings  *)
(* have the same, and nothing on its way out of foundrySnapshot catches.   *)
FindingsAreDistinct(record) ==
  \A m, n \in DOMAIN record.trail :
    /\ record.trail[m].kind = "published" /\ record.trail[m].task = NoTask
    /\ record.trail[n].kind = "published" /\ record.trail[n].task = NoTask
    => m = n

Proposal(p, held, report, record) ==
  [affected |-> Affected(p, report),
   reusable |-> Reusable(p, held, report, record),
   actions |-> {Action(p, held, t) : t \in Affected(p, report)}]
=============================================================================
