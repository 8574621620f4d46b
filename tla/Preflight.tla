------------------------------ MODULE Preflight ------------------------------
(***************************************************************************)
(* preflightAgentPlan (src/src/plan-preflight.ts): the diagnostics of one  *)
(* plan revision against one capability snapshot; and validateStart of the *)
(* workflow adapter, which looks at the same plan once more before it      *)
(* starts.  A diagnostic is its severity, its code and the nodes it names; *)
(* an error blocks.                                                        *)
(***************************************************************************)
EXTENDS PlanShape

Diagnostic(severity, code, nodes) ==
  [severity |-> severity, code |-> code, nodes |-> nodes]

(* The diagnostics for which the condition holds. *)
When(condition, severity, code, nodes) ==
  IF condition THEN {Diagnostic(severity, code, nodes)} ELSE {}

SeverityOf(support) ==
  CASE support = "enforced" -> "info"
    [] support = "advisory" -> "warning"
    [] OTHER -> "error"

Duplicates(list) ==
  {id \in Ids(list) : Cardinality({n \in DOMAIN list : list[n].id = id}) > 1}

ResolveBackend(p, caps) ==
  IF p.preference # "auto" THEN p.preference
  ELSE IF p.pattern = "peer-team" /\ caps.agentTeam THEN "agent-team"
  ELSE IF caps.workflow \/ ~caps.agentTeam THEN "workflow" ELSE "agent-team"

Transport(caps, name) == {t \in caps.transports : t.name = name}
Route(caps, provider) == {r \in caps.routes : r.provider = provider}

(* The Agent that would run the plan, and whether its preset has the tool. *)
ScopeDiagnostics(caps) ==
  When(~caps.live, "error", "planner.agent-scope-unavailable", {})
  \cup When(caps.live /\ ~caps.executeTool, "error", "planner.execution-tool-unavailable", {})

EdgeCount(p) == FoldLeft(LAMBDA sum, t : sum + Len(t.deps), 0, p.tasks)

ShapeDiagnostics(p) ==
  When(EdgeCount(p) > MaxEdges, "error", "plan.too-many-edges", {}) \cup
  {Diagnostic("error", "role.duplicate-id", {id}) : id \in Duplicates(p.roles)}
  \cup {Diagnostic("error", "task.duplicate-id", {id}) : id \in Duplicates(p.tasks)}

(* The transport, model, preset, effort and tools of one role. *)
TransportDiagnostics(r, caps) ==
  IF Transport(caps, r.transport) = {}
  THEN {Diagnostic("error", "provider.transport-unavailable", {r.id})}
  ELSE UNION {When(r.context = "fork" /\ ~t.inherits,
                   "error", "provider.context-fork-unsupported", {r.id})
              \cup When(r.context = "fresh" /\ t.inherits,
                        "error", "provider.fresh-context-unsupported", {r.id})
              \cup When(r.policy = "allowlist" /\ ~t.toolFilter,
                        "error", "tool.allowlist-unsupported", {r.id})
             : t \in Transport(caps, r.transport)}

ModelDiagnostics(r, caps) ==
  IF r.llm = "none"
  THEN When(r.model # "none", "error", "provider.model-without-llm-provider", {r.id})
  ELSE IF Route(caps, r.llm) = {}
  THEN {Diagnostic("error", "provider.llm-unavailable", {r.id})}
  ELSE UNION {When(r.model # "none" /\ r.model \notin route.models,
                   IF route.catalog = "incomplete" THEN "error" ELSE "warning",
                   "provider.model-" \o route.catalog, {r.id})
              : route \in Route(caps, r.llm)}

RoleDiagnostics(r, caps) ==
  TransportDiagnostics(r, caps) \cup ModelDiagnostics(r, caps)
  \cup When(r.preset # "none" /\ r.preset \notin caps.presets,
            "error", "preset.unavailable", {r.id})
  \cup When(r.effort \notin {"none", "unknown"},
            SeverityOf(caps.effort), "role.reasoning-effort", {r.id})
  \cup When(r.policy = "allowlist" /\ ~caps.live, "error", "tool.agent-scope-unavailable", {r.id})
  \cup When(~(r.tools \subseteq caps.tools),
            "error", "tool.unavailable", {r.id})

DependencyDiagnostics(p, t) ==
  When(t.role \notin Ids(p.roles), "error", "task.role-missing", {t.id, t.role})
  \cup When(t.id \in Deps(t), "error", "task.self-dependency", {t.id})
  \cup {Diagnostic("error", "task.dependency-missing", {t.id, d}) :
          d \in Deps(t) \ Ids(p.tasks)}
  \cup {Diagnostic("error", "task.dependency-duplicate", {t.id, d}) :
          d \in {e \in Deps(t) :
                   Cardinality({n \in DOMAIN t.deps : t.deps[n] = e}) > 1}}

(* An optional verifier the host cannot run is refused as well, unless it  *)
(* is advisory or unknown.                                                 *)
VerifierDiagnostics(t, caps) ==
  UNION {When(caps.verifiers[v.kind] # "enforced",
              IF v.required \/ caps.verifiers[v.kind] = "unsupported"
              THEN "error" ELSE "warning",
              "task.verifier-" \o v.kind, {t.id}) : v \in t.verifiers}

(* outputSchemaError: "bad" is outside the subset the engine accepts. *)
TaskDiagnostics(p, t, caps) ==
  DependencyDiagnostics(p, t) \cup VerifierDiagnostics(t, caps)
  \cup When(t.approval, "error", "task.runtime-approval-unsupported", {t.id})
  \cup When(t.hint, "error", "task.budget-hint-unsupported", {t.id})
  \cup When(t.schema = "bad", "error", "task.output-schema-invalid", {t.id})
  \cup When(/\ t.schema = "good" /\ t.role \in Ids(p.roles)
            /\ \E c \in Transport(caps, Named(p.roles, t.role).transport) : ~c.outputSchema,
            "error", "task.output-schema-unsupported", {t.id})

(* The pairs of different tasks that are in one wave. *)
Parallel(p) ==
  {pair \in TasksOf(p) \X TasksOf(p) :
     /\ pair[1] # pair[2]
     /\ \E w \in ToSet(ParallelWaves(p)) : {pair[1].id, pair[2].id} \subseteq ToSet(w)}

ParallelWriteConflict(pair) ==
  Diagnostic("error", "task.parallel-write-conflict", {pair[1].id, pair[2].id})

(* Mutated: only equal scopes are taken for a conflict. *)
ConflictsBetweenEquals(p) ==
  {ParallelWriteConflict(pair) :
     pair \in {both \in Parallel(p) : both[1].claims \cap both[2].claims # {}}}

(* Two tasks of one wave that may write to the same place. *)
ConflictDiagnostics(p) ==
  {ParallelWriteConflict(pair) :
     pair \in {both \in Parallel(p) : Conflict(both[1], both[2])}}

Sinks(p) == {id \in Ids(p.tasks) : \A t \in TasksOf(p) : id \notin Deps(t)}

(* The graph as a whole. *)
GraphDiagnostics(p) ==
  ConflictDiagnostics(p)
  \cup When(Len(FlattenSeq(ParallelWaves(p))) # Cardinality(Ids(p.tasks)),
            "error", "plan.cycle", Ids(p.tasks) \ Scheduled(p))
  \cup When(Cardinality(Sinks(p)) > 1, "warning", "plan.multiple-unconsumed-results", Sinks(p))
  \cup When(Len(p.tasks) > 1 /\ \A w \in ToSet(ParallelWaves(p)) : Len(w) = 1,
            "warning", "plan.no-parallelism", {})

(* supportDiagnostic: nothing to say of a budget that is enforced. *)
BudgetSupport(caps, field, requested) ==
  When(requested /\ caps.budget[field] # "enforced",
       IF caps.budget[field] = "unsupported" THEN "error" ELSE "warning",
       "budget." \o field, {})

BudgetDiagnostics(p, caps) ==
  When(Len(p.tasks) > p.maxAgents, "error", "budget.max-agents-exceeded", Ids(p.tasks))
  \cup When(p.maxAgents > caps.maxAgents, "error", "budget.host-max-agents-exceeded", {})
  \cup When(p.maxConcurrent > caps.maxConcurrent,
            "error", "budget.host-concurrency-exceeded", {})
  \cup (UNION {BudgetSupport(caps, f, TRUE) : f \in {"maxAgents", "maxConcurrent", "planTimeout"}})
  \cup UNION {BudgetSupport(caps, f, f \in p.asks) : f \in {"requests", "tokens", "cost"}}

RecommendationDiagnostics(p) ==
  When(~p.multiAgent /\ Len(p.tasks) > 1 /\ ~p.override,
       "error", "plan.multi-agent-not-recommended", {})
  \cup When(~p.multiAgent /\ p.override, "warning", "plan.multi-agent-user-override", {})
  \cup When(p.multiAgent /\ ~p.alternative,
            "warning", "plan.single-agent-alternative-missing", {})

(* A route is requested of a transport that has to enforce it. *)
Routing(r, caps) ==
  IF Transport(caps, r.transport) = {} THEN "unsupported"
  ELSE (CHOOSE t \in Transport(caps, r.transport) : TRUE).routing

WorkflowDiagnostics(p, caps) ==
  When(~caps.workflow, "error", "backend.workflow-unavailable", {})
  \cup When(p.pattern = "peer-team", "error", "backend.peer-team-requires-agent-team", {})
  \cup When(Cardinality({r.transport : r \in RolesOf(p)}) > 1,
            "error", "backend.workflow-mixed-transports", Ids(p.roles))
  \cup UNION {When(r.llm # "none" \/ r.model # "none", SeverityOf(Routing(r, caps)),
                   "backend.workflow-model-routing", {r.id})
              \cup When(r.preset # "none", "error", "backend.workflow-preset-unsupported", {r.id})
              \cup When(r.policy = "allowlist",
                        "error", "backend.workflow-tool-policy-unsupported", {r.id})
             : r \in RolesOf(p)}

TeamDiagnostics(p, caps) ==
  When(~caps.agentTeam \/ ~caps.experimental, "error", "backend.agent-team-unavailable", {})
  \cup {Diagnostic("error", "backend.agent-team-role-composition-unsupported", {r.id}) :
          r \in {s \in RolesOf(p) : s.llm # "none" \/ s.model # "none"
                                  \/ s.preset # "none" \/ s.policy = "allowlist"}}

Diagnostics(p, caps) ==
  ScopeDiagnostics(caps) \cup ShapeDiagnostics(p)
  \cup (UNION {RoleDiagnostics(r, caps) : r \in RolesOf(p)})
  \cup (UNION {TaskDiagnostics(p, t, caps) : t \in TasksOf(p)})
  \cup GraphDiagnostics(p) \cup BudgetDiagnostics(p, caps) \cup RecommendationDiagnostics(p)
  \cup IF ResolveBackend(p, caps) = "workflow"
       THEN WorkflowDiagnostics(p, caps) ELSE TeamDiagnostics(p, caps)

Valid(p, caps) == \A d \in Diagnostics(p, caps) : d.severity # "error"
Warnings(p, caps) == {d \in Diagnostics(p, caps) : d.severity = "warning"}

(* validateStart, given an approved plan and its preflight against the     *)
(* same capabilities.                                                      *)
StartAccepts(p, caps) ==
  /\ Valid(p, caps)
  /\ ResolveBackend(p, caps) = "workflow" /\ caps.workflow
  /\ \E t \in caps.transports :
       /\ \A r \in RolesOf(p) :
            /\ r.transport = t.name
            /\ r.preset = "none" /\ r.policy = "inherit"
            /\ r.context = "fork" <=> t.inherits
            /\ (r.llm # "none" \/ r.model # "none") => t.routing = "enforced"
       /\ \A u \in TasksOf(p) :
            ~u.approval /\ u.schema # "bad" /\ ~u.hint /\ (u.schema = "good" => t.outputSchema)
=============================================================================
