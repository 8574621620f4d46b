------------------------------ MODULE PlanShape ------------------------------
(***************************************************************************)
(* A plan revision as preflight, the adapter and the fixed script read it, *)
(* the capabilities of the host, and the graph of the plan: its parallel   *)
(* waves and its overlapping write scopes (src/src/plan-types.ts,          *)
(* src/src/plan-preflight.ts).                                             *)
(*                                                                         *)
(* Names are model values or short strings.  A path is the sequence of its *)
(* segments, so "." is the empty one; a route is what a role asks of the   *)
(* model catalog.  Titles, briefs and criteria are left out.               *)
(***************************************************************************)
EXTENDS Naturals, Sequences, FiniteSets, SequencesExt

CONSTANTS
  Folded,   \* the segments and their lower case: [Segment -> Segment]
  MaxEdges  \* MAX_PLAN_EDGES

Support == {"enforced", "advisory", "unsupported", "unknown"}

(* The records of planRoleSchema, planTaskSchema and agentPlanContentSchema *)
(* that are named by Role, Task and Plan; "none" is an absent option.      *)
RoleFields ==
  {"id", "transport", "llm", "model", "preset", "effort", "context", "policy", "tools"}
TaskFields ==
  {"id", "role", "deps", "claims", "approval", "schema", "hint", "verifiers", "effect",
   "scoped"}
PlanFields ==
  {"roles", "tasks", "pattern", "preference", "maxAgents", "maxConcurrent",
   "asks", "multiAgent", "override", "alternative"}

IsList(list) == list # <<>> /\ list \in Seq(ToSet(list))

IsRole(r) ==
  /\ DOMAIN r = RoleFields
  /\ r.context \in {"fork", "fresh"} /\ r.policy \in {"inherit", "allowlist"}

IsTask(t) ==
  /\ DOMAIN t = TaskFields
  /\ t.deps \in Seq(ToSet(t.deps))
  /\ t.claims \subseteq Seq(DOMAIN Folded)
  /\ t.approval \in BOOLEAN /\ t.hint \in BOOLEAN /\ t.schema \in {"none", "good", "bad"}
  /\ IsFiniteSet(t.verifiers)
  /\ \A v \in t.verifiers :
       v.kind \in {"lifecycle", "schema", "test", "manual"} /\ v.required \in BOOLEAN

(* What parseAgentPlanRevision lets through, as far as it matters here. *)
IsPlan(p) ==
  /\ DOMAIN p = PlanFields
  /\ IsList(p.roles) /\ \A n \in DOMAIN p.roles : IsRole(p.roles[n])
  /\ IsList(p.tasks) /\ \A n \in DOMAIN p.tasks : IsTask(p.tasks[n])
  /\ p.preference \in {"auto", "workflow", "agent-team"}
  /\ p.maxAgents \in 1..32 /\ p.maxConcurrent \in 1..16
  /\ p.asks \subseteq {"requests", "tokens", "cost"}

TasksOf(p) == ToSet(p.tasks)
RolesOf(p) == ToSet(p.roles)
Ids(list) == {list[n].id : n \in DOMAIN list}

(* new Map(list): the last of several of one id. *)
Named(list, id) ==
  list[CHOOSE n \in DOMAIN list :
         list[n].id = id /\ \A m \in DOMAIN list : list[m].id = id => m <= n]

Deps(t) == ToSet(t.deps)

(* The dependencies of a task that are tasks of the plan. *)
KnownDeps(p, id) == Deps(Named(p.tasks, id)) \cap Ids(p.tasks)

(* Mutated: a task is ready as soon as one dependency is behind it. *)
ReadyOnAny(p, placed) ==
  {id \in Ids(p.tasks) \ placed :
     KnownDeps(p, id) = {} \/ KnownDeps(p, id) \cap placed # {}}

(* The tasks whose known dependencies are all placed. *)
Ready(p, placed) ==
  {id \in Ids(p.tasks) \ placed : KnownDeps(p, id) \subseteq placed}

(* The elements of a list that are in the set, in their order. *)
Only(list, set) ==
  LET kept[n \in 0..Len(list)] ==
        IF n = 0 THEN <<>>
        ELSE IF list[n] \in set THEN Append(kept[n - 1], list[n]) ELSE kept[n - 1]
  IN  kept[Len(list)]

IdsInOrder(p) == [n \in DOMAIN p.tasks |-> p.tasks[n].id]

(* The tasks that are behind the plan after each of so many waves.         *)
Placed(p) ==
  LET placed[k \in 0..Len(p.tasks)] ==
        IF k = 0 THEN {} ELSE placed[k - 1] \cup Ready(p, placed[k - 1])
  IN  placed

(* deriveParallelWaves: the ready tasks in plan order, wave after wave,    *)
(* until a cycle stops it.                                                 *)
ParallelWaves(p) ==
  LET ready(k) == Ready(p, Placed(p)[k - 1])
  IN  [k \in {n \in DOMAIN p.tasks : ready(n) # {}} |-> Only(IdsInOrder(p), ready(k))]

Scheduled(p) == UNION {ToSet(w) : w \in ToSet(ParallelWaves(p))}

(* normalizeScope and scopesOverlap. *)
ScopesOverlap(a, b) ==
  LET fold(path) == [n \in DOMAIN path |-> Folded[path[n]]]
  IN  IsPrefix(fold(a), fold(b)) \/ IsPrefix(fold(b), fold(a))

Conflict(t, u) == \E a \in t.claims, b \in u.claims : ScopesOverlap(a, b)
=============================================================================
