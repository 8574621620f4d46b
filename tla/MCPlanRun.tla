------------------------------ MODULE MCPlanRun ------------------------------
EXTENDS PlanRun

OneAgentEach == [c \in Agents |-> CASE c = "a1" -> "t1" [] c = "a2" -> "t2" [] c = "a3" -> "t3"]

LowerCase == [s \in {"src", "SRC", "lib"} |-> IF s = "SRC" THEN "src" ELSE s]

Worker == [id |-> "r1", transport |-> "dsh", llm |-> "none", model |-> "none",
           preset |-> "none", effort |-> "none", context |-> "fork", policy |-> "inherit",
           tools |-> {}]

Lifecycles == {[kind |-> "lifecycle", required |-> TRUE]}

Task(id, deps) ==
  [id |-> id, role |-> "r1", deps |-> deps, claims |-> {}, approval |-> FALSE,
   schema |-> "none", hint |-> FALSE, verifiers |-> {}, effect |-> "pure",
   scoped |-> FALSE]

Plan(tasks, concurrent) ==
  [roles |-> <<Worker>>, tasks |-> tasks, pattern |-> "dag", preference |-> "auto",
   maxAgents |-> 3, maxConcurrent |-> concurrent, asks |-> {}, multiAgent |-> TRUE,
   override |-> FALSE, alternative |-> TRUE]

(* A diamond cut open, a wave of three in two batches, and a join.         *)
Chain == Plan(<<Task("t3", <<"t2">>), Task("t1", <<>>),
                [Task("t2", <<"t1">>) EXCEPT !.verifiers = Lifecycles]>>, 2)
Wave == Plan(<<[Task("t1", <<>>) EXCEPT !.claims = {<<"src">>}, !.verifiers = Lifecycles],
               [Task("t2", <<>>) EXCEPT !.claims = {<<"lib">>}],
               Task("t3", <<>>)>>, 2)
Join == Plan(<<[Task("t1", <<>>) EXCEPT !.claims = {<<"src">>}], Task("t2", <<>>),
               [Task("t3", <<"t1", "t2">>) EXCEPT !.claims = {<<"SRC", "lib">>},
                  !.verifiers = Lifecycles, !.effect = "irreversible"]>>, 2)

InTask(p, n, f) == [p EXCEPT !.tasks[n] = f]

(* One field at a time taken to what preflight has an opinion on. *)
RoleVariants ==
  {[Worker EXCEPT !.transport = "other"], [Worker EXCEPT !.context = "fresh"],
   [Worker EXCEPT !.llm = "acme"], [Worker EXCEPT !.llm = "gone"],
   [Worker EXCEPT !.model = "m1"], [Worker EXCEPT !.llm = "acme", !.model = "m2"],
   [Worker EXCEPT !.preset = "p"], [Worker EXCEPT !.effort = "high"],
   [Worker EXCEPT !.policy = "allowlist", !.tools = {"read"}], [Worker EXCEPT !.policy = "allowlist", !.tools = {"write"}]}

TaskVariants(t) ==
  {[t EXCEPT !.role = "r9"], [t EXCEPT !.deps = <<t.id>>], [t EXCEPT !.deps = <<"t9">>],
   [t EXCEPT !.deps = <<"t2", "t2">>], [t EXCEPT !.approval = TRUE],
   [t EXCEPT !.schema = "good"], [t EXCEPT !.schema = "bad"], [t EXCEPT !.hint = TRUE],
   [t EXCEPT !.verifiers = {[kind |-> "test", required |-> FALSE]}],
   [t EXCEPT !.claims = {<<"lib", "src">>}], [t EXCEPT !.claims = {<<>>}],
   [t EXCEPT !.id = "t2"], [t EXCEPT !.deps = <<"t3">>]}

PlanVariants(p) ==
  {[p EXCEPT !.preference = "agent-team"], [p EXCEPT !.pattern = "peer-team"],
   [p EXCEPT !.maxAgents = 2], [p EXCEPT !.maxAgents = 32], [p EXCEPT !.maxConcurrent = 16],
   [p EXCEPT !.asks = {"cost"}], [p EXCEPT !.multiAgent = FALSE],
   [p EXCEPT !.roles = <<Worker, Worker>>],
   [p EXCEPT !.roles = <<Worker, [Worker EXCEPT !.id = "r2", !.transport = "other"]>>]}

Host == [providers |-> <<[name |-> "dsh", inherits |-> TRUE, outputSchema |-> FALSE,
                          toolFilter |-> FALSE],
                         [name |-> "dsh", inherits |-> FALSE, outputSchema |-> TRUE,
                          toolFilter |-> TRUE]>>,
         routes |-> {[provider |-> "acme", models |-> {"m1"}, catalog |-> "incomplete"]},
         adapter |-> TRUE, live |-> TRUE, scopedTools |-> {"run", "read"},
         executeTools |-> {"run"}, maxAgents |-> 8, maxConcurrent |-> 2]

Case(p, host, kinds) ==
  [plan |-> p, host |-> host,
   faults |-> [kind \in FaultKinds |-> IF kind \in kinds THEN 1 ELSE 0]]

Twice(case, kind) == [case EXCEPT !.faults[kind] = 2]

Runs ==
  {Case(Chain, Host, {"lost", "stop"}), Twice(Case(Chain, Host, {}), "stray"), Case(Chain, Host, {"refused", "cancel"}),
   Twice(Case(Chain, Host, {}), "stop"), Case(Chain, Host, {"stray", "stop"}), Case(Wave, Host, {"refused"}),
   Case(Wave, Host, {"lost"}), Case(Join, Host, {"lost", "stop"}),
   Case(Join, Host, {"stop", "cancel"}), Case(Chain, Host, {"clock", "stop"})}

(* Every graph of three tasks, and the variants of the plans and hosts.    *)
Graphs ==
  {Plan(<<Task("t1", SetToSeq(d1)), Task("t2", SetToSeq(d2)), Task("t3", SetToSeq(d3))>>, 2) :
     d1 \in SUBSET {"t2", "t3"}, d2 \in SUBSET {"t1", "t3"}, d3 \in SUBSET {"t1", "t2"}}

Variants ==
  {[Wave EXCEPT !.roles = <<r>>] : r \in RoleVariants}
  \cup {InTask(Wave, 1, t) : t \in TaskVariants(Wave.tasks[1])}
  \cup {InTask(Join, 1, t) : t \in TaskVariants(Join.tasks[1])}
  \cup PlanVariants(Join)

OtherHosts ==
  {[Host EXCEPT !.adapter = FALSE], [Host EXCEPT !.live = FALSE],
   [Host EXCEPT !.scopedTools = {"read"}], [Host EXCEPT !.maxConcurrent = 1]}

AllCases ==
  Runs \cup {Case(p, Host, {}) : p \in Variants \cup Graphs}
       \cup {Case(Join, h, {}) : h \in OtherHosts}
=============================================================================
