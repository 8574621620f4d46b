--------------------------- MODULE HostCapabilities ---------------------------
(***************************************************************************)
(* executionCapabilities (src/src/index.ts): what a host can enforce,      *)
(* captured for one parent session before each preflight, approval and     *)
(* execution.                                                              *)
(*                                                                         *)
(* A host has the Subagent providers it registered, in order, the routes   *)
(* collectLlmRoutes found, its workflow adapter or none, its two limits    *)
(* and, if the parent Agent is live, the tools that Agent sees.  The 128   *)
(* providers and 1024 tools a snapshot may list are left out.              *)
(***************************************************************************)
EXTENDS Naturals, Sequences, FiniteSets

(* What executionCapabilitySnapshotSchema says, as far as it matters here. *)
IsHost(host) ==
  /\ host.providers \in Seq({host.providers[n] : n \in DOMAIN host.providers})
  /\ \A n \in DOMAIN host.providers :
       {host.providers[n].inherits, host.providers[n].outputSchema} \subseteq BOOLEAN
  /\ {host.adapter, host.live} \subseteq BOOLEAN
  /\ host.maxAgents \in 1..32 /\ host.maxConcurrent \in 1..16

(* The first provider of each name; one without a usable name is skipped.  *)
TransportsOf(providers) ==
  {[name |-> providers[n].name, inherits |-> providers[n].inherits,
    outputSchema |-> providers[n].outputSchema, toolFilter |-> providers[n].toolFilter,
    routing |-> "unsupported"] :
     n \in {m \in DOMAIN providers :
              /\ providers[m].name # "none"
              /\ \A k \in 1..(m - 1) : providers[k].name # providers[m].name}}

(* The planner's tools are those that were registered and are in scope.    *)
ToolsOf(host) == IF host.live THEN host.scopedTools ELSE {}

CapabilitiesOf(host) ==
  [live |-> host.live,
   executeTool |-> host.executeTools \cap ToolsOf(host) # {},
   workflow |-> host.adapter,
   agentTeam |-> FALSE, experimental |-> FALSE,
   transports |-> TransportsOf(host.providers),
   routes |-> host.routes,
   presets |-> {},
   tools |-> ToolsOf(host),
   effort |-> "unsupported",
   verifiers |-> [lifecycle |-> "enforced", schema |-> "unsupported",
                  test |-> "unsupported", manual |-> "unsupported"],
   budget |-> [maxAgents |-> "enforced", maxConcurrent |-> "enforced",
               planTimeout |-> "enforced", requests |-> "advisory",
               tokens |-> "advisory", cost |-> "unsupported"],
   maxAgents |-> host.maxAgents, maxConcurrent |-> host.maxConcurrent]
=============================================================================
