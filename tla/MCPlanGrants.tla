----------------------------- MODULE MCPlanGrants -----------------------------
(* Two plans, of which the second needs one more event. *)
EXTENDS PlanGrants, TLC

CONSTANTS p1, p2

SmallEnvelope == (p1 :> 2) @@ (p2 :> 3)
=============================================================================
