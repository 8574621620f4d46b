----------------------------- MODULE MCPlanStore -----------------------------
EXTENDS PlanStore, TLC

PlanSymmetry == Permutations(Contents) \cup Permutations(Digests)
=============================================================================
