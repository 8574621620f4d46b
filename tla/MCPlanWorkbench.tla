--------------------------- MODULE MCPlanWorkbench ---------------------------
EXTENDS PlanWorkbench

None == [k \in Kinds |-> 0]
OnePlan == [None EXCEPT !.stored = 1]

(* Each row spends its own few events, so that they meet one another       *)
(* without all of them meeting at once.                                    *)
FewEvents ==
  {[None EXCEPT !.edits = 2, !.checks = 2, !.clicks = 2],
   [OnePlan EXCEPT !.edits = 1, !.elsewhere = 1, !.checks = 2],
   [OnePlan EXCEPT !.edits = 1, !.leaves = 1, !.checks = 2],
   [OnePlan EXCEPT !.edits = 1, !.losses = 1, !.checks = 2],
   [OnePlan EXCEPT !.edits = 1, !.leaves = 1, !.checks = 1, !.clicks = 3],
   [OnePlan EXCEPT !.losses = 1, !.changes = 1, !.checks = 1, !.clicks = 3],
   [OnePlan EXCEPT !.losses = 1, !.refreshes = 1, !.designs = 1, !.checks = 1],
   [OnePlan EXCEPT !.elsewhere = 1, !.changes = 1, !.checks = 2],
   [OnePlan EXCEPT !.expiries = 1, !.checks = 2, !.clicks = 2],
   [None EXCEPT !.expiries = 1, !.edits = 1, !.designs = 1],
   [OnePlan EXCEPT !.restarts = 1, !.elsewhere = 1, !.checks = 1]}
=============================================================================
