------------------------- MODULE MCWorkflowExecution -------------------------
(* WorkflowExecution with two tasks and three engines: one is orderly and  *)
(* launches an Agent for each task; one publishes late and may launch a    *)
(* second Agent for the first task instead; both have a clock that stands  *)
(* still.  The third is orderly under a clock that moves: at any time with *)
(* one Agent, once and back with two.                                      *)
EXTENDS WorkflowExecution, TLC

CONSTANTS t1, t2, a1, a2, b1, b2, b3, c1, c2

ThreeEngines ==
  (a1 :> t1) @@ (a2 :> t2) @@ (b1 :> t1) @@ (b2 :> t2) @@ (b3 :> t1)
    @@ (c1 :> t1) @@ (c2 :> t2)

OrderlyEngine == SUBSET {a1, a2}
LateEngine == {{b1}, {b1, b2}, {b1, b3}}
UnsteadyEngine == {{c1}, {c1, c2}}
SteadyEngines == OrderlyEngine \cup LateEngine
AnyEngine == SteadyEngines \cup UnsteadyEngine

StepsOfTheClock ==
  [engine \in Launches |->
     IF engine \notin UnsteadyEngine THEN {}
     ELSE {step \in Times \X Times : engine = {c1} \/ step[2] < step[1]}]
=============================================================================
