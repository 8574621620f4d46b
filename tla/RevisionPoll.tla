----------------------------- MODULE RevisionPoll -----------------------------
(***************************************************************************)
(* The long-poll by which a browser follows the plans of its session: the  *)
(* loop of the plan workbench (src/src/client/AgentPlanWorkbench.tsx) and  *)
(* waitForPlanRevision (src/src/index.ts).  The wait for executions is the *)
(* same; those for delegations and for runs return at once on any other    *)
(* revision, older or newer.                                               *)
(*                                                                         *)
(* What a host answers is its present snapshot, given by the caller.       *)
(***************************************************************************)
EXTENDS Naturals

CONSTANT Unanswered   \* no snapshot

VARIABLES
  host,      \* the host that runs: hosts are numbered as they start
  revision,  \* the revision of its plan repository
  poll       \* the one request of the loop

Off == [phase |-> "off", after |-> 0, reply |-> Unanswered]

Answered(snapshot) == [Off EXCEPT !.phase = "answered", !.reply = snapshot]

(* listPlans is answered at once. *)
ListPlans(snapshot) == poll' = Answered(snapshot)

(* Mutated: only a newer revision is taken for news. *)
NewsIfNewer(from, after) == revision > after

(* A browser that watched another host, or has seen a revision this one    *)
(* has not reached, is answered at once.                                   *)
News(from, after) == from # host \/ after > revision \/ revision > after

(* The browser asks for what comes after the snapshot it has.  The host    *)
(* compares, subscribes and compares again in one step, which is taken     *)
(* here with the sending: what is late is the answer.                      *)
WatchPlans(seen, snapshot) ==
  poll' = IF News(seen.host, seen.revision) THEN Answered(snapshot)
          ELSE [Off EXCEPT !.phase = "waiting", !.after = seen.revision]

(* The subscription's listener is called on a change. *)
PollWakes(snapshot) ==
  poll.phase = "waiting" /\ revision > poll.after /\ poll' = Answered(snapshot)

(* After 25 seconds the host answers with what it has. *)
Heartbeat(snapshot) == poll.phase = "waiting" /\ poll' = Answered(snapshot)
=============================================================================
