-------------------------- MODULE ExecutionLifecycle --------------------------
(***************************************************************************)
(* What a plan execution promises whoever watches it, whichever adapter    *)
(* runs it: it appears queued and without attempts, its history is never   *)
(* rewritten, and once it has ended it never changes again, not even by an *)
(* attempt that reports late.  PlanExecutionSnapshotRepository.upsert and  *)
(* the ledger's recordExecutionSnapshot refuse anything else.              *)
(***************************************************************************)
EXTENDS PlanTransitions

VARIABLE recorded   \* the snapshot a watcher sees

Init == recorded = Absent

Prepare == recorded = Absent /\ recorded' = Queued

Advance ==
  /\ recorded # Absent
  /\ ~Ended(recorded)
  /\ Legal(recorded, recorded')

Next == Prepare \/ Advance

Spec == Init /\ [][Next]_recorded
=============================================================================
