------------------------------ MODULE PlanStore -------------------------------
(***************************************************************************)
(* The revisions of one plan (src/src/plan-store.ts) and their record in   *)
(* the event ledger (src/src/event-ledger.ts), as savePlanDraft, the       *)
(* approval RPC and the start of the host use them (src/src/index.ts).     *)
(*                                                                         *)
(* saveDraft and approve change the repository at once; persistPlanRevisions *)
(* then gives the ledger one revision after the other, and the process may *)
(* end between any two of them.  Nothing else runs in between, because no  *)
(* promise is awaited.  The storage is ready: EventJournal covers the rest. *)
(***************************************************************************)
EXTENDS Naturals, Sequences, FiniteSets

CONSTANTS
  Contents,      \* what a draft may say
  Digests,       \* capability digests the host may report
  NoDigest,      \* a revision that is not approved has none
  MaxRevisions,  \* maxRevisionsPerPlan
  MaxClock       \* bound on Date.now (model only)

ASSUME NoDigestIsNone   == NoDigest \notin Digests
ASSUME MaxRevisionsType == MaxRevisions \in Nat \ {0}
ASSUME MaxClockType     == MaxClock \in Nat

VARIABLES
  revisions,     \* the repository's revisions, oldest first
  ledger,        \* the ledger's revision of each number, if any
  persisting,    \* revision numbers still to be given to the ledger
  pending,       \* the number of the revision the running call answers with
  approval,      \* the approval RPC that awaits the capabilities
  capabilities,  \* digest the host would report now
  clock,         \* Date.now
  steppedBack,   \* has it ever decreased?
  acknowledged   \* revisions that were returned to a caller

storeVars == <<revisions, ledger, persisting, pending, approval, capabilities,
               clock, steppedBack, acknowledged>>

State == {"draft", "approved", "superseded"}

Revision == [state : State, content : Contents, at : 0..MaxClock,
             digest : Digests \cup {NoDigest}]

Missing == [state |-> "missing"]

Numbers == 1..MaxRevisions

NoApproval == [revision |-> 0, digest |-> NoDigest]

StoreTypeOK ==
  /\ revisions \in Seq(Revision) /\ Len(revisions) <= MaxRevisions
  /\ ledger \in [Numbers -> Revision \cup {Missing}]
  /\ persisting \in Seq(Numbers)
  /\ pending \in {0} \cup Numbers
  /\ approval \in [revision : {0} \cup Numbers,
                   digest : Digests \cup {NoDigest}]
  /\ capabilities \in Digests
  /\ clock \in 0..MaxClock
  /\ steppedBack \in BOOLEAN
  /\ acknowledged \subseteq [number : Numbers, revision : Revision]

StoreInit ==
  /\ revisions = <<>>
  /\ ledger = [n \in Numbers |-> Missing]
  /\ persisting = <<>>
  /\ pending = 0
  /\ approval = NoApproval
  /\ capabilities \in Digests
  /\ clock = 0
  /\ steppedBack = FALSE
  /\ acknowledged = {}

Idle == pending = 0

(* list: the latest change first, then the latest revision. *)
Before(list, m, n) ==
  \/ list[m].at > list[n].at
  \/ list[m].at = list[n].at /\ m > n

(* Mutated: revisions are persisted oldest first. *)
ListedOldestFirst(list) == [k \in 1..Len(list) |-> k]

Listed(list) ==
  CHOOSE order \in [1..Len(list) -> 1..Len(list)] :
    \A j, k \in 1..Len(list) :
      j < k => Before(list, order[j], order[k])

(* The call changed the repository and starts persistPlanRevisions. *)
Commit(list, number, now) ==
  /\ revisions' = list
  /\ persisting' = Listed(list)
  /\ pending' = number
  /\ clock' = now
  /\ steppedBack' = (steppedBack \/ now < clock)

Supersede(list, now) ==
  [n \in 1..Len(list) |->
     IF n = Len(list) /\ list[n].state = "draft"
     THEN [list[n] EXCEPT !.state = "superseded", !.at = now] ELSE list[n]]

Draft(content, now) ==
  [state |-> "draft", content |-> content, at |-> now, digest |-> NoDigest]

(* saveDraft: compare-and-swap on the latest revision.  The editor may     *)
(* expect any revision it read; all but the latest are refused.            *)
SaveDraft(expected, content, now) ==
  /\ Idle
  /\ Len(revisions) = expected
  /\ Len(revisions) < MaxRevisions
  /\ Commit(Append(Supersede(revisions, now), Draft(content, now)),
            Len(revisions) + 1, now)
  /\ UNCHANGED <<ledger, approval, capabilities, acknowledged>>

(* The RPC found the revision and awaits executionCapabilities; digest is  *)
(* what the user saw in the preflight.                                     *)
AskApproval(n, digest) ==
  /\ Idle
  /\ approval = NoApproval
  /\ n \in 1..Len(revisions)
  /\ approval' = [revision |-> n, digest |-> digest]
  /\ UNCHANGED <<revisions, ledger, persisting, pending, capabilities, clock,
                 steppedBack, acknowledged>>

(* Mutated: the state of the revision is not looked at again. *)
ApproveAgain(now) ==
  LET n == approval.revision IN
  /\ Idle
  /\ approval # NoApproval
  /\ n = Len(revisions)
  /\ Commit([revisions EXCEPT
               ![n].state = "approved", ![n].at = now, ![n].digest = capabilities],
            n, now)
  /\ approval' = NoApproval
  /\ UNCHANGED <<ledger, capabilities, acknowledged>>

(* approve, after the await: the digest is the current one, the revision   *)
(* still the latest and still a draft.                                     *)
Approve(now) ==
  LET n == approval.revision IN
  /\ Idle
  /\ approval # NoApproval
  /\ approval.digest = capabilities
  /\ n = Len(revisions)
  /\ revisions[n].state = "draft"
  /\ Commit([revisions EXCEPT
               ![n].state = "approved", ![n].at = now, ![n].digest = capabilities],
            n, now)
  /\ approval' = NoApproval
  /\ UNCHANGED <<ledger, capabilities, acknowledged>>

(* Stale capabilities, a newer revision, a revision that is no draft, an    *)
(* error or an unaccepted warning of the preflight, or an aborted call.    *)
RefuseApproval ==
  /\ Idle
  /\ approval # NoApproval
  /\ approval' = NoApproval
  /\ UNCHANGED <<revisions, ledger, persisting, pending, capabilities, clock,
                 steppedBack, acknowledged>>

CapabilitiesChange ==
  /\ Idle
  /\ capabilities' \in Digests \ {capabilities}
  /\ UNCHANGED <<revisions, ledger, persisting, pending, approval, clock,
                 steppedBack, acknowledged>>

(* assertPlanRevisionTransition passes. *)
Transition(old, new) ==
  /\ old.state = "draft"
  /\ new.state \in {"approved", "superseded"}
  /\ new.content = old.content
  /\ new.at >= old.at

(* Mutated: a revision the ledger refuses is passed over. *)
PersistContained ==
  LET n   == Head(persisting)
      new == revisions[n]
  IN
  /\ persisting # <<>>
  /\ ledger' = IF ledger[n] \in {Missing, new} \/ Transition(ledger[n], new)
               THEN [ledger EXCEPT ![n] = new] ELSE ledger
  /\ persisting' = Tail(persisting)
  /\ UNCHANGED <<revisions, pending, approval, capabilities, clock,
                 steppedBack, acknowledged>>

(* recordPlanRevision of the next revision in the list. *)
Persist ==
  LET n   == Head(persisting)
      new == revisions[n]
  IN
  /\ persisting # <<>>
  /\ ledger[n] \in {Missing, new} \/ Transition(ledger[n], new)
  /\ ledger' = [ledger EXCEPT ![n] = new]
  /\ persisting' = Tail(persisting)
  /\ UNCHANGED <<revisions, pending, approval, capabilities, clock,
                 steppedBack, acknowledged>>

(* recordPlanRevision throws: the call fails, with the repository changed   *)
(* and the rest of the list unrecorded.                                    *)
PersistThrows ==
  LET n   == Head(persisting)
      new == revisions[n]
  IN
  /\ persisting # <<>>
  /\ ~(ledger[n] \in {Missing, new} \/ Transition(ledger[n], new))
  /\ persisting' = <<>>
  /\ pending' = 0
  /\ UNCHANGED <<revisions, ledger, approval, capabilities, clock,
                 steppedBack, acknowledged>>

Answer ==
  /\ ~Idle
  /\ persisting = <<>>
  /\ acknowledged' = acknowledged \cup
       {[number |-> pending, revision |-> revisions[pending]]}
  /\ pending' = 0
  /\ UNCHANGED <<revisions, ledger, persisting, approval, capabilities,
                 clock, steppedBack>>

Recorded == {n \in Numbers : ledger[n] # Missing}

(* restore throws on a gap and on a superseded latest revision. *)
Restorable ==
  /\ Recorded = 1..Cardinality(Recorded)
  /\ Recorded # {} => ledger[Cardinality(Recorded)].state # "superseded"

(* Mutated: the prefix a crash left is taken as it is. *)
RestoredUnrepaired == [n \in Recorded |-> ledger[n]]

(* restore repairs a draft that has a successor. *)
Restored ==
  [n \in Recorded |->
     IF ledger[n].state = "draft" /\ n + 1 \in Recorded
     THEN [ledger[n] EXCEPT !.state = "superseded"] ELSE ledger[n]]

(* The process ends, at any point, and the next host restores the ledger.  *)
HostRestarts ==
  /\ Restorable
  /\ revisions' = Restored
  /\ persisting' = <<>>
  /\ pending' = 0
  /\ approval' = NoApproval
  /\ UNCHANGED <<ledger, capabilities, clock, steppedBack, acknowledged>>

StoreNext ==
  \/ \E expected \in 0..MaxRevisions, content \in Contents, now \in 0..MaxClock :
       SaveDraft(expected, content, now)
  \/ \E n \in Numbers, digest \in Digests : AskApproval(n, digest)
  \/ \E now \in 0..MaxClock : Approve(now)
  \/ RefuseApproval \/ CapabilitiesChange
  \/ Persist \/ PersistThrows \/ Answer \/ HostRestarts

StoreSpec == StoreInit /\ [][StoreNext]_storeVars

-----------------------------------------------------------------------------
(* The ledger tells the same story as the repository, except for the draft *)
(* a restart closed, which it learns with the next call.                   *)
LedgerAgrees ==
  /\ Recorded = 1..Len(revisions)
  /\ \A n \in Recorded :
       \/ ledger[n] = revisions[n]
       \/ /\ revisions[n] = [ledger[n] EXCEPT !.state = "superseded"]
          /\ n < Len(revisions)

(* Wherever the process ends, the next host can restore the plan: `restore` *)
(* throws on anything but the one gap it repairs, and a constructor that   *)
(* throws leaves the user without the plugin.  Between calls ledger and    *)
(* repository agree.  A record the ledger refused because the clock had    *)
(* stepped back may leave more than one gap.                               *)
RestoreSucceeds == steppedBack \/ (Restorable /\ (Idle => LedgerAgrees))

(* What was returned to a caller survives: its number is not given to       *)
(* another content, and an approval is neither lost nor changed.           *)
AcknowledgedSurvives ==
  \A ack \in acknowledged :
    LET kept == ledger[ack.number] IN
    /\ kept # Missing
    /\ kept.content = ack.revision.content
    /\ ack.revision.state = "approved" => kept = ack.revision

(* Only the latest revision is open to approval, also after a crash left    *)
(* two drafts in the ledger.                                               *)
OneOpenDraft ==
  \A n \in 1..Len(revisions) :
    revisions[n].state = "draft" => n = Len(revisions)

(* docs/agent-planner.md: "the approved revision is never rewritten in      *)
(* place", neither by a save nor by a second approval, in the repository   *)
(* or on disk, and a restart does not reopen it once it was recorded.      *)
ApprovedNeverRewritten ==
  [][\A n \in Numbers :
       /\ n <= Len(revisions) /\ revisions[n].state = "approved"
            /\ ledger[n] = revisions[n]
          => n <= Len(revisions') /\ revisions'[n] = revisions[n]
       /\ ledger[n] # Missing /\ ledger[n].state = "approved"
          => ledger'[n] = ledger[n]]_storeVars
=============================================================================
