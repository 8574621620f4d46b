------------------------------ MODULE RunExports ------------------------------
(***************************************************************************)
(* What leaves the host of one run: the capsule, a bounded selection of    *)
(* its events, receipts and findings that must support itself              *)
(* (src/src/capsule.ts, and the manifest schema of                         *)
(* src/src/foundry-types.ts), the facts a query is answered with           *)
(* (src/src/run-query.ts), and whether the run may found a recipe          *)
(* (src/src/recipe.ts).                                                    *)
(*                                                                         *)
(* An event is named by its cursor, so what a record cites is a set of     *)
(* cursors.  Pseudonyms, digests, texts, artifacts and byte limits are     *)
(* left out, and so are the checks of identities there is one of here.     *)
(***************************************************************************)
EXTENDS Conformance

CONSTANTS
  MaxEvents,    \* CAPSULE_MAX_EVENTS
  MaxReceipts,  \* CAPSULE_MAX_RECEIPTS
  MaxFindings   \* CAPSULE_MAX_FINDINGS

ASSUME CapsuleLimits == {MaxEvents, MaxReceipts, MaxFindings} \subseteq Nat \ {0}

Cursors(trail, kind, t) == {n \in DOMAIN trail : trail[n].kind = kind /\ trail[n].task = t}

EventsOf(trail, t) == {n \in DOMAIN trail : trail[n].task = t}

(* The execution-terminal events, and the terminal events of a task. *)
ExecutionEnds(trail) ==
  {n \in Cursors(trail, "execution", NoTask) : trail[n].status \in TerminalExecution}
TaskEnds(trail, t) ==
  Cursors(trail, "terminal", t)
  \cup {n \in Cursors(trail, "attempt", t) : trail[n].status \in TerminalAttempt}

(* The evidence of a finding that is not about an unbound Agent. *)
Cited(held, trail, f) ==
  CASE f.code = "lifecycle-incomplete"
       \/ (f.code = "missing-planned" /\ ~Bound(held, f.task)) -> ExecutionEnds(trail)
    [] f.code = "attempt-unsuccessful" -> TaskEnds(trail, f.task)
    [] f.code = "verifier-failed" -> Cursors(trail, "terminal", f.task)
    [] OTHER -> EventsOf(trail, f.task)

(* firstObservedAt; the execution ends after whatever it recorded. *)
ObservedAt(held, trail, f) ==
  IF f.code = "order-violation" THEN held.began[f.task]
  ELSE IF f.code = "lifecycle-incomplete" \/ ~Bound(held, f.task) THEN Len(trail)
  ELSE held.ended[f.task]

(* A finding is known by its code, its task and its detail; all that are   *)
(* about unbound Agents, one for each, have one identity.                  *)
Listing(f, at, cites) ==
  [id |-> <<f.code, f.task>>, task |-> f.task, proven |-> f.certainty = "proven",
   blocking |-> f.severity = "blocking", at |-> at, cites |-> cites]

OfAgent(trail, f, n) == Listing(f, trail[n].at, {n})
OfTask(held, trail, f) == Listing(f, ObservedAt(held, trail, f), Cited(held, trail, f))

Listings(held, trail, report) ==
  LET unbound == {f \in report.findings : f.task = NoTask}
  IN  {OfAgent(trail, f, n) : f \in unbound, n \in Cursors(trail, "published", NoTask)}
      \cup {OfTask(held, trail, f) : f \in report.findings \ unbound}

(* compareFindings. *)
Before(f, g) == f.at < g.at \/ (f.at = g.at /\ f.blocking /\ ~g.blocking)

(* The elements of a set one after another, each time the first of those   *)
(* that are left.                                                          *)
Longer(list, set, first) == Append(list, first[set \ ToSet(list)])

InTurn(set, first) ==
  LET list[n \in 0..Cardinality(set)] ==
        IF n = 0 THEN <<>> ELSE Longer(list[n - 1], set, first)
  IN  list[Cardinality(set)]

Listed(held, trail, report) ==
  LET listings == Listings(held, trail, report)
  IN  InTurn(listings, [left \in SUBSET listings |->
                          CHOOSE f \in left : \A g \in left : ~Before(g, f)])

Cut(list, n) == SubSeq(list, 1, IF n < Len(list) THEN n ELSE Len(list))

(* firstProvableDivergenceId, as a list of at most one finding. *)
FirstProvable(listed) == Cut(Only(listed, {f \in ToSet(listed) : f.proven}), 1)

-----------------------------------------------------------------------------
(* buildRunCapsule.                                                        *)

Cites(list) == UNION {x.cites : x \in ToSet(list)}
LastOf(trail) == {Len(trail)} \ {0}

(* canIncludeEvidence. *)
Fits(cited, more) == Cardinality(cited \cup more) <= MaxEvents

(* Those of the list whose evidence still fits, while there is room. *)
Kept(sofar, x, room) ==
  IF Cardinality(sofar.cited) < room /\ Fits(sofar.cited, x.cites)
  THEN [list |-> Append(sofar.list, x), cited |-> sofar.cited \cup x.cites]
  ELSE sofar

Fitting(list, cited, room) ==
  LET kept[n \in 0..Len(list)] ==
        IF n = 0 THEN [list |-> <<>>, cited |-> cited] ELSE Kept(kept[n - 1], list[n], room)
  IN  kept[Len(list)].list

(* The capsule orders findings by their times and then by identifiers,     *)
(* which say nothing: those of one moment stand in any order.              *)
ByTime(listed) ==
  InTurn(ToSet(listed), [left \in SUBSET ToSet(listed) |->
                           CHOOSE f \in left : \A g \in left : f.at <= g.at])

(* Mutated: only the receipts keep their evidence in the capsule. *)
SelectionForReceipts(trail, receipts, listed) ==
  LET kept == Cut(Fitting(receipts, LastOf(trail), MaxEvents), MaxReceipts)
  IN  [receipts |-> kept, findings |-> Cut(ByTime(listed), MaxFindings),
       required |-> LastOf(trail) \cup Cites(kept)]

(* The last event and the first divergence come first, then receipts, then *)
(* the other findings; evidence is that of what was kept only.             *)
Selection(trail, receipts, listed) ==
  LET last == LastOf(trail)
      first == FirstProvable(listed)
      head == IF Fits(last, Cites(first)) THEN first ELSE <<>>
      kept == Cut(Fitting(receipts, last \cup Cites(head), MaxEvents), MaxReceipts)
      others == Only(ByTime(listed), {f \in ToSet(listed) : first = <<>> \/ f.id # first[1].id})
      shown == Cut(head \o Fitting(others, last \cup Cites(head) \cup Cites(kept), MaxEvents + 1),
                   MaxFindings)
  IN  [receipts |-> kept, findings |-> shown,
       required |-> last \cup Cites(kept) \cup Cites(shown)]

(* The events of the list that are not barred, as long as there is room.   *)
Fuller(events, n, barred) ==
  IF Cardinality(events) >= MaxEvents \/ n \in barred THEN events ELSE events \cup {n}

Filled(required, list, barred) ==
  LET events[n \in 0..Len(list)] ==
        IF n = 0 THEN required ELSE Fuller(events[n - 1], list[n], barred)
  IN  events[Len(list)]

(* The rest of the events, lifecycle first, but for the evidence of what   *)
(* was left out.                                                           *)
ExportedEvents(trail, receipts, listed, selected) ==
  LET omitted == (ToSet(receipts) \ ToSet(selected.receipts))
                 \cup (ToSet(listed) \ ToSet(selected.findings))
      all == [n \in DOMAIN trail |-> n]
      prior == Only(all, {n \in DOMAIN trail :
        \/ trail[n].kind = "terminal"
        \/ trail[n].kind = "execution" /\ trail[n].status \in {"running"} \cup TerminalExecution
        \/ trail[n].kind = "attempt" /\ trail[n].status \in TerminalAttempt})
  IN  Filled(selected.required, prior \o all,
             UNION {x.cites : x \in omitted} \ selected.required)

(* The receipts in some order: the record does not keep when each of them  *)
(* was observed.                                                           *)
ReceiptList(record) ==
  LET listings == {[task |-> r.task, verifier |-> r.verifier,
                    cites |-> Cursors(record.trail, "terminal", r.task)] : r \in record.receipts}
  IN  InTurn(listings, [left \in SUBSET listings |-> CHOOSE r \in left : TRUE])

Capsule(held, record, report, proposal) ==
  LET receipts == ReceiptList(record)
      listed == Listed(held, record.trail, report)
      selected == Selection(record.trail, receipts, listed)
      shown == {f.id : f \in ToSet(selected.findings)}
  IN  [cursor |-> Len(record.trail),
       events |-> ExportedEvents(record.trail, receipts, listed, selected),
       receipts |-> selected.receipts,
       findings |-> selected.findings,
       first |-> Only(FirstProvable(listed), {f \in ToSet(listed) : f.id \in shown}),
       tasks |-> [t \in Tasks |-> {id \in shown : id[2] = t}],
       proposal |-> proposal]

(* runCapsuleManifestSchema: parsing the manifest throws otherwise. *)
IdentitiesAreUnique(manifest) ==
  \A m, n \in DOMAIN manifest.findings :
    manifest.findings[m].id = manifest.findings[n].id => m = n

EvidenceResolves(manifest, held, trail) ==
  /\ \A n \in manifest.events : n <= manifest.cursor
  /\ manifest.cursor \in manifest.events \/ (manifest.cursor = 0 /\ manifest.events = {})
  /\ \A f \in ToSet(manifest.findings) :
       /\ f.cites \subseteq manifest.events
       /\ f.task # NoTask => /\ f.id \in manifest.tasks[f.task]
                             /\ \A n \in f.cites : trail[n].task \in {f.task, NoTask}
  /\ \A r \in ToSet(manifest.receipts) :
       /\ r.cites # {} /\ r.cites \subseteq manifest.events
       /\ Bound(held, r.task) /\ \A n \in r.cites : trail[n].task = r.task
  /\ \A n \in manifest.events : trail[n].task = NoTask \/ Bound(held, trail[n].task)
  /\ ToSet(manifest.first) \subseteq {f \in ToSet(manifest.findings) : f.proven}

ProposalResolves(manifest) ==
  /\ manifest.proposal.reusable \cap manifest.proposal.affected = {}
  /\ \A a \in manifest.proposal.actions : a.task \in manifest.proposal.affected

-----------------------------------------------------------------------------
(* buildRunQuery: each fact with its certainty and the events it cites.    *)

Fact(certainty, cites) == [certainty |-> certainty, cites |-> cites]

Questions == {"summary", "why-running", "first-divergence", "active-tasks",
              "cancel-impact", "recovery-impact", "evidence"}

(* The events through the cursor, of one task if the question is of one.   *)
Scoped(held, trail, t) ==
  {n \in DOMAIN trail :
     /\ trail[n].task = NoTask \/ Bound(held, trail[n].task)
     /\ t = NoTask \/ trail[n].task = t}

(* The execution, its findings and its receipts are those of the cursor    *)
(* the trail ends at; configuration is not recorded here.                  *)
Facts(held, trail, listed, receipts, question, t) ==
  LET events == Scoped(held, trail, t)
      ends == ExecutionEnds(trail) \cap events
      asked == Only(receipts,
                 {r \in ToSet(receipts) : Bound(held, r.task) /\ t \in {NoTask, r.task}})
      active == {u \in Tasks : Bound(held, u) /\ ~Over(held, u) /\ t \in {NoTask, u}}
  IN  CASE question = "summary" ->
             {Fact("proven", ends), Fact("derived", Cites(listed)), Fact("proven", Cites(asked))}
        [] question = "why-running" ->
             IF Ended(held.snapshot) THEN {Fact("proven", ends)}
             ELSE {Fact("derived", events)}
                  \cup {Fact("proven", {n}) : n \in {m \in events : \A k \in events : k <= m}}
        [] question = "first-divergence" ->
             {Fact("proven", f.cites) : f \in ToSet(FirstProvable(listed))}
        [] question = "active-tasks" ->
             {Fact("proven", events \cap EventsOf(trail, u)) : u \in active}
        [] question = "cancel-impact" -> {Fact("derived", events), Fact("derived", Cites(listed))}
        [] question = "recovery-impact" -> {Fact("derived", Cites(listed))}
        [] question = "evidence" -> {Fact("proven", r.cites) : r \in ToSet(asked)}

-----------------------------------------------------------------------------
(* isVerifiedSource of src/src/recipe.ts. *)
VerifiedSource(p, held, record, report) ==
  /\ held.snapshot.status = "succeeded"
  /\ report.state = "confirmed"
  /\ \A f \in report.findings : f.severity # "blocking"
  /\ \E t \in Tasks : Required(p, t) # {}
  /\ \A t \in Tasks : \A v \in Required(p, t) :
       StatusOf(held, t) = "completed" /\ With(record, t, v, "pass")
=============================================================================
