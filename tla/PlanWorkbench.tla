---------------------------- MODULE PlanWorkbench ----------------------------
(***************************************************************************)
(* The plan workbench of one browser and the host it talks to              *)
(* (src/src/client/AgentPlanWorkbench.tsx; handlePlannerRpc of             *)
(* src/src/index.ts): a user edits, saves, checks, approves and executes   *)
(* plans, while the plan tool or another browser does the same, the        *)
(* capabilities change, answers are lost, and the host restarts.           *)
(*                                                                         *)
(* A content is the number of the edit that made it; every content asks    *)
(* for a model of one LLM provider.  The repository keeps what it saved    *)
(* (PlanStore); grants are those of PlanGrants, of which only the checks   *)
(* of the plan and the capabilities appear here.                           *)
(*                                                                         *)
(* React runs the layout effects and the selection effect after each       *)
(* change of the state, before the next event: Show does both.             *)
(***************************************************************************)
EXTENDS RevisionPoll, CapabilityCatalog, FiniteSets, Integers

CONSTANTS
  MaxPlans,      \* maxPlansPerSession
  MaxRevisions,  \* maxRevisionsPerPlan
  Budgets        \* how often, as a bound, each kind of event happens

(* A revision is made here or elsewhere, the capabilities change, a catalog,  *)
(* a lease or a cooldown ends, the user leaves, a connection or a host is   *)
(* lost, a design, a refresh, a preflight or an execution is asked for; and *)
(* the plans there are at the beginning.                                    *)
Kinds == {"edits", "elsewhere", "changes", "expiries", "leaves", "losses", "restarts", "designs",
          "refreshes", "checks", "clicks", "stored"}

ASSUME WorkbenchAssumption ==
  /\ MaxPlans \in Nat \ {0} /\ MaxRevisions \in Nat \ {0}
  /\ \A b \in Budgets : b \in [Kinds -> Nat]

VARIABLES
  plans,    \* the revisions of each plan, plans being numbered
  latest,   \* the plan updated last, the first of the list
  enforced, \* what the digest covers: the Subagent provider and the Agent
  ui,       \* the state of the component
  call,     \* the request of the action under way
  orphans,  \* requests whose action was given up
  left,     \* what may still happen
  seen,     \* the revisions whose valid preflight was shown, with its digest
  ticked,   \* the warnings that were ticked, with the revision on screen
  clicks    \* clicks on execute since its target came on screen

planVars == <<revision, plans, latest>>
hostVars == <<host, planVars, enforced, catalogVars>>
userVars == <<seen, ticked, clicks>>
vars == <<hostVars, poll, ui, call, orphans, left, userVars>>

-----------------------------------------------------------------------------
NoPlan == 0
NoEditor == [plan |-> NoPlan, revision |-> -1, state |-> "none",
             content |-> 0, dirty |-> FALSE]
NoPreflight == [plan |-> NoPlan, revision |-> -1, digest |-> {},
                valid |-> FALSE, warnings |-> {}]
NoTarget == <<NoPlan, -1>>
NoCall == [name |-> "none"]
Failed == [ok |-> FALSE]

Call(name) ==
  [name |-> name, plan |-> ui.editor.plan, revision |-> ui.editor.revision,
   content |-> ui.editor.content, digest |-> ui.preflight.digest,
   accepted |-> ui.accepted, phase |-> "sent", load |-> 0,
   provider |-> FALSE, status |-> "none", reply |-> Failed]

Last(p) == plans[p][Len(plans[p])]

(* planSnapshot, of which latestPlans keeps the last revision of each plan. *)
Snapshot ==
  [host |-> host, revision |-> revision, latest |-> latest,
   plans |-> [p \in DOMAIN plans |->
                [revision |-> Len(plans[p]), state |-> Last(p).state,
                 content |-> Last(p).content]]]

NoSnapshot == [host |-> 0, revision |-> 0, latest |-> NoPlan, plans |-> <<>>]

EditorFromRevision(p, r) ==
  [plan |-> p, revision |-> r.revision, content |-> r.content, dirty |-> FALSE,
   state |-> IF r.state = "approved" THEN "approved" ELSE "draft"]

-----------------------------------------------------------------------------
(* The component. *)

(* Mutated: the selected plan replaces edits that were not saved. *)
SelectedOverEdits(u) ==
  IF u.shown.plans = <<>> \/ (u.editor.plan = NoPlan /\ u.editor.dirty) THEN u
  ELSE LET p == IF u.selected \in DOMAIN u.shown.plans THEN u.selected
                ELSE u.shown.latest
           e == u.editor
       IN [u EXCEPT !.selected = p,
             !.editor = IF e.plan = p /\ e.revision >= u.shown.plans[p].revision
                        THEN e ELSE EditorFromRevision(p, u.shown.plans[p])]

(* The selection effect: the selected plan, or else the latest one, is in  *)
(* the editor, with the revision the snapshot has unless it is behind.     *)
Selected(u) ==
  IF u.shown.plans = <<>> \/ (u.editor.plan = NoPlan /\ u.editor.dirty) THEN u
  ELSE LET p == IF u.selected \in DOMAIN u.shown.plans THEN u.selected
                ELSE u.shown.latest
           e == u.editor
       IN [u EXCEPT !.selected = p,
             !.editor = IF e.dirty \/ (e.plan = p /\ e.revision >= u.shown.plans[p].revision)
                        THEN e ELSE EditorFromRevision(p, u.shown.plans[p])]

Target(u) == <<u.editor.plan, u.editor.revision>>

(* The layout effect, and that of the deactivation: the action is given up *)
(* with what the user had confirmed.                                       *)
Rendered(u) ==
  IF Target(u) = Target(ui) /\ u.active THEN u
  ELSE [u EXCEPT !.action = "none", !.armed = NoTarget, !.prompted = FALSE]

(* The state becomes u; the action that is given up aborts its request,    *)
(* which the host may have heard of.                                       *)
Show(u, request) ==
  LET r == Rendered(Selected(u)) IN
  /\ ui' = r
  /\ call' = IF r.action = "none" THEN NoCall ELSE request
  /\ orphans' = IF r.action = "none" /\ request # NoCall /\ request.phase # "answered"
                THEN orphans \cup {request} ELSE orphans
  /\ clicks' = IF Target(r) = Target(ui) /\ r.active THEN clicks ELSE 0

(* finishAction: the request is over. *)
Finish(u) == Show([u EXCEPT !.action = "none"], NoCall)

Forget(u) == [u EXCEPT !.preflight = NoPreflight, !.accepted = {}]

NetworkReady == ui.active /\ ui.status = "ready"
Free == ui.action = "none"
Editable == ui.active /\ ui.editor.state = "draft" /\ Free

(* Mutated: the preflight may be that of another revision of the plan. *)
CanApproveAnyRevision ==
  /\ NetworkReady /\ ui.editor.plan # NoPlan
  /\ ui.editor.state = "draft" /\ ~ui.editor.dirty
  /\ ui.preflight.valid
  /\ ui.preflight.plan = ui.editor.plan
  /\ ui.preflight.warnings \subseteq ui.accepted

CanApprove ==
  /\ NetworkReady /\ ui.editor.plan # NoPlan
  /\ ui.editor.state = "draft" /\ ~ui.editor.dirty
  /\ ui.preflight.valid
  /\ ui.preflight.plan = ui.editor.plan
  /\ ui.preflight.revision = ui.editor.revision
  /\ ui.preflight.warnings \subseteq ui.accepted

Spend(kind) == left[kind] > 0 /\ left' = [left EXCEPT ![kind] = @ - 1]

(* What the user does on the page, the host and the poll staying as they are. *)
OnPage == UNCHANGED <<hostVars, poll, seen>>

(* beginAction: while an action is under way every button is disabled. *)
Begins(name) ==
  /\ Free
  /\ Show([ui EXCEPT !.action = name], Call(name))
  /\ OnPage /\ UNCHANGED ticked
Begin(name) == Begins(name) /\ UNCHANGED left

RequestDesign == NetworkReady /\ Begins("generate") /\ Spend("designs")
Save == NetworkReady /\ ui.editor.dirty /\ ui.editor.state = "draft" /\ Begin("save")
RunPreflight ==
  /\ NetworkReady /\ ui.editor.plan # NoPlan /\ ~ui.editor.dirty
  /\ ui.editor.state = "draft"
  /\ Begins("preflight") /\ Spend("checks")
Approve == CanApprove /\ Begin("approve")
CreateNewRevision ==
  NetworkReady /\ ui.editor.state = "approved" /\ Begins("new-revision") /\ Spend("edits")

(* The new plan of createManualPlan. *)
ManualPlan(u) ==
  [Forget(u) EXCEPT !.selected = NoPlan,
     !.editor = [plan |-> NoPlan, revision |-> 0, state |-> "draft",
                 content |-> left.edits, dirty |-> TRUE]]

(* The capabilities were read when the workbench was opened, or are now. *)
StartManual ==
  /\ NetworkReady /\ ~ui.editor.dirty
  /\ \/ /\ Free /\ Spend("edits")
        /\ Finish(ManualPlan(ui))
        /\ OnPage /\ UNCHANGED ticked
     \/ left.edits > 0 /\ Begin("manual")

(* updateContent, to which every field, addTask and removeTask lead. *)
UpdateContent ==
  /\ Editable /\ Spend("edits")
  /\ Show(Forget([ui EXCEPT !.editor.content = left.edits, !.editor.dirty = TRUE]), NoCall)
  /\ OnPage /\ UNCHANGED ticked

DiscardChanges ==
  /\ Editable /\ ui.editor.dirty
  /\ Show(IF ui.selected \in DOMAIN ui.shown.plans
          THEN Forget([ui EXCEPT !.editor =
                         EditorFromRevision(ui.selected, ui.shown.plans[ui.selected])])
          ELSE [ui EXCEPT !.editor = NoEditor], NoCall)
  /\ OnPage /\ UNCHANGED <<left, ticked>>

SelectPlan(p) ==
  /\ NetworkReady /\ Free /\ ~ui.editor.dirty
  /\ p \in DOMAIN ui.shown.plans
  /\ Show(Forget([ui EXCEPT !.selected = p,
                    !.editor = EditorFromRevision(p, ui.shown.plans[p])]), NoCall)
  /\ OnPage /\ UNCHANGED <<left, ticked>>

AcceptWarning(w) ==
  /\ NetworkReady /\ Free
  /\ w \in ui.preflight.warnings
  /\ Show([ui EXCEPT !.accepted = IF w \in @ THEN @ \ {w} ELSE @ \cup {w}], NoCall)
  /\ ticked' = ticked \cup {<<ui.preflight.plan, ui.preflight.revision, w>>}
  /\ OnPage /\ UNCHANGED left

(* The first click asks for a confirmation, the second sends the request. *)
RequestExecution ==
  /\ NetworkReady /\ Free /\ ui.editor.state = "approved" /\ ~ui.prompted
  /\ IF ui.armed = Target(ui)
     THEN /\ ui' = [ui EXCEPT !.action = "execute"]
          /\ call' = Call("execute")
     ELSE /\ ui' = [ui EXCEPT !.armed = Target(ui)]
          /\ call' = NoCall
  /\ clicks' = clicks + 1
  /\ Spend("clicks")
  /\ OnPage /\ UNCHANGED <<orphans, ticked>>

PromptTimesOut ==
  ui.prompted /\ Show([ui EXCEPT !.prompted = FALSE], call) /\ OnPage /\ UNCHANGED <<left, ticked>>

(* refresh, of the toolbar or of the alert: the loop starts again with     *)
(* listPlans.                                                              *)
Refresh ==
  /\ ui.active /\ ~ui.editor.dirty /\ (Free \/ ui.status = "error") /\ Spend("refreshes")
  /\ Show([ui EXCEPT !.status = "loading"], call)
  /\ ListPlans(Snapshot)
  /\ UNCHANGED <<hostVars, seen, ticked>>

(* Another tab of the workbench is shown, and this one again. *)
Leave ==
  /\ ui.active /\ Spend("leaves")
  /\ Show([ui EXCEPT !.active = FALSE], call)
  /\ poll' = Off
  /\ UNCHANGED <<hostVars, seen, ticked>>

Return ==
  /\ ~ui.active
  /\ Show([ui EXCEPT !.active = TRUE], NoCall)
  /\ ListPlans(Snapshot)
  /\ UNCHANGED <<hostVars, left, seen, ticked>>

UserStep ==
  \/ RequestDesign \/ StartManual \/ UpdateContent \/ DiscardChanges \/ Save
  \/ RunPreflight \/ Approve \/ CreateNewRevision \/ RequestExecution
  \/ \E p \in 1..MaxPlans : SelectPlan(p)
  \/ \E w \in {"model"} : AcceptWarning(w)
  \/ PromptTimesOut \/ Refresh \/ Leave \/ Return

-----------------------------------------------------------------------------
(* The host's plans. *)

Draft(content) ==
  [state |-> "draft", content |-> content, by |-> "none", digest |-> {}, warnings |-> {}]

Superseded(r) == IF r.state = "draft" THEN [r EXCEPT !.state = "superseded"] ELSE r

MoveToFront(p) == latest' = p

SaveDraft(p, content) ==
  /\ plans' = IF p \in DOMAIN plans
              THEN [plans EXCEPT ![p] =
                      Append([@ EXCEPT ![Len(plans[p])] = Superseded(Last(p))], Draft(content))]
              ELSE Append(plans, <<Draft(content)>>)
  /\ MoveToFront(p)
  /\ revision' = revision + 1

(* Room for a revision of plan p, which is a new plan if it is the next. *)
HasRoom(p) ==
  IF p \in DOMAIN plans THEN Len(plans[p]) < MaxRevisions ELSE Len(plans) < MaxPlans

(* preflightAgentPlan: the Subagent provider and the live Agent are        *)
(* needed, and a model its catalog does not list is an error if the        *)
(* catalog is incomplete, a warning if there is none (Preflight).          *)
PreflightOf(c, digest) ==
  [plan |-> c.plan, revision |-> c.revision, digest |-> digest,
   valid |-> {"provider", "agent"} \subseteq digest /\ c.status # "incomplete",
   warnings |-> IF c.status = "unavailable" THEN {"model"} ELSE {}]

(* PlanStore.approve, with the preflight of the revision it was given.     *)
Approves(c, digest) ==
  LET preflight == PreflightOf(c, digest) IN
  /\ c.digest = digest
  /\ Len(plans[c.plan]) = c.revision /\ Last(c.plan).state = "draft"
  /\ preflight.valid /\ preflight.warnings \subseteq c.accepted

ApproveDraft(p, by, digest, warnings) ==
  /\ plans' = [plans EXCEPT ![p][Len(plans[p])] =
                 [@ EXCEPT !.state = "approved", !.by = by, !.digest = digest,
                           !.warnings = warnings]]
  /\ MoveToFront(p)
  /\ revision' = revision + 1

-----------------------------------------------------------------------------
(* The host's handlers. *)

Calls == orphans \cup ({call} \ {NoCall})

(* A request is where d says; nobody waits for the answer of an orphan.    *)
Becomes(c, d) ==
  IF c = call THEN call' = d /\ UNCHANGED orphans
  ELSE /\ UNCHANGED call
       /\ orphans' = (orphans \ {c}) \cup (IF d.phase = "answered" THEN {} ELSE {d})

Reply(c, reply) == Becomes(c, [c EXCEPT !.phase = "answered", !.reply = reply])

HostSaves(c) ==
  LET p == IF c.plan = NoPlan THEN Len(plans) + 1 ELSE c.plan
      fits == /\ c.plan # NoPlan => Len(plans[p]) = c.revision
              /\ HasRoom(p)
  IN
  /\ c.name \in {"save", "new-revision"} /\ c.phase = "sent"
  /\ IF fits
     THEN /\ SaveDraft(p, c.content)
          /\ Reply(c, [ok |-> TRUE, plan |-> p,
                       saved |-> [revision |-> Len(plans'[p]), state |-> "draft",
                                  content |-> c.content]])
     ELSE Reply(c, Failed) /\ UNCHANGED <<plans, latest, revision>>
  /\ UNCHANGED <<host, enforced, catalogVars>>

ReadsCapabilities == {"generate", "manual", "preflight", "approve", "execute"}

(* The rest of the handler of c, which is now d: the scope of the Agent is  *)
(* read only here.                                                         *)
Concludes(c, d) ==
  LET digest == (IF d.provider THEN {"provider"} ELSE {}) \cup (enforced \cap {"agent"})
      check == PreflightOf(d, digest)
  IN
  \/ c.name = "generate" /\ Reply(c, [ok |-> "agent" \in digest]) /\ UNCHANGED planVars
  \/ c.name = "manual" /\ Reply(c, [ok |-> d.provider]) /\ UNCHANGED planVars
  \/ /\ c.name = "preflight"
     /\ Reply(c, [ok |-> TRUE, preflight |-> check])
     /\ UNCHANGED planVars
  \/ /\ c.name = "approve" /\ Approves(d, digest)
     /\ ApproveDraft(c.plan, "this workbench", digest, check.warnings)
     /\ Reply(c, [ok |-> TRUE, plan |-> c.plan,
                  saved |-> [revision |-> c.revision, state |-> "approved",
                             content |-> Last(c.plan).content]])
  \/ c.name = "approve" /\ ~Approves(d, digest) /\ Reply(c, Failed) /\ UNCHANGED planVars
  \/ /\ c.name = "execute"
     /\ Reply(c, [ok |-> plans[c.plan][c.revision].digest = digest /\ check.valid])
     /\ UNCHANGED planVars

HostConcludes(c) ==
  c.phase = "ready" /\ Concludes(c, c) /\ UNCHANGED <<host, enforced, catalogVars>>

(* executionCapabilities before its await: the Subagent providers are read *)
(* and the model catalog is asked for.                                     *)
HostReads(c) ==
  /\ c.name \in ReadsCapabilities /\ c.phase = "sent"
  /\ LET d == [c EXCEPT !.provider = "provider" \in enforced] IN
     \/ \E s \in Statuses :
          LoadAnswers(s) /\ Concludes(c, [d EXCEPT !.status = s])
     \/ \E n \in 1..(Len(loads) + 1) :
          /\ LoadAwaited(n) /\ Becomes(c, [d EXCEPT !.phase = "waiting", !.load = n])
          /\ UNCHANGED planVars
  /\ UNCHANGED <<host, enforced>>

Told(c, status) == [c EXCEPT !.phase = "ready", !.load = 0, !.status = status]

(* boundedWait: two seconds are over. *)
HostGivesUp(c) ==
  /\ c.phase = "waiting"
  /\ Becomes(c, Told(c, "unavailable"))
  /\ UNCHANGED hostVars

(* All that wait for a load are told. *)
ProviderAnswers(n, state) ==
  LET tell(c) == IF c # NoCall /\ c.load = n THEN Told(c, StatusOf(state)) ELSE c IN
  /\ LoadEnds(n, state)
  /\ call' = tell(call)
  /\ orphans' = {tell(c) : c \in orphans}
  /\ UNCHANGED <<host, revision, plans, latest, enforced>>

Handled(c) == c # NoCall /\ (HostSaves(c) \/ HostReads(c) \/ HostGivesUp(c) \/ HostConcludes(c))

(* The request of an abandoned action is aborted before it has any effect. *)
HostHearsAbort(c) ==
  c \in orphans /\ orphans' = orphans \ {c} /\ UNCHANGED <<hostVars, call>>

HostStep ==
  /\ \/ \E c \in Calls : Handled(c) \/ HostHearsAbort(c)
     \/ \E n \in DOMAIN loads, s \in {"available", "incomplete", "failed"} :
          ProviderAnswers(n, s)
  /\ UNCHANGED <<poll, ui, left, userVars>>

-----------------------------------------------------------------------------
(* What comes back. *)

(* The answer of the action under way; ownsAction holds, or call would be  *)
(* another one.                                                            *)
Received ==
  /\ call # NoCall /\ call.phase = "answered"
  /\ UNCHANGED <<hostVars, poll, ticked>>
  /\ LET r == call.reply IN
     \/ ~r.ok /\ Finish(ui) /\ UNCHANGED <<seen, left>>
     \/ /\ r.ok /\ call.name = "generate" /\ Finish(ui)
        /\ UNCHANGED <<seen, left>>
     \/ /\ r.ok /\ call.name = "manual"
        /\ Finish(ManualPlan(ui)) /\ Spend("edits")
        /\ UNCHANGED seen
     \/ /\ r.ok /\ call.name = "save"
        /\ Finish(Forget([ui EXCEPT !.selected = r.plan,
                            !.editor = EditorFromRevision(r.plan, r.saved)]))
        /\ UNCHANGED <<seen, left>>
     \/ /\ r.ok /\ call.name = "new-revision"
        /\ Finish(Forget([ui EXCEPT !.editor = EditorFromRevision(r.plan, r.saved)]))
        /\ UNCHANGED <<seen, left>>
     \/ /\ r.ok /\ call.name = "preflight"
        /\ Finish([ui EXCEPT !.preflight = r.preflight, !.accepted = {}])
        /\ seen' = IF r.preflight.valid
                   THEN seen \cup {<<call.plan, call.revision, r.preflight.digest>>} ELSE seen
        /\ UNCHANGED left
     \/ /\ r.ok /\ call.name = "approve"
        /\ Finish([ui EXCEPT !.editor = EditorFromRevision(r.plan, r.saved)])
        /\ UNCHANGED <<seen, left>>
     \/ /\ r.ok /\ call.name = "execute"
        /\ Finish([ui EXCEPT !.armed = NoTarget, !.prompted = TRUE])
        /\ UNCHANGED <<seen, left>>

(* The connection fails, whatever the host makes of the request. *)
CallFails ==
  /\ call # NoCall /\ Spend("losses")
  /\ Show([ui EXCEPT !.action = "none"], call)
  /\ UNCHANGED <<hostVars, poll, seen, ticked>>

PollStep ==
  /\ PollWakes(Snapshot)
  /\ UNCHANGED <<hostVars, ui, call, orphans, left, userVars>>

PollTimesOut ==
  Heartbeat(Snapshot) /\ UNCHANGED <<hostVars, ui, call, orphans, left, userVars>>

(* The loop shows the snapshot and asks again. *)
PollReceived ==
  /\ UNCHANGED <<hostVars, left, seen, ticked>>
  /\ poll.phase = "answered"
  /\ Show([ui EXCEPT !.status = "ready", !.shown = poll.reply], call)
  /\ WatchPlans(poll.reply, Snapshot)

(* The loop ends on an error; what was shown stays. *)
PollFails ==
  /\ UNCHANGED <<hostVars, seen, ticked>>
  /\ \/ poll.phase = "broken" /\ UNCHANGED left
     \/ poll.phase \in {"waiting", "answered"} /\ Spend("losses")
  /\ Show([ui EXCEPT !.status = "error"], call)
  /\ poll' = Off

-----------------------------------------------------------------------------
(* The environment. *)

Elsewhere ==
  /\ Spend("elsewhere")
  /\ \/ \E p \in 1..(Len(plans) + 1) :
          HasRoom(p) /\ SaveDraft(p, 200 + left.elsewhere)
     \/ \E p \in DOMAIN plans :
          /\ Last(p).state = "draft" /\ enforced = {"provider", "agent"}
          /\ ApproveDraft(p, "another", enforced, {})
  /\ UNCHANGED <<host, enforced, catalogVars, poll, ui, call, orphans, userVars>>

CapabilitiesChange ==
  /\ Spend("changes")
  /\ \E e \in {"provider", "agent"} :
       enforced' = IF e \in enforced THEN enforced \ {e} ELSE enforced \cup {e}
  /\ UNCHANGED <<host, revision, plans, latest, catalogVars, poll, ui, call, orphans, userVars>>

TimePasses ==
  /\ CacheExpires \/ LeaseEnds \/ CooldownEnds
  /\ Spend("expiries")
  /\ UNCHANGED <<host, revision, plans, latest, enforced, poll, ui, call, orphans, userVars>>

(* The process ends and another starts: PlanStore restores its plans, with *)
(* a revision of 1 if there are any.  A request the old host had is lost;  *)
(* one that was not sent yet, or its answer, may still arrive.             *)
Restart ==
  /\ Spend("restarts")
  /\ host' = host + 1
  /\ revision' = IF plans = <<>> THEN 0 ELSE 1
  /\ CatalogLost
  /\ poll' = IF poll.phase = "waiting" THEN [Off EXCEPT !.phase = "broken"] ELSE poll
  /\ call' = IF call = NoCall \/ call.phase \in {"sent", "answered"} THEN call
             ELSE [call EXCEPT !.phase = "answered", !.load = 0]
  /\ orphans' = {}
  /\ UNCHANGED <<plans, latest, enforced, ui, userVars>>

Init ==
  /\ left \in Budgets
  /\ host = 1
  /\ revision = IF left.stored = 0 THEN 0 ELSE 1
  /\ CatalogInit /\ (cached # 0 <=> left.expiries = 0)
  /\ plans = [p \in 1..left.stored |-> <<Draft(100 + p)>>]
  /\ latest = IF left.stored = 0 THEN NoPlan ELSE 1
  /\ enforced = {"provider", "agent"}
  /\ poll = Answered(Snapshot)
  /\ ui = [active |-> TRUE, status |-> "loading", shown |-> NoSnapshot,
           selected |-> NoPlan, editor |-> NoEditor, preflight |-> NoPreflight,
           accepted |-> {}, action |-> "none", armed |-> NoTarget, prompted |-> FALSE]
  /\ call = NoCall /\ orphans = {}
  /\ seen = {} /\ ticked = {} /\ clicks = 0

Next ==
  \/ UserStep \/ HostStep \/ Received \/ CallFails
  \/ PollStep \/ PollTimesOut \/ PollReceived \/ PollFails
  \/ Elsewhere \/ CapabilitiesChange \/ TimePasses \/ Restart

Spec == Init /\ [][Next]_vars

(* The host handles what it is asked, boundedWait's timer fires and what   *)
(* arrives is shown.  Nothing is assumed of the heartbeat, of the user or  *)
(* of the LLM provider.                                                    *)
CallProceeds == UNCHANGED <<poll, ui, left, userVars>> /\ Handled(call)

FairSpec ==
  /\ Spec
  /\ WF_vars(CallProceeds \/ Received)
  /\ WF_vars(PollStep \/ PollReceived \/ PollFails)

-----------------------------------------------------------------------------
(* docs/agent-planner.md: "Editing a draft invalidates its previous        *)
(* preflight result".  What this workbench approves is a revision whose    *)
(* valid preflight it has shown, under the very capabilities it was shown  *)
(* with, and the user has ticked each warning in force at the approval;    *)
(* and what it sends for execution is an approved revision on which the    *)
(* user clicked twice without anything else coming on the screen.  Between *)
(* review and click a newer revision, another plan or other capabilities   *)
(* may arrive, and the approval of an abandoned action still be on its way.*)
HostActsAsReviewed ==
  /\ \A p \in DOMAIN plans : \A n \in DOMAIN plans[p] :
       LET r == plans[p][n] IN
       r.by = "this workbench" =>
         /\ <<p, n, r.digest>> \in seen
         /\ \A w \in r.warnings : <<p, n, w>> \in ticked
  /\ call.name = "execute" =>
       clicks >= 2 /\ plans[call.plan][call.revision].state = "approved"

(* The edits of a draft leave the editor only once a revision of the host  *)
(* has them, or by the user's own further edits or discard: no snapshot,   *)
(* no late answer and no change of the selection takes them away.          *)
EditsSurvive ==
  [][ui.editor.dirty /\ ui'.editor # ui.editor =>
       \/ UpdateContent \/ DiscardChanges
       \/ \E p \in DOMAIN plans : \E n \in DOMAIN plans[p] :
            plans[p][n].content = ui.editor.content]_vars

(* The callers of the catalog share one load until its lease is spent:     *)
(* the end of one caller's wait does not end the load for the others, and  *)
(* a load that was given up never replaces a later one.  So the models in  *)
(* the cache are those of the newest question to the provider.             *)
CatalogIsHonest ==
  /\ NewestIsCached
  /\ \A c \in Calls : c.phase = "waiting" => loads[c.load].state = "running"

(* Again and again the workbench is at rest and, if it is in use and       *)
(* connected, shows what the host has: news come without waiting for a     *)
(* heartbeat and across a restart, and every action ends, although the LLM *)
(* provider may never answer.                                              *)
NewsArrives ==
  []<>(Free /\ (~ui.active \/ ui.status # "ready" \/ ui.shown = Snapshot))
=============================================================================
