------------------------ MODULE PlanWorkbenchProofs ------------------------
(***************************************************************************)
(* The workbench and its host, for any number of plans, revisions, edits,  *)
(* losses and restarts.  Three arguments:                                  *)
(*                                                                         *)
(* The model catalog, for any number of loads: what is cached is what the  *)
(* newest load brought, however late an older one ends.  The workbench and *)
(* its host drive the catalog by its operations only, so what is proved of *)
(* the catalog by itself holds among any number of requests.               *)
(*                                                                         *)
(* BenchInv, what the component, the requests under way and the host know  *)
(* of each other.  It is about requests that were given up as well, for    *)
(* the host may hear of those: an approval names a revision whose valid    *)
(* preflight was shown, with warnings that were ticked (Asked), a good     *)
(* answer is about what was asked (Fits), snapshots and editors hold what  *)
(* the host has (Listed, Edited), and while a save is under way edits are  *)
(* those it carries (Acts).                                                *)
(*                                                                         *)
(* Plans only grow (Keeps), and Show, which every step of the component    *)
(* goes through, keeps edits and ends with the action all that the user    *)
(* had confirmed (ShowOk).                                                 *)
(***************************************************************************)
EXTENDS PlanWorkbench, SequenceTheorems, TLAPS

Load == [state : {"running", "available", "incomplete", "failed"}, spent : BOOLEAN]

CatalogTypeOK ==
  /\ loads \in Seq(Load)
  /\ flight \in Nat /\ cached \in Nat
  /\ cooling \in BOOLEAN

(* The load in flight is the newest and still runs, and nothing is cached  *)
(* beside it.                                                              *)
FlightInv ==
  flight # 0 => flight = Len(loads) /\ loads[flight].state = "running" /\ cached = 0

CatalogInv == CatalogTypeOK /\ FlightInv /\ NewestIsCached

LEMMA NoLoads == <<>> \in Seq(Load) /\ Len(<<>>) = 0 /\ DOMAIN <<>> = {}
  OBVIOUS

LEMMA OneLoad ==
  ASSUME NEW u \in Load
  PROVE  <<u>> \in Seq(Load) /\ Len(<<u>>) = 1 /\ DOMAIN <<u>> = {1} /\ <<u>>[1] = u
  OBVIOUS

LEMMA CatalogInitInv == CatalogInit => CatalogInv
<1> SUFFICES ASSUME CatalogInit PROVE CatalogInv
  OBVIOUS
<1> DEFINE first == [state |-> "available", spent |-> FALSE]
<1>1. flight = 0 /\ cooling \in BOOLEAN /\ FlightInv
  BY DEF CatalogInit, FlightInv
<1>2. CASE loads = <<>> /\ cached = 0
  <2>1. CatalogTypeOK
    BY <1>1, <1>2, NoLoads DEF CatalogTypeOK
  <2>2. NewestIsCached
    BY <1>1, <1>2, NoLoads DEF NewestIsCached
  <2> QED
    BY <1>1, <2>1, <2>2 DEF CatalogInv
<1>3. CASE loads = <<first>> /\ cached = 1
  <2>1. first \in Load /\ first.state = "available"
    BY DEF Load
  <2> HIDE DEF first
  <2>2. loads \in Seq(Load) /\ Len(loads) = 1 /\ DOMAIN loads = {1} /\ loads[1] = first
    BY <1>3, <2>1, OneLoad
  <2>3. CatalogTypeOK
    BY <1>1, <1>3, <2>2 DEF CatalogTypeOK
  <2>4. NewestIsCached
    BY <1>1, <1>3, <2>1, <2>2 DEF NewestIsCached
  <2> QED
    BY <1>1, <2>3, <2>4 DEF CatalogInv
<1> QED
  BY <1>2, <1>3 DEF CatalogInit

(* A caller is answered at once: at most a load whose lease is spent is    *)
(* forgotten.                                                              *)
LEMMA AnswerKeeps ==
  ASSUME CatalogInv, NEW status \in Statuses, LoadAnswers(status)
  PROVE  CatalogInv'
<1>1. CASE UNCHANGED catalogVars
  BY <1>1 DEF CatalogInv, CatalogTypeOK, FlightInv, NewestIsCached, catalogVars
<1>2. CASE ~Joinable /\ flight' = 0 /\ UNCHANGED <<loads, cached, cooling>>
  BY <1>2 DEF CatalogInv, CatalogTypeOK, FlightInv, NewestIsCached, Joinable
<1> QED
  BY <1>1, <1>2 DEF LoadAnswers

LEMMA AwaitKeeps ==
  ASSUME CatalogInv, NEW n \in 1..(Len(loads) + 1), LoadAwaited(n)
  PROVE  CatalogInv'
<1>1. CASE UNCHANGED catalogVars
  BY <1>1 DEF CatalogInv, CatalogTypeOK, FlightInv, NewestIsCached, catalogVars
<1>2. CASE /\ ~Joinable /\ cached = 0 /\ n = Len(loads) + 1
           /\ loads' = Append(loads, [state |-> "running", spent |-> FALSE])
           /\ flight' = n /\ UNCHANGED <<cached, cooling>>
  <2> DEFINE new == [state |-> "running", spent |-> FALSE]
  <2>1. new \in Load
    BY DEF Load
  <2> HIDE DEF new
  <2>2. loads \in Seq(Load) /\ loads' = Append(loads, new)
    BY <1>2 DEF CatalogInv, CatalogTypeOK, new
  <2>3. loads' \in Seq(Load) /\ Len(loads') = Len(loads) + 1 /\ loads'[n] = new
    BY <1>2, <2>1, <2>2
  <2>4. \A m \in DOMAIN loads : loads'[m] = loads[m]
    BY <2>1, <2>2
  <2>5. new.state = "running"
    BY DEF new
  <2>6. ASSUME NEW m \in DOMAIN loads', loads'[m].state = "running", ~loads'[m].spent
        PROVE  flight' = m
    <3>1. CASE m = n
      BY <1>2, <3>1
    <3>2. CASE m # n
      <4>1. m \in DOMAIN loads
        BY <1>2, <2>2, <2>3, <3>2
      <4>2. loads[m].state = "running" /\ ~loads[m].spent
        BY <2>4, <2>6, <4>1
      <4>3. flight = m /\ flight # 0
        BY <4>1, <4>2, <2>2 DEF CatalogInv, NewestIsCached
      <4> QED
        BY <1>2, <4>2, <4>3 DEF Joinable
    <3> QED
      BY <3>1, <3>2
  <2> QED
    BY <1>2, <2>3, <2>5, <2>6
    DEF CatalogInv, CatalogTypeOK, FlightInv, NewestIsCached
<1> QED
  BY <1>1, <1>2 DEF LoadAwaited

(* The end of a load that is no longer in flight changes that load only.   *)
LEMMA EndKeeps ==
  ASSUME CatalogInv, NEW n \in DOMAIN loads,
         NEW state \in {"available", "incomplete", "failed"}, LoadEnds(n, state)
  PROVE  CatalogInv'
<1>1. loads \in Seq(Load) /\ loads[n] \in Load /\ n \in Nat /\ n # 0 /\ n <= Len(loads)
  BY DEF CatalogInv, CatalogTypeOK
<1>2. loads' = [loads EXCEPT ![n].state = state] /\ [loads[n] EXCEPT !.state = state] \in Load
  BY <1>1 DEF LoadEnds, Load
<1>3. /\ loads' \in Seq(Load) /\ Len(loads') = Len(loads) /\ DOMAIN loads' = DOMAIN loads
      /\ loads'[n].state = state
      /\ \A m \in DOMAIN loads : m # n => loads'[m] = loads[m]
  BY <1>1, <1>2 DEF Load
<1>4. state # "running"
  OBVIOUS
<1>5. ASSUME NEW m \in DOMAIN loads', loads'[m].state = "running", ~loads'[m].spent
      PROVE  flight = m /\ m # n
  BY <1>3, <1>4, <1>5 DEF CatalogInv, NewestIsCached
<1>6. CASE n # flight
  <2>1. flight' = flight /\ cached' = cached /\ cooling' = cooling
    BY <1>6 DEF LoadEnds
  <2>2. flight # 0 => loads'[flight] = loads[flight]
    BY <1>1, <1>3, <1>6 DEF CatalogInv, FlightInv, CatalogTypeOK
  <2> QED
    BY <1>3, <1>5, <2>1, <2>2 DEF CatalogInv, CatalogTypeOK, FlightInv, NewestIsCached
<1>7. CASE n = flight
  <2>1. /\ flight' = 0 /\ cooling' = (state = "failed")
        /\ cached' = IF state = "failed" THEN cached ELSE n
    BY <1>7 DEF LoadEnds
  <2>2. n = Len(loads) /\ cached = 0
    BY <1>1, <1>7 DEF CatalogInv, FlightInv
  <2>3. \A m \in DOMAIN loads' : ~(loads'[m].state = "running" /\ ~loads'[m].spent)
    BY <1>5, <1>7
  <2>4. cooling' \in BOOLEAN
    BY <2>1
  <2> QED
    BY <1>1, <1>3, <2>1, <2>2, <2>3, <2>4
    DEF CatalogInv, CatalogTypeOK, FlightInv, NewestIsCached
<1> QED
  BY <1>6, <1>7

LEMMA LeaseKeeps ==
  ASSUME CatalogInv, LeaseEnds
  PROVE  CatalogInv'
<1>1. /\ loads \in Seq(Load) /\ flight \in DOMAIN loads /\ loads[flight] \in Load
      /\ flight = Len(loads) /\ flight # 0 /\ loads[flight].state = "running" /\ cached = 0
  BY DEF CatalogInv, CatalogTypeOK, FlightInv, LeaseEnds, Joinable
<1>2. /\ loads' = [loads EXCEPT ![flight].spent = TRUE]
      /\ [loads[flight] EXCEPT !.spent = TRUE] \in Load
  BY <1>1 DEF LeaseEnds, Load
<1>3. /\ loads' \in Seq(Load) /\ Len(loads') = Len(loads) /\ DOMAIN loads' = DOMAIN loads
      /\ loads'[flight].state = "running" /\ loads'[flight].spent
      /\ \A m \in DOMAIN loads : m # flight => loads'[m] = loads[m]
  BY <1>1, <1>2 DEF Load
<1> QED
  BY <1>1, <1>3 DEF CatalogInv, CatalogTypeOK, FlightInv, NewestIsCached, LeaseEnds

LEMMA CatalogStep == CatalogInv /\ [CatalogNext]_catalogVars => CatalogInv'
<1> SUFFICES ASSUME CatalogInv, [CatalogNext]_catalogVars PROVE CatalogInv'
  OBVIOUS
<1>1. CASE UNCHANGED catalogVars
  BY <1>1 DEF CatalogInv, CatalogTypeOK, FlightInv, NewestIsCached, catalogVars
<1>2. CASE CacheExpires \/ CooldownEnds
  BY <1>2 DEF CatalogInv, CatalogTypeOK, FlightInv, NewestIsCached,
              CacheExpires, CooldownEnds
<1>4. CASE CatalogLost
  <2>1. loads' = <<>> /\ flight' = 0 /\ cached' = 0 /\ cooling' \in BOOLEAN
    BY <1>4 DEF CatalogLost
  <2>2. CatalogTypeOK'
    BY <2>1, NoLoads DEF CatalogTypeOK
  <2> QED
    BY <2>1, <2>2, NoLoads DEF CatalogInv, FlightInv, NewestIsCached
<1>3. CASE LeaseEnds
  BY <1>3, LeaseKeeps
<1> QED
  BY <1>1, <1>2, <1>3, <1>4, AnswerKeeps, AwaitKeeps, EndKeeps DEF CatalogNext

(* What is cached is the newest load, whatever the order in which the      *)
(* loads end and however often leases, caches and cooldowns run out.       *)
THEOREM NewestLoadIsCached == CatalogSpec => []NewestIsCached
<1>1. CatalogInv => NewestIsCached
  BY DEF CatalogInv
<1> QED
  BY <1>1, CatalogInitInv, CatalogStep, PTL DEF CatalogSpec

-----------------------------------------------------------------------------
LEMMA PageKeepsCatalog == OnPage => UNCHANGED catalogVars
  BY DEF OnPage, hostVars

LEMMA UserKeepsCatalog == UserStep => UNCHANGED catalogVars
<1> SUFFICES ASSUME UserStep PROVE UNCHANGED catalogVars
  OBVIOUS
<1> USE PageKeepsCatalog
<1>1. CASE RequestDesign \/ Save \/ RunPreflight
  BY <1>1 DEF RequestDesign, Save, RunPreflight, Begins, Begin
<1>2. CASE Approve \/ CreateNewRevision
  BY <1>2 DEF Approve, CreateNewRevision, Begins, Begin
<1>3. CASE StartManual
  BY <1>3 DEF StartManual, Begins, Begin
<1>4. CASE UpdateContent \/ DiscardChanges
  BY <1>4 DEF UpdateContent, DiscardChanges
<1>5. CASE (\E p \in 1..MaxPlans : SelectPlan(p)) \/ (\E w \in {"model"} : AcceptWarning(w))
  BY <1>5 DEF SelectPlan, AcceptWarning
<1>6. CASE RequestExecution \/ PromptTimesOut
  BY <1>6 DEF RequestExecution, PromptTimesOut
<1>7. CASE Refresh \/ Leave \/ Return
  BY <1>7 DEF Refresh, Leave, Return, hostVars
<1> QED
  BY <1>1, <1>2, <1>3, <1>4, <1>5, <1>6, <1>7 DEF UserStep

(* What a request does to the catalog is to be answered by it or to wait.  *)
LEMMA HandledUsesCatalog ==
  ASSUME NEW c, Handled(c)
  PROVE  [CatalogNext]_catalogVars
<1>1. CASE HostSaves(c)
  BY <1>1 DEF HostSaves
<1>2. CASE HostReads(c)
  <2>1. CASE \E s \in Statuses : LoadAnswers(s)
    BY <2>1 DEF CatalogNext
  <2>2. CASE \E n \in 1..(Len(loads) + 1) : LoadAwaited(n)
    BY <2>2 DEF CatalogNext
  <2> QED
    BY <1>2, <2>1, <2>2 DEF HostReads
<1>3. CASE HostGivesUp(c)
  BY <1>3 DEF HostGivesUp, hostVars
<1>4. CASE HostConcludes(c)
  BY <1>4 DEF HostConcludes
<1> QED
  BY <1>1, <1>2, <1>3, <1>4 DEF Handled

LEMMA HostUsesCatalog == HostStep => [CatalogNext]_catalogVars
<1> SUFFICES ASSUME HostStep PROVE [CatalogNext]_catalogVars
  OBVIOUS
<1>1. CASE \E c \in Calls : Handled(c)
  BY <1>1, HandledUsesCatalog
<1>2. CASE \E c \in Calls : HostHearsAbort(c)
  BY <1>2 DEF HostHearsAbort, hostVars
<1>3. CASE \E n \in DOMAIN loads, s \in {"available", "incomplete", "failed"} :
             ProviderAnswers(n, s)
  <2> PICK n \in DOMAIN loads, s \in {"available", "incomplete", "failed"} : LoadEnds(n, s)
    BY <1>3 DEF ProviderAnswers
  <2> QED
    BY DEF CatalogNext
<1> QED
  BY <1>1, <1>2, <1>3 DEF HostStep

LEMMA StepUsesCatalog == [Next]_vars => [CatalogNext]_catalogVars
<1> SUFFICES ASSUME [Next]_vars PROVE [CatalogNext]_catalogVars
  OBVIOUS
<1>1. CASE UNCHANGED vars
  BY <1>1 DEF vars, hostVars
<1>2. CASE UserStep
  BY <1>2, UserKeepsCatalog
<1>3. CASE HostStep
  BY <1>3, HostUsesCatalog
<1>4. CASE Received \/ CallFails
  BY <1>4 DEF Received, CallFails, hostVars
<1>5. CASE PollStep \/ PollTimesOut \/ PollReceived \/ PollFails
  BY <1>5 DEF PollStep, PollTimesOut, PollReceived, PollFails, hostVars
<1>6. CASE Elsewhere \/ CapabilitiesChange
  BY <1>6 DEF Elsewhere, CapabilitiesChange
<1>7. CASE TimePasses
  BY <1>7 DEF TimePasses, CatalogNext
<1>8. CASE Restart
  BY <1>8 DEF Restart, CatalogNext
<1> QED
  BY <1>1, <1>2, <1>3, <1>4, <1>5, <1>6, <1>7, <1>8 DEF Next

(* The requests of the workbench implement the catalog: each step of the   *)
(* composition is a step of the catalog or leaves it alone.                *)
LEMMA WorkbenchUsesCatalog == Spec => CatalogSpec
<1>1. Init => CatalogInit
  BY DEF Init
<1> QED
  BY <1>1, StepUsesCatalog, PTL DEF Spec, CatalogSpec

(* Among the requests of a workbench, too, what is cached is the newest    *)
(* load.                                                                   *)
THEOREM WorkbenchCatalogIsNewest == Spec => []NewestIsCached
  BY WorkbenchUsesCatalog, NewestLoadIsCached, PTL

-----------------------------------------------------------------------------
(* Who waits, waits for a load that still runs: the end of a load tells    *)
(* all that wait for it, and a restart loses them with their loads.        *)
CallFields == {"name", "plan", "revision", "content", "digest", "accepted",
               "phase", "load", "provider", "status", "reply"}

Waits(c) ==
  /\ DOMAIN c = CallFields
  /\ c.phase = "waiting" => c.load \in DOMAIN loads /\ loads[c.load].state = "running"

WaitInv == \A c \in Calls : Waits(c)

LEMMA NewCallWaits == ASSUME NEW name PROVE Waits(Call(name)) /\ Waits(Call(name))'
  BY DEF Waits, Call, CallFields

LEMMA WaitingIsACall == ASSUME NEW c, Waits(c) PROVE c # NoCall
  BY DEF Waits, NoCall, CallFields

LEMMA SameLoadsWait == ASSUME WaitInv, UNCHANGED loads PROVE \A c \in Calls : Waits(c)'
  BY DEF WaitInv, Waits

(* Whatever is shown, no request becomes another one.                      *)
LEMMA ShowKeeps ==
  ASSUME WaitInv, NEW u, NEW request, Show(u, request), UNCHANGED loads,
         request = NoCall \/ Waits(request)
  PROVE  WaitInv'
<1>1. call' \in {NoCall, request} /\ orphans' \subseteq orphans \cup ({request} \ {NoCall})
  BY DEF Show
<1>2. Calls' \subseteq orphans \cup ({request} \ {NoCall})
  BY <1>1 DEF Calls, NoCall
<1>3. \A c \in orphans : Waits(c)'
  BY SameLoadsWait DEF Calls
<1>4. request # NoCall => Waits(request)'
  BY DEF Waits
<1> QED
  BY <1>2, <1>3, <1>4 DEF WaitInv

LEMMA CallIsACall == WaitInv => call = NoCall \/ Waits(call)
  BY DEF WaitInv, Calls

LEMMA UserKeepsWaiting == WaitInv /\ UserStep => WaitInv'
<1> SUFFICES ASSUME WaitInv, UserStep PROVE WaitInv'
  OBVIOUS
<1>0. UNCHANGED loads
  BY UserKeepsCatalog DEF catalogVars
<1>1. ASSUME NEW name, Begins(name) PROVE WaitInv'
  BY <1>0, <1>1, NewCallWaits, ShowKeeps DEF Begins
<1>2. ASSUME NEW u, NEW r \in {call, NoCall}, Show(u, r) PROVE WaitInv'
  BY <1>0, <1>2, CallIsACall, ShowKeeps
<1>3. CASE RequestDesign \/ Save \/ RunPreflight \/ Approve \/ CreateNewRevision
  BY <1>1, <1>3 DEF RequestDesign, Save, RunPreflight, Approve, CreateNewRevision, Begin
<1>4. CASE StartManual
  BY <1>1, <1>2, <1>4 DEF StartManual, Begin, Finish
<1>5. CASE UpdateContent \/ DiscardChanges
  BY <1>2, <1>5 DEF UpdateContent, DiscardChanges
<1>6. CASE (\E p \in 1..MaxPlans : SelectPlan(p)) \/ (\E w \in {"model"} : AcceptWarning(w))
  BY <1>2, <1>6 DEF SelectPlan, AcceptWarning
<1>7. CASE RequestExecution
  <2>1. call' \in {NoCall, Call("execute")} /\ orphans' = orphans
    BY <1>7 DEF RequestExecution
  <2>2. \A c \in orphans : Waits(c)'
    BY <1>0, SameLoadsWait DEF Calls
  <2>3. Calls' \subseteq orphans \cup {Call("execute")}
    BY <2>1 DEF Calls, NoCall
  <2> QED
    BY <1>0, <2>2, <2>3, NewCallWaits DEF WaitInv, Waits
<1>8. CASE PromptTimesOut \/ Refresh \/ Leave \/ Return
  BY <1>2, <1>8 DEF PromptTimesOut, Refresh, Leave, Return
<1> QED
  BY <1>3, <1>4, <1>5, <1>6, <1>7, <1>8 DEF UserStep

(* One request moves on, and the others wait as before.                    *)
LEMMA BecomesKeeps ==
  ASSUME NEW c \in Calls, NEW d, Becomes(c, d), Waits(d)', \A x \in Calls : Waits(x)'
  PROVE  WaitInv'
<1>1. Calls' \subseteq Calls \cup {d}
  BY DEF Becomes, Calls, NoCall
<1> QED
  BY <1>1 DEF WaitInv

LEMMA ReplyKeeps ==
  ASSUME NEW c \in Calls, NEW reply, Reply(c, reply), \A x \in Calls : Waits(x)'
  PROVE  WaitInv'
<1> DEFINE d == [c EXCEPT !.phase = "answered", !.reply = reply]
<1>1. DOMAIN c = CallFields
  BY DEF Waits
<1>2. DOMAIN d = CallFields /\ d.phase = "answered"
  BY <1>1 DEF CallFields
<1>3. Becomes(c, d)
  BY DEF Reply
<1>4. Waits(d)'
  BY <1>2 DEF Waits
<1> HIDE DEF d
<1> QED
  BY <1>3, <1>4, BecomesKeeps

LEMMA ConcludesReplies ==
  ASSUME NEW c, NEW d, Concludes(c, d)
  PROVE  \E reply : Reply(c, reply)
  BY DEF Concludes

LEMMA HandledKeepsWaiting ==
  ASSUME CatalogInv, WaitInv, NEW c \in Calls, Handled(c)
  PROVE  WaitInv'
<1>1. ASSUME UNCHANGED loads, NEW reply, Reply(c, reply) PROVE WaitInv'
  BY <1>1, SameLoadsWait, ReplyKeeps
<1>2. DOMAIN c = CallFields
  BY DEF WaitInv, Waits
<1>3. CASE HostSaves(c)
  BY <1>1, <1>3 DEF HostSaves, catalogVars
<1>4. CASE HostGivesUp(c)
  <2> DEFINE d == Told(c, "unavailable")
  <2>1. DOMAIN d = CallFields /\ d.phase = "ready"
    BY <1>2 DEF Told, CallFields
  <2>2. Waits(d)'
    BY <2>1 DEF Waits
  <2>3. Becomes(c, d) /\ UNCHANGED loads
    BY <1>4 DEF HostGivesUp, hostVars, catalogVars
  <2> HIDE DEF d
  <2> QED
    BY <2>2, <2>3, SameLoadsWait, BecomesKeeps
<1>5. CASE HostConcludes(c)
  BY <1>1, <1>5, ConcludesReplies DEF HostConcludes, catalogVars
<1>6. CASE HostReads(c)
  <2>1. ASSUME NEW s \in Statuses, NEW d, LoadAnswers(s), Concludes(c, d) PROVE WaitInv'
    BY <1>1, <2>1, ConcludesReplies DEF LoadAnswers, catalogVars
  <2>2. ASSUME NEW n \in 1..(Len(loads) + 1), LoadAwaited(n),
               NEW d, DOMAIN d = CallFields, d.phase = "waiting", d.load = n, Becomes(c, d)
        PROVE  WaitInv'
    <3>1. CASE Joinable /\ n = flight /\ UNCHANGED catalogVars
      <4>1. n \in DOMAIN loads /\ loads[n].state = "running" /\ UNCHANGED loads
        BY <3>1 DEF CatalogInv, CatalogTypeOK, FlightInv, Joinable, catalogVars
      <4>2. Waits(d)'
        BY <2>2, <4>1 DEF Waits
      <4> QED
        BY <2>2, <4>1, <4>2, SameLoadsWait, BecomesKeeps
    <3>2. CASE /\ n = Len(loads) + 1
               /\ loads' = Append(loads, [state |-> "running", spent |-> FALSE])
      <4> DEFINE new == [state |-> "running", spent |-> FALSE]
      <4>1. new \in Load /\ new.state = "running"
        BY DEF Load
      <4> HIDE DEF new
      <4>2. loads \in Seq(Load) /\ loads' = Append(loads, new)
        BY <3>2 DEF CatalogInv, CatalogTypeOK, new
      <4>3. n \in DOMAIN loads' /\ loads'[n] = new
        BY <3>2, <4>1, <4>2
      <4>4. \A m \in DOMAIN loads : m \in DOMAIN loads' /\ loads'[m] = loads[m]
        BY <4>1, <4>2
      <4>5. \A x \in Calls : Waits(x)'
        BY <4>4 DEF WaitInv, Waits
      <4>6. Waits(d)'
        BY <2>2, <4>1, <4>3 DEF Waits
      <4> QED
        BY <2>2, <4>5, <4>6, BecomesKeeps
    <3> QED
      BY <2>2, <3>1, <3>2 DEF LoadAwaited
  <2> DEFINE d == [c EXCEPT !.provider = "provider" \in enforced]
  <2>3. DOMAIN d = CallFields
    BY <1>2
  <2>4. ASSUME NEW n, NEW e, e = [d EXCEPT !.phase = "waiting", !.load = n]
        PROVE  DOMAIN e = CallFields /\ e.phase = "waiting" /\ e.load = n
    BY <2>3, <2>4 DEF CallFields
  <2>5. \/ \E s \in Statuses : LoadAnswers(s) /\ Concludes(c, [d EXCEPT !.status = s])
        \/ \E n \in 1..(Len(loads) + 1) :
              LoadAwaited(n) /\ Becomes(c, [d EXCEPT !.phase = "waiting", !.load = n])
    BY <1>6 DEF HostReads
  <2> HIDE DEF d
  <2> QED
    BY <2>1, <2>2, <2>4, <2>5
<1> QED
  BY <1>3, <1>4, <1>5, <1>6 DEF Handled

(* The end of load n: those that wait for it are told, and no other load   *)
(* changes.                                                                *)
LEMMA AnswerKeepsWaiting ==
  ASSUME CatalogInv, WaitInv, NEW n \in DOMAIN loads,
         NEW s \in {"available", "incomplete", "failed"}, ProviderAnswers(n, s)
  PROVE  WaitInv'
<1> DEFINE tell(c) == IF c # NoCall /\ c.load = n THEN Told(c, StatusOf(s)) ELSE c
<1>1. LoadEnds(n, s) /\ call' = tell(call) /\ orphans' = {tell(c) : c \in orphans}
  BY DEF ProviderAnswers
<1>2. /\ loads \in Seq(Load) /\ loads[n] \in Load
      /\ loads' = [loads EXCEPT ![n].state = s]
  BY <1>1 DEF CatalogInv, CatalogTypeOK, LoadEnds
<1>3. \A m \in DOMAIN loads : m \in DOMAIN loads' /\ (m # n => loads'[m] = loads[m])
  BY <1>2
<1>4. ASSUME NEW c \in Calls PROVE Waits(tell(c))'
  <2>1. Waits(c) /\ c # NoCall
    BY WaitingIsACall DEF WaitInv
  <2>2. CASE c.load = n
    <3> DEFINE d == Told(c, StatusOf(s))
    <3>1. DOMAIN d = CallFields /\ d.phase = "ready"
      BY <2>1 DEF Told, Waits, CallFields
    <3>2. Waits(d)'
      BY <3>1 DEF Waits
    <3> QED
      BY <2>1, <2>2, <3>2
  <2>3. CASE c.load # n
    <3>1. Waits(c)'
      BY <1>3, <2>1, <2>3 DEF Waits
    <3> QED
      BY <2>3, <3>1
  <2> QED
    BY <2>2, <2>3
<1>5. tell(NoCall) = NoCall
  OBVIOUS
<1>6. ASSUME NEW x \in Calls' PROVE \E c \in Calls : x = tell(c)
  <2>1. CASE x \in orphans'
    BY <1>1, <2>1 DEF Calls
  <2>2. CASE x = call' /\ x # NoCall
    BY <1>1, <1>5, <2>2 DEF Calls
  <2> QED
    BY <1>6, <2>1, <2>2 DEF Calls, NoCall
<1> HIDE DEF tell
<1> QED
  BY <1>4, <1>6 DEF WaitInv

LEMMA StepKeepsWaiting == CatalogInv /\ WaitInv /\ [Next]_vars => WaitInv'
<1> SUFFICES ASSUME CatalogInv, WaitInv, [Next]_vars PROVE WaitInv'
  OBVIOUS
<1>1. CASE UNCHANGED <<call, orphans, loads>>
  BY <1>1 DEF WaitInv, Waits, Calls, NoCall
<1>2. CASE UNCHANGED vars
  BY <1>1, <1>2 DEF vars, hostVars, catalogVars
<1>3. CASE UserStep
  BY <1>3, UserKeepsWaiting
<1>4. CASE HostStep
  <2>1. CASE \E c \in Calls : Handled(c)
    BY <2>1, HandledKeepsWaiting
  <2>2. CASE \E c \in Calls : HostHearsAbort(c)
    <3>1. UNCHANGED loads /\ Calls' \subseteq Calls
      BY <2>2 DEF HostHearsAbort, hostVars, catalogVars, Calls, NoCall
    <3> QED
      BY <3>1, SameLoadsWait DEF WaitInv
  <2>3. CASE \E n \in DOMAIN loads, s \in {"available", "incomplete", "failed"} :
               ProviderAnswers(n, s)
    BY <2>3, AnswerKeepsWaiting
  <2> QED
    BY <1>4, <2>1, <2>2, <2>3 DEF HostStep
<1>5. CASE Received \/ CallFails \/ PollReceived \/ PollFails
  <2>1. UNCHANGED loads
    BY <1>5 DEF Received, CallFails, PollReceived, PollFails, hostVars, catalogVars
  <2>2. \E u, r : Show(u, r) /\ (r = call \/ r = NoCall)
    BY <1>5 DEF Received, CallFails, PollReceived, PollFails, Finish
  <2> QED
    BY <2>1, <2>2, CallIsACall, ShowKeeps
<1>6. CASE PollStep \/ PollTimesOut \/ Elsewhere \/ CapabilitiesChange
  BY <1>1, <1>6 DEF PollStep, PollTimesOut, Elsewhere, CapabilitiesChange, hostVars, catalogVars
<1>7. CASE TimePasses
  <2>1. UNCHANGED <<call, orphans>>
    BY <1>7 DEF TimePasses
  <2>2. CASE CacheExpires \/ CooldownEnds
    BY <1>1, <2>1, <2>2 DEF CacheExpires, CooldownEnds
  <2>3. CASE LeaseEnds
    <3>1. /\ loads \in Seq(Load) /\ flight \in DOMAIN loads /\ loads[flight] \in Load
          /\ loads' = [loads EXCEPT ![flight].spent = TRUE]
      BY <2>3 DEF CatalogInv, CatalogTypeOK, FlightInv, LeaseEnds, Joinable
    <3>2. \A m \in DOMAIN loads : m \in DOMAIN loads' /\ loads'[m].state = loads[m].state
      BY <3>1 DEF Load
    <3>3. \A c \in Calls : Waits(c)'
      BY <3>2 DEF WaitInv, Waits
    <3> QED
      BY <2>1, <3>3 DEF WaitInv, Calls, NoCall
  <2> QED
    BY <1>7, <2>2, <2>3 DEF TimePasses
<1>8. CASE Restart
  <2>1. /\ orphans' = {}
        /\ call' = IF call = NoCall \/ call.phase \in {"sent", "answered"} THEN call
                   ELSE [call EXCEPT !.phase = "answered", !.load = 0]
    BY <1>8 DEF Restart
  <2>2. CASE call = NoCall
    BY <2>1, <2>2 DEF WaitInv, Calls, NoCall
  <2>3. CASE call # NoCall /\ call.phase \in {"sent", "answered"}
    <3>1. DOMAIN call = CallFields
      BY <2>3, CallIsACall DEF Waits
    <3>2. call' = call /\ Calls' = {call}
      BY <2>1, <2>3 DEF Calls, NoCall
    <3> QED
      BY <2>3, <3>1, <3>2 DEF WaitInv, Waits
  <2>4. CASE call # NoCall /\ call.phase \notin {"sent", "answered"}
    <3>1. DOMAIN call = CallFields
      BY <2>4, CallIsACall DEF Waits
    <3>2. DOMAIN call' = CallFields /\ call'.phase = "answered"
      BY <2>1, <2>4, <3>1 DEF CallFields
    <3>3. Calls' \subseteq {call'}
      BY <2>1 DEF Calls, NoCall
    <3> QED
      BY <3>2, <3>3 DEF WaitInv, Waits
  <2> QED
    BY <2>2, <2>3, <2>4
<1> QED
  BY <1>2, <1>3, <1>4, <1>5, <1>6, <1>7, <1>8 DEF Next

(* Whatever callers give up, whatever a load brings and however leases and *)
(* caches run out, nobody waits for a load that is over, and a load that   *)
(* was given up never replaces the models of a later one.                  *)
THEOREM CatalogStaysHonest == Spec => []CatalogIsHonest
<1>1. Init => CatalogInv /\ WaitInv
  BY CatalogInitInv DEF Init, WaitInv, Calls, NoCall
<1>2. CatalogInv /\ [Next]_vars => CatalogInv'
  BY StepUsesCatalog, CatalogStep
<1>3. CatalogInv /\ WaitInv => CatalogIsHonest
  BY DEF CatalogInv, WaitInv, Waits, CatalogIsHonest
<1> QED
  BY <1>1, <1>2, <1>3, StepKeepsWaiting, PTL DEF Spec

-----------------------------------------------------------------------------
(* What the host and its plans, the component and its requests are.        *)
Powers   == {"provider", "agent"}
Warnings == {"model"}
RevState == {"draft", "approved", "superseded"}

Revision == [state : RevState, content : Nat,
             by : {"none", "this workbench", "another"},
             digest : SUBSET Powers, warnings : SUBSET Warnings]
History == Seq(Revision) \ {<<>>}

Brief == [revision : Nat, state : RevState, content : Nat]
Brochure == [host : Nat, revision : Nat, latest : Nat, plans : Seq(Brief)]

Editor == [plan : Nat, revision : Int, state : {"none", "draft", "approved"},
           content : Nat, dirty : BOOLEAN]
Check == [plan : Nat, revision : Int, digest : SUBSET Powers, valid : BOOLEAN,
          warnings : SUBSET Warnings]
CallName == {"generate", "manual", "save", "preflight", "approve", "new-revision",
             "execute"}
Component ==
  [active : BOOLEAN, status : {"loading", "ready", "error"}, shown : Brochure,
   selected : Nat, editor : Editor, preflight : Check, accepted : SUBSET Warnings,
   action : CallName \cup {"none"}, armed : Nat \X Int, prompted : BOOLEAN]

Plain   == [ok : BOOLEAN]
Checked == [ok : {TRUE}, preflight : Check]
Saved   == [ok : {TRUE}, plan : Nat, saved : Brief]
Request ==
  [name : CallName, plan : Nat, revision : Int, content : Nat,
   digest : SUBSET Powers, accepted : SUBSET Warnings,
   phase : {"sent", "waiting", "ready", "answered"}, load : Nat,
   provider : BOOLEAN, status : Statuses \cup {"none"},
   reply : Plain \cup Checked \cup Saved]
Poll == [phase : {"off", "waiting", "answered", "broken"}, after : Nat,
         reply : Brochure \cup {Unanswered}]

HostTyped ==
  /\ host \in Nat /\ revision \in Nat /\ latest \in Nat
  /\ plans \in Seq(History)
  /\ plans # <<>> => latest \in DOMAIN plans
  /\ enforced \subseteq Powers
  /\ left \in [Kinds -> Nat]
  /\ clicks \in Nat

-----------------------------------------------------------------------------
(* The invariant, for plans P, previews S that were shown and warnings T   *)
(* that were ticked.                                                       *)

Approved(P, p, n) ==
  p \in DOMAIN P /\ n \in DOMAIN P[p] /\ P[p][n].state = "approved"

(* The host has what a snapshot lists, and what is approved there is so.   *)
Listed(P, s) ==
  /\ DOMAIN s.plans \subseteq DOMAIN P
  /\ s.plans # <<>> => s.latest \in DOMAIN s.plans
  /\ \A p \in DOMAIN s.plans :
       s.plans[p].state = "approved" => Approved(P, p, s.plans[p].revision)

(* The editor holds a plan of the host or a new one; only a draft has      *)
(* edits.                                                                  *)
Edited(P, e) ==
  /\ e.plan # NoPlan => e.plan \in DOMAIN P
  /\ e.state = "approved" => Approved(P, e.plan, e.revision)
  /\ e.dirty => e.state = "draft"

(* A valid preflight was shown, and what is accepted of it was ticked.     *)
Previewed(S, T, check, accepted) ==
  /\ check.valid => <<check.plan, check.revision, check.digest>> \in S
  /\ \A w \in accepted : <<check.plan, check.revision, w>> \in T

Shows(P, S, T, u) ==
  /\ u \in Component
  /\ Listed(P, u.shown) /\ Edited(P, u.editor)
  /\ Previewed(S, T, u.preflight, u.accepted)

(* A request is for a plan of the host, an approval for what was reviewed; *)
(* and a good answer is about what was asked.                              *)
Asked(P, S, T, c) ==
  /\ c \in Request
  /\ c.plan # NoPlan => c.plan \in DOMAIN P
  /\ c.name = "approve" =>
       /\ c.plan # NoPlan
       /\ <<c.plan, c.revision, c.digest>> \in S
       /\ \A w \in c.accepted : <<c.plan, c.revision, w>> \in T
Fits(P, c, reply) ==
  reply.ok =>
    /\ c.name = "preflight" =>
         /\ reply \in Checked
         /\ reply.preflight.plan = c.plan /\ reply.preflight.revision = c.revision
    /\ c.name \in {"save", "new-revision", "approve"} =>
         /\ reply \in Saved
         /\ reply.plan \in DOMAIN P
         /\ reply.saved.state = "approved" =>
              Approved(P, reply.plan, reply.saved.revision)
    /\ c.name = "save" => \E p \in DOMAIN P : \E n \in DOMAIN P[p] : P[p][n].content = c.content
Answers(P, c) == Fits(P, c, c.reply)

RequestsInv == \A c \in Calls : Asked(plans, seen, ticked, c) /\ Answers(plans, c)

PollInv ==
  /\ poll \in Poll
  /\ poll.phase = "answered" => poll.reply \in Brochure /\ Listed(plans, poll.reply)

(* The action under way and its request, after k clicks. *)
Acts(P, u, c, k) ==
  /\ u.action = "none" <=> c = NoCall
  /\ c.name \in {"manual", "new-revision", "approve"} => ~u.editor.dirty
  /\ c.name = "save" /\ u.editor.dirty => u.editor.content = c.content
  /\ c.name = "execute" => k >= 2 /\ Approved(P, c.plan, c.revision)
  /\ u.armed # NoTarget => k >= 1

ActionInv ==
  Acts(plans, ui, call, clicks) /\ (~ui.active => ui.action = "none")

ReviewedInv ==
  \A p \in DOMAIN plans : \A n \in DOMAIN plans[p] :
    plans[p][n].by = "this workbench" =>
      /\ <<p, n, plans[p][n].digest>> \in seen
      /\ \A w \in plans[p][n].warnings : <<p, n, w>> \in ticked

BenchInv ==
  /\ HostTyped /\ Shows(plans, seen, ticked, ui)
  /\ RequestsInv /\ PollInv /\ ActionInv /\ ReviewedInv

-----------------------------------------------------------------------------
(* What a new revision and an approval do to the plans.                    *)

(* Contents and approvals stay. *)
Keeps(P, Q) ==
  \A p \in DOMAIN P :
    /\ p \in DOMAIN Q
    /\ \A n \in DOMAIN P[p] :
         /\ n \in DOMAIN Q[p]
         /\ Q[p][n].content = P[p][n].content
         /\ P[p][n].state = "approved" => Q[p][n].state = "approved"

(* This workbench approved in Q what it did in P. *)
SameReviews(P, Q) ==
  \A p \in DOMAIN Q : \A n \in DOMAIN Q[p] :
    Q[p][n].by = "this workbench" =>
      /\ p \in DOMAIN P /\ n \in DOMAIN P[p]
      /\ P[p][n].by = "this workbench"
      /\ Q[p][n].digest = P[p][n].digest /\ Q[p][n].warnings = P[p][n].warnings

LEMMA SamePlansKeep == ASSUME NEW P PROVE Keeps(P, P) /\ SameReviews(P, P)
  BY DEF Keeps, SameReviews

(* An element of a sequence changes, an element is added.                  *)
LEMMA SeqChanges ==
  ASSUME NEW S, NEW s \in Seq(S), NEW i \in DOMAIN s, NEW a \in S,
         NEW t, t = [s EXCEPT ![i] = a]
  PROVE  /\ t \in Seq(S) /\ Len(t) = Len(s) /\ DOMAIN t = DOMAIN s /\ t[i] = a
         /\ \A n \in DOMAIN s : n # i => t[n] = s[n]
<1>1. Len(s) \in Nat /\ DOMAIN s = 1..Len(s)
  BY LenProperties
<1>2. t \in Seq(S) /\ Len(t) = Len(s)
  BY <1>1, ExceptSeq
<1>3. t[i] = a /\ \A n \in DOMAIN s : n # i => t[n] = s[n]
  OBVIOUS
<1> QED
  BY <1>1, <1>2, <1>3, LenProperties

LEMMA SeqAdds ==
  ASSUME NEW S, NEW s \in Seq(S), NEW a \in S, NEW t, t = Append(s, a)
  PROVE  /\ t \in Seq(S) /\ Len(s) \in Nat /\ DOMAIN s = 1..Len(s)
         /\ Len(t) = Len(s) + 1 /\ DOMAIN t = 1..(Len(s) + 1)
         /\ t[Len(s) + 1] = a
         /\ \A n \in DOMAIN s : n \in DOMAIN t /\ t[n] = s[n]
<1>1. Len(s) \in Nat /\ DOMAIN s = 1..Len(s)
  BY LenProperties
<1>2. t \in Seq(S) /\ Len(t) = Len(s) + 1 /\ t[Len(s) + 1] = a
  BY <1>1, AppendProperties
<1>3. DOMAIN t = 1..(Len(s) + 1)
  BY <1>2, LenProperties
<1>4. \A n \in DOMAIN s : n \in DOMAIN t /\ t[n] = s[n]
  BY <1>1, <1>3, AppendProperties
<1> QED
  BY <1>1, <1>2, <1>3, <1>4

LEMMA HistoryLast ==
  ASSUME NEW h \in History
  PROVE  /\ h \in Seq(Revision) /\ Len(h) \in Nat /\ DOMAIN h = 1..Len(h)
         /\ Len(h) \in DOMAIN h /\ Len(h) # 0 /\ h[Len(h)] \in Revision
<1>1. h \in Seq(Revision) /\ h # <<>>
  BY DEF History
<1>2. Len(h) \in Nat /\ DOMAIN h = 1..Len(h) /\ Len(h) # 0
  BY <1>1
<1>3. Len(h) \in 1..Len(h)
  BY <1>2
<1> QED
  BY <1>1, <1>2, <1>3

LEMMA DraftRevision ==
  ASSUME NEW content \in Nat
  PROVE  /\ Draft(content) \in Revision /\ Draft(content).by = "none"
         /\ Draft(content).content = content /\ Draft(content).state = "draft"
  BY DEF Draft, Revision, RevState

LEMMA SupersededRevision ==
  ASSUME NEW r \in Revision
  PROVE  /\ Superseded(r) \in Revision
         /\ Superseded(r).content = r.content /\ Superseded(r).by = r.by
         /\ Superseded(r).digest = r.digest /\ Superseded(r).warnings = r.warnings
         /\ r.state = "approved" => Superseded(r).state = "approved"
  BY DEF Superseded, Revision, RevState

LEMMA OneMore ==
  ASSUME NEW k \in Nat
  PROVE  /\ k + 1 \in Nat /\ k + 1 # 0 /\ k + 1 \in 1..(k + 1)
         /\ \A n \in 1..k : n \in 1..(k + 1) /\ n # k + 1
         /\ \A n \in 1..(k + 1) : n = k + 1 \/ n \in 1..k
  OBVIOUS

(* A draft is added to the history of a plan. *)
Grown(h, g, content) ==
  /\ g \in History
  /\ Len(g) \in DOMAIN g /\ Len(g) \in Nat
  /\ g[Len(g)] = Draft(content)
  /\ \A n \in DOMAIN h :
       /\ n \in DOMAIN g /\ n # Len(g)
       /\ g[n].content = h[n].content /\ g[n].by = h[n].by
       /\ g[n].digest = h[n].digest /\ g[n].warnings = h[n].warnings
       /\ h[n].state = "approved" => g[n].state = "approved"
  /\ \A n \in DOMAIN g : n = Len(g) \/ n \in DOMAIN h

LEMMA HistoryGrows ==
  ASSUME NEW h \in History, NEW content \in Nat
  PROVE  Grown(h, Append([h EXCEPT ![Len(h)] = Superseded(h[Len(h)])], Draft(content)),
               content)
<1> DEFINE k == Len(h)
           last == h[k]
           old == Superseded(last)
           f == [h EXCEPT ![k] = old]
           d == Draft(content)
           g == Append(f, d)
<1>1. /\ h \in Seq(Revision) /\ k \in Nat /\ DOMAIN h = 1..k
      /\ k \in DOMAIN h /\ last \in Revision
  BY HistoryLast
<1>2. /\ old \in Revision
      /\ old.content = last.content /\ old.by = last.by
      /\ old.digest = last.digest /\ old.warnings = last.warnings
      /\ last.state = "approved" => old.state = "approved"
  BY <1>1, SupersededRevision
<1>3. d \in Revision
  BY DraftRevision
<1> HIDE DEF k, last, old, d
<1>4. /\ f \in Seq(Revision) /\ Len(f) = k /\ DOMAIN f = DOMAIN h
      /\ f[k] = old
      /\ \A n \in DOMAIN h : n # k => f[n] = h[n]
  BY <1>1, <1>2, SeqChanges DEF k
<1> HIDE DEF f
<1>5. /\ g \in Seq(Revision) /\ Len(g) = Len(f) + 1 /\ DOMAIN g = 1..(Len(f) + 1)
      /\ g[Len(f) + 1] = d
      /\ \A n \in DOMAIN f : g[n] = f[n]
  BY <1>3, <1>4, SeqAdds
<1> HIDE DEF g
<1>6. /\ Len(g) = k + 1 /\ DOMAIN g = 1..(k + 1) /\ g[k + 1] = d
      /\ \A n \in DOMAIN h : g[n] = f[n]
  BY <1>4, <1>5
<1>7. /\ Len(g) \in DOMAIN g /\ Len(g) \in Nat /\ Len(g) # 0 /\ g[Len(g)] = d
      /\ \A n \in DOMAIN h : n \in DOMAIN g /\ n # Len(g)
      /\ \A n \in DOMAIN g : n = Len(g) \/ n \in DOMAIN h
  BY <1>1, <1>6, OneMore
<1>8. g \in History
  <2>1. Len(<<>>) = 0
    OBVIOUS
  <2> QED
    BY <1>5, <1>7, <2>1 DEF History
<1>9. ASSUME NEW n \in DOMAIN h
      PROVE  /\ g[n].content = h[n].content /\ g[n].by = h[n].by
             /\ g[n].digest = h[n].digest /\ g[n].warnings = h[n].warnings
             /\ h[n].state = "approved" => g[n].state = "approved"
  <2>1. g[n] = f[n]
    BY <1>6
  <2>2. CASE n = k
    BY <1>2, <1>4, <2>1, <2>2 DEF last
  <2>3. CASE n # k
    BY <1>4, <2>1, <2>3
  <2> QED
    BY <2>2, <2>3
<1>10. Grown(h, g, content)
  BY <1>7, <1>8, <1>9 DEF Grown, d
<1> QED
  BY <1>10 DEF g, f, d, old, last, k

LEMMA PlansDomain ==
  ASSUME NEW P \in Seq(History)
  PROVE  /\ Len(P) \in Nat /\ DOMAIN P = 1..Len(P)
         /\ \A p \in DOMAIN P : P[p] \in History /\ p \in Nat /\ p # 0
  OBVIOUS

(* A draft of a plan there is, or of the next one. *)
LEMMA SaveKeeps ==
  ASSUME plans \in Seq(History), NEW content \in Nat,
         NEW p, p \in DOMAIN plans \/ p = Len(plans) + 1, SaveDraft(p, content)
  PROVE  /\ plans' \in Seq(History)
         /\ Keeps(plans, plans') /\ SameReviews(plans, plans')
         /\ p \in DOMAIN plans' /\ p # 0 /\ p \in Nat
         /\ Len(plans'[p]) \in DOMAIN plans'[p] /\ Len(plans'[p]) \in Nat
         /\ plans'[p][Len(plans'[p])].content = content
<1>0. Len(plans) \in Nat /\ DOMAIN plans = 1..Len(plans)
  BY PlansDomain
<1>1. CASE p \in DOMAIN plans
  <2> DEFINE h == plans[p]
             g == Append([h EXCEPT ![Len(h)] = Superseded(h[Len(h)])], Draft(content))
  <2>1. plans' = [plans EXCEPT ![p] = g]
    BY <1>1 DEF SaveDraft, Last
  <2>2. h \in History /\ p \in Nat /\ p # 0
    BY <1>1, PlansDomain
  <2> HIDE DEF h
  <2>3. Grown(h, g, content)
    BY <2>2, HistoryGrows
  <2> HIDE DEF g
  <2>4. /\ plans' \in Seq(History) /\ DOMAIN plans' = DOMAIN plans /\ plans'[p] = g
        /\ \A q \in DOMAIN plans : q # p => plans'[q] = plans[q]
    BY <1>1, <2>1, <2>3, SeqChanges DEF Grown
  <2>5. Draft(content).by = "none" /\ Draft(content).content = content
    BY DraftRevision
  <2>6. Keeps(plans, plans')
    <3> SUFFICES ASSUME NEW q \in DOMAIN plans, NEW n \in DOMAIN plans[q]
                 PROVE  /\ q \in DOMAIN plans' /\ n \in DOMAIN plans'[q]
                        /\ plans'[q][n].content = plans[q][n].content
                        /\ plans[q][n].state = "approved" => plans'[q][n].state = "approved"
      BY <2>4 DEF Keeps
    <3>1. CASE q = p
      BY <2>3, <2>4, <3>1 DEF h, Grown
    <3>2. CASE q # p
      BY <2>4, <3>2
    <3> QED
      BY <3>1, <3>2
  <2>7. SameReviews(plans, plans')
    <3> SUFFICES ASSUME NEW q \in DOMAIN plans', NEW n \in DOMAIN plans'[q],
                        plans'[q][n].by = "this workbench"
                 PROVE  /\ q \in DOMAIN plans /\ n \in DOMAIN plans[q]
                        /\ plans[q][n].by = "this workbench"
                        /\ plans'[q][n].digest = plans[q][n].digest
                        /\ plans'[q][n].warnings = plans[q][n].warnings
      BY DEF SameReviews
    <3>1. CASE q = p
      <4>1. n \in DOMAIN h
        BY <2>3, <2>4, <2>5, <3>1 DEF Grown
      <4> QED
        BY <2>3, <2>4, <3>1, <4>1 DEF h, Grown
    <3>2. CASE q # p
      BY <2>4, <3>2
    <3> QED
      BY <3>1, <3>2
  <2> QED
    BY <1>1, <2>2, <2>3, <2>4, <2>5, <2>6, <2>7 DEF Grown
<1>2. CASE p \notin DOMAIN plans
  <2> DEFINE d == Draft(content)
             g == <<d>>
  <2>1. p = Len(plans) + 1 /\ plans' = Append(plans, g)
    BY <1>2 DEF SaveDraft
  <2>2. d \in Revision /\ d.by = "none" /\ d.content = content
    BY DraftRevision
  <2> HIDE DEF d
  <2>3. g \in Seq(Revision) /\ g # <<>> /\ Len(g) = 1 /\ DOMAIN g = {1} /\ g[1] = d
    BY <2>2
  <2>4. g \in History
    BY <2>3 DEF History
  <2> HIDE DEF g
  <2>5. /\ plans' \in Seq(History) /\ DOMAIN plans' = 1..(Len(plans) + 1)
        /\ plans'[p] = g
        /\ \A q \in DOMAIN plans : q \in DOMAIN plans' /\ plans'[q] = plans[q]
    BY <2>1, <2>4, SeqAdds
  <2>7. /\ p \in DOMAIN plans' /\ p \in Nat /\ p # 0
        /\ \A q \in DOMAIN plans : q \in DOMAIN plans'
        /\ \A q \in DOMAIN plans' : q = p \/ q \in DOMAIN plans
    BY <1>0, <2>1, <2>5
  <2>8. Keeps(plans, plans')
    BY <2>5, <2>7 DEF Keeps
  <2>9. SameReviews(plans, plans')
    <3> SUFFICES ASSUME NEW q \in DOMAIN plans', NEW n \in DOMAIN plans'[q],
                        plans'[q][n].by = "this workbench"
                 PROVE  q \in DOMAIN plans
      BY <2>5 DEF SameReviews
    <3>1. q # p
      BY <2>2, <2>3, <2>5
    <3> QED
      BY <2>7, <3>1
  <2>10. /\ Len(plans'[p]) \in DOMAIN plans'[p] /\ Len(plans'[p]) \in Nat
         /\ plans'[p][Len(plans'[p])].content = content
    <3>1. Len(g) = 1 /\ 1 \in DOMAIN g /\ g[1].content = content
      BY <2>2, <2>3
    <3> QED
      BY <2>5, <3>1
  <2> QED
    BY <2>5, <2>7, <2>8, <2>9, <2>10
<1> QED
  BY <1>1, <1>2

(* The last revision of a plan, a draft, is approved. *)
Sealed(P, Q, p, by, digest, warnings) ==
  \A q \in DOMAIN Q : \A n \in DOMAIN Q[q] :
    /\ q \in DOMAIN P /\ n \in DOMAIN P[q]
    /\ IF q = p /\ n = Len(P[p])
       THEN Q[q][n].by = by /\ Q[q][n].digest = digest /\ Q[q][n].warnings = warnings
       ELSE Q[q][n] = P[q][n]

LEMMA ApproveKeeps ==
  ASSUME plans \in Seq(History), NEW p \in DOMAIN plans, Last(p).state = "draft",
         NEW by \in {"this workbench", "another"}, NEW digest \in SUBSET Powers,
         NEW warnings \in SUBSET Warnings, ApproveDraft(p, by, digest, warnings)
  PROVE  /\ plans' \in Seq(History) /\ Keeps(plans, plans')
         /\ Approved(plans', p, Len(plans[p]))
         /\ Sealed(plans, plans', p, by, digest, warnings)
<1> DEFINE h == plans[p]
           k == Len(h)
           r == h[k]
           a == [r EXCEPT !.state = "approved", !.by = by,
                          !.digest = digest, !.warnings = warnings]
           g == [h EXCEPT ![k] = a]
<1>0. Len(plans) \in Nat /\ DOMAIN plans = 1..Len(plans) /\ h \in History
  BY PlansDomain
<1>1. /\ h \in Seq(Revision) /\ k \in Nat /\ DOMAIN h = 1..k /\ k \in DOMAIN h
      /\ r \in Revision /\ r.state = "draft"
  BY <1>0, HistoryLast DEF Last
<1>2. plans' = [plans EXCEPT ![p] = g]
  BY DEF ApproveDraft
<1>3. /\ a \in Revision /\ a.state = "approved" /\ a.by = by /\ a.content = r.content
      /\ a.digest = digest /\ a.warnings = warnings
  BY <1>1 DEF Revision, RevState
<1> HIDE DEF a, k, r, h
<1>4. /\ g \in Seq(Revision) /\ g # <<>> /\ DOMAIN g = DOMAIN h
      /\ g[k] = a
      /\ \A n \in DOMAIN h : n # k => g[n] = h[n]
  <2>1. g \in Seq(Revision) /\ DOMAIN g = DOMAIN h
    BY <1>1, <1>3, SeqChanges
  <2> QED
    <3>1. k \in DOMAIN g
      BY <1>1, <2>1
    <3>2. g # <<>>
      <4> HIDE DEF g
      <4> QED
        BY <3>1, NoLoads
    <3>3. g[k] = a /\ \A n \in DOMAIN h : n # k => g[n] = h[n]
      BY <1>1
    <3> QED
      BY <2>1, <3>2, <3>3
<1>5. g \in History
  BY <1>4 DEF History
<1> HIDE DEF g
<1>7. /\ plans' \in Seq(History) /\ DOMAIN plans' = DOMAIN plans /\ plans'[p] = g
      /\ \A q \in DOMAIN plans : q # p => plans'[q] = plans[q]
  BY <1>2, <1>5, SeqChanges
<1>8. Keeps(plans, plans')
  <2> SUFFICES ASSUME NEW q \in DOMAIN plans, NEW n \in DOMAIN plans[q]
               PROVE  /\ q \in DOMAIN plans' /\ n \in DOMAIN plans'[q]
                      /\ plans'[q][n].content = plans[q][n].content
                      /\ plans[q][n].state = "approved" => plans'[q][n].state = "approved"
    BY <1>7 DEF Keeps
  <2>1. CASE q = p /\ n = k
    BY <1>1, <1>3, <1>4, <1>7, <2>1 DEF h, r
  <2>2. CASE q = p /\ n # k
    BY <1>1, <1>3, <1>4, <1>7, <2>2 DEF h
  <2>3. CASE q # p
    BY <1>7, <2>3
  <2> QED
    BY <2>1, <2>2, <2>3
<1>9. Approved(plans', p, k)
  BY <1>1, <1>3, <1>4, <1>7 DEF Approved
<1>10. ASSUME NEW q \in DOMAIN plans', NEW n \in DOMAIN plans'[q]
       PROVE  /\ q \in DOMAIN plans /\ n \in DOMAIN plans[q]
              /\ IF q = p /\ n = k
                 THEN /\ plans'[q][n].by = by
                      /\ plans'[q][n].digest = digest /\ plans'[q][n].warnings = warnings
                 ELSE plans'[q][n] = plans[q][n]
  <2>1. CASE q = p /\ n = k
    BY <1>1, <1>3, <1>4, <1>7, <2>1 DEF h
  <2>2. CASE q = p /\ n # k
    BY <1>1, <1>3, <1>4, <1>7, <2>2 DEF h
  <2>3. CASE q # p
    BY <1>7, <2>3
  <2> QED
    BY <2>1, <2>2, <2>3
<1> QED
  BY <1>7, <1>8, <1>9, <1>10 DEF Sealed, h, k

-----------------------------------------------------------------------------
(* What the host learns and the user confirms leaves what is known true.   *)
LEMMA KeptShows ==
  ASSUME NEW P, NEW Q, Keeps(P, Q), NEW S, NEW S2, S \subseteq S2,
         NEW T, NEW T2, T \subseteq T2
  PROVE  /\ \A s : Listed(P, s) => Listed(Q, s)
         /\ \A u : Shows(P, S, T, u) => Shows(Q, S2, T2, u)
<1>1. \A p, n : Approved(P, p, n) => Approved(Q, p, n)
  BY DEF Keeps, Approved
<1>2. \A p \in DOMAIN P : p \in DOMAIN Q
  BY DEF Keeps
<1>3. ASSUME NEW s, Listed(P, s) PROVE Listed(Q, s)
  BY <1>1, <1>2, <1>3 DEF Listed
<1>4. ASSUME NEW u, Shows(P, S, T, u) PROVE Shows(Q, S2, T2, u)
  <2>1. Edited(Q, u.editor)
    BY <1>1, <1>2, <1>4 DEF Shows, Edited
  <2>2. Previewed(S2, T2, u.preflight, u.accepted)
    BY <1>4 DEF Shows, Previewed
  <2> QED
    BY <1>3, <1>4, <2>1, <2>2 DEF Shows
<1> QED
  BY <1>3, <1>4

LEMMA KeptAsks ==
  ASSUME NEW P, NEW Q, Keeps(P, Q), NEW S, NEW S2, S \subseteq S2,
         NEW T, NEW T2, T \subseteq T2
  PROVE  /\ \A c : Asked(P, S, T, c) => Asked(Q, S2, T2, c)
         /\ \A c : Answers(P, c) => Answers(Q, c)
<1>1. \A p, n : Approved(P, p, n) => Approved(Q, p, n)
  BY DEF Keeps, Approved
<1>2. \A p \in DOMAIN P : p \in DOMAIN Q
  BY DEF Keeps
<1>3. ASSUME NEW c, Asked(P, S, T, c) PROVE Asked(Q, S2, T2, c)
  BY <1>2, <1>3 DEF Asked
<1>4. ASSUME NEW c, Answers(P, c) PROVE Answers(Q, c)
  <2>1. ASSUME NEW x, \E p \in DOMAIN P : \E n \in DOMAIN P[p] : P[p][n].content = x
        PROVE  \E p \in DOMAIN Q : \E n \in DOMAIN Q[p] : Q[p][n].content = x
    <3>1. PICK p \in DOMAIN P : \E n \in DOMAIN P[p] : P[p][n].content = x
      BY <2>1
    <3>2. PICK n \in DOMAIN P[p] : P[p][n].content = x
      BY <3>1
    <3>3. p \in DOMAIN Q /\ n \in DOMAIN Q[p] /\ Q[p][n].content = x
      BY <3>2 DEF Keeps
    <3> QED
      BY <3>3
  <2> QED
    BY <1>1, <1>2, <1>4, <2>1 DEF Answers, Fits
<1> QED
  BY <1>3, <1>4

LEMMA KeptActs ==
  ASSUME NEW P, NEW Q, Keeps(P, Q), NEW u, NEW c, NEW k, Acts(P, u, c, k)
  PROVE  Acts(Q, u, c, k)
  BY DEF Keeps, Approved, Acts

(* The editor takes over a revision that the host has.                     *)
LEMMA FromRevision ==
  ASSUME NEW P, NEW p \in Nat, p \in DOMAIN P, NEW r \in Brief,
         r.state = "approved" => Approved(P, p, r.revision)
  PROVE  /\ EditorFromRevision(p, r) \in Editor
         /\ Edited(P, EditorFromRevision(p, r))
         /\ ~EditorFromRevision(p, r).dirty
<1>1. r.revision \in Int /\ r.content \in Nat
  BY DEF Brief
<1> QED
  BY <1>1 DEF EditorFromRevision, Editor, Edited

LEMMA ListedRevision ==
  ASSUME NEW P, NEW s \in Brochure, Listed(P, s), NEW p \in DOMAIN s.plans
  PROVE  /\ p \in Nat /\ p \in DOMAIN P /\ s.plans[p] \in Brief
         /\ s.plans[p].state = "approved" => Approved(P, p, s.plans[p].revision)
<1>1. s.plans \in Seq(Brief)
  BY DEF Brochure
<1>2. p \in Nat /\ s.plans[p] \in Brief
  BY <1>1
<1> QED
  BY <1>2 DEF Listed

(* The selection effect: edits stay, and none come about.                  *)
LEMMA SelectedOk ==
  ASSUME NEW P, NEW S, NEW T, NEW u, Shows(P, S, T, u)
  PROVE  /\ Shows(P, S, T, Selected(u))
         /\ u.editor.dirty => Selected(u).editor = u.editor
         /\ Selected(u).editor.dirty => Selected(u).editor = u.editor
         /\ Selected(u).active = u.active /\ Selected(u).action = u.action
         /\ Selected(u).armed = u.armed
<1>0. /\ u \in Component /\ u.shown \in Brochure /\ u.editor \in Editor
      /\ Listed(P, u.shown) /\ Edited(P, u.editor)
  BY DEF Shows, Component
<1>1. CASE u.shown.plans = <<>> \/ (u.editor.plan = NoPlan /\ u.editor.dirty)
  BY <1>1 DEF Selected
<1>2. CASE ~(u.shown.plans = <<>> \/ (u.editor.plan = NoPlan /\ u.editor.dirty))
  <2> DEFINE p == IF u.selected \in DOMAIN u.shown.plans THEN u.selected ELSE u.shown.latest
             e == u.editor
             r == u.shown.plans[p]
             f == IF e.dirty \/ (e.plan = p /\ e.revision >= r.revision)
                  THEN e ELSE EditorFromRevision(p, r)
  <2>1. Selected(u) = [u EXCEPT !.selected = p, !.editor = f]
    BY <1>2 DEF Selected
  <2>2. p \in DOMAIN u.shown.plans
    BY <1>0, <1>2 DEF Listed
  <2> HIDE DEF p
  <2>3. /\ p \in Nat /\ p \in DOMAIN P /\ r \in Brief
        /\ r.state = "approved" => Approved(P, p, r.revision)
    BY <1>0, <2>2, ListedRevision
  <2> HIDE DEF r
  <2>4. /\ EditorFromRevision(p, r) \in Editor /\ Edited(P, EditorFromRevision(p, r))
        /\ ~EditorFromRevision(p, r).dirty
    BY <2>3, FromRevision
  <2>5. /\ f \in Editor /\ Edited(P, f)
        /\ e.dirty => f = e
        /\ f.dirty => f = e
    BY <1>0, <2>4
  <2> HIDE DEF f
  <2> DEFINE v == [u EXCEPT !.selected = p, !.editor = f]
  <2>6. /\ v \in Component /\ v.editor = f /\ v.shown = u.shown /\ v.active = u.active
        /\ v.action = u.action /\ v.armed = u.armed
        /\ v.preflight = u.preflight /\ v.accepted = u.accepted
    BY <1>0, <2>3, <2>5 DEF Component
  <2> HIDE DEF v
  <2>7. Shows(P, S, T, v)
    BY <1>0, <2>5, <2>6 DEF Shows
  <2>8. Selected(u) = v
    BY <2>1 DEF v
  <2> QED
    BY <2>5, <2>6, <2>7, <2>8
<1> QED
  BY <1>1, <1>2

LEMMA RenderedOk ==
  ASSUME NEW P, NEW S, NEW T, NEW v, Shows(P, S, T, v)
  PROVE  /\ Shows(P, S, T, Rendered(v))
         /\ Rendered(v).editor = v.editor /\ Rendered(v).active = v.active
         /\ \/ /\ Rendered(v) = v /\ v.active
               /\ Target(v) = Target(ui)
            \/ /\ Rendered(v).action = "none" /\ Rendered(v).armed = NoTarget
               /\ ~(Target(Rendered(v)) = Target(ui) /\ Rendered(v).active)
<1>1. CASE Target(v) = Target(ui) /\ v.active
  BY <1>1 DEF Rendered
<1>2. CASE ~(Target(v) = Target(ui) /\ v.active)
  <2> DEFINE r == [v EXCEPT !.action = "none", !.armed = NoTarget, !.prompted = FALSE]
  <2>1. Rendered(v) = r
    BY <1>2 DEF Rendered
  <2>2. v \in Component
    BY DEF Shows
  <2>3. NoTarget \in Nat \X Int
    BY DEF NoTarget, NoPlan
  <2>4. /\ r \in Component /\ r.editor = v.editor /\ r.active = v.active
        /\ r.shown = v.shown /\ r.preflight = v.preflight /\ r.accepted = v.accepted
        /\ r.action = "none" /\ r.armed = NoTarget
    BY <2>2, <2>3 DEF Component
  <2>5. Target(r) = Target(v)
    BY <2>4 DEF Target
  <2> HIDE DEF r
  <2>6. Shows(P, S, T, r)
    BY <2>4 DEF Shows
  <2> QED
    BY <1>2, <2>1, <2>4, <2>5, <2>6
<1> QED
  BY <1>1, <1>2

(* Whatever is shown, edits are changed by the caller or not at all; and   *)
(* an action goes on, or ends with all the user had confirmed.             *)
LEMMA ShowOk ==
  ASSUME NEW P, NEW S, NEW T, NEW u, NEW request, Shows(P, S, T, u), Show(u, request)
  PROVE  /\ Shows(P, S, T, ui')
         /\ u.editor.dirty => ui'.editor = u.editor
         /\ ui'.editor.dirty => ui'.editor = u.editor
         /\ ~ui'.active => ui'.action = "none"
         /\ call' = IF ui'.action = "none" THEN NoCall ELSE request
         /\ orphans' \subseteq orphans \cup ({request} \ {NoCall})
         /\ \/ ui'.action = u.action /\ ui'.armed = u.armed /\ clicks' = clicks
            \/ ui'.action = "none" /\ ui'.armed = NoTarget /\ clicks' = 0
<1> DEFINE v == Selected(u)
           r == Rendered(v)
<1>1. /\ Shows(P, S, T, v)
      /\ u.editor.dirty => v.editor = u.editor
      /\ v.editor.dirty => v.editor = u.editor
      /\ v.active = u.active /\ v.action = u.action /\ v.armed = u.armed
  BY SelectedOk
<1> HIDE DEF v
<1>2. /\ Shows(P, S, T, r)
      /\ r.editor = v.editor /\ r.active = v.active
      /\ \/ /\ r = v /\ v.active
            /\ Target(v) = Target(ui)
         \/ /\ r.action = "none" /\ r.armed = NoTarget
            /\ ~(Target(r) = Target(ui) /\ r.active)
  BY <1>1, RenderedOk
<1> HIDE DEF r
<1>3. /\ ui' = r
      /\ call' = IF r.action = "none" THEN NoCall ELSE request
      /\ orphans' \subseteq orphans \cup ({request} \ {NoCall})
      /\ clicks' = IF Target(r) = Target(ui) /\ r.active THEN clicks ELSE 0
  BY DEF Show, r, v
<1>4. \/ r.action = u.action /\ r.armed = u.armed /\ clicks' = clicks /\ r.active
      \/ r.action = "none" /\ r.armed = NoTarget /\ clicks' = 0
  BY <1>1, <1>2, <1>3
<1> QED
  BY <1>1, <1>2, <1>3, <1>4

-----------------------------------------------------------------------------
LEMMA ShowActs ==
  ASSUME NEW P, NEW S, NEW T, NEW u, NEW request, Shows(P, S, T, u), Show(u, request),
         clicks \in Nat, u.action = "none" \/ Acts(P, u, request, clicks),
         u.armed # NoTarget => clicks >= 1
  PROVE  /\ Acts(P, ui', call', clicks') /\ (~ui'.active => ui'.action = "none")
         /\ clicks' \in Nat
<1>1. /\ u.editor.dirty => ui'.editor = u.editor
      /\ ui'.editor.dirty => ui'.editor = u.editor
      /\ ~ui'.active => ui'.action = "none"
      /\ call' = IF ui'.action = "none" THEN NoCall ELSE request
      /\ \/ ui'.action = u.action /\ ui'.armed = u.armed /\ clicks' = clicks
         \/ ui'.action = "none" /\ ui'.armed = NoTarget /\ clicks' = 0
  BY ShowOk
<1>2. clicks' \in Nat /\ (ui'.armed # NoTarget => clicks' >= 1)
  BY <1>1
<1>3. CASE ui'.action = "none"
  BY <1>1, <1>2, <1>3 DEF Acts, NoCall
<1>4. CASE ui'.action # "none"
  <2>1. /\ ui'.action = u.action /\ clicks' = clicks /\ call' = request
        /\ Acts(P, u, request, clicks)
    BY <1>1, <1>4
  <2>2. call' # NoCall
    BY <1>4, <2>1 DEF Acts
  <2>3. call'.name \in {"manual", "new-revision", "approve"} => ~ui'.editor.dirty
    <3> SUFFICES ASSUME call'.name \in {"manual", "new-revision", "approve"},
                        ui'.editor.dirty
                 PROVE  FALSE
      BY <1>1, <1>2 DEF Shows, Component, Editor
    <3> QED
      BY <1>1, <2>1 DEF Acts
  <2>4. call'.name = "save" /\ ui'.editor.dirty => ui'.editor.content = call'.content
    BY <1>1, <2>1 DEF Acts
  <2>5. call'.name = "execute" => clicks' >= 2 /\ Approved(P, call'.plan, call'.revision)
    BY <2>1 DEF Acts
  <2> QED
    BY <1>1, <1>2, <1>4, <2>2, <2>3, <2>4, <2>5 DEF Acts
<1> QED
  BY <1>1, <1>2, <1>3, <1>4

LEMMA SpendTyped ==
  ASSUME HostTyped, NEW kind \in Kinds, Spend(kind)
  PROVE  left' \in [Kinds -> Nat]
<1>1. left \in [Kinds -> Nat] /\ left[kind] \in Nat /\ left[kind] > 0
  BY DEF HostTyped, Spend
<1>2. left[kind] - 1 \in Nat
  BY <1>1
<1> QED
  BY <1>1, <1>2 DEF Spend

LEMMA CallsSplit == Calls = orphans \cup ({call} \ {NoCall})
  BY DEF Calls

SamePlans == UNCHANGED <<host, revision, plans, latest, enforced>>

(* The state that is shown is all that changes, beside the request of the  *)
(* poll and what the user has seen and ticked.                             *)
LEMMA ShowBench ==
  ASSUME BenchInv, NEW u, NEW request, Show(u, request), SamePlans,
         left' \in [Kinds -> Nat], seen \subseteq seen', ticked \subseteq ticked',
         Shows(plans, seen', ticked', u),
         request = NoCall \/ (Asked(plans, seen', ticked', request) /\ Answers(plans, request)),
         u.action = "none" \/ Acts(plans, u, request, clicks),
         u.armed # NoTarget => clicks >= 1, PollInv'
  PROVE  BenchInv'
<1>0. /\ plans' = plans /\ latest' = latest /\ host' = host /\ revision' = revision
      /\ enforced' = enforced
  BY DEF SamePlans
<1>1. HostTyped /\ clicks \in Nat /\ RequestsInv /\ ReviewedInv
  BY DEF BenchInv, HostTyped
<1>2. /\ Acts(plans, ui', call', clicks') /\ (~ui'.active => ui'.action = "none")
      /\ clicks' \in Nat
  BY <1>1, ShowActs
<1>3. /\ Shows(plans, seen', ticked', ui')
      /\ call' \in {NoCall, request}
      /\ orphans' \subseteq orphans \cup ({request} \ {NoCall})
  BY ShowOk
<1>4. HostTyped'
  BY <1>0, <1>1, <1>2 DEF HostTyped
<1>5. ActionInv'
  BY <1>0, <1>2 DEF ActionInv
<1>6. ReviewedInv'
  BY <1>0, <1>1 DEF ReviewedInv
<1>7. RequestsInv'
  <2> SUFFICES ASSUME NEW c \in Calls'
               PROVE  Asked(plans, seen', ticked', c) /\ Answers(plans, c)
    BY <1>0 DEF RequestsInv
  <2>1. (c = request /\ request # NoCall) \/ c \in Calls
    BY <1>3 DEF Calls, NoCall
  <2>2. CASE c \in Calls
    <3>1. Asked(plans, seen, ticked, c) /\ Answers(plans, c)
      BY <1>1, <2>2 DEF RequestsInv
    <3>2. Keeps(plans, plans)
      BY SamePlansKeep
    <3> QED
      BY <3>1, <3>2, KeptAsks
  <2> QED
    BY <2>1, <2>2
<1> QED
  BY <1>0, <1>3, <1>4, <1>5, <1>6, <1>7 DEF BenchInv

(* The same, for a step of the user on the page.                           *)
LEMMA PageBench ==
  ASSUME BenchInv, NEW u, NEW request, Show(u, request), OnPage,
         left' \in [Kinds -> Nat], ticked \subseteq ticked',
         Shows(plans, seen, ticked', u),
         request = NoCall \/ (Asked(plans, seen, ticked', request) /\ Answers(plans, request)),
         u.action = "none" \/ Acts(plans, u, request, clicks),
         u.armed # NoTarget => clicks >= 1
  PROVE  BenchInv'
<1>1. SamePlans /\ seen' = seen /\ poll' = poll
  BY DEF OnPage, hostVars, planVars, SamePlans
<1>2. plans' = plans
  BY <1>1 DEF SamePlans
<1>3. PollInv'
  BY <1>1, <1>2 DEF BenchInv, PollInv
<1> QED
  BY <1>1, <1>3, ShowBench

(* What the component shows, and the request under way.                    *)
LEMMA BenchFacts ==
  ASSUME BenchInv
  PROVE  /\ plans \in Seq(History) /\ left \in [Kinds -> Nat] /\ clicks \in Nat
         /\ Shows(plans, seen, ticked, ui) /\ ui \in Component
         /\ ui.editor \in Editor /\ ui.preflight \in Check
         /\ ui.shown \in Brochure /\ ui.accepted \in SUBSET Warnings
         /\ Listed(plans, ui.shown) /\ Edited(plans, ui.editor)
         /\ Previewed(seen, ticked, ui.preflight, ui.accepted)
         /\ Acts(plans, ui, call, clicks) /\ (ui.armed # NoTarget => clicks >= 1)
         /\ ~ui.active => ui.action = "none"
         /\ call = NoCall
            \/ (Asked(plans, seen, ticked, call) /\ Answers(plans, call))
<1>1. ui \in Component
  BY DEF BenchInv, Shows
<1>2. call = NoCall \/ call \in Calls
  BY DEF Calls
<1> QED
  BY <1>1, <1>2 DEF BenchInv, HostTyped, Shows, Component, ActionInv, Acts, RequestsInv

(* A request about what is on the screen.                                  *)
LEMMA CallAsks ==
  ASSUME BenchInv, NEW name \in CallName,
         name = "approve" => CanApprove
  PROVE  /\ Asked(plans, seen, ticked, Call(name)) /\ Answers(plans, Call(name))
         /\ Call(name) # NoCall /\ Call(name).name = name
         /\ Call(name).plan = ui.editor.plan /\ Call(name).revision = ui.editor.revision
         /\ Call(name).content = ui.editor.content
<1> DEFINE c == Call(name)
<1>0. /\ ui.editor \in Editor /\ ui.preflight \in Check /\ ui.accepted \in SUBSET Warnings
      /\ Edited(plans, ui.editor)
      /\ Previewed(seen, ticked, ui.preflight, ui.accepted)
  BY BenchFacts
<1>1. Failed \in Plain
  BY DEF Failed, Plain
<1>2. /\ c.name = name /\ c.plan = ui.editor.plan /\ c.revision = ui.editor.revision
      /\ c.content = ui.editor.content
      /\ c.digest = ui.preflight.digest /\ c.accepted = ui.accepted
      /\ c.reply = Failed
  BY DEF Call
<1>3. c \in Request
  BY <1>0, <1>1 DEF Call, Request, Editor, Check
<1>4. Failed.ok = FALSE
  BY DEF Failed
<1>5. c # NoCall
  <2>1. NoCall.name = "none" /\ "none" \notin CallName
    BY DEF NoCall, CallName
  <2> QED
    BY <1>2, <2>1
<1> HIDE DEF c
<1>6. Answers(plans, c)
  BY <1>2, <1>4 DEF Answers, Fits
<1>7. Asked(plans, seen, ticked, c)
  <2>1. c.plan # NoPlan => c.plan \in DOMAIN plans
    BY <1>0, <1>2 DEF Edited
  <2>2. ASSUME c.name = "approve"
        PROVE  /\ c.plan # NoPlan
               /\ <<c.plan, c.revision, c.digest>> \in seen
               /\ \A w \in c.accepted : <<c.plan, c.revision, w>> \in ticked
    <3>1. CanApprove
      BY <1>2, <2>2
    <3>2. /\ ui.editor.plan # NoPlan /\ ui.preflight.valid
          /\ ui.preflight.plan = ui.editor.plan
          /\ ui.preflight.revision = ui.editor.revision
      BY <3>1 DEF CanApprove
    <3> QED
      BY <1>0, <1>2, <3>2 DEF Previewed
  <2> QED
    BY <1>3, <2>1, <2>2 DEF Asked
<1> QED
  BY <1>2, <1>5, <1>6, <1>7 DEF c

(* An action begins.                                                       *)
LEMMA BeginsBench ==
  ASSUME BenchInv, NEW name \in CallName \ {"execute"}, Begins(name),
         name = "approve" => CanApprove,
         name \in {"manual", "new-revision", "approve"} => ~ui.editor.dirty,
         left' \in [Kinds -> Nat]
  PROVE  BenchInv'
<1> DEFINE u == [ui EXCEPT !.action = name]
           c == Call(name)
<1>1. /\ Asked(plans, seen, ticked, c) /\ Answers(plans, c) /\ c # NoCall
      /\ c.name = name /\ c.content = ui.editor.content
  BY CallAsks
<1>2. Show(u, c) /\ OnPage /\ ticked' = ticked
  BY DEF Begins
<1>3. /\ u \in Component /\ u.editor = ui.editor /\ u.shown = ui.shown
      /\ u.preflight = ui.preflight /\ u.accepted = ui.accepted
      /\ u.action = name /\ u.armed = ui.armed
  BY BenchFacts DEF Component
<1>4. name # "none"
  BY DEF CallName
<1> HIDE DEF u, c
<1>5. Shows(plans, seen, ticked, u)
  BY <1>3, BenchFacts DEF Shows
<1>6. Acts(plans, u, c, clicks)
  BY <1>1, <1>3, <1>4, BenchFacts DEF Acts
<1>7. u.armed # NoTarget => clicks >= 1
  BY <1>3, BenchFacts
<1> QED
  BY <1>1, <1>2, <1>5, <1>6, <1>7, PageBench

-----------------------------------------------------------------------------
(* What the user does.                                                     *)

LEMMA UntouchedPreflight ==
  ASSUME NEW S, NEW T
  PROVE  NoPreflight \in Check /\ Previewed(S, T, NoPreflight, {})
<1>1. NoPreflight \in Check
  BY DEF NoPreflight, Check, NoPlan
<1>2. NoPreflight.valid = FALSE
  BY DEF NoPreflight
<1> QED
  BY <1>1, <1>2 DEF Previewed

(* The component with another editor, and a preflight forgotten or kept.   *)
LEMMA EditorShown ==
  ASSUME NEW P, NEW S, NEW T, NEW u, Shows(P, S, T, u), NEW p \in Nat,
         NEW e \in Editor, Edited(P, e)
  PROVE  /\ Shows(P, S, T, [Forget(u) EXCEPT !.selected = p, !.editor = e])
         /\ Shows(P, S, T, [u EXCEPT !.selected = p, !.editor = e])
<1>0. /\ u \in Component /\ Listed(P, u.shown)
      /\ Previewed(S, T, u.preflight, u.accepted)
  BY DEF Shows
<1>1. NoPreflight \in Check /\ Previewed(S, T, NoPreflight, {})
  BY UntouchedPreflight
<1> DEFINE v == [Forget(u) EXCEPT !.selected = p, !.editor = e]
           w == [u EXCEPT !.selected = p, !.editor = e]
<1>2. /\ v \in Component /\ v.shown = u.shown /\ v.editor = e
      /\ v.preflight = NoPreflight /\ v.accepted = {}
  BY <1>0, <1>1 DEF Forget, Component
<1>3. /\ w \in Component /\ w.shown = u.shown /\ w.editor = e
      /\ w.preflight = u.preflight /\ w.accepted = u.accepted
  BY <1>0 DEF Component
<1> HIDE DEF v, w
<1>4. Shows(P, S, T, v) /\ Shows(P, S, T, w)
  BY <1>0, <1>1, <1>2, <1>3 DEF Shows
<1> QED
  BY <1>4 DEF v, w

(* What concerns the action does not concern what is shown.                *)
LEMMA ActionShown ==
  ASSUME NEW P, NEW S, NEW T, NEW u, Shows(P, S, T, u), NEW v, v \in Component,
         v.shown = u.shown, v.editor = u.editor, v.preflight = u.preflight,
         v.accepted = u.accepted
  PROVE  Shows(P, S, T, v)
  BY DEF Shows

LEMMA BeginningsKeep ==
  BenchInv /\ (RequestDesign \/ Save \/ RunPreflight \/ Approve \/ CreateNewRevision) => BenchInv'
<1> SUFFICES ASSUME BenchInv,
                    RequestDesign \/ Save \/ RunPreflight \/ Approve \/ CreateNewRevision
             PROVE  BenchInv'
  OBVIOUS
<1>0. HostTyped /\ left \in [Kinds -> Nat] /\ Edited(plans, ui.editor)
  BY BenchFacts DEF BenchInv
<1>1. CASE RequestDesign
  <2>1. left' \in [Kinds -> Nat] /\ Begins("generate")
    BY <1>0, <1>1, SpendTyped DEF RequestDesign, Kinds
  <2> QED
    BY <2>1, BeginsBench DEF CallName
<1>2. CASE Save
  <2>1. left' \in [Kinds -> Nat] /\ Begins("save")
    BY <1>0, <1>2 DEF Save, Begin
  <2> QED
    BY <2>1, BeginsBench DEF CallName
<1>3. CASE RunPreflight
  <2>1. left' \in [Kinds -> Nat] /\ Begins("preflight")
    BY <1>0, <1>3, SpendTyped DEF RunPreflight, Kinds
  <2> QED
    BY <2>1, BeginsBench DEF CallName
<1>4. CASE Approve
  <2>1. left' \in [Kinds -> Nat] /\ Begins("approve") /\ CanApprove /\ ~ui.editor.dirty
    BY <1>0, <1>4 DEF Approve, Begin, CanApprove
  <2> QED
    BY <2>1, BeginsBench DEF CallName
<1>5. CASE CreateNewRevision
  <2>1. left' \in [Kinds -> Nat] /\ Begins("new-revision")
    BY <1>0, <1>5, SpendTyped DEF CreateNewRevision, Kinds
  <2>2. ~ui.editor.dirty
    BY <1>0, <1>5 DEF CreateNewRevision, Edited
  <2> QED
    BY <2>1, <2>2, BeginsBench DEF CallName
<1> QED
  BY <1>1, <1>2, <1>3, <1>4, <1>5

LEMMA ManualPlanShown ==
  ASSUME BenchInv
  PROVE  /\ Shows(plans, seen, ticked, [ManualPlan(ui) EXCEPT !.action = "none"])
         /\ [ManualPlan(ui) EXCEPT !.action = "none"].action = "none"
         /\ [ManualPlan(ui) EXCEPT !.action = "none"].armed = ui.armed
<1> DEFINE e == [plan |-> NoPlan, revision |-> 0, state |-> "draft",
                 content |-> left.edits, dirty |-> TRUE]
           v == [Forget(ui) EXCEPT !.selected = NoPlan, !.editor = e]
           w == [v EXCEPT !.action = "none"]
<1>1. e \in Editor /\ e.plan = NoPlan /\ e.state = "draft" /\ NoPlan \in Nat
  BY BenchFacts DEF Editor, NoPlan, Kinds
<1>2. Edited(plans, e)
  BY <1>1 DEF Edited
<1> HIDE DEF e
<1>3. Shows(plans, seen, ticked, v)
  BY <1>1, <1>2, BenchFacts, EditorShown
<1>4. v.armed = ui.armed
  BY BenchFacts DEF Forget, Component
<1> HIDE DEF v
<1>5. v \in Component
  BY <1>3 DEF Shows
<1>6. /\ w \in Component /\ w.shown = v.shown /\ w.editor = v.editor
      /\ w.preflight = v.preflight /\ w.accepted = v.accepted
      /\ w.action = "none" /\ w.armed = v.armed
  BY <1>5 DEF Component
<1> HIDE DEF w
<1>7. Shows(plans, seen, ticked, w)
  BY <1>3, <1>6, ActionShown
<1>8. [ManualPlan(ui) EXCEPT !.action = "none"] = w
  BY DEF w, v, e, ManualPlan
<1> QED
  BY <1>4, <1>6, <1>7, <1>8

LEMMA ManualKeeps == BenchInv /\ StartManual => BenchInv'
<1> SUFFICES ASSUME BenchInv, StartManual PROVE BenchInv'
  OBVIOUS
<1>0. HostTyped /\ left \in [Kinds -> Nat] /\ ~ui.editor.dirty
  BY BenchFacts DEF BenchInv, StartManual
<1>1. CASE Free /\ Spend("edits") /\ Finish(ManualPlan(ui)) /\ OnPage /\ UNCHANGED ticked
  <2> DEFINE u == [ManualPlan(ui) EXCEPT !.action = "none"]
  <2>1. left' \in [Kinds -> Nat]
    BY <1>0, <1>1, SpendTyped DEF Kinds
  <2>2. Shows(plans, seen, ticked, u) /\ u.action = "none" /\ u.armed = ui.armed
    BY ManualPlanShown
  <2>3. Show(u, NoCall) /\ OnPage /\ ticked' = ticked
    BY <1>1 DEF Finish
  <2> HIDE DEF u
  <2>4. u.armed # NoTarget => clicks >= 1
    BY <2>2, BenchFacts
  <2> QED
    BY <2>1, <2>2, <2>3, <2>4, PageBench
<1>2. CASE left.edits > 0 /\ Begin("manual")
  <2>1. left' \in [Kinds -> Nat] /\ Begins("manual")
    BY <1>0, <1>2 DEF Begin
  <2> QED
    BY <1>0, <2>1, BeginsBench DEF CallName
<1> QED
  BY <1>1, <1>2 DEF StartManual

LEMMA UpdateKeeps == BenchInv /\ UpdateContent => BenchInv'
<1> SUFFICES ASSUME BenchInv, UpdateContent PROVE BenchInv'
  OBVIOUS
<1> DEFINE e == [ui.editor EXCEPT !.content = left.edits, !.dirty = TRUE]
           w == [ui EXCEPT !.editor.content = left.edits, !.editor.dirty = TRUE]
           u == Forget(w)
<1>0. /\ HostTyped /\ ui \in Component /\ ui.editor \in Editor /\ left.edits \in Nat
      /\ Edited(plans, ui.editor)
  BY BenchFacts DEF BenchInv, Kinds
<1>1. ui.editor.state = "draft" /\ ui.action = "none" /\ Show(u, NoCall) /\ OnPage
      /\ ticked' = ticked
  BY DEF UpdateContent, Editable, Free
<1>2. left' \in [Kinds -> Nat]
  BY <1>0, SpendTyped DEF UpdateContent, Kinds
<1>3. e \in Editor /\ e.plan = ui.editor.plan /\ e.state = "draft"
  BY <1>0, <1>1 DEF Editor
<1> HIDE DEF e
<1>4. Edited(plans, e)
  BY <1>0, <1>3 DEF Edited
<1>5. NoPreflight \in Check /\ Previewed(seen, ticked, NoPreflight, {})
  BY UntouchedPreflight
<1>6. w = [ui EXCEPT !.editor = e]
  BY <1>0 DEF e, Component, Editor
<1> HIDE DEF w
<1>7. /\ u \in Component /\ u.editor = e /\ u.shown = ui.shown /\ u.preflight = NoPreflight
      /\ u.accepted = {} /\ u.action = "none" /\ u.armed = ui.armed
  BY <1>0, <1>1, <1>3, <1>5, <1>6 DEF Forget, Component
<1> HIDE DEF u
<1>8. Shows(plans, seen, ticked, u)
  BY <1>4, <1>5, <1>7, BenchFacts DEF Shows
<1>9. u.armed # NoTarget => clicks >= 1
  BY <1>7, BenchFacts
<1> QED
  BY <1>1, <1>2, <1>7, <1>8, <1>9, PageBench

(* A revision that is listed comes into the editor. *)
LEMMA SelectedPlanShown ==
  ASSUME BenchInv, NEW p \in DOMAIN ui.shown.plans
  PROVE  LET e == EditorFromRevision(p, ui.shown.plans[p]) IN
         p \in Nat /\ e \in Editor /\ Edited(plans, e)
  BY BenchFacts, ListedRevision, FromRevision

LEMMA DiscardKeeps == BenchInv /\ DiscardChanges => BenchInv'
<1> SUFFICES ASSUME BenchInv, DiscardChanges PROVE BenchInv'
  OBVIOUS
<1>0. /\ ui \in Component /\ ui.action = "none" /\ OnPage /\ ticked' = ticked
      /\ left' \in [Kinds -> Nat] /\ Shows(plans, seen, ticked, ui)
  BY BenchFacts DEF DiscardChanges, Editable, Free
<1>1. CASE ui.selected \in DOMAIN ui.shown.plans
  <2> DEFINE p == ui.selected
             e == EditorFromRevision(p, ui.shown.plans[p])
             w == [ui EXCEPT !.editor = e]
             u == Forget(w)
  <2>1. p \in Nat /\ e \in Editor /\ Edited(plans, e)
    BY <1>1, SelectedPlanShown
  <2>2. Show(u, NoCall)
    BY <1>1 DEF DiscardChanges
  <2> HIDE DEF e
  <2>3. NoPreflight \in Check /\ Previewed(seen, ticked, NoPreflight, {})
    BY UntouchedPreflight
  <2>4. /\ u \in Component /\ u.editor = e /\ u.shown = ui.shown
        /\ u.preflight = NoPreflight
        /\ u.accepted = {} /\ u.action = "none" /\ u.armed = ui.armed
    BY <1>0, <2>1, <2>3 DEF Forget, Component
  <2> HIDE DEF u
  <2>5. Shows(plans, seen, ticked, u)
    BY <2>1, <2>3, <2>4, BenchFacts DEF Shows
  <2>6. u.armed # NoTarget => clicks >= 1
    BY <2>4, BenchFacts
  <2> QED
    BY <1>0, <2>2, <2>4, <2>5, <2>6, PageBench
<1>2. CASE ui.selected \notin DOMAIN ui.shown.plans
  <2> DEFINE u == [ui EXCEPT !.editor = NoEditor]
  <2>1. Show(u, NoCall)
    BY <1>2 DEF DiscardChanges
  <2>2. NoEditor \in Editor /\ Edited(plans, NoEditor)
    BY DEF NoEditor, Editor, Edited, NoPlan
  <2>3. /\ u \in Component /\ u.editor = NoEditor /\ u.shown = ui.shown
        /\ u.preflight = ui.preflight
        /\ u.accepted = ui.accepted /\ u.action = "none" /\ u.armed = ui.armed
    BY <1>0, <2>2 DEF Component
  <2> HIDE DEF u
  <2>4. Shows(plans, seen, ticked, u)
    BY <2>2, <2>3, BenchFacts DEF Shows
  <2>5. u.armed # NoTarget => clicks >= 1
    BY <2>3, BenchFacts
  <2> QED
    BY <1>0, <2>1, <2>3, <2>4, <2>5, PageBench
<1> QED
  BY <1>1, <1>2

LEMMA SelectKeeps ==
  ASSUME BenchInv, NEW p, SelectPlan(p)
  PROVE  BenchInv'
<1> DEFINE e == EditorFromRevision(p, ui.shown.plans[p])
           w == [ui EXCEPT !.selected = p, !.editor = e]
           u == Forget(w)
<1>0. /\ ui \in Component /\ ui.action = "none" /\ OnPage /\ ticked' = ticked
      /\ left' \in [Kinds -> Nat] /\ p \in DOMAIN ui.shown.plans
      /\ Show(u, NoCall)
  BY BenchFacts DEF SelectPlan, Free
<1>1. p \in Nat /\ e \in Editor /\ Edited(plans, e)
  BY <1>0, SelectedPlanShown
<1> HIDE DEF e
<1>2. NoPreflight \in Check /\ Previewed(seen, ticked, NoPreflight, {})
  BY UntouchedPreflight
<1>3. /\ u \in Component /\ u.editor = e /\ u.shown = ui.shown
      /\ u.preflight = NoPreflight
      /\ u.accepted = {} /\ u.action = "none" /\ u.armed = ui.armed
  BY <1>0, <1>1, <1>2 DEF Forget, Component
<1> HIDE DEF u
<1>4. Shows(plans, seen, ticked, u)
  BY <1>1, <1>2, <1>3, BenchFacts DEF Shows
<1>5. u.armed # NoTarget => clicks >= 1
  BY <1>3, BenchFacts
<1> QED
  BY <1>0, <1>3, <1>4, <1>5, PageBench

LEMMA AcceptKeeps ==
  ASSUME BenchInv, NEW w \in Warnings, AcceptWarning(w)
  PROVE  BenchInv'
<1> DEFINE a == IF w \in ui.accepted THEN ui.accepted \ {w} ELSE ui.accepted \cup {w}
           u == [ui EXCEPT !.accepted = a]
<1>0. /\ ui \in Component /\ ui.action = "none" /\ OnPage
      /\ ticked' = ticked \cup {<<ui.preflight.plan, ui.preflight.revision, w>>}
      /\ left' \in [Kinds -> Nat] /\ ui.accepted \in SUBSET Warnings
      /\ Previewed(seen, ticked, ui.preflight, ui.accepted)
  BY BenchFacts DEF AcceptWarning, Free
<1>1. Show(u, NoCall)
  BY <1>0 DEF AcceptWarning, Component
<1>2. a \in SUBSET Warnings
  BY <1>0
<1>3. Previewed(seen, ticked', ui.preflight, a)
  BY <1>0 DEF Previewed
<1> HIDE DEF a
<1>4. /\ u \in Component /\ u.editor = ui.editor /\ u.shown = ui.shown
      /\ u.preflight = ui.preflight
      /\ u.accepted = a /\ u.action = "none" /\ u.armed = ui.armed
  BY <1>0, <1>2 DEF Component
<1> HIDE DEF u
<1>5. Shows(plans, seen, ticked', u)
  BY <1>3, <1>4, BenchFacts DEF Shows
<1>6. u.armed # NoTarget => clicks >= 1
  BY <1>4, BenchFacts
<1>7. ticked \subseteq ticked'
  BY <1>0
<1> QED
  BY <1>0, <1>1, <1>4, <1>5, <1>6, <1>7, PageBench

LEMMA ExecutionKeeps == BenchInv /\ RequestExecution => BenchInv'
<1> SUFFICES ASSUME BenchInv, RequestExecution PROVE BenchInv'
  OBVIOUS
<1> DEFINE c == Call("execute")
           a == Target(ui)
           u == [ui EXCEPT !.action = "execute"]
           v == [ui EXCEPT !.armed = a]
<1>0. /\ HostTyped /\ ui \in Component /\ ui.action = "none" /\ call = NoCall
      /\ ui.editor \in Editor
      /\ plans \in Seq(History) /\ clicks \in Nat /\ Shows(plans, seen, ticked, ui)
      /\ Acts(plans, ui, call, clicks) /\ (ui.armed # NoTarget => clicks >= 1)
  BY BenchFacts DEF BenchInv, RequestExecution, Free, Acts
<1>1. /\ OnPage /\ ticked' = ticked /\ orphans' = orphans /\ clicks' = clicks + 1
      /\ IF ui.armed = a THEN ui' = u /\ call' = c ELSE ui' = v /\ call' = NoCall
  BY DEF RequestExecution
<1>2. left' \in [Kinds -> Nat]
  BY <1>0, SpendTyped DEF RequestExecution, Kinds
<1>3. Approved(plans, ui.editor.plan, ui.editor.revision) /\ ui.active
  BY <1>0 DEF RequestExecution, Shows, Edited, NetworkReady
<1>4. a # NoTarget /\ a \in Nat \X Int
  <2>1. ui.editor.plan # 0 /\ ui.editor.plan \in Nat /\ ui.editor.revision \in Int
    BY <1>0, <1>3, PlansDomain DEF Approved, Editor
  <2> QED
    BY <2>1 DEF Target, NoTarget, NoPlan
<1>5. /\ Asked(plans, seen, ticked, c) /\ Answers(plans, c) /\ c # NoCall
      /\ c.name = "execute"
      /\ c.plan = ui.editor.plan /\ c.revision = ui.editor.revision
  BY CallAsks DEF CallName
<1>6. /\ u \in Component /\ u.editor = ui.editor /\ u.shown = ui.shown
      /\ u.preflight = ui.preflight /\ u.accepted = ui.accepted
      /\ u.action = "execute" /\ u.armed = ui.armed /\ u.active = ui.active
  BY <1>0 DEF Component, CallName
<1> HIDE DEF a
<1>7. /\ v \in Component /\ v.editor = ui.editor /\ v.shown = ui.shown
      /\ v.preflight = ui.preflight /\ v.accepted = ui.accepted
      /\ v.action = "none" /\ v.armed = a /\ v.active = ui.active
  BY <1>0, <1>4 DEF Component
<1> HIDE DEF u, v, c
<1>8. Shows(plans, seen, ticked, u) /\ Shows(plans, seen, ticked, v)
  BY <1>0, <1>6, <1>7, ActionShown
<1>9. /\ plans' = plans /\ seen' = seen /\ poll' = poll /\ host' = host
      /\ revision' = revision /\ latest' = latest /\ enforced' = enforced
  BY <1>1 DEF OnPage, hostVars, planVars
<1>10. Shows(plans, seen, ticked, ui')
  BY <1>1, <1>8
<1>11. clicks' \in Nat /\ clicks' >= 1 /\ (clicks >= 1 => clicks' >= 2)
  BY <1>0, <1>1
<1>12. Acts(plans, ui', call', clicks') /\ ui'.active
  <2>1. CASE ui.armed = a
    <3>1. clicks' >= 2
      BY <1>0, <1>4, <1>11, <2>1
    <3> QED
      BY <1>1, <1>3, <1>5, <1>6, <1>11, <2>1, <3>1 DEF Acts
  <2>2. CASE ui.armed # a
    <3>1. NoCall.name = "none"
      BY DEF NoCall
    <3>2. ui' = v /\ call' = NoCall
      BY <1>1, <2>2
    <3>3. Acts(plans, v, NoCall, clicks')
      BY <1>7, <1>11, <3>1 DEF Acts
    <3>4. v.active
      BY <1>3, <1>7
    <3> QED
      BY <3>2, <3>3, <3>4
  <2> QED
    BY <2>1, <2>2
<1>13. HostTyped'
  BY <1>0, <1>2, <1>9, <1>11 DEF HostTyped
<1>14. ActionInv'
  BY <1>9, <1>12 DEF ActionInv
<1>15. ReviewedInv' /\ PollInv'
  BY <1>1, <1>9 DEF BenchInv, ReviewedInv, PollInv
<1>16. RequestsInv'
  <2> SUFFICES ASSUME NEW x \in Calls'
               PROVE  Asked(plans, seen, ticked, x) /\ Answers(plans, x)
    BY <1>1, <1>9 DEF RequestsInv
  <2>1. x = c \/ x \in Calls
    BY <1>1 DEF Calls, NoCall
  <2> QED
    BY <1>5, <2>1 DEF BenchInv, RequestsInv
<1> QED
  BY <1>1, <1>9, <1>10, <1>13, <1>14, <1>15, <1>16 DEF BenchInv

(* The snapshot is what the host has.                                      *)
LEMMA SnapshotListed ==
  ASSUME HostTyped
  PROVE  Snapshot \in Brochure /\ Listed(plans, Snapshot)
<1> DEFINE brief(p) == [revision |-> Len(plans[p]), state |-> Last(p).state,
                        content |-> Last(p).content]
           s == [p \in DOMAIN plans |-> brief(p)]
<1>1. /\ plans \in Seq(History) /\ latest \in Nat /\ host \in Nat /\ revision \in Nat
      /\ plans # <<>> => latest \in DOMAIN plans
  BY DEF HostTyped
<1>2. ASSUME NEW p \in DOMAIN plans
      PROVE  /\ brief(p) \in Brief /\ brief(p).revision = Len(plans[p])
             /\ brief(p).state = "approved" => Approved(plans, p, Len(plans[p]))
  <2>1. plans[p] \in History
    BY <1>1
  <2>2. Len(plans[p]) \in Nat /\ Len(plans[p]) \in DOMAIN plans[p] /\ Last(p) \in Revision
    BY <2>1, HistoryLast DEF Last
  <2>3. brief(p) \in Brief /\ brief(p).revision = Len(plans[p])
        /\ brief(p).state = Last(p).state
    BY <2>2 DEF Brief, Revision
  <2> QED
    BY <2>2, <2>3 DEF Approved, Last
<1>3. s \in Seq(Brief) /\ DOMAIN s = DOMAIN plans
  <2>1. Len(plans) \in Nat /\ DOMAIN plans = 1..Len(plans)
    BY <1>1, PlansDomain
  <2> HIDE DEF brief
  <2>2. s \in [1..Len(plans) -> Brief]
    BY <1>2, <2>1
  <2> QED
    BY <2>1, <2>2
<1>4. \A p \in DOMAIN plans : s[p] = brief(p)
  OBVIOUS
<1> HIDE DEF s, brief
<1>5. Snapshot = [host |-> host, revision |-> revision, latest |-> latest, plans |-> s]
  BY DEF Snapshot, s, brief
<1>6. Snapshot \in Brochure /\ Snapshot.plans = s /\ Snapshot.latest = latest
  BY <1>1, <1>3, <1>5 DEF Brochure
<1>7. s # <<>> => plans # <<>>
  <2> SUFFICES ASSUME plans = <<>> PROVE s = <<>>
    OBVIOUS
  <2> QED
    BY <1>3
<1>8. \A p \in DOMAIN s : s[p].state = "approved" => Approved(plans, p, s[p].revision)
  BY <1>2, <1>3, <1>4
<1>9. s # <<>> => latest \in DOMAIN s
  BY <1>1, <1>3, <1>7
<1>10. Listed(plans, Snapshot)
  <2>1. DOMAIN s \subseteq DOMAIN plans
    BY <1>3
  <2> QED
    BY <1>6, <1>8, <1>9, <2>1 DEF Listed
<1> QED
  BY <1>6, <1>10

LEMMA PollsKeep ==
  /\ Off \in Poll /\ Off.phase = "off"
  /\ \A s \in Brochure : Answered(s) \in Poll /\ Answered(s).phase = "answered"
                         /\ Answered(s).reply = s
  /\ \A n \in Nat : [Off EXCEPT !.phase = "waiting", !.after = n] \in Poll
                    /\ [Off EXCEPT !.phase = "waiting", !.after = n].phase = "waiting"
  /\ [Off EXCEPT !.phase = "broken"] \in Poll
  /\ [Off EXCEPT !.phase = "broken"].phase = "broken"
  BY DEF Off, Answered, Poll

LEMMA ListingKeepsPoll ==
  ASSUME BenchInv, UNCHANGED plans,
         \/ poll' = Off \/ ListPlans(Snapshot) \/ poll' = poll
         \/ poll' = [Off EXCEPT !.phase = "broken"]
         \/ \E n \in Nat : poll' = [Off EXCEPT !.phase = "waiting", !.after = n]
  PROVE  PollInv'
<1>1. Snapshot \in Brochure /\ Listed(plans, Snapshot) /\ PollInv
  BY SnapshotListed DEF BenchInv
<1> HIDE DEF Snapshot
<1>2. CASE poll' = Off \/ poll' = [Off EXCEPT !.phase = "broken"]
  BY <1>2, PollsKeep DEF PollInv
<1>3. CASE ListPlans(Snapshot)
  BY <1>1, <1>3, PollsKeep DEF PollInv, ListPlans
<1>4. CASE poll' = poll
  BY <1>1, <1>4 DEF PollInv
<1>5. CASE \E n \in Nat : poll' = [Off EXCEPT !.phase = "waiting", !.after = n]
  <2> PICK n \in Nat : poll' = [Off EXCEPT !.phase = "waiting", !.after = n]
    BY <1>5
  <2> QED
    BY PollsKeep DEF PollInv
<1> QED
  BY <1>2, <1>3, <1>4, <1>5

(* The tab, the prompt and the connection change, and the action goes on.  *)
LEMMA SameActionBench ==
  ASSUME BenchInv, NEW u, NEW request, Show(u, request), SamePlans,
         left' \in [Kinds -> Nat], seen' = seen, ticked' = ticked, PollInv',
         u \in Component, u.editor = ui.editor, u.preflight = ui.preflight,
         u.accepted = ui.accepted, u.armed = ui.armed,
         Listed(plans, u.shown),
         \/ u.action = "none" /\ request \in {call, NoCall}
         \/ u.action = ui.action /\ request = call
  PROVE  BenchInv'
<1>1. Shows(plans, seen, ticked, u)
  BY BenchFacts DEF Shows
<1>2. u.action = "none" \/ Acts(plans, u, request, clicks)
  BY BenchFacts DEF Acts
<1>3. u.armed # NoTarget => clicks >= 1
  BY BenchFacts
<1>4. request = NoCall \/ (Asked(plans, seen, ticked, request) /\ Answers(plans, request))
  BY BenchFacts
<1> QED
  BY <1>1, <1>2, <1>3, <1>4, ShowBench

LEMMA TabKeeps == BenchInv /\ (PromptTimesOut \/ Refresh \/ Leave \/ Return) => BenchInv'
<1> SUFFICES ASSUME BenchInv, PromptTimesOut \/ Refresh \/ Leave \/ Return PROVE BenchInv'
  OBVIOUS
<1>0. /\ HostTyped /\ ui \in Component /\ left \in [Kinds -> Nat]
      /\ Listed(plans, ui.shown)
  BY BenchFacts DEF BenchInv
<1>1. CASE PromptTimesOut
  <2> DEFINE u == [ui EXCEPT !.prompted = FALSE]
  <2>1. /\ u \in Component /\ u.editor = ui.editor /\ u.preflight = ui.preflight
        /\ u.accepted = ui.accepted /\ u.armed = ui.armed /\ u.shown = ui.shown
        /\ u.action = ui.action
    BY <1>0 DEF Component
  <2>2. /\ Show(u, call) /\ SamePlans /\ left' = left /\ seen' = seen /\ ticked' = ticked
        /\ UNCHANGED plans /\ poll' = poll
    BY <1>1 DEF PromptTimesOut, OnPage, hostVars, planVars, SamePlans
  <2>3. PollInv'
    BY <2>2, ListingKeepsPoll
  <2> HIDE DEF u
  <2> QED
    BY <1>0, <2>1, <2>2, <2>3, SameActionBench
<1>2. CASE Refresh
  <2> DEFINE u == [ui EXCEPT !.status = "loading"]
  <2>1. /\ u \in Component /\ u.editor = ui.editor /\ u.preflight = ui.preflight
        /\ u.accepted = ui.accepted /\ u.armed = ui.armed /\ u.shown = ui.shown
        /\ u.action = ui.action
    BY <1>0 DEF Component
  <2>2. /\ Show(u, call) /\ SamePlans /\ seen' = seen /\ ticked' = ticked
        /\ UNCHANGED plans /\ ListPlans(Snapshot)
    BY <1>2 DEF Refresh, hostVars, planVars, SamePlans
  <2>3. PollInv'
    BY <2>2, ListingKeepsPoll
  <2>4. left' \in [Kinds -> Nat]
    BY <1>0, <1>2, SpendTyped DEF Refresh, Kinds
  <2> HIDE DEF u
  <2> QED
    BY <1>0, <2>1, <2>2, <2>3, <2>4, SameActionBench
<1>3. CASE Leave
  <2> DEFINE u == [ui EXCEPT !.active = FALSE]
  <2>1. /\ u \in Component /\ u.editor = ui.editor /\ u.preflight = ui.preflight
        /\ u.accepted = ui.accepted /\ u.armed = ui.armed /\ u.shown = ui.shown
        /\ u.action = ui.action
    BY <1>0 DEF Component
  <2>2. /\ Show(u, call) /\ SamePlans /\ seen' = seen /\ ticked' = ticked
        /\ UNCHANGED plans /\ poll' = Off
    BY <1>3 DEF Leave, hostVars, planVars, SamePlans
  <2>3. PollInv'
    BY <2>2, ListingKeepsPoll
  <2>4. left' \in [Kinds -> Nat]
    BY <1>0, <1>3, SpendTyped DEF Leave, Kinds
  <2> HIDE DEF u
  <2> QED
    BY <1>0, <2>1, <2>2, <2>3, <2>4, SameActionBench
<1>4. CASE Return
  <2> DEFINE u == [ui EXCEPT !.active = TRUE]
  <2>0. ui.action = "none"
    BY <1>4, BenchFacts DEF Return
  <2>1. /\ u \in Component /\ u.editor = ui.editor /\ u.preflight = ui.preflight
        /\ u.accepted = ui.accepted /\ u.armed = ui.armed /\ u.shown = ui.shown
        /\ u.action = "none"
    BY <1>0, <2>0 DEF Component
  <2>2. /\ Show(u, NoCall) /\ SamePlans /\ left' = left /\ seen' = seen /\ ticked' = ticked
        /\ UNCHANGED plans /\ ListPlans(Snapshot)
    BY <1>4 DEF Return, hostVars, planVars, SamePlans
  <2>3. PollInv'
    BY <2>2, ListingKeepsPoll
  <2>4. left' \in [Kinds -> Nat] /\ Listed(plans, u.shown) /\ NoCall \in {call, NoCall}
    BY <1>0, <2>1, <2>2
  <2> HIDE DEF u
  <2> QED
    <3>1. Shows(plans, seen, ticked, u)
      BY <2>1, <2>4, BenchFacts DEF Shows
    <3>2. u.armed # NoTarget => clicks >= 1
      BY <2>1, BenchFacts
    <3>3. /\ seen \subseteq seen' /\ ticked \subseteq ticked'
          /\ Shows(plans, seen', ticked', u)
      BY <2>2, <3>1
    <3> QED
      BY <2>1, <2>2, <2>3, <2>4, <3>2, <3>3, ShowBench
<1> QED
  BY <1>1, <1>2, <1>3, <1>4

LEMMA UserKeeps == BenchInv /\ UserStep => BenchInv'
  BY BeginningsKeep, ManualKeeps, UpdateKeeps, DiscardKeeps, ExecutionKeeps, SelectKeeps,
     AcceptKeeps, TabKeeps DEF UserStep, Warnings

-----------------------------------------------------------------------------
(* What comes back.                                                        *)

LEMMA FinishBench ==
  ASSUME BenchInv, NEW u, Finish(u), UNCHANGED <<hostVars, poll, ticked>>,
         left' \in [Kinds -> Nat], seen \subseteq seen',
         Shows(plans, seen', ticked, u), u.armed \in {ui.armed, NoTarget}
  PROVE  BenchInv'
<1> DEFINE w == [u EXCEPT !.action = "none"]
<1>0. u \in Component
  BY DEF Shows
<1>1. /\ w \in Component /\ w.shown = u.shown /\ w.editor = u.editor
      /\ w.preflight = u.preflight /\ w.accepted = u.accepted
      /\ w.action = "none" /\ w.armed = u.armed
  BY <1>0 DEF Component
<1>2. Show(w, NoCall)
  BY DEF Finish
<1> HIDE DEF w
<1>3. Shows(plans, seen', ticked, w)
  BY <1>1, ActionShown
<1>4. /\ SamePlans /\ UNCHANGED plans /\ ticked' = ticked /\ poll' = poll
  BY DEF hostVars, planVars, SamePlans
<1>5. PollInv'
  BY <1>4, ListingKeepsPoll
<1>6. w.armed # NoTarget => clicks >= 1
  BY <1>1, BenchFacts
<1>7. ticked \subseteq ticked' /\ Shows(plans, seen', ticked', w)
  BY <1>3, <1>4
<1> QED
  BY <1>1, <1>2, <1>4, <1>5, <1>6, <1>7, ShowBench

(* A good answer to a save, a new revision or an approval.                 *)
LEMMA SavedShown ==
  ASSUME BenchInv, call # NoCall, call.reply.ok,
         call.name \in {"save", "new-revision", "approve"}
  PROVE  LET e == EditorFromRevision(call.reply.plan, call.reply.saved) IN
         call.reply.plan \in Nat /\ e \in Editor /\ Edited(plans, e)
<1>1. Answers(plans, call)
  BY BenchFacts
<1>2. /\ call.reply \in Saved /\ call.reply.plan \in DOMAIN plans
      /\ call.reply.saved.state = "approved" =>
           Approved(plans, call.reply.plan, call.reply.saved.revision)
  BY <1>1 DEF Answers, Fits
<1>3. call.reply.plan \in Nat /\ call.reply.saved \in Brief
  BY <1>2 DEF Saved
<1> QED
  BY <1>2, <1>3, FromRevision

LEMMA ReceivedKeeps == BenchInv /\ Received => BenchInv'
<1> SUFFICES ASSUME BenchInv, Received PROVE BenchInv'
  OBVIOUS
<1> DEFINE r == call.reply
           e == EditorFromRevision(r.plan, r.saved)
<1>0. /\ HostTyped /\ ui \in Component /\ left \in [Kinds -> Nat]
      /\ Shows(plans, seen, ticked, ui)
      /\ Listed(plans, ui.shown) /\ Edited(plans, ui.editor)
      /\ Previewed(seen, ticked, ui.preflight, ui.accepted)
  BY BenchFacts DEF BenchInv
<1>1. call # NoCall /\ UNCHANGED <<hostVars, poll, ticked>>
  BY DEF Received
<1>2. Asked(plans, seen, ticked, call) /\ Answers(plans, call)
  BY <1>1, BenchFacts
<1>3. NoPreflight \in Check /\ Previewed(seen, ticked, NoPreflight, {})
  BY UntouchedPreflight
<1>4. CASE Finish(ui) /\ UNCHANGED <<seen, left>>
  BY <1>0, <1>1, <1>4, FinishBench
<1>5. CASE r.ok /\ call.name = "manual" /\ Finish(ManualPlan(ui)) /\ Spend("edits")
           /\ UNCHANGED seen
  <2> DEFINE u == ManualPlan(ui)
             w == [u EXCEPT !.action = "none"]
  <2>1. left' \in [Kinds -> Nat]
    BY <1>0, <1>5, SpendTyped DEF Kinds
  <2>2. Shows(plans, seen, ticked, w) /\ w.action = "none" /\ w.armed = ui.armed
    BY ManualPlanShown
  <2>3. Show(w, NoCall)
    BY <1>5 DEF Finish
  <2> HIDE DEF w
  <2>4. w.armed # NoTarget => clicks >= 1
    BY <2>2, BenchFacts
  <2>5. OnPage /\ ticked' = ticked
    BY <1>1, <1>5 DEF OnPage
  <2> QED
    BY <2>1, <2>2, <2>3, <2>4, <2>5, PageBench
<1>6. CASE r.ok /\ call.name = "save"
           /\ Finish(Forget([ui EXCEPT !.selected = r.plan, !.editor = e]))
           /\ UNCHANGED <<seen, left>>
  <2> DEFINE u == Forget([ui EXCEPT !.selected = r.plan, !.editor = e])
  <2>1. r.plan \in Nat /\ e \in Editor /\ Edited(plans, e)
    BY <1>1, <1>6, SavedShown
  <2>2. Finish(u)
    BY <1>6
  <2> HIDE DEF e
  <2>3. /\ u \in Component /\ u.editor = e /\ u.shown = ui.shown
        /\ u.preflight = NoPreflight /\ u.accepted = {} /\ u.armed = ui.armed
    BY <1>0, <1>3, <2>1 DEF Forget, Component
  <2> HIDE DEF u
  <2>4. Shows(plans, seen, ticked, u)
    BY <1>0, <1>3, <2>1, <2>3 DEF Shows
  <2> QED
    BY <1>0, <1>1, <1>6, <2>2, <2>3, <2>4, FinishBench
<1>7. CASE r.ok /\ call.name = "new-revision"
           /\ Finish(Forget([ui EXCEPT !.editor = e]))
           /\ UNCHANGED <<seen, left>>
  <2> DEFINE u == Forget([ui EXCEPT !.editor = e])
  <2>1. r.plan \in Nat /\ e \in Editor /\ Edited(plans, e)
    BY <1>1, <1>7, SavedShown
  <2>2. Finish(u)
    BY <1>7
  <2> HIDE DEF e
  <2>3. /\ u \in Component /\ u.editor = e /\ u.shown = ui.shown
        /\ u.preflight = NoPreflight /\ u.accepted = {} /\ u.armed = ui.armed
    BY <1>0, <1>3, <2>1 DEF Forget, Component
  <2> HIDE DEF u
  <2>4. Shows(plans, seen, ticked, u)
    BY <1>0, <1>3, <2>1, <2>3 DEF Shows
  <2> QED
    BY <1>0, <1>1, <1>7, <2>2, <2>3, <2>4, FinishBench
<1>8. CASE r.ok /\ call.name = "preflight"
           /\ Finish([ui EXCEPT !.preflight = r.preflight, !.accepted = {}])
           /\ seen' = (IF r.preflight.valid
                       THEN seen \cup {<<call.plan, call.revision, r.preflight.digest>>}
                       ELSE seen)
           /\ UNCHANGED left
  <2> DEFINE c == r.preflight
             u == [ui EXCEPT !.preflight = c, !.accepted = {}]
  <2>1. r \in Checked /\ c.plan = call.plan /\ c.revision = call.revision
    BY <1>2, <1>8 DEF Answers, Fits
  <2>2. c \in Check
    BY <2>1 DEF Checked
  <2>3. seen \subseteq seen' /\ (c.valid => <<c.plan, c.revision, c.digest>> \in seen')
    BY <1>8, <2>1
  <2>4. Finish(u)
    BY <1>8
  <2> HIDE DEF c
  <2>5. Previewed(seen', ticked, c, {})
    BY <2>3 DEF Previewed
  <2>6. /\ u \in Component /\ u.editor = ui.editor /\ u.shown = ui.shown
        /\ u.preflight = c /\ u.accepted = {} /\ u.armed = ui.armed
    BY <1>0, <2>2 DEF Component
  <2> HIDE DEF u
  <2>7. Shows(plans, seen', ticked, u)
    BY <1>0, <2>5, <2>6 DEF Shows
  <2> QED
    BY <1>0, <1>1, <1>8, <2>3, <2>4, <2>6, <2>7, FinishBench
<1>9. CASE r.ok /\ call.name = "approve" /\ Finish([ui EXCEPT !.editor = e])
           /\ UNCHANGED <<seen, left>>
  <2> DEFINE u == [ui EXCEPT !.editor = e]
  <2>1. r.plan \in Nat /\ e \in Editor /\ Edited(plans, e)
    BY <1>1, <1>9, SavedShown
  <2>2. Finish(u)
    BY <1>9
  <2> HIDE DEF e
  <2>3. /\ u \in Component /\ u.editor = e /\ u.shown = ui.shown
        /\ u.preflight = ui.preflight /\ u.accepted = ui.accepted /\ u.armed = ui.armed
    BY <1>0, <2>1 DEF Component
  <2> HIDE DEF u
  <2>4. Shows(plans, seen, ticked, u)
    BY <1>0, <2>1, <2>3 DEF Shows
  <2> QED
    BY <1>0, <1>1, <1>9, <2>2, <2>3, <2>4, FinishBench
<1>10. CASE Finish([ui EXCEPT !.armed = NoTarget, !.prompted = TRUE])
            /\ UNCHANGED <<seen, left>>
  <2> DEFINE u == [ui EXCEPT !.armed = NoTarget, !.prompted = TRUE]
  <2>1. NoTarget \in Nat \X Int
    BY DEF NoTarget, NoPlan
  <2>2. /\ u \in Component /\ u.editor = ui.editor /\ u.shown = ui.shown
        /\ u.preflight = ui.preflight /\ u.accepted = ui.accepted /\ u.armed = NoTarget
    BY <1>0, <2>1 DEF Component
  <2>3. Finish(u)
    BY <1>10
  <2> HIDE DEF u
  <2>4. Shows(plans, seen, ticked, u)
    BY <1>0, <2>2, ActionShown
  <2> QED
    BY <1>0, <1>1, <1>10, <2>2, <2>3, <2>4, FinishBench
<1> QED
  BY <1>4, <1>5, <1>6, <1>7, <1>8, <1>9, <1>10 DEF Received

LEMMA ConnectionKeeps == BenchInv /\ (CallFails \/ PollReceived \/ PollFails) => BenchInv'
<1> SUFFICES ASSUME BenchInv, CallFails \/ PollReceived \/ PollFails PROVE BenchInv'
  OBVIOUS
<1>0. /\ HostTyped /\ ui \in Component /\ left \in [Kinds -> Nat]
      /\ Listed(plans, ui.shown)
  BY BenchFacts DEF BenchInv
<1>1. CASE CallFails
  <2> DEFINE u == [ui EXCEPT !.action = "none"]
  <2>1. /\ u \in Component /\ u.editor = ui.editor /\ u.preflight = ui.preflight
        /\ u.accepted = ui.accepted /\ u.armed = ui.armed /\ u.shown = ui.shown
        /\ u.action = "none"
    BY <1>0 DEF Component
  <2>2. /\ Show(u, call) /\ SamePlans /\ seen' = seen /\ ticked' = ticked
        /\ UNCHANGED plans /\ poll' = poll
    BY <1>1 DEF CallFails, hostVars, planVars, SamePlans
  <2>3. PollInv'
    BY <2>2, ListingKeepsPoll
  <2>4. left' \in [Kinds -> Nat]
    BY <1>0, <1>1, SpendTyped DEF CallFails, Kinds
  <2> HIDE DEF u
  <2> QED
    BY <1>0, <2>1, <2>2, <2>3, <2>4, SameActionBench
<1>2. CASE PollReceived
  <2> DEFINE s == poll.reply
             u == [ui EXCEPT !.status = "ready", !.shown = s]
  <2>1. s \in Brochure /\ Listed(plans, s)
    BY <1>2 DEF PollReceived, BenchInv, PollInv
  <2>2. /\ u \in Component /\ u.editor = ui.editor /\ u.preflight = ui.preflight
        /\ u.accepted = ui.accepted /\ u.armed = ui.armed /\ u.shown = s
        /\ u.action = ui.action
    BY <1>0, <2>1 DEF Component
  <2>3. /\ Show(u, call) /\ SamePlans /\ seen' = seen /\ ticked' = ticked /\ left' = left
        /\ UNCHANGED plans /\ WatchPlans(s, Snapshot)
    BY <1>2 DEF PollReceived, hostVars, planVars, SamePlans
  <2>4. s.revision \in Nat
    BY <2>1 DEF Brochure
  <2> HIDE DEF u, s
  <2>5. ListPlans(Snapshot) \/ poll' = [Off EXCEPT !.phase = "waiting", !.after = s.revision]
    BY <2>3 DEF WatchPlans, ListPlans
  <2>6. PollInv'
    BY <2>3, <2>4, <2>5, ListingKeepsPoll
  <2> QED
    BY <1>0, <2>1, <2>2, <2>3, <2>6, SameActionBench
<1>3. CASE PollFails
  <2> DEFINE u == [ui EXCEPT !.status = "error"]
  <2>1. /\ u \in Component /\ u.editor = ui.editor /\ u.preflight = ui.preflight
        /\ u.accepted = ui.accepted /\ u.armed = ui.armed /\ u.shown = ui.shown
        /\ u.action = ui.action
    BY <1>0 DEF Component
  <2>2. /\ Show(u, call) /\ SamePlans /\ seen' = seen /\ ticked' = ticked
        /\ UNCHANGED plans /\ poll' = Off
    BY <1>3 DEF PollFails, hostVars, planVars, SamePlans
  <2>3. PollInv'
    BY <2>2, ListingKeepsPoll
  <2>4. left' \in [Kinds -> Nat]
    BY <1>0, <1>3, SpendTyped DEF PollFails, Kinds
  <2> HIDE DEF u
  <2> QED
    BY <1>0, <2>1, <2>2, <2>3, <2>4, SameActionBench
<1> QED
  BY <1>1, <1>2, <1>3

LEMMA PollKeeps == BenchInv /\ (PollStep \/ PollTimesOut) => BenchInv'
<1> SUFFICES ASSUME BenchInv, PollStep \/ PollTimesOut PROVE BenchInv'
  OBVIOUS
<1>1. UNCHANGED <<hostVars, ui, call, orphans, left, userVars>> /\ ListPlans(Snapshot)
  BY DEF PollStep, PollTimesOut, PollWakes, Heartbeat, ListPlans
<1>2. /\ plans' = plans /\ latest' = latest /\ host' = host /\ revision' = revision
      /\ enforced' = enforced /\ ui' = ui /\ call' = call /\ orphans' = orphans
      /\ left' = left /\ seen' = seen /\ ticked' = ticked /\ clicks' = clicks
  BY <1>1 DEF hostVars, planVars, userVars
<1>3. PollInv'
  BY <1>1, <1>2, ListingKeepsPoll
<1>4. HostTyped'
  BY <1>2 DEF BenchInv, HostTyped
<1>5. RequestsInv' /\ ActionInv' /\ ReviewedInv'
  BY <1>2 DEF BenchInv, RequestsInv, ActionInv, ReviewedInv, Calls
<1> QED
  BY <1>2, <1>3, <1>4, <1>5 DEF BenchInv

-----------------------------------------------------------------------------
(* What the host does.                                                     *)

(* The same request, further on its way.                                   *)
Alike(c, d) ==
  /\ d.name = c.name /\ d.plan = c.plan /\ d.revision = c.revision
  /\ d.content = c.content /\ d.digest = c.digest /\ d.accepted = c.accepted

(* The host moves while the component waits; it may be lost to the poll. *)
Aside ==
  /\ UNCHANGED <<ui, userVars>>
  /\ poll' = poll \/ poll' = [Off EXCEPT !.phase = "broken"]

LEMMA AlikeAsks ==
  ASSUME NEW P, NEW S, NEW T, NEW c, NEW d \in Request, Alike(c, d)
  PROVE  /\ Asked(P, S, T, c) => Asked(P, S, T, d)
         /\ \A reply : Fits(P, c, reply) => Fits(P, d, reply)
<1>1. Asked(P, S, T, c) => Asked(P, S, T, d)
  BY DEF Alike, Asked
<1>2. \A reply : Fits(P, c, reply) => Fits(P, d, reply)
  BY DEF Alike, Fits
<1> QED
  BY <1>1, <1>2

LEMMA RequestIsACall ==
  ASSUME NEW c \in Request PROVE c # NoCall /\ c.name # "none"
<1>1. c.name # "none"
  BY DEF Request, CallName
<1>2. NoCall.name = "none"
  BY DEF NoCall
<1> QED
  BY <1>1, <1>2

LEMMA CallsAsked ==
  ASSUME BenchInv, NEW c \in Calls
  PROVE  /\ c \in Request /\ c # NoCall
         /\ Asked(plans, seen, ticked, c) /\ Answers(plans, c)
<1>1. Asked(plans, seen, ticked, c) /\ Answers(plans, c)
  BY DEF BenchInv, RequestsInv
<1>2. c \in Request
  BY <1>1 DEF Asked
<1> QED
  BY <1>1, <1>2, RequestIsACall

(* Every request that is there was there before, and its answer is good.   *)
LEMMA HostBench ==
  ASSUME BenchInv, Aside, HostTyped', Keeps(plans, plans'), ReviewedInv',
         \A d \in Calls' : /\ d \in Request /\ Answers(plans', d)
                           /\ \E c \in Calls : Alike(c, d),
         \/ call = NoCall /\ call' = NoCall
         \/ call # NoCall /\ call' # NoCall /\ Alike(call, call')
  PROVE  BenchInv'
<1>0. ui' = ui /\ seen' = seen /\ ticked' = ticked /\ clicks' = clicks
  BY DEF Aside, userVars
<1>1. Shows(plans', seen, ticked, ui)
  BY KeptShows DEF BenchInv
<1>2. PollInv'
  <2>1. \A s : Listed(plans, s) => Listed(plans', s)
    BY KeptShows
  <2>2. CASE poll' = poll
    BY <2>1, <2>2 DEF BenchInv, PollInv
  <2>3. CASE poll' = [Off EXCEPT !.phase = "broken"]
    BY <2>3, PollsKeep DEF PollInv
  <2> QED
    BY <2>2, <2>3 DEF Aside
<1>3. RequestsInv'
  <2> SUFFICES ASSUME NEW d \in Calls' PROVE Asked(plans', seen, ticked, d) /\ Answers(plans', d)
    BY <1>0 DEF RequestsInv
  <2>1. PICK c \in Calls : Alike(c, d)
    OBVIOUS
  <2>2. Asked(plans, seen, ticked, c)
    BY CallsAsked
  <2>3. Asked(plans, seen, ticked, d)
    BY <2>1, <2>2, AlikeAsks
  <2> QED
    BY <2>3, KeptAsks
<1>4. ActionInv'
  <2>1. Acts(plans, ui, call, clicks) /\ (~ui.active => ui.action = "none")
    BY DEF BenchInv, ActionInv
  <2>2. Acts(plans', ui, call, clicks)
    BY <2>1, KeptActs
  <2>3. Acts(plans', ui, call', clicks)
    <3>1. CASE call = NoCall /\ call' = NoCall
      BY <2>2, <3>1
    <3>2. CASE call # NoCall /\ call' # NoCall /\ Alike(call, call')
      BY <2>2, <3>2 DEF Acts, Alike
    <3> QED
      BY <3>1, <3>2
  <2> QED
    BY <1>0, <2>1, <2>3 DEF ActionInv
<1> QED
  BY <1>0, <1>1, <1>2, <1>3, <1>4 DEF BenchInv

(* One request moves on.                                                   *)
LEMMA BecomesBench ==
  ASSUME BenchInv, Aside, HostTyped', Keeps(plans, plans'), ReviewedInv',
         NEW c \in Calls, NEW d \in Request, Alike(c, d), Answers(plans', d), Becomes(c, d)
  PROVE  BenchInv'
<1>1. c # NoCall /\ d # NoCall
  BY CallsAsked, RequestIsACall
<1>2. /\ Calls' \subseteq Calls \cup {d}
      /\ call' = IF c = call THEN d ELSE call
  BY DEF Becomes, Calls, NoCall
<1>3. ASSUME NEW e \in Calls'
      PROVE  /\ e \in Request /\ Answers(plans', e)
             /\ \E b \in Calls : Alike(b, e)
  <2>1. CASE e = d
    BY <2>1
  <2>2. CASE e \in Calls
    <3>1. e \in Request /\ Answers(plans, e)
      BY <2>2, CallsAsked
    <3>2. Answers(plans', e)
      BY <3>1, KeptAsks
    <3>3. Alike(e, e)
      BY DEF Alike
    <3> QED
      BY <2>2, <3>1, <3>2, <3>3
  <2> QED
    BY <1>2, <2>1, <2>2
<1>4. \/ call = NoCall /\ call' = NoCall
      \/ call # NoCall /\ call' # NoCall /\ Alike(call, call')
  <2>1. CASE c = call
    BY <1>1, <1>2, <2>1
  <2>2. CASE c # call
    BY <1>2, <2>2 DEF Alike
  <2> QED
    BY <2>1, <2>2
<1> QED
  BY <1>3, <1>4, HostBench

LEMMA ReplyBench ==
  ASSUME BenchInv, Aside, HostTyped', Keeps(plans, plans'), ReviewedInv',
         NEW c \in Calls, NEW reply, reply \in Plain \cup Checked \cup Saved,
         Fits(plans', c, reply), Reply(c, reply)
  PROVE  BenchInv'
<1> DEFINE d == [c EXCEPT !.phase = "answered", !.reply = reply]
<1>1. c \in Request
  BY CallsAsked
<1>2. d \in Request /\ Alike(c, d) /\ d.reply = reply
  BY <1>1 DEF Request, Alike
<1>3. Becomes(c, d)
  BY DEF Reply
<1> HIDE DEF d
<1>4. Answers(plans', d)
  BY <1>2, AlikeAsks DEF Answers
<1> QED
  BY <1>2, <1>3, <1>4, BecomesBench

(* Nothing happens to the plans. *)
LEMMA IdleHost ==
  ASSUME BenchInv, Aside, UNCHANGED <<plans, latest>>, revision' \in Nat, host' \in Nat,
         enforced' \in SUBSET Powers, left' \in [Kinds -> Nat]
  PROVE  HostTyped' /\ Keeps(plans, plans') /\ ReviewedInv' /\ plans' = plans
<1>0. /\ plans' = plans /\ latest' = latest
      /\ seen' = seen /\ ticked' = ticked /\ clicks' = clicks
  BY DEF Aside, userVars
<1>1. HostTyped'
  BY <1>0 DEF BenchInv, HostTyped
<1>2. ReviewedInv'
  BY <1>0 DEF BenchInv, ReviewedInv
<1> QED
  BY <1>0, <1>1, <1>2, SamePlansKeep

(* A draft is saved, here or elsewhere.                                    *)
LEMMA SavedBench ==
  ASSUME BenchInv, Aside, left' \in [Kinds -> Nat], UNCHANGED <<host, enforced>>,
         NEW content \in Nat, NEW p, p \in DOMAIN plans \/ p = Len(plans) + 1,
         SaveDraft(p, content)
  PROVE  HostTyped' /\ Keeps(plans, plans') /\ ReviewedInv'
<1>0. /\ host' = host /\ enforced' = enforced
      /\ seen' = seen /\ ticked' = ticked /\ clicks' = clicks
      /\ HostTyped /\ plans \in Seq(History)
  BY DEF Aside, userVars, BenchInv, HostTyped
<1>1. /\ plans' \in Seq(History)
      /\ Keeps(plans, plans') /\ SameReviews(plans, plans')
      /\ p \in DOMAIN plans' /\ p \in Nat
  BY <1>0, SaveKeeps
<1>2. latest' = p /\ revision' = revision + 1
  BY DEF SaveDraft, MoveToFront
<1>3. HostTyped'
  BY <1>0, <1>1, <1>2 DEF HostTyped
<1>4. ReviewedInv'
  <2> SUFFICES ASSUME NEW q \in DOMAIN plans', NEW n \in DOMAIN plans'[q],
                      plans'[q][n].by = "this workbench"
               PROVE  /\ <<q, n, plans'[q][n].digest>> \in seen
                      /\ \A w \in plans'[q][n].warnings : <<q, n, w>> \in ticked
    BY <1>0 DEF ReviewedInv
  <2>1. /\ q \in DOMAIN plans /\ n \in DOMAIN plans[q]
        /\ plans[q][n].by = "this workbench"
        /\ plans'[q][n].digest = plans[q][n].digest
        /\ plans'[q][n].warnings = plans[q][n].warnings
    BY <1>1 DEF SameReviews
  <2> QED
    BY <2>1 DEF BenchInv, ReviewedInv
<1> QED
  BY <1>1, <1>3, <1>4

(* A draft is approved: by this workbench, what was reviewed.              *)
LEMMA ApprovedBench ==
  ASSUME BenchInv, Aside, left' \in [Kinds -> Nat], UNCHANGED <<host, enforced>>,
         NEW p \in DOMAIN plans, Last(p).state = "draft",
         NEW by \in {"this workbench", "another"}, NEW digest \in SUBSET Powers,
         NEW warnings \in SUBSET Warnings, ApproveDraft(p, by, digest, warnings),
         by = "this workbench" =>
           /\ <<p, Len(plans[p]), digest>> \in seen
           /\ \A w \in warnings : <<p, Len(plans[p]), w>> \in ticked
  PROVE  /\ HostTyped' /\ Keeps(plans, plans') /\ ReviewedInv'
         /\ Approved(plans', p, Len(plans[p]))
<1>0. /\ host' = host /\ enforced' = enforced
      /\ seen' = seen /\ ticked' = ticked /\ clicks' = clicks
      /\ HostTyped /\ plans \in Seq(History)
  BY DEF Aside, userVars, BenchInv, HostTyped
<1>1. /\ plans' \in Seq(History) /\ Keeps(plans, plans')
      /\ Approved(plans', p, Len(plans[p]))
      /\ Sealed(plans, plans', p, by, digest, warnings)
  BY <1>0, ApproveKeeps
<1>2. latest' = p /\ revision' = revision + 1 /\ p \in Nat /\ p \in DOMAIN plans'
  BY <1>0, <1>1, PlansDomain DEF ApproveDraft, MoveToFront, Keeps
<1>3. HostTyped'
  <2>1. /\ host \in Nat /\ revision \in Nat /\ enforced \subseteq Powers /\ clicks \in Nat
    BY <1>0 DEF HostTyped
  <2>2. revision' \in Nat
    BY <1>2, <2>1, OneMore, Zenon
  <2> QED
    BY <1>0, <1>1, <1>2, <2>1, <2>2 DEF HostTyped
<1>4. ReviewedInv'
  <2> SUFFICES ASSUME NEW q \in DOMAIN plans', NEW n \in DOMAIN plans'[q],
                      plans'[q][n].by = "this workbench"
               PROVE  /\ <<q, n, plans'[q][n].digest>> \in seen
                      /\ \A w \in plans'[q][n].warnings : <<q, n, w>> \in ticked
    BY <1>0 DEF ReviewedInv
  <2>1. CASE q = p /\ n = Len(plans[p])
    BY <1>1, <2>1 DEF Sealed
  <2>2. CASE ~(q = p /\ n = Len(plans[p]))
    BY <1>1, <2>2 DEF Sealed, BenchInv, ReviewedInv
  <2> QED
    BY <2>1, <2>2
<1> QED
  BY <1>1, <1>3, <1>4

LEMMA FailedFits ==
  ASSUME NEW P, NEW c
  PROVE  Failed \in Plain \cup Checked \cup Saved /\ Fits(P, c, Failed)
<1>1. Failed \in Plain /\ Failed.ok = FALSE
  BY DEF Failed, Plain
<1> QED
  BY <1>1 DEF Fits

LEMMA SavesBench ==
  ASSUME BenchInv, Aside, left' = left, NEW c \in Calls, HostSaves(c)
  PROVE  BenchInv'
<1> DEFINE p == IF c.plan = NoPlan THEN Len(plans) + 1 ELSE c.plan
           reply == [ok |-> TRUE, plan |-> p,
                     saved |-> [revision |-> Len(plans'[p]), state |-> "draft",
                                content |-> c.content]]
<1>0. /\ HostTyped /\ plans \in Seq(History) /\ left' \in [Kinds -> Nat]
      /\ host' = host /\ enforced' = enforced /\ host \in Nat /\ enforced \in SUBSET Powers
      /\ revision \in Nat
      /\ c \in Request /\ Asked(plans, seen, ticked, c)
      /\ c.name \in {"save", "new-revision"} /\ c.content \in Nat
  BY CallsAsked DEF BenchInv, HostTyped, HostSaves, Request
<1>1. p \in DOMAIN plans \/ p = Len(plans) + 1
  BY <1>0 DEF Asked
<1>2. CASE Reply(c, Failed) /\ UNCHANGED <<plans, latest, revision>>
  <2>1. HostTyped' /\ Keeps(plans, plans') /\ ReviewedInv'
    BY <1>0, <1>2, IdleHost
  <2> QED
    BY <1>2, <2>1, FailedFits, ReplyBench
<1>3. CASE SaveDraft(p, c.content) /\ Reply(c, reply)
  <2> HIDE DEF p
  <2>1. HostTyped' /\ Keeps(plans, plans') /\ ReviewedInv'
    BY <1>0, <1>1, <1>3, SavedBench
  <2>2. /\ p \in DOMAIN plans' /\ p \in Nat
        /\ Len(plans'[p]) \in DOMAIN plans'[p] /\ Len(plans'[p]) \in Nat
        /\ plans'[p][Len(plans'[p])].content = c.content
    BY <1>0, <1>1, <1>3, SaveKeeps
  <2>3. /\ reply \in Saved /\ reply.plan = p /\ reply.saved.state = "draft"
    BY <1>0, <2>2 DEF Saved, Brief, RevState
  <2>4. Reply(c, reply)
    BY <1>3
  <2> HIDE DEF reply
  <2>5. Fits(plans', c, reply)
    BY <1>0, <2>2, <2>3 DEF Fits
  <2> QED
    BY <2>1, <2>3, <2>4, <2>5, ReplyBench
<1> QED
  BY <1>2, <1>3 DEF HostSaves

LEMMA CheckTyped ==
  ASSUME NEW c \in Request, NEW digest \in SUBSET Powers
  PROVE  /\ PreflightOf(c, digest) \in Check
         /\ PreflightOf(c, digest).plan = c.plan
         /\ PreflightOf(c, digest).revision = c.revision
         /\ PreflightOf(c, digest).valid \in BOOLEAN
         /\ PreflightOf(c, digest).warnings \in SUBSET Warnings
<1>1. ({"provider", "agent"} \subseteq digest /\ c.status # "incomplete") \in BOOLEAN
  OBVIOUS
<1>2. (IF c.status = "unavailable" THEN {"model"} ELSE {}) \in SUBSET Warnings
  BY DEF Warnings
<1>3. c.plan \in Nat /\ c.revision \in Int
  BY DEF Request
<1> QED
  BY <1>1, <1>2, <1>3 DEF PreflightOf, Check

LEMMA PlainFits ==
  ASSUME NEW P, NEW c, c.name \in {"generate", "manual", "execute"}, NEW b \in BOOLEAN
  PROVE  [ok |-> b] \in Plain \cup Checked \cup Saved /\ Fits(P, c, [ok |-> b])
  BY DEF Plain, Fits

LEMMA ConcludesBench ==
  ASSUME BenchInv, Aside, left' = left, UNCHANGED <<host, enforced>>,
         NEW c \in Calls, NEW d \in Request, Alike(c, d), Concludes(c, d)
  PROVE  BenchInv'
<1> DEFINE digest == (IF d.provider THEN {"provider"} ELSE {}) \cup (enforced \cap {"agent"})
           check == PreflightOf(d, digest)
<1>0. /\ HostTyped /\ plans \in Seq(History) /\ left' \in [Kinds -> Nat]
      /\ host' \in Nat /\ enforced' \in SUBSET Powers /\ revision \in Nat
      /\ c \in Request /\ Asked(plans, seen, ticked, c)
  BY CallsAsked DEF BenchInv, HostTyped
<1>1. digest \in SUBSET Powers
  BY DEF Powers
<1>2. d.provider \in BOOLEAN
  BY DEF Request
<1> HIDE DEF digest
<1>4. /\ check \in Check /\ check.plan = c.plan /\ check.revision = c.revision
      /\ check.valid \in BOOLEAN /\ check.warnings \in SUBSET Warnings
  BY <1>1, CheckTyped DEF Alike
<1> HIDE DEF check
<1>5. ASSUME UNCHANGED planVars, NEW reply, reply \in Plain \cup Checked \cup Saved,
             \A P : Fits(P, c, reply), Reply(c, reply)
      PROVE  BenchInv'
  <2>1. HostTyped' /\ Keeps(plans, plans') /\ ReviewedInv'
    BY <1>0, <1>5, IdleHost DEF planVars
  <2>2. Fits(plans', c, reply)
    BY <1>5
  <2> QED
    BY <1>5, <2>1, <2>2, ReplyBench
<1>6. CASE c.name = "generate" /\ Reply(c, [ok |-> "agent" \in digest]) /\ UNCHANGED planVars
  <2> DEFINE b == "agent" \in digest
  <2>1. b \in BOOLEAN
    OBVIOUS
  <2>2. Reply(c, [ok |-> b])
    BY <1>6
  <2> HIDE DEF b
  <2> QED
    BY <1>5, <1>6, <2>1, <2>2, PlainFits
<1>7. CASE c.name = "manual" /\ Reply(c, [ok |-> d.provider]) /\ UNCHANGED planVars
  BY <1>2, <1>5, <1>7, PlainFits
<1>8. CASE c.name = "preflight" /\ Reply(c, [ok |-> TRUE, preflight |-> check])
           /\ UNCHANGED planVars
  <2> DEFINE reply == [ok |-> TRUE, preflight |-> check]
  <2>1. reply \in Checked /\ reply.preflight = check
    BY <1>4 DEF Checked
  <2>2. Reply(c, reply)
    BY <1>8
  <2> HIDE DEF reply
  <2>3. \A P : Fits(P, c, reply)
    BY <1>4, <1>8, <2>1 DEF Fits
  <2> QED
    BY <1>5, <1>8, <2>1, <2>2, <2>3
<1>9. CASE c.name = "approve" /\ Reply(c, Failed) /\ UNCHANGED planVars
  BY <1>5, <1>9, FailedFits
<1>10. CASE c.name = "execute" /\ UNCHANGED planVars
            /\ Reply(c, [ok |-> plans[c.plan][c.revision].digest = digest /\ check.valid])
  <2> DEFINE b == plans[c.plan][c.revision].digest = digest /\ check.valid
  <2>1. b \in BOOLEAN
    OBVIOUS
  <2>2. Reply(c, [ok |-> b])
    BY <1>10
  <2> HIDE DEF b
  <2> QED
    BY <1>5, <1>10, <2>1, <2>2, PlainFits
<1>11. CASE /\ c.name = "approve" /\ Approves(d, digest)
            /\ ApproveDraft(c.plan, "this workbench", digest, check.warnings)
            /\ Reply(c, [ok |-> TRUE, plan |-> c.plan,
                  saved |-> [revision |-> c.revision, state |-> "approved",
                             content |-> Last(c.plan).content]])
  <2> DEFINE reply == [ok |-> TRUE, plan |-> c.plan,
                  saved |-> [revision |-> c.revision, state |-> "approved",
                             content |-> Last(c.plan).content]]
  <2>1. /\ c.plan \in DOMAIN plans /\ c.plan \in Nat
        /\ <<c.plan, c.revision, c.digest>> \in seen
        /\ \A w \in c.accepted : <<c.plan, c.revision, w>> \in ticked
    BY <1>0, <1>11 DEF Asked, Request
  <2>2. /\ c.digest = digest /\ Len(plans[c.plan]) = c.revision
        /\ Last(c.plan).state = "draft" /\ check.warnings \subseteq c.accepted
    BY <1>11 DEF Approves, Alike, check
  <2>3. /\ HostTyped' /\ Keeps(plans, plans') /\ ReviewedInv'
        /\ Approved(plans', c.plan, Len(plans[c.plan]))
    BY <1>0, <1>1, <1>4, <1>11, <2>1, <2>2, ApprovedBench
  <2>4. plans[c.plan] \in History
    BY <1>0, <2>1, PlansDomain
  <2>5. Len(plans[c.plan]) \in Nat /\ Last(c.plan) \in Revision
    BY <2>4, HistoryLast DEF Last
  <2>6. /\ reply \in Saved /\ reply.plan = c.plan /\ reply.saved.revision = c.revision
    BY <2>1, <2>2, <2>5 DEF Saved, Brief, RevState, Revision
  <2>7. Reply(c, reply)
    BY <1>11
  <2> HIDE DEF reply
  <2>8. c.plan \in DOMAIN plans'
    BY <2>1, <2>3 DEF Keeps
  <2>9. Fits(plans', c, reply)
    BY <1>11, <2>2, <2>3, <2>6, <2>8 DEF Fits
  <2> QED
    BY <2>3, <2>6, <2>7, <2>9, ReplyBench
<1> QED
  BY <1>6, <1>7, <1>8, <1>9, <1>10, <1>11 DEF Concludes, digest, check

LEMMA ReadsBench ==
  ASSUME CatalogTypeOK, BenchInv, Aside, left' = left, NEW c \in Calls, HostReads(c)
  PROVE  BenchInv'
<1> DEFINE b == "provider" \in enforced
           d == [c EXCEPT !.provider = b]
<1>0. /\ c \in Request /\ UNCHANGED <<host, enforced>> /\ Answers(plans, c)
      /\ host \in Nat /\ enforced \in SUBSET Powers /\ revision \in Nat
      /\ left' \in [Kinds -> Nat]
  BY CallsAsked DEF BenchInv, HostTyped, HostReads
<1>b. b \in BOOLEAN
  OBVIOUS
<1> HIDE DEF b
<1>1. d \in Request /\ Alike(c, d) /\ d.reply = c.reply
  BY <1>0, <1>b DEF Request, Alike
<1>2. \/ \E s \in Statuses : LoadAnswers(s) /\ Concludes(c, [d EXCEPT !.status = s])
      \/ \E n \in 1..(Len(loads) + 1) :
            /\ LoadAwaited(n) /\ Becomes(c, [d EXCEPT !.phase = "waiting", !.load = n])
            /\ UNCHANGED planVars
  BY DEF HostReads, b
<1> HIDE DEF d
<1>3. ASSUME NEW s \in Statuses, Concludes(c, [d EXCEPT !.status = s]) PROVE BenchInv'
  <2> DEFINE e == [d EXCEPT !.status = s]
  <2>1. e \in Request /\ Alike(c, e)
    BY <1>1 DEF Request, Alike
  <2>2. Concludes(c, e)
    BY <1>3
  <2> HIDE DEF e
  <2> QED
    BY <1>0, <2>1, <2>2, ConcludesBench
<1>4. ASSUME NEW n \in 1..(Len(loads) + 1), UNCHANGED planVars,
             Becomes(c, [d EXCEPT !.phase = "waiting", !.load = n])
      PROVE  BenchInv'
  <2> DEFINE e == [d EXCEPT !.phase = "waiting", !.load = n]
  <2>1. Len(loads) \in Nat
    BY LenProperties DEF CatalogTypeOK
  <2>2. n \in Nat
    BY <2>1
  <2>3. e \in Request /\ Alike(c, e) /\ e.reply = c.reply
    BY <1>1, <2>2 DEF Request, Alike
  <2>4. Becomes(c, e)
    BY <1>4
  <2> HIDE DEF e
  <2>5. HostTyped' /\ Keeps(plans, plans') /\ ReviewedInv' /\ plans' = plans
    BY <1>0, <1>4, IdleHost DEF planVars
  <2>6. Answers(plans', e)
    BY <1>0, <2>3, <2>5, AlikeAsks DEF Answers
  <2> QED
    BY <2>3, <2>4, <2>5, <2>6, BecomesBench
<1> QED
  BY <1>2, <1>3, <1>4

LEMMA ToldAlike ==
  ASSUME NEW c \in Request, NEW status \in Statuses
  PROVE  /\ Told(c, status) \in Request /\ Alike(c, Told(c, status))
         /\ Told(c, status).reply = c.reply
  BY DEF Told, Request, Alike

LEMMA StatusesOf ==
  /\ "unavailable" \in Statuses
  /\ \A s \in {"available", "incomplete", "failed"} : StatusOf(s) \in Statuses
  BY DEF Statuses, StatusOf

LEMMA HandledBench ==
  ASSUME CatalogTypeOK, BenchInv, Aside, left' = left, NEW c \in Calls, Handled(c)
  PROVE  BenchInv'
<1>0. /\ c \in Request /\ Answers(plans, c)
      /\ host \in Nat /\ enforced \in SUBSET Powers /\ revision \in Nat
      /\ left' \in [Kinds -> Nat]
  BY CallsAsked DEF BenchInv, HostTyped
<1>1. CASE HostGivesUp(c)
  <2> DEFINE d == Told(c, "unavailable")
  <2>1. d \in Request /\ Alike(c, d) /\ d.reply = c.reply
    BY <1>0, ToldAlike, StatusesOf
  <2>2. Becomes(c, d) /\ UNCHANGED <<host, revision, plans, latest, enforced>>
    BY <1>1 DEF HostGivesUp, hostVars, planVars
  <2> HIDE DEF d
  <2>3. HostTyped' /\ Keeps(plans, plans') /\ ReviewedInv' /\ plans' = plans
    BY <1>0, <2>2, IdleHost
  <2>4. Answers(plans', d)
    BY <1>0, <2>1, <2>3, AlikeAsks DEF Answers
  <2> QED
    BY <2>1, <2>2, <2>3, <2>4, BecomesBench
<1>2. CASE HostConcludes(c)
  <2>1. Concludes(c, c) /\ UNCHANGED <<host, enforced>>
    BY <1>2 DEF HostConcludes
  <2>2. Alike(c, c)
    BY DEF Alike
  <2> QED
    BY <1>0, <2>1, <2>2, ConcludesBench
<1> QED
  BY <1>1, <1>2, SavesBench, ReadsBench DEF Handled

(* Requests that are all told, or given up; the others stay as they are.   *)
LEMMA StillBench ==
  ASSUME BenchInv, Aside, left' \in [Kinds -> Nat], host' \in Nat, revision' \in Nat,
         enforced' \in SUBSET Powers, UNCHANGED <<plans, latest>>,
         \A e \in Calls' : \E c \in Calls : e \in Request /\ Alike(c, e) /\ e.reply = c.reply,
         \/ call = NoCall /\ call' = NoCall
         \/ call # NoCall /\ call' # NoCall /\ Alike(call, call')
  PROVE  BenchInv'
<1>1. HostTyped' /\ Keeps(plans, plans') /\ ReviewedInv' /\ plans' = plans
  BY IdleHost
<1>2. ASSUME NEW e \in Calls'
      PROVE  e \in Request /\ Answers(plans', e) /\ \E c \in Calls : Alike(c, e)
  <2>1. PICK c \in Calls : e \in Request /\ Alike(c, e) /\ e.reply = c.reply
    OBVIOUS
  <2>2. Answers(plans, c)
    BY CallsAsked
  <2>3. Answers(plans', e)
    BY <1>1, <2>1, <2>2, AlikeAsks DEF Answers
  <2> QED
    BY <2>1, <2>3
<1> QED
  BY <1>1, <1>2, HostBench

LEMMA SameCallsBench ==
  ASSUME BenchInv, Aside, left' \in [Kinds -> Nat], host' \in Nat, revision' \in Nat,
         enforced' \in SUBSET Powers, UNCHANGED <<plans, latest>>,
         call' = call, orphans' \subseteq orphans
  PROVE  BenchInv'
<1>1. ASSUME NEW e \in Calls'
      PROVE  e \in Calls /\ e \in Request /\ Alike(e, e) /\ e.reply = e.reply
  <2>1. e \in Calls
    BY DEF Calls, NoCall
  <2> QED
    BY <2>1, CallsAsked DEF Alike
<1>2. \/ call = NoCall /\ call' = NoCall
      \/ call # NoCall /\ call' # NoCall /\ Alike(call, call')
  BY DEF Alike
<1> QED
  BY <1>1, <1>2, StillBench

LEMMA ProviderBench ==
  ASSUME BenchInv, Aside, left' = left, NEW n,
         NEW s \in {"available", "incomplete", "failed"}, ProviderAnswers(n, s)
  PROVE  BenchInv'
<1> DEFINE tell(c) == IF c # NoCall /\ c.load = n THEN Told(c, StatusOf(s)) ELSE c
<1>0. /\ UNCHANGED <<host, revision, plans, latest, enforced>>
      /\ host \in Nat /\ enforced \in SUBSET Powers /\ revision \in Nat
      /\ left' \in [Kinds -> Nat]
  BY DEF BenchInv, HostTyped, ProviderAnswers
<1>1. call' = tell(call) /\ orphans' = {tell(c) : c \in orphans}
  BY DEF ProviderAnswers
<1>2. ASSUME NEW c \in Calls
      PROVE  tell(c) \in Request /\ Alike(c, tell(c)) /\ tell(c).reply = c.reply
  <2>1. c \in Request /\ StatusOf(s) \in Statuses
    BY CallsAsked, StatusesOf
  <2>2. /\ Told(c, StatusOf(s)) \in Request /\ Alike(c, Told(c, StatusOf(s)))
        /\ Told(c, StatusOf(s)).reply = c.reply
    BY <2>1, ToldAlike
  <2>3. Alike(c, c)
    BY DEF Alike
  <2> QED
    BY <2>1, <2>2, <2>3
<1>3. tell(NoCall) = NoCall
  OBVIOUS
<1> HIDE DEF tell
<1>4. ASSUME NEW e \in Calls' PROVE \E c \in Calls : e = tell(c)
  <2>1. CASE e \in orphans'
    BY <1>1, <2>1 DEF Calls
  <2>2. CASE e = call' /\ e # NoCall
    BY <1>1, <1>3, <2>2 DEF Calls
  <2> QED
    BY <1>4, <2>1, <2>2 DEF Calls, NoCall
<1>5. ASSUME NEW e \in Calls'
      PROVE  \E c \in Calls : e \in Request /\ Alike(c, e) /\ e.reply = c.reply
  BY <1>2, <1>4
<1>6. CASE call = NoCall
  <2>1. call' = NoCall
    BY <1>1, <1>3, <1>6
  <2> QED
    BY <1>0, <1>5, <1>6, <2>1, StillBench
<1>7. CASE call # NoCall
  <2>1. call \in Calls
    BY <1>7 DEF Calls
  <2>2. call' \in Request /\ Alike(call, call')
    BY <1>1, <1>2, <2>1
  <2>3. call' # NoCall
    BY <2>2, RequestIsACall
  <2> QED
    BY <1>0, <1>5, <1>7, <2>2, <2>3, StillBench
<1> QED
  BY <1>6, <1>7

LEMMA HostKeeps == CatalogTypeOK /\ BenchInv /\ HostStep => BenchInv'
<1> SUFFICES ASSUME CatalogTypeOK, BenchInv, HostStep PROVE BenchInv'
  OBVIOUS
<1>1. Aside /\ left' = left
  BY DEF HostStep, Aside
<1>2. CASE \E c \in Calls : Handled(c)
  BY <1>1, <1>2, HandledBench
<1>3. CASE \E c \in Calls : HostHearsAbort(c)
  <2>1. /\ UNCHANGED <<host, revision, plans, latest, enforced>>
        /\ call' = call /\ orphans' \subseteq orphans
    BY <1>3 DEF HostHearsAbort, hostVars, planVars
  <2>2. /\ host' \in Nat /\ enforced' \in SUBSET Powers /\ revision' \in Nat
        /\ left' \in [Kinds -> Nat]
    BY <1>1, <2>1 DEF BenchInv, HostTyped
  <2> QED
    BY <1>1, <2>1, <2>2, SameCallsBench
<1>4. CASE \E n \in DOMAIN loads, s \in {"available", "incomplete", "failed"} :
             ProviderAnswers(n, s)
  BY <1>1, <1>4, ProviderBench
<1> QED
  BY <1>2, <1>3, <1>4 DEF HostStep

(* The environment. *)

LEMMA ElsewhereKeeps == BenchInv /\ Elsewhere => BenchInv'
<1> SUFFICES ASSUME BenchInv, Elsewhere PROVE BenchInv'
  OBVIOUS
<1>0. /\ HostTyped /\ plans \in Seq(History) /\ enforced \in SUBSET Powers
      /\ left.elsewhere \in Nat
  BY DEF BenchInv, HostTyped, Kinds
<1>1. left' \in [Kinds -> Nat]
  BY <1>0, SpendTyped DEF Elsewhere, Kinds
<1>2. /\ Aside /\ UNCHANGED <<host, enforced>> /\ call' = call /\ orphans' = orphans
  BY DEF Elsewhere, Aside
<1>3. HostTyped' /\ Keeps(plans, plans') /\ ReviewedInv'
  <2>1. CASE \E p \in 1..(Len(plans) + 1) : HasRoom(p) /\ SaveDraft(p, 200 + left.elsewhere)
    <3> DEFINE content == 200 + left.elsewhere
    <3>1. content \in Nat
      BY <1>0
    <3> HIDE DEF content
    <3>2. PICK p \in 1..(Len(plans) + 1) : SaveDraft(p, content)
      BY <2>1 DEF content
    <3>3. p \in DOMAIN plans \/ p = Len(plans) + 1
      BY <1>0, PlansDomain, OneMore
    <3> QED
      BY <1>1, <1>2, <3>1, <3>2, <3>3, SavedBench
  <2>2. CASE \E p \in DOMAIN plans :
               Last(p).state = "draft" /\ ApproveDraft(p, "another", enforced, {})
    <3> PICK p \in DOMAIN plans :
               Last(p).state = "draft" /\ ApproveDraft(p, "another", enforced, {})
      BY <2>2
    <3>1. "another" # "this workbench" /\ {} \in SUBSET Warnings
      OBVIOUS
    <3> QED
      BY <1>0, <1>1, <1>2, <3>1, ApprovedBench
  <2> QED
    BY <2>1, <2>2 DEF Elsewhere
<1>4. ASSUME NEW e \in Calls'
      PROVE  e \in Request /\ Answers(plans', e) /\ \E c \in Calls : Alike(c, e)
  <2>1. e \in Calls
    BY <1>2 DEF Calls, NoCall
  <2>2. e \in Request /\ Answers(plans, e) /\ Alike(e, e)
    BY <2>1, CallsAsked DEF Alike
  <2>3. Answers(plans', e)
    BY <1>3, <2>2, KeptAsks
  <2> QED
    BY <2>1, <2>2, <2>3
<1>5. \/ call = NoCall /\ call' = NoCall
      \/ call # NoCall /\ call' # NoCall /\ Alike(call, call')
  BY <1>2 DEF Alike
<1> QED
  BY <1>2, <1>3, <1>4, <1>5, HostBench

LEMMA WorldKeeps == BenchInv /\ (CapabilitiesChange \/ TimePasses) => BenchInv'
<1> SUFFICES ASSUME BenchInv, CapabilitiesChange \/ TimePasses PROVE BenchInv'
  OBVIOUS
<1>0. /\ HostTyped /\ enforced \in SUBSET Powers /\ host \in Nat /\ revision \in Nat
  BY DEF BenchInv, HostTyped
<1>1. left' \in [Kinds -> Nat]
  BY <1>0, SpendTyped DEF CapabilitiesChange, TimePasses, Kinds
<1>2. /\ Aside /\ UNCHANGED <<host, revision, plans, latest>>
      /\ call' = call /\ orphans' \subseteq orphans
  BY DEF CapabilitiesChange, TimePasses, Aside
<1>3. enforced' \in SUBSET Powers
  BY <1>0 DEF CapabilitiesChange, TimePasses, Powers
<1> QED
  BY <1>0, <1>1, <1>2, <1>3, SameCallsBench

LEMMA RestartKeeps == BenchInv /\ Restart => BenchInv'
<1> SUFFICES ASSUME BenchInv, Restart PROVE BenchInv'
  OBVIOUS
<1>0. /\ HostTyped /\ enforced \in SUBSET Powers /\ host \in Nat
  BY DEF BenchInv, HostTyped
<1>1. left' \in [Kinds -> Nat]
  BY <1>0, SpendTyped DEF Restart, Kinds
<1>2. host' \in Nat /\ revision' \in Nat /\ enforced' \in SUBSET Powers
  BY <1>0 DEF Restart
<1>3. /\ UNCHANGED <<plans, latest>> /\ orphans' = {}
      /\ call' = IF call = NoCall \/ call.phase \in {"sent", "answered"} THEN call
                 ELSE [call EXCEPT !.phase = "answered", !.load = 0]
  BY DEF Restart
<1>4. Aside
  BY DEF Restart, Aside
<1>5. Calls' \subseteq {call'} \ {NoCall}
  BY <1>3 DEF Calls, NoCall
<1>6. CASE call = NoCall
  BY <1>1, <1>2, <1>3, <1>4, <1>5, <1>6, StillBench
<1>7. CASE call # NoCall
  <2>1. call \in Calls /\ call \in Request
    BY <1>7, CallsAsked DEF Calls
  <2> DEFINE d == [call EXCEPT !.phase = "answered", !.load = 0]
  <2>2. d \in Request /\ Alike(call, d) /\ d.reply = call.reply
    BY <2>1 DEF Request, Alike
  <2>3. Alike(call, call)
    BY DEF Alike
  <2>4. call' \in Request /\ Alike(call, call') /\ call'.reply = call.reply
    BY <1>3, <2>1, <2>2, <2>3
  <2>5. call' # NoCall
    BY <2>4, RequestIsACall
  <2> QED
    BY <1>1, <1>2, <1>3, <1>4, <1>5, <1>7, <2>1, <2>4, <2>5, StillBench
<1> QED
  BY <1>6, <1>7

LEMMA BenchStutter == BenchInv /\ UNCHANGED vars => BenchInv'
<1> SUFFICES ASSUME BenchInv, UNCHANGED vars PROVE BenchInv'
  OBVIOUS
<1>1. /\ host' = host /\ revision' = revision /\ plans' = plans /\ latest' = latest
      /\ enforced' = enforced /\ poll' = poll /\ ui' = ui /\ call' = call
      /\ orphans' = orphans /\ left' = left /\ seen' = seen /\ ticked' = ticked
      /\ clicks' = clicks
  BY DEF vars, hostVars, planVars, userVars
<1>2. HostTyped' /\ PollInv'
  BY <1>1 DEF BenchInv, HostTyped, PollInv
<1>3. RequestsInv' /\ ActionInv' /\ ReviewedInv'
  BY <1>1 DEF BenchInv, RequestsInv, ActionInv, ReviewedInv, Calls
<1> QED
  BY <1>1, <1>2, <1>3 DEF BenchInv

LEMMA BenchStep == CatalogInv /\ BenchInv /\ [Next]_vars => BenchInv'
  BY BenchStutter, UserKeeps, HostKeeps, ReceivedKeeps, ConnectionKeeps, PollKeeps,
     ElsewhereKeeps, WorldKeeps, RestartKeeps DEF Next, CatalogInv

LEMMA BenchInit == Init => BenchInv
<1> SUFFICES ASSUME Init PROVE BenchInv
  OBVIOUS
<1>1. /\ left \in [Kinds -> Nat] /\ left.stored \in Nat
      /\ host = 1 /\ revision \in Nat /\ enforced = {"provider", "agent"}
      /\ latest = (IF left.stored = 0 THEN NoPlan ELSE 1)
      /\ call = NoCall /\ orphans = {} /\ clicks = 0 /\ ticked = {} /\ seen = {}
  BY WorkbenchAssumption DEF Init, Kinds
<1>2. ASSUME NEW p \in 1..left.stored
      PROVE  /\ <<Draft(100 + p)>> \in History
             /\ \A n \in DOMAIN <<Draft(100 + p)>> : <<Draft(100 + p)>>[n].by = "none"
  <2> DEFINE d == Draft(100 + p)
  <2>1. 100 + p \in Nat
    BY <1>1
  <2>2. d \in Revision /\ d.by = "none"
    BY <2>1, DraftRevision
  <2> HIDE DEF d
  <2>3. <<d>> \in Seq(Revision) /\ <<d>> # <<>> /\ DOMAIN <<d>> = {1} /\ <<d>>[1] = d
    BY <2>2
  <2>4. <<d>> \in History /\ \A n \in DOMAIN <<d>> : <<d>>[n].by = "none"
    BY <2>2, <2>3 DEF History
  <2> QED
    BY <2>4 DEF d
<1> DEFINE first(p) == <<Draft(100 + p)>>
<1>3. plans = [p \in 1..left.stored |-> first(p)]
  BY DEF Init
<1>4. \A p \in 1..left.stored :
        first(p) \in History /\ \A n \in DOMAIN first(p) : first(p)[n].by = "none"
  BY <1>2
<1> HIDE DEF first
<1>5. plans \in Seq(History) /\ DOMAIN plans = 1..left.stored
  <2>1. plans \in [1..left.stored -> History]
    BY <1>3, <1>4
  <2> QED
    BY <1>1, <2>1
<1>6. \A p \in DOMAIN plans : \A n \in DOMAIN plans[p] : plans[p][n].by = "none"
  BY <1>3, <1>4, <1>5
<1>7. HostTyped
  <2>1. latest \in Nat
    BY <1>1 DEF NoPlan
  <2>2. plans # <<>> => latest \in DOMAIN plans
    <3> SUFFICES ASSUME latest \notin DOMAIN plans PROVE plans = <<>>
      OBVIOUS
    <3>1. left.stored = 0
      BY <1>1, <1>5
    <3> QED
      BY <1>5, <3>1
  <2> QED
    BY <1>1, <1>5, <2>1, <2>2 DEF HostTyped, Powers
<1>8. ReviewedInv
  BY <1>6 DEF ReviewedInv
<1>9. Calls = {}
  BY <1>1 DEF Calls, NoCall
<1>10. RequestsInv
  BY <1>9 DEF RequestsInv
<1>11. Snapshot \in Brochure /\ Listed(plans, Snapshot)
  BY <1>7, SnapshotListed
<1>12. PollInv
  <2>1. poll = Answered(Snapshot)
    BY DEF Init
  <2> HIDE DEF Snapshot
  <2> QED
    BY <1>11, <2>1, PollsKeep DEF PollInv
<1>13. NoEditor \in Editor /\ Edited(plans, NoEditor) /\ NoPlan \in Nat
  BY DEF NoEditor, Editor, Edited, NoPlan
<1>14. NoPreflight \in Check /\ Previewed(seen, ticked, NoPreflight, {})
  BY UntouchedPreflight
<1>15. NoSnapshot \in Brochure /\ Listed(plans, NoSnapshot)
  <2>1. NoSnapshot.plans = <<>> /\ DOMAIN NoSnapshot.plans = {}
    BY DEF NoSnapshot
  <2>2. NoSnapshot \in Brochure
    BY DEF NoSnapshot, Brochure, NoPlan
  <2> QED
    BY <2>1, <2>2 DEF Listed
<1>16. NoTarget \in Nat \X Int
  BY DEF NoTarget, NoPlan
<1>17. ui = [active |-> TRUE, status |-> "loading", shown |-> NoSnapshot,
           selected |-> NoPlan, editor |-> NoEditor, preflight |-> NoPreflight,
           accepted |-> {}, action |-> "none", armed |-> NoTarget, prompted |-> FALSE]
  BY DEF Init
<1>18. /\ ui \in Component /\ ui.editor = NoEditor /\ ui.shown = NoSnapshot
       /\ ui.preflight = NoPreflight /\ ui.accepted = {} /\ ui.action = "none"
       /\ ui.armed = NoTarget
  BY <1>13, <1>14, <1>15, <1>16, <1>17 DEF Component
<1>19. Shows(plans, seen, ticked, ui)
  BY <1>13, <1>14, <1>15, <1>18 DEF Shows
<1>20. ActionInv
  <2>1. NoCall.name = "none"
    BY DEF NoCall
  <2> QED
    BY <1>1, <1>18, <2>1 DEF ActionInv, Acts
<1> QED
  BY <1>7, <1>8, <1>10, <1>12, <1>19, <1>20 DEF BenchInv

(* What the page shows, the requests under way or given up, the snapshot   *)
(* that is being delivered and the action that runs never disagree with    *)
(* the host on what BenchInv says of them, however many plans, revisions,  *)
(* lost answers and restarts there are.                                    *)
THEOREM BenchAlwaysHolds == Spec => []BenchInv
<1>1. Init => CatalogInv /\ BenchInv
  BY CatalogInitInv, BenchInit DEF Init
<1>2. CatalogInv /\ [Next]_vars => CatalogInv'
  BY StepUsesCatalog, CatalogStep
<1> QED
  BY <1>1, <1>2, BenchStep, PTL DEF Spec

(* What this workbench approves is what it has shown a valid preflight of, *)
(* with every warning ticked, and what it executes is an approved revision *)
(* that the user clicked twice: whatever revisions, plans, capabilities    *)
(* and late answers arrive in between, and however many.                   *)
THEOREM HostAlwaysActsAsReviewed == Spec => []HostActsAsReviewed
<1>1. BenchInv => HostActsAsReviewed
  <2> SUFFICES ASSUME BenchInv PROVE HostActsAsReviewed
    OBVIOUS
  <2>1. ReviewedInv /\ Acts(plans, ui, call, clicks)
    BY DEF BenchInv, ActionInv
  <2> QED
    BY <2>1 DEF HostActsAsReviewed, ReviewedInv, Acts, Approved
<1> QED
  BY <1>1, BenchAlwaysHolds, PTL

-----------------------------------------------------------------------------
(* Edits.                                                                  *)

HostHas(content) ==
  \E p \in DOMAIN plans : \E n \in DOMAIN plans[p] : plans[p][n].content = content

(* No state that keeps the editor loses edits by being shown.              *)
LEMMA ShowKeepsEdits ==
  ASSUME BenchInv, ui.editor.dirty, NEW u, NEW request, Show(u, request),
         u \in Component, u.editor = ui.editor, Listed(plans, u.shown),
         u.preflight = ui.preflight, u.accepted = ui.accepted
  PROVE  ui'.editor = ui.editor
<1>1. Shows(plans, seen, ticked, u)
  BY BenchFacts DEF Shows
<1> QED
  BY <1>1, ShowOk

LEMMA BeginsKeepsEdits ==
  ASSUME BenchInv, ui.editor.dirty, NEW name \in CallName, Begins(name)
  PROVE  ui'.editor = ui.editor
<1> DEFINE u == [ui EXCEPT !.action = name]
<1>1. /\ u \in Component /\ u.editor = ui.editor /\ u.shown = ui.shown
      /\ u.preflight = ui.preflight /\ u.accepted = ui.accepted
  BY BenchFacts DEF Component
<1>2. Show(u, Call(name))
  BY DEF Begins
<1> HIDE DEF u
<1> QED
  BY <1>1, <1>2, BenchFacts, ShowKeepsEdits

LEMMA UserKeepsEdits ==
  ASSUME BenchInv, ui.editor.dirty, UserStep, ~UpdateContent, ~DiscardChanges
  PROVE  ui'.editor = ui.editor
<1>0. ui \in Component /\ Listed(plans, ui.shown) /\ Edited(plans, ui.editor)
  BY BenchFacts
<1>1. ui.editor.state = "draft"
  BY <1>0 DEF Edited
<1>2. CASE RequestDesign \/ Save \/ RunPreflight \/ Approve
  BY <1>2, BeginsKeepsEdits DEF RequestDesign, Save, RunPreflight, Approve, Begin, CallName
<1>3. CASE \/ CreateNewRevision \/ StartManual \/ RequestExecution
           \/ \E p \in 1..MaxPlans : SelectPlan(p)
  BY <1>1, <1>3 DEF CreateNewRevision, StartManual, RequestExecution, SelectPlan
<1>4. CASE \E w \in {"model"} : AcceptWarning(w)
  <2> PICK w \in {"model"} : AcceptWarning(w)
    BY <1>4
  <2> DEFINE a == IF w \in ui.accepted THEN ui.accepted \ {w} ELSE ui.accepted \cup {w}
             u == [ui EXCEPT !.accepted = a]
  <2>1. Show(u, NoCall) /\ ui.accepted \in SUBSET Warnings
    BY <1>0, BenchFacts DEF AcceptWarning, Component
  <2>2. a \in SUBSET Warnings
    BY <2>1 DEF Warnings
  <2> HIDE DEF a
  <2>3. /\ u \in Component /\ u.editor = ui.editor /\ u.shown = ui.shown
    BY <1>0, <2>2 DEF Component
  <2>4. u.preflight = ui.preflight /\ u.accepted = a
    BY <1>0 DEF Component
  <2> HIDE DEF u
  <2>5. Shows(plans, seen, {<<ui.preflight.plan, ui.preflight.revision, x>> : x \in a}, u)
    BY <1>0, <2>3, <2>4, BenchFacts DEF Shows, Previewed
  <2> QED
    BY <2>1, <2>3, <2>5, ShowOk
<1>5. CASE PromptTimesOut
  <2> DEFINE u == [ui EXCEPT !.prompted = FALSE]
  <2>1. /\ u \in Component /\ u.editor = ui.editor /\ u.shown = ui.shown
        /\ u.preflight = ui.preflight /\ u.accepted = ui.accepted
    BY <1>0 DEF Component
  <2>2. Show(u, call)
    BY <1>5 DEF PromptTimesOut
  <2> HIDE DEF u
  <2> QED
    BY <1>0, <2>1, <2>2, ShowKeepsEdits
<1>6. CASE Refresh
  BY <1>6 DEF Refresh
<1>7. CASE Leave
  <2> DEFINE u == [ui EXCEPT !.active = FALSE]
  <2>1. /\ u \in Component /\ u.editor = ui.editor /\ u.shown = ui.shown
        /\ u.preflight = ui.preflight /\ u.accepted = ui.accepted
    BY <1>0 DEF Component
  <2>2. Show(u, call)
    BY <1>7 DEF Leave
  <2> HIDE DEF u
  <2> QED
    BY <1>0, <2>1, <2>2, ShowKeepsEdits
<1>8. CASE Return
  <2> DEFINE u == [ui EXCEPT !.active = TRUE]
  <2>1. /\ u \in Component /\ u.editor = ui.editor /\ u.shown = ui.shown
        /\ u.preflight = ui.preflight /\ u.accepted = ui.accepted
    BY <1>0 DEF Component
  <2>2. Show(u, NoCall)
    BY <1>8 DEF Return
  <2> HIDE DEF u
  <2> QED
    BY <1>0, <2>1, <2>2, ShowKeepsEdits
<1> QED
  BY <1>2, <1>3, <1>4, <1>5, <1>6, <1>7, <1>8 DEF UserStep

(* The answer to a save brings what the host has; no other answer touches  *)
(* edits.                                                                  *)
LEMMA ReceivedKeepsEdits ==
  ASSUME BenchInv, ui.editor.dirty, Received
  PROVE  ui'.editor = ui.editor \/ HostHas(ui.editor.content)
<1>0. /\ ui \in Component /\ Listed(plans, ui.shown) /\ Acts(plans, ui, call, clicks)
      /\ Previewed(seen, ticked, ui.preflight, ui.accepted) /\ Edited(plans, ui.editor)
  BY BenchFacts
<1>1. /\ call # NoCall /\ Answers(plans, call)
      /\ call.name \notin {"manual", "new-revision", "approve"}
  BY <1>0, BenchFacts DEF Received, Acts
<1>2. CASE Finish(ui)
  <2> DEFINE u == [ui EXCEPT !.action = "none"]
  <2>1. /\ u \in Component /\ u.editor = ui.editor /\ u.shown = ui.shown
        /\ u.preflight = ui.preflight /\ u.accepted = ui.accepted
    BY <1>0 DEF Component
  <2>2. Show(u, NoCall)
    BY <1>2 DEF Finish
  <2> HIDE DEF u
  <2> QED
    BY <1>0, <2>1, <2>2, ShowKeepsEdits
<1>3. CASE call.reply.ok /\ call.name = "save"
  <2>1. ui.editor.content = call.content
    BY <1>0, <1>3 DEF Acts
  <2> QED
    BY <1>1, <1>3, <2>1 DEF Answers, Fits, HostHas
<1>4. CASE /\ call.reply.ok /\ call.name = "preflight"
           /\ Finish([ui EXCEPT !.preflight = call.reply.preflight, !.accepted = {}])
  <2> DEFINE c == call.reply.preflight
             u == [ui EXCEPT !.preflight = c, !.accepted = {}]
             w == [u EXCEPT !.action = "none"]
  <2>1. c \in Check
    BY <1>1, <1>4 DEF Answers, Fits, Checked
  <2>2. Show(w, NoCall)
    BY <1>4 DEF Finish
  <2> HIDE DEF c
  <2>3. /\ w \in Component /\ w.editor = ui.editor /\ w.shown = ui.shown
        /\ w.preflight = c /\ w.accepted = {}
    BY <1>0, <2>1 DEF Component
  <2> HIDE DEF w
  <2>4. Shows(plans, {<<c.plan, c.revision, c.digest>>}, {}, w)
    BY <1>0, <2>3 DEF Shows, Previewed
  <2> QED
    BY <2>2, <2>3, <2>4, ShowOk
<1>5. CASE Finish([ui EXCEPT !.armed = NoTarget, !.prompted = TRUE])
  <2> DEFINE u == [ui EXCEPT !.armed = NoTarget, !.prompted = TRUE]
             w == [u EXCEPT !.action = "none"]
  <2>1. NoTarget \in Nat \X Int
    BY DEF NoTarget, NoPlan
  <2>2. /\ w \in Component /\ w.editor = ui.editor /\ w.shown = ui.shown
        /\ w.preflight = ui.preflight /\ w.accepted = ui.accepted
    BY <1>0, <2>1 DEF Component
  <2>3. Show(w, NoCall)
    BY <1>5 DEF Finish
  <2> HIDE DEF w
  <2> QED
    BY <1>0, <2>2, <2>3, ShowKeepsEdits
<1> QED
  BY <1>1, <1>2, <1>3, <1>4, <1>5 DEF Received

LEMMA ConnectionKeepsEdits ==
  ASSUME BenchInv, ui.editor.dirty, CallFails \/ PollReceived \/ PollFails
  PROVE  ui'.editor = ui.editor
<1>0. ui \in Component /\ Listed(plans, ui.shown)
  BY BenchFacts
<1>1. CASE CallFails
  <2> DEFINE u == [ui EXCEPT !.action = "none"]
  <2>1. /\ u \in Component /\ u.editor = ui.editor /\ u.shown = ui.shown
        /\ u.preflight = ui.preflight /\ u.accepted = ui.accepted
    BY <1>0 DEF Component
  <2>2. Show(u, call)
    BY <1>1 DEF CallFails
  <2> HIDE DEF u
  <2> QED
    BY <1>0, <2>1, <2>2, ShowKeepsEdits
<1>2. CASE PollReceived
  <2> DEFINE s == poll.reply
             u == [ui EXCEPT !.status = "ready", !.shown = s]
  <2>1. s \in Brochure /\ Listed(plans, s)
    BY <1>2 DEF PollReceived, BenchInv, PollInv
  <2>2. /\ u \in Component /\ u.editor = ui.editor /\ u.shown = s
        /\ u.preflight = ui.preflight /\ u.accepted = ui.accepted
    BY <1>0, <2>1 DEF Component
  <2>3. Show(u, call)
    BY <1>2 DEF PollReceived
  <2> HIDE DEF u, s
  <2> QED
    BY <2>1, <2>2, <2>3, ShowKeepsEdits
<1>3. CASE PollFails
  <2> DEFINE u == [ui EXCEPT !.status = "error"]
  <2>1. /\ u \in Component /\ u.editor = ui.editor /\ u.shown = ui.shown
        /\ u.preflight = ui.preflight /\ u.accepted = ui.accepted
    BY <1>0 DEF Component
  <2>2. Show(u, call)
    BY <1>3 DEF PollFails
  <2> HIDE DEF u
  <2> QED
    BY <1>0, <2>1, <2>2, ShowKeepsEdits
<1> QED
  BY <1>1, <1>2, <1>3

(* The edits of a draft leave the editor only once the host has them, or   *)
(* by the user's own further edits or discard, however the answers,        *)
(* snapshots, losses and restarts are ordered.                             *)
THEOREM EditsAlwaysSurvive == Spec => EditsSurvive
<1> DEFINE Lost ==
      ui.editor.dirty /\ ui'.editor # ui.editor =>
        \/ UpdateContent \/ DiscardChanges
        \/ \E p \in DOMAIN plans : \E n \in DOMAIN plans[p] :
             plans[p][n].content = ui.editor.content
<1>1. BenchInv /\ [Next]_vars => [Lost]_vars
  <2> SUFFICES ASSUME BenchInv, [Next]_vars, ui.editor.dirty, ui'.editor # ui.editor,
                      ~UpdateContent, ~DiscardChanges
               PROVE  HostHas(ui.editor.content)
    BY DEF HostHas
  <2>1. ui' # ui
    OBVIOUS
  <2>2. CASE UserStep
    BY <2>2, UserKeepsEdits
  <2>3. CASE Received
    BY <2>3, ReceivedKeepsEdits
  <2>4. CASE CallFails \/ PollReceived \/ PollFails
    BY <2>4, ConnectionKeepsEdits
  <2> QED
    BY <2>1, <2>2, <2>3, <2>4
    DEF Next, vars, HostStep, PollStep, PollTimesOut, Elsewhere, CapabilitiesChange,
        TimePasses, Restart
<1> QED
  BY <1>1, BenchAlwaysHolds, PTL DEF Spec, EditsSurvive
=============================================================================
