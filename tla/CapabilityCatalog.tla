-------------------------- MODULE CapabilityCatalog --------------------------
(***************************************************************************)
(* The model catalog of one LLM provider as the host keeps it              *)
(* (src/src/capability-catalog.ts): LlmModelCatalogCache.load, which       *)
(* shares one load among the callers, and boundedWait, which lets a caller *)
(* give up on a provider that cannot be cancelled.                         *)
(*                                                                         *)
(* The loads are numbered in the order they were started.  The clock is    *)
(* left out: a cached catalog, the lease of a load and the cooldown after  *)
(* a failure end at any time.                                              *)
(***************************************************************************)
EXTENDS Naturals, Sequences

VARIABLES
  loads,   \* how far each load is, and whether its lease is spent
  flight,  \* the load new callers join, or 0
  cached,  \* the load whose models are cached, or 0
  cooling  \* the provider failed a short while ago

catalogVars == <<loads, flight, cached, cooling>>

Statuses == {"available", "incomplete", "unavailable"}

(* Before its first caller, or with the models it asked for then. *)
CatalogInit ==
  /\ \/ loads = <<>> /\ cached = 0
     \/ loads = <<[state |-> "available", spent |-> FALSE]>> /\ cached = 1
  /\ flight = 0 /\ cooling = FALSE

Joinable == flight # 0 /\ ~loads[flight].spent

(* A caller is answered at once, or waits for load n. *)
LoadAnswers(status) ==
  \/ cached # 0 /\ status = loads[cached].state /\ UNCHANGED catalogVars
  \/ /\ cached = 0 /\ ~Joinable /\ cooling
     /\ status = "unavailable"
     /\ flight' = 0
     /\ UNCHANGED <<loads, cached, cooling>>

LoadAwaited(n) ==
  /\ cached = 0
  /\ \/ Joinable /\ n = flight /\ UNCHANGED catalogVars
     \/ /\ ~Joinable /\ ~cooling
        /\ n = Len(loads) + 1
        /\ loads' = Append(loads, [state |-> "running", spent |-> FALSE])
        /\ flight' = n
        /\ UNCHANGED <<cached, cooling>>

(* Mutated: the models of a load that was given up are cached as well.     *)
LoadEndsAnyway(n, state) ==
  /\ n \in DOMAIN loads /\ loads[n].state = "running"
  /\ loads' = [loads EXCEPT ![n].state = state]
  /\ flight' = 0
  /\ cached' = IF state = "failed" THEN cached ELSE n
  /\ cooling' = (state = "failed")

(* The provider answers a load, with models or an error.  A load that is   *)
(* no longer the one in flight changes nothing here.                       *)
LoadEnds(n, state) ==
  /\ n \in DOMAIN loads /\ loads[n].state = "running"
  /\ loads' = [loads EXCEPT ![n].state = state]
  /\ IF n # flight THEN UNCHANGED <<flight, cached, cooling>>
     ELSE /\ flight' = 0
          /\ cached' = IF state = "failed" THEN cached ELSE n
          /\ cooling' = (state = "failed")

(* What a caller of a load that ended is told. *)
StatusOf(state) == IF state = "failed" THEN "unavailable" ELSE state

(* Time passes. *)
CacheExpires == cached # 0 /\ cached' = 0 /\ UNCHANGED <<loads, flight, cooling>>
LeaseEnds ==
  /\ Joinable
  /\ loads' = [loads EXCEPT ![flight].spent = TRUE]
  /\ UNCHANGED <<flight, cached, cooling>>
CooldownEnds == cooling /\ cooling' = FALSE /\ UNCHANGED <<loads, flight, cached>>

(* The catalog is in memory only. *)
CatalogLost ==
  loads' = <<>> /\ flight' = 0 /\ cached' = 0 /\ cooling' = FALSE

CatalogNext ==
  \/ \E status \in Statuses : LoadAnswers(status)
  \/ \E n \in 1..(Len(loads) + 1) : LoadAwaited(n)
  \/ \E n \in DOMAIN loads, state \in {"available", "incomplete", "failed"} :
       LoadEnds(n, state)
  \/ CacheExpires \/ LeaseEnds \/ CooldownEnds \/ CatalogLost

CatalogSpec == CatalogInit /\ [][CatalogNext]_catalogVars

(* A load whose lease is not spent is the one that callers share, and what *)
(* is cached is the newest load: one that was given up and ends late never *)
(* replaces the models of a later one.                                     *)
NewestIsCached ==
  /\ cached # 0 => cached = Len(loads) /\ flight = 0
  /\ \A n \in DOMAIN loads :
       loads[n].state = "running" /\ ~loads[n].spent => flight = n
=============================================================================
