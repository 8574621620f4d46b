----------------------------- MODULE Admission -----------------------------
(***************************************************************************)
(* AdmissionController (src/src/domain.ts): the FIFO permit pool shared by *)
(* every plugin-owned delegation tool.                                     *)
(*                                                                         *)
(* The controller is synchronous: acquire, close, a release and the abort  *)
(* listener of a queued request each run to completion, so each of them is *)
(* one action.  The promise handed back by acquire is `grant[r]`; what the *)
(* caller does once it settles is modelled in OwnedDelegation.             *)
(***************************************************************************)
EXTENDS Naturals, Sequences, FiniteSets

CONSTANTS
  Requests,       \* calls of acquire, each with the abort signal it passes
  MaxConcurrent,  \* AdmissionController.maxConcurrent
  MaxQueued       \* AdmissionController.maxQueued

ASSUME RequestsFinite   == IsFiniteSet(Requests)
ASSUME ConcurrencyBound == MaxConcurrent \in Nat \ {0}
ASSUME QueueBound       == MaxQueued \in Nat

VARIABLES
  active,   \* AdmissionController.active
  pending,  \* AdmissionController.pending, oldest first
  closed,   \* AdmissionController.closed
  aborted,  \* the requests whose signal has aborted
  grant     \* how far each request got

admissionVars == <<active, pending, closed, aborted, grant>>

GrantState ==
  {"idle",       \* acquire not called yet
   "queued",     \* waiting in pending
   "held",       \* resolved: the permit is outstanding
   "released",   \* its release callback ran
   "full",       \* rejected with AdmissionQueueFullError
   "cancelled"}  \* rejected with AdmissionCancelledError

(* splice(i, 1) on an array. *)
Without(seq, i) == SubSeq(seq, 1, i - 1) \o SubSeq(seq, i + 1, Len(seq))

Held == {r \in Requests : grant[r] = "held"}

AdmissionTypeOK ==
  /\ active \in Nat
  /\ pending \in Seq(Requests)
  /\ closed \in BOOLEAN
  /\ aborted \subseteq Requests
  /\ grant \in [Requests -> GrantState]

AdmissionInit ==
  /\ active = 0
  /\ pending = <<>>
  /\ closed = FALSE
  /\ aborted = {}
  /\ grant = [r \in Requests |-> "idle"]

-----------------------------------------------------------------------------
(* acquire: the checks in their source order. *)

RejectCancelled(r) ==
  /\ closed \/ r \in aborted
  /\ grant' = [grant EXCEPT ![r] = "cancelled"]
  /\ UNCHANGED <<active, pending>>

GrantNow(r) ==
  /\ ~closed /\ r \notin aborted
  /\ active < MaxConcurrent
  /\ active' = active + 1
  /\ grant' = [grant EXCEPT ![r] = "held"]
  /\ UNCHANGED pending

RejectFull(r) ==
  /\ ~closed /\ r \notin aborted
  /\ active >= MaxConcurrent
  /\ Len(pending) >= MaxQueued
  /\ grant' = [grant EXCEPT ![r] = "full"]
  /\ UNCHANGED <<active, pending>>

Enqueue(r) ==
  /\ ~closed /\ r \notin aborted
  /\ active >= MaxConcurrent
  /\ Len(pending) < MaxQueued
  /\ pending' = Append(pending, r)
  /\ grant' = [grant EXCEPT ![r] = "queued"]
  /\ UNCHANGED active

Acquire(r) ==
  /\ grant[r] = "idle"
  /\ RejectCancelled(r) \/ GrantNow(r) \/ RejectFull(r) \/ Enqueue(r)
  /\ UNCHANGED <<closed, aborted>>

-----------------------------------------------------------------------------
(* Mutated: the listener rejects the request and leaves it in the queue. *)
AbortLeavesEntry(r) ==
  /\ r \notin aborted
  /\ aborted' = aborted \cup {r}
  /\ grant' = [grant EXCEPT ![r] = IF @ = "queued" THEN "cancelled" ELSE @]
  /\ UNCHANGED <<active, pending, closed>>

(* The caller's signal aborts; the listener of a queued request takes it   *)
(* out of the queue before any other code runs.  A signal shared by        *)
(* several calls runs their listeners one after another: a row of Aborts.  *)
Abort(r) ==
  /\ r \notin aborted
  /\ aborted' = aborted \cup {r}
  /\ \/ /\ grant[r] # "queued"
        /\ UNCHANGED <<pending, grant>>
     \/ /\ \E i \in 1..Len(pending) :
             /\ pending[i] = r
             /\ pending' = Without(pending, i)
        /\ grant' = [grant EXCEPT ![r] = "cancelled"]
  /\ UNCHANGED <<active, closed>>

(* close: rejects the whole queue; a second call does nothing. *)
Close ==
  /\ ~closed
  /\ closed' = TRUE
  /\ pending' = <<>>
  /\ grant' = [r \in Requests |-> IF grant[r] = "queued"
                                  THEN "cancelled" ELSE grant[r]]
  /\ UNCHANGED <<active, aborted>>

-----------------------------------------------------------------------------
(* Mutated: the newest waiter is served. *)
PumpGrantsNewest(r) ==
  /\ pending # <<>>
  /\ pending' = SubSeq(pending, 1, Len(pending) - 1)
  /\ grant' = [grant EXCEPT ![r] = "released", ![pending[Len(pending)]] = "held"]
  /\ UNCHANGED active

(* The first call of a release callback (later ones return at once) gives  *)
(* one permit back and pumps: the oldest request that still waits gets the *)
(* permit, the aborted ones before it are rejected.  One release frees one *)
(* permit, and by QueueOnlyWhenFull no other permit is free while anyone   *)
(* waits, so the pump's loop grants at most once.                          *)
PumpGrants(r) ==
  \E i \in 1..Len(pending) :
    LET skipped == {pending[j] : j \in 1..(i - 1)}
    IN  /\ pending[i] \notin aborted
        /\ skipped \subseteq aborted
        /\ pending' = SubSeq(pending, i + 1, Len(pending))
        /\ grant' = [q \in Requests |->
                       CASE q = r          -> "released"
                         [] q = pending[i] -> "held"
                         [] q \in skipped  -> "cancelled"
                         [] OTHER          -> grant[q]]
        /\ UNCHANGED active

PumpIdles(r) ==
  LET skipped == {pending[j] : j \in 1..Len(pending)}
  IN  /\ skipped \subseteq aborted
      /\ active' = active - 1
      /\ pending' = <<>>
      /\ grant' = [q \in Requests |->
                     CASE q = r         -> "released"
                       [] q \in skipped -> "cancelled"
                       [] OTHER         -> grant[q]]

Release(r) ==
  /\ grant[r] = "held"
  /\ PumpGrants(r) \/ PumpIdles(r)
  /\ UNCHANGED <<closed, aborted>>

-----------------------------------------------------------------------------
AdmissionNext ==
  \/ \E r \in Requests : Acquire(r) \/ Abort(r) \/ Release(r)
  \/ Close

AdmissionSpec == AdmissionInit /\ [][AdmissionNext]_admissionVars

-----------------------------------------------------------------------------
(* Every request that waits stands in the queue exactly once, with a signal *)
(* that has not aborted, and nobody else does: no cancelled call is ever    *)
(* granted by a later pump and no waiting call is forgotten by it.          *)
QueueIsTheWaiters ==
  /\ \A i, j \in 1..Len(pending) : pending[i] = pending[j] => i = j
  /\ \A i \in 1..Len(pending) : /\ grant[pending[i]] = "queued"
                               /\ pending[i] \notin aborted
  /\ \A r \in Requests : grant[r] = "queued" =>
                           \E i \in 1..Len(pending) : pending[i] = r
  /\ Len(pending) <= MaxQueued

(* A request waits only while every permit is taken and the controller is  *)
(* open: acquire's immediate grant therefore never overtakes the queue,    *)
(* and a release can never strand a waiter beside a free permit.           *)
QueueOnlyWhenFull == pending # <<>> => active = MaxConcurrent /\ ~closed

(* The counter `active` is the number of permits resolved and not given    *)
(* back: none is lost or returned twice, whatever raced with the release.  *)
PermitsAccounted ==
  /\ active = Cardinality(Held)
  /\ active <= MaxConcurrent

(* The controller's books: its queue, its counter and its open door agree  *)
(* whatever came between the grant of a permit and its return.             *)
QueueAndPermitsAgree == QueueIsTheWaiters /\ QueueOnlyWhenFull /\ PermitsAccounted

(* First come, first served: while anyone waits, the next permit goes to   *)
(* the oldest waiter and to nobody else.                                   *)
ServesOldestWaiter ==
  \A r \in Requests :
    pending # <<>> /\ grant[r] # "held" /\ grant'[r] = "held" => r = Head(pending)

NoOvertaking == [][ServesOldestWaiter]_admissionVars
=============================================================================
