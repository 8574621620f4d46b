------------------------ MODULE OwnedDelegationProofs ------------------------
(***************************************************************************)
(* The admission controller and startOwned over it, for every set of       *)
(* calls, every set of observed runs and every bound.                      *)
(*                                                                         *)
(* The controller.  Its inductive invariant IInv strengthens the checked   *)
(* invariants with each other: the accounting of permits needs             *)
(* QueueOnlyWhenFull (the permit a pump passes on is the only free one),   *)
(* QueueOnlyWhenFull needs the queue to hold live waiters only (or the     *)
(* pump would skip them and leave a permit free), and that needs the queue *)
(* to be duplicate free.                                                   *)
(*                                                                         *)
(* startOwned.  Each of its segments is one operation of the controller or *)
(* none, so every theorem about the controller holds of the composed       *)
(* system, and each of its exits gives the permit back.  What the ledger   *)
(* shows of a call follows from where the call and its run stand.          *)
(***************************************************************************)
EXTENDS OwnedDelegation, FiniteSetTheorems, SequenceTheorems, TLAPS

(* What splicing one entry out of a queue does to the others. *)
LEMMA WithoutProperties ==
  ASSUME NEW S, NEW seq \in Seq(S), NEW i \in 1..Len(seq)
  PROVE  /\ Without(seq, i) \in Seq(S)
         /\ Len(Without(seq, i)) = Len(seq) - 1
         /\ \A j \in 1..(Len(seq) - 1) :
              Without(seq, i)[j] = IF j < i THEN seq[j] ELSE seq[j + 1]
<1> DEFINE front == SubSeq(seq, 1, i - 1)
           back  == SubSeq(seq, i + 1, Len(seq))
<1>1. \A j \in 1..Len(seq) : seq[j] \in S
  BY ElementOfSeq
<1>2. Len(seq) \in Nat
  BY LenProperties
<1>3. /\ front \in Seq(S)
      /\ Len(front) = i - 1
      /\ \A j \in 1..(i - 1) : front[j] = seq[j]
  <2>1. \A j \in 1..(i - 1) : seq[j] \in S
    BY <1>1, <1>2
  <2>2. /\ front \in Seq(S)
        /\ Len(front) = IF 1 <= i - 1 THEN i - 1 - 1 + 1 ELSE 0
        /\ \A j \in 1..(i - 1 - 1 + 1) : front[j] = seq[1 + j - 1]
    BY <2>1, <1>2, SubSeqProperties
  <2>3. QED
    BY <2>2, <1>2
<1>4. /\ back \in Seq(S)
      /\ Len(back) = Len(seq) - i
      /\ \A j \in 1..(Len(seq) - i) : back[j] = seq[i + j]
  <2>1. \A j \in (i + 1)..Len(seq) : seq[j] \in S
    BY <1>1, <1>2
  <2>2. /\ back \in Seq(S)
        /\ Len(back) = IF i + 1 <= Len(seq) THEN Len(seq) - (i + 1) + 1 ELSE 0
        /\ \A j \in 1..(Len(seq) - (i + 1) + 1) : back[j] = seq[(i + 1) + j - 1]
    BY <2>1, <1>2, SubSeqProperties
  <2>3. QED
    BY <2>2, <1>2
<1>5. /\ front \o back \in Seq(S)
      /\ Len(front \o back) = Len(front) + Len(back)
      /\ \A j \in 1..(Len(front) + Len(back)) :
           (front \o back)[j] = IF j <= Len(front) THEN front[j]
                                ELSE back[j - Len(front)]
  BY <1>3, <1>4, ConcatProperties
<1> HIDE DEF front, back
<1>6. ASSUME NEW j \in 1..(Len(seq) - 1)
      PROVE  (front \o back)[j] = IF j < i THEN seq[j] ELSE seq[j + 1]
  <2>1. (front \o back)[j] = IF j <= i - 1 THEN front[j] ELSE back[j - (i - 1)]
    BY <1>2, <1>3, <1>4, <1>5
  <2>2. CASE j < i
    BY <2>1, <2>2, <1>2, <1>3
  <2>3. CASE ~(j < i)
    <3>1. j - (i - 1) \in 1..(Len(seq) - i) /\ i + (j - (i - 1)) = j + 1
      BY <2>3, <1>2
    <3>2. ~(j <= i - 1)
      BY <2>3, <1>2
    <3>3. (front \o back)[j] = back[j - (i - 1)]
      BY <2>1, <3>2, Zenon
    <3>4. back[j - (i - 1)] = seq[j + 1]
      BY <3>1, <1>4, Zenon
    <3>5. QED
      BY <2>3, <3>3, <3>4, Zenon
  <2>4. QED
    BY <2>2, <2>3
<1>7. Without(seq, i) = front \o back
  BY DEF Without, front, back
<1>8. QED
  BY <1>2, <1>3, <1>4, <1>5, <1>6, <1>7

-----------------------------------------------------------------------------
IInv ==
  /\ AdmissionTypeOK
  /\ QueueIsTheWaiters
  /\ QueueOnlyWhenFull
  /\ PermitsAccounted

(* The requests that hold a permit are finitely many, so they can be counted. *)
LEMMA HeldFinite == IsFiniteSet(Held)
BY RequestsFinite, FS_Subset DEF Held

(* A new controller has nobody waiting and no permit out. *)
LEMMA InitInv == AdmissionInit => IInv
<1> SUFFICES ASSUME AdmissionInit PROVE IInv
  OBVIOUS
<1>1. AdmissionTypeOK
  <2>1. closed \in BOOLEAN
    BY DEF AdmissionInit
  <2>2. pending \in Seq(Requests) /\ grant \in [Requests -> GrantState]
    BY DEF AdmissionInit, GrantState
  <2>3. active \in Nat /\ aborted \subseteq Requests
    BY DEF AdmissionInit
  <2>4. QED
    BY <2>1, <2>2, <2>3 DEF AdmissionTypeOK
<1>2. QueueIsTheWaiters
  BY QueueBound DEF AdmissionInit, QueueIsTheWaiters
<1>3. QueueOnlyWhenFull
  BY DEF AdmissionInit, QueueOnlyWhenFull
<1>4. PermitsAccounted
  <2>1. Held = {}
    BY DEF Held, AdmissionInit
  <2>2. QED
    BY <2>1, FS_EmptySet, ConcurrencyBound DEF AdmissionInit, PermitsAccounted
<1>5. QED
  BY <1>1, <1>2, <1>3, <1>4 DEF IInv

(* acquire, whichever of its four outcomes, keeps the books: a permit it
   resolves is counted and a request it queues waits only behind a full pool. *)
LEMMA AcquireInv ==
  ASSUME IInv, NEW r \in Requests, Acquire(r)
  PROVE  IInv'
<1> USE DEF IInv
<1>0. /\ active \in Nat /\ pending \in Seq(Requests) /\ aborted \subseteq Requests
      /\ grant \in [Requests -> GrantState] /\ Len(pending) \in Nat
      /\ grant[r] = "idle" /\ aborted' = aborted /\ (closed' <=> closed)
      /\ MaxConcurrent \in Nat \ {0} /\ MaxQueued \in Nat
      /\ \A i \in 1..Len(pending) : pending[i] \in Requests /\ pending[i] # r
  BY ConcurrencyBound, QueueBound, LenProperties, ElementOfSeq
     DEF AdmissionTypeOK, Acquire, QueueIsTheWaiters
<1>1. closed' \in BOOLEAN
  BY DEF Acquire, AdmissionTypeOK
<1>2. CASE RejectCancelled(r) \/ RejectFull(r)
  <2>1. /\ UNCHANGED <<active, pending>>
        /\ \E s \in {"cancelled", "full"} : grant' = [grant EXCEPT ![r] = s]
    BY <1>2 DEF RejectCancelled, RejectFull
  <2>2. grant' \in [Requests -> GrantState] /\ Held' = Held
    BY <2>1, <1>0 DEF Held, GrantState
  <2>3. AdmissionTypeOK'
    BY <2>1, <2>2, <1>0, <1>1 DEF AdmissionTypeOK
  <2>4. QueueIsTheWaiters'
    BY <2>1, <1>0 DEF QueueIsTheWaiters
  <2>5. QueueOnlyWhenFull'
    BY <2>1, <1>0 DEF QueueOnlyWhenFull
  <2>6. PermitsAccounted'
    BY <2>1, <2>2 DEF PermitsAccounted
  <2>7. QED
    BY <2>3, <2>4, <2>5, <2>6
<1>3. CASE GrantNow(r)
  <2>1. /\ active < MaxConcurrent /\ active' = active + 1
        /\ grant' = [grant EXCEPT ![r] = "held"] /\ pending' = pending
    BY <1>3 DEF GrantNow
  <2>2. pending = <<>>
    BY <2>1, <1>0 DEF QueueOnlyWhenFull
  <2>3. grant' \in [Requests -> GrantState]
    BY <2>1, <1>0 DEF GrantState
  <2>4. Held' = Held \cup {r} /\ r \notin Held
    BY <2>1, <1>0 DEF Held
  <2>5. Cardinality(Held') = Cardinality(Held) + 1
    BY <2>4, HeldFinite, FS_AddElement
  <2>6. AdmissionTypeOK'
    BY <2>1, <2>3, <1>0, <1>1 DEF AdmissionTypeOK
  <2>7. QueueIsTheWaiters'
    BY <2>1, <1>0 DEF QueueIsTheWaiters
  <2>8. QueueOnlyWhenFull'
    BY <2>1, <2>2 DEF QueueOnlyWhenFull
  <2>9. PermitsAccounted'
    BY <2>1, <2>5, <1>0 DEF PermitsAccounted
  <2>10. QED
    BY <2>6, <2>7, <2>8, <2>9
<1>4. CASE Enqueue(r)
  <2>1. /\ ~closed /\ r \notin aborted /\ active >= MaxConcurrent
        /\ Len(pending) < MaxQueued /\ pending' = Append(pending, r)
        /\ grant' = [grant EXCEPT ![r] = "queued"] /\ active' = active
    BY <1>4 DEF Enqueue
  <2>2. /\ pending' \in Seq(Requests) /\ Len(pending') = Len(pending) + 1
        /\ \A i \in 1..Len(pending) : pending'[i] = pending[i]
        /\ pending'[Len(pending) + 1] = r
    BY <2>1, <1>0, AppendProperties
  <2>3. grant' \in [Requests -> GrantState] /\ Held' = Held
    BY <2>1, <1>0 DEF Held, GrantState
  <2>4. AdmissionTypeOK'
    BY <2>1, <2>2, <2>3, <1>0, <1>1 DEF AdmissionTypeOK
  <2>5. QueueIsTheWaiters'
    <3>1. \A i \in 1..Len(pending') :
            \/ i \in 1..Len(pending) /\ pending'[i] = pending[i]
            \/ i = Len(pending) + 1 /\ pending'[i] = r
      BY <2>2, <1>0
    <3>2. \A i, j \in 1..Len(pending') : pending'[i] = pending'[j] => i = j
      BY <3>1, <1>0 DEF QueueIsTheWaiters
    <3>3. \A i \in 1..Len(pending') : /\ grant'[pending'[i]] = "queued"
                                     /\ pending'[i] \notin aborted'
      BY <3>1, <2>1, <1>0 DEF QueueIsTheWaiters
    <3>4. ASSUME NEW q \in Requests, grant'[q] = "queued"
          PROVE  \E i \in 1..Len(pending') : pending'[i] = q
      <4>1. CASE q = r
        BY <4>1, <2>2, <1>0
      <4>2. CASE q # r
        <5>1. grant[q] = "queued"
          BY <4>2, <3>4, <2>1, <1>0
        <5>2. PICK i \in 1..Len(pending) : pending[i] = q
          BY <5>1 DEF QueueIsTheWaiters
        <5>3. QED
          BY <5>2, <2>2, <1>0
      <4>3. QED
        BY <4>1, <4>2
    <3>5. Len(pending') <= MaxQueued
      BY <2>1, <2>2, <1>0
    <3>6. QED
      BY <3>2, <3>3, <3>4, <3>5 DEF QueueIsTheWaiters
  <2>6. QueueOnlyWhenFull'
    BY <2>1, <1>0 DEF QueueOnlyWhenFull, PermitsAccounted
  <2>7. PermitsAccounted'
    BY <2>1, <2>3 DEF PermitsAccounted
  <2>8. QED
    BY <2>4, <2>5, <2>6, <2>7
<1>5. QED
  BY <1>2, <1>3, <1>4 DEF Acquire

-----------------------------------------------------------------------------
(* The abort listener takes a waiter out of the queue and touches no permit. *)
LEMMA AbortInv ==
  ASSUME IInv, NEW r \in Requests, Abort(r)
  PROVE  IInv'
<1> USE DEF IInv
<1>0. /\ active \in Nat /\ pending \in Seq(Requests) /\ aborted \subseteq Requests
      /\ grant \in [Requests -> GrantState] /\ Len(pending) \in Nat
      /\ aborted' = aborted \cup {r} /\ active' = active /\ (closed' <=> closed)
      /\ MaxConcurrent \in Nat \ {0} /\ MaxQueued \in Nat
      /\ \A i \in 1..Len(pending) : pending[i] \in Requests
  BY ConcurrencyBound, QueueBound, LenProperties, ElementOfSeq
     DEF AdmissionTypeOK, Abort
<1>1. closed' \in BOOLEAN
  BY DEF Abort, AdmissionTypeOK
<1>2. CASE grant[r] # "queued" /\ UNCHANGED <<pending, grant>>
  <2>1. Held' = Held
    BY <1>2 DEF Held
  <2>2. AdmissionTypeOK'
    BY <1>0, <1>1, <1>2 DEF AdmissionTypeOK
  <2>3. QueueIsTheWaiters'
    BY <1>0, <1>2 DEF QueueIsTheWaiters
  <2>4. QueueOnlyWhenFull' /\ PermitsAccounted'
    BY <1>0, <1>2, <2>1 DEF QueueOnlyWhenFull, PermitsAccounted
  <2>5. QED
    BY <2>2, <2>3, <2>4
<1>3. ASSUME NEW i \in 1..Len(pending), pending[i] = r,
             pending' = Without(pending, i),
             grant' = [grant EXCEPT ![r] = "cancelled"]
      PROVE  IInv'
  <2>1. /\ pending' \in Seq(Requests) /\ Len(pending') = Len(pending) - 1
        /\ \A j \in 1..(Len(pending) - 1) :
             pending'[j] = IF j < i THEN pending[j] ELSE pending[j + 1]
    BY <1>3, <1>0, WithoutProperties
  <2>2. grant[r] = "queued"
    BY <1>3 DEF QueueIsTheWaiters
  <2>3. grant' \in [Requests -> GrantState] /\ Held' = Held
    BY <1>3, <1>0, <2>2 DEF Held, GrantState
  <2>4. AdmissionTypeOK'
    BY <1>0, <1>1, <2>1, <2>3 DEF AdmissionTypeOK
  <2>5. \A j \in 1..Len(pending') :
          \E k \in 1..Len(pending) :
            /\ pending'[j] = pending[k] /\ k # i
            /\ k = IF j < i THEN j ELSE j + 1
    BY <2>1, <1>0
  <2>6. QueueIsTheWaiters'
    <3>1. \A j, k \in 1..Len(pending') : pending'[j] = pending'[k] => j = k
      BY <2>1, <2>5, <1>0 DEF QueueIsTheWaiters
    <3>2. \A j \in 1..Len(pending') : /\ grant'[pending'[j]] = "queued"
                                     /\ pending'[j] \notin aborted'
      <4>1. ASSUME NEW j \in 1..Len(pending')
            PROVE  /\ grant'[pending'[j]] = "queued"
                   /\ pending'[j] \notin aborted'
        <5>1. PICK k \in 1..Len(pending) : pending'[j] = pending[k] /\ k # i
          BY <2>5
        <5>2. pending[k] # r
          BY <5>1, <1>3 DEF QueueIsTheWaiters
        <5>3. QED
          BY <5>1, <5>2, <1>0, <1>3 DEF QueueIsTheWaiters
      <4>2. QED
        BY <4>1
    <3>3. ASSUME NEW q \in Requests, grant'[q] = "queued"
          PROVE  \E j \in 1..Len(pending') : pending'[j] = q
      <4>1. q # r /\ grant[q] = "queued"
        BY <3>3, <1>0, <1>3
      <4>2. PICK k \in 1..Len(pending) : pending[k] = q
        BY <4>1 DEF QueueIsTheWaiters
      <4>3. k # i
        BY <4>1, <4>2, <1>3
      <4>4. CASE k < i
        BY <4>2, <4>4, <2>1, <1>0
      <4>5. CASE k > i
        <5>1. /\ k - 1 \in 1..(Len(pending) - 1) /\ ~(k - 1 < i)
              /\ (k - 1) + 1 = k
          BY <4>5, <1>0
        <5>2. QED
          BY <5>1, <4>2, <2>1
      <4>6. QED
        BY <4>3, <4>4, <4>5, <1>0
    <3>4. Len(pending') <= MaxQueued
      BY <2>1, <1>0 DEF QueueIsTheWaiters
    <3>5. QED
      BY <3>1, <3>2, <3>3, <3>4 DEF QueueIsTheWaiters
  <2>7. pending # <<>>
    BY <1>0, EmptySeq
  <2>8. QueueOnlyWhenFull' /\ PermitsAccounted'
    BY <1>0, <2>3, <2>7 DEF QueueOnlyWhenFull, PermitsAccounted
  <2>9. QED
    BY <2>4, <2>6, <2>8
<1>4. QED
  BY <1>2, <1>3 DEF Abort

(* close empties the queue and cancels exactly those who stood in it. *)
LEMMA CloseInv ==
  ASSUME IInv, Close
  PROVE  IInv'
<1> USE DEF IInv
<1>0. /\ active \in Nat /\ aborted' = aborted /\ active' = active
      /\ grant \in [Requests -> GrantState] /\ pending' = <<>>
      /\ aborted \subseteq Requests
      /\ grant' = [q \in Requests |-> IF grant[q] = "queued"
                                      THEN "cancelled" ELSE grant[q]]
  BY DEF AdmissionTypeOK, Close
<1>1. closed' \in BOOLEAN
  BY DEF Close
<1>2. Held' = Held
  BY <1>0 DEF Held
<1>3. AdmissionTypeOK'
  <2>1. grant' \in [Requests -> GrantState] /\ pending' \in Seq(Requests)
    BY <1>0 DEF GrantState
  <2>2. QED
    BY <2>1, <1>0, <1>1 DEF AdmissionTypeOK
<1>4. QueueIsTheWaiters'
  BY <1>0, QueueBound DEF QueueIsTheWaiters
<1>5. QueueOnlyWhenFull' /\ PermitsAccounted'
  BY <1>0, <1>2 DEF QueueOnlyWhenFull, PermitsAccounted
<1>6. QED
  BY <1>3, <1>4, <1>5

-----------------------------------------------------------------------------
(* A pump finds a live waiter at the head of the queue: nothing is skipped. *)
LEMMA PumpTakesHead ==
  ASSUME IInv, NEW r \in Requests, grant[r] = "held", PumpGrants(r)
  PROVE  /\ pending # <<>> /\ Head(pending) \in Requests /\ Head(pending) # r
         /\ grant[Head(pending)] = "queued"
         /\ pending' \in Seq(Requests) /\ Len(pending') = Len(pending) - 1
         /\ \A j \in 1..(Len(pending) - 1) : pending'[j] = pending[j + 1]
         /\ grant' = [grant EXCEPT ![r] = "released",
                                  ![Head(pending)] = "held"]
         /\ active' = active
<1> USE DEF IInv
<1>0. /\ pending \in Seq(Requests) /\ Len(pending) \in Nat
      /\ grant \in [Requests -> GrantState]
      /\ \A j \in 1..Len(pending) : /\ pending[j] \in Requests
                                    /\ pending[j] \notin aborted
                                    /\ grant[pending[j]] = "queued"
  BY LenProperties, ElementOfSeq DEF AdmissionTypeOK, QueueIsTheWaiters
<1>1. PICK i \in 1..Len(pending) :
        LET skipped == {pending[j] : j \in 1..(i - 1)}
        IN  /\ pending[i] \notin aborted
            /\ skipped \subseteq aborted
            /\ pending' = SubSeq(pending, i + 1, Len(pending))
            /\ grant' = [q \in Requests |->
                           CASE q = r          -> "released"
                             [] q = pending[i] -> "held"
                             [] q \in skipped  -> "cancelled"
                             [] OTHER          -> grant[q]]
            /\ active' = active
  BY DEF PumpGrants
<1>2. i = 1
  <2>1. SUFFICES ASSUME i # 1 PROVE FALSE
    OBVIOUS
  <2>2. 1 \in 1..(i - 1) /\ 1 \in 1..Len(pending)
    BY <2>1, <1>0
  <2>3. pending[1] \in aborted
    BY <2>2, <1>1
  <2>4. QED
    BY <2>2, <2>3, <1>0
<1>3. {pending[j] : j \in 1..(i - 1)} = {}
  BY <1>2
<1>4. pending # <<>> /\ Head(pending) = pending[1] /\ pending[1] # r
  BY <1>0, <1>2, EmptySeq
<1>5. pending' = Tail(pending)
  BY <1>0, <1>1, <1>2, <1>4, TailIsSubSeq
<1>6. /\ pending' \in Seq(Requests) /\ Len(pending') = Len(pending) - 1
      /\ \A j \in 1..(Len(pending) - 1) : pending'[j] = pending[j + 1]
  BY <1>0, <1>4, <1>5, HeadTailProperties
<1>7. grant' = [q \in Requests |->
                 CASE q = r          -> "released"
                   [] q = pending[1] -> "held"
                   [] q \in {}       -> "cancelled"
                   [] OTHER          -> grant[q]]
  BY <1>1, <1>2, <1>3
<1>8. grant' = [grant EXCEPT ![r] = "released", ![pending[1]] = "held"]
  BY <1>7, <1>0, <1>4
<1>9. 1 \in 1..Len(pending) /\ active' = active
  BY <1>1, <1>2
<1>10. QED
  BY <1>0, <1>4, <1>6, <1>8, <1>9

(* A pump that grants nothing found the queue empty. *)
LEMMA IdlePump ==
  ASSUME IInv, NEW r \in Requests, PumpIdles(r)
  PROVE  /\ pending = <<>> /\ pending' = <<>>
         /\ grant' = [grant EXCEPT ![r] = "released"]
         /\ active' = active - 1
<1> USE DEF IInv
<1>0. /\ pending \in Seq(Requests) /\ Len(pending) \in Nat
      /\ grant \in [Requests -> GrantState]
      /\ \A j \in 1..Len(pending) : pending[j] \notin aborted
  BY LenProperties DEF AdmissionTypeOK, QueueIsTheWaiters
<1>1. pending = <<>>
  <2>1. SUFFICES ASSUME pending # <<>> PROVE FALSE
    OBVIOUS
  <2>2. 1 \in 1..Len(pending)
    BY <2>1, <1>0, EmptySeq
  <2>3. QED
    BY <2>2, <1>0 DEF PumpIdles
<1>2. {pending[j] : j \in 1..Len(pending)} = {}
  BY <1>1, EmptySeq
<1>3. grant' = [q \in Requests |-> CASE q = r   -> "released"
                                   [] q \in {} -> "cancelled"
                                   [] OTHER   -> grant[q]]
  BY <1>2 DEF PumpIdles
<1>4. QED
  BY <1>0, <1>1, <1>3 DEF PumpIdles

(* A release either hands its permit to the oldest waiter or frees it: the
   count follows, and nobody is left waiting beside a free permit. *)
LEMMA ReleaseInv ==
  ASSUME IInv, NEW r \in Requests, Release(r)
  PROVE  IInv'
<1> USE DEF IInv
<1>0. /\ active \in Nat /\ pending \in Seq(Requests) /\ aborted \subseteq Requests
      /\ grant \in [Requests -> GrantState] /\ Len(pending) \in Nat
      /\ aborted' = aborted /\ (closed' <=> closed) /\ grant[r] = "held"
      /\ MaxConcurrent \in Nat \ {0} /\ MaxQueued \in Nat
      /\ \A i \in 1..Len(pending) : pending[i] \in Requests
  BY ConcurrencyBound, QueueBound, LenProperties, ElementOfSeq
     DEF AdmissionTypeOK, Release
<1>1. closed' \in BOOLEAN
  BY DEF Release, AdmissionTypeOK
<1>2. CASE PumpGrants(r)
  <2> DEFINE next == Head(pending)
  <2>1. /\ pending # <<>> /\ next \in Requests /\ next # r
        /\ grant[next] = "queued"
        /\ pending' \in Seq(Requests) /\ Len(pending') = Len(pending) - 1
        /\ \A j \in 1..(Len(pending) - 1) : pending'[j] = pending[j + 1]
        /\ grant' = [grant EXCEPT ![r] = "released", ![next] = "held"]
        /\ active' = active
    BY <1>0, <1>2, PumpTakesHead
  <2>2. next = pending[1] /\ 1 \in 1..Len(pending)
    BY <2>1, <1>0, EmptySeq
  <2> HIDE DEF next
  <2>3. grant' \in [Requests -> GrantState]
    BY <2>1, <1>0 DEF GrantState
  <2>4. AdmissionTypeOK'
    BY <2>1, <2>3, <1>0, <1>1 DEF AdmissionTypeOK
  <2>5. Cardinality(Held') = Cardinality(Held)
    <3>1. /\ Held' = (Held \ {r}) \cup {next}
          /\ r \in Held /\ next \notin Held \ {r}
      BY <2>1, <1>0 DEF Held
    <3>2. /\ IsFiniteSet(Held \ {r})
          /\ Cardinality(Held \ {r}) = Cardinality(Held) - 1
      BY <3>1, HeldFinite, FS_RemoveElement
    <3>3. Cardinality(Held') = Cardinality(Held \ {r}) + 1
      BY <3>1, <3>2, FS_AddElement
    <3>4. QED
      BY <3>2, <3>3, HeldFinite, FS_CardinalityType
  <2>6. QueueIsTheWaiters'
    <3>1. \A j \in 1..Len(pending') :
            /\ j + 1 \in 1..Len(pending) /\ pending'[j] = pending[j + 1]
      BY <2>1, <1>0
    <3>2. \A j, k \in 1..Len(pending') : pending'[j] = pending'[k] => j = k
      BY <3>1, <2>1, <1>0 DEF QueueIsTheWaiters
    <3>3. ASSUME NEW j \in 1..Len(pending')
          PROVE  /\ grant'[pending'[j]] = "queued"
                 /\ pending'[j] \notin aborted'
      <4>1. /\ grant[pending[j + 1]] = "queued" /\ pending[j + 1] \notin aborted
            /\ pending[j + 1] \in Requests
        BY <3>1, <1>0 DEF QueueIsTheWaiters
      <4>2. pending[j + 1] # next
        BY <3>1, <2>2, <1>0 DEF QueueIsTheWaiters
      <4>3. pending[j + 1] # r
        BY <4>1, <1>0
      <4>4. QED
        BY <4>1, <4>2, <4>3, <3>1, <2>1, <1>0
    <3>4. ASSUME NEW q \in Requests, grant'[q] = "queued"
          PROVE  \E j \in 1..Len(pending') : pending'[j] = q
      <4>1. q # r /\ q # next /\ grant[q] = "queued"
        BY <3>4, <2>1, <1>0
      <4>2. PICK k \in 1..Len(pending) : pending[k] = q
        BY <4>1 DEF QueueIsTheWaiters
      <4>3. k # 1
        BY <4>1, <4>2, <2>2
      <4>4. k - 1 \in 1..(Len(pending) - 1) /\ (k - 1) + 1 = k
        BY <4>3, <1>0
      <4>5. QED
        BY <4>2, <4>4, <2>1
    <3>5. Len(pending') <= MaxQueued
      BY <2>1, <1>0 DEF QueueIsTheWaiters
    <3>6. QED
      BY <3>2, <3>3, <3>4, <3>5 DEF QueueIsTheWaiters
  <2>7. QueueOnlyWhenFull' /\ PermitsAccounted'
    BY <2>1, <2>5, <1>0 DEF QueueOnlyWhenFull, PermitsAccounted
  <2>8. QED
    BY <2>4, <2>6, <2>7
<1>3. CASE PumpIdles(r)
  <2>1. /\ pending = <<>> /\ pending' = <<>> /\ active' = active - 1
        /\ grant' = [grant EXCEPT ![r] = "released"]
    BY <1>3, IdlePump
  <2>2. Held' = Held \ {r} /\ r \in Held
    BY <2>1, <1>0 DEF Held
  <2>3. /\ Cardinality(Held') = Cardinality(Held) - 1
        /\ Cardinality(Held') \in Nat
    BY <2>2, HeldFinite, FS_RemoveElement, FS_CardinalityType
  <2>4. active' \in Nat /\ PermitsAccounted'
    BY <2>1, <2>3, <1>0 DEF PermitsAccounted
  <2>5. grant' \in [Requests -> GrantState] /\ pending' \in Seq(Requests)
    BY <2>1, <1>0 DEF GrantState
  <2>6. AdmissionTypeOK'
    BY <2>4, <2>5, <1>0, <1>1 DEF AdmissionTypeOK
  <2>7. QueueIsTheWaiters'
    BY <2>1, <1>0 DEF QueueIsTheWaiters
  <2>8. QueueOnlyWhenFull'
    BY <2>1 DEF QueueOnlyWhenFull
  <2>9. QED
    BY <2>4, <2>6, <2>7, <2>8
<1>4. QED
  BY <1>2, <1>3 DEF Release

-----------------------------------------------------------------------------
(* Every call and every signal the controller handles preserves IInv. *)
LEMMA StepInv == IInv /\ [AdmissionNext]_admissionVars => IInv'
<1> SUFFICES ASSUME IInv, [AdmissionNext]_admissionVars PROVE IInv'
  OBVIOUS
<1>1. ASSUME NEW r \in Requests, Acquire(r) PROVE IInv'
  BY <1>1, AcquireInv
<1>2. ASSUME NEW r \in Requests, Abort(r) PROVE IInv'
  BY <1>2, AbortInv
<1>3. ASSUME NEW r \in Requests, Release(r) PROVE IInv'
  BY <1>3, ReleaseInv
<1>4. CASE Close
  BY <1>4, CloseInv
<1>5. CASE UNCHANGED admissionVars
  <2>1. /\ active' = active /\ pending' = pending /\ closed' = closed
        /\ aborted' = aborted /\ grant' = grant
    BY <1>5 DEF admissionVars
  <2>2. QED
    BY <2>1 DEF IInv, AdmissionTypeOK, QueueIsTheWaiters, QueueOnlyWhenFull,
                PermitsAccounted, Held
<1>6. QED
  BY <1>1, <1>2, <1>3, <1>4, <1>5 DEF AdmissionNext

(* The four parts of IInv hold in every reachable state of the controller. *)
THEOREM AdmissionInvariant == AdmissionSpec => []IInv
BY InitInv, StepInv, PTL DEF AdmissionSpec

(* The controller's variables keep their types. *)
THEOREM AdmissionTyping == AdmissionSpec => []AdmissionTypeOK
<1>1. IInv => AdmissionTypeOK
  BY DEF IInv
<1>2. QED
  BY <1>1, AdmissionInvariant, PTL

(* Nobody waits beside a free permit, for any number of requests, permits  *)
(* and queue places: acquire never overtakes and pump never strands.       *)
THEOREM NobodyWaitsBesideAFreePermit == AdmissionSpec => []QueueOnlyWhenFull
<1>1. IInv => QueueOnlyWhenFull
  BY DEF IInv
<1>2. QED
  BY <1>1, AdmissionInvariant, PTL

(* active counts the outstanding permits exactly and stays within bounds.  *)
THEOREM PermitsNeverLeak == AdmissionSpec => []PermitsAccounted
<1>1. IInv => PermitsAccounted
  BY DEF IInv
<1>2. QED
  BY <1>1, AdmissionInvariant, PTL

(* The queue is the set of waiters, in order and without the cancelled.    *)
THEOREM QueueExact == AdmissionSpec => []QueueIsTheWaiters
<1>1. IInv => QueueIsTheWaiters
  BY DEF IInv
<1>2. QED
  BY <1>1, AdmissionInvariant, PTL

(* Queue, counter and open door agree in every reachable state. *)
THEOREM QueueAndPermits == AdmissionSpec => []QueueAndPermitsAgree
<1>1. IInv => QueueAndPermitsAgree
  BY DEF IInv, QueueAndPermitsAgree
<1>2. QED
  BY <1>1, AdmissionInvariant, PTL

(* First come, first served: while anyone waits, only the head is granted. *)
THEOREM FirstComeFirstServed == AdmissionSpec => NoOvertaking
<1>1. IInv /\ [AdmissionNext]_admissionVars => [ServesOldestWaiter]_admissionVars
  <2> SUFFICES ASSUME IInv, AdmissionNext, NEW q \in Requests,
                      pending # <<>>, grant[q] # "held", grant'[q] = "held"
               PROVE  q = Head(pending)
    BY DEF ServesOldestWaiter
  <2>0. grant \in [Requests -> GrantState] /\ active \in Nat
    BY DEF IInv, AdmissionTypeOK
  <2>1. ASSUME NEW r \in Requests, Acquire(r) PROVE q = Head(pending)
    <3>1. ~GrantNow(r)
      BY ConcurrencyBound, <2>0 DEF GrantNow, IInv, QueueOnlyWhenFull
    <3>2. \E s \in {"cancelled", "full", "queued"} :
            grant' = [grant EXCEPT ![r] = s]
      BY <2>1, <3>1 DEF Acquire, RejectCancelled, RejectFull, Enqueue
    <3>3. QED
      BY <3>2, <2>0
  <2>2. ASSUME NEW r \in Requests, Abort(r) PROVE q = Head(pending)
    BY <2>2, <2>0 DEF Abort
  <2>3. ASSUME NEW r \in Requests, Release(r) PROVE q = Head(pending)
    <3>1. PumpGrants(r) /\ grant[r] = "held"
      BY <2>3, IdlePump DEF Release
    <3>2. grant' = [grant EXCEPT ![r] = "released", ![Head(pending)] = "held"]
      BY <3>1, PumpTakesHead
    <3>3. QED
      BY <3>2, <2>0
  <2>4. CASE Close
    BY <2>4, <2>0 DEF Close
  <2>5. QED
    BY <2>1, <2>2, <2>3, <2>4 DEF AdmissionNext
<1>2. QED
  BY <1>1, AdmissionInvariant, PTL DEF AdmissionSpec, NoOvertaking

-----------------------------------------------------------------------------
(* The composition refines the controller: its initial states and steps,   *)
(* seen through the controller's variables, are the controller's own.      *)
LEMMA UsesAdmission == Spec => AdmissionSpec
<1>1. Init => AdmissionInit
  BY DEF Init
<1>2. [Next]_vars => [AdmissionNext]_admissionVars
  <2> SUFFICES ASSUME [Next]_vars PROVE AdmissionNext \/ UNCHANGED admissionVars
    OBVIOUS
  <2>1. ASSUME NEW r \in Requests, StartOwned(r)
        PROVE  AdmissionNext \/ UNCHANGED admissionVars
    BY <2>1 DEF StartOwned, AdmissionNext
  <2>2. ASSUME NEW r \in Requests, Segment(r)
        PROVE  AdmissionNext \/ UNCHANGED admissionVars
    BY <2>2 DEF Segment, AdmissionRejected, AdmittedTooLate, BeginStart,
                StartThrows, StartReturnsLate, LateRunDisposed, StartReturns,
                CallerDisposes, RunDisposed, AdmissionNext
  <2>3. ASSUME NEW r \in Requests,
               RunPublished(r) \/ RunEnded(r) \/ CallerAborts(r) \/ RunTimesOut(r)
        PROVE  AdmissionNext \/ UNCHANGED admissionVars
    BY <2>3 DEF RunPublished, RunEnded, CallerAborts, RunTimesOut, AdmissionNext
  <2>4. ASSUME NEW o \in ObservedRuns, ObservedPublished(o) \/ ObservedEnded(o)
        PROVE  AdmissionNext \/ UNCHANGED admissionVars
    BY <2>4 DEF ObservedPublished, ObservedEnded
  <2>5. CASE Unload
    BY <2>5 DEF Unload, AdmissionNext
  <2>6. CASE Quiet \/ UNCHANGED vars
    BY <2>6 DEF Quiet, vars
  <2>7. QED
    BY <2>1, <2>2, <2>3, <2>4, <2>5, <2>6 DEF Next
<1>3. QED
  BY <1>1, <1>2, PTL DEF Spec, AdmissionSpec

-----------------------------------------------------------------------------
(* Where a call stands determines what its request may hold. *)
Agree ==
  /\ stage \in [Requests -> Stage]
  /\ \A r \in Requests :
       /\ stage[r] = "idle" => grant[r] = "idle"
       /\ stage[r] = "admission" => grant[r] \in {"queued", "held", "full", "cancelled"}
       /\ Linked(r) => grant[r] = "held"
       /\ stage[r] = "done" => grant[r] \in {"released", "full", "cancelled"}

(* A release changes the grant of its own request and of one waiter.       *)
LEMMA ReleaseEffect ==
  ASSUME IInv, NEW r \in Requests, Release(r)
  PROVE  /\ grant[r] = "held" /\ grant'[r] = "released"
         /\ \A q \in Requests \ {r} :
              grant'[q] = grant[q] \/ (grant[q] = "queued" /\ grant'[q] = "held")
<1>1. grant \in [Requests -> GrantState] /\ grant[r] = "held"
  BY DEF IInv, AdmissionTypeOK, Release
<1>2. CASE PumpGrants(r)
  BY <1>1, <1>2, PumpTakesHead
<1>3. CASE PumpIdles(r)
  BY <1>1, <1>3, IdlePump
<1>4. QED
  BY <1>1, <1>2, <1>3 DEF Release

(* Every segment of startOwned, every signal and the unload keep the stage of
   a call and the state of its permit in agreement. *)
LEMMA AgreeStep == IInv /\ Agree /\ [Next]_vars => Agree'
<1> SUFFICES ASSUME IInv, Agree, [Next]_vars PROVE Agree'
  OBVIOUS
<1>0. grant \in [Requests -> GrantState] /\ stage \in [Requests -> Stage]
  BY DEF IInv, AdmissionTypeOK, Agree
<1> USE DEF Agree, Linked, Stage
<1>1. ASSUME NEW r \in Requests, StartOwned(r) PROVE Agree'
  <2>1. /\ stage[r] = "idle" /\ stage' = [stage EXCEPT ![r] = "admission"]
        /\ \E s \in {"queued", "held", "full", "cancelled"} :
             grant' = [grant EXCEPT ![r] = s]
    BY <1>1 DEF StartOwned, Acquire, RejectCancelled, GrantNow, RejectFull, Enqueue
  <2>2. QED
    BY <2>1, <1>0
<1>2. ASSUME NEW r \in Requests, UNCHANGED grant, NEW s \in Stage,
             stage' = [stage EXCEPT ![r] = s],
             \/ stage[r] = "admission" /\ grant[r] \in {"full", "cancelled"} /\ s = "done"
             \/ grant[r] = "held" /\ s \in {"starting", "lateRun", "running", "disposing"}
      PROVE  Agree'
  BY <1>2, <1>0
<1>3. ASSUME NEW r \in Requests, Release(r), stage' = [stage EXCEPT ![r] = "done"]
      PROVE  Agree'
  BY <1>3, <1>0, ReleaseEffect
<1>4. ASSUME NEW r \in Requests, Segment(r) PROVE Agree'
  <2>1. CASE AdmissionRejected(r)
    BY <2>1, <1>2 DEF AdmissionRejected, admissionVars
  <2>2. CASE BeginStart(r)
    BY <2>2, <1>2 DEF BeginStart, admissionVars
  <2>3. CASE StartReturnsLate(r) \/ StartReturns(r) \/ CallerDisposes(r)
    BY <2>3, <1>2 DEF StartReturnsLate, StartReturns, CallerDisposes, admissionVars
  <2>4. CASE AdmittedTooLate(r) \/ StartThrows(r) \/ LateRunDisposed(r) \/ RunDisposed(r)
    BY <2>4, <1>3 DEF AdmittedTooLate, StartThrows, LateRunDisposed, RunDisposed
  <2>5. QED
    BY <1>4, <2>1, <2>2, <2>3, <2>4 DEF Segment
<1>5. ASSUME NEW r \in Requests, CallerAborts(r) PROVE Agree'
  <2>1. /\ UNCHANGED stage
        /\ \/ UNCHANGED grant
           \/ grant[r] = "queued" /\ grant' = [grant EXCEPT ![r] = "cancelled"]
    BY <1>5 DEF CallerAborts, Abort, IInv, QueueIsTheWaiters
  <2>2. QED
    BY <2>1, <1>0
<1>6. CASE Unload
  BY <1>6, <1>0 DEF Unload, Close
<1>7. ASSUME UNCHANGED <<admissionVars, stage>> PROVE Agree'
  BY <1>7 DEF admissionVars
<1>8. ASSUME NEW r \in Requests, RunPublished(r) \/ RunEnded(r) \/ RunTimesOut(r)
      PROVE  Agree'
  BY <1>7, <1>8 DEF RunPublished, RunEnded, RunTimesOut
<1>9. ASSUME NEW o \in ObservedRuns, ObservedPublished(o) \/ ObservedEnded(o)
      PROVE  Agree'
  BY <1>7, <1>9 DEF ObservedPublished, ObservedEnded, callVars
<1>10. CASE Quiet \/ UNCHANGED vars
  BY <1>7, <1>10 DEF Quiet, vars, callVars
<1>11. QED
  BY <1>1, <1>4, <1>5, <1>6, <1>8, <1>9, <1>10 DEF Next

(* Every exit of startOwned gives the permit back, exactly once, and no    *)
(* call is over while it still holds one.                                  *)
THEOREM PermitReturned == Spec => []PermitFollowsCall
<1>1. Init => Agree
  BY DEF Init, AdmissionInit, Agree, Stage, Linked
<1>2. Agree => PermitFollowsCall
  BY DEF Agree, PermitFollowsCall
<1>3. Spec => []IInv
  BY UsesAdmission, AdmissionInvariant, PTL
<1>4. QED
  BY <1>1, <1>2, <1>3, AgreeStep, PTL DEF Spec

(* The permit accounting of the controller carries over to the composition. *)
THEOREM PermitsNeverLeakInUse == Spec => []QueueAndPermitsAgree
BY UsesAdmission, QueueAndPermits, PTL

-----------------------------------------------------------------------------
(* The ledger.  Where a call and its run stand determines what the ledger  *)
(* shows of it.                                                            *)

Records == {"attempt", "run"} \X RunIds

LedgerTypes ==
  /\ provider \in [Requests -> {"none", "launched", "published", "ended"}]
  /\ attempt \in [Requests -> AttemptState]
  /\ run \in [RunIds -> RunState]
  /\ history \in Seq(Records)

(* How far a run came, and what is left of it in the ledger: only a settled *)
(* record may have been trimmed.                                           *)
Shown(r) ==
  /\ stage[r] = "idle" => provider[r] = "none" /\ attempt[r] = "absent"
  /\ stage[r] = "admission" => provider[r] = "none" /\ attempt[r] = "queued"
  /\ stage[r] \in {"starting", "lateRun"} =>
       provider[r] # "none" /\ (provider[r] = "launched" => attempt[r] = "starting")
  /\ stage[r] \in {"running", "disposing", "done"} =>
       attempt[r] \notin {"queued", "starting"}
  /\ provider[r] \in {"none", "launched"} => run[r] = "absent"
  /\ provider[r] = "published" => run[r] = "active"
  /\ provider[r] \in {"published", "ended"} => attempt[r] = "absent"

(* The finished records. *)
IsFinished(att, runs, record) ==
  \/ \E r \in Requests : att[r] \in Outcome /\ record = AttemptRecord(r)
  \/ \E x \in RunIds : runs[x] = "ended" /\ record = RunRecord(x)

(* The list holds each finished record once and nothing else. *)
Lists(list, att, runs) ==
  /\ Len(list) <= HistoryLimit
  /\ \A i, j \in 1..Len(list) : list[i] = list[j] => i = j
  /\ \A i \in 1..Len(list) : IsFinished(att, runs, list[i])
  /\ \A record : IsFinished(att, runs, record) => \E i \in 1..Len(list) : list[i] = record

LedgerInv ==
  /\ stage \in [Requests -> Stage]
  /\ LedgerTypes
  /\ \A r \in Requests : Shown(r)
  /\ Lists(history, attempt, run)

LEMMA LedgerSays == LedgerInv => AttemptTracksCall /\ HistoryIsTheFinished
<1> SUFFICES ASSUME LedgerInv PROVE AttemptTracksCall /\ HistoryIsTheFinished
  OBVIOUS
<1>1. ASSUME NEW r \in Requests
      PROVE  /\ attempt[r] = "queued" <=> stage[r] = "admission"
             /\ attempt[r] = "starting" <=> /\ stage[r] \in {"starting", "lateRun"}
                                            /\ provider[r] = "launched"
             /\ attempt[r] # "absent" => run[r] = "absent"
  <2>1. stage[r] \in Stage /\ Shown(r)
        /\ provider[r] \in {"none", "launched", "published", "ended"}
    BY DEF LedgerInv, LedgerTypes
  <2> QED
    BY <2>1 DEF Shown, Stage
<1>2. AttemptTracksCall
  BY <1>1 DEF AttemptTracksCall
<1>3. {history[i] : i \in 1..Len(history)} =
        {AttemptRecord(r) : r \in {q \in Requests : attempt[q] \in Outcome}}
        \cup {RunRecord(x) : x \in {y \in RunIds : run[y] = "ended"}}
  <2> DEFINE listed == {history[i] : i \in 1..Len(history)}
             attempts == {AttemptRecord(r) : r \in {q \in Requests : attempt[q] \in Outcome}}
             runs == {RunRecord(x) : x \in {y \in RunIds : run[y] = "ended"}}
  <2>1. \A record : record \in attempts \cup runs <=> IsFinished(attempt, run, record)
    BY DEF IsFinished
  <2>2. \A record : record \in listed <=> \E i \in 1..Len(history) : history[i] = record
    OBVIOUS
  <2>3. \A record : IsFinished(attempt, run, record)
                      <=> \E i \in 1..Len(history) : history[i] = record
    BY DEF LedgerInv, Lists
  <2> HIDE DEF listed, attempts, runs
  <2>4. listed = attempts \cup runs
    BY <2>1, <2>2, <2>3
  <2> QED
    BY <2>4 DEF listed, attempts, runs
<1>4. HistoryIsTheFinished
  BY <1>3 DEF LedgerInv, Lists, HistoryIsTheFinished
<1> QED
  BY <1>2, <1>4

LEMMA LedgerBegins == Init => LedgerInv
<1> SUFFICES ASSUME Init PROVE LedgerInv
  OBVIOUS
<1>1. history = <<>> /\ history \in Seq(Records) /\ Len(history) = 0
  BY DEF Init
<1>2. stage \in [Requests -> Stage] /\ LedgerTypes
  BY <1>1 DEF Init, Stage, LedgerTypes, AttemptState, RunState
<1>3. \A record : ~IsFinished(attempt, run, record)
  BY DEF Init, IsFinished, Outcome
<1>4. Lists(history, attempt, run)
  BY <1>1, <1>3, HistoryBound DEF Lists
<1>5. ASSUME NEW r \in Requests PROVE Shown(r)
  BY DEF Init, Shown, RunIds
<1> QED
  BY <1>2, <1>4, <1>5 DEF LedgerInv


(* trimSettled keeps the newest records and names the others.              *)
LEMMA TrimKeeps ==
  ASSUME NEW S, NEW finished \in Seq(S)
  PROVE  \E e \in 0..Len(finished) :
           /\ Trimmed(finished).dropped = {finished[i] : i \in 1..e}
           /\ Trimmed(finished).kept \in Seq(S)
           /\ Len(Trimmed(finished).kept) = Len(finished) - e
           /\ Len(finished) - e <= HistoryLimit
           /\ \A i \in 1..(Len(finished) - e) : Trimmed(finished).kept[i] = finished[e + i]
<1> DEFINE n == Len(finished)
           e == IF n > HistoryLimit THEN n - HistoryLimit ELSE 0
           kept == SubSeq(finished, e + 1, n)
<1>1. n \in Nat /\ HistoryLimit \in Nat
  BY HistoryBound
<1>2. e \in 0..n /\ n - e <= HistoryLimit
  BY <1>1
<1>3. Trimmed(finished).kept = kept /\ Trimmed(finished).dropped = {finished[i] : i \in 1..e}
  BY DEF Trimmed
<1>4. \A i \in 1..n : finished[i] \in S
  BY ElementOfSeq
<1> HIDE DEF e
<1>5. /\ kept \in Seq(S)
      /\ Len(kept) = IF e + 1 <= n THEN n - (e + 1) + 1 ELSE 0
      /\ \A i \in 1..(n - (e + 1) + 1) : kept[i] = finished[(e + 1) + i - 1]
  <2>1. e + 1 \in Int /\ n \in Int /\ \A i \in (e + 1)..n : finished[i] \in S
    BY <1>1, <1>2, <1>4
  <2> HIDE DEF n
  <2> QED
    BY <2>1, SubSeqProperties DEF kept
<1> HIDE DEF kept, n
<1>6. Len(kept) = n - e
  BY <1>1, <1>2, <1>5
<1>7. \A i \in 1..(n - e) : kept[i] = finished[e + i]
  <2>1. \A i \in 1..(n - e) : i \in 1..(n - (e + 1) + 1) /\ (e + 1) + i - 1 = e + i
    BY <1>1, <1>2
  <2> QED
    BY <1>5, <2>1
<1> QED
  BY <1>2, <1>3, <1>5, <1>6, <1>7 DEF n

LEMMA RecordsDiffer ==
  /\ \A q, r : AttemptRecord(q) = AttemptRecord(r) => q = r
  /\ \A x, y : RunRecord(x) = RunRecord(y) => x = y
  /\ \A q, x : AttemptRecord(q) # RunRecord(x)
  BY DEF AttemptRecord, RunRecord

(* One more record finished: the list takes it in, and what trimSettled    *)
(* takes out of the list it takes out of the ledger.                       *)
LEMMA FinishKeeps ==
  ASSUME LedgerTypes, Lists(history, attempt, run),
         NEW att \in [Requests -> AttemptState], NEW runs \in [RunIds -> RunState],
         NEW record \in Records,
         IsFinished(att, runs, record), ~IsFinished(attempt, run, record),
         \A other : other # record =>
           (IsFinished(att, runs, other) <=> IsFinished(attempt, run, other)),
         Finish(att, runs, record)
  PROVE  /\ history' \in Seq(Records)
         /\ attempt' \in [Requests -> AttemptState] /\ run' \in [RunIds -> RunState]
         /\ Lists(history', attempt', run')
         /\ \A q \in Requests :
              attempt'[q] = att[q] \/ (att[q] \in Outcome /\ attempt'[q] = "absent")
         /\ \A x \in RunIds :
              run'[x] = runs[x] \/ (runs[x] = "ended" /\ run'[x] = "absent")
<1> DEFINE all == Append(history, record)
           n == Len(history)
<1>1. history \in Seq(Records) /\ n \in Nat
  BY DEF LedgerTypes
<1>2. all \in Seq(Records) /\ Len(all) = n + 1 /\ all[n + 1] = record
      /\ \A i \in 1..n : all[i] = history[i]
  BY <1>1
<1> HIDE DEF all
<1>3. PICK e \in 0..Len(all) :
        /\ Trimmed(all).dropped = {all[i] : i \in 1..e}
        /\ Trimmed(all).kept \in Seq(Records)
        /\ Len(Trimmed(all).kept) = Len(all) - e
        /\ Len(all) - e <= HistoryLimit
        /\ \A i \in 1..(Len(all) - e) : Trimmed(all).kept[i] = all[e + i]
  <2>1. all \in Seq(Records)
    BY <1>2
  <2> QED
    BY <2>1, TrimKeeps, Zenon
<1> DEFINE dropped == {all[i] : i \in 1..e}
<1>4. /\ history' = Trimmed(all).kept
      /\ attempt' = [r \in Requests |-> IF AttemptRecord(r) \in dropped THEN "absent" ELSE att[r]]
      /\ run' = [x \in RunIds |-> IF RunRecord(x) \in dropped THEN "absent" ELSE runs[x]]
  BY <1>3 DEF Finish, all
<1>5. /\ history' \in Seq(Records) /\ Len(history') = n + 1 - e
      /\ Len(history') <= HistoryLimit
      /\ \A i \in 1..(n + 1 - e) : history'[i] = all[e + i]
  BY <1>2, <1>3, <1>4
<1>6. \A i \in 1..n : IsFinished(attempt, run, history[i]) /\ history[i] # record
  BY DEF Lists
<1>7. \A i \in 1..(n + 1) : IsFinished(att, runs, all[i])
  <2>1. \A i \in 1..(n + 1) : i \in 1..n \/ i = n + 1
    BY <1>1
  <2> QED
    BY <1>2, <1>6, <2>1
<1>8. \A other : IsFinished(att, runs, other) => \E i \in 1..(n + 1) : all[i] = other
  <2> SUFFICES ASSUME NEW other, IsFinished(att, runs, other)
               PROVE  \E i \in 1..(n + 1) : all[i] = other
    OBVIOUS
  <2>1. CASE other = record
    <3>1. n + 1 \in 1..(n + 1)
      BY <1>1
    <3> QED
      BY <1>2, <2>1, <3>1
  <2>2. CASE other # record
    <3>1. PICK i \in 1..n : history[i] = other
      BY <2>2 DEF Lists
    <3>2. i \in 1..(n + 1) /\ all[i] = other
      BY <1>1, <1>2, <3>1
    <3> QED
      BY <3>2
  <2> QED
    BY <2>1, <2>2
<1>9. \A i, j \in 1..(n + 1) : all[i] = all[j] => i = j
  <2>1. \A i \in 1..(n + 1) : i \in 1..n \/ i = n + 1
    BY <1>1
  <2>2. \A i, j \in 1..n : history[i] = history[j] => i = j
    BY DEF Lists
  <2> QED
    BY <1>2, <1>6, <2>1, <2>2
<1>10. e \in Nat /\ e <= n + 1
  BY <1>1, <1>2
<1> HIDE DEF n
<1>11. \A other : IsFinished(attempt', run', other) <=>
                    IsFinished(att, runs, other) /\ other \notin dropped
  <2>1. \A q \in Requests : attempt'[q] \in Outcome <=>
                              att[q] \in Outcome /\ AttemptRecord(q) \notin dropped
    BY <1>4 DEF Outcome
  <2>2. \A x \in RunIds : run'[x] = "ended" <=> runs[x] = "ended" /\ RunRecord(x) \notin dropped
    BY <1>4
  <2> HIDE DEF dropped
  <2> QED
    BY <2>1, <2>2 DEF IsFinished
<1>12. Lists(history', attempt', run')
  <2>1. \A i \in 1..Len(history') : e + i \in 1..(n + 1) /\ history'[i] = all[e + i]
    BY <1>1, <1>5, <1>10 DEF n
  <2>2. \A i, j \in 1..Len(history') : history'[i] = history'[j] => i = j
    <3>1. \A i, j \in 1..Len(history') : e + i = e + j => i = j
      BY <1>10
    <3> QED
      BY <1>9, <2>1, <3>1
  <2>3. \A i \in 1..Len(history') : IsFinished(attempt', run', history'[i])
    <3> SUFFICES ASSUME NEW i \in 1..Len(history')
                 PROVE  IsFinished(attempt', run', history'[i])
      OBVIOUS
    <3>1. e + i \in 1..(n + 1) /\ history'[i] = all[e + i]
      BY <2>1
    <3>2. all[e + i] \notin dropped
      <4>1. \A j \in 1..e : j \in 1..(n + 1) /\ j # e + i
        BY <1>1, <1>10 DEF n
      <4> QED
        BY <1>9, <3>1, <4>1
    <3>3. IsFinished(att, runs, all[e + i])
      BY <1>7, <3>1
    <3> HIDE DEF dropped
    <3> QED
      BY <1>11, <3>1, <3>2, <3>3
  <2>4. \A other : IsFinished(attempt', run', other)
                     => \E i \in 1..Len(history') : history'[i] = other
    <3> SUFFICES ASSUME NEW other, IsFinished(attempt', run', other)
                 PROVE  \E i \in 1..Len(history') : history'[i] = other
      OBVIOUS
    <3>1. IsFinished(att, runs, other) /\ other \notin dropped
      BY <1>11
    <3>2. PICK j \in 1..(n + 1) : all[j] = other
      BY <1>8, <3>1
    <3>3. j \notin 1..e
      BY <3>1, <3>2
    <3>4. j - e \in 1..Len(history') /\ e + (j - e) = j
      BY <1>1, <1>5, <1>10, <3>3 DEF n
    <3>5. history'[j - e] = other
      BY <2>1, <3>2, <3>4
    <3> QED
      BY <3>4, <3>5
  <2> QED
    BY <1>5, <2>2, <2>3, <2>4 DEF Lists
<1>13. attempt' \in [Requests -> AttemptState] /\ run' \in [RunIds -> RunState]
  <2> HIDE DEF dropped
  <2> QED
    BY <1>4 DEF AttemptState, RunState
<1>14. \A r \in dropped : IsFinished(att, runs, r)
  BY <1>1, <1>7, <1>10 DEF n
<1>15. ASSUME NEW q \in Requests
       PROVE  attempt'[q] = att[q] \/ (att[q] \in Outcome /\ attempt'[q] = "absent")
  <2> HIDE DEF dropped
  <2>1. CASE AttemptRecord(q) \notin dropped
    BY <1>4, <2>1
  <2>2. CASE AttemptRecord(q) \in dropped
    <3>1. IsFinished(att, runs, AttemptRecord(q))
      BY <1>14, <2>2
    <3>2. att[q] \in Outcome
      BY <3>1, RecordsDiffer DEF IsFinished
    <3> QED
      BY <1>4, <2>2, <3>2
  <2> QED
    BY <2>1, <2>2
<1>16. ASSUME NEW x \in RunIds
       PROVE  run'[x] = runs[x] \/ (runs[x] = "ended" /\ run'[x] = "absent")
  <2> HIDE DEF dropped
  <2>1. CASE RunRecord(x) \notin dropped
    BY <1>4, <2>1
  <2>2. CASE RunRecord(x) \in dropped
    <3>1. IsFinished(att, runs, RunRecord(x))
      BY <1>14, <2>2
    <3>2. runs[x] = "ended"
      BY <3>1, RecordsDiffer DEF IsFinished
    <3> QED
      BY <1>4, <2>2, <3>2
  <2> QED
    BY <2>1, <2>2
<1> QED
  BY <1>5, <1>12, <1>13, <1>15, <1>16


-----------------------------------------------------------------------------
(* The ledger's invariant, step by step.                                   *)

(* What befalls the other records when one is trimmed. *)
LEMMA StaysShown ==
  ASSUME NEW q \in Requests, Shown(q), stage'[q] = stage[q], provider'[q] = provider[q],
         attempt'[q] = attempt[q] \/ (attempt[q] \in Outcome /\ attempt'[q] = "absent"),
         run'[q] = run[q] \/ (run[q] = "ended" /\ run'[q] = "absent")
  PROVE  Shown(q)'
  BY DEF Shown, Outcome

LEMMA RequestIsRun == \A r \in Requests : r \in RunIds /\ AttemptRecord(r) \in Records
  BY DEF RunIds, Records, AttemptRecord

LEMMA RunIsRecord == \A x \in RunIds : RunRecord(x) \in Records
  BY DEF Records, RunRecord

(* An attempt that is settled, or was replaced or settled before: the call *)
(* moves on and the ledger shows no pending attempt of it.                 *)
LEMMA AttemptSettles ==
  ASSUME LedgerInv, NEW r \in Requests, NEW outcome \in Outcome,
         SettleAttempt(r, outcome), UNCHANGED provider,
         NEW s \in {"running", "disposing", "done"},
         stage[r] \in {"admission", "starting", "lateRun"},
         stage' = [stage EXCEPT ![r] = s]
  PROVE  LedgerInv'
<1>1. /\ stage' \in [Requests -> Stage] /\ stage'[r] = s
      /\ \A q \in Requests : q # r => stage'[q] = stage[q]
  BY DEF LedgerInv, Stage
<1>2. LedgerTypes /\ Lists(history, attempt, run) /\ \A q \in Requests : Shown(q)
  BY DEF LedgerInv
<1>3. CASE attempt[r] \in {"queued", "starting"}
  <2> DEFINE att == [attempt EXCEPT ![r] = outcome]
  <2>1. Finish(att, run, AttemptRecord(r))
    BY <1>3 DEF SettleAttempt
  <2>2. att \in [Requests -> AttemptState] /\ att[r] = outcome
        /\ \A q \in Requests : q # r => att[q] = attempt[q]
    BY <1>2 DEF LedgerTypes, AttemptState
  <2>3. run \in [RunIds -> RunState] /\ AttemptRecord(r) \in Records
    BY <1>2, RequestIsRun DEF LedgerTypes
  <2> HIDE DEF att
  <2>4. IsFinished(att, run, AttemptRecord(r))
    BY <2>2 DEF IsFinished
  <2>5. ~IsFinished(attempt, run, AttemptRecord(r))
    BY <1>3, RecordsDiffer DEF IsFinished, Outcome
  <2>6. \A other : other # AttemptRecord(r) =>
          (IsFinished(att, run, other) <=> IsFinished(attempt, run, other))
    BY <2>2 DEF IsFinished
  <2>7. /\ history' \in Seq(Records)
        /\ attempt' \in [Requests -> AttemptState] /\ run' \in [RunIds -> RunState]
        /\ Lists(history', attempt', run')
        /\ \A q \in Requests :
             attempt'[q] = att[q] \/ (att[q] \in Outcome /\ attempt'[q] = "absent")
        /\ \A x \in RunIds :
             run'[x] = run[x] \/ (run[x] = "ended" /\ run'[x] = "absent")
    BY <1>2, <2>1, <2>2, <2>3, <2>4, <2>5, <2>6, FinishKeeps, Zenon
  <2>8. \A q \in Requests : q # r => Shown(q)'
    BY <1>1, <1>2, <2>2, <2>7, RequestIsRun, StaysShown
  <2>9. Shown(r)'
    <3>1. attempt'[r] \in Outcome \cup {"absent"}
      BY <2>2, <2>7
    <3>2. run'[r] = run[r] \/ (run[r] = "ended" /\ run'[r] = "absent")
      BY <2>7, RequestIsRun
    <3>3. Shown(r) /\ provider[r] \notin {"published", "ended"}
      BY <1>2, <1>3 DEF Shown
    <3> QED
      BY <1>1, <3>1, <3>2, <3>3 DEF Shown, Outcome
  <2>10. LedgerTypes'
    BY <1>2, <2>7 DEF LedgerTypes
  <2> QED
    BY <1>1, <2>7, <2>8, <2>9, <2>10 DEF LedgerInv
<1>4. CASE attempt[r] \notin {"queued", "starting"}
  <2>1. UNCHANGED <<attempt, run, history>>
    BY <1>4 DEF SettleAttempt, ledgerVars
  <2>2. \A q \in Requests : q # r => Shown(q)'
    BY <1>1, <1>2, <2>1, StaysShown
  <2>3. Shown(r)'
    BY <1>1, <1>2, <1>4, <2>1 DEF Shown
  <2>4. LedgerTypes' /\ Lists(history', attempt', run')
    BY <1>2, <2>1 DEF LedgerTypes
  <2> QED
    BY <1>1, <2>2, <2>3, <2>4 DEF LedgerInv
<1> QED
  BY <1>3, <1>4

(* A call moves on while the ledger stays. *)
LEMMA CallMovesOn ==
  ASSUME LedgerInv, NEW r \in Requests, NEW s \in Stage,
         UNCHANGED <<provider, attempt, run, history>>,
         stage' = [stage EXCEPT ![r] = s],
         \/ stage[r] = "starting" /\ s = "lateRun"
         \/ stage[r] \in {"starting", "lateRun"} /\ run[r] # "absent"
              /\ s \in {"running", "disposing", "done"}
         \/ stage[r] \in {"running", "disposing"} /\ s \in {"running", "disposing", "done"}
  PROVE  LedgerInv'
<1>1. /\ stage' \in [Requests -> Stage] /\ stage'[r] = s
      /\ \A q \in Requests : q # r => stage'[q] = stage[q]
  BY DEF LedgerInv
<1>2. LedgerTypes /\ Lists(history, attempt, run) /\ \A q \in Requests : Shown(q)
  BY DEF LedgerInv
<1>3. \A q \in Requests : q # r => Shown(q)'
  BY <1>1, <1>2, StaysShown
<1>4. Shown(r)'
  <2>1. Shown(r) /\ provider[r] \in {"none", "launched", "published", "ended"}
    BY <1>2 DEF LedgerTypes
  <2> QED
    BY <1>1, <2>1 DEF Shown
<1>5. LedgerTypes' /\ Lists(history', attempt', run')
  BY <1>2 DEF LedgerTypes
<1> QED
  BY <1>1, <1>3, <1>4, <1>5 DEF LedgerInv

LEMMA LedgerRests ==
  ASSUME LedgerInv, UNCHANGED <<stage, provider, attempt, run, history>>
  PROVE  LedgerInv'
<1>1. \A q \in Requests : Shown(q)'
  BY DEF LedgerInv, Shown
<1> QED
  BY <1>1 DEF LedgerInv, LedgerTypes


LEMMA CallBegins ==
  ASSUME LedgerInv, NEW r \in Requests,
         \/ /\ stage[r] = "idle" /\ stage' = [stage EXCEPT ![r] = "admission"]
            /\ attempt' = [attempt EXCEPT ![r] = "queued"]
            /\ UNCHANGED <<provider, run, history>>
         \/ BeginStart(r)
  PROVE  LedgerInv'
<1>1. LedgerTypes /\ Lists(history, attempt, run) /\ (\A q \in Requests : Shown(q))
      /\ stage \in [Requests -> Stage]
  BY DEF LedgerInv
<1>2. UNCHANGED <<run, history>>
  BY DEF BeginStart
<1>3. /\ \A q \in Requests : q # r =>
           stage'[q] = stage[q] /\ provider'[q] = provider[q] /\ attempt'[q] = attempt[q]
      /\ stage' \in [Requests -> Stage] /\ LedgerTypes'
  <2>1. CASE BeginStart(r)
    BY <1>1, <2>1 DEF BeginStart, LedgerTypes, Stage, AttemptState
  <2> QED
    BY <1>1, <2>1 DEF LedgerTypes, Stage, AttemptState
<1>4. \A q \in Requests : q # r => Shown(q)'
  BY <1>1, <1>2, <1>3, StaysShown
<1>5. attempt[r] \notin Outcome /\ attempt'[r] \notin Outcome /\ Shown(r)'
  <2>1. CASE BeginStart(r)
    BY <1>1, <1>2, <2>1 DEF BeginStart, Shown, Outcome, LedgerTypes
  <2> QED
    BY <1>1, <1>2, <2>1 DEF Shown, Outcome, LedgerTypes
<1>6. \A record : IsFinished(attempt', run', record) <=> IsFinished(attempt, run, record)
  BY <1>2, <1>3, <1>5 DEF IsFinished
<1>7. Lists(history', attempt', run')
  BY <1>1, <1>2, <1>6 DEF Lists
<1> QED
  BY <1>3, <1>4, <1>5, <1>7 DEF LedgerInv

(* An active run ends: its record joins the history. *)
LEMMA RunSettles ==
  ASSUME LedgerInv, NEW x \in RunIds, SettleRun(x), UNCHANGED stage,
         \/ UNCHANGED provider /\ x \notin Requests
         \/ provider[x] = "published" /\ provider' = [provider EXCEPT ![x] = "ended"]
              /\ x \in Requests
  PROVE  LedgerInv'
<1>1. LedgerTypes /\ Lists(history, attempt, run) /\ (\A q \in Requests : Shown(q))
      /\ stage \in [Requests -> Stage]
  BY DEF LedgerInv
<1>2. CASE run[x] # "active"
  <2>1. UNCHANGED <<attempt, run, history>>
    BY <1>2 DEF SettleRun, ledgerVars
  <2>2. UNCHANGED provider
    BY <1>1, <1>2 DEF Shown
  <2> QED
    BY <2>1, <2>2, LedgerRests
<1>3. CASE run[x] = "active"
  <2> DEFINE runs == [run EXCEPT ![x] = "ended"]
  <2>1. Finish(attempt, runs, RunRecord(x))
    BY <1>3 DEF SettleRun
  <2>2. runs \in [RunIds -> RunState] /\ runs[x] = "ended"
        /\ \A y \in RunIds : y # x => runs[y] = run[y]
    BY <1>1 DEF LedgerTypes, RunState
  <2>3. attempt \in [Requests -> AttemptState] /\ RunRecord(x) \in Records
    BY <1>1, RunIsRecord DEF LedgerTypes
  <2> HIDE DEF runs
  <2>4. IsFinished(attempt, runs, RunRecord(x))
    BY <2>2 DEF IsFinished
  <2>5. ~IsFinished(attempt, run, RunRecord(x))
    BY <1>3, RecordsDiffer DEF IsFinished
  <2>6. \A other : other # RunRecord(x) =>
          (IsFinished(attempt, runs, other) <=> IsFinished(attempt, run, other))
    BY <2>2 DEF IsFinished
  <2>7. /\ history' \in Seq(Records)
        /\ attempt' \in [Requests -> AttemptState] /\ run' \in [RunIds -> RunState]
        /\ Lists(history', attempt', run')
        /\ \A q \in Requests :
             attempt'[q] = attempt[q] \/ (attempt[q] \in Outcome /\ attempt'[q] = "absent")
        /\ \A y \in RunIds :
             run'[y] = runs[y] \/ (runs[y] = "ended" /\ run'[y] = "absent")
    BY <1>1, <2>1, <2>2, <2>3, <2>4, <2>5, <2>6, FinishKeeps, Zenon
  <2>8. /\ provider' \in [Requests -> {"none", "launched", "published", "ended"}]
        /\ \A q \in Requests : q # x => provider'[q] = provider[q]
        /\ x \in Requests => provider[x] = "published" /\ provider'[x] = "ended"
    BY <1>1 DEF LedgerTypes
  <2>9. \A q \in Requests : q # x => Shown(q)'
    BY <1>1, <2>2, <2>7, <2>8, RequestIsRun, StaysShown
  <2>10. x \in Requests => Shown(x)'
    <3> SUFFICES ASSUME x \in Requests PROVE Shown(x)'
      OBVIOUS
    <3>1. Shown(x) /\ provider[x] = "published" /\ provider'[x] = "ended"
      BY <1>1, <2>8
    <3>2. attempt[x] = "absent" /\ attempt'[x] = "absent"
      BY <2>7, <3>1 DEF Shown, Outcome
    <3> QED
      BY <3>1, <3>2 DEF Shown
  <2>11. LedgerTypes'
    BY <2>7, <2>8 DEF LedgerTypes
  <2> QED
    BY <1>1, <2>7, <2>9, <2>10, <2>11 DEF LedgerInv
<1> QED
  BY <1>2, <1>3

(* A run nobody asked the console for begins. *)
LEMMA ObservedBegins ==
  ASSUME LedgerInv, NEW o \in ObservedRuns, ObservedPublished(o)
  PROVE  LedgerInv'
<1>1. LedgerTypes /\ Lists(history, attempt, run) /\ (\A q \in Requests : Shown(q))
  BY DEF LedgerInv
<1>2. o \in RunIds /\ o \notin Requests
  BY ObservedApart DEF RunIds
<1>3. /\ run' = [run EXCEPT ![o] = "active"] /\ run[o] = "absent"
      /\ UNCHANGED <<stage, provider, attempt, history>>
  BY DEF ObservedPublished, callVars
<1>4. run' \in [RunIds -> RunState] /\ run'[o] = "active"
      /\ \A x \in RunIds : x # o => run'[x] = run[x]
  BY <1>1, <1>2, <1>3 DEF LedgerTypes, RunState
<1>5. \A q \in Requests : Shown(q)'
  BY <1>1, <1>2, <1>3, <1>4, RequestIsRun, StaysShown
<1>6. \A record : IsFinished(attempt', run', record) <=> IsFinished(attempt, run, record)
  BY <1>3, <1>4 DEF IsFinished
<1>7. Lists(history', attempt', run')
  BY <1>1, <1>3, <1>6 DEF Lists
<1>8. LedgerTypes'
  BY <1>1, <1>3, <1>4 DEF LedgerTypes
<1> QED
  BY <1>3, <1>5, <1>7, <1>8 DEF LedgerInv

(* The start edge: the run takes the place of its attempt, also in the     *)
(* history when the attempt was settled before the edge arrived.           *)
LEMMA RunBegins ==
  ASSUME LedgerInv, NEW r \in Requests, RunPublished(r)
  PROVE  LedgerInv'
<1>1. LedgerTypes /\ Lists(history, attempt, run) /\ (\A q \in Requests : Shown(q))
      /\ r \in RunIds
  BY RequestIsRun DEF LedgerInv
<1>2. /\ provider[r] = "launched" /\ provider' = [provider EXCEPT ![r] = "published"]
      /\ attempt' = [attempt EXCEPT ![r] = "absent"] /\ run' = [run EXCEPT ![r] = "active"]
      /\ UNCHANGED stage
  BY DEF RunPublished
<1>3. run[r] = "absent"
  BY <1>1, <1>2 DEF Shown
<1>4. /\ provider' \in [Requests -> {"none", "launched", "published", "ended"}]
      /\ attempt' \in [Requests -> AttemptState] /\ run' \in [RunIds -> RunState]
      /\ provider'[r] = "published" /\ attempt'[r] = "absent" /\ run'[r] = "active"
      /\ \A q \in Requests : q # r => provider'[q] = provider[q] /\ attempt'[q] = attempt[q]
      /\ \A x \in RunIds : x # r => run'[x] = run[x]
  BY <1>1, <1>2 DEF LedgerTypes, AttemptState, RunState
<1>5. \A q \in Requests : q # r => Shown(q)'
  BY <1>1, <1>2, <1>4, RequestIsRun, StaysShown
<1>6. Shown(r)'
  BY <1>1, <1>2, <1>4 DEF Shown
<1>7. \A record : IsFinished(attempt', run', record) <=>
                    IsFinished(attempt, run, record) /\ record # AttemptRecord(r)
  <2>1. \A q \in Requests : attempt'[q] \in Outcome <=> attempt[q] \in Outcome /\ q # r
    BY <1>4 DEF Outcome
  <2>2. \A x \in RunIds : run'[x] = "ended" <=> run[x] = "ended"
    BY <1>3, <1>4
  <2> QED
    BY <2>1, <2>2, RecordsDiffer DEF IsFinished
<1>8. history' \in Seq(Records) /\ Lists(history', attempt', run')
  <2>1. CASE attempt[r] \notin Outcome
    <3>1. ~IsFinished(attempt, run, AttemptRecord(r))
      BY <2>1, RecordsDiffer DEF IsFinished
    <3>2. \A record : IsFinished(attempt', run', record) <=> IsFinished(attempt, run, record)
      BY <1>7, <3>1
    <3>3. history' = history
      BY <2>1 DEF RunPublished
    <3> QED
      BY <1>1, <3>2, <3>3 DEF Lists, LedgerTypes
  <2>2. CASE attempt[r] \in Outcome
    <3>1. PICK i \in 1..Len(history) :
            history[i] = AttemptRecord(r) /\ history' = Without(history, i)
      BY <2>2 DEF RunPublished
    <3> DEFINE n == Len(history)
    <3>2. history \in Seq(Records) /\ n \in Nat /\ n <= HistoryLimit /\ i \in 1..n
      BY <1>1, <3>1 DEF LedgerTypes, Lists
    <3>3. /\ history' \in Seq(Records) /\ Len(history') = n - 1
          /\ \A j \in 1..(n - 1) : history'[j] = IF j < i THEN history[j] ELSE history[j + 1]
      BY <3>1, <3>2, WithoutProperties, Zenon
    <3>4. \A j, k \in 1..n : history[j] = history[k] => j = k
      BY <1>1 DEF Lists
    <3> HIDE DEF n
    <3>5. \A j, k \in 1..(n - 1) : history'[j] = history'[k] => j = k
      <4> DEFINE at(j) == IF j < i THEN j ELSE j + 1
      <4>1. \A j \in 1..(n - 1) : at(j) \in 1..n /\ history'[j] = history[at(j)]
        BY <3>2, <3>3
      <4>2. \A j, k \in 1..(n - 1) : at(j) = at(k) => j = k
        BY <3>2
      <4> HIDE DEF at
      <4> QED
        BY <3>4, <4>1, <4>2
    <3>6. \A j \in 1..(n - 1) : IsFinished(attempt', run', history'[j])
      <4> SUFFICES ASSUME NEW j \in 1..(n - 1) PROVE IsFinished(attempt', run', history'[j])
        OBVIOUS
      <4>1. PICK k \in 1..n : history'[j] = history[k] /\ k # i
        <5>1. CASE j < i
          <6>1. j \in 1..n /\ history'[j] = history[j] /\ j # i
            BY <3>2, <3>3, <5>1
          <6> QED
            BY <6>1
        <5>2. CASE ~(j < i)
          <6>1. j + 1 \in 1..n /\ history'[j] = history[j + 1] /\ j + 1 # i
            BY <3>2, <3>3, <5>2
          <6> QED
            BY <6>1
        <5> QED
          BY <5>1, <5>2
      <4>2. IsFinished(attempt, run, history[k])
        BY <1>1, <4>1 DEF Lists, n
      <4>3. history[k] # AttemptRecord(r)
        BY <3>1, <3>2, <3>4, <4>1
      <4> QED
        BY <1>7, <4>1, <4>2, <4>3
    <3>7. ASSUME NEW record, IsFinished(attempt', run', record)
          PROVE  \E j \in 1..(n - 1) : history'[j] = record
      <4>1. IsFinished(attempt, run, record) /\ record # AttemptRecord(r)
        BY <1>7, <3>7
      <4>2. PICK k \in 1..n : history[k] = record
        BY <1>1, <4>1 DEF Lists, n
      <4>3. k # i
        BY <3>1, <4>1, <4>2
      <4>4. CASE k < i
        <5>1. k \in 1..(n - 1) /\ history'[k] = history[k]
          BY <3>2, <3>3, <4>4
        <5> QED
          BY <4>2, <5>1
      <4>5. CASE ~(k < i)
        <5>1. k - 1 \in 1..(n - 1) /\ ~(k - 1 < i) /\ (k - 1) + 1 = k
          BY <3>2, <4>3, <4>5
        <5>2. history'[k - 1] = history[k]
          BY <3>3, <5>1
        <5> QED
          BY <4>2, <5>1, <5>2
      <4> QED
        BY <4>4, <4>5
    <3>8. n - 1 <= HistoryLimit
      BY <3>2, HistoryBound
    <3>9. Lists(history', attempt', run')
      BY <3>3, <3>5, <3>6, <3>7, <3>8 DEF Lists
    <3> QED
      BY <3>3, <3>9
  <2> QED
    BY <2>1, <2>2
<1> QED
  BY <1>2, <1>4, <1>5, <1>6, <1>8 DEF LedgerInv, LedgerTypes


LEMMA SegmentKeepsLedger ==
  ASSUME LedgerInv, NEW r \in Requests, Segment(r)
  PROVE  LedgerInv'
<1>1. CASE AdmissionRejected(r)
  <2>1. \E outcome \in Outcome : SettleAttempt(r, outcome)
    BY <1>1 DEF AdmissionRejected, Outcome
  <2> QED
    BY <1>1, <2>1, AttemptSettles DEF AdmissionRejected
<1>2. CASE AdmittedTooLate(r)
  BY <1>2, AttemptSettles DEF AdmittedTooLate, Outcome
<1>3. CASE BeginStart(r)
  BY <1>3, CallBegins
<1>4. CASE StartThrows(r)
  <2>1. \E outcome \in Outcome : SettleAttempt(r, outcome)
    BY <1>4 DEF StartThrows, Outcome
  <2> QED
    BY <1>4, <2>1, AttemptSettles DEF StartThrows
<1>5. CASE StartReturnsLate(r)
  BY <1>5, CallMovesOn DEF StartReturnsLate, Stage, ledgerVars
<1>6. CASE LateRunDisposed(r)
  <2>1. CASE SettleAttempt(r, "cancelled-before-publication")
    BY <1>6, <2>1, AttemptSettles DEF LateRunDisposed, Outcome
  <2>2. CASE run[r] # "absent" /\ UNCHANGED ledgerVars
    BY <1>6, <2>2, CallMovesOn DEF LateRunDisposed, Stage, ledgerVars
  <2> QED
    BY <1>6, <2>1, <2>2 DEF LateRunDisposed
<1>7. CASE StartReturns(r)
  <2>1. CASE SettleAttempt(r, "lifecycle-missing")
    BY <1>7, <2>1, AttemptSettles DEF StartReturns, Outcome
  <2>2. CASE run[r] # "absent" /\ UNCHANGED ledgerVars
    BY <1>7, <2>2, CallMovesOn DEF StartReturns, Stage, ledgerVars
  <2> QED
    BY <1>7, <2>1, <2>2 DEF StartReturns
<1>8. CASE CallerDisposes(r)
  BY <1>8, CallMovesOn DEF CallerDisposes, Stage, ledgerVars
<1>9. CASE RunDisposed(r)
  BY <1>9, CallMovesOn DEF RunDisposed, Stage, ledgerVars
<1> QED
  BY <1>1, <1>2, <1>3, <1>4, <1>5, <1>6, <1>7, <1>8, <1>9 DEF Segment

LEMMA LedgerStep == LedgerInv /\ [Next]_vars => LedgerInv'
<1> SUFFICES ASSUME LedgerInv, [Next]_vars PROVE LedgerInv'
  OBVIOUS
<1>1. ASSUME NEW r \in Requests, StartOwned(r) PROVE LedgerInv'
  BY <1>1, CallBegins DEF StartOwned
<1>2. ASSUME NEW r \in Requests, RunEnded(r) PROVE LedgerInv'
  BY <1>2, RunSettles, RequestIsRun DEF RunEnded
<1>3. ASSUME NEW r \in Requests, CallerAborts(r) \/ RunTimesOut(r) PROVE LedgerInv'
  BY <1>3, LedgerRests DEF CallerAborts, RunTimesOut, ledgerVars
<1>4. ASSUME NEW o \in ObservedRuns, ObservedEnded(o) PROVE LedgerInv'
  <2>1. o \in RunIds /\ o \notin Requests
    BY ObservedApart DEF RunIds
  <2> QED
    BY <1>4, <2>1, RunSettles DEF ObservedEnded, callVars
<1>5. CASE Unload
  BY <1>5, LedgerRests DEF Unload, ledgerVars
<1>6. CASE Quiet \/ UNCHANGED vars
  BY <1>6, LedgerRests DEF Quiet, vars, callVars, ledgerVars
<1> QED
  BY <1>1, <1>2, <1>3, <1>4, <1>5, <1>6, SegmentKeepsLedger, RunBegins,
     ObservedBegins DEF Next

(* What the ledger shows of a call or an observed run is always what that  *)
(* one's own progress says (LedgerInv).                                    *)
THEOREM LedgerInvariant == Spec => []LedgerInv
BY LedgerBegins, LedgerStep, PTL DEF Spec

(* TypeOK of the composed system, for any number of calls and runs. *)
THEOREM DelegationTypeOK == Spec => []TypeOK
<1> DEFINE AbortedOK == ownedAborted \subseteq Requests
<1>1. IInv /\ LedgerInv /\ AbortedOK => TypeOK
  BY DEF IInv, LedgerInv, LedgerTypes, Records, TypeOK
<1>2. Init => AbortedOK
  BY DEF Init
<1>3. AbortedOK /\ [Next]_vars => AbortedOK'
  <2> SUFFICES ASSUME ownedAborted \subseteq Requests, [Next]_vars
               PROVE  ownedAborted' \subseteq Requests
    OBVIOUS
  <2>1. ASSUME NEW r \in Requests,
               \/ StartOwned(r) \/ Segment(r) \/ RunPublished(r) \/ RunEnded(r)
               \/ CallerAborts(r) \/ RunTimesOut(r)
        PROVE  ownedAborted' \subseteq Requests
    BY <2>1 DEF StartOwned, Segment, AdmissionRejected, AdmittedTooLate, BeginStart,
       StartThrows, StartReturnsLate, LateRunDisposed, StartReturns, CallerDisposes,
       RunDisposed, RunPublished, RunEnded, CallerAborts, RunTimesOut
  <2>2. ASSUME NEW o \in ObservedRuns, ObservedPublished(o) \/ ObservedEnded(o)
        PROVE  ownedAborted' \subseteq Requests
    BY <2>2 DEF ObservedPublished, ObservedEnded, callVars
  <2>3. CASE Unload \/ Quiet \/ UNCHANGED vars
    BY <2>3 DEF Unload, Quiet, vars, callVars
  <2> QED
    BY <2>1, <2>2, <2>3 DEF Next
<1>4. Spec => []IInv
  BY UsesAdmission, AdmissionInvariant, PTL
<1> HIDE DEF AbortedOK
<1>5. Spec => []AbortedOK
  BY <1>2, <1>3, PTL DEF Spec
<1> QED
  BY <1>1, <1>4, <1>5, LedgerInvariant, PTL

(* AttemptTracksCall: a pending attempt is shown for exactly the calls     *)
(* that wait, and never beside its run, wherever the lifecycle edges fall. *)
THEOREM AttemptAlwaysTracksCall == Spec => []AttemptTracksCall
<1>1. LedgerInv => AttemptTracksCall
  BY LedgerSays
<1> QED
  BY <1>1, LedgerInvariant, PTL

(* HistoryIsTheFinished: the history holds each finished record once and   *)
(* nothing else, within its limit, whatever was trimmed or replaced.       *)
THEOREM HistoryIsAlwaysTheFinished == Spec => []HistoryIsTheFinished
<1>1. LedgerInv => HistoryIsTheFinished
  BY LedgerSays
<1> QED
  BY <1>1, LedgerInvariant, PTL

=============================================================================
