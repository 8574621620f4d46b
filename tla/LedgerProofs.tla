---------------------------- MODULE LedgerProofs -----------------------------
(***************************************************************************)
(* What the ledger keeps: its journal, the revisions of a plan, and the    *)
(* room it promised to the executions.                                     *)
(*                                                                         *)
(* The lock and the journal it guards, for any number of hosts, facts and  *)
(* records.  Why at most one host writes the journal: whoever passed the   *)
(* exclusive creation is named by the lock until it leaves or dies, so two *)
(* writers would be named by one lock.  Only the takeover of a stale lock  *)
(* could take the name from a live writer: the argument needs that two     *)
(* takeovers never overlap, because the hosts start one after the other,   *)
(* or because no lock ever looks stale.  Every step of the journal is a    *)
(* step of the lock or leaves it alone, so the journal has a single        *)
(* writer, and what that one knows is what is in the file.                 *)
(*                                                                         *)
(* PlanStore, the revisions and their record, for any number of revisions, *)
(* contents and capability digests, wherever the process ends.  What the   *)
(* ledger is given next is an order `list` chooses; that there is one, and *)
(* which one as long as the clock has not stepped back, is proved first.   *)
(*                                                                         *)
(* PlanGrants, for any number of plans, calls, grants and executions.  The *)
(* promises are kept by arithmetic over the sum of all reservations; that  *)
(* a plan executes once and a grant pays once needs to know what an        *)
(* execution that began still refers to.                                   *)
(***************************************************************************)
EXTENDS EventJournal, PlanStore, PlanGrants, DataLemmas, SequenceTheorems

Orderly == SerialStarts \/ MistakenPids = Hosts

OneStarts ==
  SerialStarts =>
    \A g, h \in Hosts : pc[g] \in Starting /\ pc[h] \in Starting => g = h

NothingLooksStale ==
  MistakenPids = Hosts => \A h \in Hosts : pc[h] # "renaming"

NamedByTheLock ==
  \A h \in Hosts :
    /\ pc[h] = "writing" => lock = [owner |-> h, whole |-> FALSE]
    /\ pc[h] \in {"loading", "owner", "leaving"}
         => lock = [owner |-> h, whole |-> TRUE]

TakenFromTheDead ==
  \A h \in Hosts :
    pc[h] = "renaming" =>
      lock.whole /\ lock.owner \in Hosts /\ pc[lock.owner] = "dead"

LockInv ==
  LockType /\ OneStarts /\ NothingLooksStale /\ NamedByTheLock
    /\ TakenFromTheDead

(* The inductive invariant names one lock for all writers, and the lock    *)
(* names one host.                                                         *)
LEMMA NamedAlone == LockInv => SingleWriter
  BY DEF LockInv, NamedByTheLock, SingleWriter, Writers

(* No host has started: the constructor of none has touched the directory. *)
LEMMA InvHoldsAtFirst == LockInit => LockInv
  BY HostsType DEF LockInit, LockInv, LockType, OneStarts, NothingLooksStale,
       NamedByTheLock, TakenFromTheDead, Place, Starting, Unlocked

(* The steps that leave the lock alone and do not enter a place where the  *)
(* lock matters.                                                           *)
LEMMA StepAside ==
  ASSUME LockInv, NEW h \in Hosts, NEW place \in Place,
         Goto(h, place), UNCHANGED lock, LockType',
         pc[h] # "dead",
         place \notin {"writing", "loading", "owner", "leaving", "renaming"},
         place \in Starting => pc[h] \in Starting \/
            (SerialStarts => \A other \in Hosts : pc[other] \notin Starting)
  PROVE  LockInv'
<1>1. /\ pc'[h] = place
      /\ \A g \in Hosts : g # h => pc'[g] = pc[g]
  BY DEF LockInv, LockType, Goto
<1>2. OneStarts'
  BY <1>1 DEF LockInv, OneStarts
<1>3. NothingLooksStale'
  BY <1>1 DEF LockInv, NothingLooksStale
<1>4. NamedByTheLock'
  BY <1>1 DEF LockInv, NamedByTheLock
<1>5. TakenFromTheDead'
  BY <1>1 DEF LockInv, TakenFromTheDead
<1> QED
  BY <1>2, <1>3, <1>4, <1>5 DEF LockInv

(* Every step of a host keeps the lock's type. *)
LEMMA TypeStep ==
  ASSUME LockType, NEW h \in Hosts, LockStep(h)
  PROVE  LockType'
<1>1. CASE Arrive(h)
  BY <1>1 DEF LockType, Arrive, Goto, Place, Starting
<1>2. CASE Claim(h)
  BY <1>2 DEF LockType, Claim, Goto, Place, Starting
<1>3. CASE ListEntries(h)
  BY <1>3 DEF LockType, ListEntries, Goto, Place, Starting
<1>4. CASE CreateMarker(h)
  BY <1>4 DEF LockType, CreateMarker, Goto, Place, Starting
<1>5. CASE WriteMarker(h)
  BY <1>5 DEF LockType, WriteMarker, Goto, Place, Starting
<1>6. CASE CreateLock(h)
  <2>1. lock' \in {Unlocked} \cup [owner : Hosts, whole : BOOLEAN]
    <3>1. CASE lock' = [owner |-> h, whole |-> FALSE]
      BY <3>1
    <3>2. CASE UNCHANGED lock
      BY <3>2 DEF LockType
    <3> QED
      BY <1>6, <3>1, <3>2 DEF CreateLock
  <2>2. \E place \in Place : pc' = [pc EXCEPT ![h] = place]
    <3>1. CASE lock = Unlocked
      BY <1>6, <3>1 DEF CreateLock, Goto, Place, Starting
    <3>2. CASE lock # Unlocked
      BY <1>6, <3>2 DEF CreateLock, Goto, Place, Starting
    <3> QED
      BY <3>1, <3>2
  <2> QED
    BY <1>6, <2>1, <2>2 DEF LockType, CreateLock
<1>7. CASE WriteLock(h)
  BY <1>7 DEF LockType, WriteLock, Goto, Place, Starting
<1>8. CASE InspectLock(h)
  BY <1>8 DEF LockType, InspectLock, Goto, Place, Starting
<1>9. CASE RenameLock(h)
  BY <1>9 DEF LockType, RenameLock, Goto, Place, Starting, Unlocked
<1>10. CASE StartFails(h)
  BY <1>10 DEF LockType, StartFails, Goto, Place, Starting
<1>11. CASE Loaded(h) /\ UNCHANGED <<directory, marker, lock>>
  BY <1>11 DEF LockType, Loaded, Goto, Place, Starting
<1>12. CASE Dispose(h)
  BY <1>12 DEF LockType, Dispose, Goto, Place, Starting
<1>13. CASE Unlink(h)
  <2>1. lock' \in {Unlocked} \cup [owner : Hosts, whole : BOOLEAN]
    <3>1. CASE lock' = Unlocked
      BY <3>1 DEF Unlocked
    <3>2. CASE UNCHANGED lock
      BY <3>2 DEF LockType
    <3> QED
      BY <1>13, <3>1, <3>2 DEF Unlink
  <2> QED
    BY <1>13, <2>1 DEF LockType, Unlink, Goto, Place
<1>14. CASE ProcessEnds(h)
  BY <1>14 DEF LockType, ProcessEnds, Goto, Place, Starting
<1> QED
  BY <1>1, <1>2, <1>3, <1>4, <1>5, <1>6, <1>7, <1>8, <1>9, <1>10, <1>11,
     <1>12, <1>13, <1>14 DEF LockStep, Acquire

(* One step of a host leaves the lock with whoever it names. *)
LEMMA LockStepKeepsInv ==
  ASSUME Orderly, LockInv, NEW h \in Hosts, LockStep(h)
  PROVE  LockInv'
<1>1. LockType'
  BY TypeStep DEF LockInv
<1>2. CASE Arrive(h)
  <2> DEFINE place == IF directory = "absent" THEN "made" ELSE "found"
  <2>1. place \in Place /\ place \in {"made", "found"}
    BY DEF Place, Starting
  <2>2. Goto(h, place) /\ UNCHANGED lock /\ pc[h] = "off"
    BY <1>2 DEF Arrive
  <2>3. SerialStarts => \A other \in Hosts : pc[other] \notin Starting
    BY <1>2 DEF Arrive
  <2> HIDE DEF place
  <2> QED
    BY <1>1, <2>1, <2>2, <2>3, StepAside
<1>3. ASSUME NEW place \in Place, Goto(h, place), UNCHANGED lock,
             pc[h] \in Starting,
             place \notin {"writing", "loading", "owner", "leaving", "renaming"}
      PROVE  LockInv'
  BY <1>1, <1>3, StepAside DEF Starting
<1>4. CASE Claim(h)
  <2>1. pc[h] \in Starting /\ UNCHANGED lock
    BY <1>4 DEF Claim, Starting
  <2>2. \E place \in {"locking", "memory", "listing", "marking"} : Goto(h, place)
    BY <1>4 DEF Claim
  <2> QED
    BY <2>1, <2>2, <1>3 DEF Place, Starting
<1>5. CASE ListEntries(h)
  <2>1. pc[h] \in Starting /\ UNCHANGED lock
    BY <1>5 DEF ListEntries, Starting
  <2>2. \E place \in {"memory", "marking"} : Goto(h, place)
    BY <1>5 DEF ListEntries
  <2> QED
    BY <2>1, <2>2, <1>3 DEF Place, Starting
<1>6. CASE CreateMarker(h)
  <2>1. pc[h] \in Starting /\ UNCHANGED lock
    BY <1>6 DEF CreateMarker, Starting
  <2>2. \E place \in {"stamping", "memory", "locking"} : Goto(h, place)
    BY <1>6 DEF CreateMarker
  <2> QED
    BY <2>1, <2>2, <1>3 DEF Place, Starting
<1>7. CASE WriteMarker(h)
  BY <1>7, <1>3 DEF WriteMarker, Place, Starting
<1>8. CASE StartFails(h)
  BY <1>8, <1>3 DEF StartFails, Place
<1>9. CASE CreateLock(h)
  <2>1. CASE lock # Unlocked
    <3>1. pc[h] \in Starting /\ UNCHANGED lock
      BY <1>9, <2>1 DEF CreateLock, Starting
    <3>2. \E place \in {"inspecting", "memory"} : Goto(h, place)
      BY <1>9, <2>1 DEF CreateLock
    <3> QED
      BY <3>1, <3>2, <1>3 DEF Place, Starting
  <2>2. CASE lock = Unlocked
    <3>1. /\ pc[h] \in Starting
          /\ pc'[h] = "writing"
          /\ \A g \in Hosts : g # h => pc'[g] = pc[g]
          /\ lock' = [owner |-> h, whole |-> FALSE]
      BY <1>9, <2>2 DEF CreateLock, Goto, LockInv, LockType, Starting
    <3>2. lock.owner \notin Hosts
      <4>1. lock.owner = Nobody
        BY <2>2 DEF Unlocked
      <4> QED
        BY <4>1, HostsType
    <3>3. OneStarts'
      BY <3>1 DEF LockInv, OneStarts
    <3>4. NothingLooksStale'
      BY <3>1 DEF LockInv, NothingLooksStale
    <3>5. NamedByTheLock'
      <4>1. \A g \in Hosts :
              pc[g] \notin {"writing", "loading", "owner", "leaving"}
        <5>1. \A g \in Hosts :
                pc[g] \in {"writing", "loading", "owner", "leaving"}
                  => lock.owner = g
          BY DEF LockInv, NamedByTheLock
        <5> QED
          BY <5>1, <3>2
      <4> QED
        BY <3>1, <4>1 DEF NamedByTheLock
    <3>6. TakenFromTheDead'
      BY <3>1, <3>2 DEF LockInv, TakenFromTheDead
    <3> QED
      BY <1>1, <3>3, <3>4, <3>5, <3>6 DEF LockInv
  <2> QED
    BY <2>1, <2>2
<1>10. CASE WriteLock(h)
  <2>1. /\ pc[h] = "writing"
        /\ pc'[h] = "loading"
        /\ \A g \in Hosts : g # h => pc'[g] = pc[g]
        /\ lock = [owner |-> h, whole |-> FALSE]
    BY <1>10 DEF WriteLock, Goto, LockInv, LockType, NamedByTheLock
  <2>2. lock' = [owner |-> h, whole |-> TRUE]
    BY <1>10, <2>1 DEF WriteLock
  <2>3. OneStarts'
    BY <2>1 DEF LockInv, OneStarts, Starting
  <2>4. NothingLooksStale'
    BY <2>1 DEF LockInv, NothingLooksStale
  <2>5. NamedByTheLock'
    BY <2>1, <2>2 DEF LockInv, NamedByTheLock
  <2>6. TakenFromTheDead'
    BY <2>1 DEF LockInv, TakenFromTheDead
  <2> QED
    BY <1>1, <2>3, <2>4, <2>5, <2>6 DEF LockInv
<1>11. CASE InspectLock(h)
  <2>1. pc[h] = "inspecting" /\ UNCHANGED lock
    BY <1>11 DEF InspectLock
  <2>2. CASE Goto(h, "memory")
    BY <2>1, <2>2, <1>3 DEF Place, Starting
  <2>3. CASE /\ Goto(h, "renaming")
             /\ lock # Unlocked /\ lock.whole /\ ~LooksAlive(lock.owner)
    <3>1. /\ pc'[h] = "renaming"
          /\ \A g \in Hosts : g # h => pc'[g] = pc[g]
      BY <2>3 DEF Goto, LockInv, LockType
    <3>2. pc[lock.owner] = "dead" /\ lock.owner \notin MistakenPids
      BY <2>3 DEF LooksAlive
    <3>3. lock.owner \in Hosts /\ lock.whole
      BY <2>3 DEF LockInv, LockType
    <3>4. OneStarts'
      BY <3>1, <2>1 DEF LockInv, OneStarts, Starting
    <3>5. NothingLooksStale'
      BY <3>2, <3>3 DEF NothingLooksStale
    <3>6. NamedByTheLock'
      BY <3>1, <2>1 DEF LockInv, NamedByTheLock
    <3>7. TakenFromTheDead'
      BY <3>1, <3>2, <3>3, <2>1 DEF LockInv, TakenFromTheDead
    <3> QED
      BY <1>1, <3>4, <3>5, <3>6, <3>7 DEF LockInv
  <2> QED
    BY <1>11, <2>2, <2>3 DEF InspectLock
<1>12. CASE RenameLock(h)
  <2>1. CASE lock = Unlocked
    <3>1. Goto(h, "memory") /\ UNCHANGED lock /\ pc[h] \in Starting
      BY <1>12, <2>1 DEF RenameLock, Starting
    <3> QED
      BY <3>1, <1>3 DEF Place
  <2>2. CASE lock # Unlocked
    <3>1. /\ pc[h] = "renaming"
          /\ pc'[h] = "relocking"
          /\ \A g \in Hosts : g # h => pc'[g] = pc[g]
      BY <1>12, <2>2 DEF RenameLock, Goto, LockInv, LockType
    <3>2. \A g \in Hosts :
            pc[g] \notin {"writing", "loading", "owner", "leaving"}
      BY <3>1 DEF LockInv, NamedByTheLock, TakenFromTheDead
    <3>3. SerialStarts
      BY <3>1 DEF Orderly, LockInv, NothingLooksStale
    <3>4. \A g \in Hosts : pc[g] = "renaming" => g = h
      BY <3>1, <3>3 DEF LockInv, OneStarts, Starting
    <3>5. OneStarts'
      BY <3>1 DEF LockInv, OneStarts, Starting
    <3>6. NothingLooksStale'
      BY <3>1 DEF LockInv, NothingLooksStale
    <3>7. NamedByTheLock'
      BY <3>1, <3>2 DEF NamedByTheLock
    <3>8. TakenFromTheDead'
      BY <3>1, <3>4 DEF TakenFromTheDead
    <3> QED
      BY <1>1, <3>5, <3>6, <3>7, <3>8 DEF LockInv
  <2> QED
    BY <2>1, <2>2
<1>13. CASE Loaded(h) /\ UNCHANGED <<directory, marker, lock>>
  <2>1. /\ pc[h] = "loading"
        /\ pc'[h] = "owner"
        /\ \A g \in Hosts : g # h => pc'[g] = pc[g]
        /\ UNCHANGED lock
    BY <1>13 DEF Loaded, Goto, LockInv, LockType
  <2>2. OneStarts'
    BY <2>1 DEF LockInv, OneStarts, Starting
  <2>3. NothingLooksStale'
    BY <2>1 DEF LockInv, NothingLooksStale
  <2>4. NamedByTheLock'
    BY <2>1 DEF LockInv, NamedByTheLock
  <2>5. TakenFromTheDead'
    BY <2>1 DEF LockInv, TakenFromTheDead
  <2> QED
    BY <1>1, <2>2, <2>3, <2>4, <2>5 DEF LockInv
<1>14. CASE Dispose(h)
  <2>1. CASE Goto(h, "gone")
    BY <1>1, <1>14, <2>1, StepAside DEF Dispose, Place, Starting
  <2>2. CASE /\ Goto(h, "leaving")
             /\ lock = [owner |-> h, whole |-> TRUE]
    <3>1. /\ pc[h] \in {"owner", "memory"}
          /\ pc'[h] = "leaving"
          /\ \A g \in Hosts : g # h => pc'[g] = pc[g]
          /\ UNCHANGED lock
      BY <1>14, <2>2 DEF Dispose, Goto, LockInv, LockType
    <3>2. OneStarts'
      BY <3>1 DEF LockInv, OneStarts, Starting
    <3>3. NothingLooksStale'
      BY <3>1 DEF LockInv, NothingLooksStale
    <3>4. NamedByTheLock'
      BY <3>1, <2>2 DEF LockInv, NamedByTheLock
    <3>5. TakenFromTheDead'
      BY <3>1 DEF LockInv, TakenFromTheDead
    <3> QED
      BY <1>1, <3>2, <3>3, <3>4, <3>5 DEF LockInv
  <2> QED
    BY <1>14, <2>1, <2>2 DEF Dispose
<1>15. CASE Unlink(h)
  <2>1. CASE UNCHANGED lock
    BY <1>1, <1>15, <2>1, StepAside DEF Unlink, Place, Starting
  <2>2. CASE lock' = Unlocked
    <3>1. /\ pc[h] = "leaving"
          /\ pc'[h] = "gone"
          /\ \A g \in Hosts : g # h => pc'[g] = pc[g]
      BY <1>15 DEF Unlink, Goto, LockInv, LockType
    <3>2. lock = [owner |-> h, whole |-> TRUE]
      BY <3>1 DEF LockInv, NamedByTheLock
    <3>3. \A g \in Hosts : g # h =>
            pc[g] \notin {"writing", "loading", "owner", "leaving", "renaming"}
      BY <3>1, <3>2 DEF LockInv, NamedByTheLock, TakenFromTheDead
    <3>4. OneStarts'
      BY <3>1 DEF LockInv, OneStarts, Starting
    <3>5. NothingLooksStale'
      BY <3>1 DEF LockInv, NothingLooksStale
    <3>6. NamedByTheLock'
      BY <3>1, <3>3 DEF NamedByTheLock
    <3>7. TakenFromTheDead'
      BY <3>1, <3>3 DEF TakenFromTheDead
    <3> QED
      BY <1>1, <3>4, <3>5, <3>6, <3>7 DEF LockInv
  <2> QED
    BY <1>15, <2>1, <2>2 DEF Unlink
<1>16. CASE ProcessEnds(h)
  BY <1>1, <1>16, StepAside DEF ProcessEnds, Place, Starting
<1> QED
  BY <1>2, <1>4, <1>5, <1>6, <1>7, <1>8, <1>9, <1>10, <1>11, <1>12, <1>13,
     <1>14, <1>15, <1>16 DEF LockStep, Acquire

(* The invariant behind SingleWriter holds in every reachable state of     *)
(* every orderly set of hosts.                                             *)
THEOREM LockInvariant == ASSUME Orderly PROVE LockSpec => []LockInv
<1>1. LockInit => LockInv
  BY InvHoldsAtFirst
<1>2. LockInv /\ [LockNext]_lockVars => LockInv'
  <2>1. ASSUME LockInv, UNCHANGED lockVars PROVE LockInv'
    BY <2>1 DEF LockInv, LockType, OneStarts, NothingLooksStale,
         NamedByTheLock, TakenFromTheDead, lockVars
  <2> QED
    BY <2>1, LockStepKeepsInv DEF LockNext
<1> QED
  BY <1>1, <1>2, PTL DEF LockSpec

(* At most one host writes the journal, however many share the directory   *)
(* and wherever their processes end, as long as they start one after the   *)
(* other or no lock ever looks stale.  Two that start together over a      *)
(* stale lock are outside the assumption: the code does not exclude them.  *)
THEOREM SingleWriterHolds == ASSUME Orderly PROVE LockSpec => []SingleWriter
BY LockInvariant, NamedAlone, PTL

-----------------------------------------------------------------------------
(* Prefixes and lines.                                                     *)

LEMMA PrefixIs ==
  ASSUME NEW S, NEW s \in Seq(S), NEW n \in 0..Len(s)
  PROVE  /\ SubSeq(s, 1, n) \in Seq(S) /\ Len(SubSeq(s, 1, n)) = n
         /\ \A i \in 1..n : SubSeq(s, 1, n)[i] = s[i]
  BY SubSeqProperties

LEMMA SameSequence ==
  ASSUME NEW S, NEW s \in Seq(S), NEW t \in Seq(S), Len(s) = Len(t),
         \A i \in 1..Len(s) : s[i] = t[i]
  PROVE  s = t
  OBVIOUS

LEMMA LinesAre ==
  ASSUME NEW facts \in Seq(Facts)
  PROVE  /\ Lines(facts) \in Seq(Seq(Facts)) /\ Len(Lines(facts)) = Len(facts)
         /\ \A i \in 1..Len(facts) :
              Lines(facts)[i] = SubSeq(facts, 1, i) /\ Len(Lines(facts)[i]) = i
         /\ FactsIn(Lines(facts)) = facts
<1>1. \A i \in 1..Len(facts) : SubSeq(facts, 1, i) \in Seq(Facts) /\ Len(SubSeq(facts, 1, i)) = i
  BY PrefixIs
<1>2. Lines(facts) \in [1..Len(facts) -> Seq(Facts)] /\ Len(facts) \in Nat
  BY <1>1 DEF Lines
<1>3. Lines(facts) \in Seq(Seq(Facts)) /\ Len(Lines(facts)) = Len(facts)
  BY <1>2
<1>4. FactsIn(Lines(facts)) = facts
  <2>1. CASE facts = <<>>
    BY <1>3, <2>1 DEF FactsIn
  <2>2. CASE facts # <<>>
    <3>1. Len(facts) \in 1..Len(facts)
      BY <2>2
    <3>2. SubSeq(facts, 1, Len(facts)) = facts
      BY <3>1, PrefixIs, SameSequence
    <3> QED
      BY <1>3, <3>1, <3>2 DEF FactsIn, Lines
  <2> QED
    BY <2>1, <2>2
<1> QED
  BY <1>1, <1>3, <1>4 DEF Lines

LEMMA LinesGrow ==
  ASSUME NEW facts \in Seq(Facts), NEW fact \in Facts
  PROVE  Lines(Append(facts, fact)) = Append(Lines(facts), Append(facts, fact))
<1> DEFINE more == Append(facts, fact)
           n == Len(facts)
<1>1. more \in Seq(Facts) /\ Len(more) = n + 1 /\ n \in Nat
      /\ \A i \in 1..n : more[i] = facts[i]
  OBVIOUS
<1>2. \A i \in 1..n : SubSeq(more, 1, i) = SubSeq(facts, 1, i)
  <2>1. SUFFICES ASSUME NEW i \in 1..n PROVE SubSeq(more, 1, i) = SubSeq(facts, 1, i)
    OBVIOUS
  <2> HIDE DEF more
  <2>2. i \in 0..Len(facts) /\ i \in 0..Len(more)
    BY <1>1
  <2>3. /\ SubSeq(more, 1, i) \in Seq(Facts) /\ Len(SubSeq(more, 1, i)) = i
        /\ \A j \in 1..i : SubSeq(more, 1, i)[j] = more[j]
    BY <1>1, <2>2, PrefixIs
  <2>4. /\ SubSeq(facts, 1, i) \in Seq(Facts) /\ Len(SubSeq(facts, 1, i)) = i
        /\ \A j \in 1..i : SubSeq(facts, 1, i)[j] = facts[j]
    BY <2>2, PrefixIs
  <2> QED
    BY <1>1, <2>3, <2>4, SameSequence
<1>3. SubSeq(more, 1, n + 1) = more
  <2> HIDE DEF more
  <2>1. n + 1 \in 0..Len(more)
    BY <1>1
  <2> QED
    BY <1>1, <2>1, PrefixIs, SameSequence
<1>4. /\ Lines(facts) \in Seq(Seq(Facts)) /\ Len(Lines(facts)) = n
      /\ \A i \in 1..n : Lines(facts)[i] = SubSeq(facts, 1, i)
  BY LinesAre
<1>5. /\ Lines(more) \in Seq(Seq(Facts)) /\ Len(Lines(more)) = n + 1
      /\ \A i \in 1..(n + 1) : Lines(more)[i] = SubSeq(more, 1, i)
  BY <1>1, LinesAre
<1> HIDE DEF more, n
<1>6. /\ Append(Lines(facts), more) \in Seq(Seq(Facts))
      /\ Len(Append(Lines(facts), more)) = n + 1
      /\ \A i \in 1..n : Append(Lines(facts), more)[i] = Lines(facts)[i]
      /\ Append(Lines(facts), more)[n + 1] = more
  BY <1>1, <1>4
<1>7. \A i \in 1..(n + 1) : Lines(more)[i] = Append(Lines(facts), more)[i]
  <2>1. \A i \in 1..(n + 1) : i \in 1..n \/ i = n + 1
    BY <1>1
  <2> QED
    BY <1>2, <1>3, <1>4, <1>5, <1>6, <2>1
<1> QED
  BY <1>5, <1>6, <1>7, SameSequence DEF more

-----------------------------------------------------------------------------
(* The journal's writer.                                                   *)

OneWriter == \A g, h \in Hosts : g \in Writers /\ h \in Writers => g = h

JournalType ==
  /\ history \in [Hosts -> Seq(Facts)]
  /\ storage \in [Hosts -> {"ready", "degraded"}]
  /\ file \in Seq(Seq(Facts)) /\ Len(file) <= MaxJournalRecords
  /\ tail \in BOOLEAN
  /\ harmed \in BOOLEAN

(* A host that constructed without the lock never says "disk". *)
MemoryIsDegraded == \A h \in Hosts : pc[h] = "memory" => storage[h] = "degraded"

(* While the writer says "disk", the file is one its successor can load. *)
DiskLoads ==
  \A h \in Hosts : pc[h] = "owner" /\ storage[h] = "ready" => Loadable(file)

JournalInv ==
  /\ LockInv
  /\ JournalType /\ MemoryIsDegraded /\ DiskMeansDisk /\ DiskLoads
  /\ OwnJournalLoads

(* The journal's steps are steps of the lock, or leave it alone. *)
LEMMA JournalUsesTheLock ==
  ASSUME NEW h \in Hosts, HostStep(h)
  PROVE  LockStep(h) \/ UNCHANGED lockVars
<1>1. CASE Contend(h)
  BY <1>1 DEF Contend, LockStep
<1>2. CASE End(h)
  BY <1>2 DEF End, LockStep
<1>3. CASE Load(h)
  BY <1>3 DEF Load, LockStep
<1>4. CASE Quarantine(h)
  BY <1>4 DEF Quarantine, LockStep
<1>5. ASSUME NEW fact \in Facts,
             \/ RecordInMemory(h, fact) \/ AppendRecord(h, fact)
             \/ AppendFails(h, fact) \/ EndsWhileAppending(h, fact)
      PROVE  LockStep(h) \/ UNCHANGED lockVars
  BY <1>2, <1>5 DEF RecordInMemory, AppendRecord, AppendFails, EndsWhileAppending
<1> QED
  BY <1>1, <1>2, <1>3, <1>4, <1>5 DEF HostStep

LEMMA JournalKeepsLock ==
  ASSUME Orderly, LockInv, [JournalNext]_hostVars
  PROVE  LockInv'
<1>1. ASSUME UNCHANGED lockVars PROVE LockInv'
  BY <1>1 DEF LockInv, LockType, OneStarts, NothingLooksStale,
       NamedByTheLock, TakenFromTheDead, lockVars
<1> QED
  BY <1>1, JournalUsesTheLock, LockStepKeepsInv DEF JournalNext, Damage, hostVars

(* A host that is reading the journal or writing it is the only one. *)
LEMMA WritesAlone ==
  ASSUME LockInv, NEW h \in Hosts, pc[h] \in {"loading", "owner"},
         NEW g \in Hosts, pc[g] = "owner"
  PROVE  g = h
  BY DEF LockInv, NamedByTheLock

-----------------------------------------------------------------------------
(* What can be loaded.                                                     *)

LEMMA NothingLoads == Loadable(<<>>) /\ FactsIn(<<>>) = <<>>
<1>1. FactsIn(<<>>) = <<>> /\ Len(<<>>) = 0
  BY DEF FactsIn
<1>2. Lines(<<>>) = <<>>
  <2>1. <<>> \in Seq(Facts)
    OBVIOUS
  <2>2. Lines(<<>>) \in Seq(Seq(Facts)) /\ Len(Lines(<<>>)) = 0
    BY <2>1, LinesAre
  <2> QED
    BY <2>2
<1> QED
  BY <1>1, <1>2, MaxJournalRecordsType DEF Loadable

(* A loadable file is the lines of its last one. *)
LEMMA LoadableIs ==
  ASSUME NEW lines \in Seq(Seq(Facts)), Loadable(lines)
  PROVE  /\ FactsIn(lines) \in Seq(Facts) /\ lines = Lines(FactsIn(lines))
         /\ Len(FactsIn(lines)) = Len(lines)
         /\ \A i \in 1..Len(lines) : Len(lines[i]) = i
<1>1. FactsIn(lines) \in Seq(Facts)
  BY DEF FactsIn
<1>2. lines = Lines(FactsIn(lines))
  BY DEF Loadable
<1> QED
  BY <1>1, <1>2, LinesAre

(* One admissible fact more, and the file still loads. *)
LEMMA OneMoreLoads ==
  ASSUME NEW facts \in Seq(Facts), NEW fact \in Facts, Loadable(Lines(facts)),
         Admissible(facts, fact), Len(facts) < MaxJournalRecords
  PROVE  /\ Loadable(Lines(Append(facts, fact)))
         /\ FactsIn(Lines(Append(facts, fact))) = Append(facts, fact)
<1> DEFINE more == Append(facts, fact)
           n == Len(facts)
<1>1. more \in Seq(Facts) /\ Len(more) = n + 1 /\ n \in Nat
      /\ more[n + 1] = fact /\ \A i \in 1..n : more[i] = facts[i]
  OBVIOUS
<1>2. /\ FactsIn(Lines(facts)) = facts /\ Len(Lines(facts)) = n
      /\ FactsIn(Lines(more)) = more /\ Len(Lines(more)) = n + 1
  BY <1>1, LinesAre
<1>3. \A i \in 1..n : Admissible(SubSeq(facts, 1, i - 1), facts[i])
  BY <1>2 DEF Loadable
<1> HIDE DEF more
<1>4. \A i \in 0..n : SubSeq(more, 1, i) = SubSeq(facts, 1, i)
  <2>1. SUFFICES ASSUME NEW i \in 0..n PROVE SubSeq(more, 1, i) = SubSeq(facts, 1, i)
    OBVIOUS
  <2>2. i \in 0..Len(facts) /\ i \in 0..Len(more)
    BY <1>1
  <2>3. /\ SubSeq(more, 1, i) \in Seq(Facts) /\ Len(SubSeq(more, 1, i)) = i
        /\ \A j \in 1..i : SubSeq(more, 1, i)[j] = more[j]
    BY <1>1, <2>2, PrefixIs
  <2>4. /\ SubSeq(facts, 1, i) \in Seq(Facts) /\ Len(SubSeq(facts, 1, i)) = i
        /\ \A j \in 1..i : SubSeq(facts, 1, i)[j] = facts[j]
    BY <2>2, PrefixIs
  <2> QED
    BY <1>1, <2>3, <2>4, SameSequence
<1>5. SubSeq(facts, 1, n) = facts
  <2>1. n \in 0..Len(facts)
    BY <1>1
  <2> QED
    BY <2>1, PrefixIs, SameSequence
<1> HIDE DEF n
<1>6. ASSUME NEW i \in 1..(n + 1)
      PROVE  Admissible(SubSeq(more, 1, i - 1), more[i])
  <2>1. CASE i = n + 1
    <3>1. i - 1 = n /\ n \in 0..n
      BY <1>1, <2>1
    <3>2. SubSeq(more, 1, i - 1) = facts
      BY <1>4, <1>5, <3>1
    <3> QED
      BY <1>1, <2>1, <3>2
  <2>2. CASE i \in 1..n
    <3>1. i - 1 \in 0..n
      BY <1>1, <2>2
    <3>2. SubSeq(more, 1, i - 1) = SubSeq(facts, 1, i - 1)
      BY <1>4, <3>1
    <3> QED
      BY <1>1, <1>3, <2>2, <3>2
  <2> QED
    BY <1>1, <2>1, <2>2
<1>7. Len(Lines(more)) <= MaxJournalRecords
  BY <1>1, <1>2, MaxJournalRecordsType DEF n
<1> QED
  BY <1>2, <1>6, <1>7 DEF Loadable, more

-----------------------------------------------------------------------------
(* The invariant, step by step.                                            *)

LEMMA EmptyFits ==
  /\ <<>> \in Seq(Facts) /\ <<>> \in Seq(Seq(Facts))
  /\ Len(<<>>) = 0 /\ Len(<<>>) <= MaxJournalRecords
<1>1. <<>> \in Seq(Facts) /\ <<>> \in Seq(Seq(Facts)) /\ Len(<<>>) = 0
  OBVIOUS
<1> QED
  BY <1>1, MaxJournalRecordsType

LEMMA JournalBegins == JournalInit => JournalInv
<1> SUFFICES ASSUME JournalInit PROVE JournalInv
  OBVIOUS
<1>1. LockInv
  BY InvHoldsAtFirst DEF JournalInit
<1>2. JournalType
  <2>1. history \in [Hosts -> Seq(Facts)] /\ storage \in [Hosts -> {"ready", "degraded"}]
    BY EmptyFits DEF JournalInit
  <2>2. file \in Seq(Seq(Facts)) /\ Len(file) <= MaxJournalRecords
    BY EmptyFits DEF JournalInit
  <2> QED
    BY <2>1, <2>2 DEF JournalInit, JournalType
<1>3. MemoryIsDegraded /\ DiskMeansDisk /\ DiskLoads
  BY DEF JournalInit, LockInit, MemoryIsDegraded, DiskMeansDisk, DiskLoads
<1>4. OwnJournalLoads
  BY NothingLoads DEF JournalInit, OwnJournalLoads
<1> QED
  BY <1>1, <1>2, <1>3, <1>4 DEF JournalInv

(* A step that leaves the journal and what the hosts hold alone, and makes *)
(* no host a writer.                                                       *)
LEMMA JournalAside ==
  ASSUME JournalInv, LockInv', NEW h \in Hosts,
         UNCHANGED <<file, tail, harmed>>,
         \A g \in Hosts : g # h =>
           pc'[g] = pc[g] /\ storage'[g] = storage[g] /\ history'[g] = history[g],
         JournalType', pc'[h] # "owner", pc'[h] = "memory" => storage'[h] = "degraded"
  PROVE  JournalInv'
<1>1. MemoryIsDegraded'
  BY DEF JournalInv, MemoryIsDegraded
<1>2. DiskMeansDisk'
  BY DEF JournalInv, DiskMeansDisk
<1>3. DiskLoads'
  BY DEF JournalInv, DiskLoads
<1>4. OwnJournalLoads'
  BY DEF JournalInv, OwnJournalLoads
<1> QED
  BY <1>1, <1>2, <1>3, <1>4 DEF JournalInv

(* While one host reads or writes the journal, none of the others says     *)
(* "disk".                                                                 *)
LEMMA JournalAlone ==
  ASSUME JournalInv, LockInv', NEW h \in Hosts, pc[h] \in {"loading", "owner"},
         \A g \in Hosts : g # h => pc'[g] = pc[g] /\ storage'[g] = storage[g],
         JournalType', OwnJournalLoads',
         pc'[h] = "memory" => storage'[h] = "degraded",
         pc'[h] = "owner" /\ storage'[h] = "ready"
           => file' = Lines(history'[h]) /\ ~tail' /\ Loadable(file')
  PROVE  JournalInv'
<1>1. \A g \in Hosts : pc'[g] = "owner" => g = h
  BY WritesAlone DEF JournalInv
<1>2. MemoryIsDegraded'
  BY DEF JournalInv, MemoryIsDegraded
<1>3. DiskMeansDisk' /\ DiskLoads'
  BY <1>1 DEF DiskMeansDisk, DiskLoads
<1> QED
  BY <1>2, <1>3 DEF JournalInv

LEMMA Elsewhere ==
  ASSUME LockType, JournalType, NEW h \in Hosts
  PROVE  /\ \A place : Goto(h, place) =>
              pc'[h] = place /\ \A g \in Hosts : g # h => pc'[g] = pc[g]
         /\ \A state : storage' = [storage EXCEPT ![h] = state] =>
              storage'[h] = state /\ \A g \in Hosts : g # h => storage'[g] = storage[g]
         /\ \A facts : history' = [history EXCEPT ![h] = facts] =>
              history'[h] = facts /\ \A g \in Hosts : g # h => history'[g] = history[g]
  BY DEF LockType, JournalType, Goto

LEMMA ContendKeeps ==
  ASSUME JournalInv, LockInv', NEW h \in Hosts, Contend(h)
  PROVE  JournalInv'
<1> DEFINE state == IF pc[h] \in Starting /\ pc'[h] = "memory" THEN "degraded" ELSE storage[h]
<1>1. /\ storage' = [storage EXCEPT ![h] = state]
      /\ UNCHANGED <<history, file, tail, harmed>>
  BY DEF Contend
<1>2. state \in {"ready", "degraded"}
  BY DEF JournalInv, JournalType
<1>3. \E place : /\ Goto(h, place) /\ place # "owner"
                 /\ place = "memory" => pc[h] \in Starting
  <2>1. CASE Arrive(h)
    BY <2>1 DEF Arrive
  <2>2. CASE Acquire(h)
    BY <2>2 DEF Acquire, Claim, ListEntries, CreateMarker, WriteMarker, CreateLock,
                WriteLock, InspectLock, RenameLock, StartFails, Starting
  <2>3. CASE Dispose(h)
    BY <2>3 DEF Dispose
  <2>4. CASE Unlink(h)
    BY <2>4 DEF Unlink
  <2> QED
    BY <2>1, <2>2, <2>3, <2>4 DEF Contend
<1>4. LockType /\ JournalType
  BY DEF JournalInv, LockInv
<1>5. /\ storage'[h] = state /\ pc'[h] # "owner"
      /\ pc'[h] = "memory" => pc[h] \in Starting
      /\ \A g \in Hosts : g # h => pc'[g] = pc[g] /\ storage'[g] = storage[g]
  <2> HIDE DEF state
  <2>1. storage'[h] = state /\ \A g \in Hosts : g # h => storage'[g] = storage[g]
    BY <1>1, <1>4, Elsewhere
  <2>2. PICK place : /\ Goto(h, place) /\ place # "owner"
                     /\ place = "memory" => pc[h] \in Starting
    BY <1>3
  <2>3. pc'[h] = place /\ \A g \in Hosts : g # h => pc'[g] = pc[g]
    BY <1>4, <2>2, Elsewhere
  <2> QED
    BY <2>1, <2>2, <2>3
<1>6. pc'[h] = "memory" => storage'[h] = "degraded"
  BY <1>5
<1>7. JournalType'
  BY <1>1, <1>2, <1>4 DEF JournalType
<1> HIDE DEF state
<1> QED
  BY <1>1, <1>5, <1>6, <1>7, JournalAside

LEMMA EndKeeps ==
  ASSUME JournalInv, LockInv', NEW h \in Hosts, End(h),
         \/ UNCHANGED tail
         \/ pc[h] = "owner" /\ tail' = TRUE
  PROVE  JournalInv'
<1>1. LockType /\ JournalType /\ Goto(h, "dead")
  BY DEF JournalInv, LockInv, End, ProcessEnds
<1>2. /\ history' = [history EXCEPT ![h] = <<>>] /\ storage' = [storage EXCEPT ![h] = "ready"]
      /\ UNCHANGED <<file, harmed>>
  BY DEF End
<1>3. /\ pc'[h] = "dead"
      /\ \A g \in Hosts : g # h =>
           pc'[g] = pc[g] /\ storage'[g] = storage[g] /\ history'[g] = history[g]
  BY <1>1, <1>2, Elsewhere
<1>4. JournalType'
  <2>1. history' \in [Hosts -> Seq(Facts)]
    BY <1>1, <1>2 DEF JournalType
  <2>2. storage' \in [Hosts -> {"ready", "degraded"}] /\ tail' \in BOOLEAN
    BY <1>1, <1>2 DEF JournalType
  <2> QED
    BY <1>1, <1>2, <2>1, <2>2 DEF JournalType
<1>5. CASE UNCHANGED tail
  BY <1>2, <1>3, <1>4, <1>5, JournalAside
<1>6. CASE pc[h] = "owner"
  <2>1. OwnJournalLoads'
    BY <1>2 DEF JournalInv, OwnJournalLoads
  <2> QED
    BY <1>3, <1>4, <1>6, <2>1, JournalAlone
<1> QED
  BY <1>5, <1>6

LEMMA LoadKeeps ==
  ASSUME JournalInv, LockInv', NEW h \in Hosts, Load(h)
  PROVE  JournalInv'
<1>1. LockType /\ JournalType /\ Goto(h, "owner") /\ pc[h] = "loading" /\ Loadable(file)
  BY DEF JournalInv, LockInv, Load, Loaded
<1>2. /\ history' = [history EXCEPT ![h] = FactsIn(file)] /\ ~tail'
      /\ UNCHANGED <<storage, file, harmed>>
  BY DEF Load
<1>3. FactsIn(file) \in Seq(Facts) /\ file = Lines(FactsIn(file))
  BY <1>1, LoadableIs DEF JournalType
<1>4. /\ pc'[h] = "owner" /\ history'[h] = FactsIn(file)
      /\ \A g \in Hosts : g # h => pc'[g] = pc[g] /\ storage'[g] = storage[g]
  BY <1>1, <1>2, Elsewhere
<1>5. JournalType'
  BY <1>1, <1>2, <1>3 DEF JournalType, Load
<1>6. OwnJournalLoads' /\ Loadable(file')
  BY <1>1, <1>2 DEF OwnJournalLoads
<1>7. file' = Lines(history'[h])
  BY <1>2, <1>3, <1>4
<1> QED
  BY <1>1, <1>2, <1>4, <1>5, <1>6, <1>7, JournalAlone

LEMMA QuarantineKeeps ==
  ASSUME JournalInv, LockInv', NEW h \in Hosts, Quarantine(h)
  PROVE  JournalInv' /\ harmed'
<1>1. LockType /\ JournalType /\ Goto(h, "owner") /\ pc[h] = "loading"
  BY DEF JournalInv, LockInv, Quarantine, Loaded
<1>2. /\ harmed' = (harmed \/ Loadable(file)) /\ storage' = [storage EXCEPT ![h] = "degraded"]
      /\ UNCHANGED history /\ file' \in {<<>>, file} /\ tail' \in {tail, FALSE}
  BY DEF Quarantine
<1>3. harmed'
  BY <1>2 DEF JournalInv, OwnJournalLoads
<1>4. /\ pc'[h] = "owner" /\ storage'[h] = "degraded"
      /\ \A g \in Hosts : g # h => pc'[g] = pc[g] /\ storage'[g] = storage[g]
  BY <1>1, <1>2, Elsewhere
<1>5. JournalType'
  <2>1. file' \in Seq(Seq(Facts)) /\ Len(file') <= MaxJournalRecords
    BY <1>1, <1>2, EmptyFits DEF JournalType
  <2>2. harmed' \in BOOLEAN
    BY <1>2, <1>3
  <2>3. storage' \in [Hosts -> {"ready", "degraded"}] /\ tail' \in BOOLEAN
    BY <1>1, <1>2 DEF JournalType
  <2> QED
    BY <1>1, <1>2, <2>1, <2>2, <2>3 DEF JournalType
<1>6. OwnJournalLoads'
  BY <1>3 DEF OwnJournalLoads
<1> QED
  BY <1>1, <1>3, <1>4, <1>5, <1>6, JournalAlone

(* What a recorder leaves behind: one fact more in memory. *)
LEMMA Remembered ==
  ASSUME LockType, JournalType, NEW h \in Hosts, NEW fact \in Facts, Remember(h, fact)
  PROVE  /\ history[h] \in Seq(Facts) /\ Append(history[h], fact) \in Seq(Facts)
         /\ history'[h] = Append(history[h], fact)
         /\ \A g \in Hosts : g # h => history'[g] = history[g]
         /\ history' \in [Hosts -> Seq(Facts)]
<1>1. history[h] \in Seq(Facts) /\ Append(history[h], fact) \in Seq(Facts)
  BY DEF JournalType
<1>2. history' = [history EXCEPT ![h] = Append(history[h], fact)]
  BY DEF Remember
<1>3. history' \in [Hosts -> Seq(Facts)]
  BY <1>1, <1>2 DEF JournalType
<1> QED
  BY <1>1, <1>2, <1>3, Elsewhere

LEMMA MemoryKeeps ==
  ASSUME JournalInv, LockInv', NEW h \in Hosts, NEW fact \in Facts,
         RecordInMemory(h, fact)
  PROVE  JournalInv'
<1>1. /\ LockType /\ JournalType /\ Remember(h, fact) /\ storage[h] = "degraded"
      /\ UNCHANGED <<pc, storage, file, tail, harmed>>
  BY DEF JournalInv, LockInv, RecordInMemory, lockVars
<1>2. /\ history' \in [Hosts -> Seq(Facts)]
      /\ \A g \in Hosts : g # h => history'[g] = history[g]
  BY <1>1, Remembered
<1>3. JournalType'
  BY <1>1, <1>2 DEF JournalType
<1>4. MemoryIsDegraded' /\ OwnJournalLoads' /\ DiskLoads'
  BY <1>1 DEF JournalInv, MemoryIsDegraded, OwnJournalLoads, DiskLoads
<1>5. DiskMeansDisk'
  BY <1>1, <1>2 DEF JournalInv, DiskMeansDisk
<1> QED
  BY <1>3, <1>4, <1>5 DEF JournalInv

(* A ledger that says "disk" is the one that holds the lock. *)
LEMMA ReadyOwns ==
  ASSUME JournalInv, NEW h \in Hosts, NEW fact \in Facts, Recordable(h, fact),
         storage[h] = "ready"
  PROVE  /\ pc[h] = "owner" /\ file = Lines(history[h]) /\ ~tail /\ Loadable(file)
         /\ Admissible(history[h], fact)
<1>1. pc[h] = "owner"
  BY DEF JournalInv, Recordable, MemoryIsDegraded
<1> QED
  BY <1>1 DEF JournalInv, Recordable, DiskMeansDisk, DiskLoads

LEMMA AppendKeeps ==
  ASSUME JournalInv, LockInv', NEW h \in Hosts, NEW fact \in Facts,
         AppendRecord(h, fact)
  PROVE  /\ JournalInv'
         /\ Loadable(file) /\ FactsIn(file) = history[h] /\ Admissible(history[h], fact)
         /\ Loadable(file') /\ FactsIn(file') = Append(history[h], fact)
         /\ UNCHANGED harmed
<1>1. /\ LockType /\ JournalType /\ Remember(h, fact) /\ storage[h] = "ready"
      /\ UNCHANGED <<pc, storage, tail, harmed>>
      /\ Recordable(h, fact) /\ Len(history[h]) < MaxJournalRecords
      /\ file' = Append(file, Append(history[h], fact))
  BY DEF JournalInv, LockInv, AppendRecord, lockVars
<1>2. /\ pc[h] = "owner" /\ file = Lines(history[h]) /\ ~tail /\ Loadable(file)
      /\ Admissible(history[h], fact)
  BY <1>1, ReadyOwns
<1>3. /\ history[h] \in Seq(Facts) /\ Append(history[h], fact) \in Seq(Facts)
      /\ history'[h] = Append(history[h], fact)
      /\ \A g \in Hosts : g # h => history'[g] = history[g]
      /\ history' \in [Hosts -> Seq(Facts)]
  BY <1>1, Remembered
<1>4. file' = Lines(Append(history[h], fact))
  BY <1>1, <1>2, <1>3, LinesGrow
<1>5. FactsIn(file) = history[h]
  BY <1>2, <1>3, LinesAre
<1>6. Loadable(file') /\ FactsIn(file') = Append(history[h], fact)
  BY <1>1, <1>2, <1>3, <1>4, OneMoreLoads
<1>7. JournalType'
  <2>1. file' \in Seq(Seq(Facts))
    BY <1>3, <1>4, LinesAre
  <2>2. Len(file') <= MaxJournalRecords
    BY <1>6 DEF Loadable
  <2> QED
    BY <1>1, <1>3, <2>1, <2>2 DEF JournalType
<1>8. OwnJournalLoads'
  BY <1>6 DEF OwnJournalLoads
<1>9. JournalInv'
  <2>1. file' = Lines(history'[h]) /\ ~tail'
    BY <1>1, <1>2, <1>3, <1>4
  <2>2. pc'[h] # "memory"
    BY <1>1, <1>2
  <2>3. \A g \in Hosts : g # h => pc'[g] = pc[g] /\ storage'[g] = storage[g]
    BY <1>1
  <2> QED
    BY <1>2, <1>6, <1>7, <1>8, <2>1, <2>2, <2>3, JournalAlone
<1> QED
  BY <1>1, <1>2, <1>5, <1>6, <1>9

LEMMA FailureKeeps ==
  ASSUME JournalInv, LockInv', NEW h \in Hosts, NEW fact \in Facts,
         AppendFails(h, fact)
  PROVE  JournalInv'
<1>1. /\ LockType /\ JournalType /\ Remember(h, fact) /\ storage[h] = "ready"
      /\ UNCHANGED <<pc, file, harmed>> /\ tail' \in {tail, TRUE}
      /\ Recordable(h, fact) /\ storage' = [storage EXCEPT ![h] = "degraded"]
  BY DEF JournalInv, LockInv, AppendFails, lockVars
<1>2. pc[h] = "owner"
  BY <1>1, ReadyOwns
<1>3. history' \in [Hosts -> Seq(Facts)]
  BY <1>1, Remembered
<1>4. storage'[h] = "degraded" /\ \A g \in Hosts : g # h => storage'[g] = storage[g]
  BY <1>1, Elsewhere
<1>5. JournalType'
  BY <1>1, <1>3 DEF JournalType
<1>6. OwnJournalLoads'
  BY <1>1 DEF JournalInv, OwnJournalLoads
<1>7. \A g \in Hosts : g # h => pc'[g] = pc[g] /\ storage'[g] = storage[g]
  BY <1>1, <1>4
<1> QED
  BY <1>2, <1>4, <1>5, <1>6, <1>7, JournalAlone

(* A file that lost one of its lines. *)
Without(s, i) == SubSeq(s, 1, i - 1) \o SubSeq(s, i + 1, Len(s))

LEMMA OneOut ==
  ASSUME NEW S, NEW s \in Seq(S), NEW i \in 1..Len(s), Len(s) <= MaxJournalRecords
  PROVE  /\ Without(s, i) \in Seq(S) /\ Len(Without(s, i)) = Len(s) - 1
         /\ Len(Without(s, i)) <= MaxJournalRecords
         /\ \A j \in 1..(i - 1) : Without(s, i)[j] = s[j]
         /\ i < Len(s) => Without(s, i)[i] = s[i + 1]
<1> DEFINE t == Without(s, i)
           n == Len(s)
           front == SubSeq(s, 1, i - 1)
           back == SubSeq(s, i + 1, n)
<1>1. n \in Nat /\ i \in 1..n /\ MaxJournalRecords \in Nat
  BY MaxJournalRecordsType
<1>2. front \in Seq(S) /\ Len(front) = i - 1 /\ \A j \in 1..(i - 1) : front[j] = s[j]
  <2>1. i - 1 \in 0..Len(s)
    BY <1>1
  <2> QED
    BY <2>1, PrefixIs
<1>3. back \in Seq(S) /\ Len(back) = n - i /\ (i < n => back[1] = s[i + 1])
  <2>1. \A j \in (i + 1)..n : s[j] \in S
    BY <1>1
  <2>2. /\ back \in Seq(S) /\ Len(back) = IF i + 1 <= n THEN n - (i + 1) + 1 ELSE 0
        /\ \A j \in 1..(n - (i + 1) + 1) : back[j] = s[i + 1 + j - 1]
    <3>1. i + 1 \in Int /\ n \in Int
      BY <1>1
    <3> HIDE DEF n
    <3> QED
      BY <2>1, <3>1, SubSeqProperties DEF back
  <2> HIDE DEF back, n
  <2>3. Len(back) = n - i
    BY <1>1, <2>2
  <2>4. i < n => back[1] = s[i + 1]
    BY <1>1, <2>2
  <2> QED
    BY <2>2, <2>3, <2>4
<1> HIDE DEF front, back, n
<1>4. t = front \o back
  BY DEF front, back, n, Without
<1> HIDE DEF t
<1>5. /\ t \in Seq(S) /\ Len(t) = Len(front) + Len(back)
      /\ \A j \in 1..(Len(front) + Len(back)) :
           t[j] = IF j <= Len(front) THEN front[j] ELSE back[j - Len(front)]
  <2>1. front \in Seq(S) /\ back \in Seq(S)
    BY <1>2, <1>3
  <2>2. /\ front \o back \in Seq(S)
        /\ Len(front \o back) = Len(front) + Len(back)
        /\ \A j \in 1..(Len(front) + Len(back)) :
             (front \o back)[j] = IF j <= Len(front) THEN front[j] ELSE back[j - Len(front)]
    BY <2>1, ConcatProperties, Zenon
  <2> QED
    BY <1>4, <2>2, Zenon
<1>6. Len(t) = n - 1
  <2>1. \A l \in Int : l = (i - 1) + (n - i) => l = n - 1
    BY <1>1
  <2>2. (i - 1) + (n - i) \in Int
    BY <1>1
  <2> QED
    BY <1>2, <1>3, <1>5, <2>1, <2>2, Zenon
<1>7. ASSUME NEW j \in 1..(i - 1) PROVE t[j] = s[j]
  <2>1. j \in 1..((i - 1) + (n - i)) /\ j <= i - 1
    BY <1>1
  <2>2. t[j] = front[j]
    BY <1>2, <1>3, <1>5, <2>1, Zenon
  <2> QED
    BY <1>2, <2>2, Zenon
<1>8. i < n => t[i] = s[i + 1]
  <2> SUFFICES ASSUME i < n PROVE t[i] = s[i + 1]
    OBVIOUS
  <2>1. i \in 1..((i - 1) + (n - i)) /\ ~(i <= i - 1) /\ i - (i - 1) = 1
    BY <1>1
  <2>2. t[i] = back[i - (i - 1)]
    BY <1>2, <1>3, <1>5, <2>1, Zenon
  <2> QED
    BY <1>3, <2>1, <2>2, Zenon
<1>9. Len(s) - 1 <= MaxJournalRecords
  BY <1>1 DEF n
<1> QED
  BY <1>5, <1>6, <1>7, <1>8, <1>9, Zenon DEF n, t

(* Damage is possible only while no host uses the file. *)
LEMMA DamageKeeps ==
  ASSUME JournalInv, LockInv', Damage
  PROVE  JournalInv'
<1>1. /\ JournalType /\ UNCHANGED <<pc, storage, history, tail>> /\ harmed' = TRUE
      /\ \A h \in Hosts : pc[h] # "owner"
  BY DEF JournalInv, Damage, lockVars, Writers
<1>2. file' \in Seq(Seq(Facts)) /\ Len(file') <= MaxJournalRecords
  <2>1. PICK i \in DOMAIN file :
          \/ file' = [file EXCEPT ![i] = <<>>]
          \/ file' = SubSeq(file, 1, i - 1) \o SubSeq(file, i + 1, Len(file))
    BY DEF Damage
  <2>2. file \in Seq(Seq(Facts)) /\ Len(file) \in Nat /\ Len(file) <= MaxJournalRecords
        /\ i \in 1..Len(file)
    BY <1>1 DEF JournalType
  <2>3. CASE file' = [file EXCEPT ![i] = <<>>]
    BY <2>2, <2>3, EmptyFits
  <2>4. CASE file' = SubSeq(file, 1, i - 1) \o SubSeq(file, i + 1, Len(file))
    BY <2>2, <2>4, OneOut DEF Without
  <2> QED
    BY <2>1, <2>3, <2>4
<1>3. JournalType'
  BY <1>1, <1>2 DEF JournalType
<1>4. OwnJournalLoads' /\ MemoryIsDegraded' /\ DiskMeansDisk' /\ DiskLoads'
  BY <1>1 DEF JournalInv, OwnJournalLoads, MemoryIsDegraded, DiskMeansDisk, DiskLoads
<1> QED
  BY <1>3, <1>4 DEF JournalInv

LEMMA JournalStep ==
  ASSUME JournalInv, LockInv', NEW h \in Hosts, HostStep(h)
  PROVE  JournalInv'
<1>1. CASE Contend(h)
  BY <1>1, ContendKeeps
<1>2. CASE End(h) /\ UNCHANGED tail
  BY <1>2, EndKeeps
<1>3. CASE Load(h)
  BY <1>3, LoadKeeps
<1>4. CASE Quarantine(h)
  BY <1>4, QuarantineKeeps
<1>5. ASSUME NEW fact \in Facts, EndsWhileAppending(h, fact)
      PROVE  JournalInv'
  <2>1. pc[h] = "owner"
    BY <1>5, ReadyOwns DEF EndsWhileAppending
  <2> QED
    BY <1>5, <2>1, EndKeeps DEF EndsWhileAppending
<1> QED
  BY <1>1, <1>2, <1>3, <1>4, <1>5, MemoryKeeps, AppendKeeps, FailureKeeps
     DEF HostStep

LEMMA JournalStutter ==
  ASSUME JournalInv, LockInv', UNCHANGED hostVars
  PROVE  JournalInv'
<1>1. UNCHANGED <<pc, history, storage, file, tail, harmed>>
  BY DEF hostVars, lockVars, journalVars
<1> QED
  BY <1>1 DEF JournalInv, JournalType, MemoryIsDegraded, DiskMeansDisk, DiskLoads,
              OwnJournalLoads

(* Every reachable state of an orderly set of hosts satisfies the          *)
(* journal's invariant, and each step finds the lock's invariant on both   *)
(* sides of it.                                                            *)
THEOREM JournalInvariant == ASSUME Orderly PROVE JournalSpec => []JournalInv
<1>1. JournalInv /\ [JournalNext]_hostVars => JournalInv'
  <2> SUFFICES ASSUME JournalInv, [JournalNext]_hostVars PROVE JournalInv'
    OBVIOUS
  <2>1. LockInv'
    BY JournalKeepsLock DEF JournalInv
  <2> QED
    BY <2>1, JournalStep, DamageKeeps, JournalStutter DEF JournalNext
<1> QED
  BY <1>1, JournalBegins, PTL DEF JournalSpec

(* JournalTypeOK of the journal, for any number of hosts, facts and records. *)
THEOREM JournalTypeHolds == ASSUME Orderly PROVE JournalSpec => []JournalTypeOK
<1>1. JournalInv => JournalTypeOK
  BY DEF JournalInv, JournalType, LockInv, JournalTypeOK
<1> QED
  BY <1>1, JournalInvariant, PTL

(* DiskMeansDisk: a ledger that calls itself durable holds exactly what    *)
(* the file holds, and no half-written line stands behind it.              *)
THEOREM DiskMeansDiskAlways == ASSUME Orderly PROVE JournalSpec => []DiskMeansDisk
<1>1. JournalInv => DiskMeansDisk
  BY DEF JournalInv
<1> QED
  BY <1>1, JournalInvariant, PTL

(* OwnJournalLoads: unless the file was harmed, what the hosts wrote loads *)
(* whatever they recorded and wherever they ended.                         *)
THEOREM OwnJournalLoadsAlways == ASSUME Orderly PROVE JournalSpec => []OwnJournalLoads
<1>1. JournalInv => OwnJournalLoads
  BY DEF JournalInv
<1> QED
  BY <1>1, JournalInvariant, PTL

-----------------------------------------------------------------------------
(* The journal implements the durable log.                                 *)

(* No fact of the history contradicts an earlier one. *)
Consistent(facts) ==
  \A i, j \in 1..Len(facts) :
    i < j /\ SameIdentity(facts[i], facts[j]) => Supersedes(facts[i], facts[j])

(* What came after what came after a fact may come after that fact. *)
LEMMA SupersedesOnward ==
  ASSUME NEW f \in Facts, NEW g \in Facts, NEW k \in Facts,
         SameIdentity(f, g), SameIdentity(g, k), Supersedes(f, g), Supersedes(g, k)
  PROVE  Supersedes(f, k)
<1>1. f.kind = g.kind /\ g.kind = k.kind
  BY DEF SameIdentity
<1>2. CASE k.kind = "plan-revision"
  BY <1>1, <1>2 DEF Supersedes
<1>3. CASE k.kind = "execution-snapshot"
  <2>1. /\ f.value \in Status!ExecutionStatus /\ g.value \in Status!ExecutionStatus
        /\ f.value \notin Status!TerminalExecution /\ g.value \notin Status!TerminalExecution
        /\ g.value \in Status!ExecutionTransitions[f.value]
        /\ k.value \in Status!ExecutionTransitions[g.value]
    BY <1>1, <1>3, SnapshotType DEF Supersedes
  <2>2. k.value \in Status!ExecutionTransitions[f.value]
    BY <2>1 DEF Status!ExecutionTransitions, Status!ExecutionStatus, Status!TerminalExecution
  <2> QED
    BY <1>3, <2>1, <2>2 DEF Supersedes
<1> QED
  BY <1>2, <1>3 DEF Supersedes

(* The latest version is the one that stands last. *)
LEMMA LatestIs ==
  ASSUME NEW facts \in Seq(Facts), NEW fact, Versions(facts, fact) # {}
  PROVE  \E m \in Versions(facts, fact) :
           /\ \A i \in Versions(facts, fact) : i <= m
           /\ Latest(facts, fact) = facts[m]
<1> DEFINE V == Versions(facts, fact)
           Above == {n \in Nat : \A i \in V : i <= n}
<1>1. V \subseteq 1..Len(facts) /\ Len(facts) \in Nat
  BY DEF Versions
<1>2. Len(facts) \in Above
  BY <1>1
<1> HIDE DEF V
<1>3. PICK n \in Above : \A k \in Above : n <= k
  <2>1. Above \subseteq Nat /\ Above # {}
    BY <1>2
  <2> HIDE DEF Above
  <2> QED
    BY <2>1, LeastNumber
<1>4. n \in V
  <2> SUFFICES ASSUME n \notin V PROVE FALSE
    OBVIOUS
  <2>1. PICK i \in V : TRUE
    BY DEF V
  <2>2. i \in Nat \ {0} /\ i <= n /\ n \in Nat
    BY <1>1, <2>1
  <2>3. n - 1 \in Nat /\ ~(n <= n - 1)
    BY <2>2
  <2>4. \A j \in V : j <= n - 1
    BY <1>1
  <2> QED
    BY <1>3, <2>3, <2>4
<1>5. \E m \in V : \A i \in V : i <= m
  BY <1>3, <1>4
<1>6. Latest(facts, fact) = facts[CHOOSE m \in V : \A i \in V : i <= m]
  BY DEF Latest, V
<1> QED
  BY <1>5, <1>6 DEF V

(* A fact that is admitted contradicts none that the history holds. *)
LEMMA AdmissibleFollows ==
  ASSUME NEW facts \in Seq(Facts), NEW fact \in Facts, Consistent(facts),
         Admissible(facts, fact), NEW i \in 1..Len(facts),
         SameIdentity(facts[i], fact)
  PROVE  Supersedes(facts[i], fact)
<1>1. i \in Versions(facts, fact)
  BY DEF Versions
<1>2. PICK m \in Versions(facts, fact) :
        (\A k \in Versions(facts, fact) : k <= m) /\ Latest(facts, fact) = facts[m]
  BY <1>1, LatestIs
<1>3. Supersedes(facts[m], fact)
  BY <1>1, <1>2 DEF Admissible
<1>4. m \in 1..Len(facts) /\ SameIdentity(facts[m], fact) /\ facts[m] \in Facts
      /\ facts[i] \in Facts /\ i <= m
  BY <1>1, <1>2 DEF Versions
<1>5. CASE i = m
  BY <1>3, <1>5
<1>6. CASE i < m
  <2>1. SameIdentity(facts[i], facts[m])
    BY <1>4 DEF SameIdentity
  <2>2. Supersedes(facts[i], facts[m])
    BY <1>4, <1>6, <2>1 DEF Consistent
  <2> QED
    BY <1>3, <1>4, <2>1, <2>2, SupersedesOnward
<1> QED
  BY <1>4, <1>5, <1>6

(* What can be loaded is consistent: the facts are admitted one by one. *)
LEMMA LoadableConsistent ==
  ASSUME NEW facts \in Seq(Facts),
         \A i \in 1..Len(facts) : Admissible(SubSeq(facts, 1, i - 1), facts[i])
  PROVE  Consistent(facts)
<1> DEFINE Upto(n) == \A i, j \in 1..n :
             i < j /\ SameIdentity(facts[i], facts[j]) => Supersedes(facts[i], facts[j])
           Q == {n \in Nat : n <= Len(facts) => Upto(n)}
<1>1. 0 \in Q
  OBVIOUS
<1>2. ASSUME NEW n \in Nat, n \in Q PROVE n + 1 \in Q
  <2> SUFFICES ASSUME n + 1 <= Len(facts), NEW i \in 1..(n + 1), NEW j \in 1..(n + 1),
                      i < j, SameIdentity(facts[i], facts[j])
               PROVE  Supersedes(facts[i], facts[j])
    OBVIOUS
  <2>1. Len(facts) \in Nat
    OBVIOUS
  <2>2. Upto(n) /\ n \in 0..Len(facts) /\ n + 1 \in 1..Len(facts) /\ i \in 1..n
        /\ (j \in 1..n \/ j = n + 1) /\ (n + 1) - 1 = n
    BY <1>2, <2>1
  <2>3. CASE j \in 1..n
    BY <2>2, <2>3
  <2>4. CASE j = n + 1
    <3> DEFINE front == SubSeq(facts, 1, n)
    <3>1. front \in Seq(Facts) /\ Len(front) = n /\ \A k \in 1..n : front[k] = facts[k]
      BY <2>2, PrefixIs
    <3>2. Admissible(front, facts[n + 1])
      BY <2>2
    <3>3. facts[n + 1] \in Facts
      BY <2>2
    <3> HIDE DEF front
    <3>4. Consistent(front)
      BY <2>2, <3>1 DEF Consistent
    <3>5. i \in 1..Len(front) /\ SameIdentity(front[i], facts[n + 1])
      BY <2>2, <2>4, <3>1
    <3>6. Supersedes(front[i], facts[n + 1])
      BY <3>1, <3>2, <3>3, <3>4, <3>5, AdmissibleFollows
    <3> QED
      BY <2>2, <2>4, <3>1, <3>6
  <2> QED
    BY <2>2, <2>3, <2>4
<1>3. Len(facts) \in Q
  <2> HIDE DEF Q
  <2>1. \A n \in Nat : n \in Q
    BY <1>1, <1>2, NumberInduction
  <2> QED
    BY <2>1
<1> QED
  BY <1>3 DEF Consistent

LEMMA RestorableIs ==
  ASSUME JournalType
  PROVE  Replayed \in Seq(Facts) /\ Consistent(Replayed)
<1>1. CASE ~Loadable(file)
  BY <1>1, EmptyFits DEF Replayed, Consistent
<1>2. CASE Loadable(file)
  <2>1. /\ Replayed = FactsIn(file) /\ FactsIn(file) \in Seq(Facts)
        /\ Len(FactsIn(file)) = Len(file)
    BY <1>2, LoadableIs DEF Replayed, JournalType
  <2>2. \A i \in 1..Len(FactsIn(file)) :
          Admissible(SubSeq(FactsIn(file), 1, i - 1), FactsIn(file)[i])
    BY <1>2, <2>1 DEF Loadable
  <2> QED
    BY <2>1, <2>2, LoadableConsistent
<1> QED
  BY <1>1, <1>2

LEMMA AppendGrows ==
  ASSUME JournalInv, LockInv', NEW h \in Hosts, NEW fact \in Facts,
         AppendRecord(h, fact)
  PROVE  Promise!Grow
<1>1. /\ Loadable(file) /\ FactsIn(file) = history[h] /\ Admissible(history[h], fact)
      /\ Loadable(file') /\ FactsIn(file') = Append(history[h], fact)
      /\ UNCHANGED harmed
  BY AppendKeeps
<1>2. Replayed = history[h] /\ Replayed' = Append(Replayed, fact)
  BY <1>1 DEF Replayed
<1>3. Replayed \in Seq(Facts) /\ Consistent(Replayed)
  BY RestorableIs DEF JournalInv
<1> HIDE DEF Replayed
<1>4. \A i \in DOMAIN Replayed :
        SameIdentity(Replayed[i], fact) => Supersedes(Replayed[i], fact)
  <2>1. DOMAIN Replayed = 1..Len(Replayed)
    BY <1>3
  <2> QED
    BY <1>1, <1>2, <1>3, <2>1, AdmissibleFollows
<1> QED
  <2>1. \A f, g : Promise!SameIdentity(f, g) <=> SameIdentity(f, g)
    BY DEF Promise!SameIdentity, SameIdentity
  <2>2. \A f, g : Supersedes(f, g) => Promise!Supersedes(f, g)
    BY DEF Promise!Supersedes, Supersedes, Status!TerminalExecution,
       Promise!Status!TerminalExecution, Status!ExecutionTransitions,
       Promise!Status!ExecutionTransitions, Status!ExecutionStatus,
       Promise!Status!ExecutionStatus
  <2> QED
    BY <1>1, <1>2, <1>4, <2>1, <2>2 DEF Promise!Grow

LEMMA NothingIsAPrefix ==
  ASSUME NEW facts \in Seq(Facts)
  PROVE  Promise!IsPrefixOf(<<>>, facts) /\ Promise!IsPrefixOf(facts, facts)
  BY DEF Promise!IsPrefixOf

LEMMA QuarantineSuffers ==
  ASSUME JournalInv, LockInv', NEW h \in Hosts, Quarantine(h)
  PROVE  Promise!Suffer
<1>1. harmed' = TRUE
  <2>1. harmed' \in BOOLEAN /\ harmed'
    BY QuarantineKeeps DEF JournalInv, JournalType
  <2> QED
    BY <2>1
<1>2. CASE file' = <<>>
  <2>1. Replayed' = <<>>
    BY <1>2, NothingLoads DEF Replayed
  <2>2. Replayed \in Seq(Facts)
    BY RestorableIs DEF JournalInv
  <2> QED
    BY <1>1, <2>1, <2>2, NothingIsAPrefix DEF Promise!Suffer
<1>3. CASE UNCHANGED file
  <2>1. Replayed' = Replayed
    BY <1>3 DEF Replayed
  <2>2. Replayed \in Seq(Facts)
    BY RestorableIs DEF JournalInv
  <2> QED
    BY <1>1, <2>1, <2>2, NothingIsAPrefix DEF Promise!Suffer
<1> QED
  BY <1>2, <1>3 DEF Quarantine

(* A line that is missing or unreadable inside the file breaks the chain;  *)
(* only the last one can be lost unnoticed.                                *)
LEMMA DamageSuffers ==
  ASSUME JournalInv, JournalInv', Damage
  PROVE  Promise!Suffer
<1>1. harmed' = TRUE /\ ~harmed
  BY DEF Damage
<1>2. file \in Seq(Seq(Facts)) /\ file' \in Seq(Seq(Facts)) /\ Len(file) <= MaxJournalRecords
  BY DEF JournalInv, JournalType
<1>3. Loadable(file)
  BY <1>1 DEF JournalInv, OwnJournalLoads
<1> DEFINE facts == FactsIn(file)
           left == FactsIn(file')
<1>4. /\ Replayed = facts /\ facts \in Seq(Facts) /\ file = Lines(facts)
      /\ Len(facts) = Len(file) /\ \A i \in 1..Len(file) : Len(file[i]) = i
      /\ \A i \in 1..Len(file) : file[i] = SubSeq(facts, 1, i)
  <2>1. /\ facts \in Seq(Facts) /\ file = Lines(facts)
        /\ Len(facts) = Len(file) /\ \A i \in 1..Len(file) : Len(file[i]) = i
    BY <1>2, <1>3, LoadableIs
  <2>2. Replayed = facts
    BY <1>3 DEF Replayed
  <2> HIDE DEF facts
  <2>3. \A i \in 1..Len(facts) : Lines(facts)[i] = SubSeq(facts, 1, i)
    BY <2>1, LinesAre
  <2> QED
    BY <2>1, <2>2, <2>3
<1> HIDE DEF facts
<1>5. CASE ~Loadable(file')
  <2>1. Replayed' = <<>>
    BY <1>5 DEF Replayed
  <2> QED
    BY <1>1, <1>4, <2>1, NothingIsAPrefix DEF Promise!Suffer
<1>6. CASE Loadable(file')
  <2>1. /\ left \in Seq(Facts) /\ Len(left) = Len(file')
        /\ \A i \in 1..Len(file') : Len(file'[i]) = i
    BY <1>2, <1>6, LoadableIs
  <2>2. Replayed' = left
    BY <1>6 DEF Replayed
  <2>3. PICK i \in DOMAIN file :
          \/ file' = [file EXCEPT ![i] = <<>>]
          \/ file' = SubSeq(file, 1, i - 1) \o SubSeq(file, i + 1, Len(file))
    BY DEF Damage
  <2>4. i \in 1..Len(file) /\ Len(file) \in Nat
    BY SMTT(30), <1>2, <2>3
  <2>5. ASSUME file' = [file EXCEPT ![i] = <<>>] PROVE FALSE
    <3>1. file'[i] = <<>> /\ Len(file') = Len(file)
      BY <1>2, <2>4, <2>5
    <3>2. Len(file'[i]) = i
      BY <2>1, <2>4, <3>1
    <3>3. i = 0
      BY <3>1, <3>2, EmptyFits
    <3> QED
      BY <2>4, <3>3
  <2>6. /\ Len(file') = Len(file) - 1
        /\ \A j \in 1..(i - 1) : file'[j] = file[j]
        /\ i < Len(file) => file'[i] = file[i + 1]
    <3>1. file' = SubSeq(file, 1, i - 1) \o SubSeq(file, i + 1, Len(file))
      BY <2>3, <2>5
    <3> QED
      <4>1. file' = Without(file, i)
        BY <3>1 DEF Without
      <4> QED
        BY <1>2, <2>4, <4>1, OneOut
  <2>7. i = Len(file)
    <3> SUFFICES ASSUME i < Len(file) PROVE FALSE
      BY <2>4
    <3>1. file'[i] = file[i + 1]
      BY <2>6
    <3>2. i \in 1..Len(file') /\ i + 1 \in 1..Len(file) /\ i # i + 1
      BY <2>4, <2>6
    <3>3. Len(file'[i]) = i /\ Len(file[i + 1]) = i + 1
      BY <1>4, <2>1, <3>2
    <3> QED
      BY <3>1, <3>2, <3>3
  <2>8. \A j \in 1..Len(left) : left[j] = facts[j]
    <3>1. CASE i = 1
      <4>1. Len(left) = 0
        BY <2>1, <2>4, <2>6, <2>7, <3>1
      <4> QED
        BY <4>1
    <3>2. CASE i > 1
      <4>1. Len(file') = i - 1 /\ i - 1 \in 1..(i - 1) /\ i - 1 \in 1..Len(file)
            /\ i - 1 \in 0..Len(facts) /\ Len(file') # 0
        BY <1>4, <2>4, <2>6, <2>7, <3>2
      <4>2. file'[i - 1] = SubSeq(facts, 1, i - 1)
        BY <1>4, <2>6, <4>1
      <4>3. left = file'[Len(file')]
        BY <4>1, EmptyFits DEF FactsIn
      <4>4. left = SubSeq(facts, 1, i - 1)
        BY <4>1, <4>2, <4>3
      <4> HIDE DEF left
      <4> QED
        BY <1>4, <4>1, <4>4, PrefixIs
    <3> QED
      BY <2>4, <3>1, <3>2
  <2>9. Len(left) <= Len(facts)
    BY <1>4, <2>1, <2>4, <2>6
  <2> QED
    BY <1>1, <1>4, <2>2, <2>8, <2>9 DEF Promise!Suffer, Promise!IsPrefixOf
<1> QED
  BY <1>5, <1>6

LEMMA JournalStepMaps ==
  ASSUME JournalInv, JournalInv', NEW h \in Hosts, HostStep(h)
  PROVE  Promise!Next \/ UNCHANGED <<Replayed, harmed>>
<1>1. ASSUME UNCHANGED <<file, harmed>> PROVE UNCHANGED <<Replayed, harmed>>
  BY <1>1 DEF Replayed
<1>2. LockInv'
  BY DEF JournalInv
<1>3. CASE Contend(h) \/ End(h) \/ Load(h)
  BY <1>1, <1>3 DEF Contend, End, Load
<1>4. CASE Quarantine(h)
  BY <1>2, <1>4, QuarantineSuffers DEF Promise!Next
<1>5. ASSUME NEW fact \in Facts, AppendRecord(h, fact)
      PROVE  Promise!Next
  BY <1>2, <1>5, AppendGrows DEF Promise!Next
<1>6. ASSUME NEW fact \in Facts,
             RecordInMemory(h, fact) \/ AppendFails(h, fact) \/ EndsWhileAppending(h, fact)
      PROVE  UNCHANGED <<Replayed, harmed>>
  BY <1>1, <1>6 DEF RecordInMemory, AppendFails, EndsWhileAppending, End
<1> QED
  BY <1>3, <1>4, <1>5, <1>6 DEF HostStep

(* JournalIsDurable: the lock and the journal implement the durable log.   *)
(* What a restart would bring back grows by facts that contradict no       *)
(* earlier one, and shrinks, from the end, only where the storage was      *)
(* harmed.                                                                 *)
THEOREM JournalImplementsLog == ASSUME Orderly PROVE JournalSpec => JournalIsDurable
<1>1. JournalInit => Promise!Init
  <2> SUFFICES ASSUME JournalInit PROVE Promise!Init
    OBVIOUS
  <2>1. file = <<>> /\ harmed = FALSE
    BY DEF JournalInit
  <2>2. Replayed = <<>>
    BY <2>1, NothingLoads DEF Replayed
  <2> QED
    BY <2>1, <2>2 DEF Promise!Init
<1>2. ASSUME JournalInv, JournalInv', [JournalNext]_hostVars
      PROVE  [Promise!Next]_<<Replayed, harmed>>
  <2>1. CASE Damage
    BY <1>2, <2>1, DamageSuffers DEF Promise!Next
  <2>2. CASE UNCHANGED hostVars
    BY <2>2 DEF hostVars, journalVars, Replayed
  <2> QED
    BY <1>2, <2>1, <2>2, JournalStepMaps DEF JournalNext
<1>3. JournalSpec => []JournalInv
  BY JournalInvariant
<1> QED
  BY <1>1, <1>2, <1>3, PTL DEF JournalSpec, JournalIsDurable, Promise!Spec

-----------------------------------------------------------------------------
(* The revisions of a plan.                                                *)

Sorts(list, order, m) ==
  \A j, k \in 1..m : j < k => Before(list, order[j], order[k])

LEMMA BeforeOrders ==
  ASSUME NEW list \in Seq(Revision),
         NEW i \in 1..Len(list), NEW j \in 1..Len(list), NEW k \in 1..Len(list)
  PROVE  /\ ~Before(list, i, i)
         /\ i = j \/ Before(list, i, j) \/ Before(list, j, i)
         /\ Before(list, i, j) /\ Before(list, j, k) => Before(list, i, k)
<1>1. \A x \in 1..Len(list) : list[x] \in Revision
  OBVIOUS
<1>2. \A x \in 1..Len(list) : list[x].at \in Nat
  BY <1>1, MaxClockType DEF Revision
<1> QED
  BY <1>2 DEF Before

(* Insertion of one more revision into those that are in order. *)
LEMMA OrderGrows ==
  ASSUME NEW list \in Seq(Revision), NEW m \in Nat, m + 1 <= Len(list),
         NEW order \in [1..m -> 1..m], Sorts(list, order, m)
  PROVE  \E more \in [1..(m + 1) -> 1..(m + 1)] : Sorts(list, more, m + 1)
<1> DEFINE Later == {k \in 1..m : Before(list, m + 1, order[k])} \cup {m + 1}
<1>1. PICK p \in Later : \A k \in Later : p <= k
  <2>1. Later \subseteq Nat /\ Later # {}
    OBVIOUS
  <2> HIDE DEF Later
  <2> QED
    BY <2>1, LeastNumber
<1>2. p \in 1..(m + 1)
  OBVIOUS
<1> DEFINE more == [k \in 1..(m + 1) |-> IF k < p THEN order[k]
                                         ELSE IF k = p THEN m + 1 ELSE order[k - 1]]
<1>3. more \in [1..(m + 1) -> 1..(m + 1)]
  BY <1>2
<1>4. \A k \in 1..m : order[k] \in 1..Len(list) /\ order[k] # m + 1
  OBVIOUS
<1>5. m + 1 \in 1..Len(list)
  OBVIOUS
<1>6. \A k \in 1..m : k < p => Before(list, order[k], m + 1)
  BY <1>1, <1>4, <1>5, BeforeOrders
<1>7. \A k \in 1..m : k >= p => Before(list, m + 1, order[k])
  <2>1. SUFFICES ASSUME NEW k \in 1..m, k >= p PROVE Before(list, m + 1, order[k])
    OBVIOUS
  <2>2. p \in 1..m /\ Before(list, m + 1, order[p])
    BY <1>1, <1>2, <2>1
  <2>3. p = k \/ Before(list, order[p], order[k])
    BY <2>1, <2>2 DEF Sorts
  <2> QED
    BY <1>4, <1>5, <2>2, <2>3, BeforeOrders
<1>8. ASSUME NEW j \in 1..(m + 1), NEW k \in 1..(m + 1), j < k
      PROVE  Before(list, more[j], more[k])
  <2>1. CASE k < p
    BY <1>2, <1>8, <2>1 DEF Sorts
  <2>2. CASE k = p
    BY <1>2, <1>6, <1>8, <2>2
  <2>3. CASE k > p /\ j < p
    BY <1>2, <1>8, <2>3 DEF Sorts
  <2>4. CASE k > p /\ j = p
    <3>1. k - 1 \in 1..m /\ k - 1 >= p
      BY <1>2, <2>4
    <3> QED
      BY <1>2, <1>7, <2>4, <3>1
  <2>5. CASE k > p /\ j > p
    <3>1. k - 1 \in 1..m /\ j - 1 \in 1..m /\ j - 1 < k - 1
      BY <1>2, <1>8, <2>5
    <3> QED
      BY <1>2, <2>5, <3>1 DEF Sorts
  <2> QED
    BY <1>2, <2>1, <2>2, <2>3, <2>4, <2>5
<1> HIDE DEF more
<1> QED
  BY <1>3, <1>8 DEF Sorts

LEMMA ListedSorts ==
  ASSUME NEW list \in Seq(Revision)
  PROVE  /\ Listed(list) \in [1..Len(list) -> 1..Len(list)]
         /\ Sorts(list, Listed(list), Len(list))
<1> DEFINE Q == {m \in Nat : m <= Len(list) =>
                    \E order \in [1..m -> 1..m] : Sorts(list, order, m)}
<1>1. 0 \in Q
  <2> DEFINE order == [k \in 1..0 |-> k]
  <2>1. order \in [1..0 -> 1..0] /\ Sorts(list, order, 0)
    BY DEF Sorts
  <2> HIDE DEF order
  <2> QED
    BY <2>1
<1>2. ASSUME NEW m \in Nat, m \in Q
      PROVE  m + 1 \in Q
  BY SMTT(30), <1>2, OrderGrows
<1>3. Len(list) \in Q
  <2> HIDE DEF Q
  <2> QED
    BY <1>1, <1>2, NumberInduction
<1>4. \E order \in [1..Len(list) -> 1..Len(list)] : Sorts(list, order, Len(list))
  BY <1>3
<1> QED
  BY <1>4 DEF Sorts, Listed

(* Every revision is listed. *)
LEMMA ListedIsWhole ==
  ASSUME NEW list \in Seq(Revision)
  PROVE  /\ Listed(list) \in Seq(1..Len(list)) /\ Len(Listed(list)) = Len(list)
         /\ \A n \in 1..Len(list) : \E k \in 1..Len(list) : Listed(list)[k] = n
<1> DEFINE L == Len(list)
           order == Listed(list)
<1>1. order \in [1..L -> 1..L] /\ Sorts(list, order, L) /\ L \in Nat
  BY ListedSorts
<1>2. order \in Injection(1..L, 1..L)
  BY <1>1, BeforeOrders DEF Sorts, Injection, IsInjective
<1>3. IsFiniteSet(1..L)
  <2> HIDE DEF L
  <2> QED
    BY <1>1, FS_Interval
<1> HIDE DEF L, order
<1>4. order \in Surjection(1..L, 1..L)
  BY <1>2, <1>3, FS_Injection
<1>5. \A n \in 1..L : \E k \in 1..L : order[k] = n
  BY <1>4 DEF Surjection
<1>6. order \in Seq(1..L) /\ Len(order) = L
  BY <1>1
<1> QED
  BY <1>5, <1>6 DEF L, order

(* Revisions that were changed in the order of their numbers are listed    *)
(* from the latest to the first.                                           *)
Rising(list) == \A m, n \in 1..Len(list) : m <= n => list[m].at <= list[n].at

Downward(list) == \A k \in 1..Len(list) : list[k] = Len(list) + 1 - k

LEMMA ListedDescends ==
  ASSUME NEW list \in Seq(Revision), Rising(list)
  PROVE  Downward(Listed(list))
<1> DEFINE L == Len(list)
           order == Listed(list)
<1>1. order \in [1..L -> 1..L] /\ Sorts(list, order, L) /\ L \in Nat
  BY ListedSorts
<1>2. \A x \in 1..L : list[x].at \in Nat
  <2>1. \A x \in 1..L : list[x] \in Revision
    OBVIOUS
  <2> QED
    BY <2>1, MaxClockType DEF Revision
<1>3. \A a, b \in 1..L : Before(list, a, b) => a > b
  BY <1>1, <1>2 DEF Before, Rising
<1>4. Len(order) = L
  BY ListedIsWhole
<1> HIDE DEF L, order
<1>5. \A j, k \in 1..L : j < k => order[j] > order[k]
  BY <1>1, <1>3 DEF Sorts
<1> DEFINE High == {i \in Nat : i < L => order[i + 1] <= L - i}
           Low  == {i \in Nat : i < L => order[L - i] >= i + 1}
<1>6. 0 \in High /\ 0 \in Low
  BY <1>1
<1>7. ASSUME NEW i \in Nat, i \in High, i + 1 < L
      PROVE  order[(i + 1) + 1] <= L - (i + 1)
  <2>1. i + 1 \in 1..L /\ (i + 1) + 1 \in 1..L /\ i < L
    BY <1>1, <1>7
  <2>2. order[i + 1] <= L - i
    BY <1>7, <2>1
  <2>3. order[i + 1] \in Nat /\ order[(i + 1) + 1] \in Nat /\ order[i + 1] > order[(i + 1) + 1]
    BY SMTT(30), <1>1, <1>5, <2>1
  <2> QED
    BY <1>1, <2>2, <2>3
<1>8. ASSUME NEW i \in Nat, i \in Low, i + 1 < L
      PROVE  order[L - (i + 1)] >= (i + 1) + 1
  <2>1. L - (i + 1) \in 1..L /\ L - i \in 1..L /\ i < L
    BY <1>1, <1>8
  <2>2. order[L - i] >= i + 1
    BY <1>8, <2>1
  <2>3. order[L - i] \in Nat /\ order[L - (i + 1)] \in Nat
    BY SMTT(30), <1>1, <2>1
  <2>4. L - (i + 1) < L - i
    BY <1>1
  <2>5. order[L - (i + 1)] > order[L - i]
    BY <1>5, <2>1, <2>4
  <2> QED
    BY <1>1, <2>2, <2>3, <2>5
<1>9. \A i \in Nat : i \in High /\ i \in Low
  <2>1. \A i \in Nat : i \in High => i + 1 \in High
    BY <1>7
  <2>2. \A i \in Nat : i \in Low => i + 1 \in Low
    BY <1>8
  <2> HIDE DEF High, Low
  <2> QED
    BY <1>6, <2>1, <2>2, NumberInduction
<1>10. ASSUME NEW k \in 1..L PROVE order[k] = L + 1 - k
  <2>0. k - 1 \in Nat /\ L - k \in Nat /\ k - 1 < L /\ L - k < L
    BY <1>1
  <2>1. k - 1 \in High /\ L - k \in Low
    BY <1>9, <2>0
  <2>2. order[(k - 1) + 1] <= L - (k - 1)
    BY <2>0, <2>1
  <2>3. order[L - (L - k)] >= (L - k) + 1
    BY <2>0, <2>1
  <2>4. (k - 1) + 1 = k /\ L - (L - k) = k /\ order[k] \in Nat
    BY <1>1
  <2>5. order[k] <= L - (k - 1) /\ order[k] >= (L - k) + 1
    BY <2>2, <2>3, <2>4
  <2>6. \A o \in Nat : o <= L - (k - 1) /\ o >= (L - k) + 1 => o = L + 1 - k
    BY <1>1
  <2> QED
    BY <2>4, <2>5, <2>6
<1> QED
  BY <1>4, <1>10 DEF Downward, order

-----------------------------------------------------------------------------
(* The invariants.                                                         *)

(* Where a running call stands: every revision it has not yet given to the *)
(* ledger is in its list.                                                  *)
Whole ==
  /\ Idle => persisting = <<>>
  /\ ~Idle => pending \in 1..Len(revisions)
  /\ approval # NoApproval => approval.revision \in 1..Len(revisions)
  /\ \A k \in 1..Len(persisting) : persisting[k] \in 1..Len(revisions)
  /\ \A n \in 1..Len(revisions) :
       Idle \/ ledger[n] = revisions[n] \/ \E k \in 1..Len(persisting) : persisting[k] = n

StoreInv == StoreTypeOK /\ Whole /\ OneOpenDraft /\ AcknowledgedSurvives

(* What holds as long as the clock never stepped back. *)
InOrder ==
  /\ \A n \in 1..Len(revisions) : revisions[n].at <= clock
  /\ Rising(revisions)
  /\ \A m, n \in Recorded : m <= n => ledger[m].at <= ledger[n].at

(* A draft a restart closed, which the ledger does not know yet. *)
Repaired(n) ==
  /\ n < Len(revisions)
  /\ ledger[n].state = "draft"
  /\ revisions[n] = [ledger[n] EXCEPT !.state = "superseded"]

Known ==
  LET L == Len(revisions) IN
  /\ Recorded \subseteq 1..L /\ \A n \in 1..L : n < L => n \in Recorded
  /\ L > Len(persisting) => L \in Recorded
  /\ L > 1 /\ L \notin Recorded => ledger[L - 1].state # "superseded"
  /\ \A n \in Recorded :
       \/ ledger[n] = revisions[n]
       \/ n <= Len(persisting) /\ Transition(ledger[n], revisions[n])
       \/ Idle /\ Repaired(n)

LastIsOpen == revisions # <<>> => revisions[Len(revisions)].state # "superseded"

OrderInv ==
  /\ LastIsOpen
  /\ ~steppedBack =>
       /\ InOrder /\ Known
       /\ Downward(persisting) /\ Len(persisting) <= Len(revisions)

-----------------------------------------------------------------------------
(* Types, and what the ledger may forget: nothing.                         *)

LEMMA NotMissing == \A r \in Revision : r # Missing
  BY DEF Revision, Missing, State

LEMMA IsSequence ==
  ASSUME NEW S, NEW n \in Nat, NEW f \in [1..n -> S]
  PROVE  f \in Seq(S) /\ Len(f) = n
  OBVIOUS

(* What saveDraft makes of the latest revision when it is a draft. *)
Closed(r, now) == [r EXCEPT !.state = "superseded", !.at = now]

LEMMA ClosedFields ==
  ASSUME NEW r \in Revision, NEW now \in 0..MaxClock
  PROVE  /\ Closed(r, now) \in Revision
         /\ Closed(r, now).state = "superseded" /\ Closed(r, now).at = now
         /\ Closed(r, now).content = r.content
  BY DEF Closed, Revision, State

LEMMA SupersedeType ==
  ASSUME NEW list \in Seq(Revision), NEW now \in 0..MaxClock
  PROVE  /\ Supersede(list, now) \in Seq(Revision)
         /\ Len(Supersede(list, now)) = Len(list)
         /\ \A n \in 1..Len(list) :
              Supersede(list, now)[n] =
                IF n = Len(list) /\ list[n].state = "draft"
                THEN Closed(list[n], now) ELSE list[n]
<1>1. \A n \in 1..Len(list) : list[n] \in Revision
  OBVIOUS
<1>2. Supersede(list, now) =
        [n \in 1..Len(list) |->
           IF n = Len(list) /\ list[n].state = "draft"
           THEN Closed(list[n], now) ELSE list[n]]
  BY DEF Supersede, Closed
<1>3. Supersede(list, now) \in [1..Len(list) -> Revision]
  BY <1>1, <1>2, ClosedFields
<1>4. Len(list) \in Nat
  OBVIOUS
<1> QED
  BY <1>2, <1>3, <1>4, IsSequence

LEMMA DraftType ==
  ASSUME NEW content \in Contents, NEW now \in 0..MaxClock
  PROVE  Draft(content, now) \in Revision
  BY DEF Draft, Revision, State

(* What saveDraft commits. *)
Saved(list, content, now) == Append(Supersede(list, now), Draft(content, now))

LEMMA SavedType ==
  ASSUME NEW list \in Seq(Revision), NEW content \in Contents, NEW now \in 0..MaxClock
  PROVE  /\ Saved(list, content, now) \in Seq(Revision)
         /\ Len(Saved(list, content, now)) = Len(list) + 1
         /\ Saved(list, content, now)[Len(list) + 1] = Draft(content, now)
         /\ \A n \in 1..Len(list) :
              Saved(list, content, now)[n] =
                IF n = Len(list) /\ list[n].state = "draft"
                THEN Closed(list[n], now) ELSE list[n]
<1> DEFINE s == Supersede(list, now)
<1>1. /\ s \in Seq(Revision) /\ Len(s) = Len(list)
      /\ Draft(content, now) \in Revision
  BY SupersedeType, DraftType
<1>2. \A n \in 1..Len(list) :
        s[n] = IF n = Len(list) /\ list[n].state = "draft"
               THEN Closed(list[n], now) ELSE list[n]
  BY SupersedeType
<1>3. Saved(list, content, now) = Append(s, Draft(content, now))
  BY DEF Saved
<1> HIDE DEF s
<1>4. /\ Saved(list, content, now) \in Seq(Revision)
      /\ Len(Saved(list, content, now)) = Len(list) + 1
      /\ Saved(list, content, now)[Len(list) + 1] = Draft(content, now)
      /\ \A n \in 1..Len(list) : Saved(list, content, now)[n] = s[n]
  BY <1>1, <1>3
<1> QED
  BY <1>2, <1>4

(* What restore makes of a ledger without a gap. *)
LEMMA RestoredType ==
  ASSUME StoreTypeOK, Restorable
  PROVE  LET k == Cardinality(Recorded) IN
         /\ k \in Nat /\ k <= MaxRevisions /\ Recorded = 1..k
         /\ Restored \in Seq(Revision) /\ Len(Restored) = k
         /\ \A n \in 1..k :
              /\ ledger[n] \in Revision
              /\ Restored[n] = IF ledger[n].state = "draft" /\ n < k
                               THEN [ledger[n] EXCEPT !.state = "superseded"]
                               ELSE ledger[n]
<1> DEFINE k == Cardinality(Recorded)
<1>1. Recorded = 1..k /\ Recorded \subseteq 1..MaxRevisions
  BY DEF Restorable, Recorded, Numbers
<1>2. k \in Nat /\ k <= MaxRevisions
  <2>1. IsFiniteSet(1..MaxRevisions) /\ Cardinality(1..MaxRevisions) = MaxRevisions
    BY FS_Interval, MaxRevisionsType
  <2> QED
    BY <1>1, <2>1, FS_Subset, FS_CardinalityType
<1>3. \A n \in Recorded : ledger[n] \in Revision
  BY DEF StoreTypeOK, Recorded
<1> HIDE DEF k
<1>4. \A n \in 1..k : /\ ledger[n] \in Revision
                      /\ Restored[n] = IF ledger[n].state = "draft" /\ n < k
                                       THEN [ledger[n] EXCEPT !.state = "superseded"]
                                       ELSE ledger[n]
  BY <1>1, <1>2, <1>3 DEF Restored
<1>5. Restored \in [1..k -> Revision]
  <2>1. \A n \in 1..k : Restored[n] \in Revision
    BY <1>4 DEF Revision, State
  <2> QED
    BY <1>1, <2>1 DEF Restored
<1> QED
  BY <1>1, <1>2, <1>4, <1>5 DEF k

(* The revision persisted next. *)
LEMMA NextToPersist ==
  ASSUME StoreTypeOK, Whole, persisting # <<>>
  PROVE  /\ Head(persisting) \in 1..Len(revisions) /\ Head(persisting) \in Numbers
         /\ revisions[Head(persisting)] \in Revision
         /\ Head(persisting) = persisting[1] /\ Len(persisting) \in Nat \ {0}
         /\ Tail(persisting) \in Seq(Numbers) /\ Len(Tail(persisting)) = Len(persisting) - 1
         /\ \A k \in 1..(Len(persisting) - 1) : Tail(persisting)[k] = persisting[k + 1]
<1>1. persisting \in Seq(Numbers) /\ revisions \in Seq(Revision)
  BY DEF StoreTypeOK
<1>2. Len(persisting) \in Nat \ {0} /\ Head(persisting) = persisting[1]
  BY <1>1
<1>3. Head(persisting) \in 1..Len(revisions)
  BY <1>2 DEF Whole
<1> QED
  BY <1>1, <1>2, <1>3

(* A step of the ledger keeps every revision, its content, and everything  *)
(* about an approved one.                                                  *)
LEMMA LedgerKeeps ==
  ASSUME StoreInv, [StoreNext]_storeVars, NEW n \in Numbers, ledger[n] # Missing
  PROVE  /\ ledger'[n] # Missing /\ ledger'[n].content = ledger[n].content
         /\ ledger[n].state = "approved" => ledger'[n] = ledger[n]
<1>1. CASE ledger' = ledger
  BY <1>1
<1>2. CASE Persist
  BY <1>2, NextToPersist, NotMissing DEF StoreInv, StoreTypeOK, Persist, Transition
<1> QED
  BY <1>1, <1>2 DEF StoreNext, storeVars, SaveDraft, AskApproval, Approve, RefuseApproval,
     CapabilitiesChange, PersistThrows, Answer, HostRestarts

LEMMA AcknowledgedKept ==
  ASSUME StoreInv, [StoreNext]_storeVars
  PROVE  AcknowledgedSurvives'
<1>1. ASSUME NEW ack \in acknowledged
      PROVE  LET kept == ledger'[ack.number] IN
             /\ kept # Missing /\ kept.content = ack.revision.content
             /\ ack.revision.state = "approved" => kept = ack.revision
  <2>1. ack.number \in Numbers /\ ledger[ack.number] # Missing
    BY DEF StoreInv, StoreTypeOK, AcknowledgedSurvives
  <2> QED
    BY <2>1, LedgerKeeps DEF StoreInv, AcknowledgedSurvives
<1>2. CASE acknowledged' = acknowledged
  BY <1>1, <1>2 DEF AcknowledgedSurvives
<1>3. CASE Answer
  <2>1. /\ pending \in 1..Len(revisions) /\ ledger[pending] = revisions[pending]
        /\ revisions[pending] \in Revision /\ ledger' = ledger
    BY <1>3 DEF StoreInv, StoreTypeOK, Whole, Answer, Idle
  <2> QED
    BY <1>1, <1>3, <2>1, NotMissing DEF Answer, AcknowledgedSurvives
<1> QED
  BY <1>2, <1>3 DEF StoreNext, storeVars, SaveDraft, AskApproval, Approve, RefuseApproval,
     CapabilitiesChange, Persist, PersistThrows, HostRestarts

LEMMA Elements ==
  ASSUME NEW S, NEW T, S \subseteq T, NEW s \in Seq(S)
  PROVE  s \in Seq(T) /\ Len(s) \in Nat /\ \A k \in 1..Len(s) : s[k] \in S
  OBVIOUS

(* A call that changed the repository will tell the ledger every revision. *)
LEMMA CommitWhole ==
  ASSUME StoreTypeOK, NEW list \in Seq(Revision), NEW number \in 1..Len(list),
         NEW now \in 0..MaxClock, Len(list) <= MaxRevisions,
         Commit(list, number, now),
         approval' = NoApproval \/ (approval' = approval /\ Len(revisions) <= Len(list)
                                     /\ Whole),
         UNCHANGED <<ledger, capabilities, acknowledged>>
  PROVE  StoreTypeOK' /\ Whole'
<1>1. /\ persisting' \in Seq(1..Len(list)) /\ Len(persisting') = Len(list)
      /\ \A n \in 1..Len(list) : \E k \in 1..Len(list) : persisting'[k] = n
  BY ListedIsWhole DEF Commit
<1>2. 1..Len(list) \subseteq Numbers /\ Len(list) \in Nat
  BY MaxRevisionsType DEF Numbers
<1>3. persisting' \in Seq(Numbers) /\ \A k \in 1..Len(persisting') : persisting'[k] \in 1..Len(list)
  BY <1>1, <1>2, Elements
<1>4. StoreTypeOK'
  BY <1>2, <1>3 DEF StoreTypeOK, Commit, NoApproval, Numbers
<1>5. approval' # NoApproval => approval'.revision \in 1..Len(list)
  BY <1>2 DEF Whole, StoreTypeOK
<1> QED
  BY <1>1, <1>2, <1>3, <1>4, <1>5 DEF Whole, Commit, Idle

LEMMA SaveDraftKeeps ==
  ASSUME StoreInv, NEW expected \in 0..MaxRevisions, NEW content \in Contents,
         NEW now \in 0..MaxClock, SaveDraft(expected, content, now)
  PROVE  StoreTypeOK' /\ Whole' /\ OneOpenDraft'
<1> DEFINE more == Saved(revisions, content, now)
           L == Len(revisions)
<1>1. /\ more \in Seq(Revision) /\ Len(more) = L + 1 /\ more[L + 1] = Draft(content, now)
      /\ \A n \in 1..L : more[n] = IF n = L /\ revisions[n].state = "draft"
                                   THEN Closed(revisions[n], now) ELSE revisions[n]
  <2>1. revisions \in Seq(Revision)
    BY DEF StoreInv, StoreTypeOK
  <2> QED
    BY <2>1, SavedType
<1>2. Commit(more, L + 1, now) /\ L < MaxRevisions /\ L \in Nat
  BY DEF SaveDraft, StoreInv, StoreTypeOK, Saved
<1>3. UNCHANGED <<ledger, approval, capabilities, acknowledged>>
  BY DEF SaveDraft
<1> HIDE DEF more
<1>4. StoreTypeOK' /\ Whole'
  <2>1. L + 1 \in 1..Len(more) /\ Len(more) <= MaxRevisions /\ Len(revisions) <= Len(more)
    BY <1>1, <1>2, MaxRevisionsType
  <2> HIDE DEF L
  <2> QED
    BY <1>1, <1>2, <1>3, <2>1, CommitWhole DEF StoreInv
<1>5. OneOpenDraft'
  <2>1. \A n \in 1..L : revisions[n] \in Revision
    BY DEF StoreInv, StoreTypeOK
  <2>2. revisions' = more
    BY <1>2 DEF Commit
  <2>3. \A n \in 1..L : more[n].state # "draft"
    BY <1>1, <2>1, ClosedFields DEF StoreInv, OneOpenDraft
  <2> QED
    BY <1>1, <1>2, <2>2, <2>3 DEF OneOpenDraft
<1> QED
  BY <1>4, <1>5

(* What approve makes of the latest revision. *)
ApprovedNow(now) ==
  [revisions[approval.revision] EXCEPT
     !.state = "approved", !.at = now, !.digest = capabilities]

LEMMA ApprovedFields ==
  ASSUME StoreTypeOK, NEW now \in 0..MaxClock, Approve(now), Whole
  PROVE  LET n == approval.revision IN
         /\ n = Len(revisions) /\ n \in 1..Len(revisions) /\ revisions[n] \in Revision
         /\ revisions[n].state = "draft" /\ n \in Numbers
         /\ ApprovedNow(now) \in Revision /\ ApprovedNow(now).state = "approved"
         /\ ApprovedNow(now).at = now /\ ApprovedNow(now).content = revisions[n].content
         /\ Commit([revisions EXCEPT ![n] = ApprovedNow(now)], n, now)
<1> DEFINE n == approval.revision
<1>1. n = Len(revisions) /\ n \in 1..Len(revisions) /\ revisions[n] \in Revision
  BY DEF Approve, Whole, StoreTypeOK
<1>2. n \in Numbers
  BY <1>1, MaxRevisionsType DEF StoreTypeOK, Numbers
<1>3. /\ ApprovedNow(now) \in Revision /\ ApprovedNow(now).state = "approved"
      /\ ApprovedNow(now).at = now /\ ApprovedNow(now).content = revisions[n].content
  BY <1>1 DEF ApprovedNow, Revision, State, StoreTypeOK
<1>4. [revisions EXCEPT ![n].state = "approved", ![n].at = now, ![n].digest = capabilities]
        = [revisions EXCEPT ![n] = ApprovedNow(now)]
  BY <1>1 DEF ApprovedNow, StoreTypeOK
<1> QED
  BY <1>1, <1>2, <1>3, <1>4 DEF Approve

LEMMA ApproveKeeps ==
  ASSUME StoreInv, NEW now \in 0..MaxClock, Approve(now)
  PROVE  StoreTypeOK' /\ Whole' /\ OneOpenDraft'
<1> DEFINE n == approval.revision
           list == [revisions EXCEPT ![n] = ApprovedNow(now)]
<1>1. /\ n = Len(revisions) /\ n \in 1..Len(revisions)
      /\ ApprovedNow(now) \in Revision /\ ApprovedNow(now).state = "approved"
      /\ Commit(list, n, now)
  BY ApprovedFields DEF StoreInv
<1>2. /\ list \in Seq(Revision) /\ Len(list) = Len(revisions)
      /\ list[n] = ApprovedNow(now)
      /\ \A m \in 1..Len(revisions) : m # n => list[m] = revisions[m]
  BY <1>1 DEF StoreInv, StoreTypeOK
<1>3. Len(revisions) <= MaxRevisions /\ approval' = NoApproval
      /\ UNCHANGED <<ledger, capabilities, acknowledged>>
  BY DEF StoreInv, StoreTypeOK, Approve
<1>4. revisions' = list
  BY <1>1 DEF Commit
<1> HIDE DEF list, n
<1>5. StoreTypeOK' /\ Whole'
  BY <1>1, <1>2, <1>3, CommitWhole DEF StoreInv
<1>6. OneOpenDraft'
  BY <1>1, <1>2, <1>4 DEF StoreInv, OneOpenDraft
<1> QED
  BY <1>5, <1>6

LEMMA PersistKeeps ==
  ASSUME StoreInv, Persist
  PROVE  StoreTypeOK' /\ Whole' /\ OneOpenDraft'
<1> DEFINE n == Head(persisting)
           m == Len(persisting)
<1>1. /\ n \in 1..Len(revisions) /\ n \in Numbers /\ revisions[n] \in Revision
      /\ n = persisting[1] /\ m \in Nat \ {0}
      /\ persisting' \in Seq(Numbers) /\ Len(persisting') = m - 1
      /\ \A k \in 1..(m - 1) : persisting'[k] = persisting[k + 1]
  BY NextToPersist DEF StoreInv, Persist
<1>2. /\ ledger' = [ledger EXCEPT ![n] = revisions[n]]
      /\ UNCHANGED <<revisions, pending, approval, capabilities, clock,
                     steppedBack, acknowledged>>
  BY DEF Persist
<1>3. ledger \in [Numbers -> Revision \cup {Missing}]
  BY DEF StoreInv, StoreTypeOK
<1>4. pending # 0
  BY <1>1 DEF StoreInv, Whole, Idle
<1> HIDE DEF n, m
<1>5. StoreTypeOK'
  BY <1>1, <1>2, <1>3 DEF StoreInv, StoreTypeOK
<1>6. \A k \in 1..Len(persisting') : persisting'[k] \in 1..Len(revisions)
  <2>1. \A k \in 1..m : persisting[k] \in 1..Len(revisions)
    BY DEF StoreInv, Whole, m
  <2>2. \A k \in 1..(m - 1) : k + 1 \in 1..m
    BY <1>1
  <2> QED
    BY <1>1, <2>1, <2>2
<1>7. \A j \in 1..Len(revisions) :
        ledger'[j] = revisions[j] \/ \E k \in 1..Len(persisting') : persisting'[k] = j
  <2>1. SUFFICES ASSUME NEW j \in 1..Len(revisions), j # n, ledger[j] # revisions[j]
                 PROVE  \E k \in 1..Len(persisting') : persisting'[k] = j
    <3>1. ledger'[n] = revisions[n] /\ \A j \in Numbers : j # n => ledger'[j] = ledger[j]
      BY <1>1, <1>2, <1>3
    <3>2. 1..Len(revisions) \subseteq Numbers
      BY MaxRevisionsType DEF StoreInv, StoreTypeOK, Numbers
    <3> QED
      BY <3>1, <3>2
  <2>2. PICK k \in 1..m : persisting[k] = j
    BY <1>4, <2>1 DEF StoreInv, Whole, Idle, m
  <2>3. k # 1 /\ k - 1 \in 1..(m - 1) /\ (k - 1) + 1 = k
    BY <1>1, <2>1, <2>2
  <2> QED
    BY <1>1, <2>2, <2>3
<1> QED
  BY <1>2, <1>4, <1>5, <1>6, <1>7 DEF StoreInv, Whole, OneOpenDraft, Idle

LEMMA RestartKeeps ==
  ASSUME StoreInv, HostRestarts
  PROVE  StoreTypeOK' /\ Whole' /\ OneOpenDraft'
<1> DEFINE k == Cardinality(Recorded)
<1>1. /\ k \in Nat /\ k <= MaxRevisions
      /\ revisions' \in Seq(Revision) /\ Len(revisions') = k
      /\ \A n \in 1..k :
           /\ ledger[n] \in Revision
           /\ revisions'[n] = IF ledger[n].state = "draft" /\ n < k
                              THEN [ledger[n] EXCEPT !.state = "superseded"]
                              ELSE ledger[n]
  BY RestoredType DEF StoreInv, HostRestarts
<1>2. /\ persisting' = <<>> /\ pending' = 0 /\ approval' = NoApproval
      /\ UNCHANGED <<ledger, capabilities, clock, steppedBack, acknowledged>>
  BY DEF HostRestarts
<1> HIDE DEF k
<1>3. StoreTypeOK'
  BY <1>1, <1>2 DEF StoreInv, StoreTypeOK, NoApproval
<1>4. OneOpenDraft'
  <2>1. \A n \in 1..k : revisions'[n].state = "draft" => n = k
    BY <1>1 DEF Revision
  <2> QED
    BY <1>1, <2>1 DEF OneOpenDraft
<1> QED
  BY <1>2, <1>3, <1>4 DEF Whole, Idle

LEMMA InitStore == StoreInit => StoreInv
<1> SUFFICES ASSUME StoreInit PROVE StoreInv
  OBVIOUS
<1>1. StoreTypeOK
  <2>1. revisions \in Seq(Revision) /\ Len(revisions) = 0 /\ persisting \in Seq(Numbers)
    BY DEF StoreInit
  <2>2. approval \in [revision : {0} \cup Numbers, digest : Digests \cup {NoDigest}]
    BY DEF StoreInit, NoApproval
  <2>3. 0 <= MaxRevisions /\ 0 \in 0..MaxClock
    BY MaxRevisionsType, MaxClockType
  <2> QED
    BY <2>1, <2>2, <2>3 DEF StoreInit, StoreTypeOK
<1> QED
  BY <1>1 DEF StoreInit, StoreInv, Whole, OneOpenDraft, AcknowledgedSurvives, Idle

LEMMA NextKeepsStore ==
  ASSUME StoreInv, [StoreNext]_storeVars
  PROVE  StoreInv'
<1> SUFFICES StoreTypeOK' /\ Whole' /\ OneOpenDraft'
  BY AcknowledgedKept DEF StoreInv
<1>1. CASE UNCHANGED storeVars
  BY <1>1 DEF StoreInv, storeVars, StoreTypeOK, Whole, OneOpenDraft, Idle
<1>2. ASSUME NEW n \in Numbers, NEW digest \in Digests, AskApproval(n, digest)
      PROVE  StoreTypeOK' /\ Whole' /\ OneOpenDraft'
  BY <1>2 DEF StoreInv, AskApproval, StoreTypeOK, Whole, OneOpenDraft, Idle
<1>3. CASE RefuseApproval
  BY <1>3 DEF StoreInv, RefuseApproval, StoreTypeOK, Whole, OneOpenDraft, Idle, NoApproval
<1>4. CASE CapabilitiesChange
  BY <1>4 DEF StoreInv, CapabilitiesChange, StoreTypeOK, Whole, OneOpenDraft, Idle
<1>5. CASE PersistThrows
  BY <1>5 DEF StoreInv, PersistThrows, StoreTypeOK, Whole, OneOpenDraft, Idle
<1>6. CASE Answer
  <2>1. StoreTypeOK'
    <3>1. pending \in Numbers /\ revisions[pending] \in Revision
      BY <1>6, MaxRevisionsType DEF StoreInv, StoreTypeOK, Whole, Answer, Idle, Numbers
    <3> QED
      BY <1>6, <3>1 DEF StoreInv, StoreTypeOK, Answer
  <2> QED
    BY <1>6, <2>1 DEF StoreInv, Answer, Whole, OneOpenDraft, Idle
<1> QED
  BY <1>1, <1>2, <1>3, <1>4, <1>5, <1>6, SaveDraftKeeps, ApproveKeeps, PersistKeeps,
     RestartKeeps DEF StoreNext

LEMMA StoreInvariant == StoreSpec => []StoreInv
<1>1. StoreInv /\ [StoreNext]_storeVars => StoreInv'
  BY NextKeepsStore
<1> QED
  BY <1>1, InitStore, PTL DEF StoreSpec

-----------------------------------------------------------------------------
(* As long as the clock does not step back.                                *)

LEMMA RevisionFields ==
  ASSUME StoreTypeOK
  PROVE  /\ Len(revisions) \in Nat
         /\ \A n \in 1..Len(revisions) : n \in Numbers /\ revisions[n] \in Revision
                                        /\ revisions[n].at \in Nat
         /\ \A n \in Recorded : n \in Numbers /\ n \in Nat /\ ledger[n] \in Revision
                                /\ ledger[n].at \in Nat
<1>1. /\ Len(revisions) \in Nat
      /\ \A n \in 1..Len(revisions) : n \in Numbers /\ revisions[n] \in Revision
  BY MaxRevisionsType DEF StoreTypeOK, Numbers
<1>2. \A n \in Recorded : n \in Numbers /\ n \in Nat /\ ledger[n] \in Revision
  BY DEF StoreTypeOK, Recorded, Numbers
<1>3. \A r \in Revision : r.at \in Nat
  BY MaxClockType DEF Revision
<1> QED
  BY <1>1, <1>2, <1>3

(* A repaired draft can be told to the ledger. *)
LEMMA RepairedTransition ==
  ASSUME StoreTypeOK, NEW n \in Recorded, Repaired(n)
  PROVE  Transition(ledger[n], revisions[n])
<1>1. ledger[n] \in Revision /\ ledger[n].at \in Nat
  BY RevisionFields
<1> QED
  BY <1>1 DEF Repaired, Transition, Revision

(* A save or an approval, with what they change of the latest revision. *)
LEMMA CommitKeepsOrder ==
  ASSUME StoreInv, OrderInv, Idle, ~steppedBack',
         NEW now \in 0..MaxClock, NEW list \in Seq(Revision), NEW number,
         Commit(list, number, now), ledger' = ledger,
         Len(list) = Len(revisions) \/ Len(list) = Len(revisions) + 1,
         \A n \in 1..Len(revisions) :
           \/ list[n] = revisions[n]
           \/ /\ n = Len(revisions) /\ revisions[n].state = "draft"
              /\ list[n].state \in {"approved", "superseded"}
              /\ list[n].content = revisions[n].content /\ list[n].at = now,
         Len(list) = Len(revisions) + 1 => list[Len(list)].at = now,
         list # <<>> => list[Len(list)].state # "superseded"
  PROVE  OrderInv'
<1> DEFINE L == Len(revisions)
           M == Len(list)
<1>1. /\ ~steppedBack /\ now >= clock /\ clock \in Nat /\ now \in Nat
      /\ revisions' = list /\ persisting' = Listed(list) /\ clock' = now
  <2>1. clock \in Nat /\ now \in Nat
    BY MaxClockType DEF StoreInv, StoreTypeOK
  <2>2. ~steppedBack /\ ~(now < clock)
    BY DEF Commit
  <2> QED
    BY <2>1, <2>2 DEF Commit
<1>2. InOrder /\ Known /\ persisting = <<>> /\ Len(persisting) = 0
  BY <1>1 DEF OrderInv, StoreInv, Whole
<1>3. /\ L \in Nat /\ M \in Nat /\ (M = L \/ M = L + 1)
      /\ \A n \in 1..L : revisions[n] \in Revision /\ revisions[n].at \in Nat
      /\ \A n \in Recorded : ledger[n] \in Revision /\ ledger[n].at \in Nat
  BY RevisionFields DEF StoreInv
<1>4. \A n \in 1..L : revisions[n].at <= now
  BY <1>1, <1>2, <1>3 DEF InOrder
<1>5. \A n \in 1..M :
        \/ n <= L /\ list[n] = revisions[n]
        \/ n >= L /\ list[n].at = now
  BY <1>3
<1>6. Rising(list) /\ \A n \in 1..M : list[n].at <= now
  <2>1. \A n \in 1..M : list[n].at <= now
    BY <1>1, <1>3, <1>4, <1>5
  <2>2. ASSUME NEW m \in 1..M, NEW n \in 1..M, m <= n
        PROVE  list[m].at <= list[n].at
    <3>1. CASE list[n].at = now
      BY <2>1, <3>1
    <3>2. CASE n <= L /\ list[n] = revisions[n]
      <4>1. CASE m <= L /\ list[m] = revisions[m]
        <5>1. m \in 1..L /\ n \in 1..L
          BY <1>3, <2>2, <3>2, <4>1
        <5> QED
          BY <1>2, <2>2, <3>2, <4>1, <5>1 DEF InOrder, Rising
      <4>2. CASE m >= L /\ list[m].at = now
        <5>1. m = n
          BY <1>3, <2>2, <3>2, <4>2
        <5> QED
          BY <2>1, <4>2, <5>1
      <4> QED
        BY <1>5, <4>1, <4>2
    <3> QED
      BY <1>5, <3>1, <3>2
  <2> QED
    BY <2>1, <2>2 DEF Rising
<1>7. Downward(persisting') /\ Len(persisting') = M
  BY <1>1, <1>6, ListedDescends, ListedIsWhole
<1>8. Recorded' = Recorded /\ Recorded = 1..L
  <2>1. Recorded \subseteq 1..L /\ \A n \in 1..L : n < L => n \in Recorded
    BY <1>2 DEF Known
  <2>2. L > 0 => L \in Recorded
    BY <1>2 DEF Known
  <2> QED
    BY <1>3, <2>1, <2>2 DEF Recorded
<1>9. InOrder'
  BY <1>1, <1>2, <1>6, <1>8 DEF InOrder
<1>10. \A n \in 1..L : ledger[n] = revisions[n] \/ (n < L /\ Repaired(n))
  <2>1. \A n \in 1..L : Repaired(n) => n < L
    BY DEF Repaired
  <2>2. \A n \in 1..L : ledger[n] = revisions[n] \/ Repaired(n)
    BY <1>2, <1>3, <1>8 DEF Known
  <2> QED
    BY <2>1, <2>2
<1>11. \A n \in Recorded : ledger'[n] = list[n] \/ Transition(ledger'[n], list[n])
  <2>1. SUFFICES ASSUME NEW n \in 1..L
                 PROVE  ledger[n] = list[n] \/ Transition(ledger[n], list[n])
    BY <1>8
  <2>2. CASE list[n] = revisions[n]
    BY <1>8, <1>10, <2>2, RepairedTransition DEF StoreInv
  <2>3. CASE list[n] # revisions[n]
    <3>1. /\ n = L /\ revisions[n].state = "draft" /\ list[n].at = now
          /\ list[n].state \in {"approved", "superseded"}
          /\ list[n].content = revisions[n].content
      BY <2>3
    <3>2. ledger[n] = revisions[n]
      BY <1>3, <1>10, <3>1
    <3>3. list[n].at >= ledger[n].at
      BY <1>3, <1>4, <3>1, <3>2
    <3> QED
      BY <3>1, <3>2, <3>3 DEF Transition
  <2> QED
    BY <2>2, <2>3
<1>12. M > 1 /\ M \notin Recorded => ledger[M - 1].state # "superseded"
  <2>1. SUFFICES ASSUME M > 1, M \notin Recorded PROVE ledger[M - 1].state # "superseded"
    OBVIOUS
  <2>2. M - 1 = L /\ L \in 1..L
    BY <1>3, <1>8, <2>1
  <2>3. ledger[L] = revisions[L] /\ revisions # <<>>
    BY <1>3, <1>10, <2>2
  <2> QED
    BY <2>2, <2>3 DEF OrderInv, LastIsOpen
<1>13. Known'
  <2>1. Recorded' \subseteq 1..M /\ \A n \in 1..M : n < M => n \in Recorded'
    BY <1>3, <1>8
  <2>2. \A n \in Recorded' : n <= Len(persisting')
    BY <1>3, <1>7, <1>8
  <2> HIDE DEF M
  <2> QED
    BY <1>1, <1>3, <1>7, <1>8, <1>11, <1>12, <2>1, <2>2 DEF Known, M
<1> QED
  BY <1>1, <1>3, <1>7, <1>9, <1>13 DEF OrderInv, LastIsOpen

LEMMA SaveDraftKeepsOrder ==
  ASSUME StoreInv, OrderInv, ~steppedBack',
         NEW expected \in 0..MaxRevisions, NEW content \in Contents,
         NEW now \in 0..MaxClock, SaveDraft(expected, content, now)
  PROVE  OrderInv'
<1> DEFINE more == Saved(revisions, content, now)
           L == Len(revisions)
<1>1. revisions \in Seq(Revision) /\ L \in Nat /\ \A n \in 1..L : revisions[n] \in Revision
  BY DEF StoreInv, StoreTypeOK
<1>2. /\ more \in Seq(Revision) /\ Len(more) = L + 1 /\ more[L + 1] = Draft(content, now)
      /\ \A n \in 1..L : more[n] = IF n = L /\ revisions[n].state = "draft"
                                   THEN Closed(revisions[n], now) ELSE revisions[n]
  BY <1>1, SavedType
<1>3. Commit(more, L + 1, now) /\ Idle /\ ledger' = ledger
  BY DEF SaveDraft, Saved
<1> HIDE DEF more
<1>4. \A n \in 1..L :
        \/ more[n] = revisions[n]
        \/ /\ n = L /\ revisions[n].state = "draft"
           /\ more[n].state \in {"approved", "superseded"}
           /\ more[n].content = revisions[n].content /\ more[n].at = now
  <2> SUFFICES ASSUME NEW n \in 1..L, more[n] # revisions[n]
               PROVE  /\ n = L /\ revisions[n].state = "draft"
                      /\ more[n].state \in {"approved", "superseded"}
                      /\ more[n].content = revisions[n].content /\ more[n].at = now
    OBVIOUS
  <2>1. n = L /\ revisions[n].state = "draft" /\ more[n] = Closed(revisions[n], now)
    BY <1>2
  <2>2. revisions[n] \in Revision
    BY <1>1
  <2> QED
    BY <2>1, <2>2, ClosedFields
<1>5. Draft(content, now).at = now /\ Draft(content, now).state # "superseded"
  BY DEF Draft
<1>6. more[Len(more)].at = now /\ more[Len(more)].state # "superseded"
  BY <1>2, <1>5
<1> HIDE DEF L
<1> QED
  BY <1>2, <1>3, <1>4, <1>6, CommitKeepsOrder DEF L

LEMMA ApproveKeepsOrder ==
  ASSUME StoreInv, OrderInv, ~steppedBack', NEW now \in 0..MaxClock, Approve(now)
  PROVE  OrderInv'
<1> DEFINE n == approval.revision
           list == [revisions EXCEPT ![n] = ApprovedNow(now)]
<1>1. /\ n = Len(revisions) /\ n \in 1..Len(revisions) /\ revisions[n].state = "draft"
      /\ ApprovedNow(now) \in Revision /\ ApprovedNow(now).state = "approved"
      /\ ApprovedNow(now).at = now /\ ApprovedNow(now).content = revisions[n].content
      /\ Commit(list, n, now)
  BY ApprovedFields DEF StoreInv
<1>2. /\ list \in Seq(Revision) /\ Len(list) = Len(revisions)
      /\ list[n] = ApprovedNow(now)
      /\ \A m \in 1..Len(revisions) : m # n => list[m] = revisions[m]
  BY <1>1 DEF StoreInv, StoreTypeOK
<1>3. Idle /\ ledger' = ledger
  BY DEF Approve
<1> HIDE DEF list, n
<1>4. Len(list) # Len(revisions) + 1
  BY <1>2 DEF StoreInv, StoreTypeOK
<1>5. list[Len(list)].state # "superseded"
  BY <1>1, <1>2
<1>6. \A m \in 1..Len(revisions) :
        \/ list[m] = revisions[m]
        \/ /\ m = Len(revisions) /\ revisions[m].state = "draft"
           /\ list[m].state \in {"approved", "superseded"}
           /\ list[m].content = revisions[m].content /\ list[m].at = now
  BY <1>1, <1>2
<1> QED
  BY <1>1, <1>2, <1>3, <1>4, <1>5, <1>6, CommitKeepsOrder

(* The next revision of the list: the newest the ledger was not told. *)
LEMMA PersistKeepsOrder ==
  ASSUME StoreInv, OrderInv, ~steppedBack', Persist
  PROVE  OrderInv'
<1> DEFINE n == Head(persisting)
           m == Len(persisting)
           L == Len(revisions)
<1>1. /\ n \in 1..L /\ n \in Numbers /\ revisions[n] \in Revision
      /\ n = persisting[1] /\ m \in Nat \ {0} /\ Len(persisting') = m - 1
      /\ \A k \in 1..(m - 1) : persisting'[k] = persisting[k + 1]
  BY NextToPersist DEF StoreInv, Persist
<1>2. /\ ledger' = [ledger EXCEPT ![n] = revisions[n]]
      /\ UNCHANGED <<revisions, pending, approval, capabilities, clock,
                     steppedBack, acknowledged>>
  BY DEF Persist
<1>3. /\ InOrder /\ Known /\ Downward(persisting) /\ m <= L
  BY <1>2 DEF OrderInv
<1>4. n = m
  BY <1>1, <1>3 DEF Downward
<1>5. /\ L \in Nat
      /\ \A j \in 1..L : j \in Numbers /\ revisions[j] \in Revision /\ revisions[j].at \in Nat
      /\ \A j \in Recorded : j \in Nat /\ ledger[j] \in Revision /\ ledger[j].at \in Nat
  BY RevisionFields DEF StoreInv
<1>6. ~Idle
  BY <1>1 DEF StoreInv, Whole
<1>7. /\ ledger'[n] = revisions[n] /\ Recorded' = Recorded \cup {n}
      /\ \A j \in Numbers : j # n => ledger'[j] = ledger[j]
  BY <1>1, <1>2, NotMissing DEF StoreInv, StoreTypeOK, Recorded
<1>8. Downward(persisting')
  BY <1>1, <1>3 DEF Downward
<1>9. \A j \in Recorded :
        /\ j \in 1..L /\ ledger[j].at <= revisions[j].at
        /\ j > m => ledger[j] = revisions[j]
  <2>1. SUFFICES ASSUME NEW j \in Recorded
                 PROVE  /\ j \in 1..L /\ ledger[j].at <= revisions[j].at
                        /\ j > m => ledger[j] = revisions[j]
    OBVIOUS
  <2>2. j \in 1..L
    BY <1>3 DEF Known
  <2>3. ledger[j] = revisions[j] \/ (j <= m /\ Transition(ledger[j], revisions[j]))
    BY <1>3, <1>6 DEF Known
  <2> QED
    BY <1>1, <1>5, <2>2, <2>3 DEF Transition
<1>10. InOrder'
  <2>0. /\ \A i, j \in 1..L : i <= j => revisions[i].at <= revisions[j].at
        /\ \A i, j \in Recorded : i <= j => ledger[i].at <= ledger[j].at
    BY <1>3 DEF InOrder, Rising
  <2> HIDE DEF n, m, L
  <2>1. ASSUME NEW i \in Recorded', NEW j \in Recorded', i <= j
        PROVE  ledger'[i].at <= ledger'[j].at
    <3>1. i \in Numbers /\ j \in Numbers
      BY <1>1, <1>7 DEF Recorded
    <3>2. CASE i # n /\ j # n
      <4>1. i \in Recorded /\ j \in Recorded
        BY <1>7, <3>2
      <4> QED
        BY <1>7, <2>0, <2>1, <3>1, <3>2, <4>1
    <3>3. CASE i # n /\ j = n
      <4>0. i \in Recorded
        BY <1>7, <3>3
      <4>1. i \in 1..L /\ ledger[i].at \in Nat /\ revisions[i].at \in Nat
        BY <1>5, <1>9, <4>0
      <4>2. ledger[i].at <= revisions[i].at /\ revisions[i].at <= revisions[n].at
        BY <1>1, <1>9, <2>0, <2>1, <3>3, <4>0, <4>1
      <4>3. ledger'[i].at = ledger[i].at /\ ledger'[j].at = revisions[n].at
        BY <1>7, <3>1, <3>3
      <4> QED
        BY <1>1, <1>5, <4>1, <4>2, <4>3
    <3>4. CASE i = n /\ j # n
      <4>0. j \in Recorded
        BY <1>7, <3>4
      <4>1. j > m /\ j \in 1..L
        <5>1. j \in Nat /\ j \in 1..L /\ m \in Nat
          BY <1>1, <1>5, <1>9, <4>0
        <5>2. m <= j /\ m # j
          BY <1>4, <2>1, <3>4
        <5> QED
          BY <5>1, <5>2
      <4>2. ledger'[j] = revisions[j] /\ revisions[n].at <= revisions[j].at
        BY <1>1, <1>7, <1>9, <2>0, <2>1, <3>1, <3>4, <4>0, <4>1
      <4> QED
        BY <1>7, <3>4, <4>2
    <3>5. CASE i = n /\ j = n
      BY <1>1, <1>5, <1>7, <3>5
    <3> QED
      BY <3>2, <3>3, <3>4, <3>5
  <2> QED
    BY <1>2, <1>3, <2>1 DEF InOrder
<1>11. Known'
  <2>1. Recorded' \subseteq 1..L /\ \A j \in 1..L : j < L => j \in Recorded'
    BY <1>1, <1>3, <1>7 DEF Known
  <2>2. L > m - 1 => L \in Recorded'
    <3>1. L > m => L \in Recorded
      BY <1>3 DEF Known
    <3>2. L > m \/ L = m
      BY <1>1, <1>3, <1>5
    <3> QED
      BY <1>4, <1>7, <3>1, <3>2
  <2>3. L \in Recorded'
    BY <1>1, <1>3, <1>5, <2>2
  <2>4. ASSUME NEW j \in Recorded'
        PROVE  \/ ledger'[j] = revisions[j]
               \/ j <= m - 1 /\ Transition(ledger'[j], revisions[j])
    <3>1. CASE j = n
      BY <1>7, <3>1
    <3>2. CASE j # n
      <4>1. j \in Recorded /\ j \in Numbers /\ j \in Nat
        BY <1>5, <1>7, <3>2 DEF Recorded
      <4>2. ledger[j] = revisions[j] \/ (j <= m /\ Transition(ledger[j], revisions[j]))
        BY <1>3, <1>6, <4>1 DEF Known
      <4>3. j <= m => j <= m - 1
        BY <1>1, <1>4, <3>2, <4>1
      <4> QED
        BY <1>7, <3>2, <4>1, <4>2, <4>3
    <3> QED
      BY <3>1, <3>2
  <2> HIDE DEF L, m
  <2> QED
    BY <1>1, <1>2, <2>1, <2>2, <2>3, <2>4 DEF Known, L, m
<1> QED
  BY <1>1, <1>2, <1>3, <1>8, <1>10, <1>11 DEF OrderInv, LastIsOpen

LEMMA RestartKeepsOrder ==
  ASSUME StoreInv, OrderInv, HostRestarts
  PROVE  OrderInv'
<1> DEFINE k == Cardinality(Recorded)
<1>1. /\ k \in Nat /\ Recorded = 1..k
      /\ revisions' \in Seq(Revision) /\ Len(revisions') = k
      /\ \A n \in 1..k :
           /\ ledger[n] \in Revision
           /\ revisions'[n] = IF ledger[n].state = "draft" /\ n < k
                              THEN [ledger[n] EXCEPT !.state = "superseded"]
                              ELSE ledger[n]
  BY RestoredType DEF StoreInv, HostRestarts
<1>2. /\ persisting' = <<>> /\ pending' = 0
      /\ UNCHANGED <<ledger, capabilities, clock, steppedBack, acknowledged>>
      /\ Recorded' = Recorded
      /\ k > 0 => ledger[k].state # "superseded"
  BY <1>1 DEF HostRestarts, Recorded, Restorable
<1> HIDE DEF k
<1>3. LastIsOpen'
  BY <1>1, <1>2 DEF LastIsOpen
<1>4. CASE steppedBack
  BY <1>2, <1>3, <1>4 DEF OrderInv
<1>5. CASE ~steppedBack
  <2>1. InOrder /\ Known
    BY <1>5 DEF OrderInv
  <2>2. \A n \in 1..k : revisions'[n].at = ledger[n].at /\ ledger[n].at \in Nat
    BY <1>1, MaxClockType DEF Revision
  <2>3. \A n \in 1..k : ledger[n].at <= clock
    <3>1. SUFFICES ASSUME NEW n \in 1..k PROVE ledger[n].at <= clock
      OBVIOUS
    <3>2. n \in 1..Len(revisions) /\ n \in Recorded
      BY <1>1, <2>1 DEF Known
    <3>3. /\ revisions[n].at <= clock /\ revisions[n].at \in Nat /\ ledger[n].at \in Nat
          /\ clock \in Nat
      BY <2>1, <3>2, RevisionFields, MaxClockType DEF InOrder, StoreInv, StoreTypeOK
    <3>4. ledger[n].at <= revisions[n].at
      <4>1. Repaired(n) => Transition(ledger[n], revisions[n])
        BY <3>2, RepairedTransition DEF StoreInv
      <4>2. ledger[n] = revisions[n] \/ Transition(ledger[n], revisions[n])
        BY <2>1, <3>2, <4>1 DEF Known
      <4> QED
        BY <3>3, <4>2 DEF Transition
    <3> QED
      BY <3>3, <3>4
  <2>4. InOrder'
    BY <1>1, <1>2, <2>1, <2>2, <2>3 DEF InOrder, Rising
  <2>5. \A n \in 1..k : ledger[n] = revisions'[n] \/ Repaired(n)'
    BY <1>1, <1>2 DEF Repaired
  <2>6. Known'
    BY <1>1, <1>2, <2>5 DEF Known, Idle
  <2> QED
    BY <1>1, <1>2, <1>3, <2>4, <2>6 DEF OrderInv, Downward
<1> QED
  BY <1>4, <1>5

LEMMA LastIndex ==
  ASSUME NEW S, NEW s \in Seq(S), s # <<>>
  PROVE  Len(s) \in 1..Len(s)
<1>1. Len(s) \in Nat /\ Len(s) # 0
  OBVIOUS
<1> QED
  BY <1>1

(* Whatever the clock does, the latest revision is not superseded. *)
LEMMA LastStaysOpen ==
  ASSUME StoreInv, LastIsOpen, StoreNext
  PROVE  LastIsOpen'
<1>1. CASE revisions' = revisions
  BY <1>1 DEF LastIsOpen
<1>2. ASSUME NEW expected \in 0..MaxRevisions, NEW content \in Contents,
             NEW now \in 0..MaxClock, SaveDraft(expected, content, now)
      PROVE  LastIsOpen'
  <2>1. revisions' = Saved(revisions, content, now) /\ revisions \in Seq(Revision)
    BY <1>2 DEF SaveDraft, Commit, Saved, StoreInv, StoreTypeOK
  <2>2. revisions'[Len(revisions')] = Draft(content, now)
    BY <2>1, SavedType
  <2> QED
    BY <2>2 DEF LastIsOpen, Draft
<1>3. ASSUME NEW now \in 0..MaxClock, Approve(now)
      PROVE  LastIsOpen'
  <2>1. /\ approval.revision = Len(revisions) /\ approval.revision \in 1..Len(revisions)
        /\ ApprovedNow(now).state = "approved" /\ revisions \in Seq(Revision)
        /\ revisions' = [revisions EXCEPT ![approval.revision] = ApprovedNow(now)]
    BY <1>3, ApprovedFields DEF StoreInv, StoreTypeOK, Commit
  <2>2. Len(revisions') = Len(revisions) /\ revisions'[Len(revisions)] = ApprovedNow(now)
    BY <2>1
  <2> QED
    BY <2>1, <2>2 DEF LastIsOpen
<1>4. CASE HostRestarts
  <2>1. /\ revisions' = Restored /\ Recorded = 1..Len(Restored)
        /\ Len(Restored) = Cardinality(Recorded) /\ Len(Restored) \in Nat
        /\ \A m \in 1..Len(Restored) : m = Len(Restored) => Restored[m] = ledger[m]
    BY <1>4, RestoredType DEF HostRestarts, StoreInv
  <2>2. Restored \in Seq(Revision)
    BY <1>4, RestoredType DEF HostRestarts, StoreInv
  <2>3. SUFFICES ASSUME Restored # <<>>
                 PROVE  Restored[Len(Restored)].state # "superseded"
    BY <2>1 DEF LastIsOpen
  <2>4. Len(Restored) \in 1..Len(Restored)
    BY <2>2, <2>3, LastIndex
  <2>5. ledger[Len(Restored)].state # "superseded"
    BY <1>4, <2>1, <2>4 DEF HostRestarts, Restorable
  <2> QED
    BY <2>1, <2>4, <2>5
<1> QED
  BY <1>1, <1>2, <1>3, <1>4 DEF StoreNext, AskApproval, RefuseApproval, CapabilitiesChange,
     Persist, PersistThrows, Answer

LEMMA OrderInvariant == StoreSpec => [](StoreInv /\ OrderInv)
<1>1. StoreInit => StoreInv /\ OrderInv
  <2> SUFFICES ASSUME StoreInit PROVE OrderInv
    BY InitStore
  <2>1. revisions = <<>> /\ Len(revisions) = 0 /\ Recorded = {} /\ persisting = <<>>
    BY DEF StoreInit, Recorded
  <2>2. InOrder /\ Known
    BY <2>1 DEF InOrder, Rising, Known
  <2> QED
    BY <2>1, <2>2 DEF OrderInv, LastIsOpen, Downward
<1>2. StoreInv /\ OrderInv /\ [StoreNext]_storeVars => (StoreInv /\ OrderInv)'
  <2> SUFFICES ASSUME StoreInv, OrderInv, [StoreNext]_storeVars PROVE OrderInv'
    BY NextKeepsStore
  <2>1. CASE UNCHANGED <<revisions, ledger, persisting, pending, clock, steppedBack>>
    BY <2>1 DEF OrderInv, LastIsOpen, InOrder, Rising, Known, Repaired, Downward, Recorded,
       Idle
  <2>2. CASE Answer
    <3>1. UNCHANGED <<revisions, ledger, persisting, clock, steppedBack>> /\ persisting = <<>>
      BY <2>2 DEF Answer
    <3>2. ~Idle /\ Recorded' = Recorded
      BY <2>2 DEF Answer, Recorded
    <3> QED
      BY <3>1, <3>2 DEF OrderInv, LastIsOpen, InOrder, Rising, Known, Downward
  <2>3. CASE PersistThrows
    <3>1. /\ UNCHANGED <<revisions, ledger, clock, steppedBack>>
          /\ Recorded' = Recorded /\ LastIsOpen'
      BY <2>3 DEF PersistThrows, OrderInv, LastIsOpen, Recorded
    <3>2. steppedBack
      <4>1. SUFFICES ASSUME ~steppedBack PROVE FALSE
        OBVIOUS
      <4> DEFINE n == Head(persisting)
      <4>2. /\ n \in 1..Len(revisions) /\ n \in Numbers /\ n = persisting[1]
            /\ Len(persisting) \in Nat \ {0}
        BY <2>3, NextToPersist DEF StoreInv, PersistThrows
      <4>3. Known /\ ~Idle
        BY <4>1, <4>2 DEF OrderInv, StoreInv, Whole
      <4>4. CASE n \in Recorded
        BY <2>3, <4>3, <4>4 DEF Known, PersistThrows
      <4>5. CASE n \notin Recorded
        BY <2>3, <4>2, <4>5 DEF Recorded, PersistThrows
      <4> QED
        BY <4>4, <4>5
    <3> QED
      BY <3>1, <3>2 DEF OrderInv
  <2>4. CASE steppedBack' /\ StoreNext
    BY <2>1, <2>2, <2>3, <2>4, LastStaysOpen DEF OrderInv
  <2>5. CASE ~steppedBack' /\ StoreNext
    <3>1. ASSUME NEW n \in Numbers, NEW digest \in Digests, AskApproval(n, digest)
          PROVE  OrderInv'
      BY <2>1, <3>1 DEF AskApproval
    <3>2. CASE RefuseApproval \/ CapabilitiesChange
      BY <2>1, <3>2 DEF RefuseApproval, CapabilitiesChange
    <3> QED
      BY <2>2, <2>3, <2>5, <3>1, <3>2, SaveDraftKeepsOrder, ApproveKeepsOrder,
         PersistKeepsOrder, RestartKeepsOrder DEF StoreNext
  <2> QED
    BY <2>1, <2>4, <2>5 DEF storeVars
<1> QED
  BY <1>1, <1>2, PTL DEF StoreSpec

-----------------------------------------------------------------------------
(* StoreTypeOK for any number of revisions. *)
THEOREM StoreTyping == StoreSpec => []StoreTypeOK
<1>1. StoreInv => StoreTypeOK
  BY DEF StoreInv
<1> QED
  BY <1>1, StoreInvariant, PTL

(* OneOpenDraft: only the latest revision is open, also after a crash. *)
THEOREM OneOpenDraftAlways == StoreSpec => []OneOpenDraft
<1>1. StoreInv => OneOpenDraft
  BY DEF StoreInv
<1> QED
  BY <1>1, StoreInvariant, PTL

(* AcknowledgedSurvives: what a caller was answered is in the ledger and   *)
(* stays there, wherever the process ends and whatever the clock does.     *)
THEOREM AcknowledgedSurvivesAlways == StoreSpec => []AcknowledgedSurvives
<1>1. StoreInv => AcknowledgedSurvives
  BY DEF StoreInv
<1> QED
  BY <1>1, StoreInvariant, PTL

(* RestoreSucceeds: the next host can restore the plan and finds what the  *)
(* repository knew, unless the clock stepped back.                         *)
THEOREM RestoreSucceedsAlways == StoreSpec => []RestoreSucceeds
<1>1. StoreInv /\ OrderInv => RestoreSucceeds
  <2> SUFFICES ASSUME StoreInv, OrderInv, ~steppedBack
               PROVE  Restorable /\ (Idle => LedgerAgrees)
    BY DEF RestoreSucceeds
  <2> DEFINE L == Len(revisions)
  <2>1. Known /\ LastIsOpen
    BY DEF OrderInv
  <2>2. /\ L \in Nat
        /\ \A n \in 1..L : revisions[n] \in Revision
        /\ \A n \in Recorded : n \in Nat /\ ledger[n] \in Revision
    BY RevisionFields DEF StoreInv
  <2>3. L \in Recorded => ledger[L].state # "superseded"
    <3>1. SUFFICES ASSUME L \in Recorded PROVE ledger[L].state # "superseded"
      OBVIOUS
    <3>2. L \in 1..L /\ revisions[L].state # "superseded"
      BY <2>1, <2>2, <3>1 DEF Known, LastIsOpen
    <3>3. ~Repaired(L)
      BY <2>2 DEF Repaired
    <3>4. ledger[L] = revisions[L] \/ Transition(ledger[L], revisions[L])
      BY <2>1, <3>1, <3>3 DEF Known
    <3> QED
      BY <3>2, <3>4 DEF Transition
  <2> HIDE DEF L
  <2>4. Recorded = 1..L \/ (L > 0 /\ L \notin Recorded /\ Recorded = 1..(L - 1))
    <3>1. Recorded \subseteq 1..L /\ \A n \in 1..L : n < L => n \in Recorded
      BY <2>1 DEF Known, L
    <3>2. CASE L \in Recorded \/ L = 0
      <4>1. 1..L \subseteq Recorded
        BY <2>2, <3>1, <3>2
      <4> QED
        BY <3>1, <4>1
    <3>3. CASE L \notin Recorded /\ L # 0
      <4>1. 1..(L - 1) \subseteq Recorded
        BY <2>2, <3>1
      <4>2. Recorded \subseteq 1..(L - 1)
        BY <2>2, <3>1, <3>3
      <4>3. Recorded = 1..(L - 1)
        BY <4>1, <4>2
      <4>4. L > 0
        BY <2>2, <3>3
      <4> QED
        BY <3>3, <4>3, <4>4
    <3> QED
      BY <3>2, <3>3
  <2>5. Restorable
    <3>1. CASE Recorded = 1..L
      <4>1. Cardinality(Recorded) = L
        BY <2>2, <3>1, CountUpTo
      <4>2. Recorded # {} => L \in Recorded
        BY <2>2, <3>1
      <4> QED
        BY <2>3, <3>1, <4>1, <4>2 DEF Restorable
    <3>2. CASE L > 0 /\ L \notin Recorded /\ Recorded = 1..(L - 1)
      <4>1. L - 1 \in Nat
        BY <2>2, <3>2
      <4>2. Cardinality(Recorded) = L - 1
        BY <3>2, <4>1, CountUpTo
      <4>3. Recorded # {} => L > 1
        BY <2>2, <3>2
      <4> QED
        BY <2>1, <3>2, <4>2, <4>3 DEF Restorable, Known, L
    <3> QED
      BY <2>4, <3>1, <3>2
  <2>6. ASSUME Idle PROVE LedgerAgrees
    <3>1. persisting = <<>>
      BY <2>6 DEF StoreInv, Whole
    <3>2. Recorded = 1..L
      BY <2>1, <2>2, <2>4, <3>1 DEF Known, L
    <3>3. \A n \in Recorded : ledger[n] = revisions[n] \/ Repaired(n)
      BY <2>1, <2>2, <3>1, <3>2 DEF Known
    <3> QED
      BY <3>2, <3>3 DEF LedgerAgrees, Repaired, L
  <2> QED
    BY <2>5, <2>6
<1> QED
  BY <1>1, OrderInvariant, PTL

(* ApprovedNeverRewritten: an approved revision is rewritten neither in    *)
(* the repository nor in the ledger, by a save, an approval or a restart.  *)
THEOREM ApprovedNeverRewrittenAlways == StoreSpec => ApprovedNeverRewritten
<1>1. StoreInv /\ [StoreNext]_storeVars =>
        [\A n \in Numbers :
           /\ n <= Len(revisions) /\ revisions[n].state = "approved"
                /\ ledger[n] = revisions[n]
              => n <= Len(revisions') /\ revisions'[n] = revisions[n]
           /\ ledger[n] # Missing /\ ledger[n].state = "approved"
              => ledger'[n] = ledger[n]]_storeVars
  <2> SUFFICES ASSUME StoreInv, StoreNext, NEW n \in Numbers
               PROVE  /\ n <= Len(revisions) /\ revisions[n].state = "approved"
                           /\ ledger[n] = revisions[n]
                         => n <= Len(revisions') /\ revisions'[n] = revisions[n]
                      /\ ledger[n] # Missing /\ ledger[n].state = "approved"
                         => ledger'[n] = ledger[n]
    OBVIOUS
  <2>1. ledger[n] # Missing /\ ledger[n].state = "approved" => ledger'[n] = ledger[n]
    BY LedgerKeeps
  <2>2. ASSUME n <= Len(revisions), revisions[n].state = "approved", ledger[n] = revisions[n]
        PROVE  n <= Len(revisions') /\ revisions'[n] = revisions[n]
    <3>1. n \in 1..Len(revisions) /\ revisions[n] \in Revision /\ Len(revisions) \in Nat
      BY <2>2, RevisionFields DEF StoreInv, Numbers
    <3>2. CASE revisions' = revisions
      BY <2>2, <3>2
    <3>3. ASSUME NEW expected \in 0..MaxRevisions, NEW content \in Contents,
                 NEW now \in 0..MaxClock, SaveDraft(expected, content, now)
          PROVE  n <= Len(revisions') /\ revisions'[n] = revisions[n]
      <4>1. revisions' = Saved(revisions, content, now) /\ revisions \in Seq(Revision)
        BY <3>3 DEF SaveDraft, Commit, Saved, StoreInv, StoreTypeOK
      <4>2. /\ Len(Saved(revisions, content, now)) = Len(revisions) + 1
            /\ Saved(revisions, content, now)[n] = revisions[n]
        BY <2>2, <3>1, <4>1, SavedType
      <4> QED
        BY <2>2, <3>1, <4>1, <4>2
    <3>4. ASSUME NEW now \in 0..MaxClock, Approve(now)
          PROVE  n <= Len(revisions') /\ revisions'[n] = revisions[n]
      <4>1. /\ revisions' = [revisions EXCEPT ![approval.revision] = ApprovedNow(now)]
            /\ revisions[approval.revision].state = "draft"
        BY <3>4, ApprovedFields DEF StoreInv, Commit
      <4> QED
        BY <2>2, <3>1, <4>1 DEF StoreInv, StoreTypeOK
    <3>5. CASE HostRestarts
      <4>1. /\ Recorded = 1..Len(Restored) /\ revisions' = Restored
            /\ \A m \in 1..Len(Restored) : ledger[m].state = "approved" => Restored[m] = ledger[m]
        BY <3>5, RestoredType DEF HostRestarts, StoreInv
      <4>2. n \in Recorded
        BY <2>2, <3>1, NotMissing DEF Recorded
      <4> QED
        BY <2>2, <4>1, <4>2
    <3> QED
      BY <3>2, <3>3, <3>4, <3>5 DEF StoreNext, AskApproval, RefuseApproval, CapabilitiesChange,
         Persist, PersistThrows, Answer
  <2> QED
    BY <2>1, <2>2
<1> QED
  BY <1>1, StoreInvariant, PTL DEF StoreSpec, ApprovedNeverRewritten

-----------------------------------------------------------------------------

(* What an execution refers to from the moment it consumed its grant. *)
Begun ==
  \A x \in Executions :
    IF stage[x] = "new" THEN plan[x] = None /\ spent[x] = None
    ELSE plan[x] \in Plans /\ spent[x] \in Grants

Shape ==
  /\ asking \in [Issuers -> Plans \cup {None}]
  /\ grantOf \in [Plans -> Grants \cup {None}]
  /\ granted \in [Grants -> Plans \cup {None}]
  /\ stored \subseteq Grants
  /\ expired \subseteq Grants
  /\ active \subseteq Plans
  /\ stage \in [Executions -> Stage]
  /\ plan \in [Executions -> Plans \cup {None}]
  /\ spent \in [Executions -> Grants \cup {None}]

GrantsInv == Shape /\ Begun /\ EachStartHasItsGrant

BudgetInv == BudgetType /\ PromisesFit

-----------------------------------------------------------------------------
(* The budget.                                                             *)

LEMMA ReservedType ==
  ASSUME BudgetType
  PROVE  /\ SumFunction(remaining) \in Nat /\ Reserved \in Nat
         /\ \A x \in Executions : remaining[x] \in Nat /\ remaining[x] <= Reserved
<1>1. /\ SumFunction(remaining) \in Nat
      /\ \A x \in Executions : remaining[x] <= SumFunction(remaining)
  BY SumType, ExecutionsType DEF BudgetType
<1>2. controlSlots \in Nat /\ \A x \in Executions : remaining[x] \in Nat
  BY DEF BudgetType
<1> QED
  BY <1>1, <1>2 DEF Reserved

(* One reservation changes. *)
LEMMA ReservationChanges ==
  ASSUME BudgetType, NEW x \in Executions, NEW n \in Nat,
         remaining' = [remaining EXCEPT ![x] = n], UNCHANGED controlSlots
  PROVE  /\ Reserved' = Reserved - remaining[x] + n
         /\ remaining' \in [Executions -> Nat]
<1>1. remaining \in [Executions -> Nat]
  BY DEF BudgetType
<1>2. SumFunction(remaining') = SumFunction(remaining) - remaining[x] + n
  BY <1>1, SumUpdate, ExecutionsType
<1>3. /\ SumFunction(remaining) \in Nat /\ remaining[x] \in Nat
      /\ controlSlots \in Nat /\ controlSlots' = controlSlots
  BY ReservedType DEF BudgetType
<1> QED
  BY <1>1, <1>2, <1>3 DEF Reserved

(* An event takes room that was tested. *)
LEMMA PlainRecord ==
  ASSUME BudgetInv, NEW n \in Nat, Room(n), events' = events + n,
         UNCHANGED <<remaining, controlSlots>>
  PROVE  BudgetInv'
<1>1. /\ events \in 0..MaxEvents /\ Reserved \in Nat /\ Reserved' = Reserved
  BY ReservedType DEF BudgetInv, BudgetType, Reserved
<1>2. events' + Reserved <= MaxEvents
  BY <1>1 DEF Room
<1>3. BudgetType'
  BY <1>1, <1>2, MaxEventsType DEF BudgetInv, BudgetType
<1> QED
  BY <1>1, <1>2, <1>3 DEF BudgetInv, PromisesFit

LEMMA RecordOfExecutionFits ==
  ASSUME BudgetInv, NEW x \in Executions, RecordOfExecution(x)
  PROVE  BudgetInv'
<1> DEFINE slot == IF remaining[x] > 0 THEN 1 ELSE 0
<1>1. /\ events \in 0..MaxEvents /\ Reserved \in Nat
      /\ remaining[x] \in Nat /\ remaining \in [Executions -> Nat]
  BY ReservedType DEF BudgetInv, BudgetType
<1>2. CASE Room(1 - slot)
  <2>1. /\ events' = events + 1
        /\ remaining' = [remaining EXCEPT ![x] = remaining[x] - slot]
        /\ UNCHANGED controlSlots
    BY <1>1, <1>2 DEF RecordOfExecution
  <2>2. slot \in 0..1 /\ remaining[x] - slot \in Nat
    BY <1>1
  <2> HIDE DEF slot
  <2>3. /\ Reserved' = Reserved - remaining[x] + (remaining[x] - slot)
        /\ remaining' \in [Executions -> Nat]
    BY <2>1, <2>2, ReservationChanges DEF BudgetInv
  <2>4. Reserved' = Reserved - slot
    BY <1>1, <2>2, <2>3
  <2>5. events' + Reserved' <= MaxEvents
    BY <1>1, <1>2, <2>1, <2>2, <2>4 DEF Room
  <2>6. Reserved' >= 0
    <3>1. remaining[x] <= Reserved
      BY ReservedType DEF BudgetInv
    <3> QED
      BY <1>1, <2>2, <2>4, <3>1
  <2>7. BudgetType'
    BY <1>1, <2>1, <2>2, <2>3, <2>4, <2>5, <2>6, MaxEventsType DEF BudgetInv, BudgetType
  <2> QED
    BY <2>5, <2>7 DEF BudgetInv, PromisesFit
<1>3. CASE ~Room(1 - slot)
  BY <1>3 DEF RecordOfExecution, BudgetInv, BudgetType, PromisesFit, Reserved
<1> QED
  BY <1>2, <1>3

(* Every step of the grants, the executions, the controls and the others   *)
(* that touches the budget tests its room first.                           *)
LEMMA NextFits ==
  ASSUME Shape, Begun, BudgetInv, [Next]_vars
  PROVE  BudgetInv'
<1>0. /\ events \in 0..MaxEvents /\ Reserved \in Nat /\ MaxEvents \in Nat
      /\ controlSlots \in Nat
      /\ \A x \in Executions : remaining[x] \in Nat /\ remaining[x] <= Reserved
  BY ReservedType, MaxEventsType DEF BudgetInv, BudgetType
<1>1. CASE UNCHANGED budgetVars
  BY <1>1 DEF BudgetInv, BudgetType, PromisesFit, Reserved, budgetVars
<1>2. CASE Issuing
  BY <1>1, <1>2 DEF Issuing, AskGrant, GrantRefused, GrantRepeated, GrantIssued
<1>3. ASSUME NEW x \in Executions, EngineThrows(x)
      PROVE  BudgetInv'
  <2>1. Envelope[plan[x]] \in Nat /\ Envelope[plan[x]] >= 2
    BY <1>3, EnvelopeType DEF EngineThrows, Begun
  <2>2. Room(2)
    BY <1>0, <1>3, <2>1 DEF EngineThrows, CanStart, Room
  <2> QED
    BY <1>3, <2>2, PlainRecord DEF EngineThrows
<1>4. ASSUME NEW x \in Executions, EngineStarts(x)
      PROVE  BudgetInv'
  <2> DEFINE n == Envelope[plan[x]]
  <2>1. n \in Nat /\ n >= 2
    BY <1>4, EnvelopeType DEF EngineStarts, Begun
  <2>0. /\ remaining' = [remaining EXCEPT ![x] = n - 2]
        /\ UNCHANGED controlSlots
    BY <1>4 DEF EngineStarts
  <2>5. n - 2 \in Nat
    BY <2>1
  <2>3. events + Reserved + n <= MaxEvents /\ events' = events + 2
        /\ controlSlots' = controlSlots
    BY <1>4 DEF EngineStarts, CanStart, Room
  <2> HIDE DEF n
  <2>2. /\ Reserved' = Reserved - remaining[x] + (n - 2)
        /\ remaining' \in [Executions -> Nat]
    BY <2>0, <2>5, ReservationChanges DEF BudgetInv
  <2>4. events' + Reserved' <= MaxEvents /\ events' \in 0..MaxEvents
    BY <1>0, <2>1, <2>2, <2>3
  <2> QED
    BY <1>0, <2>2, <2>3, <2>4 DEF BudgetInv, BudgetType, PromisesFit
<1>5. ASSUME NEW x \in Executions, ExecutionEnds(x)
      PROVE  BudgetInv'
  <2>1. /\ Reserved' = Reserved - remaining[x] + 0
        /\ remaining' \in [Executions -> Nat]
    BY <1>5, ReservationChanges DEF ExecutionEnds, BudgetInv
  <2>2. events' = events /\ controlSlots' = controlSlots
    BY <1>5 DEF ExecutionEnds
  <2>3. events' + Reserved' <= MaxEvents
    BY <1>0, <2>1, <2>2 DEF BudgetInv, PromisesFit
  <2> QED
    BY <1>0, <2>1, <2>2, <2>3 DEF BudgetInv, BudgetType, PromisesFit
<1>6. CASE Executing
  <2>1. ASSUME NEW g \in Grants, Expire(g) \/ ExecuteRefused(g)
        PROVE  UNCHANGED budgetVars
    BY <2>1 DEF Expire, ExecuteRefused
  <2>2. ASSUME NEW x \in Executions,
               (\E p \in Plans, g \in Grants : Execute(x, p, g)) \/ CheckFails(x)
        PROVE  UNCHANGED budgetVars
    BY <2>2 DEF Execute, CheckFails
  <2>3. ASSUME NEW x \in Executions, ExecutionRecords(x)
        PROVE  BudgetInv'
    BY <2>3, RecordOfExecutionFits DEF ExecutionRecords
  <2> QED
    BY <1>1, <1>3, <1>4, <1>5, <1>6, <2>1, <2>2, <2>3 DEF Executing, Ending
<1>7. CASE OthersRecord
  BY <1>7, PlainRecord DEF OthersRecord, RecordOther
<1>8. CASE ControlRequested
  <2>1. /\ events + Reserved + 3 <= MaxEvents /\ events' = events + 1
        /\ controlSlots' = controlSlots + 2 /\ remaining' = remaining
    BY <1>8 DEF ControlRequested, Room
  <2>2. Reserved' = Reserved + 2
    BY <1>0, <2>1, ReservedType DEF Reserved, BudgetInv
  <2> QED
    BY <1>0, <2>1, <2>2 DEF BudgetInv, BudgetType, PromisesFit
<1>9. ASSUME NEW freed \in 1..2, ControlRecords(freed)
      PROVE  BudgetInv'
  <2>1. /\ controlSlots >= freed /\ events' = events + 1
        /\ controlSlots' = controlSlots - freed /\ remaining' = remaining
    BY <1>9 DEF ControlRecords
  <2>2. SumFunction(remaining) \in Nat
    BY ReservedType DEF BudgetInv
  <2>3. Reserved' = Reserved - freed /\ Reserved >= freed
    BY <1>0, <2>1, <2>2 DEF Reserved
  <2>4. events' + Reserved' <= MaxEvents
    BY <1>0, <2>1, <2>3 DEF BudgetInv, PromisesFit
  <2> QED
    BY <1>0, <2>1, <2>3, <2>4 DEF BudgetInv, BudgetType, PromisesFit
<1> QED
  BY <1>1, <1>2, <1>6, <1>7, <1>8, <1>9 DEF Next, vars

-----------------------------------------------------------------------------
(* The grants.                                                             *)

LEMMA InitGrants == Init => GrantsInv
<1> SUFFICES ASSUME Init PROVE GrantsInv
  OBVIOUS
<1>1. Executors = {}
  BY DEF Init, Executors
<1>2. Shape /\ Begun
  BY DEF Init, Shape, Begun, Stage
<1> QED
  BY <1>1, <1>2 DEF Init, GrantsInv, EachStartHasItsGrant

(* Nothing an execution refers to changes, and no spent grant comes back   *)
(* into the store or changes its plan.                                     *)
LEMMA OthersKeepGrants ==
  ASSUME GrantsInv, Shape', UNCHANGED executionVars,
         \A g \in Grants : granted[g] # None =>
            granted'[g] = granted[g] /\ (g \notin stored => g \notin stored')
  PROVE  GrantsInv'
<1>1. Begun' /\ Executors' = Executors
  BY DEF GrantsInv, Begun, executionVars, Executors
<1>2. \A x \in Executions : spent[x] # None =>
        spent[x] \in Grants /\ granted[spent[x]] # None
  BY PlansType DEF GrantsInv, Begun, EachStartHasItsGrant
<1> QED
  BY <1>1, <1>2 DEF GrantsInv, EachStartHasItsGrant, executionVars

LEMMA UnindexedType ==
  ASSUME Shape, NEW gone
  PROVE  Unindexed(gone) \in [Plans -> Grants \cup {None}]
  BY DEF Shape, Unindexed

(* An execution leaves: its plan, which no other holds, is free. *)
LEMMA LeaveKeeps ==
  ASSUME GrantsInv, NEW x \in Executors, Leave(x),
         UNCHANGED <<asking, grantVars>>
  PROVE  GrantsInv'
<1>1. x \in Executions /\ stage[x] # "new" /\ plan[x] \in Plans
  BY DEF Executors, GrantsInv, Begun
<1>2. Shape'
  BY <1>1 DEF GrantsInv, Shape, Leave, grantVars, Stage
<1>3. Begun'
  BY <1>1 DEF GrantsInv, Shape, Begun, Leave
<1>4. Executors' = Executors \ {x}
  BY <1>1 DEF GrantsInv, Shape, Leave, Executors
<1>5. active' = {plan[y] : y \in Executors \ {x}}
  BY <1>1 DEF GrantsInv, EachStartHasItsGrant, Leave
<1> QED
  BY <1>2, <1>3, <1>4, <1>5 DEF GrantsInv, EachStartHasItsGrant, Leave, grantVars

LEMMA ExecuteKeeps ==
  ASSUME GrantsInv, NEW x \in Executions, NEW p \in Plans, NEW g \in Grants,
         Execute(x, p, g)
  PROVE  GrantsInv'
<1>1. Shape'
  BY UnindexedType DEF GrantsInv, Shape, Execute, Consume, Stage
<1>2. Begun'
  BY DEF GrantsInv, Shape, Begun, Execute
<1>3. Executors' = Executors \cup {x} /\ x \notin Executors
  BY DEF GrantsInv, Shape, Execute, Executors
<1>4. /\ \A y \in Executions \ {x} : plan'[y] = plan[y] /\ spent'[y] = spent[y]
      /\ plan'[x] = p /\ spent'[x] = g /\ spent[x] = None
  BY DEF GrantsInv, Shape, Begun, Execute
<1>5. /\ active = {plan[y] : y \in Executors} /\ p \notin active
      /\ active' = active \cup {p}
  BY DEF GrantsInv, EachStartHasItsGrant, Execute
<1>6. active' = {plan'[y] : y \in Executors'}
  <2>1. \A y \in Executors : plan'[y] = plan[y]
    BY <1>3, <1>4 DEF Executors
  <2> QED
    BY <1>3, <1>4, <1>5, <2>1
<1>7. \A y, z \in Executors' : plan'[y] = plan'[z] => y = z
  <2>1. \A y \in Executors : plan'[y] = plan[y] /\ plan[y] # p
    BY <1>3, <1>4, <1>5 DEF Executors
  <2> QED
    BY <1>3, <1>4, <2>1 DEF GrantsInv, EachStartHasItsGrant
<1>8. \A y \in Executions \ {x} : spent[y] # g
  BY PlansType DEF GrantsInv, EachStartHasItsGrant, Execute, Consume
<1>9. \A y, z \in Executions : spent'[y] = spent'[z] /\ spent'[y] # None => y = z
  BY <1>4, <1>8 DEF GrantsInv, EachStartHasItsGrant
<1>10. \A y \in Executions : spent'[y] # None =>
         granted'[spent'[y]] = plan'[y] /\ spent'[y] \notin stored'
  BY <1>4 DEF GrantsInv, EachStartHasItsGrant, Execute, Consume
<1> QED
  BY <1>1, <1>2, <1>6, <1>7, <1>9, <1>10 DEF GrantsInv, EachStartHasItsGrant

LEMMA NextKeepsGrants ==
  ASSUME GrantsInv, [Next]_vars
  PROVE  GrantsInv'
<1>1. CASE UNCHANGED <<asking, grantVars, executionVars>>
  BY <1>1, OthersKeepGrants DEF GrantsInv, Shape, grantVars, executionVars
<1>2. ASSUME NEW i \in Issuers, NEW p \in Plans, AskGrant(i, p)
      PROVE  GrantsInv'
  <2>1. Shape'
    BY <1>2, UnindexedType DEF GrantsInv, Shape, AskGrant, Prune, executionVars
  <2> QED
    BY <1>2, <2>1, OthersKeepGrants DEF AskGrant, Prune
<1>3. ASSUME NEW i \in Issuers, GrantRefused(i) \/ GrantRepeated(i)
      PROVE  GrantsInv'
  <2>1. Shape'
    BY <1>3, UnindexedType
       DEF GrantsInv, Shape, GrantRefused, GrantRepeated, Prune, grantVars, executionVars
  <2> QED
    BY <1>3, <2>1, OthersKeepGrants DEF GrantRefused, GrantRepeated, Prune, grantVars
<1>4. ASSUME NEW i \in Issuers, NEW g \in Grants, GrantIssued(i, g)
      PROVE  GrantsInv'
  <2>1. asking[i] \in Plans
    BY <1>4 DEF GrantsInv, Shape, GrantIssued
  <2>2. Shape'
    BY <1>4, <2>1, UnindexedType DEF GrantsInv, Shape, GrantIssued, executionVars
  <2>3. \A h \in Grants : granted[h] # None =>
          granted'[h] = granted[h] /\ (h \notin stored => h \notin stored')
    BY <1>4 DEF GrantsInv, Shape, GrantIssued
  <2> QED
    BY <1>4, <2>2, <2>3, OthersKeepGrants DEF GrantIssued
<1>5. ASSUME NEW g \in Grants, Expire(g) \/ ExecuteRefused(g)
      PROVE  GrantsInv'
  <2>1. Shape'
    BY <1>5, UnindexedType
       DEF GrantsInv, Shape, Expire, ExecuteRefused, Consume, executionVars
  <2> QED
    BY <1>5, <2>1, OthersKeepGrants DEF Expire, ExecuteRefused, Consume
<1>6. ASSUME NEW x \in Executions, CheckFails(x) \/ EngineThrows(x) \/ ExecutionEnds(x)
      PROVE  GrantsInv'
  BY <1>6, LeaveKeeps DEF CheckFails, EngineThrows, ExecutionEnds, Executors
<1>7. ASSUME NEW x \in Executions, EngineStarts(x)
      PROVE  GrantsInv'
  <2>1. Shape' /\ Begun'
    BY <1>7 DEF GrantsInv, Shape, Begun, EngineStarts, grantVars, Stage
  <2>2. Executors' = Executors
    BY <1>7 DEF GrantsInv, Shape, EngineStarts, Executors
  <2> QED
    BY <1>7, <2>1, <2>2 DEF GrantsInv, EachStartHasItsGrant, EngineStarts, grantVars
<1>8. CASE Issuing
  BY <1>2, <1>3, <1>4, <1>8 DEF Issuing
<1>9. CASE Executing
  <2>1. ASSUME NEW x \in Executions, ExecutionRecords(x)
        PROVE  GrantsInv'
    BY <1>1, <2>1 DEF ExecutionRecords
  <2> QED
    BY <1>5, <1>6, <1>7, <1>9, <2>1, ExecuteKeeps DEF Executing, Ending
<1>10. CASE OthersRecord \/ ControlRequested \/ \E freed \in 1..2 : ControlRecords(freed)
  BY <1>1, <1>10 DEF OthersRecord, ControlRequested, ControlRecords
<1> QED
  BY <1>1, <1>8, <1>9, <1>10 DEF Next, vars

LEMMA InitFits == Init => BudgetInv
<1> SUFFICES ASSUME Init PROVE BudgetInv
  OBVIOUS
<1>1. BudgetType
  BY MaxEventsType DEF Init, BudgetInit, BudgetType
<1>2. SumFunction(remaining) = 0
  <2>1. remaining \in [Executions -> Nat] /\ \A x \in Executions : remaining[x] = 0
    BY DEF Init, BudgetInit
  <2> QED
    BY <2>1, SumOfNothing, ExecutionsType
<1> QED
  BY <1>1, <1>2, MaxEventsType DEF Init, BudgetInit, BudgetInv, PromisesFit, Reserved

LEMMA GrantsInvariant == Spec => [](GrantsInv /\ BudgetInv)
<1>1. Init => GrantsInv /\ BudgetInv
  BY InitGrants, InitFits
<1>2. GrantsInv /\ BudgetInv /\ [Next]_vars => (GrantsInv /\ BudgetInv)'
  BY NextKeepsGrants, NextFits DEF GrantsInv
<1> QED
  BY <1>1, <1>2, PTL DEF Spec

-----------------------------------------------------------------------------
(* TypeOK for any number of plans, issuers, grants and executions. *)
THEOREM GrantsTypeOK == Spec => []TypeOK
<1>1. GrantsInv /\ BudgetInv => TypeOK
  BY DEF GrantsInv, Shape, BudgetInv, TypeOK
<1> QED
  BY <1>1, GrantsInvariant, PTL

(* PromisesFit: what is promised to executions and control chains fits in  *)
(* the store beside what is recorded, however many promise and record.     *)
THEOREM PromisesFitAlways == Spec => []PromisesFit
<1>1. BudgetInv => PromisesFit
  BY DEF BudgetInv
<1> QED
  BY <1>1, GrantsInvariant, PTL

(* EachStartHasItsGrant: a plan executes at most once at a time and each   *)
(* execution spent a grant of its own, for its plan, that is gone.         *)
THEOREM EachStartHasItsGrantAlways == Spec => []EachStartHasItsGrant
<1>1. GrantsInv => EachStartHasItsGrant
  BY DEF GrantsInv
<1> QED
  BY <1>1, GrantsInvariant, PTL
=============================================================================
