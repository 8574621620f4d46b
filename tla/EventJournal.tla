---------------------------- MODULE EventJournal -----------------------------
(***************************************************************************)
(* The journal events.jsonl and the ledgers that load and extend it        *)
(* (src/src/event-ledger.ts), on top of the lock that picks the writer.    *)
(*                                                                         *)
(* A record carries the digest of the record before it, and that one the   *)
(* digest of its predecessor: a line stands for the whole history it       *)
(* closes, so a file is a sequence of histories, in order when line i is   *)
(* the first i facts of the last line.                                     *)
(***************************************************************************)
EXTENDS StorageLock, LedgerFacts

CONSTANTS
  MaxJournalRecords,  \* maxJournalRecords
  MaxFacts            \* bound on the facts of one host (model only)

ASSUME MaxJournalRecordsType == MaxJournalRecords \in Nat \ {0}
ASSUME MaxFactsType          == MaxFacts \in Nat

VARIABLES
  history,  \* the facts each host holds, in the order of their records
  storage,  \* storageState: "ready" or "degraded"
  file,     \* the complete lines of events.jsonl
  tail,     \* does an incomplete line follow them?
  harmed    \* was the file damaged, or did the disk fail while it was read?

journalVars == <<history, storage, file, tail, harmed>>
hostVars == <<lockVars, journalVars>>

JournalTypeOK ==
  /\ LockType
  /\ history \in [Hosts -> Seq(Facts)]
  /\ storage \in [Hosts -> {"ready", "degraded"}]
  /\ file \in Seq(Seq(Facts)) /\ Len(file) <= MaxJournalRecords
  /\ tail \in BOOLEAN
  /\ harmed \in BOOLEAN

JournalInit ==
  /\ LockInit
  /\ history = [h \in Hosts |-> <<>>]
  /\ storage = [h \in Hosts |-> "ready"]
  /\ file = <<>>
  /\ tail = FALSE
  /\ harmed = FALSE

Lines(facts) == [i \in 1..Len(facts) |-> SubSeq(facts, 1, i)]

FactsIn(lines) == IF lines = <<>> THEN <<>> ELSE lines[Len(lines)]

(* loadJournal and loadRecord find nothing wrong. *)
Loadable(lines) ==
  /\ Len(lines) <= MaxJournalRecords
  /\ lines = Lines(FactsIn(lines))
  /\ \A i \in 1..Len(lines) :
       Admissible(SubSeq(FactsIn(lines), 1, i - 1), FactsIn(lines)[i])

(* The lock's steps leave the journal alone.  A constructor that ends      *)
(* without the lock keeps its facts in memory.                             *)
Contend(h) ==
  /\ Arrive(h) \/ Acquire(h) \/ Dispose(h) \/ Unlink(h)
  /\ storage' = [storage EXCEPT
       ![h] = IF pc[h] \in Starting /\ pc'[h] = "memory"
              THEN "degraded" ELSE @]
  /\ UNCHANGED <<history, file, tail, harmed>>

(* What a process held in memory ends with it. *)
End(h) ==
  /\ ProcessEnds(h)
  /\ history' = [history EXCEPT ![h] = <<>>]
  /\ storage' = [storage EXCEPT ![h] = "ready"]
  /\ UNCHANGED <<file, harmed>>

(* Mutated: the incomplete line stays in the file. *)
LoadOverTail(h) ==
  /\ Loaded(h)
  /\ Loadable(file)
  /\ history' = [history EXCEPT ![h] = FactsIn(file)]
  /\ UNCHANGED <<directory, marker, lock, storage, file, tail, harmed>>

(* loadJournal: the incomplete line is set aside and the rest replayed. *)
Load(h) ==
  /\ Loaded(h)
  /\ Loadable(file)
  /\ history' = [history EXCEPT ![h] = FactsIn(file)]
  /\ tail' = FALSE
  /\ UNCHANGED <<directory, marker, lock, storage, file, harmed>>

(* quarantineCorruptJournal.  Any error leads here, the disk's as well as  *)
(* a record that does not fit, and the rename may fail too.                *)
Quarantine(h) ==
  /\ Loaded(h)
  /\ h \in FailingDisk \/ ~Loadable(file)
  /\ harmed' = (harmed \/ Loadable(file))
  /\ storage' = [storage EXCEPT ![h] = "degraded"]
  /\ \/ file' = <<>> /\ tail' = FALSE
     \/ h \in FailingDisk /\ UNCHANGED file /\ tail' \in {tail, FALSE}
  /\ UNCHANGED <<directory, marker, lock, history>>

(* recordEvent, recordReceipt, recordPlanRevision, recordExecutionSnapshot *)
(* accept a new fact.  The same fact again and a refused one change        *)
(* nothing.                                                                *)
Recordable(h, fact) ==
  /\ pc[h] \in {"owner", "memory"}
  /\ Len(history[h]) < MaxFacts
  /\ \A i \in Versions(history[h], fact) :
       Latest(history[h], fact) # fact
  /\ Admissible(history[h], fact)

Remember(h, fact) ==
  history' = [history EXCEPT ![h] = Append(@, fact)]

(* A degraded ledger: append only advances the sequence in memory. *)
RecordInMemory(h, fact) ==
  /\ Recordable(h, fact)
  /\ storage[h] = "degraded"
  /\ Remember(h, fact)
  /\ UNCHANGED <<lockVars, storage, file, tail, harmed>>

(* Mutated: a journal at its limit takes one more record. *)
AppendPastLimit(h, fact) ==
  /\ Recordable(h, fact)
  /\ storage[h] = "ready"
  /\ Len(history[h]) <= MaxJournalRecords
  /\ Remember(h, fact)
  /\ file' = Append(file, Append(history[h], fact))
  /\ UNCHANGED <<lockVars, storage, tail, harmed>>

(* The journal has room and the write succeeds. *)
AppendRecord(h, fact) ==
  /\ Recordable(h, fact)
  /\ storage[h] = "ready"
  /\ Len(history[h]) < MaxJournalRecords
  /\ Remember(h, fact)
  /\ file' = Append(file, Append(history[h], fact))
  /\ UNCHANGED <<lockVars, storage, tail, harmed>>

(* The journal is full, or the write fails and may leave part of a line.   *)
AppendFails(h, fact) ==
  /\ Recordable(h, fact)
  /\ storage[h] = "ready"
  /\ Len(history[h]) >= MaxJournalRecords \/ h \in FailingDisk
  /\ Remember(h, fact)
  /\ storage' = [storage EXCEPT ![h] = "degraded"]
  /\ IF Len(history[h]) >= MaxJournalRecords
     THEN UNCHANGED tail ELSE tail' \in {tail, TRUE}
  /\ UNCHANGED <<lockVars, file, harmed>>

(* The process ends in the middle of appendFileSync. *)
EndsWhileAppending(h, fact) ==
  /\ Recordable(h, fact)
  /\ storage[h] = "ready"
  /\ Len(history[h]) < MaxJournalRecords
  /\ End(h)
  /\ tail' = TRUE

(* External: while no host uses the file, a line is lost or made           *)
(* unreadable, once.                                                       *)
Damage ==
  /\ ~harmed
  /\ Writers = {}
  /\ \E i \in DOMAIN file :
       \/ file' = [file EXCEPT ![i] = <<>>]
       \/ file' = SubSeq(file, 1, i - 1) \o SubSeq(file, i + 1, Len(file))
  /\ harmed' = TRUE
  /\ UNCHANGED <<lockVars, history, storage, tail>>

HostStep(h) ==
  \/ Contend(h) \/ (End(h) /\ UNCHANGED tail) \/ Load(h) \/ Quarantine(h)
  \/ \E fact \in Facts :
       \/ RecordInMemory(h, fact) \/ AppendRecord(h, fact)
       \/ AppendFails(h, fact) \/ EndsWhileAppending(h, fact)

JournalNext == Damage \/ \E h \in Hosts : HostStep(h)

JournalSpec == JournalInit /\ [][JournalNext]_hostVars

-----------------------------------------------------------------------------
(* `durability` says "disk" only while the file holds exactly the facts    *)
(* the host holds: no fact it acknowledged is missing, none is there that  *)
(* it does not know, and nothing half written stands where the next record *)
(* goes.                                                                   *)
DiskMeansDisk ==
  \A h \in Hosts :
    pc[h] = "owner" /\ storage[h] = "ready"
      => file = Lines(history[h]) /\ ~tail

(* What the recorders write, the loader accepts: short of harm, no restart *)
(* and no crash ever sends the history into quarantine.                    *)
OwnJournalLoads == harmed \/ Loadable(file)

(* A restart brings back a history that only grew, fact by legal fact,     *)
(* under every host that wrote it, and lost nothing while the disk held.   *)
Replayed == IF Loadable(file) THEN FactsIn(file) ELSE <<>>

Promise == INSTANCE DurableLog WITH log <- Replayed

JournalIsDurable == Promise!Spec
=============================================================================
