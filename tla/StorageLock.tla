----------------------------- MODULE StorageLock -----------------------------
(***************************************************************************)
(* How the hosts that share one storage directory decide which of them     *)
(* writes the journal (src/src/event-ledger.ts).  A host is one            *)
(* FoundryEventLedger in a process of its own; a restart is another host.  *)
(* Every call on the file system is one step, so the steps of two hosts    *)
(* interleave and a process may end between any two of them.  A file that  *)
(* is created and then written is torn in between.                         *)
(***************************************************************************)
EXTENDS Naturals, FiniteSets

CONSTANTS
  Hosts,         \* every ledger ever constructed on the directory
  Nobody,        \* not a host: the owner of no lock
  SerialStarts,  \* does a host start only when no other one is starting?
  MistakenPids,  \* hosts whose pid another process carries once they ended
  FailingDisk    \* hosts whose writes, renames and unlinks may fail

ASSUME HostsType        == IsFiniteSet(Hosts) /\ Nobody \notin Hosts
ASSUME SerialStartsType == SerialStarts \in BOOLEAN
ASSUME MistakenType     == MistakenPids \subseteq Hosts
ASSUME FailingDiskType  == FailingDisk \subseteq Hosts

VARIABLES
  pc,         \* where each host stands
  directory,  \* the storage directory when a host last looked
  marker,     \* storage.owner.json
  lock        \* writer.lock: whose it is and whether it was written whole

lockVars == <<pc, directory, marker, lock>>

Starting ==
  {"found", "made",   \* the directory was there, or was not
   "listing",         \* about to read its entries
   "marking",         \* about to create storage.owner.json
   "stamping",        \* created it, about to write it
   "locking",         \* about to create writer.lock
   "writing",         \* created it, about to write it
   "inspecting",      \* writer.lock was there: about to read it
   "renaming",        \* read a lock whose owner is dead
   "relocking",       \* moved it away, about to create its own
   "loading"}         \* holds the lock, about to read the journal

Place == Starting \cup
  {"off",
   "owner",    \* constructed, holds the lock
   "memory",   \* constructed, degraded: not the writer
   "leaving",  \* dispose found its own lock, about to unlink it
   "gone",     \* disposed
   "dead"}     \* the process ended

Unlocked == [owner |-> Nobody, whole |-> FALSE]

LockType ==
  /\ pc \in [Hosts -> Place]
  /\ directory \in {"absent", "own", "foreign"}
  /\ marker \in {"absent", "torn", "whole"}
  /\ lock \in {Unlocked} \cup [owner : Hosts, whole : BOOLEAN]

LockInit ==
  /\ pc = [h \in Hosts |-> "off"]
  /\ directory \in {"absent", "own", "foreign"}
  /\ marker = "absent"
  /\ lock = Unlocked

Goto(h, place) == pc' = [pc EXCEPT ![h] = place]

(* acquireStorageLock looks whether the directory exists. *)
Arrive(h) ==
  /\ pc[h] = "off"
  /\ SerialStarts => \A other \in Hosts : pc[other] \notin Starting
  /\ Goto(h, IF directory = "absent" THEN "made" ELSE "found")
  /\ UNCHANGED <<directory, marker, lock>>

(* mkdir, then claimStorageDirectory looks for the marker.  A marker that  *)
(* does not parse is an error like any other: the host stays in memory.    *)
Claim(h) ==
  /\ pc[h] \in {"found", "made"}
  /\ directory' = IF directory = "absent" THEN "own" ELSE directory
  /\ Goto(h, CASE marker = "whole" -> "locking"
               [] marker = "torn" -> "memory"
               [] OTHER -> IF pc[h] = "found" THEN "listing" ELSE "marking")
  /\ UNCHANGED <<marker, lock>>

(* storage.owner.json is not among the entries a directory without it may  *)
(* have, so a marker another host created meanwhile is refused too.        *)
ListEntries(h) ==
  /\ pc[h] = "listing"
  /\ Goto(h, IF directory = "foreign" \/ marker # "absent"
             THEN "memory" ELSE "marking")
  /\ UNCHANGED <<directory, marker, lock>>

CreateMarker(h) ==
  /\ pc[h] = "marking"
  /\ marker' = IF marker = "absent" THEN "torn" ELSE marker
  /\ Goto(h, CASE marker = "absent" -> "stamping"
               [] marker = "torn" -> "memory"
               [] OTHER -> "locking")
  /\ UNCHANGED <<directory, lock>>

WriteMarker(h) ==
  /\ pc[h] = "stamping"
  /\ marker' = "whole"
  /\ Goto(h, "locking")
  /\ UNCHANGED <<directory, lock>>

(* Mutated: the retry after a stale lock is given up. *)
CreateLockOnce(h) ==
  /\ pc[h] \in {"locking", "relocking"}
  /\ IF lock = Unlocked /\ pc[h] = "locking"
     THEN lock' = [owner |-> h, whole |-> FALSE] /\ Goto(h, "writing")
     ELSE /\ Goto(h, IF pc[h] = "locking" THEN "inspecting" ELSE "memory")
          /\ UNCHANGED lock
  /\ UNCHANGED <<directory, marker>>

(* The exclusive creation of writer.lock.  The retry after a stale lock    *)
(* gives up when the name is taken again.                                  *)
CreateLock(h) ==
  /\ pc[h] \in {"locking", "relocking"}
  /\ IF lock = Unlocked
     THEN lock' = [owner |-> h, whole |-> FALSE] /\ Goto(h, "writing")
     ELSE /\ Goto(h, IF pc[h] = "locking" THEN "inspecting" ELSE "memory")
          /\ UNCHANGED lock
  /\ UNCHANGED <<directory, marker>>

(* The content goes to the file that was created, wherever its name went. *)
WriteLock(h) ==
  /\ pc[h] = "writing"
  /\ lock' = IF lock.owner = h THEN [owner |-> h, whole |-> TRUE] ELSE lock
  /\ Goto(h, "loading")
  /\ UNCHANGED <<directory, marker>>

(* processIsAlive *)
LooksAlive(h) == pc[h] # "dead" \/ h \in MistakenPids

(* Mutated: the owner is not asked whether it lives. *)
InspectLockOnly(h) ==
  /\ pc[h] = "inspecting"
  /\ Goto(h, IF lock # Unlocked /\ lock.whole THEN "renaming" ELSE "memory")
  /\ UNCHANGED <<directory, marker, lock>>

(* recoverStaleStorageLock reads the lock: none, a torn one and that of a  *)
(* live process are left alone.                                            *)
InspectLock(h) ==
  /\ pc[h] = "inspecting"
  /\ Goto(h, IF lock # Unlocked /\ lock.whole /\ ~LooksAlive(lock.owner)
             THEN "renaming" ELSE "memory")
  /\ UNCHANGED <<directory, marker, lock>>

(* The rename moves whatever now has the name. *)
RenameLock(h) ==
  /\ pc[h] = "renaming"
  /\ lock' = Unlocked
  /\ Goto(h, IF lock = Unlocked THEN "memory" ELSE "relocking")
  /\ UNCHANGED <<directory, marker>>

(* A call of the start fails otherwise than on an existing name. *)
StartFails(h) ==
  /\ h \in FailingDisk
  /\ pc[h] \in Starting \ {"loading"}
  /\ Goto(h, "memory")
  /\ UNCHANGED <<directory, marker, lock>>

Loaded(h) == pc[h] = "loading" /\ Goto(h, "owner")

(* dispose *)
Dispose(h) ==
  /\ pc[h] \in {"owner", "memory"}
  /\ Goto(h, IF pc[h] = "owner" /\ lock = [owner |-> h, whole |-> TRUE]
             THEN "leaving" ELSE "gone")
  /\ UNCHANGED <<directory, marker, lock>>

(* The unlink removes whatever now has the name. *)
Unlink(h) ==
  /\ pc[h] = "leaving"
  /\ Goto(h, "gone")
  /\ \/ lock' = Unlocked
     \/ h \in FailingDisk /\ UNCHANGED lock
  /\ UNCHANGED <<directory, marker>>

ProcessEnds(h) ==
  /\ pc[h] \notin {"off", "dead"}
  /\ Goto(h, "dead")
  /\ UNCHANGED <<directory, marker, lock>>

(* The steps of one constructor, up to the journal. *)
Acquire(h) ==
  \/ Claim(h) \/ ListEntries(h) \/ CreateMarker(h) \/ WriteMarker(h)
  \/ CreateLock(h) \/ WriteLock(h) \/ InspectLock(h) \/ RenameLock(h)
  \/ StartFails(h)

LockStep(h) ==
  \/ Arrive(h) \/ Acquire(h)
  \/ Loaded(h) /\ UNCHANGED <<directory, marker, lock>>
  \/ Dispose(h) \/ Unlink(h) \/ ProcessEnds(h)

LockNext == \E h \in Hosts : LockStep(h)

LockSpec == LockInit /\ [][LockNext]_lockVars

(* A constructor is synchronous: once called it runs to its end. *)
LockFairSpec == LockSpec /\ \A h \in Hosts : WF_lockVars(Acquire(h))

-----------------------------------------------------------------------------
(* At most one host writes the journal, whatever the others do and          *)
(* wherever a process ended: the comment on dispose and the documentation  *)
(* call the lock a cooperative single-writer lock.                         *)
Writers == {h \in Hosts : pc[h] \in {"loading", "owner"}}

SingleWriter == \A g, h \in Writers : g = h

(* A host whose disk works and that starts in a marked directory with no   *)
(* lock, or with the lock a dead process left whole, gets to write: a      *)
(* crash of the writer does not cost its successor the journal.            *)
Free == lock = Unlocked \/ (lock.whole /\ ~LooksAlive(lock.owner))

SuccessorGetsTheDisk ==
  \A h \in Hosts \ FailingDisk :
    pc[h] = "found" /\ marker = "whole" /\ Free
      ~> pc[h] \in {"loading", "owner", "leaving", "gone", "dead"}
=============================================================================
