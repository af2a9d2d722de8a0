------------------------------- MODULE Backup -------------------------------
(***************************************************************************)
(* Backups, archives and restoring of one prefix: multidb::backup, archive *)
(* and restore, what they call in wrocksdb and wrocksdb_restore, and the   *)
(* directories they move and copy.  Two timers run the backup and the      *)
(* archive, so that both may run at once.                                  *)
(*                                                                         *)
(* A failed backup puts the directory of the backups aside, closes the     *)
(* prefix, opens it again and makes one more attempt.  Every object has a  *)
(* mutex of its own, and the table has one that close_prefix_ holds while  *)
(* it waits for the object's.  RocksDB's backup engine is modelled by what *)
(* it does to the directory: a backup is listed when it is complete.       *)
(***************************************************************************)
EXTENDS Integers, FiniteSets, Sequences, SequencesExt

CONSTANTS
  Depth,        \* backup_config::depth
  ArchiveDepth, \* archive_config::depth
  BackupIds,    \* restore_config::backup_id, the values it may have
  MaxBackups,   \* bound: backups made
  MaxFailures,  \* bound: backups that failed
  MaxArchives,  \* bound: archives begun
  Faults,       \* what may go wrong: a subset of AllFaults
  Absent,       \* no directory, no entry in the table
  Null          \* the null entry of a prefix that could not be opened

\* create: a backup fails.  purge: old ones are not deleted.  move: the directory is
\* not renamed.  open: the prefix is not opened again.  copy: a file is not copied.
\* damage: a backup's files are damaged.  crash: the process ends.
AllFaults == {"create", "purge", "move", "open", "copy", "damage", "crash"}

ASSUME DepthAssumption == Depth \in Nat /\ ArchiveDepth \in Nat /\ BackupIds \subseteq Int
ASSUME BoundsAssumption ==
  /\ {MaxBackups, MaxFailures, MaxArchives} \subseteq Nat
  /\ Faults \subseteq AllFaults

Tasks == {"backup", "archive"}

VARIABLES
  dir,      \* backup.path/prefix: the backups listed, oldest first, or Absent
  bak,      \* the directory put aside, in the same way
  archives, \* what is in archive.path, oldest first
  entry,    \* the object the table holds, or Absent, or Null
  stopped,  \* those that were stopped
  up,       \* the service: "yes", "no", or "restored" when it was started for that
  table,    \* who holds the mutex of the table
  lock,     \* who holds the mutex of each object
  task,     \* the two threads
  made,     \* bound, and the name of a backup: backups made
  failed,   \* bound
  archived, \* bound
  fails,    \* auxiliary: attempts to make a backup that failed since the last made
  restored  \* what a restore ended with

dirs == <<dir, bak, archives>>
objects == <<entry, stopped, up, table>>
aux == <<made, failed, archived, fails>>
vars == <<dirs, objects, lock, task, aux, restored>>

(***************************************************************************)
(* A definition named Op_Word is the form Op would have after a plausible  *)
(* mistake; nothing uses it but the check that a property would notice.    *)
(***************************************************************************)

\* Names of objects: two threads may hold one each that the table does not.
Objects == 1..3
ASSUME AbsentAssumption ==
  /\ Absent # Null /\ {Absent, Null} \cap Objects = {}
  /\ Absent \notin Seq([id : Nat, name : Nat]) /\ Absent \notin [id : Nat, good : BOOLEAN]

NoTask == [pc |-> "idle", obj |-> 0, again |-> FALSE, first |-> {}, late |-> FALSE]

\* Of an archive: copied without an error, the backups it lists are those it has the
\* files of, its object was not in the table when copying began, a file was not copied.
NoArchive == [whole |-> FALSE, agree |-> FALSE, late |-> FALSE, lost |-> FALSE]
Nothing == [asked |-> 0, from |-> <<>>, backup |-> Absent]

Free == table = "free"
At(t, pc) == task[t].pc = pc
Goto(t, pc) == task' = [task EXCEPT ![t].pc = pc]
Over(t) == task' = [task EXCEPT ![t] = NoTask]

\* A directory as its list: what is not there holds no backup.
Listed(d) == IF d = Absent THEN <<>> ELSE d
Names == {b.name : b \in Range(Listed(dir))}
-----------------------------------------------------------------------------
(* The table of multidb, as far as it matters here. *)

New == CHOOSE o \in Objects : \A t \in Tasks : task[t].obj # o

\* multidb::prefix_ for a prefix that is not in the table: the factory opens the
\* database and the backup engine, which creates its directory.
Opens ==
  /\ Free /\ up = "yes" /\ entry = Absent
  /\ \/ /\ entry' = New /\ stopped' = stopped \ {New}
        /\ dir' = Listed(dir)
     \/ /\ "open" \in Faults
        /\ entry' = Null /\ UNCHANGED <<stopped, dir>>

\* Some request does.
Open ==
  /\ Opens
  /\ UNCHANGED <<bak, archives, up, table, lock, task, aux, restored>>

\* The database that backup and archive go on with, for a prefix that all_prefixes_
\* has listed.
Take(t) ==
  /\ At(t, "take") /\ Free /\ entry # Absent
  /\ IF entry = Null
     THEN Over(t)
     ELSE task' = [task EXCEPT ![t].obj = entry, ![t].pc = IF t = "backup" THEN "check" ELSE "lock"]
  /\ UNCHANGED <<dirs, objects, lock, aux, restored>>

\* prefix_ opens it for them, or gives them nothing once the service is stopped.
TakeOpens(t) ==
  /\ At(t, "take") /\ Opens
  /\ UNCHANGED <<bak, archives, up, table, lock, task, aux, restored>>

TakeNothing(t) ==
  /\ At(t, "take") /\ Free /\ up = "no"
  /\ Over(t)
  /\ UNCHANGED <<dirs, objects, lock, aux, restored>>

\* multidb::stop: the object is stopped under both mutexes; the timers fire no more.
Stop ==
  /\ up = "yes" /\ Free
  /\ entry \in Objects => lock[entry] = "free"
  /\ up' = "no" /\ entry' = Absent
  /\ stopped' = IF entry \in Objects THEN stopped \cup {entry} ELSE stopped
  /\ UNCHANGED <<dirs, table, lock, task, aux, restored>>

-----------------------------------------------------------------------------
(* multidb::backup and wrocksdb::backup. *)

BackupTimer ==
  /\ up = "yes" /\ At("backup", "idle") /\ entry \in Objects /\ made < MaxBackups
  /\ Goto("backup", "take")
  /\ UNCHANGED <<dirs, objects, lock, aux, restored>>

\* What multidb does when the object says no: once more after a first refusal.
Refused == IF task["backup"].again THEN Over("backup") ELSE Goto("backup", "close")

\* _is_stopped is read before the mutex is taken.
Check ==
  /\ At("backup", "check")
  /\ IF task["backup"].obj \in stopped THEN Refused ELSE Goto("backup", "lock")
  /\ UNCHANGED <<dirs, objects, lock, aux, restored>>

\* PurgeOldBackups(depth - 1), before the new one is made; a depth of 0 wraps to
\* more than there ever are.
Kept_TooFew(d) == SubSeq(d, Len(d) - Depth + 3, Len(d))
Kept(d) ==
  IF Depth = 0 \/ Len(d) < Depth THEN d ELSE SubSeq(d, Len(d) - Depth + 2, Len(d))
Purge ==
  /\ At("backup", "lock") /\ lock[task["backup"].obj] = "free"
  /\ lock' = [lock EXCEPT ![task["backup"].obj] = "backup"]
  /\ Goto("backup", "create")
  /\ \/ dir' = IF dir = Absent THEN dir ELSE Kept(dir)
     \/ "purge" \in Faults /\ dir' = dir
  /\ UNCHANGED <<bak, archives, objects, aux, restored>>

Unlock_Not == UNCHANGED lock
Unlock == lock' = [lock EXCEPT ![task["backup"].obj] = "free"]

NextId(d) == IF d = <<>> THEN 1 ELSE Last(d).id + 1

\* CreateNewBackup, which needs the directory.
Create ==
  /\ At("backup", "create")
  /\ task["backup"].obj \notin stopped /\ dir # Absent
  /\ made' = made + 1 /\ fails' = 0
  /\ dir' = Append(dir, [id |-> NextId(dir), name |-> made'])
  /\ Over("backup") /\ Unlock
  /\ UNCHANGED <<bak, archives, objects, failed, archived, restored>>

\* Of an object stopped since the check the status of GarbageCollect is taken for
\* that of a backup.
CreateNone ==
  /\ At("backup", "create") /\ task["backup"].obj \in stopped
  /\ Over("backup") /\ Unlock
  /\ UNCHANGED <<dirs, objects, aux, restored>>

CreateFails ==
  /\ At("backup", "create") /\ task["backup"].obj \notin stopped
  /\ dir = Absent \/ ("create" \in Faults /\ failed < MaxFailures)
  /\ failed' = IF dir = Absent THEN failed ELSE failed + 1
  /\ fails' = IF fails < 2 THEN fails + 1 ELSE 2
  /\ Goto("backup", "remove")
  /\ UNCHANGED <<dirs, objects, lock, made, archived, restored>>

\* The directory is moved to its name and ".bak", where the one that an earlier
\* failure left is deleted.
RemoveBak ==
  /\ At("backup", "remove")
  /\ bak' = Absent
  /\ Goto("backup", "move")
  /\ UNCHANGED <<dir, archives, objects, lock, aux, restored>>

Move ==
  /\ At("backup", "move")
  /\ \/ dir # Absent /\ bak' = dir /\ dir' = Absent
     \/ (dir = Absent \/ "move" \in Faults) /\ UNCHANGED <<dir, bak>>
  /\ Refused /\ Unlock
  /\ UNCHANGED <<archives, objects, aux, restored>>

\* multidb::close_prefix_ takes the mutex of the table and then that of the object.
Close ==
  /\ At("backup", "close") /\ Free
  /\ table' = "backup"
  /\ Goto("backup", "closing")
  /\ UNCHANGED <<dirs, entry, stopped, up, lock, aux, restored>>

Closed ==
  /\ At("backup", "closing")
  /\ entry \in Objects => lock[entry] = "free"
  /\ stopped' = IF entry \in Objects THEN stopped \cup {entry} ELSE stopped
  /\ entry' = Absent /\ table' = "free"
  /\ task' = [task EXCEPT !["backup"] = [NoTask EXCEPT !.pc = "take", !.again = TRUE]]
  /\ UNCHANGED <<dirs, up, lock, aux, restored>>

-----------------------------------------------------------------------------
(* multidb::archive and wrocksdb::archive. *)

\* Old archives are deleted, but for depth of them, and a directory is created for
\* the new one.
Pruned(a) == IF Len(a) < ArchiveDepth THEN a ELSE SubSeq(a, Len(a) - ArchiveDepth + 1, Len(a))
ArchiveTimer ==
  /\ up = "yes" /\ At("archive", "idle") /\ entry \in Objects
  /\ archived < MaxArchives /\ archived' = archived + 1
  /\ archives' = Append(Pruned(archives), NoArchive)
  /\ Goto("archive", "take")
  /\ UNCHANGED <<dir, bak, objects, lock, made, failed, fails, restored>>

\* file::copy under the mutex of the object, which may be stopped by now.  The files
\* of the backups and their lists are copied one after the other, either first: what
\* was there for the first is kept until the second.
CopyLocked_Not(o) == TRUE
CopyLocked(o) == lock[o] = "free"
Copy ==
  /\ At("archive", "lock") /\ CopyLocked(task["archive"].obj)
  /\ IF dir = Absent
     THEN Over("archive") /\ UNCHANGED lock
     ELSE /\ lock' = [lock EXCEPT ![task["archive"].obj] = "archive"]
          /\ task' = [task EXCEPT !["archive"] =
               [@ EXCEPT !.pc = "copy", !.first = Names, !.late = task["archive"].obj # entry]]
  /\ UNCHANGED <<dirs, objects, aux, restored>>

\* Errors of copy_file are not looked at: the copy counts as whole all the same.
CopyRest ==
  /\ At("archive", "copy")
  /\ \E lost \in IF "copy" \in Faults THEN BOOLEAN ELSE {FALSE} :
       archives' = [archives EXCEPT ![Len(archives)] =
         [whole |-> dir # Absent, agree |-> task["archive"].first = Names /\ ~lost,
          late |-> task["archive"].late, lost |-> lost]]
  /\ lock' = [lock EXCEPT ![task["archive"].obj] = IF @ = "archive" THEN "free" ELSE @]
  /\ Over("archive")
  /\ UNCHANGED <<dir, bak, objects, aux, restored>>

-----------------------------------------------------------------------------
(* The process ends, and is started again, to serve or to restore. *)

\* Nothing of a task is left but what it did to the directories.
Down ==
  /\ task' = [t \in Tasks |-> NoTask] /\ lock' = [o \in Objects |-> "free"]
  /\ table' = "free" /\ stopped' = {} /\ entry' = Absent

Restart ==
  /\ up = "no" \/ "crash" \in Faults
  /\ up # "restored"
  /\ Down /\ up' = "yes"
  /\ UNCHANGED <<dirs, aux, restored>>

\* wrocksdb_restore::restore tries the latest backup whatever it is asked for, and
\* then those that backup_id does not pass over, the oldest first.
PassedOver(d, bid, i) == IF bid > 0 THEN d[i].id < bid ELSE i <= -bid
Tried_OnlyLatest(d, bid) == {i \in DOMAIN d : i = Len(d)}
Tried(d, bid) == {i \in DOMAIN d : i = Len(d) \/ ~PassedOver(d, bid, i)}
Chosen(d, bid) ==
  LET good == {i \in Tried(d, bid) : d[i].good}
  IN  IF good = {} THEN Absent ELSE IF Len(d) \in good THEN Last(d) ELSE d[Min(good)]

\* prefixdb_domain::restore_ of a copy of the backups, some of them damaged: the
\* database that was there is put aside, and the one restored takes its place.
Restore ==
  /\ up = "no" /\ task = [t \in Tasks |-> NoTask]
  /\ up' = "restored"
  /\ \E bid \in BackupIds, d \in {dir, bak} \ {Absent} :
       \E bad \in IF "damage" \in Faults THEN SUBSET DOMAIN d ELSE {{}} :
         LET found == [i \in DOMAIN d |-> [id |-> d[i].id, good |-> i \notin bad]]
         IN  restored' = [asked |-> bid, from |-> found, backup |-> Chosen(found, bid)]
  /\ UNCHANGED <<dirs, entry, stopped, table, lock, task, aux>>

Init ==
  /\ dir = <<>> /\ bak = Absent /\ archives = <<>>
  /\ entry = 1 /\ stopped = {} /\ up = "yes" /\ table = "free"
  /\ lock = [o \in Objects |-> "free"]
  /\ task = [t \in Tasks |-> NoTask]
  /\ made = 0 /\ failed = 0 /\ archived = 0 /\ fails = 0
  /\ restored = Nothing

BackupStep ==
  \/ Take("backup") \/ TakeOpens("backup") \/ TakeNothing("backup")
  \/ Check \/ Purge \/ Create \/ CreateNone \/ CreateFails \/ RemoveBak \/ Move
  \/ Close \/ Closed

ArchiveStep ==
  Take("archive") \/ TakeOpens("archive") \/ TakeNothing("archive") \/ Copy \/ CopyRest

Next ==
  \/ BackupTimer \/ BackupStep \/ ArchiveTimer \/ ArchiveStep
  \/ Open \/ Stop \/ Restart \/ Restore

Spec == Init /\ [][Next]_vars

\* Threads run.
FairSpec == Spec /\ WF_vars(BackupStep) /\ WF_vars(ArchiveStep)
-----------------------------------------------------------------------------
(* Properties. *)

\* With a depth of two or more, once a backup was made there is one to restore from,
\* in the directory or in the one put aside, until two attempts in a row fail.
KeepsAPoint ==
  made > 0 /\ fails <= 1 /\ Depth # 1 => Listed(dir) # <<>> \/ Listed(bak) # <<>>

\* An archive that was copied without an error has the files of exactly the backups
\* it lists, if the object it was made through was the one in the table.
ArchiveIsWhole ==
  \A i \in DOMAIN archives :
    LET a == archives[i]
    IN  a.whole /\ ~a.late /\ ~a.lost => a.agree

\* A restore takes a good backup, with the number it was asked for or a later one
\* unless it takes the last of all, and fails only if there is none.
RestoresGood ==
  LET r == restored
      numbered == {b \in Range(r.from) : b.good /\ b.id >= r.asked}
  IN  /\ r.backup # Absent =>
           /\ r.backup \in Range(r.from) /\ r.backup.good
           /\ r.asked > 0 /\ r.backup # Last(r.from) => r.backup.id >= r.asked
      /\ r.backup = Absent /\ r.asked >= 0 => numbered = {}

\* restore_config.hpp:12-14, "the last backup; > 0 the number of a backup": the one
\* restored is the one with that number, or the last that can be.
RestoresWhatWasAsked ==
  LET r == restored
  IN  r.backup # Absent =>
        /\ r.asked > 0 => r.backup.id = r.asked
        /\ r.asked = 0 => \A b \in Range(r.from) : b.good => b.id <= r.backup.id

\* Neither task waits for ever, though one closes what the other works on.
TasksEnd == \A t \in Tasks : []<>At(t, "idle")
=============================================================================
