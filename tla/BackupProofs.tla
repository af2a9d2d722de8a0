---------------------------- MODULE BackupProofs ----------------------------
(***************************************************************************)
(* Proofs about the backups, archives and restores of a prefix, for every  *)
(* depth, bound and fault: there is a backup to restore from until two     *)
(* attempts in a row fail, an archive has the files of the backups that it *)
(* lists, and a restore takes a good backup if it may.                     *)
(***************************************************************************)
EXTENDS Backup, SequenceTheorems, WellFoundedInduction, TLAPS

USE DepthAssumption, BoundsAssumption, AbsentAssumption

Backups == [id : Nat, name : Nat]
Directories == Seq(Backups) \cup {Absent}
Pcs == {"idle", "take", "check", "lock", "create", "remove", "move", "close", "closing", "copy"}
TaskType == [pc : Pcs, obj : {0} \cup Objects, again : BOOLEAN, first : SUBSET Nat, late : BOOLEAN]
ArchiveType == [whole : BOOLEAN, agree : BOOLEAN, late : BOOLEAN, lost : BOOLEAN]

Typed ==
  /\ dir \in Directories /\ bak \in Directories /\ archives \in Seq(ArchiveType)
  /\ entry \in Objects \cup {Absent, Null} /\ lock \in [Objects -> {"free", "backup", "archive"}]
  /\ task \in [Tasks -> TaskType] /\ made \in Nat /\ fails \in 0..2

\* While a backup works on the directory it has the mutex of its object, which is the
\* one in the table unless the service was stopped.  An archive that copies through the
\* object in the table has its mutex, so that neither the table nor the directory
\* changes before it has the rest.
Locking ==
  /\ up # "yes" => entry = Absent
  /\ \A pc \in {"check", "lock", "create", "remove", "move"} :
       At("backup", pc) => task["backup"].obj \in Objects /\ (entry = task["backup"].obj \/ up # "yes")
  /\ \A pc \in {"create", "remove", "move"} : At("backup", pc) => lock[task["backup"].obj] = "backup"
  /\ \A pc \in {"lock", "copy"} : At("archive", pc) => task["archive"].obj \in Objects
  /\ At("archive", "copy") /\ ~task["archive"].late =>
       /\ entry = task["archive"].obj /\ lock[entry] = "archive"
       /\ Names = task["archive"].first

HasBackup(d) == Listed(d) # <<>>

\* Where the backup to restore from is.
Points ==
  /\ At("backup", "remove") \/ At("backup", "move") => fails # 0
  /\ made > 0 /\ Depth # 1 =>
       /\ fails = 0 => HasBackup(dir)
       /\ fails = 1 => HasBackup(dir) \/ HasBackup(bak)
       /\ fails = 1 /\ (At("backup", "remove") \/ At("backup", "move")) => HasBackup(dir)

BackupInv == Typed /\ Locking /\ Points /\ ArchiveIsWhole /\ RestoresGood
-----------------------------------------------------------------------------
(* What the steps do to a task. *)

LEMMA GotoFacts ==
  ASSUME Typed, NEW t \in Tasks, NEW pc \in Pcs, Goto(t, pc)
  PROVE  /\ task' \in [Tasks -> TaskType] /\ task'[t].pc = pc
         /\ task'[t].obj = task[t].obj /\ task'[t].late = task[t].late /\ task'[t].first = task[t].first
         /\ \A u \in Tasks \ {t} : task'[u] = task[u]
BY DEF Goto, Typed, TaskType

LEMMA OverFacts ==
  ASSUME Typed, NEW t \in Tasks, Over(t)
  PROVE  /\ task' \in [Tasks -> TaskType] /\ task'[t].pc = "idle"
         /\ \A u \in Tasks \ {t} : task'[u] = task[u]
<1>1. NoTask \in TaskType /\ NoTask.pc = "idle"
  BY DEF NoTask, TaskType, Pcs
<1> HIDE DEF NoTask
<1> QED BY <1>1 DEF Over, Typed

LEMMA RefusedFacts ==
  ASSUME Typed, Refused
  PROVE  /\ task' \in [Tasks -> TaskType] /\ task'["backup"].pc \in {"idle", "close"}
         /\ task'["archive"] = task["archive"]
<1>1. Over("backup") \/ Goto("backup", "close")
  BY DEF Refused
<1> QED BY <1>1, GotoFacts, OverFacts DEF Tasks, Pcs

LEMMA TakenFacts ==
  ASSUME Typed, NEW t \in Tasks, NEW pc \in Pcs, entry \in Objects,
         task' = [task EXCEPT ![t].obj = entry, ![t].pc = pc]
  PROVE  /\ task' \in [Tasks -> TaskType] /\ task'[t].pc = pc /\ task'[t].obj = entry
         /\ \A u \in Tasks \ {t} : task'[u] = task[u]
<1> DEFINE mid == [task EXCEPT ![t].obj = entry]
<1>1. /\ mid \in [Tasks -> TaskType] /\ mid[t].obj = entry
      /\ \A u \in Tasks \ {t} : mid[u] = task[u]
  BY DEF Typed, TaskType
<1>2. task' = [mid EXCEPT ![t].pc = pc]
  OBVIOUS
<1> HIDE DEF mid
<1>3. task'[t] = [mid[t] EXCEPT !.pc = pc] /\ \A u \in Tasks \ {t} : task'[u] = mid[u]
  BY <1>1, <1>2
<1>4. [mid[t] EXCEPT !.pc = pc] \in TaskType /\ task'[t].pc = pc /\ task'[t].obj = mid[t].obj
  <2>1. mid[t] \in TaskType
    BY <1>1
  <2>2. ASSUME NEW c \in TaskType
        PROVE  /\ [c EXCEPT !.pc = pc] \in TaskType /\ [c EXCEPT !.pc = pc].pc = pc
               /\ [c EXCEPT !.pc = pc].obj = c.obj
    BY DEF TaskType
  <2> QED BY <1>3, <2>1, <2>2
<1>5. task' = [u \in Tasks |-> task'[u]]
  BY <1>1, <1>2
<1> QED BY <1>1, <1>3, <1>4, <1>5

LEMMA NewIsObject == ASSUME Typed PROVE New \in Objects /\ \A t \in Tasks : task[t].obj # New
<1>1. \E o \in Objects : task["backup"].obj # o /\ task["archive"].obj # o
  BY DEF Objects
<1> QED BY <1>1 DEF New, Tasks

\* Opening a prefix leaves in its directory what was there.
LEMMA OpensFacts ==
  ASSUME Typed, Opens
  PROVE  /\ entry = Absent /\ up = "yes" /\ entry' \in Objects \cup {Null}
         /\ dir' \in Directories /\ Listed(dir') = Listed(dir)
<1>1. <<>> \in Seq(Backups) /\ <<>> # Absent
  <2>1. <<>> \in Seq(Backups)
    BY EmptySeq
  <2> QED BY <2>1 DEF Backups
<1>2. entry = Absent /\ up = "yes" /\ entry' \in {New, Null} /\ dir' \in {dir, Listed(dir)}
  BY DEF Opens
<1>3. Listed(dir) \in Seq(Backups) /\ Listed(dir) # Absent
  BY <1>1 DEF Listed, Typed, Directories, Backups
<1>4. Listed(dir') = Listed(dir)
  BY <1>2, <1>3 DEF Listed
<1> QED BY <1>2, <1>3, <1>4, NewIsObject DEF Typed, Directories

\* Deleting old backups keeps at least one, for a depth other than one.
LEMMA KeptFacts ==
  ASSUME NEW d \in Seq(Backups)
  PROVE  Kept(d) \in Seq(Backups) /\ (Depth # 1 /\ d # <<>> => Kept(d) # <<>>)
<1>1. CASE Depth = 0 \/ Len(d) < Depth
  BY <1>1 DEF Kept
<1>2. CASE ~(Depth = 0 \/ Len(d) < Depth)
  <2> DEFINE n == Len(d) - Depth + 2
  <2>1. Len(d) \in Nat /\ Depth \in Nat /\ Depth # 0 /\ Len(d) >= Depth /\ n \in Nat /\ n >= 2
    BY <1>2, LenProperties
  <2>2. Kept(d) = SubSeq(d, n, Len(d))
    BY <1>2 DEF Kept
  <2>3. \A i \in n..Len(d) : d[i] \in Backups
    BY <2>1, ElementOfSeq
  <2> HIDE DEF n
  <2>4. /\ SubSeq(d, n, Len(d)) \in Seq(Backups)
        /\ Len(SubSeq(d, n, Len(d))) = IF n <= Len(d) THEN Len(d) - n + 1 ELSE 0
    BY <2>1, <2>3, SubSeqProperties
  <2>5. Depth # 1 => n <= Len(d)
    BY <2>1 DEF n
  <2>6. Depth # 1 => Len(SubSeq(d, n, Len(d))) # 0
    BY <2>1, <2>4, <2>5
  <2>7. SubSeq(d, n, Len(d)) = <<>> => Len(SubSeq(d, n, Len(d))) = 0
    BY EmptySeq
  <2> QED BY <2>2, <2>4, <2>6, <2>7
<1> QED BY <1>1, <1>2

LEMMA PurgeFacts ==
  ASSUME Typed, Purge
  PROVE  dir' \in Directories /\ (Depth # 1 /\ HasBackup(dir) => HasBackup(dir'))
<1>1. CASE dir = Absent \/ dir' = dir
  BY <1>1 DEF Purge, Typed
<1>2. CASE dir # Absent /\ dir' # dir
  <2>1. dir \in Seq(Backups) /\ dir' = Kept(dir)
    BY <1>2 DEF Purge, Typed, Directories
  <2>2. dir' \in Seq(Backups) /\ dir' # Absent
    BY <2>1, KeptFacts DEF Backups
  <2> QED BY <1>2, <2>1, <2>2, KeptFacts DEF HasBackup, Listed, Directories
<1> QED BY <1>1, <1>2

LEMMA CreateFacts ==
  ASSUME Typed, Create
  PROVE  dir' \in Directories /\ HasBackup(dir') /\ made' \in Nat /\ fails' = 0
<1>1. dir \in Seq(Backups) /\ made' = made + 1 /\ made' \in Nat /\ fails' = 0
  BY DEF Create, Typed, Directories
<1> DEFINE b == [id |-> NextId(dir), name |-> made']
<1>2. NextId(dir) \in Nat
  <2>1. dir # <<>> => Len(dir) \in 1..Len(dir)
    BY <1>1, EmptySeq
  <2>2. dir # <<>> => dir[Len(dir)] \in Backups
    BY <1>1, <2>1, ElementOfSeq
  <2> QED BY <2>2 DEF NextId, Last, Backups
<1>3. b \in Backups
  BY <1>1, <1>2 DEF Backups
<1>4. dir' = Append(dir, b)
  BY DEF Create
<1> HIDE DEF b
<1>5. dir' \in Seq(Backups) /\ dir' # <<>>
  BY <1>1, <1>3, <1>4, AppendProperties
<1>6. dir' # Absent
  BY <1>5 DEF Backups
<1> QED BY <1>1, <1>5, <1>6 DEF HasBackup, Listed, Directories

\* The mutex of the backup's object is released.
LEMMA UnlockFacts ==
  ASSUME Typed, Unlock, task["backup"].obj \in Objects
  PROVE  /\ lock' \in [Objects -> {"free", "backup", "archive"}]
         /\ \A o \in Objects : o # task["backup"].obj => lock'[o] = lock[o]
BY DEF Unlock, Typed

\* Old archives are deleted, and what is said of all of them is said of those kept.
LEMMA ArchivesPruned ==
  ASSUME Typed, NEW A, A \subseteq ArchiveType, NoArchive \in A, archives \in Seq(A)
  PROVE  Append(Pruned(archives), NoArchive) \in Seq(A)
<1>1. Pruned(archives) \in Seq(A)
  <2>1. CASE Len(archives) < ArchiveDepth
    BY <2>1 DEF Pruned
  <2>2. CASE ~(Len(archives) < ArchiveDepth)
    <3> DEFINE n == Len(archives) - ArchiveDepth + 1
    <3>1. Len(archives) \in Nat /\ ArchiveDepth \in Nat /\ n \in Nat /\ n >= 1
      BY <2>2, LenProperties
    <3>2. \A i \in n..Len(archives) : archives[i] \in A
      BY <3>1, ElementOfSeq
    <3>3. Pruned(archives) = SubSeq(archives, n, Len(archives))
      BY <2>2 DEF Pruned
    <3> HIDE DEF n
    <3> QED BY <3>1, <3>2, <3>3, SubSeqProperties
  <2> QED BY <2>1, <2>2
<1> QED BY <1>1, AppendProperties

LEMMA NamesAreNumbers == ASSUME Typed PROVE Names \subseteq Nat
<1>1. Listed(dir) \in Seq(Backups)
  BY EmptySeq DEF Listed, Typed, Directories
<1>2. Range(Listed(dir)) \subseteq Backups
  BY <1>1, RangeOfSeq
<1> QED BY <1>2 DEF Names, Backups
-----------------------------------------------------------------------------
(* Types. *)

\* A step of the backup task or of the archive: which actions may change what.
LEMMA TypedSteps == ASSUME Typed, Locking, Next PROVE Typed'
<1>1. ASSUME NEW t \in Tasks, Take(t) PROVE Typed'
  <2>1. \/ entry = Null /\ Over(t)
        \/ /\ entry \in Objects
           /\ task' = [task EXCEPT ![t].obj = entry, ![t].pc = IF t = "backup" THEN "check" ELSE "lock"]
    BY <1>1 DEF Take, Typed
  <2>2. task' \in [Tasks -> TaskType]
    <3>1. CASE Over(t)
      BY <3>1, OverFacts
    <3>2. CASE /\ entry \in Objects
               /\ task' = [task EXCEPT ![t].obj = entry, ![t].pc = IF t = "backup" THEN "check" ELSE "lock"]
      <4>1. (IF t = "backup" THEN "check" ELSE "lock") \in Pcs
        BY DEF Pcs
      <4> QED BY <3>2, <4>1, TakenFacts
    <3> QED BY <2>1, <3>1, <3>2
  <2> QED BY <1>1, <2>2 DEF Take, Typed, dirs, objects, aux
<1>2. ASSUME NEW t \in Tasks, TakeOpens(t) PROVE Typed'
  <2>1. Opens /\ UNCHANGED <<bak, archives, lock, task, made, fails>>
    BY <1>2 DEF TakeOpens, aux
  <2> QED BY <2>1, OpensFacts DEF Typed
<1>3. ASSUME NEW t \in Tasks, TakeNothing(t) PROVE Typed'
  <2>1. Over(t) /\ UNCHANGED <<dirs, entry, lock, made, fails>>
    BY <1>3 DEF TakeNothing, objects, aux
  <2> QED BY <2>1, OverFacts DEF Typed, dirs
<1>4. CASE Open
  <2>1. Opens /\ UNCHANGED <<bak, archives, lock, task, made, fails>>
    BY <1>4 DEF Open, aux
  <2> QED BY <2>1, OpensFacts DEF Typed
<1>5. CASE Stop
  BY <1>5 DEF Stop, Typed, dirs, aux
<1>6. CASE BackupTimer \/ RemoveBak
  <2>1. /\ \E pc \in {"take", "move"} : Goto("backup", pc)
        /\ bak' \in {bak, Absent} /\ UNCHANGED <<dir, archives, entry, lock, made, fails>>
    BY <1>6 DEF BackupTimer, RemoveBak, dirs, objects, aux
  <2> QED BY <2>1, GotoFacts DEF Typed, Tasks, Pcs, Directories
<1>7. CASE Check
  <2>1. /\ Refused \/ Goto("backup", "lock")
        /\ UNCHANGED <<dir, bak, archives, entry, lock, made, fails>>
    BY <1>7 DEF Check, dirs, objects, aux
  <2> QED BY <2>1, GotoFacts, RefusedFacts DEF Typed, Tasks, Pcs
<1>8. CASE Purge
  <2>1. /\ lock' = [lock EXCEPT ![task["backup"].obj] = "backup"] /\ Goto("backup", "create")
        /\ UNCHANGED <<bak, archives, entry, made, fails>>
    BY <1>8 DEF Purge, objects, aux
  <2>2. task' \in [Tasks -> TaskType]
    BY <2>1, GotoFacts DEF Tasks, Pcs
  <2> QED BY <1>8, <2>1, <2>2, PurgeFacts DEF Typed
<1>9. CASE Create
  <2>1. Over("backup") /\ Unlock /\ UNCHANGED <<bak, archives, entry>> /\ At("backup", "create")
    BY <1>9 DEF Create, objects
  <2>2. task' \in [Tasks -> TaskType]
    BY <2>1, OverFacts DEF Tasks
  <2> QED BY <1>9, <2>1, <2>2, CreateFacts, UnlockFacts DEF Typed, Locking
<1>10. CASE CreateNone
  <2>1. /\ Over("backup") /\ Unlock /\ UNCHANGED <<dir, bak, archives, entry, made, fails>>
        /\ At("backup", "create")
    BY <1>10 DEF CreateNone, dirs, objects, aux
  <2>2. task' \in [Tasks -> TaskType]
    BY <2>1, OverFacts DEF Tasks
  <2> QED BY <2>1, <2>2, UnlockFacts DEF Typed, Locking
<1>11. CASE CreateFails
  <2>1. /\ Goto("backup", "remove") /\ UNCHANGED <<dir, bak, archives, entry, lock, made>>
        /\ fails' = IF fails < 2 THEN fails + 1 ELSE 2
    BY <1>11 DEF CreateFails, dirs, objects
  <2>2. task' \in [Tasks -> TaskType]
    BY <2>1, GotoFacts DEF Tasks, Pcs
  <2> QED BY <2>1, <2>2 DEF Typed
<1>12. CASE Move
  <2>1. /\ Refused /\ Unlock /\ UNCHANGED <<archives, entry, made, fails>> /\ At("backup", "move")
        /\ dir' \in {dir, Absent} /\ bak' \in {dir, bak}
    BY <1>12 DEF Move, objects, aux
  <2>2. task' \in [Tasks -> TaskType]
    BY <2>1, RefusedFacts
  <2> QED BY <2>1, <2>2, UnlockFacts DEF Typed, Locking, Directories
<1>13. CASE Close
  <2>1. Goto("backup", "closing") /\ UNCHANGED <<dir, bak, archives, entry, lock, made, fails>>
    BY <1>13 DEF Close, dirs, aux
  <2>2. task' \in [Tasks -> TaskType]
    BY <2>1, GotoFacts DEF Tasks, Pcs
  <2> QED BY <2>1, <2>2 DEF Typed
<1>14. CASE Closed
  <2>1. /\ task' = [task EXCEPT !["backup"] = [NoTask EXCEPT !.pc = "take", !.again = TRUE]]
        /\ entry' = Absent /\ UNCHANGED <<dir, bak, archives, lock, made, fails>>
    BY <1>14 DEF Closed, dirs, aux
  <2>2. [NoTask EXCEPT !.pc = "take", !.again = TRUE] \in TaskType
    BY DEF NoTask, TaskType, Pcs
  <2> QED BY <2>1, <2>2 DEF Typed
<1>15. CASE ArchiveTimer
  <2>1. /\ Goto("archive", "take") /\ archives' = Append(Pruned(archives), NoArchive)
        /\ UNCHANGED <<dir, bak, entry, lock, made, fails>>
    BY <1>15 DEF ArchiveTimer, objects
  <2>2. task' \in [Tasks -> TaskType]
    BY <2>1, GotoFacts DEF Tasks, Pcs
  <2>3. NoArchive \in ArchiveType
    BY DEF NoArchive, ArchiveType
  <2>4. archives' \in Seq(ArchiveType)
    BY <2>1, <2>3, ArchivesPruned DEF Typed
  <2> QED BY <2>1, <2>2, <2>4 DEF Typed
<1>16. CASE Copy
  <2>1. /\ At("archive", "lock") /\ UNCHANGED <<dir, bak, archives, entry, made, fails>>
        /\ \/ Over("archive") /\ lock' = lock
           \/ /\ lock' = [lock EXCEPT ![task["archive"].obj] = "archive"]
              /\ task' = [task EXCEPT !["archive"] =
                   [@ EXCEPT !.pc = "copy", !.first = Names, !.late = task["archive"].obj # entry]]
              /\ dir # Absent
    BY <1>16 DEF Copy, dirs, objects, aux
  <2>2. task' \in [Tasks -> TaskType] /\ lock' \in [Objects -> {"free", "backup", "archive"}]
    <3>1. CASE Over("archive") /\ lock' = lock
      BY <3>1, OverFacts DEF Tasks, Typed
    <3>2. CASE ~(Over("archive") /\ lock' = lock)
      <4>1. [task["archive"] EXCEPT !.pc = "copy", !.first = Names, !.late = task["archive"].obj # entry] \in TaskType
        BY NamesAreNumbers DEF Typed, TaskType, Tasks, Pcs
      <4> QED BY <2>1, <3>2, <4>1 DEF Typed
    <3> QED BY <3>1, <3>2
  <2> QED BY <2>1, <2>2 DEF Typed
<1>17. CASE CopyRest
  <2>1. /\ Over("archive") /\ UNCHANGED <<dir, bak, entry, made, fails>> /\ At("archive", "copy")
        /\ lock' = [lock EXCEPT ![task["archive"].obj] = IF @ = "archive" THEN "free" ELSE @]
        /\ \E a \in ArchiveType : archives' = [archives EXCEPT ![Len(archives)] = a]
    <3>1. PICK lost \in BOOLEAN :
            archives' = [archives EXCEPT ![Len(archives)] =
              [whole |-> dir # Absent, agree |-> task["archive"].first = Names /\ ~lost,
               late |-> task["archive"].late, lost |-> lost]]
      BY <1>17, Zenon DEF CopyRest
    <3>2. task["archive"].late \in BOOLEAN
      BY DEF Typed, TaskType, Tasks
    <3>3. [whole |-> dir # Absent, agree |-> task["archive"].first = Names /\ ~lost,
           late |-> task["archive"].late, lost |-> lost] \in ArchiveType
      BY <3>2 DEF ArchiveType
    <3> QED BY <1>17, <3>1, <3>3 DEF CopyRest, objects, aux
  <2>2. task' \in [Tasks -> TaskType]
    BY <2>1, OverFacts DEF Tasks
  <2>3. archives' \in Seq(ArchiveType)
    <3>1. Len(archives) \in Nat /\ archives \in [1..Len(archives) -> ArchiveType]
      BY LenProperties DEF Typed
    <3>2. archives' \in [1..Len(archives) -> ArchiveType]
      BY <2>1, <3>1
    <3> QED BY <3>1, <3>2, SeqDef
  <2> QED BY <2>1, <2>2, <2>3 DEF Typed
<1>18. CASE Restart
  <2>1. NoTask \in TaskType
    BY DEF NoTask, TaskType, Pcs
  <2> QED BY <1>18, <2>1 DEF Restart, Down, Typed, dirs, aux
<1>19. CASE Restore
  BY <1>19 DEF Restore, Typed, dirs, aux
<1> QED BY <1>1, <1>2, <1>3, <1>4, <1>5, <1>6, <1>7, <1>8, <1>9, <1>10, <1>11, <1>12, <1>13, <1>14,
           <1>15, <1>16, <1>17, <1>18, <1>19 DEF Next, BackupStep, ArchiveStep, Tasks
-----------------------------------------------------------------------------
(* The mutexes. *)

\* Nothing is done to the directory while an archive copies through the object in the
\* table.
Copying == At("archive", "copy") /\ ~task["archive"].late

LEMMA NoneElse ==
  ASSUME Typed, Locking, Copying
  PROVE  /\ entry \in Objects /\ lock[entry] # "free"
         /\ \A pc \in {"create", "remove", "move"} : ~At("backup", pc)
         /\ At("backup", "lock") => lock[task["backup"].obj] # "free"
<1>1. /\ task["archive"].obj \in Objects /\ entry = task["archive"].obj /\ lock[entry] = "archive"
      /\ up = "yes"
  BY DEF Locking, Copying
<1> QED BY <1>1 DEF Locking

LEMMA LockingSteps == ASSUME Typed, Typed', Locking, Next PROVE Locking'
<1> USE DEF Locking, At
<1>1. ASSUME NEW t \in Tasks, Take(t) PROVE Locking'
  <2>1. /\ At(t, "take") /\ UNCHANGED <<dir, entry, up, lock>>
        /\ \/ Over(t)
           \/ /\ entry \in Objects
              /\ task' = [task EXCEPT ![t].obj = entry, ![t].pc = IF t = "backup" THEN "check" ELSE "lock"]
    BY <1>1 DEF Take, Typed, dirs, objects
  <2>2. Names' = Names
    BY <2>1 DEF Names
  <2>3. CASE Over(t)
    <3>1. task'[t].pc = "idle" /\ \A u \in Tasks \ {t} : task'[u] = task[u]
      BY <2>3, OverFacts
    <3> QED BY <2>1, <2>2, <3>1 DEF Tasks
  <2>4. CASE /\ entry \in Objects
             /\ task' = [task EXCEPT ![t].obj = entry, ![t].pc = IF t = "backup" THEN "check" ELSE "lock"]
    <3>1. CASE t = "backup"
      <4>1. task' = [task EXCEPT !["backup"].obj = entry, !["backup"].pc = "check"]
        BY <2>4, <3>1
      <4>2. /\ task'["backup"].pc = "check" /\ task'["backup"].obj = entry
            /\ task'["archive"] = task["archive"]
        BY <2>4, <4>1, TakenFacts DEF Tasks, Pcs
      <4> QED BY <2>1, <2>2, <2>4, <4>2
    <3>2. CASE t = "archive"
      <4>1. task' = [task EXCEPT !["archive"].obj = entry, !["archive"].pc = "lock"]
        BY <2>4, <3>2
      <4>2. /\ task'["archive"].pc = "lock" /\ task'["archive"].obj = entry
            /\ task'["backup"] = task["backup"]
        BY <2>4, <4>1, TakenFacts DEF Tasks, Pcs
      <4> QED BY <2>1, <2>2, <2>4, <4>2
    <3> QED BY <3>1, <3>2 DEF Tasks
  <2> QED BY <2>1, <2>3, <2>4
<1>2. ASSUME Opens, UNCHANGED <<up, lock, task>> PROVE Locking'
  <2>1. entry = Absent /\ up = "yes"
    BY <1>2, OpensFacts
  <2>2. ~Copying
    BY <2>1, NoneElse
  <2> QED BY <1>2, <2>1, <2>2 DEF Copying
<1>3. ASSUME NEW t \in Tasks, TakeNothing(t) PROVE Locking'
  <2>1. Over(t) /\ UNCHANGED <<dir, entry, up, lock>>
    BY <1>3 DEF TakeNothing, dirs, objects
  <2>2. task'[t].pc = "idle" /\ \A u \in Tasks \ {t} : task'[u] = task[u]
    BY <2>1, OverFacts
  <2> QED BY <2>1, <2>2 DEF Names, Tasks
<1>4. CASE Stop
  <2>1. /\ entry \in Objects => lock[entry] = "free"
        /\ entry' = Absent /\ up' = "no" /\ UNCHANGED <<dir, lock, task>>
    BY <1>4 DEF Stop, dirs
  <2>2. ~Copying
    BY <2>1, NoneElse
  <2> QED BY <2>1, <2>2 DEF Copying
<1>5. CASE BackupTimer \/ RemoveBak
  <2>1. /\ Goto("backup", "take") \/ (At("backup", "remove") /\ Goto("backup", "move"))
        /\ UNCHANGED <<dir, entry, up, lock>>
    BY <1>5 DEF BackupTimer, RemoveBak, dirs, objects
  <2>2. /\ task'["archive"] = task["archive"] /\ task'["backup"].obj = task["backup"].obj
        /\ task'["backup"].pc = "take" \/ (At("backup", "remove") /\ task'["backup"].pc = "move")
    BY <2>1, GotoFacts DEF Tasks, Pcs
  <2> QED BY <2>1, <2>2 DEF Names
<1>6. CASE Check
  <2>1. /\ At("backup", "check") /\ (Refused \/ Goto("backup", "lock")) /\ UNCHANGED <<dir, entry, up, lock>>
    BY <1>6 DEF Check, dirs, objects
  <2>2. CASE Refused
    BY <2>1, <2>2, RefusedFacts DEF Names
  <2>3. CASE Goto("backup", "lock")
    <3>1. /\ task'["archive"] = task["archive"] /\ task'["backup"].obj = task["backup"].obj
          /\ task'["backup"].pc = "lock"
      BY <2>3, GotoFacts DEF Tasks, Pcs
    <3> QED BY <2>1, <3>1 DEF Names
  <2> QED BY <2>1, <2>2, <2>3
<1>7. CASE Purge
  <2>1. /\ At("backup", "lock") /\ lock[task["backup"].obj] = "free" /\ Goto("backup", "create")
        /\ lock' = [lock EXCEPT ![task["backup"].obj] = "backup"] /\ UNCHANGED <<entry, up>>
    BY <1>7 DEF Purge, objects
  <2>2. /\ task'["archive"] = task["archive"] /\ task'["backup"].obj = task["backup"].obj
        /\ task'["backup"].pc = "create"
    BY <2>1, GotoFacts DEF Tasks, Pcs
  <2>3. ~Copying
    BY <2>1, NoneElse
  <2>4. lock'[task["backup"].obj] = "backup"
    BY <2>1 DEF Typed
  <2> QED BY <2>1, <2>2, <2>3, <2>4 DEF Copying
<1>8. CASE Create \/ Move
  <2>1. /\ Over("backup") \/ Refused
        /\ Unlock /\ UNCHANGED <<entry, up>>
        /\ At("backup", "create") \/ At("backup", "move")
    BY <1>8 DEF Create, Move, objects
  <2>2. task'["archive"] = task["archive"] /\ task'["backup"].pc \in {"idle", "close"}
    BY <2>1, OverFacts, RefusedFacts DEF Tasks
  <2>3. ~Copying
    BY <2>1, NoneElse
  <2> QED BY <1>8, <2>1, <2>2, <2>3 DEF Copying, Create, Move, objects
<1>9. CASE CreateNone
  <2>1. Over("backup") /\ Unlock /\ At("backup", "create") /\ UNCHANGED <<dir, entry, up>>
    BY <1>9 DEF CreateNone, dirs, objects
  <2>2. task'["archive"] = task["archive"] /\ task'["backup"].pc = "idle"
    BY <2>1, OverFacts DEF Tasks
  <2>3. ~Copying
    BY <2>1, NoneElse
  <2> QED BY <2>1, <2>2, <2>3 DEF Copying
<1>10. CASE CreateFails
  <2>1. Goto("backup", "remove") /\ At("backup", "create") /\ UNCHANGED <<dir, entry, up, lock>>
    BY <1>10 DEF CreateFails, dirs, objects
  <2>2. /\ task'["archive"] = task["archive"] /\ task'["backup"].obj = task["backup"].obj
        /\ task'["backup"].pc = "remove"
    BY <2>1, GotoFacts DEF Tasks, Pcs
  <2> QED BY <2>1, <2>2 DEF Names
<1>11. CASE Close
  <2>1. Goto("backup", "closing") /\ UNCHANGED <<dir, entry, up, lock>>
    BY <1>11 DEF Close, dirs
  <2>2. task'["archive"] = task["archive"] /\ task'["backup"].pc = "closing"
    BY <2>1, GotoFacts DEF Tasks, Pcs
  <2> QED BY <2>1, <2>2 DEF Names
<1>12. CASE Closed
  <2>1. /\ entry \in Objects => lock[entry] = "free"
        /\ entry' = Absent /\ UNCHANGED <<up, lock>>
        /\ task' = [task EXCEPT !["backup"] = [NoTask EXCEPT !.pc = "take", !.again = TRUE]]
    BY <1>12 DEF Closed
  <2>2. [NoTask EXCEPT !.pc = "take", !.again = TRUE].pc = "take"
    BY DEF NoTask
  <2>3. task'["archive"] = task["archive"] /\ task'["backup"].pc = "take"
    BY <2>1, <2>2 DEF Typed, Tasks
  <2>4. ~Copying
    BY <2>1, NoneElse
  <2> QED BY <2>1, <2>3, <2>4 DEF Copying
<1>13. CASE ArchiveTimer
  <2>1. Goto("archive", "take") /\ UNCHANGED <<dir, entry, up, lock>>
    BY <1>13 DEF ArchiveTimer, objects
  <2>2. task'["backup"] = task["backup"] /\ task'["archive"].pc = "take"
    BY <2>1, GotoFacts DEF Tasks, Pcs
  <2> QED BY <2>1, <2>2
<1>14. CASE Copy
  <2>1. At("archive", "lock") /\ lock[task["archive"].obj] = "free" /\ UNCHANGED <<dir, entry, up>>
    BY <1>14 DEF Copy, CopyLocked, dirs, objects
  <2>2. CASE dir = Absent
    <3>1. Over("archive") /\ lock' = lock
      BY <1>14, <2>2 DEF Copy
    <3>2. task'["archive"].pc = "idle" /\ task'["backup"] = task["backup"]
      BY <3>1, OverFacts DEF Tasks
    <3> QED BY <2>1, <3>1, <3>2
  <2>3. CASE dir # Absent
    <3> DEFINE c == [task["archive"] EXCEPT !.pc = "copy", !.first = Names,
                                            !.late = task["archive"].obj # entry]
    <3>1. /\ lock' = [lock EXCEPT ![task["archive"].obj] = "archive"]
          /\ task' = [task EXCEPT !["archive"] = c]
      BY <1>14, <2>3 DEF Copy
    <3>2. task["archive"] \in TaskType
      BY DEF Typed, Tasks
    <3>3. /\ c.pc = "copy" /\ c.first = Names /\ c.obj = task["archive"].obj
          /\ c.late = (task["archive"].obj # entry)
      BY <3>2 DEF TaskType
    <3> HIDE DEF c
    <3>4. task'["archive"] = c /\ task'["backup"] = task["backup"]
      BY <3>1 DEF Typed, Tasks
    <3>5. /\ lock'[task["archive"].obj] = "archive"
          /\ \A o \in Objects : o # task["archive"].obj => lock'[o] = lock[o]
      BY <2>1, <3>1 DEF Typed
    <3>6. Names' = Names
      BY <2>1 DEF Names
    <3> QED BY <2>1, <3>3, <3>4, <3>5, <3>6
  <2> QED BY <2>2, <2>3
<1>15. CASE CopyRest
  <2>1. /\ Over("archive") /\ UNCHANGED <<dir, entry, up>>
        /\ lock' = [lock EXCEPT ![task["archive"].obj] = IF @ = "archive" THEN "free" ELSE @]
    BY <1>15 DEF CopyRest, objects
  <2>2. task'["archive"].pc = "idle" /\ task'["backup"] = task["backup"]
    BY <2>1, OverFacts DEF Tasks
  <2>3. \A o \in Objects : lock[o] = "backup" => lock'[o] = "backup"
    BY <2>1 DEF Typed
  <2> QED BY <2>1, <2>2, <2>3
<1>16. CASE Restart
  BY <1>16 DEF Restart, Down, NoTask, Tasks
<1>17. CASE Restore
  <2>1. task = [t \in Tasks |-> NoTask] /\ up = "no" /\ UNCHANGED <<dir, entry, lock, task>>
    BY <1>17 DEF Restore, dirs
  <2> QED BY <2>1 DEF NoTask, Tasks
<1>18. CASE Open
  BY <1>2, <1>18 DEF Open
<1>19. ASSUME NEW t \in Tasks, TakeOpens(t) PROVE Locking'
  BY <1>2, <1>19 DEF TakeOpens
<1> HIDE DEF Locking, At
<1> QED BY <1>1, <1>3, <1>4, <1>5, <1>6, <1>7, <1>8, <1>9, <1>10, <1>11, <1>12, <1>13, <1>14,
           <1>15, <1>16, <1>17, <1>18, <1>19 DEF Next, BackupStep, ArchiveStep, Tasks
-----------------------------------------------------------------------------
(* Where the backup to restore from is. *)

\* Steps that do nothing to the two directories nor to the count of attempts, and after
\* which a backup is not being put aside, or was before.
LEMMA PointsKept ==
  ASSUME Typed, Points, UNCHANGED <<bak, made, fails>>, Listed(dir') = Listed(dir),
         \A pc \in {"remove", "move"} : At("backup", pc)' => At("backup", "remove") \/ At("backup", pc)
  PROVE  Points'
BY DEF Points, HasBackup, Listed, At

LEMMA PointsSteps == ASSUME Typed, Points, Next PROVE Points'
<1>1. CASE Open \/ \E t \in Tasks : TakeOpens(t)
  <2>1. Opens /\ UNCHANGED <<bak, made, fails, task>>
    BY <1>1 DEF Open, TakeOpens, aux
  <2> QED BY <2>1, OpensFacts, PointsKept DEF At
<1>2. ASSUME NEW t \in Tasks, Take(t) PROVE Points'
  <2>1. At(t, "take") /\ UNCHANGED <<dir, bak, made, fails>>
    BY <1>2 DEF Take, dirs, aux
  <2>2. task'["backup"].pc \notin {"remove", "move"} \/ task'["backup"] = task["backup"]
    <3>1. CASE Over(t)
      BY <3>1, OverFacts DEF Tasks
    <3>2. CASE ~Over(t)
      <4>1. entry \in Objects
        BY <1>2, <3>2 DEF Take, Typed
      <4>2. CASE t = "backup"
        <5>1. task' = [task EXCEPT !["backup"].obj = entry, !["backup"].pc = "check"]
          BY <1>2, <3>2, <4>2 DEF Take
        <5> QED BY <4>1, <5>1, TakenFacts DEF Tasks, Pcs
      <4>3. CASE t = "archive"
        <5>1. task' = [task EXCEPT !["archive"].obj = entry, !["archive"].pc = "lock"]
          BY <1>2, <3>2, <4>3 DEF Take
        <5> QED BY <4>1, <5>1, TakenFacts DEF Tasks, Pcs
      <4> QED BY <4>2, <4>3 DEF Tasks
    <3> QED BY <3>1, <3>2
  <2> QED BY <2>1, <2>2, PointsKept DEF At
<1>3. ASSUME NEW t \in Tasks, TakeNothing(t) PROVE Points'
  <2>1. Over(t) /\ UNCHANGED <<dir, bak, made, fails>>
    BY <1>3 DEF TakeNothing, dirs, aux
  <2>2. task'["backup"].pc = "idle" \/ task'["backup"] = task["backup"]
    BY <2>1, OverFacts DEF Tasks
  <2> QED BY <2>1, <2>2, PointsKept DEF At
<1>4. CASE Stop
  BY <1>4, PointsKept DEF Stop, dirs, aux, At
<1>5. CASE BackupTimer
  <2>1. Goto("backup", "take") /\ UNCHANGED <<dir, bak, made, fails>>
    BY <1>5 DEF BackupTimer, dirs, aux
  <2>2. task'["backup"].pc = "take"
    BY <2>1, GotoFacts DEF Tasks, Pcs
  <2> QED BY <2>1, <2>2, PointsKept DEF At
<1>6. CASE Check
  <2>1. (Refused \/ Goto("backup", "lock")) /\ UNCHANGED <<dir, bak, made, fails>>
    BY <1>6 DEF Check, dirs, aux
  <2>2. task'["backup"].pc \in {"idle", "close", "lock"}
    BY <2>1, GotoFacts, RefusedFacts DEF Tasks, Pcs
  <2> QED BY <2>1, <2>2, PointsKept DEF At
<1>7. CASE Purge
  <2>1. Goto("backup", "create") /\ UNCHANGED <<bak, made, fails>>
    BY <1>7 DEF Purge, aux
  <2>2. task'["backup"].pc = "create"
    BY <2>1, GotoFacts DEF Tasks, Pcs
  <2>3. Depth # 1 /\ HasBackup(dir) => HasBackup(dir')
    BY <1>7, PurgeFacts
  <2> QED BY <2>1, <2>2, <2>3 DEF Points, At, HasBackup
<1>8. CASE Create
  <2>1. Over("backup")
    BY <1>8 DEF Create
  <2>2. task'["backup"].pc = "idle"
    BY <2>1, OverFacts DEF Tasks
  <2> QED BY <1>8, <2>2, CreateFacts DEF Points, At, HasBackup
<1>9. CASE CreateNone
  <2>1. Over("backup") /\ UNCHANGED <<dir, bak, made, fails>>
    BY <1>9 DEF CreateNone, dirs, aux
  <2>2. task'["backup"].pc = "idle"
    BY <2>1, OverFacts DEF Tasks
  <2> QED BY <2>1, <2>2, PointsKept DEF At
<1>10. CASE CreateFails
  <2>1. /\ At("backup", "create") /\ Goto("backup", "remove") /\ UNCHANGED <<dir, bak, made>>
        /\ fails' = IF fails < 2 THEN fails + 1 ELSE 2
    BY <1>10 DEF CreateFails, dirs
  <2>2. task'["backup"].pc = "remove"
    BY <2>1, GotoFacts DEF Tasks, Pcs
  <2> QED BY <2>1, <2>2 DEF Points, At, HasBackup, Typed
<1>11. CASE RemoveBak
  <2>1. At("backup", "remove") /\ Goto("backup", "move") /\ UNCHANGED <<dir, made, fails>>
    BY <1>11 DEF RemoveBak, aux
  <2>2. task'["backup"].pc = "move"
    BY <2>1, GotoFacts DEF Tasks, Pcs
  <2> QED BY <2>1, <2>2 DEF Points, At, HasBackup
<1>12. CASE Move
  <2>1. /\ At("backup", "move") /\ Refused /\ UNCHANGED <<made, fails>>
        /\ (bak' = dir /\ dir' = Absent) \/ UNCHANGED <<dir, bak>>
    BY <1>12 DEF Move, aux
  <2>2. task'["backup"].pc \in {"idle", "close"}
    BY <2>1, RefusedFacts
  <2> QED BY <2>1, <2>2 DEF Points, At, HasBackup
<1>13. CASE Close
  <2>1. Goto("backup", "closing") /\ UNCHANGED <<dir, bak, made, fails>>
    BY <1>13 DEF Close, dirs, aux
  <2>2. task'["backup"].pc = "closing"
    BY <2>1, GotoFacts DEF Tasks, Pcs
  <2> QED BY <2>1, <2>2, PointsKept DEF At
<1>14. CASE Closed
  <2>1. /\ task' = [task EXCEPT !["backup"] = [NoTask EXCEPT !.pc = "take", !.again = TRUE]]
        /\ UNCHANGED <<dir, bak, made, fails>>
    BY <1>14 DEF Closed, dirs, aux
  <2>2. [NoTask EXCEPT !.pc = "take", !.again = TRUE].pc = "take"
    BY DEF NoTask
  <2>3. task'["backup"].pc = "take"
    BY <2>1, <2>2 DEF Typed, Tasks
  <2> QED BY <2>1, <2>3, PointsKept DEF At
<1>15. CASE ArchiveTimer \/ Copy \/ CopyRest
  <2>1. /\ UNCHANGED <<dir, bak, made, fails>>
        /\ \/ Goto("archive", "take") \/ Over("archive")
           \/ task' = [task EXCEPT !["archive"] =
                [@ EXCEPT !.pc = "copy", !.first = Names, !.late = task["archive"].obj # entry]]
    BY <1>15 DEF ArchiveTimer, Copy, CopyRest, dirs, aux
  <2>2. task'["backup"] = task["backup"]
    BY <2>1, GotoFacts, OverFacts DEF Tasks, Pcs, Typed
  <2> QED BY <2>1, <2>2, PointsKept DEF At
<1>16. CASE Restart
  BY <1>16, PointsKept DEF Restart, Down, NoTask, Tasks, dirs, aux, At
<1>17. CASE Restore
  BY <1>17, PointsKept DEF Restore, dirs, aux, At
<1> QED BY <1>1, <1>2, <1>3, <1>4, <1>5, <1>6, <1>7, <1>8, <1>9, <1>10, <1>11, <1>12, <1>13, <1>14,
           <1>15, <1>16, <1>17 DEF Next, BackupStep, ArchiveStep, Tasks
-----------------------------------------------------------------------------
(* The archives. *)

WholeAgree == {a \in ArchiveType : a.whole /\ ~a.late /\ ~a.lost => a.agree}

LEMMA ArchivesOfSuch == ASSUME Typed PROVE ArchiveIsWhole <=> archives \in Seq(WholeAgree)
<1>1. /\ archives \in Seq(ArchiveType) /\ DOMAIN archives = 1..Len(archives)
      /\ \A i \in DOMAIN archives : archives[i] \in ArchiveType
  BY ElementOfSeq DEF Typed
<1>2. ASSUME ArchiveIsWhole PROVE archives \in Seq(WholeAgree)
  <2>1. \A i \in DOMAIN archives : archives[i] \in WholeAgree
    BY <1>1, <1>2 DEF ArchiveIsWhole, WholeAgree
  <2> QED BY <1>1, <2>1, SeqDef
<1>3. ASSUME archives \in Seq(WholeAgree) PROVE ArchiveIsWhole
  <2>1. \A i \in DOMAIN archives : archives[i] \in WholeAgree
    BY <1>3, ElementOfSeq
  <2> QED BY <2>1 DEF ArchiveIsWhole, WholeAgree
<1> QED BY <1>2, <1>3

LEMMA ArchivesSteps ==
  ASSUME Typed, Typed', Locking, archives \in Seq(WholeAgree), Next
  PROVE  archives' \in Seq(WholeAgree)
<1>1. CASE ArchiveTimer
  <2>1. WholeAgree \subseteq ArchiveType /\ NoArchive \in WholeAgree
    BY DEF WholeAgree, ArchiveType, NoArchive
  <2> QED BY <1>1, <2>1, ArchivesPruned DEF ArchiveTimer
<1>2. CASE CopyRest
  <2>1. PICK lost \in BOOLEAN :
          archives' = [archives EXCEPT ![Len(archives)] =
            [whole |-> dir # Absent, agree |-> task["archive"].first = Names /\ ~lost,
             late |-> task["archive"].late, lost |-> lost]]
    BY <1>2, Zenon DEF CopyRest
  <2> DEFINE a == [whole |-> dir # Absent, agree |-> task["archive"].first = Names /\ ~lost,
                   late |-> task["archive"].late, lost |-> lost]
  <2>2. task["archive"].late \in BOOLEAN
    BY DEF Typed, TaskType, Tasks
  <2>3. ~task["archive"].late => Names = task["archive"].first
    BY <1>2 DEF Locking, CopyRest
  <2>4. a \in WholeAgree
    BY <2>2, <2>3 DEF WholeAgree, ArchiveType
  <2> HIDE DEF a
  <2>5. Len(archives) \in Nat /\ archives \in [1..Len(archives) -> WholeAgree]
    BY LenProperties
  <2>6. archives' \in [1..Len(archives) -> WholeAgree]
    BY <2>1, <2>4, <2>5 DEF a
  <2> QED BY <2>5, <2>6, SeqDef
<1>3. CASE archives' = archives
  BY <1>3
<1> QED BY <1>1, <1>2, <1>3 DEF Next, BackupStep, ArchiveStep, Open, Take, TakeOpens, TakeNothing, Stop,
      BackupTimer, Check, Purge, Create, CreateNone, CreateFails, RemoveBak, Move, Close, Closed, Copy,
      Restart, Restore, dirs
-----------------------------------------------------------------------------
(* What a restore takes. *)

\* A set of numbers that is not empty has a least one, which Min chooses.
LEMMA Least == ASSUME NEW S, S \subseteq Nat, S # {} PROVE \E x \in S : \A y \in S : x <= y
<1> DEFINE R == {ss \in Nat \X Nat : ss[1] < ss[2]}
<1>1. IsWellFoundedOn(R, Nat)
  BY NatLessThanWellFounded, Zenon DEF OpToRel
<1>2. PICK x \in S : \A y \in S : ~(<<y, x>> \in R)
  <2> HIDE DEF R
  <2> QED BY <1>1, WFMin
<1>3. \A y \in S : ~(y < x)
  BY <1>2
<1> QED BY <1>3

LEMMA MinIsOne == ASSUME NEW S, S \subseteq Nat, S # {} PROVE Min(S) \in S
BY Least DEF Min

\* For a list of backups with distinct or equal numbers, in any order.
LEMMA ChosenIsGood ==
  ASSUME NEW d \in Seq([id : Nat, good : BOOLEAN]), NEW bid \in Int, NEW b, b = Chosen(d, bid)
  PROVE  /\ b # Absent => /\ b \in Range(d) /\ b.good
                          /\ bid > 0 /\ b # Last(d) => b.id >= bid
         /\ b = Absent /\ bid >= 0 => {c \in Range(d) : c.good /\ c.id >= bid} = {}
<1> DEFINE good == {i \in Tried(d, bid) : d[i].good}
<1>1. /\ Len(d) \in Nat /\ DOMAIN d = 1..Len(d)
      /\ \A i \in DOMAIN d : d[i] \in [id : Nat, good : BOOLEAN] /\ d[i] # Absent
  <2>1. Len(d) \in Nat /\ DOMAIN d = 1..Len(d)
    BY LenProperties
  <2>2. \A i \in DOMAIN d : d[i] \in [id : Nat, good : BOOLEAN]
    BY <2>1, ElementOfSeq
  <2>3. \A x \in [id : Nat, good : BOOLEAN] : x # Absent
    BY Zenon
  <2> QED BY <2>1, <2>2, <2>3
<1>2. good \subseteq DOMAIN d /\ good \subseteq Nat
  BY <1>1 DEF Tried
<1>3. \A i \in good : d[i] \in Range(d) /\ d[i].good
  BY <1>2 DEF Range
<1>4. \A i \in good : i = Len(d) \/ ~PassedOver(d, bid, i)
  BY DEF Tried
<1>5. ASSUME good = {} PROVE b = Absent /\ (bid >= 0 => {c \in Range(d) : c.good /\ c.id >= bid} = {})
  <2>1. b = Absent
    BY <1>5 DEF Chosen
  <2>2. ASSUME bid >= 0, NEW i \in DOMAIN d, d[i].good, d[i].id >= bid PROVE FALSE
    <3>1. i \in Nat /\ i >= 1 /\ d[i].id \in Nat
      BY <1>1
    <3>2. ~PassedOver(d, bid, i)
      BY <2>2, <3>1 DEF PassedOver
    <3> QED BY <1>5, <2>2, <3>2 DEF Tried
  <2> QED BY <2>1, <2>2 DEF Range
<1>6. ASSUME good # {}, Len(d) \in good
      PROVE  b # Absent /\ b \in Range(d) /\ b.good /\ b = Last(d)
  <2>1. b = d[Len(d)]
    BY <1>6 DEF Chosen, Last
  <2> QED BY <1>1, <1>2, <1>3, <1>6, <2>1 DEF Last
<1>7. ASSUME good # {}, Len(d) \notin good
      PROVE  b # Absent /\ b \in Range(d) /\ b.good /\ (bid > 0 => b.id >= bid)
  <2> DEFINE m == Min(good)
  <2>1. b = d[m]
    BY <1>7 DEF Chosen
  <2>2. m \in good
    BY <1>2, <1>7, MinIsOne
  <2> HIDE DEF m
  <2>3. m # Len(d) /\ ~PassedOver(d, bid, m)
    BY <1>4, <1>7, <2>2
  <2>4. d[m].id \in Nat /\ d[m] # Absent
    BY <1>1, <1>2, <2>2
  <2>5. bid > 0 => d[m].id >= bid
    BY <2>3, <2>4 DEF PassedOver
  <2> QED BY <1>3, <2>1, <2>2, <2>4, <2>5
<1> HIDE DEF good
<1> QED BY <1>5, <1>6, <1>7

LEMMA RestoredSteps == ASSUME Typed, RestoresGood, Next PROVE RestoresGood'
<1>1. CASE Restore
  <2>1. PICK bid \in BackupIds, d \in {dir, bak} \ {Absent} :
          \E bad \in IF "damage" \in Faults THEN SUBSET DOMAIN d ELSE {{}} :
            LET found == [i \in DOMAIN d |-> [id |-> d[i].id, good |-> i \notin bad]]
            IN  restored' = [asked |-> bid, from |-> found, backup |-> Chosen(found, bid)]
    BY <1>1 DEF Restore
  <2>2. PICK bad \in IF "damage" \in Faults THEN SUBSET DOMAIN d ELSE {{}} :
          LET found == [i \in DOMAIN d |-> [id |-> d[i].id, good |-> i \notin bad]]
          IN  restored' = [asked |-> bid, from |-> found, backup |-> Chosen(found, bid)]
    BY <2>1
  <2> DEFINE found == [i \in DOMAIN d |-> [id |-> d[i].id, good |-> i \notin bad]]
  <2>3. d \in Seq(Backups) /\ bid \in Int
    BY DEF Typed, Directories
  <2>4. Len(d) \in Nat /\ DOMAIN d = 1..Len(d) /\ \A i \in DOMAIN d : d[i].id \in Nat
    <3>1. Len(d) \in Nat /\ DOMAIN d = 1..Len(d) /\ \A i \in 1..Len(d) : d[i] \in Backups
      BY <2>3, LenProperties, ElementOfSeq
    <3> QED BY <3>1 DEF Backups
  <2>5. found \in [1..Len(d) -> [id : Nat, good : BOOLEAN]]
    BY <2>4
  <2>6. found \in Seq([id : Nat, good : BOOLEAN])
    BY <2>4, <2>5, SeqDef
  <2>7. restored' = [asked |-> bid, from |-> found, backup |-> Chosen(found, bid)]
    BY <2>2
  <2> HIDE DEF found
  <2>8. restored'.asked = bid /\ restored'.from = found /\ restored'.backup = Chosen(found, bid)
    BY <2>7
  <2> QED BY <2>3, <2>6, <2>8, ChosenIsGood DEF RestoresGood
<1>2. CASE restored' = restored
  BY <1>2 DEF RestoresGood
<1> QED BY <1>1, <1>2 DEF Next, BackupStep, ArchiveStep, Open, Take, TakeOpens, TakeNothing, Stop,
      BackupTimer, Check, Purge, Create, CreateNone, CreateFails, RemoveBak, Move, Close, Closed,
      ArchiveTimer, Copy, CopyRest, Restart
-----------------------------------------------------------------------------
(* The invariant, and what follows from it. *)

LEMMA InitHolds == ASSUME Init PROVE BackupInv
<1>1. dir = <<>> /\ bak = Absent /\ archives = <<>> /\ made = 0 /\ fails = 0 /\ restored = Nothing
  BY DEF Init
<1>2. /\ NoTask \in TaskType /\ NoTask.pc = "idle" /\ 1 \in Objects
      /\ <<>> \in Seq(Backups) /\ <<>> \in Seq(ArchiveType)
  <2>1. <<>> \in Seq(Backups) /\ <<>> \in Seq(ArchiveType)
    BY EmptySeq
  <2> QED BY <2>1 DEF NoTask, TaskType, Pcs, Objects
<1>3. /\ task = [t \in Tasks |-> NoTask] /\ entry = 1 /\ up = "yes"
      /\ lock = [o \in Objects |-> "free"]
  BY DEF Init
<1> HIDE DEF NoTask
<1>4. Typed
  BY <1>1, <1>2, <1>3 DEF Typed, Directories
<1>5. \A t \in Tasks : task[t].pc = "idle"
  BY <1>2, <1>3
<1>6. Locking
  BY <1>3, <1>5 DEF Locking, At, Tasks
<1>7. Points
  BY <1>1, <1>5 DEF Points, At, Tasks
<1>8. ArchiveIsWhole
  BY <1>1, EmptySeq DEF ArchiveIsWhole
<1>9. RestoresGood
  <2>1. Nothing.asked = 0 /\ Nothing.from = <<>> /\ Nothing.backup = Absent
    BY DEF Nothing
  <2>2. Range(<<>>) = {}
    BY EmptySeq DEF Range
  <2> QED BY <1>1, <2>1, <2>2 DEF RestoresGood
<1> QED BY <1>4, <1>6, <1>7, <1>8, <1>9 DEF BackupInv

LEMMA StutterKeeps == ASSUME BackupInv, UNCHANGED vars PROVE BackupInv'
<1>1. /\ UNCHANGED <<dir, bak, archives, entry, up, lock, task, made, fails, restored>>
  BY DEF vars, dirs, objects, aux
<1>2. Typed'
  BY <1>1 DEF BackupInv, Typed
<1>3. Locking'
  BY <1>1 DEF BackupInv, Locking, At, Names
<1>4. Points'
  BY <1>1 DEF BackupInv, Points, At, HasBackup, Listed
<1>5. ArchiveIsWhole' /\ RestoresGood'
  BY <1>1 DEF BackupInv, ArchiveIsWhole, RestoresGood
<1> QED BY <1>2, <1>3, <1>4, <1>5 DEF BackupInv

ArchivesAgree == archives \in Seq(WholeAgree)

LEMMA ArchivesOfSuchHold == Typed => (ArchiveIsWhole <=> ArchivesAgree)
BY ArchivesOfSuch DEF ArchivesAgree

LEMMA StepsKeep == ASSUME BackupInv, Next PROVE BackupInv'
<1>1. Typed'
  BY TypedSteps DEF BackupInv
<1>2. Locking' /\ Points' /\ RestoresGood'
  BY <1>1, LockingSteps, PointsSteps, RestoredSteps DEF BackupInv
<1>3. archives' \in Seq(WholeAgree)
  BY <1>1, ArchivesOfSuch, ArchivesSteps DEF BackupInv
<1>4. Typed' => (ArchiveIsWhole' <=> ArchivesAgree')
  BY ArchivesOfSuchHold, PTL
<1>5. ArchivesAgree'
  BY <1>3 DEF ArchivesAgree, WholeAgree, ArchiveType
<1> QED BY <1>1, <1>2, <1>3, <1>4, <1>5 DEF BackupInv

LEMMA BackupInvariant == Spec => []BackupInv
<1>1. Init => BackupInv
  BY InitHolds
<1>2. BackupInv /\ [Next]_vars => BackupInv'
  BY StutterKeeps, StepsKeep
<1> QED BY <1>1, <1>2, PTL DEF Spec

\* With a depth other than one, once a backup was made there is one in the directory or
\* in the one put aside, whatever is purged, moved, opened again or interrupted, until
\* two attempts in a row fail (wrocksdb::backup, multidb::backup).
THEOREM BackupKeepsAPoint == Spec => []KeepsAPoint
<1>1. BackupInv => KeepsAPoint
  BY DEF BackupInv, Typed, Points, HasBackup, KeepsAPoint
<1> QED BY <1>1, BackupInvariant, PTL

\* An archive made through the object in the table and copied without an error has the
\* files of exactly the backups it lists (wrocksdb::archive under the mutex that
\* wrocksdb::backup takes).
THEOREM ArchiveHasItsFiles == Spec => []ArchiveIsWhole
<1>1. BackupInv => ArchiveIsWhole
  BY DEF BackupInv
<1> QED BY <1>1, BackupInvariant, PTL

\* Of a list of backups of any length, any of them damaged, wrocksdb_restore::restore
\* takes a good one with the number asked for or a later one, unless it takes the last
\* of all, and for a number asked for fails only if no such backup is good.
THEOREM RestoreTakesAGoodOne == Spec => []RestoresGood
<1>1. BackupInv => RestoresGood
  BY DEF BackupInv
<1> QED BY <1>1, BackupInvariant, PTL
=============================================================================
