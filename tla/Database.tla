------------------------------ MODULE Database ------------------------------
(***************************************************************************)
(* The snapshots and the maintenance of one database at once: their        *)
(* requests are served by the same threads, their timers run in the same   *)
(* queue, and stop() takes the database away under both.                   *)
(***************************************************************************)
EXTENDS Snapshots, Maintenance

vars == <<state, db, crashed, call, calls, timers, handles, smap, counter, told,
          paused, lifted, vals, repair>>

\* Another client writes a value that is not JSON, under a key that had another.
ClientWrites ==
  /\ ~crashed /\ db
  /\ \E k \in Keys : vals[k] # "bad" /\ Write(k, "bad")
  /\ UNCHANGED snapshotVars

Init == InitObject /\ InitSnapshots /\ InitMaintenance

SnapshotStep == SnapshotNext /\ UNCHANGED <<work, json>>
MaintenanceStep == MaintenanceNext /\ UNCHANGED snapshotVars

Stops == (StopBegins \/ StopEnds) /\ UNCHANGED <<snapshotVars, work, json>>

Next == SnapshotStep \/ MaintenanceStep \/ ClientWrites \/ Stops

Spec == Init /\ [][Next]_vars

\* The steps of the threads, in either component, with the end of a stop.
Steps ==
  \/ \E t \in Threads : SnapshotCall(t) /\ UNCHANGED <<work, json>>
  \/ \E t \in Clients : MaintenanceCall(t) /\ UNCHANGED snapshotVars
  \/ StopEnds /\ UNCHANGED <<snapshotVars, work, json>>

TimerStep ==
  \/ TimerReleases /\ UNCHANGED <<work, json>>
  \/ TimerContinues /\ UNCHANGED snapshotVars

\* Threads run, as a whole, and timers fire.
FairSpec == Spec /\ WF_vars(Steps) /\ WF_vars(TimerStep)

-----------------------------------------------------------------------------
\* What was asked for with a timeout ends, in the mix of both components: the snapshots
\* named in answers are released and the background work resumes, unless the object is
\* stopped, which takes the database away with them.
TimeoutsEnd == ToldIsReleased /\ BackgroundResumes
=============================================================================
