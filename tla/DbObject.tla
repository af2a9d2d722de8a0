------------------------------ MODULE DbObject ------------------------------
(***************************************************************************)
(* A wrocksdb as the operations of a client find it: multidb's table gives *)
(* it to the threads that serve requests, stop() takes its database away   *)
(* under them, and timers come back to it later.  The operations are those *)
(* of Snapshots and Maintenance; this is what they share.                  *)
(*                                                                         *)
(* stop_ works in two steps, under the object's mutex: operations begun    *)
(* before may find _db null, or meet a member that uses it without a test, *)
(* which ends the process.                                                 *)
(***************************************************************************)
EXTENDS Integers, FiniteSets

CONSTANTS
  Clients, \* threads that serve requests
  MaxCalls \* bound: requests

ASSUME ClientsAssumption == IsFiniteSet(Clients) /\ "timer" \notin Clients /\ MaxCalls \in Nat

\* One more thread runs the timers, one after the other.
Threads == Clients \cup {"timer"}

VARIABLES
  state,  \* the object: open, stopping, or closed, which is also out of the table
  db,     \* _db is set
  crashed, \* the process has ended in a null pointer or a released snapshot
  call,   \* per thread: what it does
  calls,  \* bound, and the name of a request
  timers  \* what _workflow is to run later for this object

object == <<state, db, crashed, calls>>

(***************************************************************************)
(* A definition named Op_Word is the form Op would have after a plausible  *)
(* mistake; nothing uses it but the check that a property would notice.    *)
(***************************************************************************)

\* The request's arguments, each used by some operations only.
Request(pc, n, arg) == [pc |-> pc, n |-> n, arg |-> arg, ss |-> {}, crossed |-> FALSE]
NoCall == Request("none", 0, 0)

At(t, pc) == ~crashed /\ call[t].pc = pc
Goto(t, pc) == call' = [call EXCEPT ![t].pc = pc]
Over(t) == call' = [call EXCEPT ![t] = NoCall]

Crash == crashed' = TRUE /\ UNCHANGED <<state, db, calls, call, timers>>

\* The mutex of the object is held by stop() alone for longer than a step.
Unlocked == state # "stopping"

\* multidb::prefix_ gives the object to a request, which asks is_stopped_ first.  The
\* answer of an object that is stopped is null.
Enter(t, pc, arg) ==
  /\ At(t, "none") /\ t # "timer" /\ state = "open" /\ calls < MaxCalls
  /\ calls' = calls + 1
  /\ call' = [call EXCEPT ![t] = Request(pc, calls', arg)]
  /\ UNCHANGED <<state, db, crashed, timers>>

\* safe_post: the timer's name is that of the request it was made for.
Later(t, what, arg) == timers' = timers \cup {[what |-> what, arg |-> arg, n |-> call[t].n]}

\* stop_: _is_stopped is set, and _owner drops the timers.
StopBegins ==
  /\ ~crashed /\ state = "open"
  /\ state' = "stopping" /\ timers' = {}
  /\ UNCHANGED <<db, crashed, calls, call>>

\* Timers made since do nothing to a database that is not there.
StopEnds ==
  /\ ~crashed /\ state = "stopping"
  /\ state' = "closed" /\ db' = FALSE /\ timers' = {}
  /\ UNCHANGED <<crashed, calls, call>>

InitObject ==
  /\ state = "open" /\ db = TRUE /\ crashed = FALSE
  /\ call = [t \in Threads |-> NoCall] /\ calls = 0 /\ timers = {}

\* The object is destroyed when the table and the requests have let go of it.
Destroyed == state = "closed" /\ \A t \in Clients : call[t].pc \in {"none", "compact"}
=============================================================================
