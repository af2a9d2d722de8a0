----------------------------- MODULE PrefixSync ----------------------------
(***************************************************************************)
(* How a slave follows the set of the master's prefixes (multidb.cpp:      *)
(* configure_prefix_reqester_, get_all_prefixes_generator_).  A timer asks *)
(* the master for all its prefixes and, in a process started for the       *)
(* initial load, one more request is made at the start.  The handler of an *)
(* answer opens the prefixes it lists and detaches those that it does not  *)
(* list any more, as far as this process has seen them listed before       *)
(* (_master_prefixes).  Two handlers may run at once.                      *)
(*                                                                         *)
(* The instance may be stopped and started again in the same process       *)
(* (prefixdb_domain.cpp: start, open_prefixdb, stop).  The handlers that   *)
(* are under way then go on, on a multidb without a factory.               *)
(*                                                                         *)
(* The master lists what it has open, or what its clients may write to of  *)
(* that.  How a detach goes about a database in use is the matter of       *)
(* PrefixTable; here it is one step.                                       *)
(***************************************************************************)
EXTENDS Integers, FiniteSets

CONSTANTS
  Prefixes,    \* the prefixes that the master may open
  ReadOnly,    \* those that the master's is_writable_ refuses
  WritableOnly, \* slave_config::writable_only: the slave asks for the others only
  AllowedList, \* slave_config::allowed_prefixes
  DeniedList,  \* slave_config::denied_prefixes
  Local,       \* those that a client of the slave itself may open
  MaxChanges,  \* bound: prefixes opened and detached by the master
  MaxRestarts, \* bound: restarts of the slave
  MaxStops,    \* bound: stops of the instance in the slave's process
  Faults       \* what may happen besides: a subset of AllFaults

\* failed: a database cannot be opened.  noreply: no answer, or a bad status.
AllFaults == {"failed", "noreply"}

ASSUME PrefixAssumption ==
  /\ IsFiniteSet(Prefixes) /\ WritableOnly \in BOOLEAN
  /\ \A list \in {ReadOnly, AllowedList, DeniedList, Local} : list \subseteq Prefixes
ASSUME ChangesAssumption ==
  MaxChanges \in Nat /\ MaxRestarts \in Nat /\ MaxStops \in Nat /\ Faults \subseteq AllFaults

Callers == {"load", "poll"}

VARIABLES
  mopen,    \* the prefixes the master has open
  table,    \* the slave's: absent, open, or null (opening failed)
  disk,     \* the prefixes with a directory on the slave
  known,    \* _master_prefixes
  call,     \* per caller: the request under way
  loading,  \* this process was started for the initial load
  changes,  \* bound
  running,  \* the instance runs: multidb has a factory
  polls,    \* there is a timer for the poll, and it knows a master to ask
  stops,    \* bound
  restarts, \* bound
  kept      \* auxiliary: prefixes opened from an answer, that the master has had
            \* open ever since

masterVars == <<mopen, changes>>
instance == <<loading, running, polls, stops, restarts>>
syncVars == <<masterVars, table, disk, known, call, instance, kept>>

(***************************************************************************)
(* A definition named Op_Word is the form Op would have after a plausible  *)
(* mistake; nothing uses it but the check that a property would notice.    *)
(***************************************************************************)

\* pc, the prefixes listed and not looked at yet, and the known ones not found
\* among them, or to be detached.
Free(pc) == [pc |-> pc, todo |-> {}, old |-> {}]

\* The poll comes again while its timer is there, the request of the load does not.
After(c) == Free(IF c = "poll" /\ polls THEN "idle" ELSE "over")
-----------------------------------------------------------------------------
(* The master. *)

MasterOpen(x) ==
  /\ changes < MaxChanges /\ x \notin mopen
  /\ mopen' = mopen \cup {x} /\ changes' = changes + 1
  /\ UNCHANGED <<table, disk, known, call, instance, kept>>

\* The master detaches the prefix; or it closes one that it goes on serving, when a
\* backup has failed.
MasterClose(x) ==
  /\ changes < MaxChanges /\ x \in mopen
  /\ mopen' = mopen \ {x} /\ changes' = changes + 1
  /\ kept' = kept \ {x}
  /\ UNCHANGED <<table, disk, known, call, instance>>

-----------------------------------------------------------------------------
(* The slave. *)

\* The timer fires; the request of the load is made at the start.
Ask(c) ==
  /\ call[c].pc = "idle"
  /\ call' = [call EXCEPT ![c] = Free("asked")]
  /\ UNCHANGED <<masterVars, table, disk, known, instance, kept>>

\* get_all_prefixes: all_prefixes_, or what is_writable_ leaves of them.
Listed == IF WritableOnly THEN mopen \ ReadOnly ELSE mopen

\* allowed_for_slave_: an empty list of those allowed allows all.
Allowed == (IF AllowedList = {} THEN Prefixes ELSE AllowedList) \ DeniedList

\* What the handler looks at, of the prefixes listed.
Wanted == Listed \cap Allowed

\* The master answers, with the prefixes it has open then.
Reply(c) ==
  /\ call[c].pc = "asked"
  /\ call' = [call EXCEPT ![c] = [pc |-> "answered", todo |-> Wanted, old |-> {}]]
  /\ UNCHANGED <<masterVars, table, disk, known, instance, kept>>

Again_Over(c) == Free("over")
Again(c) == After(c)
NoReply(c) ==
  /\ "noreply" \in Faults /\ call[c].pc = "asked"
  /\ call' = [call EXCEPT ![c] = Again(c)]
  /\ UNCHANGED <<masterVars, table, disk, known, instance, kept>>

\* The handler copies what is known.
Handle(c) ==
  /\ call[c].pc = "answered"
  /\ call' = [call EXCEPT ![c].pc = "open", ![c].old = known]
  /\ UNCHANGED <<masterVars, table, disk, known, instance, kept>>

\* prefix_ opens nothing for a multidb that has no factory.
Serves_Always == TRUE
Serves == running

\* prefix_(x, true) for one prefix listed.
Found_Not(old, x) == old
Found(old, x) == old \ {x}
OpenListed(c, x) ==
  /\ call[c].pc = "open" /\ x \in call[c].todo
  /\ call' = [call EXCEPT ![c].todo = @ \ {x}, ![c].old = Found(@, x)]
  /\ \/ /\ Serves /\ table[x] = "absent"
        /\ table' = [table EXCEPT ![x] = "open"]
        /\ disk' = disk \cup {x}
     \/ /\ Serves /\ table[x] = "absent" /\ "failed" \in Faults
        /\ table' = [table EXCEPT ![x] = "null"]
        /\ UNCHANGED disk
     \/ /\ ~Serves \/ table[x] # "absent"
        /\ UNCHANGED <<table, disk>>
  /\ known' = known \cup {x}
  /\ kept' = IF table'[x] = "open" THEN kept \cup ({x} \cap mopen) ELSE kept
  /\ UNCHANGED <<masterVars, instance>>

\* Those left over are forgotten, and then detached.
Known_All(old) == known
Known(old) == known \ old
Gone_None(old) == {}
Gone(old) == old
Forget(c) ==
  /\ call[c].pc = "open" /\ call[c].todo = {}
  /\ known' = Known(call[c].old)
  /\ LET gone == Gone(call[c].old)
     IN  call' = [call EXCEPT ![c] =
           IF gone = {} THEN After(c) ELSE [call[c] EXCEPT !.pc = "detach", !.old = gone]]
  /\ UNCHANGED <<masterVars, table, disk, instance, kept>>

\* detach_prefixes for one of them: it is opened, if need be, and put aside.
Detach(c, x) ==
  /\ call[c].pc = "detach" /\ x \in call[c].old
  /\ LET left == call[c].old \ {x}
     IN  call' = [call EXCEPT ![c] = IF left = {} THEN After(c) ELSE [@ EXCEPT !.old = left]]
  /\ IF Serves /\ table[x] # "null" /\ x \in disk
     THEN table' = [table EXCEPT ![x] = "absent"] /\ disk' = disk \ {x}
     ELSE UNCHANGED <<table, disk>>
  /\ UNCHANGED <<masterVars, known, instance, kept>>

\* A client of the slave writes to a prefix.
LocalOpen(x) ==
  /\ x \in Local /\ running /\ table[x] = "absent"
  /\ table' = [table EXCEPT ![x] = "open"] /\ disk' = disk \cup {x}
  /\ UNCHANGED <<masterVars, known, call, instance, kept>>

\* multidb::stop: the timer is released and the table emptied.  What is known stays.
StopInstance ==
  /\ running /\ stops < MaxStops
  /\ running' = FALSE /\ polls' = FALSE /\ stops' = stops + 1
  /\ table' = [x \in Prefixes |-> "absent"]
  /\ call' = IF call["poll"].pc = "idle" THEN [call EXCEPT !["poll"] = Free("over")] ELSE call
  /\ UNCHANGED <<masterVars, disk, known, loading, restarts, kept>>

\* prefixdb_domain::start once more: the directories are opened, and the load makes its
\* request, but the options have no master, so that the poll's timer asks nobody.
\* Bound: an earlier request of the load is over.
StartAgain ==
  /\ ~running /\ call["load"].pc = "over"
  /\ running' = TRUE
  /\ table' = [x \in Prefixes |-> IF x \in disk THEN "open" ELSE "absent"]
  /\ call' = IF loading THEN [call EXCEPT !["load"] = Free("idle")] ELSE call
  /\ UNCHANGED <<masterVars, disk, known, loading, polls, stops, restarts, kept>>

\* The slave's process ends, and the next opens the directories that are there;
\* what was known is known no more.
Restart(load) ==
  /\ restarts < MaxRestarts
  /\ restarts' = restarts + 1 /\ loading' = load
  /\ running' = TRUE /\ polls' = TRUE
  /\ known' = {} /\ kept' = {}
  /\ call' = [c \in Callers |-> Free(IF c = "poll" \/ load THEN "idle" ELSE "over")]
  /\ table' = [x \in Prefixes |-> IF x \in disk THEN "open" ELSE "absent"]
  /\ UNCHANGED <<masterVars, disk, stops>>

InitSync ==
  /\ mopen = {} /\ disk = {} /\ known = {} /\ kept = {}
  /\ table = [x \in Prefixes |-> "absent"]
  /\ loading \in BOOLEAN
  /\ call = [c \in Callers |-> Free(IF c = "poll" \/ loading THEN "idle" ELSE "over")]
  /\ running = TRUE /\ polls = TRUE
  /\ changes = 0 /\ stops = 0 /\ restarts = 0

Handler(c) ==
  Handle(c) \/ Forget(c) \/ \E x \in Prefixes : OpenListed(c, x) \/ Detach(c, x)

NextSync ==
  \/ \E x \in Prefixes : MasterOpen(x) \/ MasterClose(x) \/ LocalOpen(x)
  \/ \E c \in Callers : Ask(c) \/ Reply(c) \/ NoReply(c) \/ Handler(c)
  \/ StopInstance \/ StartAgain \/ \E load \in BOOLEAN : Restart(load)

SpecSync == InitSync /\ [][NextSync]_syncVars

\* The timer fires, handlers run, and not every request goes unanswered.
FairSpecSync ==
  /\ SpecSync
  /\ \A c \in Callers : WF_syncVars(Ask(c)) /\ SF_syncVars(Reply(c)) /\ WF_syncVars(Handler(c))
-----------------------------------------------------------------------------
(* Properties. *)

CallType == [pc : {"idle", "asked", "answered", "open", "detach", "over"},
             todo : SUBSET Prefixes, old : SUBSET Prefixes]

SyncTypeOK ==
  /\ mopen \subseteq Prefixes /\ disk \subseteq Prefixes /\ {loading, running, polls} \subseteq BOOLEAN
  /\ table \in [Prefixes -> {"absent", "open", "null"}]
  /\ known \subseteq Allowed /\ kept \subseteq Prefixes
  /\ call \in [Callers -> CallType]
  /\ changes \in 0..MaxChanges /\ stops \in 0..MaxStops /\ restarts \in 0..MaxRestarts

\* A stopped instance holds no database, though handlers that were under way go on
\* and would open more: another process may have the directories by now.  What is
\* open is on disk.  While one handler runs at a time, a prefix the slave has seen
\* listed is in its table until it is forgotten, so that it is detached when the
\* master no longer lists it.
KnownIsOpen ==
  /\ ~running => \A x \in Prefixes : table[x] = "absent"
  /\ \A x \in Prefixes : table[x] = "open" => x \in disk
  /\ polls /\ ~loading => \A x \in known : table[x] # "absent"

\* While one handler runs at a time, a prefix is detached only if the master has
\* not had it open all the time since it was opened here.
DetachedWasClosed ==
  [][\A x \in Prefixes :
       restarts' = restarts /\ x \in disk \ disk' => loading \/ x \notin kept]_syncVars

\* What makes these two inductive: a prefix kept is one that an answer lists, the only
\* handler has not found it gone, and what it detaches it has forgotten.
Listable == IF WritableOnly THEN Allowed \ ReadOnly ELSE Allowed
OneHandler ==
  LET poll == call["poll"]
  IN  ~loading =>
        /\ call["load"].pc = "over"
        /\ poll.pc = "answered" => kept \subseteq poll.todo
        /\ poll.pc = "open" => kept \cap poll.old \subseteq poll.todo
        /\ poll.pc = "detach" => poll.old \cap (kept \cup known) = {}

SyncInv ==
  /\ SyncTypeOK /\ (polls => running) /\ KnownIsOpen
  /\ kept \subseteq mopen \cap Listable /\ \A c \in Callers : call[c].todo \subseteq Listable
  /\ OneHandler

\* Every prefix that the master lists, and the slave is allowed, comes to be open,
\* or was tried, unless the master closes it or the slave has lost its master.
GetsOpened ==
  \A x \in Allowed :
    (x \in Listed /\ polls) ~> (table[x] # "absent" \/ x \notin Listed \/ ~polls)

\* A prefix that was listed and is no more is detached, unless it is listed again
\* or the slave restarts and forgets that it was, or has lost its master.
GetsDetached ==
  \A x \in Prefixes : \A n \in 0..MaxRestarts :
    (polls /\ restarts = n /\ x \in known /\ x \notin mopen) ~>
      (table[x] # "open" \/ x \in mopen \/ restarts # n \/ ~polls)
=============================================================================
