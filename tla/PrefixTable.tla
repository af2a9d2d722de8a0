---------------------------- MODULE PrefixTable ----------------------------
(***************************************************************************)
(* The table of prefixes (multidb.cpp): prefix_ opens a database on demand *)
(* and remembers it, detach_prefixes closes it and moves its directory     *)
(* aside, possibly denying the prefix for a time, attach_prefixes moves it *)
(* back, a failed backup closes and reopens it, stop closes everything.    *)
(*                                                                         *)
(* The table is guarded by multidb::_mutex; the object of a prefix         *)
(* (wrocksdb) is used by threads that hold no lock.  A thread here is a    *)
(* thread of the pool that runs requests, timers and delayed handlers.     *)
(* The data of a database is the number of the object that created it.     *)
(***************************************************************************)
EXTENDS Integers, FiniteSets

(***************************************************************************)
(* A definition named Op_Word is the form Op would have after a plausible  *)
(* mistake; nothing uses it but the check that a property would notice.    *)
(***************************************************************************)

CONSTANTS
  Prefix,       \* names of prefixes
  Thread,       \* threads of the pool
  MaxObj,       \* bound: objects opened
  MaxPrefixes,  \* multidb_config::max_prefixes, 0 for no limit
  Denials,      \* values of request::detach_prefixes::deny_timeout_s
  Backups,      \* whether backups are made, and may fail
  MayStop       \* whether multidb::stop may be called

ASSUME BoundsAssumption  == MaxObj \in Nat
ASSUME ConfigAssumption  ==
  MaxPrefixes \in Nat /\ Denials \subseteq Nat /\ {Backups, MayStop} \subseteq BOOLEAN

Obj == 1..MaxObj

\* What the table holds for a prefix besides an object: no entry, or nullptr,
\* because the prefix was detached or because its database could not be opened.
Absent == 0
Denied == -1
Failed == -2
Null   == {Denied, Failed}

None == 0  \* no object, no data

VARIABLES
  map,     \* _db_map
  path,    \* the data in the directory of the prefix
  shelf,   \* the data in the directory of detached prefixes
  owner,   \* the prefix each object was opened for, "none" before
  ref,     \* wrocksdb::_db is set: not stopped yet
  waiting, \* a delayed detach_prefixes of the object is posted
  thread,  \* what each thread is doing
  timers,  \* the ends of denial that are posted: prefix and seconds left
  up,      \* multidb::stop has not been called
  made,    \* auxiliary: objects opened so far
  promised, \* auxiliary: what is left of the denial asked for last, per prefix
  orphans  \* auxiliary: objects dropped by a detach of another object

tableVars  == <<map, up>>
diskVars   == <<path, shelf>>
objectVars == <<owner, ref, waiting, made>>
timeVars   == <<timers, promised>>
vars       == <<tableVars, diskVars, objectVars, thread, timeVars, orphans>>

Idle == [pc |-> "idle", prefix |-> "none", obj |-> None, deny |-> 0, last |-> FALSE]
-----------------------------------------------------------------------------
(* Objects and the lock of their database. *)

Holds(w, o) == thread[w].pc # "idle" /\ thread[w].obj = o

\* The object is referenced: by the table, a thread or a posted handler.
Alive(o) ==
  \/ \E p \in Prefix : map[p] = o
  \/ \E w \in Thread : Holds(w, o)
  \/ waiting[o]

\* An operation keeps the database itself referenced while it runs.
Used(o) == \E w \in Thread : thread[w].pc = "using" /\ thread[w].obj = o

\* RocksDB refuses to open a directory that some object has open.
Locked(p) ==
  \E o \in Obj : owner[o] = p /\ (Used(o) \/ (ref[o] /\ Alive(o)))

-----------------------------------------------------------------------------
(* multidb::prefix_(p, create), called by thread w; it goes on to `then`. *)

Entries == {q \in Prefix : map[q] # Absent}

Room == MaxPrefixes = 0 \/ Cardinality(Entries) < MaxPrefixes

MayOpen(p, create) == up /\ map[p] = Absent /\ Room /\ (create \/ path[p] # None)

\* The thread continues with object o.
Proceed(w, p, o, then, deny) ==
  thread' = [thread EXCEPT ![w] =
    [pc |-> then, prefix |-> p, obj |-> o, deny |-> deny, last |-> FALSE]]

Find(w, p, then, deny) ==
  /\ up /\ map[p] \in Obj
  /\ Proceed(w, p, map[p], then, deny)
  /\ UNCHANGED <<tableVars, diskVars, objectVars, timeVars, orphans>>

\* create_db succeeds: the object is entered and started.
Open(w, p, create, then, deny) ==
  /\ MayOpen(p, create) /\ ~Locked(p)
  /\ made < MaxObj
  /\ LET o == made + 1
     IN  /\ made' = o
         /\ map' = [map EXCEPT ![p] = o]
         /\ path' = [path EXCEPT ![p] = IF @ = None THEN o ELSE @]
         /\ owner' = [owner EXCEPT ![o] = p]
         /\ ref' = [ref EXCEPT ![o] = TRUE]
         /\ Proceed(w, p, o, then, deny)
  /\ UNCHANGED <<up, shelf, waiting, timeVars, orphans>>

\* create_db fails, and the table remembers it.
OpenFails(w, p, create) ==
  /\ MayOpen(p, create) /\ Locked(p)
  /\ map' = [map EXCEPT ![p] = Failed]
  /\ thread' = [thread EXCEPT ![w] = Idle]
  /\ UNCHANGED <<up, diskVars, objectVars, timeVars, orphans>>

\* prefix_ gives nothing: the prefix is denied, or may not be opened.
Refuse(w, p, create) ==
  /\ ~(up /\ map[p] \in Obj) /\ ~MayOpen(p, create)
  /\ thread' = [thread EXCEPT ![w] = Idle]
  /\ UNCHANGED <<tableVars, diskVars, objectVars, timeVars, orphans>>

Lookup(w, p, create, then, deny) ==
  \/ Find(w, p, then, deny) \/ Open(w, p, create, then, deny)
  \/ OpenFails(w, p, create) \/ Refuse(w, p, create)

-----------------------------------------------------------------------------
(* Requests to a database. *)

\* A request looks its prefix up.
Call(w, p, create) ==
  /\ thread[w].pc = "idle"
  /\ Lookup(w, p, create, "calling", 0)

\* The operation takes its reference to the database, if it is not stopped.
Enter(w) ==
  /\ thread[w].pc = "calling"
  /\ thread' = [thread EXCEPT ![w] =
                  IF ref[@.obj] THEN [@ EXCEPT !.pc = "using"] ELSE Idle]
  /\ UNCHANGED <<tableVars, diskVars, objectVars, timeVars, orphans>>

Leave(w) ==
  /\ thread[w].pc = "using"
  /\ thread' = [thread EXCEPT ![w] = Idle]
  /\ UNCHANGED <<tableVars, diskVars, objectVars, timeVars, orphans>>

\* wrocksdb::stop_ lets the database go and drops the handlers posted.
Stopped_Open(S) == ref
Stopped(S) == [o \in Obj |-> ref[o] /\ o \notin S]
Unposted(S) == [o \in Obj |-> waiting[o] /\ o \notin S]

\* multidb::backup: wrocksdb::backup failed, close_prefix_ closes whatever the
\* table now has for the prefix and prefix_ opens it again.
BackupFails(w) ==
  /\ Backups /\ thread[w].pc = "using"
  /\ LET p == thread[w].prefix
     IN  /\ map' = [map EXCEPT ![p] = Absent]
         /\ ref' = Stopped({map[p]})
         /\ waiting' = Unposted({map[p]})
  /\ thread' = [thread EXCEPT ![w].pc = "reopen"]
  /\ UNCHANGED <<up, diskVars, owner, made, timeVars, orphans>>

Reopen(w) ==
  /\ thread[w].pc = "reopen"
  /\ Lookup(w, thread[w].prefix, FALSE, "calling", 0)

-----------------------------------------------------------------------------
(* Detaching. *)

DetachCall(w, p, deny) ==
  /\ thread[w].pc = "idle"
  /\ Lookup(w, p, FALSE, "detach", deny)

\* The delayed handler runs wrocksdb::detach_prefixes again; nothing follows it.
DetachAgain(w, o) ==
  /\ thread[w].pc = "idle" /\ waiting[o]
  /\ thread' = [thread EXCEPT ![w] =
       [pc |-> "detach", prefix |-> owner[o], obj |-> o, deny |-> 0, last |-> TRUE]]
  /\ waiting' = [waiting EXCEPT ![o] = FALSE]
  /\ UNCHANGED <<tableVars, diskVars, owner, ref, made, timeVars, orphans>>

\* What follows wrocksdb::detach_prefixes in this thread.
AfterDetach_Done(w) == Idle
AfterDetach(w) == IF thread[w].last THEN Idle ELSE [thread[w] EXCEPT !.pc = "table"]

\* wrocksdb::detach_prefixes: a stopped object is left alone, one in use is
\* tried again later, otherwise the thread goes on to stop it.
BusyPosted_Never(o) == waiting
BusyPosted(o) == [waiting EXCEPT ![o] = TRUE]
DetachCheck(w) ==
  /\ thread[w].pc = "detach"
  /\ LET o == thread[w].obj
     IN  \/ /\ ~ref[o]
            /\ thread' = [thread EXCEPT ![w] = AfterDetach(w)]
            /\ waiting' = waiting
         \/ /\ ref[o] /\ Used(o)
            /\ thread' = [thread EXCEPT ![w] = AfterDetach(w)]
            /\ waiting' = BusyPosted(o)
         \/ /\ ref[o] /\ ~Used(o)
            /\ thread' = [thread EXCEPT ![w].pc = "clear"]
            /\ waiting' = waiting
  /\ UNCHANGED <<tableVars, diskVars, owner, ref, made, timeVars, orphans>>

\* stop_(true).
DetachStop(w) ==
  /\ thread[w].pc = "clear"
  /\ ref' = Stopped({thread[w].obj})
  /\ waiting' = Unposted({thread[w].obj})
  /\ thread' = [thread EXCEPT ![w].pc = "closed"]
  /\ UNCHANGED <<tableVars, diskVars, owner, made, timeVars, orphans>>

\* file::move deletes its destination first, whether or not there is anything
\* to move.
DetachMove(w) ==
  /\ thread[w].pc = "closed"
  /\ LET p == thread[w].prefix
     IN  /\ shelf' = [shelf EXCEPT ![p] = path[p]]
         /\ path' = [path EXCEPT ![p] = None]
  /\ thread' = [thread EXCEPT ![w] = AfterDetach(w)]
  /\ UNCHANGED <<tableVars, objectVars, timeVars, orphans>>

\* The end of multidb::detach_prefixes: the prefix leaves the table or is
\* denied, with a timer that ends the denial.  (After multidb::stop a denial has
\* no workflow to post to; only the erasure is modelled.)
TimerFor_None(p, deny) == timers
TimerFor(p, deny) == timers \cup {[prefix |-> p, left |-> deny]}
DetachTable(w) ==
  /\ thread[w].pc = "table"
  /\ LET p == thread[w].prefix
         deny == thread[w].deny
     IN  /\ orphans' = IF map[p] \in Obj \ {thread[w].obj} THEN orphans \cup {map[p]} ELSE orphans
         /\ \/ /\ deny = 0
               /\ map' = [map EXCEPT ![p] = Absent]
               /\ timers' = timers
            \/ /\ deny > 0 /\ up
               /\ map' = [map EXCEPT ![p] = Denied]
               /\ timers' = TimerFor(p, deny)
         /\ promised' = [promised EXCEPT ![p] = deny]
  /\ thread' = [thread EXCEPT ![w] = Idle]
  /\ UNCHANGED <<up, diskVars, objectVars>>

\* A posted end of denial, or an attach, erases whatever null entry it finds.
Ended_Opened(v) == IF v \in Obj THEN Absent ELSE v
Ended(v) == IF v \in Null THEN Absent ELSE v
EndDenial(t) ==
  /\ t \in timers /\ t.left = 0
  /\ timers' = timers \ {t}
  /\ map' = [map EXCEPT ![t.prefix] = Ended(@)]
  /\ UNCHANGED <<up, diskVars, objectVars, thread, promised, orphans>>

\* multidb::attach_prefixes up to the end of its lock; with opendb a Call
\* without creation follows.
Attach(p) ==
  /\ LET back == shelf[p] # None /\ path[p] = None
     IN  /\ path' = [path EXCEPT ![p] = IF back THEN shelf[p] ELSE @]
         /\ shelf' = [shelf EXCEPT ![p] = IF back THEN None ELSE @]
  /\ map' = [map EXCEPT ![p] = Ended(@)]
  /\ promised' = [promised EXCEPT ![p] = 0]
  /\ UNCHANGED <<up, objectVars, thread, timers, orphans>>

\* multidb::stop; the handlers posted by multidb are dropped.
Stop ==
  /\ MayStop /\ up
  /\ up' = FALSE
  /\ map' = [p \in Prefix |-> Absent]
  /\ ref' = Stopped({map[p] : p \in Prefix})
  /\ waiting' = Unposted({map[p] : p \in Prefix})
  /\ timers' = {}
  /\ promised' = [p \in Prefix |-> 0]
  /\ UNCHANGED <<diskVars, owner, made, thread, orphans>>

\* A second passes.  Handlers that are due may run later.
Less(n) == IF n = 0 THEN 0 ELSE n - 1
Tick ==
  /\ \E t \in timers : t.left > 0
  /\ timers' = {[t EXCEPT !.left = Less(@)] : t \in timers}
  /\ promised' = [p \in Prefix |-> Less(promised[p])]
  /\ UNCHANGED <<tableVars, diskVars, objectVars, thread, orphans>>

-----------------------------------------------------------------------------
\* The directories there are when the table is configured.
Init ==
  /\ path \in [Prefix -> {None, MaxObj + 1}]
  /\ shelf = [p \in Prefix |-> None]
  /\ map = [p \in Prefix |-> Absent] /\ up = TRUE
  /\ owner = [o \in Obj |-> "none"]
  /\ ref = [o \in Obj |-> FALSE] /\ waiting = [o \in Obj |-> FALSE]
  /\ made = 0
  /\ thread = [w \in Thread |-> Idle]
  /\ timers = {} /\ promised = [p \in Prefix |-> 0]
  /\ orphans = {}

\* What a thread does of itself once it has started something.
Step(w) ==
  \/ Enter(w) \/ Leave(w) \/ Reopen(w)
  \/ DetachCheck(w) \/ DetachStop(w) \/ DetachMove(w) \/ DetachTable(w)

Next ==
  \/ \E w \in Thread :
       \/ Step(w) \/ BackupFails(w)
       \/ \E p \in Prefix : \E create \in BOOLEAN : Call(w, p, create)
       \/ \E p \in Prefix : \E deny \in Denials : DetachCall(w, p, deny)
       \/ \E o \in Obj : DetachAgain(w, o)
  \/ \E t \in timers : EndDenial(t)
  \/ \E p \in Prefix : Attach(p)
  \/ Stop \/ Tick

Spec == Init /\ [][Next]_vars

\* Threads run, the clock runs, and a handler that is due gets a thread: the
\* pool takes handlers from one queue, so requests cannot keep it out for ever.
Fairness ==
  /\ WF_vars(Tick)
  /\ \A w \in Thread : WF_vars(Step(w))
  /\ \A o \in Obj : SF_vars(\E w \in Thread : DetachAgain(w, o))
  /\ \A p \in Prefix : WF_vars(\E t \in timers : t.prefix = p /\ EndDenial(t))

FairSpec == Spec /\ Fairness
-----------------------------------------------------------------------------
(* Properties. *)

Names == Prefix \cup {"none"}

ThreadState ==
  [pc : {"idle", "calling", "using", "reopen", "detach", "clear", "closed", "table"},
   prefix : Names, obj : Obj \cup {None}, deny : Denials \cup {0}, last : BOOLEAN]

\* Every variable holds a value of its kind, and a thread that deals with an
\* object deals with one that was made.
TypeOK ==
  /\ map \in [Prefix -> Obj \cup {Absent, Denied, Failed}] /\ up \in BOOLEAN
  /\ path \in [Prefix -> 0..(MaxObj + 1)] /\ shelf \in [Prefix -> 0..(MaxObj + 1)]
  /\ owner \in [Obj -> Names]
  /\ ref \in [Obj -> BOOLEAN] /\ waiting \in [Obj -> BOOLEAN]
  /\ made \in 0..MaxObj
  /\ thread \in [Thread -> ThreadState]
  /\ timers \subseteq [prefix : Prefix, left : Nat] /\ promised \in [Prefix -> Nat]
  /\ orphans \subseteq Obj

\* Some thread or posted handler is going to stop the object.
Detaching(o) ==
  \/ waiting[o]
  \/ \E w \in Thread : thread[w].pc \in {"detach", "clear"} /\ thread[w].obj = o

\* A detach call on the prefix runs that will take it out of the table.
Removing(p) ==
  \E w \in Thread : /\ thread[w].pc \in {"detach", "clear", "closed", "table"}
                    /\ thread[w].prefix = p /\ ~thread[w].last

\* A database that is stopped stays in the table, where requests find it and get
\* no answer, only while a detach call runs that is about to take it out.
ClosedOnlyWhileDetaching ==
  \A p \in Prefix : map[p] \in Obj /\ ~ref[map[p]] => Removing(p)

\* A database that has left the table is stopped, or something is going to stop
\* it: the one exception is an object that a detach of an older object of the
\* same prefix drops.
DroppedIsDetaching ==
  \A o \in Obj : ref[o] /\ (\A p \in Prefix : map[p] # o) =>
    Detaching(o) \/ o \in orphans

\* A denied prefix has a timer that will end the denial, and when the time asked
\* for is over that timer is due.
DenialHasTimer ==
  \A p \in Prefix : map[p] = Denied =>
    \E t \in timers : t.prefix = p /\ t.left = promised[p]

\* What makes these inductive.
\* Threads, handlers and table entries refer to objects that were made, for the
\* prefix they deal with.
RefersToMade ==
  /\ \A p \in Prefix : map[p] \in Obj => map[p] <= made /\ owner[map[p]] = p
  /\ \A w \in Thread : thread[w] # Idle =>
       /\ thread[w].pc # "idle" /\ thread[w].prefix \in Prefix
       /\ thread[w].obj \in 1..made /\ owner[thread[w].obj] = thread[w].prefix
  /\ \A o \in Obj : ref[o] \/ waiting[o] => o <= made /\ owner[o] \in Prefix

\* An object in the table that a posted handler detaches is on its way out.
PostedIsRemoved ==
  \A p \in Prefix : map[p] \in Obj =>
    /\ waiting[map[p]] => Removing(p)
    /\ \A w \in Thread : thread[w].last /\ thread[w].obj = map[p] => Removing(p)

\* A detach that has moved the directory has stopped its object; one that has
\* not and has passed on has left it to another.
DetachedByOne ==
  \A w \in Thread :
    /\ thread[w].last => thread[w].pc \in {"detach", "clear", "closed"}
    /\ thread[w].pc = "closed" => ~ref[thread[w].obj]
    /\ thread[w].pc = "table" /\ ref[thread[w].obj] => Detaching(thread[w].obj)

IndInv == /\ TypeOK /\ RefersToMade /\ PostedIsRemoved /\ DetachedByOne
          /\ ClosedOnlyWhileDetaching /\ DroppedIsDetaching /\ DenialHasTimer

\* A detach that found its database in use completes: the database is stopped.
DetachCompletes ==
  \A o \in Obj : waiting[o] ~> ~ref[o]

\* A denial ends.
DenialEnds ==
  \A p \in Prefix : (map[p] = Denied) ~> (map[p] # Denied)

\* prefixdb_cmd.cpp:395: a prefix that was detached becomes available after the
\* time given, so from then on it is available again and again.
PrefixComesBack ==
  \A p \in Prefix : (map[p] = Denied) ~> []<>(map[p] \notin Null)
=============================================================================
