----------------------------- MODULE Snapshots -----------------------------
(***************************************************************************)
(* The snapshots of a database (wrocksdb::create_snapshot_,                *)
(* release_snapshot_, find_snapshot_ and the requests that use them).  A   *)
(* snapshot is made first and given a number under the mutex afterwards;   *)
(* the number that the answer tells is read again once the mutex is free.  *)
(*                                                                         *)
(* A snapshot is the name of the request it was made for.                  *)
(***************************************************************************)
EXTENDS DbObject

VARIABLES
  handles, \* the snapshots that RocksDB holds
  smap,    \* _snapshot_map: per number, the snapshot in a set, or nothing
  counter, \* _snapshot_counter
  told     \* auxiliary: what answers have told, of which snapshot, and whether another was
           \* put into the map between this one and the answer

snapshotVars == <<handles, smap, counter, told>>

Ids == 1..MaxCalls

\* The snapshots that threads have in hand, outside the map.
InHand == UNION {call[t].ss : t \in {u \in Threads : call[u].pc \in {"insert", "free"}}}
-----------------------------------------------------------------------------
\* create_snapshot, with or without a timeout: arg is 1 or 0.
EnterCreate(t) ==
  /\ \E timeout \in {0, 1} : Enter(t, "create", timeout)
  /\ UNCHANGED snapshotVars

GetSnapshot(t) ==
  /\ At(t, "create")
  /\ IF ~db
     THEN Over(t) /\ UNCHANGED handles
     ELSE /\ call' = [call EXCEPT ![t].pc = "insert", ![t].ss = {call[t].n}]
          /\ handles' = handles \cup {call[t].n}
  /\ UNCHANGED <<object, timers, smap, counter, told>>

Insert(t) ==
  /\ At(t, "insert") /\ Unlocked
  /\ counter' = counter + 1
  /\ smap' = [smap EXCEPT ![counter'] = call[t].ss]
  /\ call' = [u \in Threads |->
       IF u = t THEN [call[u] EXCEPT !.pc = "tell"]
       ELSE IF call[u].pc = "tell" THEN [call[u] EXCEPT !.crossed = TRUE] ELSE call[u]]
  /\ UNCHANGED <<object, timers, handles, told>>

\* get_property uses _db without a test; then the number is what the counter is now.
Number_Size == Cardinality({id \in Ids : smap[id] # {}})
Number == counter
Posted_None(t, id) == UNCHANGED timers
Posted(t, id) == IF call[t].arg = 0 THEN UNCHANGED timers ELSE Later(t, "release", id)
Tell(t) ==
  /\ At(t, "tell")
  /\ IF ~db
     THEN Crash /\ UNCHANGED told
     ELSE /\ told' = told \cup {[id |-> Number, ss |-> call[t].ss,
                                  timeout |-> call[t].arg, crossed |-> call[t].crossed]}
          /\ Posted(t, Number)
          /\ Over(t) /\ UNCHANGED object
  /\ UNCHANGED <<handles, smap, counter>>

\* release_snapshot, with a number that some answer told.
EnterRelease(t) ==
  /\ \E a \in told : Enter(t, "release", a.id)
  /\ UNCHANGED snapshotVars

\* The timer of a snapshot does not ask is_stopped_.
TimerReleases ==
  /\ At("timer", "none")
  /\ \E m \in timers :
       /\ m.what = "release"
       /\ timers' = timers \ {m}
       /\ call' = [call EXCEPT !["timer"].pc = "release", !["timer"].arg = m.arg]
  /\ UNCHANGED <<object, snapshotVars>>

Erase(t) ==
  /\ At(t, "release") /\ Unlocked
  /\ LET ss == smap[call[t].arg]
     IN  /\ IF ss = {} THEN Over(t) ELSE call' = [call EXCEPT ![t].pc = "free", ![t].ss = ss]
         /\ smap' = [smap EXCEPT ![call[t].arg] = {}]
  /\ UNCHANGED <<object, timers, handles, counter, told>>

Freed_None(held, ss) == held
Freed(held, ss) == held \ ss
ReleaseSnapshot(t) ==
  /\ At(t, "free")
  /\ handles' = IF db THEN Freed(handles, call[t].ss) ELSE handles
  /\ Over(t)
  /\ UNCHANGED <<object, timers, smap, counter, told>>

\* get and has of a key through a snapshot; without one they change and meet nothing.
EnterGet(t) ==
  /\ \E a \in told : Enter(t, "find", a.id)
  /\ UNCHANGED snapshotVars

\* find_snapshot_; what is not found is answered SnapshotNotFound.
Find(t) ==
  /\ At(t, "find") /\ Unlocked
  /\ IF smap[call[t].arg] = {}
     THEN Over(t)
     ELSE call' = [call EXCEPT ![t].pc = "read", ![t].ss = smap[call[t].arg]]
  /\ UNCHANGED <<object, timers, snapshotVars>>

\* MultiGet.  A snapshot that has been released meanwhile is a pointer to nothing.
Read(t) ==
  /\ At(t, "read")
  /\ \/ Over(t) /\ UNCHANGED <<object, timers>>
     \/ db /\ ~(call[t].ss \subseteq handles) /\ Crash
  /\ UNCHANGED snapshotVars

InitSnapshots ==
  /\ handles = {} /\ counter = 0 /\ told = {}
  /\ smap = [id \in Ids |-> {}]

SnapshotCall(t) ==
  GetSnapshot(t) \/ Insert(t) \/ Tell(t) \/ Erase(t) \/ ReleaseSnapshot(t) \/ Find(t) \/ Read(t)

SnapshotNext ==
  \/ \E t \in Threads : SnapshotCall(t)
  \/ \E t \in Clients : EnterCreate(t) \/ EnterRelease(t) \/ EnterGet(t)
  \/ TimerReleases
-----------------------------------------------------------------------------
(* Properties. *)

\* RocksDB holds a snapshot as long as the map has it or a thread is about to put it
\* there or to release it: none is lost, and none is released twice.
HandlesAccounted ==
  db /\ ~crashed => handles = InHand \cup UNION {smap[id] : id \in Ids}

\* The number an answer tells is that of the snapshot made for it and of no other,
\* whatever was made and released before, unless another was put into the map between.
SnapshotIsOwn ==
  \A a \in told : ~a.crossed => smap[a.id] \in {{}, a.ss}

\* What makes the two inductive.
Pcs == {"none", "create", "insert", "tell", "release", "free", "find", "read", "delay", "post",
        "continue", "continued", "compact", "scan", "put"}
CallType == [pc : Pcs, n : Nat, arg : Nat, ss : SUBSET (1..MaxCalls), crossed : BOOLEAN]

Typed ==
  /\ db \in BOOLEAN /\ crashed \in BOOLEAN /\ calls \in 0..MaxCalls /\ counter \in Nat
  /\ call \in [Threads -> CallType] /\ smap \in [Ids -> SUBSET (1..MaxCalls)]

\* Every request for a snapshot counts at most once.
Pending == {t \in Threads : call[t].pc \in {"create", "insert"}}
Counted == counter + Cardinality(Pending) <= calls

\* What a thread has made, or will make, and has not put into the map, or has taken out.
Held(t) ==
  IF call[t].pc = "create" THEN {call[t].n}
  ELSE IF call[t].pc \in {"insert", "free"} THEN call[t].ss ELSE {}

\* A snapshot is in one place.
Apart ==
  /\ \A t \in Threads : Held(t) \subseteq 1..calls
  /\ \A t, u \in Threads : t # u => Held(t) \cap Held(u) = {}
  /\ \A id \in Ids : smap[id] \subseteq 1..calls /\ (id > counter => smap[id] = {})
  /\ \A id, jd \in Ids : id # jd => smap[id] \cap smap[jd] = {}
  /\ \A t \in Threads, id \in Ids : Held(t) \cap smap[id] = {}

\* The numbers in use were given, and who is about to tell one knows whose it is.
Named ==
  /\ \A a \in told : a.id \in 1..counter
  /\ \A m \in timers : m.what = "release" => m.arg \in 1..counter
  /\ \A t \in Threads :
       /\ call[t].pc \in {"release", "find"} => call[t].arg \in 1..counter
       /\ call[t].pc = "tell" =>
            counter >= 1 /\ (call[t].crossed \/ smap[counter] \in {{}, call[t].ss})

SnapshotInv == Typed /\ Counted /\ Apart /\ Named /\ HandlesAccounted /\ SnapshotIsOwn

\* The snapshots named in answers to requests with a timeout are released in the end.
ToldIsReleased ==
  LET kept == {a \in told : a.timeout = 1 /\ smap[a.id] # {}}
  IN  (kept # {}) ~> (kept = {} \/ state # "open" \/ crashed)
=============================================================================
