--------------------------- MODULE DatabaseProofs ---------------------------
(***************************************************************************)
(* Proofs about the snapshots of a database that is also maintained and    *)
(* stopped, for every number of clients and requests: none is lost, none   *)
(* is released twice, and an answer that no other overtook tells its own.  *)
(* Then about its pauses, that each has a timer to end it, and about its   *)
(* repairs of JSON, that a full one leaves at most one broken value.       *)
(***************************************************************************)
EXTENDS Database, FiniteSetTheorems, TLAPS

USE ClientsAssumption

LEMMA PendingIsFinite == IsFiniteSet(Pending)
<1>1. IsFiniteSet(Threads)
  BY FS_AddElement DEF Threads
<1> QED BY <1>1, FS_Subset DEF Pending

LEMMA InitSnapshotInv == Init => SnapshotInv
<1> SUFFICES ASSUME Init PROVE SnapshotInv
  OBVIOUS
<1> USE DEF Init, InitObject, InitSnapshots, NoCall, Request
<1>1. Typed
  <2>1. NoCall \in CallType
    BY DEF CallType, Pcs
  <2>2. call \in [Threads -> CallType]
    <3> HIDE DEF NoCall
    <3> QED BY <2>1
  <2>3. smap \in [Ids -> SUBSET (1..MaxCalls)]
    OBVIOUS
  <2>4. db \in BOOLEAN /\ crashed \in BOOLEAN
    BY Zenon
  <2>5. calls \in 0..MaxCalls /\ counter \in Nat
    BY SMT
  <2> QED BY <2>2, <2>3, <2>4, <2>5 DEF Typed
<1>2. Pending = {}
  BY DEF Pending
<1>3. Counted
  BY <1>2, FS_EmptySet DEF Counted
<1>4. \A t \in Threads : Held(t) = {}
  BY DEF Held
<1>5. Apart /\ Named
  BY <1>4 DEF Apart, Named
<1>6. InHand = {}
  BY DEF InHand
<1>7. HandlesAccounted /\ SnapshotIsOwn
  BY <1>6 DEF HandlesAccounted, SnapshotIsOwn
<1> QED BY <1>1, <1>3, <1>5, <1>7 DEF SnapshotInv

\* A snapshot that RocksDB should hold is in the map or in hand.
LEMMA HandlesByElement ==
  HandlesAccounted <=>
    (db /\ ~crashed =>
       \A x : x \in handles <=>
         \/ \E t \in Threads : call[t].pc \in {"insert", "free"} /\ x \in call[t].ss
         \/ \E id \in Ids : x \in smap[id])
<1>1. \A x : x \in InHand <=> \E t \in Threads : call[t].pc \in {"insert", "free"} /\ x \in call[t].ss
  BY DEF InHand
<1>2. \A x : x \in UNION {smap[id] : id \in Ids} <=> \E id \in Ids : x \in smap[id]
  OBVIOUS
<1> QED BY <1>1, <1>2 DEF HandlesAccounted

LEMMA NewCall ==
  ASSUME NEW pc \in Pcs, NEW n \in 0..MaxCalls, NEW arg \in Nat,
         NEW c, c = [pc |-> pc, n |-> n, arg |-> arg, ss |-> {}, crossed |-> FALSE]
  PROVE  c \in CallType /\ c.pc = pc /\ c.n = n /\ c.arg = arg
<1>1. c \in CallType
  BY DEF CallType
<1>2. c.pc = pc /\ c.n = n /\ c.arg = arg
  OBVIOUS
<1> QED BY <1>1, <1>2

\* The kinds of step that a thread takes.
LEMMA EnterFacts ==
  ASSUME Typed, NEW t \in Threads, NEW pc \in Pcs, NEW arg \in Nat, Enter(t, pc, arg)
  PROVE  /\ call[t].pc = "none" /\ calls' = calls + 1 /\ calls' \in 0..MaxCalls
         /\ call' \in [Threads -> CallType]
         /\ call'[t].pc = pc /\ call'[t].arg = arg /\ call'[t].n = calls + 1
         /\ \A u \in Threads : u # t => call'[u] = call[u]
         /\ UNCHANGED <<state, db, crashed, timers>>
<1> DEFINE c == [pc |-> pc, n |-> calls', arg |-> arg, ss |-> {}, crossed |-> FALSE]
<1>1. /\ call[t].pc = "none" /\ calls < MaxCalls /\ calls' = calls + 1
      /\ call' = [call EXCEPT ![t] = c]
      /\ UNCHANGED <<state, db, crashed, timers>>
  BY DEF Enter, At, Request
<1>2. calls' \in 0..MaxCalls
  BY <1>1 DEF Typed
<1>3. \A d : d = c => d \in CallType /\ d.pc = pc /\ d.n = calls' /\ d.arg = arg
  BY <1>2, NewCall
<1>4. c \in CallType /\ c.pc = pc /\ c.arg = arg /\ c.n = calls'
  BY <1>3
<1> HIDE DEF c
<1> QED BY <1>1, <1>2, <1>4 DEF Typed

LEMMA OverFacts ==
  ASSUME Typed, NEW t \in Threads, Over(t)
  PROVE  /\ call' \in [Threads -> CallType] /\ call'[t].pc = "none"
         /\ \A u \in Threads : u # t => call'[u] = call[u]
BY DEF Over, NoCall, Request, Typed, CallType, Pcs

LEMMA GotoFacts ==
  ASSUME Typed, NEW t \in Threads, NEW pc \in Pcs, Goto(t, pc)
  PROVE  /\ call' \in [Threads -> CallType] /\ call'[t].pc = pc
         /\ \A u \in Threads : u # t => call'[u] = call[u]
BY DEF Goto, Typed, CallType

\* A step that leaves the snapshots where they are.
Aside ==
  /\ UNCHANGED <<handles, smap, counter, told>>
  /\ db' \in BOOLEAN /\ (db' => db) /\ crashed' \in BOOLEAN /\ (crashed => crashed')
  /\ calls' \in 0..MaxCalls /\ calls <= calls'
  /\ call' \in [Threads -> CallType]
  /\ \A u \in Threads :
       \/ call'[u] = call[u]
       \/ /\ call[u].pc \notin {"create", "insert", "free"}
          /\ call'[u].pc \notin {"create", "insert", "free", "tell"}
          /\ call'[u].pc \in {"release", "find"} => call'[u].arg \in 1..counter
  /\ \A m \in timers' : m.what = "release" => m \in timers

LEMMA AsideKeeps == ASSUME SnapshotInv, Aside PROVE SnapshotInv'
<1> USE DEF SnapshotInv
<1>1. Typed'
  BY DEF Aside, Typed
<1>2. Pending' = Pending
  BY DEF Aside, Pending
<1>3. Counted'
  <2>1. Cardinality(Pending) \in Nat
    BY PendingIsFinite, FS_CardinalityType
  <2> QED BY <1>2, <2>1 DEF Aside, Counted, Typed
<1>4. \A u \in Threads : Held(u)' = Held(u)
  BY DEF Aside, Held
<1>5. Apart'
  <2>1. 1..calls \subseteq 1..calls'
    BY DEF Aside, Typed
  <2>2. smap' = smap /\ counter' = counter
    BY DEF Aside
  <2> QED BY <1>4, <2>1, <2>2 DEF Apart
<1>6. Named'
  BY DEF Aside, Named
<1>7. HandlesAccounted'
  <2>1. \A u \in Threads : call'[u].pc \in {"insert", "free"} <=> call[u].pc \in {"insert", "free"}
    BY DEF Aside
  <2>2. \A u \in Threads : call[u].pc \in {"insert", "free"} => call'[u].ss = call[u].ss
    BY DEF Aside
  <2>3. InHand' = InHand
    BY <2>1, <2>2 DEF InHand
  <2> QED BY <2>3 DEF HandlesAccounted, Aside
<1>8. SnapshotIsOwn'
  BY DEF Aside, SnapshotIsOwn
<1> QED BY <1>1, <1>3, <1>5, <1>6, <1>7, <1>8

\* A request begins, that is not for a snapshot.
LEMMA EnterAside ==
  ASSUME SnapshotInv, NEW t \in Threads, NEW pc \in Pcs \ {"create", "insert", "free", "tell"},
         NEW arg \in Nat, pc \in {"release", "find"} => arg \in 1..counter,
         Enter(t, pc, arg), UNCHANGED snapshotVars
  PROVE  SnapshotInv'
<1>1. Aside
  BY EnterFacts DEF Aside, SnapshotInv, Typed, snapshotVars
<1> QED BY <1>1, AsideKeeps

\* A thread goes on, with no snapshot in hand, or is done.
LEMMA CallAside ==
  ASSUME SnapshotInv, NEW t \in Threads, call[t].pc \notin {"create", "insert", "free"},
         \/ Over(t)
         \/ \E pc \in Pcs \ {"create", "insert", "free", "tell", "release", "find"} : Goto(t, pc),
         UNCHANGED <<object, snapshotVars>>,
         \A m \in timers' : m.what = "release" => m \in timers
  PROVE  SnapshotInv'
<1>1. /\ call' \in [Threads -> CallType]
      /\ call'[t].pc \notin {"create", "insert", "free", "tell", "release", "find"}
      /\ \A u \in Threads : u # t => call'[u] = call[u]
  BY OverFacts, GotoFacts DEF SnapshotInv
<1>2. Aside
  BY <1>1 DEF Aside, SnapshotInv, Typed, object, snapshotVars
<1> QED BY <1>2, AsideKeeps

LEMMA CrashAside ==
  ASSUME SnapshotInv, Crash, UNCHANGED snapshotVars PROVE SnapshotInv'
<1>1. Aside
  BY DEF Crash, Aside, SnapshotInv, Typed, snapshotVars
<1> QED BY <1>1, AsideKeeps

LEMMA MaintenanceKeeps ==
  ASSUME SnapshotInv, MaintenanceStep PROVE SnapshotInv'
<1>1. UNCHANGED snapshotVars
  BY DEF MaintenanceStep
<1>2. ASSUME NEW t \in Clients,
             EnterDelay(t) \/ EnterContinue(t) \/ EnterCompact(t) \/ EnterRepair(t)
      PROVE  SnapshotInv'
  <2>1. PICK pc \in {"delay", "continue", "compact", "scan"}, arg \in {0, 1} : Enter(t, pc, arg)
    BY <1>2 DEF EnterDelay, EnterContinue, EnterCompact, EnterRepair
  <2>2. t \in Threads /\ arg \in Nat /\ pc \in Pcs \ {"create", "insert", "free", "tell"}
    BY DEF Threads, Pcs
  <2> QED BY <1>1, <2>1, <2>2, EnterAside
<1>3. ASSUME NEW t \in Clients, MaintenanceCall(t) PROVE SnapshotInv'
  <2>1. CASE Crash
    BY <1>1, <2>1, CrashAside
  <2>2. CASE ~Crash
    <3>1. /\ call[t].pc \in {"delay", "post", "continue", "continued", "compact", "scan", "put"}
          /\ UNCHANGED object
          /\ Over(t) \/ \E pc \in {"post", "continued", "put"} : Goto(t, pc)
          /\ \A m \in timers' : m.what = "release" => m \in timers
      BY <1>3, <2>2 DEF MaintenanceCall, Pause, PostContinue, Continue, AfterContinue, Compact, Scan,
         PutRepaired, At, Posts, Later, object
    <3>2. {"post", "continued", "put"} \subseteq
            Pcs \ {"create", "insert", "free", "tell", "release", "find"} /\ t \in Threads
      BY DEF Pcs, Threads
    <3> QED BY <1>1, <3>1, <3>2, CallAside
  <2> QED BY <2>1, <2>2
<1>4. CASE TimerContinues
  <2>1. Aside
    BY <1>1, <1>4 DEF TimerContinues, Aside, SnapshotInv, Typed, object, snapshotVars
  <2> QED BY <2>1, AsideKeeps
<1> QED BY <1>2, <1>3, <1>4 DEF MaintenanceStep, MaintenanceNext

LEMMA OthersKeep ==
  ASSUME SnapshotInv, ClientWrites \/ Stops \/ UNCHANGED vars PROVE SnapshotInv'
<1>1. /\ UNCHANGED <<snapshotVars, call, calls, crashed>>
      /\ db' = db \/ db' = FALSE
      /\ timers' = timers \/ timers' = {}
  BY DEF ClientWrites, Write, Stops, StopBegins, StopEnds, vars, object, snapshotVars
<1>2. /\ UNCHANGED <<handles, smap, counter, told, call, calls, crashed>>
      /\ \A m \in timers' : m.what = "release" => m \in timers
  BY <1>1 DEF snapshotVars
<1>3. db' \in BOOLEAN /\ (db' => db) /\ crashed' \in BOOLEAN /\ (crashed => crashed')
  <2>1. db \in BOOLEAN /\ crashed \in BOOLEAN
    BY DEF SnapshotInv, Typed
  <2>2. db' = db \/ db' = FALSE
    BY <1>1
  <2>3. crashed' = crashed
    BY <1>2
  <2>4. db' \in BOOLEAN
    BY <2>1, <2>2
  <2>5. db' => db
    BY <2>2
  <2>6. crashed' \in BOOLEAN
    BY <2>1, <2>3
  <2>7. crashed => crashed'
    BY <2>3
  <2> QED BY <2>4, <2>5, <2>6, <2>7
<1>4. calls' \in 0..MaxCalls /\ calls <= calls' /\ call' \in [Threads -> CallType]
  BY <1>2 DEF SnapshotInv, Typed
<1>5. Aside
  BY <1>2, <1>3, <1>4 DEF Aside
<1> QED BY <1>5, AsideKeeps

\* What a step of one thread does to the count of the requests for a snapshot.
LEMMA PendingFacts ==
  ASSUME NEW t \in Threads, \A u \in Threads : u # t => call'[u].pc = call[u].pc
  PROVE  /\ Cardinality(Pending) \in Nat
         /\ t \notin Pending /\ t \in Pending' => Cardinality(Pending') = Cardinality(Pending) + 1
         /\ t \in Pending /\ t \notin Pending' => Cardinality(Pending') = Cardinality(Pending) - 1
         /\ (t \in Pending <=> t \in Pending') => Pending' = Pending
<1>1. IsFiniteSet(Pending) /\ Cardinality(Pending) \in Nat
  BY PendingIsFinite, FS_CardinalityType
<1>2. \A u \in Threads : u # t => (u \in Pending' <=> u \in Pending)
  BY DEF Pending
<1>3. Pending \subseteq Threads /\ Pending' \subseteq Threads
  BY DEF Pending, Threads
<1>4. t \notin Pending /\ t \in Pending' => Pending' = Pending \cup {t}
  BY <1>2, <1>3
<1>5. t \in Pending /\ t \notin Pending' => Pending' = Pending \ {t}
  BY <1>2, <1>3
<1>6. (t \in Pending <=> t \in Pending') => Pending' = Pending
  BY <1>2, <1>3
<1> QED BY <1>1, <1>4, <1>5, <1>6, FS_AddElement, FS_RemoveElement

\* The numbers in use are numbers that there are.
LEMMA CounterBound == ASSUME Typed, Counted PROVE counter <= MaxCalls /\ 1..counter \subseteq Ids
<1>1. Cardinality(Pending) \in Nat
  BY PendingIsFinite, FS_CardinalityType
<1>2. counter <= MaxCalls
  BY <1>1 DEF Typed, Counted
<1> QED BY <1>2 DEF Typed, Ids

LEMMA EnterCreateKeeps ==
  ASSUME SnapshotInv, NEW t \in Clients, EnterCreate(t) PROVE SnapshotInv'
<1> USE DEF SnapshotInv
<1>1. t \in Threads
  BY DEF Threads
<1>2. PICK timeout \in {0, 1} : Enter(t, "create", timeout)
  BY DEF EnterCreate
<1>3. UNCHANGED <<handles, smap, counter, told>>
  BY DEF EnterCreate, snapshotVars
<1>4. "create" \in Pcs /\ timeout \in Nat
  BY DEF Pcs
<1>5. /\ call[t].pc = "none" /\ calls' = calls + 1 /\ calls' \in 0..MaxCalls
      /\ call' \in [Threads -> CallType]
      /\ call'[t].pc = "create" /\ call'[t].n = calls + 1
      /\ \A u \in Threads : u # t => call'[u] = call[u]
      /\ UNCHANGED <<state, db, crashed, timers>>
  BY <1>1, <1>2, <1>4, EnterFacts
<1>6. Typed'
  BY <1>3, <1>5 DEF Typed
<1>7. Counted'
  <2>1. t \notin Pending /\ t \in Pending'
    BY <1>1, <1>5 DEF Pending
  <2>2. Cardinality(Pending') = Cardinality(Pending) + 1 /\ Cardinality(Pending) \in Nat
    BY <1>1, <1>5, <2>1, PendingFacts
  <2> QED BY <1>3, <1>5, <2>2 DEF Counted, Typed
<1>8. Apart'
  <2>1. Held(t) = {} /\ Held(t)' = {calls + 1}
    BY <1>5 DEF Held
  <2>2. \A u \in Threads : u # t => Held(u)' = Held(u)
    BY <1>5 DEF Held
  <2>3. calls + 1 \notin 1..calls /\ 1..calls' = 1..calls \cup {calls + 1}
    BY <1>5 DEF Typed
  <2> QED BY <1>1, <1>3, <2>1, <2>2, <2>3 DEF Apart
<1>9. Named'
  BY <1>3, <1>5 DEF Named
<1>10. HandlesAccounted'
  <2>1. InHand' = InHand
    BY <1>1, <1>5 DEF InHand
  <2> QED BY <1>3, <1>5, <2>1 DEF HandlesAccounted
<1>11. SnapshotIsOwn'
  BY <1>3 DEF SnapshotIsOwn
<1> QED BY <1>6, <1>7, <1>8, <1>9, <1>10, <1>11

LEMMA GetSnapshotKeeps ==
  ASSUME SnapshotInv, NEW t \in Threads, GetSnapshot(t) PROVE SnapshotInv'
<1> USE DEF SnapshotInv
<1>1. /\ call[t].pc = "create"
      /\ UNCHANGED <<state, db, crashed, calls, timers, smap, counter, told>>
  BY DEF GetSnapshot, At, object
<1>2. /\ call' \in [Threads -> CallType]
      /\ \A u \in Threads : u # t => call'[u] = call[u]
      /\ \/ ~db /\ call'[t].pc = "none" /\ handles' = handles
         \/ /\ db /\ call'[t].pc = "insert" /\ call'[t].ss = {call[t].n}
            /\ handles' = handles \cup {call[t].n}
  <2>1. CASE ~db
    BY <2>1, OverFacts DEF GetSnapshot
  <2>2. CASE db
    <3>1. {call[t].n} \subseteq 1..MaxCalls
      BY <1>1 DEF Apart, Held, Typed
    <3> QED BY <2>2, <3>1 DEF GetSnapshot, Typed, CallType, Pcs
  <2> QED BY <2>1, <2>2
<1>3. Typed'
  BY <1>1, <1>2 DEF Typed
<1>4. Counted'
  <2>1. Cardinality(Pending') <= Cardinality(Pending) /\ Cardinality(Pending') \in Nat
    <3>1. t \in Pending
      BY <1>1 DEF Pending
    <3>2. /\ Cardinality(Pending) \in Nat
          /\ t \notin Pending' => Cardinality(Pending') = Cardinality(Pending) - 1
          /\ t \in Pending' => Pending' = Pending
      BY <1>2, <3>1, PendingFacts
    <3>3. Cardinality(Pending') \in Nat
      <4>1. IsFiniteSet(Threads)
        BY FS_AddElement DEF Threads
      <4>2. Pending' \subseteq Threads
        BY DEF Pending, Threads
      <4> QED BY <4>1, <4>2, FS_Subset, FS_CardinalityType
    <3> QED BY <3>2, <3>3
  <2>2. Cardinality(Pending) \in Nat
    BY PendingIsFinite, FS_CardinalityType
  <2> QED BY <1>1, <2>1, <2>2 DEF Counted, Typed
<1>5. Apart'
  <2>1. Held(t)' \subseteq Held(t)
    BY <1>1, <1>2 DEF Held
  <2>2. \A u \in Threads : u # t => Held(u)' = Held(u)
    BY <1>2 DEF Held
  <2> QED BY <1>1, <2>1, <2>2 DEF Apart
<1>6. Named'
  BY <1>1, <1>2 DEF Named
<1>7. HandlesAccounted'
  BY <1>1, <1>2, HandlesByElement DEF HandlesAccounted, InHand
<1>8. SnapshotIsOwn'
  BY <1>1 DEF SnapshotIsOwn
<1> QED BY <1>3, <1>4, <1>5, <1>6, <1>7, <1>8

LEMMA InsertKeeps ==
  ASSUME SnapshotInv, NEW t \in Threads, Insert(t) PROVE SnapshotInv'
<1> USE DEF SnapshotInv
<1> DEFINE id == counter + 1
<1>1. /\ call[t].pc = "insert" /\ counter' = id
      /\ smap' = [smap EXCEPT ![id] = call[t].ss]
      /\ UNCHANGED <<state, db, crashed, calls, timers, handles, told>>
  BY DEF Insert, At, object
<1>2. /\ call' \in [Threads -> CallType]
      /\ call'[t].pc = "tell" /\ call'[t].ss = call[t].ss
      /\ \A u \in Threads : u # t =>
           /\ call'[u].pc = call[u].pc /\ call'[u].ss = call[u].ss
           /\ call'[u].n = call[u].n /\ call'[u].arg = call[u].arg
           /\ call'[u].pc = "tell" => call'[u].crossed
  BY DEF Insert, Typed, CallType, Pcs
<1>3. t \in Pending /\ t \notin Pending'
  BY <1>1, <1>2 DEF Pending
<1>4. Cardinality(Pending') = Cardinality(Pending) - 1 /\ Cardinality(Pending) \in Nat
  BY <1>2, <1>3, PendingFacts
<1>5. Cardinality(Pending) # 0
  BY <1>3, PendingIsFinite, FS_EmptySet
<1>6. counter \in Nat /\ calls \in Nat /\ MaxCalls \in Nat /\ calls <= MaxCalls
  BY DEF Typed
<1>7. id \in Ids /\ Counted'
  BY <1>1, <1>4, <1>5, <1>6 DEF Counted, Ids
<1>8. /\ smap' \in [Ids -> SUBSET (1..MaxCalls)] /\ smap'[id] = call[t].ss
      /\ \A jd \in Ids : jd # id => smap'[jd] = smap[jd]
  BY <1>1, <1>7 DEF Typed, CallType
<1>9. Typed'
  BY <1>1, <1>2, <1>6, <1>8 DEF Typed
<1>10. Held(t) = call[t].ss /\ Held(t)' = {} /\ \A u \in Threads : u # t => Held(u)' = Held(u)
  BY <1>1, <1>2 DEF Held
<1>11. Apart'
  <2>1. \A jd \in Ids : smap'[jd] \subseteq 1..calls /\ (jd > id => smap'[jd] = {})
    <3>1. \A jd \in Ids : jd > id => jd > counter /\ jd # id
      BY <1>6 DEF Ids
    <3> QED BY <1>8, <1>10, <3>1 DEF Apart
  <2>2. \A jd, kd \in Ids : jd # kd => smap'[jd] \cap smap'[kd] = {}
    BY <1>8, <1>10 DEF Apart
  <2>3. \A u \in Threads, jd \in Ids : Held(u)' \cap smap'[jd] = {}
    BY <1>8, <1>10 DEF Apart
  <2>4. /\ \A u \in Threads : Held(u)' \subseteq 1..calls
        /\ \A u, v \in Threads : u # v => Held(u)' \cap Held(v)' = {}
    BY <1>10 DEF Apart
  <2> HIDE DEF id
  <2> QED BY <1>1, <2>1, <2>2, <2>3, <2>4 DEF Apart
<1>12. 1..counter \subseteq 1..id /\ id \in 1..id /\ id \notin 1..counter /\ id >= 1
  BY <1>6
<1>13. Named'
  <2>1. \A a \in told : a.id \in 1..id
    BY <1>12 DEF Named
  <2>2. \A m \in timers : m.what = "release" => m.arg \in 1..id
    BY <1>12 DEF Named
  <2>3. \A u \in Threads : call'[u].pc \in {"release", "find"} => call'[u].arg \in 1..id
    BY <1>2, <1>12 DEF Named
  <2>4. \A u \in Threads : call'[u].pc = "tell" => call'[u].crossed \/ smap'[id] \in {{}, call'[u].ss}
    BY <1>2, <1>8
  <2> HIDE DEF id
  <2> QED BY <1>1, <1>12, <2>1, <2>2, <2>3, <2>4 DEF Named
<1>14. HandlesAccounted'
  <2>1. \A x : (\E jd \in Ids : x \in smap'[jd]) <=> x \in call[t].ss \/ \E jd \in Ids : x \in smap[jd]
    <3>1. smap[id] = {}
      <4>1. id > counter
        BY <1>6
      <4> QED BY <1>7, <4>1 DEF Apart
    <3> QED BY <1>7, <1>8, <3>1
  <2>2. \A x : (\E u \in Threads : call[u].pc \in {"insert", "free"} /\ x \in call[u].ss) <=>
          x \in call[t].ss \/ \E u \in Threads : call'[u].pc \in {"insert", "free"} /\ x \in call'[u].ss
    BY <1>1, <1>2
  <2> QED BY <1>1, <2>1, <2>2, HandlesByElement DEF HandlesAccounted, InHand
<1>15. SnapshotIsOwn'
  <2>1. \A a \in told : a.id \in 1..counter /\ a.id \in Ids
    BY CounterBound DEF Named
  <2> QED BY <1>1, <1>8, <1>12, <2>1 DEF SnapshotIsOwn
<1> QED BY <1>7, <1>9, <1>11, <1>13, <1>14, <1>15

LEMMA TellKeeps ==
  ASSUME SnapshotInv, NEW t \in Threads, Tell(t) PROVE SnapshotInv'
<1> USE DEF SnapshotInv
<1>1. CASE ~db
  <2>1. Crash /\ UNCHANGED snapshotVars
    BY <1>1 DEF Tell, snapshotVars
  <2> QED BY <2>1, CrashAside
<1>2. CASE db
  <2> DEFINE a == [id |-> counter, ss |-> call[t].ss,
                   timeout |-> call[t].arg, crossed |-> call[t].crossed]
  <2>1. /\ call[t].pc = "tell" /\ told' = told \cup {a} /\ Over(t)
        /\ UNCHANGED <<state, db, crashed, calls, handles, smap, counter>>
    BY <1>2 DEF Tell, At, Number, object
  <2>2. \A m \in timers' : m \in timers \/ m.arg = counter
    BY <1>2 DEF Tell, Posted, Later, Number
  <2>3. /\ counter >= 1
        /\ call[t].crossed \/ smap[counter] \in {{}, call[t].ss}
    BY <2>1 DEF Named
  <2>4. /\ call' \in [Threads -> CallType] /\ call'[t].pc = "none"
        /\ \A u \in Threads : u # t => call'[u] = call[u]
    BY <2>1, OverFacts
  <2>5. a.id = counter /\ a.ss = call[t].ss /\ a.crossed = call[t].crossed
    OBVIOUS
  <2> HIDE DEF a
  <2>6. Typed'
    BY <2>1, <2>4 DEF Typed
  <2>7. Pending' = Pending
    BY <2>1, <2>4 DEF Pending
  <2>8. Counted'
    BY <2>1, <2>7 DEF Counted
  <2>9. \A u \in Threads : Held(u)' = Held(u)
    BY <2>1, <2>4 DEF Held
  <2>10. Apart'
    BY <2>1, <2>9 DEF Apart
  <2>11. counter \in 1..counter
    BY <2>3 DEF Typed
  <2>12. Named'
    BY <2>1, <2>2, <2>4, <2>5, <2>11 DEF Named
  <2>13. InHand' = InHand
    BY <2>1, <2>4 DEF InHand
  <2>14. HandlesAccounted'
    BY <2>1, <2>13 DEF HandlesAccounted
  <2>15. SnapshotIsOwn'
    BY <2>1, <2>3, <2>5 DEF SnapshotIsOwn
  <2> QED BY <2>6, <2>8, <2>10, <2>12, <2>14, <2>15
<1>3. db \in BOOLEAN
  BY DEF Typed
<1> QED BY <1>1, <1>2, <1>3

LEMMA EraseKeeps ==
  ASSUME SnapshotInv, NEW t \in Threads, Erase(t) PROVE SnapshotInv'
<1> USE DEF SnapshotInv
<1> DEFINE id == call[t].arg
<1> DEFINE ss == smap[id]
<1>1. /\ call[t].pc = "release" /\ smap' = [smap EXCEPT ![id] = {}]
      /\ UNCHANGED <<state, db, crashed, calls, timers, handles, counter, told>>
  BY DEF Erase, At, object
<1>2. id \in Ids /\ id \in 1..counter
  BY <1>1, CounterBound DEF Named
<1>3. /\ smap' \in [Ids -> SUBSET (1..MaxCalls)] /\ smap'[id] = {}
      /\ \A jd \in Ids : jd # id => smap'[jd] = smap[jd]
  BY <1>1, <1>2 DEF Typed
<1>4. /\ call' \in [Threads -> CallType]
      /\ \A u \in Threads : u # t => call'[u] = call[u]
      /\ \/ ss = {} /\ call'[t].pc = "none"
         \/ call'[t].pc = "free" /\ call'[t].ss = ss
  <2>1. CASE ss = {}
    BY <2>1, OverFacts DEF Erase
  <2>2. CASE ss # {}
    <3>1. ss \subseteq 1..MaxCalls
      BY <1>2 DEF Typed
    <3> QED BY <2>2, <3>1 DEF Erase, Typed, CallType, Pcs
  <2> QED BY <2>1, <2>2
<1> HIDE DEF id
<1>5. Typed'
  BY <1>1, <1>3, <1>4 DEF Typed
<1>6. Pending' = Pending
  BY <1>1, <1>4 DEF Pending
<1>7. Counted'
  BY <1>1, <1>6 DEF Counted
<1>8. /\ Held(t) = {} /\ Held(t)' = ss
      /\ \A u \in Threads : u # t => Held(u)' = Held(u)
  BY <1>1, <1>4 DEF Held
<1>9. Apart'
  <2>1. /\ \A u \in Threads : Held(u)' \subseteq 1..calls
        /\ \A u, v \in Threads : u # v => Held(u)' \cap Held(v)' = {}
    BY <1>2, <1>8 DEF Apart
  <2>2. /\ \A jd \in Ids : smap'[jd] \subseteq 1..calls /\ (jd > counter => smap'[jd] = {})
        /\ \A jd, kd \in Ids : jd # kd => smap'[jd] \cap smap'[kd] = {}
        /\ \A u \in Threads, jd \in Ids : Held(u)' \cap smap'[jd] = {}
    BY <1>2, <1>3, <1>8 DEF Apart
  <2> QED BY <1>1, <2>1, <2>2 DEF Apart
<1>10. Named'
  <2>1. \A u \in Threads : call'[u].pc \in {"release", "find"} => call'[u].arg \in 1..counter
    BY <1>4 DEF Named
  <2>2. counter \in Nat /\ (counter >= 1 => counter \in Ids)
    BY CounterBound DEF Typed
  <2>3. \A u \in Threads : call'[u].pc = "tell" =>
          counter >= 1 /\ (call'[u].crossed \/ smap'[counter] \in {{}, call'[u].ss})
    BY <1>3, <1>4, <2>2 DEF Named
  <2> QED BY <1>1, <2>1, <2>3 DEF Named
<1>11. HandlesAccounted'
  <2>1. \A x : (\E jd \in Ids : x \in smap[jd]) <=> x \in ss \/ \E jd \in Ids : x \in smap'[jd]
    BY <1>2, <1>3
  <2>2. \A x : (\E u \in Threads : call'[u].pc \in {"insert", "free"} /\ x \in call'[u].ss) <=>
          x \in ss \/ \E u \in Threads : call[u].pc \in {"insert", "free"} /\ x \in call[u].ss
    BY <1>1, <1>4
  <2> QED BY <1>1, <2>1, <2>2, HandlesByElement DEF HandlesAccounted, InHand
<1>12. SnapshotIsOwn'
  <2>1. \A a \in told : a.id \in Ids
    BY CounterBound DEF Named
  <2> QED BY <1>1, <1>3, <2>1 DEF SnapshotIsOwn
<1> QED BY <1>5, <1>7, <1>9, <1>10, <1>11, <1>12

LEMMA ReleaseSnapshotKeeps ==
  ASSUME SnapshotInv, NEW t \in Threads, ReleaseSnapshot(t) PROVE SnapshotInv'
<1> USE DEF SnapshotInv
<1>1. /\ call[t].pc = "free" /\ Over(t)
      /\ handles' = IF db THEN handles \ call[t].ss ELSE handles
      /\ UNCHANGED <<state, db, crashed, calls, timers, smap, counter, told>>
  BY DEF ReleaseSnapshot, At, Freed, object
<1>2. /\ call' \in [Threads -> CallType] /\ call'[t].pc = "none"
      /\ \A u \in Threads : u # t => call'[u] = call[u]
  BY <1>1, OverFacts
<1>3. Typed'
  BY <1>1, <1>2 DEF Typed
<1>4. Pending' = Pending
  BY <1>1, <1>2 DEF Pending
<1>5. Counted'
  BY <1>1, <1>4 DEF Counted
<1>6. /\ Held(t) = call[t].ss /\ Held(t)' = {}
      /\ \A u \in Threads : u # t => Held(u)' = Held(u)
  BY <1>1, <1>2 DEF Held
<1>7. Apart'
  BY <1>1, <1>6 DEF Apart
<1>8. Named'
  BY <1>1, <1>2 DEF Named
<1>9. HandlesAccounted'
  <2>1. \A x : (\E u \in Threads : call'[u].pc \in {"insert", "free"} /\ x \in call'[u].ss) <=>
          /\ x \notin call[t].ss
          /\ \E u \in Threads : call[u].pc \in {"insert", "free"} /\ x \in call[u].ss
    <3>1. \A u \in Threads : u # t /\ call[u].pc \in {"insert", "free"} =>
            call[u].ss \cap call[t].ss = {}
      <4>1. \A u \in Threads : call[u].pc \in {"insert", "free"} => Held(u) = call[u].ss
        BY DEF Held
      <4> QED BY <1>6, <4>1 DEF Apart
    <3> QED BY <1>1, <1>2, <3>1
  <2>2. \A id \in Ids : smap[id] \cap call[t].ss = {}
    BY <1>6 DEF Apart
  <2> QED BY <1>1, <2>1, <2>2, HandlesByElement DEF HandlesAccounted, InHand
<1>10. SnapshotIsOwn'
  BY <1>1 DEF SnapshotIsOwn
<1> QED BY <1>3, <1>5, <1>7, <1>8, <1>9, <1>10

\* The steps that leave the snapshots where they are.
LEMMA ReadersKeep ==
  ASSUME SnapshotInv, NEW t \in Threads,
         \/ t \in Clients /\ (EnterRelease(t) \/ EnterGet(t))
         \/ Find(t) \/ Read(t)
  PROVE  SnapshotInv'
<1> USE DEF SnapshotInv
<1>1. CASE EnterRelease(t) \/ EnterGet(t)
  <2>1. PICK a \in told, pc \in {"release", "find"} : Enter(t, pc, a.id)
    BY <1>1 DEF EnterRelease, EnterGet
  <2>2. a.id \in Nat /\ a.id \in 1..counter
    BY DEF Named
  <2>3. pc \in Pcs \ {"create", "insert", "free", "tell"}
    BY DEF Pcs
  <2> QED BY <1>1, <2>1, <2>2, <2>3, EnterAside DEF EnterRelease, EnterGet
<1>2. CASE Find(t)
  <2>1. call[t].pc = "find" /\ UNCHANGED <<object, timers, snapshotVars>>
    BY <1>2 DEF Find, At
  <2>2. CASE smap[call[t].arg] = {}
    BY <1>2, <2>1, <2>2, CallAside DEF Find
  <2>3. CASE smap[call[t].arg] # {}
    <3>1. call[t].arg \in Ids
      BY <2>1, CounterBound DEF Named
    <3>2. /\ call' \in [Threads -> CallType] /\ call'[t].pc = "read"
          /\ \A u \in Threads : u # t => call'[u] = call[u]
      BY <1>2, <2>3, <3>1 DEF Find, Typed, CallType, Pcs
    <3>3. Aside
      BY <2>1, <3>2 DEF Aside, Typed, object, snapshotVars
    <3> QED BY <3>3, AsideKeeps
  <2> QED BY <2>2, <2>3
<1>3. CASE Read(t)
  <2>1. CASE Crash
    BY <1>3, <2>1, CrashAside DEF Read
  <2>2. CASE ~Crash
    BY <1>3, <2>2, CallAside DEF Read, At
  <2> QED BY <2>1, <2>2
<1> QED BY <1>1, <1>2, <1>3

LEMMA TimerReleasesKeeps == ASSUME SnapshotInv, TimerReleases PROVE SnapshotInv'
<1> USE DEF SnapshotInv
<1>1. PICK m \in timers :
        /\ m.what = "release" /\ timers' = timers \ {m}
        /\ call' = [call EXCEPT !["timer"].pc = "release", !["timer"].arg = m.arg]
  BY DEF TimerReleases
<1>2. call["timer"].pc = "none" /\ UNCHANGED <<object, snapshotVars>> /\ "timer" \in Threads
  BY DEF TimerReleases, At, Threads
<1>3. m.arg \in 1..counter /\ m.arg \in Nat
  BY <1>1 DEF Named
<1>4. /\ call' \in [Threads -> CallType]
      /\ call'["timer"].pc = "release" /\ call'["timer"].arg = m.arg
      /\ \A u \in Threads : u # "timer" => call'[u] = call[u]
  <2>1. call["timer"] \in CallType /\ call \in [Threads -> CallType]
    BY <1>2 DEF Typed
  <2>2. [call["timer"] EXCEPT !.pc = "release", !.arg = m.arg] \in CallType
    BY <1>3, <2>1 DEF CallType, Pcs
  <2>3. call' = [call EXCEPT !["timer"] = [call["timer"] EXCEPT !.pc = "release", !.arg = m.arg]]
    BY <1>1, <1>2, <2>1 DEF CallType
  <2> QED BY <1>2, <2>1, <2>2, <2>3 DEF CallType
<1>5. Aside
  BY <1>1, <1>2, <1>3, <1>4 DEF Aside, Typed, object, snapshotVars
<1> QED BY <1>5, AsideKeeps

LEMMA NextKeeps == ASSUME SnapshotInv, [Next]_vars PROVE SnapshotInv'
<1>1. ASSUME NEW t \in Threads, SnapshotCall(t) PROVE SnapshotInv'
  BY <1>1, GetSnapshotKeeps, InsertKeeps, TellKeeps, EraseKeeps, ReleaseSnapshotKeeps, ReadersKeep
     DEF SnapshotCall
<1>2. ASSUME NEW t \in Clients, EnterCreate(t) \/ EnterRelease(t) \/ EnterGet(t) PROVE SnapshotInv'
  <2>1. t \in Threads
    BY DEF Threads
  <2> QED BY <1>2, <2>1, EnterCreateKeeps, ReadersKeep
<1>3. CASE SnapshotStep
  BY <1>1, <1>2, <1>3, TimerReleasesKeeps DEF SnapshotStep, SnapshotNext
<1>4. CASE MaintenanceStep
  BY <1>4, MaintenanceKeeps
<1>5. CASE ClientWrites \/ Stops \/ UNCHANGED vars
  BY <1>5, OthersKeep
<1> QED BY <1>3, <1>4, <1>5 DEF Next

THEOREM SnapshotInvariance == Spec => []SnapshotInv
<1>1. SnapshotInv /\ [Next]_vars => SnapshotInv'
  BY NextKeeps
<1> QED BY <1>1, InitSnapshotInv, PTL DEF Spec

\* RocksDB holds the snapshots that the map or a thread has in hand, and no others,
\* whatever requests, timers and maintenance did and in whatever order: none is lost and
\* none is released twice (wrocksdb.cpp, create_snapshot_ and release_snapshot_).
THEOREM SnapshotsAccounted == Spec => []HandlesAccounted
<1>1. SnapshotInv => HandlesAccounted
  BY DEF SnapshotInv
<1> QED BY <1>1, SnapshotInvariance, PTL

\* The number an answer tells is that of its own snapshot, unless another request put
\* one into the map between (wrocksdb.cpp, create_snapshot_).
THEOREM AnswersTellTheirOwn == Spec => []SnapshotIsOwn
<1>1. SnapshotInv => SnapshotIsOwn
  BY DEF SnapshotInv
<1> QED BY <1>1, SnapshotInvariance, PTL

-----------------------------------------------------------------------------
LEMMA InitPauseInv == Init => PauseInv
<1> SUFFICES ASSUME Init PROVE PauseInv
  OBVIOUS
<1> USE DEF Init, InitObject, InitMaintenance, NoCall, Request
<1>1. timers = {} /\ Continuing = {} /\ Posting = {} /\ Pausing = {}
  BY DEF Continuing, Posting, Pausing, Threads
<1>2. IsFiniteSet(timers) /\ Cardinality(Continuing) = 0 /\ Cardinality(Posting) = 0
  BY <1>1, FS_EmptySet
<1>3. TimersNamed
  BY <1>1 DEF TimersNamed
<1>4. PauseHasTimer
  BY <1>2 DEF PauseHasTimer
<1> QED BY <1>2, <1>3, <1>4 DEF PauseInv

\* Who is to end a pause can be counted.
LEMMA EndersAreFinite ==
  ASSUME PauseInv
  PROVE  /\ IsFiniteSet(Continuing) /\ IsFiniteSet(Posting)
         /\ Cardinality(Continuing) \in Nat /\ Cardinality(Posting) \in Nat
<1>1. Continuing \subseteq timers /\ Posting \subseteq Clients
  BY DEF Continuing, Posting
<1>2. IsFiniteSet(Continuing) /\ IsFiniteSet(Posting)
  BY <1>1, FS_Subset DEF PauseInv
<1> QED BY <1>2, FS_CardinalityType

\* A step that has nothing to do with pauses.
Unpaused ==
  /\ UNCHANGED work
  /\ calls \in Nat /\ calls' \in Nat /\ calls <= calls'
  /\ state' = "open" => state = "open" /\ db' = db
  /\ crashed => crashed'
  /\ \A t \in Threads :
       /\ call'[t].n \in 0..calls'
       /\ call[t].pc \in {"delay", "post"} \/ call'[t].pc \in {"delay", "post"} =>
            call'[t].pc = call[t].pc /\ call'[t].n = call[t].n
  /\ IsFiniteSet(timers') /\ \A m \in timers' : m.n \in 0..calls'
  /\ \A m : m.what = "continue" => (m \in timers' <=> m \in timers)

LEMMA UnpausedKeeps == ASSUME PauseInv, Unpaused PROVE PauseInv'
<1> USE DEF PauseInv
<1>1. Continuing' = Continuing
  BY DEF Unpaused, Continuing
<1>2. Clients \subseteq Threads
  BY DEF Threads
<1>3. Posting' = Posting /\ Pausing' = Pausing
  BY <1>2 DEF Unpaused, Posting, Pausing
<1>4. TimersNamed'
  <2>1. \A t \in Pausing : call'[t].n = call[t].n
    BY <1>2 DEF Unpaused, Pausing
  <2> QED BY <1>1, <1>3, <2>1 DEF TimersNamed, Unpaused
<1>5. PauseHasTimer'
  BY <1>1, <1>3 DEF PauseHasTimer, Unpaused, work
<1>6. paused' \in Nat /\ lifted' \in BOOLEAN
  BY DEF Unpaused, work
<1>7. state' = "open" => db'
  BY DEF Unpaused
<1> QED BY <1>4, <1>5, <1>6, <1>7 DEF Unpaused

\* A request begins: its name is new.
LEMMA EnterPauses ==
  ASSUME Typed, PauseInv, NEW t \in Clients, NEW pc \in Pcs \ {"post"}, NEW arg \in Nat,
         Enter(t, pc, arg), UNCHANGED work
  PROVE  PauseInv'
<1> USE DEF PauseInv
<1>1. t \in Threads /\ Clients \subseteq Threads
  BY DEF Threads
<1>2. /\ call[t].pc = "none" /\ calls' = calls + 1 /\ calls \in Nat
      /\ call'[t].pc = pc /\ call'[t].n = calls + 1
      /\ \A u \in Threads : u # t => call'[u] = call[u]
      /\ UNCHANGED <<state, db, crashed, timers>>
  BY <1>1, EnterFacts DEF Typed
<1>3. Continuing' = Continuing
  BY <1>2 DEF Continuing
<1>4. Posting' = Posting
  BY <1>1, <1>2 DEF Posting
<1>5. TimersNamed'
  <2>1. 0..calls \subseteq 0..calls' /\ calls + 1 \in 0..calls' /\ calls + 1 \notin 0..calls
    BY <1>2
  <2>2. Pausing' \subseteq Pausing \cup {t} /\ t \notin Pausing
    BY <1>1, <1>2 DEF Pausing
  <2>3. \A m \in timers' : m.n \in 0..calls'
    BY <1>2, <2>1 DEF TimersNamed
  <2>4. \A u \in Threads : call'[u].n \in 0..calls'
    BY <1>2, <2>1 DEF TimersNamed
  <2>5. \A u \in Pausing' : u # t => call'[u].n = call[u].n /\ call[u].n \in 0..calls /\ u \in Pausing
    BY <1>1, <1>2, <2>2 DEF TimersNamed, Pausing
  <2>6. \A m \in Continuing : m.n \in 0..calls
    BY DEF Continuing, TimersNamed
  <2>7. \A u \in Pausing' :
          /\ \A v \in Pausing' : u # v => call'[u].n # call'[v].n
          /\ \A m \in Continuing : m.n # call'[u].n
    BY <1>2, <2>1, <2>5, <2>6 DEF TimersNamed
  <2> QED BY <1>3, <2>3, <2>4, <2>7 DEF TimersNamed
<1>6. PauseHasTimer'
  BY <1>2, <1>3, <1>4 DEF PauseHasTimer, work
<1> QED BY <1>2, <1>5, <1>6 DEF work

\* A thread goes on with what is no pause, or is done, and may make a timer of another kind.
LEMMA CallUnpaused ==
  ASSUME Typed, PauseInv, NEW t \in Threads, UNCHANGED <<work, object>>,
         call[t].pc \notin {"delay", "post"}, call'[t].pc \notin {"delay", "post"},
         call'[t].n \in {0, call[t].n},
         \A u \in Threads : u # t => call'[u].pc = call[u].pc /\ call'[u].n = call[u].n,
         \/ timers' = timers
         \/ \E m \in timers : m.what = "release" /\ timers' = timers \ {m}
         \/ \E m : m.what = "release" /\ m.n = call[t].n /\ timers' = timers \cup {m}
  PROVE  PauseInv'
<1>1. calls \in Nat /\ UNCHANGED <<state, db, crashed, calls>>
  BY DEF Typed, object
<1>2. \A u \in Threads :
        /\ call'[u].n \in 0..calls
        /\ call[u].pc \in {"delay", "post"} \/ call'[u].pc \in {"delay", "post"} =>
             call'[u].pc = call[u].pc /\ call'[u].n = call[u].n
  BY <1>1 DEF PauseInv, TimersNamed
<1>3. IsFiniteSet(timers') /\ (\A m \in timers' : m.n \in 0..calls)
  BY <1>2, FS_AddElement, FS_RemoveElement DEF PauseInv, TimersNamed
<1>4. \A m : m.what = "continue" => (m \in timers' <=> m \in timers)
  OBVIOUS
<1>5. Unpaused
  BY <1>1, <1>2, <1>3, <1>4 DEF Unpaused
<1> QED BY <1>5, UnpausedKeeps

LEMMA CrashUnpaused == ASSUME Typed, PauseInv, Crash, UNCHANGED work PROVE PauseInv'
<1> USE DEF PauseInv
<1>1. crashed' = TRUE /\ UNCHANGED <<state, db, calls, call, timers>>
  BY DEF Crash
<1>2. TimersNamed'
  BY <1>1 DEF TimersNamed, Pausing, Continuing
<1>3. PauseHasTimer'
  BY <1>1 DEF PauseHasTimer
<1> QED BY <1>1, <1>2, <1>3 DEF work

LEMMA SnapshotsUnpaused ==
  ASSUME SnapshotInv, PauseInv, SnapshotStep PROVE PauseInv'
<1>1. UNCHANGED work /\ Typed
  BY DEF SnapshotStep, SnapshotInv
<1>2. ASSUME NEW t \in Threads, SnapshotCall(t), ~Crash PROVE PauseInv'
  <2>1. UNCHANGED object
    BY <1>2 DEF SnapshotCall, GetSnapshot, Insert, Tell, Erase, ReleaseSnapshot, Find, Read
  <2>2. call[t].pc \notin {"delay", "post"}
    BY <1>2 DEF SnapshotCall, GetSnapshot, Insert, Tell, Erase, ReleaseSnapshot, Find, Read, At
  <2>3. /\ call'[t].pc \notin {"delay", "post"} /\ call'[t].n \in {0, call[t].n}
        /\ \A u \in Threads : u # t => call'[u].pc = call[u].pc /\ call'[u].n = call[u].n
    <3>1. CASE Over(t)
      BY <1>1, <3>1 DEF Over, NoCall, Request, Typed, CallType
    <3>2. CASE Insert(t)
      BY <1>1, <3>2 DEF Insert, Typed, CallType
    <3>3. CASE \E ss : \E pc \in {"insert", "free", "read"} :
                 call' = [call EXCEPT ![t].pc = pc, ![t].ss = ss]
      BY <1>1, <3>3 DEF Typed, CallType
    <3>4. Over(t) \/ Insert(t) \/ \E ss : \E pc \in {"insert", "free", "read"} :
                                  call' = [call EXCEPT ![t].pc = pc, ![t].ss = ss]
      BY <1>2 DEF SnapshotCall, GetSnapshot, Tell, Erase, ReleaseSnapshot, Find, Read
    <3> QED BY <3>1, <3>2, <3>3, <3>4
  <2>4. \/ timers' = timers
        \/ \E m : m.what = "release" /\ m.n = call[t].n /\ timers' = timers \cup {m}
    <3>1. CASE Tell(t)
      <4>1. Posted(t, Number)
        BY <1>2, <3>1 DEF Tell
      <4>2. CASE timers' = timers
        BY <4>2
      <4>3. CASE Later(t, "release", Number)
        <5> DEFINE m == [what |-> "release", arg |-> Number, n |-> call[t].n]
        <5>1. m.what = "release" /\ m.n = call[t].n /\ timers' = timers \cup {m}
          BY <4>3 DEF Later
        <5> QED BY <5>1
      <4> QED BY <4>1, <4>2, <4>3 DEF Posted
    <3>2. CASE ~Tell(t)
      BY <1>2, <3>2 DEF SnapshotCall, GetSnapshot, Insert, Erase, ReleaseSnapshot, Find, Read
    <3> QED BY <3>1, <3>2
  <2> QED BY <1>1, <2>1, <2>2, <2>3, <2>4, CallUnpaused
<1>3. ASSUME NEW t \in Clients, EnterCreate(t) \/ EnterRelease(t) \/ EnterGet(t) PROVE PauseInv'
  <2>1. \A a \in told : a.id \in Nat
    BY CounterBound DEF SnapshotInv, Named
  <2>2. PICK pc \in {"create", "release", "find"}, arg \in Nat : Enter(t, pc, arg)
    BY <1>3, <2>1 DEF EnterCreate, EnterRelease, EnterGet
  <2>3. pc \in Pcs \ {"post"}
    BY DEF Pcs
  <2> QED BY <1>1, <2>2, <2>3, EnterPauses
<1>4. CASE TimerReleases
  <2>1. PICK m \in timers :
          /\ m.what = "release" /\ timers' = timers \ {m}
          /\ call' = [call EXCEPT !["timer"].pc = "release", !["timer"].arg = m.arg]
    BY <1>4 DEF TimerReleases
  <2>2. call["timer"].pc = "none" /\ UNCHANGED object /\ "timer" \in Threads
    BY <1>4 DEF TimerReleases, At, Threads
  <2>3. /\ call'["timer"].pc = "release" /\ call'["timer"].n = call["timer"].n
        /\ \A u \in Threads : u # "timer" => call'[u].pc = call[u].pc /\ call'[u].n = call[u].n
    BY <1>1, <2>1, <2>2 DEF Typed, CallType
  <2> QED BY <1>1, <2>1, <2>2, <2>3, CallUnpaused
<1>5. CASE Crash
  BY <1>1, <1>5, CrashUnpaused
<1> QED BY <1>2, <1>3, <1>4, <1>5 DEF SnapshotStep, SnapshotNext

\* Names stay apart when no request begins to pause and no timer is made to continue.
LEMMA NamesStayApart ==
  ASSUME TimersNamed, Pausing' \subseteq Pausing, Continuing' \subseteq Continuing,
         \A u \in Threads : call'[u].n \in 0..calls',
         \A u \in Pausing' : call'[u].n = call[u].n,
         \A m \in timers' : m.n \in 0..calls'
  PROVE  TimersNamed'
BY DEF TimersNamed

LEMMA PauseKeeps == ASSUME Typed, PauseInv, NEW t \in Clients, Pause(t) PROVE PauseInv'
<1> USE DEF PauseInv
<1>1. t \in Threads /\ Clients \subseteq Threads
  BY DEF Threads
<1>2. call[t].pc = "delay" /\ UNCHANGED <<state, db, crashed, calls, timers, lifted>>
  BY DEF Pause, At, object
<1>3. Continuing' = Continuing
  BY <1>2 DEF Continuing
<1>4. /\ call'[t].n \in {0, call[t].n}
      /\ \A u \in Threads : u # t => call'[u] = call[u]
      /\ \/ ~db /\ call'[t].pc = "none" /\ paused' = paused
         \/ db /\ call'[t].pc = "post" /\ call'[t].n = call[t].n /\ paused' = paused + 1
  BY <1>1 DEF Pause, Over, NoCall, Request, Goto, Typed, CallType
<1>5. TimersNamed'
  <2>1. Pausing' \subseteq Pausing
    BY <1>1, <1>2, <1>4 DEF Pausing
  <2>2. \A u \in Pausing' : call'[u].n = call[u].n
    BY <1>1, <1>4 DEF Pausing
  <2>3. \A u \in Threads : call'[u].n \in 0..calls'
    BY <1>2, <1>4 DEF TimersNamed, Typed
  <2>4. \A m \in timers' : m.n \in 0..calls'
    BY <1>2 DEF TimersNamed
  <2> QED BY <1>3, <2>1, <2>2, <2>3, <2>4, NamesStayApart
<1>6. PauseHasTimer'
  <2>1. CASE ~db
    BY <1>2, <2>1 DEF PauseHasTimer
  <2>2. CASE db
    <3>1. Posting' = Posting \cup {t} /\ t \notin Posting
      BY <1>1, <1>2, <1>4, <2>2 DEF Posting
    <3>2. Cardinality(Posting') = Cardinality(Posting) + 1
      BY <3>1, EndersAreFinite, FS_AddElement
    <3> QED BY <1>2, <1>3, <1>4, <2>2, <3>2, EndersAreFinite DEF PauseHasTimer
  <2> QED BY <2>1, <2>2
<1>7. paused' \in Nat
  BY <1>4
<1> QED BY <1>2, <1>5, <1>6, <1>7

LEMMA PostContinueKeeps ==
  ASSUME Typed, PauseInv, NEW t \in Clients, PostContinue(t), ~Crash PROVE PauseInv'
<1> USE DEF PauseInv
<1> DEFINE m == [what |-> "continue", arg |-> call[t].arg, n |-> call[t].n]
<1>1. t \in Threads /\ Clients \subseteq Threads
  BY DEF Threads
<1>2. /\ call[t].pc = "post" /\ Over(t) /\ timers' = timers \cup {m}
      /\ UNCHANGED <<state, db, crashed, calls, paused, lifted>>
  BY DEF PostContinue, At, Posts, Later, object, work
<1>3. m.what = "continue" /\ m.n = call[t].n
  OBVIOUS
<1>4. call'[t].pc = "none" /\ call'[t].n = 0 /\ \A u \in Threads : u # t => call'[u] = call[u]
  BY <1>1, <1>2 DEF Over, NoCall, Request, Typed
<1> HIDE DEF m
<1>5. t \in Pausing
  BY <1>2 DEF Pausing
<1>6. Continuing' = Continuing \cup {m} /\ m \notin Continuing
  BY <1>2, <1>3, <1>5 DEF Continuing, TimersNamed
<1>7. Posting' = Posting \ {t} /\ t \in Posting
  BY <1>1, <1>2, <1>4 DEF Posting
<1>8. Pausing' = Pausing \ {t}
  BY <1>1, <1>2, <1>4 DEF Pausing
<1>9. TimersNamed'
  <2>1. \A u \in Pausing' : call'[u].n = call[u].n /\ call[u].n # call[t].n
    BY <1>1, <1>4, <1>5, <1>8 DEF TimersNamed, Pausing
  <2>2. \A k \in timers' : k.n \in 0..calls'
    BY <1>1, <1>2, <1>3 DEF TimersNamed
  <2>3. \A u \in Threads : call'[u].n \in 0..calls'
    BY <1>2, <1>4 DEF TimersNamed, Typed
  <2> QED BY <1>3, <1>6, <1>8, <2>1, <2>2, <2>3 DEF TimersNamed
<1>10. PauseHasTimer'
  <2>1. /\ Cardinality(Continuing') = Cardinality(Continuing) + 1
        /\ Cardinality(Posting') = Cardinality(Posting) - 1
    BY <1>6, <1>7, EndersAreFinite, FS_AddElement, FS_RemoveElement
  <2> QED BY <1>2, <2>1, EndersAreFinite DEF PauseHasTimer
<1>11. IsFiniteSet(timers')
  BY <1>2, FS_AddElement
<1> QED BY <1>2, <1>9, <1>10, <1>11

LEMMA ContinueKeeps == ASSUME Typed, PauseInv, NEW t \in Clients, Continue(t) PROVE PauseInv'
<1> USE DEF PauseInv
<1>1. t \in Threads /\ Clients \subseteq Threads
  BY DEF Threads
<1>2. /\ call[t].pc = "continue" /\ Goto(t, "continued") /\ lifted' = TRUE
      /\ UNCHANGED <<state, db, crashed, calls, timers>>
  BY DEF Continue, At, object
<1>3. paused' \in Nat /\ paused' <= paused
  BY DEF Continue, Continued
<1>4. /\ call'[t].pc = "continued" /\ call'[t].n = call[t].n
      /\ \A u \in Threads : u # t => call'[u] = call[u]
  BY <1>1, <1>2 DEF Goto, Typed, CallType
<1>5. Continuing' = Continuing
  BY <1>2 DEF Continuing
<1>6. Posting' = Posting /\ Pausing' = Pausing
  BY <1>1, <1>2, <1>4 DEF Posting, Pausing
<1>7. TimersNamed'
  <2>1. \A u \in Threads : call'[u].n = call[u].n
    BY <1>4
  <2>2. \A u \in Pausing' : u \in Threads
    BY <1>1 DEF Pausing
  <2> QED BY <1>2, <1>5, <1>6, <2>1, <2>2 DEF TimersNamed
<1>8. PauseHasTimer'
  BY <1>2, <1>3, <1>5, <1>6, EndersAreFinite DEF PauseHasTimer
<1> QED BY <1>2, <1>3, <1>7, <1>8

LEMMA TimerContinuesKeeps == ASSUME Typed, PauseInv, TimerContinues PROVE PauseInv'
<1> USE DEF PauseInv
<1>1. PICK m \in timers :
        /\ m.what = "continue" /\ timers' = timers \ {m}
        /\ paused' = IF db THEN Continued(paused, m.arg) ELSE paused
        /\ lifted' = (lifted \/ m.arg = 1)
  BY DEF TimerContinues
<1>2. UNCHANGED <<state, db, crashed, calls, call>>
  BY DEF TimerContinues, object
<1>3. Continuing' = Continuing \ {m} /\ m \in Continuing
  BY <1>1 DEF Continuing
<1>4. Posting' = Posting /\ Pausing' = Pausing
  BY <1>2 DEF Posting, Pausing
<1>5. TimersNamed'
  BY <1>1, <1>2, <1>3, <1>4 DEF TimersNamed
<1>6. paused' \in Nat
  BY <1>1 DEF Continued
<1>7. lifted' \in BOOLEAN
  BY <1>1
<1>8. IsFiniteSet(timers')
  BY <1>1, FS_RemoveElement
<1>9. PauseHasTimer'
  <2>1. Cardinality(Continuing') = Cardinality(Continuing) - 1
    BY <1>3, EndersAreFinite, FS_RemoveElement
  <2>2. IsFiniteSet(Continuing') /\ Cardinality(Continuing') \in Nat
    BY <1>3, EndersAreFinite, FS_RemoveElement, FS_CardinalityType
  <2>3. SUFFICES ASSUME state = "open", ~crashed
                 PROVE  /\ paused' <= Cardinality(Continuing') + Cardinality(Posting)
                        /\ ~lifted' => paused' = Cardinality(Continuing') + Cardinality(Posting)
    BY <1>2, <1>4 DEF PauseHasTimer
  <2>4. paused' = Continued(paused, m.arg)
    BY <1>1, <2>3
  <2>5. paused <= Cardinality(Continuing) + Cardinality(Posting)
    BY <2>3 DEF PauseHasTimer
  <2>6. ~lifted' => m.arg # 1 /\ paused = Cardinality(Continuing) + Cardinality(Posting)
    <3>1. ~lifted' => ~lifted /\ m.arg # 1
      BY <1>1
    <3> QED BY <2>3, <3>1 DEF PauseHasTimer
  <2>7. CASE m.arg = 1
    <3>1. paused' = 0
      BY <2>4, <2>7 DEF Continued
    <3> QED BY <2>2, <2>6, <2>7, <3>1, EndersAreFinite
  <2>8. CASE m.arg # 1
    <3>1. paused' = IF paused = 0 THEN 0 ELSE paused - 1
      BY <2>4, <2>8 DEF Continued
    <3>2. paused' <= Cardinality(Continuing') + Cardinality(Posting)
      BY <2>1, <2>2, <2>5, <3>1, EndersAreFinite
    <3>3. paused = Cardinality(Continuing) + Cardinality(Posting) =>
            paused' = Cardinality(Continuing') + Cardinality(Posting)
      BY <2>1, <2>2, <3>1, EndersAreFinite
    <3> QED BY <2>6, <3>2, <3>3
  <2> QED BY <2>7, <2>8
<1>10. state' = "open" => db'
  BY <1>2
<1> QED BY <1>5, <1>6, <1>7, <1>8, <1>9, <1>10

LEMMA MaintenancePauses ==
  ASSUME SnapshotInv, PauseInv, MaintenanceStep PROVE PauseInv'
<1>1. Typed
  BY DEF SnapshotInv
<1>2. ASSUME NEW t \in Clients,
             EnterDelay(t) \/ EnterContinue(t) \/ EnterCompact(t) \/ EnterRepair(t)
      PROVE  PauseInv'
  <2>1. PICK pc \in {"delay", "continue", "compact", "scan"}, arg \in {0, 1} : Enter(t, pc, arg)
    BY <1>2 DEF EnterDelay, EnterContinue, EnterCompact, EnterRepair
  <2>2. UNCHANGED work
    BY <1>2 DEF EnterDelay, EnterContinue, EnterCompact, EnterRepair
  <2>3. arg \in Nat /\ pc \in Pcs \ {"post"}
    BY DEF Pcs
  <2> QED BY <1>1, <2>1, <2>2, <2>3, EnterPauses
<1>3. ASSUME NEW t \in Clients, AfterContinue(t) \/ Compact(t) \/ Scan(t) \/ PutRepaired(t)
      PROVE  PauseInv'
  <2>1. UNCHANGED work
    BY <1>3 DEF AfterContinue, Compact, Scan, PutRepaired
  <2>2. CASE Crash
    BY <1>1, <2>1, <2>2, CrashUnpaused
  <2>3. CASE ~Crash
    <3>1. /\ call[t].pc \in {"continued", "compact", "scan", "put"}
          /\ UNCHANGED <<object, timers>> /\ (Over(t) \/ Goto(t, "put")) /\ t \in Threads
      BY <1>3, <2>3 DEF AfterContinue, Compact, Scan, PutRepaired, At, Threads
    <3>2. /\ call'[t].pc \in {"none", "put"} /\ call'[t].n \in {0, call[t].n}
          /\ \A u \in Threads : u # t => call'[u].pc = call[u].pc /\ call'[u].n = call[u].n
      BY <1>1, <3>1 DEF Over, NoCall, Request, Goto, Typed, CallType
    <3> QED BY <1>1, <2>1, <3>1, <3>2, CallUnpaused
  <2> QED BY <2>2, <2>3
<1>4. ASSUME NEW t \in Clients, PostContinue(t) PROVE PauseInv'
  <2>1. UNCHANGED work
    BY <1>4 DEF PostContinue
  <2> QED BY <1>1, <1>4, <2>1, PostContinueKeeps, CrashUnpaused
<1>5. ASSUME NEW t \in Clients, MaintenanceCall(t) PROVE PauseInv'
  BY <1>1, <1>3, <1>4, <1>5, PauseKeeps, ContinueKeeps DEF MaintenanceCall
<1> QED BY <1>1, <1>2, <1>5, TimerContinuesKeeps DEF MaintenanceStep, MaintenanceNext

LEMMA OthersPause ==
  ASSUME SnapshotInv, PauseInv, ClientWrites \/ Stops \/ UNCHANGED vars PROVE PauseInv'
<1> USE DEF PauseInv
<1>1. CASE ClientWrites \/ UNCHANGED vars
  <2>1. UNCHANGED <<state, db, crashed, call, calls, timers, paused, lifted>>
    BY <1>1 DEF ClientWrites, Write, vars, object, work
  <2> QED BY <2>1 DEF TimersNamed, Pausing, Continuing, Posting, PauseHasTimer
<1>2. CASE Stops
  <2>1. /\ UNCHANGED <<crashed, call, calls, paused, lifted>>
        /\ state' # "open" /\ timers' = {}
    BY <1>2 DEF Stops, StopBegins, StopEnds, work
  <2>2. Continuing' = {} /\ Pausing' = Pausing /\ IsFiniteSet(timers')
    BY <2>1, FS_EmptySet DEF Continuing, Pausing
  <2>3. TimersNamed'
    BY <2>1, <2>2 DEF TimersNamed
  <2> QED BY <2>1, <2>2, <2>3 DEF PauseHasTimer
<1> QED BY <1>1, <1>2

\* Every pause of the background work has a timer that will end it, or a thread about to
\* make one, and nothing ends a pause before its time but a request or a timer with
\* force (wrocksdb.cpp, delay_background and continue_background).
THEOREM PausesAreTimed == Spec => []PauseHasTimer
<1>1. Init => PauseInv
  BY InitPauseInv
<1>2. SnapshotInv /\ PauseInv /\ [Next]_vars => PauseInv'
  BY SnapshotsUnpaused, MaintenancePauses, OthersPause DEF Next
<1>3. PauseInv => PauseHasTimer
  BY DEF PauseInv
<1> QED BY <1>1, <1>2, <1>3, SnapshotInvariance, PTL DEF Spec

-----------------------------------------------------------------------------
(* Repairs. *)

Vals == Broken \cup {"good", "fixed"}

\* What is broken and was not written since the iterator was made, it sees.
RepairInv ==
  /\ vals \in [Keys -> Vals]
  /\ repair \in [Clients -> [seen : [Keys -> Vals], limit : Nat, fresh : SUBSET Keys]]
  /\ \A t \in Clients : call[t].pc = "put" =>
       \A k \in Keys \ repair[t].fresh : vals[k] \in Broken => repair[t].seen[k] = vals[k]

LEMMA NoRepairIs == NoRepair \in [seen : [Keys -> Vals], limit : Nat, fresh : SUBSET Keys]
BY DEF NoRepair, Vals

LEMMA InitRepairInv == Init => RepairInv
<1> SUFFICES ASSUME Init PROVE RepairInv
  OBVIOUS
<1>1. vals \in Stored /\ repair = [t \in Clients |-> NoRepair]
  BY DEF Init, InitMaintenance
<1>2. vals \in [Keys -> Broken \cup {"good"}]
  BY <1>1, StoredAssumption
<1>3. vals \in [Keys -> Vals]
  BY <1>2 DEF Vals
<1>4. \A t \in Clients : call[t].pc = "none"
  BY DEF Init, InitObject, NoCall, Request, Threads
<1> QED BY <1>1, <1>3, <1>4, NoRepairIs DEF RepairInv

\* A step that neither begins nor ends a repair, and writes nothing.
Unrepaired == UNCHANGED json /\ \A u \in Clients : call'[u].pc = "put" <=> call[u].pc = "put"

LEMMA UnrepairedKeeps == ASSUME RepairInv, Unrepaired PROVE RepairInv'
BY DEF RepairInv, Unrepaired, json

\* A thread that is not repairing goes on with something else.
LEMMA OneUnrepaired ==
  ASSUME NEW t \in Threads, UNCHANGED json, t \in Clients => call[t].pc # "put" /\ call'[t].pc # "put",
         \A u \in Threads : u # t => call'[u].pc = call[u].pc
  PROVE  Unrepaired
BY DEF Unrepaired, Threads

LEMMA EnterUnrepaired ==
  ASSUME Typed, NEW t \in Clients, NEW pc \in Pcs \ {"put"}, NEW arg \in Nat, Enter(t, pc, arg), UNCHANGED json
  PROVE  Unrepaired
<1>1. t \in Threads
  BY DEF Threads
<1> QED BY <1>1, EnterFacts, OneUnrepaired

LEMMA SnapshotsUnrepaired == ASSUME SnapshotInv, SnapshotStep PROVE Unrepaired
<1>1. UNCHANGED json /\ Typed
  BY DEF SnapshotStep, SnapshotInv
<1>2. ASSUME NEW t \in Threads, SnapshotCall(t), ~Crash PROVE Unrepaired
  <2>1. call[t].pc # "put"
    BY <1>2 DEF SnapshotCall, GetSnapshot, Insert, Tell, Erase, ReleaseSnapshot, Find, Read, At
  <2>2. call'[t].pc # "put" /\ \A u \in Threads : u # t => call'[u].pc = call[u].pc
    <3>1. CASE Over(t)
      BY <1>1, <3>1, OverFacts
    <3>2. CASE Insert(t)
      BY <1>1, <3>2 DEF Insert, Typed, CallType
    <3>3. CASE \E ss : \E pc \in {"insert", "free", "read"} :
                 call' = [call EXCEPT ![t].pc = pc, ![t].ss = ss]
      BY <1>1, <3>3 DEF Typed, CallType
    <3>4. Over(t) \/ Insert(t) \/ \E ss : \E pc \in {"insert", "free", "read"} :
                                  call' = [call EXCEPT ![t].pc = pc, ![t].ss = ss]
      BY <1>2 DEF SnapshotCall, GetSnapshot, Tell, Erase, ReleaseSnapshot, Find, Read
    <3> QED BY <3>1, <3>2, <3>3, <3>4
  <2> QED BY <1>1, <2>1, <2>2, OneUnrepaired
<1>3. ASSUME NEW t \in Clients, EnterCreate(t) \/ EnterRelease(t) \/ EnterGet(t) PROVE Unrepaired
  <2>1. \A a \in told : a.id \in Nat
    BY CounterBound DEF SnapshotInv, Named
  <2>2. PICK pc \in {"create", "release", "find"}, arg \in Nat : Enter(t, pc, arg)
    BY <1>3, <2>1 DEF EnterCreate, EnterRelease, EnterGet
  <2>3. pc \in Pcs \ {"put"}
    BY DEF Pcs
  <2> QED BY <1>1, <2>2, <2>3, EnterUnrepaired
<1>4. CASE TimerReleases
  <2>1. \A u \in Clients : call'[u].pc = call[u].pc
    BY <1>1, <1>4 DEF TimerReleases, Typed, CallType, Threads
  <2> QED BY <1>1, <2>1 DEF Unrepaired
<1>5. CASE Crash
  BY <1>1, <1>5 DEF Crash, Unrepaired
<1> QED BY <1>2, <1>3, <1>4, <1>5 DEF SnapshotStep, SnapshotNext

LEMMA MaintenanceUnrepaired ==
  ASSUME Typed, MaintenanceStep,
         ~\E t \in Clients : EnterRepair(t) \/ (Scan(t) /\ ~Crash) \/ (PutRepaired(t) /\ ~Crash)
  PROVE  Unrepaired
<1>1. CASE Crash
  <2>1. ASSUME NEW t \in Clients, Scan(t) \/ PutRepaired(t) PROVE UNCHANGED json
    BY <1>1, <2>1 DEF Scan, PutRepaired, Crash, At, object, json
  <2>2. ASSUME NEW t \in Clients,
               \/ EnterDelay(t) \/ EnterContinue(t) \/ EnterCompact(t) \/ Pause(t) \/ PostContinue(t)
               \/ Continue(t) \/ AfterContinue(t) \/ Compact(t)
        PROVE  UNCHANGED json
    BY <2>2 DEF EnterDelay, EnterContinue, EnterCompact, Pause, PostContinue, Continue, AfterContinue,
                Compact
  <2>3. TimerContinues => UNCHANGED json
    BY DEF TimerContinues
  <2>4. UNCHANGED json
    BY <2>1, <2>2, <2>3 DEF MaintenanceStep, MaintenanceNext, MaintenanceCall
  <2> QED BY <1>1, <2>4 DEF Crash, Unrepaired
<1>2. ASSUME ~Crash, NEW t \in Clients, EnterDelay(t) \/ EnterContinue(t) \/ EnterCompact(t) PROVE Unrepaired
  <2>1. PICK pc \in {"delay", "continue", "compact"}, arg \in {0, 1} : Enter(t, pc, arg)
    BY <1>2 DEF EnterDelay, EnterContinue, EnterCompact
  <2>2. UNCHANGED json
    BY <1>2 DEF EnterDelay, EnterContinue, EnterCompact
  <2>3. arg \in Nat /\ pc \in Pcs \ {"put"}
    BY DEF Pcs
  <2> QED BY <2>1, <2>2, <2>3, EnterUnrepaired
<1>3. ASSUME ~Crash, NEW t \in Clients,
             Pause(t) \/ PostContinue(t) \/ Continue(t) \/ AfterContinue(t) \/ Compact(t)
      PROVE  Unrepaired
  <2>1. /\ call[t].pc \in {"delay", "post", "continue", "continued", "compact"} /\ t \in Threads
        /\ UNCHANGED json
        /\ Over(t) \/ Goto(t, "post") \/ Goto(t, "continued")
    BY <1>3 DEF Pause, PostContinue, Continue, AfterContinue, Compact, At, Threads
  <2>2. "post" \in Pcs /\ "continued" \in Pcs
    BY DEF Pcs
  <2>3. call'[t].pc # "put" /\ \A u \in Threads : u # t => call'[u] = call[u]
    BY <2>1, <2>2, OverFacts, GotoFacts
  <2> QED BY <2>1, <2>3, OneUnrepaired
<1>4. CASE TimerContinues
  BY <1>4 DEF TimerContinues, Unrepaired
<1> QED BY <1>1, <1>2, <1>3, <1>4 DEF MaintenanceStep, MaintenanceNext, MaintenanceCall

LEMMA OthersUnrepaired == ASSUME Stops \/ UNCHANGED vars PROVE Unrepaired
BY DEF Stops, StopBegins, StopEnds, vars, json, Unrepaired

LEMMA EnterRepairKeeps ==
  ASSUME Typed, RepairInv, NEW t \in Clients, EnterRepair(t)
  PROVE  RepairInv' /\ call[t].pc # "put" /\ call'[t].pc # "none"
         /\ \A u \in Clients : u # t => call'[u] = call[u]
<1>1. Enter(t, "scan", 0) /\ vals' = vals /\ t \in Threads /\ Clients \subseteq Threads /\ "scan" \in Pcs
  BY DEF EnterRepair, Threads, Pcs
<1>2. call[t].pc = "none" /\ call'[t].pc = "scan" /\ \A u \in Clients : u # t => call'[u] = call[u]
  BY <1>1, EnterFacts
<1>3. PICK limit \in Nat : repair' = [repair EXCEPT ![t] = [NoRepair EXCEPT !.limit = limit]]
  BY KeysAssumption DEF EnterRepair
<1>4. [NoRepair EXCEPT !.limit = limit] \in [seen : [Keys -> Vals], limit : Nat, fresh : SUBSET Keys]
  BY NoRepairIs
<1> QED BY <1>1, <1>2, <1>3, <1>4 DEF RepairInv

LEMMA ScanKeeps ==
  ASSUME Typed, RepairInv, NEW t \in Clients, Scan(t), ~Crash
  PROVE  RepairInv' /\ call[t].pc # "put" /\ call'[t].pc # "none"
         /\ \A u \in Clients : u # t => call'[u] = call[u]
<1>1. /\ call[t].pc = "scan" /\ repair' = [repair EXCEPT ![t].seen = vals] /\ vals' = vals
      /\ Goto(t, "put") /\ t \in Threads /\ Clients \subseteq Threads /\ "put" \in Pcs
  BY DEF Scan, At, Threads, Pcs
<1>2. call'[t].pc = "put" /\ \A u \in Clients : u # t => call'[u] = call[u]
  BY <1>1, GotoFacts
<1>3. /\ repair' \in [Clients -> [seen : [Keys -> Vals], limit : Nat, fresh : SUBSET Keys]]
      /\ repair'[t].seen = vals /\ \A u \in Clients : u # t => repair'[u] = repair[u]
  BY <1>1 DEF RepairInv
<1> QED BY <1>1, <1>2, <1>3 DEF RepairInv

LEMMA PutRepairedKeeps ==
  ASSUME Typed, RepairInv, NEW t \in Clients, PutRepaired(t), ~Crash
  PROVE  RepairInv' /\ vals' = Repaired(repair[t])
         /\ \A u \in Clients : u # t => call'[u] = call[u]
<1>1. /\ vals' = Repaired(repair[t]) /\ repair' = [repair EXCEPT ![t] = NoRepair]
      /\ Over(t) /\ t \in Threads /\ Clients \subseteq Threads
  BY DEF PutRepaired, Threads
<1>2. call'[t].pc = "none" /\ \A u \in Clients : u # t => call'[u] = call[u]
  BY <1>1, OverFacts
<1>3. /\ vals' \in [Keys -> Vals]
      /\ \A k \in Keys : vals'[k] \in Broken => vals'[k] = vals[k]
  BY <1>1 DEF Repaired, RepairInv, Vals, Broken
<1>4. /\ repair' \in [Clients -> [seen : [Keys -> Vals], limit : Nat, fresh : SUBSET Keys]]
      /\ \A u \in Clients : u # t => repair'[u] = repair[u]
  BY <1>1, NoRepairIs DEF RepairInv
<1> QED BY <1>1, <1>2, <1>3, <1>4 DEF RepairInv

LEMMA ClientWritesKeeps ==
  ASSUME Typed, RepairInv, ClientWrites PROVE RepairInv' /\ UNCHANGED call
<1>1. PICK k \in Keys : Write(k, "bad") /\ ~crashed
  BY DEF ClientWrites
<1>2. /\ vals' = [vals EXCEPT ![k] = "bad"] /\ call' = call
      /\ repair' = [t \in Clients |->
           IF At(t, "put") THEN [repair[t] EXCEPT !.fresh = @ \cup {k}] ELSE repair[t]]
  BY <1>1 DEF Write
<1>3. ASSUME NEW t \in Clients
      PROVE  /\ repair'[t] \in [seen : [Keys -> Vals], limit : Nat, fresh : SUBSET Keys]
             /\ repair'[t].seen = repair[t].seen
             /\ call[t].pc = "put" => repair'[t].fresh = repair[t].fresh \cup {k}
  <2>1. repair[t] \in [seen : [Keys -> Vals], limit : Nat, fresh : SUBSET Keys]
    BY DEF RepairInv
  <2>2. CASE call[t].pc = "put"
    <3>1. repair'[t] = [repair[t] EXCEPT !.fresh = @ \cup {k}]
      BY <1>1, <1>2, <2>2 DEF At
    <3> QED BY <2>1, <3>1
  <2>3. CASE call[t].pc # "put"
    <3>1. repair'[t] = repair[t]
      BY <1>2, <2>3 DEF At
    <3> QED BY <2>1, <2>3, <3>1
  <2> QED BY <2>2, <2>3
<1>4. repair' \in [Clients -> [seen : [Keys -> Vals], limit : Nat, fresh : SUBSET Keys]]
  BY <1>2, <1>3
<1>5. vals' \in [Keys -> Vals] /\ \A j \in Keys : j # k => vals'[j] = vals[j]
  BY <1>2 DEF RepairInv, Vals, Broken
<1>6. ASSUME NEW t \in Clients, call'[t].pc = "put", NEW j \in Keys \ repair'[t].fresh, vals'[j] \in Broken
      PROVE  repair'[t].seen[j] = vals'[j]
  <2>1. call[t].pc = "put"
    BY <1>2, <1>6
  <2>2. j \in Keys /\ j \notin repair[t].fresh /\ j # k
    BY <1>3, <1>6, <2>1
  <2>3. vals'[j] = vals[j] /\ repair'[t].seen = repair[t].seen
    BY <1>3, <1>5, <2>2
  <2> QED BY <1>6, <2>1, <2>2, <2>3 DEF RepairInv
<1> QED BY <1>2, <1>4, <1>5, <1>6 DEF RepairInv

\* What a repair that may say fin leaves is the last key.
LEMMA RepairLeaves ==
  ASSUME RepairInv, NEW t \in Clients, call[t].pc = "put", vals' = Repaired(repair[t]),
         Fin(repair[t]), ~Early(repair[t])
  PROVE  Cardinality({k \in Keys \ repair[t].fresh : vals'[k] \in Broken}) <= 1
<1> DEFINE r == repair[t]
           left == {k \in Keys \ r.fresh : vals'[k] \in Broken}
<1>1. r.limit \in Nat /\ MaxKey \in Nat /\ vals \in [Keys -> Vals]
  BY KeysAssumption DEF RepairInv
<1>2. ASSUME NEW k \in left PROVE k = MaxKey
  <2>1. k \in Keys /\ k \in Nat /\ k <= MaxKey
    BY <1>1 DEF Keys
  <2>2. k \notin ToRepair(r) /\ vals'[k] = vals[k] /\ vals[k] \in Broken
    BY <1>2, <2>1 DEF Repaired, Broken
  <2>3. r.seen[k] \in Broken
    BY <2>1, <2>2 DEF RepairInv
  <2>4. k \notin Passed(r.limit)
    BY <2>2, <2>3 DEF ToRepair
  <2>5. r.limit # 0 /\ ~(r.limit > MaxKey) /\ k > r.limit
    BY <1>1, <2>1, <2>4 DEF Passed, Keys
  <2>6. r.limit >= MaxKey - 1
    BY <2>5 DEF Fin
  <2> QED BY <1>1, <2>1, <2>5, <2>6
<1>3. left \in SUBSET {MaxKey}
  BY <1>2
<1>4. IsFiniteSet({MaxKey}) /\ Cardinality({MaxKey}) = 1
  BY FS_Singleton
<1> QED BY <1>3, <1>4, FS_Subset

LEMMA NextRepairs ==
  ASSUME SnapshotInv, RepairInv, [Next]_vars
  PROVE  /\ RepairInv'
         /\ \A t \in Clients : call[t].pc = "put" /\ call'[t].pc = "none" => vals' = Repaired(repair[t])
<1>1. Typed
  BY DEF SnapshotInv
<1>2. CASE Unrepaired
  BY <1>2, UnrepairedKeeps DEF Unrepaired
<1>3. ASSUME NEW t \in Clients,
             EnterRepair(t) \/ (Scan(t) /\ ~Crash) \/ (PutRepaired(t) /\ ~Crash)
      PROVE  /\ RepairInv'
             /\ \A u \in Clients : call[u].pc = "put" /\ call'[u].pc = "none" => vals' = Repaired(repair[u])
  BY <1>1, <1>3, EnterRepairKeeps, ScanKeeps, PutRepairedKeeps
<1>4. CASE ClientWrites
  BY <1>1, <1>4, ClientWritesKeeps
<1> QED BY <1>1, <1>2, <1>3, <1>4, SnapshotsUnrepaired, MaintenanceUnrepaired, OthersUnrepaired DEF Next

\* A repair of all the keys, or of a page that said fin, leaves one broken value at most among
\* those that nobody wrote meanwhile, unless an empty value made it say so, with however many
\* keys, other repairs and clients that write (wrocksdb.cpp, repair_json).
THEOREM RepairsLeaveOne == Spec => RepairLeavesAtMostOne
<1>1. SnapshotInv /\ RepairInv /\ [Next]_vars => RepairInv'
  BY NextRepairs
<1>2. SnapshotInv /\ RepairInv /\ [Next]_vars =>
        [\A t \in Clients :
           LET r == repair[t]
               left == {k \in Keys \ r.fresh : vals'[k] \in Broken}
           IN  At(t, "put") /\ call'[t].pc = "none" /\ Fin(r) /\ ~Early(r)
                 => Cardinality(left) <= 1]_<<json, call>>
  BY NextRepairs, RepairLeaves DEF At
<1> QED BY InitRepairInv, <1>1, <1>2, SnapshotInvariance, PTL DEF Spec, RepairLeavesAtMostOne
=============================================================================
