---------------------------- MODULE Maintenance ----------------------------
(***************************************************************************)
(* What an operator does to an open database (wrocksdb::delay_background,  *)
(* continue_background, compact_prefix, repair_json).                      *)
(*                                                                         *)
(* RocksDB counts the pauses of its background work, and continuing takes  *)
(* one away.  A repair reads through an iterator, that does not see later  *)
(* writes, and puts what it has repaired in one batch at the end.          *)
(***************************************************************************)
EXTENDS DbObject

CONSTANTS
  MaxKey, \* bound: the keys of the database are 1..MaxKey
  Pages,  \* the limits of a repair; 0 is none
  Stored  \* the values that the keys may have at first

ASSUME KeysAssumption == MaxKey \in Nat /\ Pages \subseteq Nat

VARIABLES
  paused, \* how many pauses of the background work RocksDB counts
  lifted, \* auxiliary: something continued more than one pause, or before its time
  vals,   \* the value of each key
  repair  \* per client: its repair

work == <<paused, lifted>>
json == <<vals, repair>>

Keys == 1..MaxKey

\* An empty value is repaired to null.
Broken == {"bad", "empty"}

ASSUME StoredAssumption == Stored \subseteq [Keys -> Broken \cup {"good"}]

\* What the iterator sees, how many keys it may pass, and, for the property, the keys
\* written since the iterator was made.
NoRepair == [seen |-> [k \in Keys |-> "good"], limit |-> 0, fresh |-> {}]
-----------------------------------------------------------------------------
(* Background work. *)

\* arg is 1 for contunue_force.
EnterDelay(t) ==
  /\ \E force \in {0, 1} : Enter(t, "delay", force)
  /\ UNCHANGED <<work, json>>

Pause(t) ==
  /\ At(t, "delay")
  /\ IF ~db
     THEN Over(t) /\ UNCHANGED paused
     ELSE paused' = paused + 1 /\ Goto(t, "post")
  /\ UNCHANGED <<object, timers, lifted, json>>

\* get_property uses _db without a test.
Posts_Unforced(t) == IF call[t].arg = 1 THEN Later(t, "continue", 1) ELSE UNCHANGED timers
Posts(t) == Later(t, "continue", call[t].arg)
PostContinue(t) ==
  /\ At(t, "post")
  /\ IF ~db THEN Crash ELSE Posts(t) /\ Over(t) /\ UNCHANGED object
  /\ UNCHANGED <<work, json>>

\* ContinueBackgroundWork once, or with force until it has nothing more to continue.
Continued_All(n, force) == 0
Continued(n, force) == IF force = 1 \/ n = 0 THEN 0 ELSE n - 1

\* The timer holds the database weakly.
TimerContinues ==
  /\ At("timer", "none")
  /\ \E m \in timers :
       /\ m.what = "continue"
       /\ timers' = timers \ {m}
       /\ paused' = IF db THEN Continued(paused, m.arg) ELSE paused
       /\ lifted' = (lifted \/ m.arg = 1)
  /\ UNCHANGED <<object, call, json>>

EnterContinue(t) ==
  /\ \E force \in {0, 1} : Enter(t, "continue", force)
  /\ UNCHANGED <<work, json>>

Continue(t) ==
  /\ At(t, "continue")
  /\ paused' = IF db THEN Continued(paused, call[t].arg) ELSE paused
  /\ lifted' = TRUE
  /\ Goto(t, "continued")
  /\ UNCHANGED <<object, timers, json>>

\* get_property again.
AfterContinue(t) ==
  /\ At(t, "continued")
  /\ IF db THEN Over(t) /\ UNCHANGED <<object, timers>> ELSE Crash
  /\ UNCHANGED <<work, json>>

\* compact_prefix starts a thread that has nothing but `this`: the object may be
\* destroyed by the time it comes to the answer.
EnterCompact(t) ==
  /\ Enter(t, "compact", 0)
  /\ UNCHANGED <<work, json>>

Compact(t) ==
  /\ At(t, "compact")
  /\ \/ Over(t) /\ UNCHANGED <<object, timers>>
     \/ Destroyed /\ Crash
  /\ UNCHANGED <<work, json>>

-----------------------------------------------------------------------------
(* Repair of values that are not JSON. *)

\* It does not ask whether the object is stopped.
EnterRepair(t) ==
  /\ Enter(t, "scan", 0)
  /\ \E limit \in Pages : repair' = [repair EXCEPT ![t] = [NoRepair EXCEPT !.limit = limit]]
  /\ UNCHANGED <<work, vals>>

Scan(t) ==
  /\ At(t, "scan")
  /\ IF ~db
     THEN Crash /\ UNCHANGED repair
     ELSE /\ repair' = [repair EXCEPT ![t].seen = vals]
          /\ Goto(t, "put") /\ UNCHANGED <<object, timers>>
  /\ UNCHANGED <<work, vals>>

\* The keys that the limit lets it pass, all of them without one.
Passed(limit) == IF limit = 0 \/ limit > MaxKey THEN Keys ELSE 1..limit
ToRepair(r) == {k \in Passed(r.limit) : r.seen[k] \in Broken}

\* res->fin: a page that is full steps once more before it asks whether the iterator
\* is valid, and then compares the value it finds with `to`, which is empty.
Early(r) == r.limit + 2 \in Keys /\ r.seen[r.limit + 2] = "empty"
Fin_Always(r) == TRUE
Fin(r) == r.limit = 0 \/ r.limit >= MaxKey - 1 \/ Early(r)

\* The batch is written, if there is anything in it, and the answer given.
Repaired(r) == [k \in Keys |-> IF k \in ToRepair(r) THEN "fixed" ELSE vals[k]]
PutRepaired(t) ==
  /\ At(t, "put")
  /\ \/ ~db /\ Crash /\ UNCHANGED json \* the iterator, or _db at the batch
     \/ /\ db \/ ToRepair(repair[t]) = {}
        /\ vals' = Repaired(repair[t])
        /\ repair' = [repair EXCEPT ![t] = NoRepair]
        /\ Over(t) /\ UNCHANGED <<object, timers>>
  /\ UNCHANGED work

\* A client writes a value, JSON or not.
Write(k, v) ==
  /\ vals' = [vals EXCEPT ![k] = v]
  /\ repair' = [t \in Clients |->
       IF At(t, "put") THEN [repair[t] EXCEPT !.fresh = @ \cup {k}] ELSE repair[t]]
  /\ UNCHANGED <<object, timers, call, work>>

InitMaintenance ==
  /\ paused = 0 /\ lifted = FALSE
  /\ vals \in Stored
  /\ repair = [t \in Clients |-> NoRepair]

MaintenanceCall(t) ==
  Pause(t) \/ PostContinue(t) \/ Continue(t) \/ AfterContinue(t) \/ Compact(t) \/ Scan(t) \/ PutRepaired(t)

MaintenanceNext ==
  \/ \E t \in Clients :
       \/ EnterDelay(t) \/ EnterContinue(t) \/ EnterCompact(t) \/ EnterRepair(t)
       \/ MaintenanceCall(t)
  \/ TimerContinues
-----------------------------------------------------------------------------
(* Properties. *)

Continuing == {m \in timers : m.what = "continue"}
Posting == {t \in Clients : call[t].pc = "post"}

\* Every pause has a timer that will end it, or a thread that is about to make one.
\* While nothing continues more than its own pause the numbers agree, so that the
\* work stays paused as long as somebody asked for.
PauseHasTimer ==
  LET enders == Cardinality(Continuing) + Cardinality(Posting)
  IN  state = "open" /\ ~crashed =>
        paused <= enders /\ (~lifted => paused = enders)

\* What makes it inductive: timers have names of their own, and a request that is to make
\* one has a name that none has yet.
Pausing == {t \in Clients : call[t].pc \in {"delay", "post"}}
TimersNamed ==
  /\ \A m \in timers : m.n \in 0..calls
  /\ \A t \in Threads : call[t].n \in 0..calls
  /\ \A t \in Pausing :
       /\ \A u \in Pausing : t # u => call[t].n # call[u].n
       /\ \A m \in Continuing : m.n # call[t].n

PauseInv ==
  /\ paused \in Nat /\ lifted \in BOOLEAN /\ (state = "open" => db)
  /\ IsFiniteSet(timers)
  /\ TimersNamed /\ PauseHasTimer

\* The background work is resumed in the end.
BackgroundResumes == (paused > 0) ~> (paused = 0 \/ state # "open" \/ crashed)

\* A repair of all keys, or of a page that said fin, leaves at most one broken value
\* among those that nobody wrote meanwhile, unless an empty value made it say fin.
RepairLeavesAtMostOne ==
  [][\A t \in Clients :
       LET r == repair[t]
           left == {k \in Keys \ r.fresh : vals'[k] \in Broken}
       IN  At(t, "put") /\ call'[t].pc = "none" /\ Fin(r) /\ ~Early(r)
             => Cardinality(left) <= 1]_<<json, call>>
=============================================================================
