---------------------------- MODULE InitialLoad ----------------------------
(***************************************************************************)
(* The initial load of a slave (wrocksdb_initial.cpp): it asks the master  *)
(* for a snapshot, reads the master's keys page by page, writes the pages, *)
(* and hands over to replication (wrocksdb::slave_start_), which repeats   *)
(* the master's operations from the number after the snapshot's.           *)
(*                                                                         *)
(* Operations are numbered as in the master's log.  A value is the number  *)
(* of the operation that put it and those of the increments merged into it *)
(* since.  wrocksdb::range reads the master's present data: it takes no    *)
(* notice of the snapshot it is given.  Replication itself, which          *)
(* SlaveReplication is about, applies here each operation once, in order.  *)
(*                                                                         *)
(* Op_Word, where it occurs, is a faulty Op, defined to test that a        *)
(* property of this module fails of it.                                    *)
(***************************************************************************)
EXTENDS RangeScan, Sequences, SequencesExt

CONSTANTS
  MaxKey,   \* bound: keys are 1..MaxKey
  Stored,   \* keys the master has at first
  MaxOps,   \* bound: operations of the master, those included
  MaxLoads, \* bound: starts of the slave
  PageSize, \* initial_config::initial_range
  UseSetnx, \* the values of initial_config::use_setnx: a subset of BOOLEAN
  Kinds,    \* the operations made: a subset of AllKinds
  Faults    \* what may go wrong: a subset of AllFaults

AllKinds  == {"put", "del", "inc"}
AllFaults == {"overlap", "refused", "nosnapshot"}

ASSUME BoundsAssumption == 
  /\ MaxKey \in Nat /\ MaxOps \in Nat /\ MaxLoads \in Nat
  /\ Stored \in 0..MaxKey /\ Stored <= MaxOps
ASSUME ConfigAssumption ==
  PageSize \in Nat \ {0} /\ UseSetnx \subseteq BOOLEAN /\ Kinds \subseteq AllKinds
ASSUME FaultsAssumption == Faults \subseteq AllFaults

Keys == 1..MaxKey

VARIABLES
  log,    \* the master's operations
  mdata,  \* the master's database
  load,   \* the loader: where it is, its use_setnx, the number that replication
          \* will start at, where the next page starts, the log's length at first
  held,   \* the pages received and not yet written: handlers that run
  sdata,  \* the slave's database
  sseq,   \* its own latest sequence number
  file,   \* slave-sequence-number, 0 if there is none
  repl,   \* the next operation to repeat, 0 while replication is not started
  loads,  \* starts of the slave
  cause   \* auxiliary: per key, why the slave may differ from the master

vars == <<log, mdata, load, held, sdata, sseq, file, repl, loads, cause>>

Missing == [base |-> 0, incs |-> <<>>]
Present(data) == {k \in Keys : data[k] # Missing}

\* An operation with number n, on the value it finds.
Applied(kind, n, v) ==
  CASE kind = "put" -> [base |-> n, incs |-> <<>>]
    [] kind = "del" -> Missing
    [] kind = "inc" -> [v EXCEPT !.incs = Append(@, n)]

\* What excuses the keys of S from agreeing with the master.
Excused(S, why) == [k \in Keys |-> IF k \in S THEN cause[k] \cup {why} ELSE cause[k]]

\* The keys with an operation among those numbered first..last.
Touched(first, last) == {log[n].key : n \in DOMAIN log \cap (first..last)}

Idle == [pc |-> "none", start |-> 0, from |-> Nothing, beg |-> TRUE, began |-> 0,
         setnx |-> FALSE]
-----------------------------------------------------------------------------
(* The master. *)

MasterOp(kind, key) ==
  /\ Len(log) < MaxOps
  /\ LET n == Len(log) + 1
     IN  /\ log' = Append(log, [kind |-> kind, key |-> key])
         /\ mdata' = [mdata EXCEPT ![key] = Applied(kind, n, @)]
         /\ cause' = IF repl > n THEN Excused({key}, "unanchored") ELSE cause
  /\ UNCHANGED <<load, held, sdata, sseq, file, repl, loads>>

-----------------------------------------------------------------------------
(* The load. *)

\* wrocksdb::start: what the database holds from before is not looked at.
Start ==
  /\ loads < MaxLoads /\ load.pc = "none"
  /\ loads' = loads + 1
  /\ \E setnx \in UseSetnx :
       load' = [Idle EXCEPT !.pc = "snapshot", !.began = Len(log), !.setnx = setnx]
  /\ cause' = [k \in Keys |-> IF sdata[k] # Missing THEN {"older"} ELSE {}]
  /\ UNCHANGED <<log, mdata, held, sdata, sseq, file, repl>>

\* The process ends, or the database is stopped: answers are dropped with _owner, and
\* a page that a handler still has is not written, as a stopped object refuses its setnx
\* and a closed database its batch.  The next start loads from the beginning.
Stop ==
  /\ loads < MaxLoads /\ load.pc # "none"
  /\ load' = Idle
  /\ held' = {} /\ repl' = 0
  /\ UNCHANGED <<log, mdata, sdata, sseq, file, loads, cause>>

\* The answer to create_snapshot.
Snapshot_Late(n) == n + 2
Snapshot_Last(n) == n
Snapshot(n) == n + 1
CreateSnapshot ==
  /\ load.pc = "snapshot"
  /\ load' = [load EXCEPT !.pc = "range", !.start = Snapshot(Len(log))]
  /\ UNCHANGED <<log, mdata, held, sdata, sseq, file, repl, loads, cause>>

\* A null answer is taken for a master that has no snapshots.
NoSnapshot ==
  /\ "nosnapshot" \in Faults /\ load.pc = "snapshot"
  /\ load' = [load EXCEPT !.pc = "range", !.start = 0]
  /\ UNCHANGED <<log, mdata, held, sdata, sseq, file, repl, loads, cause>>

\* The master has no such prefix: the load stops, and nothing starts it again.
SnapshotRefused ==
  /\ "refused" \in Faults /\ load.pc = "snapshot"
  /\ load' = [load EXCEPT !.pc = "stopped"]
  /\ UNCHANGED <<log, mdata, held, sdata, sseq, file, repl, loads, cause>>

Request == [from |-> load.from, to |-> Nothing, beg |-> load.beg, offset |-> 0,
            limit |-> PageSize]

Answer(K, req) == [fields |-> Fields(K, req), fin |-> Fin(K, {}, req)]

\* The keys that neither this page nor a later one will hold.
Passed(answer) ==
  {k \in Present(mdata) : k > load.from /\ k \notin answer.fields /\
                         (answer.fin \/ \E j \in answer.fields : k < j)}

\* The handler of a page: it asks for the next page before it writes this one.
\* (A null answer is asked for again.)
NextFrom(fields) == IF fields = {} THEN load.from ELSE Max(fields)
Page ==
  /\ load.pc = "range"
  /\ "overlap" \in Faults \/ held = {}
  /\ \E answer \in {Answer(Present(mdata), Request)} :
       /\ held' = held \cup {[values |-> [k \in answer.fields |-> mdata[k]],
                             read   |-> Len(log),
                             fin    |-> answer.fin]}
       /\ load' = IF answer.fin THEN [load EXCEPT !.pc = "last"]
                  ELSE [load EXCEPT !.from = NextFrom(answer.fields), !.beg = FALSE]
       /\ cause' = Excused(Passed(answer), "passed")
  /\ UNCHANGED <<log, mdata, sdata, sseq, file, repl, loads>>

\* A page that is refused is empty, and is the last: fin is set in the answer.
PageRefused ==
  /\ "refused" \in Faults /\ load.pc = "range"
  /\ "overlap" \in Faults \/ held = {}
  /\ held' = held \cup {[values |-> <<>>, read |-> Len(log), fin |-> TRUE]}
  /\ load' = [load EXCEPT !.pc = "last"]
  /\ cause' = Excused({k \in Present(mdata) : k > load.from}, "refused")
  /\ UNCHANGED <<log, mdata, sdata, sseq, file, repl, loads>>

\* One batch of Put, or one setnx; the last page then releases the snapshot.  A
\* page is overtaken when replication, which may have started by then, has already
\* repeated operations that a Put takes back, or that a setnx yields to.
SetValue(old, new) == IF load.setnx /\ old # Missing THEN old ELSE new
Overtaken(h) ==
  DOMAIN h.values \cap Touched(IF load.setnx THEN load.start ELSE h.read + 1, repl - 1)
Write(h) ==
  /\ h \in held
  /\ held' = held \ {h}
  /\ sdata' = [k \in Keys |->
       IF k \in DOMAIN h.values THEN SetValue(sdata[k], h.values[k]) ELSE sdata[k]]
  /\ sseq' = sseq + Cardinality(DOMAIN h.values)
  /\ load' = IF h.fin THEN [load EXCEPT !.pc = "release"] ELSE load
  /\ LET loaded == {k \in DOMAIN h.values : sdata'[k] = h.values[k]}
     IN  cause' = [k \in Keys |->
           (IF k \in loaded THEN cause[k] \ {"older"} ELSE cause[k])
             \cup (IF k \in Overtaken(h) THEN {"undone"} ELSE {})]
  /\ UNCHANGED <<log, mdata, file, repl, loads>>

\* A setnx may be a delayed write: the snapshot is then released before the last page
\* has left the queue.
Post(h) ==
  /\ h \in held /\ h.fin /\ load.setnx
  /\ held' = (held \ {h}) \cup {[h EXCEPT !.fin = FALSE]}
  /\ load' = [load EXCEPT !.pc = "release"]
  /\ UNCHANGED <<log, mdata, sdata, sseq, file, repl, loads, cause>>

\* The answer to release_snapshot, whatever it is: replication starts, at the
\* number given or, without one, where the file or the slave's own number says.
Handover ==
  /\ load.pc = "release"
  /\ LET at == IF load.start # 0 THEN load.start
               ELSE IF file # 0 THEN file ELSE sseq + 1
     IN  /\ repl' = at
         /\ file' = IF load.start # 0 THEN at ELSE file
         /\ cause' = IF load.start # 0 THEN cause
                     ELSE Excused(Touched(load.began + 1, at - 1), "unanchored")
  /\ load' = [load EXCEPT !.pc = "done"]
  /\ UNCHANGED <<log, mdata, held, sdata, sseq, loads>>

\* Replication repeats the next operation.  A put or a del leaves nothing of
\* what the slave had before.
Replay ==
  /\ repl # 0 /\ repl <= Len(log)
  /\ LET op == log[repl]
     IN  /\ sdata' = [sdata EXCEPT ![op.key] = Applied(op.kind, repl, @)]
         /\ cause' = IF op.kind = "inc" THEN cause ELSE [cause EXCEPT ![op.key] = {}]
  /\ sseq' = sseq + 1
  /\ repl' = repl + 1 /\ file' = repl + 1
  /\ UNCHANGED <<log, mdata, load, held, loads>>

-----------------------------------------------------------------------------
Init ==
  /\ log = [n \in 1..Stored |-> [kind |-> "put", key |-> n]]
  /\ mdata = [k \in Keys |-> IF k <= Stored THEN Applied("put", k, Missing) ELSE Missing]
  /\ load = Idle /\ held = {}
  /\ sdata = [k \in Keys |-> Missing] /\ sseq = 0 /\ file = 0 /\ repl = 0 /\ loads = 0
  /\ cause = [k \in Keys |-> {}]

Load == CreateSnapshot \/ Page \/ (\E h \in held : Write(h) \/ Post(h)) \/ Handover

Next ==
  \/ \E kind \in Kinds, key \in Keys : MasterOp(kind, key)
  \/ Start \/ Stop \/ NoSnapshot \/ SnapshotRefused \/ PageRefused
  \/ Load \/ Replay

Spec == Init /\ [][Next]_vars

\* The master answers, handlers run, replication runs.
FairSpec == Spec /\ WF_vars(Load) /\ WF_vars(Replay)
-----------------------------------------------------------------------------
(* Properties. *)

Value == [base : 0..MaxOps, incs : Seq(1..MaxOps)]

TypeOK ==
  /\ log \in Seq([kind : AllKinds, key : Keys]) /\ Len(log) <= MaxOps
  /\ mdata \in [Keys -> Value] /\ sdata \in [Keys -> Value]
  /\ load.pc \in {"none", "snapshot", "range", "last", "release", "done", "stopped"}
  /\ load.start \in 0..(MaxOps + 1) /\ load.from \in {Nothing} \cup Keys
  /\ load.beg \in BOOLEAN /\ load.began \in 0..MaxOps /\ load.setnx \in BOOLEAN
  /\ sseq \in Nat /\ file \in Nat /\ repl \in Nat /\ loads \in 0..MaxLoads
  /\ cause \in [Keys -> SUBSET {"older", "passed", "refused", "undone", "unanchored"}]

CaughtUp == repl > Len(log) /\ held = {}

\* Two values that differ only in how often an increment was merged.
SameOps(v, w) == v.base = w.base /\ ToSet(v.incs) = ToSet(w.incs)

\* Once the load has been handed over and replication has caught up, the slave
\* has for every key what the master has, but for increments merged twice, unless
\*   older       the database was not empty when the load started,
\*   passed      the pages passed the key over: it was the one key after a full
\*               page, or the key where the page was to continue was deleted,
\*   refused     a page was refused,
\*   undone      a page was written after replication had overtaken it,
\*   unanchored  replication started at a number of the slave's own,
\* and nothing has put or deleted the key since.
Converges ==
  CaughtUp => \A k \in Keys : cause[k] = {} => SameOps(sdata[k], mdata[k])

\* Where replication starts at the snapshot's number, only an increment made after
\* the load began is merged twice.
Twice(k) == {sdata[k].incs[i] : i \in
              {j \in DOMAIN sdata[k].incs : \E h \in DOMAIN sdata[k].incs :
                 h # j /\ sdata[k].incs[h] = sdata[k].incs[j]}}
DoubledOnlyInLoad ==
  load.start # 0 =>
    \A k \in Keys : cause[k] = {} => \A n \in Twice(k) : n > load.began

\* A page passes over one key at the end, when it is the last, and one key where
\* it starts, when the key to continue from is gone.
PassesFew ==
  [][LET passed == {k \in Keys : "passed" \in cause'[k] /\ "passed" \notin cause[k]}
     IN  /\ Cardinality(passed) <= 2
         /\ load.from \in Present(mdata) \cup {Nothing} /\ passed # {} =>
              Cardinality(passed) = 1 /\ load'.pc = "last"]_vars

\* A load whose snapshot was given is handed over.
LoadEnds == (load.pc = "range") ~> (load.pc \in {"done", "none"})
=============================================================================
