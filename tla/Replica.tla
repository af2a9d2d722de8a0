------------------------------ MODULE Replica ------------------------------
(***************************************************************************)
(* A master and a slave of it, by what their keys hold.  set and del write *)
(* the value of a key, setnx, inc, add and packed stack an operand on it   *)
(* (wrocksdb::merge_), and the slave applies what since_reader gives it of *)
(* the master's log.  RocksDB folds the older operands of a key into its   *)
(* value whenever it flushes or compacts, in each of the two when it       *)
(* likes: what a client reads must not depend on it, nor on which of the   *)
(* two it asks.                                                            *)
(*                                                                         *)
(* Here the log is never purged and nothing stops the slave; what happens  *)
(* to operations then, whatever they hold, is in SlaveReplication.         *)
(***************************************************************************)
EXTENDS SinceReader

CONSTANTS
  Keys,       \* the keys
  Batches,    \* the requests that clients make, as lists of what they ask for
  Repairing,  \* db_config::repair_json_values, the values it may have
  MaxBatches, \* slave_config: how many batches a response may have
  MaxOps      \* bound: operations

\* The texts that a request may have, its JSON and what may follow, and the operands.
IsText(t) == t = [val |-> t.val, junk |-> t.junk] /\ t.junk \in BOOLEAN
IsOperand(op) ==
  op.mode \in {"setnx", "inc", "add", "packed"} /\ (op.mode = "setnx" => op.val # Missing)
IsRequest(r) ==
  /\ r.key \in Keys
  /\ \/ r.type = "put" /\ IsText(r.text)
     \/ r.type = "del"
     \/ r.type = "merge" /\ IsOperand(r.op) /\ r.junk \in BOOLEAN

\* A request with nothing to write is refused before (multidb, check_fields_).
ASSUME BatchesAssumption ==
  \A b \in Batches :
    Len(b) \in Nat \ {0} /\ DOMAIN b = 1..Len(b) /\ \A i \in 1..Len(b) : IsRequest(b[i])
ASSUME ReplicaAssumption ==
  /\ MaxOps \in Nat /\ MaxBatches \in Nat \ {0}
  /\ Hidden \subseteq Keys /\ Repairing \subseteq BOOLEAN

Sides == {"master", "slave"}

VARIABLES
  repairs, \* the option, of the master
  data,    \* per side and key: the value's text, or Gone, and the operands not folded yet
  log,     \* the master's batches, each with its first sequence number
  nextSeq  \* _next_seq_number of the slave's parser, which its next request asks for

replicaVars == <<repairs, data, log, nextSeq>>

Gone == Clean(Missing)
NoData == [text |-> Gone, stack |-> <<>>]

EndOf(batch) == batch.first + Len(batch.ops)
LastSeq == IF log = <<>> THEN 0 ELSE EndOf(log[Len(log)]) - 1

\* An operation on a key.
Applied(db, o) ==
  [db EXCEPT ![o.key] =
     CASE o.type = "put"   -> [text |-> o.text, stack |-> <<>>]
       [] o.type = "del"   -> NoData
       [] o.type = "merge" -> [@ EXCEPT !.stack = Append(@, o.op)]]

Value(k) == k.text.val
Folded(k, n) ==
  [text  |-> Clean(FullMerge(Value(k), SubSeq(k.stack, 1, n))),
   stack |-> SubSeq(k.stack, n + 1, Len(k.stack))]

Write ==
  \E b \in Batches :
    /\ LastSeq + Len(b) <= MaxOps
    /\ LET ops == [i \in DOMAIN b |-> Logged(repairs, b[i])]
       IN  /\ log' = Append(log, [first |-> LastSeq + 1, ops |-> ops])
           /\ data' = [data EXCEPT !["master"] = FoldLeft(Applied, @, ops)]
    /\ UNCHANGED <<repairs, nextSeq>>

\* A flush or a compaction folds the oldest n operands of a key.
Fold ==
  /\ \E s \in Sides, k \in Keys : \E n \in 1..Len(data[s][k].stack) :
       data' = [data EXCEPT ![s][k] = Folded(@, n)]
  /\ UNCHANGED <<repairs, log, nextSeq>>

\* GetUpdatesSince starts with the batch that holds the number.
FirstBatch == CHOOSE i \in DOMAIN log : log[i].first <= nextSeq /\ nextSeq < EndOf(log[i])

\* A response and what the generator does with it.
Replicate ==
  /\ nextSeq <= LastSeq
  /\ \E n \in 1..MaxBatches :
       LET last == FirstBatch + n - 1
           read == ReadLogs(nextSeq, SubSeq(log, FirstBatch, last))
       IN  /\ last <= Len(log)
           /\ data' = [data EXCEPT !["slave"] = FoldLeft(Applied, @, read.ops)]
           /\ nextSeq' = read.next
  /\ UNCHANGED <<repairs, log>>

InitReplica ==
  /\ repairs \in Repairing
  /\ data = [s \in Sides |-> [k \in Keys |-> NoData]]
  /\ log = <<>> /\ nextSeq = 1

NextReplica == Write \/ Fold \/ Replicate

SpecReplica == InitReplica /\ [][NextReplica]_replicaVars
-----------------------------------------------------------------------------
(* Properties. *)

\* What get returns.
Current(d) == IF d.stack = <<>> THEN d.text ELSE Folded(d, Len(d.stack)).text
Read(s, k) == Current(data[s][k])

\* What batches write, by a database that never folds: the operands on a key are those
\* since it was last put or deleted.
BatchApplied(db, batch) == FoldLeft(Applied, db, batch.ops)
Unfolded(batches) == FoldLeft(BatchApplied, [k \in Keys |-> NoData], batches)

\* Operands of more than one method, a setnx after another not counted.
Mixes(ops) ==
  \E i, j \in DOMAIN ops :
    /\ ops[i].mode # ops[j].mode
    /\ \A l \in {i, j} : l = 1 \/ ops[l].mode # "setnx"
Mixed(key) == Mixes(Unfolded(log)[key].stack)

\* The m-th operation of a batch cannot reach the slave as it was: its value is not JSON
\* to the end, or it comes after one that is not in the same batch.
Spoils(ops, m) ==
  \/ ops[m].type = "put" /\ ops[m].text.junk
  \/ \E l \in 1..m : ~Readable(ops[l])
Damages(batch, key) ==
  \E m \in DOMAIN batch.ops : batch.ops[m].key = key /\ Spoils(batch.ops, m)
Damaged(batches, key) == \E i \in DOMAIN batches : Damages(batches[i], key)

CaughtUp == log # <<>> => nextSeq > log[Len(log)].first

\* Once the slave has read the last batch a key reads the same on both sides, whenever
\* either folds, for every key merged with one method at a time that no damaged value
\* was written to, or before in the same batch; with repair_json_values there are none.
ReplicasAgree ==
  CaughtUp =>
    \A k \in Keys \ Hidden :
      ~Mixed(k) /\ (repairs \/ ~Damaged(log, k)) => Read("slave", k) = Read("master", k)

\* Whenever RocksDB folds, and however many operands, a client reads what it read
\* before: on either side, of every key that no damaged value was written to and whose
\* operands are of one method.
FoldsUnseen ==
  \A s \in Sides, k \in Keys \ Hidden : \A n \in 1..Len(data[s][k].stack) :
    ~Mixes(data[s][k].stack) /\ (repairs \/ ~Damaged(log, k))
      => Current(Folded(data[s][k], n)) = Read(s, k)

\* What makes it inductive.  The log is gapless and holds operations that requests leave.
Operations(rep) == UNION {{Logged(rep, b[i]) : i \in 1..Len(b)} : b \in Batches}
LogInv ==
  /\ log \in Seq([first : Nat, ops : Seq(Operations(repairs))])
  /\ \A i \in DOMAIN log : log[i].ops # <<>> /\ (i = 1 => log[i].first = 1)
  /\ \A i, j \in DOMAIN log :
       i < j => EndOf(log[i]) <= log[j].first /\ (j = i + 1 => EndOf(log[i]) = log[j].first)

\* A key that stands for what g has, its oldest operands folded.
Operands == UNION {{o.op : o \in {q \in Operations(rep) : q.type = "merge"}} : rep \in Repairing}
StandsFor(d, g) ==
  LET ops == g.stack
  IN  /\ \A x \in {d, g} : x = [text |-> x.text, stack |-> x.stack]
      /\ ops \in Seq(Operands) /\ \A i \in DOMAIN ops : ops[i].mode # "junk"
      /\ \E n \in 0..Len(ops) :
           /\ d.stack = SubSeq(ops, n + 1, Len(ops))
           /\ n = 0 => d.text = g.text
           /\ n > 0 /\ ~Mixes(ops) => d.text = Clean(FullMerge(Value(g), SubSeq(ops, 1, n)))

\* A database holds what batches write, where nothing damaged is.
Reflects(database, batches) ==
  \A k \in Keys \ Hidden : ~Damaged(batches, k) => StandsFor(database[k], Unfolded(batches)[k])

\* The slave is through with the first n batches: the last it has read to its end, or to
\* the first operation in it that is not readable, where it starts again and stops.
Through(seq, n) ==
  \/ n = 0 /\ seq = 1
  \/ /\ n \in DOMAIN log
     /\ \/ seq = EndOf(log[n])
        \/ LET ops == log[n].ops
           IN  \E x \in 1..Len(ops) - 1 : /\ seq = log[n].first + x /\ ~Readable(ops[x])
                                          /\ \A y \in 1..x - 1 : Readable(ops[y])

ReplicaInv ==
  /\ repairs \in Repairing /\ LogInv
  /\ DOMAIN data = Sides /\ \A s \in Sides : DOMAIN data[s] = Keys
  /\ Reflects(data["master"], log)
  /\ \E n \in 0..Len(log) : Through(nextSeq, n) /\ Reflects(data["slave"], SubSeq(log, 1, n))
=============================================================================
