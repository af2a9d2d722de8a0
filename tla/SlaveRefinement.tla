--------------------------- MODULE SlaveRefinement ---------------------------
(***************************************************************************)
(* A session of SlaveReplication that nothing stops implements ReplicaLog: *)
(* the replica takes a batch when it is written, and misses what is        *)
(* counted as lost when an answer is accepted.                             *)
(***************************************************************************)
EXTENDS SlaveReplication

Promise ==
  INSTANCE ReplicaLog WITH
    Loss <- AcceptableLoss, Operations <- Seqs,
    ends <- {b.last : b \in batches}, data <- db.ops, missed <- lost

\* The slave's data grows by whole batches of the master's, in their order and each
\* once, and what is missing is counted, within acceptable_loss_seq at a time.
ImplementsReplicaLog == Promise!Spec

\* What a session that nothing stops keeps to, and what makes the refinement inductive.
\* The batches follow each other without a gap.
Contiguous ==
  /\ \A b \in batches : b.first = 1 \/ \E c \in batches : c.last = b.first - 1
  /\ latest = 0 \/ \E c \in batches : c.last = latest

\* The first operation that the slave has neither written nor counted as lost.
Position ==
  IF pc[1] = "marked" THEN todo[1].lo ELSE IF pc[1] = "written" THEN todo[1].hi + 1 ELSE preq[1]

\* There is one object, never stopped, and no trace of another.
OneSession ==
  /\ cur \in {0, 1} /\ dfile = NoFile /\ shelf = Absent
  /\ cur = 0 => db = Absent /\ file = NoFile /\ lost = {}
  /\ cur = 1 => /\ life[1] \in {"starting", "up"} /\ pc[1] # "gone" /\ ~chance[1]
                /\ pc[1] # "idle" => life[1] = "up"

\* The data is exactly what is below its position, and answers and parsed batches end
\* where batches of the master do.
InStep ==
  /\ unseen = {} /\ db.twice = {}
  /\ cur = 1 =>
       /\ Position >= 1 /\ \A s \in Seqs : s < Position <=> s \in db.ops \cup lost
       /\ next[1] = 0 => preq[1] = 1
       /\ pc[1] = "reply" /\ ~res[1].empty =>
            /\ \E b \in batches : res[1].first = b.first
            /\ \E e \in batches : res[1].end = e.last
       /\ pc[1] \in {"marked", "written"} =>
            todo[1].lo <= todo[1].hi /\ \E e \in batches : todo[1].hi = e.last

Session == Contiguous /\ OneSession /\ InStep
=============================================================================
