----------------------------- MODULE ReplicaLog -----------------------------
(***************************************************************************)
(* What replication promises, without files, requests or parsers.  A       *)
(* master's log grows by batches of operations, numbered from 1.  A        *)
(* replica takes whole batches in their order, each once, and may miss     *)
(* some, never more than `Loss` operations at a time, if it counts them.   *)
(***************************************************************************)
EXTENDS Naturals

CONSTANTS
  Loss,      \* the most operations that may be missed at a time
  Operations \* their numbers

VARIABLES
  ends,  \* the last operations of the master's batches
  data,  \* the operations the replica has
  missed \* those it has counted as missed

vars == <<ends, data, missed>>

Init == ends = {} /\ data = {} /\ missed = {}

\* The operations are those up to some number.
Beginning(s) == \A n \in Operations : n \in s => \A m \in Operations : m < n => m \in s

\* The replica passes the operations of s, which come next, up to the end of a batch.
Passes(s) ==
  /\ s # {} /\ s \cap (data \cup missed) = {}
  /\ Beginning(data \cup missed \cup s)
  /\ \E e \in ends : e \in s /\ \A n \in s : n <= e

MasterBatch ==
  /\ \E e \in Operations : (\A f \in ends : f < e) /\ ends' = ends \cup {e}
  /\ UNCHANGED <<data, missed>>

Apply ==
  /\ data \subseteq data' /\ Passes(data' \ data)
  /\ UNCHANGED <<ends, missed>>

Miss ==
  /\ missed \subseteq missed' /\ Passes(missed' \ missed)
  /\ \A n, m \in missed' \ missed : m < n + Loss
  /\ UNCHANGED <<ends, data>>

Next == MasterBatch \/ Apply \/ Miss

Spec == Init /\ [][Next]_vars
=============================================================================
