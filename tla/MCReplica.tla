----------------------------- MODULE MCReplica -----------------------------
(* Requests for TLC: operands of each method and texts of each kind on one   *)
(* key, and batches of two keys, or a hidden one, with what spoils a batch.  *)
EXTENDS Replica

MCPuts == {Clean(Number(5)), Clean(Array(<<1, 2>>)), Dirty(Number(4)), Trash}

Increments == {[mode |-> "inc", inc |-> Number(2), val |-> Number(10)],
               [mode |-> "inc", inc |-> Null, val |-> Number(3)]}

Additions == {[mode |-> "add", arr |-> <<7>>, lim |-> 2],
              [mode |-> "add", arr |-> <<8, 9>>, lim |-> 1]}

Updates == {[field |-> "f", inc |-> Number(1), val |-> Number(4)],
            [field |-> "f", inc |-> Null, val |-> Text],
            [field |-> "f", inc |-> Null, val |-> Null],
            [field |-> "g", inc |-> Number(1), val |-> Text]}

Packages == {[mode |-> "packed", upd |-> <<u>>] : u \in Updates}
            \cup {[mode |-> "packed", upd |-> <<u, t>>] :
                   u \in {v \in Updates : v.field = "f"}, t \in {v \in Updates : v.inc = Null}}

First == [mode |-> "setnx", val |-> Number(8)]
Step == [mode |-> "inc", inc |-> Number(1), val |-> Null]

PutOn(k, t) == [type |-> "put", key |-> k, text |-> t]
DelOf(k) == [type |-> "del", key |-> k]
MergeOn(k, op, junk) == [type |-> "merge", key |-> k, op |-> op, junk |-> junk]

Alone ==
  {<<PutOn("k1", t)>> : t \in MCPuts} \cup {<<DelOf("k1")>>}
  \cup {<<MergeOn("k1", op, FALSE)>> :
          op \in Increments \cup Additions \cup Packages \cup {First, Step}}

Spoiled == {PutOn("k1", Trash), PutOn("k1", Dirty(Number(4))), MergeOn("k1", Step, TRUE),
            PutOn("hidden", Clean(Text)), DelOf("hidden"), MergeOn("k1", Step, FALSE)}
Together == {<<o, MergeOn("k2", Step, FALSE)>> : o \in Spoiled}
            \cup {<<PutOn("k2", Clean(Number(1))), o>> : o \in Spoiled}

MCBatches == Alone \cup Together
=============================================================================
