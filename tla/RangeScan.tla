----------------------------- MODULE RangeScan -----------------------------
(***************************************************************************)
(* The page a range request is answered with (wrocksdb::range).  A request *)
(* has from, to, beg, offset and limit; keys are integers in the order of  *)
(* the database, and the empty string, before every key, is Nothing.       *)
(*                                                                         *)
(* The iterator is modelled by what it has not passed yet, a set of keys:  *)
(* it stands at the least of them, and is valid while there is one.        *)
(***************************************************************************)
EXTENDS Integers, FiniteSets

(***************************************************************************)
(* A definition named Op_Word is the form Op would have after a plausible  *)
(* mistake; nothing uses it but the check that a property would notice.    *)
(***************************************************************************)

Nothing == 0

\* How many keys of S come before k.
Rank(S, k) == Cardinality({j \in S : j < k})

\* n times itr->Next(), and what those n steps pass.
Drop(S, n) == {k \in S : Rank(S, k) >= n}
Take(S, n) == {k \in S : Rank(S, k) < n}

\* itr->Seek(from), past the first key found unless req->beg is set, and past
\* req->offset keys: where the page starts.
Seek_Again(K, req) == Drop({k \in K : k >= req.from}, req.offset)
Seek(K, req) ==
  Drop({k \in K : k >= req.from}, IF req.beg THEN req.offset ELSE req.offset + 1)

WithinEnd_Exclusive(S, to) == {k \in S : to = Nothing \/ k < to}
WithinEnd(S, to) == {k \in S : to = Nothing \/ k <= to}

\* res->fields, of a database with the keys K.
Fields(K, req) == Take(WithinEnd(Seek(K, req), req.to), req.limit)

\* Where the iterator stands after the page.
Rest(K, req) == Drop(Seek(K, req), Cardinality(Fields(K, req)))

\* res->fin.  A page that is full steps once more before it asks whether the
\* iterator is valid; `same` holds the keys whose value is the text of req->to.
Fin_TwoSteps(K, same, req) ==
  Cardinality(Fields(K, req)) < req.limit \/ Cardinality(Rest(K, req)) <= 2
Fin_AfterStep(K, same, req) == Cardinality(Rest(K, req)) = 1
Fin(K, same, req) ==
  \/ Cardinality(Fields(K, req)) < req.limit
  \/ Cardinality(Rest(K, req)) <= 1
  \/ \E k \in Rest(K, req) : Rank(Rest(K, req), k) = 1 /\ k \in same
=============================================================================
