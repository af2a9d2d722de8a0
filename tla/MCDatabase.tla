----------------------------- MODULE MCDatabase -----------------------------
(* Broken values one after the other, and an empty one where fin looks for it. *)
EXTENDS Database

MCStored == {[k \in Keys |-> "bad"], [k \in Keys |-> IF k = MaxKey THEN "empty" ELSE "bad"]}
=============================================================================
