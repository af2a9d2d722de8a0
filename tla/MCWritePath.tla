---------------------------- MODULE MCWritePath ----------------------------
(* The requests that differ in what is done with them: only one that is to    *)
(* return values looks for a snapshot, a del that is to pays no heed to sync, *)
(* and wrong values matter before anything else does.  One configuration      *)
(* queues, answers before and checks, the other does none of it.              *)
EXTENDS WritePath

MCShapes ==
  {s \in AllShapes : /\ s.gone => ~s.nores /\ s.cb /\ ~s.sync
                     /\ s.kind = "del" => ~s.sync /\ (~s.nores => s.cb)
                     /\ s.wrong => s.kind = "set" /\ ~s.sync /\ ~s.gone /\ ~s.nores}
MCConfigs == {[delayed |-> b, before |-> b, checked |-> b] : b \in BOOLEAN}
=============================================================================
