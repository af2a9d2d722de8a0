--------------------------- MODULE MCRequestCheck ---------------------------
(* Each limit off, or low enough for a request to exceed it. *)
EXTENDS Remote

MCLimits == [keys_per_req : {0, 1}, key_size : {0, 1}, value_size : {0, 1}, prefix_size : {0, 1}]
=============================================================================
