------------------------- MODULE MCOperatorProcess --------------------------
(* The operator process for TLC; safety runs treat replicas as interchangeable. *)
EXTENDS OperatorProcess, TLC

Interchangeable == Permutations(Replicas)
=============================================================================
