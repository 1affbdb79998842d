-------------------------- MODULE MCLeaderElection --------------------------
(* Leader election for TLC: replicas are model values and interchangeable. *)
EXTENDS LeaderElection, TLC

Interchangeable == Permutations(Replicas)
=============================================================================
