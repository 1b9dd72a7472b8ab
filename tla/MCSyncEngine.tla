---------------------------- MODULE MCSyncEngine ----------------------------
(* Instances of SyncEngine for TLC: runs and transactions are interchangeable. *)
EXTENDS SyncEngine, TLC

Symmetry == Permutations(Runs) \cup Permutations(Txns)
=============================================================================
