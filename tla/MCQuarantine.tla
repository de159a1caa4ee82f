---------------------------- MODULE MCQuarantine ----------------------------
(* Instances of Quarantine for TLC. *)
EXTENDS Quarantine, TLC

(* Every job on the bucket's lock, and every job on a lock of its own. *)
OneLock  == [j \in Jobs |-> "bucket"]
OwnLocks == [j \in Jobs |-> j]

Symmetry == Permutations(Keys) \cup Permutations(Jobs)
=============================================================================
