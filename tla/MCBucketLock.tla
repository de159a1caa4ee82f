---------------------------- MODULE MCBucketLock ----------------------------
(* Instances of BucketLock for TLC. *)
EXTENDS BucketLock, TLC

Symmetry == Permutations(Runs)
=============================================================================
