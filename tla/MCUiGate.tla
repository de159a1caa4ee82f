------------------------------ MODULE MCUiGate ------------------------------
(* Instances of UiGate for TLC. *)
EXTENDS UiGate, TLC

Symmetry == Permutations(Runs) \cup Permutations(Seeds) \cup Permutations(Others)
=============================================================================
