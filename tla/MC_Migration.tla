---------------------------- MODULE MC_Migration ----------------------------
(* Instances of Migration for TLC. *)
EXTENDS Migration, TLC

Symmetry == Permutations(Process)
=============================================================================
