------------------------------ MODULE MCSharded ------------------------------
(* Model values and symmetry for checking Sharded with TLC. *)
EXTENDS Sharded, TLC

Symmetry == Permutations(Jobs)
=============================================================================
