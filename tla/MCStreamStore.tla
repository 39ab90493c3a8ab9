---------------------------- MODULE MCStreamStore ----------------------------
(* Model values and symmetry for checking StreamStore with TLC. *)
EXTENDS StoreContract, TLC

Symmetry == Permutations(Workers) \cup Permutations(Keys)
=============================================================================
