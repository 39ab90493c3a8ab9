------------------------------ MODULE MCProducer ------------------------------
(* Instances of Producer for TLC. *)
EXTENDS Producer, TLC

CONSTANTS k1, d1, u1

(* 2 % 2 # 2 % 3, so the key moves when a third partition is added. *)
MCHash == [r \in Keyed |-> 2]

Symmetry == Permutations(IDs) \cup Permutations(Producers)
=============================================================================
