------------------------------ MODULE MCWorker ------------------------------
(* Worker with the symmetry TLC may use: where no worker or job is special. *)
EXTENDS Worker, TLC

Symmetry == Permutations(Jobs)
=============================================================================
