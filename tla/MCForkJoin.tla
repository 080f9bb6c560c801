------------------------------ MODULE MCForkJoin ------------------------------
(* Model values and symmetry for the TLC runs of ForkJoin.                  *)
EXTENDS ForkJoin, TLC

WorkerSymmetry == Permutations(Workers)
=============================================================================
