-------------------------------- MODULE MCLace --------------------------------
(* Symmetry for the TLC runs of LaceDeque.                                  *)
EXTENDS LaceDeque, TLC

ThiefSymmetry == Permutations(Thieves)
=============================================================================
