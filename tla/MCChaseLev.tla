------------------------------ MODULE MCChaseLev ------------------------------
(* Model values and symmetry for the TLC runs of ChaseLevDeque.             *)
EXTENDS ChaseLevDeque, TLC

ThiefSymmetry == Permutations(Thieves)
=============================================================================
