-------------------------- MODULE MCSegmentedStack --------------------------
(* Workers and addresses are interchangeable.                              *)
EXTENDS SegmentedStack, TLC

StackSymmetry == Permutations(Workers) \union Permutations(Stacklets)
=============================================================================
