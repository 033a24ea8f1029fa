---------------------------- MODULE MC_Greylist ----------------------------
(* A small instance of Greylist, with the workers interchangeable.         *)
EXTENDS Greylist, TLC

Symmetry == Permutations(Workers)
=============================================================================
