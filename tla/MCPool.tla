------------------------------- MODULE MCPool -------------------------------
(* Instances of Pool for TLC: requests and workers are model values.        *)
EXTENDS Pool, TLC

Symmetry == Permutations(Tasks) \cup Permutations(Workers)
=============================================================================
