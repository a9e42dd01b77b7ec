------------------------------ MODULE MCRealtime ------------------------------
(* Instances of Realtime: accounts do not differ but by their names.         *)
EXTENDS Realtime, TLC

Symmetry == Permutations(AccountIds)
=============================================================================
