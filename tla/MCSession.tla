------------------------------ MODULE MCSession ------------------------------
(* Instances of Session: which operations exist and which run side by side. *)
EXTENDS Session, TLC

MCAllKinds == AllKinds
NoKinds == {}
\* Operations that run side by side.
LockBesideSwitch == {"switch", "lock"}

Symmetry == Permutations(Tasks) \cup Permutations(Seeds)
=============================================================================
