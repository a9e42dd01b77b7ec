------------------------------ MODULE MCGrants ------------------------------
\* Small instances of Grants for TLC.
EXTENDS Grants, TLC
CONSTANTS c1, c2, s1, s2, x, y

Symmetry == Permutations({c1, c2}) \cup Permutations({s1, s2}) \cup Permutations({x, y})
=============================================================================
