--------------------------- MODULE MCProviderCalls ---------------------------
(* Instances of ProviderCalls: three accounts, two on one recovery phrase.   *)
EXTENDS ProviderCalls, TLC

CONSTANTS a0, a1, a2, p, q, i0, i1

MCAccounts == {a0, a1, a2}
MCPhrases == {p, q}
MCPaths == {i0, i1}
MCPhraseOf == (a0 :> p) @@ (a1 :> p) @@ (a2 :> q)
MCPathOf == (a0 :> i0) @@ (a1 :> i1) @@ (a2 :> i0)

\* Calls do not differ but by their name.
Symmetry == Permutations(Calls)
=============================================================================
