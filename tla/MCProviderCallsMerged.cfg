SPECIFICATION Spec
CONSTANTS
  a0 = a0
  a1 = a1
  a2 = a2
  p = p
  q = q
  i0 = i0
  i1 = i1
  Accounts <- MCAccounts
  Main = a0
  Phrases <- MCPhrases
  PhraseOf <- MCPhraseOf
  Paths <- MCPaths
  PathOf <- MCPathOf
  Calls = {c1, c2}
  Origins = {s}
  Chains = {x, y}
  Builtin = {x, y}
  MaxPending = 2
  MaxIds = 2
SYMMETRY Symmetry
INVARIANTS MergedListSeen
