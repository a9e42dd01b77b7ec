SPECIFICATION AnswersSpec
CONSTANTS
  a0 = a0
  a1 = a1
  a2 = a2
  phraseA = phraseA
  phraseB = phraseB
  i0 = i0
  i1 = i1
  Accounts = {a0, a1, a2}
  Main = a0
  Phrases = {phraseA, phraseB}
  PhraseOf <- MCPhraseOf
  Paths = {i0, i1}
  PathOf <- MCPathOf
  Calls = {c1, c2}
  Origins = {s}
  Chains = {x, y}
  Builtin = {x}
  MaxPending = 1
  MaxIds = 2
  Channels = {1, 2, 3}
  Canonical = {1}
  Lists = {{}, {2, 3}}
  Kept = {{}, {2}}
  MaxPlans = 2
  Sends = {pay1, pay2}
  MaxSeq = 3
INVARIANTS
  PlanAndPayTypeOK
  PlanSettles
  PaysOnce
PROPERTIES EveryCallEnds
