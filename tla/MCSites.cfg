SPECIFICATION SitesSpec
CONSTANTS
  a0 = a0
  a1 = a1
  a2 = a2
  phraseA = phraseA
  phraseB = phraseB
  i0 = i0
  i1 = i1
  Accounts = {a0, a1, a2}
  Main = a0
  Phrases = {phraseA, phraseB}
  PhraseOf <- MCPhraseOf
  Paths = {i0, i1}
  PathOf <- MCPathOf
  Calls = {c1, c2}
  Origins = {s, t}
  Chains = {x, y}
  Builtin = {x, y}
  MaxPending = 2
  MaxIds = 2
  MaxGuesses = 4
  FreeAttempts = 2
  BaseDelay = 1
  MaxDelay = 2
  MaxWall = 6
  MaxCuts = 1
  MaxShifts = 1
  Readers = {r1, r2}
  Savers = {save1}
  GateTtl = 2
  MaxNow = 3
  MaxAsked = 3
  Targets = {ours, theirs}
  Nowhere = nowhere
  MaxPrices = 2
  MaxSigned = 1
  AccountIds = {acc1, acc2}
  ChainIds = {chain1}
  MaxEvents = 2
  MaxSyncs = 1
SYMMETRY Symmetry
INVARIANTS
  SitesTypeOK
  SignedAsShown
  GrantsWereApproved
  OnePromptPerSite
  GuessesWait
  GateFollowsInTime
  RefusedIsGone
  ShownWhenLeftAlone
  StreamsAreTicked
  UnlockedIsPolled
