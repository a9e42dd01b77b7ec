SPECIFICATION RealtimeSpec
CONSTANTS
  AccountIds = {a1, a2}
  ChainIds = {c1}
  MaxEvents = 3
  MaxSyncs = 1
SYMMETRY Symmetry
INVARIANT FeedOfOneAccount
