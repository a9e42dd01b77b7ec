SPECIFICATION PartsSpec
CONSTANTS
  Tasks = {op1, op2}
  Seeds = {seed1, seed2, seed3}
  MaxIndex = 2
  Kinds <- MCKinds
  Beside <- Switching
  Crashes = 1
  Pages = {p1}
  Sites <- MCSites
  SiteOf <- MCSiteOf
  MaxLogged = 2
  MaxTime = 2
  MaxNews = 3
  MaxPorts = 2
  MaxTransfers = 2
  Screens = {s1}
  MaxPasses = 2
  MaxRecords = 2
  MaxNotified = 2
  MaxStops = 1
  MaxHosts = 2
  MaxStreams = 2
  MaxSockets = 4
  op1 = op1
  op2 = op2
  seed1 = seed1
  seed2 = seed2
  seed3 = seed3
  p1 = p1
  p2 = p2
  k1 = k1
  k2 = k2
  plan1 = plan1
  plan2 = plan2
  Keys = {k1, k2}
  Plans = {plan1, plan2}
  PathOf <- MCPathOf
  KeyOf <- MCKeyOf
  MaxReviews = 2
  MaxPrices = 3
  MaxRequests = 2
INVARIANTS PartsTypeOK
  SessionMatchesRow SwitchMatchesRow UnlockedIsTimed NoSeedTwice RevealShowsOwn ListedIsSealed
  LivePortMissesNothing
  ToldOnce PendingIsWatched ListedUntilTold
  OneSocketPerChain AlwaysAWayOn
  ReviewIsWhole
PROPERTIES EachHeardInOrder
