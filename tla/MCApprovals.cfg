SPECIFICATION SidesSpec
CONSTANTS
  o1 = o1
  t1 = t1
  t2 = t2
  c1 = c1
  s1 = s1
  s2 = s2
  f1 = f1
  f2 = f2
  Origins = {o1}
  Tabs = {t1, t2}
  Chains = {c1}
  Pages = {s1, s2}
  Frames = {f1, f2}
  FrameTab <- SameTabFrames
  MaxPending = 2
  MaxIds = 3
INVARIANTS
  TypeOK
  FrameOwnsItsPrompt
  OverlayPromptAlive
  PendingIsArmed
  NoGhostSurface
PROPERTIES
  AsksAndAnswersOnce
  EveryRequestEnds
