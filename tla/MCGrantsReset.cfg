SPECIFICATION Spec
CONSTANTS
  Calls = {c1, c2}
  Sites = {s1, s2}
  Chains = {x, y}
  Ttl = 2
  MaxClock = 2
  MaxChanges = 2
  Stops = 1
  ResetBeside = TRUE
  c1 = c1
  c2 = c2
  s1 = s1
  s2 = s2
  x = x
  y = y
PROPERTY OnlyGrantsAdd
SYMMETRY Symmetry
