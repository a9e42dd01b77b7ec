SPECIFICATION Spec
CONSTANTS
  Tasks = {t}
  Seeds = {p, q, r}
  MaxIndex = 2
  Kinds <- MCAllKinds
  Beside <- NoKinds
  Crashes = 0
SYMMETRY Symmetry
INVARIANTS RevealShowsWords
