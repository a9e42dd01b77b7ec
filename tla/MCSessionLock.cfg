SPECIFICATION Spec
CONSTANTS
  Tasks = {t, u}
  Seeds = {p, q}
  MaxIndex = 1
  Kinds <- MCAllKinds
  Beside <- LockBesideSwitch
  Crashes = 0
SYMMETRY Symmetry
INVARIANTS OpenIsTimed
