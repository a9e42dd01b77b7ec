SPECIFICATION RouteSpec
CONSTANTS
  Channels = {1, 2, 3}
  Canonical = {}
  Lists = {{}, {2}}
  Kept = {{}}
  MaxPlans = 2
INVARIANT NoneMeansNone
