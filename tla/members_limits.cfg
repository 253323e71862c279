SPECIFICATION Spec
CONSTANTS
  Devices = {d1, d2}
  Invites = {i1, i2}
  Pairers = {p1, p2}
  Kinds = {usage, limit}
  Cleared <- MCCleared
  usage = usage
  limit = limit
  None = none
CHECK_DEADLOCK FALSE
INVARIANTS
  RemovesEverything
