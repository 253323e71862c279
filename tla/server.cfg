SPECIFICATION MCSpec
CONSTANTS
  Devices = {d1, d2}
  Invites = {i1, i2}
  Pairers = {p1, p2}
  Kinds = {usage, limit}
  Cleared <- MCCleared
  usage = usage
  limit = limit
  None = none
  Sessions = {s1, s2}
  Accounts = {o1, o2}
  Limits = {x, y}
  Desktop = o2
  Absent = absent
  BatchSize = 2
  Requests = {q1, q2}
  MaxTime = 2
  MaxEvents = 2
  MaxQueued = 2
  MaxSnaps = 2
SYMMETRY Symmetry
CHECK_DEADLOCK FALSE
INVARIANTS
  TypeOK
  InviteOnce
  NothingOrphaned
  RefusedForGood
  ReadingsAgree
PROPERTIES
  LeftStaysOut
  FailsOnUnnamed
