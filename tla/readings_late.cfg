SPECIFICATION ReadingsSpec
CONSTANTS
  Sessions = {s}
  Accounts = {o1, o2}
  Limits = {x}
  Desktop = o2
  Absent = absent
  BatchSize = 3
  Requests = {q1, q2}
  MaxTime = 1
  MaxEvents = 1
  MaxQueued = 2
INVARIANTS DuplicatesIgnored
CHECK_DEADLOCK FALSE
