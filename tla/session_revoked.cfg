SPECIFICATION Spec
CONSTANTS
  Devices = {d1, d2}
  None = nobody
  Tasks = {t1}
  Overlap = FALSE
  MaxPrefs = 0
  MaxFails = 0
  MaxCrashes = 0
  MaxRevokes = 1
INVARIANTS
  RevokedIsTrue
CHECK_DEADLOCK FALSE
