SPECIFICATION FairSpec
CONSTANTS
  Devices = {d1, d2, d3}
  None = nobody
  Tasks = {t1}
  Overlap = FALSE
  MaxPrefs = 1
  MaxFails = 1
  MaxCrashes = 1
  MaxRevokes = 1
INVARIANTS
  TypeOK
  TokenForSettings
  NoTokenLeft
PROPERTIES
  JoinedSyncs
CHECK_DEADLOCK FALSE
