SPECIFICATION Spec
CONSTANTS
  None = none
  MaxTime = 3
  Accounts = {a, b}
  Fresh = 1
  MaxReadings = 1
  Lines = {a, b}
  Exes = {x, y}
  Nothing = nothing
  NotSaved = notsaved
  MaxEdits = 3
  MaxFails = 3
  Admins = {x, y}
  Bases = {pro, max}
  Tiers = {t20}
  MaxMoments = 2
  MaxWork = 4
  Visitors = {a, b}
  Hints = {x, y}
  Names = {n1}
  SessionTTL = 0
  CacheTTL = 1
  MaxLogins = 2
  MaxRestarts = 1
SYMMETRY Symmetry
CHECK_DEADLOCK FALSE
INVARIANTS
  TypeOK
  OwnReading
  OriginalKept
  PlanFollowsNewest
  AdminsApart
  NoEmailShown
PROPERTIES
  PutsBack
  PreviewIsAdmins
