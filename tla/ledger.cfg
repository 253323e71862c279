SPECIFICATION MCSpec
CONSTANTS
  d1 = d1
  d2 = d2
  d3 = d3
  p1 = p1
  p2 = p2
  s1 = s1
  c1 = c1
  c2 = c2
  c3 = c3
  g1 = g1
  anthropic = anthropic
  openai = openai
  OwnProvider = anthropic
  Evidence = {TRUE}
  NoAcct = none
  NoRow = norow
  Devices = {d1, d2, d3}
  Persons = {p1, p2}
  Sessions = {s1}
  Accounts = {c1, c2, c3, g1}
  Providers = {anthropic, openai}
  PersonOf <- MCPersonOf
  SessOf <- MCSessOf
  ProviderOf <- MCProviderOf
  Readings <- ThroughOpenCodex
  MaxOut = 2
  MaxReads = 3
  MaxQueued = 4
  MaxLate = 1
  SameWindowSlack = 1
  Missing = missing
  FiveHourSpan = 3
  WeeklySpan = 5
  Minute = 2
  ResetStarted = 1
  MinFiveHourSamples = 2
  Multiples = {"pro", "max 5x", "max 20x"}
  PlanOrder <- MCPlanOrder
  Measured = {"pro", "max 5x", "max 20x", "team"}
  MaxSamples = 2
  Now = 8
  ShownSpan = 6
  ResetSlack = 4
  MinSampleUsed = 5
  Full = 100
  MinSampleCost = 2
  SeriesMaxPoints = 2
  Times = {1, 2, 3}
  Resets = {2, 3, 7, 8}
  Uses = {1, 2}
  MaxSnaps = 3
  RequestTimes = {0, 1, 2, 3, 4, 5, 6, 7}
  Weights = {1, 2}
  MaxRequests = 4
  ReadTimes = {1, 2, 3, 4}
  WeekResets = {4, 7, 10, 11}
  Percents = {50, 100}
  Plans = {"pro"}
  MaxReadings = 3
  From = 2
  To = 7
  Capacities = {1, 2, 3}
  Anchors = {0, 3, 9, 14}
CHECK_DEADLOCK FALSE
SYMMETRY Twins
INVARIANTS
  TypeOK
  AgreedAccountHeld
  LatestSettled
  ResetsShown
  CurvesTrue
  ReplaysAddUp
  RateMeasured
PROPERTIES
  OnlyOwnersChange
  NothingUnlearned
