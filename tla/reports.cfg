SPECIFICATION Spec
CONSTANTS
  SameWindowSlack = 1
  Minute = 2
  ResetStarted = 1
  Missing = missing
  None = none
  Sizes = {1}
  Models = {gpt, svc}
  Routed = {svc}
  Parents = {0, 5}
  MaxRequests = 2
  MaxLines = 7
  Requests = {q1, q2}
  Main = "main"
  MatchWindow = 1
  MaxTime = 2
  MaxErrors = 1
  MaxRows = 3
  Shares = {0, 1, 2}
  Now = 8
  Accounts = {"pool", "other"}
  Persons = {"ann", "bob"}
  Owner <- MCOwner
  NameOf <- MCNameOf
  ProviderOf <- MCProviderOf
  Price <- MCPrice
  Family <- MCFamily
  Span <- MCSpan
  FamilyOf <- MCFamilyOf
  BinOf <- MCBinOf
  FiveHours = 4
  Lookback = 8
  ActiveFor = 2
SYMMETRY Symmetry
CHECK_DEADLOCK FALSE
INVARIANTS
  CountedOnce
  RequestsPlaced
  ReportsAddUp
