SPECIFICATION Spec
CONSTANTS
  f1 = f1
  f2 = f2
  k1 = k1
  k2 = k2
  s1 = s1
  s2 = s2
  Accounts = {a1, a2}
  NoRef = NoRef
  NoRow = NoRow
  NoObs = NoObs
  Nobody = Nobody
  Orphan = Orphan
  Files = {f1}
  Keys = {k1}
  Sessions = {s1}
  KeyOf <- OneKeyOf
  SessOf <- OneSessOf
  BornAt <- OneBornAt
  Observers = {c1}
  Uploaders = {u1}
  BatchSize = 2
  MaxOut = 1
  MaxTime = 1
  MaxId = 6
  MaxResets = 1
  MaxOrphans = 1
SYMMETRY AccountSymmetry
INVARIANTS
  TypeOK
  LedgerAgrees
  EventsKept
  ObservationsKept
