SPECIFICATION FairSpec
CONSTANTS
  f1 = f1
  f2 = f2
  k1 = k1
  k2 = k2
  s1 = s1
  s2 = s2
  Accounts = {a1, a2}
  NoRef = NoRef
  NoRow = NoRow
  NoObs = NoObs
  Nobody = Nobody
  Orphan = Orphan
  Files = {f1, f2}
  Keys = {k1}
  Sessions = {s1, s2}
  KeyOf <- CopiesKeyOf
  SessOf <- CopiesSessOf
  BornAt <- CopiesBornAt
  Observers = {c1}
  Uploaders = {u1}
  BatchSize = 1
  MaxOut = 1
  MaxTime = 1
  MaxId = 4
  MaxResets = 0
  MaxOrphans = 0
PROPERTIES
  Delivers
