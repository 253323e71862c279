SPECIFICATION FairSpec
CONSTANTS
  Accounts = {a1, a2}
  Grants = {g1, g2}
  Rotating = {g1}
  Plans = {pro, max}
  None = none
  MaxRenewals = 1
  MaxFails = 1
  MaxPlans = 1
INVARIANTS
  TypeOK
  StoredTokenWorks
  TokenAndRow

PROPERTIES
  SignInsAreRead
CHECK_DEADLOCK FALSE
