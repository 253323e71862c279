SPECIFICATION FairSpec
CONSTANTS
  Accounts = {a1}
  Grants = {g1}
  Rotating = {g1}
  Plans = {pro}
  None = none
  MaxRenewals = 1
  MaxFails = 0
  MaxPlans = 0
PROPERTY UnlinkForgets
CHECK_DEADLOCK FALSE
