SPECIFICATION Spec
CONSTANTS
  a1 = a1
  a2 = a2
  s1 = s1
  s2 = s2
  b1 = b1
  b2 = b2
  Accounts = {a1, a2}
  Sends = {s1, s2}
  AccountOf <- TwoAccounts
  Bodies = {b1, b2}
  Delays = {TRUE, FALSE}
  MaxRecoverable = 1
  MaxCalls = 4
  MaxRestarts = 1
  StorageFaults = TRUE
INVARIANTS
  PromiseKept
  ToldIsDurable
  PoolHolds
CHECK_DEADLOCK FALSE
