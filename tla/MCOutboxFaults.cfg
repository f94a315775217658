SPECIFICATION Spec
CONSTANTS
  a1 = a1
  a2 = a2
  s1 = s1
  s2 = s2
  b1 = b1
  b2 = b2
  Accounts = {a1}
  Sends = {s1, s2}
  AccountOf <- OneAccount
  Bodies = {b1}
  Delays = {FALSE}
  MaxRecoverable = 2
  MaxCalls = 4
  MaxRestarts = 1
  StorageFaults = TRUE
INVARIANTS
  IInv
  AttemptedOnce
  OutcomesAreTrue
PROPERTIES
  NoResume
  FinishedStays
  ImplementsMailQueue
CHECK_DEADLOCK FALSE
