INIT SwitchInit
NEXT SwitchNext
CONSTANTS
  MaxInstalls = 1
  MaxInstallKills = 1
  MaxInstallTroubles = 0
INVARIANT CommittedStays
CHECK_DEADLOCK FALSE
