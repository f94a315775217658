SPECIFICATION Spec
CONSTANTS
  v1 = v1
  v2 = v2
  Missing = Missing
  Broken = Broken
  NoPlan = NoPlan
  Values = {v1, v2}
  SchemaVersion = 1
  FirstConfigs <- LegacyOnly
  TransformFaults = FALSE
  MaxCalls = 2
  MaxKills = 1
  MaxLosses = 0
  MaxEditorWrites = 0
INVARIANTS
  PendingResumes
CHECK_DEADLOCK FALSE
