SPECIFICATION Spec
CONSTANTS
  v1 = v1
  v2 = v2
  Missing = Missing
  Broken = Broken
  NoPlan = NoPlan
  Values = {v1, v2}
  SchemaVersion = 2
  FirstConfigs <- FoundConfigs
  TransformFaults = TRUE
  MaxCalls = 5
  MaxKills = 2
  MaxLosses = 1
  MaxEditorWrites = 1
INVARIANTS
  OriginalKept
  RepairWhole
  ToldIsReal
PROPERTIES
  EditsAreSeen
CHECK_DEADLOCK FALSE
