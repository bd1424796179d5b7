SPECIFICATION Spec
CONSTANTS
  Tasks = {t1}
  NoTask = none
  Operations <- MCAllOperations
  UserIds = {0}
  RangeIds = {0}
  Pins = {"good", "huge"}
  NoPin = "null"
  InitialPin = "good"
  ComIds = {7}
  Refusals = {1}
  PinLen <- MCPinLen
  MaxCalls = 3
  Faults = {}
  Quiesce = TRUE
  StatusBeforeEod = FALSE
INVARIANTS
  ReturnsDocumented
