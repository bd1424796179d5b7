SPECIFICATION FairSpec
CONSTANTS
  Tasks = {t1}
  NoTask = none
  Operations <- MCAllOperations
  UserIds = {0, 1}
  RangeIds = {0}
  Pins = {"good", "new"}
  NoPin = "null"
  InitialPin = "good"
  ComIds = {7}
  Refusals = {1}
  PinLen <- MCPinLen
  MaxCalls = 3
  Faults = {}
  Quiesce = TRUE
  StatusBeforeEod = FALSE
PROPERTIES
  SetPasswordOwnRow
