SPECIFICATION AppFairSpec
CONSTANTS
  Tasks = {task}
  AppTask = task
  NoTask = none
  Apps = {"opal_task"}
  Backends = {"hw"}
  Operations <- MCAllOperations
  UserIds = {0}
  RangeIds = {0}
  Pins = {"Admin1", "NewPIN", "PSID", "long"}
  NoPin = "null"
  InitialPin = "Admin1"
  ComIds = {1, 7}
  Refusals = {1, 5, 63}
  PinLen <- MCPinLen
  MaxCalls = 9
  Faults = {}
  Quiesce = TRUE
  StatusBeforeEod = FALSE
PROPERTIES
  DemoLocksRange
