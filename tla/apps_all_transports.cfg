SPECIFICATION AppFairSpec
CONSTANTS
  Tasks = {task}
  AppTask = task
  NoTask = none
  Apps <- MCApps
  Backends = {"drive", "hw", "mock"}
  Operations <- MCAllOperations
  UserIds = {0, 1}
  RangeIds = {0, 1}
  Pins = {"Admin1", "NewPIN", "PSID", "long"}
  NoPin = "null"
  InitialPin = "Admin1"
  ComIds = {1, 7}
  Refusals = {1, 5, 63}
  PinLen <- MCPinLen
  MaxCalls = 9
  Faults = {"send", "recv", "late"}
  Quiesce = TRUE
  StatusBeforeEod = TRUE
INVARIANTS
  AppTypeOK
  AppNeverDropsSession
  AppMethodsRightSp
  HeapMatchesContext
  TestsPass
  MockAnswersInStep
PROPERTIES
  AppTerminates
