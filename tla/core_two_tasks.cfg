SPECIFICATION FairSpec
CONSTANTS
  Tasks = {t1, t2}
  NoTask = none
  Operations <- MCAllOperations
  UserIds = {0}
  RangeIds = {0}
  Pins = {"good", "huge"}
  NoPin = "null"
  InitialPin = "good"
  ComIds = {7}
  Refusals = {5}
  PinLen <- MCPinLen
  MaxCalls = 2
  Faults = {"send", "recv", "late"}
  Quiesce = TRUE
  StatusBeforeEod = FALSE
INVARIANTS
  TypeOK
  LockDiscipline
  ResponseMatchesCommand
  HostSessionLive
  MethodsInLiveSession
  ComIdNegotiated
PROPERTIES
  AdminNeverReplaces
  FailureKeepsSession
  OrphansExplained
  ImplementsSession
  CallAdvances
  CallReturns
