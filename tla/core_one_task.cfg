SPECIFICATION UnreliableSpec
CONSTANTS
  Tasks = {t1}
  NoTask = none
  Operations <- MCAllOperations
  UserIds = {0, 1}
  RangeIds = {0, 1}
  Pins = {"good", "new"}
  NoPin = "null"
  InitialPin = "good"
  ComIds = {7}
  Refusals = {1, 5}
  PinLen <- MCPinLen
  MaxCalls = 4
  MaxResets = 1
  Faults = {"send", "recv", "late"}
  Quiesce = TRUE
  StatusBeforeEod = TRUE
INVARIANTS
  ReturnsDocumented
  SessionNeedsDiscovery
  SessionLiveUnlessLost
PROPERTIES
  ImplementsSession
  SuccessWasAnswered
  OkMeansDone
  QueryReportsLock
