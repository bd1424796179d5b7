SPECIFICATION WireSpec
CONSTANTS
  Tasks = {t1}
  NoTask = none
  Operations <- MCOperations
  UserIds = {0, 1}
  RangeIds = {0, 1}
  Pins = {"p15", "p16", "p32", "p255", "p256", "p400", "p401"}
  NoPin = "null"
  InitialPin = "p16"
  ComIds = {7}
  Refusals = {46}
  PinLen <- MCPinLen
  MaxCalls = 3
  Faults = {"send", "recv", "late"}
  Quiesce = TRUE
  StatusBeforeEod = FALSE
INVARIANTS
  WireTypeOK
  BuilderAgrees
  PacketSaysCommand
  PacketWellFormed
  ParsersAgree
  DiscoveryReportsDrive
