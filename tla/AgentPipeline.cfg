\* Channels of one slot, two shutdown requests.
CONSTANTS
  Clients = {c1, c2}
  FastCap = 1
  DeferredCap = 1
  ResponseCap = 1
  CleanupFails = {TRUE, FALSE}
  MaxEvents = 3
  MaxRecords = 2
SPECIFICATION Spec
INVARIANTS RecordsAccountedFor  ExitIsClean
PROPERTIES ShutdownCompletes EventsAreHandled
CHECK_DEADLOCK FALSE
