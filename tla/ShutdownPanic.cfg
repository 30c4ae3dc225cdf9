\* One event whose response is recorded while the agent shuts down.
CONSTANTS
  Clients = {c1}
  FastCap = 1
  DeferredCap = 1
  ResponseCap = 1
  CleanupFails = {FALSE}
  MaxEvents = 1
  MaxRecords = 1
SPECIFICATION Spec
INVARIANT ShutdownIsGraceful
CHECK_DEADLOCK FALSE
