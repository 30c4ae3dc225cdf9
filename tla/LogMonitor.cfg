\* Both backends, restarts between Writes, failed writes and pushes.
CONSTANTS
  MaxBackups = 1
  MaxLines = 2
  LegacyLines = 1
  ChainModes = {TRUE}
  Faults = {"write"}
  MaxEvents = 4
  MaxFaults = 1
  Backends = {"http", "file"}
  MaxPushFails = 1
SPECIFICATION MonitorSpec
INVARIANTS
  AnchorCommitsToLog
  NoFalseTampering
  CleanWithoutRotation
PROPERTIES AnchorMonotone HeadIsAnchored
CHECK_DEADLOCK FALSE
