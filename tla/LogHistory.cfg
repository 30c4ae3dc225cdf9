\* Every failure except that of saveState itself, chain switched on and off.
CONSTANTS
  MaxBackups = 2
  MaxLines = 2
  LegacyLines = 1
  ChainModes = {TRUE, FALSE}
  Faults = {"crash", "rename", "write", "torn", "state"}
  MaxEvents = 6
  MaxFaults = 2
SPECIFICATION Spec
INVARIANTS
  NoFork
  RestartCoversLog
  LogInOrder
  CleanMeansComplete
  SingleRecordAgrees
CHECK_DEADLOCK FALSE
