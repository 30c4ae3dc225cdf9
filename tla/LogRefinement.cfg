\* Renames succeed; everything else, saveState included, may fail.
CONSTANTS
  MaxBackups = 2
  MaxLines = 2
  LegacyLines = 1
  ChainModes = {TRUE, FALSE}
  Faults = {"crash", "save", "write", "torn", "state"}
  MaxEvents = 6
  MaxFaults = 2
SPECIFICATION Spec
INVARIANTS OneBreakPerFault VerifyFlagsTheBreaks
PROPERTY ImplementsAbstractLog
CHECK_DEADLOCK FALSE
