SPECIFICATION Spec
CONSTANTS
  Pids = {1}
  Programs <- MCPrograms
  Image <- MCImage
  Traits <- MCTraits
  LongNames <- MCLongNames
  Comm <- MCComm
  Policies <- MCPolicies
  Pol <- MCPol
  Now = 600
  Attacks = {"ptrace", "ldpreload", "instrument", "selfprotect"}
  FastCap = 1
  DeferredCap = 1
  MaxExecs = 2
  MaxEvents = 1
INVARIANT ResponseHasItsOwnGate
CHECK_DEADLOCK FALSE
