SPECIFICATION Spec
CONSTANTS
  Policies = {a, b, u}
  Valid = {a, b, u}
  Signed = {a, b}
  Torn = torn
  None = none
  Main = main
  Paths = {main, alt}
  Reqs = {r1, r2}
  MaxWrites = 1
  MaxMishaps = 1
INVARIANTS
  UndisturbedRequestIsAtomic
  
  TornOnlyByMishap
SYMMETRY Symmetry
CHECK_DEADLOCK FALSE
