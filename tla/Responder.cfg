SPECIFICATION MCSpec
CONSTANTS
  Agents = {poll}
  Poll = poll
  Handlers = {http}
  None = none
  MaxCalls <- CallBounds
  MaxFaults = 1
  Pids = {2, 3, 4}
  Programs = {a, b}
  MaxChanges = 2
  Files = {f}
  MaxInodes = 3
INVARIANTS
  MisdirectedOnlyByReuse
  KilledTreeIsGone
  FrozenTableIsTrue
  KeptIsSealedAndListed
  NothingVanishes
  IsolationIsWhole
CHECK_DEADLOCK FALSE
SYMMETRY Symmetry
