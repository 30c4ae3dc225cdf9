SPECIFICATION Spec
CONSTANTS
  Root = root
  Sub = sub
  Pids = {1}
  BufCap = 2
  QueueCap = 3
  ChanCap = 2
  MaxChanges = 4
INVARIANTS
  SettledReportsAgree
  MergedIsNotOlder

  
