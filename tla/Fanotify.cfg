SPECIFICATION MCSpec
CONSTANTS
  Openers = {o1, o2}
  LoopLog = LoopLog
  PollLog = PollLog
  Requests <- MCRequests
  View <- MCView
  Pol <- MCPol
  Reloads <- MCReloads
  Minutes <- MCMinutes
  BufCap = 2
  MaxChanges = 1
INVARIANTS
  OpenFollowsPolicy
  AuditTellsOutcome

  
  
