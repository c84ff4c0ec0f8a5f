SPECIFICATION SlaFairSpec
CONSTANTS
  MaxTickets = 2
  Priorities <- MCPriorities
  FirstResponse <- MCFirstResponse
  SweepLimit = 2
  PageCap = 1
  MaxTime = 2
  MaxStops = 1
CHECK_DEADLOCK FALSE
INVARIANTS
  SlaTypeOK
  MarkedWasLate
PROPERTY
  OverdueMarked
