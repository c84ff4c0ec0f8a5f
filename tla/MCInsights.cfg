\* One ticket, its job, and three of the calls that move it, of a PATCH, a resolve and
\* two bulk closes, two at a time, while hours pass.
CONSTANTS
  c1 = c1  u1 = u1  r1 = r1  b1 = b1  b2 = b2
  Tickets = {c1}
  Jobs = {c1}
  NoJob = NoJob
  NoTicket = NoTicket
  Keys = {}
  EmptyKey = "empty"
  NoKey = "null"
  MaxTries = 1
  NumStages = 1
  Updates = {u1}
  Resolves = {r1}
  BulkCloses = {b1, b2}
  MaxTime = 2
SPECIFICATION InsSpec
CONSTRAINT Scene
SYMMETRY Symmetry
INVARIANTS InsTypeOK ResolvedBalanced ClosedBalanced BacklogAccounted
PROPERTY OnlyTriageLeavesGraph
CHECK_DEADLOCK FALSE
