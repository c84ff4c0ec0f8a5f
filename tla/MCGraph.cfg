\* One ticket and its job, which may run twice, with a PATCH racing it, under
\* fairness.
CONSTANTS
  c1 = c1  u1 = u1
  Tickets = {c1}
  Jobs = {c1}
  NoJob = NoJob
  NoTicket = NoTicket
  Keys = {}
  EmptyKey = "empty"
  NoKey = "null"
  MaxTries = 2
  NumStages = 1
  Updates = {u1}
  Resolves = {}
  BulkCloses = {}
SPECIFICATION FairSpec
PROPERTY EnqueuedJobEnds
CHECK_DEADLOCK FALSE
