\* One ticket and its job.
CONSTANTS
  c1 = c1
  Tickets = {c1}
  Jobs = {c1}
  NoJob = NoJob
  NoTicket = NoTicket
  Keys = {}
  EmptyKey = "empty"
  NoKey = "null"
  MaxTries = 1
  NumStages = 1
  Updates = {}
  Resolves = {}
  BulkCloses = {}
SPECIFICATION Spec
INVARIANT FinishedJobShown
CHECK_DEADLOCK FALSE
