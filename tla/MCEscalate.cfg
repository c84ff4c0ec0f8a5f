\* One ticket, its job, and a resolve.
CONSTANTS
  c1 = c1  r1 = r1
  Tickets = {c1}
  Jobs = {c1}
  NoJob = NoJob
  NoTicket = NoTicket
  Keys = {}
  EmptyKey = "empty"
  NoKey = "null"
  MaxTries = 1
  NumStages = 1
  Updates = {}
  Resolves = {r1}
  BulkCloses = {}
SPECIFICATION Spec
PROPERTY StatusFollowsTransitions
CHECK_DEADLOCK FALSE
