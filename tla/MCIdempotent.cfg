\* One ticket, its job and a manual retry.
CONSTANTS
  c1 = c1  q1 = q1
  Tickets = {c1}
  Jobs = {c1, q1}
  NoJob = NoJob
  NoTicket = NoTicket
  Keys = {}
  EmptyKey = "empty"
  NoKey = "null"
  MaxTries = 1
  NumStages = 1
  Updates = {}
  Resolves = {}
  BulkCloses = {}
SPECIFICATION Spec
PROPERTY ClassifyIdempotent
CHECK_DEADLOCK FALSE
