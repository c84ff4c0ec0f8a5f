\* One ticket, its job and a manual retry of it, each job running up to twice.
CONSTANTS
  c1 = c1  q1 = q1
  Tickets = {c1}
  Jobs = {c1, q1}
  NoJob = NoJob
  NoTicket = NoTicket
  Keys = {}
  EmptyKey = "empty"
  NoKey = "null"
  MaxTries = 2
  NumStages = 2
  Updates = {}
  Resolves = {}
  BulkCloses = {}
SPECIFICATION Spec
INVARIANTS TypeOK LogClaimsOnlyWork CompleteMeansAssigned AttemptsHonest
CHECK_DEADLOCK FALSE
