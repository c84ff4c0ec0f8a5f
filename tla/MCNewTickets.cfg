\* Two creates with the same key, under fairness.
CONSTANTS
  c1 = c1  c2 = c2
  Tickets = {c1, c2}
  Jobs = {c1, c2}
  NoJob = NoJob
  NoTicket = NoTicket
  Keys = {"k1"}
  EmptyKey = "empty"
  NoKey = "null"
  MaxTries = 1
  NumStages = 1
  Updates = {}
  Resolves = {}
  BulkCloses = {}
SPECIFICATION FairSpec
PROPERTY NewTicketsTriaged
CHECK_DEADLOCK FALSE
