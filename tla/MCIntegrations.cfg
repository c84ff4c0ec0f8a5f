\* Three creates racing on the same keys; or two deliveries to
\* one integration while it is created, tested and deleted, with one of those creates.
CONSTANTS
  c1 = c1  c2 = c2  c3 = c3  i1 = i1  i2 = i2  h1 = h1  t1 = t1  d1 = d1
  Tickets = {c1, c2, c3, i1, i2}
  Jobs = {c1, c2, c3, i1, i2}
  NoJob = NoJob
  NoTicket = NoTicket
  Keys = {"k1", "empty"}
  EmptyKey = "empty"
  NoKey = "null"
  MaxTries = 3
  Updates = {}
  Resolves = {}
  BulkCloses = {}
  Hooks = {h1}
  Ingests = {i1, i2}
  Tests = {t1}
  Deletes = {d1}
  NoHook = NoHook
SPECIFICATION IntSpec
CONSTRAINT Scene
SYMMETRY Symmetry
INVARIANTS SvcTypeOK RepliesAgree KeyedCreateAnswered HookTypeOK EventCountKept IngestTraced IngestFailsWhole
PROPERTY DeletedStaysDeleted
CHECK_DEADLOCK FALSE
