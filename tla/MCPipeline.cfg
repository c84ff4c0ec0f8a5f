SPECIFICATION PipeSpec
CONSTANTS
  h1 = h1
  h2 = h2
  Heads = {h1, h2}
  MaxScore = 2
  Runs = {j1, j2, j3}
  Workers = {w1, w2}
  Texts <- MCTexts
  Answers <- MCAnswers
  LLMEnabled = TRUE
  TTL = 1
  CacheSize = 0
  MaxTime = 1
SYMMETRY Symmetry
CHECK_DEADLOCK FALSE
INVARIANTS
  PipeTypeOK
  OutageHandled
  EscalatedAtLeastHigh
  FairShare
  CacheServesRecent
  AuditFlagsDoubt
