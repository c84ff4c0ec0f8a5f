\* Two logins at a time of two emails, locked out by the second failure; three calls of a
\* client that may make two in a window of two.
CONSTANTS
  e1 = e1  e2 = e2  l1 = l1  l2 = l2  r1 = r1  r2 = r2  r3 = r3
  NoEmail = NoEmail
  Emails = {e1, e2}
  Logins = {l1, l2}
  MaxAttempts = 2
  AttemptWindow = 1
  MaxTracked = 1
  Calls = {r1, r2, r3}
  Limit = 2
  Window = 2
  MaxTime = 3
SPECIFICATION LimitsSpec
SYMMETRY Symmetry
INVARIANTS RateTypeOK LimitKept RefusedOnlyAtLimit RemainingHonest LoginTypeOK FailuresBounded
PROPERTY ImplementsLockout
CHECK_DEADLOCK FALSE
