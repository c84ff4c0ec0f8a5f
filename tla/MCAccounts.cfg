\* Two start-ups in development, two creates, two logins, a password change and
\* a PATCH.
CONSTANTS
  s1 = s1  s2 = s2  c1 = c1  c2 = c2  l1 = l1  l2 = l2  x1 = x1  m1 = m1
  p1 = p1  p2 = p2
  Emails = {"admin", "other"}
  AdminEmail = "admin"
  Passwords = {p1, p2}
  AdminPassword = p1
  None = None
  Production = FALSE
  Seeds = {s1, s2}
  Creates = {c1, c2}
  Logins = {l1, l2}
  Changes = {x1}
  Patches = {m1}
SPECIFICATION AccSpec
SYMMETRY Symmetry
INVARIANTS AccTypeOK AcceptedTokenIsCurrent OneAccountPerEmail
CHECK_DEADLOCK FALSE
