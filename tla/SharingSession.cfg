SPECIFICATION Spec
CONSTANTS
  alice = alice
  bob = bob
  q1 = q1
  q2 = q2
  r1 = r1
  r2 = r2
  r3 = r3
  Users = {alice, bob}
  Browsers = {b1, b2}
  Qrs = {q1}
  Owner <- MCOwner
  Requests = {r1, r2}
  Lease = 1
  CookieLife = 1
  Production = TRUE
  MaxTokens = 2
  MaxRenames = 0
  None = None
SYMMETRY Slots
INVARIANTS OneHolder RetiredIsFinal RevokedIsDead
PROPERTIES StaleWritesMiss ImplementsGrants
CHECK_DEADLOCK FALSE
