SPECIFICATION FairSpec
CONSTANTS
  alice = alice
  bob = bob
  q1 = q1
  q2 = q2
  r1 = r1
  r2 = r2
  r3 = r3
  Users = {alice, bob}
  Browsers = {b1}
  Qrs = {q1}
  Owner <- MCOwner
  Requests = {r1}
  Lease = 1
  CookieLife = 2
  Production = FALSE
  MaxTokens = 2
  MaxRenames = 1
  None = None
PROPERTIES AbandonedSessionsEnd
CHECK_DEADLOCK FALSE
