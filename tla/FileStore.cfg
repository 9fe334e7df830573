SPECIFICATION FairSpec
CONSTANTS
  alice = alice
  bob = bob
  s1 = s1
  s2 = s2
  Sessions = {s1}
  Users = {alice, bob}
  Sender <- MCSender
  Receiver <- MCReceiver
  Requests = {r1, r2}
  Cleaners = {c1}
  Batch = 1
  MaxFiles = 2
  None = None
INVARIANTS ContentUnlessPurged
PROPERTIES DeletionIsAuthorised TombstonesStay RetentionIsEnforced
CHECK_DEADLOCK FALSE
