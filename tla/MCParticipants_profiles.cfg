SPECIFICATION LiveSpec
CONSTANTS
  Ids = {p1, p2, p3}
  Emails = {e1, e2}
  Names = {n1, n2}
  MaxRetries = 1
  MaxFaults = 2
CHECK_DEADLOCK FALSE
INVARIANTS
  ProfilesHonest
  ProfilesConverge
PROPERTIES
  VerifiedMayBid
