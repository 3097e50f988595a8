SPECIFICATION Spec
CONSTANTS
  s1 = s1
  b1 = b1
  b2 = b2
  Users = {s1, b1, b2}
  NoUser = NoUser
  AuctionIDs = {a1}
  NoAuctionID = NoAuctionID
  Amounts = {1, 2}
  MaxInt = 100
  TicksPerSecond = 1
  Seller = s1
  StartPrice = 1
  Increment = 1
  Window <- Open
  Rules <- SnipeRules
  Verdicts = {}
  MaxBids = 1
  MaxRetries = 5
  MaxFaults = 0
CHECK_DEADLOCK FALSE
INVARIANTS
  LateListingSpares
