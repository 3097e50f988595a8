SPECIFICATION LiveSpec
CONSTANTS
  s1 = s1
  b1 = b1
  b2 = b2
  a1 = a1
  Users = {s1, b1, b2}
  NoUser = NoUser
  AuctionIDs = {a1}
  NoAuctionID = NoAuctionID
  Amounts = {1, 2, 3}
  MaxInt = 100
  TicksPerSecond = 1
  TheAuction = a1
  Hammered <- SomeHammered
  Requests = {d1}
  RelistWindow <- NextWindow
  MaxRetries = 5
  MaxCrashes = 2
CHECK_DEADLOCK FALSE
INVARIANTS
  AlreadyPaidMeansOffer
