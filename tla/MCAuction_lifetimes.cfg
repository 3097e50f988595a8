SPECIFICATION LiveSpec
CONSTANTS
  s1 = s1
  b1 = b1
  b2 = b2
  a1 = a1
  a2 = a2
  a3 = a3
  Users = {s1, b1}
  NoUser = NoUser
  AuctionIDs = {a1, a2, a3}
  NoAuctionID = NoAuctionID
  Amounts = {1}
  MaxInt = 100
  TicksPerSecond = 1
  Listings <- LifetimeListings
  RelistWindows <- ReplacementWindows
  EarlyVerified = {s1, b1}
  Replicas = {r1}
  CandidateLimit = 1
  MaxTime = 4
  MaxInflight = 1
INVARIANTS
  OneRelist
PROPERTIES
  EveryListingEnds
