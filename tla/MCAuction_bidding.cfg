SPECIFICATION Spec
CONSTANTS
  s1 = s1
  b1 = b1
  b2 = b2
  a1 = a1
  a2 = a2
  a3 = a3
  Users = {s1, b1, b2}
  NoUser = NoUser
  AuctionIDs = {a1}
  NoAuctionID = NoAuctionID
  Amounts = {1, 2, 3}
  MaxInt = 100
  TicksPerSecond = 1
  Listings <- BiddingListings
  RelistWindows <- NoRelists
  EarlyVerified = {}
  Replicas = {r1, r2}
  CandidateLimit = 1
  MaxTime = 5
  MaxInflight = 2
INVARIANTS
  TypeOK
  BidLadder
  HeadMatchesHistory
  BidsBeforeHammer
  DeadlineAccounted
  HighBidsVerified
  StreamMirrorsRow
PROPERTIES
  SnipersAnswered
  HammerFinal
