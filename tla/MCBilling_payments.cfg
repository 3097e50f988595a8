SPECIFICATION LiveSpec
CONSTANTS
  u1 = u1
  u2 = u2
  a1 = a1
  i1 = i1
  i2 = i2
  Users = {u1, u2}
  NoUser = NoUser
  Auctions = {a1}
  NoAuction = NoAuction
  NoInvoiceID = NoInvoiceID
  InvoiceIDs = {i1, i2}
  Orders <- TwoAttempts
  MaxInt = 1000
  BasisPoints = 3
  Scale = 10
  Term = 2
  Requests = {q1, q2}
  Replicas = {r1}
  BatchLimit = 1
  MaxTime = 4
  MaxCrashes = 2
CHECK_DEADLOCK FALSE
INVARIANTS
  MoneyMatchesInvoice
  OneVerdict
PROPERTIES
  ImplementsLedger
  LostRaceRefunded
  EveryInvoiceConcludes
