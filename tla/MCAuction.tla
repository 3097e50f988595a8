------------------------------ MODULE MCAuction ------------------------------
(* Instances of Auction for TLC.                                           *)
EXTENDS Auction

CONSTANTS s1, b1, b2, a1, a2, a3

Rules(verifyAbove, window, extension, max) ==
  [verifyAbove |-> verifyAbove, snipeWindow |-> window,
   extension |-> extension, maxExtensions |-> max]

Listed(reserve, from, to, rules) ==
  [seller |-> s1, startPrice |-> 1, increment |-> 1, reserve |-> reserve,
   window |-> [startsAt |-> from, endsAt |-> to], rules |-> rules]

\* Bidding: with and without a reserve, one extension or two, a window that
\* opens late, and a threshold that some of the bids reach.
BiddingListings ==
  {Listed(2, 1, 3, Rules(3, 1, 1, 2)), Listed(0, 2, 4, Rules(2, 2, 1, 1))}

\* Lifetimes: deadlines that a bid may extend, and room for a relist.
LifetimeListings == {Listed(1, 1, 2, Rules(9, 1, 1, 1))}

ReplacementWindows == {[startsAt |-> 2, endsAt |-> 3]}

NoRelists == {}
==============================================================================
