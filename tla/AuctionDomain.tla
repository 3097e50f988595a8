---------------------------- MODULE AuctionDomain ----------------------------
(***************************************************************************)
(* The auction aggregate (internal/auction/domain/auction): the record     *)
(* that a row of auction.auctions holds, the guards of its behaviour       *)
(* methods and the state each of them leaves behind.  Every operator is a  *)
(* pure function of the aggregate, as the Go methods are; Auction and      *)
(* Settlement turn them into actions.                                      *)
(*                                                                         *)
(* The currency is the platform's single one, lot texts and bid ids are    *)
(* left out.  Zero values of Go stay zero values here: a reserve of 0 is   *)
(* NoReserve(), ZeroBid is Bid{}.                                          *)
(***************************************************************************)
EXTENDS Money

CONSTANTS
  Users,           \* participants: sellers and bidders share the UUID space
  NoUser,          \* the zero UUID
  AuctionIDs,      \* client- or saga-generated ids
  NoAuctionID,     \* the zero AuctionID
  Amounts,         \* prices and bids that callers may submit
  TicksPerSecond   \* clock ticks in a second; durations are stored in seconds

ASSUME DomainAssumption ==
  /\ NoUser \notin Users
  /\ NoAuctionID \notin AuctionIDs
  /\ Amounts \subseteq 1 .. MaxInt
  /\ TicksPerSecond \in Nat \ {0}

ZeroBid == [bidder |-> NoUser, amount |-> 0, placedAt |-> 0]

Bid == [bidder : Users \cup {NoUser}, amount : Nat, placedAt : Nat]

\* ListingRules: verification threshold and anti-snipe policy.
ListingRules == [verifyAbove : Nat, snipeWindow : Nat, extension : Nat,
                 maxExtensions : Nat]

Statuses == {"absent", "listed", "cancelled", "closed"}

AuctionRow ==
  [seller : Users \cup {NoUser}, startPrice : Nat, increment : Nat,
   reserve : Nat, startsAt : Nat, endsAt : Nat, originalEndsAt : Nat,
   rules : ListingRules, extensionsUsed : Nat, status : Statuses,
   outcome : {"", "sold", "not_sold"}, leadingBid : Bid, runnerUpBid : Bid,
   winnerReassigned : BOOLEAN, bidCount : Nat,
   relistOf : AuctionIDs \cup {NoAuctionID}, relistGen : Nat,
   settled : BOOLEAN]

\* No row under this id.
NoRow ==
  [seller |-> NoUser, startPrice |-> 0, increment |-> 0, reserve |-> 0,
   startsAt |-> 0, endsAt |-> 0, originalEndsAt |-> 0,
   rules |-> [verifyAbove |-> 0, snipeWindow |-> 0, extension |-> 0,
              maxExtensions |-> 0],
   extensionsUsed |-> 0, status |-> "absent", outcome |-> "",
   leadingBid |-> ZeroBid, runnerUpBid |-> ZeroBid,
   winnerReassigned |-> FALSE, bidCount |-> 0, relistOf |-> NoAuctionID,
   relistGen |-> 0, settled |-> FALSE]

-----------------------------------------------------------------------------
(* Storage mapping.                                                        *)

WholeSeconds(d) == (d \div TicksPerSecond) * TicksPerSecond

\* toPgAuction keeps the anti-snipe durations in whole seconds.
StoredRules(r) == [r EXCEPT !.snipeWindow = WholeSeconds(@),
                            !.extension = WholeSeconds(@)]

\* toDomainAuction refuses a row whose policy NewAntiSnipePolicy refuses.
Loadable(a) == a.rules.snipeWindow > 0 /\ a.rules.extension > 0

-----------------------------------------------------------------------------
(* Factories.                                                              *)

ValidWindow(w, now) == w.startsAt < w.endsAt /\ now < w.endsAt

Listing(seller, startPrice, increment, reserve, w, rules, origin, gen) ==
  [NoRow EXCEPT !.seller = seller, !.startPrice = startPrice,
                !.increment = increment, !.reserve = reserve,
                !.startsAt = w.startsAt, !.endsAt = w.endsAt,
                !.originalEndsAt = w.endsAt, !.rules = StoredRules(rules),
                !.status = "listed", !.relistOf = origin, !.relistGen = gen]

New(seller, startPrice, increment, reserve, w, rules) ==
  Listing(seller, startPrice, increment, reserve, w, rules, NoAuctionID, 0)

CanRelist(orig) == orig.relistGen < 1

RelistedFrom(orig, origID, w) ==
  Listing(orig.seller, orig.startPrice, orig.increment, orig.reserve, w,
          orig.rules, origID, orig.relistGen + 1)

-----------------------------------------------------------------------------
(* Bidding.                                                                *)

\* Mutation: the window is closed on the right.
IsOpenAtEnd(a, now) == a.status = "listed" /\ a.startsAt <= now /\ now <= a.endsAt

IsOpenAt(a, now) == a.status = "listed" /\ a.startsAt <= now /\ now < a.endsAt

MetBy(reserve, amount) == reserve = 0 \/ amount >= reserve

\* Mutation: the increment is forgotten.
MinimalBidNoIncrement(a) == IF a.leadingBid = ZeroBid THEN a.startPrice
                                                      ELSE a.leadingBid.amount

MinimalNextBid(a) == IF a.leadingBid = ZeroBid
                       THEN a.startPrice
                       ELSE Add(a.leadingBid.amount, a.increment)

\* Mutation: a bid at the threshold needs no verification.
CanPlaceBidAtThreshold(a, bidder, verified, amount, now) ==
  /\ IsOpenAt(a, now)
  /\ bidder # a.seller
  /\ a.leadingBid.bidder # bidder
  /\ amount >= MinimalNextBid(a)
  /\ verified \/ amount <= a.rules.verifyAbove

\* The guard cascade of PlaceBid.
CanPlaceBid(a, bidder, verified, amount, now) ==
  /\ IsOpenAt(a, now)
  /\ bidder # a.seller
  /\ a.leadingBid.bidder # bidder
  /\ amount >= MinimalNextBid(a)
  /\ verified \/ amount < a.rules.verifyAbove

\* Mutation: the edge of the snipe window is outside.
TriggersAfter(a, now) == now > a.endsAt - a.rules.snipeWindow

TriggersAt(a, now) == now >= a.endsAt - a.rules.snipeWindow

\* Mutation: the cap on extensions is not checked.
ExtendsUncapped(a, now) == TriggersAt(a, now)

Extends(a, now) ==
  TriggersAt(a, now) /\ a.extensionsUsed < a.rules.maxExtensions

Extension(a, now) == IF Extends(a, now) THEN a.rules.extension ELSE 0

\* Mutation: the old leader does not become the runner-up.
WithBidNoShift(a, bidder, amount, now) ==
  [a EXCEPT
    !.leadingBid = [bidder |-> bidder, amount |-> amount, placedAt |-> now],
    !.bidCount = @ + 1,
    !.endsAt = @ + Extension(a, now),
    !.extensionsUsed = IF Extends(a, now) THEN @ + 1 ELSE @]

WithBid(a, bidder, amount, now) ==
  [a EXCEPT
    !.runnerUpBid = a.leadingBid,
    !.leadingBid = [bidder |-> bidder, amount |-> amount, placedAt |-> now],
    !.bidCount = @ + 1,
    !.endsAt = @ + Extension(a, now),
    !.extensionsUsed = IF Extends(a, now) THEN @ + 1 ELSE @]

CanCancel(a, by) == by = a.seller /\ a.status = "listed" /\ a.bidCount = 0

Cancelled(a) == [a EXCEPT !.status = "cancelled"]

-----------------------------------------------------------------------------
(* Closing and the saga's commands.                                        *)

\* Mutation: only the tick of the deadline closes.
CanCloseAtDeadline(a, now) == a.status = "listed" /\ now = a.endsAt

CanClose(a, now) == a.status = "listed" /\ now >= a.endsAt

Sold(a) == a.leadingBid # ZeroBid /\ MetBy(a.reserve, a.leadingBid.amount)

RunnerUpQualifies(a) ==
  a.runnerUpBid # ZeroBid /\ MetBy(a.reserve, a.runnerUpBid.amount)

\* Mutation: the columns of status and outcome are mixed up.
ClosedMixedUp(a) == [a EXCEPT !.status = "closed", !.outcome = "closed"]

\* Mutation: the reserve is not checked at the hammer.
ClosedNoReserve(a) ==
  [a EXCEPT !.status = "closed",
            !.outcome = IF a.leadingBid # ZeroBid THEN "sold" ELSE "not_sold"]

Closed(a) == [a EXCEPT !.status = "closed",
                       !.outcome = IF Sold(a) THEN "sold" ELSE "not_sold"]

\* The reserve is not looked at: the saga only asks for a qualified runner-up.
CanAward(a) ==
  /\ ~a.winnerReassigned
  /\ a.status = "closed"
  /\ ~a.settled
  /\ a.outcome = "sold" /\ a.runnerUpBid # ZeroBid

Awarded(a) == [a EXCEPT !.leadingBid = a.runnerUpBid,
                        !.runnerUpBid = ZeroBid,
                        !.winnerReassigned = TRUE]

CanConfirm(a) == a.status = "closed" /\ a.outcome = "sold" /\ ~a.settled

Confirmed(a) == [a EXCEPT !.settled = TRUE]

\* Mutation: a settled sale can still fail.
CanFailSettled(a) == a.status = "closed" /\ a.outcome # "not_sold"

CanFailSale(a) == a.status = "closed" /\ a.outcome # "not_sold" /\ ~a.settled

SaleFailed(a) == [a EXCEPT !.outcome = "not_sold", !.settled = TRUE]

-----------------------------------------------------------------------------
(* The integration events of mapDomainEvent, as far as consumers use them. *)

AuctionListed(a) ==
  [type |-> "AuctionListed", relistGen |-> a.relistGen, endsAt |-> a.endsAt]

BidPlaced(a, outbid, now) ==
  [type |-> "BidPlaced", bidder |-> a.leadingBid.bidder,
   amount |-> a.leadingBid.amount, bidCount |-> a.bidCount,
   outbid |-> outbid.bidder, endsAt |-> a.endsAt, at |-> now]

AuctionCancelled == [type |-> "AuctionCancelled"]

AuctionClosed(a, now) ==
  LET winner == IF Sold(a) THEN a.leadingBid ELSE ZeroBid
  IN  [type |-> "AuctionClosed", outcome |-> a.outcome,
       winner |-> winner.bidder, hammer |-> winner.amount,
       runnerUp |-> a.runnerUpBid.bidder,
       runnerUpAmount |-> a.runnerUpBid.amount,
       runnerUpQualifies |-> RunnerUpQualifies(a),
       relistGen |-> a.relistGen, at |-> now]

WinnerReassigned(a) ==
  [type |-> "WinnerReassigned", newWinner |-> a.leadingBid.bidder,
   price |-> a.leadingBid.amount]

AuctionRelisted(a) == [type |-> "AuctionRelisted", original |-> a.relistOf]

SaleSettledEvent(a) ==
  [type |-> "SaleSettled", winner |-> a.leadingBid.bidder]

SaleFailedEvent == [type |-> "SaleFailed"]
==============================================================================
