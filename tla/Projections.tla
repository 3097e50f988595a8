----------------------------- MODULE Projections -----------------------------
(***************************************************************************)
(* The read projections of one auction: auction.catalog_items and          *)
(* auction.seller_dashboard_items, fed by the auction's own integration    *)
(* events (auction/ports/events.go).  Every event type has a consumer      *)
(* group with an offset of its own, so the groups fall behind each other   *)
(* freely; within a group events arrive in order and one at a time.        *)
(*                                                                         *)
(* A handler is a sequence of single SQL statements.  Each statement is a  *)
(* step: other groups run between two of them.                             *)
(*                                                                         *)
(* WinnerReassigned has no projection and is left out, and so are titles,  *)
(* sellers and updated_at.                                                 *)
(***************************************************************************)
EXTENDS AuctionDomain, Bus

CONSTANTS
  Seller, StartPrice, Increment, Window, Rules,   \* the terms of the listing
  Verdicts,    \* verdicts the saga may reach on the sale: "settled", "failed"
  MaxBids      \* bound on bids

ASSUME ProjectionsAssumption ==
  /\ Seller \in Users
  /\ StartPrice \in Amounts /\ Increment \in Amounts
  /\ Window \in [startsAt : Nat, endsAt : Nat] /\ Window.startsAt < Window.endsAt
  /\ Rules \in ListingRules
  /\ Verdicts \subseteq {"settled", "failed"}
  /\ MaxBids \in Nat

VARIABLES
  row,         \* the auction's row in auction.auctions
  relisted,    \* a replacement has been listed
  catalog,     \* the auction's row in auction.catalog_items, or NoItem
  dashboard    \* its row in auction.seller_dashboard_items, or NoLine

vars == <<row, relisted, catalog, dashboard, bus>>

writeModel == <<row, relisted>>
readModels == <<catalog, dashboard>>

\* The subscriptions: one group per event type.
Groups == {"AuctionListed", "BidPlaced", "AuctionClosed", "AuctionCancelled",
           "AuctionRelisted", "SaleSettled", "SaleFailed"}

\* NoItem and NoLine stand for "no row"; a bid count of -1 is below all.
NoItem == [price |-> 0, next |-> 0, bidCount |-> -1, endsAt |-> 0]

NoLine == [status |-> "", outcome |-> "", settlement |-> "", hammer |-> 0,
           bidCount |-> -1, endsAt |-> 0]

Init ==
  /\ row = NoRow
  /\ relisted = FALSE
  /\ catalog = NoItem
  /\ dashboard = NoLine
  /\ BusInit([g \in Groups |-> <<>>])

-----------------------------------------------------------------------------
(* The write model: each command commits its row and its event together.   *)

Commit(a, e) ==
  /\ row' = a
  /\ Publish(e)
  /\ UNCHANGED <<relisted, readModels, run, deadLetter, faults>>

List ==
  LET a == New(Seller, StartPrice, Increment, 0, Window, Rules)
  IN  row = NoRow /\ Commit(a, AuctionListed(a))

PlaceBid(bidder, amount, at) ==
  LET a == WithBid(row, bidder, amount, at)
  IN  /\ row.bidCount < MaxBids
      /\ at >= row.leadingBid.placedAt
      /\ CanPlaceBid(row, bidder, TRUE, amount, at)
      /\ Commit(a, BidPlaced(a, row.leadingBid, at))

Cancel == CanCancel(row, Seller) /\ Commit(Cancelled(row), AuctionCancelled)

Close ==
  /\ CanClose(row, row.endsAt)
  /\ Commit(Closed(row), AuctionClosed(Closed(row), row.endsAt))

ConfirmSettlement ==
  /\ "settled" \in Verdicts
  /\ CanConfirm(row) /\ Commit(Confirmed(row), SaleSettledEvent(row))

MarkSaleFailed ==
  /\ "failed" \in Verdicts
  /\ CanFailSale(row) /\ Commit(SaleFailed(row), SaleFailedEvent)

\* The saga relists after MarkSaleFailed.  The AuctionListed of the
\* replacement concerns the replacement's rows.
Relist ==
  /\ row.outcome = "not_sold" /\ row.settled
  /\ CanRelist(row) /\ ~relisted
  /\ relisted' = TRUE
  /\ Publish([type |-> "AuctionRelisted"])
  /\ UNCHANGED <<row, readModels, run, deadLetter, faults>>

-----------------------------------------------------------------------------
(* CatalogPostgresProjection.                                              *)

CatalogUpsertListed ==
  /\ At("AuctionListed", "start")
  /\ catalog' = IF catalog # NoItem THEN catalog
                ELSE [price |-> StartPrice, next |-> StartPrice,
                      bidCount |-> 0, endsAt |-> Event("AuctionListed").endsAt]
  /\ dashboard' = dashboard
  /\ Goto("AuctionListed", "dashboard")

\* The increment is joined from the write table.  (Postgres refuses a sum
\* beyond bigint; amounts that large are left to Auction.)
ItemWithBid(e) ==
  [price |-> e.amount, next |-> e.amount + row.increment,
   bidCount |-> e.bidCount, endsAt |-> e.endsAt]

\* Mutation: no guard on bid_count.
CatalogBidHitsAny(e) == catalog # NoItem

CatalogBidHits(e) == catalog # NoItem /\ catalog.bidCount < e.bidCount

CatalogApplyBid ==
  LET e == Event("BidPlaced")
  IN  /\ At("BidPlaced", "start")
      /\ \/ /\ CatalogBidHits(e)
            /\ catalog' = ItemWithBid(e)
            /\ Goto("BidPlaced", "dashboard")
         \/ /\ ~CatalogBidHits(e)
            /\ catalog' = catalog
            /\ Goto("BidPlaced", "classify")
      /\ dashboard' = dashboard

\* Mutation: an item that exists is taken for a stale duplicate, as ackOrLag
\* does for the dashboard.
StaleDuplicateAny(e) == TRUE

StaleDuplicate(e) == catalog.bidCount >= e.bidCount

\* classifyMiss: a stale duplicate, an item behind the event, or no item.
ClassifyMiss ==
  LET e == Event("BidPlaced")
  IN  /\ At("BidPlaced", "classify")
      /\ \/ catalog = NoItem /\ Goto("BidPlaced", "status")
         \/ /\ catalog # NoItem
            /\ \/ StaleDuplicate(e) /\ Goto("BidPlaced", "dashboard")
               \/ ~StaleDuplicate(e) /\ Fail("BidPlaced")
      /\ UNCHANGED readModels

Removed == row.status # "listed"

\* classifyMiss without an item: the auction's status decides.
ClassifyByStatus ==
  /\ At("BidPlaced", "status")
  /\ \/ Removed /\ Goto("BidPlaced", "dashboard")
     \/ ~Removed /\ Fail("BidPlaced")
  /\ UNCHANGED readModels

CatalogRemove(g) ==
  /\ g \in {"AuctionClosed", "AuctionCancelled"}
  /\ At(g, "start")
  /\ catalog' = NoItem
  /\ dashboard' = dashboard
  /\ Goto(g, "dashboard")

-----------------------------------------------------------------------------
(* DashboardPostgresProjection.                                            *)

DashboardUpsertListed ==
  /\ At("AuctionListed", "dashboard")
  /\ dashboard' = IF dashboard # NoLine THEN dashboard
                  ELSE [NoLine EXCEPT !.status = "listed", !.bidCount = 0,
                                      !.endsAt = Event("AuctionListed").endsAt]
  /\ catalog' = catalog
  /\ Goto("AuctionListed", "ack")

\* Events that only the dashboard projects start with its statement.
DashboardOnly == {"AuctionRelisted", "SaleSettled", "SaleFailed"}

\* The WHERE clause of the UPDATE for this event.
LineHit(e) ==
  /\ dashboard # NoLine
  /\ e.type = "BidPlaced" => dashboard.bidCount < e.bidCount

\* The SET clause.
LineAfter(e) ==
  CASE e.type = "BidPlaced" ->
         [dashboard EXCEPT !.bidCount = e.bidCount, !.endsAt = e.endsAt]
    [] e.type = "AuctionClosed" ->
         [dashboard EXCEPT !.status = "closed", !.outcome = e.outcome,
                           !.hammer = e.hammer]
    [] e.type = "AuctionCancelled" -> [dashboard EXCEPT !.status = "cancelled"]
    [] e.type = "AuctionRelisted" -> [dashboard EXCEPT !.settlement = "relisted"]
    [] e.type = "SaleSettled" -> [dashboard EXCEPT !.settlement = "settled"]
    [] e.type = "SaleFailed" -> [dashboard EXCEPT !.settlement = "failed",
                                                  !.outcome = "not_sold"]

DashboardUpdate(g) ==
  LET e == Event(g)
  IN  /\ g # "AuctionListed"
      /\ At(g, IF g \in DashboardOnly THEN "start" ELSE "dashboard")
      /\ \/ LineHit(e) /\ dashboard' = LineAfter(e) /\ Goto(g, "ack")
         \/ ~LineHit(e) /\ dashboard' = dashboard /\ Goto(g, "exists")
      /\ catalog' = catalog

\* ackOrLag after an UPDATE that hit nothing.
AckOrLag(g) ==
  /\ At(g, "exists")
  /\ \/ dashboard # NoLine /\ Goto(g, "ack")
     \/ dashboard = NoLine /\ Fail(g)
  /\ UNCHANGED readModels

-----------------------------------------------------------------------------

WriteStep ==
  \/ List \/ Cancel \/ Close \/ ConfirmSettlement \/ MarkSaleFailed \/ Relist
  \/ \E bidder \in Users, amount \in Amounts,
        at \in Window.startsAt .. row.endsAt : PlaceBid(bidder, amount, at)

HandlerStep(g) ==
  /\ \/ g = "AuctionListed" /\ (CatalogUpsertListed \/ DashboardUpsertListed)
     \/ g = "BidPlaced" /\ (CatalogApplyBid \/ ClassifyMiss \/ ClassifyByStatus)
     \/ CatalogRemove(g) \/ DashboardUpdate(g) \/ AckOrLag(g)
     \/ Ack(g) /\ UNCHANGED readModels
  /\ UNCHANGED writeModel

BusStep ==
  /\ (\E g \in Groups : StatementFails(g) \/ Crash(g)) \/ Republish
  /\ UNCHANGED <<writeModel, readModels>>

Next == WriteStep \/ (\E g \in Groups : HandlerStep(g)) \/ BusStep

Spec == Init /\ [][Next]_vars

-----------------------------------------------------------------------------
(* Properties.                                                             *)

\* The tables and the bus stay of their types.
TypeOK ==
  /\ row \in AuctionRow /\ relisted \in BOOLEAN
  /\ BusOK(Groups, {"start", "classify", "status", "dashboard", "exists", "ack"})
  /\ catalog = NoItem \/ catalog \in [price : Nat, next : Nat, bidCount : Nat,
                                      endsAt : Nat]
  /\ dashboard = NoLine
       \/ dashboard \in [status : {"listed", "cancelled", "closed"},
                         outcome : {"", "sold", "not_sold"},
                         settlement : {"", "settled", "failed", "relisted"},
                         hammer : Nat, bidCount : Nat, endsAt : Nat]

\* The BidPlaced of bid n is still to be handled, or was parked.
Outstanding(n) ==
  \/ \E i \in DOMAIN inbox["BidPlaced"] : inbox["BidPlaced"][i].bidCount = n
  \/ \E e \in deadLetter : e.type = "BidPlaced" /\ e.bidCount = n

\* ApplyBid and classifyMiss lose no bid: while an auction is listed, a
\* BidPlaced that was acked is in the catalog, or a later one is, whatever
\* AuctionListed, faults, retries and replays do in between.
NoBidLost ==
  row.status = "listed" =>
    \A n \in 1 .. row.bidCount : Outstanding(n) \/ catalog.bidCount >= n

\* The catalog is up to date: it shows the latest bid, or no bid is on its way
\* or parked, in whatever order and however often the bids were handled.
UpToDate ==
  \/ catalog.bidCount = row.bidCount
  \/ catalog # NoItem /\ \A n \in 1 .. row.bidCount : ~Outstanding(n)

\* The catalog asks for what PlaceBid accepts: once it is up to date, the item
\* of a listed auction shows the price, the minimal next bid and the deadline
\* of the aggregate, also after an old bid came back from the dead letter.
AskedPriceIsAccepted ==
  row.status = "listed" /\ UpToDate =>
    /\ catalog.next = MinimalNextBid(row)
    /\ catalog.endsAt = row.endsAt
    /\ row.bidCount > 0 => catalog.price = row.leadingBid.amount

\* Neither table goes back: as long as its row is there, the bid count, the
\* price and the deadline only grow (ApplyBid's monotonic guard, DO NOTHING
\* of UpsertListed), and a dashboard row is never deleted.
NeverRegresses ==
  [][/\ catalog # NoItem /\ catalog' # NoItem =>
          /\ catalog'.bidCount >= catalog.bidCount
          /\ catalog'.price >= catalog.price
          /\ catalog'.endsAt >= catalog.endsAt
     /\ dashboard # NoLine =>
          /\ dashboard' # NoLine
          /\ dashboard'.bidCount >= dashboard.bidCount
          /\ dashboard'.endsAt >= dashboard.endsAt]_vars

\* A sale shown as settled stays so: no late or repeated message of another
\* group replaces that verdict (ApplySettlement and MarkRelisted overwrite
\* without a guard; only the aggregate keeps their events apart).
SettledSticks ==
  [][dashboard.settlement = "settled" => dashboard'.settlement = "settled"]_vars

\* CatalogPostgresProjection: "Closed and Cancelled -> delete.  Every
\* operation is idempotent".
EndedLeavesCatalog ==
  Quiet /\ row.status \in {"cancelled", "closed"} => catalog = NoItem

\* ackOrLag: an UPDATE that hit nothing because the row is not there yet is
\* retried, so an acked BidPlaced is on the dashboard.
DashboardBidsKept ==
  \A n \in 1 .. row.bidCount : Outstanding(n) \/ dashboard.bidCount >= n

\* However late the AuctionListed group is, one of the two claims holds.  It
\* follows from either of them (catalog_pg_projection.go, "Closed and
\* Cancelled -> delete"; dashboard_pg_projection.go, "the Listed event of this
\* auction has not been projected yet -- retryable"), so that a single
\* behaviour that breaks it refutes both.
LateListingSpares == EndedLeavesCatalog \/ DashboardBidsKept
=============================================================================
