---------------------------- MODULE AuctionProofs ----------------------------
(***************************************************************************)
(* Proofs about Auction, for every set of users, ids, amounts and          *)
(* listings, and every bound.                                              *)
(***************************************************************************)
EXTENDS Auction, SequenceTheorems, TLAPS

-----------------------------------------------------------------------------
(* Lemmas: the aggregate's operations stay within AuctionRow.              *)

\* Go's zero values are values of their types.
LEMMA ZeroValues == ZeroBid \in Bid /\ NoRow \in AuctionRow
  BY DEF ZeroBid, Bid, NoRow, AuctionRow, ListingRules, Statuses

\* The amounts callers may submit are natural numbers.
LEMMA AmountsNat == MaxInt \in Nat /\ \A m \in Amounts : m \in Nat
  BY MaxIntAssumption, DomainAssumption

\* toPgAuction stores rules.
LEMMA StoredRulesType ==
  ASSUME NEW r \in ListingRules
  PROVE  StoredRules(r) \in ListingRules
<1>1. \A d \in Nat : WholeSeconds(d) \in Nat
  BY DomainAssumption DEF WholeSeconds
<1> QED
  BY <1>1 DEF StoredRules, ListingRules

\* New and RelistedFrom build rows.
LEMMA ListingType ==
  ASSUME NEW seller \in Users \cup {NoUser}, NEW sp \in Nat, NEW inc \in Nat,
         NEW res \in Nat, NEW w \in Window, NEW r \in ListingRules,
         NEW origin \in AuctionIDs \cup {NoAuctionID}, NEW gen \in Nat
  PROVE  Listing(seller, sp, inc, res, w, r, origin, gen) \in AuctionRow
<1>1. StoredRules(r) \in ListingRules
  BY StoredRulesType
<1>2. ZeroBid \in Bid
  BY ZeroValues
<1> QED
  BY <1>1, <1>2 DEF Listing, NoRow, AuctionRow, Window, Statuses

\* PlaceBid keeps the row a row.
LEMMA WithBidType ==
  ASSUME NEW a \in AuctionRow, NEW bidder \in Users, NEW amount \in Nat,
         NEW t \in Nat
  PROVE  /\ WithBid(a, bidder, amount, t) \in AuctionRow
         /\ WithBid(a, bidder, amount, t).leadingBid \in Bid
<1>1. [bidder |-> bidder, amount |-> amount, placedAt |-> t] \in Bid
  BY DEF Bid
<1>2. Extension(a, t) \in Nat
  BY DEF Extension, AuctionRow, ListingRules
<1>3. a.leadingBid \in Bid /\ a.bidCount \in Nat /\ a.extensionsUsed \in Nat
      /\ a.endsAt \in Nat
  BY DEF AuctionRow
<1>4. a.bidCount + 1 \in Nat /\ a.extensionsUsed + 1 \in Nat
      /\ a.endsAt + Extension(a, t) \in Nat
  BY <1>2, <1>3
<1> QED
  BY <1>1, <1>3, <1>4 DEF WithBid, AuctionRow

\* Cancel, Close and the saga's commands keep the row a row.
LEMMA TransitionTypes ==
  ASSUME NEW a \in AuctionRow
  PROVE  /\ Cancelled(a) \in AuctionRow
         /\ Closed(a) \in AuctionRow
         /\ Awarded(a) \in AuctionRow
         /\ Confirmed(a) \in AuctionRow
         /\ SaleFailed(a) \in AuctionRow
<1>1. ZeroBid \in Bid
  BY ZeroValues
<1>2. Cancelled(a) \in AuctionRow
  BY DEF Cancelled, AuctionRow, Statuses
<1>3. Closed(a) \in AuctionRow
  BY DEF Closed, AuctionRow, Statuses
<1>4. Awarded(a) \in AuctionRow
  BY <1>1 DEF Awarded, AuctionRow
<1>5. Confirmed(a) \in AuctionRow
  BY DEF Confirmed, AuctionRow
<1>6. SaleFailed(a) \in AuctionRow
  BY DEF SaleFailed, AuctionRow
<1> QED
  BY <1>2, <1>3, <1>4, <1>5, <1>6

-----------------------------------------------------------------------------
(* Type correctness.                                                       *)

\* What the bodies of ListAuction requests are made of.
LEMMA ListingParts ==
  ASSUME NEW l \in Listings
  PROVE  /\ l.seller \in Users /\ l.startPrice \in Nat /\ l.increment \in Nat
         /\ l.reserve \in Nat /\ l.window \in Window /\ l.rules \in ListingRules
<1>1. /\ l.seller \in Users /\ l.startPrice \in Amounts
      /\ l.increment \in Amounts /\ l.reserve \in Amounts \cup {0}
      /\ l.window \in Window /\ l.rules \in ListingRules
  BY AuctionAssumption
<1>2. l.reserve \in Nat
  BY <1>1, AmountsNat
<1> QED
  BY <1>1, <1>2, AmountsNat

\* A row written by Add or update leaves the two tables typed.
LEMMA WritesType ==
  ASSUME TypeOK, NEW id \in AuctionIDs, NEW a \in AuctionRow, NEW events,
         Insert(id, a, events) \/ Save(id, a, events)
  PROVE  auctions' \in [AuctionIDs -> AuctionRow] /\ DOMAIN published' = AuctionIDs
  BY DEF TypeOK, Insert, Save

\* Every step preserves the type invariant.
LEMMA TypeStep == TypeOK /\ [Next]_vars => TypeOK'
<1> SUFFICES ASSUME TypeOK, [Next]_vars PROVE TypeOK'
  OBVIOUS
<1>a. \A id \in AuctionIDs : auctions[id] \in AuctionRow
  BY DEF TypeOK
<1>1. ASSUME NEW id \in AuctionIDs, NEW l \in Listings, ListAuction(id, l)
      PROVE  TypeOK'
  <2> DEFINE a == New(l.seller, l.startPrice, l.increment, l.reserve, l.window,
                      l.rules)
  <2>1. a \in AuctionRow
    BY ListingParts, ListingType DEF New
  <2>2. Insert(id, a, <<AuctionListed(a)>>)
    BY <1>1 DEF ListAuction
  <2> HIDE DEF a
  <2>3. auctions' \in [AuctionIDs -> AuctionRow] /\ DOMAIN published' = AuctionIDs
    BY <2>1, <2>2, WritesType
  <2> QED
    BY <1>1, <2>3 DEF ListAuction, TypeOK
<1>2. ASSUME NEW id \in AuctionIDs, NEW b \in Users, NEW m \in Amounts,
             ReadBidder(id, b, m)
      PROVE  TypeOK'
  <2>1. \A v \in BOOLEAN : [auction |-> id, bidder |-> b, amount |-> m,
                           verified |-> v] \in BidRequest
    BY DEF BidRequest
  <2>2. (b \in verified) \in BOOLEAN
    OBVIOUS
  <2>3. [auction |-> id, bidder |-> b, amount |-> m,
         verified |-> b \in verified] \in BidRequest
    BY <2>1, <2>2, Zenon
  <2> QED
    BY <1>2, <2>3 DEF ReadBidder, TypeOK
<1>3. ASSUME NEW req \in inflight, PlaceBid(req)
      PROVE  TypeOK'
  <2> DEFINE b == WithBid(auctions[req.auction], req.bidder, req.amount, now)
  <2>1. req.auction \in AuctionIDs /\ req.bidder \in Users /\ req.amount \in Nat
    BY AmountsNat DEF TypeOK, BidRequest
  <2>2. b \in AuctionRow /\ b.leadingBid \in Bid
    BY <1>a, <2>1, WithBidType DEF TypeOK
  <2>3. /\ Save(req.auction, b,
                <<BidPlaced(b, auctions[req.auction].leadingBid, now)>>)
        /\ bids' = [bids EXCEPT ![req.auction] = Append(@, b.leadingBid)]
    BY <1>3 DEF PlaceBid
  <2> HIDE DEF b
  <2>4. auctions' \in [AuctionIDs -> AuctionRow] /\ DOMAIN published' = AuctionIDs
    BY <2>1, <2>2, <2>3, WritesType
  <2>5. bids' \in [AuctionIDs -> Seq(Bid)]
    BY <2>1, <2>2, <2>3 DEF TypeOK
  <2> QED
    BY <1>3, <2>4, <2>5 DEF PlaceBid, TypeOK
<1>4. ASSUME NEW req \in inflight, RejectBid(req)
      PROVE  TypeOK'
  BY <1>4 DEF RejectBid, TypeOK
<1>5. ASSUME NEW id \in AuctionIDs, NEW by \in Users, CancelAuction(id, by)
      PROVE  TypeOK'
  <2>1. Cancelled(auctions[id]) \in AuctionRow
    BY <1>a, TransitionTypes
  <2>2. auctions' \in [AuctionIDs -> AuctionRow] /\ DOMAIN published' = AuctionIDs
    BY <1>5, <2>1, WritesType DEF CancelAuction
  <2> QED
    BY <1>5, <2>2 DEF CancelAuction, TypeOK
<1>6. ASSUME NEW b \in Users, MarkVerified(b)
      PROVE  TypeOK'
  BY <1>6 DEF MarkVerified, TypeOK
<1>7. ASSUME NEW r \in Replicas, ScanDue(r)
      PROVE  TypeOK'
  BY <1>7 DEF ScanDue, TypeOK
<1>8. ASSUME NEW r \in Replicas, NEW id \in AuctionIDs, CloseAuction(r, id)
      PROVE  TypeOK'
  <2>1. Closed(auctions[id]) \in AuctionRow
    BY <1>a, TransitionTypes
  <2>2. auctions' \in [AuctionIDs -> AuctionRow] /\ DOMAIN published' = AuctionIDs
    BY <1>8, <2>1, WritesType DEF CloseAuction
  <2> QED
    BY <1>8, <2>2 DEF CloseAuction, TypeOK
<1>9. ASSUME NEW r \in Replicas, NEW id \in AuctionIDs, SkipCandidate(r, id)
      PROVE  TypeOK'
  BY <1>9 DEF SkipCandidate, TypeOK
<1>10. ASSUME NEW r \in Replicas, WorkerRestart(r)
       PROVE  TypeOK'
  BY <1>10 DEF WorkerRestart, TypeOK
<1>11. ASSUME NEW id \in AuctionIDs, AwardToRunnerUp(id)
       PROVE  TypeOK'
  <2>1. Awarded(auctions[id]) \in AuctionRow
    BY <1>a, TransitionTypes
  <2>2. auctions' \in [AuctionIDs -> AuctionRow] /\ DOMAIN published' = AuctionIDs
    BY <1>11, <2>1, WritesType DEF AwardToRunnerUp
  <2> QED
    BY <1>11, <2>2 DEF AwardToRunnerUp, TypeOK
<1>12. ASSUME NEW id \in AuctionIDs, ConfirmSettlement(id)
       PROVE  TypeOK'
  <2>1. Confirmed(auctions[id]) \in AuctionRow
    BY <1>a, TransitionTypes
  <2>2. auctions' \in [AuctionIDs -> AuctionRow] /\ DOMAIN published' = AuctionIDs
    BY <1>12, <2>1, WritesType DEF ConfirmSettlement
  <2> QED
    BY <1>12, <2>2 DEF ConfirmSettlement, TypeOK
<1>13. ASSUME NEW id \in AuctionIDs, MarkSaleFailed(id)
       PROVE  TypeOK'
  <2>1. SaleFailed(auctions[id]) \in AuctionRow
    BY <1>a, TransitionTypes
  <2>2. auctions' \in [AuctionIDs -> AuctionRow] /\ DOMAIN published' = AuctionIDs
    BY <1>13, <2>1, WritesType DEF MarkSaleFailed
  <2> QED
    BY <1>13, <2>2 DEF MarkSaleFailed, TypeOK
<1>14. ASSUME NEW id \in AuctionIDs, NEW newID \in AuctionIDs,
              NEW w \in RelistWindows, RelistAuction(id, newID, w)
       PROVE  TypeOK'
  <2> DEFINE o == auctions[id]
             a == RelistedFrom(o, id, w)
  <2>1. /\ o.seller \in Users \cup {NoUser} /\ o.startPrice \in Nat
        /\ o.increment \in Nat /\ o.reserve \in Nat /\ o.rules \in ListingRules
        /\ o.relistGen \in Nat
    BY <1>a DEF AuctionRow
  <2> HIDE DEF o
  <2>2. w \in Window /\ o.relistGen + 1 \in Nat
    BY <2>1, AuctionAssumption
  <2>3. a \in AuctionRow
    BY <2>1, <2>2, ListingType DEF RelistedFrom
  <2>4. Insert(newID, a, <<AuctionListed(a), AuctionRelisted(a)>>)
    BY <1>14 DEF RelistAuction, o
  <2> HIDE DEF a
  <2>5. auctions' \in [AuctionIDs -> AuctionRow] /\ DOMAIN published' = AuctionIDs
    BY <2>3, <2>4, WritesType
  <2> QED
    BY <1>14, <2>5 DEF RelistAuction, TypeOK
<1>15. CASE Tick
  BY <1>15 DEF Tick, TypeOK
<1>16. CASE UNCHANGED vars
  BY <1>16 DEF vars, TypeOK
<1> QED
  BY <1>1, <1>2, <1>3, <1>4, <1>5, <1>6, <1>7, <1>8, <1>9, <1>10, <1>11,
     <1>12, <1>13, <1>14, <1>15, <1>16
     DEF Next, UserStep, WorkerStep, FacadeStep

\* Tables, requests in flight, worker batches and the clock stay of their
\* types: rows of auction.auctions are aggregates the code can rebuild.
THEOREM TypeCorrect == Spec => []TypeOK
<1>1. Init => TypeOK
  BY ZeroValues, AuctionAssumption DEF Init, TypeOK
<1> QED
  BY <1>1, TypeStep, PTL DEF Spec

-----------------------------------------------------------------------------
(* What one step may do to one row and its history.                        *)

\* A row just inserted by Add.
Fresh(b) ==
  /\ b.status = "listed" /\ b.bidCount = 0 /\ b.extensionsUsed = 0
  /\ b.leadingBid = ZeroBid /\ b.runnerUpBid = ZeroBid
  /\ b.winnerReassigned = FALSE /\ b.endsAt = b.originalEndsAt
  /\ \/ b.increment \in Amounts
     \/ \E o \in AuctionIDs : /\ auctions[o].status # "absent"
                              /\ b.increment = auctions[o].increment

\* What Cancel, Close and the saga's commands leave alone.
Kept(a, b) ==
  /\ b.seller = a.seller /\ b.startPrice = a.startPrice
  /\ b.increment = a.increment /\ b.startsAt = a.startsAt
  /\ b.endsAt = a.endsAt /\ b.originalEndsAt = a.originalEndsAt
  /\ b.rules = a.rules /\ b.extensionsUsed = a.extensionsUsed
  /\ b.bidCount = a.bidCount

SameHead(a, b) ==
  /\ b.leadingBid = a.leadingBid /\ b.runnerUpBid = a.runnerUpBid
  /\ b.winnerReassigned = a.winnerReassigned

Lists(a, b) == a.status = "absent" /\ Fresh(b)

Bids(id, a, b) ==
  \E req \in inflight :
    /\ req.auction = id
    /\ CanPlaceBid(a, req.bidder, req.verified, req.amount, now)
    /\ b = WithBid(a, req.bidder, req.amount, now)

Ends(a, b) ==
  /\ Kept(a, b) /\ SameHead(a, b)
  /\ \/ a.status = "listed" /\ b.status = "cancelled"
     \/ CanClose(a, now) /\ b.status = "closed"
     \/ a.status = "closed" /\ b.status = "closed"

Awards(a, b) == CanAward(a) /\ b = Awarded(a)

RowStep(id, a, b) ==
  \/ b = a /\ bids'[id] = bids[id]
  \/ Lists(a, b) /\ bids'[id] = bids[id]
  \/ Bids(id, a, b) /\ bids'[id] = Append(bids[id], b.leadingBid)
  \/ Ends(a, b) /\ bids'[id] = bids[id]
  \/ Awards(a, b) /\ bids'[id] = bids[id]

\* Listing and RelistedFrom make fresh rows.
LEMMA ListingFresh ==
  ASSUME NEW seller, NEW sp, NEW inc, NEW res, NEW w, NEW r, NEW origin,
         NEW gen,
         \/ inc \in Amounts
         \/ \E o \in AuctionIDs : /\ auctions[o].status # "absent"
                                  /\ inc = auctions[o].increment
  PROVE  Fresh(Listing(seller, sp, inc, res, w, r, origin, gen))
  BY DEF Fresh, Listing, NoRow

\* The commands that end or settle an auction keep terms and head.
LEMMA EndsKeep ==
  ASSUME NEW a \in AuctionRow
  PROVE  /\ CanClose(a, now) => Ends(a, Closed(a))
         /\ a.status = "listed" => Ends(a, Cancelled(a))
         /\ CanConfirm(a) => Ends(a, Confirmed(a))
         /\ CanFailSale(a) => Ends(a, SaleFailed(a))
<1>1. CanClose(a, now) => Ends(a, Closed(a))
  BY DEF Ends, Kept, SameHead, Closed, AuctionRow
<1>2. a.status = "listed" => Ends(a, Cancelled(a))
  BY DEF Ends, Kept, SameHead, Cancelled, AuctionRow
<1>3. CanConfirm(a) => Ends(a, Confirmed(a))
  BY DEF Ends, Kept, SameHead, Confirmed, CanConfirm, AuctionRow
<1>4. CanFailSale(a) => Ends(a, SaleFailed(a))
  BY DEF Ends, Kept, SameHead, SaleFailed, CanFailSale, AuctionRow
<1> QED
  BY <1>1, <1>2, <1>3, <1>4

\* A step changes each row in one of five ways; time and verification only
\* advance; and a new request carries an honest profile.
StepFacts ==
  /\ \A id \in AuctionIDs : RowStep(id, auctions[id], auctions'[id])
  /\ now <= now' /\ verified \subseteq verified'
  /\ \A req \in inflight' :
       req \in inflight \/ (req.verified => req.bidder \in verified)

\* Inserting a fresh row under a free id is a RowStep for every id.
LEMMA InsertRows ==
  ASSUME TypeOK, NEW x \in AuctionIDs, NEW b, NEW events,
         Insert(x, b, events), Fresh(b), bids' = bids
  PROVE  \A id \in AuctionIDs : RowStep(id, auctions[id], auctions'[id])
<1>1. Lists(auctions[x], b) /\ auctions' = [auctions EXCEPT ![x] = b]
  BY DEF Insert, Inserts, Lists
<1> QED
  BY <1>1 DEF RowStep, TypeOK

\* Saving a row that ended or was awarded is a RowStep for every id.
LEMMA SaveRows ==
  ASSUME TypeOK, NEW x \in AuctionIDs, NEW b, NEW events,
         Save(x, b, events), Ends(auctions[x], b) \/ Awards(auctions[x], b),
         bids' = bids
  PROVE  \A id \in AuctionIDs : RowStep(id, auctions[id], auctions'[id])
<1>1. auctions' = [auctions EXCEPT ![x] = b]
  BY DEF Save
<1> QED
  BY <1>1 DEF RowStep, TypeOK

\* Every step of the specification is covered by the five cases.
LEMMA StepCases ==
  ASSUME TypeOK, [Next]_vars
  PROVE  StepFacts
<1> DEFINE Rows == \A id \in AuctionIDs : RowStep(id, auctions[id], auctions'[id])
<1>a. \A id \in AuctionIDs : auctions[id] \in AuctionRow
  BY DEF TypeOK
<1>b. ASSUME Rows, UNCHANGED <<verified, inflight, now>>
      PROVE  StepFacts
  BY <1>b DEF StepFacts, TypeOK
<1>c. ASSUME UNCHANGED <<auctions, bids>>
      PROVE  Rows
  BY <1>c DEF RowStep
<1>1. ASSUME NEW x \in AuctionIDs, NEW l \in Listings, ListAuction(x, l)
      PROVE  StepFacts
  <2> DEFINE a == New(l.seller, l.startPrice, l.increment, l.reserve, l.window,
                      l.rules)
  <2>1. l.increment \in Amounts
    BY AuctionAssumption
  <2>2. Fresh(a)
    BY <2>1, ListingFresh DEF New
  <2>3. Insert(x, a, <<AuctionListed(a)>>) /\ bids' = bids
    BY <1>1 DEF ListAuction
  <2> HIDE DEF a
  <2>4. Rows
    BY <2>2, <2>3, InsertRows
  <2> QED
    BY <1>1, <1>b, <2>4 DEF ListAuction
<1>2. ASSUME NEW x \in AuctionIDs, NEW b \in Users, NEW m \in Amounts,
             ReadBidder(x, b, m)
      PROVE  StepFacts
  <2> DEFINE new == [auction |-> x, bidder |-> b, amount |-> m,
                     verified |-> b \in verified]
  <2>1. Rows
    BY <1>2, <1>c DEF ReadBidder
  <2>2. new.verified => new.bidder \in verified
    BY Zenon
  <2>3. inflight' = inflight \cup {new}
    BY <1>2 DEF ReadBidder
  <2> HIDE DEF new
  <2>4. \A req \in inflight' :
          req \in inflight \/ (req.verified => req.bidder \in verified)
    BY <2>2, <2>3
  <2> QED
    BY <1>2, <2>1, <2>4 DEF ReadBidder, StepFacts, TypeOK
<1>3. ASSUME NEW req \in inflight, PlaceBid(req)
      PROVE  StepFacts
  <2> DEFINE x == req.auction
             b == WithBid(auctions[x], req.bidder, req.amount, now)
  <2>1. x \in AuctionIDs
    BY DEF TypeOK, BidRequest
  <2>2. Bids(x, auctions[x], b)
    BY <1>3 DEF PlaceBid, Bids
  <2>3. /\ auctions' = [auctions EXCEPT ![x] = b]
        /\ bids' = [bids EXCEPT ![x] = Append(@, b.leadingBid)]
    BY <1>3 DEF PlaceBid, Save
  <2> HIDE DEF b, x
  <2>4. Rows
    BY <2>1, <2>2, <2>3 DEF RowStep, TypeOK
  <2> QED
    BY <1>3, <2>4 DEF PlaceBid, StepFacts, TypeOK
<1>4. ASSUME NEW req \in inflight, RejectBid(req)
      PROVE  StepFacts
  BY <1>4, <1>c DEF RejectBid, StepFacts, TypeOK
<1>5. ASSUME NEW x \in AuctionIDs, NEW by \in Users, CancelAuction(x, by)
      PROVE  StepFacts
  <2>1. Ends(auctions[x], Cancelled(auctions[x]))
    BY <1>a, <1>5, EndsKeep DEF CancelAuction, CanCancel
  <2>2. Rows
    BY <1>5, <2>1, SaveRows DEF CancelAuction
  <2> QED
    BY <1>5, <1>b, <2>2 DEF CancelAuction
<1>6. ASSUME NEW b \in Users, MarkVerified(b)
      PROVE  StepFacts
  BY <1>6, <1>c DEF MarkVerified, StepFacts, TypeOK
<1>7. ASSUME NEW r \in Replicas, ScanDue(r) \/ WorkerRestart(r)
      PROVE  StepFacts
  BY <1>7, <1>b, <1>c DEF ScanDue, WorkerRestart
<1>8. ASSUME NEW r \in Replicas, NEW x \in AuctionIDs, CloseAuction(r, x)
      PROVE  StepFacts
  <2>1. Ends(auctions[x], Closed(auctions[x]))
    BY <1>a, <1>8, EndsKeep DEF CloseAuction
  <2>2. Rows
    BY <1>8, <2>1, SaveRows DEF CloseAuction
  <2> QED
    BY <1>8, <1>b, <2>2 DEF CloseAuction
<1>9. ASSUME NEW r \in Replicas, NEW x \in AuctionIDs, SkipCandidate(r, x)
      PROVE  StepFacts
  BY <1>9, <1>b, <1>c DEF SkipCandidate
<1>10. ASSUME NEW x \in AuctionIDs, AwardToRunnerUp(x)
       PROVE  StepFacts
  <2>1. Awards(auctions[x], Awarded(auctions[x]))
    BY <1>10 DEF AwardToRunnerUp, Awards
  <2>2. Rows
    BY <1>10, <2>1, SaveRows DEF AwardToRunnerUp
  <2> QED
    BY <1>10, <1>b, <2>2 DEF AwardToRunnerUp
<1>11. ASSUME NEW x \in AuctionIDs, ConfirmSettlement(x)
       PROVE  StepFacts
  <2>1. Ends(auctions[x], Confirmed(auctions[x]))
    BY <1>a, <1>11, EndsKeep DEF ConfirmSettlement
  <2>2. Rows
    BY <1>11, <2>1, SaveRows DEF ConfirmSettlement
  <2> QED
    BY <1>11, <1>b, <2>2 DEF ConfirmSettlement
<1>12. ASSUME NEW x \in AuctionIDs, MarkSaleFailed(x)
       PROVE  StepFacts
  <2>1. Ends(auctions[x], SaleFailed(auctions[x]))
    BY <1>a, <1>12, EndsKeep DEF MarkSaleFailed
  <2>2. Rows
    BY <1>12, <2>1, SaveRows DEF MarkSaleFailed
  <2> QED
    BY <1>12, <1>b, <2>2 DEF MarkSaleFailed
<1>13. ASSUME NEW x \in AuctionIDs, NEW newID \in AuctionIDs,
              NEW w \in RelistWindows, RelistAuction(x, newID, w)
       PROVE  StepFacts
  <2> DEFINE a == RelistedFrom(auctions[x], x, w)
  <2>1. auctions[x].status # "absent"
    BY <1>13 DEF RelistAuction
  <2>2. Fresh(a)
    BY <2>1, ListingFresh DEF RelistedFrom
  <2>3. Insert(newID, a, <<AuctionListed(a), AuctionRelisted(a)>>)
        /\ bids' = bids
    BY <1>13 DEF RelistAuction
  <2> HIDE DEF a
  <2>4. Rows
    BY <2>2, <2>3, InsertRows
  <2> QED
    BY <1>13, <1>b, <2>4 DEF RelistAuction
<1>14. CASE Tick
  BY <1>14, <1>c DEF Tick, StepFacts, TypeOK
<1>15. CASE UNCHANGED vars
  BY <1>15, <1>b, <1>c DEF vars
<1> QED
  BY <1>1, <1>2, <1>3, <1>4, <1>5, <1>6, <1>7, <1>8, <1>9, <1>10, <1>11,
     <1>12, <1>13, <1>14, <1>15
     DEF Next, UserStep, WorkerStep, FacadeStep

-----------------------------------------------------------------------------
(* The inductive invariant.                                                *)

\* An id without a row has no bids, and only a closed auction was awarded.
Wellformed(a) ==
  /\ a.status = "absent" => a.bidCount = 0
  /\ a.winnerReassigned => a.status = "closed"

\* A verified profile in a handler's hands was verified when it was read,
\* and verification is never taken back.
HonestProfiles == \A req \in inflight : req.verified => req.bidder \in verified

\* The head of the aggregate and the history cannot be proved one without
\* the other: the guards of PlaceBid read the head, the properties are about
\* the history.
IInv ==
  /\ TypeOK
  /\ HonestProfiles
  /\ \A id \in AuctionIDs : Wellformed(auctions[id])
  /\ HeadMatchesHistory
  /\ BidsBeforeHammer
  /\ DeadlineAccounted
  /\ HighBidsVerified

\* The flags of a row are Booleans.
LEMMA RowFlags ==
  ASSUME NEW a \in AuctionRow
  PROVE  a.winnerReassigned \in BOOLEAN
  BY Zenon DEF AuctionRow

\* What Append does to a history.
LEMMA AppendFacts ==
  ASSUME NEW s \in Seq(Bid), NEW e \in Bid
  PROVE  /\ Append(s, e) \in Seq(Bid)
         /\ Len(Append(s, e)) = Len(s) + 1
         /\ \A i \in 1 .. Len(s) : Append(s, e)[i] = s[i]
         /\ Append(s, e)[Len(s) + 1] = e
  OBVIOUS

\* AwardToRunnerUp keeps terms, deadline and count.
LEMMA AwardedKeeps ==
  ASSUME NEW a \in AuctionRow
  PROVE  Kept(a, Awarded(a))
  BY DEF Kept, Awarded, AuctionRow

\* What the row says after PlaceBid accepted req.
BidRecorded(a, b, req) ==
  /\ b.seller = a.seller /\ b.startPrice = a.startPrice
  /\ b.increment = a.increment /\ b.startsAt = a.startsAt
  /\ b.originalEndsAt = a.originalEndsAt /\ b.rules = a.rules
  /\ b.status = a.status
  /\ b.winnerReassigned = a.winnerReassigned
  /\ b.runnerUpBid = a.leadingBid
  /\ b.leadingBid = [bidder |-> req.bidder, amount |-> req.amount,
                     placedAt |-> now]
  /\ b.bidCount = a.bidCount + 1
  /\ b.endsAt = a.endsAt + Extension(a, now)
  /\ b.extensionsUsed = IF Extends(a, now) THEN a.extensionsUsed + 1
                                           ELSE a.extensionsUsed

\* PlaceBid records the bid.
LEMMA WithBidRecords ==
  ASSUME NEW a \in AuctionRow, NEW req
  PROVE  BidRecorded(a, WithBid(a, req.bidder, req.amount, now), req)
  BY DEF BidRecorded, WithBid, AuctionRow

\* An accepted bid, seen from the row and the history of its auction.
LEMMA BidStep ==
  ASSUME TypeOK, NEW id \in AuctionIDs,
         Bids(id, auctions[id], auctions'[id]),
         bids'[id] = Append(bids[id], auctions'[id].leadingBid)
  PROVE  \E req \in inflight :
           LET a == auctions[id]
               b == auctions'[id]
               s == bids[id]
               t == bids'[id]
           IN  /\ req.bidder \in Users /\ req.amount \in Amounts
               /\ CanPlaceBid(a, req.bidder, req.verified, req.amount, now)
               /\ BidRecorded(a, b, req)
               /\ Len(t) = Len(s) + 1
               /\ \A i \in 1 .. Len(s) : t[i] = s[i]
               /\ t[Len(s) + 1] = b.leadingBid
<1>1. PICK req \in inflight :
         /\ CanPlaceBid(auctions[id], req.bidder, req.verified, req.amount, now)
         /\ auctions'[id] = WithBid(auctions[id], req.bidder, req.amount, now)
  BY DEF Bids
<1>2. req.bidder \in Users /\ req.amount \in Amounts
  BY DEF TypeOK, BidRequest
<1>3. req.amount \in Nat /\ now \in Nat /\ auctions[id] \in AuctionRow
      /\ bids[id] \in Seq(Bid)
  BY <1>2, AmountsNat DEF TypeOK
<1>4. BidRecorded(auctions[id], auctions'[id], req)
  BY <1>1, <1>3, WithBidRecords
<1>5. auctions'[id].leadingBid \in Bid
  BY <1>1, <1>2, <1>3, WithBidType
<1>6. /\ Len(bids'[id]) = Len(bids[id]) + 1
      /\ \A i \in 1 .. Len(bids[id]) : bids'[id][i] = bids[id][i]
      /\ bids'[id][Len(bids[id]) + 1] = auctions'[id].leadingBid
  BY <1>3, <1>5, AppendFacts
<1> QED
  BY <1>1, <1>2, <1>4, <1>6

\* The head follows the history through every step.
LEMMA HeadStep ==
  ASSUME TypeOK, TypeOK', StepFacts, NEW id \in AuctionIDs,
         Wellformed(auctions[id]), HeadMatches(auctions[id], bids[id])
  PROVE  (Wellformed(auctions[id]) /\ HeadMatches(auctions[id], bids[id]))'
<1> DEFINE a == auctions[id]
           b == auctions'[id]
           s == bids[id]
           t == bids'[id]
<1> SUFFICES Wellformed(b) /\ HeadMatches(b, t)
  BY DEF Wellformed, HeadMatches, BidAt
<1>1. /\ a \in AuctionRow /\ b \in AuctionRow
      /\ s \in Seq(Bid) /\ t \in Seq(Bid) /\ now \in Nat
  BY DEF TypeOK
<1>2. RowStep(id, a, b)
  BY DEF StepFacts
<1>3. a.winnerReassigned \in BOOLEAN /\ b.winnerReassigned \in BOOLEAN
  BY <1>1, RowFlags
<1>0. Len(s) \in Nat
  BY <1>1
<1>4. CASE Lists(a, b) /\ t = s
  BY <1>0, <1>3, <1>4 DEF Lists, Fresh, Wellformed, HeadMatches, BidAt
<1>5. CASE Bids(id, a, b) /\ t = Append(s, b.leadingBid)
  <2>1. PICK req \in inflight :
          /\ req.bidder \in Users /\ req.amount \in Amounts
          /\ CanPlaceBid(a, req.bidder, req.verified, req.amount, now)
          /\ BidRecorded(a, b, req)
          /\ Len(t) = Len(s) + 1
          /\ \A i \in 1 .. Len(s) : t[i] = s[i]
          /\ t[Len(s) + 1] = b.leadingBid
    BY <1>5, BidStep
  <2>2. a.status = "listed"
    BY <2>1 DEF CanPlaceBid, IsOpenAt
  <2>3. ~a.winnerReassigned
    BY <2>2 DEF Wellformed
  <2>4. /\ b.status = a.status /\ b.winnerReassigned = a.winnerReassigned
        /\ b.runnerUpBid = a.leadingBid /\ b.bidCount = a.bidCount + 1
    BY <2>1 DEF BidRecorded
  <2>5. a.bidCount = Len(s) /\ a.leadingBid = BidAt(s, Len(s))
    BY <2>3 DEF HeadMatches
  <2>6. BidAt(t, Len(t)) = b.leadingBid
    BY <1>0, <2>1 DEF BidAt
  <2>7. BidAt(t, Len(t) - 1) = BidAt(s, Len(s))
    BY <1>0, <2>1 DEF BidAt
  <2>8. Wellformed(b)
    BY <2>2, <2>3, <2>4 DEF Wellformed
  <2>9. HeadMatches(b, t)
    BY <2>1, <2>3, <2>4, <2>5, <2>6, <2>7 DEF HeadMatches
  <2> QED
    BY <2>8, <2>9
<1>6. CASE Ends(a, b) /\ t = s
  BY <1>3, <1>6 DEF Ends, Kept, SameHead, CanClose, Wellformed, HeadMatches
<1>7. CASE Awards(a, b) /\ t = s
  <2>1. /\ b.leadingBid = a.runnerUpBid /\ b.runnerUpBid = ZeroBid
        /\ b.winnerReassigned = TRUE /\ b.status = "closed"
        /\ b.bidCount = a.bidCount
    BY <1>1, <1>7 DEF Awards, Awarded, CanAward, AuctionRow
  <2>2. a.runnerUpBid # ZeroBid /\ ~a.winnerReassigned
    BY <1>7 DEF Awards, CanAward
  <2>3. Len(s) >= 2
    BY <1>0, <2>2 DEF HeadMatches, BidAt
  <2> QED
    BY <1>0, <1>3, <1>7, <2>1, <2>2, <2>3 DEF Wellformed, HeadMatches
<1>8. CASE b = a /\ t = s
  BY <1>8
<1> QED
  BY <1>2, <1>4, <1>5, <1>6, <1>7, <1>8 DEF RowStep

\* Only accepted bids move the deadline, one extension each.
LEMMA DeadlineStep ==
  ASSUME TypeOK, TypeOK', StepFacts, NEW id \in AuctionIDs,
         Accounted(auctions[id])
  PROVE  Accounted(auctions[id])'
<1> DEFINE a == auctions[id]
           b == auctions'[id]
<1> SUFFICES Accounted(b)
  BY DEF Accounted
<1>1. /\ a \in AuctionRow /\ b \in AuctionRow /\ now \in Nat
  BY DEF TypeOK
<1>2. RowStep(id, a, b)
  BY DEF StepFacts
<1>3. /\ a.endsAt \in Nat /\ a.originalEndsAt \in Nat /\ a.extensionsUsed \in Nat
      /\ a.bidCount \in Nat /\ a.rules.extension \in Nat
      /\ a.rules.maxExtensions \in Nat
      /\ b.originalEndsAt \in Nat /\ b.rules.extension \in Nat
      /\ b.rules.maxExtensions \in Nat
  BY <1>1 DEF AuctionRow, ListingRules
<1>4. CASE Lists(a, b)
  BY <1>3, <1>4 DEF Lists, Fresh, Accounted
<1>5. CASE Bids(id, a, b) /\ bids'[id] = Append(bids[id], b.leadingBid)
  <2>1. PICK req \in inflight : BidRecorded(a, b, req)
    BY <1>5, BidStep
  <2>2. /\ b.originalEndsAt = a.originalEndsAt /\ b.rules = a.rules
        /\ b.bidCount = a.bidCount + 1
        /\ b.endsAt = a.endsAt + Extension(a, now)
        /\ b.extensionsUsed = IF Extends(a, now) THEN a.extensionsUsed + 1
                                                 ELSE a.extensionsUsed
    BY <2>1 DEF BidRecorded
  <2>3. /\ Extends(a, now) => a.extensionsUsed < a.rules.maxExtensions
        /\ Extension(a, now) = IF Extends(a, now) THEN a.rules.extension ELSE 0
    BY DEF Extends, Extension
  <2>4. \A x, y \in Nat : (x + 1) * y = x * y + y
    OBVIOUS
  <2>5. \A x, y \in Nat : x * y \in Nat
    OBVIOUS
  <2>6. CASE Extends(a, now)
    <3> DEFINE p == a.extensionsUsed * a.rules.extension
    <3>1. (a.extensionsUsed + 1) * a.rules.extension = p + a.rules.extension
          /\ p \in Nat
      BY <1>3, <2>4, <2>5
    <3>2. a.endsAt = a.originalEndsAt + p
      BY DEF Accounted
    <3> HIDE DEF p
    <3>3. b.endsAt = b.originalEndsAt + b.extensionsUsed * b.rules.extension
      BY <1>3, <2>2, <2>3, <2>6, <3>1, <3>2
    <3> QED
      BY <1>3, <2>2, <2>3, <2>6, <3>3 DEF Accounted
  <2>7. CASE ~Extends(a, now)
    BY <1>3, <2>2, <2>3, <2>7 DEF Accounted
  <2> QED
    BY <2>6, <2>7
<1>6. CASE Ends(a, b)
  BY <1>6 DEF Ends, Kept, Accounted
<1>7. CASE Awards(a, b)
  BY <1>1, <1>7, AwardedKeeps DEF Awards, Kept, Accounted
<1>8. CASE b = a
  BY <1>8
<1> QED
  BY <1>2, <1>4, <1>5, <1>6, <1>7, <1>8 DEF RowStep

\* An accepted bid is in time, and time passes.
LEMMA InTimeStep ==
  ASSUME TypeOK, TypeOK', StepFacts, NEW id \in AuctionIDs,
         Wellformed(auctions[id]), HeadMatches(auctions[id], bids[id]),
         InTime(auctions[id], bids[id])
  PROVE  InTime(auctions[id], bids[id])'
<1> DEFINE a == auctions[id]
           b == auctions'[id]
           s == bids[id]
           t == bids'[id]
<1>1. /\ a \in AuctionRow /\ b \in AuctionRow
      /\ s \in Seq(Bid) /\ t \in Seq(Bid)
      /\ now \in Nat /\ now' \in Nat /\ now <= now'
  BY DEF TypeOK, StepFacts
<1>2. RowStep(id, a, b)
  BY DEF StepFacts
<1>3. /\ a.startsAt \in Nat /\ a.endsAt \in Nat
      /\ \A i \in 1 .. Len(s) : s[i].placedAt \in Nat
      /\ Len(s) \in Nat
  <2>1. a.startsAt \in Nat /\ a.endsAt \in Nat
    BY <1>1 DEF AuctionRow
  <2>2. Len(s) \in Nat /\ \A i \in 1 .. Len(s) : s[i] \in Bid
    BY <1>1
  <2>3. \A e \in Bid : e.placedAt \in Nat
    BY DEF Bid
  <2> QED
    BY <2>1, <2>2, <2>3
<1>a. /\ \A i \in 1 .. Len(s) :
           /\ a.startsAt <= s[i].placedAt /\ s[i].placedAt < a.endsAt
           /\ s[i].placedAt <= now
           /\ i > 1 => s[i - 1].placedAt <= s[i].placedAt
      /\ a.status = "closed" => a.endsAt <= now
  BY DEF InTime
<1>b. ASSUME t = s, b.startsAt = a.startsAt, b.endsAt = a.endsAt,
             b.status = "closed" => a.endsAt <= now
      PROVE  InTime(auctions[id], bids[id])'
  <2>1. \A i \in 1 .. Len(s) : s[i].placedAt <= now'
    BY <1>1, <1>3, <1>a
  <2>2. b.status = "closed" => b.endsAt <= now'
    BY <1>1, <1>3, <1>b
  <2> QED
    BY <1>a, <1>b, <2>1, <2>2 DEF InTime
<1>4. CASE Lists(a, b) /\ t = s
  <2>1. Len(t) = 0 /\ b.status = "listed"
    BY <1>4 DEF Lists, Fresh, Wellformed, HeadMatches
  <2> QED
    BY <2>1 DEF InTime
<1>5. CASE Bids(id, a, b) /\ t = Append(s, b.leadingBid)
  <2>1. PICK req \in inflight :
          /\ CanPlaceBid(a, req.bidder, req.verified, req.amount, now)
          /\ BidRecorded(a, b, req)
          /\ Len(t) = Len(s) + 1
          /\ \A i \in 1 .. Len(s) : t[i] = s[i]
          /\ t[Len(s) + 1] = b.leadingBid
    BY <1>5, BidStep
  <2>2. a.status = "listed" /\ a.startsAt <= now /\ now < a.endsAt
    BY <2>1 DEF CanPlaceBid, IsOpenAt
  <2>3. /\ b.status = a.status /\ b.startsAt = a.startsAt
        /\ b.leadingBid.placedAt = now
        /\ b.endsAt = a.endsAt + Extension(a, now)
    BY <2>1 DEF BidRecorded
  <2>4. Extension(a, now) \in Nat
    BY <1>1 DEF Extension, AuctionRow, ListingRules
  <2>5. b.endsAt \in Nat /\ a.endsAt <= b.endsAt
    BY <1>3, <2>3, <2>4
  <2>6. ASSUME NEW i \in 1 .. Len(t)
        PROVE  /\ b.startsAt <= t[i].placedAt /\ t[i].placedAt < b.endsAt
               /\ t[i].placedAt <= now'
               /\ i > 1 => t[i - 1].placedAt <= t[i].placedAt
    <3>1. CASE i \in 1 .. Len(s)
      <4>1. t[i] = s[i] /\ (i > 1 => t[i - 1] = s[i - 1])
        BY <1>3, <2>1, <3>1
      <4> QED
        BY <1>1, <1>3, <1>a, <2>3, <2>5, <3>1, <4>1
    <3>2. CASE i = Len(s) + 1
      <4>1. t[i].placedAt = now
        BY <2>1, <2>3, <3>2
      <4>2. i > 1 => t[i - 1] = s[Len(s)] /\ Len(s) \in 1 .. Len(s)
        BY <1>3, <2>1, <3>2
      <4> QED
        BY <1>1, <1>3, <1>a, <2>2, <2>3, <2>5, <4>1, <4>2
    <3> QED
      BY <1>3, <2>1, <3>1, <3>2
  <2> QED
    BY <2>2, <2>3, <2>6 DEF InTime
<1>6. CASE Ends(a, b) /\ t = s
  <2>1. b.status = "closed" => a.endsAt <= now
    BY <1>1, <1>3, <1>a, <1>6 DEF Ends, CanClose
  <2> QED
    BY <1>6, <1>b, <2>1 DEF Ends, Kept
<1>7. CASE Awards(a, b) /\ t = s
  <2>1. Kept(a, b) /\ a.status = "closed"
    BY <1>1, <1>7, AwardedKeeps DEF Awards, CanAward
  <2> QED
    BY <1>7, <1>a, <1>b, <2>1 DEF Kept
<1>8. CASE b = a /\ t = s
  BY <1>8, <1>a, <1>b
<1> QED
  BY <1>2, <1>4, <1>5, <1>6, <1>7, <1>8 DEF RowStep

\* The profile read before the lock is still good under it.
LEMMA ClearedStep ==
  ASSUME TypeOK, TypeOK', StepFacts, HonestProfiles, NEW id \in AuctionIDs,
         Wellformed(auctions[id]), HeadMatches(auctions[id], bids[id]),
         Cleared(auctions[id], bids[id])
  PROVE  Cleared(auctions[id], bids[id])'
<1> DEFINE a == auctions[id]
           b == auctions'[id]
           s == bids[id]
           t == bids'[id]
<1>1. /\ a \in AuctionRow /\ s \in Seq(Bid)
      /\ \A u \in verified : u \in verified'
  BY DEF TypeOK, StepFacts
<1>2. RowStep(id, a, b)
  BY DEF StepFacts
<1>a. \A i \in 1 .. Len(s) :
        s[i].amount >= a.rules.verifyAbove => s[i].bidder \in verified
  BY DEF Cleared
<1>b. ASSUME t = s, b.rules = a.rules
      PROVE  Cleared(auctions[id], bids[id])'
  BY <1>1, <1>a, <1>b DEF Cleared
<1>4. CASE Lists(a, b) /\ t = s
  <2>1. Len(t) = 0
    BY <1>4 DEF Lists, Wellformed, HeadMatches
  <2> QED
    BY <2>1 DEF Cleared
<1>5. CASE Bids(id, a, b) /\ t = Append(s, b.leadingBid)
  <2>1. PICK req \in inflight :
          /\ req.bidder \in Users /\ req.amount \in Amounts
          /\ CanPlaceBid(a, req.bidder, req.verified, req.amount, now)
          /\ BidRecorded(a, b, req)
          /\ Len(t) = Len(s) + 1
          /\ \A i \in 1 .. Len(s) : t[i] = s[i]
          /\ t[Len(s) + 1] = b.leadingBid
    BY <1>5, BidStep
  <2>2. b.rules = a.rules /\ b.leadingBid.bidder = req.bidder
        /\ b.leadingBid.amount = req.amount
    BY <2>1 DEF BidRecorded
  <2>3. req.verified \/ req.amount < a.rules.verifyAbove
    BY <2>1 DEF CanPlaceBid
  <2>4. req.verified => req.bidder \in verified'
    BY <1>1 DEF HonestProfiles
  <2>5. req.amount \in Nat /\ a.rules.verifyAbove \in Nat /\ Len(s) \in Nat
    <3>1. a.rules.verifyAbove \in Nat
      BY <1>1 DEF AuctionRow, ListingRules
    <3> QED
      BY <1>1, <2>1, <3>1, AmountsNat
  <2>6. req.amount >= a.rules.verifyAbove => req.bidder \in verified'
    BY <2>3, <2>4, <2>5
  <2>7. ASSUME NEW i \in 1 .. Len(t)
        PROVE  t[i].amount >= b.rules.verifyAbove => t[i].bidder \in verified'
    <3>1. CASE i \in 1 .. Len(s)
      BY <1>1, <1>a, <2>1, <2>2, <3>1
    <3>2. CASE i = Len(s) + 1
      BY <2>1, <2>2, <2>6, <3>2
    <3> QED
      BY <2>1, <2>5, <3>1, <3>2
  <2> QED
    BY <2>7 DEF Cleared
<1>6. CASE Ends(a, b) /\ t = s
  BY <1>6, <1>b DEF Ends, Kept
<1>7. CASE Awards(a, b) /\ t = s
  BY <1>1, <1>7, <1>b, AwardedKeeps DEF Awards, Kept
<1>8. CASE b = a /\ t = s
  BY <1>8, <1>b
<1> QED
  BY <1>2, <1>4, <1>5, <1>6, <1>7, <1>8 DEF RowStep

\* The initial state satisfies the invariant.
LEMMA InitIInv == Init => IInv
<1> SUFFICES ASSUME Init PROVE IInv
  OBVIOUS
<1>1. TypeOK
  BY ZeroValues, AuctionAssumption DEF Init, TypeOK
<1>2. HonestProfiles
  BY DEF Init, HonestProfiles
<1>3. ASSUME NEW id \in AuctionIDs
      PROVE  auctions[id] = NoRow /\ bids[id] = <<>>
  BY DEF Init
<1>4. Wellformed(NoRow) /\ Accounted(NoRow)
  BY DEF Wellformed, Accounted, NoRow
<1>5. HeadMatches(NoRow, <<>>) /\ InTime(NoRow, <<>>) /\ Cleared(NoRow, <<>>)
  BY DEF HeadMatches, InTime, Cleared, NoRow, BidAt
<1> QED
  BY <1>1, <1>2, <1>3, <1>4, <1>5
     DEF IInv, HeadMatchesHistory, BidsBeforeHammer, DeadlineAccounted,
         HighBidsVerified

\* Every step preserves the invariant.
LEMMA StepIInv == IInv /\ [Next]_vars => IInv'
<1> SUFFICES ASSUME IInv, [Next]_vars PROVE IInv'
  OBVIOUS
<1>1. TypeOK /\ TypeOK' /\ StepFacts
  BY TypeStep, StepCases DEF IInv
<1>2. HonestProfiles'
  BY <1>1 DEF IInv, StepFacts, HonestProfiles
<1>3. ASSUME NEW id \in AuctionIDs
      PROVE  /\ Wellformed(auctions[id]) /\ HeadMatches(auctions[id], bids[id])
             /\ InTime(auctions[id], bids[id]) /\ Accounted(auctions[id])
             /\ Cleared(auctions[id], bids[id])
  BY DEF IInv, HeadMatchesHistory, BidsBeforeHammer, DeadlineAccounted,
         HighBidsVerified
<1>4. \A id \in AuctionIDs :
        (Wellformed(auctions[id]) /\ HeadMatches(auctions[id], bids[id]))'
  BY <1>1, <1>3, HeadStep
<1>5. \A id \in AuctionIDs : InTime(auctions[id], bids[id])'
  BY <1>1, <1>3, InTimeStep
<1>6. \A id \in AuctionIDs : Accounted(auctions[id])'
  BY <1>1, <1>3, DeadlineStep
<1>7. \A id \in AuctionIDs : Cleared(auctions[id], bids[id])'
  BY <1>1, <1>3, ClearedStep DEF IInv
<1> QED
  BY <1>1, <1>2, <1>4, <1>5, <1>6, <1>7
     DEF IInv, HeadMatchesHistory, BidsBeforeHammer, DeadlineAccounted,
         HighBidsVerified

\* The inductive invariant holds throughout.
LEMMA AlwaysIInv == Spec => []IInv
  BY InitIInv, StepIInv, PTL DEF Spec

\* ADR-0003: the top-two snapshot in auction.auctions agrees with the whole
\* append-only history, through bids, closing and the award to the runner-up.
THEOREM HeadCorrect == Spec => []HeadMatchesHistory
<1>1. IInv => HeadMatchesHistory
  BY DEF IInv
<1> QED
  BY <1>1, AlwaysIInv, PTL

\* No accepted bid lies outside the window, and the worker's hammer falls on
\* or after the extended deadline.
THEOREM HammerCorrect == Spec => []BidsBeforeHammer
<1>1. IInv => BidsBeforeHammer
  BY DEF IInv
<1> QED
  BY <1>1, AlwaysIInv, PTL

\* Anti-snipe moves the deadline by whole extensions, within the cap.
THEOREM DeadlineCorrect == Spec => []DeadlineAccounted
<1>1. IInv => DeadlineAccounted
  BY DEF IInv
<1> QED
  BY <1>1, AlwaysIInv, PTL

\* PlaceBid reads the profile before it takes the lock; still no unverified
\* bidder ever holds a bid at or above the threshold.
THEOREM VerificationCorrect == Spec => []HighBidsVerified
<1>1. IInv => HighBidsVerified
  BY DEF IInv
<1> QED
  BY <1>1, AlwaysIInv, PTL

-----------------------------------------------------------------------------
(* The ladder, where the sums stay within int64.                           *)

\* Amounts in rows and histories come from requests.
Submitted(a, s) ==
  /\ a.status # "absent" => a.increment \in Amounts
  /\ \A i \in 1 .. Len(s) : s[i].bidder \in Users /\ s[i].amount \in Amounts

LInv ==
  /\ IInv
  /\ \A id \in AuctionIDs : Submitted(auctions[id], bids[id])
  /\ BidLadder

\* An accepted bid tops the last bid of the history.
LEMMA MinimalBid ==
  ASSUME NoOverflow, NEW a \in AuctionRow, NEW s \in Seq(Bid),
         a.status # "absent", ~a.winnerReassigned,
         HeadMatches(a, s), Submitted(a, s)
  PROVE  /\ Len(s) = 0 => MinimalNextBid(a) = a.startPrice
         /\ Len(s) > 0 => /\ MinimalNextBid(a) = s[Len(s)].amount + a.increment
                          /\ a.leadingBid = s[Len(s)]
<1>1. a.leadingBid = BidAt(s, Len(s))
  BY DEF HeadMatches
<1>2. CASE Len(s) = 0
  BY <1>1, <1>2 DEF BidAt, MinimalNextBid
<1>3. CASE Len(s) > 0
  <2>1. a.leadingBid = s[Len(s)] /\ Len(s) \in 1 .. Len(s)
    BY <1>1, <1>3 DEF BidAt
  <2>2. s[Len(s)].bidder \in Users /\ s[Len(s)].amount \in Amounts
        /\ a.increment \in Amounts
    BY <2>1 DEF Submitted
  <2>3. a.leadingBid # ZeroBid
    BY <2>1, <2>2, DomainAssumption DEF ZeroBid
  <2>4. Add(s[Len(s)].amount, a.increment) = s[Len(s)].amount + a.increment
    BY <2>2 DEF NoOverflow, Add
  <2> QED
    BY <1>3, <2>1, <2>3, <2>4 DEF MinimalNextBid
<1> QED
  BY <1>2, <1>3

\* Every step keeps the ladder of every auction.
LEMMA LadderStep ==
  ASSUME NoOverflow, LInv, TypeOK', StepFacts, NEW id \in AuctionIDs
  PROVE  (Submitted(auctions[id], bids[id]) /\ Climbs(auctions[id], bids[id]))'
<1> DEFINE a == auctions[id]
           b == auctions'[id]
           s == bids[id]
           t == bids'[id]
<1> SUFFICES Submitted(b, t) /\ Climbs(b, t)
  BY DEF Submitted, Climbs
<1>1. a \in AuctionRow /\ s \in Seq(Bid) /\ Len(s) \in Nat
  BY DEF LInv, IInv, TypeOK
<1>2. RowStep(id, a, b)
  BY DEF StepFacts
<1>3. /\ Wellformed(a) /\ HeadMatches(a, s)
      /\ \A o \in AuctionIDs : Submitted(auctions[o], bids[o])
      /\ Climbs(a, s)
  BY DEF LInv, IInv, HeadMatchesHistory, BidLadder
<1>b. ASSUME t = s, Kept(a, b), a.status # "absent"
      PROVE  Submitted(b, t) /\ Climbs(b, t)
  BY <1>3, <1>b DEF Submitted, Climbs, Kept
<1>4. CASE Lists(a, b) /\ t = s
  <2>1. Len(t) = 0
    BY <1>3, <1>4 DEF Lists, Wellformed, HeadMatches
  <2>2. b.increment \in Amounts
    BY <1>3, <1>4 DEF Lists, Fresh, Submitted
  <2> QED
    BY <2>1, <2>2 DEF Submitted, Climbs
<1>5. CASE Bids(id, a, b) /\ t = Append(s, b.leadingBid)
  <2>0. TypeOK
    BY DEF LInv, IInv
  <2>1. PICK req \in inflight :
          /\ req.bidder \in Users /\ req.amount \in Amounts
          /\ CanPlaceBid(a, req.bidder, req.verified, req.amount, now)
          /\ BidRecorded(a, b, req)
          /\ Len(t) = Len(s) + 1
          /\ \A i \in 1 .. Len(s) : t[i] = s[i]
          /\ t[Len(s) + 1] = b.leadingBid
    BY <1>5, <2>0, BidStep
  <2>2. /\ b.seller = a.seller /\ b.startPrice = a.startPrice
        /\ b.increment = a.increment
        /\ b.leadingBid.bidder = req.bidder
        /\ b.leadingBid.amount = req.amount
    BY <2>1 DEF BidRecorded
  <2>3. /\ a.status = "listed" /\ req.bidder # a.seller
        /\ a.leadingBid.bidder # req.bidder
        /\ req.amount >= MinimalNextBid(a)
    BY <2>1 DEF CanPlaceBid, IsOpenAt
  <2>4. /\ Len(s) = 0 => MinimalNextBid(a) = a.startPrice
        /\ Len(s) > 0 => /\ MinimalNextBid(a) = s[Len(s)].amount + a.increment
                         /\ a.leadingBid = s[Len(s)]
    BY <1>1, <1>3, <2>3, MinimalBid DEF Wellformed
  <2>5. Submitted(b, t)
    BY <1>1, <1>3, <2>1, <2>2, <2>3 DEF Submitted
  <2>6. ASSUME NEW i \in 1 .. Len(t)
        PROVE  /\ t[i].bidder # b.seller
               /\ i = 1 => t[i].amount >= b.startPrice
               /\ i > 1 => /\ t[i].amount >= t[i - 1].amount + b.increment
                           /\ t[i].bidder # t[i - 1].bidder
    <3>1. CASE i \in 1 .. Len(s)
      <4>1. t[i] = s[i] /\ (i > 1 => t[i - 1] = s[i - 1])
        BY <1>1, <2>1, <3>1
      <4> QED
        BY <1>3, <2>2, <3>1, <4>1 DEF Climbs
    <3>2. CASE i = Len(s) + 1
      <4>1. t[i].bidder = req.bidder /\ t[i].amount = req.amount
        BY <2>1, <2>2, <3>2
      <4>2. i > 1 => t[i - 1] = s[Len(s)] /\ Len(s) > 0
        BY <1>1, <2>1, <3>2
      <4>3. i = 1 => Len(s) = 0
        BY <1>1, <3>2
      <4> QED
        BY <2>2, <2>3, <2>4, <4>1, <4>2, <4>3
    <3> QED
      BY <1>1, <2>1, <3>1, <3>2
  <2> QED
    BY <2>5, <2>6 DEF Climbs
<1>6. CASE Ends(a, b) /\ t = s
  BY <1>6, <1>b DEF Ends, CanClose
<1>7. CASE Awards(a, b) /\ t = s
  BY <1>1, <1>7, <1>b, AwardedKeeps DEF Awards, CanAward
<1>8. CASE b = a /\ t = s
  BY <1>3, <1>8
<1> QED
  BY <1>2, <1>4, <1>5, <1>6, <1>7, <1>8 DEF RowStep

\* Where no sum of two submitted amounts leaves int64, the accepted bids of
\* every auction climb by at least the increment, whatever the interleaving.
\* Without the hypothesis it is false: MinimalNextBid wraps to a negative
\* amount, and any bid tops that.
THEOREM LadderCorrect == NoOverflow => (Spec => []BidLadder)
<1> SUFFICES ASSUME NoOverflow PROVE Spec => []BidLadder
  OBVIOUS
<1>1. Init => LInv
  <2> SUFFICES ASSUME Init PROVE LInv
    OBVIOUS
  <2>1. ASSUME NEW id \in AuctionIDs
        PROVE  auctions[id] = NoRow /\ bids[id] = <<>>
    BY DEF Init
  <2>2. Submitted(NoRow, <<>>) /\ Climbs(NoRow, <<>>)
    BY DEF Submitted, Climbs, NoRow
  <2> QED
    BY <2>1, <2>2, InitIInv DEF LInv, BidLadder
<1>2. LInv /\ [Next]_vars => LInv'
  <2> SUFFICES ASSUME LInv, [Next]_vars PROVE LInv'
    OBVIOUS
  <2>1. IInv' /\ TypeOK' /\ StepFacts
    BY StepIInv, StepCases DEF LInv, IInv
  <2>2. \A id \in AuctionIDs :
          (Submitted(auctions[id], bids[id]) /\ Climbs(auctions[id], bids[id]))'
    BY <2>1, LadderStep
  <2> QED
    BY <2>1, <2>2 DEF LInv, BidLadder
<1>3. LInv => BidLadder
  BY DEF LInv
<1> QED
  BY <1>1, <1>2, <1>3, PTL DEF Spec

-----------------------------------------------------------------------------
(* What one step writes: at most one row, with its bid and its events.     *)

\* The terms of a listing and its place in a chain of relists.
SameTerms(a, b) ==
  /\ b.seller = a.seller /\ b.startPrice = a.startPrice
  /\ b.increment = a.increment /\ b.reserve = a.reserve /\ b.rules = a.rules
  /\ b.relistOf = a.relistOf /\ b.relistGen = a.relistGen

WritesListing(x, b) ==
  \E l \in Listings :
    /\ b = New(l.seller, l.startPrice, l.increment, l.reserve, l.window, l.rules)
    /\ published'[x] = published[x] \o <<AuctionListed(b)>>

WritesRelist(x, b) ==
  \E o \in AuctionIDs, w \in RelistWindows :
    /\ auctions[o].status # "absent" /\ CanRelist(auctions[o])
    /\ \A other \in AuctionIDs : auctions[other].relistOf # o
    /\ b = RelistedFrom(auctions[o], o, w)
    /\ published'[x] = published[x] \o <<AuctionListed(b), AuctionRelisted(b)>>

WritesBid(x, a, b) ==
  \E req \in inflight :
    /\ req.auction = x /\ Loadable(a)
    /\ CanPlaceBid(a, req.bidder, req.verified, req.amount, now)
    /\ b = WithBid(a, req.bidder, req.amount, now)
    /\ bids'[x] = Append(bids[x], b.leadingBid)
    /\ published'[x] = published[x] \o <<BidPlaced(b, a.leadingBid, now)>>

\* The commands of the seller, the worker and the saga, and their events.
Command(a, b, e) ==
  \/ /\ a.status = "listed" /\ a.bidCount = 0
     /\ b = Cancelled(a) /\ e = AuctionCancelled
  \/ CanClose(a, now) /\ b = Closed(a) /\ e = AuctionClosed(b, now)
  \/ CanAward(a) /\ b = Awarded(a) /\ e = WinnerReassigned(b)
  \/ CanConfirm(a) /\ b = Confirmed(a) /\ e = SaleSettledEvent(b)
  \/ CanFailSale(a) /\ b = SaleFailed(a) /\ e = SaleFailedEvent

WritesCommand(x, a, b) ==
  /\ bids'[x] = bids[x]
  /\ \E e : Command(a, b, e) /\ published'[x] = published[x] \o <<e>>

WritesRow(x, a, b) ==
  \/ /\ a.status = "absent" /\ bids'[x] = bids[x]
     /\ WritesListing(x, b) \/ WritesRelist(x, b)
  \/ WritesBid(x, a, b)
  \/ WritesCommand(x, a, b)

OthersStay(x) ==
  \A y \in AuctionIDs \ {x} :
    auctions'[y] = auctions[y] /\ bids'[y] = bids[y] /\ published'[y] = published[y]

OneWrite ==
  \/ UNCHANGED <<auctions, bids, published>>
  \/ \E x \in AuctionIDs : OthersStay(x) /\ WritesRow(x, auctions[x], auctions'[x])

\* A save of one of the commands writes one row.
LEMMA CommandWrites ==
  ASSUME TypeOK, NEW x \in AuctionIDs, NEW b, NEW e, Save(x, b, <<e>>),
         Command(auctions[x], b, e), bids' = bids
  PROVE  OneWrite
<1>1. /\ auctions'[x] = b /\ published'[x] = published[x] \o <<e>>
      /\ OthersStay(x)
  BY DEF Save, TypeOK, OthersStay
<1>2. WritesCommand(x, auctions[x], auctions'[x])
  BY <1>1 DEF WritesCommand
<1> QED
  BY <1>1, <1>2 DEF OneWrite, WritesRow

\* Every step writes at most one row.
LEMMA WriteCases ==
  ASSUME TypeOK, [Next]_vars
  PROVE  OneWrite
<1>1. ASSUME NEW x \in AuctionIDs, NEW l \in Listings, ListAuction(x, l)
      PROVE  OneWrite
  <2>1. PICK a : a = New(l.seller, l.startPrice, l.increment, l.reserve,
                         l.window, l.rules)
    OBVIOUS
  <2>2. Insert(x, a, <<AuctionListed(a)>>) /\ bids' = bids
    BY <1>1, <2>1 DEF ListAuction
  <2>3. /\ auctions[x].status = "absent" /\ OthersStay(x)
        /\ auctions'[x] = a /\ published'[x] = published[x] \o <<AuctionListed(a)>>
    BY <2>2 DEF Insert, Inserts, TypeOK, OthersStay
  <2>4. WritesListing(x, auctions'[x])
    BY <2>1, <2>3 DEF WritesListing
  <2> QED
    BY <2>2, <2>3, <2>4 DEF OneWrite, WritesRow
<1>2. ASSUME NEW x \in AuctionIDs, NEW newID \in AuctionIDs,
             NEW w \in RelistWindows, RelistAuction(x, newID, w)
      PROVE  OneWrite
  <2>1. PICK a : a = RelistedFrom(auctions[x], x, w)
    OBVIOUS
  <2>2. /\ Insert(newID, a, <<AuctionListed(a), AuctionRelisted(a)>>)
        /\ bids' = bids
        /\ auctions[x].status # "absent" /\ CanRelist(auctions[x])
    BY <1>2, <2>1 DEF RelistAuction
  <2>3. a.relistOf = x /\ x # NoAuctionID
    BY <2>1, DomainAssumption DEF RelistedFrom, Listing, NoRow
  <2>4. /\ auctions[newID].status = "absent" /\ OthersStay(newID)
        /\ auctions'[newID] = a
        /\ published'[newID] = published[newID] \o <<AuctionListed(a), AuctionRelisted(a)>>
        /\ \A other \in AuctionIDs : auctions[other].relistOf # x
    BY <2>2, <2>3 DEF Insert, Inserts, TypeOK, OthersStay
  <2>5. WritesRelist(newID, auctions'[newID])
    BY <2>1, <2>2, <2>4 DEF WritesRelist
  <2> QED
    BY <2>2, <2>4, <2>5 DEF OneWrite, WritesRow
<1>3. ASSUME NEW req \in inflight, PlaceBid(req)
      PROVE  OneWrite
  <2>1. PICK x : x = req.auction
    OBVIOUS
  <2>2. PICK b : b = WithBid(auctions[x], req.bidder, req.amount, now)
    OBVIOUS
  <2>3. x \in AuctionIDs
    BY <2>1 DEF TypeOK, BidRequest
  <2>4. /\ CanPlaceBid(auctions[x], req.bidder, req.verified, req.amount, now)
        /\ Save(x, b, <<BidPlaced(b, auctions[x].leadingBid, now)>>)
        /\ bids' = [bids EXCEPT ![x] = Append(@, b.leadingBid)]
    BY <1>3, <2>1, <2>2 DEF PlaceBid
  <2>5. /\ Loadable(auctions[x]) /\ OthersStay(x) /\ auctions'[x] = b
        /\ published'[x] = published[x] \o <<BidPlaced(b, auctions[x].leadingBid, now)>>
        /\ bids'[x] = Append(bids[x], b.leadingBid)
    BY <2>3, <2>4 DEF Save, TypeOK, OthersStay
  <2>6. WritesBid(x, auctions[x], auctions'[x])
    BY <2>1, <2>2, <2>4, <2>5 DEF WritesBid
  <2> QED
    BY <2>3, <2>5, <2>6 DEF OneWrite, WritesRow
<1>4. ASSUME NEW x \in AuctionIDs, NEW by \in Users, CancelAuction(x, by)
      PROVE  OneWrite
  <2>1. Command(auctions[x], Cancelled(auctions[x]), AuctionCancelled)
    BY <1>4 DEF CancelAuction, CanCancel, Command
  <2> QED
    BY <1>4, <2>1, CommandWrites DEF CancelAuction
<1>5. ASSUME NEW r \in Replicas, NEW x \in AuctionIDs, CloseAuction(r, x)
      PROVE  OneWrite
  <2>1. PICK b : b = Closed(auctions[x])
    OBVIOUS
  <2>2. Command(auctions[x], b, AuctionClosed(b, now))
    BY <1>5, <2>1 DEF CloseAuction, Command
  <2> QED
    BY <1>5, <2>1, <2>2, CommandWrites DEF CloseAuction
<1>6. ASSUME NEW x \in AuctionIDs, AwardToRunnerUp(x)
      PROVE  OneWrite
  <2>1. PICK b : b = Awarded(auctions[x])
    OBVIOUS
  <2>2. Command(auctions[x], b, WinnerReassigned(b))
    BY <1>6, <2>1 DEF AwardToRunnerUp, Command
  <2> QED
    BY <1>6, <2>1, <2>2, CommandWrites DEF AwardToRunnerUp
<1>7. ASSUME NEW x \in AuctionIDs, ConfirmSettlement(x)
      PROVE  OneWrite
  <2>1. PICK b : b = Confirmed(auctions[x])
    OBVIOUS
  <2>2. Command(auctions[x], b, SaleSettledEvent(b))
    BY <1>7, <2>1 DEF ConfirmSettlement, Command
  <2> QED
    BY <1>7, <2>1, <2>2, CommandWrites DEF ConfirmSettlement
<1>8. ASSUME NEW x \in AuctionIDs, MarkSaleFailed(x)
      PROVE  OneWrite
  <2>1. Command(auctions[x], SaleFailed(auctions[x]), SaleFailedEvent)
    BY <1>8 DEF MarkSaleFailed, Command
  <2> QED
    BY <1>8, <2>1, CommandWrites DEF MarkSaleFailed
<1>9. ASSUME UNCHANGED <<auctions, bids, published>>
      PROVE  OneWrite
  BY <1>9 DEF OneWrite
<1> QED
  BY <1>1, <1>2, <1>3, <1>4, <1>5, <1>6, <1>7, <1>8, <1>9
     DEF Next, UserStep, WorkerStep, FacadeStep, ReadBidder, RejectBid,
         MarkVerified, ScanDue, SkipCandidate, WorkerRestart, Tick, vars

\* What a command changes in its row.
LEMMA CommandFacts ==
  ASSUME NEW a \in AuctionRow, NEW b, NEW e, Command(a, b, e)
  PROVE  /\ SameTerms(a, b) /\ a.status \in {"listed", "closed"}
         /\ b.status \in {"cancelled", "closed"}
         /\ a.status = "closed" => b.status = "closed"
         /\ b.endsAt = a.endsAt /\ b.bidCount = a.bidCount
         /\ b.extensionsUsed = a.extensionsUsed
         /\ a.status = "closed" => ~a.settled
         /\ a.status = "listed" => b.settled = a.settled
         /\ b.settled => b.status = "closed" \/ a.settled
<1>1. CASE b = Cancelled(a) /\ a.status = "listed"
  BY <1>1 DEF Cancelled, SameTerms, AuctionRow
<1>2. CASE CanClose(a, now) /\ b = Closed(a)
  BY <1>2 DEF CanClose, Closed, SameTerms, AuctionRow
<1>3. CASE CanAward(a) /\ b = Awarded(a)
  BY <1>3 DEF CanAward, Awarded, SameTerms, AuctionRow
<1>4. CASE CanConfirm(a) /\ b = Confirmed(a)
  BY <1>4 DEF CanConfirm, Confirmed, SameTerms, AuctionRow
<1>5. CASE CanFailSale(a) /\ b = SaleFailed(a)
  BY <1>5 DEF CanFailSale, SaleFailed, SameTerms, AuctionRow
<1> QED
  BY <1>1, <1>2, <1>3, <1>4, <1>5 DEF Command

\* What an accepted bid leaves alone in its row.
BidKeeps(a, b) ==
  /\ SameTerms(a, b) /\ b.status = a.status /\ b.settled = a.settled
  /\ b.winnerReassigned = a.winnerReassigned /\ b.outcome = a.outcome

LEMMA WithBidKeeps ==
  ASSUME NEW a \in AuctionRow, NEW req
  PROVE  BidKeeps(a, WithBid(a, req.bidder, req.amount, now))
  BY DEF BidKeeps, WithBid, SameTerms, AuctionRow

\* Durations that went through the database once are whole seconds.
LEMMA StoredTwice ==
  ASSUME NEW r \in ListingRules
  PROVE  StoredRules(StoredRules(r)) = StoredRules(r)
<1>1. ASSUME NEW d \in Nat
      PROVE  WholeSeconds(d) \in Nat /\ WholeSeconds(WholeSeconds(d)) = WholeSeconds(d)
  <2>1. PICK t \in Nat \ {0} : t = TicksPerSecond
    BY DomainAssumption
  <2>2. PICK q \in Nat : q = d \div t
    BY <2>1
  <2>3. q * t \in Nat
    BY <2>1, <2>2
  <2>4. (q * t) \div t = q
    BY <2>1, <2>2
  <2> QED
    BY <2>1, <2>2, <2>3, <2>4 DEF WholeSeconds
<1>2. r.snipeWindow \in Nat /\ r.extension \in Nat
  BY DEF ListingRules
<1> QED
  BY <1>1, <1>2 DEF StoredRules, ListingRules

\* A row that List or Relist inserts.
NewListing(b, seller, sp, inc, res, r, origin, gen) ==
  /\ b.seller = seller /\ b.startPrice = sp /\ b.increment = inc
  /\ b.reserve = res /\ b.rules = StoredRules(r)
  /\ b.relistOf = origin /\ b.relistGen = gen
  /\ b.status = "listed" /\ b.settled = FALSE /\ b.bidCount = 0
  /\ b.winnerReassigned = FALSE /\ b.rules = StoredRules(b.rules)

LEMMA ListingFacts ==
  ASSUME NEW seller, NEW sp, NEW inc, NEW res, NEW w, NEW r \in ListingRules,
         NEW origin, NEW gen
  PROVE  NewListing(Listing(seller, sp, inc, res, w, r, origin, gen),
                    seller, sp, inc, res, r, origin, gen)
<1>1. PICK b : b = Listing(seller, sp, inc, res, w, r, origin, gen)
  OBVIOUS
<1>2. /\ b.seller = seller /\ b.startPrice = sp /\ b.increment = inc
      /\ b.reserve = res /\ b.rules = StoredRules(r)
      /\ b.relistOf = origin /\ b.relistGen = gen
      /\ b.status = "listed" /\ b.settled = FALSE /\ b.bidCount = 0
      /\ b.winnerReassigned = FALSE
  BY <1>1 DEF Listing, NoRow
<1> QED
  BY <1>1, <1>2, StoredTwice DEF NewListing

\* An id without a row is blank, verdicts are for closed auctions, the rules
\* of a row are as the database keeps them, and users placed the bids.
Orderly(a) ==
  /\ a.settled => a.status = "closed"
  /\ a.status = "absent" => a.relistOf = NoAuctionID /\ a.relistGen = 0
  /\ a.status # "absent" => a.rules = StoredRules(a.rules)

FromUsers(s) == \A i \in 1 .. Len(s) : s[i].bidder \in Users

OInv ==
  /\ IInv
  /\ \A id \in AuctionIDs : Orderly(auctions[id]) /\ FromUsers(bids[id])

LEMMA OrderlyStep == OInv /\ [Next]_vars => OInv'
<1> SUFFICES ASSUME OInv, [Next]_vars PROVE OInv'
  OBVIOUS
<1>1. TypeOK /\ IInv' /\ TypeOK' /\ OneWrite
  BY StepIInv, WriteCases DEF OInv, IInv
<1> SUFFICES ASSUME NEW y \in AuctionIDs
             PROVE  Orderly(auctions'[y]) /\ FromUsers(bids'[y])
  BY <1>1 DEF OInv, Orderly, FromUsers
<1>2. /\ Orderly(auctions[y]) /\ FromUsers(bids[y])
      /\ auctions[y] \in AuctionRow /\ bids[y] \in Seq(Bid)
  BY <1>1 DEF OInv, TypeOK
<1>3. CASE auctions'[y] = auctions[y] /\ bids'[y] = bids[y]
  BY <1>2, <1>3
<1>4. CASE /\ auctions[y].status = "absent" /\ bids'[y] = bids[y]
           /\ WritesListing(y, auctions'[y]) \/ WritesRelist(y, auctions'[y])
  <2>1. CASE WritesListing(y, auctions'[y])
    <3>1. PICK l \in Listings :
            auctions'[y] = New(l.seller, l.startPrice, l.increment, l.reserve,
                               l.window, l.rules)
      BY <2>1 DEF WritesListing
    <3>2. l.rules \in ListingRules
      BY ListingParts
    <3>3. NewListing(auctions'[y], l.seller, l.startPrice, l.increment, l.reserve,
                     l.rules, NoAuctionID, 0)
      BY <3>1, <3>2, ListingFacts DEF New
    <3> QED
      BY <1>2, <1>4, <3>3 DEF NewListing, Orderly
  <2>2. CASE WritesRelist(y, auctions'[y])
    <3>1. PICK o \in AuctionIDs, w \in RelistWindows :
            auctions'[y] = RelistedFrom(auctions[o], o, w)
      BY <2>2 DEF WritesRelist
    <3>2. auctions[o].rules \in ListingRules
      BY <1>1 DEF TypeOK, AuctionRow
    <3>3. PICK a : a = auctions[o]
      OBVIOUS
    <3>4. NewListing(auctions'[y], a.seller, a.startPrice, a.increment, a.reserve,
                     a.rules, o, a.relistGen + 1)
      BY <3>1, <3>2, <3>3, ListingFacts DEF RelistedFrom
    <3> QED
      BY <1>2, <1>4, <3>4 DEF NewListing, Orderly
  <2> QED
    BY <1>4, <2>1, <2>2
<1>5. CASE WritesBid(y, auctions[y], auctions'[y])
  <2>1. PICK req \in inflight :
          /\ CanPlaceBid(auctions[y], req.bidder, req.verified, req.amount, now)
          /\ auctions'[y] = WithBid(auctions[y], req.bidder, req.amount, now)
          /\ bids'[y] = Append(bids[y], auctions'[y].leadingBid)
    BY <1>5 DEF WritesBid
  <2>2. req.bidder \in Users /\ req.amount \in Nat /\ now \in Nat
    BY <1>1, AmountsNat DEF TypeOK, BidRequest
  <2>3. /\ SameTerms(auctions[y], auctions'[y])
        /\ auctions'[y].status = auctions[y].status
        /\ auctions'[y].settled = auctions[y].settled
        /\ auctions'[y].leadingBid.bidder = req.bidder
    <3>1. /\ BidKeeps(auctions[y], auctions'[y])
          /\ BidRecorded(auctions[y], auctions'[y], req)
      BY <1>2, <2>1, WithBidKeeps, WithBidRecords
    <3> QED
      BY <3>1 DEF BidKeeps, BidRecorded
  <2>4. auctions'[y].leadingBid \in Bid
    BY <1>2, <2>1, <2>2, WithBidType
  <2>5. /\ Len(bids'[y]) = Len(bids[y]) + 1 /\ Len(bids[y]) \in Nat
        /\ \A i \in 1 .. Len(bids[y]) : bids'[y][i] = bids[y][i]
        /\ bids'[y][Len(bids[y]) + 1].bidder = req.bidder
    BY <1>2, <2>1, <2>3, <2>4, AppendFacts
  <2>6. FromUsers(bids'[y])
    BY <1>2, <2>2, <2>5 DEF FromUsers
  <2>7. Orderly(auctions'[y])
    BY <1>2, <2>1, <2>3 DEF Orderly, SameTerms, CanPlaceBid, IsOpenAt
  <2> QED
    BY <2>6, <2>7
<1>6. CASE WritesCommand(y, auctions[y], auctions'[y])
  <2>1. PICK e : Command(auctions[y], auctions'[y], e)
    BY <1>6 DEF WritesCommand
  <2>2. /\ SameTerms(auctions[y], auctions'[y])
        /\ auctions[y].status \in {"listed", "closed"}
        /\ auctions'[y].status \in {"cancelled", "closed"}
        /\ auctions[y].status = "closed" => auctions'[y].status = "closed"
        /\ auctions'[y].settled => auctions'[y].status = "closed" \/ auctions[y].settled
    BY <1>2, <2>1, CommandFacts
  <2> QED
    BY <1>2, <1>6, <2>2 DEF Orderly, SameTerms, WritesCommand
<1> QED
  BY <1>1, <1>3, <1>4, <1>5, <1>6 DEF OneWrite, OthersStay, WritesRow

LEMMA AlwaysOInv == Spec => []OInv
<1>1. Init => OInv
  <2> SUFFICES ASSUME Init PROVE OInv
    OBVIOUS
  <2>1. ASSUME NEW id \in AuctionIDs
        PROVE  auctions[id] = NoRow /\ bids[id] = <<>>
    BY DEF Init
  <2>2. Orderly(NoRow) /\ FromUsers(<<>>)
    BY DEF Orderly, NoRow, FromUsers
  <2> QED
    BY <2>1, <2>2, InitIInv DEF OInv
<1> QED
  BY <1>1, OrderlyStep, PTL DEF Spec

\* The hammer is final, whatever the handlers, the workers of several replicas
\* and the saga do: no status returns, no term changes, a finished auction
\* takes no bid, and a settled one is not written again.
THEOREM HammerStands == Spec => HammerFinal
<1>1. OInv /\ [Next]_vars =>
        [\A id \in AuctionIDs :
           LET a == auctions[id]
               b == auctions'[id]
           IN  /\ a.status # "absent" =>
                    /\ b.status # "absent" /\ b.endsAt >= a.endsAt
                    /\ <<b.seller, b.startPrice, b.increment, b.reserve, b.rules>>
                         = <<a.seller, a.startPrice, a.increment, a.reserve, a.rules>>
               /\ a.status \in {"cancelled", "closed"} =>
                    /\ b.status = a.status /\ b.endsAt = a.endsAt
                    /\ bids'[id] = bids[id]
               /\ a.settled => b = a]_vars
  <2> SUFFICES ASSUME OInv, [Next]_vars, NEW y \in AuctionIDs
               PROVE  /\ auctions[y].status # "absent" =>
                           /\ auctions'[y].status # "absent"
                           /\ auctions'[y].endsAt >= auctions[y].endsAt
                           /\ auctions'[y].seller = auctions[y].seller
                           /\ auctions'[y].startPrice = auctions[y].startPrice
                           /\ auctions'[y].increment = auctions[y].increment
                           /\ auctions'[y].reserve = auctions[y].reserve
                           /\ auctions'[y].rules = auctions[y].rules
                      /\ auctions[y].status \in {"cancelled", "closed"} =>
                           /\ auctions'[y].status = auctions[y].status
                           /\ auctions'[y].endsAt = auctions[y].endsAt
                           /\ bids'[y] = bids[y]
                      /\ auctions[y].settled => auctions'[y] = auctions[y]
    OBVIOUS
  <2>1. TypeOK /\ OneWrite
    BY WriteCases DEF OInv, IInv
  <2>2. /\ Orderly(auctions[y]) /\ auctions[y] \in AuctionRow
        /\ auctions[y].endsAt \in Nat /\ now \in Nat
    BY <2>1 DEF OInv, TypeOK, AuctionRow
  <2>3. CASE auctions'[y] = auctions[y] /\ bids'[y] = bids[y]
    BY <2>2, <2>3
  <2>4. CASE auctions[y].status = "absent"
    BY <2>2, <2>4 DEF Orderly
  <2>5. CASE WritesBid(y, auctions[y], auctions'[y])
    <3>1. PICK req \in inflight :
            /\ CanPlaceBid(auctions[y], req.bidder, req.verified, req.amount, now)
            /\ auctions'[y] = WithBid(auctions[y], req.bidder, req.amount, now)
      BY <2>5 DEF WritesBid
    <3>2. /\ SameTerms(auctions[y], auctions'[y])
          /\ auctions'[y].status = auctions[y].status
          /\ auctions'[y].endsAt = auctions[y].endsAt + Extension(auctions[y], now)
      <4>1. /\ BidKeeps(auctions[y], auctions'[y])
            /\ BidRecorded(auctions[y], auctions'[y], req)
        BY <2>2, <3>1, WithBidKeeps, WithBidRecords
      <4> QED
        BY <4>1 DEF BidKeeps, BidRecorded
    <3>3. auctions[y].status = "listed" /\ Extension(auctions[y], now) \in Nat
      BY <2>2, <3>1 DEF CanPlaceBid, IsOpenAt, Extension, AuctionRow, ListingRules
    <3> QED
      BY <2>2, <3>2, <3>3 DEF SameTerms, Orderly
  <2>6. CASE WritesCommand(y, auctions[y], auctions'[y])
    <3>1. PICK e : Command(auctions[y], auctions'[y], e)
      BY <2>6 DEF WritesCommand
    <3>2. /\ SameTerms(auctions[y], auctions'[y])
          /\ auctions[y].status \in {"listed", "closed"}
          /\ auctions'[y].status \in {"cancelled", "closed"}
          /\ auctions[y].status = "closed" => auctions'[y].status = "closed"
          /\ auctions'[y].endsAt = auctions[y].endsAt
          /\ auctions[y].status = "closed" => ~auctions[y].settled
      BY <2>2, <3>1, CommandFacts
    <3> QED
      BY <2>2, <2>6, <3>2 DEF SameTerms, Orderly, WritesCommand
  <2> QED
    BY <2>1, <2>3, <2>4, <2>5, <2>6 DEF OneWrite, OthersStay, WritesRow
<1> QED
  BY <1>1, AlwaysOInv, PTL DEF Spec, HammerFinal

\* A bid in the last moments leaves more than the snipe window, or a whole
\* extension, to answer it, until the extensions are used up.
THEOREM SnipersCorrect == Spec => SnipersAnswered
<1>1. OInv /\ [Next]_vars =>
        [\A id \in AuctionIDs :
           LET a == auctions'[id]
           IN  (a.bidCount > auctions[id].bidCount
                /\ auctions[id].extensionsUsed < a.rules.maxExtensions)
               => \/ a.endsAt - now > a.rules.snipeWindow
                  \/ a.endsAt - now > a.rules.extension]_vars
  <2> SUFFICES ASSUME OInv, [Next]_vars, NEW y \in AuctionIDs,
                      auctions'[y].bidCount > auctions[y].bidCount,
                      auctions[y].extensionsUsed < auctions'[y].rules.maxExtensions
               PROVE  \/ auctions'[y].endsAt - now > auctions'[y].rules.snipeWindow
                      \/ auctions'[y].endsAt - now > auctions'[y].rules.extension
    OBVIOUS
  <2>1. TypeOK /\ OneWrite
    BY WriteCases DEF OInv, IInv
  <2>2. /\ auctions[y] \in AuctionRow /\ Wellformed(auctions[y])
        /\ auctions[y].endsAt \in Nat /\ now \in Nat /\ auctions[y].bidCount \in Nat
        /\ auctions[y].rules.snipeWindow \in Nat /\ auctions[y].rules.extension \in Nat
    BY <2>1 DEF OInv, IInv, TypeOK, AuctionRow, ListingRules
  <2>3. ~(auctions'[y] = auctions[y])
    BY <2>2
  <2>4. ~(auctions[y].status = "absent"
          /\ (WritesListing(y, auctions'[y]) \/ WritesRelist(y, auctions'[y])))
    <3> SUFFICES ASSUME auctions[y].status = "absent",
                        WritesListing(y, auctions'[y]) \/ WritesRelist(y, auctions'[y])
                 PROVE  auctions'[y].bidCount = 0
      BY <2>2 DEF Wellformed
    <3> QED
      BY DEF WritesListing, WritesRelist, New, RelistedFrom, Listing, NoRow
  <2>5. ~WritesCommand(y, auctions[y], auctions'[y])
    <3> SUFFICES ASSUME WritesCommand(y, auctions[y], auctions'[y]) PROVE FALSE
      OBVIOUS
    <3>1. PICK e : Command(auctions[y], auctions'[y], e)
      BY DEF WritesCommand
    <3>2. auctions'[y].bidCount = auctions[y].bidCount
      BY <2>2, <3>1, CommandFacts
    <3> QED
      BY <2>2, <3>2
  <2>6. WritesBid(y, auctions[y], auctions'[y])
    BY <2>1, <2>3, <2>4, <2>5 DEF OneWrite, OthersStay, WritesRow
  <2>7. PICK req \in inflight :
          /\ CanPlaceBid(auctions[y], req.bidder, req.verified, req.amount, now)
          /\ auctions'[y] = WithBid(auctions[y], req.bidder, req.amount, now)
    BY <2>6 DEF WritesBid
  <2>8. /\ auctions'[y].rules = auctions[y].rules
        /\ auctions'[y].endsAt = auctions[y].endsAt + Extension(auctions[y], now)
    <3>1. BidRecorded(auctions[y], auctions'[y], req)
      BY <2>2, <2>7, WithBidRecords
    <3> QED
      BY <3>1 DEF BidRecorded
  <2>9. now < auctions[y].endsAt
    BY <2>7 DEF CanPlaceBid, IsOpenAt
  <2>10. CASE TriggersAt(auctions[y], now)
    <3>1. Extension(auctions[y], now) = auctions[y].rules.extension
      BY <2>8, <2>10 DEF Extension, Extends
    <3> QED
      BY <2>2, <2>8, <2>9, <3>1
  <2>11. CASE ~TriggersAt(auctions[y], now)
    <3>1. Extension(auctions[y], now) = 0
      BY <2>11 DEF Extension, Extends
    <3>2. now < auctions[y].endsAt - auctions[y].rules.snipeWindow
      BY <2>2, <2>11 DEF TriggersAt
    <3> QED
      BY <2>2, <2>8, <3>1, <3>2
  <2> QED
    BY <2>10, <2>11
<1> QED
  BY <1>1, AlwaysOInv, PTL DEF Spec, SnipersAnswered

-----------------------------------------------------------------------------
(* Relists.                                                                *)

\* Row a of id x and row o of id y, as OneRelist wants them.
Paired(a, o, x, y) ==
  /\ a.relistGen = (IF a.relistOf = NoAuctionID THEN 0 ELSE 1)
  /\ a.relistOf = y => /\ o.status # "absent" /\ o.relistGen = 0
                       /\ a.seller = o.seller
                       /\ a.startPrice = o.startPrice
                       /\ a.increment = o.increment
                       /\ a.reserve = o.reserve /\ a.rules = o.rules
  /\ x # y /\ a.relistOf # NoAuctionID => a.relistOf # o.relistOf

\* A row keeps its terms, or appears.
LEMMA TermsStep ==
  ASSUME OInv, [Next]_vars
  PROVE  \/ \A z \in AuctionIDs :
              /\ SameTerms(auctions[z], auctions'[z])
              /\ auctions[z].status # "absent" => auctions'[z].status # "absent"
         \/ \E x \in AuctionIDs :
              /\ auctions[x].status = "absent"
              /\ \A z \in AuctionIDs \ {x} : auctions'[z] = auctions[z]
              /\ WritesListing(x, auctions'[x]) \/ WritesRelist(x, auctions'[x])
<1>1. TypeOK /\ OneWrite
  BY WriteCases DEF OInv, IInv
<1>2. CASE UNCHANGED <<auctions, bids, published>>
  BY <1>2 DEF SameTerms
<1>3. ASSUME NEW x \in AuctionIDs, OthersStay(x),
             SameTerms(auctions[x], auctions'[x]), auctions'[x].status # "absent"
      PROVE  \A z \in AuctionIDs :
               /\ SameTerms(auctions[z], auctions'[z])
               /\ auctions[z].status # "absent" => auctions'[z].status # "absent"
  BY <1>3 DEF OthersStay, SameTerms
<1>4. ASSUME NEW x \in AuctionIDs, OthersStay(x),
             WritesBid(x, auctions[x], auctions'[x])
      PROVE  SameTerms(auctions[x], auctions'[x]) /\ auctions'[x].status # "absent"
  <2>1. PICK req \in inflight :
          /\ CanPlaceBid(auctions[x], req.bidder, req.verified, req.amount, now)
          /\ auctions'[x] = WithBid(auctions[x], req.bidder, req.amount, now)
    BY <1>4 DEF WritesBid
  <2>2. auctions[x] \in AuctionRow
    BY <1>1 DEF TypeOK
  <2>3. BidKeeps(auctions[x], auctions'[x])
    BY <2>1, <2>2, WithBidKeeps
  <2> QED
    BY <2>1, <2>3 DEF BidKeeps, CanPlaceBid, IsOpenAt
<1>5. ASSUME NEW x \in AuctionIDs, OthersStay(x),
             WritesCommand(x, auctions[x], auctions'[x])
      PROVE  SameTerms(auctions[x], auctions'[x]) /\ auctions'[x].status # "absent"
  <2>1. PICK e : Command(auctions[x], auctions'[x], e)
    BY <1>5 DEF WritesCommand
  <2>2. auctions[x] \in AuctionRow
    BY <1>1 DEF TypeOK
  <2> QED
    BY <2>1, <2>2, CommandFacts
<1> QED
  BY <1>1, <1>2, <1>3, <1>4, <1>5 DEF OneWrite, OthersStay, WritesRow

LEMMA RelistStep == OInv /\ OneRelist /\ [Next]_vars => OneRelist'
<1> SUFFICES ASSUME OInv, OneRelist, [Next]_vars,
                    NEW u \in AuctionIDs, NEW v \in AuctionIDs
             PROVE  Paired(auctions'[u], auctions'[v], u, v)
  BY DEF OneRelist, Paired
<1>1. \A x, y \in AuctionIDs : Paired(auctions[x], auctions[y], x, y)
  BY DEF OneRelist, Paired
<1>2. CASE \A z \in AuctionIDs :
             /\ SameTerms(auctions[z], auctions'[z])
             /\ auctions[z].status # "absent" => auctions'[z].status # "absent"
  <2>1. Paired(auctions[u], auctions[v], u, v)
    BY <1>1
  <2>2. /\ SameTerms(auctions[u], auctions'[u]) /\ SameTerms(auctions[v], auctions'[v])
        /\ auctions[v].status # "absent" => auctions'[v].status # "absent"
    BY <1>2
  <2> QED
    BY <2>1, <2>2 DEF Paired, SameTerms
<1>3. ASSUME NEW x \in AuctionIDs, auctions[x].status = "absent",
             \A z \in AuctionIDs \ {x} : auctions'[z] = auctions[z],
             WritesListing(x, auctions'[x]) \/ WritesRelist(x, auctions'[x])
      PROVE  Paired(auctions'[u], auctions'[v], u, v)
  <2>1. \A z \in AuctionIDs : auctions[z].relistOf # x
    BY <1>1, <1>3 DEF Paired
  <2>2. CASE WritesListing(x, auctions'[x])
    <3>1. PICK l \in Listings :
            auctions'[x] = New(l.seller, l.startPrice, l.increment, l.reserve,
                               l.window, l.rules)
      BY <2>2 DEF WritesListing
    <3>2. l.rules \in ListingRules
      BY ListingParts
    <3>3. NewListing(auctions'[x], l.seller, l.startPrice, l.increment, l.reserve,
                     l.rules, NoAuctionID, 0)
      BY <3>1, <3>2, ListingFacts DEF New
    <3>4. auctions'[x].relistOf = NoAuctionID /\ auctions'[x].relistGen = 0
      BY <3>3 DEF NewListing
    <3>5. CASE u = x
      BY <3>4, <3>5, DomainAssumption DEF Paired
    <3>6. CASE u # x /\ v = x
      <4>1. auctions'[u] = auctions[u] /\ Paired(auctions[u], auctions[v], u, v)
        BY <1>1, <1>3, <3>6
      <4> QED
        BY <2>1, <3>4, <3>6, <4>1 DEF Paired
    <3>7. CASE u # x /\ v # x
      BY <1>1, <1>3, <3>7
    <3> QED
      BY <3>5, <3>6, <3>7
  <2>3. CASE WritesRelist(x, auctions'[x])
    <3>1. PICK o \in AuctionIDs, w \in RelistWindows :
            /\ auctions[o].status # "absent" /\ CanRelist(auctions[o])
            /\ \A other \in AuctionIDs : auctions[other].relistOf # o
            /\ auctions'[x] = RelistedFrom(auctions[o], o, w)
      BY <2>3 DEF WritesRelist
    <3>2. /\ auctions[o] \in AuctionRow /\ Orderly(auctions[o])
          /\ auctions[o].rules \in ListingRules /\ auctions[o].relistGen \in Nat
      BY DEF OInv, IInv, TypeOK, AuctionRow
    <3>3. PICK a : a = auctions[o]
      OBVIOUS
    <3>4. NewListing(auctions'[x], a.seller, a.startPrice, a.increment, a.reserve,
                     a.rules, o, a.relistGen + 1)
      BY <3>1, <3>2, <3>3, ListingFacts DEF RelistedFrom
    <3>5. a.relistGen = 0 /\ a.rules = StoredRules(a.rules) /\ o # x
          /\ o # NoAuctionID /\ auctions'[o] = a
      BY <1>3, <3>1, <3>2, <3>3, DomainAssumption DEF CanRelist, Orderly
    <3>6. CASE u = x
      <4>1. CASE v = x
        BY <3>4, <3>5, <3>6, <4>1 DEF Paired, NewListing
      <4>2. CASE v = o
        <5>1. a.relistOf # o
          BY <3>1, <3>3
        <5> QED
          BY <3>1, <3>3, <3>4, <3>5, <3>6, <4>2, <5>1 DEF Paired, NewListing
      <4>3. CASE v # x /\ v # o
        <5>1. auctions'[v].relistOf # o
          BY <1>3, <3>1, <4>3
        <5> QED
          BY <3>4, <3>5, <3>6, <4>3, <5>1 DEF Paired, NewListing
      <4> QED
        BY <4>1, <4>2, <4>3
    <3>7. CASE u # x /\ v = x
      <4>1. auctions'[u] = auctions[u] /\ Paired(auctions[u], auctions[v], u, v)
        BY <1>1, <1>3, <3>7
      <4>2. auctions[u].relistOf # o /\ auctions[u].relistOf # x
        BY <2>1, <3>1
      <4> QED
        BY <3>4, <3>7, <4>1, <4>2 DEF Paired, NewListing
    <3>8. CASE u # x /\ v # x
      BY <1>1, <1>3, <3>8
    <3> QED
      BY <3>6, <3>7, <3>8
  <2> QED
    BY <1>3, <2>2, <2>3
<1> QED
  BY <1>2, <1>3, TermsStep

\* However often the saga repeats a relist, and under whatever ids, an auction
\* has at most one replacement, on its own terms, and a replacement has none.
THEOREM RelistCorrect == Spec => []OneRelist
<1>1. Init => OneRelist
  <2> SUFFICES ASSUME Init, NEW u \in AuctionIDs, NEW v \in AuctionIDs
               PROVE  Paired(auctions[u], auctions[v], u, v)
    BY DEF OneRelist, Paired
  <2>1. auctions[u] = NoRow /\ auctions[v] = NoRow
    BY DEF Init
  <2>2. NoRow.relistGen = 0 /\ NoRow.relistOf = NoAuctionID
    BY DEF NoRow
  <2> QED
    BY <2>1, <2>2, DomainAssumption DEF Paired
<1> QED
  BY <1>1, RelistStep, AlwaysOInv, PTL DEF Spec

-----------------------------------------------------------------------------
(* The outbox.                                                             *)

IsSeq(s) == \E S : s \in Seq(S)

\* The stream t is s and one more event.
Continued(s, e, t) ==
  /\ IsSeq(t) /\ Len(s) \in Nat /\ Len(t) = Len(s) + 1
  /\ \A i \in 1 .. Len(s) : t[i] = s[i]
  /\ t[Len(s) + 1] = e

LEMMA ConcatContinues ==
  ASSUME NEW s, IsSeq(s), NEW e
  PROVE  Continued(s, e, s \o <<e>>)
<1>1. PICK S : s \in Seq(S)
  BY DEF IsSeq
<1>2. s \in Seq(S \cup {e}) /\ <<e>> \in Seq(S \cup {e})
  BY <1>1
<1>3. /\ s \o <<e>> \in Seq(S \cup {e})
      /\ Len(s) \in Nat /\ Len(s \o <<e>>) = Len(s) + 1
      /\ \A i \in 1 .. Len(s) : (s \o <<e>>)[i] = s[i]
      /\ (s \o <<e>>)[Len(s) + 1] = e
  BY <1>2
<1> QED
  BY <1>3 DEF Continued, IsSeq

\* Tells, with the number of events before the end of the auction named.
LEMMA TellsParts ==
  ASSUME NEW a, NEW b, NEW s, NEW n, n = 1 + a.relistGen + Len(b)
  PROVE  Tells(a, b, s) <=>
           /\ Len(s) = n + One(a.status \in {"cancelled", "closed"})
                         + One(a.winnerReassigned) + One(a.settled)
           /\ OpeningTold(s, 1 + a.relistGen) /\ BidsTold(b, s, 1 + a.relistGen)
           /\ EndTold(a, b, s[n + 1]) /\ AwardTold(a, b, s[n + 2])
           /\ VerdictTold(a, s[Len(s)])
  BY DEF Tells

\* What a row of the table and its history have in common.
Backed(a, h) ==
  /\ a \in AuctionRow /\ h \in Seq(Bid) /\ Wellformed(a) /\ Orderly(a)
  /\ HeadMatches(a, h) /\ FromUsers(h)

LEMMA BackedParts ==
  ASSUME NEW a, NEW h, Backed(a, h)
  PROVE  /\ Len(h) \in Nat /\ a.relistGen \in Nat
         /\ a.settled \in BOOLEAN /\ a.winnerReassigned \in BOOLEAN
         /\ a.status \in Statuses
<1>1. Len(h) \in Nat
  BY DEF Backed
<1>2. a \in AuctionRow
  BY DEF Backed
<1>3. a.settled \in BOOLEAN /\ a.winnerReassigned \in BOOLEAN
  BY <1>2, Zenon DEF AuctionRow
<1>4. a.relistGen \in Nat /\ a.status \in Statuses
  BY <1>2 DEF AuctionRow
<1> QED
  BY <1>1, <1>3, <1>4

\* The opening and the bids stay told in a longer stream.
LEMMA StillTold ==
  ASSUME NEW h, NEW s, NEW t, NEW e, NEW k \in Nat \ {0}, Continued(s, e, t),
         Len(h) \in Nat, Len(s) >= k + Len(h), OpeningTold(s, k),
         BidsTold(h, s, k)
  PROVE  OpeningTold(t, k) /\ BidsTold(h, t, k)
<1>1. Len(s) \in Nat /\ \A i \in 1 .. Len(s) : t[i] = s[i]
  BY DEF Continued
<1>2. t[1] = s[1] /\ (k = 2 => t[2] = s[2])
  BY <1>1
<1>3. \A i \in 1 .. Len(h) : t[k + i] = s[k + i]
  <2> SUFFICES ASSUME NEW i \in 1 .. Len(h) PROVE k + i \in 1 .. Len(s)
    BY <1>1
  <2> QED
    BY <1>1
<1>4. OpeningTold(t, k)
  BY <1>2 DEF OpeningTold
<1>5. BidsTold(h, t, k)
  BY <1>3 DEF BidsTold
<1> QED
  BY <1>4, <1>5

\* An accepted bid is told as the next bid of the history.
LEMMA BidIsTold ==
  ASSUME NEW a, NEW h, NEW s, NEW b, NEW g, NEW t, NEW req,
         Backed(a, h), Backed(b, g), Tells(a, h, s), a.status = "listed",
         BidKeeps(a, b), BidRecorded(a, b, req),
         Len(g) = Len(h) + 1, \A i \in 1 .. Len(h) : g[i] = h[i],
         g[Len(h) + 1] = b.leadingBid,
         Continued(s, BidPlaced(b, a.leadingBid, now), t)
  PROVE  Tells(b, g, t)
<1>1. /\ Len(h) \in Nat /\ a.relistGen \in Nat
      /\ a.settled = FALSE /\ a.winnerReassigned = FALSE
  BY BackedParts DEF Backed, Orderly, Wellformed
<1>2. /\ b.relistGen = a.relistGen /\ b.status = "listed"
      /\ b.settled = FALSE /\ b.winnerReassigned = FALSE
  BY <1>1 DEF BidKeeps, SameTerms
<1>3. PICK k \in Nat \ {0} : k = 1 + a.relistGen
  BY <1>1
<1>4. Len(s) = k + Len(h) /\ OpeningTold(s, k) /\ BidsTold(h, s, k)
  <2>1. PICK n : n = 1 + a.relistGen + Len(h)
    OBVIOUS
  <2>2. /\ Len(s) = n + One(a.status \in {"cancelled", "closed"})
                      + One(a.winnerReassigned) + One(a.settled)
        /\ OpeningTold(s, k) /\ BidsTold(h, s, k)
    BY <1>3, <2>1, TellsParts
  <2>3. n \in Nat /\ n = k + Len(h)
    BY <1>1, <1>3, <2>1
  <2>4. /\ One(a.status \in {"cancelled", "closed"}) = 0
        /\ One(a.winnerReassigned) = 0 /\ One(a.settled) = 0
    BY <1>1 DEF One
  <2> QED
    BY <2>2, <2>3, <2>4
<1>5. /\ Len(t) = k + Len(h) + 1 /\ \A i \in 1 .. k + Len(h) : t[i] = s[i]
      /\ t[k + Len(h) + 1] = BidPlaced(b, a.leadingBid, now)
  BY <1>4 DEF Continued
<1>6. OpeningTold(t, k) /\ BidsTold(h, t, k)
  BY <1>1, <1>4, StillTold
<1>7. PICK e : e = t[k + Len(h) + 1]
  OBVIOUS
<1>8. /\ e.type = "BidPlaced" /\ e.bidCount = Len(h) + 1
      /\ e.bidder = b.leadingBid.bidder /\ e.amount = b.leadingBid.amount
      /\ e.outbid = a.leadingBid.bidder
  BY <1>5, <1>7 DEF BidPlaced, BidRecorded, Backed, HeadMatches
<1>9. a.leadingBid = BidAt(h, Len(h))
  BY <1>1 DEF Backed, HeadMatches
<1>10. e.outbid = IF Len(h) = 0 THEN NoUser ELSE h[Len(h)].bidder
  BY <1>1, <1>8, <1>9 DEF BidAt, ZeroBid
<1>11. BidsTold(g, t, k)
  <2> SUFFICES ASSUME NEW i \in 1 .. Len(h) + 1
               PROVE  /\ t[k + i].type = "BidPlaced" /\ t[k + i].bidCount = i
                      /\ t[k + i].bidder = g[i].bidder /\ t[k + i].amount = g[i].amount
                      /\ t[k + i].outbid = IF i = 1 THEN NoUser ELSE g[i - 1].bidder
    BY <1>1 DEF BidsTold
  <2>1. CASE i \in 1 .. Len(h)
    <3>1. g[i] = h[i] /\ (i # 1 => g[i - 1] = h[i - 1])
      BY <1>1, <2>1
    <3> QED
      BY <1>6, <2>1, <3>1 DEF BidsTold
  <2>2. CASE i = Len(h) + 1
    <3>1. t[k + i] = e /\ g[i] = b.leadingBid
      BY <1>1, <1>7, <2>2
    <3>2. i # 1 => g[i - 1] = h[Len(h)] /\ Len(h) # 0
      BY <1>1, <2>2
    <3> QED
      BY <1>1, <1>8, <1>10, <2>2, <3>1, <3>2
  <2> QED
    BY <1>1, <2>1, <2>2
<1>12. EndTold(b, g, t[k + Len(g) + 1]) /\ AwardTold(b, g, t[k + Len(g) + 2])
       /\ VerdictTold(b, t[Len(t)])
  BY <1>2 DEF EndTold, AwardTold, VerdictTold
<1>13. Len(t) = k + Len(g) + One(b.status \in {"cancelled", "closed"})
                + One(b.winnerReassigned) + One(b.settled)
  BY <1>1, <1>2, <1>3, <1>5 DEF One
<1> QED
  BY <1>2, <1>3, <1>6, <1>11, <1>12, <1>13, TellsParts

\* A recorded bid is not the zero bid.
LEMMA RealBids ==
  ASSUME NEW h \in Seq(Bid), FromUsers(h), NEW i \in Int
  PROVE  (i \in 1 .. Len(h)) => (BidAt(h, i) = h[i] /\ h[i] # ZeroBid)
<1> SUFFICES ASSUME i \in 1 .. Len(h) PROVE BidAt(h, i) = h[i] /\ h[i] # ZeroBid
  OBVIOUS
<1>1. h[i].bidder \in Users
  BY DEF FromUsers
<1>2. h[i] # ZeroBid
  BY <1>1, DomainAssumption DEF ZeroBid
<1> QED
  BY <1>2 DEF BidAt

\* The hammer is told with the last two bids of the history.
LEMMA HammerIsTold ==
  ASSUME NEW a, NEW h, Backed(a, h), a.status = "listed", NEW b, b = Closed(a)
  PROVE  HammerTold(b, h, AuctionClosed(b, now))
<1>1. /\ a \in AuctionRow /\ h \in Seq(Bid) /\ FromUsers(h) /\ Len(h) \in Nat
      /\ ~a.winnerReassigned
  BY DEF Backed, Wellformed
<1>2. a.leadingBid = BidAt(h, Len(h)) /\ a.runnerUpBid = BidAt(h, Len(h) - 1)
  BY <1>1 DEF Backed, HeadMatches
<1>3. /\ b.leadingBid = a.leadingBid /\ b.runnerUpBid = a.runnerUpBid
      /\ b.reserve = a.reserve /\ b.relistGen = a.relistGen
      /\ b.outcome = IF Sold(a) THEN "sold" ELSE "not_sold"
  BY <1>1 DEF Closed, AuctionRow
<1>4. Sold(b) = Sold(a)
  BY <1>3 DEF Sold
<1>5. PICK won \in BOOLEAN : won = (Len(h) > 0 /\ MetBy(b.reserve, h[Len(h)].amount))
  OBVIOUS
<1>6. PICK second \in BOOLEAN :
         second = (Len(h) > 1 /\ MetBy(b.reserve, h[Len(h) - 1].amount))
  OBVIOUS
<1>7. /\ Sold(a) <=> won
      /\ won => a.leadingBid = h[Len(h)]
  <2>1. CASE Len(h) = 0
    <3>1. a.leadingBid = ZeroBid /\ ~(Len(h) > 0)
      BY <1>2, <2>1 DEF BidAt
    <3>2. ~won /\ ~Sold(a)
      BY <1>5, <3>1, Zenon DEF Sold
    <3> QED
      BY <3>2
  <2>2. CASE Len(h) > 0
    <3>1. a.leadingBid = h[Len(h)] /\ h[Len(h)] # ZeroBid
      BY <1>1, <1>2, <2>2, RealBids
    <3> QED
      BY <1>3, <1>5, <2>2, <3>1 DEF Sold
  <2> QED
    BY <1>1, <2>1, <2>2
<1>8. /\ RunnerUpQualifies(b) <=> second
      /\ b.runnerUpBid.bidder = IF Len(h) > 1 THEN h[Len(h) - 1].bidder ELSE NoUser
  <2>1. CASE Len(h) <= 1
    <3>1. b.runnerUpBid = ZeroBid
      BY <1>1, <1>2, <1>3, <2>1 DEF BidAt
    <3> QED
      <4>1. ~(Len(h) > 1) /\ b.runnerUpBid.bidder = NoUser
        BY <1>1, <2>1, <3>1 DEF ZeroBid
      <4>2. ~second /\ ~RunnerUpQualifies(b)
        BY <1>6, <3>1, <4>1, Zenon DEF RunnerUpQualifies
      <4> QED
        BY <4>1, <4>2
  <2>2. CASE Len(h) > 1
    <3>1. b.runnerUpBid = h[Len(h) - 1] /\ h[Len(h) - 1] # ZeroBid
      BY <1>1, <1>2, <1>3, <2>2, RealBids
    <3> QED
      BY <1>6, <2>2, <3>1 DEF RunnerUpQualifies
  <2> QED
    BY <1>1, <2>1, <2>2
<1>9. PICK e : e = AuctionClosed(b, now)
  OBVIOUS
<1>10. /\ e.type = "AuctionClosed" /\ e.outcome = b.outcome
       /\ e.winner = (IF Sold(b) THEN b.leadingBid ELSE ZeroBid).bidder
       /\ e.hammer = (IF Sold(b) THEN b.leadingBid ELSE ZeroBid).amount
       /\ e.runnerUp = b.runnerUpBid.bidder
       /\ e.runnerUpQualifies = RunnerUpQualifies(b)
       /\ e.relistGen = b.relistGen
  BY <1>9 DEF AuctionClosed
<1>11. /\ e.outcome = IF won THEN "sold" ELSE "not_sold"
       /\ e.winner = IF won THEN h[Len(h)].bidder ELSE NoUser
       /\ e.hammer = IF won THEN h[Len(h)].amount ELSE 0
  BY <1>3, <1>4, <1>7, <1>10 DEF ZeroBid
<1>12. e.runnerUpQualifies = second
  <2>1. RunnerUpQualifies(b) \in BOOLEAN
    BY DEF RunnerUpQualifies
  <2> QED
    BY <1>8, <1>10, <2>1
<1> QED
  BY <1>5, <1>6, <1>8, <1>9, <1>10, <1>11, <1>12 DEF HammerTold

\* Every command appends the event that the story needs next.
LEMMA CommandIsTold ==
  ASSUME NEW a, NEW h, NEW s, NEW b, NEW e, NEW t,
         Backed(a, h), Backed(b, h), Tells(a, h, s), Command(a, b, e),
         Continued(s, e, t)
  PROVE  Tells(b, h, t)
<1>1. /\ Len(h) \in Nat /\ a.relistGen \in Nat /\ a \in AuctionRow
      /\ a.settled \in BOOLEAN /\ a.winnerReassigned \in BOOLEAN
      /\ b.settled \in BOOLEAN /\ b.winnerReassigned \in BOOLEAN
  BY BackedParts DEF Backed
<1>2. /\ b.relistGen = a.relistGen /\ b.reserve = a.reserve
  BY <1>1, CommandFacts DEF SameTerms
<1>3. PICK k \in Nat \ {0} : k = 1 + a.relistGen
  BY <1>1
<1>4. PICK n \in Nat : n = 1 + a.relistGen + Len(h)
  BY <1>1
<1>5. /\ Len(s) = n + One(a.status \in {"cancelled", "closed"})
                    + One(a.winnerReassigned) + One(a.settled)
      /\ OpeningTold(s, k) /\ BidsTold(h, s, k)
      /\ EndTold(a, h, s[n + 1]) /\ AwardTold(a, h, s[n + 2])
  BY <1>3, <1>4, TellsParts
<1>6. /\ Len(s) \in Nat /\ Len(t) = Len(s) + 1 /\ t[Len(s) + 1] = e
      /\ \A i \in 1 .. Len(s) : t[i] = s[i]
  BY DEF Continued
<1>7. Len(s) >= k + Len(h) /\ n = k + Len(h)
  <2>1. PICK p \in Nat : p = One(a.status \in {"cancelled", "closed"})
    BY DEF One
  <2>2. PICK q \in Nat : q = One(a.winnerReassigned)
    BY DEF One
  <2>3. PICK r \in Nat : r = One(a.settled)
    BY DEF One
  <2>4. Len(s) = n + p + q + r
    BY <1>5, <2>1, <2>2, <2>3
  <2>5. n = k + Len(h) /\ Len(h) \in Nat
    BY <1>1, <1>3, <1>4
  <2> QED
    BY <2>4, <2>5
<1>8. OpeningTold(t, k) /\ BidsTold(h, t, k)
  BY <1>1, <1>5, <1>7, StillTold
<1>a. ASSUME Len(t) = n + One(b.status \in {"cancelled", "closed"})
                        + One(b.winnerReassigned) + One(b.settled),
             EndTold(b, h, t[n + 1]), AwardTold(b, h, t[n + 2]),
             VerdictTold(b, t[Len(t)])
      PROVE  Tells(b, h, t)
  BY <1>2, <1>3, <1>4, <1>8, <1>a, TellsParts
<1>b. One(TRUE) = 1 /\ One(FALSE) = 0
  BY DEF One
<1>9. ASSUME a.status = "listed"
      PROVE  /\ a.settled = FALSE /\ a.winnerReassigned = FALSE /\ Len(s) = n
  <2>1. a.settled = FALSE /\ a.winnerReassigned = FALSE
    BY <1>1, <1>9 DEF Backed, Orderly, Wellformed
  <2>2. One(a.status \in {"cancelled", "closed"}) = 0 /\ One(a.winnerReassigned) = 0
        /\ One(a.settled) = 0
    BY <1>9, <2>1 DEF One
  <2> QED
    BY <1>5, <2>1, <2>2
<1>10. CASE /\ a.status = "listed" /\ b = Cancelled(a) /\ e = AuctionCancelled
  <2>1. /\ b.status = "cancelled" /\ b.settled = FALSE /\ b.winnerReassigned = FALSE
        /\ Len(t) = n + 1 /\ t[n + 1].type = "AuctionCancelled"
    <3>1. /\ b.status = "cancelled" /\ b.settled = a.settled
          /\ b.winnerReassigned = a.winnerReassigned
          /\ e.type = "AuctionCancelled"
      BY <1>1, <1>10 DEF Cancelled, AuctionCancelled, AuctionRow
    <3>2. a.settled = FALSE /\ a.winnerReassigned = FALSE /\ Len(s) = n
      BY <1>9, <1>10
    <3> QED
      BY <1>6, <3>1, <3>2
  <2>2. /\ One(b.status \in {"cancelled", "closed"}) = 1
        /\ One(b.winnerReassigned) = 0 /\ One(b.settled) = 0
    BY <2>1 DEF One
  <2> QED
    BY <1>a, <2>1, <2>2 DEF EndTold, AwardTold, VerdictTold
<1>11. CASE CanClose(a, now) /\ b = Closed(a) /\ e = AuctionClosed(b, now)
  <2>1. a.status = "listed"
    BY <1>11 DEF CanClose
  <2>2. /\ b.status = "closed" /\ b.settled = FALSE /\ b.winnerReassigned = FALSE
        /\ Len(t) = n + 1 /\ t[n + 1] = e
    BY <1>1, <1>6, <1>9, <1>11, <2>1 DEF Closed, AuctionRow
  <2>3. HammerTold(b, h, e)
    BY <1>11, <2>1, HammerIsTold
  <2>4. /\ One(b.status \in {"cancelled", "closed"}) = 1
        /\ One(b.winnerReassigned) = 0 /\ One(b.settled) = 0
    BY <2>2 DEF One
  <2> QED
    BY <1>a, <2>2, <2>3, <2>4 DEF EndTold, AwardTold, VerdictTold
<1>12. ASSUME a.status = "closed", b.status = "closed", Len(s) >= n + 1
       PROVE  EndTold(b, h, t[n + 1])
  <2>1. t[n + 1] = s[n + 1]
    BY <1>6, <1>12
  <2> QED
    BY <1>2, <1>5, <1>12, <2>1 DEF EndTold, HammerTold
<1>13. CASE CanAward(a) /\ b = Awarded(a) /\ e = WinnerReassigned(b)
  <2>1. /\ a.status = "closed" /\ a.winnerReassigned = FALSE /\ a.settled = FALSE
        /\ a.runnerUpBid # ZeroBid
    BY <1>1, <1>13 DEF CanAward
  <2>2. /\ b.status = "closed" /\ b.winnerReassigned = TRUE /\ b.settled = FALSE
        /\ b.leadingBid = a.runnerUpBid
    BY <1>1, <1>13, <2>1 DEF Awarded, AuctionRow
  <2>3. /\ One(a.status \in {"cancelled", "closed"}) = 1
        /\ One(a.winnerReassigned) = 0 /\ One(a.settled) = 0
        /\ One(b.status \in {"cancelled", "closed"}) = 1
        /\ One(b.winnerReassigned) = 1 /\ One(b.settled) = 0
    BY <2>1, <2>2 DEF One
  <2>4. Len(s) = n + 1 /\ Len(t) = n + 2 /\ t[n + 2] = e
    BY <1>5, <1>6, <2>3
  <2>5. a.runnerUpBid = h[Len(h) - 1]
    BY <1>1, <2>1 DEF Backed, HeadMatches, BidAt
  <2>6. /\ e.type = "WinnerReassigned" /\ e.newWinner = h[Len(h) - 1].bidder
        /\ e.price = h[Len(h) - 1].amount
    BY <1>13, <2>2, <2>5 DEF WinnerReassigned
  <2>7. EndTold(b, h, t[n + 1])
    BY <1>12, <2>1, <2>2, <2>4
  <2> QED
    BY <1>a, <2>2, <2>3, <2>4, <2>6, <2>7 DEF AwardTold, VerdictTold
<1>14. CASE \/ CanConfirm(a) /\ b = Confirmed(a) /\ e = SaleSettledEvent(b)
            \/ CanFailSale(a) /\ b = SaleFailed(a) /\ e = SaleFailedEvent
  <2>1. a.status = "closed" /\ a.settled = FALSE
    BY <1>1, <1>14 DEF CanConfirm, CanFailSale
  <2>2. /\ b.status = "closed" /\ b.winnerReassigned = a.winnerReassigned
        /\ b.settled = TRUE
    BY <1>1, <1>14, <2>1 DEF Confirmed, SaleFailed, AuctionRow
  <2>3. VerdictTold(b, e)
    <3>1. CASE CanConfirm(a) /\ b = Confirmed(a) /\ e = SaleSettledEvent(b)
      <4>1. b.outcome = "sold" /\ e.type = "SaleSettled" /\ e.winner = b.leadingBid.bidder
        BY <1>1, <3>1 DEF CanConfirm, Confirmed, SaleSettledEvent, AuctionRow
      <4> QED
        BY <4>1 DEF VerdictTold
    <3>2. CASE b = SaleFailed(a) /\ e = SaleFailedEvent
      <4>1. b.outcome = "not_sold" /\ e.type = "SaleFailed"
        BY <1>1, <3>2 DEF SaleFailed, SaleFailedEvent, AuctionRow
      <4> QED
        BY <4>1 DEF VerdictTold
    <3> QED
      BY <1>14, <3>1, <3>2
  <2>4. /\ One(a.status \in {"cancelled", "closed"}) = 1 /\ One(a.settled) = 0
        /\ One(b.status \in {"cancelled", "closed"}) = 1 /\ One(b.settled) = 1
        /\ One(a.winnerReassigned) \in {0, 1}
        /\ a.winnerReassigned => One(a.winnerReassigned) = 1
        /\ One(b.winnerReassigned) = One(a.winnerReassigned)
    BY <2>1, <2>2 DEF One
  <2>5. Len(s) = n + 1 + One(a.winnerReassigned) /\ Len(t) = Len(s) + 1 /\ t[Len(t)] = e
    BY <1>5, <1>6, <2>4
  <2>6. EndTold(b, h, t[n + 1])
    BY <1>12, <2>1, <2>2, <2>4, <2>5
  <2>7. AwardTold(b, h, t[n + 2])
    <3>1. CASE a.winnerReassigned
      <4>1. t[n + 2] = s[n + 2]
        <5>1. Len(s) = n + 1 + 1
          BY <2>4, <2>5, <3>1
        <5> QED
          BY <1>6, <5>1
      <4> QED
        BY <1>5, <2>2, <3>1, <4>1 DEF AwardTold
    <3>2. CASE ~a.winnerReassigned
      BY <2>2, <3>2 DEF AwardTold
    <3> QED
      BY <3>1, <3>2
  <2> QED
    BY <1>a, <2>3, <2>4, <2>5, <2>6, <2>7
<1> QED
  BY <1>10, <1>11, <1>13, <1>14 DEF Command

\* A row that appears comes with its opening.
LEMMA OpeningIsTold ==
  ASSUME NEW b, NEW h, Backed(b, h), Len(h) = 0, b.status = "listed",
         b.settled = FALSE, b.winnerReassigned = FALSE, NEW t,
         \/ b.relistGen = 0 /\ t = <<AuctionListed(b)>>
         \/ b.relistGen = 1 /\ t = <<AuctionListed(b), AuctionRelisted(b)>>
  PROVE  Tells(b, h, t) /\ IsSeq(t)
<1>1. /\ One(b.status \in {"cancelled", "closed"}) = 0
      /\ One(b.winnerReassigned) = 0 /\ One(b.settled) = 0
  BY DEF One
<1>n. PICK n : n = 1 + b.relistGen + Len(h)
  OBVIOUS
<1>2. /\ BidsTold(h, t, 1 + b.relistGen) /\ VerdictTold(b, t[Len(t)])
      /\ EndTold(b, h, t[n + 1]) /\ AwardTold(b, h, t[n + 2])
  BY DEF BidsTold, EndTold, AwardTold, VerdictTold
<1>3. CASE b.relistGen = 0 /\ t = <<AuctionListed(b)>>
  <2>1. Len(t) = 1 /\ t[1].type = "AuctionListed" /\ t \in Seq({AuctionListed(b)})
    BY <1>3 DEF AuctionListed
  <2>2. OpeningTold(t, 1 + b.relistGen)
    BY <1>3, <2>1 DEF OpeningTold
  <2>3. n = 1
    BY <1>n, <1>3
  <2>4. Len(t) = n + One(b.status \in {"cancelled", "closed"})
                   + One(b.winnerReassigned) + One(b.settled)
    BY <1>1, <2>1, <2>3
  <2>5. Tells(b, h, t)
    BY <1>n, <1>2, <2>2, <2>4, TellsParts
  <2> QED
    BY <2>1, <2>5 DEF IsSeq
<1>4. CASE b.relistGen = 1 /\ t = <<AuctionListed(b), AuctionRelisted(b)>>
  <2>1. /\ Len(t) = 2 /\ t[1].type = "AuctionListed" /\ t[2].type = "AuctionRelisted"
        /\ t \in Seq({AuctionListed(b), AuctionRelisted(b)})
    BY <1>4 DEF AuctionListed, AuctionRelisted
  <2>2. OpeningTold(t, 1 + b.relistGen)
    BY <1>4, <2>1 DEF OpeningTold
  <2>3. n = 2
    BY <1>n, <1>4
  <2>4. Len(t) = n + One(b.status \in {"cancelled", "closed"})
                   + One(b.winnerReassigned) + One(b.settled)
    BY <1>1, <2>1, <2>3
  <2>5. Tells(b, h, t)
    BY <1>n, <1>2, <2>2, <2>4, TellsParts
  <2> QED
    BY <2>1, <2>5 DEF IsSeq
<1> QED
  BY <1>3, <1>4

\* What is appended to an empty outbox is the outbox.
LEMMA FirstEvents ==
  ASSUME NEW e, NEW f
  PROVE  <<>> \o <<e>> = <<e>> /\ <<>> \o <<e, f>> = <<e, f>>
<1>1. <<e>> \in Seq({e, f}) /\ <<e, f>> \in Seq({e, f})
  OBVIOUS
<1> QED
  BY <1>1, ConcatEmptySeq

\* The stream of an id.
Streamed(a, h, s) ==
  /\ IsSeq(s)
  /\ IF a.status = "absent" THEN s = <<>> ELSE Tells(a, h, s)

SInv ==
  /\ OInv
  /\ \A id \in AuctionIDs : Streamed(auctions[id], bids[id], published[id])

LEMMA StreamStep == SInv /\ [Next]_vars => SInv'
<1> SUFFICES ASSUME SInv, [Next]_vars PROVE SInv'
  OBVIOUS
<1>1. TypeOK /\ TypeOK' /\ OInv' /\ OneWrite
  BY OrderlyStep, WriteCases DEF SInv, OInv, IInv
<1> SUFFICES ASSUME NEW y \in AuctionIDs
             PROVE  Streamed(auctions'[y], bids'[y], published'[y])
  BY <1>1 DEF SInv
<1>2. PICK a, h, s : a = auctions[y] /\ h = bids[y] /\ s = published[y]
  OBVIOUS
<1>3. PICK b, g, t : b = auctions'[y] /\ g = bids'[y] /\ t = published'[y]
  OBVIOUS
<1>4. Backed(a, h) /\ Streamed(a, h, s)
  BY <1>1, <1>2 DEF SInv, OInv, IInv, TypeOK, HeadMatchesHistory, Backed
<1>5. Backed(b, g)
  <2>1. /\ auctions'[y] \in AuctionRow /\ bids'[y] \in Seq(Bid)
        /\ (Wellformed(auctions[y]) /\ Orderly(auctions[y]))'
        /\ (HeadMatches(auctions[y], bids[y]) /\ FromUsers(bids[y]))'
    BY <1>1 DEF OInv, IInv, TypeOK, HeadMatchesHistory
  <2>2. Wellformed(b) /\ Orderly(b) /\ HeadMatches(b, g) /\ FromUsers(g)
    BY <1>3, <2>1 DEF Wellformed, Orderly, HeadMatches, FromUsers, BidAt
  <2> QED
    BY <1>3, <2>1, <2>2 DEF Backed
<1>6. CASE b = a /\ g = h /\ t = s
  BY <1>3, <1>4, <1>6
<1>7. CASE /\ a.status = "absent" /\ g = h
           /\ WritesListing(y, b) \/ WritesRelist(y, b)
  <2>0. s = <<>>
    BY <1>4, <1>7 DEF Streamed
  <2>1. Len(g) = 0
    BY <1>4, <1>7 DEF Backed, Wellformed, HeadMatches
  <2>2. CASE WritesListing(y, b)
    <3>1. PICK l \in Listings :
            /\ b = New(l.seller, l.startPrice, l.increment, l.reserve, l.window, l.rules)
            /\ t = <<AuctionListed(b)>>
      BY <1>2, <1>3, <2>2, <2>0, FirstEvents DEF WritesListing
    <3>2. l.rules \in ListingRules
      BY ListingParts
    <3>3. NewListing(b, l.seller, l.startPrice, l.increment, l.reserve,
                     l.rules, NoAuctionID, 0)
      BY <3>1, <3>2, ListingFacts DEF New
    <3> QED
      BY <1>3, <1>5, <2>1, <3>1, <3>3, OpeningIsTold DEF NewListing, Streamed
  <2>3. CASE WritesRelist(y, b)
    <3>1. PICK o \in AuctionIDs, w \in RelistWindows :
            /\ auctions[o].status # "absent" /\ CanRelist(auctions[o])
            /\ b = RelistedFrom(auctions[o], o, w)
            /\ t = <<AuctionListed(b), AuctionRelisted(b)>>
      BY <1>2, <1>3, <2>3, <2>0, FirstEvents DEF WritesRelist
    <3>2. PICK c : c = auctions[o]
      OBVIOUS
    <3>3. c.rules \in ListingRules /\ c.relistGen \in Nat
      BY <1>1, <3>2 DEF TypeOK, AuctionRow
    <3>4. NewListing(b, c.seller, c.startPrice, c.increment, c.reserve,
                     c.rules, o, c.relistGen + 1)
      BY <3>1, <3>2, <3>3, ListingFacts DEF RelistedFrom
    <3>5. c.relistGen + 1 = 1
      BY <3>1, <3>2, <3>3 DEF CanRelist
    <3> QED
      BY <1>3, <1>5, <2>1, <3>1, <3>4, <3>5, OpeningIsTold DEF NewListing, Streamed
  <2> QED
    BY <1>7, <2>2, <2>3
<1>8. CASE WritesBid(y, a, b)
  <2>1. PICK req \in inflight :
          /\ CanPlaceBid(a, req.bidder, req.verified, req.amount, now)
          /\ b = WithBid(a, req.bidder, req.amount, now)
          /\ g = Append(h, b.leadingBid)
          /\ t = s \o <<BidPlaced(b, a.leadingBid, now)>>
    BY <1>2, <1>3, <1>8 DEF WritesBid
  <2>2. a \in AuctionRow /\ h \in Seq(Bid) /\ b \in AuctionRow
    BY <1>4, <1>5 DEF Backed
  <2>3. BidKeeps(a, b) /\ BidRecorded(a, b, req)
    BY <2>1, <2>2, WithBidKeeps, WithBidRecords
  <2>4. b.leadingBid \in Bid
    BY <2>2 DEF AuctionRow
  <2>5. /\ Len(g) = Len(h) + 1 /\ \A i \in 1 .. Len(h) : g[i] = h[i]
        /\ g[Len(h) + 1] = b.leadingBid
    BY <2>1, <2>2, <2>4, AppendFacts
  <2>6. a.status = "listed" /\ Tells(a, h, s) /\ IsSeq(s)
    BY <1>4, <2>1 DEF CanPlaceBid, IsOpenAt, Streamed
  <2>7. Continued(s, BidPlaced(b, a.leadingBid, now), t)
    BY <2>1, <2>6, ConcatContinues
  <2>8. Tells(b, g, t)
    BY <1>4, <1>5, <2>3, <2>5, <2>6, <2>7, BidIsTold
  <2>9. b.status = "listed" /\ IsSeq(t)
    BY <2>3, <2>6, <2>7 DEF BidKeeps, Continued
  <2> QED
    BY <1>3, <2>8, <2>9 DEF Streamed
<1>9. CASE WritesCommand(y, a, b)
  <2>1. PICK e : Command(a, b, e) /\ g = h /\ t = s \o <<e>>
    BY <1>2, <1>3, <1>9 DEF WritesCommand
  <2>2. a.status \in {"listed", "closed"} /\ b.status \in {"cancelled", "closed"}
    BY <1>4, <2>1, CommandFacts DEF Backed
  <2>3. Tells(a, h, s) /\ IsSeq(s)
    BY <1>4, <2>2 DEF Streamed
  <2>4. Continued(s, e, t)
    BY <2>1, <2>3, ConcatContinues
  <2>5. Tells(b, h, t)
    BY <1>4, <1>5, <2>1, <2>3, <2>4, CommandIsTold
  <2>6. IsSeq(t) /\ b.status # "absent"
    BY <2>2, <2>4 DEF Continued
  <2> QED
    BY <1>3, <2>1, <2>5, <2>6 DEF Streamed
<1> QED
  BY <1>1, <1>2, <1>3, <1>6, <1>7, <1>8, <1>9 DEF OneWrite, OthersStay, WritesRow

\* The outbox tells the whole story of every auction, once and in order:
\* listing, bids with whom they outbid, the end with the hammer price and the
\* runner-up, the reassignment and the verdict.
THEOREM StreamCorrect == Spec => []StreamMirrorsRow
<1>1. Init => SInv
  <2> SUFFICES ASSUME Init PROVE SInv
    OBVIOUS
  <2>1. OInv
    <3>1. ASSUME NEW id \in AuctionIDs
          PROVE  auctions[id] = NoRow /\ bids[id] = <<>>
      BY DEF Init
    <3>2. Orderly(NoRow) /\ FromUsers(<<>>)
      BY DEF Orderly, NoRow, FromUsers
    <3> QED
      BY <3>1, <3>2, InitIInv DEF OInv
  <2>2. ASSUME NEW id \in AuctionIDs
        PROVE  Streamed(auctions[id], bids[id], published[id])
    <3>1. auctions[id].status = "absent" /\ published[id] = <<>>
      BY DEF Init, NoRow
    <3>2. <<>> \in Seq({})
      OBVIOUS
    <3> QED
      BY <3>1, <3>2 DEF Streamed, IsSeq
  <2> QED
    BY <2>1, <2>2 DEF SInv
<1>2. SInv => StreamMirrorsRow
  BY DEF SInv, Streamed, StreamMirrorsRow
<1> QED
  BY <1>1, <1>2, StreamStep, PTL DEF Spec
==============================================================================
