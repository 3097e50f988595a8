------------------------------- MODULE Auction -------------------------------
(***************************************************************************)
(* The auction context at work: the command handlers of                    *)
(* internal/auction/app/command over the Postgres repository, the bid      *)
(* handlers in flight, and the closing workers of one or more replicas.    *)
(*                                                                         *)
(* Repository.update takes the row lock, runs the closure, saves the row,  *)
(* appends the accepted bid to auction_bids and publishes the mapped       *)
(* events in one transaction, so each command is one step.  Two places     *)
(* read before the lock, and are steps of their own: PlaceBid reads the    *)
(* bidder's profile, and a closing worker scans for candidates.  The saga  *)
(* calls the facade's four commands; here it may call them at any time.    *)
(***************************************************************************)
EXTENDS AuctionDomain, Sequences, FiniteSets

CONSTANTS
  Listings,        \* the bodies of the ListAuction requests that may arrive
  RelistWindows,   \* the windows a relist may ask for
  EarlyVerified,   \* bidders verified before the first listing
  Replicas,        \* instances of the monolith, each with a closing worker
  CandidateLimit,  \* closingCandidateLimit
  MaxTime,         \* bound on the clock
  MaxInflight      \* bound on bid handlers between profile read and lock

Window == [startsAt : Nat, endsAt : Nat]

ASSUME AuctionAssumption ==
  /\ Listings \subseteq [seller : Users, startPrice : Amounts,
                         increment : Amounts, reserve : Amounts \cup {0},
                         window : Window, rules : ListingRules]
  /\ RelistWindows \subseteq Window
  /\ EarlyVerified \subseteq Users
  /\ CandidateLimit \in Nat \ {0}
  /\ MaxTime \in Nat /\ MaxInflight \in Nat

VARIABLES
  auctions,   \* the table auction.auctions
  bids,       \* auction.auction_bids, oldest first, per auction
  published,  \* the integration events written to the outbox, per auction
  verified,   \* bidders whose profile row says verified
  inflight,   \* PlaceBid handlers that hold a profile and not yet the lock
  due,        \* per replica, the candidates of the running worker tick
  now         \* the clock

vars == <<auctions, bids, published, verified, inflight, due, now>>

BidRequest == [auction : AuctionIDs, bidder : Users, amount : Amounts,
               verified : BOOLEAN]

Init ==
  /\ auctions = [id \in AuctionIDs |-> NoRow]
  /\ bids = [id \in AuctionIDs |-> <<>>]
  /\ published = [id \in AuctionIDs |-> <<>>]
  /\ verified = EarlyVerified
  /\ inflight = {}
  /\ due = [r \in Replicas |-> {}]
  /\ now = 1

-----------------------------------------------------------------------------
(* The repository.                                                         *)

\* Mutation: no unique index on relist_of.
InsertsAnyRelist(id, a) == auctions[id].status = "absent"

\* Add: a taken id is a silent no-op, a second relist of one original too.
Inserts(id, a) ==
  /\ auctions[id].status = "absent"
  /\ a.relistOf # NoAuctionID =>
       \A other \in AuctionIDs : auctions[other].relistOf # a.relistOf

Insert(id, a, events) ==
  /\ Inserts(id, a)
  /\ auctions' = [auctions EXCEPT ![id] = a]
  /\ published' = [published EXCEPT ![id] = @ \o events]

\* update: the row exists, can be loaded, and is saved with its events.
Save(id, a, events) ==
  /\ auctions[id].status # "absent"
  /\ Loadable(auctions[id])
  /\ auctions' = [auctions EXCEPT ![id] = a]
  /\ published' = [published EXCEPT ![id] = @ \o events]

-----------------------------------------------------------------------------
(* Users' commands.                                                        *)

ListAuction(id, l) ==
  LET a == New(l.seller, l.startPrice, l.increment, l.reserve, l.window,
               l.rules)
  IN  /\ ValidWindow(l.window, now)
      /\ Insert(id, a, <<AuctionListed(a)>>)
      /\ UNCHANGED <<bids, verified, inflight, due, now>>

\* PlaceBidHandler.Handle up to the profile: read without any lock.
ReadBidder(id, bidder, amount) ==
  /\ Cardinality(inflight) < MaxInflight
  /\ inflight' = inflight \cup
       {[auction |-> id, bidder |-> bidder, amount |-> amount,
         verified |-> bidder \in verified]}
  /\ UNCHANGED <<auctions, bids, published, verified, due, now>>

\* The rest of the handler, under the row lock, with the profile read above.
PlaceBid(req) ==
  LET a == auctions[req.auction]
      b == WithBid(a, req.bidder, req.amount, now)
  IN  /\ CanPlaceBid(a, req.bidder, req.verified, req.amount, now)
      /\ Save(req.auction, b, <<BidPlaced(b, a.leadingBid, now)>>)
      /\ bids' = [bids EXCEPT ![req.auction] = Append(@, b.leadingBid)]
      /\ inflight' = inflight \ {req}
      /\ UNCHANGED <<verified, due, now>>

\* A guard of the cascade failed, or there is no loadable row.
RejectBid(req) ==
  /\ \/ ~Loadable(auctions[req.auction])
     \/ ~CanPlaceBid(auctions[req.auction], req.bidder, req.verified,
                     req.amount, now)
  /\ inflight' = inflight \ {req}
  /\ UNCHANGED <<auctions, bids, published, verified, due, now>>

CancelAuction(id, by) ==
  /\ CanCancel(auctions[id], by)
  /\ Save(id, Cancelled(auctions[id]), <<AuctionCancelled>>)
  /\ UNCHANGED <<bids, verified, inflight, due, now>>

\* The profile projection handles ParticipantVerified.
MarkVerified(bidder) ==
  /\ verified' = verified \cup {bidder}
  /\ UNCHANGED <<auctions, bids, published, inflight, due, now>>

-----------------------------------------------------------------------------
(* The closing worker.                                                     *)

DueNow == {id \in AuctionIDs : auctions[id].status = "listed"
                               /\ auctions[id].endsAt <= now}

\* A batch of DueForClosing: ORDER BY ends_at LIMIT CandidateLimit.
IsBatch(S, all) ==
  /\ S \subseteq all
  /\ Cardinality(S) <= CandidateLimit
  /\ S = all \/ Cardinality(S) = CandidateLimit
  /\ \A id \in S, other \in all \ S :
       auctions[id].endsAt <= auctions[other].endsAt

ScanDue(r) ==
  /\ due[r] = {}
  /\ \E S \in SUBSET AuctionIDs : /\ S # {}
                                  /\ IsBatch(S, DueNow)
                                  /\ due' = [due EXCEPT ![r] = S]
  /\ UNCHANGED <<auctions, bids, published, verified, inflight, now>>

\* CloseAuctionHandler.Handle for a candidate of the batch.
CloseAuction(r, id) ==
  LET a == Closed(auctions[id])
  IN  /\ id \in due[r]
      /\ CanClose(auctions[id], now)
      /\ Save(id, a, <<AuctionClosed(a, now)>>)
      /\ due' = [due EXCEPT ![r] = @ \ {id}]
      /\ UNCHANGED <<bids, verified, inflight, now>>

\* Already closed, cancelled or extended since the scan, or not loadable:
\* the handler's error is benign or logged, and the batch goes on.
SkipCandidate(r, id) ==
  /\ id \in due[r]
  /\ ~CanClose(auctions[id], now) \/ ~Loadable(auctions[id])
  /\ due' = [due EXCEPT ![r] = @ \ {id}]
  /\ UNCHANGED <<auctions, bids, published, verified, inflight, now>>

\* The replica restarts in the middle of a batch.
WorkerRestart(r) ==
  /\ due[r] # {}
  /\ due' = [due EXCEPT ![r] = {}]
  /\ UNCHANGED <<auctions, bids, published, verified, inflight, now>>

-----------------------------------------------------------------------------
(* The facade: what the saga may ask for.                                  *)

AwardToRunnerUp(id) ==
  LET a == Awarded(auctions[id])
  IN  /\ CanAward(auctions[id])
      /\ Save(id, a, <<WinnerReassigned(a)>>)
      /\ UNCHANGED <<bids, verified, inflight, due, now>>

ConfirmSettlement(id) ==
  LET a == Confirmed(auctions[id])
  IN  /\ CanConfirm(auctions[id])
      /\ Save(id, a, <<SaleSettledEvent(a)>>)
      /\ UNCHANGED <<bids, verified, inflight, due, now>>

MarkSaleFailed(id) ==
  /\ CanFailSale(auctions[id])
  /\ Save(id, SaleFailed(auctions[id]), <<SaleFailedEvent>>)
  /\ UNCHANGED <<bids, verified, inflight, due, now>>

RelistAuction(id, newID, w) ==
  LET a == RelistedFrom(auctions[id], id, w)
  IN  /\ auctions[id].status # "absent" /\ Loadable(auctions[id])
      /\ CanRelist(auctions[id])
      /\ ValidWindow(w, now)
      /\ Insert(newID, a, <<AuctionListed(a), AuctionRelisted(a)>>)
      /\ UNCHANGED <<bids, verified, inflight, due, now>>

-----------------------------------------------------------------------------

Tick ==
  /\ now < MaxTime
  /\ now' = now + 1
  /\ UNCHANGED <<auctions, bids, published, verified, inflight, due>>

UserStep ==
  \/ \E id \in AuctionIDs, l \in Listings : ListAuction(id, l)
  \/ \E id \in AuctionIDs, b \in Users, m \in Amounts : ReadBidder(id, b, m)
  \/ \E req \in inflight : PlaceBid(req) \/ RejectBid(req)
  \/ \E id \in AuctionIDs, by \in Users : CancelAuction(id, by)
  \/ \E b \in Users : MarkVerified(b)

WorkerStep ==
  \E r \in Replicas :
    \/ ScanDue(r)
    \/ \E id \in AuctionIDs : CloseAuction(r, id) \/ SkipCandidate(r, id)
    \/ WorkerRestart(r)

FacadeStep ==
  \E id \in AuctionIDs :
    \/ AwardToRunnerUp(id)
    \/ ConfirmSettlement(id)
    \/ MarkSaleFailed(id)
    \/ \E newID \in AuctionIDs, w \in RelistWindows :
         RelistAuction(id, newID, w)

Next == UserStep \/ WorkerStep \/ FacadeStep \/ Tick

Spec == Init /\ [][Next]_vars

\* Fairness: the clock runs, and every replica's ticker keeps scanning and
\* working through its batch (worker.go Run); a candidate that keeps
\* reappearing in batches is eventually closed, restarts or not.
Fairness ==
  /\ WF_vars(Tick)
  /\ \A r \in Replicas :
       /\ WF_vars(ScanDue(r) \/ \E id \in AuctionIDs : SkipCandidate(r, id))
       /\ \A id \in AuctionIDs : SF_vars(CloseAuction(r, id))

LiveSpec == Spec /\ Fairness

-----------------------------------------------------------------------------
(* Properties.                                                             *)

\* The type invariant.
TypeOK ==
  /\ auctions \in [AuctionIDs -> AuctionRow]
  /\ bids \in [AuctionIDs -> Seq(Bid)]
  /\ DOMAIN published = AuctionIDs
  /\ verified \subseteq Users
  /\ inflight \subseteq BidRequest
  /\ due \in [Replicas -> SUBSET AuctionIDs]
  /\ now \in Nat

\* No sum of two submitted amounts leaves int64.
NoOverflow == \A x, y \in Amounts : x + y <= MaxInt

\* The history s of row a obeys the increment.
Climbs(a, s) ==
  \A i \in 1 .. Len(s) :
    /\ s[i].bidder # a.seller
    /\ i = 1 => s[i].amount >= a.startPrice
    /\ i > 1 => /\ s[i].amount >= s[i - 1].amount + a.increment
                /\ s[i].bidder # s[i - 1].bidder

\* However bid handlers interleave, the accepted bids of an auction climb:
\* the first reaches the start price, each later one tops the one before it
\* by at least the increment and comes from somebody else, and none is the
\* seller's (the guard cascade of PlaceBid over the whole history, although
\* the aggregate only sees the top two bids).
BidLadder == \A id \in AuctionIDs : Climbs(auctions[id], bids[id])

\* The k-th bid, or the zero bid.
BidAt(s, k) == IF k >= 1 THEN s[k] ELSE ZeroBid

HeadMatches(a, s) ==
  /\ a.bidCount = Len(s)
  /\ a.winnerReassigned =>
       /\ Len(s) >= 2
       /\ a.leadingBid = BidAt(s, Len(s) - 1) /\ a.runnerUpBid = ZeroBid
  /\ ~a.winnerReassigned =>
       /\ a.leadingBid = BidAt(s, Len(s))
       /\ a.runnerUpBid = BidAt(s, Len(s) - 1)

\* The denormalised head of the aggregate (ADR-0003) is the end of the
\* append-only history: leading and runner-up are its last two bids, and
\* after AwardToRunnerUp the leader is the last but one.
HeadMatchesHistory == \A id \in AuctionIDs : HeadMatches(auctions[id], bids[id])

InTime(a, s) ==
  /\ \A i \in 1 .. Len(s) :
       /\ a.startsAt <= s[i].placedAt /\ s[i].placedAt < a.endsAt
       /\ s[i].placedAt <= now
       /\ i > 1 => s[i - 1].placedAt <= s[i].placedAt
  /\ a.status = "closed" => a.endsAt <= now

\* No bid is accepted outside the window in force, bids are recorded in the
\* order of time, and the hammer never falls before the extended deadline:
\* every bid of a closed auction was placed before it closed.
BidsBeforeHammer == \A id \in AuctionIDs : InTime(auctions[id], bids[id])

Accounted(a) ==
  /\ a.endsAt = a.originalEndsAt + a.extensionsUsed * a.rules.extension
  /\ a.extensionsUsed <= a.rules.maxExtensions
  /\ a.extensionsUsed <= a.bidCount

\* The deadline has moved only by whole anti-snipe extensions, each paid for
\* by a bid, and never beyond the cap of the policy snapshot.
DeadlineAccounted == \A id \in AuctionIDs : Accounted(auctions[id])

Cleared(a, s) ==
  \A i \in 1 .. Len(s) :
    s[i].amount >= a.rules.verifyAbove => s[i].bidder \in verified

\* A bid at or above the threshold in the auction's snapshot belongs to a
\* verified bidder, although the profile was read before the lock was taken.
HighBidsVerified == \A id \in AuctionIDs : Cleared(auctions[id], bids[id])

\* However often and under whatever ids a relist is repeated, an auction has
\* at most one replacement, a replacement has none, and it repeats the terms
\* of its original.
OneRelist ==
  \A x, y \in AuctionIDs :
    LET a == auctions[x]
        o == auctions[y]
    IN  /\ a.relistGen = (IF a.relistOf = NoAuctionID THEN 0 ELSE 1)
        /\ a.relistOf = y => /\ o.status # "absent" /\ o.relistGen = 0
                             /\ a.seller = o.seller
                             /\ a.startPrice = o.startPrice
                             /\ a.increment = o.increment
                             /\ a.reserve = o.reserve /\ a.rules = o.rules
        /\ x # y /\ a.relistOf # NoAuctionID => a.relistOf # o.relistOf

One(p) == IF p THEN 1 ELSE 0

\* The k events before the first bid.
OpeningTold(s, k) ==
  s[1].type = "AuctionListed" /\ (k = 2 => s[2].type = "AuctionRelisted")

\* After k events, one for each of the bids b.
BidsTold(b, s, k) ==
  \A i \in 1 .. Len(b) :
    /\ s[k + i].type = "BidPlaced" /\ s[k + i].bidCount = i
    /\ s[k + i].bidder = b[i].bidder /\ s[k + i].amount = b[i].amount
    /\ s[k + i].outbid = IF i = 1 THEN NoUser ELSE b[i - 1].bidder

\* The event e of the end of row a with the bids b.
HammerTold(a, b, e) ==
  LET n == Len(b)
      won == n > 0 /\ MetBy(a.reserve, b[n].amount)
  IN  /\ e.type = "AuctionClosed" /\ e.relistGen = a.relistGen
      /\ e.outcome = IF won THEN "sold" ELSE "not_sold"
      /\ e.winner = IF won THEN b[n].bidder ELSE NoUser
      /\ e.hammer = IF won THEN b[n].amount ELSE 0
      /\ e.runnerUp = IF n > 1 THEN b[n - 1].bidder ELSE NoUser
      /\ e.runnerUpQualifies = (n > 1 /\ MetBy(a.reserve, b[n - 1].amount))

EndTold(a, b, e) ==
  /\ a.status = "cancelled" => e.type = "AuctionCancelled"
  /\ a.status = "closed" => HammerTold(a, b, e)

AwardTold(a, b, e) ==
  a.winnerReassigned =>
    /\ e.type = "WinnerReassigned"
    /\ e.newWinner = b[Len(b) - 1].bidder /\ e.price = b[Len(b) - 1].amount

VerdictTold(a, e) ==
  a.settled => IF a.outcome = "sold"
                 THEN e.type = "SaleSettled" /\ e.winner = a.leadingBid.bidder
                 ELSE e.type = "SaleFailed"

\* The events s tell the story of row a with the bids b.
Tells(a, b, s) ==
  LET k == 1 + a.relistGen
      n == k + Len(b)
  IN  /\ Len(s) = n + One(a.status \in {"cancelled", "closed"})
                    + One(a.winnerReassigned) + One(a.settled)
      /\ OpeningTold(s, k) /\ BidsTold(b, s, k)
      /\ EndTold(a, b, s[n + 1])
      /\ AwardTold(a, b, s[n + 2])
      /\ VerdictTold(a, s[Len(s)])

\* The outbox tells the whole story, once and in order: listed, relisted for
\* a replacement, one BidPlaced per recorded bid naming the bidder it outbid,
\* then cancelled or closed with the last bid as the hammer price exactly
\* when the reserve is met, then at most one reassignment and one verdict.
StreamMirrorsRow ==
  \A id \in AuctionIDs :
    IF auctions[id].status = "absent"
      THEN published[id] = <<>>
      ELSE Tells(auctions[id], bids[id], published[id])

\* A bid that lands in the last moments leaves the others time to answer:
\* after it, more than the snipe window or a whole extension remains, unless
\* the extensions of this auction are used up.
SnipersAnswered ==
  [][\A id \in AuctionIDs :
       LET a == auctions'[id]
       IN  (a.bidCount > auctions[id].bidCount
            /\ auctions[id].extensionsUsed < a.rules.maxExtensions)
           => \/ a.endsAt - now > a.rules.snipeWindow
              \/ a.endsAt - now > a.rules.extension]_vars

\* The hammer is final: an auction never returns to an earlier status, its
\* terms never change, a finished one takes no bid and keeps its deadline,
\* and a settled one does not change at all.
HammerFinal ==
  [][\A id \in AuctionIDs :
       LET a == auctions[id]
           b == auctions'[id]
       IN  /\ a.status # "absent" =>
                /\ b.status # "absent" /\ b.endsAt >= a.endsAt
                /\ <<b.seller, b.startPrice, b.increment, b.reserve, b.rules>>
                     = <<a.seller, a.startPrice, a.increment, a.reserve, a.rules>>
           /\ a.status \in {"cancelled", "closed"} =>
                /\ b.status = a.status /\ b.endsAt = a.endsAt
                /\ bids'[id] = bids[id]
           /\ a.settled => b = a]_vars

\* Every listing comes to an end: bids extend the deadline only finitely
\* often, and a candidate dropped by a restart or skipped because a bid
\* extended it is found again by a later scan.
EveryListingEnds ==
  \A id \in AuctionIDs :
    auctions[id].status = "listed" ~> auctions[id].status # "listed"
==============================================================================
