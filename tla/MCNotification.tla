--------------------------- MODULE MCNotification ---------------------------
(* Instances of Notification for TLC.                                      *)
EXTENDS Notification, FiniteSets

CONSTANTS s1, b1, b2, a1, a2

Registration(id, user) ==
  [id |-> id, type |-> "ParticipantRegistered", participant |-> user]

Verification(id) == [id |-> id, type |-> "ParticipantVerified"]

Listing(id, auction, gen) ==
  [id |-> id, type |-> "AuctionListed", auction |-> auction, seller |-> s1,
   relistGen |-> gen]

Bid(id, outbid) == [id |-> id, type |-> "BidPlaced", outbid |-> outbid]

Closing(id, winner) ==
  [id |-> id, type |-> "AuctionClosed", auction |-> a1, seller |-> s1,
   outcome |-> IF winner = NoUser THEN "not_sold" ELSE "sold",
   winner |-> winner]

Reassignment(id) ==
  [id |-> id, type |-> "WinnerReassigned", newWinner |-> b2]

Verdict(id, type) == [id |-> id, type |-> type, auction |-> a1]

Invoice(id, type) == [id |-> id, type |-> type, debtor |-> b1]

\* b1 outbids nobody, b2 outbids b1, and the auction closes without a sale;
\* a sale that settles; a sale that fails and is relisted; the payments.
SomeHistories ==
  {{Registration(1, s1), Registration(2, b1), Bid(3, NoUser), Bid(4, b1),
    Closing(5, NoUser)},
   {Registration(1, s1), Registration(2, b1), Listing(3, a1, 0),
    Closing(4, b1), Verdict(5, "SaleSettled")},
   {Registration(1, s1), Registration(2, b2), Reassignment(3),
    Verdict(4, "SaleFailed"), Listing(5, a1, 0), Listing(6, a2, 1)},
   {Registration(1, b1), Verification(2), Invoice(3, "InvoiceIssued"),
    Invoice(4, "InvoicePaid")}}

\* The messages of one type, in the order of their ids.
Stream(messages, g) ==
  LET mine == {e \in messages : e.type = g}
  IN  CHOOSE s \in [1 .. Cardinality(mine) -> mine] :
        \A i, j \in DOMAIN s : i < j => s[i].id < s[j].id

SomeBacklogs == {[g \in Groups |-> Stream(h, g)] : h \in SomeHistories}
=============================================================================
