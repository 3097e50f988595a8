--------------------------- MODULE ProjectionsProofs ---------------------------
(***************************************************************************)
(* Proofs about Projections, for all terms of the listing, all bidders and *)
(* amounts and any number of bids, retries and faults: the catalog loses   *)
(* no bid and asks for what PlaceBid accepts, neither table goes back, and *)
(* a settled sale stays settled.                                           *)
(***************************************************************************)
EXTENDS Projections, BusProofs

-----------------------------------------------------------------------------
(* The inductive invariant.                                                *)

User == Users \cup {NoUser}

ListedMsg == [type : {"AuctionListed"}, relistGen : Nat, endsAt : Nat]

BidMsg == [type : {"BidPlaced"}, bidder : User, amount : Nat, bidCount : Nat,
           outbid : User, endsAt : Nat, at : Nat]

ClosedMsg ==
  [type : {"AuctionClosed"}, outcome : {"sold", "not_sold"}, winner : User,
   hammer : Nat, runnerUp : User, runnerUpAmount : Nat,
   runnerUpQualifies : BOOLEAN, relistGen : Nat, at : Nat]

VerdictMsg == [type : {"SaleSettled"}, winner : User]

PlainMsg == [type : {"AuctionCancelled", "AuctionRelisted", "SaleFailed"}]

Msg == ListedMsg \cup BidMsg \cup ClosedMsg \cup VerdictMsg \cup PlainMsg

Pcs == {"start", "classify", "status", "dashboard", "exists", "ack"}

Shape == BusShape(inbox, run, deadLetter, faults, Msg, Groups, Pcs)

Pending(x) == Known(x, inbox, deadLetter, Groups)

Item == [price : Nat, next : Nat, bidCount : Nat, endsAt : Nat]

Line == [status : {"listed", "cancelled", "closed"},
         outcome : {"", "sold", "not_sold"},
         settlement : {"", "settled", "failed", "relisted"},
         hammer : Nat, bidCount : Nat, endsAt : Nat]

Tables ==
  /\ relisted \in BOOLEAN
  /\ catalog = NoItem \/ catalog \in Item
  /\ dashboard = NoLine \/ dashboard \in Line

\* The row has the terms of the listing; its head is a bid once there is one.
RowSound ==
  /\ row \in AuctionRow
  /\ row.status # "absent" => row.startPrice = StartPrice /\ row.increment = Increment
  /\ row.status = "absent" => row.bidCount = 0
  /\ row.bidCount = 0 => row.leadingBid = ZeroBid
  /\ row.bidCount > 0 => row.leadingBid.bidder \in Users /\ row.leadingBid.amount \in Amounts
  /\ row.settled => row.status = "closed"

\* Before the listing there is nothing to project.
NothingYet ==
  row.status = "absent" =>
    /\ catalog = NoItem /\ dashboard = NoLine
    /\ \A e \in Msg : ~Pending(e)

\* No sum of a submitted amount and the increment leaves int64.
NoOverflow == \A amount \in Amounts : amount + Increment <= MaxInt

\* What the auction looked like after each bid; bid 0 is the listing.
History == [0 .. row.bidCount -> [price : Amounts, endsAt : Window.endsAt .. row.endsAt]]

Climbs(h) ==
  \A i, j \in 0 .. row.bidCount : i <= j =>
    h[i].endsAt <= h[j].endsAt /\ (NoOverflow => h[i].price <= h[j].price)

\* Row, messages and read models all show some moment of one history.
RowShown(h) ==
  /\ h[0] = [price |-> StartPrice, endsAt |-> Window.endsAt]
  /\ h[row.bidCount].endsAt = row.endsAt
  /\ row.bidCount > 0 => h[row.bidCount].price = row.leadingBid.amount

MsgShown(h, e) ==
  /\ e.type = "AuctionListed" => e.endsAt = Window.endsAt
  /\ e.type = "BidPlaced" =>
       /\ e.bidCount \in 1 .. row.bidCount
       /\ h[e.bidCount] = [price |-> e.amount, endsAt |-> e.endsAt]

ItemShown(h) ==
  catalog # NoItem =>
    /\ catalog.bidCount \in 0 .. row.bidCount
    /\ h[catalog.bidCount] = [price |-> catalog.price, endsAt |-> catalog.endsAt]
    /\ catalog.next = IF catalog.bidCount = 0 THEN StartPrice
                                              ELSE catalog.price + Increment

LineShown(h) ==
  dashboard # NoLine =>
    /\ dashboard.bidCount \in 0 .. row.bidCount
    /\ h[dashboard.bidCount].endsAt = dashboard.endsAt

Explains(h) ==
  /\ Climbs(h) /\ RowShown(h) /\ ItemShown(h) /\ LineShown(h)
  /\ \A e \in Msg : Pending(e) => MsgShown(h, e)

Explained == row.status # "absent" => \E h \in History : Explains(h)

\* Nothing takes a listed auction out of the catalog.
StillListed ==
  row.status = "listed" =>
    \A e \in Msg : Pending(e) => e.type \notin {"AuctionClosed", "AuctionCancelled"}

\* A verdict on its way, or shown, is the verdict of the aggregate.
VerdictsAgree ==
  /\ \A e \in Msg : Pending(e) =>
       /\ e.type = "SaleSettled" => row.settled /\ row.outcome = "sold"
       /\ e.type \in {"SaleFailed", "AuctionRelisted"} =>
            row.settled /\ row.outcome = "not_sold"
  /\ dashboard.settlement = "settled" => row.settled /\ row.outcome = "sold"

\* The catalog statement of the bid is over.
Past == {"dashboard", "exists", "ack"}

\* A run that is past the catalog found the bid, or a later one, in it.
BidInCatalog ==
  inbox["BidPlaced"] # << >> /\ run["BidPlaced"].pc \in Past /\ row.status = "listed" =>
    catalog.bidCount >= Head(inbox["BidPlaced"]).bidCount

\* A bid of a listed auction is on its way or in the catalog.
BidKept(n) ==
  \/ \E e \in Msg : Pending(e) /\ e.type = "BidPlaced" /\ e.bidCount = n
  \/ catalog.bidCount >= n

BidsKept == row.status = "listed" => \A n \in 1 .. row.bidCount : BidKept(n)

IInv ==
  /\ Shape /\ Tables /\ RowSound /\ NothingYet /\ Explained /\ StillListed
  /\ VerdictsAgree /\ BidInCatalog /\ BidsKept

-----------------------------------------------------------------------------
(* Messages and runs.                                                      *)

ShapeAfter == BusShape(inbox', run', deadLetter', faults', Msg, Groups, Pcs)

KnownAfter(x) == Known(x, inbox', deadLetter', Groups)

\* A message has the fields of its type.
LEMMA MsgParts ==
  ASSUME NEW e \in Msg
  PROVE  /\ e.type \in Groups
         /\ e.type = "AuctionListed" => e \in ListedMsg
         /\ e.type = "BidPlaced" => e \in BidMsg
         /\ e.type = "AuctionClosed" => e \in ClosedMsg
  BY DEF Msg, ListedMsg, BidMsg, ClosedMsg, VerdictMsg, PlainMsg, Groups

\* The message a group works on.
LEMMA AtHead ==
  ASSUME IInv, NEW g \in Groups, inbox[g] # << >>
  PROVE  /\ Event(g) \in Msg /\ Event(g).type = g /\ Pending(Event(g))
         /\ row.status # "absent"
<1>1. Event(g) \in Msg /\ Event(g).type = g /\ Pending(Event(g))
  BY HeadBus DEF IInv, Shape, Pending
<1> QED
  BY <1>1 DEF IInv, NothingYet

\* Where no message appears and row and tables stay, what they show stays.
LEMMA ShownStays ==
  ASSUME IInv, UNCHANGED <<row, relisted, catalog, dashboard>>,
         \A x : KnownAfter(x) => Pending(x)
  PROVE  /\ Tables' /\ RowSound' /\ NothingYet' /\ Explained' /\ StillListed'
         /\ VerdictsAgree'
<1>1. Tables' /\ RowSound'
  BY DEF IInv, Tables, RowSound
<1>2. NothingYet' /\ StillListed' /\ VerdictsAgree'
  BY DEF IInv, NothingYet, StillListed, VerdictsAgree, Pending, KnownAfter
<1>3. Explained'
  <2> SUFFICES ASSUME row.status # "absent" PROVE \E h \in History' : Explains(h)'
    BY DEF Explained
  <2>1. PICK h \in History : Explains(h)
    BY DEF IInv, Explained
  <2>2. Explains(h)' /\ h \in History'
    BY <2>1 DEF Explains, History, Climbs, RowShown, ItemShown, LineShown,
                MsgShown, Pending, KnownAfter
  <2> QED
    BY <2>2
<1> QED
  BY <1>1, <1>2, <1>3

\* A run that restarts, or goes on with its message, is as good as before.
LEMMA RunStays ==
  ASSUME IInv, UNCHANGED catalog, Undisturbed("BidPlaced"),
         row'.status = "listed" => row.status = "listed"
  PROVE  BidInCatalog'
  BY DEF IInv, BidInCatalog, Undisturbed, Past

\* Failures, replays and the handlers' own errors.
LEMMA BusMoves ==
  ASSUME IInv, UNCHANGED <<row, relisted, catalog, dashboard>>, ShapeAfter,
         Conserved(Groups), \A g \in Groups : Undisturbed(g)
  PROVE  IInv'
<1>1. \A x : KnownAfter(x) <=> Pending(x)
  BY DEF Conserved, KnownAfter, Pending
<1>2. BidsKept'
  BY <1>1 DEF IInv, BidsKept, BidKept, Pending, KnownAfter
<1>3. BidInCatalog'
  BY RunStays DEF Groups
<1>4. Shape'
  BY DEF Shape, ShapeAfter
<1> QED
  BY <1>1, <1>2, <1>3, <1>4, ShownStays DEF IInv

\* Acking a bid of a listed auction is safe: the catalog has it.
LEMMA AckStep ==
  ASSUME IInv, NEW g \in Groups, Ack(g),
         UNCHANGED <<row, relisted, catalog, dashboard>>
  PROVE  IInv'
<1>1. inbox[g] # << >> /\ run[g].pc = "ack"
  BY DEF Ack, At
<1>2. /\ ShapeAfter /\ \A x : KnownAfter(x) => Pending(x)
      /\ \A x : Pending(x) => KnownAfter(x) \/ x = Event(g)
      /\ Event(g).type = g /\ \A h \in Groups : Undisturbed(h)
  BY AckBus DEF IInv, Shape, ShapeAfter, KnownAfter, Pending
<1>3. BidsKept'
  <2> SUFFICES ASSUME row.status = "listed", NEW n \in 1 .. row.bidCount
               PROVE  \/ \E e \in Msg : /\ KnownAfter(e) /\ e.bidCount = n
                                        /\ e.type = "BidPlaced"
                      \/ catalog.bidCount >= n
    BY DEF BidsKept, BidKept, KnownAfter, Pending
  <2>1. CASE \E e \in Msg : Pending(e) /\ e.type = "BidPlaced" /\ e.bidCount = n
    <3>1. PICK e \in Msg : Pending(e) /\ e.type = "BidPlaced" /\ e.bidCount = n
      BY <2>1
    <3>2. CASE e = Event(g)
      <4>1. catalog.bidCount >= e.bidCount
        BY <1>1, <1>2, <3>1, <3>2 DEF IInv, BidInCatalog, Past, Event
      <4> QED
        BY <3>1, <4>1
    <3>3. CASE KnownAfter(e)
      BY <3>1, <3>3
    <3> QED
      BY <1>2, <3>1, <3>2, <3>3
  <2> QED
    BY <2>1 DEF IInv, BidsKept, BidKept
<1>4. BidInCatalog'
  BY <1>2, RunStays DEF Groups
<1>5. Shape'
  BY <1>2 DEF Shape, ShapeAfter
<1> QED
  BY <1>2, <1>3, <1>4, <1>5, ShownStays DEF IInv

-----------------------------------------------------------------------------
(* Handlers.                                                               *)

\* A statement keeps the invariant if the tables still show a moment of the
\* history and a listed auction's item does not go back.
LEMMA GotoStep ==
  ASSUME IInv, NEW g \in Groups, inbox[g] # << >>, NEW pc \in Pcs, Goto(g, pc),
         UNCHANGED <<row, relisted>>, Tables',
         \A h \in History : Explains(h) => ItemShown(h)' /\ LineShown(h)',
         dashboard'.settlement = "settled" => row.settled /\ row.outcome = "sold",
         row.status = "listed" => catalog'.bidCount >= catalog.bidCount,
         g = "BidPlaced" /\ pc \in Past /\ row.status = "listed" =>
           catalog'.bidCount >= Event(g).bidCount
  PROVE  IInv'
<1>1. /\ ShapeAfter /\ inbox' = inbox /\ deadLetter' = deadLetter
      /\ run'[g].pc = pc /\ \A h \in Groups \ {g} : run'[h] = run[h]
  BY GotoBus DEF IInv, Shape, ShapeAfter
<1>2. \A x : KnownAfter(x) <=> Pending(x)
  BY <1>1 DEF KnownAfter, Pending
<1>3. row.status # "absent"
  BY AtHead
<1>4. Shape' /\ RowSound' /\ NothingYet' /\ StillListed' /\ VerdictsAgree'
  BY <1>1, <1>2, <1>3 DEF IInv, Shape, ShapeAfter, RowSound, NothingYet,
                          StillListed, VerdictsAgree, Pending, KnownAfter
<1>5. Explained'
  <2>1. PICK h \in History : Explains(h)
    BY <1>3 DEF IInv, Explained
  <2>2. Climbs(h)' /\ RowShown(h)' /\ h \in History'
    BY <2>1 DEF Explains, Climbs, RowShown, History
  <2>3. \A e \in Msg : KnownAfter(e) => MsgShown(h, e)'
    BY <1>2, <2>1 DEF Explains, MsgShown
  <2> QED
    BY <2>1, <2>2, <2>3 DEF Explained, Explains, KnownAfter, Pending
<1>6. catalog.bidCount \in Int /\ catalog'.bidCount \in Int
  BY DEF IInv, Tables, NoItem, Item
<1>7. BidsKept'
  <2> SUFFICES ASSUME row.status = "listed", NEW n \in 1 .. row.bidCount
               PROVE  \/ \E e \in Msg : /\ KnownAfter(e) /\ e.bidCount = n
                                        /\ e.type = "BidPlaced"
                      \/ catalog'.bidCount >= n
    BY DEF BidsKept, BidKept, KnownAfter, Pending
  <2>1. BidKept(n)
    BY DEF IInv, BidsKept
  <2>2. row.bidCount \in Nat
    BY DEF IInv, RowSound, AuctionRow
  <2> QED
    BY <1>2, <1>6, <2>1, <2>2 DEF BidKept
<1>8. BidInCatalog'
  <2> SUFFICES ASSUME inbox["BidPlaced"] # << >>, run'["BidPlaced"].pc \in Past,
                      row.status = "listed"
               PROVE  catalog'.bidCount >= Event("BidPlaced").bidCount
    BY <1>1 DEF BidInCatalog, Event
  <2>1. CASE g = "BidPlaced"
    BY <1>1, <2>1
  <2>2. CASE g # "BidPlaced"
    <3>1. "BidPlaced" \in Groups
      BY DEF Groups
    <3>2. catalog.bidCount >= Event("BidPlaced").bidCount
      BY <1>1, <2>2, <3>1 DEF IInv, BidInCatalog, Event
    <3>3. Event("BidPlaced").bidCount \in Nat
      BY <3>1, AtHead, MsgParts DEF BidMsg
    <3> QED
      BY <1>6, <3>2, <3>3
  <2> QED
    BY <2>1, <2>2
<1> QED
  BY <1>4, <1>5, <1>7, <1>8 DEF IInv

\* A handler that returns an error is run again or its message parked.
LEMMA FailStep ==
  ASSUME IInv, NEW g \in Groups, inbox[g] # << >>, Fail(g),
         UNCHANGED <<row, relisted, catalog, dashboard>>
  PROVE  IInv'
<1>1. RetryOrPark(g) /\ faults' \in 0 .. MaxFaults
  BY DEF Fail, IInv, Shape, BusShape
<1>2. ShapeAfter /\ Conserved(Groups) /\ \A h \in Groups : Undisturbed(h)
  BY <1>1, RetryOrParkBus DEF IInv, Shape, ShapeAfter
<1> QED
  BY <1>2, BusMoves

\* A statement that writes nothing.
LEMMA ReadStep ==
  ASSUME IInv, NEW g \in Groups, inbox[g] # << >>, NEW pc \in Pcs, Goto(g, pc),
         UNCHANGED <<row, relisted, catalog, dashboard>>,
         g = "BidPlaced" /\ pc \in Past /\ row.status = "listed" =>
           catalog.bidCount >= Event(g).bidCount
  PROVE  IInv'
<1>1. Tables' /\ (dashboard'.settlement = "settled" => row.settled /\ row.outcome = "sold")
  BY DEF IInv, Tables, VerdictsAgree
<1>2. \A h \in History : Explains(h) => ItemShown(h)' /\ LineShown(h)'
  BY DEF Explains, ItemShown, LineShown
<1>3. catalog'.bidCount >= catalog.bidCount
  BY DEF IInv, Tables, NoItem, Item
<1> QED
  BY <1>1, <1>2, <1>3, GotoStep

\* UpsertListed: the first moment of the history, unless a row is there.
LEMMA UpsertStep ==
  ASSUME IInv, CatalogUpsertListed \/ DashboardUpsertListed, UNCHANGED <<row, relisted>>
  PROVE  IInv'
<1> DEFINE g == "AuctionListed"
           e == Event(g)
<1>1. g \in Groups /\ inbox[g] # << >> /\ "dashboard" \in Pcs /\ "ack" \in Pcs
  BY DEF Groups, CatalogUpsertListed, DashboardUpsertListed, At, Pcs
<1>2. e \in Msg /\ e.type = g /\ Pending(e) /\ row.status # "absent"
  BY <1>1, AtHead
<1>3. PICK h \in History : Explains(h)
  BY <1>2 DEF IInv, Explained
<1>4. e.endsAt = Window.endsAt /\ row.bidCount \in Nat
  BY <1>2, <1>3 DEF Explains, MsgShown, IInv, RowSound, AuctionRow
<1>5. StartPrice \in Nat /\ Window.endsAt \in Nat
  BY ProjectionsAssumption, DomainAssumption, MaxIntAssumption
<1>6. CASE CatalogUpsertListed
  <2>1. /\ dashboard' = dashboard /\ Goto(g, "dashboard")
        /\ catalog' = IF catalog # NoItem THEN catalog
                      ELSE [price |-> StartPrice, next |-> StartPrice,
                            bidCount |-> 0, endsAt |-> Window.endsAt]
    BY <1>4, <1>6 DEF CatalogUpsertListed
  <2>2. Tables'
    BY <1>5, <2>1 DEF IInv, Tables, Item
  <2>3. \A k \in History : Explains(k) => ItemShown(k)' /\ LineShown(k)'
    BY <1>4, <2>1 DEF Explains, ItemShown, LineShown, RowShown
  <2>4. catalog'.bidCount >= catalog.bidCount
    BY <2>1 DEF IInv, Tables, NoItem, Item
  <2>5. dashboard'.settlement = "settled" => row.settled /\ row.outcome = "sold"
    BY <2>1 DEF IInv, VerdictsAgree
  <2> QED
    BY <1>1, <2>1, <2>2, <2>3, <2>4, <2>5, GotoStep
<1>7. CASE DashboardUpsertListed
  <2>1. /\ catalog' = catalog /\ Goto(g, "ack")
        /\ dashboard' = IF dashboard # NoLine THEN dashboard
                        ELSE [NoLine EXCEPT !.status = "listed", !.bidCount = 0,
                                            !.endsAt = Window.endsAt]
    BY <1>4, <1>7 DEF DashboardUpsertListed
  <2>2. Tables'
    BY <1>5, <2>1 DEF IInv, Tables, Line, NoLine
  <2>3. ASSUME NEW k \in History, Explains(k) PROVE ItemShown(k)' /\ LineShown(k)'
    <3>1. ItemShown(k)'
      BY <2>1, <2>3 DEF Explains, ItemShown
    <3>2. CASE dashboard # NoLine
      BY <2>1, <2>3, <3>1, <3>2 DEF Explains, LineShown
    <3>3. CASE dashboard = NoLine
      <4>1. dashboard'.bidCount = 0 /\ dashboard'.endsAt = Window.endsAt
        BY <2>1, <3>3 DEF NoLine
      <4> QED
        BY <1>4, <2>3, <3>1, <4>1 DEF Explains, LineShown, RowShown
    <3> QED
      BY <3>2, <3>3
  <2>4. catalog'.bidCount >= catalog.bidCount
    BY <2>1 DEF IInv, Tables, NoItem, Item
  <2>5. dashboard'.settlement = "settled" => row.settled /\ row.outcome = "sold"
    BY <2>1 DEF IInv, VerdictsAgree, NoLine
  <2> QED
    BY <1>1, <2>1, <2>2, <2>3, <2>4, <2>5, GotoStep
<1> QED
  BY <1>6, <1>7

\* ApplyBid moves the item to the moment of its bid.
LEMMA ApplyBidStep ==
  ASSUME IInv, CatalogApplyBid, UNCHANGED <<row, relisted>>
  PROVE  IInv'
<1> DEFINE g == "BidPlaced"
           e == Event(g)
<1>1. g \in Groups /\ inbox[g] # << >> /\ "dashboard" \in Pcs /\ "classify" \in Pcs
  BY DEF Groups, CatalogApplyBid, At, Pcs
<1>2. e \in Msg /\ e.type = g /\ Pending(e) /\ row.status # "absent" /\ e \in BidMsg
  BY <1>1, AtHead, MsgParts
<1>3. dashboard' = dashboard
  BY DEF CatalogApplyBid
<1>4. CASE CatalogBidHits(e) /\ catalog' = ItemWithBid(e) /\ Goto(g, "dashboard")
  <2>1. row.increment = Increment /\ Increment \in Nat
    BY <1>2, ProjectionsAssumption, DomainAssumption, MaxIntAssumption DEF IInv, RowSound
  <2>2. catalog' = [price |-> e.amount, next |-> e.amount + Increment,
                    bidCount |-> e.bidCount, endsAt |-> e.endsAt]
    BY <1>4, <2>1 DEF ItemWithBid
  <2>3. e.amount \in Nat /\ e.bidCount \in Nat /\ e.endsAt \in Nat
    BY <1>2 DEF BidMsg
  <2> HIDE DEF e
  <2>4. Tables'
    BY <1>3, <2>1, <2>2, <2>3 DEF IInv, Tables, Item
  <2>5. ASSUME NEW k \in History, Explains(k) PROVE ItemShown(k)' /\ LineShown(k)'
    <3>1. /\ e.bidCount \in 1 .. row.bidCount
          /\ k[e.bidCount] = [price |-> e.amount, endsAt |-> e.endsAt]
      BY <1>2, <2>5 DEF Explains, MsgShown
    <3>2. row.bidCount \in Nat
      BY DEF IInv, RowSound, AuctionRow
    <3>3. e.bidCount \in 0 .. row.bidCount /\ e.bidCount # 0
      BY <3>1, <3>2
    <3> QED
      BY <1>3, <2>2, <2>5, <3>1, <3>3 DEF Explains, ItemShown, LineShown
  <2>6. catalog'.bidCount >= catalog.bidCount /\ catalog'.bidCount >= e.bidCount
    BY <1>4, <2>2, <2>3 DEF IInv, Tables, NoItem, Item, CatalogBidHits
  <2>7. dashboard'.settlement = "settled" => row.settled /\ row.outcome = "sold"
    BY <1>3 DEF IInv, VerdictsAgree
  <2> QED
    BY <1>1, <1>4, <2>4, <2>5, <2>6, <2>7, GotoStep DEF e
<1>5. CASE catalog' = catalog /\ Goto(g, "classify")
  <2>1. "classify" \notin Past
    BY DEF Past
  <2> QED
    BY <1>1, <1>3, <1>5, <2>1, ReadStep
<1> QED
  BY <1>4, <1>5 DEF CatalogApplyBid

\* classifyMiss acks only what the catalog has seen, or an auction that ended.
LEMMA ClassifyStep ==
  ASSUME IInv, ClassifyMiss \/ ClassifyByStatus, UNCHANGED <<row, relisted>>
  PROVE  IInv'
<1> DEFINE g == "BidPlaced"
<1>1. /\ g \in Groups /\ inbox[g] # << >> /\ UNCHANGED <<row, relisted, catalog, dashboard>>
      /\ "dashboard" \in Pcs /\ "status" \in Pcs /\ "status" \notin Past
  BY DEF Groups, ClassifyMiss, ClassifyByStatus, At, Pcs, readModels, Past
<1>2. CASE Fail(g)
  BY <1>1, <1>2, FailStep
<1>3. CASE Goto(g, "status")
  BY <1>1, <1>3, ReadStep
<1>4. CASE Goto(g, "dashboard") /\ StaleDuplicate(Event(g))
  BY <1>1, <1>4, ReadStep DEF StaleDuplicate
<1>5. CASE Goto(g, "dashboard") /\ Removed
  BY <1>1, <1>5, ReadStep DEF Removed
<1> QED
  BY <1>2, <1>3, <1>4, <1>5 DEF ClassifyMiss, ClassifyByStatus

\* Only an auction that ended leaves the catalog.
LEMMA RemoveStep ==
  ASSUME IInv, NEW g \in Groups, CatalogRemove(g), UNCHANGED <<row, relisted>>
  PROVE  IInv'
<1>1. /\ inbox[g] # << >> /\ g \in {"AuctionClosed", "AuctionCancelled"}
      /\ catalog' = NoItem /\ dashboard' = dashboard /\ Goto(g, "dashboard")
      /\ "dashboard" \in Pcs
  BY DEF CatalogRemove, At, Pcs
<1>2. row.status # "listed"
  BY <1>1, AtHead DEF IInv, StillListed
<1>3. Tables' /\ (dashboard'.settlement = "settled" => row.settled /\ row.outcome = "sold")
  BY <1>1 DEF IInv, Tables, VerdictsAgree
<1>4. \A k \in History : Explains(k) => ItemShown(k)' /\ LineShown(k)'
  BY <1>1 DEF Explains, ItemShown, LineShown
<1> QED
  BY <1>1, <1>2, <1>3, <1>4, GotoStep

\* What an UPDATE of the dashboard does to the line.
LEMMA LineAfterFacts ==
  ASSUME IInv, NEW e \in Msg, Pending(e), e.type # "AuctionListed", LineHit(e)
  PROVE  /\ LineAfter(e) \in Line
         /\ e.type = "BidPlaced" =>
              /\ LineAfter(e).bidCount = e.bidCount
              /\ LineAfter(e).endsAt = e.endsAt
         /\ e.type # "BidPlaced" =>
              /\ LineAfter(e).bidCount = dashboard.bidCount
              /\ LineAfter(e).endsAt = dashboard.endsAt
         /\ LineAfter(e).settlement =
              CASE e.type = "SaleSettled" -> "settled"
                [] e.type = "SaleFailed" -> "failed"
                [] e.type = "AuctionRelisted" -> "relisted"
                [] OTHER -> dashboard.settlement
<1>1. dashboard \in Line
  BY DEF LineHit, IInv, Tables
<1>2. CASE e.type = "BidPlaced"
  <2>1. e.bidCount \in Nat /\ e.endsAt \in Nat
    BY <1>2, MsgParts DEF BidMsg
  <2>2. LineAfter(e) = [dashboard EXCEPT !.bidCount = e.bidCount, !.endsAt = e.endsAt]
    BY <1>2 DEF LineAfter
  <2> QED
    BY <1>1, <1>2, <2>1, <2>2 DEF Line
<1>3. CASE e.type = "AuctionClosed"
  <2>1. e.outcome \in {"sold", "not_sold"} /\ e.hammer \in Nat
    BY <1>3, MsgParts DEF ClosedMsg
  <2>2. LineAfter(e) = [dashboard EXCEPT !.status = "closed", !.outcome = e.outcome,
                                         !.hammer = e.hammer]
    BY <1>3 DEF LineAfter
  <2> QED
    BY <1>1, <1>3, <2>1, <2>2 DEF Line
<1>4. CASE e.type = "AuctionCancelled"
  BY <1>1, <1>4 DEF LineAfter, Line
<1>5. CASE e.type \in {"AuctionRelisted", "SaleSettled", "SaleFailed"}
  BY <1>1, <1>5 DEF LineAfter, Line
<1> QED
  BY <1>2, <1>3, <1>4, <1>5, MsgParts DEF Groups

\* An UPDATE of the dashboard moves the line along the history.
LEMMA DashboardStep ==
  ASSUME IInv, NEW g \in Groups, DashboardUpdate(g), UNCHANGED <<row, relisted>>
  PROVE  IInv'
<1> DEFINE e == Event(g)
<1>1. /\ inbox[g] # << >> /\ g # "AuctionListed" /\ catalog' = catalog
      /\ "ack" \in Pcs /\ "exists" \in Pcs
      /\ g = "BidPlaced" => run[g].pc = "dashboard"
  BY DEF DashboardUpdate, DashboardOnly, At, Pcs
<1>2. e \in Msg /\ e.type = g /\ Pending(e)
  BY <1>1, AtHead
<1>3. g = "BidPlaced" /\ row.status = "listed" => catalog.bidCount >= e.bidCount
  BY <1>1 DEF IInv, BidInCatalog, Past, Event
<1>4. catalog'.bidCount >= catalog.bidCount
  BY <1>1 DEF IInv, Tables, NoItem, Item
<1>5. CASE LineHit(e) /\ dashboard' = LineAfter(e) /\ Goto(g, "ack")
  <2>1. /\ dashboard' \in Line
        /\ e.type = "BidPlaced" =>
             dashboard'.bidCount = e.bidCount /\ dashboard'.endsAt = e.endsAt
        /\ e.type # "BidPlaced" =>
             dashboard'.bidCount = dashboard.bidCount /\ dashboard'.endsAt = dashboard.endsAt
        /\ dashboard'.settlement = "settled" =>
             e.type = "SaleSettled" \/ dashboard.settlement = "settled"
    BY <1>1, <1>2, <1>5, LineAfterFacts
  <2>2. dashboard'.settlement = "settled" => row.settled /\ row.outcome = "sold"
    BY <1>2, <2>1 DEF IInv, VerdictsAgree
  <2>3. Tables'
    BY <1>1, <2>1 DEF IInv, Tables
  <2>4. ASSUME NEW k \in History, Explains(k) PROVE ItemShown(k)' /\ LineShown(k)'
    <3>1. ItemShown(k)'
      BY <1>1, <2>4 DEF Explains, ItemShown
    <3>2. CASE e.type = "BidPlaced"
      <4>0. row.bidCount \in Nat
        BY DEF IInv, RowSound, AuctionRow
      <4>1. /\ e.bidCount \in 1 .. row.bidCount
            /\ k[e.bidCount] = [price |-> e.amount, endsAt |-> e.endsAt]
        BY <1>2, <2>4, <3>2 DEF Explains, MsgShown
      <4>2. e.bidCount \in 0 .. row.bidCount /\ k[e.bidCount].endsAt = e.endsAt
        BY <4>0, <4>1
      <4> QED
        BY <2>1, <3>1, <3>2, <4>2 DEF LineShown
    <3>3. CASE e.type # "BidPlaced"
      BY <1>5, <2>1, <2>4, <3>1, <3>3 DEF LineShown, Explains, LineHit
    <3> QED
      BY <3>2, <3>3
  <2> QED
    BY <1>1, <1>3, <1>4, <1>5, <2>2, <2>3, <2>4, GotoStep
<1>6. CASE dashboard' = dashboard /\ Goto(g, "exists")
  BY <1>1, <1>3, <1>6, ReadStep
<1> QED
  BY <1>5, <1>6 DEF DashboardUpdate

LEMMA AckOrLagStep ==
  ASSUME IInv, NEW g \in Groups, AckOrLag(g), UNCHANGED <<row, relisted>>
  PROVE  IInv'
<1>1. /\ inbox[g] # << >> /\ run[g].pc = "exists" /\ "ack" \in Pcs
      /\ UNCHANGED <<row, relisted, catalog, dashboard>>
  BY DEF AckOrLag, At, Pcs, readModels
<1>2. g = "BidPlaced" /\ row.status = "listed" => catalog.bidCount >= Event(g).bidCount
  BY <1>1 DEF IInv, BidInCatalog, Past, Event
<1>3. CASE Fail(g)
  BY <1>1, <1>3, FailStep
<1>4. CASE Goto(g, "ack")
  BY <1>1, <1>2, <1>4, ReadStep
<1> QED
  BY <1>3, <1>4 DEF AckOrLag

-----------------------------------------------------------------------------
(* The write model.                                                        *)

\* A commit adds its event to the messages on their way.
LEMMA PublishFacts ==
  ASSUME IInv, NEW e \in Msg, Publish(e), UNCHANGED <<run, deadLetter, faults>>
  PROVE  /\ ShapeAfter /\ \A g \in Groups : Undisturbed(g)
         /\ \A x : KnownAfter(x) <=> Pending(x) \/ x = e
<1>1. /\ inbox' \in [Groups -> Seq(Msg)]
      /\ \A g \in Groups : \A x : In(x, inbox'[g]) => x.type = g
      /\ \A g \in Groups : inbox'[g] = << >> => run'[g] = FirstRun
      /\ \A x : (\E g \in Groups : In(x, inbox'[g]))
                <=> (\E g \in Groups : In(x, inbox[g])) \/ x = e
      /\ \A g \in Groups : Undisturbed(g)
  BY PublishBus DEF IInv, Shape
<1>2. ShapeAfter
  BY <1>1 DEF IInv, Shape, ShapeAfter, BusShape
<1>3. \A x : KnownAfter(x) <=> Pending(x) \/ x = e
  BY <1>1 DEF KnownAfter, Pending, Known
<1> QED
  BY <1>1, <1>2, <1>3

\* The terms and the bids of the auction stay.
SameBids(a, b) ==
  /\ b.startPrice = a.startPrice /\ b.increment = a.increment
  /\ b.endsAt = a.endsAt /\ b.bidCount = a.bidCount /\ b.leadingBid = a.leadingBid

\* A commit that ends the auction or records a verdict.
LEMMA EndStep ==
  ASSUME IInv, row.status # "absent", NEW e \in Msg, Publish(e),
         e.type \notin {"AuctionListed", "BidPlaced"},
         UNCHANGED <<catalog, dashboard, run, deadLetter, faults>>,
         row' \in AuctionRow, row'.status # "absent", relisted' \in BOOLEAN,
         SameBids(row, row'),
         row'.status = "listed" =>
           row.status = "listed" /\ e.type \notin {"AuctionClosed", "AuctionCancelled"},
         row'.settled => row'.status = "closed",
         row.settled => row'.settled /\ row'.outcome = row.outcome,
         e.type = "SaleSettled" => row'.settled /\ row'.outcome = "sold",
         e.type \in {"SaleFailed", "AuctionRelisted"} =>
           row'.settled /\ row'.outcome = "not_sold"
  PROVE  IInv'
<1>1. /\ ShapeAfter /\ \A g \in Groups : Undisturbed(g)
      /\ \A x : KnownAfter(x) <=> Pending(x) \/ x = e
  BY PublishFacts
<1>2. Shape' /\ Tables'
  BY <1>1 DEF Shape, ShapeAfter, IInv, Tables
<1>3. RowSound' /\ NothingYet'
  BY DEF IInv, RowSound, NothingYet, SameBids
<1>4. StillListed'
  BY <1>1 DEF IInv, StillListed, Pending, KnownAfter
<1>5. VerdictsAgree'
  <2>1. ASSUME NEW x \in Msg, KnownAfter(x)
        PROVE  /\ x.type = "SaleSettled" => row'.settled /\ row'.outcome = "sold"
               /\ x.type \in {"SaleFailed", "AuctionRelisted"} =>
                    row'.settled /\ row'.outcome = "not_sold"
    BY <1>1, <2>1 DEF IInv, VerdictsAgree
  <2>2. dashboard'.settlement = "settled" => row'.settled /\ row'.outcome = "sold"
    BY DEF IInv, VerdictsAgree
  <2> QED
    BY <2>1, <2>2 DEF VerdictsAgree, KnownAfter, Pending
<1>6. Explained'
  <2>1. PICK h \in History : Explains(h)
    BY DEF IInv, Explained
  <2>2. Climbs(h)' /\ RowShown(h)' /\ ItemShown(h)' /\ LineShown(h)' /\ h \in History'
    BY <2>1 DEF Explains, Climbs, RowShown, ItemShown, LineShown, History, SameBids
  <2>3. \A x \in Msg : KnownAfter(x) => MsgShown(h, x)'
    BY <1>1, <2>1 DEF Explains, MsgShown, SameBids
  <2> QED
    BY <2>2, <2>3 DEF Explained, Explains, KnownAfter, Pending
<1>7. BidsKept'
  BY <1>1 DEF IInv, BidsKept, BidKept, Pending, KnownAfter, SameBids
<1>8. BidInCatalog'
  BY <1>1, RunStays DEF Groups
<1> QED
  BY <1>2, <1>3, <1>4, <1>5, <1>6, <1>7, <1>8 DEF IInv

\* What the aggregate's methods leave alone.
LEMMA Endings ==
  ASSUME NEW a \in AuctionRow
  PROVE  /\ Cancelled(a) \in AuctionRow /\ SameBids(a, Cancelled(a))
         /\ Cancelled(a).status = "cancelled" /\ Cancelled(a).settled = a.settled
         /\ Closed(a) \in AuctionRow /\ SameBids(a, Closed(a))
         /\ Closed(a).status = "closed" /\ Closed(a).settled = a.settled
         /\ Closed(a).outcome \in {"sold", "not_sold"}
         /\ Confirmed(a) \in AuctionRow /\ SameBids(a, Confirmed(a))
         /\ Confirmed(a).status = a.status /\ Confirmed(a).settled
         /\ Confirmed(a).outcome = a.outcome
         /\ SaleFailed(a) \in AuctionRow /\ SameBids(a, SaleFailed(a))
         /\ SaleFailed(a).status = a.status /\ SaleFailed(a).settled
         /\ SaleFailed(a).outcome = "not_sold"
<1>1. /\ Cancelled(a) \in AuctionRow /\ SameBids(a, Cancelled(a))
      /\ Cancelled(a).status = "cancelled" /\ Cancelled(a).settled = a.settled
  BY DEF Cancelled, AuctionRow, SameBids, Statuses
<1>2. /\ Closed(a) \in AuctionRow /\ SameBids(a, Closed(a))
      /\ Closed(a).status = "closed" /\ Closed(a).settled = a.settled
      /\ Closed(a).outcome \in {"sold", "not_sold"}
  BY DEF Closed, AuctionRow, SameBids, Statuses
<1>3. /\ Confirmed(a) \in AuctionRow /\ SameBids(a, Confirmed(a))
      /\ Confirmed(a).status = a.status /\ Confirmed(a).settled
      /\ Confirmed(a).outcome = a.outcome
  BY DEF Confirmed, AuctionRow, SameBids
<1>4. /\ SaleFailed(a) \in AuctionRow /\ SameBids(a, SaleFailed(a))
      /\ SaleFailed(a).status = a.status /\ SaleFailed(a).settled
      /\ SaleFailed(a).outcome = "not_sold"
  BY DEF SaleFailed, AuctionRow, SameBids
<1> QED
  BY <1>1, <1>2, <1>3, <1>4

\* The event of a hammer.
LEMMA ClosedEvent ==
  ASSUME NEW a \in AuctionRow, a.outcome \in {"sold", "not_sold"}, NEW t \in Nat
  PROVE  AuctionClosed(a, t) \in Msg /\ AuctionClosed(a, t).type = "AuctionClosed"
<1>1. /\ a.leadingBid \in Bid /\ a.runnerUpBid \in Bid /\ ZeroBid \in Bid
      /\ a.relistGen \in Nat
  BY DEF AuctionRow, ZeroBid, Bid
<1>2. (RunnerUpQualifies(a) \in BOOLEAN) /\ (Sold(a) \in BOOLEAN)
  BY DEF RunnerUpQualifies, Sold
<1>3. AuctionClosed(a, t) \in ClosedMsg
  BY <1>1, <1>2 DEF AuctionClosed, ClosedMsg, Bid, User
<1> QED
  BY <1>3 DEF Msg, AuctionClosed

\* The terms are of their types.
LEMMA Terms ==
  /\ StartPrice \in Amounts /\ StartPrice \in Nat
  /\ Increment \in Nat /\ Increment > 0
  /\ Window.startsAt \in Nat /\ Window.endsAt \in Nat
  /\ MaxInt \in Nat /\ \A m \in Amounts : m \in Nat
  BY ProjectionsAssumption, DomainAssumption, MaxIntAssumption

\* The row that List inserts.
LEMMA NewRow ==
  ASSUME NEW a, a = New(Seller, StartPrice, Increment, 0, Window, Rules)
  PROVE  /\ a \in AuctionRow /\ a.status = "listed" /\ a.bidCount = 0
         /\ a.startPrice = StartPrice /\ a.increment = Increment
         /\ a.endsAt = Window.endsAt /\ a.leadingBid = ZeroBid /\ ~a.settled
         /\ AuctionListed(a) \in Msg /\ AuctionListed(a).type = "AuctionListed"
         /\ AuctionListed(a).endsAt = Window.endsAt
<1>1. \A d \in Nat : WholeSeconds(d) \in Nat
  BY DomainAssumption DEF WholeSeconds
<1>2. StoredRules(Rules) \in ListingRules
  BY <1>1, ProjectionsAssumption DEF StoredRules, ListingRules
<1>3. NoRow \in AuctionRow
  BY DEF NoRow, AuctionRow, ZeroBid, Bid, ListingRules, Statuses
<1>4. Seller \in Users
  BY ProjectionsAssumption
<1>5. /\ a \in AuctionRow /\ a.status = "listed" /\ a.bidCount = 0
      /\ a.startPrice = StartPrice /\ a.increment = Increment
      /\ a.endsAt = Window.endsAt /\ a.leadingBid = ZeroBid /\ a.settled = FALSE
      /\ a.relistGen = 0
  BY <1>2, <1>3, <1>4, Terms DEF New, Listing, NoRow, AuctionRow, Statuses
<1>6. /\ AuctionListed(a) \in Msg /\ AuctionListed(a).type = "AuctionListed"
      /\ AuctionListed(a).endsAt = Window.endsAt
  BY <1>5, Terms DEF AuctionListed, Msg, ListedMsg
<1> QED
  BY <1>5, <1>6

LEMMA ListStep ==
  ASSUME IInv, List PROVE IInv'
<1>1. PICK a : a = New(Seller, StartPrice, Increment, 0, Window, Rules)
  OBVIOUS
<1>2. PICK e : e = AuctionListed(a)
  OBVIOUS
<1>3. /\ row = NoRow /\ row' = a /\ Publish(e)
      /\ UNCHANGED <<relisted, catalog, dashboard, run, deadLetter, faults>>
  BY <1>1, <1>2 DEF List, Commit, readModels
<1>4. /\ a \in AuctionRow /\ a.status = "listed" /\ a.bidCount = 0
      /\ a.startPrice = StartPrice /\ a.increment = Increment
      /\ a.endsAt = Window.endsAt /\ a.leadingBid = ZeroBid /\ ~a.settled
      /\ e \in Msg /\ e.type = "AuctionListed" /\ e.endsAt = Window.endsAt
  BY <1>1, <1>2, NewRow
<1>5. /\ ShapeAfter /\ \A g \in Groups : Undisturbed(g)
      /\ \A x : KnownAfter(x) <=> Pending(x) \/ x = e
  BY <1>3, <1>4, PublishFacts
<1>6. row.status = "absent"
  BY <1>3 DEF NoRow
<1>7. catalog = NoItem /\ dashboard = NoLine /\ \A x \in Msg : ~Pending(x)
  BY <1>6 DEF IInv, NothingYet
<1>8. \A x \in Msg : KnownAfter(x) => x = e
  BY <1>5, <1>7
<1>9. Shape' /\ Tables' /\ RowSound' /\ NothingYet'
  BY <1>3, <1>4, <1>5 DEF IInv, Shape, ShapeAfter, Tables, RowSound, NothingYet
<1>10. StillListed' /\ VerdictsAgree'
  BY <1>3, <1>4, <1>7, <1>8 DEF StillListed, VerdictsAgree, Pending, KnownAfter, NoLine
<1>11. Explained'
  <2> DEFINE h == [i \in 0 .. 0 |-> [price |-> StartPrice, endsAt |-> Window.endsAt]]
  <2>1. row'.bidCount = 0 /\ row'.endsAt = Window.endsAt
    BY <1>3, <1>4
  <2>2. h \in [0 .. 0 -> [price : Amounts, endsAt : Window.endsAt .. Window.endsAt]]
    BY Terms
  <2>3. h \in History'
    BY <2>1, <2>2 DEF History
  <2>4. h[0] = [price |-> StartPrice, endsAt |-> Window.endsAt]
    OBVIOUS
  <2> HIDE DEF h
  <2>5. Climbs(h)'
    BY <2>1, <2>4, Terms DEF Climbs
  <2>6. RowShown(h)' /\ ItemShown(h)' /\ LineShown(h)'
    BY <1>3, <1>7, <2>1, <2>4 DEF RowShown, ItemShown, LineShown
  <2>7. \A x \in Msg : KnownAfter(x) => MsgShown(h, x)'
    BY <1>4, <1>8 DEF MsgShown
  <2> QED
    BY <2>3, <2>5, <2>6, <2>7 DEF Explained, Explains, KnownAfter, Pending
<1>12. BidsKept'
  BY <1>3, <1>4 DEF BidsKept
<1>13. BidInCatalog'
  <2>1. "BidPlaced" \in Groups
    BY DEF Groups
  <2>2. inbox["BidPlaced"] = << >>
    BY <1>6, <2>1, AtHead
  <2> QED
    BY <1>5, <2>1, <2>2 DEF Undisturbed, BidInCatalog, Past
<1> QED
  BY <1>9, <1>10, <1>11, <1>12, <1>13 DEF IInv

\* The row and the event of an accepted bid.
Accepted(a, e, bidder, amount) ==
  /\ a \in AuctionRow /\ a.status = row.status /\ a.bidCount = row.bidCount + 1
  /\ a.startPrice = row.startPrice /\ a.increment = row.increment
  /\ a.endsAt \in Nat /\ a.endsAt >= row.endsAt
  /\ a.leadingBid.bidder = bidder /\ a.leadingBid.amount = amount
  /\ a.settled = row.settled /\ a.outcome = row.outcome
  /\ e \in Msg /\ e.type = "BidPlaced" /\ e.bidCount = a.bidCount
  /\ e.amount = amount /\ e.endsAt = a.endsAt

LEMMA BidRow ==
  ASSUME IInv, NEW bidder \in Users, NEW amount \in Amounts, NEW t \in Nat,
         CanPlaceBid(row, bidder, TRUE, amount, t),
         NEW a, a = WithBid(row, bidder, amount, t),
         NEW e, e = BidPlaced(a, row.leadingBid, t)
  PROVE  Accepted(a, e, bidder, amount)
<1>1. row \in AuctionRow /\ amount \in Nat
  BY Terms DEF IInv, RowSound
<1>2. row.rules \in ListingRules /\ row.endsAt \in Nat /\ row.leadingBid \in Bid
  BY <1>1 DEF AuctionRow
<1>3. Extension(row, t) \in Nat
  BY <1>2 DEF Extension, ListingRules
<1>4. [bidder |-> bidder, amount |-> amount, placedAt |-> t] \in Bid
  BY <1>1 DEF Bid
<1>a. row.bidCount \in Nat /\ row.extensionsUsed \in Nat
  BY <1>1 DEF AuctionRow
<1>b. /\ row.bidCount + 1 \in Nat /\ row.extensionsUsed + 1 \in Nat
      /\ row.endsAt + Extension(row, t) \in Nat
  BY <1>2, <1>3, <1>a
<1>c. a \in AuctionRow
  BY <1>1, <1>2, <1>4, <1>a, <1>b DEF WithBid, AuctionRow
<1>5. /\ a.status = row.status /\ a.bidCount = row.bidCount + 1
      /\ a.startPrice = row.startPrice /\ a.increment = row.increment
      /\ a.endsAt = row.endsAt + Extension(row, t)
      /\ a.leadingBid = [bidder |-> bidder, amount |-> amount, placedAt |-> t]
      /\ a.settled = row.settled /\ a.outcome = row.outcome
  BY <1>1 DEF WithBid, AuctionRow
<1>6. a.endsAt \in Nat /\ a.endsAt >= row.endsAt
  BY <1>2, <1>3, <1>5
<1>7. a.bidCount \in Nat /\ row.leadingBid.bidder \in User
  BY <1>2, <1>5, <1>b DEF Bid, User
<1>8. /\ e = [type |-> "BidPlaced", bidder |-> bidder, amount |-> amount,
              bidCount |-> a.bidCount, outbid |-> row.leadingBid.bidder,
              endsAt |-> a.endsAt, at |-> t]
  BY <1>5 DEF BidPlaced
<1>9. e \in BidMsg
  BY <1>1, <1>6, <1>7, <1>8 DEF BidMsg, User
<1> QED
  BY <1>5, <1>6, <1>8, <1>9, <1>c DEF Msg, Accepted

\* A bid adds a moment to the history.
LEMMA PlaceBidStep ==
  ASSUME IInv, NEW bidder \in Users, NEW amount \in Amounts,
         NEW t \in Nat, PlaceBid(bidder, amount, t)
  PROVE  IInv'
<1>1. PICK a : a = WithBid(row, bidder, amount, t)
  OBVIOUS
<1>2. PICK e : e = BidPlaced(a, row.leadingBid, t)
  OBVIOUS
<1>3. /\ CanPlaceBid(row, bidder, TRUE, amount, t) /\ row' = a /\ Publish(e)
      /\ UNCHANGED <<relisted, catalog, dashboard, run, deadLetter, faults>>
  BY <1>1, <1>2 DEF PlaceBid, Commit, readModels
<1>4. row \in AuctionRow /\ row.endsAt \in Nat /\ row.bidCount \in Nat
  BY DEF IInv, RowSound, AuctionRow
<1>a. amount \in Nat
  BY Terms
<1>5. /\ a \in AuctionRow /\ a.status = row.status /\ a.bidCount = row.bidCount + 1
      /\ a.startPrice = row.startPrice /\ a.increment = row.increment
      /\ a.endsAt \in Nat /\ a.endsAt >= row.endsAt
      /\ a.leadingBid.bidder = bidder /\ a.leadingBid.amount = amount
      /\ a.settled = row.settled /\ a.outcome = row.outcome
      /\ e \in Msg /\ e.type = "BidPlaced" /\ e.bidCount = a.bidCount
      /\ e.amount = amount /\ e.endsAt = a.endsAt
  <2>1. Accepted(a, e, bidder, amount)
    BY <1>1, <1>2, <1>3, BidRow
  <2> QED
    BY <2>1 DEF Accepted
<1>6. row.status = "listed" /\ amount >= MinimalNextBid(row)
  BY <1>3 DEF CanPlaceBid, IsOpenAt
<1>7. /\ ShapeAfter /\ \A g \in Groups : Undisturbed(g)
      /\ \A x : KnownAfter(x) <=> Pending(x) \/ x = e
  BY <1>3, <1>5, PublishFacts
<1>8. Shape' /\ Tables' /\ NothingYet'
  BY <1>3, <1>5, <1>6, <1>7 DEF IInv, Shape, ShapeAfter, Tables, NothingYet
<1>9. RowSound'
  BY <1>3, <1>4, <1>5, <1>6 DEF IInv, RowSound
<1>10. StillListed'
  BY <1>3, <1>5, <1>6, <1>7 DEF IInv, StillListed, Pending, KnownAfter
<1>11. VerdictsAgree'
  <2>1. \A x \in Msg : KnownAfter(x) =>
          /\ x.type = "SaleSettled" => row'.settled /\ row'.outcome = "sold"
          /\ x.type \in {"SaleFailed", "AuctionRelisted"} =>
               row'.settled /\ row'.outcome = "not_sold"
    BY <1>3, <1>5, <1>7 DEF IInv, VerdictsAgree
  <2> QED
    BY <1>3, <1>5, <2>1 DEF IInv, VerdictsAgree, KnownAfter, Pending
<1>12. Explained'
  <2>1. PICK h \in History : Explains(h)
    BY <1>6 DEF IInv, Explained
  <2>2. PICK n \in Nat : n = row.bidCount
    BY <1>4
  <2>3. PICK k : k = [i \in 0 .. n + 1 |->
                        IF i = n + 1 THEN [price |-> amount, endsAt |-> a.endsAt]
                                     ELSE h[i]]
    OBVIOUS
  <2>a. a.endsAt \in Nat /\ row.endsAt \in Nat /\ a.endsAt >= row.endsAt
    BY <1>4, <1>5
  <2>b. \A i \in 0 .. n : h[i] \in [price : Amounts, endsAt : Window.endsAt .. row.endsAt]
    BY <2>1, <2>2 DEF History
  <2>4. /\ \A i \in 0 .. n : k[i] = h[i]
        /\ k[n + 1] = [price |-> amount, endsAt |-> a.endsAt]
    BY <2>2, <2>3
  <2>5. k \in [0 .. n + 1 -> [price : Amounts, endsAt : Window.endsAt .. a.endsAt]]
    <3>1. Window.endsAt <= row.endsAt
      BY <2>2, <2>a, <2>b, Terms
    <3>2. a.endsAt \in Window.endsAt .. a.endsAt
      BY <2>2, <2>a, <3>1, Terms
    <3>3. \A i \in 0 .. n : h[i] \in [price : Amounts, endsAt : Window.endsAt .. a.endsAt]
      BY <2>2, <2>a, <2>b, Terms
    <3> QED
      BY <2>2, <2>3, <3>2, <3>3
  <2>6. k \in History'
    BY <1>3, <1>5, <2>2, <2>5 DEF History
  <2>7. NoOverflow => h[n].price <= amount
    <3> SUFFICES ASSUME NoOverflow PROVE h[n].price <= amount
      OBVIOUS
    <3>1. row.startPrice = StartPrice /\ row.increment = Increment
      BY <1>6 DEF IInv, RowSound
    <3>2. CASE n = 0
      <4>1. MinimalNextBid(row) = StartPrice /\ h[0].price = StartPrice
        BY <2>1, <2>2, <3>1, <3>2 DEF MinimalNextBid, IInv, RowSound, Explains, RowShown
      <4> QED
        BY <1>6, <3>2, <4>1, Terms
    <3>3. CASE n > 0
      <4>1. row.leadingBid.bidder \in Users /\ row.leadingBid.amount \in Amounts
        BY <2>2, <3>3 DEF IInv, RowSound
      <4>2. row.leadingBid # ZeroBid
        BY <4>1, DomainAssumption DEF ZeroBid
      <4>3. MinimalNextBid(row) = row.leadingBid.amount + Increment
        BY <3>1, <4>1, <4>2 DEF MinimalNextBid, Add, NoOverflow
      <4>4. h[n].price = row.leadingBid.amount
        BY <2>1, <2>2, <3>3 DEF Explains, RowShown
      <4>5. row.leadingBid.amount \in Nat /\ amount \in Nat
        BY <4>1, Terms
      <4> QED
        BY <1>6, <4>3, <4>4, <4>5, Terms
    <3> QED
      BY <2>2, <2>a, <3>2, <3>3
  <2>8. Climbs(k)'
    <3> SUFFICES ASSUME NEW i \in 0 .. n + 1, NEW j \in 0 .. n + 1, i <= j
                 PROVE  k[i].endsAt <= k[j].endsAt /\ (NoOverflow => k[i].price <= k[j].price)
      BY <1>3, <1>5, <2>2 DEF Climbs
    <3>1. h[n].endsAt = row.endsAt /\ n \in 0 .. n
      BY <2>1, <2>2, <2>a DEF Explains, RowShown
    <3>2. CASE j \in 0 .. n
      <4>1. i \in 0 .. n
        BY <2>2, <2>a, <3>2
      <4> QED
        BY <2>1, <2>2, <2>4, <3>2, <4>1 DEF Explains, Climbs
    <3>3. CASE i = n + 1 /\ j = n + 1
      <4>1. /\ k[i].endsAt = a.endsAt /\ k[i].price = amount
            /\ k[j].endsAt = a.endsAt /\ k[j].price = amount
        BY <2>4, <3>3
      <4> QED
        BY <1>a, <2>a, <4>1
    <3>4. CASE i \in 0 .. n /\ j = n + 1
      <4>1. i <= n
        BY <2>2, <2>a, <3>4
      <4>2. h[i].endsAt <= row.endsAt /\ (NoOverflow => h[i].price <= h[n].price)
        <5>1. /\ i \in 0 .. row.bidCount /\ n \in 0 .. row.bidCount /\ Climbs(h)
          BY <2>1, <2>2, <3>1, <3>4 DEF Explains
        <5>2. h[i].endsAt <= h[n].endsAt /\ (NoOverflow => h[i].price <= h[n].price)
          BY <4>1, <5>1 DEF Climbs
        <5> QED
          BY <3>1, <5>2
      <4>3. /\ h[i].endsAt \in Nat /\ h[i].price \in Nat /\ h[n].price \in Nat
        <5>1. /\ h[i].price \in Amounts /\ h[n].price \in Amounts
              /\ h[i].endsAt \in Window.endsAt .. row.endsAt
          BY <2>b, <3>1, <3>4
        <5>2. h[i].endsAt \in Nat
          BY <2>a, <5>1, Terms
        <5> QED
          BY <5>1, <5>2, Terms
      <4>4. k[i] = h[i] /\ k[j].endsAt = a.endsAt /\ k[j].price = amount
        BY <2>4, <3>4
      <4> QED
        BY <1>a, <2>2, <2>a, <2>7, <4>2, <4>3, <4>4
    <3> QED
      BY <2>2, <2>a, <3>2, <3>3, <3>4
  <2>9. \A i \in 0 .. n : i \in 0 .. row'.bidCount
    BY <1>3, <1>5, <2>2, <2>a
  <2>10. RowShown(k)'
    <3>1. k[0] = h[0] /\ row'.bidCount = n + 1
      BY <1>3, <1>5, <2>2, <2>a, <2>4
    <3> QED
      BY <1>3, <1>5, <2>1, <2>2, <2>4, <3>1 DEF RowShown, Explains
  <2>11. ItemShown(k)' /\ LineShown(k)'
    BY <1>3, <2>1, <2>2, <2>4, <2>9 DEF ItemShown, LineShown, Explains
  <2>12. ASSUME NEW x \in Msg, KnownAfter(x) PROVE MsgShown(k, x)'
    <3>1. CASE Pending(x)
      <4>1. /\ x.type = "AuctionListed" => x.endsAt = Window.endsAt
            /\ x.type = "BidPlaced" =>
                 /\ x.bidCount \in 1 .. n
                 /\ h[x.bidCount] = [price |-> x.amount, endsAt |-> x.endsAt]
        BY <2>1, <2>2, <3>1 DEF Explains, MsgShown
      <4>2. \A i \in 1 .. n : i \in 1 .. row'.bidCount /\ k[i] = h[i]
        BY <1>3, <1>5, <2>2, <2>a, <2>4
      <4> QED
        BY <4>1, <4>2 DEF MsgShown
    <3>2. CASE x = e
      <4>1. e.bidCount = n + 1 /\ n + 1 \in 1 .. row'.bidCount
        BY <1>3, <1>5, <2>2, <2>a
      <4> QED
        BY <1>5, <2>4, <3>2, <4>1 DEF MsgShown
    <3> QED
      BY <1>7, <2>12, <3>1, <3>2
  <2> QED
    BY <2>6, <2>8, <2>10, <2>11, <2>12 DEF Explained, Explains, KnownAfter, Pending
<1>13. BidsKept'
  <2> SUFFICES ASSUME NEW m \in 1 .. row.bidCount + 1
               PROVE  \/ \E x \in Msg : /\ KnownAfter(x) /\ x.bidCount = m
                                        /\ x.type = "BidPlaced"
                      \/ catalog.bidCount >= m
    BY <1>3, <1>5 DEF BidsKept, BidKept, KnownAfter, Pending
  <2>1. CASE m = row.bidCount + 1
    BY <1>5, <1>7, <2>1
  <2>2. CASE m \in 1 .. row.bidCount
    BY <1>6, <1>7, <2>2 DEF IInv, BidsKept, BidKept
  <2> QED
    BY <1>4, <2>1, <2>2
<1>14. BidInCatalog'
  BY <1>3, <1>6, <1>7, RunStays DEF Groups
<1> QED
  BY <1>8, <1>9, <1>10, <1>11, <1>12, <1>13, <1>14 DEF IInv

\* Every command commits an event that tells what it did.
LEMMA WriteKeeps ==
  ASSUME IInv, WriteStep PROVE IInv'
<1>1. row \in AuctionRow
  BY DEF IInv, RowSound
<1>2. ASSUME Cancel PROVE IInv'
  <2>1. PICK a : a = Cancelled(row)
    OBVIOUS
  <2>2. /\ row.status = "listed" /\ row' = a /\ Publish(AuctionCancelled)
        /\ UNCHANGED <<relisted, catalog, dashboard, run, deadLetter, faults>>
    BY <1>2, <2>1 DEF Cancel, Commit, CanCancel, readModels
  <2>3. a \in AuctionRow /\ SameBids(row, a) /\ a.status = "cancelled" /\ a.settled = row.settled
    BY <1>1, <2>1, Endings
  <2>4. AuctionCancelled \in Msg /\ AuctionCancelled.type = "AuctionCancelled"
    BY DEF AuctionCancelled, Msg, PlainMsg
  <2>5. row.settled = FALSE /\ relisted \in BOOLEAN
    BY <1>1, <2>2 DEF IInv, RowSound, Tables, AuctionRow
  <2> QED
    BY <2>2, <2>3, <2>4, <2>5, EndStep
<1>3. ASSUME Close PROVE IInv'
  <2>1. PICK a : a = Closed(row)
    OBVIOUS
  <2>2. PICK e : e = AuctionClosed(a, row.endsAt)
    OBVIOUS
  <2>3. /\ row.status = "listed" /\ row' = a /\ Publish(e)
        /\ UNCHANGED <<relisted, catalog, dashboard, run, deadLetter, faults>>
    BY <1>3, <2>1, <2>2 DEF Close, Commit, CanClose, readModels
  <2>4. /\ a \in AuctionRow /\ SameBids(row, a) /\ a.status = "closed"
        /\ a.settled = row.settled /\ a.outcome \in {"sold", "not_sold"}
    BY <1>1, <2>1, Endings
  <2>5. e \in Msg /\ e.type = "AuctionClosed"
    <3>1. row.endsAt \in Nat
      BY <1>1 DEF AuctionRow
    <3> QED
      BY <2>2, <2>4, <3>1, ClosedEvent
  <2>6. row.settled = FALSE /\ relisted \in BOOLEAN
    BY <1>1, <2>3 DEF IInv, RowSound, Tables, AuctionRow
  <2> QED
    BY <2>3, <2>4, <2>5, <2>6, EndStep
<1>4. ASSUME ConfirmSettlement PROVE IInv'
  <2>1. PICK a : a = Confirmed(row)
    OBVIOUS
  <2>2. PICK e : e = SaleSettledEvent(row)
    OBVIOUS
  <2>3. /\ row.status = "closed" /\ row.outcome = "sold" /\ row' = a /\ Publish(e)
        /\ UNCHANGED <<relisted, catalog, dashboard, run, deadLetter, faults>>
    BY <1>4, <2>1, <2>2 DEF ConfirmSettlement, Commit, CanConfirm, readModels
  <2>4. /\ a \in AuctionRow /\ SameBids(row, a) /\ a.status = row.status
        /\ a.settled /\ a.outcome = row.outcome
    BY <1>1, <2>1, Endings
  <2>5. e \in Msg /\ e.type = "SaleSettled"
    <3>1. row.leadingBid.bidder \in User
      BY <1>1 DEF AuctionRow, Bid, User
    <3> QED
      BY <2>2, <3>1 DEF SaleSettledEvent, Msg, VerdictMsg
  <2>6. relisted \in BOOLEAN
    BY DEF IInv, Tables
  <2> QED
    BY <2>3, <2>4, <2>5, <2>6, EndStep
<1>5. ASSUME MarkSaleFailed PROVE IInv'
  <2>1. PICK a : a = SaleFailed(row)
    OBVIOUS
  <2>2. /\ row.status = "closed" /\ ~row.settled /\ row' = a /\ Publish(SaleFailedEvent)
        /\ UNCHANGED <<relisted, catalog, dashboard, run, deadLetter, faults>>
    BY <1>5, <2>1 DEF MarkSaleFailed, Commit, CanFailSale, readModels
  <2>3. /\ a \in AuctionRow /\ SameBids(row, a) /\ a.status = row.status
        /\ a.settled /\ a.outcome = "not_sold"
    BY <1>1, <2>1, Endings
  <2>4. SaleFailedEvent \in Msg /\ SaleFailedEvent.type = "SaleFailed"
    BY DEF SaleFailedEvent, Msg, PlainMsg
  <2>5. relisted \in BOOLEAN
    BY DEF IInv, Tables
  <2> QED
    BY <2>2, <2>3, <2>4, <2>5, EndStep
<1>6. ASSUME Relist PROVE IInv'
  <2>1. PICK e : e = [type |-> "AuctionRelisted"]
    OBVIOUS
  <2>2. /\ row.settled /\ row.outcome = "not_sold" /\ row' = row /\ Publish(e)
        /\ relisted' \in BOOLEAN
        /\ UNCHANGED <<catalog, dashboard, run, deadLetter, faults>>
    BY <1>6, <2>1 DEF Relist, readModels
  <2>3. e \in Msg /\ e.type = "AuctionRelisted"
    BY <2>1 DEF Msg, PlainMsg
  <2>4. row.status = "closed" /\ SameBids(row, row)
    BY <2>2 DEF IInv, RowSound, SameBids
  <2> QED
    BY <1>1, <2>2, <2>3, <2>4, EndStep
<1>7. ASSUME NEW bidder \in Users, NEW amount \in Amounts,
             NEW t \in Window.startsAt .. row.endsAt, PlaceBid(bidder, amount, t)
      PROVE  IInv'
  <2>1. row.endsAt \in Nat
    BY <1>1 DEF AuctionRow
  <2>2. t \in Nat
    BY <2>1, Terms
  <2> QED
    BY <1>7, <2>2, PlaceBidStep
<1> QED
  BY <1>2, <1>3, <1>4, <1>5, <1>6, <1>7, ListStep DEF WriteStep

-----------------------------------------------------------------------------
(* The invariant is inductive.                                             *)

LEMMA HandlerKeeps ==
  ASSUME IInv, NEW g \in Groups, HandlerStep(g) PROVE IInv'
<1>1. UNCHANGED <<row, relisted>>
  BY DEF HandlerStep, writeModel
<1>2. CASE Ack(g) /\ UNCHANGED readModels
  BY <1>1, <1>2, AckStep DEF readModels
<1> QED
  BY <1>1, <1>2, UpsertStep, ApplyBidStep, ClassifyStep, RemoveStep, DashboardStep,
     AckOrLagStep DEF HandlerStep

LEMMA InvInit == Init => IInv
<1> SUFFICES ASSUME Init PROVE IInv
  OBVIOUS
<1>1. /\ row = NoRow /\ relisted = FALSE /\ catalog = NoItem /\ dashboard = NoLine
      /\ inbox = [g \in Groups |-> << >>] /\ run = [g \in Groups |-> FirstRun]
      /\ deadLetter = {} /\ faults = 0
  BY DEF Init, BusInit
<1>2. \A x : ~Pending(x)
  BY <1>1 DEF Pending, Known, In
<1>3. Shape
  <2>1. "start" \in Pcs /\ "ack" \in Pcs /\ \A e \in Msg : e.type \in Groups
    BY MsgParts DEF Pcs
  <2>2. FirstRun \in [pc : Pcs, retries : 0 .. MaxRetries] /\ faults \in 0 .. MaxFaults
    BY <1>1, <2>1, BusAssumption DEF FirstRun
  <2>3. inbox \in [Groups -> Seq(Msg)] /\ \A g \in Groups : \A x : ~In(x, inbox[g])
    BY <1>1 DEF In
  <2> QED
    BY <1>1, <2>1, <2>2, <2>3 DEF Shape, BusShape
<1>4. /\ NoRow \in AuctionRow /\ NoRow.status = "absent" /\ NoRow.bidCount = 0
      /\ NoRow.leadingBid = ZeroBid /\ NoRow.settled = FALSE
  <2>1. NoRow \in AuctionRow
    BY DEF NoRow, AuctionRow, Bid, ZeroBid, ListingRules, Statuses
  <2> QED
    BY <2>1 DEF NoRow
<1>5. Tables /\ RowSound /\ NothingYet
  <2>1. RowSound
    BY <1>1, <1>4 DEF RowSound
  <2> QED
    BY <1>1, <1>2, <2>1 DEF Tables, NothingYet
<1>6. Explained /\ StillListed /\ VerdictsAgree /\ BidsKept
  BY <1>1, <1>2, <1>4 DEF Explained, StillListed, VerdictsAgree, BidsKept, NoLine
<1>7. BidInCatalog
  BY <1>1 DEF BidInCatalog, Groups
<1> QED
  BY <1>3, <1>5, <1>6, <1>7 DEF IInv

LEMMA InvStep == IInv /\ [Next]_vars => IInv'
<1> SUFFICES ASSUME IInv, [Next]_vars PROVE IInv'
  OBVIOUS
<1>1. CASE BusStep
  <2>1. UNCHANGED <<row, relisted, catalog, dashboard>>
    BY <1>1 DEF BusStep, writeModel, readModels
  <2>2. ShapeAfter /\ Conserved(Groups) /\ \A g \in Groups : Undisturbed(g)
    BY <1>1, FaultBus, RepublishBus DEF BusStep, IInv, Shape, ShapeAfter
  <2> QED
    BY <2>1, <2>2, BusMoves
<1>2. CASE UNCHANGED vars
  <2>1. /\ UNCHANGED <<row, relisted, catalog, dashboard>>
        /\ UNCHANGED <<inbox, run, deadLetter, faults>>
    BY <1>2 DEF vars, bus
  <2>2. ShapeAfter /\ \A x : KnownAfter(x) => Pending(x)
    BY <2>1 DEF IInv, Shape, ShapeAfter, KnownAfter, Pending
  <2>3. Shape' /\ BidInCatalog'
    BY <2>1, <2>2 DEF IInv, Shape, ShapeAfter, BidInCatalog
  <2>4. BidsKept'
    BY <2>1 DEF IInv, BidsKept, BidKept, Pending
  <2> QED
    BY <2>1, <2>2, <2>3, <2>4, ShownStays DEF IInv
<1> QED
  BY <1>1, <1>2, WriteKeeps, HandlerKeeps DEF Next

LEMMA Invariance == Spec => []IInv
  BY InvInit, InvStep, PTL DEF Spec

-----------------------------------------------------------------------------
(* Theorems.                                                               *)

\* The tables and the queues of the bus stay of their types, whatever fails,
\* is run again or is replayed.
THEOREM TypeCorrect == Spec => []TypeOK
<1>1. IInv => TypeOK
  <2> SUFFICES ASSUME IInv PROVE TypeOK
    OBVIOUS
  <2>1. DOMAIN inbox = Groups /\ faults \in 0 .. MaxFaults
    BY DEF IInv, Shape, BusShape
  <2>2. \A e \in deadLetter : e.type \in Groups
    BY DEF IInv, Shape, BusShape
  <2>3. ASSUME NEW g \in Groups
        PROVE  /\ \A i \in DOMAIN inbox[g] : inbox[g][i].type = g
               /\ run[g] \in [pc : Pcs, retries : 0 .. MaxRetries]
    BY DEF IInv, Shape, BusShape, In
  <2>4. BusOK(Groups, Pcs)
    BY <2>1, <2>2, <2>3 DEF BusOK
  <2>5. BusOK(Groups, {"start", "classify", "status", "dashboard", "exists", "ack"})
    BY <2>4 DEF Pcs
  <2>6. row \in AuctionRow /\ Tables
    BY DEF IInv, RowSound
  <2> QED
    BY <2>5, <2>6 DEF TypeOK, Tables, Item, Line
<1> QED
  BY <1>1, Invariance, PTL

LEMMA KeptMeans == IInv => NoBidLost
<1> SUFFICES ASSUME IInv, row.status = "listed", NEW n \in 1 .. row.bidCount
             PROVE  Outstanding(n) \/ catalog.bidCount >= n
  BY DEF NoBidLost
<1>1. CASE catalog.bidCount >= n
  BY <1>1
<1>2. CASE \E e \in Msg : Pending(e) /\ e.type = "BidPlaced" /\ e.bidCount = n
  <2>1. PICK e \in Msg : Pending(e) /\ e.type = "BidPlaced" /\ e.bidCount = n
    BY <1>2
  <2>2. CASE e \in deadLetter
    BY <2>1, <2>2 DEF Outstanding
  <2>3. CASE \E g \in Groups : In(e, inbox[g])
    <3>1. In(e, inbox["BidPlaced"])
      BY <2>1, <2>3 DEF IInv, Shape, BusShape
    <3> QED
      BY <2>1, <3>1 DEF Outstanding, In
  <2> QED
    BY <2>1, <2>2, <2>3 DEF Pending, Known
<1> QED
  BY <1>1, <1>2 DEF IInv, BidsKept, BidKept

\* ApplyBid and classifyMiss lose no bid of a listed auction: an acked
\* BidPlaced is in the catalog, or a later one is.
THEOREM BidsSafe == Spec => []NoBidLost
  BY KeptMeans, Invariance, PTL

\* The catalog asks for what PlaceBid accepts, where no sum of a submitted
\* amount and the increment leaves int64.
THEOREM PriceCorrect ==
  ASSUME NoOverflow
  PROVE  Spec => []AskedPriceIsAccepted
<1>1. IInv => AskedPriceIsAccepted
  <2> SUFFICES ASSUME IInv, row.status = "listed", UpToDate
               PROVE  /\ catalog.next = MinimalNextBid(row)
                      /\ catalog.endsAt = row.endsAt
                      /\ row.bidCount > 0 => catalog.price = row.leadingBid.amount
    BY DEF AskedPriceIsAccepted
  <2>1. row.bidCount \in Nat
    BY DEF IInv, RowSound, AuctionRow
  <2>2. catalog # NoItem
    BY <2>1 DEF UpToDate, NoItem
  <2>3. PICK h \in History : Explains(h)
    BY DEF IInv, Explained
  <2>9. catalog.bidCount = row.bidCount
    <3>1. CASE \A n \in 1 .. row.bidCount : ~Outstanding(n)
      <4>1. catalog.bidCount \in 0 .. row.bidCount
        BY <2>2, <2>3 DEF Explains, ItemShown
      <4>2. row.bidCount > 0 => catalog.bidCount >= row.bidCount
        BY <2>1, <3>1, KeptMeans DEF NoBidLost
      <4> QED
        BY <2>1, <4>1, <4>2
    <3> QED
      BY <3>1 DEF UpToDate
  <2>4. /\ h[row.bidCount].endsAt = row.endsAt
        /\ row.bidCount > 0 => h[row.bidCount].price = row.leadingBid.amount
        /\ h[row.bidCount] = [price |-> catalog.price, endsAt |-> catalog.endsAt]
        /\ catalog.next = IF row.bidCount = 0 THEN StartPrice
                                              ELSE catalog.price + Increment
    BY <2>2, <2>3, <2>9 DEF Explains, RowShown, ItemShown
  <2>5. row.startPrice = StartPrice /\ row.increment = Increment
    BY DEF IInv, RowSound
  <2>6. CASE row.bidCount = 0
    BY <2>4, <2>5, <2>6 DEF MinimalNextBid, IInv, RowSound
  <2>7. CASE row.bidCount > 0
    <3>1. row.leadingBid.amount \in Amounts /\ row.leadingBid # ZeroBid
      BY <2>7, DomainAssumption DEF IInv, RowSound, ZeroBid
    <3>2. MinimalNextBid(row) = row.leadingBid.amount + Increment
      BY <2>5, <3>1 DEF MinimalNextBid, Add, NoOverflow
    <3>3. catalog.price = row.leadingBid.amount /\ row.bidCount # 0
      BY <2>1, <2>4, <2>7
    <3> QED
      BY <2>4, <3>2, <3>3
  <2> QED
    BY <2>1, <2>6, <2>7
<1> QED
  BY <1>1, Invariance, PTL

\* A line is not the absence of one.
LEMMA LineParts ==
  /\ NoLine.settlement = "" /\ NoLine.bidCount = -1
  /\ \A l \in Line : l.bidCount \in Nat /\ l.endsAt \in Nat /\ l # NoLine
<1>1. NoLine.settlement = "" /\ NoLine.bidCount = -1
  BY DEF NoLine
<1>2. ASSUME NEW l \in Line PROVE l.bidCount \in Nat /\ l.endsAt \in Nat
  BY DEF Line
<1>3. -1 \notin Nat
  OBVIOUS
<1>4. ASSUME NEW l \in Line PROVE l # NoLine
  BY <1>1, <1>2, <1>3, Zenon
<1> QED
  BY <1>1, <1>2, <1>4

\* What a step may do to the read models.
CatalogMoves ==
  \/ catalog = NoItem \/ catalog' \in {catalog, NoItem}
  \/ \E e \in Msg : /\ Pending(e) /\ e.type = "BidPlaced" /\ CatalogBidHits(e)
                    /\ catalog' = ItemWithBid(e)

LineMoves ==
  \/ dashboard = NoLine \/ dashboard' = dashboard
  \/ \E e \in Msg : /\ Pending(e) /\ e.type # "AuctionListed" /\ LineHit(e)
                    /\ dashboard' = LineAfter(e)

LEMMA ReadModelStep ==
  ASSUME IInv, [Next]_vars PROVE CatalogMoves /\ LineMoves
<1>1. ASSUME UNCHANGED <<catalog, dashboard>> PROVE CatalogMoves /\ LineMoves
  BY <1>1 DEF CatalogMoves, LineMoves
<1>2. CASE WriteStep \/ BusStep \/ UNCHANGED vars
  <2>1. UNCHANGED <<catalog, dashboard>>
    BY <1>2 DEF WriteStep, BusStep, vars, List, Cancel, Close, ConfirmSettlement,
                MarkSaleFailed, Relist, PlaceBid, Commit, readModels
  <2> QED
    BY <1>1, <2>1
<1>3. ASSUME NEW g \in Groups, HandlerStep(g) PROVE CatalogMoves /\ LineMoves
  <2>1. CASE CatalogApplyBid
    <3>1. "BidPlaced" \in Groups /\ inbox["BidPlaced"] # << >> /\ dashboard' = dashboard
      BY <2>1 DEF CatalogApplyBid, At, Groups
    <3>2. /\ Event("BidPlaced") \in Msg /\ Event("BidPlaced").type = "BidPlaced"
          /\ Pending(Event("BidPlaced"))
      BY <3>1, AtHead
    <3> QED
      BY <2>1, <3>1, <3>2 DEF CatalogApplyBid, CatalogMoves, LineMoves
  <2>2. CASE DashboardUpdate(g)
    <3>1. inbox[g] # << >> /\ g # "AuctionListed" /\ catalog' = catalog
      BY <2>2 DEF DashboardUpdate, At
    <3>2. Event(g) \in Msg /\ Event(g).type = g /\ Pending(Event(g))
      BY <3>1, AtHead
    <3> QED
      BY <2>2, <3>1, <3>2 DEF DashboardUpdate, CatalogMoves, LineMoves
  <2>3. CASE CatalogUpsertListed \/ DashboardUpsertListed \/ CatalogRemove(g)
    BY <2>3 DEF CatalogUpsertListed, DashboardUpsertListed, CatalogRemove,
                CatalogMoves, LineMoves
  <2>4. CASE ClassifyMiss \/ ClassifyByStatus \/ AckOrLag(g) \/ UNCHANGED readModels
    BY <1>1, <2>4 DEF ClassifyMiss, ClassifyByStatus, AckOrLag, readModels
  <2> QED
    BY <1>3, <2>1, <2>2, <2>3, <2>4 DEF HandlerStep
<1> QED
  BY <1>2, <1>3 DEF Next

\* Bid count, price and deadline of the catalog's row, bid count and deadline
\* of the dashboard's row never go back, and the latter is never deleted,
\* however events are repeated, delayed or replayed.
THEOREM NoRegress ==
  ASSUME NoOverflow
  PROVE  Spec => NeverRegresses
<1>1. IInv /\ [Next]_vars =>
        [/\ catalog # NoItem /\ catalog' # NoItem =>
              /\ catalog'.bidCount >= catalog.bidCount
              /\ catalog'.price >= catalog.price
              /\ catalog'.endsAt >= catalog.endsAt
         /\ dashboard # NoLine =>
              /\ dashboard' # NoLine
              /\ dashboard'.bidCount >= dashboard.bidCount
              /\ dashboard'.endsAt >= dashboard.endsAt]_vars
  <2> SUFFICES ASSUME IInv, [Next]_vars
               PROVE  /\ catalog # NoItem /\ catalog' # NoItem =>
                           /\ catalog'.bidCount >= catalog.bidCount
                           /\ catalog'.price >= catalog.price
                           /\ catalog'.endsAt >= catalog.endsAt
                      /\ dashboard # NoLine =>
                           /\ dashboard' # NoLine
                           /\ dashboard'.bidCount >= dashboard.bidCount
                           /\ dashboard'.endsAt >= dashboard.endsAt
    OBVIOUS
  <2>0. CatalogMoves /\ LineMoves /\ Tables
    BY ReadModelStep DEF IInv
  <2>1. ASSUME NEW e \in Msg, Pending(e), e.type = "BidPlaced"
        PROVE  /\ row.status # "absent" /\ row.bidCount \in Nat
               /\ e.bidCount \in Nat /\ e.amount \in Nat /\ e.endsAt \in Nat
    BY <2>1, MsgParts DEF IInv, NothingYet, RowSound, AuctionRow, BidMsg
  <2>2. ASSUME catalog # NoItem, catalog' # NoItem
        PROVE  /\ catalog'.bidCount >= catalog.bidCount
               /\ catalog'.price >= catalog.price
               /\ catalog'.endsAt >= catalog.endsAt
    <3>1. catalog \in Item
      BY <2>0, <2>2 DEF Tables
    <3>2. CASE catalog' = catalog
      BY <3>1, <3>2 DEF Item
    <3>3. ASSUME NEW e \in Msg, Pending(e), e.type = "BidPlaced", CatalogBidHits(e),
                 catalog' = ItemWithBid(e)
          PROVE  /\ catalog'.bidCount >= catalog.bidCount
                 /\ catalog'.price >= catalog.price
                 /\ catalog'.endsAt >= catalog.endsAt
      <4>1. /\ catalog'.bidCount = e.bidCount /\ catalog'.price = e.amount
            /\ catalog'.endsAt = e.endsAt /\ catalog.bidCount < e.bidCount
        BY <3>3 DEF ItemWithBid, CatalogBidHits
      <4>2. /\ row.status # "absent" /\ row.bidCount \in Nat
            /\ e.bidCount \in Nat /\ e.amount \in Nat /\ e.endsAt \in Nat
        BY <2>1, <3>3
      <4>3. PICK h \in History : Explains(h)
        BY <4>2 DEF IInv, Explained
      <4>4. /\ catalog.bidCount \in 0 .. row.bidCount
            /\ h[catalog.bidCount] = [price |-> catalog.price, endsAt |-> catalog.endsAt]
            /\ e.bidCount \in 1 .. row.bidCount
            /\ h[e.bidCount] = [price |-> e.amount, endsAt |-> e.endsAt]
        BY <2>2, <3>3, <4>3 DEF Explains, ItemShown, MsgShown
      <4>5. /\ h[catalog.bidCount].endsAt <= h[e.bidCount].endsAt
            /\ h[catalog.bidCount].price <= h[e.bidCount].price
        <5>1. e.bidCount \in 0 .. row.bidCount /\ catalog.bidCount <= e.bidCount
          BY <4>1, <4>2, <4>4
        <5> QED
          BY <4>3, <4>4, <5>1 DEF Explains, Climbs
      <4>6. catalog.endsAt <= e.endsAt /\ catalog.price <= e.amount
        BY <4>4, <4>5
      <4> QED
        BY <3>1, <4>1, <4>2, <4>6 DEF Item
    <3> QED
      BY <2>0, <2>2, <3>2, <3>3 DEF CatalogMoves
  <2>3. ASSUME dashboard # NoLine
        PROVE  /\ dashboard' # NoLine
               /\ dashboard'.bidCount >= dashboard.bidCount
               /\ dashboard'.endsAt >= dashboard.endsAt
    <3>1. dashboard \in Line
      BY <2>0, <2>3 DEF Tables
    <3>2. CASE dashboard' = dashboard
      <4>1. dashboard.bidCount \in Nat /\ dashboard.endsAt \in Nat
        BY <3>1, LineParts
      <4>2. /\ dashboard'.bidCount = dashboard.bidCount
            /\ dashboard'.endsAt = dashboard.endsAt
        BY <3>2
      <4>3. dashboard' # NoLine
        BY <2>3, <3>2
      <4> QED
        BY <4>1, <4>2, <4>3
    <3>3. ASSUME NEW e \in Msg, Pending(e), e.type # "AuctionListed", LineHit(e),
                 dashboard' = LineAfter(e)
          PROVE  /\ dashboard' # NoLine
                 /\ dashboard'.bidCount >= dashboard.bidCount
                 /\ dashboard'.endsAt >= dashboard.endsAt
      <4>1. /\ dashboard' \in Line
            /\ e.type = "BidPlaced" =>
                 dashboard'.bidCount = e.bidCount /\ dashboard'.endsAt = e.endsAt
            /\ e.type # "BidPlaced" =>
                 /\ dashboard'.bidCount = dashboard.bidCount
                 /\ dashboard'.endsAt = dashboard.endsAt
        BY <3>3, LineAfterFacts
      <4>2. dashboard' # NoLine
        BY <4>1, LineParts
      <4>3. CASE e.type # "BidPlaced"
        <5>1. dashboard.bidCount \in Nat /\ dashboard.endsAt \in Nat
          BY <3>1, LineParts
        <5> QED
          BY <4>1, <4>2, <4>3, <5>1
      <4>4. CASE e.type = "BidPlaced"
        <5>1. /\ row.status # "absent" /\ row.bidCount \in Nat
              /\ e.bidCount \in Nat /\ e.endsAt \in Nat
              /\ dashboard.bidCount < e.bidCount
          BY <2>1, <3>3, <4>4 DEF LineHit
        <5>2. PICK h \in History : Explains(h)
          BY <5>1 DEF IInv, Explained
        <5>3. /\ dashboard.bidCount \in 0 .. row.bidCount
              /\ h[dashboard.bidCount].endsAt = dashboard.endsAt
              /\ e.bidCount \in 1 .. row.bidCount
              /\ h[e.bidCount].endsAt = e.endsAt
          <6>1. LineShown(h) /\ MsgShown(h, e)
            BY <3>3, <5>2 DEF Explains
          <6>2. h[e.bidCount] = [price |-> e.amount, endsAt |-> e.endsAt]
            BY <4>4, <6>1 DEF MsgShown
          <6> QED
            BY <2>3, <4>4, <6>1, <6>2 DEF LineShown, MsgShown
        <5>4. e.bidCount \in 0 .. row.bidCount /\ dashboard.bidCount <= e.bidCount
          BY <5>1, <5>3
        <5>5. h[dashboard.bidCount].endsAt <= h[e.bidCount].endsAt
          BY <5>2, <5>3, <5>4 DEF Explains, Climbs
        <5> QED
          BY <3>1, <4>1, <4>2, <4>4, <5>1, <5>3, <5>4, <5>5, LineParts
      <4> QED
        BY <4>3, <4>4
    <3> QED
      BY <2>0, <2>3, <3>2, <3>3 DEF LineMoves
  <2> QED
    BY <2>2, <2>3
<1> QED
  BY <1>1, Invariance, PTL DEF Spec, NeverRegresses

\* A sale shown as settled stays so: ApplySettlement and MarkRelisted have no
\* guard, but no event of a failed or relisted sale exists beside one that
\* settled.
THEOREM SettledStays == Spec => SettledSticks
<1>1. IInv /\ [Next]_vars =>
        [dashboard.settlement = "settled" => dashboard'.settlement = "settled"]_vars
  <2> SUFFICES ASSUME IInv, [Next]_vars, dashboard.settlement = "settled"
               PROVE  dashboard'.settlement = "settled"
    OBVIOUS
  <2>1. dashboard # NoLine /\ LineMoves
    BY ReadModelStep, LineParts
  <2>2. row.settled /\ row.outcome = "sold"
    BY DEF IInv, VerdictsAgree
  <2>3. ASSUME NEW e \in Msg, Pending(e), e.type # "AuctionListed", LineHit(e),
               dashboard' = LineAfter(e)
        PROVE  dashboard'.settlement = "settled"
    <3>1. e.type # "SaleFailed" /\ e.type # "AuctionRelisted"
      BY <2>2, <2>3 DEF IInv, VerdictsAgree
    <3>2. LineAfter(e).settlement =
            CASE e.type = "SaleSettled" -> "settled"
              [] e.type = "SaleFailed" -> "failed"
              [] e.type = "AuctionRelisted" -> "relisted"
              [] OTHER -> dashboard.settlement
      BY <2>3, LineAfterFacts
    <3> QED
      BY <2>3, <3>1, <3>2
  <2> QED
    BY <2>1, <2>3 DEF LineMoves
<1> QED
  BY <1>1, Invariance, PTL DEF Spec, SettledSticks
================================================================================
