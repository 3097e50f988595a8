---------------------------- MODULE Notification ----------------------------
(***************************************************************************)
(* The notification context (internal/notification): ten consumer groups   *)
(* that turn events of the other contexts into mails.  deliver resolves    *)
(* the recipient, records the slot (event, kind, recipient) in             *)
(* sent_notifications and sends; each is a step, and other groups, faults  *)
(* and crashes come in between.                                            *)
(*                                                                         *)
(* The handlers read nothing of the contexts that publish, so it does not  *)
(* matter when a message is published, only when it is handled: all        *)
(* messages wait from the start, as after an outage of the consumer, and   *)
(* every group works through its own at its own pace.  Addresses and       *)
(* texts are left out.                                                     *)
(***************************************************************************)
EXTENDS Bus, Bags

CONSTANTS
  Backlogs,  \* the histories to start from: the messages of each group
  NoUser     \* the empty participant id

Groups == {"ParticipantRegistered", "ParticipantVerified", "BidPlaced",
           "AuctionListed", "AuctionClosed", "WinnerReassigned",
           "SaleSettled", "SaleFailed", "InvoiceIssued", "InvoicePaid"}

Messages(backlog) ==
  UNION {{backlog[g][i] : i \in DOMAIN backlog[g]} : g \in DOMAIN backlog}

\* The events that name the seller of an auction.
NamesSeller == {"AuctionListed", "AuctionClosed"}

\* A message is in the topic of its type, has its event id, and names the one
\* seller an auction has.
ASSUME NotificationAssumption ==
  \A backlog \in Backlogs :
    /\ backlog \in [Groups -> Seq(Messages(backlog))]
    /\ \A g \in Groups : \A i \in DOMAIN backlog[g] : backlog[g][i].type = g
    /\ \A e, f \in Messages(backlog) :
         /\ e.id = f.id => e = f
         /\ /\ e.type \in NamesSeller /\ f.type \in NamesSeller
            /\ e.auction = f.auction
            => e.seller = f.seller

VARIABLES
  published,   \* the messages of this history
  recipients,  \* participants in the table notification.recipients
  sellers,     \* rows <<auction, seller>> of notification.auction_sellers
  sentLog,     \* slots in the table notification.sent_notifications
  mailed,      \* the bag of slots mailed
  notice,      \* per group, the notice that deliver works on
  lost         \* slots whose run died between the record and the mail

vars == <<published, recipients, sellers, sentLog, mailed, notice, lost, bus>>

directories == <<recipients, sellers>>

Init ==
  /\ \E backlog \in Backlogs : published = Messages(backlog) /\ BusInit(backlog)
  /\ recipients = {}
  /\ sellers = {}
  /\ sentLog = {}
  /\ mailed = EmptyBag
  /\ notice = [g \in Groups |-> 1]
  /\ lost = {}

-----------------------------------------------------------------------------
(* What each event asks for.                                               *)

\* Whom SaleSettled and SaleFailed address is only in the directory.
ByDirectory == {"SaleSettled", "SaleFailed"}

SellerKnown(e) == \E row \in sellers : row[1] = e.auction

SellerOf(e) == (CHOOSE row \in sellers : row[1] = e.auction)[2]

\* The notices of an event, in the order the handler delivers them.
NoticesFor(e, seller) ==
  LET to(kind, user) == <<[event |-> e.id, kind |-> kind, to |-> user]>>
  IN  CASE e.type = "BidPlaced" ->
             IF e.outbid = NoUser THEN <<>> ELSE to("outbid_notice", e.outbid)
        [] e.type = "AuctionListed" ->
             IF e.relistGen = 0 THEN <<>> ELSE to("auction_relisted", e.seller)
        [] e.type = "AuctionClosed" ->
             (IF e.outcome = "sold" /\ e.winner # NoUser
                THEN to("auction_won", e.winner) ELSE <<>>)
               \o to("auction_closed", e.seller)
        [] e.type = "WinnerReassigned" ->
             to("second_chance_offer", e.newWinner)
        [] e.type = "SaleSettled" -> to("sale_settled", seller)
        [] e.type = "SaleFailed" -> to("sale_failed", seller)
        [] e.type = "InvoiceIssued" -> to("payment_due_notice", e.debtor)
        [] e.type = "InvoicePaid" -> to("payment_receipt", e.debtor)
        [] OTHER -> <<>>

Notices(e) == NoticesFor(e, SellerOf(e))

Slot(g) == Notices(Event(g))[notice[g]]

-----------------------------------------------------------------------------
(* Handlers.                                                               *)

UpsertRecipient(e) == recipients \cup {e.participant}

RememberSeller(e) ==
  {row \in sellers : row[1] # e.auction} \cup {<<e.auction, e.seller>>}

\* The first statement of a handler: a write to a directory, the lookup of
\* the seller, or nothing; then the first notice, if there is one.
Begin(g) ==
  LET e == Event(g)
  IN  /\ At(g, "start")
      /\ recipients' = IF g = "ParticipantRegistered" THEN UpsertRecipient(e)
                                                      ELSE recipients
      /\ sellers' = IF g \in NamesSeller
                      THEN RememberSeller(e) ELSE sellers
      /\ IF g \in ByDirectory /\ ~SellerKnown(e) THEN Fail(g)
         ELSE Goto(g, IF Notices(e) = <<>> THEN "ack" ELSE "resolve")
      /\ notice' = [notice EXCEPT ![g] = 1]
      /\ UNCHANGED <<sentLog, mailed, lost>>

\* deliver returns: the next notice, or the handler's end.
DeliverReturns(g) ==
  IF notice[g] < Len(Notices(Event(g)))
    THEN Goto(g, "resolve") /\ notice' = [notice EXCEPT ![g] = @ + 1]
    ELSE Goto(g, "ack") /\ UNCHANGED notice

\* Mutation: the slot is recorded first.
ResolveAfterRecord(g) ==
  /\ At(g, "resolve")
  /\ sentLog' = sentLog \cup {Slot(g)}
  /\ \/ Slot(g).to \notin recipients /\ Fail(g) /\ UNCHANGED notice
     \/ Slot(g).to \in recipients /\ Slot(g) \notin sentLog
          /\ Goto(g, "send") /\ UNCHANGED notice
     \/ Slot(g).to \in recipients /\ Slot(g) \in sentLog /\ DeliverReturns(g)
  /\ UNCHANGED <<directories, mailed, lost>>

\* RecipientByID: an unknown participant is projection lag.
Resolve(g) ==
  /\ At(g, "resolve")
  /\ \/ Slot(g).to \notin recipients /\ Fail(g)
     \/ Slot(g).to \in recipients /\ Goto(g, "record")
  /\ UNCHANGED <<directories, sentLog, mailed, notice, lost>>

\* Mutation: every delivery is the first.
FirstDeliveryAlways(slot) == TRUE

FirstDelivery(slot) == slot \notin sentLog

\* The record commits before the mail is sent; a duplicate ends deliver.
Record(g) ==
  /\ At(g, "record")
  /\ sentLog' = sentLog \cup {Slot(g)}
  /\ \/ FirstDelivery(Slot(g)) /\ Goto(g, "send") /\ UNCHANGED notice
     \/ ~FirstDelivery(Slot(g)) /\ DeliverReturns(g)
  /\ UNCHANGED <<directories, mailed, lost>>


\* Send; FakeEmailSender, the only sender, never fails.
Send(g) ==
  /\ At(g, "send")
  /\ mailed' = mailed (+) SetToBag({Slot(g)})
  /\ DeliverReturns(g)
  /\ UNCHANGED <<directories, sentLog, lost>>

HandlerStep(g) ==
  /\ \/ Begin(g) \/ Resolve(g) \/ Record(g) \/ Send(g)
     \/ Ack(g) /\ UNCHANGED <<directories, sentLog, mailed, notice, lost>>
  /\ UNCHANGED published

\* A run that dies before Send loses the mail: its slot is taken.
Dies(g) ==
  /\ Crash(g)
  /\ lost' = IF run[g].pc = "send" THEN lost \cup {Slot(g)} ELSE lost
  /\ UNCHANGED <<published, directories, sentLog, mailed, notice>>

BusStep ==
  /\ (\E g \in Groups : run[g].pc # "send" /\ StatementFails(g)) \/ Republish
  /\ UNCHANGED <<published, directories, sentLog, mailed, notice, lost>>

Next == (\E g \in Groups : HandlerStep(g) \/ Dies(g)) \/ BusStep

Spec == Init /\ [][Next]_vars

\* Fairness: the router keeps running the handler of every group that has a
\* message; faults and the operator are free.
LiveSpec == Spec /\ \A g \in Groups : WF_vars(HandlerStep(g))

-----------------------------------------------------------------------------
(* Properties.                                                             *)

Kinds == {"outbid_notice", "auction_relisted", "auction_won",
          "auction_closed", "second_chance_offer", "sale_settled",
          "sale_failed", "payment_due_notice", "payment_receipt"}

\* Directories, ledger and runs stay of their types.
TypeOK ==
  /\ \E backlog \in Backlogs : published = Messages(backlog)
  /\ \A row \in sellers : \A other \in sellers : row[1] = other[1] => row = other
  /\ \A s \in sentLog \cup BagToSet(mailed) \cup lost :
       s.kind \in Kinds /\ \E e \in published : e.id = s.event
  /\ notice \in [Groups -> 1 .. 2]
  /\ BusOK(Groups, {"start", "resolve", "record", "send", "ack"})

\* sentLog's promise: no notice is mailed twice, over crashes, retries,
\* redeliveries and messages replayed from the dead letter.
NobodyMailedTwice == \A s \in BagToSet(mailed) : mailed[s] = 1

Reached(s) == s \in BagToSet(mailed) \/ s \in lost

\* Still to be handled, or parked.
Outstanding(e) ==
  e \in deadLetter \/ \E i \in DOMAIN inbox[e.type] : inbox[e.type][i] = e

\* deliver: "a failure here must NOT consume the dedup slot, otherwise the
\* notice would be lost forever".  A message that is acked and not parked
\* has sent all of its mails; only a crash right after the record loses one.
OnlyCrashesLoseMail ==
  \A e \in published :
    Outstanding(e) \/ \A i \in DOMAIN Notices(e) : Reached(Notices(e)[i])

Registered == {e \in published : e.type = "ParticipantRegistered"}

\* The mails that event e owes to registered participants are out.
Served(e) ==
  /\ e.type \in ByDirectory => SellerKnown(e)
  /\ \A i \in DOMAIN Notices(e) :
       (\E r \in Registered : r.participant = Notices(e)[i].to) =>
         Reached(Notices(e)[i])

=============================================================================
