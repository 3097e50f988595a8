-------------------------- MODULE NotificationProofs --------------------------
(***************************************************************************)
(* Proofs about Notification, for every set of histories and any number of *)
(* retries and faults: no notice is mailed twice, and only a crash right   *)
(* after the record loses one.                                             *)
(***************************************************************************)
EXTENDS Notification, BusProofs

-----------------------------------------------------------------------------
(* What an event asks for.                                                 *)

\* Sequences of one and of two notices.
LEMMA OneOrTwo ==
  ASSUME NEW a, NEW b
  PROVE  /\ Len(<<a>>) = 1 /\ DOMAIN <<a>> = 1 .. 1 /\ <<a>>[1] = a
         /\ << >> \o <<a>> = <<a>>
         /\ Len(<<a>> \o <<b>>) = 2 /\ DOMAIN (<<a>> \o <<b>>) = 1 .. 2
         /\ (<<a>> \o <<b>>)[1] = a /\ (<<a>> \o <<b>>)[2] = b
<1>1. <<a>> \in Seq({a, b}) /\ <<b>> \in Seq({a, b})
  OBVIOUS
<1>2. Len(<<a>>) = 1 /\ DOMAIN <<a>> = 1 .. 1 /\ <<a>>[1] = a
  OBVIOUS
<1>3. << >> \o <<a>> = <<a>>
  BY <1>1, ConcatEmptySeq
<1>4. /\ Len(<<a>> \o <<b>>) = 2 /\ DOMAIN (<<a>> \o <<b>>) = 1 .. 2
      /\ (<<a>> \o <<b>>)[1] = a /\ (<<a>> \o <<b>>)[2] = b
  BY <1>1, ConcatProperties, LenProperties
<1> QED
  BY <1>2, <1>3, <1>4

\* A list of at most two notices, each of them about the event.
Owed(e, s) ==
  /\ Len(s) \in 0 .. 2 /\ DOMAIN s = 1 .. Len(s)
  /\ s = << >> <=> Len(s) = 0
  /\ \A i \in DOMAIN s : s[i].event = e.id /\ s[i].kind \in Kinds

\* The notices of an event carry its id.
LEMMA NoticesShape ==
  ASSUME NEW e, e.type \in Groups, NEW seller
  PROVE  Owed(e, NoticesFor(e, seller))
<1> DEFINE to(kind, user) == [event |-> e.id, kind |-> kind, to |-> user]
<1>1. Owed(e, << >>)
  BY DEF Owed
<1>2. ASSUME NEW kind \in Kinds, NEW user PROVE Owed(e, <<to(kind, user)>>)
  BY OneOrTwo DEF Owed
<1>3. ASSUME NEW k1 \in Kinds, NEW u1, NEW k2 \in Kinds, NEW u2
      PROVE  Owed(e, <<to(k1, u1)>> \o <<to(k2, u2)>>)
  <2> DEFINE a == to(k1, u1)
             b == to(k2, u2)
  <2>1. a.event = e.id /\ a.kind \in Kinds /\ b.event = e.id /\ b.kind \in Kinds
    OBVIOUS
  <2> HIDE DEF a, b
  <2>2. Owed(e, <<a>> \o <<b>>)
    BY <2>1, OneOrTwo DEF Owed
  <2> QED
    BY <2>2 DEF a, b
<1>4. Kinds = {"outbid_notice", "auction_relisted", "auction_won",
               "auction_closed", "second_chance_offer", "sale_settled",
               "sale_failed", "payment_due_notice", "payment_receipt"}
  BY DEF Kinds
<1>5. CASE e.type = "BidPlaced"
  BY <1>1, <1>2, <1>4, <1>5 DEF NoticesFor
<1>6. CASE e.type = "AuctionListed"
  BY <1>1, <1>2, <1>4, <1>6 DEF NoticesFor
<1>7. CASE e.type = "AuctionClosed"
  <2> DEFINE won == to("auction_won", e.winner)
             closed == to("auction_closed", e.seller)
  <2>1. CASE e.outcome = "sold" /\ e.winner # NoUser
    <3>1. NoticesFor(e, seller) = <<won>> \o <<closed>>
      BY <1>7, <2>1 DEF NoticesFor
    <3>2. Owed(e, <<won>> \o <<closed>>)
      BY <1>3, <1>4
    <3> QED
      BY <3>1, <3>2
  <2>2. CASE ~(e.outcome = "sold" /\ e.winner # NoUser)
    <3>1. NoticesFor(e, seller) = << >> \o <<closed>>
      BY <1>7, <2>2 DEF NoticesFor
    <3>2. << >> \o <<closed>> = <<closed>>
      BY OneOrTwo
    <3>3. Owed(e, <<closed>>)
      BY <1>2, <1>4
    <3> QED
      BY <3>1, <3>2, <3>3
  <2> QED
    BY <2>1, <2>2
<1>8. CASE e.type \in {"WinnerReassigned", "SaleSettled", "SaleFailed",
                       "InvoiceIssued", "InvoicePaid"}
  BY <1>2, <1>4, <1>8 DEF NoticesFor
<1>9. CASE e.type \in {"ParticipantRegistered", "ParticipantVerified"}
  BY <1>1, <1>9 DEF NoticesFor
<1> QED
  BY <1>5, <1>6, <1>7, <1>8, <1>9 DEF Groups

\* Only two events look their recipient up.
LEMMA NoticesFixed ==
  ASSUME NEW e, e.type \notin ByDirectory, NEW s1, NEW s2
  PROVE  NoticesFor(e, s1) = NoticesFor(e, s2)
  BY DEF NoticesFor, ByDirectory

-----------------------------------------------------------------------------
(* The inductive invariant.                                                *)

AllMessages == UNION {Messages(backlog) : backlog \in Backlogs}

Pcs == {"start", "resolve", "record", "send", "ack"}

Shape == BusShape(inbox, run, deadLetter, faults, AllMessages, Groups, Pcs)

Pending(x) == Known(x, inbox, deadLetter, Groups)

History == \E backlog \in Backlogs : published = Messages(backlog)

FromHistory == \A x \in AllMessages : Pending(x) => x \in published

\* A row of the directory is what some event of the history says.
Directory ==
  \A row \in sellers : \E e \in published :
    e.type \in NamesSeller /\ row = <<e.auction, e.seller>>

\* Whom the event's notices go to is known.
Resolved(e) == e.type \in ByDirectory => SellerKnown(e)

AllReached(e) == \A i \in DOMAIN Notices(e) : Reached(Notices(e)[i])

Working(g, e) == inbox[g] # << >> /\ Head(inbox[g]) = e

\* Group g is about to send a notice of e.
Sending(g, e) == Working(g, e) /\ run[g].pc = "send"

\* A run that has begun knows its recipients, has served the notices before
\* the one it is at, and is the only one to send what it has recorded.
RunOK(g, e) ==
  Working(g, e) /\ run[g].pc # "start" =>
    /\ Resolved(e)
    /\ run[g].pc # "ack" => notice[g] \in DOMAIN Notices(e)
    /\ \A i \in DOMAIN Notices(e) :
         i < notice[g] \/ run[g].pc = "ack" => Reached(Notices(e)[i])
    /\ run[g].pc = "send" => /\ Notices(e)[notice[g]] \in sentLog
                             /\ Notices(e)[notice[g]] \notin BagToSet(mailed)

Running == \A g \in Groups : \A e \in published : RunOK(g, e)

\* A recorded slot is mailed, lost, or about to be sent.
Claims(g, s) ==
  \E e \in published : Sending(g, e) /\ s = Notices(e)[notice[g]]

SlotOK(s) == Reached(s) \/ \E g \in Groups : Claims(g, s)

Ledger ==
  /\ BagToSet(mailed) \subseteq sentLog /\ lost \subseteq sentLog
  /\ \A s \in sentLog : /\ s.kind \in Kinds /\ \E e \in published : e.id = s.event
                        /\ SlotOK(s)

\* A message that nobody has to handle any more has been served.
Complete == \A e \in published : Pending(e) \/ (Resolved(e) /\ AllReached(e))

IInv ==
  /\ Shape /\ History /\ FromHistory /\ Directory
  /\ notice \in [Groups -> 1 .. 2]
  /\ Running /\ Ledger /\ Complete /\ NobodyMailedTwice

-----------------------------------------------------------------------------
(* What every step leaves alone.                                           *)

ShapeAfter ==
  BusShape(inbox', run', deadLetter', faults', AllMessages, Groups, Pcs)

KnownAfter(x) == Known(x, inbox', deadLetter', Groups)

\* The directory stays, or remembers what a message says.
SellersMove ==
  \/ sellers' = sellers
  \/ \E e \in published : e.type \in NamesSeller /\ sellers' = RememberSeller(e)

\* Nothing recorded, mailed or lost is forgotten.
Remembered ==
  /\ sentLog \subseteq sentLog'
  /\ BagToSet(mailed) \subseteq BagToSet(mailed')
  /\ lost \subseteq lost'

\* Messages differ in their ids and agree on sellers.
LEMMA OneHistory ==
  ASSUME IInv
  PROVE  /\ published \subseteq AllMessages
         /\ \A e \in published : e.type \in Groups
         /\ \A e, f \in published : e.id = f.id => e = f
         /\ \A e, f \in published :
              /\ e.type \in NamesSeller /\ f.type \in NamesSeller
              /\ e.auction = f.auction
              => e.seller = f.seller
<1>1. PICK backlog \in Backlogs : published = Messages(backlog)
  BY DEF IInv, History
<1>2. published \subseteq AllMessages
  BY <1>1 DEF AllMessages
<1>3. \A e \in published : e.type \in Groups
  BY <1>2 DEF IInv, Shape, BusShape
<1>4. /\ \A e, f \in published : e.id = f.id => e = f
      /\ \A e, f \in published :
           /\ e.type \in NamesSeller /\ f.type \in NamesSeller
           /\ e.auction = f.auction
           => e.seller = f.seller
  BY <1>1, NotificationAssumption
<1> QED
  BY <1>2, <1>3, <1>4

\* The message a group works on is one of the history and of its type.
LEMMA AtHead ==
  ASSUME IInv, NEW g \in Groups, inbox[g] # << >>
  PROVE  /\ Event(g) \in published /\ Event(g).type = g /\ Pending(Event(g))
         /\ Working(g, Event(g))
<1>1. Event(g) \in AllMessages /\ Event(g).type = g /\ Pending(Event(g))
  BY HeadBus DEF IInv, Shape, Pending
<1>2. Event(g) \in published
  BY <1>1 DEF IInv, FromHistory
<1> QED
  BY <1>1, <1>2 DEF Working, Event

\* Rows that agree on the auction agree on the seller.
LEMMA DirectoryFunctional ==
  ASSUME IInv, NEW r1 \in sellers, NEW r2 \in sellers, r1[1] = r2[1]
  PROVE  r1 = r2
<1>1. PICK e \in published : e.type \in NamesSeller /\ r1 = <<e.auction, e.seller>>
  BY DEF IInv, Directory
<1>2. PICK f \in published : f.type \in NamesSeller /\ r2 = <<f.auction, f.seller>>
  BY DEF IInv, Directory
<1> QED
  BY <1>1, <1>2, OneHistory

\* The directory only grows, and stays a directory.
LEMMA SellersGrow ==
  ASSUME IInv, SellersMove
  PROVE  /\ sellers \subseteq sellers'
         /\ \A row \in sellers' : \E e \in published :
              e.type \in NamesSeller /\ row = <<e.auction, e.seller>>
         /\ \A r1, r2 \in sellers' : r1[1] = r2[1] => r1 = r2
<1>1. /\ sellers \subseteq sellers'
      /\ \A row \in sellers' : \E e \in published :
           e.type \in NamesSeller /\ row = <<e.auction, e.seller>>
  <2>1. CASE sellers' = sellers
    BY <2>1 DEF IInv, Directory
  <2>2. ASSUME NEW e \in published, e.type \in NamesSeller,
               sellers' = RememberSeller(e)
        PROVE  /\ sellers \subseteq sellers'
               /\ \A row \in sellers' : \E f \in published :
                    f.type \in NamesSeller /\ row = <<f.auction, f.seller>>
    <3>1. ASSUME NEW row \in sellers, row[1] = e.auction
          PROVE  row = <<e.auction, e.seller>>
      <4>1. PICK f \in published : f.type \in NamesSeller /\ row = <<f.auction, f.seller>>
        BY DEF IInv, Directory
      <4> QED
        BY <2>2, <3>1, <4>1, OneHistory
    <3> QED
      BY <2>2, <3>1 DEF RememberSeller, IInv, Directory
  <2> QED
    BY <2>1, <2>2 DEF SellersMove
<1>2. ASSUME NEW r1 \in sellers', NEW r2 \in sellers', r1[1] = r2[1]
      PROVE  r1 = r2
  <2>1. PICK e \in published : e.type \in NamesSeller /\ r1 = <<e.auction, e.seller>>
    BY <1>1
  <2>2. PICK f \in published : f.type \in NamesSeller /\ r2 = <<f.auction, f.seller>>
    BY <1>1
  <2> QED
    BY <1>2, <2>1, <2>2, OneHistory
<1> QED
  BY <1>1, <1>2

\* What an event asks for does not change once it can be said.
LEMMA NoticesStay ==
  ASSUME IInv, SellersMove, NEW e, Resolved(e)
  PROVE  Resolved(e)' /\ Notices(e)' = Notices(e)
<1>1. CASE e.type \notin ByDirectory
  <2>1. Notices(e) = NoticesFor(e, SellerOf(e)) /\ Notices(e)' = NoticesFor(e, SellerOf(e)')
    BY DEF Notices
  <2> QED
    BY <1>1, <2>1, NoticesFixed DEF Resolved
<1>2. CASE e.type \in ByDirectory
  <2>1. PICK row \in sellers : row[1] = e.auction
    BY <1>2 DEF Resolved, SellerKnown
  <2>2. row \in sellers'
    BY SellersGrow
  <2>3. SellerOf(e) = row[2]
    <3>1. \A r \in sellers : r[1] = e.auction => r = row
      BY <2>1, DirectoryFunctional
    <3> QED
      BY <2>1, <3>1 DEF SellerOf
  <2>4. SellerOf(e)' = row[2]
    <3>1. \A r \in sellers' : r[1] = e.auction => r = row
      BY <2>1, <2>2, SellersGrow
    <3> QED
      BY <2>1, <2>2, <3>1 DEF SellerOf
  <2> QED
    BY <2>1, <2>2, <2>3, <2>4 DEF Resolved, SellerKnown, Notices
<1> QED
  BY <1>1, <1>2

\* Groups that work at the same time work on different slots.
LEMMA SlotsDiffer ==
  ASSUME IInv, NEW g \in Groups, NEW h \in Groups \ {g},
         NEW e \in published, Working(g, e), NEW f \in published, Working(h, f),
         NEW i \in DOMAIN Notices(e), NEW j \in DOMAIN Notices(f)
  PROVE  Notices(e)[i] # Notices(f)[j]
<1>1. e.type = g /\ f.type = h
  BY AtHead DEF Working, Event
<1>2. e.id # f.id
  BY <1>1, OneHistory
<1>3. Owed(e, Notices(e)) /\ Owed(f, Notices(f))
  BY <1>1, NoticesShape DEF Notices
<1> QED
  BY <1>2, <1>3 DEF Owed

-----------------------------------------------------------------------------
(* Steps.                                                                  *)

\* A run that goes on with its message is as good as before.
LEMMA RunKept ==
  ASSUME IInv, SellersMove, Remembered, NEW h \in Groups, NEW e \in published,
         Continues(h), notice'[h] = notice[h],
         Sending(h, e) => Notices(e)[notice[h]] \notin BagToSet(mailed')
  PROVE  RunOK(h, e)'
<1> SUFFICES ASSUME Working(h, e)', run'[h].pc # "start"
             PROVE  /\ Resolved(e)'
                    /\ run'[h].pc # "ack" => notice'[h] \in DOMAIN Notices(e)'
                    /\ \A i \in DOMAIN Notices(e)' :
                         i < notice'[h] \/ run'[h].pc = "ack" => Reached(Notices(e)[i])'
                    /\ run'[h].pc = "send" =>
                         /\ Notices(e)'[notice'[h]] \in sentLog'
                         /\ Notices(e)'[notice'[h]] \notin BagToSet(mailed')
  BY DEF RunOK
<1>1. inbox[h] # << >> /\ run[h].pc # "start"
  BY DEF Continues, IInv, Shape, BusShape, FirstRun
<1>2. Working(h, e)
  BY <1>1 DEF Continues, Working
<1>3. /\ Resolved(e)
      /\ run[h].pc # "ack" => notice[h] \in DOMAIN Notices(e)
      /\ \A i \in DOMAIN Notices(e) :
           i < notice[h] \/ run[h].pc = "ack" => Reached(Notices(e)[i])
      /\ run[h].pc = "send" => Notices(e)[notice[h]] \in sentLog
  BY <1>1, <1>2 DEF IInv, Running, RunOK
<1>4. Resolved(e)' /\ Notices(e)' = Notices(e)
  BY <1>3, NoticesStay
<1>5. \A s : Reached(s) => Reached(s)'
  BY DEF Reached, Remembered
<1>6. run'[h] = run[h]
  BY DEF Continues
<1>7. \A i \in DOMAIN Notices(e) :
        i < notice[h] \/ run[h].pc = "ack" => Reached(Notices(e)[i])'
  BY <1>3, <1>4 DEF Reached, Remembered
<1> QED
  BY <1>2, <1>3, <1>4, <1>6, <1>7 DEF Remembered, Sending

\* A slot that waits for another group still does.
LEMMA SlotKept ==
  ASSUME IInv, SellersMove, Remembered, UNCHANGED published, NEW g \in Groups,
         \A h \in Groups \ {g} : Continues(h) /\ notice'[h] = notice[h],
         NEW s, SlotOK(s),
         ~Claims(g, s)
  PROVE  SlotOK(s)'
<1>1. CASE Reached(s)
  BY <1>1 DEF Reached, Remembered, SlotOK
<1>2. ASSUME NEW h \in Groups, NEW e \in published, Sending(h, e),
             s = Notices(e)[notice[h]]
      PROVE  SlotOK(s)'
  <2>1. h # g
    BY <1>2 DEF Claims
  <2>2. Resolved(e)
    BY <1>2 DEF IInv, Running, RunOK, Sending
  <2>3. Notices(e)' = Notices(e)
    BY <2>2, NoticesStay
  <2>4. Sending(h, e)'
    BY <1>2, <2>1 DEF Sending, Working, Continues
  <2> QED
    BY <1>2, <2>1, <2>3, <2>4 DEF SlotOK, Claims
<1> QED
  BY <1>1, <1>2 DEF SlotOK, Claims

\* A step of group g keeps the invariant if it keeps the run of g, accounts
\* for the slots of g, and lets go only of a message that is served.
LEMMA Frame ==
  ASSUME IInv, SellersMove, Remembered, UNCHANGED published, ShapeAfter,
         notice' \in [Groups -> 1 .. 2], NEW g \in Groups,
         \A h \in Groups \ {g} : Continues(h) /\ notice'[h] = notice[h],
         \A x : KnownAfter(x) => Pending(x),
         \A x \in published :
           Pending(x) => KnownAfter(x) \/ (Resolved(x) /\ AllReached(x)),
         \A e \in published : RunOK(g, e)',
         \A s : Claims(g, s) => SlotOK(s)',
         \A s \in sentLog' \ sentLog :
           s.kind \in Kinds /\ (\E e \in published : e.id = s.event) /\ SlotOK(s)',
         \A s \in BagToSet(mailed') : s \in BagToSet(mailed) \/ Claims(g, s),
         BagToSet(mailed') \subseteq sentLog', lost' \subseteq sentLog',
         NobodyMailedTwice'
  PROVE  IInv'
<1>1. Shape' /\ History'
  BY DEF Shape, ShapeAfter, IInv, History
<1>2. FromHistory'
  BY DEF IInv, FromHistory, Pending, KnownAfter
<1>3. Directory'
  BY SellersGrow DEF Directory
<1>4. Complete'
  <2> SUFFICES ASSUME NEW e \in published
               PROVE  KnownAfter(e) \/ (Resolved(e)' /\ AllReached(e)')
    BY DEF Complete, KnownAfter, Pending
  <2>1. CASE KnownAfter(e)
    BY <2>1
  <2>2. CASE Resolved(e) /\ AllReached(e)
    <3>1. Resolved(e)' /\ Notices(e)' = Notices(e)
      BY <2>2, NoticesStay
    <3> QED
      BY <2>2, <3>1 DEF AllReached, Reached, Remembered
  <2> QED
    BY <2>1, <2>2 DEF IInv, Complete
<1>5. Running'
  <2> SUFFICES ASSUME NEW h \in Groups, NEW e \in published PROVE RunOK(h, e)'
    BY DEF Running
  <2>1. CASE h = g
    BY <2>1
  <2>2. CASE h # g
    <3>1. ASSUME Sending(h, e) PROVE Notices(e)[notice[h]] \notin BagToSet(mailed')
      <4>1. Notices(e)[notice[h]] \notin BagToSet(mailed) /\ notice[h] \in DOMAIN Notices(e)
        BY <3>1 DEF IInv, Running, RunOK, Sending
      <4>2. ASSUME NEW f \in published, Sending(g, f)
            PROVE  Notices(e)[notice[h]] # Notices(f)[notice[g]]
        <5>1. notice[g] \in DOMAIN Notices(f)
          BY <4>2 DEF IInv, Running, RunOK, Sending
        <5> QED
          BY <2>2, <3>1, <4>1, <4>2, <5>1, SlotsDiffer DEF Sending
      <4> QED
        BY <4>1, <4>2 DEF Claims
    <3> QED
      BY <2>2, <3>1, RunKept
  <2> QED
    BY <2>1, <2>2
<1>6. Ledger'
  <2> SUFFICES ASSUME NEW s \in sentLog'
               PROVE  /\ s.kind \in Kinds /\ \E e \in published : e.id = s.event
                      /\ SlotOK(s)'
    BY DEF Ledger
  <2>1. CASE s \notin sentLog
    BY <2>1
  <2>2. CASE s \in sentLog
    <3>1. s.kind \in Kinds /\ (\E e \in published : e.id = s.event) /\ SlotOK(s)
      BY <2>2 DEF IInv, Ledger
    <3>2. CASE Claims(g, s)
      BY <3>1, <3>2
    <3>3. CASE ~Claims(g, s)
      BY <3>1, <3>3, SlotKept
    <3> QED
      BY <3>1, <3>2, <3>3
  <2> QED
    BY <2>1, <2>2
<1> QED
  BY <1>1, <1>2, <1>3, <1>4, <1>5, <1>6 DEF IInv

\* An error or a crash: the run starts over or its message is parked; a crash
\* right after the record loses the mail.
LEMMA RestartStep ==
  ASSUME IInv, NEW g \in Groups, inbox[g] # << >>,
         UNCHANGED <<published, sellers, sentLog, mailed>>,
         lost' = IF run[g].pc = "send" THEN lost \cup {Slot(g)} ELSE lost,
         notice' \in [Groups -> 1 .. 2], ShapeAfter, Conserved(Groups),
         \A h \in Groups \ {g} : Continues(h) /\ notice'[h] = notice[h],
         run'[g].pc = "start"
  PROVE  IInv'
<1>1. SellersMove /\ Remembered /\ UNCHANGED published
  BY DEF SellersMove, Remembered
<1>2. \A x : KnownAfter(x) <=> Pending(x)
  BY DEF Conserved, KnownAfter, Pending
<1>3. \A e \in published : RunOK(g, e)'
  BY DEF RunOK
<1>4. ASSUME NEW s, Claims(g, s) PROVE SlotOK(s)' /\ s \in sentLog
  <2>1. PICK e \in published : Sending(g, e) /\ s = Notices(e)[notice[g]]
    BY <1>4 DEF Claims
  <2>2. s = Slot(g) /\ run[g].pc = "send"
    BY <2>1 DEF Sending, Working, Slot, Event
  <2>3. s \in sentLog
    BY <2>1 DEF IInv, Running, RunOK, Sending
  <2> QED
    BY <2>2, <2>3 DEF SlotOK, Reached
<1>5. lost' \subseteq sentLog'
  <2>1. CASE run[g].pc = "send"
    <3>1. Event(g) \in published /\ Working(g, Event(g))
      BY AtHead
    <3>2. Claims(g, Slot(g))
      BY <2>1, <3>1 DEF Claims, Sending, Slot
    <3> QED
      BY <1>4, <2>1, <3>2 DEF IInv, Ledger
  <2>2. CASE run[g].pc # "send"
    BY <2>2 DEF IInv, Ledger
  <2> QED
    BY <2>1, <2>2
<1>6. NobodyMailedTwice' /\ BagToSet(mailed') \subseteq sentLog'
  BY DEF IInv, NobodyMailedTwice, Ledger
<1> QED
  BY <1>1, <1>2, <1>3, <1>4, <1>5, <1>6, Frame

\* A statement that succeeds moves one run and no message.
LEMMA GotoFacts ==
  ASSUME IInv, NEW g \in Groups, inbox[g] # << >>, NEW pc \in Pcs, Goto(g, pc)
  PROVE  /\ ShapeAfter /\ inbox' = inbox /\ run'[g].pc = pc
         /\ \A h \in Groups \ {g} : Continues(h)
         /\ \A x : KnownAfter(x) <=> Pending(x)
<1>1. /\ ShapeAfter /\ inbox' = inbox /\ deadLetter' = deadLetter
      /\ run'[g].pc = pc /\ \A h \in Groups \ {g} : run'[h] = run[h]
  BY GotoBus DEF IInv, Shape, ShapeAfter
<1> QED
  BY <1>1 DEF Continues, KnownAfter, Pending

\* The handler has read its message and knows whom to write to.
LEMMA BeginStep ==
  ASSUME IInv, NEW g \in Groups, At(g, "start"), Resolved(Event(g)),
         Goto(g, IF Notices(Event(g)) = << >> THEN "ack" ELSE "resolve"),
         SellersMove, notice' = [notice EXCEPT ![g] = 1],
         UNCHANGED <<published, sentLog, mailed, lost>>
  PROVE  IInv'
<1>1. inbox[g] # << >> /\ run[g].pc = "start"
  BY DEF At
<1>2. PICK e \in published : e = Event(g) /\ e.type = g /\ Working(g, e)
  BY <1>1, AtHead
<1> DEFINE pc == IF Notices(e) = << >> THEN "ack" ELSE "resolve"
<1>3. pc \in Pcs
  BY DEF Pcs
<1>4. Goto(g, pc) /\ Resolved(e)
  BY <1>2
<1>5. Owed(e, Notices(e))
  BY <1>2, NoticesShape DEF Notices
<1>6. /\ ShapeAfter /\ inbox' = inbox /\ run'[g].pc = pc
      /\ \A h \in Groups \ {g} : Continues(h)
      /\ \A x : KnownAfter(x) <=> Pending(x)
  BY <1>1, <1>3, <1>4, GotoFacts
<1>7. /\ notice' \in [Groups -> 1 .. 2] /\ notice'[g] = 1
      /\ \A h \in Groups \ {g} : notice'[h] = notice[h]
  BY DEF IInv
<1>8. Resolved(e)' /\ Notices(e)' = Notices(e)
  BY <1>4, NoticesStay
<1>9. ASSUME NEW f \in published PROVE RunOK(g, f)'
  <2> SUFFICES ASSUME Working(g, f)' PROVE RunOK(g, f)'
    BY DEF RunOK
  <2>1. f = e
    BY <1>2, <1>6 DEF Working
  <2>2. pc = "ack" => DOMAIN Notices(e) = {}
    BY <1>5 DEF Owed
  <2>3. pc # "ack" => pc = "resolve" /\ 1 \in DOMAIN Notices(e)
    BY <1>5 DEF Owed
  <2>4. \A i \in DOMAIN Notices(e) : ~(i < 1)
    BY <1>5 DEF Owed
  <2> HIDE DEF pc
  <2> QED
    BY <1>6, <1>7, <1>8, <2>1, <2>2, <2>3, <2>4 DEF RunOK
<1>10. \A s : ~Claims(g, s)
  BY <1>1 DEF Claims, Sending
<1>11. /\ Remembered /\ NobodyMailedTwice' /\ BagToSet(mailed') \subseteq sentLog'
       /\ lost' \subseteq sentLog'
  BY DEF Remembered, IInv, NobodyMailedTwice, Ledger
<1> QED
  BY <1>6, <1>7, <1>9, <1>10, <1>11, Frame

\* The recipient is known: the notice may be recorded.
LEMMA ResolveStep ==
  ASSUME IInv, NEW g \in Groups, At(g, "resolve"), Goto(g, "record"),
         UNCHANGED <<published, sellers, sentLog, mailed, notice, lost>>
  PROVE  IInv'
<1>1. inbox[g] # << >> /\ run[g].pc = "resolve" /\ "record" \in Pcs
  BY DEF At, Pcs
<1>2. /\ ShapeAfter /\ inbox' = inbox /\ run'[g].pc = "record"
      /\ \A h \in Groups \ {g} : Continues(h)
      /\ \A x : KnownAfter(x) <=> Pending(x)
  BY <1>1, GotoFacts
<1>3. SellersMove /\ Remembered
  BY DEF SellersMove, Remembered
<1>4. ASSUME NEW f \in published PROVE RunOK(g, f)'
  <2> SUFFICES ASSUME Working(g, f)' PROVE RunOK(g, f)'
    BY DEF RunOK
  <2>1. Working(g, f)
    BY <1>2 DEF Working
  <2>2. /\ Resolved(f) /\ notice[g] \in DOMAIN Notices(f)
        /\ \A i \in DOMAIN Notices(f) : i < notice[g] => Reached(Notices(f)[i])
    BY <1>1, <2>1 DEF IInv, Running, RunOK
  <2>3. Resolved(f)' /\ Notices(f)' = Notices(f)
    BY <1>3, <2>2, NoticesStay
  <2> QED
    BY <1>2, <2>2, <2>3 DEF RunOK, Reached
<1>5. \A s : ~Claims(g, s)
  BY <1>1 DEF Claims, Sending
<1>6. /\ NobodyMailedTwice' /\ BagToSet(mailed') \subseteq sentLog'
      /\ lost' \subseteq sentLog' /\ notice' \in [Groups -> 1 .. 2]
  BY DEF IInv, NobodyMailedTwice, Ledger
<1> QED
  BY <1>2, <1>3, <1>4, <1>5, <1>6, Frame

\* Recording the slot is what allows the mail.
LEMMA RecordStep ==
  ASSUME IInv, NEW g \in Groups, At(g, "record"), Goto(g, "send"),
         Slot(g) \notin sentLog, sentLog' = sentLog \cup {Slot(g)},
         UNCHANGED <<published, sellers, mailed, notice, lost>>
  PROVE  IInv'
<1>1. inbox[g] # << >> /\ run[g].pc = "record" /\ "send" \in Pcs
  BY DEF At, Pcs
<1>2. /\ ShapeAfter /\ inbox' = inbox /\ run'[g].pc = "send"
      /\ \A h \in Groups \ {g} : Continues(h)
      /\ \A x : KnownAfter(x) <=> Pending(x)
  BY <1>1, GotoFacts
<1>3. SellersMove /\ Remembered
  BY DEF SellersMove, Remembered
<1>4. PICK e \in published : e = Event(g) /\ e.type = g /\ Working(g, e)
  BY <1>1, AtHead
<1>5. /\ Resolved(e) /\ notice[g] \in DOMAIN Notices(e)
      /\ \A i \in DOMAIN Notices(e) : i < notice[g] => Reached(Notices(e)[i])
  BY <1>1, <1>4 DEF IInv, Running, RunOK
<1>6. Resolved(e)' /\ Notices(e)' = Notices(e)
  BY <1>3, <1>5, NoticesStay
<1>7. PICK s : s = Slot(g) /\ s = Notices(e)[notice[g]]
  BY <1>4 DEF Slot
<1>8. s.event = e.id /\ s.kind \in Kinds
  BY <1>4, <1>5, <1>7, NoticesShape DEF Notices, Owed
<1>9. ASSUME NEW f \in published PROVE RunOK(g, f)'
  <2> SUFFICES ASSUME Working(g, f)' PROVE RunOK(g, f)'
    BY DEF RunOK
  <2>1. f = e
    BY <1>2, <1>4 DEF Working
  <2>2. s \notin BagToSet(mailed)
    BY <1>7 DEF IInv, Ledger
  <2> QED
    BY <1>2, <1>5, <1>6, <1>7, <2>1, <2>2 DEF RunOK, Reached
<1>10. SlotOK(s)'
  <2>1. Sending(g, e)'
    BY <1>2, <1>4 DEF Sending, Working
  <2> QED
    BY <1>6, <1>7, <2>1 DEF SlotOK, Claims
<1>11. \A t : ~Claims(g, t)
  BY <1>1 DEF Claims, Sending
<1>12. /\ NobodyMailedTwice' /\ BagToSet(mailed') \subseteq sentLog'
       /\ lost' \subseteq sentLog' /\ notice' \in [Groups -> 1 .. 2]
  BY DEF IInv, NobodyMailedTwice, Ledger
<1>13. \A t \in sentLog' \ sentLog :
         t.kind \in Kinds /\ (\E f \in published : f.id = t.event) /\ SlotOK(t)'
  BY <1>7, <1>8, <1>10
<1> QED
  BY <1>2, <1>3, <1>9, <1>11, <1>12, <1>13, Frame

\* deliver returns after a mail or at a duplicate: the notice is out.
LEMMA ReturnStep ==
  ASSUME IInv, NEW g \in Groups, inbox[g] # << >>, run[g].pc \in {"record", "send"},
         DeliverReturns(g), NEW s, s = Slot(g), Reached(s)',
         BagToSet(mailed) \subseteq BagToSet(mailed'),
         \A t \in BagToSet(mailed') :
           t \in BagToSet(mailed) \/ (t = s /\ run[g].pc = "send"),
         NobodyMailedTwice', UNCHANGED <<published, sellers, sentLog, lost>>
  PROVE  IInv'
<1>1. PICK e \in published : e = Event(g) /\ e.type = g /\ Working(g, e)
  BY AtHead
<1>2. /\ Resolved(e) /\ notice[g] \in DOMAIN Notices(e)
      /\ \A i \in DOMAIN Notices(e) : i < notice[g] => Reached(Notices(e)[i])
      /\ run[g].pc = "send" => Notices(e)[notice[g]] \in sentLog
  BY <1>1 DEF IInv, Running, RunOK
<1>3. SellersMove /\ Remembered
  BY DEF SellersMove, Remembered
<1>4. Resolved(e)' /\ Notices(e)' = Notices(e)
  BY <1>2, <1>3, NoticesStay
<1>5. s = Notices(e)[notice[g]]
  BY <1>1 DEF Slot
<1>6. /\ Len(Notices(e)) \in 0 .. 2 /\ DOMAIN Notices(e) = 1 .. Len(Notices(e))
  BY <1>1, NoticesShape DEF Notices, Owed
<1>7. \A i \in DOMAIN Notices(e) : i < notice[g] + 1 => Reached(Notices(e)[i])'
  <2> SUFFICES ASSUME NEW i \in DOMAIN Notices(e), i < notice[g] + 1
               PROVE  Reached(Notices(e)[i])'
    OBVIOUS
  <2>1. notice[g] \in 1 .. 2
    BY DEF IInv
  <2>2. CASE i = notice[g]
    BY <1>4, <1>5, <2>2 DEF Reached
  <2>3. CASE i # notice[g]
    <3>1. i < notice[g]
      BY <1>6, <2>1, <2>3
    <3> QED
      BY <1>2, <1>3, <1>4, <3>1 DEF Reached, Remembered
  <2> QED
    BY <2>2, <2>3
<1>8. \A t : Claims(g, t) => t = s
  BY <1>1, <1>5 DEF Claims, Sending, Working
<1>9. \A t : Claims(g, t) => SlotOK(t)'
  BY <1>8 DEF SlotOK
<1>10. \A t \in BagToSet(mailed') : t \in BagToSet(mailed) \/ Claims(g, t)
  BY <1>1, <1>5 DEF Claims, Sending
<1>11. BagToSet(mailed') \subseteq sentLog' /\ lost' \subseteq sentLog'
  BY <1>2, <1>5 DEF IInv, Ledger
<1>12. CASE notice[g] < Len(Notices(e))
  <2>1. Goto(g, "resolve") /\ notice' = [notice EXCEPT ![g] = notice[g] + 1]
    BY <1>1, <1>12 DEF DeliverReturns
  <2>2. notice[g] \in 1 .. 2 /\ notice[g] + 1 \in 1 .. 2 /\ notice[g] + 1 \in DOMAIN Notices(e)
    BY <1>6, <1>12 DEF IInv
  <2>3. /\ notice' \in [Groups -> 1 .. 2] /\ notice'[g] = notice[g] + 1
        /\ \A h \in Groups \ {g} : notice'[h] = notice[h]
    BY <2>1, <2>2 DEF IInv
  <2>4. /\ ShapeAfter /\ inbox' = inbox /\ run'[g].pc = "resolve"
        /\ \A h \in Groups \ {g} : Continues(h)
        /\ \A x : KnownAfter(x) <=> Pending(x)
    <3>1. "resolve" \in Pcs
      BY DEF Pcs
    <3> QED
      BY <2>1, <3>1, GotoFacts
  <2>5. ASSUME NEW f \in published PROVE RunOK(g, f)'
    <3> SUFFICES ASSUME Working(g, f)' PROVE RunOK(g, f)'
      BY DEF RunOK
    <3>1. f = e
      BY <1>1, <2>4 DEF Working
    <3> QED
      BY <1>4, <1>7, <2>2, <2>3, <2>4, <3>1 DEF RunOK
  <2> QED
    BY <1>3, <1>9, <1>10, <1>11, <2>3, <2>4, <2>5, Frame
<1>13. CASE ~(notice[g] < Len(Notices(e)))
  <2>1. Goto(g, "ack") /\ UNCHANGED notice
    BY <1>1, <1>13 DEF DeliverReturns
  <2>2. notice' \in [Groups -> 1 .. 2] /\ notice[g] \in 1 .. 2
    BY <2>1 DEF IInv
  <2>3. /\ ShapeAfter /\ inbox' = inbox /\ run'[g].pc = "ack"
        /\ \A h \in Groups \ {g} : Continues(h)
        /\ \A x : KnownAfter(x) <=> Pending(x)
    <3>1. "ack" \in Pcs
      BY DEF Pcs
    <3> QED
      BY <2>1, <3>1, GotoFacts
  <2>4. \A i \in DOMAIN Notices(e) : Reached(Notices(e)[i])'
    <3>1. \A i \in DOMAIN Notices(e) : i < notice[g] + 1
      BY <1>6, <1>13, <2>2
    <3> QED
      BY <1>7, <3>1
  <2>5. ASSUME NEW f \in published PROVE RunOK(g, f)'
    <3> SUFFICES ASSUME Working(g, f)' PROVE RunOK(g, f)'
      BY DEF RunOK
    <3>1. f = e
      BY <1>1, <2>3 DEF Working
    <3> QED
      BY <1>4, <2>3, <2>4, <3>1 DEF RunOK
  <2> QED
    BY <1>3, <1>9, <1>10, <1>11, <2>1, <2>2, <2>3, <2>5, Frame
<1> QED
  BY <1>12, <1>13

\* A slot that is already taken when g comes to record it is out: nobody else
\* works on it.
LEMMA TakenIsReached ==
  ASSUME IInv, NEW g \in Groups, At(g, "record"), Slot(g) \in sentLog
  PROVE  Reached(Slot(g))
<1>1. inbox[g] # << >> /\ run[g].pc = "record"
  BY DEF At
<1>2. PICK e \in published : e = Event(g) /\ Working(g, e)
  BY <1>1, AtHead
<1>3. notice[g] \in DOMAIN Notices(e) /\ Slot(g) = Notices(e)[notice[g]]
  BY <1>1, <1>2 DEF IInv, Running, RunOK, Slot
<1>4. ASSUME NEW h \in Groups, Claims(h, Slot(g)) PROVE FALSE
  <2>1. PICK f \in published : Sending(h, f) /\ Slot(g) = Notices(f)[notice[h]]
    BY <1>4 DEF Claims
  <2>2. h # g /\ notice[h] \in DOMAIN Notices(f) /\ Working(h, f)
    BY <1>1, <2>1 DEF IInv, Running, RunOK, Sending
  <2> QED
    BY <1>2, <1>3, <2>1, <2>2, SlotsDiffer
<1> QED
  BY <1>4 DEF IInv, Ledger, SlotOK

\* A mail of a new slot is its only one.
LEMMA MailOnce ==
  ASSUME NobodyMailedTwice, NEW s, s \notin BagToSet(mailed),
         mailed' = mailed (+) SetToBag({s})
  PROVE  BagToSet(mailed') = BagToSet(mailed) \cup {s} /\ NobodyMailedTwice'
  BY DEF NobodyMailedTwice, (+), BagToSet, SetToBag

LEMMA SendStep ==
  ASSUME IInv, NEW g \in Groups, Send(g), UNCHANGED published
  PROVE  IInv'
<1>1. /\ inbox[g] # << >> /\ run[g].pc = "send" /\ DeliverReturns(g)
      /\ mailed' = mailed (+) SetToBag({Slot(g)})
      /\ UNCHANGED <<published, sellers, sentLog, lost>>
  BY DEF Send, At, directories
<1>2. PICK e \in published : e = Event(g) /\ Working(g, e)
  BY <1>1, AtHead
<1>3. PICK s : s = Slot(g)
  OBVIOUS
<1>4. s \notin BagToSet(mailed)
  BY <1>1, <1>2, <1>3 DEF IInv, Running, RunOK, Slot
<1>5. BagToSet(mailed') = BagToSet(mailed) \cup {s} /\ NobodyMailedTwice'
  BY <1>1, <1>3, <1>4, MailOnce DEF IInv
<1>6. Reached(s)'
  BY <1>5 DEF Reached
<1> QED
  BY <1>1, <1>3, <1>5, <1>6, ReturnStep

LEMMA AckStep ==
  ASSUME IInv, NEW g \in Groups, Ack(g),
         UNCHANGED <<published, sellers, sentLog, mailed, notice, lost>>
  PROVE  IInv'
<1>1. inbox[g] # << >> /\ run[g].pc = "ack" /\ Acked(g)
  BY DEF Ack, At
<1>2. PICK e \in published : e = Event(g) /\ Working(g, e)
  BY <1>1, AtHead
<1>3. Resolved(e) /\ AllReached(e)
  BY <1>1, <1>2 DEF IInv, Running, RunOK, AllReached
<1>4. /\ ShapeAfter /\ \A x : KnownAfter(x) => Pending(x)
      /\ \A x : Pending(x) => KnownAfter(x) \/ x = e
  BY <1>2, AckBus DEF IInv, Shape, ShapeAfter, KnownAfter, Pending
<1>5. \A h \in Groups \ {g} : Continues(h)
  BY <1>1, OthersContinue DEF IInv, Shape
<1>6. run'[g].pc = "start"
  BY <1>1 DEF Acked, FirstRun, IInv, Shape, BusShape
<1>7. \A f \in published : RunOK(g, f)'
  BY <1>6 DEF RunOK
<1>8. \A s : ~Claims(g, s)
  BY <1>1 DEF Claims, Sending
<1>9. /\ SellersMove /\ Remembered /\ NobodyMailedTwice'
      /\ BagToSet(mailed') \subseteq sentLog' /\ lost' \subseteq sentLog'
      /\ notice' \in [Groups -> 1 .. 2]
  BY DEF IInv, NobodyMailedTwice, Ledger, SellersMove, Remembered
<1> QED
  BY <1>3, <1>4, <1>5, <1>7, <1>8, <1>9, Frame

\* A replay, and a step that changes nothing.
LEMMA QuietStep ==
  ASSUME IInv, UNCHANGED <<published, sellers, sentLog, mailed, notice, lost>>,
         ShapeAfter, Conserved(Groups), \A h \in Groups : Continues(h)
  PROVE  IInv'
<1>1. PICK g \in Groups : TRUE
  BY DEF Groups
<1>2. \A x : KnownAfter(x) <=> Pending(x)
  BY DEF Conserved, KnownAfter, Pending
<1>3. /\ SellersMove /\ Remembered /\ NobodyMailedTwice'
      /\ BagToSet(mailed') \subseteq sentLog' /\ lost' \subseteq sentLog'
      /\ notice' \in [Groups -> 1 .. 2]
  BY DEF IInv, NobodyMailedTwice, Ledger, SellersMove, Remembered
<1>4. ASSUME NEW e \in published PROVE RunOK(g, e)'
  <2>1. Sending(g, e) => Notices(e)[notice[g]] \notin BagToSet(mailed')
    BY DEF IInv, Running, RunOK, Sending
  <2> QED
    BY <1>3, <2>1, RunKept
<1>5. ASSUME NEW s, Claims(g, s) PROVE SlotOK(s)'
  <2>1. PICK e \in published : Sending(g, e) /\ s = Notices(e)[notice[g]]
    BY <1>5 DEF Claims
  <2>2. Notices(e)' = Notices(e)
    BY <1>3, <2>1, NoticesStay DEF IInv, Running, RunOK, Sending
  <2>3. Sending(g, e)'
    BY <2>1 DEF Sending, Working, Continues
  <2> QED
    BY <2>1, <2>2, <2>3 DEF SlotOK, Claims
<1> QED
  BY <1>2, <1>3, <1>4, <1>5, Frame

\* The handlers' own errors.
LEMMA FailStep ==
  ASSUME IInv, NEW g \in Groups, inbox[g] # << >>, Fail(g), run[g].pc # "send",
         UNCHANGED <<published, sellers, sentLog, mailed, lost>>,
         notice' \in [Groups -> 1 .. 2],
         \A h \in Groups \ {g} : notice'[h] = notice[h]
  PROVE  IInv'
<1>1. RetryOrPark(g) /\ faults' \in 0 .. MaxFaults
  BY DEF Fail, IInv, Shape, BusShape
<1>2. ShapeAfter /\ Conserved(Groups) /\ run'[g].pc = "start"
  BY <1>1, RetryOrParkBus DEF IInv, Shape, ShapeAfter
<1>3. \A h \in Groups \ {g} : Continues(h)
  BY <1>1, OthersContinue DEF IInv, Shape
<1> QED
  BY <1>2, <1>3, RestartStep

\* Every step keeps the invariant.
LEMMA InvStep == IInv /\ [Next]_vars => IInv'
<1> SUFFICES ASSUME IInv, [Next]_vars PROVE IInv'
  OBVIOUS
<1>0. Shape /\ notice \in [Groups -> 1 .. 2]
  BY DEF IInv
<1>1. ASSUME NEW g \in Groups, Begin(g), UNCHANGED published PROVE IInv'
  <2>1. /\ At(g, "start") /\ inbox[g] # << >> /\ run[g].pc = "start"
        /\ notice' = [notice EXCEPT ![g] = 1]
        /\ UNCHANGED <<published, sentLog, mailed, lost>>
    BY <1>1 DEF Begin, At
  <2>2. PICK e \in published : e = Event(g) /\ e.type = g
    BY <2>1, AtHead
  <2>3. SellersMove /\ (g \notin NamesSeller => sellers' = sellers)
    BY <1>1, <2>2 DEF Begin, SellersMove
  <2>4. CASE g \in ByDirectory /\ ~SellerKnown(e)
    <3>1. Fail(g) /\ sellers' = sellers
      BY <1>1, <2>2, <2>3, <2>4 DEF Begin, ByDirectory, NamesSeller
    <3>2. /\ notice' \in [Groups -> 1 .. 2]
          /\ \A h \in Groups \ {g} : notice'[h] = notice[h]
      BY <1>0, <2>1
    <3> QED
      BY <2>1, <3>1, <3>2, FailStep
  <2>5. CASE ~(g \in ByDirectory /\ ~SellerKnown(e))
    <3>1. Goto(g, IF Notices(Event(g)) = << >> THEN "ack" ELSE "resolve")
      BY <1>1, <2>2, <2>5 DEF Begin
    <3>2. Resolved(Event(g))
      BY <2>2, <2>5 DEF Resolved
    <3> QED
      BY <2>1, <2>3, <3>1, <3>2, BeginStep
  <2> QED
    BY <2>4, <2>5
<1>2. ASSUME NEW g \in Groups, Resolve(g), UNCHANGED published PROVE IInv'
  <2>1. /\ At(g, "resolve") /\ inbox[g] # << >> /\ run[g].pc = "resolve"
        /\ UNCHANGED <<published, sellers, sentLog, mailed, notice, lost>>
    BY <1>2 DEF Resolve, At, directories
  <2>2. CASE Fail(g)
    BY <1>0, <2>1, <2>2, FailStep
  <2>3. CASE Goto(g, "record")
    BY <2>1, <2>3, ResolveStep
  <2> QED
    BY <1>2, <2>2, <2>3 DEF Resolve
<1>3. ASSUME NEW g \in Groups, Record(g), UNCHANGED published PROVE IInv'
  <2>1. /\ At(g, "record") /\ inbox[g] # << >> /\ run[g].pc = "record"
        /\ sentLog' = sentLog \cup {Slot(g)}
        /\ UNCHANGED <<published, sellers, mailed, lost>>
    BY <1>3 DEF Record, At, directories
  <2>2. CASE FirstDelivery(Slot(g)) /\ Goto(g, "send") /\ UNCHANGED notice
    <3>1. Slot(g) \notin sentLog
      BY <2>2 DEF FirstDelivery
    <3> QED
      BY <2>1, <2>2, <3>1, RecordStep
  <2>3. CASE ~FirstDelivery(Slot(g)) /\ DeliverReturns(g)
    <3>1. Slot(g) \in sentLog
      BY <2>3 DEF FirstDelivery
    <3>2. PICK s : s = Slot(g)
      OBVIOUS
    <3>3. Reached(s) /\ sentLog' = sentLog
      BY <2>1, <3>1, <3>2, TakenIsReached
    <3>4. Reached(s)' /\ NobodyMailedTwice'
      BY <2>1, <3>3 DEF Reached, IInv, NobodyMailedTwice
    <3> QED
      BY <2>1, <2>3, <3>2, <3>3, <3>4, ReturnStep
  <2> QED
    BY <1>3, <2>2, <2>3 DEF Record
<1>4. ASSUME NEW g \in Groups, HandlerStep(g) PROVE IInv'
  <2>1. CASE Ack(g) /\ UNCHANGED <<directories, sentLog, mailed, notice, lost>>
    BY <1>4, <2>1, AckStep DEF HandlerStep, directories
  <2> QED
    BY <1>1, <1>2, <1>3, <1>4, <2>1, SendStep DEF HandlerStep
<1>5. ASSUME NEW g \in Groups, Dies(g) PROVE IInv'
  <2>1. Crash(g) /\ inbox[g] # << >>
    BY <1>5 DEF Dies, Crash
  <2>2. ShapeAfter /\ Conserved(Groups) /\ run'[g].pc = "start"
    BY <1>0, <2>1, FaultBus DEF Shape, ShapeAfter
  <2>3. \A h \in Groups \ {g} : Continues(h)
    BY <1>0, <2>1, OthersContinue DEF Shape
  <2>4. /\ UNCHANGED <<published, sellers, sentLog, mailed, notice>>
        /\ lost' = IF run[g].pc = "send" THEN lost \cup {Slot(g)} ELSE lost
    BY <1>5 DEF Dies, directories
  <2> QED
    BY <1>0, <2>1, <2>2, <2>3, <2>4, RestartStep
<1>6. ASSUME BusStep PROVE IInv'
  <2>1. UNCHANGED <<published, sellers, sentLog, mailed, notice, lost>>
    BY <1>6 DEF BusStep, directories
  <2>2. ASSUME NEW g \in Groups, run[g].pc # "send", StatementFails(g) PROVE IInv'
    <3>1. RetryOrPark(g) /\ inbox[g] # << >>
      BY <2>2 DEF StatementFails
    <3>2. ShapeAfter /\ Conserved(Groups) /\ run'[g].pc = "start"
      BY <1>0, <2>2, FaultBus DEF Shape, ShapeAfter
    <3>3. \A h \in Groups \ {g} : Continues(h)
      BY <1>0, <3>1, OthersContinue DEF Shape
    <3> QED
      BY <1>0, <2>1, <2>2, <3>1, <3>2, <3>3, RestartStep
  <2>3. CASE Republish
    <3>1. ShapeAfter /\ Conserved(Groups)
      BY <1>0, <2>3, RepublishBus DEF Shape, ShapeAfter
    <3>2. \A h \in Groups : Continues(h)
      BY <1>0, <2>3, ReplayContinues DEF Shape
    <3> QED
      BY <2>1, <3>1, <3>2, QuietStep
  <2> QED
    BY <1>6, <2>2, <2>3 DEF BusStep
<1>7. CASE UNCHANGED vars
  <2>1. UNCHANGED <<published, sellers, sentLog, mailed, notice, lost,
                    inbox, run, deadLetter, faults>>
    BY <1>7 DEF vars, bus
  <2>2. ShapeAfter /\ Conserved(Groups)
    BY <1>0, <2>1 DEF Shape, ShapeAfter, Conserved
  <2>3. \A h \in Groups : Continues(h)
    BY <2>1 DEF Continues
  <2> QED
    BY <2>1, <2>2, <2>3, QuietStep
<1> QED
  BY <1>4, <1>5, <1>6, <1>7 DEF Next

\* At the start every message of the history waits in its queue.
LEMMA InvInit == Init => IInv
<1> SUFFICES ASSUME Init PROVE IInv
  OBVIOUS
<1>1. PICK backlog \in Backlogs : published = Messages(backlog) /\ BusInit(backlog)
  BY DEF Init
<1>2. /\ backlog \in [Groups -> Seq(Messages(backlog))] /\ DOMAIN backlog = Groups
      /\ \A g \in Groups : \A i \in DOMAIN backlog[g] : backlog[g][i].type = g
  BY NotificationAssumption
<1>3. /\ inbox = backlog /\ run = [g \in Groups |-> FirstRun]
      /\ deadLetter = {} /\ faults = 0
  BY <1>1, <1>2 DEF BusInit
<1>4. /\ sellers = {} /\ sentLog = {} /\ mailed = EmptyBag /\ lost = {}
      /\ notice = [g \in Groups |-> 1]
  BY DEF Init
<1>5. \A x : x \in published <=> \E g \in Groups : In(x, inbox[g])
  BY <1>1, <1>2, <1>3 DEF Messages, In
<1>6. History /\ FromHistory
  <2>1. \A x : Pending(x) => x \in published
    BY <1>3, <1>5 DEF Pending, Known
  <2> QED
    BY <1>1, <2>1 DEF History, FromHistory
<1>7. Shape
  <2>1. \A e \in AllMessages : e.type \in Groups
    <3> SUFFICES ASSUME NEW b \in Backlogs, NEW e \in Messages(b)
                 PROVE  e.type \in Groups
      BY DEF AllMessages
    <3>1. DOMAIN b = Groups
      BY NotificationAssumption
    <3>2. PICK g \in Groups : \E i \in DOMAIN b[g] : e = b[g][i]
      BY <3>1 DEF Messages
    <3> QED
      BY <3>2, NotificationAssumption
  <2>2. inbox \in [Groups -> Seq(AllMessages)]
    <3>1. Messages(backlog) \subseteq AllMessages
      BY DEF AllMessages
    <3>2. \A g \in Groups : backlog[g] \in Seq(AllMessages)
      BY <1>2, <3>1
    <3> QED
      BY <1>2, <1>3, <3>2
  <2>3. \A g \in Groups : \A x : In(x, inbox[g]) => x.type = g
    BY <1>2, <1>3 DEF In
  <2>4. run \in [Groups -> [pc : Pcs, retries : 0 .. MaxRetries]]
    BY <1>3, BusAssumption DEF FirstRun, Pcs
  <2> QED
    BY <1>3, <2>1, <2>2, <2>3, <2>4, BusAssumption DEF Shape, BusShape, Pcs
<1>8. Directory /\ notice \in [Groups -> 1 .. 2]
  BY <1>4 DEF Directory
<1>9. Running
  BY <1>3 DEF Running, RunOK, FirstRun
<1>10. BagToSet(mailed) = {}
  BY <1>4 DEF EmptyBag, SetToBag, BagToSet
<1>11. Ledger /\ NobodyMailedTwice
  BY <1>4, <1>10 DEF Ledger, NobodyMailedTwice
<1>12. Complete
  BY <1>5 DEF Complete, Pending, Known
<1> QED
  BY <1>6, <1>7, <1>8, <1>9, <1>11, <1>12 DEF IInv

\* The inductive invariant holds in every reachable state.
LEMMA Invariance == Spec => []IInv
  BY InvInit, InvStep, PTL DEF Spec

-----------------------------------------------------------------------------
(* The results.                                                            *)

\* Type correctness of directories, ledger and runs.
THEOREM TypeCorrect == Spec => []TypeOK
<1>1. IInv => TypeOK
  <2> SUFFICES ASSUME IInv PROVE TypeOK
    OBVIOUS
  <2>1. BusOK(Groups, {"start", "resolve", "record", "send", "ack"})
    BY ShapeMeans DEF IInv, Shape, Pcs
  <2>2. \A row \in sellers : \A other \in sellers : row[1] = other[1] => row = other
    BY DirectoryFunctional
  <2>3. \A s \in sentLog \cup BagToSet(mailed) \cup lost :
          s.kind \in Kinds /\ \E e \in published : e.id = s.event
    BY DEF IInv, Ledger
  <2> QED
    BY <2>1, <2>2, <2>3 DEF IInv, History, TypeOK
<1> QED
  BY <1>1, Invariance, PTL

\* sent_notifications keeps its promise over crashes, retries, redeliveries
\* and replays: no slot is mailed twice, whatever the ten groups do meanwhile.
THEOREM MailedOnce == Spec => []NobodyMailedTwice
<1>1. IInv => NobodyMailedTwice
  BY DEF IInv
<1> QED
  BY <1>1, Invariance, PTL

\* A message that is acked and not parked has sent all of its mails, except
\* those lost to a crash between the record and the send.
THEOREM NoMailLost == Spec => []OnlyCrashesLoseMail
<1>1. IInv => OnlyCrashesLoseMail
  <2> SUFFICES ASSUME IInv, NEW e \in published, ~Outstanding(e)
               PROVE  AllReached(e)
    BY DEF OnlyCrashesLoseMail, AllReached
  <2>1. ~Pending(e)
    <3> SUFFICES ASSUME NEW g \in Groups, In(e, inbox[g]) PROVE FALSE
      BY DEF Pending, Known, Outstanding
    <3>1. e.type = g
      BY DEF IInv, Shape, BusShape
    <3> QED
      BY <3>1 DEF In, Outstanding
  <2> QED
    BY <2>1 DEF IInv, Complete
<1> QED
  BY <1>1, Invariance, PTL
===============================================================================
