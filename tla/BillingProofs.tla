---------------------------- MODULE BillingProofs ----------------------------
(***************************************************************************)
(* Proofs about Billing, for every set of invoices, orders, requests and   *)
(* replicas, and every bound: type correctness, the agreement of provider  *)
(* and table, the events of an invoice, and the refinement of Ledger.      *)
(***************************************************************************)
EXTENDS Billing, SequenceTheorems, TLAPS

-----------------------------------------------------------------------------
(* Money: what the wrap-around may do to an amount.                        *)

\* Division and remainder belong together.
LEMMA DivMod ==
  ASSUME NEW y \in Int, NEW d \in Nat \ {0}
  PROVE  y = d * (y \div d) + (y % d) /\ y \div d \in Int /\ y % d \in 0 .. d - 1
  OBVIOUS

\* Wrap reduces any integer to the int64 range.
LEMMA WrapRange ==
  ASSUME NEW x \in Int
  PROVE  Wrap(x) \in -(MaxInt + 1) .. MaxInt
<1> DEFINE m == 2 * (MaxInt + 1)
<1>1. m \in Int /\ m > 0
  BY MaxIntAssumption
<1>2. (x + MaxInt + 1) % m \in 0 .. m - 1
  BY <1>1, MaxIntAssumption
<1> QED
  BY <1>1, <1>2, MaxIntAssumption DEF Wrap

\* The sum of a price and a commission never wraps to zero.
LEMMA WrapNotZero ==
  ASSUME NEW x \in 1 .. 2 * MaxInt
  PROVE  Wrap(x) # 0
<1> DEFINE m == 2 * (MaxInt + 1)
           y == x + MaxInt + 1
<1>1. m \in Nat \ {0} /\ y \in Int
  BY MaxIntAssumption
<1>2. y % m # MaxInt + 1
  <2>1. y = m * (y \div m) + (y % m) /\ y \div m \in Int
    <3> HIDE DEF m, y
    <3> QED
      BY <1>1, DivMod
  <2> DEFINE k == y \div m
  <2> HIDE DEF k
  <2>3. SUFFICES ASSUME y % m = MaxInt + 1 PROVE FALSE
    OBVIOUS
  <2>4. x = m * k /\ k \in Int
    BY <2>1, <2>3, MaxIntAssumption DEF k
  <2>5. k > 0
    BY <2>4, <1>1
  <2>6. k < 1
    BY <2>4, <1>1, MaxIntAssumption
  <2> QED
    BY <2>4, <2>5, <2>6
<1> QED
  BY <1>1, <1>2, MaxIntAssumption DEF Wrap

\* A quotient by the scale is at most the dividend.
LEMMA QuotientRange ==
  ASSUME NEW x \in Int, NEW d \in Nat \ {0}
  PROVE  Quotient(x, d) \in Int /\ (x >= 0 => Quotient(x, d) <= x)
                                /\ (x < 0 => Quotient(x, d) <= 0)
<1>1. ASSUME NEW y \in Nat PROVE y \div d \in Nat /\ y \div d <= y
  <2>1. y = d * (y \div d) + (y % d) /\ y % d \in 0 .. d - 1 /\ y \div d \in Int
    BY DivMod
  <2> DEFINE k == y \div d
  <2> HIDE DEF k
  <2>2. y = d * k + (y % d) /\ y % d \in 0 .. d - 1 /\ k \in Int
    BY <2>1 DEF k
  <2>3. k >= 0
    BY <2>2
  <2>4. d * k >= k
    BY <2>2, <2>3
  <2> QED
    BY <2>2, <2>3, <2>4 DEF k
<1>2. CASE x >= 0
  BY <1>1, <1>2 DEF Quotient
<1>3. CASE x < 0
  <2>1. -x \in Nat /\ (-x) \div d \in Nat
    BY <1>1, <1>3
  <2> QED
    BY <2>1, <1>3 DEF Quotient
<1> QED
  BY <1>2, <1>3

\* An invoice that the code can load has something to pay.
LEMMA SomethingToPay ==
  ASSUME NEW o \in Orders
  PROVE  /\ CommissionFor(o.hammer) \in Int
         /\ Wrap(o.hammer + CommissionFor(o.hammer)) \in Int
         /\ CommissionFor(o.hammer) >= 0 =>
              Wrap(o.hammer + CommissionFor(o.hammer)) # 0
<1> DEFINE h == o.hammer
           w == Wrap(h * BasisPoints)
           c == CommissionFor(h)
<1>1. h \in 1 .. MaxInt /\ BasisPoints \in Int /\ Scale \in Nat \ {0} /\ h * BasisPoints \in Int
  BY BillingAssumption, MaxIntAssumption
<1>2. w \in -(MaxInt + 1) .. MaxInt
  BY <1>1, WrapRange
<1>3. c \in Int /\ c <= MaxInt
  <2>1. c = Quotient(w, Scale)
    BY DEF CommissionFor, MulBasisPoints
  <2>2. w \in Int /\ w <= MaxInt
    BY <1>2, MaxIntAssumption
  <2> HIDE DEF c, w, h
  <2>3. /\ Quotient(w, Scale) \in Int
        /\ w >= 0 => Quotient(w, Scale) <= w
        /\ w < 0 => Quotient(w, Scale) <= 0
    BY <1>1, <2>2, QuotientRange
  <2> QED
    BY <2>1, <2>2, <2>3, MaxIntAssumption
<1> HIDE DEF c
<1>4. Wrap(h + c) \in Int
  BY <1>1, <1>3, WrapRange, MaxIntAssumption
<1>5. c >= 0 => h + c \in 1 .. 2 * MaxInt
  BY <1>1, <1>3, MaxIntAssumption
<1> QED
  BY <1>3, <1>4, <1>5, WrapNotZero DEF c

-----------------------------------------------------------------------------
(* The inductive invariant.                                                *)

\* An id without a row belongs to nobody, so PreCheck does not find it; a
\* row that loads asks for some money.
RowsSound ==
  \A id \in InvoiceIDs :
    /\ invoices[id].status = "absent" => invoices[id].debtor = NoUser
    /\ Loadable(invoices[id]) /\ invoices[id].status # "absent" =>
         invoices[id].total # 0

\* The provider debited a key for the total of its invoice: amounts never
\* change after the insert, so the lock-free read is not stale in this.
ChargesSound ==
  \A id \in InvoiceIDs : charges[id] # 0 =>
    invoices[id].status # "absent" /\ charges[id] = invoices[id].total

\* A request works on a row that exists, with the total it has.
RequestsSound ==
  \A q \in Requests : requests[q].pc # "idle" =>
    /\ requests[q].invoice \in InvoiceIDs
    /\ invoices[requests[q].invoice].status # "absent"
    /\ requests[q].amount = invoices[requests[q].invoice].total
    /\ requests[q].amount # 0

\* MoneyMatchesInvoice for one invoice and for one request.
InvoiceMoney(id) ==
  /\ invoices[id].status = "paid" =>
       charges[id] = invoices[id].total /\ id \notin refunded
  /\ id \in refunded => Dead(id) /\ charges[id] # 0

RequestMoney(q) ==
  /\ requests[q].pc = "refund" => Dead(requests[q].invoice)
  /\ requests[q].pc = "markPaid" => charges[requests[q].invoice] # 0

MoneyInv ==
  /\ \A id \in InvoiceIDs : InvoiceMoney(id)
  /\ \A q \in Requests : RequestMoney(q)

IInv ==
  /\ TypeOK /\ RowsSound /\ ChargesSound /\ RequestsSound
  /\ MoneyInv /\ OneVerdict

\* The invariant implies the property as the runs check it.
LEMMA MoneyInvMeans == MoneyInv => MoneyMatchesInvoice
  BY DEF MoneyInv, MoneyMatchesInvoice, InvoiceMoney, RequestMoney

-----------------------------------------------------------------------------
(* Steps.                                                                  *)

IntegrationEvent == {"InvoiceIssued", "InvoicePaid", "InvoiceExpired"}

\* The two tables of events, entry by entry.
LEMMA Events ==
  /\ IntegrationEvents["pending"] = <<"InvoiceIssued">>
  /\ IntegrationEvents["paid"] = <<"InvoicePaid">>
  /\ IntegrationEvents["expired"] = <<"InvoiceExpired">>
  /\ IntegrationEvents["voided"] = << >>
  /\ Verdict["absent"] = << >>
  /\ Verdict["pending"] = <<"InvoiceIssued">>
  /\ Verdict["paid"] = <<"InvoiceIssued", "InvoicePaid">>
  /\ Verdict["expired"] = <<"InvoiceIssued", "InvoiceExpired">>
  /\ Verdict["voided"] = <<"InvoiceIssued">>
  BY DEF IntegrationEvents, Verdict

\* Appending one event to one event.
LEMMA TwoEvents ==
  ASSUME NEW a \in IntegrationEvent, NEW b \in IntegrationEvent
  PROVE  <<a>> \o <<b>> = <<a, b>>
<1> DEFINE s == <<a>> \o <<b>>
           t == <<a, b>>
<1>1. s \in Seq(IntegrationEvent) /\ Len(s) = 2 /\ s[1] = a /\ s[2] = b
  OBVIOUS
<1>2. t \in Seq(IntegrationEvent) /\ Len(t) = 2 /\ t[1] = a /\ t[2] = b
  OBVIOUS
<1> HIDE DEF s, t
<1>3. s = t
  BY <1>1, <1>2, SeqEqual
<1> QED
  BY <1>3 DEF s, t

\* An issued invoice that is concluded has published exactly its verdict.
LEMMA VerdictFollows ==
  ASSUME NEW st \in {"paid", "expired", "voided"}
  PROVE  /\ IntegrationEvents[st] \in Seq(IntegrationEvent)
         /\ Verdict["pending"] \o IntegrationEvents[st] = Verdict[st]
<1>1. CASE st = "paid"
  BY <1>1, Events, TwoEvents DEF IntegrationEvent
<1>2. CASE st = "expired"
  BY <1>2, Events, TwoEvents DEF IntegrationEvent
<1>3. CASE st = "voided"
  BY <1>3, Events DEF IntegrationEvent
<1> QED
  BY <1>1, <1>2, <1>3

\* What update does to the table and the outbox.
OnlyStatus(id, st) ==
  /\ invoices[id].status = "pending" /\ invoices'[id].status = st
  /\ \A i \in InvoiceIDs : /\ invoices'[i].total = invoices[i].total
                          /\ invoices'[i].commission = invoices[i].commission
                          /\ invoices'[i].debtor = invoices[i].debtor
  /\ \A i \in InvoiceIDs \ {id} :
       invoices'[i].status = invoices[i].status /\ published'[i] = published[i]
  /\ published'[id] = published[id] \o IntegrationEvents[st]

\* update changes the status of one row and nothing else of the table.
LEMMA Concluded ==
  ASSUME TypeOK, NEW id \in InvoiceIDs, NEW st \in {"paid", "expired", "voided"},
         Conclude(id, st)
  PROVE  /\ invoices' \in [InvoiceIDs -> Invoice]
         /\ published' \in [InvoiceIDs -> Seq(IntegrationEvent)]
         /\ OnlyStatus(id, st)
<1>1. invoices' = [invoices EXCEPT ![id].status = st]
  BY DEF Conclude
<1>2. IntegrationEvents[st] \in Seq(IntegrationEvent)
  BY VerdictFollows
<1>3. published[id] \o IntegrationEvents[st] \in Seq(IntegrationEvent)
  BY <1>2 DEF TypeOK, IntegrationEvent
<1>4. published' = [published EXCEPT ![id] = published[id] \o IntegrationEvents[st]]
  BY DEF Conclude
<1>5. published \in [InvoiceIDs -> Seq(IntegrationEvent)]
  BY DEF TypeOK, IntegrationEvent
<1>6. /\ published' \in [InvoiceIDs -> Seq(IntegrationEvent)]
      /\ \A i \in InvoiceIDs \ {id} : published'[i] = published[i]
      /\ published'[id] = published[id] \o IntegrationEvents[st]
  BY <1>3, <1>4, <1>5
<1>7. st \in Statuses /\ invoices \in [InvoiceIDs -> Invoice]
  BY DEF Statuses, TypeOK
<1>8. invoices[id].status = "pending"
  BY DEF Conclude
<1> QED
  BY <1>1, <1>6, <1>7, <1>8 DEF Invoice, OnlyStatus

\* Whoever concludes an invoice keeps the invariant, as long as MarkPaid has
\* charged it before and requests only end meanwhile.
LEMMA ConcludeStep ==
  ASSUME IInv, NEW id \in InvoiceIDs, NEW st \in {"paid", "expired", "voided"},
         Conclude(id, st),
         st = "paid" => charges[id] # 0,
         UNCHANGED <<charges, refunded, now, crashes>>,
         due' \in [Replicas -> SUBSET InvoiceIDs],
         requests' \in [Requests -> Request],
         \A q \in Requests : requests'[q] = requests[q] \/ requests'[q] = NoRequest
  PROVE  IInv'
<1> USE DEF IInv
<1>1. /\ OnlyStatus(id, st)
      /\ invoices' \in [InvoiceIDs -> Invoice]
      /\ published' \in [InvoiceIDs -> Seq(IntegrationEvent)]
  BY Concluded
<1>2. TypeOK'
  BY <1>1 DEF TypeOK, IntegrationEvent
<1>3. \A i \in InvoiceIDs :
        /\ invoices[i].status # "absent" => invoices'[i].status # "absent"
        /\ Dead(i) => invoices'[i].status \in {"expired", "voided"}
  BY <1>1 DEF Dead, OnlyStatus
<1>4. RowsSound'
  BY <1>1 DEF RowsSound, Loadable, OnlyStatus
<1>5. ChargesSound'
  BY <1>1, <1>3 DEF ChargesSound, OnlyStatus
<1>a. \A q \in Requests : requests'[q].pc # "idle" => requests'[q] = requests[q]
  BY DEF NoRequest
<1>6. RequestsSound'
  <2> SUFFICES ASSUME NEW q \in Requests, requests'[q].pc # "idle"
               PROVE  /\ requests'[q].invoice \in InvoiceIDs
                      /\ invoices'[requests'[q].invoice].status # "absent"
                      /\ requests'[q].amount = invoices'[requests'[q].invoice].total
                      /\ requests'[q].amount # 0
    BY DEF RequestsSound
  <2> DEFINE i == requests[q].invoice
  <2>1. requests'[q] = requests[q]
    BY <1>a
  <2>2. /\ i \in InvoiceIDs /\ invoices[i].status # "absent"
        /\ requests[q].amount = invoices[i].total /\ requests[q].amount # 0
    BY <2>1 DEF RequestsSound
  <2>3. invoices'[i].status # "absent" /\ invoices'[i].total = invoices[i].total
    BY <1>1, <1>3, <2>2 DEF OnlyStatus
  <2> QED
    BY <2>1, <2>2, <2>3
<1>7. \A i \in InvoiceIDs : InvoiceMoney(i)'
  BY <1>1, <1>3 DEF MoneyInv, InvoiceMoney, ChargesSound, Dead, OnlyStatus
<1>8. \A q \in Requests : RequestMoney(q)'
  <2> SUFFICES ASSUME NEW q \in Requests PROVE RequestMoney(q)'
    OBVIOUS
  <2>1. CASE requests'[q].pc = "idle"
    BY <2>1 DEF RequestMoney
  <2>2. CASE requests'[q].pc # "idle"
    <3>1. requests'[q] = requests[q]
      BY <1>a, <2>2
    <3>2. requests[q].invoice \in InvoiceIDs
      BY <3>1, <2>2 DEF RequestsSound
    <3> DEFINE i == requests[q].invoice
    <3>3. Dead(i) => invoices'[i].status \in {"expired", "voided"}
      BY <1>3, <3>2 DEF Dead
    <3>4. RequestMoney(q)
      BY DEF MoneyInv
    <3> QED
      BY <3>1, <3>3, <3>4 DEF RequestMoney, Dead
  <2> QED
    BY <2>1, <2>2
<1>9. OneVerdict'
  BY <1>1, VerdictFollows DEF OneVerdict, OnlyStatus
<1> QED
  BY <1>2, <1>4, <1>5, <1>6, <1>7, <1>8, <1>9 DEF MoneyInv

\* Add inserts a row nobody has charged, refunded or asked for.
LEMMA IssueStep ==
  ASSUME IInv, NEW o \in Orders, IssueInvoice(o)
  PROVE  IInv'
<1> USE DEF IInv
<1> DEFINE id == o.id
           inv == NewInvoice(o)
<1>0. id \in InvoiceIDs /\ o.auction \in Auctions /\ o.attempt \in {1, 2}
      /\ o.debtor \in Users /\ o.hammer \in Nat
  BY BillingAssumption, MaxIntAssumption
<1>1. inv \in Invoice /\ inv.status = "pending"
      /\ (Loadable(inv) => inv.total # 0)
  <2>1. now + Term \in Nat
    BY BillingAssumption DEF TypeOK
  <2>2. inv \in Invoice /\ inv.status = "pending"
    BY <1>0, <2>1, SomethingToPay DEF NewInvoice, Invoice, Statuses
  <2>3. Loadable(inv) => inv.total # 0
    BY SomethingToPay DEF NewInvoice, Loadable
  <2> QED
    BY <2>2, <2>3
<1>2. invoices' = [invoices EXCEPT ![id] = inv] /\ invoices[id].status = "absent"
      /\ published' = [published EXCEPT ![id] = published[id] \o <<"InvoiceIssued">>]
      /\ UNCHANGED <<charges, refunded, requests, due, now, crashes>>
  BY Events DEF IssueInvoice
<1> HIDE DEF id, inv
<1>3. /\ invoices' \in [InvoiceIDs -> Invoice] /\ invoices'[id] = inv
      /\ \A i \in InvoiceIDs \ {id} : invoices'[i] = invoices[i]
  BY <1>0, <1>1, <1>2 DEF TypeOK
<1>4. /\ published' \in [InvoiceIDs -> Seq(IntegrationEvent)]
      /\ published'[id] = <<"InvoiceIssued">>
      /\ \A i \in InvoiceIDs \ {id} : published'[i] = published[i]
  <2>1. <<"InvoiceIssued">> \in Seq(IntegrationEvent)
    BY DEF IntegrationEvent
  <2>2. published[id] = <<>>
    BY <1>0, <1>2, Events DEF OneVerdict
  <2>3. published[id] \o <<"InvoiceIssued">> = <<"InvoiceIssued">>
    BY <2>1, <2>2, ConcatEmptySeq
  <2> QED
    BY <1>0, <1>2, <2>1, <2>3 DEF TypeOK, IntegrationEvent
<1>5. TypeOK'
  BY <1>2, <1>3, <1>4 DEF TypeOK, IntegrationEvent
<1>6. charges[id] = 0 /\ id \notin refunded
  BY <1>0, <1>2 DEF ChargesSound, MoneyInv, InvoiceMoney, Dead
<1>7. \A q \in Requests : requests[q].pc # "idle" =>
        requests[q].invoice \in InvoiceIDs \ {id}
  BY <1>2 DEF RequestsSound
<1>8. RowsSound'
  BY <1>1, <1>3 DEF RowsSound, Loadable
<1>9. ChargesSound'
  BY <1>2, <1>3, <1>6 DEF ChargesSound
<1>10. RequestsSound'
  BY <1>2, <1>3, <1>7 DEF RequestsSound
<1>11. \A i \in InvoiceIDs : InvoiceMoney(i)'
  BY <1>1, <1>2, <1>3, <1>6 DEF MoneyInv, InvoiceMoney, Dead
<1>12. \A q \in Requests : RequestMoney(q)'
  BY <1>2, <1>3, <1>7 DEF MoneyInv, RequestMoney, Dead
<1>13. OneVerdict'
  BY <1>1, <1>3, <1>4, Events DEF OneVerdict
<1> QED
  BY <1>5, <1>8, <1>9, <1>10, <1>11, <1>12, <1>13 DEF MoneyInv

\* Goto and Answer change one request.
LEMMA RequestMoves ==
  ASSUME TypeOK, NEW q \in Requests, NEW r \in Request,
         requests' = [requests EXCEPT ![q] = r]
  PROVE  /\ requests' \in [Requests -> Request] /\ requests'[q] = r
         /\ \A p \in Requests \ {q} : requests'[p] = requests[p]
  BY DEF TypeOK

\* Every step of PayInvoice that leaves the table alone keeps the invariant
\* if the request it leaves behind, the charge and the refund are sound.
LEMMA HandlerKeeps ==
  ASSUME IInv, NEW q \in Requests, NEW r \in Request,
         requests' = [requests EXCEPT ![q] = r],
         UNCHANGED <<invoices, published, due, now>>,
         crashes' \in 0 .. MaxCrashes,
         r.pc # "idle" => /\ r.invoice \in InvoiceIDs
                          /\ invoices[r.invoice].status # "absent"
                          /\ r.amount = invoices[r.invoice].total /\ r.amount # 0,
         r.pc = "refund" => Dead(r.invoice),
         r.pc = "markPaid" => charges'[r.invoice] # 0,
         charges' \in [InvoiceIDs -> Int],
         \A i \in InvoiceIDs :
           \/ charges'[i] = charges[i]
           \/ /\ charges[i] = 0 /\ charges'[i] # 0
              /\ invoices[i].status # "absent" /\ charges'[i] = invoices[i].total,
         refunded' \subseteq InvoiceIDs,
         \A i \in InvoiceIDs :
           i \in refunded' /\ i \notin refunded => Dead(i) /\ charges[i] # 0
  PROVE  IInv'
<1> USE DEF IInv
<1>1. /\ requests' \in [Requests -> Request] /\ requests'[q] = r
      /\ \A p \in Requests \ {q} : requests'[p] = requests[p]
  BY RequestMoves
<1>2. TypeOK'
  BY <1>1 DEF TypeOK
<1>3. RowsSound' /\ OneVerdict'
  BY DEF RowsSound, OneVerdict, Loadable
<1>4. ChargesSound'
  BY DEF ChargesSound
<1>5. RequestsSound'
  BY <1>1 DEF RequestsSound
<1>6. \A i \in InvoiceIDs : InvoiceMoney(i)'
  BY DEF MoneyInv, InvoiceMoney, ChargesSound, Dead
<1>7. \A p \in Requests : RequestMoney(p)'
  BY <1>1 DEF MoneyInv, RequestMoney, RequestsSound, Dead
<1> QED
  BY <1>2, <1>3, <1>4, <1>5, <1>6, <1>7 DEF MoneyInv

\* The pre-check, of a row its debtor can load.
LEMMA PreCheckStep ==
  ASSUME IInv, NEW q \in Requests, NEW id \in InvoiceIDs, NEW payer \in Users,
         PreCheck(q, id, payer)
  PROVE  IInv'
<1> DEFINE inv == invoices[id]
           r == [pc |-> IF inv.status = "pending" THEN "charge" ELSE "refund",
                 invoice |-> id, amount |-> inv.total]
<1>1. requests' = [requests EXCEPT ![q] = r]
      /\ UNCHANGED <<invoices, published, charges, refunded, due, now, crashes>>
  BY DEF PreCheck
<1>2. /\ inv.status \in {"pending", "expired", "voided"}
      /\ Loadable(inv)
  BY DEF PreCheck
<1>3. inv \in Invoice
  BY DEF IInv, TypeOK
<1>4. r \in Request
  BY <1>3 DEF Request, Invoice
<1>5. inv.total # 0
  BY <1>2 DEF IInv, RowsSound
<1>6. r.pc = "refund" => Dead(id)
  BY <1>2 DEF Dead
<1>7. charges' \in [InvoiceIDs -> Int] /\ refunded' \subseteq InvoiceIDs
      /\ crashes' \in 0 .. MaxCrashes
  BY <1>1 DEF IInv, TypeOK
<1>8. r.pc \in {"charge", "refund"} /\ r.invoice = id /\ r.amount = inv.total
  OBVIOUS
<1> HIDE DEF r
<1> QED
  BY <1>1, <1>2, <1>4, <1>5, <1>6, <1>7, <1>8, HandlerKeeps

\* A request that ends early, wherever it is, leaves nothing undone that the
\* invariant speaks of.
LEMMA RequestEnds ==
  ASSUME IInv, NEW q \in Requests, ChargeFails(q) \/ RequestLost(q)
  PROVE  IInv'
<1>0. /\ NoRequest \in Request /\ NoRequest.pc = "idle"
      /\ charges \in [InvoiceIDs -> Int] /\ refunded \subseteq InvoiceIDs
      /\ crashes \in 0 .. MaxCrashes /\ MaxCrashes \in Nat
  BY BillingAssumption DEF IInv, TypeOK, NoRequest, Request
<1>1. requests' = [requests EXCEPT ![q] = NoRequest]
      /\ UNCHANGED <<invoices, published, charges, refunded, due, now>>
  BY DEF ChargeFails, RequestLost, Answer
<1>2. crashes' \in 0 .. MaxCrashes
  BY <1>0 DEF ChargeFails, RequestLost
<1> QED
  BY <1>0, <1>1, <1>2, HandlerKeeps

\* Steps 2 to 4 of PayInvoice.
LEMMA PayStep ==
  ASSUME IInv, NEW q \in Requests, HandlerStep(q)
  PROVE  IInv'
<1> DEFINE id == requests[q].invoice
<1>0. /\ NoRequest \in Request /\ NoRequest.pc = "idle"
      /\ requests[q] \in Request
      /\ charges \in [InvoiceIDs -> Int] /\ refunded \subseteq InvoiceIDs
      /\ crashes \in 0 .. MaxCrashes /\ MaxCrashes \in Nat
      /\ due \in [Replicas -> SUBSET InvoiceIDs]
  BY BillingAssumption DEF IInv, TypeOK, NoRequest, Request
<1>1. requests[q].pc # "idle"
  BY DEF HandlerStep, Charge, ChargeFails, MarkPaid, Refund
<1>2. /\ id \in InvoiceIDs /\ invoices[id].status # "absent"
      /\ requests[q].amount = invoices[id].total /\ requests[q].amount # 0
  BY <1>1 DEF IInv, RequestsSound
<1>3. CASE Charge(q)
  <2> DEFINE r == [requests[q] EXCEPT !.pc = "markPaid"]
  <2>1. requests' = [requests EXCEPT ![q] = r]
        /\ charges' = Debited(id, requests[q].amount)
        /\ UNCHANGED <<invoices, published, refunded, due, now, crashes>>
    BY <1>3 DEF Charge, Goto, IInv, TypeOK
  <2>2. r \in Request /\ r.pc = "markPaid" /\ r.invoice = id
        /\ r.amount = requests[q].amount
    BY <1>0 DEF Request
  <2>3. requests[q].amount \in Int
    BY <1>0 DEF Request
  <2>4. /\ charges' \in [InvoiceIDs -> Int] /\ charges'[id] # 0
        /\ \A i \in InvoiceIDs :
             \/ charges'[i] = charges[i]
             \/ i = id /\ charges[i] = 0 /\ charges'[i] = requests[q].amount
    BY <1>0, <1>2, <2>1, <2>3 DEF Debited
  <2> HIDE DEF r, id
  <2> QED
    BY <1>0, <1>2, <2>1, <2>2, <2>4, HandlerKeeps
<1>4. CASE ChargeFails(q)
  BY <1>4, RequestEnds
<1>5. CASE Refund(q)
  <2>1. requests' = [requests EXCEPT ![q] = NoRequest]
        /\ refunded' = GivenBack(id)
        /\ UNCHANGED <<invoices, published, charges, due, now, crashes>>
    BY <1>5 DEF Refund, Answer
  <2>2. Dead(id)
    BY <1>5 DEF Refund, IInv, MoneyInv, RequestMoney
  <2>3. /\ refunded' \subseteq InvoiceIDs
        /\ \A i \in InvoiceIDs :
             i \in refunded' /\ i \notin refunded => i = id /\ charges[i] # 0
    BY <1>0, <1>2, <2>1 DEF GivenBack
  <2> HIDE DEF id
  <2> QED
    BY <1>0, <2>1, <2>2, <2>3, HandlerKeeps
<1>6. CASE MarkPaid(q)
  <2>1. CASE Conclude(id, "paid") /\ Answer(q)
    <3>1. requests[q].pc = "markPaid"
          /\ UNCHANGED <<charges, refunded, due, now, crashes>>
      BY <1>6 DEF MarkPaid
    <3>2. charges[id] # 0
      BY <3>1 DEF IInv, MoneyInv, RequestMoney
    <3>3. /\ requests' \in [Requests -> Request]
          /\ \A p \in Requests : requests'[p] = requests[p] \/ requests'[p] = NoRequest
      BY <1>0, <2>1 DEF Answer, IInv, TypeOK
    <3> HIDE DEF id
    <3> QED
      BY <1>0, <1>2, <2>1, <3>1, <3>2, <3>3, ConcludeStep
  <2>2. CASE Answer(q) /\ UNCHANGED <<invoices, published, charges, refunded, due, now,
                                      crashes>>
    <3>1. requests' = [requests EXCEPT ![q] = NoRequest]
      BY <2>2 DEF Answer
    <3> QED
      BY <1>0, <2>2, <3>1, HandlerKeeps
  <2>3. CASE /\ Dead(id) /\ Goto(q, "refund")
             /\ UNCHANGED <<invoices, published, charges, refunded, due, now, crashes>>
    <3> DEFINE r == [requests[q] EXCEPT !.pc = "refund"]
    <3>1. requests' = [requests EXCEPT ![q] = r]
      BY <2>3 DEF Goto, IInv, TypeOK
    <3>2. r \in Request /\ r.pc = "refund" /\ r.invoice = id
          /\ r.amount = requests[q].amount
      BY <1>0 DEF Request
    <3> HIDE DEF r, id
    <3> QED
      BY <1>0, <1>2, <2>3, <3>1, <3>2, HandlerKeeps
  <2> QED
    BY <1>6, <2>1, <2>2, <2>3 DEF MarkPaid, Dead
<1> QED
  BY <1>3, <1>4, <1>5, <1>6 DEF HandlerStep

\* The expiry worker scans, and concludes or skips a candidate.
LEMMA WorkerKeeps ==
  ASSUME IInv, NEW r \in Replicas, WorkerStep(r) \/ WorkerRestart(r)
  PROVE  IInv'
<1>0. /\ due \in [Replicas -> SUBSET InvoiceIDs] /\ crashes \in 0 .. MaxCrashes
      /\ requests \in [Requests -> Request] /\ MaxCrashes \in Nat
  BY BillingAssumption DEF IInv, TypeOK
<1>1. CASE \E id \in InvoiceIDs : ExpireInvoice(r, id)
  <2>1. PICK id \in InvoiceIDs : ExpireInvoice(r, id)
    BY <1>1
  <2>2. Conclude(id, "expired") /\ due' = [due EXCEPT ![r] = @ \ {id}]
        /\ UNCHANGED <<charges, refunded, requests, now, crashes>>
    BY <2>1 DEF ExpireInvoice
  <2>3. due' \in [Replicas -> SUBSET InvoiceIDs]
    BY <1>0, <2>2
  <2> QED
    BY <1>0, <2>2, <2>3, ConcludeStep
<1>2. ASSUME UNCHANGED <<invoices, published, charges, refunded, requests, now>>,
             due' \in [Replicas -> SUBSET InvoiceIDs], crashes' \in 0 .. MaxCrashes
      PROVE  IInv'
  BY <1>2 DEF IInv, TypeOK, RowsSound, ChargesSound, RequestsSound, MoneyInv,
              InvoiceMoney, RequestMoney, OneVerdict, Dead, Loadable
<1>3. CASE ScanDue(r) \/ \E id \in InvoiceIDs : SkipCandidate(r, id)
  BY <1>0, <1>2, <1>3 DEF ScanDue, SkipCandidate
<1>4. CASE WorkerRestart(r)
  BY <1>0, <1>2, <1>4 DEF WorkerRestart
<1> QED
  BY <1>1, <1>3, <1>4 DEF WorkerStep

\* Every step keeps the invariant.
LEMMA InvStep == IInv /\ [Next]_vars => IInv'
<1> SUFFICES ASSUME IInv, [Next]_vars PROVE IInv'
  OBVIOUS
<1>1. ASSUME NEW o \in Orders, IssueInvoice(o) PROVE IInv'
  BY <1>1, IssueStep
<1>2. ASSUME NEW id \in InvoiceIDs, VoidInvoice(id) PROVE IInv'
  <2>1. Conclude(id, "voided") /\ UNCHANGED <<charges, refunded, requests, due, now, crashes>>
    BY <1>2 DEF VoidInvoice
  <2>2. due' \in [Replicas -> SUBSET InvoiceIDs] /\ requests' \in [Requests -> Request]
    BY <2>1 DEF IInv, TypeOK
  <2> QED
    BY <2>1, <2>2, ConcludeStep
<1>3. ASSUME NEW q \in Requests, NEW id \in InvoiceIDs, NEW payer \in Users,
             PreCheck(q, id, payer)
      PROVE  IInv'
  BY <1>3, PreCheckStep
<1>4. ASSUME NEW q \in Requests, HandlerStep(q) PROVE IInv'
  BY <1>4, PayStep
<1>5. ASSUME NEW q \in Requests, RequestLost(q) PROVE IInv'
  BY <1>5, RequestEnds
<1>6. ASSUME NEW r \in Replicas, WorkerStep(r) \/ WorkerRestart(r) PROVE IInv'
  BY <1>6, WorkerKeeps
<1>7. ASSUME UNCHANGED <<invoices, published, charges, refunded, requests, due, crashes>>,
             now' \in Nat
      PROVE  IInv'
  BY <1>7 DEF IInv, TypeOK, RowsSound, ChargesSound, RequestsSound, MoneyInv,
              InvoiceMoney, RequestMoney, OneVerdict, Dead, Loadable
<1>8. CASE Tick
  BY <1>7, <1>8 DEF Tick, IInv, TypeOK
<1>9. CASE UNCHANGED vars
  BY <1>7, <1>9 DEF vars, IInv, TypeOK
<1> QED
  BY <1>1, <1>2, <1>3, <1>4, <1>5, <1>6, <1>8, <1>9 DEF Next, FacadeStep

\* Nothing is invoiced, charged or asked for at the start.
LEMMA InvInit == Init => IInv
<1> SUFFICES ASSUME Init PROVE IInv
  OBVIOUS
<1> USE DEF Init
<1>1. NoInvoice \in Invoice /\ NoRequest \in Request
  BY DEF NoInvoice, Invoice, NoRequest, Request, Statuses
<1>2. TypeOK
  BY <1>1, BillingAssumption DEF TypeOK
<1>3. RowsSound /\ ChargesSound /\ RequestsSound
  BY DEF RowsSound, ChargesSound, RequestsSound, NoInvoice, NoRequest
<1>4. MoneyInv
  BY DEF MoneyInv, InvoiceMoney, RequestMoney, NoInvoice, NoRequest
<1>5. OneVerdict
  BY Events DEF OneVerdict, NoInvoice
<1> QED
  BY <1>2, <1>3, <1>4, <1>5 DEF IInv

\* The inductive invariant holds in every reachable state.
LEMMA Invariance == Spec => []IInv
  BY InvInit, InvStep, PTL DEF Spec

-----------------------------------------------------------------------------
(* The results.                                                            *)

\* Type correctness: billing keeps its tables, the provider's books and its
\* requests of their types, amounts beyond int64 included.
THEOREM TypeCorrect == Spec => []TypeOK
<1>1. IInv => TypeOK
  BY DEF IInv
<1> QED
  BY <1>1, Invariance, PTL

\* The provider and the table agree: for any number of requests, workers and
\* failures in any order, a paid invoice was debited once for its total and
\* keeps its money, and only dead invoices are refunded.
THEOREM MoneyCorrect == Spec => []MoneyMatchesInvoice
<1>1. IInv => MoneyMatchesInvoice
  BY MoneyInvMeans DEF IInv
<1> QED
  BY <1>1, Invariance, PTL

\* Pay, expire and void race for an invoice and the outbox holds exactly the
\* winner's event.
THEOREM VerdictCorrect == Spec => []OneVerdict
<1>1. IInv => OneVerdict
  BY DEF IInv
<1> QED
  BY <1>1, Invariance, PTL

-----------------------------------------------------------------------------
(* Billing implements Ledger.                                              *)

StatusBar == [id \in InvoiceIDs |-> invoices[id].status]

MoneyBar == [id \in InvoiceIDs |-> MoneyAt(id)]

\* A step that leaves rows, charges and refunds alone is a stutter.
LEMMA Stutters ==
  ASSUME UNCHANGED <<invoices, charges, refunded>>
  PROVE  UNCHANGED <<StatusBar, MoneyBar>>
  BY DEF StatusBar, MoneyBar, MoneyAt, Held

\* Concluding an invoice pays or kills it in the ledger.
LEMMA ConcludeLedger ==
  ASSUME IInv, NEW id \in InvoiceIDs, NEW st \in {"paid", "expired", "voided"},
         Conclude(id, st), UNCHANGED <<charges, refunded>>,
         st = "paid" => charges[id] # 0
  PROVE  L!Pay(id) \/ L!Kill(id)
<1>1. OnlyStatus(id, st)
  BY Concluded DEF IInv
<1>2. StatusBar' = [StatusBar EXCEPT ![id] = st] /\ StatusBar[id] = "pending"
  BY <1>1 DEF OnlyStatus, StatusBar
<1>3. MoneyBar' = MoneyBar
  BY DEF MoneyBar, MoneyAt, Held
<1>4. st = "paid" => MoneyBar[id] = "held"
  BY <1>1 DEF OnlyStatus, MoneyBar, MoneyAt, Held, IInv, MoneyInv, InvoiceMoney, Dead
<1> QED
  BY <1>2, <1>3, <1>4 DEF L!Pay, L!Kill, StatusBar, MoneyBar

\* Each step of billing is a step of the ledger or a stutter.
LEMMA LedgerStep == IInv /\ [Next]_vars => [L!Next]_(L!vars)
<1> SUFFICES ASSUME IInv, [Next]_vars PROVE L!Next \/ UNCHANGED L!vars
  OBVIOUS
<1>0. ASSUME UNCHANGED <<invoices, charges, refunded>> PROVE UNCHANGED L!vars
  BY <1>0, Stutters DEF L!vars, StatusBar, MoneyBar
<1>a. ASSUME NEW id \in InvoiceIDs, NEW st \in {"paid", "expired", "voided"},
             Conclude(id, st), UNCHANGED <<charges, refunded>>,
             st = "paid" => charges[id] # 0
      PROVE  L!Next
  BY <1>a, ConcludeLedger DEF L!Next
<1>1. ASSUME NEW o \in Orders, IssueInvoice(o) PROVE L!Next
  <2> DEFINE id == o.id
  <2>0. id \in InvoiceIDs
    BY BillingAssumption
  <2>1. /\ invoices' = [invoices EXCEPT ![id] = NewInvoice(o)]
        /\ invoices[id].status = "absent" /\ NewInvoice(o).status = "pending"
        /\ UNCHANGED <<charges, refunded>>
    BY <1>1 DEF IssueInvoice, NewInvoice
  <2>2. StatusBar' = [StatusBar EXCEPT ![id] = "pending"] /\ StatusBar[id] = "absent"
    BY <2>0, <2>1 DEF StatusBar, IInv, TypeOK
  <2>3. MoneyBar' = MoneyBar
    BY <2>1 DEF MoneyBar, MoneyAt, Held
  <2>4. L!Issue(id)
    BY <2>2, <2>3 DEF L!Issue, StatusBar, MoneyBar
  <2> QED
    BY <2>0, <2>4 DEF L!Next
<1>2. ASSUME NEW id \in InvoiceIDs, VoidInvoice(id) PROVE L!Next
  BY <1>2, <1>a DEF VoidInvoice
<1>3. ASSUME NEW q \in Requests, Charge(q) PROVE L!Next \/ UNCHANGED L!vars
  <2> DEFINE id == requests[q].invoice
  <2>1. /\ id \in InvoiceIDs /\ invoices[id].status # "absent"
        /\ requests[q].amount # 0
    BY <1>3 DEF Charge, IInv, RequestsSound
  <2>2. UNCHANGED <<invoices, refunded>> /\ charges' = Debited(id, requests[q].amount)
    BY <1>3 DEF Charge
  <2>3. CASE charges[id] # 0
    BY <1>0, <2>2, <2>3 DEF Debited
  <2>4. CASE charges[id] = 0
    <3>1. charges' = [charges EXCEPT ![id] = requests[q].amount]
      BY <2>2, <2>4 DEF Debited
    <3>2. id \notin refunded
      BY <2>1, <2>4 DEF IInv, MoneyInv, InvoiceMoney
    <3>3. StatusBar' = StatusBar /\ StatusBar[id] # "absent"
      BY <2>1, <2>2 DEF StatusBar
    <3>4. MoneyBar' = [MoneyBar EXCEPT ![id] = "held"] /\ MoneyBar[id] = "none"
      BY <2>1, <2>2, <2>4, <3>1, <3>2 DEF MoneyBar, MoneyAt, Held, IInv, TypeOK
    <3>5. L!Take(id)
      BY <3>3, <3>4 DEF L!Take, StatusBar, MoneyBar
    <3> QED
      BY <2>1, <3>5 DEF L!Next
  <2> QED
    BY <2>3, <2>4
<1>4. ASSUME NEW q \in Requests, MarkPaid(q) PROVE L!Next \/ UNCHANGED L!vars
  <2> DEFINE id == requests[q].invoice
  <2>1. /\ id \in InvoiceIDs /\ charges[id] # 0
        /\ UNCHANGED <<charges, refunded>>
    BY <1>4 DEF MarkPaid, IInv, RequestsSound, MoneyInv, RequestMoney
  <2>2. CASE Conclude(id, "paid")
    BY <2>1, <2>2, <1>a
  <2>3. CASE UNCHANGED <<invoices, published>>
    BY <1>0, <2>1, <2>3
  <2> QED
    BY <1>4, <2>2, <2>3 DEF MarkPaid
<1>5. ASSUME NEW q \in Requests, Refund(q) PROVE L!Next \/ UNCHANGED L!vars
  <2> DEFINE id == requests[q].invoice
  <2>1. id \in InvoiceIDs /\ Dead(id)
    BY <1>5 DEF Refund, IInv, RequestsSound, MoneyInv, RequestMoney
  <2>2. UNCHANGED <<invoices, charges>> /\ refunded' = GivenBack(id)
    BY <1>5 DEF Refund
  <2>3. CASE ~Held(id)
    BY <1>0, <2>2, <2>3 DEF GivenBack, Held
  <2>4. CASE Held(id)
    <3>1. refunded' = refunded \cup {id}
      BY <2>2, <2>4 DEF GivenBack, Held
    <3>2. StatusBar' = StatusBar /\ StatusBar[id] \in {"expired", "voided"}
      BY <2>1, <2>2 DEF StatusBar, Dead
    <3>3. MoneyBar' = [MoneyBar EXCEPT ![id] = "returned"] /\ MoneyBar[id] = "held"
      BY <2>1, <2>2, <2>4, <3>1 DEF MoneyBar, MoneyAt, Held
    <3>4. L!Return(id)
      BY <3>2, <3>3 DEF L!Return, StatusBar, MoneyBar
    <3> QED
      BY <2>1, <3>4 DEF L!Next
  <2> QED
    BY <2>3, <2>4
<1>6. ASSUME NEW r \in Replicas, NEW id \in InvoiceIDs, ExpireInvoice(r, id)
      PROVE  L!Next
  BY <1>6, <1>a DEF ExpireInvoice
<1>7. ASSUME NEW q \in Requests,
             \/ \E id \in InvoiceIDs, payer \in Users : PreCheck(q, id, payer)
             \/ ChargeFails(q) \/ RequestLost(q)
      PROVE  UNCHANGED L!vars
  BY <1>0, <1>7 DEF PreCheck, ChargeFails, RequestLost
<1>8. ASSUME NEW r \in Replicas,
             \/ ScanDue(r) \/ WorkerRestart(r)
             \/ \E id \in InvoiceIDs : SkipCandidate(r, id)
      PROVE  UNCHANGED L!vars
  BY <1>0, <1>8 DEF ScanDue, WorkerRestart, SkipCandidate
<1>9. CASE Tick \/ UNCHANGED vars
  BY <1>0, <1>9 DEF Tick, vars
<1> QED
  BY <1>1, <1>2, <1>3, <1>4, <1>5, <1>6, <1>7, <1>8, <1>9
     DEF Next, FacadeStep, HandlerStep, WorkerStep

\* Billing implements Ledger: whatever requests, workers, crashes and the
\* provider do, seen from outside money is taken once per invoice, kept for
\* a paid one and returned only for a dead one.
THEOREM LedgerRefined == Spec => ImplementsLedger
<1>1. Init => L!Init
  <2> SUFFICES ASSUME Init PROVE L!Init
    OBVIOUS
  <2>1. \A id \in InvoiceIDs : invoices[id].status = "absent"
    BY DEF Init, NoInvoice
  <2>2. \A id \in InvoiceIDs : MoneyAt(id) = "none"
    BY DEF Init, MoneyAt, Held
  <2> QED
    BY <2>1, <2>2, Zenon DEF L!Init
<1> QED
  BY <1>1, LedgerStep, Invariance, PTL DEF Spec, ImplementsLedger, L!Spec
==============================================================================
