------------------------------- MODULE Billing -------------------------------
(***************************************************************************)
(* The billing context (internal/billing): invoices, the PayInvoice        *)
(* handler that talks to the payment provider outside any transaction, the *)
(* expiry workers and the facade the saga calls.                           *)
(*                                                                         *)
(* Repository.update locks the row, so a status change and its event are   *)
(* one step.  PayInvoice is four: a lock-free read, Charge, MarkPaid under *)
(* the lock, and Refund when the race was lost; requests run concurrently  *)
(* and may die after any of them.  The provider is the one of psp_fake.go, *)
(* the only one there is, except that its charges outlive the process, as  *)
(* the contract of paymentGateway asks of a real one.                      *)
(***************************************************************************)
EXTENDS Money, Sequences, FiniteSets

CONSTANTS
  Users, NoUser, Auctions, NoAuction, NoInvoiceID,
  InvoiceIDs,    \* deterministic ids: one per auction and attempt
  Orders,        \* the IssueInvoice calls the saga may make
  BasisPoints,   \* CommissionPolicy, out of Scale
  Scale,         \* 10000 in the code
  Term,          \* PaymentTerm
  Requests,      \* PayInvoice requests at a time
  Replicas,      \* instances of the monolith, each with an expiry worker
  BatchLimit,    \* expiryBatchLimit
  MaxTime,       \* bound on the clock
  MaxCrashes     \* bound on lost requests, failed refunds, worker restarts

ASSUME BillingAssumption ==
  /\ NoUser \notin Users /\ NoAuction \notin Auctions
  /\ NoInvoiceID \notin InvoiceIDs
  /\ Orders \subseteq [id : InvoiceIDs, auction : Auctions, attempt : {1, 2},
                       debtor : Users, hammer : 1 .. MaxInt]
  /\ Scale \in Nat \ {0} /\ BasisPoints \in 0 .. Scale
  /\ Term \in Nat \ {0} /\ BatchLimit \in Nat \ {0}
  /\ MaxTime \in Nat /\ MaxCrashes \in Nat

VARIABLES
  invoices,   \* the table billing.invoices
  published,  \* the integration events written to the outbox, per invoice
  charges,    \* at the provider: the amount debited per key, 0 for none
  refunded,   \* at the provider: the keys whose charge was given back
  requests,   \* the PayInvoice handlers in progress
  due,        \* per replica, the candidates of the running worker tick
  now,        \* the clock
  crashes     \* failures so far

vars == <<invoices, published, charges, refunded, requests, due, now, crashes>>

Statuses == {"absent", "pending", "paid", "expired", "voided"}

Invoice == [auction : Auctions \cup {NoAuction}, attempt : 0 .. 2,
            debtor : Users \cup {NoUser}, hammer : Nat, commission : Int,
            total : Int, status : Statuses, dueAt : Nat]

NoInvoice == [auction |-> NoAuction, attempt |-> 0, debtor |-> NoUser,
              hammer |-> 0, commission |-> 0, total |-> 0,
              status |-> "absent", dueAt |-> 0]

\* pc is the next step of the handler.
Request == [pc : {"idle", "charge", "markPaid", "refund"},
            invoice : InvoiceIDs \cup {NoInvoiceID}, amount : Int]

NoRequest == [pc |-> "idle", invoice |-> NoInvoiceID, amount |-> 0]

Idle(q) == requests[q] = NoRequest

Init ==
  /\ invoices = [id \in InvoiceIDs |-> NoInvoice]
  /\ published = [id \in InvoiceIDs |-> <<>>]
  /\ charges = [id \in InvoiceIDs |-> 0]
  /\ refunded = {}
  /\ requests = [q \in Requests |-> NoRequest]
  /\ due = [r \in Replicas |-> {}]
  /\ now = 1
  /\ crashes = 0

-----------------------------------------------------------------------------
(* The aggregate and its repository.                                       *)

CommissionFor(hammer) == MulBasisPoints(hammer, BasisPoints, Scale)

NewInvoice(o) ==
  [auction |-> o.auction, attempt |-> o.attempt, debtor |-> o.debtor,
   hammer |-> o.hammer, commission |-> CommissionFor(o.hammer),
   total |-> Wrap(o.hammer + CommissionFor(o.hammer)),
   status |-> "pending", dueAt |-> now + Term]

\* toDomainInvoice refuses a negative amount.
Loadable(inv) == inv.commission >= 0 /\ inv.total >= 0

\* Mutation: only the tick of the deadline expires.
CanExpireAtDeadline(inv) == inv.status = "pending" /\ now = inv.dueAt

CanExpire(inv) == inv.status = "pending" /\ now >= inv.dueAt

\* toIntegrationEvent: a void is not published, its only caller knows.
IntegrationEvents ==
  [pending |-> <<"InvoiceIssued">>, paid |-> <<"InvoicePaid">>,
   expired |-> <<"InvoiceExpired">>, voided |-> <<>>]

\* Mutation: the status is not looked at under the lock.
ConcludeAnyway(id, status) ==
  /\ invoices[id].status # "absent"
  /\ Loadable(invoices[id])
  /\ invoices' = [invoices EXCEPT ![id].status = status]
  /\ published' = [published EXCEPT ![id] = @ \o IntegrationEvents[status]]

\* update: one locked transition and what it publishes; no row, no update.
Conclude(id, status) ==
  /\ invoices[id].status = "pending"
  /\ Loadable(invoices[id])
  /\ invoices' = [invoices EXCEPT ![id].status = status]
  /\ published' = [published EXCEPT ![id] = @ \o IntegrationEvents[status]]

-----------------------------------------------------------------------------
(* The facade.                                                             *)

\* Add: a taken id, or a taken attempt of the auction, is a no-op.
IssueInvoice(o) ==
  /\ now + Term <= MaxTime   \* the bound leaves room for the term
  /\ invoices[o.id].status = "absent"
  /\ \A id \in InvoiceIDs : \/ invoices[id].auction # o.auction
                            \/ invoices[id].attempt # o.attempt
  /\ invoices' = [invoices EXCEPT ![o.id] = NewInvoice(o)]
  /\ published' = [published EXCEPT ![o.id] = @ \o IntegrationEvents["pending"]]
  /\ UNCHANGED <<charges, refunded, requests, due, now, crashes>>

VoidInvoice(id) ==
  /\ Conclude(id, "voided")
  /\ UNCHANGED <<charges, refunded, requests, due, now, crashes>>

-----------------------------------------------------------------------------
(* PayInvoiceHandler.Handle.                                               *)

\* Mutation: every invoice that is not pending is refunded.
PreCheckRefundsPaid(q, id, payer) ==
  LET inv == invoices[id]
  IN  /\ Idle(q)
      /\ inv.debtor = payer /\ Loadable(inv)
      /\ requests' = [requests EXCEPT ![q] =
           [pc |-> IF inv.status = "pending" THEN "charge" ELSE "refund",
            invoice |-> id, amount |-> inv.total]]
      /\ UNCHANGED <<invoices, published, charges, refunded, due, now, crashes>>

\* Mutation: a dead invoice is refused without the refund.
PreCheckNoInsurance(q, id, payer) ==
  /\ Idle(q)
  /\ invoices[id].debtor = payer /\ Loadable(invoices[id])
  /\ invoices[id].status = "pending"
  /\ requests' = [requests EXCEPT ![q] =
       [pc |-> "charge", invoice |-> id, amount |-> invoices[id].total]]
  /\ UNCHANGED <<invoices, published, charges, refunded, due, now, crashes>>

\* Step 1, the pre-check: a foreign invoice is not found, a paid one is
\* success; a dead one is refunded in case an earlier request charged it.
PreCheck(q, id, payer) ==
  LET inv == invoices[id]
  IN  /\ Idle(q)
      /\ inv.debtor = payer /\ Loadable(inv)
      /\ inv.status \in {"pending", "expired", "voided"}
      /\ requests' = [requests EXCEPT ![q] =
           [pc |-> IF inv.status = "pending" THEN "charge" ELSE "refund",
            invoice |-> id, amount |-> inv.total]]
      /\ UNCHANGED <<invoices, published, charges, refunded, due, now, crashes>>

Goto(q, pc) == requests' = [requests EXCEPT ![q].pc = pc]

Answer(q) == requests' = [requests EXCEPT ![q] = NoRequest]

\* The provider's Charge: a key that was charged keeps its one charge.
Debited(id, amount) ==
  IF charges[id] = 0 THEN [charges EXCEPT ![id] = amount] ELSE charges

\* The provider's Refund: nothing without a charge.
GivenBack(id) == IF charges[id] # 0 THEN refunded \cup {id} ELSE refunded

\* Step 2: the charge.
Charge(q) ==
  LET id == requests[q].invoice
  IN  /\ requests[q].pc = "charge"
      /\ charges' = Debited(id, requests[q].amount)
      /\ Goto(q, "markPaid")
      /\ UNCHANGED <<invoices, published, refunded, due, now, crashes>>

\* Declined or unreachable: FakePSP refuses only a key it has not charged, a
\* provider behind a network any.
ChargeFails(q) ==
  /\ requests[q].pc = "charge"
  /\ Answer(q)
  /\ UNCHANGED <<invoices, published, charges, refunded, due, now, crashes>>

\* Mutation: a payment by a duplicate counts as a lost race.
MarkPaidOrRefund(q) ==
  LET id == requests[q].invoice
  IN  /\ requests[q].pc = "markPaid"
      /\ \/ Conclude(id, "paid") /\ Answer(q)
         \/ /\ invoices[id].status # "pending"
            /\ Goto(q, "refund")
            /\ UNCHANGED <<invoices, published>>
      /\ UNCHANGED <<charges, refunded, due, now, crashes>>

\* Steps 3 and 4: paid, paid by a duplicate of this request, or too late.
MarkPaid(q) ==
  LET id == requests[q].invoice
  IN  /\ requests[q].pc = "markPaid"
      /\ \/ Conclude(id, "paid") /\ Answer(q)
         \/ /\ invoices[id].status = "paid" /\ Answer(q)
            /\ UNCHANGED <<invoices, published>>
         \/ /\ invoices[id].status \in {"expired", "voided"}
            /\ Goto(q, "refund")
            /\ UNCHANGED <<invoices, published>>
      /\ UNCHANGED <<charges, refunded, due, now, crashes>>

Refund(q) ==
  LET id == requests[q].invoice
  IN  /\ requests[q].pc = "refund"
      /\ refunded' = GivenBack(id)
      /\ Answer(q)
      /\ UNCHANGED <<invoices, published, charges, due, now, crashes>>

\* The instance dies, or the provider does not answer the refund.
RequestLost(q) ==
  /\ crashes < MaxCrashes
  /\ ~Idle(q)
  /\ crashes' = crashes + 1
  /\ Answer(q)
  /\ UNCHANGED <<invoices, published, charges, refunded, due, now>>

-----------------------------------------------------------------------------
(* The expiry worker.                                                      *)

PendingDueBefore ==
  {id \in InvoiceIDs : invoices[id].status = "pending"
                       /\ invoices[id].dueAt <= now}

IsBatch(S) ==
  /\ S \subseteq PendingDueBefore
  /\ Cardinality(S) <= BatchLimit
  /\ S = PendingDueBefore \/ Cardinality(S) = BatchLimit
  /\ \A id \in S, other \in PendingDueBefore \ S :
       invoices[id].dueAt <= invoices[other].dueAt

ScanDue(r) ==
  /\ due[r] = {}
  /\ \E S \in SUBSET InvoiceIDs :
       S # {} /\ IsBatch(S) /\ due' = [due EXCEPT ![r] = S]
  /\ UNCHANGED <<invoices, published, charges, refunded, requests, now, crashes>>

ExpireInvoice(r, id) ==
  /\ id \in due[r]
  /\ CanExpire(invoices[id])
  /\ Conclude(id, "expired")
  /\ due' = [due EXCEPT ![r] = @ \ {id}]
  /\ UNCHANGED <<charges, refunded, requests, now, crashes>>

\* Concluded since the scan, or not loadable: logged, and the batch goes on.
SkipCandidate(r, id) ==
  /\ id \in due[r]
  /\ ~CanExpire(invoices[id]) \/ ~Loadable(invoices[id])
  /\ due' = [due EXCEPT ![r] = @ \ {id}]
  /\ UNCHANGED <<invoices, published, charges, refunded, requests, now, crashes>>

WorkerRestart(r) ==
  /\ crashes < MaxCrashes
  /\ due[r] # {}
  /\ crashes' = crashes + 1
  /\ due' = [due EXCEPT ![r] = {}]
  /\ UNCHANGED <<invoices, published, charges, refunded, requests, now>>

Tick ==
  /\ now < MaxTime
  /\ now' = now + 1
  /\ UNCHANGED <<invoices, published, charges, refunded, requests, due, crashes>>

-----------------------------------------------------------------------------

FacadeStep ==
  \/ \E o \in Orders : IssueInvoice(o)
  \/ \E id \in InvoiceIDs : VoidInvoice(id)

HandlerStep(q) == Charge(q) \/ ChargeFails(q) \/ MarkPaid(q) \/ Refund(q)

WorkerStep(r) ==
  \/ ScanDue(r)
  \/ \E id \in InvoiceIDs : ExpireInvoice(r, id) \/ SkipCandidate(r, id)

Next ==
  \/ FacadeStep
  \/ \E q \in Requests :
       \/ \E id \in InvoiceIDs, payer \in Users : PreCheck(q, id, payer)
       \/ HandlerStep(q)
       \/ RequestLost(q)
  \/ \E r \in Replicas : WorkerStep(r) \/ WorkerRestart(r)
  \/ Tick

Spec == Init /\ [][Next]_vars

Dead(id) == invoices[id].status \in {"expired", "voided"}

Held(id) == charges[id] # 0 /\ id \notin refunded

\* A debtor whose money is held for a dead invoice asks again.
RetryPay(id) ==
  /\ Dead(id) /\ Held(id)
  /\ \E q \in Requests, payer \in Users : PreCheck(q, id, payer)

\* Fairness: the clock and the workers' tickers run, a request in progress
\* moves on, and the client repeats a request that took money for nothing.
Fairness ==
  /\ WF_vars(Tick)
  /\ \A r \in Replicas : WF_vars(WorkerStep(r))
  /\ \A q \in Requests : WF_vars(HandlerStep(q))
  /\ \A id \in InvoiceIDs : SF_vars(RetryPay(id))

LiveSpec == Spec /\ Fairness

-----------------------------------------------------------------------------
(* Properties.                                                             *)

\* The type invariant.
TypeOK ==
  /\ invoices \in [InvoiceIDs -> Invoice]
  /\ published \in [InvoiceIDs -> Seq({"InvoiceIssued", "InvoicePaid",
                                       "InvoiceExpired"})]
  /\ charges \in [InvoiceIDs -> Int]
  /\ refunded \subseteq InvoiceIDs
  /\ requests \in [Requests -> Request]
  /\ due \in [Replicas -> SUBSET InvoiceIDs]
  /\ now \in Nat /\ crashes \in 0 .. MaxCrashes

\* The provider and the table agree although nothing makes them atomic: a
\* paid invoice was debited for exactly its total and was not refunded,
\* money is given back only for a dead invoice, and no request in flight can
\* still refund a paid one.
MoneyMatchesInvoice ==
  \A id \in InvoiceIDs :
    /\ invoices[id].status = "paid" =>
         charges[id] = invoices[id].total /\ id \notin refunded
    /\ id \in refunded => Dead(id) /\ charges[id] # 0
    /\ \A q \in Requests : requests[q].pc = "refund" => Dead(requests[q].invoice)
    /\ \A q \in Requests :
         requests[q].pc = "markPaid" => charges[requests[q].invoice] # 0

Verdict ==
  [absent |-> <<>>, pending |-> <<"InvoiceIssued">>,
   paid |-> <<"InvoiceIssued", "InvoicePaid">>,
   expired |-> <<"InvoiceIssued", "InvoiceExpired">>,
   voided |-> <<"InvoiceIssued">>]

\* The saga never sees two verdicts on one invoice: pay, expire and void race
\* for it, and the outbox holds exactly the winner's event, none for a void.
OneVerdict ==
  \A id \in InvoiceIDs : published[id] = Verdict[invoices[id].status]

MoneyAt(id) == CASE charges[id] = 0 -> "none"
                 [] Held(id) -> "held"
                 [] OTHER -> "returned"

L == INSTANCE Ledger WITH
  status <- [id \in InvoiceIDs |-> invoices[id].status],
  money <- [id \in InvoiceIDs |-> MoneyAt(id)]

\* Seen from outside, requests, workers, crashes and provider failures are a
\* ledger that takes money once and returns it only for a dead invoice.
ImplementsLedger == L!Spec

\* Money taken for an invoice that expired or was voided meanwhile goes back
\* to a debtor who repeats the request, wherever the first one died.
LostRaceRefunded == \A id \in InvoiceIDs : Dead(id) /\ Held(id) ~> ~Held(id)

\* Every invoice is concluded, if by nobody else then by the expiry worker.
EveryInvoiceConcludes ==
  \A id \in InvoiceIDs :
    invoices[id].status = "pending" ~> invoices[id].status # "pending"
==============================================================================
