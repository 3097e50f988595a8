----------------------------- MODULE Settlement -----------------------------
(***************************************************************************)
(* The settlement saga of one closed auction (internal/settlement) with    *)
(* the parts of the auction and billing contexts it drives.  Four event    *)
(* handlers, each its own consumer group, and the HTTP handler of          *)
(* DeclineSecondChanceOffer run the protocol decide -> effect -> commit    *)
(* concurrently.  Nothing is locked between the phases: each phase is a    *)
(* step here, a facade call is a transaction of the other context, and a   *)
(* handler may fail or die after any of them.  An event that was not acked *)
(* is delivered again; one that used up its retries is parked until an     *)
(* operator publishes it again.                                            *)
(*                                                                         *)
(* Payment terms are not timed: a pending invoice may be paid or expire at *)
(* any moment (Billing has the clock, the payment provider and the         *)
(* worker).  The deterministic ids (uuidv5) become the attempt number of   *)
(* an invoice and the one replacement of the auction.                      *)
(***************************************************************************)
EXTENDS AuctionDomain, Sequences

CONSTANTS
  TheAuction,      \* the auction this saga settles
  Hammered,        \* the rows it may have when the hammer falls
  Requests,        \* HTTP requests of DeclineSecondChanceOffer at a time
  RelistWindow,    \* what RelistPolicy.Window answers, always in the future
  MaxRetries,      \* retries of an event before it is parked
  MaxCrashes       \* bound on the number of crashed or failed handler runs

Groups == {"closed", "paid", "expired", "reassigned"}

Processes == Groups \cup Requests

Attempts == {1, 2}

Terminal == {"Settled", "Relisted", "FailedUnsold"}

States == {"Started", "AwaitingPayment", "AwardingRunnerUp",
           "SecondChancePayment"} \cup Terminal

Saga == [state : States, winner : Users, hammer : Nat,
         runnerUp : Users \cup {NoUser}, runnerUpAmount : Nat,
         runnerUpQualifies : BOOLEAN, relistGen : {0, 1},
         attempt : Attempts, invoice : Attempts,
         reason : {"", "payment_timeout", "second_chance_declined"}]

\* No row in settlement.settlements.
NoSaga == [state |-> "none", winner |-> NoUser, hammer |-> 0,
           runnerUp |-> NoUser, runnerUpAmount |-> 0,
           runnerUpQualifies |-> FALSE, relistGen |-> 0,
           attempt |-> 0, invoice |-> 0, reason |-> ""]

Invoice == [status : {"absent", "pending", "paid", "expired", "voided"},
            debtor : Users \cup {NoUser}, hammer : Nat]

NoInvoice == [status |-> "absent", debtor |-> NoUser, hammer |-> 0]

ASSUME SettlementAssumption ==
  /\ TheAuction \in AuctionIDs
  /\ RelistWindow \in [startsAt : Nat, endsAt : Nat]
  /\ MaxRetries \in Nat /\ MaxCrashes \in Nat
  /\ Requests \cap Groups = {}
  /\ Hammered \subseteq AuctionRow
  /\ \A a \in Hammered :
       /\ a.status = "closed" /\ ~a.winnerReassigned /\ ~a.settled
       /\ a.outcome = (IF Sold(a) THEN "sold" ELSE "not_sold")
       /\ a.leadingBid # ZeroBid =>
            a.leadingBid.bidder \in Users /\ a.leadingBid.amount > 0
       /\ a.runnerUpBid # ZeroBid =>
            a.runnerUpBid.bidder \in Users \ {a.leadingBid.bidder}
       /\ a.relistGen \in {0, 1} /\ Loadable(a)

VARIABLES
  row,          \* the auction's row
  replacement,  \* the row under RelistIDFor(TheAuction), or NoRow
  invoices,     \* the invoices of attempts 1 and 2
  saga,         \* the row of settlement.settlements
  inbox,        \* per consumer group, the events not yet acked
  run,          \* per process, the handler run in progress
  parked,       \* the dead letter: events with the group they failed in
  answers,      \* what the runner-up's declines have been answered
  crashes       \* handler runs lost so far

vars == <<row, replacement, invoices, saga, inbox, run, parked, answers,
          crashes>>

world == <<row, replacement, invoices, saga>>

rest == <<parked, answers, crashes>>

\* pc names the next phase; saga and next are what decide read and decided;
\* retries counts the failed runs for this delivery.
Idle == [pc |-> "idle", saga |-> NoSaga, next |-> "", retries |-> 0]

Init ==
  /\ row \in Hammered
  /\ replacement = NoRow
  /\ invoices = [n \in Attempts |-> NoInvoice]
  /\ saga = NoSaga
  /\ inbox = [g \in Groups |->
                IF g = "closed" THEN <<AuctionClosed(row, row.endsAt)>>
                                ELSE <<>>]
  /\ run = [p \in Processes |-> Idle]
  /\ parked = {} /\ answers = {} /\ crashes = 0

-----------------------------------------------------------------------------
(* The aggregate: decisions.                                               *)

\* RequiresSettlement: only a sold hammer starts a saga.
RequiresSettlement(e) == e.outcome = "sold"

\* buildClosing and NewClosing; anything else is poison for the dead letter.
ValidClosing(e) ==
  /\ e.winner # NoUser /\ e.hammer >= 0 /\ e.relistGen >= 0
  /\ e.runnerUp = NoUser => ~e.runnerUpQualifies
  /\ e.runnerUp # NoUser => e.runnerUpAmount >= 0

Start(e) ==
  [state |-> "Started", winner |-> e.winner, hammer |-> e.hammer,
   runnerUp |-> e.runnerUp, runnerUpAmount |-> e.runnerUpAmount,
   runnerUpQualifies |-> e.runnerUpQualifies, relistGen |-> e.relistGen,
   attempt |-> 1, invoice |-> 1, reason |-> ""]

\* UnmarshalFromDatabase accepts the row.
Rehydrates(s) ==
  /\ s.state \in States /\ s.winner # NoUser
  /\ s.attempt \in Attempts

\* Mutation: no fast-forward from Started.
guardNoFastForward(s, n) ==
  /\ s.state \in {"AwaitingPayment", "SecondChancePayment"}
  /\ n = s.invoice

guardLiveInvoice(s, n) ==
  /\ s.state \in {"Started", "AwaitingPayment", "SecondChancePayment"}
  /\ n = s.invoice

AwaitsReassignment(s) == s.state \in {"AwaitingPayment", "AwardingRunnerUp"}

\* Otherwise ErrWinnerMismatch, which is never acked.
WinnerMatches(s, e) == e.newWinner = s.runnerUp /\ e.price = s.runnerUpAmount

CanRunnerUpDecline(actor, s) ==
  actor = s.runnerUp /\ s.state = "SecondChancePayment"

\* DecideOnDecline for the runner-up when the saga has moved on.
DeclineVerdict(s) ==
  IF s.state = "Settled" THEN "ErrOfferAlreadyPaid" ELSE "ErrUnexpectedTransition"

\* Mutation: any runner-up gets the second chance.
nextStepAnyRunnerUp(s) ==
  IF s.attempt = 1 /\ s.runnerUp # NoUser THEN "award"
  ELSE IF s.relistGen = 0 THEN "relist" ELSE "fail"

\* Mutation: the relist cap is not looked at.
nextStepNoCap(s) ==
  IF s.attempt = 1 /\ s.runnerUpQualifies THEN "award" ELSE "relist"

\* Mutation: nobody gets a second chance.
nextStepNoSecondChance(s) == IF s.relistGen = 0 THEN "relist" ELSE "fail"

nextStepOnFailure(s) ==
  IF s.attempt = 1 /\ s.runnerUpQualifies THEN "award"
  ELSE IF s.relistGen = 0 THEN "relist" ELSE "fail"

(* The aggregate: transitions; an unexpected one leaves it alone.          *)

\* Mutation: the state is not looked at under the lock.
InvoiceIssuedAnyway(s, n) ==
  IF n = 1 THEN [s EXCEPT !.state = "AwaitingPayment"] ELSE s

InvoiceIssued(s, n) ==
  IF s.state = "Started" /\ n = s.invoice
    THEN [s EXCEPT !.state = "AwaitingPayment"] ELSE s

PaymentReceived(s, n) ==
  IF guardLiveInvoice(s, n) THEN [s EXCEPT !.state = "Settled"] ELSE s

\* RunnerUpAwarded and SecondChanceInvoiceIssued in one transaction.
SecondChanceIssued(s, e) ==
  IF AwaitsReassignment(s)
    THEN [s EXCEPT !.state = "SecondChancePayment", !.winner = e.newWinner,
                   !.attempt = 2, !.invoice = 2]
    ELSE s

\* Mutation: no conclusion from Started.
ApplyNextStepNoSeam(s, next, reason) ==
  CASE next = "award" /\ s.state \in {"Started", "AwaitingPayment"} ->
         [s EXCEPT !.state = "AwardingRunnerUp"]
    [] next # "award" /\ s.state \in {"AwaitingPayment",
                                      "SecondChancePayment"} ->
         [s EXCEPT !.state = IF next = "relist" THEN "Relisted"
                                                ELSE "FailedUnsold",
                   !.reason = reason]
    [] OTHER -> s

ApplyNextStep(s, next, reason) ==
  CASE next = "award" /\ s.state \in {"Started", "AwaitingPayment"} ->
         [s EXCEPT !.state = "AwardingRunnerUp"]
    [] next # "award" /\ s.state \in {"Started", "AwaitingPayment",
                                      "SecondChancePayment"} ->
         [s EXCEPT !.state = IF next = "relist" THEN "Relisted"
                                                ELSE "FailedUnsold",
                   !.reason = reason]
    [] OTHER -> s

-----------------------------------------------------------------------------
(* Handler runs.                                                           *)

At(p, pc) == run[p].pc = pc

Goto(p, pc) == run' = [run EXCEPT ![p].pc = pc]

\* The handler returned nil.
Finish(g) == run' = [run EXCEPT ![g] = [Idle EXCEPT !.pc = "ack"]]

Answer(p) == run' = [run EXCEPT ![p] = Idle]

Begin(p, pc, s, next) ==
  run' = [run EXCEPT ![p] = [pc |-> pc, saga |-> s, next |-> next,
                             retries |-> @.retries]]

Delivered(g) == At(g, "idle") /\ inbox[g] # <<>>

Publish(g, e) == inbox' = [inbox EXCEPT ![g] = Append(@, e)]

InvoiceEvent(type, n) == [type |-> type, invoice |-> n]

\* The first effect of the compensation fork.
FirstEffect(next) == IF next = "award" THEN "award" ELSE "failSale"

-----------------------------------------------------------------------------
(* Decide: a read of the saga row and a pure verdict.                      *)

\* OnAuctionClosed: INSERT ON CONFLICT DO NOTHING, then the stored state
\* decides; past Started the event is a duplicate.
DecideClosed ==
  LET e == Head(inbox["closed"])
      current == IF saga = NoSaga THEN Start(e) ELSE saga
  IN  /\ Delivered("closed")
      /\ RequiresSettlement(e) => ValidClosing(e)
      /\ IF RequiresSettlement(e)
           THEN /\ saga' = current
                /\ IF current.state = "Started"
                     THEN Begin("closed", "issue", current, "")
                     ELSE Finish("closed")
           ELSE Finish("closed") /\ saga' = saga
      /\ UNCHANGED <<row, replacement, invoices, inbox, rest>>

DecidePaid ==
  /\ Delivered("paid") /\ saga # NoSaga
  /\ IF guardLiveInvoice(saga, Head(inbox["paid"]).invoice)
       THEN Begin("paid", "confirm", saga, "")
       ELSE Finish("paid")
  /\ UNCHANGED <<row, replacement, invoices, saga, inbox, rest>>

DecideExpired ==
  LET next == nextStepOnFailure(saga)
  IN  /\ Delivered("expired") /\ saga # NoSaga
      /\ IF guardLiveInvoice(saga, Head(inbox["expired"]).invoice)
           THEN Begin("expired", FirstEffect(next), saga, next)
           ELSE Finish("expired")
      /\ UNCHANGED <<row, replacement, invoices, saga, inbox, rest>>

DecideReassigned ==
  /\ Delivered("reassigned") /\ saga # NoSaga
  /\ AwaitsReassignment(saga) => WinnerMatches(saga, Head(inbox["reassigned"]))
  /\ IF AwaitsReassignment(saga)
       THEN Begin("reassigned", "issue", saga, "")
       ELSE Finish("reassigned")
  /\ UNCHANGED <<row, replacement, invoices, saga, inbox, rest>>

\* A decline is told its verdict, unless that is not-offer-recipient, which
\* changes nothing.
Tell(verdict) == answers' = answers \cup {verdict}

\* Mutation: a payment that won counts as the same outcome.
declineOutcomeAlways(verdict) == "declined"

\* What a decline that does not go through is answered; "declined" is the
\* idempotent 204 for an outcome that matches.
declineOutcome(verdict) ==
  IF verdict = "ErrOfferAlreadyPaid" THEN "offer-already-paid" ELSE "declined"

\* DeclineSecondChanceOffer by the runner-up; any other caller is refused.
DecideDecline(p, actor) ==
  /\ At(p, "idle") /\ actor = saga.runnerUp
  /\ IF CanRunnerUpDecline(actor, saga)
       THEN /\ Begin(p, "void", saga, nextStepOnFailure(saga))
            /\ UNCHANGED answers
       ELSE /\ saga.state \in Terminal
            /\ Tell(declineOutcome(DeclineVerdict(saga)))
            /\ UNCHANGED run
  /\ UNCHANGED <<world, inbox, parked, crashes>>

-----------------------------------------------------------------------------
(* Effects: idempotent calls of the billing and auction facades.           *)

\* IssueInvoice: an attempt that has an invoice keeps it.
IssueInvoice(n, debtor, hammer) ==
  IF invoices[n].status = "absent"
    THEN invoices' = [invoices EXCEPT ![n] =
           [status |-> "pending", debtor |-> debtor, hammer |-> hammer]]
    ELSE invoices' = invoices

IssueFirst ==
  LET s == run["closed"].saga
  IN  /\ At("closed", "issue")
      /\ IssueInvoice(s.invoice, s.winner, s.hammer)
      /\ Goto("closed", "commit")
      /\ UNCHANGED <<row, replacement, saga, inbox, rest>>

IssueSecond ==
  LET s == run["reassigned"].saga
  IN  /\ At("reassigned", "issue")
      /\ IssueInvoice(2, s.runnerUp, s.runnerUpAmount)
      /\ Goto("reassigned", "commit")
      /\ UNCHANGED <<row, replacement, saga, inbox, rest>>

\* ConfirmSettlement: a settled sale stays as it is.
ConfirmSale ==
  /\ At("paid", "confirm")
  /\ \/ CanConfirm(row) /\ row' = Confirmed(row)
     \/ row.outcome = "sold" /\ row.settled /\ row' = row
  /\ Goto("paid", "commit")
  /\ UNCHANGED <<replacement, invoices, saga, inbox, rest>>

\* AwardToRunnerUp: publishes WinnerReassigned the first time.
AwardRunnerUp ==
  /\ At("expired", "award")
  /\ \/ /\ CanAward(row)
        /\ row' = Awarded(row)
        /\ Publish("reassigned", WinnerReassigned(Awarded(row)))
     \/ row.winnerReassigned /\ UNCHANGED <<row, inbox>>
  /\ Goto("expired", "commit")
  /\ UNCHANGED <<replacement, invoices, saga, rest>>

\* Mutation: a paid invoice counts as already voided.
VoidInvoicePaidToo(p) ==
  LET n == run[p].saga.invoice
  IN  /\ At(p, "void")
      /\ invoices' = IF invoices[n].status = "pending"
                       THEN [invoices EXCEPT ![n].status = "voided"]
                       ELSE invoices
      /\ Goto(p, "failSale")
      /\ UNCHANGED <<row, replacement, saga, inbox, rest>>

\* Mutation: only a pending invoice can be declined.
VoidInvoiceOnce(p) ==
  LET n == run[p].saga.invoice
  IN  /\ At(p, "void")
      /\ IF invoices[n].status = "pending"
           THEN /\ invoices' = [invoices EXCEPT ![n].status = "voided"]
                /\ Goto(p, "failSale")
           ELSE Answer(p) /\ UNCHANGED invoices
      /\ UNCHANGED <<row, replacement, saga, inbox, rest>>

\* VoidInvoice of the invoice decide saw: a paid one ends the request with
\* offer-already-paid, a dead one is a no-op.
VoidInvoice(p) ==
  LET n == run[p].saga.invoice
  IN  /\ At(p, "void")
      /\ CASE invoices[n].status = "pending" ->
                /\ invoices' = [invoices EXCEPT ![n].status = "voided"]
                /\ Goto(p, "failSale")
           [] invoices[n].status \in {"voided", "expired"} ->
                Goto(p, "failSale") /\ UNCHANGED invoices
           [] invoices[n].status = "paid" ->
                Answer(p) /\ UNCHANGED invoices
      /\ IF invoices[n].status = "paid" THEN Tell("offer-already-paid")
                                        ELSE UNCHANGED answers
      /\ UNCHANGED <<row, replacement, saga, inbox, parked, crashes>>

\* Mutation: the relist is forgotten.
FailSaleOnly(p) ==
  /\ At(p, "failSale")
  /\ \/ CanFailSale(row) /\ row' = SaleFailed(row)
     \/ row.outcome = "not_sold" /\ row' = row
  /\ Goto(p, "commit")
  /\ UNCHANGED <<replacement, invoices, saga, inbox, rest>>

\* MarkSaleFailed: a failed sale stays as it is.
FailSale(p) ==
  /\ At(p, "failSale")
  /\ \/ CanFailSale(row) /\ row' = SaleFailed(row)
     \/ row.outcome = "not_sold" /\ row' = row
  /\ Goto(p, IF run[p].next = "relist" THEN "relist" ELSE "commit")
  /\ UNCHANGED <<replacement, invoices, saga, inbox, rest>>

\* Relist: the deterministic id makes a repeat a no-op.
RelistSale(p) ==
  /\ At(p, "relist")
  /\ CanRelist(row)
  /\ replacement' = IF replacement = NoRow
                      THEN RelistedFrom(row, TheAuction, RelistWindow)
                      ELSE replacement
  /\ Goto(p, "commit")
  /\ UNCHANGED <<row, invoices, saga, inbox, rest>>

-----------------------------------------------------------------------------
(* Commit: the transition under the row lock of the saga, then the ack.    *)

\* Update writes these columns; an unexpected transition writes nothing.
Updated(s) ==
  [saga EXCEPT !.state = s.state, !.winner = s.winner, !.attempt = s.attempt,
               !.invoice = s.invoice, !.reason = s.reason]

Commit(g, s) ==
  /\ At(g, "commit")
  /\ saga' = Updated(s)
  /\ Finish(g)
  /\ UNCHANGED <<row, replacement, invoices, inbox, rest>>

CommitClosed == Commit("closed", InvoiceIssued(saga, run["closed"].saga.invoice))

CommitPaid ==
  /\ inbox["paid"] # <<>>
  /\ Commit("paid", PaymentReceived(saga, Head(inbox["paid"]).invoice))

CommitExpired ==
  Commit("expired",
         ApplyNextStep(saga, run["expired"].next, "payment_timeout"))

CommitReassigned ==
  /\ inbox["reassigned"] # <<>>
  /\ AwaitsReassignment(saga) => WinnerMatches(saga, Head(inbox["reassigned"]))
  /\ Commit("reassigned", SecondChanceIssued(saga, Head(inbox["reassigned"])))

\* After an unexpected transition the saga is read again for the answer.
CommitDecline(p) ==
  LET s == ApplyNextStep(saga, run[p].next, "second_chance_declined")
  IN  /\ At(p, "commit")
      /\ saga' = Updated(s)
      /\ Tell(IF s # saga THEN "declined"
                          ELSE declineOutcome(DeclineVerdict(saga)))
      /\ Answer(p)
      /\ UNCHANGED <<row, replacement, invoices, inbox, parked, crashes>>

Ack(g) ==
  /\ At(g, "ack")
  /\ inbox' = [inbox EXCEPT ![g] = Tail(@)]
  /\ Answer(g)
  /\ UNCHANGED <<row, replacement, invoices, saga, rest>>

\* A read, a facade call or a commit fails: Retry runs the handler again from
\* the start, PoisonQueue in the end parks the event and acks it.
HandlerFails(g) ==
  /\ Delivered(g) \/ run[g].pc \notin {"idle", "ack"}
  /\ crashes < MaxCrashes
  /\ crashes' = crashes + 1
  /\ IF run[g].retries < MaxRetries
       THEN /\ run' = [run EXCEPT ![g] = [Idle EXCEPT !.retries = run[g].retries + 1]]
            /\ UNCHANGED <<inbox, parked>>
       ELSE /\ Answer(g)
            /\ inbox' = [inbox EXCEPT ![g] = Tail(@)]
            /\ parked' = parked \cup {<<g, Head(inbox[g])>>}
  /\ UNCHANGED <<world, answers>>

\* The process dies: the event stays in the inbox and its retries, counted in
\* memory, start over; the HTTP request is gone.
Crash(p) ==
  /\ crashes < MaxCrashes
  /\ ~At(p, "idle")
  /\ crashes' = crashes + 1
  /\ Answer(p)
  /\ UNCHANGED <<world, inbox, parked, answers>>

\* The runbook of docs/operations.md: a parked event goes back to its topic.
Republish ==
  /\ \E m \in parked : Publish(m[1], m[2]) /\ parked' = parked \ {m}
  /\ UNCHANGED <<world, run, answers, crashes>>

-----------------------------------------------------------------------------
(* Billing: MarkPaid and Expire race under the row lock of the invoice.    *)

Conclude(n, status, g, type) ==
  /\ invoices[n].status = "pending"
  /\ invoices' = [invoices EXCEPT ![n].status = status]
  /\ Publish(g, InvoiceEvent(type, n))
  /\ UNCHANGED <<row, replacement, saga, run, rest>>

Pay(n) == Conclude(n, "paid", "paid", "InvoicePaid")

Expire(n) == Conclude(n, "expired", "expired", "InvoiceExpired")

-----------------------------------------------------------------------------

ClosedStep == DecideClosed \/ IssueFirst \/ CommitClosed \/ Ack("closed")

PaidStep == DecidePaid \/ ConfirmSale \/ CommitPaid \/ Ack("paid")

ExpiredStep ==
  \/ DecideExpired \/ AwardRunnerUp \/ FailSale("expired")
  \/ RelistSale("expired") \/ CommitExpired \/ Ack("expired")

ReassignedStep ==
  DecideReassigned \/ IssueSecond \/ CommitReassigned \/ Ack("reassigned")

\* A decline request from the void on.
DeclineStep(p) ==
  VoidInvoice(p) \/ FailSale(p) \/ RelistSale(p) \/ CommitDecline(p)

Next ==
  \/ ClosedStep \/ PaidStep \/ ExpiredStep \/ ReassignedStep
  \/ \E p \in Requests : \/ \E actor \in Users : DecideDecline(p, actor)
                         \/ DeclineStep(p)
  \/ \E p \in Processes : Crash(p)
  \/ \E g \in Groups : HandlerFails(g)
  \/ Republish
  \/ \E n \in Attempts : Pay(n) \/ Expire(n)

Spec == Init /\ [][Next]_vars

\* The runner-up repeats a decline that voided the invoice and was cut off.
RetryDecline ==
  /\ invoices[2].status = "voided"
  /\ \E p \in Requests, actor \in Users : DecideDecline(p, actor)

\* Fairness: a consumer group keeps delivering its oldest event (retries and
\* redelivery) and handlers move on; a request in progress moves on; an
\* operator answers the alert on the dead letter.
Fairness ==
  /\ WF_vars(ClosedStep) /\ WF_vars(PaidStep) /\ WF_vars(ExpiredStep)
  /\ WF_vars(ReassignedStep)
  /\ \A p \in Requests : WF_vars(DeclineStep(p))
  /\ WF_vars(RetryDecline) /\ WF_vars(Republish)

LiveSpec == Spec /\ Fairness

-----------------------------------------------------------------------------
(* Properties.                                                             *)

HandlerRun ==
  [pc : {"idle", "issue", "confirm", "award", "void", "failSale", "relist",
         "commit", "ack"},
   saga : Saga \cup {NoSaga}, next : {"", "award", "relist", "fail"},
   retries : 0 .. MaxRetries]

\* The type invariant.
TypeOK ==
  /\ row \in AuctionRow
  /\ replacement \in AuctionRow
  /\ invoices \in [Attempts -> Invoice]
  /\ saga \in Saga \cup {NoSaga}
  /\ DOMAIN inbox = Groups
  /\ run \in [Processes -> HandlerRun]
  /\ \A m \in parked : m[1] \in Groups
  /\ answers \subseteq {"declined", "offer-already-paid"}
  /\ crashes \in 0 .. MaxCrashes

\* Money taken is a sale kept: once an invoice is paid, no handler still
\* working from an older decision fails the sale, relists the auction or
\* passes the lot on, and no other invoice can be paid.
PaidSaleStands ==
  \A n \in Attempts :
    invoices[n].status = "paid" =>
      /\ row.outcome = "sold" /\ replacement = NoRow
      /\ row.leadingBid.bidder = invoices[n].debtor
      /\ row.leadingBid.amount = invoices[n].hammer
      /\ \A m \in Attempts \ {n} : invoices[m].status \in {"absent", "expired"}

\* A settled sale was paid for by the bidder the auction names, at the price
\* it names, and that price meets the reserve, although AwardToRunnerUp
\* itself never looks at the reserve.
SettledMeansPaid ==
  /\ row.settled /\ row.outcome = "sold" =>
       \E n \in Attempts : /\ invoices[n].status = "paid"
                           /\ invoices[n].debtor = row.leadingBid.bidder
                           /\ invoices[n].hammer = row.leadingBid.amount
  /\ row.outcome = "sold" => MetBy(row.reserve, row.leadingBid.amount)

Failed(a) == a.settled /\ a.outcome = "not_sold"

\* The saga's own record never claims what the other contexts do not hold:
\* its effects come before its commits, whichever handler commits.
SagaMatchesWorld ==
  /\ saga.state = "Settled" => row.settled /\ row.outcome = "sold"
  /\ saga.state = "Relisted" => Failed(row) /\ replacement # NoRow
  /\ saga.state = "FailedUnsold" => Failed(row) /\ replacement = NoRow
  /\ saga.state = "AwaitingPayment" => invoices[1].status # "absent"
  /\ saga.state = "AwardingRunnerUp" => row.winnerReassigned
  /\ saga.state = "SecondChancePayment" =>
       /\ row.winnerReassigned /\ saga.winner = row.leadingBid.bidder
       /\ invoices[2].status # "absent" /\ invoices[2].debtor = saga.winner
  /\ replacement # NoRow => Failed(row) /\ row.relistGen = 0

\* No handler is ever refused: at whatever moment a facade is called, it is
\* in the state the call asks for or can get there, the row of the saga loads
\* and the closing event is valid, so that only an outage can park an event
\* and the closed enums never panic.
NoFacadeConflict ==
  /\ saga = NoSaga \/ Rehydrates(saga)
  /\ \A i \in DOMAIN inbox["closed"] :
       RequiresSettlement(inbox["closed"][i]) => ValidClosing(inbox["closed"][i])
  /\ inbox["paid"] # <<>> \/ inbox["expired"] # <<>> => saga # NoSaga
  /\ At("paid", "confirm") => row.outcome = "sold"
  /\ At("expired", "award") => row.winnerReassigned \/ CanAward(row)
  /\ \A p \in Requests \cup {"expired"} :
       /\ At(p, "failSale") => CanFailSale(row) \/ row.outcome = "not_sold"
       /\ At(p, "relist") => CanRelist(row)
  /\ \A p \in Requests : run[p].next # "award"
  /\ inbox["reassigned"] # <<>> /\ AwaitsReassignment(saga) =>
       WinnerMatches(saga, Head(inbox["reassigned"]))

\* A runner-up with an offer is told the truth: 204 only when the sale has
\* failed for good, whoever concluded it and however often the request is
\* repeated, offer-already-paid only when this offer is paid and stays so.
DeclineAnswersTrue ==
  /\ "declined" \in answers => saga.state \in {"Relisted", "FailedUnsold"}
  /\ "offer-already-paid" \in answers /\ invoices[2].status # "absent" =>
       invoices[2].status = "paid"

\* ErrOfferAlreadyPaid: "the second-chance invoice is already paid and the
\* sale settles"; whoever holds no offer gets not-offer-recipient instead.
AlreadyPaidMeansOffer ==
  "offer-already-paid" \in answers => invoices[2].status = "paid"

\* The states in the order of the transition table.
Rank(s) ==
  CASE s = "none" -> 0
    [] s = "Started" -> 1
    [] s = "AwaitingPayment" -> 2
    [] s = "AwardingRunnerUp" -> 3
    [] s = "SecondChancePayment" -> 4
    [] s \in Terminal -> 5

\* A concluded saga is never touched again, and the saga only moves forward
\* along the transition table, however late a commit lands.
SagaMovesForward ==
  [][saga' # saga => Rank(saga'.state) > Rank(saga.state)]_vars

-----------------------------------------------------------------------------
(* The promise of Sale, implemented.                                       *)

PaidBy == IF \E n \in Attempts : invoices[n].status = "paid"
            THEN invoices[CHOOSE n \in Attempts :
                            invoices[n].status = "paid"].debtor
            ELSE NoUser

Verdict ==
  CASE row.settled /\ row.outcome = "sold" -> "settled"
    [] Failed(row) -> "failed"
    [] ~row.settled /\ row.outcome = "sold" -> "open"
    [] OTHER -> "unsold"

S == INSTANCE Sale WITH
  buyer <- row.leadingBid.bidder,
  second <- IF RunnerUpQualifies(row) THEN row.runnerUpBid.bidder ELSE NoUser,
  paidBy <- PaidBy,
  verdict <- Verdict,
  relistable <- CanRelist(row),
  relisted <- replacement # NoRow

\* Seen from outside, the handlers, their races and their crashes are a sale
\* that is paid at most once, passed on at most once and failed only unpaid.
ImplementsSale == S!Spec

-----------------------------------------------------------------------------
(* Liveness.                                                               *)

\* The winner's payment settles the sale even if it overtakes the saga's own
\* commit of AwaitingPayment (the Started seam).
FirstPaymentSettles ==
  invoices[1].status = "paid" ~> saga.state = "Settled" /\ row.settled

\* When the winner lets the invoice expire, a qualifying runner-up gets the
\* lot, and otherwise the saga concludes, with a replacement listed if the
\* auction was an original.
TimeoutConcludes ==
  invoices[1].status = "expired" ~>
    \/ row.winnerReassigned
    \/ /\ saga.state \in {"Relisted", "FailedUnsold"} /\ Failed(row)
       /\ CanRelist(row) => replacement # NoRow

\* A decline that voided the offer concludes the saga if the runner-up
\* repeats a request that was cut off.
DeclineConcludes ==
  invoices[2].status = "voided" ~> saga.state \in {"Relisted", "FailedUnsold"}

\* docs/ARCHITECTURE.md 6.1: redelivery recovers any crash between phases;
\* so the runner-up's payment must settle the sale.
SecondPaymentSettles ==
  invoices[2].status = "paid" ~> saga.state = "Settled"

\* docs/ARCHITECTURE.md 6.3: WinnerReassigned is never lost, the runner-up
\* gets the second-chance invoice.
SecondChanceOffered ==
  row.winnerReassigned ~> invoices[2].status # "absent"
=============================================================================
