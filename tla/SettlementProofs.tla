-------------------------- MODULE SettlementProofs --------------------------
(***************************************************************************)
(* Proofs about the settlement saga, for any hammered auction, any number  *)
(* of decline requests, retries and crashes: whatever the handlers decide  *)
(* from a saga row that is stale when they act, paid sales stand, the saga *)
(* records only what happened, no facade refuses it and the whole          *)
(* implements Sale.                                                        *)
(*                                                                         *)
(* The argument: every phase of every handler run is taken on a fact that  *)
(* no later step undoes (an invoice that is no longer pending, a lot that  *)
(* was passed on, a sale that has its verdict).  h is the row as the       *)
(* hammer left it; r, x, i and s stand for the row, the replacement, the   *)
(* invoices and the saga of a state.                                       *)
(***************************************************************************)
EXTENDS Settlement, SequenceTheorems, TLAPS

Q(h) == RunnerUpQualifies(h)

\* The row is the hammered one, passed on at most once, with at most one
\* verdict.
RowOK(h, r) ==
  /\ r \in AuctionRow /\ r.status = "closed"
  /\ r.reserve = h.reserve /\ r.relistGen = h.relistGen
  /\ ~r.winnerReassigned => r.leadingBid = h.leadingBid /\ r.runnerUpBid = h.runnerUpBid
  /\ r.winnerReassigned => /\ r.leadingBid = h.runnerUpBid /\ r.runnerUpBid = ZeroBid
                           /\ Q(h) /\ h.outcome = "sold"
  /\ ~r.settled => r.outcome = h.outcome
  /\ r.settled => h.outcome = "sold" /\ r.outcome \in {"sold", "not_sold"}

\* Attempt 1 bills the winner at the hammer, attempt 2 the runner-up.
InvoicesOK(h, i) ==
  /\ i \in [Attempts -> Invoice]
  /\ i[1].status # "absent" =>
       i[1].debtor = h.leadingBid.bidder /\ i[1].hammer = h.leadingBid.amount
  /\ i[2].status # "absent" =>
       i[2].debtor = h.runnerUpBid.bidder /\ i[2].hammer = h.runnerUpBid.amount
  /\ i[1].status # "voided"

\* Nobody is left who could still pay.
Dead(h, r, i) ==
  /\ i[1].status = "expired"
  /\ Q(h) => r.winnerReassigned /\ i[2].status \in {"expired", "voided"}

\* The contexts fit together.
WorldOK(h, r, x, i) ==
  /\ r.winnerReassigned => i[1].status = "expired"
  /\ i[2].status # "absent" => r.winnerReassigned
  /\ r.settled /\ r.outcome = "sold" =>
       IF r.winnerReassigned THEN i[2].status = "paid" ELSE i[1].status = "paid"
  /\ Failed(r) => Dead(h, r, i)
  /\ x # NoRow => Failed(r) /\ h.relistGen = 0

\* What the saga row always holds of the closing.
Remembers(h, s) ==
  /\ h.outcome = "sold"
  /\ s.hammer = h.leadingBid.amount
  /\ s.runnerUp = h.runnerUpBid.bidder /\ s.runnerUpAmount = h.runnerUpBid.amount
  /\ s.runnerUpQualifies = Q(h) /\ s.relistGen = h.relistGen

\* The saga's record is true of the world.
Records(h, r, x, i, s) ==
  /\ s.invoice = s.attempt
  /\ s.attempt = 1 => s.winner = h.leadingBid.bidder
  /\ s.attempt = 2 => /\ s.winner = h.runnerUpBid.bidder /\ r.winnerReassigned
                      /\ i[2].status # "absent"
                      /\ s.state \in {"SecondChancePayment"} \cup Terminal
  /\ s.state = "SecondChancePayment" => s.attempt = 2
  /\ s.state # "Started" => i[1].status # "absent"
  /\ s.state = "AwardingRunnerUp" => r.winnerReassigned
  /\ s.state = "Settled" => r.settled /\ r.outcome = "sold"
  /\ s.state = "Relisted" => Failed(r) /\ x # NoRow
  /\ s.state = "FailedUnsold" => Failed(r) /\ h.relistGen = 1

SagaOK(h, r, x, i, s) ==
  /\ s = NoSaga => i[1].status = "absent"
  /\ s # NoSaga => s \in Saga /\ Remembers(h, s) /\ Records(h, r, x, i, s)

Consistent(h, r, x, i, s) ==
  RowOK(h, r) /\ InvoicesOK(h, i) /\ WorldOK(h, r, x, i) /\ SagaOK(h, r, x, i, s)

\* An event of group g was published for a reason that still holds.
Founded(h, r, i, g, e) ==
  /\ g = "closed" => e = AuctionClosed(h, h.endsAt)
  /\ g = "paid" => e.invoice \in Attempts /\ i[e.invoice].status = "paid"
  /\ g = "expired" => e.invoice \in Attempts /\ i[e.invoice].status = "expired"
  /\ g = "reassigned" => /\ r.winnerReassigned /\ e.newWinner = h.runnerUpBid.bidder
                         /\ e.price = h.runnerUpBid.amount

\* A run q on the losing branch of the fork, up to its commit.
Failing(h, r, x, i, q) ==
  /\ q.pc = "failSale" =>
       /\ Dead(h, r, i)
       /\ q.next = IF h.relistGen = 0 THEN "relist" ELSE "fail"
  /\ q.pc = "relist" => Failed(r) /\ q.next = "relist" /\ h.relistGen = 0
  /\ q.pc = "commit" /\ q.next # "award" =>
       /\ Failed(r) /\ (q.next = "relist" => x # NoRow)
       /\ q.next = IF h.relistGen = 0 THEN "relist" ELSE "fail"

\* What each phase of a run stands on.
ClosedRun(h, i, s, q) ==
  /\ q.pc \in {"idle", "issue", "commit", "ack"}
  /\ q.pc \in {"issue", "commit"} =>
       /\ s # NoSaga /\ q.saga.invoice = 1
       /\ q.saga.winner = h.leadingBid.bidder /\ q.saga.hammer = h.leadingBid.amount
  /\ q.pc = "commit" => i[1].status # "absent"

PaidRun(r, i, s, q) ==
  /\ q.pc \in {"idle", "confirm", "commit", "ack"}
  /\ q.pc \in {"confirm", "commit"} =>
       s # NoSaga /\ (i[1].status = "paid" \/ i[2].status = "paid")
  /\ q.pc = "commit" => r.settled /\ r.outcome = "sold"

ExpiredRun(h, r, x, i, s, q) ==
  /\ q.pc \in {"idle", "award", "failSale", "relist", "commit", "ack"}
  /\ q.pc \notin {"idle", "ack"} => s # NoSaga
  /\ q.pc = "award" => q.next = "award" /\ Q(h) /\ i[1].status = "expired"
  /\ q.pc = "commit" /\ q.next = "award" => r.winnerReassigned
  /\ Failing(h, r, x, i, q)

ReassignedRun(h, r, i, s, q) ==
  /\ q.pc \in {"idle", "issue", "commit", "ack"}
  /\ q.pc \in {"issue", "commit"} =>
       /\ s # NoSaga /\ r.winnerReassigned
       /\ q.saga.runnerUp = h.runnerUpBid.bidder
       /\ q.saga.runnerUpAmount = h.runnerUpBid.amount
  /\ q.pc = "commit" => i[2].status # "absent"

DeclineRun(h, r, x, i, s, q) ==
  /\ q.pc \in {"idle", "void", "failSale", "relist", "commit"}
  /\ q.pc # "idle" => s # NoSaga /\ s.attempt = 2
  /\ q.next # "award"
  /\ q.pc = "void" => /\ q.saga.invoice = 2
                      /\ q.next = IF h.relistGen = 0 THEN "relist" ELSE "fail"
  /\ Failing(h, r, x, i, q)

RunOK(p, h, r, x, i, s, q) ==
  /\ p = "closed" => ClosedRun(h, i, s, q)
  /\ p = "paid" => PaidRun(r, i, s, q)
  /\ p = "expired" => ExpiredRun(h, r, x, i, s, q)
  /\ p = "reassigned" => ReassignedRun(h, r, i, s, q)
  /\ p \in Requests => DeclineRun(h, r, x, i, s, q)

\* The answers given so far are true of the state.
AnswersOK(i, s, a) ==
  /\ a \subseteq {"declined", "offer-already-paid"}
  /\ "declined" \in a => s.state \in {"Relisted", "FailedUnsold"}
  /\ "offer-already-paid" \in a => i[1].status = "paid" \/ i[2].status = "paid"

Msgs(h) ==
  {AuctionClosed(h, h.endsAt), WinnerReassigned(Awarded(h))}
    \cup {InvoiceEvent(t, n) : t \in {"InvoicePaid", "InvoiceExpired"}, n \in Attempts}

\* The queues b and the dead letter k hold only events that are founded.
Mail(h, r, i, b, k) ==
  /\ b \in [Groups -> Seq(Msgs(h))]
  /\ k \subseteq Groups \X Msgs(h)
  /\ \A g \in Groups : \A n \in 1 .. Len(b[g]) : Founded(h, r, i, g, b[g][n])
  /\ \A m \in k : Founded(h, r, i, m[1], m[2])

Runs(h, r, x, i, s, u) ==
  /\ u \in [Processes -> HandlerRun]
  /\ \A p \in Processes : RunOK(p, h, r, x, i, s, u[p])

\* A consumer group is busy only with an event of its queue.
Busy(b, u) == \A g \in Groups : u[g].pc # "idle" => b[g] # <<>>

Explains(h) ==
  /\ replacement \in AuctionRow
  /\ Consistent(h, row, replacement, invoices, saga)
  /\ Mail(h, row, invoices, inbox, parked)
  /\ Runs(h, row, replacement, invoices, saga, run)
  /\ Busy(inbox, run)
  /\ AnswersOK(invoices, saga, answers)
  /\ crashes \in 0 .. MaxCrashes

\* The inductive invariant: some hammered row explains the whole state.
IInv == \E h \in Hammered : Explains(h)

-----------------------------------------------------------------------------
(* What no step undoes.                                                    *)

Later(r, x, i, s, r2, x2, i2, s2) ==
  /\ r.winnerReassigned => r2.winnerReassigned
  /\ r.settled => r2.settled /\ r2.outcome = r.outcome
  /\ \A n \in Attempts : i[n].status # "absent" => i2[n].status # "absent"
  /\ \A n \in Attempts : i[n].status \in {"paid", "expired", "voided"} =>
       i2[n].status = i[n].status
  /\ x # NoRow => x2 # NoRow
  /\ s # NoSaga => s2 # NoSaga
  /\ s.attempt = 2 => s2.attempt = 2
  /\ s.state \in Terminal => s2 = s

LEMMA BothAttempts == 1 \in Attempts /\ 2 \in Attempts
  BY DEF Attempts

\* Once nobody can pay, nobody ever can; a failed sale stays failed.
LEMMA DeadLater ==
  ASSUME NEW h, NEW r, NEW x, NEW i, NEW s, NEW r2, NEW x2, NEW i2, NEW s2,
         Later(r, x, i, s, r2, x2, i2, s2)
  PROVE  /\ Dead(h, r, i) => Dead(h, r2, i2)
         /\ Failed(r) => Failed(r2)
<1>1. Dead(h, r, i) => Dead(h, r2, i2)
  BY BothAttempts DEF Later, Dead
<1>2. Failed(r) => Failed(r2)
  BY DEF Later, Failed
<1> QED
  BY <1>1, <1>2

\* So a run in progress keeps the ground it stands on.
LEMMA RunLater ==
  ASSUME NEW h, NEW r, NEW x, NEW i, NEW s, NEW r2, NEW x2, NEW i2, NEW s2,
         Later(r, x, i, s, r2, x2, i2, s2), NEW p, NEW q, RunOK(p, h, r, x, i, s, q)
  PROVE  RunOK(p, h, r2, x2, i2, s2, q)
<1>1. /\ Dead(h, r, i) => Dead(h, r2, i2)
      /\ Failed(r) => Failed(r2)
  BY DeadLater
<1>2. Failing(h, r, x, i, q) => Failing(h, r2, x2, i2, q)
  BY <1>1 DEF Failing, Later
<1>3. ClosedRun(h, i, s, q) => ClosedRun(h, i2, s2, q)
  BY BothAttempts DEF ClosedRun, Later
<1>4. PaidRun(r, i, s, q) => PaidRun(r2, i2, s2, q)
  BY BothAttempts DEF PaidRun, Later
<1>5. ExpiredRun(h, r, x, i, s, q) => ExpiredRun(h, r2, x2, i2, s2, q)
  BY <1>2, BothAttempts DEF ExpiredRun, Later
<1>6. ReassignedRun(h, r, i, s, q) => ReassignedRun(h, r2, i2, s2, q)
  BY BothAttempts DEF ReassignedRun, Later
<1>7. DeclineRun(h, r, x, i, s, q) => DeclineRun(h, r2, x2, i2, s2, q)
  BY <1>2 DEF DeclineRun, Later
<1> QED
  BY <1>3, <1>4, <1>5, <1>6, <1>7 DEF RunOK

\* And an event its reason.
LEMMA FoundedLater ==
  ASSUME NEW h, NEW r, NEW x, NEW i, NEW s, NEW r2, NEW x2, NEW i2, NEW s2,
         Later(r, x, i, s, r2, x2, i2, s2), NEW g, NEW e, Founded(h, r, i, g, e)
  PROVE  Founded(h, r2, i2, g, e)
  BY DEF Founded, Later

LEMMA AnswersLater ==
  ASSUME NEW r, NEW x, NEW i, NEW s, NEW r2, NEW x2, NEW i2, NEW s2,
         Later(r, x, i, s, r2, x2, i2, s2), NEW a, AnswersOK(i, s, a)
  PROVE  AnswersOK(i2, s2, a)
<1>1. "declined" \in a => s2.state \in {"Relisted", "FailedUnsold"}
  BY DEF AnswersOK, Later, Terminal
<1>2. "offer-already-paid" \in a => i2[1].status = "paid" \/ i2[2].status = "paid"
  BY BothAttempts DEF AnswersOK, Later
<1>3. a \subseteq {"declined", "offer-already-paid"}
  BY DEF AnswersOK
<1> QED
  BY <1>1, <1>2, <1>3 DEF AnswersOK

LEMMA LaterSame ==
  ASSUME NEW r, NEW x, NEW i, NEW s
  PROVE  Later(r, x, i, s, r, x, i, s)
  BY DEF Later

-----------------------------------------------------------------------------
(* The effects keep the contexts consistent.                               *)

LEMMA RowTypes ==
  ASSUME NEW r \in AuctionRow
  PROVE  /\ r.settled \in BOOLEAN /\ r.winnerReassigned \in BOOLEAN
         /\ r.outcome \in {"", "sold", "not_sold"} /\ r.relistGen \in Nat
         /\ r.leadingBid \in Bid /\ r.runnerUpBid \in Bid
<1>1. r.settled \in BOOLEAN /\ r.winnerReassigned \in BOOLEAN
  BY Zenon DEF AuctionRow
<1>2. /\ r.outcome \in {"", "sold", "not_sold"} /\ r.relistGen \in Nat
      /\ r.leadingBid \in Bid /\ r.runnerUpBid \in Bid
  BY DEF AuctionRow
<1> QED
  BY <1>1, <1>2

LEMMA HammeredFacts ==
  ASSUME NEW h \in Hammered
  PROVE  /\ h \in AuctionRow /\ h.status = "closed"
         /\ h.settled = FALSE /\ h.winnerReassigned = FALSE
         /\ h.outcome \in {"sold", "not_sold"}
         /\ h.outcome = "sold" <=> Sold(h)
         /\ h.outcome = "sold" =>
              h.leadingBid # ZeroBid /\ MetBy(h.reserve, h.leadingBid.amount)
         /\ h.leadingBid # ZeroBid => h.leadingBid.bidder \in Users
         /\ h.runnerUpBid # ZeroBid => /\ h.runnerUpBid.bidder \in Users
                                       /\ h.runnerUpBid.bidder # h.leadingBid.bidder
         /\ h.relistGen \in {0, 1}
         /\ h.leadingBid \in Bid /\ h.runnerUpBid \in Bid
<1>1. h \in AuctionRow
  BY SettlementAssumption
<1>2. /\ h.status = "closed" /\ ~h.winnerReassigned /\ ~h.settled
      /\ h.outcome = (IF Sold(h) THEN "sold" ELSE "not_sold")
      /\ h.leadingBid # ZeroBid => h.leadingBid.bidder \in Users
      /\ h.runnerUpBid # ZeroBid =>
           h.runnerUpBid.bidder \in Users \ {h.leadingBid.bidder}
      /\ h.relistGen \in {0, 1}
  BY SettlementAssumption
<1>3. h.settled = FALSE /\ h.winnerReassigned = FALSE
  BY <1>1, <1>2, RowTypes
<1> QED
  BY <1>1, <1>2, <1>3, RowTypes DEF Sold

\* A payment in the books names the one who may buy.
LEMMA PaidFacts ==
  ASSUME NEW h, NEW r, NEW x, NEW i, NEW s, Consistent(h, r, x, i, s)
  PROVE  /\ i[1].status = "paid" => ~r.winnerReassigned /\ i[2].status = "absent"
         /\ i[2].status = "paid" => r.winnerReassigned /\ i[1].status = "expired"
         /\ i[1].status = "paid" \/ i[2].status = "paid" => ~Dead(h, r, i) /\ ~Failed(r)
         /\ i[1].status # "absent" \/ i[2].status # "absent" => s # NoSaga
<1>1. i[1].status = "paid" => ~r.winnerReassigned /\ i[2].status = "absent"
  BY DEF Consistent, WorldOK
<1>2. i[2].status = "paid" => r.winnerReassigned /\ i[1].status = "expired"
  BY DEF Consistent, WorldOK
<1>3. i[1].status = "paid" \/ i[2].status = "paid" => ~Dead(h, r, i)
  BY <1>2 DEF Consistent, RowOK, Dead
<1>4. Failed(r) => Dead(h, r, i)
  BY DEF Consistent, WorldOK
<1>5. i[1].status # "absent" \/ i[2].status # "absent" => i[1].status # "absent"
  BY DEF Consistent, WorldOK
<1>6. i[1].status # "absent" => s # NoSaga
  BY DEF Consistent, SagaOK
<1> QED
  BY <1>1, <1>2, <1>3, <1>4, <1>5, <1>6

\* One invoice is issued, or a pending one concluded: IssueInvoice, VoidInvoice
\* and the two transactions of billing.
InvoiceMoves(h, r, s, i, i2, n) ==
  /\ InvoicesOK(h, i2)
  /\ \A m \in Attempts \ {n} : i2[m] = i[m]
  /\ \/ /\ i[n].status = "absent" /\ i2[n].status = "pending"
        /\ s # NoSaga /\ (n = 2 => r.winnerReassigned)
     \/ i[n].status = "pending" /\ i2[n].status \in {"paid", "expired", "voided"}

LEMMA InvoiceStep ==
  ASSUME NEW h, NEW r, NEW x, NEW i, NEW s, Consistent(h, r, x, i, s),
         NEW n \in Attempts, NEW i2, InvoiceMoves(h, r, s, i, i2, n)
  PROVE  Consistent(h, r, x, i2, s) /\ Later(r, x, i, s, r, x, i2, s)
<1>1. n = 1 \/ n = 2
  BY DEF Attempts
<1>2. \/ n = 1 /\ i2[2] = i[2]
      \/ n = 2 /\ i2[1] = i[1]
  BY <1>1, BothAttempts DEF InvoiceMoves
<1>3. /\ i[n].status \in {"absent", "pending"} /\ i2[n].status # "absent"
      /\ s # NoSaga
  <2>1. i[n].status = "pending" => s # NoSaga
    BY <1>1, PaidFacts
  <2> QED
    BY <2>1 DEF InvoiceMoves
<1>4. n = 2 => r.winnerReassigned
  BY <1>3 DEF InvoiceMoves, Consistent, WorldOK
<1>5. n = 1 => ~r.winnerReassigned
  BY <1>3 DEF Consistent, WorldOK
<1>6. ~Failed(r)
  <2>1. r.winnerReassigned => Q(h)
    BY DEF Consistent, RowOK
  <2>2. Failed(r) => Dead(h, r, i)
    BY DEF Consistent, WorldOK
  <2> QED
    BY <1>1, <1>3, <1>4, <2>1, <2>2 DEF Dead
<1>7. WorldOK(h, r, x, i2)
  <2>1. r.winnerReassigned => i2[1].status = "expired"
    BY <1>2, <1>5 DEF Consistent, WorldOK
  <2>2. i2[2].status # "absent" => r.winnerReassigned
    BY <1>2, <1>4 DEF Consistent, WorldOK
  <2>3. ~(r.settled /\ r.outcome = "sold")
    BY <1>1, <1>3, <1>4, <1>5 DEF Consistent, WorldOK
  <2>4. x = NoRow
    BY <1>6 DEF Consistent, WorldOK
  <2> QED
    BY <1>6, <2>1, <2>2, <2>3, <2>4 DEF WorldOK
<1>8. SagaOK(h, r, x, i2, s)
  <2>1. s \in Saga /\ Remembers(h, s) /\ Records(h, r, x, i, s)
    BY <1>3 DEF Consistent, SagaOK
  <2>2. /\ i[1].status # "absent" => i2[1].status # "absent"
        /\ i[2].status # "absent" => i2[2].status # "absent"
    BY <1>2, <1>3
  <2>3. Records(h, r, x, i2, s)
    BY <2>1, <2>2 DEF Records
  <2> QED
    BY <1>3, <2>1, <2>3 DEF SagaOK
<1>9. Later(r, x, i, s, r, x, i2, s)
  <2> SUFFICES ASSUME NEW m \in Attempts
               PROVE  /\ i[m].status # "absent" => i2[m].status # "absent"
                      /\ i[m].status \in {"paid", "expired", "voided"} =>
                           i2[m].status = i[m].status
    BY DEF Later
  <2>1. CASE m = n
    BY <1>3, <2>1
  <2>2. CASE m # n
    BY <2>2 DEF InvoiceMoves
  <2> QED
    BY <2>1, <2>2
<1> QED
  BY <1>7, <1>8, <1>9 DEF Consistent, InvoiceMoves

Concluded(i, n, st) == [i EXCEPT ![n].status = st]

\* The status of one invoice changes.
LEMMA StatusChange ==
  ASSUME NEW h, NEW i, InvoicesOK(h, i), NEW n \in Attempts,
         i[n].status # "absent", NEW st \in {"paid", "expired", "voided"},
         n = 1 => st # "voided", NEW i2
  PROVE  i2 = Concluded(i, n, st) =>
           /\ InvoicesOK(h, i2) /\ i2[n].status = st
           /\ \A m \in Attempts \ {n} : i2[m] = i[m]
<1>0. SUFFICES ASSUME i2 = Concluded(i, n, st)
               PROVE  /\ InvoicesOK(h, i2) /\ i2[n].status = st
                      /\ \A m \in Attempts \ {n} : i2[m] = i[m]
  OBVIOUS
<1>1. i \in [Attempts -> Invoice] /\ i[n] \in Invoice
  BY DEF InvoicesOK
<1>2. PICK v : v = [i[n] EXCEPT !.status = st]
  OBVIOUS
<1>3. v \in Invoice /\ v.status = st /\ v.debtor = i[n].debtor /\ v.hammer = i[n].hammer
  BY <1>1, <1>2 DEF Invoice
<1>4. i2 = [i EXCEPT ![n] = v]
  BY <1>0, <1>2 DEF Concluded
<1>5. /\ i2 \in [Attempts -> Invoice] /\ i2[n] = v
      /\ \A m \in Attempts \ {n} : i2[m] = i[m]
  BY <1>1, <1>3, <1>4
<1>6. n = 1 \/ n = 2
  BY DEF Attempts
<1>7. CASE n = 1
  <2>1. i2[2] = i[2]
    BY <1>5, <1>7, BothAttempts
  <2> QED
    BY <1>3, <1>5, <1>7, <2>1 DEF InvoicesOK
<1>8. CASE n = 2
  <2>1. i2[1] = i[1]
    BY <1>5, <1>8, BothAttempts
  <2> QED
    BY <1>3, <1>5, <1>8, <2>1 DEF InvoicesOK
<1> QED
  BY <1>6, <1>7, <1>8

Put(f, p, q) == [f EXCEPT ![p] = q]

InvoiceFor(bid) ==
  [status |-> "pending", debtor |-> bid.bidder, hammer |-> bid.amount]

\* An invoice is issued.
LEMMA IssueChange ==
  ASSUME NEW h \in Hammered, NEW i, InvoicesOK(h, i), NEW n \in Attempts,
         NEW bid \in Bid, bid = IF n = 1 THEN h.leadingBid ELSE h.runnerUpBid, NEW i2
  PROVE  i2 = Put(i, n, InvoiceFor(bid)) =>
           /\ InvoicesOK(h, i2) /\ i2[n].status = "pending"
           /\ \A m \in Attempts \ {n} : i2[m] = i[m]
<1>0. SUFFICES ASSUME i2 = Put(i, n, InvoiceFor(bid))
               PROVE  /\ InvoicesOK(h, i2) /\ i2[n].status = "pending"
                      /\ \A m \in Attempts \ {n} : i2[m] = i[m]
  OBVIOUS
<1>1. i \in [Attempts -> Invoice]
  BY DEF InvoicesOK
<1>2. PICK v : v = InvoiceFor(bid)
  OBVIOUS
<1>3. v \in Invoice /\ v.status = "pending" /\ v.debtor = bid.bidder /\ v.hammer = bid.amount
  BY <1>2 DEF Invoice, Bid, InvoiceFor
<1>4. /\ i2 \in [Attempts -> Invoice] /\ i2[n] = v
      /\ \A m \in Attempts \ {n} : i2[m] = i[m]
  BY <1>0, <1>1, <1>2, <1>3 DEF Put
<1>5. n = 1 \/ n = 2
  BY DEF Attempts
<1>6. CASE n = 1
  <2>1. i2[2] = i[2]
    BY <1>4, <1>6, BothAttempts
  <2> QED
    BY <1>3, <1>4, <1>6, <2>1 DEF InvoicesOK
<1>7. CASE n = 2
  <2>1. i2[1] = i[1]
    BY <1>4, <1>7, BothAttempts
  <2> QED
    BY <1>3, <1>4, <1>7, <2>1 DEF InvoicesOK
<1> QED
  BY <1>5, <1>6, <1>7

\* ConfirmSettlement on a paid sale.
LEMMA ConfirmStep ==
  ASSUME NEW h, NEW r, NEW x, NEW i, NEW s, Consistent(h, r, x, i, s),
         i[1].status = "paid" \/ i[2].status = "paid",
         CanConfirm(r), NEW r2, r2 = Confirmed(r)
  PROVE  /\ Consistent(h, r2, x, i, s) /\ Later(r, x, i, s, r2, x, i, s)
         /\ r2.settled /\ r2.outcome = "sold"
<1>1. r \in AuctionRow /\ RowOK(h, r)
  BY DEF Consistent, RowOK
<1>2. /\ r2 \in AuctionRow /\ r2.status = r.status /\ r2.reserve = r.reserve
      /\ r2.relistGen = r.relistGen /\ r2.leadingBid = r.leadingBid
      /\ r2.runnerUpBid = r.runnerUpBid /\ r2.outcome = "sold"
      /\ r2.winnerReassigned = r.winnerReassigned
      /\ r2.settled = TRUE
  BY <1>1 DEF Confirmed, CanConfirm, AuctionRow
<1>3. ~r.settled /\ r.outcome = "sold"
  BY DEF CanConfirm
<1>4. RowOK(h, r2)
  BY <1>1, <1>2, <1>3 DEF RowOK
<1>5. ~Failed(r) /\ ~Failed(r2)
  BY <1>2, <1>3 DEF Failed
<1>6. WorldOK(h, r2, x, i)
  BY <1>2, <1>5, PaidFacts DEF Consistent, WorldOK
<1>7. SagaOK(h, r2, x, i, s)
  <2>1. ASSUME Records(h, r, x, i, s) PROVE Records(h, r2, x, i, s)
    BY <1>2, <1>5, <2>1 DEF Records
  <2> QED
    BY <2>1 DEF Consistent, SagaOK
<1>8. Later(r, x, i, s, r2, x, i, s)
  BY <1>2, <1>3 DEF Later
<1> QED
  BY <1>2, <1>4, <1>6, <1>7, <1>8 DEF Consistent

\* AwardToRunnerUp after the winner let the invoice expire.
LEMMA AwardStep ==
  ASSUME NEW h, NEW r, NEW x, NEW i, NEW s, Consistent(h, r, x, i, s),
         Q(h), i[1].status = "expired", CanAward(r), NEW r2, r2 = Awarded(r)
  PROVE  /\ Consistent(h, r2, x, i, s) /\ Later(r, x, i, s, r2, x, i, s)
         /\ r2.winnerReassigned /\ r2.leadingBid = h.runnerUpBid
<1>1. r \in AuctionRow /\ RowOK(h, r)
  BY DEF Consistent, RowOK
<1>2. /\ ~r.winnerReassigned /\ ~r.settled /\ r.outcome = "sold"
      /\ r.runnerUpBid = h.runnerUpBid /\ h.outcome = "sold"
  BY <1>1 DEF CanAward, RowOK
<1>3. /\ r2 \in AuctionRow /\ r2.status = r.status /\ r2.reserve = r.reserve
      /\ r2.relistGen = r.relistGen /\ r2.leadingBid = r.runnerUpBid
      /\ r2.runnerUpBid = ZeroBid /\ r2.outcome = r.outcome
      /\ r2.winnerReassigned = TRUE /\ r2.settled = r.settled
  <2>1. ZeroBid \in Bid /\ r.runnerUpBid \in Bid
    BY <1>1, RowTypes DEF ZeroBid, Bid
  <2> QED
    BY <1>1, <2>1 DEF Awarded, AuctionRow
<1>4. RowOK(h, r2)
  BY <1>1, <1>2, <1>3 DEF RowOK
<1>5. ~Failed(r) /\ ~Failed(r2) /\ x = NoRow
  BY <1>2, <1>3 DEF Failed, Consistent, WorldOK
<1>6. WorldOK(h, r2, x, i)
  BY <1>2, <1>3, <1>5 DEF Consistent, WorldOK
<1>7. SagaOK(h, r2, x, i, s)
  <2>1. ASSUME Records(h, r, x, i, s) PROVE Records(h, r2, x, i, s)
    BY <1>2, <1>3, <1>5, <2>1 DEF Records
  <2> QED
    BY <2>1 DEF Consistent, SagaOK
<1>8. Later(r, x, i, s, r2, x, i, s)
  BY <1>2, <1>3 DEF Later
<1> QED
  BY <1>2, <1>3, <1>4, <1>6, <1>7, <1>8 DEF Consistent

\* MarkSaleFailed once nobody can pay.
LEMMA FailStep ==
  ASSUME NEW h, NEW r, NEW x, NEW i, NEW s, Consistent(h, r, x, i, s), s # NoSaga,
         Dead(h, r, i), CanFailSale(r), NEW r2, r2 = SaleFailed(r)
  PROVE  /\ Consistent(h, r2, x, i, s) /\ Later(r, x, i, s, r2, x, i, s)
         /\ Failed(r2)
<1>1. r \in AuctionRow /\ RowOK(h, r) /\ ~r.settled /\ h.outcome = "sold"
  BY DEF Consistent, RowOK, CanFailSale, SagaOK, Remembers
<1>2. /\ r2 \in AuctionRow /\ r2.status = r.status /\ r2.reserve = r.reserve
      /\ r2.relistGen = r.relistGen /\ r2.leadingBid = r.leadingBid
      /\ r2.runnerUpBid = r.runnerUpBid /\ r2.outcome = "not_sold"
      /\ r2.winnerReassigned = r.winnerReassigned /\ r2.settled = TRUE
  BY <1>1 DEF SaleFailed, AuctionRow
<1>3. RowOK(h, r2)
  BY <1>1, <1>2 DEF RowOK
<1>4. Failed(r2) /\ ~Failed(r) /\ x = NoRow
  BY <1>1, <1>2 DEF Failed, Consistent, WorldOK
<1>5. Dead(h, r2, i)
  BY <1>2 DEF Dead
<1>6. WorldOK(h, r2, x, i)
  BY <1>2, <1>4, <1>5 DEF Consistent, WorldOK
<1>7. SagaOK(h, r2, x, i, s)
  <2>1. ASSUME Records(h, r, x, i, s) PROVE Records(h, r2, x, i, s)
    BY <1>1, <1>2, <1>4, <2>1 DEF Records
  <2> QED
    BY <2>1 DEF Consistent, SagaOK
<1>8. Later(r, x, i, s, r2, x, i, s)
  BY <1>1, <1>2 DEF Later
<1> QED
  BY <1>3, <1>4, <1>6, <1>7, <1>8 DEF Consistent

\* Relist of a failed original.
LEMMA RelistStep ==
  ASSUME NEW h, NEW r, NEW x, NEW i, NEW s, Consistent(h, r, x, i, s),
         Failed(r), h.relistGen = 0, NEW x2, x2 # NoRow
  PROVE  Consistent(h, r, x2, i, s) /\ Later(r, x, i, s, r, x2, i, s)
<1>1. WorldOK(h, r, x2, i)
  BY DEF Consistent, WorldOK
<1>2. SagaOK(h, r, x2, i, s)
  <2>1. ASSUME Records(h, r, x, i, s) PROVE Records(h, r, x2, i, s)
    BY <2>1 DEF Records
  <2> QED
    BY <2>1 DEF Consistent, SagaOK
<1>3. Later(r, x, i, s, r, x2, i, s)
  BY DEF Later
<1> QED
  BY <1>1, <1>2, <1>3 DEF Consistent

LEMMA RelistedRow ==
  ASSUME NEW r \in AuctionRow
  PROVE  /\ RelistedFrom(r, TheAuction, RelistWindow) \in AuctionRow
         /\ RelistedFrom(r, TheAuction, RelistWindow) # NoRow
<1>1. PICK rules : rules = StoredRules(r.rules)
  OBVIOUS
<1>2. rules \in ListingRules
  <2>1. r.rules \in ListingRules
    BY DEF AuctionRow
  <2>2. \A d \in Nat : WholeSeconds(d) \in Nat
    BY DomainAssumption DEF WholeSeconds
  <2> QED
    BY <1>1, <2>1, <2>2 DEF StoredRules, ListingRules
<1>3. NoRow \in AuctionRow
  BY DEF ZeroBid, Bid, NoRow, AuctionRow, ListingRules, Statuses
<1>4. PICK x : x = RelistedFrom(r, TheAuction, RelistWindow)
  OBVIOUS
<1>5. x \in AuctionRow /\ x.status = "listed"
  <2>1. /\ r.seller \in Users \cup {NoUser} /\ r.startPrice \in Nat /\ r.increment \in Nat
        /\ r.reserve \in Nat /\ r.relistGen + 1 \in Nat
    <3>1. r.startPrice \in Nat /\ r.increment \in Nat /\ r.reserve \in Nat
      BY DEF AuctionRow
    <3>2. r.relistGen + 1 \in Nat
      <4>1. r.relistGen \in Nat
        BY RowTypes
      <4> QED
        BY <4>1
    <3>3. r.seller \in Users \cup {NoUser}
      BY DEF AuctionRow
    <3> QED
      BY <3>1, <3>2, <3>3
  <2>2. RelistWindow.startsAt \in Nat /\ RelistWindow.endsAt \in Nat
        /\ TheAuction \in AuctionIDs \cup {NoAuctionID}
    BY SettlementAssumption
  <2> QED
    BY <1>1, <1>2, <1>3, <1>4, <2>1, <2>2 DEF RelistedFrom, Listing, AuctionRow, Statuses
<1>6. NoRow.status = "absent"
  BY DEF NoRow
<1> QED
  BY <1>4, <1>5, <1>6

-----------------------------------------------------------------------------
(* The transitions of the saga keep its record true and move it forward.   *)

Forward(s, s2) == s2 # s => Rank(s2.state) > Rank(s.state)

\* Commit writes s2 over s.
Advances(h, r, x, i, s, s2) ==
  /\ Consistent(h, r, x, i, s2) /\ Later(r, x, i, s, r, x, i, s2)
  /\ Forward(s, s2)

LEMMA Ranks ==
  /\ Rank("none") = 0 /\ Rank("Started") = 1 /\ Rank("AwaitingPayment") = 2
  /\ Rank("AwardingRunnerUp") = 3 /\ Rank("SecondChancePayment") = 4
  /\ Rank("Settled") = 5 /\ Rank("Relisted") = 5 /\ Rank("FailedUnsold") = 5
  BY DEF Rank, Terminal

LEMMA NoSagaFacts ==
  /\ NoSaga \notin Saga /\ NoSaga.state = "none" /\ NoSaga.attempt = 0
  /\ NoSaga.runnerUp = NoUser
<1>1. NoSaga.state = "none" /\ NoSaga.attempt = 0 /\ NoSaga.runnerUp = NoUser
  BY DEF NoSaga
<1>2. "none" \notin States
  BY DEF States, Terminal
<1> QED
  BY <1>1, <1>2 DEF Saga

LEMMA StaysPut ==
  ASSUME NEW h, NEW r, NEW x, NEW i, NEW s, Consistent(h, r, x, i, s)
  PROVE  Advances(h, r, x, i, s, s)
  BY LaterSame DEF Advances, Forward

\* t is what a commit may write over s: the columns of the closing stay.
SameClosing(s, t) ==
  /\ t \in Saga /\ t.hammer = s.hammer /\ t.runnerUp = s.runnerUp
  /\ t.runnerUpAmount = s.runnerUpAmount
  /\ t.runnerUpQualifies = s.runnerUpQualifies /\ t.relistGen = s.relistGen

Reasons == {"", "payment_timeout", "second_chance_declined"}

\* st is ahead of the saga and true of the world.
MayBecome(h, r, x, i, s, st) ==
  /\ st \in States /\ s.state \notin Terminal /\ Rank(st) > Rank(s.state)
  /\ s.attempt = 2 => st \in Terminal
  /\ st # "SecondChancePayment" /\ st # "Started" /\ i[1].status # "absent"
  /\ st = "AwardingRunnerUp" => r.winnerReassigned
  /\ st = "Settled" => r.settled /\ r.outcome = "sold"
  /\ st = "Relisted" => Failed(r) /\ x # NoRow
  /\ st = "FailedUnsold" => Failed(r) /\ h.relistGen = 1

\* A transition that only changes the state and the reason.
Became(s, st, rs) == [s EXCEPT !.state = st, !.reason = rs]

LEMMA StateStep ==
  ASSUME NEW h, NEW r, NEW x, NEW i, NEW s \in Saga, Consistent(h, r, x, i, s),
         NEW st, MayBecome(h, r, x, i, s, st), NEW rs \in Reasons, NEW s2
  PROVE  s2 = Became(s, st, rs) =>
           Advances(h, r, x, i, s, s2) /\ s2.state = st /\ SameClosing(s, s2)
<1>0. SUFFICES ASSUME s2 = Became(s, st, rs)
               PROVE  Advances(h, r, x, i, s, s2) /\ s2.state = st /\ SameClosing(s, s2)
  OBVIOUS
<1>1. /\ s2 \in Saga /\ s2.state = st /\ s2.winner = s.winner /\ s2.hammer = s.hammer
      /\ s2.runnerUp = s.runnerUp /\ s2.runnerUpAmount = s.runnerUpAmount
      /\ s2.runnerUpQualifies = s.runnerUpQualifies /\ s2.relistGen = s.relistGen
      /\ s2.attempt = s.attempt /\ s2.invoice = s.invoice
  BY <1>0 DEF Saga, MayBecome, Reasons, Became
<1>2. s # NoSaga /\ s2 # NoSaga
  BY <1>1, NoSagaFacts
<1>3. Remembers(h, s) /\ Records(h, r, x, i, s)
  BY <1>2 DEF Consistent, SagaOK
<1>4. Remembers(h, s2)
  BY <1>1, <1>3 DEF Remembers
<1>5. Records(h, r, x, i, s2)
  BY <1>1, <1>3 DEF Records, MayBecome
<1>6. Consistent(h, r, x, i, s2)
  BY <1>1, <1>2, <1>4, <1>5 DEF Consistent, SagaOK
<1>7. Later(r, x, i, s, r, x, i, s2)
  BY <1>1, <1>2 DEF Later, MayBecome
<1>8. Forward(s, s2)
  BY <1>1 DEF Forward, MayBecome
<1> QED
  BY <1>1, <1>6, <1>7, <1>8 DEF Advances, SameClosing

\* OnAuctionClosed inserts the saga.
LEMMA StartStep ==
  ASSUME NEW h \in Hammered, NEW r, NEW x, NEW i, Consistent(h, r, x, i, NoSaga),
         NEW e, NEW s2
  PROVE  e = AuctionClosed(h, h.endsAt) /\ RequiresSettlement(e) /\ s2 = Start(e) =>
           /\ Advances(h, r, x, i, NoSaga, s2) /\ s2 \in Saga /\ s2.state = "Started"
           /\ s2.attempt = 1
<1>0. SUFFICES ASSUME e = AuctionClosed(h, h.endsAt), RequiresSettlement(e), s2 = Start(e)
               PROVE  /\ Advances(h, r, x, i, NoSaga, s2) /\ s2 \in Saga
                      /\ s2.state = "Started" /\ s2.attempt = 1
  OBVIOUS
<1>1. /\ h \in AuctionRow /\ h.outcome \in {"sold", "not_sold"}
      /\ h.outcome = "sold" <=> Sold(h)
      /\ h.outcome = "sold" => h.leadingBid # ZeroBid
      /\ h.leadingBid # ZeroBid => h.leadingBid.bidder \in Users
      /\ h.runnerUpBid # ZeroBid => h.runnerUpBid.bidder \in Users
      /\ h.relistGen \in {0, 1}
      /\ h.leadingBid \in Bid /\ h.runnerUpBid \in Bid
  BY HammeredFacts
<1>2. h.outcome = "sold"
  BY <1>0 DEF AuctionClosed, RequiresSettlement
<1>3. /\ e.winner = h.leadingBid.bidder /\ e.hammer = h.leadingBid.amount
      /\ e.runnerUp = h.runnerUpBid.bidder /\ e.runnerUpAmount = h.runnerUpBid.amount
      /\ e.relistGen = h.relistGen
  BY <1>0, <1>1, <1>2 DEF AuctionClosed
<1>4. /\ s2.state = "Started" /\ s2.winner = h.leadingBid.bidder
      /\ s2.hammer = h.leadingBid.amount
      /\ s2.runnerUp = h.runnerUpBid.bidder /\ s2.runnerUpAmount = h.runnerUpBid.amount
      /\ s2.relistGen = h.relistGen
      /\ s2.attempt = 1 /\ s2.invoice = 1 /\ s2.reason = ""
  BY <1>0, <1>3 DEF Start
<1>q. e.runnerUpQualifies = Q(h) /\ s2.runnerUpQualifies = Q(h)
  BY <1>0 DEF AuctionClosed, Q, Start
<1>5. s2 \in Saga
  <2>1. Q(h) \in BOOLEAN
    BY DEF Q, RunnerUpQualifies
  <2>2. /\ h.leadingBid.bidder \in Users /\ h.leadingBid.amount \in Nat
        /\ h.runnerUpBid.bidder \in Users \cup {NoUser} /\ h.runnerUpBid.amount \in Nat
    BY <1>1, <1>2 DEF Bid
  <2>3. PICK a, b, c, d, f, k : /\ a = e.winner /\ b = e.hammer /\ c = e.runnerUp
                                /\ d = e.runnerUpAmount /\ f = e.runnerUpQualifies
                                /\ k = e.relistGen
    OBVIOUS
  <2>4. a \in Users /\ b \in Nat /\ c \in Users \cup {NoUser} /\ d \in Nat /\ k \in {0, 1}
    BY <1>1, <1>3, <2>2, <2>3
  <2>5. f \in BOOLEAN
    BY <1>q, <2>1, <2>3
  <2>6. s2 = [state |-> "Started", winner |-> a, hammer |-> b, runnerUp |-> c,
              runnerUpAmount |-> d, runnerUpQualifies |-> f, relistGen |-> k,
              attempt |-> 1, invoice |-> 1, reason |-> ""]
    BY <1>0, <2>3 DEF Start
  <2>7. "Started" \in States /\ 1 \in Attempts
    BY DEF States, Attempts
  <2> QED
    BY <2>4, <2>5, <2>6, <2>7 DEF Saga
<1>6. s2 # NoSaga
  BY <1>5, NoSagaFacts
<1>7. Remembers(h, s2)
  BY <1>2, <1>4, <1>q DEF Remembers
<1>8. Records(h, r, x, i, s2)
  <2>1. /\ s2.invoice = s2.attempt /\ s2.attempt # 2 /\ s2.state = "Started"
        /\ s2.winner = h.leadingBid.bidder
    <3>1. s2.state = "Started" /\ s2.winner = h.leadingBid.bidder
      BY <1>4, Zenon
    <3>2. s2.attempt = 1 /\ s2.invoice = 1
      BY <1>4, Zenon
    <3>3. s2.attempt # 2 /\ s2.invoice = s2.attempt
      BY <3>2
    <3> QED
      BY <3>1, <3>3
  <2> QED
    BY <2>1 DEF Records
<1>9. Consistent(h, r, x, i, s2)
  BY <1>5, <1>6, <1>7, <1>8 DEF Consistent, SagaOK
<1>10. Later(r, x, i, NoSaga, r, x, i, s2)
  <2>1. NoSaga.state \notin Terminal
    BY NoSagaFacts DEF Terminal
  <2> QED
    BY <2>1, NoSagaFacts DEF Later
<1>11. Forward(NoSaga, s2)
  <2>1. NoSaga.state = "none" /\ Rank("Started") > Rank("none")
    BY NoSagaFacts, Ranks
  <2> QED
    BY <1>4, <2>1 DEF Forward
<1> QED
  BY <1>4, <1>5, <1>9, <1>10, <1>11 DEF Advances

Written(s, t) ==
  [s EXCEPT !.state = t.state, !.winner = t.winner, !.attempt = t.attempt,
            !.invoice = t.invoice, !.reason = t.reason]

LEMMA WrittenIs ==
  ASSUME NEW s \in Saga, NEW t, SameClosing(s, t)
  PROVE  Written(s, t) = t
  BY DEF SameClosing, Written, Saga

LEMMA SameClosingSelf ==
  ASSUME NEW s \in Saga
  PROVE  SameClosing(s, s)
  BY DEF SameClosing

LEMMA StateOnly ==
  ASSUME NEW s \in Saga, NEW st
  PROVE  /\ s.reason \in Reasons
         /\ [s EXCEPT !.state = st] = Became(s, st, s.reason)
  BY DEF Saga, Reasons, Became

LEMMA InvoiceIssuedStep ==
  ASSUME NEW h, NEW r, NEW x, NEW i, NEW s \in Saga, Consistent(h, r, x, i, s),
         i[1].status # "absent", NEW n, NEW t
  PROVE  t = InvoiceIssued(s, n) => Advances(h, r, x, i, s, t) /\ SameClosing(s, t)
<1>0. SUFFICES ASSUME t = InvoiceIssued(s, n)
               PROVE  Advances(h, r, x, i, s, t) /\ SameClosing(s, t)
  OBVIOUS
<1>1. CASE s.state = "Started" /\ n = s.invoice
  <2>1. PICK rs : rs = s.reason
    OBVIOUS
  <2>2. t = Became(s, "AwaitingPayment", rs) /\ rs \in Reasons
    BY <1>0, <1>1, <2>1, StateOnly DEF InvoiceIssued
  <2>3. s.attempt # 2
    BY <1>1, NoSagaFacts DEF Consistent, SagaOK, Records, Terminal
  <2>4. MayBecome(h, r, x, i, s, "AwaitingPayment")
    BY <1>1, <2>3, Ranks DEF MayBecome, States, Terminal
  <2> QED
    BY <2>2, <2>4, StateStep
<1>2. CASE ~(s.state = "Started" /\ n = s.invoice)
  BY <1>0, <1>2, StaysPut, SameClosingSelf DEF InvoiceIssued
<1> QED
  BY <1>1, <1>2

LEMMA PaymentReceivedStep ==
  ASSUME NEW h, NEW r, NEW x, NEW i, NEW s \in Saga, Consistent(h, r, x, i, s),
         r.settled, r.outcome = "sold", NEW n, NEW t
  PROVE  t = PaymentReceived(s, n) => Advances(h, r, x, i, s, t) /\ SameClosing(s, t)
<1>0. SUFFICES ASSUME t = PaymentReceived(s, n)
               PROVE  Advances(h, r, x, i, s, t) /\ SameClosing(s, t)
  OBVIOUS
<1>1. CASE guardLiveInvoice(s, n)
  <2>1. PICK rs : rs = s.reason
    OBVIOUS
  <2>2. t = Became(s, "Settled", rs) /\ rs \in Reasons
    BY <1>0, <1>1, <2>1, StateOnly DEF PaymentReceived
  <2>3. s.state \in {"Started", "AwaitingPayment", "SecondChancePayment"}
    BY <1>1 DEF guardLiveInvoice
  <2>4. Rank("Settled") > Rank(s.state)
    BY <2>3, Ranks
  <2>5. i[1].status # "absent"
    BY DEF Consistent, WorldOK
  <2>6. MayBecome(h, r, x, i, s, "Settled")
    BY <2>3, <2>4, <2>5 DEF MayBecome, States, Terminal
  <2> QED
    BY <2>2, <2>6, StateStep
<1>2. CASE ~guardLiveInvoice(s, n)
  BY <1>0, <1>2, StaysPut, SameClosingSelf DEF PaymentReceived
<1> QED
  BY <1>1, <1>2

\* The compensation fork concludes.
LEMMA ConcludeStep ==
  ASSUME NEW h, NEW r, NEW x, NEW i, NEW s \in Saga, Consistent(h, r, x, i, s),
         NEW next \in {"relist", "fail"}, Failed(r),
         next = "relist" => x # NoRow, next = "fail" => h.relistGen = 1,
         NEW rs \in Reasons, NEW t
  PROVE  t = ApplyNextStep(s, next, rs) =>
           /\ Advances(h, r, x, i, s, t) /\ SameClosing(s, t)
           /\ t # s => t.state \in {"Relisted", "FailedUnsold"}
           /\ t = s => s.state \in {"AwardingRunnerUp"} \cup Terminal
<1>0. SUFFICES ASSUME t = ApplyNextStep(s, next, rs)
               PROVE  /\ Advances(h, r, x, i, s, t) /\ SameClosing(s, t)
                      /\ t # s => t.state \in {"Relisted", "FailedUnsold"}
                      /\ t = s => s.state \in {"AwardingRunnerUp"} \cup Terminal
  OBVIOUS
<1>1. CASE s.state \in {"Started", "AwaitingPayment", "SecondChancePayment"}
  <2>1. PICK st : st = IF next = "relist" THEN "Relisted" ELSE "FailedUnsold"
    OBVIOUS
  <2>2. st \in States /\ st \in Terminal /\ s.state \notin Terminal
    BY <1>1, <2>1 DEF States, Terminal
  <2>3. t = Became(s, st, rs)
    BY <1>0, <1>1, <2>1 DEF ApplyNextStep, Became
  <2>4. Rank(st) > Rank(s.state)
    BY <1>1, <2>1, Ranks
  <2>5. i[1].status # "absent"
    BY DEF Consistent, WorldOK, Dead
  <2>6. MayBecome(h, r, x, i, s, st)
    BY <2>1, <2>2, <2>4, <2>5 DEF MayBecome
  <2>7. Advances(h, r, x, i, s, t) /\ t.state = st /\ SameClosing(s, t)
    BY <2>3, <2>6, StateStep
  <2> QED
    BY <2>1, <2>2, <2>7
<1>2. CASE s.state \notin {"Started", "AwaitingPayment", "SecondChancePayment"}
  <2>1. t = s
    BY <1>0, <1>2 DEF ApplyNextStep
  <2>2. s.state \in {"AwardingRunnerUp"} \cup Terminal
    BY <1>2 DEF Saga, States
  <2> QED
    BY <2>1, <2>2, StaysPut, SameClosingSelf
<1> QED
  BY <1>1, <1>2

\* Or passes the lot on.
LEMMA AwardingStep ==
  ASSUME NEW h, NEW r, NEW x, NEW i, NEW s \in Saga, Consistent(h, r, x, i, s),
         r.winnerReassigned, NEW rs, NEW t
  PROVE  t = ApplyNextStep(s, "award", rs) =>
           Advances(h, r, x, i, s, t) /\ SameClosing(s, t)
<1>0. SUFFICES ASSUME t = ApplyNextStep(s, "award", rs)
               PROVE  Advances(h, r, x, i, s, t) /\ SameClosing(s, t)
  OBVIOUS
<1>1. CASE s.state \in {"Started", "AwaitingPayment"}
  <2>1. PICK u : u = s.reason
    OBVIOUS
  <2>2. t = Became(s, "AwardingRunnerUp", u) /\ u \in Reasons
    BY <1>0, <1>1, <2>1, StateOnly DEF ApplyNextStep
  <2>3. s.attempt # 2
    BY <1>1, NoSagaFacts DEF Consistent, SagaOK, Records, Terminal
  <2>4. Rank("AwardingRunnerUp") > Rank(s.state)
    BY <1>1, Ranks
  <2>5. i[1].status # "absent"
    BY DEF Consistent, WorldOK
  <2>6. MayBecome(h, r, x, i, s, "AwardingRunnerUp")
    BY <1>1, <2>3, <2>4, <2>5 DEF MayBecome, States, Terminal
  <2> QED
    BY <2>2, <2>6, StateStep
<1>2. CASE s.state \notin {"Started", "AwaitingPayment"}
  BY <1>0, <1>2, StaysPut, SameClosingSelf DEF ApplyNextStep
<1> QED
  BY <1>1, <1>2

\* The runner-up's invoice is out.
LEMMA SecondChanceStep ==
  ASSUME NEW h, NEW r, NEW x, NEW i, NEW s \in Saga, Consistent(h, r, x, i, s),
         r.winnerReassigned, i[2].status # "absent", h.runnerUpBid.bidder \in Users,
         NEW e, e.newWinner = h.runnerUpBid.bidder, NEW t
  PROVE  t = SecondChanceIssued(s, e) =>
           Advances(h, r, x, i, s, t) /\ SameClosing(s, t)
<1>0. SUFFICES ASSUME t = SecondChanceIssued(s, e)
               PROVE  Advances(h, r, x, i, s, t) /\ SameClosing(s, t)
  OBVIOUS
<1>1. CASE AwaitsReassignment(s)
  <2>1. PICK w : w = e.newWinner
    OBVIOUS
  <2>2. t = [s EXCEPT !.state = "SecondChancePayment", !.winner = w,
                      !.attempt = 2, !.invoice = 2]
    BY <1>0, <1>1, <2>1 DEF SecondChanceIssued
  <2>3. "SecondChancePayment" \in States /\ w \in Users /\ 2 \in Attempts
    BY <2>1 DEF States, Attempts
  <2>4. /\ t \in Saga /\ t.state = "SecondChancePayment" /\ t.winner = w
        /\ t.attempt = 2 /\ t.invoice = 2 /\ SameClosing(s, t)
    BY <2>2, <2>3 DEF Saga, SameClosing
  <2>5. s # NoSaga /\ t # NoSaga
    BY <2>4, NoSagaFacts
  <2>6. Remembers(h, t)
    BY <2>4, <2>5 DEF Consistent, SagaOK, Remembers, SameClosing
  <2>7. i[1].status # "absent"
    BY DEF Consistent, WorldOK
  <2>8. Records(h, r, x, i, t)
    BY <2>1, <2>4, <2>7 DEF Records
  <2>9. Consistent(h, r, x, i, t)
    BY <2>4, <2>5, <2>6, <2>8 DEF Consistent, SagaOK
  <2>10. s.state \in {"AwaitingPayment", "AwardingRunnerUp"} /\ s.state \notin Terminal
    BY <1>1 DEF AwaitsReassignment, Terminal
  <2>11. Later(r, x, i, s, r, x, i, t)
    BY <2>4, <2>5, <2>10 DEF Later
  <2>12. Rank("SecondChancePayment") > Rank(s.state)
    BY <2>10, Ranks
  <2> QED
    BY <2>4, <2>9, <2>11, <2>12 DEF Advances, Forward
<1>2. CASE ~AwaitsReassignment(s)
  BY <1>0, <1>2, StaysPut, SameClosingSelf DEF SecondChanceIssued
<1> QED
  BY <1>1, <1>2

-----------------------------------------------------------------------------
(* Queues and runs.                                                        *)

LEMMA MailLater ==
  ASSUME NEW h, NEW r, NEW x, NEW i, NEW s, NEW r2, NEW x2, NEW i2, NEW s2,
         Later(r, x, i, s, r2, x2, i2, s2), NEW b, NEW k, Mail(h, r, i, b, k)
  PROVE  Mail(h, r2, i2, b, k)
<1>1. \A g, e : Founded(h, r, i, g, e) => Founded(h, r2, i2, g, e)
  BY FoundedLater
<1> QED
  BY <1>1 DEF Mail

LEMMA RunsLater ==
  ASSUME NEW h, NEW r, NEW x, NEW i, NEW s, NEW r2, NEW x2, NEW i2, NEW s2,
         Later(r, x, i, s, r2, x2, i2, s2), NEW u, Runs(h, r, x, i, s, u)
  PROVE  Runs(h, r2, x2, i2, s2, u)
<1>1. \A p, q : RunOK(p, h, r, x, i, s, q) => RunOK(p, h, r2, x2, i2, s2, q)
  BY RunLater
<1> QED
  BY <1>1 DEF Runs

LEMMA RunsPut ==
  ASSUME NEW h, NEW r, NEW x, NEW i, NEW s, NEW u, Runs(h, r, x, i, s, u),
         NEW p \in Processes, NEW q \in HandlerRun, RunOK(p, h, r, x, i, s, q)
  PROVE  Runs(h, r, x, i, s, Put(u, p, q))
  BY DEF Runs, Put

LEMMA BusyPut ==
  ASSUME NEW b, NEW u \in [Processes -> HandlerRun], Busy(b, u),
         NEW p \in Processes, NEW q,
         p \in Requests \/ q.pc = "idle" \/ b[p] # <<>>
  PROVE  Busy(b, Put(u, p, q))
  BY SettlementAssumption DEF Busy, Put, Processes

\* An event at the head of a queue is founded.
LEMMA HeadFounded ==
  ASSUME NEW h, NEW r, NEW i, NEW b, NEW k, Mail(h, r, i, b, k),
         NEW g \in Groups, b[g] # <<>>
  PROVE  Head(b[g]) \in Msgs(h) /\ Founded(h, r, i, g, Head(b[g]))
<1>1. PICK m : m = b[g]
  OBVIOUS
<1>2. m \in Seq(Msgs(h)) /\ m # <<>>
  BY <1>1 DEF Mail
<1>3. Head(m) = m[1] /\ 1 \in 1 .. Len(m) /\ Head(m) \in Msgs(h)
  BY <1>2
<1> QED
  BY <1>1, <1>3 DEF Mail

LEMMA MailPublish ==
  ASSUME NEW h, NEW r, NEW i, NEW b, NEW k, Mail(h, r, i, b, k),
         NEW g \in Groups, NEW e \in Msgs(h), Founded(h, r, i, g, e),
         NEW b2, b2 = Put(b, g, Append(b[g], e))
  PROVE  Mail(h, r, i, b2, k) /\ \A u : Busy(b, u) => Busy(b2, u)
<1>1. PICK m, m2 : m = b[g] /\ m2 = Append(b[g], e)
  OBVIOUS
<1>2. b \in [Groups -> Seq(Msgs(h))] /\ m \in Seq(Msgs(h)) /\ m2 = Append(m, e)
  BY <1>1 DEF Mail
<1>3. m2 \in Seq(Msgs(h)) /\ m2 # <<>>
  BY <1>2
<1>4. \A n \in 1 .. Len(m2) : (n \in 1 .. Len(m) /\ m2[n] = m[n]) \/ m2[n] = e
  BY <1>2
<1>5. b2 \in [Groups -> Seq(Msgs(h))] /\ b2[g] = m2
      /\ \A f \in Groups \ {g} : b2[f] = b[f]
  BY <1>1, <1>2, <1>3 DEF Put
<1>6. \A n \in 1 .. Len(m2) : Founded(h, r, i, g, m2[n])
  BY <1>1, <1>4 DEF Mail
<1>7. ASSUME NEW f \in Groups, NEW n \in 1 .. Len(b2[f])
      PROVE  Founded(h, r, i, f, b2[f][n])
  <2>1. CASE f = g
    BY <1>5, <1>6, <1>7, <2>1
  <2>2. CASE f # g
    BY <1>5, <1>7, <2>2 DEF Mail
  <2> QED
    BY <2>1, <2>2
<1>8. Mail(h, r, i, b2, k)
  BY <1>5, <1>7 DEF Mail
<1>9. \A u : Busy(b, u) => Busy(b2, u)
  BY <1>3, <1>5 DEF Busy
<1> QED
  BY <1>8, <1>9

LEMMA MailTail ==
  ASSUME NEW h, NEW r, NEW i, NEW b, NEW k, Mail(h, r, i, b, k),
         NEW g \in Groups, b[g] # <<>>, NEW b2, b2 = Put(b, g, Tail(b[g]))
  PROVE  /\ Mail(h, r, i, b2, k)
         /\ \A u \in [Processes -> HandlerRun] : Busy(b, u) /\ u[g].pc = "idle" => Busy(b2, u)
<1>1. PICK m, m2 : m = b[g] /\ m2 = Tail(b[g])
  OBVIOUS
<1>2. /\ b \in [Groups -> Seq(Msgs(h))] /\ m \in Seq(Msgs(h)) /\ m2 = Tail(m)
      /\ m # <<>>
  BY <1>1 DEF Mail
<1>3. m2 \in Seq(Msgs(h)) /\ Len(m2) = Len(m) - 1
  BY <1>2
<1>4. \A n \in 1 .. Len(m2) : n + 1 \in 1 .. Len(m) /\ m2[n] = m[n + 1]
  BY <1>2, <1>3
<1>5. b2 \in [Groups -> Seq(Msgs(h))] /\ b2[g] = m2
      /\ \A f \in Groups \ {g} : b2[f] = b[f]
  BY <1>1, <1>2, <1>3 DEF Put
<1>6. \A n \in 1 .. Len(m2) : Founded(h, r, i, g, m2[n])
  BY <1>1, <1>4 DEF Mail
<1>7. ASSUME NEW f \in Groups, NEW n \in 1 .. Len(b2[f])
      PROVE  Founded(h, r, i, f, b2[f][n])
  <2>1. CASE f = g
    BY <1>5, <1>6, <1>7, <2>1
  <2>2. CASE f # g
    BY <1>5, <1>7, <2>2 DEF Mail
  <2> QED
    BY <2>1, <2>2
<1>8. Mail(h, r, i, b2, k)
  BY <1>5, <1>7 DEF Mail
<1>9. \A u \in [Processes -> HandlerRun] : Busy(b, u) /\ u[g].pc = "idle" => Busy(b2, u)
  BY <1>5 DEF Busy
<1> QED
  BY <1>8, <1>9

LEMMA MailPark ==
  ASSUME NEW h, NEW r, NEW i, NEW b, NEW k, Mail(h, r, i, b, k),
         NEW g \in Groups, NEW e \in Msgs(h), Founded(h, r, i, g, e)
  PROVE  Mail(h, r, i, b, k \cup {<<g, e>>})
  BY DEF Mail

LEMMA MailUnpark ==
  ASSUME NEW h, NEW r, NEW i, NEW b, NEW k, Mail(h, r, i, b, k), NEW m \in k
  PROVE  /\ m[1] \in Groups /\ m[2] \in Msgs(h) /\ Founded(h, r, i, m[1], m[2])
         /\ Mail(h, r, i, b, k \ {m})
  BY DEF Mail

LEMMA Names ==
  /\ Groups \subseteq Processes /\ Requests \subseteq Processes
  /\ "closed" \in Groups /\ "paid" \in Groups /\ "expired" \in Groups
  /\ "reassigned" \in Groups
  /\ \A p \in Requests : p \notin Groups
  BY SettlementAssumption DEF Groups, Processes

\* Which clause of RunOK speaks of a process.
LEMMA RunIs ==
  ASSUME NEW h, NEW r, NEW x, NEW i, NEW s, NEW q
  PROVE  /\ RunOK("closed", h, r, x, i, s, q) <=> ClosedRun(h, i, s, q)
         /\ RunOK("paid", h, r, x, i, s, q) <=> PaidRun(r, i, s, q)
         /\ RunOK("expired", h, r, x, i, s, q) <=> ExpiredRun(h, r, x, i, s, q)
         /\ RunOK("reassigned", h, r, x, i, s, q) <=> ReassignedRun(h, r, i, s, q)
         /\ \A p \in Requests : RunOK(p, h, r, x, i, s, q) <=> DeclineRun(h, r, x, i, s, q)
<1>1. \A p \in Requests : p # "closed" /\ p # "paid" /\ p # "expired" /\ p # "reassigned"
  BY Names
<1> QED
  BY <1>1 DEF RunOK

Acking == [Idle EXCEPT !.pc = "ack"]

Moved(q, pc) == [q EXCEPT !.pc = pc]

Begun(q, pc, s, next) == [pc |-> pc, saga |-> s, next |-> next, retries |-> q.retries]

Phases == {"idle", "issue", "confirm", "award", "void", "failSale", "relist",
           "commit", "ack"}

Verdicts == {"", "award", "relist", "fail"}

LEMMA VerdictNames ==
  /\ "award" \in Verdicts /\ "relist" \in Verdicts /\ "fail" \in Verdicts
  /\ \A next : next = "" => next \in Verdicts
  BY DEF Verdicts

LEMMA PhaseNames ==
  /\ "idle" \in Phases /\ "issue" \in Phases /\ "confirm" \in Phases
  /\ "award" \in Phases /\ "void" \in Phases /\ "failSale" \in Phases
  /\ "relist" \in Phases /\ "commit" \in Phases /\ "ack" \in Phases
  BY DEF Phases

LEMMA RunTypes ==
  /\ Idle \in HandlerRun /\ Idle.pc = "idle" /\ Idle.next = ""
  /\ Acking \in HandlerRun /\ Acking.pc = "ack" /\ Acking.next = ""
<1>1. 0 \in 0 .. MaxRetries
  BY SettlementAssumption
<1>2. Idle \in HandlerRun /\ Idle.pc = "idle" /\ Idle.next = ""
  BY <1>1 DEF Idle, HandlerRun
<1>3. Acking \in HandlerRun /\ Acking.pc = "ack" /\ Acking.next = ""
  BY <1>1 DEF Acking, Idle, HandlerRun
<1> QED
  BY <1>2, <1>3

LEMMA MovedIs ==
  ASSUME NEW v \in HandlerRun, NEW pc \in Phases, NEW q
  PROVE  q = Moved(v, pc) =>
           q \in HandlerRun /\ q.pc = pc /\ q.saga = v.saga /\ q.next = v.next
  BY DEF Moved, HandlerRun, Phases

LEMMA BegunIs ==
  ASSUME NEW v \in HandlerRun, NEW pc \in Phases, NEW s \in Saga,
         NEW next \in Verdicts, NEW q
  PROVE  q = Begun(v, pc, s, next) =>
           q \in HandlerRun /\ q.pc = pc /\ q.saga = s /\ q.next = next
<1>0. SUFFICES ASSUME q = Begun(v, pc, s, next)
               PROVE  q \in HandlerRun /\ q.pc = pc /\ q.saga = s /\ q.next = next
  OBVIOUS
<1>1. PICK n \in 0 .. MaxRetries : n = v.retries
  BY DEF HandlerRun
<1>2. q = [pc |-> pc, saga |-> s, next |-> next, retries |-> n]
  BY <1>0, <1>1 DEF Begun
<1> QED
  BY <1>1, <1>2 DEF HandlerRun, Phases, Verdicts

\* A handler that stands nowhere needs nothing.
LEMMA Resting ==
  ASSUME NEW h, NEW r, NEW x, NEW i, NEW s, NEW p \in Processes, NEW q,
         q.pc = "idle" \/ (q.pc = "ack" /\ p \in Groups), q.next = ""
  PROVE  RunOK(p, h, r, x, i, s, q)
<1>1. p \in Requests => q.pc = "idle"
  BY Names
<1> QED
  BY <1>1 DEF RunOK, ClosedRun, PaidRun, ExpiredRun, ReassignedRun, DeclineRun, Failing

-----------------------------------------------------------------------------
(* Every step, explained by the same hammered row.                         *)

\* The step leaves the contexts consistent and undoes nothing.
Progress(h) ==
  /\ replacement' \in AuctionRow
  /\ Consistent(h, row', replacement', invoices', saga')
  /\ Later(row, replacement, invoices, saga, row', replacement', invoices', saga')
  /\ Forward(saga, saga')

LEMMA NoProgress ==
  ASSUME NEW h, Explains(h), UNCHANGED world
  PROVE  Progress(h)
<1>1. Later(row, replacement, invoices, saga, row, replacement, invoices, saga)
  BY LaterSame
<1> QED
  BY <1>1 DEF Explains, Progress, Forward, world

\* One process moves to q.
LEMMA Handled ==
  ASSUME NEW h, Explains(h), Progress(h), NEW p \in Processes, NEW q \in HandlerRun,
         run' = Put(run, p, q),
         RunOK(p, h, row', replacement', invoices', saga', q),
         p \in Requests \/ q.pc = "idle" \/ inbox[p] # <<>>,
         UNCHANGED <<inbox, parked>>, crashes' \in 0 .. MaxCrashes,
         AnswersOK(invoices', saga', answers')
  PROVE  Explains(h)'
<1>1. /\ replacement' \in AuctionRow
      /\ Consistent(h, row', replacement', invoices', saga')
      /\ Later(row, replacement, invoices, saga, row', replacement', invoices', saga')
  BY DEF Progress
<1>2. Mail(h, row', invoices', inbox, parked)
  BY <1>1, MailLater DEF Explains
<1>3. Runs(h, row', replacement', invoices', saga', run)
  BY <1>1, RunsLater DEF Explains
<1>4. Runs(h, row', replacement', invoices', saga', Put(run, p, q))
  BY <1>3, RunsPut
<1>5. Busy(inbox, Put(run, p, q))
  <2>1. run \in [Processes -> HandlerRun] /\ Busy(inbox, run)
    BY DEF Explains, Runs
  <2> QED
    BY <2>1, BusyPut
<1> QED
  BY <1>1, <1>2, <1>4, <1>5 DEF Explains

\* The answers stay true.
LEMMA AnswersKept ==
  ASSUME NEW h, Explains(h), Progress(h)
  PROVE  AnswersOK(invoices', saga', answers)
  BY AnswersLater DEF Explains, Progress

LEMMA Parts ==
  ASSUME NEW h, Explains(h)
  PROVE  /\ Consistent(h, row, replacement, invoices, saga)
         /\ row \in AuctionRow /\ replacement \in AuctionRow
         /\ saga = NoSaga \/ saga \in Saga
         /\ run \in [Processes -> HandlerRun]
         /\ \A p \in Processes : /\ run[p] \in HandlerRun
                                 /\ RunOK(p, h, row, replacement, invoices, saga, run[p])
         /\ \A g \in Groups : run[g].pc # "idle" => inbox[g] # <<>>
         /\ \A g \in Groups : inbox[g] # <<>> =>
              Founded(h, row, invoices, g, Head(inbox[g]))
<1>1. /\ Consistent(h, row, replacement, invoices, saga) /\ replacement \in AuctionRow
      /\ run \in [Processes -> HandlerRun]
      /\ \A p \in Processes : RunOK(p, h, row, replacement, invoices, saga, run[p])
      /\ \A g \in Groups : run[g].pc # "idle" => inbox[g] # <<>>
  BY DEF Explains, Runs, Busy
<1>2. \A g \in Groups : inbox[g] # <<>> => Founded(h, row, invoices, g, Head(inbox[g]))
  BY HeadFounded DEF Explains
<1>3. row \in AuctionRow /\ (saga = NoSaga \/ saga \in Saga)
  BY <1>1 DEF Consistent, RowOK, SagaOK
<1> QED
  BY <1>1, <1>2, <1>3

\* One process moves, and no answer is given.
LEMMA Moving ==
  ASSUME NEW h, Explains(h), Progress(h), NEW p \in Processes, NEW q \in HandlerRun,
         run' = Put(run, p, q),
         RunOK(p, h, row', replacement', invoices', saga', q),
         p \in Requests \/ run[p].pc # "idle" \/ inbox[p] # <<>>,
         UNCHANGED <<inbox, parked, answers, crashes>>
  PROVE  Explains(h)'
<1>1. AnswersOK(invoices', saga', answers')
  BY AnswersKept
<1>2. crashes' \in 0 .. MaxCrashes
  BY DEF Explains
<1>3. p \in Requests \/ inbox[p] # <<>>
  BY Parts DEF Processes
<1> QED
  BY <1>1, <1>2, <1>3, Handled

\* A handler returns nil.
LEMMA Finishing ==
  ASSUME NEW h, Explains(h), Progress(h), NEW g \in Groups, inbox[g] # <<>>, Finish(g),
         UNCHANGED <<inbox, parked, answers, crashes>>
  PROVE  Explains(h)'
<1>1. run' = Put(run, g, Acking) /\ g \in Processes
  BY Names DEF Finish, Put, Acking
<1>2. Acking \in HandlerRun /\ Acking.pc = "ack" /\ Acking.next = ""
  BY RunTypes
<1>3. RunOK(g, h, row', replacement', invoices', saga', Acking)
  BY <1>1, <1>2, Resting
<1> QED
  BY <1>1, <1>2, <1>3, Moving

\* A transition is written and the handler returns.
LEMMA Committing ==
  ASSUME NEW h, Explains(h), NEW g \in Groups, NEW t, saga \in Saga,
         Advances(h, row, replacement, invoices, saga, t), SameClosing(saga, t),
         At(g, "commit"), saga' = Written(saga, t), Finish(g),
         UNCHANGED <<row, replacement, invoices, inbox, parked, answers, crashes>>
  PROVE  Progress(h) /\ Explains(h)'
<1>1. saga' = t
  BY WrittenIs
<1>2. Progress(h)
  BY <1>1 DEF Progress, Advances, Explains
<1>3. inbox[g] # <<>>
  BY Parts DEF At
<1> QED
  BY <1>2, <1>3, Finishing

LEMMA Begins ==
  ASSUME NEW h, Explains(h), NEW p \in Processes, NEW pc \in Phases, NEW s \in Saga,
         NEW next \in Verdicts, Begin(p, pc, s, next)
  PROVE  \E q \in HandlerRun :
           run' = Put(run, p, q) /\ q.pc = pc /\ q.saga = s /\ q.next = next
<1>1. PICK v : v = run[p]
  OBVIOUS
<1>2. v \in HandlerRun
  BY <1>1, Parts
<1>3. PICK q : q = Begun(v, pc, s, next)
  OBVIOUS
<1>4. run' = Put(run, p, q)
  BY <1>1, <1>3 DEF Begin, Put, Begun
<1>5. q \in HandlerRun /\ q.pc = pc /\ q.saga = s /\ q.next = next
  BY <1>2, <1>3, BegunIs
<1> QED
  BY <1>4, <1>5

LEMMA Goes ==
  ASSUME NEW h, Explains(h), NEW p \in Processes, NEW pc \in Phases, Goto(p, pc)
  PROVE  \E q \in HandlerRun :
           /\ run' = Put(run, p, q) /\ q.pc = pc
           /\ q.saga = run[p].saga /\ q.next = run[p].next
<1>1. PICK v : v = run[p]
  OBVIOUS
<1>2. v \in HandlerRun
  BY <1>1, Parts
<1>3. PICK q : q = Moved(v, pc)
  OBVIOUS
<1>4. run' = Put(run, p, q)
  BY <1>1, <1>3 DEF Goto, Put, Moved
<1>5. q \in HandlerRun /\ q.pc = pc /\ q.saga = v.saga /\ q.next = v.next
  BY <1>2, <1>3, MovedIs
<1> QED
  BY <1>1, <1>4, <1>5

LEMMA DecideClosedKeeps ==
  ASSUME NEW h \in Hammered, Explains(h), DecideClosed
  PROVE  Progress(h) /\ Explains(h)'
<1>1. PICK e : e = Head(inbox["closed"])
  OBVIOUS
<1>2. PICK s2 : s2 = IF saga = NoSaga THEN Start(e) ELSE saga
  OBVIOUS
<1>3. /\ At("closed", "idle") /\ inbox["closed"] # <<>>
      /\ UNCHANGED <<row, replacement, invoices, inbox, parked, answers, crashes>>
      /\ IF RequiresSettlement(e)
           THEN /\ saga' = s2
                /\ IF s2.state = "Started" THEN Begin("closed", "issue", s2, "")
                                           ELSE Finish("closed")
           ELSE Finish("closed") /\ saga' = saga
  BY <1>1, <1>2 DEF DecideClosed, Delivered, rest
<1>4. e = AuctionClosed(h, h.endsAt)
  BY <1>1, <1>3, Parts, Names DEF Founded
<1>5. CASE ~RequiresSettlement(e)
  <2>1. Progress(h)
    BY <1>3, <1>5, NoProgress DEF world
  <2> QED
    BY <1>3, <1>5, <2>1, Names, Finishing
<1>6. CASE RequiresSettlement(e)
  <2>1. Advances(h, row, replacement, invoices, saga, s2) /\ s2 \in Saga
    <3>1. CASE saga = NoSaga
      BY <1>2, <1>4, <1>6, <3>1, Parts, StartStep
    <3>2. CASE saga # NoSaga
      BY <1>2, <3>2, Parts, StaysPut
    <3> QED
      BY <3>1, <3>2
  <2>2. Progress(h)
    BY <1>3, <1>6, <2>1 DEF Progress, Advances, Explains
  <2>3. CASE s2.state # "Started"
    BY <1>3, <1>6, <2>2, <2>3, Names, Finishing
  <2>4. CASE s2.state = "Started"
    <3>1. PICK next : next = ""
      OBVIOUS
    <3>2. /\ "closed" \in Processes /\ "issue" \in Phases /\ next \in Verdicts
          /\ Begin("closed", "issue", s2, next)
      BY <1>3, <1>6, <2>4, <3>1, Names, PhaseNames, VerdictNames DEF Begin
    <3>3. PICK q \in HandlerRun :
            run' = Put(run, "closed", q) /\ q.pc = "issue" /\ q.saga = s2
      BY <2>1, <3>2, Begins
    <3>4. s2 # NoSaga /\ Remembers(h, s2) /\ Records(h, row, replacement, invoices, s2)
      BY <2>1, NoSagaFacts DEF Advances, Consistent, SagaOK
    <3>5. s2.attempt = 1
      BY <2>1, <2>4, <3>4 DEF Records, Saga, Attempts, Terminal
    <3>6. /\ s2.invoice = 1 /\ s2.winner = h.leadingBid.bidder
          /\ s2.hammer = h.leadingBid.amount
      BY <3>4, <3>5 DEF Records, Remembers
    <3>7. ClosedRun(h, invoices', saga', q)
      BY <1>3, <1>6, <3>3, <3>4, <3>6 DEF ClosedRun
    <3>8. RunOK("closed", h, row', replacement', invoices', saga', q)
      BY <3>7, RunIs
    <3> QED
      BY <1>3, <2>2, <3>2, <3>3, <3>8, Moving
  <2> QED
    BY <2>3, <2>4
<1> QED
  BY <1>5, <1>6

\* IssueInvoice of attempt n for the bid it bills.
LEMMA Issuing ==
  ASSUME NEW h \in Hammered, Explains(h), NEW n \in Attempts, saga # NoSaga,
         n = 2 => row.winnerReassigned, NEW bid \in Bid,
         bid = IF n = 1 THEN h.leadingBid ELSE h.runnerUpBid,
         IssueInvoice(n, bid.bidder, bid.amount), UNCHANGED <<row, replacement, saga>>
  PROVE  Progress(h) /\ invoices'[n].status # "absent"
<1>1. CASE invoices[n].status # "absent"
  BY <1>1, NoProgress DEF IssueInvoice, world
<1>2. CASE invoices[n].status = "absent"
  <2>1. PICK i2 : i2 = Put(invoices, n, InvoiceFor(bid))
    OBVIOUS
  <2>2. invoices' = i2
    BY <1>2, <2>1 DEF IssueInvoice, Put, InvoiceFor
  <2>3. Consistent(h, row, replacement, invoices, saga) /\ InvoicesOK(h, invoices)
    BY Parts DEF Consistent
  <2>4. /\ InvoicesOK(h, i2) /\ i2[n].status = "pending"
        /\ \A m \in Attempts \ {n} : i2[m] = invoices[m]
    BY <2>1, <2>3, IssueChange
  <2>5. InvoiceMoves(h, row, saga, invoices, i2, n)
    BY <1>2, <2>4 DEF InvoiceMoves
  <2>6. /\ Consistent(h, row, replacement, i2, saga)
        /\ Later(row, replacement, invoices, saga, row, replacement, i2, saga)
    BY <2>3, <2>5, InvoiceStep
  <2> QED
    BY <2>2, <2>4, <2>6 DEF Progress, Forward, Explains
<1> QED
  BY <1>1, <1>2

LEMMA IssueFirstKeeps ==
  ASSUME NEW h \in Hammered, Explains(h), IssueFirst
  PROVE  Progress(h) /\ Explains(h)'
<1>1. PICK s : s = run["closed"].saga
  OBVIOUS
<1>2. /\ run["closed"].pc = "issue" /\ IssueInvoice(s.invoice, s.winner, s.hammer)
      /\ Goto("closed", "commit")
      /\ UNCHANGED <<row, replacement, saga, inbox, parked, answers, crashes>>
  BY <1>1 DEF IssueFirst, At, rest
<1>3. "closed" \in Processes /\ run["closed"] \in HandlerRun
      /\ ClosedRun(h, invoices, saga, run["closed"])
  BY Parts, Names, RunIs
<1>4. /\ saga # NoSaga /\ s.invoice = 1
      /\ s.winner = h.leadingBid.bidder /\ s.hammer = h.leadingBid.amount
  BY <1>1, <1>2, <1>3 DEF ClosedRun
<1>5. h.leadingBid \in Bid
  BY HammeredFacts
<1>6. Progress(h) /\ invoices'[1].status # "absent"
  <2>1. PICK bid : bid = h.leadingBid
    OBVIOUS
  <2>2. IssueInvoice(1, bid.bidder, bid.amount)
    BY <1>2, <1>4, <2>1 DEF IssueInvoice
  <2> QED
    BY <1>2, <1>4, <1>5, <2>1, <2>2, BothAttempts, Issuing
<1>9. PICK q \in HandlerRun :
        run' = Put(run, "closed", q) /\ q.pc = "commit" /\ q.saga = s
  BY <1>1, <1>2, <1>3, Goes, PhaseNames
<1>10. ClosedRun(h, invoices', saga', q)
  BY <1>2, <1>4, <1>6, <1>9 DEF ClosedRun
<1>11. RunOK("closed", h, row', replacement', invoices', saga', q)
  BY <1>10, RunIs
<1> QED
  BY <1>2, <1>3, <1>6, <1>9, <1>11, Moving

LEMMA CommitClosedKeeps ==
  ASSUME NEW h \in Hammered, Explains(h), CommitClosed
  PROVE  Progress(h) /\ Explains(h)'
<1>1. PICK t, n : t = InvoiceIssued(saga, n) /\ n = run["closed"].saga.invoice
  OBVIOUS
<1>2. /\ At("closed", "commit") /\ saga' = Written(saga, t) /\ Finish("closed")
      /\ UNCHANGED <<row, replacement, invoices, inbox, parked, answers, crashes>>
  BY <1>1 DEF CommitClosed, Commit, Updated, Written, rest
<1>3. ClosedRun(h, invoices, saga, run["closed"])
  BY Parts, Names, RunIs
<1>4. saga \in Saga /\ invoices[1].status # "absent"
  BY <1>2, <1>3, Parts DEF ClosedRun, At
<1>5. Advances(h, row, replacement, invoices, saga, t) /\ SameClosing(saga, t)
  BY <1>1, <1>4, Parts, InvoiceIssuedStep
<1> QED
  BY <1>2, <1>4, <1>5, Names, Committing

LEMMA DecidePaidKeeps ==
  ASSUME NEW h \in Hammered, Explains(h), DecidePaid
  PROVE  Progress(h) /\ Explains(h)'
<1>1. PICK s, n, next : s = saga /\ n = Head(inbox["paid"]).invoice /\ next = ""
  OBVIOUS
<1>2. /\ inbox["paid"] # <<>> /\ s # NoSaga
      /\ IF guardLiveInvoice(s, n) THEN Begin("paid", "confirm", s, next) ELSE Finish("paid")
      /\ UNCHANGED <<row, replacement, invoices, saga, inbox, parked, answers, crashes>>
  BY <1>1 DEF DecidePaid, Delivered, Begin, rest
<1>3. Progress(h)
  BY <1>2, NoProgress DEF world
<1>4. CASE ~guardLiveInvoice(s, n)
  BY <1>2, <1>3, <1>4, Names, Finishing
<1>5. CASE guardLiveInvoice(s, n)
  <2>1. s \in Saga /\ "paid" \in Processes /\ "confirm" \in Phases /\ next \in Verdicts
    BY <1>1, <1>2, Parts, Names, PhaseNames, VerdictNames
  <2>2. PICK q \in HandlerRun : run' = Put(run, "paid", q) /\ q.pc = "confirm"
    BY <1>2, <1>5, <2>1, Begins
  <2>3. invoices[1].status = "paid" \/ invoices[2].status = "paid"
    BY <1>1, <1>2, Parts, Names DEF Founded, Attempts
  <2>4. PaidRun(row', invoices', saga', q)
    BY <1>1, <1>2, <2>2, <2>3 DEF PaidRun
  <2>5. RunOK("paid", h, row', replacement', invoices', saga', q)
    BY <2>4, RunIs
  <2> QED
    BY <1>2, <1>3, <2>1, <2>2, <2>5, Moving
<1> QED
  BY <1>4, <1>5

LEMMA ConfirmSaleKeeps ==
  ASSUME NEW h \in Hammered, Explains(h), ConfirmSale
  PROVE  Progress(h) /\ Explains(h)'
<1>1. /\ run["paid"].pc = "confirm" /\ Goto("paid", "commit")
      /\ UNCHANGED <<replacement, invoices, saga, inbox, parked, answers, crashes>>
      /\ \/ CanConfirm(row) /\ row' = Confirmed(row)
         \/ row.outcome = "sold" /\ row.settled /\ row' = row
  BY DEF ConfirmSale, At, rest
<1>2. /\ saga # NoSaga /\ "paid" \in Processes
      /\ invoices[1].status = "paid" \/ invoices[2].status = "paid"
  <2>1. PaidRun(row, invoices, saga, run["paid"]) /\ "paid" \in Processes
    BY Parts, Names, RunIs
  <2> QED
    BY <1>1, <2>1 DEF PaidRun
<1>3. Progress(h) /\ row'.settled /\ row'.outcome = "sold"
  <2>1. CASE CanConfirm(row) /\ row' = Confirmed(row)
    <3>1. /\ Consistent(h, row', replacement, invoices, saga)
          /\ Later(row, replacement, invoices, saga, row', replacement, invoices, saga)
          /\ row'.settled /\ row'.outcome = "sold"
      BY <1>2, <2>1, Parts, ConfirmStep
    <3> QED
      BY <1>1, <3>1 DEF Progress, Forward, Explains
  <2>2. CASE row.outcome = "sold" /\ row.settled /\ row' = row
    BY <1>1, <2>2, NoProgress DEF world
  <2> QED
    BY <1>1, <2>1, <2>2
<1>4. PICK q \in HandlerRun : run' = Put(run, "paid", q) /\ q.pc = "commit"
  BY <1>1, <1>2, Goes, PhaseNames
<1>5. PaidRun(row', invoices', saga', q)
  BY <1>1, <1>2, <1>3, <1>4 DEF PaidRun
<1>6. RunOK("paid", h, row', replacement', invoices', saga', q)
  BY <1>5, RunIs
<1> QED
  BY <1>1, <1>2, <1>3, <1>4, <1>6, Moving

LEMMA CommitPaidKeeps ==
  ASSUME NEW h \in Hammered, Explains(h), CommitPaid
  PROVE  Progress(h) /\ Explains(h)'
<1>1. PICK t, n : t = PaymentReceived(saga, n) /\ n = Head(inbox["paid"]).invoice
  OBVIOUS
<1>2. /\ At("paid", "commit") /\ saga' = Written(saga, t) /\ Finish("paid")
      /\ UNCHANGED <<row, replacement, invoices, inbox, parked, answers, crashes>>
  BY <1>1 DEF CommitPaid, Commit, Updated, Written, rest
<1>3. PaidRun(row, invoices, saga, run["paid"])
  BY Parts, Names, RunIs
<1>4. saga \in Saga /\ row.settled /\ row.outcome = "sold"
  BY <1>2, <1>3, Parts DEF PaidRun, At
<1>5. Advances(h, row, replacement, invoices, saga, t) /\ SameClosing(saga, t)
  BY <1>1, <1>4, Parts, PaymentReceivedStep
<1> QED
  BY <1>2, <1>4, <1>5, Names, Committing

\* The fork: the winner's invoice is dead and the runner-up is next, or
\* nobody is left.
LEMMA Fork ==
  ASSUME NEW h \in Hammered, Explains(h), saga \in Saga, NEW n,
         guardLiveInvoice(saga, n), n \in Attempts, invoices[n].status = "expired",
         NEW next, next = nextStepOnFailure(saga)
  PROVE  \/ next = "award" /\ Q(h) /\ invoices[1].status = "expired"
         \/ /\ next = IF h.relistGen = 0 THEN "relist" ELSE "fail"
            /\ Dead(h, row, invoices)
<1>1. /\ Remembers(h, saga) /\ Records(h, row, replacement, invoices, saga)
      /\ WorldOK(h, row, replacement, invoices)
  BY NoSagaFacts, Parts DEF Consistent, SagaOK
<1>2. n = saga.attempt /\ (n = 1 \/ n = 2)
  BY <1>1 DEF guardLiveInvoice, Records, Attempts
<1>3. (saga.runnerUpQualifies <=> Q(h)) /\ saga.relistGen = h.relistGen
  BY <1>1 DEF Remembers
<1>4. CASE n = 1 /\ Q(h)
  BY <1>2, <1>3, <1>4 DEF nextStepOnFailure
<1>5. CASE n = 1 /\ ~Q(h)
  <2>1. next = IF h.relistGen = 0 THEN "relist" ELSE "fail"
    BY <1>2, <1>3, <1>5 DEF nextStepOnFailure
  <2>2. Dead(h, row, invoices)
    BY <1>5 DEF Dead
  <2> QED
    BY <2>1, <2>2
<1>6. CASE n = 2
  <2>1. next = IF h.relistGen = 0 THEN "relist" ELSE "fail"
    BY <1>2, <1>3, <1>6 DEF nextStepOnFailure
  <2>2. Dead(h, row, invoices)
    BY <1>1, <1>2, <1>6 DEF Dead, Records, WorldOK
  <2> QED
    BY <2>1, <2>2
<1> QED
  BY <1>2, <1>4, <1>5, <1>6

LEMMA DecideExpiredKeeps ==
  ASSUME NEW h \in Hammered, Explains(h), DecideExpired
  PROVE  Progress(h) /\ Explains(h)'
<1>1. PICK s, n, next, pc : /\ s = saga /\ n = Head(inbox["expired"]).invoice
                            /\ next = nextStepOnFailure(saga) /\ pc = FirstEffect(next)
  OBVIOUS
<1>2. /\ inbox["expired"] # <<>> /\ s # NoSaga
      /\ IF guardLiveInvoice(s, n) THEN Begin("expired", pc, s, next) ELSE Finish("expired")
      /\ UNCHANGED <<row, replacement, invoices, saga, inbox, parked, answers, crashes>>
  BY <1>1 DEF DecideExpired, Delivered, Begin, rest
<1>3. Progress(h)
  BY <1>2, NoProgress DEF world
<1>4. CASE ~guardLiveInvoice(s, n)
  BY <1>2, <1>3, <1>4, Names, Finishing
<1>5. CASE guardLiveInvoice(s, n)
  <2>1. s \in Saga /\ saga \in Saga /\ "expired" \in Processes
    BY <1>1, <1>2, Parts, Names
  <2>2. n \in Attempts /\ invoices[n].status = "expired"
    BY <1>1, <1>2, Parts, Names DEF Founded
  <2>3. \/ next = "award" /\ Q(h) /\ invoices[1].status = "expired"
        \/ /\ next = IF h.relistGen = 0 THEN "relist" ELSE "fail"
           /\ Dead(h, row, invoices)
    BY <1>1, <1>5, <2>1, <2>2, Fork
  <2>4. /\ next \in Verdicts /\ pc \in Phases
        /\ pc = IF next = "award" THEN "award" ELSE "failSale"
    BY <1>1, <2>3, PhaseNames, VerdictNames DEF FirstEffect
  <2>5. PICK q \in HandlerRun : run' = Put(run, "expired", q) /\ q.pc = pc /\ q.next = next
    BY <1>2, <1>5, <2>1, <2>4, Begins
  <2>6. Failing(h, row, replacement, invoices, q)
    BY <2>3, <2>4, <2>5 DEF Failing
  <2>7. ExpiredRun(h, row', replacement', invoices', saga', q)
    BY <1>1, <1>2, <2>3, <2>4, <2>5, <2>6 DEF ExpiredRun
  <2>8. RunOK("expired", h, row', replacement', invoices', saga', q)
    BY <2>7, RunIs
  <2> QED
    BY <1>2, <1>3, <2>1, <2>5, <2>8, Moving
<1> QED
  BY <1>4, <1>5

LEMMA AwardRunnerUpKeeps ==
  ASSUME NEW h \in Hammered, Explains(h), AwardRunnerUp
  PROVE  Progress(h) /\ Explains(h)'
<1>1. /\ run["expired"].pc = "award" /\ Goto("expired", "commit")
      /\ UNCHANGED <<replacement, invoices, saga, parked, answers, crashes>>
      /\ \/ /\ CanAward(row) /\ row' = Awarded(row)
            /\ Publish("reassigned", WinnerReassigned(Awarded(row)))
         \/ row.winnerReassigned /\ UNCHANGED <<row, inbox>>
  BY DEF AwardRunnerUp, At, rest
<1>2. /\ saga # NoSaga /\ "expired" \in Processes /\ run["expired"].next = "award"
      /\ Q(h) /\ invoices[1].status = "expired" /\ inbox["expired"] # <<>>
  <2>1. /\ ExpiredRun(h, row, replacement, invoices, saga, run["expired"])
        /\ "expired" \in Processes
    BY Parts, Names, RunIs
  <2>2. inbox["expired"] # <<>>
    BY <1>1, Parts, Names
  <2> QED
    BY <1>1, <2>1, <2>2 DEF ExpiredRun
<1>3. PICK q \in HandlerRun :
        run' = Put(run, "expired", q) /\ q.pc = "commit" /\ q.next = "award"
  BY <1>1, <1>2, Goes, PhaseNames
<1>4. ASSUME row'.winnerReassigned
      PROVE  RunOK("expired", h, row', replacement', invoices', saga', q)
  <2>1. Failing(h, row', replacement', invoices', q)
    BY <1>3 DEF Failing
  <2>2. ExpiredRun(h, row', replacement', invoices', saga', q)
    BY <1>1, <1>2, <1>3, <1>4, <2>1 DEF ExpiredRun
  <2> QED
    BY <2>2, RunIs
<1>5. CASE row.winnerReassigned /\ UNCHANGED <<row, inbox>>
  <2>1. Progress(h)
    BY <1>1, <1>5, NoProgress DEF world
  <2>2. RunOK("expired", h, row', replacement', invoices', saga', q)
    BY <1>4, <1>5
  <2>3. Explains(h)'
    BY <1>1, <1>2, <1>3, <1>5, <2>1, <2>2, Moving
  <2> QED
    BY <2>1, <2>3
<1>6. CASE /\ CanAward(row) /\ row' = Awarded(row)
           /\ Publish("reassigned", WinnerReassigned(Awarded(row)))
  <2>1. PICK e : e = WinnerReassigned(Awarded(row))
    OBVIOUS
  <2>2. inbox' = Put(inbox, "reassigned", Append(inbox["reassigned"], e))
    BY <1>6, <2>1 DEF Publish, Put
  <2>3. /\ Consistent(h, row', replacement, invoices, saga)
        /\ Later(row, replacement, invoices, saga, row', replacement, invoices, saga)
        /\ row'.winnerReassigned /\ row'.leadingBid = h.runnerUpBid
    BY <1>2, <1>6, Parts, AwardStep
  <2>4. Progress(h)
    BY <1>1, <2>3 DEF Progress, Forward, Explains
  <2>5. e = [type |-> "WinnerReassigned", newWinner |-> h.runnerUpBid.bidder,
             price |-> h.runnerUpBid.amount]
    BY <1>6, <2>1, <2>3 DEF WinnerReassigned
  <2>6. Awarded(h).leadingBid = h.runnerUpBid
    BY HammeredFacts DEF Awarded, AuctionRow
  <2>7. e \in Msgs(h)
    BY <2>5, <2>6 DEF Msgs, WinnerReassigned
  <2>8. Founded(h, row', invoices', "reassigned", e)
    BY <2>3, <2>5 DEF Founded
  <2>9. Mail(h, row', invoices', inbox, parked)
    BY <1>1, <2>3, MailLater DEF Explains
  <2>10. /\ Mail(h, row', invoices', inbox', parked)
         /\ \A u : Busy(inbox, u) => Busy(inbox', u)
    BY <2>2, <2>7, <2>8, <2>9, Names, MailPublish
  <2>11. Runs(h, row', replacement', invoices', saga', run)
    BY <1>1, <2>3, RunsLater DEF Explains
  <2>12. Runs(h, row', replacement', invoices', saga', run')
    BY <1>2, <1>3, <1>4, <2>3, <2>11, RunsPut
  <2>13. Busy(inbox, run')
    <3>1. run \in [Processes -> HandlerRun] /\ Busy(inbox, run)
      BY DEF Explains, Runs
    <3> QED
      BY <1>2, <1>3, <3>1, BusyPut
  <2>14. AnswersOK(invoices', saga', answers')
    BY <1>1, <2>4, AnswersKept
  <2> QED
    BY <1>1, <2>4, <2>10, <2>12, <2>13, <2>14 DEF Explains, Progress
<1> QED
  BY <1>1, <1>5, <1>6

\* A run on the losing branch, of the expired group or of a request.
LEMMA LosingRun ==
  ASSUME NEW h, NEW r, NEW x, NEW i, NEW s, NEW p \in Requests \cup {"expired"},
         NEW q, RunOK(p, h, r, x, i, s, q), q.pc \in {"failSale", "relist"}
  PROVE  /\ s # NoSaga /\ Failing(h, r, x, i, q) /\ p \in Processes
         /\ p \in Requests => s.attempt = 2
<1>1. p \in Processes
  BY Names
<1>2. CASE p = "expired"
  <2>1. ExpiredRun(h, r, x, i, s, q)
    BY <1>2, RunIs
  <2>2. p \notin Requests
    BY <1>2, Names
  <2> QED
    BY <1>1, <2>1, <2>2 DEF ExpiredRun
<1>3. CASE p \in Requests
  <2>1. DeclineRun(h, r, x, i, s, q)
    BY <1>3, RunIs
  <2> QED
    BY <1>1, <2>1 DEF DeclineRun
<1> QED
  BY <1>2, <1>3

LEMMA LosingOn ==
  ASSUME NEW h, NEW r, NEW x, NEW i, NEW s, NEW p \in Requests \cup {"expired"},
         NEW q, s # NoSaga, Failing(h, r, x, i, q), p \in Requests => s.attempt = 2,
         q.pc \in {"relist", "commit"}, q.next # "award"
  PROVE  RunOK(p, h, r, x, i, s, q)
<1>1. CASE p = "expired"
  BY <1>1, RunIs DEF ExpiredRun
<1>2. CASE p \in Requests
  BY <1>2, RunIs DEF DeclineRun
<1> QED
  BY <1>1, <1>2

LEMMA FailSaleKeeps ==
  ASSUME NEW h \in Hammered, Explains(h), NEW p \in Requests \cup {"expired"}, FailSale(p)
  PROVE  Progress(h) /\ Explains(h)'
<1>1. PICK v, pc : v = run[p] /\ pc = IF run[p].next = "relist" THEN "relist" ELSE "commit"
  OBVIOUS
<1>2. /\ v.pc = "failSale" /\ Goto(p, pc)
      /\ UNCHANGED <<replacement, invoices, saga, inbox, parked, answers, crashes>>
      /\ \/ CanFailSale(row) /\ row' = SaleFailed(row)
         \/ row.outcome = "not_sold" /\ row' = row
  BY <1>1 DEF FailSale, At, rest, Goto
<1>3. /\ saga # NoSaga /\ p \in Processes /\ Failing(h, row, replacement, invoices, v)
      /\ p \in Requests => saga.attempt = 2
  <2>1. p \in Processes
    BY Names
  <2> QED
    BY <1>1, <1>2, <2>1, Parts, LosingRun
<1>4. /\ Dead(h, row, invoices)
      /\ v.next = IF h.relistGen = 0 THEN "relist" ELSE "fail"
  BY <1>2, <1>3 DEF Failing
<1>5. Progress(h) /\ Failed(row')
  <2>1. CASE CanFailSale(row) /\ row' = SaleFailed(row)
    <3>1. /\ Consistent(h, row', replacement, invoices, saga)
          /\ Later(row, replacement, invoices, saga, row', replacement, invoices, saga)
          /\ Failed(row')
      BY <1>3, <1>4, <2>1, Parts, FailStep
    <3> QED
      BY <1>2, <3>1 DEF Progress, Forward, Explains
  <2>2. CASE row.outcome = "not_sold" /\ row' = row
    <3>1. Progress(h)
      BY <1>2, <2>2, NoProgress DEF world
    <3>2. h.outcome = "sold" /\ RowOK(h, row)
      BY <1>3, Parts DEF Consistent, SagaOK, Remembers
    <3> QED
      BY <2>2, <3>1, <3>2 DEF RowOK, Failed
  <2> QED
    BY <1>2, <2>1, <2>2
<1>6. pc \in Phases /\ pc \in {"relist", "commit"}
  BY <1>1, PhaseNames
<1>7. PICK q \in HandlerRun : run' = Put(run, p, q) /\ q.pc = pc /\ q.next = v.next
  BY <1>1, <1>2, <1>3, <1>6, Goes
<1>8. Failing(h, row', replacement', invoices', q)
  BY <1>1, <1>4, <1>5, <1>7 DEF Failing
<1>9. RunOK(p, h, row', replacement', invoices', saga', q)
  BY <1>2, <1>3, <1>4, <1>6, <1>7, <1>8, LosingOn
<1>10. p \in Requests \/ run[p].pc # "idle"
  BY <1>1, <1>2
<1> QED
  BY <1>2, <1>3, <1>5, <1>7, <1>9, <1>10, Moving

LEMMA RelistSaleKeeps ==
  ASSUME NEW h \in Hammered, Explains(h), NEW p \in Requests \cup {"expired"}, RelistSale(p)
  PROVE  Progress(h) /\ Explains(h)'
<1>1. PICK v : v = run[p]
  OBVIOUS
<1>2. /\ v.pc = "relist" /\ Goto(p, "commit")
      /\ UNCHANGED <<row, invoices, saga, inbox, parked, answers, crashes>>
      /\ replacement' = IF replacement = NoRow
                          THEN RelistedFrom(row, TheAuction, RelistWindow)
                          ELSE replacement
  BY <1>1 DEF RelistSale, At, rest
<1>3. /\ saga # NoSaga /\ p \in Processes /\ Failing(h, row, replacement, invoices, v)
      /\ p \in Requests => saga.attempt = 2
  <2>1. p \in Processes
    BY Names
  <2> QED
    BY <1>1, <1>2, <2>1, Parts, LosingRun
<1>4. Failed(row) /\ v.next = "relist" /\ h.relistGen = 0
  BY <1>2, <1>3 DEF Failing
<1>5. replacement' \in AuctionRow /\ replacement' # NoRow
  BY <1>2, Parts, RelistedRow
<1>6. Progress(h)
  <2>1. /\ Consistent(h, row, replacement', invoices, saga)
        /\ Later(row, replacement, invoices, saga, row, replacement', invoices, saga)
    BY <1>4, <1>5, Parts, RelistStep
  <2> QED
    BY <1>2, <1>5, <2>1 DEF Progress, Forward
<1>7. PICK q \in HandlerRun : run' = Put(run, p, q) /\ q.pc = "commit" /\ q.next = "relist"
  BY <1>1, <1>2, <1>3, <1>4, Goes, PhaseNames
<1>8. Failing(h, row', replacement', invoices', q)
  BY <1>2, <1>4, <1>5, <1>7 DEF Failing
<1>9. RunOK(p, h, row', replacement', invoices', saga', q)
  BY <1>2, <1>3, <1>7, <1>8, LosingOn
<1>10. p \in Requests \/ run[p].pc # "idle"
  BY <1>1, <1>2
<1> QED
  BY <1>2, <1>3, <1>6, <1>7, <1>9, <1>10, Moving

LEMMA CommitExpiredKeeps ==
  ASSUME NEW h \in Hammered, Explains(h), CommitExpired
  PROVE  Progress(h) /\ Explains(h)'
<1>1. PICK t, next, rs : /\ t = ApplyNextStep(saga, next, rs)
                         /\ next = run["expired"].next /\ rs = "payment_timeout"
  OBVIOUS
<1>2. /\ At("expired", "commit") /\ saga' = Written(saga, t) /\ Finish("expired")
      /\ UNCHANGED <<row, replacement, invoices, inbox, parked, answers, crashes>>
  BY <1>1 DEF CommitExpired, Commit, Updated, Written, rest
<1>3. ExpiredRun(h, row, replacement, invoices, saga, run["expired"])
  BY Parts, Names, RunIs
<1>4. saga \in Saga
  BY <1>2, <1>3, Parts DEF ExpiredRun, At
<1>5. Advances(h, row, replacement, invoices, saga, t) /\ SameClosing(saga, t)
  <2>1. CASE next = "award"
    <3>1. row.winnerReassigned /\ t = ApplyNextStep(saga, "award", rs)
      BY <1>1, <1>2, <1>3, <2>1 DEF ExpiredRun, At
    <3> QED
      BY <1>4, <3>1, Parts, AwardingStep
  <2>2. CASE next # "award"
    <3>1. /\ Failed(row) /\ next = IF h.relistGen = 0 THEN "relist" ELSE "fail"
          /\ next = "relist" => replacement # NoRow
      BY <1>1, <1>2, <1>3, <2>2 DEF ExpiredRun, Failing, At
    <3>2. next \in {"relist", "fail"} /\ (next = "fail" => h.relistGen = 1)
      BY <3>1, HammeredFacts
    <3>3. rs \in Reasons
      BY <1>1 DEF Reasons
    <3> QED
      BY <1>1, <1>4, <3>1, <3>2, <3>3, Parts, ConcludeStep
  <2> QED
    BY <2>1, <2>2
<1> QED
  BY <1>2, <1>4, <1>5, Names, Committing

LEMMA DecideReassignedKeeps ==
  ASSUME NEW h \in Hammered, Explains(h), DecideReassigned
  PROVE  Progress(h) /\ Explains(h)'
<1>1. PICK s, next : s = saga /\ next = ""
  OBVIOUS
<1>2. /\ inbox["reassigned"] # <<>> /\ s # NoSaga
      /\ IF AwaitsReassignment(s) THEN Begin("reassigned", "issue", s, next)
                                  ELSE Finish("reassigned")
      /\ UNCHANGED <<row, replacement, invoices, saga, inbox, parked, answers, crashes>>
  BY <1>1 DEF DecideReassigned, Delivered, Begin, rest
<1>3. Progress(h)
  BY <1>2, NoProgress DEF world
<1>4. CASE ~AwaitsReassignment(s)
  BY <1>2, <1>3, <1>4, Names, Finishing
<1>5. CASE AwaitsReassignment(s)
  <2>1. s \in Saga /\ "reassigned" \in Processes /\ "issue" \in Phases /\ next \in Verdicts
    BY <1>1, <1>2, Parts, Names, PhaseNames, VerdictNames
  <2>2. PICK q \in HandlerRun :
          run' = Put(run, "reassigned", q) /\ q.pc = "issue" /\ q.saga = s
    BY <1>2, <1>5, <2>1, Begins
  <2>3. row.winnerReassigned
    BY <1>2, Parts, Names DEF Founded
  <2>4. s.runnerUp = h.runnerUpBid.bidder /\ s.runnerUpAmount = h.runnerUpBid.amount
    BY <1>1, <1>2, Parts DEF Consistent, SagaOK, Remembers
  <2>5. ReassignedRun(h, row', invoices', saga', q)
    BY <1>1, <1>2, <2>2, <2>3, <2>4 DEF ReassignedRun
  <2>6. RunOK("reassigned", h, row', replacement', invoices', saga', q)
    BY <2>5, RunIs
  <2> QED
    BY <1>2, <1>3, <2>1, <2>2, <2>6, Moving
<1> QED
  BY <1>4, <1>5

LEMMA IssueSecondKeeps ==
  ASSUME NEW h \in Hammered, Explains(h), IssueSecond
  PROVE  Progress(h) /\ Explains(h)'
<1>1. PICK s : s = run["reassigned"].saga
  OBVIOUS
<1>2. /\ run["reassigned"].pc = "issue" /\ IssueInvoice(2, s.runnerUp, s.runnerUpAmount)
      /\ Goto("reassigned", "commit")
      /\ UNCHANGED <<row, replacement, saga, inbox, parked, answers, crashes>>
  BY <1>1 DEF IssueSecond, At, rest
<1>3. /\ "reassigned" \in Processes /\ run["reassigned"] \in HandlerRun
      /\ ReassignedRun(h, row, invoices, saga, run["reassigned"])
  BY Parts, Names, RunIs
<1>4. /\ saga # NoSaga /\ row.winnerReassigned
      /\ s.runnerUp = h.runnerUpBid.bidder /\ s.runnerUpAmount = h.runnerUpBid.amount
  BY <1>1, <1>2, <1>3 DEF ReassignedRun
<1>5. h.runnerUpBid \in Bid
  BY HammeredFacts
<1>6. Progress(h) /\ invoices'[2].status # "absent"
  <2>1. PICK bid : bid = h.runnerUpBid
    OBVIOUS
  <2>2. IssueInvoice(2, bid.bidder, bid.amount)
    BY <1>2, <1>4, <2>1 DEF IssueInvoice
  <2> QED
    BY <1>2, <1>4, <1>5, <2>1, <2>2, BothAttempts, Issuing
<1>7. PICK q \in HandlerRun :
        run' = Put(run, "reassigned", q) /\ q.pc = "commit" /\ q.saga = s
  BY <1>1, <1>2, <1>3, Goes, PhaseNames
<1>8. ReassignedRun(h, row', invoices', saga', q)
  BY <1>2, <1>4, <1>6, <1>7 DEF ReassignedRun
<1>9. RunOK("reassigned", h, row', replacement', invoices', saga', q)
  BY <1>8, RunIs
<1> QED
  BY <1>2, <1>3, <1>6, <1>7, <1>9, Moving

LEMMA CommitReassignedKeeps ==
  ASSUME NEW h \in Hammered, Explains(h), CommitReassigned
  PROVE  Progress(h) /\ Explains(h)'
<1>1. PICK t, e : t = SecondChanceIssued(saga, e) /\ e = Head(inbox["reassigned"])
  OBVIOUS
<1>2. /\ At("reassigned", "commit") /\ saga' = Written(saga, t) /\ Finish("reassigned")
      /\ inbox["reassigned"] # <<>>
      /\ UNCHANGED <<row, replacement, invoices, inbox, parked, answers, crashes>>
  BY <1>1 DEF CommitReassigned, Commit, Updated, Written, rest
<1>3. ReassignedRun(h, row, invoices, saga, run["reassigned"])
  BY Parts, Names, RunIs
<1>4. saga \in Saga /\ row.winnerReassigned /\ invoices[2].status # "absent"
  BY <1>2, <1>3, Parts DEF ReassignedRun, At
<1>5. e.newWinner = h.runnerUpBid.bidder
  BY <1>1, <1>2, Parts, Names DEF Founded
<1>6. h.runnerUpBid.bidder \in Users
  <2>1. Q(h)
    BY <1>4, Parts DEF Consistent, RowOK
  <2> QED
    BY <2>1, HammeredFacts DEF Q, RunnerUpQualifies
<1>7. Advances(h, row, replacement, invoices, saga, t) /\ SameClosing(saga, t)
  BY <1>1, <1>4, <1>5, <1>6, Parts, SecondChanceStep
<1> QED
  BY <1>2, <1>4, <1>7, Names, Committing

\* A request for a saga that has concluded is told how it did.
LEMMA TellKeeps ==
  ASSUME NEW h, Explains(h), UNCHANGED <<world, inbox, run, parked, crashes>>,
         AnswersOK(invoices, saga, answers')
  PROVE  Progress(h) /\ Explains(h)'
<1>1. Progress(h)
  BY NoProgress
<1> QED
  BY <1>1 DEF Explains, Progress, world

\* What the saga's state says of the money.
LEMMA SettledWasPaid ==
  ASSUME NEW h, Explains(h), saga.state = "Settled"
  PROVE  invoices[1].status = "paid" \/ invoices[2].status = "paid"
<1>1. saga # NoSaga
  BY NoSagaFacts
<1> QED
  BY <1>1, Parts DEF Consistent, SagaOK, Records, WorldOK

LEMMA DecideDeclineKeeps ==
  ASSUME NEW h \in Hammered, Explains(h), NEW p \in Requests, NEW actor \in Users,
         DecideDecline(p, actor)
  PROVE  Progress(h) /\ Explains(h)'
<1>1. PICK s, next : s = saga /\ next = nextStepOnFailure(saga)
  OBVIOUS
<1>2. /\ actor = s.runnerUp
      /\ UNCHANGED <<world, inbox, parked, crashes>>
      /\ IF CanRunnerUpDecline(actor, s)
           THEN Begin(p, "void", s, next) /\ UNCHANGED answers
           ELSE /\ s.state \in Terminal /\ UNCHANGED run
                /\ Tell(declineOutcome(DeclineVerdict(s)))
  BY <1>1 DEF DecideDecline, Begin
<1>3. s \in Saga /\ saga \in Saga /\ p \in Processes
  <2>1. s # NoSaga
    BY <1>2, NoSagaFacts, DomainAssumption
  <2> QED
    BY <1>1, <2>1, Parts, Names
<1>4. /\ Remembers(h, saga) /\ Records(h, row, replacement, invoices, saga)
  BY <1>3, NoSagaFacts, Parts DEF Consistent, SagaOK
<1>5. CASE CanRunnerUpDecline(actor, s)
  <2>1. s.state = "SecondChancePayment" /\ s.attempt = 2 /\ s.invoice = 2
    BY <1>1, <1>4, <1>5 DEF CanRunnerUpDecline, Records
  <2>2. next = IF h.relistGen = 0 THEN "relist" ELSE "fail"
    BY <1>1, <1>4, <2>1 DEF nextStepOnFailure, Remembers
  <2>3. next \in Verdicts /\ "void" \in Phases /\ next # "award"
    BY <2>2, VerdictNames, PhaseNames
  <2>4. PICK q \in HandlerRun :
          run' = Put(run, p, q) /\ q.pc = "void" /\ q.saga = s /\ q.next = next
    BY <1>2, <1>3, <1>5, <2>3, Begins
  <2>5. Failing(h, row', replacement', invoices', q)
    BY <2>4 DEF Failing
  <2>6. DeclineRun(h, row', replacement', invoices', saga', q)
    BY <1>1, <1>2, <1>3, <2>1, <2>2, <2>3, <2>4, <2>5, NoSagaFacts DEF DeclineRun, world
  <2>7. RunOK(p, h, row', replacement', invoices', saga', q)
    BY <2>6, RunIs
  <2>8. Progress(h)
    BY <1>2, NoProgress
  <2> QED
    BY <1>2, <1>3, <1>5, <2>4, <2>7, <2>8, Moving
<1>6. CASE ~CanRunnerUpDecline(actor, s)
  <2>1. PICK verdict : verdict = declineOutcome(DeclineVerdict(s))
    OBVIOUS
  <2>2. answers' = answers \cup {verdict} /\ s.state \in Terminal /\ UNCHANGED run
    BY <1>2, <1>6, <2>1 DEF Tell
  <2>3. AnswersOK(invoices, saga, answers)
    BY DEF Explains
  <2>4. CASE s.state = "Settled"
    <3>1. verdict = "offer-already-paid"
      BY <2>1, <2>4 DEF declineOutcome, DeclineVerdict
    <3>2. invoices[1].status = "paid" \/ invoices[2].status = "paid"
      BY <1>1, <2>4, SettledWasPaid
    <3>3. AnswersOK(invoices, saga, answers')
      BY <2>2, <2>3, <3>1, <3>2 DEF AnswersOK
    <3> QED
      BY <1>2, <2>2, <3>3, TellKeeps
  <2>5. CASE s.state # "Settled"
    <3>1. verdict = "declined"
      BY <2>1, <2>5 DEF declineOutcome, DeclineVerdict
    <3>2. saga.state \in {"Relisted", "FailedUnsold"}
      BY <1>1, <2>2, <2>5 DEF Terminal
    <3>3. AnswersOK(invoices, saga, answers')
      BY <2>2, <2>3, <3>1, <3>2 DEF AnswersOK
    <3> QED
      BY <1>2, <2>2, <3>3, TellKeeps
  <2> QED
    BY <2>4, <2>5
<1> QED
  BY <1>5, <1>6

\* A request is answered with verdict and gone.
LEMMA Answering ==
  ASSUME NEW h, Explains(h), Progress(h), NEW p \in Requests, Answer(p), NEW verdict,
         answers' = answers \cup {verdict}, UNCHANGED <<inbox, parked, crashes>>,
         AnswersOK(invoices', saga', answers \cup {verdict})
  PROVE  Explains(h)'
<1>1. run' = Put(run, p, Idle) /\ p \in Processes
  BY Names DEF Answer, Put
<1>2. Idle \in HandlerRun /\ Idle.pc = "idle" /\ Idle.next = ""
  BY RunTypes
<1>3. RunOK(p, h, row', replacement', invoices', saga', Idle)
  BY <1>1, <1>2, Resting
<1>4. crashes' \in 0 .. MaxCrashes
  BY DEF Explains
<1> QED
  BY <1>1, <1>2, <1>3, <1>4, Handled

LEMMA VoidInvoiceKeeps ==
  ASSUME NEW h \in Hammered, Explains(h), NEW p \in Requests, VoidInvoice(p)
  PROVE  Progress(h) /\ Explains(h)'
<1>1. PICK v, n : v = run[p] /\ n = run[p].saga.invoice
  OBVIOUS
<1>2. v.pc = "void" /\ UNCHANGED <<row, replacement, saga, inbox, parked, crashes>>
  BY <1>1 DEF VoidInvoice, At
<1>3. p \in Processes /\ DeclineRun(h, row, replacement, invoices, saga, v)
  <2>1. p \in Processes
    BY Names
  <2> QED
    BY <1>1, <2>1, Parts, RunIs
<1>4. /\ saga # NoSaga /\ saga.attempt = 2 /\ n = 2 /\ v.next # "award"
      /\ v.next = IF h.relistGen = 0 THEN "relist" ELSE "fail"
  BY <1>1, <1>2, <1>3 DEF DeclineRun
<1>5. /\ CASE invoices[2].status = "pending" ->
                /\ invoices' = Concluded(invoices, 2, "voided")
                /\ Goto(p, "failSale")
           [] invoices[2].status \in {"voided", "expired"} ->
                Goto(p, "failSale") /\ UNCHANGED invoices
           [] invoices[2].status = "paid" ->
                Answer(p) /\ UNCHANGED invoices
      /\ IF invoices[2].status = "paid" THEN Tell("offer-already-paid")
                                        ELSE UNCHANGED answers
  BY <1>1, <1>4 DEF VoidInvoice, Concluded
<1>6. /\ Consistent(h, row, replacement, invoices, saga)
      /\ invoices[2].status # "absent" /\ row.winnerReassigned
      /\ invoices[1].status = "expired"
  <2>1. Consistent(h, row, replacement, invoices, saga)
    BY Parts
  <2>2. Records(h, row, replacement, invoices, saga)
    BY <1>4, <2>1 DEF Consistent, SagaOK
  <2> QED
    BY <1>4, <2>1, <2>2 DEF Consistent, WorldOK, Records
<1>7. invoices[2].status \in {"pending", "paid", "expired", "voided"}
  BY <1>6, BothAttempts DEF Consistent, InvoicesOK, Invoice
<1>8. CASE invoices[2].status = "paid"
  <2>1. Answer(p) /\ UNCHANGED invoices /\ Tell("offer-already-paid")
    BY <1>5, <1>8
  <2>2. Progress(h)
    BY <1>2, <2>1, NoProgress DEF world
  <2>3. AnswersOK(invoices', saga', answers \cup {"offer-already-paid"})
    BY <1>2, <1>8, <2>1 DEF AnswersOK, Explains
  <2> QED
    BY <1>2, <2>1, <2>2, <2>3, Answering DEF Tell
<1>9. CASE invoices[2].status # "paid"
  <2>1. Goto(p, "failSale") /\ UNCHANGED answers
    BY <1>5, <1>7, <1>9
  <2>2. Progress(h) /\ Dead(h, row', invoices')
    <3>1. CASE invoices[2].status = "pending"
      <4>1. PICK i2 : i2 = Concluded(invoices, 2, "voided")
        OBVIOUS
      <4>2. invoices' = i2
        BY <1>5, <3>1, <4>1
      <4>3. /\ InvoicesOK(h, i2) /\ i2[2].status = "voided"
            /\ \A m \in Attempts \ {2} : i2[m] = invoices[m]
        BY <1>6, <4>1, BothAttempts, StatusChange DEF Consistent
      <4>4. InvoiceMoves(h, row, saga, invoices, i2, 2)
        BY <3>1, <4>3 DEF InvoiceMoves
      <4>5. /\ Consistent(h, row, replacement, i2, saga)
            /\ Later(row, replacement, invoices, saga, row, replacement, i2, saga)
        BY <1>6, <4>4, BothAttempts, InvoiceStep
      <4>6. Progress(h)
        BY <1>2, <4>2, <4>5 DEF Progress, Forward, Explains
      <4>7. Dead(h, row', invoices')
        BY <1>2, <1>6, <4>2, <4>3, BothAttempts DEF Dead
      <4> QED
        BY <4>6, <4>7
    <3>2. CASE invoices[2].status # "pending"
      <4>1. UNCHANGED invoices
        BY <1>5, <1>7, <1>9, <3>2
      <4>2. Progress(h)
        BY <1>2, <4>1, NoProgress DEF world
      <4>3. Dead(h, row', invoices')
        BY <1>2, <1>6, <1>7, <1>9, <3>2, <4>1 DEF Dead
      <4> QED
        BY <4>2, <4>3
    <3> QED
      BY <3>1, <3>2
  <2>3. PICK q \in HandlerRun : run' = Put(run, p, q) /\ q.pc = "failSale" /\ q.next = v.next
    BY <1>1, <1>3, <2>1, Goes, PhaseNames
  <2>4. Failing(h, row', replacement', invoices', q)
    BY <1>4, <2>2, <2>3 DEF Failing
  <2>5. DeclineRun(h, row', replacement', invoices', saga', q)
    BY <1>2, <1>4, <2>3, <2>4 DEF DeclineRun
  <2>6. RunOK(p, h, row', replacement', invoices', saga', q)
    BY <2>5, RunIs
  <2> QED
    BY <1>2, <1>3, <2>1, <2>2, <2>3, <2>6, Moving
<1> QED
  BY <1>8, <1>9

LEMMA CommitDeclineKeeps ==
  ASSUME NEW h \in Hammered, Explains(h), NEW p \in Requests, CommitDecline(p)
  PROVE  Progress(h) /\ Explains(h)'
<1>1. PICK t, next, rs : /\ t = ApplyNextStep(saga, next, rs)
                         /\ next = run[p].next /\ rs = "second_chance_declined"
  OBVIOUS
<1>2. /\ run[p].pc = "commit" /\ saga' = Written(saga, t) /\ Answer(p)
      /\ UNCHANGED <<row, replacement, invoices, inbox, parked, crashes>>
      /\ Tell(IF t # saga THEN "declined" ELSE declineOutcome(DeclineVerdict(saga)))
  BY <1>1 DEF CommitDecline, Updated, Written, At
<1>3. DeclineRun(h, row, replacement, invoices, saga, run[p])
  <2>1. p \in Processes
    BY Names
  <2> QED
    BY <2>1, Parts, RunIs
<1>4. saga \in Saga /\ saga.attempt = 2
  BY <1>2, <1>3, Parts DEF DeclineRun
<1>5. /\ Failed(row) /\ next = IF h.relistGen = 0 THEN "relist" ELSE "fail"
      /\ next = "relist" => replacement # NoRow
  BY <1>1, <1>2, <1>3 DEF DeclineRun, Failing
<1>6. next \in {"relist", "fail"} /\ (next = "fail" => h.relistGen = 1) /\ rs \in Reasons
  BY <1>1, <1>5, HammeredFacts DEF Reasons
<1>7. /\ Advances(h, row, replacement, invoices, saga, t) /\ SameClosing(saga, t)
      /\ t # saga => t.state \in {"Relisted", "FailedUnsold"}
      /\ t = saga => saga.state \in {"AwardingRunnerUp"} \cup Terminal
  BY <1>1, <1>4, <1>5, <1>6, Parts, ConcludeStep
<1>8. saga' = t
  BY <1>2, <1>4, <1>7, WrittenIs
<1>9. Progress(h)
  BY <1>2, <1>7, <1>8 DEF Progress, Advances, Explains
<1>10. t = saga => saga.state \in {"Relisted", "FailedUnsold"}
  <2>1. Records(h, row, replacement, invoices, saga)
    BY <1>4, NoSagaFacts, Parts DEF Consistent, SagaOK
  <2>2. saga.state # "AwardingRunnerUp"
    BY <1>4, <2>1 DEF Records, Terminal
  <2>3. saga.state # "Settled"
    BY <1>5, <2>1 DEF Records, Failed
  <2> QED
    BY <1>7, <2>2, <2>3 DEF Terminal
<1>11. answers' = answers \cup {"declined"}
  <2>1. t = saga => declineOutcome(DeclineVerdict(saga)) = "declined"
    BY <1>10 DEF declineOutcome, DeclineVerdict
  <2> QED
    BY <1>2, <2>1 DEF Tell
<1>12. AnswersOK(invoices', saga', answers \cup {"declined"})
  <2>1. AnswersOK(invoices', saga', answers)
    BY <1>9, AnswersKept
  <2> QED
    BY <1>7, <1>8, <1>10, <2>1 DEF AnswersOK
<1> QED
  BY <1>2, <1>9, <1>11, <1>12, Answering

\* The event leaves the queue, into the dead letter or for good.
LEMMA Dequeued ==
  ASSUME NEW h, Explains(h), UNCHANGED world, NEW g \in Groups, inbox[g] # <<>>,
         Answer(g), inbox' = Put(inbox, g, Tail(inbox[g])),
         Mail(h, row, invoices, inbox, parked'),
         UNCHANGED answers, crashes' \in 0 .. MaxCrashes
  PROVE  Progress(h) /\ Explains(h)'
<1>1. Progress(h)
  BY NoProgress
<1>2. UNCHANGED <<row, replacement, invoices, saga>>
  BY DEF world
<1>3. PICK u : u = Put(run, g, Idle)
  OBVIOUS
<1>4. run' = u /\ g \in Processes
  BY <1>3, Names DEF Answer, Put
<1>5. Idle \in HandlerRun /\ Idle.pc = "idle" /\ Idle.next = ""
  BY RunTypes
<1>6. RunOK(g, h, row, replacement, invoices, saga, Idle)
  BY <1>4, <1>5, Resting
<1>7. Runs(h, row, replacement, invoices, saga, u)
  BY <1>3, <1>4, <1>5, <1>6, RunsPut DEF Explains
<1>8. Busy(inbox, u)
  <2>1. run \in [Processes -> HandlerRun] /\ Busy(inbox, run)
    BY DEF Explains, Runs
  <2> QED
    BY <1>3, <1>4, <1>5, <2>1, BusyPut
<1>9. u \in [Processes -> HandlerRun] /\ u[g].pc = "idle"
  BY <1>3, <1>4, <1>5, Parts DEF Put
<1>10. Mail(h, row, invoices, inbox', parked') /\ Busy(inbox', u)
  BY <1>8, <1>9, MailTail
<1> QED
  BY <1>1, <1>2, <1>4, <1>7, <1>10 DEF Explains

LEMMA AckKeeps ==
  ASSUME NEW h \in Hammered, Explains(h), NEW g \in Groups, Ack(g)
  PROVE  Progress(h) /\ Explains(h)'
<1>1. /\ inbox[g] # <<>> /\ Answer(g) /\ UNCHANGED <<world, parked, answers, crashes>>
      /\ inbox' = Put(inbox, g, Tail(inbox[g]))
  BY Parts DEF Ack, At, Put, rest, world
<1>2. Mail(h, row, invoices, inbox, parked') /\ crashes' \in 0 .. MaxCrashes
  BY <1>1 DEF Explains
<1> QED
  BY <1>1, <1>2, Dequeued

LEMMA OneCrash ==
  ASSUME NEW h, Explains(h), crashes < MaxCrashes, crashes' = crashes + 1
  PROVE  crashes' \in 0 .. MaxCrashes
<1>1. crashes \in 0 .. MaxCrashes /\ MaxCrashes \in Nat
  BY SettlementAssumption DEF Explains
<1> QED
  BY <1>1

LEMMA CrashKeeps ==
  ASSUME NEW h \in Hammered, Explains(h), NEW p \in Processes, Crash(p)
  PROVE  Progress(h) /\ Explains(h)'
<1>1. /\ run' = Put(run, p, Idle) /\ UNCHANGED <<world, inbox, parked, answers>>
      /\ crashes' \in 0 .. MaxCrashes
  BY OneCrash DEF Crash, Answer, Put
<1>2. Idle \in HandlerRun /\ Idle.pc = "idle" /\ Idle.next = ""
  BY RunTypes
<1>3. RunOK(p, h, row', replacement', invoices', saga', Idle)
  BY <1>2, Resting
<1>4. Progress(h)
  BY <1>1, NoProgress
<1>5. AnswersOK(invoices', saga', answers')
  BY <1>1, <1>4, AnswersKept
<1> QED
  BY <1>1, <1>2, <1>3, <1>4, <1>5, Handled

Retried(n) == [Idle EXCEPT !.retries = n]

LEMMA HandlerFailsKeeps ==
  ASSUME NEW h \in Hammered, Explains(h), NEW g \in Groups, HandlerFails(g)
  PROVE  Progress(h) /\ Explains(h)'
<1>1. /\ UNCHANGED <<world, answers>> /\ inbox[g] # <<>>
      /\ crashes' \in 0 .. MaxCrashes
  BY Parts, OneCrash DEF HandlerFails, Delivered
<1>2. Progress(h)
  BY <1>1, NoProgress
<1>3. CASE run[g].retries < MaxRetries
  <2>1. PICK n, q : n = run[g].retries + 1 /\ q = Retried(n)
    OBVIOUS
  <2>2. run' = Put(run, g, q) /\ UNCHANGED <<inbox, parked>> /\ g \in Processes
    BY <1>3, <2>1, Names DEF HandlerFails, Put, Retried
  <2>3. n \in 0 .. MaxRetries
    <3>1. run[g].retries \in 0 .. MaxRetries
      BY <2>2, Parts DEF HandlerRun
    <3> QED
      BY <1>3, <2>1, <3>1, SettlementAssumption
  <2>4. q \in HandlerRun /\ q.pc = "idle" /\ q.next = ""
    BY <2>1, <2>3, RunTypes DEF Retried, Idle, HandlerRun
  <2>5. RunOK(g, h, row', replacement', invoices', saga', q)
    BY <2>2, <2>4, Resting
  <2>6. AnswersOK(invoices', saga', answers')
    BY <1>1, <1>2, AnswersKept
  <2> QED
    BY <1>1, <1>2, <2>2, <2>4, <2>5, <2>6, Handled
<1>4. CASE ~(run[g].retries < MaxRetries)
  <2>1. PICK e : e = Head(inbox[g])
    OBVIOUS
  <2>2. /\ Answer(g) /\ inbox' = Put(inbox, g, Tail(inbox[g]))
        /\ parked' = parked \cup {<<g, e>>}
    BY <1>4, <2>1 DEF HandlerFails, Put
  <2>3. Mail(h, row, invoices, inbox, parked)
    BY DEF Explains
  <2>4. e \in Msgs(h) /\ Founded(h, row, invoices, g, e)
    BY <1>1, <2>1, <2>3, HeadFounded
  <2>5. Mail(h, row, invoices, inbox, parked')
    BY <2>2, <2>3, <2>4, MailPark
  <2> QED
    BY <1>1, <2>2, <2>5, Dequeued
<1> QED
  BY <1>3, <1>4

\* An event is published and no handler moves.
LEMMA Publishing ==
  ASSUME NEW h, Explains(h), Progress(h), NEW g \in Groups, NEW e \in Msgs(h),
         Founded(h, row', invoices', g, e), Publish(g, e),
         Mail(h, row', invoices', inbox, parked'), UNCHANGED <<run, answers, crashes>>
  PROVE  Explains(h)'
<1>1. inbox' = Put(inbox, g, Append(inbox[g], e))
  BY DEF Publish, Put
<1>2. /\ Mail(h, row', invoices', inbox', parked')
      /\ \A u : Busy(inbox, u) => Busy(inbox', u)
  BY <1>1, MailPublish
<1>3. Runs(h, row', replacement', invoices', saga', run')
  BY RunsLater DEF Explains, Progress
<1>4. AnswersOK(invoices', saga', answers')
  BY AnswersKept
<1> QED
  BY <1>2, <1>3, <1>4 DEF Explains, Progress

LEMMA RepublishKeeps ==
  ASSUME NEW h \in Hammered, Explains(h), Republish
  PROVE  Progress(h) /\ Explains(h)'
<1>1. PICK m \in parked : Publish(m[1], m[2]) /\ parked' = parked \ {m}
  BY DEF Republish
<1>2. UNCHANGED <<world, run, answers, crashes>>
  BY DEF Republish
<1>3. Progress(h)
  BY <1>2, NoProgress
<1>4. PICK g, e : g = m[1] /\ e = m[2]
  OBVIOUS
<1>5. /\ g \in Groups /\ e \in Msgs(h) /\ Founded(h, row, invoices, g, e)
      /\ Mail(h, row, invoices, inbox, parked')
  BY <1>1, <1>4, MailUnpark DEF Explains
<1>6. Publish(g, e)
  BY <1>1, <1>4 DEF Publish
<1>7. UNCHANGED <<row, invoices>>
  BY <1>2 DEF world
<1> QED
  BY <1>2, <1>3, <1>5, <1>6, <1>7, Publishing

\* Pay and Expire.
LEMMA ConcludeKeeps ==
  ASSUME NEW h \in Hammered, Explains(h), NEW n \in Attempts,
         NEW st \in {"paid", "expired"}, NEW g, g = st,
         NEW type \in {"InvoicePaid", "InvoiceExpired"}, Conclude(n, st, g, type)
  PROVE  Progress(h) /\ Explains(h)'
<1>1. PICK i2, e : i2 = Concluded(invoices, n, st) /\ e = InvoiceEvent(type, n)
  OBVIOUS
<1>2. /\ invoices[n].status = "pending" /\ invoices' = i2 /\ Publish(g, e)
      /\ UNCHANGED <<row, replacement, saga, run, parked, answers, crashes>>
  BY <1>1 DEF Conclude, Concluded, Publish, rest
<1>3. Consistent(h, row, replacement, invoices, saga) /\ InvoicesOK(h, invoices)
  BY Parts DEF Consistent
<1>4. st \in {"paid", "expired", "voided"} /\ st # "voided" /\ g \in Groups
  BY Names
<1>5. /\ InvoicesOK(h, i2) /\ i2[n].status = st
      /\ \A m \in Attempts \ {n} : i2[m] = invoices[m]
  BY <1>1, <1>2, <1>3, <1>4, StatusChange
<1>6. InvoiceMoves(h, row, saga, invoices, i2, n)
  BY <1>2, <1>4, <1>5 DEF InvoiceMoves
<1>7. /\ Consistent(h, row, replacement, i2, saga)
      /\ Later(row, replacement, invoices, saga, row, replacement, i2, saga)
  BY <1>3, <1>6, InvoiceStep
<1>8. Progress(h)
  BY <1>2, <1>7 DEF Progress, Forward, Explains
<1>9. e \in Msgs(h) /\ e.invoice = n
  BY <1>1 DEF Msgs, InvoiceEvent
<1>10. Founded(h, row', invoices', g, e)
  BY <1>2, <1>5, <1>9 DEF Founded
<1>11. Mail(h, row', invoices', inbox, parked')
  BY <1>2, <1>7, MailLater DEF Explains
<1> QED
  BY <1>2, <1>4, <1>8, <1>9, <1>10, <1>11, Publishing

LEMMA InitExplained ==
  Init => \E h \in Hammered : Explains(h)
<1> SUFFICES ASSUME Init PROVE Explains(row) /\ row \in Hammered
  OBVIOUS
<1>1. PICK h \in Hammered : h = row
  BY DEF Init
<1>2. /\ replacement = NoRow /\ invoices = [n \in Attempts |-> NoInvoice]
      /\ saga = NoSaga /\ run = [p \in Processes |-> Idle]
      /\ parked = {} /\ answers = {} /\ crashes = 0
      /\ inbox = [g \in Groups |-> IF g = "closed" THEN <<AuctionClosed(h, h.endsAt)>>
                                                   ELSE <<>>]
  BY <1>1 DEF Init
<1>3. replacement \in AuctionRow
  BY <1>2 DEF ZeroBid, Bid, NoRow, AuctionRow, ListingRules, Statuses
<1>4. Consistent(h, row, replacement, invoices, saga)
  <2>1. RowOK(h, row)
    BY <1>1, HammeredFacts DEF RowOK
  <2>2. /\ invoices \in [Attempts -> Invoice] /\ invoices[1].status = "absent"
        /\ invoices[2].status = "absent"
    BY <1>2, BothAttempts DEF NoInvoice, Invoice
  <2>3. InvoicesOK(h, invoices)
    BY <2>2 DEF InvoicesOK
  <2>4. WorldOK(h, row, replacement, invoices)
    BY <1>1, <1>2, <2>2, HammeredFacts DEF WorldOK, Failed
  <2>5. SagaOK(h, row, replacement, invoices, saga)
    BY <1>2, <2>2 DEF SagaOK
  <2> QED
    BY <2>1, <2>3, <2>4, <2>5 DEF Consistent
<1>5. Mail(h, row, invoices, inbox, parked)
  <2>1. PICK e : e = AuctionClosed(h, h.endsAt)
    OBVIOUS
  <2>2. e \in Msgs(h)
    BY <2>1 DEF Msgs
  <2>3. inbox = [g \in Groups |-> IF g = "closed" THEN <<e>> ELSE <<>>]
    BY <1>2, <2>1
  <2>4. inbox \in [Groups -> Seq(Msgs(h))]
    BY <2>2, <2>3
  <2>5. ASSUME NEW g \in Groups, NEW n \in 1 .. Len(inbox[g])
        PROVE  Founded(h, row, invoices, g, inbox[g][n])
    <3>1. g = "closed" /\ inbox[g][n] = e
      BY <2>3, <2>5
    <3> QED
      BY <2>1, <3>1 DEF Founded
  <2> QED
    BY <1>2, <2>4, <2>5 DEF Mail
<1>6. Runs(h, row, replacement, invoices, saga, run)
  <2>1. Idle \in HandlerRun /\ Idle.pc = "idle" /\ Idle.next = ""
    BY RunTypes
  <2>2. \A p \in Processes : RunOK(p, h, row, replacement, invoices, saga, Idle)
    BY <2>1, Resting
  <2> QED
    BY <1>2, <2>1, <2>2 DEF Runs
<1>7. Busy(inbox, run)
  BY <1>2, RunTypes, Names DEF Busy
<1>8. AnswersOK(invoices, saga, answers) /\ crashes \in 0 .. MaxCrashes
  BY <1>2, SettlementAssumption DEF AnswersOK
<1> QED
  BY <1>1, <1>3, <1>4, <1>5, <1>6, <1>7, <1>8 DEF Explains

\* Whatever happens next, the same hammered row explains it.
LEMMA NextExplained ==
  ASSUME NEW h \in Hammered, Explains(h), [Next]_vars
  PROVE  Progress(h) /\ Explains(h)'
<1>1. CASE ClosedStep
  BY <1>1, Names, DecideClosedKeeps, IssueFirstKeeps, CommitClosedKeeps, AckKeeps DEF ClosedStep
<1>2. CASE PaidStep
  BY <1>2, Names, DecidePaidKeeps, ConfirmSaleKeeps, CommitPaidKeeps, AckKeeps DEF PaidStep
<1>3. CASE ExpiredStep
  <2>1. "expired" \in Requests \cup {"expired"}
    OBVIOUS
  <2> QED
    BY <1>3, <2>1, Names, DecideExpiredKeeps, AwardRunnerUpKeeps, FailSaleKeeps, RelistSaleKeeps,
       CommitExpiredKeeps, AckKeeps DEF ExpiredStep
<1>4. CASE ReassignedStep
  BY <1>4, Names, DecideReassignedKeeps, IssueSecondKeeps, CommitReassignedKeeps, AckKeeps
     DEF ReassignedStep
<1>5. ASSUME NEW p \in Requests, NEW actor \in Users, DecideDecline(p, actor)
      PROVE  Progress(h) /\ Explains(h)'
  BY <1>5, DecideDeclineKeeps
<1>6. ASSUME NEW p \in Requests, DeclineStep(p)
      PROVE  Progress(h) /\ Explains(h)'
  <2>1. p \in Requests \cup {"expired"}
    OBVIOUS
  <2> QED
    BY <1>6, <2>1, VoidInvoiceKeeps, FailSaleKeeps, RelistSaleKeeps, CommitDeclineKeeps
       DEF DeclineStep
<1>7. ASSUME NEW p \in Processes, Crash(p)
      PROVE  Progress(h) /\ Explains(h)'
  BY <1>7, CrashKeeps
<1>8. ASSUME NEW g \in Groups, HandlerFails(g)
      PROVE  Progress(h) /\ Explains(h)'
  BY <1>8, HandlerFailsKeeps
<1>9. CASE Republish
  BY <1>9, RepublishKeeps
<1>10. ASSUME NEW n \in Attempts, Pay(n) \/ Expire(n)
       PROVE  Progress(h) /\ Explains(h)'
  <2>1. CASE Pay(n)
    BY <2>1, ConcludeKeeps DEF Pay
  <2>2. CASE Expire(n)
    BY <2>2, ConcludeKeeps DEF Expire
  <2> QED
    BY <1>10, <2>1, <2>2
<1>11. CASE UNCHANGED vars
  <2>1. UNCHANGED <<world, inbox, run, parked, crashes, answers>>
    BY <1>11 DEF vars, world
  <2>2. AnswersOK(invoices, saga, answers')
    BY <2>1 DEF Explains
  <2> QED
    BY <2>1, <2>2, TellKeeps
<1> QED
  BY <1>1, <1>2, <1>3, <1>4, <1>5, <1>6, <1>7, <1>8, <1>9, <1>10, <1>11 DEF Next

-----------------------------------------------------------------------------
(* The theorems.                                                           *)

LEMMA Invariance == Spec => []IInv
<1>1. Init => IInv
  BY InitExplained DEF IInv
<1>2. IInv /\ [Next]_vars => IInv'
  <2> SUFFICES ASSUME IInv, [Next]_vars PROVE IInv'
    OBVIOUS
  <2>1. PICK h \in Hammered : Explains(h)
    BY DEF IInv
  <2>2. Explains(h)'
    BY <2>1, NextExplained
  <2> QED
    BY <2>2 DEF IInv
<1> QED
  BY <1>1, <1>2, PTL DEF Spec

LEMMA TypeFollows == IInv => TypeOK
<1> SUFFICES ASSUME IInv PROVE TypeOK
  OBVIOUS
<1>1. PICK h \in Hammered : Explains(h)
  BY DEF IInv
<1>2. /\ row \in AuctionRow /\ replacement \in AuctionRow
      /\ saga \in Saga \cup {NoSaga} /\ run \in [Processes -> HandlerRun]
  BY <1>1, Parts
<1>3. invoices \in [Attempts -> Invoice]
  BY <1>1, Parts DEF Consistent, InvoicesOK
<1>4. DOMAIN inbox = Groups /\ \A m \in parked : m[1] \in Groups
  BY <1>1 DEF Explains, Mail
<1>5. /\ answers \subseteq {"declined", "offer-already-paid"}
      /\ crashes \in 0 .. MaxCrashes
  BY <1>1 DEF Explains, AnswersOK
<1> QED
  BY <1>2, <1>3, <1>4, <1>5 DEF TypeOK

\* The rows, the invoices, the saga, the handler runs, the dead letter and the
\* answers keep their types, whatever the four handlers and the requests do.
THEOREM TypeCorrect == Spec => []TypeOK
  BY Invariance, TypeFollows, PTL

\* A sale in progress or concluded was a sale at the hammer.
LEMMA SoldFacts ==
  ASSUME NEW h \in Hammered, NEW r, NEW x, NEW i, NEW s, Consistent(h, r, x, i, s)
  PROVE  /\ r.outcome = "sold" => h.outcome = "sold"
         /\ s # NoSaga /\ ~Failed(r) => r.outcome = "sold"
         /\ s # NoSaga /\ r.outcome = "not_sold" => Failed(r)
<1>1. RowOK(h, r)
  BY DEF Consistent
<1>2. s # NoSaga => h.outcome = "sold"
  BY DEF Consistent, SagaOK, Remembers
<1> QED
  BY <1>1, <1>2 DEF RowOK, Failed

LEMMA PaidStands == IInv => PaidSaleStands
<1> SUFFICES ASSUME IInv, NEW n \in Attempts, invoices[n].status = "paid"
             PROVE  /\ row.outcome = "sold" /\ replacement = NoRow
                    /\ row.leadingBid.bidder = invoices[n].debtor
                    /\ row.leadingBid.amount = invoices[n].hammer
                    /\ \A m \in Attempts \ {n} : invoices[m].status \in {"absent", "expired"}
  BY DEF PaidSaleStands
<1>1. PICK h \in Hammered : Explains(h)
  BY DEF IInv
<1>2. Consistent(h, row, replacement, invoices, saga)
  BY <1>1, Parts
<1>3. n = 1 \/ n = 2
  BY DEF Attempts
<1>4. ~Failed(row) /\ saga # NoSaga
  BY <1>2, <1>3, PaidFacts
<1>5. row.outcome = "sold" /\ replacement = NoRow
  BY <1>2, <1>4, SoldFacts DEF Consistent, WorldOK
<1>6. CASE n = 1
  <2>1. ~row.winnerReassigned /\ invoices[2].status = "absent"
    BY <1>2, <1>6, PaidFacts
  <2>2. row.leadingBid = h.leadingBid
    BY <1>2, <2>1 DEF Consistent, RowOK
  <2> QED
    BY <1>2, <1>5, <1>6, <2>1, <2>2 DEF Consistent, InvoicesOK, Attempts
<1>7. CASE n = 2
  <2>1. row.winnerReassigned /\ invoices[1].status = "expired"
    BY <1>2, <1>7, PaidFacts
  <2>2. row.leadingBid = h.runnerUpBid
    BY <1>2, <2>1 DEF Consistent, RowOK
  <2> QED
    BY <1>2, <1>5, <1>7, <2>1, <2>2 DEF Consistent, InvoicesOK, Attempts
<1> QED
  BY <1>3, <1>6, <1>7

\* Money taken is a sale kept: no handler, however stale its decision, fails,
\* relists or passes on a paid sale, and no second invoice is paid.
THEOREM PaidCorrect == Spec => []PaidSaleStands
  BY Invariance, PaidStands, PTL

LEMMA SettledPaid == IInv => SettledMeansPaid
<1> SUFFICES ASSUME IInv PROVE SettledMeansPaid
  OBVIOUS
<1>1. PICK h \in Hammered : Explains(h)
  BY DEF IInv
<1>2. Consistent(h, row, replacement, invoices, saga)
  BY <1>1, Parts
<1>3. RowOK(h, row) /\ InvoicesOK(h, invoices)
  BY <1>2 DEF Consistent
<1>4. ASSUME row.settled, row.outcome = "sold"
      PROVE  \E n \in Attempts : /\ invoices[n].status = "paid"
                                 /\ invoices[n].debtor = row.leadingBid.bidder
                                 /\ invoices[n].hammer = row.leadingBid.amount
  <2>1. CASE row.winnerReassigned
    <3>1. invoices[2].status = "paid"
      BY <1>2, <1>4, <2>1 DEF Consistent, WorldOK
    <3> QED
      BY <1>3, <2>1, <3>1, BothAttempts DEF RowOK, InvoicesOK
  <2>2. CASE ~row.winnerReassigned
    <3>1. invoices[1].status = "paid"
      BY <1>2, <1>4, <2>2 DEF Consistent, WorldOK
    <3> QED
      BY <1>3, <2>2, <3>1, BothAttempts DEF RowOK, InvoicesOK
  <2> QED
    BY <2>1, <2>2
<1>5. ASSUME row.outcome = "sold"
      PROVE  MetBy(row.reserve, row.leadingBid.amount)
  <2>1. h.outcome = "sold"
    BY <1>2, <1>5, SoldFacts
  <2>2. CASE row.winnerReassigned
    <3>1. MetBy(h.reserve, h.runnerUpBid.amount)
      BY <1>3, <2>2 DEF RowOK, Q, RunnerUpQualifies
    <3>2. row.reserve = h.reserve /\ row.leadingBid = h.runnerUpBid
      BY <1>3, <2>2 DEF RowOK
    <3> QED
      BY <3>1, <3>2
  <2>3. CASE ~row.winnerReassigned
    <3>1. MetBy(h.reserve, h.leadingBid.amount)
      BY <2>1, HammeredFacts
    <3>2. row.reserve = h.reserve /\ row.leadingBid = h.leadingBid
      BY <1>3, <2>3 DEF RowOK
    <3> QED
      BY <3>1, <3>2
  <2> QED
    BY <2>2, <2>3
<1> QED
  BY <1>4, <1>5 DEF SettledMeansPaid

\* A settled sale was paid by the bidder and at the price the auction names,
\* and that price meets the reserve, for the runner-up too.
THEOREM SettledCorrect == Spec => []SettledMeansPaid
  BY Invariance, SettledPaid, PTL

LEMMA RecordsTrue == IInv => SagaMatchesWorld
<1> SUFFICES ASSUME IInv PROVE SagaMatchesWorld
  OBVIOUS
<1>1. PICK h \in Hammered : Explains(h)
  BY DEF IInv
<1>2. Consistent(h, row, replacement, invoices, saga)
  BY <1>1, Parts
<1>3. /\ RowOK(h, row) /\ InvoicesOK(h, invoices)
      /\ WorldOK(h, row, replacement, invoices)
  BY <1>2 DEF Consistent
<1>4. replacement # NoRow => Failed(row) /\ row.relistGen = 0
  BY <1>3 DEF WorldOK, RowOK
<1>5. CASE saga = NoSaga
  <2>1. saga.state = "none"
    BY <1>5, NoSagaFacts
  <2> QED
    BY <1>4, <2>1 DEF SagaMatchesWorld
<1>6. CASE saga # NoSaga
  <2>1. Records(h, row, replacement, invoices, saga)
    BY <1>2, <1>6 DEF Consistent, SagaOK
  <2>2. saga.state = "FailedUnsold" => Failed(row) /\ replacement = NoRow
    BY <1>3, <2>1 DEF Records, WorldOK
  <2>3. saga.state = "SecondChancePayment" =>
          /\ row.winnerReassigned /\ saga.winner = row.leadingBid.bidder
          /\ invoices[2].status # "absent" /\ invoices[2].debtor = saga.winner
    BY <1>3, <2>1 DEF Records, RowOK, InvoicesOK
  <2> QED
    BY <1>4, <2>1, <2>2, <2>3 DEF Records, SagaMatchesWorld
<1> QED
  BY <1>5, <1>6

\* The saga's record never claims what the auction and billing contexts do
\* not hold: every effect comes before the commit that reports it.
THEOREM RecordsCorrect == Spec => []SagaMatchesWorld
  BY Invariance, RecordsTrue, PTL

\* The facades accept every call of a run that stands on its phase.
LEMMA FacadesAccept ==
  ASSUME NEW h \in Hammered, Explains(h)
  PROVE  /\ At("paid", "confirm") => row.outcome = "sold"
         /\ At("expired", "award") => row.winnerReassigned \/ CanAward(row)
         /\ \A p \in Requests \cup {"expired"} :
              /\ At(p, "failSale") => CanFailSale(row) \/ row.outcome = "not_sold"
              /\ At(p, "relist") => CanRelist(row)
<1>1. Consistent(h, row, replacement, invoices, saga)
  BY Parts
<1>2. RowOK(h, row) /\ WorldOK(h, row, replacement, invoices)
  BY <1>1 DEF Consistent
<1>3. At("paid", "confirm") => row.outcome = "sold"
  <2> SUFFICES ASSUME At("paid", "confirm") PROVE row.outcome = "sold"
    OBVIOUS
  <2>1. PaidRun(row, invoices, saga, run["paid"])
    BY Parts, Names, RunIs
  <2>2. saga # NoSaga /\ ~Failed(row)
    BY <1>1, <2>1, PaidFacts DEF PaidRun, At
  <2> QED
    BY <1>1, <2>2, SoldFacts
<1>4. At("expired", "award") => row.winnerReassigned \/ CanAward(row)
  <2> SUFFICES ASSUME At("expired", "award"), ~row.winnerReassigned PROVE CanAward(row)
    OBVIOUS
  <2>1. ExpiredRun(h, row, replacement, invoices, saga, run["expired"])
    BY Parts, Names, RunIs
  <2>2. saga # NoSaga /\ Q(h) /\ invoices[1].status = "expired"
    BY <2>1 DEF ExpiredRun, At
  <2>3. ~Failed(row)
    BY <1>2, <2>2 DEF WorldOK, Dead
  <2>4. row.outcome = "sold"
    BY <1>1, <2>2, <2>3, SoldFacts
  <2>5. ~row.settled
    BY <1>2, <2>2, <2>4 DEF WorldOK
  <2>6. row.runnerUpBid # ZeroBid /\ row.status = "closed"
    BY <1>2, <2>2 DEF RowOK, Q, RunnerUpQualifies
  <2> QED
    BY <2>4, <2>5, <2>6 DEF CanAward
<1>5. ASSUME NEW p \in Requests \cup {"expired"}, At(p, "failSale")
      PROVE  CanFailSale(row) \/ row.outcome = "not_sold"
  <2>1. p \in Processes
    BY Names
  <2>2. /\ RunOK(p, h, row, replacement, invoices, saga, run[p])
        /\ run[p].pc \in {"failSale", "relist"}
    BY <1>5, <2>1, Parts DEF At
  <2>3. Failing(h, row, replacement, invoices, run[p])
    BY <2>2, LosingRun
  <2>4. Dead(h, row, invoices)
    BY <1>5, <2>3 DEF Failing, At
  <2>5. ~(invoices[1].status = "paid" \/ invoices[2].status = "paid")
    BY <1>1, <2>4, PaidFacts
  <2> QED
    BY <1>2, <2>5 DEF RowOK, WorldOK, CanFailSale
<1>6. ASSUME NEW p \in Requests \cup {"expired"}, At(p, "relist")
      PROVE  CanRelist(row)
  <2>1. p \in Processes
    BY Names
  <2>2. /\ RunOK(p, h, row, replacement, invoices, saga, run[p])
        /\ run[p].pc \in {"failSale", "relist"}
    BY <1>6, <2>1, Parts DEF At
  <2>3. Failing(h, row, replacement, invoices, run[p])
    BY <2>2, LosingRun
  <2>4. h.relistGen = 0
    BY <1>6, <2>3 DEF Failing, At
  <2> QED
    BY <1>2, <2>4 DEF RowOK, CanRelist
<1> QED
  BY <1>3, <1>4, <1>5, <1>6

\* The closing event of a sold hammer is valid.
LEMMA ClosingValid ==
  ASSUME NEW h \in Hammered, NEW e
  PROVE  e = AuctionClosed(h, h.endsAt) /\ RequiresSettlement(e) => ValidClosing(e)
<1>0. SUFFICES ASSUME e = AuctionClosed(h, h.endsAt), RequiresSettlement(e)
               PROVE  ValidClosing(e)
  OBVIOUS
<1>1. h.outcome = "sold"
  BY <1>0 DEF AuctionClosed, RequiresSettlement
<1>2. /\ Sold(h) /\ h.leadingBid.bidder \in Users /\ h.relistGen \in {0, 1}
      /\ h.leadingBid \in Bid /\ h.runnerUpBid \in Bid
      /\ h.runnerUpBid # ZeroBid => h.runnerUpBid.bidder \in Users
  BY <1>1, HammeredFacts
<1>3. /\ e.winner = h.leadingBid.bidder /\ e.hammer = h.leadingBid.amount
      /\ e.runnerUp = h.runnerUpBid.bidder /\ e.runnerUpAmount = h.runnerUpBid.amount
      /\ e.relistGen = h.relistGen
  BY <1>0, <1>2 DEF AuctionClosed
<1>4. e.runnerUpQualifies <=> RunnerUpQualifies(h)
  BY <1>0 DEF AuctionClosed
<1>5. e.winner # NoUser
  BY <1>2, <1>3, DomainAssumption
<1>6. e.hammer >= 0 /\ e.relistGen >= 0 /\ e.runnerUpAmount >= 0
  <2>1. h.leadingBid.amount \in Nat /\ h.runnerUpBid.amount \in Nat /\ h.relistGen \in Nat
    BY <1>2 DEF Bid
  <2> QED
    BY <1>3, <2>1
<1>7. e.runnerUp = NoUser => ~e.runnerUpQualifies
  BY <1>2, <1>3, <1>4, DomainAssumption DEF RunnerUpQualifies
<1> QED
  BY <1>5, <1>6, <1>7 DEF ValidClosing

LEMMA NoConflict == IInv => NoFacadeConflict
<1> SUFFICES ASSUME IInv PROVE NoFacadeConflict
  OBVIOUS
<1>1. PICK h \in Hammered : Explains(h)
  BY DEF IInv
<1>2. Consistent(h, row, replacement, invoices, saga)
  BY <1>1, Parts
<1>3. saga = NoSaga \/ Rehydrates(saga)
  <2>1. saga = NoSaga \/ saga \in Saga
    BY <1>1, Parts
  <2> QED
    BY <2>1, DomainAssumption DEF Rehydrates, Saga
<1>4. \A k \in DOMAIN inbox["closed"] :
        RequiresSettlement(inbox["closed"][k]) => ValidClosing(inbox["closed"][k])
  <2> SUFFICES ASSUME NEW k \in DOMAIN inbox["closed"],
                      RequiresSettlement(inbox["closed"][k])
               PROVE  ValidClosing(inbox["closed"][k])
    OBVIOUS
  <2>1. PICK e : e = inbox["closed"][k]
    OBVIOUS
  <2>2. Mail(h, row, invoices, inbox, parked)
    BY <1>1 DEF Explains
  <2>3. k \in 1 .. Len(inbox["closed"])
    BY <2>2, Names DEF Mail
  <2>4. e = AuctionClosed(h, h.endsAt)
    BY <2>1, <2>2, <2>3, Names DEF Mail, Founded
  <2> QED
    BY <2>1, <2>4, ClosingValid
<1>5. inbox["paid"] # <<>> \/ inbox["expired"] # <<>> => saga # NoSaga
  <2> SUFFICES ASSUME inbox["paid"] # <<>> \/ inbox["expired"] # <<>>
               PROVE  saga # NoSaga
    OBVIOUS
  <2>1. PICK n \in Attempts : invoices[n].status \in {"paid", "expired"}
    BY <1>1, Parts, Names DEF Founded
  <2>2. invoices[1].status # "absent" \/ invoices[2].status # "absent"
    BY <2>1 DEF Attempts
  <2> QED
    BY <1>2, <2>2, PaidFacts
<1>6. \A p \in Requests : run[p].next # "award"
  <2> SUFFICES ASSUME NEW p \in Requests PROVE run[p].next # "award"
    OBVIOUS
  <2>1. p \in Processes
    BY Names
  <2>2. DeclineRun(h, row, replacement, invoices, saga, run[p])
    BY <1>1, <2>1, Parts, RunIs
  <2> QED
    BY <2>2 DEF DeclineRun
<1>7. ASSUME inbox["reassigned"] # <<>>, AwaitsReassignment(saga)
      PROVE  WinnerMatches(saga, Head(inbox["reassigned"]))
  <2>1. saga # NoSaga
    BY <1>7, NoSagaFacts DEF AwaitsReassignment
  <2>2. Remembers(h, saga)
    BY <1>2, <2>1 DEF Consistent, SagaOK
  <2>3. PICK e : e = Head(inbox["reassigned"])
    OBVIOUS
  <2>4. e.newWinner = h.runnerUpBid.bidder /\ e.price = h.runnerUpBid.amount
    BY <1>1, <1>7, <2>3, Parts, Names DEF Founded
  <2> QED
    BY <2>2, <2>3, <2>4 DEF Remembers, WinnerMatches
<1> QED
  BY <1>1, <1>3, <1>4, <1>5, <1>6, <1>7, FacadesAccept DEF NoFacadeConflict

\* No facade ever refuses a handler, no saga row fails to load and no closing
\* event is poison: only an outage can park an event.
THEOREM ConflictFree == Spec => []NoFacadeConflict
  BY Invariance, NoConflict, PTL

LEMMA AnswersTrue == IInv => DeclineAnswersTrue
<1> SUFFICES ASSUME IInv PROVE DeclineAnswersTrue
  OBVIOUS
<1>1. PICK h \in Hammered : Explains(h)
  BY DEF IInv
<1>2. invoices[2].status # "absent" => invoices[1].status # "paid"
  BY <1>1 DEF Explains, Consistent, WorldOK
<1> QED
  BY <1>1, <1>2 DEF Explains, AnswersOK, DeclineAnswersTrue

\* A runner-up with an offer is answered truthfully, and the answer stays true.
THEOREM AnswersCorrect == Spec => []DeclineAnswersTrue
  BY Invariance, AnswersTrue, PTL

\* The saga moves forward only, and a concluded one never again.
THEOREM ForwardCorrect == Spec => SagaMovesForward
<1>1. IInv /\ [Next]_vars =>
        [saga' # saga => Rank(saga'.state) > Rank(saga.state)]_vars
  <2> SUFFICES ASSUME IInv, [Next]_vars
               PROVE  saga' # saga => Rank(saga'.state) > Rank(saga.state)
    OBVIOUS
  <2>1. PICK h \in Hammered : Explains(h)
    BY DEF IInv
  <2>2. Progress(h)
    BY <2>1, NextExplained
  <2> QED
    BY <2>2 DEF Progress, Forward
<1> QED
  BY <1>1, Invariance, PTL DEF Spec, SagaMovesForward

-----------------------------------------------------------------------------
(* The handlers implement Sale.                                            *)

Payer(i) == IF \E n \in Attempts : i[n].status = "paid"
              THEN i[CHOOSE n \in Attempts : i[n].status = "paid"].debtor
              ELSE NoUser

Decided(r) ==
  CASE r.settled /\ r.outcome = "sold" -> "settled"
    [] Failed(r) -> "failed"
    [] ~r.settled /\ r.outcome = "sold" -> "open"
    [] OTHER -> "unsold"

\* Who paid, read off the statuses.
LEMMA PayerIs ==
  ASSUME NEW h, NEW r, NEW x, NEW i, NEW s, Consistent(h, r, x, i, s)
  PROVE  /\ i[1].status = "paid" => Payer(i) = h.leadingBid.bidder
         /\ i[2].status = "paid" => Payer(i) = h.runnerUpBid.bidder
         /\ i[1].status # "paid" /\ i[2].status # "paid" => Payer(i) = NoUser
<1>1. /\ i[1].status = "paid" => i[2].status = "absent"
      /\ i[2].status = "paid" => i[1].status = "expired"
  BY PaidFacts
<1>2. InvoicesOK(h, i)
  BY DEF Consistent
<1>3. CASE i[1].status = "paid"
  <2>1. (CHOOSE n \in Attempts : i[n].status = "paid") = 1
    BY <1>1, <1>3 DEF Attempts
  <2>2. Payer(i) = i[1].debtor
    BY <1>3, <2>1, BothAttempts DEF Payer
  <2> QED
    BY <1>1, <1>2, <1>3, <2>2 DEF InvoicesOK
<1>4. CASE i[2].status = "paid"
  <2>1. (CHOOSE n \in Attempts : i[n].status = "paid") = 2
    BY <1>1, <1>4 DEF Attempts
  <2>2. Payer(i) = i[2].debtor
    BY <1>4, <2>1, BothAttempts DEF Payer
  <2> QED
    BY <1>1, <1>2, <1>4, <2>2 DEF InvoicesOK
<1>5. CASE i[1].status # "paid" /\ i[2].status # "paid"
  BY <1>5 DEF Payer, Attempts
<1> QED
  BY <1>3, <1>4, <1>5

\* The mapping, in terms of the row, the replacement and the invoices.
LEMMA Mapping ==
  /\ PaidBy = Payer(invoices) /\ Verdict = Decided(row)
  /\ PaidBy' = Payer(invoices') /\ Verdict' = Decided(row')
<1>1. PaidBy = Payer(invoices) /\ PaidBy' = Payer(invoices')
  BY DEF PaidBy, Payer
<1>2. Verdict = Decided(row) /\ Verdict' = Decided(row')
  BY DEF Verdict, Decided
<1> QED
  BY <1>1, <1>2

\* A step that changes none of them, or no payment, is not seen from outside.
LEMMA Unseen ==
  ASSUME UNCHANGED <<row, replacement>>, Payer(invoices') = Payer(invoices)
  PROVE  UNCHANGED S!vars
<1>1. PaidBy' = PaidBy /\ Verdict' = Verdict
  BY Mapping
<1> QED
  BY <1>1 DEF S!vars

LEMMA SamePayer ==
  ASSUME NEW h, Explains(h), Explains(h)',
         \A n \in Attempts : invoices'[n].status = "paid" <=> invoices[n].status = "paid"
  PROVE  Payer(invoices') = Payer(invoices)
<1>1. /\ Consistent(h, row, replacement, invoices, saga)
      /\ Consistent(h, row', replacement', invoices', saga')
  BY DEF Explains
<1>2. /\ invoices'[1].status = "paid" <=> invoices[1].status = "paid"
      /\ invoices'[2].status = "paid" <=> invoices[2].status = "paid"
  BY BothAttempts
<1>3. /\ invoices[1].status = "paid" => Payer(invoices) = h.leadingBid.bidder
      /\ invoices[2].status = "paid" => Payer(invoices) = h.runnerUpBid.bidder
      /\ invoices[1].status # "paid" /\ invoices[2].status # "paid" =>
           Payer(invoices) = NoUser
  BY <1>1, PayerIs
<1>4. /\ invoices'[1].status = "paid" => Payer(invoices') = h.leadingBid.bidder
      /\ invoices'[2].status = "paid" => Payer(invoices') = h.runnerUpBid.bidder
      /\ invoices'[1].status # "paid" /\ invoices'[2].status # "paid" =>
           Payer(invoices') = NoUser
  BY <1>1, PayerIs
<1> QED
  BY <1>2, <1>3, <1>4

LEMMA PaySeen ==
  ASSUME NEW h \in Hammered, Explains(h), Explains(h)', NEW n \in Attempts, Pay(n)
  PROVE  S!Collect
<1>1. /\ invoices[n].status = "pending" /\ UNCHANGED <<row, replacement>>
      /\ invoices' = Concluded(invoices, n, "paid")
  BY DEF Pay, Conclude, Concluded
<1>2. /\ Consistent(h, row, replacement, invoices, saga)
      /\ Consistent(h, row', replacement', invoices', saga')
  BY DEF Explains
<1>3. invoices'[n].status = "paid"
  BY <1>1, <1>2, StatusChange DEF Consistent
<1>4. n = 1 \/ n = 2
  BY DEF Attempts
<1>5. RowOK(h, row) /\ WorldOK(h, row, replacement, invoices)
  BY <1>2 DEF Consistent
<1>6. saga # NoSaga
  BY <1>1, <1>2, <1>4, PaidFacts
<1>7. invoices[1].status # "paid" /\ invoices[2].status # "paid"
  BY <1>1, <1>2, <1>4, PaidFacts
<1>8. ~Failed(row)
  <2>1. ~Failed(row')
    BY <1>2, <1>3, <1>4, PaidFacts
  <2> QED
    BY <1>1, <2>1
<1>9. row.outcome = "sold" /\ ~row.settled
  <2>1. row.outcome = "sold"
    BY <1>2, <1>6, <1>8, SoldFacts
  <2> QED
    BY <1>5, <1>7, <2>1 DEF WorldOK
<1>10. Payer(invoices) = NoUser
  BY <1>2, <1>7, PayerIs
<1>11. Payer(invoices') = row.leadingBid.bidder
  <2>1. CASE n = 1
    <3>1. ~row.winnerReassigned
      BY <1>1, <1>5, <2>1 DEF WorldOK
    <3>2. row.leadingBid = h.leadingBid
      BY <1>5, <3>1 DEF RowOK
    <3> QED
      BY <1>2, <1>3, <2>1, <3>2, PayerIs
  <2>2. CASE n = 2
    <3>1. row.winnerReassigned
      BY <1>1, <1>5, <2>2 DEF WorldOK
    <3>2. row.leadingBid = h.runnerUpBid
      BY <1>5, <3>1 DEF RowOK
    <3> QED
      BY <1>2, <1>3, <2>2, <3>2, PayerIs
  <2> QED
    BY <1>4, <2>1, <2>2
<1>12. Decided(row) = "open"
  BY <1>8, <1>9 DEF Decided
<1>13. Verdict = "open" /\ Verdict' = Verdict /\ PaidBy = NoUser
       /\ PaidBy' = row.leadingBid.bidder
  BY <1>1, <1>10, <1>11, <1>12, Mapping
<1> QED
  BY <1>1, <1>13 DEF S!Collect

LEMMA AwardSeen ==
  ASSUME NEW h \in Hammered, Explains(h), AwardRunnerUp
  PROVE  S!PassOn \/ UNCHANGED S!vars
<1>1. run["expired"].pc = "award" /\ UNCHANGED <<replacement, invoices>>
  BY DEF AwardRunnerUp, At
<1>2. CASE row' = row
  BY <1>1, <1>2, Unseen
<1>3. CASE CanAward(row) /\ row' = Awarded(row)
  <2>1. Consistent(h, row, replacement, invoices, saga)
    BY DEF Explains
  <2>2. RowOK(h, row) /\ WorldOK(h, row, replacement, invoices)
    BY <2>1 DEF Consistent
  <2>3. ExpiredRun(h, row, replacement, invoices, saga, run["expired"])
    BY Parts, Names, RunIs
  <2>4. Q(h) /\ invoices[1].status = "expired"
    BY <1>1, <2>3 DEF ExpiredRun
  <2>5. /\ ~row.winnerReassigned /\ ~row.settled /\ row.outcome = "sold"
        /\ row.runnerUpBid = h.runnerUpBid /\ row.reserve = h.reserve
    BY <1>3, <2>2 DEF CanAward, RowOK
  <2>6. invoices[2].status # "paid"
    BY <2>2, <2>5 DEF WorldOK
  <2>7. Payer(invoices) = NoUser
    BY <2>1, <2>4, <2>6, PayerIs
  <2>8. RunnerUpQualifies(row)
    BY <2>4, <2>5 DEF Q, RunnerUpQualifies
  <2>9. row.runnerUpBid.bidder # NoUser
    <3>1. h.runnerUpBid # ZeroBid
      BY <2>4 DEF Q, RunnerUpQualifies
    <3> QED
      BY <2>5, <3>1, HammeredFacts, DomainAssumption
  <2>10. /\ row'.leadingBid = row.runnerUpBid /\ row'.runnerUpBid = ZeroBid
         /\ row'.outcome = row.outcome /\ row'.settled = row.settled
         /\ row'.relistGen = row.relistGen
    BY <1>3, <2>2 DEF Awarded, RowOK, AuctionRow
  <2>11. ~RunnerUpQualifies(row')
    BY <2>10 DEF RunnerUpQualifies
  <2>12. Decided(row) = "open" /\ Decided(row') = "open"
    BY <2>5, <2>10 DEF Decided, Failed
  <2>13. CanRelist(row') = CanRelist(row)
    BY <2>10 DEF CanRelist
  <2>14. /\ Verdict = "open" /\ Verdict' = Verdict /\ PaidBy = NoUser
         /\ PaidBy' = PaidBy
    BY <1>1, <2>7, <2>12, Mapping
  <2> QED
    BY <1>1, <2>8, <2>9, <2>10, <2>11, <2>13, <2>14 DEF S!PassOn
<1> QED
  BY <1>2, <1>3 DEF AwardRunnerUp

\* The verdict changes and nothing else that is seen.
LEMMA SameTerms ==
  ASSUME NEW r, NEW r2, r2.leadingBid = r.leadingBid, r2.runnerUpBid = r.runnerUpBid,
         r2.reserve = r.reserve, r2.relistGen = r.relistGen
  PROVE  /\ RunnerUpQualifies(r2) = RunnerUpQualifies(r)
         /\ CanRelist(r2) = CanRelist(r)
  BY DEF RunnerUpQualifies, CanRelist

LEMMA ConfirmSeen ==
  ASSUME NEW h \in Hammered, Explains(h), ConfirmSale
  PROVE  S!Settle \/ UNCHANGED S!vars
<1>1. run["paid"].pc = "confirm" /\ UNCHANGED <<replacement, invoices>>
  BY DEF ConfirmSale, At
<1>2. CASE row' = row
  BY <1>1, <1>2, Unseen
<1>3. CASE CanConfirm(row) /\ row' = Confirmed(row)
  <2>1. Consistent(h, row, replacement, invoices, saga)
    BY DEF Explains
  <2>2. RowOK(h, row) /\ WorldOK(h, row, replacement, invoices)
    BY <2>1 DEF Consistent
  <2>3. PaidRun(row, invoices, saga, run["paid"])
    BY Parts, Names, RunIs
  <2>4. invoices[1].status = "paid" \/ invoices[2].status = "paid"
    BY <1>1, <2>3 DEF PaidRun
  <2>5. Payer(invoices) = row.leadingBid.bidder
    BY <2>1, <2>2, <2>4, PaidFacts, PayerIs DEF RowOK
  <2>6. row.outcome = "sold" /\ ~row.settled
    BY <1>3 DEF CanConfirm
  <2>7. /\ row'.leadingBid = row.leadingBid /\ row'.runnerUpBid = row.runnerUpBid
        /\ row'.outcome = "sold" /\ row'.settled = TRUE
        /\ row'.relistGen = row.relistGen /\ row'.reserve = row.reserve
    BY <1>3, <2>2, <2>6 DEF Confirmed, RowOK, AuctionRow
  <2>8. /\ RunnerUpQualifies(row') = RunnerUpQualifies(row)
        /\ CanRelist(row') = CanRelist(row)
    BY <2>7, SameTerms
  <2>9. Decided(row) = "open" /\ Decided(row') = "settled"
    BY <2>6, <2>7 DEF Decided, Failed
  <2>10. /\ Verdict = "open" /\ Verdict' = "settled" /\ PaidBy = row.leadingBid.bidder
         /\ PaidBy' = PaidBy
    BY <1>1, <2>5, <2>9, Mapping
  <2> QED
    BY <1>1, <2>7, <2>8, <2>10 DEF S!Settle
<1> QED
  BY <1>2, <1>3 DEF ConfirmSale

LEMMA FailSeen ==
  ASSUME NEW h \in Hammered, Explains(h), NEW p \in Requests \cup {"expired"}, FailSale(p)
  PROVE  S!Fail \/ UNCHANGED S!vars
<1>1. run[p].pc = "failSale" /\ UNCHANGED <<replacement, invoices>>
  BY DEF FailSale, At
<1>2. CASE row' = row
  BY <1>1, <1>2, Unseen
<1>3. CASE CanFailSale(row) /\ row' = SaleFailed(row)
  <2>1. Consistent(h, row, replacement, invoices, saga)
    BY DEF Explains
  <2>2. RowOK(h, row)
    BY <2>1 DEF Consistent
  <2>3. saga # NoSaga /\ Failing(h, row, replacement, invoices, run[p])
    <3>1. p \in Processes
      BY Names
    <3>2. RunOK(p, h, row, replacement, invoices, saga, run[p])
      BY <3>1, Parts
    <3> QED
      BY <1>1, <3>2, LosingRun
  <2>4. Dead(h, row, invoices)
    BY <1>1, <2>3 DEF Failing
  <2>5. Payer(invoices) = NoUser
    BY <2>1, <2>4, PaidFacts, PayerIs
  <2>6. ~RunnerUpQualifies(row)
    <3>1. CASE row.winnerReassigned
      BY <2>2, <3>1 DEF RowOK, RunnerUpQualifies
    <3>2. CASE ~row.winnerReassigned
      BY <2>2, <2>4, <3>2 DEF RowOK, RunnerUpQualifies, Dead, Q
    <3> QED
      BY <3>1, <3>2
  <2>7. ~row.settled /\ row.outcome = "sold"
    BY <1>3, <2>1, <2>3, SoldFacts DEF CanFailSale, Failed
  <2>8. /\ row'.leadingBid = row.leadingBid /\ row'.runnerUpBid = row.runnerUpBid
        /\ row'.outcome = "not_sold" /\ row'.settled = TRUE
        /\ row'.relistGen = row.relistGen /\ row'.reserve = row.reserve
    BY <1>3, <2>2 DEF SaleFailed, RowOK, AuctionRow
  <2>9. /\ RunnerUpQualifies(row') = RunnerUpQualifies(row)
        /\ CanRelist(row') = CanRelist(row)
    BY <2>8, SameTerms
  <2>10. Decided(row) = "open" /\ Decided(row') = "failed"
    BY <2>7, <2>8 DEF Decided, Failed
  <2>11. /\ Verdict = "open" /\ Verdict' = "failed" /\ PaidBy = NoUser
         /\ PaidBy' = PaidBy
    BY <1>1, <2>5, <2>10, Mapping
  <2> QED
    BY <1>1, <2>6, <2>8, <2>9, <2>11 DEF S!Fail
<1> QED
  BY <1>2, <1>3 DEF FailSale

LEMMA RelistSeen ==
  ASSUME NEW h \in Hammered, Explains(h), NEW p \in Requests \cup {"expired"}, RelistSale(p)
  PROVE  S!Relist \/ UNCHANGED S!vars
<1>1. /\ run[p].pc = "relist" /\ UNCHANGED <<row, invoices>> /\ CanRelist(row)
      /\ replacement' = IF replacement = NoRow
                          THEN RelistedFrom(row, TheAuction, RelistWindow)
                          ELSE replacement
  BY DEF RelistSale, At
<1>2. CASE replacement # NoRow
  BY <1>1, <1>2, Unseen
<1>3. CASE replacement = NoRow
  <2>1. Failing(h, row, replacement, invoices, run[p])
    <3>1. p \in Processes
      BY Names
    <3>2. RunOK(p, h, row, replacement, invoices, saga, run[p])
      BY <3>1, Parts
    <3> QED
      BY <1>1, <3>2, LosingRun
  <2>2. Failed(row)
    BY <1>1, <2>1 DEF Failing
  <2>3. Decided(row) = "failed"
    BY <2>2 DEF Decided, Failed
  <2>4. Verdict = "failed" /\ Verdict' = Verdict /\ PaidBy' = PaidBy
    BY <1>1, <2>3, Mapping
  <2>5. replacement' # NoRow
    BY <1>1, <1>3, Parts, RelistedRow
  <2> QED
    BY <1>1, <1>3, <2>4, <2>5 DEF S!Relist
<1> QED
  BY <1>2, <1>3

\* Issuing, voiding or expiring an invoice is no payment.
LEMMA InvoiceUnseen ==
  ASSUME NEW h, Explains(h), Explains(h)', UNCHANGED <<row, replacement>>, NEW n \in Attempts,
         \A m \in Attempts \ {n} : invoices'[m] = invoices[m],
         invoices[n].status # "paid", invoices'[n].status # "paid"
  PROVE  UNCHANGED S!vars
<1>1. \A m \in Attempts : invoices'[m].status = "paid" <=> invoices[m].status = "paid"
  OBVIOUS
<1> QED
  BY <1>1, SamePayer, Unseen

LEMMA IssueUnseen ==
  ASSUME NEW h \in Hammered, Explains(h), Explains(h)', NEW n \in Attempts, NEW debtor,
         NEW hammer, IssueInvoice(n, debtor, hammer), UNCHANGED <<row, replacement>>
  PROVE  UNCHANGED S!vars
<1>1. CASE invoices[n].status # "absent"
  BY <1>1, Unseen DEF IssueInvoice
<1>2. CASE invoices[n].status = "absent"
  <2>1. PICK v : v = [status |-> "pending", debtor |-> debtor, hammer |-> hammer]
    OBVIOUS
  <2>2. invoices' = [invoices EXCEPT ![n] = v] /\ v.status = "pending"
    BY <1>2, <2>1 DEF IssueInvoice
  <2>3. invoices \in [Attempts -> Invoice]
    BY Parts DEF Consistent, InvoicesOK
  <2>4. invoices'[n].status = "pending" /\ \A m \in Attempts \ {n} : invoices'[m] = invoices[m]
    BY <2>2, <2>3
  <2> QED
    BY <1>2, <2>4, InvoiceUnseen
<1> QED
  BY <1>1, <1>2

\* A pending invoice is voided or expires.
LEMMA DeathUnseen ==
  ASSUME NEW h \in Hammered, Explains(h), Explains(h)', NEW n \in Attempts,
         NEW st \in {"expired", "voided"}, n = 1 => st # "voided",
         invoices[n].status = "pending",
         invoices' = Concluded(invoices, n, st), UNCHANGED <<row, replacement>>
  PROVE  UNCHANGED S!vars
<1>1. InvoicesOK(h, invoices)
  BY Parts DEF Consistent
<1>2. st \in {"paid", "expired", "voided"}
  OBVIOUS
<1>3. invoices'[n].status = st /\ \A m \in Attempts \ {n} : invoices'[m] = invoices[m]
  BY <1>1, <1>2, StatusChange
<1> QED
  BY <1>3, InvoiceUnseen

LEMMA VoidUnseen ==
  ASSUME NEW h \in Hammered, Explains(h), Explains(h)', NEW p \in Requests, VoidInvoice(p)
  PROVE  UNCHANGED S!vars
<1>1. PICK v, n : v = run[p] /\ n = run[p].saga.invoice
  OBVIOUS
<1>2. v.pc = "void" /\ UNCHANGED <<row, replacement>>
  BY <1>1 DEF VoidInvoice, At
<1>3. n = 2 /\ saga.attempt = 2 /\ saga # NoSaga
  <2>1. p \in Processes
    BY Names
  <2>2. DeclineRun(h, row, replacement, invoices, saga, v)
    BY <1>1, <2>1, Parts, RunIs
  <2> QED
    BY <1>1, <1>2, <2>2 DEF DeclineRun
<1>4. invoices[2].status \in {"pending", "paid", "expired", "voided"}
  <2>1. Consistent(h, row, replacement, invoices, saga)
    BY Parts
  <2>2. invoices[2].status # "absent"
    BY <1>3, <2>1 DEF Consistent, SagaOK, Records
  <2> QED
    BY <2>1, <2>2, BothAttempts DEF Consistent, InvoicesOK, Invoice
<1>5. CASE invoices[2].status = "pending"
  <2>1. invoices' = Concluded(invoices, 2, "voided")
    BY <1>1, <1>3, <1>5 DEF VoidInvoice, Concluded
  <2> QED
    BY <1>2, <1>5, <2>1, BothAttempts, DeathUnseen
<1>6. CASE invoices[2].status # "pending"
  <2>1. UNCHANGED invoices
    BY <1>1, <1>3, <1>4, <1>6 DEF VoidInvoice
  <2> QED
    BY <1>2, <2>1, Unseen
<1> QED
  BY <1>5, <1>6

\* Every step of the handlers, the requests and billing is a step of Sale or
\* is not seen.
LEMMA SaleStep ==
  ASSUME NEW h \in Hammered, Explains(h), [Next]_vars
  PROVE  S!Next \/ UNCHANGED S!vars
<1>0. Explains(h)'
  BY NextExplained
<1>a. UNCHANGED <<row, replacement, invoices>> => UNCHANGED S!vars
  BY Unseen
<1>1. CASE ClosedStep
  <2>1. CASE IssueFirst
    <3>1. PICK s : s = run["closed"].saga
      OBVIOUS
    <3>2. /\ run["closed"].pc = "issue" /\ IssueInvoice(s.invoice, s.winner, s.hammer)
          /\ UNCHANGED <<row, replacement>>
      BY <2>1, <3>1 DEF IssueFirst, At
    <3>3. ClosedRun(h, invoices, saga, run["closed"])
      BY Parts, Names, RunIs
    <3>4. s.invoice \in Attempts
      BY <3>1, <3>2, <3>3, BothAttempts DEF ClosedRun
    <3> QED
      BY <1>0, <3>2, <3>4, IssueUnseen
  <2>2. CASE DecideClosed \/ CommitClosed \/ Ack("closed")
    BY <1>a, <2>2 DEF DecideClosed, CommitClosed, Commit, Ack
  <2> QED
    BY <1>1, <2>1, <2>2 DEF ClosedStep
<1>2. CASE PaidStep
  <2>1. CASE ConfirmSale
    BY <2>1, ConfirmSeen DEF S!Next
  <2>2. CASE DecidePaid \/ CommitPaid \/ Ack("paid")
    BY <1>a, <2>2 DEF DecidePaid, CommitPaid, Commit, Ack
  <2> QED
    BY <1>2, <2>1, <2>2 DEF PaidStep
<1>3. CASE ExpiredStep
  <2>0. "expired" \in Requests \cup {"expired"}
    OBVIOUS
  <2>1. CASE AwardRunnerUp
    BY <2>1, AwardSeen DEF S!Next
  <2>2. CASE FailSale("expired")
    BY <2>0, <2>2, FailSeen DEF S!Next
  <2>3. CASE RelistSale("expired")
    BY <2>0, <2>3, RelistSeen DEF S!Next
  <2>4. CASE DecideExpired \/ CommitExpired \/ Ack("expired")
    BY <1>a, <2>4 DEF DecideExpired, CommitExpired, Commit, Ack
  <2> QED
    BY <1>3, <2>1, <2>2, <2>3, <2>4 DEF ExpiredStep
<1>4. CASE ReassignedStep
  <2>1. CASE IssueSecond
    <3>1. PICK s : s = run["reassigned"].saga
      OBVIOUS
    <3>2. IssueInvoice(2, s.runnerUp, s.runnerUpAmount) /\ UNCHANGED <<row, replacement>>
      BY <2>1, <3>1 DEF IssueSecond
    <3> QED
      BY <1>0, <3>2, BothAttempts, IssueUnseen
  <2>2. CASE DecideReassigned \/ CommitReassigned \/ Ack("reassigned")
    BY <1>a, <2>2 DEF DecideReassigned, CommitReassigned, Commit, Ack
  <2> QED
    BY <1>4, <2>1, <2>2 DEF ReassignedStep
<1>5. ASSUME NEW p \in Requests, NEW actor \in Users, DecideDecline(p, actor)
      PROVE  UNCHANGED S!vars
  BY <1>a, <1>5 DEF DecideDecline, world
<1>6. ASSUME NEW p \in Requests, DeclineStep(p)
      PROVE  S!Next \/ UNCHANGED S!vars
  <2>0. p \in Requests \cup {"expired"}
    OBVIOUS
  <2>1. CASE VoidInvoice(p)
    BY <1>0, <2>1, VoidUnseen
  <2>2. CASE FailSale(p)
    BY <2>0, <2>2, FailSeen DEF S!Next
  <2>3. CASE RelistSale(p)
    BY <2>0, <2>3, RelistSeen DEF S!Next
  <2>4. CASE CommitDecline(p)
    BY <1>a, <2>4 DEF CommitDecline
  <2> QED
    BY <1>6, <2>1, <2>2, <2>3, <2>4 DEF DeclineStep
<1>7. ASSUME NEW p \in Processes, Crash(p)
      PROVE  UNCHANGED S!vars
  BY <1>a, <1>7 DEF Crash, world
<1>8. ASSUME NEW g \in Groups, HandlerFails(g)
      PROVE  UNCHANGED S!vars
  BY <1>a, <1>8 DEF HandlerFails, world
<1>9. CASE Republish \/ UNCHANGED vars
  BY <1>a, <1>9 DEF Republish, world, vars
<1>10. ASSUME NEW n \in Attempts, Pay(n)
       PROVE  S!Next
  BY <1>0, <1>10, PaySeen DEF S!Next
<1>11. ASSUME NEW n \in Attempts, Expire(n)
       PROVE  UNCHANGED S!vars
  <2>1. /\ invoices[n].status = "pending" /\ UNCHANGED <<row, replacement>>
        /\ invoices' = Concluded(invoices, n, "expired")
    BY <1>11 DEF Expire, Conclude, Concluded
  <2> QED
    BY <1>0, <2>1, DeathUnseen
<1> QED
  BY <1>1, <1>2, <1>3, <1>4, <1>5, <1>6, <1>7, <1>8, <1>9, <1>10, <1>11 DEF Next

LEMMA SaleInit == Init => S!Init
<1> SUFFICES ASSUME Init PROVE S!Init
  OBVIOUS
<1>1. PICK h \in Hammered : h = row
  BY DEF Init
<1>2. /\ replacement = NoRow /\ invoices[1].status = "absent"
      /\ invoices[2].status = "absent"
  BY BothAttempts DEF Init, NoInvoice
<1>3. Payer(invoices) = NoUser
  BY <1>2 DEF Payer, Attempts
<1>4. /\ row.settled = FALSE /\ row.outcome \in {"sold", "not_sold"}
      /\ row.outcome = "sold" => row.leadingBid # ZeroBid
      /\ row.leadingBid # ZeroBid => row.leadingBid.bidder \in Users
      /\ row.runnerUpBid # ZeroBid => /\ row.runnerUpBid.bidder \in Users
                                      /\ row.runnerUpBid.bidder # row.leadingBid.bidder
      /\ row.leadingBid \in Bid /\ row.runnerUpBid \in Bid
  BY <1>1, HammeredFacts
<1>5. /\ row.leadingBid.bidder \in Users \cup {NoUser}
      /\ row.runnerUpBid.bidder \in Users \cup {NoUser}
  BY <1>4 DEF Bid
<1>6. \/ row.outcome = "sold" /\ Decided(row) = "open"
      \/ row.outcome = "not_sold" /\ Decided(row) = "unsold"
  BY <1>4 DEF Decided, Failed
<1>7. Decided(row) = "open" =>
        /\ row.leadingBid.bidder # NoUser
        /\ (IF RunnerUpQualifies(row) THEN row.runnerUpBid.bidder ELSE NoUser)
             # row.leadingBid.bidder
  BY <1>4, <1>6, DomainAssumption DEF RunnerUpQualifies
<1>8. CanRelist(row) \in BOOLEAN
  BY DEF CanRelist
<1>9. PaidBy = NoUser /\ Verdict = Decided(row)
  BY <1>3, Mapping
<1>10. Verdict \in {"unsold", "open"}
  BY <1>6, <1>9
<1> QED
  BY <1>2, <1>5, <1>7, <1>8, <1>9, <1>10 DEF S!Init

\* Settlement implements Sale: whatever the handlers race, crash and repeat,
\* seen from outside the lot is paid for at most once, passed on at most once
\* and only unpaid, failed only when nobody is left to pay, and relisted once.
THEOREM SaleRefined == Spec => ImplementsSale
<1>1. IInv /\ [Next]_vars => [S!Next]_(S!vars)
  <2> SUFFICES ASSUME IInv, [Next]_vars PROVE S!Next \/ UNCHANGED S!vars
    OBVIOUS
  <2>1. PICK h \in Hammered : Explains(h)
    BY DEF IInv
  <2> QED
    BY <2>1, SaleStep
<1> QED
  BY <1>1, SaleInit, Invariance, PTL DEF Spec, ImplementsSale, S!Spec
=============================================================================
