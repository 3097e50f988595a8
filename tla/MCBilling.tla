------------------------------ MODULE MCBilling ------------------------------
(* Instances of Billing for TLC.                                           *)
EXTENDS Billing

CONSTANTS u1, u2, a1, i1, i2

Order(id, attempt, debtor, hammer) ==
  [id |-> id, auction |-> a1, attempt |-> attempt, debtor |-> debtor,
   hammer |-> hammer]

\* Both attempts of one auction, and an attempt repeated under another id.
TwoAttempts == {Order(i1, 1, u1, 7), Order(i2, 2, u2, 4), Order(i2, 1, u1, 7)}
==============================================================================
