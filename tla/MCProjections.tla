---------------------------- MODULE MCProjections ----------------------------
(* Instances of Projections for TLC: one auction, open at 1, whose bids     *)
(* extend it once.                                                          *)
EXTENDS Projections, TLC

CONSTANTS s1, b1, b2

Open == [startsAt |-> 1, endsAt |-> 2]

SnipeRules == [verifyAbove |-> 9, snipeWindow |-> 1, extension |-> 1,
               maxExtensions |-> 1]

\* The bidders are interchangeable; the seller is not.
Bidders == Permutations({b1, b2})
=============================================================================
