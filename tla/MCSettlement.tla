---------------------------- MODULE MCSettlement ----------------------------
(* Instances of Settlement for TLC.                                        *)
EXTENDS Settlement

CONSTANTS s1, b1, b2, a1

Rules == [verifyAbove |-> 9, snipeWindow |-> 1, extension |-> 1,
          maxExtensions |-> 0]

\* An auction of s1 that ended at 5, with this reserve and these bids of b1
\* and then b2; gen 1 is itself a replacement.
Ended(reserve, gen, first, second) ==
  LET w == [startsAt |-> 1, endsAt |-> 5]
      a == [New(s1, 1, 1, reserve, w, Rules) EXCEPT !.relistGen = gen]
      one == IF first = 0 THEN a ELSE WithBid(a, b1, first, 2)
  IN  Closed(IF second = 0 THEN one ELSE WithBid(one, b2, second, 3))

\* Originals and replacements, with one bid, a qualifying runner-up and one
\* below the reserve, and one that missed the reserve.
SomeHammered ==
  {Ended(0, 0, 1, 0), Ended(2, 1, 2, 0), Ended(0, 0, 1, 2), Ended(1, 1, 1, 3),
   Ended(2, 0, 1, 2), Ended(3, 1, 2, 3), Ended(4, 0, 1, 3)}

NextWindow == [startsAt |-> 7, endsAt |-> 9]
=============================================================================
