-------------------------------- MODULE Money --------------------------------
(***************************************************************************)
(* Money of the auction and billing contexts: an int64 amount of minor     *)
(* units.  Both contexts keep their own copy of the type; the arithmetic   *)
(* is the same.  Amounts are non-negative when a Money is built, and       *)
(* nothing bounds them below MaxInt, so the sum and the product of two of  *)
(* them may leave the int64 range; Go wraps around silently.               *)
(***************************************************************************)
EXTENDS Integers

CONSTANT MaxInt     \* the largest int64; TLC uses a small stand-in

ASSUME MaxIntAssumption == MaxInt \in Nat \ {0}

\* Money.Add on two non-negative amounts, with int64 wrap-around.
Add(x, y) == IF x + y <= MaxInt THEN x + y ELSE x + y - 2 * (MaxInt + 1)

\* Reduction of any integer to the int64 range.
Wrap(x) == ((x + MaxInt + 1) % (2 * (MaxInt + 1))) - (MaxInt + 1)

\* Go's integer division truncates towards zero.
Quotient(x, d) == IF x >= 0 THEN x \div d ELSE -((-x) \div d)

\* Money.MulBasisPoints: the product wraps before it is divided.
MulBasisPoints(x, bp, scale) == Quotient(Wrap(x * bp), scale)
==============================================================================
