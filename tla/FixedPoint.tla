----------------------------- MODULE FixedPoint -----------------------------
(***************************************************************************)
(* The fixed-point arithmetic of packages/shared/src/decimal.ts and the    *)
(* lock formulas of packages/engine/src/locks.ts.  Amounts are bigints, so *)
(* there is no width to wrap around; what matters is which way each        *)
(* division rounds, and that is kept exactly.  TLA+'s \div is floor        *)
(* division for a positive divisor, whatever the sign of the dividend.     *)
(***************************************************************************)
EXTENDS Integers

CONSTANTS SCALE,  \* units per whole (10^8 in the code)
          BPS     \* basis points per whole (10_000 in the code)

ASSUME FixedPointAssumption == SCALE \in Nat \ {0} /\ BPS \in Nat \ {0}

AbsBig(v) == IF v < 0 THEN -v ELSE v
MinBig(a, b) == IF a < b THEN a ELSE b
MaxBig(a, b) == IF a > b THEN a ELSE b
SignBig(v) == IF v < 0 THEN -1 ELSE IF v > 0 THEN 1 ELSE 0

\* divRound(num, den, mode) for the three modes the engine uses, den > 0.
DivFloor(num, den) == num \div den
DivCeil(num, den) == -((-num) \div den)
DivHalfUp(num, den) ==
  IF num < 0 THEN -((2 * (-num) + den) \div (2 * den))
             ELSE (2 * num + den) \div (2 * den)

\* qty x price -> notional, rounded down.
MulUnits(a, b) == DivFloor(a * b, SCALE)

\* A fee of `bps` basis points, rounded up.
FeeOn(amount, bps) == DivCeil(amount * bps, BPS)

\* What an order keeps locked: limit notional plus a taker-fee reserve (spot
\* buy), or initial margin plus the reserve (perp).
SpotBuyLock(limitPrice, rem, takerFeeBps) ==
  LET n == MulUnits(limitPrice, rem) IN n + FeeOn(n, takerFeeBps)

PerpLock(limitPrice, rem, leverage, takerFeeBps) ==
  LET n == MulUnits(limitPrice, rem)
  IN  DivCeil(n, leverage) + FeeOn(n, takerFeeBps)

=============================================================================
