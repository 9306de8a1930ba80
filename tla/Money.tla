-------------------------------- MODULE Money --------------------------------
(***************************************************************************)
(* money/money.go.  An amount is an integer, in units of the eighth        *)
(* decimal place, the last that products and quotients keep; Cent of them  *)
(* are a cent.  The roundings are those of shopspring/decimal, which       *)
(* computes without loss.  The digits themselves are left out.             *)
(*                                                                         *)
(* A definition named Slip... is a bug a later change could make in the    *)
(* definition after it; the project's mutation runs put it in its place.   *)
(***************************************************************************)
EXTENDS Integers

CONSTANTS
  Cent,              \* units in a cent
  Int64              \* one more than the largest int64

ASSUME MoneyAssumption == Cent \in Nat \ {0} /\ Int64 \in Nat \ {0}

One == 100 * Cent

---------------------------------------------------------------------------
(* Quotients, n by d > 0.                                                  *)

\* Half away from zero: Round, DivRound.
HalfAway(n, d) == IF n >= 0 THEN (2 * n + d) \div (2 * d) ELSE -((2 * (-n) + d) \div (2 * d))

\* Half to the even neighbour: RoundBank.
HalfEven(n, d) ==
  LET q == n \div d
      r == 2 * (n % d)
  IN  IF r > d \/ (r = d /\ q % 2 = 1) THEN q + 1 ELSE q

SlipTruncate(x) == Cent * (x \div Cent)

RoundToCent(x) == Cent * HalfAway(x, Cent)

\* RoundCeil.
RoundUpToCent(x) == -(Cent * ((-x) \div Cent))

\* RoundFloor: downwards for negative amounts as well, where the comment in the code
\* says towards zero.
RoundDownToCent(x) == Cent * (x \div Cent)

\* The value FormatAmount writes.
FormatAmount(x) == Cent * HalfEven(x, Cent)

MultiplyAmount(a, b) == HalfAway(a * b, One)

\* The rules a caller may pass; without one, or with "cent", it is RoundToCent.
Rounding(rule, x) ==
  CASE rule = "up" -> RoundUpToCent(x)
    [] rule = "down" -> RoundDownToCent(x)
    [] OTHER -> RoundToCent(x)

\* The quotient with eight places.
DivRound(numerator, denominator) ==
  IF denominator > 0 THEN HalfAway(numerator * One, denominator)
  ELSE HalfAway(-numerator * One, -denominator)

\* It is rounded to eight places first, and by the rule then.
DivideAmount(numerator, denominator, rule) == Rounding(rule, DivRound(numerator, denominator))

\* IntPart keeps the low 64 bits.
ToMinorUnits(x) == ((HalfAway(x, Cent) + Int64) % (2 * Int64)) - Int64

FromMinorUnits(units) == units * Cent

---------------------------------------------------------------------------
\* Both shares rounded, and what their sum lacks of the rounded total.
Rounded(userShare, platformShare) ==
  LET user == RoundToCent(userShare)
      platform == RoundToCent(platformShare)
  IN  [user |-> user, platform |-> platform,
       residual |-> RoundToCent(userShare + platformShare) - (user + platform)]

SlipResidualStays(userShare, platformShare, mode) ==
  LET r == Rounded(userShare, platformShare) IN
  CASE mode = "allocate_to_user" -> [r EXCEPT !.user = RoundToCent(@ + r.residual)]
    [] mode = "allocate_to_platform" -> [r EXCEPT !.platform = RoundToCent(@ + r.residual)]
    [] OTHER -> r

\* An unknown mode is "extract".
SettleUserPlatform(userShare, platformShare, mode) ==
  LET r == Rounded(userShare, platformShare) IN
  CASE mode = "allocate_to_user" ->
         [r EXCEPT !.user = RoundToCent(@ + r.residual), !.residual = 0]
    [] mode = "allocate_to_platform" ->
         [r EXCEPT !.platform = RoundToCent(@ + r.residual), !.residual = 0]
    [] OTHER -> r

---------------------------------------------------------------------------
(* What callers can rely on.                                               *)

Near(x, y, d) == -d <= x - y /\ x - y <= d

\* A settlement pays out the rounded total and not a cent more or less: what is given
\* and what is left add up to it, nothing is left when one side takes it, and what is
\* left never exceeds a cent.  Neither side is off by more than half a cent, the one
\* that takes the residual by one and a half.
SettlementExact(userShare, platformShare, mode) ==
  LET s == SettleUserPlatform(userShare, platformShare, mode) IN
  /\ s.user + s.platform + s.residual = RoundToCent(userShare + platformShare)
  /\ Near(s.residual, 0, Cent)
  /\ s.residual # 0 => mode \notin {"allocate_to_user", "allocate_to_platform"}
  /\ Near(2 * s.user, 2 * userShare, IF mode = "allocate_to_user" THEN 3 * Cent ELSE Cent)
  /\ Near(2 * s.platform, 2 * platformShare, IF mode = "allocate_to_platform" THEN 3 * Cent ELSE Cent)

\* What the comment on RoundDownToCent says it does: the part below a cent is cut off.
CutTowardsZero(x) == IF x >= 0 THEN Cent * (x \div Cent) ELSE -(Cent * ((-x) \div Cent))

\* What it does: the same for an amount that is not negative and for whole cents.  Any
\* other negative amount is rounded away from zero, to a cent less than the comment says.
DownAsSaid(x) ==
  RoundDownToCent(x) = IF x >= 0 \/ x % Cent = 0 THEN CutTowardsZero(x) ELSE CutTowardsZero(x) - Cent

\* A quotient is off by no more than half the last place and what the rule may add:
\* upwards for "up", downwards for "down", for both signs.  So "down" is towards zero, as
\* its comment has it, only for quotients that are not negative.
DivisionNear(numerator, denominator, rule) ==
  LET n == (IF denominator > 0 THEN numerator ELSE -numerator) * One
      d == IF denominator > 0 THEN denominator ELSE -denominator
      off == 2 * (DivideAmount(numerator, denominator, rule) * d - n)
  IN
  CASE rule = "up" -> -d <= off /\ off < (2 * Cent + 1) * d
    [] rule = "down" -> /\ -(2 * Cent + 1) * d < off /\ off <= d
                        /\ DownAsSaid(DivRound(numerator, denominator))
    [] OTHER -> Near(off, 0, (Cent + 1) * d)

\* Minor units and back: whole cents that an int64 can count return unchanged.
MinorUnitsReturn(x) ==
  x % Cent = 0 /\ -Int64 <= x \div Cent /\ x \div Cent < Int64
    => FromMinorUnits(ToMinorUnits(x)) = x
=============================================================================
