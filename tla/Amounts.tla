------------------------------ MODULE Amounts ------------------------------
(***************************************************************************)
(* Money as the services compute it.  A stored amount (a NUMERIC(14,2)     *)
(* column) is a number of cents.  A request carries a Decimal of any       *)
(* precision; it is a number of mils here (a tenth of a cent), the coarsest*)
(* unit in which rounding to cents still loses something.  A percentage is *)
(* in basis points: the settings columns keep two decimals.                *)
(***************************************************************************)
EXTENDS Integers, FiniteSets, FiniteSetsExt

MilsPerCent == 10
BasisPoints == 10000

\* Decimal division rounded ROUND_HALF_UP, for n >= 0 and d > 0.
HalfUp(n, d) == (2 * n + d) \div (2 * d)

\* _quantize(amount): also what PostgreSQL does to a Decimal it stores.
Quantize(mils) == HalfUp(mils, MilsPerCent)

\* _quantize(base_amount * percent): the base is not quantized first.
LevelAmount(mils, percent) == HalfUp(mils * percent, MilsPerCent * BasisPoints)

\* "if pending_balance < 0: pending_balance = 0".
AtLeastZero(x) == IF x < 0 THEN 0 ELSE x

\* The sum of the column "amount" over a set of rows.
Total(rows) == MapThenSumSet(LAMBDA row : row.amount, rows)

\* The rows of one user.
Of(user, rows) == {row \in rows : row.user = user}
=============================================================================
