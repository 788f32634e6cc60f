------------------------------- MODULE Ratios -------------------------------
(***************************************************************************)
(* Exact ratios <<numerator, denominator>> in lowest terms, with a         *)
(* positive denominator: they stand for the floating point numbers in      *)
(* which src/paper_executor/pnl.rs keeps averages and P&L.                 *)
(***************************************************************************)
EXTENDS Integers, FiniteSetsExt

Divisor(n, d) == Max({k \in 1..d : d % k = 0 /\ n % k = 0})
Ratio(n, d) == <<n \div Divisor(n, d), d \div Divisor(n, d)>>
Whole(n) == <<n, 1>>
Plus(a, b) == Ratio(a[1] * b[2] + b[1] * a[2], a[2] * b[2])
Times(n, a) == Ratio(n * a[1], a[2])
Minus(a, b) == Plus(a, Times(-1, b))
AtMost(a, b) == a[1] * b[2] <= b[1] * a[2]
=============================================================================
