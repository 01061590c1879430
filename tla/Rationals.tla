------------------------------ MODULE Rationals ------------------------------
(***************************************************************************)
(* Numbers for the code's doubles: exact fractions <<n, d>> in lowest      *)
(* terms with d > 0, and NaN, which spreads through every operation and    *)
(* fails every comparison.  Rounding and infinities are left out.          *)
(***************************************************************************)
EXTENDS Integers, Sequences, SequencesExt, FiniteSetsExt

NaN == <<0, 0>>

IsNaN(x) == x[2] = 0

Magnitude(n) == IF n < 0 THEN -n ELSE n

Gcd[p \in Nat \X Nat] == IF p[2] = 0 THEN p[1] ELSE Gcd[<<p[2], p[1] % p[2]>>]

Frac(n, d) ==
    LET g == Gcd[<<Magnitude(n), Magnitude(d)>>]
        s == IF d < 0 THEN -1 ELSE 1
    IN IF d = 0 THEN NaN ELSE <<(s * n) \div g, (s * d) \div g>>

Num(n) == <<n, 1>>

Zero == Num(0)
One == Num(1)

Plus(x, y) == Frac(x[1] * y[2] + y[1] * x[2], x[2] * y[2])

Minus(x, y) == Frac(x[1] * y[2] - y[1] * x[2], x[2] * y[2])

Times(x, y) == Frac(x[1] * y[1], x[2] * y[2])

Over(x, y) == IF IsNaN(y) THEN NaN ELSE Frac(x[1] * y[2], x[2] * y[1])

Less(x, y) == ~IsNaN(x) /\ ~IsNaN(y) /\ x[1] * y[2] < y[1] * x[2]

AtMost(x, y) == ~IsNaN(x) /\ ~IsNaN(y) /\ x[1] * y[2] <= y[1] * x[2]

Positive(x) == Less(Zero, x)
Negative(x) == Less(x, Zero)

\* The sum of op over a sequence and over a set, and of integers.
Total(op(_), s) == FoldLeft(LAMBDA a, e : Plus(a, op(e)), Zero, s)

TotalSet(op(_), S) == FoldSet(LAMBDA e, a : Plus(a, op(e)), Zero, S)

Count(op(_), s) == FoldLeft(LAMBDA a, e : a + op(e), 0, s)

Clamp(x, lo, hi) == IF Less(x, lo) THEN lo ELSE IF Less(hi, x) THEN hi ELSE x

\* For x / sqrt(v): its square, with the sign of x.
SignedSquare(x, v) ==
    LET q == Over(Times(x, x), v) IN IF Negative(x) THEN Minus(Zero, q) ELSE q

\* The last n elements.
Latest(s, n) == IF Len(s) <= n THEN s ELSE SubSeq(s, Len(s) - n + 1, Len(s))

==============================================================================
