------------------------------ MODULE Fractions -------------------------------
(* Exact fractions <<a, b>>, b > 0, in their lowest terms, for the floats of *)
(* the statistics; NaN is <<0, 0>> and makes NaN of all it meets.            *)
EXTENDS Integers

NaN == <<0, 0>>
IsNaN(x) == x[2] = 0

LOCAL Abs(a) == IF a < 0 THEN -a ELSE a
Gcd[a \in Nat, b \in Nat] == IF b = 0 THEN a ELSE Gcd[b, a % b]

Frac(a, b) ==
  IF b = 0 THEN NaN ELSE LET g == Gcd[Abs(a), b] IN <<a \div g, b \div g>>
Whole(a) == <<a, 1>>
x ** y == Frac(x[1] * y[1], x[2] * y[2])
x // y == IF IsNaN(y) \/ y[1] = 0 THEN NaN ELSE Frac(x[1] * y[2], x[2] * y[1])
x ++ y == LET g == Gcd[x[2], y[2]] IN
          IF IsNaN(x) \/ IsNaN(y) THEN NaN
          ELSE Frac(x[1] * (y[2] \div g) + y[1] * (x[2] \div g), (x[2] \div g) * y[2])
Less(x, y) == x[1] * y[2] < y[1] * x[2]
=============================================================================
