------------------------------ MODULE Rational ------------------------------
(***************************************************************************)
(* Rational numbers num/den of ints (class Rational), always normalized.   *)
(* A den of 0 is the error state: num is then positive, negative or 0 for  *)
(* +INF, -INF and NAN.  Intermediate results are long long and, but for    *)
(* those of parse, too small to overflow.                                  *)
(***************************************************************************)
EXTENDS Integers

CONSTANTS
  INT_MAX,     \* the largest int; the smallest is -INT_MAX - 1
  LLONG_MAX    \* the largest long long

ASSUME IntAssumption == INT_MAX \in Nat \ {0} /\ LLONG_MAX \in Nat /\ LLONG_MAX >= INT_MAX

Abs(n) == IF n < 0 THEN -n ELSE n

\* n / d rounds towards 0.
Quotient(n, d) ==
  LET q == Abs(n) \div Abs(d) IN IF (n < 0) = (d < 0) THEN q ELSE -q

\* Greatest Common Divisor
gcd(n, m) ==
  LET Euclid[p \in Nat \X Nat] == IF p[2] = 0 THEN p[1] ELSE Euclid[<<p[2], p[1] % p[2]>>]
  IN  Euclid[<<Abs(n), Abs(m)>>]

overflow_value(n, negate) ==
  IF n = 0 THEN 0 ELSE IF (n > 0) = negate THEN -INT_MAX ELSE INT_MAX

Rat(n, d) == [num |-> n, den |-> d]
Limits    == -INT_MAX .. INT_MAX
error(r) == r.den <= 0

\* normalize( n, d ) of two long longs, whose quotient may be too large.
normalize_Unreduced(n, d) ==                                                \* mutant
  LET g == gcd(n, d)
      x == Quotient(n, g)
      y == Quotient(d, g)
  IN  IF d = 0 THEN Rat(overflow_value(n, FALSE), 0)
      ELSE IF n = 0 THEN Rat(0, 1)
      ELSE IF n \in Limits /\ d \in Limits
      THEN IF y >= 0 THEN Rat(x, y) ELSE Rat(-x, -y)
      ELSE Rat(overflow_value(n, d < 0), 0)
normalize(n, d) ==
  LET g == gcd(n, d)
      x == Quotient(n, g)
      y == Quotient(d, g)
  IN  IF d = 0 THEN Rat(overflow_value(n, FALSE), 0)
      ELSE IF n = 0 THEN Rat(0, 1)
      ELSE IF x \in Limits /\ y \in Limits
      THEN IF y >= 0 THEN Rat(x, y) ELSE Rat(-x, -y)
      ELSE Rat(overflow_value(n, d < 0), 0)

inverse(r) ==
  IF error(r) THEN r
  ELSE IF r.num > 0 THEN Rat(r.den, r.num)
  ELSE IF r.num < 0 THEN Rat(-r.den, -r.num)
  ELSE Rat(overflow_value(r.den, FALSE), 0)

\* operator+= and operator*=: an error stays, whatever is added.
plus(r, s) ==
  IF error(r) THEN r
  ELSE IF error(s) THEN Rat(s.num, 0)
  ELSE normalize(r.num * s.den + s.num * r.den, r.den * s.den)

times(r, s) ==
  IF error(r) THEN r
  ELSE IF error(s) THEN Rat(s.num, 0)
  ELSE normalize(r.num * s.num, r.den * s.den)

round(r) ==
  LET rest == Abs(r.num) % r.den
      up   == IF rest > 0 /\ rest >= r.den - rest THEN 1 ELSE 0
      q    == Quotient(r.num, r.den)
  IN  IF error(r) THEN r.num
      ELSE IF r.num >= 0 THEN q + up ELSE q - up

\* parse: what a text denotes, if anything.  x.n are its digits without the point, of
\* which x.point are decimals; there may be a sign, a denominator x.d, and a '%'.
Power10[k \in Nat] == IF k = 0 THEN 1 ELSE 10 * Power10[k - 1]
parse(x) ==
  LET d == IF x.slash THEN x.d ELSE Power10[x.point]
      p == IF ~x.percent THEN <<x.n, d>>
           ELSE IF x.n % 100 = 0 THEN <<x.n \div 100, d>>
           ELSE IF x.n % 10 = 0 /\ d * 10 <= LLONG_MAX THEN <<x.n \div 10, d * 10>>
           ELSE <<x.n, d * 100>>
      r == normalize(IF x.minus THEN -p[1] ELSE p[1], p[2])
  IN  IF x.n > LLONG_MAX \/ d > LLONG_MAX \/ d = 0 \/ p[2] > LLONG_MAX \/ error(r)
      THEN {} ELSE {r}
=============================================================================
