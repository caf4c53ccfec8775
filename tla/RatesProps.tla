----------------------------- MODULE RatesProps -----------------------------
(***************************************************************************)
(* What the limits on rates and times promise, and the rational numbers    *)
(* that simulated pauses are counted in.                                   *)
(***************************************************************************)
EXTENDS Rates

Exceeded(limit) == limit \in r'.e_code \ r.e_code

\* The timeout expires only when more real and simulated seconds have passed since the
\* last success seen, also if the clock was set back in between.  It may come early
\* only if the clock was set ahead, or back before a pause.
TimeoutNotEarly ==
  [][Exceeded("timeout") => g'.doubt \/ g'.idle > opts.timeout]_vars

\* If the clock was never set, it expires at the first read without success after that
\* time, but for the second in which the run began.
TimeoutNotMissed ==
  [][(/\ pc = "rates" /\ pc' # "rates" /\ sets = 0 /\ opts.timeout >= 0
      /\ Computes(FALSE) /\ r.t1 > r.t0 /\ r.finished_size = r.last_size
      /\ g'.idle > opts.timeout)
        => "timeout" \in r'.e_code]_vars

\* The error rate is too high only if so many bytes failed in the seconds since it was
\* last computed, unless the clock was set or the program paused for a pass meanwhile.
ErrorRateNotEarly ==
  [][Exceeded("error_rate") =>
       LET seconds == g.since + Seconds(pc = "end")
       IN  g.spoilt \/ r.error_sum > opts.max_error_rate * max(1, seconds)]_vars

\* No limit is found exceeded before its time, whatever happens to the clock, and the
\* timeout is not missed.
LimitsExact == TimeoutNotEarly /\ TimeoutNotMissed /\ ErrorRateNotEarly

-----------------------------------------------------------------------------

\* "gcd( num, den ) == 1 && den > 0. Range extends from INT_MAX to -INT_MAX"
\* (rational.h:21-22).
Normal(x) == x.den \in 1 .. INT_MAX /\ Abs(x.num) <= INT_MAX /\ gcd(x.num, x.den) = 1
Rationals == {x \in [num : -INT_MAX .. INT_MAX, den : 1 .. INT_MAX] : Normal(x)}

\* Among the numbers Q, x is n / d (d # 0), or an error with the sign of n / d if that
\* is none of them.
Is(Q, x, n, d) ==
  IF \E y \in Q : y.num * d = n * y.den
  THEN x \in Q /\ x.num * d = n * x.den
  ELSE error(x) /\ x.num # 0 /\ (x.num > 0) = ((n > 0) = (d > 0))

\* Numbers as the options give them: decimals, fractions and percentages.
Texts ==
  [minus : BOOLEAN, n : {0, 3, 5, 20, 25, 45}, point : 0 .. 2, slash : {FALSE}, d : {1},
   percent : BOOLEAN]
    \cup [minus : BOOLEAN, n : {0, 2, 6, 10}, point : {0}, slash : {TRUE},
          d : {0, 1, 4, 7}, percent : {FALSE}]
Scale(x) == (IF x.slash THEN x.d ELSE Power10[x.point]) * IF x.percent THEN 100 ELSE 1

\* The arithmetic on the pauses is exact or ends in an error of the right sign, never
\* in another number; round gives the nearest integer, halves away from 0 ("nearest
\* integer; -1.5 ==> -2,  1.5 ==> 2", rational.h:128); parse gives exactly what is
\* written or refuses it.  (What is pending is added to and multiplied by every number;
\* the texts are looked at once, at the begin of a run, when the options are parsed.)
RationalExact ==
  /\ r.tp.num > 0 =>
       LET Q == Rationals
           x == r.tp
       IN  \A y \in Q :
             /\ ~error(x) =>
                  /\ Is(Q, plus(x, y), x.num * y.den + y.num * x.den, x.den * y.den)
                  /\ Is(Q, times(x, y), x.num * y.num, x.den * y.den)
             /\ IF y.num = 0 THEN error(inverse(y)) ELSE Is(Q, inverse(y), y.den, y.num)
             /\ LET far == 2 * Abs(round(y) * y.den - y.num)
                IN  far <= y.den /\ (far = y.den => Abs(round(y)) * y.den > Abs(y.num))
  /\ clock = Start /\ pc = "rates" /\ sets = 0 /\ errors = 0 /\ r.finished_size = 0 =>
       LET Q == Rationals
       IN  \A t \in Texts : \A y \in parse(t) :
             Is(Q, y, IF t.minus THEN -t.n ELSE t.n, Scale(t)) /\ ~error(y)
=============================================================================
