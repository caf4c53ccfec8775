---------------------------- MODULE RatesProofs -----------------------------
(***************************************************************************)
(* A timeout never comes early, and the arithmetic on the pauses is exact, *)
(* for all options, clocks, bounds and sizes of integers.                  *)
(*                                                                         *)
(* The inductive invariant IInv says that the program never takes the last *)
(* success for longer ago than the history does, neither now nor when the  *)
(* rates were last computed (IdleBounds), as long as nothing makes it      *)
(* doubtful and the timeout has not expired yet.  That the arithmetic is   *)
(* exact needs only the types: it rests on Euclid's algorithm, which finds *)
(* the greatest common divisor, and on lowest terms, which are unique.     *)
(***************************************************************************)
EXTENDS RatesProps, TLAPS, WellFoundedInduction, FiniteSetTheorems

\* The variables have their types, and the run did not begin before time 1.
RState ==
  [t0 : Int, t1 : Int, ts : Int, tp : [num : Int, den : Int], finished_size : Int,
   last_size : Int, error_sum : Int,
   e_code : SUBSET {"timeout", "error_rate", "slow_reads"}, rates_updated : BOOLEAN,
   slow_reads : Int]
GState == [idle : Nat, since : Int, doubt : BOOLEAN, spoilt : BOOLEAN]
Types ==
  clock \in Int /\ opts \in RbOption /\ r \in RState /\ r.t0 >= 1 /\ g \in GState

\* As long as nothing makes the time of the last success doubtful, the program takes it
\* for no longer ago than it is, now and when it last looked at the clock.
IdleBounds(q, now, idle) == now - q.ts <= idle /\ q.t1 - q.ts <= idle
NotEarlier == ~g.doubt /\ "timeout" \notin r.e_code => IdleBounds(r, clock, g.idle)

IInv == Types /\ NotEarlier

-----------------------------------------------------------------------------
\* Adding pauses gives a pair of integers.
LEMMA PlusType ==
  ASSUME NEW x \in [num : Int, den : Int], NEW y \in [num : Int, den : Int]
  PROVE  plus(x, y) \in [num : Int, den : Int]
<1> USE IntAssumption
<1>1. ASSUME NEW n \in Int, NEW d \in Int PROVE normalize(n, d) \in [num : Int, den : Int]
  <2> DEFINE a == Quotient(n, gcd(n, d))
             c == Quotient(d, gcd(n, d))
             nan == overflow_value(n, FALSE)
             inf == overflow_value(n, d < 0)
  <2>1. nan \in Int
      BY DEF overflow_value
  <2>2. inf \in Int
      BY DEF overflow_value
  <2>3. normalize(n, d) =
          IF d = 0 THEN Rat(nan, 0)
          ELSE IF n = 0 THEN Rat(0, 1)
          ELSE IF a \in Limits /\ c \in Limits
          THEN IF c >= 0 THEN Rat(a, c) ELSE Rat(-a, -c)
          ELSE Rat(inf, 0)
      BY Zenon DEF normalize
  <2> HIDE DEF a, c, nan, inf
  <2>4. CASE d = 0
      BY <2>1, <2>3, <2>4 DEF Rat
  <2>5. CASE d # 0 /\ n = 0
      BY <2>3, <2>5 DEF Rat
  <2>6. CASE d # 0 /\ n # 0 /\ ~(a \in Limits /\ c \in Limits)
      BY <2>2, <2>3, <2>6 DEF Rat
  <2>7. CASE d # 0 /\ n # 0 /\ a \in Limits /\ c \in Limits
    <3>1. a \in Int /\ c \in Int
        BY <2>7 DEF Limits
    <3>2. normalize(n, d) = Rat(a, c) \/ normalize(n, d) = Rat(-a, -c)
        BY <2>3, <2>7, Zenon
    <3>. QED  BY <3>1, <3>2 DEF Rat
  <2>. QED  BY <2>4, <2>5, <2>6, <2>7
<1>2. x.num * y.den + y.num * x.den \in Int /\ x.den * y.den \in Int
    OBVIOUS
<1>3. Rat(y.num, 0) \in [num : Int, den : Int]
    BY DEF Rat
<1>. QED  BY <1>1, <1>2, <1>3 DEF plus

\* A pending pause lasts a number of whole seconds.
LEMMA RoundType ==
  ASSUME NEW x \in [num : Int, den : Int], x.den > 0, x.num > 0
  PROVE  round(x) \in Nat
<1> DEFINE n == x.num
           d == x.den
<1>1. Abs(n) = n /\ Abs(d) = d
    BY DEF Abs
<1>2. n \div d \in Nat
    OBVIOUS
<1>3. Quotient(n, d) = n \div d
    BY <1>1 DEF Quotient
<1>. QED  BY <1>2, <1>3 DEF round, error

-----------------------------------------------------------------------------
-----------------------------------------------------------------------------
\* What an earlier time j of the variables and a later one, s, have in common, when s is
\* seen n seconds after j.
Later(j, s, now, n) ==
  /\ s \in RState /\ s.t0 >= 1 /\ s.e_code = j.e_code
  /\ s.finished_size = j.finished_size /\ s.last_size = j.last_size
  /\ \A i \in Int : IdleBounds(j, now, i) => IdleBounds(s, now, i + n)

\* Setting the clock back moves the time of the last success with it.
LEMMA JumpedBack ==
  ASSUME NEW q \in RState, q.t0 >= 1, NEW now \in Int
  PROVE  LET j == jumped_back(q, now)
         IN  Later(q, j, now, 0) /\ j.t1 <= now /\ j.tp = q.tp
<1> DEFINE delta == min(q.t0 - 1, q.t1 - now)
           j == jumped_back(q, now)
<1>0. q.t0 \in Int /\ q.t1 \in Int /\ q.ts \in Int /\ q.tp \in [num : Int, den : Int]
    BY DEF RState
<1>1. CASE now < q.t1
  <2>1. delta \in Nat /\ delta <= q.t0 - 1 /\ delta <= q.t1 - now
      BY <1>0, <1>1 DEF min
  <2>2. j = [q EXCEPT !.t0 = q.t0 - delta, !.ts = q.ts - delta, !.t1 = now]
      BY <1>1 DEF jumped_back, RState
  <2> HIDE DEF delta
  <2>3. j = [q EXCEPT !.t0 = q.t0 - delta, !.t1 = now, !.ts = q.ts - delta, !.tp = q.tp]
      BY <2>2 DEF RState
  <2> DEFINE a == q.t0 - delta
             c == q.ts - delta
  <2>4. a \in Int /\ c \in Int /\ now \in Int
      BY <1>0, <2>1
  <2>5. j = [q EXCEPT !.t0 = a, !.t1 = now, !.ts = c, !.tp = q.tp]
      BY <2>3
  <2>6. a = q.t0 - delta /\ c = q.ts - delta
      OBVIOUS
  <2> HIDE DEF j, a, c
  <2>7. /\ j \in RState /\ j.t0 = a /\ j.t1 = now /\ j.ts = c /\ j.tp = q.tp
         /\ j.e_code = q.e_code
         /\ j.finished_size = q.finished_size /\ j.last_size = q.last_size
    <3>1. j \in RState
        BY <1>0, <2>4, <2>5 DEF RState
    <3>2. j.t0 = a /\ j.t1 = now /\ j.ts = c /\ j.tp = q.tp
        BY <2>5 DEF RState
    <3>3. /\ j.e_code = q.e_code
          /\ j.finished_size = q.finished_size /\ j.last_size = q.last_size
        BY <2>5 DEF RState
    <3>. QED  BY <3>1, <3>2, <3>3
  <2>8. /\ j \in RState /\ j.t0 = q.t0 - delta /\ j.ts = q.ts - delta /\ j.t1 = now
        /\ j.tp = q.tp /\ j.e_code = q.e_code
        /\ j.finished_size = q.finished_size /\ j.last_size = q.last_size
      BY <2>6, <2>7
  <2>9. j.t0 >= 1
      BY <1>0, <2>1, <2>8
  <2>10. \A i \in Int : IdleBounds(q, now, i) => IdleBounds(j, now, i + 0)
      BY <1>0, <2>1, <2>8, <1>1 DEF IdleBounds
  <2>11. Later(q, j, now, 0) /\ j.t1 <= now /\ j.tp = q.tp
      BY <2>8, <2>9, <2>10 DEF Later
  <2>. QED  BY <2>11, Zenon DEF j
<1>2. CASE ~(now < q.t1)
  <2>1. j = q
      BY <1>2 DEF jumped_back
  <2> HIDE DEF j
  <2>2. Later(q, j, now, 0) /\ j.t1 <= now /\ j.tp = q.tp
      BY <2>1, <1>0, <1>2 DEF Later
  <2>. QED  BY <2>2, Zenon DEF j
<1>. QED  BY <1>1, <1>2, Zenon

\* Simulated pauses make the last success longer ago by as much, at most.
LEMMA Simulated ==
  ASSUME NEW q \in RState, q.t0 >= 1, NEW now \in Int
  PROVE  LET s == simulated(q)
             n == IF Pending(q) THEN round(q.tp) ELSE 0
         IN  n \in Nat /\ Later(q, s, now, n) /\ s.t1 <= q.t1
<1> DEFINE m == round(q.tp)
           delta == min(q.t0 - 1, m)
           s == simulated(q)
           n == IF Pending(q) THEN m ELSE 0
           zero == Rat(0, 1)
<1>0. q.t0 \in Int /\ q.t1 \in Int /\ q.ts \in Int /\ q.tp \in [num : Int, den : Int]
    BY DEF RState
<1>1. CASE Pending(q)
  <2>1. m \in Nat
    <3>1. q.tp.den > 0 /\ q.tp.num > 0
        BY <1>0, <1>1 DEF Pending, error
    <3>. QED  BY <1>0, <3>1, RoundType
  <2>2. n = m
      BY <1>1
  <2>3. s = [q EXCEPT !.t0 = @ - delta, !.t1 = @ - delta, !.ts = @ - delta, !.tp = zero]
      BY <1>1 DEF simulated
  <2>4. zero \in [num : Int, den : Int]
      BY DEF Rat
  <2> HIDE DEF m, s, n, zero
  <2>5. delta \in Nat /\ delta <= q.t0 - 1 /\ delta <= m
      BY <1>0, <2>1 DEF min
  <2> HIDE DEF delta
  <2> DEFINE a == q.t0 - delta
             b == q.t1 - delta
             c == q.ts - delta
  <2>6. s = [q EXCEPT !.t0 = a, !.t1 = b, !.ts = c, !.tp = zero]
      BY <2>3
  <2>7. a \in Int /\ b \in Int /\ c \in Int
      BY <1>0, <2>5
  <2>8. a = q.t0 - delta /\ b = q.t1 - delta /\ c = q.ts - delta
      OBVIOUS
  <2> HIDE DEF a, b, c
  <2>9. /\ s \in RState /\ s.t0 = a /\ s.t1 = b /\ s.ts = c /\ s.tp = zero
         /\ s.e_code = q.e_code
         /\ s.finished_size = q.finished_size /\ s.last_size = q.last_size
    <3>1. s \in RState
        BY <2>4, <2>6, <2>7 DEF RState
    <3>2. s.t0 = a /\ s.t1 = b /\ s.ts = c /\ s.tp = zero
        BY <2>6 DEF RState
    <3>3. /\ s.e_code = q.e_code
          /\ s.finished_size = q.finished_size /\ s.last_size = q.last_size
        BY <2>6 DEF RState
    <3>. QED  BY <3>1, <3>2, <3>3
  <2>10. /\ s \in RState /\ s.t0 = q.t0 - delta /\ s.ts = q.ts - delta
        /\ s.t1 = q.t1 - delta /\ s.e_code = q.e_code
        /\ s.finished_size = q.finished_size /\ s.last_size = q.last_size
      BY <2>8, <2>9
  <2>11. s.t0 >= 1 /\ s.t1 <= q.t1
      BY <1>0, <2>5, <2>10
  <2>12. \A i \in Int : IdleBounds(q, now, i) => IdleBounds(s, now, i + n)
      BY <1>0, <2>1, <2>2, <2>5, <2>10 DEF IdleBounds
  <2>13. n \in Nat /\ Later(q, s, now, n) /\ s.t1 <= q.t1
      BY <2>1, <2>2, <2>10, <2>11, <2>12 DEF Later
  <2>. QED  BY <2>13, Zenon DEF s, n, m
<1>2. CASE ~Pending(q)
  <2>1. s = q /\ n = 0
      BY <1>2 DEF simulated
  <2> HIDE DEF s, n
  <2>2. \A i \in Int : i + 0 = i
      OBVIOUS
  <2>3. n \in Nat /\ Later(q, s, now, n) /\ s.t1 <= q.t1
      BY <2>1, <2>2, <1>0 DEF Later
  <2>. QED  BY <2>3, Zenon DEF s, n, m
<1>. QED  BY <1>1, <1>2, Zenon

-----------------------------------------------------------------------------
\* Whether check_timeout finds the timeout exceeded.
Late(q, t2, forced) ==
  /\ q.finished_size = q.last_size /\ ~forced /\ opts.timeout >= 0
  /\ t2 - q.ts > opts.timeout /\ q.t1 > q.t0

\* A timeout is found only when it is late; a success seen begins the time anew.
LEMMA CheckTimeout ==
  ASSUME NEW q \in RState, NEW t2 \in Int, NEW forced \in BOOLEAN
  PROVE  LET c == check_timeout(q, t2, forced)
         IN  /\ c \in RState /\ c.t0 = q.t0 /\ c.t1 = q.t1
             /\ c.ts \in {q.ts, t2}
             /\ "timeout" \notin c.e_code =>
                  /\ "timeout" \notin q.e_code
                  /\ c.ts = IF q.finished_size # q.last_size THEN t2 ELSE q.ts
             /\ "timeout" \in c.e_code \ q.e_code => Late(q, t2, forced)
<1> DEFINE c == check_timeout(q, t2, forced)
           read == q.finished_size # q.last_size
           late == Late(q, t2, forced)
           ts == IF read THEN t2 ELSE q.ts
           e_code == IF late THEN q.e_code \cup {"timeout"} ELSE q.e_code
<1>0. q.finished_size \in Int /\ q.ts \in Int
    BY DEF RState
<1>1. CASE "timeout" \in q.e_code
  <2>1. c = q
      BY <1>1 DEF check_timeout
  <2>. QED  BY <1>1, <2>1
<1>2. CASE "timeout" \notin q.e_code
  <2>1. late <=> /\ ~read /\ ~forced /\ opts.timeout >= 0
                 /\ t2 - q.ts > opts.timeout /\ q.t1 > q.t0
      BY DEF Late
  <2>2. c = [q EXCEPT !.last_size = q.finished_size, !.ts = ts, !.e_code = e_code]
      BY <1>2, <2>1, Zenon DEF check_timeout
  <2>3. ts \in Int /\ ts \in {q.ts, t2}
      BY <1>0
  <2>4. e_code \in SUBSET {"timeout", "error_rate", "slow_reads"}
    <3>1. q.e_code \in SUBSET {"timeout", "error_rate", "slow_reads"}
        BY DEF RState
    <3>. QED  BY <3>1
  <2>5. "timeout" \in e_code => late
      BY <1>2
  <2>6. ts = IF read THEN t2 ELSE q.ts
      OBVIOUS
  <2> HIDE DEF c, ts, e_code, late
  <2>7. c \in RState
      BY <1>0, <2>2, <2>3, <2>4 DEF RState
  <2>8. c.ts = ts /\ c.e_code = e_code
      BY <2>2 DEF RState
  <2>9. c.t0 = q.t0 /\ c.t1 = q.t1
      BY <2>2 DEF RState
  <2>. QED  BY <1>2, <2>3, <2>5, <2>6, <2>7, <2>8, <2>9, Zenon DEF c, late
<1>. QED  BY <1>1, <1>2

\* The error rate is no concern of the times or of the timeout.
LEMMA CheckErrors ==
  ASSUME NEW q \in RState, NEW t2 \in Int
  PROVE  LET c == check_errors(q, t2)
         IN  /\ c \in RState /\ c.t0 = q.t0 /\ c.t1 = q.t1 /\ c.ts = q.ts
             /\ "timeout" \in c.e_code <=> "timeout" \in q.e_code
<1> DEFINE c == check_errors(q, t2)
           failing == /\ opts.max_error_rate >= 0
                      /\ Quotient(q.error_sum, t2 - q.t1) > opts.max_error_rate
           e_code == IF failing THEN q.e_code \cup {"error_rate"} ELSE q.e_code
<1>1. CASE "error_rate" \in q.e_code
  <2>1. c = q
      BY <1>1 DEF check_errors
  <2>. QED  BY <2>1
<1>2. CASE "error_rate" \notin q.e_code
  <2>1. c = [q EXCEPT !.e_code = e_code, !.error_sum = 0]
      BY <1>2, Zenon DEF check_errors
  <2> HIDE DEF failing
  <2>2. e_code \in SUBSET {"timeout", "error_rate", "slow_reads"}
    <3>1. q.e_code \in SUBSET {"timeout", "error_rate", "slow_reads"}
        BY DEF RState
    <3>. QED  BY <3>1
  <2>3. "timeout" \in e_code <=> "timeout" \in q.e_code
      OBVIOUS
  <2> HIDE DEF c, e_code
  <2> DEFINE none == 0
  <2>4. none \in Int /\ c = [q EXCEPT !.e_code = e_code, !.error_sum = none]
      BY <2>1
  <2> HIDE DEF none
  <2>5. c \in RState
      BY <2>2, <2>4 DEF RState
  <2>6. c.t0 = q.t0 /\ c.t1 = q.t1 /\ c.ts = q.ts /\ c.e_code = e_code
      BY <2>1 DEF RState
  <2>. QED  BY <2>3, <2>5, <2>6, Zenon DEF c
<1>. QED  BY <1>1, <1>2

\* Both checks, and the time of the update, t2, unless it is forced.
LEMMA ComputedRates ==
  ASSUME NEW q \in RState, NEW t2 \in Int, NEW forced \in BOOLEAN, NEW slow \in BOOLEAN
  PROVE  LET c == Computed(q, t2, forced, slow)
         IN  /\ c \in RState /\ c.t0 = q.t0
             /\ c.t1 = IF forced THEN q.t1 ELSE t2
             /\ "timeout" \notin c.e_code =>
                  /\ "timeout" \notin q.e_code
                  /\ c.ts = IF q.finished_size # q.last_size THEN t2 ELSE q.ts
             /\ "timeout" \in c.e_code \ q.e_code => Late(q, t2, forced)
<1> DEFINE a == check_timeout(q, t2, forced)
           k == check_errors(a, t2)
           t1 == IF forced THEN k.t1 ELSE t2
           reset == ~forced /\ ~slow /\ opts.reset_slow
           slow_reads == IF reset THEN 0 ELSE k.slow_reads
           c == Computed(q, t2, forced, slow)
<1>1. c = [k EXCEPT !.rates_updated = TRUE, !.t1 = t1, !.slow_reads = slow_reads]
    BY Zenon DEF Computed
<1>2. /\ a \in RState /\ a.t0 = q.t0 /\ a.t1 = q.t1
      /\ "timeout" \notin a.e_code =>
           /\ "timeout" \notin q.e_code
           /\ a.ts = IF q.finished_size # q.last_size THEN t2 ELSE q.ts
      /\ "timeout" \in a.e_code \ q.e_code => Late(q, t2, forced)
    BY CheckTimeout
<1> HIDE DEF a
<1>3. /\ k \in RState /\ k.t0 = a.t0 /\ k.t1 = a.t1 /\ k.ts = a.ts
      /\ "timeout" \in k.e_code <=> "timeout" \in a.e_code
    BY <1>2, CheckErrors, Zenon
<1> HIDE DEF k, reset
<1>4. t1 \in Int /\ slow_reads \in Int
    BY <1>3 DEF RState
<1>5. t1 = IF forced THEN q.t1 ELSE t2
    BY <1>2, <1>3, Zenon
<1> HIDE DEF t1, slow_reads, c
<1>6. c \in RState
    BY <1>1, <1>3, <1>4 DEF RState
<1>7. c.t0 = k.t0 /\ c.t1 = t1 /\ c.ts = k.ts /\ c.e_code = k.e_code
    BY <1>1, <1>3 DEF RState
<1>8. c.t0 = q.t0 /\ c.t1 = IF forced THEN q.t1 ELSE t2
    BY <1>2, <1>3, <1>5, <1>7, Zenon
<1>9. /\ "timeout" \notin c.e_code =>
           /\ "timeout" \notin q.e_code
           /\ c.ts = IF q.finished_size # q.last_size THEN t2 ELSE q.ts
      /\ "timeout" \in c.e_code \ q.e_code => Late(q, t2, forced)
    BY <1>2, <1>3, <1>7
<1>. QED  BY <1>6, <1>8, <1>9, Zenon DEF c

-----------------------------------------------------------------------------
\* What happens to the time of the last success in an update that finds the last
\* success idle seconds ago.
Updated(u, q, now, idle, computes, seconds) ==
  LET seen == computes /\ q.finished_size # q.last_size
  IN  /\ "timeout" \notin u.e_code =>
           /\ "timeout" \notin q.e_code
           /\ seen => IdleBounds(u, now, 0)
           /\ ~seen /\ IdleBounds(q, now, idle) => IdleBounds(u, now, idle + seconds)
      /\ "timeout" \in u.e_code \ q.e_code =>
           /\ ~seen
           /\ IdleBounds(q, now, idle) => idle + seconds > opts.timeout

\* update_rates as a whole: the clock, the simulated pauses and the checks.
LEMMA UpdateStep ==
  ASSUME NEW q0 \in RState, q0.t0 >= 1, NEW now \in Int, NEW force \in BOOLEAN,
         NEW idle \in Int, opts \in RbOption
  PROVE  LET u == update_rates(q0, now, force).q
             computes == force \/ now > jumped_back(q0, now).t1
             seconds == IF computes /\ Pending(q0) THEN round(q0.tp) ELSE 0
         IN  /\ u \in RState /\ u.t0 >= 1 /\ seconds \in Nat
             /\ Updated(u, q0, now, idle, computes, seconds)
<1> DEFINE q1 == jumped_back(q0, now)
           forced == force /\ now <= q1.t1
           t2 == IF forced THEN q1.t1 + 1 ELSE now
           q == simulated(q1)
           slow == t2 > q1.t1 /\ ~forced /\ current_slow(q, t2)
           u == update_rates(q0, now, force).q
           computes == force \/ now > q1.t1
           n == IF Pending(q1) THEN round(q1.tp) ELSE 0
           seconds == IF computes /\ Pending(q0) THEN round(q0.tp) ELSE 0
<1>1. Later(q0, q1, now, 0) /\ q1.t1 <= now /\ q1.tp = q0.tp
    BY JumpedBack
<1>2. u = IF t2 > q1.t1 THEN Computed(q, t2, forced, slow) ELSE q1
    BY DEF update_rates
<1>3. slow \in BOOLEAN /\ forced \in BOOLEAN
    BY DEF current_slow
<1>4. Pending(q1) <=> Pending(q0)
    BY <1>1 DEF Pending
<1>5. seconds = IF computes THEN n ELSE 0
    BY <1>1, <1>4
<1>6. q1 \in RState /\ q1.t0 >= 1
    BY <1>1 DEF Later
<1> HIDE DEF q1
<1>7. n \in Nat /\ Later(q1, q, now, n) /\ q.t1 <= q1.t1
    BY <1>6, Simulated
<1> HIDE DEF q, n, slow, u, seconds
<1>8. q \in RState /\ q.t0 >= 1
    BY <1>7 DEF Later
<1>9. q1.t1 \in Int /\ q.t1 \in Int /\ q.ts \in Int /\ q1.ts \in Int /\ q0.ts \in Int
    BY <1>6, <1>8 DEF RState
<1>10. opts.timeout \in Int
    BY DEF RbOption
<1>11. IdleBounds(q0, now, idle) => IdleBounds(q1, now, idle)
  <2>1. idle + 0 = idle
      OBVIOUS
  <2>2. IdleBounds(q0, now, idle) => IdleBounds(q1, now, idle + 0)
      BY <1>1 DEF Later
  <2>. QED  BY <2>1, <2>2
<1>12. IdleBounds(q1, now, idle) => IdleBounds(q, now, idle + n)
    BY <1>7 DEF Later
<1>13. /\ q.e_code = q0.e_code /\ q1.e_code = q0.e_code
       /\ q.finished_size = q0.finished_size /\ q.last_size = q0.last_size
    BY <1>1, <1>7 DEF Later
<1>14. CASE computes
  <2>1. t2 \in Int /\ t2 > q1.t1 /\ t2 >= now /\ (~forced => t2 = now)
      BY <1>9, <1>14
  <2> HIDE DEF forced, t2
  <2>2. u = Computed(q, t2, forced, slow)
      BY <1>2, <2>1
  <2>3. /\ u \in RState /\ u.t0 = q.t0
        /\ u.t1 = IF forced THEN q.t1 ELSE t2
        /\ "timeout" \notin u.e_code =>
             /\ "timeout" \notin q.e_code
             /\ u.ts = IF q.finished_size # q.last_size THEN t2 ELSE q.ts
        /\ "timeout" \in u.e_code \ q.e_code => Late(q, t2, forced)
      BY <1>3, <1>8, <2>1, <2>2, ComputedRates
  <2>4. seconds = n
      BY <1>5, <1>14
  <2> DEFINE seen == q0.finished_size # q0.last_size
  <2>5. u.t0 >= 1 /\ seconds \in Nat
      BY <1>7, <1>8, <2>3, <2>4
  <2>6. u.t1 <= t2 /\ u.t1 \in Int
      BY <1>7, <1>9, <2>1, <2>3
  <2>7. ASSUME "timeout" \notin u.e_code, seen
        PROVE  IdleBounds(u, now, 0)
    <3>1. u.ts = t2
        BY <1>13, <2>3, <2>7
    <3>. QED  BY <2>1, <2>6, <3>1 DEF IdleBounds
  <2>8. ASSUME "timeout" \notin u.e_code, ~seen, IdleBounds(q0, now, idle)
        PROVE  IdleBounds(u, now, idle + seconds)
    <3>1. u.ts = q.ts
        BY <1>13, <2>3, <2>8
    <3>2. IdleBounds(q, now, idle + n)
        BY <1>11, <1>12, <2>8
    <3>3. u.t1 = q.t1 \/ u.t1 = now
        BY <2>1, <2>3
    <3>. QED  BY <1>7, <1>9, <2>4, <3>1, <3>2, <3>3 DEF IdleBounds
  <2>9. ASSUME "timeout" \in u.e_code, "timeout" \notin q0.e_code
        PROVE  ~seen /\ (IdleBounds(q0, now, idle) => idle + seconds > opts.timeout)
    <3>1. Late(q, t2, forced)
        BY <1>13, <2>3, <2>9
    <3>2. ~seen /\ now - q.ts > opts.timeout
        BY <1>13, <2>1, <3>1 DEF Late
    <3>3. IdleBounds(q0, now, idle) => now - q.ts <= idle + n
        BY <1>11, <1>12 DEF IdleBounds
    <3>. QED  BY <1>7, <1>9, <1>10, <2>4, <3>2, <3>3
  <2>10. "timeout" \notin u.e_code => "timeout" \notin q0.e_code
      BY <1>13, <2>3
  <2>11. Updated(u, q0, now, idle, computes, seconds)
      BY <1>14, <2>7, <2>8, <2>9, <2>10, Zenon DEF Updated
  <2>. QED  BY <2>3, <2>5, <2>11, Zenon DEF u, seconds, q1
<1>15. CASE ~computes
  <2>1. ~(t2 > q1.t1)
      BY <1>9, <1>15
  <2>2. u = q1 /\ seconds = 0
      BY <1>2, <1>5, <1>15, <2>1
  <2>3. idle + 0 = idle
      OBVIOUS
  <2>4. Updated(u, q0, now, idle, computes, seconds)
      BY <1>11, <1>13, <1>15, <2>2, <2>3 DEF Updated
  <2>5. seconds \in Nat
      BY <2>2
  <2>. QED  BY <1>6, <2>2, <2>4, <2>5, Zenon DEF u, seconds, q1
<1>. QED  BY <1>14, <1>15

-----------------------------------------------------------------------------
\* What is to be shown of each step.
NewTimeout == "timeout" \in r'.e_code \ r.e_code => g'.doubt \/ g'.idle > opts.timeout
Kept == Types' /\ NotEarlier' /\ NewTimeout

\* Steps that leave the history alone, and neither the limits nor the times.
LEMMA QuietStep ==
  ASSUME IInv, UNCHANGED <<clock, opts, g>>, r' \in RState,
         r'.t0 = r.t0, r'.t1 = r.t1, r'.ts = r.ts, r'.e_code = r.e_code
  PROVE  Kept
<1>1. Types'
    BY DEF IInv, Types
<1>2. NotEarlier'
    BY DEF IInv, NotEarlier, IdleBounds
<1>3. NewTimeout
    BY DEF NewTimeout
<1>. QED  BY <1>1, <1>2, <1>3 DEF Kept

\* The seconds that pass are counted by the clock and by the history alike.
LEMMA TimePasses == ASSUME IInv, Tick PROVE Kept
<1>1. clock' = clock + 1 /\ r' = r /\ opts' = opts
    BY DEF Tick
<1> DEFINE idle == g.idle + 1
           since == g.since + 1
<1>2. g' = [g EXCEPT !.idle = idle, !.since = since]
    BY DEF Tick
<1>3. idle \in Nat /\ since \in Int /\ idle = g.idle + 1
    BY DEF IInv, Types, GState
<1> HIDE DEF idle, since
<1>4. g' \in GState
    BY <1>2, <1>3 DEF IInv, Types, GState
<1>5. g'.idle = idle /\ g'.doubt = g.doubt
    BY <1>2 DEF IInv, Types, GState
<1>6. g' \in GState /\ g'.idle = g.idle + 1 /\ g'.doubt = g.doubt
    BY <1>3, <1>4, <1>5
<1>7. Types'
    BY <1>1, <1>6 DEF IInv, Types
<1>8. clock \in Int /\ r.ts \in Int /\ r.t1 \in Int /\ g.idle \in Int
    BY DEF IInv, Types, RState, GState
<1>9. IdleBounds(r, clock, g.idle) => IdleBounds(r', clock', g'.idle)
    BY <1>1, <1>6, <1>8 DEF IdleBounds
<1>10. NotEarlier'
    BY <1>1, <1>6, <1>9, Zenon DEF IInv, NotEarlier
<1>11. NewTimeout
    BY <1>1 DEF NewTimeout
<1>. QED  BY <1>7, <1>10, <1>11 DEF Kept

\* The clock set back makes the last success look more recent; set ahead is doubtful.
LEMMA ClockIsSet == ASSUME IInv, SetClock PROVE Kept
<1>1. clock' \in Int /\ r' = r /\ opts' = opts
    BY ClockAssumption DEF SetClock
<1>2. g' = [g EXCEPT !.doubt = g.doubt \/ clock' > clock, !.spoilt = TRUE]
    BY DEF SetClock
<1> DEFINE doubt == g.doubt \/ clock' > clock
<1>3. g.doubt \in BOOLEAN /\ doubt \in BOOLEAN /\ (~doubt => ~g.doubt /\ ~(clock' > clock))
    BY DEF IInv, Types, GState
<1> HIDE DEF doubt
<1>4. g' = [g EXCEPT !.doubt = doubt, !.spoilt = TRUE]
    BY <1>2, Zenon DEF doubt
<1>5. g' \in GState /\ g'.idle = g.idle /\ g'.doubt = doubt
    BY <1>3, <1>4 DEF IInv, Types, GState
<1>6. Types'
    BY <1>1, <1>5 DEF IInv, Types
<1>7. clock \in Int /\ r.ts \in Int /\ r.t1 \in Int /\ g.idle \in Int
    BY DEF IInv, Types, RState, GState
<1>8. ~(clock' > clock) /\ IdleBounds(r, clock, g.idle) => IdleBounds(r', clock', g'.idle)
    BY <1>1, <1>5, <1>7 DEF IdleBounds
<1>9. NotEarlier'
    BY <1>1, <1>3, <1>5, <1>8, Zenon DEF IInv, NotEarlier
<1>10. NewTimeout
    BY <1>1 DEF NewTimeout
<1>. QED  BY <1>6, <1>9, <1>10 DEF Kept

\* A pause before a pass moves the time of the last success with the clock.
LEMMA PassBegins == ASSUME IInv, NextPass PROVE Kept
<1> DEFINE p == opts.pause_on_pass
           t2 == clock + p
           t1 == max(r.t1, t2)
           ts == min(r.ts + p, t2)
           doubt == g.doubt \/ t2 < r.t1
<1>1. opts' = opts /\ clock' = t2
    BY DEF NextPass
<1>2. clock \in Int /\ r.ts \in Int /\ r.t1 \in Int /\ g.idle \in Int /\ p \in Nat
    BY DEF IInv, Types, RState, GState, RbOption
<1>3. r' = [r EXCEPT !.t1 = t1, !.ts = ts, !.rates_updated = FALSE]
    BY DEF NextPass, Paused, IInv, Types, RState
<1>4. g' = [g EXCEPT !.doubt = doubt, !.spoilt = TRUE]
    BY Zenon DEF NextPass
<1>5. g.doubt \in BOOLEAN /\ doubt \in BOOLEAN /\ (~doubt => ~g.doubt /\ ~(t2 < r.t1))
    BY DEF IInv, Types, GState
<1>6. t1 \in Int /\ ts \in Int /\ t2 \in Int
    BY <1>2 DEF max, min
<1>7. ~(t2 < r.t1) /\ IdleBounds(r, clock, g.idle) =>
        t2 - ts <= g.idle /\ t1 - ts <= g.idle
  <2>1. ~(t2 < r.t1) => t1 = t2
      BY <1>2 DEF max
  <2>2. ts = r.ts + p \/ ts = t2
      BY <1>2 DEF min
  <2>3. t2 - (r.ts + p) = clock - r.ts
      BY <1>2
  <2>4. IdleBounds(r, clock, g.idle) => t2 - ts <= g.idle
    <3>1. ASSUME clock - r.ts <= g.idle, r.t1 - r.ts <= g.idle
          PROVE  t2 - ts <= g.idle
      <4>1. CASE ts = r.ts + p
          BY <1>2, <2>3, <3>1, <4>1
      <4>2. CASE ts = t2
        <5>1. t2 - t2 = 0 /\ g.idle \in Nat
            BY <1>2 DEF IInv, Types, GState
        <5>. QED  BY <5>1, <4>2
      <4>. QED  BY <2>2, <4>1, <4>2
    <3>. QED  BY <3>1 DEF IdleBounds
  <2>. QED  BY <2>1, <2>4
<1> HIDE DEF doubt, t1, ts, t2
<1>8. g' \in GState /\ g'.idle = g.idle /\ g'.doubt = doubt
    BY <1>4, <1>5 DEF IInv, Types, GState
<1>9. r' \in RState /\ r'.t0 = r.t0 /\ r'.t1 = t1 /\ r'.ts = ts /\ r'.e_code = r.e_code
    BY <1>3, <1>6 DEF IInv, Types, RState
<1>10. Types'
    BY <1>1, <1>6, <1>8, <1>9 DEF IInv, Types
<1>11. ~(t2 < r.t1) /\ IdleBounds(r, clock, g.idle) => IdleBounds(r', clock', g'.idle)
    BY <1>1, <1>7, <1>8, <1>9 DEF IdleBounds
<1>12. NotEarlier'
    BY <1>5, <1>8, <1>9, <1>11, Zenon DEF IInv, NotEarlier
<1>13. NewTimeout
    BY <1>9 DEF NewTimeout
<1>. QED  BY <1>10, <1>12, <1>13 DEF Kept

\* A read counts bytes and leaves the times to the update that follows it.
LEMMA ReadDone == ASSUME IInv, Read PROVE Kept
<1>1. PICK n \in Reads, m \in Reads :
        r' = [r EXCEPT !.finished_size = @ + n, !.error_sum = @ + m,
                       !.rates_updated = FALSE]
    BY DEF Read
<1> DEFINE size == r.finished_size + n
           sum == r.error_sum + m
<1>2. size \in Int /\ sum \in Int
    BY ClockAssumption DEF IInv, Types, RState
<1>3. r' = [r EXCEPT !.finished_size = size, !.error_sum = sum, !.rates_updated = FALSE]
    BY <1>1
<1> HIDE DEF size, sum
<1>4. r' \in RState
    BY <1>3, <1>2 DEF IInv, Types, RState
<1>5. r'.t0 = r.t0 /\ r'.t1 = r.t1 /\ r'.ts = r.ts /\ r'.e_code = r.e_code
    BY <1>1 DEF IInv, Types, RState
<1>6. UNCHANGED <<clock, opts, g>>
    BY DEF Read
<1>. QED  BY <1>4, <1>5, <1>6, QuietStep

\* The reads end because of a limit.
LEMMA LimitIsFound == ASSUME IInv, LimitFound PROVE Kept
<1>1. r' = [r EXCEPT !.rates_updated = FALSE] /\ UNCHANGED <<clock, opts, g>>
    BY DEF LimitFound
<1>2. r' \in RState
    BY <1>1 DEF IInv, Types, RState
<1>3. r'.t0 = r.t0 /\ r'.t1 = r.t1 /\ r'.ts = r.ts /\ r'.e_code = r.e_code
    BY <1>1 DEF IInv, Types, RState
<1>. QED  BY <1>1, <1>2, <1>3, QuietStep

\* ... or because nothing is left to read.
LEMMA NoReadsLeft == ASSUME IInv, NoMoreReads PROVE Kept
<1>1. UNCHANGED <<clock, opts, r, g>>
    BY DEF NoMoreReads
<1>2. r \in RState
    BY DEF IInv, Types
<1>. QED  BY <1>1, <1>2, QuietStep

\* An update and its history; what follows it changes neither the times nor the timeout.
LEMMA NotedStep ==
  ASSUME IInv, NEW force \in BOOLEAN, opts' = opts, clock' = Now, g' = Noted(force),
         r' \in RState, NEW u, u = update_rates(r, Now, force).q,
         r'.t0 = u.t0, r'.t1 = u.t1, r'.ts = u.ts,
         "timeout" \in r'.e_code <=> "timeout" \in u.e_code
  PROVE  Kept
<1> DEFINE now == Now
           sleep == IF Throttled THEN 1 ELSE 0
           idle == g.idle + sleep
           computes == force \/ now > jumped_back(r, now).t1
           pause == IF computes /\ Pending(r) THEN round(r.tp) ELSE 0
           seen == computes /\ r.finished_size # r.last_size
<1>1. clock \in Int /\ g.idle \in Nat /\ g.since \in Int /\ r \in RState /\ r.t0 >= 1
      /\ opts \in RbOption
    BY DEF IInv, Types, GState
<1>2. sleep \in Nat /\ now = clock + sleep
    BY <1>1 DEF Now
<1>3. computes <=> Computes(force)
    BY DEF Computes
<1>4. Seconds(force) = sleep + pause
    BY <1>3, Zenon DEF Seconds
<1>5. g' = [idle   |-> IF seen THEN 0 ELSE g.idle + (sleep + pause),
            doubt  |-> g.doubt /\ ~seen,
            since  |-> IF computes THEN 0 ELSE g.since + (sleep + pause),
            spoilt |-> g.spoilt /\ ~computes]
    BY <1>3, <1>4, Zenon DEF Noted
<1>6. clock' = now /\ u = update_rates(r, now, force).q
    OBVIOUS
<1> HIDE DEF now, sleep
<1>7. idle \in Int /\ now \in Int
    BY <1>1, <1>2
<1> HIDE DEF idle
<1>8. /\ u \in RState /\ u.t0 >= 1 /\ pause \in Nat
      /\ Updated(u, r, now, idle, computes, pause)
    BY <1>1, <1>6, <1>7, UpdateStep
<1>9. computes \in BOOLEAN
    OBVIOUS
<1> HIDE DEF pause, computes
<1> DEFINE i == IF seen THEN 0 ELSE g.idle + (sleep + pause)
           d == g.doubt /\ ~seen
           n == IF computes THEN 0 ELSE g.since + (sleep + pause)
           p == g.spoilt /\ ~computes
<1>10. i \in Nat /\ n \in Int
    BY <1>1, <1>2, <1>8
<1>11. d \in BOOLEAN /\ p \in BOOLEAN
    OBVIOUS
<1>12. (seen => i = 0) /\ (~seen => i = idle + pause)
    BY <1>1, <1>2, <1>8 DEF idle
<1>13. g' = [idle |-> i, doubt |-> d, since |-> n, spoilt |-> p]
    BY <1>5, Zenon
<1>14. ~d => seen \/ ~g.doubt
    OBVIOUS
<1> HIDE DEF i, d, n, p
<1>15. g' \in GState /\ g'.idle = i /\ g'.doubt = d
    BY <1>10, <1>11, <1>13 DEF GState
<1>16. Types'
    BY <1>1, <1>6, <1>7, <1>8, <1>15 DEF Types
<1>17. IdleBounds(r, clock, g.idle) => IdleBounds(r, now, idle)
  <2>1. r.ts \in Int /\ r.t1 \in Int
      BY <1>1 DEF RState
  <2>. QED  BY <1>1, <1>2, <2>1 DEF IdleBounds, idle
<1>18. ~g.doubt /\ "timeout" \notin r.e_code => IdleBounds(r, now, idle)
    BY <1>17, Zenon DEF IInv, NotEarlier
<1>19. "timeout" \notin u.e_code =>
         /\ "timeout" \notin r.e_code
         /\ seen => IdleBounds(u, now, 0)
         /\ ~seen /\ IdleBounds(r, now, idle) => IdleBounds(u, now, idle + pause)
    BY <1>8, Zenon DEF Updated
<1>20. "timeout" \in u.e_code \ r.e_code =>
         ~seen /\ (IdleBounds(r, now, idle) => idle + pause > opts.timeout)
    BY <1>8, Zenon DEF Updated
<1> HIDE DEF seen
<1>21. NotEarlier'
  <2> SUFFICES ASSUME ~d, "timeout" \notin u.e_code
               PROVE  IdleBounds(u, now, i)
      BY <1>6, <1>15, Zenon DEF NotEarlier, IdleBounds
  <2>1. CASE seen
      BY <1>12, <1>19, <2>1, Zenon
  <2>2. CASE ~seen
      BY <1>12, <1>14, <1>18, <1>19, <2>2, Zenon
  <2>. QED  BY <2>1, <2>2
<1>22. NewTimeout
  <2> SUFFICES ASSUME "timeout" \in u.e_code, "timeout" \notin r.e_code, ~d
               PROVE  i > opts.timeout
      BY <1>15, Zenon DEF NewTimeout
  <2>1. ~seen
      BY <1>20
  <2>2. i = idle + pause
      BY <1>12, <2>1
  <2>3. IdleBounds(r, now, idle)
      BY <1>14, <1>18, <2>1, Zenon
  <2>4. idle + pause > opts.timeout
      BY <1>20, <2>3
  <2>. QED  BY <2>2, <2>4
<1>. QED  BY <1>16, <1>21, <1>22, Zenon DEF Kept

\* The update after a read, with the count of slow reads and the pause on an error.
LEMMA RatesAreUpdated == ASSUME IInv, RatesUpdated PROVE Kept
<1> DEFINE u == update_rates(r, Now, FALSE).q
<1>1. clock' = Now /\ g' = Noted(FALSE) /\ opts' = opts
    BY Zenon DEF RatesUpdated
<1>2. u \in RState
  <2>1. r \in RState /\ r.t0 >= 1 /\ opts \in RbOption /\ Now \in Int /\ 0 \in Int
      BY DEF IInv, Types, Now
  <2> HIDE DEF u
  <2>2. \A now \in Int : update_rates(r, now, FALSE).q \in RState
      BY <2>1, UpdateStep
  <2>. QED  BY <2>1, <2>2, Zenon DEF u
<1>3. PICK copying \in BOOLEAN, w \in {update_rates(r, Now, FALSE)} :
        LET slow == w.slow /\ copying
            q    == [w.q EXCEPT !.slow_reads = IF slow THEN @ + 1 ELSE @]
        IN  IF slow /\ q.slow_reads > opts.max_slow_reads
            THEN /\ r' = [q EXCEPT !.e_code = @ \cup {"slow_reads"}]
                 /\ pc' = "end"
            ELSE /\ r' = IF bad \/ slow THEN do_pause_on_error(q) ELSE q
                 /\ pc' = "copy"
    BY Zenon DEF RatesUpdated
<1> DEFINE slow == w.slow /\ copying
           more == IF slow THEN u.slow_reads + 1 ELSE u.slow_reads
           q == [u EXCEPT !.slow_reads = more]
<1>4. \/ r' = [q EXCEPT !.e_code = q.e_code \cup {"slow_reads"}]
      \/ r' = do_pause_on_error(q)
      \/ r' = q
  <2>1. w.q = u
      BY <1>3, Zenon
  <2>. QED  BY <1>3, <2>1, Zenon
<1>5. u.slow_reads \in Int
    BY <1>2 DEF RState
<1>6. more \in Int
  <2>1. more = u.slow_reads + 1 \/ more = u.slow_reads
      BY Zenon
  <2> HIDE DEF u, more
  <2>. QED  BY <1>5, <2>1
<1> HIDE DEF u, more, slow
<1>7. q \in RState
    BY <1>2, <1>6 DEF RState
<1>8. q.t0 = u.t0 /\ q.t1 = u.t1 /\ q.ts = u.ts /\ q.e_code = u.e_code
    BY <1>2 DEF RState
<1> HIDE DEF q
<1>9. /\ r' \in RState /\ r'.t0 = q.t0 /\ r'.t1 = q.t1 /\ r'.ts = q.ts
      /\ "timeout" \in r'.e_code <=> "timeout" \in q.e_code
  <2>1. CASE r' = [q EXCEPT !.e_code = q.e_code \cup {"slow_reads"}]
    <3> DEFINE e == q.e_code \cup {"slow_reads"}
    <3>1. e \in SUBSET {"timeout", "error_rate", "slow_reads"}
      <4>1. q.e_code \in SUBSET {"timeout", "error_rate", "slow_reads"}
          BY <1>7 DEF RState
      <4>. QED  BY <4>1
    <3>2. "timeout" \in e <=> "timeout" \in q.e_code
        OBVIOUS
    <3>3. r' = [q EXCEPT !.e_code = e]
        BY <2>1
    <3> HIDE DEF e
    <3>4. r' \in RState
        BY <1>7, <3>1, <3>3 DEF RState
    <3>5. r'.t0 = q.t0 /\ r'.t1 = q.t1 /\ r'.ts = q.ts /\ r'.e_code = e
        BY <1>7, <3>3 DEF RState
    <3>. QED  BY <3>2, <3>4, <3>5
  <2>2. CASE r' = do_pause_on_error(q)
    <3> DEFINE tp == plus(q.tp, opts.pause_on_error)
    <3>1. tp \in [num : Int, den : Int]
      <4>1. /\ q.tp \in [num : Int, den : Int]
            /\ opts.pause_on_error \in [num : Int, den : Int]
          BY <1>7 DEF RState, IInv, Types, RbOption
      <4>. QED  BY <4>1, PlusType
    <3>2. r' = [q EXCEPT !.tp = tp] \/ r' = q
        BY <2>2 DEF do_pause_on_error
    <3> HIDE DEF tp
    <3>3. CASE r' = [q EXCEPT !.tp = tp]
      <4>1. r' \in RState
          BY <1>7, <3>1, <3>3 DEF RState
      <4>2. r'.t0 = q.t0 /\ r'.t1 = q.t1 /\ r'.ts = q.ts /\ r'.e_code = q.e_code
          BY <1>7, <3>3 DEF RState
      <4>. QED  BY <4>1, <4>2
    <3>. QED  BY <1>7, <3>2, <3>3
  <2>. QED  BY <1>4, <1>7, <2>1, <2>2
<1>10. /\ r'.t0 = u.t0 /\ r'.t1 = u.t1 /\ r'.ts = u.ts
       /\ "timeout" \in r'.e_code <=> "timeout" \in u.e_code
    BY <1>8, <1>9
<1>. QED  BY <1>1, <1>9, <1>10, NotedStep DEF u

\* The last update, forced if none was made since the last read.
LEMMA RunEnds == ASSUME IInv, End PROVE Kept
<1>1. opts' = opts
    BY DEF End
<1>2. CASE r.rates_updated
  <2>1. UNCHANGED <<clock, opts, r, g>>
      BY <1>1, <1>2 DEF End
  <2>2. r \in RState
      BY DEF IInv, Types
  <2>. QED  BY <2>1, <2>2, QuietStep
<1>3. CASE ~r.rates_updated
  <2> DEFINE u == update_rates(r, Now, TRUE).q
  <2>1. clock' = Now /\ g' = Noted(TRUE) /\ r' = u
      BY <1>3, Zenon DEF End
  <2>2. u \in RState
    <3>1. r \in RState /\ r.t0 >= 1 /\ opts \in RbOption /\ Now \in Int /\ 0 \in Int
        BY DEF IInv, Types, Now
    <3> HIDE DEF u
    <3>2. \A now \in Int : update_rates(r, now, TRUE).q \in RState
        BY <3>1, UpdateStep
    <3>. QED  BY <3>1, <3>2, Zenon DEF u
  <2> HIDE DEF u
  <2>3. r' \in RState /\ r'.t0 = u.t0 /\ r'.t1 = u.t1 /\ r'.ts = u.ts /\ r'.e_code = u.e_code
      BY <2>1, <2>2
  <2>. QED  BY <1>1, <2>1, <2>3, NotedStep DEF u
<1>. QED  BY <1>2, <1>3

\* The run begins with nothing to doubt and no time passed.
LEMMA IInvInit == ASSUME Init PROVE IInv
<1>1. clock \in Int /\ opts \in RbOption /\ Start >= 1 /\ Start \in Int
    BY OptionsAssumption, ClockAssumption DEF Init
<1>2. r \in RState /\ r.t0 = Start /\ r.t1 = Start /\ r.ts = Start
    BY <1>1 DEF Init, RState, Rat
<1>3. g \in GState /\ g.idle = 0 /\ clock = Start
    BY DEF Init, GState
<1>4. IdleBounds(r, clock, g.idle)
    BY <1>1, <1>2, <1>3 DEF IdleBounds
<1>. QED  BY <1>1, <1>2, <1>3, <1>4 DEF IInv, Types, NotEarlier

\* Every step keeps the invariant, and finds no timeout too early.
LEMMA Step == ASSUME IInv, [Next]_vars PROVE Kept
<1>1. CASE UNCHANGED vars
  <2>1. UNCHANGED <<clock, opts, r, g>> /\ r \in RState
      BY <1>1 DEF vars, IInv, Types
  <2>. QED  BY <2>1, QuietStep
<1>. QED  BY <1>1, TimePasses, ClockIsSet, PassBegins, ReadDone, LimitIsFound, NoReadsLeft,
             RatesAreUpdated, RunEnds, Zenon DEF Next

-----------------------------------------------------------------------------
\* Whatever the options, the clock and the reads, a timeout expires only after more
\* seconds without success than it allows (update_rates), unless somebody set the clock
\* ahead, or back before a pause.
THEOREM TimeoutIsNotEarly == Spec => TimeoutNotEarly
<1>1. Init => IInv
    BY IInvInit
<1>2. IInv /\ [Next]_vars => IInv'
    BY Step DEF Kept, IInv
<1>3. IInv /\ [Next]_vars => [Exceeded("timeout") => g'.doubt \/ g'.idle > opts.timeout]_vars
    BY Step DEF Kept, NewTimeout, Exceeded
<1>. QED  BY <1>1, <1>2, <1>3, PTL DEF Spec, TimeoutNotEarly

-----------------------------------------------------------------------------
(***************************************************************************)
(* Numbers, and what divides them.                                         *)
(***************************************************************************)

\* A set of natural numbers that is not empty has a least element.
LEMMA LeastExists ==
  ASSUME NEW S \in SUBSET Nat, S # {}
  PROVE  \E x \in S : \A y \in S : x <= y
<1> DEFINE T == {0 .. x : x \in S}
<1>1. T \subseteq FiniteSubsetsOf(Nat) /\ T # {}
  <2>1. \A x \in S : 0 .. x \in SUBSET Nat /\ IsFiniteSet(0 .. x)
      BY FS_Interval
  <2>. QED  BY <2>1 DEF FiniteSubsetsOf
<1>2. PICK t \in T : \A y \in T : ~(<<y, t>> \in StrictSubsetOrdering(Nat))
  <2> HIDE DEF T
  <2>. QED  BY <1>1, FS_StrictSubsetOrderingWellFounded, WFMin
<1>3. PICK x \in S : t = 0 .. x
    OBVIOUS
<1>4. ASSUME NEW y \in S  PROVE  x <= y
  <2>1. ~(0 .. y \subseteq 0 .. x) \/ 0 .. y = 0 .. x
    <3>1. ~(<<0 .. y, 0 .. x>> \in StrictSubsetOrdering(Nat))
        BY <1>2, <1>3
    <3>. QED  BY <3>1 DEF StrictSubsetOrdering
  <2>2. x \in Nat /\ y \in Nat
      OBVIOUS
  <2>3. CASE 0 .. y = 0 .. x
      BY <2>2, <2>3
  <2>4. CASE ~(0 .. y \subseteq 0 .. x)
      BY <2>2, <2>4
  <2>. QED  BY <2>1, <2>3, <2>4
<1>. QED  BY <1>4

\* d is the greatest common divisor of x and y, by Bezout's identity.
IsGcd(d, x, y) ==
  /\ d \in Nat
  /\ \E u, v \in Int : d = u * x + v * y
  /\ \E a \in Int : x = d * a
  /\ \E b \in Int : y = d * b

\* Rules of multiplication.
LEMMA Commutes == \A a, b \in Int : a * b = b * a
OBVIOUS
LEMMA Associates == \A a, b, c \in Int : (a * b) * c = a * (b * c)
OBVIOUS
LEMMA Distributes ==
  \A a, b, c \in Int : a * (b + c) = a * b + a * c /\ a * (b - c) = a * b - a * c
OBVIOUS
LEMMA Cancels == \A a, b, c \in Int : a # 0 /\ a * b = a * c => b = c
OBVIOUS
LEMMA Grows == \A a, b \in Int : a > 0 /\ b >= 1 => a * b >= a
OBVIOUS
LEMMA Positive == \A a, b \in Int : a > 0 /\ a * b > 0 => b > 0
OBVIOUS
LEMMA Product == \A a, b \in Int : a * b \in Int
OBVIOUS

LEMMA Division ==
  ASSUME NEW x \in Nat, NEW y \in Nat, y > 0
  PROVE  x \div y \in Nat /\ x % y \in 0 .. y - 1 /\ x = (y * (x \div y)) + (x % y)
OBVIOUS

-----------------------------------------------------------------------------
(***************************************************************************)
(* The gcd: Euclid's algorithm finds it, whatever the numbers.             *)
(***************************************************************************)

\* One turn of the algorithm, with f for the turns that follow.
Turn(f, p) == IF p[2] = 0 THEN p[1] ELSE f[<<p[2], p[1] % p[2]>>]

LEMMA EuclidTurns ==
  ASSUME NEW f, f = [p \in Nat \X Nat |-> Turn(f, p)], NEW x \in Nat, NEW y \in Nat
  PROVE  f[<<x, y>>] = IF y = 0 THEN x ELSE f[<<y, x % y>>]
<1> DEFINE p == <<x, y>>
<1>1. p \in Nat \X Nat /\ p[1] = x /\ p[2] = y
    OBVIOUS
<1> HIDE DEF p
<1>2. f[p] = Turn(f, p)
    BY Zenon, <1>1
<1>3. Turn(f, p) = IF y = 0 THEN x ELSE f[<<y, x % y>>]
    BY Zenon, <1>1 DEF Turn
<1>. QED  BY <1>2, <1>3 DEF p

LEMMA GcdIsEuclid ==
  ASSUME NEW n, NEW m
  PROVE  gcd(n, m) = (CHOOSE f : f = [p \in Nat \X Nat |-> Turn(f, p)])[<<Abs(n), Abs(m)>>]
BY Zenon DEF gcd, Turn

\* The greatest common divisor is a number, and there is only one.
LEMMA GcdType ==
  ASSUME NEW x, NEW y, NEW d, IsGcd(d, x, y)
  PROVE  d \in Nat
BY DEF IsGcd

LEMMA DivideEachOther ==
  ASSUME NEW d \in Nat, NEW e \in Nat, NEW k \in Int, NEW l \in Int, d = e * k, e = d * l
  PROVE  d = e
<1>1. CASE d = 0 \/ e = 0
    BY <1>1
<1>2. CASE d > 0 /\ e > 0
  <2>1. k >= 1 /\ l >= 1
    <3>1. e * k > 0 /\ d * l > 0
        BY <1>2
    <3>2. k > 0 /\ l > 0
        BY <1>2, <3>1, Positive
    <3>. QED  BY <3>2
  <2>2. e * k >= e /\ d * l >= d
      BY <1>2, <2>1, Grows
  <2>. QED  BY <2>2
<1>. QED  BY <1>1, <1>2

\* Whatever divides two numbers divides their combinations.
LEMMA Combination ==
  ASSUME NEW u \in Int, NEW v \in Int, NEW e \in Int, NEW a \in Int, NEW b \in Int
  PROVE  /\ u * a + v * b \in Int
         /\ u * (e * a) + v * (e * b) = e * (u * a + v * b)
<1> DEFINE ua == u * a
           vb == v * b
<1>1. ua \in Int /\ vb \in Int
    BY Product
<1>2. u * (e * a) = e * ua /\ v * (e * b) = e * vb
    BY Commutes, Associates
<1>3. e * (ua + vb) = e * ua + e * vb
  <2> HIDE DEF ua, vb
  <2>. QED  BY <1>1, Distributes
<1>. QED  BY <1>1, <1>2, <1>3

LEMMA GcdIsUnique ==
  ASSUME NEW x, NEW y, NEW d, NEW e, IsGcd(d, x, y), IsGcd(e, x, y)
  PROVE  d = e
<1>1. ASSUME NEW p, NEW q, IsGcd(p, x, y), IsGcd(q, x, y)
      PROVE  \E k \in Int : p = q * k
  <2>1. PICK u \in Int, v \in Int : p = u * x + v * y
      BY <1>1 DEF IsGcd
  <2>2. PICK a \in Int, b \in Int : x = q * a /\ y = q * b
      BY <1>1 DEF IsGcd
  <2>3. q \in Int
      BY <1>1, GcdType
  <2>. QED  BY <2>1, <2>2, <2>3, Combination
<1>2. PICK k \in Int, l \in Int : d = e * k /\ e = d * l
    BY <1>1
<1>. QED  BY <1>2, GcdType, DivideEachOther

\* What each turn of the algorithm keeps.
LEMMA GcdOfZero ==
  ASSUME NEW x \in Nat
  PROVE  IsGcd(x, x, 0)
<1>1. x = 1 * x + 0 * 0 /\ x = x * 1 /\ 0 = x * 0
    OBVIOUS
<1>. QED  BY <1>1 DEF IsGcd

LEMMA GcdTurns ==
  ASSUME NEW x \in Nat, NEW y \in Nat, y > 0, NEW d, IsGcd(d, y, x % y)
  PROVE  IsGcd(d, x, y)
<1> DEFINE q == x \div y
           s == x % y
<1>1. q \in Nat /\ s \in Nat /\ x = y * q + s
    BY Division
<1> HIDE DEF q, s
<1>2. PICK u \in Int, v \in Int : d = u * y + v * s
    BY DEF IsGcd, s
<1>3. PICK a \in Int, b \in Int : y = d * a /\ s = d * b
    BY DEF IsGcd, s
<1>4. d \in Nat
    BY GcdType
<1>5. d = v * x + (u - q * v) * y
  <2>1. v * (y * q) \in Int /\ v * s \in Int /\ q * v \in Int
      BY <1>1
  <2>2. v * x = v * (y * q) + v * s
      BY <1>1, Distributes
  <2>3. (u - q * v) * y = u * y - v * (y * q)
    <3>1. (u - q * v) * y = y * (u - q * v)
        BY <1>1, <2>1, Commutes
    <3>2. y * (u - q * v) = y * u - y * (q * v)
        BY <1>1, <2>1, Distributes
    <3>3. y * u = u * y /\ y * (q * v) = v * (y * q)
        BY <1>1, Commutes, Associates
    <3>. QED  BY <3>1, <3>2, <3>3
  <2>4. u * y \in Int
      OBVIOUS
  <2>. QED  BY <1>2, <2>1, <2>2, <2>3, <2>4
<1>6. x = d * (a * q + b)
  <2>1. a * q \in Int
      BY <1>1
  <2>2. d * (a * q + b) = d * (a * q) + d * b
      BY <1>4, <2>1, Distributes
  <2>3. d * (a * q) = y * q
      BY <1>1, <1>3, <1>4, Associates
  <2>. QED  BY <1>1, <1>3, <2>2, <2>3
<1>7. u - q * v \in Int /\ a * q + b \in Int
    BY <1>1
<1>. QED  BY <1>3, <1>4, <1>5, <1>6, <1>7 DEF IsGcd

\* There is one: the smallest y without it would have a smaller one.
LEMMA GcdExists == \A x, y \in Nat : \E d : IsGcd(d, x, y)
<1> DEFINE P(y) == \A x \in Nat : \E d : IsGcd(d, x, y)
           N == {y \in Nat : ~P(y)}
<1>1. SUFFICES ASSUME N # {} PROVE FALSE
    OBVIOUS
<1>2. PICK y \in N : \A z \in N : y <= z
  <2>1. N \in SUBSET Nat
      OBVIOUS
  <2> HIDE DEF N
  <2>. QED  BY <1>1, <2>1, LeastExists
<1>3. y \in Nat /\ ~P(y)
    OBVIOUS
<1>4. y # 0
    BY <1>3, GcdOfZero
<1>5. PICK x \in Nat : \A d : ~IsGcd(d, x, y)
    BY <1>3
<1>6. x % y \in Nat /\ ~(y <= x % y)
    BY <1>3, <1>4, Division
<1>7. P(x % y)
  <2> HIDE DEF P
  <2>. QED  BY <1>2, <1>6
<1>8. PICK d : IsGcd(d, y, x % y)
    BY <1>3, <1>7
<1>. QED  BY <1>3, <1>4, <1>5, <1>8, GcdTurns

\* There is a function that turns to the rest of the division ...
LEMMA EuclidExists == \E f : f = [p \in Nat \X Nat |-> Turn(f, p)]
<1> DEFINE D == Nat \X Nat
           f == [p \in D |-> CHOOSE d : IsGcd(d, p[1], p[2])]
<1>1. \A p \in D : IsGcd(f[p], p[1], p[2])
    BY GcdExists
<1>2. ASSUME NEW p \in D  PROVE  f[p] = Turn(f, p)
  <2>1. p[1] \in Nat /\ p[2] \in Nat /\ IsGcd(f[p], p[1], p[2])
      BY <1>1
  <2>2. CASE p[2] = 0
    <3>1. IsGcd(p[1], p[1], p[2])
        BY <2>1, <2>2, GcdOfZero
    <3>. QED  BY <2>1, <2>2, <3>1, GcdIsUnique DEF Turn
  <2>3. CASE p[2] # 0
    <3> DEFINE q == <<p[2], p[1] % p[2]>>
    <3>1. q \in D /\ q[1] = p[2] /\ q[2] = p[1] % p[2]
        BY <2>1, <2>3, Division
    <3>2. IsGcd(f[q], q[1], q[2])
      <4> HIDE DEF q, f, D
      <4>. QED  BY <1>1, <3>1
    <3> HIDE DEF q, f, D
    <3>3. IsGcd(f[q], p[1], p[2])
        BY <2>1, <2>3, <3>1, <3>2, GcdTurns
    <3>. QED  BY <2>1, <2>3, <3>3, GcdIsUnique DEF Turn, q
  <2>. QED  BY <2>2, <2>3
<1> DEFINE h == [p \in D |-> Turn(f, p)]
<1>3. f = h
    BY <1>2
<1>. QED  BY <1>3

\* ... and every such function finds the greatest common divisor.
LEMMA EuclidFinds ==
  ASSUME NEW f, f = [p \in Nat \X Nat |-> Turn(f, p)]
  PROVE  \A x, y \in Nat : IsGcd(f[<<x, y>>], x, y)
<1> DEFINE P(y) == \A x \in Nat : IsGcd(f[<<x, y>>], x, y)
           N == {y \in Nat : ~P(y)}
<1>1. SUFFICES ASSUME N # {} PROVE FALSE
    OBVIOUS
<1>2. PICK y \in N : \A z \in N : y <= z
  <2>1. N \in SUBSET Nat
      OBVIOUS
  <2> HIDE DEF N
  <2>. QED  BY <1>1, <2>1, LeastExists
<1>3. y \in Nat /\ ~P(y)
    OBVIOUS
<1>4. PICK x \in Nat : ~IsGcd(f[<<x, y>>], x, y)
    BY <1>3
<1>5. f[<<x, y>>] = IF y = 0 THEN x ELSE f[<<y, x % y>>]
    BY <1>3, EuclidTurns
<1>6. CASE y = 0
    BY <1>4, <1>5, <1>6, GcdOfZero
<1>7. CASE y # 0
  <2>1. x % y \in Nat /\ ~(y <= x % y)
      BY <1>3, <1>7, Division
  <2>2. P(x % y)
    <3> HIDE DEF P
    <3>. QED  BY <1>2, <2>1
  <2>3. IsGcd(f[<<y, x % y>>], y, x % y)
      BY <1>3, <2>2
  <2>. QED  BY <1>3, <1>4, <1>5, <1>7, <2>3, GcdTurns
<1>. QED  BY <1>6, <1>7

\* So does gcd, whatever the signs of the numbers.
LEMMA GcdFinds ==
  ASSUME NEW n \in Int, NEW m \in Int
  PROVE  IsGcd(gcd(n, m), Abs(n), Abs(m))
<1> DEFINE f == CHOOSE f : f = [p \in Nat \X Nat |-> Turn(f, p)]
<1>1. f = [p \in Nat \X Nat |-> Turn(f, p)]
    BY Zenon, EuclidExists
<1>2. gcd(n, m) = f[<<Abs(n), Abs(m)>>]
    BY Zenon, GcdIsEuclid
<1> HIDE DEF f
<1>3. Abs(n) \in Nat /\ Abs(m) \in Nat
    BY DEF Abs
<1>. QED  BY <1>1, <1>2, <1>3, EuclidFinds

-----------------------------------------------------------------------------
\* A division without rest.
LEMMA ExactDivision ==
  ASSUME NEW e \in Nat, e > 0, NEW k \in Nat
  PROVE  (e * k) \div e = k
<1> DEFINE q == (e * k) \div e
           s == (e * k) % e
<1>1. e * k \in Nat
    OBVIOUS
<1>2. q \in Nat /\ s \in 0 .. e - 1 /\ e * k = e * q + s
    BY <1>1, Division
<1> HIDE DEF q, s
<1>3. s = e * (k - q)
  <2>1. e * k \in Int /\ e * q \in Int
      BY <1>2
  <2>2. e * (k - q) = e * k - e * q
      BY <1>2, Distributes
  <2>. QED  BY <1>2, <2>1, <2>2
<1>4. ~(k - q >= 1)
  <2>1. ASSUME k - q >= 1 PROVE FALSE
    <3>1. e * (k - q) >= e
        BY <1>2, <2>1, Grows
    <3>. QED  BY <1>2, <1>3, <3>1
  <2>. QED  BY <2>1
<1>5. ~(q - k >= 1)
  <2>1. ASSUME q - k >= 1 PROVE FALSE
    <3>1. e * (q - k) >= e
        BY <1>2, <2>1, Grows
    <3>2. e * (q - k) = e * q - e * k /\ e * (k - q) = e * k - e * q
        BY <1>2, Distributes
    <3>3. e * k \in Int /\ e * q \in Int
        BY <1>2
    <3>. QED  BY <1>2, <1>3, <3>1, <3>2, <3>3
  <2>. QED  BY <2>1
<1>6. q = k
    BY <1>2, <1>4, <1>5
<1>. QED  BY <1>6 DEF q

LEMMA ExactQuotient ==
  ASSUME NEW e \in Nat, e > 0, NEW k \in Int
  PROVE  Quotient(e * k, e) = k
<1>1. CASE k >= 0
  <2>1. k \in Nat /\ e * k \in Nat
      BY <1>1
  <2>2. Abs(e * k) = e * k /\ Abs(e) = e /\ ~(e * k < 0) /\ ~(e < 0)
      BY <2>1 DEF Abs
  <2>. QED  BY <2>1, <2>2, ExactDivision DEF Quotient
<1>2. CASE k < 0
  <2>1. -k \in Nat /\ -k >= 1 /\ e * k \in Int /\ e * (-k) \in Nat /\ e * k = -(e * (-k))
      BY <1>2
  <2>2. e * (-k) >= e
      BY <2>1, Grows
  <2>3. e * k < 0 /\ ~(e < 0) /\ Abs(e * k) = e * (-k) /\ Abs(e) = e
      BY <2>1, <2>2 DEF Abs
  <2>4. (e * (-k)) \div e = -k
      BY <2>1, ExactDivision
  <2>. QED  BY <2>3, <2>4 DEF Quotient
<1>. QED  BY <1>1, <1>2

\* Numbers without a common divisor, by Bezout's identity.
Coprime(a, b) == \E u, v \in Int : u * a + v * b = 1

\* A sign makes no difference to what a number divides.
LEMMA AbsIsSigned ==
  ASSUME NEW n \in Int
  PROVE  /\ Abs(n) \in Nat
         /\ \A u \in Int : \E w \in Int : u * Abs(n) = w * n
         /\ \A u \in Int : \E w \in Int : u * n = w * Abs(n)
<1>1. Abs(n) \in Nat /\ (Abs(n) = n \/ Abs(n) = -n)
    BY DEF Abs
<1>2. \A u \in Int : u * (-n) = (-u) * n /\ u * n = (-u) * (-n) /\ -u \in Int
    OBVIOUS
<1>3. CASE Abs(n) = n
    BY <1>1, <1>3
<1>4. CASE Abs(n) = -n
    BY <1>1, <1>2, <1>4
<1>. QED  BY <1>1, <1>3, <1>4

LEMMA CoprimeGcd ==
  ASSUME NEW a \in Int, NEW b \in Int
  PROVE  gcd(a, b) = 1 <=> Coprime(a, b)
<1>1. IsGcd(gcd(a, b), Abs(a), Abs(b))
    BY GcdFinds
<1>2. ASSUME gcd(a, b) = 1 PROVE Coprime(a, b)
  <2>1. PICK u \in Int, v \in Int : 1 = u * Abs(a) + v * Abs(b)
      BY <1>1, <1>2 DEF IsGcd
  <2>2. PICK p \in Int : u * Abs(a) = p * a
      BY AbsIsSigned
  <2>3. PICK q \in Int : v * Abs(b) = q * b
      BY AbsIsSigned
  <2>. QED  BY <2>1, <2>2, <2>3 DEF Coprime
<1>3. ASSUME Coprime(a, b) PROVE gcd(a, b) = 1
  <2>1. PICK u \in Int, v \in Int : u * a + v * b = 1
      BY <1>3 DEF Coprime
  <2>2. PICK p \in Int : u * a = p * Abs(a)
      BY AbsIsSigned
  <2>3. PICK q \in Int : v * b = q * Abs(b)
      BY AbsIsSigned
  <2>4. Abs(a) = 1 * Abs(a) /\ Abs(b) = 1 * Abs(b) /\ Abs(a) \in Nat /\ Abs(b) \in Nat
      BY AbsIsSigned
  <2>5. 1 = p * Abs(a) + q * Abs(b)
      BY <2>1, <2>2, <2>3
  <2>6. 1 \in Nat /\ Abs(a) \in Int /\ Abs(b) \in Int
      BY <2>4
  <2>7. IsGcd(1, Abs(a), Abs(b))
      BY <2>4, <2>5, <2>6, Zenon DEF IsGcd
  <2>. QED  BY <1>1, <2>7, GcdIsUnique
<1>. QED  BY <1>2, <1>3

\* Divided by their gcd, two numbers have no common divisor any more.
LEMMA Reduces ==
  ASSUME NEW n \in Int, NEW d \in Int, d > 0
  PROVE  LET e == gcd(n, d)
             a == Quotient(n, e)
             c == Quotient(d, e)
         IN  /\ e \in Nat /\ e > 0 /\ a \in Int /\ c \in Int /\ c > 0
             /\ n = e * a /\ d = e * c /\ Coprime(a, c)
<1> DEFINE e == gcd(n, d)
<1>1. IsGcd(e, Abs(n), Abs(d)) /\ Abs(d) = d
    BY GcdFinds DEF Abs
<1> HIDE DEF e
<1>2. PICK k \in Int, c \in Int : Abs(n) = e * k /\ d = e * c
    BY <1>1 DEF IsGcd
<1>3. e \in Nat /\ e > 0 /\ c > 0
  <2>1. e \in Nat
      BY <1>1, GcdType
  <2>2. e # 0
      BY <1>2
  <2>. QED  BY <1>2, <2>1, <2>2, Positive
<1>4. PICK a \in Int : n = e * a
  <2>1. n = e * k \/ n = -(e * k)
      BY <1>2 DEF Abs
  <2>2. -(e * k) = e * (-k)
      BY <1>3
  <2>. QED  BY <2>1, <2>2
<1>5. Quotient(n, e) = a /\ Quotient(d, e) = c
    BY <1>2, <1>3, <1>4, ExactQuotient
<1>6. Coprime(a, c)
  <2>1. PICK u \in Int, v \in Int : e = u * Abs(n) + v * d
      BY <1>1 DEF IsGcd
  <2>2. PICK p \in Int : u * Abs(n) = p * n
      BY AbsIsSigned
  <2>3. e = p * (e * a) + v * (e * c)
      BY <1>2, <1>4, <2>1, <2>2
  <2>4. p * a + v * c \in Int /\ e = e * (p * a + v * c)
      BY <1>3, <2>3, Combination
  <2>5. e * 1 = e
      BY <1>3
  <2>6. p * a + v * c = 1
      BY <1>3, <2>4, <2>5, Cancels
  <2>. QED  BY <2>6 DEF Coprime
<1>. QED  BY <1>2, <1>3, <1>4, <1>5, <1>6 DEF e

\* p / q and a / c are the same number.
Equal(p, q, a, c) == p * c = a * q

\* The denominator of lowest terms divides every other.
LEMMA DividesDenominator ==
  ASSUME NEW a \in Int, NEW c \in Int, NEW p \in Int, NEW q \in Int,
         Coprime(a, c), Equal(p, q, a, c)
  PROVE  \E k \in Int : q = c * k
<1>1. PICK u \in Int, v \in Int : u * a + v * c = 1
    BY DEF Coprime
<1>2. q * a = c * p /\ q * c = c * q
    BY Commutes DEF Equal
<1>3. q * (u * a + v * c) = u * (c * p) + v * (c * q)
    BY <1>1, <1>2, Combination
<1>4. u * (c * p) + v * (c * q) = c * (u * p + v * q) /\ u * p + v * q \in Int
    BY Combination
<1>5. q * 1 = q
    OBVIOUS
<1>. QED  BY <1>1, <1>3, <1>4, <1>5

\* Lowest terms are unique.
LEMMA LowestTerms ==
  ASSUME NEW a \in Int, NEW c \in Int, NEW p \in Int, NEW q \in Int, c > 0, q > 0,
         Coprime(a, c), Coprime(p, q), Equal(p, q, a, c)
  PROVE  p = a /\ q = c
<1>1. PICK k \in Int : q = c * k
    BY DividesDenominator
<1>2. PICK l \in Int : c = q * l
  <2>1. Equal(a, c, p, q)
      BY DEF Equal
  <2>. QED  BY <2>1, DividesDenominator
<1>3. q = c
    BY <1>1, <1>2, DivideEachOther
<1>4. c * p = c * a
    BY <1>3, Commutes DEF Equal
<1>. QED  BY <1>3, <1>4, Cancels

-----------------------------------------------------------------------------
\* A fraction in lowest terms is one of the Rationals, if it is small enough ...
LEMMA IsRational ==
  ASSUME NEW a \in Limits, NEW c \in Limits, c > 0, Coprime(a, c)
  PROVE  Rat(a, c) \in Rationals
<1>1. a \in Int /\ c \in Int /\ a \in -INT_MAX .. INT_MAX /\ c \in 1 .. INT_MAX
    BY IntAssumption DEF Limits
<1>2. Abs(a) <= INT_MAX
    BY <1>1, IntAssumption DEF Abs
<1>3. gcd(a, c) = 1
    BY <1>1, CoprimeGcd
<1>4. Rat(a, c).num = a /\ Rat(a, c).den = c
      /\ Rat(a, c) \in [num : -INT_MAX .. INT_MAX, den : 1 .. INT_MAX]
    BY <1>1 DEF Rat
<1>. QED  BY <1>1, <1>2, <1>3, <1>4 DEF Rationals, Normal

\* ... and these are in lowest terms.
LEMMA RationalTypes ==
  ASSUME NEW y \in Rationals
  PROVE  /\ y.num \in Limits /\ y.den \in Limits /\ y.num \in Int /\ y.den \in Int
         /\ y.den > 0 /\ Coprime(y.num, y.den) /\ ~error(y)
<1>1. y.num \in -INT_MAX .. INT_MAX /\ y.den \in 1 .. INT_MAX /\ gcd(y.num, y.den) = 1
    BY DEF Rationals, Normal
<1>2. y.num \in Int /\ y.den \in Int /\ y.den > 0 /\ y.num \in Limits /\ y.den \in Limits
    BY <1>1, IntAssumption DEF Limits
<1>. QED  BY <1>1, <1>2, CoprimeGcd DEF error

\* What is found exactly.
LEMMA Exact ==
  ASSUME NEW n, NEW d, NEW x \in Rationals, x.num * d = n * x.den
  PROVE  Is(Rationals, x, n, d)
BY DEF Is

\* normalize is exact, or ends in an error of the right sign.
LEMMA NormalizeExact ==
  ASSUME NEW n \in Int, NEW d \in Int, d > 0
  PROVE  Is(Rationals, normalize(n, d), n, d)
<1> DEFINE e == gcd(n, d)
           a == Quotient(n, e)
           c == Quotient(d, e)
           nan == overflow_value(n, FALSE)
           inf == overflow_value(n, d < 0)
<1>1. /\ e \in Nat /\ e > 0 /\ a \in Int /\ c \in Int /\ c > 0
      /\ n = e * a /\ d = e * c /\ Coprime(a, c)
    BY Reduces
<1>2. normalize(n, d) =
        IF d = 0 THEN Rat(nan, 0)
        ELSE IF n = 0 THEN Rat(0, 1)
        ELSE IF a \in Limits /\ c \in Limits
        THEN IF c >= 0 THEN Rat(a, c) ELSE Rat(-a, -c)
        ELSE Rat(inf, 0)
    BY Zenon DEF normalize
<1>3. \A p, q : Rat(p, q).num = p /\ Rat(p, q).den = q
    BY DEF Rat
<1> HIDE DEF e, a, c, nan, inf
<1>4. CASE n = 0
  <2>1. normalize(n, d) = Rat(0, 1)
      BY <1>2, <1>4
  <2>2. Coprime(0, 1)
    <3>1. 0 * 0 + 1 * 1 = 1
        OBVIOUS
    <3>. QED  BY <3>1 DEF Coprime
  <2>3. 0 \in Limits /\ 1 \in Limits
      BY IntAssumption DEF Limits
  <2>4. Rat(0, 1) \in Rationals
      BY <2>2, <2>3, IsRational
  <2>5. 0 * d = n * 1
      BY <1>4
  <2>. QED  BY <1>3, <2>1, <2>4, <2>5, Exact
<1>5. CASE n # 0 /\ a \in Limits /\ c \in Limits
  <2>1. normalize(n, d) = Rat(a, c)
      BY <1>1, <1>2, <1>5
  <2>2. Rat(a, c) \in Rationals
      BY <1>1, <1>5, IsRational
  <2>3. a * d = n * c
      BY <1>1, Commutes, Associates
  <2>. QED  BY <1>3, <2>1, <2>2, <2>3, Exact
<1>6. CASE n # 0 /\ ~(a \in Limits /\ c \in Limits)
  <2>1. normalize(n, d) = Rat(inf, 0)
      BY <1>2, <1>6
  <2>2. ASSUME NEW y \in Rationals, y.num * d = n * y.den  PROVE FALSE
    <3>1. /\ y.num \in Limits /\ y.den \in Limits /\ y.num \in Int /\ y.den \in Int
          /\ y.den > 0 /\ Coprime(y.num, y.den)
        BY RationalTypes
    <3> DEFINE p == y.num
               q == y.den
    <3>2. p * d = n * q
        BY <2>2
    <3> HIDE DEF p, q
    <3>3. p \in Int /\ q \in Int
        BY <3>1 DEF p, q
    <3>4. p * c \in Int /\ a * q \in Int
        BY <1>1, <3>3
    <3>5. p * d = e * (p * c)
        BY <1>1, <3>3, Commutes, Associates
    <3>6. n * q = e * (a * q)
        BY <1>1, <3>3, Associates
    <3>7. Equal(p, q, a, c)
        BY <1>1, <3>2, <3>4, <3>5, <3>6, Cancels DEF Equal
    <3>8. p = a /\ q = c
        BY <1>1, <3>1, <3>3, <3>7, LowestTerms DEF p, q
    <3>. QED  BY <1>6, <3>1, <3>8 DEF p, q
  <2>3. inf # 0 /\ (inf > 0) = ((n > 0) = (d > 0))
      BY <1>6, IntAssumption DEF overflow_value, inf
  <2>4. error(Rat(inf, 0)) /\ Rat(inf, 0).num = inf
      BY <1>3 DEF error
  <2>. QED  BY Zenon, <2>1, <2>2, <2>3, <2>4 DEF Is
<1>. QED  BY <1>4, <1>5, <1>6

-----------------------------------------------------------------------------
(***************************************************************************)
(* The operations.                                                         *)
(***************************************************************************)

LEMMA PlusExact ==
  ASSUME NEW x \in [num : Int, den : Int], NEW y \in Rationals, ~error(x)
  PROVE  Is(Rationals, plus(x, y), x.num * y.den + y.num * x.den, x.den * y.den)
<1>1. y.num \in Int /\ y.den \in Int /\ y.den > 0 /\ ~error(y)
    BY RationalTypes
<1>2. x.num \in Int /\ x.den \in Int /\ x.den > 0
    BY DEF error
<1>3. plus(x, y) = normalize(x.num * y.den + y.num * x.den, x.den * y.den)
    BY <1>1 DEF plus
<1> DEFINE n == x.num * y.den + y.num * x.den
           d == x.den * y.den
<1>4. n \in Int /\ d \in Int /\ d > 0
  <2>1. x.num * y.den \in Int /\ y.num * x.den \in Int /\ x.den * y.den \in Int
      BY <1>1, <1>2, Product
  <2>2. d >= x.den
      BY <1>1, <1>2, Grows
  <2>. QED  BY <1>2, <2>1, <2>2
<1> HIDE DEF n, d
<1>5. Is(Rationals, normalize(n, d), n, d)
    BY <1>4, NormalizeExact
<1>. QED  BY <1>3, <1>5 DEF n, d

LEMMA TimesExact ==
  ASSUME NEW x \in [num : Int, den : Int], NEW y \in Rationals, ~error(x)
  PROVE  Is(Rationals, times(x, y), x.num * y.num, x.den * y.den)
<1>1. y.num \in Int /\ y.den \in Int /\ y.den > 0 /\ ~error(y)
    BY RationalTypes
<1>2. x.num \in Int /\ x.den \in Int /\ x.den > 0
    BY DEF error
<1>3. times(x, y) = normalize(x.num * y.num, x.den * y.den)
    BY <1>1 DEF times
<1> DEFINE n == x.num * y.num
           d == x.den * y.den
<1>4. n \in Int /\ d \in Int /\ d > 0
  <2>1. d >= x.den
      BY <1>1, <1>2, Grows
  <2>. QED  BY <1>1, <1>2, <2>1, Product
<1> HIDE DEF n, d
<1>5. Is(Rationals, normalize(n, d), n, d)
    BY <1>4, NormalizeExact
<1>. QED  BY <1>3, <1>5 DEF n, d

LEMMA InverseExact ==
  ASSUME NEW y \in Rationals
  PROVE  IF y.num = 0 THEN error(inverse(y)) ELSE Is(Rationals, inverse(y), y.den, y.num)
<1> DEFINE a == y.num
           c == y.den
<1>1. /\ a \in Limits /\ c \in Limits /\ a \in Int /\ c \in Int
      /\ c > 0 /\ Coprime(a, c) /\ ~error(y)
    BY RationalTypes
<1>2. inverse(y) = IF a > 0 THEN Rat(c, a)
                   ELSE IF a < 0 THEN Rat(-c, -a) ELSE Rat(overflow_value(c, FALSE), 0)
    BY <1>1, Zenon DEF inverse
<1>3. \A p, q : Rat(p, q).num = p /\ Rat(p, q).den = q
    BY DEF Rat
<1>4. PICK u \in Int, v \in Int : u * a + v * c = 1
    BY <1>1 DEF Coprime
<1> DEFINE nan == overflow_value(c, FALSE)
<1> HIDE DEF a, c, nan
<1>5. CASE a = 0
  <2>1. inverse(y) = Rat(nan, 0)
      BY <1>2, <1>5 DEF nan
  <2>2. error(Rat(nan, 0))
      BY <1>3 DEF error
  <2>. QED  BY <1>5, <2>1, <2>2 DEF a
<1>6. CASE a > 0
  <2>1. inverse(y) = Rat(c, a)
      BY <1>1, <1>2, <1>6
  <2>2. Coprime(c, a)
    <3>1. u * a \in Int /\ v * c \in Int
        BY <1>1, <1>4, Product
    <3>2. v * c + u * a = 1
        BY <1>4, <3>1
    <3>. QED  BY <1>4, <3>2 DEF Coprime
  <2>3. Rat(c, a) \in Rationals
      BY <1>1, <1>6, <2>2, IsRational
  <2>4. Is(Rationals, Rat(c, a), c, a)
      BY <1>3, <2>3, Exact
  <2>. QED  BY <1>1, <1>6, <2>1, <2>4 DEF a, c
<1>7. CASE a < 0
  <2>1. inverse(y) = Rat(-c, -a)
      BY <1>1, <1>2, <1>7
  <2>2. Coprime(-c, -a)
    <3>1. u * a \in Int /\ v * c \in Int
        BY <1>1, <1>4, Product
    <3>2. (-v) * (-c) = v * c /\ (-u) * (-a) = u * a /\ -v \in Int /\ -u \in Int
        BY <1>1, <1>4
    <3>3. (-v) * (-c) + (-u) * (-a) = 1
        BY <1>4, <3>1, <3>2
    <3>. QED  BY <3>2, <3>3 DEF Coprime
  <2>3. -c \in Limits /\ -a \in Limits /\ -a > 0
      BY <1>1, <1>7, IntAssumption DEF Limits
  <2>4. Rat(-c, -a) \in Rationals
      BY <2>2, <2>3, IsRational
  <2>5. (-c) * a = c * (-a)
      BY <1>1
  <2>6. Is(Rationals, Rat(-c, -a), c, a)
      BY <1>3, <2>4, <2>5, Exact
  <2>. QED  BY <1>1, <1>7, <2>1, <2>6 DEF a, c
<1>. QED  BY <1>1, <1>5, <1>6, <1>7

\* No integer is nearer, and halves are rounded away from 0.
LEMMA RoundIsNearest ==
  ASSUME NEW y \in Rationals
  PROVE  LET far == 2 * Abs(round(y) * y.den - y.num)
         IN  far <= y.den /\ (far = y.den => Abs(round(y)) * y.den > Abs(y.num))
<1> DEFINE n == y.num
           d == y.den
           s == Abs(n) % d
           q == Abs(n) \div d
           up == IF s > 0 /\ s >= d - s THEN 1 ELSE 0
           m == q + up
<1>1. n \in Int /\ d \in Int /\ d > 0 /\ ~error(y)
    BY RationalTypes
<1>2. Abs(n) \in Nat /\ Abs(d) = d
    BY <1>1 DEF Abs
<1>3. Quotient(n, d) = IF n < 0 THEN -q ELSE q
    BY <1>1, <1>2 DEF Quotient
<1>4. round(y) = IF n >= 0 THEN Quotient(n, d) + up ELSE Quotient(n, d) - up
    BY Zenon, <1>1 DEF round
<1>5. s \in 0 .. d - 1 /\ q \in Nat /\ Abs(n) = d * q + s
    BY <1>1, <1>2, Division
<1> HIDE DEF n, d, s, q
<1>6. up \in {0, 1} /\ m \in Nat
    BY <1>5
<1>7. m * d = Abs(n) + (up * d - s)
  <2>1. d * q \in Int /\ up * d \in Int
      BY <1>1, <1>5, <1>6, Product
  <2>2. m * d = d * q + up * d
    <3>1. d * (q + up) = d * q + d * up
        BY <1>1, <1>5, <1>6, Distributes
    <3>2. m * d = d * m /\ d * up = up * d
        BY <1>1, <1>6, Commutes
    <3>. QED  BY <3>1, <3>2
  <2>. QED  BY <1>5, <2>1, <2>2
<1>8. Abs(round(y)) = m /\ Abs(round(y) * d - n) = Abs(up * d - s)
  <2>1. CASE n >= 0
    <3>1. round(y) = m /\ Abs(n) = n
        BY <1>1, <1>3, <1>4, <1>5, <1>6, <2>1 DEF Abs
    <3>2. Abs(m) = m
        BY <1>6 DEF Abs
    <3>3. m * d - n = up * d - s
        BY <1>1, <1>5, <1>6, <1>7, <3>1
    <3>. QED  BY <3>1, <3>2, <3>3
  <2>2. CASE n < 0
    <3>1. round(y) = -m /\ Abs(n) = -n
        BY <1>1, <1>3, <1>4, <1>5, <1>6, <2>2 DEF Abs
    <3>2. Abs(-m) = m
        BY <1>6 DEF Abs
    <3>3. (-m) * d = -(m * d) /\ m * d \in Int /\ up * d \in Int
        BY <1>1, <1>6
    <3>4. (-m) * d - n = -(up * d - s) /\ up * d - s \in Int
        BY <1>1, <1>5, <1>7, <3>1, <3>3
    <3>5. \A z \in Int : Abs(-z) = Abs(z)
        BY DEF Abs
    <3>. QED  BY <3>1, <3>2, <3>4, <3>5
  <2>. QED  BY <1>1, <2>1, <2>2
<1>9. CASE up = 0
  <2>1. up * d - s = -s /\ Abs(-s) = s
      BY <1>1, <1>5, <1>9 DEF Abs
  <2>2. 2 * s < d
      BY <1>1, <1>5, <1>9
  <2>. QED  BY <1>1, <1>5, <1>8, <2>1, <2>2 DEF n, d
<1>10. CASE up = 1
  <2>1. up * d - s = d - s /\ Abs(d - s) = d - s
      BY <1>1, <1>5, <1>10 DEF Abs
  <2>2. 2 * (d - s) <= d
      BY <1>1, <1>5, <1>10
  <2>3. m * d > Abs(n)
      BY <1>1, <1>2, <1>5, <1>7, <2>1
  <2>. QED  BY <1>1, <1>5, <1>8, <2>1, <2>2, <2>3 DEF n, d
<1>. QED  BY <1>6, <1>9, <1>10

\* The powers of 10: functions that multiply up to some number ...
Multiplies(f, n) == \A k \in 0 .. n : f[k] = IF k = 0 THEN 1 ELSE 10 * f[k - 1]

\* ... exist for every number ...
LEMMA PowersUpTo == \A n \in Nat : \E f : Multiplies(f, n)
<1> DEFINE P(n) == \E f : Multiplies(f, n)
           N == {n \in Nat : ~P(n)}
<1>1. SUFFICES ASSUME N # {} PROVE FALSE
    OBVIOUS
<1>2. PICK n \in N : \A z \in N : n <= z
  <2>1. N \in SUBSET Nat
      OBVIOUS
  <2> HIDE DEF N
  <2>. QED  BY <1>1, <2>1, LeastExists
<1>3. n \in Nat /\ ~P(n)
    OBVIOUS
<1>4. n # 0
  <2>1. Multiplies([k \in {0} |-> 1], 0)
      BY DEF Multiplies
  <2>. QED  BY <1>3, <2>1
<1>5. n - 1 \in Nat /\ ~(n <= n - 1)
    BY <1>3, <1>4
<1>6. P(n - 1)
  <2> HIDE DEF P
  <2>. QED  BY <1>2, <1>5
<1>7. PICK f : Multiplies(f, n - 1)
    BY <1>6
<1> DEFINE h == [k \in 0 .. n |-> IF k = n THEN 10 * f[n - 1] ELSE f[k]]
<1>8. \A k \in 0 .. n : h[k] = IF k = n THEN 10 * f[n - 1] ELSE f[k]
    OBVIOUS
<1> HIDE DEF h
<1>9. ASSUME NEW k \in 0 .. n  PROVE  h[k] = IF k = 0 THEN 1 ELSE 10 * h[k - 1]
  <2>1. CASE k = n
    <3>1. h[k] = 10 * f[n - 1] /\ h[n - 1] = f[n - 1]
        BY <1>3, <1>5, <1>8, <2>1
    <3>. QED  BY <1>4, <2>1, <3>1
  <2>2. CASE k # n
    <3>1. k \in 0 .. n - 1 /\ (k # 0 => k - 1 \in 0 .. n /\ k - 1 # n)
        BY <1>3, <2>2
    <3>2. h[k] = f[k] /\ (k # 0 => h[k - 1] = f[k - 1])
        BY <1>8, <2>2, <3>1
    <3>. QED  BY <1>7, <3>1, <3>2 DEF Multiplies
  <2>. QED  BY <2>1, <2>2
<1>10. Multiplies(h, n)
    BY <1>9 DEF Multiplies
<1>. QED  BY <1>3, <1>10

\* ... agree ...
LEMMA PowersAgree ==
  ASSUME NEW m \in Nat, NEW n \in Nat, m <= n, NEW f, NEW h,
         Multiplies(f, m), Multiplies(h, n)
  PROVE  f[m] = h[m]
<1> DEFINE N == {k \in 0 .. m : f[k] # h[k]}
<1>1. SUFFICES ASSUME N # {} PROVE FALSE
    OBVIOUS
<1>2. PICK k \in N : \A z \in N : k <= z
  <2>1. N \in SUBSET Nat
      OBVIOUS
  <2> HIDE DEF N
  <2>. QED  BY <1>1, <2>1, LeastExists
<1>3. k \in 0 .. m /\ k \in 0 .. n /\ f[k] # h[k]
    OBVIOUS
<1>4. k # 0
    BY <1>3 DEF Multiplies
<1>5. k - 1 \in 0 .. m /\ ~(k <= k - 1)
    BY <1>3, <1>4
<1>6. f[k - 1] = h[k - 1]
    BY <1>2, <1>5
<1>7. f[k] = 10 * f[k - 1] /\ h[k] = 10 * h[k - 1]
    BY <1>3, <1>4 DEF Multiplies
<1>. QED  BY <1>3, <1>6, <1>7

\* ... and together are Power10.
LEMMA Powers == Power10[0] = 1 /\ Power10[1] = 10 /\ Power10[2] = 100
<1> DEFINE F(n) == CHOOSE f : Multiplies(f, n)
           h == [n \in Nat |-> F(n)[n]]
           Times10(f, k) == IF k = 0 THEN 1 ELSE 10 * f[k - 1]
<1>1. \A n \in Nat : Multiplies(F(n), n)
    BY PowersUpTo
<1> HIDE DEF F
<1>2. ASSUME NEW n \in Nat  PROVE  h[n] = Times10(h, n)
  <2>1. CASE n = 0
    <3>1. F(0)[0] = 1
        BY <1>1 DEF Multiplies
    <3>. QED  BY <2>1, <3>1
  <2>2. CASE n # 0
    <3>1. n - 1 \in Nat /\ n - 1 <= n /\ n \in 0 .. n
        BY <2>2
    <3>2. F(n)[n] = 10 * F(n)[n - 1]
        BY <1>1, <2>2, <3>1 DEF Multiplies
    <3>3. Multiplies(F(n - 1), n - 1) /\ Multiplies(F(n), n)
        BY <1>1, <3>1
    <3>4. F(n - 1)[n - 1] = F(n)[n - 1]
        BY <3>1, <3>3, PowersAgree
    <3>5. h[n] = F(n)[n] /\ h[n - 1] = F(n - 1)[n - 1]
        BY <3>1
    <3>. QED  BY <2>2, <3>2, <3>4, <3>5
  <2>. QED  BY <2>1, <2>2
<1>3. \E f : f = [k \in Nat |-> Times10(f, k)]
  <2> DEFINE t == [k \in Nat |-> Times10(h, k)]
  <2>1. h = t
      BY <1>2
  <2>. QED  BY <2>1
<1>4. Power10 = CHOOSE f : f = [k \in Nat |-> Times10(f, k)]
    BY Zenon DEF Power10
<1>5. Power10 = [k \in Nat |-> Times10(Power10, k)]
    BY Zenon, <1>3, <1>4
<1>6. \A k \in Nat : Power10[k] = Times10(Power10, k)
    BY <1>5, Zenon
<1>7. Power10[0] = 1
    BY <1>6
<1>8. Power10[1] = 10 * Power10[0]
    BY <1>6
<1>9. Power10[2] = 10 * Power10[1]
    BY <1>6
<1>. QED  BY <1>7, <1>8, <1>9

\* What a number is does not change if both terms are multiplied.
LEMMA ExactScaled ==
  ASSUME NEW n \in Int, NEW d \in Int, d > 0, NEW k \in Int,
         NEW N, N = n * k, NEW D, D = d * k, ~error(normalize(n, d))
  PROVE  Is(Rationals, normalize(n, d), N, D)
<1> DEFINE y == normalize(n, d)
<1>1. Is(Rationals, y, n, d)
    BY NormalizeExact
<1> HIDE DEF y
<1>2. y \in Rationals /\ y.num * d = n * y.den
    BY <1>1 DEF Is, y
<1>3. y.num \in Int /\ y.den \in Int
    BY <1>2, RationalTypes
<1>4. y.num * D = N * y.den
  <2>1. y.num * (d * k) = (y.num * d) * k
      BY <1>3, Associates
  <2>2. (n * k) * y.den = (n * y.den) * k
      BY <1>3, Commutes, Associates
  <2>. QED  BY <1>2, <2>1, <2>2
<1>. QED  BY <1>2, <1>4, Exact DEF y

LEMMA ParseExact ==
  ASSUME NEW x \in Texts, NEW y \in parse(x)
  PROVE  Is(Rationals, y, IF x.minus THEN -x.n ELSE x.n, Scale(x)) /\ ~error(y)
<1> DEFINE d == IF x.slash THEN x.d ELSE Power10[x.point]
           p == IF ~x.percent THEN <<x.n, d>>
                ELSE IF x.n % 100 = 0 THEN <<x.n \div 100, d>>
                ELSE IF x.n % 10 = 0 /\ d * 10 <= LLONG_MAX THEN <<x.n \div 10, d * 10>>
                ELSE <<x.n, d * 100>>
           n == IF x.minus THEN -p[1] ELSE p[1]
           text == IF x.minus THEN -x.n ELSE x.n
<1>1. x.n \in Nat /\ x.d \in Nat /\ x.point \in {0, 1, 2}
  <2>1. CASE x \in [minus : BOOLEAN, n : {0, 3, 5, 20, 25, 45}, point : 0 .. 2,
                    slash : {FALSE}, d : {1}, percent : BOOLEAN]
      BY <2>1
  <2>2. CASE x \in [minus : BOOLEAN, n : {0, 2, 6, 10}, point : {0}, slash : {TRUE},
                    d : {0, 1, 4, 7}, percent : {FALSE}]
      BY <2>2
  <2>. QED  BY Zenon, <2>1, <2>2 DEF Texts
<1>2. d \in Nat
    BY <1>1, Powers
<1>3. y = normalize(n, p[2]) /\ d # 0 /\ ~error(y)
    BY Zenon DEF parse
<1>4. Scale(x) = d * IF x.percent THEN 100 ELSE 1
    BY Zenon DEF Scale
<1> HIDE DEF d
<1>5. \E k \in {1, 10, 100} :
        p[1] \in Nat /\ p[2] \in Nat /\ p[2] > 0 /\ x.n = p[1] * k /\ Scale(x) = p[2] * k
  <2>1. CASE ~x.percent
    <3>1. p = <<x.n, d>> /\ Scale(x) = d * 1
        BY Zenon, <1>4, <2>1
    <3>. QED  BY <1>1, <1>2, <1>3, <3>1
  <2>2. CASE x.percent /\ x.n % 100 = 0
    <3> DEFINE q == x.n \div 100
    <3>1. p = <<q, d>> /\ Scale(x) = d * 100 /\ x.n % 100 = 0
        BY Zenon, <1>4, <2>2
    <3>2. q \in Nat /\ x.n = 100 * q + (x.n % 100)
        BY <1>1, Division
    <3> HIDE DEF p, q
    <3>3. x.n = q * 100
        BY <3>1, <3>2
    <3>. QED  BY <1>2, <1>3, <3>1, <3>2, <3>3
  <2>3. CASE x.percent /\ x.n % 100 # 0 /\ x.n % 10 = 0 /\ d * 10 <= LLONG_MAX
    <3>1. p = <<x.n \div 10, d * 10>> /\ Scale(x) = d * 100
        BY Zenon, <1>4, <2>3
    <3>2. x.n = (x.n \div 10) * 10 /\ x.n \div 10 \in Nat
        BY <1>1, <2>3
    <3>. QED  BY <1>2, <1>3, <3>1, <3>2
  <2>4. CASE x.percent /\ x.n % 100 # 0 /\ ~(x.n % 10 = 0 /\ d * 10 <= LLONG_MAX)
    <3>1. p = <<x.n, d * 100>> /\ Scale(x) = d * 100
        BY Zenon, <1>4, <2>4
    <3>. QED  BY <1>1, <1>2, <1>3, <3>1
  <2>. QED  BY Zenon, <2>1, <2>2, <2>3, <2>4
<1>6. PICK k \in Int :
        p[1] \in Nat /\ p[2] \in Nat /\ p[2] > 0 /\ x.n = p[1] * k /\ Scale(x) = p[2] * k
    BY <1>5
<1> DEFINE p1 == p[1]
           p2 == p[2]
<1> HIDE DEF p
<1>7. n \in Int /\ text = n * k
  <2>1. CASE x.minus
    <3>1. n = -p1 /\ text = -x.n
        BY Zenon, <2>1
    <3>2. p1 \in Int /\ (-p1) * k = -(p1 * k)
        BY <1>6
    <3>. QED  BY <1>6, <3>1, <3>2
  <2>2. CASE ~x.minus
    <3>1. n = p1 /\ text = x.n
        BY Zenon, <2>2
    <3>. QED  BY <1>6, <3>1
  <2>. QED  BY <2>1, <2>2
<1> HIDE DEF n, text, p1, p2
<1>8. p2 \in Int /\ p2 > 0 /\ Scale(x) = p2 * k /\ y = normalize(n, p2) /\ ~error(y)
    BY <1>3, <1>6 DEF p2
<1>9. Is(Rationals, y, text, Scale(x))
    BY <1>7, <1>8, ExactScaled
<1>. QED  BY <1>3, <1>9 DEF text

\* The arithmetic on the pauses is exact, or ends in an error of the right sign; round
\* gives the nearest integer, and parse what is written (class Rational), for ints and
\* long longs of every size.
THEOREM RationalIsExact == Spec => []RationalExact
<1>1. Init => IInv
    BY IInvInit
<1>2. IInv /\ [Next]_vars => IInv'
    BY Step DEF Kept, IInv
<1>3. ASSUME IInv PROVE RationalExact
  <2>1. r.tp \in [num : Int, den : Int]
      BY <1>3 DEF IInv, Types, RState
  <2>. QED
      BY <2>1, PlusExact, TimesExact, InverseExact, RoundIsNearest, ParseExact, Zenon
         DEF RationalExact
<1>. QED  BY <1>1, <1>2, <1>3, PTL DEF Spec
=============================================================================
