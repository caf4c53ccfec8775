---------------------------- MODULE LoadProofs -----------------------------
(***************************************************************************)
(* Theorems about what becomes of a mapfile when it is loaded: the folds   *)
(* and the recursion that read, extend, compact, join and split the vector *)
(* of blocks (MapVector).                                                  *)
(***************************************************************************)
EXTENDS VectorProofs

-----------------------------------------------------------------------------
(***************************************************************************)
(* Folds over sequences, as the steps they are made of.                    *)
(***************************************************************************)

\* A set of numbers that has 0, and every number whose predecessor it has.
LEMMA StepByStep ==
  ASSUME NEW n \in Nat, NEW S, 0 \in S, \A k \in 1 .. n : k - 1 \in S => k \in S
  PROVE  \A k \in 0 .. n : k \in S
<1> DEFINE N == {k \in 0 .. n : k \notin S}
<1>1. N = {}
  <2>1. SUFFICES ASSUME N # {} PROVE FALSE
      OBVIOUS
  <2>2. N \in SUBSET Nat
      OBVIOUS
  <2>3. PICK k \in N : \A y \in N : k <= y
    <3> HIDE DEF N
    <3>. QED  BY <2>1, <2>2, MinExists
  <2>4. k \in 0 .. n /\ k \notin S /\ k # 0
      BY <2>3
  <2>5. k \in 1 .. n /\ k - 1 \in 0 .. n /\ k - 1 \notin N
      BY <2>3, <2>4
  <2>6. k - 1 \in S
      BY <2>5
  <2>. QED  BY <2>4, <2>5, <2>6
<1>. QED  BY <1>1

\* The greatest index of a part of a sequence that has the last one of it.
LEMMA LastIndex ==
  ASSUME NEW n \in Nat, NEW s \in SUBSET (1 .. n), n \in s
  PROVE  Max(s) = n
<1>1. s \in SUBSET (0 .. n) /\ s # {}
    OBVIOUS
<1>2. Max(s) \in s /\ \A y \in s : Max(s) >= y
    BY <1>1, MaxExists
<1>3. Max(s) \in 1 .. n /\ Max(s) >= n
    BY <1>2
<1> DEFINE x == Max(s)
<1> HIDE DEF x
<1>4. x \in 1 .. n /\ x >= n
    BY <1>3 DEF x
<1>5. x = n
    BY <1>4
<1>. QED  BY <1>5 DEF x

LEMMA IndicesUpTo ==
  ASSUME NEW n \in Nat, NEW k \in 1 .. n
  PROVE  /\ 1 .. k \in SUBSET (1 .. n) /\ 1 .. k - 1 \in SUBSET (1 .. n)
         /\ 1 .. k # {} /\ Max(1 .. k) = k /\ (1 .. k) \ {k} = 1 .. k - 1
<1>1. k \in Nat /\ 1 .. k \in SUBSET (1 .. k) /\ k \in 1 .. k
    OBVIOUS
<1>2. Max(1 .. k) = k
    BY <1>1, LastIndex
<1>. QED  BY <1>1, <1>2

\* A function that folds g over any part of the indices of a sequence.
Folds(h, n, base, g) ==
  \A s \in SUBSET (1 .. n) :
    h[s] = IF s = {} THEN base ELSE g[<<h[s \ {Max(s)}], Max(s)>>]

\* There is one: it is built up index by index.
LEMMA FoldExists ==
  ASSUME NEW n \in Nat, NEW W, NEW base \in W, NEW g,
         \A w \in W, k \in 1 .. n : g[<<w, k>>] \in W
  PROVE  \E h \in [SUBSET (1 .. n) -> W] : Folds(h, n, base, g)
<1> DEFINE P(m) == \E h \in [SUBSET (1 .. m) -> W] : Folds(h, m, base, g)
           S == {m \in 0 .. n : P(m)}
<1>1. P(0)
  <2> DEFINE h == [s \in SUBSET (1 .. 0) |-> base]
  <2>1. h \in [SUBSET (1 .. 0) -> W] /\ \A s \in SUBSET (1 .. 0) : h[s] = base
      OBVIOUS
  <2>2. \A s \in SUBSET (1 .. 0) : s = {}
      OBVIOUS
  <2> HIDE DEF h
  <2>3. Folds(h, 0, base, g)
      BY Zenon, <2>1, <2>2 DEF Folds
  <2>. QED  BY <2>1, <2>3
<1>2. ASSUME NEW m \in 1 .. n, P(m - 1)  PROVE  P(m)
  <2>1. PICK f \in [SUBSET (1 .. m - 1) -> W] : Folds(f, m - 1, base, g)
      BY <1>2
  <2> DEFINE D == SUBSET (1 .. m)
             h == [s \in D |-> IF m \in s THEN g[<<f[s \ {m}], m>>] ELSE f[s]]
  <2>2. \A s \in D : /\ m \in s => s \ {m} \in SUBSET (1 .. m - 1) /\ Max(s) = m
                     /\ m \notin s => s \in SUBSET (1 .. m - 1)
                     /\ s # {} => s \ {Max(s)} \in D
    <3>1. m \in Nat
        OBVIOUS
    <3>2. ASSUME NEW s \in D, m \in s  PROVE  Max(s) = m
        BY <3>1, <3>2, LastIndex
    <3>3. ASSUME NEW s \in D  PROVE  /\ s \ {m} \in SUBSET (1 .. m - 1)
                                     /\ s \ {Max(s)} \in D
      <4>1. \A x \in 1 .. m : x # m => x \in 1 .. m - 1
          OBVIOUS
      <4>2. s \ {m} \subseteq 1 .. m - 1
          BY <4>1
      <4>. QED  BY <4>2
    <3>4. ASSUME NEW s \in D, m \notin s  PROVE  s \in SUBSET (1 .. m - 1)
        BY <3>4
    <3>. QED  BY <3>2, <3>3, <3>4
  <2>3. \A s \in D : (IF m \in s THEN g[<<f[s \ {m}], m>>] ELSE f[s]) \in W
      BY <2>1, <2>2
  <2>4. h \in [D -> W] /\ \A s \in D : h[s] = IF m \in s THEN g[<<f[s \ {m}], m>>] ELSE f[s]
      BY <2>3
  <2> HIDE DEF h
  <2>5. ASSUME NEW s \in D
        PROVE  h[s] = IF s = {} THEN base ELSE g[<<h[s \ {Max(s)}], Max(s)>>]
    <3>1. CASE m \in s
      <4>1. s # {} /\ Max(s) = m /\ s \ {m} \in D /\ m \notin s \ {m}
          BY <2>2, <3>1
      <4>2. h[s \ {m}] = f[s \ {m}]
          BY <2>4, <4>1
      <4>. QED  BY <2>4, <3>1, <4>1, <4>2
    <3>2. CASE m \notin s
      <4>1. s \in SUBSET (1 .. m - 1) /\ h[s] = f[s]
          BY <2>2, <2>4, <3>2
      <4>2. f[s] = IF s = {} THEN base ELSE g[<<f[s \ {Max(s)}], Max(s)>>]
          BY Zenon, <2>1, <4>1 DEF Folds
      <4>3. s # {} => s \ {Max(s)} \in D /\ m \notin s \ {Max(s)}
          BY <2>2, <3>2
      <4>4. s # {} => h[s \ {Max(s)}] = f[s \ {Max(s)}]
          BY <2>4, <4>3
      <4>. QED  BY <4>1, <4>2, <4>4
    <3>. QED  BY <3>1, <3>2
  <2>6. Folds(h, m, base, g)
      BY Zenon, <2>5 DEF Folds
  <2>. QED  BY <2>4, <2>6
<1>3. 0 \in S /\ \A m \in 1 .. n : m - 1 \in S => m \in S
  <2>1. 0 \in 0 .. n /\ \A m \in 1 .. n : m \in 0 .. n /\ m - 1 \in 0 .. n
      OBVIOUS
  <2> HIDE DEF P
  <2>. QED  BY <1>1, <1>2, <2>1
<1>4. n \in S
  <2>1. n \in 0 .. n
      OBVIOUS
  <2> HIDE DEF S
  <2>. QED  BY <1>3, <2>1, StepByStep
<1>. QED  BY <1>4

\* The last block of a sequence of them, and those before it.
LEMMA FrontAndLast ==
  ASSUME NEW S, NEW w \in Seq(S), w # <<>>
  PROVE  /\ Len(w) \in Nat \ {0} /\ Last(w) = w[Len(w)] /\ Last(w) \in S
         /\ Front(w) \in Seq(S) /\ Len(Front(w)) = Len(w) - 1
         /\ \A i \in 1 .. Len(w) - 1 : Front(w)[i] = w[i]
<1>1. Len(w) \in Nat \ {0} /\ Last(w) = w[Len(w)]
    BY EmptySeq DEF Last
<1>2. \A i \in 1 .. Len(w) : w[i] \in S
    BY ElementOfSeq
<1>3. Last(w) \in S
    BY <1>1, <1>2
<1>4. Front(w) = SubSeq(w, 1, Len(w) - 1)
    BY DEF Front
<1>5. \A i \in 1 .. Len(w) - 1 : w[i] \in S
    BY <1>1, <1>2
<1> DEFINE u == SubSeq(w, 1, Len(w) - 1)
<1>6. /\ u \in Seq(S) /\ Len(u) = IF 1 <= Len(w) - 1 THEN Len(w) - 1 - 1 + 1 ELSE 0
      /\ \A i \in 1 .. Len(w) - 1 - 1 + 1 : u[i] = w[1 + i - 1]
    BY <1>1, <1>5, SubSeqProperties
<1> HIDE DEF u
<1>7. Len(u) = Len(w) - 1 /\ \A i \in 1 .. Len(w) - 1 : u[i] = w[i]
  <2>1. Len(u) = Len(w) - 1
    <3>1. \A n \in Nat \ {0} : (IF 1 <= n - 1 THEN n - 1 - 1 + 1 ELSE 0) = n - 1
        OBVIOUS
    <3>. QED  BY Zenon, <1>1, <1>6, <3>1
  <2>2. \A i \in 1 .. Len(w) - 1 : i \in 1 .. Len(w) - 1 - 1 + 1 /\ 1 + i - 1 = i
      BY <1>1
  <2>. QED  BY <1>6, <2>1, <2>2
<1>. QED  BY <1>1, <1>3, <1>4, <1>6, <1>7 DEF u

\* A block with another size, which is as asked for if that is in range.
LEMMA SizeSet ==
  ASSUME NEW b \in Sblocks, NEW n \in Int
  PROVE  LET y == set_size(b, n)
         IN  /\ y \in Sblocks /\ y.pos = b.pos /\ y.st = b.st
             /\ n >= 0 /\ n <= LLONG_MAX - b.pos => y.size = n
<1> DEFINE m == LLONG_MAX - b.pos
           z == IF n < 0 \/ n > m THEN m ELSE n
           y == [b EXCEPT !.size = z]
<1>1. /\ LLONG_MAX \in Nat /\ b \in [pos : Nat, size : Nat, st : Status]
      /\ b.pos \in Nat /\ b.size \in Nat /\ b.st \in Status /\ b.pos + b.size <= LLONG_MAX
    BY LimitAssumption DEF Sblocks, InRange, end
<1>2. z \in Nat /\ b.pos + z <= LLONG_MAX
    BY <1>1
<1> HIDE DEF m, z
<1>3. y.pos = b.pos /\ y.size = z /\ y.st = b.st /\ y \in [pos : Nat, size : Nat, st : Status]
    BY <1>1, <1>2
<1>4. set_size(b, n) = y
  <2> DEFINE c == [b EXCEPT !.size = n]
  <2>1. c.pos = b.pos /\ c.size = n
      BY <1>1
  <2>3. /\ [c EXCEPT !.size = m] = [b EXCEPT !.size = m]
        /\ c = [b EXCEPT !.size = n]
      BY <1>1
  <2>2. set_size(b, n) = fix_size(c)
      BY DEF set_size
  <2> HIDE DEF c
  <2>4. CASE n < 0 \/ n > m
    <3>1. fix_size(c) = [c EXCEPT !.size = m]
        BY <2>1, <2>4 DEF fix_size, m
    <3>. QED  BY <2>2, <2>3, <2>4, <3>1 DEF z
  <2>5. CASE ~(n < 0 \/ n > m)
    <3>1. fix_size(c) = c
        BY <2>1, <2>5 DEF fix_size, m
    <3>. QED  BY <2>2, <2>3, <2>5, <3>1 DEF z
  <2>. QED  BY <2>4, <2>5
<1> HIDE DEF y
<1>5. y \in Sblocks
    BY <1>2, <1>3 DEF Sblocks, InRange, end
<1>6. n >= 0 /\ n <= LLONG_MAX - b.pos => y.size = n
    BY <1>1, <1>3 DEF m, z
<1>. QED  BY <1>3, <1>4, <1>5, <1>6

\* One block more keeps compact_sblock_vector within the blocks in range.
LEMMA JoinSameTypes ==
  ASSUME NEW w \in Seq(Sblocks), NEW x \in Sblocks
  PROVE  JoinSame(w, x) \in Seq(Sblocks)
<1>1. CASE w # <<>> /\ Last(w).st = x.st
  <2> DEFINE y == set_size(Last(w), end(x) - Last(w).pos)
  <2>1. Last(w) \in Sblocks /\ Front(w) \in Seq(Sblocks)
      BY <1>1, FrontAndLast
  <2>2. end(x) - Last(w).pos \in Int
      BY <2>1 DEF Sblocks, end
  <2>3. y \in Sblocks
      BY <2>1, <2>2, SizeSet
  <2> HIDE DEF y
  <2>4. Front(w) \o <<y>> \in Seq(Sblocks)
    <3>1. <<y>> \in Seq(Sblocks)
        BY <2>3
    <3>. QED  BY <2>1, <3>1, ConcatProperties
  <2>. QED  BY <1>1, <2>4 DEF JoinSame, y
<1>2. CASE ~(w # <<>> /\ Last(w).st = x.st)
  <2>1. Append(w, x) \in Seq(Sblocks)
      BY AppendProperties
  <2>. QED  BY <1>2, <2>1 DEF JoinSame
<1>. QED  BY <1>1, <1>2

\* compact_sblock_vector, block by block.
LEMMA CompactSteps ==
  ASSUME NEW v \in Seq(Sblocks)
  PROVE  \E F : /\ F[0] = <<>>
                /\ \A k \in 1 .. Len(v) : F[k] = JoinSame(F[k - 1], v[k])
                /\ compact_sblock_vector(v) = F[Len(v)]
<1> DEFINE n    == Len(v)
           Of(h) == [s \in SUBSET DOMAIN v |->
                      IF s = {} THEN <<>> ELSE JoinSame(h[s \ {Max(s)}], v[Max(s)])]
           iter == CHOOSE h : h = Of(h)
           F    == [k \in 0 .. n |-> iter[1 .. k]]
<1>1. n \in Nat /\ DOMAIN v = 1 .. n /\ \A k \in 1 .. n : v[k] \in Sblocks
    BY LenProperties, ElementOfSeq
<1>2. \E h : h = Of(h)
  <2> DEFINE W == Seq(Sblocks)
             g == [x \in W \X (1 .. n) |-> JoinSame(x[1], v[x[2]])]
  <2>1. <<>> \in W
      BY EmptySeq
  <2>2. \A w \in W, k \in 1 .. n : g[<<w, k>>] = JoinSame(w, v[k]) /\ g[<<w, k>>] \in W
    <3>1. ASSUME NEW w \in W, NEW k \in 1 .. n  PROVE  g[<<w, k>>] = JoinSame(w, v[k])
        OBVIOUS
    <3>2. ASSUME NEW w \in W, NEW k \in 1 .. n  PROVE  JoinSame(w, v[k]) \in W
        BY <1>1, JoinSameTypes
    <3>. QED  BY <3>1, <3>2
  <2> HIDE DEF g, W, n
  <2>3. PICK h \in [SUBSET (1 .. n) -> W] : Folds(h, n, <<>>, g)
      BY <1>1, <2>1, <2>2, FoldExists
  <2>4. ASSUME NEW s \in SUBSET (1 .. n)
        PROVE  h[s] = IF s = {} THEN <<>> ELSE JoinSame(h[s \ {Max(s)}], v[Max(s)])
    <3>1. h[s] = IF s = {} THEN <<>> ELSE g[<<h[s \ {Max(s)}], Max(s)>>]
        BY Zenon, <2>3 DEF Folds
    <3>2. CASE s # {}
      <4>1. Max(s) \in 1 .. n /\ s \ {Max(s)} \in SUBSET (1 .. n)
        <5>1. s \in SUBSET (0 .. n)
            BY <1>1
        <5>2. Max(s) \in s
            BY <1>1, <3>2, <5>1, MaxExists
        <5>. QED  BY <5>2
      <4>2. h[s \ {Max(s)}] \in W
          BY <2>3, <4>1
      <4>. QED  BY Zenon, <2>2, <3>1, <3>2, <4>1, <4>2
    <3>. QED  BY <3>1, <3>2
  <2>5. h = Of(h)
      BY Zenon, <1>1, <2>3, <2>4
  <2>. QED  BY <2>5
<1>3. iter = Of(iter)
  <2> HIDE DEF Of
  <2>. QED  BY Zenon, <1>2
<1> HIDE DEF iter
<1>4. \A s \in SUBSET (1 .. n) :
        iter[s] = IF s = {} THEN <<>> ELSE JoinSame(iter[s \ {Max(s)}], v[Max(s)])
    BY Zenon, <1>1, <1>3
<1>5. F[0] = <<>>
  <2>1. 1 .. 0 = {} /\ 0 \in 0 .. n /\ 1 .. 0 \in SUBSET (1 .. n)
      BY <1>1
  <2>2. F[0] = iter[1 .. 0]
      BY <2>1
  <2>. QED  BY Zenon, <1>4, <2>1, <2>2
<1>6. ASSUME NEW k \in 1 .. n  PROVE  F[k] = JoinSame(F[k - 1], v[k])
  <2>1. /\ 1 .. k \in SUBSET (1 .. n) /\ 1 .. k # {} /\ Max(1 .. k) = k
        /\ (1 .. k) \ {k} = 1 .. k - 1
      BY <1>1, IndicesUpTo
  <2>2. k \in 0 .. n /\ k - 1 \in 0 .. n
      BY <1>1
  <2>3. F[k] = iter[1 .. k] /\ F[k - 1] = iter[1 .. k - 1]
      BY <2>2
  <2>. QED  BY Zenon, <1>4, <2>1, <2>3
<1>7. compact_sblock_vector(v) = F[n]
  <2>1. compact_sblock_vector(v) = iter[DOMAIN v]
      BY Zenon DEF compact_sblock_vector, FoldLeft, MapThenFoldSet, iter
  <2>2. n \in 0 .. n
      BY <1>1
  <2>. QED  BY Zenon, <1>1, <2>1, <2>2
<1>. QED  BY <1>5, <1>6, <1>7

-----------------------------------------------------------------------------
(***************************************************************************)
(* Consecutive blocks put together.                                        *)
(***************************************************************************)

\* Two rows of blocks of which the second begins where the first one ends.
LEMMA RowsInRow ==
  ASSUME NEW a, NEW f, NEW m, Row(a, f, m), NEW b, NEW x, NEW y, Row(b, x, y),
         x.pos = end(m)
  PROVE  Row(a \o b, f, y) /\ BlocksOf(a \o b) = BlocksOf(a) \cup BlocksOf(b)
<1> DEFINE k == Len(a)
           l == Len(b)
           r == a \o b
<1>1. a \in Seq(Blocks) /\ b \in Seq(Blocks) /\ k \in Nat \ {0} /\ l \in Nat \ {0}
    BY EmptySeq DEF Row, Consecutive
<1>2. /\ \A i \in 1 .. k : /\ a[i].size > 0 /\ end(a[i]) <= LLONG_MAX
                           /\ i > 1 => a[i].pos = end(a[i - 1])
      /\ \A i \in 1 .. l : /\ b[i].size > 0 /\ end(b[i]) <= LLONG_MAX
                           /\ i > 1 => b[i].pos = end(b[i - 1])
    BY <1>1, ConsecutiveTypes DEF Row
<1>3. a[1].pos = f.pos /\ end(a[k]) = end(m) /\ b[1].pos = x.pos /\ end(b[l]) = end(y)
    BY DEF Row
<1>4. /\ r \in Seq(Blocks) /\ Len(r) = k + l /\ DOMAIN r = 1 .. k + l
      /\ \A i \in 1 .. k + l : r[i] = IF i <= k THEN a[i] ELSE b[i - k]
    BY <1>1, ConcatProperties, LenProperties
<1>5. BlocksOf(r) = BlocksOf(a) \cup BlocksOf(b)
    BY <1>1, ConcatBlocks
<1> HIDE DEF k, l, r
<1>6. ASSUME NEW i \in 1 .. k + l
      PROVE  /\ r[i].size > 0 /\ end(r[i]) <= LLONG_MAX
             /\ i > 1 => r[i].pos = end(r[i - 1])
  <2>1. CASE i <= k
    <3>1. i \in 1 .. k /\ r[i] = a[i] /\ (i > 1 => r[i - 1] = a[i - 1])
        BY <1>1, <1>4, <2>1
    <3>. QED  BY <1>2, <3>1
  <2>2. CASE i = k + 1
    <3>1. r[i] = b[1] /\ r[i - 1] = a[k] /\ 1 \in 1 .. l
      <4>1. i - k = 1 /\ i - 1 = k /\ k \in 1 .. k + l /\ ~(i <= k)
          BY <1>1, <2>2
      <4>. QED  BY <1>1, <1>4, <4>1
    <3>. QED  BY <1>2, <1>3, <3>1
  <2>3. CASE i > k + 1
    <3>1. i - k \in 1 .. l /\ i - k > 1 /\ i - 1 \in 1 .. k + l /\ i - 1 - k = i - k - 1
          /\ ~(i <= k) /\ ~(i - 1 <= k)
        BY <1>1, <2>3
    <3>2. r[i] = b[i - k] /\ r[i - 1] = b[i - k - 1]
        BY <1>4, <3>1
    <3>. QED  BY <1>2, <3>1, <3>2
  <2>. QED  BY <1>1, <2>1, <2>2, <2>3
<1>7. Consecutive(r)
    BY <1>4, <1>6 DEF Consecutive, follows
<1>8. r[1] = a[1] /\ r[k + l] = b[l] /\ r # <<>>
  <2>1. /\ 1 \in 1 .. k + l /\ 1 <= k /\ k + l \in 1 .. k + l /\ ~(k + l <= k)
        /\ k + l - k = l
      BY <1>1
  <2>2. r[1] = a[1] /\ r[k + l] = b[l]
    <3>1. r[1] = a[1]
        BY <1>4, <2>1
    <3> DEFINE i == k + l
    <3>2. i \in 1 .. k + l /\ ~(i <= k) /\ i - k = l
        BY <1>1
    <3> HIDE DEF i
    <3>3. r[i] = IF i <= k THEN a[i] ELSE b[i - k]
        BY <1>4, <3>2
    <3>4. r[i] = b[l]
        BY <3>2, <3>3
    <3>. QED  BY <3>1, <3>4 DEF i
  <2>. QED  BY <1>4, <2>1, <2>2, EmptySeq
<1>9. Row(r, f, y)
    BY <1>3, <1>4, <1>7, <1>8 DEF Row
<1>. QED  BY <1>5, <1>9 DEF r

\* One block more at the end of a row.
LEMMA AppendToRow ==
  ASSUME NEW w, NEW f, NEW l, Row(w, f, l), NEW x, GoodBlock(x), x.pos = end(l)
  PROVE  Row(Append(w, x), f, x) /\ BlocksOf(Append(w, x)) = BlocksOf(w) \cup {x}
<1>1. w \in Seq(Blocks) /\ x \in Blocks
    BY DEF Row, Consecutive, GoodBlock
<1>2. Append(w, x) = w \o <<x>>
    BY <1>1, AppendIsConcat
<1>3. Row(<<x>>, x, x) /\ BlocksOf(<<x>>) = {x}
    BY OneBlock, BlocksOfOne
<1>4. Row(w \o <<x>>, f, x) /\ BlocksOf(w \o <<x>>) = BlocksOf(w) \cup BlocksOf(<<x>>)
    BY <1>3, RowsInRow
<1>. QED  BY <1>2, <1>3, <1>4

\* The last block of a row, and others in its place.
LEMMA LastOfRow ==
  ASSUME NEW w, NEW f, NEW l, Row(w, f, l)
  PROVE  /\ GoodBlock(Last(w)) /\ end(Last(w)) = end(l) /\ Last(w) = w[Len(w)]
         /\ Front(w) \in Seq(Blocks) /\ Len(w) \in Nat \ {0}
         /\ BlocksOf(w) = BlocksOf(Front(w)) \cup {Last(w)}
<1> DEFINE n == Len(w)
           u == Front(w)
<1>1. /\ w \in Seq(Blocks) /\ w # <<>> /\ n \in Nat \ {0} /\ Last(w) = w[n] /\ Last(w) \in Blocks
      /\ u \in Seq(Blocks) /\ Len(u) = n - 1 /\ \A i \in 1 .. n - 1 : u[i] = w[i]
    BY FrontAndLast DEF Row, Consecutive
<1>2. GoodBlock(w[n]) /\ end(w[n]) = end(l)
    BY <1>1, ConsecutiveTypes DEF Row, GoodBlock
<1> HIDE DEF n, u
<1>3. {w[j] : j \in 1 .. n} = {u[j] : j \in 1 .. n - 1} \cup {w[n]}
  <2>1. \A j \in 1 .. n : j \in 1 .. n - 1 \/ j = n
      BY <1>1
  <2>2. \A j \in 1 .. n - 1 : j \in 1 .. n
      BY <1>1
  <2>3. n \in 1 .. n
      BY <1>1
  <2>. QED  BY <1>1, <2>1, <2>2, <2>3
<1>. QED  BY <1>1, <1>2, <1>3 DEF BlocksOf, n, u

LEMMA RowWithNewEnd ==
  ASSUME NEW w, NEW f, NEW l, Row(w, f, l), NEW u, NEW x, Row(u, Last(w), x)
  PROVE  /\ Row(Front(w) \o u, f, x)
         /\ BlocksOf(Front(w) \o u) = BlocksOf(Front(w)) \cup BlocksOf(u)
<1> DEFINE n == Len(w)
           z == Front(w)
<1>1. /\ w \in Seq(Blocks) /\ w # <<>> /\ n \in Nat \ {0} /\ Last(w) = w[n]
      /\ z \in Seq(Blocks) /\ Len(z) = n - 1 /\ \A i \in 1 .. n - 1 : z[i] = w[i]
      /\ DOMAIN z = 1 .. n - 1
    BY FrontAndLast, LenProperties DEF Row, Consecutive
<1>2. u \in Seq(Blocks)
    BY DEF Row, Consecutive
<1>3. w[1].pos = f.pos
    BY DEF Row
<1>4. \A i \in 1 .. n : w[i].size > 0 /\ end(w[i]) <= LLONG_MAX /\ (i > 1 => w[i].pos = end(w[i - 1]))
    BY ConsecutiveTypes DEF Row
<1> HIDE DEF n, z
<1>5. CASE n = 1
  <2>1. z = <<>>
      BY <1>1, <1>5, EmptySeq
  <2>2. z \o u = u
      BY <1>2, <2>1, ConcatEmptySeq
  <2>3. Row(u, f, x)
      BY <1>1, <1>3, <1>5 DEF Row
  <2>4. BlocksOf(z \o u) = BlocksOf(z) \cup BlocksOf(u)
      BY <1>1, <1>2, ConcatBlocks
  <2>. QED  BY <2>2, <2>3, <2>4 DEF z
<1>6. CASE n # 1
  <2>1. n - 1 \in 1 .. n - 1 /\ n \in 1 .. n /\ n > 1 /\ 1 \in 1 .. n - 1
        /\ \A i \in 1 .. n - 1 : i \in 1 .. n /\ (i > 1 => i - 1 \in 1 .. n - 1)
      BY <1>1, <1>6
  <2>2. Consecutive(z)
      BY <1>1, <1>4, <2>1 DEF Consecutive, follows
  <2>3. z # <<>> /\ z[1].pos = f.pos /\ z[Len(z)] = w[n - 1]
      BY <1>1, <1>3, <2>1, EmptySeq
  <2>4. Row(z, f, w[n - 1])
      BY <2>2, <2>3 DEF Row
  <2>5. Last(w).pos = end(w[n - 1])
      BY <1>1, <1>4, <2>1
  <2>. QED  BY <2>4, <2>5, RowsInRow DEF z
<1>. QED  BY <1>5, <1>6

-----------------------------------------------------------------------------
(***************************************************************************)
(* What blocks may be turned into: others that have the same status at     *)
(* every position, or, in a load, others that lose nothing finished and    *)
(* are nowhere more processed.                                             *)
(***************************************************************************)
StatusKept(X, Y) ==
  \A x \in X : \A p \in Bytes(x) : \E y \in Y : p \in Bytes(y) /\ y.st = x.st
Same(X, Y) == StatusKept(X, Y) /\ StatusKept(Y, X)

Rank(x) == processed_state[x.st]
NoMoreProcessed(X, Y) ==
  \A x \in X : \A p \in Bytes(x) :
    Rank(x) = 0 \/ \E y \in Y : p \in Bytes(y) /\ Rank(x) <= Rank(y)
FinishedKept(X, Y) ==
  \A y \in Y : \A p \in Bytes(y) :
    y.st = "finished" => \E x \in X : p \in Bytes(x) /\ x.st = "finished"
Gentle(X, Y) == NoMoreProcessed(X, Y) /\ FinishedKept(X, Y)

LEMMA Ranks ==
  /\ \A s \in Status : processed_state[s] \in 0 .. 4
  /\ processed_state["non_tried"] = 0
  /\ \A s \in Status : processed_state[s] = 4 => s = "finished"
  /\ processed_state["finished"] = 4
BY DEF processed_state, BM!processed_state, Status, BM!Status

LEMMA SameSets == ASSUME NEW X  PROVE  Same(X, X)
BY DEF Same, StatusKept

LEMMA SameUnions ==
  ASSUME NEW X1, NEW X2, NEW Y1, NEW Y2, Same(X1, Y1), Same(X2, Y2)
  PROVE  Same(X1 \cup X2, Y1 \cup Y2)
<1>1. \A A1, A2, B1, B2 :
        StatusKept(A1, B1) /\ StatusKept(A2, B2) => StatusKept(A1 \cup A2, B1 \cup B2)
    BY DEF StatusKept
<1>. QED  BY <1>1 DEF Same

LEMMA SameTransitive ==
  ASSUME NEW X, NEW Y, NEW Z, Same(X, Y), Same(Y, Z)
  PROVE  Same(X, Z)
<1>1. ASSUME NEW A1, NEW A2, NEW A3, StatusKept(A1, A2), StatusKept(A2, A3)
      PROVE  StatusKept(A1, A3)
  <2>1. ASSUME NEW x \in A1, NEW p \in Bytes(x)
        PROVE  \E z \in A3 : p \in Bytes(z) /\ z.st = x.st
    <3>1. PICK y \in A2 : p \in Bytes(y) /\ y.st = x.st
        BY <1>1 DEF StatusKept
    <3>2. PICK z \in A3 : p \in Bytes(z) /\ z.st = y.st
        BY <1>1, <3>1 DEF StatusKept
    <3>. QED  BY <3>1, <3>2
  <2>. QED  BY <2>1 DEF StatusKept
<1>. QED  BY <1>1 DEF Same

LEMMA SameIsGentle ==
  ASSUME NEW X \in SUBSET Blocks, NEW Y, Same(X, Y)
  PROVE  Gentle(X, Y)
<1>1. ASSUME NEW x \in X, NEW p \in Bytes(x)
      PROVE  \E y \in Y : p \in Bytes(y) /\ Rank(x) <= Rank(y)
  <2>1. PICK y \in Y : p \in Bytes(y) /\ y.st = x.st
      BY DEF Same, StatusKept
  <2>2. Rank(x) = Rank(y) /\ Rank(x) \in 0 .. 4
      BY <2>1, Ranks DEF Rank, Blocks
  <2>. QED  BY <2>1, <2>2
<1>2. NoMoreProcessed(X, Y)
    BY Zenon, <1>1 DEF NoMoreProcessed
<1>3. FinishedKept(X, Y)
    BY DEF FinishedKept, Same, StatusKept
<1>. QED  BY <1>2, <1>3 DEF Gentle

LEMMA GentleUnions ==
  ASSUME NEW X1, NEW X2, NEW Y1, NEW Y2, Gentle(X1, Y1), Gentle(X2, Y2)
  PROVE  Gentle(X1 \cup X2, Y1 \cup Y2)
<1>1. NoMoreProcessed(X1 \cup X2, Y1 \cup Y2)
    BY Zenon DEF Gentle, NoMoreProcessed
<1>2. FinishedKept(X1 \cup X2, Y1 \cup Y2)
    BY Zenon DEF Gentle, FinishedKept
<1>. QED  BY <1>1, <1>2 DEF Gentle

LEMMA GentleTransitive ==
  ASSUME NEW X \in SUBSET Blocks, NEW Y \in SUBSET Blocks, NEW Z \in SUBSET Blocks,
         Gentle(X, Y), Gentle(Y, Z)
  PROVE  Gentle(X, Z)
<1>1. \A b \in X \cup Y \cup Z : Rank(b) \in 0 .. 4
    BY Ranks DEF Rank, Blocks
<1>2. ASSUME NEW x \in X, NEW p \in Bytes(x), Rank(x) # 0
      PROVE  \E z \in Z : p \in Bytes(z) /\ Rank(x) <= Rank(z)
  <2>1. PICK y \in Y : p \in Bytes(y) /\ Rank(x) <= Rank(y)
      BY <1>2 DEF Gentle, NoMoreProcessed
  <2>2. Rank(y) # 0
      BY <1>1, <1>2, <2>1
  <2>3. PICK z \in Z : p \in Bytes(z) /\ Rank(y) <= Rank(z)
      BY <2>1, <2>2 DEF Gentle, NoMoreProcessed
  <2>4. Rank(x) <= Rank(z)
    <3>1. Rank(x) \in 0 .. 4 /\ Rank(y) \in 0 .. 4 /\ Rank(z) \in 0 .. 4
        BY <1>1
    <3>. QED  BY <2>1, <2>3, <3>1
  <2>. QED  BY <2>3, <2>4
<1>3. NoMoreProcessed(X, Z)
    BY Zenon, <1>2 DEF NoMoreProcessed
<1>4. FinishedKept(X, Z)
    BY Zenon DEF Gentle, FinishedKept
<1>. QED  BY <1>3, <1>4 DEF Gentle

-----------------------------------------------------------------------------
(***************************************************************************)
(* compact_sblock_vector.                                                  *)
(***************************************************************************)

\* The blocks of a vector, or of consecutive ones from elsewhere on.
LEMMA GoodBlocks ==
  ASSUME NEW v, Consecutive(v)
  PROVE  /\ v \in Seq(Blocks) /\ v \in Seq(Sblocks) /\ Len(v) \in Nat /\ DOMAIN v = 1 .. Len(v)
         /\ \A i \in 1 .. Len(v) : GoodBlock(v[i]) /\ (i > 1 => v[i].pos = end(v[i - 1]))
         /\ v # <<>> => Len(v) # 0 /\ Row(v, v[1], v[Len(v)])
<1>1. v \in Seq(Blocks) /\ Len(v) \in Nat /\ DOMAIN v = 1 .. Len(v)
    BY LenProperties DEF Consecutive
<1>2. \A i \in 1 .. Len(v) : GoodBlock(v[i]) /\ (i > 1 => v[i].pos = end(v[i - 1]))
    BY ConsecutiveTypes DEF GoodBlock
<1>3. \A i \in 1 .. Len(v) : v[i] \in Sblocks
    BY <1>2 DEF GoodBlock, Sblocks, InRange, Blocks
<1>4. v \in Seq(Sblocks)
  <2>1. v = [i \in 1 .. Len(v) |-> v[i]]
      BY <1>1
  <2>. QED  BY <1>1, <1>3, <2>1
<1>5. v # <<>> => Len(v) # 0 /\ Row(v, v[1], v[Len(v)])
    BY <1>1, EmptySeq DEF Row
<1>. QED  BY <1>1, <1>2, <1>4, <1>5

\* A block and the two parts that it can be divided into.
LEMMA TwoParts ==
  ASSUME NEW y, NEW a, NEW b, GoodBlock(y), GoodBlock(a), GoodBlock(b),
         a.pos = y.pos, b.pos = end(a), end(b) = end(y), a.st = y.st, b.st = y.st
  PROVE  Same({y}, {a, b})
<1>1. /\ y.pos \in Nat /\ end(y) \in Nat /\ a.pos \in Nat /\ end(a) \in Nat
      /\ b.pos \in Nat /\ end(b) \in Nat /\ a.pos < end(a) /\ b.pos < end(b)
    BY DEF GoodBlock, Blocks, end
<1>2. \A p : p \in Bytes(y) <=> p \in Bytes(a) \/ p \in Bytes(b)
    BY <1>1 DEF Bytes
<1>. QED  BY <1>2 DEF Same, StatusKept

\* One block more: a block of another status is appended, one of the same status
\* makes the last block longer.
LEMMA JoinSameStep ==
  ASSUME NEW w, NEW f, NEW l, Row(w, f, l), NEW x, GoodBlock(x), x.pos = end(l)
  PROVE  /\ Row(JoinSame(w, x), f, x)
         /\ Same(BlocksOf(JoinSame(w, x)), BlocksOf(w) \cup {x})
<1>1. w # <<>>
    BY DEF Row
<1>2. CASE Last(w).st # x.st
  <2>1. JoinSame(w, x) = Append(w, x)
      BY <1>2 DEF JoinSame
  <2>2. Row(Append(w, x), f, x) /\ BlocksOf(Append(w, x)) = BlocksOf(w) \cup {x}
      BY AppendToRow
  <2>3. Same(BlocksOf(w) \cup {x}, BlocksOf(w) \cup {x})
      BY SameSets
  <2>. QED  BY <2>1, <2>2, <2>3
<1>3. CASE Last(w).st = x.st
  <2> DEFINE sb == Last(w)
             n  == end(x) - sb.pos
             y  == set_size(sb, n)
  <2>1. JoinSame(w, x) = Front(w) \o <<y>>
      BY <1>1, <1>3 DEF JoinSame
  <2>2. GoodBlock(sb) /\ end(sb) = x.pos /\ BlocksOf(w) = BlocksOf(Front(w)) \cup {sb}
      BY LastOfRow
  <2> HIDE DEF sb
  <2>3. /\ LLONG_MAX \in Nat /\ sb \in Sblocks /\ sb.pos \in Nat /\ sb.size \in Nat
        /\ sb.size > 0 /\ sb.pos + sb.size = x.pos /\ x.pos \in Nat /\ x.size \in Nat
        /\ x.size > 0 /\ x.pos + x.size <= LLONG_MAX /\ end(x) = x.pos + x.size
      BY <2>2, LimitAssumption DEF GoodBlock, Blocks, Sblocks, InRange, end
  <2>4. n \in Nat /\ n > 0 /\ n <= LLONG_MAX - sb.pos
      BY <2>3
  <2>5. y \in Sblocks /\ y.pos = sb.pos /\ y.st = sb.st /\ y.size = n
    <3> HIDE DEF n
    <3>1. sb \in Sblocks /\ n \in Int /\ n >= 0 /\ n <= LLONG_MAX - sb.pos
        BY <2>3, <2>4
    <3>. QED  BY Zenon, <3>1, SizeSet
  <2> HIDE DEF y
  <2>6. GoodBlock(y) /\ end(y) = end(x)
      BY <2>3, <2>4, <2>5 DEF GoodBlock, Sblocks, InRange, Blocks, end
  <2>7. Row(<<y>>, sb, x) /\ BlocksOf(<<y>>) = {y}
      BY <2>5, <2>6, OneBlock, BlocksOfOne DEF Row
  <2>8. Row(Front(w) \o <<y>>, f, x)
        /\ BlocksOf(Front(w) \o <<y>>) = BlocksOf(Front(w)) \cup {y}
      BY <2>7, RowWithNewEnd DEF sb
  <2>9. Same({y}, {sb, x})
      BY <1>3, <2>2, <2>5, <2>6, TwoParts DEF sb
  <2>10. Same(BlocksOf(Front(w)) \cup {y}, BlocksOf(Front(w)) \cup {sb, x})
      BY <2>9, SameSets, SameUnions
  <2>11. BlocksOf(w) \cup {x} = BlocksOf(Front(w)) \cup {sb, x}
      BY <2>2
  <2>. QED  BY <2>1, <2>8, <2>10, <2>11
<1>. QED  BY <1>2, <1>3

\* Compacting joins blocks and changes nothing else.
LEMMA CompactIsSame ==
  ASSUME NEW v, Consecutive(v), v # <<>>
  PROVE  LET w == compact_sblock_vector(v)
         IN  Row(w, v[1], v[Len(v)]) /\ Same(BlocksOf(w), BlocksOf(v))
<1> DEFINE n == Len(v)
           upTo(k) == {v[j] : j \in 1 .. k}
<1>1. /\ v \in Seq(Sblocks) /\ n \in Nat /\ n # 0
      /\ \A i \in 1 .. n : GoodBlock(v[i]) /\ (i > 1 => v[i].pos = end(v[i - 1]))
    BY GoodBlocks
<1>2. PICK F : /\ F[0] = <<>>
               /\ \A k \in 1 .. n : F[k] = JoinSame(F[k - 1], v[k])
               /\ compact_sblock_vector(v) = F[n]
    BY <1>1, CompactSteps
<1> HIDE DEF n
<1> DEFINE Good(k) == Row(F[k], v[1], v[k]) /\ Same(BlocksOf(F[k]), upTo(k))
           S == {k \in 0 .. n : k # 0 => Good(k)}
<1>3. Good(1)
  <2>1. 1 \in 1 .. n /\ 1 - 1 = 0 /\ 1 .. 1 = {1}
      BY <1>1
  <2>2. F[1] = JoinSame(<<>>, v[1])
      BY <1>2, <2>1
  <2>3. JoinSame(<<>>, v[1]) = <<v[1]>>
      BY DEF JoinSame
  <2>4. Row(<<v[1]>>, v[1], v[1]) /\ BlocksOf(<<v[1]>>) = {v[1]}
      BY <1>1, <2>1, OneBlock, BlocksOfOne
  <2>5. upTo(1) = {v[1]}
      BY <2>1
  <2>. QED  BY <2>2, <2>3, <2>4, <2>5, SameSets
<1>4. ASSUME NEW k \in 1 .. n, k # 1, Good(k - 1)  PROVE  Good(k)
  <2>1. /\ k > 1 /\ k - 1 \in 1 .. n /\ GoodBlock(v[k]) /\ v[k].pos = end(v[k - 1])
        /\ F[k] = JoinSame(F[k - 1], v[k])
      BY <1>1, <1>2, <1>4
  <2>2. upTo(k) = upTo(k - 1) \cup {v[k]}
    <3>1. \A j \in 1 .. k : j \in 1 .. k - 1 \/ j = k
        BY <1>1
    <3>2. \A j \in 1 .. k - 1 : j \in 1 .. k
        BY <1>1
    <3>3. k \in 1 .. k
        BY <1>1
    <3>. QED  BY <3>1, <3>2, <3>3
  <2>3. Row(F[k], v[1], v[k]) /\ Same(BlocksOf(F[k]), BlocksOf(F[k - 1]) \cup {v[k]})
      BY <1>4, <2>1, JoinSameStep
  <2> HIDE DEF upTo
  <2>4. Same(BlocksOf(F[k - 1]) \cup {v[k]}, upTo(k - 1) \cup {v[k]})
      BY <1>4, SameSets, SameUnions
  <2>5. Same(BlocksOf(F[k]), upTo(k))
      BY <2>2, <2>3, <2>4, SameTransitive
  <2>. QED  BY <2>3, <2>5
<1>5. 0 \in S /\ \A k \in 1 .. n : k - 1 \in S => k \in S
  <2> HIDE DEF Good
  <2>1. 0 \in 0 .. n /\ \A k \in 1 .. n : k \in 0 .. n /\ (k # 1 => k - 1 # 0)
      BY <1>1
  <2>. QED  BY <1>3, <1>4, <2>1
<1>6. n \in S
  <2>1. n \in 0 .. n
      BY <1>1
  <2> HIDE DEF S
  <2>. QED  BY <1>1, <1>5, <2>1, StepByStep
<1>7. Good(n)
  <2> HIDE DEF Good
  <2>. QED  BY <1>1, <1>6
<1>. QED  BY <1>2, <1>7 DEF n, BlocksOf

-----------------------------------------------------------------------------
(***************************************************************************)
(* read_mapfile.                                                           *)
(***************************************************************************)

\* A block made of a position and a size, as far as there is room.
LEMMA MadeBlock ==
  ASSUME NEW p \in Nat, NEW n \in Int
  PROVE  LET room == LLONG_MAX - p
         IN  assign(p, n) = [pos |-> p, size |-> IF n < 0 \/ n > room THEN room ELSE n]
<1> DEFINE c == [pos |-> max(p, 0), size |-> IF p < 0 /\ n > 0 THEN n - min(n, -p) ELSE n]
           l == LLONG_MAX - p
<1>1. assign(p, n) = fix_size(c)
    BY DEF assign
<1>2. c = [pos |-> p, size |-> n]
  <2>1. max(p, 0) = p /\ ~(p < 0)
      BY DEF max, BM!Larger
  <2>. QED  BY Zenon, <2>1
<1> HIDE DEF c
<1>3. fix_size(c) = IF c.size < 0 \/ c.size > LLONG_MAX - c.pos
                    THEN [c EXCEPT !.size = LLONG_MAX - c.pos] ELSE c
    BY Zenon DEF fix_size
<1>4. fix_size(c) = IF n < 0 \/ n > l THEN [pos |-> p, size |-> l] ELSE [pos |-> p, size |-> n]
    BY <1>2, <1>3
<1> HIDE DEF l
<1>5. CASE n < 0 \/ n > l
    BY Zenon, <1>1, <1>4, <1>5 DEF l
<1>6. CASE ~(n < 0 \/ n > l)
    BY Zenon, <1>1, <1>4, <1>6 DEF l
<1>. QED  BY <1>5, <1>6

\* The block of a line is the line, if that is a block.
LEMMA LineIsBlock ==
  ASSUME NEW x \in Sblocks
  PROVE  Sblock(assign(x.pos, x.size), x.st) = x
<1> DEFINE p == x.pos
           n == x.size
<1>1. /\ p \in Nat /\ n \in Nat /\ p + n <= LLONG_MAX /\ LLONG_MAX \in Nat
      /\ x = [pos |-> p, size |-> n, st |-> x.st]
    BY LimitAssumption DEF Sblocks, InRange, end
<1> HIDE DEF p, n
<1>2. ~(n < 0 \/ n > LLONG_MAX - p) /\ n \in Int
    BY <1>1
<1>3. assign(p, n) = [pos |-> p, size |-> IF n < 0 \/ n > LLONG_MAX - p THEN LLONG_MAX - p ELSE n]
    BY <1>1, <1>2, MadeBlock
<1>4. assign(p, n) = [pos |-> p, size |-> n]
    BY Zenon, <1>2, <1>3
<1>5. Sblock(assign(p, n), x.st) = [pos |-> p, size |-> n, st |-> x.st]
    BY <1>4 DEF Sblock
<1>. QED  BY Zenon, <1>1, <1>5 DEF p, n

\* The lines that a mapfile may have: the only blocks of size 0 are at 0.
Lines == {x \in Sblocks : x.size > 0 \/ (x.size = 0 /\ x.pos = 0)}

LEMMA GoodIsLine ==
  ASSUME NEW x, GoodBlock(x)  PROVE  x \in Lines
BY DEF GoodBlock, Blocks, Lines, Sblocks, InRange, end

\* What has been read of a mapfile, and one line more when gaps are errors.
ReadSoFar == [ok : BOOLEAN, v : Seq(Sblocks)]

LEMMA LineIsAdded ==
  ASSUME NEW r \in ReadSoFar, NEW x \in Lines
  PROVE  LET e == IF r.v = <<>> THEN 0 ELSE end(Last(r.v))
         IN  AddLine(r, x, "none") =
               [ok |-> r.ok /\ (x.pos = e \/ e <= 0), v |-> r.v \o <<x>>]
<1> DEFINE e   == IF r.v = <<>> THEN 0 ELSE end(Last(r.v))
           sb  == Sblock(assign(x.pos, x.size), x.st)
           gap == IF "none" # "none" /\ sb.pos > e
                  THEN <<Sblock(assign(e, sb.pos - e), "none")>> ELSE <<>>
<1>1. sb = x
    BY LineIsBlock DEF Lines
<1>2. gap = <<>>
    OBVIOUS
<1>3. x.size > 0 \/ (x.size = 0 /\ x.pos = 0)
    BY DEF Lines
<1>4. AddLine(r, x, "none") =
        [ok |-> /\ r.ok
                /\ x.size > 0 \/ (x.size = 0 /\ x.pos = 0)
                /\ gap = <<>> => sb.pos = e \/ e <= 0,
         v  |-> r.v \o gap \o <<sb>>]
    BY Zenon DEF AddLine
<1> HIDE DEF e, sb, gap
<1>5. r.v \o <<>> = r.v
    BY ConcatEmptySeq DEF ReadSoFar
<1>6. (/\ r.ok
       /\ x.size > 0 \/ (x.size = 0 /\ x.pos = 0)
       /\ gap = <<>> => sb.pos = e \/ e <= 0) = (r.ok /\ (x.pos = e \/ e <= 0))
    BY Zenon, <1>1, <1>2, <1>3
<1>. QED  BY Zenon, <1>1, <1>2, <1>4, <1>5, <1>6 DEF e

LEMMA ReadTypes ==
  ASSUME NEW r \in ReadSoFar, NEW x \in Lines
  PROVE  AddLine(r, x, "none") \in ReadSoFar
<1> DEFINE e == IF r.v = <<>> THEN 0 ELSE end(Last(r.v))
           k == r.ok /\ (x.pos = e \/ e <= 0)
           w == r.v \o <<x>>
<1>1. AddLine(r, x, "none") = [ok |-> k, v |-> w]
    BY LineIsAdded
<1>2. k \in BOOLEAN
    OBVIOUS
<1>3. w \in Seq(Sblocks)
  <2>1. r.v \in Seq(Sblocks) /\ <<x>> \in Seq(Sblocks)
    <3>1. x \in Sblocks
        BY DEF Lines
    <3>. QED  BY <3>1 DEF ReadSoFar
  <2>. QED  BY <2>1, ConcatProperties
<1> HIDE DEF k, w
<1>. QED  BY <1>1, <1>2, <1>3 DEF ReadSoFar

\* read_mapfile, line by line.
LEMMA ReadSteps ==
  ASSUME NEW v \in Seq(Lines)
  PROVE  \E F : /\ F[0] = [ok |-> TRUE, v |-> <<>>]
                /\ \A k \in 1 .. Len(v) : F[k] = AddLine(F[k - 1], v[k], "none")
                /\ read_mapfile(v, "none") = F[Len(v)]
<1> DEFINE n    == Len(v)
           none == [ok |-> TRUE, v |-> <<>>]
           Of(h) == [s \in SUBSET DOMAIN v |->
                      IF s = {} THEN none ELSE AddLine(h[s \ {Max(s)}], v[Max(s)], "none")]
           iter == CHOOSE h : h = Of(h)
           F    == [k \in 0 .. n |-> iter[1 .. k]]
<1>1. n \in Nat /\ DOMAIN v = 1 .. n
    BY LenProperties
<1>2. \E h : h = Of(h)
  <2> DEFINE W == ReadSoFar
             g == [x \in W \X (1 .. n) |-> AddLine(x[1], v[x[2]], "none")]
  <2>1. none \in W
    <3>1. <<>> \in Seq(Sblocks)
        BY EmptySeq
    <3>. QED  BY <3>1 DEF ReadSoFar
  <2>2. \A w \in W, k \in 1 .. n :
          g[<<w, k>>] = AddLine(w, v[k], "none") /\ g[<<w, k>>] \in W
    <3>1. ASSUME NEW w \in W, NEW k \in 1 .. n  PROVE  g[<<w, k>>] = AddLine(w, v[k], "none")
        OBVIOUS
    <3>2. ASSUME NEW w \in W, NEW k \in 1 .. n  PROVE  AddLine(w, v[k], "none") \in W
      <4>1. v[k] \in Lines
          BY ElementOfSeq
      <4>. QED  BY <4>1, ReadTypes
    <3>. QED  BY <3>1, <3>2
  <2> HIDE DEF g, W, n, none
  <2>3. PICK h \in [SUBSET (1 .. n) -> W] : Folds(h, n, none, g)
      BY <1>1, <2>1, <2>2, FoldExists
  <2>4. ASSUME NEW s \in SUBSET (1 .. n)
        PROVE  h[s] = IF s = {} THEN none ELSE AddLine(h[s \ {Max(s)}], v[Max(s)], "none")
    <3>1. h[s] = IF s = {} THEN none ELSE g[<<h[s \ {Max(s)}], Max(s)>>]
        BY Zenon, <2>3 DEF Folds
    <3>2. CASE s # {}
      <4>1. Max(s) \in 1 .. n /\ s \ {Max(s)} \in SUBSET (1 .. n)
        <5>1. s \in SUBSET (0 .. n)
            BY <1>1
        <5>2. Max(s) \in s
            BY <1>1, <3>2, <5>1, MaxExists
        <5>. QED  BY <5>2
      <4>2. h[s \ {Max(s)}] \in W
          BY <2>3, <4>1
      <4>. QED  BY Zenon, <2>2, <3>1, <3>2, <4>1, <4>2
    <3>. QED  BY <3>1, <3>2
  <2>5. h = Of(h)
      BY Zenon, <1>1, <2>3, <2>4
  <2>. QED  BY <2>5
<1>3. iter = Of(iter)
  <2> HIDE DEF Of
  <2>. QED  BY Zenon, <1>2
<1> HIDE DEF iter
<1>4. \A s \in SUBSET (1 .. n) :
        iter[s] = IF s = {} THEN none ELSE AddLine(iter[s \ {Max(s)}], v[Max(s)], "none")
    BY Zenon, <1>1, <1>3
<1>5. F[0] = none
  <2>1. 1 .. 0 = {} /\ 0 \in 0 .. n /\ 1 .. 0 \in SUBSET (1 .. n)
      BY <1>1
  <2>2. F[0] = iter[1 .. 0]
      BY <2>1
  <2>. QED  BY Zenon, <1>4, <2>1, <2>2
<1>6. ASSUME NEW k \in 1 .. n  PROVE  F[k] = AddLine(F[k - 1], v[k], "none")
  <2>1. /\ 1 .. k \in SUBSET (1 .. n) /\ 1 .. k # {} /\ Max(1 .. k) = k
        /\ (1 .. k) \ {k} = 1 .. k - 1
      BY <1>1, IndicesUpTo
  <2>2. k \in 0 .. n /\ k - 1 \in 0 .. n
      BY <1>1
  <2>3. F[k] = iter[1 .. k] /\ F[k - 1] = iter[1 .. k - 1]
      BY <2>2
  <2>. QED  BY Zenon, <1>4, <2>1, <2>3
<1>7. read_mapfile(v, "none") = F[n]
  <2>1. read_mapfile(v, "none") = iter[DOMAIN v]
      BY Zenon DEF read_mapfile, FoldLeft, MapThenFoldSet, iter
  <2>2. n \in 0 .. n
      BY <1>1
  <2>. QED  BY Zenon, <1>1, <2>1, <2>2
<1>. QED  BY <1>5, <1>6, <1>7

\* read_mapfile with gaps as errors: what is read are the lines themselves, and
\* they are consecutive.
LEMMA ReadIs ==
  ASSUME NEW v \in Seq(Blocks), \A i \in 1 .. Len(v) : GoodBlock(v[i]),
         read_mapfile(v, "none").ok
  PROVE  read_mapfile(v, "none").v = v /\ Consecutive(v)
<1> DEFINE n == Len(v)
           upTo(k) == SubSeq(v, 1, k)
<1>1. n \in Nat /\ DOMAIN v = 1 .. n /\ \A i \in 1 .. n : GoodBlock(v[i]) /\ v[i] \in Blocks
    BY LenProperties DEF GoodBlock
<1>2. PICK F : /\ F[0] = [ok |-> TRUE, v |-> <<>>]
               /\ \A k \in 1 .. n : F[k] = AddLine(F[k - 1], v[k], "none")
               /\ read_mapfile(v, "none") = F[n]
  <2>1. v \in Seq(Lines)
    <3>1. \A i \in 1 .. n : v[i] \in Lines
        BY <1>1, GoodIsLine
    <3>. QED  BY <3>1, SeqDef
  <2>2. \E F : /\ F[0] = [ok |-> TRUE, v |-> <<>>]
               /\ \A k \in 1 .. n : F[k] = AddLine(F[k - 1], v[k], "none")
               /\ read_mapfile(v, "none") = F[n]
      BY <2>1, ReadSteps
  <2>. QED  BY <2>2
<1>3. \A k \in 0 .. n : /\ upTo(k) \in Seq(Blocks)
                        /\ Len(upTo(k)) = k
                        /\ \A i \in 1 .. k : upTo(k)[i] = v[i]
  <2> SUFFICES ASSUME NEW k \in 0 .. n
               PROVE  /\ upTo(k) \in Seq(Blocks) /\ Len(upTo(k)) = k
                      /\ \A i \in 1 .. k : upTo(k)[i] = v[i]
      OBVIOUS
  <2>1. 1 \in Int /\ k \in Int /\ \A i \in 1 .. k : v[i] \in Blocks
      BY <1>1
  <2>2. /\ upTo(k) \in Seq(Blocks)
        /\ Len(upTo(k)) = IF 1 <= k THEN k - 1 + 1 ELSE 0
        /\ \A i \in 1 .. k - 1 + 1 : upTo(k)[i] = v[1 + i - 1]
      BY <2>1, SubSeqProperties
  <2> HIDE DEF upTo
  <2>3. \A i \in 1 .. k : i \in 1 .. k - 1 + 1 /\ 1 + i - 1 = i
      BY <1>1
  <2>4. (IF 1 <= k THEN k - 1 + 1 ELSE 0) = k
      BY <1>1
  <2>. QED  BY <2>2, <2>3, <2>4
<1> DEFINE Good(k) == /\ F[k] \in ReadSoFar
                      /\ F[k].ok => /\ F[k].v = upTo(k)
                                    /\ \A i \in 2 .. k : v[i].pos = end(v[i - 1])
           S == {k \in 0 .. n : Good(k)}
<1>4. Good(0)
  <2>1. upTo(0) = <<>>
    <3>1. 0 \in 0 .. n
        BY <1>1
    <3> HIDE DEF upTo
    <3>. QED  BY <1>3, <3>1, EmptySeq
  <2> HIDE DEF upTo
  <2>2. <<>> \in Seq(Sblocks)
      BY EmptySeq
  <2>3. F[0].v = <<>> /\ F[0] \in ReadSoFar
      BY <1>2, <2>2 DEF ReadSoFar
  <2>. QED  BY <2>1, <2>3
<1>5. ASSUME NEW k \in 1 .. n, Good(k - 1)  PROVE  Good(k)
  <2> DEFINE r == F[k - 1]
             x == v[k]
             e == IF r.v = <<>> THEN 0 ELSE end(Last(r.v))
             ok == r.ok /\ (x.pos = e \/ e <= 0)
             w == r.v \o <<x>>
  <2>1. r \in ReadSoFar /\ GoodBlock(x) /\ F[k] = AddLine(r, x, "none") /\ k - 1 \in 0 .. n
      BY <1>1, <1>2, <1>5
  <2>2. F[k] = [ok |-> ok, v |-> w]
    <3> HIDE DEF r, x
    <3>1. AddLine(r, x, "none") = [ok |-> ok, v |-> w]
        BY Zenon, <2>1, GoodIsLine, LineIsAdded
    <3>. QED  BY Zenon, <2>1, <3>1
  <2>3. F[k] \in ReadSoFar
      BY Zenon, <2>1, GoodIsLine, ReadTypes
  <2>4. F[k].ok = ok /\ F[k].v = w
    <3> HIDE DEF ok, w
    <3>. QED  BY <2>2
  <2>5. ASSUME ok  PROVE w = upTo(k) /\ \A i \in 2 .. k : v[i].pos = end(v[i - 1])
    <3>1. r.v = upTo(k - 1) /\ \A i \in 2 .. k - 1 : v[i].pos = end(v[i - 1])
        BY <1>5, <2>5
    <3>2. upTo(k) = upTo(k - 1) \o <<v[k]>>
      <4> DEFINE a == upTo(k)
                 b == upTo(k - 1)
                 c == b \o <<v[k]>>
      <4>1. /\ a \in Seq(Blocks) /\ Len(a) = k /\ \A i \in 1 .. k : a[i] = v[i]
            /\ b \in Seq(Blocks) /\ Len(b) = k - 1 /\ \A i \in 1 .. k - 1 : b[i] = v[i]
        <5>1. k \in 0 .. n
            BY <1>1
        <5> HIDE DEF upTo
        <5>. QED  BY <1>3, <2>1, <5>1
      <4> HIDE DEF upTo, a, b
      <4>2. <<v[k]>> \in Seq(Blocks) /\ Len(<<v[k]>>) = 1 /\ <<v[k]>>[1] = v[k]
          BY <1>1
      <4>3. /\ c \in Seq(Blocks) /\ Len(c) = Len(b) + 1
            /\ \A i \in 1 .. Len(b) + 1 : c[i] = IF i <= Len(b) THEN b[i] ELSE <<v[k]>>[i - Len(b)]
        <5>1. /\ c \in Seq(Blocks) /\ Len(c) = Len(b) + Len(<<v[k]>>)
              /\ \A i \in 1 .. Len(b) + Len(<<v[k]>>) :
                   c[i] = IF i <= Len(b) THEN b[i] ELSE <<v[k]>>[i - Len(b)]
            BY <4>1, <4>2, ConcatProperties
        <5>. QED  BY <4>2, <5>1
      <4> HIDE DEF c
      <4>4. Len(c) = Len(a)
          BY <1>1, <4>1, <4>3
      <4>5. ASSUME NEW i \in 1 .. Len(a)  PROVE  a[i] = c[i]
        <5>0. i \in 1 .. k /\ k \in Nat /\ i \in 1 .. Len(b) + 1
            BY <1>1, <4>1
        <5>1. CASE i <= k - 1
          <6>1. c[i] = b[i]
              BY <4>1, <4>3, <5>0, <5>1
          <6>2. i \in 1 .. k - 1
              BY <5>0, <5>1
          <6>. QED  BY <4>1, <5>0, <6>1, <6>2
        <5>2. CASE i = k
          <6>1. ~(i <= Len(b)) /\ i - Len(b) = 1
              BY <4>1, <5>0, <5>2
          <6>2. c[i] = <<v[k]>>[i - Len(b)]
              BY <4>3, <5>0, <6>1
          <6>3. c[i] = v[k]
              BY Zenon, <4>2, <6>1, <6>2
          <6>. QED  BY <4>1, <5>0, <5>2, <6>3
        <5>. QED  BY <5>0, <5>1, <5>2
      <4>6. a = c
          BY <4>1, <4>3, <4>4, <4>5, SeqEqual
      <4>. QED  BY <4>6 DEF a, b, c
    <3>3. ASSUME k >= 2  PROVE x.pos = end(v[k - 1])
      <4> DEFINE b == upTo(k - 1)
      <4>1. b \in Seq(Blocks) /\ Len(b) = k - 1 /\ \A i \in 1 .. k - 1 : b[i] = v[i]
        <5> HIDE DEF upTo
        <5>. QED  BY <1>3, <2>1
      <4> HIDE DEF b, upTo
      <4>2. k - 1 \in 1 .. k - 1 /\ k - 1 \in 1 .. n
          BY <1>1, <3>3
      <4>3. b # <<>> /\ Last(b) = v[k - 1]
        <5>1. b[Len(b)] = v[k - 1] /\ Len(b) # 0
            BY <4>1, <4>2
        <5>. QED  BY <4>1, <5>1, EmptySeq DEF Last
      <4>4. e = end(v[k - 1])
          BY <3>1, <4>3 DEF b
      <4>5. end(v[k - 1]) \in Nat /\ end(v[k - 1]) > 0
        <5> DEFINE y == v[k - 1]
        <5>1. GoodBlock(y)
            BY <1>1, <4>2
        <5> HIDE DEF y
        <5>2. end(y) \in Nat /\ end(y) > 0
            BY <5>1 DEF GoodBlock, Blocks, end
        <5>. QED  BY <5>2 DEF y
      <4>6. ~(e <= 0)
        <5> HIDE DEF e
        <5>. QED  BY <4>4, <4>5
      <4>. QED  BY Zenon, <2>5, <4>4, <4>6
    <3>4. ASSUME NEW i \in 2 .. k  PROVE v[i].pos = end(v[i - 1])
      <4>1. i \in 2 .. k - 1 \/ (i = k /\ k >= 2)
          BY <1>1
      <4>. QED  BY <3>1, <3>3, <4>1
    <3> HIDE DEF upTo
    <3>. QED  BY <3>1, <3>2, <3>4
  <2> HIDE DEF upTo
  <2>. QED  BY <2>3, <2>4, <2>5
<1>6. n \in S
  <2>1. 0 \in S /\ \A k \in 1 .. n : k - 1 \in S => k \in S
    <3> HIDE DEF Good
    <3>1. 0 \in 0 .. n /\ \A k \in 1 .. n : k \in 0 .. n
        BY <1>1
    <3>. QED  BY <1>4, <1>5, <3>1
  <2>2. n \in 0 .. n
      BY <1>1
  <2> HIDE DEF S, n
  <2>. QED  BY <1>1, <2>1, <2>2, StepByStep
<1>7. F[n].v = upTo(n) /\ \A i \in 2 .. n : v[i].pos = end(v[i - 1])
    BY <1>2, <1>6
<1>8. upTo(n) = v
  <2> HIDE DEF n
  <2>1. \A i \in 1 .. n : upTo(n)[i] = v[i]
      BY <1>1, <1>3
  <2>. QED  BY SubSeqFull DEF n
<1>9. Consecutive(v)
  <2>1. ASSUME NEW i \in DOMAIN v
        PROVE  /\ v[i].size > 0 /\ end(v[i]) <= LLONG_MAX
               /\ i > 1 => follows(v[i], v[i - 1])
    <3>1. i \in 1 .. n /\ (i > 1 => i \in 2 .. n)
        BY <1>1
    <3>. QED  BY <1>1, <1>7, <3>1 DEF GoodBlock, follows
  <2>. QED  BY <2>1 DEF Consecutive
<1>. QED  BY <1>2, <1>7, <1>8, <1>9

-----------------------------------------------------------------------------
(***************************************************************************)
(* extend_sblock_vector.                                                   *)
(***************************************************************************)

\* The blocks of a sequence are blocks.
LEMMA TheirBlocks ==
  ASSUME NEW S, NEW v \in Seq(S)  PROVE  BlocksOf(v) \in SUBSET S
<1>1. \A i \in 1 .. Len(v) : v[i] \in S
    BY ElementOfSeq
<1>. QED  BY <1>1 DEF BlocksOf

\* Blocks that were not there before, and are non-tried, may be added.
LEMMA UntriedIsGentle ==
  ASSUME NEW x, x.st = "non_tried"  PROVE  Gentle({x}, {})
BY Ranks DEF Gentle, NoMoreProcessed, FinishedKept, Rank

\* A block that is not finished may be made shorter, or left out.
LEMMA ShorterIsGentle ==
  ASSUME NEW x \in Blocks, NEW y \in Blocks, y.st # "finished", x.st = y.st,
         Bytes(x) \subseteq Bytes(y)
  PROVE  Gentle({x}, {y}) /\ Gentle({}, {y})
<1>1. Rank(x) = Rank(y) /\ Rank(x) \in 0 .. 4
    BY Ranks DEF Rank, Blocks
<1>2. Rank(x) <= Rank(y)
    BY <1>1
<1>. QED  BY <1>2 DEF Gentle, NoMoreProcessed, FinishedKept

\* All but the last block of a row.
LEMMA FrontOfRow ==
  ASSUME NEW w, NEW f, NEW l, Row(w, f, l), Len(w) # 1
  PROVE  Row(Front(w), f, w[Len(w) - 1]) /\ Last(w).pos = end(w[Len(w) - 1])
<1> DEFINE n == Len(w)
           z == Front(w)
<1>0. w \in Seq(Blocks) /\ w # <<>>
    BY DEF Row, Consecutive
<1>1. /\ w \in Seq(Blocks) /\ w # <<>> /\ n \in Nat \ {0} /\ Last(w) = w[n]
      /\ z \in Seq(Blocks) /\ Len(z) = n - 1 /\ \A i \in 1 .. n - 1 : z[i] = w[i]
      /\ DOMAIN z = 1 .. n - 1
    BY <1>0, FrontAndLast, LenProperties
<1>2. w[1].pos = f.pos
    BY DEF Row
<1>3. \A i \in 1 .. n : w[i].size > 0 /\ end(w[i]) <= LLONG_MAX /\ (i > 1 => w[i].pos = end(w[i - 1]))
    BY ConsecutiveTypes DEF Row
<1> HIDE DEF n, z
<1>4. n # 1
    BY DEF n
<1>5. n - 1 \in 1 .. n - 1 /\ n \in 1 .. n /\ n > 1 /\ 1 \in 1 .. n - 1
      /\ \A i \in 1 .. n - 1 : i \in 1 .. n /\ (i > 1 => i - 1 \in 1 .. n - 1)
    BY <1>1, <1>4
<1>6. Consecutive(z)
    BY <1>1, <1>3, <1>5 DEF Consecutive, follows
<1>7. z # <<>> /\ z[1].pos = f.pos /\ z[Len(z)] = w[n - 1]
    BY <1>1, <1>2, <1>5, EmptySeq
<1>8. Row(z, f, w[n - 1])
    BY <1>6, <1>7 DEF Row
<1>. QED  BY <1>1, <1>3, <1>5, <1>8 DEF n, z

\* The last element of two sequences, one after the other.
LEMMA LastOfBoth ==
  ASSUME NEW S, NEW a \in Seq(S), NEW b \in Seq(S), b # <<>>
  PROVE  a \o b # <<>> /\ Last(a \o b) = Last(b)
<1> DEFINE k == Len(a)
           l == Len(b)
           r == a \o b
           i == k + l
<1>1. /\ k \in Nat /\ l \in Nat /\ l # 0 /\ r \in Seq(S) /\ Len(r) = i
      /\ \A j \in 1 .. i : r[j] = IF j <= k THEN a[j] ELSE b[j - k]
    BY EmptySeq, LenProperties, ConcatProperties
<1> HIDE DEF k, l, r
<1>2. i \in 1 .. i /\ ~(i <= k) /\ i - k = l /\ i # 0
    BY <1>1
<1> HIDE DEF i
<1>3. r[i] = b[l]
    BY <1>1, <1>2
<1>. QED  BY <1>1, <1>2, <1>3, EmptySeq DEF Last, r, l

\* A row that begins at 0 is a vector.
LEMMA RowIsVector ==
  ASSUME NEW w, NEW f, NEW l, Row(w, f, l), f.pos = 0  PROVE  IsVector(w)
BY DEF Row, IsVector

\* A non-tried block from p on, if there is room.
LEMMA FreeBlock ==
  ASSUME NEW p \in Nat, p <= LLONG_MAX, NEW n \in Int
  PROVE  LET x    == Sblock(assign(p, n), "non_tried")
             room == LLONG_MAX - p
         IN  /\ x.pos = p /\ x.st = "non_tried" /\ x \in Blocks
             /\ x.size = IF n < 0 \/ n > room THEN room ELSE n
             /\ x.size > 0 => GoodBlock(x)
<1> DEFINE room == LLONG_MAX - p
           m == IF n < 0 \/ n > room THEN room ELSE n
           x == Sblock(assign(p, n), "non_tried")
<1>1. LLONG_MAX \in Nat /\ m \in Nat /\ p + m <= LLONG_MAX
    BY LimitAssumption
<1>2. assign(p, n) = [pos |-> p, size |-> m]
    BY Zenon, MadeBlock
<1> HIDE DEF m
<1>3. x = [pos |-> p, size |-> m, st |-> "non_tried"]
    BY <1>2 DEF Sblock
<1> HIDE DEF x
<1>4. "non_tried" \in Status
    BY DEF Status, BM!Status
<1>5. x \in Blocks /\ x.pos = p /\ x.size = m /\ x.st = "non_tried"
    BY <1>1, <1>3, <1>4 DEF Blocks
<1>6. x.size > 0 => GoodBlock(x)
    BY <1>1, <1>5 DEF GoodBlock, end
<1>. QED  BY Zenon, <1>5, <1>6 DEF x, m

\* What is read is made to begin at 0 and to end where the input does: what is
\* added is not tried, and nothing finished is cut off.
LEMMA ExtendIsGentle ==
  ASSUME NEW v, Consecutive(v), NEW insize \in 0 .. LLONG_MAX,
         extend_sblock_vector(v, insize).ok
  PROVE  LET w == extend_sblock_vector(v, insize).v
         IN  /\ IsVector(w) /\ Gentle(BlocksOf(w), BlocksOf(v))
             /\ insize > 0 => end(w[Len(w)]) = insize
<1> DEFINE free(p, size) == Sblock(assign(p, size), "non_tried")
           tail(e) == free(e, IF insize > 0 THEN insize - e ELSE -1)
           ends(w, back) ==
             IF insize > 0 /\ back.pos >= insize
             THEN IF back.pos = insize /\ back.st # "finished"
                  THEN [ok |-> TRUE, v |-> Front(w)] ELSE [ok |-> FALSE, v |-> w]
             ELSE IF insize > 0 /\ end(back) > insize
             THEN IF back.st = "finished" THEN [ok |-> FALSE, v |-> w]
                  ELSE [ok |-> TRUE,
                        v  |-> Front(w) \o <<set_size(back, insize - back.pos)>>]
             ELSE LET rest == tail(end(back))
                  IN  [ok |-> TRUE, v |-> IF rest.size > 0 THEN Append(w, rest) ELSE w]
           w0 == (IF Head(v).pos > 0 THEN <<free(0, Head(v).pos)>> ELSE <<>>) \o v
           x == extend_sblock_vector(v, insize)
<1>1. LLONG_MAX \in Nat /\ LLONG_MAX > 0 /\ insize \in Nat /\ insize <= LLONG_MAX
    BY LimitAssumption
<1>2. x = IF v = <<>> THEN [ok |-> TRUE, v |-> <<tail(0)>>] ELSE ends(w0, Last(v))
    BY Zenon DEF extend_sblock_vector
<1>3. \A e \in Nat : e <= LLONG_MAX =>
        /\ tail(e).pos = e /\ tail(e).st = "non_tried" /\ tail(e) \in Blocks
        /\ tail(e).size > 0 => GoodBlock(tail(e))
        /\ insize > 0 /\ e <= insize => tail(e).size = insize - e
  <2> SUFFICES ASSUME NEW e \in Nat, e <= LLONG_MAX
               PROVE  /\ tail(e).pos = e /\ tail(e).st = "non_tried" /\ tail(e) \in Blocks
                      /\ tail(e).size > 0 => GoodBlock(tail(e))
                      /\ insize > 0 /\ e <= insize => tail(e).size = insize - e
      OBVIOUS
  <2> DEFINE n == IF insize > 0 THEN insize - e ELSE -1
  <2>1. n \in Int
      BY <1>1
  <2> HIDE DEF n
  <2>2. LET y == Sblock(assign(e, n), "non_tried")
        IN  /\ y.pos = e /\ y.st = "non_tried" /\ y \in Blocks
            /\ y.size > 0 => GoodBlock(y)
      BY <2>1, FreeBlock
  <2>3. tail(e).size = IF n < 0 \/ n > LLONG_MAX - e THEN LLONG_MAX - e ELSE n
    <3>1. Sblock(assign(e, n), "non_tried").size
            = IF n < 0 \/ n > LLONG_MAX - e THEN LLONG_MAX - e ELSE n
        BY <2>1, FreeBlock
    <3>. QED  BY Zenon, <3>1 DEF n
  <2>4. insize > 0 /\ e <= insize => n = insize - e /\ ~(n < 0 \/ n > LLONG_MAX - e)
      BY <1>1 DEF n
  <2>5. insize > 0 /\ e <= insize => tail(e).size = insize - e
      BY Zenon, <2>3, <2>4
  <2>. QED  BY Zenon, <2>2, <2>5 DEF n
<1>4. tail(0).size > 0
  <2> DEFINE n == IF insize > 0 THEN insize - 0 ELSE -1
             room == LLONG_MAX - 0
  <2>1. n \in Int /\ 0 \in Nat /\ 0 <= LLONG_MAX /\ (IF n < 0 \/ n > room THEN room ELSE n) > 0
      BY <1>1
  <2>2. tail(0).size = IF n < 0 \/ n > room THEN room ELSE n
    <3> HIDE DEF n
    <3>1. Sblock(assign(0, n), "non_tried").size = IF n < 0 \/ n > room THEN room ELSE n
        BY <2>1, FreeBlock
    <3>. QED  BY Zenon, <3>1 DEF n
  <2> HIDE DEF n, room, tail
  <2>. QED  BY <2>1, <2>2
<1> HIDE DEF tail
<1>5. CASE v = <<>>
  <2>1. GoodBlock(tail(0)) /\ tail(0).pos = 0 /\ tail(0).st = "non_tried"
      BY <1>1, <1>3, <1>4
  <2>2. x.v = <<tail(0)>>
      BY <1>2, <1>5
  <2>3. IsVector(<<tail(0)>>)
      BY <2>1, OneBlock, RowIsVector
  <2>4. BlocksOf(<<tail(0)>>) = {tail(0)} /\ BlocksOf(v) = {}
    <3>1. Len(v) = 0 /\ 1 .. 0 = {}
        BY <1>5, EmptySeq
    <3>. QED  BY <3>1, BlocksOfOne DEF BlocksOf
  <2>5. Gentle({tail(0)}, {})
      BY <2>1, UntriedIsGentle
  <2>6. insize > 0 => end(tail(0)) = insize
      BY <1>1, <1>3, <2>1 DEF end
  <2>7. <<tail(0)>>[Len(<<tail(0)>>)] = tail(0)
      OBVIOUS
  <2> HIDE DEF x
  <2>8. x.v[Len(x.v)] = tail(0)
      BY Zenon, <2>2, <2>7
  <2>9. IsVector(x.v) /\ Gentle(BlocksOf(x.v), BlocksOf(v))
      BY <2>2, <2>3, <2>4, <2>5
  <2>10. insize > 0 => end(x.v[Len(x.v)]) = insize
      BY Zenon, <2>6, <2>8
  <2>. QED  BY Zenon, <2>9, <2>10 DEF x
<1>6. CASE v # <<>>
  <2> DEFINE n == Len(v)
             back == v[n]
             w == w0
  <2>1. /\ v \in Seq(Blocks) /\ n \in Nat /\ n # 0 /\ Row(v, v[1], back) /\ GoodBlock(v[1])
        /\ GoodBlock(back) /\ Head(v) = v[1] /\ Last(v) = back
    <3>1. v \in Seq(Blocks) /\ n \in Nat /\ n # 0 /\ Row(v, v[1], back)
        BY <1>6, GoodBlocks
    <3>2. GoodBlock(v[1]) /\ GoodBlock(back)
      <4>1. 1 \in 1 .. n /\ n \in 1 .. n
          BY <3>1
      <4>. QED  BY <4>1, GoodBlocks
    <3>3. Head(v) = v[1]
        BY <1>6, <3>1
    <3>4. Last(v) = back
        BY Zenon DEF Last
    <3>. QED  BY <3>1, <3>2, <3>3, <3>4
  <2>2. \E f : /\ Row(w, f, back) /\ f.pos = 0 /\ Last(w) = back
               /\ Gentle(BlocksOf(w), BlocksOf(v))
    <3>1. CASE v[1].pos > 0
      <4> DEFINE p == v[1].pos
                 f == free(0, p)
      <4>0. /\ 0 \in Nat /\ 0 <= LLONG_MAX /\ p \in Int /\ p > 0 /\ p <= LLONG_MAX
            /\ p = (IF p < 0 \/ p > LLONG_MAX - 0 THEN LLONG_MAX - 0 ELSE p)
          BY <1>1, <2>1, <3>1 DEF GoodBlock, Blocks, end
      <4> HIDE DEF p
      <4>1. f.pos = 0 /\ f.st = "non_tried" /\ f.size = p /\ GoodBlock(f)
        <5>1. LET y    == Sblock(assign(0, p), "non_tried")
                  room == LLONG_MAX - 0
              IN  /\ y.pos = 0 /\ y.st = "non_tried" /\ y \in Blocks
                  /\ y.size = IF p < 0 \/ p > room THEN room ELSE p
                  /\ y.size > 0 => GoodBlock(y)
            BY <4>0, FreeBlock
        <5>2. f.pos = 0 /\ f.st = "non_tried" /\ f.size = p /\ (f.size > 0 => GoodBlock(f))
            BY Zenon, <4>0, <5>1
        <5> HIDE DEF f
        <5>. QED  BY <4>0, <5>2
      <4> HIDE DEF f
      <4>2. end(f) = p
          BY <4>0, <4>1 DEF end
      <4>3. w = <<f>> \o v
        <5>1. w = (IF Head(v).pos > 0 THEN <<f>> ELSE <<>>) \o v
            BY Zenon, <2>1 DEF f, p
        <5>. QED  BY Zenon, <2>1, <3>1, <5>1
      <4>4. Row(<<f>>, f, f) /\ BlocksOf(<<f>>) = {f}
          BY <4>1, OneBlock, BlocksOfOne
      <4>5. Row(<<f>> \o v, f, back) /\ BlocksOf(<<f>> \o v) = BlocksOf(<<f>>) \cup BlocksOf(v)
        <5>1. v[1].pos = end(f)
            BY <4>2 DEF p
        <5> DEFINE g == <<f>>
        <5>2. Row(g, f, f) /\ Row(v, v[1], back)
            BY Zenon, <2>1, <4>4
        <5> HIDE DEF g, back
        <5>3. Row(g \o v, f, back) /\ BlocksOf(g \o v) = BlocksOf(g) \cup BlocksOf(v)
            BY <5>1, <5>2, RowsInRow
        <5>. QED  BY Zenon, <5>3 DEF g
      <4>6. Gentle({f} \cup BlocksOf(v), {} \cup BlocksOf(v))
        <5>1. Gentle({f}, {})
            BY <4>1, UntriedIsGentle
        <5>2. Gentle(BlocksOf(v), BlocksOf(v))
          <6>1. BlocksOf(v) \in SUBSET Blocks
              BY <2>1, TheirBlocks
          <6>. QED  BY <6>1, SameSets, SameIsGentle
        <5>. QED  BY <5>1, <5>2, GentleUnions
      <4>7. {} \cup BlocksOf(v) = BlocksOf(v)
          OBVIOUS
      <4>8. Last(<<f>> \o v) = back
        <5>1. <<f>> \in Seq(Blocks)
            BY <4>1 DEF GoodBlock
        <5>. QED  BY <1>6, <2>1, <5>1, LastOfBoth
      <4>. QED  BY Zenon, <4>1, <4>3, <4>4, <4>5, <4>6, <4>7, <4>8
    <3>2. CASE ~(v[1].pos > 0)
      <4>1. v[1].pos = 0
          BY <2>1, <3>2 DEF GoodBlock, Blocks
      <4>2. w = v
        <5>1. <<>> \o v = v
            BY <2>1, ConcatEmptySeq
        <5>. QED  BY Zenon, <2>1, <3>2, <5>1
      <4>3. Gentle(BlocksOf(v), BlocksOf(v))
        <5>1. BlocksOf(v) \in SUBSET Blocks
            BY <2>1, TheirBlocks
        <5>. QED  BY <5>1, SameSets, SameIsGentle
      <4>. QED  BY Zenon, <2>1, <4>1, <4>2, <4>3
    <3>. QED  BY <3>1, <3>2
  <2>3. x = ends(w, back)
      BY Zenon, <1>2, <1>6, <2>1
  <2>4. PICK f : Row(w, f, back) /\ f.pos = 0 /\ Last(w) = back /\ Gentle(BlocksOf(w), BlocksOf(v))
      BY Zenon, <2>2
  <2> HIDE DEF w, w0, back, n
  <2> DEFINE u == Front(w)
             m == end(back)
  <2>5. /\ w[Len(w)] = back /\ u \in Seq(Blocks) /\ Len(w) \in Nat \ {0}
        /\ BlocksOf(w) = BlocksOf(u) \cup {back}
      BY Zenon, <2>4, LastOfRow
  <2>6. /\ back \in Blocks /\ back.pos \in Nat /\ back.size \in Nat /\ back.size > 0
        /\ m = back.pos + back.size /\ m \in Nat /\ m <= LLONG_MAX
      BY <2>1 DEF GoodBlock, Blocks, end
  <2>7. SUFFICES ASSUME NEW y, x.v = y
                 PROVE  /\ IsVector(y) /\ Gentle(BlocksOf(y), BlocksOf(w))
                        /\ insize > 0 => end(y[Len(y)]) = insize
    <3>1. IsVector(x.v) /\ Gentle(BlocksOf(x.v), BlocksOf(w))
          /\ (insize > 0 => end(x.v[Len(x.v)]) = insize)
        BY <2>7
    <3>2. BlocksOf(x.v) \in SUBSET Blocks /\ BlocksOf(w) \in SUBSET Blocks
          /\ BlocksOf(v) \in SUBSET Blocks
      <4>1. x.v \in Seq(Blocks) /\ w \in Seq(Blocks)
          BY <2>4, <3>1 DEF IsVector, Row, Consecutive
      <4>. QED  BY <2>1, <4>1, TheirBlocks
    <3>3. Gentle(BlocksOf(x.v), BlocksOf(v))
        BY <2>4, <3>1, <3>2, GentleTransitive
    <3>. QED  BY Zenon, <3>1, <3>3
  <2>8. x.ok
      OBVIOUS
  <2>9. Gentle(BlocksOf(u), BlocksOf(u)) /\ Gentle(BlocksOf(w), BlocksOf(w))
    <3>1. BlocksOf(u) \in SUBSET Blocks /\ BlocksOf(w) \in SUBSET Blocks
      <4>1. w \in Seq(Blocks)
          BY <2>4 DEF Row, Consecutive
      <4>. QED  BY <2>5, <4>1, TheirBlocks
    <3>. QED  BY <3>1, SameSets, SameIsGentle
  <2> HIDE DEF x, u, m
  <2>10. CASE insize > 0 /\ back.pos >= insize
    <3>1. x = IF back.pos = insize /\ back.st # "finished"
              THEN [ok |-> TRUE, v |-> u] ELSE [ok |-> FALSE, v |-> w]
        BY Zenon, <2>3, <2>10 DEF u
    <3>2. back.pos = insize /\ back.st # "finished" /\ x.v = u
        BY <2>8, <3>1
    <3>3. Len(w) # 1
        BY <1>1, <2>4, <2>5, <2>10 DEF Row
    <3>4. Row(u, f, w[Len(w) - 1])
        BY <2>4, <3>3, FrontOfRow DEF u
    <3>5. Gentle({}, {back})
        BY <2>6, <3>2, ShorterIsGentle
    <3>6. Gentle(BlocksOf(u) \cup {}, BlocksOf(u) \cup {back})
        BY <2>9, <3>5, GentleUnions
    <3>7. BlocksOf(u) \cup {} = BlocksOf(u)
        OBVIOUS
    <3>8. end(u[Len(u)]) = insize
      <4> DEFINE k == Len(w)
      <4>4. k \in Nat \ {0} /\ k # 1 /\ w[k] = back
          BY Zenon, <2>5, <3>3
      <4> HIDE DEF k
      <4>3. Chain(w)
          BY Zenon, <2>4 DEF Row, Chain
      <4>1. k - 1 \in 1 .. k /\ k \in 1 .. k /\ k > 1 /\ w[k] = back
          BY <4>4
      <4>2. back.pos = end(w[k - 1])
          BY <4>1, <4>3, ChainBlocks DEF k
      <4>. QED  BY Zenon, <3>2, <3>4, <4>2 DEF Row, k
    <3>. QED  BY Zenon, <2>4, <2>5, <2>7, <3>2, <3>4, <3>6, <3>7, <3>8, RowIsVector
  <2>11. CASE insize > 0 /\ back.pos < insize /\ m > insize
    <3> DEFINE k == insize - back.pos
               z == set_size(back, k)
    <3>1. x = IF back.st = "finished" THEN [ok |-> FALSE, v |-> w]
              ELSE [ok |-> TRUE, v |-> u \o <<z>>]
      <4>1. ~(insize > 0 /\ back.pos >= insize) /\ insize > 0 /\ end(back) > insize
          BY <1>1, <2>6, <2>11 DEF m
      <4>. QED  BY Zenon, <2>3, <4>1 DEF u
    <3>2. back.st # "finished" /\ x.v = u \o <<z>>
        BY <2>8, <3>1
    <3>3. k \in Nat /\ k > 0 /\ k <= LLONG_MAX - back.pos /\ k < back.size /\ back \in Sblocks
        BY <1>1, <2>6, <2>11 DEF Sblocks, InRange, Blocks, m
    <3>4. z \in Sblocks /\ z.pos = back.pos /\ z.st = back.st /\ z.size = k
      <4> HIDE DEF k
      <4>1. k \in Int /\ k >= 0
          BY <3>3
      <4>. QED  BY Zenon, <3>3, <4>1, SizeSet
    <3> HIDE DEF z, k
    <3>5. GoodBlock(z) /\ z \in Blocks /\ Bytes(z) \subseteq Bytes(back)
        BY <1>1, <2>6, <3>3, <3>4 DEF GoodBlock, Sblocks, InRange, Blocks, Bytes, end
    <3>6. Row(<<z>>, back, z) /\ BlocksOf(<<z>>) = {z}
        BY <3>4, <3>5, OneBlock, BlocksOfOne DEF Row
    <3>7. Row(u \o <<z>>, f, z) /\ BlocksOf(u \o <<z>>) = BlocksOf(u) \cup {z}
      <4>1. Row(<<z>>, Last(w), z)
          BY Zenon, <2>4, <3>6
      <4>2. /\ Row(Front(w) \o <<z>>, f, z)
            /\ BlocksOf(Front(w) \o <<z>>) = BlocksOf(Front(w)) \cup BlocksOf(<<z>>)
          BY <2>4, <4>1, RowWithNewEnd
      <4>. QED  BY Zenon, <3>6, <4>2 DEF u
    <3>8. Gentle({z}, {back})
        BY <2>6, <3>2, <3>4, <3>5, ShorterIsGentle
    <3>9. Gentle(BlocksOf(u) \cup {z}, BlocksOf(u) \cup {back})
        BY <2>9, <3>8, GentleUnions
    <3>10. end(y[Len(y)]) = insize
      <4>1. end(z) = insize
          BY <1>1, <2>6, <3>4 DEF end, k
      <4>. QED  BY Zenon, <2>7, <3>2, <3>7, <4>1 DEF Row
    <3>. QED  BY Zenon, <2>4, <2>5, <2>7, <3>2, <3>7, <3>9, <3>10, RowIsVector
  <2>12. CASE ~(insize > 0 /\ back.pos >= insize) /\ ~(insize > 0 /\ m > insize)
    <3> DEFINE rest == tail(m)
    <3>1. x = [ok |-> TRUE, v |-> IF rest.size > 0 THEN Append(w, rest) ELSE w]
        BY Zenon, <2>3, <2>12 DEF m
    <3>2. x.v = IF rest.size > 0 THEN Append(w, rest) ELSE w
        BY <3>1
    <3>3. rest.pos = m /\ rest.st = "non_tried" /\ (rest.size > 0 => GoodBlock(rest))
          /\ (insize > 0 => rest.size = insize - m)
        BY <1>1, <1>3, <2>6, <2>12
    <3>6. insize > 0 => (rest.size > 0 => end(rest) = insize) /\ (~(rest.size > 0) => m = insize)
        BY <1>1, <2>6, <2>12, <3>3 DEF end
    <3> HIDE DEF rest
    <3>4. CASE rest.size > 0
      <4>1. Row(Append(w, rest), f, rest) /\ BlocksOf(Append(w, rest)) = BlocksOf(w) \cup {rest}
          BY <2>4, <3>3, <3>4, AppendToRow DEF m
      <4>2. Gentle({rest}, {})
          BY <3>3, UntriedIsGentle
      <4>3. Gentle(BlocksOf(w) \cup {rest}, BlocksOf(w) \cup {})
          BY <2>9, <4>2, GentleUnions
      <4>4. BlocksOf(w) \cup {} = BlocksOf(w)
          OBVIOUS
      <4>5. insize > 0 => end(y[Len(y)]) = insize
          BY Zenon, <2>7, <3>2, <3>4, <3>6, <4>1 DEF Row
      <4>. QED  BY Zenon, <2>4, <2>7, <3>2, <3>4, <4>1, <4>3, <4>4, <4>5, RowIsVector
    <3>5. CASE ~(rest.size > 0)
      <4>1. y = w /\ end(w[Len(w)]) = m
          BY Zenon, <2>5, <2>7, <3>2, <3>5 DEF m
      <4>2. insize > 0 => end(y[Len(y)]) = insize
          BY Zenon, <3>5, <3>6, <4>1
      <4>. QED  BY Zenon, <2>4, <2>7, <2>9, <3>2, <3>5, <4>2, RowIsVector
    <3>. QED  BY <3>4, <3>5
  <2>. QED  BY <1>1, <2>6, <2>10, <2>11, <2>12
<1>. QED  BY <1>5, <1>6

-----------------------------------------------------------------------------
(***************************************************************************)
(* join_subsectors.                                                        *)
(***************************************************************************)

\* The fields of a block, whatever their values.
Loose == [pos : Int, size : Int, st : Status]

LEMMA JoinSubsectorTypes ==
  ASSUME NEW w \in Seq(Loose), NEW x \in Loose, NEW a \in Nat \ {0}
  PROVE  JoinSubsector(w, x, a) \in Seq(Loose)
<1> DEFINE y    == Last(w)
           u    == Front(w)
           rest == end(y) % a
           less == processed_state[y.st] <= processed_state[x.st]
           p    == end(y) + a - rest
           q    == end(y) - rest
           z    == enlarge([y EXCEPT !.st = IF less THEN @ ELSE x.st], x.size)
<1>1. CASE w = <<>> \/ rest = 0 \/ "finished" \in {y.st, x.st}
  <2>1. JoinSubsector(w, x, a) = Append(w, x)
      BY Zenon, <1>1 DEF JoinSubsector
  <2>. QED  BY <2>1, AppendProperties
<1>2. CASE ~(w = <<>> \/ rest = 0 \/ "finished" \in {y.st, x.st})
  <2>1. y \in Loose /\ u \in Seq(Loose)
      BY <1>2, FrontAndLast
  <2>2. end(y) \in Int /\ end(x) \in Int /\ y.pos \in Int /\ x.size \in Int
      BY <2>1 DEF Loose, end
  <2>3. rest \in Nat
      BY <2>2
  <2> HIDE DEF rest
  <2>4. p \in Int /\ q \in Int
      BY <2>2, <2>3
  <2> HIDE DEF p, q
  <2>5. shift_boundary(y, x, p) \in Seq(Loose) /\ shift_boundary(y, x, q) \in Seq(Loose)
    <3>1. ASSUME NEW r \in Int  PROVE shift_boundary(y, x, r) \in Seq(Loose)
      <4> DEFINE m == r - y.pos
                 n == end(x) - r
                 b == [y EXCEPT !.size = m]
                 c == [x EXCEPT !.pos = r, !.size = n]
      <4>1. m \in Int /\ n \in Int
          BY <2>2
      <4>2. shift_boundary(y, x, r) = <<b, c>>
          BY Zenon DEF shift_boundary
      <4> HIDE DEF m, n, y
      <4>3. b \in Loose /\ c \in Loose
          BY <2>1, <4>1 DEF Loose
      <4> HIDE DEF b, c
      <4>. QED  BY <4>2, <4>3
    <3>. QED  BY <2>4, <3>1
  <2>6. <<z>> \in Seq(Loose)
    <3> DEFINE b == [y EXCEPT !.st = IF less THEN @ ELSE x.st]
               n == b.size + IF x.size < 0 THEN LLONG_MAX - end(b)
                             ELSE min(x.size, LLONG_MAX - end(b))
    <3>1. z = [b EXCEPT !.size = n]
        BY Zenon DEF enlarge
    <3>2. b \in Loose
      <4> HIDE DEF less, y
      <4>. QED  BY <2>1 DEF Loose
    <3> HIDE DEF b
    <3>3. n \in Int
      <4>1. b.size \in Int /\ b.pos \in Int /\ end(b) \in Int /\ LLONG_MAX \in Int
          BY <3>2, LimitAssumption DEF Loose, end
      <4>. QED  BY <2>2, <4>1 DEF min, BM!Smaller
    <3> HIDE DEF n, z
    <3>4. z \in Loose
        BY <3>1, <3>2, <3>3 DEF Loose
    <3>. QED  BY <3>4
  <2>7. JoinSubsector(w, x, a) \in {u \o shift_boundary(y, x, p), u \o shift_boundary(y, x, q), u \o <<z>>}
      BY Zenon, <1>2 DEF JoinSubsector, rest, p, q
  <2> HIDE DEF z, u, y
  <2>8. /\ u \o shift_boundary(y, x, p) \in Seq(Loose)
        /\ u \o shift_boundary(y, x, q) \in Seq(Loose)
        /\ u \o <<z>> \in Seq(Loose)
      BY <2>1, <2>5, <2>6, ConcatProperties
  <2>. QED  BY <2>7, <2>8
<1>. QED  BY <1>1, <1>2

\* join_subsectors, block by block.
LEMMA JoinSteps ==
  ASSUME NEW v \in Seq(Loose), NEW a \in Nat \ {0}
  PROVE  \E F : /\ F[0] = <<>>
                /\ \A k \in 1 .. Len(v) : F[k] = JoinSubsector(F[k - 1], v[k], a)
                /\ join_subsectors(v, a) = F[Len(v)]
<1> DEFINE n    == Len(v)
           Of(h) == [s \in SUBSET DOMAIN v |->
                      IF s = {} THEN <<>> ELSE JoinSubsector(h[s \ {Max(s)}], v[Max(s)], a)]
           iter == CHOOSE h : h = Of(h)
           F    == [k \in 0 .. n |-> iter[1 .. k]]
<1>1. n \in Nat /\ DOMAIN v = 1 .. n /\ \A k \in 1 .. n : v[k] \in Loose
    BY LenProperties, ElementOfSeq
<1>2. \E h : h = Of(h)
  <2> DEFINE W == Seq(Loose)
             g == [x \in W \X (1 .. n) |-> JoinSubsector(x[1], v[x[2]], a)]
  <2>1. <<>> \in W
      BY EmptySeq
  <2>2. \A w \in W, k \in 1 .. n : g[<<w, k>>] = JoinSubsector(w, v[k], a) /\ g[<<w, k>>] \in W
    <3>1. ASSUME NEW w \in W, NEW k \in 1 .. n  PROVE  g[<<w, k>>] = JoinSubsector(w, v[k], a)
        OBVIOUS
    <3>2. ASSUME NEW w \in W, NEW k \in 1 .. n  PROVE  JoinSubsector(w, v[k], a) \in W
        BY <1>1, JoinSubsectorTypes
    <3>. QED  BY <3>1, <3>2
  <2> HIDE DEF g, W, n
  <2>3. PICK h \in [SUBSET (1 .. n) -> W] : Folds(h, n, <<>>, g)
      BY <1>1, <2>1, <2>2, FoldExists
  <2>4. ASSUME NEW s \in SUBSET (1 .. n)
        PROVE  h[s] = IF s = {} THEN <<>> ELSE JoinSubsector(h[s \ {Max(s)}], v[Max(s)], a)
    <3>1. h[s] = IF s = {} THEN <<>> ELSE g[<<h[s \ {Max(s)}], Max(s)>>]
        BY Zenon, <2>3 DEF Folds
    <3>2. CASE s # {}
      <4>1. Max(s) \in 1 .. n /\ s \ {Max(s)} \in SUBSET (1 .. n)
        <5>1. s \in SUBSET (0 .. n)
            BY <1>1
        <5>2. Max(s) \in s
            BY <1>1, <3>2, <5>1, MaxExists
        <5>. QED  BY <5>2
      <4>2. h[s \ {Max(s)}] \in W
          BY <2>3, <4>1
      <4>. QED  BY Zenon, <2>2, <3>1, <3>2, <4>1, <4>2
    <3>. QED  BY <3>1, <3>2
  <2>5. h = Of(h)
      BY Zenon, <1>1, <2>3, <2>4
  <2>. QED  BY <2>5
<1>3. iter = Of(iter)
  <2> HIDE DEF Of
  <2>. QED  BY Zenon, <1>2
<1> HIDE DEF iter
<1>4. \A s \in SUBSET (1 .. n) :
        iter[s] = IF s = {} THEN <<>> ELSE JoinSubsector(iter[s \ {Max(s)}], v[Max(s)], a)
    BY Zenon, <1>1, <1>3
<1>5. F[0] = <<>>
  <2>1. 1 .. 0 = {} /\ 0 \in 0 .. n /\ 1 .. 0 \in SUBSET (1 .. n)
      BY <1>1
  <2>2. F[0] = iter[1 .. 0]
      BY <2>1
  <2>. QED  BY Zenon, <1>4, <2>1, <2>2
<1>6. ASSUME NEW k \in 1 .. n  PROVE  F[k] = JoinSubsector(F[k - 1], v[k], a)
  <2>1. /\ 1 .. k \in SUBSET (1 .. n) /\ 1 .. k # {} /\ Max(1 .. k) = k
        /\ (1 .. k) \ {k} = 1 .. k - 1
      BY <1>1, IndicesUpTo
  <2>2. k \in 0 .. n /\ k - 1 \in 0 .. n
      BY <1>1
  <2>3. F[k] = iter[1 .. k] /\ F[k - 1] = iter[1 .. k - 1]
      BY <2>2
  <2>. QED  BY Zenon, <1>4, <2>1, <2>3
<1>7. join_subsectors(v, a) = F[n]
  <2>1. join_subsectors(v, a) = iter[DOMAIN v]
      BY Zenon DEF join_subsectors, FoldLeft, MapThenFoldSet, iter
  <2>2. n \in 0 .. n
      BY <1>1
  <2>. QED  BY Zenon, <1>1, <2>1, <2>2
<1>. QED  BY <1>5, <1>6, <1>7

\* Blocks of which none is finished, in the place of others of which none is, and
\* nowhere with a more processed status.
LEMMA LessIsGentle ==
  ASSUME NEW X, NEW Y,
         \A x \in X, p \in Nat : p \in Bytes(x) =>
           \E y \in Y : p \in Bytes(y) /\ Rank(x) <= Rank(y),
         \A x \in X : x \in Blocks,
         \A y \in Y : y.st # "finished"
  PROVE  Gentle(X, Y)
<1>1. \A x \in X : \A p \in Bytes(x) : p \in Nat
    BY DEF Blocks, Bytes, end
<1>2. \A x \in X : \A p \in Bytes(x) : \E y \in Y : p \in Bytes(y) /\ Rank(x) <= Rank(y)
    BY Zenon, <1>1
<1>3. NoMoreProcessed(X, Y)
    BY Zenon, <1>2 DEF NoMoreProcessed
<1>4. FinishedKept(X, Y)
    BY Zenon DEF FinishedKept
<1>. QED  BY <1>3, <1>4 DEF Gentle

\* A block up to its end, as the lemma about shift_boundary writes it.
LEMMA FromIsGood ==
  ASSUME NEW p \in Nat, NEW e \in Nat, p < e, e <= LLONG_MAX, NEW s \in Status
  PROVE  LET x == From(p, e, s)
         IN  GoodBlock(x) /\ x.pos = p /\ end(x) = e /\ x.st = s
<1> DEFINE n == e - p
<1>1. n \in Nat /\ n > 0 /\ p + n = e
    OBVIOUS
<1> HIDE DEF n
<1>2. From(p, e, s) = [pos |-> p, size |-> n, st |-> s]
    BY DEF From, n
<1>. QED  BY <1>1, <1>2 DEF GoodBlock, Blocks, end

\* One block more: it is appended, or takes from the block before it or gives to
\* it the positions of the sector that they share.
LEMMA JoinSubsectorStep ==
  ASSUME NEW w, NEW f, NEW l, Row(w, f, l), NEW x, GoodBlock(x), x.pos = end(l),
         NEW a \in Nat \ {0}
  PROVE  /\ Row(JoinSubsector(w, x, a), f, x)
         /\ Gentle(BlocksOf(JoinSubsector(w, x, a)), BlocksOf(w) \cup {x})
<1> DEFINE y    == Last(w)
           u    == Front(w)
           rest == end(y) % a
           less == processed_state[y.st] <= processed_state[x.st]
           p    == end(y) + a - rest
           q    == end(y) - rest
           z    == enlarge([y EXCEPT !.st = IF less THEN @ ELSE x.st], x.size)
           J    == JoinSubsector(w, x, a)
           m    == end(y)
           e    == end(x)
<1>1. w # <<>> /\ w \in Seq(Blocks)
    BY DEF Row, Consecutive
<1>2. /\ GoodBlock(y) /\ m = x.pos /\ u \in Seq(Blocks)
      /\ BlocksOf(w) = BlocksOf(u) \cup {y}
    BY LastOfRow
<1>3. BlocksOf(u) \in SUBSET Blocks /\ BlocksOf(w) \in SUBSET Blocks
    BY <1>1, <1>2, TheirBlocks
<1> HIDE DEF y, u
<1>4. /\ y.pos \in Nat /\ m \in Nat /\ x.pos \in Nat /\ e \in Nat /\ y.pos < m /\ m < e
      /\ e <= LLONG_MAX /\ y.st \in Status /\ x.st \in Status /\ m = y.pos + y.size
      /\ e = m + x.size /\ y.size \in Nat /\ x.size \in Nat /\ x \in Blocks /\ y \in Blocks
      /\ LLONG_MAX \in Nat /\ x.size > 0 /\ y.size > 0
    BY <1>2, LimitAssumption DEF GoodBlock, Blocks, end
<1>5. rest \in Nat /\ rest < a
    BY <1>4
<1>6. Rank(x) \in 0 .. 4 /\ Rank(y) \in 0 .. 4
    BY <1>4, Ranks DEF Rank
<1>7. CASE rest = 0 \/ "finished" \in {y.st, x.st}
  <2>1. J = Append(w, x)
      BY Zenon, <1>7 DEF JoinSubsector, y
  <2>2. Row(Append(w, x), f, x) /\ BlocksOf(Append(w, x)) = BlocksOf(w) \cup {x}
      BY AppendToRow
  <2>3. Gentle(BlocksOf(w) \cup {x}, BlocksOf(w) \cup {x})
    <3>1. BlocksOf(w) \cup {x} \in SUBSET Blocks
        BY <1>3, <1>4
    <3>. QED  BY <3>1, SameSets, SameIsGentle
  <2>. QED  BY Zenon, <2>1, <2>2, <2>3
<1>8. ASSUME NEW r, Row(r, y, x), Gentle(BlocksOf(r), {y, x}), J = u \o r
      PROVE  Row(J, f, x) /\ Gentle(BlocksOf(J), BlocksOf(w) \cup {x})
  <2>1. Row(u \o r, f, x) /\ BlocksOf(u \o r) = BlocksOf(u) \cup BlocksOf(r)
      BY <1>8, RowWithNewEnd DEF y, u
  <2>2. Gentle(BlocksOf(u), BlocksOf(u))
      BY <1>3, SameSets, SameIsGentle
  <2>3. Gentle(BlocksOf(u) \cup BlocksOf(r), BlocksOf(u) \cup {y, x})
      BY <1>8, <2>2, GentleUnions
  <2>4. BlocksOf(u) \cup {y, x} = BlocksOf(w) \cup {x}
      BY <1>2
  <2>. QED  BY Zenon, <1>8, <2>1, <2>3, <2>4
<1>9. less <=> Rank(y) <= Rank(x)
    BY Zenon DEF Rank
<1> HIDE DEF rest, m, e
<1>10. CASE ~(rest = 0 \/ "finished" \in {y.st, x.st})
  <2>0. y.st # "finished" /\ x.st # "finished" /\ \A b \in {y, x} : b.st # "finished"
      BY <1>10
  <2>1. ASSUME NEW r \in Nat, y.pos < r, r < e,
               r > m => Rank(y) <= Rank(x),
               r < m => Rank(x) <= Rank(y)
        PROVE  Row(shift_boundary(y, x, r), y, x) /\ Gentle(BlocksOf(shift_boundary(y, x, r)), {y, x})
    <3> DEFINE b == From(y.pos, r, y.st)
               c == From(r, end(x), x.st)
    <3>1. Row(shift_boundary(y, x, r), y, x) /\ BlocksOf(shift_boundary(y, x, r)) = {b, c}
        BY <1>2, <2>1, ShiftBoundary DEF m, e
    <3>2. GoodBlock(b) /\ b.pos = y.pos /\ end(b) = r /\ b.st = y.st
      <4>1. r <= LLONG_MAX
          BY <1>4, <2>1
      <4>. QED  BY <1>4, <2>1, <4>1, FromIsGood
    <3>3. GoodBlock(c) /\ c.pos = r /\ end(c) = e /\ c.st = x.st
        BY <1>4, <2>1, FromIsGood DEF e
    <3> HIDE DEF b, c
    <3>4. ASSUME NEW k \in Nat, k \in Bytes(b)  PROVE \E t \in {y, x} : k \in Bytes(t) /\ Rank(b) <= Rank(t)
      <4>1. y.pos <= k /\ k < r /\ Rank(b) = Rank(y)
          BY <1>4, <2>1, <3>2, <3>4 DEF Bytes, Rank
      <4>2. CASE k < m
        <5>1. k \in Bytes(y) /\ Rank(b) <= Rank(y)
            BY <1>4, <1>6, <4>1, <4>2 DEF Bytes, m
        <5>. QED  BY <5>1
      <4>3. CASE k >= m
        <5>1. k \in Bytes(x) /\ Rank(b) <= Rank(x)
            BY <1>2, <1>4, <1>6, <2>1, <4>1, <4>3 DEF Bytes, e
        <5>. QED  BY <5>1
      <4>. QED  BY <1>4, <4>2, <4>3
    <3>5. ASSUME NEW k \in Nat, k \in Bytes(c)  PROVE \E t \in {y, x} : k \in Bytes(t) /\ Rank(c) <= Rank(t)
      <4>1. r <= k /\ k < e /\ Rank(c) = Rank(x)
          BY <1>4, <2>1, <3>3, <3>5 DEF Bytes, Rank
      <4>2. CASE k < m
        <5>1. k \in Bytes(y) /\ Rank(c) <= Rank(y)
            BY <1>4, <1>6, <2>1, <4>1, <4>2 DEF Bytes, m
        <5>. QED  BY <5>1
      <4>3. CASE k >= m
        <5>1. k \in Bytes(x) /\ Rank(c) <= Rank(x)
            BY <1>2, <1>4, <1>6, <4>1, <4>3 DEF Bytes, e
        <5>. QED  BY <5>1
      <4>. QED  BY <1>4, <4>2, <4>3
    <3>6. Gentle({b, c}, {y, x})
      <4>1. \A t \in {b, c} : t \in Blocks
          BY <3>2, <3>3 DEF GoodBlock
      <4> DEFINE X == {b, c}
                 Y == {y, x}
      <4>2. \A t \in {b, c}, k \in Nat : k \in Bytes(t) =>
              \E s \in {y, x} : k \in Bytes(s) /\ Rank(t) <= Rank(s)
          BY <3>4, <3>5
      <4>3. /\ \A t \in X : t \in Blocks
            /\ \A t \in X, k \in Nat : k \in Bytes(t) =>
                 \E s \in Y : k \in Bytes(s) /\ Rank(t) <= Rank(s)
            /\ \A t \in Y : t.st # "finished"
          BY Zenon, <2>0, <4>1, <4>2
      <4> HIDE DEF X, Y
      <4>4. Gentle(X, Y)
          BY <4>3, LessIsGentle
      <4>. QED  BY Zenon, <4>4 DEF X, Y
    <3>. QED  BY Zenon, <3>1, <3>6
  <2>2. CASE less /\ x.size > a - rest
    <3>1. p \in Nat /\ y.pos < p /\ p < e /\ p > m /\ Rank(y) <= Rank(x)
        BY <1>4, <1>5, <1>9, <2>2 DEF m
    <3>2. J = u \o shift_boundary(y, x, p)
        BY Zenon, <1>1, <1>10, <2>2 DEF JoinSubsector, y, u, rest
    <3> HIDE DEF p, J
    <3>3. ~(p < m)
        BY <1>4, <3>1
    <3> DEFINE r == shift_boundary(y, x, p)
    <3>4. Row(r, y, x) /\ Gentle(BlocksOf(r), {y, x})
        BY Zenon, <2>1, <3>1, <3>3
    <3> HIDE DEF r
    <3>5. J = u \o r
        BY Zenon, <3>2 DEF r
    <3>6. Row(J, f, x) /\ Gentle(BlocksOf(J), BlocksOf(w) \cup {x})
        BY <1>8, <3>4, <3>5
    <3>. QED  BY Zenon, <3>6 DEF J
  <2>3. CASE ~(less /\ x.size > a - rest) /\ ~less /\ y.size > rest
    <3>1. q \in Nat /\ y.pos < q /\ q < e /\ q < m /\ Rank(x) <= Rank(y)
        BY <1>4, <1>5, <1>6, <1>9, <1>10, <2>3 DEF m
    <3>2. J = u \o shift_boundary(y, x, q)
        BY Zenon, <1>1, <1>10, <2>3 DEF JoinSubsector, y, u, rest
    <3> HIDE DEF q, J
    <3>3. ~(q > m)
        BY <1>4, <3>1
    <3> DEFINE r == shift_boundary(y, x, q)
    <3>4. Row(r, y, x) /\ Gentle(BlocksOf(r), {y, x})
        BY Zenon, <2>1, <3>1, <3>3
    <3> HIDE DEF r
    <3>5. J = u \o r
        BY Zenon, <3>2 DEF r
    <3>6. Row(J, f, x) /\ Gentle(BlocksOf(J), BlocksOf(w) \cup {x})
        BY <1>8, <3>4, <3>5
    <3>. QED  BY Zenon, <3>6 DEF J
  <2>4. CASE ~(less /\ x.size > a - rest) /\ ~(~less /\ y.size > rest)
    <3> DEFINE s == IF less THEN y.st ELSE x.st
               b == [y EXCEPT !.st = IF less THEN @ ELSE x.st]
               n == b.size + IF x.size < 0 THEN LLONG_MAX - end(b)
                             ELSE min(x.size, LLONG_MAX - end(b))
    <3>1. J = u \o <<z>>
        BY Zenon, <1>1, <1>10, <2>4 DEF JoinSubsector, y, u, rest
    <3>2. z = [b EXCEPT !.size = n]
        BY Zenon DEF enlarge
    <3>3. /\ b \in Blocks /\ b.pos = y.pos /\ b.size = y.size /\ b.st = s /\ s \in Status
          /\ s \in {y.st, x.st}
      <4>1. b = [y EXCEPT !.st = s]
          BY Zenon
      <4>2. s \in Status /\ s \in {y.st, x.st}
          BY <1>4
      <4> HIDE DEF s, b
      <4>. QED  BY <1>4, <4>1, <4>2 DEF Blocks
    <3>4. processed_state[s] <= Rank(y) /\ processed_state[s] <= Rank(x)
      <4>1. CASE less
          BY <1>6, <1>9, <4>1 DEF Rank
      <4>2. CASE ~less
          BY <1>6, <1>9, <4>2 DEF Rank
      <4>. QED  BY <4>1, <4>2
    <3> HIDE DEF s, b
    <3>5. n = y.size + x.size
      <4>1. end(b) = m
          BY <1>4, <3>3 DEF end
      <4>. QED  BY <1>4, <3>3, <4>1 DEF min, BM!Smaller
    <3> HIDE DEF n
    <3>6. z \in Blocks /\ z.pos = y.pos /\ z.size = n /\ z.st = s
      <4>1. n \in Nat
          BY <1>4, <3>5
      <4> HIDE DEF z
      <4>. QED  BY <3>2, <3>3, <4>1 DEF Blocks
    <3> HIDE DEF z
    <3>7. GoodBlock(z) /\ end(z) = e /\ z.st # "finished" /\ Rank(z) = processed_state[s]
        BY <1>4, <2>0, <3>3, <3>5, <3>6 DEF GoodBlock, end, Rank
    <3>8. Row(<<z>>, y, x) /\ BlocksOf(<<z>>) = {z}
        BY <3>6, <3>7, OneBlock, BlocksOfOne DEF Row, e
    <3>9. Gentle({z}, {y, x})
      <4>1. ASSUME NEW k \in Nat, k \in Bytes(z)  PROVE \E t \in {y, x} : k \in Bytes(t) /\ Rank(z) <= Rank(t)
        <5>1. y.pos <= k /\ k < e
            BY <1>4, <3>6, <3>7, <4>1 DEF Bytes
        <5>2. CASE k < m
          <6>1. k \in Bytes(y) /\ Rank(z) <= Rank(y)
              BY <1>4, <3>4, <3>7, <5>1, <5>2 DEF Bytes, m
          <6>. QED  BY <6>1
        <5>3. CASE k >= m
          <6>1. k \in Bytes(x) /\ Rank(z) <= Rank(x)
              BY <1>2, <1>4, <3>4, <3>7, <5>1, <5>3 DEF Bytes, e
          <6>. QED  BY <6>1
        <5>. QED  BY <1>4, <5>2, <5>3
      <4>2. \A t \in {z} : t \in Blocks
          BY <3>6
      <4>3. \A t \in {z}, k \in Nat : k \in Bytes(t) =>
              \E c \in {y, x} : k \in Bytes(c) /\ Rank(t) <= Rank(c)
          BY <4>1
      <4> DEFINE X == {z}
                 Y == {y, x}
      <4>4. /\ \A t \in X : t \in Blocks
            /\ \A t \in X, k \in Nat : k \in Bytes(t) =>
                 \E c \in Y : k \in Bytes(c) /\ Rank(t) <= Rank(c)
            /\ \A t \in Y : t.st # "finished"
          BY Zenon, <2>0, <4>2, <4>3
      <4> HIDE DEF X, Y
      <4>5. Gentle(X, Y)
          BY <4>4, LessIsGentle
      <4>. QED  BY Zenon, <4>5 DEF X, Y
    <3> HIDE DEF J
    <3> DEFINE r == <<z>>
    <3>10. Row(r, y, x) /\ Gentle(BlocksOf(r), {y, x}) /\ J = u \o r
        BY Zenon, <3>1, <3>8, <3>9
    <3> HIDE DEF r
    <3>11. Row(J, f, x) /\ Gentle(BlocksOf(J), BlocksOf(w) \cup {x})
        BY <1>8, <3>10
    <3>. QED  BY Zenon, <3>11 DEF J
  <2>. QED  BY <2>2, <2>3, <2>4
<1>. QED  BY <1>7, <1>10

\* Joining the subsectors of a sector makes nothing more processed, and keeps what
\* is finished.
LEMMA JoinIsGentle ==
  ASSUME NEW v, Consecutive(v), v # <<>>, NEW a \in Nat \ {0}
  PROVE  LET w == join_subsectors(v, a)
         IN  Row(w, v[1], v[Len(v)]) /\ Gentle(BlocksOf(w), BlocksOf(v))
<1> DEFINE n == Len(v)
           upTo(k) == {v[j] : j \in 1 .. k}
<1>1. /\ v \in Seq(Blocks) /\ n \in Nat /\ n # 0 /\ DOMAIN v = 1 .. n
      /\ \A i \in 1 .. n : GoodBlock(v[i]) /\ (i > 1 => v[i].pos = end(v[i - 1]))
    BY GoodBlocks
<1>2. v \in Seq(Loose)
  <2>1. \A i \in 1 .. n : v[i] \in Loose
    <3>1. ASSUME NEW i \in 1 .. n  PROVE  v[i] \in Loose
      <4>1. v[i] \in Blocks
          BY <1>1 DEF GoodBlock
      <4>. QED  BY <4>1 DEF Loose, Blocks
    <3>. QED  BY <3>1
  <2>2. v = [i \in 1 .. n |-> v[i]]
      BY <1>1
  <2>. QED  BY <1>1, <2>1, <2>2
<1>3. PICK F : /\ F[0] = <<>>
               /\ \A k \in 1 .. n : F[k] = JoinSubsector(F[k - 1], v[k], a)
               /\ join_subsectors(v, a) = F[n]
    BY <1>2, JoinSteps
<1> HIDE DEF n
<1> DEFINE Good(k) == Row(F[k], v[1], v[k]) /\ Gentle(BlocksOf(F[k]), upTo(k))
           S == {k \in 0 .. n : k # 0 => Good(k)}
<1>4. \A k \in 0 .. n : upTo(k) \in SUBSET Blocks
  <2>1. \A j \in 1 .. n : v[j] \in Blocks
      BY <1>1 DEF GoodBlock
  <2>. QED  BY <1>1, <2>1
<1>5. Good(1)
  <2>1. 1 \in 1 .. n /\ 1 - 1 = 0 /\ 1 .. 1 = {1} /\ 1 \in 0 .. n
      BY <1>1
  <2>2. F[1] = JoinSubsector(<<>>, v[1], a)
      BY <1>3, <2>1
  <2>3. JoinSubsector(<<>>, v[1], a) = Append(<<>>, v[1])
      BY Zenon DEF JoinSubsector
  <2>4. Row(<<v[1]>>, v[1], v[1]) /\ BlocksOf(<<v[1]>>) = {v[1]} /\ Append(<<>>, v[1]) = <<v[1]>>
      BY <1>1, <2>1, OneBlock, BlocksOfOne
  <2>5. upTo(1) = {v[1]}
      BY <2>1
  <2>6. Gentle(upTo(1), upTo(1))
    <3> HIDE DEF upTo
    <3>. QED  BY <1>4, <2>1, SameSets, SameIsGentle
  <2> HIDE DEF upTo
  <2>. QED  BY Zenon, <2>2, <2>3, <2>4, <2>5, <2>6
<1>6. ASSUME NEW k \in 1 .. n, k # 1, Good(k - 1)  PROVE  Good(k)
  <2>1. /\ k > 1 /\ k - 1 \in 1 .. n /\ GoodBlock(v[k]) /\ v[k].pos = end(v[k - 1])
        /\ F[k] = JoinSubsector(F[k - 1], v[k], a) /\ k \in 0 .. n /\ k - 1 \in 0 .. n
      BY <1>1, <1>3, <1>6
  <2>2. upTo(k) = upTo(k - 1) \cup {v[k]}
    <3>1. \A j \in 1 .. k : j \in 1 .. k - 1 \/ j = k
        BY <1>1
    <3>2. \A j \in 1 .. k - 1 : j \in 1 .. k
        BY <1>1
    <3>3. k \in 1 .. k
        BY <1>1
    <3>. QED  BY <3>1, <3>2, <3>3
  <2>3. Row(F[k], v[1], v[k]) /\ Gentle(BlocksOf(F[k]), BlocksOf(F[k - 1]) \cup {v[k]})
      BY <1>6, <2>1, JoinSubsectorStep
  <2> HIDE DEF upTo
  <2>4. v[k] \in Blocks /\ {v[k]} \in SUBSET Blocks
      BY <2>1 DEF GoodBlock
  <2>5. Gentle(BlocksOf(F[k - 1]) \cup {v[k]}, upTo(k - 1) \cup {v[k]})
    <3>1. Gentle({v[k]}, {v[k]})
        BY <2>4, SameSets, SameIsGentle
    <3>. QED  BY <1>6, <3>1, GentleUnions
  <2>6. Gentle(BlocksOf(F[k]), upTo(k))
    <3>1. F[k] \in Seq(Blocks) /\ F[k - 1] \in Seq(Blocks)
        BY <1>6, <2>3 DEF Row, Consecutive
    <3>2. BlocksOf(F[k]) \in SUBSET Blocks /\ BlocksOf(F[k - 1]) \cup {v[k]} \in SUBSET Blocks
      <4>1. BlocksOf(F[k]) \in SUBSET Blocks /\ BlocksOf(F[k - 1]) \in SUBSET Blocks
          BY <3>1, TheirBlocks
      <4>. QED  BY <2>4, <4>1
    <3>3. upTo(k) \in SUBSET Blocks
        BY <1>4, <2>1
    <3> DEFINE X == BlocksOf(F[k])
               Y == BlocksOf(F[k - 1]) \cup {v[k]}
               Z == upTo(k)
    <3>4. Gentle(X, Y) /\ Gentle(Y, Z)
        BY Zenon, <2>2, <2>3, <2>5
    <3> HIDE DEF X, Y, Z
    <3>5. Gentle(X, Z)
      <4>1. X \in SUBSET Blocks /\ Y \in SUBSET Blocks /\ Z \in SUBSET Blocks
          BY Zenon, <3>2, <3>3 DEF X, Y, Z
      <4>. QED  BY <3>4, <4>1, GentleTransitive
    <3>. QED  BY Zenon, <3>5 DEF X, Z
  <2>. QED  BY <2>3, <2>6
<1>7. 0 \in S /\ \A k \in 1 .. n : k - 1 \in S => k \in S
  <2> HIDE DEF Good
  <2>1. 0 \in 0 .. n /\ \A k \in 1 .. n : k \in 0 .. n /\ (k # 1 => k - 1 # 0)
      BY <1>1
  <2>. QED  BY <1>5, <1>6, <2>1
<1>8. n \in S
  <2>1. n \in 0 .. n
      BY <1>1
  <2> HIDE DEF S
  <2>. QED  BY <1>1, <1>7, <2>1, StepByStep
<1>9. Good(n)
  <2> HIDE DEF Good
  <2>. QED  BY <1>1, <1>8
<1>. QED  BY <1>3, <1>9 DEF n, BlocksOf

-----------------------------------------------------------------------------
(***************************************************************************)
(* join_subsectors: every part of a sector that no finished position parts *)
(* gets the status of its least processed position.                        *)
(***************************************************************************)

LEMMA Division ==
  ASSUME NEW a \in Nat \ {0}, NEW p \in Nat
  PROVE  /\ p \div a \in Nat /\ p % a \in 0 .. a - 1
         /\ p = a * (p \div a) + (p % a)
OBVIOUS

LEMMA Multiples ==
  ASSUME NEW a \in Nat \ {0}, NEW c \in Nat, NEW d \in Nat, c < d
  PROVE  a * c + a <= a * d
<1>1. PICK k \in Nat : d = c + 1 + k
  <2>1. d - c - 1 \in Nat /\ d = c + 1 + (d - c - 1)
      OBVIOUS
  <2>. QED  BY <2>1
<1>2. a * (c + 1 + k) = a * c + a + a * k
    OBVIOUS
<1>3. a * k \in Nat /\ a * c \in Nat
    OBVIOUS
<1>. QED  BY <1>1, <1>2, <1>3

\* A sector begins at the last multiple of a up to m, and holds a positions.
LEMMA SectorBounds ==
  ASSUME NEW a \in Nat \ {0}, NEW m \in Nat
  PROVE  LET s == m - (m % a)
         IN  /\ s \in Nat /\ m % a \in 0 .. a - 1
             /\ \A p \in Nat : p \div a \in Nat
             /\ \A p \in Nat : p \div a = m \div a <=> s <= p /\ p < s + a
<1> DEFINE s == m - (m % a)
           c == m \div a
<1>1. c \in Nat /\ m % a \in 0 .. a - 1 /\ m = a * c + (m % a)
    BY Division
<1>2. s = a * c /\ s \in Nat
    BY <1>1
<1>3. ASSUME NEW p \in Nat  PROVE p \div a \in Nat /\ (p \div a = c <=> s <= p /\ p < s + a)
  <2> DEFINE d == p \div a
             t == a * d
             u == a * c
  <2>1. d \in Nat /\ p % a \in 0 .. a - 1 /\ p = t + (p % a)
      BY Division
  <2>2. t <= p /\ p < t + a /\ t \in Nat
    <3>1. t \in Nat
        BY <2>1
    <3> HIDE DEF t
    <3>. QED  BY <2>1, <3>1
  <2>3. d < c => t + a <= u
    <3> HIDE DEF d, c
    <3>. QED  BY <1>1, <2>1, Multiples
  <2>4. c < d => u + a <= t
    <3> HIDE DEF d, c
    <3>. QED  BY <1>1, <2>1, Multiples
  <2>5. d = c => t = u
      OBVIOUS
  <2>6. s = u /\ u \in Nat
      BY <1>2
  <2> HIDE DEF t, u, s, d, c
  <2>7. d = c <=> s <= p /\ p < s + a
      BY <1>1, <2>1, <2>2, <2>3, <2>4, <2>5, <2>6
  <2>. QED  BY <2>1, <2>7 DEF d
<1>. QED  BY <1>1, <1>2, <1>3

\* The sectors of a positions, and that d counts sectors of which one is G .. h - 1.
SectorsOf(a) == [p \in Nat |-> p \div a]
HasSector(d, G, h) ==
  /\ d \in [Nat -> Nat]
  /\ \A p, q \in Nat : p <= q => d[p] <= d[q]
  /\ G \in Nat /\ h \in Nat /\ G < h
  /\ \A p \in Nat : d[p] = d[G] <=> G <= p /\ p < h

LEMMA TheSector ==
  ASSUME NEW a \in Nat \ {0}, NEW m \in Nat
  PROVE  LET s == m - (m % a)
         IN  HasSector(SectorsOf(a), s, s + a) /\ s <= m /\ m < s + a
<1> DEFINE d == SectorsOf(a)
           s == m - (m % a)
<1>1. \A p \in Nat : d[p] = p \div a
    BY DEF SectorsOf
<1>2. d \in [Nat -> Nat]
  <2>1. \A p \in Nat : p \div a \in Nat
      BY SectorBounds
  <2>. QED  BY <2>1 DEF SectorsOf
<1>3. \A p \in Nat : d[p] = d[m] <=> s <= p /\ p < s + a
    BY <1>1, SectorBounds
<1>4. s \in Nat /\ s <= m /\ m < s + a
  <2>1. s \in Nat /\ m % a \in 0 .. a - 1
      BY SectorBounds
  <2>. QED  BY <2>1
<1>5. ASSUME NEW p \in Nat, NEW q \in Nat, p <= q  PROVE d[p] <= d[q]
  <2> DEFINE i == p \div a
             j == q \div a
  <2>1. i \in Nat /\ j \in Nat /\ p = a * i + (p % a) /\ q = a * j + (q % a)
        /\ p % a \in 0 .. a - 1 /\ q % a \in 0 .. a - 1
      BY Division
  <2> DEFINE t == a * i
             u == a * j
  <2>2. j < i => u + a <= t
    <3> HIDE DEF i, j
    <3>. QED  BY <2>1, Multiples
  <2>3. t \in Nat /\ u \in Nat
      BY <2>1
  <2> HIDE DEF t, u, i, j
  <2>4. t <= p /\ q < u + a
      BY <2>1, <2>3 DEF t, u
  <2>5. ~(j < i)
      BY <1>5, <2>2, <2>3, <2>4
  <2>6. i <= j
      BY <2>1, <2>5
  <2>. QED  BY <1>1, <2>6 DEF i, j
<1> HIDE DEF d, s
<1>6. d[s] = d[m]
    BY <1>3, <1>4
<1>7. HasSector(d, s, s + a)
    BY <1>2, <1>3, <1>4, <1>5, <1>6 DEF HasSector
<1>. QED  BY <1>4, <1>7 DEF d, s

\* The positions below m of the sector of p from which no finished position parts
\* it, f being the status and d the sector of every position.
Together(f, p, q) ==
  \A r \in Nat : (p <= r /\ r <= q) \/ (q <= r /\ r <= p) => f[r] # "finished"
Linked(f, d, m, p) ==
  {q \in 0 .. m - 1 : d[q] = d[p] /\ Together(f, p, q)}

\* Status s is the least processed one of those positions, or p is finished.
Least(s, f, d, m, p) ==
  IF f[p] = "finished" THEN s = "finished"
  ELSE /\ \E q \in Linked(f, d, m, p) : processed_state[s] = processed_state[f[q]]
       /\ \A q \in Linked(f, d, m, p) : processed_state[s] <= processed_state[f[q]]

\* Where nothing links the positions on both sides of m, those behind it change
\* nothing for those before it, and are linked to one another only.
LEMMA NothingLinked ==
  ASSUME NEW f, NEW d \in [Nat -> Nat], \A p, q \in Nat : p <= q => d[p] <= d[q],
         NEW m \in Nat, NEW e \in Nat, 0 < m, m < e,
         d[m - 1] # d[m] \/ f[m - 1] = "finished" \/ f[m] = "finished"
  PROVE  /\ \A p \in 0 .. m - 1 : Linked(f, d, e, p) = Linked(f, d, m, p)
         /\ \A p \in m .. e - 1 : Linked(f, d, e, p) \in SUBSET (m .. e - 1)
<1>1. ASSUME NEW p \in 0 .. m - 1, NEW q \in m .. e - 1, d[p] = d[q],
             Together(f, p, q) \/ Together(f, q, p)
      PROVE  FALSE
  <2>1. p \in Nat /\ q \in Nat /\ p <= m - 1 /\ m - 1 \in Nat /\ m <= q /\ m - 1 <= m
      OBVIOUS
  <2>2. f[m - 1] # "finished" /\ f[m] # "finished"
      BY <1>1, <2>1 DEF Together
  <2>3. d[p] <= d[m - 1] /\ d[m - 1] <= d[m] /\ d[m] <= d[q]
      BY <2>1
  <2>4. d[p] \in Nat /\ d[m - 1] \in Nat /\ d[m] \in Nat /\ d[q] \in Nat
      BY <2>1
  <2>5. d[m - 1] = d[m]
      BY <1>1, <2>3, <2>4
  <2>. QED  BY <2>2, <2>5
<1>2. ASSUME NEW p \in 0 .. m - 1  PROVE Linked(f, d, e, p) = Linked(f, d, m, p)
  <2>1. \A q \in Linked(f, d, e, p) : q \in Linked(f, d, m, p)
    <3>1. SUFFICES ASSUME NEW q \in Linked(f, d, e, p)  PROVE q \in Linked(f, d, m, p)
        OBVIOUS
    <3>2. q \in 0 .. e - 1 /\ d[q] = d[p] /\ Together(f, p, q)
        BY <3>1 DEF Linked
    <3>3. q \notin m .. e - 1
        BY <1>1, <3>2
    <3>4. q \in 0 .. m - 1
        BY <3>2, <3>3
    <3>. QED  BY <3>2, <3>4 DEF Linked
  <2>2. \A q \in Linked(f, d, m, p) : q \in Linked(f, d, e, p)
      BY DEF Linked
  <2>. QED  BY <2>1, <2>2
<1>3. ASSUME NEW p \in m .. e - 1  PROVE Linked(f, d, e, p) \in SUBSET (m .. e - 1)
  <2>1. SUFFICES ASSUME NEW q \in Linked(f, d, e, p)  PROVE q \in m .. e - 1
      OBVIOUS
  <2>2. q \in 0 .. e - 1 /\ d[q] = d[p] /\ Together(f, p, q)
      BY <2>1 DEF Linked
  <2>3. q \notin 0 .. m - 1
      BY <1>1, <2>2
  <2>. QED  BY <2>2, <2>3
<1>. QED  BY <1>2, <1>3

\* Position m lies inside the sector G .. h - 1, of which blocks that meet at m and
\* cover y .. e - 1 have the part b .. c - 1.
Meets(d, a, y, m, e, G, h, b, c) ==
  /\ y \in Nat /\ m \in Nat /\ e \in Nat /\ y < m /\ m < e
  /\ m % a # 0 /\ G = m - (m % a) /\ h = G + a
  /\ HasSector(d, G, h)
  /\ b = (IF G <= y THEN y ELSE G)
  /\ c = (IF h <= e THEN h ELSE e)

LEMMA MeetsAt ==
  ASSUME NEW a \in Nat \ {0}, NEW d, NEW y, NEW m, NEW e, NEW G, NEW h, NEW b, NEW c,
         Meets(d, a, y, m, e, G, h, b, c)
  PROVE  /\ y \in Nat /\ m \in Nat /\ e \in Nat /\ G \in Nat /\ h \in Nat /\ b \in Nat /\ c \in Nat
         /\ y < m /\ m < e /\ G < m /\ m < h
         /\ y <= b /\ G <= b /\ b < m /\ m < c /\ c <= e /\ c <= h
         /\ G <= y => b = y
         /\ y <= G => b = G
         /\ h <= e => c = h
         /\ e <= h => c = e
         /\ \A p \in Nat : d[p] \in Nat
         /\ \A p \in Nat : d[p] = d[m] <=> G <= p /\ p < h
         /\ \A p, q \in Nat : p <= q => d[p] <= d[q]
         /\ d[h - 1] # d[h]
         /\ G # 0 => d[G - 1] # d[G]
<1>1. /\ y \in Nat /\ m \in Nat /\ e \in Nat /\ y < m /\ m < e
      /\ G \in Nat /\ h \in Nat
      /\ b = (IF G <= y THEN y ELSE G) /\ c = (IF h <= e THEN h ELSE e)
    BY DEF Meets, HasSector
<1>2. G < m /\ m < h
  <2>1. m % a \in 0 .. a - 1 /\ m % a # 0 /\ G = m - (m % a) /\ h = G + a
      BY <1>1, SectorBounds DEF Meets
  <2> DEFINE r == m % a
  <2> HIDE DEF r
  <2>2. r \in 0 .. a - 1 /\ r # 0 /\ G = m - r /\ h = G + a
      BY <2>1 DEF r
  <2>. QED  BY <1>1, <2>2
<1>3. /\ \A p \in Nat : d[p] \in Nat
      /\ \A p \in Nat : d[p] = d[G] <=> G <= p /\ p < h
      /\ \A p, q \in Nat : p <= q => d[p] <= d[q]
    BY DEF HasSector, Meets
<1>4. d[m] = d[G]
    BY <1>1, <1>2, <1>3
<1>5. d[h - 1] # d[h] /\ (G # 0 => d[G - 1] # d[G])
  <2>1. h - 1 \in Nat /\ G <= h - 1 /\ h - 1 < h /\ ~(h < h)
        /\ (G # 0 => G - 1 \in Nat /\ ~(G <= G - 1))
      BY <1>1, <1>2
  <2>. QED  BY <1>1, <1>3, <2>1
<1>. QED  BY <1>1, <1>2, <1>3, <1>4, <1>5

\* Where unfinished positions from y on, and from m to e, meet at m inside a
\* sector, those of the sector are all linked, and to no others.
LEMMA SectorLinked ==
  ASSUME NEW f, NEW a \in Nat \ {0}, NEW d, NEW y, NEW m, NEW e, NEW G, NEW h, NEW b, NEW c,
         Meets(d, a, y, m, e, G, h, b, c),
         \A p \in y .. e - 1 : f[p] # "finished",
         y = 0 \/ d[y - 1] # d[y] \/ f[y - 1] = "finished"
  PROVE  /\ \A p \in b .. c - 1 : Linked(f, d, e, p) = b .. c - 1
         /\ \A p \in 0 .. b - 1 : Linked(f, d, e, p) = Linked(f, d, m, p)
         /\ \A p \in c .. e - 1 : Linked(f, d, e, p) \in SUBSET (c .. e - 1)
         /\ Linked(f, d, m, m - 1) = b .. m - 1
<1>1. /\ G \in Nat /\ h \in Nat /\ \A p \in Nat : d[p] \in Nat
      /\ \A p \in Nat : d[p] = d[m] <=> G <= p /\ p < h
      /\ \A p, q \in Nat : p <= q => d[p] <= d[q]
      /\ G < m /\ m < h /\ y \in Nat /\ m \in Nat /\ e \in Nat /\ y < m /\ m < e
      /\ b = (IF G <= y THEN y ELSE G)
      /\ c = (IF h <= e THEN h ELSE e)
  <2>1. b = (IF G <= y THEN y ELSE G) /\ c = (IF h <= e THEN h ELSE e)
      BY DEF Meets
  <2>. QED  BY <2>1, MeetsAt
<1>2. b \in y .. m - 1 /\ c \in m + 1 .. e /\ b \in Nat /\ c \in Nat /\ G <= b /\ c <= h
  <2>1. /\ y \in Nat /\ m \in Nat /\ e \in Nat /\ b \in Nat /\ c \in Nat
        /\ y <= b /\ G <= b /\ b < m /\ m < c /\ c <= e /\ c <= h
      BY MeetsAt
  <2>. QED  BY <2>1
<1>3. \A p \in b .. c - 1 : p \in Nat /\ d[p] = d[m] /\ p \in y .. e - 1
  <2>1. \A p \in b .. c - 1 : p \in Nat /\ G <= p /\ p < h /\ p \in y .. e - 1
      BY <1>1, <1>2
  <2>. QED  BY <1>1, <2>1
<1>4. \A p, q \in b .. c - 1 : Together(f, p, q)
  <2>1. SUFFICES ASSUME NEW p \in b .. c - 1, NEW q \in b .. c - 1, NEW r \in Nat,
                        (p <= r /\ r <= q) \/ (q <= r /\ r <= p)
                 PROVE  f[r] # "finished"
      BY DEF Together
  <2>2. r \in b .. c - 1
      BY <1>2, <2>1
  <2>. QED  BY <1>3, <2>2
\* Nothing from b on is linked with a position before b.
<1>5. ASSUME NEW p \in b .. c - 1, NEW q \in 0 .. b - 1, d[p] = d[q],
             Together(f, p, q) \/ Together(f, q, p)
      PROVE  FALSE
  <2>1. q \in Nat /\ G <= q /\ q < b
      BY <1>1, <1>2, <1>3, <1>5
  <2>2. b = y /\ q <= y - 1 /\ y - 1 \in Nat /\ y # 0 /\ y - 1 <= p
      BY <1>1, <1>2, <2>1
  <2>3. f[y - 1] # "finished"
      BY <1>2, <1>5, <2>1, <2>2 DEF Together
  <2>4. G <= y - 1 /\ y - 1 < h /\ y < h /\ G <= y
      BY <1>1, <2>1, <2>2
  <2>5. d[y - 1] = d[m] /\ d[y] = d[m]
      BY <1>1, <2>1, <2>2, <2>4
  <2>. QED  BY <2>2, <2>3, <2>5
\* Nor with one from c on.
<1>6. ASSUME NEW p \in 0 .. c - 1, NEW q \in c .. e - 1, d[p] = d[q],
             Together(f, p, q) \/ Together(f, q, p)
      PROVE  FALSE
  <2>1. c = h /\ p \in Nat /\ q \in Nat /\ h <= q /\ p < h
      BY <1>1, <1>2
  <2>2. d[q] # d[m]
      BY <1>1, <2>1
  <2>3. p < G
      BY <1>1, <1>6, <2>1, <2>2
  <2>4. d[p] <= d[m] /\ d[m] <= d[q] /\ d[p] \in Nat /\ d[m] \in Nat /\ d[q] \in Nat
    <3>1. p <= m /\ m <= q
        BY <1>1, <2>1, <2>3
    <3>. QED  BY <1>1, <2>1, <3>1
  <2>. QED  BY <1>6, <2>2, <2>4
<1>7. ASSUME NEW p \in b .. c - 1  PROVE Linked(f, d, e, p) = b .. c - 1
  <2>1. ASSUME NEW q \in Linked(f, d, e, p)  PROVE q \in b .. c - 1
    <3>1. q \in 0 .. e - 1 /\ d[q] = d[p] /\ Together(f, p, q)
        BY <2>1 DEF Linked
    <3>2. q \notin 0 .. b - 1
        BY <1>5, <3>1
    <3>3. p \in 0 .. c - 1
        BY <1>1, <1>2
    <3>4. q \notin c .. e - 1
        BY <1>6, <3>1, <3>3
    <3>. QED  BY <1>2, <3>1, <3>2, <3>4
  <2>2. ASSUME NEW q \in b .. c - 1  PROVE q \in Linked(f, d, e, p)
    <3>1. q \in 0 .. e - 1 /\ d[q] = d[p] /\ Together(f, p, q)
        BY <1>2, <1>3, <1>4
    <3>. QED  BY <3>1 DEF Linked
  <2>. QED  BY <2>1, <2>2
<1>8. ASSUME NEW p \in 0 .. b - 1  PROVE Linked(f, d, e, p) = Linked(f, d, m, p)
  <2>1. ASSUME NEW q \in Linked(f, d, e, p)  PROVE q \in Linked(f, d, m, p)
    <3>1. q \in 0 .. e - 1 /\ d[q] = d[p] /\ Together(f, p, q)
        BY <2>1 DEF Linked
    <3>2. q \notin b .. c - 1
        BY <1>5, <3>1
    <3>3. p \in 0 .. c - 1
        BY <1>1, <1>2
    <3>4. q \notin c .. e - 1
        BY <1>6, <3>1, <3>3
    <3>5. q \in 0 .. m - 1
        BY <1>1, <1>2, <3>1, <3>2, <3>4
    <3>. QED  BY <3>1, <3>5 DEF Linked
  <2>2. ASSUME NEW q \in Linked(f, d, m, p)  PROVE q \in Linked(f, d, e, p)
    <3>1. 0 .. m - 1 \in SUBSET (0 .. e - 1)
        BY <1>1
    <3>. QED  BY <2>2, <3>1 DEF Linked
  <2>. QED  BY <2>1, <2>2
<1>9. ASSUME NEW p \in c .. e - 1  PROVE Linked(f, d, e, p) \in SUBSET (c .. e - 1)
  <2>1. SUFFICES ASSUME NEW q \in Linked(f, d, e, p)  PROVE q \in c .. e - 1
      OBVIOUS
  <2>2. q \in 0 .. e - 1 /\ d[q] = d[p] /\ Together(f, p, q)
      BY <2>1 DEF Linked
  <2>3. q \notin 0 .. c - 1
      BY <1>6, <2>2
  <2>. QED  BY <1>2, <2>2, <2>3
<1>10. Linked(f, d, m, m - 1) = b .. m - 1
  <2>0. m - 1 \in b .. c - 1
    <3>1. b \in Nat /\ m \in Nat /\ c \in Nat /\ b < m /\ m < c
        BY MeetsAt
    <3>. QED  BY <3>1
  <2>1. ASSUME NEW q \in Linked(f, d, m, m - 1)  PROVE q \in b .. m - 1
    <3>1. q \in 0 .. m - 1 /\ d[q] = d[m - 1] /\ Together(f, m - 1, q)
        BY <2>1 DEF Linked
    <3>2. q \notin 0 .. b - 1
        BY <1>5, <2>0, <3>1
    <3>. QED  BY <1>2, <3>1, <3>2
  <2>2. ASSUME NEW q \in b .. m - 1  PROVE q \in Linked(f, d, m, m - 1)
    <3>1. q \in b .. c - 1 /\ q \in 0 .. m - 1
        BY <1>1, <1>2, <2>2
    <3>2. d[q] = d[m - 1] /\ Together(f, m - 1, q)
        BY <1>3, <1>4, <2>0, <3>1
    <3>. QED  BY <3>1, <3>2 DEF Linked
  <2>. QED  BY <2>1, <2>2
<1>. QED  BY <1>1, <1>2, <1>7, <1>8, <1>9, <1>10

\* The less processed one of two statuses.
Lesser(r, s) == IF processed_state[r] <= processed_state[s] THEN r ELSE s

\* A block is where the sector changes, or beside a finished position.
Apart(z, f, d) ==
  \/ z.pos = 0
  \/ d[z.pos - 1] # d[z.pos]
  \/ "finished" \in {f[z.pos - 1], f[z.pos]}

\* Blocks none of which is finished lie within y .. e - 1, part where y or a sector
\* begins, and have status r before b, t from b on and s from c on.
Parts(Z, d, y, e, b, c, r, t, s) ==
  \A z \in Z :
    /\ GoodBlock(z) /\ y <= z.pos /\ end(z) <= e /\ z.st # "finished"
    /\ z.pos = y \/ (z.pos # 0 /\ d[z.pos - 1] # d[z.pos])
    /\ \A k \in Nat : z.pos <= k /\ k < end(z) =>
         z.st = (IF k < b THEN r ELSE IF k < c THEN t ELSE s)

\* What one step of join_subsectors makes of a boundary inside a sector, G .. h - 1,
\* between two blocks that are not finished: the part of it that they cover gets
\* the status of the less processed one, and what is outside keeps its status.
LEMMA JoinedParts ==
  ASSUME NEW w, NEW f, NEW l, Row(w, f, l), NEW x, GoodBlock(x), x.pos = end(l),
         NEW a \in Nat \ {0}, NEW y, y = Last(w), "finished" \notin {y.st, x.st},
         NEW d, NEW m, NEW e, NEW G, NEW h, NEW b, NEW c, Meets(d, a, y.pos, m, e, G, h, b, c),
         m = end(y), e = end(x), NEW t, t = Lesser(y.st, x.st)
  PROVE  \E r : /\ JoinSubsector(w, x, a) = Front(w) \o r
                /\ Row(r, y, x)
                /\ Parts(BlocksOf(r), d, y.pos, e, b, c, y.st, t, x.st)
<1> DEFINE u    == Front(w)
           rest == m % a
           less == processed_state[y.st] <= processed_state[x.st]
           p    == m + a - rest
           q    == m - rest
           z    == enlarge([y EXCEPT !.st = IF less THEN @ ELSE x.st], x.size)
           J    == JoinSubsector(w, x, a)
           Fine(o) == /\ GoodBlock(o) /\ y.pos <= o.pos /\ end(o) <= e /\ o.st # "finished"
                      /\ o.pos = y.pos \/ (o.pos # 0 /\ d[o.pos - 1] # d[o.pos])
                      /\ \A k \in Nat : o.pos <= k /\ k < end(o) =>
                           o.st = (IF k < b THEN y.st ELSE IF k < c THEN t ELSE x.st)
<1>1. w # <<>> /\ w \in Seq(Blocks)
    BY DEF Row, Consecutive
<1>2. GoodBlock(y) /\ m = x.pos
    BY LastOfRow
<1>4. /\ y.pos \in Nat /\ m \in Nat /\ x.pos \in Nat /\ e \in Nat /\ y.pos < m /\ m < e
      /\ e <= LLONG_MAX /\ y.st \in Status /\ x.st \in Status /\ m = y.pos + y.size
      /\ e = m + x.size /\ y.size \in Nat /\ x.size \in Nat /\ x \in Blocks /\ y \in Blocks
      /\ LLONG_MAX \in Nat /\ x.size > 0 /\ y.size > 0
    BY <1>2, LimitAssumption DEF GoodBlock, Blocks, end
<1>15. /\ G \in Nat /\ h \in Nat /\ b \in Nat /\ c \in Nat /\ G < m /\ m < h
       /\ y.pos <= b /\ G <= b /\ c <= e /\ c <= h
       /\ G <= y.pos => b = y.pos
       /\ y.pos <= G => b = G
       /\ h <= e => c = h
       /\ e <= h => c = e
       /\ d[h - 1] # d[h]
       /\ G # 0 => d[G - 1] # d[G]
    BY MeetsAt
<1>5. rest \in Nat /\ rest # 0 /\ G = m - rest /\ h = G + a /\ q = G /\ p = h
  <2>1. rest \in Nat /\ rest # 0 /\ G = m - rest /\ h = G + a
      BY <1>4 DEF Meets
  <2> HIDE DEF rest
  <2>. QED  BY <1>4, <2>1
<1>6. \A k \in Nat : k # 0 /\ (k = G \/ k = h) => d[k - 1] # d[k]
    BY Zenon, <1>15
<1>7. y.st # "finished" /\ x.st # "finished"
    OBVIOUS
<1>14. (less => t = y.st) /\ (~less => t = x.st)
    BY DEF Lesser
<1> DEFINE Has(k) == IF k < b THEN y.st ELSE IF k < c THEN t ELSE x.st
<1> DEFINE Done == \E r : J = u \o r /\ Row(r, y, x) /\ \A o \in BlocksOf(r) : Fine(o)
<1> HIDE DEF rest, p, q, less
<1>8. ASSUME NEW r, J = u \o r, Row(r, y, x), \A o \in BlocksOf(r) : Fine(o)
      PROVE  \E s : J = u \o s /\ Row(s, y, x) /\ \A o \in BlocksOf(s) : Fine(o)
    BY Zenon, <1>8
<1>9. ASSUME NEW k \in Nat, y.pos < k, k < e, k = G \/ k = h,
             k = h => less, k = G => ~less
      PROVE  /\ Row(shift_boundary(y, x, k), y, x)
             /\ \A o \in BlocksOf(shift_boundary(y, x, k)) : Fine(o)
  <2> DEFINE g == From(y.pos, k, y.st)
             i == From(k, end(x), x.st)
  <2>1. Row(shift_boundary(y, x, k), y, x) /\ BlocksOf(shift_boundary(y, x, k)) = {g, i}
    <3>1. GoodBlock(y) /\ GoodBlock(x) /\ x.pos = end(y) /\ k \in Nat /\ y.pos < k /\ k < end(x)
        BY Zenon, <1>2, <1>9
    <3>. QED  BY Zenon, <3>1, ShiftBoundary
  <2>2. GoodBlock(g) /\ g.pos = y.pos /\ end(g) = k /\ g.st = y.st
    <3>1. k <= LLONG_MAX
        BY <1>4, <1>9
    <3>. QED  BY <1>4, <1>9, <3>1, FromIsGood
  <2>3. GoodBlock(i) /\ i.pos = k /\ end(i) = e /\ i.st = x.st
      BY <1>4, <1>9, FromIsGood
  <2> HIDE DEF g, i
  <2>4. \A j \in Nat : j < k => y.st = Has(j)
    <3>1. CASE k = h
        BY <1>4, <1>5, <1>9, <1>15, <1>14, <3>1
    <3>2. CASE k = G
        BY <1>4, <1>5, <1>9, <1>15, <3>2
    <3>. QED  BY <1>9, <3>1, <3>2
  <2>5. \A j \in Nat : j >= k /\ j < e => x.st = Has(j)
    <3>1. CASE k = h
        BY <1>4, <1>5, <1>9, <1>15, <3>1
    <3>2. CASE k = G
        BY <1>4, <1>5, <1>9, <1>15, <1>14, <3>2
    <3>. QED  BY <1>9, <3>1, <3>2
  <2>6. Fine(g)
    <3>1. \A j \in Nat : g.pos <= j /\ j < end(g) => g.st = Has(j)
        BY <2>2, <2>4
    <3>2. GoodBlock(g) /\ y.pos <= g.pos /\ end(g) <= e /\ g.st # "finished" /\ g.pos = y.pos
        BY <1>4, <1>7, <1>9, <2>2
    <3> HIDE DEF Has
    <3>. QED  BY Zenon, <3>1, <3>2 DEF Has
  <2>7. Fine(i)
    <3>1. k # 0 /\ d[k - 1] # d[k]
      <4>1. k # 0
          BY <1>4, <1>9
      <4>. QED  BY Zenon, <1>6, <1>9, <4>1
    <3>2. \A j \in Nat : i.pos <= j /\ j < end(i) => i.st = Has(j)
        BY <1>9, <2>3, <2>5
    <3>3. GoodBlock(i) /\ y.pos <= i.pos /\ end(i) <= e /\ i.st # "finished" /\ i.pos = k
        BY <1>4, <1>7, <1>9, <2>3
    <3> HIDE DEF Has
    <3>. QED  BY Zenon, <3>1, <3>2, <3>3 DEF Has
  <2> HIDE DEF Fine
  <2>. QED  BY <2>1, <2>6, <2>7
<1>10. ASSUME less /\ x.size > a - rest  PROVE Done
  <2>1. p \in Nat /\ y.pos < p /\ p < e /\ p = h /\ p # G
      BY <1>4, <1>5, <1>10, <1>15 DEF p
  <2>2. J = u \o shift_boundary(y, x, p)
    <3>1. rest # 0
        BY <1>5
    <3>. QED  BY Zenon, <1>1, <3>1, <1>10 DEF JoinSubsector, rest, less, p
  <2> HIDE DEF Fine, J, u
  <2> DEFINE r == shift_boundary(y, x, p)
  <2>3. Row(r, y, x) /\ \A o \in BlocksOf(r) : Fine(o)
      BY Zenon, <1>9, <1>10, <2>1
  <2> HIDE DEF r
  <2>4. J = u \o r
      BY Zenon, <2>2 DEF r
  <2>5. \E s : J = u \o s /\ Row(s, y, x) /\ \A o \in BlocksOf(s) : Fine(o)
      BY Zenon, <2>3, <2>4
  <2>. QED  BY Zenon, <2>5 DEF J, Fine, u
<1>11. ASSUME ~(less /\ x.size > a - rest) /\ ~less /\ y.size > rest  PROVE Done
  <2>1. q \in Nat /\ y.pos < q /\ q < e /\ q = G /\ q # h
      BY <1>4, <1>5, <1>11, <1>15 DEF q
  <2>2. J = u \o shift_boundary(y, x, q)
    <3>1. rest # 0
        BY <1>5
    <3>. QED  BY Zenon, <1>1, <3>1, <1>11 DEF JoinSubsector, rest, less, q
  <2> HIDE DEF Fine, J, u
  <2> DEFINE r == shift_boundary(y, x, q)
  <2>3. Row(r, y, x) /\ \A o \in BlocksOf(r) : Fine(o)
      BY Zenon, <1>9, <1>11, <2>1
  <2> HIDE DEF r
  <2>4. J = u \o r
      BY Zenon, <2>2 DEF r
  <2>5. \E s : J = u \o s /\ Row(s, y, x) /\ \A o \in BlocksOf(s) : Fine(o)
      BY Zenon, <2>3, <2>4
  <2>. QED  BY Zenon, <2>5 DEF J, Fine, u
<1>12. ASSUME ~(less /\ x.size > a - rest) /\ ~(~less /\ y.size > rest)  PROVE Done
  <2> DEFINE s == IF less THEN y.st ELSE x.st
             o == [y EXCEPT !.st = IF less THEN @ ELSE x.st]
             n == o.size + IF x.size < 0 THEN LLONG_MAX - end(o)
                           ELSE min(x.size, LLONG_MAX - end(o))
  <2>1. J = u \o <<z>>
    <3>1. rest # 0
        BY <1>5
    <3>. QED  BY Zenon, <1>1, <3>1, <1>12 DEF JoinSubsector, rest, less
  <2>2. z = [o EXCEPT !.size = n]
      BY Zenon DEF enlarge
  <2>3. /\ o \in Blocks /\ o.pos = y.pos /\ o.size = y.size /\ o.st = s /\ s \in Status
        /\ s \in {y.st, x.st} /\ s = t
    <3>1. o = [y EXCEPT !.st = s]
        BY Zenon
    <3>2. s \in Status /\ s \in {y.st, x.st}
        BY <1>4
    <3>3. s = t
        BY Zenon, <1>14
    <3> HIDE DEF s, o
    <3>. QED  BY <1>4, <3>1, <3>2, <3>3 DEF Blocks
  <2>4. \A k \in Nat : y.pos <= k /\ k < e => s = Has(k)
    <3>1. CASE less
      <4>1. e <= h
        <5>1. x.size <= a - rest
            BY <1>4, <1>5, <1>12, <3>1
        <5>. QED  BY <1>4, <1>5, <5>1 DEF p
      <4>2. c = e /\ t = y.st /\ s = y.st
          BY Zenon, <1>15, <1>14, <3>1, <4>1
      <4> HIDE DEF s
      <4>. QED  BY <1>4, <1>15, <4>2
    <3>2. CASE ~less
      <4>1. G <= y.pos
        <5>1. y.size <= rest
            BY <1>4, <1>5, <1>12, <3>2
        <5>. QED  BY <1>4, <1>5, <5>1 DEF q
      <4>2. b = y.pos /\ t = x.st /\ s = x.st
          BY Zenon, <1>15, <1>14, <3>2, <4>1
      <4> HIDE DEF s
      <4>. QED  BY <1>4, <1>15, <4>2
    <3>. QED  BY <3>1, <3>2
  <2> HIDE DEF s, o
  <2>5. n = y.size + x.size
    <3>1. end(o) = m
        BY <1>4, <2>3 DEF end
    <3>. QED  BY <1>4, <2>3, <3>1 DEF min, BM!Smaller
  <2> HIDE DEF n
  <2>6. z \in Blocks /\ z.pos = y.pos /\ z.size = n /\ z.st = s
    <3>1. n \in Nat
        BY <1>4, <2>5
    <3> HIDE DEF z
    <3>. QED  BY <2>2, <2>3, <3>1 DEF Blocks
  <2> HIDE DEF z
  <2>7. GoodBlock(z) /\ end(z) = e /\ z.st # "finished"
    <3>1. end(z) = e
      <4>1. end(z) = z.pos + z.size
          BY Zenon DEF end
      <4>2. z.size = y.size + x.size
          BY Zenon, <2>5, <2>6
      <4>. QED  BY <1>4, <2>6, <4>1, <4>2
    <3>. QED  BY <1>4, <1>7, <2>3, <2>5, <2>6, <3>1 DEF GoodBlock
  <2>8. Row(<<z>>, y, x) /\ BlocksOf(<<z>>) = {z}
      BY <2>6, <2>7, OneBlock, BlocksOfOne DEF Row
  <2>9. Fine(z)
    <3>1. \A k \in Nat : z.pos <= k /\ k < end(z) => z.st = Has(k)
        BY Zenon, <2>4, <2>6, <2>7
    <3>2. y.pos <= z.pos /\ end(z) <= e
        BY <1>4, <2>6, <2>7
    <3> HIDE DEF Has
    <3>. QED  BY Zenon, <2>6, <2>7, <3>1, <3>2 DEF Has
  <2> HIDE DEF Fine, J, u
  <2> DEFINE r == <<z>>
  <2>10. J = u \o r /\ Row(r, y, x) /\ \A k \in BlocksOf(r) : Fine(k)
      BY Zenon, <2>1, <2>8, <2>9
  <2> HIDE DEF r
  <2>11. \E k : J = u \o k /\ Row(k, y, x) /\ \A i \in BlocksOf(k) : Fine(i)
      BY Zenon, <2>10
  <2>. QED  BY Zenon, <2>11 DEF J, Fine, u
<1>13. \E r : J = u \o r /\ Row(r, y, x) /\ \A o \in BlocksOf(r) : Fine(o)
  <2> HIDE DEF J, u, Fine
  <2>. QED  BY Zenon, <1>10, <1>11, <1>12
<1>16. \A r : (\A o \in BlocksOf(r) : Fine(o))
               => Parts(BlocksOf(r), d, y.pos, e, b, c, y.st, t, x.st)
    BY Zenon DEF Parts
<1> HIDE DEF Fine, J, u
<1>17. \E r : J = u \o r /\ Row(r, y, x)
              /\ Parts(BlocksOf(r), d, y.pos, e, b, c, y.st, t, x.st)
    BY Zenon, <1>13, <1>16
<1>. QED  BY Zenon, <1>17 DEF J, u

\* The positions before block z have statuses f and are in sectors d: z is where they
\* part, and has the least processed status of those linked to each of its own,
\* among those before m.
LeastOf(z, f, d, m) ==
  /\ Apart(z, f, d)
  /\ \A p \in Nat : z.pos <= p /\ p < end(z) => Least(z.st, f, d, m, p)

\* Positions that are linked to none of another status.
LEMMA LeastAlone ==
  ASSUME NEW f, NEW d, NEW m \in Nat, NEW p \in 0 .. m - 1, NEW s \in Status, f[p] = s,
         \A q \in Linked(f, d, m, p) : f[q] = s
  PROVE  Least(s, f, d, m, p)
<1>1. CASE s = "finished"
    BY <1>1 DEF Least
<1>2. CASE s # "finished"
  <2>1. \A r \in Nat : (p <= r /\ r <= p) \/ (p <= r /\ r <= p) => f[r] # "finished"
      BY <1>2
  <2>2. p \in Linked(f, d, m, p)
      BY <2>1 DEF Linked, Together
  <2>3. processed_state[s] \in 0 .. 4
      BY Ranks
  <2>. QED  BY <1>2, <2>2, <2>3 DEF Least
<1>. QED  BY <1>1, <1>2

\* What is least for linked positions is least for as many others.
LEMMA LeastSame ==
  ASSUME NEW f, NEW d, NEW m, NEW e, NEW p, NEW s, Least(s, f, d, m, p),
         Linked(f, d, e, p) = Linked(f, d, m, p)
  PROVE  Least(s, f, d, e, p)
BY Zenon DEF Least

\* The least of two parts.
LEMMA LeastOfParts ==
  ASSUME NEW f, NEW d, NEW m \in Nat, NEW e \in Nat, NEW b \in Nat, NEW c \in Nat,
         b < m, m < c, c <= e, NEW p \in b .. c - 1,
         \A q \in 0 .. e - 1 : f[q] \in Status,
         \A q \in b .. c - 1 : f[q] # "finished",
         NEW r \in Status, NEW s \in Status,
         Least(r, f, d, m, m - 1), Linked(f, d, m, m - 1) = b .. m - 1,
         \A q \in m .. c - 1 : f[q] = s,
         Linked(f, d, e, p) = b .. c - 1
  PROVE  Least(Lesser(r, s), f, d, e, p)
<1> DEFINE n(u) == processed_state[u]
           t    == Lesser(r, s)
<1>1. n(r) \in 0 .. 4 /\ n(s) \in 0 .. 4 /\ n(t) \in {n(r), n(s)} /\ n(t) <= n(r) /\ n(t) <= n(s)
    BY Ranks DEF Lesser
<1>2. f[m - 1] # "finished" /\ f[p] # "finished"
    OBVIOUS
<1>3. /\ \E q \in b .. m - 1 : n(r) = n(f[q])
      /\ \A q \in b .. m - 1 : n(r) <= n(f[q])
    BY Zenon, <1>2 DEF Least
<1>4. \A q \in b .. c - 1 : n(f[q]) \in 0 .. 4
  <2>1. \A q \in b .. c - 1 : q \in 0 .. e - 1
      OBVIOUS
  <2>. QED  BY <2>1, Ranks
<1>5. \A q \in b .. c - 1 : q \in b .. m - 1 \/ q \in m .. c - 1
    OBVIOUS
<1>6. m \in b .. c - 1 /\ m \in m .. c - 1 /\ \A q \in b .. m - 1 : q \in b .. c - 1
    OBVIOUS
<1> HIDE DEF t, n
<1>7. \A q \in b .. c - 1 : n(t) <= n(f[q])
  <2>1. ASSUME NEW q \in b .. m - 1  PROVE n(t) <= n(f[q])
      BY <1>1, <1>3, <1>4, <1>6
  <2>2. ASSUME NEW q \in m .. c - 1  PROVE n(t) <= n(f[q])
      BY <1>1
  <2>. QED  BY <1>5, <2>1, <2>2
<1>8. \E q \in b .. c - 1 : n(t) = n(f[q])
  <2>1. CASE n(t) = n(r)
      BY <1>3, <1>6, <2>1
  <2>2. CASE n(t) = n(s)
      BY <1>6, <2>2
  <2>. QED  BY <1>1, <2>1, <2>2
<1>. QED  BY <1>2, <1>7, <1>8 DEF Least, n, t

\* Where the blocks of a row that begins at 0 lie.
LEMMA InRow ==
  ASSUME NEW w, NEW f, NEW l, Row(w, f, l), f.pos = 0
  PROVE  /\ \A z \in BlocksOf(w) : GoodBlock(z) /\ end(z) <= end(l)
         /\ \A z \in BlocksOf(Front(w)) : z \in BlocksOf(w) /\ end(z) <= Last(w).pos
<1> DEFINE n == Len(w)
<1>1. /\ IsVector(w) /\ n \in Nat \ {0} /\ Last(w) = w[n] /\ end(w[n]) = end(l)
      /\ w \in Seq(Blocks) /\ w # <<>> /\ GoodBlock(w[n])
    BY RowIsVector, LastOfRow DEF Row, Consecutive
<1>2. Len(Front(w)) = n - 1 /\ \A i \in 1 .. n - 1 : Front(w)[i] = w[i]
    BY <1>1, FrontAndLast
<1>3. \A i \in 1 .. n - 1 : i \in 1 .. n /\ n \in 1 .. n /\ i < n
    BY <1>1
<1>4. \A i \in 1 .. n - 1 : GoodBlock(w[i]) /\ end(w[i]) <= w[n].pos
    BY <1>1, <1>3, BlocksInOrder, VectorBlocks
<1>5. /\ w[n].pos \in Nat /\ end(w[n]) \in Nat /\ w[n].pos < end(w[n])
    BY <1>1 DEF GoodBlock, Blocks, end
<1>6. \A z \in BlocksOf(Front(w)) : z \in BlocksOf(w) /\ end(z) <= w[n].pos
  <2>1. \A z \in BlocksOf(Front(w)) : \E i \in 1 .. n - 1 : z = w[i]
      BY <1>2 DEF BlocksOf
  <2>. QED  BY <1>3, <1>4, <2>1 DEF BlocksOf
<1>7. ASSUME NEW z \in BlocksOf(w)  PROVE GoodBlock(z) /\ end(z) <= end(l)
  <2>1. PICK i \in 1 .. n : z = w[i]
      BY DEF BlocksOf
  <2>2. CASE i = n
      BY <1>1, <1>5, <2>1, <2>2
  <2>3. CASE i # n
    <3>1. i \in 1 .. n - 1
        BY <1>1, <2>3
    <3>2. GoodBlock(z) /\ end(z) <= w[n].pos
        BY <1>4, <2>1, <3>1
    <3>3. end(z) \in Nat
        BY <3>2 DEF GoodBlock, Blocks, end
    <3>. QED  BY <1>1, <1>5, <3>2, <3>3
  <2>. QED  BY <2>2, <2>3
<1>. QED  BY <1>1, <1>6, <1>7

\* The statuses of a block that is the least processed one of unfinished positions,
\* or finished.
LEMMA LeastFinished ==
  ASSUME NEW f, NEW d, NEW m, NEW p, NEW s, Least(s, f, d, m, p), p \in Nat,
         m \in Nat, \A q \in 0 .. m - 1 : f[q] \in Status
  PROVE  s = "finished" <=> f[p] = "finished"
<1>1. CASE f[p] = "finished"
    BY <1>1 DEF Least
<1>2. CASE f[p] # "finished"
  <2>1. PICK q \in Linked(f, d, m, p) : processed_state[s] = processed_state[f[q]]
      BY <1>2 DEF Least
  <2>2. q \in 0 .. m - 1 /\ Together(f, p, q)
      BY DEF Linked
  <2>3. f[q] # "finished"
    <3>1. (p <= q /\ q <= q) \/ (q <= q /\ q <= p)
        BY <2>2
    <3>2. q \in Nat
        BY <2>2
    <3>. QED  BY <2>2, <3>1, <3>2 DEF Together
  <2>4. processed_state[f[q]] # processed_state["finished"]
      BY <2>2, <2>3, Ranks
  <2>. QED  BY <1>2, <2>1, <2>4
<1>. QED  BY <1>1, <1>2

\* A block more that is appended: nothing links its positions with those before.
LEMMA AppendedIsLeast ==
  ASSUME NEW w, NEW f, NEW l, Row(w, f, l), f.pos = 0,
         NEW x, GoodBlock(x), x.pos = end(l),
         NEW g, NEW d \in [Nat -> Nat], \A p, q \in Nat : p <= q => d[p] <= d[q],
         \A z \in BlocksOf(w) : LeastOf(z, g, d, x.pos),
         \A p \in x.pos .. end(x) - 1 : g[p] = x.st,
         d[x.pos - 1] # d[x.pos] \/ g[x.pos - 1] = "finished" \/ g[x.pos] = "finished"
  PROVE  \A z \in BlocksOf(w) \cup {x} : LeastOf(z, g, d, end(x))
<1> DEFINE m == x.pos
           e == end(x)
<1>1. m \in Nat /\ e \in Nat /\ m < e /\ x.st \in Status
    BY DEF GoodBlock, Blocks, end
<1>2. 0 < m
  <2>1. GoodBlock(Last(w)) /\ end(Last(w)) = m
      BY LastOfRow
  <2> DEFINE y == Last(w)
  <2> HIDE DEF y
  <2>2. GoodBlock(y) /\ end(y) = m
      BY <2>1 DEF y
  <2>. QED  BY <1>1, <2>2 DEF GoodBlock, Blocks, end
<1> HIDE DEF m, e
<1>3. d[m - 1] # d[m] \/ g[m - 1] = "finished" \/ g[m] = "finished"
    BY DEF m
<1>4. /\ \A p \in 0 .. m - 1 : Linked(g, d, e, p) = Linked(g, d, m, p)
      /\ \A p \in m .. e - 1 : Linked(g, d, e, p) \in SUBSET (m .. e - 1)
    BY <1>1, <1>2, <1>3, NothingLinked
<1>5. ASSUME NEW z \in BlocksOf(w)  PROVE LeastOf(z, g, d, e)
  <2>1. GoodBlock(z) /\ end(z) <= m
      BY InRow DEF m
  <2>2. z.pos \in Nat /\ end(z) \in Nat
      BY <2>1 DEF GoodBlock, Blocks, end
  <2>3. ASSUME NEW p \in Nat, z.pos <= p, p < end(z)  PROVE Least(z.st, g, d, e, p)
    <3>1. p \in 0 .. m - 1
        BY <1>1, <2>1, <2>2, <2>3
    <3>2. Least(z.st, g, d, m, p)
        BY <2>3 DEF LeastOf, m
    <3>. QED  BY <1>4, <3>1, <3>2, LeastSame
  <2>. QED  BY <2>3 DEF LeastOf
<1>6. LeastOf(x, g, d, e)
  <2>1. Apart(x, g, d)
      BY <1>3 DEF Apart, m
  <2>2. \A p \in m .. e - 1 : g[p] = x.st
      BY DEF m, e
  <2>3. ASSUME NEW p \in m .. e - 1  PROVE Least(x.st, g, d, e, p)
    <3>1. p \in 0 .. e - 1 /\ \A q \in Linked(g, d, e, p) : g[q] = x.st
        BY <1>1, <1>4, <2>2
    <3>. QED  BY <1>1, <2>2, <3>1, LeastAlone
  <2>4. \A p \in Nat : x.pos <= p /\ p < end(x) => p \in m .. e - 1
      BY <1>1 DEF m, e
  <2>. QED  BY <2>1, <2>3, <2>4 DEF LeastOf
<1>. QED  BY <1>5, <1>6 DEF e

\* Blocks made of the last one and one more, where these meet inside a sector.
LEMMA LinkedIsLeast ==
  ASSUME NEW g, NEW a \in Nat \ {0}, NEW d, NEW m, NEW e, NEW G, NEW h, NEW b, NEW c,
         NEW y, GoodBlock(y), m = end(y), y.st # "finished",
         NEW s \in Status, s # "finished",
         Meets(d, a, y.pos, m, e, G, h, b, c),
         LeastOf(y, g, d, m),
         \A q \in 0 .. e - 1 : g[q] \in Status,
         \A q \in m .. e - 1 : g[q] = s
  PROVE  /\ \A p \in 0 .. y.pos - 1 : Linked(g, d, e, p) = Linked(g, d, m, p)
         /\ \A p \in y.pos .. e - 1 :
              Least(IF p < b THEN y.st ELSE IF p < c THEN Lesser(y.st, s) ELSE s, g, d, e, p)
<1>1. /\ y.pos \in Nat /\ m \in Nat /\ e \in Nat /\ b \in Nat /\ c \in Nat
      /\ y.pos < m /\ m < e /\ y.pos <= b /\ b < m /\ m < c /\ c <= e
    BY MeetsAt
<1>2. \A p \in Nat : y.pos <= p /\ p < m => Least(y.st, g, d, m, p)
    BY DEF LeastOf
<1>3. y.st \in Status
    BY DEF GoodBlock, Blocks
<1>4. \A q \in 0 .. m - 1 : g[q] \in Status
    BY <1>1
<1>5. \A p \in y.pos .. e - 1 : g[p] # "finished"
  <2>1. ASSUME NEW p \in y.pos .. m - 1  PROVE g[p] # "finished"
    <3>1. p \in Nat /\ Least(y.st, g, d, m, p)
        BY <1>1, <1>2
    <3>. QED  BY <1>1, <1>4, <3>1, LeastFinished
  <2>2. \A p \in y.pos .. e - 1 : p \in y.pos .. m - 1 \/ p \in m .. e - 1
      BY <1>1
  <2>. QED  BY <2>1, <2>2
<1>6. y.pos = 0 \/ d[y.pos - 1] # d[y.pos] \/ g[y.pos - 1] = "finished"
  <2>1. g[y.pos] # "finished"
      BY <1>1, <1>5
  <2>. QED  BY <2>1 DEF LeastOf, Apart
<1>7. /\ \A p \in b .. c - 1 : Linked(g, d, e, p) = b .. c - 1
      /\ \A p \in 0 .. b - 1 : Linked(g, d, e, p) = Linked(g, d, m, p)
      /\ \A p \in c .. e - 1 : Linked(g, d, e, p) \in SUBSET (c .. e - 1)
      /\ Linked(g, d, m, m - 1) = b .. m - 1
  <2> DEFINE k == y.pos
  <2>1. Meets(d, a, k, m, e, G, h, b, c) /\ \A p \in k .. e - 1 : g[p] # "finished"
      BY <1>5
  <2>2. k = 0 \/ d[k - 1] # d[k] \/ g[k - 1] = "finished"
      BY <1>6
  <2> HIDE DEF k
  <2>. QED  BY <2>1, <2>2, SectorLinked
<1>8. ASSUME NEW p \in y.pos .. b - 1  PROVE Least(y.st, g, d, e, p)
  <2>1. p \in 0 .. b - 1 /\ p \in Nat /\ y.pos <= p /\ p < m
      BY <1>1
  <2>. QED  BY <1>2, <1>7, <2>1, LeastSame
<1>9. ASSUME NEW p \in b .. c - 1  PROVE Least(Lesser(y.st, s), g, d, e, p)
  <2>1. Least(y.st, g, d, m, m - 1)
      BY <1>1, <1>2
  <2>2. \A q \in m .. c - 1 : g[q] = s
      BY <1>1
  <2>3. \A q \in b .. c - 1 : g[q] # "finished"
      BY <1>1, <1>5
  <2>4. /\ m \in Nat /\ e \in Nat /\ b \in Nat /\ c \in Nat /\ b < m /\ m < c /\ c <= e
        /\ Linked(g, d, m, m - 1) = b .. m - 1 /\ Linked(g, d, e, p) = b .. c - 1
      BY <1>1, <1>7
  <2> DEFINE r == y.st
  <2>5. r \in Status /\ Least(r, g, d, m, m - 1)
      BY <1>3, <2>1
  <2> HIDE DEF r
  <2>6. Least(Lesser(r, s), g, d, e, p)
      BY <2>2, <2>3, <2>4, <2>5, LeastOfParts
  <2>. QED  BY <2>6 DEF r
<1>10. ASSUME NEW p \in c .. e - 1  PROVE Least(s, g, d, e, p)
  <2>1. p \in 0 .. e - 1 /\ g[p] = s /\ \A q \in Linked(g, d, e, p) : g[q] = s
      BY <1>1, <1>7
  <2>. QED  BY <1>1, <2>1, LeastAlone
<1>11. \A p \in 0 .. y.pos - 1 : Linked(g, d, e, p) = Linked(g, d, m, p)
  <2>1. \A p \in 0 .. y.pos - 1 : p \in 0 .. b - 1
      BY <1>1
  <2>. QED  BY <1>7, <2>1
<1>12. ASSUME NEW p \in y.pos .. e - 1
      PROVE  Least(IF p < b THEN y.st ELSE IF p < c THEN Lesser(y.st, s) ELSE s, g, d, e, p)
  <2>1. CASE p < b
    <3>1. p \in y.pos .. b - 1
        BY <1>1, <2>1
    <3>. QED  BY <1>8, <2>1, <3>1
  <2>2. CASE ~(p < b) /\ p < c
    <3>1. p \in b .. c - 1
        BY <1>1, <2>2
    <3>. QED  BY <1>9, <2>2, <3>1
  <2>3. CASE ~(p < b) /\ ~(p < c)
    <3>1. p \in c .. e - 1
        BY <1>1, <2>3
    <3>. QED  BY <1>10, <2>3, <3>1
  <2>. QED  BY <2>1, <2>2, <2>3
<1>. QED  BY <1>11, <1>12

\* Block x, behind the row w, begins inside a sector, and neither it nor the last
\* block of w is finished: what becomes of them.
Inside(w, f, l, x, a, d, G, h, b, c) ==
  LET y == Last(w)
  IN  /\ Row(w, f, l) /\ GoodBlock(x) /\ x.pos = end(l) /\ "finished" \notin {y.st, x.st}
      /\ Meets(d, a, y.pos, end(y), end(x), G, h, b, c)
JoinedInside(w, x, a, d, b, c) ==
  LET y == Last(w)
  IN  \E r : /\ JoinSubsector(w, x, a) = Front(w) \o r
             /\ Row(r, y, x)
             /\ Parts(BlocksOf(r), d, y.pos, end(x), b, c, y.st, Lesser(y.st, x.st), x.st)

LEMMA JoinedPartsInside ==
  ASSUME NEW a \in Nat \ {0}, NEW w, NEW f, NEW l, NEW x, NEW d, NEW G, NEW h, NEW b, NEW c,
         Inside(w, f, l, x, a, d, G, h, b, c)
  PROVE  JoinedInside(w, x, a, d, b, c)
<1> DEFINE y == Last(w)
           m == end(y)
           e == end(x)
           t == Lesser(y.st, x.st)
<1>1. Row(w, f, l) /\ GoodBlock(x) /\ x.pos = end(l)
    BY Zenon DEF Inside
<1>2. "finished" \notin {y.st, x.st} /\ Meets(d, a, y.pos, m, e, G, h, b, c)
    BY Zenon DEF Inside
<1>3. y = Last(w) /\ m = end(y) /\ e = end(x) /\ t = Lesser(y.st, x.st)
    OBVIOUS
<1> HIDE DEF y, m, e, t
<1>4. \E r : /\ JoinSubsector(w, x, a) = Front(w) \o r
             /\ Row(r, y, x)
             /\ Parts(BlocksOf(r), d, y.pos, e, b, c, y.st, t, x.st)
    BY Zenon, <1>1, <1>2, <1>3, JoinedParts
<1>. QED  BY Zenon, <1>4 DEF JoinedInside, y, m, e, t

\* One step of join_subsectors keeps that every block has the least processed status
\* of what is linked to its positions.
LEMMA JoinIsLeast ==
  ASSUME NEW w, NEW f, NEW l, Row(w, f, l), f.pos = 0,
         NEW x, GoodBlock(x), x.pos = end(l), NEW a \in Nat \ {0}, NEW g,
         \A q \in 0 .. end(x) - 1 : g[q] \in Status,
         \A q \in x.pos .. end(x) - 1 : g[q] = x.st,
         \A z \in BlocksOf(w) : LeastOf(z, g, SectorsOf(a), x.pos)
  PROVE  LET r == JoinSubsector(w, x, a)
         IN  \A z \in BlocksOf(r) : LeastOf(z, g, SectorsOf(a), end(x))
<1> DEFINE y    == Last(w)
           m    == x.pos
           e    == end(x)
           d    == SectorsOf(a)
           rest == m % a
           J    == JoinSubsector(w, x, a)
<1>1. /\ GoodBlock(y) /\ end(y) = m /\ y \in BlocksOf(w) /\ w # <<>>
    BY LastOfRow DEF Row
<1>2. /\ m \in Nat /\ e \in Nat /\ m < e /\ x.st \in Status
    BY DEF GoodBlock, Blocks, end
<1>3. y.pos \in Nat /\ y.pos < m /\ y.st \in Status
  <2> HIDE DEF y, m
  <2>. QED  BY <1>1 DEF GoodBlock, Blocks, end
<1>4. rest \in 0 .. a - 1 /\ HasSector(d, m - rest, m - rest + a)
    BY <1>2, SectorBounds, TheSector
<1>5. d \in [Nat -> Nat] /\ \A p, q \in Nat : p <= q => d[p] <= d[q]
    BY <1>4 DEF HasSector
<1> HIDE DEF y, d
<1>6. CASE rest = 0 \/ "finished" \in {y.st, x.st}
  <2>1. J = Append(w, x)
      BY <1>1, <1>6 DEF JoinSubsector, y
  <2>2. BlocksOf(Append(w, x)) = BlocksOf(w) \cup {x}
      BY AppendToRow
  <2>3. d[m - 1] # d[m] \/ g[m - 1] = "finished" \/ g[m] = "finished"
    <3>1. CASE rest = 0
      <4>1. HasSector(d, m, m + a)
        <5> HIDE DEF rest, m
        <5>. QED  BY <1>2, <1>4, <3>1
      <4>2. m - 1 \in Nat /\ ~(m <= m - 1)
          BY <1>2, <1>3
      <4>. QED  BY <4>1, <4>2 DEF HasSector
    <3>2. CASE x.st = "finished"
        BY <1>2, <3>2
    <3>3. CASE y.st = "finished"
      <4>1. m - 1 \in Nat /\ y.pos <= m - 1 /\ m - 1 < end(y)
          BY <1>1, <1>2, <1>3
      <4>2. Least(y.st, g, d, m, m - 1)
          BY <1>1, <4>1 DEF LeastOf, d
      <4>3. \A q \in 0 .. m - 1 : g[q] \in Status
          BY <1>2
      <4>. QED  BY <1>2, <3>3, <4>1, <4>2, <4>3, LeastFinished
    <3>. QED  BY <1>6, <3>1, <3>2, <3>3
  <2>4. \A z \in BlocksOf(w) : LeastOf(z, g, d, x.pos)
      BY DEF d
  <2>5. \A z \in BlocksOf(w) \cup {x} : LeastOf(z, g, d, e)
      BY <1>5, <2>3, <2>4, AppendedIsLeast
  <2>. QED  BY <2>1, <2>2, <2>5 DEF d
<1>7. CASE rest # 0 /\ "finished" \notin {y.st, x.st}
  <2> DEFINE G == m - rest
             h == G + a
             b == IF G <= y.pos THEN y.pos ELSE G
             c == IF h <= e THEN h ELSE e
             t == Lesser(y.st, x.st)
             has(k) == IF k < b THEN y.st ELSE IF k < c THEN t ELSE x.st
  <2>1. Meets(d, a, y.pos, m, e, G, h, b, c)
      BY <1>2, <1>3, <1>4, <1>7 DEF Meets
  <2> HIDE DEF G, h, b, c, t
  <2>2. PICK r : /\ J = Front(w) \o r
                 /\ Row(r, y, x)
                 /\ Parts(BlocksOf(r), d, y.pos, e, b, c, y.st, t, x.st)
    <3>1. y = Last(w) /\ "finished" \notin {y.st, x.st}
        BY Zenon, <1>7 DEF y
    <3>2. Inside(w, f, l, x, a, d, G, h, b, c)
        BY Zenon, <1>1, <2>1, <3>1 DEF Inside
    <3>3. JoinedInside(w, x, a, d, b, c)
        BY Zenon, <3>2, JoinedPartsInside
    <3>4. \E r : /\ J = Front(w) \o r
                 /\ Row(r, y, x)
                 /\ Parts(BlocksOf(r), d, y.pos, e, b, c, y.st, t, x.st)
        BY Zenon, <3>1, <3>3 DEF JoinedInside, t
    <3>. QED  BY Zenon, <3>4
  <2>3. LeastOf(y, g, d, m)
      BY <1>1 DEF d
  <2>4. /\ \A p \in 0 .. y.pos - 1 : Linked(g, d, e, p) = Linked(g, d, m, p)
        /\ \A p \in y.pos .. e - 1 : Least(has(p), g, d, e, p)
    <3> DEFINE s == x.st
    <3>1. /\ m = end(y) /\ y.st # "finished" /\ s \in Status /\ s # "finished"
          /\ \A q \in 0 .. e - 1 : g[q] \in Status
          /\ \A q \in m .. e - 1 : g[q] = s
        BY <1>1, <1>2, <1>7
    <3>2. t = Lesser(y.st, s)
        BY DEF t
    <3> HIDE DEF s, m, e
    <3>3. /\ \A p \in 0 .. y.pos - 1 : Linked(g, d, e, p) = Linked(g, d, m, p)
          /\ \A p \in y.pos .. e - 1 :
               Least(IF p < b THEN y.st ELSE IF p < c THEN Lesser(y.st, s) ELSE s, g, d, e, p)
        BY <1>1, <2>1, <2>3, <3>1, LinkedIsLeast
    <3>. QED  BY Zenon, <3>2, <3>3 DEF s
  <2>8. \A z \in BlocksOf(r) :
          /\ GoodBlock(z) /\ y.pos <= z.pos /\ end(z) <= e
          /\ z.pos = y.pos \/ (z.pos # 0 /\ d[z.pos - 1] # d[z.pos])
          /\ \A k \in Nat : z.pos <= k /\ k < end(z) => z.st = has(k)
      BY Zenon, <2>2 DEF Parts
  <2>5. BlocksOf(J) = BlocksOf(Front(w)) \cup BlocksOf(r)
      BY <2>2, RowWithNewEnd DEF y
  <2>6. ASSUME NEW z \in BlocksOf(Front(w))  PROVE LeastOf(z, g, d, e)
    <3>1. z \in BlocksOf(w) /\ GoodBlock(z) /\ end(z) <= y.pos
        BY InRow DEF y
    <3>2. z.pos \in Nat /\ end(z) \in Nat
        BY <3>1 DEF GoodBlock, Blocks, end
    <3>3. LeastOf(z, g, d, m)
        BY <3>1 DEF d
    <3>4. ASSUME NEW p \in Nat, z.pos <= p, p < end(z)  PROVE Least(z.st, g, d, e, p)
      <4>1. p \in 0 .. y.pos - 1
          BY <1>3, <3>1, <3>2, <3>4
      <4>2. Least(z.st, g, d, m, p)
          BY <3>3, <3>4 DEF LeastOf
      <4>. QED  BY <2>4, <4>1, <4>2, LeastSame
    <3>. QED  BY <3>3, <3>4 DEF LeastOf
  <2>7. ASSUME NEW z \in BlocksOf(r)  PROVE LeastOf(z, g, d, e)
    <3> HIDE DEF has
    <3>1. z.pos \in Nat /\ end(z) \in Nat /\ y.pos <= z.pos /\ end(z) <= e
        BY <2>8 DEF GoodBlock, Blocks, end
    <3>2. Apart(z, g, d)
      <4>1. CASE z.pos = y.pos
        <5>1. Apart(y, g, d)
            BY <2>3 DEF LeastOf
        <5>. QED  BY <4>1, <5>1 DEF Apart
      <4>2. CASE d[z.pos - 1] # d[z.pos]
          BY <4>2 DEF Apart
      <4>. QED  BY <2>8, <4>1, <4>2
    <3>3. ASSUME NEW p \in Nat, z.pos <= p, p < end(z)  PROVE Least(z.st, g, d, e, p)
      <4>1. p \in y.pos .. e - 1
          BY <1>2, <1>3, <3>1, <3>3
      <4>2. z.st = has(p)
          BY <2>8, <3>3
      <4>. QED  BY <2>4, <4>1, <4>2
    <3>. QED  BY <3>2, <3>3 DEF LeastOf
  <2>. QED  BY <2>5, <2>6, <2>7 DEF d
<1>. QED  BY <1>6, <1>7

\* Joining the subsectors of a sector gives every block the least processed status of
\* what is linked to its positions, g being the status that each of them had.
LEMMA JoinIsLeastOfAll ==
  ASSUME NEW v, Consecutive(v), v # <<>>, v[1].pos = 0, NEW a \in Nat \ {0}, NEW g,
         \A q \in 0 .. end(v[Len(v)]) - 1 : g[q] \in Status,
         \A i \in 1 .. Len(v) : \A q \in Bytes(v[i]) : g[q] = v[i].st
  PROVE  \A z \in BlocksOf(join_subsectors(v, a)) :
           LeastOf(z, g, SectorsOf(a), end(v[Len(v)]))
<1> DEFINE n == Len(v)
           d == SectorsOf(a)
<1>1. /\ v \in Seq(Blocks) /\ n \in Nat /\ n # 0 /\ DOMAIN v = 1 .. n
      /\ \A i \in 1 .. n : GoodBlock(v[i]) /\ (i > 1 => v[i].pos = end(v[i - 1]))
      /\ IsVector(v)
    BY GoodBlocks DEF IsVector
<1>2. v \in Seq(Loose)
  <2>1. \A i \in 1 .. n : v[i] \in Loose
    <3>1. ASSUME NEW i \in 1 .. n  PROVE  v[i] \in Loose
      <4>1. v[i] \in Blocks
          BY <1>1 DEF GoodBlock
      <4>. QED  BY <4>1 DEF Loose, Blocks
    <3>. QED  BY <3>1
  <2>2. v = [i \in 1 .. n |-> v[i]]
      BY <1>1
  <2>. QED  BY <1>1, <2>1, <2>2
<1>3. PICK F : /\ F[0] = <<>>
               /\ \A k \in 1 .. n : F[k] = JoinSubsector(F[k - 1], v[k], a)
               /\ join_subsectors(v, a) = F[n]
    BY <1>2, JoinSteps
<1>4. \A i \in 1 .. n : \A q \in 0 .. end(v[i]) - 1 : g[q] \in Status
  <2>1. \A i \in 1 .. n : end(v[i]) \in Nat /\ end(v[i]) <= end(v[n]) /\ end(v[n]) \in Nat
    <3>1. n \in 1 .. n
        BY <1>1
    <3>2. \A i \in 1 .. n : v[i].pos \in Nat /\ end(v[i]) \in Nat /\ v[i].pos < end(v[i])
        BY <1>1, BlockTypes
    <3>3. ASSUME NEW i \in 1 .. n, i < n  PROVE  end(v[i]) <= v[n].pos
      <4>1. IsVector(v) /\ i \in 1 .. Len(v) /\ n \in 1 .. Len(v) /\ i < n
          BY Zenon, <1>1, <3>1, <3>3
      <4> HIDE DEF n
      <4>. QED  BY <4>1, BlocksInOrder
    <3>4. \A i \in 1 .. n : i < n \/ i = n
      <4>1. n \in Nat
          BY Zenon, <1>1
      <4> HIDE DEF n
      <4>. QED  BY <4>1
    <3>. QED  BY <3>1, <3>2, <3>3, <3>4
  <2>2. \A i \in 1 .. n : \A q \in 0 .. end(v[i]) - 1 : q \in 0 .. end(v[n]) - 1
      BY <2>1
  <2>. QED  BY <2>2
<1>5. \A i \in 1 .. n : \A q \in v[i].pos .. end(v[i]) - 1 : g[q] = v[i].st
    BY DEF Bytes
<1> HIDE DEF n, d
<1> DEFINE Good(k) == Row(F[k], v[1], v[k])
                      /\ \A z \in BlocksOf(F[k]) : LeastOf(z, g, d, end(v[k]))
           S == {k \in 0 .. n : k # 0 => Good(k)}
<1>6. Good(1)
  <2> DEFINE x == v[1]
             e == end(x)
  <2>1. 1 \in 1 .. n /\ 1 - 1 = 0
      BY <1>1
  <2>2. F[1] = JoinSubsector(<<>>, x, a)
      BY <1>3, <2>1
  <2>3. JoinSubsector(<<>>, x, a) = Append(<<>>, x)
      BY Zenon DEF JoinSubsector
  <2>4. GoodBlock(x) /\ x.pos = 0
      BY <1>1, <2>1
  <2>5. \A q \in 0 .. e - 1 : g[q] = x.st
      BY <1>5, <2>1, <2>4
  <2> HIDE DEF x
  <2>6. Row(<<x>>, x, x) /\ BlocksOf(<<x>>) = {x} /\ Append(<<>>, x) = <<x>>
      BY <2>4, OneBlock, BlocksOfOne
  <2>7. e \in Nat /\ x.st \in Status
      BY <2>4 DEF GoodBlock, Blocks, end
  <2> HIDE DEF e
  <2>8. ASSUME NEW p \in 0 .. e - 1  PROVE Least(x.st, g, d, e, p)
    <3>1. \A q \in Linked(g, d, e, p) : g[q] = x.st
        BY <2>5 DEF Linked
    <3>. QED  BY <2>5, <2>7, <3>1, LeastAlone
  <2>9. \A p \in Nat : x.pos <= p /\ p < e => p \in 0 .. e - 1
      BY <2>7
  <2>10. LeastOf(x, g, d, e)
      BY <2>4, <2>8, <2>9 DEF LeastOf, Apart, e
  <2>11. F[1] = <<x>>
      BY Zenon, <2>2, <2>3, <2>6
  <2>. QED  BY <2>6, <2>10, <2>11 DEF x, e
<1>7. ASSUME NEW k \in 1 .. n, k # 1, Good(k - 1)  PROVE  Good(k)
  <2> DEFINE x == v[k]
             l == v[k - 1]
             w == F[k - 1]
  <2>1. GoodBlock(x) /\ x.pos = end(l) /\ F[k] = JoinSubsector(w, x, a)
      BY <1>1, <1>3, <1>7
  <2>2. /\ \A q \in 0 .. end(x) - 1 : g[q] \in Status
        /\ \A q \in x.pos .. end(x) - 1 : g[q] = x.st
      BY <1>4, <1>5
  <2>3. Row(w, v[1], l) /\ \A z \in BlocksOf(w) : LeastOf(z, g, d, end(l))
      BY <1>7
  <2> HIDE DEF x, l, w
  <2>4. Row(JoinSubsector(w, x, a), v[1], x)
      BY <2>1, <2>3, JoinSubsectorStep
  <2>5. \A z \in BlocksOf(w) : LeastOf(z, g, SectorsOf(a), x.pos)
      BY Zenon, <2>1, <2>3 DEF d
  <2>6. \A z \in BlocksOf(JoinSubsector(w, x, a)) : LeastOf(z, g, SectorsOf(a), end(x))
    <3> DEFINE f == v[1]
    <3>1. Row(w, f, l) /\ f.pos = 0
        BY <2>3
    <3> HIDE DEF f
    <3>. QED  BY <2>1, <2>2, <2>5, <3>1, JoinIsLeast
  <2>. QED  BY <2>1, <2>4, <2>6 DEF x, d
<1>8. 0 \in S /\ \A k \in 1 .. n : k - 1 \in S => k \in S
  <2> HIDE DEF Good
  <2>1. 0 \in 0 .. n /\ \A k \in 1 .. n : k \in 0 .. n /\ (k # 1 => k - 1 # 0)
      BY <1>1
  <2>. QED  BY <1>6, <1>7, <2>1
<1>9. n \in S
  <2>1. n \in 0 .. n
      BY <1>1
  <2> HIDE DEF S
  <2>. QED  BY <1>1, <1>8, <2>1, StepByStep
<1>10. Good(n)
  <2> HIDE DEF Good
  <2>. QED  BY <1>1, <1>9
<1>. QED  BY <1>3, <1>10 DEF n, d

-----------------------------------------------------------------------------
(***************************************************************************)
(* split_by_borders: the walk along the blocks and the domain exists.      *)
(***************************************************************************)

\* What the walk stands at: the blocks left, and the number of a domain block.
Walks(v, d) == {w \in Seq(Blocks) : Len(w) <= Len(v)} \X (1 .. Len(d) + 1)

\* The walk is over, the domain block is behind, and what the first of the blocks
\* is split into at both borders of the domain block.
Over(d, x)   == x[1] = <<>> \/ x[2] > Len(d)
Behind(d, x) == before(d[x[2]], Head(x[1]))
AtPos(d, x)  == split(Head(x[1]), d[x[2]].pos)
AtEnd(d, x)  == split(AtPos(d, x).rest, end(d[x[2]]))
Short(d, x)  == AtEnd(d, x).rest.pos < end(d[x[2]])

\* Where the walk goes on.
NextDomain(x)   == <<x[1], x[2] + 1>>
NextBlock(x)    == <<Tail(x[1]), x[2]>>
SameBlock(d, x) == <<<<AtEnd(d, x).rest>> \o Tail(x[1]), x[2]>>

\* One step of it, g being the rest.
Walked(d, g, x) ==
  IF Over(d, x) THEN x[1]
  ELSE IF Behind(d, x) THEN g[NextDomain(x)]
  ELSE AtPos(d, x).off \o AtEnd(d, x).off \o
         IF Short(d, x) THEN <<AtEnd(d, x).rest>> \o g[NextBlock(x)]
         ELSE g[SameBlock(d, x)]

\* The steps that are left at most.
Left(d, x) ==
  2 * (Len(x[1]) + Len(d) + 1 - x[2]) + IF ~Over(d, x) /\ ~Behind(d, x) THEN 1 ELSE 0

LEMMA SplitTypes ==
  ASSUME NEW b \in Blocks, NEW p \in Nat
  PROVE  split(b, p).off \in Seq(Blocks) /\ split(b, p).rest \in Blocks
<1>1. b.pos \in Nat /\ b.size \in Nat /\ end(b) = b.pos + b.size
    BY DEF Blocks, end
<1>2. CASE strictly_includes(b, p)
  <2> DEFINE m == p - b.pos
             n == end(b) - p
             x == [b EXCEPT !.size = m]
             y == [b EXCEPT !.pos = p, !.size = n]
  <2>1. m \in Nat /\ n \in Nat
      BY <1>1, <1>2 DEF strictly_includes
  <2>2. split(b, p) = [off |-> <<x>>, rest |-> y]
      BY Zenon, <1>2 DEF split
  <2> HIDE DEF m, n
  <2>3. x \in Blocks /\ y \in Blocks
      BY <2>1 DEF Blocks
  <2> HIDE DEF x, y
  <2>4. split(b, p).off = <<x>> /\ split(b, p).rest = y
      BY <2>2
  <2>. QED  BY <2>3, <2>4
<1>3. CASE ~strictly_includes(b, p)
  <2>1. split(b, p) = [off |-> <<>>, rest |-> b]
      BY Zenon, <1>3 DEF split
  <2>2. split(b, p).off = <<>> /\ split(b, p).rest = b
      BY <2>1
  <2>3. <<>> \in Seq(Blocks)
      BY EmptySeq
  <2>. QED  BY <2>2, <2>3
<1>. QED  BY <1>2, <1>3

\* The first block of some, and the others.
LEMMA HeadAndTail ==
  ASSUME NEW S, NEW w \in Seq(S), w # <<>>
  PROVE  /\ Len(w) \in Nat \ {0} /\ Head(w) = w[1] /\ Head(w) \in S
         /\ Tail(w) \in Seq(S) /\ Len(Tail(w)) = Len(w) - 1
         /\ \A i \in 1 .. Len(w) - 1 : Tail(w)[i] = w[i + 1]
<1>1. Len(w) \in Nat \ {0}
    BY EmptySeq
<1>2. Head(w) = w[1] /\ Head(w) \in S
    BY <1>1, HeadTailProperties
<1>3. /\ Tail(w) \in Seq(S) /\ Len(Tail(w)) = Len(w) - 1
      /\ \A i \in 1 .. Len(Tail(w)) : Tail(w)[i] = w[i + 1]
    BY HeadTailProperties
<1>. QED  BY <1>1, <1>2, <1>3

\* Each step leaves less to do.
LEMMA WalkGoesOn ==
  ASSUME NEW v \in Seq(Blocks), NEW d, IsDomain(d), NEW x \in Walks(v, d)
  PROVE  /\ x = <<x[1], x[2]>> /\ x[1] \in Seq(Blocks) /\ Len(x[1]) \in Nat
         /\ x[2] \in 1 .. Len(d) + 1 /\ Len(d) \in Nat
         /\ Left(d, x) \in 0 .. 2 * (Len(v) + Len(d)) + 1
         /\ ~Over(d, x) =>
              /\ x[2] \in 1 .. Len(d) /\ x[1] # <<>> /\ Head(x[1]) \in Blocks
              /\ Behind(d, x) => NextDomain(x) \in Walks(v, d) /\ Left(d, NextDomain(x)) < Left(d, x)
              /\ AtPos(d, x).off \in Seq(Blocks) /\ AtPos(d, x).rest \in Blocks
              /\ AtEnd(d, x).off \in Seq(Blocks) /\ AtEnd(d, x).rest \in Blocks
              /\ ~Behind(d, x) =>
                   /\ NextBlock(x) \in Walks(v, d) /\ Left(d, NextBlock(x)) < Left(d, x)
                   /\ ~Short(d, x) => /\ SameBlock(d, x) \in Walks(v, d)
                                      /\ Left(d, SameBlock(d, x)) < Left(d, x)
<1> DEFINE w == x[1]
           j == x[2]
           n == Len(d)
           k == Len(w)
           flag(y) == IF ~Over(d, y) /\ ~Behind(d, y) THEN 1 ELSE 0
<1>1. /\ x = <<w, j>> /\ w \in Seq(Blocks) /\ k <= Len(v) /\ j \in 1 .. n + 1
    BY DEF Walks
<1>2. k \in Nat /\ n \in Nat /\ Len(v) \in Nat /\ j \in Nat
  <2>1. d \in Seq([pos : Nat, size : Nat])
      BY DEF IsDomain
  <2>. QED  BY <1>1, <2>1, LenProperties
<1>3. \A y : Left(d, y) = 2 * (Len(y[1]) + n + 1 - y[2]) + flag(y)
    BY Zenon DEF Left
<1>4. \A y : flag(y) \in {0, 1}
    OBVIOUS
<1> HIDE DEF flag, w, j, n, k
<1>5. Left(d, x) = 2 * (k + n + 1 - j) + flag(x)
    BY <1>3 DEF w, j, k
<1>6. Left(d, x) \in 0 .. 2 * (Len(v) + n) + 1
  <2> DEFINE f == flag(x)
  <2>1. f \in {0, 1} /\ Left(d, x) = 2 * (k + n + 1 - j) + f
      BY <1>4, <1>5
  <2> HIDE DEF f
  <2>2. 2 * (k + n + 1 - j) + f \in 0 .. 2 * (Len(v) + n) + 1
      BY <1>1, <1>2, <2>1
  <2>. QED  BY <2>1, <2>2
<1>7. ASSUME ~Over(d, x)
      PROVE  /\ j \in 1 .. n /\ w # <<>> /\ Head(w) \in Blocks
             /\ Behind(d, x) => NextDomain(x) \in Walks(v, d) /\ Left(d, NextDomain(x)) < Left(d, x)
             /\ AtPos(d, x).off \in Seq(Blocks) /\ AtPos(d, x).rest \in Blocks
             /\ AtEnd(d, x).off \in Seq(Blocks) /\ AtEnd(d, x).rest \in Blocks
             /\ ~Behind(d, x) =>
                  /\ NextBlock(x) \in Walks(v, d) /\ Left(d, NextBlock(x)) < Left(d, x)
                  /\ ~Short(d, x) => /\ SameBlock(d, x) \in Walks(v, d)
                                     /\ Left(d, SameBlock(d, x)) < Left(d, x)
  <2>1. j \in 1 .. n /\ w # <<>>
      BY <1>1, <1>2, <1>7 DEF Over, w, j, n
  <2>2. /\ k \in Nat \ {0} /\ Head(w) \in Blocks /\ Tail(w) \in Seq(Blocks) /\ Len(Tail(w)) = k - 1
      BY <1>1, <2>1, HeadAndTail DEF k
  <2>3. d[j].pos \in Nat /\ end(d[j]) \in Nat
      BY <2>1, DomainTypes DEF n
  <2>4. AtPos(d, x).off \in Seq(Blocks) /\ AtPos(d, x).rest \in Blocks
      BY <2>2, <2>3, SplitTypes DEF AtPos, w, j
  <2>5. AtEnd(d, x).off \in Seq(Blocks) /\ AtEnd(d, x).rest \in Blocks
      BY <2>3, <2>4, SplitTypes DEF AtEnd, j
  <2>6. NextDomain(x) \in Walks(v, d) /\ Left(d, NextDomain(x)) < Left(d, x)
    <3> DEFINE y == NextDomain(x)
    <3>1. y = <<w, j + 1>>
        BY Zenon DEF NextDomain, w, j
    <3>2. y[1] = w /\ y[2] = j + 1
        BY <3>1
    <3>3. j + 1 \in 1 .. n + 1
        BY <1>2, <2>1
    <3>4. y \in Walks(v, d)
        BY <1>1, <3>1, <3>3 DEF Walks, n, k
    <3> HIDE DEF y
    <3> DEFINE f == flag(x)
               g == flag(y)
    <3>5. f \in {0, 1} /\ g \in {0, 1} /\ Left(d, x) = 2 * (k + n + 1 - j) + f
          /\ Left(d, y) = 2 * (k + n + 1 - (j + 1)) + g
        BY <1>3, <1>4, <1>5, <3>2 DEF k
    <3> HIDE DEF f, g
    <3>6. 2 * (k + n + 1 - (j + 1)) + g < 2 * (k + n + 1 - j) + f
        BY <1>2, <3>5
    <3>7. Left(d, y) < Left(d, x)
        BY <3>5, <3>6
    <3>. QED  BY Zenon, <3>4, <3>7 DEF y
  <2>7. NextBlock(x) \in Walks(v, d) /\ Left(d, NextBlock(x)) < Left(d, x)
    <3> DEFINE y == NextBlock(x)
               t == Tail(w)
    <3>1. y = <<t, j>>
        BY Zenon DEF NextBlock, w, j
    <3> HIDE DEF t
    <3>2. y[1] = t /\ y[2] = j
        BY <3>1
    <3>3. t \in Seq(Blocks) /\ Len(t) = k - 1 /\ Len(t) <= Len(v)
        BY <1>1, <1>2, <2>2 DEF t
    <3>4. y \in Walks(v, d)
        BY <1>1, <3>1, <3>3 DEF Walks, n
    <3> HIDE DEF y
    <3> DEFINE f == flag(x)
               g == flag(y)
    <3>5. f \in {0, 1} /\ g \in {0, 1} /\ Left(d, x) = 2 * (k + n + 1 - j) + f
          /\ Left(d, y) = 2 * (k - 1 + n + 1 - j) + g
        BY <1>3, <1>4, <1>5, <3>2, <3>3
    <3> HIDE DEF f, g
    <3>6. 2 * (k - 1 + n + 1 - j) + g < 2 * (k + n + 1 - j) + f
        BY <1>2, <3>5
    <3>7. Left(d, y) < Left(d, x)
        BY <3>5, <3>6
    <3>. QED  BY Zenon, <3>4, <3>7 DEF y
  <2>8. ASSUME ~Behind(d, x), ~Short(d, x)
        PROVE  SameBlock(d, x) \in Walks(v, d) /\ Left(d, SameBlock(d, x)) < Left(d, x)
    <3> DEFINE y == SameBlock(d, x)
               b == AtEnd(d, x).rest
               t == <<b>> \o Tail(w)
    <3>1. y = <<t, j>>
        BY Zenon DEF SameBlock, w, j
    <3>2. t \in Seq(Blocks) /\ Len(t) = k /\ t # <<>> /\ t[1] = b
      <4> DEFINE c == <<b>>
                 z == Tail(w)
      <4>1. c \in Seq(Blocks) /\ Len(c) = 1 /\ c[1] = b
          BY <2>5
      <4>2. z \in Seq(Blocks) /\ Len(z) = k - 1
          BY <2>2
      <4> HIDE DEF c, z
      <4>3. /\ c \o z \in Seq(Blocks) /\ Len(c \o z) = Len(c) + Len(z)
            /\ \A i \in 1 .. Len(c) + Len(z) : (c \o z)[i] = IF i <= Len(c) THEN c[i] ELSE z[i - Len(c)]
          BY <4>1, <4>2, ConcatProperties
      <4>4. Len(c \o z) = k /\ (c \o z)[1] = b
        <5>1. 1 \in 1 .. Len(c) + Len(z) /\ 1 <= Len(c)
            BY <2>2, <4>1, <4>2
        <5>2. Len(c) + Len(z) = k
            BY <2>2, <4>1, <4>2
        <5>. QED  BY <4>1, <4>3, <5>1, <5>2
      <4>5. c \o z # <<>>
          BY <2>2, <4>4, EmptySeq
      <4>. QED  BY Zenon, <4>3, <4>4, <4>5 DEF c, z
    <3> HIDE DEF t, b
    <3>3. y[1] = t /\ y[2] = j
        BY <3>1
    <3>4. y \in Walks(v, d)
        BY <1>1, <3>1, <3>2 DEF Walks, n
    <3> HIDE DEF y
    <3>5. Behind(d, y)
      <4>1. ~(b.pos < end(d[j]))
          BY Zenon, <2>8 DEF Short, b, j
      <4>2. b.pos \in Nat
          BY <2>5 DEF Blocks, b
      <4>3. Head(t) = b
          BY <3>2, HeadAndTail
      <4>. QED  BY <2>3, <3>3, <4>1, <4>2, <4>3 DEF Behind, before
    <3>6. flag(x) = 1 /\ flag(y) = 0
        BY <1>7, <2>8, <3>5 DEF flag
    <3>7. Left(d, x) = 2 * (k + n + 1 - j) + 1 /\ Left(d, y) = 2 * (k + n + 1 - j) + 0
        BY <1>3, <1>5, <3>2, <3>3, <3>6
    <3>8. Left(d, y) < Left(d, x)
        BY <1>2, <3>7
    <3>. QED  BY Zenon, <3>4, <3>8 DEF y
  <2>. QED  BY Zenon, <2>1, <2>2, <2>4, <2>5, <2>6, <2>7, <2>8
<1>. QED  BY Zenon, <1>1, <1>2, <1>6, <1>7 DEF w, j, n, k

\* There is a function that takes every step of the walk: it is built up by the
\* number of steps that are left.
LEMMA WalkExists ==
  ASSUME NEW v \in Seq(Blocks), NEW d, IsDomain(d)
  PROVE  \E g \in [Walks(v, d) -> Seq(Blocks)] : \A x \in Walks(v, d) : g[x] = Walked(d, g, x)
<1> DEFINE W == Walks(v, d)
           Q == Seq(Blocks)
           M == 2 * (Len(v) + Len(d)) + 2
           P(k) == \E g \in [W -> Q] : \A x \in W : Left(d, x) < k => g[x] = Walked(d, g, x)
           S == {k \in 0 .. M : P(k)}
<1>1. /\ Len(v) \in Nat /\ Len(d) \in Nat /\ M \in Nat
      /\ \A x \in W : Left(d, x) \in Nat /\ Left(d, x) < M
  <2>1. Len(v) \in Nat /\ Len(d) \in Nat
      BY DomainTypes, LenProperties
  <2>2. ASSUME NEW x \in W  PROVE  Left(d, x) \in 0 .. 2 * (Len(v) + Len(d)) + 1
      BY WalkGoesOn
  <2>3. ASSUME NEW x \in W  PROVE  Left(d, x) \in Nat /\ Left(d, x) < M
    <3> DEFINE y == Left(d, x)
    <3>1. y \in 0 .. 2 * (Len(v) + Len(d)) + 1
        BY <2>2
    <3> HIDE DEF y
    <3>2. y \in Nat /\ y < M
        BY <2>1, <3>1
    <3>. QED  BY <3>2 DEF y
  <2>. QED  BY <2>1, <2>3
<1> HIDE DEF M
<1>2. P(0)
  <2> DEFINE g == [x \in W |-> <<>>]
  <2>1. g \in [W -> Q]
    <3>1. <<>> \in Q
        BY EmptySeq
    <3> HIDE DEF W, Q
    <3>. QED  BY <3>1
  <2>2. \A x \in W : ~(Left(d, x) < 0)
    <3> HIDE DEF W
    <3>. QED  BY <1>1
  <2> HIDE DEF g, W, Q
  <2>. QED  BY Zenon, <2>1, <2>2
<1>3. ASSUME NEW k \in 1 .. M, P(k - 1)  PROVE  P(k)
  <2>1. PICK g \in [W -> Q] : \A x \in W : Left(d, x) < k - 1 => g[x] = Walked(d, g, x)
      BY <1>3
  <2> DEFINE h == [x \in W |-> Walked(d, g, x)]
  <2>2. ASSUME NEW x \in W  PROVE  Walked(d, g, x) \in Q
    <3>1. CASE Over(d, x)
      <4>1. Walked(d, g, x) = x[1]
          BY Zenon, <3>1 DEF Walked
      <4>2. x[1] \in Q
          BY WalkGoesOn
      <4>. QED  BY Zenon, <4>1, <4>2
    <3>2. CASE ~Over(d, x) /\ Behind(d, x)
      <4>1. Walked(d, g, x) = g[NextDomain(x)]
          BY Zenon, <3>2 DEF Walked
      <4>2. NextDomain(x) \in W
          BY <3>2, WalkGoesOn
      <4> HIDE DEF W, Q
      <4>3. g[NextDomain(x)] \in Q
          BY <2>1, <4>2
      <4>. QED  BY Zenon, <4>1, <4>3
    <3>3. CASE ~Over(d, x) /\ ~Behind(d, x)
      <4> DEFINE a == AtPos(d, x).off
                 b == AtEnd(d, x).off
                 c == <<AtEnd(d, x).rest>>
                 y == NextBlock(x)
                 z == SameBlock(d, x)
      <4>1. Walked(d, g, x) = a \o b \o IF Short(d, x) THEN c \o g[y] ELSE g[z]
          BY Zenon, <3>3 DEF Walked
      <4>2. a \in Q /\ b \in Q /\ AtEnd(d, x).rest \in Blocks /\ y \in W /\ (~Short(d, x) => z \in W)
          BY <3>3, WalkGoesOn
      <4>3. c \in Q
          BY <4>2
      <4> HIDE DEF W, a, b, c, y, z
      <4>4. g[y] \in Q /\ (~Short(d, x) => g[z] \in Q)
          BY <2>1, <4>2
      <4>5. CASE Short(d, x)
        <5>1. a \o b \in Q /\ c \o g[y] \in Q
            BY <4>2, <4>3, <4>4, ConcatProperties
        <5>2. a \o b \o (c \o g[y]) \in Q
            BY <5>1, ConcatProperties
        <5>. QED  BY Zenon, <4>1, <4>5, <5>2
      <4>6. CASE ~Short(d, x)
        <5>1. a \o b \in Q /\ g[z] \in Q
            BY <4>2, <4>4, <4>6, ConcatProperties
        <5>2. a \o b \o g[z] \in Q
            BY <5>1, ConcatProperties
        <5>. QED  BY Zenon, <4>1, <4>6, <5>2
      <4>. QED  BY <4>5, <4>6
    <3>. QED  BY <3>1, <3>2, <3>3
  <2>3. h \in [W -> Q] /\ \A x \in W : h[x] = Walked(d, g, x)
    <3> HIDE DEF W, Q
    <3>. QED  BY <2>2
  <2> HIDE DEF h
  <2>4. ASSUME NEW x \in W, Left(d, x) < k  PROVE  Walked(d, g, x) = Walked(d, h, x)
    <3>0. ASSUME NEW y \in W, Left(d, y) < Left(d, x)  PROVE  h[y] = g[y]
      <4>1. Left(d, y) < k - 1
        <5>1. Left(d, y) \in Nat /\ Left(d, x) \in Nat
            BY <1>1
        <5>. QED  BY <2>4, <3>0, <5>1
      <4> HIDE DEF W
      <4>. QED  BY Zenon, <2>1, <2>3, <4>1
    <3>1. CASE Over(d, x)
        BY Zenon, <3>1 DEF Walked
    <3>2. CASE ~Over(d, x) /\ Behind(d, x)
      <4>1. NextDomain(x) \in W /\ Left(d, NextDomain(x)) < Left(d, x)
          BY <3>2, WalkGoesOn
      <4>2. h[NextDomain(x)] = g[NextDomain(x)]
          BY Zenon, <3>0, <4>1
      <4>. QED  BY Zenon, <3>2, <4>2 DEF Walked
    <3>3. CASE ~Over(d, x) /\ ~Behind(d, x)
      <4>1. NextBlock(x) \in W /\ Left(d, NextBlock(x)) < Left(d, x)
            /\ (~Short(d, x) => SameBlock(d, x) \in W /\ Left(d, SameBlock(d, x)) < Left(d, x))
          BY <3>3, WalkGoesOn
      <4>2. h[NextBlock(x)] = g[NextBlock(x)]
            /\ (~Short(d, x) => h[SameBlock(d, x)] = g[SameBlock(d, x)])
          BY Zenon, <3>0, <4>1
      <4>. QED  BY Zenon, <3>3, <4>2 DEF Walked
    <3>. QED  BY <3>1, <3>2, <3>3
  <2> HIDE DEF W, Q
  <2>5. \A x \in W : Left(d, x) < k => h[x] = Walked(d, h, x)
      BY Zenon, <2>3, <2>4
  <2>. QED  BY Zenon, <2>3, <2>5
<1>4. P(M)
  <2>1. 0 \in S /\ \A k \in 1 .. M : k - 1 \in S => k \in S
    <3> HIDE DEF P
    <3>1. 0 \in 0 .. M /\ \A k \in 1 .. M : k \in 0 .. M
        BY <1>1
    <3>. QED  BY <1>2, <1>3, <3>1
  <2>2. M \in 0 .. M
      BY <1>1
  <2>3. M \in S
    <3> HIDE DEF S
    <3>. QED  BY <1>1, <2>1, <2>2, StepByStep
  <2> HIDE DEF P
  <2>. QED  BY <2>3
<1> HIDE DEF W, Q
<1>5. PICK g \in [W -> Q] : \A x \in W : Left(d, x) < M => g[x] = Walked(d, g, x)
    BY Zenon, <1>4
<1>6. \A x \in W : g[x] = Walked(d, g, x)
    BY Zenon, <1>1, <1>5
<1>. QED  BY Zenon, <1>5, <1>6 DEF W, Q

\* split_by_borders is what that function makes of all the blocks.
LEMMA WalkUnfolds ==
  ASSUME NEW v \in Seq(Blocks), NEW d, IsDomain(d)
  PROVE  \E g : /\ split_by_borders(v, d) = g[<<v, 1>>]
                /\ \A x \in Walks(v, d) : g[x] = Walked(d, g, x)
<1> DEFINE W == Walks(v, d)
           g == CHOOSE f : f = [x \in W |-> Walked(d, f, x)]
<1>1. split_by_borders(v, d) = g[<<v, 1>>]
    BY Zenon DEF split_by_borders, Walks, Walked, Over, Behind, AtPos, AtEnd, Short,
                 NextDomain, NextBlock, SameBlock
<1>2. \E f : f = [x \in W |-> Walked(d, f, x)]
  <2>1. PICK f \in [W -> Seq(Blocks)] : \A x \in W : f[x] = Walked(d, f, x)
      BY WalkExists
  <2> HIDE DEF W
  <2>2. f = [x \in W |-> Walked(d, f, x)]
      BY Zenon, <2>1
  <2>. QED  BY <2>2
<1>3. g = [x \in W |-> Walked(d, g, x)]
  <2> HIDE DEF W
  <2>. QED  BY Zenon, <1>2
<1> HIDE DEF g, W
<1>4. \A x \in W : g[x] = Walked(d, g, x)
    BY Zenon, <1>3
<1>. QED  BY <1>1, <1>4 DEF W

-----------------------------------------------------------------------------
(***************************************************************************)
(* split_by_borders: what the walk makes of the blocks.                    *)
(***************************************************************************)

\* Consecutive blocks, or none, from p up to q.
Span(a, p, q) ==
  /\ Consecutive(a) /\ p \in Nat /\ q \in Nat
  /\ IF a = <<>> THEN p = q ELSE a[1].pos = p /\ end(a[Len(a)]) = q

LEMMA SpanIsRow ==
  ASSUME NEW a, a # <<>>, NEW p, NEW q, Span(a, p, q)
  PROVE  Row(a, a[1], a[Len(a)])
BY DEF Row, Span

LEMMA SpanNone == ASSUME NEW p \in Nat  PROVE  Span(<<>>, p, p) /\ BlocksOf(<<>>) = {}
<1>1. <<>> \in Seq(Blocks) /\ Len(<<>>) = 0 /\ DOMAIN <<>> = {} /\ 1 .. 0 = {}
    BY EmptySeq
<1>2. Consecutive(<<>>)
    BY <1>1 DEF Consecutive
<1>. QED  BY <1>1, <1>2 DEF Span, BlocksOf

LEMMA SpanOne ==
  ASSUME NEW x, GoodBlock(x)  PROVE  Span(<<x>>, x.pos, end(x)) /\ BlocksOf(<<x>>) = {x}
<1>1. Row(<<x>>, x, x)
    BY OneBlock
<1>2. x.pos \in Nat /\ end(x) \in Nat
    BY DEF GoodBlock, Blocks, end
<1>. QED  BY <1>1, <1>2, BlocksOfOne DEF Row, Span

LEMMA SpanBoth ==
  ASSUME NEW a, NEW b, NEW p, NEW q, NEW r, Span(a, p, q), Span(b, q, r)
  PROVE  Span(a \o b, p, r) /\ BlocksOf(a \o b) = BlocksOf(a) \cup BlocksOf(b)
<1>1. a \in Seq(Blocks) /\ b \in Seq(Blocks)
    BY DEF Span, Consecutive
<1>2. BlocksOf(a \o b) = BlocksOf(a) \cup BlocksOf(b)
    BY <1>1, ConcatBlocks
<1>3. CASE a = <<>>
  <2>1. a \o b = b /\ p = q
      BY <1>1, <1>3, ConcatEmptySeq DEF Span
  <2>. QED  BY Zenon, <1>2, <2>1
<1>4. CASE b = <<>>
  <2>1. a \o b = a /\ q = r
      BY <1>1, <1>4, ConcatEmptySeq DEF Span
  <2>. QED  BY Zenon, <1>2, <2>1
<1>5. CASE a # <<>> /\ b # <<>>
  <2> DEFINE f == a[1]
             m == a[Len(a)]
             x == b[1]
             y == b[Len(b)]
             c == a \o b
  <2>1. Row(a, f, m) /\ Row(b, x, y)
      BY <1>5, SpanIsRow
  <2>2. f.pos = p /\ x.pos = end(m) /\ end(y) = r /\ p \in Nat /\ r \in Nat
      BY <1>5 DEF Span
  <2> HIDE DEF f, m, x, y
  <2>3. Row(c, f, y)
      BY <2>1, <2>2, RowsInRow
  <2> HIDE DEF c
  <2>4. Span(c, p, r)
      BY <2>2, <2>3 DEF Row, Span
  <2>. QED  BY <1>2, <2>4 DEF c
<1>. QED  BY <1>3, <1>4, <1>5

\* The first of some blocks, and the others.
LEMMA SpanTail ==
  ASSUME NEW w, NEW p, NEW q, Span(w, p, q), w # <<>>
  PROVE  /\ GoodBlock(Head(w)) /\ Head(w).pos = p /\ Span(Tail(w), end(Head(w)), q)
         /\ BlocksOf(w) = {Head(w)} \cup BlocksOf(Tail(w))
<1> DEFINE n == Len(w)
           h == Head(w)
           t == Tail(w)
<1>1. w \in Seq(Blocks) /\ Consecutive(w)
    BY DEF Span, Consecutive
<1>2. /\ n \in Nat \ {0} /\ h = w[1] /\ t \in Seq(Blocks) /\ Len(t) = n - 1
      /\ \A i \in 1 .. n - 1 : t[i] = w[i + 1]
    BY <1>1, HeadAndTail
<1>3. \A i \in 1 .. n : GoodBlock(w[i]) /\ (i > 1 => w[i].pos = end(w[i - 1]))
    BY <1>1, GoodBlocks
<1>4. w[1].pos = p /\ end(w[n]) = q /\ p \in Nat /\ q \in Nat
    BY DEF Span
<1> HIDE DEF n, h, t
<1>5. GoodBlock(h) /\ h.pos = p /\ end(h) \in Nat
  <2>1. 1 \in 1 .. n
      BY <1>2
  <2>2. GoodBlock(h) /\ h.pos = p
      BY <1>2, <1>3, <1>4, <2>1
  <2>. QED  BY <2>2 DEF GoodBlock, Blocks, end
<1>6. {w[j] : j \in 1 .. n} = {h} \cup {t[j] : j \in 1 .. n - 1}
  <2>1. ASSUME NEW j \in 1 .. n  PROVE  w[j] \in {h} \cup {t[i] : i \in 1 .. n - 1}
    <3>1. CASE j = 1
        BY <1>2, <3>1
    <3>2. CASE j # 1
      <4>1. j - 1 \in 1 .. n - 1 /\ (j - 1) + 1 = j
          BY <1>2, <3>2
      <4>2. t[j - 1] = w[j]
          BY <1>2, <4>1
      <4>. QED  BY <4>1, <4>2
    <3>. QED  BY <3>1, <3>2
  <2>2. ASSUME NEW j \in 1 .. n - 1  PROVE  t[j] \in {w[i] : i \in 1 .. n}
    <3>1. j + 1 \in 1 .. n /\ t[j] = w[j + 1]
        BY <1>2
    <3>. QED  BY <3>1
  <2>3. h \in {w[i] : i \in 1 .. n}
    <3>1. 1 \in 1 .. n
        BY <1>2
    <3>. QED  BY <1>2, <3>1
  <2>. QED  BY <2>1, <2>2, <2>3
<1>7. Consecutive(t)
  <2>1. DOMAIN t = 1 .. n - 1
      BY <1>2, LenProperties
  <2>2. ASSUME NEW i \in 1 .. n - 1
        PROVE  t[i].size > 0 /\ end(t[i]) <= LLONG_MAX /\ (i > 1 => follows(t[i], t[i - 1]))
    <3>1. i + 1 \in 1 .. n /\ i + 1 > 1 /\ (i + 1) - 1 = i /\ t[i] = w[i + 1]
        BY <1>2
    <3>2. i > 1 => i - 1 \in 1 .. n - 1 /\ t[i - 1] = w[i]
      <4>1. i > 1 => i - 1 \in 1 .. n - 1 /\ (i - 1) + 1 = i
          BY <1>2
      <4>2. i > 1 => t[i - 1] = w[(i - 1) + 1]
          BY <1>2, <4>1
      <4>. QED  BY <4>1, <4>2
    <3>. QED  BY <1>3, <3>1, <3>2 DEF GoodBlock, follows
  <2>. QED  BY <1>2, <2>1, <2>2 DEF Consecutive
<1>8. Span(t, end(h), q)
  <2>1. CASE n = 1
    <3>1. t = <<>>
        BY <1>2, <2>1, EmptySeq
    <3>2. end(h) = q
        BY <1>2, <1>4, <2>1
    <3>. QED  BY <1>4, <1>5, <1>7, <3>1, <3>2 DEF Span
  <2>2. CASE n # 1
    <3>1. 1 \in 1 .. n - 1 /\ n - 1 \in 1 .. n - 1 /\ 2 \in 1 .. n /\ 2 > 1 /\ n - 1 # 0
        BY <1>2, <2>2
    <3>2. t[1] = w[2] /\ t[n - 1] = w[n] /\ t # <<>>
      <4>1. t[1] = w[1 + 1] /\ t[n - 1] = w[(n - 1) + 1]
          BY <1>2, <3>1
      <4>2. (n - 1) + 1 = n /\ 1 + 1 = 2
          BY <1>2
      <4>3. t # <<>>
          BY <1>2, <3>1, EmptySeq
      <4>. QED  BY Zenon, <4>1, <4>2, <4>3
    <3>3. w[2].pos = end(w[1])
      <4>1. w[2].pos = end(w[2 - 1])
          BY <1>3, <3>1
      <4>2. 2 - 1 = 1
          OBVIOUS
      <4>. QED  BY Zenon, <4>1, <4>2
    <3>. QED  BY <1>2, <1>4, <1>5, <1>7, <3>2, <3>3 DEF Span
  <2>. QED  BY <2>1, <2>2
<1>. QED  BY <1>2, <1>5, <1>6, <1>8 DEF BlocksOf, n, h, t

\* None of some blocks begins before the first of them.
LEMMA SpanBounds ==
  ASSUME NEW a, NEW p, NEW q, Span(a, p, q)
  PROVE  \A x \in BlocksOf(a) : GoodBlock(x) /\ p <= x.pos
<1> DEFINE n == Len(a)
           S == {k \in 0 .. n : k # 0 => p <= a[k].pos}
<1>1. /\ n \in Nat /\ \A i \in 1 .. n : GoodBlock(a[i]) /\ (i > 1 => a[i].pos = end(a[i - 1]))
    BY GoodBlocks DEF Span
<1>2. p \in Nat /\ \A i \in 1 .. n : a[i].pos \in Nat /\ end(a[i]) \in Nat /\ a[i].pos < end(a[i])
  <2>1. ASSUME NEW i \in 1 .. n  PROVE a[i].pos \in Nat /\ end(a[i]) \in Nat /\ a[i].pos < end(a[i])
    <3> DEFINE x == a[i]
    <3>1. GoodBlock(x)
        BY <1>1
    <3> HIDE DEF x
    <3>2. x.pos \in Nat /\ end(x) \in Nat /\ x.pos < end(x)
        BY <3>1 DEF GoodBlock, Blocks, end
    <3>. QED  BY <3>2 DEF x
  <2>. QED  BY <2>1 DEF Span
<1>3. n # 0 => a[1].pos = p
    BY EmptySeq DEF Span
<1> HIDE DEF n
<1>4. 0 \in S /\ \A k \in 1 .. n : k - 1 \in S => k \in S
  <2>1. 0 \in S
      BY <1>1
  <2>2. ASSUME NEW k \in 1 .. n, k - 1 \in S  PROVE k \in S
    <3>1. CASE k = 1
      <4>1. p <= a[1].pos /\ 1 \in 0 .. n
          BY <1>1, <1>2, <1>3, <3>1
      <4>. QED  BY <3>1, <4>1
    <3>2. CASE k # 1
      <4>1. k > 1 /\ k - 1 \in 1 .. n /\ k - 1 # 0 /\ k \in 0 .. n
          BY <1>1, <3>2
      <4>2. p <= a[k - 1].pos /\ a[k].pos = end(a[k - 1])
          BY <1>1, <2>2, <4>1
      <4>3. p <= a[k].pos
          BY <1>2, <4>1, <4>2
      <4>. QED  BY <4>1, <4>3
    <3>. QED  BY <3>1, <3>2
  <2>. QED  BY <2>1, <2>2
<1>5. \A k \in 0 .. n : k \in S
  <2> HIDE DEF S
  <2>. QED  BY <1>1, <1>4, StepByStep
<1>6. \A k \in 1 .. n : GoodBlock(a[k]) /\ p <= a[k].pos
  <2>1. \A k \in 1 .. n : k \in 0 .. n /\ k # 0
      BY <1>1
  <2>. QED  BY <1>1, <1>5, <2>1
<1>. QED  BY <1>6 DEF BlocksOf, n

\* split at any position.
LEMMA SplitAny ==
  ASSUME NEW x, GoodBlock(x), NEW p \in Nat
  PROVE  LET r == split(x, p)
         IN  IF strictly_includes(x, p)
             THEN /\ \E h : /\ r.off = <<h>> /\ GoodBlock(h)
                            /\ h.pos = x.pos /\ end(h) = p /\ h.st = x.st
                  /\ GoodBlock(r.rest) /\ r.rest.pos = p /\ end(r.rest) = end(x)
                  /\ r.rest.st = x.st
             ELSE r.off = <<>> /\ r.rest = x
<1>1. CASE strictly_includes(x, p)
  <2>1. x.pos \in Nat /\ end(x) \in Nat
      BY DEF GoodBlock, Blocks, end
  <2>2. x.pos < p /\ p < end(x) /\ x.pos <= p /\ p <= end(x)
      BY <1>1, <2>1 DEF strictly_includes
  <2>3. LET r == split(x, p)
        IN  /\ \E h : /\ r.off = <<h>> /\ GoodBlock(h)
                      /\ h.pos = x.pos /\ end(h) = p /\ h.st = x.st
            /\ GoodBlock(r.rest) /\ r.rest.pos = p /\ end(r.rest) = end(x)
            /\ r.rest.st = x.st
      BY <2>2, SplitBlock
  <2>. QED  BY Zenon, <1>1, <2>3
<1>2. CASE ~strictly_includes(x, p)
  <2>1. split(x, p) = [off |-> <<>>, rest |-> x]
      BY Zenon, <1>2 DEF split
  <2>2. split(x, p).off = <<>> /\ split(x, p).rest = x
      BY <2>1
  <2>. QED  BY Zenon, <1>2, <2>2
<1>. QED  BY <1>1, <1>2

\* No border of the domain, from its block j on, lies inside of a block.
SplitFrom(X, d, j) ==
  \A x \in X, k \in j .. Len(d) :
    ~strictly_includes(x, d[k].pos) /\ ~strictly_includes(x, end(d[k]))

\* A block split at one position: the part split off, if any, and the rest.
LEMMA SplitOff ==
  ASSUME NEW x, GoodBlock(x), NEW p \in Nat
  PROVE  LET a == split(x, p).off
             y == split(x, p).rest
         IN  /\ Span(a, x.pos, y.pos) /\ GoodBlock(y) /\ end(y) = end(x) /\ y.st = x.st
             /\ Same(BlocksOf(a) \cup {y}, {x})
             /\ \A b \in BlocksOf(a) : b.pos = x.pos /\ end(b) = p /\ p < end(x)
             /\ x.pos <= y.pos /\ ~strictly_includes(y, p)
             /\ y.pos = x.pos \/ y.pos = p
<1> DEFINE a == split(x, p).off
           y == split(x, p).rest
<1>1. x.pos \in Nat /\ end(x) \in Nat /\ x.pos < end(x)
    BY DEF GoodBlock, Blocks, end
<1>2. CASE strictly_includes(x, p)
  <2>1. (\E h : a = <<h>> /\ GoodBlock(h) /\ h.pos = x.pos /\ end(h) = p /\ h.st = x.st)
        /\ GoodBlock(y) /\ y.pos = p /\ end(y) = end(x) /\ y.st = x.st
      BY Zenon, <1>2, SplitAny
  <2> HIDE DEF a, y
  <2>2. PICK h : a = <<h>> /\ GoodBlock(h) /\ h.pos = x.pos /\ end(h) = p /\ h.st = x.st
      BY Zenon, <2>1
  <2>3. x.pos < p /\ p < end(x)
      BY <1>2 DEF strictly_includes
  <2>4. Span(<<h>>, h.pos, end(h)) /\ BlocksOf(<<h>>) = {h}
      BY <2>2, SpanOne
  <2>5. Span(a, x.pos, y.pos) /\ BlocksOf(a) = {h}
      BY Zenon, <2>1, <2>2, <2>4
  <2>6. Same({h, y}, {x})
    <3>1. Same({x}, {h, y})
        BY <2>1, <2>2, TwoParts
    <3>. QED  BY <3>1 DEF Same
  <2>7. BlocksOf(a) \cup {y} = {h, y}
      BY <2>5
  <2>8. ~strictly_includes(y, p)
      BY <2>1 DEF strictly_includes
  <2>9. /\ \A b \in BlocksOf(a) : b.pos = x.pos /\ end(b) = p /\ p < end(x)
        /\ x.pos <= y.pos
      BY <1>1, <2>1, <2>2, <2>3, <2>5
  <2>10. Same(BlocksOf(a) \cup {y}, {x})
      BY Zenon, <2>6, <2>7
  <2>. QED  BY Zenon, <2>1, <2>5, <2>8, <2>9, <2>10 DEF a, y
<1>3. CASE ~strictly_includes(x, p)
  <2>1. a = <<>> /\ y = x
      BY Zenon, <1>3, SplitAny
  <2> HIDE DEF a, y
  <2>2. Span(a, x.pos, y.pos) /\ BlocksOf(a) = {}
      BY <1>1, <2>1, SpanNone
  <2>3. BlocksOf(a) \cup {y} = {x} /\ Same({x}, {x})
      BY <2>1, <2>2, SameSets
  <2>4. x.pos <= y.pos
      BY <1>1, <2>1
  <2>. QED  BY <1>3, <2>1, <2>2, <2>3, <2>4 DEF a, y
<1>. QED  BY <1>2, <1>3

\* The first block split at both borders of a domain block.
LEMMA HeadIsSplit ==
  ASSUME NEW d, IsDomain(d), NEW x, ~Over(d, x), x[2] \in 1 .. Len(d), GoodBlock(Head(x[1]))
  PROVE  LET h == Head(x[1])
             j == x[2]
             r == AtEnd(d, x).rest
             w == AtPos(d, x).off \o AtEnd(d, x).off
         IN  /\ Span(w, h.pos, r.pos) /\ GoodBlock(r) /\ end(r) = end(h)
             /\ Same(BlocksOf(w) \cup {r}, {h})
             /\ SplitFrom(BlocksOf(w), d, j)
             /\ Short(d, x) => SplitFrom({r}, d, j)
<1> DEFINE h == Head(x[1])
           j == x[2]
           p == d[j].pos
           e == end(d[j])
           u == AtPos(d, x).off
           y == AtPos(d, x).rest
           t == AtEnd(d, x).off
           r == AtEnd(d, x).rest
<1>1. /\ p \in Nat /\ e \in Nat /\ p < e /\ Len(d) \in Nat /\ j \in 1 .. Len(d)
      /\ \A k \in 1 .. Len(d) : d[k].pos \in Nat /\ end(d[k]) \in Nat /\ d[k].pos < end(d[k])
    BY DomainTypes
<1>2. \A k \in j .. Len(d) : k = j \/ (k \in 1 .. Len(d) /\ e < d[k].pos)
  <2>1. ASSUME NEW k \in j .. Len(d), k # j  PROVE  k \in 1 .. Len(d) /\ e < d[k].pos
    <3>1. k \in 1 .. Len(d) /\ j < k
        BY <1>1, <2>1
    <3>. QED  BY <1>1, <3>1, DomainInOrder
  <2>. QED  BY <2>1
<1>3. AtPos(d, x) = split(h, p) /\ AtEnd(d, x) = split(y, e)
    BY Zenon DEF AtPos, AtEnd
<1> HIDE DEF h
<1>4. /\ Span(u, h.pos, y.pos) /\ GoodBlock(y) /\ end(y) = end(h) /\ y.st = h.st
      /\ Same(BlocksOf(u) \cup {y}, {h})
      /\ \A b \in BlocksOf(u) : b.pos = h.pos /\ end(b) = p /\ p < end(h)
      /\ h.pos <= y.pos /\ ~strictly_includes(y, p)
  <2>1. GoodBlock(h) /\ p \in Nat
      BY <1>1 DEF h
  <2> HIDE DEF p
  <2>2. /\ Span(split(h, p).off, h.pos, split(h, p).rest.pos) /\ GoodBlock(split(h, p).rest)
        /\ end(split(h, p).rest) = end(h) /\ split(h, p).rest.st = h.st
        /\ Same(BlocksOf(split(h, p).off) \cup {split(h, p).rest}, {h})
        /\ \A b \in BlocksOf(split(h, p).off) : b.pos = h.pos /\ end(b) = p /\ p < end(h)
        /\ h.pos <= split(h, p).rest.pos /\ ~strictly_includes(split(h, p).rest, p)
      BY Zenon, <2>1, SplitOff
  <2>. QED  BY Zenon, <1>3, <2>2
<1> HIDE DEF y, u
<1>5. /\ Span(t, y.pos, r.pos) /\ GoodBlock(r) /\ end(r) = end(y) /\ r.st = y.st
      /\ Same(BlocksOf(t) \cup {r}, {y})
      /\ \A b \in BlocksOf(t) : b.pos = y.pos /\ end(b) = e /\ e < end(y)
      /\ y.pos <= r.pos /\ ~strictly_includes(r, e)
      /\ r.pos = y.pos \/ r.pos = e
  <2>1. GoodBlock(y) /\ e \in Nat
      BY <1>1, <1>4
  <2> HIDE DEF e
  <2>2. /\ Span(split(y, e).off, y.pos, split(y, e).rest.pos) /\ GoodBlock(split(y, e).rest)
        /\ end(split(y, e).rest) = end(y) /\ split(y, e).rest.st = y.st
        /\ Same(BlocksOf(split(y, e).off) \cup {split(y, e).rest}, {y})
        /\ \A b \in BlocksOf(split(y, e).off) : b.pos = y.pos /\ end(b) = e /\ e < end(y)
        /\ y.pos <= split(y, e).rest.pos /\ ~strictly_includes(split(y, e).rest, e)
        /\ split(y, e).rest.pos = y.pos \/ split(y, e).rest.pos = e
      BY Zenon, <2>1, SplitOff
  <2>. QED  BY Zenon, <1>3, <2>2
<1>6. Short(d, x) <=> r.pos < e
    BY Zenon DEF Short
<1>7. /\ h.pos \in Nat /\ end(h) \in Nat /\ y.pos \in Nat /\ end(y) \in Nat /\ y.pos < end(y)
      /\ r.pos \in Nat /\ end(r) \in Nat /\ r.pos < end(r)
    BY <1>4, <1>5 DEF GoodBlock, Blocks, end, h
<1> HIDE DEF t, r, p, e, j
<1>8. Span(u \o t, h.pos, r.pos) /\ BlocksOf(u \o t) = BlocksOf(u) \cup BlocksOf(t)
    BY <1>4, <1>5, SpanBoth
<1>9. Same(BlocksOf(u \o t) \cup {r}, {h})
  <2>1. Same(BlocksOf(u) \cup (BlocksOf(t) \cup {r}), BlocksOf(u) \cup {y})
      BY <1>5, SameSets, SameUnions
  <2>2. Same(BlocksOf(u) \cup (BlocksOf(t) \cup {r}), {h})
      BY <1>4, <2>1, SameTransitive
  <2>3. BlocksOf(u) \cup (BlocksOf(t) \cup {r}) = BlocksOf(u \o t) \cup {r}
      BY Zenon, <1>8
  <2>. QED  BY Zenon, <2>2, <2>3
\* A block that ends where the domain block does, or before, and is not divided by
\* its position.
<1>10. ASSUME NEW b, b.pos \in Nat, end(b) \in Nat, end(b) <= e, ~strictly_includes(b, p)
       PROVE  \A k \in j .. Len(d) : ~strictly_includes(b, d[k].pos) /\ ~strictly_includes(b, end(d[k]))
  <2> SUFFICES ASSUME NEW k \in j .. Len(d)
               PROVE  ~strictly_includes(b, d[k].pos) /\ ~strictly_includes(b, end(d[k]))
      OBVIOUS
  <2>1. CASE k = j
    <3>1. d[k].pos = p /\ end(d[k]) = e
        BY Zenon, <2>1 DEF p, e
    <3>2. ~strictly_includes(b, e)
        BY <1>1, <1>10 DEF strictly_includes
    <3>. QED  BY Zenon, <1>10, <3>1, <3>2
  <2>2. CASE k # j
    <3>1. k \in 1 .. Len(d) /\ e < d[k].pos /\ d[k].pos \in Nat /\ end(d[k]) \in Nat /\ d[k].pos < end(d[k])
        BY <1>1, <1>2, <2>2
    <3>. QED  BY <1>1, <1>10, <3>1 DEF strictly_includes
  <2>. QED  BY <2>1, <2>2
<1>11. SplitFrom(BlocksOf(u \o t), d, j)
  <2>1. ASSUME NEW b \in BlocksOf(u)
        PROVE  b.pos \in Nat /\ end(b) \in Nat /\ end(b) <= e /\ ~strictly_includes(b, p)
    <3>1. b.pos = h.pos /\ end(b) = p
        BY <1>4
    <3>. QED  BY <1>1, <1>7, <3>1 DEF strictly_includes
  <2>2. ASSUME NEW b \in BlocksOf(t)
        PROVE  b.pos \in Nat /\ end(b) \in Nat /\ end(b) <= e /\ ~strictly_includes(b, p)
    <3>1. b.pos = y.pos /\ end(b) = e /\ e < end(y)
        BY <1>5
    <3>. QED  BY <1>1, <1>4, <1>7, <3>1 DEF strictly_includes
  <2>3. \A b \in BlocksOf(u \o t) : b \in BlocksOf(u) \/ b \in BlocksOf(t)
      BY <1>8
  <2>. QED  BY Zenon, <1>10, <2>1, <2>2, <2>3 DEF SplitFrom
<1>12. ASSUME Short(d, x)  PROVE SplitFrom({r}, d, j)
  <2>1. r.pos < e /\ r.pos = y.pos
      BY <1>1, <1>5, <1>6, <1>7, <1>12
  <2>2. end(r) <= e
      BY <1>1, <1>5, <1>7, <2>1 DEF strictly_includes
  <2>3. ~strictly_includes(r, p)
      BY <1>4, <1>5, <2>1 DEF strictly_includes
  <2>. QED  BY <1>7, <1>10, <2>2, <2>3 DEF SplitFrom
<1>. QED  BY Zenon, <1>4, <1>5, <1>8, <1>9, <1>11, <1>12 DEF h, j, u, t, r

\* What the walk makes of the blocks that are left: the same blocks, split at the
\* borders that are left.
Halved(a, w, p, q, d, j) ==
  Span(a, p, q) /\ Same(BlocksOf(a), BlocksOf(w)) /\ SplitFrom(BlocksOf(a), d, j)

LEMMA WalkStep ==
  ASSUME NEW v \in Seq(Blocks), NEW d, IsDomain(d), NEW g,
         \A x \in Walks(v, d) : g[x] = Walked(d, g, x),
         NEW x \in Walks(v, d), NEW p, NEW q, Span(x[1], p, q),
         \A y \in Walks(v, d), k \in Nat :
           Left(d, y) < Left(d, x) /\ Span(y[1], k, q) => Halved(g[y], y[1], k, q, d, y[2])
  PROVE  Halved(g[x], x[1], p, q, d, x[2])
<1> DEFINE w == x[1]
           j == x[2]
           n == Len(d)
           h == Head(w)
           t == Tail(w)
           u == AtPos(d, x).off \o AtEnd(d, x).off
           r == AtEnd(d, x).rest
<1>1. g[x] = Walked(d, g, x) /\ n \in Nat /\ j \in 1 .. n + 1 /\ p \in Nat /\ q \in Nat
  <2>1. g[x] = Walked(d, g, x)
      OBVIOUS
  <2>2. n \in Nat /\ j \in 1 .. n + 1
      BY WalkGoesOn
  <2>. QED  BY <2>1, <2>2 DEF Span
<1>2. CASE Over(d, x)
  <2>1. g[x] = w
      BY Zenon, <1>1, <1>2 DEF Walked
  <2>2. SplitFrom(BlocksOf(w), d, j)
    <3>1. CASE w = <<>>
      <4>1. BlocksOf(w) = {}
          BY <3>1, SpanNone
      <4>. QED  BY <4>1 DEF SplitFrom
    <3>2. CASE j > n
      <4>1. j .. n = {}
          BY <1>1, <3>2
      <4>. QED  BY Zenon, <4>1 DEF SplitFrom
    <3>. QED  BY <1>2, <3>1, <3>2 DEF Over
  <2>. QED  BY Zenon, <2>1, <2>2, SameSets DEF Halved
<1>3. CASE ~Over(d, x)
  <2>1. /\ j \in 1 .. n /\ w # <<>> /\ h \in Blocks
        /\ Behind(d, x) => NextDomain(x) \in Walks(v, d) /\ Left(d, NextDomain(x)) < Left(d, x)
        /\ AtPos(d, x).off \in Seq(Blocks) /\ AtEnd(d, x).off \in Seq(Blocks) /\ r \in Blocks
        /\ ~Behind(d, x) =>
             /\ NextBlock(x) \in Walks(v, d) /\ Left(d, NextBlock(x)) < Left(d, x)
             /\ ~Short(d, x) => /\ SameBlock(d, x) \in Walks(v, d)
                                /\ Left(d, SameBlock(d, x)) < Left(d, x)
      BY <1>3, WalkGoesOn
  <2>2. /\ GoodBlock(h) /\ h.pos = p /\ Span(t, end(h), q) /\ BlocksOf(w) = {h} \cup BlocksOf(t)
      BY <2>1, SpanTail
  <2>3. CASE Behind(d, x)
    <3> DEFINE y == NextDomain(x)
    <3>1. y[1] = w /\ y[2] = j + 1
        BY DEF NextDomain
    <3>2. g[x] = g[y]
        BY Zenon, <1>1, <1>3, <2>3 DEF Walked
    <3>3. y \in Walks(v, d) /\ Left(d, y) < Left(d, x)
        BY <2>1, <2>3
    <3> HIDE DEF y
    <3>4. Halved(g[y], y[1], p, q, d, y[2])
      <4>1. Span(y[1], p, q)
          BY Zenon, <3>1
      <4>. QED  BY Zenon, <1>1, <3>3, <4>1
    <3>5. Span(g[x], p, q) /\ Same(BlocksOf(g[x]), BlocksOf(w)) /\ SplitFrom(BlocksOf(g[x]), d, j + 1)
        BY Zenon, <3>1, <3>2, <3>4 DEF Halved
    <3>6. end(d[j]) <= p
        BY Zenon, <2>2, <2>3 DEF Behind, before
    <3>7. d[j].pos \in Nat /\ end(d[j]) \in Nat /\ d[j].pos < end(d[j])
        BY <2>1, DomainTypes
    <3> HIDE DEF j
    <3>8. ASSUME NEW b \in BlocksOf(g[x]), NEW k \in j .. n
          PROVE  ~strictly_includes(b, d[k].pos) /\ ~strictly_includes(b, end(d[k]))
      <4>1. CASE k = j
        <5>1. GoodBlock(b) /\ p <= b.pos
            BY <3>5, SpanBounds
        <5>2. b.pos \in Nat
            BY <5>1 DEF GoodBlock, Blocks
        <5>. QED  BY <1>1, <3>6, <3>7, <4>1, <5>1, <5>2 DEF strictly_includes
      <4>2. CASE k # j
        <5>1. k \in j + 1 .. n
            BY <1>1, <4>2
        <5>. QED  BY Zenon, <3>5, <5>1 DEF SplitFrom
      <4>. QED  BY <4>1, <4>2
    <3>9. SplitFrom(BlocksOf(g[x]), d, j)
        BY Zenon, <3>8 DEF SplitFrom
    <3>. QED  BY Zenon, <3>5, <3>9 DEF Halved, j
  <2>4. CASE ~Behind(d, x)
    <3>1. /\ Span(u, p, r.pos) /\ GoodBlock(r) /\ end(r) = end(h)
          /\ Same(BlocksOf(u) \cup {r}, {h})
          /\ SplitFrom(BlocksOf(u), d, j)
          /\ Short(d, x) => SplitFrom({r}, d, j)
      <4>1. /\ Span(u, h.pos, r.pos) /\ GoodBlock(r) /\ end(r) = end(h)
            /\ Same(BlocksOf(u) \cup {r}, {h})
            /\ SplitFrom(BlocksOf(u), d, j)
            /\ Short(d, x) => SplitFrom({r}, d, j)
          BY <1>3, <2>1, <2>2, HeadIsSplit
      <4>. QED  BY Zenon, <2>2, <4>1
    <3>2. Span(<<r>>, r.pos, end(h)) /\ BlocksOf(<<r>>) = {r}
      <4>1. Span(<<r>>, r.pos, end(r)) /\ BlocksOf(<<r>>) = {r}
          BY <3>1, SpanOne
      <4>. QED  BY Zenon, <3>1, <4>1
    <3>3. end(h) \in Nat /\ r.pos \in Nat
        BY <2>2, <3>1 DEF GoodBlock, Blocks, end
    <3>4. CASE Short(d, x)
      <4> DEFINE y == NextBlock(x)
                 a == g[y]
                 c == <<r>>
      <4>1. y[1] = t /\ y[2] = j
          BY DEF NextBlock
      <4>2. g[x] = u \o (c \o a)
          BY Zenon, <1>1, <1>3, <2>4, <3>4 DEF Walked
      <4>3. y \in Walks(v, d) /\ Left(d, y) < Left(d, x)
          BY <2>1, <2>4
      <4> HIDE DEF y, u, t, h, r, w, j, c
      <4>4. Halved(a, t, end(h), q, d, j)
        <5>1. Span(y[1], end(h), q)
            BY Zenon, <2>2, <4>1
        <5>2. Halved(g[y], y[1], end(h), q, d, y[2])
            BY Zenon, <3>3, <4>3, <5>1
        <5>. QED  BY Zenon, <4>1, <5>2
      <4> HIDE DEF a
      <4>5. Span(a, end(h), q) /\ Same(BlocksOf(a), BlocksOf(t)) /\ SplitFrom(BlocksOf(a), d, j)
          BY Zenon, <4>4 DEF Halved
      <4>6. Span(c, r.pos, end(h)) /\ BlocksOf(c) = {r}
          BY Zenon, <3>2 DEF c
      <4>7. Span(c \o a, r.pos, q) /\ BlocksOf(c \o a) = BlocksOf(c) \cup BlocksOf(a)
          BY <4>5, <4>6, SpanBoth
      <4>8. /\ Span(u \o (c \o a), p, q)
            /\ BlocksOf(u \o (c \o a)) = BlocksOf(u) \cup BlocksOf(c \o a)
          BY <3>1, <4>7, SpanBoth
      <4>9. BlocksOf(g[x]) = (BlocksOf(u) \cup {r}) \cup BlocksOf(a)
        <5>1. BlocksOf(g[x]) = BlocksOf(u) \cup ({r} \cup BlocksOf(a))
            BY Zenon, <4>2, <4>6, <4>7, <4>8
        <5>. QED  BY <5>1
      <4>10. Same((BlocksOf(u) \cup {r}) \cup BlocksOf(a), {h} \cup BlocksOf(t))
          BY <3>1, <4>5, SameUnions
      <4>11. SplitFrom((BlocksOf(u) \cup {r}) \cup BlocksOf(a), d, j)
          BY <3>1, <3>4, <4>5 DEF SplitFrom
      <4>. QED  BY Zenon, <2>2, <4>2, <4>8, <4>9, <4>10, <4>11 DEF Halved, w, j
    <3>5. CASE ~Short(d, x)
      <4> DEFINE y == SameBlock(d, x)
                 a == g[y]
                 c == <<r>>
                 z == c \o t
      <4>1. y[1] = z /\ y[2] = j
          BY DEF SameBlock
      <4>2. g[x] = u \o a
          BY Zenon, <1>1, <1>3, <2>4, <3>5 DEF Walked
      <4>3. y \in Walks(v, d) /\ Left(d, y) < Left(d, x)
          BY <2>1, <2>4, <3>5
      <4> HIDE DEF y, u, t, h, r, w, j, c
      <4>4. Span(c, r.pos, end(h)) /\ BlocksOf(c) = {r}
          BY Zenon, <3>2 DEF c
      <4>5. Span(z, r.pos, q) /\ BlocksOf(z) = BlocksOf(c) \cup BlocksOf(t)
          BY <2>2, <4>4, SpanBoth
      <4> HIDE DEF z
      <4>6. Halved(a, z, r.pos, q, d, j)
        <5>1. Span(y[1], r.pos, q)
            BY Zenon, <4>1, <4>5
        <5>2. Halved(g[y], y[1], r.pos, q, d, y[2])
            BY Zenon, <3>3, <4>3, <5>1
        <5>. QED  BY Zenon, <4>1, <5>2
      <4> HIDE DEF a
      <4>7. Span(a, r.pos, q) /\ Same(BlocksOf(a), BlocksOf(z)) /\ SplitFrom(BlocksOf(a), d, j)
          BY Zenon, <4>6 DEF Halved
      <4>8. Span(u \o a, p, q) /\ BlocksOf(u \o a) = BlocksOf(u) \cup BlocksOf(a)
          BY <3>1, <4>7, SpanBoth
      <4>9. Same(BlocksOf(u) \cup BlocksOf(a), BlocksOf(u) \cup BlocksOf(z))
          BY <4>7, SameSets, SameUnions
      <4>10. BlocksOf(u) \cup BlocksOf(z) = (BlocksOf(u) \cup {r}) \cup BlocksOf(t)
        <5>1. BlocksOf(u) \cup BlocksOf(z) = BlocksOf(u) \cup ({r} \cup BlocksOf(t))
            BY Zenon, <4>4, <4>5
        <5>. QED  BY <5>1
      <4>11. Same((BlocksOf(u) \cup {r}) \cup BlocksOf(t), {h} \cup BlocksOf(t))
          BY <3>1, SameSets, SameUnions
      <4>12. Same(BlocksOf(u) \cup BlocksOf(a), {h} \cup BlocksOf(t))
        <5>1. Same(BlocksOf(u) \cup BlocksOf(a), (BlocksOf(u) \cup {r}) \cup BlocksOf(t))
            BY Zenon, <4>9, <4>10
        <5>. QED  BY <4>11, <5>1, SameTransitive
      <4>13. SplitFrom(BlocksOf(u) \cup BlocksOf(a), d, j)
          BY <3>1, <4>7 DEF SplitFrom
      <4>. QED  BY Zenon, <2>2, <4>2, <4>8, <4>12, <4>13 DEF Halved, w, j
    <3>. QED  BY <3>4, <3>5
  <2>. QED  BY <2>3, <2>4
<1>. QED  BY <1>2, <1>3

\* The walk splits the blocks at every border of the domain, and leaves them as
\* they are otherwise.
LEMMA SplitByBorders ==
  ASSUME NEW v, NEW p, NEW q, Span(v, p, q), NEW d, IsDomain(d)
  PROVE  Halved(split_by_borders(v, d), v, p, q, d, 1)
<1> DEFINE W == Walks(v, d)
           M == 2 * (Len(v) + Len(d)) + 2
<1>1. v \in Seq(Blocks) /\ p \in Nat /\ Len(v) \in Nat /\ Len(d) \in Nat
    BY DomainTypes, LenProperties DEF Span, Consecutive
<1>2. PICK g : /\ split_by_borders(v, d) = g[<<v, 1>>]
               /\ \A x \in W : g[x] = Walked(d, g, x)
    BY <1>1, WalkUnfolds
<1> DEFINE Good(x) == \A k \in Nat : Span(x[1], k, q) => Halved(g[x], x[1], k, q, d, x[2])
           S == {k \in 0 .. M : \A x \in W : Left(d, x) < k => Good(x)}
<1>3. M \in Nat /\ \A x \in W : Left(d, x) \in Nat /\ Left(d, x) < M
  <2>1. ASSUME NEW x \in W  PROVE  Left(d, x) \in Nat /\ Left(d, x) < M
    <3> DEFINE y == Left(d, x)
    <3>1. y \in 0 .. 2 * (Len(v) + Len(d)) + 1
        BY <1>1, WalkGoesOn
    <3> HIDE DEF y
    <3>2. y \in Nat /\ y < M
        BY <1>1, <3>1
    <3>. QED  BY <3>2 DEF y
  <2>. QED  BY <1>1, <2>1
<1> HIDE DEF M
<1>4. 0 \in S
  <2>1. 0 \in 0 .. M
      BY <1>3
  <2>2. \A x \in W : ~(Left(d, x) < 0)
    <3> HIDE DEF W
    <3>. QED  BY <1>3
  <2> HIDE DEF W, Good
  <2>. QED  BY Zenon, <2>1, <2>2
<1>5. ASSUME NEW k \in 1 .. M, k - 1 \in S  PROVE  k \in S
  <2>1. k \in 0 .. M /\ \A y \in W : Left(d, y) < k - 1 => Good(y)
      BY <1>3, <1>5
  <2>2. ASSUME NEW x \in W, Left(d, x) < k, NEW m \in Nat, Span(x[1], m, q)
        PROVE  Halved(g[x], x[1], m, q, d, x[2])
    <3>1. \A y \in W, i \in Nat :
            Left(d, y) < Left(d, x) /\ Span(y[1], i, q) => Halved(g[y], y[1], i, q, d, y[2])
      <4>1. ASSUME NEW y \in W, Left(d, y) < Left(d, x)  PROVE  Left(d, y) < k - 1
        <5>1. Left(d, y) \in Nat /\ Left(d, x) \in Nat
            BY <1>3
        <5>. QED  BY <2>2, <4>1, <5>1
      <4> HIDE DEF W
      <4>. QED  BY Zenon, <2>1, <4>1
    <3>. QED  BY <1>1, <1>2, <2>2, <3>1, WalkStep
  <2> HIDE DEF W
  <2>3. \A x \in W : Left(d, x) < k => Good(x)
      BY Zenon, <2>2
  <2>. QED  BY Zenon, <2>1, <2>3
<1>6. M \in S
  <2>1. M \in 0 .. M
      BY <1>3
  <2> HIDE DEF S
  <2>. QED  BY <1>3, <1>4, <1>5, <2>1, StepByStep
<1>7. <<v, 1>> \in W
  <2>1. 1 \in 1 .. Len(d) + 1 /\ Len(v) <= Len(v)
      BY <1>1
  <2>. QED  BY <1>1, <2>1 DEF Walks
<1>8. Good(<<v, 1>>)
  <2> HIDE DEF W, Good
  <2>. QED  BY Zenon, <1>3, <1>6, <1>7
<1> DEFINE x == <<v, 1>>
<1>9. x[1] = v /\ x[2] = 1
    OBVIOUS
<1> HIDE DEF x
<1>10. Good(x)
    BY Zenon, <1>8 DEF x
<1>. QED  BY Zenon, <1>1, <1>2, <1>9, <1>10 DEF x

\* w is v with its block that p lies inside of, if any, split there.
Parted(w, v, p) ==
  /\ Chain(w) /\ w[1].pos = v[1].pos /\ Same(BlocksOf(w), BlocksOf(v))
  /\ \A x \in BlocksOf(w) : ~strictly_includes(x, p)
  /\ \A x \in BlocksOf(w) : \E y \in BlocksOf(v) : y.pos <= x.pos /\ end(x) <= end(y)

LEMMA TrySplit ==
  ASSUME NEW v, Chain(v), NEW p \in Nat, NEW i \in Nat,
         \A j \in 1 .. Len(v) : strictly_includes(v[j], p) => i = j
  PROVE  Parted(try_split_sblock_by(v, p, i), v, p)
<1>1. Len(v) \in Nat /\ DOMAIN v = 1 .. Len(v)
    BY ChainTypes
<1>2. CASE i \notin 1 .. Len(v)
  <2>1. try_split_sblock_by(v, p, i) = v
      BY Zenon, <1>1, <1>2 DEF try_split_sblock_by
  <2>2. \A x \in BlocksOf(v) : ~strictly_includes(x, p)
      BY <1>2 DEF BlocksOf
  <2>3. \A x \in BlocksOf(v) : x.pos <= x.pos /\ end(x) <= end(x)
    <3>1. \A k \in 1 .. Len(v) : v[k].pos \in Nat /\ end(v[k]) \in Nat
        BY ChainBlocks
    <3>. QED  BY <3>1 DEF BlocksOf
  <2>. QED  BY Zenon, <2>1, <2>2, <2>3, SameSets DEF Parted
<1>3. CASE i \in 1 .. Len(v)
  <2> DEFINE n == Len(v)
             h == v[i]
             a == split(h, p).off
             y == split(h, p).rest
             u == a \o <<y>>
             A == SubSeq(v, 1, i - 1)
             C == SubSeq(v, i + 1, n)
             w == A \o u \o C
  <2>1. try_split_sblock_by(v, p, i) = w
      BY Zenon, <1>1, <1>3 DEF try_split_sblock_by, Splice
  <2>2. GoodBlock(h) /\ h.pos \in Nat /\ end(h) \in Nat /\ h.pos < end(h)
    <3>1. GoodBlock(h)
        BY <1>3, ChainNeighbours
    <3>. QED  BY <3>1 DEF GoodBlock, Blocks, end
  <2>3. /\ Span(a, h.pos, y.pos) /\ GoodBlock(y) /\ end(y) = end(h) /\ y.st = h.st
        /\ Same(BlocksOf(a) \cup {y}, {h})
        /\ \A b \in BlocksOf(a) : b.pos = h.pos /\ end(b) = p /\ p < end(h)
        /\ h.pos <= y.pos /\ ~strictly_includes(y, p)
        /\ y.pos = h.pos \/ y.pos = p
      BY <2>2, SplitOff
  <2> HIDE DEF h, a, y
  <2>4. Span(u, h.pos, end(h)) /\ BlocksOf(u) = BlocksOf(a) \cup {y}
    <3>1. Span(<<y>>, y.pos, end(h)) /\ BlocksOf(<<y>>) = {y}
        BY <2>3, SpanOne
    <3>2. Span(u, h.pos, end(h)) /\ BlocksOf(u) = BlocksOf(a) \cup BlocksOf(<<y>>)
        BY <2>3, <3>1, SpanBoth
    <3>. QED  BY Zenon, <3>1, <3>2
  <2> HIDE DEF u
  <2>5. Replaces(u, v, i, i)
      BY <2>2, <2>4 DEF Replaces, Span, h
  <2>6. Chain(w) /\ w[1].pos = v[1].pos
    <3>1. i \in i .. n
        BY <1>1, <1>3
    <3>. QED  BY <1>3, <2>5, <3>1, SpliceIsChain
  <2>7. /\ A \in Seq(Blocks) /\ BlocksOf(A) = {v[j] : j \in 1 .. i - 1}
        /\ C \in Seq(Blocks) /\ BlocksOf(C) = {v[j] : j \in i + 1 .. n}
    <3>1. 1 \in 1 .. n + 1 /\ i - 1 \in 0 .. n /\ i + 1 \in 1 .. n + 1 /\ n \in 0 .. n
        BY <1>1, <1>3
    <3>. QED  BY <3>1, SubSeqOfChain
  <2>8. u \in Seq(Blocks)
      BY <2>4 DEF Span, Consecutive
  <2> DEFINE R == BlocksOf(A) \cup BlocksOf(C)
  <2>9. BlocksOf(v) = R \cup {h}
    <3>1. 1 .. n = (1 .. i - 1) \cup {i} \cup (i + 1 .. n)
        BY <1>1, <1>3
    <3>. QED  BY <2>7, <3>1 DEF BlocksOf, h
  <2>10. BlocksOf(w) = R \cup BlocksOf(u)
    <3> HIDE DEF A, C
    <3>1. A \o u \in Seq(Blocks) /\ BlocksOf(A \o u) = BlocksOf(A) \cup BlocksOf(u)
      <4>1. A \o u \in Seq(Blocks)
          BY <2>7, <2>8, ConcatProperties
      <4>2. BlocksOf(A \o u) = BlocksOf(A) \cup BlocksOf(u)
          BY <2>7, <2>8, ConcatBlocks
      <4>. QED  BY <4>1, <4>2
    <3>2. BlocksOf((A \o u) \o C) = BlocksOf(A \o u) \cup BlocksOf(C)
      <4> DEFINE Au == A \o u
      <4>1. Au \in Seq(Blocks) /\ C \in Seq(Blocks)
          BY Zenon, <2>7, <3>1
      <4> HIDE DEF Au
      <4>2. BlocksOf(Au \o C) = BlocksOf(Au) \cup BlocksOf(C)
          BY Zenon, <4>1, ConcatBlocks
      <4>. QED  BY Zenon, <4>2 DEF Au
    <3>. QED  BY <3>1, <3>2
  <2>11. \A x \in R : \E j \in 1 .. n : x = v[j] /\ j # i
      BY <1>1, <1>3, <2>7
  <2>12. Same(BlocksOf(w), BlocksOf(v))
    <3> HIDE DEF R
    <3>1. Same(R, R) /\ Same(BlocksOf(u), {h})
        BY Zenon, <2>3, <2>4, SameSets
    <3>2. Same(R \cup BlocksOf(u), R \cup {h})
        BY <3>1, SameUnions
    <3>. QED  BY Zenon, <2>9, <2>10, <3>2
  <2>13. \A x \in R : ~strictly_includes(x, p) /\ x.pos \in Nat /\ end(x) \in Nat
    <3>1. \A k \in 1 .. n : v[k].pos \in Nat /\ end(v[k]) \in Nat
        BY ChainBlocks
    <3>. QED  BY <2>11, <3>1
  <2>14. \A x \in BlocksOf(u) : /\ ~strictly_includes(x, p)
                                /\ h.pos <= x.pos /\ end(x) <= end(h)
      BY <2>2, <2>3, <2>4 DEF strictly_includes
  <2>15. \A x \in BlocksOf(w) : ~strictly_includes(x, p)
      BY Zenon, <2>10, <2>13, <2>14
  <2>16. \A x \in BlocksOf(w) : \E z \in BlocksOf(v) : z.pos <= x.pos /\ end(x) <= end(z)
    <3> HIDE DEF R
    <3>1. \A x \in R : x \in BlocksOf(v) /\ x.pos <= x.pos /\ end(x) <= end(x)
        BY <2>9, <2>13
    <3>2. h \in BlocksOf(v)
        BY <2>9
    <3>. QED  BY <2>10, <2>14, <3>1, <3>2
  <2>. QED  BY Zenon, <2>1, <2>6, <2>12, <2>15, <2>16 DEF Parted
<1>. QED  BY <1>2, <1>3

\* The first block not before p, and the last one not behind it.
LEMMA FirstReached ==
  ASSUME NEW v, Chain(v), NEW p \in Nat
  PROVE  LET i == Min({Len(v) + 1} \cup {k \in DOMAIN v : ~(end(v[k]) <= p)})
         IN  i \in Nat /\ \A j \in 1 .. Len(v) : strictly_includes(v[j], p) => i = j
<1> DEFINE n == Len(v)
           S == {n + 1} \cup {k \in DOMAIN v : ~(end(v[k]) <= p)}
           i == Min(S)
<1>1. n \in Nat /\ DOMAIN v = 1 .. n
    BY ChainTypes
<1>2. i \in S /\ \A y \in S : i <= y
  <2>1. S \in SUBSET Nat /\ S # {}
      BY <1>1
  <2> HIDE DEF S
  <2>. QED  BY <2>1, MinExists
<1> HIDE DEF i
<1>3. ASSUME NEW j \in 1 .. n, strictly_includes(v[j], p)  PROVE  i = j
  <2>1. v[j].pos < p /\ p < end(v[j]) /\ v[j].pos \in Nat /\ end(v[j]) \in Nat
      BY <1>3, ChainBlocks DEF strictly_includes
  <2>2. j \in S
      BY <1>1, <2>1
  <2>3. i <= j /\ i \in 1 .. n
      BY <1>1, <1>2, <2>2
  <2>4. ~(end(v[i]) <= p) /\ end(v[i]) \in Nat
    <3>1. i # n + 1
        BY <1>1, <2>3
    <3>2. ~(end(v[i]) <= p)
        BY Zenon, <1>2, <3>1
    <3>3. end(v[i]) \in Nat
        BY <2>3, ChainBlocks
    <3>. QED  BY <3>2, <3>3
  <2>5. i < j => end(v[i]) <= v[j].pos
      BY <2>3, ChainInOrder
  <2>. QED  BY <2>1, <2>3, <2>4, <2>5
<1>4. i \in Nat
    BY <1>1, <1>2
<1>. QED  BY <1>3, <1>4 DEF i

LEMMA LastReached ==
  ASSUME NEW v, Chain(v), NEW p \in Nat
  PROVE  LET i == Max({0} \cup {k \in DOMAIN v : ~(p <= v[k].pos)})
         IN  i \in Nat /\ \A j \in 1 .. Len(v) : strictly_includes(v[j], p) => i = j
<1> DEFINE n == Len(v)
           S == {0} \cup {k \in DOMAIN v : ~(p <= v[k].pos)}
           i == Max(S)
<1>1. n \in Nat /\ DOMAIN v = 1 .. n
    BY ChainTypes
<1>2. i \in S /\ \A y \in S : i >= y
  <2>1. S \in SUBSET (0 .. n) /\ S # {}
      BY <1>1
  <2> HIDE DEF S
  <2>. QED  BY <1>1, <2>1, MaxExists
<1> HIDE DEF i
<1>3. ASSUME NEW j \in 1 .. n, strictly_includes(v[j], p)  PROVE  i = j
  <2>1. v[j].pos < p /\ p < end(v[j]) /\ v[j].pos \in Nat /\ end(v[j]) \in Nat
      BY <1>3, ChainBlocks DEF strictly_includes
  <2>2. j \in S
      BY <1>1, <2>1
  <2>3. i >= j /\ i \in 1 .. n
      BY <1>1, <1>2, <2>2
  <2>4. ~(p <= v[i].pos) /\ v[i].pos \in Nat
      BY <1>1, <1>2, <2>3, ChainBlocks
  <2>5. j < i => end(v[j]) <= v[i].pos
      BY <2>3, ChainInOrder
  <2>. QED  BY <2>1, <2>3, <2>4, <2>5
<1>4. i \in Nat
    BY <1>1, <1>2
<1>. QED  BY <1>3, <1>4 DEF i

\* split_by_domain_borders keeps the status of every position and leaves no border
\* of the domain inside of a block.
LEMMA SplitChain ==
  ASSUME NEW v, Chain(v), NEW d, IsDomain(d), d # <<>>
  PROVE  LET w == split_by_domain_borders(v, d)
         IN  /\ Chain(w) /\ w[1].pos = v[1].pos
             /\ Same(BlocksOf(w), BlocksOf(v)) /\ SplitFrom(BlocksOf(w), d, 1)
<1>1. CASE Len(d) = 1
  <2> DEFINE b == Head(d)
             i == Min({Len(v) + 1} \cup {k \in DOMAIN v : ~before(v[k], b)})
             w == try_split_sblock_by(v, b.pos, i)
             k == Max({0} \cup {j \in DOMAIN w : ~before(b, w[j])})
             x == try_split_sblock_by(w, end(b), k)
  <2>1. split_by_domain_borders(v, d) = x
      BY Zenon, <1>1 DEF split_by_domain_borders
  <2>2. b = d[1] /\ b.pos \in Nat /\ end(b) \in Nat
    <3>1. d[1].pos \in Nat /\ end(d[1]) \in Nat
      <4>1. 1 \in 1 .. Len(d)
          BY <1>1
      <4>. QED  BY Zenon, <4>1, DomainTypes
    <3>2. d \in Seq([pos : Nat, size : Nat])
        BY DEF IsDomain
    <3>3. Head(d) = d[1]
        BY <3>2, HeadAndTail
    <3>. QED  BY Zenon, <3>1, <3>3
  <2> HIDE DEF b
  <2>3. i \in Nat /\ \A j \in 1 .. Len(v) : strictly_includes(v[j], b.pos) => i = j
    <3>1. LET h == Min({Len(v) + 1} \cup {j \in DOMAIN v : ~(end(v[j]) <= b.pos)})
          IN  h \in Nat /\ \A j \in 1 .. Len(v) : strictly_includes(v[j], b.pos) => h = j
        BY <2>2, FirstReached
    <3>. QED  BY Zenon, <3>1 DEF before
  <2> HIDE DEF i
  <2>4. Parted(w, v, b.pos)
      BY <2>2, <2>3, TrySplit
  <2> HIDE DEF w
  <2>5. k \in Nat /\ \A j \in 1 .. Len(w) : strictly_includes(w[j], end(b)) => k = j
    <3>1. Chain(w)
        BY Zenon, <2>4 DEF Parted
    <3>2. LET h == Max({0} \cup {j \in DOMAIN w : ~(end(b) <= w[j].pos)})
          IN  h \in Nat /\ \A j \in 1 .. Len(w) : strictly_includes(w[j], end(b)) => h = j
        BY <2>2, <3>1, LastReached
    <3>. QED  BY Zenon, <3>2 DEF before
  <2> HIDE DEF k
  <2>6. Parted(x, w, end(b))
    <3>1. Chain(w)
        BY Zenon, <2>4 DEF Parted
    <3>. QED  BY <2>2, <2>5, <3>1, TrySplit
  <2> HIDE DEF x
  <2>7. Same(BlocksOf(x), BlocksOf(v))
    <3>1. Same(BlocksOf(x), BlocksOf(w)) /\ Same(BlocksOf(w), BlocksOf(v))
        BY Zenon, <2>4, <2>6 DEF Parted
    <3>. QED  BY <3>1, SameTransitive
  <2>8. ASSUME NEW y \in BlocksOf(x)
        PROVE  ~strictly_includes(y, b.pos) /\ ~strictly_includes(y, end(b))
    <3>1. ~strictly_includes(y, end(b))
        BY Zenon, <2>6 DEF Parted
    <3>2. PICK z \in BlocksOf(w) : z.pos <= y.pos /\ end(y) <= end(z)
        BY Zenon, <2>6 DEF Parted
    <3>3. ~strictly_includes(z, b.pos)
        BY Zenon, <2>4 DEF Parted
    <3>4. y.pos \in Nat /\ end(y) \in Nat /\ z.pos \in Nat /\ end(z) \in Nat
      <4>1. Chain(x) /\ Chain(w)
          BY Zenon, <2>4, <2>6 DEF Parted
      <4>2. (\A j \in 1 .. Len(x) : x[j].pos \in Nat /\ end(x[j]) \in Nat)
            /\ (\A j \in 1 .. Len(w) : w[j].pos \in Nat /\ end(w[j]) \in Nat)
          BY <4>1, ChainBlocks
      <4>. QED  BY <4>2 DEF BlocksOf
    <3>5. ~strictly_includes(y, b.pos)
        BY <2>2, <3>2, <3>3, <3>4 DEF strictly_includes
    <3>. QED  BY <3>1, <3>5
  <2>9. SplitFrom(BlocksOf(x), d, 1)
    <3>1. 1 .. Len(d) = {1}
        BY <1>1
    <3>. QED  BY Zenon, <2>2, <2>8, <3>1 DEF SplitFrom
  <2>10. Chain(x) /\ x[1].pos = v[1].pos
      BY Zenon, <2>4, <2>6 DEF Parted
  <2>. QED  BY Zenon, <2>1, <2>7, <2>9, <2>10
<1>2. CASE Len(d) # 1
  <2> DEFINE w == split_by_borders(v, d)
  <2>1. split_by_domain_borders(v, d) = w
      BY Zenon, <1>2 DEF split_by_domain_borders
  <2>2. Span(v, v[1].pos, end(v[Len(v)]))
    <3>1. Len(v) \in 1 .. Len(v)
        BY ChainTypes
    <3>2. end(v[Len(v)]) \in Nat /\ v[1].pos \in Nat
        BY <3>1, ChainTypes, ChainBlocks
    <3>. QED  BY <3>2 DEF Span, Chain
  <2> HIDE DEF w
  <2>3. Halved(w, v, v[1].pos, end(v[Len(v)]), d, 1)
      BY <2>2, SplitByBorders DEF w
  <2>4. Span(w, v[1].pos, end(v[Len(v)])) /\ Same(BlocksOf(w), BlocksOf(v)) /\ SplitFrom(BlocksOf(w), d, 1)
      BY Zenon, <2>3 DEF Halved
  <2>5. Chain(w) /\ w[1].pos = v[1].pos
    <3>1. Len(v) \in 1 .. Len(v) /\ 1 \in 1 .. Len(v) /\ Len(v) \in Nat
        BY ChainTypes
    <3>2. 1 < Len(v) => end(v[1]) <= v[Len(v)].pos
        BY <3>1, ChainInOrder
    <3>3. /\ v[1].pos < end(v[1]) /\ v[Len(v)].pos < end(v[Len(v)])
          /\ v[1].pos \in Nat /\ end(v[1]) \in Nat /\ v[Len(v)].pos \in Nat
          /\ end(v[Len(v)]) \in Nat
        BY <3>1, ChainBlocks
    <3>4. end(v[Len(v)]) # v[1].pos
        BY <3>1, <3>2, <3>3
    <3>. QED  BY <2>4, <3>4 DEF Span, Chain
  <2>. QED  BY Zenon, <2>1, <2>4, <2>5
<1>. QED  BY <1>1, <1>2

LEMMA SplitByDomain ==
  ASSUME NEW v, IsVector(v), NEW d, IsDomain(d), d # <<>>
  PROVE  LET w == split_by_domain_borders(v, d)
         IN  IsVector(w) /\ Same(BlocksOf(w), BlocksOf(v)) /\ SplitFrom(BlocksOf(w), d, 1)
<1> DEFINE w == split_by_domain_borders(v, d)
<1>1. Chain(v) /\ v[1].pos = 0
    BY VectorIsChain
<1>2. /\ Chain(w) /\ w[1].pos = v[1].pos
      /\ Same(BlocksOf(w), BlocksOf(v)) /\ SplitFrom(BlocksOf(w), d, 1)
    BY <1>1, SplitChain
<1> HIDE DEF w
<1>3. IsVector(w)
    BY <1>1, <1>2, VectorIsChain
<1>. QED  BY Zenon, <1>2, <1>3 DEF w

\* A block cropped by another: what both have in common.
LEMMA CropBlock ==
  ASSUME NEW x \in [pos : Nat, size : Nat], x.size > 0, NEW b, IsChunk(b)
  PROVE  LET y == crop(x, b)
         IN  /\ y \in [pos : Nat, size : Nat] /\ Bytes(y) = Bytes(x) \cap Bytes(b)
             /\ x.pos <= y.pos
             /\ y.size > 0 => end(y) <= end(x) /\ crop(y, b) = y
             /\ y.size = 0 <=> before(x, b) \/ before(b, x) \/ b.size = 0
             /\ includes(b, x) => y = x
<1> DEFINE p == max(x.pos, b.pos)
           e == min(end(x), end(b))
           n == max(0, e - p)
           y == crop(x, b)
<1>1. /\ x.pos \in Nat /\ x.size \in Nat /\ end(x) = x.pos + x.size
      /\ b.pos \in Nat /\ b.size \in Nat /\ end(b) = b.pos + b.size
      /\ x = [pos |-> x.pos, size |-> x.size]
    BY DEF end, IsChunk
<1>2. y = [pos |-> p, size |-> n]
  <2>1. y = [x EXCEPT !.pos = p, !.size = n]
      BY Zenon DEF crop
  <2> HIDE DEF p, n
  <2>. QED  BY <2>1
<1>10. /\ p \in Nat /\ e \in Nat /\ p >= x.pos /\ p >= b.pos /\ (p = x.pos \/ p = b.pos)
       /\ e <= end(x) /\ e <= end(b) /\ (e = end(x) \/ e = end(b))
    BY <1>1 DEF max, min, BM!Larger, BM!Smaller
<1> HIDE DEF p, e
<1>11. n \in Nat /\ n = IF e > p THEN e - p ELSE 0
    BY <1>10 DEF max, BM!Larger
<1> HIDE DEF n, y
<1>3. /\ p \in Nat /\ e \in Nat /\ p >= x.pos /\ p >= b.pos /\ (p = x.pos \/ p = b.pos)
      /\ e <= end(x) /\ e <= end(b) /\ (e = end(x) \/ e = end(b))
      /\ n \in Nat /\ n = IF e > p THEN e - p ELSE 0
    BY Zenon, <1>10, <1>11
<1>4. y.pos = p /\ y.size = n /\ y \in [pos : Nat, size : Nat] /\ end(y) = p + n
    BY <1>2, <1>3 DEF end
<1>5. Bytes(y) = Bytes(x) \cap Bytes(b)
    BY <1>1, <1>3, <1>4 DEF Bytes
<1>6. y.size = 0 <=> before(x, b) \/ before(b, x) \/ b.size = 0
    BY <1>1, <1>3, <1>4 DEF before
<1>7. y.size > 0 => end(y) <= end(x)
    BY <1>1, <1>3, <1>4
<1>8. includes(b, x) => y = x
  <2>1. includes(b, x) => p = x.pos /\ n = x.size
      BY <1>1, <1>3 DEF includes
  <2>. QED  BY <1>1, <1>2, <2>1
<1>9. y.size > 0 => crop(y, b) = y
  <2>1. SUFFICES ASSUME y.size > 0  PROVE  crop(y, b) = y
      OBVIOUS
  <2> DEFINE k == max(y.pos, b.pos)
             f == min(end(y), end(b))
             m == max(0, f - k)
  <2>2. k = p /\ f = e
      BY <1>1, <1>3, <1>4, <2>1 DEF max, min, BM!Larger, BM!Smaller
  <2> HIDE DEF k, f
  <2>3. m = n
      BY <1>3, <2>2 DEF max, BM!Larger
  <2>4. crop(y, b) = [y EXCEPT !.pos = k, !.size = m]
      BY Zenon DEF crop, k, f
  <2> HIDE DEF m
  <2>. QED  BY <1>2, <2>2, <2>3, <2>4
<1>. QED  BY Zenon, <1>1, <1>3, <1>4, <1>5, <1>6, <1>7, <1>8, <1>9 DEF y

\* Of a domain d, c has the parts in b of its blocks l to r, if any.
PartsIn(c, d, b) ==
  \/ c = Empty /\ \A i \in 1 .. Len(d) : crop(d[i], b).size = 0
  \/ \E l \in 1 .. Len(d) : \E r \in l .. Len(d) :
       /\ c \in Seq([pos : Nat, size : Nat]) /\ Len(c) = r - l + 1
       /\ \A i \in l .. r : c[i - l + 1] = crop(d[i], b) /\ crop(d[i], b).size > 0
       /\ \A i \in 1 .. Len(d) : i < l \/ r < i => crop(d[i], b).size = 0

LEMMA CropParts ==
  ASSUME NEW d, IsDomain(d), NEW b, IsChunk(b)
  PROVE  PartsIn(crop_domain(d, b), d, b)
<1> DEFINE S == [pos : Nat, size : Nat]
           R == {0} \cup {i \in DOMAIN d : ~before(b, d[i])}
           r == Max(R)
           x == crop(d[r], b)
           u == SubSeq(d, 1, r - 1)
           w == u \o <<x>>
           L == {Len(w)} \cup {i \in DOMAIN w : ~before(w[i], b)}
           l == Min(L)
           z == crop(w[l], b)
           t == SubSeq(w, l + 1, Len(w))
           N == Len(d)
           c == crop_domain(d, b)
<1>1. /\ N \in Nat /\ DOMAIN d = 1 .. N /\ d \in Seq(S)
      /\ \A j \in 1 .. N : d[j] \in S /\ d[j].size > 0 /\ d[j].pos \in Nat /\ end(d[j]) \in Nat
      /\ b.pos \in Nat /\ b.size \in Nat /\ end(b) = b.pos + b.size
  <2>1. N \in Nat /\ DOMAIN d = 1 .. N
      BY DomainTypes
  <2>2. d \in Seq(S) /\ \A j \in DOMAIN d : d[j].size > 0
      BY Zenon DEF IsDomain
  <2>4. \A j \in 1 .. N : d[j].pos \in Nat /\ end(d[j]) \in Nat
      BY DomainTypes
  <2>5. b.pos \in Nat /\ b.size \in Nat /\ end(b) = b.pos + b.size
      BY DEF IsChunk, end
  <2> HIDE DEF S
  <2>3. \A j \in 1 .. N : d[j] \in S
      BY <2>2, ElementOfSeq
  <2>. QED  BY Zenon, <2>1, <2>2, <2>3, <2>4, <2>5
<1>2. r \in R /\ \A i \in R : i <= r
  <2>1. R \in SUBSET (0 .. N) /\ R # {}
      BY <1>1
  <2> HIDE DEF R
  <2>2. r \in R /\ \A i \in R : r >= i
      BY <1>1, <2>1, MaxExists
  <2>. QED  BY <1>1, <2>1, <2>2
<1> HIDE DEF r
<1>3. r \in 0 .. N /\ \A i \in 1 .. N : r < i => before(b, d[i])
    BY <1>1, <1>2
<1>4. \A i \in 1 .. N : before(b, d[i]) \/ before(d[i], b) \/ b.size = 0 <=> crop(d[i], b).size = 0
  <2> TAKE i \in 1 .. N
  <2> DEFINE y == d[i]
  <2>1. y \in [pos : Nat, size : Nat] /\ y.size > 0
      BY <1>1
  <2> HIDE DEF y
  <2>2. crop(y, b).size = 0 <=> before(y, b) \/ before(b, y) \/ b.size = 0
      BY Zenon, <2>1, CropBlock
  <2>. QED  BY Zenon, <2>2 DEF y
<1> HIDE DEF S
<1>5. CASE r = 0 \/ x.size <= 0
  <2>1. c = Empty
      BY Zenon, <1>5 DEF crop_domain, r, R
  <2> HIDE DEF c
  <2>4. (\A i \in 1 .. N : crop(d[i], b).size = 0) => PartsIn(c, d, b)
      BY Zenon, <2>1 DEF PartsIn
  <2>2. CASE r = 0
    <3>1. \A i \in 1 .. N : before(b, d[i])
        BY <1>1, <1>3, <2>2
    <3>. QED  BY Zenon, <1>4, <2>4, <3>1 DEF c
  <2>3. CASE r # 0
    <3>1. r \in 1 .. N /\ ~before(b, d[r])
        BY <1>1, <1>2, <1>3, <2>3
    <3>2. x.size = 0
      <4>1. d[r] \in [pos : Nat, size : Nat] /\ d[r].size > 0
          BY <1>1, <3>1 DEF S
      <4>2. x \in [pos : Nat, size : Nat]
          BY Zenon, <4>1, CropBlock
      <4>. QED  BY <1>5, <2>3, <4>2
    <3>3. before(d[r], b) \/ b.size = 0
        BY Zenon, <1>4, <3>1, <3>2
    <3>4. ASSUME NEW i \in 1 .. N  PROVE  before(b, d[i]) \/ before(d[i], b) \/ b.size = 0
      <4>1. CASE i > r
          BY <1>3, <4>1
      <4>2. CASE i = r
          BY <3>3, <4>2
      <4>3. CASE i < r
        <5>1. end(d[i]) < d[r].pos /\ d[r].pos < end(d[r])
            BY <3>1, <4>3, DomainInOrder, DomainTypes
        <5>. QED  BY <1>1, <3>1, <3>3, <5>1 DEF before
      <4>. QED  BY <1>3, <4>1, <4>2, <4>3
    <3>. QED  BY Zenon, <1>4, <2>4, <3>4 DEF c
  <2>. QED  BY <2>2, <2>3
<1>6. CASE r # 0 /\ ~(x.size <= 0)
  <2>1. r \in 1 .. N /\ ~before(b, d[r]) /\ r \in Nat
      BY <1>1, <1>2, <1>3, <1>6
  <2>2. d[r] \in S /\ x \in S /\ x.size > 0 /\ crop(x, b) = x /\ ~before(d[r], b) /\ b.size # 0
    <3>1. d[r] \in [pos : Nat, size : Nat] /\ d[r].size > 0
        BY <1>1, <2>1 DEF S
    <3>2. /\ x \in [pos : Nat, size : Nat] /\ (x.size > 0 => crop(x, b) = x)
          /\ x.size = 0 <=> before(d[r], b) \/ before(b, d[r]) \/ b.size = 0
        BY Zenon, <3>1, CropBlock
    <3>3. x.size > 0
        BY <1>6, <3>2
    <3>4. x.size # 0
        BY <3>3
    <3>. QED  BY Zenon, <3>1, <3>2, <3>3, <3>4 DEF S
  <2>3. /\ u \in Seq(S) /\ Len(u) = r - 1 /\ \A j \in 1 .. r - 1 : u[j] = d[j]
    <3>1. \A j \in 1 .. r - 1 : d[j] \in S
        BY <1>1, <2>1
    <3>2. r - 1 \in Nat /\ 1 \in Nat
        BY <2>1
    <3>3. u \in Seq(S)
          /\ Len(u) = (IF 1 <= r - 1 THEN r - 1 - 1 + 1 ELSE 0)
          /\ \A j \in 1 .. r - 1 - 1 + 1 : u[j] = d[1 + j - 1]
        BY <3>1, <3>2, SubSeqProperties
    <3> HIDE DEF u
    <3>. QED  BY <3>2, <3>3
  <2> HIDE DEF x, u
  <2>4. /\ w \in Seq(S) /\ Len(w) = r /\ DOMAIN w = 1 .. r /\ w # <<>>
        /\ \A j \in 1 .. r - 1 : w[j] = d[j]
        /\ w[r] = x
    <3>1. /\ w \in Seq(S) /\ Len(w) = Len(u) + Len(<<x>>)
          /\ \A j \in 1 .. Len(u) + Len(<<x>>) :
               w[j] = IF j <= Len(u) THEN u[j] ELSE <<x>>[j - Len(u)]
        BY <2>2, <2>3, ConcatProperties
    <3>2. Len(<<x>>) = 1 /\ <<x>>[1] = x
        OBVIOUS
    <3> HIDE DEF w
    <3>3. Len(w) = r
        BY <2>1, <2>3, <3>1, <3>2
    <3>4. \A j \in 1 .. r - 1 : w[j] = d[j]
        BY <2>1, <2>3, <3>1, <3>2
    <3>5. w[r] = x
      <4>1. r \in 1 .. (r - 1) + 1 /\ ~(r <= r - 1) /\ r - (r - 1) = 1
          BY <2>1
      <4>. QED  BY Zenon, <2>3, <3>1, <3>2, <4>1
    <3>6. DOMAIN w = 1 .. r
        BY <3>1, <3>3, LenProperties
    <3>7. w # <<>>
        BY <2>1, <3>1, <3>3, EmptySeq
    <3>. QED  BY <3>1, <3>3, <3>4, <3>5, <3>6, <3>7
  <2> HIDE DEF w
  <2>5. \A j \in 1 .. r : crop(w[j], b) = crop(d[j], b) /\ (before(w[j], b) <=> before(d[j], b))
    <3>1. ~before(x, b)
      <4>1. end(x) > b.pos
        <5>1. x.size = 0 <=> before(x, b) \/ before(b, x) \/ b.size = 0
          <6>1. x \in [pos : Nat, size : Nat]
              BY Zenon, <2>2 DEF S
          <6>2. crop(x, b).size = 0 <=> before(x, b) \/ before(b, x) \/ b.size = 0
            <7>1. x.size > 0
                BY <2>2
            <7>. QED  BY Zenon, <6>1, <7>1, CropBlock
          <6>. QED  BY <2>2, <6>2
        <5>2. end(x) \in Nat
            BY <2>2 DEF S, end
        <5>. QED  BY <1>1, <2>2, <5>1, <5>2 DEF before
      <4>2. end(x) \in Nat
          BY <2>2 DEF S, end
      <4>. QED  BY <1>1, <4>1, <4>2 DEF before
    <3>2. \A j \in 1 .. r : j # r => j \in 1 .. r - 1
        BY <2>1
    <3>. QED  BY Zenon, <2>2, <2>4, <3>1, <3>2 DEF x
  <2>6. l \in L /\ \A i \in L : l <= i
    <3>1. L \in SUBSET Nat /\ L # {}
        BY <2>1, <2>4
    <3> HIDE DEF L
    <3>. QED  BY <3>1, MinExists
  <2> HIDE DEF l
  <2>7. /\ l \in 1 .. r /\ ~before(d[l], b)
        /\ \A i \in 1 .. r : i < l => before(d[i], b)
    <3>1. l \in 1 .. r
        BY <2>1, <2>4, <2>6
    <3>2. r \in L /\ (\A i \in L : ~before(d[i], b))
        BY <2>1, <2>2, <2>4, <2>5
    <3>3. \A i \in 1 .. r : ~before(d[i], b) => i \in L
        BY <2>4, <2>5
    <3> HIDE DEF L
    <3>4. \A i \in 1 .. r : i < l => ~(l <= i)
        BY <3>1
    <3>. QED  BY Zenon, <2>6, <3>1, <3>2, <3>3, <3>4
  <2>8. \A i \in 1 .. N : i < l \/ r < i => crop(d[i], b).size = 0
    <3> SUFFICES ASSUME NEW i \in 1 .. N, i < l \/ r < i  PROVE  before(b, d[i]) \/ before(d[i], b)
        BY Zenon, <1>4
    <3>1. CASE r < i
        BY Zenon, <1>3, <3>1
    <3>2. CASE i < l
      <4>1. i \in 1 .. r
          BY <2>1, <2>7, <3>2
      <4>. QED  BY Zenon, <2>7, <3>2, <4>1
    <3>. QED  BY <3>1, <3>2
  <2>9. \A i \in l .. r : crop(d[i], b) \in S /\ crop(d[i], b).size > 0
    <3> TAKE i \in l .. r
    <3>1. i \in 1 .. N
        BY <1>1, <2>1, <2>7
    <3>2. ~before(b, d[i]) /\ ~before(d[i], b)
      <4>1. i # r => end(d[i]) < d[r].pos
          BY <1>1, <2>1, <2>7, <3>1, DomainInOrder
      <4>2. l # i => end(d[l]) < d[i].pos /\ l \in 1 .. N
          BY <1>1, <2>1, <2>7, <3>1, DomainInOrder
      <4>3. /\ d[i].pos \in Nat /\ end(d[i]) \in Nat /\ d[i].pos < end(d[i])
            /\ l \in 1 .. N /\ d[r].pos \in Nat /\ end(d[l]) \in Nat
        <5>1. l \in 1 .. N
            BY <1>1, <2>1, <2>7
        <5>. QED  BY <1>1, <2>1, <3>1, <5>1, DomainTypes
      <4>4. ~before(b, d[i])
        <5>1. CASE i = r
            BY <2>1, <5>1
        <5>2. CASE i # r
            BY <1>1, <2>1, <4>1, <4>3, <5>2 DEF before
        <5>. QED  BY <5>1, <5>2
      <4>5. ~before(d[i], b)
        <5>1. CASE i = l
            BY <2>7, <5>1
        <5>2. CASE i # l
            BY <1>1, <2>7, <4>2, <4>3, <5>2 DEF before
        <5>. QED  BY <5>1, <5>2
      <4>. QED  BY <4>4, <4>5
    <3>3. crop(d[i], b).size # 0
        BY Zenon, <1>4, <2>2, <3>1, <3>2
    <3>4. crop(d[i], b) \in [pos : Nat, size : Nat]
      <4>1. d[i] \in [pos : Nat, size : Nat] /\ d[i].size > 0
          BY Zenon, <1>1, <3>1 DEF S
      <4>. QED  BY Zenon, <4>1, CropBlock
    <3>. QED  BY <3>3, <3>4 DEF S
  <2> DEFINE whole == <<z>> \o t
  <2>10. z = crop(d[l], b) /\ z \in S
    <3>1. l \in l .. r
        BY <2>7
    <3>. QED  BY Zenon, <2>5, <2>7, <2>9, <3>1
  <2>11. c = IF b.pos <= 0 THEN w ELSE whole
    <3>1. c = IF w = <<>> THEN Empty ELSE IF b.pos <= 0 THEN w ELSE whole
        BY Zenon, <1>6 DEF crop_domain, r, R, x, u, w, l, L
    <3>. QED  BY Zenon, <2>4, <3>1
  <2>12. \A i \in 1 .. r : i >= l /\ (i # l \/ b.pos <= 0) => w[i] = crop(d[i], b)
    <3> SUFFICES ASSUME NEW i \in 1 .. r, i >= l, i # l \/ b.pos <= 0  PROVE w[i] = crop(d[i], b)
        OBVIOUS
    <3>1. CASE i = r
        BY Zenon, <2>4, <3>1 DEF x
    <3>2. CASE i # r
      <4>1. i \in 1 .. r - 1 /\ i \in 1 .. N
          BY <1>1, <2>1, <3>2
      <4>2. includes(b, d[i])
        <5>1. end(d[i]) < d[r].pos
            BY <2>1, <3>2, <4>1, DomainInOrder
        <5>2. d[r].pos < end(b)
            BY <1>1, <2>1 DEF before
        <5>3. b.pos <= d[i].pos
          <6>1. CASE b.pos <= 0
              BY <1>1, <4>1, <6>1
          <6>2. CASE i # l
            <7>1. l \in 1 .. N /\ l < i
                BY <1>1, <2>1, <2>7, <6>2
            <7>2. end(d[l]) < d[i].pos
                BY <4>1, <7>1, DomainInOrder
            <7>. QED  BY <1>1, <2>7, <4>1, <7>1, <7>2 DEF before
          <6>. QED  BY <6>1, <6>2
        <5>. QED  BY <1>1, <2>1, <4>1, <5>1, <5>2, <5>3 DEF includes
      <4>3. crop(d[i], b) = d[i]
        <5>1. d[i] \in [pos : Nat, size : Nat] /\ d[i].size > 0
            BY Zenon, <1>1, <4>1 DEF S
        <5>. QED  BY Zenon, <4>2, <5>1, CropBlock
      <4>. QED  BY Zenon, <2>4, <4>1, <4>3
    <3>. QED  BY <3>1, <3>2
  <2>13. /\ c \in Seq(S) /\ Len(c) = r - l + 1
         /\ \A i \in l .. r : c[i - l + 1] = crop(d[i], b)
    <3>1. CASE b.pos <= 0
      <4>1. c = w
          BY <2>11, <3>1
      <4>2. l = 1
        <5>1. 1 \in 1 .. r /\ 1 \in 1 .. N
            BY <1>1, <2>1
        <5>2. ~before(d[1], b)
            BY <1>1, <3>1, <5>1, DomainTypes DEF before
        <5>. QED  BY <2>7, <5>1, <5>2
      <4>3. \A i \in l .. r : i - l + 1 = i /\ i \in 1 .. r /\ i >= l
          BY <2>1, <4>2
      <4>4. r - l + 1 = r
          BY <2>1, <4>2
      <4>. QED  BY <2>4, <2>12, <3>1, <4>1, <4>3, <4>4
    <3>2. CASE ~(b.pos <= 0)
      <4>1. c = whole
          BY <2>11, <3>2
      <4>2. /\ t \in Seq(S) /\ Len(t) = r - l
            /\ \A i \in 1 .. r - l : t[i] = w[l + i]
        <5>1. \A i \in l + 1 .. r : w[i] \in S
          <6>1. \A i \in l + 1 .. r : i \in 1 .. Len(w)
              BY <2>1, <2>4, <2>7
          <6>. QED  BY <2>4, <6>1, ElementOfSeq
        <5>2. l + 1 \in Nat /\ r \in Nat /\ l \in Nat /\ l <= r
            BY <2>1, <2>7
        <5>3. /\ t \in Seq(S) /\ Len(t) = IF l + 1 <= r THEN r - (l + 1) + 1 ELSE 0
              /\ \A i \in 1 .. r - (l + 1) + 1 : t[i] = w[l + 1 + i - 1]
            BY <2>4, <5>1, <5>2, SubSeqProperties
        <5> HIDE DEF t
        <5>4. \A i \in 1 .. r - l : t[i] = w[l + i]
          <6> TAKE i \in 1 .. r - l
          <6>1. i \in 1 .. r - (l + 1) + 1 /\ l + 1 + i - 1 = l + i
              BY <5>2
          <6>. QED  BY <5>3, <6>1
        <5>5. Len(t) = r - l
            BY <5>2, <5>3
        <5>. QED  BY <5>3, <5>4, <5>5
      <4> HIDE DEF t, z
      <4>3. /\ whole \in Seq(S) /\ Len(whole) = 1 + Len(t)
            /\ \A j \in 1 .. 1 + Len(t) :
                 whole[j] = IF j <= 1 THEN <<z>>[j] ELSE t[j - 1]
        <5>1. <<z>> \in Seq(S) /\ Len(<<z>>) = 1
            BY <2>10
        <5> DEFINE y == <<z>>
        <5> HIDE DEF y
        <5>2. /\ y \o t \in Seq(S) /\ Len(y \o t) = Len(y) + Len(t)
              /\ \A j \in 1 .. Len(y) + Len(t) :
                   (y \o t)[j] = IF j <= Len(y) THEN y[j] ELSE t[j - Len(y)]
          <6>1. y \in Seq(S)
              BY <5>1 DEF y
          <6>. QED  BY <4>2, <6>1, ConcatProperties
        <5>3. Len(y) = 1
            BY <5>1 DEF y
        <5>. QED  BY Zenon, <5>2, <5>3 DEF y
      <4> HIDE DEF whole
      <4>4. Len(whole) = r - l + 1
          BY <2>1, <2>7, <4>2, <4>3
      <4>5. ASSUME NEW i \in l .. r  PROVE  whole[i - l + 1] = crop(d[i], b)
        <5>1. i - l + 1 \in 1 .. 1 + Len(t)
            BY <2>1, <2>7, <4>2
        <5>2. CASE i = l
          <6>1. i - l + 1 = 1
              BY <2>7, <5>2
          <6>2. whole[1] = <<z>>[1]
              BY <4>3, <5>1, <6>1
          <6>. QED  BY <2>10, <5>2, <6>1, <6>2
        <5>3. CASE i # l
          <6>1. ~(i - l + 1 <= 1) /\ i - l + 1 - 1 = i - l /\ i - l \in 1 .. r - l /\ l + (i - l) = i
            <7>1. l \in Nat /\ r \in Nat /\ l <= i /\ i <= r /\ i \in Nat
                BY <2>1, <2>7
            <7>. QED  BY <5>3, <7>1
          <6>2. whole[i - l + 1] = t[i - l]
            <7> DEFINE j == i - l + 1
            <7>1. j \in 1 .. 1 + Len(t) /\ ~(j <= 1) /\ j - 1 = i - l
                BY <5>1, <6>1
            <7> HIDE DEF j
            <7>2. whole[j] = t[j - 1]
                BY Zenon, <4>3, <7>1
            <7>. QED  BY Zenon, <7>1, <7>2 DEF j
          <6>3. t[i - l] = w[i]
              BY Zenon, <4>2, <6>1
          <6>4. i \in 1 .. r /\ i >= l /\ b.pos > 0
              BY <1>1, <2>1, <2>7, <3>2
          <6>. QED  BY Zenon, <2>12, <5>3, <6>2, <6>3, <6>4
        <5>. QED  BY <5>2, <5>3
      <4>. QED  BY Zenon, <4>1, <4>3, <4>4, <4>5
    <3>. QED  BY <3>1, <3>2
  <2> HIDE DEF c
  <2>14. l \in 1 .. N /\ r \in l .. N
      BY <1>1, <2>1, <2>7
  <2>15. PartsIn(c, d, b)
      BY Zenon, <2>8, <2>9, <2>13, <2>14 DEF S, PartsIn
  <2>. QED  BY Zenon, <2>15 DEF c
<1>. QED  BY <1>5, <1>6

\* A domain cropped by a block is a domain of what both have in common, if any.
LEMMA CropDomain ==
  ASSUME NEW d, IsDomain(d), NEW b, IsChunk(b)
  PROVE  LET c == crop_domain(d, b)
         IN  /\ InDomains(c) = InDomains(d) \cap Bytes(b)
             /\ c = Empty \/ (IsDomain(c) /\ c # <<>>)
<1> DEFINE c == crop_domain(d, b)
           N == Len(d)
           x(i) == crop(d[i], b)
<1>1. /\ N \in Nat /\ DOMAIN d = 1 .. N
      /\ \A j \in 1 .. N : d[j] \in [pos : Nat, size : Nat] /\ d[j].size > 0
  <2>1. N \in Nat /\ DOMAIN d = 1 .. N
      BY DomainTypes
  <2>2. d \in Seq([pos : Nat, size : Nat]) /\ \A j \in DOMAIN d : d[j].size > 0
      BY Zenon DEF IsDomain
  <2>3. \A j \in 1 .. N : d[j] \in [pos : Nat, size : Nat]
      BY <2>2, ElementOfSeq
  <2>. QED  BY Zenon, <2>1, <2>2, <2>3
<1>2. \A i \in 1 .. N : /\ x(i) \in [pos : Nat, size : Nat] /\ Bytes(x(i)) = Bytes(d[i]) \cap Bytes(b)
                        /\ d[i].pos <= x(i).pos /\ (x(i).size > 0 => end(x(i)) <= end(d[i]))
  <2> TAKE i \in 1 .. N
  <2> DEFINE y == d[i]
  <2>1. y \in [pos : Nat, size : Nat] /\ y.size > 0
      BY <1>1
  <2> HIDE DEF y
  <2>2. /\ crop(y, b) \in [pos : Nat, size : Nat] /\ Bytes(crop(y, b)) = Bytes(y) \cap Bytes(b)
        /\ y.pos <= crop(y, b).pos /\ (crop(y, b).size > 0 => end(crop(y, b)) <= end(y))
      BY Zenon, <2>1, CropBlock
  <2>. QED  BY Zenon, <2>2 DEF y
<1>7. \/ c = Empty /\ \A i \in 1 .. N : x(i).size = 0
      \/ \E l \in 1 .. N : \E r \in l .. N :
           /\ c \in Seq([pos : Nat, size : Nat]) /\ Len(c) = r - l + 1
           /\ \A i \in l .. r : c[i - l + 1] = x(i) /\ x(i).size > 0
           /\ \A i \in 1 .. N : i < l \/ r < i => x(i).size = 0
  <2>1. PartsIn(c, d, b)
      BY CropParts
  <2> HIDE DEF c
  <2>. QED  BY Zenon, <2>1 DEF PartsIn
<1> HIDE DEF c
<1>3. InDomains(d) \cap Bytes(b) = UNION {Bytes(x(i)) : i \in 1 .. N}
    BY <1>1, <1>2 DEF InDomains
<1> HIDE DEF N, x
<1>4. \A i \in 1 .. N : x(i).size = 0 => Bytes(x(i)) = {}
  <2> SUFFICES ASSUME NEW i \in 1 .. N, x(i).size = 0  PROVE Bytes(x(i)) = {}
      OBVIOUS
  <2>1. x(i).pos \in Nat /\ end(x(i)) = x(i).pos
      BY <1>2 DEF end
  <2>. QED  BY <2>1 DEF Bytes
<1>5. CASE c = Empty /\ \A i \in 1 .. N : x(i).size = 0
  <2>1. InDomains(Empty) = {}
    <3>1. DOMAIN Empty = {1} /\ Empty[1] = [pos |-> 0, size |-> 0]
        BY DEF Empty
    <3>2. Bytes(Empty[1]) = {}
        BY <3>1 DEF Bytes, end
    <3>. QED  BY <3>1, <3>2 DEF InDomains
  <2>2. UNION {Bytes(x(i)) : i \in 1 .. N} = {}
      BY <1>4, <1>5
  <2>3. c = Empty
      BY <1>5
  <2>4. InDomains(c) = {}
      BY <2>1, <2>3
  <2>5. InDomains(c) = InDomains(d) \cap Bytes(b)
      BY <1>3, <2>2, <2>4
  <2>. QED  BY Zenon, <2>3, <2>5 DEF c
<1>6. ASSUME NEW l \in 1 .. N, NEW r \in l .. N,
             c \in Seq([pos : Nat, size : Nat]), Len(c) = r - l + 1,
             \A i \in l .. r : c[i - l + 1] = x(i) /\ x(i).size > 0,
             \A i \in 1 .. N : i < l \/ r < i => x(i).size = 0
      PROVE  InDomains(c) = InDomains(d) \cap Bytes(b) /\ IsDomain(c) /\ c # <<>>
  <2> DEFINE M == r - l + 1
  <2>1. M \in Nat /\ M >= 1 /\ DOMAIN c = 1 .. M /\ l \in Nat /\ r \in Nat
      BY <1>1, <1>6, LenProperties
  <2>2. \A j \in 1 .. M : /\ j + l - 1 \in l .. r /\ j + l - 1 \in 1 .. N
                          /\ c[j] = x(j + l - 1) /\ x(j + l - 1).size > 0
    <3> TAKE j \in 1 .. M
    <3>1. j + l - 1 \in l .. r /\ j + l - 1 \in 1 .. N /\ (j + l - 1) - l + 1 = j
        BY <1>1, <2>1
    <3>. QED  BY Zenon, <1>6, <3>1
  <2>3. InDomains(c) = UNION {Bytes(x(i)) : i \in 1 .. N}
    <3>1. \A i \in 1 .. N : Bytes(x(i)) # {} => i - l + 1 \in 1 .. M /\ c[i - l + 1] = x(i)
      <4> SUFFICES ASSUME NEW i \in 1 .. N, Bytes(x(i)) # {}
                   PROVE  i - l + 1 \in 1 .. M /\ c[i - l + 1] = x(i)
          OBVIOUS
      <4>1. ~(i < l \/ r < i)
          BY Zenon, <1>4, <1>6
      <4>2. i \in l .. r
          BY <1>1, <2>1, <4>1
      <4>3. i - l + 1 \in 1 .. M
          BY <1>1, <2>1, <4>2
      <4>. QED  BY <1>6, <4>2, <4>3
    <3> HIDE DEF M
    <3>. QED  BY <2>1, <2>2, <3>1 DEF InDomains
  <2>4. ASSUME NEW j \in 1 .. M  PROVE  c[j].size > 0 /\ (j > 1 => end(c[j - 1]) < c[j].pos)
    <3> DEFINE i == j + l - 1
    <3>1. i \in 1 .. N /\ c[j] = x(i) /\ x(i).size > 0
        BY <2>2
    <3>2. ASSUME j > 1  PROVE  end(c[j - 1]) < c[j].pos
      <4>1. j - 1 \in 1 .. M /\ (j - 1) + l - 1 = i - 1 /\ i - 1 \in 1 .. N /\ i > 1
        <5>1. j - 1 \in 1 .. M
            BY <2>1, <3>2
        <5>2. (j - 1) + l - 1 = i - 1
            BY <2>1, <5>1
        <5>3. (j - 1) + l - 1 \in 1 .. N
            BY <2>2, <5>1
        <5>4. i > 1
            BY <2>1, <3>2
        <5>. QED  BY <5>1, <5>2, <5>3, <5>4
      <4>2. c[j - 1] = x(i - 1) /\ x(i - 1).size > 0
          BY Zenon, <2>2, <4>1
      <4> HIDE DEF i
      <4>3. end(x(i - 1)) <= end(d[i - 1]) /\ d[i].pos <= x(i).pos
          BY <1>2, <3>1, <4>1, <4>2
      <4>4. end(d[i - 1]) < d[i].pos /\ end(d[i - 1]) \in Nat /\ d[i].pos \in Nat
          BY <3>1, <4>1, DomainTypes DEF N
      <4>5. end(x(i - 1)) \in Nat /\ x(i).pos \in Nat
          BY <1>2, <3>1, <4>1 DEF end
      <4>. QED  BY <3>1, <4>2, <4>3, <4>4, <4>5
    <3> HIDE DEF i
    <3>. QED  BY <3>1, <3>2
  <2>5. IsDomain(c)
      BY Zenon, <1>6, <2>1, <2>4 DEF IsDomain
  <2>6. c # <<>>
      BY <1>6, <2>1, EmptySeq
  <2>. QED  BY <1>3, <2>3, <2>5, <2>6
<1>. QED  BY Zenon, <1>5, <1>6, <1>7 DEF c

\* A domain of one block of size 0 is empty, cropped or not.
LEMMA NothingIsEmpty ==
  ASSUME NEW p \in Nat
  PROVE  empty(<<[pos |-> p, size |-> 0]>>)
<1> DEFINE x == [pos |-> p, size |-> 0]
           d == <<x>>
<1>1. x.pos = p /\ end(x) = p
    BY DEF end
<1> HIDE DEF x
<1>2. Head(d) = x /\ Last(d) = x
    BY DEF Last
<1> HIDE DEF d
<1>3. domain_pos(d) = p /\ domain_end(d) = p
    BY Zenon, <1>1, <1>2 DEF domain_pos, domain_end
<1>4. empty(d)
    BY <1>3 DEF empty
<1>. QED  BY Zenon, <1>4 DEF d, x

LEMMA EmptyIsEmpty == empty(Empty)
<1>1. 0 \in Nat
    OBVIOUS
<1>. QED  BY Zenon, <1>1, NothingIsEmpty DEF Empty

\* Nothing is left of a domain of one block of size 0.
LEMMA CropNothing ==
  ASSUME NEW p \in Nat, NEW b, IsChunk(b)
  PROVE  crop_domain(<<[pos |-> p, size |-> 0]>>, b) = Empty
<1> DEFINE x == [pos |-> p, size |-> 0]
           d == <<x>>
           R == {0} \cup {i \in DOMAIN d : ~before(b, d[i])}
           r == Max(R)
<1>1. b.pos \in Nat /\ end(b) \in Nat
    BY DEF IsChunk, end
<1>2. d[1] = x /\ DOMAIN d = {1}
    OBVIOUS
<1>3. x.pos = p /\ x.size = 0 /\ end(x) = p
    BY DEF end
<1>4. crop(x, b).size = 0
  <2> DEFINE q == max(p, b.pos)
             e == min(p, end(b))
  <2>1. q \in Nat /\ q >= p /\ e \in Nat /\ e <= p
      BY <1>1 DEF max, min, BM!Larger, BM!Smaller
  <2> HIDE DEF q, e
  <2>2. max(0, e - q) = 0
      BY <2>1 DEF max, BM!Larger
  <2>3. crop(x, b) = [x EXCEPT !.pos = q, !.size = 0]
      BY Zenon, <1>3, <2>2 DEF crop, q, e
  <2>. QED  BY <2>3
<1> HIDE DEF x, d
<1>5. r \in R
  <2>1. R \in SUBSET (0 .. 1) /\ R # {} /\ 1 \in Nat
      BY <1>2
  <2> HIDE DEF R
  <2>. QED  BY <2>1, MaxExists
<1> HIDE DEF r
<1>6. r = 0 \/ crop(d[r], b).size <= 0
    BY <1>2, <1>4, <1>5
<1>7. crop_domain(d, b) = Empty
    BY Zenon, <1>6 DEF crop_domain, r, R
<1>. QED  BY Zenon, <1>7 DEF d, x

\* The domain of a run is a domain, if it has any position, and so is it cropped.
LEMMA RunDomain ==
  ASSUME NEW d, IsRunDomain(d), ~empty(d)  PROVE  IsDomain(d) /\ d # <<>>
<1>1. IsDomain(d) \/ \E p \in Nat : d = <<[pos |-> p, size |-> 0]>>
    BY Zenon DEF IsRunDomain
<1>2. ASSUME NEW p \in Nat, d = <<[pos |-> p, size |-> 0]>>  PROVE  FALSE
    BY Zenon, <1>2, NothingIsEmpty
<1>. QED  BY Zenon, <1>1, <1>2 DEF IsRunDomain

LEMMA CropRunDomain ==
  ASSUME NEW d, IsRunDomain(d), NEW b, IsChunk(b), ~empty(crop_domain(d, b))
  PROVE  LET c == crop_domain(d, b)
         IN  IsDomain(c) /\ c # <<>> /\ InDomains(c) = InDomains(d) \cap Bytes(b)
<1>1. IsDomain(d) \/ \E p \in Nat : d = <<[pos |-> p, size |-> 0]>>
    BY Zenon DEF IsRunDomain
<1>2. ASSUME NEW p \in Nat, d = <<[pos |-> p, size |-> 0]>>  PROVE  FALSE
    BY Zenon, <1>2, CropNothing, EmptyIsEmpty
<1>3. CASE IsDomain(d)
  <2> DEFINE c == crop_domain(d, b)
  <2>1. /\ InDomains(c) = InDomains(d) \cap Bytes(b)
        /\ c = Empty \/ (IsDomain(c) /\ c # <<>>)
      BY <1>3, CropDomain
  <2>. QED  BY Zenon, <2>1, EmptyIsEmpty
<1>. QED  BY Zenon, <1>1, <1>2, <1>3

\* The domain of a run, cropped by the size of the file if that is known.
LEMMA CropToSize ==
  ASSUME NEW d, IsRunDomain(d), NEW n \in 0 .. LLONG_MAX
  PROVE  LET c == IF n > 0 THEN crop_domain(d, assign(0, n)) ELSE d
         IN  ~empty(c) => /\ IsDomain(c) /\ c # <<>>
                          /\ n > 0 => InDomains(c) = InDomains(d) \cap 0 .. n - 1
<1>1. CASE n > 0
  <2>1. LLONG_MAX \in Nat /\ n \in Nat /\ ~(n < 0 \/ n > LLONG_MAX - 0)
      BY LimitAssumption
  <2>2. assign(0, n) = [pos |-> 0, size |-> n]
    <3>1. assign(0, n) = [pos |-> 0, size |-> IF n < 0 \/ n > LLONG_MAX - 0 THEN LLONG_MAX - 0 ELSE n]
        BY <2>1, MadeBlock
    <3>. QED  BY Zenon, <2>1, <3>1
  <2>3. IsChunk(assign(0, n))
      BY <2>1, <2>2 DEF IsChunk
  <2>4. Bytes(assign(0, n)) = 0 .. n - 1
      BY <2>1, <2>2 DEF Bytes, end
  <2>. QED  BY Zenon, <1>1, <2>3, <2>4, CropRunDomain
<1>2. CASE ~(n > 0)
    BY Zenon, <1>2, RunDomain
<1>. QED  BY <1>1, <1>2

\* A map that was truncated at 0 is loaded as if there had been none.
LEMMA EmptyMapIsRead ==
  read_mapfile(EmptyMap, "none").v = EmptyMap
<1> DEFINE z == [pos |-> 0, size |-> 0, st |-> "non_tried"]
           v == <<z>>
<1>1. z \in Lines
    BY LimitAssumption DEF Lines, Sblocks, InRange, end, Status, BM!Status
<1>2. v \in Seq(Lines) /\ Len(v) = 1 /\ v[1] = z
  <2> HIDE DEF z
  <2>. QED  BY <1>1
<1> HIDE DEF v
<1>3. PICK F : /\ F[0] = [ok |-> TRUE, v |-> <<>>]
               /\ \A k \in 1 .. Len(v) : F[k] = AddLine(F[k - 1], v[k], "none")
               /\ read_mapfile(v, "none") = F[Len(v)]
  <2>1. \E F : /\ F[0] = [ok |-> TRUE, v |-> <<>>]
               /\ \A k \in 1 .. Len(v) : F[k] = AddLine(F[k - 1], v[k], "none")
               /\ read_mapfile(v, "none") = F[Len(v)]
      BY <1>2, ReadSteps
  <2>. QED  BY <2>1
<1> HIDE DEF z
<1>4. F[1] = AddLine(F[0], z, "none") /\ read_mapfile(v, "none") = F[1]
  <2>1. 1 \in 1 .. 1 /\ 1 - 1 = 0
      OBVIOUS
  <2>. QED  BY Zenon, <1>2, <1>3, <2>1
<1>5. F[0] \in ReadSoFar /\ F[0].v = <<>>
  <2>1. <<>> \in Seq(Sblocks)
      BY EmptySeq
  <2>. QED  BY <1>3, <2>1 DEF ReadSoFar
<1> DEFINE r == F[0]
           e == IF r.v = <<>> THEN 0 ELSE end(Last(r.v))
           k == r.ok /\ (z.pos = e \/ e <= 0)
           w == r.v \o <<z>>
<1> HIDE DEF r
<1>6. AddLine(r, z, "none") = [ok |-> k, v |-> w]
    BY <1>1, <1>5, LineIsAdded DEF r
<1>7. w = v
  <2>1. <<>> \o <<z>> = <<z>>
    <3>1. <<z>> \in Seq(Lines)
        BY <1>1
    <3>. QED  BY <3>1, ConcatEmptySeq
  <2>. QED  BY Zenon, <1>5, <2>1 DEF r, v
<1> HIDE DEF k, w
<1>8. AddLine(r, z, "none").v = w
    BY <1>6
<1>9. read_mapfile(v, "none").v = v
    BY Zenon, <1>4, <1>7, <1>8 DEF r
<1>. QED  BY Zenon, <1>9 DEF v, z, EmptyMap

LEMMA EmptyMapIsExtended ==
  ASSUME NEW insize \in 0 .. LLONG_MAX
  PROVE  LET a == extend_sblock_vector(EmptyMap, insize)
             b == extend_sblock_vector(<<>>, insize)
         IN  a.ok /\ b.ok /\ compact_sblock_vector(a.v) = compact_sblock_vector(b.v)
<1> DEFINE z == [pos |-> 0, size |-> 0, st |-> "non_tried"]
           n == IF insize > 0 THEN insize - 0 ELSE -1
           t == Sblock(assign(0, n), "non_tried")
<1>1. insize \in Nat /\ n \in Int /\ 0 \in Nat /\ LLONG_MAX \in Nat /\ LLONG_MAX > 0
      /\ insize <= LLONG_MAX
    BY LimitAssumption
<1>2. GoodBlock(t) /\ t.pos = 0 /\ t.st = "non_tried" /\ t.size > 0
  <2>1. 0 <= LLONG_MAX
      BY <1>1
  <2> HIDE DEF n
  <2>2. LET room == LLONG_MAX - 0
        IN  /\ t.pos = 0 /\ t.st = "non_tried" /\ t \in Blocks
            /\ t.size = IF n < 0 \/ n > room THEN room ELSE n
            /\ t.size > 0 => GoodBlock(t)
      BY Zenon, <1>1, <2>1, FreeBlock
  <2> HIDE DEF t
  <2>3. t.size > 0
      BY <1>1, <2>2 DEF n
  <2>. QED  BY <2>2, <2>3
<1>3. extend_sblock_vector(<<>>, insize) = [ok |-> TRUE, v |-> <<t>>]
    BY Zenon DEF extend_sblock_vector
<1>4. extend_sblock_vector(EmptyMap, insize) = [ok |-> TRUE, v |-> <<z, t>>]
  <2> DEFINE v == EmptyMap
             w == (IF Head(v).pos > 0 THEN <<Sblock(assign(0, Head(v).pos), "non_tried")>> ELSE <<>>) \o v
             e == end(Last(v))
             rest == Sblock(assign(e, IF insize > 0 THEN insize - e ELSE -1), "non_tried")
  <2>1. v = <<z>> /\ v # <<>> /\ Head(v) = z /\ Last(v) = z
      BY DEF EmptyMap, Last
  <2>2. z.pos = 0 /\ end(z) = 0 /\ ~(z.pos > 0)
      BY DEF end
  <2>3. rest = t
      BY Zenon, <2>1, <2>2
  <2>4. w = v
    <3>1. w = <<>> \o v
        BY Zenon, <2>1, <2>2
    <3>2. v \in Seq({z})
        BY <2>1
    <3>. QED  BY <3>1, <3>2, ConcatEmptySeq
  <2>5. /\ ~(insize > 0 /\ Last(v).pos >= insize)
        /\ ~(insize > 0 /\ end(Last(v)) > insize)
    <3>1. ~(insize > 0 /\ 0 >= insize) /\ ~(insize > 0 /\ 0 > insize)
        BY <1>1
    <3>. QED  BY Zenon, <2>1, <2>2, <3>1
  <2>6. extend_sblock_vector(v, insize) =
          [ok |-> TRUE, v |-> IF rest.size > 0 THEN Append(w, rest) ELSE w]
      BY Zenon, <2>1, <2>5 DEF extend_sblock_vector
  <2> HIDE DEF t, rest, w, v, z
  <2>9. rest.size > 0 /\ Append(w, rest) = Append(<<z>>, t)
    <3>1. t.size > 0
        BY Zenon, <1>2
    <3>. QED  BY Zenon, <2>1, <2>3, <2>4, <3>1
  <2>7. extend_sblock_vector(v, insize) = [ok |-> TRUE, v |-> Append(<<z>>, t)]
    <3> DEFINE y == IF rest.size > 0 THEN Append(w, rest) ELSE w
    <3>1. y = Append(<<z>>, t)
        BY Zenon, <2>9
    <3>2. extend_sblock_vector(v, insize) = [ok |-> TRUE, v |-> y]
        BY Zenon, <2>6
    <3> HIDE DEF y
    <3>. QED  BY Zenon, <3>1, <3>2
  <2>8. Append(<<z>>, t) = <<z, t>>
    <3> DEFINE U == {z, t}
    <3>1. z \in U /\ t \in U
        OBVIOUS
    <3> HIDE DEF U
    <3>2. <<z>> \in Seq(U)
        BY <3>1
    <3>3. Append(<<z>>, t) = <<z>> \o <<t>>
        BY <3>1, <3>2, AppendIsConcat
    <3>. QED  BY Zenon, <3>3, OneBefore
  <2>. QED  BY Zenon, <2>7, <2>8 DEF v
<1>5. z \in Sblocks /\ t \in Sblocks
    BY <1>1, <1>2 DEF GoodBlock, Blocks, Sblocks, InRange, end, Status, BM!Status
<1>6. z.pos = 0 /\ z.st = "non_tried" /\ end(t) = t.size /\ t = [pos |-> 0, size |-> t.size, st |-> "non_tried"]
    BY <1>2 DEF end, GoodBlock, Blocks
<1> HIDE DEF z, t
<1>7. compact_sblock_vector(<<t>>) = <<t>>
  <2> DEFINE v == <<t>>
  <2>1. v \in Seq(Sblocks) /\ Len(v) = 1 /\ v[1] = t
      BY <1>5
  <2> HIDE DEF v
  <2>2. PICK F : /\ F[0] = <<>>
                 /\ \A k \in 1 .. Len(v) : F[k] = JoinSame(F[k - 1], v[k])
                 /\ compact_sblock_vector(v) = F[Len(v)]
      BY <2>1, CompactSteps
  <2>3. compact_sblock_vector(v) = JoinSame(<<>>, t)
    <3>1. 1 \in 1 .. 1 /\ 1 - 1 = 0
        OBVIOUS
    <3>. QED  BY Zenon, <2>1, <2>2, <3>1
  <2>4. JoinSame(<<>>, t) = Append(<<>>, t)
      BY Zenon DEF JoinSame
  <2>5. Append(<<>>, t) = <<t>>
      OBVIOUS
  <2>. QED  BY Zenon, <2>3, <2>4, <2>5 DEF v
<1>8. compact_sblock_vector(<<z, t>>) = <<t>>
  <2> DEFINE v == <<z, t>>
  <2>1. v \in Seq(Sblocks) /\ Len(v) = 2 /\ v[1] = z /\ v[2] = t
      BY <1>5
  <2> HIDE DEF v
  <2>2. PICK F : /\ F[0] = <<>>
                 /\ \A k \in 1 .. Len(v) : F[k] = JoinSame(F[k - 1], v[k])
                 /\ compact_sblock_vector(v) = F[Len(v)]
      BY <2>1, CompactSteps
  <2>3. compact_sblock_vector(v) = JoinSame(JoinSame(<<>>, z), t)
    <3>1. 1 \in 1 .. 2 /\ 1 - 1 = 0 /\ 2 \in 1 .. 2 /\ 2 - 1 = 1
        OBVIOUS
    <3>. QED  BY Zenon, <2>1, <2>2, <3>1
  <2>4. JoinSame(<<>>, z) = Append(<<>>, z)
      BY Zenon DEF JoinSame
  <2>5. Append(<<>>, z) = <<z>> /\ <<z>> # <<>>
      OBVIOUS
  <2>6. Last(<<z>>) = z /\ Front(<<z>>) = <<>>
      BY DEF Last, Front
  <2>7. JoinSame(<<z>>, t) = <<>> \o <<set_size(z, end(t) - 0)>>
      BY Zenon, <1>2, <1>6, <2>5, <2>6 DEF JoinSame
  <2>8. set_size(z, end(t) - 0) = t
    <3> DEFINE y == set_size(z, end(t) - 0)
    <3>1. end(t) \in Int /\ end(t) >= 0 /\ end(t) <= LLONG_MAX - z.pos /\ end(t) - 0 = end(t)
        BY <1>1, <1>2, <1>6 DEF GoodBlock, Blocks
    <3>2. LET x == set_size(z, end(t))
          IN  /\ x \in Sblocks /\ x.pos = z.pos /\ x.st = z.st
              /\ end(t) >= 0 /\ end(t) <= LLONG_MAX - z.pos => x.size = end(t)
        BY Zenon, <1>5, <3>1, SizeSet
    <3>3. y \in Sblocks /\ y.pos = 0 /\ y.st = "non_tried" /\ y.size = t.size
        BY Zenon, <1>6, <3>1, <3>2
    <3> HIDE DEF y
    <3>4. y = [pos |-> 0, size |-> t.size, st |-> "non_tried"]
        BY <3>3 DEF Sblocks
    <3>. QED  BY Zenon, <1>6, <3>4 DEF y
  <2>9. <<>> \o <<t>> = <<t>>
    <3>1. <<t>> \in Seq({t})
        OBVIOUS
    <3>. QED  BY <3>1, ConcatEmptySeq
  <2>. QED  BY Zenon, <2>3, <2>4, <2>5, <2>7, <2>8, <2>9 DEF v
<1>9. [ok |-> TRUE, v |-> <<t>>].ok /\ [ok |-> TRUE, v |-> <<t>>].v = <<t>>
      /\ [ok |-> TRUE, v |-> <<z, t>>].ok /\ [ok |-> TRUE, v |-> <<z, t>>].v = <<z, t>>
    OBVIOUS
<1>. QED  BY Zenon, <1>3, <1>4, <1>7, <1>8, <1>9

\* A run makes the same of u as of the blocks v.
SameForRun(u, v, insize) ==
  /\ Consecutive(v)
  /\ extend_sblock_vector(u, insize).ok => extend_sblock_vector(v, insize).ok
  /\ compact_sblock_vector(extend_sblock_vector(u, insize).v)
       = compact_sblock_vector(extend_sblock_vector(v, insize).v)

LEMMA ReadForRun ==
  ASSUME NEW lines, IsMapLines(lines), read_mapfile(lines, "none").ok,
         NEW insize \in 0 .. LLONG_MAX
  PROVE  \E v : /\ SameForRun(read_mapfile(lines, "none").v, v, insize)
                /\ v = lines \/ (v = <<>> /\ lines = EmptyMap)
<1>1. CASE lines = EmptyMap
  <2>1. read_mapfile(lines, "none").v = EmptyMap
      BY Zenon, <1>1, EmptyMapIsRead
  <2>2. 0 \in Nat
      OBVIOUS
  <2>3. Consecutive(<<>>)
      BY Zenon, <2>2, SpanNone DEF Span
  <2>4. SameForRun(EmptyMap, <<>>, insize)
      BY Zenon, <2>3, EmptyMapIsExtended DEF SameForRun
  <2>. QED  BY Zenon, <1>1, <2>1, <2>4
<1>2. CASE lines # EmptyMap
  <2>1. lines \in Seq(Blocks) /\ DOMAIN lines = 1 .. Len(lines)
        /\ \A i \in DOMAIN lines : lines[i].size > 0 /\ end(lines[i]) <= LLONG_MAX
      BY <1>2, LenProperties DEF IsMapLines
  <2>2. \A i \in 1 .. Len(lines) : GoodBlock(lines[i])
    <3>1. \A i \in 1 .. Len(lines) : lines[i] \in Blocks
        BY <2>1, ElementOfSeq
    <3>. QED  BY Zenon, <2>1, <3>1 DEF GoodBlock
  <2>3. read_mapfile(lines, "none").v = lines /\ Consecutive(lines)
      BY Zenon, <2>1, <2>2, ReadIs
  <2>4. SameForRun(lines, lines, insize)
      BY Zenon, <2>3 DEF SameForRun
  <2>. QED  BY Zenon, <2>3, <2>4
<1>. QED  BY <1>1, <1>2

\* A map in memory reaches as far as the input, and the domain no farther.
CoversInput(book, d, insize) ==
  insize > 0 =>
    /\ \A p \in 0 .. insize - 1 : \E x \in BlocksOf(book.v) : p \in Bytes(x)
    /\ InDomains(book.domain) = InDomains(d) \cap 0 .. insize - 1

LEMMA VectorCovers ==
  ASSUME NEW v, IsVector(v), NEW n \in Nat, end(v[Len(v)]) = n
  PROVE  \A p \in 0 .. n - 1 : \E x \in BlocksOf(v) : p \in Bytes(x)
<1>1. SUFFICES ASSUME NEW p \in 0 .. n - 1  PROVE  \E x \in BlocksOf(v) : p \in Bytes(x)
    OBVIOUS
<1>2. p \in Nat /\ 0 <= p /\ p < n
    OBVIOUS
<1>3. Chain(v) /\ v[1].pos = 0
    BY Zenon, VectorIsChain
<1>4. PICK i \in 1 .. Len(v) : includes_pos(v[i], p)
    BY Zenon, <1>2, <1>3, SomeBlockHolds
<1>5. v[i].pos \in Nat /\ end(v[i]) \in Nat
    BY <1>3, ChainBlocks
<1>6. p \in Bytes(v[i])
    BY <1>2, <1>4, <1>5 DEF Bytes, includes_pos
<1>. QED  BY Zenon, <1>6 DEF BlocksOf

\* What the constructor of Mapbook makes of the blocks it reads.
LEMMA MapbookIsGentle ==
  ASSUME NEW u, NEW v, NEW d, IsRunDomain(d), NEW insize \in 0 .. LLONG_MAX,
         SameForRun(u, v, insize),
         NEW complete_only \in BOOLEAN, ~complete_only, NEW rescue \in BOOLEAN,
         NEW hardbs \in Nat \ {0}, NEW book,
         book = Mapbook(u, d, insize, complete_only, rescue, hardbs),
         book.ok, ~empty(book.domain)
  PROVE  /\ IsVector(book.v) /\ Gentle(BlocksOf(book.v), BlocksOf(v))
         /\ IsDomain(book.domain) /\ SplitFrom(BlocksOf(book.v), book.domain, 1)
         /\ CoversInput(book, d, insize)
<1> DEFINE d1   == IF insize > 0 THEN crop_domain(d, assign(0, insize)) ELSE d
           ext  == extend_sblock_vector(v, insize)
           read == extend_sblock_vector(u, insize)
           w    == compact_sblock_vector(ext.v)
           w1   == IF rescue THEN join_subsectors(w, hardbs) ELSE w
           w2   == split_by_domain_borders(w1, d1)
           good == read.ok /\ (insize > 0 => domain_pos(d) < insize)
           dom  == IF w2 = <<>> THEN Empty ELSE d1
<1>1. book = [ok |-> good, v |-> w2, domain |-> dom]
  <2> DEFINE y1 == compact_sblock_vector(read.v)
             y2 == IF rescue THEN join_subsectors(y1, hardbs) ELSE y1
             y3 == split_by_domain_borders(y2, d1)
  <2>1. y1 = w
      BY Zenon DEF SameForRun
  <2>2. y3 = w2
      BY Zenon, <2>1
  <2>3. book = [ok |-> good, v |-> y3, domain |-> IF y3 = <<>> THEN Empty ELSE d1]
      BY Zenon DEF Mapbook
  <2> HIDE DEF y3, w2
  <2>. QED  BY Zenon, <2>2, <2>3
<1> HIDE DEF d1, ext, read, w, w1, w2, good, dom
<1>2. book.ok = good /\ book.v = w2 /\ book.domain = dom
    BY <1>1
<1>3. /\ IsVector(ext.v) /\ Gentle(BlocksOf(ext.v), BlocksOf(v))
      /\ insize > 0 => end(ext.v[Len(ext.v)]) = insize
  <2>1. ext.ok /\ Consecutive(v)
      BY Zenon, <1>2 DEF good, SameForRun, ext, read
  <2>. QED  BY Zenon, <2>1, ExtendIsGentle DEF ext
<1> DEFINE x == ext.v
<1> HIDE DEF x
<1>4. IsVector(w) /\ Same(BlocksOf(w), BlocksOf(x)) /\ end(w[Len(w)]) = end(x[Len(x)])
  <2>1. Consecutive(x) /\ x # <<>> /\ x[1].pos = 0
      BY Zenon, <1>3 DEF IsVector, x
  <2>2. Row(w, x[1], x[Len(x)]) /\ Same(BlocksOf(w), BlocksOf(x))
      BY Zenon, <2>1, CompactIsSame DEF w, x
  <2>. QED  BY Zenon, <2>1, <2>2, RowIsVector DEF Row
<1>5. IsVector(w1) /\ Gentle(BlocksOf(w1), BlocksOf(w)) /\ end(w1[Len(w1)]) = end(w[Len(w)])
  <2>1. CASE rescue
    <3>1. Consecutive(w) /\ w # <<>> /\ w[1].pos = 0
        BY Zenon, <1>4 DEF IsVector
    <3>2. Row(w1, w[1], w[Len(w)]) /\ Gentle(BlocksOf(w1), BlocksOf(w))
        BY Zenon, <2>1, <3>1, JoinIsGentle DEF w1
    <3>. QED  BY Zenon, <3>1, <3>2, RowIsVector DEF Row
  <2>2. CASE ~rescue
    <3>1. w1 = w
        BY Zenon, <2>2 DEF w1
    <3>2. BlocksOf(w) \in SUBSET Blocks
        BY <1>4, VectorTypes, TheirBlocks
    <3>3. Gentle(BlocksOf(w), BlocksOf(w))
        BY <3>2, SameSets, SameIsGentle
    <3>. QED  BY Zenon, <1>4, <3>1, <3>3
  <2>. QED  BY <2>1, <2>2
<1>6. /\ dom = d1 /\ IsDomain(d1) /\ d1 # <<>>
      /\ insize > 0 => InDomains(d1) = InDomains(d) \cap 0 .. insize - 1
  <2>1. dom = d1
      BY Zenon, <1>2, EmptyIsEmpty DEF dom
  <2>2. ~empty(d1)
      BY Zenon, <1>2, <2>1
  <2>. QED  BY Zenon, <2>1, <2>2, CropToSize DEF d1
<1>7. IsVector(w2) /\ Same(BlocksOf(w2), BlocksOf(w1)) /\ SplitFrom(BlocksOf(w2), d1, 1)
    BY Zenon, <1>5, <1>6, SplitByDomain DEF w2
<1>8. Gentle(BlocksOf(w2), BlocksOf(v))
  <2> DEFINE V == BlocksOf(v)
             X == BlocksOf(x)
             W == BlocksOf(w)
             W1 == BlocksOf(w1)
             W2 == BlocksOf(w2)
  <2>1. V \in SUBSET Blocks /\ X \in SUBSET Blocks /\ W \in SUBSET Blocks
        /\ W1 \in SUBSET Blocks /\ W2 \in SUBSET Blocks
    <3>1. /\ v \in Seq(Blocks) /\ x \in Seq(Blocks) /\ w \in Seq(Blocks)
          /\ w1 \in Seq(Blocks) /\ w2 \in Seq(Blocks)
        BY Zenon, <1>3, <1>4, <1>5, <1>7 DEF IsVector, Consecutive, SameForRun, x
    <3>. QED  BY <3>1, TheirBlocks
  <2>2. /\ Gentle(X, V) /\ Same(W, X) /\ Gentle(W1, W) /\ Same(W2, W1)
      BY Zenon, <1>3, <1>4, <1>5, <1>7 DEF x
  <2> HIDE DEF V, X, W, W1, W2
  <2>3. Gentle(W, X) /\ Gentle(W2, W1)
      BY <2>1, <2>2, SameIsGentle
  <2>4. Gentle(W, V)
      BY <2>1, <2>2, <2>3, GentleTransitive
  <2>5. Gentle(W1, V)
      BY <2>1, <2>2, <2>4, GentleTransitive
  <2>6. Gentle(W2, V)
      BY <2>1, <2>3, <2>5, GentleTransitive
  <2>. QED  BY Zenon, <2>6 DEF W2, V
<1>9. CoversInput(book, d, insize)
  <2>1. SUFFICES ASSUME insize > 0
                 PROVE  \A p \in 0 .. insize - 1 : \E y \in BlocksOf(w2) : p \in Bytes(y)
      BY Zenon, <1>2, <1>6 DEF CoversInput
  <2>2. end(w1[Len(w1)]) = insize /\ insize \in Nat
    <3>1. insize \in Nat
        OBVIOUS
    <3>. QED  BY Zenon, <1>3, <1>4, <1>5, <2>1, <3>1 DEF x
  <2>3. \A p \in 0 .. insize - 1 : \E y \in BlocksOf(w1) : p \in Bytes(y)
      BY Zenon, <1>5, <2>2, VectorCovers
  <2>. QED  BY Zenon, <1>7, <2>3 DEF Same, StatusKept
<1>. QED  BY Zenon, <1>2, <1>6, <1>7, <1>8, <1>9

\* Of a block that no border of the domain lies inside of, all positions are in
\* the domain or none.
LEMMA InOrOut ==
  ASSUME NEW d, IsDomain(d), NEW x, GoodBlock(x), SplitFrom({x}, d, 1),
         NEW p \in Bytes(x), NEW q \in Bytes(x), p \in InDomains(d)
  PROVE  q \in InDomains(d)
<1>1. PICK k \in 1 .. Len(d) : p \in Bytes(d[k])
  <2>1. DOMAIN d = 1 .. Len(d)
      BY DomainTypes
  <2>. QED  BY <2>1 DEF InDomains
<1>2. d[k].pos \in Nat /\ end(d[k]) \in Nat
    BY DomainTypes
<1>3. x.pos \in Nat /\ end(x) \in Nat
    BY DEF GoodBlock, Blocks, end
<1>4. ~strictly_includes(x, d[k].pos) /\ ~strictly_includes(x, end(d[k]))
    BY DEF SplitFrom
<1>5. q \in Bytes(d[k])
  <2> DEFINE a == d[k].pos
             b == end(d[k])
  <2>1. p \in a .. b - 1 /\ p \in x.pos .. end(x) - 1 /\ q \in x.pos .. end(x) - 1
      BY Zenon, <1>1 DEF Bytes
  <2>2. a \in Nat /\ b \in Nat
      BY <1>2
  <2>3. ~(x.pos < a /\ end(x) > a) /\ ~(x.pos < b /\ end(x) > b)
      BY Zenon, <1>4 DEF strictly_includes
  <2> HIDE DEF a, b
  <2>4. q \in a .. b - 1
      BY <1>3, <2>1, <2>2, <2>3
  <2>. QED  BY Zenon, <2>4 DEF Bytes, a, b
<1>6. k \in DOMAIN d
    BY DomainTypes
<1>. QED  BY <1>5, <1>6 DEF InDomains

\* A position of a block.
LEMMA HoldsByte ==
  ASSUME NEW x, GoodBlock(x), NEW p
  PROVE  p \in Bytes(x) <=> p \in Nat /\ includes_pos(x, p)
<1>1. x.pos \in Nat /\ end(x) \in Nat
    BY DEF GoodBlock, Blocks, end
<1>. QED  BY <1>1 DEF Bytes, includes_pos

\* What a run makes of a mapfile that it neither extends nor joins the sectors of: the
\* same statuses, and of the domain what the mapfile covers.
KeepsMap(book, lines, d) ==
  /\ Chain(lines)
  /\ Chain(book.v) /\ Same(BlocksOf(book.v), BlocksOf(lines))
  /\ IsDomain(book.domain) /\ SplitFrom(BlocksOf(book.v), book.domain, 1)
  /\ InDomains(book.domain) = InDomains(d) \cap Bytes(extent(lines))

LEMMA MapbookKeeps ==
  ASSUME NEW lines, IsMapLines(lines), lines # <<>>, read_mapfile(lines, "none").ok,
         NEW d, IsRunDomain(d), NEW insize, ~(insize > 0),
         NEW complete_only \in BOOLEAN, complete_only, NEW rescue \in BOOLEAN, ~rescue,
         NEW hardbs, NEW book,
         book = Mapbook(read_mapfile(lines, "none").v, d, insize, complete_only, rescue, hardbs),
         ~empty(book.domain)
  PROVE  KeepsMap(book, lines, d)
<1> DEFINE v    == read_mapfile(lines, "none").v
           d1   == IF insize > 0 THEN crop_domain(d, assign(0, insize)) ELSE d
           ext  == IF complete_only THEN [ok |-> TRUE, v |-> v]
                   ELSE extend_sblock_vector(v, insize)
           d2   == IF complete_only THEN crop_domain(d1, extent(v)) ELSE d1
           w    == compact_sblock_vector(ext.v)
           w1   == IF rescue THEN join_subsectors(w, hardbs) ELSE w
           w2   == split_by_domain_borders(w1, d2)
           good == ext.ok /\ (insize > 0 => domain_pos(d) < insize)
           dom  == IF w2 = <<>> THEN Empty ELSE d2
           c    == crop_domain(d, extent(v))
           x    == compact_sblock_vector(v)
<1>1. book = [ok |-> good, v |-> w2, domain |-> dom]
    BY Zenon DEF Mapbook
<1>2. d1 = d /\ ext.v = v
    OBVIOUS
<1>3. d2 = c /\ w1 = x
    BY <1>2
<1> HIDE DEF d1, ext, d2, w, w1, c, x
<1>4. w2 = split_by_domain_borders(x, c)
  <2>1. w2 = split_by_domain_borders(w1, d2)
      OBVIOUS
  <2> HIDE DEF w2
  <2>. QED  BY ONLY <1>3, <2>1
<1> HIDE DEF good, w2, dom
<1>5. book.v = w2 /\ book.domain = dom
    BY ONLY <1>1
<1>6. dom = c /\ ~empty(c)
    BY Zenon, <1>3, <1>5, EmptyIsEmpty DEF dom
<1>7. IsChunk(extent(v)) => IsDomain(c) /\ c # <<>> /\ InDomains(c) = InDomains(d) \cap Bytes(extent(v))
    BY Zenon, <1>6, CropRunDomain DEF c
<1>8. CASE lines = EmptyMap
  <2>1. v = EmptyMap
      BY Zenon, <1>8, EmptyMapIsRead
  <2>2. extent(EmptyMap) = [pos |-> 0, size |-> 0]
    <3> DEFINE z == [pos |-> 0, size |-> 0, st |-> "non_tried"]
               m == <<z>>
    <3>1. z.pos = 0 /\ end(z) = 0
        BY DEF end
    <3> HIDE DEF z
    <3>2. Head(m) = z /\ Last(m) = z /\ m # <<>>
        BY DEF Last
    <3> HIDE DEF m
    <3>3. extent(m) = [pos |-> Head(m).pos, size |-> end(Last(m)) - Head(m).pos]
        BY Zenon, <3>2 DEF extent
    <3>4. extent(m) = [pos |-> 0, size |-> 0]
        BY <3>1, <3>2, <3>3
    <3>. QED  BY Zenon, <3>4 DEF m, z, EmptyMap
  <2> HIDE DEF v
  <2>3. IsChunk(extent(v)) /\ Bytes(extent(v)) = {}
      BY <2>1, <2>2 DEF IsChunk, Bytes, end
  <2>4. IsDomain(c) /\ c # <<>> /\ InDomains(c) = {}
      BY Zenon, <1>7, <2>3
  <2>5. 1 \in 1 .. Len(c) /\ DOMAIN c = 1 .. Len(c)
    <3>1. c \in Seq([pos : Nat, size : Nat])
        BY <2>4 DEF IsDomain
    <3>. QED  BY <2>4, <3>1, EmptySeq, LenProperties
  <2>6. c[1].pos \in InDomains(c)
    <3>1. c[1].pos \in Nat /\ end(c[1]) \in Nat /\ c[1].pos < end(c[1])
        BY <2>4, <2>5, DomainTypes
    <3>2. c[1].pos \in Bytes(c[1])
        BY <3>1 DEF Bytes
    <3>. QED  BY <2>5, <3>2 DEF InDomains
  <2>. QED  BY <2>4, <2>6
<1>9. CASE lines # EmptyMap
  <2>1. lines \in Seq(Blocks) /\ DOMAIN lines = 1 .. Len(lines)
        /\ \A i \in DOMAIN lines : lines[i].size > 0 /\ end(lines[i]) <= LLONG_MAX
      BY <1>9, LenProperties DEF IsMapLines
  <2>2. \A i \in 1 .. Len(lines) : GoodBlock(lines[i])
    <3>1. \A i \in 1 .. Len(lines) : lines[i] \in Blocks
        BY <2>1, ElementOfSeq
    <3>. QED  BY Zenon, <2>1, <3>1 DEF GoodBlock
  <2>3. v = lines /\ Chain(lines)
    <3>1. read_mapfile(lines, "none").v = lines /\ Consecutive(lines)
        BY Zenon, <2>1, <2>2, ReadIs
    <3>. QED  BY Zenon, <3>1 DEF Chain
  <2> HIDE DEF v
  <2>4. IsChunk(extent(lines))
    <3> DEFINE n == Len(lines)
    <3>1. lines \in Seq(Blocks) /\ n \in Nat /\ 1 \in 1 .. n /\ n \in 1 .. n /\ lines # <<>>
        BY <2>3, ChainTypes
    <3>2. /\ lines[1].pos \in Nat /\ lines[n].pos \in Nat /\ end(lines[n]) \in Nat
          /\ lines[1].pos < end(lines[1]) /\ end(lines[1]) \in Nat
          /\ lines[n].pos < end(lines[n])
        BY <2>3, <3>1, ChainBlocks
    <3>3. 1 < n => end(lines[1]) <= lines[n].pos
        BY <2>3, <3>1, ChainInOrder
    <3>4. extent(lines) = [pos |-> lines[1].pos, size |-> end(lines[n]) - lines[1].pos]
      <4>1. Head(lines) = lines[1] /\ Last(lines) = lines[n]
        <5>1. Head(lines) = lines[1]
            BY <3>1, HeadAndTail
        <5>. QED  BY <5>1 DEF Last
      <4>. QED  BY Zenon, <3>1, <4>1 DEF extent
    <3>5. end(lines[n]) - lines[1].pos \in Nat
        BY <3>1, <3>2, <3>3
    <3> HIDE DEF n
    <3>. QED  BY <3>2, <3>4, <3>5 DEF IsChunk
  <2>5. IsDomain(c) /\ c # <<>> /\ InDomains(c) = InDomains(d) \cap Bytes(extent(lines))
      BY Zenon, <1>7, <2>3, <2>4
  <2>6. Chain(x) /\ Same(BlocksOf(x), BlocksOf(lines))
    <3>1. Consecutive(lines)
        BY <2>3 DEF Chain
    <3> DEFINE u == compact_sblock_vector(lines)
    <3>2. Row(u, lines[1], lines[Len(lines)]) /\ Same(BlocksOf(u), BlocksOf(lines))
        BY Zenon, <3>1, CompactIsSame
    <3>. QED  BY Zenon, <2>3, <3>2 DEF Row, Chain, x
  <2>7. Chain(w2) /\ Same(BlocksOf(w2), BlocksOf(x)) /\ SplitFrom(BlocksOf(w2), c, 1)
      BY Zenon, <1>4, <2>5, <2>6, SplitChain
  <2>8. Same(BlocksOf(w2), BlocksOf(lines))
      BY <2>6, <2>7, SameTransitive
  <2>. QED  BY Zenon, <1>5, <1>6, <2>3, <2>5, <2>7, <2>8 DEF KeepsMap
<1>. QED  BY <1>8, <1>9
=============================================================================
