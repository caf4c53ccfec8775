--------------------------- MODULE VectorProofs ----------------------------
(***************************************************************************)
(* Theorems about blocks, domains and the vector of blocks (MapVector),    *)
(* for every LLONG_MAX, vector, domain and block.                          *)
(***************************************************************************)
EXTENDS MapVector, SequenceTheorems, FiniteSetTheorems, WellFoundedInduction, TLAPS


\* The blocks that the class's invariant allows.
Sblocks == {b \in [pos : Nat, size : Nat, st : Status] : InRange(b)}


\* A block made of a position and a size.
LEMMA AssignInRange ==
  ASSUME NEW p \in Int, NEW s \in Int
  PROVE  p <= LLONG_MAX => InRange(assign(p, s))
<1> DEFINE q == max(p, 0)
           n == IF p < 0 /\ s > 0 THEN s - min(s, -p) ELSE s
           c == [pos |-> q, size |-> n]
<1>0. LLONG_MAX \in Nat
    BY LimitAssumption
<1>1. q \in Nat /\ n \in Int /\ (p <= LLONG_MAX => q <= LLONG_MAX)
    BY <1>0 DEF max, BM!Larger, min, BM!Smaller
<1>2. assign(p, s) = fix_size(c)
    BY DEF assign
<1> HIDE DEF q, n
<1>3. c.pos = q /\ c.size = n
    OBVIOUS
<1>4. CASE n < 0 \/ n > LLONG_MAX - q
  <2>1. fix_size(c) = [c EXCEPT !.size = LLONG_MAX - q]
      BY <1>3, <1>4 DEF fix_size
  <2>2. fix_size(c).pos = q /\ fix_size(c).size = LLONG_MAX - q
      BY <2>1
  <2>. QED  BY <1>0, <1>1, <1>2, <2>2 DEF InRange, end
<1>5. CASE ~(n < 0 \/ n > LLONG_MAX - q)
  <2>1. fix_size(c) = c
      BY <1>3, <1>5 DEF fix_size
  <2>. QED  BY <1>0, <1>1, <1>2, <1>3, <1>5, <2>1 DEF InRange, end
<1>. QED  BY <1>4, <1>5


\* What is known of the fields of a block.
LEMMA BlockRecord ==
  ASSUME NEW b \in Sblocks  PROVE  b \in [pos : Nat, size : Nat, st : Status]
BY DEF Sblocks


\* shift, by a positive or a negative offset.
LEMMA ShiftInRange ==
  ASSUME NEW b \in Sblocks, NEW n \in Int  PROVE  InRange(shift(b, n))
<1>0. LLONG_MAX \in Nat /\ b.pos \in Nat /\ b.size \in Nat /\ b.pos + b.size <= LLONG_MAX
    BY LimitAssumption DEF Sblocks, InRange, end
<1> DEFINE p == b.pos + min(n, LLONG_MAX - b.pos)
           s == min(b.size, LLONG_MAX - p)
           r == max(b.size + b.pos + n, 0)
           q == b.pos + n
<1>1. CASE n >= 0
  <2>1. p \in Nat /\ s \in Nat /\ p + s <= LLONG_MAX
      BY <1>0, <1>1 DEF min, BM!Smaller
  <2>2. shift(b, n) = [b EXCEPT !.pos = p, !.size = s]
      BY <1>1 DEF shift
  <2> HIDE DEF p, s
  <2>3. shift(b, n).pos = p /\ shift(b, n).size = s
      BY <2>2, BlockRecord
  <2>. QED  BY <1>0, <2>1, <2>3 DEF InRange, end
<1>2. CASE n < 0 /\ b.pos + n < 0
  <2>1. r \in Nat /\ 0 + r <= LLONG_MAX
      BY <1>0, <1>2 DEF max, BM!Larger
  <2>2. shift(b, n) = [b EXCEPT !.pos = 0, !.size = r]
      BY <1>2 DEF shift
  <2> HIDE DEF r
  <2>3. shift(b, n).pos = 0 /\ shift(b, n).size = r
      BY <2>2, BlockRecord
  <2>. QED  BY <1>0, <2>1, <2>3 DEF InRange, end
<1>3. CASE n < 0 /\ b.pos + n >= 0
  <2>1. q \in Nat /\ q + b.size <= LLONG_MAX /\ q + 0 <= LLONG_MAX
      BY <1>0, <1>3
  <2>2. shift(b, n) = [b EXCEPT !.pos = q]
      BY <1>0, <1>3 DEF shift
  <2> HIDE DEF q
  <2>3. shift(b, n).pos = q /\ shift(b, n).size = b.size
      BY <2>2, BlockRecord
  <2>. QED  BY <1>0, <2>1, <2>3 DEF InRange, end
<1>. QED  BY <1>0, <1>1, <1>2, <1>3


\* enlarge, by a size or, if that is negative, as far as possible.
LEMMA EnlargeInRange ==
  ASSUME NEW b \in Sblocks, NEW n \in Int  PROVE  InRange(enlarge(b, n))
<1>0. LLONG_MAX \in Nat /\ b.pos \in Nat /\ b.size \in Nat /\ b.pos + b.size <= LLONG_MAX
    BY LimitAssumption DEF Sblocks, InRange, end
<1> DEFINE s == b.size + IF n < 0 THEN LLONG_MAX - end(b) ELSE min(n, LLONG_MAX - end(b))
<1>1. s \in Nat /\ b.pos + s <= LLONG_MAX /\ 0 + s <= LLONG_MAX
    BY <1>0 DEF min, BM!Smaller, end
<1>2. enlarge(b, n) = [b EXCEPT !.size = s]
    BY DEF enlarge
<1> HIDE DEF s
<1>3. enlarge(b, n).pos = b.pos /\ enlarge(b, n).size = s
    BY <1>2, BlockRecord
<1>. QED  BY <1>0, <1>1, <1>3 DEF InRange, end


\* A block moved to an end.
LEMMA SetEndInRange ==
  ASSUME NEW b \in Sblocks, NEW n \in Int, n <= LLONG_MAX  PROVE  InRange(set_end(b, n))
<1>0. LLONG_MAX \in Nat /\ b.pos \in Nat /\ b.size \in Nat /\ b.pos + b.size <= LLONG_MAX
    BY LimitAssumption DEF Sblocks, InRange, end
<1> DEFINE f == IF n < 0 THEN LLONG_MAX ELSE n
           p == f - b.size
<1>1. f \in Nat /\ f <= LLONG_MAX
    BY <1>0
<1>2. CASE b.size <= f
  <2>1. set_end(b, n) = [b EXCEPT !.pos = p]
      BY <1>2 DEF set_end
  <2>2. p \in Nat /\ p + b.size <= LLONG_MAX /\ p + 0 <= LLONG_MAX
      BY <1>0, <1>1, <1>2
  <2> HIDE DEF f, p
  <2>3. set_end(b, n).pos = p /\ set_end(b, n).size = b.size
      BY <2>1, BlockRecord
  <2>. QED  BY <1>0, <2>2, <2>3 DEF InRange, end
<1>3. CASE ~(b.size <= f)
  <2>1. set_end(b, n) = [b EXCEPT !.pos = 0, !.size = f]
      BY <1>3 DEF set_end
  <2> HIDE DEF f, p
  <2>2. set_end(b, n).pos = 0 /\ set_end(b, n).size = f
      BY <2>1, BlockRecord
  <2>. QED  BY <1>0, <1>1, <2>2 DEF InRange, end
<1>. QED  BY <1>2, <1>3


\* A block moved to a position.
LEMMA SetPosInRange ==
  ASSUME NEW b \in Sblocks, NEW n \in Int, n <= LLONG_MAX  PROVE  InRange(set_pos(b, n))
<1>0. LLONG_MAX \in Nat /\ b.pos \in Nat /\ b.size \in Nat /\ b.pos + b.size <= LLONG_MAX
    BY LimitAssumption DEF Sblocks, InRange, end
<1> DEFINE q == max(n, 0)
           s == min(b.size, LLONG_MAX - q)
<1>1. q \in Nat /\ q <= LLONG_MAX
    BY <1>0 DEF max, BM!Larger
<1>2. set_pos(b, n) = [b EXCEPT !.pos = q, !.size = s]
    BY DEF set_pos
<1> HIDE DEF q
<1>3. s \in Nat /\ q + s <= LLONG_MAX
    BY <1>0, <1>1 DEF min, BM!Smaller
<1> HIDE DEF s
<1>4. set_pos(b, n).pos = q /\ set_pos(b, n).size = s
    BY <1>2, BlockRecord
<1>. QED  BY <1>0, <1>1, <1>3, <1>4 DEF InRange, end


\* A block given a size.
LEMMA SetSizeInRange ==
  ASSUME NEW b \in Sblocks, NEW n \in Int  PROVE  InRange(set_size(b, n))
<1>0. LLONG_MAX \in Nat /\ b.pos \in Nat /\ b.size \in Nat /\ b.pos + b.size <= LLONG_MAX
    BY LimitAssumption DEF Sblocks, InRange, end
<1> DEFINE c == [b EXCEPT !.size = n]
<1>1. b \in [pos : Nat, size : Nat, st : Status]
    BY DEF Sblocks
<1>2. c.pos = b.pos /\ c.size = n
    BY <1>1
<1>3. set_size(b, n) = fix_size(c)
    BY DEF set_size
<1> HIDE DEF c
<1>4. CASE n < 0 \/ n > LLONG_MAX - b.pos
  <2>1. fix_size(c) = [c EXCEPT !.size = LLONG_MAX - b.pos]
      BY <1>2, <1>4 DEF fix_size
  <2>2. c \in [pos : Nat, size : Int, st : Status]
      BY <1>1 DEF c
  <2>3. fix_size(c).pos = b.pos /\ fix_size(c).size = LLONG_MAX - b.pos
      BY <1>2, <2>1, <2>2
  <2>. QED  BY <1>0, <1>3, <2>3 DEF InRange, end
<1>5. CASE ~(n < 0 \/ n > LLONG_MAX - b.pos)
  <2>1. fix_size(c) = c
      BY <1>2, <1>5 DEF fix_size
  <2>. QED  BY <1>0, <1>2, <1>3, <1>5, <2>1 DEF InRange, end
<1>. QED  BY <1>3, <1>4, <1>5

-----------------------------------------------------------------------------
(***************************************************************************)
(* The vector of blocks: its order, and the search of a position.          *)
(***************************************************************************)

\* A set of natural numbers that is not empty has a least element ...
LEMMA MinExists ==
  ASSUME NEW S \in SUBSET Nat, S # {}
  PROVE  Min(S) \in S /\ \A y \in S : Min(S) <= y
<1> DEFINE T == {0 .. x : x \in S}
<1>1. T \subseteq FiniteSubsetsOf(Nat) /\ T # {}
  <2>1. \A x \in S : 0 .. x \in SUBSET Nat /\ IsFiniteSet(0 .. x)
      BY FS_Interval
  <2>. QED  BY <2>1 DEF FiniteSubsetsOf
<1>2. PICK t \in T : \A y \in T : ~(<<y, t>> \in StrictSubsetOrdering(Nat))
  <2> HIDE DEF T
  <2>. QED  BY <1>1, FS_StrictSubsetOrderingWellFounded, WFMin
<1>3. PICK x \in S : t = 0 .. x
    OBVIOUS
<1>4. ASSUME NEW y \in S  PROVE  x <= y
  <2>1. ~(0 .. y \subseteq 0 .. x) \/ 0 .. y = 0 .. x
    <3>1. ~(<<0 .. y, 0 .. x>> \in StrictSubsetOrdering(Nat))
        BY <1>2, <1>3
    <3>. QED  BY <3>1 DEF StrictSubsetOrdering
  <2>2. x \in Nat /\ y \in Nat
      OBVIOUS
  <2>3. CASE 0 .. y = 0 .. x
      BY <2>2, <2>3
  <2>4. CASE ~(0 .. y \subseteq 0 .. x)
      BY <2>2, <2>4
  <2>. QED  BY <2>1, <2>3, <2>4
<1>. QED  BY <1>4 DEF Min


\* ... and a greatest one, if it is bounded.
LEMMA MaxExists ==
  ASSUME NEW n \in Nat, NEW S \in SUBSET (0 .. n), S # {}
  PROVE  Max(S) \in S /\ \A y \in S : Max(S) >= y
<1> DEFINE T == {n - x : x \in S}
<1>1. T \in SUBSET Nat /\ T # {}
  <2>1. \A x \in S : n - x \in Nat
      OBVIOUS
  <2>. QED  BY <2>1
<1>2. Min(T) \in T /\ \A y \in T : Min(T) <= y
  <2> HIDE DEF T
  <2>. QED  BY <1>1, MinExists
<1>3. PICK x \in S : Min(T) = n - x
    BY <1>2
<1>4. ASSUME NEW y \in S  PROVE  x >= y
  <2>1. n - x <= n - y
      BY <1>2, <1>3
  <2>. QED  BY <2>1
<1>. QED  BY <1>4 DEF Max


\* Blocks that follow one another, wherever the first of them begins.
Chain(v) == Consecutive(v) /\ v # <<>>


LEMMA VectorIsChain == \A v : IsVector(v) <=> Chain(v) /\ v[1].pos = 0
BY DEF IsVector, Chain


\* Their indices ...
LEMMA ChainTypes ==
  ASSUME NEW v, Chain(v)
  PROVE  v \in Seq(Blocks) /\ Len(v) \in Nat /\ 1 \in 1 .. Len(v) /\ DOMAIN v = 1 .. Len(v)
BY EmptySeq, LenProperties DEF Chain, Consecutive


LEMMA VectorTypes ==
  ASSUME NEW v, IsVector(v)
  PROVE  v \in Seq(Blocks) /\ Len(v) \in Nat /\ 1 \in 1 .. Len(v) /\ DOMAIN v = 1 .. Len(v)
BY ChainTypes, VectorIsChain


\* ... and the blocks, as numbers.
LEMMA ChainBlocks ==
  ASSUME NEW v, Chain(v), NEW i \in 1 .. Len(v)
  PROVE  /\ v[i] \in Blocks /\ v[i].pos \in Nat /\ v[i].size \in Nat /\ end(v[i]) \in Nat
         /\ v[i].st \in Status /\ v[i].pos < end(v[i]) /\ end(v[i]) <= LLONG_MAX
         /\ end(v[i]) = v[i].pos + v[i].size
         /\ i > 1 => v[i].pos = end(v[i - 1])
<1>1. v[i] \in Blocks
    BY ChainTypes, ElementOfSeq
<1>2. v[i].pos \in Nat /\ v[i].size \in Nat /\ v[i].st \in Status
    BY <1>1 DEF Blocks
<1>3. v[i].size > 0 /\ end(v[i]) <= LLONG_MAX
    BY ChainTypes DEF Chain, Consecutive
<1>4. i > 1 => v[i].pos = end(v[i - 1])
    BY ChainTypes DEF Chain, Consecutive, follows
<1>. QED  BY <1>1, <1>2, <1>3, <1>4 DEF end


LEMMA BlockTypes ==
  ASSUME NEW v, IsVector(v), NEW i \in 1 .. Len(v)
  PROVE  /\ v[i] \in Blocks /\ v[i].pos \in Nat /\ v[i].size \in Nat /\ end(v[i]) \in Nat
         /\ v[i].st \in Status /\ v[i].pos < end(v[i]) /\ end(v[i]) <= LLONG_MAX
         /\ end(v[i]) = v[i].pos + v[i].size
         /\ i > 1 => v[i].pos = end(v[i - 1])
         /\ i = 1 => v[i].pos = 0
BY ChainBlocks, VectorIsChain


\* A block ends before any later one begins: otherwise the first later one that
\* begins too early would follow one that does not.
LEMMA ChainInOrder ==
  ASSUME NEW v, Chain(v), NEW i \in 1 .. Len(v), NEW j \in 1 .. Len(v), i < j
  PROVE  end(v[i]) <= v[j].pos
<1> DEFINE S == {k \in 1 .. Len(v) : i < k /\ v[k].pos < end(v[i])}
<1>1. S = {}
  <2>1. SUFFICES ASSUME S # {} PROVE FALSE
      OBVIOUS
  <2>2. S \in SUBSET Nat
      BY ChainTypes
  <2>3. PICK k \in S : \A y \in S : k <= y
    <3> HIDE DEF S
    <3>. QED  BY <2>1, <2>2, MinExists
  <2>4. k \in 1 .. Len(v) /\ k - 1 \in 1 .. Len(v) /\ k - 1 >= i /\ k - 1 \notin S
      BY <2>3, ChainTypes
  <2>5. v[k].pos = end(v[k - 1]) /\ v[k - 1].pos < end(v[k - 1]) /\ end(v[k - 1]) \in Nat
        /\ v[k - 1].pos \in Nat
      BY <2>4, ChainBlocks
  <2>6. v[k].pos < end(v[i]) /\ end(v[i]) \in Nat
      BY <2>3, ChainBlocks
  <2>7. k - 1 # i
      BY <2>5, <2>6
  <2>8. end(v[i]) <= v[k - 1].pos
      BY <2>4, <2>5, <2>6, <2>7
  <2>. QED  BY <2>5, <2>6, <2>8
<1>2. end(v[i]) \in Nat /\ v[j].pos \in Nat
    BY ChainBlocks
<1>. QED  BY <1>1, <1>2


LEMMA BlocksInOrder ==
  ASSUME NEW v, IsVector(v), NEW i \in 1 .. Len(v), NEW j \in 1 .. Len(v), i < j
  PROVE  end(v[i]) <= v[j].pos
BY ChainInOrder, VectorIsChain


\* What find_index returns, from any cached index: the block that holds the
\* position, or 0 if there is none.
LEMMA FindIndex ==
  ASSUME NEW v, IsVector(v), NEW index \in Int, NEW p \in Int
  PROVE  /\ find_index(v, index, p) \in 0 .. Len(v)
         /\ find_index(v, index, p) > 0 => includes_pos(v[find_index(v, index, p)], p)
         /\ \A j \in 1 .. Len(v) : includes_pos(v[j], p) => find_index(v, index, p) = j
<1> DEFINE n  == Len(v)
           i0 == IF index < 1 \/ index > n THEN n \div 2 + 1 ELSE index
           Up == {n} \cup {i \in i0 .. n - 1 : p < v[i + 1].pos}
           i1 == Min(Up)
           Down == {1} \cup {i \in 1 .. i1 : p >= v[i].pos}
           i2 == Max(Down)
<1>1. find_index(v, index, p) = IF includes_pos(v[i2], p) THEN i2 ELSE 0
    BY Zenon DEF find_index
<1>2. n \in Nat /\ n >= 1 /\ i0 \in 1 .. n + 1
    BY VectorTypes
<1> HIDE DEF n, i0
<1>3. i1 \in 1 .. n /\ (i1 < n => p < v[i1 + 1].pos)
  <2>1. Up \in SUBSET Nat /\ n \in Up
      BY <1>2
  <2>2. i1 \in Up
    <3> HIDE DEF Up
    <3>. QED  BY <2>1, MinExists
  <2> HIDE DEF i1
  <2>. QED  BY <1>2, <2>2
<1> HIDE DEF i1
<1>4. i2 \in Down /\ \A y \in Down : i2 >= y
  <2>1. Down \in SUBSET (0 .. n) /\ Down # {}
      BY <1>2, <1>3
  <2> HIDE DEF Down
  <2>. QED  BY <1>2, <2>1, MaxExists
<1> HIDE DEF i2
<1>5. i2 \in 1 .. n
    BY <1>2, <1>3, <1>4
<1>6. ASSUME NEW j \in 1 .. n, includes_pos(v[j], p)  PROVE  i2 = j
  <2>1. v[j].pos <= p /\ p < end(v[j]) /\ end(v[j]) \in Nat /\ v[j].pos \in Nat
      BY <1>6, BlockTypes DEF includes_pos, n
  <2>2. j <= i1
    <3>1. SUFFICES ASSUME i1 < j PROVE FALSE
        BY <1>2, <1>3
    <3>2. i1 + 1 \in 1 .. n /\ i1 + 1 <= j /\ p < v[i1 + 1].pos
        BY <1>2, <1>3, <3>1
    <3>3. v[i1 + 1].pos \in Nat /\ v[i1 + 1].pos < end(v[i1 + 1]) /\ end(v[i1 + 1]) \in Nat
        BY <3>2, BlockTypes DEF n
    <3>4. i1 + 1 = j \/ end(v[i1 + 1]) <= v[j].pos
        BY <1>2, <3>2, BlocksInOrder DEF n
    <3>. QED  BY <2>1, <3>2, <3>3, <3>4
  <2>3. i2 >= j
      BY <1>2, <1>3, <1>4, <2>1, <2>2
  <2>4. SUFFICES ASSUME i2 > j PROVE FALSE
      BY <1>5, <2>3
  <2>5. end(v[j]) <= v[i2].pos /\ v[i2].pos \in Nat
      BY <1>5, <2>4, BlocksInOrder, BlockTypes DEF n
  <2>6. v[i2].pos <= p
      BY <1>4, <2>4, <1>5
  <2>. QED  BY <2>1, <2>5, <2>6
<1>. QED  BY <1>1, <1>5, <1>6 DEF n

-----------------------------------------------------------------------------
(***************************************************************************)
(* The vector stays a vector.                                              *)
(***************************************************************************)

\* Consecutive blocks that take the place of blocks a to b of a vector.
Replaces(w, v, a, b) ==
  /\ Consecutive(w) /\ w # <<>>
  /\ w[1].pos = v[a].pos
  /\ b < Len(v) => end(w[Len(w)]) = end(v[b])


\* What a sequence of consecutive blocks has at each place.
LEMMA ConsecutiveTypes ==
  ASSUME NEW w, Consecutive(w), NEW i \in 1 .. Len(w)
  PROVE  /\ w \in Seq(Blocks) /\ Len(w) \in Nat /\ DOMAIN w = 1 .. Len(w) /\ w[i] \in Blocks
         /\ w[i].size > 0 /\ end(w[i]) <= LLONG_MAX
         /\ i > 1 => w[i].pos = end(w[i - 1])
<1>1. w \in Seq(Blocks)
    BY DEF Consecutive
<1>2. Len(w) \in Nat /\ DOMAIN w = 1 .. Len(w) /\ w[i] \in Blocks
    BY <1>1, LenProperties, ElementOfSeq
<1>. QED  BY <1>1, <1>2 DEF Consecutive, follows


\* A part of a vector replaced by blocks that span it leaves a vector.
LEMMA SpliceIsChain ==
  ASSUME NEW v, Chain(v), NEW w, NEW a \in 1 .. Len(v), NEW b \in a .. Len(v),
         Replaces(w, v, a, b)
  PROVE  LET r == SubSeq(v, 1, a - 1) \o w \o SubSeq(v, b + 1, Len(v))
         IN  Chain(r) /\ r[1].pos = v[1].pos
<1> DEFINE n == Len(v)
           k == Len(w)
           x == SubSeq(v, 1, a - 1)
           z == SubSeq(v, b + 1, n)
           r == x \o w \o z
<1>1. n \in Nat /\ a \in 1 .. n /\ b \in a .. n /\ v \in Seq(Blocks)
    BY ChainTypes
<1>2. w \in Seq(Blocks) /\ k \in Nat /\ k >= 1
    BY EmptySeq DEF Replaces, Consecutive
<1>3. \A i \in 1 .. n : v[i] \in Blocks
    BY ChainBlocks
<1>4. /\ x \in Seq(Blocks) /\ Len(x) = a - 1
      /\ \A i \in 1 .. a - 1 : x[i] = v[i]
  <2>1. \A i \in 1 .. a - 1 : v[i] \in Blocks
      BY <1>1, <1>3
  <2>2. a - 1 \in Int /\ 1 \in Int
      BY <1>1
  <2>. QED  BY <1>1, <2>1, <2>2, SubSeqProperties
<1>5. /\ z \in Seq(Blocks) /\ Len(z) = n - b
      /\ \A i \in 1 .. n - b : z[i] = v[b + i]
  <2>1. \A i \in b + 1 .. n : v[i] \in Blocks
      BY <1>1, <1>3
  <2>2. b + 1 \in Int /\ n \in Int
      BY <1>1
  <2>3. /\ z \in Seq(Blocks) /\ Len(z) = IF b + 1 <= n THEN n - (b + 1) + 1 ELSE 0
        /\ \A i \in 1 .. n - (b + 1) + 1 : z[i] = v[b + 1 + i - 1]
      BY <2>1, <2>2, SubSeqProperties
  <2>4. n - (b + 1) + 1 = n - b /\ Len(z) = n - b
      BY <1>1, <2>3
  <2>5. ASSUME NEW i \in 1 .. n - b  PROVE  z[i] = v[b + i]
    <3>1. z[i] = v[b + 1 + i - 1]
        BY <2>3, <2>4
    <3>2. b + 1 + i - 1 = b + i
        BY <1>1
    <3>. QED  BY <3>1, <3>2
  <2> HIDE DEF z
  <2>. QED  BY <2>3, <2>4, <2>5
<1> HIDE DEF n, k, x, z
<1>6. /\ x \o w \in Seq(Blocks) /\ Len(x \o w) = a - 1 + k
      /\ \A i \in 1 .. a - 1 + k :
           (x \o w)[i] = IF i <= a - 1 THEN v[i] ELSE w[i - (a - 1)]
  <2>1. /\ x \o w \in Seq(Blocks) /\ Len(x \o w) = Len(x) + Len(w)
        /\ \A i \in 1 .. Len(x) + Len(w) :
             (x \o w)[i] = IF i <= Len(x) THEN x[i] ELSE w[i - Len(x)]
      BY <1>2, <1>4, ConcatProperties
  <2>2. \A i \in 1 .. a - 1 + k : i <= a - 1 => x[i] = v[i]
      BY <1>1, <1>4
  <2>. QED  BY <1>4, <2>1, <2>2 DEF k
<1>7. /\ r \in Seq(Blocks) /\ Len(r) = a - 1 + k + (n - b)
      /\ \A i \in 1 .. Len(r) :
           r[i] = IF i <= a - 1 THEN v[i]
                  ELSE IF i <= a - 1 + k THEN w[i - (a - 1)] ELSE v[b + (i - (a - 1 + k))]
  <2>1. /\ r \in Seq(Blocks) /\ Len(r) = Len(x \o w) + Len(z)
        /\ \A i \in 1 .. Len(x \o w) + Len(z) :
             r[i] = IF i <= Len(x \o w) THEN (x \o w)[i] ELSE z[i - Len(x \o w)]
    <3> DEFINE y == x \o w
    <3>1. y \in Seq(Blocks) /\ z \in Seq(Blocks)
        BY <1>5, <1>6
    <3> HIDE DEF y
    <3>2. /\ y \o z \in Seq(Blocks) /\ Len(y \o z) = Len(y) + Len(z)
          /\ \A i \in 1 .. Len(y) + Len(z) :
               (y \o z)[i] = IF i <= Len(y) THEN y[i] ELSE z[i - Len(y)]
        BY <3>1, ConcatProperties
    <3>. QED  BY <3>2 DEF y
  <2>2. \A i \in 1 .. a - 1 + k + (n - b) :
          ~(i <= a - 1 + k) => i - (a - 1 + k) \in 1 .. n - b
      BY <1>1, <1>2
  <2>3. \A i \in 1 .. a - 1 + k + (n - b) : i <= a - 1 + k => i \in 1 .. a - 1 + k
      BY <1>1, <1>2
  <2>4. Len(r) = a - 1 + k + (n - b)
      BY <1>5, <1>6, <2>1
  <2>5. ASSUME NEW i \in 1 .. Len(r)
        PROVE  r[i] = IF i <= a - 1 THEN v[i]
                      ELSE IF i <= a - 1 + k THEN w[i - (a - 1)]
                      ELSE v[b + (i - (a - 1 + k))]
    <3>1. CASE i <= a - 1 + k
      <4>1. r[i] = (x \o w)[i]
          BY <1>5, <1>6, <2>1, <2>4, <3>1
      <4>. QED  BY <1>6, <2>3, <2>4, <3>1, <4>1
    <3>2. CASE ~(i <= a - 1 + k)
      <4>1. r[i] = z[i - (a - 1 + k)]
          BY <1>5, <1>6, <2>1, <2>4, <3>2
      <4>2. ~(i <= a - 1)
          BY <1>1, <1>2, <3>2
      <4>. QED  BY <1>5, <2>2, <2>4, <3>2, <4>1, <4>2
    <3>. QED  BY <3>1, <3>2
  <2>. QED  BY <2>1, <2>4, <2>5
<1> HIDE DEF r
<1>8. DOMAIN r = 1 .. Len(r) /\ Len(r) \in Nat /\ 1 \in 1 .. Len(r)
  <2>1. DOMAIN r = 1 .. Len(r)
      BY <1>7, LenProperties
  <2>. QED  BY <1>1, <1>2, <1>7, <2>1
<1> DEFINE Place(i) == /\ i <= a - 1 => r[i] = v[i]
                       /\ i > a - 1 /\ i <= a - 1 + k => r[i] = w[i - (a - 1)]
                       /\ i > a - 1 + k => r[i] = v[b + (i - (a - 1 + k))]
<1>13. \A i \in 1 .. Len(r) : Place(i)
    BY <1>1, <1>2, <1>7
<1>14. Len(r) = a - 1 + k + (n - b)
    BY <1>7
<1>9. r[1].pos = v[1].pos
  <2>1. CASE a = 1
    <3>1. r[1] = w[1]
        BY <1>1, <1>2, <1>8, <1>13, <2>1
    <3>. QED  BY <2>1, <3>1, <1>1, ChainBlocks DEF Replaces, n
  <2>2. CASE a > 1
    <3>1. r[1] = v[1]
        BY <1>1, <1>8, <1>13, <2>2
    <3>. QED  BY <3>1
  <2>. QED  BY <1>1, <2>1, <2>2
<1>10. ASSUME NEW i \in 1 .. Len(r)
       PROVE  r[i].size > 0 /\ end(r[i]) <= LLONG_MAX /\ (i > 1 => r[i].pos = end(r[i - 1]))
  <2>6. Place(i) /\ (i > 1 => i - 1 \in 1 .. Len(r) /\ Place(i - 1))
    <3>1. i > 1 => i - 1 \in 1 .. Len(r)
        BY <1>8
    <3> HIDE DEF Place
    <3>. QED  BY <3>1, <1>13
  <2>1. CASE i <= a - 1
    <3>1. i \in 1 .. n /\ r[i] = v[i] /\ (i > 1 => r[i - 1] = v[i - 1])
        BY <1>1, <1>2, <2>6, <2>1
    <3>2. v[i].size > 0 /\ end(v[i]) <= LLONG_MAX /\ (i > 1 => v[i].pos = end(v[i - 1]))
        BY <3>1, ChainBlocks DEF n
    <3>. QED  BY <3>1, <3>2
  <2>2. CASE i = a
    <3>1. i \in 1 .. n /\ 1 \in 1 .. k
        BY <1>1, <1>2, <2>2
    <3>2. r[i] = w[1] /\ (i > 1 => r[i - 1] = v[i - 1])
      <4>1. i - (a - 1) = 1
          BY <1>1, <2>2
      <4>. QED  BY <1>1, <1>2, <2>6, <2>2, <4>1
    <3>3. w[1].pos = v[a].pos /\ Consecutive(w)
        BY DEF Replaces
    <3>4. w[1].size > 0 /\ end(w[1]) <= LLONG_MAX
        BY <3>1, <3>3, ConsecutiveTypes DEF k
    <3>5. i > 1 => v[i].pos = end(v[i - 1])
        BY <3>1, ChainBlocks DEF n
    <3>. QED  BY <2>2, <3>2, <3>3, <3>4, <3>5
  <2>3. CASE a < i /\ i <= a - 1 + k
    <3>1. i - (a - 1) \in 1 .. k /\ i - (a - 1) > 1
        BY <1>1, <1>2, <2>3
    <3>2. r[i] = w[i - (a - 1)] /\ r[i - 1] = w[(i - (a - 1)) - 1]
      <4>1. i - 1 - (a - 1) = (i - (a - 1)) - 1
          BY <1>1
      <4>. QED  BY <1>1, <1>2, <2>6, <2>3, <4>1
    <3>3. Consecutive(w)
        BY DEF Replaces
    <3>4. /\ w[i - (a - 1)].size > 0 /\ end(w[i - (a - 1)]) <= LLONG_MAX
          /\ w[i - (a - 1)].pos = end(w[(i - (a - 1)) - 1])
        BY <3>1, <3>3, ConsecutiveTypes DEF k
    <3>. QED  BY <3>2, <3>4
  <2>4. CASE i = a + k
    <3>1. b < n /\ b + 1 \in 1 .. n /\ b + 1 > 1
        BY <1>1, <1>2, <1>14, <2>4
    <3>2. r[i] = v[b + 1] /\ r[i - 1] = w[k]
      <4>1. i - (a - 1 + k) = 1 /\ i - 1 - (a - 1) = k
          BY <1>1, <1>2, <2>4
      <4>. QED  BY <1>1, <1>2, <2>6, <2>4, <4>1
    <3>3. end(w[k]) = end(v[b])
        BY <3>1 DEF Replaces, n, k
    <3>4. v[b + 1].pos = end(v[b + 1 - 1]) /\ b + 1 - 1 = b
        BY <1>1, <3>1, ChainBlocks DEF n
    <3>5. v[b + 1].size > 0 /\ end(v[b + 1]) <= LLONG_MAX
        BY <3>1, ChainBlocks DEF n
    <3>. QED  BY <3>2, <3>3, <3>4, <3>5
  <2>5. CASE i > a + k
    <3> DEFINE j == b + (i - (a - 1 + k))
    <3>1. j \in 1 .. n /\ j > 1
        BY <1>1, <1>2, <1>14, <2>5
    <3>2. r[i] = v[j] /\ r[i - 1] = v[j - 1]
      <4>1. b + (i - 1 - (a - 1 + k)) = j - 1
          BY <1>1, <1>2
      <4>. QED  BY <1>1, <1>2, <2>6, <2>5, <4>1
    <3> HIDE DEF j
    <3>3. v[j].size > 0 /\ end(v[j]) <= LLONG_MAX /\ v[j].pos = end(v[j - 1])
        BY <3>1, ChainBlocks DEF n
    <3>. QED  BY <3>2, <3>3
  <2>. QED  BY <1>1, <1>2, <1>14, <2>1, <2>2, <2>3, <2>4, <2>5
<1>11. Consecutive(r)
    BY <1>7, <1>8, <1>10 DEF Consecutive, follows
<1>12. r # <<>>
    BY <1>8, EmptySeq
<1>. QED  BY <1>9, <1>11, <1>12 DEF Chain, r, x, z, n


LEMMA SpliceIsVector ==
  ASSUME NEW v, IsVector(v), NEW w, NEW a \in 1 .. Len(v), NEW b \in a .. Len(v),
         Replaces(w, v, a, b)
  PROVE  IsVector(SubSeq(v, 1, a - 1) \o w \o SubSeq(v, b + 1, Len(v)))
<1> DEFINE r == SubSeq(v, 1, a - 1) \o w \o SubSeq(v, b + 1, Len(v))
<1>1. Chain(v) /\ v[1].pos = 0
    BY VectorIsChain
<1>2. Chain(r) /\ r[1].pos = v[1].pos
    BY <1>1, SpliceIsChain
<1> HIDE DEF r
<1>3. IsVector(r)
    BY <1>1, <1>2, VectorIsChain
<1>. QED  BY <1>3 DEF r

\* A block that may be part of a vector.
GoodBlock(x) == x \in Blocks /\ x.size > 0 /\ end(x) <= LLONG_MAX


\* One, two and three blocks in a row, from the first to the last of them.
Row(w, x, y) ==
  Consecutive(w) /\ w # <<>> /\ w[1].pos = x.pos /\ end(w[Len(w)]) = end(y)


LEMMA OneBlock == ASSUME NEW x, GoodBlock(x)  PROVE  Row(<<x>>, x, x)
<1>1. <<x>> \in Seq(Blocks) /\ DOMAIN <<x>> = {1} /\ <<x>>[1] = x
      /\ Len(<<x>>) = 1 /\ <<x>> # <<>>
    BY DEF GoodBlock
<1>. QED  BY <1>1 DEF GoodBlock, Consecutive, Row


LEMMA TwoBlocks ==
  ASSUME NEW x, NEW y, GoodBlock(x), GoodBlock(y), y.pos = end(x)
  PROVE  Row(<<x, y>>, x, y)
<1>1. <<x, y>> \in Seq(Blocks) /\ DOMAIN <<x, y>> = {1, 2}
      /\ <<x, y>>[1] = x /\ <<x, y>>[2] = y /\ Len(<<x, y>>) = 2 /\ <<x, y>> # <<>>
    BY DEF GoodBlock
<1>. QED  BY <1>1 DEF GoodBlock, Consecutive, follows, Row


LEMMA ThreeBlocks ==
  ASSUME NEW x, NEW y, NEW z, GoodBlock(x), GoodBlock(y), GoodBlock(z),
         y.pos = end(x), z.pos = end(y)
  PROVE  Row(<<x, y, z>>, x, z)
<1>1. <<x, y, z>> \in Seq(Blocks) /\ DOMAIN <<x, y, z>> = {1, 2, 3}
      /\ <<x, y, z>>[1] = x /\ <<x, y, z>>[2] = y /\ <<x, y, z>>[3] = z
      /\ Len(<<x, y, z>>) = 3 /\ <<x, y, z>> # <<>>
    BY DEF GoodBlock
<1>. QED  BY <1>1 DEF GoodBlock, Consecutive, follows, Row


\* One block before one and before two.
LEMMA OneBefore ==
  ASSUME NEW h, NEW x, NEW y
  PROVE  <<h>> \o <<x>> = <<h, x>> /\ <<h>> \o <<x, y>> = <<h, x, y>>
<1> DEFINE S == {h, x, y}
<1>1. /\ <<h>> \in Seq(S) /\ <<x>> \in Seq(S) /\ <<x, y>> \in Seq(S)
      /\ <<h, x>> \in Seq(S) /\ <<h, x, y>> \in Seq(S)
      /\ Len(<<h>>) = 1 /\ Len(<<x>>) = 1 /\ Len(<<x, y>>) = 2 /\ Len(<<h, x>>) = 2
      /\ Len(<<h, x, y>>) = 3
    OBVIOUS
<1> HIDE DEF S
<1>2. <<h>> \o <<x>> = <<h, x>>
  <2>1. <<h>> \o <<x>> \in Seq(S) /\ Len(<<h>> \o <<x>>) = 2
        /\ \A i \in 1 .. 2 :
             (<<h>> \o <<x>>)[i] = IF i <= 1 THEN <<h>>[i] ELSE <<x>>[i - 1]
      BY <1>1, ConcatProperties
  <2>2. \A i \in 1 .. 2 : (<<h>> \o <<x>>)[i] = <<h, x>>[i]
      BY <2>1
  <2>. QED  BY <1>1, <2>1, <2>2, SeqEqual
<1>3. <<h>> \o <<x, y>> = <<h, x, y>>
  <2>1. <<h>> \o <<x, y>> \in Seq(S) /\ Len(<<h>> \o <<x, y>>) = 3
        /\ \A i \in 1 .. 3 :
             (<<h>> \o <<x, y>>)[i] = IF i <= 1 THEN <<h>>[i] ELSE <<x, y>>[i - 1]
      BY <1>1, ConcatProperties
  <2>2. \A i \in 1 .. 3 : (<<h>> \o <<x, y>>)[i] = <<h, x, y>>[i]
      BY <2>1
  <2>. QED  BY <1>1, <2>1, <2>2, SeqEqual
<1>. QED  BY <1>2, <1>3


\* A block with another size, position or status.
LEMMA Resized ==
  ASSUME NEW x \in Blocks, NEW n \in Nat
  PROVE  LET y == [x EXCEPT !.size = n]
         IN  y \in Blocks /\ y.pos = x.pos /\ y.size = n /\ y.st = x.st
BY DEF Blocks


LEMMA Restated ==
  ASSUME NEW x \in Blocks, NEW s \in Status
  PROVE  LET y == [x EXCEPT !.st = s]
         IN  y \in Blocks /\ y.pos = x.pos /\ y.size = x.size /\ y.st = s
BY DEF Blocks


\* The blocks of a sequence of them, as a set.
BlocksOf(v) == {v[j] : j \in 1 .. Len(v)}


\* The block from p to e.
From(p, e, s) == [pos |-> p, size |-> e - p, st |-> s]


\* What becomes of a chunk of block i that gets status s: with the neighbours it
\* joins it takes the place of the blocks from FirstTaken to LastTaken, and what is
\* left of block i on both sides remains.
JoinsBefore(v, i, b, s, d) ==
  v[i].pos = b.pos /\ i > 1 /\ v[i - 1].st = s /\ InDomain(d, v[i - 1])

JoinsAfter(v, i, b, s, d) ==
  end(v[i]) = end(b) /\ i < Len(v) /\ v[i + 1].st = s /\ InDomain(d, v[i + 1])

FirstTaken(v, i, b, s, d) == IF JoinsBefore(v, i, b, s, d) THEN i - 1 ELSE i

LastTaken(v, i, b, s, d)  == IF JoinsAfter(v, i, b, s, d) THEN i + 1 ELSE i

Changed(v, i, b, s, d) ==
  From(IF JoinsBefore(v, i, b, s, d) THEN v[i - 1].pos ELSE b.pos,
       IF JoinsAfter(v, i, b, s, d) THEN end(v[i + 1]) ELSE end(b), s)

LeftBefore(v, i, b) ==
  IF v[i].pos < b.pos THEN {From(v[i].pos, b.pos, v[i].st)} ELSE {}

LeftAfter(v, i, b) ==
  IF end(b) < end(v[i]) THEN {From(end(b), end(v[i]), v[i].st)} ELSE {}

Made(v, i, b, s, d) == {Changed(v, i, b, s, d)} \cup LeftBefore(v, i, b) \cup LeftAfter(v, i, b)


\* A block is known by where it begins and ends, and by its status.
LEMMA BlockIs ==
  ASSUME NEW x, GoodBlock(x), NEW p, x.pos = p, NEW e, end(x) = e, NEW s, x.st = s
  PROVE  x = From(p, e, s)
<1>1. x \in Blocks /\ x.pos \in Nat /\ x.size \in Nat /\ end(x) = x.pos + x.size
    BY DEF GoodBlock, Blocks, end
<1>2. e - p = x.size
    BY <1>1
<1>3. x = [pos |-> x.pos, size |-> x.size, st |-> x.st]
    BY <1>1 DEF Blocks
<1>. QED  BY <1>2, <1>3 DEF From


LEMMA BlocksOfOne == ASSUME NEW x  PROVE  BlocksOf(<<x>>) = {x}
<1>1. Len(<<x>>) = 1 /\ 1 .. 1 = {1}
    OBVIOUS
<1>. QED  BY <1>1 DEF BlocksOf


LEMMA BlocksOfTwo == ASSUME NEW x, NEW y  PROVE  BlocksOf(<<x, y>>) = {x, y}
<1>1. Len(<<x, y>>) = 2 /\ 1 .. 2 = {1, 2}
    OBVIOUS
<1>. QED  BY <1>1 DEF BlocksOf


LEMMA BlocksOfThree ==
  ASSUME NEW x, NEW y, NEW z  PROVE  BlocksOf(<<x, y, z>>) = {x, y, z}
<1>1. Len(<<x, y, z>>) = 3 /\ 1 .. 3 = {1, 2, 3}
    OBVIOUS
<1>. QED  BY <1>1 DEF BlocksOf


\* split, of a block that may be part of a vector, at a position of it.
LEMMA SplitBlock ==
  ASSUME NEW x, GoodBlock(x), NEW p \in Nat, x.pos <= p, p <= end(x)
  PROVE  LET r == split(x, p)
         IN  IF x.pos < p /\ p < end(x)
             THEN /\ \E h : /\ r.off = <<h>> /\ GoodBlock(h)
                            /\ h.pos = x.pos /\ end(h) = p /\ h.st = x.st
                  /\ GoodBlock(r.rest) /\ r.rest.pos = p /\ end(r.rest) = end(x)
                  /\ r.rest.st = x.st
             ELSE r.off = <<>> /\ r.rest = x
<1>1. x \in Blocks /\ x.pos \in Nat /\ x.size \in Nat /\ end(x) = x.pos + x.size
      /\ end(x) <= LLONG_MAX /\ LLONG_MAX \in Nat
    BY LimitAssumption DEF GoodBlock, Blocks, end
<1>2. CASE x.pos < p /\ p < end(x)
  <2> DEFINE h == [x EXCEPT !.size = p - x.pos]
             t == [x EXCEPT !.pos = p, !.size = end(x) - p]
  <2>1. split(x, p) = [off |-> <<h>>, rest |-> t]
      BY <1>2 DEF split, strictly_includes
  <2>2. p - x.pos \in Nat /\ end(x) - p \in Nat /\ p - x.pos > 0 /\ end(x) - p > 0
      BY <1>1, <1>2
  <2>3. h \in Blocks /\ h.pos = x.pos /\ h.size = p - x.pos /\ h.st = x.st
      BY <1>1, <2>2, Resized
  <2>4. t \in Blocks /\ t.pos = p /\ t.size = end(x) - p /\ t.st = x.st
    <3> DEFINE n == end(x) - p
    <3>1. n \in Nat /\ t = [x EXCEPT !.pos = p, !.size = n]
        BY <2>2
    <3> HIDE DEF n, t
    <3>2. t \in Blocks /\ t.pos = p /\ t.size = n /\ t.st = x.st
        BY <1>1, <3>1 DEF Blocks
    <3>. QED  BY <3>2 DEF n
  <2> HIDE DEF h, t
  <2>5. GoodBlock(h) /\ end(h) = p
      BY <1>1, <1>2, <2>2, <2>3 DEF GoodBlock, end
  <2>6. GoodBlock(t) /\ end(t) = end(x)
      BY <1>1, <1>2, <2>2, <2>4 DEF GoodBlock, end
  <2>7. split(x, p).off = <<h>> /\ split(x, p).rest = t
      BY <2>1
  <2>. QED  BY <1>2, <2>3, <2>4, <2>5, <2>6, <2>7
<1>3. CASE ~(x.pos < p /\ p < end(x))
  <2>1. split(x, p) = [off |-> <<>>, rest |-> x]
      BY <1>3 DEF split, strictly_includes
  <2>. QED  BY <1>3, <2>1
<1>. QED  BY <1>2, <1>3


\* join of a block with the one that follows it.
LEMMA JoinBlock ==
  ASSUME NEW x, NEW y, GoodBlock(x), GoodBlock(y), y.pos = end(x)
  PROVE  GoodBlock(join(x, y)) /\ join(x, y).pos = x.pos /\ end(join(x, y)) = end(y)
         /\ join(x, y).st = x.st
<1>1. /\ x \in Blocks /\ x.pos \in Nat /\ x.size \in Nat /\ end(x) = x.pos + x.size
      /\ y.pos \in Nat /\ y.size \in Nat /\ end(y) = y.pos + y.size
      /\ x.size > 0 /\ y.size > 0 /\ end(y) <= LLONG_MAX
    BY DEF GoodBlock, Blocks, end
<1>2. join(x, y) = [x EXCEPT !.pos = x.pos, !.size = x.size + y.size]
  <2>1. ~follows(x, y)
      BY <1>1 DEF follows
  <2>. QED  BY Zenon, <2>1 DEF join
<1>3. x.size + y.size \in Nat
    BY <1>1
<1>4. join(x, y) \in Blocks /\ join(x, y).pos = x.pos /\ join(x, y).size = x.size + y.size
      /\ join(x, y).st = x.st
  <2> DEFINE n == x.size + y.size
  <2>1. n \in Nat /\ join(x, y) = [x EXCEPT !.pos = x.pos, !.size = n]
      BY <1>2, <1>3
  <2> HIDE DEF n
  <2>2. join(x, y) \in Blocks /\ join(x, y).pos = x.pos /\ join(x, y).size = n
        /\ join(x, y).st = x.st
      BY <1>1, <2>1 DEF Blocks
  <2>. QED  BY <2>2 DEF n
<1>. QED  BY <1>1, <1>4 DEF GoodBlock, end


\* shift_boundary of two blocks in a row.
LEMMA ShiftBoundary ==
  ASSUME NEW x, NEW y, GoodBlock(x), GoodBlock(y), y.pos = end(x),
         NEW p \in Nat, x.pos < p, p < end(y)
  PROVE  /\ Row(shift_boundary(x, y, p), x, y)
         /\ BlocksOf(shift_boundary(x, y, p)) = {From(x.pos, p, x.st), From(p, end(y), y.st)}
<1> DEFINE h == [x EXCEPT !.size = p - x.pos]
           t == [y EXCEPT !.pos = p, !.size = end(y) - p]
<1>1. /\ x \in Blocks /\ x.pos \in Nat /\ y \in Blocks /\ end(y) \in Nat
      /\ p <= LLONG_MAX /\ end(y) <= LLONG_MAX
    BY LimitAssumption DEF GoodBlock, Blocks, end
<1>2. p - x.pos \in Nat /\ end(y) - p \in Nat /\ p - x.pos > 0 /\ end(y) - p > 0
    BY <1>1
<1>3. h \in Blocks /\ h.pos = x.pos /\ h.size = p - x.pos /\ h.st = x.st
    BY <1>1, <1>2, Resized
<1>4. t \in Blocks /\ t.pos = p /\ t.size = end(y) - p /\ t.st = y.st
  <2> DEFINE n == end(y) - p
  <2>1. n \in Nat /\ t = [y EXCEPT !.pos = p, !.size = n]
      BY <1>2
  <2> HIDE DEF n, t
  <2>2. t \in Blocks /\ t.pos = p /\ t.size = n /\ t.st = y.st
      BY <1>1, <2>1 DEF Blocks
  <2>. QED  BY <2>2 DEF n
<1>5. shift_boundary(x, y, p) = <<h, t>>
    BY DEF shift_boundary
<1> HIDE DEF h, t
<1>6. GoodBlock(h) /\ end(h) = p /\ GoodBlock(t) /\ end(t) = end(y)
    BY <1>1, <1>2, <1>3, <1>4 DEF GoodBlock, end
<1>7. Row(<<h, t>>, h, t)
    BY <1>4, <1>6, TwoBlocks
<1>8. h = From(x.pos, p, x.st) /\ t = From(p, end(y), y.st)
    BY <1>3, <1>4, <1>6, BlockIs
<1>9. BlocksOf(<<h, t>>) = {h, t}
    BY BlocksOfTwo
<1>10. BlocksOf(shift_boundary(x, y, p)) = {From(x.pos, p, x.st), From(p, end(y), y.st)}
    BY Zenon, <1>5, <1>8, <1>9
<1>. QED  BY <1>3, <1>5, <1>6, <1>7, <1>10 DEF Row


\* Blocks in a chain are good, and neighbours touch.
LEMMA ChainNeighbours ==
  ASSUME NEW v, Chain(v), NEW i \in 1 .. Len(v)
  PROVE  /\ GoodBlock(v[i])
         /\ i > 1 => i - 1 \in 1 .. Len(v) /\ GoodBlock(v[i - 1]) /\ v[i].pos = end(v[i - 1])
         /\ i < Len(v) => /\ i + 1 \in 1 .. Len(v) /\ GoodBlock(v[i + 1])
                          /\ v[i + 1].pos = end(v[i])
<1>1. \A j \in 1 .. Len(v) : GoodBlock(v[j])
  <2>1. \A j \in 1 .. Len(v) : v[j] \in Blocks /\ v[j].size > 0 /\ end(v[j]) <= LLONG_MAX
      BY ChainTypes, ChainBlocks DEF Chain, Consecutive
  <2>. QED  BY <2>1 DEF GoodBlock
<1>2. Len(v) \in Nat /\ (i > 1 => i - 1 \in 1 .. Len(v)) /\ (i < Len(v) => i + 1 \in 1 .. Len(v))
    BY ChainTypes
<1>3. i > 1 => v[i].pos = end(v[i - 1])
    BY ChainBlocks
<1>4. i < Len(v) => v[i + 1].pos = end(v[i])
  <2>1. SUFFICES ASSUME i < Len(v) PROVE v[i + 1].pos = end(v[i])
      OBVIOUS
  <2>2. i + 1 \in 1 .. Len(v) /\ i + 1 > 1 /\ i + 1 - 1 = i
      BY <1>2, <2>1
  <2>. QED  BY <2>2, ChainBlocks
<1>. QED  BY <1>1, <1>2, <1>3, <1>4


LEMMA VectorBlocks ==
  ASSUME NEW v, IsVector(v), NEW i \in 1 .. Len(v)
  PROVE  /\ GoodBlock(v[i])
         /\ i > 1 => i - 1 \in 1 .. Len(v) /\ GoodBlock(v[i - 1]) /\ v[i].pos = end(v[i - 1])
         /\ i < Len(v) => /\ i + 1 \in 1 .. Len(v) /\ GoodBlock(v[i + 1])
                          /\ v[i + 1].pos = end(v[i])
BY ChainNeighbours, VectorIsChain


\* change_chunk_status of a part of a block: in each of its cases, whether it
\* shifts a boundary, splits the block or joins it with its neighbours, the chunk
\* and what is left beside it take the place of the blocks they were made from.
LEMMA ChangeBlockParts ==
  ASSUME NEW v, IsVector(v), NEW i \in 1 .. Len(v), NEW s \in Status, NEW d,
         NEW b, b.pos \in Nat, b.size \in Nat, b.size > 0, includes(v[i], b), s # v[i].st
  PROVE  LET a == FirstTaken(v, i, b, s, d)
             e == LastTaken(v, i, b, s, d)
             c == change_block(v, i, b, s, d)
         IN  /\ a \in 1 .. i /\ e \in i .. Len(v) /\ c.index \in Nat
             /\ \E w : /\ c.v = SubSeq(v, 1, a - 1) \o w \o SubSeq(v, e + 1, Len(v))
                       /\ Replaces(w, v, a, e) /\ BlocksOf(w) = Made(v, i, b, s, d)
<1> DEFINE old   == v[i].st
           good(t) == t # "bad_sector"
           L     == i > 1
           R     == i < Len(v)
           joinL == L /\ v[i - 1].st = s /\ InDomain(d, v[i - 1])
           joinR == R /\ v[i + 1].st = s /\ InDomain(d, v[i + 1])
           goodL == ~L \/ good(v[i - 1].st) \/ ~InDomain(d, v[i - 1])
           goodR == ~R \/ good(v[i + 1].st) \/ ~InDomain(d, v[i + 1])
           left  == v[i].pos < b.pos
           right == end(v[i]) > end(b)
           bl    == IF left THEN good(old) ELSE goodL
           br    == IF right THEN good(old) ELSE goodR
           adj   == areas_adjust(good(s), good(old), bl, br)
           head  == split(v[i], b.pos).off
           mid   == split(v[i], b.pos).rest
           tail  == split(mid, end(b))
           result(w, j, a) == [v |-> w, index |-> j, adjust |-> a]
           upTo(j) == SubSeq(v, 1, j)
           from(j) == SubSeq(v, j, Len(v))
           sb  == [mid EXCEPT !.st = s]
           sbR == IF joinR THEN join(sb, v[i + 1]) ELSE sb
           sbL == IF joinL /\ ~left THEN <<join(v[i - 1], sbR)>> ELSE head \o <<sbR>>
           c   == change_block(v, i, b, s, d)
           fst   == FirstTaken(v, i, b, s, d)
           lst   == LastTaken(v, i, b, s, d)
           M   == Made(v, i, b, s, d)
           Parted(w, f, l) ==
             /\ c.v = SubSeq(v, 1, f - 1) \o w \o SubSeq(v, l + 1, Len(v))
             /\ Replaces(w, v, f, l) /\ BlocksOf(w) = M /\ f = fst /\ l = lst
<1>1. c = IF s = old THEN result(v, i, 0)
          ELSE IF left /\ ~right /\ joinR
          THEN result(upTo(i - 1) \o shift_boundary(v[i], v[i + 1], b.pos) \o from(i + 2), i, 0)
          ELSE IF right /\ ~left /\ joinL
          THEN result(upTo(i - 2) \o shift_boundary(v[i - 1], v[i], end(b)) \o from(i + 1), i, adj)
          ELSE IF right
          THEN result(upTo(i - 1) \o head \o
                        <<[tail.off[1] EXCEPT !.st = s], tail.rest>> \o from(i + 1),
                      i + Len(head), adj)
          ELSE result(upTo(IF joinL /\ ~left THEN i - 2 ELSE i - 1) \o sbL \o
                        from(IF joinR THEN i + 2 ELSE i + 1),
                      IF joinL /\ ~left THEN i - 1 ELSE i + Len(head), adj)
    BY Zenon DEF change_block
<1>2. /\ b.pos \in Nat /\ end(b) \in Nat /\ b.pos < end(b)
      /\ v[i].pos <= b.pos /\ end(b) <= end(v[i])
      /\ v[i].pos \in Nat /\ end(v[i]) \in Nat /\ end(v[i]) <= LLONG_MAX /\ LLONG_MAX \in Nat
  <2>1. b.pos \in Nat /\ end(b) \in Nat /\ b.pos < end(b)
      BY DEF end
  <2>. QED  BY <2>1, BlockTypes, LimitAssumption DEF includes
<1>3. /\ v \in Seq(Blocks) /\ Len(v) \in Nat /\ GoodBlock(v[i])
      /\ L => i - 1 \in 1 .. Len(v) /\ GoodBlock(v[i - 1]) /\ v[i].pos = end(v[i - 1])
      /\ R => /\ i + 1 \in 1 .. Len(v) /\ GoodBlock(v[i + 1]) /\ v[i + 1].pos = end(v[i])
    BY VectorTypes, VectorBlocks
<1>4. /\ left => \E h : /\ head = <<h>> /\ GoodBlock(h) /\ h.pos = v[i].pos
                        /\ end(h) = b.pos /\ h.st = v[i].st
      /\ ~left => head = <<>>
      /\ GoodBlock(mid) /\ mid.pos = b.pos /\ end(mid) = end(v[i]) /\ mid.st = v[i].st
  <2>1. CASE left
    <3>1. v[i].pos < b.pos /\ b.pos < end(v[i])
        BY <1>2, <2>1
    <3>. QED  BY <1>2, <1>3, <2>1, <3>1, SplitBlock
  <2>2. CASE ~left
    <3>1. ~(v[i].pos < b.pos) /\ b.pos = v[i].pos /\ b.pos <= end(v[i])
        BY <1>2, <2>2
    <3>2. head = <<>> /\ mid = v[i]
        BY <1>2, <1>3, <3>1, SplitBlock
    <3>. QED  BY <1>3, <2>2, <3>1, <3>2
  <2>. QED  BY <2>1, <2>2
<1>5. right => /\ \E t : tail.off = <<t>> /\ GoodBlock(t) /\ t.pos = b.pos /\ end(t) = end(b)
               /\ GoodBlock(tail.rest) /\ tail.rest.pos = end(b)
               /\ end(tail.rest) = end(v[i]) /\ tail.rest.st = v[i].st
  <2> HIDE DEF mid
  <2>1. right => mid.pos <= end(b) /\ end(b) <= end(mid) /\ mid.pos < end(b) /\ end(b) < end(mid)
      BY <1>2, <1>4
  <2>. QED  BY <1>2, <1>4, <2>1, SplitBlock
<1>6. GoodBlock(sb) /\ sb.pos = b.pos /\ end(sb) = end(v[i]) /\ sb.st = s
  <2> HIDE DEF mid
  <2>1. mid \in Blocks /\ sb \in Blocks /\ sb.pos = mid.pos /\ sb.size = mid.size
        /\ sb.st = s
      BY <1>4, Restated DEF GoodBlock
  <2> HIDE DEF sb
  <2>. QED  BY <1>4, <2>1 DEF GoodBlock, end
<1>7. /\ fst = IF joinL /\ ~left THEN i - 1 ELSE i
      /\ lst = IF joinR /\ ~right THEN i + 1 ELSE i
      /\ M = {From(IF joinL /\ ~left THEN v[i - 1].pos ELSE b.pos,
                   IF joinR /\ ~right THEN end(v[i + 1]) ELSE end(b), s)}
             \cup (IF left THEN {From(v[i].pos, b.pos, old)} ELSE {})
             \cup (IF right THEN {From(end(b), end(v[i]), old)} ELSE {})
  <2>1. JoinsBefore(v, i, b, s, d) <=> joinL /\ ~left
      BY <1>2 DEF JoinsBefore
  <2>2. JoinsAfter(v, i, b, s, d) <=> joinR /\ ~right
      BY <1>2 DEF JoinsAfter
  <2> HIDE DEF joinL, joinR
  <2>. QED  BY Zenon, <2>1, <2>2 DEF FirstTaken, LastTaken, Made, Changed, LeftBefore, LeftAfter
<1> HIDE DEF head, mid, tail, sb, c, old, fst, lst, M
<1> SUFFICES /\ fst \in 1 .. i /\ lst \in i .. Len(v) /\ c.index \in Nat
             /\ \E w, f, l : Parted(w, f, l)
    BY Zenon DEF c, fst, lst, M
<1>8. fst \in 1 .. i /\ lst \in i .. Len(v)
    BY <1>3, <1>7
<1>9. CASE s # old /\ left /\ ~right /\ joinR
  <2> DEFINE w == shift_boundary(v[i], v[i + 1], b.pos)
  <2>1. c.v = SubSeq(v, 1, i - 1) \o w \o SubSeq(v, i + 2, Len(v)) /\ c.index = i
      BY Zenon, <1>1, <1>9
  <2>2. end(v[i + 1]) \in Nat /\ v[i].pos < b.pos /\ b.pos < end(v[i + 1])
      BY <1>2, <1>3, <1>9, BlockTypes
  <2>3. Row(w, v[i], v[i + 1])
        /\ BlocksOf(w) = {From(v[i].pos, b.pos, old), From(b.pos, end(v[i + 1]), s)}
      BY <1>2, <1>3, <1>9, <2>2, ShiftBoundary DEF old
  <2> HIDE DEF w
  <2>4. Replaces(w, v, i, i + 1)
      BY <2>3 DEF Replaces, Row
  <2>5. i + 1 \in i .. Len(v) /\ i + 1 + 1 = i + 2
      BY <1>3, <1>9
  <2>6. fst = i /\ lst = i + 1
      BY Zenon, <1>7, <1>9
  <2>7. BlocksOf(w) = M
    <3>1. M = {From(b.pos, end(v[i + 1]), s)} \cup {From(v[i].pos, b.pos, old)}
        BY Zenon, <1>7, <1>9
    <3>. QED  BY <2>3, <3>1
  <2>8. Parted(w, i, i + 1)
    <3>1. SubSeq(v, i + 1 + 1, Len(v)) = SubSeq(v, i + 2, Len(v))
        BY <2>5
    <3>2. c.v = SubSeq(v, 1, i - 1) \o w \o SubSeq(v, i + 1 + 1, Len(v))
        BY Zenon, <2>1, <3>1
    <3>. QED  BY Zenon, <2>4, <2>6, <2>7, <3>2
  <2>9. c.index \in Nat
      BY <1>3, <2>1
  <2>. QED  BY Zenon, <1>8, <2>8, <2>9
<1>10. CASE s # old /\ ~(left /\ ~right /\ joinR) /\ right /\ ~left /\ joinL
  <2> DEFINE w == shift_boundary(v[i - 1], v[i], end(b))
  <2>1. c.v = SubSeq(v, 1, i - 2) \o w \o SubSeq(v, i + 1, Len(v)) /\ c.index = i
      BY Zenon, <1>1, <1>10
  <2>2. v[i - 1].pos \in Nat /\ v[i - 1].pos < end(b) /\ end(b) < end(v[i])
    <3>1. i - 1 \in 1 .. Len(v) /\ v[i].pos = end(v[i - 1])
        BY <1>3, <1>10
    <3>2. v[i - 1].pos \in Nat /\ v[i - 1].pos < end(v[i - 1])
        BY <3>1, BlockTypes
    <3>. QED  BY <1>2, <1>10, <3>1, <3>2
  <2>3. Row(w, v[i - 1], v[i])
        /\ BlocksOf(w) = {From(v[i - 1].pos, end(b), s), From(end(b), end(v[i]), old)}
      BY <1>2, <1>3, <1>10, <2>2, ShiftBoundary DEF old
  <2> HIDE DEF w
  <2>4. Replaces(w, v, i - 1, i)
      BY <2>3 DEF Replaces, Row
  <2>5. i - 1 \in 1 .. Len(v) /\ i \in i - 1 .. Len(v) /\ i - 1 - 1 = i - 2
      BY <1>3, <1>10
  <2>6. fst = i - 1 /\ lst = i
      BY Zenon, <1>7, <1>10
  <2>7. BlocksOf(w) = M
    <3>1. M = {From(v[i - 1].pos, end(b), s)} \cup {From(end(b), end(v[i]), old)}
        BY Zenon, <1>7, <1>10
    <3>. QED  BY <2>3, <3>1
  <2>8. Parted(w, i - 1, i)
    <3>1. SubSeq(v, 1, i - 1 - 1) = SubSeq(v, 1, i - 2)
        BY <2>5
    <3>2. c.v = SubSeq(v, 1, i - 1 - 1) \o w \o SubSeq(v, i + 1, Len(v))
        BY Zenon, <2>1, <3>1
    <3>. QED  BY Zenon, <2>4, <2>6, <2>7, <3>2
  <2>9. c.index \in Nat
      BY <1>3, <2>1
  <2>. QED  BY Zenon, <1>8, <2>8, <2>9
<1>11. CASE s # old /\ ~(left /\ ~right /\ joinR) /\ ~(right /\ ~left /\ joinL) /\ right
  <2> DEFINE x == [tail.off[1] EXCEPT !.st = s]
             y == tail.rest
             w == head \o <<x, y>>
  <2>1. c.v = SubSeq(v, 1, i - 1) \o head \o <<x, y>> \o SubSeq(v, i + 1, Len(v))
        /\ c.index = i + Len(head)
      BY Zenon, <1>1, <1>11
  <2>2. GoodBlock(x) /\ x.pos = b.pos /\ end(x) = end(b) /\ x.st = s
    <3>1. PICK t : tail.off = <<t>> /\ GoodBlock(t) /\ t.pos = b.pos /\ end(t) = end(b)
        BY <1>5, <1>11
    <3>2. x = [t EXCEPT !.st = s]
        BY <3>1
    <3>3. x \in Blocks /\ x.pos = t.pos /\ x.size = t.size /\ x.st = s
        BY <3>1, <3>2, Restated DEF GoodBlock
    <3> HIDE DEF x
    <3>. QED  BY <3>1, <3>3 DEF GoodBlock, end
  <2>3. GoodBlock(y) /\ y.pos = end(b) /\ end(y) = end(v[i]) /\ y.st = old
      BY <1>5, <1>11 DEF old
  <2>10. x = From(b.pos, end(b), s) /\ y = From(end(b), end(v[i]), old)
    <3> HIDE DEF x, y
    <3>. QED  BY <2>2, <2>3, BlockIs
  <2>11. fst = i /\ lst = i
      BY Zenon, <1>7, <1>11
  <2> HIDE DEF x, y
  <2>4. head \in Seq(Blocks) /\ <<x, y>> \in Seq(Blocks) /\ Len(head) \in Nat
    <3>1. head \in Seq(Blocks)
      <4>1. CASE left
        <5>1. PICK h : head = <<h>> /\ GoodBlock(h)
            BY <1>4, <4>1
        <5>. QED  BY <5>1 DEF GoodBlock
      <4>2. CASE ~left
          BY <1>4, <4>2
      <4>. QED  BY <4>1, <4>2
    <3>. QED  BY <2>2, <2>3, <3>1, LenProperties DEF GoodBlock
  <2>5. Replaces(w, v, i, i) /\ BlocksOf(w) = M
    <3>1. CASE left
      <4>1. PICK h : /\ head = <<h>> /\ GoodBlock(h) /\ h.pos = v[i].pos
                     /\ end(h) = b.pos /\ h.st = old
          BY <1>4, <3>1 DEF old
      <4>2. w = <<h, x, y>>
          BY <4>1, OneBefore
      <4> HIDE DEF w
      <4>3. Row(w, h, y)
          BY <2>2, <2>3, <4>1, <4>2, ThreeBlocks
      <4>4. BlocksOf(w) = {h, x, y}
          BY <4>2, BlocksOfThree
      <4>5. h = From(v[i].pos, b.pos, old)
          BY <4>1, BlockIs
      <4>6. M = {x} \cup {h} \cup {y}
          BY Zenon, <1>7, <1>11, <2>10, <3>1, <4>5
      <4>7. BlocksOf(w) = M
          BY <4>4, <4>6
      <4>. QED  BY <2>3, <4>1, <4>3, <4>7 DEF Replaces, Row
    <3>2. CASE ~left
      <4>1. head = <<>> /\ b.pos = v[i].pos
          BY <1>2, <1>4, <3>2
      <4>2. w = <<x, y>>
          BY <2>4, <4>1, ConcatEmptySeq
      <4> HIDE DEF w
      <4>3. Row(w, x, y)
          BY <2>2, <2>3, <4>2, TwoBlocks
      <4>4. BlocksOf(w) = {x, y}
          BY <4>2, BlocksOfTwo
      <4>5. M = {x} \cup {y}
          BY Zenon, <1>7, <1>11, <2>10, <3>2
      <4>6. BlocksOf(w) = M
          BY <4>4, <4>5
      <4>. QED  BY <2>2, <2>3, <4>1, <4>3, <4>6 DEF Replaces, Row
    <3>. QED  BY <3>1, <3>2
  <2>6. SubSeq(v, 1, i - 1) \o head \o <<x, y>> = SubSeq(v, 1, i - 1) \o w
    <3> DEFINE u == SubSeq(v, 1, i - 1)
               q == <<x, y>>
    <3>1. u \in Seq(Blocks) /\ q \in Seq(Blocks)
      <4>1. \A j \in 1 .. i - 1 : v[j] \in Blocks
          BY <1>3, BlockTypes
      <4>. QED  BY <1>3, <2>4, <4>1, SubSeqProperties
    <3> HIDE DEF u, q
    <3>2. (u \o head) \o q = u \o (head \o q)
        BY <2>4, <3>1, ConcatAssociative
    <3>. QED  BY <3>2 DEF u, q
  <2> HIDE DEF w
  <2>7. i \in i .. Len(v)
      BY <1>3
  <2>9. i + Len(head) \in Nat
      BY <1>3, <2>4
  <2>8. Parted(w, i, i)
      BY <2>1, <2>5, <2>6, <2>11
  <2>. QED  BY <1>8, <2>1, <2>8, <2>9
<1>12. CASE s # old /\ ~(left /\ ~right /\ joinR) /\ ~right
  <2> DEFINE a == IF joinL /\ ~left THEN i - 1 ELSE i
             e == IF joinR THEN i + 1 ELSE i
  <2>1. c.v = SubSeq(v, 1, a - 1) \o sbL \o SubSeq(v, e + 1, Len(v))
        /\ c.index = IF joinL /\ ~left THEN i - 1 ELSE i + Len(head)
    <3>1. c = result(upTo(IF joinL /\ ~left THEN i - 2 ELSE i - 1) \o sbL \o
                        from(IF joinR THEN i + 2 ELSE i + 1),
                      IF joinL /\ ~left THEN i - 1 ELSE i + Len(head), adj)
        BY Zenon, <1>1, <1>12
    <3>2. (IF joinL /\ ~left THEN i - 2 ELSE i - 1) = a - 1
      <4>1. CASE joinL /\ ~left
          BY <4>1
      <4>2. CASE ~(joinL /\ ~left)
          BY <4>2
      <4>. QED  BY <4>1, <4>2
    <3>3. (IF joinR THEN i + 2 ELSE i + 1) = e + 1
      <4>1. CASE joinR
          BY <4>1
      <4>2. CASE ~joinR
          BY <4>2
      <4>. QED  BY <4>1, <4>2
    <3> HIDE DEF a, e, joinL, joinR, left, sbL, adj
    <3>. QED  BY <3>1, <3>2, <3>3
  <2>2. GoodBlock(sbR) /\ sbR.pos = b.pos /\ sbR.st = s
        /\ e \in i .. Len(v) /\ end(sbR) = end(v[e])
    <3>1. CASE joinR
        BY <1>3, <1>6, <3>1, JoinBlock
    <3>2. CASE ~joinR
        BY <1>3, <1>6, <3>2
    <3>. QED  BY <3>1, <3>2
  <2>5. fst = a /\ lst = e
      BY Zenon, <1>7, <1>12
  <2>6. M = {From(IF joinL /\ ~left THEN v[i - 1].pos ELSE b.pos, end(v[e]), s)}
            \cup (IF left THEN {From(v[i].pos, b.pos, old)} ELSE {})
    <3>1. end(b) = end(v[i]) /\ end(v[e]) = IF joinR /\ ~right THEN end(v[i + 1]) ELSE end(b)
      <4>1. end(b) = end(v[i])
          BY <1>2, <1>12
      <4>. QED  BY Zenon, <1>12, <4>1
    <3>2. M = {From(IF joinL /\ ~left THEN v[i - 1].pos ELSE b.pos,
                   IF joinR /\ ~right THEN end(v[i + 1]) ELSE end(b), s)}
             \cup (IF left THEN {From(v[i].pos, b.pos, old)} ELSE {}) \cup {}
        BY Zenon, <1>7, <1>12
    <3> HIDE DEF e, joinL, joinR, left, right
    <3>. QED  BY <3>1, <3>2
  <2> HIDE DEF sbR, e
  <2>3. Replaces(sbL, v, a, e) /\ BlocksOf(sbL) = M
        /\ (IF joinL /\ ~left THEN i - 1 ELSE i + Len(head)) \in Nat
    <3>1. CASE joinL /\ ~left
      <4>1. sbL = <<join(v[i - 1], sbR)>> /\ a = i - 1
          BY <3>1
      <4>2. sbR.pos = end(v[i - 1]) /\ GoodBlock(v[i - 1])
          BY <1>2, <1>3, <2>2, <3>1
      <4> DEFINE j == join(v[i - 1], sbR)
      <4>3. GoodBlock(j) /\ j.pos = v[i - 1].pos /\ end(j) = end(v[e]) /\ j.st = s
        <5>1. v[i - 1].st = s
            BY <3>1
        <5>. QED  BY <2>2, <4>2, <5>1, JoinBlock
      <4> HIDE DEF j
      <4>4. Row(<<j>>, j, j)
          BY <4>3, OneBlock
      <4>5. Replaces(<<j>>, v, i - 1, e)
          BY <4>3, <4>4 DEF Replaces, Row
      <4>6. i - 1 \in Nat
          BY <1>3, <3>1
      <4>7. j = From(v[i - 1].pos, end(v[e]), s) /\ BlocksOf(<<j>>) = {j}
          BY <4>3, BlockIs, BlocksOfOne
      <4>8. M = {From(v[i - 1].pos, end(v[e]), s)} \cup {}
          BY Zenon, <2>6, <3>1
      <4>9. BlocksOf(<<j>>) = M
          BY <4>7, <4>8
      <4>. QED  BY <3>1, <4>1, <4>5, <4>6, <4>9 DEF j
    <3>2. CASE ~(joinL /\ ~left) /\ left
      <4>1. PICK h : /\ head = <<h>> /\ GoodBlock(h) /\ h.pos = v[i].pos
                     /\ end(h) = b.pos /\ h.st = old
          BY <1>4, <3>2 DEF old
      <4>2. sbL = <<h, sbR>> /\ a = i
        <5>1. sbL = head \o <<sbR>>
            BY <3>2
        <5>. QED  BY <3>2, <4>1, <5>1, OneBefore
      <4>3. Row(<<h, sbR>>, h, sbR)
          BY <2>2, <4>1, TwoBlocks
      <4>4. Replaces(<<h, sbR>>, v, i, e)
          BY <2>2, <4>1, <4>3 DEF Replaces, Row
      <4>5. Len(head) = 1 /\ i + 1 \in Nat
          BY <1>3, <4>1
      <4>6. h = From(v[i].pos, b.pos, old) /\ sbR = From(b.pos, end(v[e]), s)
          BY <2>2, <4>1, BlockIs
      <4>7. BlocksOf(<<h, sbR>>) = {h, sbR}
          BY BlocksOfTwo
      <4>8. M = {sbR} \cup {h}
          BY Zenon, <2>6, <3>2, <4>6
      <4>9. BlocksOf(<<h, sbR>>) = M
          BY <4>7, <4>8
      <4>. QED  BY <2>2, <3>2, <4>2, <4>4, <4>5, <4>9
    <3>3. CASE ~(joinL /\ ~left) /\ ~left
      <4>1. head = <<>> /\ b.pos = v[i].pos
          BY <1>2, <1>4, <3>3
      <4>2. sbL = <<sbR>> /\ a = i
          BY <2>2, <3>3, <4>1
      <4>3. Row(<<sbR>>, sbR, sbR)
          BY <2>2, OneBlock
      <4>4. Replaces(<<sbR>>, v, i, e)
          BY <2>2, <4>1, <4>3 DEF Replaces, Row
      <4>5. Len(head) = 0 /\ i + 0 \in Nat
          BY <1>3, <4>1
      <4>6. sbR = From(b.pos, end(v[e]), s) /\ BlocksOf(<<sbR>>) = {sbR}
          BY <2>2, BlockIs, BlocksOfOne
      <4>7. M = {sbR} \cup {}
          BY Zenon, <2>6, <3>3, <4>6
      <4>8. BlocksOf(<<sbR>>) = M
          BY <4>6, <4>7
      <4>. QED  BY <2>2, <3>3, <4>2, <4>4, <4>5, <4>8
    <3>. QED  BY <3>1, <3>2, <3>3
  <2> HIDE DEF a, sbL
  <2>4. Parted(sbL, a, e)
      BY <2>1, <2>3, <2>5
  <2>. QED  BY <1>8, <2>1, <2>3, <2>4
<1>13. s # old
    BY DEF old
<1>. QED  BY Zenon, <1>9, <1>10, <1>11, <1>12, <1>13


\* Changing a part of a block gives a vector.
LEMMA ChangeBlockIsVector ==
  ASSUME NEW v, IsVector(v), NEW i \in 1 .. Len(v), NEW s \in Status, NEW d,
         NEW b, b.pos \in Nat, b.size \in Nat, b.size > 0, includes(v[i], b)
  PROVE  IsVector(change_block(v, i, b, s, d).v) /\ change_block(v, i, b, s, d).index \in Nat
<1> DEFINE c == change_block(v, i, b, s, d)
           a == FirstTaken(v, i, b, s, d)
           e == LastTaken(v, i, b, s, d)
<1>1. CASE s = v[i].st
  <2>1. c = [v |-> v, index |-> i, adjust |-> 0]
      BY Zenon, <1>1 DEF change_block
  <2>. QED  BY <2>1
<1>2. CASE s # v[i].st
  <2>1. a \in 1 .. i /\ e \in i .. Len(v) /\ c.index \in Nat
      BY <1>2, ChangeBlockParts
  <2>2. PICK w : /\ c.v = SubSeq(v, 1, a - 1) \o w \o SubSeq(v, e + 1, Len(v))
                 /\ Replaces(w, v, a, e)
      BY <1>2, ChangeBlockParts
  <2> HIDE DEF a, e, c
  <2>3. a \in 1 .. Len(v) /\ e \in a .. Len(v)
      BY <2>1, VectorTypes
  <2>4. IsVector(c.v)
      BY <2>2, <2>3, SpliceIsVector
  <2>. QED  BY <2>1, <2>4 DEF c
<1>. QED  BY <1>1, <1>2


\* A chunk: a block without a status.
IsChunk(b) == b \in [pos : Nat, size : Nat]


\* The part of a chunk in a block, aligned or not, lies in the block.
LEMMA ClipInside ==
  ASSUME NEW c, IsChunk(c), NEW x, GoodBlock(x)
  PROVE  IsChunk(Clip(c, x)) /\ (Clip(c, x).size > 0 => includes(x, Clip(c, x)))
<1>1. /\ c.pos \in Nat /\ c.size \in Nat /\ end(c) = c.pos + c.size
      /\ x.pos \in Nat /\ x.size \in Nat /\ end(x) = x.pos + x.size
    BY DEF IsChunk, GoodBlock, Blocks, end
<1>2. CASE includes(x, c)
    BY <1>2 DEF Clip
<1>3. CASE ~includes(x, c)
  <2> DEFINE p == max(c.pos, x.pos)
             n == max(0, min(end(c), end(x)) - p)
  <2>1. Clip(c, x) = [c EXCEPT !.pos = p, !.size = n]
      BY <1>3 DEF Clip, crop
  <2>2. p \in Nat /\ n \in Nat /\ x.pos <= p /\ (n > 0 => p + n <= end(x))
      BY <1>1 DEF max, BM!Larger, min, BM!Smaller
  <2> HIDE DEF p, n
  <2>3. IsChunk(Clip(c, x)) /\ Clip(c, x).pos = p /\ Clip(c, x).size = n
      BY <2>1, <2>2 DEF IsChunk
  <2>. QED  BY <2>2, <2>3 DEF includes, end
<1>. QED  BY <1>2, <1>3


LEMMA PartFromInside ==
  ASSUME NEW c, IsChunk(c), NEW x, GoodBlock(x)
  PROVE  IsChunk(PartFrom(c, x)) /\ (PartFrom(c, x).size > 0 => includes(x, PartFrom(c, x)))
<1> DEFINE q == IF c.pos < x.pos THEN set_pos(c, x.pos) ELSE c
<1>1. /\ c.pos \in Nat /\ c.size \in Nat /\ x.pos \in Nat /\ x.size \in Nat
      /\ x.pos + x.size <= LLONG_MAX /\ LLONG_MAX \in Nat
    BY LimitAssumption DEF IsChunk, GoodBlock, Blocks, end
<1>2. IsChunk(q)
  <2> DEFINE p == max(x.pos, 0)
             n == min(c.size, LLONG_MAX - p)
  <2>1. p \in Nat /\ n \in Nat
      BY <1>1 DEF max, BM!Larger, min, BM!Smaller
  <2>2. set_pos(c, x.pos) = [c EXCEPT !.pos = p, !.size = n]
      BY DEF set_pos
  <2> HIDE DEF p, n
  <2>. QED  BY <2>1, <2>2 DEF IsChunk
<1>3. PartFrom(c, x) = Clip(q, x)
    BY DEF PartFrom
<1> HIDE DEF q
<1>. QED  BY <1>2, <1>3, ClipInside


\* A chunk moved to an end.
LEMMA SetEndIsChunk ==
  ASSUME NEW c, IsChunk(c), NEW e \in Nat
  PROVE  LET b == set_end(c, e)
         IN  IsChunk(b) /\ end(b) = e /\ (c.size > 0 /\ e > 0 => b.size > 0)
<1>1. c.pos \in Nat /\ c.size \in Nat
    BY DEF IsChunk
<1>2. CASE c.size <= e
  <2> DEFINE p == e - c.size
             b == [c EXCEPT !.pos = p]
  <2>1. set_end(c, e) = b
      BY <1>2 DEF set_end
  <2>2. p \in Nat /\ p + c.size = e
      BY <1>1, <1>2
  <2> HIDE DEF p
  <2>3. IsChunk(b) /\ b.pos = p /\ b.size = c.size
      BY <2>2 DEF IsChunk
  <2>. QED  BY <2>1, <2>2, <2>3 DEF end
<1>3. CASE ~(c.size <= e)
  <2> DEFINE b == [c EXCEPT !.pos = 0, !.size = e]
  <2>1. set_end(c, e) = b
    <3> DEFINE f == IF e < 0 THEN LLONG_MAX ELSE e
    <3>1. f = e
        OBVIOUS
    <3>2. set_end(c, e) = IF c.size <= f THEN [c EXCEPT !.pos = f - c.size]
                          ELSE [c EXCEPT !.pos = 0, !.size = f]
        BY Zenon DEF set_end
    <3> HIDE DEF f
    <3>. QED  BY Zenon, <1>3, <3>1, <3>2
  <2>2. IsChunk(b) /\ b.pos = 0 /\ b.size = e
      BY DEF IsChunk
  <2>. QED  BY <2>1, <2>2 DEF end
<1>. QED  BY <1>2, <1>3


LEMMA PartUpToInside ==
  ASSUME NEW c, IsChunk(c), NEW x, GoodBlock(x)
  PROVE  IsChunk(PartUpTo(c, x)) /\ (PartUpTo(c, x).size > 0 => includes(x, PartUpTo(c, x)))
<1> DEFINE q == IF end(c) > end(x) THEN set_end(c, end(x)) ELSE c
<1>1. c.pos \in Nat /\ c.size \in Nat /\ end(x) \in Nat
    BY DEF IsChunk, GoodBlock, Blocks, end
<1>2. IsChunk(q)
  <2>1. IsChunk(set_end(c, end(x)))
      BY <1>1, SetEndIsChunk
  <2>. QED  BY <2>1
<1>3. PartUpTo(c, x) = Clip(q, x)
    BY DEF PartUpTo
<1> HIDE DEF q
<1>. QED  BY <1>2, <1>3, ClipInside


LEMMA AlignedEndInside ==
  ASSUME NEW c, IsChunk(c), NEW x, c.size > 0 => includes(x, c), GoodBlock(x),
         NEW a \in Nat \ {0}
  PROVE  LET b == AlignedEnd(c, x, a)
         IN  IsChunk(b) /\ (b.size > 0 => includes(x, b))
<1>1. c.pos \in Nat /\ c.size \in Nat /\ end(c) = c.pos + c.size /\ end(x) \in Nat /\ x.pos \in Nat
    BY DEF IsChunk, end, GoodBlock, Blocks
<1> DEFINE rest == end(c) % a
           n == c.size - rest
<1>2. rest \in Nat
    BY <1>1
<1>3. CASE end(c) # end(x) /\ a > 1 /\ c.size > rest
  <2>1. AlignedEnd(c, x, a) = [c EXCEPT !.size = n]
      BY <1>3 DEF AlignedEnd, align_end
  <2> HIDE DEF rest
  <2>2. n \in Nat /\ n <= c.size /\ c.size > 0
      BY <1>1, <1>2, <1>3
  <2> HIDE DEF n
  <2>3. IsChunk([c EXCEPT !.size = n]) /\ [c EXCEPT !.size = n].pos = c.pos
        /\ [c EXCEPT !.size = n].size = n
      BY <2>2 DEF IsChunk
  <2>. QED  BY <1>1, <2>1, <2>2, <2>3 DEF includes, end
<1>4. CASE ~(end(c) # end(x) /\ a > 1 /\ c.size > rest)
  <2>1. AlignedEnd(c, x, a) = c
      BY <1>4 DEF AlignedEnd, align_end
  <2>. QED  BY <2>1
<1>. QED  BY <1>3, <1>4


LEMMA AlignedPosInside ==
  ASSUME NEW c, IsChunk(c), NEW x, c.size > 0 => includes(x, c), GoodBlock(x),
         NEW a \in Nat \ {0}
  PROVE  LET b == AlignedPos(c, x, a)
         IN  IsChunk(b) /\ (b.size > 0 => includes(x, b))
<1>1. c.pos \in Nat /\ c.size \in Nat /\ end(c) = c.pos + c.size /\ end(x) \in Nat /\ x.pos \in Nat
    BY DEF IsChunk, end, GoodBlock, Blocks
<1> DEFINE disp == a - (c.pos % a)
           p == c.pos + disp
           n == c.size - disp
<1>2. disp \in Nat
    BY <1>1
<1>3. CASE c.pos # x.pos /\ a > 1 /\ disp < a /\ disp < c.size
  <2>1. AlignedPos(c, x, a) = [c EXCEPT !.pos = p, !.size = n]
      BY <1>3 DEF AlignedPos, align_pos
  <2> HIDE DEF disp
  <2>2. p \in Nat /\ n \in Nat /\ p >= c.pos /\ p + n = c.pos + c.size /\ c.size > 0
      BY <1>1, <1>2, <1>3
  <2> HIDE DEF n, p
  <2> DEFINE b == [c EXCEPT !.pos = p, !.size = n]
  <2>3. IsChunk(b) /\ b.pos = p /\ b.size = n
      BY <2>2 DEF IsChunk
  <2> HIDE DEF b
  <2>. QED  BY <1>1, <2>1, <2>2, <2>3 DEF includes, end, b
<1>4. CASE ~(c.pos # x.pos /\ a > 1 /\ disp < a /\ disp < c.size)
  <2>1. AlignedPos(c, x, a) = c
      BY <1>4 DEF AlignedPos, align_pos
  <2>. QED  BY <2>1
<1>. QED  BY <1>3, <1>4


\* What a search returns when it has found a chunk to work on.
InItsBlock(v, d, r) ==
  r.found /\ r.b.size > 0 =>
    /\ r.index \in 1 .. Len(v) /\ InDomain(d, v[r.index])
    /\ IsChunk(r.b) /\ includes(v[r.index], r.b)


\* A chunk found lies in the block whose index is returned with it, forwards ...
LEMMA FoundInItsBlock ==
  ASSUME NEW v, IsVector(v), NEW index \in Int, NEW b, IsChunk(b), NEW s, NEW d,
         NEW a \in Nat \ {0}, NEW edge, NEW unfinished
  PROVE  InItsBlock(v, d, find_chunk(v, index, b, s, d, a, edge, unfinished))
<1> DEFINE c    == IF b.pos < Head(v).pos THEN set_pos(b, Head(v).pos) ELSE b
           cand(i0) == {i \in i0 .. Len(v) :
                          /\ v[i].st = s \/ (unfinished /\ v[i].st # "finished")
                          /\ InDomain(d, v[i])}
           good(I) == {i \in I : edge /\ i > 1 => v[i - 1].st = "finished"}
           chunk(i) == [found |-> TRUE, index |-> i,
                        b |-> AlignedEnd(PartFrom(c, v[i]), v[i], a)]
           found(i0, I) ==
             IF i0 = 0 THEN [found |-> FALSE, b |-> NoChunk(c), index |-> 0]
             ELSE IF good(I) = {} THEN [found |-> I # {}, b |-> NoChunk(c), index |-> i0]
             ELSE chunk(Min(good(I)))
           from(i0) == found(i0, cand(i0))
           r  == find_chunk(v, index, b, s, d, a, edge, unfinished)
           i0 == find_index(v, index, c.pos)
           G  == good(cand(i0))
           i  == Min(G)
<1>1. r = IF b.size <= 0 THEN [found |-> FALSE, b |-> b, index |-> index] ELSE from(i0)
    BY Zenon DEF find_chunk
<1>2. c = b /\ b.pos \in Nat /\ b.size \in Nat
  <2>1. Head(v).pos = 0
      BY DEF IsVector
  <2>. QED  BY <2>1 DEF IsChunk
<1>3. i0 \in 0 .. Len(v) /\ Len(v) \in Nat
  <2>1. c.pos \in Int
      BY <1>2
  <2> HIDE DEF c
  <2>. QED  BY <2>1, FindIndex, VectorTypes
<1> HIDE DEF c, i0, r
<1>4. CASE b.size <= 0
  <2>1. r.found = FALSE
      BY <1>1, <1>4
  <2>. QED  BY <2>1 DEF InItsBlock, r
<1>5. CASE ~(b.size <= 0) /\ i0 = 0
  <2>1. r = [found |-> FALSE, b |-> NoChunk(c), index |-> 0]
      BY Zenon, <1>1, <1>5
  <2>2. r.found = FALSE
      BY <2>1
  <2>. QED  BY <2>2 DEF InItsBlock, r
<1>6. CASE ~(b.size <= 0) /\ i0 # 0 /\ G = {}
  <2>1. r = [found |-> cand(i0) # {}, b |-> NoChunk(c), index |-> i0]
      BY Zenon, <1>1, <1>6
  <2>2. r.b = NoChunk(c)
    <3> HIDE DEF cand
    <3>. QED  BY <2>1
  <2>3. r.b.size = 0
      BY <1>2, <2>2 DEF NoChunk, IsChunk
  <2>. QED  BY <2>3 DEF InItsBlock, r
<1>7. CASE ~(b.size <= 0) /\ i0 # 0 /\ G # {}
  <2>1. r = chunk(i)
      BY Zenon, <1>1, <1>7
  <2>2. i \in 1 .. Len(v) /\ InDomain(d, v[i])
    <3>1. cand(i0) \subseteq {j \in 1 .. Len(v) : InDomain(d, v[j])}
        BY <1>3, <1>7
    <3>2. G \subseteq cand(i0)
        OBVIOUS
    <3> HIDE DEF G, cand
    <3>3. G \in SUBSET Nat
        BY <3>1, <3>2
    <3>4. i \in G
        BY <1>7, <3>3, MinExists
    <3>. QED  BY <3>1, <3>2, <3>4
  <2> HIDE DEF i, G
  <2> DEFINE f == PartFrom(c, v[i])
             e == AlignedEnd(f, v[i], a)
  <2>3. GoodBlock(v[i])
      BY <2>2, VectorBlocks
  <2>4. IsChunk(f) /\ (f.size > 0 => includes(v[i], f))
      BY <1>2, <2>3, PartFromInside
  <2>5. r.index = i /\ r.b = e
      BY <2>1
  <2> HIDE DEF f
  <2>6. IsChunk(e) /\ (e.size > 0 => includes(v[i], e))
      BY <2>3, <2>4, AlignedEndInside
  <2>. QED  BY <2>2, <2>5, <2>6 DEF InItsBlock, r
<1>. QED  BY <1>4, <1>5, <1>6, <1>7


\* ... and backwards.
LEMMA FoundInItsBlockBackwards ==
  ASSUME NEW v, IsVector(v), NEW index \in Int, NEW b, IsChunk(b), NEW s, NEW d,
         NEW a \in Nat \ {0}, NEW edge
  PROVE  InItsBlock(v, d, rfind_chunk(v, index, b, s, d, a, edge))
<1> DEFINE c    == IF end(b) > end(Last(v)) THEN set_end(b, end(Last(v))) ELSE b
           cand(i0) == {i \in 1 .. i0 : v[i].st = s /\ InDomain(d, v[i])}
           good(I) == {i \in I : edge /\ i < Len(v) => v[i + 1].st = "finished"}
           chunk(i) == [found |-> TRUE, index |-> i,
                        b |-> AlignedPos(PartUpTo(c, v[i]), v[i], a)]
           found(i0, I) ==
             IF i0 = 0 THEN [found |-> FALSE, b |-> NoChunk(c), index |-> 0]
             ELSE IF good(I) = {} THEN [found |-> I # {}, b |-> NoChunk(c), index |-> i0]
             ELSE chunk(Max(good(I)))
           from(i0) == found(i0, cand(i0))
           r  == rfind_chunk(v, index, b, s, d, a, edge)
           i0 == find_index(v, index, end(c) - 1)
           G  == good(cand(i0))
           i  == Max(G)
<1>1. r = IF b.size <= 0 THEN [found |-> FALSE, b |-> b, index |-> index] ELSE from(i0)
    BY Zenon DEF rfind_chunk
<1>2. IsChunk(c) /\ end(c) - 1 \in Int /\ b.size \in Nat
  <2>1. end(Last(v)) \in Nat
    <3>1. Last(v) = v[Len(v)] /\ Len(v) \in 1 .. Len(v)
        BY VectorTypes DEF Last
    <3>. QED  BY <3>1, BlockTypes
  <2>2. IsChunk(c)
      BY <2>1, SetEndIsChunk
  <2> HIDE DEF c
  <2>. QED  BY <2>2 DEF IsChunk, end
<1> HIDE DEF c
<1>3. i0 \in 0 .. Len(v) /\ Len(v) \in Nat
    BY <1>2, FindIndex, VectorTypes
<1> HIDE DEF i0, r
<1>4. CASE b.size <= 0
  <2>1. r.found = FALSE
      BY <1>1, <1>4
  <2>. QED  BY <2>1 DEF InItsBlock, r
<1>5. CASE ~(b.size <= 0) /\ i0 = 0
  <2>1. r = [found |-> FALSE, b |-> NoChunk(c), index |-> 0]
      BY Zenon, <1>1, <1>5
  <2>2. r.found = FALSE
      BY <2>1
  <2>. QED  BY <2>2 DEF InItsBlock, r
<1>6. CASE ~(b.size <= 0) /\ i0 # 0 /\ G = {}
  <2>1. r = [found |-> cand(i0) # {}, b |-> NoChunk(c), index |-> i0]
      BY Zenon, <1>1, <1>6
  <2>2. r.b = NoChunk(c)
    <3> HIDE DEF cand
    <3>. QED  BY <2>1
  <2>3. r.b.size = 0
      BY <1>2, <2>2 DEF NoChunk, IsChunk
  <2>. QED  BY <2>3 DEF InItsBlock, r
<1>7. CASE ~(b.size <= 0) /\ i0 # 0 /\ G # {}
  <2>1. r = chunk(i)
      BY Zenon, <1>1, <1>7
  <2>2. i \in 1 .. Len(v) /\ InDomain(d, v[i])
    <3>1. cand(i0) \subseteq {j \in 1 .. Len(v) : InDomain(d, v[j])}
        BY <1>3, <1>7
    <3>2. G \subseteq cand(i0)
        OBVIOUS
    <3> HIDE DEF G, cand
    <3>3. G \in SUBSET (0 .. Len(v))
        BY <3>1, <3>2
    <3>4. i \in G
        BY <1>3, <1>7, <3>3, MaxExists
    <3>. QED  BY <3>1, <3>2, <3>4
  <2> HIDE DEF i, G
  <2> DEFINE f == PartUpTo(c, v[i])
             e == AlignedPos(f, v[i], a)
  <2>3. GoodBlock(v[i])
      BY <2>2, VectorBlocks
  <2>4. IsChunk(f) /\ (f.size > 0 => includes(v[i], f))
      BY <1>2, <2>3, PartUpToInside
  <2>5. r.index = i /\ r.b = e
      BY <2>1
  <2> HIDE DEF f
  <2>6. IsChunk(e) /\ (e.size > 0 => includes(v[i], e))
      BY <2>3, <2>4, AlignedPosInside
  <2>. QED  BY <2>2, <2>5, <2>6 DEF InItsBlock, r
<1>. QED  BY <1>4, <1>5, <1>6, <1>7


\* Giving a whole block another status.
LEMMA LeaveIsVector ==
  ASSUME NEW v, IsVector(v), NEW i \in 1 .. Len(v), NEW t \in Status
  PROVE  IsVector(change_sblock_status(v, i, t))
<1> DEFINE x == [v[i] EXCEPT !.st = t]
           w == [v EXCEPT ![i] = x]
<1>1. v \in Seq(Blocks) /\ v[i] \in Blocks
    BY VectorTypes, BlockTypes
<1>2. x \in Blocks /\ x.pos = v[i].pos /\ x.size = v[i].size
    BY <1>1, Restated
<1>3. change_sblock_status(v, i, t) = w
    BY DEF change_sblock_status
<1> HIDE DEF x
<1>4. w \in Seq(Blocks) /\ Len(w) = Len(v) /\ \A j \in 1 .. Len(v) : w[j] = IF j = i THEN x ELSE v[j]
    BY <1>1, <1>2, ExceptSeq
<1> HIDE DEF w
<1>5. \A j \in 1 .. Len(v) : w[j].pos = v[j].pos /\ w[j].size = v[j].size
    BY <1>2, <1>4
<1>6. \A j \in 1 .. Len(v) : end(w[j]) = end(v[j])
    BY <1>5 DEF end
<1>7. 1 \in 1 .. Len(v) /\ Len(v) \in Nat /\ DOMAIN w = 1 .. Len(v)
    BY <1>4, VectorTypes, LenProperties
<1>8. ASSUME NEW j \in 1 .. Len(v)
      PROVE  w[j].size > 0 /\ end(w[j]) <= LLONG_MAX /\ (j > 1 => w[j].pos = end(w[j - 1]))
  <2>1. v[j].size > 0 /\ end(v[j]) <= LLONG_MAX /\ (j > 1 => v[j].pos = end(v[j - 1]))
      BY VectorTypes DEF IsVector, Consecutive, follows
  <2>2. j > 1 => j - 1 \in 1 .. Len(v)
      BY <1>7
  <2>. QED  BY <1>5, <1>6, <2>1, <2>2
<1>9. w # <<>>
    BY <1>4, <1>7, EmptySeq
<1>10. w[1].pos = 0
    BY <1>5, <1>7 DEF IsVector
<1>. QED  BY <1>3, <1>4, <1>7, <1>8, <1>9, <1>10 DEF IsVector, Consecutive, follows


\* Cutting the vector off at the end of the input.
LEMMA TruncatedIsVector ==
  ASSUME NEW v, IsVector(v), NEW e \in Nat \ {0}, NEW force, truncate_vector(v, e, force).ok
  PROVE  IsVector(truncate_vector(v, e, force).v)
<1> DEFINE i  == Max({0} \cup {j \in DOMAIN v : v[j].pos < e})
           ok == \/ force
                 \/ /\ \A j \in i + 1 .. Len(v) : v[j].st # "finished"
                    /\ i > 0 /\ includes_pos(v[i], e) => v[i].st # "finished"
           sb == IF includes_pos(v[i], e) THEN set_size(v[i], e - v[i].pos) ELSE v[i]
           r  == truncate_vector(v, e, force)
           S  == {0} \cup {j \in DOMAIN v : v[j].pos < e}
           Z  == SubSeq(v, Len(v) + 1, Len(v))
<1>1. r = [ok |-> ok, v |-> IF ~ok THEN v
                           ELSE IF i = 0 THEN <<Sblock(assign(0, 0), "non_tried")>>
                           ELSE SubSeq(v, 1, i - 1) \o <<sb>>]
    BY Zenon DEF truncate_vector
<1>2. i \in 1 .. Len(v) /\ v[i].pos < e
  <2>1. S \in SUBSET (0 .. Len(v)) /\ 1 \in S /\ Len(v) \in Nat
      BY VectorTypes, BlockTypes
  <2>2. Max(S) \in S /\ Max(S) >= 1
    <3> HIDE DEF S
    <3>. QED  BY <2>1, MaxExists
  <2>. QED  BY <2>2, VectorTypes
<1>3. r.v = SubSeq(v, 1, i - 1) \o <<sb>>
  <2>1. r.ok /\ r.ok = ok
    <3> HIDE DEF ok, sb, i
    <3>. QED  BY <1>1
  <2>2. i # 0
      BY <1>2
  <2> HIDE DEF ok, sb, i
  <2>3. r.v = IF ~ok THEN v ELSE IF i = 0 THEN <<Sblock(assign(0, 0), "non_tried")>>
              ELSE SubSeq(v, 1, i - 1) \o <<sb>>
      BY <1>1
  <2>. QED  BY Zenon, <2>1, <2>2, <2>3
<1> HIDE DEF i
<1>4. GoodBlock(v[i]) /\ v[i].pos \in Nat /\ end(v[i]) \in Nat /\ v[i].size \in Nat
      /\ end(v[i]) = v[i].pos + v[i].size /\ end(v[i]) <= LLONG_MAX /\ LLONG_MAX \in Nat
    BY <1>2, VectorBlocks, BlockTypes, LimitAssumption
<1>5. GoodBlock(sb) /\ sb.pos = v[i].pos
  <2>1. CASE includes_pos(v[i], e)
    <3> DEFINE n == e - v[i].pos
               c == [v[i] EXCEPT !.size = n]
    <3>1. n \in Nat /\ n > 0 /\ v[i].pos + n <= LLONG_MAX /\ n <= LLONG_MAX - v[i].pos
        BY <1>2, <1>4, <2>1 DEF includes_pos
    <3>2. c \in Blocks /\ c.pos = v[i].pos /\ c.size = n
        BY <1>4, <3>1, Resized DEF GoodBlock
    <3>3. sb = fix_size(c)
        BY <2>1 DEF set_size
    <3> HIDE DEF c, n, sb
    <3>4. fix_size(c) = c
        BY <1>4, <3>1, <3>2 DEF fix_size
    <3>. QED  BY <1>4, <3>1, <3>2, <3>3, <3>4 DEF GoodBlock, end
  <2>2. CASE ~includes_pos(v[i], e)
      BY <1>4, <2>2
  <2>. QED  BY <2>1, <2>2
<1> HIDE DEF sb, r
<1>6. Row(<<sb>>, sb, sb)
    BY <1>5, OneBlock
<1>7. Replaces(<<sb>>, v, i, Len(v))
    BY <1>5, <1>6 DEF Replaces, Row
<1>8. Len(v) \in i .. Len(v)
    BY <1>2, VectorTypes
<1>9. IsVector(SubSeq(v, 1, i - 1) \o <<sb>> \o Z)
    BY <1>2, <1>7, <1>8, SpliceIsVector
<1>10. SubSeq(v, 1, i - 1) \o <<sb>> \o Z = SubSeq(v, 1, i - 1) \o <<sb>>
  <2> DEFINE u == SubSeq(v, 1, i - 1)
             y == u \o <<sb>>
  <2>1. u \in Seq(Blocks)
    <3>1. \A j \in 1 .. i - 1 : v[j] \in Blocks
        BY <1>2, BlockTypes, VectorTypes
    <3>. QED  BY <1>2, <3>1, SubSeqProperties
  <2>2. <<sb>> \in Seq(Blocks)
      BY <1>5 DEF GoodBlock
  <2>3. y \in Seq(Blocks)
    <3> HIDE DEF u
    <3>. QED  BY <2>1, <2>2, ConcatProperties
  <2>4. Z = <<>>
    <3>1. Len(v) + 1 \in Int /\ Len(v) \in Int /\ Len(v) < Len(v) + 1
        BY VectorTypes
    <3>. QED  BY <3>1, SubSeqEmpty
  <2> HIDE DEF y, Z
  <2>5. y \o Z = y
      BY <2>3, <2>4, ConcatEmptySeq
  <2>. QED  BY <2>5 DEF y
<1>. QED  BY <1>3, <1>9, <1>10 DEF r


\* A chunk made of a position and a size, or of an end and a size.
LEMMA MadeChunks ==
  ASSUME NEW p \in Nat, p <= LLONG_MAX, NEW n \in Nat
  PROVE  IsChunk(assign(p, n)) /\ IsChunk(set_end(assign(0, n), p))
<1>1. LLONG_MAX \in Nat
    BY LimitAssumption
<1>2. ASSUME NEW q \in Nat, q <= LLONG_MAX  PROVE  IsChunk(assign(q, n))
  <2> DEFINE c == [pos |-> max(q, 0), size |-> IF q < 0 /\ n > 0 THEN n - min(n, -q) ELSE n]
  <2>1. assign(q, n) = fix_size(c)
      BY DEF assign
  <2>2. c = [pos |-> q, size |-> n]
      BY DEF max, BM!Larger
  <2> HIDE DEF c
  <2>3. CASE c.size < 0 \/ c.size > LLONG_MAX - c.pos
    <3>1. fix_size(c) = [c EXCEPT !.size = LLONG_MAX - c.pos]
        BY <2>3 DEF fix_size
    <3>2. fix_size(c) = [pos |-> q, size |-> LLONG_MAX - q]
        BY <2>2, <3>1
    <3>3. LLONG_MAX - q \in Nat
        BY <1>1, <1>2
    <3>. QED  BY <2>1, <3>2, <3>3 DEF IsChunk
  <2>4. CASE ~(c.size < 0 \/ c.size > LLONG_MAX - c.pos)
    <3>1. fix_size(c) = c
        BY <2>4 DEF fix_size
    <3>. QED  BY <2>1, <2>2, <3>1 DEF IsChunk
  <2>. QED  BY <2>3, <2>4
<1>3. IsChunk(assign(p, n)) /\ IsChunk(assign(0, n))
    BY <1>1, <1>2
<1>. QED  BY <1>3, SetEndIsChunk


-----------------------------------------------------------------------------
(***************************************************************************)
(* The binary search of the domain.                                        *)
(***************************************************************************)

Windows(d) == (0 .. Len(d)) \X (0 .. Len(d))

Middle(w)  == (w[1] + w[2]) \div 2

Above(w)   == <<Middle(w) + 1, w[2]>>

Below(w)   == <<w[1], Middle(w)>>


\* What the search of a window makes of the searches g of the smaller ones.
Hit(d, b, w)    == includes(d[Middle(w) + 1], b)

GoUp(d, b, w)   == before(d[Middle(w) + 1], b)

GoDown(d, b, w) == ~before(d[Middle(w) + 1], b) /\ before(b, d[Middle(w) + 1])

Searched(d, b, g, w) ==
  /\ w[1] < w[2]
  /\ \/ Hit(d, b, w)
     \/ GoUp(d, b, w) /\ g[Above(w)]
     \/ GoDown(d, b, w) /\ g[Below(w)]


\* Both halves of a window are windows, and smaller.
LEMMA Halves ==
  ASSUME NEW d, Len(d) \in Nat, NEW w \in Windows(d), w[1] < w[2]
  PROVE  /\ w = <<w[1], w[2]>> /\ w[1] \in Nat /\ w[2] \in Nat /\ w[2] <= Len(d)
         /\ Middle(w) \in Nat /\ w[1] <= Middle(w) /\ Middle(w) < w[2]
         /\ Above(w) \in Windows(d) /\ Above(w)[1] = Middle(w) + 1 /\ Above(w)[2] = w[2]
         /\ Below(w) \in Windows(d) /\ Below(w)[1] = w[1] /\ Below(w)[2] = Middle(w)
<1>1. w = <<w[1], w[2]>> /\ w[1] \in 0 .. Len(d) /\ w[2] \in 0 .. Len(d)
    BY DEF Windows
<1>2. Middle(w) \in Nat /\ w[1] <= Middle(w) /\ Middle(w) < w[2]
    BY <1>1 DEF Middle
<1>3. Middle(w) \in 0 .. Len(d) /\ Middle(w) + 1 \in 0 .. Len(d)
    BY <1>1, <1>2
<1>. QED  BY <1>1, <1>2, <1>3 DEF Above, Below, Windows


\* There is a function that searches every window by way of its halves: one that
\* does so for the windows up to a size is extended to those one larger.
LEMMA SearchExists ==
  ASSUME NEW d, Len(d) \in Nat, NEW b
  PROVE  \E g \in [Windows(d) -> BOOLEAN] : \A w \in Windows(d) : g[w] = Searched(d, b, g, w)
<1> DEFINE W == Windows(d)
           P(k) == \E g \in [W -> BOOLEAN] :
                     \A w \in W : w[2] - w[1] <= k => g[w] = Searched(d, b, g, w)
           N == {k \in Nat : ~P(k)}
<1>1. \A w \in W : w[1] \in Nat /\ w[2] \in Nat /\ w[2] - w[1] <= Len(d)
    BY DEF Windows
<1>2. P(0)
  <2> DEFINE g == [w \in W |-> FALSE]
  <2>1. g \in [W -> BOOLEAN] /\ \A w \in W : g[w] = FALSE
      OBVIOUS
  <2> HIDE DEF g, W
  <2>2. \A w \in W : w[2] - w[1] <= 0 => ~(w[1] < w[2])
      BY <1>1
  <2>3. \A w \in W : w[2] - w[1] <= 0 => g[w] = Searched(d, b, g, w)
      BY Zenon, <2>1, <2>2 DEF Searched
  <2>. QED  BY <2>1, <2>3
<1>3. ASSUME NEW k \in Nat, P(k)  PROVE  P(k + 1)
  <2>1. PICK g \in [W -> BOOLEAN] :
          \A w \in W : w[2] - w[1] <= k => g[w] = Searched(d, b, g, w)
      BY <1>3
  <2> DEFINE h == [w \in W |-> Searched(d, b, g, w)]
  <2>2. \A w \in W : Searched(d, b, g, w) \in BOOLEAN
      BY Zenon DEF Searched
  <2>3. h \in [W -> BOOLEAN] /\ \A w \in W : h[w] = Searched(d, b, g, w)
      BY <2>2
  <2> HIDE DEF h
  <2>4. ASSUME NEW w \in W, w[2] - w[1] <= k + 1
        PROVE  Searched(d, b, g, w) = Searched(d, b, h, w)
    <3>1. CASE w[1] < w[2]
      <4>1. /\ Above(w) \in W /\ Above(w)[2] - Above(w)[1] <= k
            /\ Below(w) \in W /\ Below(w)[2] - Below(w)[1] <= k
        <5>1. /\ w[1] \in Nat /\ w[2] \in Nat
              /\ Middle(w) \in Nat /\ w[1] <= Middle(w) /\ Middle(w) < w[2]
              /\ Above(w) \in W /\ Above(w)[1] = Middle(w) + 1 /\ Above(w)[2] = w[2]
              /\ Below(w) \in W /\ Below(w)[1] = w[1] /\ Below(w)[2] = Middle(w)
            BY <3>1, Halves
        <5>. QED  BY <2>4, <5>1
      <4> HIDE DEF W
      <4>2. h[Above(w)] = g[Above(w)] /\ h[Below(w)] = g[Below(w)]
          BY <2>1, <2>3, <4>1
      <4>. QED  BY Zenon, <4>2 DEF Searched
    <3>2. CASE ~(w[1] < w[2])
        BY Zenon, <3>2 DEF Searched
    <3>. QED  BY <3>1, <3>2
  <2> HIDE DEF W
  <2>5. \A w \in W : w[2] - w[1] <= k + 1 => h[w] = Searched(d, b, h, w)
      BY Zenon, <2>3, <2>4
  <2>. QED  BY <2>3, <2>5
<1>4. N = {}
  <2>1. SUFFICES ASSUME N # {} PROVE FALSE
      OBVIOUS
  <2>2. N \in SUBSET Nat
      OBVIOUS
  <2>3. PICK k \in N : \A y \in N : k <= y
    <3> HIDE DEF N
    <3>. QED  BY <2>1, <2>2, MinExists
  <2>4. k \in Nat /\ ~P(k)
      BY <2>3
  <2> HIDE DEF P
  <2>5. k # 0 /\ k - 1 \in Nat
      BY <1>2, <2>4
  <2>6. k - 1 \notin N
      BY <2>3, <2>4, <2>5
  <2>7. P(k - 1)
      BY <2>5, <2>6
  <2>8. P(k - 1 + 1) /\ k - 1 + 1 = k
      BY <1>3, <2>4, <2>5, <2>7
  <2>. QED  BY <2>4, <2>8
<1>5. P(Len(d))
  <2> HIDE DEF P
  <2>. QED  BY <1>4
<1>. QED  BY <1>1, <1>5


\* InDomain is what that function says of the whole domain.
LEMMA SearchUnfolds ==
  ASSUME NEW d, Len(d) \in Nat, NEW b
  PROVE  \E g : /\ InDomain(d, b) = g[<<0, Len(d)>>]
                /\ \A w \in Windows(d) : g[w] = Searched(d, b, g, w)
<1> DEFINE W == Windows(d)
           g == CHOOSE f : f = [w \in W |-> Searched(d, b, f, w)]
<1>1. InDomain(d, b) = g[<<0, Len(d)>>]
    BY Zenon DEF InDomain, Windows, Searched, Hit, GoUp, GoDown, Above, Below, Middle
<1>2. \E f : f = [w \in W |-> Searched(d, b, f, w)]
  <2>1. PICK f \in [W -> BOOLEAN] : \A w \in W : f[w] = Searched(d, b, f, w)
      BY SearchExists
  <2> HIDE DEF W
  <2>2. f = [w \in W |-> Searched(d, b, f, w)]
      BY Zenon, <2>1
  <2>. QED  BY <2>2
<1>3. g = [w \in W |-> Searched(d, b, g, w)]
  <2> HIDE DEF W
  <2>. QED  BY Zenon, <1>2
<1> HIDE DEF g, W
<1>4. \A w \in W : g[w] = Searched(d, b, g, w)
    BY <1>3
<1>. QED  BY <1>1, <1>4 DEF W


\* The blocks of a domain, as numbers.
LEMMA DomainTypes ==
  ASSUME NEW d, IsDomain(d)
  PROVE  /\ Len(d) \in Nat /\ DOMAIN d = 1 .. Len(d)
         /\ \A i \in 1 .. Len(d) :
              /\ d[i].pos \in Nat /\ end(d[i]) \in Nat /\ d[i].pos < end(d[i])
              /\ i > 1 => end(d[i - 1]) < d[i].pos
<1>1. d \in Seq([pos : Nat, size : Nat])
    BY DEF IsDomain
<1>2. Len(d) \in Nat /\ DOMAIN d = 1 .. Len(d)
    BY <1>1, LenProperties
<1>3. ASSUME NEW i \in 1 .. Len(d)
      PROVE  /\ d[i].pos \in Nat /\ end(d[i]) \in Nat /\ d[i].pos < end(d[i])
             /\ i > 1 => end(d[i - 1]) < d[i].pos
  <2>1. d[i] \in [pos : Nat, size : Nat]
      BY <1>1, ElementOfSeq
  <2>2. d[i].size > 0 /\ (i > 1 => end(d[i - 1]) < d[i].pos)
      BY <1>2 DEF IsDomain
  <2>. QED  BY <2>1, <2>2 DEF end
<1>. QED  BY <1>2, <1>3


\* Between two blocks of a domain there is a gap.
LEMMA DomainInOrder ==
  ASSUME NEW d, IsDomain(d), NEW i \in 1 .. Len(d), NEW j \in 1 .. Len(d), i < j
  PROVE  end(d[i]) < d[j].pos
<1> DEFINE S == {k \in 1 .. Len(d) : i < k /\ d[k].pos <= end(d[i])}
<1>1. S = {}
  <2>1. SUFFICES ASSUME S # {} PROVE FALSE
      OBVIOUS
  <2>2. S \in SUBSET Nat
      BY DomainTypes
  <2>3. PICK k \in S : \A y \in S : k <= y
    <3> HIDE DEF S
    <3>. QED  BY <2>1, <2>2, MinExists
  <2>4. k \in 1 .. Len(d) /\ k - 1 \in 1 .. Len(d) /\ k - 1 >= i /\ k - 1 \notin S
      BY <2>3, DomainTypes
  <2>5. end(d[k - 1]) < d[k].pos /\ d[k - 1].pos < end(d[k - 1]) /\ end(d[k - 1]) \in Nat
        /\ d[k - 1].pos \in Nat /\ d[k].pos \in Nat
      BY <2>4, DomainTypes
  <2>6. d[k].pos <= end(d[i]) /\ end(d[i]) \in Nat
      BY <2>3, DomainTypes
  <2>7. k - 1 # i
      BY <2>5, <2>6
  <2>8. end(d[i]) < d[k - 1].pos
      BY <2>4, <2>5, <2>6, <2>7
  <2>. QED  BY <2>5, <2>6, <2>8
<1>2. end(d[i]) \in Nat /\ d[j].pos \in Nat
    BY DomainTypes
<1>. QED  BY <1>1, <1>2


\* A search that finds a block of the domain has found one.
LEMMA SearchIsSound ==
  ASSUME NEW d, IsDomain(d), NEW b, NEW g,
         \A w \in Windows(d) : g[w] = Searched(d, b, g, w),
         NEW w \in Windows(d), g[w]
  PROVE  \E i \in 1 .. Len(d) : includes(d[i], b)
<1> DEFINE W == Windows(d)
           S == {u[2] - u[1] : u \in {x \in W : g[x]}}
           T == {k \in S : k \in Nat}
<1>1. Len(d) \in Nat /\ \A u \in W : u[1] \in Nat /\ u[2] \in Nat
    BY DomainTypes DEF Windows
<1>2. \A u \in W : g[u] => u[1] < u[2]
    BY Zenon DEF Searched
<1>3. T \in SUBSET Nat /\ w[2] - w[1] \in T
    BY <1>1, <1>2
<1>4. PICK k \in T : \A y \in T : k <= y
  <2> HIDE DEF T
  <2>. QED  BY <1>3, MinExists
<1>5. PICK u \in W : g[u] /\ k = u[2] - u[1]
    BY <1>4
<1>6. u[1] < u[2] /\ Searched(d, b, g, u)
    BY Zenon, <1>2, <1>5
<1>7. /\ u[1] \in Nat /\ u[2] \in Nat /\ u[2] <= Len(d)
      /\ Middle(u) \in Nat /\ u[1] <= Middle(u) /\ Middle(u) < u[2]
      /\ Above(u) \in W /\ Above(u)[1] = Middle(u) + 1 /\ Above(u)[2] = u[2]
      /\ Below(u) \in W /\ Below(u)[1] = u[1] /\ Below(u)[2] = Middle(u)
    BY <1>1, <1>6, Halves
<1>8. ASSUME NEW x \in W, g[x], x[2] - x[1] < k  PROVE FALSE
  <2>1. x[2] - x[1] \in T
      BY <1>1, <1>2, <1>8
  <2>2. x[2] - x[1] \in Int /\ k \in Int
      BY <1>1, <1>4
  <2> HIDE DEF T
  <2>3. k <= x[2] - x[1]
      BY <1>4, <2>1
  <2>. QED  BY <1>8, <2>2, <2>3
<1> HIDE DEF W
<1>9. ~g[Above(u)] /\ ~g[Below(u)]
  <2>1. Above(u)[2] - Above(u)[1] < k /\ Below(u)[2] - Below(u)[1] < k
      BY <1>5, <1>7
  <2>. QED  BY <1>7, <1>8, <2>1
<1>10. includes(d[Middle(u) + 1], b)
    BY Zenon, <1>6, <1>9 DEF Searched, Hit
<1>11. Middle(u) + 1 \in 1 .. Len(d)
    BY <1>1, <1>7
<1>. QED  BY <1>10, <1>11


\* A block that lies in one of the domain is found in every window that has it:
\* the others are passed over on the right side.
LEMMA SearchIsComplete ==
  ASSUME NEW d, IsDomain(d), NEW b, b.pos \in Nat, end(b) \in Nat, b.pos < end(b), NEW g,
         \A w \in Windows(d) : g[w] = Searched(d, b, g, w),
         NEW j \in 1 .. Len(d), includes(d[j], b),
         NEW w \in Windows(d), w[1] < j, j <= w[2]
  PROVE  g[w]
<1> DEFINE W == Windows(d)
           Misses(x) == x[1] < j /\ j <= x[2] /\ ~g[x]
           T == {u[2] - u[1] : u \in {x \in W : Misses(x)}}
<1>1. Len(d) \in Nat /\ \A u \in W : u[1] \in Nat /\ u[2] \in Nat
    BY DomainTypes DEF Windows
<1>2. SUFFICES ASSUME ~g[w] PROVE FALSE
    OBVIOUS
<1>3. T \in SUBSET Nat /\ w[2] - w[1] \in T
  <2>1. Misses(w)
      BY <1>2
  <2>2. \A x \in W : Misses(x) => x[2] - x[1] \in Nat
      BY <1>1
  <2> HIDE DEF Misses
  <2>. QED  BY <2>1, <2>2
<1>4. PICK k \in T : \A y \in T : k <= y
  <2> HIDE DEF T
  <2>. QED  BY <1>3, MinExists
<1>5. PICK u \in W : Misses(u) /\ k = u[2] - u[1]
  <2> HIDE DEF Misses
  <2>. QED  BY <1>4
<1>6. /\ u[1] \in Nat /\ u[2] \in Nat /\ u[2] <= Len(d) /\ u[1] < j /\ j <= u[2]
      /\ u[1] < u[2]
      /\ Middle(u) \in Nat /\ u[1] <= Middle(u) /\ Middle(u) < u[2]
      /\ Above(u) \in W /\ Above(u)[1] = Middle(u) + 1 /\ Above(u)[2] = u[2]
      /\ Below(u) \in W /\ Below(u)[1] = u[1] /\ Below(u)[2] = Middle(u)
  <2>1. u[1] < u[2]
      BY <1>1, <1>5
  <2>. QED  BY <1>1, <1>5, <2>1, Halves
<1>7. ~Searched(d, b, g, u)
    BY Zenon, <1>5
<1>8. ASSUME NEW x \in W, x[1] < j, j <= x[2], x[2] - x[1] < k  PROVE g[x]
  <2>1. SUFFICES ASSUME ~g[x] PROVE FALSE
      OBVIOUS
  <2>2. x[2] - x[1] \in T
      BY <1>8, <2>1
  <2>3. k \in Int
    <3> HIDE DEF T
    <3>. QED  BY <1>3, <1>4
  <2>4. x[2] - x[1] \in Int
      BY <1>1
  <2> HIDE DEF T
  <2>5. k <= x[2] - x[1]
      BY <1>4, <2>2
  <2>. QED  BY <1>8, <2>3, <2>4, <2>5
<1> HIDE DEF W, T
<1> DEFINE i == Middle(u) + 1
<1>9. i \in 1 .. Len(d) /\ d[j].pos <= b.pos /\ end(b) <= end(d[j])
      /\ d[j].pos \in Nat /\ end(d[j]) \in Nat /\ d[i].pos \in Nat /\ end(d[i]) \in Nat
      /\ d[i].pos < end(d[i])
  <2>1. i \in 1 .. Len(d)
      BY <1>1, <1>6
  <2> HIDE DEF i
  <2>. QED  BY <2>1, DomainTypes DEF includes
<1>10. CASE i = j
  <2>1. Hit(d, b, u)
      BY <1>10 DEF Hit
  <2>. QED  BY Zenon, <1>6, <1>7, <2>1 DEF Searched
<1>11. CASE i < j
  <2>1. end(d[i]) < d[j].pos
      BY <1>9, <1>11, DomainInOrder
  <2>2. GoUp(d, b, u)
      BY <1>9, <2>1 DEF GoUp, before
  <2>3. g[Above(u)]
      BY <1>5, <1>6, <1>8, <1>11
  <2>. QED  BY Zenon, <1>6, <1>7, <2>2, <2>3 DEF Searched
<1>12. CASE i > j
  <2>1. end(d[j]) < d[i].pos
      BY <1>9, <1>12, DomainInOrder
  <2>2. GoDown(d, b, u)
      BY <1>9, <2>1 DEF GoDown, before
  <2>3. g[Below(u)]
      BY <1>5, <1>6, <1>8, <1>12
  <2>. QED  BY Zenon, <1>6, <1>7, <2>2, <2>3 DEF Searched
<1>. QED  BY <1>6, <1>9, <1>10, <1>11, <1>12


\* The binary search of a domain (Domain::includes) finds a block in it exactly
\* if all of its positions are, for every domain and block.
THEOREM DomainSearchIsExact ==
  ASSUME NEW d, IsDomain(d), NEW b, b.pos \in Nat, b.size \in Nat, b.size > 0
  PROVE  /\ InDomain(d, b) <=> \E i \in 1 .. Len(d) : includes(d[i], b)
         /\ InDomain(d, b) <=> Bytes(b) \subseteq InDomains(d)
<1>1. Len(d) \in Nat /\ DOMAIN d = 1 .. Len(d)
    BY DomainTypes
<1>2. b.pos \in Nat /\ end(b) \in Nat /\ b.pos < end(b)
    BY DEF end
<1>3. PICK g : /\ InDomain(d, b) = g[<<0, Len(d)>>]
               /\ \A w \in Windows(d) : g[w] = Searched(d, b, g, w)
    BY <1>1, SearchUnfolds
<1>4. <<0, Len(d)>> \in Windows(d)
    BY <1>1 DEF Windows
<1>5. ASSUME InDomain(d, b)  PROVE \E i \in 1 .. Len(d) : includes(d[i], b)
  <2>1. g[<<0, Len(d)>>]
      BY Zenon, <1>3, <1>5
  <2>. QED  BY <1>3, <1>4, <2>1, SearchIsSound
<1>6. ASSUME NEW i \in 1 .. Len(d), includes(d[i], b)  PROVE InDomain(d, b)
  <2> DEFINE w == <<0, Len(d)>>
  <2>1. w \in Windows(d) /\ w[1] < i /\ i <= w[2]
      BY <1>1, <1>4
  <2> HIDE DEF w
  <2>2. g[w]
      BY <1>2, <1>3, <1>6, <2>1, SearchIsComplete
  <2>. QED  BY Zenon, <1>3, <2>2 DEF w
<1>7. ASSUME NEW i \in 1 .. Len(d), includes(d[i], b)  PROVE Bytes(b) \subseteq InDomains(d)
  <2>1. d[i].pos \in Nat /\ end(d[i]) \in Nat
      BY DomainTypes
  <2>2. Bytes(b) \subseteq Bytes(d[i])
      BY <1>2, <1>7, <2>1 DEF Bytes, includes
  <2>. QED  BY <1>1, <2>2 DEF InDomains
<1>8. ASSUME Bytes(b) \subseteq InDomains(d)  PROVE \E i \in 1 .. Len(d) : includes(d[i], b)
  <2>1. ASSUME NEW p \in Bytes(b)
        PROVE  \E i \in 1 .. Len(d) : d[i].pos <= p /\ p < end(d[i])
    <3>1. PICK i \in 1 .. Len(d) : p \in Bytes(d[i])
        BY <1>1, <1>8, <2>1 DEF InDomains
    <3>2. d[i].pos \in Nat /\ end(d[i]) \in Nat
        BY DomainTypes
    <3>. QED  BY <3>1, <3>2 DEF Bytes
  <2>2. b.pos \in Bytes(b)
      BY <1>2 DEF Bytes
  <2>3. PICK i \in 1 .. Len(d) : d[i].pos <= b.pos /\ b.pos < end(d[i])
      BY <2>1, <2>2
  <2>4. d[i].pos \in Nat /\ end(d[i]) \in Nat /\ d[i].pos < end(d[i])
      BY DomainTypes
  <2>5. SUFFICES ASSUME end(b) > end(d[i]) PROVE FALSE
      BY <1>2, <2>3, <2>4 DEF includes
  <2>6. end(d[i]) \in Bytes(b)
      BY <1>2, <2>3, <2>4, <2>5 DEF Bytes
  <2>7. PICK j \in 1 .. Len(d) : d[j].pos <= end(d[i]) /\ end(d[i]) < end(d[j])
      BY <2>1, <2>6
  <2>8. d[j].pos \in Nat /\ end(d[j]) \in Nat /\ d[j].pos < end(d[j])
      BY DomainTypes
  <2>9. i < j => end(d[i]) < d[j].pos
      BY DomainInOrder
  <2>10. j < i => end(d[j]) < d[i].pos
      BY DomainInOrder
  <2>11. i \in Int /\ j \in Int /\ i # j
      BY <2>4, <2>7
  <2>. QED  BY <2>4, <2>7, <2>8, <2>9, <2>10, <2>11
<1>. QED  BY Zenon, <1>5, <1>6, <1>7, <1>8


-----------------------------------------------------------------------------
(***************************************************************************)
(* The map that a vector makes up.                                         *)
(***************************************************************************)

\* The first of two sequences, one after the other, and a part of a sequence.
LEMMA ConcatBlocks ==
  ASSUME NEW S, NEW x \in Seq(S), NEW y \in Seq(S)
  PROVE  BlocksOf(x \o y) = BlocksOf(x) \cup BlocksOf(y)
<1> DEFINE k == Len(x)
           l == Len(y)
           r == x \o y
<1>1. /\ k \in Nat /\ l \in Nat /\ Len(r) = k + l
      /\ \A j \in 1 .. k + l : r[j] = IF j <= k THEN x[j] ELSE y[j - k]
    BY LenProperties, ConcatProperties
<1> HIDE DEF k, l, r
<1>2. ASSUME NEW j \in 1 .. k + l
      PROVE  r[j] \in {x[i] : i \in 1 .. k} \cup {y[i] : i \in 1 .. l}
  <2>1. CASE j <= k
      BY <1>1, <2>1
  <2>2. CASE ~(j <= k)
    <3>1. j - k \in 1 .. l /\ r[j] = y[j - k]
        BY <1>1, <2>2
    <3>. QED  BY <3>1
  <2>. QED  BY <2>1, <2>2
<1>3. ASSUME NEW j \in 1 .. k  PROVE  x[j] \in {r[i] : i \in 1 .. k + l}
  <2>1. j \in 1 .. k + l /\ r[j] = x[j]
      BY <1>1
  <2>. QED  BY <2>1
<1>4. ASSUME NEW j \in 1 .. l  PROVE  y[j] \in {r[i] : i \in 1 .. k + l}
  <2>1. k + j \in 1 .. k + l /\ r[k + j] = y[j]
    <3>1. k + j \in 1 .. k + l /\ ~(k + j <= k) /\ k + j - k = j
        BY <1>1
    <3>. QED  BY <1>1, <3>1
  <2>. QED  BY <2>1
<1>5. {r[i] : i \in 1 .. k + l} = {x[i] : i \in 1 .. k} \cup {y[i] : i \in 1 .. l}
    BY <1>2, <1>3, <1>4
<1>. QED  BY <1>1, <1>5 DEF BlocksOf, k, l, r


LEMMA SubSeqOfChain ==
  ASSUME NEW v, Chain(v), NEW m \in 1 .. Len(v) + 1, NEW n \in 0 .. Len(v)
  PROVE  SubSeq(v, m, n) \in Seq(Blocks) /\ BlocksOf(SubSeq(v, m, n)) = {v[j] : j \in m .. n}
<1> DEFINE x == SubSeq(v, m, n)
           k == IF m <= n THEN n - m + 1 ELSE 0
<1>1. Len(v) \in Nat /\ m \in Nat /\ n \in Nat /\ \A j \in m .. n : v[j] \in Blocks
    BY ChainTypes, ChainBlocks
<1>2. x \in Seq(Blocks) /\ Len(x) = k /\ \A i \in 1 .. n - m + 1 : x[i] = v[m + i - 1]
    BY <1>1, SubSeqProperties
<1> HIDE DEF x
<1>3. ASSUME NEW i \in 1 .. k  PROVE  x[i] \in {v[j] : j \in m .. n}
  <2>1. m + i - 1 \in m .. n /\ i \in 1 .. n - m + 1
      BY <1>1
  <2>. QED  BY <1>2, <2>1
<1>4. ASSUME NEW j \in m .. n  PROVE  v[j] \in {x[i] : i \in 1 .. k}
  <2>1. j - m + 1 \in 1 .. k /\ j - m + 1 \in 1 .. n - m + 1 /\ m + (j - m + 1) - 1 = j
      BY <1>1
  <2>2. x[j - m + 1] = v[j]
      BY <1>2, <2>1
  <2>. QED  BY <2>1, <2>2
<1> HIDE DEF k
<1>5. {x[i] : i \in 1 .. k} = {v[j] : j \in m .. n}
    BY <1>3, <1>4
<1>. QED  BY <1>2, <1>5 DEF BlocksOf, x


LEMMA SubSeqBlocks ==
  ASSUME NEW v, IsVector(v), NEW m \in 1 .. Len(v) + 1, NEW n \in 0 .. Len(v)
  PROVE  SubSeq(v, m, n) \in Seq(Blocks) /\ BlocksOf(SubSeq(v, m, n)) = {v[j] : j \in m .. n}
BY SubSeqOfChain, VectorIsChain


\* A position lies in at most one block of a chain.
LEMMA OneInChain ==
  ASSUME NEW v, Chain(v), NEW i \in 1 .. Len(v), NEW j \in 1 .. Len(v), NEW p \in Nat,
         includes_pos(v[i], p), includes_pos(v[j], p)
  PROVE  i = j
<1>1. Len(v) \in Nat /\ v[i].pos \in Nat /\ v[j].pos \in Nat /\ end(v[i]) \in Nat /\ end(v[j]) \in Nat
    BY ChainTypes, ChainBlocks
<1>2. CASE i < j
  <2>1. end(v[i]) <= v[j].pos
      BY <1>2, ChainInOrder
  <2>. QED  BY <1>1, <2>1 DEF includes_pos
<1>3. CASE j < i
  <2>1. end(v[j]) <= v[i].pos
      BY <1>3, ChainInOrder
  <2>. QED  BY <1>1, <2>1 DEF includes_pos
<1>. QED  BY <1>1, <1>2, <1>3


LEMMA OneBlockHolds ==
  ASSUME NEW v, IsVector(v), NEW i \in 1 .. Len(v), NEW j \in 1 .. Len(v), NEW p \in Nat,
         includes_pos(v[i], p), includes_pos(v[j], p)
  PROVE  i = j
BY OneInChain, VectorIsChain


\* A position before the end of the last block lies in one of them.
LEMMA SomeBlockHolds ==
  ASSUME NEW v, Chain(v), NEW p \in Nat, v[1].pos <= p, p < end(v[Len(v)])
  PROVE  \E i \in 1 .. Len(v) : includes_pos(v[i], p)
<1> DEFINE S == {i \in 1 .. Len(v) : v[i].pos <= p}
           i == Max(S)
<1>1. Len(v) \in Nat /\ 1 \in 1 .. Len(v)
    BY ChainTypes
<1>2. i \in S /\ \A j \in S : i >= j
  <2>1. S \in SUBSET (0 .. Len(v)) /\ S # {}
      BY <1>1
  <2> HIDE DEF S
  <2>. QED  BY <1>1, <2>1, MaxExists
<1> HIDE DEF i
<1>3. i \in 1 .. Len(v) /\ v[i].pos <= p
    BY <1>2
<1>4. p < end(v[i])
  <2>1. CASE i = Len(v)
      BY <2>1
  <2>2. CASE i # Len(v)
    <3>1. i + 1 \in 1 .. Len(v) /\ i + 1 \notin S
        BY <1>1, <1>2, <1>3, <2>2
    <3>2. v[i + 1].pos = end(v[i]) /\ v[i + 1].pos \in Nat
        BY <1>1, <1>3, <2>2, <3>1, ChainBlocks
    <3>. QED  BY <3>1, <3>2
  <2>. QED  BY <2>1, <2>2
<1>. QED  BY <1>3, <1>4 DEF includes_pos

\* The block from one position up to another.
LEMMA FromIs ==
  ASSUME NEW p \in Nat, NEW e \in Nat, NEW s
  PROVE  From(p, e, s).pos = p /\ end(From(p, e, s)) = e /\ From(p, e, s).st = s
BY DEF From, end

\* The blocks of the vector after a change.
LEMMA ChangedBlocks ==
  ASSUME NEW v, IsVector(v), NEW i \in 1 .. Len(v), NEW s \in Status, NEW d,
         NEW b, IsChunk(b), b.size > 0, includes(v[i], b), s # v[i].st
  PROVE  LET a == FirstTaken(v, i, b, s, d)
             e == LastTaken(v, i, b, s, d)
             w == change_block(v, i, b, s, d).v
         IN  /\ a \in 1 .. i /\ e \in i .. Len(v) /\ IsVector(w)
             /\ BlocksOf(w) = {v[j] : j \in 1 .. a - 1} \cup Made(v, i, b, s, d)
                                \cup {v[j] : j \in e + 1 .. Len(v)}
<1> DEFINE a == FirstTaken(v, i, b, s, d)
           e == LastTaken(v, i, b, s, d)
           c == change_block(v, i, b, s, d)
           M == Made(v, i, b, s, d)
           x == SubSeq(v, 1, a - 1)
           z == SubSeq(v, e + 1, Len(v))
<1>1. b.pos \in Nat /\ b.size \in Nat /\ Len(v) \in Nat
    BY VectorTypes DEF IsChunk
<1>2. a \in 1 .. i /\ e \in i .. Len(v)
    BY <1>1, ChangeBlockParts
<1>3. PICK w : /\ c.v = x \o w \o z
               /\ Replaces(w, v, a, e) /\ BlocksOf(w) = M
  <2>1. \E w : /\ c.v = x \o w \o z
               /\ Replaces(w, v, a, e) /\ BlocksOf(w) = M
      BY Zenon, <1>1, ChangeBlockParts
  <2>. QED  BY Zenon, <2>1
<1>4. IsVector(c.v)
    BY <1>1, ChangeBlockIsVector
<1> HIDE DEF a, e, c, M
<1>5. x \in Seq(Blocks) /\ BlocksOf(x) = {v[j] : j \in 1 .. a - 1}
  <2>1. 1 \in 1 .. Len(v) + 1 /\ a - 1 \in 0 .. Len(v)
      BY <1>1, <1>2
  <2>. QED  BY <2>1, SubSeqBlocks
<1>6. z \in Seq(Blocks) /\ BlocksOf(z) = {v[j] : j \in e + 1 .. Len(v)}
  <2>1. e + 1 \in 1 .. Len(v) + 1 /\ Len(v) \in 0 .. Len(v)
      BY <1>1, <1>2
  <2>. QED  BY <2>1, SubSeqBlocks
<1>7. w \in Seq(Blocks)
    BY <1>3 DEF Replaces, Consecutive
<1> HIDE DEF x, z
<1>8. BlocksOf(x \o w) = BlocksOf(x) \cup BlocksOf(w) /\ x \o w \in Seq(Blocks)
    BY <1>5, <1>7, ConcatBlocks, ConcatProperties
<1>9. BlocksOf((x \o w) \o z) = BlocksOf(x \o w) \cup BlocksOf(z)
  <2> DEFINE y == x \o w
  <2>1. y \in Seq(Blocks)
      BY <1>8
  <2> HIDE DEF y
  <2>2. BlocksOf(y \o z) = BlocksOf(y) \cup BlocksOf(z)
      BY <1>6, <2>1, ConcatBlocks
  <2>. QED  BY <2>2 DEF y
<1>10. BlocksOf(c.v) = {v[j] : j \in 1 .. a - 1} \cup M \cup {v[j] : j \in e + 1 .. Len(v)}
    BY Zenon, <1>3, <1>5, <1>6, <1>8, <1>9
<1>. QED  BY Zenon, <1>2, <1>4, <1>10 DEF a, e, c, M

\* A change of the status of a part of block i.
ChangeOf(v, i, b, s, d) ==
  /\ IsVector(v) /\ i \in 1 .. Len(v) /\ s \in Status /\ IsDomain(d)
  /\ IsChunk(b) /\ b.size > 0 /\ includes(v[i], b) /\ s # v[i].st

\* The blocks after a change: those before, out of the range taken, the chunk with
\* what it joins, and what is left of its block.
AfterChange(x, v, i, b, s, d) ==
  \/ \E j \in 1 .. Len(v) : x = v[j] /\ j < FirstTaken(v, i, b, s, d)
  \/ \E j \in 1 .. Len(v) : x = v[j] /\ j > LastTaken(v, i, b, s, d)
  \/ x = Changed(v, i, b, s, d)
  \/ v[i].pos < b.pos /\ x = From(v[i].pos, b.pos, v[i].st)
  \/ end(b) < end(v[i]) /\ x = From(end(b), end(v[i]), v[i].st)

LEMMA ChangedBlockIs ==
  ASSUME NEW v, NEW i, NEW b, NEW s, NEW d, ChangeOf(v, i, b, s, d), NEW x
  PROVE  x \in BlocksOf(change_block(v, i, b, s, d).v) <=> AfterChange(x, v, i, b, s, d)
<1> DEFINE a == FirstTaken(v, i, b, s, d)
           e == LastTaken(v, i, b, s, d)
           w == change_block(v, i, b, s, d).v
           M == Made(v, i, b, s, d)
<1>1. /\ a \in 1 .. i /\ e \in i .. Len(v)
      /\ BlocksOf(w) = {v[j] : j \in 1 .. a - 1} \cup M \cup {v[j] : j \in e + 1 .. Len(v)}
    BY Zenon, ChangedBlocks DEF ChangeOf
<1>2. Len(v) \in Nat /\ i \in 1 .. Len(v)
    BY VectorTypes DEF ChangeOf
<1>3. x \in M <=>
        \/ x = Changed(v, i, b, s, d)
        \/ v[i].pos < b.pos /\ x = From(v[i].pos, b.pos, v[i].st)
        \/ end(b) < end(v[i]) /\ x = From(end(b), end(v[i]), v[i].st)
    BY Zenon DEF Made, LeftBefore, LeftAfter
<1> HIDE DEF a, e, w, M
<1>4. x \in {v[j] : j \in 1 .. a - 1} <=> \E j \in 1 .. Len(v) : x = v[j] /\ j < a
    BY <1>1, <1>2
<1>5. x \in {v[j] : j \in e + 1 .. Len(v)} <=> \E j \in 1 .. Len(v) : x = v[j] /\ j > e
    BY <1>1, <1>2
<1>6. x \in BlocksOf(w) <=> \/ x \in {v[j] : j \in 1 .. a - 1} \/ x \in M
                            \/ x \in {v[j] : j \in e + 1 .. Len(v)}
    BY Zenon, <1>1
<1>. QED  BY Zenon, <1>3, <1>4, <1>5, <1>6 DEF a, e, w, AfterChange
=============================================================================
