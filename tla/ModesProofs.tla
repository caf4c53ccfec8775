---------------------------- MODULE ModesProofs ----------------------------
(***************************************************************************)
(* Theorems about the runs of fill, generate and command mode.             *)
(***************************************************************************)
EXTENDS ModesProps, LoadProofs

\* A map in memory: a vector from 0 on, or what is left of one cut off at 0.
Memory(v) == IsVector(v) \/ v = EmptyMap

-----------------------------------------------------------------------------
(***************************************************************************)
(* Finding a chunk in it.                                                  *)
(***************************************************************************)

LEMMA EmptyMapIs ==
  /\ Len(EmptyMap) = 1 /\ EmptyMap # <<>> /\ Head(EmptyMap) = EmptyMap[1]
  /\ EmptyMap[1].pos = 0 /\ EmptyMap[1].size = 0 /\ end(EmptyMap[1]) = 0
<1> DEFINE z == [pos |-> 0, size |-> 0, st |-> "non_tried"]
           m == <<z>>
<1>1. z.pos = 0 /\ z.size = 0 /\ end(z) = 0
    BY DEF end
<1> HIDE DEF z
<1>2. Len(m) = 1 /\ m # <<>> /\ Head(m) = m[1] /\ m[1] = z
    OBVIOUS
<1> HIDE DEF m
<1>3. m[1].pos = 0 /\ m[1].size = 0 /\ end(m[1]) = 0
    BY Zenon, <1>1, <1>2
<1>. QED  BY Zenon, <1>2, <1>3 DEF m, z, EmptyMap

\* The block of size 0 holds no position.
LEMMA NoneInEmptyMap ==
  ASSUME NEW v, v = EmptyMap, NEW index \in Int, NEW p \in Int
  PROVE  find_index(v, index, p) = 0
<1> DEFINE n  == Len(v)
           i0 == IF index < 1 \/ index > n THEN n \div 2 + 1 ELSE index
           i1 == Min({n} \cup {i \in i0 .. n - 1 : p < v[i + 1].pos})
           i2 == Max({1} \cup {i \in 1 .. i1 : p >= v[i].pos})
<1>1. find_index(v, index, p) = IF includes_pos(v[i2], p) THEN i2 ELSE 0
    BY Zenon DEF find_index
<1>2. n = 1
    BY Zenon, EmptyMapIs
<1> HIDE DEF n
<1>3. i0 = 1
    BY <1>2
<1>4. {n} \cup {i \in i0 .. n - 1 : p < v[i + 1].pos} = {1}
    BY <1>2, <1>3
<1>5. i1 = 1
  <2>1. {1} \in SUBSET Nat /\ {1} # {}
      OBVIOUS
  <2>2. Min({1}) \in {1}
      BY <2>1, MinExists
  <2>. QED  BY Zenon, <1>4, <2>2
<1> HIDE DEF i1
<1>6. {1} \cup {i \in 1 .. i1 : p >= v[i].pos} = {1}
    BY <1>5
<1>7. i2 = 1
  <2>1. {1} \in SUBSET (0 .. 1) /\ {1} # {} /\ 1 \in Nat
      OBVIOUS
  <2>2. Max({1}) \in {1}
      BY <2>1, MaxExists
  <2>. QED  BY Zenon, <1>6, <2>2
<1> HIDE DEF i2
<1>8. ~includes_pos(v[1], p)
  <2>1. v[1].pos = 0 /\ end(v[1]) = 0
      BY Zenon, EmptyMapIs
  <2>. QED  BY <2>1 DEF includes_pos
<1>. QED  BY Zenon, <1>1, <1>7, <1>8

LEMMA FoundInMemory ==
  ASSUME NEW v, Memory(v), NEW index \in Int, NEW x, IsChunk(x), NEW s, NEW d,
         NEW a \in Nat \ {0}, NEW edge, NEW unfinished
  PROVE  LET f == find_chunk(v, index, x, s, d, a, edge, unfinished)
         IN  /\ f.index \in Int /\ IsChunk(f.b)
             /\ f.b.size > 0 => /\ IsVector(v) /\ f.index \in 1 .. Len(v)
                                /\ InDomain(d, v[f.index]) /\ includes(v[f.index], f.b)
<1> DEFINE c    == IF x.pos < Head(v).pos THEN set_pos(x, Head(v).pos) ELSE x
           cand(i0) == {i \in i0 .. Len(v) :
                          /\ v[i].st = s \/ (unfinished /\ v[i].st # "finished")
                          /\ InDomain(d, v[i])}
           good(I) == {i \in I : edge /\ i > 1 => v[i - 1].st = "finished"}
           chunk(i) == [found |-> TRUE, index |-> i,
                        b |-> AlignedEnd(PartFrom(c, v[i]), v[i], a)]
           found(i0, I) ==
             IF i0 = 0 THEN [found |-> FALSE, b |-> NoChunk(c), index |-> 0]
             ELSE IF good(I) = {} THEN [found |-> I # {}, b |-> NoChunk(c), index |-> i0]
             ELSE chunk(Min(good(I)))
           from(i0) == found(i0, cand(i0))
           r  == find_chunk(v, index, x, s, d, a, edge, unfinished)
           i0 == find_index(v, index, c.pos)
           G  == good(cand(i0))
           i  == Min(G)
<1>1. r = IF x.size <= 0 THEN [found |-> FALSE, b |-> x, index |-> index] ELSE from(i0)
    BY Zenon DEF find_chunk
<1>2. c = x /\ x.pos \in Nat /\ x.size \in Nat
  <2>1. Head(v).pos = 0
      BY EmptyMapIs DEF IsVector, Memory
  <2>. QED  BY <2>1 DEF IsChunk
<1>3. i0 \in Int /\ (i0 # 0 => IsVector(v) /\ i0 \in 1 .. Len(v) /\ Len(v) \in Nat)
  <2>1. c.pos \in Int
      BY <1>2
  <2> HIDE DEF c
  <2>2. CASE IsVector(v)
    <3>1. i0 \in 0 .. Len(v)
        BY Zenon, <2>1, <2>2, FindIndex
    <3>2. Len(v) \in Nat
        BY <2>2, VectorTypes
    <3> HIDE DEF i0
    <3>. QED  BY <2>2, <3>1, <3>2
  <2>3. CASE v = EmptyMap
    <3>1. i0 = 0
        BY Zenon, <2>1, <2>3, NoneInEmptyMap
    <3> HIDE DEF i0
    <3>. QED  BY <3>1
  <2>. QED  BY <2>2, <2>3 DEF Memory
<1>4. IsChunk(NoChunk(c)) /\ NoChunk(c).size = 0
    BY <1>2 DEF NoChunk, IsChunk
<1> HIDE DEF c, i0, r
<1>5. CASE x.size <= 0
  <2>1. r.index = index /\ r.b = x
    <3> HIDE DEF from
    <3>. QED  BY <1>1, <1>5
  <2>2. r.index \in Int /\ IsChunk(r.b) /\ ~(r.b.size > 0)
      BY <1>2, <1>5, <2>1
  <2>. QED  BY Zenon, <2>2 DEF r
<1>6. CASE ~(x.size <= 0) /\ i0 = 0
  <2>1. r = [found |-> FALSE, b |-> NoChunk(c), index |-> 0]
      BY Zenon, <1>1, <1>6
  <2>2. r.b = NoChunk(c) /\ r.index = 0
      BY <2>1
  <2>. QED  BY <1>4, <2>2 DEF r
<1>7. CASE ~(x.size <= 0) /\ i0 # 0 /\ G = {}
  <2>1. r = [found |-> cand(i0) # {}, b |-> NoChunk(c), index |-> i0]
      BY Zenon, <1>1, <1>7
  <2>2. r.b = NoChunk(c) /\ r.index = i0
    <3> HIDE DEF cand
    <3>. QED  BY <2>1
  <2>. QED  BY <1>3, <1>4, <2>2 DEF r
<1>8. CASE ~(x.size <= 0) /\ i0 # 0 /\ G # {}
  <2>1. r = chunk(i)
      BY Zenon, <1>1, <1>8
  <2>2. r.found /\ r.index = i /\ r.b = AlignedEnd(PartFrom(c, v[i]), v[i], a)
    <3> HIDE DEF i
    <3>. QED  BY <2>1
  <2>3. i \in 1 .. Len(v) /\ Len(v) \in Nat
    <3>1. cand(i0) \subseteq 1 .. Len(v)
        BY <1>3, <1>8
    <3>2. G \subseteq cand(i0)
        OBVIOUS
    <3> HIDE DEF G, cand
    <3>3. G \in SUBSET Nat
        BY <3>1, <3>2
    <3>4. i \in G
        BY <1>8, <3>3, MinExists
    <3>. QED  BY <1>3, <1>8, <3>1, <3>2, <3>4
  <2> HIDE DEF i
  <2>4. IsVector(v) /\ GoodBlock(v[i])
      BY <1>3, <1>8, <2>3, VectorBlocks
  <2>5. IsChunk(r.b)
    <3>1. IsChunk(c)
        BY Zenon, <1>2
    <3> DEFINE f == PartFrom(c, v[i])
    <3>2. IsChunk(f) /\ (f.size > 0 => includes(v[i], f))
        BY <2>4, <3>1, PartFromInside
    <3> HIDE DEF f
    <3>3. IsChunk(AlignedEnd(f, v[i], a))
        BY <2>4, <3>2, AlignedEndInside
    <3>. QED  BY Zenon, <2>2, <3>3 DEF f
  <2>6. InItsBlock(v, d, r)
      BY Zenon, <2>4, FoundInItsBlock DEF r
  <2>7. r.index \in Int /\ (r.b.size > 0 => InDomain(d, v[r.index]) /\ includes(v[r.index], r.b))
      BY <2>2, <2>3, <2>6 DEF InItsBlock
  <2>. QED  BY Zenon, <2>2, <2>3, <2>4, <2>5, <2>7 DEF r
<1>. QED  BY Zenon, <1>5, <1>6, <1>7, <1>8

-----------------------------------------------------------------------------
(***************************************************************************)
(* Changing the status of a chunk.                                         *)
(***************************************************************************)

\* A block of X holds position p, with status t.
Holds(X, p, t) == \E x \in X : p \in Bytes(x) /\ x.st = t

\* Block i of v, which lies in the domain and holds the chunk x.
HasChunk(v, d, i, x) ==
  /\ IsVector(v) /\ IsDomain(d) /\ SplitFrom(BlocksOf(v), d, 1)
  /\ i \in 1 .. Len(v) /\ InDomain(d, v[i])
  /\ IsChunk(x) /\ x.size > 0 /\ includes(v[i], x)

LEMMA ChunkInBlock ==
  ASSUME NEW v, NEW d, NEW i, NEW x, HasChunk(v, d, i, x)
  PROVE  /\ v[i].pos \in Nat /\ end(v[i]) \in Nat /\ x.pos \in Nat /\ end(x) \in Nat
         /\ v[i].pos <= x.pos /\ x.pos < end(x) /\ end(x) <= end(v[i])
         /\ Len(v) \in Nat /\ i \in 1 .. Len(v)
         /\ includes_pos(v[i], x.pos) /\ GoodBlock(v[i])
<1>1. IsVector(v) /\ i \in 1 .. Len(v) /\ Len(v) \in Nat
    BY VectorTypes DEF HasChunk
<1>2. /\ v[i].pos \in Nat /\ end(v[i]) \in Nat /\ GoodBlock(v[i])
    BY <1>1, BlockTypes, VectorBlocks
<1>3. x.pos \in Nat /\ end(x) \in Nat /\ x.pos < end(x)
    BY DEF HasChunk, IsChunk, end
<1>4. v[i].pos <= x.pos /\ end(x) <= end(v[i])
    BY DEF HasChunk, includes
<1>. QED  BY <1>1, <1>2, <1>3, <1>4 DEF includes_pos

\* Where the other blocks lie.
LEMMA OtherBlocks ==
  ASSUME NEW v, IsVector(v), NEW i \in 1 .. Len(v), NEW j \in 1 .. Len(v)
  PROVE  /\ v[j].pos \in Nat /\ end(v[j]) \in Nat /\ v[j].pos < end(v[j])
         /\ j < i => end(v[j]) <= v[i].pos
         /\ j > i => end(v[i]) <= v[j].pos
<1>1. Len(v) \in Nat
    BY VectorTypes
<1>2. v[j].pos \in Nat /\ end(v[j]) \in Nat /\ v[j].pos < end(v[j])
    BY BlockTypes
<1>3. j < i => end(v[j]) <= v[i].pos
    BY BlocksInOrder
<1>4. j > i => end(v[i]) <= v[j].pos
    BY <1>1, BlocksInOrder
<1>. QED  BY <1>2, <1>3, <1>4

\* A block inside of a block of the domain is crossed by no border of it.
LEMMA InsideIsSplit ==
  ASSUME NEW d, IsDomain(d), NEW k \in 1 .. Len(d), NEW x, x.pos \in Nat, end(x) \in Nat,
         x.pos < end(x), includes(d[k], x)
  PROVE  SplitFrom({x}, d, 1)
<1>1. SUFFICES ASSUME NEW j \in 1 .. Len(d)
               PROVE  ~strictly_includes(x, d[j].pos) /\ ~strictly_includes(x, end(d[j]))
    BY DEF SplitFrom
<1>2. /\ d[j].pos \in Nat /\ end(d[j]) \in Nat /\ d[j].pos < end(d[j])
      /\ d[k].pos \in Nat /\ end(d[k]) \in Nat /\ Len(d) \in Nat
    BY DomainTypes
<1>3. d[k].pos <= x.pos /\ end(x) <= end(d[k])
    BY DEF includes
<1>4. CASE j = k
    BY <1>2, <1>3, <1>4 DEF strictly_includes
<1>5. CASE j < k
  <2>1. end(d[j]) < d[k].pos
      BY <1>5, DomainInOrder
  <2>. QED  BY <1>2, <1>3, <2>1 DEF strictly_includes
<1>6. CASE k < j
  <2>1. end(d[k]) < d[j].pos
      BY <1>6, DomainInOrder
  <2>. QED  BY <1>2, <1>3, <2>1 DEF strictly_includes
<1>. QED  BY <1>2, <1>4, <1>5, <1>6

LEMMA SplitUnions ==
  ASSUME NEW X, NEW Y, NEW d, SplitFrom(X, d, 1), SplitFrom(Y, d, 1)
  PROVE  SplitFrom(X \cup Y, d, 1)
BY DEF SplitFrom

\* Blocks inside of the blocks of a set that the borders do not cross.
LEMMA SplitInside ==
  ASSUME NEW X, NEW Y, NEW d, IsDomain(d), SplitFrom(Y, d, 1),
         \A x \in X : /\ x.pos \in Nat /\ end(x) \in Nat
                     /\ \E y \in Y : /\ y.pos \in Nat /\ end(y) \in Nat
                                    /\ y.pos <= x.pos /\ end(x) <= end(y)
  PROVE  SplitFrom(X, d, 1)
<1>1. SUFFICES ASSUME NEW x \in X, NEW j \in 1 .. Len(d)
               PROVE  ~strictly_includes(x, d[j].pos) /\ ~strictly_includes(x, end(d[j]))
    BY DEF SplitFrom
<1>2. PICK y \in Y : /\ y.pos \in Nat /\ end(y) \in Nat
                     /\ y.pos <= x.pos /\ end(x) <= end(y)
    OBVIOUS
<1>3. ~strictly_includes(y, d[j].pos) /\ ~strictly_includes(y, end(d[j]))
    BY DEF SplitFrom
<1>4. d[j].pos \in Nat /\ end(d[j]) \in Nat /\ x.pos \in Nat /\ end(x) \in Nat
    BY DomainTypes
<1>. QED  BY <1>2, <1>3, <1>4 DEF strictly_includes

\* Two blocks of the map beside one another, both in the domain, are in one block of it.
LEMMA NeighboursInOne ==
  ASSUME NEW d, IsDomain(d), NEW x, NEW y, x.pos \in Nat, end(x) \in Nat, end(y) \in Nat,
         x.pos < end(x), y.pos = end(x), y.pos < end(y),
         NEW j \in 1 .. Len(d), NEW k \in 1 .. Len(d), includes(d[j], x), includes(d[k], y)
  PROVE  j = k
<1>1. /\ d[j].pos \in Nat /\ end(d[j]) \in Nat /\ d[k].pos \in Nat /\ end(d[k]) \in Nat
      /\ Len(d) \in Nat
    BY DomainTypes
<1>2. /\ d[j].pos <= x.pos /\ end(x) <= end(d[j])
      /\ d[k].pos <= y.pos /\ end(y) <= end(d[k])
    BY DEF includes
<1>3. CASE j < k
  <2>1. end(d[j]) < d[k].pos
      BY <1>3, DomainInOrder
  <2>. QED  BY <1>1, <1>2, <2>1
<1>4. CASE k < j
  <2>1. end(d[k]) < d[j].pos
      BY <1>4, DomainInOrder
  <2>. QED  BY <1>1, <1>2, <2>1
<1>. QED  BY <1>1, <1>3, <1>4

\* Where the changed chunk z reaches, which may join what is before and after it.
Reaches(z, jb, ja, v, d, i, x, s) ==
  /\ z.st = s /\ z.pos \in Nat /\ end(z) \in Nat
  /\ jb => /\ i - 1 \in 1 .. Len(v) /\ v[i - 1].pos \in Nat
           /\ end(v[i - 1]) = x.pos /\ x.pos = v[i].pos
           /\ v[i - 1].pos < x.pos /\ v[i - 1].st = s /\ InDomain(d, v[i - 1])
  /\ ja => /\ i + 1 \in 1 .. Len(v) /\ v[i + 1].pos = end(x)
           /\ end(x) = end(v[i]) /\ end(v[i + 1]) \in Nat
           /\ end(x) < end(v[i + 1]) /\ v[i + 1].st = s /\ InDomain(d, v[i + 1])
  /\ z.pos = IF jb THEN v[i - 1].pos ELSE x.pos
  /\ end(z) = IF ja THEN end(v[i + 1]) ELSE end(x)

LEMMA ChangedChunk ==
  ASSUME NEW v, NEW d, NEW i, NEW x, HasChunk(v, d, i, x), NEW s
  PROVE  LET jb == JoinsBefore(v, i, x, s, d)
             ja == JoinsAfter(v, i, x, s, d)
         IN  /\ Reaches(Changed(v, i, x, s, d), jb, ja, v, d, i, x, s)
             /\ FirstTaken(v, i, x, s, d) = IF jb THEN i - 1 ELSE i
             /\ LastTaken(v, i, x, s, d) = IF ja THEN i + 1 ELSE i
<1> DEFINE z == Changed(v, i, x, s, d)
           jb == JoinsBefore(v, i, x, s, d)
           ja == JoinsAfter(v, i, x, s, d)
           lo == IF jb THEN v[i - 1].pos ELSE x.pos
           hi == IF ja THEN end(v[i + 1]) ELSE end(x)
<1>1. /\ v[i].pos \in Nat /\ end(v[i]) \in Nat /\ x.pos \in Nat /\ end(x) \in Nat
      /\ v[i].pos <= x.pos /\ x.pos < end(x) /\ end(x) <= end(v[i])
      /\ Len(v) \in Nat /\ i \in 1 .. Len(v) /\ IsVector(v)
    BY ChunkInBlock DEF HasChunk
<1>2. jb => /\ i - 1 \in 1 .. Len(v) /\ v[i - 1].pos \in Nat
            /\ end(v[i - 1]) = x.pos /\ x.pos = v[i].pos
            /\ v[i - 1].pos < x.pos /\ v[i - 1].st = s /\ InDomain(d, v[i - 1])
  <2> SUFFICES ASSUME jb PROVE /\ i - 1 \in 1 .. Len(v) /\ v[i - 1].pos \in Nat
            /\ end(v[i - 1]) = x.pos /\ x.pos = v[i].pos
            /\ v[i - 1].pos < x.pos /\ v[i - 1].st = s /\ InDomain(d, v[i - 1])
      OBVIOUS
  <2>1. i > 1 /\ x.pos = v[i].pos /\ v[i - 1].st = s /\ InDomain(d, v[i - 1])
      BY Zenon DEF JoinsBefore
  <2>2. i - 1 \in 1 .. Len(v) /\ v[i].pos = end(v[i - 1])
      BY <1>1, <2>1, VectorBlocks
  <2>3. v[i - 1].pos \in Nat /\ v[i - 1].pos < end(v[i - 1])
      BY <1>1, <2>2, BlockTypes
  <2>. QED  BY <2>1, <2>2, <2>3
<1>3. ja => /\ i + 1 \in 1 .. Len(v) /\ v[i + 1].pos = end(x)
            /\ end(x) = end(v[i]) /\ end(v[i + 1]) \in Nat
            /\ end(x) < end(v[i + 1]) /\ v[i + 1].st = s /\ InDomain(d, v[i + 1])
  <2> SUFFICES ASSUME ja PROVE /\ i + 1 \in 1 .. Len(v) /\ v[i + 1].pos = end(x)
            /\ end(x) = end(v[i]) /\ end(v[i + 1]) \in Nat
            /\ end(x) < end(v[i + 1]) /\ v[i + 1].st = s /\ InDomain(d, v[i + 1])
      OBVIOUS
  <2>1. i < Len(v) /\ end(x) = end(v[i]) /\ v[i + 1].st = s /\ InDomain(d, v[i + 1])
      BY Zenon DEF JoinsAfter
  <2>2. i + 1 \in 1 .. Len(v) /\ v[i + 1].pos = end(v[i])
      BY <1>1, <2>1, VectorBlocks
  <2>3. end(v[i + 1]) \in Nat /\ v[i + 1].pos < end(v[i + 1])
      BY <1>1, <2>2, BlockTypes
  <2>. QED  BY <2>1, <2>2, <2>3
<1> HIDE DEF jb, ja
<1>4. lo \in Nat /\ hi \in Nat
    BY <1>1, <1>2, <1>3
<1>5. z = From(lo, hi, s)
    BY Zenon DEF Changed, jb, ja
<1> HIDE DEF lo, hi, z
<1>6. z.st = s /\ z.pos = lo /\ end(z) = hi
    BY <1>4, <1>5, FromIs
<1>7. /\ FirstTaken(v, i, x, s, d) = IF jb THEN i - 1 ELSE i
      /\ LastTaken(v, i, x, s, d) = IF ja THEN i + 1 ELSE i
    BY Zenon DEF FirstTaken, LastTaken, jb, ja
<1>8. Reaches(z, jb, ja, v, d, i, x, s)
    BY <1>2, <1>3, <1>4, <1>6 DEF Reaches, lo, hi
<1>. QED  BY Zenon, <1>7, <1>8 DEF jb, ja, z

\* It is inside of one block of the domain.
LEMMA ChangedIsInside ==
  ASSUME NEW v, NEW d, NEW i, NEW x, HasChunk(v, d, i, x), NEW s
  PROVE  \E k \in 1 .. Len(d) : includes(d[k], Changed(v, i, x, s, d)) /\ includes(d[k], v[i])
<1> DEFINE z == Changed(v, i, x, s, d)
           jb == JoinsBefore(v, i, x, s, d)
           ja == JoinsAfter(v, i, x, s, d)
<1>1. /\ v[i].pos \in Nat /\ end(v[i]) \in Nat /\ x.pos \in Nat /\ end(x) \in Nat
      /\ v[i].pos <= x.pos /\ x.pos < end(x) /\ end(x) <= end(v[i])
      /\ IsVector(v) /\ IsDomain(d) /\ i \in 1 .. Len(v)
    BY ChunkInBlock DEF HasChunk
<1>2. \A j \in 1 .. Len(v) : InDomain(d, v[j]) => \E k \in 1 .. Len(d) : includes(d[k], v[j])
  <2> SUFFICES ASSUME NEW j \in 1 .. Len(v), InDomain(d, v[j])
               PROVE  \E k \in 1 .. Len(d) : includes(d[k], v[j])
      OBVIOUS
  <2>1. GoodBlock(v[j])
      BY <1>1, VectorBlocks
  <2>2. v[j].pos \in Nat /\ v[j].size \in Nat /\ v[j].size > 0
      BY <2>1 DEF GoodBlock, Blocks
  <2>. QED  BY <1>1, <2>2, DomainSearchIsExact
<1>3. PICK k \in 1 .. Len(d) : includes(d[k], v[i])
    BY <1>1, <1>2 DEF HasChunk
<1>4. /\ jb => /\ i - 1 \in 1 .. Len(v) /\ v[i - 1].pos \in Nat
               /\ end(v[i - 1]) = x.pos /\ x.pos = v[i].pos
               /\ v[i - 1].pos < x.pos /\ InDomain(d, v[i - 1])
      /\ ja => /\ i + 1 \in 1 .. Len(v) /\ v[i + 1].pos = end(x)
               /\ end(x) = end(v[i]) /\ end(v[i + 1]) \in Nat
               /\ end(x) < end(v[i + 1]) /\ InDomain(d, v[i + 1])
      /\ z.pos = IF jb THEN v[i - 1].pos ELSE x.pos
      /\ end(z) = IF ja THEN end(v[i + 1]) ELSE end(x)
  <2>1. Reaches(z, jb, ja, v, d, i, x, s)
      BY Zenon, ChangedChunk
  <2> HIDE DEF z, jb, ja
  <2>. QED  BY <2>1 DEF Reaches
<1> HIDE DEF jb, ja, z
<1>5. jb => d[k].pos <= v[i - 1].pos
  <2> SUFFICES ASSUME jb PROVE d[k].pos <= v[i - 1].pos
      OBVIOUS
  <2>1. PICK l \in 1 .. Len(d) : includes(d[l], v[i - 1])
      BY <1>2, <1>4
  <2> DEFINE y == v[i - 1]
  <2>2. y.pos \in Nat /\ end(y) = v[i].pos /\ y.pos < end(y) /\ includes(d[l], y)
      BY <1>1, <1>4, <2>1
  <2> HIDE DEF y
  <2>3. l = k
      BY <1>1, <1>3, <2>2, NeighboursInOne
  <2>4. d[k].pos <= y.pos
      BY <2>2, <2>3 DEF includes
  <2>. QED  BY <2>4 DEF y
<1>6. ja => end(v[i + 1]) <= end(d[k])
  <2> SUFFICES ASSUME ja PROVE end(v[i + 1]) <= end(d[k])
      OBVIOUS
  <2>1. PICK l \in 1 .. Len(d) : includes(d[l], v[i + 1])
      BY <1>2, <1>4
  <2> DEFINE y == v[i + 1]
  <2>2. end(y) \in Nat /\ y.pos = end(v[i]) /\ y.pos < end(y) /\ includes(d[l], y)
        /\ v[i].pos < end(v[i])
      BY <1>1, <1>4, <2>1
  <2> HIDE DEF y
  <2>3. l = k
      BY <1>1, <1>3, <2>2, NeighboursInOne
  <2>4. end(y) <= end(d[k])
      BY <2>2, <2>3 DEF includes
  <2>. QED  BY <2>4 DEF y
<1>7. d[k].pos \in Nat /\ end(d[k]) \in Nat
    BY <1>1, DomainTypes
<1>8. d[k].pos <= v[i].pos /\ end(v[i]) <= end(d[k])
    BY <1>3 DEF includes
<1>9. d[k].pos <= z.pos /\ end(z) <= end(d[k])
    BY <1>1, <1>4, <1>5, <1>6, <1>7, <1>8
<1>. QED  BY <1>3, <1>9 DEF includes, z

\* The positions of a block.
LEMMA BytesAre ==
  ASSUME NEW x, x.pos \in Nat, end(x) \in Nat, NEW p
  PROVE  p \in Bytes(x) <=> p \in Nat /\ x.pos <= p /\ p < end(x)
BY DEF Bytes

\* In a vector, a position has one status.
LEMMA HeldOnce ==
  ASSUME NEW v, IsVector(v), NEW i \in 1 .. Len(v), NEW p \in Bytes(v[i]), NEW t
  PROVE  Holds(BlocksOf(v), p, t) <=> v[i].st = t
<1>1. \A j \in 1 .. Len(v) : p \in Bytes(v[j]) => j = i
  <2> SUFFICES ASSUME NEW j \in 1 .. Len(v), p \in Bytes(v[j]) PROVE j = i
      OBVIOUS
  <2>1. /\ v[j].pos \in Nat /\ end(v[j]) \in Nat /\ v[i].pos \in Nat /\ end(v[i]) \in Nat
      BY BlockTypes
  <2>2. p \in Nat /\ includes_pos(v[i], p) /\ includes_pos(v[j], p)
      BY <2>1, BytesAre DEF includes_pos
  <2>. QED  BY <2>2, OneBlockHolds
<1>. QED  BY Zenon, <1>1 DEF Holds, BlocksOf

\* What a change makes of the map: its chunk gets the status, and nothing else does.
Marks(w, v, x, s) ==
  \A p, t : Holds(BlocksOf(w), p, t) <=>
              IF p \in Bytes(x) THEN t = s ELSE Holds(BlocksOf(v), p, t)

LEMMA ChangeMarks ==
  ASSUME NEW v, NEW d, NEW i, NEW x, HasChunk(v, d, i, x), NEW s \in Status, s # v[i].st
  PROVE  Marks(change_block(v, i, x, s, d).v, v, x, s)
<1> DEFINE z  == Changed(v, i, x, s, d)
           jb == JoinsBefore(v, i, x, s, d)
           ja == JoinsAfter(v, i, x, s, d)
           a  == IF jb THEN i - 1 ELSE i
           e  == IF ja THEN i + 1 ELSE i
           L  == From(v[i].pos, x.pos, v[i].st)
           R  == From(end(x), end(v[i]), v[i].st)
           w  == change_block(v, i, x, s, d).v
<1>1. /\ v[i].pos \in Nat /\ end(v[i]) \in Nat /\ x.pos \in Nat /\ end(x) \in Nat
      /\ v[i].pos <= x.pos /\ x.pos < end(x) /\ end(x) <= end(v[i])
      /\ IsVector(v) /\ i \in 1 .. Len(v) /\ Len(v) \in Nat
    BY ChunkInBlock DEF HasChunk
<1> DEFINE first == FirstTaken(v, i, x, s, d)
           last  == LastTaken(v, i, x, s, d)
<1>2. /\ Reaches(z, jb, ja, v, d, i, x, s)
      /\ first = a /\ last = e
  <2>1. Reaches(z, jb, ja, v, d, i, x, s)
      BY Zenon, ChangedChunk
  <2>2. first = a /\ last = e
      BY Zenon DEF FirstTaken, LastTaken
  <2>. QED  BY Zenon, <2>1, <2>2
<1>4. /\ L.pos = v[i].pos /\ end(L) = x.pos /\ L.st = v[i].st
      /\ R.pos = end(x) /\ end(R) = end(v[i]) /\ R.st = v[i].st
    BY <1>1, FromIs
<1>16. \A y : y \in BlocksOf(w) <=>
         \/ \E j \in 1 .. Len(v) : (j < a \/ j > e) /\ y = v[j]
         \/ y = z
         \/ v[i].pos < x.pos /\ y = L
         \/ end(x) < end(v[i]) /\ y = R
  <2>1. ChangeOf(v, i, x, s, d)
      BY DEF ChangeOf, HasChunk
  <2>2. \A y : y \in BlocksOf(w) <=> AfterChange(y, v, i, x, s, d)
      BY Zenon, <2>1, ChangedBlockIs
  <2>3. \A y : AfterChange(y, v, i, x, s, d) <=>
          \/ \E j \in 1 .. Len(v) : (j < first \/ j > last) /\ y = v[j]
          \/ y = z
          \/ v[i].pos < x.pos /\ y = L
          \/ end(x) < end(v[i]) /\ y = R
      BY Zenon DEF AfterChange
  <2> HIDE DEF first, last, a, e, w, z, L, R
  <2>. QED  BY Zenon, <1>2, <2>2, <2>3
<1> HIDE DEF L, R, w, z, jb, ja
<1>6. \A j \in 1 .. Len(v) : j < a => j < i /\ (jb => j < i - 1)
    BY <1>1
<1>7. \A j \in 1 .. Len(v) : j > e => j > i
    BY <1>1
<1>8. \A p : p \in Bytes(v[i]) <=>
        \/ p \in Bytes(x)
        \/ v[i].pos < x.pos /\ p \in Bytes(L)
        \/ end(x) < end(v[i]) /\ p \in Bytes(R)
  <2> SUFFICES ASSUME NEW p
               PROVE  p \in Bytes(v[i]) <=>
                        \/ p \in Bytes(x)
                        \/ v[i].pos < x.pos /\ p \in Bytes(L)
                        \/ end(x) < end(v[i]) /\ p \in Bytes(R)
      OBVIOUS
  <2>1. /\ p \in Bytes(v[i]) <=> p \in Nat /\ v[i].pos <= p /\ p < end(v[i])
        /\ p \in Bytes(x) <=> p \in Nat /\ x.pos <= p /\ p < end(x)
        /\ p \in Bytes(L) <=> p \in Nat /\ v[i].pos <= p /\ p < x.pos
        /\ p \in Bytes(R) <=> p \in Nat /\ end(x) <= p /\ p < end(v[i])
      BY <1>1, <1>4, BytesAre
  <2>. QED  BY <1>1, <2>1
<1>9. \A p : p \in Bytes(z) <=>
        \/ p \in Bytes(x)
        \/ jb /\ p \in Bytes(v[i - 1])
        \/ ja /\ p \in Bytes(v[i + 1])
  <2> SUFFICES ASSUME NEW p
               PROVE  p \in Bytes(z) <=>
                        \/ p \in Bytes(x)
                        \/ jb /\ p \in Bytes(v[i - 1])
                        \/ ja /\ p \in Bytes(v[i + 1])
      OBVIOUS
  <2>1. /\ jb => (p \in Bytes(v[i - 1]) <=> p \in Nat /\ v[i - 1].pos <= p /\ p < x.pos)
        /\ ja => (p \in Bytes(v[i + 1]) <=> p \in Nat /\ end(x) <= p /\ p < end(v[i + 1]))
        /\ p \in Bytes(x) <=> p \in Nat /\ x.pos <= p /\ p < end(x)
        /\ p \in Bytes(z) <=> p \in Nat /\ z.pos <= p /\ p < end(z)
      BY <1>1, <1>2, BytesAre DEF Reaches
  <2>. QED  BY <1>1, <1>2, <2>1 DEF Reaches
<1>10. \A j \in 1 .. Len(v) : j # i => Bytes(v[j]) \cap Bytes(x) = {}
  <2> SUFFICES ASSUME NEW j \in 1 .. Len(v), j # i, NEW p \in Bytes(v[j]), p \in Bytes(x)
               PROVE  FALSE
      OBVIOUS
  <2>1. /\ v[j].pos \in Nat /\ end(v[j]) \in Nat
        /\ j < i => end(v[j]) <= v[i].pos
        /\ j > i => end(v[i]) <= v[j].pos
      BY <1>1, OtherBlocks
  <2>2. p \in Nat /\ v[j].pos <= p /\ p < end(v[j]) /\ x.pos <= p /\ p < end(x)
      BY <1>1, <2>1, BytesAre
  <2>. QED  BY <1>1, <2>1, <2>2
<1>11. /\ Bytes(L) \cap Bytes(x) = {} /\ Bytes(R) \cap Bytes(x) = {}
  <2> SUFFICES ASSUME NEW p, p \in Bytes(x), p \in Bytes(L) \/ p \in Bytes(R)
               PROVE  FALSE
      OBVIOUS
  <2>1. /\ p \in Bytes(x) <=> p \in Nat /\ x.pos <= p /\ p < end(x)
        /\ p \in Bytes(L) <=> p \in Nat /\ v[i].pos <= p /\ p < x.pos
        /\ p \in Bytes(R) <=> p \in Nat /\ end(x) <= p /\ p < end(v[i])
      BY <1>1, <1>4, BytesAre
  <2>. QED  BY <1>1, <2>1
<1>12. z.st = s /\ (jb => i - 1 \in 1 .. Len(v) /\ v[i - 1].st = s)
       /\ (ja => i + 1 \in 1 .. Len(v) /\ v[i + 1].st = s)
    BY <1>2 DEF Reaches
<1>13. \A j \in 1 .. Len(v) : j < a \/ j > e \/ j = i \/ (jb /\ j = i - 1) \/ (ja /\ j = i + 1)
    BY <1>1
<1>17. \A j \in 1 .. Len(v) : j < a \/ j > e => j # i
    BY <1>1
<1> HIDE DEF a, e
<1> SUFFICES ASSUME NEW p, NEW t
             PROVE  Holds(BlocksOf(w), p, t) <=>
                      IF p \in Bytes(x) THEN t = s ELSE Holds(BlocksOf(v), p, t)
    BY Zenon DEF Marks, w
<1>18. ASSUME Holds(BlocksOf(w), p, t)
       PROVE  IF p \in Bytes(x) THEN t = s ELSE Holds(BlocksOf(v), p, t)
  <2>1. PICK y \in BlocksOf(w) : p \in Bytes(y) /\ y.st = t
      BY Zenon, <1>18 DEF Holds
  <2>2. CASE \E j \in 1 .. Len(v) : (j < a \/ j > e) /\ y = v[j]
    <3>1. p \notin Bytes(x) /\ y \in BlocksOf(v)
        BY Zenon, <1>10, <1>17, <2>1, <2>2 DEF BlocksOf
    <3>. QED  BY Zenon, <2>1, <3>1 DEF Holds
  <2>3. CASE y = z
    <3>1. t = s
        BY Zenon, <1>12, <2>1, <2>3
    <3>2. p \notin Bytes(x) => Holds(BlocksOf(v), p, t)
        BY Zenon, <1>9, <1>12, <2>1, <2>3, <3>1 DEF Holds, BlocksOf
    <3>. QED  BY Zenon, <3>1, <3>2
  <2>4. CASE (v[i].pos < x.pos /\ y = L) \/ (end(x) < end(v[i]) /\ y = R)
    <3>1. p \notin Bytes(x) /\ p \in Bytes(v[i]) /\ t = v[i].st
        BY Zenon, <1>4, <1>8, <1>11, <2>1, <2>4
    <3>. QED  BY Zenon, <1>1, <3>1 DEF Holds, BlocksOf
  <2>. QED  BY Zenon, <1>16, <2>1, <2>2, <2>3, <2>4
<1>19. ASSUME IF p \in Bytes(x) THEN t = s ELSE Holds(BlocksOf(v), p, t)
       PROVE  Holds(BlocksOf(w), p, t)
  <2>1. CASE p \in Bytes(x)
    <3>1. p \in Bytes(z) /\ z.st = t /\ z \in BlocksOf(w)
        BY Zenon, <1>9, <1>12, <1>16, <1>19, <2>1
    <3>. QED  BY Zenon, <3>1 DEF Holds
  <2>2. CASE p \notin Bytes(x)
    <3>1. PICK j \in 1 .. Len(v) : p \in Bytes(v[j]) /\ v[j].st = t
        BY Zenon, <1>19, <2>2 DEF Holds, BlocksOf
    <3>2. CASE j < a \/ j > e
      <4>1. v[j] \in BlocksOf(w)
          BY Zenon, <1>16, <3>2
      <4>. QED  BY Zenon, <3>1, <4>1 DEF Holds
    <3>3. CASE j = i
      <4>1. (v[i].pos < x.pos /\ p \in Bytes(L)) \/ (end(x) < end(v[i]) /\ p \in Bytes(R))
          BY Zenon, <1>8, <2>2, <3>1, <3>3
      <4>2. CASE v[i].pos < x.pos /\ p \in Bytes(L)
          BY Zenon, <1>4, <1>16, <3>1, <3>3, <4>2 DEF Holds
      <4>3. CASE end(x) < end(v[i]) /\ p \in Bytes(R)
          BY Zenon, <1>4, <1>16, <3>1, <3>3, <4>3 DEF Holds
      <4>. QED  BY Zenon, <4>1, <4>2, <4>3
    <3>4. CASE (jb /\ j = i - 1) \/ (ja /\ j = i + 1)
      <4>1. p \in Bytes(z) /\ z.st = t /\ z \in BlocksOf(w)
          BY Zenon, <1>9, <1>12, <1>16, <3>1, <3>4
      <4>. QED  BY Zenon, <4>1 DEF Holds
    <3>. QED  BY Zenon, <1>13, <3>2, <3>3, <3>4
  <2>. QED  BY Zenon, <2>1, <2>2
<1>. QED  BY Zenon, <1>18, <1>19

LEMMA BlockInDomain ==
  ASSUME NEW d, IsDomain(d), NEW k \in 1 .. Len(d), NEW p \in Nat, NEW e \in Nat, p < e, NEW s,
         includes(d[k], From(p, e, s))
  PROVE  InDomain(d, From(p, e, s))
<1> DEFINE z == From(p, e, s)
<1>1. z.pos \in Nat /\ z.size \in Nat /\ z.size > 0
    BY DEF From
<1> HIDE DEF z
<1>. QED  BY <1>1, DomainSearchIsExact DEF z

LEMMA ChangeKeepsBorders ==
  ASSUME NEW v, NEW d, NEW i, NEW x, HasChunk(v, d, i, x), NEW s \in Status, s # v[i].st
  PROVE  LET w == change_block(v, i, x, s, d).v
         IN  /\ SplitFrom(BlocksOf(w), d, 1)
             /\ \A y : HasChunk(v, d, i, y) /\ end(x) <= y.pos =>
                  \E j \in 1 .. Len(w) : InDomain(d, w[j]) /\ includes(w[j], y)
<1> DEFINE z == Changed(v, i, x, s, d)
           L == From(v[i].pos, x.pos, v[i].st)
           R == From(end(x), end(v[i]), v[i].st)
           w == change_block(v, i, x, s, d).v
<1>1. /\ v[i].pos \in Nat /\ end(v[i]) \in Nat /\ x.pos \in Nat /\ end(x) \in Nat
      /\ v[i].pos <= x.pos /\ x.pos < end(x) /\ end(x) <= end(v[i])
      /\ IsVector(v) /\ IsDomain(d) /\ i \in 1 .. Len(v) /\ Len(v) \in Nat
      /\ SplitFrom(BlocksOf(v), d, 1)
    BY ChunkInBlock DEF HasChunk
<1>2. PICK k \in 1 .. Len(d) : includes(d[k], z) /\ includes(d[k], v[i])
    BY Zenon, ChangedIsInside
<1>3. /\ L.pos = v[i].pos /\ end(L) = x.pos
      /\ R.pos = end(x) /\ end(R) = end(v[i])
    BY <1>1, FromIs
<1>4. z.pos \in Nat /\ end(z) \in Nat /\ z.pos <= x.pos /\ end(x) <= end(z)
  <2> DEFINE jb == JoinsBefore(v, i, x, s, d)
             ja == JoinsAfter(v, i, x, s, d)
  <2>1. Reaches(z, jb, ja, v, d, i, x, s)
      BY Zenon, ChangedChunk
  <2> HIDE DEF z, jb, ja
  <2>. QED  BY <1>1, <2>1 DEF Reaches
<1>5. \A y \in BlocksOf(w) : y \in BlocksOf(v) \/ y = z \/ (y = L /\ L.pos < end(L))
                             \/ (y = R /\ R.pos < end(R))
  <2>1. ChangeOf(v, i, x, s, d)
      BY DEF ChangeOf, HasChunk
  <2>2. \A y : y \in BlocksOf(w) <=> AfterChange(y, v, i, x, s, d)
      BY Zenon, <2>1, ChangedBlockIs
  <2>. QED  BY Zenon, <1>3, <2>2 DEF AfterChange, BlocksOf
<1>6. end(x) < end(v[i]) => R \in BlocksOf(w)
  <2>1. ChangeOf(v, i, x, s, d)
      BY DEF ChangeOf, HasChunk
  <2>2. \A y : y \in BlocksOf(w) <=> AfterChange(y, v, i, x, s, d)
      BY Zenon, <2>1, ChangedBlockIs
  <2>. QED  BY Zenon, <2>2 DEF AfterChange
<1>7. IsVector(w)
  <2>1. x.size \in Nat /\ x.size > 0 /\ includes(v[i], x)
      BY DEF HasChunk, IsChunk
  <2>. QED  BY Zenon, <1>1, <2>1, ChangeBlockIsVector
<1>8. d[k].pos \in Nat /\ end(d[k]) \in Nat /\ d[k].pos <= v[i].pos /\ end(v[i]) <= end(d[k])
  <2>1. d[k].pos \in Nat /\ end(d[k]) \in Nat
      BY <1>1, DomainTypes
  <2>. QED  BY <1>2, <2>1 DEF includes
<1> HIDE DEF z, L, w
<1>9. SplitFrom(BlocksOf(w), d, 1)
  <2>1. SplitFrom({z}, d, 1)
    <3>1. z.pos < end(z)
        BY <1>1, <1>4
    <3>. QED  BY <1>1, <1>2, <1>4, <3>1, InsideIsSplit
  <2>2. L.pos < end(L) => SplitFrom({L}, d, 1)
    <3>1. L.pos \in Nat /\ end(L) \in Nat /\ includes(d[k], L)
        BY <1>1, <1>3, <1>8 DEF includes
    <3>. QED  BY <1>1, <3>1, InsideIsSplit
  <2>3. R.pos < end(R) => SplitFrom({R}, d, 1)
    <3> HIDE DEF R
    <3>1. R.pos \in Nat /\ end(R) \in Nat /\ includes(d[k], R)
        BY <1>1, <1>3, <1>8 DEF includes
    <3>. QED  BY <1>1, <3>1, InsideIsSplit
  <2> HIDE DEF R
  <2>. QED  BY Zenon, <1>1, <1>5, <2>1, <2>2, <2>3 DEF SplitFrom
<1>10. ASSUME NEW y, HasChunk(v, d, i, y), end(x) <= y.pos
       PROVE  \E j \in 1 .. Len(w) : InDomain(d, w[j]) /\ includes(w[j], y)
  <2>1. y.pos \in Nat /\ end(y) \in Nat /\ y.pos < end(y) /\ end(y) <= end(v[i])
      BY <1>10, ChunkInBlock
  <2>2. end(x) < end(v[i])
      BY <1>1, <1>10, <2>1
  <2>3. InDomain(d, R)
    <3>1. includes(d[k], R)
      <4> HIDE DEF R
      <4>. QED  BY <1>1, <1>3, <1>8 DEF includes
    <3>. QED  BY <1>1, <2>2, <3>1, BlockInDomain
  <2> HIDE DEF R
  <2>4. includes(R, y)
      BY <1>1, <1>3, <1>10, <2>1 DEF includes
  <2>. QED  BY Zenon, <1>6, <2>2, <2>3, <2>4 DEF BlocksOf
<1>. QED  BY Zenon, <1>9, <1>10 DEF w

\* change_chunk_status on a part of a block, whatever the cached index: what comes
\* after the chunk in its block remains in one.
LEMMA ChunkMarked ==
  ASSUME NEW v, NEW d, NEW i, NEW x, HasChunk(v, d, i, x), NEW s \in Status, NEW index \in Int
  PROVE  LET r == change_chunk_status(v, index, x, s, d)
         IN  /\ IsVector(r.v) /\ r.index \in Int /\ SplitFrom(BlocksOf(r.v), d, 1)
             /\ Marks(r.v, v, x, s)
             /\ \A y : HasChunk(v, d, i, y) /\ end(x) <= y.pos => \E j : HasChunk(r.v, d, j, y)
<1> DEFINE r == change_block(v, i, x, s, d)
<1>1. /\ x.pos \in Nat /\ end(x) \in Nat
      /\ IsVector(v) /\ IsDomain(d) /\ i \in 1 .. Len(v) /\ Len(v) \in Nat
      /\ SplitFrom(BlocksOf(v), d, 1) /\ includes_pos(v[i], x.pos)
      /\ x.size \in Nat /\ x.size > 0 /\ includes(v[i], x)
    BY ChunkInBlock DEF HasChunk, IsChunk
<1>2. change_chunk_status(v, index, x, s, d) = r
  <2>1. x.pos \in Int /\ ~(x.size <= 0)
      BY <1>1
  <2>2. find_index(v, index, x.pos) = i
      BY Zenon, <1>1, <2>1, FindIndex
  <2>3. change_chunk_status(v, index, x, s, d) =
          change_block(v, find_index(v, index, x.pos), x, s, d)
      BY Zenon, <2>1 DEF change_chunk_status
  <2>. QED  BY Zenon, <2>2, <2>3
<1>3. CASE s = v[i].st
  <2>1. r.v = v /\ r.index = i
    <3>1. r = [v |-> v, index |-> i, adjust |-> 0]
        BY Zenon, <1>3 DEF change_block
    <3> HIDE DEF r
    <3>. QED  BY <3>1
  <2>2. Marks(v, v, x, s)
    <3>1. ASSUME NEW p, NEW t, p \in Bytes(x)
          PROVE  Holds(BlocksOf(v), p, t) <=> t = s
      <4>1. p \in Bytes(v[i])
        <5>1. /\ v[i].pos \in Nat /\ end(v[i]) \in Nat /\ v[i].pos <= x.pos
              /\ end(x) <= end(v[i])
            BY ChunkInBlock
        <5>. QED  BY <1>1, <3>1, <5>1, BytesAre
      <4>. QED  BY Zenon, <1>1, <1>3, <4>1, HeldOnce
    <3>2. ASSUME NEW p, NEW t
          PROVE  Holds(BlocksOf(v), p, t) <=>
                   IF p \in Bytes(x) THEN t = s ELSE Holds(BlocksOf(v), p, t)
      <4>1. CASE p \in Bytes(x)
          BY <3>1, <4>1
      <4>2. CASE p \notin Bytes(x)
          BY Zenon, <4>2
      <4>. QED  BY Zenon, <4>1, <4>2
    <3>. QED  BY Zenon, <3>2 DEF Marks
  <2> HIDE DEF r
  <2>3. r.index \in Int
      BY <1>1, <2>1
  <2>. QED  BY Zenon, <1>1, <1>2, <2>1, <2>2, <2>3
<1>4. CASE s # v[i].st
  <2>1. IsVector(r.v) /\ r.index \in Nat
      BY Zenon, <1>1, ChangeBlockIsVector
  <2>2. r.index \in Int
      BY <2>1
  <2>3. Marks(r.v, v, x, s)
      BY Zenon, <1>4, ChangeMarks
  <2>4. /\ SplitFrom(BlocksOf(r.v), d, 1)
        /\ \A y : HasChunk(v, d, i, y) /\ end(x) <= y.pos =>
             \E j \in 1 .. Len(r.v) : InDomain(d, r.v[j]) /\ includes(r.v[j], y)
      BY Zenon, <1>4, ChangeKeepsBorders
  <2> HIDE DEF r
  <2>5. \A y : HasChunk(v, d, i, y) /\ end(x) <= y.pos => \E j : HasChunk(r.v, d, j, y)
      BY Zenon, <2>1, <2>4 DEF HasChunk
  <2>. QED  BY Zenon, <1>2, <2>1, <2>2, <2>3, <2>4, <2>5
<1>. QED  BY Zenon, <1>3, <1>4

-----------------------------------------------------------------------------
(***************************************************************************)
(* Cutting the map off at the end of a file.                               *)
(***************************************************************************)

\* The blocks up to block i, the last that begins before e, which is cut off there.
CutAt(w, v, i, e) ==
  \E z : /\ BlocksOf(w) = {v[j] : j \in 1 .. i - 1} \cup {z}
         /\ z.pos = v[i].pos /\ end(z) = min(end(v[i]), e) /\ z.st = v[i].st

LEMMA TruncatedBlocks ==
  ASSUME NEW v, IsVector(v), NEW e \in Nat \ {0}, NEW force, truncate_vector(v, e, force).ok
  PROVE  \E i \in 1 .. Len(v) :
           /\ v[i].pos < e /\ \A j \in 1 .. Len(v) : j > i => e <= v[j].pos
           /\ CutAt(truncate_vector(v, e, force).v, v, i, e)
<1> DEFINE S  == {0} \cup {j \in DOMAIN v : v[j].pos < e}
           i  == Max(S)
           ok == \/ force
                 \/ /\ \A j \in i + 1 .. Len(v) : v[j].st # "finished"
                    /\ i > 0 /\ includes_pos(v[i], e) => v[i].st # "finished"
           z  == IF includes_pos(v[i], e) THEN set_size(v[i], e - v[i].pos) ELSE v[i]
           r  == truncate_vector(v, e, force)
<1>1. r = [ok |-> ok, v |-> IF ~ok THEN v
                           ELSE IF i = 0 THEN <<Sblock(assign(0, 0), "non_tried")>>
                           ELSE SubSeq(v, 1, i - 1) \o <<z>>]
    BY Zenon DEF truncate_vector
<1>2. i \in 1 .. Len(v) /\ v[i].pos < e /\ \A j \in 1 .. Len(v) : j > i => e <= v[j].pos
  <2>1. S \in SUBSET (0 .. Len(v)) /\ 1 \in S /\ Len(v) \in Nat /\ DOMAIN v = 1 .. Len(v)
      BY VectorTypes, BlockTypes
  <2>2. Max(S) \in S /\ \A y \in S : Max(S) >= y
    <3> HIDE DEF S
    <3>. QED  BY <2>1, MaxExists
  <2>3. i \in S /\ \A y \in S : i >= y
      BY Zenon, <2>2
  <2> HIDE DEF i
  <2>4. i \in 1 .. Len(v) /\ v[i].pos < e
      BY <2>1, <2>3
  <2>5. ASSUME NEW j \in 1 .. Len(v), j > i PROVE e <= v[j].pos
    <3>1. j \notin S /\ v[j].pos \in Nat
        BY <2>1, <2>3, <2>4, <2>5, BlockTypes
    <3>. QED  BY <2>1, <3>1
  <2>. QED  BY <2>4, <2>5
<1>3. r.v = SubSeq(v, 1, i - 1) \o <<z>>
  <2>1. r.ok /\ r.ok = ok
    <3> HIDE DEF ok, z, i
    <3>. QED  BY <1>1
  <2>2. i # 0
      BY <1>2
  <2> HIDE DEF ok, z, i
  <2>3. r.v = IF ~ok THEN v ELSE IF i = 0 THEN <<Sblock(assign(0, 0), "non_tried")>>
              ELSE SubSeq(v, 1, i - 1) \o <<z>>
      BY <1>1
  <2>. QED  BY Zenon, <2>1, <2>2, <2>3
<1> HIDE DEF i
<1>4. /\ v[i] \in Blocks /\ v[i].pos \in Nat /\ end(v[i]) \in Nat /\ v[i].size \in Nat
      /\ end(v[i]) = v[i].pos + v[i].size /\ end(v[i]) <= LLONG_MAX /\ LLONG_MAX \in Nat
    BY <1>2, BlockTypes, LimitAssumption
<1>5. z \in Blocks /\ z.pos = v[i].pos /\ end(z) = min(end(v[i]), e) /\ z.st = v[i].st
  <2>1. CASE includes_pos(v[i], e)
    <3> DEFINE n == e - v[i].pos
               c == [v[i] EXCEPT !.size = n]
    <3>1. n \in Nat /\ n > 0 /\ v[i].pos + n <= LLONG_MAX /\ n <= LLONG_MAX - v[i].pos
          /\ v[i].pos + n = e /\ min(end(v[i]), e) = e
        BY <1>2, <1>4, <2>1 DEF includes_pos, min, BM!Smaller
    <3>2. c \in Blocks /\ c.pos = v[i].pos /\ c.size = n /\ c.st = v[i].st
        BY <1>4, <3>1, Resized
    <3>3. z = fix_size(c)
        BY <2>1 DEF set_size
    <3> HIDE DEF c, n, z
    <3>4. fix_size(c) = c
        BY <1>4, <3>1, <3>2 DEF fix_size
    <3>. QED  BY <1>4, <3>1, <3>2, <3>3, <3>4 DEF end
  <2>2. CASE ~includes_pos(v[i], e)
    <3>1. min(end(v[i]), e) = end(v[i])
        BY <1>2, <1>4, <2>2 DEF includes_pos, min, BM!Smaller
    <3>. QED  BY <1>4, <2>2, <3>1
  <2>. QED  BY <2>1, <2>2
<1> HIDE DEF z
<1>6. BlocksOf(r.v) = {v[j] : j \in 1 .. i - 1} \cup {z}
  <2> DEFINE a == SubSeq(v, 1, i - 1)
             c == <<z>>
  <2>1. a \in Seq(Blocks) /\ BlocksOf(a) = {v[j] : j \in 1 .. i - 1}
    <3>1. 1 \in 1 .. Len(v) + 1 /\ i - 1 \in 0 .. Len(v)
        BY <1>2, VectorTypes
    <3>. QED  BY <3>1, SubSeqBlocks
  <2>2. c \in Seq(Blocks) /\ BlocksOf(c) = {z}
      BY <1>5, BlocksOfOne
  <2> HIDE DEF a, c
  <2>3. BlocksOf(a \o c) = BlocksOf(a) \cup BlocksOf(c)
      BY <2>1, <2>2, ConcatBlocks
  <2>. QED  BY Zenon, <1>3, <2>1, <2>2, <2>3 DEF a, c
<1>. QED  BY Zenon, <1>2, <1>5, <1>6 DEF CutAt

\* A map in memory, whose blocks no border of the domain crosses.
InMap(v, d) == Memory(v) /\ IsDomain(d) /\ SplitFrom(BlocksOf(v), d, 1)

\* What lies from p to e, if anything, is in one block of the domain.
Rest(v, d, p, e) ==
  /\ p \in Nat /\ e \in Nat /\ p <= e
  /\ p < e => \E i : HasChunk(v, d, i, [pos |-> p, size |-> e - p])

LEMMA SmallerRest ==
  ASSUME NEW v, NEW d, NEW p, NEW e, Rest(v, d, p, e), NEW q \in Nat, NEW f \in Nat,
         p <= q, q <= f, f <= e
  PROVE  Rest(v, d, q, f)
<1>1. p \in Nat /\ e \in Nat /\ p <= e
    BY DEF Rest
<1>2. ASSUME q < f PROVE \E i : HasChunk(v, d, i, [pos |-> q, size |-> f - q])
  <2> DEFINE x == [pos |-> p, size |-> e - p]
             y == [pos |-> q, size |-> f - q]
  <2>1. p < e
      BY <1>1, <1>2
  <2>2. PICK i : HasChunk(v, d, i, x)
      BY <2>1 DEF Rest
  <2>3. v[i].pos <= x.pos /\ end(x) <= end(v[i]) /\ v[i].pos \in Nat /\ end(v[i]) \in Nat
      BY <2>2, ChunkInBlock
  <2>4. x.pos = p /\ end(x) = e /\ y.pos = q /\ end(y) = f /\ IsChunk(y) /\ y.size > 0
      BY <1>1, <1>2 DEF end, IsChunk
  <2> HIDE DEF x, y
  <2>5. includes(v[i], y)
      BY <1>1, <2>3, <2>4 DEF includes
  <2>6. HasChunk(v, d, i, y)
      BY Zenon, <2>2, <2>4, <2>5 DEF HasChunk
  <2>. QED  BY Zenon, <2>6 DEF y
<1>. QED  BY Zenon, <1>2 DEF Rest

LEMMA HasRest ==
  ASSUME NEW v, NEW d, NEW i, NEW x, HasChunk(v, d, i, x)
  PROVE  /\ Rest(v, d, x.pos, end(x)) /\ x.pos \in Nat /\ x.size \in Nat /\ x.size > 0
         /\ end(x) \in Nat /\ end(x) = x.pos + x.size /\ end(x) <= LLONG_MAX /\ LLONG_MAX \in Nat
<1>1. x \in [pos : Nat, size : Nat] /\ x.size > 0
    BY DEF HasChunk, IsChunk
<1>2. x = [pos |-> x.pos, size |-> end(x) - x.pos] /\ x.pos < end(x) /\ end(x) \in Nat
    BY <1>1 DEF end
<1>3. Rest(v, d, x.pos, end(x))
  <2>1. x.pos \in Nat /\ x.pos <= end(x)
      BY <1>1, <1>2
  <2>. QED  BY Zenon, <1>2, <2>1 DEF Rest
<1>4. end(x) <= end(v[i]) /\ end(v[i]) \in Nat
    BY ChunkInBlock
<1>5. end(v[i]) <= LLONG_MAX
    BY BlockTypes DEF HasChunk
<1>. QED  BY <1>1, <1>2, <1>3, <1>4, <1>5, LimitAssumption DEF end

\* change_chunk_status on the first part of what is left.
LEMMA MarkPart ==
  ASSUME NEW v, NEW d, InMap(v, d), NEW p, NEW e, Rest(v, d, p, e), NEW q \in Nat, p <= q, q <= e,
         NEW x, x = [pos |-> p, size |-> q - p], NEW s \in Status, NEW index \in Int
  PROVE  LET r == change_chunk_status(v, index, x, s, d)
         IN  /\ InMap(r.v, d) /\ r.index \in Int /\ Marks(r.v, v, x, s) /\ Rest(r.v, d, q, e)
<1>1. p \in Nat /\ e \in Nat /\ p <= e /\ q <= q /\ p <= p
    BY DEF Rest
<1>2. x.pos = p /\ end(x) = q /\ x.size = q - p
    BY <1>1 DEF end
<1> DEFINE r == change_chunk_status(v, index, x, s, d)
<1>3. CASE p = q
  <2>1. x.size <= 0
      BY <1>1, <1>2, <1>3
  <2>2. r.v = v /\ r.index = index
    <3>1. r = [v |-> v, index |-> index, adjust |-> 0]
        BY Zenon, <2>1 DEF change_chunk_status
    <3> HIDE DEF r
    <3>. QED  BY <3>1
  <2>3. Marks(v, v, x, s)
    <3>1. Bytes(x) = {}
        BY <1>1, <1>2, <1>3 DEF Bytes
    <3>. QED  BY Zenon, <3>1 DEF Marks
  <2>4. Rest(v, d, q, e)
      BY Zenon, <1>3
  <2>. QED  BY Zenon, <2>2, <2>3, <2>4
<1>4. CASE p # q
  <2>1. Rest(v, d, p, q) /\ p < q
      BY <1>1, <1>4, SmallerRest
  <2>2. PICK j : HasChunk(v, d, j, [pos |-> p, size |-> e - p])
      BY <1>1, <2>1 DEF Rest
  <2>3. HasChunk(v, d, j, x)
    <3> DEFINE y == [pos |-> p, size |-> e - p]
    <3>1. HasChunk(v, d, j, y) /\ y.pos = p /\ end(y) = e
        BY <1>1, <2>2 DEF end
    <3> HIDE DEF y
    <3>2. v[j].pos <= y.pos /\ end(y) <= end(v[j]) /\ v[j].pos \in Nat /\ end(v[j]) \in Nat
        BY <3>1, ChunkInBlock
    <3>3. includes(v[j], x) /\ x.size > 0
        BY <1>1, <1>2, <2>1, <3>1, <3>2 DEF includes
    <3>4. IsChunk(x)
        BY <1>1, <2>1 DEF IsChunk
    <3>. QED  BY Zenon, <3>1, <3>3, <3>4 DEF HasChunk
  <2>4. /\ IsVector(r.v) /\ r.index \in Int /\ SplitFrom(BlocksOf(r.v), d, 1)
        /\ Marks(r.v, v, x, s)
        /\ \A y : HasChunk(v, d, j, y) /\ end(x) <= y.pos => \E k : HasChunk(r.v, d, k, y)
    <3> HIDE DEF r
    <3>1. LET c == change_chunk_status(v, index, x, s, d)
          IN  /\ IsVector(c.v) /\ c.index \in Int /\ SplitFrom(BlocksOf(c.v), d, 1)
              /\ Marks(c.v, v, x, s)
              /\ \A y : HasChunk(v, d, j, y) /\ end(x) <= y.pos => \E k : HasChunk(c.v, d, k, y)
        BY Zenon, <2>3, ChunkMarked
    <3>. QED  BY Zenon, <3>1 DEF r
  <2> HIDE DEF r
  <2>5. Rest(r.v, d, q, e)
    <3>1. ASSUME q < e PROVE \E k : HasChunk(r.v, d, k, [pos |-> q, size |-> e - q])
      <4> DEFINE z == [pos |-> q, size |-> e - q]
                 y == [pos |-> p, size |-> e - p]
      <4>1. /\ z.pos = q /\ end(z) = e /\ IsChunk(z) /\ z.size > 0
            /\ y.pos = p /\ end(y) = e /\ HasChunk(v, d, j, y)
          BY <1>1, <2>2, <3>1 DEF end, IsChunk
      <4> HIDE DEF z, y
      <4>2. v[j].pos <= y.pos /\ end(y) <= end(v[j]) /\ v[j].pos \in Nat /\ end(v[j]) \in Nat
          BY <4>1, ChunkInBlock
      <4>3. includes(v[j], z)
          BY <1>1, <4>1, <4>2 DEF includes
      <4>4. HasChunk(v, d, j, z)
          BY Zenon, <4>1, <4>3 DEF HasChunk
      <4>5. end(x) <= z.pos
          BY <1>2, <4>1
      <4>. QED  BY Zenon, <2>4, <4>4, <4>5 DEF z
    <3>. QED  BY Zenon, <1>1, <3>1 DEF Rest
  <2>. QED  BY Zenon, <2>4, <2>5 DEF InMap, Memory, r
<1>. QED  BY Zenon, <1>3, <1>4

\* Cut off at e, the map holds what it held up to there.
LEMMA CutOff ==
  ASSUME NEW v, NEW d, InMap(v, d), IsVector(v), NEW e \in Nat, NEW force
  PROVE  LET r == truncate_vector(v, e, force)
         IN  /\ InMap(r.v, d)
             /\ ~r.ok => r.v = v
             /\ r.ok => \A p, t : Holds(BlocksOf(r.v), p, t) <=> Holds(BlocksOf(v), p, t) /\ p < e
             /\ \A p : Rest(v, d, p, e) => Rest(r.v, d, p, e)
<1> DEFINE r == truncate_vector(v, e, force)
<1>1. ~r.ok => r.v = v
  <2> DEFINE i  == Max({0} \cup {j \in DOMAIN v : v[j].pos < e})
             ok == \/ force
                   \/ /\ \A j \in i + 1 .. Len(v) : v[j].st # "finished"
                      /\ i > 0 /\ includes_pos(v[i], e) => v[i].st # "finished"
             sb == IF includes_pos(v[i], e) THEN set_size(v[i], e - v[i].pos) ELSE v[i]
             w  == IF i = 0 THEN <<Sblock(assign(0, 0), "non_tried")>>
                   ELSE SubSeq(v, 1, i - 1) \o <<sb>>
  <2>1. r = [ok |-> ok, v |-> IF ~ok THEN v ELSE w]
      BY Zenon DEF truncate_vector
  <2> HIDE DEF ok, w, r
  <2>. QED  BY <2>1
<1> HIDE DEF r
<1>2. CASE ~r.ok
    BY Zenon, <1>1, <1>2 DEF r
<1>3. CASE r.ok /\ e = 0
  <2>1. r.v = EmptyMap
    <3> DEFINE S  == {0} \cup {j \in DOMAIN v : v[j].pos < e}
               i  == Max(S)
               ok == \/ force
                     \/ /\ \A j \in i + 1 .. Len(v) : v[j].st # "finished"
                        /\ i > 0 /\ includes_pos(v[i], e) => v[i].st # "finished"
               sb == IF includes_pos(v[i], e) THEN set_size(v[i], e - v[i].pos) ELSE v[i]
               w  == IF i = 0 THEN <<Sblock(assign(0, 0), "non_tried")>>
                     ELSE SubSeq(v, 1, i - 1) \o <<sb>>
    <3>1. r = [ok |-> ok, v |-> IF ~ok THEN v ELSE w]
        BY Zenon DEF truncate_vector, r
    <3>2. i = 0
      <4>1. DOMAIN v = 1 .. Len(v) /\ \A j \in 1 .. Len(v) : v[j].pos \in Nat
          BY VectorTypes, BlockTypes
      <4>2. S = {0}
          BY <1>3, <4>1
      <4>3. Max({0}) \in {0}
        <5>1. {0} \in SUBSET (0 .. 0) /\ {0} # {} /\ 0 \in Nat
            OBVIOUS
        <5>. QED  BY <5>1, MaxExists
      <4>. QED  BY Zenon, <4>2, <4>3
    <3> DEFINE z == <<Sblock(assign(0, 0), "non_tried")>>
    <3>3. w = z
        BY Zenon, <3>2
    <3> HIDE DEF w, ok
    <3>4. r.v = w
        BY <1>3, <3>1
    <3>5. z = EmptyMap
      <4>1. assign(0, 0) = [pos |-> 0, size |-> IF 0 < 0 \/ 0 > LLONG_MAX - 0 THEN LLONG_MAX - 0 ELSE 0]
          BY MadeBlock
      <4>2. assign(0, 0) = [pos |-> 0, size |-> 0]
          BY <4>1, LimitAssumption
      <4> DEFINE a == assign(0, 0)
      <4>3. a.pos = 0 /\ a.size = 0
          BY <4>2
      <4> HIDE DEF a
      <4>. QED  BY Zenon, <4>3 DEF Sblock, EmptyMap, a
    <3>. QED  BY Zenon, <3>3, <3>4, <3>5
  <2>2. BlocksOf(EmptyMap) = {EmptyMap[1]}
    <3> DEFINE m == EmptyMap
    <3>1. Len(m) = 1
        BY Zenon, EmptyMapIs
    <3> HIDE DEF m
    <3>. QED  BY <3>1 DEF BlocksOf, m
  <2>3. SplitFrom({EmptyMap[1]}, d, 1)
    <3>1. EmptyMap[1].pos = 0 /\ end(EmptyMap[1]) = 0
        BY Zenon, EmptyMapIs
    <3> DEFINE z == EmptyMap[1]
    <3>2. z.pos = 0 /\ end(z) = 0
        BY <3>1
    <3> HIDE DEF z
    <3>3. \A k \in 1 .. Len(d) : d[k].pos \in Nat /\ end(d[k]) \in Nat
        BY DomainTypes DEF InMap
    <3>4. SplitFrom({z}, d, 1)
        BY <3>2, <3>3 DEF SplitFrom, strictly_includes
    <3>. QED  BY Zenon, <3>4 DEF z
  <2>4. InMap(r.v, d)
      BY Zenon, <2>1, <2>2, <2>3 DEF InMap, Memory
  <2>5. \A p, t : Holds(BlocksOf(r.v), p, t) <=> Holds(BlocksOf(v), p, t) /\ p < e
    <3>1. \A p, t : ~Holds(BlocksOf(r.v), p, t)
      <4>1. Bytes(EmptyMap[1]) = {}
        <5>1. EmptyMap[1].pos = 0 /\ end(EmptyMap[1]) = 0
            BY Zenon, EmptyMapIs
        <5>. QED  BY <5>1 DEF Bytes
      <4>. QED  BY Zenon, <2>1, <2>2, <4>1 DEF Holds
    <3>2. ASSUME NEW p, NEW t, Holds(BlocksOf(v), p, t), p < e PROVE FALSE
      <4>1. PICK i \in 1 .. Len(v) : p \in Bytes(v[i])
          BY Zenon, <3>2 DEF Holds, BlocksOf
      <4>2. v[i].pos \in Nat /\ end(v[i]) \in Nat
          BY BlockTypes
      <4>3. p \in Nat
          BY <4>1, <4>2, BytesAre
      <4>. QED  BY <1>3, <3>2, <4>3
    <3>. QED  BY Zenon, <3>1, <3>2
  <2>6. ASSUME NEW p, Rest(v, d, p, e) PROVE Rest(r.v, d, p, e)
    <3>1. p \in Nat /\ e \in Nat /\ p <= e /\ ~(p < e)
        BY <1>3, <2>6 DEF Rest
    <3>. QED  BY Zenon, <3>1 DEF Rest
  <2>. QED  BY Zenon, <1>3, <2>4, <2>5, <2>6 DEF r
<1>4. CASE r.ok /\ e # 0
  <2>1. e \in Nat \ {0}
      BY <1>4
  <2>2. IsVector(r.v)
      BY Zenon, <1>4, <2>1, TruncatedIsVector DEF r
  <2>3. PICK i \in 1 .. Len(v) :
           /\ v[i].pos < e /\ \A j \in 1 .. Len(v) : j > i => e <= v[j].pos
           /\ CutAt(r.v, v, i, e)
      BY Zenon, <1>4, <2>1, TruncatedBlocks DEF r
  <2>4. PICK z : /\ BlocksOf(r.v) = {v[j] : j \in 1 .. i - 1} \cup {z}
                 /\ z.pos = v[i].pos /\ end(z) = min(end(v[i]), e) /\ z.st = v[i].st
      BY Zenon, <2>3 DEF CutAt
  <2>5. /\ \A j \in 1 .. Len(v) : v[j].pos \in Nat /\ end(v[j]) \in Nat /\ v[j].pos < end(v[j])
        /\ \A j \in 1 .. i - 1 : j \in 1 .. Len(v) /\ end(v[j]) <= v[i].pos
        /\ Len(v) \in Nat
    <3>1. Len(v) \in Nat
        BY VectorTypes
    <3>2. \A j \in 1 .. i - 1 : j \in 1 .. Len(v) /\ j < i
        BY <3>1
    <3>. QED  BY <3>1, <3>2, OtherBlocks
  <2>6. z.pos = v[i].pos /\ end(z) = (IF end(v[i]) <= e THEN end(v[i]) ELSE e)
        /\ end(z) \in Nat /\ z.pos \in Nat
    <3>1. end(v[i]) \in Nat
        BY <2>5
    <3>2. min(end(v[i]), e) = IF end(v[i]) <= e THEN end(v[i]) ELSE e
        BY <3>1 DEF min, BM!Smaller
    <3>. QED  BY <2>4, <2>5, <3>1, <3>2
  <2> DEFINE W == BlocksOf(r.v)
             m == end(v[i])
             zp == z.pos
             ze == end(z)
  <2>7. \A y \in W : y = z \/ \E j \in 1 .. i - 1 : y = v[j]
      BY Zenon, <2>4
  <2>8. SplitFrom(W, d, 1)
    <3>1. \A x \in W : /\ x.pos \in Nat /\ end(x) \in Nat
                       /\ \E y \in BlocksOf(v) : /\ y.pos \in Nat /\ end(y) \in Nat
                                                 /\ y.pos <= x.pos /\ end(x) <= end(y)
      <4> SUFFICES ASSUME NEW x \in W
                   PROVE  /\ x.pos \in Nat /\ end(x) \in Nat
                          /\ \E y \in BlocksOf(v) : /\ y.pos \in Nat /\ end(y) \in Nat
                                                    /\ y.pos <= x.pos /\ end(x) <= end(y)
          OBVIOUS
      <4>1. CASE x = z
        <5>1. v[i] \in BlocksOf(v)
            BY Zenon DEF BlocksOf
        <5> HIDE DEF W
        <5>2. v[i].pos <= x.pos /\ end(x) <= end(v[i])
            BY <2>5, <2>6, <4>1
        <5>. QED  BY Zenon, <2>5, <2>6, <4>1, <5>1, <5>2
      <4>2. CASE \E j \in 1 .. i - 1 : x = v[j]
        <5>1. PICK j \in 1 .. Len(v) : x = v[j]
            BY Zenon, <2>5, <4>2
        <5>2. x \in BlocksOf(v) /\ x.pos \in Nat /\ end(x) \in Nat
            BY Zenon, <2>5, <5>1 DEF BlocksOf
        <5>3. x.pos <= x.pos /\ end(x) <= end(x)
            BY <5>2
        <5>. QED  BY Zenon, <5>2, <5>3
      <4>. QED  BY Zenon, <2>7, <4>1, <4>2
    <3> HIDE DEF W
    <3>. QED  BY Zenon, <3>1, SplitInside DEF InMap
  <2>9. \A p, t : Holds(W, p, t) <=> Holds(BlocksOf(v), p, t) /\ p < e
    <3> SUFFICES ASSUME NEW p, NEW t PROVE Holds(W, p, t) <=> Holds(BlocksOf(v), p, t) /\ p < e
        OBVIOUS
    <3>1. p \in Bytes(z) <=> p \in Bytes(v[i]) /\ p < e
      <4>1. /\ p \in Bytes(z) <=> p \in Nat /\ z.pos <= p /\ p < end(z)
            /\ p \in Bytes(v[i]) <=> p \in Nat /\ v[i].pos <= p /\ p < end(v[i])
          BY <2>5, <2>6, BytesAre
      <4>. QED  BY <2>5, <2>6, <4>1
    <3>2. \A j \in 1 .. i - 1 : p \in Bytes(v[j]) => p < e
      <4> SUFFICES ASSUME NEW j \in 1 .. i - 1, p \in Bytes(v[j]) PROVE p < e
          OBVIOUS
      <4>1. p \in Nat /\ p < end(v[j]) /\ end(v[j]) <= v[i].pos /\ v[i].pos < e
            /\ end(v[j]) \in Nat /\ v[i].pos \in Nat
          BY <2>3, <2>5, BytesAre
      <4>. QED  BY <4>1
    <3>3. \A j \in 1 .. Len(v) : p \in Bytes(v[j]) /\ p < e => j = i \/ j \in 1 .. i - 1
      <4> SUFFICES ASSUME NEW j \in 1 .. Len(v), p \in Bytes(v[j]), p < e, j > i PROVE FALSE
          BY <2>5
      <4>1. e <= v[j].pos /\ v[j].pos <= p /\ p \in Nat /\ v[j].pos \in Nat
          BY <2>3, <2>5, BytesAre
      <4>. QED  BY <4>1
    <3>4. W = {v[j] : j \in 1 .. i - 1} \cup {z}
        BY Zenon, <2>4
    <3> HIDE DEF W
    <3>5. ASSUME Holds(W, p, t) PROVE Holds(BlocksOf(v), p, t) /\ p < e
      <4>1. PICK y \in W : p \in Bytes(y) /\ y.st = t
          BY Zenon, <3>5 DEF Holds
      <4>2. CASE y = z
          BY Zenon, <2>4, <3>1, <4>1, <4>2 DEF Holds, BlocksOf
      <4>3. CASE \E j \in 1 .. i - 1 : y = v[j]
          BY Zenon, <2>5, <3>2, <4>1, <4>3 DEF Holds, BlocksOf
      <4>. QED  BY Zenon, <3>4, <4>1, <4>2, <4>3
    <3>6. ASSUME Holds(BlocksOf(v), p, t), p < e PROVE Holds(W, p, t)
      <4>1. PICK j \in 1 .. Len(v) : p \in Bytes(v[j]) /\ v[j].st = t
          BY Zenon, <3>6 DEF Holds, BlocksOf
      <4>2. CASE j = i
          BY Zenon, <2>4, <3>1, <3>4, <3>6, <4>1, <4>2 DEF Holds
      <4>3. CASE j \in 1 .. i - 1
          BY Zenon, <3>4, <4>1, <4>3 DEF Holds
      <4>. QED  BY Zenon, <3>3, <3>6, <4>1, <4>2, <4>3
    <3>. QED  BY Zenon, <3>5, <3>6
  <2>10. ASSUME NEW p, Rest(v, d, p, e) PROVE Rest(r.v, d, p, e)
    <3>1. p \in Nat /\ p <= e
        BY <2>10 DEF Rest
    <3>2. ASSUME p < e PROVE \E j : HasChunk(r.v, d, j, [pos |-> p, size |-> e - p])
      <4> DEFINE x == [pos |-> p, size |-> e - p]
      <4>1. PICK k : HasChunk(v, d, k, x)
          BY Zenon, <2>10, <3>2 DEF Rest
      <4>2. x.pos = p /\ end(x) = e
          BY <3>1 DEF end
      <4> HIDE DEF x
      <4>3. /\ k \in 1 .. Len(v) /\ v[k].pos <= p /\ e <= end(v[k]) /\ InDomain(d, v[k])
          BY <4>1, <4>2, ChunkInBlock DEF HasChunk
      <4>4. k = i
        <5>1. ~(k > i)
          <6> SUFFICES ASSUME k > i PROVE FALSE
              OBVIOUS
          <6>1. e <= v[k].pos /\ v[k].pos \in Nat
              BY <2>3, <2>5, <4>3
          <6>. QED  BY <3>1, <3>2, <4>3, <6>1
        <5>2. ~(k < i)
          <6> SUFFICES ASSUME k < i PROVE FALSE
              OBVIOUS
          <6>1. k \in 1 .. i - 1
              BY <2>5, <4>3
          <6>2. end(v[k]) <= v[i].pos /\ v[i].pos < e /\ v[i].pos \in Nat /\ end(v[k]) \in Nat
              BY <2>3, <2>5, <4>3, <6>1
          <6>. QED  BY <4>3, <6>2
        <5>. QED  BY <2>5, <4>3, <5>1, <5>2
      <4>5. includes(z, x)
          BY <2>5, <2>6, <4>2, <4>3, <4>4 DEF includes
      <4>6. z \in W
          BY Zenon, <2>4
      <4>7. PICK j \in 1 .. Len(r.v) : r.v[j] = z
          BY Zenon, <4>6 DEF BlocksOf
      <4>8. InDomain(d, z)
        <5>1. GoodBlock(z)
            BY Zenon, <2>2, <4>7, VectorBlocks
        <5>2. GoodBlock(v[i])
            BY Zenon, VectorBlocks
        <5>3. /\ z.pos \in Nat /\ z.size \in Nat /\ z.size > 0
              /\ v[i].pos \in Nat /\ v[i].size \in Nat /\ v[i].size > 0
            BY <5>1, <5>2 DEF GoodBlock, Blocks
        <5>4. IsDomain(d)
            BY DEF InMap
        <5>5. \E l \in 1 .. Len(d) : includes(d[l], v[i])
            BY <4>3, <4>4, <5>3, <5>4, DomainSearchIsExact
        <5>6. \E l \in 1 .. Len(d) : includes(d[l], z)
          <6>1. PICK l \in 1 .. Len(d) : includes(d[l], v[i])
              BY <5>5
          <6>2. d[l].pos \in Nat /\ end(d[l]) \in Nat
              BY <5>4, DomainTypes
          <6>3. includes(d[l], z)
              BY <2>5, <2>6, <6>1, <6>2 DEF includes
          <6>. QED  BY <6>3
        <5>. QED  BY <5>3, <5>4, <5>6, DomainSearchIsExact
      <4>9. HasChunk(r.v, d, j, x)
          BY Zenon, <2>2, <2>8, <4>1, <4>5, <4>7, <4>8 DEF HasChunk
      <4>. QED  BY Zenon, <4>9 DEF x
    <3>. QED  BY Zenon, <3>1, <3>2 DEF Rest
  <2>. QED  BY Zenon, <1>4, <2>2, <2>8, <2>9, <2>10 DEF InMap, Memory, r
<1>. QED  BY Zenon, <1>2, <1>3, <1>4

-----------------------------------------------------------------------------
(***************************************************************************)
(* The mapfile in memory.                                                  *)
(***************************************************************************)
IsBook(k) ==
  /\ k = [v |-> k.v, domain |-> k.domain, index |-> k.index, status |-> k.status, pos |-> k.pos]
  /\ k.index \in Int /\ k.pos \in Nat

\* What a change of the map leaves as it was.
SameRun(k, l) == k.domain = l.domain /\ k.status = l.status /\ k.pos = l.pos

LEMMA BookWith ==
  ASSUME NEW k, IsBook(k), NEW v, NEW i \in Int
  PROVE  LET l == [k EXCEPT !.v = v, !.index = i]
         IN  IsBook(l) /\ l.v = v /\ l.index = i /\ SameRun(l, k)
<1> DEFINE l == [k EXCEPT !.v = v, !.index = i]
<1>1. k = [v |-> k.v, domain |-> k.domain, index |-> k.index, status |-> k.status, pos |-> k.pos]
      /\ k.pos \in Nat
    BY DEF IsBook
<1> DEFINE kv == k.v
           kd == k.domain
           ki == k.index
           ks == k.status
           kp == k.pos
<1>6. k = [v |-> kv, domain |-> kd, index |-> ki, status |-> ks, pos |-> kp]
    BY Zenon, <1>1
<1> HIDE DEF kv, kd, ki, ks, kp
<1>8. /\ l.v = v /\ l.index = i /\ l.domain = kd /\ l.status = ks /\ l.pos = kp
      /\ DOMAIN l = {"v", "domain", "index", "status", "pos"}
      /\ l = [x \in DOMAIN l |-> l[x]]
    BY <1>6
<1> HIDE DEF l
<1>7. l = [v |-> v, domain |-> kd, index |-> i, status |-> ks, pos |-> kp]
    BY <1>8
<1> USE DEF kv, kd, ki, ks, kp
<1>2. l = [v |-> v, domain |-> k.domain, index |-> i, status |-> k.status, pos |-> k.pos]
    BY Zenon, <1>7
<1> HIDE DEF l, kv, kd, ki, ks, kp
<1>3. l.v = v /\ l.domain = k.domain /\ l.index = i /\ l.status = k.status /\ l.pos = k.pos
    BY <1>2
<1>4. l = [v |-> l.v, domain |-> l.domain, index |-> l.index, status |-> l.status, pos |-> l.pos]
    BY Zenon, <1>2, <1>3
<1>5. l.index \in Int /\ l.pos \in Nat
    BY <1>1, <1>3
<1>. QED  BY Zenon, <1>3, <1>4, <1>5 DEF IsBook, SameRun, l

\* Mark on the first part of what is left.
LEMMA MarkBook ==
  ASSUME NEW k, IsBook(k), InMap(k.v, k.domain), NEW p, NEW e, Rest(k.v, k.domain, p, e),
         NEW q \in Nat, p <= q, q <= e,
         NEW x, x = [pos |-> p, size |-> q - p], NEW s \in Status
  PROVE  LET l == Mark(k, x, s)
         IN  /\ IsBook(l) /\ InMap(l.v, l.domain) /\ Rest(l.v, l.domain, q, e)
             /\ Marks(l.v, k.v, x, s) /\ SameRun(l, k)
<1> DEFINE r == change_chunk_status(k.v, k.index, x, s, k.domain)
           l == Mark(k, x, s)
<1>1. k.index \in Int
    BY DEF IsBook
<1>2. /\ InMap(r.v, k.domain) /\ r.index \in Int /\ Marks(r.v, k.v, x, s)
      /\ Rest(r.v, k.domain, q, e)
    BY Zenon, <1>1, MarkPart
<1>3. l = [k EXCEPT !.v = r.v, !.index = r.index]
    BY Zenon DEF Mark, WithBlocks
<1> DEFINE w == r.v
           i == r.index
           o == [k EXCEPT !.v = w, !.index = i]
<1>5. i \in Int
    BY Zenon, <1>2
<1> HIDE DEF r, l, w, i
<1>6. IsBook(o) /\ o.v = w /\ SameRun(o, k)
    BY <1>5, BookWith
<1>4. IsBook(l) /\ l.v = r.v /\ SameRun(l, k)
    BY Zenon, <1>3, <1>6 DEF w, i
<1>. QED  BY Zenon, <1>2, <1>4 DEF SameRun, l

\* What a read of a chunk returns.
IsRead(r, c) ==
  /\ r.copied \in Nat /\ r.error \in Nat
  /\ r.error = 0 \/ r.copied + r.error = c.size
  /\ r.copied + r.error <= c.size

LEMMA ReadsChunk ==
  ASSUME NEW f, IsFile(f), NEW c, c.pos \in Nat, c.size \in Nat, NEW r \in readblockp(f, c)
  PROVE  /\ IsRead(r, c) /\ FileSize(f) \in Nat /\ DOMAIN f = 0 .. FileSize(f) - 1
         /\ r.copied > 0 => c.pos + r.copied <= FileSize(f)
         /\ r.error = 0 /\ r.copied < c.size => c.pos + r.copied >= FileSize(f)
<1> DEFINE n == FileSize(f)
           there == max(0, min(c.size, n - c.pos))
<1>1. n \in Nat
    BY FS_CardinalityType DEF IsFile, FileSize
<1>2. DOMAIN f = 0 .. n - 1
    BY DEF IsFile
<1>3. r \in {[copied |-> there, error |-> 0]} \cup
              {[copied |-> k, error |-> c.size - k] : k \in 0 .. min(there, c.size - 1)}
    BY Zenon DEF readblockp
<1> HIDE DEF n
<1>4. there \in Nat /\ there <= c.size /\ (there > 0 => c.pos + there <= n)
      /\ (there < c.size => c.pos + there >= n)
    BY <1>1 DEF max, min, BM!Larger, BM!Smaller
<1> HIDE DEF there
<1> SUFFICES /\ r.copied \in Nat /\ r.error \in Nat
             /\ r.error = 0 \/ r.copied + r.error = c.size
             /\ r.copied + r.error <= c.size
             /\ r.copied > 0 => c.pos + r.copied <= n
             /\ r.error = 0 /\ r.copied < c.size => c.pos + r.copied >= n
    BY Zenon, <1>1, <1>2 DEF IsRead, n
<1>5. CASE r = [copied |-> there, error |-> 0]
  <2>1. r.copied = there /\ r.error = 0
      BY <1>5
  <2>. QED  BY <1>1, <1>4, <2>1
<1>6. CASE \E k \in 0 .. min(there, c.size - 1) : r = [copied |-> k, error |-> c.size - k]
  <2>1. PICK k \in 0 .. min(there, c.size - 1) : r = [copied |-> k, error |-> c.size - k]
      BY <1>6
  <2>2. r.copied = k /\ r.error = c.size - k
      BY <2>1
  <2>3. k \in Nat /\ k <= there /\ k <= c.size - 1
      BY <1>4 DEF min, BM!Smaller
  <2>. QED  BY <1>1, <1>4, <2>2, <2>3
<1>. QED  BY <1>3, <1>5, <1>6

\* What was copied of a chunk becomes finished and the rest of what was asked bad.
MarksRead(w, v, c, r) ==
  \A p, t : Holds(BlocksOf(w), p, t) <=>
              IF p \in c.pos .. c.pos + r.copied - 1 THEN t = "finished"
              ELSE IF p \in c.pos + r.copied .. c.pos + r.copied + r.error - 1
              THEN t = "bad_sector"
              ELSE Holds(BlocksOf(v), p, t)

LEMMA ChunkIsMarked ==
  ASSUME NEW k, IsBook(k), InMap(k.v, k.domain), NEW c, IsChunk(c), NEW r, IsRead(r, c),
         end(c) <= LLONG_MAX,
         Rest(k.v, k.domain, c.pos, c.pos + r.copied + r.error)
  PROVE  LET l == MarkChunk(k, c, r)
         IN  /\ IsBook(l) /\ InMap(l.v, l.domain) /\ MarksRead(l.v, k.v, c, r) /\ SameRun(l, k)
<1> DEFINE p == c.pos
           q == c.pos + r.copied
           e == c.pos + r.copied + r.error
           x == [c EXCEPT !.size = r.copied]
           y == assign(q, r.error)
           m == Mark(k, x, "finished")
           l == Mark(m, y, "bad_sector")
<1>12. /\ c.pos \in Nat /\ c.size \in Nat /\ r.copied \in Nat /\ r.error \in Nat
       /\ r.copied + r.error <= c.size /\ end(c) = c.pos + c.size /\ LLONG_MAX \in Nat
    BY LimitAssumption DEF IsRead, IsChunk, end
<1>1. /\ p \in Nat /\ q \in Nat /\ e \in Nat /\ p <= q /\ q <= e /\ e <= e /\ c.size \in Nat
      /\ q - p = r.copied /\ e - q = r.error /\ e <= end(c) /\ LLONG_MAX \in Nat
    BY <1>12
<1>2. x = [pos |-> p, size |-> q - p]
    BY <1>1 DEF IsChunk
<1>3. y = [pos |-> q, size |-> e - q]
  <2> DEFINE n == r.error
  <2>3. q \in Nat /\ n \in Int /\ e <= LLONG_MAX
      BY <1>1, <1>12
  <2> HIDE DEF q, n, e
  <2>1. y = [pos |-> q, size |-> IF n < 0 \/ n > LLONG_MAX - q THEN LLONG_MAX - q ELSE n]
      BY <2>3, MadeBlock DEF n
  <2> HIDE DEF y
  <2>2. ~(n < 0 \/ n > LLONG_MAX - q) /\ n = e - q
      BY <1>1, <1>12, <2>3 DEF n
  <2>. QED  BY <2>1, <2>2
<1>4. "finished" \in Status /\ "bad_sector" \in Status
    BY DEF Status, BM!Status
<1>5. Rest(k.v, k.domain, p, e)
    OBVIOUS
<1> HIDE DEF p, q, e, x, y, m, l
<1>6. /\ IsBook(m) /\ InMap(m.v, m.domain) /\ Rest(m.v, m.domain, q, e)
      /\ Marks(m.v, k.v, x, "finished") /\ SameRun(m, k)
    BY Zenon, <1>1, <1>2, <1>4, <1>5, MarkBook DEF m
<1>7. /\ IsBook(l) /\ InMap(l.v, l.domain) /\ Rest(l.v, l.domain, e, e)
      /\ Marks(l.v, m.v, y, "bad_sector") /\ SameRun(l, m)
    BY Zenon, <1>1, <1>3, <1>4, <1>6, MarkBook DEF l
<1>8. Bytes(x) = p .. q - 1 /\ Bytes(y) = q .. e - 1
    BY <1>1, <1>2, <1>3 DEF Bytes, end
<1>13. /\ c.pos .. c.pos + r.copied - 1 = Bytes(x)
       /\ c.pos + r.copied .. c.pos + r.copied + r.error - 1 = Bytes(y)
    BY <1>12, <1>2, <1>3 DEF Bytes, end, p, q, e
<1>9. MarksRead(l.v, k.v, c, r)
  <2> SUFFICES ASSUME NEW a, NEW t
               PROVE  Holds(BlocksOf(l.v), a, t) <=>
                        IF a \in c.pos .. c.pos + r.copied - 1 THEN t = "finished"
                        ELSE IF a \in c.pos + r.copied .. c.pos + r.copied + r.error - 1
                        THEN t = "bad_sector"
                        ELSE Holds(BlocksOf(k.v), a, t)
      BY Zenon DEF MarksRead
  <2>2. Holds(BlocksOf(l.v), a, t) <=>
          IF a \in Bytes(y) THEN t = "bad_sector" ELSE Holds(BlocksOf(m.v), a, t)
      BY Zenon, <1>7 DEF Marks
  <2>3. Holds(BlocksOf(m.v), a, t) <=>
          IF a \in Bytes(x) THEN t = "finished" ELSE Holds(BlocksOf(k.v), a, t)
      BY Zenon, <1>6 DEF Marks
  <2>4. ~(a \in Bytes(x) /\ a \in Bytes(y))
      BY <1>1, <1>8
  <2>. QED  BY Zenon, <1>13, <2>2, <2>3, <2>4
<1>10. MarkChunk(k, c, r) = l
    BY Zenon DEF MarkChunk, l, m, x, y, q
<1>11. SameRun(l, k)
    BY Zenon, <1>6, <1>7 DEF SameRun
<1>. QED  BY Zenon, <1>7, <1>9, <1>10, <1>11

-----------------------------------------------------------------------------
(***************************************************************************)
(* Checking what was read of a chunk, sector by sector.                    *)
(***************************************************************************)

\* The sectors of what lies from p to e are from at[j - 1] to at[j].
SectorsAt(sec, m, at, p, e) ==
  /\ m \in Nat /\ DOMAIN sec = 1 .. m
  /\ \A j \in 0 .. m : at[j] \in Nat /\ p <= at[j] /\ at[j] <= e
  /\ at[0] = p /\ at[m] = e
  /\ \A j \in 1 .. m : /\ at[j - 1] < at[j] /\ at[j] <= at[j - 1] + HardBS
                       /\ sec[j] = [pos |-> at[j - 1], size |-> at[j] - at[j - 1]]

LEMMA SectorsAre ==
  ASSUME NEW c, c.pos \in Nat, NEW n \in Nat
  PROVE  \E m, at : SectorsAt(Sectors(c, n), m, at, c.pos, c.pos + n)
<1> DEFINE a == HardBS
           m == (n + a - 1) \div a
           M == [j \in 0 .. m |-> a * j]
           at == [j \in 0 .. m |-> IF M[j] <= n THEN c.pos + M[j] ELSE c.pos + n]
           sec == Sectors(c, n)
           p == c.pos
<1>1. a \in Nat \ {0} /\ n + a - 1 \in Nat /\ p \in Nat
    BY SizesAssumption
<1> DEFINE x == n + a - 1
           z == x % a
<1> HIDE DEF a
<1>2. m \in Nat /\ z \in 0 .. a - 1 /\ x = a * m + z
  <2> HIDE DEF x
  <2>1. x \in Nat
      BY <1>1 DEF x
  <2>2. x \div a \in Nat /\ x % a \in 0 .. a - 1 /\ x = a * (x \div a) + (x % a)
      BY <1>1, <2>1, Division
  <2>. QED  BY Zenon, <2>2 DEF x
<1>3. sec = [j \in 1 .. m |-> [pos |-> p + (j - 1) * a, size |-> min(a, n - (j - 1) * a)]]
    BY Zenon DEF Sectors, a
<1> HIDE DEF m, z, sec
<1>4. /\ M[0] = 0 /\ \A j \in 0 .. m : M[j] \in Nat
      /\ \A j \in 1 .. m : M[j] = M[j - 1] + a /\ (j - 1) * a = M[j - 1]
  <2>1. \A j \in 0 .. m : M[j] = a * j
      OBVIOUS
  <2>2. \A j \in Nat : a * j \in Nat /\ j * a = a * j
      BY <1>1
  <2>3. \A j \in Nat : a * (j + 1) = a * j + a
      BY <1>1
  <2>4. a * 0 = 0 /\ 0 \in 0 .. m
      BY <1>1, <1>2
  <2>5. ASSUME NEW j \in 1 .. m PROVE M[j] = M[j - 1] + a /\ (j - 1) * a = M[j - 1]
    <3> DEFINE i == j - 1
    <3>1. i \in Nat /\ i + 1 = j /\ i \in 0 .. m /\ j \in 0 .. m
        BY <1>2
    <3> HIDE DEF i, M
    <3>2. M[j] = a * (i + 1) /\ M[i] = a * i
        BY Zenon, <2>1, <3>1
    <3>. QED  BY <2>2, <2>3, <3>1, <3>2 DEF i
  <2>6. \A j \in 0 .. m : j \in Nat
      BY <1>2
  <2>. QED  BY Zenon, <2>1, <2>2, <2>4, <2>5, <2>6
<1>5. M[m] <= n + a - 1 /\ n <= M[m]
  <2>1. M[m] = a * m
      BY <1>2
  <2>2. M[m] \in Nat
      BY <1>2, <1>4
  <2> DEFINE y == a * m
  <2> HIDE DEF y, M
  <2>3. y \in Nat /\ M[m] = y /\ n + a - 1 = y + z
      BY <1>2, <2>1, <2>2 DEF y, x
  <2>. QED  BY <1>1, <1>2, <2>3
<1>6. \A j \in 1 .. m : M[j - 1] < n
  <2> SUFFICES ASSUME NEW j \in 1 .. m PROVE M[j - 1] < n
      OBVIOUS
  <2>1. M[j] = M[j - 1] + a /\ M[j - 1] \in Nat /\ M[j] \in Nat /\ M[m] \in Nat
    <3>1. j - 1 \in 0 .. m /\ j \in 0 .. m /\ m \in 0 .. m
        BY <1>2
    <3>. QED  BY Zenon, <1>4, <3>1
  <2>2. M[j] <= M[m]
    <3>1. CASE j = m
        BY <2>1, <3>1
    <3>2. CASE j # m
      <4>1. j \in Nat /\ j < m
          BY <1>2, <3>2
      <4>2. a * j + a <= a * m
          BY <1>1, <1>2, <4>1, Multiples
      <4>3. M[j] = a * j /\ M[m] = a * m
          BY <1>2, <4>1
      <4> HIDE DEF M
      <4>4. M[j] + a <= M[m]
          BY Zenon, <4>2, <4>3
      <4>. QED  BY <1>1, <2>1, <4>4
    <3>. QED  BY <3>1, <3>2
  <2> HIDE DEF M
  <2>. QED  BY <1>1, <1>5, <2>1, <2>2
<1> HIDE DEF M
<1>7. \A j \in 0 .. m : at[j] = IF M[j] <= n THEN p + M[j] ELSE p + n
    OBVIOUS
<1> HIDE DEF at, p
<1>8. \A j \in 0 .. m : at[j] \in Nat /\ p <= at[j] /\ at[j] <= p + n
    BY <1>1, <1>4, <1>7
<1>9. at[0] = p /\ at[m] = p + n
  <2>1. 0 \in 0 .. m /\ m \in 0 .. m
      BY <1>2
  <2>2. at[0] = IF M[0] <= n THEN p + M[0] ELSE p + n
      BY Zenon, <1>7, <2>1
  <2>3. at[m] = IF M[m] <= n THEN p + M[m] ELSE p + n
      BY Zenon, <1>7, <2>1
  <2>4. M[m] \in Nat /\ M[0] = 0
      BY Zenon, <1>4, <2>1
  <2>. QED  BY <1>1, <1>5, <2>2, <2>3, <2>4
<1>10. ASSUME NEW j \in 1 .. m
       PROVE  /\ at[j - 1] < at[j] /\ at[j] <= at[j - 1] + a
              /\ sec[j] = [pos |-> at[j - 1], size |-> at[j] - at[j - 1]]
  <2> DEFINE u == M[j - 1]
             w == M[j]
  <2>1. j - 1 \in 0 .. m /\ j \in 0 .. m
      BY <1>2
  <2>2. u \in Nat /\ w = u + a /\ u < n /\ (j - 1) * a = u
      BY Zenon, <1>4, <1>6, <2>1
  <2>3. at[j - 1] = IF u <= n THEN p + u ELSE p + n
      BY Zenon, <1>7, <2>1
  <2>4. at[j] = IF w <= n THEN p + w ELSE p + n
      BY Zenon, <1>7, <2>1
  <2> HIDE DEF u, w
  <2>5. at[j - 1] < at[j] /\ at[j] <= at[j - 1] + a
      BY <1>1, <2>2, <2>3, <2>4
  <2>6. sec[j] = [pos |-> p + u, size |-> min(a, n - u)]
      BY <1>3, <2>2
  <2>7. p + u = at[j - 1] /\ min(a, n - u) = at[j] - at[j - 1]
      BY <1>1, <2>2, <2>3, <2>4 DEF min, BM!Smaller
  <2>. QED  BY Zenon, <2>5, <2>6, <2>7
<1>11. DOMAIN sec = 1 .. m
    BY <1>3
<1>12. SectorsAt(sec, m, at, p, p + n)
    BY Zenon, <1>2, <1>8, <1>9, <1>10, <1>11 DEF SectorsAt, a
<1>. QED  BY Zenon, <1>12 DEF sec, p

\* check_block on one sector.
Checked(k, x) == IF block_is_zero(x) THEN k ELSE Mark(k, x, "finished")

OneChecked(u, v, x) ==
  \A a, t : Holds(BlocksOf(u), a, t) <=>
              IF a \in Bytes(x) /\ ~block_is_zero(x) THEN t = "finished"
              ELSE Holds(BlocksOf(v), a, t)

LEMMA SectorChecked ==
  ASSUME NEW k, IsBook(k), InMap(k.v, k.domain), NEW p, NEW e, Rest(k.v, k.domain, p, e),
         NEW q \in Nat, p <= q, q <= e,
         NEW x, x = [pos |-> p, size |-> q - p]
  PROVE  LET l == Checked(k, x)
         IN  /\ IsBook(l) /\ InMap(l.v, l.domain) /\ Rest(l.v, l.domain, q, e) /\ SameRun(l, k)
             /\ OneChecked(l.v, k.v, x)
<1> DEFINE l == Checked(k, x)
<1>1. CASE block_is_zero(x)
  <2>1. l = k
      BY Zenon, <1>1 DEF Checked
  <2>2. p \in Nat /\ e \in Nat /\ e <= e
      BY DEF Rest
  <2>3. Rest(k.v, k.domain, q, e)
      BY <2>2, SmallerRest
  <2> HIDE DEF l
  <2>4. SameRun(k, k)
      BY DEF SameRun
  <2>. QED  BY Zenon, <1>1, <2>1, <2>3, <2>4 DEF l, OneChecked
<1>2. CASE ~block_is_zero(x)
  <2> DEFINE o == Mark(k, x, "finished")
  <2>1. l = o
      BY Zenon, <1>2 DEF Checked
  <2>2. "finished" \in Status
      BY DEF Status, BM!Status
  <2> HIDE DEF l, o
  <2>3. /\ IsBook(o) /\ InMap(o.v, o.domain) /\ Rest(o.v, o.domain, q, e)
        /\ Marks(o.v, k.v, x, "finished") /\ SameRun(o, k)
      BY Zenon, <2>2, MarkBook DEF o
  <2>. QED  BY Zenon, <1>2, <2>1, <2>3 DEF Marks, l, OneChecked
<1>. QED  BY Zenon, <1>1, <1>2

\* The map w that checking the sectors of a set makes of the map v.
ChecksOf(w, v, sec, s) ==
  \A a, t : Holds(BlocksOf(w), a, t) <=>
              IF \E j \in s : a \in Bytes(sec[j]) /\ ~block_is_zero(sec[j]) THEN t = "finished"
              ELSE Holds(BlocksOf(v), a, t)

\* The book w when sectors of a set s, none of them beyond sector i, have been checked.
CheckedBook(w, k, sec, at, e, s, i) ==
  /\ IsBook(w) /\ InMap(w.v, w.domain) /\ Rest(w.v, w.domain, at[i], e)
  /\ SameRun(w, k) /\ ChecksOf(w.v, k.v, sec, s)

LEMMA BookIn ==
  ASSUME NEW w, NEW k, IsBook(w), InMap(w.v, w.domain), SameRun(w, k)
  PROVE  w \in [v : Seq(Blocks), domain : {k.domain}, index : Int, status : {k.status},
                pos : {k.pos}]
<1>1. w.v \in Seq(Blocks)
  <2>1. CASE IsVector(w.v)
      BY <2>1, VectorTypes
  <2>2. CASE w.v = EmptyMap
    <3> DEFINE z == [pos |-> 0, size |-> 0, st |-> "non_tried"]
    <3>1. z \in Blocks
        BY DEF Blocks, Status, BM!Status
    <3> HIDE DEF z
    <3>2. <<z>> \in Seq(Blocks)
        BY <3>1
    <3>3. EmptyMap = <<z>>
        BY DEF EmptyMap, z
    <3>. QED  BY Zenon, <2>2, <3>2, <3>3
  <2>. QED  BY Zenon, <2>1, <2>2 DEF InMap, Memory
<1> DEFINE wv == w.v
           wd == w.domain
           wi == w.index
           ws == w.status
           wp == w.pos
<1>2. /\ w = [v |-> wv, domain |-> wd, index |-> wi, status |-> ws, pos |-> wp]
      /\ wv \in Seq(Blocks) /\ wd \in {k.domain} /\ wi \in Int /\ ws \in {k.status}
      /\ wp \in {k.pos}
    BY <1>1 DEF IsBook, SameRun
<1> HIDE DEF wv, wd, wi, ws, wp
<1>. QED  BY <1>2

LEMMA OneMoreChecked ==
  ASSUME NEW k, NEW sec, NEW m, NEW at, NEW p, NEW e, SectorsAt(sec, m, at, p, e),
         NEW i \in 1 .. m, NEW s \in SUBSET (1 .. i - 1), NEW w,
         CheckedBook(w, k, sec, at, e, s, i - 1)
  PROVE  CheckedBook(Checked(w, sec[i]), k, sec, at, e, s \cup {i}, i)
<1> DEFINE x == sec[i]
           f == at[i - 1]
           q == at[i]
           l == Checked(w, x)
<1>1. /\ f \in Nat /\ q \in Nat /\ f <= q /\ q <= e /\ x = [pos |-> f, size |-> q - f]
      /\ m \in Nat /\ i \in Nat
  <2>1. m \in Nat /\ i \in 0 .. m /\ i - 1 \in 0 .. m /\ i \in Nat
      BY DEF SectorsAt
  <2>2. f \in Nat /\ q \in Nat /\ q <= e /\ f < q /\ x = [pos |-> f, size |-> q - f]
      BY Zenon, <2>1 DEF SectorsAt
  <2> HIDE DEF f, q, x
  <2>. QED  BY <2>1, <2>2
<1>2. IsBook(w) /\ InMap(w.v, w.domain) /\ Rest(w.v, w.domain, f, e)
      /\ SameRun(w, k) /\ ChecksOf(w.v, k.v, sec, s)
    BY Zenon DEF CheckedBook
<1> HIDE DEF x, f, q, l
<1>3. /\ IsBook(l) /\ InMap(l.v, l.domain) /\ Rest(l.v, l.domain, q, e) /\ SameRun(l, w)
      /\ OneChecked(l.v, w.v, x)
    BY Zenon, <1>1, <1>2, SectorChecked DEF l
<1>4. SameRun(l, k)
    BY Zenon, <1>2, <1>3 DEF SameRun
<1>5. ChecksOf(l.v, k.v, sec, s \cup {i})
  <2> SUFFICES ASSUME NEW a, NEW t
               PROVE  Holds(BlocksOf(l.v), a, t) <=>
                        IF \E j \in s \cup {i} : a \in Bytes(sec[j]) /\ ~block_is_zero(sec[j])
                        THEN t = "finished" ELSE Holds(BlocksOf(k.v), a, t)
      BY Zenon DEF ChecksOf
  <2>1. Holds(BlocksOf(w.v), a, t) <=>
          IF \E j \in s : a \in Bytes(sec[j]) /\ ~block_is_zero(sec[j]) THEN t = "finished"
          ELSE Holds(BlocksOf(k.v), a, t)
      BY Zenon, <1>2 DEF ChecksOf
  <2>2. Holds(BlocksOf(l.v), a, t) <=>
          IF a \in Bytes(x) /\ ~block_is_zero(x) THEN t = "finished"
          ELSE Holds(BlocksOf(w.v), a, t)
      BY Zenon, <1>3 DEF OneChecked
  <2>3. CASE a \in Bytes(x) /\ ~block_is_zero(x)
    <3>1. \E j \in s \cup {i} : a \in Bytes(sec[j]) /\ ~block_is_zero(sec[j])
        BY Zenon, <2>3 DEF x
    <3>. QED  BY Zenon, <2>2, <2>3, <3>1
  <2>4. CASE ~(a \in Bytes(x) /\ ~block_is_zero(x))
    <3>1. (\E j \in s \cup {i} : a \in Bytes(sec[j]) /\ ~block_is_zero(sec[j])) <=>
            \E j \in s : a \in Bytes(sec[j]) /\ ~block_is_zero(sec[j])
        BY Zenon, <2>4 DEF x
    <3>. QED  BY Zenon, <2>1, <2>2, <2>4, <3>1
  <2>. QED  BY Zenon, <2>3, <2>4
<1>6. CheckedBook(l, k, sec, at, e, s \cup {i}, i)
    BY Zenon, <1>3, <1>4, <1>5 DEF CheckedBook, q
<1>. QED  BY Zenon, <1>6 DEF l, x

\* Folding over any part of the sectors.
LEMMA SomeChecked ==
  ASSUME NEW k, NEW sec, NEW m, NEW at, NEW p, NEW e, SectorsAt(sec, m, at, p, e),
         IsBook(k), InMap(k.v, k.domain), Rest(k.v, k.domain, p, e),
         NEW W, \A w : IsBook(w) /\ InMap(w.v, w.domain) /\ SameRun(w, k) => w \in W,
         NEW h, h[{}] = k,
         \A s \in SUBSET (1 .. m) :
           s # {} /\ Checked(h[s \ {Max(s)}], sec[Max(s)]) \in W =>
             h[s] = Checked(h[s \ {Max(s)}], sec[Max(s)])
  PROVE  \A i \in 0 .. m : \A s \in SUBSET (1 .. i) : CheckedBook(h[s], k, sec, at, e, s, i)
<1> DEFINE Good(i) == \A s \in SUBSET (1 .. i) : CheckedBook(h[s], k, sec, at, e, s, i)
           S == {i \in 0 .. m : Good(i)}
<1>1. m \in Nat /\ at[0] = p /\ \A j \in 0 .. m : at[j] \in Nat /\ at[j] <= e
    BY DEF SectorsAt
<1>2. Good(0)
  <2> SUFFICES ASSUME NEW s \in SUBSET (1 .. 0) PROVE CheckedBook(h[s], k, sec, at, e, s, 0)
      OBVIOUS
  <2>1. s = {}
      OBVIOUS
  <2>2. SameRun(k, k)
      BY DEF SameRun
  <2>3. ChecksOf(k.v, k.v, sec, {})
      BY Zenon DEF ChecksOf
  <2>. QED  BY Zenon, <1>1, <2>1, <2>2, <2>3 DEF CheckedBook
<1>3. ASSUME NEW i \in 1 .. m, Good(i - 1)  PROVE  Good(i)
  <2> SUFFICES ASSUME NEW s \in SUBSET (1 .. i) PROVE CheckedBook(h[s], k, sec, at, e, s, i)
      OBVIOUS
  <2>1. i \in Nat /\ i \in 0 .. m /\ i - 1 \in 0 .. m /\ s \in SUBSET (1 .. m)
      BY <1>1
  <2>2. CASE i \in s
    <3>1. Max(s) = i
        BY <2>1, <2>2, LastIndex
    <3> DEFINE t == s \ {i}
    <3>2. t \in SUBSET (1 .. i - 1) /\ t \cup {i} = s
      <4>1. \A x \in 1 .. i : x # i => x \in 1 .. i - 1
          OBVIOUS
      <4>. QED  BY <2>2, <4>1
    <3> HIDE DEF t
    <3> DEFINE l == Checked(h[t], sec[i])
    <3>3. CheckedBook(l, k, sec, at, e, s, i)
      <4>1. CheckedBook(h[t], k, sec, at, e, t, i - 1)
          BY Zenon, <1>3, <3>2
      <4>2. CheckedBook(l, k, sec, at, e, t \cup {i}, i)
          BY Zenon, <3>2, <4>1, OneMoreChecked
      <4>. QED  BY Zenon, <3>2, <4>2
    <3>4. l \in W
        BY Zenon, <3>3 DEF CheckedBook
    <3>5. h[s] = l
        BY Zenon, <2>1, <2>2, <3>1, <3>4 DEF t
    <3> HIDE DEF l
    <3>. QED  BY Zenon, <3>3, <3>5
  <2>3. CASE i \notin s
    <3>1. s \in SUBSET (1 .. i - 1)
      <4>1. \A x \in 1 .. i : x # i => x \in 1 .. i - 1
          OBVIOUS
      <4>. QED  BY <2>3, <4>1
    <3>2. CheckedBook(h[s], k, sec, at, e, s, i - 1)
        BY Zenon, <1>3, <3>1
    <3> DEFINE w == h[s]
    <3>3. /\ IsBook(w) /\ InMap(w.v, w.domain) /\ Rest(w.v, w.domain, at[i - 1], e)
          /\ SameRun(w, k) /\ ChecksOf(w.v, k.v, sec, s)
        BY Zenon, <3>2 DEF CheckedBook
    <3> HIDE DEF w
    <3>4. at[i - 1] <= at[i] /\ at[i] <= e /\ at[i] \in Nat /\ e \in Nat
      <4>1. at[i - 1] < at[i] /\ at[i - 1] \in Nat /\ at[i] \in Nat /\ at[i] <= e
          BY Zenon, <2>1 DEF SectorsAt
      <4>2. e \in Nat
          BY DEF Rest
      <4>. QED  BY <4>1, <4>2
    <3>5. Rest(w.v, w.domain, at[i], e)
      <4>1. e <= e
          BY <3>4
      <4>. QED  BY Zenon, <3>3, <3>4, <4>1, SmallerRest
    <3>. QED  BY Zenon, <3>3, <3>5 DEF CheckedBook, w
  <2>. QED  BY <2>2, <2>3
<1>4. 0 \in S /\ \A i \in 1 .. m : i - 1 \in S => i \in S
  <2> HIDE DEF Good
  <2>1. 0 \in 0 .. m /\ \A i \in 1 .. m : i \in 0 .. m
      BY <1>1
  <2>. QED  BY <1>2, <1>3, <2>1
<1>5. \A i \in 0 .. m : i \in S
  <2> HIDE DEF S
  <2>. QED  BY <1>1, <1>4, StepByStep
<1>. QED  BY <1>5

\* check_block marks the sectors that do not hold zeros only, and nothing else.
LEMMA BlockIsChecked ==
  ASSUME NEW k, NEW c, NEW n, NEW m, NEW at, NEW p, NEW e,
         SectorsAt(Sectors(c, n), m, at, p, e),
         IsBook(k), InMap(k.v, k.domain), Rest(k.v, k.domain, p, e)
  PROVE  CheckedBook(check_block(k, c, n), k, Sectors(c, n), at, e, 1 .. m, m)
<1> DEFINE sec == Sectors(c, n)
           Of(h) == [s \in SUBSET DOMAIN sec |->
                      IF s = {} THEN k ELSE Checked(h[s \ {Max(s)}], sec[Max(s)])]
           iter == CHOOSE h : h = Of(h)
           W == [v : Seq(Blocks), domain : {k.domain}, index : Int, status : {k.status},
                 pos : {k.pos}]
<1>1. m \in Nat /\ DOMAIN sec = 1 .. m
    BY DEF SectorsAt
<1>2. \A w : IsBook(w) /\ InMap(w.v, w.domain) /\ SameRun(w, k) => w \in W
    BY Zenon, BookIn
<1>3. k \in W
  <2>1. SameRun(k, k)
      BY DEF SameRun
  <2> HIDE DEF W
  <2>. QED  BY Zenon, <1>2, <2>1
<1> HIDE DEF sec, W
<1>4. \E h : h = Of(h)
  <2> DEFINE g == [x \in W \X (1 .. m) |-> IF Checked(x[1], sec[x[2]]) \in W
                                           THEN Checked(x[1], sec[x[2]]) ELSE k]
  <2>2. \A w \in W, j \in 1 .. m :
          /\ g[<<w, j>>] \in W
          /\ Checked(w, sec[j]) \in W => g[<<w, j>>] = Checked(w, sec[j])
      BY <1>3
  <2> HIDE DEF g
  <2>3. PICK h \in [SUBSET (1 .. m) -> W] : Folds(h, m, k, g)
      BY <1>1, <1>3, <2>2, FoldExists
  <2>4. ASSUME NEW s \in SUBSET (1 .. m)
        PROVE  /\ h[s] = IF s = {} THEN k ELSE g[<<h[s \ {Max(s)}], Max(s)>>]
               /\ s # {} => /\ Max(s) \in 1 .. m /\ s \ {Max(s)} \in SUBSET (1 .. Max(s) - 1)
                            /\ s \ {Max(s)} \in SUBSET (1 .. m)
                            /\ h[s \ {Max(s)}] \in W
    <3>1. h[s] = IF s = {} THEN k ELSE g[<<h[s \ {Max(s)}], Max(s)>>]
        BY Zenon, <2>3 DEF Folds
    <3>2. ASSUME s # {}
          PROVE  /\ Max(s) \in 1 .. m /\ s \ {Max(s)} \in SUBSET (1 .. Max(s) - 1)
                 /\ s \ {Max(s)} \in SUBSET (1 .. m)
      <4> DEFINE j == Max(s)
      <4>1. s \in SUBSET (0 .. m)
          BY <1>1
      <4>2. j \in s /\ \A y \in s : j >= y
          BY <1>1, <3>2, <4>1, MaxExists
      <4> HIDE DEF j
      <4>3. j \in 1 .. m /\ s \ {j} \in SUBSET (1 .. m) /\ s \ {j} \in SUBSET (1 .. j - 1)
          BY <1>1, <4>2
      <4>. QED  BY <4>3 DEF j
    <3>. QED  BY <2>3, <3>1, <3>2
  <2>5. h[{}] = k
      BY <2>4
  <2>6. \A s \in SUBSET (1 .. m) :
          s # {} /\ Checked(h[s \ {Max(s)}], sec[Max(s)]) \in W =>
            h[s] = Checked(h[s \ {Max(s)}], sec[Max(s)])
      BY Zenon, <2>2, <2>4
  <2>7. \A i \in 0 .. m : \A s \in SUBSET (1 .. i) : CheckedBook(h[s], k, sec, at, e, s, i)
      BY Zenon, <1>2, <2>5, <2>6, SomeChecked DEF sec
  <2>8. ASSUME NEW s \in SUBSET (1 .. m), s # {}
        PROVE  Checked(h[s \ {Max(s)}], sec[Max(s)]) \in W
    <3> DEFINE j == Max(s)
               t == s \ {j}
    <3>1. j \in 1 .. m /\ t \in SUBSET (1 .. j - 1)
        BY Zenon, <2>4, <2>8
    <3> HIDE DEF j, t
    <3>2. j - 1 \in 0 .. m
        BY <1>1, <3>1
    <3>3. CheckedBook(h[t], k, sec, at, e, t, j - 1)
        BY Zenon, <2>7, <3>1, <3>2
    <3>4. CheckedBook(Checked(h[t], sec[j]), k, sec, at, e, t \cup {j}, j)
        BY Zenon, <3>1, <3>3, OneMoreChecked DEF sec
    <3>5. Checked(h[t], sec[j]) \in W
        BY Zenon, <1>2, <3>4 DEF CheckedBook
    <3>. QED  BY Zenon, <3>5 DEF t, j
  <2>9. ASSUME NEW s \in SUBSET (1 .. m)
        PROVE  h[s] = IF s = {} THEN k ELSE Checked(h[s \ {Max(s)}], sec[Max(s)])
      BY Zenon, <2>5, <2>6, <2>8
  <2>10. h = Of(h)
      BY Zenon, <1>1, <2>3, <2>9
  <2>. QED  BY <2>10
<1>5. iter = Of(iter)
  <2> HIDE DEF Of
  <2>. QED  BY Zenon, <1>4
<1> HIDE DEF iter
<1>6. \A s \in SUBSET (1 .. m) :
        iter[s] = IF s = {} THEN k ELSE Checked(iter[s \ {Max(s)}], sec[Max(s)])
    BY Zenon, <1>1, <1>5
<1>7. iter[{}] = k
  <2>1. {} \in SUBSET (1 .. m)
      OBVIOUS
  <2>. QED  BY Zenon, <1>6, <2>1
<1>8. \A i \in 0 .. m : \A s \in SUBSET (1 .. i) : CheckedBook(iter[s], k, sec, at, e, s, i)
    BY Zenon, <1>2, <1>6, <1>7, SomeChecked DEF sec
<1>9. check_block(k, c, n) = iter[DOMAIN sec]
    BY Zenon DEF check_block, FoldLeft, MapThenFoldSet, iter, Checked, sec
<1>10. CheckedBook(iter[1 .. m], k, sec, at, e, 1 .. m, m)
  <2>1. m \in 0 .. m /\ 1 .. m \in SUBSET (1 .. m)
      BY <1>1
  <2>. QED  BY Zenon, <1>8, <2>1
<1>. QED  BY Zenon, <1>1, <1>9, <1>10 DEF sec

-----------------------------------------------------------------------------
(***************************************************************************)
(* What the runs of all modes keep in memory and on disc.                  *)
(***************************************************************************)

\* A file as it is written.
LEMMA FileWritten ==
  ASSUME NEW f, IsFile(f), NEW c, c.pos \in Nat, NEW n \in Nat, NEW data,
         \A p \in c.pos .. c.pos + n - 1 : data[p] \in Content
  PROVE  IsFile(writeblockp(f, c, n, data))
<1> DEFINE m == FileSize(f)
           g == writeblockp(f, c, n, data)
           k == IF n > 0 /\ c.pos + n > m THEN c.pos + n ELSE m
<1>1. m \in Nat /\ f \in [0 .. m - 1 -> Content] /\ DOMAIN f = 0 .. m - 1
    BY FS_CardinalityType DEF IsFile, FileSize
<1> HIDE DEF m
<1>2. k \in Nat /\ (0 .. m - 1) \cup (IF n > 0 THEN 0 .. c.pos + n - 1 ELSE {}) = 0 .. k - 1
    BY <1>1
<1>3. g = [p \in 0 .. k - 1 |->
            IF c.pos <= p /\ p < c.pos + n THEN data[p]
            ELSE IF p \in 0 .. m - 1 THEN f[p] ELSE "zero"]
    BY <1>1, <1>2 DEF writeblockp
<1> HIDE DEF k
<1>4. \A p \in 0 .. k - 1 :
        (IF c.pos <= p /\ p < c.pos + n THEN data[p]
         ELSE IF p \in 0 .. m - 1 THEN f[p] ELSE "zero") \in Content
  <2>1. "zero" \in Content
      BY DEF Content
  <2>2. \A p \in 0 .. k - 1 : c.pos <= p /\ p < c.pos + n => p \in c.pos .. c.pos + n - 1
      BY <1>2
  <2>. QED  BY <1>1, <2>1, <2>2
<1>5. g \in [0 .. k - 1 -> Content] /\ DOMAIN g = 0 .. k - 1
    BY <1>3, <1>4
<1>6. IsFiniteSet(0 .. k - 1) /\ Cardinality(0 .. k - 1) = k
  <2>1. 0 \in Int /\ k - 1 \in Int
      BY <1>2
  <2>2. IsFiniteSet(0 .. k - 1)
        /\ Cardinality(0 .. k - 1) = IF 0 > k - 1 THEN 0 ELSE (k - 1) - 0 + 1
      BY <2>1, FS_Interval
  <2>. QED  BY <1>2, <2>2
<1> HIDE DEF g
<1>7. IsFile(g)
    BY Zenon, <1>5, <1>6 DEF IsFile, FileSize
<1>. QED  BY <1>7 DEF g

\* What a run has in memory.
Loaded(k, mode) ==
  /\ IsBook(k) /\ k.pos <= LLONG_MAX
  /\ IsDomain(k.domain) /\ SplitFrom(BlocksOf(k.v), k.domain, 1)
  /\ IF mode = "fill" THEN Chain(k.v) ELSE Memory(k.v)

GoodMap(m) == IsMapLines(m.lines) /\ m.pos \in 0 .. LLONG_MAX

\* It is a mapfile if it is saved, compacted or not.
LEMMA EmptyMapCompacted == compact_sblock_vector(EmptyMap) = EmptyMap
<1> DEFINE z == [pos |-> 0, size |-> 0, st |-> "non_tried"]
           v == EmptyMap
<1>1. z \in Sblocks
    BY LimitAssumption DEF Sblocks, Status, BM!Status, InRange, end
<1> HIDE DEF z
<1>2. v = <<z>>
    BY DEF EmptyMap, z
<1>3. v \in Seq(Sblocks) /\ Len(v) = 1 /\ v[1] = z
    BY <1>1, <1>2
<1>4. PICK F : /\ F[0] = <<>>
               /\ \A k \in 1 .. Len(v) : F[k] = JoinSame(F[k - 1], v[k])
               /\ compact_sblock_vector(v) = F[Len(v)]
    BY <1>3, CompactSteps
<1>5. 1 \in 1 .. Len(v) /\ 1 - 1 = 0
    BY <1>3
<1>6. compact_sblock_vector(v) = JoinSame(<<>>, z)
    BY Zenon, <1>3, <1>4, <1>5
<1>7. JoinSame(<<>>, z) = <<z>>
    BY DEF JoinSame
<1>. QED  BY Zenon, <1>2, <1>6, <1>7

LEMMA CanBeSaved ==
  ASSUME NEW v, Chain(v) \/ Memory(v)
  PROVE  IsMapLines(v) /\ IsMapLines(compact_sblock_vector(v))
<1>1. ASSUME NEW u, Consecutive(u)  PROVE  IsMapLines(u)
    BY Zenon, <1>1 DEF Consecutive, IsMapLines
<1>2. CASE Chain(v) \/ IsVector(v)
  <2>1. Consecutive(v) /\ v # <<>>
      BY Zenon, <1>2 DEF Chain, IsVector
  <2>2. Consecutive(compact_sblock_vector(v))
      BY Zenon, <2>1, CompactIsSame DEF Row
  <2>. QED  BY Zenon, <1>1, <2>1, <2>2
<1>3. CASE v = EmptyMap
    BY Zenon, <1>3, EmptyMapCompacted DEF IsMapLines
<1>. QED  BY <1>2, <1>3 DEF Memory

LEMMA SavedIsMap ==
  ASSUME NEW m, m = mapfile, GoodMap(m), NEW k, IsMapLines(k.v), k.pos \in 0 .. LLONG_MAX,
         NEW force, NEW save \in update_mapfile(k, force)
  PROVE  /\ GoodMap(save.mapfile)
         /\ save.mapfile = Saved(k) \/ save.mapfile = m
<1> DEFINE sm == save.mapfile
<1>1. sm = Saved(k) \/ sm = mapfile
    BY DEF update_mapfile
<1>2. Saved(k).lines = k.v /\ Saved(k).pos = k.pos
    BY DEF Saved
<1> HIDE DEF sm
<1>. QED  BY Zenon, <1>1, <1>2 DEF GoodMap, sm

\* What a run of fill mode loads are the blocks of the mapfile.
LEMMA LoadsToFill ==
  ASSUME NEW m, m = mapfile, GoodMap(m), m.lines # <<>>, NEW d \in Domains,
         NEW file, file = Load(d, 0, TRUE, FALSE), file.ok
  PROVE  LET k == file.book
         IN  /\ Loaded(k, "fill") /\ Chain(m.lines)
             /\ Same(BlocksOf(k.v), BlocksOf(m.lines))
             /\ InDomains(k.domain) = InDomains(d) \cap Bytes(extent(m.lines))
             /\ k.status = m.status /\ k.pos = m.pos
<1> DEFINE c == TRUE
           r == FALSE
<1>1. c \in BOOLEAN /\ c /\ r \in BOOLEAN /\ ~r
    OBVIOUS
<1> DEFINE z == 0
<1>2. ~(z > 0)
    OBVIOUS
<1> HIDE DEF c, r, z
<1> DEFINE read == read_mapfile(m.lines, "none")
           mb == Mapbook(read.v, d, z, c, r, HardBS)
           k == [v |-> mb.v, domain |-> mb.domain, index |-> 1, status |-> m.status, pos |-> m.pos]
<1>3. file = [ok |-> read.ok /\ mb.ok /\ ~empty(mb.domain), book |-> k]
    BY Zenon DEF Load, c, r, z
<1>4. read.ok /\ ~empty(mb.domain) /\ file.book = k
  <2>1. file.ok
      OBVIOUS
  <2> HIDE DEF read, mb, k
  <2>. QED  BY ONLY <1>3, <2>1
<1>5. IsMapLines(m.lines) /\ m.pos \in Nat /\ m.pos <= LLONG_MAX
    BY DEF GoodMap
<1>6. IsRunDomain(d)
    BY FilesAssumption
<1>7a. mb = Mapbook(read.v, d, z, c, r, HardBS)
    OBVIOUS
<1> HIDE DEF mb
<1>7. /\ Chain(m.lines)
      /\ Chain(mb.v) /\ Same(BlocksOf(mb.v), BlocksOf(m.lines))
      /\ IsDomain(mb.domain) /\ SplitFrom(BlocksOf(mb.v), mb.domain, 1)
      /\ InDomains(mb.domain) = InDomains(d) \cap Bytes(extent(m.lines))
  <2> DEFINE lines == m.lines
  <2>1. lines # <<>> /\ IsMapLines(lines) /\ read_mapfile(lines, "none").ok
        /\ mb = Mapbook(read_mapfile(lines, "none").v, d, z, c, r, HardBS)
      BY Zenon, <1>4, <1>5, <1>7a
  <2> HIDE DEF lines
  <2>2. KeepsMap(mb, lines, d)
      BY ONLY Zenon, <1>1, <1>2, <1>4, <1>6, <2>1, MapbookKeeps
  <2>. QED  BY Zenon, <2>2 DEF lines, KeepsMap
<1> HIDE DEF read
<1>8. /\ k.v = mb.v /\ k.domain = mb.domain /\ k.index = 1 /\ k.status = m.status
      /\ k.pos = m.pos
      /\ k = [v |-> k.v, domain |-> k.domain, index |-> k.index, status |-> k.status,
              pos |-> k.pos]
    OBVIOUS
<1>9. 1 \in Int
    OBVIOUS
<1> HIDE DEF k
<1>10. IsBook(k)
    BY Zenon, <1>5, <1>8, <1>9 DEF IsBook
<1>11. Loaded(k, "fill")
    BY Zenon, <1>5, <1>7, <1>8, <1>10 DEF Loaded
<1>. QED  BY Zenon, <1>4, <1>7, <1>8, <1>11

\* Nothing has been processed in the map that is left of one truncated at 0.
LEMMA GentleToEmptyMap ==
  ASSUME NEW X, Gentle(X, BlocksOf(<<>>))  PROVE  Gentle(X, BlocksOf(EmptyMap))
<1>1. BlocksOf(<<>>) = {} /\ \A y \in BlocksOf(EmptyMap) : y.st # "finished"
    BY EmptyMapIs DEF BlocksOf, EmptyMap
<1>2. NoMoreProcessed(X, BlocksOf(EmptyMap))
    BY Zenon, <1>1 DEF Gentle, NoMoreProcessed
<1>3. FinishedKept(X, BlocksOf(EmptyMap))
    BY Zenon, <1>1 DEF FinishedKept
<1>. QED  BY Zenon, <1>2, <1>3 DEF Gentle

\* What the other modes load is a map that begins at 0.
LEMMA LoadsMap ==
  ASSUME NEW m, m = mapfile, GoodMap(m), NEW d, IsRunDomain(d),
         NEW insize \in 0 .. LLONG_MAX, NEW rescue \in BOOLEAN,
         NEW file, file = Load(d, insize, FALSE, rescue), file.ok,
         NEW mode, mode # "fill"
  PROVE  LET k == file.book
         IN  /\ Loaded(k, mode) /\ IsVector(k.v)
             /\ Gentle(BlocksOf(k.v), BlocksOf(m.lines)) /\ CoversInput(k, d, insize)
             /\ k.status = m.status /\ k.pos = m.pos
<1> DEFINE c == FALSE
<1>1. c \in BOOLEAN /\ ~c
    OBVIOUS
<1> HIDE DEF c
<1> DEFINE read == read_mapfile(m.lines, "none")
           mb == Mapbook(read.v, d, insize, c, rescue, HardBS)
           k == [v |-> mb.v, domain |-> mb.domain, index |-> 1, status |-> m.status, pos |-> m.pos]
<1>3. file = [ok |-> read.ok /\ mb.ok /\ ~empty(mb.domain), book |-> k]
    BY Zenon DEF Load, c
<1>4. read.ok /\ mb.ok /\ ~empty(mb.domain) /\ file.book = k
  <2>1. file.ok
      OBVIOUS
  <2> HIDE DEF read, mb, k
  <2>. QED  BY ONLY <1>3, <2>1
<1>5. IsMapLines(m.lines) /\ m.pos \in Nat /\ m.pos <= LLONG_MAX
    BY DEF GoodMap
<1>6. HardBS \in Nat \ {0}
    BY SizesAssumption
<1>7. PICK u : /\ SameForRun(read.v, u, insize)
               /\ u = m.lines \/ (u = <<>> /\ m.lines = EmptyMap)
    BY Zenon, <1>4, <1>5, ReadForRun
<1>8. mb = Mapbook(read.v, d, insize, c, rescue, HardBS)
    OBVIOUS
<1> HIDE DEF mb
<1>9. /\ IsVector(mb.v) /\ Gentle(BlocksOf(mb.v), BlocksOf(u))
      /\ IsDomain(mb.domain) /\ SplitFrom(BlocksOf(mb.v), mb.domain, 1)
      /\ CoversInput(mb, d, insize)
    BY Zenon, <1>1, <1>4, <1>6, <1>7, <1>8, MapbookIsGentle
<1>10. /\ k.v = mb.v /\ k.domain = mb.domain /\ k.index = 1 /\ k.status = m.status
       /\ k.pos = m.pos
       /\ k = [v |-> k.v, domain |-> k.domain, index |-> k.index, status |-> k.status,
              pos |-> k.pos]
    OBVIOUS
<1>11. 1 \in Int
    OBVIOUS
<1> HIDE DEF k, read
<1>12. IsBook(k)
    BY Zenon, <1>5, <1>10, <1>11 DEF IsBook
<1>13. Loaded(k, mode)
    BY Zenon, <1>5, <1>9, <1>10, <1>12 DEF Loaded, Memory
<1>14. Gentle(BlocksOf(k.v), BlocksOf(m.lines))
  <2>1. CASE u = m.lines
      BY Zenon, <1>9, <1>10, <2>1
  <2>2. CASE u = <<>> /\ m.lines = EmptyMap
    <3>1. Gentle(BlocksOf(k.v), BlocksOf(<<>>))
        BY Zenon, <1>9, <1>10, <2>2
    <3>. QED  BY Zenon, <2>2, <3>1, GentleToEmptyMap
  <2>. QED  BY Zenon, <1>7, <2>1, <2>2
<1>15. CoversInput(k, d, insize)
    BY Zenon, <1>9, <1>10 DEF CoversInput
<1>. QED  BY Zenon, <1>4, <1>9, <1>10, <1>13, <1>14, <1>15

-----------------------------------------------------------------------------
(***************************************************************************)
(* The status of each position.                                            *)
(***************************************************************************)

LEMMA SameHolds ==
  ASSUME NEW X, NEW Y, Same(X, Y)
  PROVE  \A p, t : Holds(X, p, t) <=> Holds(Y, p, t)
BY DEF Same, StatusKept, Holds

LEMMA StatusIs ==
  ASSUME NEW v, Consecutive(v)
  PROVE  /\ \A p : p \in DOMAIN StatusOf(v) <=> \E t : Holds(BlocksOf(v), p, t)
         /\ \A p, t : Holds(BlocksOf(v), p, t) <=> p \in DOMAIN StatusOf(v) /\ StatusOf(v)[p] = t
<1> DEFINE n == Len(v)
           D == UNION {Bytes(v[i]) : i \in DOMAIN v}
           at(p) == CHOOSE i \in DOMAIN v : includes_pos(v[i], p)
<1>1. /\ n \in Nat /\ DOMAIN v = 1 .. n
      /\ \A i \in 1 .. n : v[i].pos \in Nat /\ end(v[i]) \in Nat
  <2>1. n \in Nat /\ DOMAIN v = 1 .. n /\ \A i \in 1 .. n : GoodBlock(v[i])
      BY GoodBlocks
  <2>. QED  BY <2>1 DEF GoodBlock, Blocks, end
<1>2. StatusOf(v) = [p \in D |-> v[at(p)].st]
    BY Zenon DEF StatusOf
<1>3. \A i \in 1 .. n : \A p : p \in Bytes(v[i]) <=> p \in Nat /\ includes_pos(v[i], p)
    BY <1>1 DEF Bytes, includes_pos
<1>4. \A p : p \in D <=> \E i \in 1 .. n : p \in Bytes(v[i])
    BY <1>1
<1>5. \A p, t : Holds(BlocksOf(v), p, t) <=> \E i \in 1 .. n : p \in Bytes(v[i]) /\ v[i].st = t
    BY DEF Holds, BlocksOf
<1> HIDE DEF n, D
<1>6. ASSUME NEW p, NEW i \in 1 .. n, p \in Bytes(v[i])  PROVE  at(p) = i
  <2>1. includes_pos(v[i], p) /\ p \in Nat /\ DOMAIN v = 1 .. n
      BY Zenon, <1>1, <1>3, <1>6
  <2> DEFINE j == at(p)
  <2>2. j \in 1 .. n /\ includes_pos(v[j], p)
      BY Zenon, <2>1
  <2> HIDE DEF j
  <2>3. Chain(v)
    <3>1. v # <<>>
      <4>1. v = <<>> => n = 0
          BY DEF n
      <4>2. i \in 1 .. n
          OBVIOUS
      <4>. QED  BY <4>1, <4>2
    <3>. QED  BY <3>1 DEF Chain
  <2>4. i = j
      BY <2>1, <2>2, <2>3, OneInChain DEF n
  <2>. QED  BY Zenon, <2>4 DEF j
<1>7. DOMAIN StatusOf(v) = D /\ \A p \in D : StatusOf(v)[p] = v[at(p)].st
    BY <1>2
<1> HIDE DEF at
<1>8. ASSUME NEW p  PROVE  p \in DOMAIN StatusOf(v) <=> \E t : Holds(BlocksOf(v), p, t)
    BY Zenon, <1>4, <1>5, <1>7
<1>9. ASSUME NEW p, NEW t
      PROVE  Holds(BlocksOf(v), p, t) <=> p \in DOMAIN StatusOf(v) /\ StatusOf(v)[p] = t
  <2>1. ASSUME NEW i \in 1 .. n, p \in Bytes(v[i])
        PROVE  p \in D /\ StatusOf(v)[p] = v[i].st
      BY Zenon, <1>4, <1>6, <1>7, <2>1
  <2> DEFINE f == StatusOf(v)
  <2> HIDE DEF f
  <2>2. /\ Holds(BlocksOf(v), p, t) <=> \E i \in 1 .. n : p \in Bytes(v[i]) /\ v[i].st = t
        /\ p \in DOMAIN f <=> \E i \in 1 .. n : p \in Bytes(v[i])
        /\ \A i \in 1 .. n : p \in Bytes(v[i]) => f[p] = v[i].st
      BY Zenon, <1>4, <1>5, <1>7, <2>1 DEF f
  <2>3. Holds(BlocksOf(v), p, t) <=> p \in DOMAIN f /\ f[p] = t
      BY <2>2
  <2>. QED  BY Zenon, <2>3 DEF f
<1>. QED  BY Zenon, <1>8, <1>9

\* Blocks of the same statuses.
LEMMA SameStatuses ==
  ASSUME NEW u, NEW v, Consecutive(u), Consecutive(v), Same(BlocksOf(u), BlocksOf(v))
  PROVE  StatusOf(u) = StatusOf(v)
<1> DEFINE f == StatusOf(u)
           g == StatusOf(v)
<1>1. \A p, t : Holds(BlocksOf(u), p, t) <=> Holds(BlocksOf(v), p, t)
    BY Zenon, SameHolds
<1>2. \A p : p \in DOMAIN f <=> \E t : Holds(BlocksOf(u), p, t)
    BY Zenon, StatusIs
<1>3. \A p : p \in DOMAIN g <=> \E t : Holds(BlocksOf(v), p, t)
    BY Zenon, StatusIs
<1>4. DOMAIN f = DOMAIN g
    BY Zenon, <1>1, <1>2, <1>3
<1>5. \A p \in DOMAIN f : f[p] = g[p]
  <2>1. \A p, t : Holds(BlocksOf(u), p, t) <=> p \in DOMAIN f /\ f[p] = t
      BY Zenon, StatusIs
  <2>2. \A p, t : Holds(BlocksOf(v), p, t) <=> p \in DOMAIN g /\ g[p] = t
      BY Zenon, StatusIs
  <2>. QED  BY Zenon, <1>1, <2>1, <2>2
<1>6. f = [p \in DOMAIN f |-> f[p]] /\ g = [p \in DOMAIN g |-> g[p]]
    BY DEF StatusOf
<1> HIDE DEF f, g
<1>7. f = g
    BY <1>4, <1>5, <1>6
<1>. QED  BY <1>7 DEF f, g

-----------------------------------------------------------------------------
(***************************************************************************)
(* Fill mode: what a run works on.                                         *)
(***************************************************************************)

\* The blocks in memory are those of the mapfile, and of each of them all or nothing
\* is to be filled.
FillsMap(k, m, d) ==
  /\ Consecutive(m.lines) /\ Same(BlocksOf(k.v), BlocksOf(m.lines))
  /\ InDomains(k.domain) \subseteq InDomains(d)
  /\ \A i \in 1 .. Len(k.v) :
       Bytes(k.v[i]) \cap InDomains(d) \subseteq InDomains(k.domain)

\* The area and the block to write in it.
FillsArea(k, types, a, x) ==
  /\ a \in 0 .. Len(k.v)
  /\ a > 0 => InDomain(k.domain, k.v[a]) /\ k.v[a].st \in types
  /\ x.size > 0 => a > 0 /\ includes(k.v[a], x)

\* The positions that a fill of the types in the domain is to write.
ToFill(lines, types, d) ==
  {p \in InDomains(d) : \E t \in types : Holds(BlocksOf(lines), p, t)}

\* A run begins with all of the mapfile that lies in its domain.
LEMMA BeginsToFill ==
  ASSUME NEW k, NEW m, NEW d, Chain(m.lines), Chain(k.v),
         Same(BlocksOf(k.v), BlocksOf(m.lines)),
         InDomains(k.domain) = InDomains(d) \cap Bytes(extent(m.lines))
  PROVE  /\ FillsMap(k, m, d)
         /\ \A p \in InDomains(k.domain) : \E t : Holds(BlocksOf(m.lines), p, t)
<1> DEFINE u == m.lines
           n == Len(u)
<1>1. n \in Nat /\ n > 0 /\ DOMAIN u = 1 .. n /\ u # <<>> /\ u \in Seq(Blocks)
    BY LenProperties, EmptySeq, ChainTypes
<1> DEFINE x == u[1]
           y == u[n]
<1>2. extent(u) = [pos |-> x.pos, size |-> end(y) - x.pos]
    BY <1>1 DEF extent, Last
<1>3. /\ x.pos \in Nat /\ end(x) \in Nat /\ end(y) \in Nat /\ x.pos < end(x)
      /\ \A i \in 1 .. n : u[i].pos \in Nat /\ end(u[i]) \in Nat /\ u[i].pos < end(u[i])
    BY <1>1, ChainBlocks
<1>4. \A i \in 1 .. n : x.pos <= u[i].pos /\ end(u[i]) <= end(y)
  <2> SUFFICES ASSUME NEW i \in 1 .. n PROVE x.pos <= u[i].pos /\ end(u[i]) <= end(y)
      OBVIOUS
  <2>1. 1 \in 1 .. n /\ n \in 1 .. n
      BY <1>1
  <2>2. i # 1 => end(x) <= u[i].pos
    <3>1. i # 1 => 1 < i
        BY <1>1
    <3>. QED  BY <2>1, <3>1, ChainInOrder
  <2>3. i # n => end(u[i]) <= y.pos
    <3>1. i # n => i < n
        BY <1>1
    <3>. QED  BY <2>1, <3>1, ChainInOrder
  <2>4. y.pos < end(y) /\ y.pos \in Nat
      BY <1>3, <2>1
  <2> HIDE DEF n, u
  <2>. QED  BY <1>3, <2>2, <2>3, <2>4
<1>5. Bytes(extent(u)) = x.pos .. end(y) - 1
  <2> DEFINE e == extent(u)
  <2>1. e.pos = x.pos /\ e.size = end(y) - x.pos
      BY <1>2
  <2> HIDE DEF e, x, y
  <2>2. e.pos + e.size = end(y)
      BY <1>3, <2>1
  <2>. QED  BY <2>1, <2>2 DEF Bytes, end, e
<1> HIDE DEF x, y
<1>6. \A i \in 1 .. n : Bytes(u[i]) \subseteq Bytes(extent(u))
  <2> SUFFICES ASSUME NEW i \in 1 .. n, NEW p \in Bytes(u[i]) PROVE p \in Bytes(extent(u))
      OBVIOUS
  <2> DEFINE z == u[i]
  <2>1. z.pos \in Nat /\ end(z) \in Nat /\ x.pos <= z.pos /\ end(z) <= end(y)
      BY Zenon, <1>3, <1>4
  <2>2. p \in z.pos .. end(z) - 1
      BY DEF Bytes
  <2> HIDE DEF z
  <2>. QED  BY <1>3, <1>5, <2>1, <2>2
<1>7. ASSUME NEW p \in Bytes(extent(u))  PROVE  \E t : Holds(BlocksOf(u), p, t)
  <2>1. p \in Nat /\ x.pos <= p /\ p < end(y)
      BY <1>3, <1>5
  <2>2. PICK i \in 1 .. n : includes_pos(u[i], p)
      BY <1>1, <2>1, SomeBlockHolds DEF x, y
  <2>3. p \in Bytes(u[i])
      BY <1>3, <2>1, <2>2 DEF includes_pos, Bytes
  <2>. QED  BY Zenon, <2>3 DEF Holds, BlocksOf
<1>8. \A i \in 1 .. Len(k.v) : Bytes(k.v[i]) \subseteq Bytes(extent(u))
  <2> SUFFICES ASSUME NEW i \in 1 .. Len(k.v), NEW p \in Bytes(k.v[i])
               PROVE  p \in Bytes(extent(u))
      OBVIOUS
  <2>1. k.v[i] \in BlocksOf(k.v)
      BY DEF BlocksOf
  <2>2. PICK z \in BlocksOf(u) : p \in Bytes(z)
      BY Zenon, <2>1 DEF Same, StatusKept
  <2>. QED  BY <1>6, <2>2 DEF BlocksOf, n
<1>9. Consecutive(u)
    BY DEF Chain
<1> HIDE DEF u
<1>10. FillsMap(k, m, d)
  <2>1. InDomains(k.domain) \subseteq InDomains(d)
      BY Zenon
  <2>2. \A i \in 1 .. Len(k.v) : Bytes(k.v[i]) \cap InDomains(d) \subseteq InDomains(k.domain)
      BY Zenon, <1>8 DEF u
  <2>. QED  BY Zenon, <1>9, <2>1, <2>2 DEF FillsMap, u
<1>. QED  BY Zenon, <1>7, <1>10 DEF u

Fits(x) == IsChunk(x) /\ end(x) <= LLONG_MAX

\* What a run of each mode does.
RunOk(q, j, k) ==
  q # "none" =>
    /\ \/ j.mode = "fill" /\ q \in {"fill", "end"}
       \/ j.mode = "generate" /\ q \in {"generate", "end"}
       \/ j.mode = "commands" /\ q \in {"commands", "copy"}
    /\ Loaded(k, j.mode)

FillOk(q, j, k, m, a, x) ==
  q # "none" /\ j.mode = "fill" => FillsMap(k, m, j.domain) /\ FillsArea(k, j.types, a, x)

ModesInv ==
  /\ RunOk(pc, job, book) /\ GoodMap(mapfile) /\ IsFile(outfile) /\ Fits(b)
  /\ FillOk(pc, job, book, mapfile, area, b)

LEMMA InitIsKept == ASSUME ModesInit  PROVE  ModesInv
<1>1. pc = "none" /\ mapfile \in MapFiles /\ outfile \in OutFiles /\ b = NoBlock
    BY DEF ModesInit, Init
<1>2. GoodMap(mapfile) /\ IsFile(outfile)
    BY <1>1, FilesAssumption DEF GoodMap
<1>3. Fits(b)
    BY <1>1, LimitAssumption DEF Fits, NoBlock, IsChunk, end
<1>. QED  BY Zenon, <1>1, <1>2, <1>3 DEF ModesInv, RunOk, FillOk

\* A block of which what lies beyond the end of another is cut off.
Cropped(c, x) == IF end(c) > end(x) THEN crop(c, x) ELSE c

LEMMA CroppedFits ==
  ASSUME NEW x, GoodBlock(x), NEW c, IsChunk(c), x.pos <= c.pos, c.pos <= end(x)
  PROVE  LET y == Cropped(c, x)
         IN  /\ Fits(y) /\ y.pos = c.pos /\ includes(x, y)
             /\ c.size > 0 /\ c.pos < end(x) => y.size > 0
<1>1. /\ c.pos \in Nat /\ c.size \in Nat /\ end(c) = c.pos + c.size
      /\ x.pos \in Nat /\ end(x) \in Nat /\ end(x) <= LLONG_MAX /\ LLONG_MAX \in Nat
    BY LimitAssumption DEF IsChunk, GoodBlock, Blocks, end
<1>2. CASE end(c) > end(x)
  <2> DEFINE y == crop(c, x)
             p == max(c.pos, x.pos)
             n == max(0, min(end(c), end(x)) - p)
  <2>1. p = c.pos /\ n = end(x) - c.pos /\ n \in Nat
      BY <1>1, <1>2 DEF max, min, BM!Larger, BM!Smaller
  <2>2. y = [c EXCEPT !.pos = p, !.size = n]
      BY DEF crop
  <2> HIDE DEF p, n
  <2>3. y = [pos |-> c.pos, size |-> n]
      BY <2>1, <2>2 DEF IsChunk
  <2> HIDE DEF y
  <2>4. y \in [pos : Nat, size : Nat] /\ y.pos = c.pos /\ y.size = n
      BY <1>1, <2>1, <2>3
  <2>5. end(y) = end(x)
      BY <1>1, <2>1, <2>4 DEF end
  <2>6. Cropped(c, x) = y
      BY Zenon, <1>2 DEF Cropped, y
  <2>7. c.pos < end(x) => y.size > 0
      BY <1>1, <2>1, <2>4
  <2>8. x.pos <= y.pos /\ end(x) >= end(y) /\ end(y) <= LLONG_MAX
      BY <1>1, <2>4, <2>5
  <2>. QED  BY Zenon, <2>4, <2>6, <2>7, <2>8 DEF Fits, IsChunk, includes
<1>3. CASE ~(end(c) > end(x))
  <2>1. Cropped(c, x) = c
      BY Zenon, <1>3 DEF Cropped
  <2>2. end(x) >= end(c) /\ end(c) <= LLONG_MAX
      BY <1>1, <1>3
  <2>. QED  BY Zenon, <2>1, <2>2 DEF Fits, includes
<1>. QED  BY <1>2, <1>3

\* The first block to write in an area, and the one that follows another.
LEMMA FirstInArea ==
  ASSUME NEW x, GoodBlock(x), NEW p \in Nat, includes_pos(x, p)
  PROVE  LET y == Cropped(assign(p, SoftBS), x)
         IN  Fits(y) /\ y.pos = p /\ includes(x, y) /\ y.size > 0
<1> DEFINE c == assign(p, SoftBS)
<1>1. /\ x.pos \in Nat /\ end(x) \in Nat /\ end(x) <= LLONG_MAX /\ LLONG_MAX \in Nat
      /\ x.pos <= p /\ p < end(x) /\ SoftBS \in Nat /\ SoftBS > 0
    BY LimitAssumption, SizesAssumption DEF GoodBlock, Blocks, end, includes_pos
<1>2. c = [pos |-> p, size |-> IF SoftBS < 0 \/ SoftBS > LLONG_MAX - p
                               THEN LLONG_MAX - p ELSE SoftBS]
  <2>1. SoftBS \in Int
      BY <1>1
  <2>. QED  BY <2>1, MadeBlock
<1>3. IsChunk(c) /\ c.pos = p /\ c.size > 0
    BY <1>1, <1>2 DEF IsChunk
<1> HIDE DEF c
<1>4. x.pos <= c.pos /\ c.pos <= end(x) /\ c.pos < end(x)
    BY <1>1, <1>3
<1> DEFINE y == Cropped(c, x)
<1>5. /\ Fits(y) /\ y.pos = c.pos /\ includes(x, y)
      /\ c.size > 0 /\ c.pos < end(x) => y.size > 0
    BY Zenon, <1>3, <1>4, CroppedFits
<1>. QED  BY Zenon, <1>3, <1>4, <1>5 DEF c

LEMMA NextInArea ==
  ASSUME NEW x, GoodBlock(x), NEW c, IsChunk(c), c.size > 0, includes(x, c)
  PROVE  LET y == Cropped(set_pos(c, end(c)), x)
         IN  /\ Fits(y) /\ y.pos = end(c) /\ includes(x, y)
             /\ y.size > 0 \/ end(c) = end(x)
<1> DEFINE e == end(c)
           z == set_pos(c, e)
<1>1. /\ c.pos \in Nat /\ c.size \in Nat /\ e = c.pos + c.size /\ e \in Nat
      /\ x.pos \in Nat /\ end(x) \in Nat /\ end(x) <= LLONG_MAX /\ LLONG_MAX \in Nat
      /\ x.pos <= c.pos /\ e <= end(x) /\ c.size > 0
    BY LimitAssumption DEF IsChunk, GoodBlock, Blocks, end, includes
<1> HIDE DEF e
<1> DEFINE q == max(e, 0)
           n == min(c.size, LLONG_MAX - q)
<1>2. z = [c EXCEPT !.pos = q, !.size = n]
    BY DEF set_pos
<1>3. q = e /\ n \in Nat /\ (e < end(x) => n > 0)
    BY <1>1 DEF max, min, BM!Larger, BM!Smaller
<1> HIDE DEF q, n
<1>4. z = [pos |-> e, size |-> n]
    BY <1>2, <1>3 DEF IsChunk
<1>5. IsChunk(z) /\ z.pos = e /\ (e < end(x) => z.size > 0)
    BY <1>1, <1>3, <1>4 DEF IsChunk
<1> HIDE DEF z
<1>6. x.pos <= z.pos /\ z.pos <= end(x) /\ (e < end(x) \/ e = end(x))
    BY <1>1, <1>5
<1> DEFINE y == Cropped(z, x)
<1>7. /\ Fits(y) /\ y.pos = z.pos /\ includes(x, y)
      /\ z.size > 0 /\ z.pos < end(x) => y.size > 0
    BY Zenon, <1>5, <1>6, CroppedFits
<1> HIDE DEF y
<1>8. y.pos = e /\ (y.size > 0 \/ e = end(x))
    BY Zenon, <1>5, <1>6, <1>7
<1>. QED  BY Zenon, <1>7, <1>8 DEF y, z, e

\* The book with another position or status.
LEMMA BookAt ==
  ASSUME NEW k, NEW mode, Loaded(k, mode), NEW p \in 0 .. LLONG_MAX
  PROVE  LET l == [k EXCEPT !.pos = p]
         IN  Loaded(l, mode) /\ l.v = k.v /\ l.domain = k.domain /\ l.status = k.status
             /\ l.pos = p
<1> DEFINE l == [k EXCEPT !.pos = p]
<1>1. /\ k = [v |-> k.v, domain |-> k.domain, index |-> k.index, status |-> k.status,
              pos |-> k.pos]
      /\ k.index \in Int
    BY DEF Loaded, IsBook
<1>2. /\ l.v = k.v /\ l.domain = k.domain /\ l.index = k.index /\ l.status = k.status /\ l.pos = p
      /\ DOMAIN l = {"v", "domain", "index", "status", "pos"}
      /\ l = [x \in DOMAIN l |-> l[x]]
    BY <1>1
<1> HIDE DEF l
<1>3. l = [v |-> l.v, domain |-> l.domain, index |-> l.index, status |-> l.status, pos |-> l.pos]
    BY <1>2
<1>4. p \in Nat /\ p <= LLONG_MAX
    OBVIOUS
<1>5. IsBook(l)
    BY Zenon, <1>1, <1>2, <1>3, <1>4 DEF IsBook
<1>6. Loaded(l, mode)
    BY Zenon, <1>2, <1>4, <1>5 DEF Loaded
<1>. QED  BY Zenon, <1>2, <1>6 DEF l

LEMMA BookWithStatus ==
  ASSUME NEW k, NEW mode, Loaded(k, mode), NEW s
  PROVE  LET l == [k EXCEPT !.status = s]
         IN  Loaded(l, mode) /\ l.v = k.v /\ l.domain = k.domain /\ l.status = s
             /\ l.pos = k.pos
<1> DEFINE l == [k EXCEPT !.status = s]
<1>1. /\ k = [v |-> k.v, domain |-> k.domain, index |-> k.index, status |-> k.status,
              pos |-> k.pos]
      /\ k.index \in Int /\ k.pos \in Nat
    BY DEF Loaded, IsBook
<1>2. /\ l.v = k.v /\ l.domain = k.domain /\ l.index = k.index /\ l.status = s /\ l.pos = k.pos
      /\ DOMAIN l = {"v", "domain", "index", "status", "pos"}
      /\ l = [x \in DOMAIN l |-> l[x]]
    BY <1>1
<1> HIDE DEF l
<1>3. l = [v |-> l.v, domain |-> l.domain, index |-> l.index, status |-> l.status, pos |-> l.pos]
    BY <1>2
<1>5. IsBook(l)
    BY Zenon, <1>1, <1>2, <1>3 DEF IsBook
<1>6. Loaded(l, mode)
    BY Zenon, <1>2, <1>5 DEF Loaded
<1>. QED  BY Zenon, <1>2, <1>6 DEF l

\* A mapfile that is saved in fill mode, or not, keeps its statuses.
LEMMA SavedWhileFilling ==
  ASSUME NEW k, NEW m, NEW d, Loaded(k, "fill"), GoodMap(m), FillsMap(k, m, d),
         NEW l, Loaded(l, "fill"), l.v = k.v, l.domain = k.domain,
         NEW n, n = m \/ n = Saved(l)
  PROVE  /\ GoodMap(n) /\ FillsMap(l, n, d)
         /\ Same(BlocksOf(n.lines), BlocksOf(m.lines))
<1>1. Consecutive(k.v) /\ Chain(k.v) /\ l.pos \in 0 .. LLONG_MAX
    BY LimitAssumption DEF Loaded, Chain, IsBook
<1>2. /\ Consecutive(m.lines) /\ Same(BlocksOf(k.v), BlocksOf(m.lines))
      /\ InDomains(k.domain) \subseteq InDomains(d)
      /\ \A i \in 1 .. Len(k.v) : Bytes(k.v[i]) \cap InDomains(d) \subseteq InDomains(k.domain)
    BY Zenon DEF FillsMap
<1>3. /\ InDomains(l.domain) \subseteq InDomains(d)
      /\ \A i \in 1 .. Len(l.v) : Bytes(l.v[i]) \cap InDomains(d) \subseteq InDomains(l.domain)
    BY <1>2
<1>4. CASE n = m
  <2>1. FillsMap(l, n, d)
      BY Zenon, <1>2, <1>3, <1>4 DEF FillsMap
  <2>2. Same(BlocksOf(m.lines), BlocksOf(m.lines))
      BY SameSets
  <2>. QED  BY Zenon, <1>4, <2>1, <2>2
<1>5. CASE n = Saved(l)
  <2>1. n.lines = k.v /\ n.pos = l.pos
      BY <1>5 DEF Saved
  <2>2. IsMapLines(k.v)
      BY Zenon, <1>1, CanBeSaved
  <2>3. Same(BlocksOf(k.v), BlocksOf(k.v))
      BY SameSets
  <2>4. GoodMap(n)
      BY Zenon, <1>1, <2>1, <2>2 DEF GoodMap
  <2>5. FillsMap(l, n, d)
      BY Zenon, <1>1, <1>3, <2>1, <2>3 DEF FillsMap
  <2>. QED  BY Zenon, <1>2, <2>1, <2>4, <2>5
<1>. QED  BY Zenon, <1>4, <1>5

LEMMA WhileFilling ==
  ASSUME ModesInv, pc # "none", job.mode = "fill"
  PROVE  /\ Loaded(book, "fill") /\ Chain(book.v) /\ pc \in {"fill", "end"}
         /\ FillsMap(book, mapfile, job.domain) /\ FillsArea(book, job.types, area, b)
         /\ IsDomain(book.domain) /\ book.pos \in 0 .. LLONG_MAX
         /\ GoodMap(mapfile) /\ IsFile(outfile) /\ Fits(b) /\ IsChunk(b)
<1>1. Loaded(book, "fill") /\ pc \in {"fill", "end"}
    BY Zenon DEF ModesInv, RunOk
<1>2. FillsMap(book, mapfile, job.domain) /\ FillsArea(book, job.types, area, b)
    BY Zenon DEF ModesInv, FillOk
<1>3. Chain(book.v) /\ IsDomain(book.domain) /\ book.pos \in 0 .. LLONG_MAX
    BY <1>1, LimitAssumption DEF Loaded, IsBook
<1>. QED  BY Zenon, <1>1, <1>2, <1>3 DEF ModesInv, Fits

LEMMA FillStepIsFill ==
  ASSUME ModesInv, pc = "fill"  PROVE  job.mode = "fill"
BY Zenon DEF ModesInv, RunOk

\* The next area is a block of the map.
LEMMA AreaIsNext ==
  ASSUME ModesInv, pc = "fill", NextAreas # {}
  PROVE  LET i == Min(NextAreas)
             p == IF includes_pos(book.v[i], book.pos) THEN book.pos ELSE book.v[i].pos
         IN  /\ i \in NextAreas /\ \A j \in NextAreas : i <= j
             /\ i \in Nat /\ i > area /\ area \in Nat /\ i \in 1 .. Len(book.v)
             /\ InDomain(book.domain, book.v[i]) /\ book.v[i].st \in job.types
             /\ GoodBlock(book.v[i]) /\ p \in Nat /\ includes_pos(book.v[i], p)
<1> DEFINE k == book
           v == k.v
           S == NextAreas
           i == Min(S)
           x == v[i]
           q == k.pos
           a == area
           p == IF includes_pos(x, q) THEN q ELSE x.pos
<1>1. job.mode = "fill"
    BY FillStepIsFill
<1>2. Chain(v) /\ a \in 0 .. Len(v) /\ q \in Nat /\ Len(v) \in Nat
  <2>1. Chain(v) /\ FillsArea(k, job.types, a, b) /\ q \in 0 .. LLONG_MAX
      BY Zenon, <1>1, WhileFilling
  <2>. QED  BY <2>1, ChainTypes DEF FillsArea
<1>3. S = {j \in a + 1 .. Len(v) :
             InDomain(k.domain, v[j]) /\ end(v[j]) > q /\ v[j].st \in job.types}
    BY DEF NextAreas
<1> HIDE DEF k, v, a, q, S
<1>4. S \in SUBSET Nat
    BY <1>2, <1>3
<1>5. i \in S /\ \A j \in S : i <= j
    BY <1>4, MinExists DEF S
<1> HIDE DEF i
<1>6. /\ i \in 1 .. Len(v) /\ i > a /\ a \in Nat /\ i \in Nat
      /\ InDomain(k.domain, x) /\ x.st \in job.types
    BY <1>2, <1>3, <1>5
<1>7. GoodBlock(x) /\ x.pos \in Nat /\ end(x) \in Nat /\ x.pos < end(x)
  <2>1. /\ x \in Blocks /\ x.pos \in Nat /\ end(x) \in Nat /\ x.pos < end(x)
        /\ end(x) <= LLONG_MAX /\ end(x) = x.pos + x.size /\ x.size \in Nat
      BY <1>2, <1>6, ChainBlocks
  <2> HIDE DEF x
  <2>2. x.size > 0
      BY <2>1
  <2>. QED  BY Zenon, <2>1, <2>2 DEF GoodBlock
<1> HIDE DEF x
<1>8. p \in Nat /\ includes_pos(x, p)
    BY <1>2, <1>7 DEF includes_pos
<1>. QED  BY Zenon, <1>5, <1>6, <1>7, <1>8 DEF i, S, v, k, x, q, a

LEMMA InAreaIsCropped == \A c, i : InArea(c, i) = Cropped(c, book.v[i])
BY Zenon DEF InArea, Cropped

\* What FillArea makes of the book, the area and the block.
LEMMA AreaBegins ==
  ASSUME ModesInv, FillArea
  PROVE  LET i == Min(NextAreas)
         IN  /\ area' = i /\ Loaded(book', "fill") /\ book'.v = book.v
             /\ book'.domain = book.domain /\ book'.pos = book.pos /\ book'.status = "filling"
             /\ Fits(b') /\ b'.size > 0 /\ includes(book.v[i], b')
             /\ b'.pos = IF includes_pos(book.v[i], book.pos) THEN book.pos ELSE book.v[i].pos
<1> DEFINE i == Min(NextAreas)
           x == book.v[i]
           p == IF includes_pos(x, book.pos) THEN book.pos ELSE x.pos
           c == b'
           l == book'
<1>1. pc = "fill" /\ NextAreas # {} /\ area' = i
    BY Zenon DEF FillArea
<1>2. c = Cropped(assign(p, SoftBS), x)
  <2>1. c = InArea(assign(p, SoftBS), i)
      BY Zenon DEF FillArea
  <2>. QED  BY Zenon, <2>1, InAreaIsCropped
<1>3. l = [book EXCEPT !.status = "filling"]
    BY Zenon DEF FillArea
<1>4. job.mode = "fill"
    BY Zenon, <1>1, FillStepIsFill
<1>5. Loaded(book, "fill")
  <2>1. pc # "none"
      BY <1>1
  <2>. QED  BY Zenon, <1>4, <2>1, WhileFilling
<1>6. GoodBlock(x) /\ p \in Nat /\ includes_pos(x, p)
    BY Zenon, <1>1, AreaIsNext
<1> HIDE DEF c, l, x, p, i
<1>7. Fits(c) /\ c.pos = p /\ includes(x, c) /\ c.size > 0
    BY Zenon, <1>2, <1>6, FirstInArea
<1>8. Loaded(l, "fill") /\ l.v = book.v /\ l.domain = book.domain /\ l.status = "filling"
      /\ l.pos = book.pos
    BY Zenon, <1>3, <1>5, BookWithStatus
<1>. QED  BY Zenon, <1>1, <1>7, <1>8 DEF c, l, x, p, i

LEMMA FillAreaKeeps == ASSUME ModesInv, FillArea  PROVE  ModesInv'
<1> DEFINE k == book'
           i == Min(NextAreas)
           c == b'
           ts == job.types
<1>1. pc = "fill" /\ NextAreas # {} /\ pc # "none"
    BY DEF FillArea
<1>2. job.mode = "fill"
    BY Zenon, <1>1, FillStepIsFill
<1>3. /\ Loaded(book, "fill") /\ FillsMap(book, mapfile, job.domain)
      /\ GoodMap(mapfile) /\ IsFile(outfile)
    BY Zenon, <1>1, <1>2, WhileFilling
<1>4. /\ area' = i /\ Loaded(k, "fill") /\ k.v = book.v
      /\ k.domain = book.domain
      /\ Fits(c) /\ c.size > 0 /\ includes(book.v[i], c)
    BY Zenon, AreaBegins
<1>5. /\ i \in Nat /\ i > area /\ area \in Nat /\ i \in 1 .. Len(book.v)
      /\ InDomain(book.domain, book.v[i]) /\ book.v[i].st \in ts
    BY Zenon, <1>1, AreaIsNext
<1>6. mapfile' = mapfile /\ outfile' = outfile /\ pc' = pc /\ job' = job
    BY Zenon DEF FillArea, disc
<1> HIDE DEF k, c, i, ts
<1>7. FillsMap(k, mapfile, job.domain)
    BY Zenon, <1>3, <1>4, SavedWhileFilling
<1>8. i \in 0 .. Len(k.v) /\ i > 0
    BY <1>4, <1>5
<1>9. FillsArea(k, ts, i, c)
    BY Zenon, <1>4, <1>5, <1>8 DEF FillsArea
<1>10. FillOk(pc, job, k, mapfile, i, c)
    BY Zenon, <1>7, <1>9 DEF FillOk, ts
<1>11. RunOk(pc, job, k)
    BY Zenon, <1>1, <1>2, <1>4 DEF RunOk
<1>. QED  BY Zenon, <1>3, <1>4, <1>6, <1>10, <1>11 DEF ModesInv, k, c

\* A fill run that goes on or ends, in the same area, with the book at a position.
LEMMA FillGoesOn ==
  ASSUME ModesInv, pc = "fill", pc' \in {"fill", "end"}, job' = job, area' = area,
         NEW l, l = book', Loaded(l, "fill"), l.v = book.v, l.domain = book.domain,
         mapfile' = mapfile \/ mapfile' = Saved(l), IsFile(outfile'),
         NEW c, c = b', Fits(c), c.size > 0 => area > 0 /\ includes(book.v[area], c)
  PROVE  ModesInv'
<1> DEFINE m == mapfile'
           ts == job.types
           a == area
<1>1. job.mode = "fill" /\ pc # "none"
    BY FillStepIsFill
<1>2. /\ Loaded(book, "fill") /\ FillsMap(book, mapfile, job.domain)
      /\ GoodMap(mapfile) /\ FillsArea(book, ts, a, b)
    BY Zenon, <1>1, WhileFilling
<1>3. m = mapfile \/ m = Saved(l)
    OBVIOUS
<1> HIDE DEF m, ts, a
<1>4. GoodMap(m) /\ FillsMap(l, m, job.domain)
    BY Zenon, <1>2, <1>3, SavedWhileFilling
<1>5. FillsArea(l, ts, a, c)
  <2>1. /\ a \in 0 .. Len(book.v)
        /\ a > 0 => InDomain(book.domain, book.v[a]) /\ book.v[a].st \in ts
      BY Zenon, <1>2 DEF FillsArea
  <2>. QED  BY Zenon, <2>1 DEF FillsArea, a
<1>6. FillOk(pc', job, l, m, a, c)
    BY Zenon, <1>4, <1>5 DEF FillOk, ts
<1>7. RunOk(pc', job, l)
    BY Zenon, <1>1 DEF RunOk
<1>. QED  BY Zenon, <1>4, <1>6, <1>7 DEF ModesInv, m, a

\* The block to write, and the book when its position has been stored.
LEMMA AtBlockIs ==
  ASSUME ModesInv, pc = "fill", b.size > 0
  PROVE  LET l == AtBlock
         IN  /\ Loaded(l, "fill") /\ l.v = book.v /\ l.domain = book.domain
             /\ l.status = book.status /\ l.pos = b.pos
             /\ area > 0 /\ area \in 1 .. Len(book.v) /\ GoodBlock(book.v[area])
             /\ includes(book.v[area], b) /\ IsChunk(b) /\ Fits(b)
             /\ InDomain(book.domain, book.v[area]) /\ book.v[area].st \in job.types
<1> DEFINE l == AtBlock
           v == book.v
           a == area
           x == v[a]
           p == b.pos
<1>1. job.mode = "fill" /\ pc # "none"
    BY FillStepIsFill
<1>2. /\ Loaded(book, "fill") /\ Chain(v) /\ FillsArea(book, job.types, a, b)
      /\ Fits(b) /\ IsChunk(b)
    BY Zenon, <1>1, WhileFilling
<1>3. p \in 0 .. LLONG_MAX
    BY <1>2, LimitAssumption DEF Fits, IsChunk, end
<1>4. l = [book EXCEPT !.pos = p]
    BY Zenon DEF AtBlock, Here
<1>5. /\ a \in 0 .. Len(v) /\ a > 0 /\ includes(x, b)
      /\ InDomain(book.domain, x) /\ x.st \in job.types
    BY Zenon, <1>2 DEF FillsArea
<1> HIDE DEF l, p
<1>6. Loaded(l, "fill") /\ l.v = book.v /\ l.domain = book.domain /\ l.status = book.status
      /\ l.pos = p
    BY Zenon, <1>2, <1>3, <1>4, BookAt
<1> HIDE DEF v, a
<1>7. Len(v) \in Nat
    BY <1>2, ChainTypes
<1>8. a \in 1 .. Len(v)
    BY <1>5, <1>7
<1>9. /\ x \in Blocks /\ x.pos \in Nat /\ end(x) \in Nat /\ x.pos < end(x)
      /\ end(x) <= LLONG_MAX /\ end(x) = x.pos + x.size /\ x.size \in Nat
    BY <1>2, <1>8, ChainBlocks
<1> HIDE DEF x
<1>10. x.size > 0
    BY <1>9
<1>11. GoodBlock(x)
    BY Zenon, <1>9, <1>10 DEF GoodBlock
<1>. QED  BY Zenon, <1>2, <1>5, <1>6, <1>8, <1>11 DEF l, v, a, x, p

\* After a block the run goes on where it ends, or is given up.
LEMMA ContinueIs ==
  ASSUME ModesInv, pc = "fill", b.size > 0, Continue
  PROVE  LET c == b'
             x == book.v[area]
         IN  /\ mapfile' = mapfile \/ mapfile' = Saved(AtBlock)
             /\ Fits(c) /\ (c.size > 0 => area > 0 /\ includes(x, c))
             /\ \/ /\ pc' = "fill" /\ retval' = retval
                   /\ c.pos = end(b) /\ (c.size > 0 \/ end(b) = end(x))
                \/ pc' = "end" /\ retval' = "unsaved"
<1> DEFINE c == b'
           x == book.v[area]
           z == set_pos(b, end(b))
<1>1. /\ Loaded(AtBlock, "fill") /\ area > 0 /\ GoodBlock(x)
      /\ includes(x, b) /\ IsChunk(b) /\ Fits(b)
    BY Zenon, AtBlockIs
<1>2. PICK save \in update_mapfile(AtBlock, FALSE) :
        /\ mapfile' = save.mapfile
        /\ IF save.ok
           THEN /\ c = InArea(z, area)
                /\ UNCHANGED <<pc, retval>>
           ELSE Leave("unsaved") /\ UNCHANGED b
    BY Zenon DEF Continue
<1>3. save.mapfile = mapfile \/ save.mapfile = Saved(AtBlock)
    BY DEF update_mapfile
<1>4. CASE save.ok
  <2>1. c = Cropped(z, x)
      BY Zenon, <1>2, <1>4, InAreaIsCropped
  <2>2. pc' = "fill" /\ retval' = retval
      BY Zenon, <1>2, <1>4
  <2> HIDE DEF c, x
  <2>3. Fits(c) /\ c.pos = end(b) /\ includes(x, c) /\ (c.size > 0 \/ end(b) = end(x))
      BY Zenon, <1>1, <2>1, NextInArea
  <2>. QED  BY Zenon, <1>1, <1>2, <1>3, <2>2, <2>3 DEF c, x
<1>5. CASE ~save.ok
  <2>1. c = b /\ pc' = "end" /\ retval' = "unsaved"
      BY Zenon, <1>2, <1>5 DEF Leave
  <2> HIDE DEF c, x
  <2>. QED  BY Zenon, <1>1, <1>2, <1>3, <2>1 DEF c, x
<1>. QED  BY Zenon, <1>4, <1>5

\* What a fill writes lies in the block.
LEMMA FillWrites ==
  ASSUME ModesInv, pc = "fill", b.size > 0, NEW n \in 0 .. b.size, Write(n)
  PROVE  /\ IsFile(outfile')
         /\ \A p \in DOMAIN outfile' :
              outfile'[p] # (IF p \in DOMAIN outfile THEN outfile[p] ELSE "zero") => p \in Bytes(b)
<1> DEFINE data == [p \in FirstBytes(n) |-> "fill"]
           f == outfile'
<1>1. /\ IsChunk(b) /\ IsFile(outfile)
    BY Zenon, AtBlockIs DEF ModesInv
<1>2. /\ b.pos \in Nat /\ b.size \in Nat /\ n \in Nat /\ n <= b.size
      /\ FirstBytes(n) = b.pos .. b.pos + n - 1
    BY <1>1 DEF IsChunk, FirstBytes
<1>3. f = writeblockp(outfile, b, n, data)
    BY Zenon DEF Write
<1>4. \A p \in b.pos .. b.pos + n - 1 : data[p] \in Content
    BY <1>2 DEF Content
<1>5. \A p \in DOMAIN f :
        f[p] # (IF p \in DOMAIN outfile THEN outfile[p] ELSE "zero") => b.pos <= p /\ p < b.pos + n
    BY <1>3 DEF writeblockp
<1> HIDE DEF data, f
<1>6. IsFile(f)
    BY Zenon, <1>1, <1>2, <1>3, <1>4, FileWritten
<1>7. DOMAIN f \subseteq Int
    BY <1>6 DEF IsFile
<1>8. \A p \in DOMAIN f :
        f[p] # (IF p \in DOMAIN outfile THEN outfile[p] ELSE "zero") => p \in Bytes(b)
  <2> SUFFICES ASSUME NEW p \in DOMAIN f,
                      f[p] # (IF p \in DOMAIN outfile THEN outfile[p] ELSE "zero")
               PROVE  p \in Bytes(b)
      OBVIOUS
  <2>1. b.pos <= p /\ p < b.pos + n /\ p \in Int
      BY <1>5, <1>7
  <2>. QED  BY <1>2, <2>1 DEF Bytes, end
<1>. QED  BY Zenon, <1>6, <1>8 DEF f

LEMMA NoAreaLeftKeeps == ASSUME ModesInv, NoAreaLeft  PROVE  ModesInv'
<1> DEFINE l == book'
           c == b'
<1>1. /\ pc = "fill" /\ b.size = 0 /\ pc' = "end" /\ job' = job /\ area' = area
      /\ l = book /\ c = b /\ mapfile' = mapfile /\ outfile' = outfile
    BY Zenon DEF NoAreaLeft, Leave, disc
<1>2. Loaded(book, "fill") /\ Fits(b) /\ IsFile(outfile) /\ IsChunk(b)
  <2>1. job.mode = "fill" /\ pc # "none"
      BY <1>1, FillStepIsFill
  <2>. QED  BY Zenon, <2>1, WhileFilling
<1>3. pc' \in {"fill", "end"} /\ ~(b.size > 0)
    BY <1>1
<1> HIDE DEF l, c
<1>. QED  BY Zenon, <1>1, <1>2, <1>3, FillGoesOn DEF l, c

LEMMA FillInterruptedKeeps == ASSUME ModesInv, FillInterrupted  PROVE  ModesInv'
<1> DEFINE l == book'
           c == b'
<1>1. /\ pc = "fill" /\ b.size > 0 /\ pc' = "end" /\ job' = job /\ area' = area
      /\ l = AtBlock /\ c = b /\ mapfile' = mapfile /\ outfile' = outfile
    BY Zenon DEF FillInterrupted, Interrupted, Leave, disc
<1>2. /\ Loaded(AtBlock, "fill") /\ AtBlock.v = book.v /\ AtBlock.domain = book.domain
      /\ area > 0 /\ includes(book.v[area], b) /\ Fits(b)
    BY Zenon, <1>1, AtBlockIs
<1>3. pc' \in {"fill", "end"} /\ IsFile(outfile)
    BY <1>1 DEF ModesInv
<1> HIDE DEF l, c
<1>. QED  BY Zenon, <1>1, <1>2, <1>3, FillGoesOn DEF l, c

LEMMA FillBlockKeeps == ASSUME ModesInv, FillBlock  PROVE  ModesInv'
<1> DEFINE l == book'
           c == b'
<1>1. /\ pc = "fill" /\ b.size > 0 /\ job' = job /\ area' = area
      /\ l = AtBlock /\ Write(b.size) /\ Continue
    BY Zenon DEF FillBlock
<1>2. /\ Loaded(AtBlock, "fill") /\ AtBlock.v = book.v /\ AtBlock.domain = book.domain
      /\ IsChunk(b)
    BY Zenon, <1>1, AtBlockIs
<1>3. b.size \in 0 .. b.size
    BY <1>2 DEF IsChunk
<1>4. IsFile(outfile')
    BY Zenon, <1>1, <1>3, FillWrites
<1>5. /\ mapfile' = mapfile \/ mapfile' = Saved(AtBlock)
      /\ Fits(c) /\ (c.size > 0 => area > 0 /\ includes(book.v[area], c))
      /\ pc' = "fill" \/ pc' = "end"
    BY Zenon, <1>1, ContinueIs
<1>6. pc' \in {"fill", "end"}
    BY <1>5
<1> HIDE DEF l, c
<1>. QED  BY Zenon, <1>1, <1>2, <1>4, <1>5, <1>6, FillGoesOn DEF l, c

\* What FillFails does to the block and the run.
LEMMA FailureIs ==
  ASSUME ModesInv, FillFails
  PROVE  LET c == b'
         IN  /\ Fits(c) /\ (c.size > 0 => area > 0 /\ includes(book.v[area], c))
             /\ IsFile(outfile') /\ (mapfile' = mapfile \/ mapfile' = Saved(AtBlock))
             /\ pc' \in {"fill", "end"}
             /\ \/ pc' = "end" /\ retval' = "error" /\ series' = series
                \/ /\ pc' = "fill" /\ retval' = retval /\ series' = series
                   /\ c.pos = b.pos /\ c.size > 0
                \/ /\ Continue
                   /\ series' = [series EXCEPT !.failed = @ \cup FirstBytes(b.size)]
<1> DEFINE c == b'
           x == book.v[area]
<1>1. /\ pc = "fill" /\ b.size > 0
      /\ \E n \in 0 .. b.size - 1 : Write(n)
    BY Zenon DEF FillFails
<1>2. area > 0 /\ includes(x, b) /\ IsChunk(b) /\ Fits(b)
    BY Zenon, <1>1, AtBlockIs
<1>3. IsFile(outfile')
  <2>1. PICK n \in 0 .. b.size - 1 : Write(n)
      BY <1>1
  <2>2. n \in 0 .. b.size
      BY <1>2 DEF IsChunk
  <2>. QED  BY Zenon, <1>1, <2>1, <2>2, FillWrites
<1>4. CASE ~job.ignore
  <2>1. pc' = "end" /\ retval' = "error" /\ mapfile' = mapfile /\ c = b /\ series' = series
      BY Zenon, <1>4 DEF FillFails, Leave
  <2>2. pc' \in {"fill", "end"}
      BY <2>1
  <2> HIDE DEF c, x
  <2>. QED  BY Zenon, <1>2, <1>3, <2>1, <2>2 DEF c, x
<1>5. CASE job.ignore /\ b.size > HardBS
  <2>1. /\ c = [b EXCEPT !.size = HardBS] /\ pc' = pc /\ retval' = retval
        /\ mapfile' = mapfile /\ series' = series
      BY Zenon, <1>5 DEF FillFails
  <2>2. HardBS \in Nat /\ HardBS > 0
      BY SizesAssumption
  <2>3. b.pos \in Nat /\ b.size \in Nat /\ end(b) = b.pos + b.size /\ end(b) <= LLONG_MAX
        /\ x.pos <= b.pos /\ end(x) >= end(b)
      BY <1>2 DEF IsChunk, Fits, end, includes
  <2>4. end(x) \in Int
    <3>1. GoodBlock(x)
        BY Zenon, <1>1, AtBlockIs
    <3>. QED  BY <3>1 DEF GoodBlock, Blocks, end
  <2>5. c = [pos |-> b.pos, size |-> HardBS]
      BY <1>2, <2>1 DEF IsChunk
  <2> HIDE DEF c, x
  <2>6. c.pos = b.pos /\ c.size = HardBS /\ end(c) = b.pos + HardBS /\ IsChunk(c)
      BY <2>2, <2>3, <2>5 DEF end, IsChunk
  <2>7. LLONG_MAX \in Nat
      BY LimitAssumption
  <2>8. end(c) <= LLONG_MAX /\ x.pos <= c.pos /\ end(x) >= end(c) /\ c.size > 0
      BY <1>5, <2>2, <2>3, <2>4, <2>6, <2>7
  <2>9. pc' = "fill" /\ pc' \in {"fill", "end"}
      BY <1>1, <2>1
  <2>. QED  BY Zenon, <1>2, <1>3, <2>1, <2>6, <2>8, <2>9 DEF c, x, Fits, includes
<1>6. CASE job.ignore /\ ~(b.size > HardBS)
  <2>1. Continue /\ series' = [series EXCEPT !.failed = @ \cup FirstBytes(b.size)]
      BY Zenon, <1>6 DEF FillFails
  <2>2. /\ mapfile' = mapfile \/ mapfile' = Saved(AtBlock)
        /\ Fits(c) /\ (c.size > 0 => area > 0 /\ includes(x, c))
        /\ pc' = "fill" \/ pc' = "end"
      BY Zenon, <1>1, <2>1, ContinueIs
  <2>3. pc' \in {"fill", "end"}
      BY <2>2
  <2> HIDE DEF c, x
  <2>. QED  BY Zenon, <1>3, <2>1, <2>2, <2>3 DEF c, x
<1>. QED  BY Zenon, <1>4, <1>5, <1>6

LEMMA FillFailsKeeps == ASSUME ModesInv, FillFails  PROVE  ModesInv'
<1> DEFINE l == book'
           c == b'
<1>1. /\ pc = "fill" /\ b.size > 0 /\ job' = job /\ area' = area /\ l = AtBlock
    BY Zenon DEF FillFails
<1>2. /\ Loaded(AtBlock, "fill") /\ AtBlock.v = book.v /\ AtBlock.domain = book.domain
    BY Zenon, <1>1, AtBlockIs
<1>3. /\ Fits(c) /\ (c.size > 0 => area > 0 /\ includes(book.v[area], c))
      /\ IsFile(outfile') /\ (mapfile' = mapfile \/ mapfile' = Saved(AtBlock))
      /\ pc' \in {"fill", "end"}
    BY Zenon, FailureIs
<1> HIDE DEF l, c
<1>. QED  BY Zenon, <1>1, <1>2, <1>3, FillGoesOn DEF l, c

\* A run that ends leaves a mapfile and a file.
LEMMA ExitKeeps ==
  ASSUME Exit, GoodMap(mapfile'), IsFile(outfile')
  PROVE  ModesInv'
<1> DEFINE c == b'
<1>1. pc' = "none" /\ c = NoBlock
    BY Zenon DEF Exit
<1>2. Fits(c)
  <2> HIDE DEF c
  <2>. QED  BY <1>1, LimitAssumption DEF Fits, NoBlock, IsChunk, end
<1>. QED  BY Zenon, <1>1, <1>2 DEF ModesInv, RunOk, FillOk

\* What the end of a run saves.
LEMMA FinishIs ==
  ASSUME GoodMap(mapfile), NEW k, NEW mode, Loaded(k, mode), Finish(k)
  PROVE  LET m == mapfile'
         IN  /\ Exit /\ outfile' = outfile /\ GoodMap(m)
             /\ \/ m = mapfile
                \/ m = [lines |-> compact_sblock_vector(k.v), status |-> k.status, pos |-> k.pos]
             /\ \/ retval' = retval /\ m.lines = compact_sblock_vector(k.v)
                \/ retval' = "error"
<1> DEFINE m == mapfile'
           u == compact_sblock_vector(k.v)
           l == [k EXCEPT !.v = u]
           n == [lines |-> u, status |-> k.status, pos |-> k.pos]
<1>1. PICK save \in update_mapfile(l, TRUE) :
        m = save.mapfile /\ retval' = IF save.ok THEN retval ELSE "error"
    BY Zenon DEF Finish
<1>2. l.v = u /\ l.status = k.status /\ l.pos = k.pos
    BY DEF Loaded, IsBook
<1>3. IsMapLines(u) /\ k.pos \in 0 .. LLONG_MAX
  <2>1. IsMapLines(u)
    <3>1. Chain(k.v) \/ Memory(k.v)
        BY DEF Loaded
    <3>. QED  BY Zenon, <3>1, CanBeSaved
  <2>2. k.pos \in 0 .. LLONG_MAX
      BY LimitAssumption DEF Loaded, IsBook
  <2>. QED  BY <2>1, <2>2
<1>4. (save.ok /\ save.mapfile = Saved(l)) \/ (~save.ok /\ save.mapfile = mapfile)
    BY DEF update_mapfile
<1> HIDE DEF u, l, m
<1>5. Saved(l) = n /\ n.lines = u /\ n.pos = k.pos
    BY <1>2 DEF Saved
<1> HIDE DEF n
<1>6. m = mapfile \/ m = n
    BY Zenon, <1>1, <1>4, <1>5
<1>7. GoodMap(m)
    BY Zenon, <1>3, <1>5, <1>6 DEF GoodMap
<1>8. (retval' = retval /\ m.lines = u) \/ retval' = "error"
    BY Zenon, <1>1, <1>4, <1>5
<1>9. Exit /\ outfile' = outfile
    BY Zenon DEF Finish
<1>. QED  BY Zenon, <1>6, <1>7, <1>8, <1>9 DEF u, m, n

LEMMA EndKeeps == ASSUME ModesInv, End  PROVE  ModesInv'
<1>1. GoodMap(mapfile) /\ IsFile(outfile) /\ pc = "end"
    BY DEF ModesInv, End
<1>2. CASE retval = "unsaved"
  <2>1. Exit /\ mapfile' = mapfile /\ outfile' = outfile
      BY Zenon, <1>2 DEF End, disc
  <2>. QED  BY Zenon, <1>1, <2>1, ExitKeeps
<1>3. CASE retval # "unsaved"
  <2> DEFINE k == [book EXCEPT !.status = EndStatus]
  <2>1. Finish(k)
      BY Zenon, <1>3 DEF End
  <2>2. Loaded(book, job.mode)
    <3>1. pc # "none"
        BY <1>1
    <3>. QED  BY Zenon, <3>1 DEF ModesInv, RunOk
  <2>3. Loaded(k, job.mode)
      BY Zenon, <2>2, BookWithStatus
  <2> HIDE DEF k
  <2>4. Exit /\ outfile' = outfile /\ GoodMap(mapfile')
      BY Zenon, <1>1, <2>1, <2>3, FinishIs
  <2>. QED  BY Zenon, <1>1, <2>4, ExitKeeps
<1>. QED  BY <1>2, <1>3

LEMMA KillKeeps == ASSUME ModesInv, Kill  PROVE  ModesInv'
<1>1. Exit /\ mapfile' = mapfile /\ outfile' = outfile
    BY Zenon DEF Kill, disc
<1>. QED  BY Zenon, <1>1, ExitKeeps DEF ModesInv

\* What a fill run begins with.
LEMMA StartFillIs ==
  ASSUME ModesInv, StartFill
  PROVE  LET k == book'
             d == job'.domain
         IN  /\ pc' = "fill" /\ job'.mode = "fill" /\ area' = 0 /\ b' = NoBlock
             /\ pc = "none" /\ retval' = "ok"
             /\ mapfile' = mapfile /\ outfile' = outfile
             /\ Loaded(k, "fill") /\ FillsMap(k, mapfile, d)
             /\ \A p \in InDomains(k.domain) : \E t : Holds(BlocksOf(mapfile.lines), p, t)
             /\ InDomains(k.domain) \subseteq InDomains(d)
             /\ \/ /\ mapfile.status = "filling" /\ InDomainPos(k.domain, mapfile.pos)
                   /\ k.pos = mapfile.pos
                   /\ series' = [series EXCEPT !.pure = @ /\ series.job = job',
                                               !.guess = @ \/ job'.mode = "generate"]
                \/ /\ k.pos = 0
                   /\ series'.job = job' /\ series'.pure
                   /\ ~(mapfile.status = "filling" /\ InDomainPos(k.domain, mapfile.pos))
<1>0. GoodMap(mapfile)
    BY DEF ModesInv
<1>1. PICK types \in FillTypes, d \in Domains, ignore \in BOOLEAN :
        \E file \in {Load(d, 0, TRUE, FALSE)} :
          LET j == [mode |-> "fill", types |-> types, domain |-> d, ignore |-> ignore]
              bk == file.book
          IN  /\ mapfile.lines # <<>> /\ file.ok
              /\ Start(j, [bk EXCEPT !.pos = IF Resumes(bk) THEN @ ELSE 0], NoBlock,
                       Resumes(bk))
              /\ area' = 0 /\ UNCHANGED mapfile
    BY Zenon DEF StartFill
<1> DEFINE file == Load(d, 0, TRUE, FALSE)
           j == [mode |-> "fill", types |-> types, domain |-> d, ignore |-> ignore]
           bk == file.book
           p == IF Resumes(bk) THEN bk.pos ELSE 0
           l == [bk EXCEPT !.pos = p]
           k == book'
           m == mapfile
<1>2. /\ m.lines # <<>> /\ file.ok /\ area' = 0 /\ mapfile' = mapfile
      /\ Start(j, l, NoBlock, Resumes(bk))
    BY Zenon, <1>1
<1>3. j.mode = "fill" /\ j.domain = d
    OBVIOUS
<1> HIDE DEF j, file
<1>4. /\ Loaded(bk, "fill") /\ Chain(m.lines)
      /\ Same(BlocksOf(bk.v), BlocksOf(m.lines))
      /\ InDomains(bk.domain) = InDomains(d) \cap Bytes(extent(m.lines))
      /\ bk.status = m.status /\ bk.pos = m.pos
  <2>1. m = mapfile
      OBVIOUS
  <2> HIDE DEF m
  <2>2. m.lines # <<>> /\ GoodMap(m) /\ file = Load(d, 0, TRUE, FALSE) /\ file.ok
      BY Zenon, <1>0, <1>2, <2>1 DEF file
  <2>. QED  BY Zenon, <2>1, <2>2, LoadsToFill
<1>5. pc' = "fill" /\ job' = j /\ k = l /\ b' = NoBlock /\ outfile' = outfile /\ pc = "none"
      /\ retval' = "ok"
    BY Zenon, <1>2, <1>3 DEF Start
<1> HIDE DEF bk
<1>6. p \in 0 .. LLONG_MAX /\ bk.pos \in Nat
    BY <1>4, LimitAssumption DEF Loaded, IsBook
<1> HIDE DEF p
<1>7. Loaded(l, "fill") /\ l.v = bk.v /\ l.domain = bk.domain /\ l.pos = p
    BY Zenon, <1>4, <1>6, BookAt
<1> HIDE DEF l, k
<1>8. Chain(l.v) /\ Same(BlocksOf(l.v), BlocksOf(m.lines))
      /\ InDomains(l.domain) = InDomains(d) \cap Bytes(extent(m.lines))
    BY Zenon, <1>4, <1>7 DEF Loaded
<1>9. /\ FillsMap(l, m, d)
      /\ \A q \in InDomains(l.domain) : \E t : Holds(BlocksOf(m.lines), q, t)
    BY Zenon, <1>4, <1>8, BeginsToFill
<1>10. InDomains(l.domain) \subseteq InDomains(d)
    BY <1>8
<1>11. \/ /\ m.status = "filling" /\ InDomainPos(l.domain, m.pos)
          /\ l.pos = m.pos
          /\ series' = [series EXCEPT !.pure = @ /\ series.job = j,
                                      !.guess = @ \/ j.mode = "generate"]
       \/ /\ l.pos = 0
          /\ series'.job = j /\ series'.pure
          /\ ~(m.status = "filling" /\ InDomainPos(l.domain, m.pos))
  <2>1. Resumes(bk) <=> m.status = "filling" /\ InDomainPos(l.domain, m.pos)
      BY Zenon, <1>4, <1>7 DEF Resumes
  <2>2. CASE Resumes(bk)
    <3>1. series' = [series EXCEPT !.pure = @ /\ series.job = j,
                                   !.guess = @ \/ j.mode = "generate"]
        BY Zenon, <1>2, <2>2 DEF Start
    <3>2. p = bk.pos
        BY Zenon, <2>2 DEF p
    <3>. QED  BY Zenon, <1>4, <1>7, <2>1, <2>2, <3>1, <3>2
  <2>3. CASE ~Resumes(bk)
    <3>1. series' = [job |-> j, pure |-> TRUE, done |-> {}, failed |-> {},
                     guess |-> series.guess \/ j.mode = "generate",
                     holes |-> series.holes \/ (j.mode = "commands" /\ j.sparse)]
        BY Zenon, <1>2, <2>3 DEF Start
    <3> DEFINE s == series'
               g == series.guess \/ j.mode = "generate"
               h == series.holes \/ (j.mode = "commands" /\ j.sparse)
    <3> HIDE DEF g, h
    <3>2. s = [job |-> j, pure |-> TRUE, done |-> {}, failed |-> {}, guess |-> g, holes |-> h]
        BY Zenon, <3>1 DEF g, h
    <3> HIDE DEF s
    <3>3. s.job = j /\ s.pure
        BY <3>2
    <3>4. p = 0
        BY Zenon, <2>3 DEF p
    <3>. QED  BY Zenon, <1>7, <2>1, <2>3, <3>3, <3>4 DEF s
  <2>. QED  BY Zenon, <2>2, <2>3
<1>. QED  BY Zenon, <1>2, <1>3, <1>5, <1>7, <1>9, <1>10, <1>11 DEF k, m

LEMMA StartFillKeeps == ASSUME ModesInv, StartFill  PROVE  ModesInv'
<1> DEFINE k == book'
           j == job'
           c == b'
<1>1. /\ pc' = "fill" /\ j.mode = "fill" /\ area' = 0 /\ c = NoBlock
      /\ mapfile' = mapfile /\ outfile' = outfile
      /\ Loaded(k, "fill") /\ FillsMap(k, mapfile, j.domain)
    BY Zenon, StartFillIs
<1> HIDE DEF k, j, c
<1>2. Fits(c) /\ ~(c.size > 0)
    BY <1>1, LimitAssumption DEF Fits, NoBlock, IsChunk, end
<1>3. Len(k.v) \in Nat
    BY <1>1, ChainTypes DEF Loaded
<1>4. 0 \in 0 .. Len(k.v) /\ ~(0 > 0)
    BY <1>3
<1>5. FillsArea(k, j.types, 0, c)
    BY Zenon, <1>2, <1>4 DEF FillsArea
<1>6. FillOk("fill", j, k, mapfile, 0, c) /\ RunOk("fill", j, k)
    BY <1>1, <1>5 DEF FillOk, RunOk
<1>7. GoodMap(mapfile) /\ IsFile(outfile)
    BY DEF ModesInv
<1>. QED  BY Zenon, <1>1, <1>2, <1>6, <1>7 DEF ModesInv, k, j, c

-----------------------------------------------------------------------------
(***************************************************************************)
(* Generate and command mode: what a run works on.                         *)
(***************************************************************************)

\* The book with other blocks.
LEMMA BookWithMap ==
  ASSUME NEW k, NEW mode, mode # "fill", Loaded(k, mode), NEW v, InMap(v, k.domain)
  PROVE  LET l == [k EXCEPT !.v = v]
         IN  Loaded(l, mode) /\ l.v = v /\ SameRun(l, k)
<1> DEFINE l == [k EXCEPT !.v = v]
<1>1. /\ k = [v |-> k.v, domain |-> k.domain, index |-> k.index, status |-> k.status,
              pos |-> k.pos]
      /\ k.index \in Int /\ k.pos \in Nat
    BY DEF Loaded, IsBook
<1>2. /\ l.v = v /\ l.domain = k.domain /\ l.index = k.index /\ l.status = k.status
      /\ l.pos = k.pos
      /\ DOMAIN l = {"v", "domain", "index", "status", "pos"}
      /\ l = [x \in DOMAIN l |-> l[x]]
    BY <1>1
<1> HIDE DEF l
<1>3. l = [v |-> l.v, domain |-> l.domain, index |-> l.index, status |-> l.status, pos |-> l.pos]
    BY <1>2
<1>5. IsBook(l)
    BY Zenon, <1>1, <1>2, <1>3 DEF IsBook
<1>6. Loaded(l, mode)
    BY Zenon, <1>2, <1>5 DEF Loaded, InMap
<1>. QED  BY Zenon, <1>2, <1>6 DEF l, SameRun

\* The book with other blocks and index_.
LEMMA BookMoved ==
  ASSUME NEW k, NEW mode, mode # "fill", Loaded(k, mode), NEW i \in Int, NEW v, InMap(v, k.domain)
  PROVE  LET l == [k EXCEPT !.index = i, !.v = v]
         IN  Loaded(l, mode) /\ l.v = v /\ l.index = i /\ SameRun(l, k)
<1> DEFINE l == [k EXCEPT !.index = i, !.v = v]
<1>1. /\ k = [v |-> k.v, domain |-> k.domain, index |-> k.index, status |-> k.status,
              pos |-> k.pos]
      /\ k.index \in Int /\ k.pos \in Nat
    BY DEF Loaded, IsBook
<1>2. /\ l.v = v /\ l.domain = k.domain /\ l.index = i /\ l.status = k.status
      /\ l.pos = k.pos
      /\ DOMAIN l = {"v", "domain", "index", "status", "pos"}
      /\ l = [x \in DOMAIN l |-> l[x]]
    BY <1>1
<1> HIDE DEF l
<1>3. l = [v |-> l.v, domain |-> l.domain, index |-> l.index, status |-> l.status, pos |-> l.pos]
    BY <1>2
<1>5. IsBook(l)
    BY Zenon, <1>1, <1>2, <1>3 DEF IsBook
<1>6. Loaded(l, mode)
    BY Zenon, <1>2, <1>5 DEF Loaded, InMap
<1>. QED  BY Zenon, <1>2, <1>6 DEF l, SameRun

\* ... and its index_ only.
LEMMA BookIndexed ==
  ASSUME NEW k, NEW mode, mode # "fill", Loaded(k, mode), NEW i \in Int
  PROVE  LET l == [k EXCEPT !.index = i]
         IN  Loaded(l, mode) /\ l.v = k.v /\ SameRun(l, k)
<1> DEFINE l == [k EXCEPT !.index = i]
<1>1. /\ k = [v |-> k.v, domain |-> k.domain, index |-> k.index, status |-> k.status,
              pos |-> k.pos]
      /\ k.index \in Int /\ k.pos \in Nat
    BY DEF Loaded, IsBook
<1>2. /\ l.v = k.v /\ l.domain = k.domain /\ l.index = i /\ l.status = k.status
      /\ l.pos = k.pos
      /\ DOMAIN l = {"v", "domain", "index", "status", "pos"}
      /\ l = [x \in DOMAIN l |-> l[x]]
    BY <1>1
<1> HIDE DEF l
<1>3. l = [v |-> l.v, domain |-> l.domain, index |-> l.index, status |-> l.status, pos |-> l.pos]
    BY <1>2
<1>5. IsBook(l)
    BY Zenon, <1>1, <1>2, <1>3 DEF IsBook
<1>6. Loaded(l, mode)
    BY Zenon, <1>2, <1>5 DEF Loaded
<1>. QED  BY Zenon, <1>2, <1>6 DEF l, SameRun

\* The book when a chunk has been found to generate from.
LEMMA BookGenerating ==
  ASSUME NEW k, NEW mode, mode # "fill", Loaded(k, mode), k = book,
         NEW f, f.index \in Int, f.b.pos \in 0 .. LLONG_MAX
  PROVE  LET l == AtChunk(f)
         IN  Loaded(l, mode) /\ l.v = k.v /\ l.domain = k.domain /\ l.pos = f.b.pos
             /\ l.status = "generating"
<1> DEFINE l == AtChunk(f)
           i == f.index
           p == f.b.pos
<1>1. /\ k = [v |-> k.v, domain |-> k.domain, index |-> k.index, status |-> k.status,
              pos |-> k.pos]
      /\ k.index \in Int /\ k.pos \in Nat /\ p \in Nat /\ p <= LLONG_MAX /\ i \in Int
    BY LimitAssumption DEF Loaded, IsBook
<1>2. l = [k EXCEPT !.index = i, !.status = "generating", !.pos = p]
    BY Zenon DEF AtChunk
<1> HIDE DEF l, i, p
<1>3. /\ l.v = k.v /\ l.domain = k.domain /\ l.index = i /\ l.status = "generating"
      /\ l.pos = p
      /\ DOMAIN l = {"v", "domain", "index", "status", "pos"}
      /\ l = [x \in DOMAIN l |-> l[x]]
    BY <1>1, <1>2
<1>4. l = [v |-> l.v, domain |-> l.domain, index |-> l.index, status |-> l.status, pos |-> l.pos]
    BY ONLY <1>3
<1>5. IsBook(l)
    BY Zenon, <1>1, <1>3, <1>4 DEF IsBook
<1>6. Loaded(l, mode)
    BY Zenon, <1>1, <1>3, <1>5 DEF Loaded
<1>. QED  BY Zenon, <1>3, <1>6 DEF l, p

\* The map and the book of these modes.
LEMMA LoadedIsBook ==
  ASSUME NEW k, NEW mode, mode # "fill"
  PROVE  Loaded(k, mode) <=> IsBook(k) /\ k.pos <= LLONG_MAX /\ InMap(k.v, k.domain)
BY Zenon DEF Loaded, InMap

\* A map that holds anything begins at 0.
LEMMA HoldsIsVector ==
  ASSUME NEW v, Memory(v), NEW p, NEW t, Holds(BlocksOf(v), p, t)
  PROVE  IsVector(v)
<1>1. v # EmptyMap
  <2>1. SUFFICES ASSUME v = EmptyMap PROVE FALSE
      OBVIOUS
  <2>2. PICK x \in BlocksOf(v) : p \in Bytes(x)
      BY Zenon DEF Holds
  <2>3. x = v[1]
    <3>1. Len(v) = 1
        BY Zenon, <2>1, EmptyMapIs
    <3>2. PICK i \in 1 .. Len(v) : x = v[i]
        BY DEF BlocksOf
    <3>3. i = 1
        BY <3>1, <3>2
    <3>. QED  BY <3>2, <3>3
  <2>4. x.pos = 0 /\ end(x) = 0
      BY Zenon, <2>1, <2>3, EmptyMapIs
  <2>. QED  BY <2>2, <2>4 DEF Bytes
<1>. QED  BY Zenon, <1>1 DEF Memory

LEMMA WhileInMap ==
  ASSUME ModesInv, pc # "none", job.mode # "fill"
  PROVE  /\ Loaded(book, job.mode) /\ InMap(book.v, book.domain) /\ IsBook(book)
         /\ book.index \in Int /\ GoodMap(mapfile) /\ IsFile(outfile) /\ Fits(b) /\ IsChunk(b)
         /\ Memory(book.v) /\ IsDomain(book.domain) /\ SplitFrom(BlocksOf(book.v), book.domain, 1)
<1>1. Loaded(book, job.mode)
    BY Zenon DEF ModesInv, RunOk
<1>. QED  BY Zenon, <1>1 DEF ModesInv, Fits, Loaded, InMap, IsBook

\* A step of such a run.
LEMMA OtherKeeps ==
  ASSUME NEW q, q = pc', NEW l, l = book', job' = job, job.mode # "fill",
         \/ job.mode = "generate" /\ q \in {"generate", "end"}
         \/ job.mode = "commands" /\ q \in {"commands", "copy"},
         Loaded(l, job.mode), GoodMap(mapfile'), IsFile(outfile'), Fits(b')
  PROVE  ModesInv'
<1>1. RunOk(q, job, l)
    BY Zenon DEF RunOk
<1>2. FillOk(q, job, l, mapfile', area', b')
    BY Zenon DEF FillOk
<1>. QED  BY Zenon, <1>1, <1>2 DEF ModesInv

\* The positions of the sectors of a chunk that do not hold zeros only.
Marked(a, c, n) ==
  LET sec == Sectors(c, n)
  IN  \E j \in DOMAIN sec : a \in Bytes(sec[j]) /\ ~block_is_zero(sec[j])

CheckedMap(w, v, c, n) ==
  \A a, t : Holds(BlocksOf(w), a, t) <=>
              IF Marked(a, c, n) THEN t = "finished" ELSE Holds(BlocksOf(v), a, t)

LEMMA ChunkIsChecked ==
  ASSUME NEW k, Loaded(k, "generate"), NEW i, NEW c, HasChunk(k.v, k.domain, i, c),
         NEW n \in Nat, n <= c.size
  PROVE  LET w == check_block(k, c, n)
         IN  /\ Loaded(w, "generate") /\ SameRun(w, k) /\ IsVector(w.v)
             /\ CheckedMap(w.v, k.v, c, n)
<1> DEFINE w == check_block(k, c, n)
           sec == Sectors(c, n)
           p == c.pos
           e == p + n
           mode == "generate"
<1>1. mode # "fill"
    OBVIOUS
<1>2. Loaded(k, mode)
    OBVIOUS
<1> HIDE DEF mode
<1>3. IsBook(k) /\ k.pos <= LLONG_MAX /\ InMap(k.v, k.domain)
    BY Zenon, <1>1, <1>2, LoadedIsBook
<1>4. p \in Nat /\ c.size \in Nat /\ e \in Nat /\ p <= e /\ e <= end(c) /\ p <= p
      /\ Rest(k.v, k.domain, p, end(c))
  <2>1. /\ Rest(k.v, k.domain, c.pos, end(c)) /\ c.pos \in Nat /\ c.size \in Nat
        /\ end(c) = c.pos + c.size
      BY Zenon, HasRest
  <2>. QED  BY <2>1
<1> HIDE DEF p, e
<1>5. Rest(k.v, k.domain, p, e)
    BY Zenon, <1>4, SmallerRest
<1>6. PICK m, at : SectorsAt(sec, m, at, p, e)
    BY Zenon, <1>4, SectorsAre DEF p, e
<1>7. CheckedBook(w, k, sec, at, e, 1 .. m, m)
    BY Zenon, <1>3, <1>5, <1>6, BlockIsChecked
<1>8. DOMAIN sec = 1 .. m
    BY Zenon, <1>6 DEF SectorsAt
<1> HIDE DEF w, sec
<1>9. IsBook(w) /\ InMap(w.v, w.domain) /\ SameRun(w, k) /\ ChecksOf(w.v, k.v, sec, 1 .. m)
    BY Zenon, <1>7 DEF CheckedBook
<1>10. CheckedMap(w.v, k.v, c, n)
    BY Zenon, <1>8, <1>9 DEF CheckedMap, Marked, ChecksOf, sec
<1>11. Loaded(w, mode)
  <2>1. w.pos <= LLONG_MAX
      BY Zenon, <1>3, <1>9 DEF SameRun
  <2>. QED  BY Zenon, <1>1, <1>9, <2>1, LoadedIsBook
<1>12. IsVector(w.v)
  <2> DEFINE v == k.v
             x == v[i]
  <2>1. i \in 1 .. Len(v) /\ p \in Bytes(x)
    <3>1. /\ i \in 1 .. Len(v) /\ x.pos \in Nat /\ end(x) \in Nat /\ x.pos <= p /\ p < end(x)
      <4>1. /\ v[i].pos \in Nat /\ end(v[i]) \in Nat /\ c.pos \in Nat /\ end(c) \in Nat
            /\ v[i].pos <= c.pos /\ c.pos < end(c) /\ end(c) <= end(v[i]) /\ i \in 1 .. Len(v)
          BY Zenon, ChunkInBlock
      <4>. QED  BY <4>1 DEF p
    <3> HIDE DEF x
    <3>. QED  BY <1>4, <3>1 DEF Bytes
  <2>2. Holds(BlocksOf(v), p, x.st)
      BY Zenon, <2>1 DEF Holds, BlocksOf
  <2>3. \E t : Holds(BlocksOf(w.v), p, t)
      BY Zenon, <1>10, <2>2 DEF CheckedMap, v
  <2>4. Memory(w.v)
      BY Zenon, <1>9 DEF InMap
  <2>. QED  BY Zenon, <2>3, <2>4, HoldsIsVector
<1>. QED  BY Zenon, <1>9, <1>10, <1>11, <1>12 DEF w, mode

\* What is marked, and why.
LEMMA MarkedIsNear ==
  ASSUME IsFile(outfile), NEW c, c.pos \in Nat, NEW n \in Nat,
         n > 0 => c.pos + n <= FileSize(outfile)
  PROVE  /\ \A a \in c.pos .. c.pos + n - 1 : outfile[a] # "zero" => Marked(a, c, n)
         /\ \A a : Marked(a, c, n) =>
              /\ a \in c.pos .. c.pos + n - 1
              /\ \E q \in DOMAIN outfile : /\ outfile[q] # "zero"
                                           /\ a - q \in 1 - HardBS .. HardBS - 1
<1> DEFINE sec == Sectors(c, n)
           p == c.pos
           e == p + n
           z == FileSize(outfile)
           h == HardBS
<1>1. h \in Nat /\ h > 0 /\ z \in Nat /\ DOMAIN outfile = 0 .. z - 1
      /\ p \in Nat /\ e \in Nat /\ p <= e
      /\ (p < e => e <= z)
  <2>1. FileSize(outfile) \in Nat
      BY FS_CardinalityType DEF IsFile, FileSize
  <2>2. DOMAIN outfile = 0 .. z - 1
      BY DEF IsFile
  <2>3. h \in Nat /\ h > 0
      BY SizesAssumption
  <2>. QED  BY <2>1, <2>2, <2>3
<1>2. PICK m, at : SectorsAt(sec, m, at, p, e)
    BY Zenon, <1>1, SectorsAre
<1> HIDE DEF z, e
<1>3. m \in Nat /\ DOMAIN sec = 1 .. m /\ at[0] = p /\ at[m] = e
      /\ \A j \in 0 .. m : at[j] \in Nat /\ p <= at[j] /\ at[j] <= e
    BY Zenon, <1>2 DEF SectorsAt
<1>4. \A j \in 1 .. m : /\ at[j - 1] < at[j] /\ at[j] <= at[j - 1] + h
                        /\ sec[j] = [pos |-> at[j - 1], size |-> at[j] - at[j - 1]]
    BY Zenon, <1>2 DEF SectorsAt
<1> HIDE DEF sec, h
<1>5. ASSUME NEW j \in 1 .. m
      PROVE  Bytes(sec[j]) = at[j - 1] .. at[j] - 1
             /\ sec[j].pos .. end(sec[j]) - 1 = at[j - 1] .. at[j] - 1
             /\ at[j - 1] \in Nat /\ at[j] \in Nat /\ at[j] <= at[j - 1] + h
             /\ p <= at[j - 1] /\ at[j] <= e
  <2>1. j - 1 \in 0 .. m /\ j \in 0 .. m
      BY <1>3
  <2> DEFINE x == sec[j]
             f == at[j - 1]
             g == at[j]
  <2>2. f \in Nat /\ g \in Nat /\ g <= f + h /\ p <= f /\ g <= e
        /\ x = [pos |-> f, size |-> g - f]
      BY Zenon, <1>3, <1>4, <2>1
  <2> HIDE DEF x, f, g
  <2>3. x.pos = f /\ end(x) = g
      BY <2>2 DEF end
  <2>4. Bytes(x) = f .. g - 1
      BY Zenon, <2>3 DEF Bytes
  <2>. QED  BY Zenon, <2>2, <2>3, <2>4 DEF x, f, g
<1>6. ASSUME NEW a \in p .. e - 1, outfile[a] # "zero"  PROVE  Marked(a, c, n)
  <2> DEFINE S == {j \in 0 .. m : a < at[j]}
  <2>1. m \in S
      BY <1>1, <1>3
  <2>2. S \in SUBSET Nat
      BY <1>3
  <2> DEFINE j == Min(S)
  <2>3. j \in S /\ \A x \in S : j <= x
      BY <2>1, <2>2, MinExists
  <2> HIDE DEF j
  <2>4. j \in 0 .. m /\ a < at[j] /\ j # 0
      BY <1>1, <1>3, <2>3
  <2>5. j \in 1 .. m /\ j - 1 \in 0 .. m /\ j - 1 \notin S
      BY <1>3, <2>3, <2>4
  <2>6. at[j - 1] \in Nat /\ ~(a < at[j - 1])
      BY <1>3, <2>5
  <2>7. a \in at[j - 1] .. at[j] - 1
    <3>1. at[j] \in Nat /\ a \in Int
        BY <1>1, <1>3, <2>4
    <3> DEFINE f == at[j - 1]
               g == at[j]
    <3>2. f \in Nat /\ g \in Nat /\ a \in Int /\ a < g /\ ~(a < f)
        BY <2>4, <2>6, <3>1
    <3> HIDE DEF f, g
    <3>3. a \in f .. g - 1
        BY <3>2
    <3>. QED  BY <3>3 DEF f, g
  <2>8. a \in Bytes(sec[j]) /\ a \in sec[j].pos .. end(sec[j]) - 1
      BY Zenon, <1>5, <2>5, <2>7
  <2>9. ~block_is_zero(sec[j])
      BY Zenon, <1>6, <2>8 DEF block_is_zero
  <2>. QED  BY Zenon, <1>3, <2>5, <2>8, <2>9 DEF Marked, sec
<1>7. ASSUME NEW a, Marked(a, c, n)
      PROVE  /\ a \in p .. e - 1
             /\ \E q \in DOMAIN outfile : outfile[q] # "zero" /\ a - q \in 1 - h .. h - 1
  <2>1. PICK j \in 1 .. m : a \in Bytes(sec[j]) /\ ~block_is_zero(sec[j])
      BY Zenon, <1>3, <1>7 DEF Marked, sec
  <2>2. PICK q \in sec[j].pos .. end(sec[j]) - 1 : outfile[q] # "zero"
      BY Zenon, <2>1 DEF block_is_zero
  <2> DEFINE f == at[j - 1]
             g == at[j]
  <2>3. /\ a \in f .. g - 1 /\ q \in f .. g - 1 /\ f \in Nat /\ g \in Nat /\ g <= f + h
        /\ p <= f /\ g <= e
      BY Zenon, <1>5, <2>1, <2>2
  <2> HIDE DEF f, g
  <2>4. a \in p .. e - 1 /\ q \in 0 .. z - 1 /\ a - q \in 1 - h .. h - 1
      BY <1>1, <2>3
  <2>. QED  BY Zenon, <1>1, <2>2, <2>4
<1>8. \A a \in p .. e - 1 : outfile[a] # "zero" => Marked(a, c, n)
    BY Zenon, <1>6
<1>9. \A a : Marked(a, c, n) =>
        /\ a \in p .. e - 1
        /\ \E q \in DOMAIN outfile : outfile[q] # "zero" /\ a - q \in 1 - h .. h - 1
    BY Zenon, <1>7
<1>10. p .. e - 1 = c.pos .. c.pos + n - 1
    BY DEF e, p
<1> DEFINE S == c.pos .. c.pos + n - 1
<1> HIDE DEF S
<1>11. p .. e - 1 = S
    BY Zenon, <1>10 DEF S
<1>12. \A a \in S : outfile[a] # "zero" => Marked(a, c, n)
    BY Zenon, <1>8, <1>11
<1>13. ASSUME NEW a, Marked(a, c, n)
       PROVE  /\ a \in S
              /\ \E q \in DOMAIN outfile : /\ outfile[q] # "zero"
                                           /\ a - q \in 1 - HardBS .. HardBS - 1
    BY Zenon, <1>9, <1>13, <1>11 DEF h
<1>. QED  BY Zenon, <1>12, <1>13 DEF S

-----------------------------------------------------------------------------
(***************************************************************************)
(* Generate mode: its steps.                                               *)
(***************************************************************************)

\* A block of any size, made at a position.
LEMMA MadeFits ==
  ASSUME NEW p \in 0 .. LLONG_MAX, NEW n \in Nat
  PROVE  LET x == assign(p, n)
         IN  Fits(x) /\ x.pos = p /\ (x.size > 0 <=> n > 0 /\ p < LLONG_MAX)
<1> DEFINE x == assign(p, n)
           room == LLONG_MAX - p
<1>1. LLONG_MAX \in Nat /\ p \in Nat /\ p <= LLONG_MAX /\ n \in Int /\ n \in Nat
    BY LimitAssumption
<1>2. x = [pos |-> p, size |-> IF n < 0 \/ n > room THEN room ELSE n]
    BY Zenon, <1>1, MadeBlock
<1> HIDE DEF x
<1>. QED  BY <1>1, <1>2 DEF Fits, IsChunk, end, x

\* A run of these modes starts.
LEMMA OtherRunStarts ==
  ASSUME ModesInv, NEW j, j.mode \in {"generate", "commands"}, NEW k, Loaded(k, j.mode),
         NEW x, Fits(x), NEW resumed, Start(j, k, x, resumed), GoodMap(mapfile')
  PROVE  ModesInv'
<1>1. pc' = j.mode /\ job' = j /\ book' = k /\ b' = x /\ outfile' = outfile /\ j.mode # "fill"
    BY DEF Start
<1>2. RunOk(j.mode, j, k)
    BY DEF RunOk
<1>3. FillOk(j.mode, j, k, mapfile', area', x)
    BY Zenon, <1>1 DEF FillOk
<1>4. IsFile(outfile)
    BY Zenon DEF ModesInv
<1>. QED  BY Zenon, <1>1, <1>2, <1>3, <1>4 DEF ModesInv

LEMMA StartGenerateKeeps == ASSUME ModesInv, StartGenerate  PROVE  ModesInv'
<1> DEFINE f == FALSE
<1>1. f \in BOOLEAN /\ (f <=> FALSE)
    OBVIOUS
<1> DEFINE n == FileSize(Input)
<1>2. n \in 0 .. LLONG_MAX
  <2>1. n \in Nat /\ n <= LLONG_MAX
      BY InputAssumption, FS_CardinalityType DEF IsFile, FileSize
  <2> HIDE DEF n
  <2>. QED  BY <2>1, LimitAssumption
<1>3. PICK d \in Domains : \E file \in {Load(d, n, FALSE, f)} :
        LET bk == file.book
            p  == IF ResumesAt(bk) THEN bk.pos ELSE 0
        IN  /\ file.ok
            /\ Start([mode |-> "generate", domain |-> d], bk, assign(p, SoftBS),
                     ResumesAt(bk) \/ ~blank(bk.v))
            /\ UNCHANGED mapfile
    BY Zenon DEF StartGenerate
<1> HIDE DEF f, n
<1> DEFINE file == Load(d, n, FALSE, f)
           bk == file.book
           p == IF ResumesAt(bk) THEN bk.pos ELSE 0
           j == [mode |-> "generate", domain |-> d]
           resumed == ResumesAt(bk) \/ ~blank(bk.v)
<1>4. /\ file.ok /\ mapfile' = mapfile
      /\ Start(j, bk, assign(p, SoftBS), resumed)
    BY Zenon, <1>3
<1> HIDE DEF resumed
<1>5. IsRunDomain(d)
    BY FilesAssumption
<1>6. GoodMap(mapfile)
    BY Zenon DEF ModesInv
<1>7. j.mode = "generate"
    OBVIOUS
<1> HIDE DEF j
<1>8. file = Load(d, n, FALSE, f)
    OBVIOUS
<1> HIDE DEF file
<1>9. "generate" # "fill"
    OBVIOUS
<1>10. Loaded(bk, "generate")
    BY Zenon, <1>1, <1>2, <1>4, <1>5, <1>6, <1>8, <1>9, LoadsMap
<1>11. p \in 0 .. LLONG_MAX
  <2>1. bk.pos \in 0 .. LLONG_MAX
      BY <1>10, LimitAssumption DEF Loaded, IsBook
  <2>. QED  BY <2>1, LimitAssumption
<1> HIDE DEF bk, p
<1>12. SoftBS \in Nat
    BY SizesAssumption
<1>13. Fits(assign(p, SoftBS))
    BY Zenon, <1>11, <1>12, MadeFits
<1>14. j.mode \in {"generate", "commands"} /\ Loaded(bk, j.mode)
    BY <1>7, <1>10
<1>15. GoodMap(mapfile')
    BY Zenon, <1>4, <1>6
<1> DEFINE x == assign(p, SoftBS)
<1>16. Start(j, bk, x, resumed) /\ Fits(x)
    BY Zenon, <1>4, <1>13
<1> HIDE DEF x
<1>. QED  BY <1>14, <1>15, <1>16, OtherRunStarts

\* What is found lies in a block of the map.
LEMMA FoundIs ==
  ASSUME ModesInv, pc = "generate"
  PROVE  LET f == Found
         IN  /\ job.mode = "generate" /\ IsChunk(f.b)
             /\ f.b.size > 0 =>
                  /\ HasChunk(book.v, book.domain, f.index, f.b) /\ f.b.pos \in 0 .. LLONG_MAX
                  /\ end(f.b) <= LLONG_MAX
                  /\ Loaded(AtChunk(f), "generate") /\ AtChunk(f).v = book.v
                  /\ AtChunk(f).domain = book.domain /\ AtChunk(f).pos = f.b.pos
                  /\ AtChunk(f).status = "generating"
<1> DEFINE f == Found
           x == f.b
           F == FALSE
<1>1. job.mode = "generate" /\ pc # "none" /\ job.mode # "fill"
    BY DEF ModesInv, RunOk
<1>2. /\ Loaded(book, "generate") /\ Memory(book.v) /\ book.index \in Int /\ IsChunk(b)
      /\ IsDomain(book.domain) /\ SplitFrom(BlocksOf(book.v), book.domain, 1)
    BY Zenon, <1>1, WhileInMap
<1>3. HardBS \in Nat \ {0}
    BY SizesAssumption
<1>4. f = find_chunk(book.v, book.index, b, "non_tried", book.domain, HardBS, F, F)
    BY Zenon DEF Found
<1> HIDE DEF F, f
<1>5. /\ f.index \in Int /\ IsChunk(x)
      /\ x.size > 0 => /\ IsVector(book.v) /\ f.index \in 1 .. Len(book.v)
                       /\ InDomain(book.domain, book.v[f.index]) /\ includes(book.v[f.index], x)
    BY <1>2, <1>3, <1>4, FoundInMemory
<1>6. ASSUME x.size > 0
      PROVE  /\ HasChunk(book.v, book.domain, f.index, x) /\ x.pos \in 0 .. LLONG_MAX
             /\ end(x) <= LLONG_MAX
             /\ Loaded(AtChunk(f), "generate") /\ AtChunk(f).v = book.v
             /\ AtChunk(f).domain = book.domain /\ AtChunk(f).pos = x.pos
             /\ AtChunk(f).status = "generating"
  <2>1. HasChunk(book.v, book.domain, f.index, x)
      BY Zenon, <1>2, <1>5, <1>6 DEF HasChunk
  <2>2. /\ x.pos \in Nat /\ x.size \in Nat /\ end(x) = x.pos + x.size
        /\ end(x) <= LLONG_MAX /\ LLONG_MAX \in Nat
      BY Zenon, <2>1, HasRest
  <2>3. x.pos \in 0 .. LLONG_MAX
      BY <2>2
  <2>4. "generate" # "fill"
      OBVIOUS
  <2>. QED  BY Zenon, <1>2, <1>5, <2>1, <2>2, <2>3, <2>4, BookGenerating
<1>. QED  BY Zenon, <1>1, <1>5, <1>6 DEF f

LEMMA AllCheckedKeeps == ASSUME ModesInv, AllChecked  PROVE  ModesInv'
<1>1. /\ job.mode = "generate" /\ pc # "none" /\ job.mode # "fill" /\ pc' = "end"
      /\ job' = job /\ book' = book /\ b' = b /\ mapfile' = mapfile /\ outfile' = outfile
    BY DEF ModesInv, RunOk, AllChecked, Leave, disc
<1>2. Loaded(book, job.mode) /\ GoodMap(mapfile) /\ IsFile(outfile) /\ Fits(b)
    BY Zenon, <1>1, WhileInMap
<1>3. pc' \in {"generate", "end"}
    BY <1>1
<1>. QED  BY <1>1, <1>2, <1>3, OtherKeeps

LEMMA GenerateInterruptedKeeps == ASSUME ModesInv, GenerateInterrupted  PROVE  ModesInv'
<1>1. /\ job.mode = "generate" /\ pc # "none" /\ job.mode # "fill" /\ pc' = "end"
      /\ job' = job /\ b' = b /\ mapfile' = mapfile /\ outfile' = outfile
    BY DEF ModesInv, RunOk, GenerateInterrupted, Interrupted, Leave, disc
<1>2. GoodMap(mapfile) /\ IsFile(outfile) /\ Fits(b)
    BY Zenon, <1>1, WhileInMap
<1>3. pc' \in {"generate", "end"}
    BY <1>1
<1>4. pc = "generate" /\ Found.b.size > 0 /\ book' = AtChunk(Found)
    BY Zenon DEF GenerateInterrupted
<1>5. Loaded(AtChunk(Found), "generate")
    BY Zenon, <1>4, FoundIs
<1>6. Loaded(book', job.mode)
    BY Zenon, <1>1, <1>4, <1>5
<1>. QED  BY <1>1, <1>2, <1>3, <1>6, OtherKeeps

\* What a step that checks chunk c, of which r was read, makes of the map.
CheckedUpTo(w, v, c, n, e) ==
  \A a, t : Holds(BlocksOf(w), a, t) <=>
              a < e /\ IF Marked(a, c, n) THEN t = "finished" ELSE Holds(BlocksOf(v), a, t)
ChecksRead(w, v, c, r, goesOn) ==
  LET upTo == c.pos + r.copied + r.error
  IN  \/ CheckedMap(w, v, c, r.copied) /\ (goesOn => ~(upTo < end(c)))
      \/ upTo < end(c) /\ CheckedUpTo(w, v, c, r.copied, upTo)

LEMMA ReadIsChecked ==
  ASSUME NEW k, Loaded(k, "generate"), NEW i, NEW c, HasChunk(k.v, k.domain, i, c),
         NEW r, IsRead(r, c), NEW short, short <=> c.pos + r.copied + r.error < end(c)
  PROVE  LET bk  == check_block(k, c, r.copied)
             cut == truncate_vector(bk.v, c.pos + r.copied + r.error, FALSE)
             l   == IF short THEN [bk EXCEPT !.v = cut.v] ELSE bk
         IN  /\ Loaded(l, "generate") /\ SameRun(l, k)
             /\ ChecksRead(l.v, k.v, c, r, ~(short /\ ~cut.ok))
<1> DEFINE n    == r.copied
           e    == c.pos + r.copied + r.error
           bk   == check_block(k, c, n)
           no   == FALSE
           cut  == truncate_vector(bk.v, e, no)
           l    == IF short THEN [bk EXCEPT !.v = cut.v] ELSE bk
           goes == ~(short /\ ~cut.ok)
<1> HIDE DEF no
<1>1. n \in Nat /\ n <= c.size /\ e \in Nat /\ c.pos \in Nat
  <2>1. c.pos \in Nat /\ c.size \in Nat
      BY Zenon, HasRest
  <2>. QED  BY <2>1 DEF IsRead
<1>2. Loaded(bk, "generate") /\ SameRun(bk, k) /\ IsVector(bk.v) /\ CheckedMap(bk.v, k.v, c, n)
    BY Zenon, <1>1, ChunkIsChecked
<1> HIDE DEF n, e, bk
<1>3. CASE ~short
  <2>1. l = bk /\ goes
      BY <1>3
  <2>2. ChecksRead(l.v, k.v, c, r, goes)
      BY Zenon, <1>2, <1>3, <2>1 DEF ChecksRead, n
  <2>. QED  BY Zenon, <1>2, <2>1, <2>2 DEF bk, n, e, no
<1>4. CASE short
  <2>1. InMap(bk.v, bk.domain)
      BY <1>2, LoadedIsBook
  <2>2. /\ InMap(cut.v, bk.domain)
        /\ ~cut.ok => cut.v = bk.v
        /\ cut.ok => \A p, t : Holds(BlocksOf(cut.v), p, t) <=> Holds(BlocksOf(bk.v), p, t) /\ p < e
      BY Zenon, <1>1, <1>2, <2>1, CutOff
  <2> HIDE DEF cut
  <2>3. l = [bk EXCEPT !.v = cut.v]
      BY <1>4
  <2>4. "generate" # "fill"
      OBVIOUS
  <2>5. Loaded(l, "generate") /\ l.v = cut.v /\ SameRun(l, bk)
      BY Zenon, <1>2, <2>2, <2>3, <2>4, BookWithMap
  <2>6. SameRun(l, k)
      BY Zenon, <1>2, <2>5 DEF SameRun
  <2>7. ChecksRead(l.v, k.v, c, r, goes)
    <3>1. CASE cut.ok
      <4>1. CheckedUpTo(cut.v, k.v, c, n, e)
          BY Zenon, <1>2, <2>2, <3>1 DEF CheckedUpTo, CheckedMap
      <4>. QED  BY Zenon, <1>4, <2>5, <4>1 DEF ChecksRead, n, e
    <3>2. CASE ~cut.ok
      <4>1. CheckedMap(l.v, k.v, c, n) /\ ~goes
          BY Zenon, <1>2, <1>4, <2>2, <2>5, <3>2
      <4>. QED  BY Zenon, <4>1 DEF ChecksRead, n
    <3>. QED  BY <3>1, <3>2
  <2>. QED  BY Zenon, <2>5, <2>6, <2>7 DEF bk, n, e, no, cut
<1>. QED  BY <1>3, <1>4

\* A book in memory can be saved.
LEMMA SavedIsGood ==
  ASSUME NEW l, NEW mode, Loaded(l, mode)  PROVE  GoodMap(Saved(l))
<1>1. (Chain(l.v) \/ Memory(l.v)) /\ l.pos \in 0 .. LLONG_MAX
    BY LimitAssumption DEF Loaded, IsBook
<1>2. IsMapLines(l.v)
    BY Zenon, <1>1, CanBeSaved
<1>3. Saved(l).lines = l.v /\ Saved(l).pos = l.pos
    BY DEF Saved
<1>. QED  BY Zenon, <1>1, <1>2, <1>3 DEF GoodMap

LEMMA CheckIs ==
  ASSUME ModesInv, CheckChunk
  PROVE  LET c == Found.b
             l == book'
         IN  /\ pc = "generate" /\ job.mode = "generate" /\ c.size > 0
             /\ job' = job /\ outfile' = outfile /\ IsFile(outfile)
             /\ Loaded(l, "generate") /\ l.domain = book.domain /\ l.status = "generating"
             /\ l.pos = c.pos
             /\ mapfile' = mapfile \/ mapfile' = Saved(l)
             /\ \E r \in readblockp(outfile, c) :
                  LET from == c.pos + r.copied
                  IN  /\ IsRead(r, c)
                      /\ series' = [series EXCEPT !.failed = @ \cup from .. from + r.error - 1]
                      /\ ChecksRead(l.v, book.v, c, r, pc' = "generate")
             /\ \/ pc' = "generate" /\ b' = assign(end(c), SoftBS) /\ retval' = retval
                \/ pc' = "end" /\ b' = b /\ retval' \in {"error", "unsaved"}
<1> DEFINE F == FALSE
           f == Found
           c == f.b
           k == AtChunk(f)
<1>1. pc = "generate" /\ job' = job /\ outfile' = outfile
    BY Zenon DEF CheckChunk
<1>2. IsFile(outfile) /\ GoodMap(mapfile)
    BY Zenon DEF ModesInv
<1> HIDE DEF F
<1> DEFINE Step(g, x, r) ==
             LET upTo  == x.pos + r.copied + r.error
                 short == upTo < end(x)
             IN  /\ x.size > 0
                 /\ series' = [series EXCEPT !.failed = @ \cup x.pos + r.copied .. upTo - 1]
                 /\ \E bk \in {check_block(AtChunk(g), x, r.copied)} :
                    \E cut \in {truncate_vector(bk.v, upTo, F)} :
                      /\ book' = IF short THEN [bk EXCEPT !.v = cut.v] ELSE bk
                      /\ IF short /\ ~cut.ok THEN Leave("error") /\ UNCHANGED <<mapfile, b>>
                         ELSE \E save \in update_mapfile(book', F) :
                                /\ mapfile' = save.mapfile
                                /\ IF save.ok
                                   THEN b' = assign(end(x), SoftBS) /\ UNCHANGED <<pc, retval>>
                                   ELSE Leave("unsaved") /\ UNCHANGED b
<1>3. PICK r \in readblockp(outfile, c) : Step(f, c, r)
  <2>1. \E g \in {f} : \E x \in {g.b} : \E r \in readblockp(outfile, x) : Step(g, x, r)
      BY Zenon DEF CheckChunk, F
  <2> HIDE DEF Step, f
  <2>. QED  BY <2>1
<1> DEFINE upTo  == c.pos + r.copied + r.error
           short == upTo < end(c)
           bk    == check_block(k, c, r.copied)
           cut   == truncate_vector(bk.v, upTo, F)
           l     == book'
           stops == short /\ ~cut.ok
<1>4. /\ c.size > 0
      /\ series' = [series EXCEPT !.failed = @ \cup c.pos + r.copied .. upTo - 1]
      /\ l = IF short THEN [bk EXCEPT !.v = cut.v] ELSE bk
      /\ IF stops THEN Leave("error") /\ UNCHANGED <<mapfile, b>>
         ELSE \E save \in update_mapfile(l, F) :
                /\ mapfile' = save.mapfile
                /\ IF save.ok
                   THEN b' = assign(end(c), SoftBS) /\ UNCHANGED <<pc, retval>>
                   ELSE Leave("unsaved") /\ UNCHANGED b
    BY Zenon, <1>3
<1>5. /\ job.mode = "generate" /\ HasChunk(book.v, book.domain, f.index, c)
      /\ Loaded(k, "generate") /\ k.v = book.v /\ k.domain = book.domain
      /\ k.pos = c.pos /\ k.status = "generating"
    BY Zenon, <1>1, <1>4, FoundIs
<1>6. c.pos \in Nat /\ c.size \in Nat
    BY Zenon, <1>5, HasRest
<1>7. IsRead(r, c)
    BY Zenon, <1>2, <1>6, ReadsChunk
<1>8. HasChunk(k.v, k.domain, f.index, c)
    BY Zenon, <1>5
<1> HIDE DEF k, c, f
<1>9. Loaded(l, "generate") /\ SameRun(l, k) /\ ChecksRead(l.v, k.v, c, r, ~stops)
    BY <1>4, <1>5, <1>7, <1>8, ReadIsChecked DEF F
<1> HIDE DEF bk, cut, l, stops
<1>10. l.domain = book.domain /\ l.status = "generating" /\ l.pos = c.pos
    BY Zenon, <1>5, <1>9 DEF SameRun
<1>11. GoodMap(Saved(l)) /\ (mapfile' = mapfile \/ mapfile' = Saved(l))
       /\ \/ pc' = "generate" /\ b' = assign(end(c), SoftBS) /\ retval' = retval /\ ~stops
          \/ pc' = "end" /\ b' = b /\ retval' \in {"error", "unsaved"}
  <2>1. GoodMap(Saved(l))
      BY Zenon, <1>9, SavedIsGood
  <2>2. CASE stops
      BY <1>4, <2>1, <2>2 DEF Leave
  <2>3. CASE ~stops
    <3>1. PICK save \in update_mapfile(l, F) :
            /\ mapfile' = save.mapfile
            /\ IF save.ok
               THEN b' = assign(end(c), SoftBS) /\ UNCHANGED <<pc, retval>>
               ELSE Leave("unsaved") /\ UNCHANGED b
        BY Zenon, <1>4, <2>3
    <3>2. save.mapfile = mapfile \/ save.mapfile = Saved(l)
        BY DEF update_mapfile
    <3>3. mapfile' = mapfile \/ mapfile' = Saved(l)
        BY Zenon, <3>1, <3>2
    <3>4. \/ pc' = "generate" /\ b' = assign(end(c), SoftBS) /\ retval' = retval
          \/ pc' = "end" /\ b' = b /\ retval' \in {"error", "unsaved"}
        BY <1>1, <3>1 DEF Leave
    <3>. QED  BY Zenon, <2>1, <2>3, <3>3, <3>4
  <2>. QED  BY <2>2, <2>3
<1>12. ChecksRead(l.v, book.v, c, r, pc' = "generate")
  <2>1. pc' = "generate" => ~stops
      BY <1>11
  <2>. QED  BY Zenon, <1>5, <1>9, <2>1 DEF ChecksRead
<1>13. series' = [series EXCEPT !.failed = @ \cup c.pos + r.copied .. c.pos + r.copied + r.error - 1]
  <2>1. c.pos + r.copied + r.error - 1 = upTo - 1
      BY <1>6, <1>7 DEF IsRead
  <2>. QED  BY <1>4, <2>1
<1>. QED  BY Zenon, <1>1, <1>2, <1>4, <1>5, <1>7, <1>9, <1>10, <1>11, <1>12, <1>13 DEF f, c, l

LEMMA CheckChunkKeeps == ASSUME ModesInv, CheckChunk  PROVE  ModesInv'
<1> DEFINE c == Found.b
           l == book'
<1>1. /\ pc = "generate" /\ job.mode = "generate" /\ c.size > 0
      /\ job' = job /\ outfile' = outfile /\ IsFile(outfile)
      /\ Loaded(l, "generate") /\ l.pos = c.pos
      /\ mapfile' = mapfile \/ mapfile' = Saved(l)
      /\ \/ pc' = "generate" /\ b' = assign(end(c), SoftBS)
         \/ pc' = "end" /\ b' = b
    BY Zenon, CheckIs
<1>2. end(c) <= LLONG_MAX /\ IsChunk(c)
    BY Zenon, <1>1, FoundIs
<1> HIDE DEF c, l
<1>3. end(c) \in 0 .. LLONG_MAX /\ SoftBS \in Nat
    BY <1>2, LimitAssumption, SizesAssumption DEF IsChunk, end
<1>4. Fits(b')
  <2>1. Fits(assign(end(c), SoftBS))
      BY Zenon, <1>3, MadeFits
  <2>. QED  BY Zenon, <1>1, <2>1 DEF ModesInv
<1>5. GoodMap(mapfile')
  <2>1. GoodMap(mapfile)
      BY Zenon DEF ModesInv
  <2>2. GoodMap(Saved(l))
      BY Zenon, <1>1, SavedIsGood
  <2>. QED  BY Zenon, <1>1, <2>1, <2>2
<1>6. IsFile(outfile')
    BY Zenon, <1>1
<1>7. pc' \in {"generate", "end"} /\ Loaded(book', job.mode) /\ job.mode # "fill"
    BY <1>1 DEF l
<1>. QED  BY <1>1, <1>4, <1>5, <1>6, <1>7, OtherKeeps

-----------------------------------------------------------------------------
(***************************************************************************)
(* Command mode: its steps.                                                *)
(***************************************************************************)

\* A chunk cut off at e.
CutChunk(c, e) ==
  IF c.pos >= e THEN NoBlock ELSE IF end(c) > e THEN set_size(c, e - c.pos) ELSE c

LEMMA CutChunkIs ==
  ASSUME NEW c, IsChunk(c), end(c) <= LLONG_MAX \/ c.size = 0, NEW e \in Nat
  PROVE  LET x == CutChunk(c, e)
         IN  /\ IsChunk(x)
             /\ x.size > 0 <=> c.size > 0 /\ c.pos < e
             /\ x.size > 0 => x.pos = c.pos /\ end(x) = min(end(c), e) /\ end(x) <= e
                              /\ end(x) <= end(c)
<1> DEFINE x == CutChunk(c, e)
<1>1. c.pos \in Nat /\ c.size \in Nat /\ e \in Nat /\ LLONG_MAX \in Nat
      /\ c = [pos |-> c.pos, size |-> c.size]
    BY LimitAssumption DEF IsChunk
<1>2. CASE c.pos >= e
    BY <1>1, <1>2 DEF CutChunk, NoBlock, IsChunk
<1>3. CASE ~(c.pos >= e) /\ ~(end(c) > e)
    BY <1>1, <1>3 DEF CutChunk, IsChunk, end, min, BM!Smaller
<1>4. CASE ~(c.pos >= e) /\ end(c) > e
  <2> DEFINE n == e - c.pos
  <2>1. n \in Nat /\ n > 0 /\ n <= LLONG_MAX - c.pos /\ n < c.size
      BY <1>1, <1>4 DEF end
  <2>2. x = fix_size([c EXCEPT !.size = n])
      BY Zenon, <1>4 DEF CutChunk, set_size
  <2> HIDE DEF n, x
  <2>3. x = [pos |-> c.pos, size |-> n]
      BY <1>1, <2>1, <2>2 DEF fix_size
  <2>4. x.pos = c.pos /\ x.size = n /\ IsChunk(x)
      BY <1>1, <2>1, <2>3 DEF IsChunk
  <2>5. end(x) = e
      BY <1>1, <2>4 DEF end, n
  <2>. QED  BY <1>1, <1>4, <2>1, <2>4, <2>5 DEF x, end, min, BM!Smaller
<1>. QED  BY <1>2, <1>3, <1>4

\* What find_chunk returns is a record of three fields.
LEMMA FoundRecord ==
  ASSUME NEW v, NEW index, NEW x, NEW s, NEW d, NEW a, NEW edge, NEW unfinished
  PROVE  LET r == find_chunk(v, index, x, s, d, a, edge, unfinished)
         IN  r = [found |-> r.found, b |-> r.b, index |-> r.index]
<1> DEFINE c    == IF x.pos < Head(v).pos THEN set_pos(x, Head(v).pos) ELSE x
           cand(i0) == {i \in i0 .. Len(v) :
                          /\ v[i].st = s \/ (unfinished /\ v[i].st # "finished")
                          /\ InDomain(d, v[i])}
           good(I) == {i \in I : edge /\ i > 1 => v[i - 1].st = "finished"}
           chunk(i) == [found |-> TRUE, index |-> i,
                        b |-> AlignedEnd(PartFrom(c, v[i]), v[i], a)]
           found(i0, I) ==
             IF i0 = 0 THEN [found |-> FALSE, b |-> NoChunk(c), index |-> 0]
             ELSE IF good(I) = {} THEN [found |-> I # {}, b |-> NoChunk(c), index |-> i0]
             ELSE chunk(Min(good(I)))
           from(i0) == found(i0, cand(i0))
           r  == find_chunk(v, index, x, s, d, a, edge, unfinished)
           i0 == find_index(v, index, c.pos)
           Is(g) == g = [found |-> g.found, b |-> g.b, index |-> g.index]
<1>0. \A t, y, z : Is([found |-> t, b |-> y, index |-> z]) /\ Is([found |-> t, index |-> z, b |-> y])
    OBVIOUS
<1> HIDE DEF Is
<1>1. r = IF x.size <= 0 THEN [found |-> FALSE, b |-> x, index |-> index] ELSE from(i0)
    BY Zenon DEF find_chunk
<1>2. Is([found |-> FALSE, b |-> x, index |-> index])
    BY Zenon, <1>0
<1>3. \A i : Is(chunk(i))
    BY Zenon, <1>0
<1> HIDE DEF chunk
<1>4. \A i, I : Is(found(i, I))
  <2> TAKE i, I
  <2>1. CASE i = 0
      BY Zenon, <1>0, <2>1
  <2>2. CASE i # 0 /\ good(I) = {}
      BY Zenon, <1>0, <2>2
  <2>3. CASE i # 0 /\ good(I) # {}
      BY Zenon, <1>3, <2>3
  <2>. QED  BY <2>1, <2>2, <2>3
<1> HIDE DEF found
<1>5. Is(r)
  <2>1. CASE x.size <= 0
      BY Zenon, <1>1, <1>2, <2>1
  <2>2. CASE ~(x.size <= 0)
      BY Zenon, <1>1, <1>4, <2>2
  <2>. QED  BY <2>1, <2>2
<1>. QED  BY Zenon, <1>5 DEF Is

\* The next chunk to copy.
LEMMA NextChunkIs ==
  ASSUME ModesInv, pc = "copy"
  PROVE  LET f == Chunk(b.pos, end(b))
         IN  /\ job.mode = "commands" /\ f.index \in Int /\ IsChunk(f.b)
             /\ f.b.size > 0 =>
                  /\ HasChunk(book.v, book.domain, f.index, f.b)
                  /\ end(f.b) <= LLONG_MAX /\ end(f.b) <= end(b)
<1> DEFINE F == FALSE
           T == TRUE
           y == assign(b.pos, SoftBS)
           g == find_chunk(book.v, book.index, y, "non_tried", book.domain, SoftBS, F, T)
           e == end(b)
           f == Chunk(b.pos, e)
<1>1. job.mode = "commands" /\ pc # "none" /\ job.mode # "fill"
    BY DEF ModesInv, RunOk
<1>2. /\ Memory(book.v) /\ book.index \in Int /\ Fits(b)
      /\ IsDomain(book.domain) /\ SplitFrom(BlocksOf(book.v), book.domain, 1)
    BY Zenon, <1>1, WhileInMap
<1>3. SoftBS \in Nat \ {0} /\ SoftBS \in Nat /\ b.pos \in 0 .. LLONG_MAX /\ e \in Nat
    BY <1>2, SizesAssumption, LimitAssumption DEF Fits, IsChunk, end
<1>4. IsChunk(y)
    BY Zenon, <1>3, MadeFits DEF Fits
<1>5. f = [g EXCEPT !.b = CutChunk(@, e)]
    BY Zenon DEF Chunk, CutChunk
<1> HIDE DEF y, F, T
<1>6. /\ g.index \in Int /\ IsChunk(g.b)
      /\ g.b.size > 0 => /\ IsVector(book.v) /\ g.index \in 1 .. Len(book.v)
                         /\ InDomain(book.domain, book.v[g.index])
                         /\ includes(book.v[g.index], g.b)
    BY <1>2, <1>3, <1>4, FoundInMemory
<1>7. f.index = g.index /\ f.b = CutChunk(g.b, e)
  <2>1. g = [found |-> g.found, b |-> g.b, index |-> g.index]
      BY Zenon, FoundRecord
  <2> HIDE DEF g, f, e
  <2>. QED  BY <1>5, <2>1
<1> DEFINE c == f.b
<1> HIDE DEF g, f, e
<1>8. g.b.size > 0 => HasChunk(book.v, book.domain, g.index, g.b)
    BY Zenon, <1>2, <1>6 DEF HasChunk
<1>9. end(g.b) <= LLONG_MAX \/ g.b.size = 0
  <2>1. g.b.size > 0 => end(g.b) <= LLONG_MAX
      BY Zenon, <1>8, HasRest
  <2>2. g.b.size \in Nat
      BY <1>6 DEF IsChunk
  <2>. QED  BY <2>1, <2>2
<1>10. /\ IsChunk(c)
       /\ c.size > 0 <=> g.b.size > 0 /\ g.b.pos < e
       /\ c.size > 0 => c.pos = g.b.pos /\ end(c) <= e /\ end(c) <= end(g.b)
  <2> DEFINE w == CutChunk(g.b, e)
  <2>1. /\ IsChunk(w)
        /\ w.size > 0 <=> g.b.size > 0 /\ g.b.pos < e
        /\ w.size > 0 => w.pos = g.b.pos /\ end(w) <= e /\ end(w) <= end(g.b)
      BY <1>3, <1>6, <1>9, CutChunkIs
  <2> HIDE DEF w
  <2>2. c = w
      BY Zenon, <1>7 DEF w
  <2>. QED  BY ONLY <2>1, <2>2
<1>11. c.size > 0 => /\ HasChunk(book.v, book.domain, f.index, c)
                     /\ end(c) <= LLONG_MAX /\ end(c) <= e
  <2> SUFFICES ASSUME c.size > 0
               PROVE  HasChunk(book.v, book.domain, g.index, c) /\ end(c) <= LLONG_MAX
      BY Zenon, <1>7, <1>10
  <2>1. HasChunk(book.v, book.domain, g.index, g.b)
      BY Zenon, <1>8, <1>10
  <2> DEFINE x == book.v[g.index]
  <2>2. /\ x.pos <= g.b.pos /\ end(g.b) <= end(x) /\ end(x) \in Nat /\ end(g.b) \in Nat
        /\ end(g.b) <= LLONG_MAX /\ LLONG_MAX \in Nat
      BY Zenon, <2>1, ChunkInBlock, HasRest
  <2>3. c.pos = g.b.pos /\ end(c) <= end(g.b) /\ end(c) \in Nat
      BY <1>10 DEF IsChunk, end
  <2> HIDE DEF x
  <2>4. includes(x, c) /\ end(c) <= LLONG_MAX
      BY <2>2, <2>3 DEF includes
  <2>. QED  BY Zenon, <1>10, <2>1, <2>4 DEF HasChunk, x
<1>. QED  BY Zenon, <1>1, <1>6, <1>7, <1>10, <1>11 DEF f, e, c

\* What a step that copies chunk c, of which r was read, makes of the map: it is marked,
\* after what lies behind the end of the input has been cut off.
CutMap(u, v, e) ==
  \A p, t : Holds(BlocksOf(u), p, t) <=> Holds(BlocksOf(v), p, t) /\ p < e
CopiesRead(w, v, c, r, goesOn) ==
  LET upTo == c.pos + r.copied + r.error
  IN  \/ MarksRead(w, v, c, r) /\ (goesOn => ~(upTo < end(c)))
      \/ upTo < end(c) /\ \E u : CutMap(u, v, upTo) /\ MarksRead(w, u, c, r)

LEMMA ReadIsCopied ==
  ASSUME NEW k, NEW mode, mode # "fill", Loaded(k, mode), NEW i \in Int, NEW c,
         HasChunk(k.v, k.domain, i, c), NEW r, IsRead(r, c),
         NEW short, short <=> c.pos + r.copied + r.error < end(c), NEW no
  PROVE  LET cut == truncate_vector(k.v, c.pos + r.copied + r.error, no)
             l   == MarkChunk([k EXCEPT !.index = i, !.v = IF short THEN cut.v ELSE @], c, r)
         IN  /\ Loaded(l, mode) /\ SameRun(l, k)
             /\ CopiesRead(l.v, k.v, c, r, ~(short /\ ~cut.ok))
<1> DEFINE e    == c.pos + r.copied + r.error
           cut  == truncate_vector(k.v, e, no)
           u    == IF short THEN cut.v ELSE k.v
           m    == [k EXCEPT !.index = i, !.v = u]
           l    == MarkChunk(m, c, r)
           goes == ~(short /\ ~cut.ok)
<1>1. /\ c.pos \in Nat /\ c.size \in Nat /\ end(c) \in Nat /\ end(c) = c.pos + c.size
      /\ end(c) <= LLONG_MAX /\ Rest(k.v, k.domain, c.pos, end(c))
    BY Zenon, HasRest
<1>2. e \in Nat /\ c.pos <= e /\ e <= end(c)
    BY <1>1 DEF IsRead
<1>3. InMap(k.v, k.domain) /\ IsVector(k.v) /\ IsBook(k) /\ k.pos <= LLONG_MAX
    BY LoadedIsBook DEF HasChunk
<1>4. Rest(k.v, k.domain, c.pos, e)
  <2>1. c.pos <= c.pos
      BY <1>1
  <2>. QED  BY Zenon, <1>1, <1>2, <2>1, SmallerRest
<1>5. IsChunk(c)
    BY Zenon DEF HasChunk
<1> HIDE DEF e
<1>6. /\ InMap(cut.v, k.domain) /\ Rest(cut.v, k.domain, c.pos, e)
      /\ ~cut.ok => cut.v = k.v
      /\ cut.ok => CutMap(cut.v, k.v, e)
    BY Zenon, <1>2, <1>3, <1>4, CutOff DEF CutMap
<1> HIDE DEF cut
<1>7. InMap(u, k.domain) /\ Rest(u, k.domain, c.pos, e)
    BY <1>3, <1>4, <1>6
<1> HIDE DEF u
<1>8. Loaded(m, mode) /\ m.v = u /\ SameRun(m, k)
    BY <1>7, BookMoved
<1>9. l = MarkChunk(m, c, r)
    OBVIOUS
<1>10. m.domain = k.domain /\ m.pos = k.pos
    BY Zenon, <1>8 DEF SameRun
<1>11. IsBook(m) /\ InMap(m.v, m.domain) /\ Rest(m.v, m.domain, c.pos, e)
    BY Zenon, <1>7, <1>8, <1>10 DEF Loaded
<1> HIDE DEF m
<1>12. /\ IsBook(l) /\ InMap(l.v, l.domain) /\ MarksRead(l.v, m.v, c, r) /\ SameRun(l, m)
    BY Zenon, <1>1, <1>5, <1>11, ChunkIsMarked DEF e
<1> HIDE DEF l
<1>13. Loaded(l, mode) /\ SameRun(l, k)
  <2>1. SameRun(l, k) /\ l.pos = k.pos
      BY Zenon, <1>8, <1>12 DEF SameRun
  <2>. QED  BY Zenon, <1>3, <1>12, <2>1, LoadedIsBook
<1>14. MarksRead(l.v, u, c, r)
    BY Zenon, <1>8, <1>12
<1>15. CopiesRead(l.v, k.v, c, r, goes)
  <2>1. CASE short /\ cut.ok
    <3>1. u = cut.v
        BY Zenon, <2>1 DEF u
    <3>. QED  BY Zenon, <1>6, <1>14, <2>1, <3>1 DEF CopiesRead, e
  <2>2. CASE short /\ ~cut.ok
    <3>1. u = k.v /\ ~goes
        BY Zenon, <1>6, <2>2 DEF u
    <3>. QED  BY Zenon, <1>14, <3>1 DEF CopiesRead
  <2>3. CASE ~short
    <3>1. u = k.v /\ goes
        BY Zenon, <2>3 DEF u
    <3>. QED  BY Zenon, <1>14, <2>3, <3>1 DEF CopiesRead, e
  <2>. QED  BY <2>1, <2>2, <2>3
<1>. QED  BY Zenon, <1>13, <1>15 DEF l, m, u, cut, e

LEMMA CopyIs ==
  ASSUME ModesInv, CopyChunk
  PROVE  LET f == Chunk(b.pos, end(b))
             c == f.b
             l == book'
         IN  /\ pc = "copy" /\ job.mode = "commands" /\ b.size > 0 /\ c.size > 0
             /\ job' = job /\ mapfile' = mapfile
             /\ Loaded(l, "commands") /\ SameRun(l, book)
             /\ \E r \in readblockp(Input, c) :
                  /\ IsRead(r, c)
                  /\ r.copied > 0 => c.pos + r.copied <= FileSize(Input)
                  /\ outfile' = IF SkipsZeros(c, r.copied) THEN outfile
                                ELSE writeblockp(outfile, c, r.copied, Input)
                  /\ CopiesRead(l.v, book.v, c, r, pc' = "copy")
             /\ \/ /\ pc' = "copy" /\ b' = [pos |-> end(c), size |-> end(b) - end(c)]
                   /\ retval' = retval /\ series' = series
                \/ CopyFails
<1> DEFINE F == FALSE
           f == Chunk(b.pos, end(b))
           c == f.b
           Step(g, x, r, gone) ==
             LET upTo  == x.pos + r.copied + r.error
                 short == upTo < end(x)
             IN  /\ gone => r.error > 0
                 /\ outfile' = IF SkipsZeros(x, r.copied) THEN outfile
                               ELSE writeblockp(outfile, x, r.copied, Input)
                 /\ \E cut \in {truncate_vector(book.v, upTo, F)} :
                      /\ book' = MarkChunk([book EXCEPT !.index = g.index,
                                                       !.v = IF short THEN cut.v ELSE @],
                                           x, r)
                      /\ IF gone \/ (short /\ ~cut.ok) THEN CopyFails
                         ELSE /\ b' = [pos |-> end(x), size |-> end(b) - end(x)]
                              /\ UNCHANGED <<pc, retval, series>>
<1>1. pc = "copy" /\ b.size > 0 /\ job' = job /\ mapfile' = mapfile
    BY Zenon DEF CopyChunk
<1>2. c.size > 0 /\ \E r \in readblockp(Input, c), gone \in BOOLEAN : Step(f, c, r, gone)
  <2>1. \E g \in {f} : \E x \in {g.b} :
          x.size > 0 /\ \E r \in readblockp(Input, x), gone \in BOOLEAN : Step(g, x, r, gone)
      BY Zenon DEF CopyChunk, F
  <2> HIDE DEF Step, f
  <2>. QED  BY <2>1
<1> HIDE DEF F
<1>3. PICK r \in readblockp(Input, c), gone \in BOOLEAN : Step(f, c, r, gone)
    BY Zenon, <1>2
<1> DEFINE upTo  == c.pos + r.copied + r.error
           short == upTo < end(c)
           cut   == truncate_vector(book.v, upTo, F)
           l     == book'
           stops == gone \/ (short /\ ~cut.ok)
<1>4. /\ outfile' = IF SkipsZeros(c, r.copied) THEN outfile
                    ELSE writeblockp(outfile, c, r.copied, Input)
      /\ l = MarkChunk([book EXCEPT !.index = f.index, !.v = IF short THEN cut.v ELSE @], c, r)
      /\ IF stops THEN CopyFails
         ELSE /\ b' = [pos |-> end(c), size |-> end(b) - end(c)]
              /\ UNCHANGED <<pc, retval, series>>
    BY Zenon, <1>3
<1>5. /\ job.mode = "commands" /\ f.index \in Int
      /\ HasChunk(book.v, book.domain, f.index, c)
    BY Zenon, <1>1, <1>2, NextChunkIs
<1>6. c.pos \in Nat /\ c.size \in Nat
    BY Zenon, <1>5, HasRest
<1>7. IsFile(Input)
    BY InputAssumption
<1> HIDE DEF Step, f, c
<1>8. IsRead(r, c) /\ (r.copied > 0 => c.pos + r.copied <= FileSize(Input))
    BY <1>3, <1>6, <1>7, ReadsChunk
<1>9. Loaded(book, "commands") /\ "commands" # "fill"
    BY <1>1, <1>5 DEF ModesInv, RunOk
<1>10. Loaded(l, "commands") /\ SameRun(l, book) /\ CopiesRead(l.v, book.v, c, r, ~(short /\ ~cut.ok))
  <2> DEFINE sh == short
             ok == cut.ok
  <2>. QED  BY <1>4, <1>5, <1>8, <1>9, ReadIsCopied
<1> HIDE DEF cut, l, short
<1>11. \/ /\ pc' = "copy" /\ b' = [pos |-> end(c), size |-> end(b) - end(c)]
          /\ retval' = retval /\ series' = series /\ ~stops
       \/ CopyFails
    BY Zenon, <1>1, <1>4
<1>12. CopyFails => pc' = "commands"
    BY DEF CopyFails
<1>13. CopiesRead(l.v, book.v, c, r, pc' = "copy")
  <2>1. pc' = "copy" => ~(short /\ ~cut.ok)
      BY <1>11, <1>12
  <2>. QED  BY Zenon, <1>10, <2>1 DEF CopiesRead
<1>. QED  BY Zenon, <1>1, <1>2, <1>3, <1>4, <1>5, <1>8, <1>10, <1>11, <1>13 DEF f, c, l

LEMMA CommandsRun ==
  ASSUME ModesInv, pc \in {"commands", "copy"}
  PROVE  /\ job.mode = "commands" /\ pc # "none" /\ job.mode # "fill"
         /\ Loaded(book, job.mode) /\ GoodMap(mapfile) /\ IsFile(outfile) /\ Fits(b)
<1>1. job.mode = "commands" /\ pc # "none" /\ job.mode # "fill"
    BY DEF ModesInv, RunOk
<1>. QED  BY Zenon, <1>1, WhileInMap

LEMMA NoBlockFits == Fits(NoBlock) /\ ~(NoBlock.size > 0)
BY LimitAssumption DEF Fits, NoBlock, IsChunk, end

LEMMA CopyChunkKeeps == ASSUME ModesInv, CopyChunk  PROVE  ModesInv'
<1> DEFINE c == Chunk(b.pos, end(b)).b
           l == book'
<1>1. /\ pc = "copy" /\ b.size > 0 /\ c.size > 0
      /\ job' = job /\ mapfile' = mapfile /\ Loaded(l, "commands")
      /\ \E r \in readblockp(Input, c) :
           /\ IsRead(r, c)
           /\ r.copied > 0 => c.pos + r.copied <= FileSize(Input)
           /\ outfile' = IF SkipsZeros(c, r.copied) THEN outfile
                         ELSE writeblockp(outfile, c, r.copied, Input)
      /\ \/ pc' = "copy" /\ b' = [pos |-> end(c), size |-> end(b) - end(c)]
         \/ CopyFails
    BY Zenon, CopyIs
<1>2. IsChunk(c) /\ end(c) <= end(b)
    BY Zenon, <1>1, NextChunkIs
<1>3. pc \in {"commands", "copy"}
    BY <1>1
<1>4. /\ job.mode = "commands" /\ job.mode # "fill" /\ GoodMap(mapfile) /\ IsFile(outfile)
      /\ Fits(b)
    BY Zenon, <1>3, CommandsRun
<1> HIDE DEF c, l
<1>5. IsFile(outfile')
  <2>1. PICK r \in readblockp(Input, c) :
           /\ IsRead(r, c)
           /\ r.copied > 0 => c.pos + r.copied <= FileSize(Input)
           /\ outfile' = IF SkipsZeros(c, r.copied) THEN outfile
                         ELSE writeblockp(outfile, c, r.copied, Input)
      BY Zenon, <1>1
  <2> DEFINE n == r.copied
  <2>2. c.pos \in Nat /\ n \in Nat
      BY <1>2, <2>1 DEF IsChunk, IsRead
  <2>3. \A p \in c.pos .. c.pos + n - 1 : Input[p] \in Content
    <3>1. Input \in [0 .. FileSize(Input) - 1 -> Content] /\ FileSize(Input) \in Nat
        BY InputAssumption, FS_CardinalityType DEF IsFile, FileSize
    <3>2. \A p \in c.pos .. c.pos + n - 1 : p \in 0 .. FileSize(Input) - 1
        BY <2>1, <2>2, <3>1
    <3>. QED  BY Zenon, <3>1, <3>2
  <2> HIDE DEF n
  <2>4. IsFile(writeblockp(outfile, c, n, Input))
      BY <1>4, <2>2, <2>3, FileWritten
  <2>. QED  BY Zenon, <1>4, <2>1, <2>4 DEF n
<1>6. Fits([pos |-> end(c), size |-> end(b) - end(c)])
  <2>1. end(c) \in Nat /\ end(b) \in Nat /\ end(b) <= LLONG_MAX
      BY <1>2, <1>4 DEF IsChunk, Fits, end
  <2> DEFINE x == [pos |-> end(c), size |-> end(b) - end(c)]
  <2>2. x.pos = end(c) /\ x.size = end(b) - end(c)
      OBVIOUS
  <2>3. IsChunk(x) /\ x.pos + x.size = end(b)
      BY <1>2, <2>1 DEF IsChunk
  <2>. QED  BY <2>1, <2>3 DEF Fits, end
<1>7. pc' \in {"commands", "copy"} /\ Fits(b')
    BY <1>1, <1>6, NoBlockFits DEF CopyFails
<1>8. Loaded(book', job.mode) /\ GoodMap(mapfile')
    BY Zenon, <1>1, <1>4 DEF l
<1>. QED  BY <1>1, <1>4, <1>5, <1>7, <1>8, OtherKeeps

LEMMA CopyDoneKeeps == ASSUME ModesInv, CopyDone  PROVE  ModesInv'
<1>1. /\ pc = "copy" /\ pc' = "commands" /\ b' = NoBlock /\ job' = job
      /\ mapfile' = mapfile /\ outfile' = outfile
      /\ \E f \in {Chunk(b.pos, end(b))} :
           book' = IF b.size = 0 THEN book ELSE [book EXCEPT !.index = f.index]
    BY DEF CopyDone, disc
<1>2. pc \in {"commands", "copy"} /\ pc' \in {"commands", "copy"}
    BY <1>1
<1>3. /\ job.mode = "commands" /\ job.mode # "fill" /\ GoodMap(mapfile) /\ IsFile(outfile)
      /\ Loaded(book, job.mode)
    BY Zenon, <1>2, CommandsRun
<1> DEFINE f == Chunk(b.pos, end(b))
<1>4. f.index \in Int
    BY Zenon, <1>1, NextChunkIs
<1>5. book' = book \/ book' = [book EXCEPT !.index = f.index]
    BY Zenon, <1>1
<1> HIDE DEF f
<1>6. Loaded(book', job.mode)
  <2>1. Loaded([book EXCEPT !.index = f.index], job.mode)
      BY <1>3, <1>4, BookIndexed
  <2>. QED  BY Zenon, <1>3, <1>5, <2>1
<1>7. Fits(b') /\ GoodMap(mapfile') /\ IsFile(outfile')
    BY Zenon, <1>1, <1>3, NoBlockFits
<1>. QED  BY <1>1, <1>2, <1>3, <1>6, <1>7, OtherKeeps

\* A write that fails has written fewer bytes than were read.
LEMMA WriteFailureIs ==
  ASSUME ModesInv, CopyWriteFails
  PROVE  LET f == Chunk(b.pos, end(b))
             c == f.b
         IN  /\ pc = "copy" /\ b.size > 0 /\ job' = job /\ mapfile' = mapfile /\ CopyFails
             /\ book' = [book EXCEPT !.index = f.index] /\ f.index \in Int
             /\ IsChunk(c) /\ c.size > 0 /\ HasChunk(book.v, book.domain, f.index, c)
             /\ \E n \in Nat : /\ n < c.size /\ c.pos + n <= FileSize(Input)
                               /\ outfile' = writeblockp(outfile, c, n, Input)
<1> DEFINE f == Chunk(b.pos, end(b))
           c == f.b
           z == FileSize(Input)
<1>1. /\ pc = "copy" /\ b.size > 0 /\ job' = job /\ mapfile' = mapfile /\ CopyFails
      /\ \E g \in {f} : \E there \in {min(g.b.size, z - g.b.pos)} :
           \E n \in 0 .. there - 1 :
             /\ outfile' = writeblockp(outfile, g.b, n, Input)
             /\ book' = [book EXCEPT !.index = g.index]
    BY Zenon DEF CopyWriteFails
<1>2. f.index \in Int /\ IsChunk(c) /\ (c.size > 0 => HasChunk(book.v, book.domain, f.index, c))
    BY Zenon, <1>1, NextChunkIs
<1>3. z \in Nat
    BY InputAssumption, FS_CardinalityType DEF IsFile, FileSize
<1> HIDE DEF f, z
<1>4. PICK n \in 0 .. min(c.size, z - c.pos) - 1 :
           /\ outfile' = writeblockp(outfile, c, n, Input)
           /\ book' = [book EXCEPT !.index = f.index]
    BY <1>1
<1>5. n \in Nat /\ n < c.size /\ c.pos + n <= z /\ c.size > 0
  <2>1. c.size \in Nat /\ c.pos \in Nat
      BY <1>2 DEF IsChunk
  <2>. QED  BY <1>3, <2>1 DEF min, BM!Smaller
<1>. QED  BY Zenon, <1>1, <1>2, <1>4, <1>5 DEF f, z

LEMMA CopyWriteFailsKeeps == ASSUME ModesInv, CopyWriteFails  PROVE  ModesInv'
<1> DEFINE f == Chunk(b.pos, end(b))
           c == f.b
<1>1. /\ pc = "copy" /\ job' = job /\ mapfile' = mapfile /\ CopyFails
      /\ book' = [book EXCEPT !.index = f.index] /\ f.index \in Int /\ IsChunk(c)
      /\ \E n \in Nat : c.pos + n <= FileSize(Input) /\ outfile' = writeblockp(outfile, c, n, Input)
    BY Zenon, WriteFailureIs
<1>2. pc \in {"commands", "copy"}
    BY <1>1
<1>3. /\ job.mode = "commands" /\ job.mode # "fill" /\ GoodMap(mapfile) /\ IsFile(outfile)
      /\ Loaded(book, job.mode)
    BY Zenon, <1>2, CommandsRun
<1> HIDE DEF f
<1>4. Loaded(book', job.mode)
    BY <1>1, <1>3, BookIndexed
<1>5. IsFile(outfile')
  <2>1. PICK n \in Nat : c.pos + n <= FileSize(Input) /\ outfile' = writeblockp(outfile, c, n, Input)
      BY Zenon, <1>1
  <2>2. c.pos \in Nat
      BY <1>1 DEF IsChunk
  <2>3. \A p \in c.pos .. c.pos + n - 1 : Input[p] \in Content
    <3>1. Input \in [0 .. FileSize(Input) - 1 -> Content] /\ FileSize(Input) \in Nat
        BY InputAssumption, FS_CardinalityType DEF IsFile, FileSize
    <3>2. \A p \in c.pos .. c.pos + n - 1 : p \in 0 .. FileSize(Input) - 1
        BY <2>1, <2>2, <3>1
    <3>. QED  BY Zenon, <3>1, <3>2
  <2>4. IsFile(writeblockp(outfile, c, n, Input))
      BY <1>3, <2>2, <2>3, FileWritten
  <2>. QED  BY Zenon, <2>1, <2>4
<1>6. pc' \in {"commands", "copy"} /\ b' = NoBlock
    BY <1>1 DEF CopyFails
<1>7. Fits(b') /\ GoodMap(mapfile')
    BY Zenon, <1>1, <1>3, <1>6, NoBlockFits
<1>. QED  BY <1>1, <1>3, <1>4, <1>5, <1>6, <1>7, OtherKeeps

LEMMA CopyCommandKeeps == ASSUME ModesInv, CopyCommand  PROVE  ModesInv'
<1>1. /\ pc = "commands" /\ pc' = "copy" /\ b' \in Requests /\ job' = job /\ book' = book
      /\ mapfile' = mapfile /\ outfile' = outfile
    BY DEF CopyCommand, disc
<1>2. pc \in {"commands", "copy"} /\ pc' \in {"commands", "copy"}
    BY <1>1
<1>3. /\ job.mode = "commands" /\ job.mode # "fill" /\ GoodMap(mapfile) /\ IsFile(outfile)
      /\ Loaded(book, job.mode)
    BY Zenon, <1>2, CommandsRun
<1>4. Fits(b')
    BY <1>1, CommandsAssumption DEF Fits, IsChunk, InRange
<1>5. Loaded(book', job.mode) /\ GoodMap(mapfile') /\ IsFile(outfile')
    BY Zenon, <1>1, <1>3
<1>. QED  BY <1>1, <1>2, <1>3, <1>4, <1>5, OtherKeeps

LEMMA UpdateCommandKeeps == ASSUME ModesInv, UpdateCommand  PROVE  ModesInv'
<1>1. /\ pc = "commands" /\ pc' = pc /\ b' = b /\ job' = job /\ book' = book
      /\ outfile' = outfile
      /\ mapfile' = mapfile \/ mapfile' = Saved(book)
    BY DEF UpdateCommand, update_mapfile
<1>2. pc \in {"commands", "copy"} /\ pc' \in {"commands", "copy"}
    BY <1>1
<1>3. /\ job.mode = "commands" /\ job.mode # "fill" /\ GoodMap(mapfile) /\ IsFile(outfile)
      /\ Loaded(book, job.mode) /\ Fits(b)
    BY Zenon, <1>2, CommandsRun
<1>4. GoodMap(Saved(book))
    BY Zenon, <1>3, SavedIsGood
<1>5. Loaded(book', job.mode) /\ GoodMap(mapfile') /\ IsFile(outfile') /\ Fits(b')
    BY Zenon, <1>1, <1>3, <1>4
<1>. QED  BY <1>1, <1>2, <1>3, <1>5, OtherKeeps

LEMMA FinishCommandKeeps == ASSUME ModesInv, FinishCommand  PROVE  ModesInv'
<1>1. pc = "commands" /\ Finish(book)
    BY DEF FinishCommand
<1>2. pc \in {"commands", "copy"}
    BY <1>1
<1>3. GoodMap(mapfile) /\ IsFile(outfile) /\ Loaded(book, job.mode)
    BY Zenon, <1>2, CommandsRun
<1>4. Exit /\ outfile' = outfile /\ GoodMap(mapfile')
    BY Zenon, <1>1, <1>3, FinishIs
<1>. QED  BY Zenon, <1>3, <1>4, ExitKeeps

LEMMA QuitCommandKeeps == ASSUME ModesInv, QuitCommand  PROVE  ModesInv'
<1>1. Exit /\ mapfile' = mapfile /\ outfile' = outfile
    BY Zenon DEF QuitCommand, disc
<1>. QED  BY Zenon, <1>1, ExitKeeps DEF ModesInv

\* What a run of commands begins with.
LEMMA StartCommandsIs ==
  ASSUME ModesInv, StartCommands
  PROVE  LET k == book'
         IN  /\ pc = "none" /\ pc' = "commands" /\ job'.mode = "commands" /\ b' = NoBlock
             /\ outfile' = outfile /\ Loaded(k, "commands")
             /\ Gentle(BlocksOf(k.v), BlocksOf(mapfile.lines))
             /\ mapfile' = mapfile \/ mapfile' = Saved(k)
             /\ ~series'.guess => ~series.guess
             /\ series.holes => series'.holes
             /\ job'.sparse => series'.holes /\ \E a \in CommandArgs : a.sparse
             /\ series'.done = {} /\ series'.job.mode = "commands"
<1> DEFINE F == FALSE
           T == TRUE
<1>1. F \in BOOLEAN /\ (F <=> FALSE) /\ T \in BOOLEAN
    OBVIOUS
<1> DEFINE j(a) == [mode |-> "commands", domain |-> a.domain, sparse |-> a.sparse]
<1>2. PICK a \in CommandArgs, insize \in InSizes :
        \E file \in {Load(a.domain, insize, F, T)} :
          /\ file.ok
          /\ Start(j(a), file.book, NoBlock, F)
          /\ mapfile' = IF mapfile.lines = <<>> THEN Saved(file.book) ELSE mapfile
    BY Zenon DEF StartCommands
<1> HIDE DEF F, T
<1> DEFINE file == Load(a.domain, insize, F, T)
           k == file.book
           i == j(a)
<1>3. /\ file.ok /\ Start(i, k, NoBlock, F)
      /\ mapfile' = IF mapfile.lines = <<>> THEN Saved(k) ELSE mapfile
    BY Zenon, <1>2
<1>4. IsRunDomain(a.domain) /\ insize \in 0 .. LLONG_MAX
    BY CommandsAssumption, InputAssumption
<1>5. GoodMap(mapfile)
    BY Zenon DEF ModesInv
<1>6. i.mode = "commands" /\ i.sparse = a.sparse
    OBVIOUS
<1> HIDE DEF j, i
<1>7. file = Load(a.domain, insize, F, T)
    OBVIOUS
<1> HIDE DEF file
<1>8. "commands" # "fill"
    OBVIOUS
<1>9. Loaded(k, "commands") /\ Gentle(BlocksOf(k.v), BlocksOf(mapfile.lines))
    BY Zenon, <1>1, <1>3, <1>4, <1>5, <1>7, <1>8, LoadsMap
<1> HIDE DEF k
<1>10. /\ pc = "none" /\ pc' = i.mode /\ job' = i /\ book' = k /\ b' = NoBlock
       /\ outfile' = outfile
       /\ series' = [job |-> i, pure |-> TRUE, done |-> {}, failed |-> {},
                     guess |-> series.guess \/ i.mode = "generate",
                     holes |-> series.holes \/ (i.mode = "commands" /\ i.sparse)]
    BY <1>1, <1>3 DEF Start
<1>11. /\ ~series'.guess => ~series.guess
       /\ series.holes => series'.holes
       /\ i.sparse => series'.holes
       /\ series'.done = {} /\ series'.job.mode = "commands"
    BY <1>6, <1>10
<1>12. i.sparse => \E x \in CommandArgs : x.sparse
    BY Zenon, <1>6
<1>. QED  BY Zenon, <1>3, <1>6, <1>9, <1>10, <1>11, <1>12 DEF k

LEMMA StartCommandsKeeps == ASSUME ModesInv, StartCommands  PROVE  ModesInv'
<1> DEFINE k == book'
           j == job'
<1>1. /\ pc' = "commands" /\ j.mode = "commands" /\ b' = NoBlock /\ outfile' = outfile
      /\ Loaded(k, "commands")
      /\ mapfile' = mapfile \/ mapfile' = Saved(k)
    BY Zenon, StartCommandsIs
<1> HIDE DEF k, j
<1>2. GoodMap(mapfile) /\ IsFile(outfile) /\ Fits(NoBlock)
    BY Zenon, NoBlockFits DEF ModesInv
<1>3. GoodMap(mapfile')
    BY Zenon, <1>1, <1>2, SavedIsGood
<1>4. RunOk("commands", j, k)
    BY <1>1 DEF RunOk
<1>5. j.mode # "fill"
    BY <1>1
<1>6. FillOk("commands", j, k, mapfile', area', NoBlock)
    BY Zenon, <1>5 DEF FillOk
<1>. QED  BY Zenon, <1>1, <1>2, <1>3, <1>4, <1>6 DEF ModesInv, j, k

-----------------------------------------------------------------------------
LEMMA StutterKeeps == ASSUME ModesInv, UNCHANGED allvars  PROVE  ModesInv'
<1>1. /\ pc' = pc /\ job' = job /\ book' = book /\ mapfile' = mapfile /\ outfile' = outfile
      /\ area' = area /\ b' = b
    BY DEF allvars, vars
<1>. QED  BY Zenon, <1>1 DEF ModesInv

LEMMA ModesInvKept == ASSUME ModesInv, [ModesNext]_allvars  PROVE  ModesInv'
<1>1. CASE FillStarts
    BY Zenon, <1>1, StartFillKeeps DEF FillStarts
<1>2. CASE OtherStarts
    BY Zenon, <1>2, StartGenerateKeeps, StartCommandsKeeps DEF OtherStarts
<1>3. CASE FillStep
    BY Zenon, <1>3, FillAreaKeeps, NoAreaLeftKeeps, FillInterruptedKeeps, FillBlockKeeps,
       FillFailsKeeps DEF FillStep
<1>4. CASE GenerateStep
    BY Zenon, <1>4, AllCheckedKeeps, GenerateInterruptedKeeps, CheckChunkKeeps DEF GenerateStep
<1>5. CASE CopyStep
    BY Zenon, <1>5, CopyDoneKeeps, CopyChunkKeeps, CopyWriteFailsKeeps DEF CopyStep
<1>6. CASE Command
    BY Zenon, <1>6, CopyCommandKeeps, UpdateCommandKeeps, FinishCommandKeeps, QuitCommandKeeps
       DEF Command
<1>7. CASE End
    BY Zenon, <1>7, EndKeeps
<1>8. CASE Kill
    BY Zenon, <1>8, KillKeeps
<1>9. CASE UNCHANGED allvars
    BY Zenon, <1>9, StutterKeeps
<1>. QED  BY Zenon, <1>1, <1>2, <1>3, <1>4, <1>5, <1>6, <1>7, <1>8, <1>9 DEF ModesNext, Work

\* The types of what a run of these modes has in memory and leaves on disc: the
\* mapfile is always one that can be read back, what is being filled are the blocks of
\* the mapfile on disc, and the block to write lies in an area of the asked types.
THEOREM ModesSafe == ModesSpec => []ModesInv
<1>1. ModesInit => ModesInv
    BY InitIsKept
<1>2. ModesInv /\ [ModesNext]_allvars => ModesInv'
    BY ModesInvKept
<1>. QED  BY <1>1, <1>2, PTL DEF ModesSpec

-----------------------------------------------------------------------------
(***************************************************************************)
(* A fill overwrites nothing but what it was asked to.                     *)
(***************************************************************************)

\* A block one position of which lies in the domain lies in it.
LEMMA BlockOfPosition ==
  ASSUME NEW d, IsDomain(d), NEW x, GoodBlock(x), SplitFrom({x}, d, 1),
         NEW p \in Bytes(x), p \in InDomains(d)
  PROVE  InDomain(d, x)
<1>1. x.pos \in Nat /\ end(x) \in Nat
    BY DEF GoodBlock, Blocks, end
<1>2. PICK k \in DOMAIN d : p \in Bytes(d[k])
    BY DEF InDomains
<1>3. /\ DOMAIN d = 1 .. Len(d) /\ k \in 1 .. Len(d)
      /\ d[k].pos \in Nat /\ end(d[k]) \in Nat
    BY <1>2, DomainTypes
<1>4. includes(d[k], x)
  <2> DEFINE f == d[k].pos
             g == end(d[k])
  <2>1. /\ p \in f .. g - 1 /\ p \in x.pos .. end(x) - 1 /\ f \in Nat /\ g \in Nat
        /\ ~(x.pos < f /\ end(x) > f) /\ ~(x.pos < g /\ end(x) > g)
      BY Zenon, <1>2, <1>3 DEF Bytes, SplitFrom, strictly_includes
  <2> HIDE DEF f, g
  <2>2. f <= x.pos /\ g >= end(x)
      BY <1>1, <2>1
  <2>. QED  BY Zenon, <2>2 DEF includes, f, g
<1>5. x.size \in Nat /\ x.size > 0
    BY DEF GoodBlock, Blocks
<1>. QED  BY <1>1, <1>3, <1>4, <1>5, DomainSearchIsExact

\* The positions of a block in the domain, and a position in the domain.
LEMMA InDomainBytes ==
  ASSUME NEW d, IsDomain(d), NEW x, GoodBlock(x), InDomain(d, x)
  PROVE  Bytes(x) \subseteq InDomains(d)
<1>1. x.pos \in Nat /\ x.size \in Nat /\ x.size > 0
    BY DEF GoodBlock, Blocks
<1>. QED  BY <1>1, DomainSearchIsExact

LEMMA InDomainPosIs ==
  ASSUME NEW d, IsDomain(d), NEW p \in Nat
  PROVE  InDomainPos(d, p) <=> p \in InDomains(d)
<1>1. \A k \in DOMAIN d : d[k].pos \in Nat /\ end(d[k]) \in Nat
    BY DomainTypes
<1>2. \A k \in DOMAIN d : p \in Bytes(d[k]) <=> includes_pos(d[k], p)
    BY <1>1 DEF Bytes, includes_pos
<1>. QED  BY <1>2 DEF InDomainPos, InDomains

\* The lines that a fill saves have the statuses of those there were.
LEMMA SavedWithSameStatus ==
  ASSUME ModesInv, pc # "none", job.mode = "fill", NEW lines,
         lines \in {mapfile.lines, book.v, compact_sblock_vector(book.v)}
  PROVE  /\ Consecutive(lines) /\ Same(BlocksOf(lines), BlocksOf(mapfile.lines))
         /\ StatusOf(lines) = StatusOf(mapfile.lines)
<1>1. /\ Chain(book.v) /\ FillsMap(book, mapfile, job.domain)
    BY Zenon, WhileFilling
<1>2. /\ Consecutive(book.v) /\ book.v # <<>> /\ Consecutive(mapfile.lines)
      /\ Same(BlocksOf(book.v), BlocksOf(mapfile.lines))
    BY Zenon, <1>1 DEF Chain, FillsMap
<1>3. Consecutive(lines) /\ Same(BlocksOf(lines), BlocksOf(mapfile.lines))
  <2>1. CASE lines = mapfile.lines
      BY Zenon, <1>2, <2>1, SameSets
  <2>2. CASE lines = book.v
      BY Zenon, <1>2, <2>2
  <2>3. CASE lines = compact_sblock_vector(book.v)
    <3> DEFINE v == book.v
               w == compact_sblock_vector(v)
    <3>1. Row(w, v[1], v[Len(v)]) /\ Same(BlocksOf(w), BlocksOf(v))
        BY Zenon, <1>2, CompactIsSame
    <3>2. Consecutive(w)
        BY Zenon, <3>1 DEF Row
    <3>3. Same(BlocksOf(w), BlocksOf(mapfile.lines))
        BY Zenon, <1>2, <3>1, SameTransitive
    <3>. QED  BY Zenon, <2>3, <3>2, <3>3
  <2>. QED  BY <2>1, <2>2, <2>3
<1>. QED  BY Zenon, <1>2, <1>3, SameStatuses

\* What a step of a fill run does to the mapfile.
LEMMA FillKeepsLines ==
  ASSUME ModesInv, pc # "none", job.mode = "fill", [ModesNext]_allvars
  PROVE  /\ mapfile'.lines \in {mapfile.lines, book.v, compact_sblock_vector(book.v)}
         /\ outfile' = outfile \/ \E n \in 0 .. b.size : pc = "fill" /\ b.size > 0 /\ Write(n)
<1> DEFINE m == mapfile'
           V == {mapfile.lines, book.v, compact_sblock_vector(book.v)}
           Ok == m.lines \in V /\ (outfile' = outfile \/
                    \E n \in 0 .. b.size : pc = "fill" /\ b.size > 0 /\ Write(n))
<1>0. pc \in {"fill", "end"}
    BY Zenon, WhileFilling
<1>1. CASE mapfile' = mapfile /\ outfile' = outfile
    BY Zenon, <1>1
<1>2. ASSUME pc = "fill", b.size > 0, mapfile' = mapfile \/ mapfile' = Saved(AtBlock),
             NEW n \in 0 .. b.size, Write(n)
      PROVE  Ok
  <2>1. AtBlock.v = book.v
      BY Zenon, <1>2, AtBlockIs
  <2>2. Saved(AtBlock).lines = book.v
      BY <2>1 DEF Saved
  <2>. QED  BY Zenon, <1>2, <2>2
<1>3. CASE FillBlock
  <2>1. pc = "fill" /\ b.size > 0 /\ Write(b.size) /\ Continue
      BY Zenon, <1>3 DEF FillBlock
  <2>2. mapfile' = mapfile \/ mapfile' = Saved(AtBlock)
      BY Zenon, <2>1, ContinueIs
  <2>3. b.size \in 0 .. b.size
    <3>1. IsChunk(b)
        BY Zenon, <2>1, AtBlockIs
    <3>. QED  BY <3>1 DEF IsChunk
  <2>. QED  BY Zenon, <1>2, <2>1, <2>2, <2>3
<1>4. CASE FillFails
  <2>1. pc = "fill" /\ b.size > 0 /\ \E n \in 0 .. b.size - 1 : Write(n)
      BY Zenon, <1>4 DEF FillFails
  <2>2. mapfile' = mapfile \/ mapfile' = Saved(AtBlock)
      BY Zenon, <1>4, FailureIs
  <2>3. PICK n \in 0 .. b.size - 1 : Write(n)
      BY Zenon, <2>1
  <2>4. n \in 0 .. b.size
    <3>1. IsChunk(b)
        BY Zenon, <2>1, AtBlockIs
    <3>. QED  BY <3>1 DEF IsChunk
  <2>. QED  BY Zenon, <1>2, <2>1, <2>2, <2>3, <2>4
<1>5. CASE FillArea \/ NoAreaLeft \/ FillInterrupted
  <2>1. mapfile' = mapfile /\ outfile' = outfile
      BY <1>5 DEF FillArea, NoAreaLeft, FillInterrupted, Interrupted, disc
  <2>. QED  BY <1>1, <2>1
<1>6. CASE End
  <2>1. CASE retval = "unsaved"
    <3>1. mapfile' = mapfile /\ outfile' = outfile
        BY <1>6, <2>1 DEF End, disc
    <3>. QED  BY <1>1, <3>1
  <2>2. CASE retval # "unsaved"
    <3> DEFINE k == [book EXCEPT !.status = EndStatus]
    <3>1. Finish(k)
        BY Zenon, <1>6, <2>2 DEF End
    <3>2. Loaded(book, "fill") /\ GoodMap(mapfile)
        BY Zenon, WhileFilling
    <3>3. Loaded(k, "fill") /\ k.v = book.v
        BY Zenon, <3>2, BookWithStatus
    <3> HIDE DEF k
    <3>4. /\ outfile' = outfile
          /\ \/ m = mapfile
             \/ m = [lines |-> compact_sblock_vector(k.v), status |-> k.status, pos |-> k.pos]
        BY Zenon, <3>1, <3>2, <3>3, FinishIs
    <3>5. m.lines = mapfile.lines \/ m.lines = compact_sblock_vector(k.v)
        BY <3>4
    <3>. QED  BY Zenon, <3>3, <3>4, <3>5
  <2>. QED  BY <2>1, <2>2
<1>7. CASE Kill
  <2>1. mapfile' = mapfile /\ outfile' = outfile
      BY <1>7 DEF Kill, disc
  <2>. QED  BY <1>1, <2>1
<1>8. CASE FillStarts \/ OtherStarts
  <2>1. pc = "none"
    <3>1. CASE FillStarts
        BY Zenon, <3>1, StartFillIs DEF FillStarts
    <3>2. CASE StartGenerate \/ StartCommands
        BY <3>2 DEF StartGenerate, StartCommands, Start
    <3>. QED  BY Zenon, <1>8, <3>1, <3>2 DEF OtherStarts
  <2>. QED  BY <2>1
<1>9. CASE GenerateStep
    BY <1>0, <1>9 DEF GenerateStep, AllChecked, GenerateInterrupted, CheckChunk
<1>10. CASE CopyStep \/ Command
    BY <1>0, <1>10 DEF CopyStep, CopyDone, CopyChunk, CopyWriteFails, Command, CopyCommand,
       UpdateCommand, FinishCommand, QuitCommand
<1>11. CASE UNCHANGED allvars
  <2>1. mapfile' = mapfile /\ outfile' = outfile
      BY <1>11 DEF allvars, vars
  <2>. QED  BY <1>1, <2>1
<1>. QED  BY Zenon, <1>3, <1>4, <1>5, <1>6, <1>7, <1>8, <1>9, <1>10, <1>11
          DEF ModesNext, Work, FillStep

LEMMA FillTouches ==
  ASSUME ModesInv, pc # "none", job.mode = "fill", [ModesNext]_allvars
  PROVE  LET st == StatusOf(mapfile.lines)
             old(p) == IF p \in DOMAIN outfile THEN outfile[p] ELSE "zero"
         IN  /\ StatusOf(mapfile'.lines) = st
             /\ \A p \in DOMAIN outfile' :
                  outfile'[p] # old(p) =>
                    p \in InDomains(job.domain) \cap DOMAIN st /\ st[p] \in job.types
<1> DEFINE st == StatusOf(mapfile.lines)
           old(p) == IF p \in DOMAIN outfile THEN outfile[p] ELSE "zero"
<1>1. StatusOf(mapfile'.lines) = st
  <2>1. mapfile'.lines \in {mapfile.lines, book.v, compact_sblock_vector(book.v)}
      BY Zenon, FillKeepsLines
  <2>2. ASSUME NEW w, w \in {mapfile.lines, book.v, compact_sblock_vector(book.v)}
        PROVE  StatusOf(w) = StatusOf(mapfile.lines)
      BY <2>2, SavedWithSameStatus
  <2>. QED  BY <2>1, <2>2
<1>2. ASSUME NEW p \in DOMAIN outfile', outfile'[p] # old(p)
      PROVE  p \in InDomains(job.domain) \cap DOMAIN st /\ st[p] \in job.types
  <2>1. PICK n \in 0 .. b.size : pc = "fill" /\ b.size > 0 /\ Write(n)
    <3>1. ~(outfile' = outfile)
        BY Zenon, <1>2
    <3>. QED  BY Zenon, <3>1, FillKeepsLines
  <2>2. p \in Bytes(b)
      BY Zenon, <1>2, <2>1, FillWrites
  <2> DEFINE x == book.v[area]
  <2>3. /\ area \in 1 .. Len(book.v) /\ GoodBlock(x) /\ includes(x, b) /\ IsChunk(b)
        /\ InDomain(book.domain, x) /\ x.st \in job.types
      BY Zenon, <2>1, AtBlockIs
  <2>4. p \in Bytes(x)
      BY <2>2, <2>3 DEF Bytes, includes, GoodBlock, Blocks, IsChunk, end
  <2>5. /\ IsDomain(book.domain) /\ FillsMap(book, mapfile, job.domain)
      BY Zenon, WhileFilling
  <2>7. p \in InDomains(job.domain)
    <3>1. Bytes(x) \subseteq InDomains(book.domain)
        BY Zenon, <2>3, <2>5, InDomainBytes
    <3>. QED  BY Zenon, <2>4, <2>5, <3>1 DEF FillsMap
  <2>8. Holds(BlocksOf(book.v), p, x.st)
      BY <2>3, <2>4 DEF Holds, BlocksOf
  <2>9. Holds(BlocksOf(mapfile.lines), p, x.st) /\ Consecutive(mapfile.lines)
      BY Zenon, <2>5, <2>8, SameHolds DEF FillsMap
  <2>10. p \in DOMAIN st /\ st[p] = x.st
    <3> DEFINE v == mapfile.lines
               t == x.st
    <3>1. Consecutive(v) /\ Holds(BlocksOf(v), p, t)
        BY <2>9
    <3> HIDE DEF v, t
    <3>2. p \in DOMAIN StatusOf(v) /\ StatusOf(v)[p] = t
        BY <3>1, StatusIs
    <3>. QED  BY Zenon, <3>2 DEF v, t
  <2>. QED  BY Zenon, <2>3, <2>7, <2>10
<1>. QED  BY Zenon, <1>1, <1>2

\* A fill overwrites nothing but what has one of its types and lies in the domain, and
\* changes no status on disc, in any step of any run.
THEOREM FillTouchesNothingElse == ModesSpec => FillTouchesOnlyItsTypes
<1>1. ModesInv /\ [ModesNext]_allvars =>
        [pc # "none" /\ job.mode = "fill" =>
           LET st == StatusOf(mapfile.lines)
               old(p) == IF p \in DOMAIN outfile THEN outfile[p] ELSE "zero"
           IN  /\ StatusOf(mapfile'.lines) = st
               /\ \A p \in DOMAIN outfile' :
                    outfile'[p] # old(p) =>
                      p \in InDomains(job.domain) \cap DOMAIN st /\ st[p] \in job.types]_allvars
    BY FillTouches
<1>. QED  BY <1>1, ModesSafe, PTL DEF ModesSpec, FillTouchesOnlyItsTypes

-----------------------------------------------------------------------------
(***************************************************************************)
(* A fill that ends has filled all that it was asked to: what lies before  *)
(* the position in memory, before the block to write and before the        *)
(* position on disc has been dealt with, by this run or by those it        *)
(* resumes.                                                                *)
(***************************************************************************)
IsSeries(s) ==
  s = [job |-> s.job, pure |-> s.pure, guess |-> s.guess, holes |-> s.holes,
       done |-> s.done, failed |-> s.failed]
SeriesOk(s, j) == IsSeries(s) /\ (s.pure => s.job = j)

\* Two series of the same runs.
SameSeries(t, s) ==
  IsSeries(t) /\ t.job = s.job /\ t.pure = s.pure /\ t.guess = s.guess /\ t.holes = s.holes

LEMMA SeriesWith ==
  ASSUME NEW s, IsSeries(s), NEW x
  PROVE  /\ LET t == [s EXCEPT !.done = x]
            IN  SameSeries(t, s) /\ t.done = x /\ t.failed = s.failed
         /\ LET t == [s EXCEPT !.failed = x]
            IN  SameSeries(t, s) /\ t.done = s.done /\ t.failed = x
BY DEF IsSeries, SameSeries

Resumed(t, s, x, y) == t = [s EXCEPT !.pure = x, !.guess = y]

LEMMA SeriesResumed ==
  ASSUME NEW s, IsSeries(s), NEW x, NEW y, NEW t, Resumed(t, s, x, y)
  PROVE  /\ IsSeries(t) /\ t.job = s.job /\ t.pure = x /\ t.guess = y
         /\ t.holes = s.holes /\ t.done = s.done /\ t.failed = s.failed
<1>1. DOMAIN s = {"job", "pure", "guess", "holes", "done", "failed"}
    BY DEF IsSeries
<1>2. t = [i \in DOMAIN s |-> IF i = "guess" THEN y ELSE IF i = "pure" THEN x ELSE s[i]]
    BY Zenon DEF Resumed
<1>3. /\ t.job = s.job /\ t.pure = x /\ t.guess = y
      /\ t.holes = s.holes /\ t.done = s.done /\ t.failed = s.failed
    BY <1>1, <1>2
<1>4. t = [job |-> t.job, pure |-> t.pure, guess |-> t.guess, holes |-> t.holes,
           done |-> t.done, failed |-> t.failed]
    BY <1>1, <1>2
<1>. QED  BY Zenon, <1>3, <1>4 DEF IsSeries

Tried(s) == s.done \cup s.failed
Dealt(m, j, s, q) == \A p \in ToFill(m.lines, j.types, j.domain) : p < q => p \in Tried(s)
AllDealt(m, j, s) == ToFill(m.lines, j.types, j.domain) \subseteq Tried(s)

\* What a fill has dealt with ...
FillRun(q, j, k, x, a, r, m, s) ==
  q # "none" /\ j.mode = "fill" /\ s.pure =>
    /\ Dealt(m, j, s, k.pos)
    /\ q = "fill" /\ x.size > 0 => Dealt(m, j, s, x.pos)
    /\ q = "fill" /\ ~(x.size > 0) /\ a > 0 => Dealt(m, j, s, end(k.v[a]))
    /\ q = "end" /\ r = "ok" => AllDealt(m, j, s)

\* ... and what those before the next one have.
FillSaved(m, s) ==
  /\ s.pure /\ s.job.mode = "fill" /\ m.status = "filling"
  /\ m.pos \in InDomains(s.job.domain) /\ \E t : Holds(BlocksOf(m.lines), m.pos, t)
  => Dealt(m, s.job, s, m.pos)
FillEnded(q, j, r, m, s) ==
  q = "none" /\ j.mode = "fill" /\ r = "ok" /\ s.pure =>
    Consecutive(m.lines) /\ AllDealt(m, j, s)

FillInv ==
  /\ SeriesOk(series, job)
  /\ FillRun(pc, job, book, b, area, retval, mapfile, series)
  /\ FillSaved(mapfile, series)
  /\ FillEnded(pc, job, retval, mapfile, series)

LEMMA SameToFill ==
  ASSUME NEW u, NEW v, Same(BlocksOf(u), BlocksOf(v)), NEW types, NEW d
  PROVE  ToFill(u, types, d) = ToFill(v, types, d)
<1>1. \A p, t : Holds(BlocksOf(u), p, t) <=> Holds(BlocksOf(v), p, t)
    BY SameHolds
<1>. QED  BY <1>1 DEF ToFill

\* More is dealt with as more is tried.
LEMMA DealtGrows ==
  ASSUME NEW m, NEW n, NEW j, Same(BlocksOf(n.lines), BlocksOf(m.lines)),
         NEW s, NEW t, Tried(s) \subseteq Tried(t)
  PROVE  /\ \A q : Dealt(m, j, s, q) => Dealt(n, j, t, q)
         /\ AllDealt(m, j, s) => AllDealt(n, j, t)
<1>1. ToFill(n.lines, j.types, j.domain) = ToFill(m.lines, j.types, j.domain)
    BY SameToFill
<1>. QED  BY <1>1 DEF Dealt, AllDealt

\* Once a block has been dealt with, all before its end has.
LEMMA DealtOn ==
  ASSUME NEW m, NEW j, NEW s, NEW c, c.pos \in Nat, end(c) \in Nat, Dealt(m, j, s, c.pos),
         NEW t, Tried(s) \cup (c.pos .. end(c) - 1) \subseteq Tried(t)
  PROVE  Dealt(m, j, t, end(c))
<1>1. ASSUME NEW p \in ToFill(m.lines, j.types, j.domain), p < end(c), p \in Int
      PROVE  p \in Tried(t)
    BY <1>1 DEF Dealt
<1>2. ToFill(m.lines, j.types, j.domain) \subseteq Int
    BY DEF ToFill, Holds, Bytes
<1>. QED  BY <1>1, <1>2 DEF Dealt

\* What is to be filled, and not dealt with before the next area, lies in an area that
\* is still to come.
LEMMA UntilNext ==
  ASSUME ModesInv, FillInv, pc = "fill", ~(b.size > 0), series.pure,
         NEW p \in ToFill(mapfile.lines, job.types, job.domain), p \notin Tried(series)
  PROVE  \E i \in NextAreas : p \in Bytes(book.v[i])
<1> DEFINE v == book.v
           d == book.domain
<1>0. job.mode = "fill"
    BY Zenon, FillStepIsFill
<1>1. /\ Chain(v) /\ FillsMap(book, mapfile, job.domain) /\ Loaded(book, "fill") /\ IsDomain(d)
      /\ FillsArea(book, job.types, area, b) /\ book.pos \in 0 .. LLONG_MAX
    BY Zenon, <1>0, WhileFilling
<1>2. PICK t \in job.types : Holds(BlocksOf(mapfile.lines), p, t)
    BY Zenon DEF ToFill
<1>3. Holds(BlocksOf(v), p, t)
    BY Zenon, <1>1, <1>2, SameHolds DEF FillsMap
<1>4. PICK i \in 1 .. Len(v) : p \in Bytes(v[i]) /\ v[i].st = t
    BY <1>3 DEF Holds, BlocksOf
<1>5. p \in InDomains(d)
    BY <1>1, <1>4 DEF FillsMap, ToFill
<1>6. /\ v[i].pos \in Nat /\ end(v[i]) \in Nat /\ v[i] \in Blocks /\ v[i].size > 0
      /\ end(v[i]) <= LLONG_MAX /\ v[i].pos < end(v[i])
    BY <1>1, ChainBlocks
<1>7. GoodBlock(v[i])
    BY Zenon, <1>6 DEF GoodBlock
<1>8. SplitFrom({v[i]}, d, 1)
    BY <1>1 DEF Loaded, SplitFrom, BlocksOf
<1>9. InDomain(d, v[i])
    BY Zenon, <1>1, <1>4, <1>5, <1>7, <1>8, BlockOfPosition
<1>10. /\ Dealt(mapfile, job, series, book.pos)
       /\ area > 0 => Dealt(mapfile, job, series, end(v[area]))
    BY Zenon, <1>0 DEF FillInv, FillRun
<1>11. /\ p \in Nat /\ v[i].pos <= p /\ p < end(v[i])
    BY Zenon, <1>4, <1>6, BytesAre
<1>12. area \in 0 .. Len(v) /\ Len(v) \in Nat /\ DOMAIN v = 1 .. Len(v)
    BY <1>1, ChainTypes DEF FillsArea
<1>13. i > area
  <2>1. SUFFICES ASSUME i <= area PROVE FALSE
      BY <1>12
  <2>2. area \in 1 .. Len(v)
      BY <1>12, <2>1
  <2>3. v[area].pos < end(v[area]) /\ end(v[area]) \in Nat /\ v[area].pos \in Nat
      BY <1>1, <2>2, ChainBlocks
  <2>4. end(v[i]) <= end(v[area])
    <3>1. CASE i = area
        BY <2>3, <3>1
    <3>2. CASE i < area
      <4>1. end(v[i]) <= v[area].pos
          BY <1>1, <2>2, <3>2, ChainInOrder
      <4>. QED  BY <1>6, <2>3, <4>1
    <3>. QED  BY <1>12, <2>1, <3>1, <3>2
  <2>5. p < end(v[area]) /\ area > 0
      BY <1>6, <1>11, <2>2, <2>3, <2>4
  <2>. QED  BY Zenon, <1>10, <2>5 DEF Dealt
<1>14. end(v[i]) > book.pos
  <2>1. SUFFICES ASSUME end(v[i]) <= book.pos PROVE FALSE
      BY <1>1, <1>6
  <2>2. p < book.pos
      BY <1>1, <1>6, <1>11, <2>1
  <2>. QED  BY Zenon, <1>10, <2>2 DEF Dealt
<1>15. i \in area + 1 .. Len(v)
    BY <1>12, <1>13
<1>. QED  BY Zenon, <1>2, <1>4, <1>9, <1>14, <1>15 DEF NextAreas

\* A step of a fill that goes on keeps all this if the new position, the new block and
\* the end of the main loop are reached with all before them dealt with.
LEMMA FillProceeds ==
  ASSUME FillInv, ModesInv, pc = "fill", pc' \in {"fill", "end"}, job' = job,
         NEW l, l = book', mapfile' = mapfile \/ mapfile' = Saved(l),
         NEW n, n = mapfile', Same(BlocksOf(n.lines), BlocksOf(mapfile.lines)),
         NEW s, s = series', SameSeries(s, series), Tried(series) \subseteq Tried(s),
         series.pure => /\ Dealt(mapfile, job, s, l.pos)
                        /\ pc' = "fill" /\ b'.size > 0 => Dealt(mapfile, job, s, b'.pos)
                        /\ pc' = "fill" /\ ~(b'.size > 0) /\ area' > 0 =>
                             Dealt(mapfile, job, s, end(l.v[area']))
                        /\ pc' = "end" /\ retval' = "ok" => AllDealt(mapfile, job, s)
  PROVE  FillInv'
<1>1. IsSeries(s) /\ s.job = series.job /\ s.pure = series.pure
    BY Zenon DEF SameSeries
<1>2. SeriesOk(s, job)
    BY Zenon, <1>1 DEF FillInv, SeriesOk
<1>3. /\ \A q : Dealt(mapfile, job, s, q) => Dealt(n, job, s, q)
      /\ AllDealt(mapfile, job, s) => AllDealt(n, job, s)
    BY Zenon, DealtGrows, SameSets
<1>4. FillRun(pc', job, l, b', area', retval', n, s)
    BY Zenon, <1>1, <1>3 DEF FillRun
<1>5. FillSaved(n, s)
  <2>1. SUFFICES ASSUME s.pure, s.job.mode = "fill", n.status = "filling",
                        n.pos \in InDomains(s.job.domain),
                        \E t : Holds(BlocksOf(n.lines), n.pos, t)
                 PROVE  Dealt(n, s.job, s, n.pos)
      BY Zenon DEF FillSaved
  <2>2. s.job = job /\ series.pure /\ series.job = job
      BY Zenon, <1>1, <1>2, <2>1 DEF SeriesOk
  <2>3. CASE n = mapfile
    <3>1. Dealt(mapfile, series.job, series, mapfile.pos)
        BY Zenon, <1>1, <2>1, <2>3 DEF FillInv, FillSaved
    <3>2. Dealt(mapfile, job, series, mapfile.pos)
        BY Zenon, <2>2, <3>1
    <3>3. Dealt(n, job, s, mapfile.pos)
        BY Zenon, <2>3, <3>2, SameSets, DealtGrows
    <3>. QED  BY Zenon, <2>2, <2>3, <3>3
  <2>4. CASE n = Saved(l)
    <3>1. n.pos = l.pos
        BY <2>4 DEF Saved
    <3>. QED  BY Zenon, <1>3, <2>2, <3>1
  <2>. QED  BY Zenon, <2>3, <2>4
<1>6. FillEnded(pc', job, retval', n, s)
    BY DEF FillEnded
<1>. QED  BY Zenon, <1>2, <1>4, <1>5, <1>6 DEF FillInv

\* What the steps of a fill know of the mapfile they may save.
LEMMA FillSavesSame ==
  ASSUME ModesInv, pc = "fill", NEW l, l.v = book.v, NEW n, n = mapfile \/ n = Saved(l)
  PROVE  Same(BlocksOf(n.lines), BlocksOf(mapfile.lines))
<1>1. FillsMap(book, mapfile, job.domain)
    BY Zenon, FillStepIsFill, WhileFilling
<1>2. n = Saved(l) => n.lines = l.v
    BY DEF Saved
<1>. QED  BY Zenon, <1>1, <1>2, SameSets DEF FillsMap

LEMMA SameSeriesIs ==
  ASSUME NEW s, IsSeries(s)  PROVE  SameSeries(s, s)
BY DEF SameSeries

LEMMA FillAreaDeals == ASSUME ModesInv, FillInv, FillArea  PROVE  FillInv'
<1> DEFINE i == Min(NextAreas)
           l == book'
           v == book.v
<1>1. /\ pc = "fill" /\ ~(b.size > 0) /\ NextAreas # {} /\ pc' = pc /\ job' = job
      /\ mapfile' = mapfile /\ series' = series
    BY DEF FillArea, disc
<1>2. /\ l.v = book.v /\ l.pos = book.pos /\ b'.size > 0
      /\ b'.pos = IF includes_pos(v[i], book.pos) THEN book.pos ELSE v[i].pos
    BY Zenon, AreaBegins
<1>3. /\ \A j \in NextAreas : i <= j
      /\ i \in 1 .. Len(v) /\ NextAreas \subseteq 1 .. Len(v)
  <2>1. /\ \A j \in NextAreas : i <= j
        /\ i \in 1 .. Len(v) /\ area \in Nat
      BY Zenon, <1>1, AreaIsNext
  <2>2. NextAreas \subseteq area + 1 .. Len(v)
      BY Zenon DEF NextAreas
  <2>. QED  BY <2>1, <2>2
<1>4. Chain(v) /\ book.pos \in Nat
  <2>1. Chain(v) /\ book.pos \in 0 .. LLONG_MAX
      BY Zenon, <1>1, FillStepIsFill, WhileFilling
  <2>. QED  BY <2>1
<1>5. ASSUME series.pure
      PROVE  Dealt(mapfile, job, series, book.pos) /\ Dealt(mapfile, job, series, b'.pos)
  <2>1. Dealt(mapfile, job, series, book.pos)
      BY Zenon, <1>1, <1>5, FillStepIsFill DEF FillInv, FillRun
  <2>2. ASSUME NEW p \in ToFill(mapfile.lines, job.types, job.domain), p < v[i].pos,
               p \notin Tried(series)
        PROVE  FALSE
    <3>1. PICK j \in NextAreas : p \in Bytes(v[j])
        BY Zenon, <1>1, <1>5, <2>2, UntilNext
    <3>2. /\ i <= j /\ j \in 1 .. Len(v) /\ i \in 1 .. Len(v)
          /\ v[i].pos \in Nat /\ end(v[i]) \in Nat /\ v[i].pos < end(v[i])
          /\ v[j].pos \in Nat /\ end(v[j]) \in Nat
        BY <1>3, <1>4, <3>1, ChainBlocks
    <3>3. v[i].pos <= v[j].pos
      <4>1. CASE i = j
          BY <3>2, <4>1
      <4>2. CASE i < j
        <5>1. end(v[i]) <= v[j].pos
            BY <1>4, <3>2, <4>2, ChainInOrder
        <5>. QED  BY <3>2, <5>1
      <4>. QED  BY <3>2, <4>1, <4>2
    <3>4. p \in Nat /\ v[j].pos <= p
        BY Zenon, <3>1, <3>2, BytesAre
    <3>. QED  BY <2>2, <3>2, <3>3, <3>4
  <2>3. Dealt(mapfile, job, series, v[i].pos)
      BY Zenon, <2>2 DEF Dealt
  <2>. QED  BY Zenon, <1>2, <2>1, <2>3
<1>6. SameSeries(series, series)
    BY Zenon, SameSeriesIs DEF FillInv, SeriesOk
<1> DEFINE n == mapfile'
           s == series'
<1>7. /\ n = mapfile /\ s = series /\ Same(BlocksOf(n.lines), BlocksOf(mapfile.lines))
    BY Zenon, <1>1, SameSets
<1> HIDE DEF n, s, l
<1>. QED  BY Zenon, <1>1, <1>2, <1>5, <1>6, <1>7, FillProceeds DEF n, s, l

LEMMA NoAreaLeftDeals == ASSUME ModesInv, FillInv, NoAreaLeft  PROVE  FillInv'
<1>1. /\ pc = "fill" /\ ~(b.size > 0) /\ NextAreas = {} /\ pc' = "end" /\ job' = job
      /\ mapfile' = mapfile /\ series' = series /\ book' = book /\ retval' = "ok"
    BY DEF NoAreaLeft, Leave, disc
<1>2. ASSUME series.pure
      PROVE  Dealt(mapfile, job, series, book.pos) /\ AllDealt(mapfile, job, series)
  <2>1. Dealt(mapfile, job, series, book.pos)
      BY Zenon, <1>1, <1>2, FillStepIsFill DEF FillInv, FillRun
  <2>2. \A p \in ToFill(mapfile.lines, job.types, job.domain) : p \in Tried(series)
      BY Zenon, <1>1, <1>2, UntilNext
  <2>. QED  BY Zenon, <2>1, <2>2 DEF AllDealt
<1>3. SameSeries(series, series)
    BY Zenon, SameSeriesIs DEF FillInv, SeriesOk
<1> DEFINE n == mapfile'
           s == series'
           l == book'
<1>4. /\ n = mapfile /\ s = series /\ Same(BlocksOf(n.lines), BlocksOf(mapfile.lines))
      /\ l = book
    BY Zenon, <1>1, SameSets
<1>5. "end" # "fill"
    OBVIOUS
<1> HIDE DEF n, s, l
<1>. QED  BY Zenon, <1>1, <1>2, <1>3, <1>4, <1>5, FillProceeds DEF n, s, l

LEMMA FillInterruptedDeals == ASSUME ModesInv, FillInv, FillInterrupted  PROVE  FillInv'
<1>1. /\ pc = "fill" /\ b.size > 0 /\ pc' = "end" /\ job' = job /\ book' = AtBlock
      /\ mapfile' = mapfile /\ series' = series /\ retval' = "signaled"
    BY DEF FillInterrupted, Interrupted, Leave, disc
<1>2. AtBlock.v = book.v /\ AtBlock.pos = b.pos
    BY Zenon, <1>1, AtBlockIs
<1>3. ASSUME series.pure
      PROVE  Dealt(mapfile, job, series, b.pos)
    BY Zenon, <1>1, <1>3, FillStepIsFill DEF FillInv, FillRun
<1>4. SameSeries(series, series)
    BY Zenon, SameSeriesIs DEF FillInv, SeriesOk
<1> DEFINE n == mapfile'
           s == series'
           l == book'
<1>5. /\ n = mapfile /\ s = series /\ Same(BlocksOf(n.lines), BlocksOf(mapfile.lines))
      /\ l.pos = b.pos
    BY Zenon, <1>1, <1>2, SameSets
<1>6. "end" # "fill" /\ "signaled" # "ok"
    OBVIOUS
<1> HIDE DEF n, s, l
<1>. QED  BY Zenon, <1>1, <1>3, <1>4, <1>5, <1>6, FillProceeds DEF n, s, l

\* A block that has been dealt with, and what remains of its area.
LEMMA ContinueDeals ==
  ASSUME ModesInv, FillInv, pc = "fill", b.size > 0, job' = job, area' = area, book' = AtBlock,
         Continue, NEW s, s = series', SameSeries(s, series),
         Tried(series) \cup FirstBytes(b.size) \subseteq Tried(s)
  PROVE  FillInv'
<1> DEFINE l == book'
           n == mapfile'
           c == b'
           v == book.v
<1>1. /\ n = mapfile \/ n = Saved(AtBlock)
      /\ \/ pc' = "fill" /\ c.pos = end(b) /\ (c.size > 0 \/ end(b) = end(v[area]))
         \/ pc' = "end" /\ retval' = "unsaved"
    BY Zenon, ContinueIs
<1>2. AtBlock.v = book.v /\ AtBlock.pos = b.pos /\ IsChunk(b)
    BY Zenon, AtBlockIs
<1>3. l = AtBlock
    OBVIOUS
<1>4. b.pos \in Nat /\ end(b) \in Nat /\ FirstBytes(b.size) = b.pos .. end(b) - 1
    BY <1>2 DEF IsChunk, FirstBytes, end
<1>5. ASSUME series.pure
      PROVE  Dealt(mapfile, job, s, b.pos) /\ Dealt(mapfile, job, s, end(b))
  <2>1. Dealt(mapfile, job, series, b.pos)
      BY Zenon, <1>5, FillStepIsFill DEF FillInv, FillRun
  <2>2. Dealt(mapfile, job, s, end(b))
    <3>1. Tried(series) \cup (b.pos .. end(b) - 1) \subseteq Tried(s)
        BY Zenon, <1>4
    <3>. QED  BY Zenon, <1>4, <2>1, <3>1, DealtOn
  <2>3. Dealt(mapfile, job, s, b.pos)
    <3>1. Tried(series) \subseteq Tried(s)
        OBVIOUS
    <3>. QED  BY Zenon, <2>1, <3>1, SameSets, DealtGrows
  <2>. QED  BY <2>2, <2>3
<1>6. Same(BlocksOf(n.lines), BlocksOf(mapfile.lines))
  <2> HIDE DEF n
  <2>. QED  BY Zenon, <1>1, <1>2, FillSavesSame
<1>7. Tried(series) \subseteq Tried(s) /\ pc' \in {"fill", "end"}
    BY <1>1
<1>8. "end" # "fill" /\ "unsaved" # "ok"
    OBVIOUS
<1>9. n = mapfile \/ n = Saved(l)
    BY Zenon, <1>1, <1>3
<1>10. l.v = v /\ l.pos = b.pos
    BY Zenon, <1>2, <1>3
<1> HIDE DEF n, l, v
<1>11. series.pure => /\ Dealt(mapfile, job, s, l.pos)
                      /\ pc' = "fill" /\ c.size > 0 => Dealt(mapfile, job, s, c.pos)
                      /\ pc' = "fill" /\ ~(c.size > 0) /\ area' > 0 =>
                           Dealt(mapfile, job, s, end(l.v[area']))
                      /\ pc' = "end" /\ retval' = "ok" => AllDealt(mapfile, job, s)
    BY Zenon, <1>1, <1>5, <1>8, <1>10
<1>. QED  BY Zenon, <1>6, <1>7, <1>9, <1>11, FillProceeds DEF n, l

LEMMA FillBlockDeals == ASSUME ModesInv, FillInv, FillBlock  PROVE  FillInv'
<1>1. /\ pc = "fill" /\ b.size > 0 /\ book' = AtBlock /\ Continue /\ job' = job /\ area' = area
      /\ series' = [series EXCEPT !.done = @ \cup FirstBytes(b.size)]
    BY DEF FillBlock
<1> DEFINE s == [series EXCEPT !.done = series.done \cup FirstBytes(b.size)]
<1>2. SameSeries(s, series) /\ s.done = series.done \cup FirstBytes(b.size)
      /\ s.failed = series.failed
    BY Zenon, SeriesWith DEF FillInv, SeriesOk
<1>3. s = series'
    BY <1>1
<1> HIDE DEF s
<1>4. Tried(series) \cup FirstBytes(b.size) \subseteq Tried(s)
    BY <1>2 DEF Tried
<1>. QED  BY Zenon, <1>1, <1>2, <1>3, <1>4, ContinueDeals

LEMMA FillFailsDeals == ASSUME ModesInv, FillInv, FillFails  PROVE  FillInv'
<1>1. /\ pc = "fill" /\ b.size > 0 /\ book' = AtBlock /\ job' = job /\ area' = area
      /\ pc' \in {"fill", "end"}
    BY Zenon, FailureIs DEF FillFails
<1>2. CASE /\ Continue
           /\ series' = [series EXCEPT !.failed = @ \cup FirstBytes(b.size)]
  <2> DEFINE s == [series EXCEPT !.failed = series.failed \cup FirstBytes(b.size)]
  <2>1. SameSeries(s, series) /\ s.failed = series.failed \cup FirstBytes(b.size)
        /\ s.done = series.done
      BY Zenon, SeriesWith DEF FillInv, SeriesOk
  <2>2. s = series'
      BY <1>2
  <2> HIDE DEF s
  <2>3. Tried(series) \cup FirstBytes(b.size) \subseteq Tried(s)
      BY <2>1 DEF Tried
  <2>. QED  BY Zenon, <1>1, <1>2, <2>1, <2>2, <2>3, ContinueDeals
<1>3. ASSUME series' = series,
             \/ pc' = "end" /\ retval' = "error"
             \/ pc' = "fill" /\ b'.pos = b.pos /\ b'.size > 0
      PROVE  FillInv'
  <2> DEFINE n == mapfile'
             s == series'
             l == book'
  <2>1. n = mapfile \/ n = Saved(AtBlock)
      BY Zenon, FailureIs
  <2>2. AtBlock.v = book.v /\ AtBlock.pos = b.pos
      BY Zenon, <1>1, AtBlockIs
  <2>3. l = AtBlock /\ s = series
      BY <1>1, <1>3
  <2> HIDE DEF n, s, l
  <2>4. Same(BlocksOf(n.lines), BlocksOf(mapfile.lines)) /\ l.pos = b.pos
      BY Zenon, <1>1, <2>1, <2>2, <2>3, FillSavesSame
  <2>5. ASSUME series.pure  PROVE  Dealt(mapfile, job, series, b.pos)
      BY Zenon, <1>1, <2>5, FillStepIsFill DEF FillInv, FillRun
  <2>6. SameSeries(series, series)
      BY Zenon, SameSeriesIs DEF FillInv, SeriesOk
  <2>7. "end" # "fill" /\ "error" # "ok"
      OBVIOUS
  <2>8. series.pure =>
            /\ Dealt(mapfile, job, s, l.pos)
            /\ pc' = "fill" /\ b'.size > 0 => Dealt(mapfile, job, s, b'.pos)
            /\ pc' = "fill" /\ ~(b'.size > 0) /\ area' > 0 =>
                 Dealt(mapfile, job, s, end(l.v[area']))
            /\ pc' = "end" /\ retval' = "ok" => AllDealt(mapfile, job, s)
      BY Zenon, <1>3, <2>3, <2>4, <2>5, <2>7
  <2>9. n = mapfile \/ n = Saved(l)
      BY Zenon, <2>1, <2>3
  <2>. QED  BY Zenon, <1>1, <2>3, <2>4, <2>6, <2>8, <2>9, FillProceeds DEF n, s, l
<1>. QED  BY Zenon, <1>2, <1>3, FailureIs

\* A fill that ends leaves on disc how far it has come.
LEMMA EndDeals == ASSUME ModesInv, FillInv, End, job.mode = "fill"  PROVE  FillInv'
<1> DEFINE n == mapfile'
           k == [book EXCEPT !.status = EndStatus]
<1>0. pc = "end" /\ job' = job /\ series' = series /\ pc' = "none"
    BY DEF End, Exit, Finish
<1>1. Loaded(book, "fill") /\ GoodMap(mapfile) /\ Chain(book.v)
      /\ FillsMap(book, mapfile, job.domain)
    BY Zenon, <1>0, WhileFilling
<1>2. Loaded(k, "fill") /\ k.v = book.v /\ k.pos = book.pos
    BY Zenon, <1>1, BookWithStatus
<1>3. /\ Consecutive(mapfile.lines) /\ Consecutive(book.v) /\ book.v # <<>>
      /\ Same(BlocksOf(book.v), BlocksOf(mapfile.lines))
    BY Zenon, <1>1 DEF FillsMap, Chain
<1> DEFINE w == compact_sblock_vector(book.v)
<1>4. Consecutive(w) /\ Same(BlocksOf(w), BlocksOf(mapfile.lines))
  <2> DEFINE v == book.v
  <2>1. Row(w, v[1], v[Len(v)]) /\ Same(BlocksOf(w), BlocksOf(v))
      BY Zenon, <1>3, CompactIsSame
  <2>2. Consecutive(w)
      BY Zenon, <2>1 DEF Row
  <2>. QED  BY Zenon, <1>3, <2>1, <2>2, SameTransitive
<1>5. /\ n = mapfile \/ (n.lines = w /\ n.pos = book.pos)
      /\ retval' = "ok" => retval = "ok"
  <2>1. CASE retval = "unsaved"
      BY <2>1 DEF End, disc
  <2>2. CASE retval # "unsaved"
    <3>1. Finish(k)
        BY Zenon, <2>2 DEF End
    <3> DEFINE kv == k.v
    <3>2. kv = book.v
        BY <1>2
    <3> HIDE DEF k
    <3>3. /\ \/ n = mapfile
             \/ n = [lines |-> compact_sblock_vector(k.v), status |-> k.status, pos |-> k.pos]
          /\ retval' = retval \/ retval' = "error"
        BY Zenon, <1>1, <1>2, <3>1, FinishIs
    <3>4. n = mapfile \/ (n.lines = compact_sblock_vector(k.v) /\ n.pos = k.pos)
        BY <3>3
    <3>. QED  BY Zenon, <1>2, <3>3, <3>4
  <2>. QED  BY <2>1, <2>2
<1> HIDE DEF n, w
<1>6. Consecutive(n.lines) /\ Same(BlocksOf(n.lines), BlocksOf(mapfile.lines))
    BY Zenon, <1>3, <1>4, <1>5, SameSets
<1>7. /\ \A j, q : Dealt(mapfile, j, series, q) => Dealt(n, j, series, q)
      /\ \A j : AllDealt(mapfile, j, series) => AllDealt(n, j, series)
  <2>1. Tried(series) \subseteq Tried(series)
      OBVIOUS
  <2>. QED  BY Zenon, <1>6, <2>1, DealtGrows
<1>8. /\ SeriesOk(series, job) /\ FillRun(pc, job, book, b, area, retval, mapfile, series)
      /\ FillSaved(mapfile, series)
    BY Zenon DEF FillInv
<1>9. FillSaved(n, series)
  <2>1. CASE n = mapfile
      BY Zenon, <1>8, <2>1
  <2>2. CASE n.pos = book.pos
    <3>1. SUFFICES ASSUME series.pure, series.job.mode = "fill"
                   PROVE  Dealt(n, series.job, series, n.pos)
        BY Zenon DEF FillSaved
    <3>2. series.job = job
        BY Zenon, <1>8, <3>1 DEF SeriesOk
    <3>3. Dealt(mapfile, job, series, book.pos)
        BY Zenon, <1>0, <1>8, <3>1 DEF FillRun
    <3>. QED  BY Zenon, <1>7, <2>2, <3>2, <3>3
  <2>. QED  BY Zenon, <1>5, <2>1, <2>2
<1>10. FillEnded(pc', job, retval', n, series)
  <2>1. SUFFICES ASSUME retval' = "ok", series.pure
                 PROVE  AllDealt(n, job, series)
      BY Zenon, <1>6 DEF FillEnded
  <2>2. AllDealt(mapfile, job, series)
      BY Zenon, <1>0, <1>5, <1>8, <2>1 DEF FillRun
  <2>. QED  BY Zenon, <1>7, <2>2
<1>11. FillRun(pc', job, book', b', area', retval', n, series)
    BY Zenon, <1>0 DEF FillRun
<1>. QED  BY Zenon, <1>0, <1>8, <1>9, <1>10, <1>11 DEF FillInv, n

LEMMA KillDeals == ASSUME FillInv, Kill  PROVE  FillInv'
<1>1. /\ mapfile' = mapfile /\ job' = job /\ series' = series /\ pc' = "none" /\ retval' = "error"
      /\ "error" # "ok"
    BY DEF Kill, Exit, disc
<1>2. FillRun(pc', job, book', b', area', retval', mapfile, series)
    BY Zenon, <1>1 DEF FillRun
<1>3. FillEnded(pc', job, retval', mapfile, series)
    BY Zenon, <1>1 DEF FillEnded
<1>. QED  BY Zenon, <1>1, <1>2, <1>3 DEF FillInv

-----------------------------------------------------------------------------
\* The series at the start of a run, whatever its mode.
LEMMA StartsSeries ==
  ASSUME NEW j, NEW k, NEW x, NEW resumed, Start(j, k, x, resumed), SeriesOk(series, job)
  PROVE  /\ pc = "none" /\ pc' = j.mode /\ job' = j /\ SeriesOk(series', j)
         /\ series'.guess = (series.guess \/ j.mode = "generate")
         /\ \/ /\ resumed /\ series'.job = series.job
               /\ series'.pure = (series.pure /\ series.job = j)
               /\ series'.done = series.done /\ series'.failed = series.failed
               /\ series'.holes = series.holes
            \/ /\ ~resumed /\ series'.job = j /\ series'.pure
               /\ series'.done = {} /\ series'.failed = {}
               /\ series'.holes = (series.holes \/ (j.mode = "commands" /\ j.sparse))
<1>1. pc = "none" /\ pc' = j.mode /\ job' = j
    BY DEF Start
<1>2. CASE resumed
  <2> DEFINE P == series.pure /\ series.job = j
             G == series.guess \/ j.mode = "generate"
  <2>1. series' = [series EXCEPT !.pure = P, !.guess = G]
      BY <1>2 DEF Start
  <2> HIDE DEF P, G
  <2> DEFINE t == [series EXCEPT !.pure = P, !.guess = G]
  <2>6. Resumed(t, series, P, G)
      BY DEF Resumed
  <2> HIDE DEF t
  <2>5. /\ IsSeries(t) /\ t.job = series.job /\ t.pure = P
        /\ t.guess = G /\ t.holes = series.holes
        /\ t.done = series.done /\ t.failed = series.failed
    <3>1. IsSeries(series)
        BY Zenon DEF SeriesOk
    <3>. QED  BY ONLY <3>1, <2>6, SeriesResumed
  <2>2. /\ IsSeries(series') /\ series'.job = series.job /\ series'.pure = P
        /\ series'.guess = G /\ series'.holes = series.holes
        /\ series'.done = series.done /\ series'.failed = series.failed
    <3>1. series' = t
        BY <2>1 DEF t
    <3>. QED  BY Zenon, <2>5, <3>1
  <2>3. SeriesOk(series', j)
      BY Zenon, <2>2 DEF SeriesOk, P
  <2>. QED  BY Zenon, <1>1, <1>2, <2>2, <2>3 DEF P, G
<1>3. CASE ~resumed
  <2> DEFINE G == series.guess \/ j.mode = "generate"
             H == series.holes \/ (j.mode = "commands" /\ j.sparse)
  <2>1. series' = [job |-> j, pure |-> TRUE, done |-> {}, failed |-> {},
                   guess |-> G, holes |-> H]
      BY Zenon, <1>3 DEF Start
  <2> HIDE DEF G, H
  <2>2. /\ series'.job = j /\ series'.pure /\ series'.done = {} /\ series'.failed = {}
        /\ series'.guess = G /\ series'.holes = H /\ IsSeries(series')
      BY <2>1 DEF IsSeries
  <2>. QED  BY Zenon, <1>1, <1>3, <2>2 DEF SeriesOk, G, H
<1>. QED  BY <1>2, <1>3

LEMMA OtherStartIs ==
  ASSUME OtherStarts, SeriesOk(series, job)
  PROVE  /\ pc = "none" /\ pc' = job'.mode /\ job'.mode \in {"generate", "commands"}
         /\ SeriesOk(series', job')
<1>1. CASE StartGenerate
  <2>1. PICK d : \E k, x, resumed : Start([mode |-> "generate", domain |-> d], k, x, resumed)
      BY Zenon, <1>1 DEF StartGenerate
  <2> DEFINE j == [mode |-> "generate", domain |-> d]
  <2>2. PICK k, x, resumed : Start(j, k, x, resumed)
      BY Zenon, <2>1
  <2>3. j.mode = "generate"
      OBVIOUS
  <2> HIDE DEF j
  <2>4. pc = "none" /\ pc' = j.mode /\ job' = j /\ SeriesOk(series', j)
      BY Zenon, <2>2, StartsSeries
  <2>. QED  BY <2>3, <2>4
<1>2. CASE StartCommands
  <2>1. PICK a : \E k, x, resumed :
          Start([mode |-> "commands", domain |-> a.domain, sparse |-> a.sparse], k, x, resumed)
      BY Zenon, <1>2 DEF StartCommands
  <2> DEFINE j == [mode |-> "commands", domain |-> a.domain, sparse |-> a.sparse]
  <2>2. PICK k, x, resumed : Start(j, k, x, resumed)
      BY Zenon, <2>1
  <2>3. j.mode = "commands"
      OBVIOUS
  <2> HIDE DEF j
  <2>4. pc = "none" /\ pc' = j.mode /\ job' = j /\ SeriesOk(series', j)
      BY Zenon, <2>2, StartsSeries
  <2>. QED  BY <2>3, <2>4
<1>. QED  BY Zenon, <1>1, <1>2 DEF OtherStarts

\* What the steps of the other modes do to the series.
LEMMA OtherStepIs ==
  ASSUME ModesInv, IsSeries(series), pc # "none", job.mode # "fill", ModesNext
  PROVE  job' = job /\ SameSeries(series', series)
<1>0. pc \in {"generate", "commands", "copy", "end"}
    BY DEF ModesInv, RunOk
<1>1. CASE GenerateStep
  <2>1. CASE AllChecked \/ GenerateInterrupted
    <3>1. job' = job /\ series' = series
        BY <2>1 DEF AllChecked, GenerateInterrupted, Interrupted
    <3>. QED  BY Zenon, <3>1, SameSeriesIs
  <2>2. CASE CheckChunk
    <3>1. job' = job /\ \E x : series' = [series EXCEPT !.failed = x]
        BY Zenon, <2>2, CheckIs
    <3>2. PICK x : series' = [series EXCEPT !.failed = x]
        BY Zenon, <3>1
    <3> DEFINE t == [series EXCEPT !.failed = x]
    <3>3. SameSeries(t, series)
        BY Zenon, SeriesWith
    <3> HIDE DEF t
    <3>4. series' = t
        BY <3>2 DEF t
    <3>. QED  BY Zenon, <3>1, <3>3, <3>4
  <2>. QED  BY Zenon, <1>1, <2>1, <2>2 DEF GenerateStep
<1>2. CASE CopyStep \/ Command
  <2>1. job' = job /\ (series' = series \/ \E x : series' = [series EXCEPT !.done = x])
    <3>1. CASE CopyDone
        BY <3>1 DEF CopyDone
    <3>2. CASE CopyChunk
        BY <3>2 DEF CopyChunk, CopyFails
    <3>3. CASE CopyWriteFails
        BY <3>3 DEF CopyWriteFails, CopyFails
    <3>4. CASE CopyCommand \/ UpdateCommand
        BY <3>4 DEF CopyCommand, UpdateCommand
    <3>5. CASE FinishCommand \/ QuitCommand
        BY <3>5 DEF FinishCommand, QuitCommand, Finish, Exit
    <3>. QED  BY Zenon, <1>2, <3>1, <3>2, <3>3, <3>4, <3>5 DEF CopyStep, Command
  <2>2. CASE series' = series
      BY Zenon, <2>1, <2>2, SameSeriesIs
  <2>3. ASSUME NEW x, series' = [series EXCEPT !.done = x]
        PROVE  SameSeries(series', series)
    <3> DEFINE t == [series EXCEPT !.done = x]
    <3>1. SameSeries(t, series)
        BY Zenon, SeriesWith
    <3> HIDE DEF t
    <3>2. series' = t
        BY <2>3 DEF t
    <3>. QED  BY Zenon, <3>1, <3>2
  <2>. QED  BY Zenon, <2>1, <2>2, <2>3
<1>3. CASE End \/ Kill
  <2>1. job' = job /\ series' = series
      BY <1>3 DEF End, Kill, Finish, Exit
  <2>. QED  BY Zenon, <2>1, SameSeriesIs
<1>4. CASE FillStep
  <2>1. pc = "fill"
      BY <1>4 DEF FillStep, FillArea, NoAreaLeft, FillInterrupted, FillBlock, FillFails
  <2>. QED  BY <1>0, <2>1
<1>5. CASE FillStarts \/ OtherStarts
  <2>1. CASE FillStarts
      BY Zenon, <2>1, StartFillIs DEF FillStarts
  <2>2. CASE OtherStarts
      BY <2>2 DEF OtherStarts, StartGenerate, StartCommands, Start
  <2>. QED  BY <1>5, <2>1, <2>2
<1>. QED  BY Zenon, <1>1, <1>2, <1>3, <1>4, <1>5 DEF ModesNext, Work

\* What is not a fill leaves nothing of a fill behind.
LEMMA NoFill ==
  ASSUME SeriesOk(series', job'), job'.mode # "fill"  PROVE  FillInv'
<1>1. FillRun(pc', job', book', b', area', retval', mapfile', series')
    BY Zenon DEF FillRun
<1>2. FillSaved(mapfile', series')
    BY Zenon DEF FillSaved, SeriesOk
<1>3. FillEnded(pc', job', retval', mapfile', series')
    BY Zenon DEF FillEnded
<1>. QED  BY Zenon, <1>1, <1>2, <1>3 DEF FillInv

LEMMA StartFillDeals == ASSUME ModesInv, FillInv, StartFill  PROVE  FillInv'
<1> DEFINE k == book'
           j == job'
           s == series'
           m == mapfile
           d == j.domain
<1>1. /\ pc' = "fill" /\ j.mode = "fill" /\ area' = 0 /\ b' = NoBlock /\ mapfile' = mapfile
      /\ FillsMap(k, m, d) /\ IsDomain(k.domain)
      /\ \A p \in InDomains(k.domain) : \E t : Holds(BlocksOf(m.lines), p, t)
      /\ InDomains(k.domain) \subseteq InDomains(d)
      /\ \/ /\ m.status = "filling" /\ InDomainPos(k.domain, m.pos) /\ k.pos = m.pos
            /\ s = [series EXCEPT !.pure = @ /\ series.job = j,
                                  !.guess = @ \/ j.mode = "generate"]
         \/ /\ k.pos = 0 /\ s.job = j /\ s.pure
            /\ ~(m.status = "filling" /\ InDomainPos(k.domain, m.pos))
    BY Zenon, StartFillIs DEF Loaded
<1>2. SeriesOk(s, j)
  <2>1. PICK i, l, x, resumed : Start(i, l, x, resumed)
      BY DEF StartFill
  <2>. QED  BY Zenon, <2>1, StartsSeries DEF FillInv
<1>3. m.pos \in Nat /\ IsMapLines(m.lines)
    BY LimitAssumption DEF ModesInv, GoodMap
<1>4. "fill" # "none" /\ "fill" # "end" /\ ~(NoBlock.size > 0) /\ ~(0 > 0)
    BY DEF NoBlock
<1> HIDE DEF k, j, s
<1>5. InDomainPos(k.domain, m.pos) <=> m.pos \in InDomains(k.domain)
    BY Zenon, <1>1, <1>3, InDomainPosIs
<1>6. CASE /\ m.status = "filling" /\ InDomainPos(k.domain, m.pos) /\ k.pos = m.pos
           /\ s = [series EXCEPT !.pure = @ /\ series.job = j,
                                 !.guess = @ \/ j.mode = "generate"]
  <2> DEFINE P == series.pure /\ series.job = j
             G == series.guess \/ j.mode = "generate"
  <2>1. s = [series EXCEPT !.pure = P, !.guess = G]
      BY <1>6
  <2> HIDE DEF P, G
  <2> DEFINE t == [series EXCEPT !.pure = P, !.guess = G]
  <2>9. Resumed(t, series, P, G)
      BY DEF Resumed
  <2> HIDE DEF t
  <2>8. t.job = series.job /\ t.pure = P /\ t.done = series.done /\ t.failed = series.failed
    <3>1. IsSeries(series)
        BY Zenon DEF FillInv, SeriesOk
    <3>. QED  BY ONLY <3>1, <2>9, SeriesResumed
  <2>2. s.job = series.job /\ s.pure = P /\ s.done = series.done /\ s.failed = series.failed
    <3>1. s = t
        BY <2>1 DEF t
    <3>. QED  BY Zenon, <2>8, <3>1
  <2>3. Tried(s) = Tried(series)
      BY <2>2 DEF Tried
  <2>4. ASSUME s.pure  PROVE  Dealt(m, j, s, m.pos)
    <3>1. series.pure /\ series.job = j /\ s.job = j
        BY Zenon, <2>2, <2>4 DEF P
    <3>2. Dealt(m, j, series, m.pos)
        BY Zenon, <1>1, <1>5, <1>6, <3>1 DEF FillInv, FillSaved
    <3>. QED  BY Zenon, <2>3, <3>2 DEF Dealt
  <2>5. FillRun(pc', j, k, b', area', retval', m, s)
      BY Zenon, <1>1, <1>4, <1>6, <2>4 DEF FillRun
  <2>6. FillSaved(m, s)
      BY Zenon, <1>2, <2>4 DEF FillSaved, SeriesOk
  <2>7. FillEnded(pc', j, retval', m, s)
      BY Zenon, <1>1, <1>4 DEF FillEnded
  <2>. QED  BY Zenon, <1>1, <1>2, <2>5, <2>6, <2>7 DEF FillInv, j, k, s
<1>7. CASE /\ k.pos = 0 /\ s.job = j /\ s.pure
           /\ ~(m.status = "filling" /\ InDomainPos(k.domain, m.pos))
  <2>1. Dealt(m, j, s, 0)
    <3>1. \A p \in ToFill(m.lines, j.types, d) : p \in Nat
      <4>1. SUFFICES ASSUME NEW p, NEW t, Holds(BlocksOf(m.lines), p, t)  PROVE  p \in Nat
          BY DEF ToFill
      <4>2. PICK i \in 1 .. Len(m.lines) : p \in Bytes(m.lines[i])
          BY <4>1 DEF Holds, BlocksOf
      <4>3. m.lines[i].pos \in Nat /\ end(m.lines[i]) \in Nat
        <5>1. CASE m.lines = EmptyMap
            BY <5>1 DEF EmptyMap, end
        <5>2. CASE m.lines # EmptyMap
          <6>1. m.lines \in Seq(Blocks)
              BY <1>3, <5>2 DEF IsMapLines
          <6>2. m.lines[i] \in Blocks
              BY <6>1
          <6>. QED  BY <6>2 DEF Blocks, end
        <5>. QED  BY <5>1, <5>2
      <4>. QED  BY <4>2, <4>3 DEF Bytes
    <3>. QED  BY <3>1 DEF Dealt
  <2>2. FillRun(pc', j, k, b', area', retval', m, s)
      BY Zenon, <1>1, <1>4, <1>7, <2>1 DEF FillRun
  <2>3. FillSaved(m, s)
    <3>1. SUFFICES ASSUME m.status = "filling", m.pos \in InDomains(d),
                          \E t : Holds(BlocksOf(m.lines), m.pos, t)
                   PROVE  FALSE
        BY Zenon, <1>7 DEF FillSaved
    <3>2. PICK t : Holds(BlocksOf(k.v), m.pos, t)
        BY Zenon, <1>1, <3>1, SameHolds DEF FillsMap
    <3>3. PICK i \in 1 .. Len(k.v) : m.pos \in Bytes(k.v[i])
        BY <3>2 DEF Holds, BlocksOf
    <3>4. m.pos \in InDomains(k.domain)
        BY <1>1, <3>1, <3>3 DEF FillsMap
    <3>. QED  BY Zenon, <1>5, <1>7, <3>1, <3>4
  <2>4. FillEnded(pc', j, retval', m, s)
      BY Zenon, <1>1, <1>4 DEF FillEnded
  <2>. QED  BY Zenon, <1>1, <1>2, <2>2, <2>3, <2>4 DEF FillInv, j, k, s
<1>. QED  BY Zenon, <1>1, <1>6, <1>7

LEMMA FillInvKept == ASSUME ModesInv, FillInv, [ModesNext]_allvars  PROVE  FillInv'
<1>1. CASE FillStarts
    BY Zenon, <1>1, StartFillDeals DEF FillStarts
<1>2. CASE OtherStarts
  <2>1. job'.mode # "fill" /\ SeriesOk(series', job')
    <3>1. SeriesOk(series, job)
        BY Zenon DEF FillInv
    <3>2. job'.mode \in {"generate", "commands"} /\ SeriesOk(series', job')
        BY Zenon, <1>2, <3>1, OtherStartIs
    <3>. QED  BY <3>2
  <2>. QED  BY Zenon, <2>1, NoFill
<1>3. CASE UNCHANGED allvars
    BY <1>3 DEF allvars, vars, FillInv
<1>4. CASE FillStep
    BY Zenon, <1>4, FillAreaDeals, NoAreaLeftDeals, FillInterruptedDeals, FillBlockDeals,
       FillFailsDeals DEF FillStep
<1>5. CASE Kill
    BY Zenon, <1>5, KillDeals
<1>6. CASE End /\ job.mode = "fill"
    BY Zenon, <1>6, EndDeals
<1>7. CASE ModesNext /\ pc # "none" /\ job.mode # "fill"
  <2>1. SeriesOk(series, job)
      BY Zenon DEF FillInv
  <2>2. job' = job /\ SameSeries(series', series)
      BY Zenon, <1>7, <2>1, OtherStepIs DEF SeriesOk
  <2>3. SeriesOk(series', job')
      BY Zenon, <2>1, <2>2 DEF SeriesOk, SameSeries
  <2>. QED  BY Zenon, <1>7, <2>2, <2>3, NoFill
<1>8. CASE GenerateStep \/ CopyStep \/ Command \/ End
  <2>1. pc # "none"
      BY <1>8 DEF GenerateStep, AllChecked, GenerateInterrupted, CheckChunk, CopyStep, CopyDone,
         CopyChunk, CopyWriteFails, Command, CopyCommand, UpdateCommand, FinishCommand,
         QuitCommand, End
  <2>2. job.mode = "fill" => pc \in {"fill", "end"}
      BY Zenon, <2>1, WhileFilling
  <2>3. CASE job.mode = "fill"
    <3>1. End
        BY <1>8, <2>2, <2>3 DEF GenerateStep, AllChecked, GenerateInterrupted, CheckChunk,
           CopyStep, CopyDone, CopyChunk, CopyWriteFails, Command, CopyCommand, UpdateCommand,
           FinishCommand, QuitCommand
    <3>. QED  BY Zenon, <1>6, <2>3, <3>1
  <2>4. CASE job.mode # "fill"
    <3>. QED  BY Zenon, <1>3, <1>7, <2>1, <2>4
  <2>. QED  BY <2>3, <2>4
<1>. QED  BY Zenon, <1>1, <1>2, <1>3, <1>4, <1>5, <1>8 DEF ModesNext, Work

\* A fill that finishes has filled all of its types in the domain that could be
\* written, whatever the runs it resumes were interrupted or killed by.
THEOREM FillIsComplete == ModesSpec => []FillComplete
<1>1. ModesInit => FillInv
  <2>1. SUFFICES ASSUME ModesInit  PROVE  FillInv
      OBVIOUS
  <2>2. IsSeries(series) /\ ~series.pure /\ pc = "none"
      BY <2>1 DEF ModesInit, Init, IsSeries
  <2>. QED  BY Zenon, <2>2 DEF FillInv, SeriesOk, FillRun, FillSaved, FillEnded
<1>2. ModesInv /\ FillInv /\ [ModesNext]_allvars => FillInv'
    BY FillInvKept
<1>3. FillInv => FillComplete
  <2> DEFINE lines == mapfile.lines
             st == StatusOf(lines)
  <2>1. SUFFICES ASSUME FillInv, Completed("fill"),
                        NEW p \in DOMAIN st \cap InDomains(job.domain), st[p] \in job.types
                 PROVE  p \in series.done \cup series.failed
      BY Zenon DEF FillComplete
  <2>2. Consecutive(lines) /\ ToFill(lines, job.types, job.domain) \subseteq Tried(series)
      BY Zenon, <2>1 DEF FillInv, FillEnded, Completed, AllDealt
  <2>3. Holds(BlocksOf(lines), p, st[p])
      BY <2>1, <2>2, StatusIs
  <2>4. p \in ToFill(lines, job.types, job.domain)
      BY <2>1, <2>3 DEF ToFill
  <2>. QED  BY <2>2, <2>4 DEF Tried
<1>. QED  BY <1>1, <1>2, <1>3, ModesSafe, PTL DEF ModesSpec

-----------------------------------------------------------------------------
(***************************************************************************)
(* find_chunk passes over nothing of the status looked for.                *)
(***************************************************************************)

\* The part of a chunk in a block that does not end before it.
LEMMA PartBegins ==
  ASSUME NEW c, IsChunk(c), c.size > 0, NEW x, GoodBlock(x), c.pos < end(x)
  PROVE  LET y == PartFrom(c, x)
         IN  y.size > 0 /\ y.pos = IF c.pos < x.pos THEN x.pos ELSE c.pos
<1> DEFINE q == IF c.pos < x.pos THEN set_pos(c, x.pos) ELSE c
           p == IF c.pos < x.pos THEN x.pos ELSE c.pos
<1>1. /\ c.pos \in Nat /\ c.size \in Nat /\ x.pos \in Nat /\ x.size \in Nat /\ x.size > 0
      /\ end(x) = x.pos + x.size /\ end(x) <= LLONG_MAX /\ LLONG_MAX \in Nat
    BY LimitAssumption DEF IsChunk, GoodBlock, Blocks, end
<1>2. IsChunk(q) /\ q.pos = p /\ q.size > 0
  <2>1. CASE c.pos < x.pos
    <3> DEFINE f == max(x.pos, 0)
               n == min(c.size, LLONG_MAX - f)
    <3>1. f = x.pos
        BY <1>1 DEF max, BM!Larger
    <3>2. n \in Nat /\ n > 0
        BY <1>1, <3>1 DEF min, BM!Smaller
    <3>3. q = [c EXCEPT !.pos = f, !.size = n]
        BY <2>1 DEF set_pos
    <3> HIDE DEF f, n, q
    <3>4. IsChunk(q) /\ q.pos = f /\ q.size = n
        BY <1>1, <3>1, <3>2, <3>3 DEF IsChunk
    <3>. QED  BY <2>1, <3>1, <3>2, <3>4
  <2>2. CASE ~(c.pos < x.pos)
      BY <2>2
  <2>. QED  BY <2>1, <2>2
<1>3. PartFrom(c, x) = Clip(q, x)
    BY DEF PartFrom
<1>4. p \in Nat /\ p >= x.pos /\ p < end(x)
    BY <1>1
<1> HIDE DEF q, p
<1>5. CASE includes(x, q)
    BY <1>2, <1>3, <1>5 DEF Clip, p
<1>6. CASE ~includes(x, q)
  <2> DEFINE f == max(q.pos, x.pos)
             n == max(0, min(end(q), end(x)) - f)
             y == Clip(q, x)
  <2>1. y = [q EXCEPT !.pos = f, !.size = n]
      BY <1>6 DEF Clip, crop
  <2>2. f = p /\ n > 0
    <3>1. end(q) = q.pos + q.size /\ q.size \in Nat
        BY <1>2 DEF end, IsChunk
    <3>2. f = p
        BY <1>1, <1>2, <1>4 DEF max, BM!Larger
    <3> HIDE DEF f
    <3>. QED  BY <1>1, <1>2, <1>4, <3>1, <3>2 DEF max, BM!Larger, min, BM!Smaller
  <2> HIDE DEF f, n, y
  <2>3. y.pos = f /\ y.size = n
      BY <1>2, <2>1 DEF IsChunk
  <2>. QED  BY <1>3, <2>2, <2>3 DEF y, p
<1>. QED  BY <1>5, <1>6

LEMMA AlignedBegins ==
  ASSUME NEW c, IsChunk(c), c.size > 0, NEW x, NEW a \in Nat \ {0}
  PROVE  LET y == AlignedEnd(c, x, a)  IN  y.size > 0 /\ y.pos = c.pos
<1> DEFINE rest == end(c) % a
           n == c.size - rest
           y == AlignedEnd(c, x, a)
<1>1. c.pos \in Nat /\ c.size \in Nat /\ rest \in Nat
    BY DEF IsChunk, end
<1>2. CASE end(c) # end(x) /\ a > 1 /\ c.size > rest
  <2>1. y = [c EXCEPT !.size = n]
      BY <1>2 DEF AlignedEnd, align_end
  <2>2. n > 0
      BY <1>1, <1>2
  <2> HIDE DEF n, y
  <2>3. y.size = n /\ y.pos = c.pos
      BY <2>1 DEF IsChunk
  <2>. QED  BY <2>2, <2>3 DEF y
<1>3. CASE ~(end(c) # end(x) /\ a > 1 /\ c.size > rest)
    BY <1>3 DEF AlignedEnd, align_end
<1>. QED  BY <1>2, <1>3

\* The status looked for.
Sought(t, s, unfinished) == t = s \/ (unfinished /\ t # "finished")

LEMMA FoundFirst ==
  ASSUME NEW v, Memory(v), NEW index \in Int, NEW x, IsChunk(x), x.size > 0, NEW s,
         NEW d, IsDomain(d), SplitFrom(BlocksOf(v), d, 1), NEW a \in Nat \ {0},
         NEW edge, ~edge, NEW unfinished,
         NEW p, NEW t, Holds(BlocksOf(v), p, t), p \in InDomains(d), x.pos <= p,
         Sought(t, s, unfinished)
  PROVE  LET f == find_chunk(v, index, x, s, d, a, edge, unfinished)
         IN  f.b.size > 0 /\ f.b.pos <= p /\ x.pos <= f.b.pos
<1> DEFINE c    == IF x.pos < Head(v).pos THEN set_pos(x, Head(v).pos) ELSE x
           cand(i0) == {i \in i0 .. Len(v) :
                          /\ v[i].st = s \/ (unfinished /\ v[i].st # "finished")
                          /\ InDomain(d, v[i])}
           good(I) == {i \in I : edge /\ i > 1 => v[i - 1].st = "finished"}
           chunk(i) == [found |-> TRUE, index |-> i,
                        b |-> AlignedEnd(PartFrom(c, v[i]), v[i], a)]
           found(i0, I) ==
             IF i0 = 0 THEN [found |-> FALSE, b |-> NoChunk(c), index |-> 0]
             ELSE IF good(I) = {} THEN [found |-> I # {}, b |-> NoChunk(c), index |-> i0]
             ELSE chunk(Min(good(I)))
           from(i0) == found(i0, cand(i0))
           r  == find_chunk(v, index, x, s, d, a, edge, unfinished)
           i0 == find_index(v, index, c.pos)
           G  == good(cand(i0))
           i  == Min(G)
<1>1. r = IF x.size <= 0 THEN [found |-> FALSE, b |-> x, index |-> index] ELSE from(i0)
    BY Zenon DEF find_chunk
<1>2. x.pos \in Nat /\ x.size \in Nat
    BY DEF IsChunk
<1>3. IsVector(v) /\ Chain(v) /\ v[1].pos = 0 /\ Head(v).pos = 0
  <2>1. IsVector(v)
      BY Zenon, HoldsIsVector
  <2>2. Chain(v) /\ v[1].pos = 0
      BY Zenon, <2>1, VectorIsChain
  <2>3. Head(v) = v[1]
      BY <2>2, ChainTypes, HeadAndTail
  <2>. QED  BY Zenon, <2>1, <2>2, <2>3
<1>4. c = x
    BY <1>2, <1>3
<1>5. Len(v) \in Nat /\ Len(v) \in 1 .. Len(v) /\ 1 \in 1 .. Len(v)
    BY <1>3, ChainTypes
<1>6. PICK j \in 1 .. Len(v) : p \in Bytes(v[j]) /\ v[j].st = t
    BY DEF Holds, BlocksOf
<1>7. /\ v[j].pos \in Nat /\ end(v[j]) \in Nat /\ GoodBlock(v[j])
      /\ p \in Nat /\ v[j].pos <= p /\ p < end(v[j])
  <2>1. v[j].pos \in Nat /\ end(v[j]) \in Nat /\ GoodBlock(v[j])
      BY <1>3, <1>6, ChainBlocks DEF GoodBlock
  <2>. QED  BY Zenon, <1>6, <2>1, BytesAre
<1>8. SplitFrom({v[j]}, d, 1)
    BY <1>6 DEF SplitFrom, BlocksOf
<1>9. InDomain(d, v[j])
    BY Zenon, <1>6, <1>7, <1>8, BlockOfPosition
<1>10. PICK k \in 1 .. Len(v) : includes_pos(v[k], x.pos)
  <2>1. x.pos < end(v[Len(v)])
    <3>1. CASE j = Len(v)
        BY <1>2, <1>7, <3>1
    <3>2. CASE j < Len(v)
      <4>1. end(v[j]) <= v[Len(v)].pos
          BY <1>3, <1>5, <1>6, <3>2, ChainInOrder
      <4>2. v[Len(v)].pos < end(v[Len(v)]) /\ v[Len(v)].pos \in Nat /\ end(v[Len(v)]) \in Nat
          BY <1>3, <1>5, ChainBlocks
      <4>. QED  BY <1>2, <1>7, <4>1, <4>2
    <3>. QED  BY <1>5, <1>6, <3>1, <3>2
  <2>2. v[1].pos <= x.pos
      BY <1>2, <1>3
  <2>. QED  BY Zenon, <1>2, <1>3, <2>1, <2>2, SomeBlockHolds
<1>11. i0 = k
  <2>1. c.pos \in Int /\ includes_pos(v[k], c.pos)
      BY <1>2, <1>4, <1>10
  <2> HIDE DEF c
  <2>. QED  BY Zenon, <1>3, <1>10, <2>1, FindIndex
<1>12. /\ v[k].pos \in Nat /\ end(v[k]) \in Nat /\ v[k].pos <= x.pos /\ x.pos < end(v[k])
  <2>1. v[k].pos \in Nat /\ end(v[k]) \in Nat
      BY <1>3, <1>10, ChainBlocks
  <2>. QED  BY Zenon, <1>10, <2>1 DEF includes_pos
<1>13. k <= j
  <2>1. SUFFICES ASSUME j < k  PROVE FALSE
      BY <1>5, <1>6, <1>10
  <2>2. end(v[j]) <= v[k].pos
      BY <1>3, <1>6, <1>10, <2>1, ChainInOrder
  <2>. QED  BY <1>2, <1>7, <1>12, <2>2
<1>14. j \in G /\ G \subseteq k .. Len(v)
  <2>1. j \in k .. Len(v)
      BY <1>5, <1>6, <1>10, <1>13
  <2>2. j \in cand(k)
      BY Zenon, <1>6, <1>9, <2>1 DEF Sought
  <2>3. G = good(cand(k))
      BY Zenon, <1>11
  <2>4. j \in good(cand(k)) /\ good(cand(k)) \subseteq k .. Len(v)
      BY Zenon, <2>2
  <2>. QED  BY Zenon, <2>3, <2>4
<1>15. k # 0 /\ ~(x.size <= 0)
    BY <1>2, <1>10
<1>16. r = chunk(i)
  <2>1. G # {}
      BY Zenon, <1>14
  <2>2. i0 # 0
      BY Zenon, <1>11, <1>15
  <2> HIDE DEF i0, c
  <2>. QED  BY Zenon, <1>1, <1>15, <2>1, <2>2
<1>17. i \in G /\ i <= j
  <2> HIDE DEF G
  <2>1. G \in SUBSET Nat /\ G # {}
      BY <1>5, <1>10, <1>14
  <2>. QED  BY Zenon, <1>14, <2>1, MinExists
<1> HIDE DEF G
<1>18. i \in 1 .. Len(v) /\ k <= i /\ i <= j
  <2>1. i \in k .. Len(v) /\ i <= j
      BY Zenon, <1>14, <1>17
  <2> DEFINE n == Len(v)
  <2>2. n \in Nat /\ k \in 1 .. n /\ i \in k .. n /\ i <= j
      BY Zenon, <1>5, <1>10, <2>1
  <2> HIDE DEF i, n
  <2>3. i \in 1 .. n /\ k <= i /\ i <= j
      BY ONLY <2>2
  <2>. QED  BY Zenon, <2>3 DEF n
<1> HIDE DEF i
<1>19. /\ GoodBlock(v[i]) /\ v[i].pos \in Nat /\ end(v[i]) \in Nat /\ v[i].pos < end(v[i])
      BY <1>3, <1>18, ChainBlocks DEF GoodBlock
<1>20. v[i].pos <= p /\ x.pos < end(v[i])
  <2>1. v[i].pos <= v[j].pos
    <3>1. CASE i = j
        BY <1>7, <3>1
    <3>2. CASE i < j
      <4>1. end(v[i]) <= v[j].pos
          BY <1>3, <1>6, <1>18, <3>2, ChainInOrder
      <4>. QED  BY <1>7, <1>19, <4>1
    <3>. QED  BY <1>5, <1>6, <1>18, <3>1, <3>2
  <2>2. x.pos < end(v[i])
    <3>1. CASE k = i
        BY <1>12, <3>1
    <3>2. CASE k < i
      <4>1. end(v[k]) <= v[i].pos
          BY <1>3, <1>10, <1>18, <3>2, ChainInOrder
      <4>. QED  BY <1>2, <1>12, <1>19, <4>1
    <3>. QED  BY <1>5, <1>10, <1>18, <3>1, <3>2
  <2>. QED  BY <1>7, <1>19, <2>1, <2>2
<1> DEFINE y == PartFrom(x, v[i])
<1>21. IsChunk(y) /\ y.size > 0 /\ y.pos = IF x.pos < v[i].pos THEN v[i].pos ELSE x.pos
    BY Zenon, <1>19, <1>20, PartFromInside, PartBegins
<1>22. r.b = AlignedEnd(y, v[i], a)
  <2> HIDE DEF r, c
  <2>1. r.b = AlignedEnd(PartFrom(c, v[i]), v[i], a)
      BY Zenon, <1>16
  <2>2. PartFrom(c, v[i]) = y
      BY Zenon, <1>4
  <2> HIDE DEF y
  <2>. QED  BY ONLY <2>1, <2>2
<1> HIDE DEF r, y
<1>23. r.b.size > 0 /\ r.b.pos = y.pos
  <2> DEFINE z == AlignedEnd(y, v[i], a)
  <2>1. z.size > 0 /\ z.pos = y.pos
      BY Zenon, <1>21, AlignedBegins
  <2> HIDE DEF z
  <2>2. r.b = z
      BY Zenon, <1>22 DEF z
  <2>. QED  BY ONLY <2>1, <2>2
<1>24. y.pos <= p /\ x.pos <= y.pos
    BY <1>2, <1>19, <1>20, <1>21
<1>. QED  BY Zenon, <1>23, <1>24 DEF r

-----------------------------------------------------------------------------
(***************************************************************************)
(* What is generated.                                                      *)
(***************************************************************************)

HeldIn(f) == {p \in DOMAIN f : f[p] # "zero"}
Near(f, p) == \E q \in HeldIn(f) : p - q \in 1 - HardBS .. HardBS - 1
Asked(f, d) == HeldIn(f) \cap (InDomains(d) \cap DOMAIN Input)

\* v has for finished nothing that is far from all data of file f, and the rest for
\* non-tried.
TwoStatus(v, f) ==
  \A p, t : Holds(BlocksOf(v), p, t) => t = "non_tried" \/ (t = "finished" /\ Near(f, p))

\* What was asked for is finished in v, below q or everywhere, or could not be read.
CoveredAt(v, s, p) == p \in s.failed \/ Holds(BlocksOf(v), p, "finished")
Covered(v, f, d, s, q) == \A p \in Asked(f, d) : p < q => CoveredAt(v, s, p)
AllCovered(v, f, d, s) == \A p \in Asked(f, d) : CoveredAt(v, s, p)

\* What was asked for lies in the map and in the domain.
Reached(k, f, d) ==
  \A p \in Asked(f, d) : p \in InDomains(k.domain) /\ \E t : Holds(BlocksOf(k.v), p, t)

GenerateRun(q, j, k, x, r, f, s) ==
  q # "none" /\ j.mode = "generate" /\ s.pure =>
    /\ TwoStatus(k.v, f) /\ Reached(k, f, j.domain)
    /\ q = "generate" => Covered(k.v, f, j.domain, s, x.pos) /\ (x.size > 0 \/ x.pos = LLONG_MAX)
    /\ q = "end" /\ r = "ok" => AllCovered(k.v, f, j.domain, s)
    /\ q = "end" /\ r # "ok" /\ k.status = "generating" => Covered(k.v, f, j.domain, s, k.pos)

\* A run that loads m for domain d starts anew.
AtFirst(m, d) ==
  LET k == Mapbook(read_mapfile(m.lines, "none").v, d, FileSize(Input), FALSE, FALSE, HardBS)
  IN  blank(k.v) /\ ~(m.status = "generating" /\ InDomainPos(k.domain, m.pos))

GenerateSaved(m, f, s) ==
  s.pure /\ s.job.mode = "generate" =>
    \/ AtFirst(m, s.job.domain)
    \/ /\ TwoStatus(m.lines, f)
       /\ m.status = "generating" => Covered(m.lines, f, s.job.domain, s, m.pos)

GenerateEnded(q, j, r, m, f, s) ==
  q = "none" /\ j.mode = "generate" /\ r = "ok" /\ s.pure =>
    /\ Consecutive(m.lines) \/ m.lines = EmptyMap
    /\ TwoStatus(m.lines, f) /\ AllCovered(m.lines, f, j.domain, s)

GenerateInv ==
  /\ GenerateRun(pc, job, book, b, retval, outfile, series)
  /\ GenerateSaved(mapfile, outfile, series)
  /\ GenerateEnded(pc, job, retval, mapfile, outfile, series)

-----------------------------------------------------------------------------
LEMMA InputIs ==
  /\ DOMAIN Input = 0 .. FileSize(Input) - 1 /\ FileSize(Input) \in 0 .. LLONG_MAX
  /\ \A p \in DOMAIN Input : p \in Nat /\ p < FileSize(Input) /\ p < LLONG_MAX
<1>1. FileSize(Input) \in Nat
    BY Zenon, InputAssumption, FS_CardinalityType DEF IsFile, FileSize
<1>2. DOMAIN Input = 0 .. FileSize(Input) - 1 /\ FileSize(Input) <= LLONG_MAX
    BY InputAssumption DEF IsFile
<1> DEFINE n == FileSize(Input)
<1> HIDE DEF n
<1>3. n \in Nat /\ DOMAIN Input = 0 .. n - 1 /\ n <= LLONG_MAX
    BY Zenon, <1>1, <1>2 DEF n
<1>4. n \in 0 .. LLONG_MAX /\ \A p \in 0 .. n - 1 : p \in Nat /\ p < n /\ p < LLONG_MAX
    BY <1>3, LimitAssumption
<1>. QED  BY Zenon, <1>3, <1>4 DEF n

LEMMA AskedIs ==
  ASSUME NEW f, NEW d, NEW p \in Asked(f, d)
  PROVE  /\ p \in Nat /\ p < FileSize(Input) /\ p < LLONG_MAX /\ p \in 0 .. FileSize(Input) - 1
         /\ p \in InDomains(d) /\ p \in DOMAIN f /\ f[p] # "zero"
BY Zenon, InputIs DEF Asked, HeldIn

\* Maps that hold the same statuses agree.
LEMMA SameGenerated ==
  ASSUME NEW v, NEW w, \A p, t : Holds(BlocksOf(w), p, t) <=> Holds(BlocksOf(v), p, t)
  PROVE  /\ \A f : TwoStatus(v, f) => TwoStatus(w, f)
         /\ \A f, d, s, q : Covered(v, f, d, s, q) => Covered(w, f, d, s, q)
         /\ \A f, d, s : AllCovered(v, f, d, s) => AllCovered(w, f, d, s)
<1>1. \A f : TwoStatus(v, f) => TwoStatus(w, f)
    BY Zenon DEF TwoStatus
<1>2. \A s, p : CoveredAt(v, s, p) => CoveredAt(w, s, p)
    BY Zenon DEF CoveredAt
<1>. QED  BY Zenon, <1>1, <1>2 DEF Covered, AllCovered

LEMMA FailedGrows ==
  ASSUME NEW s, NEW t, s.failed \subseteq t.failed
  PROVE  /\ \A v, f, d, q : Covered(v, f, d, s, q) => Covered(v, f, d, t, q)
         /\ \A v, f, d : AllCovered(v, f, d, s) => AllCovered(v, f, d, t)
<1>1. \A v, p : CoveredAt(v, s, p) => CoveredAt(v, t, p)
    BY Zenon DEF CoveredAt
<1>. QED  BY Zenon, <1>1 DEF Covered, AllCovered

\* What a load keeps of a generated map.
LEMMA GentleGenerated ==
  ASSUME NEW v, IsVector(v), NEW X, Gentle(BlocksOf(v), X), NEW lines, X = BlocksOf(lines)
  PROVE  /\ \A f : TwoStatus(lines, f) => TwoStatus(v, f)
         /\ \A f, d, s, q : Covered(lines, f, d, s, q) => Covered(v, f, d, s, q)
<1>1. \A p : Holds(X, p, "finished") => Holds(BlocksOf(v), p, "finished")
    BY Zenon DEF Gentle, FinishedKept, Holds
<1>2. ASSUME NEW f, TwoStatus(lines, f), NEW p, NEW t, Holds(BlocksOf(v), p, t)
      PROVE  t = "non_tried" \/ (t = "finished" /\ Near(f, p))
  <2>1. PICK i \in 1 .. Len(v) : p \in Bytes(v[i]) /\ v[i].st = t
      BY <1>2 DEF Holds, BlocksOf
  <2>2. t \in Status
    <3>1. Chain(v)
        BY Zenon, VectorIsChain
    <3>2. v[i] \in Blocks
        BY <2>1, <3>1, ChainBlocks DEF GoodBlock
    <3>. QED  BY <2>1, <3>2 DEF Blocks
  <2>3. SUFFICES ASSUME t # "non_tried"  PROVE  t = "finished" /\ Near(f, p)
      OBVIOUS
  <2>4. v[i] \in BlocksOf(v)
      BY DEF BlocksOf
  <2>5. Rank(v[i]) = 0 \/ \E y \in X : p \in Bytes(y) /\ Rank(v[i]) <= Rank(y)
      BY Zenon, <2>1, <2>4 DEF Gentle, NoMoreProcessed
  <2>6. Rank(v[i]) > 0 /\ Rank(v[i]) \in Nat
      BY <2>1, <2>2, <2>3 DEF Rank, processed_state, BM!processed_state, Status, BM!Status
  <2>7. PICK y \in X : p \in Bytes(y) /\ Rank(v[i]) <= Rank(y)
      BY <2>5, <2>6
  <2>8. Holds(X, p, y.st)
      BY Zenon, <2>7 DEF Holds
  <2>9. y.st = "non_tried" \/ (y.st = "finished" /\ Near(f, p))
      BY Zenon, <1>2, <2>8 DEF TwoStatus
  <2>10. y.st = "finished" /\ Near(f, p)
    <3>1. y.st = "non_tried" => Rank(y) = 0
        BY Ranks DEF Rank
    <3>. QED  BY <2>6, <2>7, <2>9, <3>1
  <2>11. Holds(BlocksOf(v), p, "finished")
      BY Zenon, <1>1, <2>8, <2>10
  <2>12. v[i].st = "finished"
      BY Zenon, <2>1, <2>11, HeldOnce
  <2>. QED  BY Zenon, <2>1, <2>10, <2>12
<1>3. \A f : TwoStatus(lines, f) => TwoStatus(v, f)
    BY Zenon, <1>2 DEF TwoStatus
<1>4. \A s, p : CoveredAt(lines, s, p) => CoveredAt(v, s, p)
    BY Zenon, <1>1 DEF CoveredAt
<1>. QED  BY Zenon, <1>3, <1>4 DEF Covered

-----------------------------------------------------------------------------
\* What was asked for and is neither finished nor given up is found.
LEMMA FoundUntried ==
  ASSUME ModesInv, GenerateInv, pc = "generate", series.pure,
         NEW p \in Asked(outfile, job.domain), ~CoveredAt(book.v, series, p)
  PROVE  Found.b.size > 0 /\ Found.b.pos <= p
<1> DEFINE F == FALSE
           t == "non_tried"
           f == find_chunk(book.v, book.index, b, t, book.domain, HardBS, F, F)
<1>1. job.mode = "generate"
    BY Zenon, FoundIs
<1>2. "generate" # "none" /\ "generate" # "fill" /\ ~F
    OBVIOUS
<1>3. /\ TwoStatus(book.v, outfile) /\ Reached(book, outfile, job.domain)
      /\ Covered(book.v, outfile, job.domain, series, b.pos) /\ (b.size > 0 \/ b.pos = LLONG_MAX)
    BY Zenon, <1>1, <1>2 DEF GenerateInv, GenerateRun
<1>4. /\ book.index \in Int /\ IsChunk(b) /\ Memory(book.v) /\ IsDomain(book.domain)
      /\ SplitFrom(BlocksOf(book.v), book.domain, 1)
    BY Zenon, <1>1, <1>2, WhileInMap
<1>5. p \in Nat /\ p < LLONG_MAX
    BY Zenon, AskedIs
<1>6. b.pos <= p
  <2>1. ~(p < b.pos)
      BY Zenon, <1>3 DEF Covered
  <2>. QED  BY <1>4, <1>5, <2>1 DEF IsChunk
<1>7. b.size > 0
    BY <1>3, <1>5, <1>6, LimitAssumption
<1>8. Holds(BlocksOf(book.v), p, t) /\ p \in InDomains(book.domain)
  <2>1. PICK u : Holds(BlocksOf(book.v), p, u)
      BY Zenon, <1>3 DEF Reached
  <2>2. u = t
      BY Zenon, <1>3, <2>1 DEF TwoStatus, CoveredAt
  <2>. QED  BY Zenon, <1>3, <2>1, <2>2 DEF Reached
<1>9. Sought(t, t, F)
    BY DEF Sought
<1>10. HardBS \in Nat \ {0}
    BY SizesAssumption
<1> HIDE DEF F, t
<1>11. f.b.size > 0 /\ f.b.pos <= p
    BY Zenon, <1>2, <1>4, <1>6, <1>7, <1>8, <1>9, <1>10, FoundFirst
<1>. QED  BY Zenon, <1>11 DEF Found, F, t

LEMMA UpToFound ==
  ASSUME ModesInv, GenerateInv, pc = "generate", series.pure
  PROVE  /\ Covered(book.v, outfile, job.domain, series, Found.b.pos)
         /\ Found.b.size <= 0 => AllCovered(book.v, outfile, job.domain, series)
<1> DEFINE x == Found.b
<1>1. IsChunk(x)
    BY Zenon, FoundIs
<1>2. \A p \in Asked(outfile, job.domain) :
        CoveredAt(book.v, series, p) \/ (x.size > 0 /\ x.pos <= p)
    BY Zenon, FoundUntried
<1>3. \A p \in Asked(outfile, job.domain) : p \in Nat
    BY Zenon, AskedIs
<1> HIDE DEF x
<1>4. Covered(book.v, outfile, job.domain, series, x.pos)
  <2>1. SUFFICES ASSUME NEW p \in Asked(outfile, job.domain), p < x.pos
                 PROVE  CoveredAt(book.v, series, p)
      BY Zenon DEF Covered
  <2>2. ~(x.pos <= p)
      BY <1>1, <1>3, <2>1 DEF IsChunk
  <2>. QED  BY Zenon, <1>2, <2>2
<1>5. ASSUME x.size <= 0  PROVE  AllCovered(book.v, outfile, job.domain, series)
  <2>1. ~(x.size > 0)
      BY <1>1, <1>5 DEF IsChunk
  <2>. QED  BY Zenon, <1>2, <2>1 DEF AllCovered
<1>. QED  BY Zenon, <1>4, <1>5 DEF x

\* What is read of a chunk is finished where it holds data, and the map is cut off
\* where the file ends only.
LEMMA ChunkGenerates ==
  ASSUME NEW f, f = outfile, IsFile(f), NEW c, IsChunk(c), NEW r \in readblockp(f, c), NEW v, NEW w,
         NEW goesOn, ChecksRead(w, v, c, r, goesOn)
  PROVE  /\ TwoStatus(v, f) => TwoStatus(w, f)
         /\ \A a \in HeldIn(f) : \A t : Holds(BlocksOf(v), a, t) => \E u : Holds(BlocksOf(w), a, u)
         /\ \A a \in HeldIn(f) :
              /\ Holds(BlocksOf(v), a, "finished") => Holds(BlocksOf(w), a, "finished")
              /\ c.pos <= a /\ a < end(c) =>
                   \/ Holds(BlocksOf(w), a, "finished")
                   \/ a \in c.pos + r.copied .. c.pos + r.copied + r.error - 1
<1> DEFINE e == c.pos + r.copied + r.error
           n == FileSize(f)
           M(a, t) == IF Marked(a, c, r.copied) THEN t = "finished" ELSE Holds(BlocksOf(v), a, t)
<1>1. /\ c.pos \in Nat /\ c.size \in Nat /\ end(c) = c.pos + c.size
    BY DEF IsChunk, end
<1>2. /\ IsRead(r, c) /\ n \in Nat /\ DOMAIN f = 0 .. n - 1
      /\ r.copied > 0 => c.pos + r.copied <= n
      /\ r.error = 0 /\ r.copied < c.size => c.pos + r.copied >= n
    BY Zenon, <1>1, ReadsChunk
<1> HIDE DEF n
<1>3. /\ r.copied \in Nat /\ r.error \in Nat /\ (r.error = 0 \/ r.copied + r.error = c.size)
      /\ r.copied + r.error <= c.size /\ e \in Nat
    BY <1>1, <1>2 DEF IsRead
<1>4. /\ \A a \in c.pos .. c.pos + r.copied - 1 : f[a] # "zero" => Marked(a, c, r.copied)
      /\ \A a : Marked(a, c, r.copied) => Near(f, a)
  <2>1. r.copied > 0 => c.pos + r.copied <= FileSize(outfile)
      BY Zenon, <1>2 DEF n
  <2>2. /\ \A a \in c.pos .. c.pos + r.copied - 1 : outfile[a] # "zero" => Marked(a, c, r.copied)
        /\ \A a : Marked(a, c, r.copied) =>
             \E q \in DOMAIN outfile : /\ outfile[q] # "zero"
                                      /\ a - q \in 1 - HardBS .. HardBS - 1
      BY Zenon, <1>1, <1>3, <2>1, MarkedIsNear
  <2>. QED  BY Zenon, <2>2 DEF Near, HeldIn
<1>5. \A a \in HeldIn(f) : a \in Nat /\ a < n /\ f[a] # "zero"
    BY <1>2 DEF HeldIn
<1>6. /\ \A a, t : Holds(BlocksOf(w), a, t) => M(a, t)
      /\ \A a \in HeldIn(f) : \A t : M(a, t) => Holds(BlocksOf(w), a, t)
  <2>1. CASE CheckedMap(w, v, c, r.copied)
      BY Zenon, <2>1 DEF CheckedMap
  <2>2. CASE e < end(c) /\ CheckedUpTo(w, v, c, r.copied, e)
    <3>1. \A a \in HeldIn(f) : a < e
        BY <1>1, <1>2, <1>3, <1>5, <2>2
    <3> HIDE DEF e
    <3>. QED  BY Zenon, <2>2, <3>1 DEF CheckedUpTo
  <2>. QED  BY Zenon, <2>1, <2>2 DEF ChecksRead
<1>7. ASSUME TwoStatus(v, f)  PROVE  TwoStatus(w, f)
    BY Zenon, <1>4, <1>6, <1>7 DEF TwoStatus
<1>8. ASSUME NEW a \in HeldIn(f), NEW t, Holds(BlocksOf(v), a, t)
      PROVE  \E u : Holds(BlocksOf(w), a, u)
  <2>1. CASE Marked(a, c, r.copied)
      BY Zenon, <1>6, <2>1
  <2>2. CASE ~Marked(a, c, r.copied)
      BY Zenon, <1>6, <1>8, <2>2
  <2>. QED  BY <2>1, <2>2
<1>9. ASSUME NEW a \in HeldIn(f), Holds(BlocksOf(v), a, "finished")
      PROVE  Holds(BlocksOf(w), a, "finished")
    BY Zenon, <1>6, <1>9
<1>10. ASSUME NEW a \in HeldIn(f), c.pos <= a, a < end(c)
       PROVE  \/ Holds(BlocksOf(w), a, "finished")
              \/ a \in c.pos + r.copied .. c.pos + r.copied + r.error - 1
  <2>1. CASE a < c.pos + r.copied
    <3>1. a \in c.pos .. c.pos + r.copied - 1
        BY <1>1, <1>3, <1>5, <1>10, <2>1
    <3>2. Marked(a, c, r.copied)
        BY Zenon, <1>4, <1>5, <3>1
    <3>. QED  BY Zenon, <1>6, <3>2
  <2>2. CASE ~(a < c.pos + r.copied)
      BY <1>1, <1>2, <1>3, <1>5, <1>10, <2>2
  <2>. QED  BY <2>1, <2>2
<1>. QED  BY Zenon, <1>7, <1>8, <1>9, <1>10

LEMMA CheckGenerates ==
  ASSUME ModesInv, GenerateInv, CheckChunk, series.pure, NEW l, l = book', NEW s, s = series',
         IsSeries(series)
  PROVE  LET c == Found.b
         IN  /\ TwoStatus(l.v, outfile) /\ Reached(l, outfile, job.domain)
             /\ Covered(l.v, outfile, job.domain, s, c.pos)
             /\ Covered(l.v, outfile, job.domain, s, end(c))
             /\ SameSeries(s, series) /\ series.failed \subseteq s.failed
<1> DEFINE c == Found.b
           f == outfile
<1>1. /\ pc = "generate" /\ job.mode = "generate" /\ IsFile(f) /\ l.domain = book.domain
      /\ \E r \in readblockp(f, c) :
           LET from == c.pos + r.copied
           IN  /\ IsRead(r, c)
               /\ series' = [series EXCEPT !.failed = @ \cup from .. from + r.error - 1]
               /\ ChecksRead(l.v, book.v, c, r, pc' = "generate")
    BY Zenon, CheckIs
<1>2. PICK r \in readblockp(f, c) :
        LET from == c.pos + r.copied
        IN  /\ IsRead(r, c)
            /\ series' = [series EXCEPT !.failed = @ \cup from .. from + r.error - 1]
            /\ ChecksRead(l.v, book.v, c, r, pc' = "generate")
    BY Zenon, <1>1
<1> DEFINE bad == c.pos + r.copied .. c.pos + r.copied + r.error - 1
           x == series.failed \cup bad
           goesOn == pc' = "generate"
<1>3. series' = [series EXCEPT !.failed = x] /\ ChecksRead(l.v, book.v, c, r, goesOn)
    BY Zenon, <1>2
<1>4. IsChunk(c) /\ c.pos \in Nat
    BY Zenon, <1>1, FoundIs DEF IsChunk
<1>5. /\ TwoStatus(book.v, f) /\ Reached(book, f, job.domain)
      /\ Covered(book.v, f, job.domain, series, c.pos)
  <2>1. "generate" # "none"
      OBVIOUS
  <2>2. Covered(book.v, f, job.domain, series, c.pos)
      BY Zenon, <1>1, UpToFound
  <2>. QED  BY Zenon, <1>1, <2>1, <2>2 DEF GenerateInv, GenerateRun
<1> HIDE DEF c, goesOn
<1>6. /\ TwoStatus(book.v, f) => TwoStatus(l.v, f)
      /\ \A a \in HeldIn(f) : \A t : Holds(BlocksOf(book.v), a, t) => \E u : Holds(BlocksOf(l.v), a, u)
      /\ \A a \in HeldIn(f) :
           /\ Holds(BlocksOf(book.v), a, "finished") => Holds(BlocksOf(l.v), a, "finished")
           /\ c.pos <= a /\ a < end(c) => Holds(BlocksOf(l.v), a, "finished") \/ a \in bad
    BY Zenon, <1>1, <1>3, <1>4, ChunkGenerates
<1> HIDE DEF bad
<1>7. SameSeries(s, series) /\ s.failed = x
  <2> HIDE DEF x
  <2> DEFINE t == [series EXCEPT !.failed = x]
  <2>0. IsSeries(series)
      OBVIOUS
  <2>1. SameSeries(t, series) /\ t.failed = x
      BY ONLY Zenon, <2>0, SeriesWith
  <2> HIDE DEF t
  <2>2. s = t
      BY <1>3 DEF t
  <2>. QED  BY Zenon, <2>1, <2>2
<1>8. \A p \in Asked(f, job.domain) : p \in HeldIn(f) /\ p \in Nat
    BY Zenon, AskedIs DEF Asked
<1> HIDE DEF f
<1>9. Reached(l, f, job.domain)
    BY Zenon, <1>1, <1>5, <1>6, <1>8 DEF Reached
<1>10. \A p \in Asked(f, job.domain) : CoveredAt(book.v, series, p) => CoveredAt(l.v, s, p)
    BY Zenon, <1>6, <1>7, <1>8 DEF CoveredAt
<1>11. Covered(l.v, f, job.domain, s, c.pos)
    BY Zenon, <1>5, <1>10 DEF Covered
<1>12. ASSUME NEW p \in Asked(f, job.domain), p < end(c)  PROVE  CoveredAt(l.v, s, p)
  <2>1. CASE p < c.pos
      BY Zenon, <1>11, <1>12, <2>1 DEF Covered
  <2>2. CASE ~(p < c.pos)
    <3>1. c.pos <= p
        BY <1>4, <1>8, <1>12, <2>2
    <3>. QED  BY Zenon, <1>6, <1>7, <1>8, <1>12, <3>1 DEF CoveredAt
  <2>. QED  BY <2>1, <2>2
<1>13. Covered(l.v, f, job.domain, s, end(c))
    BY Zenon, <1>12 DEF Covered
<1>. QED  BY Zenon, <1>5, <1>6, <1>7, <1>9, <1>11, <1>13 DEF c, f, x

-----------------------------------------------------------------------------
\* What every step of a run in generate mode must show.
LEMMA GenerateProceeds ==
  ASSUME GenerateInv, SeriesOk(series, job), pc' \in {"generate", "end"}, job' = job,
         outfile' = outfile,
         NEW l, l = book', NEW n, n = mapfile', n = mapfile \/ n = Saved(l),
         NEW s, s = series', SameSeries(s, series), series.failed \subseteq s.failed,
         series.pure =>
           LET f == outfile
               d == job.domain
           IN  /\ TwoStatus(l.v, f) /\ Reached(l, f, d)
               /\ pc' = "generate" =>
                    Covered(l.v, f, d, s, b'.pos) /\ (b'.size > 0 \/ b'.pos = LLONG_MAX)
               /\ pc' = "end" /\ retval' = "ok" => AllCovered(l.v, f, d, s)
               /\ l.status = "generating" => Covered(l.v, f, d, s, l.pos)
  PROVE  GenerateInv'
<1>1. s.job = series.job /\ s.pure = series.pure
    BY Zenon DEF SameSeries
<1>2. GenerateRun(pc', job, l, b', retval', outfile, s)
    BY Zenon, <1>1 DEF GenerateRun
<1>3. GenerateSaved(n, outfile, s)
  <2>1. CASE n = mapfile
      BY Zenon, <1>1, <2>1, FailedGrows DEF GenerateInv, GenerateSaved
  <2>2. CASE n = Saved(l)
    <3>1. n.lines = l.v /\ n.status = l.status /\ n.pos = l.pos
        BY <2>2 DEF Saved
    <3>2. series.pure => s.job = job
        BY Zenon, <1>1 DEF SeriesOk
    <3>. QED  BY Zenon, <1>1, <3>1, <3>2 DEF GenerateSaved
  <2>. QED  BY Zenon, <2>1, <2>2
<1>4. GenerateEnded(pc', job, retval', n, outfile, s)
  <2>1. pc' # "none"
      OBVIOUS
  <2>. QED  BY Zenon, <2>1 DEF GenerateEnded
<1>. QED  BY Zenon, <1>2, <1>3, <1>4 DEF GenerateInv

LEMMA AllCheckedGenerates ==
  ASSUME ModesInv, GenerateInv, SeriesOk(series, job), AllChecked  PROVE  GenerateInv'
<1>1. /\ pc = "generate" /\ pc' = "end" /\ retval' = "ok" /\ Found.b.size <= 0
      /\ job' = job /\ outfile' = outfile /\ mapfile' = mapfile /\ book' = book
      /\ series' = series
    BY DEF AllChecked, Leave, disc
<1>2. job.mode = "generate" /\ "generate" # "none"
    BY Zenon, <1>1, FoundIs
<1>3. SameSeries(series, series) /\ series.failed \subseteq series.failed
    BY Zenon, SameSeriesIs DEF SeriesOk
<1> DEFINE f == outfile
           d == job.domain
<1>4. series.pure => /\ TwoStatus(book.v, f) /\ Reached(book, f, d)
                     /\ AllCovered(book.v, f, d, series)
    BY Zenon, <1>1, <1>2, UpToFound DEF GenerateInv, GenerateRun
<1>5. series.pure => Covered(book.v, f, d, series, book.pos)
    BY Zenon, <1>4 DEF AllCovered, Covered
<1>6. pc' \in {"generate", "end"} /\ ~(pc' = "generate")
    BY <1>1
<1>. QED  BY Zenon, <1>1, <1>3, <1>4, <1>5, <1>6, GenerateProceeds

LEMMA GenerateInterruptedGenerates ==
  ASSUME ModesInv, GenerateInv, SeriesOk(series, job), GenerateInterrupted  PROVE  GenerateInv'
<1> DEFINE k == AtChunk(Found)
<1>1. /\ pc = "generate" /\ pc' = "end" /\ retval' = "signaled" /\ Found.b.size > 0
      /\ job' = job /\ outfile' = outfile /\ mapfile' = mapfile /\ book' = k
      /\ series' = series
    BY DEF GenerateInterrupted, Interrupted, Leave, disc
<1>2. job.mode = "generate" /\ "generate" # "none" /\ "signaled" # "ok"
    BY Zenon, <1>1, FoundIs
<1>3. SameSeries(series, series) /\ series.failed \subseteq series.failed
    BY Zenon, SameSeriesIs DEF SeriesOk
<1>4. k.v = book.v /\ k.domain = book.domain /\ k.pos = Found.b.pos
    BY Zenon, <1>1, FoundIs
<1> DEFINE f == outfile
           d == job.domain
<1>5. series.pure => /\ TwoStatus(book.v, f) /\ Reached(book, f, d)
                     /\ Covered(book.v, f, d, series, Found.b.pos)
    BY Zenon, <1>1, <1>2, UpToFound DEF GenerateInv, GenerateRun
<1> HIDE DEF k, d
<1>6. series.pure => /\ TwoStatus(k.v, f) /\ Reached(k, f, d)
                     /\ Covered(k.v, f, d, series, k.pos)
  <2>1. Reached(book, f, d) => Reached(k, f, d)
      BY Zenon, <1>4 DEF Reached
  <2>. QED  BY Zenon, <1>4, <1>5, <2>1
<1>7. pc' \in {"generate", "end"} /\ ~(pc' = "generate") /\ ~(retval' = "ok")
    BY <1>1
<1>. QED  BY Zenon, <1>1, <1>3, <1>6, <1>7, GenerateProceeds DEF d

LEMMA CheckChunkGenerates ==
  ASSUME ModesInv, GenerateInv, SeriesOk(series, job), CheckChunk  PROVE  GenerateInv'
<1> DEFINE c == Found.b
           l == book'
           n == mapfile'
           s == series'
           f == outfile
           d == job.domain
<1>1. /\ pc = "generate" /\ job.mode = "generate" /\ job' = job /\ outfile' = outfile
      /\ l.pos = c.pos /\ (n = mapfile \/ n = Saved(l)) /\ l.status = "generating"
      /\ \/ pc' = "generate" /\ b' = assign(end(c), SoftBS)
         \/ pc' = "end" /\ retval' \in {"error", "unsaved"}
    BY Zenon, CheckIs
<1>2. SameSeries(s, series) /\ series.failed \subseteq s.failed
  <2>1. \E x : s = [series EXCEPT !.failed = @ \cup x]
      BY Zenon, CheckIs
  <2>2. PICK x : s = [series EXCEPT !.failed = @ \cup x]
      BY Zenon, <2>1
  <2> DEFINE y == series.failed \cup x
             t == [series EXCEPT !.failed = y]
  <2>3. s = t
      BY <2>2
  <2>4. series.failed \subseteq y
      OBVIOUS
  <2> HIDE DEF y
  <2>5. SameSeries(t, series) /\ t.failed = y
      BY Zenon, SeriesWith DEF SeriesOk
  <2> HIDE DEF t, s
  <2>. QED  BY Zenon, <2>3, <2>4, <2>5
<1>3. series.pure => /\ TwoStatus(l.v, f) /\ Reached(l, f, d)
                     /\ Covered(l.v, f, d, s, c.pos) /\ Covered(l.v, f, d, s, end(c))
    BY Zenon, CheckGenerates DEF SeriesOk
<1>4. pc' = "generate" => b'.pos = end(c) /\ (b'.size > 0 \/ b'.pos = LLONG_MAX)
  <2>1. SUFFICES ASSUME pc' = "generate"
                 PROVE  b'.pos = end(c) /\ (b'.size > 0 \/ b'.pos = LLONG_MAX)
      OBVIOUS
  <2> DEFINE e == end(c)
             x == assign(e, SoftBS)
  <2>2. e \in 0 .. LLONG_MAX
    <3>1. IsChunk(c) /\ e <= LLONG_MAX
      <4>1. c.size > 0
          BY Zenon, CheckIs
      <4>. QED  BY Zenon, <1>1, <4>1, FoundIs
    <3>. QED  BY <3>1, LimitAssumption DEF IsChunk, end
  <2> HIDE DEF e
  <2>3. SoftBS \in Nat /\ SoftBS > 0
      BY SizesAssumption
  <2>4. x.pos = e /\ (x.size > 0 <=> SoftBS > 0 /\ e < LLONG_MAX)
      BY Zenon, <2>2, <2>3, MadeFits
  <2>5. b' = x
    <3>1. ~(pc' = "end")
        BY <2>1
    <3>. QED  BY Zenon, <1>1, <3>1 DEF e
  <2> HIDE DEF x
  <2>6. e < LLONG_MAX \/ e = LLONG_MAX
      BY <2>2, LimitAssumption
  <2>. QED  BY Zenon, <2>3, <2>4, <2>5, <2>6 DEF e
<1>5. pc' \in {"generate", "end"} /\ ~(pc' = "end" /\ retval' = "ok")
    BY <1>1
<1> HIDE DEF c, l, n, s, f, d
<1>6. series.pure =>
        /\ TwoStatus(l.v, f) /\ Reached(l, f, d)
        /\ pc' = "generate" =>
             Covered(l.v, f, d, s, b'.pos) /\ (b'.size > 0 \/ b'.pos = LLONG_MAX)
        /\ l.status = "generating" => Covered(l.v, f, d, s, l.pos)
    BY Zenon, <1>1, <1>3, <1>4
<1>. QED  BY Zenon, <1>1, <1>2, <1>5, <1>6, GenerateProceeds DEF l, n, s, f, d

-----------------------------------------------------------------------------
\* A map is saved as it is held, compacted or not.
LEMMA CompactHolds ==
  ASSUME NEW v, Memory(v)
  PROVE  LET w == compact_sblock_vector(v)
         IN  /\ Consecutive(w) \/ w = EmptyMap
             /\ \A p, t : Holds(BlocksOf(w), p, t) <=> Holds(BlocksOf(v), p, t)
<1> DEFINE w == compact_sblock_vector(v)
<1>1. CASE IsVector(v)
  <2>1. Consecutive(v) /\ v # <<>>
      BY Zenon, <1>1 DEF IsVector
  <2>2. Row(w, v[1], v[Len(v)]) /\ Same(BlocksOf(w), BlocksOf(v))
      BY Zenon, <2>1, CompactIsSame
  <2>3. Consecutive(w)
      BY Zenon, <2>2 DEF Row
  <2>. QED  BY Zenon, <2>2, <2>3, SameHolds
<1>2. CASE v = EmptyMap
    BY Zenon, <1>2, EmptyMapCompacted
<1>. QED  BY <1>1, <1>2 DEF Memory

LEMMA EndGenerates ==
  ASSUME ModesInv, GenerateInv, SeriesOk(series, job), End, job.mode = "generate"
  PROVE  GenerateInv'
<1> DEFINE n == mapfile'
           k == [book EXCEPT !.status = EndStatus]
           w == compact_sblock_vector(book.v)
           f == outfile
           d == job.domain
<1>0. pc = "end" /\ job' = job /\ series' = series /\ pc' = "none" /\ outfile' = outfile
    BY DEF End, Exit, Finish, disc
<1>1. Loaded(book, "generate") /\ GoodMap(mapfile) /\ Memory(book.v)
  <2>1. "generate" # "fill" /\ "end" # "none"
      OBVIOUS
  <2>. QED  BY Zenon, <1>0, <2>1, WhileInMap
<1>2. Loaded(k, "generate") /\ k.v = book.v /\ k.pos = book.pos /\ k.status = EndStatus
    BY Zenon, <1>1, BookWithStatus
<1>3. /\ Consecutive(w) \/ w = EmptyMap
      /\ \A p, t : Holds(BlocksOf(w), p, t) <=> Holds(BlocksOf(book.v), p, t)
    BY Zenon, <1>1, CompactHolds
<1>4. /\ n = mapfile \/ (n.lines = w /\ n.pos = book.pos /\ n.status = EndStatus)
      /\ retval' = "ok" => retval = "ok" /\ n.lines = w
  <2>1. CASE retval = "unsaved"
      BY <2>1 DEF End, disc
  <2>2. CASE retval # "unsaved"
    <3>1. Finish(k)
        BY Zenon, <2>2 DEF End
    <3> HIDE DEF k
    <3>3. /\ \/ n = mapfile
             \/ n = [lines |-> compact_sblock_vector(k.v), status |-> k.status, pos |-> k.pos]
          /\ \/ retval' = retval /\ n.lines = compact_sblock_vector(k.v)
             \/ retval' = "error"
        BY Zenon, <1>1, <1>2, <3>1, FinishIs
    <3>4. n = mapfile \/ (n.lines = compact_sblock_vector(k.v) /\ n.status = k.status
                          /\ n.pos = k.pos)
        BY <3>3
    <3>5. "error" # "ok"
        OBVIOUS
    <3>. QED  BY Zenon, <1>2, <3>3, <3>4, <3>5
  <2>. QED  BY <2>1, <2>2
<1>5. series.pure => TwoStatus(book.v, f) /\ TwoStatus(w, f) /\ series.job = job
  <2>1. "end" # "none"
      OBVIOUS
  <2>. QED  BY Zenon, <1>0, <1>3, <2>1, SameGenerated DEF GenerateInv, GenerateRun, SeriesOk
<1>6. series.pure /\ retval = "ok" => AllCovered(w, f, d, series)
  <2>1. "end" # "none"
      OBVIOUS
  <2>. QED  BY Zenon, <1>0, <1>3, <2>1, SameGenerated DEF GenerateInv, GenerateRun
<1>7. series.pure /\ EndStatus = "generating" => Covered(w, f, d, series, book.pos)
  <2>1. "end" # "none" /\ "finished" # "generating"
      OBVIOUS
  <2>2. series.pure /\ EndStatus = "generating" => retval # "ok" /\ book.status = "generating"
      BY Zenon, <2>1 DEF EndStatus
  <2>. QED  BY Zenon, <1>0, <1>3, <2>1, <2>2, SameGenerated DEF GenerateInv, GenerateRun
<1> HIDE DEF n, k, w, f, d
<1>8. GenerateSaved(n, f, series)
  <2>1. CASE n = mapfile
      BY Zenon, <2>1 DEF GenerateInv, f
  <2>2. CASE n.lines = w /\ n.pos = book.pos /\ n.status = EndStatus
      BY Zenon, <1>5, <1>7, <2>2 DEF GenerateSaved, d
  <2>. QED  BY Zenon, <1>4, <2>1, <2>2
<1>9. GenerateEnded(pc', job, retval', n, f, series)
    BY Zenon, <1>3, <1>4, <1>5, <1>6 DEF GenerateEnded, d
<1>10. GenerateRun(pc', job, book', b', retval', f, series)
    BY Zenon, <1>0 DEF GenerateRun
<1>. QED  BY Zenon, <1>0, <1>8, <1>9, <1>10 DEF GenerateInv, n, f

LEMMA KillGenerates == ASSUME GenerateInv, Kill  PROVE  GenerateInv'
<1>1. /\ mapfile' = mapfile /\ outfile' = outfile /\ job' = job /\ series' = series
      /\ pc' = "none" /\ retval' = "error" /\ "error" # "ok"
    BY DEF Kill, Exit, disc
<1>2. GenerateRun(pc', job, book', b', retval', outfile, series)
    BY Zenon, <1>1 DEF GenerateRun
<1>3. GenerateEnded(pc', job, retval', mapfile, outfile, series)
    BY Zenon, <1>1 DEF GenerateEnded
<1>. QED  BY Zenon, <1>1, <1>2, <1>3 DEF GenerateInv

\* What is not a run of generate mode leaves nothing of one behind.
LEMMA NoGenerate ==
  ASSUME SeriesOk(series', job'), job'.mode # "generate"  PROVE  GenerateInv'
<1>1. GenerateRun(pc', job', book', b', retval', outfile', series')
    BY Zenon DEF GenerateRun
<1>2. GenerateSaved(mapfile', outfile', series')
    BY Zenon DEF GenerateSaved, SeriesOk
<1>3. GenerateEnded(pc', job', retval', mapfile', outfile', series')
    BY Zenon DEF GenerateEnded
<1>. QED  BY Zenon, <1>1, <1>2, <1>3 DEF GenerateInv

-----------------------------------------------------------------------------
\* What a run of generate mode starts from.
LEMMA StartGenerateIs ==
  ASSUME ModesInv, SeriesOk(series, job), StartGenerate
  PROVE  LET k == book'
             s == series'
             d == job'.domain
             m == mapfile
         IN  /\ pc' = "generate" /\ job'.mode = "generate" /\ mapfile' = m /\ outfile' = outfile
             /\ Loaded(k, "generate") /\ IsVector(k.v) /\ Gentle(BlocksOf(k.v), BlocksOf(m.lines))
             /\ CoversInput(k, d, FileSize(Input)) /\ SeriesOk(s, job')
             /\ k.status = m.status /\ k.pos = m.pos
             /\ b' = assign(IF ResumesAt(k) THEN k.pos ELSE 0, SoftBS)
             /\ \/ /\ s.job = series.job /\ s.pure = (series.pure /\ series.job = job')
                   /\ s.failed = series.failed /\ ~AtFirst(m, d)
                \/ s.job = job' /\ blank(k.v) /\ ~ResumesAt(k) /\ AtFirst(m, d)
<1> DEFINE F == FALSE
           n == FileSize(Input)
           m == mapfile
<1>1. F \in BOOLEAN /\ (F <=> FALSE) /\ n \in 0 .. LLONG_MAX
    BY Zenon, InputIs
<1>2. PICK d \in Domains : \E file \in {Load(d, n, F, F)} :
        LET bk == file.book
            p  == IF ResumesAt(bk) THEN bk.pos ELSE 0
        IN  /\ file.ok
            /\ Start([mode |-> "generate", domain |-> d], bk, assign(p, SoftBS),
                     ResumesAt(bk) \/ ~blank(bk.v))
            /\ UNCHANGED mapfile
    BY Zenon DEF StartGenerate
<1> DEFINE file == Load(d, n, F, F)
           k == file.book
           p == IF ResumesAt(k) THEN k.pos ELSE 0
           j == [mode |-> "generate", domain |-> d]
           resumed == ResumesAt(k) \/ ~blank(k.v)
           a == Mapbook(read_mapfile(m.lines, "none").v, d, n, F, F, HardBS)
<1>3. file.ok /\ mapfile' = m /\ Start(j, k, assign(p, SoftBS), resumed)
    BY Zenon, <1>2
<1>4. j.mode = "generate" /\ j.domain = d
    OBVIOUS
<1>5. IsRunDomain(d) /\ GoodMap(m)
    BY Zenon, FilesAssumption DEF ModesInv
<1>6. /\ k.v = a.v /\ k.domain = a.domain /\ k.status = m.status /\ k.pos = m.pos
  <2> DEFINE u == read_mapfile(m.lines, "none").v
  <2>1. Load(d, n, F, F).book = [v |-> a.v, domain |-> a.domain, index |-> 1,
                                 status |-> m.status, pos |-> m.pos]
      BY DEF Load
  <2> HIDE DEF a, F, n
  <2>. QED  BY <2>1
<1>7. AtFirst(m, d) <=> blank(k.v) /\ ~ResumesAt(k)
  <2>1. AtFirst(m, d) <=> blank(a.v) /\ ~(m.status = "generating" /\ InDomainPos(a.domain, m.pos))
      BY Zenon DEF AtFirst
  <2> HIDE DEF a, k, m
  <2>. QED  BY Zenon, <1>6, <2>1 DEF ResumesAt
<1> HIDE DEF F, n, m, j, a
<1>8. file = Load(d, n, F, F)
    OBVIOUS
<1> HIDE DEF file
<1>9. /\ Loaded(k, "generate") /\ IsVector(k.v) /\ Gentle(BlocksOf(k.v), BlocksOf(m.lines))
      /\ CoversInput(k, d, n)
  <2>1. m = mapfile /\ "generate" # "fill" /\ F \in BOOLEAN
      BY Zenon, <1>1 DEF m
  <2>2. file = Load(d, n, FALSE, F)
      BY Zenon, <1>8 DEF F
  <2>. QED  BY Zenon, <1>1, <1>3, <1>5, <2>1, <2>2, LoadsMap
<1> DEFINE x == assign(p, SoftBS)
<1>10. b' = x /\ book' = k /\ outfile' = outfile
    BY Zenon, <1>3 DEF Start
<1> HIDE DEF k, resumed
<1>11. Start(j, k, x, resumed)
    BY Zenon, <1>3
<1> HIDE DEF x
<1>12. /\ pc' = j.mode /\ job' = j /\ SeriesOk(series', j)
       /\ \/ /\ resumed /\ series'.job = series.job
             /\ series'.pure = (series.pure /\ series.job = j) /\ series'.failed = series.failed
          \/ ~resumed /\ series'.job = j
    BY Zenon, <1>11, StartsSeries
<1>13. resumed <=> ~AtFirst(m, d)
    BY Zenon, <1>7 DEF resumed
<1>14. AtFirst(m, d) => blank(k.v) /\ ~ResumesAt(k)
    BY Zenon, <1>7
<1>. QED  BY Zenon, <1>3, <1>4, <1>6, <1>9, <1>10, <1>12, <1>13, <1>14 DEF m, n, x

LEMMA StartGenerates ==
  ASSUME ModesInv, GenerateInv, SeriesOk(series, job), StartGenerate  PROVE  GenerateInv'
<1> DEFINE k == book'
           j == job'
           s == series'
           m == mapfile
           f == outfile
           d == j.domain
           q == IF ResumesAt(k) THEN k.pos ELSE 0
           insize == FileSize(Input)
<1>1. /\ pc' = "generate" /\ j.mode = "generate" /\ mapfile' = m /\ outfile' = f
      /\ Loaded(k, "generate") /\ IsVector(k.v) /\ Gentle(BlocksOf(k.v), BlocksOf(m.lines))
      /\ CoversInput(k, d, insize) /\ SeriesOk(s, j)
      /\ k.status = m.status /\ k.pos = m.pos
      /\ b' = assign(q, SoftBS)
      /\ \/ /\ s.job = series.job /\ s.pure = (series.pure /\ series.job = j)
            /\ s.failed = series.failed /\ ~AtFirst(m, d)
         \/ s.job = j /\ blank(k.v) /\ ~ResumesAt(k) /\ AtFirst(m, d)
    BY Zenon, StartGenerateIs
<1>2. b'.pos = q /\ (b'.size > 0 \/ b'.pos = LLONG_MAX)
  <2>1. q \in 0 .. LLONG_MAX
    <3>1. k.pos \in 0 .. LLONG_MAX /\ 0 \in 0 .. LLONG_MAX
        BY <1>1, LimitAssumption DEF Loaded, IsBook
    <3>. QED  BY Zenon, <3>1
  <2>2. SoftBS \in Nat /\ SoftBS > 0
      BY SizesAssumption
  <2> DEFINE x == assign(q, SoftBS)
  <2> HIDE DEF q
  <2>3. x.pos = q /\ (x.size > 0 <=> SoftBS > 0 /\ q < LLONG_MAX)
      BY Zenon, <2>1, <2>2, MadeFits
  <2>4. q < LLONG_MAX \/ q = LLONG_MAX
      BY <2>1, LimitAssumption
  <2>5. b' = x
      BY Zenon, <1>1
  <2> HIDE DEF x
  <2>. QED  BY Zenon, <2>2, <2>3, <2>4, <2>5
<1> HIDE DEF j, s, m, f, insize
<1>3. Reached(k, f, d)
  <2>1. SUFFICES ASSUME NEW p \in Asked(f, d)
                 PROVE  p \in InDomains(k.domain) /\ \E t : Holds(BlocksOf(k.v), p, t)
      BY Zenon DEF Reached
  <2>2. p \in 0 .. insize - 1 /\ p \in InDomains(d) /\ insize > 0
    <3>1. p \in 0 .. insize - 1 /\ p \in InDomains(d) /\ p \in Nat /\ p < insize
        BY Zenon, AskedIs DEF insize
    <3>2. insize \in 0 .. LLONG_MAX
        BY Zenon, InputIs DEF insize
    <3>. QED  BY <3>1, <3>2, LimitAssumption
  <2>3. p \in InDomains(k.domain) /\ \E x \in BlocksOf(k.v) : p \in Bytes(x)
    <3>1. InDomains(k.domain) = InDomains(d) \cap (0 .. insize - 1)
        BY Zenon, <1>1, <2>2 DEF CoversInput
    <3>. QED  BY Zenon, <1>1, <2>2, <3>1 DEF CoversInput
  <2>. QED  BY Zenon, <2>3 DEF Holds
<1>4. \A t : Covered(k.v, f, d, t, 0)
  <2>1. \A p \in Asked(f, d) : p \in Nat
      BY Zenon, AskedIs
  <2>2. \A p \in Asked(f, d) : ~(p < 0)
      BY <2>1
  <2>. QED  BY Zenon, <2>2 DEF Covered
<1>5. s.pure => TwoStatus(k.v, f) /\ Covered(k.v, f, d, s, q) /\ GenerateSaved(m, f, s)
  <2>1. CASE s.job = j /\ blank(k.v) /\ ~ResumesAt(k) /\ AtFirst(m, d)
    <3>1. TwoStatus(k.v, f)
        BY <2>1 DEF TwoStatus, Holds, BlocksOf, blank
    <3>. QED  BY Zenon, <1>4, <2>1, <3>1 DEF GenerateSaved
  <2>2. CASE /\ s.job = series.job /\ s.pure = (series.pure /\ series.job = j)
             /\ s.failed = series.failed /\ ~AtFirst(m, d)
    <3>1. SUFFICES ASSUME s.pure
                   PROVE  TwoStatus(k.v, f) /\ Covered(k.v, f, d, s, q) /\ GenerateSaved(m, f, s)
        OBVIOUS
    <3>2. series.pure /\ series.job = j /\ s.job = j
        BY Zenon, <2>2, <3>1
    <3>3. GenerateSaved(m, f, series)
        BY Zenon DEF GenerateInv, m, f
    <3>4. \A v, p, g, e : /\ CoveredAt(v, series, p) <=> CoveredAt(v, s, p)
                          /\ Covered(v, g, e, series, p) <=> Covered(v, g, e, s, p)
        BY Zenon, <2>2 DEF Covered, CoveredAt
    <3>5. TwoStatus(m.lines, f) /\ (m.status = "generating" => Covered(m.lines, f, d, s, m.pos))
        BY Zenon, <1>1, <2>2, <3>2, <3>3, <3>4 DEF GenerateSaved
    <3>6. TwoStatus(k.v, f) /\ (m.status = "generating" => Covered(k.v, f, d, s, m.pos))
        BY Zenon, <1>1, <3>5, GentleGenerated
    <3>7. Covered(k.v, f, d, s, q)
      <4>1. CASE ResumesAt(k)
        <5>1. m.status = "generating" /\ q = m.pos
            BY Zenon, <1>1, <4>1 DEF ResumesAt
        <5>. QED  BY Zenon, <3>6, <5>1
      <4>2. CASE ~ResumesAt(k)
          BY Zenon, <1>4, <4>2
      <4>. QED  BY <4>1, <4>2
    <3>8. GenerateSaved(m, f, s)
        BY Zenon, <3>2, <3>5 DEF GenerateSaved
    <3>. QED  BY Zenon, <3>6, <3>7, <3>8
  <2>. QED  BY Zenon, <1>1, <2>1, <2>2
<1> HIDE DEF q
<1>6. "generate" # "none" /\ "generate" # "end"
    OBVIOUS
<1>7. GenerateRun(pc', j, k, b', retval', f, s)
    BY Zenon, <1>1, <1>2, <1>3, <1>5, <1>6 DEF GenerateRun
<1>8. GenerateEnded(pc', j, retval', m, f, s)
    BY Zenon, <1>1, <1>6 DEF GenerateEnded
<1>9. GenerateSaved(m, f, s)
    BY Zenon, <1>5 DEF GenerateSaved
<1>. QED  BY Zenon, <1>1, <1>7, <1>8, <1>9 DEF GenerateInv, j, s, m, f

LEMMA GenerateInvKept ==
  ASSUME ModesInv, GenerateInv, SeriesOk(series, job), SeriesOk(series', job'),
         [ModesNext]_allvars
  PROVE  GenerateInv'
<1>1. CASE FillStarts
  <2>1. job'.mode = "fill" /\ "fill" # "generate"
      BY Zenon, <1>1, StartFillIs DEF FillStarts
  <2>. QED  BY Zenon, <2>1, NoGenerate
<1>2. CASE OtherStarts
  <2>1. CASE StartGenerate
      BY Zenon, <2>1, StartGenerates
  <2>2. CASE StartCommands
    <3>1. job'.mode = "commands" /\ "commands" # "generate"
        BY Zenon, <2>2, StartCommandsIs
    <3>. QED  BY Zenon, <3>1, NoGenerate
  <2>. QED  BY Zenon, <1>2, <2>1, <2>2 DEF OtherStarts
<1>3. CASE UNCHANGED allvars
    BY <1>3 DEF allvars, vars, GenerateInv
<1>4. CASE Kill
    BY Zenon, <1>4, KillGenerates
<1>5. CASE Work \/ (Command /\ UNCHANGED area)
  <2>1. pc # "none"
      BY <1>5 DEF Work, FillStep, FillArea, NoAreaLeft, FillInterrupted, FillBlock, FillFails,
         GenerateStep, AllChecked, GenerateInterrupted, CheckChunk, CopyStep, CopyDone,
         CopyChunk, CopyWriteFails, Command, CopyCommand, UpdateCommand, FinishCommand,
         QuitCommand, End
  <2>2. CASE job.mode = "generate"
    <3>1. pc \in {"generate", "end"}
        BY <2>1, <2>2 DEF ModesInv, RunOk
    <3>2. GenerateStep \/ End
        BY <1>5, <3>1 DEF Work, FillStep, FillArea, NoAreaLeft, FillInterrupted, FillBlock,
           FillFails, CopyStep, CopyDone, CopyChunk, CopyWriteFails, Command, CopyCommand,
           UpdateCommand, FinishCommand, QuitCommand
    <3>. QED  BY Zenon, <2>2, <3>2, AllCheckedGenerates, GenerateInterruptedGenerates,
                 CheckChunkGenerates, EndGenerates DEF GenerateStep
  <2>3. CASE job.mode # "generate"
    <3>1. job' = job
      <4>1. CASE job.mode = "fill"
        <5>1. pc \in {"fill", "end"}
            BY Zenon, <2>1, <4>1, WhileFilling
        <5>2. FillStep \/ End
            BY <1>5, <5>1 DEF Work, GenerateStep, AllChecked, GenerateInterrupted, CheckChunk,
               CopyStep, CopyDone, CopyChunk, CopyWriteFails, Command, CopyCommand, UpdateCommand,
               FinishCommand, QuitCommand
        <5>3. CASE FillStep
            BY Zenon, <5>3 DEF FillStep, FillArea, NoAreaLeft, FillInterrupted, FillBlock,
               FillFails, Interrupted
        <5>4. CASE End
            BY <5>4 DEF End, Finish, Exit
        <5>. QED  BY <5>2, <5>3, <5>4
      <4>2. CASE job.mode # "fill"
        <5>1. ModesNext
            BY Zenon, <1>5 DEF ModesNext
        <5>. QED  BY Zenon, <2>1, <4>2, <5>1, OtherStepIs DEF SeriesOk
      <4>. QED  BY <4>1, <4>2
    <3>. QED  BY Zenon, <2>3, <3>1, NoGenerate
  <2>. QED  BY <2>2, <2>3
<1>. QED  BY Zenon, <1>1, <1>2, <1>3, <1>4, <1>5 DEF ModesNext

\* What a saved map holds is what StatusOf reads from it.
LEMMA StatusOfSaved ==
  ASSUME NEW v, Consecutive(v) \/ v = EmptyMap
  PROVE  /\ \A p : p \in DOMAIN StatusOf(v) => Holds(BlocksOf(v), p, StatusOf(v)[p])
         /\ \A p, t : Holds(BlocksOf(v), p, t) => p \in DOMAIN StatusOf(v) /\ StatusOf(v)[p] = t
<1>1. CASE Consecutive(v)
    BY Zenon, <1>1, StatusIs
<1>2. CASE v = EmptyMap
  <2>1. DOMAIN v = {1} /\ Len(v) = 1 /\ Bytes(v[1]) = {}
      BY <1>2 DEF EmptyMap, Bytes, end
  <2>2. DOMAIN StatusOf(v) = {}
      BY <2>1 DEF StatusOf
  <2>3. \A p, t : ~Holds(BlocksOf(v), p, t)
      BY <2>1 DEF Holds, BlocksOf
  <2>. QED  BY <2>2, <2>3
<1>. QED  BY <1>1, <1>2

\* A mapfile generated to its end is exact, whatever the runs it resumes were
\* interrupted or killed by.
THEOREM GeneratedIsExact == ModesSpec => []GenerateExact
<1>1. ModesInit => GenerateInv /\ SeriesOk(series, job)
  <2>1. SUFFICES ASSUME ModesInit  PROVE  GenerateInv /\ SeriesOk(series, job)
      OBVIOUS
  <2>2. IsSeries(series) /\ ~series.pure
      BY <2>1 DEF ModesInit, Init, IsSeries
  <2>. QED  BY Zenon, <2>2 DEF GenerateInv, SeriesOk, GenerateRun, GenerateSaved, GenerateEnded
<1>2. ModesInit => FillInv
  <2>1. SUFFICES ASSUME ModesInit  PROVE  FillInv
      OBVIOUS
  <2>2. IsSeries(series) /\ ~series.pure /\ pc = "none"
      BY <2>1 DEF ModesInit, Init, IsSeries
  <2>. QED  BY Zenon, <2>2 DEF FillInv, SeriesOk, FillRun, FillSaved, FillEnded
<1>3. ModesInv /\ FillInv /\ [ModesNext]_allvars => FillInv'
    BY FillInvKept
<1>4. FillInv => SeriesOk(series, job)
    BY Zenon DEF FillInv
<1>5. ModesInv /\ GenerateInv /\ SeriesOk(series, job) /\ SeriesOk(series, job)'
        /\ [ModesNext]_allvars => GenerateInv'
    BY GenerateInvKept
<1>6. GenerateInv => GenerateExact
  <2> DEFINE lines == mapfile.lines
             st    == StatusOf(lines)
             d     == job.domain
             f     == outfile
             held  == {p \in DOMAIN f : f[p] # "zero"}
             asked == InDomains(d) \cap DOMAIN Input
  <2>1. SUFFICES ASSUME GenerateInv, Completed("generate")
                 PROVE  /\ \A p \in held \cap asked :
                             p \in series.failed \/ (p \in DOMAIN st /\ st[p] = "finished")
                        /\ \A p \in DOMAIN st :
                             \/ st[p] = "non_tried"
                             \/ /\ st[p] = "finished"
                                /\ \E q \in held : p - q \in 1 - HardBS .. HardBS - 1
      BY Zenon DEF GenerateExact
  <2>2. /\ Consecutive(lines) \/ lines = EmptyMap
        /\ TwoStatus(lines, f) /\ AllCovered(lines, f, d, series)
      BY Zenon, <2>1 DEF GenerateInv, GenerateEnded, Completed
  <2>3. ASSUME NEW p \in held \cap asked
        PROVE  p \in series.failed \/ (p \in DOMAIN st /\ st[p] = "finished")
    <3>1. p \in Asked(f, d)
        BY <2>3 DEF Asked, HeldIn
    <3>2. p \in series.failed \/ Holds(BlocksOf(lines), p, "finished")
        BY Zenon, <2>2, <3>1 DEF AllCovered, CoveredAt
    <3>. QED  BY Zenon, <2>2, <3>2, StatusOfSaved
  <2>4. ASSUME NEW p \in DOMAIN st
        PROVE  \/ st[p] = "non_tried"
               \/ st[p] = "finished" /\ \E q \in held : p - q \in 1 - HardBS .. HardBS - 1
    <3>1. Holds(BlocksOf(lines), p, st[p])
        BY Zenon, <2>2, <2>4, StatusOfSaved
    <3>. QED  BY Zenon, <2>2, <3>1 DEF TwoStatus, Near, HeldIn
  <2>. QED  BY Zenon, <2>3, <2>4
<1>. QED  BY <1>1, <1>2, <1>3, <1>4, <1>5, <1>6, ModesSafe, PTL DEF ModesSpec

-----------------------------------------------------------------------------
(***************************************************************************)
(* What command mode takes for finished is in the output file.             *)
(***************************************************************************)

\* The output file f holds position p as the input does, or filled; holes tells
\* whether zeros at its end may be missing.
OnDisc(f, holes, p) ==
  IF p \in DOMAIN f THEN f[p] \in {Input[p], "fill"} ELSE holes /\ Input[p] = "zero"
Kept(v, f, holes) == \A p : Holds(BlocksOf(v), p, "finished") => OnDisc(f, holes, p)

\* What a sparse copy may leave in the place of a zero is no other data.
Clean(f) == \A p \in DOMAIN f \cap DOMAIN Input : Input[p] = "zero" => f[p] # "data"
Sparse == \E a \in CommandArgs : a.sparse

KeptInv ==
  /\ ~series.guess => /\ Kept(mapfile.lines, outfile, series.holes)
                      /\ pc # "none" => Kept(book.v, outfile, series.holes)
  /\ pc # "none" /\ job.mode = "generate" => series.guess
  /\ Sparse => Clean(outfile)
  /\ job.mode = "commands" /\ job.sparse => series.holes /\ Sparse

\* A write of the input, or of fill data, loses nothing of this.
LEMMA WriteKeeps ==
  ASSUME NEW f, IsFile(f), NEW c, IsChunk(c), NEW n \in Nat, NEW data,
         \A p \in c.pos .. c.pos + n - 1 : data[p] \in {Input[p], "fill"},
         NEW g, g = writeblockp(f, c, n, data)
  PROVE  /\ \A holes, p : OnDisc(f, holes, p) => OnDisc(g, holes, p)
         /\ \A p \in c.pos .. c.pos + n - 1 : \A holes : OnDisc(g, holes, p)
         /\ Clean(f) => Clean(g)
<1> DEFINE m == c.pos + n
           W == 0 .. m - 1
           D == DOMAIN f \cup IF n > 0 THEN W ELSE {}
           R == c.pos .. m - 1
<1>1. c.pos \in Nat /\ n \in Nat
    BY DEF IsChunk
<1>2. DOMAIN f \subseteq Int
    BY DEF IsFile
<1>3. R = c.pos .. c.pos + n - 1 /\ W = 0 .. c.pos + n - 1
    BY <1>1
<1>4. /\ DOMAIN g = D
      /\ \A p \in D : g[p] = IF c.pos <= p /\ p < m THEN data[p]
                             ELSE IF p \in DOMAIN f THEN f[p] ELSE "zero"
    BY <1>3 DEF writeblockp
<1>5. R \subseteq D /\ D \subseteq Int /\ \A p \in D : p \in R <=> c.pos <= p /\ p < m
    BY <1>1, <1>2
<1>6. \A p \in R : data[p] \in {Input[p], "fill"}
    BY Zenon, <1>3
<1> HIDE DEF R, D, m, W
<1>7. \A p \in D : g[p] = IF p \in R THEN data[p] ELSE IF p \in DOMAIN f THEN f[p] ELSE "zero"
    BY Zenon, <1>4, <1>5
<1>8. \A p \in DOMAIN f : p \in D
    BY DEF D
<1>9. ASSUME NEW holes, NEW p, OnDisc(f, holes, p)  PROVE  OnDisc(g, holes, p)
    BY <1>4, <1>6, <1>7, <1>8, <1>9 DEF OnDisc
<1>10. \A p \in R : \A holes : OnDisc(g, holes, p)
    BY <1>4, <1>5, <1>6, <1>7 DEF OnDisc
<1>11. ASSUME Clean(f), NEW p \in DOMAIN g \cap DOMAIN Input, Input[p] = "zero"
       PROVE  g[p] # "data"
    BY <1>4, <1>6, <1>7, <1>8, <1>11 DEF Clean
<1>. QED  BY Zenon, <1>3, <1>9, <1>10, <1>11 DEF Clean

\* What a load takes for finished was finished.
LEMMA GentleFinished ==
  ASSUME NEW v, NEW lines, IsMapLines(lines), Gentle(BlocksOf(v), BlocksOf(lines)), NEW p,
         Holds(BlocksOf(v), p, "finished")
  PROVE  Holds(BlocksOf(lines), p, "finished")
<1>1. PICK x \in BlocksOf(v) : p \in Bytes(x) /\ x.st = "finished"
    BY Zenon DEF Holds
<1>2. Rank(x) = 4
    BY <1>1, Ranks DEF Rank
<1>3. PICK y \in BlocksOf(lines) : p \in Bytes(y) /\ Rank(x) <= Rank(y)
    BY <1>1, <1>2 DEF Gentle, NoMoreProcessed
<1>4. y.st \in Status
  <2>1. CASE lines = EmptyMap
      BY <2>1, <1>3 DEF EmptyMap, BlocksOf, Status, BM!Status
  <2>2. CASE lines # EmptyMap
    <3>1. lines \in Seq(Blocks)
        BY <2>2 DEF IsMapLines
    <3>2. y \in Blocks
        BY <1>3, <3>1 DEF BlocksOf
    <3>. QED  BY <3>2 DEF Blocks
  <2>. QED  BY <2>1, <2>2
<1>5. Rank(y) = 4
    BY <1>2, <1>3, <1>4, Ranks DEF Rank
<1>6. y.st = "finished"
    BY <1>4, <1>5, Ranks DEF Rank
<1>. QED  BY Zenon, <1>3, <1>6 DEF Holds

\* No step of a run changes its job, or more of its series than what was done.
LEMMA StepIs ==
  ASSUME ModesInv, IsSeries(series), pc # "none", ModesNext
  PROVE  job' = job /\ SameSeries(series', series)
<1>1. CASE job.mode # "fill"
    BY Zenon, <1>1, OtherStepIs
<1>2. CASE job.mode = "fill"
  <2>1. pc \in {"fill", "end"}
      BY Zenon, <1>2, WhileFilling
  <2>2. CASE FillArea \/ NoAreaLeft \/ FillInterrupted
    <3>1. job' = job /\ series' = series
        BY <2>2 DEF FillArea, NoAreaLeft, FillInterrupted, Interrupted
    <3>. QED  BY Zenon, <3>1, SameSeriesIs
  <2>3. CASE FillBlock \/ FillFails
    <3>1. job' = job
        BY Zenon, <2>3 DEF FillBlock, FillFails
    <3>2. \/ series' = series
          \/ \E x : series' = [series EXCEPT !.done = x]
          \/ \E x : series' = [series EXCEPT !.failed = x]
        BY Zenon, <2>3 DEF FillBlock, FillFails
    <3>3. CASE series' = series
        BY Zenon, <3>1, <3>3, SameSeriesIs
    <3>4. ASSUME NEW x, series' = [series EXCEPT !.done = x]
          PROVE  SameSeries(series', series)
      <4> DEFINE t == [series EXCEPT !.done = x]
      <4>1. SameSeries(t, series)
          BY Zenon, SeriesWith
      <4> HIDE DEF t
      <4>2. series' = t
          BY <3>4 DEF t
      <4>. QED  BY Zenon, <4>1, <4>2
    <3>5. ASSUME NEW x, series' = [series EXCEPT !.failed = x]
          PROVE  SameSeries(series', series)
      <4> DEFINE t == [series EXCEPT !.failed = x]
      <4>1. SameSeries(t, series)
          BY Zenon, SeriesWith
      <4> HIDE DEF t
      <4>2. series' = t
          BY <3>5 DEF t
      <4>. QED  BY Zenon, <4>1, <4>2
    <3>. QED  BY Zenon, <3>1, <3>2, <3>3, <3>4, <3>5
  <2>4. CASE End \/ Kill
    <3>1. job' = job /\ series' = series
        BY <2>4 DEF End, Kill, Finish, Exit
    <3>. QED  BY Zenon, <3>1, SameSeriesIs
  <2>5. FillStep \/ End \/ Kill
    <3>1. ~FillStarts
        BY Zenon, StartFillIs DEF FillStarts
    <3>2. ~OtherStarts
        BY DEF OtherStarts, StartGenerate, StartCommands, Start
    <3>3. ~GenerateStep /\ ~CopyStep /\ ~Command
        BY <2>1 DEF GenerateStep, AllChecked, GenerateInterrupted, CheckChunk, CopyStep, CopyDone,
           CopyChunk, CopyWriteFails, Command, CopyCommand, UpdateCommand, FinishCommand,
           QuitCommand
    <3>. QED  BY Zenon, <3>1, <3>2, <3>3 DEF ModesNext, Work
  <2>. QED  BY Zenon, <2>2, <2>3, <2>4, <2>5 DEF FillStep
<1>. QED  BY <1>1, <1>2

\* A step of a run keeps all this if what it leaves is kept.
LEMMA KeptProceeds ==
  ASSUME KeptInv, pc # "none", job' = job, NEW s, s = series', SameSeries(s, series),
         NEW f, f = outfile', Clean(outfile) => Clean(f),
         NEW m, m = mapfile', NEW k, k = book',
         ~series.guess /\ Kept(mapfile.lines, outfile, series.holes)
                       /\ Kept(book.v, outfile, series.holes) =>
           Kept(m.lines, f, series.holes) /\ (pc' # "none" => Kept(k.v, f, series.holes))
  PROVE  KeptInv'
<1>1. s.guess = series.guess /\ s.holes = series.holes
    BY Zenon DEF SameSeries
<1>2. ~s.guess => Kept(m.lines, f, s.holes) /\ (pc' # "none" => Kept(k.v, f, s.holes))
    BY Zenon, <1>1 DEF KeptInv
<1>3. job.mode = "generate" => s.guess
    BY Zenon, <1>1 DEF KeptInv
<1>4. Sparse => Clean(f)
    BY Zenon DEF KeptInv
<1>5. job.mode = "commands" /\ job.sparse => s.holes /\ Sparse
    BY Zenon, <1>1 DEF KeptInv
<1>. QED  BY Zenon, <1>2, <1>3, <1>4, <1>5 DEF KeptInv, Sparse

LEMMA CopyChunkIsKept ==
  ASSUME ModesInv, KeptInv, SeriesOk(series, job), CopyChunk, SameSeries(series', series)
  PROVE  KeptInv'
<1> DEFINE c == Chunk(b.pos, end(b)).b
           l == book'
           g == outfile'
           h == series.holes
<1>1. /\ pc = "copy" /\ b.size > 0 /\ c.size > 0 /\ job.mode = "commands"
      /\ job' = job /\ mapfile' = mapfile
      /\ \E r \in readblockp(Input, c) :
           /\ IsRead(r, c)
           /\ r.copied > 0 => c.pos + r.copied <= FileSize(Input)
           /\ g = IF SkipsZeros(c, r.copied) THEN outfile
                  ELSE writeblockp(outfile, c, r.copied, Input)
           /\ CopiesRead(l.v, book.v, c, r, pc' = "copy")
    BY Zenon, CopyIs
<1>2. IsChunk(c) /\ pc # "none"
    BY Zenon, <1>1, NextChunkIs
<1>3. IsFile(outfile)
    BY DEF ModesInv
<1>4. PICK r \in readblockp(Input, c) :
           /\ IsRead(r, c)
           /\ r.copied > 0 => c.pos + r.copied <= FileSize(Input)
           /\ g = IF SkipsZeros(c, r.copied) THEN outfile
                  ELSE writeblockp(outfile, c, r.copied, Input)
           /\ CopiesRead(l.v, book.v, c, r, pc' = "copy")
    BY Zenon, <1>1
<1> DEFINE n == r.copied
           R == c.pos .. c.pos + n - 1
<1> HIDE DEF c, l, g, h
<1>5. n \in Nat /\ c.pos \in Nat
    BY <1>2, <1>4 DEF IsRead, IsChunk
<1>6. /\ \A p : OnDisc(outfile, h, p) => OnDisc(g, h, p)
      /\ \A p \in R : OnDisc(g, h, p)
      /\ Clean(outfile) => Clean(g)
  <2>1. CASE SkipsZeros(c, n)
    <3>1. /\ g = outfile /\ job.sparse /\ \A p \in R : Input[p] = "zero"
        BY Zenon, <1>4, <2>1 DEF SkipsZeros
    <3>2. h /\ Clean(outfile)
        BY Zenon, <1>1, <3>1 DEF KeptInv, h
    <3>3. \A p \in R : p \in DOMAIN Input
      <4>1. DOMAIN Input = 0 .. FileSize(Input) - 1 /\ FileSize(Input) \in Nat
          BY InputIs
      <4>2. SUFFICES ASSUME NEW p \in R  PROVE  p \in 0 .. FileSize(Input) - 1
          BY Zenon, <4>1
      <4>3. n > 0
          BY <1>5
      <4>. QED  BY <1>4, <1>5, <4>1, <4>3
    <3>4. \A p \in DOMAIN outfile : outfile[p] \in Content
        BY <1>3 DEF IsFile
    <3>5. ASSUME NEW p \in R  PROVE  OnDisc(outfile, h, p)
      <4>1. CASE p \in DOMAIN outfile
        <5>1. outfile[p] # "data" /\ outfile[p] \in Content
            BY Zenon, <3>1, <3>2, <3>3, <3>4, <4>1 DEF Clean
        <5>. QED  BY <3>1, <4>1, <5>1 DEF OnDisc, Content
      <4>2. CASE p \notin DOMAIN outfile
          BY Zenon, <3>1, <3>2, <4>2 DEF OnDisc
      <4>. QED  BY Zenon, <4>1, <4>2
    <3>. QED  BY Zenon, <3>1, <3>5
  <2>2. CASE ~SkipsZeros(c, n)
    <3>1. g = writeblockp(outfile, c, n, Input)
        BY Zenon, <1>4, <2>2
    <3>2. \A p \in c.pos .. c.pos + n - 1 : Input[p] \in {Input[p], "fill"}
        OBVIOUS
    <3> HIDE DEF n
    <3>. QED  BY Zenon, <1>2, <1>3, <1>5, <3>1, <3>2, WriteKeeps DEF R
  <2>. QED  BY Zenon, <2>1, <2>2
<1>7. \A p : Holds(BlocksOf(l.v), p, "finished") => p \in R \/ Holds(BlocksOf(book.v), p, "finished")
  <2>1. ASSUME NEW u, MarksRead(l.v, u, c, r), NEW p, Holds(BlocksOf(l.v), p, "finished")
        PROVE  p \in R \/ Holds(BlocksOf(u), p, "finished")
    <3>1. "finished" # "bad_sector"
        OBVIOUS
    <3>. QED  BY Zenon, <2>1, <3>1 DEF MarksRead, R, n
  <2>2. CASE MarksRead(l.v, book.v, c, r)
      BY Zenon, <2>1, <2>2
  <2>3. ASSUME NEW u, NEW e, CutMap(u, book.v, e), MarksRead(l.v, u, c, r)
        PROVE  \A p : Holds(BlocksOf(l.v), p, "finished") =>
                        p \in R \/ Holds(BlocksOf(book.v), p, "finished")
      BY Zenon, <2>1, <2>3 DEF CutMap
  <2>. QED  BY Zenon, <1>4, <2>2, <2>3 DEF CopiesRead
<1>8. ASSUME Kept(mapfile.lines, outfile, h), Kept(book.v, outfile, h)
      PROVE  Kept(mapfile.lines, g, h) /\ Kept(l.v, g, h)
  <2>1. Kept(mapfile.lines, g, h) /\ Kept(book.v, g, h)
      BY Zenon, <1>6, <1>8 DEF Kept
  <2>. QED  BY Zenon, <1>6, <1>7, <2>1 DEF Kept
<1>9. ~series.guess /\ Kept(mapfile.lines, outfile, series.holes)
                    /\ Kept(book.v, outfile, series.holes) =>
         Kept(mapfile.lines, g, series.holes) /\ (pc' # "none" => Kept(l.v, g, series.holes))
    BY Zenon, <1>8 DEF h
<1>. QED  BY Zenon, <1>1, <1>2, <1>6, <1>9, KeptProceeds DEF l, g

LEMMA CopyWriteFailsIsKept ==
  ASSUME ModesInv, KeptInv, CopyWriteFails, SameSeries(series', series)  PROVE  KeptInv'
<1> DEFINE f == Chunk(b.pos, end(b))
           c == f.b
           g == outfile'
           h == series.holes
           l == book'
<1>1. /\ pc = "copy" /\ job' = job /\ mapfile' = mapfile
      /\ l = [book EXCEPT !.index = f.index]
      /\ IsChunk(c)
      /\ \E n \in Nat : g = writeblockp(outfile, c, n, Input)
    BY Zenon, WriteFailureIs
<1>2. pc # "none" /\ IsFile(outfile)
    BY <1>1 DEF ModesInv
<1>3. PICK n \in Nat : g = writeblockp(outfile, c, n, Input)
    BY Zenon, <1>1
<1>4. l.v = book.v
  <2>1. Loaded(book, job.mode)
      BY <1>2 DEF ModesInv, RunOk
  <2> HIDE DEF f
  <2>. QED  BY <1>1, <2>1 DEF Loaded, IsBook
<1> HIDE DEF c, g, h, l
<1>5. \A p \in c.pos .. c.pos + n - 1 : Input[p] \in {Input[p], "fill"}
    OBVIOUS
<1>6. /\ \A i, p : OnDisc(outfile, i, p) => OnDisc(g, i, p)
      /\ Clean(outfile) => Clean(g)
    BY Zenon, <1>1, <1>2, <1>3, <1>5, WriteKeeps
<1>7. \A v, i : Kept(v, outfile, i) => Kept(v, g, i)
    BY Zenon, <1>6 DEF Kept
<1>. QED  BY Zenon, <1>1, <1>2, <1>4, <1>6, <1>7, KeptProceeds DEF l, g

\* The other steps of command mode write nothing to the output file and save what is
\* in memory.
LEMMA OtherCommandIsKept ==
  ASSUME ModesInv, KeptInv, pc # "none", job.mode = "commands",
         CopyDone \/ Command \/ Kill, SameSeries(series', series)
  PROVE  KeptInv'
<1> DEFINE l == book'
           m == mapfile'
           w == compact_sblock_vector(book.v)
<1>1. Loaded(book, "commands") /\ GoodMap(mapfile)
    BY DEF ModesInv, RunOk
<1>2. "commands" # "fill"
    OBVIOUS
<1>3. Memory(book.v) /\ book = [v |-> book.v, domain |-> book.domain, index |-> book.index,
                               status |-> book.status, pos |-> book.pos]
    BY Zenon, <1>1, <1>2 DEF Loaded, IsBook
<1>4. /\ job' = job /\ outfile' = outfile
      /\ m.lines \in {mapfile.lines, book.v, w}
      /\ pc' # "none" => l.v = book.v
  <2>1. CASE CopyDone
      BY <1>3, <2>1 DEF CopyDone, disc
  <2>2. CASE CopyCommand
      BY <2>2 DEF CopyCommand, disc
  <2>3. CASE UpdateCommand
    <3>1. m = mapfile \/ m = Saved(book)
        BY <2>3 DEF UpdateCommand, update_mapfile
    <3>2. Saved(book).lines = book.v
        BY DEF Saved
    <3>3. job' = job /\ outfile' = outfile /\ book' = book
        BY <2>3 DEF UpdateCommand
    <3> HIDE DEF m
    <3>. QED  BY Zenon, <3>1, <3>2, <3>3
  <2>4. CASE FinishCommand
    <3>1. Finish(book)
        BY <2>4 DEF FinishCommand
    <3>2. /\ Exit /\ outfile' = outfile
          /\ \/ m = mapfile
             \/ m = [lines |-> compact_sblock_vector(book.v), status |-> book.status,
                     pos |-> book.pos]
        BY Zenon, <1>1, <3>1, FinishIs
    <3>3. m.lines \in {mapfile.lines, w}
      <4> HIDE DEF m, w
      <4>. QED  BY <3>2 DEF w
    <3>. QED  BY <3>2, <3>3 DEF Exit
  <2>5. CASE QuitCommand
      BY <2>5 DEF QuitCommand, Exit, disc
  <2>6. CASE Kill
      BY <2>6 DEF Kill, Exit, disc
  <2>. QED  BY Zenon, <2>1, <2>2, <2>3, <2>4, <2>5, <2>6 DEF Command
<1>5. \A p, t : Holds(BlocksOf(w), p, t) <=> Holds(BlocksOf(book.v), p, t)
    BY Zenon, <1>3, CompactHolds
<1> HIDE DEF w, m, l
<1>6. \A f, h : Kept(book.v, f, h) => Kept(w, f, h)
    BY Zenon, <1>5 DEF Kept
<1>7. Kept(mapfile.lines, outfile, series.holes) /\ Kept(book.v, outfile, series.holes) =>
        /\ Kept(m.lines, outfile, series.holes)
        /\ pc' # "none" => Kept(l.v, outfile, series.holes)
    BY Zenon, <1>4, <1>6
<1>. QED  BY Zenon, <1>4, <1>7, KeptProceeds DEF l, m

LEMMA GenerateIsKept ==
  ASSUME KeptInv, pc # "none", job.mode = "generate", job' = job, outfile' = outfile,
         SameSeries(series', series)
  PROVE  KeptInv'
<1>1. series.guess
    BY Zenon DEF KeptInv
<1>. QED  BY Zenon, <1>1, KeptProceeds

\* While filling, what is in memory and what is saved hold the same statuses.
LEMMA FillIsKept ==
  ASSUME ModesInv, ModesInv', KeptInv, pc # "none", job.mode = "fill", ModesNext, job' = job,
         SameSeries(series', series)
  PROVE  KeptInv'
<1> DEFINE m == mapfile'
           g == outfile'
           h == series.holes
           l == book'
<1>1. /\ m.lines \in {mapfile.lines, book.v, compact_sblock_vector(book.v)}
      /\ g = outfile \/ \E n \in 0 .. b.size : pc = "fill" /\ b.size > 0 /\ Write(n)
    BY Zenon, FillKeepsLines
<1>2. Same(BlocksOf(m.lines), BlocksOf(mapfile.lines))
    BY Zenon, <1>1, SavedWithSameStatus
<1>3. pc' # "none" => Same(BlocksOf(l.v), BlocksOf(m.lines))
    BY Zenon DEF ModesInv, FillOk, FillsMap
<1>4. /\ \A i, p : OnDisc(outfile, i, p) => OnDisc(g, i, p)
      /\ Clean(outfile) => Clean(g)
  <2>1. CASE g = outfile
      BY Zenon, <2>1
  <2>2. CASE \E n \in 0 .. b.size : pc = "fill" /\ b.size > 0 /\ Write(n)
    <3>1. PICK n \in 0 .. b.size : pc = "fill" /\ b.size > 0 /\ Write(n)
        BY Zenon, <2>2
    <3> DEFINE data == [p \in FirstBytes(n) |-> "fill"]
    <3>2. IsChunk(b) /\ IsFile(outfile)
        BY Zenon, <3>1, AtBlockIs DEF ModesInv
    <3>3. n \in Nat
        BY <3>2 DEF IsChunk
    <3>4. g = writeblockp(outfile, b, n, data)
        BY Zenon, <3>1 DEF Write
    <3>5. \A p \in b.pos .. b.pos + n - 1 : data[p] \in {Input[p], "fill"}
        BY DEF FirstBytes
    <3> HIDE DEF data, g
    <3>. QED  BY Zenon, <3>2, <3>3, <3>4, <3>5, WriteKeeps
  <2>. QED  BY Zenon, <1>1, <2>1, <2>2
<1> HIDE DEF m, g, l
<1>5. ASSUME Kept(mapfile.lines, outfile, h)
      PROVE  Kept(m.lines, g, h) /\ (pc' # "none" => Kept(l.v, g, h))
  <2>1. Kept(m.lines, g, h)
      BY Zenon, <1>2, <1>4, <1>5, SameHolds DEF Kept
  <2>2. pc' # "none" => Kept(l.v, g, h)
      BY Zenon, <1>3, <2>1, SameHolds DEF Kept
  <2>. QED  BY <2>1, <2>2
<1>. QED  BY Zenon, <1>4, <1>5, KeptProceeds DEF m, g, l, h

LEMMA StartGuesses ==
  ASSUME SeriesOk(series, job), FillStarts \/ OtherStarts
  PROVE  /\ ~series'.guess => ~series.guess
         /\ series.holes => series'.holes
         /\ job'.mode = "generate" => series'.guess
<1>1. PICK j, k, x, resumed : Start(j, k, x, resumed)
    BY Zenon DEF FillStarts, OtherStarts, StartFill, StartGenerate, StartCommands
<1>2. /\ job' = j
      /\ series'.guess = (series.guess \/ j.mode = "generate")
      /\ series'.holes = series.holes
         \/ series'.holes = (series.holes \/ (j.mode = "commands" /\ j.sparse))
    BY Zenon, <1>1, StartsSeries
<1>. QED  BY <1>2

\* A run begins with what it has read.
LEMMA StartIsKept ==
  ASSUME KeptInv, SeriesOk(series, job), FillStarts \/ OtherStarts, outfile' = outfile,
         NEW k, k = book', NEW m, m = mapfile', m = mapfile \/ m = Saved(k),
         \A p : Holds(BlocksOf(k.v), p, "finished") => Holds(BlocksOf(mapfile.lines), p, "finished"),
         job'.mode = "commands" /\ job'.sparse => series'.holes /\ Sparse
  PROVE  KeptInv'
<1>1. /\ ~series'.guess => ~series.guess
      /\ series.holes => series'.holes
      /\ job'.mode = "generate" => series'.guess
    BY Zenon, StartGuesses
<1> DEFINE h == series'.holes
<1>3. series.holes => h
    BY Zenon, <1>1
<1> HIDE DEF h
<1>2. ASSUME Kept(mapfile.lines, outfile, series.holes)
      PROVE  Kept(m.lines, outfile, h) /\ Kept(k.v, outfile, h)
  <2>1. Kept(mapfile.lines, outfile, h)
      BY Zenon, <1>3, <1>2 DEF Kept, OnDisc
  <2>2. Kept(k.v, outfile, h)
      BY Zenon, <2>1 DEF Kept
  <2>3. m = Saved(k) => m.lines = k.v
      BY DEF Saved
  <2>. QED  BY Zenon, <2>1, <2>2, <2>3
<1>. QED  BY Zenon, <1>1, <1>2 DEF KeptInv, Sparse, h

LEMMA StartsAreKept ==
  ASSUME ModesInv, KeptInv, SeriesOk(series, job), FillStarts \/ OtherStarts
  PROVE  KeptInv'
<1>0. GoodMap(mapfile)
    BY Zenon DEF ModesInv
<1>1. CASE FillStarts
  <2> DEFINE k == book'
             m == mapfile'
  <2>1. job'.mode = "fill" /\ m = mapfile /\ outfile' = outfile /\ FillsMap(k, mapfile, job'.domain)
      BY Zenon, <1>1, StartFillIs DEF FillStarts
  <2>2. "fill" # "commands"
      OBVIOUS
  <2> HIDE DEF k, m
  <2>3. \A p, t : Holds(BlocksOf(k.v), p, t) <=> Holds(BlocksOf(mapfile.lines), p, t)
      BY Zenon, <2>1, SameHolds DEF FillsMap
  <2>. QED  BY Zenon, <1>1, <2>1, <2>2, <2>3, StartIsKept DEF k, m
<1>2. CASE OtherStarts
  <2> DEFINE k == book'
             m == mapfile'
  <2>1. /\ outfile' = outfile /\ Gentle(BlocksOf(k.v), BlocksOf(mapfile.lines))
        /\ m = mapfile \/ m = Saved(k)
        /\ job'.mode = "commands" /\ job'.sparse => series'.holes /\ Sparse
    <3>1. CASE StartGenerate
      <4>1. "generate" # "commands"
          OBVIOUS
      <4>. QED  BY Zenon, <3>1, <4>1, StartGenerateIs
    <3>2. CASE StartCommands
        BY Zenon, <3>2, StartCommandsIs DEF Sparse
    <3>. QED  BY Zenon, <1>2, <3>1, <3>2 DEF OtherStarts
  <2> HIDE DEF k, m
  <2>2. \A p : Holds(BlocksOf(k.v), p, "finished") => Holds(BlocksOf(mapfile.lines), p, "finished")
      BY Zenon, <1>0, <2>1, GentleFinished DEF GoodMap
  <2>. QED  BY Zenon, <1>2, <2>1, <2>2, StartIsKept DEF k, m
<1>. QED  BY Zenon, <1>1, <1>2

LEMMA KeptInvKept ==
  ASSUME ModesInv, ModesInv', KeptInv, SeriesOk(series, job), [ModesNext]_allvars
  PROVE  KeptInv'
<1>1. CASE UNCHANGED allvars
    BY <1>1 DEF allvars, vars, KeptInv
<1>2. CASE FillStarts \/ OtherStarts
    BY Zenon, <1>2, StartsAreKept
<1>3. CASE Work \/ (Command /\ UNCHANGED area) \/ (Kill /\ UNCHANGED area)
  <2>1. pc # "none"
      BY <1>3 DEF Work, FillStep, FillArea, NoAreaLeft, FillInterrupted, FillBlock, FillFails,
         GenerateStep, AllChecked, GenerateInterrupted, CheckChunk, CopyStep, CopyDone,
         CopyChunk, CopyWriteFails, Command, CopyCommand, UpdateCommand, FinishCommand,
         QuitCommand, End, Kill
  <2>2. ModesNext
      BY Zenon, <1>3 DEF ModesNext
  <2>3. job' = job /\ SameSeries(series', series)
      BY Zenon, <2>1, <2>2, StepIs DEF SeriesOk
  <2>4. CASE job.mode = "fill"
      BY Zenon, <2>1, <2>2, <2>3, <2>4, FillIsKept
  <2>5. CASE job.mode = "generate"
    <3>1. pc \in {"generate", "end"}
        BY <2>1, <2>5 DEF ModesInv, RunOk
    <3>2. GenerateStep \/ End \/ Kill
        BY <1>3, <3>1 DEF Work, FillStep, FillArea, NoAreaLeft, FillInterrupted, FillBlock,
           FillFails, CopyStep, CopyDone, CopyChunk, CopyWriteFails, Command, CopyCommand,
           UpdateCommand, FinishCommand, QuitCommand
    <3>3. outfile' = outfile
        BY <3>2 DEF GenerateStep, AllChecked, GenerateInterrupted, CheckChunk, Interrupted, disc,
           End, Finish, Kill
    <3>. QED  BY Zenon, <2>1, <2>3, <2>5, <3>3, GenerateIsKept
  <2>6. CASE job.mode = "commands"
    <3>1. pc \in {"commands", "copy"}
        BY <2>1, <2>6 DEF ModesInv, RunOk
    <3>2. CopyStep \/ Command \/ Kill
        BY <1>3, <3>1 DEF Work, FillStep, FillArea, NoAreaLeft, FillInterrupted, FillBlock,
           FillFails, GenerateStep, AllChecked, GenerateInterrupted, CheckChunk, End
    <3>. QED  BY Zenon, <2>1, <2>3, <2>6, <3>2, CopyChunkIsKept, CopyWriteFailsIsKept,
                 OtherCommandIsKept DEF CopyStep
  <2>7. job.mode \in {"fill", "generate", "commands"}
      BY <2>1 DEF ModesInv, RunOk
  <2>. QED  BY <2>4, <2>5, <2>6, <2>7
<1>. QED  BY Zenon, <1>1, <1>2, <1>3 DEF ModesNext

-----------------------------------------------------------------------------
\* What a copy command was asked for and has been settled, finished or bad.
Settled(t) == t \in {"finished", "bad_sector"}
SettledTo(v, d, asked, q) ==
  \A p \in asked \cap InDomains(d) : p < q => \A t : Holds(BlocksOf(v), p, t) => Settled(t)
AllSettled(v, d, asked) ==
  \A p \in asked \cap InDomains(d) : \A t : Holds(BlocksOf(v), p, t) => Settled(t)

SettledInv ==
  /\ pc = "copy" => /\ \A p \in series.done : p < end(b)
                    /\ SettledTo(book.v, book.domain, series.done, b.pos)
  /\ pc = "commands" => AllSettled(book.v, book.domain, series.done)
  /\ pc = "none" => book = NoBook

\* What is asked for and not finished is found.
LEMMA NextUnfinished ==
  ASSUME ModesInv, pc = "copy", NEW p, NEW t, Holds(BlocksOf(book.v), p, t),
         p \in InDomains(book.domain), t # "finished", b.pos <= p, p < end(b)
  PROVE  LET c == Chunk(b.pos, end(b)).b
         IN  c.size > 0 /\ c.pos <= p
<1> DEFINE F == FALSE
           T == TRUE
           s == "non_tried"
           y == assign(b.pos, SoftBS)
           g == find_chunk(book.v, book.index, y, s, book.domain, SoftBS, F, T)
           e == end(b)
           f == Chunk(b.pos, e)
<1>1. job.mode = "commands" /\ pc # "none" /\ job.mode # "fill"
    BY DEF ModesInv, RunOk
<1>2. /\ Memory(book.v) /\ book.index \in Int /\ Fits(b)
      /\ IsDomain(book.domain) /\ SplitFrom(BlocksOf(book.v), book.domain, 1)
    BY Zenon, <1>1, WhileInMap
<1>3. SoftBS \in Nat \ {0} /\ SoftBS \in Nat /\ b.pos \in 0 .. LLONG_MAX /\ e \in Nat
      /\ e <= LLONG_MAX /\ SoftBS > 0
    BY <1>2, SizesAssumption, LimitAssumption DEF Fits, IsChunk, end
<1>4. b.pos < LLONG_MAX
  <2>1. p \in Int
      BY DEF InDomains, Bytes
  <2>. QED  BY <1>3, <2>1, LimitAssumption
<1>5. IsChunk(y) /\ y.size > 0 /\ y.pos = b.pos
    BY Zenon, <1>3, <1>4, MadeFits DEF Fits
<1>6. f = [g EXCEPT !.b = CutChunk(@, e)]
    BY Zenon DEF Chunk, CutChunk
<1>7. ~F /\ Sought(t, s, T)
    BY DEF Sought
<1> HIDE DEF y, F, T, s
<1>8. IsChunk(g.b)
    BY <1>2, <1>3, <1>5, FoundInMemory
<1>9. g.b.size > 0 /\ g.b.pos <= p
    BY Zenon, <1>2, <1>3, <1>5, <1>7, FoundFirst
<1>10. f.b = CutChunk(g.b, e)
  <2>1. g = [found |-> g.found, b |-> g.b, index |-> g.index]
      BY Zenon, FoundRecord
  <2> HIDE DEF g, f, e
  <2>. QED  BY <1>6, <2>1
<1>11. end(g.b) <= LLONG_MAX \/ g.b.size = 0
  <2>1. HasChunk(book.v, book.domain, g.index, g.b)
    <3>1. /\ IsVector(book.v) /\ g.index \in 1 .. Len(book.v)
          /\ InDomain(book.domain, book.v[g.index])
          /\ includes(book.v[g.index], g.b)
        BY <1>2, <1>3, <1>5, <1>9, FoundInMemory
    <3>. QED  BY Zenon, <1>2, <1>8, <1>9, <3>1 DEF HasChunk
  <2>. QED  BY Zenon, <2>1, HasRest
<1> HIDE DEF g
<1> DEFINE w == CutChunk(g.b, e)
<1>12. /\ w.size > 0 <=> g.b.size > 0 /\ g.b.pos < e
       /\ w.size > 0 => w.pos = g.b.pos
    BY <1>3, <1>8, <1>11, CutChunkIs
<1>13. g.b.pos < e
  <2>1. p \in Int /\ g.b.pos \in Nat
      BY <1>8 DEF InDomains, Bytes, IsChunk
  <2>. QED  BY <1>3, <1>9, <2>1
<1> HIDE DEF w, f, e
<1>14. f.b = w
    BY <1>10 DEF w
<1>. QED  BY Zenon, <1>9, <1>12, <1>13, <1>14 DEF f, e

\* What is left before the end of a chunk that was read is settled, or was there
\* before the chunk.
LEMMA ReadIsSettled ==
  ASSUME NEW v, NEW w, NEW c, IsChunk(c), NEW r, IsRead(r, c), NEW goesOn, goesOn,
         CopiesRead(w, v, c, r, goesOn),
         NEW p \in Int, NEW t, Holds(BlocksOf(w), p, t), p < end(c)
  PROVE  Settled(t) \/ (p < c.pos /\ Holds(BlocksOf(v), p, t))
<1> DEFINE q == c.pos + r.copied
           e == c.pos + r.copied + r.error
           R == c.pos .. c.pos + r.copied - 1
           S == c.pos + r.copied .. c.pos + r.copied + r.error - 1
<1>1. c.pos \in Nat /\ r.copied \in Nat /\ r.error \in Nat /\ end(c) \in Nat
    BY DEF IsChunk, IsRead, end
<1>2. /\ e \in Nat
      /\ p \in R <=> c.pos <= p /\ p < q
      /\ p \in S <=> q <= p /\ p < e
      /\ p < e => p < c.pos \/ p \in R \/ p \in S
    BY <1>1
<1>3. ASSUME NEW u, MarksRead(w, u, c, r)
      PROVE  Settled(t) \/ (p \notin R /\ p \notin S /\ Holds(BlocksOf(u), p, t))
  <2>1. Holds(BlocksOf(w), p, t) =>
          IF p \in R THEN t = "finished" ELSE IF p \in S THEN t = "bad_sector"
          ELSE Holds(BlocksOf(u), p, t)
      BY Zenon, <1>3 DEF MarksRead
  <2> HIDE DEF R, S
  <2>. QED  BY <2>1 DEF Settled
<1>4. CASE MarksRead(w, v, c, r) /\ ~(e < end(c))
  <2>1. p < e
      BY <1>1, <1>2, <1>4
  <2>. QED  BY Zenon, <1>2, <1>3, <1>4, <2>1
<1>5. ASSUME NEW u, CutMap(u, v, e), MarksRead(w, u, c, r)
      PROVE  Settled(t) \/ (p < c.pos /\ Holds(BlocksOf(v), p, t))
  <2>1. Holds(BlocksOf(u), p, t) => Holds(BlocksOf(v), p, t) /\ p < e
      BY Zenon, <1>5 DEF CutMap
  <2>. QED  BY Zenon, <1>2, <1>3, <1>5, <2>1
<1>. QED  BY Zenon, <1>4, <1>5 DEF CopiesRead

LEMMA CopyChunkSettles ==
  ASSUME ModesInv, SettledInv, CopyChunk  PROVE  SettledInv'
<1> DEFINE c == Chunk(b.pos, end(b)).b
           l == book'
           x == b'
           s == series'
<1>1. /\ pc = "copy" /\ c.size > 0 /\ Loaded(l, "commands") /\ SameRun(l, book)
      /\ \E r \in readblockp(Input, c) :
           IsRead(r, c) /\ CopiesRead(l.v, book.v, c, r, pc' = "copy")
      /\ \/ pc' = "copy" /\ x = [pos |-> end(c), size |-> end(b) - end(c)] /\ s = series
         \/ CopyFails
    BY Zenon, CopyIs
<1>2. IsChunk(c)
    BY Zenon, <1>1, NextChunkIs
<1>3. Fits(b)
    BY DEF ModesInv
<1>4. CASE CopyFails
    BY <1>4 DEF CopyFails, SettledInv, AllSettled
<1>5. CASE pc' = "copy" /\ x = [pos |-> end(c), size |-> end(b) - end(c)] /\ s = series
  <2>1. PICK r \in readblockp(Input, c) :
               IsRead(r, c) /\ CopiesRead(l.v, book.v, c, r, pc' = "copy")
      BY Zenon, <1>1
  <2>2. l.domain = book.domain
      BY Zenon, <1>1 DEF SameRun
  <2>3. /\ \A p \in series.done : p < end(b)
        /\ SettledTo(book.v, book.domain, series.done, b.pos)
      BY Zenon, <1>1 DEF SettledInv
  <2>4. end(c) \in Nat /\ end(b) \in Nat /\ b.pos \in Nat /\ c.pos \in Nat
      BY <1>2, <1>3 DEF IsChunk, Fits, end
  <2> HIDE DEF c
  <2>5. x.pos = end(c) /\ end(x) = end(b)
      BY <1>5, <2>4 DEF end
  <2>6. ASSUME NEW p \in series.done \cap InDomains(book.domain), p < end(c),
               NEW t, Holds(BlocksOf(l.v), p, t)
        PROVE  Settled(t)
    <3>1. p \in Int /\ p < end(b)
        BY <2>3, <2>6 DEF InDomains, Bytes
    <3> HIDE DEF l
    <3>2. Settled(t) \/ (p < c.pos /\ Holds(BlocksOf(book.v), p, t))
        BY Zenon, <1>2, <1>5, <2>1, <2>6, <3>1, ReadIsSettled
    <3>3. CASE p < c.pos /\ Holds(BlocksOf(book.v), p, t)
      <4>1. CASE p < b.pos
          BY Zenon, <2>3, <2>6, <3>3, <4>1 DEF SettledTo
      <4>2. CASE ~(p < b.pos)
        <5>1. b.pos <= p /\ ~(c.pos <= p)
            BY <2>4, <3>1, <3>3, <4>2
        <5>2. t = "finished"
            BY Zenon, <1>1, <2>6, <3>1, <3>3, <5>1, NextUnfinished DEF c
        <5>. QED  BY <5>2 DEF Settled
      <4>. QED  BY <4>1, <4>2
    <3>. QED  BY <3>2, <3>3
  <2> HIDE DEF x, l, s
  <2>7. SettledTo(l.v, l.domain, s.done, x.pos)
      BY Zenon, <1>5, <2>2, <2>5, <2>6 DEF SettledTo
  <2>8. \A p \in s.done : p < end(x)
      BY Zenon, <1>5, <2>3, <2>5
  <2>9. pc' # "commands" /\ pc' # "none"
      BY <1>5
  <2>. QED  BY Zenon, <2>7, <2>8, <2>9 DEF SettledInv, x, l, s
<1>. QED  BY Zenon, <1>1, <1>4, <1>5

LEMMA CopyDoneSettles ==
  ASSUME ModesInv, SettledInv, CopyDone  PROVE  SettledInv'
<1> DEFINE f == Chunk(b.pos, end(b))
           l == book'
<1>1. /\ pc = "copy" /\ pc' = "commands" /\ series' = series
      /\ b.size = 0 \/ f.b.size <= 0
      /\ l = book \/ l = [book EXCEPT !.index = f.index]
    BY DEF CopyDone
<1>2. Loaded(book, job.mode) /\ Fits(b)
    BY <1>1 DEF ModesInv, RunOk
<1>3. l.v = book.v /\ l.domain = book.domain
  <2> HIDE DEF f
  <2>. QED  BY <1>1, <1>2 DEF Loaded, IsBook
<1>4. /\ \A p \in series.done : p < end(b)
      /\ SettledTo(book.v, book.domain, series.done, b.pos)
    BY Zenon, <1>1 DEF SettledInv
<1>5. b.pos \in Nat /\ end(b) \in Nat /\ (b.size = 0 => end(b) = b.pos)
    BY <1>2 DEF Fits, IsChunk, end
<1>6. IsChunk(f.b)
    BY Zenon, <1>1, NextChunkIs
<1>7. ASSUME NEW p \in series.done \cap InDomains(book.domain),
             NEW t, Holds(BlocksOf(book.v), p, t)
      PROVE  Settled(t)
  <2>1. p \in Int /\ p < end(b)
      BY <1>4, <1>7 DEF InDomains, Bytes
  <2>2. CASE p < b.pos
      BY Zenon, <1>4, <1>7, <2>2 DEF SettledTo
  <2>3. CASE ~(p < b.pos)
    <3>1. b.pos <= p /\ ~(b.size = 0)
        BY <1>5, <2>1, <2>3
    <3>2. ~(f.b.size > 0)
        BY <1>1, <1>6, <3>1 DEF IsChunk
    <3>3. t = "finished"
        BY Zenon, <1>1, <1>7, <2>1, <3>1, <3>2, NextUnfinished
    <3>. QED  BY <3>3 DEF Settled
  <2>. QED  BY <2>2, <2>3
<1> HIDE DEF l, f
<1>8. AllSettled(l.v, l.domain, series.done)
    BY Zenon, <1>3, <1>7 DEF AllSettled
<1>9. pc' # "copy" /\ pc' # "none"
    BY <1>1
<1>. QED  BY Zenon, <1>1, <1>8, <1>9 DEF SettledInv, l

LEMMA SettledInvKept ==
  ASSUME ModesInv, ModesInv', SettledInv, IsSeries(series), [ModesNext]_allvars
  PROVE  SettledInv'
<1>1. CASE UNCHANGED allvars
    BY <1>1 DEF allvars, vars, SettledInv
<1>2. CASE Exit
    BY <1>2 DEF Exit, SettledInv
<1>3. CASE CopyStep
  <2>1. CASE CopyWriteFails
      BY <2>1 DEF CopyWriteFails, CopyFails, SettledInv, AllSettled
  <2>. QED  BY Zenon, <1>3, <2>1, CopyChunkSettles, CopyDoneSettles DEF CopyStep
<1>4. CASE StartCommands
  <2> DEFINE k == book'
  <2>1. pc' = "commands" /\ series'.done = {}
      BY Zenon, <1>4, StartCommandsIs
  <2> HIDE DEF k
  <2>2. AllSettled(k.v, k.domain, series'.done)
      BY <2>1 DEF AllSettled
  <2>3. pc' # "copy" /\ pc' # "none"
      BY <2>1
  <2>. QED  BY Zenon, <2>2, <2>3 DEF SettledInv, k
<1>5. CASE FillStarts \/ StartGenerate
  <2>1. FillStarts => pc' = "fill"
      BY Zenon, StartFillIs DEF FillStarts
  <2>2. ASSUME StartGenerate  PROVE  pc' = "generate"
    <3>1. PICK j, k, x, resumed : Start([mode |-> "generate", domain |-> j], k, x, resumed)
        BY Zenon, <2>2 DEF StartGenerate
    <3> DEFINE m == [mode |-> "generate", domain |-> j]
    <3>2. m.mode = "generate"
        OBVIOUS
    <3> HIDE DEF m
    <3>3. Start(m, k, x, resumed)
        BY <3>1 DEF m
    <3>. QED  BY Zenon, <3>2, <3>3 DEF Start
  <2>3. pc' \in {"fill", "generate"}
      BY <1>5, <2>1, <2>2
  <2>. QED  BY <2>3 DEF SettledInv
<1>6. CASE UpdateCommand
    BY <1>6 DEF UpdateCommand, SettledInv
<1>7. CASE CopyCommand
  <2> DEFINE x == b'
             s == series'
             k == book'
             D == x.pos .. end(x) - 1
  <2>1. /\ pc = "commands" /\ pc' = "copy" /\ s = [series EXCEPT !.done = D] /\ k = book
        /\ b' \in Requests
      BY Zenon, <1>7 DEF CopyCommand
  <2>2. IsChunk(x)
    <3>1. Fits(x)
        BY Zenon DEF ModesInv
    <3>. QED  BY Zenon, <3>1 DEF Fits
  <2>3. x.pos \in Int /\ end(x) \in Int
      BY <2>2 DEF IsChunk, end
  <2>4. s.done = D
      BY Zenon, <2>1, SeriesWith
  <2> HIDE DEF x, s, k
  <2>5. ASSUME NEW p \in D  PROVE  p < end(x) /\ ~(p < x.pos)
      BY <2>3
  <2> HIDE DEF D
  <2>6. SettledTo(k.v, k.domain, s.done, x.pos)
      BY Zenon, <2>4, <2>5 DEF SettledTo
  <2>7. \A p \in s.done : p < end(x)
      BY Zenon, <2>4, <2>5
  <2>8. pc' # "commands" /\ pc' # "none"
      BY <2>1
  <2>. QED  BY Zenon, <2>6, <2>7, <2>8 DEF SettledInv, x, s, k
<1>8. CASE FillStep \/ GenerateStep
  <2>1. pc \in {"fill", "generate"} /\ pc' \in {"fill", "generate", "end"}
    <3>1. CASE FillArea \/ NoAreaLeft \/ FillInterrupted \/ AllChecked \/ GenerateInterrupted
        BY <3>1 DEF FillArea, NoAreaLeft, FillInterrupted, AllChecked, GenerateInterrupted, Leave,
           Interrupted
    <3>2. CASE FillBlock \/ FillFails
        BY <3>2 DEF FillBlock, FillFails, Continue, Leave
    <3>3. CASE CheckChunk
      <4>1. pc = "generate" /\ (pc' = "generate" \/ pc' = "end")
          BY Zenon, <3>3, CheckIs
      <4>. QED  BY <4>1
    <3>. QED  BY Zenon, <1>8, <3>1, <3>2, <3>3 DEF FillStep, GenerateStep
  <2>. QED  BY <2>1 DEF SettledInv
<1>9. CASE End \/ Kill \/ FinishCommand \/ QuitCommand
  <2>1. Exit
      BY Zenon, <1>9 DEF End, Finish, Kill, FinishCommand, QuitCommand
  <2>. QED  BY <1>2, <2>1
<1>. QED  BY Zenon, <1>1, <1>3, <1>4, <1>5, <1>6, <1>7, <1>8, <1>9
          DEF ModesNext, Work, OtherStarts, Command

LEMMA LinesAreBlocks == ASSUME NEW v, IsMapLines(v)  PROVE  v \in Seq(Blocks)
<1>1. CASE v = EmptyMap
  <2> DEFINE z == [pos |-> 0, size |-> 0, st |-> "non_tried"]
  <2>1. z \in Blocks
      BY DEF Blocks, Status, BM!Status
  <2> HIDE DEF z
  <2>2. v = <<z>>
      BY <1>1 DEF EmptyMap, z
  <2>. QED  BY <2>1, <2>2
<1>2. CASE v # EmptyMap
    BY <1>2 DEF IsMapLines
<1>. QED  BY <1>1, <1>2

\* The status of a position is that of a block that holds it.
LEMMA StatusHolds ==
  ASSUME NEW v \in Seq(Blocks), NEW p \in DOMAIN StatusOf(v)
  PROVE  Holds(BlocksOf(v), p, StatusOf(v)[p])
<1>0. ASSUME NEW k \in DOMAIN v  PROVE  v[k].pos \in Int /\ end(v[k]) \in Int
  <2>1. v[k] \in Blocks
      OBVIOUS
  <2>. QED  BY <2>1 DEF Blocks, end
<1>1. PICK j \in DOMAIN v : p \in Bytes(v[j])
    BY DEF StatusOf
<1>2. includes_pos(v[j], p) /\ p \in Int
    BY <1>0, <1>1 DEF Bytes, includes_pos
<1> DEFINE i == CHOOSE k \in DOMAIN v : includes_pos(v[k], p)
<1>3. i \in DOMAIN v /\ includes_pos(v[i], p)
    BY Zenon, <1>1, <1>2
<1>4. StatusOf(v)[p] = v[i].st
    BY Zenon DEF StatusOf
<1> HIDE DEF i
<1>5. p \in Bytes(v[i]) /\ v[i] \in BlocksOf(v)
    BY <1>0, <1>2, <1>3 DEF Bytes, includes_pos, BlocksOf
<1>. QED  BY Zenon, <1>4, <1>5 DEF Holds

\* What a run in command mode takes for finished is in the output file, and a copy
\* command that did not fail left nothing untried.
THEOREM CopiesAreComplete == ModesSpec => []CopyIsComplete
<1> DEFINE Inv == ModesInv /\ FillInv /\ KeptInv /\ SettledInv
<1>1. ModesInit => FillInv /\ KeptInv /\ SettledInv
  <2>1. SUFFICES ASSUME ModesInit  PROVE  FillInv /\ KeptInv /\ SettledInv
      OBVIOUS
  <2>2. /\ IsSeries(series) /\ ~series.pure /\ pc = "none" /\ job.mode = "none" /\ book = NoBook
        /\ outfile \in OutFiles
        /\ \A i \in DOMAIN mapfile.lines :
             mapfile.lines[i].st = "finished" =>
               \A p \in mapfile.lines[i].pos .. end(mapfile.lines[i]) - 1 :
                 p \in DOMAIN outfile /\ outfile[p] = Input[p]
      BY <2>1 DEF ModesInit, Init, IsSeries
  <2>3. FillInv
      BY Zenon, <2>2 DEF FillInv, SeriesOk, FillRun, FillSaved, FillEnded
  <2>4. SettledInv
      BY <2>2 DEF SettledInv
  <2>5. Kept(mapfile.lines, outfile, series.holes)
    <3>1. mapfile.lines \in Seq(Blocks)
        BY <2>1, InitIsKept, LinesAreBlocks DEF ModesInv, GoodMap
    <3>2. ASSUME NEW p, Holds(BlocksOf(mapfile.lines), p, "finished")
          PROVE  OnDisc(outfile, series.holes, p)
      <4>1. PICK i \in DOMAIN mapfile.lines :
              p \in Bytes(mapfile.lines[i]) /\ mapfile.lines[i].st = "finished"
          BY <3>1, <3>2 DEF Holds, BlocksOf
      <4>2. p \in DOMAIN outfile /\ outfile[p] = Input[p]
          BY Zenon, <2>2, <4>1 DEF Bytes
      <4>. QED  BY <4>2 DEF OnDisc
    <3>. QED  BY Zenon, <3>2 DEF Kept
  <2>6. Sparse => Clean(outfile)
      BY Zenon, <2>2, SparseAssumption DEF Sparse, Clean
  <2>7. job.mode # "generate" /\ job.mode # "commands"
      BY <2>2
  <2>8. KeptInv
      BY Zenon, <2>2, <2>5, <2>6, <2>7 DEF KeptInv
  <2>. QED  BY <2>3, <2>4, <2>8
<1>2. ModesInv /\ FillInv /\ [ModesNext]_allvars => FillInv'
    BY FillInvKept
<1>3. ModesInv /\ ModesInv' /\ FillInv /\ KeptInv /\ [ModesNext]_allvars => KeptInv'
    BY Zenon, KeptInvKept DEF FillInv
<1>4. ModesInv /\ ModesInv' /\ FillInv /\ SettledInv /\ [ModesNext]_allvars => SettledInv'
    BY Zenon, SettledInvKept DEF FillInv, SeriesOk
<1>5. ModesInv /\ KeptInv /\ SettledInv => CopyIsComplete
  <2> DEFINE st == StatusOf(book.v)
             kept(f) ==
               \A p \in DOMAIN f :
                 f[p] = "finished" =>
                   IF p \in DOMAIN outfile THEN outfile[p] \in {Input[p], "fill"}
                   ELSE series.holes /\ Input[p] = "zero"
  <2>1. SUFFICES ASSUME ModesInv, KeptInv, SettledInv, job.mode = "commands"
                 PROVE  /\ pc = "commands" =>
                             \A p \in series.done \cap DOMAIN st \cap InDomains(book.domain) :
                               st[p] \in {"finished", "bad_sector"}
                        /\ ~series.guess => kept(st) /\ kept(StatusOf(mapfile.lines))
      BY Zenon DEF CopyIsComplete
  <2>2. mapfile.lines \in Seq(Blocks)
      BY Zenon, <2>1, LinesAreBlocks DEF ModesInv, GoodMap
  <2>3. book.v \in Seq(Blocks)
    <3>1. CASE pc = "none"
      <4>1. book = NoBook
          BY Zenon, <2>1, <3>1 DEF SettledInv
      <4>2. NoBook.v = <<>>
          BY DEF NoBook
      <4>. QED  BY <4>1, <4>2
    <3>2. CASE pc # "none"
      <4>1. Loaded(book, "commands")
          BY Zenon, <2>1, <3>2 DEF ModesInv, RunOk
      <4>2. Memory(book.v)
          BY <4>1 DEF Loaded
      <4>. QED  BY Zenon, <4>2, LinesAreBlocks DEF Memory, IsVector, Consecutive, IsMapLines
    <3>. QED  BY <3>1, <3>2
  <2>4. ASSUME pc = "commands", NEW p \in series.done \cap DOMAIN st \cap InDomains(book.domain)
        PROVE  st[p] \in {"finished", "bad_sector"}
    <3>1. Holds(BlocksOf(book.v), p, st[p])
        BY Zenon, <2>3, <2>4, StatusHolds
    <3>2. AllSettled(book.v, book.domain, series.done)
        BY Zenon, <2>1, <2>4 DEF SettledInv
    <3>3. p \in series.done \cap InDomains(book.domain)
        BY Zenon, <2>4
    <3> HIDE DEF st
    <3>4. Settled(st[p])
        BY Zenon, <3>1, <3>2, <3>3 DEF AllSettled
    <3>. QED  BY Zenon, <3>4 DEF Settled
  <2>5. ASSUME NEW v \in Seq(Blocks), Kept(v, outfile, series.holes)
        PROVE  kept(StatusOf(v))
    <3>1. ASSUME NEW p \in DOMAIN StatusOf(v), StatusOf(v)[p] = "finished"
          PROVE  OnDisc(outfile, series.holes, p)
      <4>1. Holds(BlocksOf(v), p, "finished")
          BY Zenon, <3>1, StatusHolds
      <4>. QED  BY Zenon, <2>5, <4>1 DEF Kept
    <3>. QED  BY Zenon, <3>1 DEF OnDisc
  <2>6. Kept(<<>>, outfile, series.holes)
      BY DEF Kept, Holds, BlocksOf
  <2>7. ASSUME ~series.guess
        PROVE  Kept(mapfile.lines, outfile, series.holes) /\ Kept(book.v, outfile, series.holes)
    <3>1. pc = "none" => book.v = <<>>
        BY <2>1 DEF SettledInv, NoBook
    <3>. QED  BY Zenon, <2>1, <2>6, <2>7, <3>1 DEF KeptInv
  <2> HIDE DEF kept
  <2>8. ~series.guess => kept(st) /\ kept(StatusOf(mapfile.lines))
      BY Zenon, <2>2, <2>3, <2>5, <2>7
  <2>. QED  BY Zenon, <2>4, <2>8
<1>. QED  BY <1>1, <1>2, <1>3, <1>4, <1>5, ModesSafe, PTL DEF ModesSpec
=============================================================================
