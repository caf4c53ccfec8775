--------------------------- MODULE MapfileProofs ---------------------------
(***************************************************************************)
(* Theorems about the mapfile in memory (Mapfile), and that its vector of  *)
(* blocks implements the map of BlockMap.                                  *)
(***************************************************************************)
EXTENDS MapfileProps, LoadProofs

B == INSTANCE BlockMapProofs


\* The operations on a block keep within the largest position, whatever they
\* are given (BlocksSaturate), as long as the vector holds blocks that do.
LEMMA SaturateInRange ==
  (\A i \in DOMAIN sblock_vector : sblock_vector[i] \in Sblocks) => BlocksSaturate
<1> SUFFICES ASSUME \A i \in DOMAIN sblock_vector : sblock_vector[i] \in Sblocks,
                    NEW i \in DOMAIN sblock_vector,
                    NEW n \in -LLONG_MAX .. LLONG_MAX
             PROVE  LET b == sblock_vector[i]
                    IN  /\ InRange(shift(b, n)) /\ InRange(enlarge(b, n))
                        /\ InRange(set_end(b, n))
                        /\ InRange(set_pos(b, n)) /\ InRange(set_size(b, n))
                        /\ InRange(assign(n, b.size)) /\ InRange(assign(b.pos, n))
    BY DEF BlocksSaturate
<1> DEFINE b == sblock_vector[i]
<1>1. b \in Sblocks
    OBVIOUS
<1>2. LLONG_MAX \in Nat /\ n \in Int /\ n <= LLONG_MAX
    BY LimitAssumption
<1> HIDE DEF b
<1>3. b.pos \in Int /\ b.size \in Int /\ b.pos <= LLONG_MAX
    BY <1>1, <1>2 DEF Sblocks, InRange, end
<1>4. InRange(shift(b, n)) /\ InRange(enlarge(b, n)) /\ InRange(set_size(b, n))
    BY <1>1, <1>2, ShiftInRange, EnlargeInRange, SetSizeInRange
<1>5. InRange(set_end(b, n)) /\ InRange(set_pos(b, n))
    BY <1>1, <1>2, SetEndInRange, SetPosInRange
<1>6. InRange(assign(n, b.size)) /\ InRange(assign(b.pos, n))
    BY <1>2, <1>3, AssignInRange
<1>. QED  BY <1>4, <1>5, <1>6 DEF b


\* The cached index never leads the search astray (IndexFromAnyCache): for every
\* vector, every index left in the cache and every position, find_index returns
\* the block that holds the position.
LEMMA FoundFromAnyCache == TypeOK => IndexFromAnyCache
<1> SUFFICES ASSUME IsVector(sblock_vector),
                    NEW index \in -1 .. Len(sblock_vector) + 1, NEW p \in 0 .. LLONG_MAX
             PROVE  LET i == find_index(sblock_vector, index, p)
                    IN  IF i > 0 THEN i \in DOMAIN sblock_vector
                                      /\ includes_pos(sblock_vector[i], p)
                        ELSE \A j \in DOMAIN sblock_vector : ~includes_pos(sblock_vector[j], p)
    BY Zenon DEF IndexFromAnyCache, TypeOK
<1>1. index \in Int /\ p \in Nat
    BY VectorTypes, LimitAssumption
<1>2. DOMAIN sblock_vector = 1 .. Len(sblock_vector)
    BY VectorTypes
<1>. QED  BY <1>1, <1>2, FindIndex


\* What a step does to the vector: a chunk of one of its blocks gets a status, ...
ChunkStep ==
  \E i \in 1 .. Len(sblock_vector), t \in Status : \E b :
    /\ IsChunk(b) /\ b.size > 0 /\ includes(sblock_vector[i], b)
    /\ InDomain(domain, sblock_vector[i])
    /\ sblock_vector' = change_block(sblock_vector, i, b, t, domain).v


\* ... or one of its blocks, ...
MarkStep ==
  \E i \in 1 .. Len(sblock_vector), t \in Status :
    sblock_vector' = change_sblock_status(sblock_vector, i, t)


\* ... or it is cut off.
CutStep ==
  \E e \in Positions \ {0} :
    /\ truncate_vector(sblock_vector, e, FALSE).ok
    /\ sblock_vector' = truncate_vector(sblock_vector, e, FALSE).v


\* Changing the first part of a chunk that was found.
LEMMA SetStatusIs ==
  ASSUME IsVector(sblock_vector), NEW r, InItsBlock(sblock_vector, domain, r),
         NEW t \in Status, NEW len \in Nat \ {0}, SetStatus(r, t, len)
  PROVE  ChunkStep /\ index_' \in Nat /\ domain' = domain
<1> DEFINE v == sblock_vector
           n == min(len, r.b.size)
           b == [r.b EXCEPT !.size = n]
           i == r.index
<1>1. r.found /\ r.b.size > 0 /\ domain' = domain
      /\ v' = change_chunk_status(v, i, b, t, domain).v
      /\ index_' = change_chunk_status(v, i, b, t, domain).index
    BY DEF SetStatus
<1>2. i \in 1 .. Len(v) /\ IsChunk(r.b) /\ includes(v[i], r.b) /\ InDomain(domain, v[i])
    BY <1>1 DEF InItsBlock
<1>3. n \in Nat /\ n > 0 /\ n <= r.b.size /\ r.b.pos \in Nat /\ r.b.size \in Nat
  <2>1. r.b.pos \in Nat /\ r.b.size \in Nat
      BY <1>2 DEF IsChunk
  <2>. QED  BY <1>1, <2>1 DEF min, BM!Smaller
<1> HIDE DEF n
<1>4. b.pos = r.b.pos /\ b.size = n /\ IsChunk(b)
    BY <1>2, <1>3 DEF IsChunk
<1> HIDE DEF b, i
<1>5. /\ v[i].pos \in Nat /\ end(v[i]) \in Nat /\ v[i].pos <= b.pos
      /\ b.pos + n <= end(v[i])
    BY <1>2, <1>3, <1>4, BlockTypes DEF includes, end
<1>6. includes(v[i], b) /\ includes_pos(v[i], b.pos)
    BY <1>3, <1>4, <1>5 DEF includes, includes_pos, end
<1>7. find_index(v, i, b.pos) = i
  <2>1. i \in Int /\ b.pos \in Int
      BY <1>2, <1>3, <1>4, VectorTypes
  <2>. QED  BY <1>2, <1>6, <2>1, FindIndex
<1>8. change_chunk_status(v, i, b, t, domain) = change_block(v, i, b, t, domain)
  <2>1. ~(b.size <= 0)
      BY <1>3, <1>4
  <2>. QED  BY Zenon, <1>7, <2>1 DEF change_chunk_status
<1>9. change_block(v, i, b, t, domain).index \in Nat
    BY <1>2, <1>3, <1>4, <1>6, ChangeBlockIsVector
<1>10. sblock_vector' = change_block(v, i, b, t, domain).v
    BY Zenon, <1>1, <1>8
<1>11. ChunkStep
  <2>1. b.size > 0
      BY <1>3, <1>4
  <2>2. /\ i \in 1 .. Len(sblock_vector) /\ t \in Status
        /\ IsChunk(b) /\ b.size > 0 /\ includes(sblock_vector[i], b)
        /\ InDomain(domain, sblock_vector[i])
        /\ sblock_vector' = change_block(sblock_vector, i, b, t, domain).v
      BY Zenon, <1>2, <1>4, <1>6, <1>10, <2>1
  <2>. QED  BY Zenon, <2>2 DEF ChunkStep
<1>. QED  BY <1>1, <1>8, <1>9, <1>11


\* What happens to the map between its being loaded and its being loaded again.
ChangeInRun == CopyForwards \/ CopyBackwards \/ LeaveBlock \/ EofFound


\* The positions of a vector are in the range of long long.
LEMMA PositionTypes ==
  ASSUME IsVector(sblock_vector)
  PROVE  /\ Positions = 0 .. end(sblock_vector[Len(sblock_vector)]) - 1
         /\ \A p \in Positions : p \in Nat /\ p + 1 \in Nat /\ p + 1 <= LLONG_MAX /\ p <= LLONG_MAX
<1> DEFINE v == sblock_vector
<1>1. Len(v) \in 1 .. Len(v) /\ 1 \in 1 .. Len(v) /\ v # <<>> /\ Last(v) = v[Len(v)]
      /\ Head(v).pos = 0
    BY VectorTypes DEF Last, IsVector
<1>2. end(v[Len(v)]) \in Nat /\ end(v[Len(v)]) <= LLONG_MAX
    BY <1>1, BlockTypes
<1>3. extent(v) = [pos |-> 0, size |-> end(v[Len(v)]) - 0]
    BY <1>1 DEF extent
<1>4. end(extent(v)) = end(v[Len(v)])
    BY <1>2, <1>3 DEF end
<1>. QED  BY <1>2, <1>4, LimitAssumption DEF Positions


\* Each step between two loads is one of the three, and keeps the domain.
LEMMA StepIs ==
  ASSUME TypeOK, ChangeInRun
  PROVE  /\ ChunkStep \/ MarkStep \/ CutStep
         /\ index_' \in Nat /\ domain' = domain
<1> USE SizesAssumption
<1>1. IsVector(sblock_vector) /\ index_ \in Nat
    BY DEF TypeOK
<1>2. \A p \in Positions : p \in Nat /\ p + 1 \in Nat /\ p + 1 <= LLONG_MAX /\ p <= LLONG_MAX
    BY <1>1, PositionTypes
<1>3. CASE CopyForwards
  <2>1. PICK p \in Positions, s \in Status, len \in 1 .. ChunkSize, t \in Marks :
          SetStatus(FoundFrom(p, s), t, len)
      BY <1>3 DEF CopyForwards
  <2>2. IsChunk(assign(p, ChunkSize)) /\ index_ \in Int /\ HardBS \in Nat \ {0}
      BY <1>1, <1>2, MadeChunks
  <2>3. InItsBlock(sblock_vector, domain, FoundFrom(p, s))
      BY Zenon, <1>1, <2>2, FoundInItsBlock DEF FoundFrom
  <2>4. t \in Status /\ len \in Nat \ {0}
      OBVIOUS
  <2>. QED  BY <1>1, <2>1, <2>3, <2>4, SetStatusIs
<1>4. CASE CopyBackwards
  <2>1. PICK p \in Positions, s \in Status, len \in 1 .. ChunkSize, t \in Marks :
          SetStatus(FoundUpTo(p + 1, s), t, len)
      BY <1>4 DEF CopyBackwards
  <2>2. IsChunk(set_end(assign(0, ChunkSize), p + 1)) /\ index_ \in Int
        /\ HardBS \in Nat \ {0}
      BY <1>1, <1>2, MadeChunks
  <2>3. InItsBlock(sblock_vector, domain, FoundUpTo(p + 1, s))
      BY Zenon, <1>1, <2>2, FoundInItsBlockBackwards DEF FoundUpTo
  <2>4. t \in Status /\ len \in Nat \ {0}
      OBVIOUS
  <2>. QED  BY <1>1, <2>1, <2>3, <2>4, SetStatusIs
<1>5. CASE LeaveBlock
  <2>1. PICK i \in DOMAIN sblock_vector, t \in Marks :
          sblock_vector' = change_sblock_status(sblock_vector, i, t)
          /\ UNCHANGED <<index_, domain>>
      BY <1>5 DEF LeaveBlock
  <2>2. i \in 1 .. Len(sblock_vector) /\ t \in Status
      BY <1>1, <2>1, VectorTypes
  <2>. QED  BY <1>1, <2>1, <2>2 DEF MarkStep
<1>6. CASE EofFound
  <2>1. PICK e \in Positions \ {0} :
          /\ truncate_vector(sblock_vector, e, FALSE).ok
          /\ sblock_vector' = truncate_vector(sblock_vector, e, FALSE).v
          /\ UNCHANGED <<index_, domain>>
      BY <1>6 DEF EofFound
  <2>. QED  BY <1>1, <2>1 DEF CutStep
<1>. QED  BY <1>3, <1>4, <1>5, <1>6 DEF ChangeInRun


\* Each of them keeps the map a vector.
LEMMA ChangeKeepsVector ==
  ASSUME TypeOK, ChangeInRun  PROVE  TypeOK'
<1>1. IsVector(sblock_vector)
    BY DEF TypeOK
<1>2. (ChunkStep \/ MarkStep \/ CutStep) /\ index_' \in Nat /\ domain' = domain
    BY StepIs
<1>3. CASE ChunkStep
  <2>0. PICK i \in 1 .. Len(sblock_vector), t \in Status : \E b :
          /\ IsChunk(b) /\ b.size > 0 /\ includes(sblock_vector[i], b)
          /\ sblock_vector' = change_block(sblock_vector, i, b, t, domain).v
      BY <1>3 DEF ChunkStep
  <2>1. PICK b :
          /\ IsChunk(b) /\ b.size > 0 /\ includes(sblock_vector[i], b)
          /\ sblock_vector' = change_block(sblock_vector, i, b, t, domain).v
      BY <2>0
  <2>2. b.pos \in Nat /\ b.size \in Nat
      BY <2>1 DEF IsChunk
  <2>3. IsVector(change_block(sblock_vector, i, b, t, domain).v)
      BY <1>1, <2>1, <2>2, ChangeBlockIsVector
  <2>. QED  BY <1>2, <2>1, <2>3 DEF TypeOK
<1>4. CASE MarkStep
  <2>1. PICK i \in 1 .. Len(sblock_vector), t \in Status :
          sblock_vector' = change_sblock_status(sblock_vector, i, t)
      BY <1>4 DEF MarkStep
  <2>. QED  BY <1>1, <1>2, <2>1, LeaveIsVector DEF TypeOK
<1>5. CASE CutStep
  <2>1. PICK e \in Positions \ {0} :
          /\ truncate_vector(sblock_vector, e, FALSE).ok
          /\ sblock_vector' = truncate_vector(sblock_vector, e, FALSE).v
      BY <1>5 DEF CutStep
  <2>2. e \in Nat \ {0}
      BY <1>1, PositionTypes
  <2>. QED  BY <1>1, <1>2, <2>1, <2>2, TruncatedIsVector DEF TypeOK
<1>. QED  BY <1>2, <1>3, <1>4, <1>5

\* The map of a vector, in terms of its blocks.
LEMMA AbsIs ==
  ASSUME NEW v, IsVector(v)
  PROVE  /\ Abs(v) = [end |-> Abs(v).end, cuts |-> Abs(v).cuts, st |-> Abs(v).st]
         /\ Abs(v).end = end(v[Len(v)]) /\ Abs(v).end \in Nat
         /\ Abs(v).cuts = {v[i].pos : i \in 1 .. Len(v)}
         /\ DOMAIN Abs(v).st = 0 .. Abs(v).end - 1
         /\ Abs(v).st = [p \in 0 .. Abs(v).end - 1 |-> Abs(v).st[p]]
         /\ \A i \in 1 .. Len(v), p \in Nat :
              includes_pos(v[i], p) => p < Abs(v).end /\ Abs(v).st[p] = v[i].st
         /\ \A p \in 0 .. Abs(v).end - 1 : \E i \in 1 .. Len(v) : includes_pos(v[i], p)
<1> DEFINE n == Len(v)
           at(p) == v[CHOOSE i \in DOMAIN v : includes_pos(v[i], p)].st
<1>1. n \in Nat /\ n \in 1 .. n /\ DOMAIN v = 1 .. n
    BY VectorTypes
<1>2. end(extent(v)) = end(v[n]) /\ end(v[n]) \in Nat
  <2>1. v # <<>> /\ Head(v) = v[1] /\ Last(v) = v[n] /\ v[1].pos = 0
      BY DEF IsVector, Last
  <2>2. end(v[n]) \in Nat
      BY <1>1, BlockTypes
  <2> DEFINE e == end(v[n])
  <2>3. extent(v) = [pos |-> 0, size |-> e - 0]
      BY Zenon, <2>1 DEF extent
  <2> HIDE DEF e
  <2>4. end(extent(v)) = e
      BY <2>2, <2>3 DEF end, e
  <2>. QED  BY <2>2, <2>4 DEF e
<1>3. Abs(v) = [end |-> end(v[n]), cuts |-> {v[i].pos : i \in 1 .. n},
                st |-> [p \in 0 .. end(v[n]) - 1 |-> at(p)]]
    BY Zenon, <1>1, <1>2 DEF Abs
<1> HIDE DEF at
<1>4. /\ Abs(v).end = end(v[n]) /\ Abs(v).cuts = {v[i].pos : i \in 1 .. n}
      /\ Abs(v).st = [p \in 0 .. end(v[n]) - 1 |-> at(p)]
    BY <1>3
<1>5. ASSUME NEW i \in 1 .. n, NEW p \in Nat, includes_pos(v[i], p)
      PROVE  p < end(v[n]) /\ at(p) = v[i].st
  <2>1. (CHOOSE j \in DOMAIN v : includes_pos(v[j], p)) = i
    <3>1. \A j \in DOMAIN v : includes_pos(v[j], p) => j = i
        BY <1>1, <1>5, OneBlockHolds
    <3>. QED  BY <1>1, <1>5, <3>1
  <2>2. at(p) = v[i].st
      BY <2>1 DEF at
  <2>3. v[n].pos \in Nat /\ v[n].pos < end(v[n]) /\ v[i].pos \in Nat /\ end(v[i]) \in Nat
      BY <1>1, BlockTypes
  <2>4. i = n \/ end(v[i]) <= v[n].pos
    <3>1. i \in Int /\ n \in Int /\ i <= n
        BY <1>1, <1>5
    <3>2. CASE i < n
        BY <1>1, <1>5, <3>2, BlocksInOrder
    <3>. QED  BY <3>1, <3>2
  <2>5. p < end(v[n])
      BY <1>2, <1>5, <2>3, <2>4 DEF includes_pos
  <2>. QED  BY <2>2, <2>5
<1>6. ASSUME NEW i \in 1 .. n, NEW p \in Nat, includes_pos(v[i], p)
      PROVE  p < Abs(v).end /\ Abs(v).st[p] = v[i].st
  <2>1. p \in 0 .. end(v[n]) - 1 /\ at(p) = v[i].st /\ p < end(v[n])
      BY <1>2, <1>5, <1>6
  <2>. QED  BY <1>4, <2>1
<1>7. ASSUME NEW p \in 0 .. Abs(v).end - 1
      PROVE  \E i \in 1 .. n : includes_pos(v[i], p)
  <2>1. p \in Nat /\ p < end(v[n])
      BY <1>2, <1>4
  <2>2. Chain(v) /\ v[1].pos <= p
    <3>1. Chain(v) /\ v[1].pos = 0
        BY VectorIsChain
    <3>. QED  BY <2>1, <3>1
  <2>. QED  BY <2>1, <2>2, SomeBlockHolds
<1>8. DOMAIN Abs(v).st = 0 .. Abs(v).end - 1
      /\ Abs(v).st = [p \in 0 .. Abs(v).end - 1 |-> Abs(v).st[p]]
    BY <1>4
<1>9. Abs(v) = [end |-> Abs(v).end, cuts |-> Abs(v).cuts, st |-> Abs(v).st]
    BY <1>3
<1>. QED  BY <1>2, <1>4, <1>6, <1>7, <1>8, <1>9


LEMMA AbsStatus ==
  ASSUME NEW v, IsVector(v), NEW i \in 1 .. Len(v), NEW p \in Nat, includes_pos(v[i], p)
  PROVE  Abs(v).st[p] = v[i].st
BY AbsIs


\* Where a cut lies: at the first position of the block that holds it.
LEMMA CutIsFirst ==
  ASSUME NEW v, IsVector(v), NEW i \in 1 .. Len(v), NEW c \in Abs(v).cuts, includes_pos(v[i], c)
  PROVE  c = v[i].pos
<1>1. PICK j \in 1 .. Len(v) : c = v[j].pos
  <2>1. Abs(v).cuts = {v[j].pos : j \in 1 .. Len(v)}
      BY AbsIs
  <2>. QED  BY <2>1
<1>2. c \in Nat /\ includes_pos(v[j], c)
    BY <1>1, BlockTypes DEF includes_pos
<1>. QED  BY <1>1, <1>2, OneBlockHolds


\* The blocks of the map are those of the vector.
LEMMA BlockAbs ==
  ASSUME NEW v, IsVector(v), NEW i \in 1 .. Len(v), NEW p \in Nat, includes_pos(v[i], p)
  PROVE  BM!Block(Abs(v), p) = Bytes(v[i])
<1> DEFINE m == Abs(v)
<1>1. /\ m.end \in Nat /\ m.cuts = {v[j].pos : j \in 1 .. Len(v)} /\ m.end = end(v[Len(v)])
      /\ v[i].pos \in Nat /\ end(v[i]) \in Nat /\ v[i].pos <= p /\ p < end(v[i]) /\ p < m.end
      /\ Len(v) \in Nat
    BY AbsIs, BlockTypes, VectorTypes DEF includes_pos
<1>2. ASSUME NEW q \in Bytes(v[i])  PROVE  q \in BM!Block(m, p)
  <2>1. q \in Nat /\ v[i].pos <= q /\ q < end(v[i])
      BY <1>1 DEF Bytes
  <2>2. q < m.end
      BY <2>1, AbsIs DEF includes_pos
  <2>3. ASSUME NEW c \in m.cuts  PROVE  c <= p <=> c <= q
    <3>1. PICK j \in 1 .. Len(v) : c = v[j].pos
        BY <1>1
    <3>2. v[j].pos \in Nat /\ v[j].pos < end(v[j]) /\ end(v[j]) \in Nat
        BY BlockTypes
    <3>3. CASE j = i
        BY <1>1, <2>1, <3>1, <3>3
    <3>4. CASE j < i
      <4>1. end(v[j]) <= v[i].pos
          BY <3>4, BlocksInOrder
      <4>. QED  BY <1>1, <2>1, <3>1, <3>2, <4>1
    <3>5. CASE j > i
      <4>1. end(v[i]) <= v[j].pos
          BY <3>5, BlocksInOrder
      <4>. QED  BY <1>1, <2>1, <3>1, <3>2, <4>1
    <3>. QED  BY <3>3, <3>4, <3>5
  <2>4. q \in 0 .. m.end - 1
      BY <1>1, <2>1, <2>2
  <2> HIDE DEF m
  <2>. QED  BY <2>3, <2>4 DEF BM!Block, BM!Positions, BM!SameBlock
<1>3. ASSUME NEW q \in BM!Block(m, p)  PROVE  q \in Bytes(v[i])
  <2>1. q \in 0 .. m.end - 1 /\ \A c \in m.cuts : c <= p <=> c <= q
    <3> HIDE DEF m
    <3>. QED  BY DEF BM!Block, BM!Positions, BM!SameBlock
  <2>2. q \in Nat /\ q < m.end
      BY <1>1, <2>1
  <2>3. v[i].pos \in m.cuts
      BY <1>1
  <2>4. v[i].pos <= q
      BY <1>1, <2>1, <2>3
  <2>5. q < end(v[i])
    <3>1. CASE i = Len(v)
        BY <1>1, <2>2, <3>1
    <3>2. CASE i # Len(v)
      <4>1. i < Len(v)
          BY <1>1, <3>2
      <4>2. i + 1 \in 1 .. Len(v) /\ v[i + 1].pos = end(v[i])
          BY <4>1, VectorBlocks
      <4>3. end(v[i]) \in m.cuts
          BY <1>1, <4>2
      <4>4. ~(end(v[i]) <= p)
          BY <1>1
      <4>. QED  BY <1>1, <2>1, <2>2, <4>3, <4>4
    <3>. QED  BY <3>1, <3>2
  <2>. QED  BY <1>1, <2>2, <2>4, <2>5 DEF Bytes
<1>. QED  BY <1>2, <1>3


\* A block of the map is in the domain when the search says so of the vector's.
LEMMA InDomainAbs ==
  ASSUME NEW v, IsVector(v), NEW d, IsDomain(d), NEW i \in 1 .. Len(v), NEW p \in Nat,
         includes_pos(v[i], p)
  PROVE  BM!InDomain(Abs(v), p, InDomains(d)) <=> InDomain(d, v[i])
<1>1. v[i].pos \in Nat /\ v[i].size \in Nat /\ v[i].size > 0
  <2>1. v[i].pos < end(v[i]) /\ end(v[i]) = v[i].pos + v[i].size /\ v[i].pos \in Nat
        /\ v[i].size \in Nat
      BY BlockTypes
  <2>. QED  BY <2>1
<1>2. InDomain(d, v[i]) <=> Bytes(v[i]) \subseteq InDomains(d)
    BY <1>1, DomainSearchIsExact
<1>3. BM!Block(Abs(v), p) = Bytes(v[i])
    BY BlockAbs
<1>. QED  BY Zenon, <1>2, <1>3 DEF BM!InDomain


\* It is a map whose blocks have one status each.
LEMMA AbsIsMap ==
  ASSUME NEW v, IsVector(v)
  PROVE  BM!IsMap(Abs(v)) /\ BM!Uniform(Abs(v))
<1> DEFINE m == Abs(v)
<1>1. m = [end |-> m.end, cuts |-> m.cuts, st |-> m.st] /\ m.end \in Nat /\ m.end = end(v[Len(v)])
      /\ m.cuts = {v[i].pos : i \in 1 .. Len(v)}
      /\ m.st = [p \in 0 .. m.end - 1 |-> m.st[p]]
    BY AbsIs
<1>2. ASSUME NEW p \in 0 .. m.end - 1
      PROVE  \E i \in 1 .. Len(v) : /\ includes_pos(v[i], p) /\ m.st[p] = v[i].st
                                    /\ v[i].st \in Status
    BY <1>1, AbsIs, BlockTypes
<1>3. ASSUME NEW c \in m.cuts  PROVE  c \in 0 .. m.end - 1
  <2>1. PICK i \in 1 .. Len(v) : c = v[i].pos
      BY <1>1
  <2>2. c \in Nat /\ includes_pos(v[i], c)
      BY <2>1, BlockTypes DEF includes_pos
  <2>3. c < m.end
      BY <2>2, AbsIs
  <2>. QED  BY <1>1, <2>2, <2>3
<1>4. 0 \in m.cuts
  <2>1. 1 \in 1 .. Len(v) /\ v[1].pos = 0
      BY VectorTypes DEF IsVector
  <2>. QED  BY <1>1, <2>1
<1>5. m.st \in [0 .. m.end - 1 -> Status]
  <2>1. \A p \in 0 .. m.end - 1 : m.st[p] \in Status
      BY <1>2
  <2> HIDE DEF m
  <2>. QED  BY <1>1, <2>1
<1>6. BM!IsMap(m)
  <2> HIDE DEF m
  <2>. QED  BY <1>1, <1>3, <1>4, <1>5 DEF BM!IsMap, BM!Positions, Status
<1>7. BM!Uniform(m)
  <2>1. SUFFICES ASSUME NEW p \in 0 .. m.end - 1, NEW q \in 0 .. m.end - 1, BM!SameBlock(m, p, q)
                 PROVE  m.st[p] = m.st[q]
      BY Zenon DEF BM!Uniform, BM!Positions
  <2>2. PICK i \in 1 .. Len(v) : includes_pos(v[i], p) /\ m.st[p] = v[i].st
      BY <1>2
  <2>3. p \in Nat /\ q \in Nat
      BY <1>1
  <2>4. q \in BM!Block(m, p)
      BY Zenon, <2>1 DEF BM!Block, BM!Positions
  <2>5. q \in Bytes(v[i])
      BY <2>2, <2>3, <2>4, BlockAbs
  <2>6. includes_pos(v[i], q)
      BY <2>3, <2>5, BlockTypes DEF Bytes, includes_pos
  <2>. QED  BY <2>2, <2>3, <2>6, AbsIs
<1>. QED  BY <1>6, <1>7


-----------------------------------------------------------------------------
(***************************************************************************)
(* Changing a chunk.                                                       *)
(***************************************************************************)

\* The numbers of a chunk inside a block of a vector.
LEMMA ChunkTypes ==
  ASSUME NEW v, IsVector(v), NEW i \in 1 .. Len(v), NEW b, IsChunk(b), b.size > 0,
         includes(v[i], b)
  PROVE  /\ b.pos \in Nat /\ b.size \in Nat /\ end(b) \in Nat /\ b.pos < end(b)
         /\ v[i].pos \in Nat /\ end(v[i]) \in Nat /\ v[i].pos <= b.pos /\ end(b) <= end(v[i])
         /\ Len(v) \in Nat /\ Abs(v).end \in Nat /\ end(v[i]) <= Abs(v).end
         /\ i < Len(v) => end(v[i]) < Abs(v).end
         /\ i = Len(v) => end(v[i]) = Abs(v).end
         /\ includes_pos(v[i], b.pos) /\ includes_pos(v[i], end(b) - 1)
         /\ AsChunk(b).pos = b.pos /\ AsChunk(b).end = end(b)
<1>1. b.pos \in Nat /\ b.size \in Nat /\ end(b) \in Nat /\ b.pos < end(b)
    BY DEF IsChunk, end
<1>2. /\ v[i].pos \in Nat /\ end(v[i]) \in Nat /\ v[i].pos <= b.pos /\ end(b) <= end(v[i])
      /\ Len(v) \in Nat /\ Abs(v).end \in Nat /\ v[i].pos < end(v[i])
    BY VectorTypes, BlockTypes, AbsIs DEF includes
<1>3. includes_pos(v[i], b.pos) /\ includes_pos(v[i], end(b) - 1)
    BY <1>1, <1>2 DEF includes_pos
<1>4. i = Len(v) => end(v[i]) = Abs(v).end
    BY AbsIs
<1>5. ASSUME i < Len(v)  PROVE  end(v[i]) < Abs(v).end
  <2>1. i + 1 \in 1 .. Len(v) /\ v[i + 1].pos = end(v[i])
      BY <1>5, VectorBlocks
  <2>2. includes_pos(v[i + 1], end(v[i]))
      BY <2>1, BlockTypes DEF includes_pos
  <2>. QED  BY <1>2, <2>1, <2>2, AbsIs
<1>6. end(v[i]) <= Abs(v).end
    BY <1>2, <1>4, <1>5
<1>7. AsChunk(b).pos = b.pos /\ AsChunk(b).end = end(b)
    BY DEF AsChunk
<1>. QED  BY <1>1, <1>2, <1>3, <1>4, <1>5, <1>6, <1>7


\* A chunk begins or ends at a cut where it begins or ends its block.
LEMMA CutsOfChunk ==
  ASSUME NEW v, IsVector(v), NEW i \in 1 .. Len(v), NEW b, IsChunk(b), b.size > 0,
         includes(v[i], b)
  PROVE  /\ b.pos \in Abs(v).cuts <=> b.pos = v[i].pos
         /\ end(b) \in Abs(v).cuts <=> end(b) = end(v[i]) /\ i < Len(v)
<1>1. Abs(v).cuts = {v[j].pos : j \in 1 .. Len(v)}
    BY AbsIs
<1>2. b.pos \in Abs(v).cuts <=> b.pos = v[i].pos
  <2>1. b.pos \in Abs(v).cuts => b.pos = v[i].pos
      BY ChunkTypes, CutIsFirst
  <2>. QED  BY <1>1, <2>1
<1>3. ASSUME end(b) \in Abs(v).cuts  PROVE  end(b) = end(v[i])
  <2>1. SUFFICES ASSUME end(b) # end(v[i]) PROVE FALSE
      OBVIOUS
  <2>2. includes_pos(v[i], end(b))
      BY <2>1, ChunkTypes DEF includes_pos
  <2>3. end(b) = v[i].pos
      BY <1>3, <2>2, CutIsFirst
  <2>. QED  BY <2>3, ChunkTypes
<1>4. ASSUME end(b) \in Abs(v).cuts  PROVE  i < Len(v)
  <2>1. end(b) < Abs(v).end
    <3>1. PICK j \in 1 .. Len(v) : end(b) = v[j].pos
        BY <1>1, <1>4
    <3>2. end(b) \in Nat /\ includes_pos(v[j], end(b))
        BY <3>1, BlockTypes DEF includes_pos
    <3>. QED  BY <3>2, AbsIs
  <2>2. i # Len(v) /\ Len(v) \in Nat
      BY <1>3, <1>4, <2>1, ChunkTypes
  <2>. QED  BY <2>2
<1>5. ASSUME end(b) = end(v[i]), i < Len(v)  PROVE  end(b) \in Abs(v).cuts
  <2>1. i + 1 \in 1 .. Len(v) /\ v[i + 1].pos = end(v[i])
      BY <1>5, VectorBlocks
  <2>. QED  BY <1>1, <1>5, <2>1
<1>. QED  BY <1>2, <1>3, <1>4, <1>5


\* Where a chunk begins its block, the position before it is in the block before;
\* where it ends its block, the one behind it is in the next block.
LEMMA BesideChunk ==
  ASSUME NEW v, IsVector(v), NEW i \in 1 .. Len(v), NEW b, IsChunk(b), b.size > 0,
         includes(v[i], b)
  PROVE  /\ b.pos = v[i].pos => (b.pos > 0 <=> i > 1)
         /\ b.pos = v[i].pos /\ i > 1 =>
              /\ i - 1 \in 1 .. Len(v) /\ b.pos - 1 \in Nat
              /\ includes_pos(v[i - 1], b.pos - 1)
         /\ b.pos # v[i].pos =>
              b.pos > 0 /\ b.pos - 1 \in Nat /\ includes_pos(v[i], b.pos - 1)
         /\ end(b) = end(v[i]) /\ i < Len(v) =>
              i + 1 \in 1 .. Len(v) /\ includes_pos(v[i + 1], end(b))
         /\ end(b) # end(v[i]) => includes_pos(v[i], end(b))
<1>1. /\ b.pos \in Nat /\ end(b) \in Nat /\ b.pos < end(b) /\ v[i].pos \in Nat
      /\ end(v[i]) \in Nat /\ v[i].pos <= b.pos /\ end(b) <= end(v[i]) /\ Len(v) \in Nat
    BY ChunkTypes
<1>2. ASSUME b.pos = v[i].pos, i > 1
      PROVE  /\ i - 1 \in 1 .. Len(v) /\ b.pos - 1 \in Nat /\ b.pos > 0
             /\ includes_pos(v[i - 1], b.pos - 1)
  <2>1. i - 1 \in 1 .. Len(v) /\ v[i].pos = end(v[i - 1])
      BY <1>2, VectorBlocks
  <2>2. v[i - 1].pos \in Nat /\ v[i - 1].pos < end(v[i - 1])
      BY <2>1, BlockTypes
  <2>. QED  BY <1>1, <1>2, <2>1, <2>2 DEF includes_pos
<1>3. i = 1 => v[i].pos = 0
    BY BlockTypes
<1>4. b.pos = v[i].pos => (b.pos > 0 <=> i > 1)
    BY <1>1, <1>2, <1>3
<1>5. b.pos # v[i].pos => b.pos > 0 /\ b.pos - 1 \in Nat /\ includes_pos(v[i], b.pos - 1)
    BY <1>1 DEF includes_pos
<1>6. ASSUME end(b) = end(v[i]), i < Len(v)
      PROVE  i + 1 \in 1 .. Len(v) /\ includes_pos(v[i + 1], end(b))
  <2>1. i + 1 \in 1 .. Len(v) /\ v[i + 1].pos = end(v[i])
      BY <1>6, VectorBlocks
  <2>. QED  BY <1>6, <2>1, BlockTypes DEF includes_pos
<1>7. end(b) # end(v[i]) => includes_pos(v[i], end(b))
    BY <1>1 DEF includes_pos
<1>. QED  BY <1>2, <1>4, <1>5, <1>6, <1>7


\* The neighbours that a chunk joins are the same in the vector and in the map.
LEMMA JoinsAbs ==
  ASSUME NEW v, IsVector(v), NEW d, IsDomain(d), NEW i \in 1 .. Len(v), NEW b, IsChunk(b),
         b.size > 0, includes(v[i], b), NEW s
  PROVE  /\ BM!JoinsLeft(Abs(v), InDomains(d), AsChunk(b), s) <=> JoinsBefore(v, i, b, s, d)
         /\ BM!JoinsRight(Abs(v), InDomains(d), AsChunk(b), s) <=> JoinsAfter(v, i, b, s, d)
<1> DEFINE m == Abs(v)
           dom == InDomains(d)
<1>1. AsChunk(b).pos = b.pos /\ AsChunk(b).end = end(b) /\ end(b) \in Nat
    BY ChunkTypes
<1>2. BM!JoinsLeft(m, dom, AsChunk(b), s) <=>
        b.pos \in m.cuts /\ b.pos > 0 /\ m.st[b.pos - 1] = s /\ BM!InDomain(m, b.pos - 1, dom)
    BY Zenon, <1>1 DEF BM!JoinsLeft, BM!Joins
<1>3. BM!JoinsRight(m, dom, AsChunk(b), s) <=>
        end(b) \in m.cuts /\ m.st[end(b)] = s /\ BM!InDomain(m, end(b), dom)
    BY Zenon, <1>1 DEF BM!JoinsRight, BM!Joins
<1>4. ASSUME b.pos = v[i].pos /\ i > 1
      PROVE  BM!JoinsLeft(m, dom, AsChunk(b), s) <=> JoinsBefore(v, i, b, s, d)
  <2>1. /\ i - 1 \in 1 .. Len(v) /\ b.pos - 1 \in Nat /\ b.pos > 0
        /\ includes_pos(v[i - 1], b.pos - 1) /\ b.pos \in m.cuts
      BY <1>4, BesideChunk, CutsOfChunk
  <2>2. m.st[b.pos - 1] = v[i - 1].st
      BY <2>1, AbsIs
  <2>3. BM!InDomain(m, b.pos - 1, dom) <=> InDomain(d, v[i - 1])
      BY <2>1, InDomainAbs
  <2>. QED  BY Zenon, <1>2, <1>4, <2>1, <2>2, <2>3 DEF JoinsBefore
<1>5. ASSUME ~(b.pos = v[i].pos /\ i > 1)
      PROVE  BM!JoinsLeft(m, dom, AsChunk(b), s) <=> JoinsBefore(v, i, b, s, d)
  <2>1. ~(b.pos \in m.cuts /\ b.pos > 0)
      BY <1>5, BesideChunk, CutsOfChunk
  <2>. QED  BY Zenon, <1>2, <1>5, <2>1 DEF JoinsBefore
<1>6. ASSUME end(b) = end(v[i]) /\ i < Len(v)
      PROVE  BM!JoinsRight(m, dom, AsChunk(b), s) <=> JoinsAfter(v, i, b, s, d)
  <2>1. i + 1 \in 1 .. Len(v) /\ includes_pos(v[i + 1], end(b)) /\ end(b) \in m.cuts
      BY <1>6, BesideChunk, CutsOfChunk
  <2>2. m.st[end(b)] = v[i + 1].st
      BY <1>1, <2>1, AbsIs
  <2>3. BM!InDomain(m, end(b), dom) <=> InDomain(d, v[i + 1])
      BY <1>1, <2>1, InDomainAbs
  <2>. QED  BY Zenon, <1>3, <1>6, <2>1, <2>2, <2>3 DEF JoinsAfter
<1>7. ASSUME ~(end(b) = end(v[i]) /\ i < Len(v))
      PROVE  BM!JoinsRight(m, dom, AsChunk(b), s) <=> JoinsAfter(v, i, b, s, d)
  <2>1. end(b) \notin m.cuts
      BY <1>7, CutsOfChunk
  <2>. QED  BY Zenon, <1>3, <1>7, <2>1 DEF JoinsAfter
<1>. QED  BY Zenon, <1>4, <1>5, <1>6, <1>7


\* The map of a vector depends on the set of its blocks.
LEMMA AbsByBlocks ==
  ASSUME NEW v, IsVector(v)
  PROVE  /\ Abs(v).cuts = {x.pos : x \in BlocksOf(v)}
         /\ \A x \in BlocksOf(v) : /\ GoodBlock(x) /\ end(x) <= Abs(v).end /\ end(x) \in Nat
                                   /\ x.pos \in Nat /\ x.pos < end(x)
         /\ \E x \in BlocksOf(v) : end(x) = Abs(v).end
         /\ \A x \in BlocksOf(v), p \in Nat : includes_pos(x, p) => Abs(v).st[p] = x.st
         /\ \A p \in 0 .. Abs(v).end - 1 : \E x \in BlocksOf(v) : includes_pos(x, p)
<1>1. Len(v) \in 1 .. Len(v) /\ Len(v) \in Nat
    BY VectorTypes
<1>2. Abs(v).cuts = {x.pos : x \in BlocksOf(v)}
  <2>1. Abs(v).cuts = {v[i].pos : i \in 1 .. Len(v)}
      BY AbsIs
  <2>. QED  BY <2>1 DEF BlocksOf
<1>3. ASSUME NEW x \in BlocksOf(v)
      PROVE  /\ GoodBlock(x) /\ end(x) <= Abs(v).end /\ end(x) \in Nat
             /\ x.pos \in Nat /\ x.pos < end(x)
  <2>1. PICK i \in 1 .. Len(v) : x = v[i]
      BY DEF BlocksOf
  <2>2. GoodBlock(x) /\ end(x) \in Nat /\ x.pos \in Nat /\ x.pos < end(x)
      BY <2>1, VectorBlocks, BlockTypes
  <2>3. end(x) <= Abs(v).end
    <3>1. end(x) - 1 \in Nat /\ includes_pos(x, end(x) - 1)
        BY <2>2 DEF includes_pos
    <3>2. end(x) - 1 < Abs(v).end /\ Abs(v).end \in Nat
        BY <2>1, <3>1, AbsIs
    <3>. QED  BY <2>2, <3>2
  <2>. QED  BY <2>2, <2>3
<1>4. \E x \in BlocksOf(v) : end(x) = Abs(v).end
  <2>1. v[Len(v)] \in BlocksOf(v) /\ end(v[Len(v)]) = Abs(v).end
      BY <1>1, AbsIs DEF BlocksOf
  <2>. QED  BY <2>1
<1>5. ASSUME NEW x \in BlocksOf(v), NEW p \in Nat, includes_pos(x, p)
      PROVE  Abs(v).st[p] = x.st
  <2>1. PICK i \in 1 .. Len(v) : x = v[i]
      BY DEF BlocksOf
  <2>. QED  BY <1>5, <2>1, AbsIs
<1>6. ASSUME NEW p \in 0 .. Abs(v).end - 1
      PROVE  \E x \in BlocksOf(v) : includes_pos(x, p)
  <2>1. PICK i \in 1 .. Len(v) : includes_pos(v[i], p)
      BY AbsIs
  <2>. QED  BY <2>1 DEF BlocksOf
<1>. QED  BY <1>2, <1>3, <1>4, <1>5, <1>6


\* Where the other blocks lie.
LEMMA AroundBlock ==
  ASSUME NEW v, IsVector(v), NEW i \in 1 .. Len(v), NEW j \in 1 .. Len(v)
  PROVE  /\ v[j].pos \in Nat /\ end(v[j]) \in Nat /\ v[j].pos < end(v[j])
         /\ end(v[j]) <= Abs(v).end
         /\ j < i => end(v[j]) <= v[i].pos
         /\ j > i => v[j].pos >= end(v[i])
<1>1. Len(v) \in Nat
    BY VectorTypes
<1>2. v[j].pos \in Nat /\ end(v[j]) \in Nat /\ v[j].pos < end(v[j])
    BY BlockTypes
<1>3. v[j] \in BlocksOf(v)
    BY DEF BlocksOf
<1>4. end(v[j]) <= Abs(v).end
    BY <1>3, AbsByBlocks
<1>5. j < i => end(v[j]) <= v[i].pos
    BY BlocksInOrder
<1>6. ASSUME j > i  PROVE  v[j].pos >= end(v[i])
  <2>1. i < j /\ end(v[i]) \in Nat
      BY <1>1, <1>6, BlockTypes
  <2>2. end(v[i]) <= v[j].pos
      BY <2>1, BlocksInOrder
  <2>. QED  BY <1>2, <2>1, <2>2
<1>. QED  BY <1>2, <1>4, <1>5, <1>6


\* Where the blocks lie that a chunk joins.
LEMMA AroundChunk ==
  ASSUME NEW v, IsVector(v), NEW d, NEW i \in 1 .. Len(v), NEW b, IsChunk(b),
         b.size > 0, includes(v[i], b), NEW s
  PROVE  /\ JoinsBefore(v, i, b, s, d) =>
              /\ i - 1 \in 1 .. Len(v) /\ b.pos = v[i].pos
              /\ end(v[i - 1]) = v[i].pos /\ v[i - 1].st = s
              /\ v[i - 1].pos \in Nat /\ v[i - 1].pos < end(v[i - 1])
         /\ JoinsAfter(v, i, b, s, d) =>
              /\ i + 1 \in 1 .. Len(v) /\ end(b) = end(v[i])
              /\ v[i + 1].pos = end(b) /\ v[i + 1].st = s
              /\ end(v[i + 1]) \in Nat /\ v[i + 1].pos < end(v[i + 1])
              /\ end(v[i + 1]) <= Abs(v).end
<1>1. ASSUME JoinsBefore(v, i, b, s, d)
      PROVE  /\ i - 1 \in 1 .. Len(v) /\ b.pos = v[i].pos
             /\ end(v[i - 1]) = v[i].pos /\ v[i - 1].st = s
    BY <1>1, VectorBlocks DEF JoinsBefore
<1>2. ASSUME JoinsAfter(v, i, b, s, d)
      PROVE  /\ i + 1 \in 1 .. Len(v) /\ end(b) = end(v[i])
             /\ v[i + 1].pos = end(b) /\ v[i + 1].st = s
    BY <1>2, VectorBlocks DEF JoinsAfter
<1>. QED  BY <1>1, <1>2, AroundBlock

\* The chunk with the neighbours it joins.
LEMMA ChangedIs ==
  ASSUME NEW v, NEW i, NEW b, NEW s, NEW d, ChangeOf(v, i, b, s, d)
  PROVE  LET x == Changed(v, i, b, s, d)
         IN  /\ x.st = s
             /\ x.pos = IF JoinsBefore(v, i, b, s, d) THEN v[i - 1].pos ELSE b.pos
             /\ end(x) = IF JoinsAfter(v, i, b, s, d) THEN end(v[i + 1]) ELSE end(b)
             /\ x.pos \in Nat /\ end(x) \in Nat
<1> DEFINE p == IF JoinsBefore(v, i, b, s, d) THEN v[i - 1].pos ELSE b.pos
           e == IF JoinsAfter(v, i, b, s, d) THEN end(v[i + 1]) ELSE end(b)
<1>1. p \in Nat
  <2>1. CASE JoinsBefore(v, i, b, s, d)
      BY <2>1, AroundChunk DEF ChangeOf
  <2>2. CASE ~JoinsBefore(v, i, b, s, d)
      BY <2>2, ChunkTypes DEF ChangeOf
  <2>. QED  BY <2>1, <2>2
<1>2. e \in Nat
  <2>1. CASE JoinsAfter(v, i, b, s, d)
      BY <2>1, AroundChunk DEF ChangeOf
  <2>2. CASE ~JoinsAfter(v, i, b, s, d)
      BY <2>2, ChunkTypes DEF ChangeOf
  <2>. QED  BY <2>1, <2>2
<1>3. Changed(v, i, b, s, d) = From(p, e, s)
    BY Zenon DEF Changed
<1> HIDE DEF p, e
<1>4. Changed(v, i, b, s, d).pos = p /\ end(Changed(v, i, b, s, d)) = e
      /\ Changed(v, i, b, s, d).st = s
    BY <1>1, <1>2, <1>3, FromIs
<1>. QED  BY Zenon, <1>1, <1>2, <1>4 DEF p, e


LEMMA ChangeEnd ==
  ASSUME NEW v, NEW i, NEW b, NEW s, NEW d, ChangeOf(v, i, b, s, d)
  PROVE  Abs(change_block(v, i, b, s, d).v).end = Abs(v).end
<1> DEFINE w  == change_block(v, i, b, s, d).v
           jb == JoinsBefore(v, i, b, s, d)
           ja == JoinsAfter(v, i, b, s, d)
           a  == FirstTaken(v, i, b, s, d)
           e  == LastTaken(v, i, b, s, d)
           X  == Changed(v, i, b, s, d)
<1>0. /\ IsVector(v) /\ i \in 1 .. Len(v) /\ s \in Status /\ IsDomain(d)
      /\ IsChunk(b) /\ b.size > 0 /\ includes(v[i], b) /\ s # v[i].st
    BY DEF ChangeOf
<1>1. IsVector(w) /\ Abs(w).end \in Nat /\ Abs(v).end \in Nat /\ Len(v) \in Nat /\ i \in 1 .. Len(v)
  <2>1. IsVector(w)
      BY Zenon, <1>0, ChangedBlocks
  <2> HIDE DEF w
  <2>. QED  BY <1>0, <2>1, AbsIs, VectorTypes
<1>2. /\ v[i].pos \in Nat /\ end(v[i]) \in Nat /\ b.pos \in Nat /\ end(b) \in Nat
      /\ v[i].pos <= b.pos /\ b.pos < end(b) /\ end(b) <= end(v[i]) /\ end(v[i]) <= Abs(v).end
      /\ i = Len(v) => end(v[i]) = Abs(v).end
    BY <1>0, ChunkTypes
<1>3. /\ \A j \in 1 .. Len(v) : end(v[j]) <= Abs(v).end /\ end(v[j]) \in Nat
      /\ ja => i + 1 \in 1 .. Len(v) /\ end(b) = end(v[i])
    BY <1>0, AroundBlock, AroundChunk
<1>4. end(X) = (IF ja THEN end(v[i + 1]) ELSE end(b)) /\ end(X) \in Nat
    BY ChangedIs
<1>5. ASSUME NEW x
      PROVE  x \in BlocksOf(w) <=>
               \/ \E j \in 1 .. Len(v) : x = v[j] /\ j < a
               \/ \E j \in 1 .. Len(v) : x = v[j] /\ j > e
               \/ x = X
               \/ v[i].pos < b.pos /\ x = From(v[i].pos, b.pos, v[i].st)
               \/ end(b) < end(v[i]) /\ x = From(end(b), end(v[i]), v[i].st)
  <2>1. x \in BlocksOf(w) <=> AfterChange(x, v, i, b, s, d)
      BY Zenon, ChangedBlockIs
  <2>. QED  BY Zenon, <2>1 DEF AfterChange
<1>6. e = IF ja THEN i + 1 ELSE i
    BY Zenon DEF LastTaken
<1>7. /\ end(From(v[i].pos, b.pos, v[i].st)) = b.pos
      /\ end(From(end(b), end(v[i]), v[i].st)) = end(v[i])
    BY <1>2, FromIs
<1>8. end(v[Len(v)]) = Abs(v).end /\ Len(v) \in 1 .. Len(v)
  <2>1. Len(v) \in 1 .. Len(v)
      BY <1>0, VectorTypes
  <2>. QED  BY <1>0, <2>1, AbsIs
<1>9. (\A x \in BlocksOf(w) : end(x) <= Abs(w).end) /\ \E x \in BlocksOf(w) : end(x) = Abs(w).end
    BY <1>1, AbsByBlocks
<1> HIDE DEF w, jb, ja, a, e, X
<1>10. Abs(w).end <= Abs(v).end
  <2>1. PICK x \in BlocksOf(w) : end(x) = Abs(w).end
      BY <1>9
  <2>2. end(X) <= Abs(v).end
      BY <1>1, <1>2, <1>3, <1>4
  <2>3. CASE \E j \in 1 .. Len(v) : x = v[j]
      BY <1>3, <2>1, <2>3
  <2>4. CASE ~\E j \in 1 .. Len(v) : x = v[j]
    <3>1. \/ x = X \/ x = From(v[i].pos, b.pos, v[i].st)
          \/ x = From(end(b), end(v[i]), v[i].st)
        BY Zenon, <1>5, <2>1, <2>4
    <3>. QED  BY <1>1, <1>2, <1>7, <2>1, <2>2, <3>1
  <2>. QED  BY <2>3, <2>4
<1>11. \E x \in BlocksOf(w) : end(x) = Abs(v).end
  <2>1. CASE e < Len(v)
    <3>1. e \in Nat
        BY <1>1, <1>6
    <3>2. Len(v) > e
        BY <1>1, <2>1, <3>1
    <3>. QED  BY <1>5, <1>8, <3>2
  <2>2. CASE ~(e < Len(v)) /\ ja
    <3>1. i + 1 = Len(v)
        BY <1>1, <1>3, <1>6, <2>2
    <3>2. end(X) = Abs(v).end
        BY <1>4, <1>8, <2>2, <3>1
    <3>. QED  BY <1>5, <3>2
  <2>3. CASE ~(e < Len(v)) /\ ~ja
    <3>1. i = Len(v) /\ end(v[i]) = Abs(v).end /\ end(X) = end(b)
        BY <1>1, <1>2, <1>4, <1>6, <2>3
    <3>2. CASE end(b) = end(v[i])
        BY <1>5, <3>1, <3>2
    <3>3. CASE end(b) # end(v[i])
      <4>1. end(b) < end(v[i])
          BY <1>2, <3>3
      <4>. QED  BY <1>5, <1>7, <3>1, <4>1
    <3>. QED  BY <3>2, <3>3
  <2>. QED  BY <2>1, <2>2, <2>3
<1>12. Abs(v).end <= Abs(w).end
    BY <1>9, <1>11
<1>. QED  BY <1>1, <1>10, <1>12 DEF w


\* The numbers around a change, for the two lemmas that follow.
LEMMA ChangeNumbers ==
  ASSUME NEW v, NEW i, NEW b, NEW s, NEW d, ChangeOf(v, i, b, s, d)
  PROVE  /\ IsVector(v) /\ IsVector(change_block(v, i, b, s, d).v)
         /\ Len(v) \in Nat /\ i \in 1 .. Len(v) /\ Abs(v).end \in Nat
         /\ v[i].pos \in Nat /\ end(v[i]) \in Nat /\ b.pos \in Nat /\ end(b) \in Nat
         /\ v[i].pos <= b.pos /\ b.pos < end(b) /\ end(b) <= end(v[i])
         /\ end(v[i]) <= Abs(v).end
         /\ \A j \in 1 .. Len(v) :
              /\ v[j].pos \in Nat /\ end(v[j]) \in Nat /\ v[j].pos < end(v[j])
              /\ end(v[j]) <= Abs(v).end
              /\ j < i => end(v[j]) <= v[i].pos
              /\ j > i => v[j].pos >= end(v[i])
         /\ From(v[i].pos, b.pos, v[i].st).pos = v[i].pos
         /\ end(From(v[i].pos, b.pos, v[i].st)) = b.pos
         /\ From(v[i].pos, b.pos, v[i].st).st = v[i].st
         /\ From(end(b), end(v[i]), v[i].st).pos = end(b)
         /\ end(From(end(b), end(v[i]), v[i].st)) = end(v[i])
         /\ From(end(b), end(v[i]), v[i].st).st = v[i].st
<1>0. /\ IsVector(v) /\ i \in 1 .. Len(v) /\ s \in Status /\ IsDomain(d)
      /\ IsChunk(b) /\ b.size > 0 /\ includes(v[i], b) /\ s # v[i].st
    BY DEF ChangeOf
<1>1. IsVector(change_block(v, i, b, s, d).v)
    BY Zenon, <1>0, ChangedBlocks
<1>2. /\ Len(v) \in Nat /\ Abs(v).end \in Nat
      /\ v[i].pos \in Nat /\ end(v[i]) \in Nat /\ b.pos \in Nat /\ end(b) \in Nat
      /\ v[i].pos <= b.pos /\ b.pos < end(b) /\ end(b) <= end(v[i])
      /\ end(v[i]) <= Abs(v).end
    BY <1>0, ChunkTypes
<1>3. \A j \in 1 .. Len(v) :
        /\ v[j].pos \in Nat /\ end(v[j]) \in Nat /\ v[j].pos < end(v[j])
        /\ end(v[j]) <= Abs(v).end
        /\ j < i => end(v[j]) <= v[i].pos
        /\ j > i => v[j].pos >= end(v[i])
    BY <1>0, AroundBlock
<1>4. /\ From(v[i].pos, b.pos, v[i].st).pos = v[i].pos
      /\ end(From(v[i].pos, b.pos, v[i].st)) = b.pos
      /\ From(v[i].pos, b.pos, v[i].st).st = v[i].st
    BY <1>2, FromIs
<1>5. /\ From(end(b), end(v[i]), v[i].st).pos = end(b)
      /\ end(From(end(b), end(v[i]), v[i].st)) = end(v[i])
      /\ From(end(b), end(v[i]), v[i].st).st = v[i].st
    BY <1>2, FromIs
<1>. QED  BY Zenon, <1>0, <1>1, <1>2, <1>3, <1>4, <1>5


\* The blocks that a chunk joins, and the range it takes.
LEMMA ChangeJoins ==
  ASSUME NEW v, NEW i, NEW b, NEW s, NEW d, ChangeOf(v, i, b, s, d)
  PROVE  /\ JoinsBefore(v, i, b, s, d) =>
              /\ i - 1 \in 1 .. Len(v) /\ b.pos = v[i].pos
              /\ end(v[i - 1]) = v[i].pos /\ v[i - 1].st = s
              /\ v[i - 1].pos \in Nat /\ v[i - 1].pos < end(v[i - 1])
         /\ JoinsAfter(v, i, b, s, d) =>
              /\ i + 1 \in 1 .. Len(v) /\ end(b) = end(v[i])
              /\ v[i + 1].pos = end(b) /\ v[i + 1].st = s
              /\ end(v[i + 1]) \in Nat /\ v[i + 1].pos < end(v[i + 1])
              /\ end(v[i + 1]) <= Abs(v).end
         /\ FirstTaken(v, i, b, s, d) = IF JoinsBefore(v, i, b, s, d) THEN i - 1 ELSE i
         /\ LastTaken(v, i, b, s, d) = IF JoinsAfter(v, i, b, s, d) THEN i + 1 ELSE i
<1>0. /\ IsVector(v) /\ i \in 1 .. Len(v)
      /\ IsChunk(b) /\ b.size > 0 /\ includes(v[i], b)
    BY DEF ChangeOf
<1>1. /\ FirstTaken(v, i, b, s, d) = IF JoinsBefore(v, i, b, s, d) THEN i - 1 ELSE i
      /\ LastTaken(v, i, b, s, d) = IF JoinsAfter(v, i, b, s, d) THEN i + 1 ELSE i
    BY Zenon DEF FirstTaken, LastTaken
<1>. QED  BY Zenon, <1>0, <1>1, AroundChunk


\* The blocks after a change begin where blocks began before, and at the borders
\* of the chunk, but not where it joins a neighbour.
LEMMA ChangeCuts ==
  ASSUME NEW v, NEW i, NEW b, NEW s, NEW d, ChangeOf(v, i, b, s, d), NEW c
  PROVE  c \in Abs(change_block(v, i, b, s, d).v).cuts <=>
           /\ \/ c \in Abs(v).cuts
              \/ c \in {b.pos, end(b)} /\ c < Abs(v).end
           /\ ~(c = b.pos /\ JoinsBefore(v, i, b, s, d))
           /\ ~(c = end(b) /\ JoinsAfter(v, i, b, s, d))
<1> DEFINE w  == change_block(v, i, b, s, d).v
           jb == JoinsBefore(v, i, b, s, d)
           ja == JoinsAfter(v, i, b, s, d)
           a  == FirstTaken(v, i, b, s, d)
           e  == LastTaken(v, i, b, s, d)
           X  == Changed(v, i, b, s, d)
           H  == From(v[i].pos, b.pos, v[i].st)
           T  == From(end(b), end(v[i]), v[i].st)
           m  == Abs(v)
<1>1. /\ Len(v) \in Nat /\ i \in 1 .. Len(v) /\ m.end \in Nat
      /\ v[i].pos \in Nat /\ end(v[i]) \in Nat /\ b.pos \in Nat /\ end(b) \in Nat
      /\ v[i].pos <= b.pos /\ b.pos < end(b) /\ end(b) <= end(v[i])
      /\ end(v[i]) <= m.end
    BY Zenon, ChangeNumbers
<1>2. \A j \in 1 .. Len(v) :
        /\ v[j].pos \in Nat /\ end(v[j]) \in Nat /\ v[j].pos < end(v[j])
        /\ j < i => end(v[j]) <= v[i].pos
        /\ j > i => v[j].pos >= end(v[i])
    BY Zenon, ChangeNumbers
<1>3. H.pos = v[i].pos /\ T.pos = end(b)
    BY ChangeNumbers
<1>4. /\ jb => /\ i - 1 \in 1 .. Len(v) /\ b.pos = v[i].pos
                /\ v[i - 1].pos \in Nat /\ v[i - 1].pos < b.pos
      /\ ja => /\ i + 1 \in 1 .. Len(v) /\ end(b) = end(v[i]) /\ v[i + 1].pos = end(b)
      /\ a = (IF jb THEN i - 1 ELSE i) /\ e = (IF ja THEN i + 1 ELSE i)
    BY ChangeJoins, <1>1 DEF FirstTaken, LastTaken
<1>5. X.pos = IF jb THEN v[i - 1].pos ELSE b.pos
    BY ChangedIs
<1>6. m.cuts = {v[j].pos : j \in 1 .. Len(v)}
    BY ChangeNumbers, AbsIs
<1>7. c \in Abs(w).cuts <=> \E x \in BlocksOf(w) : x.pos = c
  <2>1. IsVector(w)
      BY Zenon, ChangeNumbers
  <2> HIDE DEF w
  <2>2. Abs(w).cuts = {x.pos : x \in BlocksOf(w)}
      BY Zenon, <2>1, AbsByBlocks
  <2>. QED  BY <2>2
<1>8. \A x : x \in BlocksOf(w) <=>
               \/ \E j \in 1 .. Len(v) : x = v[j] /\ j < a
               \/ \E j \in 1 .. Len(v) : x = v[j] /\ j > e
               \/ x = X
               \/ v[i].pos < b.pos /\ x = H
               \/ end(b) < end(v[i]) /\ x = T
  <2>1. TAKE x
  <2>2. x \in BlocksOf(w) <=> AfterChange(x, v, i, b, s, d)
      BY Zenon, ChangedBlockIs
  <2>. QED  BY Zenon, <2>2 DEF AfterChange
<1>9. ja => \A j \in 1 .. Len(v) : j > i + 1 => v[j].pos > end(b)
  <2>1. SUFFICES ASSUME ja, NEW j \in 1 .. Len(v), j > i + 1 PROVE v[j].pos > end(b)
      OBVIOUS
  <2>2. i + 1 \in 1 .. Len(v) /\ v[i + 1].pos = end(b) /\ IsVector(v)
      BY <1>4, <2>1, ChangeNumbers
  <2>3. v[i + 1].pos \in Nat /\ end(v[i + 1]) \in Nat /\ v[i + 1].pos < end(v[i + 1])
        /\ v[j].pos \in Nat
      BY <1>2, <2>2
  <2>4. end(v[i + 1]) <= v[j].pos
      BY <2>1, <2>2, BlocksInOrder
  <2>. QED  BY <2>2, <2>3, <2>4
<1>10. i < Len(v) => i + 1 \in 1 .. Len(v) /\ v[i + 1].pos = end(v[i])
  <2>1. IsVector(v) /\ i \in 1 .. Len(v)
      BY <1>1, ChangeNumbers
  <2>. QED  BY <2>1, VectorBlocks
<1>11. i = Len(v) => end(v[i]) = m.end
  <2>1. IsVector(v)
      BY ChangeNumbers
  <2>. QED  BY <2>1, AbsIs
<1> HIDE DEF w, jb, ja, a, e, X, H, T, m
<1>12. ASSUME NEW x \in BlocksOf(w), x.pos = c
       PROVE  /\ c \in m.cuts \/ (c \in {b.pos, end(b)} /\ c < m.end)
              /\ ~(c = b.pos /\ jb) /\ ~(c = end(b) /\ ja)
  <2>1. CASE \E j \in 1 .. Len(v) : x = v[j] /\ j < a
    <3>1. PICK j \in 1 .. Len(v) : x = v[j] /\ j < a
        BY <2>1
    <3>2. j < i
        BY <1>1, <1>4, <3>1
    <3>3. c \in m.cuts
        BY <1>6, <1>12, <3>1
    <3>4. c < b.pos /\ c \in Nat
        BY <1>1, <1>2, <1>12, <3>1, <3>2
    <3>. QED  BY <1>1, <3>3, <3>4
  <2>2. CASE \E j \in 1 .. Len(v) : x = v[j] /\ j > e
    <3>1. PICK j \in 1 .. Len(v) : x = v[j] /\ j > e
        BY <2>2
    <3>2. j > i /\ (ja => j > i + 1)
        BY <1>1, <1>4, <3>1
    <3>3. c \in m.cuts
        BY <1>6, <1>12, <3>1
    <3>4. c > b.pos /\ c \in Nat
        BY <1>1, <1>2, <1>12, <3>1, <3>2
    <3>5. ja => c # end(b)
        BY <1>1, <1>9, <1>12, <3>1, <3>2, <3>4
    <3>. QED  BY <1>1, <3>3, <3>4, <3>5
  <2>3. CASE x = X
    <3>1. CASE jb
      <4>1. c \in m.cuts
          BY <1>4, <1>5, <1>6, <1>12, <2>3, <3>1
      <4>2. c < b.pos /\ c \in Nat
          BY <1>4, <1>5, <1>12, <2>3, <3>1
      <4>. QED  BY <1>1, <4>1, <4>2
    <3>2. CASE ~jb
      <4>1. c = b.pos
          BY <1>5, <1>12, <2>3, <3>2
      <4>. QED  BY <1>1, <3>2, <4>1
    <3>. QED  BY <3>1, <3>2
  <2>4. CASE v[i].pos < b.pos /\ x = H
    <3>1. c = v[i].pos /\ c < b.pos
        BY <1>3, <1>12, <2>4
    <3>2. c \in m.cuts
        BY <1>1, <1>6, <3>1
    <3>. QED  BY <1>1, <3>1, <3>2
  <2>5. CASE end(b) < end(v[i]) /\ x = T
    <3>1. c = end(b) /\ ~ja
        BY <1>1, <1>3, <1>4, <1>12, <2>5
    <3>. QED  BY <1>1, <2>5, <3>1
  <2>. QED  BY Zenon, <1>8, <1>12, <2>1, <2>2, <2>3, <2>4, <2>5
<1>13. ASSUME c \in m.cuts \/ (c \in {b.pos, end(b)} /\ c < m.end),
              ~(c = b.pos /\ jb), ~(c = end(b) /\ ja)
       PROVE  \E x \in BlocksOf(w) : x.pos = c
  <2>1. CASE c \in m.cuts
    <3>1. PICK j \in 1 .. Len(v) : c = v[j].pos
        BY <1>6, <2>1
    <3>2. CASE j < a
        BY <1>8, <3>1, <3>2
    <3>3. CASE j > e
        BY <1>8, <3>1, <3>3
    <3>4. CASE ~(j < a) /\ ~(j > e)
      <4>1. \/ j = i - 1 /\ jb
            \/ j = i
            \/ j = i + 1 /\ ja
          BY <1>1, <1>4, <3>4
      <4>2. CASE j = i - 1 /\ jb
        <5>1. X.pos = c
            BY <1>5, <3>1, <4>2
        <5>. QED  BY <1>8, <5>1
      <4>3. CASE j = i
        <5>1. CASE v[i].pos < b.pos
          <6>1. H.pos = c /\ H \in BlocksOf(w)
              BY <1>3, <1>8, <3>1, <4>3, <5>1
          <6>. QED  BY <6>1
        <5>2. CASE ~(v[i].pos < b.pos)
          <6>1. c = b.pos
              BY <1>1, <3>1, <4>3, <5>2
          <6>2. X.pos = c
              BY <1>5, <1>13, <6>1
          <6>. QED  BY <1>8, <6>2
        <5>. QED  BY <5>1, <5>2
      <4>4. CASE j = i + 1 /\ ja
          BY <1>4, <1>13, <3>1, <4>4
      <4>. QED  BY <4>1, <4>2, <4>3, <4>4
    <3>. QED  BY <3>2, <3>3, <3>4
  <2>2. CASE c = b.pos
    <3>1. X.pos = c
        BY <1>5, <1>13, <2>2
    <3>. QED  BY <1>8, <3>1
  <2>3. CASE c = end(b) /\ c < m.end
    <3>1. CASE end(b) < end(v[i])
      <4>1. T.pos = c /\ T \in BlocksOf(w)
          BY <1>3, <1>8, <2>3, <3>1
      <4>. QED  BY <4>1
    <3>2. CASE ~(end(b) < end(v[i]))
      <4>1. end(b) = end(v[i])
          BY <1>1, <3>2
      <4>2. i < Len(v)
          BY <1>1, <1>11, <2>3, <4>1
      <4>3. i + 1 \in 1 .. Len(v) /\ v[i + 1].pos = c /\ i + 1 > e
          BY <1>1, <1>4, <1>10, <1>13, <2>3, <4>1, <4>2
      <4>. QED  BY <1>8, <4>3
    <3>. QED  BY <3>1, <3>2
  <2>. QED  BY <1>13, <2>1, <2>2, <2>3
<1>14. c \in Abs(w).cuts <=>
         /\ c \in m.cuts \/ (c \in {b.pos, end(b)} /\ c < m.end)
         /\ ~(c = b.pos /\ jb) /\ ~(c = end(b) /\ ja)
    BY Zenon, <1>7, <1>12, <1>13
<1>. QED  BY Zenon, <1>14 DEF w, m, jb, ja


\* Every position has the status it had, but for those of the chunk.
LEMMA ChangeStatus ==
  ASSUME NEW v, NEW i, NEW b, NEW s, NEW d, ChangeOf(v, i, b, s, d),
         NEW p \in 0 .. Abs(v).end - 1
  PROVE  Abs(change_block(v, i, b, s, d).v).st[p] =
           IF p \in b.pos .. end(b) - 1 THEN s ELSE Abs(v).st[p]
<1> DEFINE w  == change_block(v, i, b, s, d).v
           jb == JoinsBefore(v, i, b, s, d)
           ja == JoinsAfter(v, i, b, s, d)
           a  == FirstTaken(v, i, b, s, d)
           e  == LastTaken(v, i, b, s, d)
           X  == Changed(v, i, b, s, d)
           H  == From(v[i].pos, b.pos, v[i].st)
           T  == From(end(b), end(v[i]), v[i].st)
           m  == Abs(v)
<1>1. /\ Len(v) \in Nat /\ i \in 1 .. Len(v) /\ m.end \in Nat
      /\ v[i].pos \in Nat /\ end(v[i]) \in Nat /\ b.pos \in Nat /\ end(b) \in Nat
      /\ v[i].pos <= b.pos /\ b.pos < end(b) /\ end(b) <= end(v[i])
    BY Zenon, ChangeNumbers
<1>2. \A j \in 1 .. Len(v) :
        /\ v[j].pos \in Nat /\ end(v[j]) \in Nat /\ v[j].pos < end(v[j])
        /\ j < i => end(v[j]) <= v[i].pos
        /\ j > i => v[j].pos >= end(v[i])
    BY Zenon, ChangeNumbers
<1>3. /\ H.pos = v[i].pos /\ end(H) = b.pos /\ H.st = v[i].st
      /\ T.pos = end(b) /\ end(T) = end(v[i]) /\ T.st = v[i].st
    BY ChangeNumbers
<1>4. /\ jb => /\ i - 1 \in 1 .. Len(v) /\ b.pos = v[i].pos /\ v[i - 1].st = s
                /\ end(v[i - 1]) = b.pos
      /\ ja => /\ i + 1 \in 1 .. Len(v) /\ end(b) = end(v[i]) /\ v[i + 1].pos = end(b)
                /\ v[i + 1].st = s
      /\ a = (IF jb THEN i - 1 ELSE i) /\ e = (IF ja THEN i + 1 ELSE i)
    BY ChangeJoins DEF FirstTaken, LastTaken
<1>5. /\ X.pos = IF jb THEN v[i - 1].pos ELSE b.pos
      /\ end(X) = IF ja THEN end(v[i + 1]) ELSE end(b)
      /\ X.st = s
    BY ChangedIs
<1>6. \A j \in 1 .. Len(v) : includes_pos(v[j], p) => m.st[p] = v[j].st
  <2>1. IsVector(v) /\ p \in Nat
      BY <1>1, ChangeNumbers
  <2>. QED  BY <2>1, AbsIs
<1>7. \E x \in BlocksOf(w) : includes_pos(x, p) /\ Abs(w).st[p] = x.st
  <2>1. IsVector(w) /\ Abs(w).end = m.end /\ p \in Nat
      BY <1>1, ChangeNumbers, ChangeEnd
  <2> HIDE DEF w
  <2>2. \E x \in BlocksOf(w) : includes_pos(x, p)
      BY <2>1, AbsByBlocks
  <2>. QED  BY <2>1, <2>2, AbsByBlocks
<1>8. \A x \in BlocksOf(w) :
        \/ \E j \in 1 .. Len(v) : x = v[j] /\ j < a
        \/ \E j \in 1 .. Len(v) : x = v[j] /\ j > e
        \/ x = X
        \/ v[i].pos < b.pos /\ x = H
        \/ end(b) < end(v[i]) /\ x = T
  <2>1. TAKE x \in BlocksOf(w)
  <2>2. AfterChange(x, v, i, b, s, d)
      BY Zenon, <2>1, ChangedBlockIs
  <2>. QED  BY Zenon, <2>2 DEF AfterChange
<1> HIDE DEF w, jb, ja, a, e, X, H, T, m
<1>9. PICK x \in BlocksOf(w) : includes_pos(x, p) /\ Abs(w).st[p] = x.st
    BY Zenon, <1>7
<1>10. x.pos <= p /\ p < end(x) /\ p \in Nat
    BY <1>1, <1>9 DEF includes_pos
<1>11. Abs(w).st[p] = IF p \in b.pos .. end(b) - 1 THEN s ELSE m.st[p]
  <2>1. CASE \E j \in 1 .. Len(v) : x = v[j] /\ j < a
    <3>1. PICK j \in 1 .. Len(v) : x = v[j] /\ j < a
        BY <2>1
    <3>2. j < i
        BY <1>1, <1>4, <3>1
    <3>3. p < b.pos
        BY <1>1, <1>2, <1>10, <3>1, <3>2
    <3>4. m.st[p] = x.st
        BY <1>6, <1>9, <3>1
    <3>. QED  BY <1>1, <1>9, <1>10, <3>3, <3>4
  <2>2. CASE \E j \in 1 .. Len(v) : x = v[j] /\ j > e
    <3>1. PICK j \in 1 .. Len(v) : x = v[j] /\ j > e
        BY <2>2
    <3>2. j > i
        BY <1>1, <1>4, <3>1
    <3>3. p >= end(b)
        BY <1>1, <1>2, <1>10, <3>1, <3>2
    <3>4. m.st[p] = x.st
        BY <1>6, <1>9, <3>1
    <3>. QED  BY <1>1, <1>9, <1>10, <3>3, <3>4
  <2>3. CASE x = X
    <3>1. CASE p \in b.pos .. end(b) - 1
        BY <1>5, <1>9, <2>3, <3>1
    <3>2. CASE p < b.pos
      <4>1. jb
          BY <1>1, <1>5, <1>10, <2>3, <3>2
      <4>2. includes_pos(v[i - 1], p) /\ i - 1 \in 1 .. Len(v)
          BY <1>4, <1>5, <1>10, <2>3, <3>2, <4>1 DEF includes_pos
      <4>3. m.st[p] = s
          BY <1>4, <1>6, <4>1, <4>2
      <4>. QED  BY <1>1, <1>5, <1>9, <2>3, <3>2, <4>3
    <3>3. CASE p >= end(b)
      <4>1. ja
          BY <1>1, <1>5, <1>10, <2>3, <3>3
      <4>2. includes_pos(v[i + 1], p) /\ i + 1 \in 1 .. Len(v)
          BY <1>4, <1>5, <1>10, <2>3, <3>3, <4>1 DEF includes_pos
      <4>3. m.st[p] = s
          BY <1>4, <1>6, <4>1, <4>2
      <4>. QED  BY <1>1, <1>5, <1>9, <2>3, <3>3, <4>3
    <3>. QED  BY <1>1, <1>10, <3>1, <3>2, <3>3
  <2>4. CASE v[i].pos < b.pos /\ x = H
    <3>1. includes_pos(v[i], p) /\ p < b.pos
        BY <1>1, <1>3, <1>10, <2>4 DEF includes_pos
    <3>2. m.st[p] = x.st
        BY <1>1, <1>3, <1>6, <2>4, <3>1
    <3>. QED  BY <1>1, <1>9, <1>10, <3>1, <3>2
  <2>5. CASE end(b) < end(v[i]) /\ x = T
    <3>1. includes_pos(v[i], p) /\ p >= end(b)
        BY <1>1, <1>3, <1>10, <2>5 DEF includes_pos
    <3>2. m.st[p] = x.st
        BY <1>1, <1>3, <1>6, <2>5, <3>1
    <3>. QED  BY <1>1, <1>9, <1>10, <3>1, <3>2
  <2>. QED  BY Zenon, <1>8, <2>1, <2>2, <2>3, <2>4, <2>5
<1>. QED  BY Zenon, <1>11 DEF w, m


\* change_chunk_status of a part of a block does to the map what change_chunk does.
LEMMA ChangeIsAbstract ==
  ASSUME NEW v, IsVector(v), NEW i \in 1 .. Len(v), NEW s \in Status, NEW d, IsDomain(d),
         NEW b, IsChunk(b), b.size > 0, includes(v[i], b)
  PROVE  Abs(change_block(v, i, b, s, d).v) =
           BM!change_chunk(Abs(v), InDomains(d), AsChunk(b), s)
<1> DEFINE w   == change_block(v, i, b, s, d).v
           m   == Abs(v)
           dom == InDomains(d)
           k   == AsChunk(b)
           mm  == BM!change_chunk(m, dom, k, s)
           joined == {c \in {k.pos, k.end} : \/ c = k.pos /\ BM!JoinsLeft(m, dom, k, s)
                                             \/ c = k.end /\ BM!JoinsRight(m, dom, k, s)}
<1>1. /\ b.pos \in Nat /\ end(b) \in Nat /\ b.pos < end(b) /\ includes_pos(v[i], b.pos)
      /\ k.pos = b.pos /\ k.end = end(b)
    BY ChunkTypes
<1>2. m.st[k.pos] = v[i].st
  <2>1. m.st[b.pos] = v[i].st
      BY <1>1, AbsIs
  <2>. QED  BY Zenon, <1>1, <2>1
<1>3. mm = IF m.st[k.pos] = s THEN m
           ELSE [end  |-> m.end,
                 cuts |-> (m.cuts \cup BM!Borders(m, k)) \ joined,
                 st   |-> [p \in BM!Positions(m) |->
                             IF p \in BM!Chunk(k) THEN s ELSE m.st[p]]]
    BY Zenon DEF BM!change_chunk
<1>4. CASE s = v[i].st
  <2>1. w = v
      BY <1>4 DEF change_block
  <2>2. mm = m
      BY <1>2, <1>3, <1>4
  <2>. QED  BY Zenon, <2>1, <2>2
<1>5. CASE s # v[i].st
  <2>1. ChangeOf(v, i, b, s, d)
      BY <1>5 DEF ChangeOf
  <2>2. Abs(w).end = m.end
      BY <2>1, ChangeEnd
  <2>3. Abs(w).cuts = (m.cuts \cup BM!Borders(m, k)) \ joined
    <3>1. /\ BM!JoinsLeft(m, dom, k, s) <=> JoinsBefore(v, i, b, s, d)
          /\ BM!JoinsRight(m, dom, k, s) <=> JoinsAfter(v, i, b, s, d)
        BY JoinsAbs
    <3> DEFINE jl == BM!JoinsLeft(m, dom, k, s)
               jr == BM!JoinsRight(m, dom, k, s)
               cw == Abs(w).cuts
    <3>2. \A c : c \in cw <=> /\ c \in m.cuts \/ (c \in {k.pos, k.end} /\ c < m.end)
                             /\ ~(c = k.pos /\ jl) /\ ~(c = k.end /\ jr)
      <4>1. TAKE c
      <4>2. c \in cw <=> /\ c \in m.cuts \/ (c \in {b.pos, end(b)} /\ c < m.end)
                        /\ ~(c = b.pos /\ JoinsBefore(v, i, b, s, d))
                        /\ ~(c = end(b) /\ JoinsAfter(v, i, b, s, d))
          BY Zenon, <2>1, ChangeCuts
      <4>. QED  BY Zenon, <1>1, <3>1, <4>2
    <3> HIDE DEF cw, jl, jr, m, k
    <3>3. \A c : c \in joined <=> (c = k.pos /\ jl) \/ (c = k.end /\ jr)
        BY Zenon DEF jl, jr
    <3>4. BM!Borders(m, k) = {c \in {k.pos, k.end} : c < m.end}
        BY Zenon DEF BM!Borders
    <3> HIDE DEF joined
    <3>5. cw = (m.cuts \cup BM!Borders(m, k)) \ joined
        BY <3>2, <3>3, <3>4
    <3>. QED  BY <3>5 DEF cw
  <2>4. Abs(w).st = [p \in BM!Positions(m) |-> IF p \in BM!Chunk(k) THEN s ELSE m.st[p]]
    <3>1. \A p \in 0 .. m.end - 1 :
            Abs(w).st[p] = IF p \in BM!Chunk(k) THEN s ELSE m.st[p]
        BY <1>1, <2>1, ChangeStatus DEF BM!Chunk
    <3>2. IsVector(w)
        BY <2>1, ChangeNumbers
    <3>3. Abs(w).st = [p \in 0 .. Abs(w).end - 1 |-> Abs(w).st[p]]
      <4> HIDE DEF w
      <4>. QED  BY Zenon, <3>2, AbsIs
    <3> DEFINE f == Abs(w).st
               n == Abs(w).end
    <3>4. f = [p \in 0 .. m.end - 1 |-> f[p]]
        BY Zenon, <2>2, <3>3
    <3>5. \A p \in 0 .. m.end - 1 : f[p] = IF p \in BM!Chunk(k) THEN s ELSE m.st[p]
        BY <3>1
    <3> HIDE DEF f, n, m, k, w
    <3>6. f = [p \in 0 .. m.end - 1 |-> IF p \in BM!Chunk(k) THEN s ELSE m.st[p]]
        BY <3>4, <3>5
    <3>. QED  BY Zenon, <3>6 DEF f, BM!Positions
  <2>5. Abs(w) = [end |-> Abs(w).end, cuts |-> Abs(w).cuts, st |-> Abs(w).st]
    <3>1. IsVector(w)
        BY <2>1, ChangeNumbers
    <3> HIDE DEF w
    <3>. QED  BY Zenon, <3>1, AbsIs
  <2>6. m.st[k.pos] # s
      BY <1>2, <1>5
  <2>. QED  BY Zenon, <1>3, <2>2, <2>3, <2>4, <2>5, <2>6
<1>. QED  BY <1>4, <1>5


\* What it returns for the count of bad areas is what area_adjust says of the map.
LEMMA AdjustIsAbstract ==
  ASSUME NEW v, IsVector(v), NEW i \in 1 .. Len(v), NEW s \in Status, NEW d, IsDomain(d),
         NEW b, IsChunk(b), b.size > 0, includes(v[i], b), InDomain(d, v[i])
  PROVE  change_block(v, i, b, s, d).adjust =
           BM!area_adjust(Abs(v), InDomains(d), AsChunk(b), s)
<1> DEFINE old   == v[i].st
           good(t) == t # "bad_sector"
           joinR == i < Len(v) /\ v[i + 1].st = s /\ InDomain(d, v[i + 1])
           joinL == i > 1 /\ v[i - 1].st = s /\ InDomain(d, v[i - 1])
           goodL == ~(i > 1) \/ good(v[i - 1].st) \/ ~InDomain(d, v[i - 1])
           goodR == ~(i < Len(v)) \/ good(v[i + 1].st) \/ ~InDomain(d, v[i + 1])
           left  == v[i].pos < b.pos
           right == end(v[i]) > end(b)
           bl    == IF left THEN good(old) ELSE goodL
           br    == IF right THEN good(old) ELSE goodR
           adj   == areas_adjust(good(s), good(old), bl, br)
           r     == change_block(v, i, b, s, d).adjust
           m     == Abs(v)
           dom   == InDomains(d)
           k     == AsChunk(b)
           a     == BM!area_adjust(m, dom, k, s)
           B4    == BM!GoodBefore(m, dom, k)
           Af    == BM!GoodAfter(m, dom, k)
<1>1. r = IF s = old \/ (left /\ ~right /\ joinR) THEN 0 ELSE adj
    BY Zenon DEF change_block
<1>2. /\ b.pos \in Nat /\ end(b) \in Nat /\ b.pos < end(b) /\ v[i].pos \in Nat
      /\ end(v[i]) \in Nat /\ v[i].pos <= b.pos /\ end(b) <= end(v[i])
      /\ includes_pos(v[i], b.pos) /\ m.end \in Nat
      /\ i < Len(v) => end(v[i]) < m.end
      /\ i = Len(v) => end(v[i]) = m.end
      /\ end(v[i]) <= m.end /\ Len(v) \in Nat
    BY ChunkTypes
<1>3. k.pos = b.pos /\ k.end = end(b)
    BY ChunkTypes
<1>4. m.st[k.pos] = old
  <2>1. m.st[b.pos] = old
      BY <1>2, AbsIs
  <2>. QED  BY Zenon, <1>3, <2>1
<1>5. B4 <=> k.pos = 0 \/ m.st[k.pos - 1] # "bad_sector" \/ ~BM!InDomain(m, k.pos - 1, dom)
    BY Zenon DEF BM!GoodBefore, BM!GoodAt, BM!is_good_status
<1>6. Af <=> k.end = m.end \/ m.st[k.end] # "bad_sector" \/ ~BM!InDomain(m, k.end, dom)
    BY Zenon DEF BM!GoodAfter, BM!GoodAt, BM!is_good_status
<1>7. B4 <=> bl
  <2>1. CASE left
    <3>1. b.pos # v[i].pos /\ b.pos # 0
        BY <1>2, <2>1
    <3>2. b.pos - 1 \in Nat /\ includes_pos(v[i], b.pos - 1)
        BY <3>1, BesideChunk
    <3>3. m.st[b.pos - 1] = old
        BY <3>2, AbsIs
    <3>4. BM!InDomain(m, b.pos - 1, dom)
        BY <3>2, InDomainAbs
    <3>. QED  BY Zenon, <1>3, <1>5, <2>1, <3>1, <3>3, <3>4
  <2>2. CASE ~left /\ i > 1
    <3>1. b.pos = v[i].pos
        BY <1>2, <2>2
    <3>2. /\ i - 1 \in 1 .. Len(v) /\ b.pos - 1 \in Nat /\ b.pos > 0
          /\ includes_pos(v[i - 1], b.pos - 1)
        BY <2>2, <3>1, BesideChunk
    <3>3. m.st[b.pos - 1] = v[i - 1].st
        BY <3>2, AbsIs
    <3>4. BM!InDomain(m, b.pos - 1, dom) <=> InDomain(d, v[i - 1])
        BY <3>2, InDomainAbs
    <3>5. b.pos # 0
        BY <3>2
    <3>. QED  BY Zenon, <1>3, <1>5, <2>2, <3>3, <3>4, <3>5
  <2>3. CASE ~left /\ ~(i > 1)
    <3>1. b.pos = v[i].pos
        BY <1>2, <2>3
    <3>2. b.pos = 0
        BY <1>2, <2>3, <3>1, BesideChunk
    <3>. QED  BY Zenon, <1>3, <1>5, <2>3, <3>2
  <2>. QED  BY Zenon, <2>1, <2>2, <2>3
<1>8. Af <=> br
  <2>1. CASE right
    <3>1. end(b) # end(v[i]) /\ end(b) # m.end
        BY <1>2, <2>1
    <3>2. includes_pos(v[i], end(b))
        BY <3>1, BesideChunk
    <3>3. m.st[end(b)] = old
        BY <1>2, <3>2, AbsIs
    <3>4. BM!InDomain(m, end(b), dom)
        BY <1>2, <3>2, InDomainAbs
    <3>. QED  BY Zenon, <1>3, <1>6, <2>1, <3>1, <3>3, <3>4
  <2>2. CASE ~right /\ i < Len(v)
    <3>1. end(b) = end(v[i]) /\ end(b) # m.end
        BY <1>2, <2>2
    <3>2. i + 1 \in 1 .. Len(v) /\ includes_pos(v[i + 1], end(b))
        BY <2>2, <3>1, BesideChunk
    <3>3. m.st[end(b)] = v[i + 1].st
        BY <1>2, <3>2, AbsIs
    <3>4. BM!InDomain(m, end(b), dom) <=> InDomain(d, v[i + 1])
        BY <1>2, <3>2, InDomainAbs
    <3>. QED  BY Zenon, <1>3, <1>6, <2>2, <3>1, <3>3, <3>4
  <2>3. CASE ~right /\ ~(i < Len(v))
    <3>1. end(b) = m.end
        BY <1>2, <2>3
    <3>. QED  BY Zenon, <1>3, <1>6, <2>3, <3>1
  <2>. QED  BY Zenon, <2>1, <2>2, <2>3
<1>9. a = IF (s # "bad_sector") = good(old) \/ B4 # Af THEN 0
          ELSE IF good(old) = B4 THEN 1 ELSE -1
    BY Zenon, <1>4 DEF BM!area_adjust, BM!is_good_status
<1>10. adj = IF good(s) = good(old) \/ bl # br THEN 0 ELSE IF good(old) = bl THEN 1 ELSE -1
    BY Zenon DEF areas_adjust
<1> HIDE DEF r, a, B4, Af
<1>11. a = IF s = old \/ (left /\ ~right /\ joinR) THEN 0 ELSE adj
  <2>1. (good(s) = good(old)) <=> (good(s) <=> good(old))
      OBVIOUS
  <2> HIDE DEF adj
  <2>2. s = old => good(s) = good(old)
      OBVIOUS
  <2>3. left /\ ~right /\ joinR /\ s # old => good(s) = good(old) \/ bl # br
      OBVIOUS
  <2>4. a = IF (good(s) <=> good(old)) \/ ~(bl <=> br) THEN 0
            ELSE IF good(old) <=> bl THEN 1 ELSE -1
      BY <1>7, <1>8, <1>9
  <2>5. adj = IF (good(s) <=> good(old)) \/ ~(bl <=> br) THEN 0
              ELSE IF good(old) <=> bl THEN 1 ELSE -1
      BY <1>10
  <2>. QED  BY Zenon, <2>2, <2>3, <2>4, <2>5
<1>. QED  BY Zenon, <1>1, <1>11 DEF r, a


-----------------------------------------------------------------------------
(***************************************************************************)
(* Marking a block, and cutting the map off.                               *)
(***************************************************************************)

\* change_sblock_status of a block.
LEMMA MarkIsAbstract ==
  ASSUME NEW v, IsVector(v), NEW i \in 1 .. Len(v), NEW t \in Status
  PROVE  /\ v[i].pos \in Abs(v).cuts
         /\ Abs(change_sblock_status(v, i, t)) = BM!change_sblock_status(Abs(v), v[i].pos, t)
<1> DEFINE x == [v[i] EXCEPT !.st = t]
           w == change_sblock_status(v, i, t)
           m == Abs(v)
           mm == Abs(w)
           B0 == BM!Block(m, v[i].pos)
<1>1. /\ m.end \in Nat /\ m.cuts = {v[j].pos : j \in 1 .. Len(v)} /\ m.end = end(v[Len(v)])
      /\ m = [end |-> m.end, cuts |-> m.cuts, st |-> m.st]
      /\ Len(v) \in Nat /\ Len(v) \in 1 .. Len(v)
  <2>1. Len(v) \in Nat /\ Len(v) \in 1 .. Len(v)
      BY VectorTypes
  <2>. QED  BY Zenon, <2>1, AbsIs
<1>2. /\ Len(w) = Len(v) /\ \A j \in 1 .. Len(v) : w[j] = IF j = i THEN x ELSE v[j]
  <2>1. v \in Seq(Blocks) /\ v[i] \in Blocks /\ x \in Blocks
      BY VectorTypes, BlockTypes, Restated
  <2>2. w = [v EXCEPT ![i] = x]
      BY DEF change_sblock_status
  <2> HIDE DEF x, w
  <2>. QED  BY <2>1, <2>2, ExceptSeq
<1>3. x.pos = v[i].pos /\ x.size = v[i].size /\ x.st = t
  <2>1. v[i] \in Blocks
      BY BlockTypes
  <2>. QED  BY <2>1, Restated
<1>4. IsVector(w)
    BY LeaveIsVector
<1>5. /\ mm.end = end(w[Len(w)]) /\ mm.cuts = {w[j].pos : j \in 1 .. Len(w)}
      /\ mm = [end |-> mm.end, cuts |-> mm.cuts, st |-> mm.st]
      /\ mm.st = [p \in 0 .. mm.end - 1 |-> mm.st[p]]
      /\ \A j \in 1 .. Len(w), p \in Nat : includes_pos(w[j], p) => mm.st[p] = w[j].st
  <2> HIDE DEF w
  <2>. QED  BY <1>4, AbsIs
<1> HIDE DEF x, w
<1>6. \A j \in 1 .. Len(v) : /\ w[j].pos = v[j].pos /\ end(w[j]) = end(v[j])
                            /\ w[j].st = IF j = i THEN t ELSE v[j].st
    BY <1>2, <1>3 DEF end
<1>7. mm.end = m.end /\ mm.cuts = m.cuts
    BY <1>1, <1>2, <1>5, <1>6
<1>8. B0 = Bytes(v[i])
  <2>1. v[i].pos \in Nat /\ includes_pos(v[i], v[i].pos)
      BY BlockTypes DEF includes_pos
  <2>. QED  BY <2>1, BlockAbs
<1>9. ASSUME NEW p \in 0 .. m.end - 1
      PROVE  mm.st[p] = IF p \in B0 THEN t ELSE m.st[p]
  <2>1. PICK j \in 1 .. Len(v) : includes_pos(v[j], p)
      BY AbsIs
  <2>2. p \in Nat
      BY <1>1
  <2>3. mm.st[p] = w[j].st
    <3>1. includes_pos(w[j], p)
        BY <1>6, <2>1 DEF includes_pos
    <3>. QED  BY <1>2, <1>5, <2>2, <3>1
  <2>4. m.st[p] = v[j].st
      BY <2>1, <2>2, AbsIs
  <2>5. p \in B0 <=> j = i
    <3>1. v[i].pos \in Nat /\ end(v[i]) \in Nat
        BY BlockTypes
    <3>2. p \in Bytes(v[i]) <=> includes_pos(v[i], p)
        BY <2>2, <3>1 DEF Bytes, includes_pos
    <3>3. includes_pos(v[i], p) => i = j
        BY <2>1, <2>2, OneBlockHolds
    <3>. QED  BY Zenon, <1>8, <2>1, <3>2, <3>3
  <2>. QED  BY <1>6, <2>3, <2>4, <2>5
<1>10. mm.st = [p \in 0 .. m.end - 1 |-> IF p \in B0 THEN t ELSE m.st[p]]
  <2> DEFINE f == mm.st
  <2>1. f = [p \in 0 .. m.end - 1 |-> f[p]]
      BY Zenon, <1>5, <1>7
  <2>2. \A p \in 0 .. m.end - 1 : f[p] = IF p \in B0 THEN t ELSE m.st[p]
      BY <1>9
  <2> HIDE DEF f, m, B0
  <2>3. f = [p \in 0 .. m.end - 1 |-> IF p \in B0 THEN t ELSE m.st[p]]
      BY <2>1, <2>2
  <2>. QED  BY Zenon, <2>3 DEF f
<1>11. v[i].pos \in m.cuts
    BY <1>1
<1>12. mm = [end |-> m.end, cuts |-> m.cuts, st |-> mm.st]
    BY Zenon, <1>5, <1>7
<1>13. BM!change_sblock_status(m, v[i].pos, t) =
         [end |-> m.end, cuts |-> m.cuts,
          st  |-> [p \in 0 .. m.end - 1 |-> IF p \in B0 THEN t ELSE m.st[p]]]
  <2> DEFINE g == [p \in 0 .. m.end - 1 |-> IF p \in B0 THEN t ELSE m.st[p]]
  <2>1. BM!change_sblock_status(m, v[i].pos, t) = [m EXCEPT !.st = g]
      BY Zenon DEF BM!change_sblock_status, BM!Positions
  <2>3. m = [end |-> m.end, cuts |-> m.cuts, st |-> m.st]
      BY Zenon, <1>1
  <2> HIDE DEF m, B0, g
  <2>2. [m EXCEPT !.st = g] = [end |-> m.end, cuts |-> m.cuts, st |-> g]
    <3> DEFINE E == m.end
               C == m.cuts
               F == m.st
    <3>1. m = [end |-> E, cuts |-> C, st |-> F]
        BY Zenon, <2>3
    <3> HIDE DEF E, C, F
    <3>2. [m EXCEPT !.st = g] = [end |-> E, cuts |-> C, st |-> g]
        BY <3>1
    <3>. QED  BY Zenon, <3>2 DEF E, C
  <2>. QED  BY Zenon, <2>1, <2>2 DEF g
<1>. QED  BY Zenon, <1>10, <1>11, <1>12, <1>13 DEF w


\* truncate_vector where it removes nothing that is finished.
LEMMA CutOffIsAbstract ==
  ASSUME NEW v, IsVector(v), NEW e \in (0 .. Abs(v).end - 1) \ {0},
         truncate_vector(v, e, FALSE).ok
  PROVE  /\ BM!Truncatable(Abs(v), e)
         /\ Abs(truncate_vector(v, e, FALSE).v) = BM!truncate_vector(Abs(v), e)
<1> DEFINE S  == {0} \cup {j \in DOMAIN v : v[j].pos < e}
           i  == Max(S)
           ok == /\ \A j \in i + 1 .. Len(v) : v[j].st # "finished"
                 /\ i > 0 /\ includes_pos(v[i], e) => v[i].st # "finished"
           sb == IF includes_pos(v[i], e) THEN set_size(v[i], e - v[i].pos) ELSE v[i]
           r  == truncate_vector(v, e, FALSE)
           m  == Abs(v)
           w  == r.v
           mm == Abs(w)
           u  == SubSeq(v, 1, i - 1)
<1>1. /\ m.end \in Nat /\ m.cuts = {v[j].pos : j \in 1 .. Len(v)} /\ m.end = end(v[Len(v)])
      /\ Len(v) \in Nat /\ Len(v) \in 1 .. Len(v) /\ DOMAIN v = 1 .. Len(v)
  <2>1. Len(v) \in Nat /\ Len(v) \in 1 .. Len(v) /\ DOMAIN v = 1 .. Len(v)
      BY VectorTypes
  <2>. QED  BY Zenon, <2>1, AbsIs
<1>0. \A j \in 1 .. Len(v), p \in Nat : includes_pos(v[j], p) => m.st[p] = v[j].st
  <2>1. TAKE j \in 1 .. Len(v), p \in Nat
  <2>2. includes_pos(v[j], p) => Abs(v).st[p] = v[j].st
      BY Zenon, <2>1, AbsStatus
  <2>. QED  BY Zenon, <2>2
<1>2. e \in Nat \ {0} /\ e < m.end
    BY <1>1
<1>3. r = [ok |-> FALSE \/ ok, v |-> IF ~(FALSE \/ ok) THEN v
                           ELSE IF i = 0 THEN <<Sblock(assign(0, 0), "non_tried")>>
                           ELSE SubSeq(v, 1, i - 1) \o <<sb>>]
    BY Zenon DEF truncate_vector
<1>4. /\ i \in 1 .. Len(v) /\ v[i].pos < e
      /\ \A j \in 1 .. Len(v) : v[j].pos < e => j <= i
  <2>1. S \in SUBSET (0 .. Len(v)) /\ 1 \in S
      BY <1>1, <1>2, BlockTypes
  <2>2. i \in S /\ i >= 1 /\ \A y \in S : i >= y
    <3> HIDE DEF S
    <3>. QED  BY <1>1, <2>1, MaxExists
  <2> HIDE DEF i
  <2>. QED  BY <1>1, <2>2
<1> HIDE DEF S, i
<1>5. ok /\ w = u \o <<sb>>
  <2>1. r.ok
      OBVIOUS
  <2>2. i # 0
      BY <1>4
  <2> HIDE DEF ok, sb, r
  <2>3. ok
      BY <1>3, <2>1
  <2>4. r.v = SubSeq(v, 1, i - 1) \o <<sb>>
      BY Zenon, <1>3, <2>2, <2>3
  <2>. QED  BY <2>3, <2>4
<1>6. GoodBlock(v[i]) /\ v[i].pos \in Nat /\ end(v[i]) \in Nat /\ v[i].size \in Nat
      /\ end(v[i]) = v[i].pos + v[i].size /\ end(v[i]) <= LLONG_MAX /\ LLONG_MAX \in Nat
    BY <1>4, VectorBlocks, BlockTypes, LimitAssumption
<1>7. end(v[i]) >= e
  <2>1. CASE i = Len(v)
      BY <1>1, <1>2, <2>1
  <2>2. CASE i # Len(v)
    <3>1. i < Len(v)
      <4>1. i \in 1 .. Len(v) /\ Len(v) \in Nat
          BY Zenon, <1>1, <1>4
      <4>. QED  BY <2>2, <4>1
    <3>2. i + 1 \in 1 .. Len(v) /\ v[i + 1].pos = end(v[i])
        BY <1>4, <3>1, VectorBlocks
    <3>3. ~(v[i + 1].pos < e)
        BY <1>1, <1>4, <3>2
    <3>. QED  BY <1>2, <1>6, <3>2, <3>3
  <2>. QED  BY <2>1, <2>2
<1>8. sb \in Blocks /\ sb.pos = v[i].pos /\ sb.st = v[i].st /\ end(sb) = e
  <2>1. CASE includes_pos(v[i], e)
    <3> DEFINE n == e - v[i].pos
               c == [v[i] EXCEPT !.size = n]
    <3>1. n \in Nat /\ n > 0 /\ v[i].pos + n = e /\ n <= LLONG_MAX - v[i].pos
        BY <1>2, <1>4, <1>6, <2>1 DEF includes_pos
    <3>2. c \in Blocks /\ c.pos = v[i].pos /\ c.size = n /\ c.st = v[i].st
        BY <1>6, <3>1, Resized DEF GoodBlock
    <3>3. sb = fix_size(c)
        BY <2>1 DEF set_size
    <3> HIDE DEF c, n, sb
    <3>4. fix_size(c) = c
        BY <1>6, <3>1, <3>2 DEF fix_size
    <3>. QED  BY <3>1, <3>2, <3>3, <3>4 DEF end
  <2>2. CASE ~includes_pos(v[i], e)
    <3>1. end(v[i]) = e
        BY <1>2, <1>4, <1>6, <1>7, <2>2 DEF includes_pos
    <3>2. sb = v[i]
        BY <2>2
    <3> HIDE DEF sb
    <3>. QED  BY <1>6, <3>1, <3>2 DEF GoodBlock
  <2>. QED  BY <2>1, <2>2
<1>9. IsVector(w)
    BY <1>2, TruncatedIsVector
<1>10. BlocksOf(w) = {v[j] : j \in 1 .. i - 1} \cup {sb}
  <2>1. u \in Seq(Blocks) /\ BlocksOf(u) = {v[j] : j \in 1 .. i - 1}
    <3>1. 1 \in 1 .. Len(v) + 1 /\ i - 1 \in 0 .. Len(v)
        BY <1>1, <1>4
    <3>. QED  BY <3>1, SubSeqBlocks
  <2>2. <<sb>> \in Seq(Blocks) /\ BlocksOf(<<sb>>) = {sb}
    <3> HIDE DEF sb
    <3>. QED  BY <1>8, BlocksOfOne
  <2> DEFINE z == <<sb>>
  <2>3. z \in Seq(Blocks) /\ BlocksOf(z) = {sb} /\ w = u \o z
      BY Zenon, <1>5, <2>2
  <2> HIDE DEF z, u, sb, w
  <2>4. BlocksOf(u \o z) = BlocksOf(u) \cup BlocksOf(z)
      BY <2>1, <2>3, ConcatBlocks
  <2>. QED  BY Zenon, <2>1, <2>3, <2>4
<1> HIDE DEF w, sb, u, r
<1>11. /\ mm = [end |-> mm.end, cuts |-> mm.cuts, st |-> mm.st] /\ mm.end \in Nat
       /\ mm.st = [p \in 0 .. mm.end - 1 |-> mm.st[p]]
       /\ mm.cuts = {x.pos : x \in BlocksOf(w)}
       /\ \A x \in BlocksOf(w) : end(x) <= mm.end
       /\ \E x \in BlocksOf(w) : end(x) = mm.end
       /\ \A x \in BlocksOf(w), p \in Nat : includes_pos(x, p) => mm.st[p] = x.st
       /\ \A p \in 0 .. mm.end - 1 : \E x \in BlocksOf(w) : includes_pos(x, p)
    BY <1>9, AbsIs, AbsByBlocks
<1>12. \A j \in 1 .. i - 1 :
         /\ j \in 1 .. Len(v) /\ j < i
         /\ end(v[j]) <= v[i].pos /\ v[j].pos \in Nat /\ end(v[j]) \in Nat
         /\ v[j].pos < end(v[j])
  <2>1. TAKE j \in 1 .. i - 1
  <2>2. Len(v) \in Nat /\ i \in 1 .. Len(v)
      BY Zenon, <1>1, <1>4
  <2>3. j \in 1 .. Len(v) /\ j < i
      BY <2>1, <2>2
  <2>4. end(v[j]) <= v[i].pos
      BY <2>2, <2>3, BlocksInOrder
  <2>. QED  BY <2>3, <2>4, BlockTypes
<1>13. mm.end = e
  <2>1. e <= mm.end
      BY <1>8, <1>10, <1>11
  <2>2. PICK x \in BlocksOf(w) : end(x) = mm.end
      BY <1>11
  <2>3. CASE x = sb
      BY <1>8, <2>2, <2>3
  <2>4. CASE x # sb
    <3>1. PICK j \in 1 .. i - 1 : x = v[j]
        BY <1>10, <2>4
    <3>. QED  BY <1>2, <1>4, <1>6, <1>11, <1>12, <2>1, <2>2, <3>1
  <2>. QED  BY <2>3, <2>4
<1>14. mm.cuts = {c \in m.cuts : c < e}
  <2>1. ASSUME NEW c \in mm.cuts  PROVE  c \in m.cuts /\ c < e
    <3>1. PICK x \in BlocksOf(w) : c = x.pos
        BY <1>11
    <3>2. CASE x = sb
        BY <1>1, <1>4, <1>8, <3>1, <3>2
    <3>3. CASE x # sb
      <4>1. PICK j \in 1 .. i - 1 : x = v[j]
          BY <1>10, <3>3
      <4>2. c < v[i].pos /\ c \in m.cuts
          BY <1>1, <1>6, <1>12, <3>1, <4>1
      <4>. QED  BY <1>2, <1>4, <1>6, <1>12, <3>1, <4>1, <4>2
    <3>. QED  BY <3>2, <3>3
  <2>2. ASSUME NEW c \in m.cuts, c < e  PROVE  c \in mm.cuts
    <3>1. PICK j \in 1 .. Len(v) : c = v[j].pos
        BY <1>1
    <3>2. j <= i
        BY <1>4, <2>2, <3>1
    <3>3. CASE j = i
        BY <1>8, <1>10, <1>11, <3>1, <3>3
    <3>4. CASE j # i
      <4>1. j \in 1 .. i - 1
          BY <1>4, <3>2, <3>4
      <4>2. v[j] \in BlocksOf(w)
          BY <1>10, <4>1
      <4>. QED  BY <1>11, <3>1, <4>2
    <3>. QED  BY <3>3, <3>4
  <2>. QED  BY <2>1, <2>2
<1>15. ASSUME NEW p \in 0 .. e - 1  PROVE  mm.st[p] = m.st[p]
  <2>1. p \in Nat /\ p \in 0 .. mm.end - 1
      BY <1>2, <1>13
  <2>2. PICK x \in BlocksOf(w) : includes_pos(x, p)
      BY <1>11, <2>1
  <2>3. mm.st[p] = x.st
      BY <1>11, <2>1, <2>2
  <2>4. CASE x = sb
    <3>1. includes_pos(v[i], p)
        BY <1>2, <1>6, <1>7, <1>8, <2>1, <2>2, <2>4 DEF includes_pos
    <3>2. m.st[p] = v[i].st
        BY <1>0, <1>4, <2>1, <3>1
    <3>. QED  BY <1>8, <2>3, <2>4, <3>2
  <2>5. CASE x # sb
    <3>1. PICK j \in 1 .. i - 1 : x = v[j]
        BY <1>10, <2>5
    <3>2. m.st[p] = v[j].st
        BY <1>0, <1>12, <2>1, <2>2, <3>1
    <3>. QED  BY <2>3, <3>1, <3>2
  <2>. QED  BY <2>4, <2>5
<1>16. mm.st = [p \in 0 .. e - 1 |-> m.st[p]]
  <2> DEFINE f == mm.st
  <2>1. f = [p \in 0 .. e - 1 |-> f[p]]
      BY Zenon, <1>11, <1>13
  <2>2. \A p \in 0 .. e - 1 : f[p] = m.st[p]
      BY <1>15
  <2> HIDE DEF f, m
  <2>3. f = [p \in 0 .. e - 1 |-> m.st[p]]
      BY <2>1, <2>2
  <2>. QED  BY Zenon, <2>3 DEF f
<1>17. BM!truncate_vector(m, e) =
         [end |-> e, cuts |-> {c \in m.cuts : c < e}, st |-> [p \in 0 .. e - 1 |-> m.st[p]]]
  <2>1. BM!Smaller(m.end, e) = e
      BY <1>1, <1>2 DEF BM!Smaller
  <2>. QED  BY Zenon, <2>1 DEF BM!truncate_vector
<1>18. mm = BM!truncate_vector(m, e)
    BY Zenon, <1>11, <1>13, <1>14, <1>16, <1>17
<1>19. BM!Truncatable(m, e)
  <2>1. ASSUME NEW p \in 0 .. m.end - 1, p >= e  PROVE  m.st[p] # "finished"
    <3>1. PICK j \in 1 .. Len(v) : includes_pos(v[j], p)
        BY AbsIs
    <3>2. p \in Nat
        BY <1>1
    <3>3. m.st[p] = v[j].st
        BY <1>0, <3>1, <3>2
    <3>4. j >= i
      <4>1. SUFFICES ASSUME ~(j >= i) PROVE FALSE
          OBVIOUS
      <4>2. j \in 1 .. i - 1
          BY <1>1, <1>4, <4>1
      <4>. QED  BY <1>2, <1>4, <1>6, <1>12, <2>1, <3>1, <3>2, <4>2 DEF includes_pos
    <3>5. CASE j = i
      <4>1. includes_pos(v[i], e)
          BY <1>2, <1>4, <1>6, <2>1, <3>1, <3>2, <3>5 DEF includes_pos
      <4>. QED  BY <1>4, <1>5, <3>3, <3>5, <4>1
    <3>6. CASE j # i
      <4>1. j \in i + 1 .. Len(v)
          BY <1>1, <1>4, <3>4, <3>6
      <4>. QED  BY <1>5, <3>3, <4>1
    <3>. QED  BY <3>5, <3>6
  <2> HIDE DEF m
  <2>. QED  BY <2>1 DEF BM!Truncatable, BM!Positions
<1>. QED  BY Zenon, <1>18, <1>19 DEF w, r


-----------------------------------------------------------------------------
(***************************************************************************)
(* The steps of a run.                                                     *)
(***************************************************************************)

\* A chunk in a block of the domain may be changed.
LEMMA ChunkCanChange ==
  ASSUME NEW v, IsVector(v), NEW i \in 1 .. Len(v), NEW d, IsDomain(d),
         NEW b, IsChunk(b), b.size > 0, includes(v[i], b), InDomain(d, v[i])
  PROVE  /\ AsChunk(b).pos \in 0 .. Abs(v).end - 1 /\ AsChunk(b).end \in 1 .. Abs(v).end
         /\ AsChunk(b).pos < AsChunk(b).end
         /\ AsChunk(b) = [pos |-> AsChunk(b).pos, end |-> AsChunk(b).end]
         /\ BM!Chunk(AsChunk(b)) \subseteq BM!Block(Abs(v), b.pos)
         /\ BM!CanChange(Abs(v), InDomains(d), AsChunk(b))
<1> DEFINE m == Abs(v)
           dom == InDomains(d)
           k == AsChunk(b)
<1>1. /\ b.pos \in Nat /\ end(b) \in Nat /\ b.pos < end(b) /\ includes_pos(v[i], b.pos)
      /\ v[i].pos \in Nat /\ end(v[i]) \in Nat /\ v[i].pos <= b.pos /\ end(b) <= end(v[i])
      /\ k.pos = b.pos /\ k.end = end(b) /\ end(v[i]) <= m.end /\ m.end \in Nat
    BY ChunkTypes
<1>2. k = [pos |-> b.pos, end |-> end(b)]
    BY DEF AsChunk
<1>3. BM!Block(m, b.pos) = Bytes(v[i])
    BY <1>1, BlockAbs
<1>4. BM!Chunk(k) \subseteq Bytes(v[i])
    BY <1>1, <1>2 DEF BM!Chunk, Bytes
<1>5. BM!InDomain(m, b.pos, dom)
    BY <1>1, InDomainAbs
<1>6. Bytes(v[i]) \subseteq dom
    BY Zenon, <1>3, <1>5 DEF BM!InDomain
<1> HIDE DEF m, dom, k
<1>7. BM!CanChange(m, dom, k)
  <2>1. BM!Chunk(k) \subseteq dom
      BY <1>4, <1>6
  <2>2. b.pos < m.end
      BY <1>1
  <2>. QED  BY Zenon, <1>1, <1>3, <1>4, <1>5, <2>1, <2>2 DEF BM!CanChange
<1>8. k.pos \in 0 .. m.end - 1 /\ k.end \in 1 .. m.end /\ k.pos < k.end
    BY <1>1
<1>. QED  BY Zenon, <1>1, <1>2, <1>3, <1>4, <1>7, <1>8 DEF m, dom, k


\* Each step of a run is a step of AbstractMap.
LEMMA StepImplements ==
  ASSUME TypeOK, ChangeInRun
  PROVE  A!Change \/ A!Mark \/ A!Truncate
<1> DEFINE v == sblock_vector
           m == Abs(v)
           dom == InDomains(domain)
<1>1. IsVector(v) /\ IsDomain(domain)
    BY DEF TypeOK
<1>2. (ChunkStep \/ MarkStep \/ CutStep) /\ domain' = domain
    BY StepIs
<1>3. InDomains(domain)' = dom
    BY <1>2
<1>4. CASE ChunkStep
  <2>1. PICK i \in 1 .. Len(v), t \in Status : \E b :
          /\ IsChunk(b) /\ b.size > 0 /\ includes(v[i], b) /\ InDomain(domain, v[i])
          /\ v' = change_block(v, i, b, t, domain).v
      BY <1>4 DEF ChunkStep
  <2>2. PICK b :
          /\ IsChunk(b) /\ b.size > 0 /\ includes(v[i], b) /\ InDomain(domain, v[i])
          /\ v' = change_block(v, i, b, t, domain).v
      BY <2>1
  <2> DEFINE k == AsChunk(b)
  <2>3. Abs(change_block(v, i, b, t, domain).v) = BM!change_chunk(m, dom, k, t)
      BY <1>1, <2>2, ChangeIsAbstract
  <2>4. Abs(v)' = BM!change_chunk(m, dom, k, t)
      BY Zenon, <2>2, <2>3
  <2>5. /\ k.pos \in 0 .. m.end - 1 /\ k.end \in 1 .. m.end /\ k.pos < k.end
        /\ k = [pos |-> k.pos, end |-> k.end] /\ BM!CanChange(m, dom, k)
      BY <1>1, <2>2, ChunkCanChange
  <2>6. A!CanChange(m, dom, k)
      BY Zenon, <2>5 DEF BM!CanChange, A!CanChange, BM!Chunk, A!Chunk, BM!InDomain, A!InDomain,
                  BM!Block, A!Block, BM!Positions, A!Positions, BM!SameBlock, A!SameBlock
  <2>7. Abs(v)' = A!change_chunk(m, dom, k, t)
      BY Zenon, <2>4 DEF BM!change_chunk, A!change_chunk, BM!JoinsLeft, A!JoinsLeft,
                  BM!JoinsRight, A!JoinsRight, BM!Joins, A!Joins, BM!Borders, A!Borders,
                  BM!Chunk, A!Chunk, BM!InDomain, A!InDomain,
                  BM!Block, A!Block, BM!Positions, A!Positions, BM!SameBlock, A!SameBlock
  <2>8. t \in A!Status
      BY Zenon DEF Status, BM!Status, A!Status
  <2>9. A!Changed(m, Abs(v)', dom)
    <3> DEFINE p == k.pos
               e == k.end
    <3>1. /\ p \in A!Positions(m) /\ e \in 1 .. m.end /\ p < e
          /\ A!CanChange(m, dom, [pos |-> p, end |-> e])
          /\ Abs(v)' = A!change_chunk(m, dom, [pos |-> p, end |-> e], t)
        BY Zenon, <2>5, <2>6, <2>7 DEF A!Positions
    <3> HIDE DEF p, e, m, dom
    <3>. QED  BY Zenon, <2>8, <3>1 DEF A!Changed
  <2>. QED  BY Zenon, <1>3, <2>9 DEF A!Change
<1>5. CASE MarkStep
  <2>1. PICK i \in 1 .. Len(v), t \in Status : v' = change_sblock_status(v, i, t)
      BY <1>5 DEF MarkStep
  <2>2. /\ v[i].pos \in m.cuts
        /\ Abs(change_sblock_status(v, i, t)) = BM!change_sblock_status(m, v[i].pos, t)
      BY <1>1, MarkIsAbstract
  <2>3. Abs(v)' = A!change_sblock_status(m, v[i].pos, t)
      BY Zenon, <2>1, <2>2 DEF BM!change_sblock_status, A!change_sblock_status,
           BM!Block, A!Block, BM!Positions, A!Positions, BM!SameBlock, A!SameBlock
  <2>4. t \in A!Status
      BY Zenon DEF Status, BM!Status, A!Status
  <2>5. A!Marked(m, Abs(v)')
    <3> HIDE DEF m
    <3>. QED  BY Zenon, <2>2, <2>3, <2>4 DEF A!Marked
  <2>. QED  BY Zenon, <1>3, <2>5 DEF A!Mark
<1>6. CASE CutStep
  <2>1. PICK e \in Positions \ {0} :
          /\ truncate_vector(v, e, FALSE).ok
          /\ v' = truncate_vector(v, e, FALSE).v
      BY <1>6 DEF CutStep
  <2>2. e \in (0 .. m.end - 1) \ {0}
    <3>1. Positions = 0 .. m.end - 1
        BY Zenon, <1>1, PositionTypes, AbsIs
    <3>. QED  BY Zenon, <2>1, <3>1
  <2>3. /\ BM!Truncatable(m, e)
        /\ Abs(truncate_vector(v, e, FALSE).v) = BM!truncate_vector(m, e)
      BY <1>1, <2>1, <2>2, CutOffIsAbstract
  <2>4. Abs(v)' = A!truncate_vector(m, e)
      BY Zenon, <2>1, <2>3 DEF BM!truncate_vector, A!truncate_vector, BM!Smaller, A!Smaller
  <2>5. A!Truncatable(m, e) /\ e \in A!Positions(m)
      BY Zenon, <2>2, <2>3 DEF BM!Truncatable, A!Truncatable, BM!Positions, A!Positions
  <2>6. A!Truncated(m, Abs(v)')
    <3> HIDE DEF m
    <3>. QED  BY Zenon, <2>4, <2>5 DEF A!Truncated
  <2>. QED  BY Zenon, <1>3, <2>6 DEF A!Truncate
<1>. QED  BY <1>2, <1>4, <1>5, <1>6

-----------------------------------------------------------------------------
(***************************************************************************)
(* The count of bad areas.                                                 *)
(***************************************************************************)

\* The facts about a map and a chunk in the terms of BlockMapProofs.
LEMMA ChunkIsReady ==
  ASSUME NEW v, IsVector(v), NEW i \in 1 .. Len(v), NEW d, IsDomain(d),
         NEW b, IsChunk(b), b.size > 0, includes(v[i], b), InDomain(d, v[i])
  PROVE  /\ B!IsMap(Abs(v)) /\ B!Uniform(Abs(v)) /\ B!IsChunk(AsChunk(b))
         /\ B!Ready(Abs(v), InDomains(d), AsChunk(b), v[i].st)
<1> DEFINE m == Abs(v)
           dom == InDomains(d)
           k == AsChunk(b)
<1>1. B!IsMap(m) /\ B!Uniform(m)
  <2>1. BM!IsMap(m) /\ BM!Uniform(m)
      BY AbsIsMap
  <2>. QED  BY Zenon, <2>1 DEF BM!IsMap, B!IsMap, BM!Uniform, B!Uniform, BM!SameBlock, B!SameBlock,
                 BM!Positions, B!Positions, BM!Status, B!Status
<1>2. /\ b.pos \in Nat /\ end(b) \in Nat /\ b.pos < end(b)
      /\ v[i].pos \in Nat /\ end(v[i]) \in Nat /\ v[i].pos <= b.pos /\ end(b) <= end(v[i])
      /\ k.pos = b.pos /\ k.end = end(b) /\ end(v[i]) <= m.end /\ m.end \in Nat
    BY ChunkTypes
<1>3. B!IsChunk(k)
  <2>1. k = [pos |-> b.pos, end |-> end(b)]
      BY DEF AsChunk
  <2> HIDE DEF k
  <2>2. k \in [pos : Nat, end : Nat]
      BY <1>2, <2>1
  <2>. QED  BY Zenon, <2>2 DEF B!IsChunk
<1>4. /\ BM!Chunk(k) \subseteq BM!Block(m, b.pos)
      /\ BM!CanChange(m, dom, k)
    BY ChunkCanChange
<1>5. BM!Chunk(k) \subseteq dom
    BY Zenon, <1>4 DEF BM!CanChange
<1>6. \A p \in BM!Chunk(k) : m.st[p] = v[i].st
  <2>1. TAKE p \in BM!Chunk(k)
  <2>2. p \in k.pos .. k.end - 1
      BY Zenon, <2>1 DEF BM!Chunk
  <2> HIDE DEF k, m
  <2>3. p \in Nat /\ includes_pos(v[i], p)
      BY <1>2, <2>2 DEF includes_pos
  <2>. QED  BY Zenon, <2>3, AbsStatus DEF m
<1>7. k.pos < k.end /\ k.end <= m.end
    BY <1>2
<1>8. B!Ready(m, dom, k, v[i].st)
  <2>1. /\ k.pos < k.end /\ k.end <= m.end
        /\ BM!Chunk(k) \subseteq dom /\ BM!Chunk(k) \subseteq BM!Block(m, k.pos)
        /\ \A p \in BM!Chunk(k) : m.st[p] = v[i].st
      BY Zenon, <1>2, <1>4, <1>5, <1>6, <1>7
  <2>. QED  BY Zenon, <2>1 DEF B!Ready, BM!Chunk, B!Chunk, BM!Block, B!Block, BM!Positions,
                 B!Positions, BM!SameBlock, B!SameBlock
<1>. QED  BY Zenon, <1>1, <1>3, <1>8


\* A step keeps the blocks split by the domain.
LEMMA StepKeepsSplit ==
  ASSUME TypeOK, ChangeInRun, A!Sound(Abs(sblock_vector), InDomains(domain))
  PROVE  A!Sound(Abs(sblock_vector), InDomains(domain))'
<1> DEFINE v == sblock_vector
           m == Abs(v)
           dom == InDomains(domain)
<1>1. IsVector(v) /\ IsDomain(domain)
    BY DEF TypeOK
<1>2. (ChunkStep \/ MarkStep \/ CutStep) /\ domain' = domain
    BY StepIs
<1>3. InDomains(domain)' = dom
    BY <1>2
<1>4. BM!IsMap(m) /\ BM!Uniform(m)
    BY <1>1, AbsIsMap
<1>5. B!IsMap(m) /\ B!Uniform(m)
    BY Zenon, <1>4 DEF BM!IsMap, B!IsMap, BM!Uniform, B!Uniform, BM!SameBlock, B!SameBlock,
         BM!Positions, B!Positions, BM!Status, B!Status
<1>6. B!SplitByDomain(m, dom)
    BY Zenon DEF A!Sound, A!SplitByDomain, B!SplitByDomain, A!SameBlock, B!SameBlock,
         A!Positions, B!Positions
<1>7. SUFFICES B!Uniform(m') /\ B!SplitByDomain(m', dom)
    BY Zenon, <1>3 DEF A!Sound, A!SplitByDomain, B!SplitByDomain, A!SameBlock, B!SameBlock,
         A!Positions, B!Positions, A!Uniform, B!Uniform
<1>8. CASE ChunkStep
  <2>1. PICK i \in 1 .. Len(v), t \in Status : \E b :
          /\ IsChunk(b) /\ b.size > 0 /\ includes(v[i], b) /\ InDomain(domain, v[i])
          /\ v' = change_block(v, i, b, t, domain).v
      BY <1>8 DEF ChunkStep
  <2>2. PICK b :
          /\ IsChunk(b) /\ b.size > 0 /\ includes(v[i], b) /\ InDomain(domain, v[i])
          /\ v' = change_block(v, i, b, t, domain).v
      BY <2>1
  <2> DEFINE k == AsChunk(b)
  <2>3. Abs(change_block(v, i, b, t, domain).v) = BM!change_chunk(m, dom, k, t)
      BY <1>1, <2>2, ChangeIsAbstract
  <2>4. m' = B!change_chunk(m, dom, k, t)
      BY Zenon, <2>2, <2>3 DEF BM!change_chunk, B!change_chunk, BM!JoinsLeft, B!JoinsLeft,
                  BM!JoinsRight, B!JoinsRight, BM!Joins, B!Joins, BM!Borders, B!Borders,
                  BM!Chunk, B!Chunk, BM!InDomain, B!InDomain,
                  BM!Block, B!Block, BM!Positions, B!Positions, BM!SameBlock, B!SameBlock
  <2>5. B!IsChunk(k) /\ B!Ready(m, dom, k, v[i].st)
      BY <1>1, <2>2, ChunkIsReady
  <2>6. t \in B!Status
      BY Zenon DEF Status, BM!Status, B!Status
  <2> HIDE DEF m, dom, k
  <2>7. B!Uniform(B!change_chunk(m, dom, k, t)) /\ B!SplitByDomain(B!change_chunk(m, dom, k, t), dom)
      BY Zenon, <1>5, <1>6, <2>5, <2>6, B!ChangeChunkSound
  <2>. QED  BY Zenon, <2>4, <2>7
<1>9. CASE MarkStep
  <2>1. PICK i \in 1 .. Len(v), t \in Status : v' = change_sblock_status(v, i, t)
      BY <1>9 DEF MarkStep
  <2>2. Abs(change_sblock_status(v, i, t)) = BM!change_sblock_status(m, v[i].pos, t)
      BY <1>1, MarkIsAbstract
  <2>3. m' = B!change_sblock_status(m, v[i].pos, t)
      BY Zenon, <2>1, <2>2 DEF BM!change_sblock_status, B!change_sblock_status,
           BM!Block, B!Block, BM!Positions, B!Positions, BM!SameBlock, B!SameBlock
  <2>4. t \in B!Status
      BY Zenon DEF Status, BM!Status, B!Status
  <2> DEFINE c == v[i].pos
  <2> HIDE DEF m, dom, c
  <2>5. B!Uniform(B!change_sblock_status(m, c, t))
        /\ B!SplitByDomain(B!change_sblock_status(m, c, t), dom)
      BY Zenon, <1>5, <1>6, <2>4, B!ChangeSblockSound
  <2>. QED  BY Zenon, <2>3, <2>5 DEF c
<1>10. CASE CutStep
  <2>1. PICK e \in Positions \ {0} :
          /\ truncate_vector(v, e, FALSE).ok
          /\ v' = truncate_vector(v, e, FALSE).v
      BY <1>10 DEF CutStep
  <2>2. e \in (0 .. m.end - 1) \ {0} /\ e \in Nat
    <3>1. Positions = 0 .. m.end - 1
        BY Zenon, <1>1, PositionTypes, AbsIs
    <3>2. e \in Nat
        BY <1>1, <2>1, PositionTypes
    <3>. QED  BY Zenon, <2>1, <3>1, <3>2
  <2>3. Abs(truncate_vector(v, e, FALSE).v) = BM!truncate_vector(m, e)
      BY <1>1, <2>1, <2>2, CutOffIsAbstract
  <2>4. m' = B!truncate_vector(m, e)
      BY Zenon, <2>1, <2>3 DEF BM!truncate_vector, B!truncate_vector, BM!Smaller, B!Smaller
  <2> HIDE DEF m, dom
  <2>5. B!Uniform(B!truncate_vector(m, e)) /\ B!SplitByDomain(B!truncate_vector(m, e), dom)
      BY Zenon, <1>5, <1>6, <2>2, B!TruncateSound
  <2>. QED  BY Zenon, <2>4, <2>5
<1>. QED  BY <1>2, <1>8, <1>9, <1>10


LEMMA AssignIs ==
  ASSUME NEW p \in Nat, p < LLONG_MAX, NEW n \in Nat \ {0}
  PROVE  IsChunk(assign(p, n)) /\ assign(p, n).pos = p /\ assign(p, n).size > 0
<1>1. LLONG_MAX \in Nat
    BY LimitAssumption
<1> DEFINE c == [pos |-> max(p, 0), size |-> IF p < 0 /\ n > 0 THEN n - min(n, -p) ELSE n]
<1>2. assign(p, n) = fix_size(c)
    BY DEF assign
<1>3. c = [pos |-> p, size |-> n]
    BY DEF max, BM!Larger
<1> HIDE DEF c
<1>4. CASE c.size < 0 \/ c.size > LLONG_MAX - c.pos
  <2>1. fix_size(c) = [c EXCEPT !.size = LLONG_MAX - c.pos]
      BY <1>4 DEF fix_size
  <2>2. fix_size(c) = [pos |-> p, size |-> LLONG_MAX - p]
      BY <1>3, <2>1
  <2>3. LLONG_MAX - p \in Nat /\ LLONG_MAX - p > 0
      BY <1>1
  <2>. QED  BY <1>2, <2>2, <2>3 DEF IsChunk
<1>5. CASE ~(c.size < 0 \/ c.size > LLONG_MAX - c.pos)
  <2>1. fix_size(c) = c
      BY <1>5 DEF fix_size
  <2>. QED  BY <1>2, <1>3, <2>1 DEF IsChunk
<1>. QED  BY <1>4, <1>5


\* The two copies of the count of bad areas are one.
LEMMA SameAreas ==
  ASSUME NEW m, NEW dom  PROVE BM!AreasOf(m, dom) = B!AreasOf(m, dom)
<1>1. ASSUME NEW p  PROVE BM!BadBlock(m, dom, p) <=> B!BadBlock(m, dom, p)
    BY Zenon DEF BM!BadBlock, B!BadBlock, BM!InDomain, B!InDomain,
         BM!is_good_status, B!is_good_status,
         BM!Block, B!Block, BM!Positions, B!Positions, BM!SameBlock, B!SameBlock
<1> DEFINE One == {c \in m.cuts : BM!BadBlock(m, dom, c) /\ (c = 0 \/ ~BM!BadBlock(m, dom, c - 1))}
           Other == {c \in m.cuts : B!BadBlock(m, dom, c) /\ (c = 0 \/ ~B!BadBlock(m, dom, c - 1))}
<1>2. BM!AreasOf(m, dom) = BM!Cardinality(One) /\ B!AreasOf(m, dom) = B!Cardinality(Other)
    BY Zenon DEF BM!AreasOf, B!AreasOf
<1>3. One = Other
  <2>1. ASSUME NEW c  PROVE c \in One <=> c \in Other
      BY Zenon, <1>1
  <2> HIDE DEF One, Other
  <2>. QED  BY <2>1
<1>4. ASSUME NEW S  PROVE BM!Cardinality(S) = B!Cardinality(S)
    BY Zenon DEF BM!Cardinality, B!Cardinality
<1>. QED  BY Zenon, <1>2, <1>3, <1>4


\* What the change of a part of a block adds to the number of bad areas.
LEMMA ChangeCountsAreas ==
  ASSUME NEW v, IsVector(v), NEW i \in 1 .. Len(v), NEW d, IsDomain(d),
         NEW b, IsChunk(b), b.size > 0, includes(v[i], b), InDomain(d, v[i]),
         NEW s \in Status, B!SplitByDomain(Abs(v), InDomains(d))
  PROVE  BM!AreasOf(Abs(change_block(v, i, b, s, d).v), InDomains(d)) =
           BM!AreasOf(Abs(v), InDomains(d)) + change_block(v, i, b, s, d).adjust
<1> DEFINE m == Abs(v)
           dom == InDomains(d)
           k == AsChunk(b)
           c == change_block(v, i, b, s, d)
           mm == Abs(c.v)
           Areas(x) == B!AreasOf(x, dom)
<1>1. BM!AreasOf(m, dom) = Areas(m) /\ BM!AreasOf(mm, dom) = Areas(mm)
    BY Zenon, SameAreas
<1>2. B!IsMap(m) /\ B!Uniform(m) /\ B!IsChunk(k) /\ B!Ready(m, dom, k, v[i].st)
    BY ChunkIsReady
<1>3. CASE s = v[i].st
  <2>1. c.v = v /\ c.adjust = 0
      BY <1>3 DEF change_block
  <2>2. Areas(m) \in Nat
    <3> HIDE DEF m, dom
    <3>. QED  BY <1>2, B!CountsAreInts
  <2>3. mm = m
      BY Zenon, <2>1
  <2> HIDE DEF m, mm, c, dom, Areas
  <2>4. Areas(mm) = Areas(m) + c.adjust
      BY <2>1, <2>2, <2>3
  <2>. QED  BY Zenon, <1>1, <2>4 DEF m, mm, c, dom
<1>4. CASE s # v[i].st
  <2>1. mm = B!change_chunk(m, dom, k, s)
    <3>1. mm = BM!change_chunk(m, dom, k, s)
        BY ChangeIsAbstract
    <3>. QED  BY Zenon, <3>1 DEF BM!change_chunk, B!change_chunk, BM!JoinsLeft, B!JoinsLeft,
                  BM!JoinsRight, B!JoinsRight, BM!Joins, B!Joins, BM!Borders, B!Borders,
                  BM!Chunk, B!Chunk, BM!InDomain, B!InDomain,
                  BM!Block, B!Block, BM!Positions, B!Positions, BM!SameBlock, B!SameBlock
  <2>2. c.adjust = B!area_adjust(m, dom, k, s)
    <3>1. c.adjust = BM!area_adjust(m, dom, k, s)
        BY AdjustIsAbstract
    <3>. QED  BY Zenon, <3>1 DEF BM!area_adjust, B!area_adjust, BM!GoodBefore, B!GoodBefore,
                  BM!GoodAfter, B!GoodAfter, BM!GoodAt, B!GoodAt, BM!InDomain, B!InDomain,
                  BM!is_good_status, B!is_good_status,
                  BM!Block, B!Block, BM!Positions, B!Positions, BM!SameBlock, B!SameBlock
  <2>3. s \in B!Status
      BY Zenon DEF Status, BM!Status, B!Status
  <2>4. B!SplitByDomain(m, dom) /\ v[i].st # s
      BY Zenon, <1>4
  <2> DEFINE old == v[i].st
  <2> HIDE DEF m, dom, k, mm, c, old
  <2>5. B!AreasOf(B!change_chunk(m, dom, k, s), dom) =
          B!AreasOf(m, dom) + B!area_adjust(m, dom, k, s)
    <3>1. B!Ready(m, dom, k, old) /\ old # s
        BY Zenon, <1>2, <2>4 DEF old
    <3>. QED  BY Zenon, <1>2, <2>3, <2>4, <3>1, B!ChangeChunkAreas
  <2>. QED  BY Zenon, <1>1, <2>1, <2>2, <2>5 DEF m, mm, c, dom
<1>. QED  BY <1>3, <1>4


LEMMA AdjustIsExact ==
  ASSUME TypeOK, A!Sound(Abs(sblock_vector), InDomains(domain))  PROVE  AdjustExact
<1> DEFINE v == sblock_vector
           m == Abs(v)
           dom == InDomains(domain)
<1>1. IsVector(v) /\ IsDomain(domain) /\ index_ \in Int
    BY DEF TypeOK
<1>2. B!SplitByDomain(m, dom)
    BY Zenon DEF A!Sound, A!SplitByDomain, B!SplitByDomain, A!SameBlock, B!SameBlock,
         A!Positions, B!Positions
<1>3. m.end \in Nat /\ m.end <= LLONG_MAX /\ LLONG_MAX \in Nat
  <2>1. Len(v) \in 1 .. Len(v) /\ m.end = end(v[Len(v)]) /\ m.end \in Nat
    <3>1. Len(v) \in 1 .. Len(v)
        BY <1>1, VectorTypes
    <3>. QED  BY Zenon, <1>1, <3>1, AbsIs
  <2>2. end(v[Len(v)]) <= LLONG_MAX
      BY <1>1, <2>1, BlockTypes
  <2>. QED  BY <2>1, <2>2, LimitAssumption
<1>4. ASSUME NEW p \in 0 .. m.end - 1, NEW len \in Lengths,
             CanChange(v, index_, assign(p, len), domain), NEW s \in Status
      PROVE  LET c == change_chunk_status(v, index_, assign(p, len), s, domain)
             IN  BM!AreasOf(Abs(c.v), dom) = BM!AreasOf(m, dom) + c.adjust
  <2> DEFINE b == assign(p, len)
             i == find_index(v, index_, b.pos)
             c == change_chunk_status(v, index_, b, s, domain)
  <2>1. IsChunk(b) /\ b.pos = p /\ b.size > 0
    <3>1. p \in Nat /\ p < LLONG_MAX
        BY <1>3
    <3>2. len \in Nat \ {0}
        BY SizesAssumption DEF Lengths
    <3>. QED  BY <3>1, <3>2, AssignIs
  <2>2. i > 0 /\ InDomain(domain, v[i]) /\ includes(v[i], b)
      BY Zenon, <1>4 DEF CanChange
  <2> HIDE DEF b, c
  <2>3. i \in 1 .. Len(v)
    <3>1. b.pos \in Int
        BY <1>3, <2>1
    <3>2. i \in 0 .. Len(v) /\ Len(v) \in Nat
        BY <1>1, <3>1, FindIndex, VectorTypes
    <3> HIDE DEF i
    <3>. QED  BY <2>2, <3>2
  <2>4. c = change_block(v, i, b, s, domain)
    <3>1. ~(b.size <= 0)
        BY <2>1 DEF IsChunk
    <3>. QED  BY Zenon, <3>1 DEF c, change_chunk_status
  <2> HIDE DEF i
  <2>5. BM!AreasOf(Abs(change_block(v, i, b, s, domain).v), dom) =
          BM!AreasOf(m, dom) + change_block(v, i, b, s, domain).adjust
      BY Zenon, <1>1, <1>2, <2>1, <2>2, <2>3, ChangeCountsAreas
  <2>. QED  BY Zenon, <2>4, <2>5 DEF b, c
<1>. QED  BY Zenon, <1>4 DEF AdjustExact

-----------------------------------------------------------------------------
(***************************************************************************)
(* Searching a chunk.                                                      *)
(***************************************************************************)

LEMMA ChunkChanged ==
  ASSUME NEW p, NEW n, NEW q, NEW k
  PROVE  [[pos |-> p, size |-> n] EXCEPT !.pos = q, !.size = k] = [pos |-> q, size |-> k]
<1>1. [[pos |-> p, size |-> n] EXCEPT !.pos = q] = [pos |-> q, size |-> n]
    OBVIOUS
<1>2. [[pos |-> q, size |-> n] EXCEPT !.size = k] = [pos |-> q, size |-> k]
    OBVIOUS
<1>. QED  BY <1>1, <1>2


LEMMA AssignExact ==
  ASSUME NEW p \in Nat, p < LLONG_MAX, NEW n \in Nat \ {0}
  PROVE  assign(p, n) = [pos |-> p, size |-> min(n, LLONG_MAX - p)]
<1>1. LLONG_MAX \in Nat
    BY LimitAssumption
<1> DEFINE c == [pos |-> max(p, 0), size |-> IF p < 0 /\ n > 0 THEN n - min(n, -p) ELSE n]
           l == LLONG_MAX - p
<1>2. assign(p, n) = fix_size(c)
    BY DEF assign
<1>3. c = [pos |-> p, size |-> n]
    BY DEF max, BM!Larger
<1> HIDE DEF c
<1>4. fix_size(c) = IF c.size < 0 \/ c.size > LLONG_MAX - c.pos
                    THEN [c EXCEPT !.size = LLONG_MAX - c.pos] ELSE c
    BY Zenon DEF fix_size
<1>5. fix_size(c) = IF n > l THEN [pos |-> p, size |-> l] ELSE [pos |-> p, size |-> n]
    BY <1>3, <1>4
<1>6. min(n, l) = IF n <= l THEN n ELSE l
    BY Zenon DEF min, BM!Smaller
<1> HIDE DEF l
<1>7. l \in Int
    BY <1>1 DEF l
<1>8. CASE n <= l
  <2>1. ~(n > l)
      BY <1>7, <1>8
  <2>. QED  BY Zenon, <1>2, <1>5, <1>6, <1>8, <2>1 DEF l
<1>9. CASE ~(n <= l)
  <2>1. n > l
      BY <1>7, <1>9
  <2>. QED  BY Zenon, <1>2, <1>5, <1>6, <1>9, <2>1 DEF l
<1>. QED  BY <1>8, <1>9


\* The part of a block from p on, of len positions at most: the saturation of the
\* chunk at LLONG_MAX does not show, since the block ends before.
LEMMA PartFromIs ==
  ASSUME NEW p \in Nat, NEW len \in Nat \ {0}, NEW x, GoodBlock(x), p < end(x)
  PROVE  LET q == max(p, x.pos)
             e == min(q + len, end(x))
         IN  /\ PartFrom(assign(p, len), x) = [pos |-> q, size |-> e - q]
             /\ q \in Nat /\ e \in Nat /\ q < e /\ x.pos <= q /\ e <= end(x)
<1> DEFINE q == max(p, x.pos)
           e == min(q + len, end(x))
           n == min(len, LLONG_MAX - q)
           c == [pos |-> q, size |-> n]
<1>1. /\ x.pos \in Nat /\ x.size \in Nat /\ end(x) = x.pos + x.size /\ end(x) \in Nat
      /\ end(x) <= LLONG_MAX /\ LLONG_MAX \in Nat /\ x.size > 0
    BY LimitAssumption DEF GoodBlock, Blocks, end
<1>2. q \in Nat /\ p <= q /\ x.pos <= q /\ q < end(x) /\ (q = p \/ q = x.pos) /\ (p < x.pos => q = x.pos)
      /\ (~(p < x.pos) => q = p)
    BY <1>1 DEF max, BM!Larger
<1>3. n \in Nat /\ n > 0 /\ n <= len /\ q + n <= LLONG_MAX /\ (n = len \/ q + n = LLONG_MAX)
    BY <1>1, <1>2 DEF min, BM!Smaller
<1>4. e \in Nat /\ q < e /\ e <= end(x) /\ (q + n <= end(x) => e = q + n)
      /\ (~(q + n <= end(x)) => e = end(x))
  <2> HIDE DEF n, q
  <2>. QED  BY <1>1, <1>2, <1>3 DEF min, BM!Smaller
<1>5. assign(p, len) = [pos |-> p, size |-> min(len, LLONG_MAX - p)]
    BY <1>1, AssignExact
<1>6. (IF assign(p, len).pos < x.pos THEN set_pos(assign(p, len), x.pos) ELSE assign(p, len)) = c
  <2>1. CASE p < x.pos
    <3> DEFINE n0 == min(len, LLONG_MAX - p)
    <3>1. set_pos([pos |-> p, size |-> n0], x.pos) =
                 [pos |-> max(x.pos, 0), size |-> min(n0, LLONG_MAX - max(x.pos, 0))]
      <4> DEFINE y == [pos |-> p, size |-> n0]
      <4>1. y.size = n0
          OBVIOUS
      <4>2. set_pos(y, x.pos) = [y EXCEPT !.pos = max(x.pos, 0),
                                          !.size = min(y.size, LLONG_MAX - max(x.pos, 0))]
          BY Zenon DEF set_pos
      <4>. QED  BY Zenon, <4>1, <4>2, ChunkChanged
    <3>2. max(x.pos, 0) = q
        BY <1>1, <1>2, <2>1 DEF max, BM!Larger
    <3>3. min(n0, LLONG_MAX - q) = n
        BY <1>1, <1>2, <2>1 DEF min, BM!Smaller
    <3> HIDE DEF n0, q, n
    <3>4. set_pos([pos |-> p, size |-> n0], x.pos) = c
        BY <3>1, <3>2, <3>3
    <3>. QED  BY <1>5, <2>1, <3>4 DEF n0
  <2>2. CASE ~(p < x.pos)
    <3>1. q = p
        BY <1>2, <2>2
    <3>2. c = assign(p, len)
        BY Zenon, <1>5, <3>1
    <3>3. assign(p, len).pos = p
        BY <1>5
    <3>. QED  BY Zenon, <2>2, <3>2, <3>3
  <2>. QED  BY <2>1, <2>2
<1>7. PartFrom(assign(p, len), x) = Clip(c, x)
    BY Zenon, <1>6 DEF PartFrom
<1> HIDE DEF q, n, e
<1>8. c.pos = q /\ c.size = n /\ end(c) = q + n
    BY <1>2, <1>3 DEF end
<1>9. CASE q + n <= end(x)
  <2>1. includes(x, c)
      BY <1>2, <1>8, <1>9, <1>1 DEF includes
  <2>2. Clip(c, x) = c
      BY Zenon, <2>1 DEF Clip
  <2>3. e - q = n
      BY <1>2, <1>3, <1>4, <1>9
  <2>. QED  BY <1>2, <1>4, <1>7, <2>2, <2>3 DEF q, e
<1>10. CASE ~(q + n <= end(x))
  <2>1. ~includes(x, c)
      BY <1>2, <1>8, <1>10, <1>1 DEF includes
  <2>2. Clip(c, x) = crop(c, x)
      BY Zenon, <2>1 DEF Clip
  <2>3. crop(c, x) = [c EXCEPT !.pos = max(c.pos, x.pos),
                               !.size = max(0, min(end(c), end(x)) - max(c.pos, x.pos))]
      BY Zenon DEF crop
  <2>4. max(c.pos, x.pos) = q /\ min(end(c), end(x)) = e
      BY <1>1, <1>2, <1>3, <1>4, <1>8, <1>10 DEF max, BM!Larger, min, BM!Smaller
  <2>5. max(0, e - q) = e - q
      BY <1>2, <1>4 DEF max, BM!Larger
  <2>6. crop(c, x) = [c EXCEPT !.pos = q, !.size = e - q]
      BY Zenon, <2>3, <2>4, <2>5
  <2>7. [c EXCEPT !.pos = q, !.size = e - q] = [pos |-> q, size |-> e - q]
      BY Zenon, ChunkChanged
  <2>. QED  BY Zenon, <1>2, <1>4, <1>7, <2>2, <2>6, <2>7 DEF q, e
<1>. QED  BY <1>9, <1>10


\* Both align the end of a chunk to the same position.
LEMMA AlignedEndIs ==
  ASSUME NEW c, IsChunk(c), c.size > 0, NEW x, end(x) \in Nat, NEW a \in Nat \ {0}
  PROVE  AsChunks(AlignedEnd(c, x, a)) =
           {IF end(c) = end(x) THEN AsChunk(c) ELSE BM!align_end(AsChunk(c), a)}
<1> DEFINE rest == end(c) % a
           b == AsChunk(c)
           n == c.size - rest
<1>1. c.pos \in Nat /\ c.size \in Nat /\ end(c) = c.pos + c.size /\ end(c) \in Nat
      /\ b = [pos |-> c.pos, end |-> end(c)] /\ b.pos = c.pos /\ b.end = end(c)
    BY DEF IsChunk, end, AsChunk
<1>2. rest \in Nat /\ rest < a /\ (a = 1 => rest = 0)
    BY <1>1
<1>3. BM!align_end(b, a) = IF c.size > rest THEN [pos |-> c.pos, end |-> end(c) - rest] ELSE b
  <2> HIDE DEF rest, b
  <2>1. CASE b.end - b.pos > b.end % a
    <3>1. BM!align_end(b, a) = [b EXCEPT !.end = @ - (b.end % a)]
        BY Zenon, <2>1 DEF BM!align_end
    <3>2. b.end % a = rest
        BY Zenon, <1>1 DEF rest
    <3>3. c.size > rest
        BY <1>1, <1>2, <2>1, <3>2
    <3> DEFINE k == b.end - rest
    <3>4. BM!align_end(b, a) = [b EXCEPT !.end = k]
        BY Zenon, <3>1, <3>2
    <3>5. k = end(c) - rest
        BY Zenon, <1>1
    <3> HIDE DEF k
    <3>6. [b EXCEPT !.end = k] = [pos |-> c.pos, end |-> k]
        BY <1>1
    <3>. QED  BY Zenon, <3>3, <3>4, <3>5, <3>6
  <2>2. CASE ~(b.end - b.pos > b.end % a)
    <3>1. BM!align_end(b, a) = b
        BY <2>2 DEF BM!align_end
    <3>2. b.end % a = rest
        BY Zenon, <1>1 DEF rest
    <3>3. ~(c.size > rest)
        BY <1>1, <1>2, <2>2, <3>2
    <3>. QED  BY Zenon, <3>1, <3>3
  <2>. QED  BY <2>1, <2>2
<1>4. CASE end(c) # end(x) /\ a > 1 /\ c.size > rest
  <2>1. AlignedEnd(c, x, a) = [c EXCEPT !.size = n]
      BY <1>4 DEF AlignedEnd, align_end
  <2> HIDE DEF rest, b
  <2>2. n \in Nat /\ n > 0 /\ c.pos + n = end(c) - rest
      BY <1>1, <1>2, <1>4
  <2> HIDE DEF n
  <2>3. [c EXCEPT !.size = n].pos = c.pos /\ [c EXCEPT !.size = n].size = n
      BY DEF IsChunk
  <2>4. AsChunks([c EXCEPT !.size = n]) = {[pos |-> c.pos, end |-> end(c) - rest]}
      BY <2>2, <2>3 DEF AsChunks, AsChunk, end
  <2>. QED  BY Zenon, <1>3, <1>4, <2>1, <2>4 DEF b
<1>5. CASE ~(end(c) # end(x) /\ a > 1 /\ c.size > rest)
  <2>1. AlignedEnd(c, x, a) = c
      BY <1>5 DEF AlignedEnd, align_end
  <2> HIDE DEF rest, b
  <2>2. AsChunks(c) = {b}
      BY Zenon DEF AsChunks, b
  <2>3. end(c) = end(x) \/ BM!align_end(b, a) = b
    <3>1. CASE c.size > rest /\ ~(a > 1)
      <4>1. rest = 0
          BY <1>2, <3>1
      <4>2. [pos |-> c.pos, end |-> end(c) - rest] = b
          BY <1>1, <4>1
      <4>. QED  BY Zenon, <1>3, <3>1, <4>2
    <3>2. CASE ~(c.size > rest)
        BY Zenon, <1>3, <3>2
    <3>. QED  BY <1>5, <3>1, <3>2
  <2>. QED  BY Zenon, <2>1, <2>2, <2>3 DEF b
<1>. QED  BY <1>4, <1>5


\* The last block from a position down: where it ends, and its part.
LEMMA PartUpToIs ==
  ASSUME NEW t \in Nat \ {0}, NEW l \in Nat \ {0}, l <= t, NEW x, GoodBlock(x), x.pos < t
  PROVE  LET e == min(t, end(x))
             q == max(x.pos, e - l)
         IN  /\ PartUpTo([pos |-> t - l, size |-> l], x) = [pos |-> q, size |-> e - q]
             /\ q \in Nat /\ e \in Nat /\ q < e /\ x.pos <= q /\ e <= end(x)
<1> DEFINE e == min(t, end(x))
           q == max(x.pos, e - l)
           n == min(l, e)
           b == [pos |-> t - l, size |-> l]
           c == [pos |-> e - n, size |-> n]
<1>1. /\ x.pos \in Nat /\ x.size \in Nat /\ end(x) = x.pos + x.size /\ end(x) \in Nat
      /\ x.pos < end(x)
    BY DEF GoodBlock, Blocks, end
<1>2. e \in Nat /\ e <= t /\ e <= end(x) /\ x.pos < e /\ (t <= end(x) => e = t)
      /\ (~(t <= end(x)) => e = end(x))
    BY <1>1 DEF min, BM!Smaller
<1>3. n \in Nat /\ n > 0 /\ n <= l /\ n <= e /\ e - n \in Nat /\ (n = l \/ n = e) /\ (l <= e => n = l)
      /\ (~(l <= e) => n = e)
  <2> HIDE DEF e
  <2>. QED  BY <1>1, <1>2 DEF min, BM!Smaller
<1>4. q \in Nat /\ q < e /\ x.pos <= q /\ e - n <= q /\ (x.pos <= e - n => q = e - n)
      /\ (~(x.pos <= e - n) => q = x.pos)
  <2> HIDE DEF e, n
  <2>. QED  BY <1>1, <1>2, <1>3 DEF max, BM!Larger
<1>5. b.pos = t - l /\ b.size = l /\ end(b) = t /\ IsChunk(b)
    BY DEF end, IsChunk
<1>6. (IF end(b) > end(x) THEN set_end(b, end(x)) ELSE b) = c
  <2>1. CASE t > end(x)
    <3>1. e = end(x) /\ end(b) > end(x)
        BY <1>1, <1>2, <1>5, <2>1
    <3>2. set_end(b, e) = c
      <4> HIDE DEF e, n, q
      <4>1. CASE l <= e
        <5>1. set_end(b, e) = [b EXCEPT !.pos = e - l]
          <6>1. ~(e < 0) /\ b.size <= e
              BY <1>2, <1>5, <4>1
          <6> HIDE DEF b
          <6>2. set_end(b, e) = [b EXCEPT !.pos = e - b.size]
              BY <6>1 DEF set_end
          <6>. QED  BY Zenon, <1>5, <6>2
        <5>2. n = l
            BY <1>3, <4>1
        <5> DEFINE k == e - l
        <5> HIDE DEF k
        <5>3. [[pos |-> t - l, size |-> l] EXCEPT !.pos = k] = [pos |-> k, size |-> l]
            OBVIOUS
        <5>. QED  BY Zenon, <5>1, <5>2, <5>3 DEF k
      <4>2. CASE ~(l <= e)
        <5>1. set_end(b, e) = [b EXCEPT !.pos = 0, !.size = e]
          <6>1. ~(e < 0) /\ ~(b.size <= e)
              BY <1>2, <1>5, <4>2
          <6> HIDE DEF b
          <6>2. (IF e < 0 THEN LLONG_MAX ELSE e) = e
              BY Zenon, <6>1
          <6>. QED  BY Zenon, <6>1, <6>2 DEF set_end
        <5>2. n = e /\ e - n = 0
            BY <1>2, <1>3, <4>2
        <5>. QED  BY Zenon, <5>1, <5>2, ChunkChanged
      <4>. QED  BY <4>1, <4>2
    <3>. QED  BY Zenon, <3>1, <3>2
  <2>2. CASE ~(t > end(x))
    <3>1. e = t /\ ~(end(b) > end(x))
        BY <1>1, <1>2, <1>5, <2>2
    <3>2. n = l
        BY <1>3, <3>1
    <3>. QED  BY Zenon, <3>1, <3>2
  <2>. QED  BY <2>1, <2>2
<1>7. PartUpTo(b, x) = Clip(c, x)
    BY Zenon, <1>6 DEF PartUpTo
<1> HIDE DEF q, n, e, b
<1>8. c.pos = e - n /\ c.size = n /\ end(c) = e
    BY <1>2, <1>3 DEF end
<1>9. CASE x.pos <= e - n
  <2>1. includes(x, c)
      BY <1>2, <1>8, <1>9, <1>1 DEF includes
  <2>2. Clip(c, x) = c
      BY Zenon, <2>1 DEF Clip
  <2>3. e - q = n /\ q = e - n
      BY <1>2, <1>3, <1>4, <1>9
  <2>4. PartUpTo(b, x) = [pos |-> q, size |-> e - q]
      BY Zenon, <1>7, <2>2, <2>3
  <2>. QED  BY Zenon, <1>2, <1>4, <2>4 DEF q, e, b
<1>10. CASE ~(x.pos <= e - n)
  <2>1. ~includes(x, c)
      BY <1>2, <1>8, <1>10, <1>1 DEF includes
  <2>2. Clip(c, x) = crop(c, x)
      BY Zenon, <2>1 DEF Clip
  <2>3. crop(c, x) = [c EXCEPT !.pos = max(c.pos, x.pos),
                               !.size = max(0, min(end(c), end(x)) - max(c.pos, x.pos))]
      BY Zenon DEF crop
  <2>4. max(c.pos, x.pos) = q /\ min(end(c), end(x)) = e
      BY <1>1, <1>2, <1>3, <1>4, <1>8, <1>10 DEF max, BM!Larger, min, BM!Smaller
  <2>5. max(0, e - q) = e - q
      BY <1>2, <1>4 DEF max, BM!Larger
  <2>6. crop(c, x) = [c EXCEPT !.pos = q, !.size = e - q]
      BY Zenon, <2>3, <2>4, <2>5
  <2>7. [c EXCEPT !.pos = q, !.size = e - q] = [pos |-> q, size |-> e - q]
      BY Zenon, ChunkChanged
  <2>. QED  BY Zenon, <1>2, <1>4, <1>7, <2>2, <2>6, <2>7 DEF q, e, b
<1>. QED  BY <1>9, <1>10


\* Both align the begin of a chunk to the same position.
LEMMA AlignedPosIs ==
  ASSUME NEW c, IsChunk(c), c.size > 0, NEW x, x.pos \in Nat, NEW a \in Nat \ {0}
  PROVE  AsChunks(AlignedPos(c, x, a)) =
           {IF c.pos = x.pos THEN AsChunk(c) ELSE BM!align_pos(AsChunk(c), a)}
<1> DEFINE disp == a - (c.pos % a)
           b == AsChunk(c)
           p == c.pos + disp
           n == c.size - disp
<1>1. c.pos \in Nat /\ c.size \in Nat /\ end(c) = c.pos + c.size /\ end(c) \in Nat
      /\ b = [pos |-> c.pos, end |-> end(c)] /\ b.pos = c.pos /\ b.end = end(c)
    BY DEF IsChunk, end, AsChunk
<1>2. disp \in Nat /\ (a = 1 => ~(disp < a))
    BY <1>1
<1>3. BM!align_pos(b, a) = IF disp < a /\ disp < c.size
                           THEN [pos |-> p, end |-> end(c)] ELSE b
  <2> HIDE DEF disp, b
  <2>1. CASE a - (b.pos % a) < a /\ a - (b.pos % a) < b.end - b.pos
    <3>1. BM!align_pos(b, a) = [b EXCEPT !.pos = @ + (a - (b.pos % a))]
        BY Zenon, <2>1 DEF BM!align_pos
    <3>2. a - (b.pos % a) = disp
        BY Zenon, <1>1 DEF disp
    <3>3. disp < a /\ disp < c.size
        BY <1>1, <1>2, <2>1, <3>2
    <3> DEFINE k == b.pos + disp
    <3>4. BM!align_pos(b, a) = [b EXCEPT !.pos = k]
        BY Zenon, <3>1, <3>2
    <3>5. k = p
        BY Zenon, <1>1
    <3> HIDE DEF k, p
    <3>6. [b EXCEPT !.pos = k] = [pos |-> k, end |-> end(c)]
        BY <1>1
    <3>. QED  BY Zenon, <3>3, <3>4, <3>5, <3>6
  <2>2. CASE ~(a - (b.pos % a) < a /\ a - (b.pos % a) < b.end - b.pos)
    <3>1. BM!align_pos(b, a) = b
        BY Zenon, <2>2 DEF BM!align_pos
    <3>2. a - (b.pos % a) = disp
        BY Zenon, <1>1 DEF disp
    <3>3. ~(disp < a /\ disp < c.size)
        BY <1>1, <1>2, <2>2, <3>2
    <3>. QED  BY Zenon, <3>1, <3>3
  <2>. QED  BY <2>1, <2>2
<1>4. CASE c.pos # x.pos /\ a > 1 /\ disp < a /\ disp < c.size
  <2>1. AlignedPos(c, x, a) = [c EXCEPT !.pos = p, !.size = n]
      BY <1>4 DEF AlignedPos, align_pos
  <2> HIDE DEF disp, b
  <2>2. n \in Nat /\ n > 0 /\ p \in Nat /\ p + n = end(c)
      BY <1>1, <1>2, <1>4
  <2> HIDE DEF n, p
  <2> DEFINE y == [c EXCEPT !.pos = p, !.size = n]
  <2>3. y.pos = p /\ y.size = n
      BY DEF IsChunk
  <2> HIDE DEF y
  <2>4. AsChunks(y) = {[pos |-> p, end |-> end(c)]}
      BY <2>2, <2>3 DEF AsChunks, AsChunk, end
  <2>. QED  BY Zenon, <1>3, <1>4, <2>1, <2>4 DEF b, y
<1>5. CASE ~(c.pos # x.pos /\ a > 1 /\ disp < a /\ disp < c.size)
  <2>1. AlignedPos(c, x, a) = c
      BY <1>5 DEF AlignedPos, align_pos
  <2> HIDE DEF disp, b
  <2>2. AsChunks(c) = {b}
      BY Zenon DEF AsChunks, b
  <2>3. c.pos = x.pos \/ BM!align_pos(b, a) = b
    <3>1. ~(a > 1) => ~(disp < a)
        BY <1>2
    <3>. QED  BY Zenon, <1>3, <1>5, <3>1
  <2>. QED  BY Zenon, <2>1, <2>2, <2>3 DEF b
<1>. QED  BY <1>4, <1>5


\* The end of the map's block is that of the vector's.
LEMMA EndOfBlock ==
  ASSUME NEW v, IsVector(v), NEW i \in 1 .. Len(v)
  PROVE  BM!BlockEnd(Abs(v), v[i].pos) = {end(v[i])}
<1> DEFINE m == Abs(v)
           p == v[i].pos
           e == end(v[i])
<1>1. /\ p \in Nat /\ e \in Nat /\ p < e /\ Len(v) \in Nat /\ m.end \in Nat
      /\ includes_pos(v[i], p) /\ includes_pos(v[i], e - 1)
  <2>1. p \in Nat /\ e \in Nat /\ p < e /\ Len(v) \in Nat
      BY BlockTypes, VectorTypes
  <2>2. m.end \in Nat
      BY Zenon, AbsIs
  <2> HIDE DEF m
  <2>3. includes_pos(v[i], p) /\ includes_pos(v[i], e - 1)
      BY <2>1 DEF includes_pos
  <2>. QED  BY <2>1, <2>2, <2>3
<1>2. BM!Block(m, p) = p .. e - 1
  <2>1. BM!Block(m, p) = Bytes(v[i])
      BY <1>1, BlockAbs
  <2>. QED  BY Zenon, <2>1 DEF Bytes
<1>3. e - 1 \in Nat /\ e - 1 < m.end
  <2>1. e - 1 \in Nat
      BY <1>1
  <2>. QED  BY Zenon, <1>1, <2>1, AbsIs
<1>4. e = m.end \/ e \in m.cuts
  <2>1. CASE i = Len(v)
    <3>1. m.end = end(v[Len(v)])
        BY AbsIs
    <3>. QED  BY <2>1, <3>1
  <2>2. CASE i # Len(v)
    <3>1. i < Len(v)
        BY <1>1, <2>2
    <3>2. i + 1 \in 1 .. Len(v) /\ v[i + 1].pos = e
        BY <3>1, VectorBlocks
    <3>3. m.cuts = {v[j].pos : j \in 1 .. Len(v)}
        BY AbsIs
    <3>. QED  BY <3>2, <3>3
  <2>. QED  BY <2>1, <2>2
<1>5. ASSUME NEW f \in 1 .. m.end, f - 1 \in p .. e - 1, f = m.end \/ f \in m.cuts
      PROVE  f = e
  <2>1. SUFFICES ASSUME f < e  PROVE FALSE
      BY <1>1, <1>5
  <2>2. f \in Nat /\ includes_pos(v[i], f) /\ f # p
      BY <1>1, <1>5, <2>1 DEF includes_pos
  <2>3. f # m.end
      BY <1>1, <1>3, <2>1, <2>2
  <2>. QED  BY <1>5, <2>2, <2>3, CutIsFirst
<1> HIDE DEF m, p, e
<1>6. e \in 1 .. m.end /\ e - 1 \in p .. e - 1
    BY <1>1, <1>3
<1>7. ASSUME NEW f  PROVE f \in BM!BlockEnd(m, p) <=> f = e
  <2>1. f \in BM!BlockEnd(m, p) <=> f \in 1 .. m.end /\ f - 1 \in BM!Block(m, p)
                                       /\ (f = m.end \/ f \in m.cuts)
      BY Zenon DEF BM!BlockEnd
  <2>. QED  BY Zenon, <1>2, <1>4, <1>5, <1>6, <2>1
<1>. QED  BY <1>7 DEF m, p, e


\* S holds the first positions of the blocks of G.
FirstsOf(v, G, S) ==
  /\ G \in SUBSET (1 .. Len(v)) /\ S \subseteq Abs(v).cuts
  /\ \A i \in 1 .. Len(v) : v[i].pos \in S <=> i \in G


\* The first and the last of a set of blocks is that of their first positions.
LEMMA FirstCut ==
  ASSUME NEW v, IsVector(v), NEW G, NEW S, FirstsOf(v, G, S)
  PROVE  /\ G = {} => S = {}
         /\ G # {} => /\ Min(G) \in G /\ BM!First(S) = {v[Min(G)].pos}
                      /\ Max(G) \in G /\ BM!Last(S) = {v[Max(G)].pos}
<1>0. /\ G \in SUBSET (1 .. Len(v)) /\ S \subseteq Abs(v).cuts
      /\ \A i \in 1 .. Len(v) : v[i].pos \in S <=> i \in G
    BY DEF FirstsOf
<1>1. Abs(v).cuts = {v[i].pos : i \in 1 .. Len(v)} /\ Len(v) \in Nat
    BY AbsIs, VectorTypes
<1>2. \A c \in S : \E i \in G : c = v[i].pos
    BY <1>0, <1>1
<1>3. ASSUME NEW i \in G, NEW j \in G, i <= j  PROVE v[i].pos <= v[j].pos
  <2>1. v[i].pos \in Nat /\ end(v[i]) \in Nat /\ v[i].pos < end(v[i]) /\ v[j].pos \in Nat
      BY <1>0, BlockTypes
  <2>2. CASE i = j
      BY <2>1, <2>2
  <2>3. CASE i # j
    <3>1. end(v[i]) <= v[j].pos
        BY <1>0, <1>3, <2>3, BlocksInOrder
    <3>. QED  BY <2>1, <3>1
  <2>. QED  BY <2>2, <2>3
<1>4. ASSUME NEW i \in G, NEW j \in G, v[i].pos <= v[j].pos  PROVE i <= j
  <2>1. SUFFICES ASSUME j < i PROVE FALSE
      BY <1>0, <1>1
  <2>2. v[j].pos \in Nat /\ end(v[j]) \in Nat /\ v[j].pos < end(v[j]) /\ v[i].pos \in Nat
      BY <1>0, BlockTypes
  <2>3. end(v[j]) <= v[i].pos
      BY <1>0, <2>1, BlocksInOrder
  <2>. QED  BY <1>4, <2>2, <2>3
<1>5. ASSUME G # {}, NEW k \in G, \A j \in G : k <= j  PROVE BM!First(S) = {v[k].pos}
  <2>1. v[k].pos \in S /\ \A c \in S : v[k].pos <= c
      BY <1>0, <1>2, <1>3, <1>5
  <2>2. ASSUME NEW c \in S, \A y \in S : c <= y  PROVE c = v[k].pos
    <3>1. PICK j \in G : c = v[j].pos
        BY <1>2
    <3>2. c \in Nat /\ v[k].pos \in Nat
        BY <1>0, <3>1, BlockTypes
    <3>. QED  BY <2>1, <2>2, <3>2
  <2>. QED  BY <2>1, <2>2 DEF BM!First
<1>6. ASSUME G # {}, NEW k \in G, \A j \in G : k >= j  PROVE BM!Last(S) = {v[k].pos}
  <2>1. v[k].pos \in S /\ \A c \in S : v[k].pos >= c
    <3>1. ASSUME NEW c \in S  PROVE v[k].pos >= c
      <4>1. PICK j \in G : c = v[j].pos
          BY <1>2
      <4>2. j <= k /\ c \in Nat /\ v[k].pos \in Nat
          BY <1>0, <1>1, <1>6, <4>1, BlockTypes
      <4>3. v[j].pos <= v[k].pos
          BY <1>3, <4>2
      <4>. QED  BY <4>1, <4>2, <4>3
    <3>. QED  BY <1>0, <3>1
  <2>2. ASSUME NEW c \in S, \A y \in S : c >= y  PROVE c = v[k].pos
    <3>1. PICK j \in G : c = v[j].pos
        BY <1>2
    <3>2. c \in Nat /\ v[k].pos \in Nat
        BY <1>0, <3>1, BlockTypes
    <3>3. v[k].pos >= c /\ c >= v[k].pos
        BY <2>1, <2>2
    <3>. QED  BY <3>2, <3>3
  <2>. QED  BY <2>1, <2>2 DEF BM!Last
<1>7. G # {} => Min(G) \in G /\ \A j \in G : Min(G) <= j
    BY <1>0, <1>1, MinExists
<1>8. G # {} => Max(G) \in G /\ \A j \in G : Max(G) >= j
  <2>1. G \in SUBSET (0 .. Len(v))
      BY <1>0, <1>1
  <2>. QED  BY <1>1, <2>1, MaxExists
<1>. QED  BY <1>2, <1>5, <1>6, <1>7, <1>8


\* The blocks that a search forwards considers are those of the map ...
LEMMA ConsideredFrom ==
  ASSUME NEW v, IsVector(v), NEW d, IsDomain(d), NEW p \in Nat, NEW s, NEW edge \in BOOLEAN,
         NEW k \in 1 .. Len(v), includes_pos(v[k], p), NEW i \in 1 .. Len(v)
  PROVE  v[i].pos \in BM!BlocksFrom(Abs(v), InDomains(d), p, s, edge) <=>
           /\ k <= i /\ v[i].st = s /\ InDomain(d, v[i])
           /\ edge /\ i > 1 => v[i - 1].st = "finished"
<1> DEFINE m == Abs(v)
           dom == InDomains(d)
           c == v[i].pos
<1>1. /\ c \in Nat /\ end(v[i]) \in Nat /\ c < end(v[i]) /\ includes_pos(v[i], c)
      /\ v[k].pos \in Nat /\ end(v[k]) \in Nat /\ v[k].pos <= p /\ p < end(v[k])
    BY BlockTypes DEF includes_pos
<1>2. c \in m.cuts /\ m.st[c] = v[i].st /\ BM!Block(m, c) = c .. end(v[i]) - 1
  <2>1. m.cuts = {v[j].pos : j \in 1 .. Len(v)}
      BY AbsIs
  <2>2. BM!Block(m, c) = Bytes(v[i])
      BY <1>1, BlockAbs
  <2>3. m.st[c] = v[i].st
      BY <1>1, AbsStatus
  <2>. QED  BY <2>1, <2>2, <2>3 DEF Bytes
<1>3. BM!InDomain(m, c, dom) <=> InDomain(d, v[i])
    BY <1>1, InDomainAbs
<1>4. c >= p \/ p \in BM!Block(m, c) <=> k <= i
  <2>1. c >= p \/ p \in BM!Block(m, c) <=> p < end(v[i])
      BY <1>1, <1>2
  <2>2. CASE k = i
      BY <1>1, <2>1, <2>2
  <2>3. CASE k < i
    <3>1. end(v[k]) <= c
        BY <2>3, BlocksInOrder
    <3>. QED  BY <1>1, <2>1, <2>3, <3>1
  <2>4. CASE i < k
    <3>1. end(v[i]) <= v[k].pos
        BY <2>4, BlocksInOrder
    <3>. QED  BY <1>1, <2>1, <2>4, <3>1
  <2>5. k = i \/ k < i \/ i < k
      BY VectorTypes
  <2>. QED  BY <2>2, <2>3, <2>4, <2>5
<1>5. (edge /\ c > 0 => m.st[c - 1] = "finished") <=> (edge /\ i > 1 => v[i - 1].st = "finished")
  <2>1. CASE i = 1
    <3>1. c = 0
        BY <2>1, BlockTypes
    <3>2. ~(c > 0) /\ ~(i > 1)
        BY <2>1, <3>1
    <3>. QED  BY Zenon, <3>2
  <2>2. CASE i # 1
    <3>1. i > 1 /\ i - 1 \in 1 .. Len(v)
        BY <2>2, VectorTypes
    <3>2. c = end(v[i - 1]) /\ v[i - 1].pos \in Nat /\ v[i - 1].pos < c
        BY <3>1, BlockTypes
    <3>3. c - 1 \in Nat /\ c > 0 /\ includes_pos(v[i - 1], c - 1)
        BY <1>1, <3>2 DEF includes_pos
    <3>4. m.st[c - 1] = v[i - 1].st
        BY <3>1, <3>3, AbsStatus
    <3>. QED  BY Zenon, <3>1, <3>3, <3>4
  <2>. QED  BY <2>1, <2>2
<1> HIDE DEF m, dom, c
<1>6. c \in BM!BlocksFrom(m, dom, p, s, edge) <=>
        /\ c \in m.cuts /\ (c >= p \/ p \in BM!Block(m, c))
        /\ m.st[c] = s /\ BM!InDomain(m, c, dom)
        /\ (edge /\ c > 0 => m.st[c - 1] = "finished")
    BY Zenon DEF BM!BlocksFrom
<1>. QED  BY Zenon, <1>2, <1>3, <1>4, <1>5, <1>6 DEF m, dom, c


\* ... and backwards.
LEMMA ConsideredUpTo ==
  ASSUME NEW v, IsVector(v), NEW d, IsDomain(d), NEW t \in Nat \ {0}, NEW s,
         NEW edge \in BOOLEAN, NEW k \in 1 .. Len(v), includes_pos(v[k], t - 1),
         NEW i \in 1 .. Len(v)
  PROVE  v[i].pos \in BM!BlocksUpTo(Abs(v), InDomains(d), t, s, edge) <=>
           /\ i <= k /\ v[i].st = s /\ InDomain(d, v[i])
           /\ edge /\ i < Len(v) => v[i + 1].st = "finished"
<1> DEFINE m == Abs(v)
           dom == InDomains(d)
           c == v[i].pos
           e == end(v[i])
<1>1. /\ c \in Nat /\ e \in Nat /\ c < e /\ includes_pos(v[i], c)
      /\ v[k].pos \in Nat /\ end(v[k]) \in Nat /\ v[k].pos < t /\ t <= end(v[k])
    BY BlockTypes DEF includes_pos
<1>2. c \in m.cuts /\ m.st[c] = v[i].st
  <2>1. m.cuts = {v[j].pos : j \in 1 .. Len(v)}
      BY AbsIs
  <2>3. m.st[c] = v[i].st
      BY <1>1, AbsStatus
  <2>. QED  BY <2>1, <2>3
<1>3. BM!InDomain(m, c, dom) <=> InDomain(d, v[i])
    BY <1>1, InDomainAbs
<1>4. c < t <=> i <= k
  <2>2. CASE k = i
      BY <1>1, <2>2
  <2>3. CASE k < i
    <3>1. end(v[k]) <= c
        BY <2>3, BlocksInOrder
    <3>. QED  BY <1>1, <2>3, <3>1
  <2>4. CASE i < k
    <3>1. e <= v[k].pos
        BY <2>4, BlocksInOrder
    <3>. QED  BY <1>1, <2>4, <3>1
  <2>5. k = i \/ k < i \/ i < k
      BY VectorTypes
  <2>. QED  BY <2>2, <2>3, <2>4, <2>5
<1>5. (e < m.end => m.st[e] = "finished") <=> (i < Len(v) => v[i + 1].st = "finished")
  <2>1. CASE i = Len(v)
    <3>1. e = m.end
        BY Zenon, <2>1, AbsIs
    <3>2. ~(e < m.end) /\ ~(i < Len(v))
        BY <1>1, <2>1, <3>1, VectorTypes
    <3>. QED  BY Zenon, <3>2
  <2>2. CASE i # Len(v)
    <3>1. i < Len(v) /\ i + 1 \in 1 .. Len(v) /\ i + 1 > 1 /\ (i + 1) - 1 = i
        BY <2>2, VectorTypes
    <3> DEFINE j == i + 1
    <3>2. v[j].pos = e
      <4> HIDE DEF j
      <4>1. v[j].pos = end(v[j - 1])
          BY <3>1, BlockTypes DEF j
      <4>. QED  BY Zenon, <3>1, <4>1 DEF j
    <3>3. includes_pos(v[j], e)
      <4> HIDE DEF j
      <4>. QED  BY <1>1, <3>1, <3>2, BlockTypes DEF includes_pos, j
    <3>4. m.st[e] = v[j].st
      <4> HIDE DEF j, e
      <4>. QED  BY <1>1, <3>1, <3>3, AbsStatus DEF j
    <3>5. e < m.end
        BY Zenon, <1>1, <3>1, <3>3, AbsIs
    <3>. QED  BY Zenon, <3>1, <3>4, <3>5
  <2>. QED  BY <2>1, <2>2
<1>6. BM!BlockEnd(m, c) = {e}
    BY EndOfBlock
<1> HIDE DEF m, dom, c
<1>7. (\A f \in BM!BlockEnd(m, c) : f < m.end => m.st[f] = "finished") <=>
        (e < m.end => m.st[e] = "finished")
  <2> HIDE DEF e
  <2>. QED  BY Zenon, <1>6
<1> HIDE DEF e
<1>8. c \in BM!BlocksUpTo(m, dom, t, s, edge) <=>
        /\ c \in m.cuts /\ c < t
        /\ m.st[c] = s /\ BM!InDomain(m, c, dom)
        /\ (edge => \A f \in BM!BlockEnd(m, c) : f < m.end => m.st[f] = "finished")
    BY Zenon DEF BM!BlocksUpTo
<1>. QED  BY Zenon, <1>2, <1>3, <1>4, <1>5, <1>7, <1>8 DEF m, dom, c


\* A search forwards finds the chunk of the map.
LEMMA FindIsAbstract ==
  ASSUME NEW v, IsVector(v), NEW d, IsDomain(d), NEW index \in Int,
         NEW p \in 0 .. Abs(v).end - 1, NEW len \in Nat \ {0}, NEW s, NEW a \in Nat \ {0},
         NEW edge \in BOOLEAN, NEW unfinished \in BOOLEAN, ~unfinished
  PROVE  AsChunks(find_chunk(v, index, assign(p, len), s, d, a, edge, unfinished).b)
           = BM!find_chunk(Abs(v), InDomains(d), p, len, s, a, edge)
<1> DEFINE m == Abs(v)
           dom == InDomains(d)
           b == assign(p, len)
           cand(j) == {i \in j .. Len(v) :
                          /\ v[i].st = s \/ (unfinished /\ v[i].st # "finished")
                          /\ InDomain(d, v[i])}
           good(I) == {i \in I : edge /\ i > 1 => v[i - 1].st = "finished"}
           chunk(i) == [found |-> TRUE, index |-> i,
                        b |-> AlignedEnd(PartFrom(b, v[i]), v[i], a)]
           found(j, I) ==
             IF j = 0 THEN [found |-> FALSE, b |-> NoChunk(b), index |-> 0]
             ELSE IF good(I) = {} THEN [found |-> I # {}, b |-> NoChunk(b), index |-> j]
             ELSE chunk(Min(good(I)))
           r == find_chunk(v, index, b, s, d, a, edge, unfinished)
           k == find_index(v, index, p)
           G == good(cand(k))
           S == BM!BlocksFrom(m, dom, p, s, edge)
           Part(c, e) ==
             LET q == BM!Larger(p, c)
                 x == [pos |-> q, end |-> BM!Smaller(q + len, e)]
             IN  IF x.end = e THEN x ELSE BM!align_end(x, a)
<1>1. p \in Nat /\ p < LLONG_MAX /\ m.end \in Nat /\ m.end <= LLONG_MAX
  <2>1. Len(v) \in 1 .. Len(v)
      BY VectorTypes
  <2>2. m.end = end(v[Len(v)]) /\ m.end \in Nat
      BY Zenon, AbsIs
  <2>3. end(v[Len(v)]) <= LLONG_MAX
      BY <2>1, BlockTypes
  <2>. QED  BY <2>2, <2>3, LimitAssumption
<1>2. b.pos = p /\ b.size > 0 /\ ~(b.size <= 0) /\ IsChunk(b)
  <2>1. IsChunk(b) /\ b.pos = p /\ b.size > 0
      BY <1>1, AssignIs
  <2> HIDE DEF b
  <2>. QED  BY <2>1 DEF IsChunk
<1>3. k \in 1 .. Len(v) /\ includes_pos(v[k], p)
  <2>1. PICK i \in 1 .. Len(v) : includes_pos(v[i], p)
      BY Zenon, AbsIs
  <2>2. k = i
      BY <1>1, <2>1, FindIndex
  <2>. QED  BY <2>1, <2>2
<1> HIDE DEF b, k
<1>4. r = found(k, cand(k))
  <2>1. Head(v).pos = 0
      BY DEF IsVector
  <2>2. ~(b.pos < Head(v).pos)
      BY <1>1, <1>2, <2>1
  <2>. QED  BY Zenon, <1>2, <2>2 DEF find_chunk, k
<1>5. ASSUME NEW i \in 1 .. Len(v)  PROVE v[i].pos \in S <=> i \in G
  <2>1. i \in G <=> /\ k <= i /\ v[i].st = s /\ InDomain(d, v[i])
                    /\ edge /\ i > 1 => v[i - 1].st = "finished"
    <3>1. i \in k .. Len(v) <=> k <= i
        BY <1>3, VectorTypes
    <3>. QED  BY Zenon, <3>1
  <2> HIDE DEF S, G
  <2>2. v[i].pos \in S <=> /\ k <= i /\ v[i].st = s /\ InDomain(d, v[i])
                           /\ edge /\ i > 1 => v[i - 1].st = "finished"
      BY <1>1, <1>3, ConsideredFrom DEF S, m, dom
  <2>. QED  BY Zenon, <2>1, <2>2
<1>6. G \in SUBSET (1 .. Len(v)) /\ S \subseteq m.cuts
  <2>1. k .. Len(v) \subseteq 1 .. Len(v)
      BY <1>3, VectorTypes
  <2>2. G \subseteq k .. Len(v)
      BY Zenon
  <2>3. S \subseteq m.cuts
      BY Zenon DEF BM!BlocksFrom
  <2>. QED  BY <2>1, <2>2, <2>3
<1>7. BM!find_chunk(m, dom, p, len, s, a, edge) =
        UNION {{Part(c, e) : e \in BM!BlockEnd(m, c)} : c \in BM!First(S)}
    BY Zenon DEF BM!find_chunk
<1> HIDE DEF S, Part
<1>8. CASE G = {}
  <2>1. S = {}
    <3>1. FirstsOf(v, G, S)
        BY Zenon, <1>5, <1>6 DEF FirstsOf, m
    <3> HIDE DEF G
    <3>. QED  BY Zenon, <1>8, <3>1, FirstCut
  <2>2. BM!First(S) = {}
      BY <2>1 DEF BM!First
  <2>3. BM!find_chunk(m, dom, p, len, s, a, edge) = {}
      BY <1>7, <2>2
  <2>4. k # 0
      BY <1>3
  <2>5. r = [found |-> cand(k) # {}, b |-> NoChunk(b), index |-> k]
      BY Zenon, <1>4, <1>8, <2>4
  <2>6. r.b = NoChunk(b)
    <3> HIDE DEF cand, r
    <3>. QED  BY <2>5
  <2>7. NoChunk(b).size = 0
      BY <1>2 DEF NoChunk, IsChunk
  <2>8. AsChunks(r.b) = {}
    <3>1. ~(r.b.size > 0)
      <4> HIDE DEF r
      <4>. QED  BY <2>6, <2>7
    <3>. QED  BY Zenon, <3>1 DEF AsChunks
  <2>. QED  BY Zenon, <2>3, <2>8 DEF b, r
<1>9. CASE G # {}
  <2> DEFINE i == Min(G)
             q == max(p, v[i].pos)
             e == min(q + len, end(v[i]))
             c == [pos |-> q, size |-> e - q]
             x == [pos |-> q, end |-> e]
  <2>1. i \in G /\ BM!First(S) = {v[i].pos}
    <3>1. \A j \in 1 .. Len(v) : v[j].pos \in S <=> j \in G
        BY Zenon, <1>5
    <3> HIDE DEF G
    <3>2. G \in SUBSET (1 .. Len(v)) /\ S \subseteq Abs(v).cuts /\ G # {}
        BY Zenon, <1>6, <1>9 DEF m
    <3>3. FirstsOf(v, G, S)
        BY Zenon, <3>1, <3>2 DEF FirstsOf
    <3>4. Min(G) \in G /\ BM!First(S) = {v[Min(G)].pos}
        BY Zenon, <3>2, <3>3, FirstCut
    <3>. QED  BY Zenon, <3>4
  <2>2. k # 0
      BY <1>3
  <2>3. r = chunk(i)
      BY Zenon, <1>4, <1>9, <2>2
  <2>4. i \in 1 .. Len(v) /\ k <= i
    <3>1. i \in 1 .. Len(v)
        BY Zenon, <1>6, <2>1
    <3>2. i \in k .. Len(v)
        BY Zenon, <2>1
    <3> HIDE DEF i
    <3>. QED  BY <1>3, <3>1, <3>2
  <2> HIDE DEF i, G
  <2>5. r.b = AlignedEnd(PartFrom(b, v[i]), v[i], a)
    <3> DEFINE y == AlignedEnd(PartFrom(b, v[i]), v[i], a)
    <3>1. r = [found |-> TRUE, index |-> i, b |-> y]
        BY Zenon, <2>3
    <3> HIDE DEF y, r
    <3>2. r.b = y
        BY <3>1
    <3>. QED  BY Zenon, <3>2 DEF y
  <2>6. GoodBlock(v[i]) /\ end(v[i]) \in Nat /\ v[i].pos \in Nat
      BY <2>4, VectorBlocks, BlockTypes
  <2>7. p < end(v[i])
    <3>1. p < end(v[k]) /\ end(v[k]) \in Nat /\ v[i].pos < end(v[i])
        BY <1>3, <2>4, BlockTypes DEF includes_pos
    <3>2. CASE k = i
        BY <3>1, <3>2
    <3>3. CASE k # i
      <4>1. k < i
          BY <1>3, <2>4, <3>3
      <4>2. end(v[k]) <= v[i].pos
          BY <1>3, <2>4, <4>1, BlocksInOrder
      <4>. QED  BY <1>1, <2>6, <3>1, <4>2
    <3>. QED  BY <3>2, <3>3
  <2>8. PartFrom(b, v[i]) = c /\ q \in Nat /\ e \in Nat /\ q < e
      BY Zenon, <1>1, <2>6, <2>7, PartFromIs DEF b
  <2>9. BM!find_chunk(m, dom, p, len, s, a, edge) = {Part(v[i].pos, end(v[i]))}
    <3>1. BM!BlockEnd(m, v[i].pos) = {end(v[i])}
        BY <2>4, EndOfBlock DEF m
    <3>. QED  BY <1>7, <2>1, <3>1
  <2>10. Part(v[i].pos, end(v[i])) = IF x.end = end(v[i]) THEN x ELSE BM!align_end(x, a)
      BY Zenon DEF Part, max, min
  <2> HIDE DEF q, e
  <2>11. IsChunk(c) /\ c.size > 0 /\ end(c) = e /\ AsChunk(c) = x /\ x.end = e
      BY <2>8 DEF IsChunk, end, AsChunk
  <2> HIDE DEF c, x
  <2>12. AsChunks(AlignedEnd(c, v[i], a)) =
           {IF end(c) = end(v[i]) THEN AsChunk(c) ELSE BM!align_end(AsChunk(c), a)}
      BY Zenon, <2>6, <2>11, AlignedEndIs
  <2>. QED  BY Zenon, <2>5, <2>8, <2>9, <2>10, <2>11, <2>12 DEF b, r
<1>. QED  BY Zenon, <1>8, <1>9


\* The chunk that a search backwards begins with.
LEMMA EndsAt ==
  ASSUME NEW t \in Nat \ {0}, t <= LLONG_MAX, NEW len \in Nat \ {0}
  PROVE  LET l == min(len, t)
         IN  set_end(assign(0, len), t) = [pos |-> t - l, size |-> l] /\ l \in Nat \ {0} /\ l <= t
<1> DEFINE l == min(len, t)
           n == min(len, LLONG_MAX - 0)
           b == assign(0, len)
<1>1. LLONG_MAX \in Nat /\ 0 < LLONG_MAX
    BY LimitAssumption
<1>2. l \in Nat \ {0} /\ l <= t /\ (len <= t => l = len) /\ (~(len <= t) => l = t)
    BY DEF min, BM!Smaller
<1>3. n \in Nat /\ (len <= t => n = len) /\ (~(len <= t) => t <= n)
    BY <1>1 DEF min, BM!Smaller
<1>4. b = [pos |-> 0, size |-> n] /\ b.size = n
  <2>1. b = [pos |-> 0, size |-> n]
      BY <1>1, AssignExact
  <2> HIDE DEF b, n
  <2>. QED  BY <2>1
<1>5. set_end(b, t) = IF n <= t THEN [b EXCEPT !.pos = t - b.size]
                      ELSE [b EXCEPT !.pos = 0, !.size = t]
  <2>1. (IF t < 0 THEN LLONG_MAX ELSE t) = t
    <3>1. ~(t < 0)
        OBVIOUS
    <3>. QED  BY Zenon, <3>1
  <2> HIDE DEF b, n
  <2>. QED  BY Zenon, <1>4, <2>1 DEF set_end
<1> HIDE DEF l, n, b
<1>6. CASE n <= t
  <2>1. n = l /\ t - n = t - l
      BY <1>2, <1>3, <1>6
  <2> DEFINE k == t - b.size
  <2>2. set_end(b, t) = [b EXCEPT !.pos = k]
      BY Zenon, <1>5, <1>6
  <2>3. k = t - l
      BY Zenon, <1>4, <2>1
  <2> HIDE DEF k
  <2>4. [b EXCEPT !.pos = k] = [pos |-> k, size |-> n]
      BY <1>4
  <2>. QED  BY Zenon, <1>2, <2>1, <2>2, <2>3, <2>4 DEF b, l
<1>7. CASE ~(n <= t)
  <2>1. l = t /\ t - l = 0
      BY <1>2, <1>3, <1>7
  <2>2. [b EXCEPT !.pos = 0, !.size = t] = [pos |-> 0, size |-> t]
      BY Zenon, <1>4, ChunkChanged
  <2>. QED  BY Zenon, <1>2, <1>5, <1>7, <2>1, <2>2 DEF b, l
<1>. QED  BY <1>6, <1>7


\* A search backwards finds the chunk of the map.
LEMMA RfindIsAbstract ==
  ASSUME NEW v, IsVector(v), NEW d, IsDomain(d), NEW index \in Int,
         NEW t \in 1 .. Abs(v).end, NEW len \in Nat \ {0}, NEW s, NEW a \in Nat \ {0},
         NEW edge \in BOOLEAN
  PROVE  AsChunks(rfind_chunk(v, index, set_end(assign(0, len), t), s, d, a, edge).b)
           = BM!rfind_chunk(Abs(v), InDomains(d), t, min(len, t), s, a, edge)
<1> DEFINE m == Abs(v)
           dom == InDomains(d)
           b == set_end(assign(0, len), t)
           l == min(len, t)
           cand(j) == {i \in 1 .. j : v[i].st = s /\ InDomain(d, v[i])}
           good(I) == {i \in I : edge /\ i < Len(v) => v[i + 1].st = "finished"}
           chunk(i) == [found |-> TRUE, index |-> i,
                        b |-> AlignedPos(PartUpTo(b, v[i]), v[i], a)]
           found(j, I) ==
             IF j = 0 THEN [found |-> FALSE, b |-> NoChunk(b), index |-> 0]
             ELSE IF good(I) = {} THEN [found |-> I # {}, b |-> NoChunk(b), index |-> j]
             ELSE chunk(Max(good(I)))
           r == rfind_chunk(v, index, b, s, d, a, edge)
           k == find_index(v, index, end(b) - 1)
           G == good(cand(k))
           S == BM!BlocksUpTo(m, dom, t, s, edge)
           Part(c, e) ==
             LET f == BM!Smaller(t, e)
                 x == [pos |-> BM!Larger(c, f - l), end |-> f]
             IN  IF x.pos = c THEN x ELSE BM!align_pos(x, a)
<1>1. /\ t \in Nat \ {0} /\ t <= m.end /\ t <= LLONG_MAX /\ m.end \in Nat
      /\ m.end = end(v[Len(v)])
  <2>1. Len(v) \in 1 .. Len(v)
      BY VectorTypes
  <2>2. m.end = end(v[Len(v)]) /\ m.end \in Nat
      BY Zenon, AbsIs
  <2>3. end(v[Len(v)]) <= LLONG_MAX
      BY <2>1, BlockTypes
  <2>. QED  BY <2>2, <2>3, LimitAssumption
<1>2. /\ b = [pos |-> t - l, size |-> l] /\ l \in Nat \ {0} /\ l <= t
      /\ end(b) = t /\ b.size = l /\ IsChunk(b) /\ ~(b.size <= 0)
  <2>1. b = [pos |-> t - l, size |-> l] /\ l \in Nat \ {0} /\ l <= t
      BY Zenon, <1>1, EndsAt
  <2> HIDE DEF b, l
  <2>2. b.pos = t - l /\ b.size = l
      BY <2>1
  <2>3. IsChunk(b)
      BY <1>1, <2>1 DEF IsChunk
  <2>4. end(b) = t
      BY <1>1, <2>1, <2>2 DEF end
  <2>5. ~(b.size <= 0)
      BY <2>1, <2>2
  <2>. QED  BY <2>1, <2>2, <2>3, <2>4, <2>5
<1> HIDE DEF l, b
<1>3. k \in 1 .. Len(v) /\ includes_pos(v[k], t - 1)
  <2>1. t - 1 \in 0 .. m.end - 1 /\ t - 1 \in Nat /\ end(b) - 1 = t - 1
      BY <1>1, <1>2
  <2>2. PICK i \in 1 .. Len(v) : includes_pos(v[i], t - 1)
      BY Zenon, <2>1, AbsIs
  <2>3. k = find_index(v, index, t - 1)
      BY Zenon, <2>1
  <2>4. k = i
      BY <2>1, <2>2, <2>3, FindIndex
  <2>. QED  BY Zenon, <2>2, <2>4
<1> HIDE DEF k
<1>4. r = found(k, cand(k))
  <2>1. Last(v) = v[Len(v)]
      BY VectorTypes DEF Last
  <2>2. ~(end(b) > end(Last(v)))
    <3>1. end(Last(v)) = m.end
        BY Zenon, <1>1, <2>1
    <3>. QED  BY <1>1, <1>2, <3>1
  <2>. QED  BY Zenon, <1>2, <2>2 DEF rfind_chunk, k
<1>5. ASSUME NEW i \in 1 .. Len(v)  PROVE v[i].pos \in S <=> i \in G
  <2>1. i \in G <=> /\ i <= k /\ v[i].st = s /\ InDomain(d, v[i])
                    /\ edge /\ i < Len(v) => v[i + 1].st = "finished"
    <3>1. i \in 1 .. k <=> i <= k
        BY <1>3, VectorTypes
    <3>. QED  BY Zenon, <3>1
  <2> HIDE DEF S, G
  <2>2. v[i].pos \in S <=> /\ i <= k /\ v[i].st = s /\ InDomain(d, v[i])
                           /\ edge /\ i < Len(v) => v[i + 1].st = "finished"
      BY <1>1, <1>3, ConsideredUpTo DEF S, m, dom
  <2>. QED  BY Zenon, <2>1, <2>2
<1>6. G \in SUBSET (1 .. Len(v)) /\ S \subseteq m.cuts
  <2>1. 1 .. k \subseteq 1 .. Len(v)
      BY <1>3, VectorTypes
  <2>2. G \subseteq 1 .. k
      BY Zenon
  <2>3. S \subseteq m.cuts
      BY Zenon DEF BM!BlocksUpTo
  <2>. QED  BY <2>1, <2>2, <2>3
<1>7. BM!rfind_chunk(m, dom, t, l, s, a, edge) =
        UNION {{Part(c, e) : e \in BM!BlockEnd(m, c)} : c \in BM!Last(S)}
    BY Zenon DEF BM!rfind_chunk
<1> HIDE DEF S, Part
<1>8. CASE G = {}
  <2>1. S = {}
    <3>1. FirstsOf(v, G, S)
        BY Zenon, <1>5, <1>6 DEF FirstsOf, m
    <3> HIDE DEF G
    <3>. QED  BY Zenon, <1>8, <3>1, FirstCut
  <2>2. BM!Last(S) = {}
      BY <2>1 DEF BM!Last
  <2>3. BM!rfind_chunk(m, dom, t, l, s, a, edge) = {}
      BY <1>7, <2>2
  <2>4. k # 0
      BY <1>3
  <2>5. r = [found |-> cand(k) # {}, b |-> NoChunk(b), index |-> k]
      BY Zenon, <1>4, <1>8, <2>4
  <2>6. r.b = NoChunk(b)
    <3> HIDE DEF cand, r
    <3>. QED  BY <2>5
  <2>7. NoChunk(b).size = 0
      BY <1>2 DEF NoChunk, IsChunk
  <2>8. AsChunks(r.b) = {}
    <3>1. ~(r.b.size > 0)
      <4> HIDE DEF r
      <4>. QED  BY <2>6, <2>7
    <3>. QED  BY Zenon, <3>1 DEF AsChunks
  <2>. QED  BY Zenon, <2>3, <2>8 DEF b, r, l
<1>9. CASE G # {}
  <2> DEFINE i == Max(G)
             e == min(t, end(v[i]))
             q == max(v[i].pos, e - l)
             c == [pos |-> q, size |-> e - q]
             x == [pos |-> q, end |-> e]
  <2>1. i \in G /\ BM!Last(S) = {v[i].pos}
    <3>1. \A j \in 1 .. Len(v) : v[j].pos \in S <=> j \in G
        BY Zenon, <1>5
    <3> HIDE DEF G
    <3>2. G \in SUBSET (1 .. Len(v)) /\ S \subseteq Abs(v).cuts /\ G # {}
        BY Zenon, <1>6, <1>9 DEF m
    <3>3. FirstsOf(v, G, S)
        BY Zenon, <3>1, <3>2 DEF FirstsOf
    <3>4. Max(G) \in G /\ BM!Last(S) = {v[Max(G)].pos}
        BY Zenon, <3>2, <3>3, FirstCut
    <3>. QED  BY Zenon, <3>4
  <2>2. k # 0
      BY <1>3
  <2>3. r = chunk(i)
      BY Zenon, <1>4, <1>9, <2>2
  <2>4. i \in 1 .. Len(v) /\ i <= k
    <3>1. i \in 1 .. Len(v)
        BY Zenon, <1>6, <2>1
    <3>2. i \in 1 .. k
        BY Zenon, <2>1
    <3> HIDE DEF i
    <3>. QED  BY <1>3, <3>1, <3>2
  <2> HIDE DEF i, G
  <2>5. r.b = AlignedPos(PartUpTo(b, v[i]), v[i], a)
    <3> DEFINE y == AlignedPos(PartUpTo(b, v[i]), v[i], a)
    <3>1. r = [found |-> TRUE, index |-> i, b |-> y]
        BY Zenon, <2>3
    <3> HIDE DEF y, r
    <3>2. r.b = y
        BY <3>1
    <3>. QED  BY Zenon, <3>2 DEF y
  <2>6. GoodBlock(v[i]) /\ end(v[i]) \in Nat /\ v[i].pos \in Nat
      BY <2>4, VectorBlocks, BlockTypes
  <2>7. v[i].pos < t
    <3>1. v[k].pos <= t - 1 /\ v[k].pos \in Nat /\ v[i].pos < end(v[i])
        BY <1>3, <2>4, BlockTypes DEF includes_pos
    <3>2. CASE k = i
        BY <1>1, <3>1, <3>2
    <3>3. CASE k # i
      <4>1. i < k
          BY <1>3, <2>4, <3>3
      <4>2. end(v[i]) <= v[k].pos
          BY <1>3, <2>4, <4>1, BlocksInOrder
      <4>. QED  BY <1>1, <2>6, <3>1, <4>2
    <3>. QED  BY <3>2, <3>3
  <2>8. PartUpTo(b, v[i]) = c /\ q \in Nat /\ e \in Nat /\ q < e
    <3>1. PartUpTo([pos |-> t - l, size |-> l], v[i]) = c /\ q \in Nat /\ e \in Nat /\ q < e
      <4>1. t \in Nat \ {0} /\ l \in Nat \ {0} /\ l <= t
          BY Zenon, <1>1, <1>2
      <4>2. GoodBlock(v[i]) /\ v[i].pos < t
          BY Zenon, <2>6, <2>7
      <4> DEFINE y == v[i]
      <4> HIDE DEF y, S, G, Part, found, good, cand, chunk, r, m, dom
      <4>3. LET f == min(t, end(y))
                g == max(y.pos, f - l)
            IN  /\ PartUpTo([pos |-> t - l, size |-> l], y) = [pos |-> g, size |-> f - g]
                /\ g \in Nat /\ f \in Nat /\ g < f
        <5>1. GoodBlock(y) /\ y.pos < t
            BY Zenon, <4>2 DEF y
        <5>. QED  BY <4>1, <5>1, PartUpToIs
      <4>. QED  BY Zenon, <4>3 DEF y
    <3>. QED  BY Zenon, <1>2, <3>1
  <2>9. BM!rfind_chunk(m, dom, t, l, s, a, edge) = {Part(v[i].pos, end(v[i]))}
    <3>1. BM!BlockEnd(m, v[i].pos) = {end(v[i])}
        BY <2>4, EndOfBlock DEF m
    <3>. QED  BY <1>7, <2>1, <3>1
  <2>10. Part(v[i].pos, end(v[i])) = IF x.pos = v[i].pos THEN x ELSE BM!align_pos(x, a)
      BY Zenon DEF Part, max, min
  <2> HIDE DEF q, e
  <2>11. IsChunk(c) /\ c.size > 0 /\ c.pos = q /\ AsChunk(c) = x /\ x.pos = q
      BY <2>8 DEF IsChunk, end, AsChunk
  <2> HIDE DEF c, x
  <2>12. AsChunks(AlignedPos(c, v[i], a)) =
           {IF c.pos = v[i].pos THEN AsChunk(c) ELSE BM!align_pos(AsChunk(c), a)}
      BY Zenon, <2>6, <2>11, AlignedPosIs
  <2>. QED  BY Zenon, <2>5, <2>8, <2>9, <2>10, <2>11, <2>12 DEF b, r, l
<1>. QED  BY Zenon, <1>8, <1>9


\* Searching the vector finds the chunk that BlockMap finds (FindsWhatIsThere), in
\* both directions, from any position, of any size, with and without a finished
\* block beside it, whatever index the cache holds: so the passes and phases of
\* a rescue, which are modelled on BlockMap, read the chunks that the program reads.
LEMMA SearchFinds == TypeOK => FindsWhatIsThere
<1> SUFFICES ASSUME TypeOK, NEW s, NEW len \in Lengths, NEW edge \in BOOLEAN
             PROVE  LET v   == sblock_vector
                        m   == Abs(v)
                        dom == InDomains(domain)
                    IN  /\ \A p \in 0 .. m.end - 1 :
                             AsChunks(find_chunk(v, index_, assign(p, len), s, domain, HardBS,
                                                 edge, FALSE).b)
                               = BM!find_chunk(m, dom, p, len, s, HardBS, edge)
                        /\ \A e \in 1 .. m.end :
                             AsChunks(rfind_chunk(v, index_, set_end(assign(0, len), e), s,
                                                  domain, HardBS, edge).b)
                               = BM!rfind_chunk(m, dom, e, min(len, e), s, HardBS, edge)
    BY Zenon DEF FindsWhatIsThere
<1>1. IsVector(sblock_vector) /\ IsDomain(domain) /\ index_ \in Int
    BY DEF TypeOK
<1>2. len \in Nat \ {0} /\ HardBS \in Nat \ {0}
    BY SizesAssumption DEF Lengths
<1>3. ASSUME NEW p \in 0 .. Abs(sblock_vector).end - 1
      PROVE  AsChunks(find_chunk(sblock_vector, index_, assign(p, len), s, domain, HardBS,
                                 edge, FALSE).b)
               = BM!find_chunk(Abs(sblock_vector), InDomains(domain), p, len, s, HardBS, edge)
  <2> DEFINE unfinished == FALSE
  <2>1. unfinished \in BOOLEAN /\ ~unfinished
      OBVIOUS
  <2> HIDE DEF unfinished
  <2>2. AsChunks(find_chunk(sblock_vector, index_, assign(p, len), s, domain, HardBS,
                            edge, unfinished).b)
          = BM!find_chunk(Abs(sblock_vector), InDomains(domain), p, len, s, HardBS, edge)
      BY <1>1, <1>2, <2>1, FindIsAbstract
  <2>. QED  BY Zenon, <2>2 DEF unfinished
<1>4. ASSUME NEW e \in 1 .. Abs(sblock_vector).end
      PROVE  AsChunks(rfind_chunk(sblock_vector, index_, set_end(assign(0, len), e), s,
                                  domain, HardBS, edge).b)
               = BM!rfind_chunk(Abs(sblock_vector), InDomains(domain), e, min(len, e), s,
                                HardBS, edge)
    BY <1>1, <1>2, RfindIsAbstract
<1>. QED  BY Zenon, <1>3, <1>4

\* The positions of a map that join_subsectors takes together are those linked.
LEMMA SubSectorIs ==
  ASSUME NEW m, m.end \in Nat, NEW p \in 0 .. m.end - 1
  PROVE  SubSector(m, p) = Linked(m.st, SectorsOf(HardBS), m.end, p)
<1>1. ASSUME NEW q \in 0 .. m.end - 1
      PROVE  /\ SectorsOf(HardBS)[q] = SectorsOf(HardBS)[p] <=> q \div HardBS = p \div HardBS
             /\ Together(m.st, p, q)
                  <=> \A r \in min(p, q) .. max(p, q) : m.st[r] # "finished"
  <2>1. p \in Nat /\ q \in Nat
      OBVIOUS
  <2>2. \A r \in Nat : (p <= r /\ r <= q) \/ (q <= r /\ r <= p)
                       <=> r \in min(p, q) .. max(p, q)
      BY <2>1 DEF min, max, BM!Smaller, BM!Larger
  <2>3. min(p, q) .. max(p, q) \in SUBSET Nat
      BY <2>1 DEF min, max, BM!Smaller, BM!Larger
  <2>4. Together(m.st, p, q) <=> \A r \in min(p, q) .. max(p, q) : m.st[r] # "finished"
      BY Zenon, <2>2, <2>3 DEF Together
  <2>. QED  BY <2>1, <2>4 DEF SectorsOf
<1>. QED  BY Zenon, <1>1 DEF SubSector, Linked

LEMMA JoinsToLeast == TypeOK => JoinsToLeastProcessed
<1> SUFFICES ASSUME TypeOK  PROVE JoinsToLeastProcessed
    OBVIOUS
<1> DEFINE u   == sblock_vector
           v   == compact_sblock_vector(u)
           w   == join_subsectors(v, HardBS)
           old == Abs(v)
           new == Abs(w)
           d   == SectorsOf(HardBS)
<1>1. HardBS \in Nat \ {0}
    BY SizesAssumption
<1>2. IsVector(v)
  <2>1. Consecutive(u) /\ u # <<>> /\ u[1].pos = 0
      BY DEF TypeOK, IsVector
  <2> DEFINE f == u[1]
             l == u[Len(u)]
  <2> HIDE DEF u
  <2>2. Row(v, f, l)
      BY <2>1, CompactIsSame
  <2>3. f.pos = 0
      BY <2>1
  <2> HIDE DEF f, l, v
  <2>. QED  BY <2>2, <2>3, RowIsVector
<1> HIDE DEF v
<1>3. Consecutive(v) /\ v # <<>> /\ v[1].pos = 0
    BY <1>2 DEF IsVector
<1>4. IsVector(w) /\ end(w[Len(w)]) = end(v[Len(v)])
  <2> DEFINE f == v[1]
             l == v[Len(v)]
  <2>1. Row(w, f, l)
      BY <1>1, <1>3, JoinIsGentle
  <2>2. f.pos = 0
      BY <1>3
  <2> HIDE DEF f
  <2>3. IsVector(w)
    <3> HIDE DEF w, l
    <3>. QED  BY <2>1, <2>2, RowIsVector
  <2>4. end(w[Len(w)]) = end(l)
      BY Zenon, <2>1 DEF Row
  <2>. QED  BY Zenon, <2>3, <2>4 DEF l
<1>5. old.end = end(v[Len(v)]) /\ old.end \in Nat /\ new.end = old.end
  <2>1. old.end = end(v[Len(v)]) /\ old.end \in Nat
      BY <1>2, AbsIs
  <2>2. new.end = end(w[Len(w)])
    <3> HIDE DEF w
    <3>. QED  BY <1>4, AbsIs
  <2>. QED  BY Zenon, <1>4, <2>1, <2>2
<1>6. \A i \in 1 .. Len(v) : \A q \in Bytes(v[i]) : old.st[q] = v[i].st
  <2>1. ASSUME NEW i \in 1 .. Len(v), NEW q \in Bytes(v[i])  PROVE old.st[q] = v[i].st
    <3>1. v[i].pos \in Nat /\ end(v[i]) \in Nat
        BY <1>2, BlockTypes
    <3>2. q \in Nat /\ includes_pos(v[i], q)
        BY <3>1 DEF Bytes, includes_pos
    <3>. QED  BY <1>2, <3>2, AbsStatus
  <2>. QED  BY <2>1
<1>7. \A q \in 0 .. old.end - 1 : old.st[q] \in Status
  <2>1. ASSUME NEW q \in 0 .. old.end - 1  PROVE old.st[q] \in Status
    <3>1. PICK x \in BlocksOf(v) : includes_pos(x, q)
        BY <1>2, AbsByBlocks
    <3>2. GoodBlock(x) /\ old.st[q] = x.st
        BY <1>2, <1>5, <3>1, AbsByBlocks
    <3>. QED  BY <3>2 DEF GoodBlock, Blocks
  <2>. QED  BY <2>1
<1>8. \A z \in BlocksOf(w) : LeastOf(z, old.st, d, old.end)
  <2> DEFINE g == old.st
             e == end(v[Len(v)])
  <2>1. /\ \A q \in 0 .. e - 1 : g[q] \in Status
        /\ \A i \in 1 .. Len(v) : \A q \in Bytes(v[i]) : g[q] = v[i].st
      BY <1>5, <1>6, <1>7
  <2> HIDE DEF g
  <2>2. \A z \in BlocksOf(w) : LeastOf(z, g, d, e)
      BY <1>1, <1>3, <2>1, JoinIsLeastOfAll
  <2> HIDE DEF w, d, e
  <2>3. old.end = e
      BY Zenon, <1>5 DEF e
  <2>. QED  BY Zenon, <2>2, <2>3 DEF g
<1> HIDE DEF w, d
<1>9. ASSUME NEW p \in 0 .. old.end - 1  PROVE Least(new.st[p], old.st, d, old.end, p)
  <2>1. p \in Nat /\ p \in 0 .. new.end - 1
      BY <1>5
  <2>2. PICK z \in BlocksOf(w) : includes_pos(z, p)
      BY <1>4, <2>1, AbsByBlocks
  <2>3. new.st[p] = z.st
      BY <1>4, <2>1, <2>2, AbsByBlocks
  <2>4. z.pos <= p /\ p < end(z)
      BY <2>2 DEF includes_pos
  <2>5. Least(z.st, old.st, d, old.end, p)
      BY <1>8, <2>1, <2>4 DEF LeastOf
  <2>. QED  BY Zenon, <2>3, <2>5
<1> HIDE DEF old, new
<1>10. ASSUME NEW p \in 0 .. old.end - 1
       PROVE  IF old.st[p] = "finished" THEN new.st[p] = "finished"
              ELSE LET ranks == {processed_state[old.st[q]] : q \in SubSector(old, p)}
                   IN  processed_state[new.st[p]] \in BM!First(ranks)
  <2>1. SubSector(old, p) = Linked(old.st, d, old.end, p)
      BY <1>5, SubSectorIs DEF d
  <2> DEFINE f == old.st
             s == new.st[p]
             T == SubSector(old, p)
             ranks == {processed_state[f[q]] : q \in T}
  <2>2. IF f[p] = "finished" THEN s = "finished"
        ELSE /\ \E q \in T : processed_state[s] = processed_state[f[q]]
             /\ \A q \in T : processed_state[s] <= processed_state[f[q]]
      BY Zenon, <1>9, <2>1 DEF Least
  <2> HIDE DEF T, f, s
  <2>3. IF f[p] = "finished" THEN s = "finished" ELSE processed_state[s] \in BM!First(ranks)
    <3>1. CASE f[p] = "finished"
        BY <2>2, <3>1
    <3>2. CASE f[p] # "finished"
      <4>1. processed_state[s] \in ranks
          BY <2>2, <3>2
      <4>2. \A r \in ranks : processed_state[s] <= r
          BY <2>2, <3>2
      <4> HIDE DEF ranks
      <4>. QED  BY <3>2, <4>1, <4>2 DEF BM!First
    <3>. QED  BY <3>1, <3>2
  <2>. QED  BY Zenon, <2>3 DEF f, s, T
<1>. QED  BY <1>10 DEF JoinsToLeastProcessed, old, new, w, v

\* A vector split at the borders of the domain is a sound map.
LEMMA SplitIsSound ==
  ASSUME NEW v, IsVector(v), NEW d, IsDomain(d), SplitFrom(BlocksOf(v), d, 1)
  PROVE  A!Sound(Abs(v), InDomains(d))
<1> DEFINE m == Abs(v)
<1>1. A!Uniform(m)
  <2>1. BM!Uniform(m)
      BY AbsIsMap
  <2>. QED  BY Zenon, <2>1 DEF A!Uniform, BM!Uniform, A!Positions, BM!Positions,
                   A!SameBlock, BM!SameBlock
<1>2. BM!SplitByDomain(m, InDomains(d))
  <2> SUFFICES ASSUME NEW p \in 0 .. m.end - 1, NEW q \in 0 .. m.end - 1,
                      BM!SameBlock(m, p, q)
               PROVE  p \in InDomains(d) <=> q \in InDomains(d)
      BY Zenon DEF BM!SplitByDomain, BM!Positions
  <2>1. PICK i \in 1 .. Len(v) : includes_pos(v[i], p)
      BY AbsIs
  <2>2. BM!Block(m, p) = Bytes(v[i]) /\ m.end \in Nat /\ p \in Nat
    <3>0. m.end \in Nat
        BY AbsIs
    <3> HIDE DEF m
    <3>1. m.end \in Nat /\ p \in Nat
        BY <3>0
    <3>. QED  BY <2>1, <3>1, BlockAbs DEF m
  <2>3. GoodBlock(v[i]) /\ v[i] \in BlocksOf(v)
      BY VectorBlocks DEF BlocksOf
  <2>4. p \in Bytes(v[i])
      BY <2>1, <2>2, <2>3, HoldsByte
  <2>5. q \in Bytes(v[i])
    <3>1. q \in BM!Block(m, p)
      <4> HIDE DEF m
      <4>. QED  BY Zenon DEF BM!Block, BM!Positions
    <3>. QED  BY Zenon, <2>2, <3>1
  <2>6. SplitFrom({v[i]}, d, 1)
      BY <2>3 DEF SplitFrom
  <2> DEFINE x == v[i]
  <2> HIDE DEF x
  <2>7. GoodBlock(x) /\ SplitFrom({x}, d, 1) /\ p \in Bytes(x) /\ q \in Bytes(x)
      BY Zenon, <2>3, <2>4, <2>5, <2>6 DEF x
  <2>. QED  BY Zenon, <2>7, InOrOut
<1>3. A!SplitByDomain(m, InDomains(d))
    BY Zenon, <1>2 DEF A!SplitByDomain, BM!SplitByDomain, A!Positions, BM!Positions,
            A!SameBlock, BM!SameBlock
<1>. QED  BY Zenon, <1>1, <1>3 DEF A!Sound

\* A load that is gentle to the blocks is one to the map.
LEMMA GentleIsLoad ==
  ASSUME NEW v, IsVector(v), NEW w, IsVector(w), Gentle(BlocksOf(w), BlocksOf(v)),
         NEW d, IsDomain(d), SplitFrom(BlocksOf(w), d, 1)
  PROVE  A!Loaded(Abs(v), Abs(w), InDomains(d))
<1> DEFINE old == Abs(v)
           new == Abs(w)
<1>1. A!Sound(new, InDomains(d))
    BY SplitIsSound
<1>2. /\ \A x \in BlocksOf(v) : GoodBlock(x) /\ end(x) <= old.end
      /\ \A x \in BlocksOf(v), p \in Nat : includes_pos(x, p) => old.st[p] = x.st
      /\ \A p \in 0 .. old.end - 1 : \E x \in BlocksOf(v) : includes_pos(x, p)
    BY AbsByBlocks
<1>3. /\ \A x \in BlocksOf(w) : GoodBlock(x) /\ end(x) <= new.end
      /\ \A x \in BlocksOf(w), p \in Nat : includes_pos(x, p) => new.st[p] = x.st
      /\ \A p \in 0 .. new.end - 1 : \E x \in BlocksOf(w) : includes_pos(x, p)
    BY AbsByBlocks
<1>4. old.end \in Nat /\ new.end \in Nat
    BY AbsIs
<1> HIDE DEF old, new
<1>5. ASSUME NEW p \in 0 .. old.end - 1, old.st[p] = "finished"
      PROVE  p < new.end /\ new.st[p] = "finished"
  <2>0. p \in Nat
      BY <1>4
  <2>1. PICK y \in BlocksOf(v) : includes_pos(y, p)
      BY <1>2
  <2>2. y.st = "finished" /\ p \in Bytes(y)
    <3>1. GoodBlock(y) /\ old.st[p] = y.st
        BY Zenon, <1>2, <2>0, <2>1
    <3>2. p \in Bytes(y)
        BY <2>0, <2>1, <3>1, HoldsByte
    <3>. QED  BY Zenon, <1>5, <3>1, <3>2
  <2>3. PICK x \in BlocksOf(w) : p \in Bytes(x) /\ x.st = "finished"
      BY Zenon, <2>2 DEF Gentle, FinishedKept
  <2>4. GoodBlock(x) /\ end(x) <= new.end
      BY Zenon, <1>3
  <2>5. includes_pos(x, p)
      BY <2>3, <2>4, HoldsByte
  <2>6. new.st[p] = "finished"
      BY Zenon, <1>3, <2>0, <2>3, <2>5
  <2>7. p < new.end
      BY <1>4, <2>0, <2>4, <2>5 DEF includes_pos, GoodBlock, Blocks, end
  <2>. QED  BY <2>6, <2>7
<1>6. ASSUME NEW p \in 0 .. new.end - 1
      PROVE  processed_state[new.st[p]] <=
               (IF p < old.end THEN processed_state[old.st[p]] ELSE 0)
  <2>0. p \in Nat
      BY <1>4
  <2>1. PICK x \in BlocksOf(w) : includes_pos(x, p)
      BY <1>3
  <2>2. GoodBlock(x) /\ new.st[p] = x.st
      BY Zenon, <1>3, <2>0, <2>1
  <2>3. p \in Bytes(x)
      BY <2>0, <2>1, <2>2, HoldsByte
  <2>4. Rank(x) = processed_state[new.st[p]] /\ Rank(x) \in 0 .. 4
    <3>1. x.st \in Status
        BY <2>2 DEF GoodBlock, Blocks
    <3>. QED  BY Zenon, <2>2, <3>1, Ranks DEF Rank
  <2>5. Rank(x) = 0 \/ \E y \in BlocksOf(v) : p \in Bytes(y) /\ Rank(x) <= Rank(y)
      BY Zenon, <2>3 DEF Gentle, NoMoreProcessed
  <2>6. CASE Rank(x) = 0
    <3>1. ASSUME p < old.end  PROVE processed_state[old.st[p]] \in 0 .. 4
      <4>1. p \in 0 .. old.end - 1
          BY <1>4, <2>0, <3>1
      <4>2. PICK y \in BlocksOf(v) : includes_pos(y, p)
          BY <1>2, <4>1
      <4>3. old.st[p] = y.st /\ GoodBlock(y)
          BY Zenon, <1>2, <2>0, <4>2
      <4>4. y.st \in Status
          BY <4>3 DEF GoodBlock, Blocks
      <4>. QED  BY Zenon, <4>3, <4>4, Ranks
    <3> DEFINE r == processed_state[old.st[p]]
    <3> HIDE DEF r
    <3>2. p < old.end => r \in 0 .. 4
        BY Zenon, <3>1 DEF r
    <3>3. processed_state[new.st[p]] = 0
        BY Zenon, <2>4, <2>6
    <3>4. 0 <= (IF p < old.end THEN r ELSE 0)
        BY <3>2
    <3>. QED  BY Zenon, <3>3, <3>4 DEF r
  <2>7. CASE Rank(x) # 0
    <3>1. PICK y \in BlocksOf(v) : p \in Bytes(y) /\ Rank(x) <= Rank(y)
        BY Zenon, <2>5, <2>7
    <3>2. GoodBlock(y) /\ end(y) <= old.end
        BY Zenon, <1>2
    <3>3. includes_pos(y, p)
        BY <3>1, <3>2, HoldsByte
    <3>4. old.st[p] = y.st
        BY Zenon, <1>2, <2>0, <3>3
    <3>5. p < old.end
        BY <1>4, <2>0, <3>2, <3>3 DEF includes_pos, GoodBlock, Blocks, end
    <3>6. processed_state[new.st[p]] <= processed_state[old.st[p]]
        BY Zenon, <2>4, <3>1, <3>4 DEF Rank
    <3>. QED  BY Zenon, <3>5, <3>6
  <2>. QED  BY <2>6, <2>7
<1>7. processed_state = A!processed_state
    BY Zenon DEF processed_state, BM!processed_state, A!processed_state, BM!Status, A!Status
<1>8. \A p \in A!Positions(old) :
        old.st[p] = "finished" => p < new.end /\ new.st[p] = "finished"
    BY Zenon, <1>5 DEF A!Positions
<1>9. \A p \in A!Positions(new) :
         A!processed_state[new.st[p]] <=
           (IF p < old.end THEN A!processed_state[old.st[p]] ELSE 0)
    BY Zenon, <1>6, <1>7 DEF A!Positions
<1>. QED  BY Zenon, <1>1, <1>8, <1>9 DEF A!Loaded, old, new

-----------------------------------------------------------------------------
(***************************************************************************)
(* A run begins.                                                           *)
(***************************************************************************)
RunBegins(u, v, w, dom) ==
  \E d \in Domains, insize \in InSizes, rescue \in BOOLEAN :
    LET book == Mapbook(u, d, insize, FALSE, rescue, HardBS)
    IN  /\ SameForRun(u, v, insize)
        /\ book.ok /\ ~empty(book.domain)
        /\ w = book.v /\ dom = book.domain

LEMMA RunBeginsGently ==
  ASSUME NEW u, NEW v, NEW w, NEW dom, RunBegins(u, v, w, dom)
  PROVE  /\ IsVector(w) /\ Gentle(BlocksOf(w), BlocksOf(v))
         /\ IsDomain(dom) /\ SplitFrom(BlocksOf(w), dom, 1)
<1> DEFINE c == FALSE
<1>1. c \in BOOLEAN /\ ~c
    OBVIOUS
<1> DEFINE made(d, insize, rescue) == Mapbook(u, d, insize, c, rescue, HardBS)
<1>2. PICK d \in Domains, insize \in InSizes, rescue \in BOOLEAN :
        /\ SameForRun(u, v, insize)
        /\ made(d, insize, rescue).ok /\ ~empty(made(d, insize, rescue).domain)
        /\ w = made(d, insize, rescue).v /\ dom = made(d, insize, rescue).domain
    BY Zenon DEF RunBegins
<1>3. IsRunDomain(d) /\ insize \in 0 .. LLONG_MAX /\ HardBS \in Nat \ {0}
    BY InputsAssumption, SizesAssumption
<1> DEFINE book == made(d, insize, rescue)
<1> HIDE DEF c
<1>4. book = Mapbook(u, d, insize, c, rescue, HardBS)
    BY Zenon
<1> HIDE DEF made, book
<1>5. book.ok /\ ~empty(book.domain) /\ w = book.v /\ dom = book.domain
    BY Zenon, <1>2 DEF book
<1>6. /\ IsVector(book.v) /\ Gentle(BlocksOf(book.v), BlocksOf(v))
      /\ IsDomain(book.domain) /\ SplitFrom(BlocksOf(book.v), book.domain, 1)
    BY Zenon, <1>1, <1>2, <1>3, <1>4, <1>5, MapbookIsGentle
<1>. QED  BY Zenon, <1>5, <1>6

LEMMA InitIsSound ==
  ASSUME Init  PROVE  TypeOK /\ A!Init
<1> DEFINE file(lines) == read_mapfile(lines, "none")
<1>1. PICK lines \in Files, d \in Domains, insize \in InSizes, rescue \in BOOLEAN :
        LET book == Mapbook(file(lines).v, d, insize, FALSE, rescue, HardBS)
        IN  /\ file(lines).ok /\ book.ok /\ ~empty(book.domain)
            /\ sblock_vector = book.v /\ domain = book.domain /\ index_ = 1
    BY Zenon DEF Init
<1>2. IsMapLines(lines) /\ insize \in 0 .. LLONG_MAX
    BY InputsAssumption
<1>3. PICK v : SameForRun(file(lines).v, v, insize)
    BY Zenon, <1>1, <1>2, ReadForRun
<1>4. RunBegins(file(lines).v, v, sblock_vector, domain)
    BY Zenon, <1>1, <1>3 DEF RunBegins
<1>5. IsVector(sblock_vector) /\ IsDomain(domain) /\ SplitFrom(BlocksOf(sblock_vector), domain, 1)
    BY Zenon, <1>4, RunBeginsGently
<1>6. index_ \in Nat
    BY <1>1
<1>7. A!Sound(Abs(sblock_vector), InDomains(domain))
    BY Zenon, <1>5, SplitIsSound
<1>. QED  BY Zenon, <1>5, <1>6, <1>7 DEF TypeOK, A!Init

\* Another run reads the blocks that were saved, and begins on them.
LEMMA RerunIsLoad ==
  ASSUME TypeOK, Rerun  PROVE  TypeOK' /\ A!Load
<1> DEFINE v == sblock_vector
           u == compact_sblock_vector(v)
           file == read_mapfile(u, "none")
<1>1. IsVector(v)
    BY DEF TypeOK
<1>2. Consecutive(u) /\ Same(BlocksOf(u), BlocksOf(v))
  <2>1. Row(u, v[1], v[Len(v)]) /\ Same(BlocksOf(u), BlocksOf(v))
      BY Zenon, <1>1, CompactIsSame DEF IsVector
  <2>. QED  BY Zenon, <2>1 DEF Row
<1>3. file.ok /\ Begin(file.v)
    BY Zenon DEF Rerun
<1> HIDE DEF u
<1>4. file.v = u
  <2>1. u \in Seq(Blocks) /\ \A i \in 1 .. Len(u) : GoodBlock(u[i])
      BY Zenon, <1>2, GoodBlocks
  <2>. QED  BY Zenon, <1>3, <2>1, ReadIs
<1>5. Begin(u)
    BY Zenon, <1>3, <1>4
<1>6. \A n : SameForRun(u, u, n)
    BY Zenon, <1>2 DEF SameForRun
<1>7. RunBegins(u, u, sblock_vector', domain') /\ index_' = 1
    BY Zenon, <1>5, <1>6 DEF Begin, RunBegins
<1>8. /\ IsVector(v') /\ Gentle(BlocksOf(v'), BlocksOf(u))
      /\ IsDomain(domain') /\ SplitFrom(BlocksOf(v'), domain', 1)
    BY Zenon, <1>7, RunBeginsGently
<1>9. Gentle(BlocksOf(v'), BlocksOf(v))
  <2> DEFINE V == BlocksOf(v)
             U == BlocksOf(u)
             W == BlocksOf(v')
  <2>1. V \in SUBSET Blocks /\ U \in SUBSET Blocks /\ W \in SUBSET Blocks
    <3>1. v \in Seq(Blocks) /\ u \in Seq(Blocks) /\ v' \in Seq(Blocks)
        BY Zenon, <1>1, <1>2, <1>8 DEF IsVector, Consecutive
    <3> DEFINE w == v'
    <3> HIDE DEF w
    <3>2. w \in Seq(Blocks)
        BY Zenon, <3>1 DEF w
    <3>3. BlocksOf(w) \in SUBSET Blocks
        BY <3>2, TheirBlocks
    <3>4. V \in SUBSET Blocks /\ U \in SUBSET Blocks
        BY <3>1, TheirBlocks
    <3>. QED  BY Zenon, <3>3, <3>4 DEF w
  <2>2. Gentle(W, U) /\ Same(U, V)
      BY Zenon, <1>2, <1>8
  <2> HIDE DEF V, U, W
  <2>3. Gentle(U, V)
      BY <2>1, <2>2, SameIsGentle
  <2>4. Gentle(W, V)
      BY <2>1, <2>2, <2>3, GentleTransitive
  <2>. QED  BY Zenon, <2>4 DEF V, W
<1>10. TypeOK'
  <2>1. index_' \in Nat
      BY <1>7
  <2>. QED  BY Zenon, <1>8, <2>1 DEF TypeOK
<1>11. A!Load
  <2> DEFINE w == v'
             d == domain'
  <2>1. /\ IsVector(w) /\ Gentle(BlocksOf(w), BlocksOf(v))
        /\ IsDomain(d) /\ SplitFrom(BlocksOf(w), d, 1)
      BY Zenon, <1>8, <1>9
  <2> HIDE DEF w, d
  <2>2. A!Loaded(Abs(v), Abs(w), InDomains(d))
      BY Zenon, <1>1, <2>1, GentleIsLoad
  <2>. QED  BY Zenon, <2>2 DEF A!Load, w, d
<1>. QED  BY Zenon, <1>10, <1>11

LEMMA StepKeepsTypes ==
  ASSUME TypeOK, [Next]_vars  PROVE  TypeOK'
<1>1. CASE ChangeInRun
    BY Zenon, <1>1, ChangeKeepsVector
<1>2. CASE Rerun
    BY Zenon, <1>2, RerunIsLoad
<1>3. CASE UNCHANGED vars
    BY <1>3 DEF TypeOK, vars
<1>. QED  BY <1>1, <1>2, <1>3 DEF Next, ChangeInRun

LEMMA StepKeepsSound ==
  ASSUME TypeOK, A!Sound(Abs(sblock_vector), InDomains(domain)), [Next]_vars
  PROVE  A!Sound(Abs(sblock_vector), InDomains(domain))'
<1>1. CASE ChangeInRun
    BY <1>1, StepKeepsSplit
<1>2. CASE Rerun
  <2>1. A!Loaded(Abs(sblock_vector), Abs(sblock_vector)', InDomains(domain)')
      BY Zenon, <1>2, RerunIsLoad DEF A!Load
  <2>. QED  BY Zenon, <2>1 DEF A!Loaded
<1>3. CASE UNCHANGED vars
  <2>1. sblock_vector' = sblock_vector /\ domain' = domain
      BY <1>3 DEF vars
  <2>. QED  BY Zenon, <2>1
<1>. QED  BY <1>1, <1>2, <1>3 DEF Next, ChangeInRun

LEMMA StepIsAbstract ==
  ASSUME TypeOK, [Next]_vars  PROVE  [A!Next]_(A!vars)
<1>1. CASE ChangeInRun
    BY Zenon, <1>1, StepImplements DEF A!Next
<1>2. CASE Rerun
    BY Zenon, <1>2, RerunIsLoad DEF A!Next
<1>3. CASE UNCHANGED vars
  <2>1. sblock_vector' = sblock_vector /\ domain' = domain
      BY <1>3 DEF vars
  <2>2. (A!vars)' = A!vars
      BY <2>1 DEF A!vars
  <2>. QED  BY Zenon, <2>2
<1>. QED  BY <1>1, <1>2, <1>3 DEF Next, ChangeInRun

-----------------------------------------------------------------------------
(***************************************************************************)
(* Theorems about the mapfile in memory.                                   *)
(***************************************************************************)

\* The mapfile in memory is always a vector of consecutive blocks of positive size
\* from 0 on, within the range of long long, with a domain of separate blocks in
\* order (TypeOK): whatever is read, extended, compacted, joined, split, found,
\* changed, marked and cut off.
THEOREM VectorStaysSound == Spec => []TypeOK
<1>1. Init => TypeOK
    BY InitIsSound
<1>2. TypeOK /\ [Next]_vars => TypeOK'
    BY StepKeepsTypes
<1>. QED  BY <1>1, <1>2, PTL DEF Spec

\* find_index finds the block of any position from any index left in the cache
\* (IndexFromAnyCache), in every state of the mapfile.
THEOREM CacheIsHarmless == Spec => []IndexFromAnyCache
<1>1. TypeOK => IndexFromAnyCache
    BY FoundFromAnyCache
<1>. QED  BY <1>1, VectorStaysSound, PTL

\* The operations on a block keep within the range of long long, whatever they are
\* given (BlocksSaturate), in every state of the mapfile.
THEOREM OperationsSaturate == Spec => []BlocksSaturate
<1>1. TypeOK => BlocksSaturate
  <2> SUFFICES ASSUME TypeOK, NEW i \in DOMAIN sblock_vector
               PROVE  sblock_vector[i] \in Sblocks
      BY SaturateInRange
  <2>1. i \in 1 .. Len(sblock_vector)
      BY VectorTypes DEF TypeOK
  <2> DEFINE b == sblock_vector[i]
  <2>2. /\ b \in Blocks /\ b.pos \in Nat /\ b.size \in Nat
        /\ end(b) \in Nat /\ end(b) <= LLONG_MAX
    <3>1. IsVector(sblock_vector)
        BY DEF TypeOK
    <3>. QED  BY <2>1, <3>1, BlockTypes
  <2> HIDE DEF b
  <2>3. InRange(b)
      BY <2>2 DEF InRange
  <2>. QED  BY <2>2, <2>3 DEF Sblocks, Blocks, b
<1>. QED  BY <1>1, VectorStaysSound, PTL

\* Searching the vector finds the chunk that BlockMap finds (FindsWhatIsThere), in
\* both directions, from any position, of any size, with and without a finished
\* block beside it, whatever index the cache holds: so the passes and phases of
\* a rescue, which are modelled on BlockMap, read the chunks that the program reads.
THEOREM SearchIsFaithful == Spec => []FindsWhatIsThere
<1>1. TypeOK => FindsWhatIsThere
    BY SearchFinds
<1>. QED  BY <1>1, VectorStaysSound, PTL

\* The count of bad areas stays exact (AdjustExact): in every state, what
\* change_chunk_status returns for a chunk is the difference that the change makes.
\* It takes that no border of the domain lies inside of a block, which the load
\* sees to and no step undoes.
THEOREM CountStaysExact == Spec => []AdjustExact
<1> DEFINE S == A!Sound(Abs(sblock_vector), InDomains(domain))
<1>1. Init => TypeOK /\ S
    BY Zenon, InitIsSound DEF A!Init
<1>2. TypeOK /\ S /\ [Next]_vars => TypeOK' /\ S'
    BY StepKeepsTypes, StepKeepsSound
<1>3. TypeOK /\ S => AdjustExact
    BY AdjustIsExact
<1> HIDE DEF S
<1>. QED  BY <1>1, <1>2, <1>3, PTL DEF Spec

\* Joining the subsectors of the map of any state gives each of them its least
\* processed status (JoinsToLeastProcessed), for sectors of any size.
THEOREM SubsectorsJoinToLeast == Spec => []JoinsToLeastProcessed
<1>1. TypeOK => JoinsToLeastProcessed
    BY JoinsToLeast
<1>. QED  BY <1>1, VectorStaysSound, PTL

\* The mapfile in memory implements AbstractMap (AbstractSpec): the vector with its
\* splits, joins and shifted boundaries does what the map of BlockMap does when a
\* chunk is changed, a block is marked or the map is cut off, and to save it and
\* to load it again keeps what is finished, takes nothing for more processed than
\* it was, and leaves no border of the domain inside of a block.
THEOREM MapIsImplemented == Spec => AbstractSpec
<1>1. Init => A!Init
    BY InitIsSound
<1>2. TypeOK /\ [Next]_vars => [A!Next]_(A!vars)
    BY StepIsAbstract
<1>3. AbstractSpec <=> A!Init /\ [][A!Next]_(A!vars)
    BY DEF AbstractSpec, A!Spec
<1>. QED  BY <1>1, <1>2, <1>3, VectorStaysSound, PTL DEF Spec
=============================================================================
