--------------------------- MODULE BlockMapProofs ---------------------------
(***************************************************************************)
(* Lemmas about the operations on block maps, for every map, domain and    *)
(* chunk: what each one returns, keeps and changes.                        *)
(***************************************************************************)
EXTENDS BlockMap, FiniteSetTheorems, WellFoundedInduction, TLAPS

IsChunk(b) == b \in [pos : Nat, end : Nat]

-----------------------------------------------------------------------------
(***************************************************************************)
(* Blocks.                                                                 *)
(***************************************************************************)

\* The fields of a map have their types.
LEMMA MapTypes ==
  ASSUME NEW m, IsMap(m)
  PROVE  /\ m.end \in Nat /\ m.cuts \subseteq Nat /\ m.st \in [Positions(m) -> Status]
         /\ \A p \in Positions(m) : p \in Nat /\ p < m.end /\ m.st[p] \in Status
         /\ \A p \in Nat : p < m.end => p \in Positions(m)
         /\ \A c \in m.cuts : c \in Positions(m) /\ c \in Nat /\ c < m.end
BY DEF IsMap, Positions

\* A block that lies in the domain at one position lies in it.
LEMMA BlockInDomain ==
  ASSUME NEW m, NEW dom, SplitByDomain(m, dom), NEW p \in Positions(m), p \in dom
  PROVE  InDomain(m, p, dom)
BY DEF SplitByDomain, InDomain, Block

\* A block in the domain holds its own position.
LEMMA InDomainIn ==
  ASSUME NEW m, NEW dom, NEW p \in Positions(m), IsMap(m), InDomain(m, p, dom)
  PROVE  p \in dom
BY MapTypes DEF InDomain, Block, SameBlock

\* The positions that have a status in the domain, and the first sectors of the
\* bad areas, can be counted.
LEMMA CountsAreInts ==
  ASSUME NEW m, IsMap(m), NEW dom, NEW s
  PROVE  SizeOf(m, dom, s) \in Nat /\ AreasOf(m, dom) \in Nat
<1>1. IsFiniteSet(Positions(m))
  BY FS_Interval, MapTypes DEF Positions
<1>2. \A S : S \subseteq Positions(m) => Cardinality(S) \in Nat
  BY <1>1, FS_Subset, FS_CardinalityType
<1>3. SizeOf(m, dom, s) \in Nat
  BY <1>2 DEF SizeOf
<1>4. AreasOf(m, dom) \in Nat
  BY <1>2 DEF AreasOf, IsMap
<1> QED BY <1>3, <1>4

\* So can the blocks on one side of a block.
LEMMA CutsCount ==
  ASSUME NEW m, IsMap(m), NEW S \in SUBSET m.cuts
  PROVE  Cardinality(S) \in Nat
<1>1. IsFiniteSet(Positions(m))
  BY FS_Interval, MapTypes DEF Positions
<1> QED BY <1>1, FS_Subset, FS_CardinalityType DEF IsMap

-----------------------------------------------------------------------------
(***************************************************************************)
(* The operations return maps.                                             *)
(***************************************************************************)

\* change_chunk returns a map of the same size.
LEMMA ChangeChunkIsMap ==
  ASSUME NEW m, IsMap(m), NEW dom, NEW b, IsChunk(b), b.pos < b.end,
         NEW s \in Status
  PROVE  IsMap(change_chunk(m, dom, b, s)) /\ change_chunk(m, dom, b, s).end = m.end
<1> DEFINE mm == change_chunk(m, dom, b, s)
<1>1. CASE m.st[b.pos] = s
  BY <1>1 DEF change_chunk
<1>2. CASE m.st[b.pos] # s
  <2>1. mm.end = m.end
    BY <1>2 DEF change_chunk
  <2>2. /\ mm.cuts \subseteq m.cuts \cup Borders(m, b)
        /\ 0 \in m.cuts => 0 \in mm.cuts
    BY <1>2 DEF change_chunk, IsChunk, JoinsLeft
  <2>3. mm.cuts \subseteq Positions(m)
    BY <2>2, MapTypes DEF Borders, IsChunk, IsMap
  <2>4. mm.st \in [Positions(m) -> Status]
    BY <1>2, MapTypes DEF change_chunk
  <2>5. mm = [end |-> mm.end, cuts |-> mm.cuts, st |-> mm.st]
    BY <1>2 DEF change_chunk
  <2> HIDE DEF mm
  <2>6. IsMap(mm)
    BY <2>1, <2>2, <2>3, <2>4, <2>5 DEF IsMap, Positions
  <2> QED BY <2>1, <2>6 DEF mm
<1> QED BY <1>1, <1>2

\* truncate_vector returns a map that ends where it is told to, or before.
LEMMA TruncateIsMap ==
  ASSUME NEW m, IsMap(m), NEW end \in Nat
  PROVE  /\ IsMap(truncate_vector(m, end))
         /\ truncate_vector(m, end).end = Smaller(m.end, end)
<1>1. Smaller(m.end, end) \in Nat /\ Smaller(m.end, end) <= m.end
  BY MapTypes DEF Smaller
<1> QED BY <1>1, MapTypes DEF truncate_vector, IsMap, Positions

\* change_sblock_status changes no border and no other block.
LEMMA ChangeSblockIsMap ==
  ASSUME NEW m, IsMap(m), NEW c, NEW s \in Status
  PROVE  LET mm == change_sblock_status(m, c, s) IN
         /\ IsMap(mm) /\ mm.end = m.end /\ mm.cuts = m.cuts
         /\ mm.st = [p \in Positions(m) |-> IF p \in Block(m, c) THEN s ELSE m.st[p]]
<1> DEFINE st == [p \in Positions(m) |-> IF p \in Block(m, c) THEN s ELSE m.st[p]]
<1>1. st \in [Positions(m) -> Status]
  BY DEF IsMap
<1>2. change_sblock_status(m, c, s) = [end |-> m.end, cuts |-> m.cuts, st |-> st]
  <2>1. change_sblock_status(m, c, s) = [m EXCEPT !.st = st]
    BY DEF change_sblock_status
  <2> HIDE DEF st
  <2> QED BY <2>1 DEF IsMap
<1> HIDE DEF st
<1> QED BY <1>1, <1>2 DEF IsMap, Positions, st

\* compact only removes borders.
LEMMA CompactFields ==
  ASSUME NEW m, IsMap(m)
  PROVE  compact(m) = [end  |-> m.end,
                       cuts |-> {c \in m.cuts : c = 0 \/ m.st[c - 1] # m.st[c]},
                       st   |-> m.st]
<1> DEFINE cuts == {c \in m.cuts : c = 0 \/ m.st[c - 1] # m.st[c]}
<1>1. compact(m) = [m EXCEPT !.cuts = cuts]
  BY DEF compact
<1> HIDE DEF cuts
<1>2. compact(m) = [end |-> m.end, cuts |-> cuts, st |-> m.st]
  BY <1>1 DEF IsMap
<1> QED BY <1>2 DEF cuts

\* compact returns a map.
LEMMA CompactIsMap ==
  ASSUME NEW m, IsMap(m)
  PROVE  IsMap(compact(m))
<1> DEFINE cuts == {c \in m.cuts : c = 0 \/ m.st[c - 1] # m.st[c]}
<1>1. compact(m) = [end |-> m.end, cuts |-> cuts, st |-> m.st]
  BY CompactFields
<1>2. cuts \subseteq m.cuts /\ (0 \in m.cuts => 0 \in cuts)
  OBVIOUS
<1> HIDE DEF cuts
<1>3. m.end \in Nat /\ m.cuts \subseteq Positions(m) /\ (m.end > 0 => 0 \in m.cuts)
      /\ m.st \in [Positions(m) -> Status]
  BY DEF IsMap
<1> QED BY <1>1, <1>2, <1>3 DEF IsMap, Positions

-----------------------------------------------------------------------------
(***************************************************************************)
(* The chunks found.                                                       *)
(***************************************************************************)

\* Aligning the end of a chunk keeps its start and leaves something of it.
LEMMA AlignEnd ==
  ASSUME NEW p \in Nat, NEW e \in Nat, p < e, NEW a \in Nat \ {0}
  PROVE  LET b == align_end([pos |-> p, end |-> e], a)
         IN  IsChunk(b) /\ b.pos = p /\ p < b.end /\ b.end <= e
<1>1. e % a \in Nat /\ e % a <= e
  OBVIOUS
<1> QED BY <1>1 DEF align_end, IsChunk

\* Aligning the start keeps the end and leaves something.
LEMMA AlignPos ==
  ASSUME NEW p \in Nat, NEW e \in Nat, p < e, NEW a \in Nat \ {0}
  PROVE  LET b == align_pos([pos |-> p, end |-> e], a)
         IN  IsChunk(b) /\ p <= b.pos /\ b.pos < e /\ b.end = e
<1>1. a - (p % a) \in Nat
  OBVIOUS
<1> QED BY <1>1 DEF align_pos, IsChunk

\* The block that holds p reaches from its start to its end.
LEMMA BlockShape ==
  ASSUME NEW m, IsMap(m), NEW p \in Positions(m),
         NEW c \in BlockStart(m, p), NEW e \in BlockEnd(m, p)
  PROVE  /\ c \in Nat /\ e \in Nat /\ c <= p /\ p < e /\ e <= m.end
         /\ Block(m, p) = c .. e - 1
<1>1. c \in m.cuts /\ c \in Positions(m) /\ SameBlock(m, p, c)
  BY DEF BlockStart, Block
<1>2. /\ e \in Nat /\ e <= m.end /\ e - 1 \in Positions(m) /\ SameBlock(m, p, e - 1)
      /\ e < m.end => e \in m.cuts
  BY MapTypes DEF BlockEnd, Block
<1>3. \A q \in Block(m, p) : c <= q /\ q < e
  <2> SUFFICES ASSUME NEW q \in Block(m, p) PROVE c <= q /\ q < e
    OBVIOUS
  <2>1. q \in Positions(m) /\ SameBlock(m, p, q)
    BY DEF Block
  <2>2. c <= q
    BY <1>1, <2>1, MapTypes DEF SameBlock
  <2>3. q < e
    BY <1>1, <1>2, <2>1, MapTypes DEF SameBlock
  <2> QED BY <2>2, <2>3
<1>4. p \in Block(m, p)
  BY DEF Block, SameBlock
<1>5. \A q \in c .. e - 1 : q \in Block(m, p)
  <2> SUFFICES ASSUME NEW q \in c .. e - 1 PROVE q \in Block(m, p)
    OBVIOUS
  <2>1. q \in Positions(m)
    BY <1>1, <1>2, MapTypes DEF Positions
  <2>2. \A d \in m.cuts : d <= p <=> d <= q
    BY <1>1, <1>2, <2>1, MapTypes DEF SameBlock
  <2> QED BY <2>1, <2>2 DEF Block, SameBlock
<1>6. Block(m, p) \subseteq c .. e - 1
  BY <1>1, <1>2, <1>3, MapTypes DEF Block
<1> QED BY <1>1, <1>2, <1>3, <1>4, <1>5, <1>6, MapTypes

\* A block begins at each cut.
LEMMA CutStarts ==
  ASSUME NEW m, IsMap(m), NEW c \in m.cuts
  PROVE  c \in Positions(m) /\ c \in BlockStart(m, c)
BY MapTypes DEF BlockStart, Block, SameBlock

\* A chunk that change_chunk may be asked to change: it is not empty and lies in
\* one block, of status s, inside the domain.
Ready(m, dom, b, s) ==
  /\ b.pos < b.end /\ b.end <= m.end
  /\ Chunk(b) \subseteq dom /\ Chunk(b) \subseteq Block(m, b.pos)
  /\ \A p \in Chunk(b) : m.st[p] = s

\* A chunk within a block of status s in the domain is ready.
LEMMA WithinBlock ==
  ASSUME NEW m, IsMap(m), Uniform(m), NEW dom, NEW s, NEW c \in Positions(m),
         m.st[c] = s, InDomain(m, c, dom),
         NEW b, IsChunk(b), b.pos < b.end, Chunk(b) \subseteq Block(m, c)
  PROVE  Ready(m, dom, b, s)
<1>1. b.pos \in Chunk(b) /\ b.end - 1 \in Chunk(b)
  BY DEF Chunk, IsChunk
<1>2. \A p \in Chunk(b) : p \in Positions(m) /\ SameBlock(m, c, p) /\ p \in dom
  BY DEF Block, InDomain
<1>3. b.end <= m.end
  BY <1>1, <1>2, MapTypes DEF IsChunk
<1>4. \A p \in Chunk(b) : m.st[p] = s
  BY <1>2 DEF Uniform
<1>5. Chunk(b) \subseteq Block(m, b.pos)
  BY <1>1, <1>2 DEF Block, SameBlock
<1> QED BY <1>2, <1>3, <1>4, <1>5 DEF Ready

\* find_chunk finds a chunk that is ready, at pos or after it.
LEMMA FindChunk ==
  ASSUME NEW m, IsMap(m), NEW dom, NEW pos \in Nat, NEW len \in Nat \ {0}, NEW s,
         NEW align \in Nat \ {0}, NEW edge,
         NEW b \in find_chunk(m, dom, pos, len, s, align, edge)
  PROVE  /\ IsChunk(b) /\ pos <= b.pos /\ b.pos < b.end /\ b.end <= m.end
         /\ Uniform(m) => Ready(m, dom, b, s)
<1> DEFINE found(c, e) ==
      LET p == Larger(pos, c)
          x == [pos |-> p, end |-> Smaller(p + len, e)]
      IN  IF x.end = e THEN x ELSE align_end(x, align)
<1>1. PICK c \in First(BlocksFrom(m, dom, pos, s, edge)) :
        \E e \in BlockEnd(m, c) : b = found(c, e)
  BY DEF find_chunk
<1>2. PICK e \in BlockEnd(m, c) : b = found(c, e)
  BY <1>1
<1>3. /\ c \in m.cuts /\ (c >= pos \/ pos \in Block(m, c))
      /\ m.st[c] = s /\ InDomain(m, c, dom)
  BY <1>1 DEF First, BlocksFrom
<1>4. /\ c \in m.cuts /\ c \in Nat /\ c \in Positions(m)
  BY <1>1, MapTypes DEF First, BlocksFrom
<1>5. e \in Nat /\ c < e /\ e <= m.end /\ Block(m, c) = c .. e - 1
  BY <1>4, CutStarts, BlockShape
<1>6. pos < e
  BY <1>3, <1>4, <1>5
<1> DEFINE p == Larger(pos, c)
           x == [pos |-> p, end |-> Smaller(p + len, e)]
<1>7. /\ p \in Nat /\ pos <= p /\ c <= p /\ p < x.end /\ x.end <= e
      /\ x.end \in Nat
  BY <1>4, <1>5, <1>6 DEF Larger, Smaller
<1>8. IsChunk(b) /\ b.pos = p /\ p < b.end /\ b.end <= e
  <2>1. CASE x.end = e
    BY <1>2, <1>7, <2>1 DEF IsChunk
  <2>2. CASE x.end # e
    <3>1. b = align_end(x, align)
      BY <1>2, <2>2
    <3> HIDE DEF p
    <3>2. LET y == align_end([pos |-> p, end |-> x.end], align)
          IN  IsChunk(y) /\ y.pos = p /\ p < y.end /\ y.end <= x.end
      BY <1>7, AlignEnd
    <3> QED BY <1>5, <1>7, <3>1, <3>2 DEF IsChunk
  <2> QED BY <2>1, <2>2
<1>9. Chunk(b) \subseteq Block(m, c)
  BY <1>4, <1>5, <1>7, <1>8 DEF Chunk, IsChunk
<1>10. Uniform(m) => Ready(m, dom, b, s)
  BY <1>3, <1>4, <1>7, <1>8, <1>9, WithinBlock
<1> QED BY <1>5, <1>7, <1>8, <1>10, MapTypes DEF IsChunk

\* rfind_chunk finds a chunk that is ready, before end.
LEMMA RfindChunk ==
  ASSUME NEW m, IsMap(m), NEW dom, NEW end \in Nat, NEW len \in Nat \ {0}, NEW s,
         NEW align \in Nat \ {0}, NEW edge,
         NEW b \in rfind_chunk(m, dom, end, len, s, align, edge)
  PROVE  /\ IsChunk(b) /\ b.pos < b.end /\ b.end <= end /\ b.end <= m.end
         /\ Uniform(m) => Ready(m, dom, b, s)
<1> DEFINE found(c, e) ==
      LET t == Smaller(end, e)
          x == [pos |-> Larger(c, t - len), end |-> t]
      IN  IF x.pos = c THEN x ELSE align_pos(x, align)
<1>1. PICK c \in Last(BlocksUpTo(m, dom, end, s, edge)) :
        \E e \in BlockEnd(m, c) : b = found(c, e)
  BY DEF rfind_chunk
<1>2. PICK e \in BlockEnd(m, c) : b = found(c, e)
  BY <1>1
<1>3. c \in m.cuts /\ c < end /\ m.st[c] = s /\ InDomain(m, c, dom)
  BY <1>1 DEF Last, BlocksUpTo
<1>4. c \in Nat /\ c \in Positions(m)
  BY <1>3, MapTypes
<1>5. e \in Nat /\ c < e /\ e <= m.end /\ Block(m, c) = c .. e - 1
  BY <1>3, <1>4, CutStarts, BlockShape
<1> DEFINE t == Smaller(end, e)
           x == [pos |-> Larger(c, t - len), end |-> t]
<1>6. /\ t \in Nat /\ t <= end /\ t <= e /\ c <= x.pos /\ x.pos < t
      /\ x.pos \in Nat /\ x.end = t
  BY <1>3, <1>4, <1>5 DEF Larger, Smaller
<1>7. IsChunk(b) /\ c <= b.pos /\ b.pos < b.end /\ b.end = t
  <2>1. CASE x.pos = c
    BY <1>2, <1>6, <2>1 DEF IsChunk
  <2>2. CASE x.pos # c
    <3>1. b = align_pos(x, align)
      BY <1>2, <2>2
    <3> HIDE DEF t
    <3>2. LET y == align_pos([pos |-> x.pos, end |-> t], align)
          IN  IsChunk(y) /\ x.pos <= y.pos /\ y.pos < t /\ y.end = t
      BY <1>6, AlignPos
    <3> QED BY <1>4, <1>6, <3>1, <3>2 DEF IsChunk
  <2> QED BY <2>1, <2>2
<1>8. Chunk(b) \subseteq Block(m, c)
  BY <1>4, <1>5, <1>6, <1>7 DEF Chunk, IsChunk
<1>9. Uniform(m) => Ready(m, dom, b, s)
  BY <1>3, <1>4, <1>7, <1>8, WithinBlock
<1> QED BY <1>5, <1>6, <1>7, <1>9, MapTypes DEF IsChunk

-----------------------------------------------------------------------------
(***************************************************************************)
(* What changing a map does to its blocks.                                 *)
(***************************************************************************)

\* change_chunk gives the chunk its status and leaves every other position alone.
LEMMA ChangeChunkStatus ==
  ASSUME NEW m, IsMap(m), NEW dom, NEW b, IsChunk(b), NEW s, Ready(m, dom, b, s),
         NEW t \in Status, NEW p \in Positions(m)
  PROVE  change_chunk(m, dom, b, t).st[p] = IF p \in Chunk(b) THEN t ELSE m.st[p]
<1>1. b.pos \in Chunk(b)
  BY DEF Ready, Chunk, IsChunk
<1>2. CASE m.st[b.pos] = t
  BY <1>1, <1>2 DEF change_chunk, Ready
<1>3. CASE m.st[b.pos] # t
  BY <1>3 DEF change_chunk
<1> QED BY <1>2, <1>3

\* Two positions in one block after the change were in one block before it, out
\* of the chunk, or they both have the new status, inside the domain.
LEMMA ChangeChunkBlocks ==
  ASSUME NEW m, IsMap(m), NEW dom, Uniform(m), SplitByDomain(m, dom),
         NEW b, IsChunk(b), NEW s, Ready(m, dom, b, s), NEW t \in Status, s # t,
         NEW p \in Positions(m), NEW q \in Positions(m), p < q,
         SameBlock(change_chunk(m, dom, b, t), p, q)
  PROVE  LET st == change_chunk(m, dom, b, t).st IN
         \/ SameBlock(m, p, q) /\ p \notin Chunk(b) /\ q \notin Chunk(b)
         \/ st[p] = t /\ st[q] = t /\ p \in dom /\ q \in dom
<1> DEFINE mm == change_chunk(m, dom, b, t)
<1>1. /\ p \in Nat /\ q \in Nat /\ p < m.end /\ q < m.end /\ m.end \in Nat
      /\ b.pos \in Nat /\ b.end \in Nat /\ b.pos < b.end /\ b.end <= m.end
      /\ m.cuts \subseteq Nat /\ b.pos \in Positions(m)
  BY MapTypes DEF IsChunk, Ready
<1>2. \A x \in Positions(m) : mm.st[x] = IF x \in Chunk(b) THEN t ELSE m.st[x]
  BY ChangeChunkStatus
<1>3. m.st[b.pos] # t
  BY <1>1 DEF Ready, Chunk
<1>4. mm.cuts = (m.cuts \cup Borders(m, b)) \
                {c \in {b.pos, b.end} : \/ c = b.pos /\ JoinsLeft(m, dom, b, t)
                                        \/ c = b.end /\ JoinsRight(m, dom, b, t)}
  BY <1>3 DEF change_chunk
<1>5. \A d \in mm.cuts : ~(p < d /\ d <= q)
  <2>1. mm.cuts \subseteq Nat
    BY <1>1, <1>4 DEF Borders
  <2> QED BY <1>1, <2>1 DEF SameBlock
<1>6. \A d \in m.cuts : d # b.pos /\ d # b.end => ~(p < d /\ d <= q)
  BY <1>4, <1>5
<1> HIDE DEF mm
<1>7. p < b.pos /\ b.pos <= q => JoinsLeft(m, dom, b, t)
  BY <1>1, <1>4, <1>5 DEF Borders
<1>8. p < b.end /\ b.end <= q => JoinsRight(m, dom, b, t)
  BY <1>1, <1>4, <1>5 DEF Borders
<1>9. CASE q < b.pos \/ b.end <= p
  <2>1. SameBlock(m, p, q)
    BY <1>1, <1>6, <1>9 DEF SameBlock
  <2>2. p \notin Chunk(b) /\ q \notin Chunk(b)
    BY <1>1, <1>9 DEF Chunk
  <2> QED BY <2>1, <2>2
<1>10. CASE b.pos <= q /\ p < b.end
  <2>1. mm.st[p] = t /\ p \in dom
    <3>1. CASE p \in Chunk(b)
      BY <1>2, <3>1 DEF Ready
    <3>2. CASE p < b.pos
      <4>1. JoinsLeft(m, dom, b, t)
        BY <1>7, <1>10, <3>2
      <4>2. b.pos - 1 \in Positions(m) /\ m.st[b.pos - 1] = t /\ b.pos - 1 \in dom
        BY <1>1, <4>1, InDomainIn, MapTypes DEF JoinsLeft, Joins
      <4>3. SameBlock(m, p, b.pos - 1)
        BY <1>1, <1>6, <1>10, <3>2 DEF SameBlock
      <4>4. m.st[p] = t /\ p \in dom
        BY <4>2, <4>3 DEF Uniform, SplitByDomain
      <4> QED BY <1>1, <1>2, <3>2, <4>4 DEF Chunk
    <3> QED BY <1>1, <1>10, <3>1, <3>2 DEF Chunk
  <2>2. mm.st[q] = t /\ q \in dom
    <3>1. CASE q \in Chunk(b)
      BY <1>2, <3>1 DEF Ready
    <3>2. CASE b.end <= q
      <4>1. JoinsRight(m, dom, b, t)
        BY <1>8, <1>10, <3>2
      <4>2. b.end \in Positions(m) /\ m.st[b.end] = t /\ b.end \in dom
        BY <1>1, <4>1, InDomainIn, MapTypes DEF JoinsRight, Joins
      <4>3. SameBlock(m, b.end, q)
        BY <1>1, <1>6, <1>10, <3>2 DEF SameBlock
      <4>4. m.st[q] = t /\ q \in dom
        BY <4>2, <4>3 DEF Uniform, SplitByDomain
      <4> QED BY <1>1, <1>2, <3>2, <4>4 DEF Chunk
    <3> QED BY <1>1, <1>10, <3>1, <3>2 DEF Chunk
  <2> QED BY <2>1, <2>2 DEF mm
<1> QED BY <1>1, <1>9, <1>10

\* A ready chunk is changed without mixing statuses or crossing the domain.
LEMMA ChangeChunkSound ==
  ASSUME NEW m, IsMap(m), NEW dom, Uniform(m), SplitByDomain(m, dom),
         NEW b, IsChunk(b), NEW s, Ready(m, dom, b, s), NEW t \in Status
  PROVE  LET mm == change_chunk(m, dom, b, t)
         IN  Uniform(mm) /\ SplitByDomain(mm, dom)
<1> DEFINE mm == change_chunk(m, dom, b, t)
<1>1. CASE s = t
  <2>1. m.st[b.pos] = t
    BY <1>1 DEF Ready, Chunk, IsChunk
  <2> QED BY <2>1 DEF change_chunk
<1>2. CASE s # t
  <2>1. Positions(mm) = Positions(m)
    BY ChangeChunkIsMap DEF Positions, Ready
  <2>2. ASSUME NEW p \in Positions(m), NEW q \in Positions(m), SameBlock(mm, p, q)
        PROVE  mm.st[p] = mm.st[q] /\ (p \in dom <=> q \in dom)
    <3>1. \A x \in Positions(m) : mm.st[x] = IF x \in Chunk(b) THEN t ELSE m.st[x]
      BY ChangeChunkStatus
    <3> HIDE DEF mm
    <3>2. CASE p < q
      <4>1. \/ SameBlock(m, p, q) /\ p \notin Chunk(b) /\ q \notin Chunk(b)
            \/ mm.st[p] = t /\ mm.st[q] = t /\ p \in dom /\ q \in dom
        BY <1>2, <2>2, <3>2, ChangeChunkBlocks DEF mm
      <4> QED BY <3>1, <4>1 DEF Uniform, SplitByDomain
    <3>3. CASE q < p
      <4>0. SameBlock(mm, q, p)
        BY <2>2 DEF SameBlock
      <4>1. \/ SameBlock(m, q, p) /\ q \notin Chunk(b) /\ p \notin Chunk(b)
            \/ mm.st[q] = t /\ mm.st[p] = t /\ q \in dom /\ p \in dom
        BY <1>2, <3>3, <4>0, ChangeChunkBlocks DEF mm
      <4> QED BY <3>1, <4>1 DEF Uniform, SplitByDomain
    <3>4. CASE p = q
      BY <3>4
    <3> QED BY <3>2, <3>3, <3>4, MapTypes
  <2> QED BY <2>1, <2>2 DEF Uniform, SplitByDomain
<1> QED BY <1>1, <1>2

\* A range beside the chunk that was in one block is in one block after it.
LEMMA ChangeChunkKeepsRange ==
  ASSUME NEW m, IsMap(m), NEW dom, NEW b, IsChunk(b), b.pos < b.end,
         NEW t, NEW lo \in Nat, NEW hi \in Nat, hi <= b.pos \/ b.end <= lo,
         \A p, q \in lo .. hi - 1 : SameBlock(m, p, q)
  PROVE  \A p, q \in lo .. hi - 1 : SameBlock(change_chunk(m, dom, b, t), p, q)
<1> DEFINE mm == change_chunk(m, dom, b, t)
<1>1. mm.cuts \subseteq m.cuts \cup {b.pos, b.end}
  BY DEF change_chunk, Borders
<1>2. \A p, q \in lo .. hi - 1, d \in m.cuts : d <= p <=> d <= q
  BY DEF SameBlock
<1>3. \A p, q \in lo .. hi - 1 : b.pos <= p <=> b.pos <= q
  BY DEF IsChunk
<1>4. \A p, q \in lo .. hi - 1 : b.end <= p <=> b.end <= q
  BY DEF IsChunk
<1> HIDE DEF mm
<1>5. \A p, q \in lo .. hi - 1, d \in mm.cuts : d <= p <=> d <= q
  BY <1>1, <1>2, <1>3, <1>4
<1> QED BY <1>5 DEF SameBlock, mm

\* Truncation leaves what it keeps as it is.
LEMMA TruncateSound ==
  ASSUME NEW m, IsMap(m), NEW dom, NEW end \in Nat
  PROVE  LET mm == truncate_vector(m, end) IN
         /\ Positions(mm) \subseteq Positions(m)
         /\ \A p \in Positions(m) : p < end => p \in Positions(mm)
         /\ \A p \in Positions(mm) : mm.st[p] = m.st[p] /\ p < end
         /\ \A p, q \in Positions(mm) : SameBlock(mm, p, q) <=> SameBlock(m, p, q)
         /\ Uniform(m) => Uniform(mm)
         /\ SplitByDomain(m, dom) => SplitByDomain(mm, dom)
<1> DEFINE mm == truncate_vector(m, end)
           e  == Smaller(m.end, end)
<1>1. e \in Nat /\ e <= m.end /\ e <= end /\ (e = m.end \/ e = end)
  BY MapTypes DEF Smaller
<1>2. /\ mm.end = e /\ mm.cuts = {c \in m.cuts : c < e}
      /\ mm.st = [p \in 0 .. e - 1 |-> m.st[p]]
  BY DEF truncate_vector
<1> HIDE DEF mm, e
<1>3. Positions(mm) \subseteq Positions(m)
  BY <1>1, <1>2, MapTypes DEF Positions
<1>4. \A p \in Positions(m) : p < end => p \in Positions(mm)
  BY <1>1, <1>2, MapTypes DEF Positions
<1>5. \A p \in Positions(mm) : mm.st[p] = m.st[p] /\ p < end /\ p < e /\ p \in Nat
  BY <1>1, <1>2, MapTypes DEF Positions
<1>6. \A p, q \in Positions(mm) : SameBlock(mm, p, q) <=> SameBlock(m, p, q)
  <2> SUFFICES ASSUME NEW p \in Positions(mm), NEW q \in Positions(mm)
               PROVE  SameBlock(mm, p, q) <=> SameBlock(m, p, q)
    OBVIOUS
  <2>1. \A c \in m.cuts : c \notin mm.cuts => (c <= p <=> c <= q)
    <3>1. \A c \in m.cuts : c \in Nat /\ (c \notin mm.cuts => ~(c < e))
      BY <1>2, MapTypes
    <3>2. p \in Nat /\ q \in Nat /\ p < e /\ q < e
      BY <1>5
    <3> QED BY <1>1, <3>1, <3>2
  <2>2. mm.cuts \subseteq m.cuts
    BY <1>2
  <2> QED BY <2>1, <2>2, Zenon DEF SameBlock
<1>7. Uniform(m) => Uniform(mm)
  BY <1>3, <1>5, <1>6 DEF Uniform
<1>8. SplitByDomain(m, dom) => SplitByDomain(mm, dom)
  BY <1>3, <1>6 DEF SplitByDomain
<1> QED BY <1>3, <1>4, <1>5, <1>6, <1>7, <1>8 DEF mm

\* A part of a chunk that is ready is ready.
LEMMA ReadyPart ==
  ASSUME NEW m, NEW dom, NEW s, NEW b, IsChunk(b), Ready(m, dom, b, s),
         NEW x, IsChunk(x), b.pos <= x.pos, x.pos < x.end, x.end <= b.end, IsMap(m)
  PROVE  Ready(m, dom, x, s)
<1>1. Chunk(x) \subseteq Chunk(b) /\ x.pos \in Chunk(x) /\ x.end <= m.end
  BY MapTypes DEF Chunk, IsChunk, Ready
<1>2. \A q \in Chunk(x) : q \in Positions(m) /\ SameBlock(m, b.pos, q)
  BY <1>1 DEF Ready, Block
<1>3. Chunk(x) \subseteq Block(m, x.pos)
  BY <1>1, <1>2 DEF Block, SameBlock
<1> QED BY <1>1, <1>3 DEF Ready

\* A ready chunk stays ready when one beside it is changed.
LEMMA ReadyBeside ==
  ASSUME NEW m, IsMap(m), NEW dom, NEW s, NEW b, IsChunk(b), Ready(m, dom, b, s),
         NEW t \in Status, NEW r, NEW x, IsChunk(x), Ready(m, dom, x, r),
         x.end <= b.pos \/ b.end <= x.pos
  PROVE  Ready(change_chunk(m, dom, b, t), dom, x, r)
<1> DEFINE mm == change_chunk(m, dom, b, t)
<1>1. IsMap(mm) /\ mm.end = m.end
  BY ChangeChunkIsMap DEF Ready
<1>2. \A p \in Chunk(x) : p \in Positions(m) /\ p \notin Chunk(b)
  BY MapTypes DEF Chunk, IsChunk, Ready, Positions
<1>3. \A p \in Chunk(x) : mm.st[p] = r
  <2>1. \A p \in Chunk(x) : mm.st[p] = m.st[p]
    BY <1>2, ChangeChunkStatus
  <2>2. \A p \in Chunk(x) : m.st[p] = r
    BY DEF Ready
  <2> QED BY <2>1, <2>2
<1>4. \A p, q \in x.pos .. x.end - 1 : SameBlock(m, p, q)
  BY DEF Ready, Chunk, Block, SameBlock
<1>5. \A p, q \in x.pos .. x.end - 1 : SameBlock(mm, p, q)
  BY <1>4, ChangeChunkKeepsRange DEF IsChunk, Ready
<1> HIDE DEF mm
<1>6. x.pos \in Chunk(x)
  BY DEF Ready, Chunk, IsChunk
<1>7. Chunk(x) \subseteq Block(mm, x.pos)
  BY <1>1, <1>2, <1>5, <1>6 DEF Chunk, Block, Positions
<1> QED BY <1>1, <1>3, <1>7 DEF Ready, mm

\* A ready chunk below the point of truncation stays ready.
LEMMA ReadyTruncate ==
  ASSUME NEW m, IsMap(m), NEW dom, NEW s, NEW b, IsChunk(b), Ready(m, dom, b, s),
         NEW end \in Nat, b.end <= end
  PROVE  Ready(truncate_vector(m, end), dom, b, s)
<1> DEFINE mm == truncate_vector(m, end)
<1>1. mm.end = Smaller(m.end, end) /\ b.end <= mm.end /\ IsMap(mm)
  BY TruncateIsMap DEF Smaller, Ready
<1>2. /\ \A p \in Positions(mm) : mm.st[p] = m.st[p]
      /\ \A p, q \in Positions(mm) : SameBlock(mm, p, q) <=> SameBlock(m, p, q)
  BY TruncateSound
<1> HIDE DEF mm
<1>3. \A p \in Chunk(b) : p \in Positions(mm)
  BY <1>1, MapTypes DEF Chunk, IsChunk, Positions
<1>4. b.pos \in Chunk(b)
  BY DEF Ready, Chunk, IsChunk
<1>5. Chunk(b) \subseteq Block(mm, b.pos)
  BY <1>2, <1>3, <1>4 DEF Ready, Block
<1> QED BY <1>1, <1>2, <1>3, <1>5 DEF Ready, mm

\* A ready chunk passes the tests of change_chunk_status.
LEMMA ReadyCanChange ==
  ASSUME NEW m, IsMap(m), NEW dom, SplitByDomain(m, dom), NEW b, IsChunk(b),
         NEW s, Ready(m, dom, b, s)
  PROVE  CanChange(m, dom, b)
<1>1. b.pos \in Chunk(b) /\ b.pos < m.end
  BY MapTypes DEF Ready, Chunk, IsChunk
<1>2. b.pos \in Positions(m) /\ b.pos \in dom
  BY <1>1 DEF Ready, Block
<1> QED BY <1>1, <1>2, BlockInDomain DEF CanChange, Ready

\* A whole block of the domain is a ready chunk.
LEMMA ReadyBlock ==
  ASSUME NEW m, IsMap(m), Uniform(m), NEW dom, NEW p \in Positions(m),
         InDomain(m, p, dom), NEW c \in BlockStart(m, p), NEW e \in BlockEnd(m, p)
  PROVE  LET b == [pos |-> c, end |-> e]
         IN  IsChunk(b) /\ Ready(m, dom, b, m.st[p])
<1> DEFINE b == [pos |-> c, end |-> e]
<1>1. /\ c \in Nat /\ e \in Nat /\ c <= p /\ p < e /\ e <= m.end
      /\ Block(m, p) = c .. e - 1
  BY BlockShape
<1>2. p \in Nat
  BY MapTypes
<1>3. IsChunk(b) /\ b.pos < b.end /\ Chunk(b) \subseteq Block(m, p)
  BY <1>1, <1>2 DEF IsChunk, Chunk
<1> HIDE DEF b
<1>4. Ready(m, dom, b, m.st[p])
  BY <1>3, WithinBlock
<1> QED BY <1>3, <1>4 DEF b

\* A block changed as a whole keeps its borders and one status.
LEMMA ChangeSblockSound ==
  ASSUME NEW m, IsMap(m), Uniform(m), NEW dom, SplitByDomain(m, dom), NEW c,
         NEW s \in Status
  PROVE  LET mm == change_sblock_status(m, c, s)
         IN  Uniform(mm) /\ SplitByDomain(mm, dom)
<1> DEFINE mm == change_sblock_status(m, c, s)
<1>1. /\ mm.end = m.end /\ mm.cuts = m.cuts
      /\ mm.st = [p \in Positions(m) |-> IF p \in Block(m, c) THEN s ELSE m.st[p]]
  BY ChangeSblockIsMap
<1> HIDE DEF mm
<1>2. Positions(mm) = Positions(m) /\ \A p, q : SameBlock(mm, p, q) <=> SameBlock(m, p, q)
  BY <1>1 DEF Positions, SameBlock
<1>3. ASSUME NEW p \in Positions(m), NEW q \in Positions(m), SameBlock(m, p, q)
      PROVE  p \in Block(m, c) <=> q \in Block(m, c)
  BY <1>3 DEF Block, SameBlock
<1>4. Uniform(mm)
  BY <1>1, <1>2, <1>3 DEF Uniform
<1>5. SplitByDomain(mm, dom)
  BY <1>2 DEF SplitByDomain
<1> QED BY <1>4, <1>5 DEF mm

-----------------------------------------------------------------------------
(***************************************************************************)
(* Counting.                                                               *)
(***************************************************************************)

\* In a map split by the domain, a block is in the domain where its position is.
LEMMA InDomainIs ==
  ASSUME NEW m, IsMap(m), NEW dom, SplitByDomain(m, dom), NEW p \in Positions(m)
  PROVE  InDomain(m, p, dom) <=> p \in dom
BY BlockInDomain, InDomainIn

\* The positions of a status in the domain.
Of(m, dom, s) == {p \in Positions(m) : m.st[p] = s /\ p \in dom}

\* They are what initialize_sizes counts.
LEMMA SizeOfOf ==
  ASSUME NEW m, IsMap(m), NEW dom, SplitByDomain(m, dom), NEW s
  PROVE  IsFiniteSet(Of(m, dom, s)) /\ SizeOf(m, dom, s) = Cardinality(Of(m, dom, s))
<1>1. IsFiniteSet(Positions(m))
  BY FS_Interval, MapTypes DEF Positions
<1>2. IsFiniteSet(Of(m, dom, s))
  BY <1>1, FS_Subset DEF Of
<1>3. Of(m, dom, s) = {p \in Positions(m) : m.st[p] = s /\ InDomain(m, p, dom)}
  BY InDomainIs DEF Of
<1> QED BY <1>2, <1>3 DEF SizeOf

\* mm is the map m with the positions of B gone from status s to status t.
Moved(m, mm, dom, B, s, t) ==
  /\ IsMap(m) /\ IsMap(mm) /\ mm.end = m.end
  /\ SplitByDomain(m, dom) /\ SplitByDomain(mm, dom)
  /\ s # t /\ B \subseteq Of(m, dom, s)
  /\ \A p \in Positions(m) : mm.st[p] = IF p \in B THEN t ELSE m.st[p]

\* They are counted over from the one status to the other.
LEMMA MovedCounts ==
  ASSUME NEW m, NEW mm, NEW dom, NEW B, NEW s, NEW t, Moved(m, mm, dom, B, s, t)
  PROVE  /\ SizeOf(mm, dom, s) = SizeOf(m, dom, s) - Cardinality(B)
         /\ SizeOf(mm, dom, t) = SizeOf(m, dom, t) + Cardinality(B)
         /\ \A u : u # s /\ u # t => SizeOf(mm, dom, u) = SizeOf(m, dom, u)
         /\ Cardinality(B) \in Nat
<1> USE DEF Moved
<1>1. Positions(mm) = Positions(m)
  BY DEF Positions
<1>2. IsFiniteSet(B) /\ IsFiniteSet(Of(m, dom, s)) /\ IsFiniteSet(Of(m, dom, t))
  BY SizeOfOf, FS_Subset
<1>3. Cardinality(B) \in Nat /\ Cardinality(Of(m, dom, s)) \in Nat
      /\ Cardinality(Of(m, dom, t)) \in Nat
  BY <1>2, FS_CardinalityType
<1>4. Of(mm, dom, s) = Of(m, dom, s) \ B
  BY <1>1 DEF Of
<1>5. Cardinality(Of(mm, dom, s)) = Cardinality(Of(m, dom, s)) - Cardinality(B)
  <2>1. Of(m, dom, s) \cap B = B
    OBVIOUS
  <2> QED BY <1>2, <1>4, <2>1, FS_Difference
<1>6. Of(mm, dom, t) = Of(m, dom, t) \cup B
  BY <1>1 DEF Of
<1>7. Cardinality(Of(mm, dom, t)) = Cardinality(Of(m, dom, t)) + Cardinality(B)
  <2>1. Of(m, dom, t) \cap B = {}
    BY DEF Of
  <2>2. Cardinality(Of(m, dom, t) \cap B) = 0
    BY <2>1, FS_EmptySet
  <2>3. Cardinality(Of(m, dom, t) \cup B) =
          Cardinality(Of(m, dom, t)) + Cardinality(B) - Cardinality(Of(m, dom, t) \cap B)
    BY <1>2, FS_Union
  <2> QED BY <1>3, <1>6, <2>2, <2>3
<1>8. ASSUME NEW u, u # s, u # t PROVE Of(mm, dom, u) = Of(m, dom, u)
  BY <1>1, <1>8 DEF Of
<1> QED BY <1>3, <1>5, <1>7, <1>8, SizeOfOf

\* Changing a chunk moves its size from the old status to the new one.
LEMMA ChangeChunkSizes ==
  ASSUME NEW m, IsMap(m), NEW dom, Uniform(m), SplitByDomain(m, dom),
         NEW b, IsChunk(b), NEW s, Ready(m, dom, b, s), NEW t \in Status, s # t
  PROVE  LET mm == change_chunk(m, dom, b, t) IN
         /\ SizeOf(mm, dom, s) = SizeOf(m, dom, s) - (b.end - b.pos)
         /\ SizeOf(mm, dom, t) = SizeOf(m, dom, t) + (b.end - b.pos)
         /\ \A u : u # s /\ u # t => SizeOf(mm, dom, u) = SizeOf(m, dom, u)
<1> DEFINE mm == change_chunk(m, dom, b, t)
<1>1. /\ b.pos \in Nat /\ b.end \in Nat /\ b.pos < b.end /\ b.end <= m.end
      /\ m.end \in Nat /\ Chunk(b) \subseteq dom
      /\ \A p \in Chunk(b) : m.st[p] = s
  BY MapTypes DEF Ready, IsChunk
<1>2. IsMap(mm) /\ mm.end = m.end /\ SplitByDomain(mm, dom)
  BY <1>1, ChangeChunkIsMap, ChangeChunkSound
<1>3. \A p \in Positions(m) : mm.st[p] = IF p \in Chunk(b) THEN t ELSE m.st[p]
  BY ChangeChunkStatus
<1>4. Chunk(b) \subseteq Of(m, dom, s)
  BY <1>1 DEF Of, Chunk, Positions
<1>5. Cardinality(Chunk(b)) = b.end - b.pos
  <2>1. b.pos \in Int /\ b.end - 1 \in Int /\ ~(b.pos > b.end - 1)
    BY <1>1
  <2>2. Cardinality(b.pos .. b.end - 1) = (b.end - 1) - b.pos + 1
    BY <2>1, FS_Interval
  <2> QED BY <1>1, <2>2 DEF Chunk
<1> DEFINE B == Chunk(b)
<1>6. Moved(m, mm, dom, B, s, t) /\ Cardinality(B) = b.end - b.pos
  BY <1>2, <1>3, <1>4, <1>5, Zenon DEF Moved
<1> HIDE DEF mm, B
<1>7. /\ SizeOf(mm, dom, s) = SizeOf(m, dom, s) - Cardinality(B)
      /\ SizeOf(mm, dom, t) = SizeOf(m, dom, t) + Cardinality(B)
      /\ \A u : u # s /\ u # t => SizeOf(mm, dom, u) = SizeOf(m, dom, u)
  BY <1>6, MovedCounts
<1> QED BY <1>6, <1>7 DEF mm

\* The bad sectors of the domain, and the first ones of the bad areas.
BadIn(m, dom, p) == m.st[p] = "bad_sector" /\ p \in dom
AreaStarts(m, dom) ==
  {p \in Positions(m) : BadIn(m, dom, p) /\ (p = 0 \/ ~BadIn(m, dom, p - 1))}

\* Bad areas begin where blocks do.
LEMMA AreasOfStarts ==
  ASSUME NEW m, IsMap(m), NEW dom, Uniform(m), SplitByDomain(m, dom)
  PROVE  /\ IsFiniteSet(AreaStarts(m, dom))
         /\ AreasOf(m, dom) = Cardinality(AreaStarts(m, dom))
<1>1. IsFiniteSet(Positions(m))
  BY FS_Interval, MapTypes DEF Positions
<1>2. IsFiniteSet(AreaStarts(m, dom))
  BY <1>1, FS_Subset DEF AreaStarts
<1>3. \A p \in Positions(m) : BadBlock(m, dom, p) <=> BadIn(m, dom, p)
  BY InDomainIs DEF BadBlock, BadIn, is_good_status
<1>4. \A p \in Positions(m) : p # 0 => p - 1 \in Positions(m)
  BY MapTypes DEF Positions
<1>5. ASSUME NEW p \in AreaStarts(m, dom) PROVE p \in m.cuts
  <2>1. p \in Positions(m) /\ BadIn(m, dom, p) /\ (p = 0 \/ ~BadIn(m, dom, p - 1))
    BY DEF AreaStarts
  <2>2. CASE p = 0
    BY <2>1, <2>2, MapTypes DEF IsMap
  <2>3. CASE p # 0 /\ p \notin m.cuts
    <3>1. SameBlock(m, p - 1, p)
      BY <2>1, <2>3, MapTypes DEF SameBlock
    <3>2. BadIn(m, dom, p - 1)
      BY <1>4, <2>1, <2>3, <3>1 DEF Uniform, SplitByDomain, BadIn
    <3> QED BY <2>1, <2>3, <3>2
  <2> QED BY <2>2, <2>3
<1>6. AreaStarts(m, dom) = {c \in m.cuts : /\ BadBlock(m, dom, c)
                                           /\ c = 0 \/ ~BadBlock(m, dom, c - 1)}
  <2>1. \A c \in m.cuts : c \in Positions(m)
    BY MapTypes
  <2> QED BY <1>3, <1>4, <1>5, <2>1 DEF AreaStarts
<1> QED BY <1>2, <1>6 DEF AreasOf

\* Changing a chunk changes the number of bad areas by what area_adjust returns.
LEMMA ChangeChunkAreas ==
  ASSUME NEW m, IsMap(m), NEW dom, Uniform(m), SplitByDomain(m, dom),
         NEW b, IsChunk(b), NEW s, Ready(m, dom, b, s), NEW t \in Status, s # t
  PROVE  AreasOf(change_chunk(m, dom, b, t), dom) =
           AreasOf(m, dom) + area_adjust(m, dom, b, t)
<1> DEFINE mm == change_chunk(m, dom, b, t)
           Was(p) == BadIn(m, dom, p)
           Is(p)  == BadIn(mm, dom, p)
           A == AreaStarts(m, dom)
           AA == AreaStarts(mm, dom)
<1>1. /\ b.pos \in Nat /\ b.end \in Nat /\ b.pos < b.end /\ b.end <= m.end
      /\ m.end \in Nat /\ Chunk(b) \subseteq dom
      /\ \A p \in Chunk(b) : m.st[p] = s
  BY MapTypes DEF Ready, IsChunk
<1>2. IsMap(mm) /\ mm.end = m.end /\ Uniform(mm) /\ SplitByDomain(mm, dom)
  BY <1>1, ChangeChunkIsMap, ChangeChunkSound
<1>3. \A p \in Positions(m) : mm.st[p] = IF p \in Chunk(b) THEN t ELSE m.st[p]
  BY ChangeChunkStatus
<1>4. /\ IsFiniteSet(A) /\ AreasOf(m, dom) = Cardinality(A) /\ Cardinality(A) \in Nat
      /\ AreasOf(mm, dom) = Cardinality(AA)
  BY <1>2, AreasOfStarts, FS_CardinalityType
<1>5. Positions(mm) = Positions(m) /\ Positions(m) = 0 .. m.end - 1
  BY <1>2 DEF Positions
<1>6. /\ \A p \in Positions(m) \ Chunk(b) : Is(p) <=> Was(p)
      /\ \A p \in Chunk(b) : (Is(p) <=> t = "bad_sector") /\ (Was(p) <=> s = "bad_sector")
      /\ \A p \in Int : p \in Chunk(b) <=> b.pos <= p /\ p < b.end
      /\ Chunk(b) \subseteq Positions(m)
  BY <1>1, <1>3, <1>5 DEF BadIn, Chunk
<1>7. /\ GoodBefore(m, dom, b) <=> b.pos = 0 \/ ~Was(b.pos - 1)
      /\ GoodAfter(m, dom, b) <=> b.end = m.end \/ ~Was(b.end)
  <2>1. \A p \in Positions(m) : GoodAt(m, dom, p) <=> ~Was(p)
    BY InDomainIs DEF GoodAt, BadIn, is_good_status
  <2>2. b.pos # 0 => b.pos - 1 \in Positions(m)
    BY <1>1, <1>5
  <2>3. b.end # m.end => b.end \in Positions(m)
    BY <1>1, <1>5
  <2> QED BY <2>1, <2>2, <2>3 DEF GoodBefore, GoodAfter
<1>8. m.st[b.pos] = s
  BY <1>1 DEF Chunk
<1>a. /\ \A p : p \in A <=> p \in Positions(m) /\ Was(p) /\ (p = 0 \/ ~Was(p - 1))
      /\ \A p : p \in AA <=> p \in Positions(m) /\ Is(p) /\ (p = 0 \/ ~Is(p - 1))
  BY <1>5 DEF AreaStarts
<1> DEFINE lb == GoodBefore(m, dom, b)
           ra == GoodAfter(m, dom, b)
           adj == area_adjust(m, dom, b, t)
<1>b. adj = LET good == (s # "bad_sector") IN
            IF (t # "bad_sector") = good \/ lb # ra THEN 0
            ELSE IF good = lb THEN 1 ELSE -1
  BY <1>8 DEF area_adjust, is_good_status
<1>c. lb \in BOOLEAN /\ ra \in BOOLEAN
  BY DEF GoodBefore, GoodAfter
<1> HIDE DEF mm, Was, Is, A, AA, lb, ra, adj
<1>9. ASSUME (s # "bad_sector") = (t # "bad_sector") PROVE A = AA /\ adj = 0
  <2>1. \A p \in Positions(m) : Is(p) <=> Was(p)
    BY <1>6, <1>9
  <2>2. \A p \in Positions(m) : p # 0 => p - 1 \in Positions(m)
    BY <1>1, <1>5
  <2>3. A = AA
    BY <1>a, <2>1, <2>2
  <2>4. adj = 0
    BY <1>9, <1>b
  <2> QED BY <2>3, <2>4
<1>10. ASSUME s # "bad_sector", t = "bad_sector" PROVE AreasOf(mm, dom) = AreasOf(m, dom) + adj
  <2>1. \A p : p \in AA <=> \/ p \in A /\ p # b.end
                            \/ p = b.pos /\ lb
    BY <1>1, <1>5, <1>6, <1>7, <1>a, <1>10 DEF lb
  <2>2. b.pos \notin A
    BY <1>1, <1>6, <1>a, <1>10
  <2>3. b.end \in A <=> ~ra
    BY <1>1, <1>5, <1>6, <1>7, <1>a, <1>10 DEF ra
  <2>4. /\ IsFiniteSet(A \ {b.end}) /\ Cardinality(A \ {b.end}) \in Nat
        /\ Cardinality(A \ {b.end}) = Cardinality(A) - IF ra THEN 0 ELSE 1
    BY <1>4, <1>c, <2>3, FS_RemoveElement, FS_CardinalityType
  <2>5. AA = IF lb THEN (A \ {b.end}) \cup {b.pos} ELSE A \ {b.end}
    BY <1>1, <2>1, <2>2
  <2>6. Cardinality(AA) = Cardinality(A \ {b.end}) + IF lb THEN 1 ELSE 0
    <3>1. Cardinality((A \ {b.end}) \cup {b.pos}) = Cardinality(A \ {b.end}) + 1
      BY <2>2, <2>4, FS_AddElement
    <3> QED BY <2>4, <2>5, <3>1
  <2>7. adj = IF lb # ra THEN 0 ELSE IF lb THEN 1 ELSE -1
    BY <1>10, <1>b, <1>c
  <2>8. Cardinality(AA) = Cardinality(A) + adj
    BY <1>4, <1>c, <2>4, <2>6, <2>7
  <2> QED BY <1>4, <2>8
<1>11. ASSUME s = "bad_sector", t # "bad_sector" PROVE AreasOf(mm, dom) = AreasOf(m, dom) + adj
  <2>1. \A p : p \in AA <=> \/ p \in A /\ p # b.pos
                            \/ p = b.end /\ ~ra
    BY <1>1, <1>5, <1>6, <1>7, <1>a, <1>11 DEF ra
  <2>2. b.end \notin A
    BY <1>1, <1>6, <1>a, <1>11
  <2>3. b.pos \in A <=> lb
    BY <1>1, <1>5, <1>6, <1>7, <1>a, <1>11 DEF lb
  <2>4. /\ IsFiniteSet(A \ {b.pos}) /\ Cardinality(A \ {b.pos}) \in Nat
        /\ Cardinality(A \ {b.pos}) = Cardinality(A) - IF lb THEN 1 ELSE 0
    BY <1>4, <1>c, <2>3, FS_RemoveElement, FS_CardinalityType
  <2>5. AA = IF ra THEN A \ {b.pos} ELSE (A \ {b.pos}) \cup {b.end}
    BY <1>1, <2>1, <2>2
  <2>6. Cardinality(AA) = Cardinality(A \ {b.pos}) + IF ra THEN 0 ELSE 1
    <3>1. Cardinality((A \ {b.pos}) \cup {b.end}) = Cardinality(A \ {b.pos}) + 1
      BY <2>2, <2>4, FS_AddElement
    <3> QED BY <2>4, <2>5, <3>1
  <2>7. adj = IF lb # ra THEN 0 ELSE IF lb THEN -1 ELSE 1
    BY <1>11, <1>b, <1>c
  <2>8. Cardinality(AA) = Cardinality(A) + adj
    BY <1>4, <1>c, <2>4, <2>6, <2>7
  <2> QED BY <1>4, <2>8
<1> QED BY <1>4, <1>9, <1>10, <1>11 DEF mm, adj

-----------------------------------------------------------------------------
(***************************************************************************)
(* Looking for blocks.                                                     *)
(***************************************************************************)

\* A set of positions that is not empty has a least element ...
LEMMA FirstExists ==
  ASSUME NEW S \in SUBSET Nat, S # {}
  PROVE  First(S) # {}
<1> DEFINE T == {0 .. x : x \in S}
<1>1. IsWellFoundedOn(StrictSubsetOrdering(Nat), FiniteSubsetsOf(Nat))
  BY FS_StrictSubsetOrderingWellFounded
<1>2. T \subseteq FiniteSubsetsOf(Nat) /\ T # {}
  <2>1. \A x \in S : 0 .. x \in SUBSET Nat /\ IsFiniteSet(0 .. x)
    BY FS_Interval
  <2> QED BY <2>1 DEF FiniteSubsetsOf
<1>3. PICK t \in T : \A y \in T : ~(<<y, t>> \in StrictSubsetOrdering(Nat))
  <2> HIDE DEF T
  <2> QED BY <1>1, <1>2, WFMin
<1>4. PICK x \in S : t = 0 .. x
  OBVIOUS
<1>5. ASSUME NEW y \in S PROVE x <= y
  <2>1. ~(<<0 .. y, 0 .. x>> \in StrictSubsetOrdering(Nat))
    BY <1>3, <1>4
  <2>2. ~(0 .. y \subseteq 0 .. x) \/ 0 .. y = 0 .. x
    BY <2>1 DEF StrictSubsetOrdering
  <2>3. x \in Nat /\ y \in Nat
    OBVIOUS
  <2>4. CASE 0 .. y = 0 .. x
    BY <2>3, <2>4
  <2>5. CASE ~(0 .. y \subseteq 0 .. x)
    BY <2>3, <2>5
  <2> QED BY <2>2, <2>4, <2>5
<1>6. x \in First(S)
  BY <1>5 DEF First
<1> QED BY <1>6

\* ... and, when it has a bound, a greatest one.
LEMMA LastExists ==
  ASSUME NEW S \in SUBSET Nat, S # {}, NEW n \in Nat, \A x \in S : x <= n
  PROVE  Last(S) # {}
<1> DEFINE T == {n - x : x \in S}
<1>1. T \in SUBSET Nat /\ T # {}
  <2>1. \A x \in S : n - x \in Nat
    OBVIOUS
  <2> QED BY <2>1
<1>2. First(T) # {}
  <2> HIDE DEF T
  <2> QED BY <1>1, FirstExists
<1>3. PICK t \in T : \A y \in T : t <= y
  <2> HIDE DEF T
  <2> QED BY <1>2 DEF First
<1>4. PICK x \in S : t = n - x
  OBVIOUS
<1>5. ASSUME NEW y \in S PROVE x >= y
  <2>1. n - x <= n - y
    BY <1>3, <1>4
  <2> QED BY <2>1
<1>6. x \in Last(S)
  BY <1>5 DEF Last
<1> QED BY <1>6

\* Every position lies in a block, which begins at a cut ...
LEMMA BlockStartExists ==
  ASSUME NEW m, IsMap(m), NEW p \in Positions(m)
  PROVE  \E c \in BlockStart(m, p) : c \in m.cuts /\ c <= p
<1> DEFINE S == {c \in m.cuts : c <= p}
<1>1. p \in Nat /\ m.end \in Nat /\ p < m.end /\ m.cuts \subseteq Nat
  BY MapTypes
<1>2. 0 \in m.cuts
  BY <1>1 DEF IsMap
<1>3. S \in SUBSET Nat /\ 0 \in S /\ \A x \in S : x <= p
  BY <1>1, <1>2
<1>4. Last(S) # {}
  <2> HIDE DEF S
  <2> QED BY <1>1, <1>3, LastExists
<1>5. PICK c \in S : \A y \in S : c >= y
  BY <1>4 DEF Last
<1>6. c \in Positions(m)
  BY <1>5, MapTypes
<1>7. SameBlock(m, p, c)
  BY <1>1, <1>5 DEF SameBlock
<1> QED BY <1>5, <1>6, <1>7 DEF BlockStart, Block

\* ... and ends.
LEMMA BlockEndExists ==
  ASSUME NEW m, IsMap(m), NEW p \in Positions(m)
  PROVE  BlockEnd(m, p) # {}
<1> DEFINE S == {c \in m.cuts \cup {m.end} : c > p}
<1>1. p \in Nat /\ m.end \in Nat /\ p < m.end /\ m.cuts \subseteq Nat
  BY MapTypes
<1>2. S \in SUBSET Nat /\ m.end \in S
  BY <1>1
<1>3. First(S) # {}
  <2> HIDE DEF S
  <2> QED BY <1>2, FirstExists
<1>4. PICK e \in S : \A y \in S : e <= y
  BY <1>3 DEF First
<1>5. e \in 1 .. m.end /\ e - 1 \in Positions(m) /\ (e = m.end \/ e \in m.cuts)
  BY <1>1, <1>2, <1>4 DEF Positions
<1>6. SameBlock(m, p, e - 1)
  BY <1>1, <1>4, <1>5 DEF SameBlock
<1> QED BY <1>5, <1>6 DEF BlockEnd, Block

\* The block of a position of the status looked for is among those looked at, from
\* any position up to it, and up to any position behind it.
LEMMA BlocksFound ==
  ASSUME NEW m, IsMap(m), Uniform(m), NEW dom, SplitByDomain(m, dom), NEW s,
         NEW p \in Of(m, dom, s)
  PROVE  \E c \in m.cuts :
           /\ c <= p /\ p \in Block(m, c)
           /\ \A q \in Nat : q <= p => c \in BlocksFrom(m, dom, q, s, FALSE)
           /\ \A q \in Nat : p < q => c \in BlocksUpTo(m, dom, q, s, FALSE)
<1>1. p \in Positions(m) /\ m.st[p] = s /\ p \in dom
  BY DEF Of
<1>2. PICK c \in BlockStart(m, p) : c \in m.cuts /\ c <= p
  BY <1>1, BlockStartExists
<1>3. /\ c \in Positions(m) /\ SameBlock(m, p, c)
      /\ c \in Nat /\ p \in Nat /\ m.cuts \subseteq Nat
  BY <1>1, <1>2, MapTypes DEF BlockStart, Block
<1>4. m.st[c] = s /\ InDomain(m, c, dom)
  <2>1. m.st[c] = s /\ c \in dom
    BY <1>1, <1>3 DEF Uniform, SplitByDomain
  <2> QED BY <1>3, <2>1, BlockInDomain
<1>5. p \in Block(m, c)
  BY <1>1, <1>3 DEF Block, SameBlock
<1>6. ASSUME NEW q \in Nat, q <= p PROVE c \in BlocksFrom(m, dom, q, s, FALSE)
  <2>1. CASE c >= q
    BY <1>2, <1>4, <2>1 DEF BlocksFrom
  <2>2. CASE c < q
    <3>1. q \in Positions(m)
      BY <1>1, <1>3, <1>6, MapTypes
    <3>2. SameBlock(m, c, q)
      BY <1>2, <1>3, <1>6, <2>2 DEF SameBlock
    <3> QED BY <1>2, <1>4, <3>1, <3>2 DEF BlocksFrom, Block
  <2>3. c >= q \/ c < q
    BY <1>3
  <2> QED BY <2>1, <2>2, <2>3
<1>7. ASSUME NEW q \in Nat, p < q PROVE c \in BlocksUpTo(m, dom, q, s, FALSE)
  BY <1>2, <1>3, <1>4, <1>7 DEF BlocksUpTo
<1> QED BY <1>2, <1>5, <1>6, <1>7

\* The first chunk found has nothing of its status between pos and it.
LEMMA FindsFirst ==
  ASSUME NEW m, IsMap(m), Uniform(m), NEW dom, SplitByDomain(m, dom), NEW s,
         NEW pos \in Nat, NEW len \in Nat \ {0}, NEW align \in Nat \ {0}
  PROVE  /\ \A b \in find_chunk(m, dom, pos, len, s, align, FALSE),
               q \in Of(m, dom, s) : pos <= q => b.pos <= q
         /\ find_chunk(m, dom, pos, len, s, align, FALSE) = {} =>
              BlocksFrom(m, dom, pos, s, FALSE) = {}
<1> DEFINE F == BlocksFrom(m, dom, pos, s, FALSE)
           found(c, e) ==
             LET p == Larger(pos, c)
                 x == [pos |-> p, end |-> Smaller(p + len, e)]
             IN  IF x.end = e THEN x ELSE align_end(x, align)
<1>1. find_chunk(m, dom, pos, len, s, align, FALSE) =
        UNION {{found(c, e) : e \in BlockEnd(m, c)} : c \in First(F)}
  BY DEF find_chunk
<1>2. F \in SUBSET Nat /\ F \subseteq m.cuts
  BY MapTypes DEF BlocksFrom
<1>3. \A c \in F : c \in Positions(m) /\ BlockEnd(m, c) # {}
  BY <1>2, MapTypes, BlockEndExists
<1>4. First(F) \subseteq F
  BY DEF First
<1>5. ASSUME F # {} PROVE find_chunk(m, dom, pos, len, s, align, FALSE) # {}
  <2>1. PICK c : c \in First(F)
    BY <1>2, <1>5, FirstExists
  <2>2. PICK e : e \in BlockEnd(m, c)
    BY <1>3, <1>4, <2>1
  <2>3. found(c, e) \in UNION {{found(x, y) : y \in BlockEnd(m, x)} : x \in First(F)}
    <3> HIDE DEF found, F
    <3> QED BY <2>1, <2>2
  <2> QED BY <1>1, <2>3
<1>6. ASSUME NEW b \in find_chunk(m, dom, pos, len, s, align, FALSE),
             NEW q \in Of(m, dom, s), pos <= q
      PROVE  b.pos <= q
  <2>1. PICK c \in First(F) : \E e \in BlockEnd(m, c) : b = found(c, e)
    <3> HIDE DEF found, F
    <3> QED BY <1>1
  <2>2. PICK d \in m.cuts : d <= q /\ d \in F
    <3>1. q \in Positions(m)
      BY DEF Of
    <3> QED BY <1>6, <3>1, BlocksFound
  <2>3. c <= d /\ c \in Nat /\ d \in Nat /\ q \in Nat
    BY <1>2, <1>4, <2>1, <2>2, MapTypes DEF First, Of
  <2>4. b.pos = Larger(pos, c)
    BY <2>1 DEF align_end
  <2> QED BY <1>6, <2>2, <2>3, <2>4 DEF Larger
<1> QED BY <1>5, <1>6

\* The last chunk found has nothing of its status between it and end.
LEMMA FindsLast ==
  ASSUME NEW m, IsMap(m), Uniform(m), NEW dom, SplitByDomain(m, dom), NEW s,
         NEW end \in Nat, NEW len \in Nat \ {0}, NEW align \in Nat \ {0}
  PROVE  /\ \A b \in rfind_chunk(m, dom, end, len, s, align, FALSE),
               q \in Of(m, dom, s) : q < end => q < b.end
         /\ rfind_chunk(m, dom, end, len, s, align, FALSE) = {} =>
              BlocksUpTo(m, dom, end, s, FALSE) = {}
<1> DEFINE F == BlocksUpTo(m, dom, end, s, FALSE)
           found(c, e) ==
             LET t == Smaller(end, e)
                 x == [pos |-> Larger(c, t - len), end |-> t]
             IN  IF x.pos = c THEN x ELSE align_pos(x, align)
<1>1. rfind_chunk(m, dom, end, len, s, align, FALSE) =
        UNION {{found(c, e) : e \in BlockEnd(m, c)} : c \in Last(F)}
  BY DEF rfind_chunk
<1>2. F \in SUBSET Nat /\ F \subseteq m.cuts /\ \A c \in F : c <= end
  BY MapTypes DEF BlocksUpTo
<1>3. \A c \in F : c \in Positions(m) /\ BlockEnd(m, c) # {}
  BY <1>2, MapTypes, BlockEndExists
<1>4. Last(F) \subseteq F
  BY DEF Last
<1>5. ASSUME F # {} PROVE rfind_chunk(m, dom, end, len, s, align, FALSE) # {}
  <2>1. PICK c : c \in Last(F)
    BY <1>2, <1>5, LastExists
  <2>2. PICK e : e \in BlockEnd(m, c)
    BY <1>3, <1>4, <2>1
  <2>3. found(c, e) \in UNION {{found(x, y) : y \in BlockEnd(m, x)} : x \in Last(F)}
    <3> HIDE DEF found, F
    <3> QED BY <2>1, <2>2
  <2> QED BY <1>1, <2>3
<1>6. ASSUME NEW b \in rfind_chunk(m, dom, end, len, s, align, FALSE),
             NEW q \in Of(m, dom, s), q < end
      PROVE  q < b.end
  <2>1. PICK c \in Last(F) : \E e \in BlockEnd(m, c) : b = found(c, e)
    <3> HIDE DEF found, F
    <3> QED BY <1>1
  <2>e. PICK e \in BlockEnd(m, c) : b = found(c, e)
    BY <2>1
  <2>2. PICK d \in m.cuts : d <= q /\ q \in Block(m, d) /\ d \in F
    <3>1. q \in Positions(m)
      BY DEF Of
    <3> QED BY <1>6, <3>1, BlocksFound, MapTypes
  <2>3. c >= d /\ c \in m.cuts /\ c \in Nat /\ d \in Nat /\ q \in Nat
    BY <1>2, <1>4, <2>1, <2>2, MapTypes DEF Last, Of
  <2>4. b.end = Smaller(end, e)
    BY <2>e DEF align_pos
  <2>5. c \in BlockStart(m, c) /\ c \in Positions(m)
    BY <2>3, CutStarts
  <2>6. e \in Nat /\ c < e /\ Block(m, c) = c .. e - 1
    BY <2>e, <2>5, BlockShape
  <2>7. q < e
    <3>1. CASE c = d
      BY <2>2, <2>6, <3>1
    <3>2. CASE c > d
      <4>1. ~(c <= d) /\ SameBlock(m, d, q)
        BY <2>2, <2>3, <3>2 DEF Block
      <4>2. ~(c <= q)
        BY <2>3, <4>1 DEF SameBlock
      <4> QED BY <2>3, <2>6, <4>2
    <3> QED BY <2>3, <3>1, <3>2
  <2> QED BY <1>6, <2>4, <2>6, <2>7 DEF Smaller
<1> QED BY <1>5, <1>6

-----------------------------------------------------------------------------
(***************************************************************************)
(* Counting the blocks on one side of a block.                             *)
(***************************************************************************)
Below(m, c) == {x \in m.cuts : x < c}
Above(m, c) == {x \in m.cuts : x > c}

\* At least k blocks precede, or follow, every block of status s in the domain.
AllBelow(m, dom, s, k) ==
  \A z \in m.cuts : m.st[z] = s /\ z \in dom => Cardinality(Below(m, z)) >= k
AllAbove(m, dom, s, k) ==
  \A z \in m.cuts : m.st[z] = s /\ z \in dom => Cardinality(Above(m, z)) >= k

\* The blocks of a map can be counted, and more of them are not fewer.
LEMMA CutsCompare ==
  ASSUME NEW m, IsMap(m), NEW S \in SUBSET m.cuts, NEW T \in SUBSET S
  PROVE  /\ Cardinality(S) \in Nat /\ Cardinality(T) \in Nat
         /\ IsFiniteSet(S) /\ IsFiniteSet(T)
         /\ Cardinality(T) <= Cardinality(S)
<1>1. IsFiniteSet(Positions(m)) /\ S \in SUBSET Positions(m)
  <2>1. IsFiniteSet(Positions(m))
    BY FS_Interval, MapTypes DEF Positions
  <2>2. S \in SUBSET Positions(m)
    BY MapTypes
  <2> QED BY <2>1, <2>2
<1>2. IsFiniteSet(S)
  BY <1>1, FS_Subset
<1>3. IsFiniteSet(T) /\ Cardinality(T) <= Cardinality(S)
  BY <1>2, FS_Subset
<1> QED BY <1>2, <1>3, FS_CardinalityType

\* Where the borders are once a chunk of a block was changed: those of the chunk
\* aside, where they were; and no other border was within the block up to its end.
LEMMA ChangeChunkCuts ==
  ASSUME NEW m, IsMap(m), Uniform(m), NEW dom, SplitByDomain(m, dom), NEW b,
         IsChunk(b), NEW s, Ready(m, dom, b, s), NEW t \in Status, s # t
  PROVE  LET mm == change_chunk(m, dom, b, t) IN
         /\ b.pos \in Nat /\ b.end \in Nat /\ b.pos < b.end
         /\ IsMap(mm) /\ Uniform(mm) /\ Positions(mm) = Positions(m)
         /\ \A x : x # b.pos /\ x # b.end => (x \in mm.cuts <=> x \in m.cuts)
         /\ \A z \in mm.cuts : mm.st[z] = s =>
              z \in Nat /\ m.st[z] = s /\ (z < b.pos \/ b.end <= z)
         /\ \E c \in m.cuts :
              /\ c \in Nat /\ c <= b.pos /\ m.st[c] = s /\ c \in dom
              /\ \A x \in m.cuts : x > c => x >= b.end
<1> DEFINE mm == change_chunk(m, dom, b, t)
<1>1. /\ b.pos \in Nat /\ b.end \in Nat /\ b.pos < b.end /\ b.end <= m.end
      /\ m.cuts \subseteq Nat /\ b.pos \in Positions(m) /\ m.end \in Nat
      /\ b.pos \in Chunk(b) /\ b.end - 1 \in Chunk(b) /\ b.pos \in dom
      /\ m.st[b.pos] = s /\ b.end - 1 \in Block(m, b.pos)
  BY MapTypes DEF IsChunk, Ready, Chunk
<1>2. IsMap(mm) /\ mm.end = m.end /\ Uniform(mm)
  BY <1>1, ChangeChunkIsMap, ChangeChunkSound
<1>3. Positions(mm) = Positions(m)
  BY <1>2 DEF Positions
<1>4. \A p \in Positions(m) : mm.st[p] = IF p \in Chunk(b) THEN t ELSE m.st[p]
  BY ChangeChunkStatus
<1>5. \A x : x # b.pos /\ x # b.end => (x \in mm.cuts <=> x \in m.cuts)
  BY <1>1 DEF change_chunk, Borders
<1>6. \A z \in mm.cuts : mm.st[z] = s =>
        z \in Nat /\ m.st[z] = s /\ (z < b.pos \/ b.end <= z)
  <2> TAKE z \in mm.cuts
  <2> HAVE mm.st[z] = s
  <2>1. z \in Nat /\ z \in Positions(m)
    <3> HIDE DEF mm
    <3> QED BY <1>2, <1>3, MapTypes
  <2>2. z \notin Chunk(b) /\ m.st[z] = s
    BY <1>4, <2>1
  <2> QED BY <1>1, <2>1, <2>2 DEF Chunk
<1>7. PICK c \in BlockStart(m, b.pos) : c \in m.cuts /\ c <= b.pos
  BY <1>1, BlockStartExists
<1>8. c \in Nat /\ c \in Positions(m) /\ SameBlock(m, b.pos, c)
  BY <1>1, <1>7, MapTypes DEF BlockStart, Block
<1>9. m.st[c] = s /\ c \in dom
  BY <1>1, <1>8 DEF Uniform, SplitByDomain
<1>10. ASSUME NEW x \in m.cuts, x > c PROVE x >= b.end
  <2>1. SameBlock(m, b.pos, b.end - 1)
    BY <1>1 DEF Block
  <2>2. ~(x <= b.pos)
    BY <1>1, <1>8, <1>10 DEF SameBlock
  <2>3. ~(x <= b.end - 1)
    BY <2>1, <2>2 DEF SameBlock
  <2> QED BY <1>1, <2>3
<1> HIDE DEF mm
<1>11. \E d \in m.cuts :
         /\ d \in Nat /\ d <= b.pos /\ m.st[d] = s /\ d \in dom
         /\ \A x \in m.cuts : x > d => x >= b.end
  BY <1>7, <1>8, <1>9, <1>10
<1> QED BY <1>1, <1>2, <1>3, <1>5, <1>6, <1>11 DEF mm

\* The number of blocks before those still to be done does not fall below k when a
\* chunk of one of them is done ...
LEMMA ChangeKeepsBelow ==
  ASSUME NEW m, IsMap(m), Uniform(m), NEW dom, SplitByDomain(m, dom), NEW b,
         IsChunk(b), NEW s, Ready(m, dom, b, s), NEW t \in Status, s # t,
         NEW k \in Nat, AllBelow(m, dom, s, k)
  PROVE  AllBelow(change_chunk(m, dom, b, t), dom, s, k)
<1> DEFINE mm == change_chunk(m, dom, b, t)
<1>1. /\ b.pos \in Nat /\ b.end \in Nat /\ b.pos < b.end
      /\ IsMap(mm) /\ Uniform(mm) /\ Positions(mm) = Positions(m)
      /\ \A x : x # b.pos /\ x # b.end => (x \in mm.cuts <=> x \in m.cuts)
      /\ \A z \in mm.cuts : mm.st[z] = s =>
           z \in Nat /\ m.st[z] = s /\ (z < b.pos \/ b.end <= z)
  BY ChangeChunkCuts
<1>2. PICK c \in m.cuts : c \in Nat /\ c <= b.pos /\ m.st[c] = s /\ c \in dom
  BY ChangeChunkCuts
<1>3. mm.cuts \subseteq Nat /\ m.cuts \subseteq Nat
  <2> HIDE DEF mm
  <2> QED BY <1>1, MapTypes
<1> SUFFICES ASSUME NEW z \in mm.cuts, mm.st[z] = s, z \in dom
             PROVE  Cardinality(Below(mm, z)) >= k
  BY DEF AllBelow
<1> HIDE DEF mm
<1>4. z \in Nat /\ m.st[z] = s
  BY <1>1
<1>5. CASE z < c
  <2>1. z \in m.cuts
    BY <1>1, <1>2, <1>4, <1>5
  <2>2. \A x : x \in Below(mm, z) <=> x \in Below(m, z)
    BY <1>1, <1>2, <1>3, <1>4, <1>5 DEF Below
  <2>3. Below(mm, z) = Below(m, z)
    BY <2>2
  <2> QED BY <1>4, <2>1, <2>3 DEF AllBelow
<1>6. CASE c <= z
  <2>1. Below(m, c) \in SUBSET Below(mm, z)
    BY <1>1, <1>2, <1>3, <1>4, <1>6 DEF Below
  <2>2. Below(mm, z) \in SUBSET mm.cuts
    BY DEF Below
  <2>3. /\ Cardinality(Below(m, c)) <= Cardinality(Below(mm, z))
        /\ Cardinality(Below(m, c)) \in Nat /\ Cardinality(Below(mm, z)) \in Nat
    BY <1>1, <2>1, <2>2, CutsCompare
  <2>4. Cardinality(Below(m, c)) >= k
    BY <1>2 DEF AllBelow
  <2> QED BY <2>3, <2>4
<1> QED BY <1>2, <1>4, <1>5, <1>6

\* ... nor does the number of blocks behind them: of the borders behind a block that
\* comes before the chunk, at most the one at the end of the chunk is gone, and the
\* block of the chunk still begins behind it.
LEMMA ChangeKeepsAbove ==
  ASSUME NEW m, IsMap(m), Uniform(m), NEW dom, SplitByDomain(m, dom), NEW b,
         IsChunk(b), NEW s, Ready(m, dom, b, s), NEW t \in Status, s # t,
         NEW k \in Nat, AllAbove(m, dom, s, k)
  PROVE  AllAbove(change_chunk(m, dom, b, t), dom, s, k)
<1> DEFINE mm == change_chunk(m, dom, b, t)
<1>1. /\ b.pos \in Nat /\ b.end \in Nat /\ b.pos < b.end
      /\ IsMap(mm) /\ Uniform(mm) /\ Positions(mm) = Positions(m)
      /\ \A x : x # b.pos /\ x # b.end => (x \in mm.cuts <=> x \in m.cuts)
      /\ \A z \in mm.cuts : mm.st[z] = s =>
           z \in Nat /\ m.st[z] = s /\ (z < b.pos \/ b.end <= z)
  BY ChangeChunkCuts
<1>2. PICK c \in m.cuts :
        /\ c \in Nat /\ c <= b.pos /\ m.st[c] = s /\ c \in dom
        /\ \A x \in m.cuts : x > c => x >= b.end
  BY ChangeChunkCuts
<1>3. mm.cuts \subseteq Nat /\ m.cuts \subseteq Nat
  <2> HIDE DEF mm
  <2> QED BY <1>1, MapTypes
<1>4. mm.st[b.pos] = t /\ b.pos \in Positions(m)
  <2>1. b.pos \in Chunk(b) /\ b.pos \in Positions(m)
    BY <1>1, MapTypes DEF Chunk, Ready
  <2> QED BY <2>1, ChangeChunkStatus
<1> SUFFICES ASSUME NEW z \in mm.cuts, mm.st[z] = s, z \in dom
             PROVE  Cardinality(Above(mm, z)) >= k
  BY DEF AllAbove
<1> HIDE DEF mm
<1>5. z \in Nat /\ m.st[z] = s /\ (z < b.pos \/ b.end <= z) /\ z \in Positions(mm)
  BY <1>1, MapTypes
<1>6. /\ Above(m, c) \in SUBSET m.cuts /\ Above(mm, z) \in SUBSET mm.cuts
      /\ Cardinality(Above(m, c)) >= k
  BY <1>2 DEF AllAbove, Above
<1>7. CASE b.end <= z /\ z \in m.cuts
  <2>1. \A x : x \in Above(mm, z) <=> x \in Above(m, z)
    BY <1>1, <1>3, <1>5, <1>7 DEF Above
  <2>2. Above(mm, z) = Above(m, z)
    BY <2>1
  <2> QED BY <1>5, <1>7, <2>2 DEF AllAbove
<1>8. CASE b.end <= z /\ z \notin m.cuts
  <2>1. z = b.end
    BY <1>1, <1>5, <1>8
  <2>2. Above(m, c) \in SUBSET Above(mm, z)
    BY <1>1, <1>2, <1>3, <1>8, <2>1 DEF Above
  <2>3. /\ Cardinality(Above(m, c)) <= Cardinality(Above(mm, z))
        /\ Cardinality(Above(m, c)) \in Nat /\ Cardinality(Above(mm, z)) \in Nat
    BY <1>1, <1>6, <2>2, CutsCompare
  <2> QED BY <1>6, <2>3
<1>9. CASE z < b.pos
  <2>1. ~SameBlock(mm, z, b.pos)
    BY <1>1, <1>4, <1>5 DEF Uniform
  <2>2. PICK d \in mm.cuts : z < d /\ d <= b.pos
    <3>1. PICK d \in mm.cuts : ~(d <= z <=> d <= b.pos)
      BY <2>1 DEF SameBlock
    <3> QED BY <1>1, <1>3, <1>5, <1>9, <3>1
  <2> DEFINE S == Above(m, c) \ {b.end}
  <2>3. S \cup {d} \in SUBSET Above(mm, z) /\ d \notin S
    BY <1>1, <1>2, <1>3, <1>5, <1>9, <2>2 DEF Above
  <2>4. IsFiniteSet(Above(m, c)) /\ Cardinality(Above(m, c)) \in Nat
    BY <1>6, CutsCompare
  <2>5. IsFiniteSet(S) /\ Cardinality(S) >= Cardinality(Above(m, c)) - 1 /\ Cardinality(S) \in Nat
    <3>1. /\ IsFiniteSet(S)
          /\ Cardinality(S) = IF b.end \in Above(m, c) THEN Cardinality(Above(m, c)) - 1
                                                        ELSE Cardinality(Above(m, c))
      BY <2>4, FS_RemoveElement
    <3> QED BY <2>4, <3>1, FS_CardinalityType
  <2> HIDE DEF S
  <2>6. Cardinality(S \cup {d}) = Cardinality(S) + 1
    BY <2>3, <2>5, FS_AddElement
  <2>7. /\ Cardinality(S \cup {d}) <= Cardinality(Above(mm, z))
        /\ Cardinality(Above(mm, z)) \in Nat
    BY <1>1, <1>6, <2>3, CutsCompare
  <2> QED BY <1>6, <2>4, <2>5, <2>6, <2>7
<1> QED BY <1>5, <1>7, <1>8, <1>9

\* Truncation leaves the number of blocks before the others as it is.
LEMMA TruncateKeepsBelow ==
  ASSUME NEW m, IsMap(m), NEW end \in Nat, NEW dom, NEW s, NEW k,
         AllBelow(m, dom, s, k)
  PROVE  AllBelow(truncate_vector(m, end), dom, s, k)
<1> DEFINE mm == truncate_vector(m, end)
           e  == Smaller(m.end, end)
<1>1. mm.cuts = {x \in m.cuts : x < e} /\ m.cuts \subseteq Nat /\ e \in Nat
  BY MapTypes DEF truncate_vector, Smaller
<1>2. \A z \in mm.cuts : mm.st[z] = m.st[z]
  BY <1>1 DEF truncate_vector
<1> HIDE DEF mm, e
<1>3. \A z \in mm.cuts : \A x : x \in Below(mm, z) <=> x \in Below(m, z)
  BY <1>1 DEF Below
<1>4. \A z \in mm.cuts : Below(mm, z) = Below(m, z)
  BY <1>3
<1> QED BY <1>1, <1>2, <1>4 DEF AllBelow, mm

\* Truncation beyond the end of a map leaves it as it is.
LEMMA TruncateBeyond ==
  ASSUME NEW m, IsMap(m), NEW end \in Nat, m.end <= end
  PROVE  truncate_vector(m, end) = m
<1>1. Smaller(m.end, end) = m.end
  BY DEF Smaller
<1>2. {c \in m.cuts : c < m.end} = m.cuts
  BY MapTypes
<1>3. [p \in 0 .. m.end - 1 |-> m.st[p]] = m.st
  BY DEF IsMap, Positions
<1> QED BY <1>1, <1>2, <1>3 DEF truncate_vector, IsMap

\* A block has at least as many blocks before it as one before it, and one more if
\* it is another one.
LEMMA BelowGrows ==
  ASSUME NEW m, IsMap(m), NEW c \in m.cuts, NEW z \in m.cuts, c <= z
  PROVE  /\ Cardinality(Below(m, c)) <= Cardinality(Below(m, z))
         /\ c # z => Cardinality(Below(m, c)) + 1 <= Cardinality(Below(m, z))
         /\ Cardinality(Below(m, c)) \in Nat /\ Cardinality(Below(m, z)) \in Nat
<1>1. /\ Below(m, z) \in SUBSET m.cuts /\ c \in Nat /\ z \in Nat
      /\ m.cuts \subseteq Nat
  BY MapTypes DEF Below
<1>2. Below(m, c) \in SUBSET Below(m, z)
  BY <1>1 DEF Below
<1>3. /\ Cardinality(Below(m, c)) <= Cardinality(Below(m, z))
      /\ IsFiniteSet(Below(m, c))
      /\ Cardinality(Below(m, c)) \in Nat /\ Cardinality(Below(m, z)) \in Nat
  BY <1>1, <1>2, CutsCompare
<1>4. ASSUME c # z PROVE Cardinality(Below(m, c)) + 1 <= Cardinality(Below(m, z))
  <2>1. Below(m, c) \cup {c} \in SUBSET Below(m, z) /\ c \notin Below(m, c)
    BY <1>1, <1>4 DEF Below
  <2>2. Cardinality(Below(m, c) \cup {c}) = Cardinality(Below(m, c)) + 1
    BY <1>3, <2>1, FS_AddElement
  <2>3. Cardinality(Below(m, c) \cup {c}) <= Cardinality(Below(m, z))
    BY <1>1, <2>1, CutsCompare
  <2> QED BY <2>2, <2>3
<1> QED BY <1>3, <1>4

\* The same behind it.
LEMMA AboveGrows ==
  ASSUME NEW m, IsMap(m), NEW c \in m.cuts, NEW z \in m.cuts, z <= c
  PROVE  /\ Cardinality(Above(m, c)) <= Cardinality(Above(m, z))
         /\ c # z => Cardinality(Above(m, c)) + 1 <= Cardinality(Above(m, z))
         /\ Cardinality(Above(m, c)) \in Nat /\ Cardinality(Above(m, z)) \in Nat
<1>1. /\ Above(m, z) \in SUBSET m.cuts /\ c \in Nat /\ z \in Nat
      /\ m.cuts \subseteq Nat
  BY MapTypes DEF Above
<1>2. Above(m, c) \in SUBSET Above(m, z)
  BY <1>1 DEF Above
<1>3. /\ Cardinality(Above(m, c)) <= Cardinality(Above(m, z))
      /\ IsFiniteSet(Above(m, c))
      /\ Cardinality(Above(m, c)) \in Nat /\ Cardinality(Above(m, z)) \in Nat
  BY <1>1, <1>2, CutsCompare
<1>4. ASSUME c # z PROVE Cardinality(Above(m, c)) + 1 <= Cardinality(Above(m, z))
  <2>1. Above(m, c) \cup {c} \in SUBSET Above(m, z) /\ c \notin Above(m, c)
    BY <1>1, <1>4 DEF Above
  <2>2. Cardinality(Above(m, c) \cup {c}) = Cardinality(Above(m, c)) + 1
    BY <1>3, <2>1, FS_AddElement
  <2>3. Cardinality(Above(m, c) \cup {c}) <= Cardinality(Above(m, z))
    BY <1>1, <2>1, CutsCompare
  <2> QED BY <2>2, <2>3
<1> QED BY <1>3, <1>4
=============================================================================
