----------------------------- MODULE MapVector ------------------------------
(***************************************************************************)
(* Blocks, domains and the vector of blocks of a mapfile (classes Block,   *)
(* Sblock, Domain and Mapfile), as the program stores them.                *)
(*                                                                         *)
(*    [pos, size]        a Block                                           *)
(*    [pos, size, st]    an Sblock                                         *)
(*    a Domain           a sequence of Blocks                              *)
(*    sblock_vector      a sequence of Sblocks                             *)
(*                                                                         *)
(* Indices are those of TLA+: 1 is the first block, and 0 stands for the   *)
(* program's index -1.  Positions and sizes are limited to LLONG_MAX, as   *)
(* long long is; the operations on blocks saturate there.                  *)
(*                                                                         *)
(* BlockMap says the same of the map in terms of positions, borders and    *)
(* statuses, and is the abstract specification of this module.             *)
(***************************************************************************)
EXTENDS Integers, SequencesExt

CONSTANT LLONG_MAX

ASSUME LimitAssumption == LLONG_MAX \in Nat \ {0}

BM == INSTANCE BlockMap

Status == BM!Status
processed_state == BM!processed_state
min(x, y) == BM!Smaller(x, y)
max(x, y) == BM!Larger(x, y)

-----------------------------------------------------------------------------
(***************************************************************************)
(* Blocks.                                                                 *)
(***************************************************************************)
end(b) == b.pos + b.size

\* limit size_ to largest possible value
fix_size(b) ==
  IF b.size < 0 \/ b.size > LLONG_MAX - b.pos
  THEN [b EXCEPT !.size = LLONG_MAX - b.pos] ELSE b

\* Block( p, s ) and assign: what lies below 0 is cut off.
assign(p, s) ==
  fix_size([pos |-> max(p, 0),
            size |-> IF p < 0 /\ s > 0 THEN s - min(s, -p) ELSE s])

Sblock(b, s) == [pos |-> b.pos, size |-> b.size, st |-> s]

set_pos(b, p) ==
  LET q == max(p, 0)
  IN  [b EXCEPT !.pos = q, !.size = min(b.size, LLONG_MAX - q)]

\* shift( offset ): by a positive offset as far as LLONG_MAX, by a negative one
\* with what falls below 0 cut off.
shift_KeepsSize(b, offset) ==                                               \* mutant
  LET p == IF offset >= 0 THEN b.pos + min(offset, LLONG_MAX - b.pos)
           ELSE max(b.pos + offset, 0)
  IN  [b EXCEPT !.pos = p, !.size = min(b.size, LLONG_MAX - p)]
shift(b, offset) ==
  IF offset >= 0
  THEN LET p == b.pos + min(offset, LLONG_MAX - b.pos)
       IN  [b EXCEPT !.pos = p, !.size = min(b.size, LLONG_MAX - p)]
  ELSE IF b.pos + offset < 0
       THEN [b EXCEPT !.pos = 0, !.size = max(b.size + b.pos + offset, 0)]
       ELSE [b EXCEPT !.pos = b.pos + offset]

set_size_NoLimit(b, s) == [b EXCEPT !.size = max(s, 0)]                     \* mutant
set_size(b, s) == fix_size([b EXCEPT !.size = s])

enlarge(b, s) ==
  [b EXCEPT !.size = b.size + IF s < 0 THEN LLONG_MAX - end(b)
                              ELSE min(s, LLONG_MAX - end(b))]

\* end( e ): moves the block so that it ends at e.
set_end(b, e) ==
  LET f == IF e < 0 THEN LLONG_MAX ELSE e
  IN  IF b.size <= f THEN [b EXCEPT !.pos = f - b.size]
      ELSE [b EXCEPT !.pos = 0, !.size = f]

align_pos(b, alignment) ==
  LET disp == alignment - (b.pos % alignment)
  IN  IF alignment > 1 /\ disp < alignment /\ disp < b.size
      THEN [b EXCEPT !.pos = b.pos + disp, !.size = b.size - disp] ELSE b

align_end(b, alignment) ==
  LET rest == end(b) % alignment
  IN  IF alignment > 1 /\ b.size > rest
      THEN [b EXCEPT !.size = b.size - rest] ELSE b

before(a, b)   == end(a) <= b.pos                                \* a < b
follows(a, b)  == a.pos = end(b)
includes(a, b) == a.pos <= b.pos /\ end(a) >= end(b)
includes_pos(a, p) == a.pos <= p /\ end(a) > p
strictly_includes(a, p) == a.pos < p /\ end(a) > p

crop(a, b) ==
  LET p == max(a.pos, b.pos)
  IN  [a EXCEPT !.pos = p, !.size = max(0, min(end(a), end(b)) - p)]

\* join: the internal error is what CanJoin leaves out.
join(a, b) ==
  [a EXCEPT !.pos = IF follows(a, b) THEN b.pos ELSE a.pos,
            !.size = a.size + b.size]
CanJoin(a, b) == (follows(a, b) \/ follows(b, a)) /\ end(join(a, b)) <= LLONG_MAX

\* shift_boundary: the boundary of two consecutive blocks moves to p.
CanShiftBoundary(a, b, p) == end(a) = b.pos /\ a.pos < p /\ p < end(b)
shift_boundary(a, b, p) ==
  <<[a EXCEPT !.size = p - a.pos],
    [b EXCEPT !.pos = p, !.size = end(b) - p]>>

\* split( pos ): the block up to pos, split off, if any, and what remains.
split(b, p) ==
  IF strictly_includes(b, p)
  THEN [off  |-> <<[b EXCEPT !.size = p - b.pos]>>,
        rest |-> [b EXCEPT !.pos = p, !.size = end(b) - p]]
  ELSE [off |-> <<>>, rest |-> b]

-----------------------------------------------------------------------------
(***************************************************************************)
(* What a block, a domain and a vector are that the program can have.      *)
(***************************************************************************)

\* "pos >= 0 && size >= 0 && pos + size <= LLONG_MAX" (block.h:31).
InRange(b) == b.pos >= 0 /\ b.size >= 0 /\ end(b) <= LLONG_MAX

\* Blocks of positive size, each beginning where the one before it ends, within
\* the range of long long; all of them, from 0 on, are a vector.
Blocks == [pos : Nat, size : Nat, st : Status]
Consecutive(v) ==
  /\ v \in Seq(Blocks)
  /\ \A i \in DOMAIN v : /\ v[i].size > 0 /\ end(v[i]) <= LLONG_MAX
                         /\ i > 1 => follows(v[i], v[i - 1])
IsVector(v) == Consecutive(v) /\ v # <<>> /\ v[1].pos = 0

\* The blocks of a domain are ordered, and no two of them touch.
IsDomain(d) ==
  /\ d \in Seq([pos : Nat, size : Nat])
  /\ \A i \in DOMAIN d : d[i].size > 0 /\ (i > 1 => end(d[i - 1]) < d[i].pos)

\* The domain of a run: some blocks, or one block of size 0.
IsRunDomain(d) ==
  /\ d # <<>>
  /\ IsDomain(d) \/ (Head(d).pos \in Nat /\ d = <<[pos |-> Head(d).pos, size |-> 0]>>)

\* The lines of a mapfile that are considered: blocks of positive size, or the one
\* block that is left of a map truncated at 0.  Blocks of size 0 with another status,
\* which shifting a map below 0 leaves, are not.
EmptyMap == <<[pos |-> 0, size |-> 0, st |-> "non_tried"]>>
IsMapLines(lines) ==
  \/ lines = EmptyMap
  \/ /\ lines \in Seq(Blocks)
     /\ \A i \in DOMAIN lines : lines[i].size > 0 /\ end(lines[i]) <= LLONG_MAX

\* The positions of a block, and of a domain.
Bytes(b) == b.pos .. end(b) - 1
InDomains(d) == UNION {Bytes(d[i]) : i \in DOMAIN d}

-----------------------------------------------------------------------------
(***************************************************************************)
(* Domains.                                                                *)
(***************************************************************************)
Empty == <<[pos |-> 0, size |-> 0]>>

domain_pos(d)  == Head(d).pos
domain_end(d)  == end(Last(d))
empty(d)       == domain_end(d) <= domain_pos(d)
beyond(d, b)   == domain_end(d) <= b.pos                         \* domain < b
in_size(d)     == FoldLeft(LAMBDA n, b : n + b.size, 0, d)

\* The binary search of Domain::includes( block ), in the blocks behind the first
\* w[1] and up to the block w[2].
InDomain(d, b) ==
  LET Ends == 0 .. Len(d)
      search[w \in Ends \X Ends] ==
        /\ w[1] < w[2]
        /\ LET m  == (w[1] + w[2]) \div 2
               db == d[m + 1]
           IN  \/ includes(db, b)
               \/ before(db, b) /\ search[<<m + 1, w[2]>>]
               \/ ~before(db, b) /\ before(b, db) /\ search[<<w[1], m>>]
  IN  search[<<0, Len(d)>>]

\* Domain::crop( b ): the last block not beyond b is cropped, then the first
\* one not before b; what lies outside of both is erased.
crop_domain_OneEnd(d, b) ==                                                 \* mutant
  LET r == Max({0} \cup {i \in DOMAIN d : ~before(b, d[i])})
  IN  IF r = 0 THEN Empty ELSE SubSeq(d, 1, r - 1) \o <<crop(d[r], b)>>
crop_domain(d, b) ==
  LET upTo(r) == IF r = 0 \/ crop(d[r], b).size <= 0 THEN <<>>
                 ELSE SubSeq(d, 1, r - 1) \o <<crop(d[r], b)>>
      from(cut, l) == <<crop(cut[l], b)>> \o SubSeq(cut, l + 1, Len(cut))
      cropped(cut) ==
        IF cut = <<>> THEN Empty
        ELSE IF b.pos <= 0 THEN cut
        ELSE from(cut, Min({Len(cut)} \cup {i \in DOMAIN cut : ~before(cut[i], b)}))
  IN  cropped(upTo(Max({0} \cup {i \in DOMAIN d : ~before(b, d[i])})))

-----------------------------------------------------------------------------
(***************************************************************************)
(* The vector of blocks.                                                   *)
(***************************************************************************)
extent(v) ==
  IF v = <<>> THEN [pos |-> 0, size |-> 0]
  ELSE [pos |-> Head(v).pos, size |-> end(Last(v)) - Head(v).pos]

set_to_status(s) == <<Sblock(assign(0, -1), s)>>

blank(v) == \A i \in 1 .. Len(v) : v[i].st = "non_tried"

\* Joins every run of blocks of equal status.
JoinSame(w, sb) ==
  IF w # <<>> /\ Last(w).st = sb.st
  THEN Front(w) \o <<set_size(Last(w), end(sb) - Last(w).pos)>>
  ELSE Append(w, sb)

compact_sblock_vector(v) == FoldLeft(JoinSame, <<>>, v)

\* One step of join_subsectors: sb follows the last block of w.  Where their
\* boundary lies inside a sector and neither is finished, the subsector goes to
\* the block with the less processed state, or both become one block.
JoinSubsector_MoreProcessed(w, sb, hardbs) ==                               \* mutant
  IF w = <<>> \/ end(Last(w)) % hardbs = 0 THEN Append(w, sb)
  ELSE Front(w) \o <<[Last(w) EXCEPT !.size = @ + sb.size,
         !.st = IF processed_state[@] < processed_state[sb.st] THEN sb.st ELSE @]>>
JoinSubsector(w, sb, hardbs) ==
  LET sb1  == Last(w)
      rest == end(sb1) % hardbs
      less == processed_state[sb1.st] <= processed_state[sb.st]
  IN  IF w = <<>> \/ rest = 0 \/ "finished" \in {sb1.st, sb.st} THEN Append(w, sb)
      ELSE IF less /\ sb.size > hardbs - rest
           THEN Front(w) \o shift_boundary(sb1, sb, end(sb1) + hardbs - rest)
      ELSE IF ~less /\ sb1.size > rest
           THEN Front(w) \o shift_boundary(sb1, sb, end(sb1) - rest)
      ELSE Front(w) \o
             <<enlarge([sb1 EXCEPT !.st = IF less THEN @ ELSE sb.st], sb.size)>>

join_subsectors(v, hardbs) ==
  FoldLeft(LAMBDA w, sb : JoinSubsector(w, sb, hardbs), <<>>, v)

\* extend_sblock_vector: the vector is made to begin at 0 and to end at insize,
\* or at LLONG_MAX when insize is 0.  ok is FALSE where the program exits since
\* the mapfile goes past the end of the input file.
extend_sblock_vector(v, insize) ==
  LET free(p, size) == Sblock(assign(p, size), "non_tried")
      tail(e) == free(e, IF insize > 0 THEN insize - e ELSE -1)
      ends(w, back) ==
        IF insize > 0 /\ back.pos >= insize
        THEN IF back.pos = insize /\ back.st # "finished"
             THEN [ok |-> TRUE, v |-> Front(w)] ELSE [ok |-> FALSE, v |-> w]
        ELSE IF insize > 0 /\ end(back) > insize
        THEN IF back.st = "finished" THEN [ok |-> FALSE, v |-> w]
             ELSE [ok |-> TRUE,
                   v  |-> Front(w) \o <<set_size(back, insize - back.pos)>>]
        ELSE LET rest == tail(end(back))
             IN  [ok |-> TRUE, v |-> IF rest.size > 0 THEN Append(w, rest) ELSE w]
  IN  IF v = <<>> THEN [ok |-> TRUE, v |-> <<tail(0)>>]
      ELSE ends((IF Head(v).pos > 0 THEN <<free(0, Head(v).pos)>> ELSE <<>>) \o v, Last(v))

shift_blocks(v, offset) ==
  LET front == Head(v)
      first == IF front.st = "non_tried" THEN <<enlarge(front, offset)>>
               ELSE <<Sblock(assign(0, offset), "non_tried")>>
      rest  == [i \in DOMAIN v |-> shift(v[i], offset)]
      fitting(w) ==
        SubSeq(w, 1, Min({Len(w)} \cup {i \in 0 .. Len(w) - 1 : w[i + 1].size <= 0}))
      kept(I) == IF I = {} THEN 1 ELSE Min(I)
  IN  IF v = <<>> \/ offset = 0 THEN v
      ELSE IF offset > 0
      THEN first \o fitting(IF front.st = "non_tried" THEN Tail(rest) ELSE rest)
      ELSE SubSeq(rest, kept({i \in DOMAIN v : end(v[i]) + offset > 0}), Len(v))

\* truncate_vector: ok is FALSE, and nothing changes, if truncation would remove
\* finished blocks and force is false.
truncate_vector(v, e, force) ==
  LET i  == Max({0} \cup {j \in DOMAIN v : v[j].pos < e})
      ok == \/ force
            \/ /\ \A j \in i + 1 .. Len(v) : v[j].st # "finished"
               /\ i > 0 /\ includes_pos(v[i], e) => v[i].st # "finished"
      sb == IF includes_pos(v[i], e) THEN set_size(v[i], e - v[i].pos) ELSE v[i]
  IN  [ok |-> ok,
       v  |-> IF ~ok THEN v
              ELSE IF i = 0 THEN <<Sblock(assign(0, 0), "non_tried")>>
              ELSE SubSeq(v, 1, i - 1) \o <<sb>>]

\* Replaces block i by the blocks of w.
Splice(v, i, w) == SubSeq(v, 1, i - 1) \o w \o SubSeq(v, i + 1, Len(v))

try_split_sblock_by(v, p, i) ==
  IF i \in DOMAIN v THEN Splice(v, i, split(v[i], p).off \o <<split(v[i], p).rest>>)
  ELSE v

\* The blocks of v are split at the borders of the blocks of d, both in order.
split_by_borders_PosOnly(v, d) ==                                           \* mutant
  FoldLeft(LAMBDA w, db : LET i == Max({0} \cup {j \in DOMAIN w : w[j].pos < db.pos})
                          IN  try_split_sblock_by(w, db.pos, i), v, d)
split_by_borders(v, d) ==
  LET Rests == {w \in Seq(Blocks) : Len(w) <= Len(v)}
      walk[x \in Rests \X (1 .. Len(d) + 1)] ==
        LET w == x[1]
            j == x[2]
        IN
        IF w = <<>> \/ j > Len(d) THEN w
        ELSE IF before(d[j], Head(w)) THEN walk[<<w, j + 1>>]
        ELSE LET p == split(Head(w), d[j].pos)
                 e == split(p.rest, end(d[j]))
             IN  p.off \o e.off \o
                   IF e.rest.pos < end(d[j])
                   THEN <<e.rest>> \o walk[<<Tail(w), j>>]
                   ELSE walk[<<<<e.rest>> \o Tail(w), j>>]
  IN  walk[<<v, 1>>]

split_by_mapfile_borders(v, w) == split_by_borders(v, w)

split_by_domain_borders(v, d) ==
  LET db       == Head(d)
      first    == Min({Len(v) + 1} \cup {i \in DOMAIN v : ~before(v[i], db)})
      last(w)  == Max({0} \cup {i \in DOMAIN w : ~before(db, w[i])})
      ended(w) == try_split_sblock_by(w, end(db), last(w))
  IN  IF Len(d) = 1 THEN ended(try_split_sblock_by(v, db.pos, first))
      ELSE split_by_borders(v, d)

-----------------------------------------------------------------------------
(***************************************************************************)
(* Finding.  index is the cached index_; an operator that moves it returns *)
(* it with its result.                                                     *)
(***************************************************************************)

\* The cached index is the start of a walk up and then down the vector.
find_index_NoWalkDown(v, index, p) ==                                       \* mutant
  LET n  == Len(v)
      i0 == IF index < 1 \/ index > n THEN n \div 2 + 1 ELSE index
      i1 == Min({n} \cup {i \in i0 .. n - 1 : p < v[i + 1].pos})
  IN  IF includes_pos(v[i1], p) THEN i1 ELSE 0
find_index(v, index, p) ==
  LET n  == Len(v)
      i0 == IF index < 1 \/ index > n THEN n \div 2 + 1 ELSE index
      i1 == Min({n} \cup {i \in i0 .. n - 1 : p < v[i + 1].pos})
      i2 == Max({1} \cup {i \in 1 .. i1 : p >= v[i].pos})
  IN  IF includes_pos(v[i2], p) THEN i2 ELSE 0

\* b with its size put to 0, which means that nothing was found.
NoChunk(b) == [b EXCEPT !.size = 0]

\* The part of c that lies in block sb, from its beginning or up to its end.
Clip(c, sb)     == IF includes(sb, c) THEN c ELSE crop(c, sb)
PartFrom(c, sb) == Clip(IF c.pos < sb.pos THEN set_pos(c, sb.pos) ELSE c, sb)
PartUpTo(c, sb) == Clip(IF end(c) > end(sb) THEN set_end(c, end(sb)) ELSE c, sb)
AlignedEnd(c, sb, alignment) == IF end(c) # end(sb) THEN align_end(c, alignment) ELSE c
AlignedPos(c, sb, alignment) == IF c.pos # sb.pos THEN align_pos(c, alignment) ELSE c

\* Find chunk from b.pos forwards of size <= b.size and status s (with
\* unfinished, also any other but finished), after a finished block if so asked.
\* The walk begins at block i0, and cand are the blocks of the right status.
find_chunk(v, index, b, s, d, alignment, after_finished, unfinished) ==
  LET c    == IF b.pos < Head(v).pos THEN set_pos(b, Head(v).pos) ELSE b
      cand(i0) == {i \in i0 .. Len(v) :
                     /\ v[i].st = s \/ (unfinished /\ v[i].st # "finished")
                     /\ InDomain(d, v[i])}
      good(I) == {i \in I : after_finished /\ i > 1 => v[i - 1].st = "finished"}
      chunk(i) == [found |-> TRUE, index |-> i,
                   b |-> AlignedEnd(PartFrom(c, v[i]), v[i], alignment)]
      found(i0, I) ==
        IF i0 = 0 THEN [found |-> FALSE, b |-> NoChunk(c), index |-> 0]
        ELSE IF good(I) = {} THEN [found |-> I # {}, b |-> NoChunk(c), index |-> i0]
        ELSE chunk(Min(good(I)))
      from(i0) == found(i0, cand(i0))
  IN  IF b.size <= 0 THEN [found |-> FALSE, b |-> b, index |-> index]
      ELSE from(find_index(v, index, c.pos))

\* Find chunk from b.end backwards of size <= b.size and status s, before a
\* finished block if so asked.
rfind_chunk_NoAlign(v, index, b, s, d, alignment, before_finished) ==       \* mutant
  find_chunk(v, index, b, s, d, alignment, before_finished, FALSE)
rfind_chunk(v, index, b, s, d, alignment, before_finished) ==
  LET c    == IF end(b) > end(Last(v)) THEN set_end(b, end(Last(v))) ELSE b
      cand(i0) == {i \in 1 .. i0 : v[i].st = s /\ InDomain(d, v[i])}
      good(I) == {i \in I : before_finished /\ i < Len(v) => v[i + 1].st = "finished"}
      chunk(i) == [found |-> TRUE, index |-> i,
                   b |-> AlignedPos(PartUpTo(c, v[i]), v[i], alignment)]
      found(i0, I) ==
        IF i0 = 0 THEN [found |-> FALSE, b |-> NoChunk(c), index |-> 0]
        ELSE IF good(I) = {} THEN [found |-> I # {}, b |-> NoChunk(c), index |-> i0]
        ELSE chunk(Max(good(I)))
      from(i0) == found(i0, cand(i0))
  IN  IF b.size <= 0 THEN [found |-> FALSE, b |-> b, index |-> index]
      ELSE from(find_index(v, index, end(c) - 1))

-----------------------------------------------------------------------------
(***************************************************************************)
(* Changing the status of a chunk.                                         *)
(***************************************************************************)

\* The negation of the two internal errors (index is moved by the first test).
CanChange(v, index, b, d) ==
  LET at(i) == InDomain(d, b) /\ i > 0 /\ InDomain(d, v[i]) /\ includes(v[i], b)
  IN  at(find_index(v, index, b.pos))

\* The change in the number of bad areas, given whether the old and the new status
\* and those on both sides are other than bad-sector.
areas_adjust_OneSide(new, old, bl, br) ==                                   \* mutant
  IF new = old THEN 0 ELSE IF old = bl THEN 1 ELSE -1
areas_adjust(new, old, bl, br) ==
  IF new = old \/ bl # br THEN 0 ELSE IF old = bl THEN 1 ELSE -1

\* b is a part of block i.
change_block(v, i, b, s, d) ==
  LET old   == v[i].st
      good(t) == t # "bad_sector"
      L     == i > 1                     \* is there a block on the left
      R     == i < Len(v)                \* ... on the right
      joinL == L /\ v[i - 1].st = s /\ InDomain(d, v[i - 1])
      joinR == R /\ v[i + 1].st = s /\ InDomain(d, v[i + 1])
      goodL == ~L \/ good(v[i - 1].st) \/ ~InDomain(d, v[i - 1])
      goodR == ~R \/ good(v[i + 1].st) \/ ~InDomain(d, v[i + 1])
      \* what is left of the block on both sides of the chunk
      left  == v[i].pos < b.pos
      right == end(v[i]) > end(b)
      bl    == IF left THEN good(old) ELSE goodL
      br    == IF right THEN good(old) ELSE goodR
      adj   == areas_adjust(good(s), good(old), bl, br)
      \* the blocks that take the place of block i, and of those they join
      head  == split(v[i], b.pos).off
      mid   == split(v[i], b.pos).rest
      tail  == split(mid, end(b))
      result(w, j, a) == [v |-> w, index |-> j, adjust |-> a]
      upTo(j) == SubSeq(v, 1, j)
      from(j) == SubSeq(v, j, Len(v))
  IN  IF s = old THEN result(v, i, 0)
      ELSE IF left /\ ~right /\ joinR
      THEN result(upTo(i - 1) \o shift_boundary(v[i], v[i + 1], b.pos) \o from(i + 2),
                  i, 0)
      ELSE IF right /\ ~left /\ joinL
      THEN result(upTo(i - 2) \o shift_boundary(v[i - 1], v[i], end(b)) \o from(i + 1),
                  i, adj)
      ELSE IF right
      THEN result(upTo(i - 1) \o head \o
                    <<[tail.off[1] EXCEPT !.st = s], tail.rest>> \o from(i + 1),
                  i + Len(head), adj)
      ELSE LET sb  == [mid EXCEPT !.st = s]
               sbR == IF joinR THEN join(sb, v[i + 1]) ELSE sb
               sbL == IF joinL /\ ~left THEN <<join(v[i - 1], sbR)>> ELSE head \o <<sbR>>
           IN  result(upTo(IF joinL /\ ~left THEN i - 2 ELSE i - 1) \o sbL \o
                        from(IF joinR THEN i + 2 ELSE i + 1),
                      IF joinL /\ ~left THEN i - 1 ELSE i + Len(head), adj)

change_chunk_status(v, index, b, s, d) ==
  IF b.size <= 0 THEN [v |-> v, index |-> index, adjust |-> 0]
  ELSE change_block(v, find_index(v, index, b.pos), b, s, d)

change_sblock_status(v, i, s) == [v EXCEPT ![i].st = s]

-----------------------------------------------------------------------------
(***************************************************************************)
(* The mapfile on disc: the lines of its blocks.                           *)
(***************************************************************************)
\* read_mapfile: default is the status to fill the gaps with, or "none".  ok is
\* FALSE where the program exits with an error in the mapfile.
read_mapfile_Gaps(lines, default) == [ok |-> TRUE, v |-> lines]             \* mutant
\* AddLine is one line more, of the gap before it if any and its block.
AddLine(r, line, default) ==
  LET e   == IF r.v = <<>> THEN 0 ELSE end(Last(r.v))
      sb  == Sblock(assign(line.pos, line.size), line.st)
      gap == IF default # "none" /\ sb.pos > e
             THEN <<Sblock(assign(e, sb.pos - e), default)>> ELSE <<>>
  IN  [ok |-> /\ r.ok
              /\ line.size > 0 \/ (line.size = 0 /\ line.pos = 0)
              /\ gap = <<>> => sb.pos = e \/ e <= 0,
       v  |-> r.v \o gap \o <<sb>>]

read_mapfile(lines, default) ==
  FoldLeft(LAMBDA r, line : AddLine(r, line, default), [ok |-> TRUE, v |-> <<>>], lines)

\* The constructor of Mapbook: the blocks and the domain that a run begins with on
\* what it read.  ok is FALSE where the program exits with an error.
Mapbook(v, d, insize, complete_only, rescue, hardbs) ==
  LET d1  == IF insize > 0 THEN crop_domain(d, assign(0, insize)) ELSE d
      ext == IF complete_only THEN [ok |-> TRUE, v |-> v]
             ELSE extend_sblock_vector(v, insize)
      d2  == IF complete_only THEN crop_domain(d1, extent(v)) ELSE d1
      w   == compact_sblock_vector(ext.v)
      w1  == IF rescue THEN join_subsectors(w, hardbs) ELSE w
      w2  == split_by_domain_borders(w1, d2)
  IN  [ok     |-> ext.ok /\ (insize > 0 => domain_pos(d) < insize),
       v      |-> w2,
       domain |-> IF w2 = <<>> THEN Empty ELSE d2]

=============================================================================
