------------------------------ MODULE BlockMap ------------------------------
(***************************************************************************)
(* The block map of a ddrescue mapfile (class Mapfile) and the operations  *)
(* the rescue loop makes on it.                                            *)
(*                                                                         *)
(* The program keeps a vector of consecutive blocks, each with a position, *)
(* a size and a status.  Because the blocks are consecutive and start at   *)
(* position 0, the vector is determined by where its blocks begin and by   *)
(* the status at each position, and that is the form kept here:            *)
(*                                                                         *)
(*    m.end    the end of the last block                                   *)
(*    m.cuts   the positions where a block begins                          *)
(*    m.st     the status at each position below m.end                     *)
(*                                                                         *)
(* Two adjacent blocks of equal status (m has a cut between them) and one  *)
(* joined block (no cut) are different maps, as they are in the program.   *)
(* A rescue domain is the set of its positions.                            *)
(*                                                                         *)
(* A definition marked as a mutant is a plausible bug, never used by the   *)
(* model: with it in place of the definition that follows, a property of   *)
(* the model must fail.                                                    *)
(***************************************************************************)
EXTENDS Integers, FiniteSets

Status == {"non_tried", "non_trimmed", "non_scraped", "bad_sector", "finished"}

\* "ordered from less to more processed state"
processed_state ==
  [s \in Status |->
     CASE s = "non_tried"   -> 0
       [] s = "non_trimmed" -> 1
       [] s = "non_scraped" -> 2
       [] s = "bad_sector"  -> 3
       [] s = "finished"    -> 4]

is_good_status(s) == s # "bad_sector"

Smaller(x, y) == IF x <= y THEN x ELSE y
Larger(x, y)  == IF x >= y THEN x ELSE y

\* The least, the greatest element of a set of integers: a set of one or,
\* for the empty set, of no element.
First(S) == {x \in S : \A y \in S : x <= y}
Last(S)  == {x \in S : \A y \in S : x >= y}

-----------------------------------------------------------------------------
(***************************************************************************)
(* Blocks.                                                                 *)
(***************************************************************************)
Positions(m) == 0 .. m.end - 1

SameBlock(m, p, q) == \A c \in m.cuts : c <= p <=> c <= q

\* The block that holds position p, as the set of its positions.
Block(m, p) == {q \in Positions(m) : SameBlock(m, p, q)}

BlockStart(m, p) == {c \in m.cuts : c \in Block(m, p)}
BlockEnd(m, p) ==
  {e \in 1 .. m.end : e - 1 \in Block(m, p) /\ (e = m.end \/ e \in m.cuts)}

\* domain.includes( the block that holds p )
InDomain(m, p, dom) == Block(m, p) \subseteq dom

IsMap(m) ==
  /\ m = [end |-> m.end, cuts |-> m.cuts, st |-> m.st]
  /\ m.end \in Nat
  /\ m.cuts \subseteq Positions(m)
  /\ m.end > 0 => 0 \in m.cuts
  /\ m.st \in [Positions(m) -> Status]

Uniform(m) ==
  \A p, q \in Positions(m) : SameBlock(m, p, q) => m.st[p] = m.st[q]

SplitByDomain(m, dom) ==
  \A p, q \in Positions(m) : SameBlock(m, p, q) => (p \in dom <=> q \in dom)

-----------------------------------------------------------------------------
(***************************************************************************)
(* Finding the next chunk to read.  A chunk is [pos |-> p, end |-> e] with *)
(* p < e; the result is the set of the chunk found, empty when the program *)
(* sets the size of its block to 0.                                        *)
(***************************************************************************)
Chunk(b) == b.pos .. b.end - 1

\* Align end to the previous boundary if size is big enough.
align_end(b, a) ==
  LET rest == b.end % a
  IN  IF b.end - b.pos > rest THEN [b EXCEPT !.end = @ - rest] ELSE b

\* Align pos to the next boundary if size is big enough.
align_pos(b, a) ==
  LET disp == a - (b.pos % a)
  IN  IF disp < a /\ disp < b.end - b.pos THEN [b EXCEPT !.pos = @ + disp] ELSE b

\* The starts of the blocks of status s inside the domain, at or after the
\* block of pos; with edge, only those that follow a finished block (or none).
BlocksFrom_Unfinished(m, dom, pos, s, edge) ==                              \* mutant
  {c \in m.cuts : /\ c >= pos \/ pos \in Block(m, c)
                  /\ m.st[c] # "finished" /\ InDomain(m, c, dom)}
BlocksFrom_AnyDomain(m, dom, pos, s, edge) ==                               \* mutant
  {c \in m.cuts : (c >= pos \/ pos \in Block(m, c)) /\ m.st[c] = s}
BlocksFrom(m, dom, pos, s, edge) ==
  {c \in m.cuts :
     /\ c >= pos \/ pos \in Block(m, c)
     /\ m.st[c] = s /\ InDomain(m, c, dom)
     /\ edge /\ c > 0 => m.st[c - 1] = "finished"}

\* ... and those at or before the block of position end - 1; with edge, only
\* those that precede a finished block (or none).
BlocksUpTo(m, dom, end, s, edge) ==
  {c \in m.cuts :
     /\ c < end
     /\ m.st[c] = s /\ InDomain(m, c, dom)
     /\ edge => \A e \in BlockEnd(m, c) : e < m.end => m.st[e] = "finished"}

find_chunk(m, dom, pos, len, s, align, after_finished) ==
  LET found(c, e) ==
        LET p == Larger(pos, c)
            b == [pos |-> p, end |-> Smaller(p + len, e)]
        IN  IF b.end = e THEN b ELSE align_end(b, align)
  IN  UNION {{found(c, e) : e \in BlockEnd(m, c)} :
               c \in First(BlocksFrom(m, dom, pos, s, after_finished))}

rfind_chunk(m, dom, end, len, s, align, before_finished) ==
  LET found(c, e) ==
        LET t == Smaller(end, e)
            b == [pos |-> Larger(c, t - len), end |-> t]
        IN  IF b.pos = c THEN b ELSE align_pos(b, align)
  IN  UNION {{found(c, e) : e \in BlockEnd(m, c)} :
               c \in Last(BlocksUpTo(m, dom, end, s, before_finished))}

-----------------------------------------------------------------------------
(***************************************************************************)
(* Changing the map.                                                       *)
(***************************************************************************)

\* The program stops with an internal error unless the chunk lies in one
\* block, inside the domain.
CanChange(m, dom, b) ==
  /\ Chunk(b) \subseteq dom
  /\ b.pos < m.end /\ InDomain(m, b.pos, dom)
  /\ Chunk(b) \subseteq Block(m, b.pos)

Joins(m, dom, p, s) == m.st[p] = s /\ InDomain(m, p, dom)
JoinsLeft(m, dom, b, s)  == b.pos \in m.cuts /\ b.pos > 0 /\ Joins(m, dom, b.pos - 1, s)
JoinsRight_NoStatus(m, dom, b, s) == b.end \in m.cuts /\ InDomain(m, b.end, dom) \* mutant
JoinsRight(m, dom, b, s) == b.end \in m.cuts /\ Joins(m, dom, b.end, s)

Borders_AlwaysSplit(m, b) == {b.pos, b.end}                                 \* mutant
Borders(m, b) == {c \in {b.pos, b.end} : c < m.end}

\* The chunk gets status s: its block is split at the chunk's borders, except
\* where the chunk joins a neighbour block of status s inside the domain.
change_chunk(m, dom, b, s) ==
  LET joined == {c \in {b.pos, b.end} : \/ c = b.pos /\ JoinsLeft(m, dom, b, s)
                                        \/ c = b.end /\ JoinsRight(m, dom, b, s)}
  IN  IF m.st[b.pos] = s THEN m
      ELSE [end  |-> m.end,
            cuts |-> (m.cuts \cup Borders(m, b)) \ joined,
            st   |-> [p \in Positions(m) |->
                        IF p \in Chunk(b) THEN s ELSE m.st[p]]]

GoodAt(m, dom, p) == is_good_status(m.st[p]) \/ ~InDomain(m, p, dom)
GoodBefore(m, dom, b) == b.pos = 0 \/ GoodAt(m, dom, b.pos - 1)
GoodAfter_NotAtEnd(m, dom, b) == b.end < m.end /\ GoodAt(m, dom, b.end)     \* mutant
GoodAfter(m, dom, b)  == b.end = m.end \/ GoodAt(m, dom, b.end)

\* The adjustment of the number of bad areas that change_chunk_status returns:
\* a neighbour is the block next to the chunk, or what is left of its own.
area_adjust(m, dom, b, s) ==
  LET good == is_good_status(m.st[b.pos])
  IN  IF is_good_status(s) = good \/ GoodBefore(m, dom, b) # GoodAfter(m, dom, b)
      THEN 0
      ELSE IF good = GoodBefore(m, dom, b) THEN 1 ELSE -1

\* Truncation would remove no finished block.
Truncatable_CutBlock(m, end) ==                                             \* mutant
  \A p \in Positions(m) \cap {end} : m.st[p] # "finished"
Truncatable(m, end) ==
  \A p \in Positions(m) : p >= end => m.st[p] # "finished"

truncate_vector(m, end) ==
  LET e == Smaller(m.end, end)
  IN  [end  |-> e,
       cuts |-> {c \in m.cuts : c < e},
       st   |-> [p \in 0 .. e - 1 |-> m.st[p]]]

\* The whole block that begins at c gets status s, and joins no other.
change_sblock_status(m, c, s) ==
  [m EXCEPT !.st = [p \in Positions(m) |-> IF p \in Block(m, c) THEN s ELSE m.st[p]]]

\* Joins every run of blocks of equal status.
compact(m) ==
  [m EXCEPT !.cuts = {c \in @ : c = 0 \/ m.st[c - 1] # m.st[c]}]

\* Splits the blocks that a border of the domain crosses.
split_by_domain_borders(m, dom) ==
  [m EXCEPT !.cuts = @ \cup {p \in Positions(m) \ {0} : (p \in dom) # (p - 1 \in dom)}]

-----------------------------------------------------------------------------
(***************************************************************************)
(* What initialize_sizes counts over the blocks of the domain.             *)
(***************************************************************************)
SizeOf(m, dom, s) ==
  Cardinality({p \in Positions(m) : m.st[p] = s /\ InDomain(m, p, dom)})

BadBlock(m, dom, p) == ~is_good_status(m.st[p]) /\ InDomain(m, p, dom)

AreasOf(m, dom) ==
  Cardinality({c \in m.cuts : /\ BadBlock(m, dom, c)
                              /\ c = 0 \/ ~BadBlock(m, dom, c - 1)})
=============================================================================
