---------------------------- MODULE MapfileProps ----------------------------
(***************************************************************************)
(* What must hold of the mapfile in memory, and the mapping from the       *)
(* vector of blocks to AbstractMap.                                        *)
(***************************************************************************)
EXTENDS Mapfile

\* The chunk as BlockMap writes it, and the set of it when it is one.
AsChunk(b)  == [pos |-> b.pos, end |-> end(b)]
AsChunks(b) == IF b.size > 0 THEN {AsChunk(b)} ELSE {}

\* The map that the blocks of v make up, and the positions of the domain.
Abs(v) ==
  [end  |-> end(extent(v)),
   cuts |-> {v[i].pos : i \in DOMAIN v},
   st   |-> [p \in 0 .. end(extent(v)) - 1 |->
               v[CHOOSE i \in DOMAIN v : includes_pos(v[i], p)].st]]

A == INSTANCE AbstractMap WITH m <- Abs(sblock_vector), dom <- InDomains(domain)

Lengths == 1 .. ChunkSize

-----------------------------------------------------------------------------
(***************************************************************************)
(* Invariants.                                                             *)
(***************************************************************************)

TypeOK ==
  /\ IsVector(sblock_vector)
  /\ IsDomain(domain)
  /\ index_ \in Nat

\* find_index returns the block that holds the position, whatever block was
\* found or changed before and left its index in the cache, even one that no
\* longer exists.
IndexFromAnyCache ==
  \A index \in -1 .. Len(sblock_vector) + 1, p \in 0 .. LLONG_MAX :
    LET i == find_index(sblock_vector, index, p)
    IN  IF i > 0 THEN i \in DOMAIN sblock_vector /\ includes_pos(sblock_vector[i], p)
        ELSE \A j \in DOMAIN sblock_vector : ~includes_pos(sblock_vector[j], p)

\* Searching the vector finds the chunk that BlockMap finds, forwards and
\* backwards, with and without a finished block beside it: the binary search of
\* the domain, the cached index and the saturating blocks make no difference.
FindsWhatIsThere ==
  LET v   == sblock_vector
      m   == Abs(v)
      dom == InDomains(domain)
  IN  \A s \in {v[i].st : i \in DOMAIN v}, len \in Lengths, edge \in BOOLEAN :
        /\ \A p \in 0 .. m.end - 1 :
             AsChunks(find_chunk(v, index_, assign(p, len), s, domain, HardBS,
                                 edge, FALSE).b)
               = BM!find_chunk(m, dom, p, len, s, HardBS, edge)
        /\ \A e \in 1 .. m.end :
             AsChunks(rfind_chunk(v, index_, set_end(assign(0, len), e), s, domain,
                                  HardBS, edge).b)
               = BM!rfind_chunk(m, dom, e, min(len, e), s, HardBS, edge)

\* The count of bad areas stays exact: what change_chunk_status returns is the
\* difference that the change makes, for any chunk it accepts and any status.
AdjustExact ==
  LET m     == Abs(sblock_vector)
      dom   == InDomains(domain)
      areas == BM!AreasOf(m, dom)
  IN  \A p \in 0 .. m.end - 1, len \in Lengths :
        LET b == assign(p, len)
        IN  CanChange(sblock_vector, index_, b, domain) =>
              \A s \in Status :
                LET c == change_chunk_status(sblock_vector, index_, b, s, domain)
                IN  BM!AreasOf(Abs(c.v), dom) = areas + c.adjust

\* The positions of map m in the sector of p that no finished position parts
\* from p.
SubSector(m, p) ==
  {q \in 0 .. m.end - 1 :
     /\ q \div HardBS = p \div HardBS
     /\ \A r \in min(p, q) .. max(p, q) : m.st[r] # "finished"}

\* join_subsectors gives every unfinished part of a sector the status of its
\* least processed position: no position is taken for tried that was not, and
\* nothing of a finished part is lost ("move subsector to the block with the less
\* processed state", mapfile.cc:114).
JoinsToLeastProcessed ==
  LET v   == compact_sblock_vector(sblock_vector)
      old == Abs(v)
      new == Abs(join_subsectors(v, HardBS))
  IN  \A p \in 0 .. old.end - 1 :
        IF old.st[p] = "finished" THEN new.st[p] = "finished"
        ELSE LET ranks == {processed_state[old.st[q]] : q \in SubSector(old, p)}
             IN  processed_state[new.st[p]] \in BM!First(ranks)

\* "pos >= 0 && size >= 0 && pos + size <= LLONG_MAX" (block.h:31): the
\* operations on a block saturate, whatever they are given.
BlocksSaturate ==
  \A i \in DOMAIN sblock_vector, n \in -LLONG_MAX .. LLONG_MAX :
    LET b == sblock_vector[i]
    IN  /\ InRange(shift(b, n)) /\ InRange(enlarge(b, n)) /\ InRange(set_end(b, n))
        /\ InRange(set_pos(b, n)) /\ InRange(set_size(b, n))
        /\ InRange(assign(n, b.size)) /\ InRange(assign(b.pos, n))

-----------------------------------------------------------------------------
(***************************************************************************)
(* Refinement.                                                             *)
(***************************************************************************)

\* The vector with its splits, joins and shifted boundaries does what the maps
\* of BlockMap do, on which the model of a rescue is built, and a load keeps
\* what was finished and takes nothing for more processed than it was.
AbstractSpec == A!Spec
=============================================================================
