------------------------------ MODULE Mapfile -------------------------------
(***************************************************************************)
(* The mapfile in memory as a state machine: loaded from the disc by the   *)
(* constructor of Mapbook, searched and changed chunk by chunk by one of   *)
(* the modes, compacted and saved, and loaded again.                       *)
(*                                                                         *)
(* It keeps the vector of blocks and the cached index that MapVector works *)
(* on, and is shown to implement AbstractMap.                              *)
(***************************************************************************)
EXTENDS MapVector

CONSTANTS
  Files,        \* contents a mapfile may have: sequences of lines
  Domains,      \* domains a run may be given
  InSizes,      \* sizes of the input, 0 if unknown
  HardBS,       \* sector size
  ChunkSize,    \* the size of the chunks looked for (softbs)
  Marks         \* statuses given to chunks and blocks

ASSUME SizesAssumption ==
  HardBS \in Nat \ {0} /\ ChunkSize \in Nat \ {0} /\ Marks \subseteq Status

ASSUME InputsAssumption ==
  /\ \A lines \in Files : IsMapLines(lines)
  /\ \A d \in Domains : IsRunDomain(d)
  /\ InSizes \subseteq 0 .. LLONG_MAX

VARIABLES
  sblock_vector,  \* the blocks
  index_,         \* cached index of last find or change
  domain          \* the rescue domain

vars == <<sblock_vector, index_, domain>>

\* A run begins on blocks v that a mapfile holds, in any mode.
Begin(v) ==
  \E d \in Domains, insize \in InSizes, rescue \in BOOLEAN :
    LET book == Mapbook(v, d, insize, FALSE, rescue, HardBS)
    IN  /\ book.ok /\ ~empty(book.domain)
        /\ sblock_vector' = book.v
        /\ domain' = book.domain
        /\ index_' = 1

Init ==
  \E lines \in Files, d \in Domains, insize \in InSizes, rescue \in BOOLEAN :
    LET file == read_mapfile(lines, "none")
        book == Mapbook(file.v, d, insize, FALSE, rescue, HardBS)
    IN  /\ file.ok /\ book.ok /\ ~empty(book.domain)
        /\ sblock_vector = book.v
        /\ domain = book.domain
        /\ index_ = 1

\* A chunk of status s is looked for from p, forwards or backwards, and found;
\* the program then gives status t to its first len positions (what was read) or
\* to the rest of it (what was not).
SetStatus(found, t, len) ==
  LET b == found.b
      c == change_chunk_status(sblock_vector, found.index,
                               [b EXCEPT !.size = min(len, b.size)], t, domain)
  IN  /\ found.found /\ b.size > 0
      /\ sblock_vector' = c.v
      /\ index_' = c.index
      /\ UNCHANGED domain

Positions == 0 .. end(extent(sblock_vector)) - 1

FoundFrom(p, s) ==
  find_chunk(sblock_vector, index_, assign(p, ChunkSize), s, domain, HardBS, FALSE, FALSE)

FoundUpTo(p, s) ==
  rfind_chunk(sblock_vector, index_, set_end(assign(0, ChunkSize), p), s, domain,
              HardBS, FALSE)

CopyForwards ==
  \E found \in {FoundFrom(p, s) : p \in Positions, s \in Status},
     len \in 1 .. ChunkSize, t \in Marks :
    SetStatus(found, t, len)

CopyBackwards ==
  \E found \in {FoundUpTo(p + 1, s) : p \in Positions, s \in Status},
     len \in 1 .. ChunkSize, t \in Marks :
    SetStatus(found, t, len)

\* A block that was passed over gets the status of the next phase.
LeaveBlock ==
  \E i \in DOMAIN sblock_vector, t \in Marks :
    /\ sblock_vector' = change_sblock_status(sblock_vector, i, t)
    /\ UNCHANGED <<index_, domain>>

EofFound ==
  \E e \in Positions \ {0} :
    LET cut == truncate_vector(sblock_vector, e, FALSE)
    IN  /\ cut.ok
        /\ sblock_vector' = cut.v
        /\ UNCHANGED <<index_, domain>>

\* The mapfile is compacted, saved and loaded by another run.
Rerun ==
  LET file == read_mapfile(compact_sblock_vector(sblock_vector), "none")
  IN  file.ok /\ Begin(file.v)

Next == CopyForwards \/ CopyBackwards \/ LeaveBlock \/ EofFound \/ Rerun

Spec == Init /\ [][Next]_vars
=============================================================================
