---------------------------- MODULE AbstractMap -----------------------------
(***************************************************************************)
(* What class Mapfile promises to the modes that use it: a map of the      *)
(* input that changes only by the operations of BlockMap, and that keeps   *)
(* what is finished when it is loaded anew.                                *)
(***************************************************************************)
EXTENDS BlockMap

VARIABLES
  m,      \* the block map
  dom     \* the rescue domain, as the set of its positions

vars == <<m, dom>>

Sound(map, d) == Uniform(map) /\ SplitByDomain(map, d)

Init == Sound(m, dom)

\* What a step does is said of the map before it (old) and after it (new).

\* change_chunk_status of any chunk it accepts.
Changed(old, new, d) ==
  \E p \in Positions(old), e \in 1 .. old.end :
    LET b == [pos |-> p, end |-> e]
    IN  /\ p < e /\ CanChange(old, d, b)
        /\ \E s \in Status : new = change_chunk(old, d, b, s)

\* change_sblock_status of any block.
Marked(old, new) ==
  \E c \in old.cuts, s \in Status : new = change_sblock_status(old, c, s)

Truncated(old, new) ==
  \E e \in Positions(old) : Truncatable(old, e) /\ new = truncate_vector(old, e)

\* The end of a run and the begin of another one, with any domain: what is
\* finished stays so and nothing else becomes so, nothing becomes more
\* processed, and what was not in the map is not tried.
Loaded(old, new, d) ==
  /\ Sound(new, d)
  /\ \A p \in Positions(old) :
       old.st[p] = "finished" => p < new.end /\ new.st[p] = "finished"
  /\ \A p \in Positions(new) :
       processed_state[new.st[p]] <=
         (IF p < old.end THEN processed_state[old.st[p]] ELSE 0)

Change   == Changed(m, m', dom)  /\ UNCHANGED dom
Mark     == Marked(m, m')        /\ UNCHANGED dom
Truncate == Truncated(m, m')     /\ UNCHANGED dom
Load     == Loaded(m, m', dom')

Next == Change \/ Mark \/ Truncate \/ Load

Spec == Init /\ [][Next]_vars
=============================================================================
