------------------------------ MODULE MCRescue ------------------------------
(***************************************************************************)
(* Instances of Rescue for TLC: the maps, domains and status lines that a  *)
(* run starts from.                                                        *)
(***************************************************************************)
EXTENDS RescueProps

NewCur == [pos |-> 0, status |-> "copying", pass |-> 1]

\* A map of n positions of status s, split by the domain.
Plain(n, s, d) ==
  split_by_domain_borders(
    [end |-> n, cuts |-> {0} \cap 0 .. n - 1, st |-> [p \in 0 .. n - 1 |-> s]], d)

\* The map with the given statuses, compacted and split by the domain.
MapOf(n, st, d) ==
  split_by_domain_borders(
    compact([end |-> n, cuts |-> 0 .. n - 1, st |-> st]), d)

Start(m, d, c) == [map |-> m, dom |-> d, cur |-> c]

\* No mapfile yet; the whole input file.
Fresh8 == {Start(Plain(8, "non_tried", 0 .. 7), 0 .. 7, NewCur)}

\* A file whose size was not known and is smaller than asked for, with a domain of
\* two parts; and one that is smaller than a mapfile of it says.
TwoParts == (0 .. 3) \cup (6 .. 8)
Short9 == {Start(Plain(9, "non_tried", TwoParts), TwoParts, NewCur),
           Start(MapOf(9, [p \in 0 .. 8 |-> IF p \in {2, 3, 8} THEN "finished"
                                            ELSE "non_tried"], 0 .. 8), 0 .. 8,
                 [pos |-> 8, status |-> "finished", pass |-> 1])}

\* Any mapfile of an input file of 4 sectors, with status lines of each kind that
\* a run leaves behind, and some also with a hole in the domain.  (Of the runs interrupted in the
\* fifth pass only those that had read nothing: see the run resume_pass5.)
AnyCur == {[pos |-> 2, status |-> "copying", pass |-> 2],
           [pos |-> 2, status |-> "copying", pass |-> 4],
           [pos |-> 3, status |-> "retrying", pass |-> 2],
           [pos |-> 0, status |-> "copying", pass |-> 5]}
Any4 == {Start(MapOf(4, st, 0 .. 3), 0 .. 3, c) :
           st \in [0 .. 3 -> Status], c \in AnyCur}
Holed4 == {Start(MapOf(4, st, {0, 1, 3}), {0, 1, 3}, c) :
             st \in [0 .. 3 -> Status], c \in {d \in AnyCur : d.pass \in 4 .. 5}}
AnyStart == Fresh8 \cup Any4 \cup Holed4

\* A mapfile of a run interrupted in the middle of its fifth pass.
Pass5 == {Start(MapOf(4, st, 0 .. 3), 0 .. 3,
                [pos |-> 2, status |-> "copying", pass |-> 5]) :
            st \in [0 .. 3 -> {"non_tried", "finished"}]}

\* The options given: none, and those that change the order of the reads or the
\* ways a run ends.
NoOptions  == {{}}
OrderOptions == {{}, {"reverse"}}
AnyOptions == {{"reverse"}, {"unidirectional", "notrim"},
               {"complete_only", "min_read_rate", "noscrape"},
               {"reverse", "min_read_rate", "reopen_on_error"}}
=============================================================================
