------------------------------ MODULE MCModes -------------------------------
(***************************************************************************)
(* Fill, generate and command mode on small files, for TLC.                *)
(***************************************************************************)
EXTENDS ModesProps

Line(p, n, s) == [pos |-> p, size |-> n, st |-> s]

\* Two data, a zero, two data, in sectors of two.
MCInput == [p \in 0 .. 4 |-> IF p = 2 THEN "zero" ELSE "data"]

MCMapFiles ==
  { [lines |-> <<Line(0, 1, "finished"), Line(1, 3, "bad_sector"),
                 Line(4, 1, "finished")>>, status |-> "finished", pos |-> 0],
    [lines |-> <<>>, status |-> "copying", pos |-> 0] }

\* What is rescued of them: two parts, or nothing.
MCOutFiles ==
  { [p \in 0 .. 4 |-> IF p \in {0, 4} THEN "data" ELSE "zero"],
    <<>> }

MCDomains == { <<[pos |-> 0, size |-> LLONG_MAX]>>, <<[pos |-> 1, size |-> 3]>> }
\* A domain that ends inside of a block.
MCPartDomains == { <<[pos |-> 1, size |-> 2]>> }
MCFillTypes == {{"bad_sector"}, {"finished"}}
\* A domain that does not begin at 0 and reaches beyond the end of the input.
MCCommandArgs ==
  {[domain |-> <<[pos |-> 1, size |-> LLONG_MAX - 1]>>, sparse |-> TRUE]}
MCRequests == {[pos |-> 0, size |-> 3], [pos |-> 2, size |-> 3]}
=============================================================================
