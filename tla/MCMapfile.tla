----------------------------- MODULE MCMapfile ------------------------------
(***************************************************************************)
(* The mapfile in memory on small maps, for TLC.                           *)
(***************************************************************************)
EXTENDS MapfileProps

\* Sequences of lines: at each border the status changes or a gap begins.
Line(p, n, s) == [pos |-> p, size |-> n, st |-> s]
MCFiles ==
  { <<Line(0, 2, "finished"), Line(2, 1, "non_tried"), Line(3, 2, "bad_sector")>>,
    <<Line(0, 1, "bad_sector"), Line(1, 4, "non_trimmed")>>,
    <<Line(0, 2, "finished"), Line(4, 1, "bad_sector")>>,
    <<>> }

MCDomains ==
  { <<[pos |-> 1, size |-> LLONG_MAX - 1]>>,
    <<[pos |-> 0, size |-> 1], [pos |-> 3, size |-> 2]>> }
=============================================================================
