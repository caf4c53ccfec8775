------------------------------- MODULE MCLog --------------------------------
(***************************************************************************)
(* ddrescuelog on small mapfiles, for TLC.                                 *)
(***************************************************************************)
EXTENDS LogProps

Line(p, n, s) == [pos |-> p, size |-> n, st |-> s]

\* Mapfiles that begin at 0 or later, shorter and longer ones, up to the largest
\* position, with one to four blocks; one with a gap, and one without a block.
MCFiles ==
  { <<Line(0, 2, "finished"), Line(2, 1, "bad_sector"), Line(3, 3, "finished")>>,
    <<Line(0, 1, "bad_sector"), Line(1, 3, "finished"), Line(4, 1, "non_tried")>>,
    <<Line(0, 4, "non_trimmed"), Line(4, 1, "finished")>>,
    <<Line(1, 2, "finished"), Line(3, 2, "bad_sector")>>,
    <<Line(0, 1, "finished"), Line(1, 1, "bad_sector"), Line(2, 2, "finished"),
      Line(4, 3, "bad_sector")>>,
    <<Line(0, LLONG_MAX, "non_tried")>>,
    <<Line(0, 1, "finished"), Line(2, 1, "bad_sector")>>,
    <<>> }

MCParts == {<<0, -1>>, <<1, 3>>, <<2, -1>>}

MCChanges ==
  { <<<<"finished", "bad_sector">>, <<"non_tried">>>>,
    <<<<"non_trimmed", "finished", "finished">>, <<"bad_sector", "non_scraped">>>> }

MCBlockLists == {<<>>, <<0, 2, 1>>, <<1, 1>>}

MCListTypes == {{"bad_sector"}, {"non_tried", "bad_sector"}}
=============================================================================
