----------------------------- MODULE ModesProps -----------------------------
(***************************************************************************)
(* What the fill, generate and command modes promise.                      *)
(***************************************************************************)
EXTENDS Modes

\* The status at each position that the blocks of v hold.
StatusOf(v) ==
  [p \in UNION {Bytes(v[i]) : i \in DOMAIN v} |->
     v[CHOOSE i \in DOMAIN v : includes_pos(v[i], p)].st]

\* The run that ended last, or a series of runs that resumed one another, did
\* all that it was asked for.
Completed(mode) ==
  /\ pc = "none" /\ job.mode = mode /\ retval = "ok"
  /\ series.job = job /\ series.pure

-----------------------------------------------------------------------------
\* A fill that finishes has filled every position of its types in the domain, but
\* those it could not write, whatever it was interrupted or killed by and resumed
\* from ("mapfile is updated to allow resumability when interrupted or in case of a
\* crash", ddrescue.texi:1527), provided every run of it had the same arguments.
FillComplete ==
  Completed("fill") =>
    LET st == StatusOf(mapfile.lines)
    IN  \A p \in DOMAIN st \cap InDomains(job.domain) :
          st[p] \in job.types => p \in series.done \cup series.failed

\* A fill overwrites nothing but what has one of its types and lies in the domain,
\* and no save of it changes the status of a position on disc ("as nothing is being
\* rescued mapfile is not destroyed", ddrescue.texi:1528-1529).  The blocks that the
\* positions are in may change: see FillKeepsBlocks.
FillTouchesOnlyItsTypes ==
  [][pc # "none" /\ job.mode = "fill" =>
       LET st == StatusOf(mapfile.lines)
           old(p) == IF p \in DOMAIN outfile THEN outfile[p] ELSE "zero"
       IN  /\ StatusOf(mapfile'.lines) = st
           /\ \A p \in DOMAIN outfile' :
                outfile'[p] # old(p) =>
                  p \in InDomains(job.domain) \cap DOMAIN st /\ st[p] \in job.types]_allvars

\* "The status line is the only part of mapfile that is modified" by a fill
\* (ddrescue.texi:1529-1530), that is, its blocks stay as they are.  Not so: the
\* constructor of Mapbook joins neighbours of one status and splits blocks at the
\* borders of the domain (mapbook.cc:125, 127), and every save writes that.
FillKeepsBlocks ==
  [][pc # "none" /\ job.mode = "fill" => mapfile'.lines = mapfile.lines]_allvars

\* A mapfile generated to its end takes for rescued every position that holds data
\* and could be read, nothing that is not within a sector of such a position, and
\* all the rest for non-tried, over interruptions and crashes as well.
GenerateExact ==
  Completed("generate") =>
    LET st   == StatusOf(mapfile.lines)
        held == {p \in DOMAIN outfile : outfile[p] # "zero"}
        asked == InDomains(job.domain) \cap DOMAIN Input
    IN  /\ \A p \in held \cap asked :
             p \in series.failed \/ (p \in DOMAIN st /\ st[p] = "finished")
        /\ \A p \in DOMAIN st :
             \/ st[p] = "non_tried"
             \/ /\ st[p] = "finished"
                /\ \E q \in held : p - q \in 1 - HardBS .. HardBS - 1

\* A copy command that did not fail leaves nothing untried of the block it was asked
\* to copy, as far as the domain and the map reach, and what command mode takes for
\* finished, in memory or on disc, is in the output file, however it ended (unless
\* the mapfile was generated, which is a guess).  Of a sparse output file only zeros
\* at its end may be missing, for nothing extends it.
CopyIsComplete ==
  job.mode = "commands" =>
    LET st == StatusOf(book.v)
        copied(f) ==
          \A p \in DOMAIN f :
            f[p] = "finished" =>
              IF p \in DOMAIN outfile THEN outfile[p] \in {Input[p], "fill"}
              ELSE series.holes /\ Input[p] = "zero"
    IN  /\ pc = "commands" =>
             \A p \in series.done \cap DOMAIN st \cap InDomains(book.domain) :
               st[p] \in {"finished", "bad_sector"}
        /\ ~series.guess => copied(st) /\ copied(StatusOf(mapfile.lines))

\* A run comes to its end, and a copy command to its answer: the sectors that cannot
\* be written and the chunks that cannot be read do not hold it up.
RunsEnd == Working ~> ~Working
=============================================================================
