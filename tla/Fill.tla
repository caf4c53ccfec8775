-------------------------------- MODULE Fill --------------------------------
(***************************************************************************)
(* Fill mode (Fillbook): the blocks of some types are overwritten with     *)
(* fill data, cluster by cluster, and after a write error sector by        *)
(* sector.  book.v[area] is the area being filled, b the block to write.   *)
(***************************************************************************)
EXTENDS Session

CONSTANT FillTypes  \* arguments of --fill-mode: sets of statuses

VARIABLE area

\* do_fill: resumed at the position in the status line, if that lies in the domain.
Resumes(bk) == bk.status = "filling" /\ InDomainPos(bk.domain, bk.pos)

StartFill ==
  \E types \in FillTypes, d \in Domains, ignore \in BOOLEAN :
    \E file \in {Load(d, 0, TRUE, FALSE)} :
      LET j == [mode |-> "fill", types |-> types, domain |-> d, ignore |-> ignore]
          bk == file.book
      IN  /\ mapfile.lines # <<>> /\ file.ok
          /\ Start(j, [bk EXCEPT !.pos = IF Resumes(bk) THEN @ ELSE 0], NoBlock,
                   Resumes(bk))
          /\ area' = 0 /\ UNCHANGED mapfile

\* The part of a block c that lies in area i.
InArea_Uncropped(c, i) == c                                                 \* mutant
InArea(c, i) == IF end(c) > end(book.v[i]) THEN crop(c, book.v[i]) ELSE c

\* The next area of the domain to fill, from the current position on.
NextAreas_Again ==                                                          \* mutant
  {i \in max(area, 1) .. Len(book.v) :
     /\ InDomain(book.domain, book.v[i])
     /\ end(book.v[i]) > book.pos /\ book.v[i].st \in job.types}
NextAreas ==
  {i \in area + 1 .. Len(book.v) :
     /\ InDomain(book.domain, book.v[i])
     /\ end(book.v[i]) > book.pos /\ book.v[i].st \in job.types}

FillArea ==
  /\ pc = "fill" /\ b.size = 0 /\ NextAreas # {}
  /\ LET i == Min(NextAreas)
         p == IF includes_pos(book.v[i], book.pos) THEN book.pos ELSE book.v[i].pos
     IN  area' = i /\ b' = InArea(assign(p, SoftBS), i)
  /\ book' = [book EXCEPT !.status = "filling"]
  /\ UNCHANGED <<disc, pc, job, retval, runs, series>>

NoAreaLeft ==
  /\ pc = "fill" /\ b.size = 0 /\ NextAreas = {}
  /\ Leave("ok")
  /\ UNCHANGED <<disc, job, book, b, runs, series, area>>

\* The position goes to the block before anything else happens.
Here_After(c) == end(c)                                                     \* mutant
Here(c) == c.pos
AtBlock == [book EXCEPT !.pos = Here(b)]

FillInterrupted ==
  /\ pc = "fill" /\ b.size > 0
  /\ book' = AtBlock /\ Interrupted /\ UNCHANGED area

\* After a block the mapfile is updated and the next one begins where it ends.
Continue ==
  \E save \in update_mapfile(AtBlock, FALSE) :
    /\ mapfile' = save.mapfile
    /\ IF save.ok
       THEN /\ b' = InArea(set_pos(b, end(b)), area)
            /\ UNCHANGED <<pc, retval>>
       ELSE Leave("unsaved") /\ UNCHANGED b

FirstBytes(n) == b.pos .. b.pos + n - 1
Write(n) == outfile' = writeblockp(outfile, b, n, [p \in FirstBytes(n) |-> "fill"])

FillBlock ==
  /\ pc = "fill" /\ b.size > 0
  /\ book' = AtBlock /\ Write(b.size) /\ Continue
  /\ series' = [series EXCEPT !.done = @ \cup FirstBytes(b.size)]
  /\ UNCHANGED <<job, runs, area>>

\* A write error ends the run, or makes it go on a sector at a time and over the
\* sectors that cannot be written.
FillFails ==
  /\ pc = "fill" /\ b.size > 0
  /\ book' = AtBlock
  /\ \E n \in 0 .. b.size - 1 : Write(n)
  /\ IF ~job.ignore
     THEN Leave("error") /\ UNCHANGED <<mapfile, b, series>>
     ELSE IF b.size > HardBS
     THEN /\ b' = [b EXCEPT !.size = HardBS]
          /\ UNCHANGED <<mapfile, pc, retval, series>>
     ELSE /\ Continue
          /\ series' = [series EXCEPT !.failed = @ \cup FirstBytes(b.size)]
  /\ UNCHANGED <<job, runs, area>>

FillStep == FillArea \/ NoAreaLeft \/ FillInterrupted \/ FillBlock \/ FillFails
=============================================================================
