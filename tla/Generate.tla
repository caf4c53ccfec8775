------------------------------ MODULE Generate ------------------------------
(***************************************************************************)
(* Generate mode (Genbook): the output file of a rescue whose mapfile was  *)
(* lost is read, and what does not hold zeros only is taken for rescued.   *)
(* The block b begins at the position to go on from.                       *)
(***************************************************************************)
EXTENDS Session

\* check_all: resumed at the position in the status line.
ResumesAt(bk) == bk.status = "generating" /\ InDomainPos(bk.domain, bk.pos)

StartGenerate ==
  \E d \in Domains : \E file \in {Load(d, FileSize(Input), FALSE, FALSE)} :
    LET bk   == file.book
        p    == IF ResumesAt(bk) THEN bk.pos ELSE 0
    IN  /\ file.ok /\ (blank(bk.v) \/ bk.status = "generating")
        /\ Start([mode |-> "generate", domain |-> d], bk, assign(p, SoftBS),
                 ResumesAt(bk) \/ ~blank(bk.v))
        /\ UNCHANGED mapfile

\* check_block: each of the sectors copied that is not zero becomes finished.
Sectors_Whole(c, n) ==                                                      \* mutant
  [k \in 1 .. n \div HardBS |->
     [pos |-> c.pos + (k - 1) * HardBS, size |-> HardBS]]
Sectors(c, n) ==
  [k \in 1 .. (n + HardBS - 1) \div HardBS |->
     [pos |-> c.pos + (k - 1) * HardBS, size |-> min(HardBS, n - (k - 1) * HardBS)]]

block_is_zero(c) == \A p \in c.pos .. end(c) - 1 : outfile[p] = "zero"

check_block(bk, c, n) ==
  FoldLeft(LAMBDA k, sector : IF block_is_zero(sector) THEN k
                              ELSE Mark(k, sector, "finished"),
           bk, Sectors(c, n))

\* The next chunk, and the mapfile once it has been found.
Found ==
  find_chunk(book.v, book.index, b, "non_tried", book.domain, HardBS, FALSE, FALSE)
AtChunk(found) ==
  [book EXCEPT !.index = found.index, !.status = "generating", !.pos = found.b.pos]

AllChecked ==
  /\ pc = "generate" /\ Found.b.size <= 0
  /\ Leave("ok")
  /\ UNCHANGED <<disc, job, book, b, runs, series>>

GenerateInterrupted ==
  /\ pc = "generate"
  /\ \E found \in {Found} : found.b.size > 0 /\ book' = AtChunk(found)
  /\ Interrupted

\* A chunk is read and checked; at the end of the file the map is cut off, which
\* must not remove anything finished.
CheckChunk ==
  /\ pc = "generate"
  /\ \E found \in {Found} : \E c \in {found.b} : \E r \in readblockp(outfile, c) :
       LET upTo  == c.pos + r.copied + r.error
           short == upTo < end(c)
       IN  /\ c.size > 0
           /\ series' = [series EXCEPT !.failed = @ \cup c.pos + r.copied .. upTo - 1]
           /\ \E bk \in {check_block(AtChunk(found), c, r.copied)} :
              \E cut \in {truncate_vector(bk.v, upTo, FALSE)} :
                /\ book' = IF short THEN [bk EXCEPT !.v = cut.v] ELSE bk
                /\ IF short /\ ~cut.ok THEN Leave("error") /\ UNCHANGED <<mapfile, b>>
                   ELSE \E save \in update_mapfile(book', FALSE) :
                          /\ mapfile' = save.mapfile
                          /\ IF save.ok
                             THEN b' = assign(end(c), SoftBS) /\ UNCHANGED <<pc, retval>>
                             ELSE Leave("unsaved") /\ UNCHANGED b
  /\ UNCHANGED <<outfile, job, runs>>

GenerateStep == AllChecked \/ GenerateInterrupted \/ CheckChunk
=============================================================================
