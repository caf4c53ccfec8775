------------------------------ MODULE Session -------------------------------
(***************************************************************************)
(* What the modes other than rescue have in common: the files on disc, a   *)
(* run that loads the mapfile, works on it in memory, saves it now and     *)
(* then and at its end, and may be interrupted or killed at any time, and  *)
(* the next run, which may be of another mode.                             *)
(*                                                                         *)
(* Every mode is a sequence of steps, each of which handles one chunk.     *)
(***************************************************************************)
EXTENDS MapVector

CONSTANTS
  HardBS, SoftBS, \* sector and cluster size
  Input,          \* the content of the input file at each position
  InSizes,        \* its size as the program finds it, 0 if it cannot tell
  Domains,        \* rescue domains a run may be given
  MapFiles,       \* mapfiles to begin with: lines, current status and position
  OutFiles,       \* output files to begin with
  MaxRuns         \* bound on the number of runs and of copy commands

Content == {"zero", "data", "fill"}

\* A file is what it holds at each position from 0 on.
FileSize(f) == Cardinality(DOMAIN f)
IsFile(f) == IsFiniteSet(DOMAIN f) /\ f \in [0 .. FileSize(f) - 1 -> Content]

ASSUME SizesAssumption == HardBS \in Nat \ {0} /\ SoftBS \in Nat /\ SoftBS >= HardBS
ASSUME InputAssumption ==
  /\ IsFile(Input) /\ FileSize(Input) <= LLONG_MAX
  /\ \A p \in DOMAIN Input : Input[p] # "fill"
  /\ InSizes \subseteq 0 .. LLONG_MAX
ASSUME FilesAssumption ==
  /\ \A m \in MapFiles : IsMapLines(m.lines) /\ m.pos \in 0 .. LLONG_MAX
  /\ \A f \in OutFiles : IsFile(f)
  /\ \A d \in Domains : IsRunDomain(d)

VARIABLES
  mapfile,   \* the mapfile on disc: its lines and its status line
  outfile,   \* the content of the output file at each position
  pc,        \* what the run does; "none" if none runs
  job,       \* the mode and options of the run, or of the last one
  retval,    \* how its main loop ended: "ok", "signaled", "error" or "unsaved"
  book,      \* the mapfile in memory, with index_ and the domain
  b,         \* the block to handle next
  runs,      \* the number of runs and of copy commands
  series     \* history: runs that resume one another, and what they have done

disc == <<mapfile, outfile>>
vars == <<mapfile, outfile, pc, job, retval, book, b, runs, series>>

NoBlock == [pos |-> 0, size |-> 0]
NoBook  == [v |-> <<>>]

InDomainPos(d, p) == \E i \in DOMAIN d : includes_pos(d[i], p)

-----------------------------------------------------------------------------
(***************************************************************************)
(* The mapfile.                                                            *)
(***************************************************************************)

\* read_mapfile and the constructor of Mapbook.
Load(d, insize, complete_only, rescue) ==
  LET made(ok, bk) ==
        [ok     |-> ok /\ bk.ok /\ ~empty(bk.domain),
         book   |-> [v |-> bk.v, domain |-> bk.domain, index |-> 1,
                     status |-> mapfile.status, pos |-> mapfile.pos]]
      read(file) == made(file.ok, Mapbook(file.v, d, insize, complete_only, rescue, HardBS))
  IN  read(read_mapfile(mapfile.lines, "none"))

\* change_chunk_status on the blocks in memory.
WithBlocks(bk, r) == [bk EXCEPT !.v = r.v, !.index = r.index]
Mark(bk, c, s) ==
  WithBlocks(bk, change_chunk_status(bk.v, bk.index, c, s, bk.domain))

Saved(bk) == [lines |-> bk.v, status |-> bk.status, pos |-> bk.pos]

\* update_mapfile, which writes the mapfile when it is time, or forced: saved,
\* given up by the user after it failed, or not due.  A user to whom it fails keeps
\* the mapfile there was (what a failed save may leave is the concern of MapSave).
update_mapfile(bk, force) ==
  {[ok |-> TRUE, mapfile |-> Saved(bk)], [ok |-> FALSE, mapfile |-> mapfile]}
    \cup IF force THEN {} ELSE {[ok |-> TRUE, mapfile |-> mapfile]}

-----------------------------------------------------------------------------
(***************************************************************************)
(* Files.                                                                  *)
(***************************************************************************)

\* What a read of block c may return: as many bytes as there are, or fewer with an
\* error.
readblockp(file, c) ==
  LET there == max(0, min(c.size, FileSize(file) - c.pos))
  IN  {[copied |-> there, error |-> 0]} \cup
        {[copied |-> k, error |-> c.size - k] : k \in 0 .. min(there, c.size - 1)}

\* The output file after a write of the first n bytes of block c, data[p] each.  A
\* gap before them reads as zeros.
writeblockp(file, c, n, data) ==
  [p \in DOMAIN file \cup IF n > 0 THEN 0 .. c.pos + n - 1 ELSE {} |->
     IF c.pos <= p /\ p < c.pos + n THEN data[p]
     ELSE IF p \in DOMAIN file THEN file[p] ELSE "zero"]

-----------------------------------------------------------------------------
(***************************************************************************)
(* Runs.                                                                   *)
(***************************************************************************)
Init ==
  /\ mapfile \in MapFiles
  /\ outfile \in OutFiles
  /\ \A i \in DOMAIN mapfile.lines :
       mapfile.lines[i].st = "finished" =>
         \A p \in mapfile.lines[i].pos .. end(mapfile.lines[i]) - 1 :
           p \in DOMAIN outfile /\ outfile[p] = Input[p]
  /\ pc = "none" /\ retval = "ok" /\ b = NoBlock /\ runs = 0
  /\ job = [mode |-> "none"] /\ book = NoBook
  /\ series = [job |-> job, pure |-> FALSE, guess |-> FALSE, holes |-> FALSE,
             done |-> {}, failed |-> {}]

\* A run begins on block first; it resumes the last one if it goes on with what
\* that one saved.
Start(j, bk, first, resumed) ==
  /\ pc = "none" /\ runs < MaxRuns /\ runs' = runs + 1
  /\ pc' = j.mode /\ job' = j /\ book' = bk /\ b' = first /\ retval' = "ok"
  /\ series' = IF resumed
               THEN [series EXCEPT !.pure = @ /\ series.job = j,
                                   !.guess = @ \/ j.mode = "generate"]
               ELSE [job |-> j, pure |-> TRUE, done |-> {}, failed |-> {},
                     guess |-> series.guess \/ j.mode = "generate",
                     holes |-> series.holes \/ (j.mode = "commands" /\ j.sparse)]
  /\ UNCHANGED outfile

\* The process ends, and what it has in memory is lost.
Exit == pc' = "none" /\ book' = NoBook /\ b' = NoBlock /\ UNCHANGED <<job, runs, series>>

\* A signal that no handler catches, a crash.
Kill == pc # "none" /\ Exit /\ retval' = "error" /\ UNCHANGED disc

\* The main loop ends.
Leave(result) == pc' = "end" /\ retval' = result

Interrupted == Leave("signaled") /\ UNCHANGED <<disc, job, b, runs, series>>

\* The end of do_fill and do_generate: unless it could not be saved before, the
\* mapfile is compacted and saved, as finished if nothing remains to be done.
EndStatus == IF retval = "ok" THEN "finished" ELSE book.status
Finish(bk) ==
  /\ \E save \in update_mapfile([bk EXCEPT !.v = compact_sblock_vector(@)], TRUE) :
       /\ mapfile' = save.mapfile
       /\ retval' = IF save.ok THEN retval ELSE "error"
  /\ Exit /\ UNCHANGED outfile

End ==
  /\ pc = "end"
  /\ IF retval = "unsaved" THEN Exit /\ retval' = "error" /\ UNCHANGED disc
     ELSE Finish([book EXCEPT !.status = EndStatus])
=============================================================================
