------------------------------ MODULE Commands ------------------------------
(***************************************************************************)
(* Command mode (Rescuebook::do_commands): commands read from standard     *)
(* input copy parts of the input file and save the mapfile.  While a copy  *)
(* command runs, b is what remains of the block to copy.                   *)
(***************************************************************************)
EXTENDS Session

CONSTANTS
  Requests,     \* arguments of copy commands: blocks
  CommandArgs   \* options of a run: the domain, and whether outfile is sparse

ASSUME CommandsAssumption ==
  /\ \A c \in Requests : c \in [pos : Nat, size : Nat] /\ InRange(c)
  /\ \A a \in CommandArgs : IsRunDomain(a.domain)

\* Where a sparse copy skips zeros, it leaves what the output file holds; an output
\* file to begin with holds no other data there.
ASSUME SparseAssumption ==
  (\E a \in CommandArgs : a.sparse) =>
    \A f \in OutFiles : \A p \in DOMAIN f \cap DOMAIN Input :
      Input[p] = "zero" => f[p] # "data"

\* The signals are not caught.  A mapfile is created if there was none.
StartCommands ==
  \E a \in CommandArgs, insize \in InSizes :
  \E file \in {Load(a.domain, insize, FALSE, TRUE)} :
    /\ file.ok
    /\ Start([mode |-> "commands", domain |-> a.domain, sparse |-> a.sparse],
             file.book, NoBlock, FALSE)
    /\ mapfile' = IF mapfile.lines = <<>> THEN Saved(file.book) ELSE mapfile

CopyCommand ==
  /\ pc = "commands" /\ pc' = "copy" /\ runs < MaxRuns /\ runs' = runs + 1
  /\ b' \in Requests
  /\ series' = [series EXCEPT !.done = b'.pos .. end(b') - 1]
  /\ UNCHANGED <<disc, job, retval, book>>

\* The next chunk that is not finished, up to the end of the block to copy.
Chunk(p, e) ==
  [find_chunk(book.v, book.index, assign(p, SoftBS), "non_tried",
              book.domain, SoftBS, FALSE, TRUE)
     EXCEPT !.b = IF @.pos >= e THEN NoBlock
                  ELSE IF end(@) > e THEN set_size(@, e - @.pos) ELSE @]

CopyDone ==
  /\ pc = "copy"
  /\ \E f \in {Chunk(b.pos, end(b))} :
       /\ b.size = 0 \/ f.b.size <= 0
       /\ book' = IF b.size = 0 THEN book ELSE [book EXCEPT !.index = f.index]
  /\ pc' = "commands" /\ b' = NoBlock
  /\ UNCHANGED <<disc, job, retval, runs, series>>

\* A command that fails is told, and the exit status remembers it.
CopyFails ==
  /\ pc' = "commands" /\ b' = NoBlock /\ retval' = "error"
  /\ series' = [series EXCEPT !.done = {}]

\* What was copied is finished and what was not is bad.
MarkChunk_Whole(bk, c, r) ==                                                \* mutant
  Mark(bk, [c EXCEPT !.size = r.copied + r.error], "finished")
MarkChunk(bk, c, r) ==
  Mark(Mark(bk, [c EXCEPT !.size = r.copied], "finished"),
       assign(c.pos + r.copied, r.error), "bad_sector")

\* Zeros are not written to a sparse output file.
SkipsZeros(c, n) ==
  job.sparse /\ \A p \in c.pos .. c.pos + n - 1 : Input[p] = "zero"

\* copy_block and what follows it: the end of the input cuts the map off before
\* the chunk is marked.  The command fails if the map cannot be cut off or, after an
\* error, the input file is gone.
CopyChunk ==
  /\ pc = "copy" /\ b.size > 0
  /\ \E f \in {Chunk(b.pos, end(b))} : \E c \in {f.b} :
       /\ c.size > 0
       /\ \E r \in readblockp(Input, c), gone \in BOOLEAN :
            LET upTo  == c.pos + r.copied + r.error
                short == upTo < end(c)
            IN  /\ gone => r.error > 0
                /\ outfile' = IF SkipsZeros(c, r.copied) THEN outfile
                              ELSE writeblockp(outfile, c, r.copied, Input)
                /\ \E cut \in {truncate_vector(book.v, upTo, FALSE)} :
                     /\ book' = MarkChunk([book EXCEPT !.index = f.index,
                                                      !.v = IF short THEN cut.v ELSE @],
                                          c, r)
                     /\ IF gone \/ (short /\ ~cut.ok) THEN CopyFails
                        ELSE /\ b' = [pos |-> end(c), size |-> end(b) - end(c)]
                             /\ UNCHANGED <<pc, retval, series>>
  /\ UNCHANGED <<mapfile, job, runs>>

\* The output file cannot be written: nothing is marked.
CopyWriteFails ==
  /\ pc = "copy" /\ b.size > 0
  /\ \E f \in {Chunk(b.pos, end(b))} :
     \E there \in {min(f.b.size, FileSize(Input) - f.b.pos)} :
       \E n \in 0 .. there - 1 :
           /\ ~SkipsZeros(f.b, there)
           /\ outfile' = writeblockp(outfile, f.b, n, Input)
           /\ book' = [book EXCEPT !.index = f.index]
  /\ CopyFails
  /\ UNCHANGED <<mapfile, job, runs>>

UpdateCommand ==
  /\ pc = "commands"
  /\ \E save \in update_mapfile(book, TRUE) :
       /\ mapfile' = save.mapfile
       /\ retval' = IF save.ok THEN retval ELSE "error"
  /\ UNCHANGED <<outfile, pc, job, book, b, runs, series>>

\* The finish command, or the end of the commands.
FinishCommand == pc = "commands" /\ Finish(book)

QuitCommand == pc = "commands" /\ Exit /\ UNCHANGED <<disc, retval>>

Command  == CopyCommand \/ UpdateCommand \/ FinishCommand \/ QuitCommand
CopyStep == CopyDone \/ CopyChunk \/ CopyWriteFails
=============================================================================
