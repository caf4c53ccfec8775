------------------------------- MODULE Rescue -------------------------------
(***************************************************************************)
(* One run of ddrescue in rescue mode: Rescuebook::do_rescue and the four  *)
(* phases it calls, from the block map that startup left to the final save *)
(* of the mapfile.                                                         *)
(*                                                                         *)
(* Every read is one visit to copy_and_update (pc = "read"); the loops of  *)
(* the phases choose the chunk to read before it and decide where to go    *)
(* after it.  What the drive returns, whether a write or a save fails,     *)
(* when the user interrupts and when a time limit expires are choices of   *)
(* the environment, taken anew at every read.                              *)
(* As in BlockMap, a definition marked as a mutant is a plausible bug that *)
(* a property of the model must detect.                                    *)
(***************************************************************************)
EXTENDS BlockMap

CONSTANTS
  HardBS,       \* hardbs(): the sector size
  SoftBS,       \* softbs(): the size of a large read, cluster * hardbs()
  SkipBS,       \* skipbs: the initial size to skip on read error
  MaxSkipBS,    \* max_skipbs: the maximum size to skip on read error
  InEnd,        \* where reading the input file meets EOF
  CPass,        \* cpass_bitset: the copying passes to run
  MaxRetries,   \* max_retries: negative for no limit
  MaxBadAreas,  \* max_bad_areas
  Options,      \* the combinations of the options in RbOptions a run may have
  Limits,       \* the limits given that depend on times and on counts of reads
  Saves,        \* what a periodic update_mapfile may do, of SaveResults
  Starts        \* the [map, dom, cur] a run may start from

RbOptions == {"reverse", "unidirectional", "notrim", "noscrape",
              "complete_only", "min_read_rate", "reopen_on_error"}
TimeLimits == {"error_rate", "timeout"}
ReadLimits == {"read_errors", "other"}
AllLimits  == TimeLimits \cup ReadLimits \cup {"slow_reads"}
SaveResults == {"not_due", "saved", "failed"}

Phases == {"copying", "trimming", "scraping", "retrying"}

IsCur(c) == c \in [pos : Nat, status : Phases \cup {"finished"}, pass : Nat \ {0}]

IsStart(s) ==
  /\ IsMap(s.map) /\ Uniform(s.map) /\ SplitByDomain(s.map, s.dom)
  /\ s.dom \subseteq Nat
  /\ IsCur(s.cur)

ASSUME SizesAssumption ==
  /\ HardBS \in Nat \ {0} /\ SoftBS \in Nat \ {0}
  /\ SkipBS \in Nat /\ MaxSkipBS \in Nat
  /\ InEnd \in Nat /\ MaxRetries \in Int /\ MaxBadAreas \in Nat
ASSUME OptionsAssumption ==
  /\ CPass \subseteq 1 .. 5 /\ Options \subseteq SUBSET RbOptions
  /\ Limits \subseteq AllLimits /\ Saves \subseteq SaveResults
ASSUME StartsAssumption == \A s \in Starts : IsStart(s)

VARIABLES
  book,         \* [map, size, areas]: the block map and the counters kept on it
  dom,          \* domain()
  cur,          \* [pos, status, pass]: the status line of the mapfile
  opts,         \* Rb_options: the options given
  pending,      \* copy_pending, trim_pending and scrape_pending of do_rescue
  phase, pc,    \* the phase and the point in it
  pass, first_pass, resume,      \* of copy_non_tried and copy_errors
  pos,          \* pos of the loops (end of those that go backwards)
  eskip_size, block_found,       \* of the loops of copy_non_tried
  i, stop, edge, rbad,           \* of trim_errors and scrape_errors
  chunk, res,   \* the chunk being read; what came of the read
  first_post,   \* no read yet in this pass
  e_code, retval,
  outfile,      \* the positions whose data was written to the output file
  synced,       \* those that were on disc at the last fsync
  disk          \* [map, cur]: the mapfile last saved

runVars  == <<opts, pending>>
passVars == <<pass, first_pass, resume>>
scanVars == <<eskip_size, block_found>>
edgeVars == <<i, stop, edge, rbad>>
readVars == <<chunk, res>>
errVars  == <<e_code, retval>>
fileVars == <<outfile, synced, disk>>
vars == <<book, dom, cur, runVars, phase, pc, passVars, pos, scanVars, edgeVars,
          readVars, first_post, errVars, fileVars>>

map == book.map
Has(option) == option \in opts

-----------------------------------------------------------------------------
(***************************************************************************)
(* The counters of Rescuebook.                                             *)
(***************************************************************************)
initialize_sizes(m, d) ==
  [map |-> m, size |-> [s \in Status |-> SizeOf(m, d, s)], areas |-> AreasOf(m, d)]

change_chunk_status(bk, d, b, s) ==
  LET old == bk.map.st[b.pos]
      len == b.end - b.pos
  IN  IF s = old THEN bk
      ELSE [map   |-> change_chunk(bk.map, d, b, s),
            size  |-> [bk.size EXCEPT ![old] = @ - len, ![s] = @ + len],
            areas |-> bk.areas + area_adjust(bk.map, d, b, s)]

\* errors_or_timeout: the reasons to give up; too many bad areas is found here.
Errors_Forgets == IF book.areas > MaxBadAreas THEN {"bad_areas"} ELSE {}    \* mutant
Errors == IF book.areas > MaxBadAreas THEN e_code \cup {"bad_areas"} ELSE e_code

Init ==
  /\ \E s \in Starts :
       /\ book = initialize_sizes(s.map, s.dom)
       /\ dom = s.dom /\ cur = s.cur
       /\ disk = [map |-> s.map, cur |-> s.cur]
  /\ opts \in Options
  /\ pending = IF book.size["non_tried"] # 0 THEN {"copying", "trimming", "scraping"}
               ELSE IF book.size["non_trimmed"] # 0 THEN {"trimming", "scraping"}
               ELSE IF book.size["non_scraped"] # 0 THEN {"scraping"} ELSE {}
  /\ outfile = {p \in Positions(map) : map.st[p] = "finished"}
  /\ synced = outfile
  /\ phase = "copying" /\ pc = "enter"
  /\ pass = 1 /\ first_pass = 1 /\ resume = FALSE
  /\ pos = 0 /\ eskip_size = SkipBS /\ block_found = FALSE
  /\ i = 0 /\ stop = 0 /\ edge = "lead" /\ rbad = FALSE
  /\ chunk = [pos |-> 0, end |-> 0] /\ res = [copied |-> FALSE, error |-> FALSE]
  /\ first_post = FALSE /\ e_code = {} /\ retval = 0

-----------------------------------------------------------------------------
(***************************************************************************)
(* do_rescue: the phases in order.                                         *)
(***************************************************************************)
NextPhase == [p \in Phases |-> CASE p = "copying"  -> "trimming"
                                 [] p = "trimming" -> "scraping"
                                 [] p = "scraping" -> "retrying"
                                 [] p = "retrying" -> "ending"]

Wanted == \/ phase = "copying"  /\ "copying" \in pending
          \/ phase = "trimming" /\ "trimming" \in pending /\ ~Has("notrim")
          \/ phase = "scraping" /\ "scraping" \in pending /\ ~Has("noscrape")
          \/ phase = "retrying" /\ MaxRetries # 0

\* The phase returns 0: do_rescue goes on with the next one.
PhaseDone == phase' = NextPhase[phase] /\ pc' = "enter"

\* The phase returns an error or an interruption: do_rescue skips the others.
Return_GoesOn(r) ==                                                         \* mutant
  IF r = -2 THEN PhaseDone /\ retval' = 0
  ELSE phase' = "ending" /\ pc' = "enter" /\ retval' = r
Return(r) == phase' = "ending" /\ pc' = "enter" /\ retval' = r

SkipPhase ==
  /\ pc = "enter" /\ phase \in Phases
  /\ ~Wanted \/ Errors # {}
  /\ e_code' = IF Wanted THEN Errors ELSE e_code
  /\ PhaseDone
  /\ UNCHANGED <<book, dom, cur, runVars, passVars, pos, scanVars, edgeVars,
                 readVars, first_post, retval, fileVars>>

\* copy_non_tried: a run with --cpass, or after another phase, starts at pass 1.
EnterCopying ==
  /\ pc = "enter" /\ phase = "copying" /\ Wanted /\ Errors = {}
  /\ resume' = (CPass = 1 .. 5 /\ cur.status = "copying")
  /\ first_pass' = IF resume' /\ cur.pass <= 5 THEN cur.pass ELSE 1
  /\ cur' = [cur EXCEPT !.pass = first_pass']
  /\ pass' = first_pass' /\ pc' = "pass"
  /\ UNCHANGED <<book, dom, runVars, phase, pos, scanVars, edgeVars, readVars,
                 first_post, errVars, fileVars>>

\* trim_errors, scrape_errors.
EnterSectors ==
  /\ pc = "enter" /\ phase \in {"trimming", "scraping"} /\ Wanted /\ Errors = {}
  /\ first_post' = TRUE /\ i' = 0 /\ pc' = "find"
  /\ UNCHANGED <<book, dom, cur, runVars, phase, passVars, pos, scanVars, stop,
                 edge, rbad, readVars, errVars, fileVars>>

\* copy_errors: a resumed run goes on in the direction it was interrupted in.
EnterRetrying ==
  /\ pc = "enter" /\ phase = "retrying" /\ Wanted /\ Errors = {}
  /\ resume' = (cur.status = "retrying")
  /\ first_pass' = IF ~resume' \/ Has("unidirectional") \/ cur.pass % 2 = 1
                   THEN 1 ELSE 2
  /\ pass' = first_pass' /\ pc' = "pass"
  /\ UNCHANGED <<book, dom, cur, runVars, phase, pos, scanVars, edgeVars,
                 readVars, first_post, errVars, fileVars>>

-----------------------------------------------------------------------------
(***************************************************************************)
(* The passes of copy_non_tried and copy_errors.                           *)
(***************************************************************************)

\* The direction is reversed after each pass, the skipped ones included.
Forward == IF Has("unidirectional") THEN ~Has("reverse")
           ELSE Has("reverse") = (pass % 2 = 0)

near(b) == IF Forward THEN b.pos ELSE b.end
far_Near(b) == near(b)                                                      \* mutant
far(b)  == IF Forward THEN b.end ELSE b.pos

PassStatus == IF phase = "copying" THEN "non_tried" ELSE "bad_sector"
ReadSize   == IF phase = "copying" THEN SoftBS ELSE HardBS
AtEdges_LastToo == phase = "copying" /\ pass \in 3 .. 5                      \* mutant
AtEdges    == phase = "copying" /\ pass \in {3, 4}

\* The chunk of at most len from p on, in the direction of the pass.
ChunkFrom(p, len, align, edges) ==
  IF Forward THEN find_chunk(map, dom, p, len, PassStatus, align, edges)
             ELSE rfind_chunk(map, dom, p, len, PassStatus, align, edges)

BlocksAhead(p) == IF Forward THEN BlocksFrom(map, dom, p, PassStatus, FALSE)
                             ELSE BlocksUpTo(map, dom, p, PassStatus, FALSE)

PassWanted == IF phase = "copying" THEN pass \in CPass
              ELSE MaxRetries < 0 \/ pass - first_pass < MaxRetries

\* Where a resumed pass goes on: at the position being tried, if there is
\* something to read from it on.
ResumeAt ==
  IF (IF Forward THEN cur.pos ELSE cur.pos - 1) \in dom
  THEN ChunkFrom(cur.pos, 1, HardBS, FALSE) ELSE {}

StartPass ==
  /\ pc = "pass" /\ PassWanted
  /\ resume' = (resume /\ pass = first_pass)
  /\ IF resume' /\ ResumeAt # {} THEN \E b \in ResumeAt : pos' = near(b)
     ELSE pos' = IF Forward THEN 0 ELSE map.end
  /\ eskip_size' = SkipBS /\ block_found' = FALSE
  /\ first_post' = TRUE /\ pc' = "find"
  /\ UNCHANGED <<book, dom, cur, runVars, phase, pass, first_pass, edgeVars,
                 readVars, errVars, fileVars>>

SkipPass ==
  /\ pc = "pass" /\ phase = "copying" /\ ~PassWanted /\ pass <= 5
  /\ pass' = pass + 1
  /\ UNCHANGED <<book, dom, cur, runVars, phase, pc, first_pass, resume, pos,
                 scanVars, edgeVars, readVars, first_post, errVars, fileVars>>

PassesDone ==
  /\ pc = "pass" /\ ~PassWanted /\ (phase = "copying" => pass > 5)
  /\ PhaseDone
  /\ UNCHANGED <<book, dom, cur, runVars, passVars, pos, scanVars, edgeVars,
                 readVars, first_post, errVars, fileVars>>

\* The size to skip is reset on block change.
ScanChunk ==
  /\ pc = "find" /\ phase \in {"copying", "retrying"}
  /\ \E b \in ChunkFrom(pos, ReadSize, ReadSize, AtEdges) :
       /\ chunk' = b /\ pos' = far(b)
       /\ eskip_size' = IF near(b) = pos THEN eskip_size ELSE SkipBS
  /\ block_found' = TRUE /\ pc' = "read"
  /\ UNCHANGED <<book, dom, cur, runVars, phase, passVars, edgeVars, res,
                 first_post, errVars, fileVars>>

\* A pass that saw no block to read ends its phase.
EndPass ==
  /\ pc = "find" /\ phase \in {"copying", "retrying"}
  /\ ChunkFrom(pos, ReadSize, ReadSize, AtEdges) = {}
  /\ IF block_found \/ BlocksAhead(pos) # {}
     THEN pass' = pass + 1 /\ resume' = FALSE /\ pc' = "pass" /\ UNCHANGED phase
     ELSE PhaseDone /\ UNCHANGED <<pass, resume>>
  /\ UNCHANGED <<book, dom, cur, runVars, first_pass, pos, scanVars, edgeVars,
                 readVars, first_post, errVars, fileVars>>

-----------------------------------------------------------------------------
(***************************************************************************)
(* copy_and_update: one read, posted on the status line before it is made. *)
(***************************************************************************)
InPasses == phase \in {"copying", "retrying"}
ReadForward == CASE InPasses -> Forward
                 [] phase = "trimming" -> edge = "lead"
                 [] phase = "scraping" -> TRUE

Post ==
  /\ first_post' = FALSE
  /\ cur' = [pos    |-> IF ReadForward THEN chunk.pos ELSE chunk.end,
             status |-> IF first_post THEN phase ELSE cur.status,
             pass   |-> IF ~first_post THEN cur.pass ELSE IF InPasses THEN pass ELSE 1]

ReadRefused ==
  /\ pc = "read" /\ Errors # {}
  /\ Post /\ e_code' = Errors /\ Return(1)
  /\ UNCHANGED <<book, dom, runVars, passVars, pos, scanVars, edgeVars, readVars,
                 fileVars>>

Interrupted ==
  /\ pc = "read" /\ Errors = {}
  /\ Post /\ Return(-1)
  /\ UNCHANGED <<book, dom, runVars, passVars, pos, scanVars, edgeVars, readVars,
                 e_code, fileVars>>

\* The read may go on only if nothing stopped it.
Reading == pc = "read" /\ Errors = {}

\* How much of the chunk lies before EOF.
Avail == Larger(0, Smaller(chunk.end, InEnd) - chunk.pos)
Head(k) == [pos |-> chunk.pos, end |-> chunk.pos + k]
Tail(k) == [pos |-> chunk.pos + k, end |-> chunk.end]

\* The head of the chunk was copied to the output file.
Written_WholeOnly(k) == outfile \cup                                        \* mutant
                        IF Head(k) = chunk THEN Chunk(chunk) ELSE {}
Written(k) == outfile \cup Chunk(Head(k))

\* copy_block fails to write all of what it read, or the read was unaligned.
WriteFailed ==
  /\ Reading
  /\ \E k \in 0 .. Avail : outfile' = Written(k)
  /\ Post /\ Return(1)
  /\ UNCHANGED <<book, dom, runVars, passVars, pos, scanVars, edgeVars, readVars,
                 e_code, synced, disk>>

\* A failed chunk larger than a sector is left for the next phase.
FailedStatus_Sector(b) == IF b.end - b.pos >= HardBS                        \* mutant
                          THEN "non_trimmed" ELSE "bad_sector"
FailedStatus(b) == IF b.end - b.pos > HardBS /\ phase = "copying"
                   THEN "non_trimmed" ELSE "bad_sector"

Copied(bk, d, k) ==
  IF k > 0 THEN change_chunk_status(bk, d, Head(k), "finished") ELSE bk

ReadGood ==
  /\ Reading /\ Avail = chunk.end - chunk.pos /\ CanChange(map, dom, chunk)
  /\ book' = Copied(book, dom, Avail)
  /\ outfile' = Written(Avail)
  /\ res' = [copied |-> TRUE, error |-> FALSE]
  /\ Post /\ pc' = "after"
  /\ UNCHANGED <<dom, runVars, phase, passVars, pos, scanVars, edgeVars, chunk,
                 errVars, synced, disk>>

\* The read fails after k positions.  It may be the read error too many, show
\* that the input file has disappeared or that it returns other data than before.
ReadBad ==
  /\ Reading /\ CanChange(map, dom, chunk)
  /\ \E k \in 0 .. Avail, e \in SUBSET (Limits \cap ReadLimits), gone \in BOOLEAN :
       /\ Avail > 0 /\ k < chunk.end - chunk.pos
       /\ book' = change_chunk_status(Copied(book, dom, k), dom, Tail(k),
                                      FailedStatus(Tail(k)))
       /\ outfile' = Written(k)
       /\ res' = [copied |-> k > 0, error |-> TRUE]
       /\ e_code' = e_code \cup e
       /\ IF gone \/ "read_errors" \in e THEN Return(1)
          ELSE pc' = "after" /\ UNCHANGED <<phase, retval>>
  /\ Post
  /\ UNCHANGED <<dom, runVars, passVars, pos, scanVars, edgeVars, chunk, synced,
                 disk>>

\* At EOF the map is cut off, unless that would remove rescued data; with
\* complete_only the domain is cropped instead.
EofDom == IF Has("complete_only") THEN dom \cap 0 .. chunk.pos + Avail - 1 ELSE dom
EofFails == ~Has("complete_only") /\ ~Truncatable(map, chunk.pos + Avail)
EofBook_OldSizes ==                                                         \* mutant
  [book EXCEPT !.map = IF Has("complete_only") \/ EofFails THEN map
                       ELSE truncate_vector(map, chunk.pos + Avail)]
EofBook ==
  initialize_sizes(IF Has("complete_only") \/ EofFails THEN map
                   ELSE truncate_vector(map, chunk.pos + Avail), EofDom)

ReadEof ==
  /\ Reading /\ Avail < chunk.end - chunk.pos
  /\ Avail > 0 => CanChange(EofBook.map, EofDom, Head(Avail))
  /\ dom' = EofDom /\ book' = Copied(EofBook, EofDom, Avail)
  /\ outfile' = Written(Avail)
  /\ res' = [copied |-> Avail > 0, error |-> FALSE]
  /\ IF EofFails THEN Return(1) ELSE pc' = "after" /\ UNCHANGED <<phase, retval>>
  /\ Post
  /\ UNCHANGED <<runVars, passVars, pos, scanVars, edgeVars, chunk, e_code, synced,
                 disk>>

\* internal_error: the program exits at once with status 3, saving nothing.
InternalError ==
  /\ Reading
  /\ \/ Avail > 0 /\ ~CanChange(map, dom, chunk)
     \/ /\ Avail > 0 /\ Avail < chunk.end - chunk.pos
        /\ ~CanChange(EofBook.map, EofDom, Head(Avail))
  /\ \E k \in 0 .. Avail : outfile' = Written(k)
  /\ Post /\ pc' = "aborted"
  /\ UNCHANGED <<book, dom, runVars, phase, passVars, pos, scanVars, edgeVars,
                 readVars, errVars, synced, disk>>

-----------------------------------------------------------------------------
(***************************************************************************)
(* After the read: skipping, the limits on rates and the periodic save.    *)
(***************************************************************************)

\* update_mapfile: fsync is called on the output file before the mapfile is written;
\* whether that call fails the program does not ask.
update_mapfile_Unsynced(m, c, result) ==                                    \* mutant
  /\ UNCHANGED synced
  /\ IF result = "saved" THEN disk' = [map |-> m, cur |-> c] ELSE UNCHANGED disk
update_mapfile(m, c, result) ==
  CASE result = "not_due" -> UNCHANGED <<synced, disk>>
    [] result = "saved"   -> synced' = outfile /\ disk' = [map |-> m, cur |-> c]
    [] result = "failed"  -> synced' = outfile /\ UNCHANGED disk

\* update_rates, then update_mapfile; the loop goes on at `next`.
RatesAndSave(next) ==
  \E e \in SUBSET (Limits \cap TimeLimits), result \in Saves :
    /\ e_code' = e_code \cup e
    /\ update_mapfile(map, cur, result)
    /\ IF result = "failed" THEN Return(-2)
       ELSE pc' = next /\ UNCHANGED <<phase, retval>>

\* A slow read; the minimum read rate is reset after pass 2.
SlowReads == IF Has("min_read_rate") /\ pass <= 2 THEN BOOLEAN ELSE {FALSE}

\* There is room to skip unless a backwards pass is at the start of the map.
MaySkip(slow) == (res.error \/ slow) /\ (Forward \/ pos > 0)

\* What may be skipped after an error or a slow read: the rest of the block,
\* except in pass 1, where the size depends on the errors (or on the rates) seen.
\* Nothing if the slow read before had an error too: sskip_size is then still 0, and
\* doubled.
SkipSizes == IF pass >= 2 THEN {map.end} ELSE
             IF res.error THEN {eskip_size}
             ELSE {0} \cup SkipBS .. Larger(SkipBS, MaxSkipBS)

Doubled(size) == IF size <= MaxSkipBS \div 2 THEN 2 * size ELSE MaxSkipBS

\* Skip up to len from pos, if what follows pos is still to be tried.
SkipTo(len) == IF len = 0 THEN {} ELSE
  {far(b) : b \in {x \in ChunkFrom(pos, len, HardBS, FALSE) : near(x) = pos}}

AfterCopy ==
  /\ pc = "after" /\ phase = "copying"
  /\ \E slow \in SlowReads :
       IF MaySkip(slow) /\ SkipBS > 0 /\ pass <= 4
       THEN /\ \E len \in SkipSizes :
                 pos' \in IF SkipTo(len) = {} THEN {pos} ELSE SkipTo(len)
            /\ eskip_size' = IF res.error /\ pass = 1 THEN Doubled(eskip_size)
                             ELSE eskip_size
       ELSE /\ pos' = pos
            /\ eskip_size' = IF ~MaySkip(slow) /\ ~res.error /\ res.copied
                             THEN SkipBS ELSE eskip_size
  /\ RatesAndSave("find")
  /\ UNCHANGED <<book, dom, cur, runVars, passVars, block_found, edgeVars, readVars,
                 first_post, outfile>>

\* One slow read too many, or the input file can't be reopened after an error or
\* a slow read.
AfterCopyFails ==
  /\ pc = "after" /\ phase = "copying"
  /\ \E e \in SUBSET (Limits \cap TimeLimits) :
       \/ /\ TRUE \in SlowReads /\ "slow_reads" \in Limits
          /\ e_code' = e_code \cup e \cup {"slow_reads"}
       \/ /\ Has("reopen_on_error") /\ \E slow \in SlowReads : MaySkip(slow)
          /\ e_code' = e_code \cup e
  /\ Return(1)
  /\ UNCHANGED <<book, dom, cur, runVars, passVars, pos, scanVars, edgeVars,
                 readVars, first_post, fileVars>>

AfterRetry ==
  /\ pc = "after" /\ phase = "retrying"
  /\ RatesAndSave("find")
  /\ UNCHANGED <<book, dom, cur, runVars, passVars, pos, scanVars, edgeVars,
                 readVars, first_post, outfile>>

\* A bad sector ends the trimming of an edge.
AfterSector ==
  /\ pc = "after" /\ phase \in {"trimming", "scraping"}
  /\ IF phase = "trimming" /\ res.error
     THEN edge' = "trail" /\ rbad' = (rbad \/ edge = "trail")
     ELSE UNCHANGED <<edge, rbad>>
  /\ RatesAndSave("sector")
  /\ UNCHANGED <<book, dom, cur, runVars, passVars, pos, scanVars, i, stop,
                 readVars, first_post, outfile>>

-----------------------------------------------------------------------------
(***************************************************************************)
(* trim_errors and scrape_errors: an index loop over the blocks, whose     *)
(* number changes under it, and a loop over the sectors of a copy of the   *)
(* block found.                                                            *)
(***************************************************************************)
BlockStatus == IF phase = "trimming" THEN "non_trimmed" ELSE "non_scraped"

\* The index of the block that begins at c, counted from the end by --reverse.
Index(c) == IF Has("reverse") THEN Cardinality({x \in map.cuts : x > c})
                              ELSE Cardinality({x \in map.cuts : x < c})

\* The first block, in the order of the index, from i on.
NextOf(found) == IF Has("reverse") THEN Last(found) ELSE First(found)
NextBlock == NextOf({c \in map.cuts : /\ map.st[c] = BlockStatus
                                      /\ InDomain(map, c, dom) /\ Index(c) >= i})

BadAt(p) == p \in Positions(map) /\ map.st[p] = "bad_sector"
BadBefore(c) == BadAt(c - 1)
BadAfter(c)  == \E e \in BlockEnd(map, c) : BadAt(e)

\* A block between bad sectors is left for the scraping phase.  The status is
\* changed without counting it and without joining the block to its neighbours.
LeaveBlock ==
  /\ pc = "find" /\ phase = "trimming"
  /\ \E c \in NextBlock :
       /\ BadBefore(c) /\ BadAfter(c)
       /\ book' = [book EXCEPT !.map = change_sblock_status(map, c, "non_scraped")]
       /\ i' = Index(c) + 1
  /\ UNCHANGED <<dom, cur, runVars, phase, pc, passVars, pos, scanVars, stop, edge,
                 rbad, readVars, first_post, errVars, fileVars>>

\* A block to read; an edge next to a bad sector is considered as trimmed.
TakeBlock ==
  /\ pc = "find" /\ phase \in {"trimming", "scraping"}
  /\ \E c \in NextBlock :
       /\ phase = "trimming" => ~(BadBefore(c) /\ BadAfter(c))
       /\ i' = Index(c)
       /\ pos' = c /\ stop' \in BlockEnd(map, c)
       /\ edge' = IF phase = "trimming" /\ BadBefore(c) THEN "trail" ELSE "lead"
       /\ rbad' = BadAfter(c)
  /\ pc' = "sector"
  /\ UNCHANGED <<book, dom, cur, runVars, phase, passVars, scanVars, readVars,
                 first_post, errVars, fileVars>>

BlocksDone ==
  /\ pc = "find" /\ phase \in {"trimming", "scraping"} /\ NextBlock = {}
  /\ PhaseDone
  /\ UNCHANGED <<book, dom, cur, runVars, passVars, pos, scanVars, edgeVars,
                 readVars, first_post, errVars, fileVars>>

\* The next sector from the leading edge (of scrape_errors, from the start) ...
LeadSector ==
  /\ pc = "sector" /\ edge = "lead" /\ pos < stop
  /\ LET b == [pos |-> pos, end |-> Smaller(pos + HardBS, stop)]
     IN  chunk' = IF b.end = stop THEN b ELSE align_end(b, HardBS)
  /\ pos' = chunk'.end /\ pc' = "read"
  /\ UNCHANGED <<book, dom, cur, runVars, phase, passVars, scanVars, edgeVars, res,
                 first_post, errVars, fileVars>>

\* ... and from the trailing edge backwards.
TrailSector ==
  /\ pc = "sector" /\ edge = "trail" /\ ~rbad /\ pos < stop
  /\ LET b == [pos |-> Larger(pos, stop - HardBS), end |-> stop]
     IN  chunk' = IF b.pos = pos THEN b ELSE align_pos(b, HardBS)
  /\ stop' = chunk'.pos /\ pc' = "read"
  /\ UNCHANGED <<book, dom, cur, runVars, phase, passVars, pos, scanVars, i, edge,
                 rbad, res, first_post, errVars, fileVars>>

\* What is left between the edges, looked up again, is left for scraping.
RestOfBlock == LET p == stop - 1 IN
  IF pos < stop /\ p < map.end /\ InDomain(map, p, dom) /\ map.st[p] = "non_trimmed"
  THEN {[pos |-> c, end |-> e] : c \in BlockStart(map, p), e \in BlockEnd(map, p)}
  ELSE {}

BlockDone ==
  /\ pc = "sector"
  /\ IF edge = "lead" THEN pos >= stop ELSE rbad \/ pos >= stop
  /\ \/ RestOfBlock = {} /\ UNCHANGED book
     \/ \E b \in RestOfBlock :
          book' = change_chunk_status(book, dom, b, "non_scraped")
  /\ pc' = "find"
  /\ UNCHANGED <<dom, cur, runVars, phase, passVars, pos, scanVars, edgeVars,
                 readVars, first_post, errVars, fileVars>>

-----------------------------------------------------------------------------
(***************************************************************************)
(* The end of do_rescue: a last look at the time limits, the last save and *)
(* the exit status, which retval then is; -1 stands for the exit by a      *)
(* signal.  A run that could not save the mapfile does not try again.      *)
(***************************************************************************)
EndMapfileError ==
  /\ pc = "enter" /\ phase = "ending" /\ retval = -2
  /\ retval' = 1 /\ pc' = "done"
  /\ UNCHANGED <<book, dom, cur, runVars, phase, passVars, pos, scanVars, edgeVars,
                 readVars, first_post, e_code, fileVars>>

End ==
  /\ pc = "enter" /\ phase = "ending" /\ retval # -2
  /\ \E late \in SUBSET (Limits \cap TimeLimits) :
     LET failed == retval = 1 \/ Errors \cup late # {}
     IN  /\ e_code' = (IF retval = 1 THEN e_code ELSE Errors) \cup late
         /\ cur' = IF failed \/ retval = -1 THEN cur
                   ELSE [cur EXCEPT !.status = "finished"]
         /\ book' = [book EXCEPT !.map = compact(map)]
         /\ \E result \in {"saved"} \cup (Saves \ {"not_due"}) :
              /\ update_mapfile(compact(map), cur', result)
              /\ retval' = IF failed \/ result = "failed" THEN 1 ELSE retval
  /\ pc' = "done"
  /\ UNCHANGED <<dom, runVars, phase, passVars, pos, scanVars, edgeVars, readVars,
                 first_post, outfile>>

\* The process has exited.
Exited == pc \in {"done", "aborted"} /\ UNCHANGED vars

-----------------------------------------------------------------------------
Rescuing ==
  \/ SkipPhase \/ EnterCopying \/ EnterSectors \/ EnterRetrying
  \/ StartPass \/ SkipPass \/ PassesDone \/ ScanChunk \/ EndPass
  \/ ReadRefused \/ Interrupted \/ WriteFailed \/ ReadGood \/ ReadBad \/ ReadEof
  \/ InternalError
  \/ AfterCopy \/ AfterCopyFails \/ AfterRetry \/ AfterSector
  \/ LeaveBlock \/ TakeBlock \/ BlocksDone \/ LeadSector \/ TrailSector \/ BlockDone
  \/ EndMapfileError \/ End

Next == Rescuing \/ Exited

Spec == Init /\ [][Next]_vars

\* The program is one thread: it goes on until it exits.
FairSpec == Spec /\ WF_vars(Rescuing)
=============================================================================
