---------------------------- MODULE RescueProps -----------------------------
(***************************************************************************)
(* What a run of the rescue promises.  The sentences in quotes are those   *)
(* of doc/ddrescue.texi and of the comments of the source.                 *)
(***************************************************************************)
EXTENDS Rescue

AtEnd == pc \in {"done", "aborted"}

IsBook(bk) ==
  /\ bk = [map |-> bk.map, size |-> bk.size, areas |-> bk.areas]
  /\ IsMap(bk.map) /\ bk.size \in [Status -> Int] /\ bk.areas \in Int

Flags ==
  /\ resume \in BOOLEAN /\ block_found \in BOOLEAN /\ rbad \in BOOLEAN
  /\ first_post \in BOOLEAN
  /\ res = [copied |-> res.copied, error |-> res.error]
  /\ res.copied \in BOOLEAN /\ res.error \in BOOLEAN

Values ==
  /\ IsBook(book) /\ dom \subseteq Nat /\ IsCur(cur)
  /\ opts \subseteq RbOptions /\ pending \subseteq Phases
  /\ phase \in Phases \cup {"ending"}
  /\ pc \in {"enter", "pass", "find", "read", "after", "sector", "done", "aborted"}
  /\ pass \in Nat \ {0} /\ first_pass \in Nat \ {0}
  /\ pos \in Nat /\ eskip_size \in Nat
  /\ i \in Nat /\ stop \in Nat /\ edge \in {"lead", "trail"}
  /\ chunk \in [pos : Nat, end : Nat]
  /\ e_code \subseteq AllLimits \cup {"bad_areas"} /\ retval \in {-2, -1, 0, 1}
  /\ outfile \subseteq Nat /\ synced \subseteq Nat
  /\ disk = [map |-> disk.map, cur |-> disk.cur] /\ IsMap(disk.map) /\ IsCur(disk.cur)

\* The variables hold values of their types.
TypeOK == Flags /\ Values

-----------------------------------------------------------------------------
\* Every block has one status and lies inside or outside of the rescue domain,
\* however reads, skips and EOF have split, joined and cut off the blocks.
BlocksSound ==
  ~AtEnd => Uniform(map) /\ SplitByDomain(map, dom)

\* The status a position must have to be read in this phase.
Target == CASE phase = "copying"  -> "non_tried"
            [] phase = "trimming" -> "non_trimmed"
            [] phase = "scraping" -> "non_scraped"
            [] OTHER              -> "bad_sector"

\* "Ddrescue will never try to read any data outside of the rescue domain", and
\* each phase reads only what the earlier ones left for it: never rescued data,
\* nor, from its copy of the block it is in, a sector that was read since.
ReadsItsTarget ==
  pc = "read" => /\ chunk.pos < chunk.end /\ Chunk(chunk) \subseteq dom
                 /\ \A p \in Chunk(chunk) \cap Positions(map) : map.st[p] = Target

\* change_chunk_status is never asked for a chunk that is not in the rescue
\* domain or is spread over more than 1 block.
NoInternalError == pc # "aborted"

\* A position that has been finished stays finished, and no position goes back
\* to a less processed state; EOF only cuts off what lies beyond it.  What lies
\* outside of the rescue domain keeps its status.
KeepsProcessed ==
  \A p \in Positions(map) :
    /\ map.st[p] = "finished" \/ p < InEnd => p \in Positions(map')
    /\ p \in Positions(map') =>
         processed_state[map'.st[p]] >= processed_state[map.st[p]]
KeepsOutside ==
  \A p \in (Positions(map) \cap Positions(map')) \ dom : map'.st[p] = map.st[p]
NeverLessProcessed == [][KeepsProcessed /\ KeepsOutside]_vars

\* "Each sector is tried at most two times; the first in this phase as part of a
\* large block read, the second in one of the phases below as a single sector
\* read": a read, also one that fails or meets EOF, gives every sector of its chunk
\* before EOF another status, and after a single sector read (before retrying) it
\* is one that is not read again.
ReadDecides ==
  pc = "read" /\ (pc' = "after" \/ map' # map) /\ phase # "retrying" =>
    \A p \in Chunk(chunk) : p < InEnd =>
      /\ p \in Positions(map') /\ map'.st[p] # map.st[p]
      /\ phase # "copying" => map'.st[p] \in {"bad_sector", "finished"}
TriedAtMostTwice == [][ReadDecides]_vars

\* "Every bad sector is tried only once in each pass" (and so is every chunk in
\* each copying pass): within a pass the chunks follow each other in its direction.
MovesOn ==
  pc = "find" /\ pc' = "read" /\ InPasses /\ block_found =>
    IF Forward THEN chunk'.pos >= chunk.end ELSE chunk'.end <= chunk.pos
PassMovesOn == [][MovesOn]_vars

-----------------------------------------------------------------------------
\* What the mapfile calls finished was written to the output file, also when a
\* read is partial, hits EOF or is followed by a write error.
RescuedIsWritten ==
  \A p \in Positions(map) : map.st[p] = "finished" => p \in outfile

\* What the mapfile on disc calls finished was covered by an fsync of the output file
\* before, so that a crash at any point loses no data that the next run would not read
\* again, provided that the fsync did what it was called for: the program does not
\* look at its result (mapbook.cc:144).
SavedIsSynced ==
  \A p \in Positions(disk.map) : disk.map.st[p] = "finished" => p \in synced

-----------------------------------------------------------------------------
\* The sizes shown and used by the program are those of its blocks.  (Those of
\* the non-trimmed and the non-scraped blocks are exact only in their sum.)
SizesExact ==
  ~AtEnd =>
    /\ \A s \in {"non_tried", "bad_sector", "finished"} :
         book.size[s] = SizeOf(map, dom, s)
    /\ book.size["non_trimmed"] + book.size["non_scraped"] =
         SizeOf(map, dom, "non_trimmed") + SizeOf(map, dom, "non_scraped")

\* The number of bad areas, which max_bad_areas limits, is kept exact by the
\* adjustments of change_chunk_status.
BadAreasExact == ~AtEnd => book.areas = AreasOf(map, dom)

\* "non-scraped ... This is the sum of the sizes of all the non-scraped blocks."
NonScrapedExact ==
  ~AtEnd => book.size["non_scraped"] = SizeOf(map, dom, "non_scraped")

-----------------------------------------------------------------------------
None(s) == \A p \in Positions(map) \cap dom : map.st[p] # s

\* No phase is begun, and no run ends well, before the earlier phases have left
\* nothing for themselves: "The copying direction is reversed after each pass
\* until all the rescue domain is tried", all non-trimmed blocks are trimmed and
\* all non-scraped blocks are scraped.
After(p) == CASE p = "copying"  -> phase \in {"trimming", "scraping", "retrying"}
              [] p = "trimming" -> phase \in {"scraping", "retrying"}
              [] p = "scraping" -> phase = "retrying"
EndsWell == phase = "ending" /\ retval = 0

Tried(p, s) == e_code = {} /\ (After(p) \/ EndsWell) => None(s)
NothingLeft ==
  /\ Tried("copying", "non_tried")
  /\ ~Has("notrim") => Tried("trimming", "non_trimmed")
  /\ ~Has("noscrape") => Tried("scraping", "non_scraped")

\* A run that exits with status 0 without being interrupted saved a mapfile that
\* is marked finished and in which nothing inside the domain is left to try.
FinishedIsComplete ==
  pc = "done" /\ retval = 0 =>
    /\ disk = [map |-> map, cur |-> cur] /\ cur.status = "finished"
    /\ \A p \in Positions(disk.map) \cap dom :
         disk.map.st[p] \in {"bad_sector", "finished"}

\* Once a limit is met, nothing more is read or written and no status changes but
\* that of blocks left for scraping; the run is not called finished and exits with
\* status 1, also if a phase or the whole rescue ends before the limit is looked at.
OnlyLeaves ==
  /\ map'.end = map.end
  /\ \A p \in Positions(map) :
       map'.st[p] = map.st[p] \/ <<map.st[p], map'.st[p]>> = <<"non_trimmed", "non_scraped">>
StopsAtLimit ==
  /\ e_code # {} => outfile' = outfile /\ dom' = dom /\ OnlyLeaves
  /\ e_code' # {} =>
       /\ cur'.status = "finished" => cur.status = "finished"
       /\ pc' = "done" => retval' = 1
LimitsEndRun == [][StopsAtLimit]_vars

\* The rescue ends, whatever the drive returns: the loops over passes, blocks
\* (whose index stays while blocks split and join) and sectors come to an end.
Termination == <>AtEnd
=============================================================================
