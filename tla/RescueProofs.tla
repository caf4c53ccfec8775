---------------------------- MODULE RescueProofs ----------------------------
(***************************************************************************)
(* Theorems about a run of the rescue, for every size of the sectors and   *)
(* of the reads, every start, every set of options and every behaviour of  *)
(* the drive: what it keeps, what a step of it may never do, and that no   *)
(* phase ends well before it has left nothing for itself.  The types,      *)
(* proved first, are part of every inductive invariant here; a property of *)
(* an action follows from those invariants and from what the reads, and    *)
(* the few other steps that change the map, do.                            *)
(***************************************************************************)
EXTENDS RescueProps, BlockMapProofs

USE SizesAssumption, OptionsAssumption, StartsAssumption

-----------------------------------------------------------------------------
(***************************************************************************)
(* Types.                                                                  *)
(***************************************************************************)

\* What the types of the next state depend on beyond the types of this one:
\* which phase each point of the program belongs to.
Control ==
  /\ phase = "ending" => pc \in {"enter", "done"}
  /\ pc = "pass" => phase \in {"copying", "retrying"}
  /\ pc = "sector" => phase \in {"trimming", "scraping"}
  /\ pc = "read" => chunk.pos < chunk.end

\* Every phase is followed by a phase or by the end.
LEMMA NextPhaseType ==
  \A p \in Phases : NextPhase[p] \in Phases \cup {"ending"}
BY DEF Phases, NextPhase

\* The counters of a map are counted from scratch.
LEMMA InitializeType ==
  ASSUME NEW m, IsMap(m), NEW d
  PROVE  IsBook(initialize_sizes(m, d)) /\ initialize_sizes(m, d).map = m
BY CountsAreInts DEF IsBook, initialize_sizes

\* Changing the status of a chunk keeps the map a map of the same size.
LEMMA ChangeType ==
  ASSUME NEW bk, IsBook(bk), NEW d, NEW b, IsChunk(b), b.pos < b.end,
         b.pos < bk.map.end, NEW s \in Status
  PROVE  /\ IsBook(change_chunk_status(bk, d, b, s))
         /\ change_chunk_status(bk, d, b, s).map = change_chunk(bk.map, d, b, s)
<1>1. IsMap(bk.map)
  BY DEF IsBook
<1>2. bk.map.st[b.pos] \in Status
  BY <1>1, MapTypes DEF IsChunk
<1>3. area_adjust(bk.map, d, b, s) \in Int
  BY DEF area_adjust
<1>4. IsMap(change_chunk(bk.map, d, b, s))
  BY <1>1, ChangeChunkIsMap
<1>5. CASE s = bk.map.st[b.pos]
  BY <1>5 DEF change_chunk_status, change_chunk
<1>6. CASE s # bk.map.st[b.pos]
  BY <1>2, <1>3, <1>4, <1>6 DEF change_chunk_status, IsBook, IsChunk
<1> QED BY <1>5, <1>6

\* The first state has the types.
LEMMA InitType == Init => TypeOK /\ Control
<1> SUFFICES ASSUME Init PROVE TypeOK /\ Control
  OBVIOUS
<1>1. PICK s \in Starts : /\ book = initialize_sizes(s.map, s.dom)
                          /\ dom = s.dom /\ cur = s.cur
                          /\ disk = [map |-> s.map, cur |-> s.cur]
  BY DEF Init
<1>2. IsMap(s.map) /\ dom \subseteq Nat /\ IsCur(cur)
  BY <1>1 DEF IsStart
<1>3. IsBook(book)
  BY <1>1, <1>2, InitializeType
<1>4. Positions(map) \subseteq Nat
  BY <1>3, MapTypes DEF IsBook, map, Positions
<1>5. pending \subseteq Phases /\ opts \subseteq RbOptions
  BY DEF Init, Phases
<1>6. disk = [map |-> disk.map, cur |-> disk.cur] /\ IsMap(disk.map) /\ IsCur(disk.cur)
  BY <1>1, <1>2
<1>7. outfile \subseteq Nat /\ synced \subseteq Nat
  BY <1>4 DEF Init
<1>8. /\ phase \in Phases \cup {"ending"} /\ phase # "ending"
      /\ pc \in {"enter", "pass", "find", "read", "after", "sector", "done", "aborted"}
      /\ pc = "enter"
  BY DEF Init, Phases
<1>9. /\ pass \in Nat \ {0} /\ first_pass \in Nat \ {0}
      /\ pos \in Nat /\ eskip_size \in Nat
      /\ i \in Nat /\ stop \in Nat /\ edge \in {"lead", "trail"}
      /\ chunk \in [pos : Nat, end : Nat]
      /\ e_code \subseteq AllLimits \cup {"bad_areas"} /\ retval \in {-2, -1, 0, 1}
  BY DEF Init
<1>10. Flags
  BY Zenon DEF Init, Flags
<1> QED BY <1>2, <1>3, <1>5, <1>6, <1>7, <1>8, <1>9, <1>10
        DEF TypeOK, Values, Control

\* The flags stay flags.
LEMMA FlagsStep == Flags /\ [Next]_vars => Flags'
<1> SUFFICES ASSUME Flags, [Next]_vars PROVE Flags'
  OBVIOUS
<1> USE DEF Flags
<1>1. CASE UNCHANGED vars
  BY <1>1, Zenon DEF vars, passVars, scanVars, edgeVars, readVars
<1>2. CASE SkipPhase \/ EnterCopying \/ EnterSectors \/ EnterRetrying
  BY <1>2, Zenon DEF SkipPhase, EnterCopying, EnterSectors, EnterRetrying, passVars,
     scanVars, edgeVars, readVars
<1>3. CASE StartPass \/ SkipPass \/ PassesDone \/ ScanChunk \/ EndPass
  BY <1>3, Zenon DEF StartPass, SkipPass, PassesDone, ScanChunk, EndPass, passVars,
     scanVars, edgeVars, readVars
<1>4. CASE ReadRefused \/ Interrupted \/ WriteFailed \/ InternalError
  BY <1>4, Zenon DEF ReadRefused, Interrupted, WriteFailed, InternalError, Reading,
     Post, passVars, scanVars, edgeVars, readVars
<1>5. CASE ReadGood \/ ReadBad \/ ReadEof
  <2>1. Post /\ UNCHANGED <<passVars, scanVars, edgeVars>>
    BY <1>5, Zenon DEF ReadGood, ReadBad, ReadEof
  <2>2. /\ res' = [copied |-> res'.copied, error |-> res'.error]
        /\ res'.copied \in BOOLEAN /\ res'.error \in BOOLEAN
    <3>1. CASE ReadGood
      BY <3>1, Zenon DEF ReadGood
    <3>2. CASE ReadBad
      <4>1. PICK k \in 0 .. Avail : res' = [copied |-> k > 0, error |-> TRUE]
        BY <3>2 DEF ReadBad
      <4>2. (k > 0) \in BOOLEAN
        OBVIOUS
      <4> QED BY <4>1, <4>2, Zenon
    <3>3. CASE ReadEof
      <4>1. res' = [copied |-> Avail > 0, error |-> FALSE]
        BY <3>3, Zenon DEF ReadEof
      <4>2. (Avail > 0) \in BOOLEAN
        OBVIOUS
      <4> QED BY <4>1, <4>2, Zenon
    <3> QED BY <1>5, <3>1, <3>2, <3>3
  <2> QED BY <2>1, <2>2, Zenon DEF Post, passVars, scanVars, edgeVars
<1>6. CASE AfterCopy \/ AfterCopyFails \/ AfterRetry \/ AfterSector
  BY <1>6, Zenon DEF AfterCopy, AfterCopyFails, AfterRetry, AfterSector, passVars,
     scanVars, edgeVars, readVars
<1>7. CASE LeaveBlock \/ TakeBlock \/ BlocksDone \/ LeadSector \/ TrailSector \/ BlockDone
  BY <1>7, Zenon DEF LeaveBlock, TakeBlock, BlocksDone, LeadSector, TrailSector,
     BlockDone, BadAfter, passVars, scanVars, edgeVars, readVars
<1>8. CASE EndMapfileError \/ End
  BY <1>8, Zenon DEF EndMapfileError, End, passVars, scanVars, edgeVars, readVars
<1> QED BY <1>1, <1>2, <1>3, <1>4, <1>5, <1>6, <1>7, <1>8, Zenon
        DEF Next, Rescuing, Exited

\* The values read from the map: the chunks found lie in it.
LEMMA ChunkFromType ==
  ASSUME Values, NEW p \in Nat, NEW len \in Nat \ {0}, NEW align \in Nat \ {0},
         NEW edges, NEW b \in ChunkFrom(p, len, align, edges)
  PROVE  /\ IsChunk(b) /\ b.pos < b.end /\ b.end <= map.end
         /\ IF Forward THEN p <= b.pos ELSE b.end <= p
         /\ Uniform(map) => Ready(map, dom, b, PassStatus)
<1>1. IsMap(map)
  BY DEF Values, IsBook, map
<1>2. CASE Forward
  BY <1>1, <1>2, FindChunk DEF ChunkFrom
<1>3. CASE ~Forward
  BY <1>1, <1>3, RfindChunk DEF ChunkFrom
<1> QED BY <1>2, <1>3

\* Where a chunk begins and ends in the direction of the pass is a position.
LEMMA NearFarType ==
  ASSUME NEW b, IsChunk(b)
  PROVE  near(b) \in Nat /\ far(b) \in Nat
BY DEF near, far, IsChunk

\* A pass resumes at a position.
LEMMA ResumeAtType ==
  ASSUME Values
  PROVE  \A b \in ResumeAt : near(b) \in Nat
<1>1. cur.pos \in Nat /\ 1 \in Nat \ {0} /\ HardBS \in Nat \ {0}
  BY DEF Values, IsCur
<1>2. \A b \in ChunkFrom(cur.pos, 1, HardBS, FALSE) : IsChunk(b)
  BY <1>1, ChunkFromType, Zenon
<1>3. ResumeAt \subseteq ChunkFrom(cur.pos, 1, HardBS, FALSE)
  BY DEF ResumeAt
<1> QED BY <1>2, <1>3, NearFarType

\* The values keep their types when a phase or a pass begins or ends.
LEMMA PassStep ==
  ASSUME Values, Control,
         \/ SkipPhase \/ EnterCopying \/ EnterSectors \/ EnterRetrying
         \/ StartPass \/ SkipPass \/ PassesDone \/ ScanChunk \/ EndPass
  PROVE  Values' /\ Control'
<1> USE NextPhaseType DEF Values, Control, runVars, passVars, scanVars, edgeVars, readVars, errVars,
        fileVars, PhaseDone
<1>1. CASE SkipPhase
  BY <1>1 DEF SkipPhase, Errors
<1>2. CASE EnterCopying
  BY <1>2 DEF EnterCopying, IsCur
<1>3. CASE EnterSectors
  BY <1>3 DEF EnterSectors
<1>4. CASE EnterRetrying
  BY <1>4 DEF EnterRetrying
<1>5. CASE StartPass
  <2>1. pos' \in Nat
    <3>1. \A b \in ResumeAt : near(b) \in Nat
      BY ResumeAtType
    <3>2. map.end \in Nat
      BY MapTypes DEF IsBook, map
    <3> QED BY <1>5, <3>1, <3>2 DEF StartPass
  <2> QED BY <1>5, <2>1 DEF StartPass
<1>6. CASE SkipPass
  BY <1>6 DEF SkipPass
<1>7. CASE PassesDone
  BY <1>7 DEF PassesDone
<1>8. CASE ScanChunk
  <2>1. ReadSize \in Nat \ {0}
    BY DEF ReadSize
  <2>2. PICK b \in ChunkFrom(pos, ReadSize, ReadSize, AtEdges) :
          /\ chunk' = b /\ pos' = far(b)
          /\ eskip_size' = IF near(b) = pos THEN eskip_size ELSE SkipBS
    BY <1>8 DEF ScanChunk
  <2>3. IsChunk(b) /\ b.pos < b.end /\ far(b) \in Nat
    BY <2>1, <2>2, ChunkFromType, NearFarType
  <2> QED BY <1>8, <2>2, <2>3 DEF ScanChunk, IsChunk
<1>9. CASE EndPass
  BY <1>9 DEF EndPass
<1> QED BY <1>1, <1>2, <1>3, <1>4, <1>5, <1>6, <1>7, <1>8, <1>9

\* What lies before EOF is a part of the chunk that is read.
LEMMA AvailType ==
  ASSUME IsChunk(chunk), chunk.pos < chunk.end
  PROVE  /\ Avail \in Nat /\ Avail <= chunk.end - chunk.pos
         /\ chunk.pos + Avail \in Nat /\ chunk.end - chunk.pos \in Nat
         /\ Avail > 0 => Avail = chunk.end - chunk.pos \/ chunk.pos + Avail = InEnd
         /\ Avail < chunk.end - chunk.pos => InEnd <= chunk.pos + Avail
BY DEF Avail, IsChunk, Larger, Smaller

\* The parts of the chunk before and after k are chunks.
LEMMA HeadTailType ==
  ASSUME IsChunk(chunk), NEW k \in Nat, k <= chunk.end - chunk.pos
  PROVE  /\ IsChunk(Head(k)) /\ IsChunk(Tail(k))
         /\ Head(k).pos = chunk.pos /\ Head(k).end = chunk.pos + k
         /\ Tail(k).pos = chunk.pos + k /\ Tail(k).end = chunk.end
BY DEF Head, Tail, IsChunk

\* Marking as finished what was copied keeps the book a book.
LEMMA CopiedType ==
  ASSUME NEW bk, IsBook(bk), NEW d, IsChunk(chunk), chunk.pos < bk.map.end,
         NEW k \in Nat, k <= chunk.end - chunk.pos
  PROVE  IsBook(Copied(bk, d, k)) /\ Copied(bk, d, k).map.end = bk.map.end
<1>1. CASE k > 0
  <2>1. IsChunk(Head(k)) /\ Head(k).pos < Head(k).end /\ Head(k).pos < bk.map.end
    BY <1>1, HeadTailType DEF IsChunk
  <2>2. "finished" \in Status
    BY DEF Status
  <2>3. IsMap(bk.map)
    BY DEF IsBook
  <2> QED BY <1>1, <2>1, <2>2, <2>3, ChangeType, ChangeChunkIsMap DEF Copied
<1>2. CASE ~(k > 0)
  BY <1>2 DEF Copied
<1> QED BY <1>1, <1>2

\* Posting a read records its position, its phase and its pass.
LEMMA PostType ==
  ASSUME Values, Control, pc = "read", Post
  PROVE  IsCur(cur')
BY DEF Values, Control, Post, IsCur

\* What is written to the output file is a part of the chunk.
LEMMA WrittenType ==
  ASSUME Values, NEW k \in Nat, k <= chunk.end - chunk.pos
  PROVE  Written(k) \subseteq Nat
BY HeadTailType DEF Values, Written, Chunk, IsChunk

\* The values keep their types when a chunk is read.
LEMMA ReadStep ==
  ASSUME Values, Control,
         \/ ReadRefused \/ Interrupted \/ WriteFailed \/ ReadGood \/ ReadBad
         \/ ReadEof \/ InternalError
  PROVE  Values' /\ Control'
<1>1. pc = "read" /\ Post
  BY DEF ReadRefused, Interrupted, WriteFailed, ReadGood, ReadBad, ReadEof,
         InternalError, Reading
<1>2. IsCur(cur')
  BY <1>1, PostType
<1>3. IsChunk(chunk) /\ chunk.pos < chunk.end /\ phase \in Phases
  BY <1>1 DEF Values, Control, IsChunk
<1>4. /\ Avail \in Nat /\ Avail <= chunk.end - chunk.pos
      /\ chunk.pos + Avail \in Nat
  BY <1>3, AvailType
<1>5. \A k \in 0 .. Avail : Written(k) \subseteq Nat
  BY <1>3, <1>4, WrittenType DEF IsChunk
<1>6. IsMap(map)
  BY DEF Values, IsBook, map
<1> USE DEF runVars, passVars, scanVars, edgeVars, errVars
<1>7. CASE ReadRefused
  BY <1>2, <1>7 DEF ReadRefused, Return, Errors, readVars, fileVars, Values, Control
<1>8. CASE Interrupted
  BY <1>2, <1>8 DEF Interrupted, Return, readVars, fileVars, Values, Control
<1>9. CASE WriteFailed
  <2>1. outfile' \subseteq Nat
    BY <1>5, <1>9 DEF WriteFailed
  <2> QED BY <1>2, <1>9, <2>1 DEF WriteFailed, Return, readVars, Values, Control
<1>10. CASE InternalError
  <2>1. outfile' \subseteq Nat
    BY <1>5, <1>10 DEF InternalError
  <2> QED BY <1>2, <1>3, <1>10, <2>1 DEF InternalError, readVars, Values, Control, Phases
<1>11. CASE ReadGood
  <2>1. outfile' \subseteq Nat
    BY <1>4, <1>5, <1>11 DEF ReadGood
  <2>2. IsBook(book')
    BY <1>3, <1>4, <1>11, CopiedType DEF ReadGood, CanChange, Values, map
  <2> QED BY <1>2, <1>3, <1>11, <2>1, <2>2 DEF ReadGood, Values, Control, Phases
<1>12. CASE ReadBad
  <2>1. PICK k \in 0 .. Avail, e \in SUBSET (Limits \cap ReadLimits), gone \in BOOLEAN :
          /\ k < chunk.end - chunk.pos
          /\ book' = change_chunk_status(Copied(book, dom, k), dom, Tail(k),
                                         FailedStatus(Tail(k)))
          /\ outfile' = Written(k)
          /\ e_code' = e_code \cup e
          /\ IF gone \/ "read_errors" \in e THEN Return(1)
             ELSE pc' = "after" /\ UNCHANGED <<phase, retval>>
    BY <1>12 DEF ReadBad, Written
  <2>2. IsBook(Copied(book, dom, k)) /\ Copied(book, dom, k).map.end = map.end
    BY <1>3, <1>4, <1>12, CopiedType DEF ReadBad, CanChange, Values, map
  <2>3. FailedStatus(Tail(k)) \in Status
    BY DEF FailedStatus, Status
  <2>4. IsBook(book')
    <3>1. chunk.end - 1 \in Positions(map)
      BY <1>3, <1>12 DEF ReadBad, CanChange, Block, Chunk, IsChunk
    <3>2. chunk.end <= map.end /\ map.end \in Nat
      BY <1>3, <1>6, <3>1, MapTypes DEF IsChunk
    <3>3. IsChunk(Tail(k)) /\ Tail(k).pos < Tail(k).end /\ Tail(k).pos < map.end
      BY <1>3, <1>4, <2>1, <3>2, HeadTailType DEF IsChunk
    <3> QED BY <2>1, <2>2, <2>3, <3>3, ChangeType
  <2>5. outfile' \subseteq Nat
    BY <1>5, <2>1
  <2>6. e_code' \subseteq AllLimits \cup {"bad_areas"}
    BY <2>1 DEF Values
  <2>7. /\ retval' \in {-2, -1, 0, 1}
        /\ \/ pc' = "after" /\ phase' = phase
           \/ pc' = "enter" /\ phase' = "ending"
    BY <2>1 DEF Values, Return
  <2> QED BY <1>2, <1>3, <1>12, <2>4, <2>5, <2>6, <2>7
          DEF ReadBad, Values, Control, Phases
<1>13. CASE ReadEof
  <2>1. outfile' \subseteq Nat
    BY <1>4, <1>5, <1>13 DEF ReadEof
  <2>2. dom' \subseteq Nat
    BY <1>13 DEF ReadEof, EofDom, Values
  <2>3. IsBook(EofBook)
    BY <1>4, <1>6, TruncateIsMap, InitializeType DEF EofBook
  <2>4. IsBook(book')
    <3>1. book' = Copied(EofBook, EofDom, Avail)
      BY <1>13 DEF ReadEof
    <3>2. CASE Avail > 0
      <4>1. chunk.pos < EofBook.map.end
        BY <1>13, <3>2 DEF ReadEof, CanChange, Head
      <4> QED BY <1>3, <1>4, <2>3, <3>1, <4>1, CopiedType
    <3>3. CASE ~(Avail > 0)
      BY <2>3, <3>1, <3>3 DEF Copied
    <3> QED BY <3>2, <3>3
  <2>5. /\ retval' \in {-2, -1, 0, 1}
        /\ \/ pc' = "after" /\ phase' = phase
           \/ pc' = "enter" /\ phase' = "ending"
    BY <1>13 DEF ReadEof, Values, Return
  <2> QED BY <1>2, <1>3, <1>13, <2>1, <2>2, <2>4, <2>5
          DEF ReadEof, Values, Control, Phases
<1> QED BY <1>7, <1>8, <1>9, <1>10, <1>11, <1>12, <1>13

\* A save records the map and the status line it is given.
LEMMA SaveType ==
  ASSUME Values, NEW m, IsMap(m), NEW c, IsCur(c), NEW r \in SaveResults,
         update_mapfile(m, c, r)
  PROVE  /\ synced' \subseteq Nat
         /\ disk' = [map |-> disk'.map, cur |-> disk'.cur]
         /\ IsMap(disk'.map) /\ IsCur(disk'.cur)
<1>1. CASE r = "not_due"
  BY <1>1 DEF update_mapfile, Values
<1>2. CASE r = "saved"
  BY <1>2 DEF update_mapfile, Values
<1>3. CASE r = "failed"
  BY <1>3 DEF update_mapfile, Values
<1> QED BY <1>1, <1>2, <1>3 DEF SaveResults

\* The time limits and the periodic save keep the types.
LEMMA RatesAndSaveType ==
  ASSUME Values, NEW next, RatesAndSave(next), pc = "after", Control
  PROVE  /\ e_code' \subseteq AllLimits \cup {"bad_areas"} /\ retval' \in {-2, -1, 0, 1}
         /\ \/ pc' = next /\ phase' = phase
            \/ pc' = "enter" /\ phase' = "ending"
         /\ synced' \subseteq Nat
         /\ disk' = [map |-> disk'.map, cur |-> disk'.cur]
         /\ IsMap(disk'.map) /\ IsCur(disk'.cur)
<1>1. PICK e \in SUBSET (Limits \cap TimeLimits), r \in Saves :
        /\ e_code' = e_code \cup e
        /\ update_mapfile(map, cur, r)
        /\ IF r = "failed" THEN Return(-2)
           ELSE pc' = next /\ UNCHANGED <<phase, retval>>
  BY DEF RatesAndSave
<1>2. e_code' \subseteq AllLimits \cup {"bad_areas"}
  BY <1>1 DEF Values
<1>3. /\ retval' \in {-2, -1, 0, 1}
      /\ \/ pc' = next /\ phase' = phase
         \/ pc' = "enter" /\ phase' = "ending"
  BY <1>1 DEF Values, Return
<1>4. IsMap(map) /\ IsCur(cur) /\ r \in SaveResults
  BY DEF Values, IsBook, map
<1> QED BY <1>1, <1>2, <1>3, <1>4, SaveType

\* Where a skip leads is a position.
LEMMA SkipType ==
  ASSUME Values
  PROVE  /\ \A size \in Nat : Doubled(size) \in Nat
         /\ SkipSizes \subseteq Nat
         /\ \A len \in Nat : SkipTo(len) \subseteq Nat
<1>1. \A size \in Nat : Doubled(size) \in Nat
  BY DEF Doubled
<1>2. SkipSizes \subseteq Nat
  BY MapTypes DEF SkipSizes, Values, IsBook, map, Larger
<1>3. ASSUME NEW len \in Nat PROVE SkipTo(len) \subseteq Nat
  <2>1. CASE len = 0
    BY <2>1 DEF SkipTo
  <2>2. CASE len # 0
    <3>1. len \in Nat \ {0} /\ HardBS \in Nat \ {0} /\ pos \in Nat
      BY <2>2 DEF Values
    <3>2. \A b \in ChunkFrom(pos, len, HardBS, FALSE) : IsChunk(b)
      BY <3>1, ChunkFromType, Zenon
    <3> QED BY <2>2, <3>2, NearFarType DEF SkipTo
  <2> QED BY <2>1, <2>2
<1> QED BY <1>1, <1>2, <1>3

\* The values keep their types after a read.
LEMMA AfterStep ==
  ASSUME Values, Control,
         AfterCopy \/ AfterCopyFails \/ AfterRetry \/ AfterSector
  PROVE  Values' /\ Control'
<1> USE DEF runVars, passVars, scanVars, edgeVars, readVars, fileVars
<1>1. pc = "after" /\ phase \in Phases
  BY DEF AfterCopy, AfterCopyFails, AfterRetry, AfterSector, Phases
<1>2. CASE AfterCopy
  <2>1. RatesAndSave("find")
    BY <1>2 DEF AfterCopy
  <2>2. pos' \in Nat /\ eskip_size' \in Nat
    <3>1. PICK slow \in SlowReads :
            IF MaySkip(slow) /\ SkipBS > 0 /\ pass <= 4
            THEN /\ \E len \in SkipSizes :
                      pos' \in IF SkipTo(len) = {} THEN {pos} ELSE SkipTo(len)
                 /\ eskip_size' = IF res.error /\ pass = 1 THEN Doubled(eskip_size)
                                  ELSE eskip_size
            ELSE /\ pos' = pos
                 /\ eskip_size' = IF ~MaySkip(slow) /\ ~res.error /\ res.copied
                                  THEN SkipBS ELSE eskip_size
      BY <1>2 DEF AfterCopy
    <3>2. pos \in Nat /\ eskip_size \in Nat
      BY DEF Values
    <3> QED BY <3>1, <3>2, SkipType
  <2> QED BY <1>1, <1>2, <2>1, <2>2, RatesAndSaveType
          DEF AfterCopy, Values, Control, Phases
<1>3. CASE AfterCopyFails
  <2>1. e_code' \subseteq AllLimits \cup {"bad_areas"}
    BY <1>3 DEF AfterCopyFails, Values, AllLimits
  <2> QED BY <1>3, <2>1 DEF AfterCopyFails, Return, Values, Control
<1>4. CASE AfterRetry
  <2>1. RatesAndSave("find")
    BY <1>4 DEF AfterRetry
  <2> QED BY <1>1, <1>4, <2>1, RatesAndSaveType
          DEF AfterRetry, Values, Control, Phases
<1>5. CASE AfterSector
  <2>1. RatesAndSave("sector")
    BY <1>5 DEF AfterSector
  <2>2. edge' \in {"lead", "trail"}
    BY <1>5 DEF AfterSector, Values
  <2> QED BY <1>1, <1>5, <2>1, <2>2, RatesAndSaveType
          DEF AfterSector, Values, Control, Phases
<1> QED BY <1>2, <1>3, <1>4, <1>5

\* The next block to trim or to scrape is a block of the map, in the domain.
LEMMA NextBlockType ==
  ASSUME Values, NEW c \in NextBlock
  PROVE  /\ c \in map.cuts /\ c \in Nat /\ c \in Positions(map) /\ Index(c) \in Nat
         /\ map.st[c] = BlockStatus /\ InDomain(map, c, dom)
<1>1. /\ c \in map.cuts /\ IsMap(map)
      /\ map.st[c] = BlockStatus /\ InDomain(map, c, dom)
  BY DEF NextBlock, NextOf, First, Last, Values, IsBook, map
<1>2. Index(c) \in Nat
  BY <1>1, CutsCount DEF Index
<1> QED BY <1>1, <1>2, MapTypes


\* The values keep their types in the loops over blocks and sectors.
LEMMA SectorStep ==
  ASSUME Values, Control,
         \/ LeaveBlock \/ TakeBlock \/ BlocksDone \/ LeadSector \/ TrailSector
         \/ BlockDone
  PROVE  Values' /\ Control'
<1> USE DEF runVars, passVars, scanVars, errVars, fileVars
<1>1. IsMap(map) /\ phase \in Phases /\ IsChunk([pos |-> pos, end |-> stop])
  BY DEF Values, IsBook, map, LeaveBlock, TakeBlock, BlocksDone, LeadSector,
         TrailSector, BlockDone, Control, Phases, IsChunk
<1>2. CASE LeaveBlock
  <2>1. PICK c \in NextBlock :
          /\ book' = [book EXCEPT !.map = change_sblock_status(map, c, "non_scraped")]
          /\ i' = Index(c) + 1
    BY <1>2 DEF LeaveBlock
  <2>2. IsBook(book')
    <3>1. IsMap(change_sblock_status(map, c, "non_scraped"))
      BY <1>1, ChangeSblockIsMap DEF Status
    <3> QED BY <2>1, <3>1 DEF Values, IsBook
  <2>3. i' \in Nat
    BY <2>1, NextBlockType
  <2> QED BY <1>2, <2>2, <2>3 DEF LeaveBlock, readVars, Values, Control
<1>3. CASE TakeBlock
  <2>1. PICK c \in NextBlock :
          /\ i' = Index(c) /\ pos' = c /\ stop' \in BlockEnd(map, c)
          /\ edge' = IF phase = "trimming" /\ BadBefore(c) THEN "trail" ELSE "lead"
    BY <1>3 DEF TakeBlock
  <2>2. i' \in Nat /\ pos' \in Nat
    BY <2>1, NextBlockType
  <2>3. stop' \in Nat
    BY <1>1, <2>1, MapTypes DEF BlockEnd
  <2> QED BY <1>3, <2>1, <2>2, <2>3 DEF TakeBlock, readVars, Values, Control
<1>4. CASE BlocksDone
  BY <1>4, NextPhaseType DEF BlocksDone, PhaseDone, edgeVars, readVars, Values, Control
<1>5. CASE LeadSector
  <2> DEFINE e == Smaller(pos + HardBS, stop)
             b == [pos |-> pos, end |-> e]
  <2>1. /\ chunk' = IF e = stop THEN b ELSE align_end(b, HardBS)
        /\ pos' = chunk'.end /\ pos < stop
    BY <1>5 DEF LeadSector
  <2>2. pos \in Nat /\ e \in Nat /\ pos < e
    BY <2>1 DEF Values, Smaller
  <2>3. IsChunk(chunk') /\ chunk'.pos < chunk'.end
    <3> HIDE DEF e
    <3>1. IsChunk(b) /\ b.pos < b.end
      BY <2>2 DEF IsChunk
    <3>2. IsChunk(align_end(b, HardBS)) /\ align_end(b, HardBS).pos < align_end(b, HardBS).end
      BY <2>2, AlignEnd
    <3> QED BY <2>1, <3>1, <3>2
  <2> QED BY <1>1, <1>5, <2>1, <2>3 DEF LeadSector, edgeVars, IsChunk, Values, Control, Phases
<1>6. CASE TrailSector
  <2> DEFINE p == Larger(pos, stop - HardBS)
             b == [pos |-> p, end |-> stop]
  <2>1. /\ chunk' = IF p = pos THEN b ELSE align_pos(b, HardBS)
        /\ stop' = chunk'.pos /\ pos < stop
    BY <1>6 DEF TrailSector
  <2>2. stop \in Nat /\ p \in Nat /\ p < stop
    BY <2>1 DEF Values, Larger
  <2>3. IsChunk(chunk') /\ chunk'.pos < chunk'.end
    <3> HIDE DEF p
    <3>1. IsChunk(b) /\ b.pos < b.end
      BY <2>2 DEF IsChunk
    <3>2. IsChunk(align_pos(b, HardBS)) /\ align_pos(b, HardBS).pos < align_pos(b, HardBS).end
      BY <2>2, AlignPos
    <3> QED BY <2>1, <3>1, <3>2
  <2> QED BY <1>1, <1>6, <2>1, <2>3 DEF TrailSector, IsChunk, Values, Control, Phases
<1>7. CASE BlockDone
  <2>1. IsBook(book')
    <3>1. CASE book' = book
      BY <3>1 DEF Values
    <3>2. CASE \E b \in RestOfBlock : book' = change_chunk_status(book, dom, b, "non_scraped")
      <4>1. PICK b \in RestOfBlock : book' = change_chunk_status(book, dom, b, "non_scraped")
        BY <3>2
      <4>2. stop - 1 \in Positions(map)
        BY <1>1, <4>1, MapTypes DEF RestOfBlock, IsChunk
      <4>3. PICK c \in BlockStart(map, stop - 1), e \in BlockEnd(map, stop - 1) :
              b = [pos |-> c, end |-> e]
        BY <4>1 DEF RestOfBlock
      <4>4. IsChunk(b) /\ b.pos < b.end /\ b.pos < map.end
        BY <1>1, <4>2, <4>3, BlockShape, MapTypes DEF IsChunk
      <4> QED BY <4>1, <4>4, ChangeType DEF Values, Status, map
    <3> QED BY <1>7, <3>1, <3>2 DEF BlockDone
  <2> QED BY <1>1, <1>7, <2>1 DEF BlockDone, edgeVars, readVars, Values, Control, Phases
<1> QED BY <1>2, <1>3, <1>4, <1>5, <1>6, <1>7

\* The values keep their types at the end of the run.
LEMMA EndStep ==
  ASSUME Values, Control, EndMapfileError \/ End
  PROVE  Values' /\ Control'
<1> USE DEF runVars, passVars, scanVars, edgeVars, readVars, fileVars
<1>1. CASE EndMapfileError
  BY <1>1 DEF EndMapfileError, Values, Control
<1>2. CASE End
  <2>1. IsMap(compact(map)) /\ IsCur(cur')
    BY <1>2, CompactIsMap DEF End, Values, IsBook, map, IsCur
  <2>2. IsBook(book')
    BY <1>2, <2>1 DEF End, Values, IsBook
  <2>3. PICK late \in SUBSET (Limits \cap TimeLimits) :
          /\ e_code' = (IF retval = 1 THEN e_code ELSE Errors) \cup late
          /\ \E result \in {"saved"} \cup (Saves \ {"not_due"}) :
               /\ update_mapfile(compact(map), cur', result)
               /\ retval' = IF retval = 1 \/ Errors \cup late # {} \/ result = "failed"
                            THEN 1 ELSE retval
    BY <1>2 DEF End
  <2>4. e_code' \subseteq AllLimits \cup {"bad_areas"}
    BY <2>3 DEF Values, Errors
  <2>5. PICK r \in {"saved"} \cup (Saves \ {"not_due"}) :
          /\ update_mapfile(compact(map), cur', r)
          /\ retval' \in {1, retval}
    BY <2>3
  <2>6. /\ synced' \subseteq Nat
        /\ disk' = [map |-> disk'.map, cur |-> disk'.cur]
        /\ IsMap(disk'.map) /\ IsCur(disk'.cur)
    BY <2>1, <2>5, SaveType DEF SaveResults
  <2> QED BY <1>2, <2>1, <2>2, <2>4, <2>5, <2>6 DEF End, Values, Control
<1> QED BY <1>1, <1>2

\* Every step keeps the types, and what they depend on.
LEMMA TypesStep == TypeOK /\ Control /\ [Next]_vars => (TypeOK /\ Control)'
<1> SUFFICES ASSUME TypeOK, Control, [Next]_vars PROVE (TypeOK /\ Control)'
  OBVIOUS
<1>1. Flags'
  BY FlagsStep DEF TypeOK
<1>2. Values' /\ Control'
  <2>1. CASE UNCHANGED vars
    BY <2>1 DEF vars, runVars, passVars, scanVars, edgeVars, readVars, errVars,
                fileVars, TypeOK, Values, Control
  <2>2. CASE Rescuing
    BY <2>2, PassStep, ReadStep, AfterStep, SectorStep, EndStep DEF TypeOK, Rescuing
  <2> QED BY <2>1, <2>2 DEF Next, Exited
<1> QED BY <1>1, <1>2 DEF TypeOK

\* The variables always hold values of their types, whatever the options, the
\* drive, the limits and the saves do.
THEOREM Types == Spec => []TypeOK
BY InitType, TypesStep, PTL DEF Spec

-----------------------------------------------------------------------------
(***************************************************************************)
(* What is called rescued was written, what is saved as rescued was synced.*)
(***************************************************************************)
FinishedIn(m) == {p \in Positions(m) : m.st[p] = "finished"}

\* SavedIsSynced is inductive together with RescuedIsWritten (which a save makes
\* true of the disc) and with the order of the two sets of positions.
Saved == /\ FinishedIn(map) \subseteq outfile
         /\ synced \subseteq outfile
         /\ FinishedIn(disk.map) \subseteq synced

\* Changing a chunk finishes at most the chunk.
LEMMA FinishedByChange ==
  ASSUME NEW bk, NEW d, NEW b, NEW s
  PROVE  LET mm == change_chunk_status(bk, d, b, s).map IN
         /\ FinishedIn(mm) \subseteq FinishedIn(bk.map) \cup Chunk(b)
         /\ s # "finished" => FinishedIn(mm) \subseteq FinishedIn(bk.map)
BY DEF FinishedIn, change_chunk_status, change_chunk, Positions

\* A copied head adds what was written.
LEMMA FinishedByCopy ==
  ASSUME NEW bk, NEW d, NEW k, FinishedIn(bk.map) \subseteq outfile
  PROVE  FinishedIn(Copied(bk, d, k).map) \subseteq Written(k)
BY FinishedByChange DEF Copied, Written

\* Cutting off the map, or counting it again, finishes nothing.
LEMMA FinishedByTruncation ==
  ASSUME NEW m, IsMap(m), NEW end \in Nat
  PROVE  FinishedIn(truncate_vector(m, end)) \subseteq FinishedIn(m)
BY TruncateSound DEF FinishedIn

LEMMA SavedInit == Init => Saved
<1> SUFFICES ASSUME Init PROVE Saved
  OBVIOUS
<1>1. PICK s \in Starts : /\ book = initialize_sizes(s.map, s.dom)
                          /\ disk = [map |-> s.map, cur |-> s.cur]
  BY DEF Init
<1>2. map = s.map /\ disk.map = map
  BY <1>1 DEF map, initialize_sizes
<1>3. outfile = FinishedIn(map) /\ synced = outfile
  BY DEF Init, FinishedIn
<1> QED BY <1>2, <1>3 DEF Saved

\* A save of a map of what was written.
LEMMA SavedBySave ==
  ASSUME Saved, NEW m, FinishedIn(m) \subseteq outfile, NEW c, NEW r \in SaveResults,
         update_mapfile(m, c, r), UNCHANGED outfile
  PROVE  synced' \subseteq outfile' /\ FinishedIn(disk'.map) \subseteq synced'
<1>1. CASE r = "not_due"
  BY <1>1 DEF update_mapfile, Saved
<1>2. CASE r = "saved"
  BY <1>2 DEF update_mapfile, Saved
<1>3. CASE r = "failed"
  BY <1>3 DEF update_mapfile, Saved
<1> QED BY <1>1, <1>2, <1>3 DEF SaveResults

\* A read writes before it finishes.
LEMMA SavedByRead ==
  ASSUME Values, Control, Saved,
         \/ ReadRefused \/ Interrupted \/ WriteFailed \/ ReadGood \/ ReadBad
         \/ ReadEof \/ InternalError
  PROVE  Saved'
<1>1. /\ \A k : outfile \subseteq Written(k)
      /\ IsMap(map) /\ FinishedIn(map) \subseteq outfile
  BY DEF Written, Saved, Values, IsBook, map
<1>2. UNCHANGED <<synced, disk>>
  BY DEF ReadRefused, Interrupted, WriteFailed, ReadGood, ReadBad, ReadEof,
         InternalError, fileVars
<1>3. CASE ReadRefused \/ Interrupted \/ WriteFailed \/ InternalError
  <2>1. book' = book /\ (outfile' = outfile \/ \E k \in 0 .. Avail : outfile' = Written(k))
    BY <1>3 DEF ReadRefused, Interrupted, WriteFailed, InternalError, fileVars
  <2> QED BY <1>1, <1>2, <2>1 DEF Saved, map
<1>4. CASE ReadGood
  <2>1. book' = Copied(book, dom, Avail) /\ outfile' = Written(Avail)
    BY <1>4 DEF ReadGood
  <2> QED BY <1>1, <1>2, <2>1, FinishedByCopy DEF Saved, map
<1>5. CASE ReadBad
  <2>1. PICK k \in 0 .. Avail :
          /\ book' = change_chunk_status(Copied(book, dom, k), dom, Tail(k),
                                         FailedStatus(Tail(k)))
          /\ outfile' = Written(k)
    BY <1>5 DEF ReadBad
  <2>2. FailedStatus(Tail(k)) # "finished"
    BY DEF FailedStatus
  <2>3. FinishedIn(book'.map) \subseteq FinishedIn(Copied(book, dom, k).map)
    BY <2>1, <2>2, FinishedByChange
  <2>4. FinishedIn(Copied(book, dom, k).map) \subseteq Written(k)
    BY <1>1, FinishedByCopy DEF map
  <2> QED BY <1>1, <1>2, <2>1, <2>3, <2>4 DEF Saved, map
<1>6. CASE ReadEof
  <2>1. book' = Copied(EofBook, EofDom, Avail) /\ outfile' = Written(Avail)
    BY <1>6 DEF ReadEof
  <2>2. FinishedIn(EofBook.map) \subseteq outfile
    <3>1. pc = "read"
      BY <1>6 DEF ReadEof, Reading
    <3>2. chunk.pos + Avail \in Nat
      BY <3>1, AvailType DEF Values, Control, IsChunk
    <3>3. FinishedIn(truncate_vector(map, chunk.pos + Avail)) \subseteq FinishedIn(map)
      BY <1>1, <3>2, FinishedByTruncation
    <3> QED BY <1>1, <3>3 DEF EofBook, initialize_sizes
  <2> QED BY <1>1, <1>2, <2>1, <2>2, FinishedByCopy DEF Saved, map
<1> QED BY <1>3, <1>4, <1>5, <1>6

\* The periodic save and the last one save a map of what was written.
LEMMA SavedByUpdate ==
  ASSUME Values, Saved,
         \/ AfterCopy \/ AfterCopyFails \/ AfterRetry \/ AfterSector
         \/ EndMapfileError \/ End
  PROVE  Saved'
<1>1. CASE AfterCopyFails \/ EndMapfileError
  BY <1>1 DEF AfterCopyFails, EndMapfileError, Saved, fileVars, map
<1>2. CASE AfterCopy \/ AfterRetry \/ AfterSector
  <2>1. UNCHANGED <<book, outfile>>
    BY <1>2 DEF AfterCopy, AfterRetry, AfterSector
  <2>2. PICK r \in Saves : update_mapfile(map, cur, r)
    BY <1>2 DEF AfterCopy, AfterRetry, AfterSector, RatesAndSave
  <2>3. synced' \subseteq outfile' /\ FinishedIn(disk'.map) \subseteq synced'
    BY <2>1, <2>2, SavedBySave DEF Saved
  <2> QED BY <2>1, <2>3 DEF Saved, map
<1>3. CASE End
  <2>1. PICK r \in SaveResults : update_mapfile(compact(map), cur', r)
    BY <1>3 DEF End, SaveResults
  <2>2. FinishedIn(compact(map)) = FinishedIn(map)
    <3>1. IsMap(map)
      BY DEF Values, IsBook, map
    <3> QED BY <3>1, CompactFields DEF FinishedIn, Positions
  <2>3. book' = [book EXCEPT !.map = compact(map)] /\ UNCHANGED outfile
    BY <1>3 DEF End
  <2>4. map' = compact(map)
    BY <2>3 DEF Values, IsBook, map
  <2>5. synced' \subseteq outfile' /\ FinishedIn(disk'.map) \subseteq synced'
    BY <2>1, <2>2, <2>3, SavedBySave DEF Saved
  <2> QED BY <2>2, <2>3, <2>4, <2>5 DEF Saved
<1> QED BY <1>1, <1>2, <1>3

\* The loops finish nothing by themselves.
LEMMA SavedByLoops ==
  ASSUME Values, Saved, Control,
         \/ SkipPhase \/ EnterCopying \/ EnterSectors \/ EnterRetrying
         \/ StartPass \/ SkipPass \/ PassesDone \/ ScanChunk \/ EndPass
         \/ LeaveBlock \/ TakeBlock \/ BlocksDone \/ LeadSector \/ TrailSector
         \/ BlockDone
  PROVE  Saved'
<1>1. UNCHANGED fileVars
  BY DEF SkipPhase, EnterCopying, EnterSectors, EnterRetrying, StartPass, SkipPass,
         PassesDone, ScanChunk, EndPass, LeaveBlock, TakeBlock, BlocksDone,
         LeadSector, TrailSector, BlockDone
<1>2. FinishedIn(map') \subseteq FinishedIn(map)
  <2>1. CASE UNCHANGED book
    BY <2>1 DEF map
  <2>2. CASE LeaveBlock
    <3>1. PICK c : book' = [book EXCEPT !.map = change_sblock_status(map, c, "non_scraped")]
      BY <2>2 DEF LeaveBlock
    <3>2. map' = change_sblock_status(map, c, "non_scraped") /\ IsMap(map)
      BY <3>1 DEF Values, IsBook, map
    <3>3. "non_scraped" \in Status
      BY DEF Status
    <3>4. /\ map'.end = map.end
          /\ map'.st = [p \in Positions(map) |->
                         IF p \in Block(map, c) THEN "non_scraped" ELSE map.st[p]]
      BY <3>2, <3>3, ChangeSblockIsMap
    <3> QED BY <3>4 DEF FinishedIn, Positions
  <2>3. CASE BlockDone
    <3>1. CASE \E b \in RestOfBlock : book' = change_chunk_status(book, dom, b, "non_scraped")
      BY <3>1, FinishedByChange DEF map
    <3> QED BY <2>1, <2>3, <3>1 DEF BlockDone
  <2> QED BY <2>1, <2>2, <2>3
          DEF SkipPhase, EnterCopying, EnterSectors, EnterRetrying, StartPass,
              SkipPass, PassesDone, ScanChunk, EndPass, TakeBlock, BlocksDone,
              LeadSector, TrailSector
<1> QED BY <1>1, <1>2 DEF fileVars, Saved

\* Every step keeps the saved positions among those synced, and these among those
\* written.
LEMMA SavedStep == Saved /\ TypeOK /\ Control /\ [Next]_vars => Saved'
<1> SUFFICES ASSUME Saved, TypeOK, Control, [Next]_vars PROVE Saved'
  OBVIOUS
<1>1. CASE UNCHANGED vars
  BY <1>1 DEF vars, fileVars, Saved, map
<1>2. CASE Rescuing
  BY <1>2, SavedByRead, SavedByUpdate, SavedByLoops DEF Rescuing, TypeOK
<1> QED BY <1>1, <1>2 DEF Next, Exited

\* What the map calls finished was written to the output file, at every point of
\* every run.
THEOREM RescuedWasWritten == Spec => []RescuedIsWritten
<1>1. Saved => RescuedIsWritten
  BY DEF Saved, FinishedIn, RescuedIsWritten
<1> QED BY SavedInit, InitType, TypesStep, SavedStep, <1>1, PTL DEF Spec

\* What the mapfile on disc calls finished was synced to disc before, at every point
\* of every run.
THEOREM Durable == Spec => []SavedIsSynced
<1>1. Saved => SavedIsSynced
  BY DEF Saved, FinishedIn, SavedIsSynced
<1> QED BY SavedInit, InitType, TypesStep, SavedStep, <1>1, PTL DEF Spec

-----------------------------------------------------------------------------
(***************************************************************************)
(* Every phase reads what is its own to read.                              *)
(*                                                                         *)
(* A run with --complete-only is not sound: at EOF it crops the domain and *)
(* not the map (the run complete_only shows it).  For the other runs, what *)
(* has to be carried along is the range of sectors that trimming and       *)
(* scraping still have before them, from their copy of a block: the reads  *)
(* beside it change the map, but the range stays in one block of the       *)
(* status looked for, or lies beyond an EOF found since.                   *)
(***************************************************************************)
MapSound(m) == IsMap(m) /\ Uniform(m) /\ SplitByDomain(m, dom)

TodoIn(m, b) ==
  \/ Ready(m, dom, b, Target)
  \/ m.end <= b.pos /\ InEnd <= b.pos /\ Chunk(b) \subseteq dom

Rest == [pos |-> pos, end |-> stop]
Beside(x, b) == x.end <= b.pos \/ b.end <= x.pos
InSectors == phase \in {"trimming", "scraping"} /\ pc \in {"sector", "read", "after"}

Sound ==
  /\ BlocksSound
  /\ pc = "read" => TodoIn(map, chunk)
  /\ InSectors /\ pos < stop => TodoIn(map, Rest)
  /\ InSectors /\ pc = "read" => Beside(Rest, chunk)
  /\ pc # "aborted"
  /\ ~Has("complete_only")

\* Changing a ready chunk leaves the map sound, and beside it what is to do.
LEMMA TodoBesideChange ==
  ASSUME NEW bk, IsBook(bk), MapSound(bk.map), NEW b, IsChunk(b),
         Ready(bk.map, dom, b, Target), NEW t \in Status
  PROVE  LET c == change_chunk_status(bk, dom, b, t) IN
         /\ IsBook(c) /\ MapSound(c.map)
         /\ \A x : IsChunk(x) /\ TodoIn(bk.map, x) /\ Beside(x, b) => TodoIn(c.map, x)
<1> DEFINE c == change_chunk_status(bk, dom, b, t)
<1>1. b.pos < b.end /\ b.pos < bk.map.end
  BY MapTypes DEF Ready, MapSound, IsChunk
<1>2. IsBook(c) /\ c.map = change_chunk(bk.map, dom, b, t)
  BY <1>1, ChangeType
<1>3. IsMap(c.map) /\ c.map.end = bk.map.end
  BY <1>1, <1>2, ChangeChunkIsMap DEF MapSound
<1>4. Uniform(c.map) /\ SplitByDomain(c.map, dom)
  BY <1>2, ChangeChunkSound DEF MapSound
<1> HIDE DEF c
<1>5. ASSUME NEW x, IsChunk(x), TodoIn(bk.map, x), Beside(x, b)
      PROVE  TodoIn(c.map, x)
  <2>1. CASE Ready(bk.map, dom, x, Target)
    <3>1. x.end <= b.pos \/ b.end <= x.pos
      BY <1>5 DEF Beside
    <3> QED BY <1>2, <1>5, <2>1, <3>1, ReadyBeside DEF MapSound, TodoIn
  <2> QED BY <1>3, <1>5, <2>1 DEF TodoIn
<1> QED BY <1>2, <1>3, <1>4, <1>5 DEF MapSound, c

\* So does marking as finished what was copied.
LEMMA TodoBesideCopied ==
  ASSUME NEW bk, IsBook(bk), MapSound(bk.map), NEW k \in Nat,
         IsChunk(chunk), k <= chunk.end - chunk.pos,
         k > 0 => Ready(bk.map, dom, Head(k), Target)
  PROVE  LET c == Copied(bk, dom, k) IN
         /\ IsBook(c) /\ MapSound(c.map)
         /\ \A x : IsChunk(x) /\ TodoIn(bk.map, x) /\ Beside(x, Head(k)) => TodoIn(c.map, x)
<1>1. CASE k > 0
  <2>1. IsChunk(Head(k)) /\ "finished" \in Status
    BY HeadTailType DEF Status
  <2> QED BY <1>1, <2>1, TodoBesideChange DEF Copied
<1>2. CASE ~(k > 0)
  BY <1>2 DEF Copied
<1> QED BY <1>1, <1>2

LEMMA SoundInit == Init /\ ~Has("complete_only") => Sound
<1> SUFFICES ASSUME Init, ~Has("complete_only") PROVE Sound
  OBVIOUS
<1>1. PICK s \in Starts : book = initialize_sizes(s.map, s.dom) /\ dom = s.dom
  BY DEF Init
<1>2. map = s.map /\ Uniform(s.map) /\ SplitByDomain(s.map, s.dom)
  BY <1>1 DEF map, initialize_sizes, StartsAssumption, IsStart
<1>3. pc = "enter"
  BY DEF Init
<1> QED BY <1>1, <1>2, <1>3 DEF Sound, BlocksSound, InSectors

\* The chunk that a pass finds is ready.
LEMMA SoundByPasses ==
  ASSUME Values, Control, Sound,
         \/ SkipPhase \/ EnterCopying \/ EnterSectors \/ EnterRetrying
         \/ StartPass \/ SkipPass \/ PassesDone \/ ScanChunk \/ EndPass
         \/ BlocksDone
  PROVE  Sound'
<1>1. UNCHANGED <<book, dom, opts>> /\ ~AtEnd
  BY DEF SkipPhase, EnterCopying, EnterSectors, EnterRetrying, StartPass, SkipPass,
         PassesDone, ScanChunk, EndPass, BlocksDone, runVars, AtEnd
<1>2. BlocksSound' /\ ~Has("complete_only")'
  BY <1>1 DEF Sound, BlocksSound, map, Has
<1>3. CASE ~ScanChunk
  <2>1. pc' \in {"enter", "pass", "find"}
    BY <1>3 DEF SkipPhase, EnterCopying, EnterSectors, EnterRetrying, StartPass,
       SkipPass, PassesDone, EndPass, BlocksDone, PhaseDone
  <2> QED BY <1>2, <2>1 DEF Sound, InSectors
<1>4. CASE ScanChunk
  <2>1. PICK b \in ChunkFrom(pos, ReadSize, ReadSize, AtEdges) : chunk' = b
    BY <1>4 DEF ScanChunk
  <2>2. phase \in {"copying", "retrying"} /\ phase' = phase /\ pc' = "read"
    BY <1>4 DEF ScanChunk
  <2>3. ReadSize \in Nat \ {0} /\ pos \in Nat
    BY DEF ReadSize, Values
  <2>4. Ready(map, dom, b, PassStatus)
    BY <1>1, <2>1, <2>3, ChunkFromType DEF Sound, BlocksSound
  <2>5. PassStatus = Target /\ Target' = Target
    BY <2>2 DEF PassStatus, Target
  <2>6. TodoIn(map, chunk)'
    BY <1>1, <2>1, <2>4, <2>5 DEF TodoIn, map
  <2> QED BY <1>2, <2>2, <2>6 DEF Sound, InSectors
<1> QED BY <1>3, <1>4

\* After a read the map is as the read left it.
LEMMA SoundByAfter ==
  ASSUME Values, Control, Sound,
         \/ AfterCopy \/ AfterCopyFails \/ AfterRetry \/ AfterSector
         \/ EndMapfileError \/ End
  PROVE  Sound'
<1>1. CASE EndMapfileError \/ End
  <2>1. pc' = "done" /\ UNCHANGED opts
    BY <1>1 DEF EndMapfileError, End, runVars
  <2> QED BY <2>1 DEF Sound, BlocksSound, AtEnd, InSectors, Has
<1>2. CASE AfterCopy \/ AfterCopyFails \/ AfterRetry \/ AfterSector
  <2>1. UNCHANGED <<book, dom, opts>> /\ ~AtEnd
    BY <1>2 DEF AfterCopy, AfterCopyFails, AfterRetry, AfterSector, runVars, AtEnd
  <2>2. BlocksSound' /\ ~Has("complete_only")'
    BY <2>1 DEF Sound, BlocksSound, map, Has
  <2>3. CASE pc' \in {"enter", "find"}
    BY <2>2, <2>3 DEF Sound, InSectors
  <2>4. CASE AfterSector /\ pc' = "sector" /\ phase' = phase
    <3>1. UNCHANGED <<pos, stop>> /\ InSectors
      BY <2>4 DEF AfterSector, InSectors
    <3>2. Target' = Target /\ Rest' = Rest
      BY <2>4, <3>1 DEF Target, Rest
    <3>3. (pos < stop => TodoIn(map, Rest))'
      BY <2>1, <3>1, <3>2 DEF Sound, TodoIn, map
    <3> QED BY <2>2, <2>4, <3>3 DEF Sound
  <2>5. \/ pc' \in {"enter", "find"}
        \/ AfterSector /\ pc' = "sector" /\ phase' = phase
    <3>1. CASE AfterCopyFails
      BY <3>1 DEF AfterCopyFails, Return
    <3>2. CASE AfterSector
      <4>1. RatesAndSave("sector")
        BY <3>2 DEF AfterSector
      <4> QED BY <3>2, <4>1 DEF RatesAndSave, Return
    <3>3. CASE AfterCopy \/ AfterRetry
      <4>1. RatesAndSave("find")
        BY <3>3 DEF AfterCopy, AfterRetry
      <4> QED BY <4>1 DEF RatesAndSave, Return
    <3> QED BY <1>2, <3>1, <3>2, <3>3
  <2> QED BY <2>3, <2>4, <2>5
<1> QED BY <1>1, <1>2

\* What lies before EOF of the chunk to read is ready, and so is the chunk when
\* it is not beyond EOF.
LEMMA HeadReady ==
  ASSUME Values, Control, Sound, pc = "read", Avail > 0
  PROVE  /\ Ready(map, dom, chunk, Target) /\ CanChange(map, dom, chunk)
         /\ Ready(map, dom, Head(Avail), Target)
         /\ MapSound(EofBook.map) /\ EofDom = dom
         /\ Ready(EofBook.map, dom, Head(Avail), Target)
         /\ CanChange(EofBook.map, EofDom, Head(Avail))
<1>1. IsChunk(chunk) /\ chunk.pos < chunk.end /\ IsMap(map)
  BY DEF Values, Control, IsChunk, IsBook, map
<1>2. MapSound(map) /\ ~Has("complete_only") /\ TodoIn(map, chunk)
  BY <1>1 DEF Sound, BlocksSound, AtEnd, MapSound
<1>3. /\ Avail \in Nat /\ Avail <= chunk.end - chunk.pos /\ chunk.pos + Avail \in Nat
      /\ chunk.pos < InEnd
  BY <1>1, AvailType DEF Avail, Larger, Smaller, IsChunk
<1>4. Ready(map, dom, chunk, Target)
  BY <1>1, <1>2, <1>3 DEF TodoIn, IsChunk
<1>5. CanChange(map, dom, chunk)
  BY <1>1, <1>2, <1>4, ReadyCanChange DEF MapSound
<1>6. IsChunk(Head(Avail)) /\ Head(Avail).pos = chunk.pos /\ Head(Avail).end = chunk.pos + Avail
  BY <1>1, <1>3, HeadTailType
<1>7. Ready(map, dom, Head(Avail), Target)
  BY <1>1, <1>3, <1>4, <1>6, ReadyPart DEF IsChunk
<1>8. EofDom = dom /\ EofBook.map \in {map, truncate_vector(map, chunk.pos + Avail)}
  BY <1>2 DEF EofDom, EofBook, initialize_sizes
<1>9. MapSound(EofBook.map) /\ Ready(EofBook.map, dom, Head(Avail), Target)
  <2>1. MapSound(truncate_vector(map, chunk.pos + Avail))
    BY <1>2, <1>3, TruncateSound, TruncateIsMap DEF MapSound
  <2>2. Ready(truncate_vector(map, chunk.pos + Avail), dom, Head(Avail), Target)
    BY <1>1, <1>3, <1>6, <1>7, ReadyTruncate
  <2> QED BY <1>2, <1>7, <1>8, <2>1, <2>2
<1>10. CanChange(EofBook.map, EofDom, Head(Avail))
  BY <1>6, <1>8, <1>9, ReadyCanChange DEF MapSound
<1> QED BY <1>4, <1>5, <1>7, <1>8, <1>9, <1>10

\* After k positions of it were copied, the rest of the chunk is ready.
LEMMA TailReady ==
  ASSUME Values, Control, Sound, pc = "read", Avail > 0, NEW k \in 0 .. Avail,
         k < chunk.end - chunk.pos
  PROVE  LET c == Copied(book, dom, k) IN
         /\ k > 0 => Ready(map, dom, Head(k), Target)
         /\ IsBook(c) /\ MapSound(c.map) /\ Ready(c.map, dom, Tail(k), Target)
         /\ \A x : IsChunk(x) /\ TodoIn(map, x) /\ Beside(x, Head(k)) => TodoIn(c.map, x)
<1> DEFINE c == Copied(book, dom, k)
<1>1. IsChunk(chunk) /\ chunk.pos < chunk.end /\ IsMap(map) /\ IsBook(book)
  BY DEF Values, Control, IsChunk, IsBook, map
<1>2. MapSound(map) /\ Avail \in Nat /\ Ready(map, dom, chunk, Target)
  BY <1>1, AvailType, HeadReady DEF Sound, BlocksSound, AtEnd, MapSound
<1>3. /\ k \in Nat /\ k <= chunk.end - chunk.pos
      /\ chunk.pos \in Nat /\ chunk.end \in Nat
  BY <1>1, <1>2 DEF IsChunk
<1>4. /\ IsChunk(Head(k)) /\ IsChunk(Tail(k))
      /\ Head(k).pos = chunk.pos /\ Head(k).end = chunk.pos + k
      /\ Tail(k).pos = chunk.pos + k /\ Tail(k).end = chunk.end
  BY <1>1, <1>3, HeadTailType
<1>5. k > 0 => Ready(map, dom, Head(k), Target)
  BY <1>1, <1>2, <1>3, <1>4, ReadyPart
<1>6. Ready(map, dom, Tail(k), Target)
  BY <1>1, <1>2, <1>3, <1>4, ReadyPart
<1>7. /\ IsBook(c) /\ MapSound(c.map)
      /\ \A x : IsChunk(x) /\ TodoIn(map, x) /\ Beside(x, Head(k)) => TodoIn(c.map, x)
  BY <1>1, <1>2, <1>3, <1>5, TodoBesideCopied DEF map
<1>8. Ready(c.map, dom, Tail(k), Target)
  <2>1. CASE k > 0
    <3>1. "finished" \in Status
      BY DEF Status
    <3>2. Head(k).pos < Head(k).end /\ Head(k).pos < map.end
      BY <1>1, <1>4, <1>5, <2>1, MapTypes DEF Ready, IsChunk
    <3>3. c.map = change_chunk(map, dom, Head(k), "finished")
      BY <1>1, <1>4, <2>1, <3>1, <3>2, ChangeType DEF Copied, map
    <3>4. Head(k).end <= Tail(k).pos
      BY <1>3, <1>4
    <3> HIDE DEF c
    <3> QED BY <1>1, <1>4, <1>5, <1>6, <2>1, <3>1, <3>3, <3>4, ReadyBeside
  <2>2. CASE ~(k > 0)
    BY <1>6, <2>2 DEF Copied, map
  <2> QED BY <2>1, <2>2
<1> HIDE DEF c
<1> QED BY <1>5, <1>7, <1>8 DEF c

\* A read changes the chunk and leaves ready what is beside it.
LEMMA SoundByRead ==
  ASSUME Values, Control, Sound,
         \/ ReadRefused \/ Interrupted \/ WriteFailed \/ ReadGood \/ ReadBad
         \/ ReadEof \/ InternalError
  PROVE  Sound'
<1>1. pc = "read" /\ Post /\ UNCHANGED <<pos, stop, opts>> /\ ~AtEnd
  BY DEF ReadRefused, Interrupted, WriteFailed, ReadGood, ReadBad, ReadEof,
         InternalError, Reading, runVars, edgeVars, AtEnd
<1>2. IsChunk(chunk) /\ chunk.pos < chunk.end /\ IsBook(book) /\ IsChunk(Rest)
  BY <1>1 DEF Values, Control, IsChunk, Rest
<1>3. MapSound(map) /\ ~Has("complete_only") /\ TodoIn(map, chunk)
  BY <1>1, <1>2 DEF Sound, BlocksSound, MapSound, IsBook, map
<1>4. /\ Avail \in Nat /\ Avail <= chunk.end - chunk.pos
      /\ chunk.pos \in Nat /\ chunk.end \in Nat
  BY <1>2, AvailType DEF IsChunk
\* What has to be shown of the three reads that change the map.
<1>5. ASSUME dom' = dom, MapSound(map'),
             phase \in {"trimming", "scraping"} /\ pos < stop => TodoIn(map', Rest),
             \/ pc' = "after" /\ phase' = phase
             \/ pc' = "enter"
      PROVE  Sound'
  <2>1. BlocksSound' /\ ~Has("complete_only")'
    BY <1>1, <1>3, <1>5 DEF BlocksSound, MapSound, Has
  <2>2. CASE pc' = "enter"
    BY <2>1, <2>2 DEF Sound, InSectors
  <2>3. CASE pc' = "after" /\ phase' = phase
    <3>1. Target' = Target /\ Rest' = Rest
      BY <1>1, <2>3 DEF Target, Rest
    <3>2. (InSectors /\ pos < stop => TodoIn(map, Rest))'
      BY <1>1, <1>5, <2>3, <3>1 DEF InSectors, TodoIn
    <3> QED BY <2>1, <2>3, <3>2 DEF Sound
  <2> QED BY <1>5, <2>2, <2>3
<1>6. CASE ReadRefused \/ Interrupted \/ WriteFailed
  <2>1. UNCHANGED <<book, dom>> /\ pc' = "enter" /\ phase' = "ending"
    BY <1>6 DEF ReadRefused, Interrupted, WriteFailed, Return
  <2> QED BY <1>1, <1>3, <2>1 DEF Sound, InSectors, BlocksSound, Has, map, MapSound
<1>7. CASE InternalError
  BY <1>1, <1>7, HeadReady DEF InternalError, Values
<1>8. \A k \in Nat : k <= chunk.end - chunk.pos =>
        /\ IsChunk(Head(k)) /\ IsChunk(Tail(k))
        /\ Head(k).pos = chunk.pos /\ Head(k).end = chunk.pos + k
        /\ Tail(k).pos = chunk.pos + k /\ Tail(k).end = chunk.end
  BY <1>2, HeadTailType
<1>9. phase \in {"trimming", "scraping"} => Beside(Rest, chunk)
  BY <1>1 DEF Sound, InSectors
<1>10. CASE ReadGood
  <2>1. /\ book' = Copied(book, dom, Avail) /\ dom' = dom
        /\ pc' = "after" /\ phase' = phase /\ Avail > 0
    BY <1>2, <1>4, <1>10 DEF ReadGood, IsChunk
  <2>2. Ready(map, dom, Head(Avail), Target)
    BY <1>1, <2>1, HeadReady
  <2>3. /\ MapSound(book'.map)
        /\ \A x : IsChunk(x) /\ TodoIn(map, x) /\ Beside(x, Head(Avail)) => TodoIn(book'.map, x)
    BY <1>2, <1>3, <1>4, <2>1, <2>2, TodoBesideCopied DEF map
  <2>4. phase \in {"trimming", "scraping"} /\ pos < stop => TodoIn(book'.map, Rest)
    BY <1>1, <1>2, <1>4, <1>8, <1>9, <2>3 DEF Sound, InSectors, Beside, Rest, IsChunk
  <2> QED BY <1>5, <2>1, <2>3, <2>4 DEF map
<1>11. CASE ReadBad
  <2>1. PICK k \in 0 .. Avail :
          /\ Avail > 0 /\ k < chunk.end - chunk.pos
          /\ book' = change_chunk_status(Copied(book, dom, k), dom, Tail(k),
                                         FailedStatus(Tail(k)))
    BY <1>11 DEF ReadBad
  <2>2. dom' = dom /\ (\/ pc' = "after" /\ phase' = phase
                       \/ pc' = "enter" /\ phase' = "ending")
    BY <1>11 DEF ReadBad, Return
  <2>3. k \in Nat /\ k <= chunk.end - chunk.pos /\ Ready(map, dom, chunk, Target)
    BY <1>1, <1>4, <2>1, HeadReady
  <2> DEFINE c == Copied(book, dom, k)
  <2>4. /\ IsBook(c) /\ MapSound(c.map) /\ Ready(c.map, dom, Tail(k), Target)
        /\ \A x : IsChunk(x) /\ TodoIn(map, x) /\ Beside(x, Head(k)) => TodoIn(c.map, x)
    BY <1>1, <2>1, TailReady
  <2>8. FailedStatus(Tail(k)) \in Status
    BY DEF FailedStatus, Status
  <2> HIDE DEF c
  <2>9. /\ MapSound(book'.map)
        /\ \A x : IsChunk(x) /\ TodoIn(c.map, x) /\ Beside(x, Tail(k)) => TodoIn(book'.map, x)
    BY <1>8, <2>1, <2>3, <2>4, <2>8, TodoBesideChange DEF c
  <2>10. phase \in {"trimming", "scraping"} /\ pos < stop => TodoIn(book'.map, Rest)
    <3>1. Beside(Rest, chunk) => Beside(Rest, Head(k)) /\ Beside(Rest, Tail(k))
      BY <1>2, <1>4, <1>8, <2>3 DEF Beside, Rest, IsChunk
    <3> QED BY <1>1, <1>2, <1>9, <2>4, <2>9, <3>1 DEF Sound, InSectors
  <2> QED BY <1>5, <2>2, <2>9, <2>10 DEF map
<1>12. CASE ReadEof
  <2>1. /\ book' = Copied(EofBook, EofDom, Avail) /\ dom' = EofDom
        /\ Avail < chunk.end - chunk.pos
    BY <1>12 DEF ReadEof
  <2>2. \/ pc' = "after" /\ phase' = phase /\ ~EofFails
        \/ pc' = "enter" /\ phase' = "ending"
    BY <1>12 DEF ReadEof, Return
  <2>3. /\ EofDom = dom
        /\ EofBook.map = IF EofFails THEN map
                         ELSE truncate_vector(map, chunk.pos + Avail)
    BY <1>3 DEF EofDom, EofBook, initialize_sizes
  <2>4. chunk.pos + Avail \in Nat /\ InEnd <= chunk.pos + Avail
    BY <1>2, <2>1, AvailType
  <2>5. /\ IsBook(EofBook) /\ MapSound(EofBook.map)
        /\ Avail > 0 => Ready(EofBook.map, dom, Head(Avail), Target)
    <3>1. MapSound(truncate_vector(map, chunk.pos + Avail))
      BY <1>3, <2>4, TruncateSound, TruncateIsMap DEF MapSound
    <3>2. MapSound(EofBook.map)
      BY <1>3, <2>3, <3>1
    <3>3. IsBook(EofBook)
      BY <1>3, <2>3, <2>4, TruncateIsMap, InitializeType DEF EofBook, MapSound
    <3> QED BY <1>1, <3>2, <3>3, HeadReady
  <2>6. /\ MapSound(book'.map)
        /\ \A x : IsChunk(x) /\ TodoIn(EofBook.map, x) /\ Beside(x, Head(Avail)) =>
                    TodoIn(book'.map, x)
    BY <1>2, <1>4, <2>1, <2>3, <2>5, TodoBesideCopied
  <2>7. ~EofFails /\ phase \in {"trimming", "scraping"} /\ pos < stop =>
          TodoIn(book'.map, Rest)
    <3> SUFFICES ASSUME ~EofFails, phase \in {"trimming", "scraping"}, pos < stop
                 PROVE  TodoIn(EofBook.map, Rest) /\ Beside(Rest, Head(Avail))
      BY <1>2, <2>6
    <3>1. TodoIn(map, Rest) /\ Beside(Rest, chunk)
      BY <1>1, <1>9 DEF Sound, InSectors
    <3>2. Beside(Rest, Head(Avail))
      BY <1>2, <1>4, <1>8, <3>1 DEF Beside, Rest, IsChunk
    <3>3. /\ EofBook.map = truncate_vector(map, chunk.pos + Avail)
          /\ EofBook.map.end = Smaller(map.end, chunk.pos + Avail)
      BY <1>3, <2>3, <2>4, TruncateIsMap DEF MapSound
    <3>4. Rest.pos = pos /\ Rest.end = stop /\ pos \in Nat /\ stop \in Nat /\ map.end \in Nat
      BY <1>3, MapTypes DEF Rest, Values, MapSound
    <3>5. CASE Ready(map, dom, Rest, Target) /\ stop <= chunk.pos + Avail
      BY <1>2, <1>3, <2>4, <3>2, <3>3, <3>4, <3>5, ReadyTruncate DEF TodoIn, MapSound
    <3>6. CASE Ready(map, dom, Rest, Target) /\ ~(stop <= chunk.pos + Avail)
      <4>1. chunk.end <= pos
        BY <1>4, <3>1, <3>4, <3>6 DEF Beside
      <4>2. EofBook.map.end <= pos /\ InEnd <= pos
        <5>1. chunk.pos + Avail <= pos
          BY <1>4, <2>1, <4>1, <3>4
        <5>2. Smaller(map.end, chunk.pos + Avail) <= chunk.pos + Avail
          BY <2>4, <3>4 DEF Smaller
        <5> QED BY <2>4, <3>3, <3>4, <5>1, <5>2 DEF Smaller
      <4> QED BY <3>2, <3>4, <3>6, <4>2 DEF TodoIn, Ready
    <3>7. CASE ~Ready(map, dom, Rest, Target)
      <4>1. map.end <= pos /\ InEnd <= pos /\ Chunk(Rest) \subseteq dom
        BY <3>1, <3>4, <3>7 DEF TodoIn
      <4>2. EofBook.map.end <= pos
        BY <2>4, <3>3, <3>4, <4>1 DEF Smaller
      <4> QED BY <3>2, <3>4, <4>1, <4>2 DEF TodoIn
    <3> QED BY <3>5, <3>6, <3>7
  <2>8. CASE ~EofFails
    BY <1>5, <2>1, <2>2, <2>3, <2>6, <2>7, <2>8 DEF map
  <2>9. CASE pc' = "enter" /\ phase' = "ending"
    <3>1. BlocksSound' /\ ~Has("complete_only")'
      BY <1>1, <1>3, <2>1, <2>3, <2>6 DEF BlocksSound, MapSound, Has, map
    <3> QED BY <2>9, <3>1 DEF Sound, InSectors
  <2> QED BY <2>2, <2>8, <2>9
<1> QED BY <1>6, <1>7, <1>10, <1>11, <1>12

\* What trimming leaves of a block is a non-trimmed block of the domain.
LEMMA RestIsReady ==
  ASSUME MapSound(map), pos \in Nat, stop \in Nat, NEW b \in RestOfBlock
  PROVE  IsChunk(b) /\ Ready(map, dom, b, "non_trimmed")
<1>1. /\ stop - 1 \in Positions(map) /\ InDomain(map, stop - 1, dom)
      /\ map.st[stop - 1] = "non_trimmed"
  BY MapTypes DEF RestOfBlock, MapSound
<1>2. PICK c \in BlockStart(map, stop - 1), e \in BlockEnd(map, stop - 1) :
        b = [pos |-> c, end |-> e]
  BY DEF RestOfBlock
<1> QED BY <1>1, <1>2, ReadyBlock DEF MapSound

\* The loops over blocks and sectors: the block taken is ready as a whole, and so
\* are the next sector of what is left of it and the rest.
LEMMA SoundBySectors ==
  ASSUME Values, Control, Sound,
         LeaveBlock \/ TakeBlock \/ LeadSector \/ TrailSector \/ BlockDone
  PROVE  Sound'
<1>1. /\ UNCHANGED <<dom, opts, phase>> /\ ~AtEnd
      /\ phase \in {"trimming", "scraping"}
  BY DEF LeaveBlock, TakeBlock, LeadSector, TrailSector, BlockDone, runVars, AtEnd,
         Control
<1>2. MapSound(map) /\ IsBook(book) /\ pos \in Nat /\ stop \in Nat
  BY <1>1 DEF Sound, BlocksSound, MapSound, Values, IsBook, map
<1>3. Target' = Target /\ ~Has("complete_only")'
  BY <1>1 DEF Target, Sound, Has
<1>4. CASE LeaveBlock
  <2>1. PICK c : book' = [book EXCEPT !.map = change_sblock_status(map, c, "non_scraped")]
    BY <1>4 DEF LeaveBlock
  <2>2. map' = change_sblock_status(map, c, "non_scraped") /\ "non_scraped" \in Status
    BY <1>2, <2>1 DEF IsBook, map, Status
  <2>3. BlocksSound'
    BY <1>1, <1>2, <2>2, ChangeSblockSound DEF BlocksSound, MapSound
  <2> QED BY <1>3, <1>4, <2>3 DEF LeaveBlock, Sound, InSectors
<1>5. CASE TakeBlock
  <2>1. PICK c \in NextBlock : pos' = c /\ stop' \in BlockEnd(map, c)
    BY <1>5 DEF TakeBlock
  <2>2. UNCHANGED <<book, dom>> /\ pc' = "sector"
    BY <1>5 DEF TakeBlock
  <2>3. /\ c \in map.cuts /\ c \in Positions(map) /\ InDomain(map, c, dom)
        /\ map.st[c] = BlockStatus
    BY <2>1, NextBlockType
  <2>4. Ready(map, dom, Rest', Target)
    <3>1. BlockStatus = Target
      BY <1>1 DEF BlockStatus, Target
    <3> QED BY <1>2, <2>1, <2>3, <3>1, CutStarts, ReadyBlock DEF MapSound, Rest
  <2>5. BlocksSound'
    BY <1>1, <2>2 DEF Sound, BlocksSound, map
  <2>6. TodoIn(map, Rest)'
    BY <1>3, <2>2, <2>4 DEF TodoIn, map
  <2> QED BY <1>3, <2>2, <2>5, <2>6 DEF Sound
<1>6. CASE LeadSector \/ TrailSector
  <2>1. UNCHANGED <<book, dom>> /\ pc' = "read" /\ pos < stop
    BY <1>6 DEF LeadSector, TrailSector
  <2>2. TodoIn(map, Rest) /\ IsChunk(Rest) /\ Rest.pos = pos /\ Rest.end = stop
    BY <1>1, <1>2, <1>6, <2>1 DEF Sound, InSectors, LeadSector, TrailSector, Rest, IsChunk
  <2>3. BlocksSound'
    BY <1>1, <2>1 DEF Sound, BlocksSound, map
  <2>4. /\ IsChunk(chunk') /\ chunk'.pos < chunk'.end
        /\ pos' \in Nat /\ stop' \in Nat
        /\ \/ chunk'.pos = pos /\ chunk'.end = pos' /\ pos' <= stop /\ stop' = stop
           \/ chunk'.end = stop /\ chunk'.pos = stop' /\ pos <= stop' /\ pos' = pos
    <3>1. CASE LeadSector
      <4> DEFINE e == Smaller(pos + HardBS, stop)
                 b == [pos |-> pos, end |-> e]
      <4>1. /\ chunk' = IF e = stop THEN b ELSE align_end(b, HardBS)
            /\ pos' = chunk'.end /\ stop' = stop
        BY <3>1 DEF LeadSector, edgeVars
      <4>2. e \in Nat /\ pos < e /\ e <= stop
        BY <1>2, <2>1 DEF Smaller
      <4> HIDE DEF e
      <4>3. LET y == align_end([pos |-> pos, end |-> e], HardBS)
            IN  IsChunk(y) /\ y.pos = pos /\ pos < y.end /\ y.end <= e
        BY <1>2, <4>2, AlignEnd
      <4> QED BY <1>2, <4>1, <4>2, <4>3 DEF IsChunk
    <3>2. CASE TrailSector
      <4> DEFINE p == Larger(pos, stop - HardBS)
                 b == [pos |-> p, end |-> stop]
      <4>1. /\ chunk' = IF p = pos THEN b ELSE align_pos(b, HardBS)
            /\ stop' = chunk'.pos /\ pos' = pos
        BY <3>2 DEF TrailSector
      <4>2. p \in Nat /\ pos <= p /\ p < stop
        BY <1>2, <2>1 DEF Larger
      <4> HIDE DEF p
      <4>3. LET y == align_pos([pos |-> p, end |-> stop], HardBS)
            IN  IsChunk(y) /\ p <= y.pos /\ y.pos < stop /\ y.end = stop
        BY <1>2, <4>2, AlignPos
      <4> QED BY <1>2, <4>1, <4>2, <4>3 DEF IsChunk
    <3> QED BY <1>6, <3>1, <3>2
  <2>5. IsChunk(Rest') /\ Rest'.pos = pos' /\ Rest'.end = stop'
    BY <2>4 DEF Rest, IsChunk
  <2>6. pos <= chunk'.pos /\ chunk'.end <= stop /\ pos <= pos' /\ stop' <= stop
    BY <1>2, <2>4 DEF IsChunk
  <2>7. \A x : IsChunk(x) /\ pos <= x.pos /\ x.pos < x.end /\ x.end <= stop => TodoIn(map, x)
    <3> SUFFICES ASSUME NEW x, IsChunk(x), pos <= x.pos, x.pos < x.end, x.end <= stop
                 PROVE  TodoIn(map, x)
      OBVIOUS
    <3>1. CASE Ready(map, dom, Rest, Target)
      BY <1>2, <2>2, <3>1, ReadyPart DEF TodoIn, MapSound
    <3>2. CASE map.end <= pos /\ InEnd <= pos /\ Chunk(Rest) \subseteq dom
      <4>1. Chunk(x) \subseteq Chunk(Rest)
        BY <1>2, <2>2 DEF Chunk, IsChunk
      <4>2. map.end \in Nat
        BY <1>2, MapTypes DEF MapSound
      <4>3. map.end <= x.pos /\ InEnd <= x.pos
        BY <1>2, <3>2, <4>2 DEF IsChunk
      <4> QED BY <3>2, <4>1, <4>3 DEF TodoIn
    <3> QED BY <2>2, <3>1, <3>2 DEF TodoIn
  <2>8. TodoIn(map, chunk') /\ (pos' < stop' => TodoIn(map, Rest'))
    BY <2>4, <2>5, <2>6, <2>7
  <2>9. TodoIn(map, chunk)' /\ (pos < stop => TodoIn(map, Rest))'
    BY <1>3, <2>1, <2>8 DEF TodoIn, map
  <2>10. Beside(Rest, chunk)'
    BY <2>4, <2>5 DEF Beside, IsChunk
  <2> QED BY <1>3, <2>1, <2>3, <2>9, <2>10 DEF Sound
<1>7. CASE BlockDone
  <2>1. pc' = "find"
    BY <1>7 DEF BlockDone
  <2>2. CASE book' = book
    BY <1>1, <1>3, <2>1, <2>2 DEF Sound, BlocksSound, InSectors, map
  <2>3. CASE \E b \in RestOfBlock : book' = change_chunk_status(book, dom, b, "non_scraped")
    <3>1. PICK b \in RestOfBlock : book' = change_chunk_status(book, dom, b, "non_scraped")
      BY <2>3
    <3>3. IsChunk(b) /\ Ready(map, dom, b, "non_trimmed")
      BY <1>2, <3>1, RestIsReady
    <3>4. b.pos < b.end /\ b.pos < map.end /\ "non_scraped" \in Status
      BY <1>2, <3>3, MapTypes DEF Ready, IsChunk, Status, MapSound
    <3>5. map' = change_chunk(map, dom, b, "non_scraped")
      BY <1>2, <3>1, <3>3, <3>4, ChangeType DEF map
    <3>6. BlocksSound'
      BY <1>1, <1>2, <3>3, <3>4, <3>5, ChangeChunkSound DEF BlocksSound, MapSound
    <3> QED BY <1>3, <2>1, <3>6 DEF Sound, InSectors
  <2> QED BY <1>7, <2>2, <2>3 DEF BlockDone
<1> QED BY <1>4, <1>5, <1>6, <1>7

LEMMA SoundStep ==
  TypeOK /\ Control /\ Sound /\ [Next]_vars => Sound'
<1> SUFFICES ASSUME TypeOK, Control, Sound, [Next]_vars PROVE Sound'
  OBVIOUS
<1>1. CASE UNCHANGED vars
  BY <1>1 DEF vars, runVars, passVars, scanVars, edgeVars, readVars, errVars, fileVars,
     Sound, BlocksSound, AtEnd, InSectors, TodoIn, Target, Rest, Beside, Has, map
<1>2. CASE Rescuing
  BY <1>2, SoundByPasses, SoundByAfter, SoundByRead, SoundBySectors
     DEF Rescuing, TypeOK
<1> QED BY <1>1, <1>2 DEF Next, Exited

\* What Sound says of the next read.
LEMMA SoundReads == TypeOK /\ Control /\ Sound => ReadsItsTarget /\ NoInternalError
<1> SUFFICES ASSUME Values, Control, Sound PROVE ReadsItsTarget /\ NoInternalError
  BY DEF TypeOK
<1>1. ASSUME pc = "read"
      PROVE  /\ chunk.pos < chunk.end /\ Chunk(chunk) \subseteq dom
             /\ \A p \in Chunk(chunk) \cap Positions(map) : map.st[p] = Target
  <2>1. chunk.pos < chunk.end /\ IsChunk(chunk) /\ map.end \in Nat
    BY <1>1, MapTypes DEF Control, Values, IsChunk, IsBook, map
  <2>2. CASE Ready(map, dom, chunk, Target)
    BY <2>1, <2>2 DEF Ready
  <2>3. CASE map.end <= chunk.pos /\ Chunk(chunk) \subseteq dom
    BY <2>1, <2>3 DEF Chunk, Positions, IsChunk
  <2> QED BY <1>1, <2>2, <2>3 DEF Sound, TodoIn
<1> QED BY <1>1 DEF ReadsItsTarget, Sound, NoInternalError

\* The inductive invariant holds in every state of a run without --complete-only.
LEMMA RunIsSound ==
  Spec /\ ~Has("complete_only") => [](TypeOK /\ Control /\ Sound)
BY InitType, SoundInit, TypesStep, SoundStep, PTL DEF Spec

\* In every run without --complete-only, the blocks of the map keep one status each
\* and do not cross the border of the domain, however they are split, joined and cut
\* off.
THEOREM BlocksStaySound == Spec /\ ~Has("complete_only") => []BlocksSound
<1>1. Sound => BlocksSound
  BY DEF Sound
<1> QED BY RunIsSound, <1>1, PTL

\* In every run without --complete-only, every read is inside the domain and of the
\* status that its phase looks for.
THEOREM ReadsAreOnTarget == Spec /\ ~Has("complete_only") => []ReadsItsTarget
BY RunIsSound, SoundReads, PTL

\* In every run without --complete-only, change_chunk_status is never asked for a
\* chunk that it answers with an internal error.
THEOREM NeverAborts == Spec /\ ~Has("complete_only") => []NoInternalError
BY RunIsSound, SoundReads, PTL

-----------------------------------------------------------------------------
(***************************************************************************)
(* The counters are those of the map.                                      *)
(***************************************************************************)
\* They are as a count of the map's blocks would give them, but for the share of
\* non-trimmed and non-scraped blocks in their sum.
Exact(bk) ==
  /\ \A s \in {"non_tried", "bad_sector", "finished"} :
       bk.size[s] = SizeOf(bk.map, dom, s)
  /\ bk.size["non_trimmed"] + bk.size["non_scraped"] =
       SizeOf(bk.map, dom, "non_trimmed") + SizeOf(bk.map, dom, "non_scraped")
  /\ bk.areas = AreasOf(bk.map, dom)

\* The sizes of the statuses are numbers.
LEMMA SizesAreInts ==
  ASSUME NEW m, IsMap(m)
  PROVE  \A s : SizeOf(m, dom, s) \in Int
BY CountsAreInts

\* They are exact when they are counted anew.
LEMMA ExactCounted ==
  ASSUME NEW m, IsMap(m)
  PROVE  Exact(initialize_sizes(m, dom))
BY DEF Exact, initialize_sizes, Status

\* change_chunk_status keeps them exact.
LEMMA ExactByChange ==
  ASSUME NEW bk, IsBook(bk), MapSound(bk.map), Exact(bk), NEW b, IsChunk(b),
         NEW s \in Status, Ready(bk.map, dom, b, s), NEW t \in Status
  PROVE  Exact(change_chunk_status(bk, dom, b, t))
<1> DEFINE c == change_chunk_status(bk, dom, b, t)
           mm == change_chunk(bk.map, dom, b, t)
           len == b.end - b.pos
<1>1. /\ b.pos < b.end /\ b.pos < bk.map.end /\ len \in Int
      /\ bk.map.st[b.pos] = s
  BY MapTypes DEF Ready, MapSound, IsChunk, Chunk
<1>2. CASE s = t
  BY <1>1, <1>2 DEF change_chunk_status
<1>3. CASE s # t
  <2>1. c = [map   |-> mm,
             size  |-> [bk.size EXCEPT ![s] = @ - len, ![t] = @ + len],
             areas |-> bk.areas + area_adjust(bk.map, dom, b, t)]
    BY <1>1, <1>3 DEF change_chunk_status
  <2>2. /\ c.map = mm /\ c.areas = bk.areas + area_adjust(bk.map, dom, b, t)
        /\ \A u \in Status : c.size[u] = IF u = s THEN bk.size[u] - len
                                         ELSE IF u = t THEN bk.size[u] + len
                                         ELSE bk.size[u]
    BY <1>3, <2>1 DEF IsBook
  <2> HIDE DEF c
  <2>3. /\ SizeOf(mm, dom, s) = SizeOf(bk.map, dom, s) - len
        /\ SizeOf(mm, dom, t) = SizeOf(bk.map, dom, t) + len
        /\ \A u : u # s /\ u # t => SizeOf(mm, dom, u) = SizeOf(bk.map, dom, u)
    BY <1>3, ChangeChunkSizes DEF MapSound
  <2>4. AreasOf(mm, dom) = AreasOf(bk.map, dom) + area_adjust(bk.map, dom, b, t)
    BY <1>3, ChangeChunkAreas DEF MapSound
  <2> DEFINE Was(u) == SizeOf(bk.map, dom, u)
             Is(u)  == SizeOf(mm, dom, u)
  <2>5. \A u : Was(u) \in Int
    BY SizesAreInts DEF IsBook
  <2>6. \A u \in Status : Is(u) = IF u = s THEN Was(u) - len
                                  ELSE IF u = t THEN Was(u) + len ELSE Was(u)
    BY <1>3, <2>3
  <2>7. \A u \in Status : bk.size[u] \in Int
    BY DEF IsBook
  <2> HIDE DEF mm, len, Was, Is
  <2>8. ASSUME NEW u \in {"non_tried", "bad_sector", "finished"} PROVE c.size[u] = Is(u)
    <3>1. bk.size[u] = Was(u) /\ u \in Status
      BY DEF Exact, Was, Status
    <3> QED BY <2>2, <2>6, <3>1
  <2>9. c.size["non_trimmed"] + c.size["non_scraped"] =
          Is("non_trimmed") + Is("non_scraped")
    <3>1. bk.size["non_trimmed"] + bk.size["non_scraped"] =
            Was("non_trimmed") + Was("non_scraped")
      BY DEF Exact, Was
    <3>2. "non_trimmed" \in Status /\ "non_scraped" \in Status
      BY DEF Status
    <3> QED BY <1>1, <2>2, <2>5, <2>6, <2>7, <3>1, <3>2
  <2> QED BY <2>2, <2>4, <2>8, <2>9 DEF Exact, Is, c
<1> QED BY <1>2, <1>3

\* So does marking as finished what was copied.
LEMMA ExactByCopy ==
  ASSUME NEW bk, IsBook(bk), MapSound(bk.map), Exact(bk), NEW k \in Nat,
         IsChunk(chunk), k <= chunk.end - chunk.pos,
         k > 0 => Ready(bk.map, dom, Head(k), Target)
  PROVE  Exact(Copied(bk, dom, k))
<1>1. IsChunk(Head(k)) /\ "finished" \in Status /\ Target \in Status
  BY HeadTailType DEF Status, Target
<1> QED BY <1>1, ExactByChange DEF Copied

\* Leaving a block for the scraping phase keeps the sum of two sizes.
LEMMA ExactByLeave ==
  ASSUME Values, Control, Sound, Exact(book), LeaveBlock
  PROVE  Exact(book')
<1>1. phase = "trimming" /\ ~AtEnd /\ IsBook(book) /\ IsMap(map)
  BY DEF LeaveBlock, AtEnd, Values, IsBook, map
<1>2. MapSound(map)
  BY <1>1 DEF Sound, BlocksSound, MapSound
<1>3. PICK c \in NextBlock :
        book' = [book EXCEPT !.map = change_sblock_status(map, c, "non_scraped")]
  BY DEF LeaveBlock
<1>4. c \in Positions(map) /\ InDomain(map, c, dom) /\ map.st[c] = "non_trimmed"
  BY <1>1, <1>3, NextBlockType DEF BlockStatus
<1> DEFINE mm == change_sblock_status(map, c, "non_scraped")
           B == Block(map, c)
<1>5. book'.map = mm /\ book'.size = book.size /\ book'.areas = book.areas
  BY <1>1, <1>3 DEF IsBook
<1>6. "non_scraped" \in Status /\ "non_trimmed" \in Status
  BY DEF Status
<1>7. /\ IsMap(mm) /\ mm.end = map.end /\ mm.cuts = map.cuts /\ SplitByDomain(mm, dom)
      /\ Uniform(mm)
      /\ mm.st = [p \in Positions(map) |-> IF p \in B THEN "non_scraped" ELSE map.st[p]]
  BY <1>2, <1>6, ChangeSblockIsMap, ChangeSblockSound DEF MapSound
<1>8. B \subseteq Of(map, dom, "non_trimmed")
  <2>1. c \in Positions(map) /\ \A p \in B : p \in Positions(map) /\ SameBlock(map, c, p)
    BY <1>4 DEF Block
  <2>2. \A p \in B : map.st[p] = "non_trimmed"
    BY <1>2, <1>4, <2>1 DEF MapSound, Uniform
  <2>3. B \subseteq dom
    BY <1>4 DEF InDomain
  <2> QED BY <2>1, <2>2, <2>3 DEF Of
<1> HIDE DEF mm, B
<1>9. Moved(map, mm, dom, B, "non_trimmed", "non_scraped")
  BY <1>2, <1>7, <1>8 DEF Moved, MapSound
<1>10. /\ SizeOf(mm, dom, "non_trimmed") = SizeOf(map, dom, "non_trimmed") - Cardinality(B)
       /\ SizeOf(mm, dom, "non_scraped") = SizeOf(map, dom, "non_scraped") + Cardinality(B)
       /\ \A u : u # "non_trimmed" /\ u # "non_scraped" =>
                   SizeOf(mm, dom, u) = SizeOf(map, dom, u)
       /\ Cardinality(B) \in Nat
  BY <1>9, MovedCounts
<1>11. AreasOf(mm, dom) = AreasOf(map, dom)
  <2>1. Positions(mm) = Positions(map)
    BY <1>7 DEF Positions
  <2>2. \A p \in Positions(map) : p \in B => map.st[p] = "non_trimmed"
    BY <1>8 DEF Of
  <2>3. \A p \in Positions(map) : BadIn(mm, dom, p) <=> BadIn(map, dom, p)
    BY <1>7, <2>2 DEF BadIn
  <2>4. \A p \in Positions(map) : p # 0 => p - 1 \in Positions(map)
    BY <1>1, MapTypes DEF Positions
  <2>5. AreaStarts(mm, dom) = AreaStarts(map, dom)
    BY <2>1, <2>3, <2>4 DEF AreaStarts
  <2> QED BY <1>2, <1>7, <2>5, AreasOfStarts DEF MapSound
<1>12. SizeOf(map, dom, "non_trimmed") \in Int /\ SizeOf(map, dom, "non_scraped") \in Int
  BY <1>1, SizesAreInts
<1>13. Exact(book) => /\ \A s \in {"non_tried", "bad_sector", "finished"} :
                           book.size[s] = SizeOf(map, dom, s)
                      /\ book.size["non_trimmed"] + book.size["non_scraped"] =
                           SizeOf(map, dom, "non_trimmed") + SizeOf(map, dom, "non_scraped")
                      /\ book.areas = AreasOf(map, dom)
  BY DEF Exact, map
<1>14. /\ \A s \in {"non_tried", "bad_sector", "finished"} :
            book'.size[s] = SizeOf(book'.map, dom, s)
       /\ book'.size["non_trimmed"] + book'.size["non_scraped"] =
            SizeOf(book'.map, dom, "non_trimmed") + SizeOf(book'.map, dom, "non_scraped")
       /\ book'.areas = AreasOf(book'.map, dom)
  BY <1>5, <1>10, <1>11, <1>12, <1>13
<1> QED BY <1>14 DEF Exact

\* A read keeps the counters exact, or counts anew at EOF.
LEMMA ExactByRead ==
  ASSUME Values, Control, Sound, Exact(book), ReadGood \/ ReadBad \/ ReadEof
  PROVE  Exact(book') /\ dom' = dom
<1>1. pc = "read" /\ ~AtEnd
  BY DEF ReadGood, ReadBad, ReadEof, Reading, AtEnd
<1>2. IsChunk(chunk) /\ chunk.pos < chunk.end /\ IsBook(book) /\ IsMap(map)
  BY <1>1 DEF Values, Control, IsChunk, IsBook, map
<1>3. MapSound(map) /\ ~Has("complete_only")
  BY <1>1, <1>2 DEF Sound, BlocksSound, MapSound
<1>4. /\ Avail \in Nat /\ Avail <= chunk.end - chunk.pos
      /\ chunk.pos \in Nat /\ chunk.end \in Nat /\ chunk.pos + Avail \in Nat
  BY <1>2, AvailType DEF IsChunk
<1>5. Target \in Status
  BY DEF Target, Status
<1>6. CASE ReadGood
  <2>1. book' = Copied(book, dom, Avail) /\ dom' = dom
    BY <1>6 DEF ReadGood
  <2>2. Avail > 0 => Ready(map, dom, Head(Avail), Target)
    BY <1>1, HeadReady
  <2> QED BY <1>2, <1>3, <1>4, <2>1, <2>2, ExactByCopy DEF map
<1>7. CASE ReadBad
  <2>1. PICK k \in 0 .. Avail :
          /\ Avail > 0 /\ k < chunk.end - chunk.pos
          /\ book' = change_chunk_status(Copied(book, dom, k), dom, Tail(k),
                                         FailedStatus(Tail(k)))
    BY <1>7 DEF ReadBad
  <2>2. dom' = dom /\ k \in Nat /\ k <= chunk.end - chunk.pos
    BY <1>4, <1>7, <2>1 DEF ReadBad
  <2>3. LET c == Copied(book, dom, k) IN
        /\ k > 0 => Ready(map, dom, Head(k), Target)
        /\ IsBook(c) /\ MapSound(c.map) /\ Ready(c.map, dom, Tail(k), Target)
    BY <1>1, <2>1, TailReady
  <2>4. IsChunk(Tail(k))
    BY <1>2, <2>2, HeadTailType
  <2>5. FailedStatus(Tail(k)) \in Status
    BY DEF FailedStatus, Status
  <2>6. Exact(Copied(book, dom, k))
    BY <1>2, <1>3, <2>2, <2>3, ExactByCopy DEF map
  <2> QED BY <1>5, <2>1, <2>2, <2>3, <2>4, <2>5, <2>6, ExactByChange
<1>8. CASE ReadEof
  <2>1. book' = Copied(EofBook, EofDom, Avail) /\ dom' = EofDom
    BY <1>8 DEF ReadEof
  <2> DEFINE m == IF EofFails THEN map ELSE truncate_vector(map, chunk.pos + Avail)
  <2>2. EofDom = dom /\ EofBook = initialize_sizes(m, dom)
    BY <1>3 DEF EofDom, EofBook
  <2>3. MapSound(m)
    BY <1>3, <1>4, TruncateSound, TruncateIsMap DEF MapSound
  <2> HIDE DEF m
  <2>4. IsBook(EofBook) /\ EofBook.map = m /\ Exact(EofBook)
    BY <2>2, <2>3, InitializeType, ExactCounted DEF MapSound
  <2>5. Avail > 0 => Ready(EofBook.map, dom, Head(Avail), Target)
    BY <1>1, HeadReady
  <2> QED BY <1>2, <1>4, <2>1, <2>2, <2>3, <2>4, <2>5, ExactByCopy
<1> QED BY <1>6, <1>7, <1>8

\* What is left of a trimmed block is counted over.
LEMMA ExactByBlockDone ==
  ASSUME Values, Control, Sound, Exact(book), BlockDone
  PROVE  Exact(book')
<1>1. ~AtEnd /\ IsBook(book) /\ IsMap(map) /\ pos \in Nat /\ stop \in Nat
  BY DEF BlockDone, AtEnd, Values, IsBook, map
<1>2. MapSound(map)
  BY <1>1 DEF Sound, BlocksSound, MapSound
<1>3. \A b \in RestOfBlock : Exact(change_chunk_status(book, dom, b, "non_scraped"))
  <2>1. "non_trimmed" \in Status /\ "non_scraped" \in Status
    BY DEF Status
  <2>2. \A b \in RestOfBlock : IsChunk(b) /\ Ready(map, dom, b, "non_trimmed")
    BY <1>1, <1>2, RestIsReady
  <2> QED BY <1>1, <1>2, <2>1, <2>2, ExactByChange DEF map
<1> QED BY <1>3 DEF BlockDone

\* The counters are exact until the run ends.
CountsExact == ~AtEnd => Exact(book)

\* They are counted when the run begins ...
LEMMA ExactInit == Init => CountsExact
<1> SUFFICES ASSUME Init PROVE Exact(book)
  BY DEF CountsExact
<1>1. PICK s \in Starts : book = initialize_sizes(s.map, s.dom) /\ dom = s.dom
  BY DEF Init
<1> QED BY <1>1, ExactCounted DEF IsStart

\* ... and every step keeps them exact.
LEMMA ExactStep ==
  TypeOK /\ Control /\ Sound /\ CountsExact /\ [Next]_vars => CountsExact'
<1> SUFFICES ASSUME Values, Control, Sound, CountsExact, [Next]_vars, ~AtEnd'
             PROVE  Exact(book)'
  BY DEF TypeOK, CountsExact
<1>1. CASE UNCHANGED vars
  BY <1>1 DEF vars, CountsExact, AtEnd, Exact
<1>2. CASE Rescuing
  <2>1. ~AtEnd
    BY <1>2 DEF Rescuing, AtEnd, SkipPhase, EnterCopying, EnterSectors, EnterRetrying,
       StartPass, SkipPass, PassesDone, ScanChunk, EndPass, ReadRefused, Interrupted,
       WriteFailed, ReadGood, ReadBad, ReadEof, InternalError, AfterCopy,
       AfterCopyFails, AfterRetry, AfterSector, LeaveBlock, TakeBlock, BlocksDone,
       LeadSector, TrailSector, BlockDone, EndMapfileError, End, Reading
  <2>2. Exact(book)
    BY <2>1 DEF CountsExact
  <2>3. CASE ReadGood \/ ReadBad \/ ReadEof
    BY <2>2, <2>3, ExactByRead DEF Exact
  <2>4. CASE LeaveBlock \/ BlockDone
    <3>1. Exact(book') /\ dom' = dom
      BY <2>2, <2>4, ExactByLeave, ExactByBlockDone DEF LeaveBlock, BlockDone
    <3> QED BY <3>1 DEF Exact
  <2>5. CASE EndMapfileError \/ End \/ InternalError
    BY <2>5 DEF EndMapfileError, End, InternalError, AtEnd
  <2>6. CASE \/ SkipPhase \/ EnterCopying \/ EnterSectors \/ EnterRetrying
             \/ StartPass \/ SkipPass \/ PassesDone \/ ScanChunk \/ EndPass
             \/ ReadRefused \/ Interrupted \/ WriteFailed
             \/ AfterCopy \/ AfterCopyFails \/ AfterRetry \/ AfterSector
             \/ TakeBlock \/ BlocksDone \/ LeadSector \/ TrailSector
    <3>1. UNCHANGED <<book, dom>>
      BY <2>6 DEF SkipPhase, EnterCopying, EnterSectors, EnterRetrying,
         StartPass, SkipPass, PassesDone, ScanChunk, EndPass, ReadRefused, Interrupted,
         WriteFailed, AfterCopy, AfterCopyFails, AfterRetry, AfterSector, TakeBlock,
         BlocksDone, LeadSector, TrailSector
    <3> QED BY <2>2, <3>1 DEF Exact
  <2> QED BY <1>2, <2>3, <2>4, <2>5, <2>6 DEF Rescuing
<1>3. CASE Exited
  BY <1>3 DEF Exited, vars, CountsExact, AtEnd, Exact
<1> QED BY <1>1, <1>2, <1>3 DEF Next

\* In every run without --complete-only the sizes kept are those of the blocks of the
\* map: each of non-tried, bad and finished, and the sum of the two others.
THEOREM SizesAreExact == Spec /\ ~Has("complete_only") => []SizesExact
<1>1. CountsExact => SizesExact
  BY DEF CountsExact, SizesExact, Exact, map
<1> QED BY InitType, SoundInit, TypesStep, SoundStep, ExactInit, ExactStep, <1>1, PTL
        DEF Spec

\* In every run without --complete-only the number of bad areas, which is compared
\* with max_bad_areas before each read, is the number of runs of bad sectors inside
\* the domain, however chunks are split, joined and cut off.
THEOREM BadAreasAreExact == Spec /\ ~Has("complete_only") => []BadAreasExact
<1>1. CountsExact => BadAreasExact
  BY DEF CountsExact, BadAreasExact, Exact, map
<1> QED BY InitType, SoundInit, TypesStep, SoundStep, ExactInit, ExactStep, <1>1, PTL
        DEF Spec

-----------------------------------------------------------------------------
(***************************************************************************)
(* What a read does to the map.                                            *)
(***************************************************************************)

\* The statuses a read may leave behind.
ReadStatuses == {"finished", "bad_sector"} \cup
                IF phase = "copying" THEN {"non_trimmed"} ELSE {}

\* The positions that are marked as finished when k of the chunk were copied.
LEMMA CopiedStatus ==
  ASSUME NEW bk, IsBook(bk), NEW k \in Nat, IsChunk(chunk),
         k <= chunk.end - chunk.pos, k > 0 => Ready(bk.map, dom, Head(k), Target)
  PROVE  LET c == Copied(bk, dom, k) IN
         /\ c.map.end = bk.map.end
         /\ \A p \in Positions(bk.map) :
              c.map.st[p] = IF p \in Chunk(Head(k)) THEN "finished" ELSE bk.map.st[p]
<1>1. CASE k > 0
  <2>1. IsChunk(Head(k)) /\ "finished" \in Status /\ IsMap(bk.map)
    BY HeadTailType DEF Status, IsBook
  <2>2. Head(k).pos < Head(k).end /\ Head(k).pos < bk.map.end
    BY <1>1, <2>1, MapTypes DEF Ready, IsChunk
  <2>3. Copied(bk, dom, k).map = change_chunk(bk.map, dom, Head(k), "finished")
    BY <1>1, <2>1, <2>2, ChangeType DEF Copied
  <2>4. change_chunk(bk.map, dom, Head(k), "finished").end = bk.map.end
    BY <2>1, <2>2, ChangeChunkIsMap
  <2>5. \A p \in Positions(bk.map) :
          change_chunk(bk.map, dom, Head(k), "finished").st[p] =
            IF p \in Chunk(Head(k)) THEN "finished" ELSE bk.map.st[p]
    BY <1>1, <2>1, ChangeChunkStatus
  <2> QED BY <2>3, <2>4, <2>5
<1>2. CASE ~(k > 0)
  <2>1. Chunk(Head(k)) = {}
    BY <1>2 DEF Chunk, Head, IsChunk
  <2> QED BY <1>2, <2>1 DEF Copied
<1> QED BY <1>1, <1>2

\* A read changes its chunk only, gives it one of the statuses of a read, and cuts
\* off only what lies beyond EOF and is not rescued.  After a read that does not end
\* the phase, nothing of the chunk is left as it was.
LEMMA ReadChanges ==
  ASSUME Values, Control, Sound, ReadGood \/ ReadBad \/ ReadEof
  PROVE  /\ Positions(map') \subseteq Positions(map)
         /\ \A p \in Positions(map) :
              map.st[p] = "finished" \/ p < InEnd => p \in Positions(map')
         /\ \A p \in Positions(map') :
              \/ map'.st[p] = map.st[p]
              \/ p \in Chunk(chunk) /\ map'.st[p] \in ReadStatuses
         /\ pc' = "after" \/ map' # map =>
              \A p \in Chunk(chunk) : p < InEnd =>
                p \in Positions(map') /\ map'.st[p] \in ReadStatuses
         /\ pc' = "after" =>
              \A p \in Chunk(chunk) \cap Positions(map') : map'.st[p] \in ReadStatuses
<1>1. /\ pc = "read" /\ IsChunk(chunk) /\ chunk.pos < chunk.end /\ IsBook(book)
      /\ ~Has("complete_only") /\ MapSound(map) /\ TodoIn(map, chunk)
  BY DEF ReadGood, ReadBad, ReadEof, Reading, Values, Control, IsChunk, Sound,
         BlocksSound, AtEnd, MapSound, IsBook, map
<1>2. /\ Avail \in Nat /\ Avail <= chunk.end - chunk.pos
      /\ chunk.pos \in Nat /\ chunk.end \in Nat /\ map.end \in Nat
  BY <1>1, AvailType, MapTypes DEF IsChunk, MapSound
<1>3. \A k \in Nat : k <= chunk.end - chunk.pos =>
        /\ IsChunk(Head(k)) /\ Chunk(Head(k)) = chunk.pos .. chunk.pos + k - 1
        /\ IsChunk(Tail(k)) /\ Chunk(Tail(k)) = chunk.pos + k .. chunk.end - 1
  <2> TAKE k \in Nat
  <2> HAVE k <= chunk.end - chunk.pos
  <2>1. IsChunk(Head(k)) /\ IsChunk(Tail(k))
    BY <1>1, HeadTailType
  <2>2. /\ Chunk(Head(k)) = chunk.pos .. chunk.pos + k - 1
        /\ Chunk(Tail(k)) = chunk.pos + k .. chunk.end - 1
    BY <1>2 DEF Chunk, Head, Tail
  <2> QED BY <2>1, <2>2
<1>4. Avail > 0 => \A p \in Chunk(chunk) : p \in Positions(map) /\ map.st[p] = Target
  BY <1>1, HeadReady DEF Ready, Block, Values
<1>5. Chunk(chunk) = chunk.pos .. chunk.end - 1
  BY DEF Chunk
<1>6. CASE ReadGood
  <2>1. book' = Copied(book, dom, Avail) /\ Avail > 0 /\ Avail = chunk.end - chunk.pos
    BY <1>1, <1>2, <1>6 DEF ReadGood, IsChunk
  <2>2. Ready(map, dom, Head(Avail), Target)
    BY <1>1, <2>1, HeadReady
  <2>3. /\ map'.end = map.end
        /\ \A p \in Positions(map) :
             map'.st[p] = IF p \in Chunk(Head(Avail)) THEN "finished" ELSE map.st[p]
    BY <1>1, <1>2, <2>1, <2>2, CopiedStatus DEF map
  <2>4. Chunk(Head(Avail)) = Chunk(chunk) /\ Positions(map') = Positions(map)
    BY <1>2, <1>3, <1>5, <2>1, <2>3 DEF Positions
  <2> QED BY <1>4, <2>1, <2>3, <2>4 DEF ReadStatuses
<1>7. CASE ReadBad
  <2>1. PICK k \in 0 .. Avail :
          /\ Avail > 0 /\ k < chunk.end - chunk.pos
          /\ book' = change_chunk_status(Copied(book, dom, k), dom, Tail(k),
                                         FailedStatus(Tail(k)))
    BY <1>7 DEF ReadBad
  <2> DEFINE c == Copied(book, dom, k)
  <2>2. /\ k > 0 => Ready(map, dom, Head(k), Target)
        /\ IsBook(c) /\ MapSound(c.map) /\ Ready(c.map, dom, Tail(k), Target)
    BY <1>1, <2>1, TailReady
  <2>3. k \in Nat /\ k <= chunk.end - chunk.pos
    BY <1>2, <2>1
  <2>4. /\ c.map.end = map.end
        /\ \A p \in Positions(map) :
             c.map.st[p] = IF p \in Chunk(Head(k)) THEN "finished" ELSE map.st[p]
    BY <1>1, <2>2, <2>3, CopiedStatus DEF map
  <2>5. FailedStatus(Tail(k)) \in Status /\ FailedStatus(Tail(k)) \in ReadStatuses
    BY DEF FailedStatus, Status, ReadStatuses
  <2> HIDE DEF c
  <2>6. /\ Tail(k).pos < Tail(k).end /\ Tail(k).pos < c.map.end /\ IsMap(c.map)
        /\ IsChunk(Tail(k))
    BY <1>3, <2>2, <2>3, MapTypes DEF Ready, IsChunk, MapSound
  <2>7. map' = change_chunk(c.map, dom, Tail(k), FailedStatus(Tail(k)))
    BY <2>1, <2>2, <2>5, <2>6, ChangeType DEF map, c
  <2>8. map'.end = map.end
    BY <2>4, <2>5, <2>6, <2>7, ChangeChunkIsMap
  <2>9. Positions(map') = Positions(map) /\ Positions(c.map) = Positions(map)
    BY <2>4, <2>8 DEF Positions
  <2>10. \A p \in Positions(map) :
           map'.st[p] = IF p \in Chunk(Tail(k)) THEN FailedStatus(Tail(k)) ELSE c.map.st[p]
    BY <2>2, <2>5, <2>6, <2>7, <2>9, ChangeChunkStatus
  <2>11. Chunk(chunk) = Chunk(Head(k)) \cup Chunk(Tail(k))
    <3>1. /\ Chunk(Head(k)) = chunk.pos .. chunk.pos + k - 1
          /\ Chunk(Tail(k)) = chunk.pos + k .. chunk.end - 1
      BY <1>3, <2>3
    <3> QED BY <1>2, <1>5, <2>3, <3>1
  <2> QED BY <1>4, <2>1, <2>4, <2>5, <2>9, <2>10, <2>11 DEF ReadStatuses
<1>8. CASE ReadEof
  <2>1. /\ book' = Copied(EofBook, EofDom, Avail) /\ EofDom = dom
        /\ Avail < chunk.end - chunk.pos
        /\ EofFails => pc' = "enter"
    BY <1>1, <1>8 DEF ReadEof, EofDom, Return
  <2>2. /\ EofFails <=> ~Truncatable(map, chunk.pos + Avail)
        /\ EofBook.map = IF EofFails THEN map
                         ELSE truncate_vector(map, chunk.pos + Avail)
    BY <1>1 DEF EofFails, EofBook, initialize_sizes
  <2>3. /\ chunk.pos + Avail \in Nat /\ InEnd <= chunk.pos + Avail
        /\ Avail > 0 => chunk.pos + Avail = InEnd
    BY <1>1, <2>1, AvailType
  <2>4. /\ Positions(EofBook.map) \subseteq Positions(map)
        /\ \A p \in Positions(EofBook.map) : EofBook.map.st[p] = map.st[p]
        /\ \A p \in Positions(map) :
             map.st[p] = "finished" \/ p < InEnd => p \in Positions(EofBook.map)
    <3>1. CASE EofFails
      BY <2>2, <3>1
    <3>2. CASE ~EofFails
      <4>1. \A p \in Positions(map) : map.st[p] = "finished" \/ p < InEnd =>
                                        p < chunk.pos + Avail
        BY <1>1, <2>2, <2>3, <3>2, MapTypes DEF Truncatable, MapSound
      <4> QED BY <1>1, <2>2, <2>3, <3>2, <4>1, TruncateSound DEF MapSound
    <3> QED BY <3>1, <3>2
  <2>5. IsBook(EofBook)
    <3>1. EofBook.map \in {map, truncate_vector(map, chunk.pos + Avail)}
      BY <2>2
    <3> QED BY <1>1, <2>3, <3>1, TruncateIsMap, InitializeType
            DEF EofBook, MapSound, initialize_sizes
  <2>6. Avail > 0 => Ready(EofBook.map, dom, Head(Avail), Target)
    BY <1>1, HeadReady
  <2>7. /\ map'.end = EofBook.map.end
        /\ \A p \in Positions(EofBook.map) :
             map'.st[p] = IF p \in Chunk(Head(Avail)) THEN "finished" ELSE EofBook.map.st[p]
    BY <1>1, <1>2, <2>1, <2>5, <2>6, CopiedStatus DEF map
  <2>8. Positions(map') = Positions(EofBook.map)
    BY <2>7 DEF Positions
  <2>9. Chunk(Head(Avail)) \subseteq Chunk(chunk)
    BY <1>2, <1>3, <1>5
  <2>10. \A p \in Chunk(chunk) : p < InEnd => Avail > 0 /\ p \in Chunk(Head(Avail))
    BY <1>2, <1>3, <1>5, <2>1, <2>3
  <2>11. ASSUME pc' = "after", NEW p \in Chunk(chunk), p \in Positions(map')
         PROVE  map'.st[p] \in ReadStatuses
    <3>1. EofBook.map = truncate_vector(map, chunk.pos + Avail)
      BY <2>1, <2>2, <2>11
    <3>2. p \in Nat /\ p < chunk.pos + Avail
      BY <1>1, <2>3, <2>8, <2>11, <3>1, TruncateSound, MapTypes DEF MapSound
    <3>3. p \in Chunk(Head(Avail))
      BY <1>2, <1>3, <1>5, <3>2
    <3> QED BY <2>7, <2>8, <2>11, <3>3 DEF ReadStatuses
  <2>12. ASSUME NEW p \in Chunk(chunk), p < InEnd
         PROVE  p \in Positions(map') /\ map'.st[p] \in ReadStatuses
    BY <1>4, <2>4, <2>7, <2>8, <2>10, <2>12 DEF ReadStatuses
  <2> QED BY <2>4, <2>7, <2>8, <2>9, <2>11, <2>12 DEF ReadStatuses
<1> QED BY <1>6, <1>7, <1>8

-----------------------------------------------------------------------------
(***************************************************************************)
(* What every step does to the map.                                        *)
(***************************************************************************)

\* The statuses a step may leave behind.
StepStatuses == ReadStatuses \cup
                IF phase \in {"trimming", "scraping"} THEN {"non_scraped"} ELSE {}

\* What a step keeps of the map: what is rescued or lies before EOF, and every
\* status, or the new one is more processed and the position is in the domain.
MapKept ==
  /\ Positions(map') \subseteq Positions(map)
  /\ \A p \in Positions(map) :
       map.st[p] = "finished" \/ p < InEnd => p \in Positions(map')
  /\ \A p \in Positions(map) \cap Positions(map') :
       \/ map'.st[p] = map.st[p]
       \/ /\ p \in dom /\ processed_state[map'.st[p]] >= processed_state[map.st[p]]
          /\ map'.st[p] \in StepStatuses

\* The statuses in their order.
LEMMA Order ==
  /\ processed_state["non_tried"] = 0 /\ processed_state["non_trimmed"] = 1
  /\ processed_state["non_scraped"] = 2 /\ processed_state["bad_sector"] = 3
  /\ processed_state["finished"] = 4
BY DEF processed_state, Status

\* A step that changes no status and no size of the map.
LEMMA KeptBySame ==
  ASSUME Values, map'.end = map.end, map'.st = map.st
  PROVE  MapKept
<1>1. Positions(map') = Positions(map)
  BY DEF Positions
<1> QED BY <1>1 DEF MapKept

\* A read raises its chunk, which was in the domain and of the status read.
LEMMA KeptByRead ==
  ASSUME Values, Control, Sound, ReadsItsTarget, ReadGood \/ ReadBad \/ ReadEof
  PROVE  MapKept
<1>1. /\ Chunk(chunk) \subseteq dom
      /\ \A p \in Chunk(chunk) \cap Positions(map) : map.st[p] = Target
  BY DEF ReadsItsTarget, ReadGood, ReadBad, ReadEof, Reading
<1>2. \A s \in ReadStatuses : processed_state[s] >= processed_state[Target]
  <2>1. CASE phase = "copying"
    BY <2>1, Order DEF ReadStatuses, Target
  <2>2. CASE phase # "copying"
    <3>1. /\ Target \in {"non_trimmed", "non_scraped", "bad_sector"}
          /\ ReadStatuses = {"finished", "bad_sector"}
      BY <2>2 DEF ReadStatuses, Target
    <3> QED BY <3>1, Order
  <2> QED BY <2>1, <2>2
<1>3. /\ Positions(map') \subseteq Positions(map)
      /\ \A p \in Positions(map) :
            map.st[p] = "finished" \/ p < InEnd => p \in Positions(map')
      /\ \A p \in Positions(map') :
            map'.st[p] = map.st[p] \/ (p \in Chunk(chunk) /\ map'.st[p] \in ReadStatuses)
  BY ReadChanges
<1>4. ReadStatuses \subseteq StepStatuses
  BY DEF StepStatuses
<1> QED BY <1>1, <1>2, <1>3, <1>4, Zenon DEF MapKept

\* A block between bad sectors, or what trimming leaves of a block, is raised from
\* non-trimmed to non-scraped.
LEMMA KeptBySectors ==
  ASSUME Values, Control, Sound, LeaveBlock \/ BlockDone
  PROVE  MapKept /\ OnlyLeaves
<1>1. MapSound(map) /\ IsBook(book) /\ pos \in Nat /\ stop \in Nat
  <2>1. ~AtEnd
    BY DEF LeaveBlock, BlockDone, AtEnd
  <2> QED BY <2>1 DEF Sound, BlocksSound, MapSound, Values, IsBook, map
<1>2. "non_scraped" \in Status /\ "non_scraped" \in StepStatuses
  BY DEF Status, StepStatuses, LeaveBlock, BlockDone, Control
<1>3. CASE LeaveBlock
  <2>1. PICK c \in NextBlock :
          book' = [book EXCEPT !.map = change_sblock_status(map, c, "non_scraped")]
    BY <1>3 DEF LeaveBlock
  <2>2. map' = change_sblock_status(map, c, "non_scraped")
    BY <1>1, <2>1 DEF IsBook, map
  <2>3. /\ map'.end = map.end
        /\ \A p \in Positions(map) :
             map'.st[p] = IF p \in Block(map, c) THEN "non_scraped" ELSE map.st[p]
    <3>1. /\ map'.end = map.end
          /\ map'.st = [p \in Positions(map) |->
                         IF p \in Block(map, c) THEN "non_scraped" ELSE map.st[p]]
      <4>1. IsMap(map)
        BY <1>1 DEF MapSound
      <4>2. LET mm == change_sblock_status(map, c, "non_scraped") IN
            /\ mm.end = map.end
            /\ mm.st = [p \in Positions(map) |->
                         IF p \in Block(map, c) THEN "non_scraped" ELSE map.st[p]]
        BY <1>2, <4>1, ChangeSblockIsMap
      <4> QED BY <2>2, <4>2, Zenon
    <3> QED BY <3>1
  <2>4. /\ c \in Positions(map) /\ InDomain(map, c, dom)
        /\ map.st[c] = "non_trimmed"
    BY <1>3, <2>1, NextBlockType DEF BlockStatus, LeaveBlock
  <2>5. \A p \in Block(map, c) : p \in dom /\ map.st[p] = "non_trimmed"
    BY <1>1, <2>4 DEF MapSound, Uniform, Block, InDomain
  <2>6. Positions(map') = Positions(map)
    BY <2>3 DEF Positions
  <2> QED BY <1>2, <2>3, <2>5, <2>6, Order DEF MapKept, OnlyLeaves
<1>4. CASE BlockDone
  <2>1. CASE book' = book
    BY <2>1, KeptBySame DEF map, OnlyLeaves
  <2>2. CASE \E b \in RestOfBlock : book' = change_chunk_status(book, dom, b, "non_scraped")
    <3>1. PICK b \in RestOfBlock : book' = change_chunk_status(book, dom, b, "non_scraped")
      BY <2>2
    <3>2. IsChunk(b) /\ Ready(map, dom, b, "non_trimmed")
      BY <1>1, <3>1, RestIsReady
    <3>3. b.pos < b.end /\ b.pos < map.end
      BY <1>1, <3>2, MapTypes DEF Ready, IsChunk, MapSound
    <3>4. map' = change_chunk(map, dom, b, "non_scraped")
      BY <1>1, <1>2, <3>1, <3>2, <3>3, ChangeType DEF map
    <3>5. map'.end = map.end
      BY <1>1, <1>2, <3>2, <3>3, <3>4, ChangeChunkIsMap DEF MapSound
    <3>6. \A p \in Positions(map) :
            map'.st[p] = IF p \in Chunk(b) THEN "non_scraped" ELSE map.st[p]
      BY <1>1, <1>2, <3>2, <3>4, ChangeChunkStatus DEF MapSound
    <3>7. \A p \in Chunk(b) : p \in dom /\ map.st[p] = "non_trimmed"
      BY <3>2 DEF Ready
    <3>8. Positions(map') = Positions(map)
      BY <3>5 DEF Positions
    <3> QED BY <1>2, <3>5, <3>6, <3>7, <3>8, Order DEF MapKept, OnlyLeaves
  <2> QED BY <1>4, <2>1, <2>2 DEF BlockDone
<1> QED BY <1>3, <1>4

\* The last save joins blocks of one status.
LEMMA KeptByEnd ==
  ASSUME Values, End
  PROVE  MapKept
<1>1. IsBook(book) /\ IsMap(map)
  BY DEF Values, IsBook, map
<1>2. map' = compact(map)
  BY <1>1 DEF End, IsBook, map
<1> QED BY <1>1, <1>2, CompactFields, KeptBySame

\* Every step keeps what it must of the map.
LEMMA StepKeepsMap ==
  TypeOK /\ Control /\ Sound /\ [Next]_vars => MapKept
<1> SUFFICES ASSUME TypeOK, Control, Sound, [Next]_vars PROVE MapKept
  OBVIOUS
<1>1. Values /\ ReadsItsTarget
  BY SoundReads DEF TypeOK
<1>2. CASE ReadGood \/ ReadBad \/ ReadEof
  BY <1>1, <1>2, KeptByRead
<1>3. CASE LeaveBlock \/ BlockDone
  BY <1>1, <1>3, KeptBySectors
<1>4. CASE End
  BY <1>1, <1>4, KeptByEnd
<1>5. CASE UNCHANGED book
  BY <1>1, <1>5, KeptBySame DEF map
<1>6. \/ UNCHANGED book \/ End \/ LeaveBlock \/ BlockDone
      \/ ReadGood \/ ReadBad \/ ReadEof
  <2>1. CASE UNCHANGED vars
    BY <2>1 DEF vars
  <2>2. CASE Rescuing
    BY <2>2, Zenon DEF Rescuing, SkipPhase, EnterCopying, EnterSectors, EnterRetrying,
       StartPass, SkipPass, PassesDone, ScanChunk, EndPass, ReadRefused, Interrupted,
       WriteFailed, InternalError, AfterCopy, AfterCopyFails, AfterRetry, AfterSector,
       TakeBlock, BlocksDone, LeadSector, TrailSector, EndMapfileError
  <2> QED BY <2>1, <2>2 DEF Next, Exited
<1> QED BY <1>2, <1>3, <1>4, <1>5, <1>6

\* In every run without --complete-only, no position goes back to a less processed
\* status, what is rescued or lies before EOF is never cut off the map, and nothing
\* outside of the domain changes.
THEOREM MapMovesOn == Spec /\ ~Has("complete_only") => NeverLessProcessed
<1>1. TypeOK /\ Control /\ Sound /\ [Next]_vars => [KeepsProcessed /\ KeepsOutside]_vars
  <2> SUFFICES ASSUME TypeOK, Control, Sound, [Next]_vars
               PROVE  KeepsProcessed /\ KeepsOutside
    OBVIOUS
  <2>1. MapKept
    BY StepKeepsMap
  <2>2. \A p \in Positions(map) : map.st[p] \in Status /\ p \in Nat
    BY MapTypes DEF TypeOK, Values, IsBook, map
  <2>3. \A s \in Status : processed_state[s] \in Nat
    BY DEF processed_state, Status
  <2>4. KeepsProcessed
    BY <2>1, <2>2, <2>3 DEF MapKept, KeepsProcessed
  <2>5. KeepsOutside
    BY <2>1 DEF MapKept, KeepsOutside
  <2> QED BY <2>4, <2>5
<1> QED BY RunIsSound, <1>1, PTL DEF Spec, NeverLessProcessed

\* In every run without --complete-only: after a limit is met nothing is read, only
\* blocks left for scraping change, and the run ends with status 1, not as finished.
THEOREM LimitsEnd == Spec /\ ~Has("complete_only") => LimitsEndRun
<1>1. TypeOK /\ Control /\ Sound /\ [Next]_vars => [StopsAtLimit]_vars
  <2> SUFFICES ASSUME TypeOK, Control, Sound, Rescuing PROVE StopsAtLimit
    BY DEF Next, Exited
  <2> USE DEF StopsAtLimit
  <2>1. Values /\ UNCHANGED book => OnlyLeaves
    BY DEF OnlyLeaves, map
  <2>2. CASE LeaveBlock \/ BlockDone
    <3>1. OnlyLeaves
      BY <2>2, KeptBySectors DEF TypeOK
    <3> QED BY <2>2, <3>1 DEF LeaveBlock, BlockDone, fileVars, Control
  <2>0. Post /\ pc = "read" => cur'.status \in {phase, cur.status} /\ phase # "finished"
    BY DEF Post, Control, Values, TypeOK, Phases
  <2>3. CASE ReadRefused \/ Interrupted
    <3>1. cur'.status \in {phase, cur.status} /\ pc' = "enter" /\ phase # "finished"
      BY <2>0, <2>3 DEF ReadRefused, Interrupted, Return
    <3> QED BY <2>1, <2>3, <3>1 DEF ReadRefused, Interrupted, TypeOK, fileVars, Phases
  <2>4. CASE WriteFailed \/ ReadGood \/ ReadBad \/ ReadEof \/ InternalError
    <3>1. e_code = {} /\ Post /\ pc = "read"
      BY <2>4 DEF WriteFailed, ReadGood, ReadBad, ReadEof, InternalError, Reading, Errors
    <3>2. pc' # "done"
      BY <2>4 DEF WriteFailed, ReadGood, ReadBad, ReadEof, InternalError, Return
    <3> QED BY <2>0, <3>1, <3>2
  <2>5. CASE End
    <3>1. PICK late \in SUBSET (Limits \cap TimeLimits) :
            LET failed == retval = 1 \/ Errors \cup late # {}
            IN  /\ e_code' = (IF retval = 1 THEN e_code ELSE Errors) \cup late
                /\ failed => cur' = cur /\ retval' = 1
      BY <2>5 DEF End
    <3>2. OnlyLeaves
      BY <2>5, CompactFields DEF End, OnlyLeaves, map, TypeOK, Values, IsBook
    <3> QED BY <2>5, <3>1, <3>2 DEF End
  <2>6. CASE EndMapfileError
    BY <2>1, <2>6 DEF EndMapfileError, fileVars, TypeOK
  <2>7. CASE AfterCopy \/ AfterRetry \/ AfterSector
    <3>1. pc' # "done"
      <4>1. PICK next \in {"find", "sector"} : RatesAndSave(next)
        BY <2>7 DEF AfterCopy, AfterRetry, AfterSector
      <4> QED BY <4>1 DEF RatesAndSave, Return
    <3> QED BY <2>1, <2>7, <3>1 DEF AfterCopy, AfterRetry, AfterSector, TypeOK
  <2>8. CASE EnterCopying
    BY <2>1, <2>8 DEF EnterCopying, fileVars, TypeOK, Values, IsCur, runVars
  <2>9. CASE \/ SkipPhase \/ EnterSectors \/ EnterRetrying \/ StartPass \/ SkipPass
             \/ PassesDone \/ ScanChunk \/ EndPass \/ AfterCopyFails \/ TakeBlock
             \/ BlocksDone \/ LeadSector \/ TrailSector
    <3>1. UNCHANGED <<book, dom, cur, outfile>> /\ pc' # "done"
      BY <2>9 DEF SkipPhase, EnterSectors, EnterRetrying, StartPass, SkipPass, PassesDone,
         ScanChunk, EndPass, AfterCopyFails, TakeBlock, BlocksDone, LeadSector,
         TrailSector, PhaseDone, Return, fileVars
    <3> QED BY <2>1, <3>1 DEF TypeOK
  <2> QED BY <2>2, <2>3, <2>4, <2>5, <2>6, <2>7, <2>8, <2>9 DEF Rescuing
<1> QED BY InitType, SoundInit, TypesStep, SoundStep, <1>1, PTL
        DEF Spec, LimitsEndRun

\* In every run without --complete-only, a read leaves no sector before EOF of its
\* chunk as it was, and a read of a single sector before the retries is the last.
THEOREM TriedTwice ==
  Spec /\ ~Has("complete_only") => TriedAtMostTwice
<1>1. TypeOK /\ Control /\ Sound /\ [Next]_vars => [ReadDecides]_vars
  <2> SUFFICES ASSUME TypeOK, Control, Sound, [Next]_vars,
                      pc = "read", pc' = "after" \/ map' # map, phase # "retrying",
                      NEW p \in Chunk(chunk), p < InEnd
               PROVE  /\ p \in Positions(map') /\ map'.st[p] # map.st[p]
                      /\ phase # "copying" => map'.st[p] \in {"bad_sector", "finished"}
    BY DEF ReadDecides
  <2>1. Values /\ ReadsItsTarget
    BY SoundReads DEF TypeOK
  <2>2. ReadGood \/ ReadBad \/ ReadEof
    <3>1. CASE UNCHANGED vars
      BY <3>1 DEF vars, map
    <3>2. CASE Rescuing
      BY <3>2, Zenon DEF Rescuing, SkipPhase, EnterCopying, EnterSectors, EnterRetrying,
         StartPass, SkipPass, PassesDone, ScanChunk, EndPass, ReadRefused, Interrupted,
         WriteFailed, InternalError, AfterCopy, AfterCopyFails, AfterRetry, AfterSector,
         LeaveBlock, TakeBlock, BlocksDone, LeadSector, TrailSector, BlockDone,
         EndMapfileError, End, Return, map
    <3> QED BY <3>1, <3>2 DEF Next, Exited
  <2>3. p \in Positions(map') /\ map'.st[p] \in ReadStatuses
    BY <2>1, <2>2, ReadChanges
  <2>4. p \in Positions(map) /\ map.st[p] = Target
    BY <2>1, <2>2, <2>3, ReadChanges DEF ReadsItsTarget
  <2>5. Target \notin ReadStatuses
    BY <2>1 DEF Control, Values, Phases, ReadStatuses, Target
  <2> QED BY <2>3, <2>4, <2>5 DEF ReadStatuses
<1> QED BY InitType, SoundInit, TypesStep, SoundStep, <1>1, PTL
        DEF Spec, TriedAtMostTwice

-----------------------------------------------------------------------------
(***************************************************************************)
(* The chunks of a pass follow each other.                                 *)
(***************************************************************************)

\* Within a pass, the position where the next chunk is looked for has the chunk
\* read last behind it, whatever was skipped.
Behind ==
  InPasses /\ block_found /\ pc \in {"find", "read", "after"} =>
    IF Forward THEN chunk.end <= pos ELSE pos <= chunk.pos

\* A skip moves in the direction of the pass.
LEMMA SkipMovesOn ==
  ASSUME Values, NEW len \in Nat, NEW p \in SkipTo(len)
  PROVE  p \in Nat /\ IF Forward THEN pos <= p ELSE p <= pos
<1>1. PICK b \in ChunkFrom(pos, len, HardBS, FALSE) : near(b) = pos /\ p = far(b)
  BY DEF SkipTo
<1>2. len \in Nat \ {0} /\ HardBS \in Nat \ {0} /\ pos \in Nat
  BY DEF SkipTo, Values
<1>3. IsChunk(b) /\ b.pos < b.end
  BY <1>2, ChunkFromType, Zenon
<1> QED BY <1>1, <1>3 DEF near, far, IsChunk

\* The chunk found next is at pos or after it, and pos is moved behind it.
LEMMA ScanMovesOn ==
  ASSUME Values, Behind, ScanChunk
  PROVE  MovesOn /\ Behind'
<1>1. PICK b \in ChunkFrom(pos, ReadSize, ReadSize, AtEdges) :
        chunk' = b /\ pos' = far(b)
  BY DEF ScanChunk
<1>2. pos \in Nat /\ ReadSize \in Nat \ {0} /\ chunk.pos \in Nat /\ chunk.end \in Nat
  BY DEF Values, ReadSize
<1>3. IsChunk(b) /\ IF Forward THEN pos <= b.pos ELSE b.end <= pos
  BY <1>2, ChunkFromType, Zenon
<1>4. pc = "find" /\ UNCHANGED <<phase, pass, opts>>
  BY DEF ScanChunk, passVars, runVars
<1>5. Forward' = Forward
  BY <1>4 DEF Forward, Has
<1>6. MovesOn
  BY <1>1, <1>2, <1>3, <1>4 DEF MovesOn, Behind, IsChunk
<1>7. IF Forward THEN chunk'.end <= pos' ELSE pos' <= chunk'.pos
  BY <1>1, <1>3 DEF far, IsChunk
<1> QED BY <1>5, <1>6, <1>7 DEF Behind

\* Skipping after a read keeps the chunk behind.
LEMMA AfterMovesOn ==
  ASSUME Values, Behind, AfterCopy
  PROVE  Behind'
<1>1. pos' \in Nat /\ IF Forward THEN pos <= pos' ELSE pos' <= pos
  <2>1. CASE pos' = pos
    BY <2>1 DEF Values
  <2>2. CASE pos' # pos
    <3>1. PICK len \in SkipSizes : pos' \in IF SkipTo(len) = {} THEN {pos} ELSE SkipTo(len)
      BY <2>2 DEF AfterCopy
    <3>2. len \in Nat /\ pos' \in SkipTo(len)
      BY <2>2, <3>1, SkipType
    <3> QED BY <3>2, SkipMovesOn
  <2> QED BY <2>1, <2>2
<1>2. /\ pc = "after" /\ phase = "copying"
      /\ UNCHANGED <<pass, opts, chunk, block_found>>
      /\ phase' = phase \/ phase' = "ending"
  <2>1. RatesAndSave("find")
    BY DEF AfterCopy
  <2> QED BY <2>1 DEF AfterCopy, passVars, runVars, readVars, RatesAndSave, Return
<1>3. Forward' = Forward
  BY <1>2 DEF Forward, Has
<1>4. chunk.pos \in Nat /\ chunk.end \in Nat /\ pos \in Nat
  BY DEF Values
<1> QED BY <1>1, <1>2, <1>3, <1>4 DEF Behind, InPasses

\* The step leaves the pass as it is, and finds no chunk.
StaysInPass ==
  /\ UNCHANGED <<phase, pass, opts, chunk, pos, block_found>>
  /\ pc' = "find" => pc \in {"find", "after"}
  /\ pc' = "read" => pc = "read"
  /\ pc' = "after" => pc \in {"read", "after"}

\* The step leaves the pass, or begins one.
LeavesPass ==
  /\ pc' \notin {"find", "read", "after"} \/ ~InPasses' \/ ~block_found'
  /\ pc' = "read" => pc # "find"

\* Every other step does one or the other.
LEMMA Others ==
  ASSUME TypeOK, Control, Rescuing, ~ScanChunk, ~AfterCopy
  PROVE  StaysInPass \/ LeavesPass
<1> USE DEF runVars, passVars, scanVars, readVars, PhaseDone, Return
<1>1. CASE SkipPhase \/ EnterCopying \/ EnterRetrying \/ SkipPass \/ PassesDone
  BY <1>1 DEF SkipPhase, EnterCopying, EnterRetrying, SkipPass, PassesDone, LeavesPass
<1>2. CASE EnterSectors \/ LeaveBlock \/ TakeBlock \/ BlocksDone
  BY <1>2 DEF EnterSectors, LeaveBlock, TakeBlock, BlocksDone, LeavesPass, InPasses
<1>3. CASE LeadSector \/ TrailSector \/ BlockDone
  <2>1. phase' \in {"trimming", "scraping"} /\ pc = "sector"
    BY <1>3 DEF LeadSector, TrailSector, BlockDone, Control
  <2> QED BY <2>1 DEF LeavesPass, InPasses
<1>4. CASE StartPass
  BY <1>4 DEF StartPass, LeavesPass
<1>5. CASE EndPass
  BY <1>5 DEF EndPass, LeavesPass
<1>6. CASE ReadRefused \/ Interrupted \/ WriteFailed \/ InternalError
  BY <1>6 DEF ReadRefused, Interrupted, WriteFailed, InternalError, LeavesPass
<1>7. CASE ReadGood
  BY <1>7 DEF ReadGood, Reading, StaysInPass
<1>8. CASE ReadBad
  <2>1. pc = "read" /\ UNCHANGED <<pass, opts, chunk, pos, block_found>>
    BY <1>8 DEF ReadBad, Reading
  <2>2. pc' = "enter" \/ (pc' = "after" /\ phase' = phase)
    BY <1>8 DEF ReadBad
  <2> QED BY <2>1, <2>2 DEF StaysInPass, LeavesPass
<1>9. CASE ReadEof
  <2>1. pc = "read" /\ UNCHANGED <<pass, opts, chunk, pos, block_found>>
    BY <1>9 DEF ReadEof, Reading
  <2>2. pc' = "enter" \/ (pc' = "after" /\ phase' = phase)
    BY <1>9 DEF ReadEof
  <2> QED BY <2>1, <2>2 DEF StaysInPass, LeavesPass
<1>10. CASE AfterCopyFails \/ EndMapfileError \/ End
  BY <1>10 DEF AfterCopyFails, EndMapfileError, End, LeavesPass
<1>11. CASE AfterRetry
  <2>1. pc = "after" /\ UNCHANGED <<pass, opts, chunk, pos, block_found>>
    BY <1>11 DEF AfterRetry
  <2>2. pc' = "enter" \/ (pc' = "find" /\ phase' = phase)
    BY <1>11 DEF AfterRetry, RatesAndSave
  <2> QED BY <2>1, <2>2 DEF StaysInPass, LeavesPass
<1>12. CASE AfterSector
  <2>1. pc' \in {"enter", "sector"}
    BY <1>12 DEF AfterSector, RatesAndSave
  <2> QED BY <2>1 DEF LeavesPass
<1> QED BY <1>1, <1>2, <1>3, <1>4, <1>5, <1>6, <1>7, <1>8, <1>9, <1>10, <1>11, <1>12,
           Zenon DEF Rescuing

\* Neither loses the chunk read last, nor finds another one.
LEMMA OthersMoveOn ==
  ASSUME TypeOK, Control, Behind, [Next]_vars, ~ScanChunk, ~AfterCopy
  PROVE  MovesOn /\ Behind'
<1>1. CASE StaysInPass
  <2>1. Forward' = Forward /\ InPasses' = InPasses
    BY <1>1 DEF StaysInPass, Forward, Has, InPasses
  <2> QED BY <1>1, <2>1, Zenon DEF StaysInPass, Behind, MovesOn
<1>2. CASE LeavesPass
  BY <1>2 DEF LeavesPass, Behind, MovesOn
<1>3. StaysInPass \/ LeavesPass
  <2>1. CASE UNCHANGED vars
    BY <2>1 DEF vars, runVars, passVars, scanVars, readVars, StaysInPass, LeavesPass
  <2>2. CASE Rescuing
    BY <2>2, Others
  <2> QED BY <2>1, <2>2 DEF Next, Exited
<1> QED BY <1>1, <1>2, <1>3

\* In every run, the chunks of a pass follow each other in its direction: none is
\* read twice in the pass, whatever is skipped, fails or meets EOF.
THEOREM PassesMoveOn == Spec => PassMovesOn
<1>1. Init => Behind
  BY DEF Init, Behind
<1>2. TypeOK /\ Control /\ Behind /\ [Next]_vars => Behind' /\ MovesOn
  <2> SUFFICES ASSUME TypeOK, Control, Behind, [Next]_vars PROVE Behind' /\ MovesOn
    OBVIOUS
  <2>1. CASE ScanChunk
    BY <2>1, ScanMovesOn DEF TypeOK
  <2>2. CASE AfterCopy
    <3>1. Behind'
      BY <2>2, AfterMovesOn DEF TypeOK
    <3>2. MovesOn
      BY <2>2 DEF AfterCopy, MovesOn
    <3> QED BY <3>1, <3>2
  <2>3. CASE ~ScanChunk /\ ~AfterCopy
    BY <2>3, OthersMoveOn
  <2> QED BY <2>1, <2>2, <2>3
<1> QED BY InitType, TypesStep, <1>1, <1>2, PTL DEF Spec, PassMovesOn

-----------------------------------------------------------------------------
(***************************************************************************)
(* What each phase has done so far.                                        *)
(***************************************************************************)

\* Every position of the domain has been processed to level k at least.
Level(k) ==
  \A p \in Positions(map) : p \in dom => processed_state[map.st[p]] >= k

\* A phase that is not pending has nothing to do, and never will have.
Pending ==
  /\ "copying" \notin pending => Level(1)
  /\ "trimming" \notin pending => Level(2)
  /\ "scraping" \notin pending => Level(3)

\* The run resumes the fifth pass of an interrupted run.
ResumesPass5 == CPass = 1 .. 5 /\ cur.status = "copying" /\ cur.pass = 5

Ahead(z) == IF Forward THEN z >= pos ELSE z < pos
AtStart  == pos = IF Forward THEN 0 ELSE map.end
NonTried == Of(map, dom, "non_tried")

\* The fifth pass starts at the beginning and skips nothing, so that what is to be
\* tried is ahead of it or in the chunk it is reading; and a pass that finds nothing
\* from its beginning on has nothing before it.
Copying ==
  phase = "copying" =>
    /\ 5 \in CPass
    /\ pc = "enter" => ~ResumesPass5
    /\ pc # "enter" => (resume => CPass = 1 .. 5 /\ pass <= 4)
    /\ pc \in {"find", "read", "after"} => pass <= 5
    /\ pc = "pass" /\ pass > 5 => None("non_tried")
    /\ pc \in {"read", "after"} => block_found
    /\ pc = "find" /\ ~block_found => AtStart \/ BlocksAhead(pos) # {}
    /\ pass = 5 /\ pc \in {"find", "after"} => \A z \in NonTried : Ahead(z)
    /\ pass = 5 /\ pc = "read" => \A z \in NonTried : Ahead(z) \/ z \in Chunk(chunk)

\* The blocks to trim or to scrape have no lower index than the block the loop is
\* at, although blocks are split and joined under it.  Counted from the end of the
\* map, that is so only if the map is not cut off at EOF.
Passed(m) == IF Has("reverse") THEN AllAbove(m, dom, BlockStatus, i)
                               ELSE AllBelow(m, dom, BlockStatus, i)

Indexed ==
  /\ phase \in {"trimming", "scraping"} /\ pc # "enter" => Passed(map)
  /\ phase = "scraping" /\ InSectors => edge = "lead"
  /\ Has("reverse") => map.end <= InEnd

-----------------------------------------------------------------------------
(***************************************************************************)
(* What the steps have in common.                                          *)
(***************************************************************************)

\* Neither the domain nor the options nor the phases pending change.
LEMMA FixedVars ==
  ASSUME [Next]_vars, ~Has("complete_only")
  PROVE  dom' = dom /\ opts' = opts /\ pending' = pending
<1>1. CASE UNCHANGED vars
  BY <1>1 DEF vars, runVars
<1>2. CASE ReadEof
  BY <1>2 DEF ReadEof, EofDom, runVars
<1>3. CASE Rescuing /\ ~ReadEof
  BY <1>3, Zenon DEF Rescuing, SkipPhase, EnterCopying, EnterSectors, EnterRetrying,
     StartPass, SkipPass, PassesDone, ScanChunk, EndPass, ReadRefused, Interrupted,
     WriteFailed, ReadGood, ReadBad, InternalError, AfterCopy, AfterCopyFails,
     AfterRetry, AfterSector, LeaveBlock, TakeBlock, BlocksDone, LeadSector,
     TrailSector, BlockDone, EndMapfileError, End, runVars
<1> QED BY <1>1, <1>2, <1>3 DEF Next, Exited

\* An error that ends the run is not forgotten.
LEMMA ErrorsStay ==
  ASSUME [Next]_vars, e_code' = {}
  PROVE  e_code = {}
<1> USE DEF errVars, Errors
<1>1. CASE UNCHANGED vars
  BY <1>1 DEF vars
<1>2. CASE SkipPhase \/ ReadRefused \/ AfterCopyFails
  BY <1>2 DEF SkipPhase, ReadRefused, AfterCopyFails
<1>3. CASE ReadBad
  BY <1>3 DEF ReadBad
<1>4. CASE AfterCopy \/ AfterRetry \/ AfterSector
  <2>1. PICK next : RatesAndSave(next)
    BY <1>4 DEF AfterCopy, AfterRetry, AfterSector
  <2> QED BY <2>1 DEF RatesAndSave
<1>5. CASE End
  BY <1>5 DEF End
<1>6. CASE \/ EnterCopying \/ EnterSectors \/ EnterRetrying \/ StartPass \/ SkipPass
           \/ PassesDone \/ ScanChunk \/ EndPass \/ Interrupted \/ WriteFailed
           \/ ReadGood \/ ReadEof \/ InternalError \/ LeaveBlock \/ TakeBlock
           \/ BlocksDone \/ LeadSector \/ TrailSector \/ BlockDone \/ EndMapfileError
  BY <1>6, Zenon DEF EnterCopying, EnterSectors, EnterRetrying, StartPass, SkipPass,
     PassesDone, ScanChunk, EndPass, Interrupted, WriteFailed, ReadGood, ReadEof,
     InternalError, LeaveBlock, TakeBlock, BlocksDone, LeadSector, TrailSector,
     BlockDone, EndMapfileError
<1> QED BY <1>1, <1>2, <1>3, <1>4, <1>5, <1>6 DEF Next, Exited, Rescuing

\* No step lowers a level ...
LEMMA LevelStep ==
  ASSUME Values, MapKept, dom' = dom, NEW k \in Nat, Level(k)
  PROVE  Level(k)'
<1> SUFFICES ASSUME NEW p \in Positions(map'), p \in dom
             PROVE  processed_state[map'.st[p]] >= k
  BY DEF Level
<1>1. p \in Positions(map) /\ map.st[p] \in Status
  BY MapTypes DEF MapKept, Values, IsBook, map
<1>2. processed_state[map.st[p]] >= k
  BY <1>1 DEF Level
<1>3. \/ map'.st[p] = map.st[p]
      \/ /\ processed_state[map'.st[p]] >= processed_state[map.st[p]]
         /\ map'.st[p] \in Status
  BY <1>1 DEF MapKept, StepStatuses, ReadStatuses, Status
<1>4. \A s \in Status : processed_state[s] \in Nat
  BY DEF processed_state, Status
<1> QED BY <1>1, <1>2, <1>3, <1>4

\* ... or brings back a status that none leaves behind at this point.
LEMMA NoneStep ==
  ASSUME MapKept, dom' = dom, NEW s, s \notin StepStatuses, None(s)
  PROVE  None(s)'
BY DEF None, MapKept

\* What the levels mean.
LEMMA LevelNone ==
  /\ Level(1) => None("non_tried")
  /\ Level(2) => None("non_trimmed")
  /\ Level(3) => None("non_scraped")
BY Order DEF Level, None

\* How a step may change the phase.
LEMMA PhaseSteps ==
  ASSUME Control, [Next]_vars
  PROVE  \/ phase' = phase /\ retval' = retval
         \/ phase' = "ending" /\ retval' # 0
         \/ phase = "ending" /\ phase' = "ending" /\ (retval' = 0 => retval = 0)
         \/ /\ SkipPhase \/ PassesDone \/ EndPass \/ BlocksDone
            /\ phase \in Phases /\ PhaseDone
            /\ UNCHANGED <<book, dom, opts, retval>>
<1> USE DEF Return, errVars, runVars
<1>1. CASE UNCHANGED vars
  BY <1>1 DEF vars
<1>2. CASE SkipPhase \/ PassesDone \/ EndPass \/ BlocksDone
  <2>1. UNCHANGED <<book, dom, opts, retval>> /\ phase \in Phases
    BY <1>2 DEF SkipPhase, PassesDone, EndPass, BlocksDone, Phases, Control
  <2>2. PhaseDone \/ phase' = phase
    BY <1>2 DEF SkipPhase, PassesDone, EndPass, BlocksDone
  <2> QED BY <1>2, <2>1, <2>2
<1>3. CASE \/ EnterCopying \/ EnterSectors \/ EnterRetrying \/ StartPass \/ SkipPass
           \/ ScanChunk \/ ReadGood \/ InternalError \/ LeaveBlock \/ TakeBlock
           \/ LeadSector \/ TrailSector \/ BlockDone
  BY <1>3, Zenon DEF EnterCopying, EnterSectors, EnterRetrying, StartPass, SkipPass,
     ScanChunk, ReadGood, InternalError, LeaveBlock, TakeBlock, LeadSector,
     TrailSector, BlockDone
<1>4. CASE ReadRefused \/ Interrupted \/ WriteFailed \/ AfterCopyFails \/ EndMapfileError
  <2>1. CASE EndMapfileError
    BY <2>1 DEF EndMapfileError
  <2>2. CASE ReadRefused \/ Interrupted \/ WriteFailed \/ AfterCopyFails
    <3>1. Return(1) \/ Return(-1)
      BY <2>2, Zenon DEF ReadRefused, Interrupted, WriteFailed, AfterCopyFails
    <3> QED BY <3>1
  <2> QED BY <1>4, <2>1, <2>2
<1>5. CASE ReadBad \/ ReadEof
  BY <1>5 DEF ReadBad, ReadEof
<1>6. CASE AfterCopy \/ AfterRetry \/ AfterSector
  <2>1. PICK next : RatesAndSave(next)
    BY <1>6 DEF AfterCopy, AfterRetry, AfterSector
  <2> QED BY <2>1 DEF RatesAndSave
<1>7. CASE End
  BY <1>7 DEF End
<1> QED BY <1>1, <1>2, <1>3, <1>4, <1>5, <1>6, <1>7 DEF Next, Exited, Rescuing

\* The map is sound until the run ends.
LEMMA SoundMap ==
  ASSUME Values, Sound, ~AtEnd
  PROVE  MapSound(map) /\ map.end \in Nat /\ pos \in Nat
BY MapTypes DEF Values, Sound, BlocksSound, MapSound, IsBook, map

\* The index of a block is the number of those on one side of it.
LEMMA IndexIs ==
  ASSUME NEW c
  PROVE  Index(c) = IF Has("reverse") THEN Cardinality(Above(map, c))
                                      ELSE Cardinality(Below(map, c))
BY Zenon DEF Index, Above, Below

-----------------------------------------------------------------------------
(***************************************************************************)
(* What a phase leaves when it is done.                                    *)
(***************************************************************************)

\* If no block is ahead, no position to read is.
LEMMA NothingAhead ==
  ASSUME MapSound(map), pos \in Nat, BlocksAhead(pos) = {},
         NEW z \in Of(map, dom, PassStatus)
  PROVE  ~Ahead(z)
<1>1. z \in Nat
  BY MapTypes DEF MapSound, Of
<1>2. PICK c \in map.cuts :
        /\ pos <= z => c \in BlocksFrom(map, dom, pos, PassStatus, FALSE)
        /\ z < pos => c \in BlocksUpTo(map, dom, pos, PassStatus, FALSE)
  BY BlocksFound DEF MapSound
<1> QED BY <1>1, <1>2 DEF BlocksAhead, Ahead

\* From the start of a pass, every position is ahead.
LEMMA AllAhead ==
  ASSUME MapSound(map), AtStart, NEW z \in Positions(map)
  PROVE  Ahead(z)
BY MapTypes DEF MapSound, AtStart, Ahead

\* A phase that is not wanted, whose passes are done, or whose pass or loop over the
\* blocks finds nothing more, leaves nothing for itself.
LEMMA PhaseLeavesNothing ==
  ASSUME TypeOK, Control, Sound, Pending, Copying, Indexed, e_code' = {},
         SkipPhase \/ PassesDone \/ EndPass \/ BlocksDone, phase' # phase
  PROVE  /\ phase = "copying" => None("non_tried")
         /\ phase = "trimming" /\ ~Has("notrim") => None("non_trimmed")
         /\ phase = "scraping" /\ ~Has("noscrape") => None("non_scraped")
<1>1. Values /\ MapSound(map) /\ pos \in Nat
  BY SoundMap DEF TypeOK, SkipPhase, PassesDone, EndPass, BlocksDone, AtEnd
<1>2. CASE SkipPhase
  <2>1. ~Wanted
    BY <1>2 DEF SkipPhase
  <2>2. /\ phase = "copying" => "copying" \notin pending
        /\ phase = "trimming" /\ ~Has("notrim") => "trimming" \notin pending
        /\ phase = "scraping" /\ ~Has("noscrape") => "scraping" \notin pending
    BY <2>1 DEF Wanted
  <2> QED BY <2>2, LevelNone DEF Pending
<1>3. CASE PassesDone
  BY <1>3 DEF PassesDone, Control, Copying
<1>4. CASE EndPass
  <2>1. /\ pc = "find" /\ phase \in {"copying", "retrying"}
        /\ ~block_found /\ BlocksAhead(pos) = {}
    BY <1>4 DEF EndPass
  <2>2. ASSUME phase = "copying" PROVE None("non_tried")
    <3>1. AtStart /\ PassStatus = "non_tried"
      BY <2>1, <2>2 DEF Copying, PassStatus
    <3>2. Of(map, dom, "non_tried") = {}
      BY <1>1, <2>1, <3>1, NothingAhead, AllAhead DEF Of
    <3> QED BY <3>2 DEF None, Of
  <2> QED BY <2>1, <2>2
<1>5. CASE BlocksDone
  <2>1. /\ pc = "find" /\ phase \in {"trimming", "scraping"} /\ NextBlock = {}
        /\ Passed(map)
    BY <1>5 DEF BlocksDone, Indexed
  <2> DEFINE F == {c \in map.cuts : /\ map.st[c] = BlockStatus
                                    /\ InDomain(map, c, dom) /\ Index(c) >= i}
  <2>2. F = {}
    <3>1. F \in SUBSET Nat /\ \A c \in F : c <= map.end
      BY <1>1, MapTypes DEF MapSound
    <3>2. map.end \in Nat
      BY <1>1, MapTypes DEF MapSound
    <3> HIDE DEF F
    <3>3. F # {} => First(F) # {} /\ Last(F) # {}
      BY <3>1, <3>2, FirstExists, LastExists
    <3> QED BY <2>1, <3>3 DEF NextBlock, NextOf, F
  <2>3. ASSUME NEW z \in Of(map, dom, BlockStatus) PROVE FALSE
    <3>1. PICK c \in map.cuts : c \in BlocksFrom(map, dom, 0, BlockStatus, FALSE)
      <4>1. 0 \in Nat /\ 0 <= z
        BY <1>1, MapTypes DEF MapSound, Of
      <4>2. \E c \in map.cuts : \A q \in Nat :
              q <= z => c \in BlocksFrom(map, dom, q, BlockStatus, FALSE)
        BY <1>1, BlocksFound, Zenon DEF MapSound
      <4> QED BY <4>1, <4>2
    <3>2. map.st[c] = BlockStatus /\ InDomain(map, c, dom)
      BY <3>1 DEF BlocksFrom
    <3>3. c \in dom
      BY <1>1, <3>2, MapTypes, InDomainIn DEF MapSound
    <3>4. Index(c) >= i
      BY <2>1, <3>2, <3>3, IndexIs DEF Passed, AllAbove, AllBelow
    <3> QED BY <2>2, <3>2, <3>4
  <2>4. None(BlockStatus)
    BY <2>3 DEF None, Of
  <2> QED BY <2>1, <2>4 DEF BlockStatus
<1> QED BY <1>2, <1>3, <1>4, <1>5

-----------------------------------------------------------------------------
(***************************************************************************)
(* The copying passes.                                                     *)
(***************************************************************************)

\* What is to be tried is ahead of the chunk found in the fifth pass, or in it; and
\* if none is found, nothing is ahead.
LEMMA ScanAhead ==
  ASSUME MapSound(map), pos \in Nat, phase = "copying", pass = 5
  PROVE  /\ \A b \in ChunkFrom(pos, ReadSize, ReadSize, AtEdges), z \in NonTried :
              Ahead(z) => IF Forward THEN b.pos <= z ELSE z < b.end
         /\ ChunkFrom(pos, ReadSize, ReadSize, AtEdges) = {} => BlocksAhead(pos) = {}
<1>1. AtEdges = FALSE
  BY DEF AtEdges
<1>2. /\ PassStatus = "non_tried" /\ NonTried = Of(map, dom, PassStatus)
      /\ ReadSize \in Nat \ {0}
  BY DEF PassStatus, NonTried, ReadSize
<1> DEFINE f == find_chunk(map, dom, pos, ReadSize, PassStatus, ReadSize, FALSE)
           r == rfind_chunk(map, dom, pos, ReadSize, PassStatus, ReadSize, FALSE)
<1>3. /\ \A b \in f, z \in NonTried : pos <= z => b.pos <= z
      /\ f = {} => BlocksFrom(map, dom, pos, PassStatus, FALSE) = {}
  BY <1>2, FindsFirst DEF MapSound
<1>4. /\ \A b \in r, z \in NonTried : z < pos => z < b.end
      /\ r = {} => BlocksUpTo(map, dom, pos, PassStatus, FALSE) = {}
  BY <1>2, FindsLast DEF MapSound
<1>5. /\ ChunkFrom(pos, ReadSize, ReadSize, AtEdges) = IF Forward THEN f ELSE r
      /\ BlocksAhead(pos) = IF Forward THEN BlocksFrom(map, dom, pos, PassStatus, FALSE)
                            ELSE BlocksUpTo(map, dom, pos, PassStatus, FALSE)
  BY <1>1 DEF ChunkFrom, BlocksAhead
<1>6. \A z \in NonTried : z \in Nat
  BY MapTypes DEF NonTried, MapSound, Of
<1> HIDE DEF f, r
<1> QED BY <1>3, <1>4, <1>5, <1>6 DEF Ahead

\* Where a resumed pass goes on, there is something ahead.
LEMMA ResumesAtBlock ==
  ASSUME Values, MapSound(map), NEW b \in ResumeAt
  PROVE  BlocksAhead(near(b)) # {}
<1>1. b \in ChunkFrom(cur.pos, 1, HardBS, FALSE)
  BY Zenon DEF ResumeAt
<1>6. cur.pos \in Nat /\ 1 \in Nat \ {0} /\ HardBS \in Nat \ {0}
  BY DEF Values, IsCur
<1>2. IsChunk(b) /\ Ready(map, dom, b, PassStatus)
  BY <1>1, <1>6, ChunkFromType, Zenon DEF MapSound
<1>3. b.pos \in Of(map, dom, PassStatus) /\ b.pos \in Nat /\ b.end \in Nat /\ b.pos < b.end
  BY <1>2, MapTypes DEF Ready, IsChunk, Chunk, Of, MapSound
<1>4. PICK c \in map.cuts :
        /\ \A q \in Nat : q <= b.pos => c \in BlocksFrom(map, dom, q, PassStatus, FALSE)
        /\ \A q \in Nat : b.pos < q => c \in BlocksUpTo(map, dom, q, PassStatus, FALSE)
  BY <1>3, BlocksFound, Zenon DEF MapSound
<1>7. b.pos <= b.pos
  BY <1>3
<1>5. /\ c \in BlocksFrom(map, dom, b.pos, PassStatus, FALSE)
      /\ c \in BlocksUpTo(map, dom, b.end, PassStatus, FALSE)
  BY <1>3, <1>4, <1>7, Zenon
<1> QED BY <1>5 DEF BlocksAhead, near

\* The passes follow each other up to the fifth, which is not left before it has
\* nothing ahead.
LEMMA CopyingByPasses ==
  ASSUME Values, Control, Sound, Copying, phase' = "copying",
         EnterCopying \/ StartPass \/ SkipPass \/ ScanChunk \/ EndPass
  PROVE  Copying'
<1>1. MapSound(map) /\ pos \in Nat /\ map.end \in Nat /\ pass \in Nat
  BY SoundMap DEF Values, EnterCopying, StartPass, SkipPass, ScanChunk, EndPass, AtEnd
<1>2. UNCHANGED <<book, dom, opts>> /\ phase = "copying" /\ 5 \in CPass
  BY NextPhaseType
     DEF EnterCopying, StartPass, SkipPass, ScanChunk, EndPass, runVars, PhaseDone,
         NextPhase, Phases, Copying
<1>3. map' = map /\ NonTried' = NonTried
  BY <1>2 DEF map, NonTried
<1>4. CASE EnterCopying
  <2>1. /\ ~ResumesPass5 /\ pc' = "pass" /\ cur.pass \in Nat
        /\ resume' = (CPass = 1 .. 5 /\ cur.status = "copying")
        /\ pass' = IF resume' /\ cur.pass <= 5 THEN cur.pass ELSE 1
    BY <1>2, <1>4 DEF EnterCopying, Copying, Values, IsCur
  <2>2. pass' <= 5 /\ (resume' => CPass = 1 .. 5 /\ pass' <= 4)
    <3>1. (resume' => CPass = 1 .. 5) /\ (resume' => cur.pass # 5)
      BY <2>1, Zenon DEF ResumesPass5
    <3>2. cur.pass \in Nat /\ pass' = IF resume' /\ cur.pass <= 5 THEN cur.pass ELSE 1
      BY <2>1
    <3>3. pass' <= 5 /\ (resume' => pass' <= 4)
      <4>1. resume' => cur.pass # 5
        BY <3>1
      <4> QED BY <3>2, <4>1
    <3> QED BY <3>1, <3>3, Zenon
  <2>3. ~(pass' > 5)
    BY <2>1, <2>2
  <2> QED BY <1>2, <2>1, <2>2, <2>3 DEF Copying
<1>5. CASE StartPass
  <2>1. /\ pc = "pass" /\ pc' = "find" /\ pass \in CPass /\ block_found' = FALSE
        /\ resume' = (resume /\ pass = first_pass) /\ pass' = pass
        /\ IF resume' /\ ResumeAt # {} THEN \E b \in ResumeAt : pos' = near(b)
           ELSE pos' = IF Forward THEN 0 ELSE map.end
    BY <1>2, <1>5 DEF StartPass, PassWanted
  <2>2. /\ pass <= 5 /\ (resume' => CPass = 1 .. 5 /\ pass <= 4)
    <3>1. pass <= 5
      BY <1>1, <2>1
    <3>2. resume' => resume
      BY <2>1
    <3>3. pc # "enter"
      BY <2>1
    <3>4. resume => CPass = 1 .. 5 /\ pass <= 4
      BY <1>2, <3>3, Zenon DEF Copying
    <3> QED BY <3>1, <3>2, <3>4, Zenon
  <2>3. Forward' = Forward /\ PassStatus' = PassStatus
    BY <1>2, <2>1 DEF Forward, Has, PassStatus
  <2>4. CASE resume' /\ ResumeAt # {}
    <3>1. PICK b \in ResumeAt : pos' = near(b)
      BY <2>1, <2>4
    <3>2. BlocksAhead(pos') # {}
      BY <1>1, <3>1, ResumesAtBlock
    <3>3. BlocksAhead(pos)' # {}
      BY <1>2, <1>3, <2>3, <3>2 DEF BlocksAhead
    <3>4. pass' # 5
      BY <2>1, <2>2, <2>4, <1>1
    <3> QED BY <1>2, <2>1, <2>2, <3>3, <3>4 DEF Copying
  <2>5. CASE ~(resume' /\ ResumeAt # {})
    <3>1. AtStart'
      BY <1>3, <2>1, <2>3, <2>5 DEF AtStart
    <3>2. \A z \in NonTried' : Ahead(z)'
      <4>1. \A z \in NonTried : z \in Nat /\ z < map.end
        BY <1>1, MapTypes DEF NonTried, MapSound, Of
      <4> QED BY <1>3, <2>3, <3>1, <4>1 DEF AtStart, Ahead
    <3> QED BY <1>2, <2>1, <2>2, <3>1, <3>2 DEF Copying
  <2> QED BY <2>4, <2>5
<1>6. CASE SkipPass
  <2>1. pc = "pass" /\ pc' = "pass" /\ pass \notin CPass /\ pass <= 5 /\ pass' = pass + 1
        /\ resume' = resume
    BY <1>2, <1>6 DEF SkipPass, PassWanted
  <2>2. ~resume /\ pass # 5
    BY <1>2, <2>1 DEF Copying, Values
  <2>3. ~(pass' > 5)
    BY <1>1, <2>1, <2>2
  <2> QED BY <1>2, <2>1, <2>2, <2>3 DEF Copying
<1>7. CASE ScanChunk
  <2>1. PICK b \in ChunkFrom(pos, ReadSize, ReadSize, AtEdges) :
          chunk' = b /\ pos' = far(b)
    BY <1>7 DEF ScanChunk
  <2>2. /\ pc = "find" /\ pc' = "read" /\ block_found' = TRUE
        /\ pass' = pass /\ resume' = resume
    BY <1>7 DEF ScanChunk, passVars
  <2>3. ReadSize \in Nat \ {0}
    BY DEF ReadSize
  <2>4. IsChunk(b)
    BY <1>1, <2>1, <2>3, ChunkFromType, Zenon
  <2>5. Forward' = Forward
    BY <1>2, <2>2 DEF Forward, Has
  <2>6. ASSUME pass = 5, NEW z \in NonTried PROVE Ahead(z)' \/ z \in Chunk(b)
    <3>1. z \in Nat
      BY <1>1, MapTypes DEF NonTried, MapSound, Of
    <3>2. Ahead(z)
      BY <1>2, <2>2, <2>6 DEF Copying
    <3>3. IF Forward THEN b.pos <= z ELSE z < b.end
      BY <1>1, <1>2, <2>1, <2>6, <3>2, ScanAhead
    <3> QED BY <2>1, <2>4, <2>5, <3>1, <3>3 DEF Ahead, Chunk, far, IsChunk
  <2>7. pass <= 5 /\ (resume => CPass = 1 .. 5 /\ pass <= 4)
    BY <1>2, <2>2 DEF Copying
  <2> QED BY <1>2, <1>3, <2>1, <2>2, <2>6, <2>7 DEF Copying
<1>8. CASE EndPass
  <2>1. /\ pc = "find" /\ ChunkFrom(pos, ReadSize, ReadSize, AtEdges) = {}
        /\ pass' = pass + 1 /\ resume' = FALSE /\ pc' = "pass"
    BY <1>2, <1>8 DEF EndPass, PhaseDone, NextPhase, Phases
  <2>2. ASSUME pass' > 5 PROVE None("non_tried")
    <3>1. pass = 5
      BY <1>1, <1>2, <2>1, <2>2 DEF Copying
    <3>2. \A z \in NonTried : Ahead(z)
      BY <1>2, <2>1, <3>1 DEF Copying
    <3>3. BlocksAhead(pos) = {} /\ PassStatus = "non_tried"
      BY <1>1, <1>2, <2>1, <3>1, ScanAhead DEF PassStatus
    <3>4. NonTried = {}
      BY <1>1, <3>2, <3>3, NothingAhead DEF NonTried
    <3> QED BY <3>4 DEF NonTried, None, Of
  <2> QED BY <1>2, <1>3, <2>1, <2>2 DEF Copying, None
<1> QED BY <1>4, <1>5, <1>6, <1>7, <1>8

\* A read leaves nothing of its chunk to be tried, and no skip follows it in the
\* fifth pass.
LEMMA CopyingByRead ==
  ASSUME Values, Control, Sound, Copying, MapKept, dom' = dom, phase' = "copying",
         ReadGood \/ ReadBad \/ ReadEof \/ AfterCopy
  PROVE  Copying'
<1>1. phase = "copying" /\ 5 \in CPass
  BY DEF ReadGood, ReadBad, ReadEof, AfterCopy, Reading, Return, Copying, RatesAndSave
<1>2. UNCHANGED <<opts, pass, resume, block_found>> /\ pc \in {"read", "after"}
  BY DEF ReadGood, ReadBad, ReadEof, AfterCopy, Reading, runVars, passVars, scanVars
<1>3. Forward' = Forward
  BY <1>2 DEF Forward, Has
<1>4. NonTried' \subseteq NonTried
  BY <1>1 DEF MapKept, NonTried, Of, StepStatuses, ReadStatuses
<1>5. CASE ReadGood \/ ReadBad \/ ReadEof
  <2>1. pc = "read" /\ pc' = "after" /\ UNCHANGED <<pos, chunk>>
    BY <1>1, <1>5 DEF ReadGood, ReadBad, ReadEof, Reading, Return
  <2>2. ASSUME pass = 5, NEW z \in NonTried' PROVE Ahead(z)'
    <3>1. Ahead(z) \/ z \in Chunk(chunk)
      BY <1>1, <1>4, <2>1, <2>2 DEF Copying
    <3>2. z \notin Chunk(chunk)
      <4>1. /\ \A p \in Chunk(chunk) \cap Positions(map') : map'.st[p] \in ReadStatuses
            /\ z \in Positions(map') /\ map'.st[z] = "non_tried"
        BY <1>5, <2>1, ReadChanges DEF NonTried, Of
      <4> QED BY <4>1 DEF ReadStatuses
    <3> QED BY <1>3, <2>1, <3>1, <3>2 DEF Ahead
  <2> QED BY <1>1, <1>2, <2>1, <2>2 DEF Copying
<1>6. CASE AfterCopy
  <2>1. pc = "after" /\ pc' = "find" /\ block_found
    BY <1>1, <1>6 DEF AfterCopy, RatesAndSave, Return, Copying
  <2>2. pass = 5 => pos' = pos
    BY <1>6 DEF AfterCopy
  <2> QED BY <1>1, <1>2, <1>3, <1>4, <2>1, <2>2 DEF Copying, Ahead
<1> QED BY <1>5, <1>6

\* Every step keeps what is said of the copying passes.
LEMMA CopyingStep ==
  ASSUME TypeOK, Control, Sound, Copying, MapKept, dom' = dom, [Next]_vars
  PROVE  Copying'
<1> SUFFICES ASSUME phase' = "copying" PROVE Copying'
  BY DEF Copying
<1>1. CASE UNCHANGED vars
  BY <1>1 DEF vars, runVars, passVars, scanVars, readVars, Copying, ResumesPass5, None,
     AtStart, Forward, Has, BlocksAhead, PassStatus, NonTried, Ahead, map
<1>2. CASE EnterCopying \/ StartPass \/ SkipPass \/ ScanChunk \/ EndPass
  BY <1>2, CopyingByPasses DEF TypeOK
<1>3. CASE ReadGood \/ ReadBad \/ ReadEof \/ AfterCopy
  BY <1>3, CopyingByRead DEF TypeOK
<1>4. CASE InternalError
  <2>1. pc = "read" /\ pc' = "aborted" /\ UNCHANGED <<phase, pass, resume>>
    BY <1>4 DEF InternalError, Reading, passVars
  <2> QED BY <2>1 DEF Copying
<1>5. CASE \/ SkipPhase \/ PassesDone \/ BlocksDone \/ ReadRefused \/ Interrupted
           \/ WriteFailed \/ AfterCopyFails
  <2>1. Return(1) \/ Return(-1) \/ (phase \in Phases /\ PhaseDone)
    BY <1>5 DEF SkipPhase, PassesDone, BlocksDone, ReadRefused, Interrupted, WriteFailed,
       AfterCopyFails, Control, Phases
  <2> QED BY <2>1 DEF Return, PhaseDone, NextPhase, Phases
<1>6. CASE \/ EnterSectors \/ EnterRetrying \/ AfterRetry \/ AfterSector \/ LeaveBlock
           \/ TakeBlock \/ LeadSector \/ TrailSector \/ BlockDone \/ EndMapfileError \/ End
  <2>1. phase # "copying" /\ (phase' = phase \/ phase' = "ending")
    BY <1>6 DEF EnterSectors, EnterRetrying, AfterRetry, AfterSector, LeaveBlock,
       TakeBlock, LeadSector, TrailSector, BlockDone, EndMapfileError, End, Control,
       RatesAndSave, Return
  <2> QED BY <2>1
<1> QED BY <1>1, <1>2, <1>3, <1>4, <1>5, <1>6 DEF Next, Exited, Rescuing
-----------------------------------------------------------------------------
(***************************************************************************)
(* The loop over the blocks to trim or to scrape.                          *)
(***************************************************************************)

\* Changing a chunk of one of the blocks leaves no other one behind.
LEMMA PassedByChange ==
  ASSUME Values, phase \in {"trimming", "scraping"}, NEW bk, IsBook(bk),
         MapSound(bk.map), NEW b, IsChunk(b), Ready(bk.map, dom, b, Target),
         NEW t \in Status, t # Target, Passed(bk.map)
  PROVE  Passed(change_chunk_status(bk, dom, b, t).map)
<1>1. b.pos < b.end /\ b.pos < bk.map.end
  BY MapTypes DEF Ready, MapSound, IsChunk
<1>2. change_chunk_status(bk, dom, b, t).map = change_chunk(bk.map, dom, b, t)
  BY <1>1, ChangeType
<1>3. BlockStatus = Target /\ i \in Nat
  BY DEF BlockStatus, Target, Values
<1>4. CASE Has("reverse")
  BY <1>2, <1>3, <1>4, ChangeKeepsAbove DEF Passed, MapSound
<1>5. CASE ~Has("reverse")
  BY <1>2, <1>3, <1>5, ChangeKeepsBelow DEF Passed, MapSound
<1> QED BY <1>4, <1>5

\* Nor does marking as finished what was copied.
LEMMA PassedByCopied ==
  ASSUME Values, phase \in {"trimming", "scraping"}, NEW bk, IsBook(bk),
         MapSound(bk.map), NEW k \in Nat, IsChunk(chunk), k <= chunk.end - chunk.pos,
         k > 0 => Ready(bk.map, dom, Head(k), Target), Passed(bk.map)
  PROVE  Passed(Copied(bk, dom, k).map)
<1>1. CASE k > 0
  <2>1. IsChunk(Head(k)) /\ "finished" \in Status /\ "finished" # Target
    BY HeadTailType DEF Status, Target
  <2> QED BY <1>1, <2>1, PassedByChange DEF Copied
<1>2. CASE ~(k > 0)
  BY <1>2 DEF Copied
<1> QED BY <1>1, <1>2

\* What EOF cuts off is counted by neither.
LEMMA PassedByEof ==
  ASSUME Values, Sound, Indexed, ReadEof, MapSound(map), IsChunk(chunk),
         chunk.pos < chunk.end, Passed(map)
  PROVE  Passed(EofBook.map)
<1>1. /\ chunk.pos + Avail \in Nat /\ InEnd <= chunk.pos + Avail
      /\ map.end \in Nat /\ IsMap(map)
  BY AvailType, MapTypes DEF ReadEof, MapSound
<1>2. EofBook.map \in {map, truncate_vector(map, chunk.pos + Avail)}
  BY DEF EofBook, initialize_sizes
<1>3. CASE Has("reverse")
  <2>1. map.end <= InEnd
    BY <1>3 DEF Indexed
  <2>2. map.end <= chunk.pos + Avail
    BY <1>1, <2>1
  <2> QED BY <1>1, <1>2, <2>2, TruncateBeyond
<1>4. CASE ~Has("reverse")
  BY <1>1, <1>2, <1>4, TruncateKeepsBelow DEF Passed
<1> QED BY <1>3, <1>4

\* A read leaves none behind.
LEMMA PassedByRead ==
  ASSUME Values, Control, Sound, Indexed, phase \in {"trimming", "scraping"},
         ReadGood \/ ReadBad \/ ReadEof
  PROVE  Passed(map')
<1>1. /\ pc = "read" /\ IsChunk(chunk) /\ chunk.pos < chunk.end /\ IsBook(book)
      /\ ~Has("complete_only") /\ MapSound(map) /\ TodoIn(map, chunk) /\ Passed(map)
  BY DEF ReadGood, ReadBad, ReadEof, Reading, Values, Control, IsChunk, Sound,
         BlocksSound, AtEnd, MapSound, IsBook, map, Indexed
<1>2. Avail \in Nat /\ Avail <= chunk.end - chunk.pos
  BY <1>1, AvailType
<1>3. Avail > 0 => /\ Ready(map, dom, Head(Avail), Target)
                   /\ MapSound(EofBook.map) /\ EofDom = dom
                   /\ Ready(EofBook.map, dom, Head(Avail), Target)
  BY <1>1, HeadReady
<1>4. CASE ReadGood
  <2>1. book' = Copied(book, dom, Avail)
    BY <1>4 DEF ReadGood
  <2> QED BY <1>1, <1>2, <1>3, <2>1, PassedByCopied DEF map
<1>5. CASE ReadBad
  <2>1. PICK k \in 0 .. Avail :
          /\ Avail > 0 /\ k < chunk.end - chunk.pos
          /\ book' = change_chunk_status(Copied(book, dom, k), dom, Tail(k),
                                         FailedStatus(Tail(k)))
    BY <1>5 DEF ReadBad
  <2> DEFINE c == Copied(book, dom, k)
  <2>2. /\ k > 0 => Ready(map, dom, Head(k), Target)
        /\ IsBook(c) /\ MapSound(c.map) /\ Ready(c.map, dom, Tail(k), Target)
    BY <1>1, <2>1, TailReady
  <2>3. k \in Nat /\ k <= chunk.end - chunk.pos
    BY <1>1, <1>2, <2>1 DEF IsChunk
  <2>4. Passed(c.map)
    BY <1>1, <2>2, <2>3, PassedByCopied DEF map
  <2>5. FailedStatus(Tail(k)) = "bad_sector"
    BY DEF FailedStatus
  <2>6. "bad_sector" \in Status /\ "bad_sector" # Target
    BY DEF Status, Target
  <2>7. IsChunk(Tail(k))
    BY <1>1, <2>3, HeadTailType
  <2>8. map' = change_chunk_status(c, dom, Tail(k), "bad_sector").map
    BY <2>1, <2>5 DEF map
  <2> HIDE DEF c
  <2> QED BY <2>2, <2>4, <2>6, <2>7, <2>8, PassedByChange
<1>6. CASE ReadEof
  <2>1. book' = Copied(EofBook, dom, Avail)
    BY <1>1, <1>6 DEF ReadEof, EofDom
  <2>2. Passed(EofBook.map)
    BY <1>1, <1>6, PassedByEof
  <2>3. CASE Avail > 0
    <3>1. IsBook(EofBook)
      <4>1. IsMap(EofBook.map)
        BY <1>3, <2>3 DEF MapSound
      <4> QED BY <4>1, InitializeType DEF EofBook, initialize_sizes
    <3> QED BY <1>1, <1>2, <1>3, <2>1, <2>2, <2>3, <3>1, PassedByCopied DEF map
  <2>4. CASE ~(Avail > 0)
    BY <2>1, <2>2, <2>4 DEF Copied, map
  <2> QED BY <2>3, <2>4
<1> QED BY <1>4, <1>5, <1>6

\* The next block is the one of the lowest index, and no other one has that index.
LEMMA NextIsFirst ==
  ASSUME Values, MapSound(map), Passed(map), NEW c \in NextBlock,
         NEW z \in map.cuts, map.st[z] = BlockStatus, z \in dom
  PROVE  Index(c) \in Nat /\ Index(z) >= Index(c) /\ (z # c => Index(z) >= Index(c) + 1)
<1>1. c \in map.cuts /\ IsMap(map) /\ z \in Nat /\ c \in Nat /\ z \in Positions(map)
  BY NextBlockType, MapTypes DEF MapSound
<1>2. InDomain(map, z, dom)
  BY <1>1, InDomainIs DEF MapSound
<1>3. Index(z) >= i
  BY IndexIs DEF Passed, AllAbove, AllBelow
<1>4. CASE Has("reverse")
  <2>1. c >= z
    BY <1>2, <1>3, <1>4, Zenon DEF NextBlock, NextOf, Last
  <2>2. /\ Index(c) = Cardinality(Above(map, c))
        /\ Index(z) = Cardinality(Above(map, z))
    BY <1>4, IndexIs
  <2>3. /\ Cardinality(Above(map, c)) <= Cardinality(Above(map, z))
        /\ c # z => Cardinality(Above(map, c)) + 1 <= Cardinality(Above(map, z))
        /\ Cardinality(Above(map, c)) \in Nat /\ Cardinality(Above(map, z)) \in Nat
    <3>1. z <= c
      BY <1>1, <2>1
    <3> QED BY <1>1, <3>1, AboveGrows
  <2> QED BY <2>2, <2>3
<1>5. CASE ~Has("reverse")
  <2>1. c <= z
    BY <1>2, <1>3, <1>5, Zenon DEF NextBlock, NextOf, First
  <2>2. /\ Index(c) = Cardinality(Below(map, c))
        /\ Index(z) = Cardinality(Below(map, z))
    BY <1>5, IndexIs
  <2>3. /\ Cardinality(Below(map, c)) <= Cardinality(Below(map, z))
        /\ c # z => Cardinality(Below(map, c)) + 1 <= Cardinality(Below(map, z))
        /\ Cardinality(Below(map, c)) \in Nat /\ Cardinality(Below(map, z)) \in Nat
    BY <1>1, <2>1, BelowGrows
  <2> QED BY <2>2, <2>3
<1> QED BY <1>4, <1>5

\* What is said of the index, by the index of the blocks.
LEMMA PassedIs ==
  ASSUME NEW k, k = i
  PROVE  Passed(map) <=> \A z \in map.cuts : map.st[z] = BlockStatus /\ z \in dom =>
                                               Index(z) >= k
BY IndexIs DEF Passed, AllAbove, AllBelow

\* The loop begins with the first block, and goes on from the block it takes or leaves.
LEMMA PassedByLoop ==
  ASSUME Values, Control, Sound, Indexed, EnterSectors \/ LeaveBlock \/ TakeBlock
  PROVE  Passed(map)'
<1>1. MapSound(map) /\ dom' = dom /\ opts' = opts /\ phase' = phase
  BY SoundMap DEF EnterSectors, LeaveBlock, TakeBlock, AtEnd, runVars
<1>2. BlockStatus' = BlockStatus /\ (Has("reverse")' <=> Has("reverse"))
  BY <1>1 DEF BlockStatus, Has
<1>3. CASE EnterSectors
  <2>1. map' = map /\ i' = 0
    BY <1>3 DEF EnterSectors, map
  <2>2. ASSUME NEW z \in map.cuts PROVE Index(z) >= 0
    BY <1>1, CutsCount DEF Index, MapSound
  <2>3. \A z \in map.cuts : /\ Has("reverse") => Cardinality(Above(map, z)) >= 0
                            /\ ~Has("reverse") => Cardinality(Below(map, z)) >= 0
    BY <2>2, IndexIs
  <2> QED BY <1>1, <1>2, <2>1, <2>3 DEF Passed, AllAbove, AllBelow
<1>4. CASE TakeBlock
  <2>1. PICK c \in NextBlock : i' = Index(c)
    BY <1>4 DEF TakeBlock
  <2>2. map' = map /\ Passed(map)
    BY <1>4 DEF TakeBlock, map, Indexed
  <2>3. \A z \in map.cuts : map.st[z] = BlockStatus /\ z \in dom => Index(z) >= i'
    BY <1>1, <2>1, <2>2, NextIsFirst
  <2> QED BY <1>1, <1>2, <2>2, <2>3, IndexIs DEF Passed, AllAbove, AllBelow
<1>5. CASE LeaveBlock
  <2>1. PICK c \in NextBlock :
          /\ book' = [book EXCEPT !.map = change_sblock_status(map, c, "non_scraped")]
          /\ i' = Index(c) + 1
    BY <1>5 DEF LeaveBlock
  <2>2. map' = change_sblock_status(map, c, "non_scraped") /\ IsMap(map) /\ Passed(map)
        /\ phase = "trimming"
    BY <1>1, <1>5, <2>1 DEF IsBook, map, Values, MapSound, LeaveBlock, Indexed
  <2>3. /\ map'.cuts = map.cuts
        /\ map'.st = [p \in Positions(map) |->
                        IF p \in Block(map, c) THEN "non_scraped" ELSE map.st[p]]
    BY <2>2 DEF change_sblock_status, IsMap
  <2>4. c \in Block(map, c) /\ map.cuts \subseteq Positions(map)
    BY <2>1, <2>2, NextBlockType DEF Block, SameBlock, IsMap
  <2>5. \A z \in map'.cuts : map'.st[z] = "non_trimmed" =>
                               z \in map.cuts /\ map.st[z] = "non_trimmed" /\ z # c
    BY <2>3, <2>4
  <2>6. BlockStatus = "non_trimmed"
    BY <2>2 DEF BlockStatus
  <2>7. \A z \in map'.cuts : map'.st[z] = BlockStatus /\ z \in dom => Index(z) >= i'
    BY <1>1, <2>1, <2>2, <2>5, <2>6, NextIsFirst
  <2>8. \A z : /\ Above(map', z) = Above(map, z) /\ Below(map', z) = Below(map, z)
    BY <2>3 DEF Above, Below
  <2> QED BY <1>1, <1>2, <2>7, <2>8, IndexIs DEF Passed, AllAbove, AllBelow
<1> QED BY <1>3, <1>4, <1>5
\* Every step keeps what is said of the loop.
LEMMA IndexedStep ==
  ASSUME TypeOK, Control, Sound, Indexed, MapKept, dom' = dom, opts' = opts,
         [Next]_vars
  PROVE  Indexed'
<1>1. Values /\ (Has("reverse")' <=> Has("reverse"))
  BY DEF TypeOK, Has
<1>2. Has("reverse") => map'.end <= InEnd
  <2> SUFFICES ASSUME map.end <= InEnd PROVE map'.end <= InEnd
    BY DEF Indexed
  <2>1. map.end \in Nat /\ Positions(map') \subseteq Positions(map)
    BY <1>1, MapTypes DEF Values, IsBook, map, MapKept
  <2>2. map'.end \in Nat
    BY TypesStep DEF TypeOK, Values, IsBook, IsMap, map
  <2>3. map'.end > 0 => map'.end - 1 \in Positions(map')
    BY <2>2 DEF Positions
  <2>4. map'.end > 0 => map'.end - 1 < map.end
    BY <2>1, <2>3 DEF Positions
  <2> QED BY <2>1, <2>2, <2>4
<1>3. CASE ReadGood \/ ReadBad \/ ReadEof
  <2>1. pc = "read" /\ UNCHANGED <<i, edge>> /\ (pc' = "enter" \/ phase' = phase)
    BY <1>3 DEF ReadGood, ReadBad, ReadEof, Reading, edgeVars, Return
  <2>2. phase' \in {"trimming", "scraping"} /\ pc' # "enter" => Passed(map)'
    <3> SUFFICES ASSUME phase \in {"trimming", "scraping"}, phase' = phase
                 PROVE  Passed(map)'
      BY <2>1
    <3>1. Passed(map')
      BY <1>1, <1>3, PassedByRead
    <3>2. BlockStatus' = BlockStatus
      BY DEF BlockStatus
    <3> QED BY <1>1, <2>1, <3>1, <3>2 DEF Passed
  <2>3. phase' = "scraping" /\ InSectors' => edge' = "lead"
    BY <2>1 DEF Indexed, InSectors
  <2> QED BY <1>1, <1>2, <2>2, <2>3 DEF Indexed
<1>4. CASE EnterSectors \/ LeaveBlock \/ TakeBlock
  <2>1. Passed(map)'
    BY <1>1, <1>4, PassedByLoop
  <2>2. phase' = "scraping" /\ InSectors' => edge' = "lead"
    BY <1>4 DEF EnterSectors, LeaveBlock, TakeBlock, InSectors
  <2> QED BY <1>1, <1>2, <2>1, <2>2 DEF Indexed
<1>5. CASE BlockDone
  <2>1. /\ pc = "sector" /\ pc' = "find" /\ UNCHANGED <<i, edge, phase>>
        /\ phase \in {"trimming", "scraping"} /\ Passed(map)
    BY <1>5 DEF BlockDone, edgeVars, Control, Indexed
  <2>2. Passed(map')
    <3>1. CASE book' = book
      BY <2>1, <3>1 DEF map
    <3>2. CASE \E b \in RestOfBlock : book' = change_chunk_status(book, dom, b, "non_scraped")
      <4>1. PICK b \in RestOfBlock : book' = change_chunk_status(book, dom, b, "non_scraped")
        BY <3>2
      <4>2. MapSound(map) /\ pos \in Nat /\ stop \in Nat /\ IsBook(book)
        BY <1>1, <2>1, SoundMap DEF Values, AtEnd
      <4>3. IsChunk(b) /\ Ready(map, dom, b, "non_trimmed")
        BY <4>1, <4>2, RestIsReady
      <4>4. phase = "trimming"
        <5>1. pos < stop
          BY <4>1 DEF RestOfBlock
        <5>2. edge = "lead" => pos >= stop
          BY <1>5 DEF BlockDone
        <5>3. edge # "lead"
          BY <4>2, <5>1, <5>2
        <5> QED BY <2>1, <5>3 DEF Indexed, InSectors
      <4>5. Target = "non_trimmed" /\ "non_scraped" \in Status
        BY <4>4 DEF Target, Status
      <4> QED BY <1>1, <2>1, <4>1, <4>2, <4>3, <4>5, PassedByChange DEF map
    <3> QED BY <1>5, <3>1, <3>2 DEF BlockDone
  <2>3. BlockStatus' = BlockStatus
    BY <2>1 DEF BlockStatus
  <2>4. Passed(map)'
    BY <1>1, <2>1, <2>2, <2>3 DEF Passed
  <2>5. ~InSectors'
    BY <2>1 DEF InSectors
  <2> QED BY <1>1, <1>2, <2>4, <2>5 DEF Indexed
<1>6. CASE AfterSector
  <2>1. /\ pc = "after" /\ UNCHANGED <<book, i>> /\ (pc' = "enter" \/ phase' = phase)
        /\ phase \in {"trimming", "scraping"}
        /\ phase = "scraping" => edge' = edge
    <3>1. RatesAndSave("sector")
      BY <1>6 DEF AfterSector
    <3> QED BY <1>6, <3>1 DEF AfterSector, RatesAndSave, Return
  <2>2. phase' \in {"trimming", "scraping"} /\ pc' # "enter" => Passed(map)'
    <3> SUFFICES ASSUME phase' = phase PROVE Passed(map)'
      BY <2>1
    <3>1. BlockStatus' = BlockStatus /\ map' = map /\ Passed(map)
      BY <2>1 DEF BlockStatus, map, Indexed
    <3> QED BY <1>1, <2>1, <3>1 DEF Passed
  <2>3. phase' = "scraping" /\ InSectors' => edge' = "lead"
    BY <2>1 DEF Indexed, InSectors
  <2> QED BY <1>1, <1>2, <2>2, <2>3 DEF Indexed
<1>7. CASE UNCHANGED vars \/ InternalError \/ LeadSector \/ TrailSector
  <2>1. /\ (UNCHANGED <<book, i, edge, phase>> /\ pc # "enter") \/ UNCHANGED vars
        /\ pc' \in {"sector", "read", "after"} => pc \in {"sector", "read", "after"}
    BY <1>7 DEF vars, edgeVars, InternalError, LeadSector, TrailSector, Reading
  <2>2. /\ UNCHANGED <<book, i, edge, phase>>
        /\ pc' # "enter" => pc # "enter"
    BY <2>1 DEF vars, edgeVars
  <2>3. BlockStatus' = BlockStatus /\ map' = map
    BY <2>2 DEF BlockStatus, map
  <2>4. phase' \in {"trimming", "scraping"} /\ pc' # "enter" => Passed(map)'
    <3>1. phase' \in {"trimming", "scraping"} /\ pc' # "enter" => Passed(map)
      BY <2>2 DEF Indexed
    <3> QED BY <1>1, <2>2, <2>3, <3>1 DEF Passed
  <2>5. phase' = "scraping" /\ InSectors' => edge' = "lead"
    BY <2>1, <2>2 DEF Indexed, InSectors
  <2> QED BY <1>1, <1>2, <2>4, <2>5 DEF Indexed
<1>8. CASE \/ SkipPhase \/ EnterCopying \/ EnterRetrying \/ StartPass \/ SkipPass
           \/ PassesDone \/ ScanChunk \/ EndPass \/ ReadRefused \/ Interrupted
           \/ WriteFailed \/ AfterCopy \/ AfterCopyFails \/ AfterRetry \/ BlocksDone
           \/ EndMapfileError \/ End
  <2>1. pc' = "enter" \/ phase' \notin {"trimming", "scraping"}
    <3>1. CASE \/ SkipPhase \/ PassesDone \/ EndPass \/ ReadRefused \/ Interrupted
               \/ WriteFailed \/ AfterCopyFails \/ BlocksDone
      BY <3>1 DEF SkipPhase, PassesDone, EndPass, ReadRefused, Interrupted, WriteFailed,
         AfterCopyFails, BlocksDone, PhaseDone, Return
    <3>2. CASE AfterCopy \/ AfterRetry
      <4>1. RatesAndSave("find") /\ phase \notin {"trimming", "scraping"}
        BY <3>2 DEF AfterCopy, AfterRetry
      <4> QED BY <4>1 DEF RatesAndSave, Return
    <3>3. CASE \/ EnterCopying \/ EnterRetrying \/ StartPass \/ SkipPass \/ ScanChunk
               \/ EndMapfileError \/ End
      BY <3>3 DEF EnterCopying, EnterRetrying, StartPass, SkipPass, ScanChunk,
         EndMapfileError, End, Control
    <3> QED BY <1>8, <3>1, <3>2, <3>3
  <2>2. ~InSectors'
    BY <2>1 DEF InSectors
  <2> QED BY <1>1, <1>2, <2>1, <2>2 DEF Indexed
<1> QED BY <1>3, <1>4, <1>5, <1>6, <1>7, <1>8 DEF Next, Exited, Rescuing

-----------------------------------------------------------------------------
(***************************************************************************)
(* Completeness.                                                           *)
(***************************************************************************)

\* The runs that can be complete: the fifth copying pass is one of those to run, and
\* is not begun in the middle; and EOF does not cut off the map of a run in reverse,
\* from the end of which the blocks to trim and to scrape are counted.
Completes ==
  /\ ~Has("complete_only")
  /\ 5 \in CPass /\ ~ResumesPass5
  /\ Has("reverse") => map.end <= InEnd

Inv == TypeOK /\ Control /\ Sound /\ Pending /\ Copying /\ Indexed

\* What do_rescue takes for pending is what the sizes of the map at the start say.
LEMMA PendingInit ==
  ASSUME Init
  PROVE  Pending
<1>1. PICK s \in Starts : book = initialize_sizes(s.map, s.dom) /\ dom = s.dom
  BY DEF Init
<1>2. /\ map = s.map /\ IsMap(map) /\ SplitByDomain(map, dom)
      /\ \A t \in Status : book.size[t] = SizeOf(map, dom, t)
  BY <1>1 DEF map, initialize_sizes, StartsAssumption, IsStart
<1>3. ASSUME NEW t \in Status, book.size[t] = 0 PROVE None(t)
  <2>1. IsFiniteSet(Of(map, dom, t)) /\ Cardinality(Of(map, dom, t)) = 0
    BY <1>2, <1>3, SizeOfOf
  <2>2. Of(map, dom, t) = {}
    BY <2>1, FS_EmptySet
  <2> QED BY <2>2 DEF Of, None
<1>4. /\ "copying" \notin pending => None("non_tried")
      /\ "trimming" \notin pending => None("non_tried") /\ None("non_trimmed")
      /\ "scraping" \notin pending =>
           None("non_tried") /\ None("non_trimmed") /\ None("non_scraped")
  <2>1. {"non_tried", "non_trimmed", "non_scraped"} \subseteq Status
    BY DEF Status
  <2>2. pending = IF book.size["non_tried"] # 0 THEN {"copying", "trimming", "scraping"}
                  ELSE IF book.size["non_trimmed"] # 0 THEN {"trimming", "scraping"}
                  ELSE IF book.size["non_scraped"] # 0 THEN {"scraping"} ELSE {}
    BY DEF Init
  <2> QED BY <1>3, <2>1, <2>2
<1>5. \A p \in Positions(map) : map.st[p] \in Status
  BY <1>2, MapTypes
<1>6. /\ None("non_tried") => Level(1)
      /\ None("non_tried") /\ None("non_trimmed") => Level(2)
      /\ None("non_tried") /\ None("non_trimmed") /\ None("non_scraped") => Level(3)
  BY <1>5, Order DEF None, Level, Status
<1> QED BY <1>4, <1>6 DEF Pending

\* The invariant holds at the start of such a run ...
LEMMA InvInit == Init /\ Completes => Inv
<1> SUFFICES ASSUME Init, Completes PROVE Inv
  OBVIOUS
<1>1. TypeOK /\ Control /\ Sound /\ Pending
  BY InitType, SoundInit, PendingInit DEF Completes
<1>2. phase = "copying" /\ pc = "enter"
  BY DEF Init
<1>3. Copying /\ Indexed
  BY <1>2 DEF Completes, Copying, Indexed, InSectors
<1> QED BY <1>1, <1>3 DEF Inv

\* ... and every step keeps it.
LEMMA InvStep == Inv /\ [Next]_vars => Inv' /\ MapKept
<1> SUFFICES ASSUME Inv, [Next]_vars PROVE Inv' /\ MapKept
  OBVIOUS
<1> USE DEF Inv
<1>1. (TypeOK /\ Control /\ Sound)' /\ MapKept
  BY TypesStep, SoundStep, StepKeepsMap
<1>2. dom' = dom /\ opts' = opts /\ pending' = pending
  BY FixedVars DEF Sound
<1>3. Pending'
  <2>1. Values
    BY DEF TypeOK
  <2>2. \A k \in {1, 2, 3} : Level(k) => Level(k)'
    BY <1>1, <1>2, <2>1, LevelStep
  <2> QED BY <1>2, <2>2 DEF Pending
<1>4. Copying' /\ Indexed'
  BY <1>1, <1>2, CopyingStep, IndexedStep
<1> QED BY <1>1, <1>3, <1>4

\* Nothing that a phase left behind comes back, and no phase is left before it has
\* left nothing.
LEMMA NothingLeftStep ==
  ASSUME Inv, [Next]_vars, MapKept, dom' = dom, opts' = opts, NothingLeft
  PROVE  NothingLeft'
<1> DEFINE Passed1 == phase \in {"trimming", "scraping", "retrying"} \/ EndsWell
           Passed2 == phase \in {"scraping", "retrying"} \/ EndsWell
           Passed3 == phase = "retrying" \/ EndsWell
<1>1. Control /\ Values /\ Sound
  BY DEF Inv, TypeOK
<1>2. CASE e_code' # {}
  BY <1>2 DEF NothingLeft, Tried
<1>3. CASE e_code' = {}
  <2>1. e_code = {}
    BY <1>3, ErrorsStay
  <2>2. /\ Passed1 => None("non_tried")
        /\ ~Has("notrim") /\ Passed2 => None("non_trimmed")
        /\ ~Has("noscrape") /\ Passed3 => None("non_scraped")
    BY <2>1 DEF NothingLeft, Tried, After
  <2> SUFFICES /\ Passed1' => None("non_tried")'
               /\ ~Has("notrim") /\ Passed2' => None("non_trimmed")'
               /\ ~Has("noscrape") /\ Passed3' => None("non_scraped")'
    BY DEF NothingLeft, Tried, After, Has
  <2>3. /\ Passed1 /\ None("non_tried") => None("non_tried")'
        /\ Passed2 /\ None("non_trimmed") => None("non_trimmed")'
        /\ Passed3 /\ None("non_scraped") => None("non_scraped")'
    <3>1. Passed1 => "non_tried" \notin StepStatuses
      BY DEF StepStatuses, ReadStatuses, EndsWell
    <3>2. Passed2 => "non_trimmed" \notin StepStatuses
      BY DEF StepStatuses, ReadStatuses, EndsWell
    <3>3. Passed3 => "non_scraped" \notin StepStatuses
      BY DEF StepStatuses, ReadStatuses, EndsWell
    <3> QED BY <3>1, <3>2, <3>3, NoneStep
  <2>4. CASE \/ phase' = phase /\ retval' = retval
             \/ phase = "ending" /\ phase' = "ending" /\ (retval' = 0 => retval = 0)
    <3>1. (Passed1' => Passed1) /\ (Passed2' => Passed2) /\ (Passed3' => Passed3)
      BY <2>4 DEF EndsWell
    <3> HIDE DEF Passed1, Passed2, Passed3
    <3> QED BY <2>2, <2>3, <3>1
  <2>5. CASE phase' = "ending" /\ retval' # 0
    BY <2>5 DEF EndsWell
  <2>6. CASE /\ SkipPhase \/ PassesDone \/ EndPass \/ BlocksDone
             /\ phase \in Phases /\ PhaseDone
             /\ UNCHANGED <<book, dom, opts, retval>>
    <3>1. phase' = NextPhase[phase]
      BY <2>6 DEF PhaseDone
    <3>2. \A s : None(s)' <=> None(s)
      BY <2>6 DEF None, map
    <3>3. \/ phase = "copying" /\ phase' = "trimming"
          \/ phase = "trimming" /\ phase' = "scraping"
          \/ phase = "scraping" /\ phase' = "retrying"
          \/ phase = "retrying" /\ phase' = "ending"
      BY <2>6, <3>1 DEF NextPhase, Phases
    <3>4. /\ phase = "copying" => None("non_tried")
          /\ phase = "trimming" /\ ~Has("notrim") => None("non_trimmed")
          /\ phase = "scraping" /\ ~Has("noscrape") => None("non_scraped")
      <4>1. phase' # phase
        BY <3>3
      <4> QED BY <1>3, <2>6, <4>1, PhaseLeavesNothing DEF Inv
    <3> QED BY <2>2, <3>2, <3>3, <3>4 DEF EndsWell
  <2> QED BY <1>1, <2>4, <2>5, <2>6, PhaseSteps
<1> QED BY <1>2, <1>3

\* In every run without --complete-only that may be complete, no phase is begun, and
\* the run does not end well, before the earlier phases have left nothing for
\* themselves: the passes of copy_non_tried over the chunks and the loops of
\* trim_errors and scrape_errors over an index of blocks that split and join.
THEOREM PhasesLeaveNothing == Spec /\ Completes => []NothingLeft
<1>1. Init => NothingLeft
  BY DEF Init, NothingLeft, Tried, After, EndsWell
<1>2. Inv /\ [Next]_vars => dom' = dom /\ opts' = opts
  BY FixedVars DEF Inv, Sound
<1>3. Inv /\ NothingLeft /\ [Next]_vars => NothingLeft'
  BY <1>2, InvStep, NothingLeftStep
<1> QED BY InvInit, InvStep, <1>1, <1>3, PTL DEF Spec

\* How a run that exits with status 0 has ended.
Ended ==
  /\ pc = "done" => phase = "ending"
  /\ pc = "done" /\ retval = 0 =>
       disk = [map |-> map, cur |-> cur] /\ cur.status = "finished" /\ e_code = {}

\* The last step of such a run saves the map and marks it as finished.
LEMMA EndedStep ==
  ASSUME Inv, Ended, [Next]_vars
  PROVE  Ended'
<1>1. Control /\ Values
  BY DEF Inv, TypeOK
<1>2. CASE UNCHANGED vars
  BY <1>2 DEF vars, fileVars, errVars, Ended, map
<1>3. CASE EndMapfileError
  BY <1>3 DEF EndMapfileError, Ended
<1>4. CASE End
  <2>1. PICK late \in SUBSET (Limits \cap TimeLimits) :
          LET failed == retval = 1 \/ Errors \cup late # {} IN
          /\ e_code' = (IF retval = 1 THEN e_code ELSE Errors) \cup late
          /\ cur' = IF failed \/ retval = -1 THEN cur
                    ELSE [cur EXCEPT !.status = "finished"]
          /\ \E result \in {"saved"} \cup (Saves \ {"not_due"}) :
               /\ update_mapfile(compact(map), cur', result)
               /\ retval' = IF failed \/ result = "failed" THEN 1 ELSE retval
    BY <1>4 DEF End
  <2>2. /\ phase = "ending" /\ phase' = phase /\ pc' = "done"
        /\ book' = [book EXCEPT !.map = compact(map)]
    BY <1>4 DEF End
  <2>3. ASSUME retval' = 0
        PROVE  disk' = [map |-> map', cur |-> cur'] /\ cur'.status = "finished" /\ e_code' = {}
    <3>1. PICK result \in {"saved"} \cup (Saves \ {"not_due"}) :
            /\ update_mapfile(compact(map), cur', result)
            /\ retval' = IF (retval = 1 \/ Errors \cup late # {}) \/ result = "failed"
                         THEN 1 ELSE retval
      BY <2>1
    <3>2. result \in {"saved", "failed"}
      BY DEF SaveResults
    <3>3. retval = 0 /\ Errors = {} /\ late = {} /\ result = "saved"
      BY <2>3, <3>1, <3>2
    <3>4. map' = compact(map)
      BY <1>1, <2>2 DEF map, Values, IsBook
    <3>5. disk' = [map |-> compact(map), cur |-> cur']
      BY <3>1, <3>3 DEF update_mapfile
    <3>6. e_code' = {} /\ cur' = [cur EXCEPT !.status = "finished"]
      BY <2>1, <3>3
    <3>7. cur'.status = "finished"
      BY <1>1, <3>6 DEF Values, IsCur
    <3> QED BY <3>4, <3>5, <3>6, <3>7
  <2> QED BY <2>2, <2>3 DEF Ended
<1>5. CASE Rescuing /\ ~End /\ ~EndMapfileError
  <2>1. pc' # "done"
    <3>1. CASE AfterCopy \/ AfterRetry \/ AfterSector
      <4>1. RatesAndSave("find") \/ RatesAndSave("sector")
        BY <3>1 DEF AfterCopy, AfterRetry, AfterSector
      <4> QED BY <4>1 DEF RatesAndSave, Return
    <3>2. CASE ReadBad \/ ReadEof \/ EndPass \/ SkipPass \/ LeaveBlock
      BY <3>2 DEF ReadBad, ReadEof, EndPass, SkipPass, LeaveBlock, Return, PhaseDone
    <3>3. CASE ~(AfterCopy \/ AfterRetry \/ AfterSector \/ ReadBad \/ ReadEof \/ EndPass
                 \/ SkipPass \/ LeaveBlock)
      BY <1>5, <3>3 DEF Rescuing, SkipPhase, EnterCopying, EnterSectors, EnterRetrying,
         StartPass, PassesDone, ScanChunk, ReadRefused, Interrupted,
         WriteFailed, ReadGood, InternalError, AfterCopyFails,
         TakeBlock, BlocksDone, LeadSector, TrailSector, BlockDone, Return, PhaseDone
    <3> QED BY <3>1, <3>2, <3>3
  <2> QED BY <2>1 DEF Ended
<1> QED BY <1>2, <1>3, <1>4, <1>5 DEF Next, Exited

\* A run that may be complete, that is to trim and to scrape, and that exits with
\* status 0 has saved a mapfile marked as finished in which nothing inside the domain
\* is left to try.
THEOREM CompleteWhenFinished ==
  Spec /\ Completes /\ ~Has("notrim") /\ ~Has("noscrape") => []FinishedIsComplete
<1>1. Init => Ended /\ NothingLeft
  BY DEF Init, Ended, NothingLeft, Tried, After, EndsWell
<1>2. Inv /\ [Next]_vars => dom' = dom /\ opts' = opts
  BY FixedVars DEF Inv, Sound
<1>3. Inv /\ NothingLeft /\ [Next]_vars => NothingLeft'
  BY <1>2, InvStep, NothingLeftStep
<1>4. Inv /\ Ended /\ [Next]_vars => Ended'
  BY EndedStep
<1> DEFINE All == ~Has("notrim") /\ ~Has("noscrape")
<1>5. Inv /\ All /\ [Next]_vars => All'
  BY <1>2 DEF Has
<1>6. Inv /\ NothingLeft /\ Ended /\ All => FinishedIsComplete
  <2> SUFFICES ASSUME Inv, NothingLeft, Ended, All, pc = "done", retval = 0
               PROVE  /\ disk = [map |-> map, cur |-> cur] /\ cur.status = "finished"
                      /\ \A p \in Positions(disk.map) \cap dom :
                           disk.map.st[p] \in {"bad_sector", "finished"}
    BY DEF FinishedIsComplete
  <2>1. /\ disk = [map |-> map, cur |-> cur] /\ cur.status = "finished"
        /\ EndsWell /\ e_code = {}
    BY DEF Ended, EndsWell
  <2>2. None("non_tried") /\ None("non_trimmed") /\ None("non_scraped")
    BY <2>1 DEF NothingLeft, Tried
  <2>3. \A p \in Positions(map) : map.st[p] \in Status
    BY MapTypes DEF Inv, TypeOK, Values, IsBook, map
  <2>4. disk.map = map
    BY <2>1
  <2> QED BY <2>1, <2>2, <2>3, <2>4 DEF None, Status
<1> QED BY InvInit, InvStep, <1>1, <1>3, <1>4, <1>5, <1>6, PTL DEF Spec
=============================================================================
