-------------------------------- MODULE Log ---------------------------------
(***************************************************************************)
(* ddrescuelog: the operations on mapfiles, run one after another by a     *)
(* user who gives any of them the mapfiles there are and sends what it     *)
(* writes to standard output to a mapfile again.                           *)
(*                                                                         *)
(* Each operation is an operator on the lines of its mapfiles and returns  *)
(*                                                                         *)
(*    exit   0 done, 1 not done or unequal, 2 invalid mapfile, 3 internal  *)
(*           error                                                         *)
(*    v      the blocks of the mapfile it writes                           *)
(*    out    what else it tells                                            *)
(***************************************************************************)
EXTENDS MapVector

LOCAL INSTANCE SequencesExt

CONSTANTS
  Names,          \* the mapfiles
  Files,          \* what they hold at first: sequences of lines
  Parts,          \* pairs of position and size to restrict a domain to
  HardBS,         \* block size
  Offsets,        \* values of --input-position and --output-position to shift by
  Changes,        \* arguments of --change-types: pairs of sequences of statuses
  BlockLists,     \* lists of block numbers to create a mapfile from
  ListTypes,      \* arguments of --list-blocks: sets of statuses
  MaxCommands     \* bound on the number of operations of a behaviour

VARIABLES
  files,          \* the lines of every mapfile; NoFile if there is none
  ran,            \* the operation that ran last, with what it got and returned
  commands        \* the number of operations run

vars == <<files, ran, commands>>

\* No mapfile: a line that none holds.
NoFile == <<[pos |-> -1, size |-> 0, st |-> "non_tried"]>>

-----------------------------------------------------------------------------
(***************************************************************************)
(* What the operations have in common.                                     *)
(***************************************************************************)
Read(lines, default) ==
  IF lines = NoFile THEN [exit |-> 1, v |-> <<>>]
  ELSE LET file == read_mapfile(lines, default)
       IN  [exit |-> IF file.ok THEN 0 ELSE 2, v |-> file.v]

\* The constructor of Domain: the part [p, p + s), of the finished blocks of a
\* mapfile if one is given.
MakeDomain(part, lines, loose) ==
  LET b == assign(part[1], part[2])
      finished(v) ==
        SelectSeq(compact_sblock_vector(v), LAMBDA sb : sb.st = "finished")
      blocks(v) == [i \in DOMAIN v |-> [pos |-> v[i].pos, size |-> v[i].size]]
      cropped(dom) == IF dom = <<>> THEN Empty ELSE crop_domain(dom, b)
      made(file) == [exit |-> file.exit, d |-> cropped(blocks(finished(file.v)))]
  IN  IF lines = NoFile THEN [exit |-> 0, d |-> <<b>>]
      ELSE made(Read(lines, IF loose THEN "non_tried" ELSE "none"))

Result(exit, v, out) == [exit |-> exit, v |-> v, out |-> out]
Fails(exit)          == Result(exit, <<>>, <<>>)

\* The indices of the blocks inside the domain.
Inside(v, d) == {i \in DOMAIN v : InDomain(d, v[i])}
InsideSeq(v, d) == SelectSeq([i \in DOMAIN v |-> i], LAMBDA i : InDomain(d, v[i]))

\* What most operations begin with: the mapfile is read, the domain cropped by its
\* extent, and its blocks split at the borders of the domain.
Opened(d, lines, default, compact) ==
  LET opened(exit, v, dom) ==
        [exit |-> IF exit = 0 /\ empty(dom) THEN 1 ELSE exit,
         v    |-> split_by_domain_borders(v, dom), d |-> dom]
      cropped(exit, v) == opened(exit, v, crop_domain(d, extent(v)))
      read(file) ==
        cropped(file.exit, IF compact THEN compact_sblock_vector(file.v) ELSE file.v)
  IN  read(Read(lines, default))

-----------------------------------------------------------------------------
(***************************************************************************)
(* The operations.                                                         *)
(***************************************************************************)
Logic_OrKeeps(mode, f1, f2, old) ==                                         \* mutant
  IF mode = "xor" THEN (IF f2 THEN "finished" ELSE old)
  ELSE IF mode = "and" THEN (IF f1 /\ ~f2 THEN "bad_sector" ELSE old)
  ELSE old
Logic(mode, f1, f2, old) ==
  CASE mode = "and" -> IF f1 /\ ~f2 THEN "bad_sector" ELSE old
    [] mode = "or"  -> IF ~f1 /\ f2 THEN "finished" ELSE old
    [] mode = "xor" -> IF f2 THEN (IF f1 THEN "bad_sector" ELSE "finished") ELSE old

\* Both mapfiles are split at the borders of the domain and of each other; the
\* blocks of both that lie inside the domain are then taken in pairs.
\* i1 and i2 are the indices of those blocks of v1 and v2.
LogicOnPairs(mode, v1, v2, i1, i2) ==
  LET pairs == 1 .. min(Len(i1), Len(i2))
      status(i) ==
        LET k == CHOOSE k \in pairs : i1[k] = i
        IN  IF \A n \in pairs : i1[n] # i THEN v1[i].st
            ELSE Logic(mode, v1[i].st = "finished", v2[i2[k]].st = "finished", v1[i].st)
  IN  IF \E k \in pairs : \/ v1[i1[k]].pos # v2[i2[k]].pos
                          \/ v1[i1[k]].size # v2[i2[k]].size
      THEN Fails(3)
      ELSE Result(0, compact_sblock_vector(
                       [i \in DOMAIN v1 |-> Sblock(v1[i], status(i))]), <<>>)

do_logic_ops(mode, d, lines1, lines2) ==
  LET inDomain(v1, v2, dom) ==
        LogicOnPairs(mode, v1, v2, InsideSeq(v1, dom), InsideSeq(v2, dom))
      both(v1, s2, dom) == inDomain(v1, split_by_mapfile_borders(s2, v1), dom)
      divided(s1, s2, dom) == both(split_by_mapfile_borders(s1, s2), s2, dom)
      cropped(c1, c2, dom) ==
        IF empty(dom) THEN Fails(1)
        ELSE divided(split_by_domain_borders(c1, dom),
                     split_by_domain_borders(c2, dom), dom)
      compacted(c1, c2) ==
        cropped(c1, c2, crop_domain(crop_domain(d, extent(c1)), extent(c2)))
      read(r1, r2) ==
        IF r1.exit # 0 THEN Fails(r1.exit)
        ELSE IF r2.exit # 0 THEN Fails(r2.exit)
        ELSE compacted(compact_sblock_vector(r1.v), compact_sblock_vector(r2.v))
  IN  read(Read(lines1, "none"), Read(lines2, "none"))

\* Comments are all that annotate_mapfile adds.
annotate_mapfile(file) ==
  IF file.exit # 0 THEN Fails(file.exit) ELSE Result(0, file.v, <<>>)

\* If new types are fewer than old types, the last one is repeated.
parse_types(old, new) ==
  new \o [i \in 1 .. max(Len(old) - Len(new), 0) |-> Last(new)]

change_types(file, types1, types2) ==
  LET change(i) ==
        LET j == {k \in DOMAIN types1 : types1[k] = file.v[i].st}
        IN  IF i \in Inside(file.v, file.d) /\ j # {} THEN types2[Min(j)]
            ELSE file.v[i].st
  IN  IF file.exit # 0 THEN Fails(file.exit)
      ELSE Result(0, compact_sblock_vector(
                       [i \in DOMAIN file.v |-> Sblock(file.v[i], change(i))]), <<>>)

\* --invert-mapfile
invert_mapfile(file) ==
  change_types(file,
               <<"non_tried", "non_trimmed", "non_scraped", "bad_sector", "finished">>,
               <<"finished", "finished", "finished", "finished", "bad_sector">>)

\* Compares the blocks, or the finished blocks, of the domain in both mapfiles.
compare_mapfiles_NoDomain(o1, o2, as_domain) ==                             \* mutant
  LET tested(o) == SelectSeq(o.v, LAMBDA b : InDomain(o.d, b) /\ b.st = "finished")
  IN  Result(IF tested(o1) = tested(o2) THEN 0 ELSE 1, <<>>, <<>>)
compare_mapfiles(o1, o2, as_domain) ==
  LET tested(o) == SelectSeq(o.v, LAMBDA b : /\ InDomain(o.d, b)
                                             /\ as_domain => b.st = "finished")
      same == (as_domain \/ o1.d = o2.d) /\ tested(o1) = tested(o2)
  IN  IF o1.exit # 0 THEN Fails(o1.exit)
      ELSE IF o2.exit # 0 THEN Fails(o2.exit)
      ELSE Result(IF same THEN 0 ELSE 1, <<>>, <<>>)

complete_mapfile(lines, type) ==
  LET filled(file) == IF file.exit # 0 THEN Fails(file.exit)
                      ELSE Result(0, compact_sblock_vector(file.v), <<>>)
  IN  filled(Read(lines, type))

\* A mapfile from block numbers: those listed that lie inside the domain are of
\* type1 and all the rest of type2.  An internal error is a chunk refused.
create_mapfile_Untruncated(d, lines, list, type1, type2, force) ==          \* mutant
  Result(0, split_by_domain_borders(set_to_status(type2), d), <<>>)
create_mapfile(d, lines, list, type1, type2, force) ==
  LET v == split_by_domain_borders(set_to_status(type2), d)
      marked(c) == [exit |-> 0, v |-> c.v, index |-> c.index]
      mark(r, block) ==
        LET b == assign(block * HardBS, HardBS)
        IN  IF block < 0 \/ block > LLONG_MAX \div HardBS \/ r.exit # 0
            THEN [r EXCEPT !.exit = max(@, 2)]
            ELSE IF ~InDomain(d, b) \/ b.size = 0 THEN r
            ELSE IF ~CanChange(r.v, r.index, b, d) THEN [r EXCEPT !.exit = 3]
            ELSE marked(change_chunk_status(r.v, r.index, b, type1, d))
      created(all) ==
        IF all.exit # 0 THEN Fails(all.exit)
        ELSE Result(0, truncate_vector(all.v, domain_end(d), TRUE).v, <<>>)
  IN  IF empty(d) \/ (~force /\ Read(lines, "none").exit = 0) THEN Fails(1)
      ELSE IF ~force /\ Read(lines, "none").exit = 2 THEN Fails(2)
      ELSE created(FoldLeft(mark, [exit |-> 0, v |-> v, index |-> 1], list))

\* Exit status 0 if everything in the domain is finished; with del the mapfile is
\* then deleted.
test_if_done(file) ==
  LET done == \A i \in Inside(file.v, file.d) : file.v[i].st = "finished"
  IN  IF file.exit # 0 THEN Fails(file.exit)
      ELSE Result(IF done THEN 0 ELSE 1, <<>>, <<>>)

shift_mapfile(d, lines, ipos, opos) ==
  LET shifted(v) == Result(0, compact_sblock_vector(shift_blocks(v, opos - ipos)), <<>>)
      cropped(file, dom) ==
        IF file.exit # 0 THEN Fails(file.exit)
        ELSE IF empty(dom) THEN Fails(1)
        ELSE shifted(truncate_vector(file.v, domain_end(dom), TRUE).v)
      read(file) == cropped(file, crop_domain(d, extent(file.v)))
  IN  IF ipos # 0 /\ opos # 0 THEN Fails(1) ELSE read(Read(lines, "none"))

\* to_badblocks computes with plain long longs, where the methods of Block saturate:
\* a sum or product that is too large wraps around, and a quotient is cut off.
Wrap(n)     == ((n + LLONG_MAX + 1) % (2 * (LLONG_MAX + 1))) - (LLONG_MAX + 1)
Quotient(n) == IF n < 0 THEN -((-n) \div HardBS) ELSE n \div HardBS

\* The numbers of the blocks that a part of one of the types lies in, in order.  If
\* the loop over a block does not stop, the counter itself wraps around at last, and
\* the negative number is "out of order".
to_badblocks_Overlap(offset, file, types) ==                                \* mutant
  LET numbers(sb) == [k \in 1 .. (end(sb) - sb.pos) \div HardBS |->
                        (sb.pos + offset) \div HardBS + k - 1]
      list == FoldLeft(LAMBDA l, i : IF file.v[i].st \in types
                                     THEN l \o numbers(file.v[i]) ELSE l,
                       <<>>, InsideSeq(file.v, file.d))
  IN  Result(0, <<>>, list)
to_badblocks(offset, file, types) ==
  LET numbers(sb) ==
        LET first == Quotient(Wrap(sb.pos + offset))
            block(k) == Wrap(first + k)
            rounds == 2 * (LLONG_MAX + 1)
            stops == {k \in 0 .. rounds : Wrap(block(k) * HardBS) >= Wrap(end(sb) + offset)}
        IN  [k \in 1 .. Min(stops \cup {rounds}) |-> block(k - 1)]
      \* one number more: printed if it is the next one, skipped if it is the last
      print(r, n) ==
        IF n < r.last \/ r.exit = 3 THEN [r EXCEPT !.exit = 3]
        ELSE IF n = r.last THEN r
        ELSE [r EXCEPT !.last = n, !.list = Append(@, n)]
      printed(all) == Result(all.exit, <<>>, all.list)
  IN  IF file.exit # 0 THEN Fails(file.exit)
      ELSE printed(FoldLeft(LAMBDA r, i : FoldLeft(print, r,
                              IF file.v[i].st \in types THEN numbers(file.v[i]) ELSE <<>>),
                            [exit |-> 0, last |-> -1, list |-> <<>>],
                            InsideSeq(file.v, file.d)))

\* The size and the number of areas of each status in the domain.
do_show_status(file) ==
  LET of(s) == SelectSeq(file.v, LAMBDA b : InDomain(file.d, b) /\ b.st = s)
      counts == [s \in Status |-> [size |-> in_size(of(s)), areas |-> Len(of(s))]]
  IN  IF file.exit # 0 THEN Fails(file.exit)
      ELSE Result(0, <<>>, [domain_size |-> in_size(file.d), counts |-> counts])

-----------------------------------------------------------------------------
(***************************************************************************)
(* One run of ddrescuelog.  What it writes goes to the mapfile out.        *)
(***************************************************************************)

\* The domain options: a part, and any mapfile or none as the domain mapfile.
DomainArgs ==
  {[part |-> p, lines |-> l, loose |-> x] :
     p \in Parts, l \in {NoFile} \cup {files[n] : n \in Names}, x \in BOOLEAN}
DomainOf(a) == MakeDomain(a.part, a.lines, a.loose)

\* The mapfile n opened for a domain; the status takes a loose one as such.
OpenedAs(a, n, status) ==
  Opened(DomainOf(a).d, files[n], IF status /\ a.loose THEN "non_tried" ELSE "none", status)
ComparedAs(a, n, as_domain) ==
  Opened(DomainOf(a).d, files[n],
         IF as_domain /\ a.loose THEN "non_tried" ELSE "none", TRUE)

Did(op, a, args, r) ==
  /\ commands' = commands + 1
  /\ ran' = [op |-> op, dom |-> a, args |-> args,
              exit |-> r.exit, wrote |-> r.v, out |-> r.out]

\* An operation that writes a mapfile, and one that only tells something.
Writes(op, a, args, r) ==
  /\ Did(op, a, args, r)
  /\ \E out \in Names :
       files' = IF r.exit = 0 THEN [files EXCEPT ![out] = r.v] ELSE files
Tells(op, a, args, r) == Did(op, a, args, r) /\ UNCHANGED files

Init ==
  /\ files \in [Names -> Files \cup {NoFile}]
  /\ ran = [op |-> "none", exit |-> 0]
  /\ commands = 0

LogicOp ==
  /\ commands < MaxCommands
  /\ \E a \in DomainArgs, mode \in {"and", "or", "xor"}, n, k \in Names :
       /\ DomainOf(a).exit = 0
       /\ Writes(mode, a, <<files[n], files[k]>>,
                 do_logic_ops(mode, DomainOf(a).d, files[n], files[k]))

Annotate ==
  /\ commands < MaxCommands
  /\ \E a \in DomainArgs, n \in Names :
       /\ DomainOf(a).exit = 0
       /\ Writes("annotate", a, <<files[n]>>, annotate_mapfile(OpenedAs(a, n, FALSE)))

ChangeTypes ==
  /\ commands < MaxCommands
  /\ \E a \in DomainArgs, n \in Names, t \in Changes :
       /\ DomainOf(a).exit = 0
       /\ Writes("change", a, <<files[n], t[1], parse_types(t[1], t[2])>>,
                 change_types(OpenedAs(a, n, FALSE), t[1], parse_types(t[1], t[2])))

Invert ==
  /\ commands < MaxCommands
  /\ \E a \in DomainArgs, n \in Names :
       /\ DomainOf(a).exit = 0
       /\ Writes("invert", a, <<files[n]>>, invert_mapfile(OpenedAs(a, n, FALSE)))

Compare ==
  /\ commands < MaxCommands
  /\ \E a \in DomainArgs, n, k \in Names, as_domain \in BOOLEAN :
       /\ DomainOf(a).exit = 0
       /\ Tells("compare", a, <<files[n], files[k], as_domain>>,
                compare_mapfiles(ComparedAs(a, n, as_domain), ComparedAs(a, k, as_domain),
                                 as_domain))

Complete ==
  /\ commands < MaxCommands
  /\ \E a \in DomainArgs, n \in Names, type \in Status :
       /\ DomainOf(a).exit = 0
       /\ Writes("complete", a, <<files[n], type>>, complete_mapfile(files[n], type))

\* Written to the mapfile that was tested, which only --force overwrites.
Create ==
  /\ commands < MaxCommands
  /\ \E a \in DomainArgs, n \in Names, list \in BlockLists, force \in BOOLEAN :
       /\ DomainOf(a).exit = 0
       /\ \E r \in {create_mapfile(DomainOf(a).d, files[n], list, "finished", "bad_sector",
                                 force)} :
            /\ Did("create", a, <<files[n], list, force>>, r)
            /\ files' = IF r.exit = 0 THEN [files EXCEPT ![n] = r.v] ELSE files

DoneStatus ==
  /\ commands < MaxCommands
  /\ \E a \in DomainArgs, n \in Names, del \in BOOLEAN :
       /\ DomainOf(a).exit = 0
       /\ \E r \in {test_if_done(OpenedAs(a, n, FALSE))} :
            /\ Did("done", a, <<files[n], del>>, r)
            /\ files' = IF r.exit = 0 /\ del THEN [files EXCEPT ![n] = NoFile] ELSE files

\* The domain begins at the input position.
Shift ==
  /\ commands < MaxCommands
  /\ \E a \in DomainArgs, n \in Names, opos \in Offsets :
       /\ DomainOf(a).exit = 0
       /\ Writes("shift", a, <<files[n], a.part[1], opos>>,
                 shift_mapfile(DomainOf(a).d, files[n], a.part[1], opos))

ListBlocks ==
  /\ commands < MaxCommands
  /\ \E a \in DomainArgs, n \in Names, opos \in Offsets, types \in ListTypes :
       /\ DomainOf(a).exit = 0
       /\ Tells("list", a, <<files[n], opos - a.part[1], types>>,
                to_badblocks(opos - a.part[1], OpenedAs(a, n, FALSE), types))

ShowStatus ==
  /\ commands < MaxCommands
  /\ \E a \in DomainArgs, n \in Names :
       /\ DomainOf(a).exit = 0
       /\ Tells("status", a, <<files[n]>>, do_show_status(OpenedAs(a, n, TRUE)))

Next ==
  \/ LogicOp \/ Annotate \/ ChangeTypes \/ Invert \/ Compare \/ Complete
  \/ Create \/ DoneStatus \/ Shift \/ ListBlocks \/ ShowStatus

Spec == Init /\ [][Next]_vars
=============================================================================
