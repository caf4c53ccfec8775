------------------------------ MODULE LogProps ------------------------------
(***************************************************************************)
(* What the manual says of the operations of ddrescuelog, position by      *)
(* position.  Each invariant looks at the operation that ran last: at what *)
(* it was given (ran.dom, ran.args) and at what it wrote and told.         *)
(***************************************************************************)
EXTENDS Log

LOCAL INSTANCE FiniteSetsExt

\* The status at each position that the blocks of v hold.
StatusOf(v) ==
  [p \in UNION {Bytes(v[i]) : i \in DOMAIN v} |->
     v[CHOOSE i \in DOMAIN v : includes_pos(v[i], p)].st]

\* ... and at each position of a mapfile, with gaps filled or left.
Given(lines) == StatusOf(lines)
GivenLoose(lines, type) ==
  [p \in 0 .. Max({0} \cup {end(lines[i]) : i \in DOMAIN lines}) - 1 |->
     IF p \in DOMAIN Given(lines) THEN Given(lines)[p] ELSE type]

\* The positions of the rescue domain.
DomainSet(a) ==
  LET part == {p \in 0 .. LLONG_MAX - 1 :
                 p >= a.part[1] /\ (a.part[2] < 0 \/ p < a.part[1] + a.part[2])}
  IN  IF a.lines = NoFile THEN part
      ELSE {p \in part \cap DOMAIN Given(a.lines) : Given(a.lines)[p] = "finished"}

\* A mapfile that a program reads: blocks in order, none empty but the first, the
\* first anywhere.
Readable(v) == read_mapfile(v, "none").ok
Compact(v)  == \A i \in DOMAIN v : i > 1 => v[i - 1].st # v[i].st

Wrote == StatusOf(ran.wrote)
Dom   == DomainSet(ran.dom)
Done(f, p) == f[p] = "finished"

\* The positions whose blocks are to be listed, and the number of each one's block.
Listed ==
  LET f == Given(ran.args[1])
  IN  {p \in Dom \cap DOMAIN f : f[p] \in ran.args[3]}
NumberOf(p) == (p + ran.args[2]) \div HardBS

\* The blocks to be listed end where a long long can tell.
ListFits == \A p \in Listed : (NumberOf(p) + 1) * HardBS <= LLONG_MAX

\* The list has the numbers of all blocks with a position of the types, in
\* ascending order, and no other.
ListIsExact ==
  /\ ran.exit = 0
  /\ {ran.out[k] : k \in DOMAIN ran.out} = {NumberOf(p) : p \in Listed}
  /\ \A k \in DOMAIN ran.out : k > 1 => ran.out[k - 1] < ran.out[k]

-----------------------------------------------------------------------------
\* No operation ends with an internal error (blocks out of sync, a chunk that
\* cannot be changed, a block out of order), and what an operation writes is a
\* mapfile that the next one reads; but for annotated ones, with no two neighbours
\* of one status.  (A shift is the concern of ShiftMoves; a list of blocks whose
\* ends a long long cannot tell is left out, since the code overflows there.)
WritesReadable ==
  /\ (ran.op = "list" => ListFits) => ran.exit \in 0 .. 2
  /\ ran.op \notin {"none", "shift"} => Readable(ran.wrote)
  /\ ran.op \in {"and", "or", "xor", "change", "invert", "complete"} =>
       Compact(ran.wrote)

\* The logic operations agree with those on sets of finished positions, in the
\* domain as far as both mapfiles reach, and change nothing elsewhere; what was not
\* finished and does not become so keeps its status.
LogicBySets ==
  ran.op \in {"and", "or", "xor"} /\ ran.exit = 0 =>
    LET a == Given(ran.args[1])
        b == Given(ran.args[2])
        both == Dom \cap DOMAIN a \cap DOMAIN b
        result(p) == CASE ran.op = "and" -> Done(a, p) /\ Done(b, p)
                       [] ran.op = "or"  -> Done(a, p) \/ Done(b, p)
                       [] ran.op = "xor" -> Done(a, p) # Done(b, p)
    IN  /\ DOMAIN Wrote = DOMAIN a
        /\ \A p \in DOMAIN a :
             /\ Done(Wrote, p) = (IF p \in both THEN result(p) ELSE Done(a, p))
             /\ ~Done(Wrote, p) /\ ~Done(a, p) => Wrote[p] = a[p]

\* A change of types changes those of the domain, each to the type in the same
\* place or the last one there is, and no other; an inversion and an annotation
\* are changes of types; a completion fills all gaps with its type.
TypesChanged ==
  ran.op \in {"change", "invert", "annotate", "complete"} /\ ran.exit = 0 =>
    LET a == Given(ran.args[1])
        changed(s) ==
          CASE ran.op = "invert"   -> IF s = "finished" THEN "bad_sector" ELSE "finished"
            [] ran.op = "annotate" -> s
            [] ran.op = "change"   ->
                 LET at == {k \in DOMAIN ran.args[2] : ran.args[2][k] = s}
                 IN  IF at = {} THEN s
                     ELSE ran.args[3][min(Min(at), Len(ran.args[3]))]
    IN  Wrote = IF ran.op = "complete" THEN GivenLoose(ran.args[1], ran.args[2])
                ELSE [p \in DOMAIN a |-> IF p \in Dom THEN changed(a[p]) ELSE a[p]]

\* Two mapfiles compare equal if they agree on every position of the domain that
\* either of them holds; as domains, if they select the same positions ("Two files
\* comparing equal with this option are equivalent when used as domain mapfiles").
CompareIsEquality ==
  ran.op = "compare" /\ ran.exit \in {0, 1} =>
    LET read(lines) == IF ran.args[3] /\ ran.dom.loose
                       THEN GivenLoose(lines, "non_tried") ELSE Given(lines)
        a == read(ran.args[1])
        b == read(ran.args[2])
        in(f)   == Dom \cap DOMAIN f
        done(f) == {p \in in(f) : Done(f, p)}
        same == IF ran.args[3] THEN done(a) = done(b)
                ELSE in(a) = in(b) /\ \A p \in in(a) : a[p] = b[p]
    IN  IF in(a) = {} \/ in(b) = {} THEN ran.exit = 1
        ELSE ran.exit = 0 <=> same

\* A shift moves every status by the offset, drops what falls below 0 or beyond
\* LLONG_MAX or lay beyond the domain, puts non-tried in front, and its result is
\* read again.  (For mapfiles that begin at 0.)
ShiftMoves ==
  ran.op = "shift" /\ ran.exit = 0 =>
    LET a   == Given(ran.args[1])
        off == ran.args[3] - ran.args[2]
        top == Max({0} \cup {p + 1 : p \in Dom \cap DOMAIN a})
        moved == {p + off : p \in {q \in DOMAIN a : q < top}} \cap 0 .. LLONG_MAX - 1
    IN  ran.args[1][1].pos = 0 =>
          /\ Readable(ran.wrote)
          /\ Wrote = [p \in moved \cup 0 .. off - 1 |->
                        IF p < off THEN "non_tried" ELSE a[p - off]]

\* A mapfile made from a list of blocks marks those that lie in the domain whole,
\* ends where the domain ends, and does not replace a mapfile unless forced.
CreatedFromBlocks ==
  ran.op = "create" /\ ran.exit = 0 =>
    LET list == ran.args[2]
        listed == UNION {b \in {{p \in 0 .. LLONG_MAX - 1 : p \div HardBS = list[k]} :
                                  k \in DOMAIN list} : b \subseteq Dom}
    IN  /\ ran.args[3] \/ ran.args[1] = NoFile
        /\ Wrote = [p \in 0 .. Max(Dom) |->
                      IF p \in listed THEN "finished" ELSE "bad_sector"]

\* What is told is exact: the sizes and areas of each status in the domain and
\* their sum, whether all of it is finished, and the numbers of the blocks of the
\* types listed, in ascending order and each once, if a long long can tell the ends of
\* these blocks.  (Beyond that the list may miss blocks or not end: the sum and the
\* product of ddrescuelog.cc:445-446 wrap around.)
ToldExactly ==
  ran.op \in {"status", "done", "list"} /\ ran.exit # 2 =>
    LET f  == IF ran.op = "status" /\ ran.dom.loose
              THEN GivenLoose(ran.args[1], "non_tried") ELSE Given(ran.args[1])
        in == Dom \cap DOMAIN f
        of(s) == {p \in in : f[p] = s}
    IN  IF in = {} \/ ran.args[1] = NoFile THEN ran.exit = 1
        ELSE CASE ran.op = "done"   -> ran.exit = 0 <=> in = of("finished")
               [] ran.op = "status" ->
                    /\ ran.out.domain_size = Cardinality(in)
                    /\ \A s \in Status :
                         /\ ran.out.counts[s].size = Cardinality(of(s))
                         /\ ran.out.counts[s].areas =
                              Cardinality({p \in of(s) : p - 1 \notin of(s)})
               [] ran.op = "list"   -> ListFits => ListIsExact
=============================================================================
