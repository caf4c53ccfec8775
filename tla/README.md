# A formal model of ddrescue

GNU ddrescue copies data from a failing drive: it reads the good parts first and keeps,
in a *mapfile*, which parts of the input are rescued and what was tried on the others, so
that a rescue can be interrupted at any time and go on later. This directory holds TLA+
modules that model that program from its source (`src/`), the TLC configurations that check
them on small instances, and proofs for every instance.

## 1. The system

| component | source | state | operations |
|---|---|---|---|
| block map | `block.*`, `mapfile.cc` | a vector of consecutive blocks with a status; a cached index | find a chunk, change its status (split, join), cut off at EOF, compact, split by the domain |
| rescue run | `rescuebook.*` | the map, the counters of sizes and bad areas, the phase, pass and position, the limits met | copy in up to five passes with skipping, trim, scrape, retry; one read at a time |
| mapbook | `mapbook.*` | the domain, the options, when the mapfile was last saved and synced | startup of the map, periodic and final save, `.bak` copy, emergency save |
| session | `main.cc`, constructors | the mapfile and the output file on disc | run, interrupt, crash, run again in another mode or with other options |
| rates and limits | `rescuebook.cc` `update_rates` | clock readings, rates, counts | decide that a limit is exceeded or a read is slow |
| fill, generate | `fillbook.cc`, `genbook.cc` | the map, the current position | fill blocks of given statuses in the output; rebuild a map from an output file |
| command mode | `command_mode.cc` | the map | copy or query one block on command |
| ddrescuelog | `ddrescuelog.cc` | two maps | logic operations, comparison, change of types, creation |
| numbers | `rational.*`, `main_common.cc` | - | parsing, rational arithmetic |
| input and output | `io.cc`, `loggers.*`, `non_posix.*` | signal flag, open files | read and write a block, log |

The program is one thread. `do_rescue` calls the phases in order; each phase has a loop that
looks for a chunk in the map, calls `copy_and_update` to read it and change the map, then
decides what to skip, and calls `update_rates` and `update_mapfile`. What makes it hard is not
concurrency but long sequences of operations on one shared structure under a hostile
environment: any read may fail part way or meet EOF, any write or save may fail, the user may
interrupt, a limit may be met between any two reads, and the map a run starts from may have
been left by any other run.

What must hold of each component: the map stays a partition whose blocks have one status and
lie inside or outside of the domain; the counters agree with it; no phase reads what is not its
own to read; no position becomes less processed; nothing is called rescued that is not in the
output file, or saved as rescued that is not on disc; a run ends, and if it ends well nothing
is left to try; ddrescuelog's operations agree with set operations on statuses; a filled or
generated map says what was written or found.

## 2. The modules

| module | what it is | source |
|---|---|---|
| `BlockMap` | the block map and its operations, as constant operators | `block.*`, `mapfile.cc`, `initialize_sizes` of `rescuebook.cc` |
| `Rescue` | one run in rescue mode as a state machine | `rescuebook.cc`, `update_mapfile` of `mapbook.cc` |
| `RescueProps` | its type invariant, invariants, action properties and liveness | `doc/ddrescue.texi`, comments of the source |
| `MCRescue` | starting maps, domains and options for TLC | |
| `BlockMapProofs` | lemmas on the operators of `BlockMap` | |
| `RescueProofs` | type correctness of `Rescue`, its safety invariants and action properties, and that no phase ends well before its work is done | |
| `MapSave` | the saving of the mapfile, call by call, over several runs | `mapbook.cc`, `write_mapfile` of `mapfile.cc`, `do_commands` of `command_mode.cc` |
| `MapSaveProps` | its type invariant, invariants, and the mapping to `Checkpoint` | `doc/ddrescue.texi` |
| `Checkpoint` | what saving promises: an abstract specification | `doc/ddrescue.texi` |
| `MapSaveProofs` | the theorems about `MapSave` | |
| `MapVector` | blocks, domains and the vector of blocks as they are stored, as constant operators | `block.*`, `mapfile.cc`, the constructor of `Mapbook` |
| `Mapfile` | the vector, the cached index and the domain as a state machine | `mapfile.cc`, `mapbook.cc` |
| `AbstractMap` | what the vector promises, in terms of `BlockMap`: an abstract specification | `block.*`, `mapfile.cc` |
| `MapfileProps`, `MCMapfile` | its invariants and the mapping to `AbstractMap`; instances | comments of the source |
| `VectorProofs` | what the operations on blocks and on the vector in memory give, and the search in a domain | |
| `LoadProofs` | what reading, compacting, joining subsectors, extending and splitting give: the loads | |
| `MapfileProofs` | the theorems about `Mapfile`, with its implementation of `AbstractMap` | |
| `Session` | what fill, generate and command mode have in common: files, runs, kills, saves | `main.cc`, `mapbook.*`, `io.cc` |
| `Fill`, `Generate`, `Commands` | the three modes, each as the actions of a run | `fillbook.cc`, `genbook.cc`, `command_mode.cc` |
| `Modes` | their composition: any run after any other on the same files | `main.cc` |
| `ModesProps`, `MCModes` | its invariants, action property and liveness; instances | `doc/ddrescue.texi` |
| `ModesProofs` | the theorems about fill, generate and command mode | |
| `Log` | the operations of ddrescuelog and a user who runs them | `ddrescuelog.cc`, `Domain` of `mapfile.cc` |
| `LogProps`, `MCLog` | its properties, stated on statuses position by position; instances | `doc/ddrescue.texi` |
| `Rational` | rational numbers of bounded ints | `rational.*` |
| `Rates` | the clock of a rescue and its limits | `update_rates` and its callers in `rescuebook.cc` |
| `RatesProps`, `MCRates` | their properties; instances | `rational.h`, `doc/ddrescue.texi` |
| `RatesProofs` | theorems about the timeout and about rational arithmetic | |

### BlockMap: how the map is represented

The program keeps a vector of consecutive blocks, each with a position, a size and a status.
`BlockMap` keeps `end`, the end of the last block; `cuts`, the set of positions where a block
begins; and `st`, the status of every position. A vector of blocks is such a map in which the
statuses agree within each block (`Uniform`); that this stays so is not built in but is one of
the invariants (`BlocksSound`), as is that no block crosses a border of the domain
(`SplitByDomain`), which is what `Domain::includes( block )` and the internal errors of
`change_chunk_status` are about. The unit of position is arbitrary (a sector, or a byte with
`HardBS > 1`).

`find_chunk` and `rfind_chunk` return the set of the chunk found, empty for the program's
size 0. `change_chunk` is `change_chunk_status` seen from its result: the program distinguishes
whether the chunk touches the start or the end of its block and whether the neighbour there has
the new status, in which case it moves a border, and otherwise inserts a block; here a border is
added at each end of the chunk and removed where the chunk joins a neighbour. A consequence of
the code that this keeps: a block joins its neighbours only when its status is changed by
`change_chunk_status`, so that neighbours of equal status may stay apart (after
`change_sblock_status`, and at the border of the domain). `area_adjust` is what the program
returns for the count of bad areas. `CanChange` is the negation of the conditions of the two
internal errors.

### Rescue: state and actions

| variables | code |
|---|---|
| `book` | `Mapfile::sblock_vector` with the counters `non_tried_size` ... `finished_size` and `bad_areas` |
| `dom` | `Mapbook::domain_` |
| `cur` | `current_pos_`, `current_status_`, `current_pass_`: the status line |
| `opts`, `pending` | `Rb_options`; `copy_pending`, `trim_pending`, `scrape_pending` |
| `phase`, `pc` | the function that runs and the point it is at |
| `pass`, `first_pass`, `resume`, `pos`, `eskip_size`, `block_found` | locals of `copy_non_tried`, `fcopy_non_tried`, `rcopy_non_tried`, `copy_errors` and its two halves (`pos` is their `pos`, or their `end`) |
| `i`, `pos`, `stop`, `edge`, `rbad` | locals of `trim_errors` and `scrape_errors`: the index, what is left of the copy of the block, and which edge is trimmed |
| `chunk`, `res` | the arguments `b`, `copied_size` and `error_size` of `copy_and_update` |
| `first_post`, `e_code`, `retval` | as in the code; `retval = -1` stands for the end by a signal, `-2` for a failed save |
| `outfile`, `synced`, `disk` | what was written to the output file, what an `fsync` covered, and the mapfile as last saved |

One action is one stretch of code between two points where the environment acts: entering or
skipping a phase (`SkipPhase`, `EnterCopying`, `EnterSectors`, `EnterRetrying`), a pass
(`StartPass`, `SkipPass`, `EndPass`, `PassesDone`), choosing a chunk (`ScanChunk`, `TakeBlock`,
`LeadSector`, `TrailSector`), `copy_and_update` with each outcome of the read (`ReadRefused`,
`Interrupted`, `WriteFailed`, `ReadGood`, `ReadBad`, `ReadEof`, `InternalError`), what follows
the read (`AfterCopy`, `AfterCopyFails`, `AfterRetry`, `AfterSector`: skipping, rates, the
periodic save), leaving blocks for the next phase (`LeaveBlock`, `BlockDone`), and the end
(`EndMapfileError`, `End`). The forward and the backward halves of a phase are one action with
the direction as a parameter (`Forward`, `near`, `far`), since the code has them as mirror
images; `find_chunk` and `rfind_chunk` are not mirror images and are modelled each on its own.

The environment chooses, at every read: whether it succeeds, fails after part of the chunk, or
meets EOF (at `InEnd`, a constant: the true end of the input, which the map may not know);
whether the write fails; whether the user interrupts; whether the read was slow; which of the
limits given is met; whether a save is due and succeeds. A limit met stops the program at the
points where the code looks at `e_code`.

### MapSave: state and actions

`Rescue` takes `update_mapfile` in one step; `MapSave` takes one step per call of the system,
so that the process can be killed between any two (`Kill`), and a new run follows (`Restart`).
Of the map in memory only the version counts (`version`); each change of it is `Progress`.
`main` and `bak` are the mapfile and its backup copy, each absent, partly written (`Part`) or
holding a version; `emergency` is `ddrescue.map`. `um_t1`, `um_t1s`, `um_prev_mf_sync` and
`mf_sync` are the variables of that name, `caller` says which call it is: periodic or final
(rescue, fill and generate modes call it in the same two ways, and none goes on after a
failed periodic save), or one of the commands `u` and `f`. `pc` goes from `update_mapfile`
over `RemoveBackup` and `RenameToBackup`, if the backup is due, to `OpenMapfile` and
`WriteMapfile`; a failure of either leads to the dialog (`Retry`, `EmergencyExit`, `GiveUp`;
with `verbosity < 0` only the last). `promised` is the version the run has fsynced last, and
`given_up` that the map in memory was lost by a kill, the user, quiet mode, or an emergency
save that failed last: none is in the code.

Abstracted: the rename is taken to succeed if there is a mapfile, `fclose` and `fsync` fail
with the write, and a kill keeps what was written to files (of a loss of power nothing is
said; `write_mapfile` calls `fsync` before the data has left the buffer of `stdio`). The
interval between saves is any of `SaveIntervals` at each call, since it changes with the number
of blocks. At
the end of the standard input the program repeats its dialog for ever, which here is a state
it does not leave. On a new run the user has put the backup copy in the place of a mapfile that
is not whole, as the reader refuses such a mapfile.

### MapVector and Mapfile: the vector of blocks

`BlockMap` says what the map is; `MapVector` says how the program keeps it: a sequence of
blocks `[pos, size, st]`, a domain as a sequence of blocks, indices from 1 (0 for the program's
-1), and positions that saturate at `LLONG_MAX` as the methods of `Block` do. It holds every
operation of `block.h`, `block.cc` and `mapfile.cc` that a mode uses: `find_index` with its
walk up and down from the cached index, `find_chunk` and `rfind_chunk` with the alignment of
their ends, the five cases of `change_chunk_status` (`change_block`) with the adjustment of the
bad areas, `truncate_vector`, `extend_sblock_vector`, `join_subsectors`, `compact`,
`split_by_domain_borders`, `split_by_mapfile_borders`, `shift_blocks`, the crop of a domain,
`read_mapfile` with the gaps it fills, and `Mapbook`, the constructor.

| `Mapfile` | code |
|---|---|
| `sblock_vector`, `index_`, `domain` | the members of `Mapfile` and `Mapbook` of that name |
| `Init`, `Rerun` | `read_mapfile` and the constructor of `Mapbook`, in rescue mode and in others; a rerun compacts, saves and loads again |
| `CopyForwards`, `CopyBackwards` | `find_chunk` or `rfind_chunk`, then `change_chunk_status` of the part that was read, or not |
| `LeaveBlock` | `change_sblock_status` |
| `EofFound` | `truncate_vector` |

`AbstractMap` allows the operations of `BlockMap`, and a load that keeps what is finished and
takes nothing for more processed. `Mapfile` implements it under `Abs`, the map that the blocks
make up. Since `Rescue` is built on `BlockMap`, this is what connects it to the vector.

### Session, Fill, Generate, Commands, Modes

| variables | code |
|---|---|
| `mapfile`, `outfile` | the two files on disc: lines and status line; the content at each position |
| `pc`, `job` | which mode runs, its options, and whether it waits for a command, copies, or ends |
| `book` | the mapfile in memory with the cached index, the domain and the status line |
| `b`, `area` | locals: the block to handle next; in fill mode the index of the area |
| `retval` | how the main loop ended, or the exit status |
| `series` | history: the runs that resumed one another, and what they filled, asked for or failed to read |

A run starts (`StartFill`, `StartGenerate`, `StartCommands`) with what `main` and the
constructors do: it refuses an invalid mapfile, an empty domain, in fill mode a missing mapfile
and in generate mode one that is in use; command mode creates a missing mapfile. It resumes at
the position of the status line if that line says so and the domain holds the position. One
action is one iteration of a main loop: in fill mode the choice of an area (`FillArea`) and the
write of a block (`FillBlock`, `FillFails`), in generate mode the read of a chunk, the marking
of its sectors and the cut at EOF (`CheckChunk`), in command mode a command and each chunk of a
copy (`CopyChunk`, `CopyWriteFails`). Between any two the process may be killed (`Kill`); fill
and generate mode look for a signal at the begin of each. `End` is the end of `do_fill` and
`do_generate`. A periodic save is made, or not, at the environment's choice, and a save may
fail and be given up.

Abstracted: data is one of zero, data and fill; a failed save leaves the mapfile as it was (what
it may leave is `MapSave`'s subject); the two files have the same positions
(`--output-position` equal to `--input-position`); a read returns a prefix. Left out: the
counters and screens, `--synchronous`, fill data that names its location, the command `s`, which
only prints, and `--complete-only` in command mode (finding 2).

A fill compacts the blocks and splits them by its domain, so that every save of it may change
the lines of the mapfile, though the status of no position (`FillTouchesOnlyItsTypes`). The
manual says that only the status line is modified; that stronger sentence is
`FillKeepsBlocks`, which the run `fill_layout` refutes (finding 5).

Some more of what the model shows to happen is worth knowing.
A fill that was killed and resumed with other types or another domain, or after a run of command
mode, skips the areas before the position in the status line: `FillComplete` and
`GenerateExact` are about series of runs with the same arguments (`series.pure`). With `--sparse`, zeros are not
written, and command mode, unlike a rescue, never extends the output file at its end
(`extend_outfile_size` is called by `do_rescue` only): zeros at the end of what was copied are
missing from the file, and the mapfile calls them finished (`CopyIsComplete` allows just that).
Where the output file held other data before, a sparse copy leaves that data in the place of the
zeros. This is assumed not to happen (`SparseAssumption`: no output file to begin with
holds data where the input holds zeros, if some run is sparse); what a fill writes there is
allowed by the property. A mapfile that generate mode began or went on with is a guess from then
on (`series.guess`), and `CopyIsComplete` does not judge it.

### Log: ddrescuelog

`files` are the mapfiles there are; each action is one run of the program on any of them with
any domain options, its result in `ran`, and what it writes becomes one of the mapfiles. Each
operation is an operator on the lines of its arguments, named as its function. What they share
is `Opened`: read, crop the domain by the extent of the map, compact if the operation does,
split at the domain's borders. The properties know nothing of blocks: `LogProps` states each
operation as a function on the status of every position.

`shift_blocks` with a positive offset puts a non-tried block in front, or extends the first
block if that is non-tried. If the map does not begin at 0 and its first block has another
status, a gap remains, and the mapfile written is one that `read_mapfile` refuses;
`ShiftMoves` is therefore about mapfiles that begin at 0. A negative shift beyond all blocks
leaves each of them at 0 with size 0.

`to_badblocks` alone computes positions with plain `long long`s (`ddrescuelog.cc:445-446`). The
model has them of the width that `LLONG_MAX` gives: sums and products wrap around (`Wrap`), as
they do in the builds, although the language leaves an overflow undefined. `ToldExactly` and
`WritesReadable` speak of a list only if the ends of its blocks, with the offset between the
files added, do not exceed `LLONG_MAX` (`ListFits`); what happens to the others is told in section 5. If
the loop does not stop, the model lists all numbers there are and then meets the internal error
for a number that is out of order, which the program would reach after 2^63 lines.

### Rates and Rational

| variables | code |
|---|---|
| `clock` | `std::time`: whole seconds, in which it may be set back and ahead (`SetClock`) |
| `r` | the variables `t0`, `t1`, `ts`, `tp`, `last_size`, `error_sum`, `e_code`, `rates_updated`, `slow_reads` of `Rescuebook` |
| `pc`, `bad` | before a read, after a pause, before `update_rates`, at the end; whether the read had errors |
| `g` | history: real and simulated seconds since the last success that the program saw (`idle`) and since the rates were computed (`since`), and whether the clock or a pause makes them doubtful |

`update_rates` is one operator, in the order of its code: the clock that jumped back, the
simulated pauses that become time passed, the timeout, the error rate, slow reads, and the times
they leave for the next update. The callers are actions: `Read`, `NextPass` (the pause between
passes), `RatesUpdated` (with `do_pause_on_error`), `LimitFound`, and `End` (the forced update).
`--max-read-rate` makes an update wait for the next second (`Throttled`). `Sliding_average`, the
rates that are only shown, and the skip size computed from slow reads are left out.

Of the behaviour, three things are to be known. The bytes that failed are summed up while the
time they are divided by may have been moved by a clock set back or a pause between passes: the
error rate is then too high (`spoilt`). Simulated pauses are rounded to whole seconds at each
update, not over the run. If the clock is set back between the last update and the end of a
pause between passes, `ts` is moved twice and the timeout comes early (`doubt`).

`Rational` holds normalisation, sum, product, inverse, rounding and parsing, for any width of
`int`; a denominator of 0 is the error state. The comparisons, the conversion to text and the
constructor from two ints are left out.

### What `Rescue` abstracts

- Time: the limits on rates and time, and slowness, are choices (`Limits`, `SlowReads`); when
  they are met is the subject of `Rates`. The size skipped after a slow read in pass 1 depends
  on the rates and is 0 or any size in `SkipBS .. MaxSkipBS` (0 occurs in the code only after a
  slow read that had an error too, since `sskip_size` is not set then, and later doubled:
  `rescuebook.cc:347-353`; here it may occur at any slow read).
- The disc: `update_mapfile` calls `fsync` on the output file and ignores its result
  (`mapbook.cc:144`). `synced` is what such a call covered, so that `SavedIsSynced` says that the
  call comes before the save that relies on it, not that the drive obeyed.
- Data: only which positions were written. The sparse output file (`extend_outfile_size`),
  direct access, preallocation and test mode are left out, and `verify_on_error` is one of the
  limits `"other"`.
- Positions do not saturate at the largest `long long` (they do in `MapVector`), and
  `MaxRetries` and passes are not bounded by `INT_MAX`.
- Reads entirely beyond EOF find EOF and no error.
- A run without a mapfile saves nothing, which is the case `Saves = {"not_due"}` but for the
  last save. A crash needs no action: `SavedIsSynced` is about the disc, at every moment.
- A mapfile whose status line says filling or generating resumes as one that says finished.
- With `complete_only`, the maps that do not begin at 0 are not considered.
- A pass before `first_pass` is only a reversal of the direction in the code, and the direction
  is here a function of the parity of the pass.

## 3. The runs

| run | instance | shows |
|---|---|---|
| `rescue` | no mapfile, 8 positions and EOF at 7; or every map of four positions with all five statuses, four status lines, two of them with a hole in the domain too; both directions, five passes, reads of 3, skips of 1 to 4, one retry; every read may succeed, fail anywhere, meet EOF or find the timeout passed, and every save may fail (5.7 million states) | the types, `BlocksSound`, `ReadsItsTarget`, the exact counters, no internal error, `TriedAtMostTwice`, `PassMovesOn`; no phase starts, and no run ends well, before the earlier ones left nothing (`NothingLeft`, `FinishedIsComplete`) |
| `options` | 9 positions in sectors of 2, a domain in two parts or data rescued beyond EOF, four combinations of options, limits, slow reads, failed writes and saves (68 532 states) | `RescuedIsWritten`, `SavedIsSynced`, `NeverLessProcessed`, `LimitsEndRun`, and `Termination` under fairness |
| `save` | two runs of either mode, quiet or not; versions to 3, clock to 4, no interval or one of 3 between saves, 2 between syncs (695 000 states) | `PromiseKept`, `SavedUnlessGivenUp`, and that `MapSave` implements `Checkpoint` |
| `mapfile` | maps to 5 positions, `LLONG_MAX = 5`, sectors and chunks of 2, four mapfiles (one with a gap, one empty), two domains, input size 4 or unknown (10 032 states) | `IndexFromAnyCache`, `FindsWhatIsThere`, `AdjustExact`, `JoinsToLeastProcessed`, `BlocksSaturate`, and that `Mapfile` implements `AbstractMap` |
| `log` | eight mapfiles of 0 to 4 blocks, with and without a start at 0, a gap, or the largest extent; positions to 7, blocks of 2; every pair of mapfiles with every part, domain mapfile and option (95 452 states) | `WritesReadable`, and each operation against its reference: `LogicBySets`, `TypesChanged`, `CompareIsEquality`, `ShiftMoves`, `CreatedFromBlocks`, `ToldExactly` |
| `modes` | an input of 5 positions in sectors of 2 and clusters of 4, a mapfile with a bad part or none, two domains, two sets of types, a third domain for command mode with a sparse output file, two requests, three runs or copy commands (202 545 states) | `FillComplete`, `GenerateExact`, `CopyIsComplete`, `FillTouchesOnlyItsTypes`, and `RunsEnd` under fairness |
| `rates` | six values of the clock, set at most once, reads of 0 or 2 bytes, four sets of options; ints to 5 (150 954 states) | `LimitsExact` and `RationalExact` |
| `save_again` | the same as `save`, rescue mode only, versions to 2 | finding 4 |
| `size_counters` | every map of four positions, reads and skips of 1 and 2, one direction | finding 1 |
| `complete_only` | 8 positions, EOF at 5 | finding 2 |
| `resume_pass5` | maps of four positions, interrupted in pass 5 | finding 3 |
| `fill_layout` | as `modes`, with a domain that ends inside a block, one run | finding 5 |

Why the bounds are enough for what the runs ask. A change of a chunk touches its block and the
two neighbours, so that seven or eight positions hold every combination of a chunk, what is
left of its block on both sides, and neighbours that join or do not, with the first and the last
block of the map among them. A read of 3 can fail at its start, middle or end; skips of 1, 2 and
4 double to a maximum that is reached and end within, at and beyond a block. EOF falls in the
last read, and in `options` inside a sector, and below what the mapfile says is rescued. Four
positions with any statuses are every pattern of neighbours that trimming and scraping
distinguish (bad before, bad after, both, none, at the ends of the map), in every order of
passes. In `rescue` a timeout may be met at any read, and any save may fail, so that a limit
met in one phase is looked at again in each later one; without a mapfile, EOF lies inside the
map, and is met in copying and in trimming. (The maps of four positions end before EOF, for the
reason given below for reverse runs.) A mapfile interrupted in pass 5 is only taken at its
beginning, the rest being finding 3. `options` has the limits on read errors and on slow reads
too, and with `MaxBadAreas = 1` that on bad areas. In `save`, three versions are a file to lose,
a file to keep and a file to write; a clock of 4 passes the sync interval of 2 and the save
interval of 3, and may be set back; two runs show what a run inherits.

In `mapfile` the largest position lies within the map, so that chunks, extents and skips meet
it; a sector of two positions is cut by blocks and by the domain in every way, and
`AdjustExact` and `IndexFromAnyCache` ask for every chunk, status and cached index in every
reachable vector, not only for those that a step uses. In `log` one operation runs per
behaviour (`MaxCommands = 1`), on every combination of mapfiles and options: `WritesReadable`
then says that its result may be the argument of another. Two mapfiles
reach the largest position, which the offsets pass, and three blocks of 2 lie below it, so that
lists that fit and lists that wrap around both occur.

In `modes`, three runs are one that is killed, one that resumes it or is of another mode, and
one more; the odd size of the input leaves half a sector at its end, the end of the domain lies
inside a cluster, the domain of command mode begins after the first position and ends beyond the
input, the zero may be the last thing written, and two of the positions are rescued. In `rates`
the limits are 1 to 3 seconds, and the clock has room for one second before its start and for
four after it; `t0` never comes near 1, where the code stops to move it. An int to 5 makes sums
and products overflow in most cases, and every rational number there is takes part; the parser
is asked for decimals, fractions and percentages, of which some do not fit.

`Termination` (in `options`) assumes `WF_vars(Rescuing)`: the program is one thread, and it takes its next step
as long as it has one. Nothing is assumed of the drive, of the saves or of the user. All reads
return: a drive that never answers is outside of the model, as it is outside of the program.
`Exited` lets the state repeat once the process has ended, so that TLC's search for deadlocks
covers every other state.

`RunsEnd` assumes that a run that waits for nothing goes on: `[]<>~Working \/ []<><<Work>>_allvars`,
which is weak fairness of `Work`, since some step of `Work` is possible whenever `Working` holds
(it is written out so that TLC need not work out what is enabled). Nothing is assumed of the
user, who may give no command, nor of reads, writes and saves, which may all fail. `mapfile`,
`log`, `modes` and `rates` bound the number of runs, operations or bytes, and a behaviour stops
when the bound is reached; so they do not look for deadlocks.

## 4. What is proved

Of a rescue, all of it holds for every map, domain, status line, sector, read and skip size, position of EOF,
and every set of options and limits that the assumptions of `Rescue` admit (`SizesAssumption`,
`OptionsAssumption`, `StartsAssumption`: sizes are natural numbers and sector sizes positive;
a run starts from a map whose blocks have one status each and are split by the domain, which is
what the constructor of `Mapbook` leaves).

- `Types`: `TypeOK`. Inductive with `Control`, which says which phase a point belongs to and
  that the chunk to read is not empty.
- `RescuedWasWritten`, `Durable`: `RescuedIsWritten` and `SavedIsSynced`. The inductive
  invariant `Saved` says that finished positions are among those written, those synced (covered by an
  `fsync` call) among those written, and the finished ones of the disc among those synced. A save makes the second
  from the first, which is why neither property is inductive alone.
- `BlocksStaySound`, `ReadsAreOnTarget`, `NeverAborts`: `BlocksSound`, `ReadsItsTarget` and
  `NoInternalError`, for the runs without `--complete-only` (with it the last is false: finding
  2). The inductive invariant `Sound` adds
  what trimming and scraping still have to read of their copy of a block (`Rest`): it lies in
  one block of the status looked for, inside the domain, and beside the chunk that is being
  read, or beyond an EOF found since (`TodoIn`, `Beside`). Without it, nothing would be known
  of the next sector once the read of the one before has split, joined or cut off the block.
  `TodoBesideChange` is the step that matters: changing a chunk keeps a range beside it within
  one block, because `change_chunk` adds and removes borders at the ends of the chunk only.
- `SizesAreExact`, `BadAreasAreExact`: `SizesExact` and `BadAreasExact`, for the same runs. The
  sizes are cardinalities of sets of positions, and the positions that a change moves from one
  set to another are those of its chunk (`MovedCounts`). The bad areas are counted by their
  first positions (`AreasOfStarts`); a change makes or removes such a position at most at the
  begin of the chunk and behind its end, and what it does there is decided by the two
  neighbours, as `area_adjust` has it (`ChangeChunkAreas`).
- `MapMovesOn`: `NeverLessProcessed`, of which one part is that nothing outside the domain changes,
  and `TriedTwice`: `TriedAtMostTwice`, for the same runs. `ReadChanges` says what a read does to the map, and
  `MapKept` what any step does; with `ReadsItsTarget` the new status is compared to the one the
  chunk had.
- `LimitsEnd`: `LimitsEndRun`, for the same runs. Every read first asks for the limits met
  (`Errors`), and so does the end; between, only trimming changes the map (`KeptBySectors`).
- `PassesMoveOn`: `PassMovesOn`, for all runs. The inductive invariant `Behind` says that the
  chunk read last lies behind the position the search goes on from, also after skipping.
- `PhasesLeaveNothing`, `CompleteWhenFinished`: `NothingLeft` and `FinishedIsComplete`, for the
  runs that can be complete (`Completes`, a condition on the options and on the map at the start):
  those with the fifth copying pass, not resumed in it (finding 3), without `--complete-only`,
  and, in reverse, with a map that EOF does not cut off (see below). `FinishedIsComplete` is
  also about trimming and scraping, so the run may not be told to leave them out. What has to
  be carried along is in three parts. `Pending`: a phase that
  is not pending at the start has nothing to do then, nor later, since no step lowers a status
  (`Level`). `Copying`: in pass 5 every non-tried position is ahead of the position the search
  goes on from, or in the chunk being read; that chunk is never skipped, and a pass that finds
  nothing, from its beginning, has nothing before it. `Indexed`: no block still to be trimmed or
  scraped has a lower index than the loop is at. The last is the delicate one, since the loop counts the
  blocks while its reads split, join and cut them off: a change of a chunk cannot lower the number
  of blocks before (or, in reverse, behind) another block of the status looked for below the
  index of the block it works on (`ChangeKeepsBelow`, `ChangeKeepsAbove`). Two facts about the
  operations complete it: a search that finds nothing shows that there is nothing
  (`FindsFirst`, `FindsLast`, `BlocksFound`), and where it finds something it is the nearest.

The limit of the last theorem is one of the code. In reverse, `trim_errors` and `scrape_errors`
count blocks from the end of the vector (`rescuebook.cc:448-450`), and a read that meets EOF
removes blocks there (`rescuebook.cc:239`): each block removed moves the index one block ahead, so that blocks
below EOF are passed over, and a run that began with non-trimmed blocks on both sides of
EOF can end with status 0 and a mapfile marked as finished that still has some. In the
run `rescue` no map with non-trimmed blocks to begin with reaches beyond EOF.

- `KeepsWhatItFsynced`: `PromiseKept`, for rescue mode and any intervals, clock and bounds.
  The inductive invariant `Kept` says where the version fsynced last is at each point: in the
  mapfile as long as it will be renamed, in the backup copy from the rename on. It needs
  `ControlOk` (a synced save is going to be backed up; a rescue has no command to finish) and
  `Ordered` (a mapfile that is whole is not older than its copy).
- `VersionsAreWhole`: the types of `MapSave`. `EndsSaved`: `SavedUnlessGivenUp`, in both modes.
  Whether a failed save is retried, saved elsewhere or given up, each way out of the dialog that
  does not set `given_up` has put the version of the map into a file.
- `SavesAreCheckpoints`: `MapSave` implements `Checkpoint`, by the mapping of the mapfile and
  its copy to the newer one that is whole; `PromiseKept` bounds what an overwrite may lose.

- `TimeoutIsNotEarly`: `TimeoutNotEarly`, the first part of `LimitsExact`, for all options and
  any clock that counts from 0 on (`OptionsAssumption`, `ClockAssumption`; `IntAssumption` for
  the simulated pauses). The inductive invariant `IInv` is `Types` and `NotEarlier`: unless
  doubtful, the time since the last success as the program counts it (`clock - ts`) is no longer
  than the history says, and so is the part of it that lies before the last update
  (`IdleBounds`). The second half is needed because a clock that jumped back makes the program
  begin anew from `t1`. `UpdateStep` takes `update_rates` through its three stages.
- `RationalIsExact`: `RationalExact`, for ints and long longs of any size (`IntAssumption`) and
  every pause that is pending; the texts to be parsed are those that the run looks at. Of the
  specification it needs only the types. `normalize` divides by the gcd, and two things make
  that right. `GcdFinds`: Euclid's algorithm returns the greatest common divisor, which is taken
  as the combination of the two numbers that divides both (`IsGcd`); the function that the
  recursion defines exists (`EuclidExists`), and every one such finds it (`EuclidFinds`), each
  by the smallest number for which it would not. `LowestTerms`: two fractions that are equal and
  have no common divisor are the same, so that one that does not fit into two ints has no
  other form that does. Then a sum, a product and an inverse are exact or end in an error of the
  right sign (`NormalizeExact`, `InverseExact`), and `parse`, which cancels a part of a percentage
  first, does not change the number (`ExactScaled`).

Of the mapfile in memory (`Mapfile`), all that follows holds for every set of mapfiles,
domains and input sizes, every largest position, sector and chunk size, and for the whole
specification: loads, changes, marks, cuts at EOF, saves and loads again, in any order. The
assumptions say what the program can be given. `LimitAssumption`: the largest position is not
0. `InputsAssumption`: the lines of a mapfile are of positive size and end within
`LLONG_MAX`, or are the one line `0 0 ?` that ddrescuelog leaves of a mapfile it cuts off at
0; they may overlap, leave gaps and begin anywhere, which the reader finds out. (The reader also accepts lines of size 0 at 0 with
another status, `mapfile.cc:273-274`. Only ddrescuelog writes such lines, if it shifts blocks
below 0, see `Log`. A rescue from such a file begins with a block of size 0, which is no vector
in the sense of `TypeOK`, and is left out of `Mapfile`, of its runs and of its proofs.) A domain
is what the constructor of `Domain` leaves (`block.cc:96-118`): blocks apart from each other, or
one block that may be empty. An input size is not negative.

- `VectorStaysSound`: `TypeOK`. Every action keeps a vector a vector: blocks of positive size,
  consecutive from 0 on, within `LLONG_MAX`. Between loads the step that matters is
  `change_chunk_status` with its five cases. `ChangeBlockParts` shows that each replaces a range
  of blocks by others that cover the same positions: the chunk, with the neighbours it joins,
  and what is left of its block. What a load does is said below.
- `OperationsSaturate`: `BlocksSaturate`. Shift, enlarge, move, resize and create, applied to any
  block in range with any argument, give a block in range; the blocks of the vector are in range
  by `TypeOK`.
- `CacheIsHarmless`: `IndexFromAnyCache`. `find_index` first brings the
  cached index into the vector, then walks up or down from it; the walk is a recursive function
  in the model, and each of its steps is shown to stay between the first block and the one
  looked for, so that the result does not depend on where it began.
- `DomainSearchIsExact`: the binary search of `Domain::includes` (`block.h:181-192`) is right
  for every domain and every block: it says whether all positions of the block are in the
  domain. It rests on the blocks of a domain not touching, which the constructor of
  `Domain` makes sure of by compacting the mapfile first (`block.cc:111`); were two of them
  adjacent, a block that lies in both would be taken for one outside. The search is a function on
  pairs of indices defined by recursion. That such a function exists at all has to be shown
  first, and is, by a pair of the smallest distance for which it would not.
- `SearchIsFaithful`: `FindsWhatIsThere`. For any block, alignment and cached index,
  `find_chunk` and `rfind_chunk` return what the search by positions
  returns. The blocks considered are those of the abstract map
  (`ConsideredFrom`, `ConsideredUpTo`), the part of the block is the same although the vector moves
  and saturates it (`PartFromIs`, `PartUpToIs`), and so are the ends aligned (`AlignedEndIs`,
  `AlignedPosIs`).
- `CountStaysExact`: `AdjustExact`. The adjustment that `change_chunk_status` returns is the
  difference in the number of bad areas, counted anew before and after. The inductive invariant is
  `TypeOK` with one conjunct more, that the blocks are split by the domain: a load
  makes it so, and no step undoes it. The proof goes through the abstract
  map: `AdjustIsAbstract` finds the two sides the vector looks at, and `ChangeChunkAreas` is the
  lemma that keeps `BadAreasExact` in the rescue.
- `MapIsImplemented`: `AbstractSpec`, that is, `Mapfile` implements `AbstractMap` under the
  mapping `Abs` of `MapfileProps` (borders and the status of each position). A change of
  a chunk keeps the borders but for the ends of the chunk and those between blocks
  that it joins (`ChangeCuts`), and the status but for the positions of the chunk (`ChangeStatus`); so
  `change_block` with its five cases is the one line of `BlockMap` (`ChangeIsAbstract`). The same is
  shown of a mark (`MarkIsAbstract`) and of cutting the map off at EOF (`CutOffIsAbstract`), and
  a load is the step `Load`. With it, what the rescue proofs say of the abstract map is said of
  the vector.

- `SubsectorsJoinToLeast`: `JoinsToLeastProcessed`. What `join_subsectors` gives an unfinished
  position is exactly the least processed status among the positions of its sector that no
  finished one parts from it (`Linked`), for sectors of any size. The code looks at two blocks
  at a time and knows nothing of sectors beyond their boundary: it gives the subsector to
  one of both, or makes them one block, and goes on with the next. What makes this right is that
  each block done so far begins where a sector does or beside a finished position (`Apart`), and
  has the least status of the positions linked to it so far (`LeastOf`); so the last
  block reaches back as far as what is linked to its end, and one comparison with the next block
  is enough (`JoinedParts`, `SectorLinked`). A block that is appended links nothing
  (`NothingLinked`).

A load goes through the vector several times, and each pass of it is a fold or a recursive
function over the blocks. Two relations between sets of blocks, both transitive and both kept
when sets are put together, say what a pass may do: `Same`, every position keeps its status;
and `Gentle`, what is finished stays so, and no position becomes more processed. Reading adds a line
at a time and changes none (`ReadIs`); compacting and the splits are `Same` (`CompactIsSame`,
`SplitByDomain`), extending and joining subsectors are `Gentle` (`ExtendIsGentle`,
`JoinIsGentle`), and the constructor as their composition is so too (`MapbookIsGentle`). Each
is proved for one block more (`JoinSameStep`, `JoinSubsectorStep`): the blocks done so far are a
`Row`, consecutive from the first to the last, and `Same` as or `Gentle` to what they were. That a fold over
a sequence is its steps one after another is `CompactSteps`, `JoinSteps` and `ReadSteps`, by way
of `FoldExists`, as the library states no theorem about folds. The walk of
`split_by_domain_borders` over blocks and domain at once is a function on what is left of both
(`WalkUnfolds`), and the measure `Left`, by which it exists, is also the one its proof goes down by;
`Halved` says that what it gives covers what was left and that no block of it crosses a border not
yet passed.

Of fill, generate and command mode (`Modes`), what follows holds for any series of runs, each of
any mode, that fail, are interrupted and are killed anywhere, and for every input, set
of mapfiles, output files, domains, types, requests and sizes that the assumptions admit.
`InputAssumption` and `FilesAssumption`: a file is what it holds from position 0 on and fits below
`LLONG_MAX`, and mapfiles and domains are those of `Mapfile`. `CommandsAssumption`: a request is
a block within `LLONG_MAX`, as `command_mode.cc` makes them. `SparseAssumption` is the one
named above. What the mapfile calls finished at the beginning is in the output file (`Init`).

- `ModesSafe`: the inductive invariant `ModesInv`, on which the others rest. The
  mapfile in memory is a vector split by its domain (or, cut off at 0, what remains of one), the
  one on disc can be read back, blocks are within `LLONG_MAX`; in a fill, the blocks in
  memory give each position the status that it has on disc (`FillsMap`), and what is to be
  written lies in an area of the types asked for, inside the domain (`FillsArea`). Each
  action is proved to keep it by what it does to the map position by position: `MarksRead`,
  `ChecksRead` and `CopiesRead` say what a read, marked in one or two changes and perhaps cut off
  at EOF, leaves of the map.
- `FillTouchesNothingElse`: `FillTouchesOnlyItsTypes`, from `ModesInv` alone.
- `FillIsComplete`: `FillComplete`. The inductive invariant `FillInv` has three parts, since
  a series of runs goes on through what is on disc: in a run, all that is to be filled
  before the current position, block and area was tried (`FillRun`); with a mapfile on disc
  that says filling, all before the position it gives (`FillSaved`); after the end, all
  (`FillEnded`). The position saved must never be ahead of what was written, also when a save
  comes between a failed write and the next sector, or the position saved lies in
  no area of the next run's domain.
- `GeneratedIsExact`: `GenerateExact`, by `GenerateInv`, which has the same three parts. They
  say that the map has only two statuses, and finished ones only near data (`TwoStatus`); that all
  data before the block to read next is marked or could not be read (`Covered`); and that the map
  and its domain reach all of it (`Reached`), which is a property of the load (`CoversInput`). A
  mapfile on disc with nothing in it begins a new series (`AtFirst`). That nothing is passed over
  rests on `FoundFirst`: `find_chunk` returns no chunk behind a position of the status sought.
- `CopiesAreComplete`: `CopyIsComplete`, by two inductive invariants. `KeptInv`: what is called finished, in
  memory or on disc, is in the output file, through all modes and over loads, which
  take nothing for finished that was not (`Gentle`); zeros may be left out of a sparse file only
  where no data is (`Clean`). `SettledInv`: in a copy command, all of the request before the
  block that remains is finished or bad, and nothing of it lies behind the end of that block.
  A chunk of zero size, which ends the command early, means by `FoundFirst` that nothing more
  is unfinished (`NextUnfinished`).

The lemmas of `BlockMapProofs` say what each operation of the map returns, whatever the map: a
chunk found lies in one block of the status looked for, inside the domain, on the right side
of the position (`FindChunk`, `RfindChunk`); changing a chunk that is `Ready` leaves blocks of
one status that do not cross the domain (`ChangeChunkSound`), by way of `ChangeChunkBlocks`:
two positions in one block afterwards were in one block before and out of the chunk, or both
have the new status inside the domain.

That a set of positions that is not empty has a first and a last one (`FirstExists`,
`LastExists`), on which every statement about blocks found or not found rests, comes from the
well-foundedness of the finite subsets of the natural numbers, since the provers cannot use an
induction rule.

Only model-checked: `Termination` and `RunsEnd`, since liveness is out of reach of the prover;
the properties of `Log`, whose operations also work on mapfiles with blocks of size 0, as a shift
leaves them, to which the lemmas on vectors do not apply, and whose further folds would each need
lemmas like those of `LoadProofs`;
and `TimeoutNotMissed` and `ErrorRateNotEarly`, which do not hold for every
constant, since near time 1 the code stops moving its times (`t0 - 1`, `rescuebook.cc:667-670`).

## 5. Where the code and its documentation disagree

1. `trim_errors` changes a block between two bad sectors to non-scraped with
   `change_sblock_status`, which updates no counter (`rescuebook.cc:461-462`). The sizes of
   non-trimmed and non-scraped blocks shown are wrong from then on, until the map is next cut
   off at EOF or the program restarted; their sum is right (`SizesExact`).
2. With `--complete-only`, EOF inside a chunk crops the domain but splits no block, so that the
   change of status that follows ends the program with an internal error and the mapfile is not
   saved (`rescuebook.cc:238`, `mapfile.cc:502-504`).
3. A run resumed in the middle of pass 5 does not return to the non-tried blocks behind the
   position it resumes at, and goes on to trim (`rescuebook.cc:308-313`, `380-385`). Within one
   domain and direction there is nothing behind; a mapfile written under another domain or
   direction may have some.
4. The first save of a resumed run cuts off the mapfile, which the run before has fsynced,
   without renaming it: `um_prev_mf_sync` starts as false (`mapbook.cc:98`). A crash in that
   write leaves at most a backup copy that is older than the last save of the run before.
   (`PromiseKept` is therefore about one run. It is about rescue mode only, since two `u`
   commands after a save that failed rename a mapfile that is not whole over the copy.)

5. A fill changes more of the mapfile than its status line, of which the manual says that it "is
   the only part of mapfile that is modified" (`ddrescue.texi:1529-1530`): the load compacts
   the blocks and splits them at the borders of the domain (`mapbook.cc:125`, `127`), the end
   compacts them again (`fillbook.cc:204`), and what a save writes are these blocks. No position
   changes its status.

Each of the five is shown by a run that TLC finds violated. One more thing the model shows has no
run, since the language leaves it undefined. `ddrescuelog --list-blocks` computes the end of a
block and the products of its loop without the saturation of `Block`
(`ddrescuelog.cc:445-446`). A block that ends at or near `LLONG_MAX`, as the last block of a
mapfile of an input of unknown size does, is missed if an offset between the files makes its end
wrap around; without one, no multiple of the block size reaches its end, and the loop does not
stop. `ToldExactly` leaves these lists out (`ListFits`).

## 6. What is not modelled

- The composition of two rescues in a row: `Rescue` starts from any mapfile, so that what a
  second one finds is covered, but not what `--retrim` and `--try-again`
  change between them, nor a rescue after a fill.
- In a rescue the sparse output file (`extend_outfile_size`); direct disc access, test mode,
  `--reopen-on-error`, `--verify-on-error` beyond its being a limit, preallocation.
- The skip sizes computed from slow reads, `Sliding_average`, and what is only shown.
- Text: the parsing of options (of numbers, only what `Rational::parse` makes of them), the text
  of mapfiles with comments and status line (of lines, only what the reader accepts), the screen
  and the loggers, the names of devices, the build files and scripts. They are text in and text
  out, or system calls without a state of their own.
- A loss of power, after which files may lack what was written to them.

What could be added next, in this order: theorems about ddrescuelog, from lemmas on lists of
blocks that are no vectors; the sparse output file of a rescue and a crash before its extension;
`--retrim` and `--try-again` in `Session`, with an abstract rescue that a series of runs
implements.
