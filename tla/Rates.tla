------------------------------- MODULE Rates --------------------------------
(***************************************************************************)
(* The clock of a rescue (Rescuebook::update_rates): when an error rate,   *)
(* a time without success or a number of slow reads exceeds its limit.     *)
(*                                                                         *)
(* The program knows the time from std::time only, which counts whole      *)
(* seconds and which somebody may set back or ahead.  Simulated pauses     *)
(* (--pause-on-error=...s) are time that passes for the program alone.     *)
(* The real time is a history variable.                                    *)
(***************************************************************************)
EXTENDS Rational

CONSTANTS
  RbOptions,    \* options a run may be given; -1 is "no limit"
  Times,        \* what std::time may return
  Start,        \* its value when the program begins
  MaxSets,      \* bound on how often the clock is set
  Reads,        \* how many bytes a read may get, or fail to get
  MaxSize,      \* bound on the bytes read
  MaxErrors     \* bound on the bytes that could not be read

\* The options as the program takes them; the clock begins after time 0.
RbOption ==
  [max_error_rate : Int, timeout : Int, min_read_rate : Int, delay_slow : Int,
   max_slow_reads : Int, reset_slow : BOOLEAN, max_read_rate : Int,
   pause_on_pass : Nat, pause_on_error : [num : Int, den : Int],
   simulated_poe : BOOLEAN]

ASSUME OptionsAssumption == RbOptions \subseteq RbOption
ASSUME ClockAssumption ==
  Times \subseteq Nat /\ Start \in Nat \ {0} /\ Reads \subseteq Nat

VARIABLES
  clock,   \* std::time
  opts,    \* options
  r,       \* the variables of update_rates, tp among them
  pc,      \* "copy" (a read is next), "paused" (a read is next, after a pause),
           \* "rates" (update_rates is next), "end" or "done"
  bad,     \* the last read had errors
  sets, errors,  \* how often the clock was set, how many bytes failed
  g        \* history: the real seconds, and whether the clock was set

vars == <<clock, opts, r, pc, bad, sets, errors, g>>

min(x, y) == IF x < y THEN x ELSE y
max(x, y) == IF x > y THEN x ELSE y

-----------------------------------------------------------------------------
(***************************************************************************)
(* update_rates.                                                           *)
(***************************************************************************)

\* clock jumped back
jumped_back(q, t2) ==
  LET delta == min(q.t0 - 1, q.t1 - t2)
  IN  IF t2 < q.t1
      THEN [q EXCEPT !.t0 = @ - delta, !.ts = @ - delta, !.t1 = t2] ELSE q

\* The simulated pauses since the last time become time that has passed.
Pending(q) == ~error(q.tp) /\ q.tp.num > 0
simulated(q) ==
  LET delta == min(q.t0 - 1, round(q.tp))
  IN  IF Pending(q)
      THEN [q EXCEPT !.t0 = @ - delta, !.t1 = @ - delta, !.ts = @ - delta,
                     !.tp = Rat(0, 1)]
      ELSE q

\* The time since the last success, and the bytes that failed since the last time in
\* each second: each is looked at until its limit is exceeded.
check_timeout(q, t2, forced) ==
  LET read == q.finished_size # q.last_size
      late == /\ ~read /\ ~forced /\ opts.timeout >= 0
              /\ t2 - q.ts > opts.timeout /\ q.t1 > q.t0
  IN  IF "timeout" \in q.e_code THEN q
      ELSE [q EXCEPT !.last_size = q.finished_size,
                     !.ts = IF read THEN t2 ELSE @,
                     !.e_code = IF late THEN @ \cup {"timeout"} ELSE @]

check_errors(q, t2) ==
  LET error_rate == Quotient(q.error_sum, t2 - q.t1)
      failing    == opts.max_error_rate >= 0 /\ error_rate > opts.max_error_rate
  IN  IF "error_rate" \in q.e_code THEN q
      ELSE [q EXCEPT !.e_code = IF failing THEN @ \cup {"error_rate"} ELSE @,
                     !.error_sum = 0]

current_slow(q, t2) ==
  LET a_rate == Quotient(q.finished_size, t2 - q.t0)
      c_rate == Quotient(q.finished_size - q.last_size, t2 - q.t1)
  IN  /\ t2 - q.t0 > opts.delay_slow
      /\ \/ opts.min_read_rate > 0 /\ c_rate < opts.min_read_rate
         \/ opts.min_read_rate = 0 /\ c_rate < Quotient(a_rate, 10)

\* update_rates( force ) at time now, after the possible sleep: the variables, and
\* whether the last reads were slow.
Computed(q, t2, forced, slow) ==
  [check_errors(check_timeout(q, t2, forced), t2) EXCEPT
     !.rates_updated = TRUE,
     !.t1 = IF forced THEN @ ELSE t2,
     !.slow_reads = IF ~forced /\ ~slow /\ opts.reset_slow THEN 0 ELSE @]

update_rates(q0, now, force) ==
  LET q1     == jumped_back(q0, now)
      forced == force /\ now <= q1.t1
      t2     == IF forced THEN q1.t1 + 1 ELSE now
      q      == simulated(q1)
      slow   == t2 > q1.t1 /\ ~forced /\ current_slow(q, t2)
  IN  [q |-> IF t2 > q1.t1 THEN Computed(q, t2, forced, slow) ELSE q1, slow |-> slow]

\* A read faster than --max-read-rate waits for the next second.
Throttled ==
  /\ opts.max_read_rate > 0 /\ r.finished_size - r.last_size > opts.max_read_rate
  /\ clock = r.t1
Now == IF Throttled THEN clock + 1 ELSE clock

\* Whether the rates are computed, and the seconds that pass meanwhile.
Computes(force) == force \/ Now > jumped_back(r, Now).t1
Seconds(force) ==
  (IF Throttled THEN 1 ELSE 0)
    + IF Computes(force) /\ Pending(r) THEN round(r.tp) ELSE 0

\* The history of an update: the times since the last success seen, and since the
\* rates were last computed, go on or begin anew.
Noted(force) ==
  LET seen == Computes(force) /\ r.finished_size # r.last_size
  IN  [idle   |-> IF seen THEN 0 ELSE g.idle + Seconds(force),
       doubt  |-> g.doubt /\ ~seen,
       since  |-> IF Computes(force) THEN 0 ELSE g.since + Seconds(force),
       spoilt |-> g.spoilt /\ ~Computes(force)]

-----------------------------------------------------------------------------
(***************************************************************************)
(* The run.                                                                *)
(***************************************************************************)

\* do_rescue: t0 is set at the first call of update_rates, to initial_time(), which is
\* when the time was first asked for.
Init ==
  /\ opts \in RbOptions /\ clock = Start
  /\ r = [t0 |-> Start, t1 |-> Start, ts |-> Start, tp |-> Rat(0, 1),
          finished_size |-> 0, last_size |-> 0, error_sum |-> 0, e_code |-> {},
          rates_updated |-> TRUE, slow_reads |-> 0]
  /\ pc = "rates" /\ bad = FALSE /\ sets = 0 /\ errors = 0
  /\ g = [idle |-> 0, since |-> 0, doubt |-> FALSE, spoilt |-> FALSE]

\* Time passes: in a read, in the sleep after an error, or before the first call.
Tick ==
  /\ pc # "done" /\ clock + 1 \in Times /\ clock' = clock + 1
  /\ g' = [g EXCEPT !.idle = @ + 1, !.since = @ + 1]
  /\ UNCHANGED <<opts, r, pc, bad, sets, errors>>

SetClock ==
  /\ pc # "done" /\ sets < MaxSets /\ sets' = sets + 1
  /\ clock' \in Times \ {clock}
  /\ g' = [g EXCEPT !.doubt = @ \/ clock' > clock, !.spoilt = TRUE]
  /\ UNCHANGED <<opts, r, pc, bad, errors>>

\* copy_and_update begins a pass, but the first: a pause in which nothing is expected
\* to be read.
Paused_TsKept(t2) == [r EXCEPT !.t1 = max(@, t2)]                           \* mutant
Paused(t2) ==
  [r EXCEPT !.t1 = max(@, t2), !.ts = min(@ + opts.pause_on_pass, t2)]

NextPass ==
  LET t2 == clock + opts.pause_on_pass
  IN  /\ pc = "copy" /\ pc' = "paused" /\ opts.pause_on_pass > 0
      /\ r.finished_size > 0 \/ errors > 0
      /\ t2 \in Times /\ clock' = t2
      /\ r' = [Paused(t2) EXCEPT !.rates_updated = FALSE]
      /\ g' = [g EXCEPT !.doubt = @ \/ t2 < r.t1, !.spoilt = TRUE]
      /\ UNCHANGED <<opts, bad, sets, errors>>

\* A read of copy_and_update gets bytes, errors or both, unless a limit was exceeded.
Read ==
  /\ pc \in {"copy", "paused"} /\ r.e_code = {} /\ pc' = "rates"
  /\ \E n \in Reads, m \in Reads :
       /\ n + m > 0 /\ r.finished_size + n <= MaxSize /\ errors + m <= MaxErrors
       /\ r' = [r EXCEPT !.finished_size = @ + n, !.error_sum = @ + m,
                         !.rates_updated = FALSE]
       /\ bad' = (m > 0) /\ errors' = errors + m
  /\ UNCHANGED <<clock, opts, sets, g>>

LimitFound ==
  /\ pc \in {"copy", "paused"} /\ r.e_code # {} /\ pc' = "end"
  /\ r' = [r EXCEPT !.rates_updated = FALSE]
  /\ UNCHANGED <<clock, opts, bad, sets, errors, g>>

\* There is nothing more to read, or the user interrupts.
NoMoreReads ==
  /\ pc \in {"copy", "paused"} /\ pc' = "end"
  /\ UNCHANGED <<clock, opts, r, bad, sets, errors, g>>

\* do_pause_on_error, if simulated.
do_pause_on_error(q) ==
  IF opts.simulated_poe THEN [q EXCEPT !.tp = plus(@, opts.pause_on_error)] ELSE q

\* What follows a read: update_rates, and in the copying phase the slow reads are
\* counted and treated as errors.
RatesUpdated ==
  /\ pc = "rates"
  /\ Now \in Times /\ clock' = Now /\ g' = Noted(FALSE)
  /\ \E copying \in BOOLEAN, u \in {update_rates(r, Now, FALSE)} :
       LET slow == u.slow /\ copying
           q    == [u.q EXCEPT !.slow_reads = IF slow THEN @ + 1 ELSE @]
       IN  IF slow /\ q.slow_reads > opts.max_slow_reads
           THEN /\ r' = [q EXCEPT !.e_code = @ \cup {"slow_reads"}]
                /\ pc' = "end"
           ELSE /\ r' = IF bad \/ slow THEN do_pause_on_error(q) ELSE q
                /\ pc' = "copy"
  /\ bad' = FALSE
  /\ UNCHANGED <<opts, sets, errors>>

\* The end of do_rescue: the limits are looked at once more.
End ==
  /\ pc = "end" /\ pc' = "done"
  /\ IF r.rates_updated THEN UNCHANGED <<clock, r, g>>
     ELSE /\ Now \in Times /\ clock' = Now /\ g' = Noted(TRUE)
          /\ r' = update_rates(r, Now, TRUE).q
  /\ UNCHANGED <<opts, bad, sets, errors>>

Next ==
  \/ Tick \/ SetClock
  \/ NextPass \/ Read \/ LimitFound \/ NoMoreReads \/ RatesUpdated \/ End

Spec == Init /\ [][Next]_vars
=============================================================================
