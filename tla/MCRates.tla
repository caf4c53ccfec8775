------------------------------ MODULE MCRates -------------------------------
(***************************************************************************)
(* The limits of a rescue over a few seconds, for TLC.                     *)
(***************************************************************************)
EXTENDS RatesProps

None ==
  [max_error_rate |-> -1, timeout |-> -1, min_read_rate |-> -1, delay_slow |-> 1,
   max_slow_reads |-> 1, reset_slow |-> FALSE, max_read_rate |-> 0,
   pause_on_pass |-> 0, pause_on_error |-> Rat(0, 1), simulated_poe |-> FALSE]

\* A timeout with pauses, an error rate with simulated half seconds, slow reads.
MCOptions ==
  { [None EXCEPT !.timeout = 2, !.pause_on_pass = 2, !.max_read_rate = 1],
    [None EXCEPT !.timeout = 3, !.max_error_rate = 1, !.simulated_poe = TRUE,
                 !.pause_on_error = Rat(3, 2)],
    [None EXCEPT !.min_read_rate = 1, !.reset_slow = TRUE, !.max_error_rate = 0],
    [None EXCEPT !.min_read_rate = 0, !.timeout = 1] }
=============================================================================
