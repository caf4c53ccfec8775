------------------------------ MODULE MapSave -------------------------------
(***************************************************************************)
(* The saving of the mapfile: update_mapfile, called after each read       *)
(* (rescue, fill and generate modes) or on command (command mode), with    *)
(* the backup copy, writes that fail, the dialog that follows, and a       *)
(* process that may be killed between any two calls of the system.         *)
(*                                                                         *)
(* Of the map only its version counts: how much of the rescue it knows.    *)
(* A file is absent, partly written (nobody can tell how much of it        *)
(* reached the file) or holds a version.                                   *)
(***************************************************************************)
EXTENDS Integers

CONSTANTS
  SaveIntervals,  \* the seconds between saves: -1 lets them grow with the map
  SyncInterval,   \* mapfile_sync_interval
  Modes,        \* the modes a run may be in, of "rescue" and "commands"
  Quiet,        \* whether verbosity < 0: the set of possible values
  MaxVersion, MaxTime, MaxRuns  \* bounds of the model

ASSUME IntervalsAssumption ==
  SaveIntervals \subseteq Nat /\ SyncInterval \in Nat
ASSUME ModesAssumption ==
  Modes \subseteq {"rescue", "commands"} /\ Quiet \subseteq BOOLEAN
ASSUME BoundsAssumption == MaxVersion \in Nat /\ MaxTime \in Nat /\ MaxRuns \in Nat

Absent == -2
Part   == -1
Whole(f) == f >= 0
Nothing  == -1

VARIABLES
  mode, quiet,
  version,      \* the version of the map in memory
  now,          \* the clock
  main, bak,    \* the mapfile, and its backup copy
  emergency,    \* ddrescue.map, here or in $HOME
  um_t1, um_t1s, um_prev_mf_sync, mf_sync,   \* as in update_mapfile
  caller, pc,   \* who called update_mapfile, and the point in it
  fsynced,      \* the mapfile was fsynced when it was written last
  promised,     \* the version last fsynced in this run
  given_up,     \* the user, the quiet mode or a crash gave up the version in memory
  runs

files   == <<main, bak, emergency, fsynced, promised>>
timers  == <<um_t1, um_t1s, um_prev_mf_sync, mf_sync>>
process == <<mode, quiet, runs>>
vars    == <<process, version, now, files, timers, caller, pc, given_up>>

Init == /\ mode \in Modes /\ quiet \in Quiet /\ runs = 1
        /\ version = 0 /\ now = 1
        /\ main = Absent /\ bak = Absent /\ emergency = Absent /\ fsynced = FALSE
        /\ um_t1 = 0 /\ um_t1s = 0 /\ um_prev_mf_sync = FALSE /\ mf_sync = FALSE
        /\ promised = Nothing /\ given_up = FALSE /\ caller = "none" /\ pc = "idle"

-----------------------------------------------------------------------------
(***************************************************************************)
(* What goes on beside the saves.                                          *)
(***************************************************************************)
Progress ==
  /\ pc = "idle" /\ version < MaxVersion
  /\ version' = version + 1
  /\ UNCHANGED <<process, now, files, timers, caller, pc, given_up>>

\* The clock goes on, or is set.
Clock ==
  /\ pc # "exited" /\ now' \in 1 .. MaxTime
  /\ UNCHANGED <<process, version, files, timers, caller, pc, given_up>>

Exit == pc' = "exited" /\ UNCHANGED <<mode, quiet, runs, version, now>>

\* The process is killed.
Kill ==
  /\ pc # "exited" /\ Exit /\ given_up' = TRUE
  /\ UNCHANGED <<files, timers, caller>>

\* The quit command "does not update the mapfile".
QuitCommand ==
  /\ pc = "idle" /\ mode = "commands" /\ Exit /\ given_up' = TRUE
  /\ UNCHANGED <<files, timers, caller>>

\* The next run, for which the user restores a mapfile that is not whole from its
\* backup copy, or removes it.
Loaded_Unchecked(f) == f                                                    \* mutant
Loaded(f) == IF Whole(f) THEN f ELSE 0
Restart ==
  /\ pc = "exited" /\ runs < MaxRuns /\ runs' = runs + 1
  /\ main' = IF Whole(main) THEN main ELSE IF Whole(bak) THEN bak ELSE Absent
  /\ version' = Loaded(main')
  /\ fsynced' = (fsynced /\ Whole(main)) /\ emergency' = Absent
  /\ mode' \in Modes /\ quiet' \in Quiet /\ caller' = "none" /\ pc' = "idle"
  /\ um_t1' = 0 /\ um_t1s' = 0 /\ um_prev_mf_sync' = FALSE /\ mf_sync' = FALSE
  /\ promised' = Nothing /\ given_up' = FALSE
  /\ UNCHANGED <<now, bak>>

-----------------------------------------------------------------------------
(***************************************************************************)
(* update_mapfile.                                                         *)
(***************************************************************************)
Callers == IF mode = "rescue" THEN {"periodic", "final"} ELSE {"update", "finish"}

\* A failed save ends a run, but not the command mode, which only for the finish
\* command tries an emergency save of its own.
Return(ok) ==
  pc' = CASE caller = "periodic" -> IF ok THEN "idle" ELSE "exited"
          [] caller = "final"    -> "exited"
          [] caller = "update"   -> "idle"
          [] caller = "finish"   -> IF ok THEN "exited" ELSE "finish"

\* The intervals start with the first call, and anew when the clock was set back.
SinceSave == IF um_t1 = 0 \/ um_t1 > now THEN now ELSE um_t1
SinceSync == IF um_t1 = 0 \/ um_t1 > now THEN now ELSE um_t1s

\* The mapfile about to be overwritten is renamed if it was fsynced.
BackupDue_Never == FALSE                                                    \* mutant
BackupDue == um_prev_mf_sync

update_mapfile ==
  /\ pc = "idle" /\ caller' \in Callers
  /\ um_t1' = SinceSave /\ um_t1s' = SinceSync
  /\ \/ /\ caller' = "periodic" /\ \E interval \in SaveIntervals : now - um_t1' < interval
        /\ UNCHANGED <<mf_sync, um_prev_mf_sync, pc>>
     \/ /\ caller' = "periodic" => \E interval \in SaveIntervals : now - um_t1' >= interval
        /\ mf_sync' = (caller' # "periodic" \/ now - um_t1s' >= SyncInterval)
        /\ um_prev_mf_sync' = mf_sync'
        /\ pc' = IF BackupDue THEN "remove" ELSE "open"
  /\ UNCHANGED <<process, version, now, files, given_up>>

RemoveBackup ==
  /\ pc = "remove"
  /\ bak' = Absent /\ pc' = "rename"
  /\ UNCHANGED <<process, version, now, main, emergency, fsynced, promised, timers,
                 caller, given_up>>

RenameToBackup ==
  /\ pc = "rename"
  /\ bak' = main /\ main' = Absent /\ pc' = "open"
  /\ UNCHANGED <<process, version, now, emergency, fsynced, promised, timers, caller,
                 given_up>>

\* write_mapfile: the file is opened and cut off, ...
OpenMapfile ==
  /\ pc = "open"
  /\ \/ main' = Part /\ pc' = "write"
     \/ UNCHANGED main /\ pc' = "ask"
  /\ UNCHANGED <<process, version, now, bak, emergency, fsynced, promised, timers,
                 caller, given_up>>

\* ... and written: the times are taken after it.
WriteMapfile ==
  /\ pc = "write"
  /\ main' = version /\ fsynced' = mf_sync
  /\ um_t1' = now /\ um_t1s' = IF mf_sync THEN now ELSE um_t1s
  /\ promised' = IF mf_sync THEN version ELSE promised
  /\ given_up' = FALSE /\ Return(TRUE)
  /\ UNCHANGED <<process, version, now, bak, emergency, um_prev_mf_sync, mf_sync,
                 caller>>

WriteFails ==
  /\ pc = "write" /\ pc' = "ask"
  /\ UNCHANGED <<process, version, now, files, timers, caller, given_up>>

\* The dialog.  A quiet run gives up without asking.
Retry ==
  /\ pc = "ask" /\ ~quiet /\ pc' = "open"
  /\ UNCHANGED <<process, version, now, files, timers, caller, given_up>>

GiveUp ==
  /\ pc = "ask" /\ given_up' = TRUE /\ Return(FALSE)
  /\ UNCHANGED <<process, version, now, files, timers, caller>>

\* emergency_save: a file of that name is removed first.
emergency_save(saved) ==
  emergency' \in IF saved THEN {version} ELSE {Absent, Part}

\* After an emergency save that fails the mapfile is tried again.
Leaves_Anyway(saved) == TRUE                                                \* mutant
Leaves(saved) == saved
EmergencyExit ==
  /\ pc = "ask" /\ ~quiet
  /\ \E saved \in BOOLEAN :
       /\ emergency_save(saved)
       /\ IF Leaves(saved) THEN Return(FALSE) ELSE pc' = "open"
  /\ given_up' = FALSE
  /\ UNCHANGED <<process, version, now, main, bak, fsynced, promised, timers, caller>>

FinishCommand ==
  /\ pc = "finish" /\ Exit
  /\ \E saved \in BOOLEAN : emergency_save(saved) /\ given_up' = ~saved
  /\ UNCHANGED <<main, bak, fsynced, promised, timers, caller>>

Exited == pc = "exited" /\ UNCHANGED vars

-----------------------------------------------------------------------------
Next == \/ Progress \/ Clock \/ Kill \/ QuitCommand \/ Restart
        \/ update_mapfile \/ RemoveBackup \/ RenameToBackup \/ OpenMapfile
        \/ WriteMapfile \/ WriteFails \/ Retry \/ GiveUp \/ EmergencyExit
        \/ FinishCommand \/ Exited

Spec == Init /\ [][Next]_vars
=============================================================================
