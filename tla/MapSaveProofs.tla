--------------------------- MODULE MapSaveProofs ----------------------------
(***************************************************************************)
(* The saves of the mapfile are checkpoints, for every choice of the       *)
(* intervals and bounds.                                                   *)
(***************************************************************************)
EXTENDS MapSaveProps, TLAPS

\* Who called update_mapfile, where it is, and that a save that is fsynced is going to
\* be backed up.
Working == {"remove", "rename", "open", "write", "ask", "finish"}
ControlOk ==
  /\ pc \in Working => caller # "none"
  /\ mode = "rescue" => caller \in {"none", "periodic", "final"} /\ pc # "finish"
  /\ mf_sync => um_prev_mf_sync

\* The versions on disc are not newer than the map, nor the backup copy than a
\* mapfile that is whole.
Ordered == main <= version /\ bak <= version /\ (Whole(main) => bak <= main)

\* In a rescue the version that was fsynced last is in the mapfile while the mapfile
\* is going to be renamed, and in the backup copy while it is not.
On(f) == promised # Nothing => promised <= f
Kept ==
  mode = "rescue" =>
    /\ pc = "idle" => IF um_prev_mf_sync THEN On(main) ELSE On(bak)
    /\ pc \in {"remove", "rename"} => On(main)
    /\ pc \in {"open", "write", "ask"} => On(bak)
    /\ pc = "exited" => On(main) \/ On(bak)

IInv == TypeOK /\ ControlOk /\ Ordered /\ Kept

-----------------------------------------------------------------------------
USE DEF Absent, Part, Nothing, Whole

\* The first run begins in the invariant.
LEMMA InvInit == Init => IInv
<1> SUFFICES ASSUME Init PROVE IInv
    OBVIOUS
<1> USE ModesAssumption DEF Init
<1>1. TypeOK
    BY DEF TypeOK, Files
<1>2. ControlOk
    BY DEF ControlOk, Working
<1>3. Ordered /\ Kept
    BY DEF Ordered, Kept, On
<1>. QED  BY <1>1, <1>2, <1>3 DEF IInv

\* Every step keeps the variables in their types.
LEMMA TypeStep == TypeOK /\ ControlOk /\ [Next]_vars => TypeOK'
<1> SUFFICES ASSUME TypeOK, ControlOk, [Next]_vars PROVE TypeOK'
    OBVIOUS
<1> USE ModesAssumption, BoundsAssumption, IntervalsAssumption
    DEF TypeOK, Files, process, files, timers
<1>1. CASE Progress
    BY <1>1 DEF Progress
<1>2. CASE Clock
    BY <1>2 DEF Clock
<1>3. CASE Kill
    BY <1>3 DEF Kill, Exit
<1>4. CASE QuitCommand
    BY <1>4 DEF QuitCommand, Exit
<1>5. CASE Restart
  <2>1. fsynced' \in BOOLEAN
      BY <1>5, Zenon DEF Restart
  <2>2. main' \in Files /\ version' \in Nat
      BY <1>5 DEF Restart, Loaded
  <2>3. mode' \in Modes /\ quiet' \in BOOLEAN /\ runs' \in Nat
      BY <1>5 DEF Restart
  <2>4. /\ emergency' = Absent /\ um_t1' = 0 /\ um_t1s' = 0 /\ promised' = Nothing
        /\ um_prev_mf_sync' \in BOOLEAN /\ mf_sync' \in BOOLEAN /\ given_up' \in BOOLEAN
        /\ caller' = "none" /\ pc' = "idle" /\ now' = now /\ bak' = bak
      BY <1>5, Zenon DEF Restart
  <2>. QED  BY <2>1, <2>2, <2>3, <2>4
<1>6. CASE update_mapfile
    BY <1>6 DEF update_mapfile, Callers, SinceSave, SinceSync, BackupDue
<1>7. CASE RemoveBackup
    BY <1>7 DEF RemoveBackup
<1>8. CASE RenameToBackup
    BY <1>8 DEF RenameToBackup
<1>9. CASE OpenMapfile
    BY <1>9 DEF OpenMapfile
<1>10. CASE WriteMapfile
    BY <1>10 DEF WriteMapfile, Return, ControlOk, Working
<1>11. CASE WriteFails
    BY <1>11 DEF WriteFails
<1>12. CASE Retry
    BY <1>12 DEF Retry
<1>13. CASE GiveUp
    BY <1>13 DEF GiveUp, Return, ControlOk, Working
<1>14. CASE EmergencyExit
    BY <1>14 DEF EmergencyExit, Return, emergency_save, Leaves, ControlOk, Working
<1>15. CASE FinishCommand
    BY <1>15 DEF FinishCommand, Exit, emergency_save
<1>16. CASE Exited \/ UNCHANGED vars
    BY <1>16 DEF Exited, vars
<1>. QED
    BY <1>1, <1>2, <1>3, <1>4, <1>5, <1>6, <1>7, <1>8, <1>9, <1>10, <1>11, <1>12,
       <1>13, <1>14, <1>15, <1>16 DEF Next

\* Every step leaves update_mapfile with a caller that the mode has.
LEMMA ControlStep == TypeOK /\ ControlOk /\ [Next]_vars => ControlOk'
<1> SUFFICES ASSUME TypeOK, ControlOk, [Next]_vars PROVE ControlOk'
    OBVIOUS
<1> USE DEF ControlOk, Working, process, timers
<1>1. CASE Progress \/ Clock \/ Kill \/ QuitCommand
    BY <1>1 DEF Progress, Clock, Kill, QuitCommand, Exit
<1>2. CASE Restart
    BY <1>2 DEF Restart
<1>3. CASE update_mapfile
    BY <1>3 DEF update_mapfile, Callers, BackupDue, TypeOK
<1>4. CASE RemoveBackup \/ RenameToBackup \/ OpenMapfile
    BY <1>4 DEF RemoveBackup, RenameToBackup, OpenMapfile
<1>5. CASE WriteMapfile \/ WriteFails \/ Retry
    BY <1>5 DEF WriteMapfile, WriteFails, Retry, Return
<1>6. CASE GiveUp
    BY <1>6 DEF GiveUp, Return
<1>7. CASE EmergencyExit
    BY <1>7 DEF EmergencyExit, Return, emergency_save, Leaves
<1>8. CASE FinishCommand
    BY <1>8 DEF FinishCommand, Exit
<1>9. CASE Exited \/ UNCHANGED vars
    BY <1>9 DEF Exited, vars
<1>. QED
    BY <1>1, <1>2, <1>3, <1>4, <1>5, <1>6, <1>7, <1>8, <1>9 DEF Next

\* Every step keeps the versions on disc in order.
LEMMA OrderStep == TypeOK /\ Ordered /\ [Next]_vars => Ordered'
<1> SUFFICES ASSUME TypeOK, Ordered, [Next]_vars PROVE Ordered'
    OBVIOUS
<1>0. main \in Files /\ bak \in Files /\ version \in Nat
    BY DEF TypeOK
<1> USE DEF Ordered, Files, process, files
<1>1. CASE Progress \/ Clock \/ Kill \/ QuitCommand
    BY <1>0, <1>1 DEF Progress, Clock, Kill, QuitCommand, Exit
<1>2. CASE Restart
    BY <1>0, <1>2 DEF Restart, Loaded
<1>3. CASE update_mapfile
    BY <1>3 DEF update_mapfile
<1>4. CASE RemoveBackup \/ RenameToBackup \/ OpenMapfile
    BY <1>0, <1>4 DEF RemoveBackup, RenameToBackup, OpenMapfile
<1>5. CASE WriteMapfile
    BY <1>0, <1>5 DEF WriteMapfile
<1>6. CASE WriteFails \/ Retry \/ GiveUp
    BY <1>6 DEF WriteFails, Retry, GiveUp
<1>7. CASE EmergencyExit \/ FinishCommand
    BY <1>7 DEF EmergencyExit, FinishCommand, Exit
<1>8. CASE Exited \/ UNCHANGED vars
    BY <1>8 DEF Exited, vars
<1>. QED
    BY <1>1, <1>2, <1>3, <1>4, <1>5, <1>6, <1>7, <1>8 DEF Next

\* Every step keeps the version that a rescue has fsynced in one of the two files.
LEMMA KeptStep == IInv /\ [Next]_vars => Kept'
<1> SUFFICES ASSUME IInv, [Next]_vars, mode' = "rescue" PROVE Kept'
    BY DEF Kept
<1>0. /\ TypeOK /\ ControlOk /\ Ordered /\ Kept
      /\ main \in Files /\ bak \in Files /\ version \in Nat
      /\ promised \in Nat \cup {Nothing} /\ um_prev_mf_sync \in BOOLEAN
    BY DEF IInv, TypeOK
<1> USE DEF Kept, On, Files, process, files, timers
<1>1. CASE Progress \/ Clock
    BY <1>0, <1>1 DEF Progress, Clock
<1>2. CASE Kill
    BY <1>0, <1>2 DEF Kill, Exit, TypeOK, ControlOk
<1>3. CASE Restart
    BY <1>3 DEF Restart
<1>4. CASE update_mapfile
    BY <1>0, <1>4 DEF update_mapfile, BackupDue
<1>5. CASE RemoveBackup
    BY <1>0, <1>5 DEF RemoveBackup
<1>6. CASE RenameToBackup
    BY <1>0, <1>6 DEF RenameToBackup
<1>7. CASE OpenMapfile
    BY <1>0, <1>7 DEF OpenMapfile
<1>8. CASE WriteMapfile
  <2>1. /\ main' = version /\ bak' = bak /\ um_prev_mf_sync' = um_prev_mf_sync
        /\ mode = "rescue" /\ pc' \in {"idle", "exited"}
      BY <1>0, <1>8 DEF WriteMapfile, Return, ControlOk, Working
  <2>2. On(bak) /\ (mf_sync => um_prev_mf_sync)
      BY <1>0, <1>8, <2>1, Zenon DEF WriteMapfile, ControlOk
  <2>3. CASE mf_sync
    <3>1. promised' = version /\ um_prev_mf_sync
        BY <1>8, <2>2, <2>3, Zenon DEF WriteMapfile
    <3>. QED  BY <1>0, <2>1, <3>1
  <2>4. CASE ~mf_sync
    <3>1. promised' = promised
        BY <1>8, <2>4, Zenon DEF WriteMapfile
    <3>. QED  BY <1>0, <2>1, <2>2, <3>1 DEF Ordered
  <2>. QED  BY <2>3, <2>4
<1>9. CASE WriteFails \/ Retry
    BY <1>0, <1>9 DEF WriteFails, Retry
<1>10. CASE GiveUp
    BY <1>0, <1>10 DEF GiveUp, Return, ControlOk, Working
<1>11. CASE EmergencyExit
    BY <1>0, <1>11 DEF EmergencyExit, Return, Leaves, ControlOk, Working
<1>12. CASE QuitCommand \/ FinishCommand
    BY <1>0, <1>12 DEF QuitCommand, FinishCommand, Exit, ControlOk
<1>13. CASE Exited \/ UNCHANGED vars
    BY <1>0, <1>13 DEF Exited, vars
<1>. QED
    BY <1>1, <1>2, <1>3, <1>4, <1>5, <1>6, <1>7, <1>8, <1>9, <1>10, <1>11, <1>12,
       <1>13 DEF Next

\* The invariant holds in every state of every run.
LEMMA Inductive == Spec => []IInv
<1>1. IInv /\ [Next]_vars => IInv'
    BY TypeStep, ControlStep, OrderStep, KeptStep DEF IInv
<1>. QED  BY InvInit, <1>1, PTL DEF Spec

-----------------------------------------------------------------------------
\* The state that the invariant describes keeps the promise.
LEMMA KeepsPromise == IInv => PromiseKept
<1> SUFFICES ASSUME IInv PROVE PromiseKept
    OBVIOUS
<1>1. /\ main \in Files /\ bak \in Files /\ promised \in Nat \cup {Nothing}
      /\ um_prev_mf_sync \in BOOLEAN
      /\ pc \in {"idle", "remove", "rename", "open", "write", "ask", "finish", "exited"}
    BY DEF IInv, TypeOK
<1>2. mode = "rescue" => On(main) \/ On(bak)
    BY <1>1 DEF IInv, Kept, ControlOk
<1>. QED  BY <1>1, <1>2 DEF PromiseKept, Promise, Newest, On, Files

\* "A backup copy of the mapfile [...] is also periodically created [...].  So in
\* case of a crash you can resume the rescue with little recopying": killed at any
\* point of update_mapfile, or given up after a failed write, a rescue leaves the
\* version it fsynced last, or a later one, in the mapfile or in its backup copy.
THEOREM KeepsWhatItFsynced == Spec => []PromiseKept
    BY Inductive, KeepsPromise, PTL

-----------------------------------------------------------------------------
\* The variables hold values of their types, and what a run has loaded is a version.
THEOREM VersionsAreWhole == Spec => []TypeOK
<1>1. IInv => TypeOK
    BY DEF IInv
<1>. QED  BY Inductive, <1>1, PTL

\* A step that ends a run has saved the map, or it gives the map up.
LEMMA SavedStep == TypeOK /\ SavedUnlessGivenUp /\ [Next]_vars => SavedUnlessGivenUp'
<1> SUFFICES ASSUME TypeOK, SavedUnlessGivenUp, [Next]_vars, pc' = "exited", ~given_up'
             PROVE  version' \in {main', emergency'}
    BY DEF SavedUnlessGivenUp
<1> USE DEF SavedUnlessGivenUp, process, files, timers
<1>1. CASE Progress \/ Clock
    BY <1>1 DEF Progress, Clock
<1>2. CASE Kill \/ QuitCommand \/ GiveUp
    BY <1>2, Zenon DEF Kill, QuitCommand, GiveUp
<1>3. CASE Restart \/ RemoveBackup \/ RenameToBackup
    BY <1>3 DEF Restart, RemoveBackup, RenameToBackup
<1>4. CASE update_mapfile
    BY <1>4 DEF update_mapfile
<1>5. CASE OpenMapfile \/ WriteFails \/ Retry
    BY <1>5 DEF OpenMapfile, WriteFails, Retry
<1>6. CASE WriteMapfile
    BY <1>6 DEF WriteMapfile
<1>7. CASE EmergencyExit
  <2>1. PICK saved \in BOOLEAN :
          /\ emergency_save(saved)
          /\ IF Leaves(saved) THEN Return(FALSE) ELSE pc' = "open"
      BY <1>7 DEF EmergencyExit
  <2>2. saved /\ version' = version
      BY <1>7, <2>1 DEF EmergencyExit, Leaves
  <2>. QED  BY <2>1, <2>2 DEF emergency_save
<1>8. CASE FinishCommand
  <2>1. PICK saved \in BOOLEAN : emergency_save(saved) /\ given_up' = ~saved
      BY <1>8 DEF FinishCommand
  <2>2. saved /\ version' = version
      BY <1>8, <2>1, Zenon DEF FinishCommand, Exit
  <2>. QED  BY <2>1, <2>2 DEF emergency_save
<1>9. CASE Exited \/ UNCHANGED vars
    BY <1>9 DEF Exited, vars
<1>. QED
    BY <1>1, <1>2, <1>3, <1>4, <1>5, <1>6, <1>7, <1>8, <1>9 DEF Next

\* A run that was not killed or given up ends only with its map saved, in the mapfile
\* or by an emergency save: the retries of the dialog, the failures of the emergency
\* save and the modes, which differ in what a failed save ends, leave no other way out.
THEOREM EndsSaved == Spec => []SavedUnlessGivenUp
<1>1. Init => SavedUnlessGivenUp
    BY DEF Init, SavedUnlessGivenUp
<1>. QED  BY Inductive, SavedStep, VersionsAreWhole, <1>1, PTL DEF Spec

-----------------------------------------------------------------------------
\* Whatever is lost from the files is not what was promised.
LEMMA LosesLittle ==
  ASSUME IInv, IInv', version' = version, Promise' = Promise, Newest' <= Newest
  PROVE  C!Lose
<1>1. PromiseKept' /\ Promise \in Int /\ Newest \in Int /\ Newest' \in Int
  <2>1. PromiseKept'
      BY KeepsPromise, PTL
  <2>2. Newest' \in Nat \cup {Nothing} /\ Newest \in Nat \cup {Nothing}
      BY DEF IInv, TypeOK, Files, Newest
  <2>. QED  BY <2>1, <2>2 DEF Promise, IInv, TypeOK
<1>. QED  BY <1>1 DEF C!Lose, PromiseKept

\* Every step is one of the abstract specification or changes nothing of it.
LEMMA StepMaps == IInv /\ IInv' /\ [Next]_vars => [C!Next]_C!vars
<1> SUFFICES ASSUME IInv, IInv', [Next]_vars PROVE C!Next \/ UNCHANGED C!vars
    OBVIOUS
<1>0. /\ main \in Files /\ bak \in Files /\ version \in Nat
      /\ promised \in Nat \cup {Nothing} /\ Ordered /\ Ordered'
    BY DEF IInv, TypeOK
<1> USE DEF process, files, timers
<1>1. CASE Progress
    BY <1>1 DEF Progress, C!Next, C!Progress, Newest, Promise
<1>2. CASE Clock
    BY <1>2 DEF Clock, C!vars, Newest, Promise
<1>3. CASE Kill \/ QuitCommand \/ FinishCommand
    BY <1>3 DEF Kill, QuitCommand, FinishCommand, Exit, C!vars, Newest, Promise
<1>4. CASE Restart
  <2>1. promised' = Nothing /\ bak' = bak
        /\ version' = Loaded(main')
        /\ main' = IF Whole(main) THEN main ELSE IF Whole(bak) THEN bak ELSE Absent
      BY <1>4 DEF Restart
  <2>2. Newest' = Newest /\ Promise' = Nothing
      BY <1>0, <2>1 DEF Newest, Promise, Ordered, Files
  <2>3. version' = IF Newest = Nothing THEN 0 ELSE Newest
      BY <1>0, <2>1 DEF Newest, Loaded, Ordered, Files
  <2>. QED  BY <2>2, <2>3 DEF C!Next, C!Resume, C!Nothing
<1>5. CASE update_mapfile
    BY <1>5 DEF update_mapfile, C!vars, Newest, Promise
<1>6. CASE RemoveBackup \/ RenameToBackup \/ OpenMapfile
  <2>1. version' = version /\ Promise' = Promise
      BY <1>6 DEF RemoveBackup, RenameToBackup, OpenMapfile, Promise
  <2>2. Newest' <= Newest
    <3>1. CASE RemoveBackup
        BY <1>0, <3>1 DEF RemoveBackup, Newest, Ordered, Files
    <3>2. CASE RenameToBackup
        BY <1>0, <3>2 DEF RenameToBackup, Newest, Ordered, Files
    <3>3. CASE OpenMapfile
        BY <1>0, <3>3 DEF OpenMapfile, Newest, Ordered, Files
    <3>. QED  BY <1>6, <3>1, <3>2, <3>3
  <2>. QED  BY <2>1, <2>2, LosesLittle DEF C!Next
<1>7. CASE WriteMapfile
  <2>1. /\ main' = version /\ bak' = bak /\ version' = version /\ mode' = mode
        /\ promised' = promised \/ promised' = version
      BY <1>7 DEF WriteMapfile
  <2>2. Newest' = version
      BY <1>0, <2>1 DEF Newest, Ordered, Files
  <2>3. Promise' = Promise \/ Promise' = version
      BY <2>1 DEF Promise
  <2>. QED  BY <2>1, <2>2, <2>3 DEF C!Next, C!Save
<1>8. CASE WriteFails \/ Retry \/ GiveUp \/ EmergencyExit
    BY <1>8 DEF WriteFails, Retry, GiveUp, EmergencyExit, C!vars, Newest, Promise
<1>9. CASE Exited \/ UNCHANGED vars
    BY <1>9 DEF Exited, vars, C!vars, Newest, Promise
<1>. QED
    BY <1>1, <1>2, <1>3, <1>4, <1>5, <1>6, <1>7, <1>8, <1>9 DEF Next

\* The saves implement the checkpoints: a rescue loses nothing but versions newer than
\* the last one that was fsynced, and the next run resumes from what is left.
THEOREM SavesAreCheckpoints == Spec => Checkpoints
<1>1. Init => C!Init
    BY DEF Init, C!Init, C!Nothing, Newest, Promise
<1>. QED  BY <1>1, Inductive, StepMaps, PTL DEF Spec, Checkpoints, C!Spec
=============================================================================
