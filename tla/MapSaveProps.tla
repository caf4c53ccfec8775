---------------------------- MODULE MapSaveProps ----------------------------
(***************************************************************************)
(* What the saves of the mapfile promise.                                  *)
(***************************************************************************)
EXTENDS MapSave

Files == {Absent, Part} \cup Nat

\* The variables hold values of their types; a version is loaded from a whole file.
TypeOK ==
  /\ mode \in Modes /\ quiet \in BOOLEAN /\ runs \in Nat
  /\ version \in Nat /\ now \in Nat
  /\ main \in Files /\ bak \in Files /\ emergency \in Files
  /\ um_t1 \in Nat /\ um_t1s \in Nat
  /\ um_prev_mf_sync \in BOOLEAN /\ mf_sync \in BOOLEAN
  /\ caller \in {"none", "periodic", "final", "update", "finish"}
  /\ pc \in {"idle", "remove", "rename", "open", "write", "ask", "finish", "exited"}
  /\ fsynced \in BOOLEAN /\ promised \in Nat \cup {Nothing} /\ given_up \in BOOLEAN

\* The newest of the mapfile and its backup copy that is whole.
Newest == IF main >= bak THEN (IF Whole(main) THEN main ELSE Nothing)
          ELSE IF Whole(bak) THEN bak ELSE Nothing

\* What a run promises; the command mode, which goes on after a failed save,
\* promises nothing.
Promise == IF mode = "rescue" THEN promised ELSE Nothing

\* "A backup copy of the mapfile [...] is also periodically created [...].  So in
\* case of a crash you can resume the rescue with little recopying": killed at any
\* point, or given up after a failed write, the run leaves a mapfile that is not
\* older than the one it fsynced last.
PromiseKept == Promise <= Newest

\* A run that was not killed or given up ends only with its map saved, in the
\* mapfile or by an emergency save.
SavedUnlessGivenUp == pc = "exited" /\ ~given_up => version \in {main, emergency}

\* The saves implement the checkpoints.
C == INSTANCE Checkpoint WITH current <- version, kept <- Newest, promised <- Promise
Checkpoints == C!Spec

\* "Ddrescue tries to create a backup copy of the mapfile, with the name mapfile.bak,
\* every time it is going to overwrite a fsynced mapfile": it is never cut off while
\* it has its name.
Overwrites == Whole(main) /\ fsynced /\ main' = Part
FsyncedIsBackedUp == [][~Overwrites]_vars
=============================================================================
