----------------------------- MODULE Checkpoint -----------------------------
(***************************************************************************)
(* What saving the mapfile promises: a rescue makes progress from version  *)
(* to version of its map, and a crash at any moment leaves a mapfile to    *)
(* resume from that is not older than the last one that was fsynced.       *)
(***************************************************************************)
EXTENDS Integers

Nothing == -1

VARIABLES
  current,   \* the version of the map in memory
  kept,      \* the version that a crash would leave, or Nothing
  promised   \* the version that was last fsynced, or Nothing

vars == <<current, kept, promised>>

Init == current = 0 /\ kept = Nothing /\ promised = Nothing

Progress == current' = current + 1 /\ UNCHANGED <<kept, promised>>

Save == kept' = current /\ promised' \in {promised, current} /\ UNCHANGED current

\* A mapfile that is being overwritten is lost, but not what was promised.
Lose == kept' \in promised .. kept /\ UNCHANGED <<current, promised>>

\* The next run resumes from what is left.
Resume == /\ current' = IF kept = Nothing THEN 0 ELSE kept
          /\ promised' = Nothing /\ UNCHANGED kept

Next == Progress \/ Save \/ Lose \/ Resume

Spec == Init /\ [][Next]_vars
=============================================================================
