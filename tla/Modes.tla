------------------------------- MODULE Modes --------------------------------
(***************************************************************************)
(* Runs of fill, generate and command mode, one after another on the same  *)
(* mapfile and output file, any of them killed at any time.                *)
(***************************************************************************)
EXTENDS Fill, Generate, Commands

allvars == <<vars, area>>

ModesInit == Init /\ area = 0

FillStarts == StartFill
OtherStarts == (StartGenerate \/ StartCommands) /\ UNCHANGED area

\* The steps of a run that wait for nothing.
Work ==
  \/ FillStep
  \/ (GenerateStep \/ CopyStep \/ End) /\ UNCHANGED area

ModesNext ==
  \/ FillStarts \/ OtherStarts
  \/ Work
  \/ Command /\ UNCHANGED area
  \/ Kill /\ UNCHANGED area

\* A run goes on as long as it may, since the system calls it makes return.  This is
\* weak fairness of Work, with what enables Work written out.
Working == pc \notin {"none", "commands"}
Fairness == []<>~Working \/ []<><<Work>>_allvars

ModesSpec == ModesInit /\ [][ModesNext]_allvars /\ Fairness
=============================================================================
