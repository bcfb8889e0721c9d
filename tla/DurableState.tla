---------------------------- MODULE DurableState ----------------------------
(***************************************************************************)
(* What persistence promises (README.md:160): what was learned is saved in *)
(* one piece, a save saves what is known at that moment, and a program     *)
(* that starts again knows what was saved last, or nothing if it cannot    *)
(* read it.                                                                *)
(***************************************************************************)
CONSTANTS
  State,   \* what can be known
  Empty    \* what is known when nothing has been learned or saved

VARIABLES
  known,   \* what the program knows
  saved,   \* what is saved
  up       \* whether the program runs

DurableInit ==
  /\ known = Empty
  /\ saved = Empty
  /\ up = FALSE

Learn ==
  /\ up
  /\ known' \in State
  /\ UNCHANGED <<saved, up>>

Save ==
  /\ up
  /\ saved' = known
  /\ UNCHANGED <<known, up>>

Crash ==
  /\ up
  /\ up' = FALSE
  /\ known' = Empty
  /\ UNCHANGED saved

Restart ==
  /\ ~up
  /\ up' = TRUE
  /\ known' \in {saved, Empty}
  /\ UNCHANGED saved

DurableNext == Learn \/ Save \/ Crash \/ Restart

DurableSpec == DurableInit /\ [][DurableNext]_<<known, saved, up>>
=============================================================================
