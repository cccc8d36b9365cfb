---------------------------- MODULE StateStream -----------------------------
(***************************************************************************)
(* What the whole chain bridge.py - serial line - firmware - USB promises  *)
(* to the console: the controller state it sees is one that was written,   *)
(* and it only moves forward through the states written.  States may be    *)
(* skipped.  States are numbered in the order they are written, 0 being    *)
(* the state of a firmware that has heard nothing yet.                     *)
(***************************************************************************)
EXTENDS Naturals

VARIABLES written,   \* how many states were written
          shown      \* the state the console saw last

streamVars == <<written, shown>>

StreamInit == written = 0 /\ shown = 0

Write ==
    /\ written' = written + 1
    /\ UNCHANGED shown

Show ==
    /\ shown' \in shown .. written
    /\ UNCHANGED written

StreamNext == Write \/ Show

StreamSpec == StreamInit /\ [][StreamNext]_streamVars

=============================================================================
