---------------------------- MODULE MCTouchInput ----------------------------
(***************************************************************************)
(* TouchInput on small instances: panel positions of the 800 pixel side,   *)
(* with the source's slops, and times in ticks of 250 ms.                  *)
(***************************************************************************)
EXTENDS TouchInput

CONSTANTS f1, f2, none

Two == {f1, f2}

\* Positions on each side of the slops, seen from 0.
Drift == {0, 29, 100}

Each == {{"finger"}, {"mouse"}, {"finger", "script", "windowless"}}

\* Fingers alone get ahead of the frames that apply their events: whole contacts
\* of either finger wait, moves in a row among them, wherever they are.  The other
\* sessions turn on time and on distance.
Session ==
  [s \in Each |->
     CASE s = {"finger"} -> [until |-> 0, queue |-> 5, reach |-> {100}]
       [] s = {"mouse"}  -> [until |-> 2, queue |-> 1, reach |-> Drift]
       [] OTHER          -> [until |-> 2, queue |-> 1, reach |-> {0, 100}]]

=============================================================================
