------------------------------ MODULE MCAppLoop ------------------------------
(***************************************************************************)
(* AppLoop with short schedules.                                           *)
(***************************************************************************)
EXTENDS AppLoop

E(id, action) == [id |-> id, action |-> action]

\* Sleep, and try to wake and quit by schedule.
SleepAndWake == <<E(1, "Sleep"), E(2, "KeyDown"), E(3, "KeyUp")>>
QuitLater == <<E(4, "Sleep"), E(5, "Quit")>>

None == <<>>

=============================================================================
