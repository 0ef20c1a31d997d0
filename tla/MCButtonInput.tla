---------------------------- MODULE MCButtonInput ----------------------------
(***************************************************************************)
(* ButtonInput on small instances.                                         *)
(***************************************************************************)
EXTENDS ButtonInput

CONSTANTS up, power

Two == {up, power}
OnlyPower == {power}

=============================================================================
