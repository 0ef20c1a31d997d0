--------------------------- MODULE MCFreeRtosSync ---------------------------
(***************************************************************************)
(* FreeRtosSync with three tasks: two wait while a third gives.            *)
(***************************************************************************)
EXTENDS FreeRtosSync

CONSTANTS t1, t2, t3

ThreeTasks == {t1, t2, t3}

=============================================================================
