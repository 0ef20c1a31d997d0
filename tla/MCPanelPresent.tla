--------------------------- MODULE MCPanelPresent ---------------------------
(***************************************************************************)
(* PanelPresent with one render task beside the main thread.               *)
(***************************************************************************)
EXTENDS PanelPresent

CONSTANTS task

OneTask == {task}

=============================================================================
