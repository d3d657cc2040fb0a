-------------------------------- MODULE MCToolRun --------------------------------
(* A small instance of ToolRun for TLC. *)
EXTENDS ToolRun

CONSTANTS p1, p2

TwoProcs == {p1, p2}
=============================================================================
