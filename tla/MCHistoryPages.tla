---------------------------- MODULE MCHistoryPages ----------------------------
(* A small instance of HistoryPages for TLC. *)
EXTENDS HistoryPages

CONSTANTS a1, a2

TwoAgents == {a1, a2}
AskedLimits == {0, 1}
=============================================================================
