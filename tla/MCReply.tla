------------------------------- MODULE MCReply -------------------------------
(* A small instance of Reply for TLC. *)
EXTENDS Reply

TwoCalls == {0, 1}
=============================================================================
