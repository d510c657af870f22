---------------------------- MODULE MCConnection ----------------------------
(* A small instance of Connection for TLC: one command next to the two pollers,
   so that three tasks can wait for the client. *)
EXTENDS Connection

CONSTANT save

OneCommand == {save}
=============================================================================
