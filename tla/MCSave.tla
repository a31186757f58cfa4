------------------------------- MODULE MCSave -------------------------------
(* An instance of Save for TLC: two downloads of a file of two units. *)
EXTENDS Save
=============================================================================
