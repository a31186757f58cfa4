------------------------------ MODULE MCAction ------------------------------
(* Action for TLC: five nodes, the fourth of which is this one. *)
EXTENDS Action

\* RETRIEVE_VALUES negative as by default: from the closest nodes only.
AllFromClosest == -2
=============================================================================
