------------------------------- MODULE MCKRPC -------------------------------
(* KRPC for TLC: timers scaled down (a timeout of 3 and a first delay of 1, for 9 s and 2 s). *)
EXTENDS KRPC
=============================================================================
