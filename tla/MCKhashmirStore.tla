--------------------------- MODULE MCKhashmirStore ---------------------------
(* KhashmirStore for TLC: values of lengths 3, 4 and 5, of which one, two or     *)
(* none fill a packet exactly, and a clock of a few intervals.                   *)
EXTENDS KhashmirStore, TLC

CONSTANTS v1, v2, v3
MCSize == (v1 :> 3) @@ (v2 :> 4) @@ (v3 :> 5)
=============================================================================
