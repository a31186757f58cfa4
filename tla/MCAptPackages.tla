---------------------------- MODULE MCAptPackages ----------------------------
(* AptPackages for TLC: lookups before, during and after a load that has to be
   repeated. *)
EXTENDS AptPackages
=============================================================================
