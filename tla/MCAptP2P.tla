------------------------------ MODULE MCAptP2P ------------------------------
(* An instance of AptP2P for TLC: requests for a package at one of two mirrors
   and for an index file that changes. *)
EXTENDS AptP2P
=============================================================================
