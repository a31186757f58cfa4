------------------------------- MODULE MCDHT -------------------------------
(* An instance of DHT for TLC: two bootstrap nodes. *)
EXTENDS DHT
=============================================================================
