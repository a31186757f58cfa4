----------------------------- MODULE MCSharing -----------------------------
(* An instance of Sharing for TLC: a cache file and a file of another directory. *)
EXTENDS Sharing
=============================================================================
