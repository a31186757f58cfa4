----------------------------- MODULE MCKhashmir -----------------------------
(* Khashmir for TLC: more nodes than the bucket has room for. *)
EXTENDS Khashmir
=============================================================================
