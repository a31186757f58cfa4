--------------------------- MODULE MCFileDownload ---------------------------
(* FileDownload for TLC: two pieces, to be had from two peers and the mirror. *)
EXTENDS FileDownload
=============================================================================
