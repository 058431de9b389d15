--------------------------- MODULE MCBatchDeadline --------------------------
(* A small instance of BatchDeadline for TLC; the .cfg gives the constants. *)
EXTENDS BatchDeadline
=============================================================================
