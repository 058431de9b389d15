------------------------------ MODULE MCWriter ------------------------------
(* A small instance of Writer for TLC; the .cfg gives the constants.       *)
EXTENDS Writer
=============================================================================
