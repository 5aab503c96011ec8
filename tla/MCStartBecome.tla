--------------------------- MODULE MCStartBecome ---------------------------
(***************************************************************************)
(* Both methods, every kind of password, every way to split the stream.    *)
(***************************************************************************)
EXTENDS StartBecome
=============================================================================
