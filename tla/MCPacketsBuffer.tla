--------------------------- MODULE MCPacketsBuffer ---------------------------
(* PacketsBuffer for TLC: the constants are given by the .cfg files. *)
EXTENDS PacketsBuffer

=============================================================================
