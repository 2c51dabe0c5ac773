------------------------------ MODULE MCOutput ------------------------------
(* Small instances of the output path for TLC. *)
EXTENDS Output
=============================================================================
