--------------------------- MODULE MCCommandLine ---------------------------
(* CommandLine for model checking. *)
EXTENDS CommandLine
=============================================================================
