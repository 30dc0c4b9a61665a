---------------------------- MODULE MCElfLoader ----------------------------
(* Instances of ElfLoader for TLC. *)
EXTENDS ElfLoader
=============================================================================
