---------------------------- MODULE MCElfMemory ----------------------------
(* Instances of ElfMemory for TLC. *)
EXTENDS ElfMemory
=============================================================================
