---------------------------- MODULE MCRemoteCall ----------------------------
(* Instances of RemoteCall for TLC. *)
EXTENDS RemoteCall
=============================================================================
