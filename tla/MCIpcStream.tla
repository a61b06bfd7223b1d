---------------------------- MODULE MCIpcStream ----------------------------
(* Instances of IpcStream for TLC. *)
EXTENDS IpcStream
=============================================================================
