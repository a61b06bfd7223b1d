----------------------------- MODULE MCCoSched ------------------------------
(* The coroutine scheduler by itself, for TLC. *)
EXTENDS CoSched
=============================================================================
