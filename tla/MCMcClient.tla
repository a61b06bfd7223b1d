----------------------------- MODULE MCMcClient -----------------------------
(* Instances of McClient for TLC. *)
EXTENDS McClient

\* A process beats every second.
EverySecond(n) == 1
=============================================================================
