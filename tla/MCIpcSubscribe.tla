--------------------------- MODULE MCIpcSubscribe ---------------------------
(* IpcSubscribe on small instances. *)
EXTENDS IpcSubscribe

CONSTANTS a, b, x

TwoClients == {a, b}
OneTopic == {x}
maskTwo == [i \in {a, b} |-> {x}]
=============================================================================
