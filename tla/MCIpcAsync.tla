----------------------------- MODULE MCIpcAsync -----------------------------
(* IpcAsync on a small instance. *)
EXTENDS IpcAsync

CONSTANTS t1, t2, h1, h2, k1, k2

MCTask == {t1, t2}
MCSlot == {h1, h2}
MCCookie == {k1, k2}
Requesters == {"REQUESTER"}
=============================================================================
