---------------------------- MODULE MCThreadPool ----------------------------
(* ThreadPool on a small instance. *)
EXTENDS ThreadPool

CONSTANTS t1, t2, t3, j1, j2, j3, w1, w2

MCThread == {t1, t2, t3}
MCJob == {j1, j2, j3}
MCWaiter == {w1, w2}
=============================================================================
