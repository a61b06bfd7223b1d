------------------------------ MODULE MCTimer ------------------------------
(* Instances of Timer for TLC. *)
EXTENDS Timer, TLC

CONSTANTS x1, x2, e1

Timers == {x1, x2}
Threaded == {{"THREAD"}, {"CYCLE", "THREAD"}}
Plain == {{}, {"CYCLE"}}
Mixed == {{}, {"CYCLE", "THREAD"}}

OneExecutor == [linger |-> 0, thread_min |-> 1, thread_max |-> 1]
OneLingers  == [linger |-> 1, thread_min |-> 0, thread_max |-> 1]

Symmetric == Permutations(Timers)
=============================================================================
