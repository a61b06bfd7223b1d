----------------------------- MODULE MCMcSystem -----------------------------
(* Instances of McSystem for TLC. *)
EXTENDS McSystem, TLC

CONSTANTS t1, t2, s1, s2
Symmetry == Permutations({s1, s2})
\* Both tasks serve requests to sleep: one may join the wait of the other.
Requests(t) == IF t = t1 THEN {"sleep"} ELSE {"sleep", "resume"}
\* Answers to an earlier request to sleep or vote may come late.
Owed(e) == IF e \in {"sleep", "vote_reboot"} THEN 2 ELSE 1
=============================================================================
