---------------------------- MODULE MCContainers ----------------------------
(* Instances for TLC of what runs in one thread: the memory pool, the       *)
(* red-black tree, the binary search tree and the coroutine scheduler.  They *)
(* share nothing here, so one behaviour works on one of them while the       *)
(* others are in an initial state.                                           *)
EXTENDS MemPool, RbTree, Bst, CoSched

CONSTANTS k1, k2, k3, k4, c1
Stocks == {k1, k2, k3, k4}
Addresses == Permutations(Stocks)

\* Ten keys, and an eleventh node whose key, 4, is taken.
KeysOf(n) == IF n = 11 THEN 4 ELSE n

\* One initial state stands for those a behaviour on the others leaves alone.
PoolAtRest == cache /\ Cardinality(heap) = 1 /\ ~destroyed /\ \A k \in Stock : index[k] = 0
RbAtRest == members = {}
BstAtRest == present = {} /\ iter = bst_iterator_init
CoAtRest == cpc = "top" /\ readyq = <<c1>> /\ sleepers = <<>> /\ waitsq = <<>>

MCInit == Init /\ RbInit /\ BstInit /\ CoInit

MCNext ==
  \/ RbAtRest /\ BstAtRest /\ CoAtRest /\ Next /\ UNCHANGED <<rbVars, bstVars, coVars>>
  \/ PoolAtRest /\ BstAtRest /\ CoAtRest /\ RbNext /\ UNCHANGED <<vars, bstVars, coVars>>
  \/ PoolAtRest /\ RbAtRest /\ CoAtRest /\ BstNext /\ UNCHANGED <<vars, rbVars, coVars>>
  \/ PoolAtRest /\ RbAtRest /\ BstAtRest /\ CoNext /\ UNCHANGED <<vars, rbVars, bstVars>>

MCSpec == MCInit /\ [][MCNext]_<<vars, rbVars, bstVars, coVars>>
=============================================================================
