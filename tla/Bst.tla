-------------------------------- MODULE Bst --------------------------------
(* The binary search tree of src/common/bst.c with one iterator: a tree      *)
(* that is never rebalanced by insertion, an iterator that keeps the nodes   *)
(* above its own on a stack of bst_max_height places, and generations by     *)
(* which it notices that the tree was changed under it.                      *)
EXTENDS Integers, FiniteSets, SequencesExt

CONSTANTS BstNode,          \* the nodes; a node is its own key
          NIL,
          bst_max_height    \* height given to bst_create

ASSUME BstAssumption == /\ BstNode \subseteq Nat \ {NIL}
                        /\ bst_max_height \in Nat \ {0}
                        /\ Cardinality(BstNode) < 2^bst_max_height

VARIABLES bst,      \* root and link[n] = <<left, right>>
          iter,     \* node, stack, and whether the generations agree
          present   \* the nodes that, by the return values, are in the table

bstVars == <<bst, iter, present>>

bst_create == [root |-> NIL, link |-> [n \in BstNode |-> <<NIL, NIL>>]]
bst_iterator_init == [node |-> NIL, stack |-> <<>>, fresh |-> TRUE]

LEFT == 1
RIGHT == 2
Opposite(d) == 3 - d
Dir(k, n) == IF k > n THEN RIGHT ELSE LEFT

LastOf(s) == IF s = <<>> THEN NIL ELSE Last(s)

\* The nodes from the root to k or, if k is absent, to where it would hang.
Path(t, k) ==
  LET Down[n \in BstNode \cup {NIL}] ==
        IF n = NIL THEN <<>> ELSE IF n = k THEN <<n>> ELSE <<n>> \o Down[t.link[n][Dir(k, n)]]
  IN Down[t.root]

\* n and the nodes below it on one side.
Spine(t, n, d) ==
  LET Down[m \in BstNode \cup {NIL}] == IF m = NIL THEN <<>> ELSE <<m>> \o Down[t.link[m][d]]
  IN Down[n]

bst_search(t, k) == IF LastOf(Path(t, k)) = k THEN k ELSE NIL

\* What hangs below p on the way to k (the root when p is NIL) becomes m.
Hang(t, p, k, m) == IF p = NIL THEN [t EXCEPT !.root = m]
                               ELSE [t EXCEPT !.link[p][Dir(k, p)] = m]

bst_insert(t, n) ==
  IF bst_search(t, n) = n THEN t
  ELSE Hang([t EXCEPT !.link[n] = <<NIL, NIL>>], LastOf(Path(t, n)), n, n)

\* A bug the last case of bst_remove invites: the right subtree of the
\* replacing node is forgotten.
Orphaned(t, s) == NIL

\* r->bst_link[0] = s->bst_link[1]
Adopted(t, s) == t.link[s][RIGHT]

\* bst_remove and bst_delete of a node that is there: without a right child
\* the left one takes its place, else the least node of the right subtree.
bst_remove(t, d) ==
  LET p == LastOf(Front(Path(t, d)))
      lefts == Spine(t, t.link[d][RIGHT], LEFT)
      s == LastOf(lefts)
      r == LastOf(Front(lefts))
  IN IF s = NIL THEN Hang(t, p, d, t.link[d][LEFT])
     ELSE IF r = NIL THEN Hang([t EXCEPT !.link[s][LEFT] = t.link[d][LEFT]], p, d, s)
     ELSE LET t1 == [t EXCEPT !.link[r][LEFT] = Adopted(t, s)]
          IN Hang([t1 EXCEPT !.link[s] = t1.link[d]], p, d, s)

\* q's left link, or the root, leads to m: the casts of &tree->bst_root.
LinkLeft(t, q, m) == IF q = NIL THEN [t EXCEPT !.root = m] ELSE [t EXCEPT !.link[q][LEFT] = m]
GetLeft(t, q) == IF q = NIL THEN t.root ELSE t.link[q][LEFT]

RECURSIVE slant_left(_, _, _)
slant_left(t, q, p) ==
  IF p = NIL THEN t
  ELSE LET r == t.link[p][RIGHT]
       IN IF r = NIL THEN slant_left(t, p, t.link[p][LEFT])
          ELSE slant_left(LinkLeft([t EXCEPT !.link[p][RIGHT] = t.link[r][LEFT],
                                            !.link[r][LEFT] = p], q, r), q, r)

RECURSIVE slant_left_back(_, _, _)
slant_left_back(t, root, count) ==
  IF count = 0 THEN t
  ELSE LET red == GetLeft(t, root)
           black == t.link[red][LEFT]
       IN slant_left_back(LinkLeft([t EXCEPT !.link[red][LEFT] = t.link[black][RIGHT],
                                            !.link[black][RIGHT] = red], root, black),
                          black, count - 1)

\* The loop over the vine of slant_back.
RECURSIVE Halve(_, _)
Halve(t, vine) ==
  IF vine <= 1 THEN t ELSE Halve(slant_left_back(t, NIL, vine \div 2), vine \div 2)

\* The greatest power of two that is at most n: leaves & (leaves - 1), repeated.
Pow2(n) == CHOOSE p \in {2^i : i \in 0..bst_max_height} : p <= n /\ n < 2 * p

slant_back(t, count) ==
  LET leaves == count + 1 - Pow2(count + 1)
  IN Halve(slant_left_back(t, NIL, leaves), count - leaves)

bst_balance(t, count) == slant_back(slant_left(t, NIL, t.root), count)

\* The nodes in the order bst_destroy hands them to the destroyer.
RECURSIVE bst_destroy(_, _)
bst_destroy(t, p) ==
  IF p = NIL THEN <<>>
  ELSE LET q == t.link[p][LEFT]
       IN IF q = NIL THEN <<p>> \o bst_destroy(t, t.link[p][RIGHT])
          ELSE bst_destroy([t EXCEPT !.link[p][LEFT] = t.link[q][RIGHT],
                                     !.link[q][RIGHT] = p], q)

-----------------------------------------------------------------------------
\* The iterator.  Every traversal pushes the nodes it passes; one that finds
\* the stack full balances the tree and starts again.

\* A bug bst_iterator_refresh guards against: the generation is taken over and
\* the stack is kept.
Kept(t, it) == it.stack

\* The ancestors of the current node, from the root.
Ancestors(t, it) == Front(Path(t, it.node))

bst_iterator_refresh(t, it) ==
  [it EXCEPT !.fresh = TRUE, !.stack = IF it.node = NIL THEN @ ELSE Ancestors(t, it)]

Refreshed(t, it) == IF it.fresh THEN it ELSE bst_iterator_refresh(t, it)

Fits(s) == Len(s) <= bst_max_height

\* A plausible slip: height > max_height where the code tests >=.
MadeLate(t, s) ==
  IF Len(s) <= bst_max_height + 1 THEN t ELSE bst_balance(t, Cardinality(present))

\* The tree the traversal ends up with when it has to push the stack s.
Made(t, s) == IF Fits(s) THEN t ELSE bst_balance(t, Cardinality(present))

At(n, s) == [node |-> n, stack |-> s, fresh |-> TRUE]

\* bst_iterator_first (d = LEFT) and bst_iterator_last (d = RIGHT).
SeekEnd(t, d) == IF t.root = NIL THEN At(NIL, <<>>)
                 ELSE At(LastOf(Spine(t, t.root, d)), Front(Spine(t, t.root, d)))

\* bst_iterator_find.  What it pushes for an absent key it forgets at the end.
Passed(t, k) == IF bst_search(t, k) = k THEN Front(Path(t, k)) ELSE Path(t, k)
SeekKey(t, k) == IF bst_search(t, k) = k THEN At(k, Passed(t, k)) ELSE At(NIL, <<>>)

\* One step towards d: down the subtree on that side, or up to the first
\* ancestor that is left from the other side.
Below(t, n, d) == Spine(t, t.link[n][d], Opposite(d))

ClimbFrom(t, it, d) ==
  LET Up[h \in 0..Len(it.stack)] ==
        LET y == IF h = Len(it.stack) THEN it.node ELSE it.stack[h + 1]
        IN IF h = 0 THEN 0 ELSE IF t.link[it.stack[h]][d] = y THEN Up[h - 1] ELSE h
      top == Up[Len(it.stack)]
  IN IF top = 0 THEN At(NIL, <<>>) ELSE At(it.stack[top], SubSeq(it.stack, 1, top - 1))

Move(t, it, d) ==
  LET below == Below(t, it.node, d)
  IN IF it.node = NIL THEN SeekEnd(t, Opposite(d))
     ELSE IF below # <<>> THEN At(LastOf(below), it.stack \o <<it.node>> \o Front(below))
     ELSE ClimbFrom(t, it, d)
-----------------------------------------------------------------------------
BstInit == bst = bst_create /\ iter = bst_iterator_init /\ present = {}

TableInsert(n) ==
  /\ n \notin present
  /\ bst' = bst_insert(bst, n)
  /\ present' = present \cup {n}
  /\ UNCHANGED iter

\* The caller does not take away the node its iterator stands on.  The links of
\* a node outside the table are never read.
TableRemove(n) ==
  /\ n \in present /\ n # iter.node
  /\ bst' = [bst_remove(bst, n) EXCEPT !.link[n] = <<NIL, NIL>>]
  /\ present' = present \ {n}
  /\ iter' = [iter EXCEPT !.fresh = FALSE]

Balance ==
  /\ bst' = bst_balance(bst, Cardinality(present))
  /\ iter' = [iter EXCEPT !.fresh = FALSE]
  /\ UNCHANGED present

\* bst_destroy without cleanall, on a table no iterator stands in.
Destroy ==
  /\ iter.node = NIL /\ present # {}
  /\ bst' = bst_create /\ present' = {}
  /\ UNCHANGED iter

IterEnd(d) ==
  LET t == Made(bst, SeekEnd(bst, d).stack)
  IN bst' = t /\ iter' = SeekEnd(t, d) /\ UNCHANGED present

IterFind(k) ==
  LET t == Made(bst, Passed(bst, k))
  IN bst' = t /\ iter' = SeekKey(t, k) /\ UNCHANGED present

IterInsert(n) ==
  LET t == Made(bst, Passed(bst, n))
  IN /\ bst' = bst_insert(t, n)
     /\ iter' = At(n, Passed(t, n))
     /\ present' = present \cup {n}

\* bst_iterator_next (d = RIGHT) and bst_iterator_prev (d = LEFT).
IterStep(d) ==
  LET it == Refreshed(bst, iter)
      t == Made(bst, Move(bst, it, d).stack)
  IN /\ bst' = t
     /\ iter' = Move(t, IF t = bst THEN it ELSE bst_iterator_refresh(t, it), d)
     /\ UNCHANGED present

BstNext ==
  \/ \E n \in BstNode : TableInsert(n) \/ TableRemove(n) \/ IterFind(n) \/ IterInsert(n)
  \/ \E d \in {LEFT, RIGHT} : IterEnd(d) \/ IterStep(d)
  \/ Balance \/ Destroy

BstSpec == BstInit /\ [][BstNext]_bstVars
-----------------------------------------------------------------------------
\* The present nodes in ascending order.
Ascending == CHOOSE s \in [1..Cardinality(present) -> present] :
               \A i, j \in DOMAIN s : i < j => s[i] < s[j]

\* After any mixture of insertions, removals with two children, balancing and
\* iterator insertions the tree holds exactly what the callers were told it
\* holds: each such node is found by bst_search, no other node is, and
\* bst_destroy hands each of them to the destroyer once, in order.
BstHolds ==
  /\ \A k \in BstNode : (bst_search(bst, k) = k) <=> (k \in present)
  /\ bst_destroy(bst, bst.root) = Ascending

\* bst_balance keeps its promise that no path has more than bst_max_height
\* nodes, which is what lets a traversal that found its stack full start again
\* and end: the stack never holds more than bst_max_height nodes, and the
\* asserts of bst_iterator_refresh hold wherever the iterator stands.
StackSuffices ==
  /\ Fits(iter.stack)
  /\ iter.node # NIL => iter.node \in present /\ Fits(Ancestors(bst, iter))
  /\ \A k \in BstNode : Fits(Path(bst_balance(bst, Cardinality(present)), k))

Beyond(n, d) == {k \in present : n = NIL \/ (IF d = RIGHT THEN k > n ELSE k < n)}

\* bst_iterator_next and bst_iterator_prev go to the neighbour of the current
\* node among the nodes now in the table, whatever was inserted, removed or
\* rebalanced since the iterator was placed, and to NULL past the last one.
IteratorSteps ==
  [][\A d \in {LEFT, RIGHT} : IterStep(d) =>
       IF Beyond(iter.node, d) = {} THEN iter'.node = NIL
       ELSE /\ iter'.node \in Beyond(iter.node, d)
            /\ \A k \in Beyond(iter.node, d) : IF d = RIGHT THEN iter'.node <= k ELSE iter'.node >= k]_bstVars
=============================================================================
