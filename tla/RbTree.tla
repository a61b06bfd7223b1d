------------------------------- MODULE RbTree -------------------------------
(* The red-black tree of src/common/rb_tree.c: nodes that live in their     *)
(* owners, linked by left, right and parent, with a caller that inserts,    *)
(* removes and walks.  The two mirror-image halves of the code are one      *)
(* definition with a side: Rotate(t, n, "left") is rb_rotate_left.          *)
(* Every call runs to its end in one step: the tree has no lock and its     *)
(* users call it under their own.                                           *)
EXTENDS Integers, FiniteSets, Sequences

CONSTANTS Node,       \* the nodes of the tree's users
          NULL,
          KeyOf(_),   \* what the comparator compares; two nodes may agree
          Clock       \* the times expire may read

ASSUME RbAssumption == /\ NULL \notin Node /\ Clock \subseteq Int
                       /\ \A n \in Node : KeyOf(n) \in Int

VARIABLES tree,     \* root, link[n][side], parent[n], color[n], rb_count
          members   \* the nodes that, by the return values, are in the tree

rbVars == <<tree, members>>

Side == {"left", "right"}
Other(d) == IF d = "left" THEN "right" ELSE "left"
Cleared == [d \in Side |-> NULL]

rb_tree_init ==
  [root |-> NULL, rb_count |-> 0, link |-> [n \in Node |-> Cleared],
   parent |-> [n \in Node |-> NULL], color |-> [n \in Node |-> "red"]]

rb_is_red_safe(t, n) == n # NULL /\ t.color[n] = "red"
rb_is_black(t, n) == ~rb_is_red_safe(t, n)

Paint(t, black, red) ==
  [t EXCEPT !.color = [n \in Node |-> IF n \in black THEN "black"
                                      ELSE IF n \in red THEN "red" ELSE @[n]]]

BlackRoot(t) == Paint(t, {t.root}, {})

\* The side of p on which n hangs.
SideOf(t, p, n) == IF t.link[p]["left"] = n THEN "left" ELSE "right"

\* p's link to n, or the root when p is NULL, now leads to m.
Relink(t, p, n, m) ==
  IF p = NULL THEN [t EXCEPT !.root = m]
              ELSE [t EXCEPT !.link[p][SideOf(t, p, n)] = m]

SetParent(t, n, p) == IF n = NULL THEN t ELSE [t EXCEPT !.parent[n] = p]

\* rb_rotate_left and rb_rotate_right.
Rotate(t, n, d) ==
  LET x == t.link[n][Other(d)]
      y == t.link[x][d]
      t1 == Relink(SetParent(t, y, n), t.parent[n], n, x)
  IN [t1 EXCEPT !.link[n][Other(d)] = y, !.link[x][d] = n,
                !.parent[n] = x, !.parent[x] = t.parent[n]]

\* A bug of the kind the fix-up invites: an inner grandchild is not first
\* rotated to the outside.
OuterOnly(t, n, p, d) == [tree |-> t, top |-> p]

\* Cases 2A and 2B: an inner node changes places with its parent.
Outward(t, n, p, d) ==
  IF n = t.link[p][Other(d)] THEN [tree |-> Rotate(t, p, d), top |-> n]
                             ELSE [tree |-> t, top |-> p]

RECURSIVE rb_insert_color(_, _)
rb_insert_color(t, n) ==
  LET p == t.parent[n]
      g == t.parent[p]
      d == SideOf(t, g, p)
      u == t.link[g][Other(d)]
      o == Outward(t, n, p, d)
  IN IF ~rb_is_red_safe(t, p) THEN BlackRoot(t)
     ELSE IF rb_is_red_safe(t, u)
     THEN rb_insert_color(Paint(t, {p, u}, {g}), g)
     ELSE Rotate(Paint(o.tree, {o.top}, {g}), g, Other(d))

\* The descent of rb_insert: the duplicate, or the parent and side of the
\* free link (at the root: NULL and any side).
RECURSIVE Descend(_, _, _, _, _)
Descend(t, n, at, p, d) ==
  IF at = NULL THEN [dup |-> NULL, parent |-> p, side |-> d]
  ELSE IF KeyOf(n) = KeyOf(at) THEN [dup |-> at, parent |-> p, side |-> d]
  ELSE LET e == IF KeyOf(n) > KeyOf(at) THEN "right" ELSE "left"
       IN Descend(t, n, t.link[at][e], at, e)

\* The tree and the returned node.
rb_insert(t, n) ==
  LET w == Descend(t, n, t.root, NULL, "left")
      t1 == [t EXCEPT !.color[n] = "red", !.link[n] = Cleared, !.parent[n] = w.parent]
      t2 == IF w.parent = NULL THEN [t1 EXCEPT !.root = n]
                               ELSE [t1 EXCEPT !.link[w.parent][w.side] = n]
  IN IF w.dup # NULL THEN [tree |-> t, ret |-> w.dup]
     ELSE [tree |-> [rb_insert_color(t2, n) EXCEPT !.rb_count = @ + 1], ret |-> n]

\* Cases 1, 3 and 4 of rb_remove_color: s is the sibling on side Other(d) of p.
RedSibling(t, p, d, s) ==
  IF t.color[s] = "red" THEN Rotate(Paint(t, {s}, {p}), p, d) ELSE t
RedInside(t, d, s) ==
  IF rb_is_black(t, t.link[s][Other(d)])
    THEN Rotate(Paint(t, {t.link[s][d]}, {s}), s, Other(d)) ELSE t
RedOutside(t, p, d, s) ==
  LET t1 == [t EXCEPT !.color[s] = t.color[p], !.color[p] = t.color[s]]
  IN Rotate(Paint(t1, {t1.link[s][Other(d)]}, {}), p, d)

Sibling(t, p, d) == t.link[p][Other(d)]
Borrow(t, p, d) == BlackRoot(RedOutside(t, p, d, Sibling(t, p, d)))

\* Where a black node is missing on side d of p; case 2 moves the gap upward.
RECURSIVE rb_remove_color(_, _, _), Fill(_, _, _, _)
Fill(t, p, d, s) ==
  IF \A e \in Side : rb_is_black(t, t.link[s][e])
  THEN rb_remove_color(Paint(t, {}, {s}), p, t.parent[p])
  ELSE Borrow(RedInside(t, d, s), p, d)
FillBelow(t, p, d) == Fill(t, p, d, Sibling(t, p, d))

rb_remove_color(t, n, p) ==
  LET d == SideOf(t, p, n)
  IN IF n = t.root \/ rb_is_red_safe(t, n)
     THEN IF n = NULL THEN t ELSE Paint(t, {n}, {})
     ELSE FillBelow(RedSibling(t, p, d, Sibling(t, p, d)), p, d)

\* n and below it, as far as possible to one side.
RECURSIVE Outmost(_, _, _)
Outmost(t, n, d) == IF t.link[n][d] = NULL THEN n ELSE Outmost(t, t.link[n][d], d)

\* A node with at most one child: the child takes its place.
Unlink(t, n) ==
  LET child == IF t.link[n]["left"] = NULL THEN t.link[n]["right"] ELSE t.link[n]["left"]
  IN [tree |-> Relink(SetParent(t, child, t.parent[n]), t.parent[n], n, child),
      child |-> child, parent |-> t.parent[n], color |-> t.color[n]]

\* A node with two children: its successor takes its place and its colour.
Replace(t, n) ==
  LET r == Outmost(t, t.link[n]["right"], "left")
      child == t.link[r]["right"]
      p == t.parent[r]
      t1 == Relink(t, t.parent[n], n, r)
      t2 == [t1 EXCEPT !.parent[r] = t.parent[n], !.link[r]["left"] = t.link[n]["left"],
                       !.parent[t.link[n]["left"]] = r,
                       !.color[r] = t.color[n], !.color[n] = t.color[r]]
      t3 == [SetParent(t2, child, p) EXCEPT !.link[p]["left"] = child,
               !.link[r]["right"] = t.link[n]["right"], !.parent[t.link[n]["right"]] = r]
  IN [tree |-> IF p = n THEN t2 ELSE t3, child |-> child,
      parent |-> IF p = n THEN r ELSE p, color |-> t.color[r]]

Recolor(u) == IF u.color = "black" THEN rb_remove_color(u.tree, u.child, u.parent)
                                   ELSE u.tree

\* The fields of n stay as they are (see rb_next in Walk).
rb_remove(t, n) ==
  [Recolor(IF NULL \in {t.link[n]["left"], t.link[n]["right"]}
             THEN Unlink(t, n) ELSE Replace(t, n)) EXCEPT !.rb_count = @ - 1]

\* rb_search by key.
rb_search(t, k) ==
  LET At[n \in Node \cup {NULL}] ==
        IF n = NULL \/ KeyOf(n) = k THEN n
        ELSE At[t.link[n][IF k > KeyOf(n) THEN "right" ELSE "left"]]
  IN At[t.root]

\* rb_first ("left") and rb_last ("right").
End(t, d) == IF t.root = NULL THEN NULL ELSE Outmost(t, t.root, d)

\* The climb of rb_next and rb_prev.
RECURSIVE Climb(_, _, _)
Climb(t, n, d) == IF t.parent[n] # NULL /\ t.link[t.parent[n]][d] = n
                    THEN Climb(t, t.parent[n], d) ELSE t.parent[n]

\* A plausible slip: the walk goes down one link and not on to the far end.
StepDown(t, n, d) == IF t.link[n][d] # NULL THEN t.link[n][d] ELSE Climb(t, n, d)

\* rb_next ("right") and rb_prev ("left").
Step(t, n, d) == IF t.link[n][d] # NULL THEN Outmost(t, t.link[n][d], Other(d))
                                        ELSE Climb(t, n, d)

\* A bug the walk of expire invites: it ends at the first sleeper it removes.
StepBack(t, n) == NULL

\* n = rb_next(n) of expire, n perhaps just removed.
After(t, n) == Step(t, n, "right")

(* expire of src/co/co_core.c: the walk removes what is due and goes on     *)
(* from the removed node's own, now stale, links.  The clock is read for    *)
(* every node: it shows now until the walk comes to turn, and later there.  *)
RECURSIVE Walk(_, _, _, _, _, _)
Walk(t, n, now, later, turn, taken) ==
  LET clock == IF n = turn THEN later ELSE now
      OnFrom(t1, more) == Walk(t1, After(t1, n), clock, later, turn, taken \cup more)
  IN IF n = NULL THEN [tree |-> t, taken |-> taken]
     ELSE IF KeyOf(n) <= clock THEN OnFrom(rb_remove(t, n), {n}) ELSE OnFrom(t, {})

expire(t, now, later, turn) == Walk(t, End(t, "left"), now, later, turn, {})

\* The fields of nodes outside the tree mean nothing between two calls.
Tidy(t, in) == [t EXCEPT !.link = [n \in Node |-> IF n \in in THEN @[n] ELSE Cleared],
                         !.parent = [n \in Node |-> IF n \in in THEN @[n] ELSE NULL],
                         !.color = [n \in Node |-> IF n \in in THEN @[n] ELSE "red"]]

RbInit == tree = rb_tree_init /\ members = {}

RbInsert(n) ==
  /\ n \notin members
  /\ LET r == rb_insert(tree, n)
     IN /\ tree' = r.tree
        /\ members' = IF r.ret = n THEN members \cup {n} ELSE members

RbRemove(k) ==
  LET n == rb_search(tree, k)
  IN /\ n # NULL
     /\ members' = members \ {n}
     /\ tree' = Tidy(rb_remove(tree, n), members')

RbExpire(now, later, turn) ==
  LET w == expire(tree, now, later, turn)
  IN /\ members' = members \ w.taken
     /\ tree' = Tidy(w.tree, members')

\* Where the clock can turn from now to later; nowhere, if they are the same.
Turns(now, later) ==
  CASE now < later -> members [] now = later -> {NULL} [] now > later -> {}

Keys == {KeyOf(n) : n \in Node}

RbNext == \/ \E n \in Node : RbInsert(n)
          \/ \E k \in Keys : RbRemove(k)
          \/ \E now, later \in Clock : \E turn \in Turns(now, later) : RbExpire(now, later, turn)

RbSpec == RbInit /\ [][RbNext]_rbVars

-----------------------------------------------------------------------------
\* What a walk lists.
RECURSIVE Listed(_, _, _)
Listed(t, n, d) == IF n = NULL THEN <<>> ELSE <<n>> \o Listed(t, Step(t, n, d), d)

\* Black nodes on every way down, or -1 where they differ or two reds meet.
RECURSIVE Blacks(_, _)
Blacks(t, n) ==
  IF n = NULL THEN 0
  ELSE LET l == t.link[n]["left"]
           r == t.link[n]["right"]
           b == Blacks(t, l)
       IN IF \/ b = -1 \/ b # Blacks(t, r)
             \/ t.color[n] = "red" /\ (rb_is_red_safe(t, l) \/ rb_is_red_safe(t, r))
            THEN -1 ELSE IF t.color[n] = "black" THEN b + 1 ELSE b

\* After any sequence of rb_insert, rb_remove and expire the tree is
\* balanced: the root is black, no red node has a red child, every way down
\* passes as many black nodes, and every child names its parent.  This is
\* what the cases of rb_insert_color and rb_remove_color are for.
RedBlack ==
  /\ rb_is_black(tree, tree.root)
  /\ Blacks(tree, tree.root) >= 0
  /\ \A n \in members, d \in Side :
        tree.link[n][d] # NULL => tree.parent[tree.link[n][d]] = n
  /\ tree.root # NULL => tree.parent[tree.root] = NULL

\* rb_first and rb_next list exactly the inserted nodes by increasing key,
\* rb_last and rb_prev the same backwards, rb_search finds each of them and
\* nothing else, and rb_count is their number.
WalkAgrees ==
  LET s == Listed(tree, End(tree, "left"), "right")
      b == Listed(tree, End(tree, "right"), "left")
  IN /\ {s[i] : i \in DOMAIN s} = members
     /\ \A i \in 1..(Len(s) - 1) : KeyOf(s[i]) < KeyOf(s[i + 1])
     /\ b = [i \in DOMAIN s |-> s[Len(s) + 1 - i]]
     /\ tree.rb_count = Len(s)
     /\ \A k \in Keys : LET n == rb_search(tree, k)
                        IN IF n = NULL THEN \A m \in members : KeyOf(m) # k
                                       ELSE n \in members /\ KeyOf(n) = k

\* The scheduler's expire takes every sleeper that was due when the walk
\* began and none that is not due when it ends, although it goes on from
\* nodes it has just removed; what it leaves behind is a tree of the rest.
ExpireSweeps ==
  \A now, later \in Clock : \A turn \in Turns(now, later) :
    LET taken == expire(tree, now, later, turn).taken
    IN \A n \in members : /\ KeyOf(n) <= now => n \in taken
                          /\ KeyOf(n) > later => n \notin taken
=============================================================================
