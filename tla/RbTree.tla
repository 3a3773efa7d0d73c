------------------------------- MODULE RbTree -------------------------------
(***************************************************************************)
(* The red-black tree of rbtree.c, rbtree.h and rbtree_augmented.h: linked *)
(* insertion, erasure, replacement, the cached leftmost node, the walks,   *)
(* and an augmented value, the number of nodes of the subtree, that the    *)
(* callbacks of RB_DECLARE_CALLBACKS keep.                                 *)
(*                                                                         *)
(* Only the order of the keys matters, so the nodes are named by their     *)
(* ranks 1 .. num: an insertion or removal renames those above it.  0 is   *)
(* NULL.  The code's mirrored branches are one with a side d.              *)
(***************************************************************************)
EXTENDS Integers, FiniteSets

CONSTANT MaxNodes

VARIABLE rb   \* root, leftmost, num; of each node: kid (0 left, 1 right), par, red, size

Init == rb = [root |-> 0, leftmost |-> 0, num |-> 0,
              kid |-> <<>>, par |-> <<>>, red |-> <<>>, size |-> <<>>]

Other(n) == -n   \* rb_replace_node(): the new node that takes the place of n

Rename(t, D, f(_), num) ==
  LET of(n) == CHOOSE m \in D : f(m) = n
      New == {f(m) : m \in D}
  IN [root |-> f(t.root), leftmost |-> f(t.leftmost), num |-> num,
      kid |-> [n \in New |-> [c \in 0 .. 1 |-> f(t.kid[of(n)][c])]],
      par |-> [n \in New |-> f(t.par[of(n)])],
      red |-> [n \in New |-> t.red[of(n)]],
      size |-> [n \in New |-> t.size[of(n)]]]

IsRed(t, n) == n # 0 /\ t.red[n]
Kid(t, p, c, n) == [t EXCEPT !.kid[p][c] = n]
SetParentColor(t, n, p, red) == IF n = 0 THEN t ELSE [t EXCEPT !.par[n] = p, !.red[n] = red]
ChangeChild(t, old, new, parent) ==
  IF parent = 0 THEN [t EXCEPT !.root = new]
  ELSE Kid(t, parent, IF t.kid[parent][0] = old THEN 0 ELSE 1, new)
RotateSetParents(t, old, new, red) ==
  ChangeChild(SetParentColor(SetParentColor(t, new, t.par[old], t.red[old]), old, new, red),
              old, new, t.par[old])

(* The callbacks: compute, copy, propagate and rotate.                     *)
SizeOf(t, n) == IF n = 0 THEN 0 ELSE t.size[n]
Compute(t, n) == 1 + SizeOf(t, t.kid[n][0]) + SizeOf(t, t.kid[n][1])
Copy(t, old, new) == [t EXCEPT !.size[new] = t.size[old]]
RotateOldOnly(t, old, new) == [t EXCEPT !.size[old] = Compute(t, old)]   \* wrong: new keeps its value
Rotate(t, old, new) == LET t1 == Copy(t, old, new) IN [t1 EXCEPT !.size[old] = Compute(t1, old)]
RECURSIVE Propagate(_, _, _)
Propagate(t, n, stop) ==
  IF n = stop \/ t.size[n] = Compute(t, n) THEN t
  ELSE Propagate([t EXCEPT !.size[n] = Compute(t, n)], t.par[n], stop)

(* Left, or right, as far as there are children.                           *)
RECURSIVE Down(_, _, _)
Down(t, n, c) == IF t.kid[n][c] = 0 THEN n ELSE Down(t, t.kid[n][c], c)

(* __rb_insert()                                                           *)
RECURSIVE InsertColor(_, _)
InsertColor(t, node) ==
  LET parent == t.par[node]
      g == t.par[parent]
      d == IF parent = t.kid[g][0] THEN 0 ELSE 1
      uncle == t.kid[g][1 - d]
      inner == node = t.kid[parent][1 - d]
      t2 == LET tmp == t.kid[node][d]      \* case 2: rotate at the parent
            IN Rotate(SetParentColor(SetParentColor(Kid(Kid(t, parent, 1 - d, tmp), node, d, parent),
                                                    tmp, parent, FALSE), parent, node, TRUE),
                      parent, node)
      t3 == IF inner THEN t2 ELSE t
      p == IF inner THEN node ELSE parent
      tmp3 == t3.kid[p][1 - d]
  IN IF parent = 0 THEN SetParentColor(t, node, 0, FALSE)
     ELSE IF ~t.red[parent] THEN t
     ELSE IF IsRed(t, uncle)               \* case 1: flip colors
     THEN InsertColor([t EXCEPT !.red[uncle] = FALSE, !.red[parent] = FALSE, !.red[g] = TRUE], g)
     ELSE Rotate(RotateSetParents(SetParentColor(Kid(Kid(t3, g, d, tmp3), p, 1 - d, g),
                                                 tmp3, g, FALSE), g, p, TRUE), g, p)

(* ____rb_erase_color()                                                    *)
RECURSIVE EraseColor(_, _, _)
EraseColor(t, parent, node) ==
  LET d == IF node # t.kid[parent][1] THEN 0 ELSE 1
      s0 == t.kid[parent][1 - d]
      near0 == t.kid[s0][d]
      t1 == IF ~t.red[s0] THEN t           \* case 1: a red sibling
            ELSE Rotate(RotateSetParents(SetParentColor(Kid(Kid(t, parent, 1 - d, near0), s0, d, parent),
                                                        near0, parent, FALSE), parent, s0, TRUE),
                        parent, s0)
      s1 == IF t.red[s0] THEN near0 ELSE s0
      far == t1.kid[s1][1 - d]
      near == t1.kid[s1][d]
      flipped == [t1 EXCEPT !.red[s1] = TRUE]
      inner == t1.kid[near][1 - d]
      t3 == IF IsRed(t1, far) THEN t1      \* case 3: rotate at the sibling
            ELSE Rotate(SetParentColor(Kid(Kid(Kid(t1, s1, d, inner), near, 1 - d, s1), parent, 1 - d, near),
                                       inner, s1, FALSE), s1, near)
      s == IF IsRed(t1, far) THEN s1 ELSE near
      outer == IF IsRed(t1, far) THEN far ELSE s1
      tmp == t3.kid[s][d]
      t4 == SetParentColor(Kid(Kid(t3, parent, 1 - d, tmp), s, d, parent), outer, s, FALSE)
      t5 == IF tmp = 0 THEN t4 ELSE [t4 EXCEPT !.par[tmp] = parent]
  IN IF ~IsRed(t1, far) /\ ~IsRed(t1, near)
     THEN IF t1.red[parent] THEN [flipped EXCEPT !.red[parent] = FALSE]   \* case 2
          ELSE IF t1.par[parent] = 0 THEN flipped
          ELSE EraseColor(flipped, t1.par[parent], parent)
     ELSE Rotate(RotateSetParents(t5, parent, s, FALSE), parent, s)       \* case 4

(* __rb_erase_augmented(): the tree, and where to rebalance.               *)
EraseLeaf(t, node, child) ==      \* case 1: at most one child
  LET parent == t.par[node]
      t1 == SetParentColor(ChangeChild(t, node, child, parent), child, parent, t.red[node])
  IN [tree |-> IF parent = 0 THEN t1 ELSE Propagate(t1, parent, 0),
      at |-> IF child = 0 /\ ~t.red[node] THEN parent ELSE 0]
EraseInner(t, node) ==            \* cases 2 and 3: by its successor
  LET child == t.kid[node][1]
      s == Down(t, child, 0)
      child2 == t.kid[s][1]
      parent == IF s = child THEN s ELSE t.par[s]
      t1 == IF s = child THEN Copy(t, node, s)
            ELSE Propagate(Copy([Kid(Kid(t, parent, 0, child2), s, 1, child) EXCEPT !.par[child] = s],
                                node, s), parent, s)
      left == t.kid[node][0]
      t2 == ChangeChild([Kid(t1, s, 0, left) EXCEPT !.par[left] = s], node, s, t.par[node])
      t3 == SetParentColor(t2, child2, parent, FALSE)
      t4 == SetParentColor(t3, s, t.par[node], t.red[node])
  IN [tree |-> Propagate(t4, s, 0),
      at |-> IF child2 = 0 /\ ~t.red[s] THEN parent ELSE 0]
EraseAugmented(t, node) ==
  IF t.kid[node][0] = 0 THEN EraseLeaf(t, node, t.kid[node][1])
  ELSE IF t.kid[node][1] = 0 THEN EraseLeaf(t, node, t.kid[node][0])
  ELSE EraseInner(t, node)

(* rb_next() (c = 1) and rb_prev() (c = 0).                                *)
RECURSIVE UpFrom(_, _, _)
UpFrom(t, n, c) == IF t.par[n] # 0 /\ t.kid[t.par[n]][c] = n THEN UpFrom(t, t.par[n], c) ELSE t.par[n]
Step(t, n, c) == IF t.kid[n][c] # 0 THEN Down(t, t.kid[n][c], 1 - c) ELSE UpFrom(t, n, c)

(* rb_first_postorder() and rb_next_postorder()                            *)
RECURSIVE LeftDeepest(_, _)
LeftDeepest(t, n) == IF t.kid[n][0] # 0 THEN LeftDeepest(t, t.kid[n][0])
                     ELSE IF t.kid[n][1] # 0 THEN LeftDeepest(t, t.kid[n][1]) ELSE n
NextPostorder(t, n) ==
  LET p == t.par[n]
  IN IF p # 0 /\ n = t.kid[p][0] /\ t.kid[p][1] # 0 THEN LeftDeepest(t, t.kid[p][1]) ELSE p

(* The caller searches the place for rank k, counts the new node on the    *)
(* way, links it, and says whether it is the leftmost.                     *)
RECURSIVE Link(_, _, _, _, _)
Link(t, k, n, p, c) ==
  IF n # 0 THEN LET d == IF k < n THEN 0 ELSE 1
                IN Link([t EXCEPT !.size[n] = @ + 1], k, t.kid[n][d], n, d)
  ELSE LET t1 == [t EXCEPT !.par[k] = p]
       IN IF p = 0 THEN [t1 EXCEPT !.root = k] ELSE Kid(t1, p, c, k)
Insert(t, k) ==
  LET f(n) == IF n >= k THEN n + 1 ELSE n
      t1 == Rename(t, 1 .. t.num, f, t.num + 1)
      With(g, v) == [n \in 1 .. t.num + 1 |-> IF n = k THEN v ELSE g[n]]
      new == [t1 EXCEPT !.kid = With(@, [c \in 0 .. 1 |-> 0]), !.par = With(@, 0),
                        !.red = With(@, TRUE), !.size = With(@, 1),
                        !.leftmost = IF k = 1 THEN 1 ELSE @]
  IN InsertColor(Link(new, k, new.root, 0, 0), k)

(* rb_erase_augmented_cached()                                             *)
Cached(t, n) == [t EXCEPT !.leftmost = IF @ = n THEN Step(t, n, 1) ELSE @]
Erase(t, n) ==
  LET e == EraseAugmented(Cached(t, n), n)
      t1 == IF e.at = 0 THEN e.tree ELSE EraseColor(e.tree, e.at, 0)
      f(m) == IF m > n THEN m - 1 ELSE m
  IN Rename(t1, 1 .. t.num \ {n}, f, t.num - 1)

(* rb_replace_node_cached() by another node with the same key.             *)
Replace(t, n) ==
  LET new == Other(n)
      With(g) == [m \in DOMAIN g \cup {new} |-> IF m = new THEN g[n] ELSE g[m]]
      t1 == [t EXCEPT !.kid = With(@), !.par = With(@), !.red = With(@), !.size = With(@),
                      !.leftmost = IF @ = n THEN new ELSE @]
      Up(s, c) == IF s.kid[n][c] = 0 THEN s ELSE [s EXCEPT !.par[s.kid[n][c]] = new]
      f(m) == IF m = new THEN n ELSE m
  IN Rename(ChangeChild(Up(Up(t1, 0), 1), n, new, t.par[n]), (1 .. t.num \ {n}) \cup {new}, f, t.num)

Next == \/ rb.num < MaxNodes /\ \E k \in 1 .. rb.num + 1 : rb' = Insert(rb, k)
        \/ \E n \in 1 .. rb.num : rb' = Erase(rb, n) \/ rb' = Replace(rb, n)
Spec == Init /\ [][Next]_rb
-------------------------------------------------------------------------------
(* Properties                                                              *)

RECURSIVE BlackHeights(_, _)
BlackHeights(t, n) ==
  IF n = 0 THEN {0}
  ELSE {h + (IF t.red[n] THEN 0 ELSE 1) : h \in BlackHeights(t, t.kid[n][0]) \cup BlackHeights(t, t.kid[n][1])}

(* Rules 2, 4 and 5 of the head of rbtree.c hold after every insertion and *)
(* erasure, through all the cases of recoloring, and the links up agree    *)
(* with the links down.                                                    *)
RedBlack ==
  /\ rb.root # 0 => ~rb.red[rb.root] /\ rb.par[rb.root] = 0
  /\ Cardinality(BlackHeights(rb, rb.root)) = 1
  /\ \A n \in 1 .. rb.num, c \in 0 .. 1 : rb.kid[n][c] # 0 =>
       rb.par[rb.kid[n][c]] = n /\ ~(rb.red[n] /\ rb.red[rb.kid[n][c]])

(* The augmented value of every node is right although the callbacks only  *)
(* see the nodes that a rotation or an erasure moved.                      *)
Augmented == \A n \in 1 .. rb.num : rb.size[n] = Compute(rb, n)

RECURSIVE Postorder(_, _, _)
Postorder(t, n, seen) ==
  IF n = 0 THEN seen = 1 .. t.num
  ELSE /\ n \notin seen /\ {t.kid[n][0], t.kid[n][1]} \subseteq seen \cup {0}
       /\ Postorder(t, NextPostorder(t, n), seen \cup {n})

(* rb_next() and rb_prev() lead through the nodes in order, from the cached*)
(* leftmost one; the postorder walk meets every node once, after its       *)
(* children, so that it may be freed.                                      *)
Iterates ==
  /\ rb.leftmost = (IF rb.num = 0 THEN 0 ELSE 1)
  /\ \A n \in 1 .. rb.num : /\ Step(rb, n, 1) = (IF n = rb.num THEN 0 ELSE n + 1)
                            /\ Step(rb, n, 0) = n - 1
  /\ rb.num > 0 => Postorder(rb, LeftDeepest(rb, rb.root), {})
=============================================================================
