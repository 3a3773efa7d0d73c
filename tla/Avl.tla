-------------------------------- MODULE Avl --------------------------------
(***************************************************************************)
(* The AVL tree of avl.c: child, parent and child-index links, balances,   *)
(* rotations, removal by a placeholder, update, and the destruction that   *)
(* hands the nodes out one by one.                                         *)
(*                                                                         *)
(* Only the order of the keys matters, so the nodes are named by their     *)
(* ranks 1 .. num: an insertion or removal renames those above it.  0 is   *)
(* NULL and -1 the placeholder on the stack of dlm_avl_remove().           *)
(***************************************************************************)
EXTENDS Integers, Sequences, FiniteSets

CONSTANT MaxNodes

VARIABLES
  tree,     \* root, num, and of each node: kid (children), par, side, bal
  cookie,   \* of dlm_avl_destroy_nodes(): <<>> before, <<parent, child>> or <<"done">>
  freed     \* the nodes that the destruction has returned

vars == <<tree, cookie, freed>>

Tmp == -1
Empty == [root |-> 0, num |-> 0, kid |-> <<>>, par |-> <<>>, side |-> <<>>, bal |-> <<>>]
Init == tree = Empty /\ cookie = <<>> /\ freed = {}

ToBalance(c) == IF c = 0 THEN -1 ELSE 1     \* avl_child2balance
ToChild(b) == IF b > 0 THEN 1 ELSE 0        \* avl_balance2child

(* n becomes child c of p, or the root.                                    *)
Link(t, p, c, n) ==
  LET t1 == IF p = 0 THEN [t EXCEPT !.root = n] ELSE [t EXCEPT !.kid[p][c] = n]
  IN IF n = 0 THEN t1 ELSE [t1 EXCEPT !.par[n] = p, !.side[n] = c]

(* The nodes in D, under the names f gives them.                           *)
Rename(t, D, f(_), num) ==
  LET of(n) == CHOOSE m \in D : f(m) = n
      New == {f(m) : m \in D}
  IN [root |-> f(t.root), num |-> num,
      kid |-> [n \in New |-> [c \in 0 .. 1 |-> f(t.kid[of(n)][c])]],
      par |-> [n \in New |-> f(t.par[of(n)])],
      side |-> [n \in New |-> t.side[of(n)]],
      bal |-> [n \in New |-> t.bal[of(n)]]]

(* From node n down to the last one that has no child c.                   *)
RECURSIVE Down(_, _, _)
Down(t, n, c) == IF t.kid[n][c] = 0 THEN n ELSE Down(t, t.kid[n][c], c)

(* dlm_avl_walk(): to the neighbor on the side c, or 0.                    *)
RECURSIVE UpWhile(_, _, _)
UpWhile(t, n, c) == IF n = 0 \/ t.par[n] = 0 THEN 0
                    ELSE IF t.side[n] # c THEN t.par[n] ELSE UpWhile(t, t.par[n], c)
Walk(t, n, c) == IF t.kid[n][c] # 0 THEN Down(t, t.kid[n][c], 1 - c) ELSE UpWhile(t, n, c)
First(t) == IF t.root = 0 THEN 0 ELSE Down(t, t.root, 0)

(* dlm_avl_find() of a key between those of k - 1 and k: the leaf and side.*)
RECURSIVE Find(_, _, _, _, _)
Find(t, k, n, p, c) == IF n = 0 THEN <<p, c>>
                       ELSE LET d == IF k <= n THEN 0 ELSE 1 IN Find(t, k, t.kid[n][d], n, d)

(* avl_rotation(): the new tree, and whether the subtree became shorter.   *)
Rotation(t, node, balance) ==
  LET left == IF balance < 0 THEN 0 ELSE 1
      right == 1 - left
      left_heavy == balance \div 2
      child == t.kid[node][left]
      child_bal == t.bal[child] - left_heavy
      Up(n) == Link(t, t.par[node], t.side[node], n)   \* n takes the place of node
  IN IF t.bal[child] # -left_heavy
     THEN LET t1 == Link(Link(Up(child), node, left, t.kid[child][right]), child, right, node)
          IN [tree |-> [t1 EXCEPT !.bal[node] = -child_bal, !.bal[child] = child_bal],
              shorter |-> child_bal = 0]
     ELSE LET gchild == t.kid[child][right]
              t1 == Link(Link(Up(gchild), node, left, t.kid[gchild][right]),
                         child, right, t.kid[gchild][left])
              t2 == Link(Link(t1, gchild, left, child), gchild, right, node)
              b == t.bal[gchild]
          IN [tree |-> [t2 EXCEPT !.bal[child] = IF b = -left_heavy THEN left_heavy ELSE 0,
                                  !.bal[node] = IF b = left_heavy THEN -left_heavy ELSE 0,
                                  !.bal[gchild] = 0],
              shorter |-> TRUE]

(* dlm_avl_insert(): after the leaf is linked, up from the child c of node.*)
RECURSIVE GrownUp(_, _, _)
GrownUp(t, node, c) ==
  IF node = 0 THEN t
  ELSE LET old == t.bal[node]
           new == old + ToBalance(c)
       IN IF new = 0 THEN [t EXCEPT !.bal[node] = 0]
          ELSE IF old # 0 THEN Rotation(t, node, new).tree
          ELSE GrownUp([t EXCEPT !.bal[node] = new], t.par[node], t.side[node])

(* A leaf of rank k at the child c of p, where p has its old rank.         *)
Insert(t, k, p, c) ==
  LET f(n) == IF n >= k THEN n + 1 ELSE n
      t1 == Rename(t, 1 .. t.num, f, t.num + 1)
      leaf == [n \in {k} |-> [i \in 0 .. 1 |-> 0]]
      With(g, v) == [n \in 1 .. t.num + 1 |-> IF n = k THEN v ELSE g[n]]
      t2 == [t1 EXCEPT !.kid = With(@, leaf[k]), !.par = With(@, 0),
                       !.side = With(@, 0), !.bal = With(@, 0)]
      t3 == [Link(t2, f(p), c, k) EXCEPT !.side[k] = c]
  IN GrownUp(t3, f(p), c)

Add(t, k) == LET w == Find(t, k, t.root, 0, 0) IN Insert(t, k, w[1], w[2])

(* dlm_avl_insert_here(): next to a node; if its child is there, next to   *)
(* the neighbor, on the other side.                                        *)
InsertHere(t, here, c) ==
  LET k == here + c
      n == t.kid[here][c]
  IN IF n = 0 THEN Insert(t, k, here, c) ELSE Insert(t, k, Down(t, n, 1 - c), 1 - c)

(* dlm_avl_remove(): a node with two children is replaced by its neighbor  *)
(* on the taller side, and the placeholder Tmp takes the neighbor's place. *)
Swap(t, delete) ==
  LET left == ToChild(t.bal[delete])
      node == Down(t, t.kid[delete][left], 1 - left)
      g(f, v) == [n \in DOMAIN f \cup {Tmp} |-> IF n = Tmp THEN f[node] ELSE IF n = node THEN v ELSE f[n]]
      t1 == [t EXCEPT !.kid = g(@, t.kid[delete]), !.par = g(@, t.par[delete]),
                      !.side = g(@, t.side[delete]), !.bal = g(@, t.bal[delete])]
      down == IF t.kid[delete][left] = node THEN Tmp ELSE t.kid[delete][left]
      t2 == Link(Link(Link(t1, t.par[delete], t.side[delete], node), node, left, down),
                 node, 1 - left, t.kid[delete][1 - left])
      t3 == IF down = Tmp THEN t2 ELSE Link(t2, t.par[node], t.side[node], Tmp)
      c == ToChild(t3.kid[Tmp][1])
  IN IF t3.kid[Tmp][c] = 0 THEN t3 ELSE [t3 EXCEPT !.par[t3.kid[Tmp][c]] = Tmp]

ShrunkOnce(t, node, c) ==   \* wrong: one rotation at most
  IF node = 0 THEN t
  ELSE LET new == t.bal[node] - ToBalance(c)
       IN IF new \in {-2, 2} THEN Rotation(t, node, new).tree ELSE [t EXCEPT !.bal[node] = new]
RECURSIVE ShrunkUp(_, _, _)
ShrunkUp(t, node, c) ==
  IF node = 0 THEN t
  ELSE LET old == t.bal[node]
           new == old - ToBalance(c)
           rot == Rotation(t, node, new)
       IN IF old = 0 THEN [t EXCEPT !.bal[node] = new]
          ELSE IF new = 0 THEN ShrunkUp([t EXCEPT !.bal[node] = 0], t.par[node], t.side[node])
          ELSE IF rot.shorter THEN ShrunkUp(rot.tree, t.par[node], t.side[node]) ELSE rot.tree

Remove(t, n) ==
  LET two == t.kid[n][0] # 0 /\ t.kid[n][1] # 0
      t1 == IF two THEN Swap(t, n) ELSE t
      d == IF two THEN Tmp ELSE n
      child == IF t1.kid[d][0] # 0 THEN t1.kid[d][0] ELSE t1.kid[d][1]
      f(m) == IF m > n THEN m - 1 ELSE m
  IN Rename(ShrunkUp(Link(t1, t1.par[d], t1.side[d], child), t1.par[d], t1.side[d]),
            1 .. t.num \ {n}, f, t.num - 1)

(* dlm_avl_update(): the key of n changed, which gives it the rank k; it is*)
(* reinserted unless it is still between its neighbors.                    *)
Update(t, n, k) == IF k = n THEN t ELSE Add(Remove(t, n), k)

Usable == cookie = <<>> /\ UNCHANGED <<cookie, freed>>
Grow == /\ Usable /\ tree.num < MaxNodes
        /\ \/ \E k \in 1 .. tree.num + 1 : tree' = Add(tree, k)
           \/ \E n \in 1 .. tree.num, c \in 0 .. 1 : tree' = InsertHere(tree, n, c)
Shrink == Usable /\ \E n \in 1 .. tree.num : tree' = Remove(tree, n)
Change == Usable /\ \E n, k \in 1 .. tree.num : tree' = Update(tree, n, k)

(* One call of dlm_avl_destroy_nodes(), whose caller frees the node.       *)
ReturnedItself(t, node) == node   \* wrong: although it has a child
Returned(t, node) == IF t.kid[node][1] # 0 THEN t.kid[node][1] ELSE node   \* check_right_side
Give(t, n) ==
  /\ tree' = t /\ freed' = freed \cup {n}
  /\ cookie' = IF t.par[n] = 0 THEN <<"done">> ELSE <<t.par[n], t.side[n]>>
DestroyFirst ==
  /\ cookie = <<>> /\ tree.root # 0
  /\ Give(tree, Returned(tree, First(tree)))
DestroyNext ==
  /\ Len(cookie) = 2
  /\ LET p == cookie[1] c == cookie[2]
         t == [tree EXCEPT !.kid[p][c] = 0, !.num = @ - 1]
     IN IF c = 1 \/ t.kid[p][1] = 0 THEN Give(t, p)
        ELSE Give(t, Returned(t, Down(t, t.kid[p][1], 0)))
DestroyLast ==
  /\ cookie = <<"done">> /\ tree.root # 0
  /\ tree' = [tree EXCEPT !.root = 0, !.num = 0] /\ UNCHANGED <<cookie, freed>>
Create == cookie = <<"done">> /\ tree.root = 0 /\ tree' = Empty /\ cookie' = <<>> /\ freed' = {}

Next == Grow \/ Shrink \/ Change \/ DestroyFirst \/ DestroyNext \/ DestroyLast \/ Create
Spec == Init /\ [][Next]_vars
-------------------------------------------------------------------------------
(* Properties                                                              *)

RECURSIVE Height(_, _)
Height(t, n) == IF n = 0 THEN 0
                ELSE LET l == Height(t, t.kid[n][0]) r == Height(t, t.kid[n][1])
                     IN 1 + IF l > r THEN l ELSE r

(* After every insertion, removal and update each balance is the difference*)
(* of the heights below and at most one, and parents and children agree,   *)
(* whatever rotations and placeholders it took.                            *)
Balanced == cookie = <<>> =>
  /\ tree.root # 0 => tree.par[tree.root] = 0
  /\ \A n \in 1 .. tree.num :
       /\ tree.bal[n] = Height(tree, tree.kid[n][1]) - Height(tree, tree.kid[n][0])
       /\ tree.bal[n] \in -1 .. 1
       /\ \A c \in 0 .. 1 : tree.kid[n][c] # 0 => /\ tree.par[tree.kid[n][c]] = n
                                                  /\ tree.side[tree.kid[n][c]] = c

(* AVL_NEXT and AVL_PREV lead through all the nodes in the order of keys.  *)
Sorted == cookie = <<>> /\ tree.num > 0 =>
  /\ First(tree) = 1
  /\ \A n \in 1 .. tree.num : /\ Walk(tree, n, 1) = (IF n = tree.num THEN 0 ELSE n + 1)
                               /\ Walk(tree, n, 0) = n - 1

(* The destruction hands out every node once, and never follows a link of  *)
(* one that it handed out, although the caller has freed it.               *)
DestroysOnce ==
  /\ Len(cookie) = 2 => /\ cookie[1] \notin freed
                     /\ tree.num + Cardinality(freed) = Cardinality(DOMAIN tree.bal) + 1
  /\ cookie = <<"done">> => freed = DOMAIN tree.bal
=============================================================================
