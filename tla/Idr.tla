-------------------------------- MODULE Idr --------------------------------
(* The map from small integers to pointers (src/idr.c): ids come from a     *)
(* unit number allocator and entries sit in an AVL tree ordered by id, here *)
(* the set of ids in the tree.  The map has no lock of its own, so its      *)
(* callers hold one; what runs inside a loop over the map is the loop's own *)
(* callback or body, which may allocate and remove entries.                 *)
EXTENDS Integers, FiniteSetsExt

CONSTANTS Low, High, NBITS   \* idr_init_base()'s base, and bounds for INT_MAX and 256

VARIABLES
    unr,      \* struct unrhdr of the map
    tree,     \* the ids that have a node
    live,     \* between idr_init_base() and idr_destroy()
    iter      \* the loop in progress and what it has seen (seen, stayed: history)

vars == <<unr, tree, live, iter>>

U == INSTANCE Unr WITH uh <- unr, owned <- tree

NoNode == Low - 1            \* NULL
First(S) == IF S = {} THEN NoNode ELSE Min(S)
After(id) == First({x \in tree : x > id})

NoIter == [kind |-> "none", p |-> NoNode, next |-> NoNode, seen |-> {}, stayed |-> {}]

Init == unr = U!init_unrhdr /\ tree = {} /\ live = TRUE /\ iter = NoIter

\* idr_alloc(): no id left and no memory are both -ENOMEM and change nothing.
IdrAlloc ==
    LET r == U!alloc_unrl(unr) IN
    /\ live /\ r.id # -1
    /\ unr' = U!clean_unrhdrl(r.uh)
    /\ tree' = tree \cup {r.id}
    /\ UNCHANGED <<live, iter>>

\* What a loop lets its own body remove: idr_for_each() has read the links of
\* the current node before the callback, and it keeps a pointer to the next.
Removable == CASE iter.kind = "none"  -> tree
               [] iter.kind = "each"  -> tree \cap {iter.p}
               [] iter.kind = "entry" -> tree

\* idr_remove(): free_unr() first, then the node.
IdrRemove(id) ==
    /\ live /\ id \in Removable
    /\ unr' = U!clean_unrhdrl(U!free_unrl(unr, id))
    /\ tree' = tree \ {id}
    /\ iter' = [iter EXCEPT !.stayed = @ \ {id}]
    /\ UNCHANGED live

\* Wrong: the loop keeps the current node and takes its successor afterwards.
SavedCurrent(p) == p
\* The node idr_for_each() keeps across the callback.
Saved(p) == After(p)

Visit(kind, p, seen, stayed) ==
    iter' = IF p = NoNode THEN NoIter
            ELSE [kind |-> kind, p |-> p, seen |-> seen \cup {p}, stayed |-> stayed,
                  next |-> IF kind = "each" THEN Saved(p) ELSE NoNode]

\* idr_for_each(): the first node; then, the callback having returned 0, the saved one.
ForEachStart == /\ live /\ iter.kind = "none" /\ tree # {}
                /\ Visit("each", First(tree), {}, tree)
                /\ UNCHANGED <<unr, tree, live>>
ForEachNext  == /\ iter.kind = "each"
                /\ Visit("each", iter.next, iter.seen, iter.stayed)
                /\ UNCHANGED <<unr, tree, live>>

\* idr_get_next(): the entry with that id, or the nearest one after it.
Nearest(id) == IF id \in tree THEN id ELSE After(id)

\* idr_for_each_entry(): id = 0, and id + 1 after each body.
EntryStart == /\ live /\ iter.kind = "none" /\ tree # {}
              /\ Visit("entry", Nearest(0), {}, tree)
              /\ UNCHANGED <<unr, tree, live>>
EntryNext  == /\ iter.kind = "entry"
              /\ Visit("entry", Nearest(iter.p + 1), iter.seen, iter.stayed)
              /\ UNCHANGED <<unr, tree, live>>

\* The callback returned non-zero, or the body left the loop.
Break == /\ iter.kind # "none"
         /\ iter' = NoIter
         /\ UNCHANGED <<unr, tree, live>>

\* idr_destroy() frees the nodes; the header is set up again by idr_init_base().
IdrDestroy == /\ live /\ iter.kind = "none"
              /\ tree' = {} /\ live' = FALSE
              /\ UNCHANGED <<unr, iter>>
IdrInitBase == /\ ~live
               /\ unr' = U!init_unrhdr /\ live' = TRUE
               /\ UNCHANGED <<tree, iter>>

Next == \/ IdrAlloc \/ \E id \in tree : IdrRemove(id)
        \/ ForEachStart \/ ForEachNext \/ EntryStart \/ EntryNext \/ Break
        \/ IdrDestroy \/ IdrInitBase

Spec == Init /\ [][Next]_vars
-----------------------------------------------------------------------------
\* The ids with an entry are those the allocator counts as allocated, so an
\* id is never handed out twice and none is lost.
IdsMatch == live => U!Allocated = tree /\ unr.busy = Cardinality(tree)

\* A loop never keeps a pointer to a freed node across its callback, which may
\* remove the current entry and allocate others.
CursorLive == iter.kind = "each" => iter.next \in tree \cup {NoNode}

\* An entry that was in the map when a loop began and was never removed is
\* visited before the loop moves past its id (idr_for_each() and
\* idr_for_each_entry(), whatever their body allocates and removes).
VisitsStayed ==
    iter.kind # "none" =>
        \A id \in iter.stayed :
            id <= iter.p \/ (iter.kind = "each" /\ (iter.next = NoNode \/ id < iter.next))
                => id \in iter.seen
=============================================================================
