----------------------------- MODULE MCLibrary -----------------------------
(***************************************************************************)
(* An instance of the support library under the workqueue, one component   *)
(* at a time: `part` is the one that a behaviour is about, and the others  *)
(* stay as they were created.  To Library's components come the sequential *)
(* ones: numbers, maps, trees and the sort.                                *)
(***************************************************************************)
EXTENDS Library
CONSTANTS thread1, thread2, thread3, b1, b2, UnrHigh, UnrBits, IdrHigh, IdrBits, AvlNodes, RbNodes, SortLen

VARIABLES part,
  uh, owned,                                \* Unr
  unr, ids, live, iter,                     \* Idr
  tree, cookie, freed,                      \* Avl
  rb,                                       \* RbTree
  input, list, pending, merged, sortpc      \* ListSort

U == INSTANCE Unr WITH Low <- 1, High <- UnrHigh, NBITS <- UnrBits
I == INSTANCE Idr WITH tree <- ids, Low <- 1, High <- IdrHigh, NBITS <- IdrBits
A == INSTANCE Avl WITH MaxNodes <- AvlNodes
R == INSTANCE RbTree WITH MaxNodes <- RbNodes
S == INSTANCE ListSort WITH Key <- {1, 2}, MaxLen <- SortLen, count <- merged, pc <- sortpc

kVars == <<state, refcount, allocated, stop, exited, tpc, timed, spc>>
bVars == <<word, bucket, sem, wpc, on, waker, intr>>
eVars == <<event, waking, lock, epc, timeout, left, until, slept, now>>
lVars == <<count, locker, holder, lpc>>
mVars == <<mutex, owner, mpc>>
tVars == <<tasks, shutdown, qlock, rpc, runs, dpc>>
uVars == <<uh, owned>>
iVars == <<unr, ids, live, iter>>
aVars == <<tree, cookie, freed>>
sVars == <<input, list, pending, merged, sortpc>>
qVars == <<all_timers, expires, active_node, linked, clock, thread, call, waiters, qmutex>>

Parts == {"completion", "kthread", "waitbit", "waitqueue", "lockref", "safemutex", "threadpool",
          "unr", "idr", "avl", "rbtree", "sort", "timers", "callers"}

\* Where no sort is looked at, its list is empty.
NoSort == input = <<>> /\ list = <<>> /\ pending = <<>> /\ merged = 0 /\ sortpc = "rounds"

AllInit == /\ part \in Parts
           /\ Init /\ K!Init /\ B!Init /\ E!Init /\ L!Init /\ M!Init /\ T!Init
           /\ U!Init /\ I!Init /\ A!Init /\ R!Init
           /\ Q!Init
           /\ IF part = "sort" THEN S!Init ELSE NoSort

(* One part moves, and the others do not.                                  *)
Only(p, Step) ==
  /\ part = p /\ Step /\ UNCHANGED part
  /\ IF p = "completion" THEN TRUE ELSE UNCHANGED vars
  /\ IF p = "kthread" THEN TRUE ELSE UNCHANGED kVars
  /\ IF p = "waitbit" THEN TRUE ELSE UNCHANGED bVars
  /\ IF p = "waitqueue" THEN TRUE ELSE UNCHANGED eVars
  /\ IF p = "lockref" THEN TRUE ELSE UNCHANGED lVars
  /\ IF p = "safemutex" THEN TRUE ELSE UNCHANGED mVars
  /\ IF p = "threadpool" THEN TRUE ELSE UNCHANGED tVars
  /\ IF p = "unr" THEN TRUE ELSE UNCHANGED uVars
  /\ IF p = "idr" THEN TRUE ELSE UNCHANGED iVars
  /\ IF p = "avl" THEN TRUE ELSE UNCHANGED aVars
  /\ IF p = "rbtree" THEN TRUE ELSE UNCHANGED rb
  /\ IF p = "sort" THEN TRUE ELSE UNCHANGED sVars
  /\ IF p \in {"timers", "callers"} THEN TRUE ELSE UNCHANGED qVars

AllNext == \/ Only("completion", Next) \/ Only("kthread", K!Next) \/ Only("waitbit", B!Next)
           \/ Only("waitqueue", E!Next) \/ Only("lockref", L!Next) \/ Only("safemutex", M!Next)
           \/ Only("threadpool", T!Next) \/ Only("unr", U!Next) \/ Only("idr", I!Next)
           \/ Only("avl", A!Next) \/ Only("rbtree", R!Next) \/ Only("sort", S!Next)
           \/ Only("timers", Q!Next /\ call'[thread2] = call[thread2])    \* two timers, one caller
           \/ Only("callers", Q!Next /\ expires'[b2] = expires[b2])  \* one timer, two callers

allvars == <<part, vars, kVars, bVars, eVars, lVars, mVars, tVars,
             uVars, iVars, aVars, rb, sVars, qVars>>

(* Time passes, a handler returns, and who waits for the timers' mutex,    *)
(* which the others take again and again, gets it.                         *)
Timed == part \in {"timers", "callers"}
TimerFairness == /\ WF_qVars(Timed /\ Q!Tick) /\ SF_qVars(Timed /\ Q!ThreadStep)
                 /\ \A c \in Waiter \cup {"handler"} : SF_qVars(Timed /\ Q!GoesOn(c))

(* The fair steps of a part that does not move are disabled, or stated (as *)
(* the timers' are, whose thread goes on by itself) for the behaviours     *)
(* that are about it: each condition speaks of the part that moves.        *)
AllSpec == /\ AllInit /\ [][AllNext]_allvars
           /\ \A t \in Thread : WF_vars(Resume(t))
           /\ K!Fairness /\ B!Fairness /\ T!Fairness /\ TimerFairness
-------------------------------------------------------------------------------
(* Properties: those of the parts, which are stated where they are defined.*)

(* Blocked threads get the completions left; kthread_stop(), a wait for a  *)
(* bit that stays clear and kthread_pool_destroy() return; a timer expires *)
(* that is not overtaken for ever, and del_timer_sync() of one that is not *)
(* restarted for ever returns (Completion, Kthread, WaitBit, ThreadPool,   *)
(* Timer).  One waiter, timer and caller stand for the others, which are   *)
(* like them.                                                              *)
EveryoneReturns == /\ ServesPermits /\ K!StopReturns /\ B!WaitEnds(thread1) /\ T!DestroyReturns
                   /\ Q!Fires(b1) /\ Q!SyncReturns(thread1)

(* The header of a number allocator describes exactly the items handed out *)
(* and its own memory, no assertion of unr.c fails, and alloc_unr() would  *)
(* hand out the lowest free number (Unr).                                  *)
AllocatedExact == U!AllocatedExact /\ U!MemoryExact /\ U!AssertsHold /\ U!LowestFree
(* The ids of a map are those its allocator counts; a loop over the map    *)
(* visits what stays in it and follows no freed node (Idr).                *)
LoopsVisit == I!IdsMatch /\ I!CursorLive /\ I!VisitsStayed
(* An AVL tree is balanced and in order (Avl).                             *)
Balanced == A!Balanced /\ A!Sorted
(* Destroying an AVL tree frees each node once (Avl).                      *)
DestroysOnce == A!DestroysOnce
(* A red-black tree is one, its augmented values are right, and its walks  *)
(* visit every node once, in their order (RbTree).                         *)
RedBlack == R!RedBlack /\ R!Augmented /\ R!Iterates
(* The sort is stable, and its sublists and merges are as the comment      *)
(* promises (ListSort).                                                    *)
StableSort == S!StableSort /\ S!PendingShape /\ S!BalancedMerges
=============================================================================
