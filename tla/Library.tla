------------------------------ MODULE Library ------------------------------
(***************************************************************************)
(* The parts of the support library that several threads use at a time,    *)
(* next to each other: completions, kernel threads, bit waits, wait queues,*)
(* locked reference counts, the owner of a mutex, the thread pool and the  *)
(* timer queue.  They share no state in the code either: each is an object *)
(* of its own.  Completion is extended and the others instantiated.        *)
(***************************************************************************)
EXTENDS Completion
CONSTANTS
  Waiter,             \* the threads that wait for bits and events, and use timers
  Bit,                \* the bits of a bucket of wait_bit.c
  Reference,          \* the references a lockref can have at a time
  Task, NoTask,       \* the tasks of a thread pool
  Timer,              \* the timers of a queue
  None,               \* no thread, no timer
  MaxNow, MaxClock,   \* bounds on the jiffies of a wait queue and of a timer queue
  MaxInterrupts       \* bound on the interrupts of a bit wait

ASSUME LibraryAssumption ==
  /\ None \notin Thread \cup Waiter \cup Timer \cup {"handler"}
  /\ "handler" \notin Waiter
  /\ IsFiniteSet(Reference) /\ Reference # {} /\ Thread # {}
  /\ Bit # {} /\ MaxNow \in Nat /\ MaxClock \in Nat /\ MaxInterrupts \in Nat

VARIABLES
  state, refcount, allocated, stop, exited, tpc, timed, spc,                       \* Kthread
  word, bucket, sem, wpc, on, waker, intr,                                         \* WaitBit
  event, waking, lock, epc, timeout, left, until, slept, now,                      \* WaitQueue
  count, locker, holder, lpc,                                                      \* Lockref
  mutex, owner, mpc,                                                               \* SafeMutex
  tasks, shutdown, qlock, rpc, runs, dpc,                                          \* ThreadPool
  all_timers, expires, active_node, linked, clock, thread, call, waiters, qmutex   \* Timer

K == INSTANCE Kthread
B == INSTANCE WaitBit
E == INSTANCE WaitQueue WITH Sleeper <- Waiter
L == INSTANCE Lockref WITH User <- Thread, Nobody <- None
M == INSTANCE SafeMutex WITH Self <- Thread, Nobody <- None
T == INSTANCE ThreadPool WITH Runner <- Thread
Q == INSTANCE Timer WITH Caller <- Waiter, pending <- linked, mutex <- qmutex
-------------------------------------------------------------------------------
(* Properties: those of the parts, which are stated where they are defined.*)

(* kthread_stop() and the thread both keep the task, and the count of a    *)
(* lockref is the number of its references (Kthread, Lockref).             *)
ReferencesHeld == K!TaskHeld /\ L!CountIsReferences
(* No waiter of a bit or of a wait queue sleeps unlinked, or with its      *)
(* wakeup past (WaitBit, WaitQueue).                                       *)
NoSleeperLost == B!SleeperIsLinked /\ E!SleeperWillWake
(* Spurious wakeups do not prolong a timed wait (WaitQueue).               *)
NoLonger == E!NoLonger
(* owner is the thread between lock and unlock (SafeMutex).                *)
OwnerHolds == M!OwnerHolds
(* Tasks of a thread pool have threads that are awake (ThreadPool).        *)
TasksHaveThreads == T!TasksHaveThreads
(* The timers are in order, the thread sleeps no longer than to the first  *)
(* one, and who waits for a handler waits for one that runs (Timer).       *)
TimersInOrder == Q!TypeOK /\ Q!Sorted /\ Q!InTime /\ Q!WaitersHaveHandler
(* The timer queue is what its callers may rely on (Timer).                *)
ImplementsTimers == Q!ImplementsTimers
=============================================================================
