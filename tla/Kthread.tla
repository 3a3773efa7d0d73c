------------------------------ MODULE Kthread ------------------------------
(***************************************************************************)
(* A kernel-style thread of task_struct.c: creation, the sleep that        *)
(* wake_up_process() ends, kthread_stop(), and the task's references.  The *)
(* thread's function is the loop kernel threads use: set the state, look   *)
(* at the condition, task_schedule() or schedule_timeout_interruptible().  *)
(*                                                                         *)
(* A critical section of task->mutex is one step; task->state is also      *)
(* written without it (set_current_state()).                               *)
(***************************************************************************)
EXTENDS Naturals

VARIABLES
  state,      \* task->state: "new", "running", "interruptible"
  refcount,   \* task->refcount; the task is freed when it comes back to 0
  allocated,  \* the task's memory is
  stop,       \* KTHREAD_SHOULD_STOP
  exited,     \* complete_all(&task->exited) was called
  tpc,        \* the thread: "none", "boot", "top", "test", "sched", "timed", "timed2",
              \* "asleep", "exit", "put"
  timed,      \* it sleeps with a timeout
  spc         \* the thread that stops it: "none", "flag", "wake", "wait", "put"

vars == <<state, refcount, allocated, stop, exited, tpc, timed, spc>>

Init == /\ state = "new" /\ refcount = 0 /\ allocated = FALSE /\ stop = FALSE /\ exited = FALSE
        /\ tpc = "none" /\ timed = FALSE /\ spc = "none"

(* kthread_create(): the thread waits for the first wake_up_process().     *)
Create ==
  /\ tpc = "none" /\ spc = "none" /\ ~allocated
  /\ allocated' = TRUE /\ refcount' = 1 /\ state' = "new" /\ tpc' = "boot"
  /\ stop' = FALSE /\ exited' = FALSE
  /\ UNCHANGED <<timed, spc>>

(* wake_up_process(); the signal ends the sleep of Awake.                  *)
WakeUp == state' = "running"

(* Any thread that may use the task wakes it, until it is being stopped.   *)
Waker == /\ allocated /\ spc = "none" /\ tpc # "none"
         /\ WakeUp
         /\ UNCHANGED <<refcount, allocated, stop, exited, tpc, timed, spc>>

ThreadGoto(l) == tpc' = l /\ UNCHANGED <<refcount, allocated, stop, exited, timed, spc>>

Boot == tpc = "boot" /\ state = "running" /\ ThreadGoto("top") /\ UNCHANGED state

(* set_current_state(TASK_INTERRUPTIBLE), without task->mutex.             *)
SetState == tpc = "top" /\ state' = "interruptible" /\ ThreadGoto("test")

(* kthread_should_stop(), or something else to do.                         *)
Test == /\ tpc = "test" /\ UNCHANGED state
        /\ \/ stop /\ ThreadGoto("exit")
           \/ ~stop /\ \E l \in {"sched", "timed"} : ThreadGoto(l)

(* task_schedule()                                                         *)
Schedule ==
  /\ tpc = "sched" /\ UNCHANGED state
  /\ IF state = "running" THEN ThreadGoto("top")
     ELSE /\ tpc' = "asleep" /\ timed' = FALSE
          /\ UNCHANGED <<refcount, allocated, stop, exited, spc>>

(* schedule_timeout_interruptible() sets the state, again without the      *)
(* mutex, and only then locks: a wakeup in the loop's test is overwritten. *)
TimedSet == tpc = "timed" /\ state' = "interruptible" /\ ThreadGoto("timed2")
TimedLock ==
  /\ tpc = "timed2" /\ UNCHANGED state
  /\ IF state = "running" THEN ThreadGoto("top")
     ELSE /\ tpc' = "asleep" /\ timed' = TRUE
          /\ UNCHANGED <<refcount, allocated, stop, exited, spc>>

(* pthread_cond_wait() returns, signalled or not: task_schedule() waits on *)
(* unless the state is running, the timed sleep returns in any case.       *)
Awake ==
  /\ tpc = "asleep" /\ (timed \/ state = "running")
  /\ tpc' = "top" /\ timed' = FALSE
  /\ UNCHANGED <<state, refcount, allocated, stop, exited, spc>>

(* start_routine() after the function: complete_all(), put_task().         *)
Exit == /\ tpc = "exit" /\ exited' = TRUE /\ tpc' = "put"
        /\ UNCHANGED <<state, refcount, allocated, stop, timed, spc>>

Drop == refcount' = refcount - 1 /\ allocated' = (allocated /\ refcount > 1)

PutTask == /\ tpc = "put" /\ Drop /\ tpc' = "none"
           /\ UNCHANGED <<state, stop, exited, timed, spc>>

(* kthread_stop(), by a thread that knows the task is there.               *)
StopGetNothing ==   \* wrong: no reference of its own
  /\ spc = "none" /\ allocated /\ tpc # "none" /\ spc' = "flag"
  /\ UNCHANGED <<state, refcount, allocated, stop, exited, tpc, timed>>
StopGet ==
  /\ spc = "none" /\ allocated /\ tpc # "none"
  /\ refcount' = refcount + 1 /\ spc' = "flag"
  /\ UNCHANGED <<state, allocated, stop, exited, tpc, timed>>
StopFlag == /\ spc = "flag" /\ stop' = TRUE /\ spc' = "wake"
            /\ UNCHANGED <<state, refcount, allocated, exited, tpc, timed>>
StopWake == /\ spc = "wake" /\ WakeUp /\ spc' = "wait"
            /\ UNCHANGED <<refcount, allocated, stop, exited, tpc, timed>>
StopWait == /\ spc = "wait" /\ exited /\ spc' = "put"
            /\ UNCHANGED <<state, refcount, allocated, stop, exited, tpc, timed>>
StopPut == /\ spc = "put" /\ Drop /\ spc' = "none"
           /\ UNCHANGED <<state, stop, exited, tpc, timed>>

ThreadStep == Boot \/ SetState \/ Test \/ Schedule \/ TimedSet \/ TimedLock \/ Awake \/ Exit \/ PutTask
StopStep == StopFlag \/ StopWake \/ StopWait \/ StopPut
Next == Create \/ Waker \/ ThreadStep \/ StopGet \/ StopStep
Spec == Init /\ [][Next]_vars
Fairness == WF_vars(ThreadStep) /\ WF_vars(StopStep)
-------------------------------------------------------------------------------
(* Properties                                                              *)

(* The task is there while the thread or kthread_stop() uses it, and one   *)
(* reference for each of them keeps it; nobody is left when it is freed.   *)
TaskHeld ==
  /\ (tpc # "none" \/ spc # "none") => allocated
  /\ refcount = (IF tpc # "none" THEN 1 ELSE 0) + (IF spc # "none" THEN 1 ELSE 0)
  /\ allocated <=> refcount > 0

(* kthread_stop() returns: its wakeup is not lost between the thread's     *)
(* test and its sleep.                                                     *)
StopReturns == spc # "none" ~> spc = "none"
=============================================================================
