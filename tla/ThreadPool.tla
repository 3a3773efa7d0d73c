----------------------------- MODULE ThreadPool -----------------------------
(***************************************************************************)
(* thread_pool.c: threads that take tasks from a list, kthread_pool_add(), *)
(* kthread_pool_flush() and kthread_pool_destroy().                        *)
(*                                                                         *)
(* Granularity.  Between the test of the list and pthread_cond_wait() a    *)
(* thread holds q_lock, and pool->shutdown is written without it: the test *)
(* and the wait are two steps.  The other critical sections are one step.  *)
(***************************************************************************)
EXTENDS Naturals, Sequences, FiniteSets

CONSTANTS Runner, Task, NoTask

VARIABLES
  tasks,      \* pool->tasks
  shutdown,   \* pool->shutdown
  qlock,      \* the threads that hold q_lock between two steps: at most one
  rpc,        \* [Runner -> "none", "top", "wait", "asleep", "run", "exit"]
  runs,       \* [Runner -> the task whose function it runs, or NoTask]
  dpc         \* the caller: "none", "use", "flush", "broadcast", "join", "gone"

vars == <<tasks, shutdown, qlock, rpc, runs, dpc>>

Init == /\ tasks = <<>> /\ shutdown = FALSE /\ qlock = {} /\ dpc = "none"
        /\ rpc = [r \in Runner |-> "none"] /\ runs = [r \in Runner |-> NoTask]

Goto(r, l) == rpc' = [rpc EXCEPT ![r] = l]
Sleepers == {r \in Runner : rpc[r] = "asleep"}
Wake(R) == rpc' = [r \in Runner |-> IF r \in R THEN "top" ELSE rpc[r]]

(* create_pool()                                                           *)
Create == /\ dpc = "none" /\ dpc' = "use" /\ rpc' = [r \in Runner |-> "top"]
          /\ UNCHANGED <<tasks, shutdown, qlock, runs>>

(* thread_routine(): the list is looked at again after every wait.         *)
Test(r) ==
  /\ rpc[r] = "top" /\ qlock = {}
  /\ \/ /\ tasks = <<>> /\ ~shutdown
        /\ Goto(r, "wait") /\ qlock' = {r} /\ UNCHANGED <<tasks, runs>>
     \/ /\ shutdown
        /\ Goto(r, "exit") /\ UNCHANGED <<tasks, runs, qlock>>
     \/ /\ tasks # <<>> /\ ~shutdown
        /\ tasks' = Tail(tasks) /\ runs' = [runs EXCEPT ![r] = Head(tasks)]
        /\ Goto(r, "run") /\ UNCHANGED qlock
  /\ UNCHANGED <<shutdown, dpc>>

CondWait(r) == /\ rpc[r] = "wait" /\ Goto(r, "asleep") /\ qlock' = {}
               /\ UNCHANGED <<tasks, shutdown, runs, dpc>>

Spurious(r) == /\ r \in Sleepers /\ Wake({r}) /\ UNCHANGED <<tasks, shutdown, qlock, runs, dpc>>

Finish(r) == /\ rpc[r] = "run" /\ Goto(r, "top") /\ runs' = [runs EXCEPT ![r] = NoTask]
             /\ UNCHANGED <<tasks, shutdown, qlock, dpc>>

Signal == IF Sleepers = {} THEN UNCHANGED rpc ELSE \E r \in Sleepers : Wake({r})

(* kthread_pool_add(), of a task that is on no list; its function may      *)
(* still be running.                                                       *)
AddFirst(x) ==   \* wrong: it signals only when the list was empty
  /\ dpc = "use" /\ qlock = {} /\ \A i \in DOMAIN tasks : tasks[i] # x
  /\ tasks' = Append(tasks, x)
  /\ IF tasks = <<>> THEN Signal ELSE UNCHANGED rpc
  /\ UNCHANGED <<shutdown, qlock, runs, dpc>>
Add(x) ==
  /\ dpc = "use" /\ qlock = {} /\ \A i \in DOMAIN tasks : tasks[i] # x
  /\ tasks' = Append(tasks, x) /\ Signal
  /\ UNCHANGED <<shutdown, qlock, runs, dpc>>

StartFlush == /\ dpc = "use" /\ ~shutdown /\ dpc' = "flush"
              /\ UNCHANGED <<tasks, shutdown, qlock, rpc, runs>>
Flush ==
  /\ dpc = "flush" /\ qlock = {}
  /\ \/ tasks = <<>> /\ dpc' = "use" /\ UNCHANGED rpc
     \/ tasks # <<>> /\ Wake(Sleepers) /\ UNCHANGED dpc
  /\ UNCHANGED <<tasks, shutdown, qlock, runs>>

(* kthread_pool_destroy()                                                  *)
Shutdown == /\ dpc = "use" /\ shutdown' = TRUE /\ dpc' = "broadcast"
            /\ UNCHANGED <<tasks, qlock, rpc, runs>>
Broadcast == /\ dpc = "broadcast" /\ qlock = {} /\ Wake(Sleepers) /\ dpc' = "join"
             /\ UNCHANGED <<tasks, shutdown, qlock, runs>>
Join == /\ dpc = "join" /\ \A r \in Runner : rpc[r] = "exit"
        /\ dpc' = "gone" /\ tasks' = <<>>
        /\ UNCHANGED <<shutdown, qlock, rpc, runs>>

RunnerStep(r) == Test(r) \/ CondWait(r) \/ Finish(r)
CallerStep == Flush \/ Broadcast \/ Join
Next == \/ Create \/ StartFlush \/ Shutdown \/ CallerStep
        \/ \E x \in Task : Add(x)
        \/ \E r \in Runner : RunnerStep(r) \/ Spurious(r)
Spec == Init /\ [][Next]_vars
Fairness == WF_vars(CallerStep) /\ \A r \in Runner : WF_vars(RunnerStep(r))
-------------------------------------------------------------------------------
(* Properties                                                              *)

(* While a thread sleeps, each task of the list has a thread of its own    *)
(* that is awake, so that no signal of kthread_pool_add() is lost between  *)
(* a thread that finishes and one that goes to sleep.                      *)
TasksHaveThreads == Sleepers # {} => Len(tasks) <= Cardinality(Runner \ Sleepers)

(* kthread_pool_destroy() returns, although shutdown is set without the    *)
(* lock while a thread is about to sleep.                                  *)
DestroyReturns == shutdown ~> dpc = "gone"
=============================================================================
