# Verification of kernel_utils

`kernel_utils` is a C library that brings the work-horses of the Linux kernel to
user space: concurrency-managed workqueues (`workqueue.c`), timers (`timer.c`),
kernel-style threads (`task_struct.c`), completions, wait queues, reference
counts, id allocators, trees and lists. The workqueue is its core: it is the
longest file written for the library, everything else that runs concurrently
serves it, and its correctness is a matter of interleavings that unit tests
hardly reach (the repository has none beyond a `main()` under `#ifdef` in some
files).

This directory holds TLA+ models of that core and of the library around it, the
TLC runs that check them and the TLAPS proofs about them. Run `tlc -config <run>.cfg <module>` for a run and
`tlapm <module>.tla` for a proof module.

Contents: [1 the system](#1-the-system) · [2 the modules](#2-the-modules) ·
[3 the runs](#3-the-runs) · [4 fairness](#4-fairness) ·
[5 disagreements](#5-disagreements-between-code-and-comments) ·
[6 proofs](#6-proofs) · [7 not modelled](#7-what-is-not-modelled) ·
[8 plan](#8-plan)

## 1 The system

### 1.1 Components

| component | source | state | operations |
|---|---|---|---|
| worker pool | `workqueue.c` (`worker_pool`, `worker`) | worklist, LIFO idle list, busy hash, manager role, counters, idle timer | `__queue_work`, `worker_thread`, `process_one_work`, `manage_workers`, `create_worker`, `destroy_worker`, `idle_worker_timeout` |
| pool_workqueue (pwq) | `workqueue.c` (`pool_workqueue`) | `delayed_works`, `nr_active`, `nr_in_flight[]`, colours, reference count | `pwq_activate_delayed_work`, `pwq_dec_nr_in_flight`, `get_pwq`, `put_pwq` |
| work item | `workqueue.h` (`work_struct`, `delayed_work`) | the data word: flags, and a pwq or a pool id; the list link; the timer | `queue_work`, `queue_delayed_work`, `flush_work`, `cancel_work_sync`, ... |
| workqueue flushing | `workqueue.c` (`workqueue_struct`) | `work_color`, `flush_color`, first flusher, two flusher queues, count of pwqs | `flush_workqueue`, `drain_workqueue` |
| workqueue and pool lifetime | `workqueue.c` | pwq and pool reference counts, pool hash, release list, id map | `alloc_workqueue`, `apply_workqueue_attrs`, `get_unbound_pool`, `put_unbound_pool`, `release_work_thread`, `destroy_workqueue` |
| timers | `timer.c` | per queue: sorted list of timers, `active_node`, two condition variables, a thread | `mod_timer`, `add_timer`, `del_timer`, `del_timer_sync`, the queue's thread |
| threads | `task_struct.c` | `task->state`, stop flag, exit completion, reference count | `kthread_create`, `kthread_run`, `kthread_stop`, `wake_up_process`, `task_schedule` |
| completions | `completion.c` | `done`, a condition variable | `wait_for_completion[_timeout]`, `try_wait...`, `complete`, `complete_all`, `reinit` |
| wait queues, bit waits | `wait.h`, `wait_bit.c` | hash of waiter lists, a semaphore per waiter | `wait_on_bit`, `wake_up_bit` |
| locked reference count | `lockref.c` | count and lock | `get`, `get_not_dead`, `put_or_lock`, `put_not_zero`, `mark_dead` |
| thread pool | `thread_pool.c` | task list, condition variable, `shutdown` | `create_pool`, `kthread_pool_add`, `_flush`, `_destroy` |
| unit numbers, id map | `unr.c`, `idr.c` | run-length list of used and free numbers; a tree of ids | `alloc_unr`, `alloc_unr_specific`, `free_unr`; `idr_alloc`, `idr_remove`, `idr_find` |
| trees, lists, sorting | `avl.c`, `rbtree.c`, `llist.h`, `list_sort.c` | the structure | insert, remove, splice, sort |
| the rest | hashing, time, memory, log, strings, random, bit operations | none, or a handle | pure functions and wrappers |

### 1.2 How they interact

```
 client threads                                     timer threads
   queue_work ----------------+        +-- delayed_work_timer_fn  (timer.c)
   queue_delayed_work -> timer|        |   idle_worker_timeout
   flush_work, cancel_*       v        v
        |            wq->mutex: __queue_work -> pwq (max_active, colour)
        |                           |
        +------> pool->lock: worklist / delayed_works / worker->scheduled
                                    |        wake_up_process(first idle)
                                    v
                              worker_thread (task_struct.c)  --- manager creates workers
                                    |
                   user function, or wq_barrier_func -> completion -> flusher
                                    |
                   pwq_dec_nr_in_flight -> first_flusher->done -> flush_workqueue
```

Two locks matter. `pool->lock` protects the pool, its workers and the lists and
counters of its pwqs. `wq->mutex` protects the colours and the list of pwqs, and
(unlike in Linux) is also taken by `__queue_work`. PENDING, a bit of the data
word, is passed between owners without a common lock.

### 1.3 What is hard, and what makes each part correct

* **Worker pool.** Workers, clients, the manager (who works without the lock) and
  the idle timer change the same lists. Nobody polls: a worker is woken exactly
  when a work is inserted, and each worker wakes the next before it runs a work.
  Correct means: no item runs twice at a time, each queueing is executed once,
  work that waits has somebody on the way, there is always a spare worker, the
  counters are exact (they decide who wakes whom), and a freed `max_active` slot
  is handed on.
* **Work item operations.** The timer, `queue_work`, flushers and cancelers race
  for PENDING; a barrier must follow its target through activation, collision and
  chains; a canceler may steal a delayed work from under its barriers. Correct
  means: one owner of PENDING, a flush that waited did wait, and nobody sleeps
  for a wakeup that does not come.
* **Flush colours.** Flushers share a small colour space and hand on the role of
  the first flusher, while workers return without `wq->mutex`. Correct means: a
  flush returns only after what was in flight when it started, always returns,
  and no worker touches the frame of a flush that is gone.
* **Completions.** A counter and a condition variable, with timed waits and an
  unlocked read in `try_wait`. Correct means: counted permits, and no thread
  asleep on a permit that nobody is coming for.
* **Lifetime.** A pool is found by attributes or created, counted by its pwqs,
  and torn down by a thread of its own while workers, manager and timer still
  run. Correct means: no step after the free, and the teardown ends.
* **Timers, threads, waits.** A handler that re-arms its timer or is deleted
  while it runs, a stop that races with the exit, a waiter whose link is on its
  own stack, a timed wait that is woken too early. Correct means: an armed timer
  expires, no call waits for what has already happened, and nothing is freed
  under its user.
* **Data structures.** Sequential, but the hazards are long histories: a run of
  numbers that is split, merged and turned into a bitmap, a rebalancing that goes
  up to the root, a loop whose body changes the map. Correct means: the structure
  represents the right set, in the right shape, after any sequence of calls.

Each of these is a list of concrete places in `PROJECT.json`, "hazards".

## 2 The modules

| module | models | kind |
|---|---|---|
| `WorkerPool` | one live pool: workers, manager, idle timer, worklist, pwqs, `queue_work`, the barriers of `flush_work` | component |
| `WorkQueue` | `EXTENDS WorkerPool` with delayed works, `flush_work`, the cancel functions | composition |
| `OrderedQueue` | what `alloc_ordered_workqueue` promises | abstract |
| `FlushColors` | `flush_workqueue` and `drain_workqueue` of one workqueue | component |
| `PwqLife` | workqueues, pwqs and pools: creation, attributes, references, release, teardown | component |
| `Timer` | one timer queue of `timer.c` | component |
| `Timers` | what a timer queue promises | abstract |
| `Completion` | `completion.c` | component |
| `Permits` | what a completion promises | abstract |
| `Kthread` | `task_struct.c` | component |
| `WaitBit`, `WaitQueue` | `wait_bit.c`; `wait.h` and `wait.c` | components |
| `Lockref`, `SafeMutex` | `lockref.c`; `safe_mutex.h` | components |
| `ThreadPool` | `thread_pool.c` | component |
| `Unr`, `Idr` | `unr.c`; `idr.c` on `Unr` | component, composition |
| `Avl`, `RbTree`, `ListSort` | `avl.c`; `rbtree.c`, `rbtree.h`, `rbtree_augmented.h`; `list_sort.c` | algorithms |
| `Library` | `EXTENDS Completion` with instances of the other concurrent components of the support library, side by side | composition |
| `MCWorkerPool`, `MCWorkQueue`, `MCScenes`, `MCOrdered`, `MCFlushColors`, `MCPwqLife`, `MCLibrary` | instances for TLC | |
| `ListLemmas`; `WorkerPoolProofs`, `PoolBooksProofs`, `WorkQueueProofs`, `FlushColorsProofs`, `PwqLifeProofs`, `CompletionProofs`, `LibraryProofs` | lemmas about lists; theorems | proofs |

`PROJECT.json`, "map", gives the source lines of each definition.

A definition whose comment begins with "Wrong:" (or that carries `\* wrong`) is not
part of a model. It is a plausible bug of the definition next to it, used to see
that a property notices the difference; "mutants" in `PROJECT.json` says which.

### 2.1 WorkerPool

State: the fields of `worker_pool`, `worker`, `pool_workqueue` and
`work_struct.data` under the source's names. A list is a sequence; the busy hash
is `current_work`; `POOL_MANAGER_ACTIVE` is `manager # None`; `pc[w]` is the
place of worker `w` in `worker_thread()`.

Granularity. All of this state is under `pool->lock`, so a critical section of a
client is one step, enabled when the lock is free. A worker keeps the lock over
several steps (`lock = w`), because the walk from `woke_up` through the loop is
too much for one readable step; the other threads cannot see the states in
between. What happens without the lock is a step of its own: `test_and_set_bit`
of PENDING (`SetPending`), the manager's creation of a thread and its unlocked
`need_to_create_worker()` (`CreateWorker`, `CreateFails`), the user function
(`RunFunc`), the gap between a timer's expiry and its handler (`TimerExpire`).

| code | action |
|---|---|
| `util_queue_work` / `__queue_work` with `insert_work` | `SetPending`, `QueueWork` |
| `start_flush_work` under the lock, `insert_wq_barrier` | `FlushWork` |
| `worker_thread`: woke_up, recheck, sleep | `WokeUp`, `Dying`, `Recheck`, `Sleep` |
| `manage_workers`, `maybe_create_worker`, `create_worker` | `Recheck`, `CreateWorker`, `CreateFails`, `Relock` |
| loop body, `move_linked_works` | `Next1`, `MoveLinked` |
| `process_one_work` before the function | `Claim`, `Defer` (collision) |
| the function and what follows, `pwq_dec_nr_in_flight` | `RunFunc`, `Return` |
| `process_scheduled_works`, loop condition | `ProcessScheduled`, `LoopEnd` |
| `idle_worker_timeout`, `destroy_worker` | `TimerExpire`, `IdleWorkerTimeout` |

Four things deserve a word.

* The worker creates a thread that enters the idle list "by proxy": the new
  identity is on the list before it ever ran. `CreateWorker` does both.
* Barriers are part of this module because they are what links items into
  chains, so that chains, collisions of chains and their activation are in the
  proofs. `FlushWork` lets any thread flush that does not wait for its barrier; which
  threads come that far is `WorkQueue`'s matter.
* `Next1` and `MoveLinked` need a non-empty worklist; the code takes the first
  entry unchecked. Deadlock checking is on, so a worker that came there with an
  empty worklist would be reported.
* `pool->id` is never stored (section 5), so a work that left the queue names no
  pool: `PoolId` is -1, and `get_work_pool` of an off-queue work is NULL.

Time is abstract: a timer may expire whenever it is pending, and a worker at the
cold end of the idle list may or may not have been idle for long.

### 2.2 WorkQueue

The callers are named by the `wq_barrier` on their stack, so `Barrier` is the set
of callers and of barrier items. `cpc`, `op`, `tgt` are where a caller is, in which
function, for which work. A caller may use every function of `Ops`, any number of times.

`try_to_grab_pending` is five steps, as its reads are not under one lock: `DelTimer`,
`TestAndSet`, `ReadPool`, `Steal`, `Failed`. `start_flush_work` reads the pool
(`FlushRead`), locks and looks again (`FlushLock`, which uses the pool's
`InsertBarrier`). A barrier is placed behind its target (`BarrierBehindTarget`: on
the worklist, in `delayed_works` or on a scheduled list, wherever the target is)
or first on the executing worker's scheduled list (`BarrierAtWorker`). A timer is a pending bit and a handler in one
of three places (`tmr`, `firing`), which is what `timer.c` offers to its users.

`awaits` is a history variable: what became of the instance of the work a barrier
was inserted for. It is needed to say what a flush waited for, since the item may
be queued again at once.

### 2.3 FlushColors

One workqueue with several pwqs; a member of `Work` is one instance of a work,
from its `queue_work` to its return. `wq->mutex` is a variable, held over several
steps, because workers return in between with only their pool's lock; in
particular `flush_workqueue_prep_pwqs()` is one step per pwq (`PrepPwq`). `prep`
is that function's frame, `next` the cascade's local, `fpc` the place of a
flusher; `yes` and `no` in `prep` say where the caller goes on. `owed` is a
history variable: what was in flight when a flush took the mutex.

`nr_in_flight[]` is not kept as a counter: it is the number of works in flight
with that pwq and colour, which `pwq_inc/dec` keep equal by construction.
`max_active`, pools and workers are left to the other modules: a queued work is
executed and returns.

### 2.4 Completion, Permits

A critical section is one step and ends where the thread enters the condition
variable's queue (`sleeping`). Every thread can be chosen by a signal; waits end
spuriously or by timeout at any time. `reinit_completion()` writes `done` without
the lock; it is modelled as its documentation and callers want it, with no thread
in a call.

### 2.5 PwqLife

State: the fields of `worker_pool`, `pool_workqueue` and `workqueue_struct` that
decide about life and death. What workers do is `WorkerPool`'s matter, so a pool
counts them: idle, dying (off the lists, not yet detached), one that manages, one
per running work. `wq_pool_lock` is a variable, as the release thread keeps it
from `pwq_unbound_release()` to the end of `put_unbound_pool()`; a critical section
of a pool's lock is one step.

| code | action |
|---|---|
| `alloc_workqueue`, `apply_workqueue_attrs`, `get_unbound_pool` | `AllocWorkqueue`, `ApplyAttrs`, `ApplyCleanup` |
| `destroy_workqueue`, `put_pwq_unlocked` | `Destroy`, `DestroyPut`, `DestroyUnlock` |
| `__queue_work` with `get_pwq`; `process_one_work`, `pwq_dec_nr_in_flight` | `QueueWork`; `Execute`, `Return` |
| `manage_workers`, `maybe_create_worker`, `create_worker` | `BecomeManager`, `ManagerCreates`, `ManagerGivesUp`, `ManagerEnds` (which goes back to create when a worker is needed again) |
| `idle_worker_timeout`, `destroy_worker`, `worker_detach_from_pool` | `TimerFires`, `TimerHandler`, `Detach` |
| `pwq_release_thread`, `pwq_unbound_release`, `put_unbound_pool` | `Pop` ... `FreePwq`, one step per critical section and wait |

`destroy_workqueue()` is called for a drained workqueue. `LastPool` is `None`
for the reason given in section 5: after `apply_workqueue_attrs()` a work that
still executes in the old pool can start in the new one.

### 2.6 Timer, Timers

A critical section of `q->mutex` is one step, except that `mod_timer()` is two,
`ModDetach` and `ModAdd`: `del_timer()` reads `timer_pending()` without the mutex and
may see the timer in between. The handler is one more caller, for its own timer.
Both condition variables may wake spuriously. `thread.now` is the clock as the
thread read it before its handlers ran; the code goes on with it, so a wait may
begin `lag` too late and `InTime` allows that much. The clock is bounded, but a timer
may be armed for a time that is past, as `mod_timer()` allows, so arming never has to end.

`Timers` has a set of armed timers, a running handler, who moves which timer in a
`mod_timer()`, and calls that answer, for the timer they are about, whether it was
armed. Its `Miss` is what an unlocked `timer_pending()` makes
of a timer that is only being moved: `del_timer()` (`timer.c:188`) may return 0
and leave it armed. `del_timer_sync()` has no such weakness, since it does not
look before it locks.

### 2.7 Threads, waits, references, locks

* `Kthread`: the body of the thread is the loop that kernel threads use
  (`set_current_state`, test, `task_schedule` or a timed sleep). `task->state`
  is written with and without `task->mutex`, each write a step. A wakeup between
  the test and the sleep leaves the state RUNNING, and the sleep is skipped;
  `schedule_timeout_interruptible()` sets the state again after the test
  (`TimedSet`) and so can overwrite such a wakeup; then only the next wakeup or the
  timeout ends the sleep.
* `WaitBit`: the waiters of one bucket, each with its semaphore. A bit is set and
  cleared without the bucket's lock. A signal may interrupt `sem_wait()` (`Interrupted`),
  and then the waiter may be unlinked with a post that it did not take. This is how a
  call comes to return with its link in the bucket (section 5); what a walk of the list
  does after that is undefined, and the model stops there (`Intact`).
* `WaitQueue`: the condition is changed without the lock and `wake_up()` follows.
  `__wait_jiffies()` reads the clock twice: `CondWait` makes the end of the wait from the
  first reading, and `Relock` what is left (`Remaining`, rounded down to jiffies) from the
  second; the clock may go on between any two of `Relock`, `Test` and `CondWait`, so the
  end of a wait that is woken too early may move on. What does not grow is the time
  slept: `slept`, a history variable, adds up the jiffies of all sleeps of a call.
* `Lockref`: a thread with a reference may take another, one without uses
  `get_not_dead()`; the last reference is put with the lock held until the object
  is marked dead. `util_lockref_get()` counts up from any value, so the module gives it
  only to threads that hold a reference, which is its contract.
* `SafeMutex`: `owner` is written inside, and read from anywhere.
* `ThreadPool`: the test of the list and `pthread_cond_wait()` are two steps with
  `q_lock` held, as `shutdown` is set without it. `flush` returns when the list is
  empty, although the last task may still run: that is what the code promises.

### 2.8 Numbers, maps, trees, sorting

* `Unr`: the header as it is, with its list of chunks; a bitmap is the set of its
  set bits. One operator per function and per phase of `collapse_unr()`. The spare
  chunks `p1`, `p2` of a call are counted, and so is the memory given up to
  `clean_unrhdr()`. `clear_unrhdr()` is called on a cleaned header only: after
  `alloc_unr_specific()` its assertion would fail on the chunks not yet freed.
* `Idr`: ids from a `Unr` header and the set of ids that have a tree node. The map
  has no lock of its own, so callers are serial; what is interleaved is a loop and
  its body. A body of `idr_for_each()` may remove its own entry only.
* `Avl`, `RbTree`: all links, balances, colours and parents, one operator per
  phase. Nodes are named by the rank of their key, so an insertion or removal
  renames the nodes above it, and a tree is a state only once per shape. The mirrored
  branches of the code are one branch with a side.
* `ListSort`: a step is one round of the code's loop; elements carry their place
  in the input, which no comparison sees, to state stability. Its `merge` is recursive,
  so nothing is proved about it.

## 3 The runs

Bounds are the sets and numbers given in the .cfg files. No run has a state
constraint (`queue_callers` has its scenes as an action constraint): state spaces
are finite because items and worker identities are reused, and the few counters
have a named bound (`DoneMax`, `MaxCount`, `MaxNow`, `MaxClock`, `MaxApplies`,
`MaxInterrupts`, `MaxWorkers`, `MaxNodes`, `MaxLen`).

| run | shows | instance, and why it is enough |
|---|---|---|
| `pool_safety` | type, non-reentrance, spare worker, wakeups, exact counters, once per queueing; `PoolBooks`: idle list, `max_active`, scheduled lists, idle timer armed; the pwq of `max_active` 1 refines `OrderedQueue` | 3 worker identities, 2 works, 2 pwqs (`max_active` 2 and 1), 1 flusher. Three workers are the fewest where the timer may destroy one (`too_many_workers` needs three idle, or two and a manager) while another executes; two pwqs let a work collide with itself through another workqueue; one barrier makes chains, and more of them only longer ones |
| `pool_live` | every queued work is executed | 1 work that may be queued while it runs (`max_active` 2), 1 flusher, 3 workers: collisions, barriers on scheduled lists, a manager, an idle timer that may take one worker |
| `queue_callers` | `CallersExact`: one owner of PENDING, CANCELING, no canceler forgotten; a flush that waited did wait; a work that waits has somebody coming; `ListsAndSlots` through collision, activation and stealing | scene "callers": 1 delayed work, 2 callers with all four functions, 2 workers; the protocol is about one item, and two callers meet each other at every place. Scene "collide": 1 work on 2 ordered pwqs, 3 workers that the idle timer leaves alone (`pool_safety` has it), 1 caller |
| `queue_ordered` | a pwq of `max_active` 1 refines `OrderedQueue` under flushes and cancels; every flush returns; a canceler that waits for another goes on | scene "flushes": 2 works, 1 ordered pwq, 2 workers, 1 caller whose calls are about one of the works (they are alike): the target may be running, on the worklist or delayed, and a canceler may take it from in front of its barrier. Scene "cancels": 1 work, 2 cancelers |
| `flush_colors` | what a flush waited for has returned; the first flusher is still there; `ColorsExact`: counts and closed colours | 4 flushers, 2 works, 2 pwqs, 3 colours: with two colours in use the other flushers overflow and share a colour |
| `colors_live` | flushes and a drain return | 3 flushers, one of them draining, 1 work |
| `pwq_life` | `PwqHeld`: reference counts are exact and a work in flight has a linked pwq; the teardown of a pool comes last; one pool per set of attributes; a destroyed workqueue is freed | 1 workqueue that is allocated and destroyed again and again, 2 pwqs, 2 pools, 1 work, 2 attribute cookies, 3 workers, one `apply_workqueue_attrs()`: the new pwq may share the old one's pool or have its own, a work may still run for the old one, and a new workqueue may find the pool that is about to be torn down |
| `library` | the components of 2.4, 2.6, 2.7 and 2.8: 13 invariants, the refinements of `Permits` and `Timers`, and `EveryoneReturns`: everyone who waits returns, and timers expire | below |
| `flush_false`, `drain_chained`, `pwq_rcu`, `unr_range` | disagreements, section 5 | smallest instances |

Two runs of `WorkQueue` look at two scenes, each with the actors it needs; a scene
leaves out what clients may choose not to do (and in "collide" an idle timer that comes
early). It is the same as two runs. In `queue_callers` (`MCScenes`) a scene is told by
the workqueue the delayed work was used with before, and is an action constraint;
in `queue_ordered` (`MCOrdered`) it is a variable.

`MCLibrary` checks the components of the support library one per behaviour: `part`
says which, and the others stay as they were created. They share no state in the
code either, so this is the same as a run for each of them. Its instances:

| part | instance |
|---|---|
| completion | 3 threads, and `DoneMax` 4 for UINT_MAX: all threads can wait and one completion more can be left |
| kthread | one thread, one that stops it, any number of wakers |
| waitbit, waitqueue | 2 waiters and 2 bits, one interrupt in a call: the fewest with which a post is left over; 2 sleepers, 3 jiffies: a timed wait is woken too early twice, and a jiffy passes between the two readings of its clock |
| lockref, safemutex | 3 users with 4 references; 3 threads |
| threadpool | 3 threads, 3 tasks |
| timers, callers | 2 timers and 1 caller; 1 timer and 2 callers (both may wait for the handler); the clock goes to 2, and a handler may re-arm its timer |
| unr, idr | ranges 1..6 and 1..4 with bitmaps of 4 and 3 numbers (the build has 256): every form of the list, two bitmaps, and a bitmap beside runs |
| avl, rbtree | up to 11 nodes: a removal from an AVL tree of height 4 rotates at two levels, and an erasure of a red-black tree goes through all its cases |
| sort | up to 8 elements with 2 keys: three powers of two pending, and a closing loop over unequal sublists |

Three workers are also the fewest of whom two execute at a time: a worker that is
woken while no other is idle becomes the manager, and with two identities it finds
no third to create. So collisions (`Defer`) happen in `pool_safety`, `pool_live` and
the scene "collide"; the scenes with two workers are about the callers and the order
of the lists, and there the second worker matters as the one that is woken too
early, too late, or is away as manager.

Where symmetry is used (`pool_safety`: workers; `queue_callers`: workers and callers;
`flush_colors`: works, pwqs and flushers) the run has invariants
and at most a safety specification that does not mention the permuted members, and
the module treats the members alike (`MaxActive` is not symmetric in pwqs, so pwqs of
the pool are not permuted). Liveness is checked without symmetry.

The refinement mapping of `InQueuedOrder` (`pool_safety`, `queue_ordered`) takes an
ordered queue out of the pool: a work is queued while its data word names the pwq, and
the one in the slot goes before those in `delayed_works`, which go in the order of that
list (`Sooner`); the running one is what some worker executes for the pwq. It is not
obvious, because the slot's holder may be on the worklist, on another worker's
scheduled list after a collision, or between lists. `OrderedQueue` says the order by the
works that each queued work has in front of it (`ahead`), so that a withdrawal from the
middle is one assignment.

`WorkComing` of `queue_callers` is weaker than `HeadWoken` of `pool_safety`: in
`try_to_grab_pending`, stealing a delayed work moves its barriers to the worklist
and wakes nobody. The run shows why this does no harm: a work is delayed only
while all slots are in use, so some worker is about to come back to the list.

## 4 Fairness

* Workers, callers inside a function and `__queue_work()` get strong fairness:
  they compete for a lock, and a mutex hands itself to every thread that keeps
  waiting, although the lock is taken by others in between. A user function
  returns; `create_worker` succeeds if retried for ever (the code retries for
  ever, waiting `CREATE_COOLDOWN`).
* A worker is in one place at a time, so fairness of the disjunction of its steps
  is fairness of each. `Claim` and `Defer`, `CreateWorker` and `CreateFails` exclude
  each other but for the choice of the new identity.
* Clients are not fair: nobody has to queue, flush or cancel. The idle timer is not
  fair: liveness does not rest on it.
* Timers of delayed works are fair too: `timer.c`'s threads run on, and `Fires` shows of
  a timer queue that an armed timer expires. It has the exception below, other timers
  that are armed before it again and again, which `WorkQueue` takes not to happen.
* `PwqLife`: the release thread and the owners of workqueues compete for locks and get
  strong fairness. A manager goes on (it creates a worker, finds that it need not, or
  ends), a destroyed worker detaches, and a timer's handler runs: weak fairness, as
  nobody can stop them.
  Work functions need not return for `DestroyedIsFreed`: a workqueue is drained
  before it is destroyed, and other works are none of its business.
* `MCLibrary`: the kernel thread, the threads of the pool and the callers inside a
  function go on; who clears a bit calls `wake_up_bit()`. Nobody has to call anything,
  signals need not come, and clients' setting of bits, arming of timers and adding of
  tasks may go on for ever: a wait for a bit ends unless the bit is set again
  (`WaitEnds`). The fair steps of a part that does not move are disabled, so each condition
  speaks of the part that moves; the timer queue, which never rests, has its conditions
  for the behaviours that are about it. Nothing is said of the liveness of `WaitQueue`.
* Timers (`Fires` and `SyncReturns` of `EveryoneReturns`): time passes, the timer's thread
  and whoever is inside a function of `timer.c` get strong fairness, for they compete for
  the mutex of the queue, and a handler returns. With weak fairness for either, TLC finds a
  thread that the others starve. Since timers may be armed for ever, two things are
  excepted, each by a condition in the property: a timer may be overtaken for ever by one
  that is armed before it again and again (`Overtaken`), and `del_timer_sync()` need not
  return while others restart its timer again and again (`Restarted`), as it says itself:
  "Callers must prevent restarting of the timer" (`timer.c:240`). Without either
  condition TLC finds the behaviour it excepts. One waiter of a bit, one timer and one
  caller stand for the others, which the instances treat alike.
* In `Completion` a thread that left the condition variable's queue gets the lock
  (weak fairness: `Resume` stays enabled). Signals go to any sleeper, so nothing is
  promised to a particular thread, and `Permits` promises only that *some* blocked
  thread gets a permit that stays.

## 5 Disagreements between code and comments

Four runs end in a counterexample, by a cause in the code that a comment of the
repository speaks against.

* `flush_false`. `init_worker_pool()` stores `pool->id = -1`;
  `worker_pool_assign_id()` files the pool in the id map but never stores the
  number ("allocate ID and assing it to @pool", `workqueue.c:277`). While a work
  executes its data word has only the pool id, so its pool cannot be found:
  `flush_work()` returns false at once although "false if it was already idle".
  Barriers are therefore inserted only while the target is queued (or queued
  again). By the same cause `cancel_delayed_work_sync()` does not wait for a
  running callback, and a work queued after `apply_workqueue_attrs()` can start in the
  new pool while it runs in the old one. The models follow the code.
* `drain_chained`. `task->data` is never set (the worker is handed over as the
  thread's argument), so `kthread_data()` and `current_wq_worker()` are NULL and
  `is_chained_work()` is false in every worker. A draining workqueue then drops
  what its own works queue, PENDING still set; the comment says "only works from
  the same workqueue are allowed" (`workqueue.c:939`).
* `pwq_rcu`. `put_pwq_unlocked()` puts the last reference and then reads `pwq->pool`
  to unlock it. In between the release thread may free the pwq: if another
  workqueue uses the pool, it needs no lock of that pool for it. "As both pwqs and
  pools are RCU protected, the following lock operations are safe"
  (`workqueue.c:748`), but the `free()` is immediate.
* `unr_range`. `alloc_unr_specific()` on an empty list computes `uh->last` from an
  offset that is already relative to `uh->first` (`unr.c:661`). When numbers were
  allocated from the start before, `last` is too large, and `alloc_unr()` hands out
  numbers above `high`. `AllocatedExact` of `library` holds all the same: the header
  describes exactly what was handed out, in the range or not.

A fifth has no run of its own. `wait_on_bit()` takes a `sem_wait()` that returned 0 for the
wakeup that unlinked its waiter (`wait_bit.c:84`). A signal breaks this: `sem_wait()`
returns an error, the wakeup unlinks the waiter and posts, the bit is set again and the
waiter links itself again with the post left over (`wait_bit.c:91`); its next `sem_wait()`
returns on that post, and if the bit is clear by then, the call returns with the waiter,
which is on its stack, still in the list. The wakeup to come walks over it and posts its
semaphore, although `sem_post()` "must be last func to call" (`wait_bit.c:115`): no wakeup
may touch a waiter after its post. In `WaitBit` this is a state that is not `Intact`, and
TLC reaches it in 12 steps; a call that is never interrupted has no such hazard, which
is the second half of `NoSleeperLost`.

Met on the way, and not contradicted by any comment: `del_timer()` misses a timer
that `mod_timer()` is moving (2.6), and a timer behind a slow handler is late by
that handler's time.

## 6 Proofs

All theorems are about the specification of the module (`Spec`, `SpecQ`; in 6.7 that of
each part) and hold for every value of its
constants that its assumptions admit.

### 6.1 WorkerPoolProofs

Assumption: `PoolAssumption`: the sets of works, barriers, pwqs and workers are
disjoint where they meet in one field, `None` is none of them, there is a worker,
every `max_active` is a positive number, and there are finitely many works and
workers (the counters of the pool count them; only `PoolBooksProofs` needs this). The
number of each is arbitrary, and pwqs and barriers need not be finite.

| theorem | property |
|---|---|
| `Invariance` | `IInv` |
| `TypeCorrect` | `TypeOK` |
| `NeverReentrant` | `NonReentrant` |
| `AlwaysSpare` | `Spare` |
| `NoLostWakeup` | `HeadWoken` |
| `ConcurrencyExact` | `NrRunningExact` |
| `ExecutedOncePerQueueing` | `QueuedOnce` |

None of these is inductive alone. `IInv` is the conjunction of

* `TypeOK`: each action has a lemma `<Action>Type`; the sequence operators have
  their own (`ChainType`, `RemoveAtType`, `ActivateType`, ...).
* `PoolCore` and `HeadWoken`. `HeadWoken` speaks of the unlocked pool, so the steps under the lock
  need to be tied to it: `LockHolder` (the lock is held exactly by the worker at
  a locked place), `NrRunningExact` (so that `insert_work` sees 0 whenever the lock
  is free, and the claim that drops the lock sees 0 too), `SleepEmpty` (a worker that
  goes to sleep saw the worklist empty, and did not unlock since). `Spare` needs
  `SpareHeld`: the worker that goes round its loop with the lock held relies on
  what it saw in `recheck`; and `IdleLen`, as the code decides by the counter
  and not by the list. `NonReentrant` needs `Busy` (who has a current work).
  `IdleWorkerTimeout` is the interesting step: it cuts the list at the cold end,
  and `too_many_workers` keeps at least one, in the code's arithmetic.
* `ListInv`: `QueuedOnce`, which makes all lists of the pool one injective
  structure, and `BusyPwq`. `ListLemmas` states what list surgery does to such a
  structure once, for any heads: a prefix moved to the end of another list
  (`MovePrefix`: activation, collision, `move_linked_works`), the first element
  dropped (`DropFirst`: claim), a new one inserted at any place (`InsertNew`:
  barriers) or appended (`AppendNew`: `insert_work`).

`CoreInv` is `IInv` without `HeadWoken`, and inductive too. The two are kept apart as
`WorkQueue` needs the first only: there, a steal may put a work on an empty worklist
and wake nobody, and `HeadWoken` is false. The names of `PoolCore`'s and `ListInv`'s
parts are in `WorkerPoolProofs`; one lemma per action and part follows, and `NextIInv`
puts them together.

### 6.2 PoolBooksProofs

| theorem | property |
|---|---|
| `BooksInvariance` | `BooksInv` |
| `BooksAreExact` | `PoolBooks`: `IdleExact`, `TrimArmed`, `MaxActiveExact`, `ScheduledHeld` |
| `RunsInQueuedOrder` | `InQueuedOrder` |

The counters decide who wakes whom, and whether a work may start, so they have to be
equal to what they count in every state, also under the lock. `BooksInv` is inductive
relative to `IInv` of 6.1, and strengthens `PoolBooks` at three places:

* `TrimArmed` speaks of the unlocked pool; `Armed` says it of every state: a worker that
  leaves the idle list under the lock can only make the workers less many, so the
  timer that was armed for them is still there when the lock is released.
* `DieAsleep`: only a worker that sleeps, or is on its way out, was told to die. A
  worker that takes a work is therefore counted among the workers.
* `Chained`: a LINKED item is followed by a barrier in its list, and a barrier in
  `delayed_works` is preceded by a LINKED item. So a chain is one work and its
  barriers, and what `pwq_activate_delayed_work()` moves when a slot is freed is
  exactly one work, hence one slot. Without it `MaxActiveExact` could not be kept: an
  activation that moved two works, or none, would be off by one for ever.

`MaxActiveExact` is about cardinalities. The slots of a pwq are split into those of
listed works (`OnSlot`) and of works that a worker executes for the pwq (`BySlot`);
a step takes one member out of one of the sets and puts one into the other, or
frees one and hands it to the first delayed work (`ReturnHandsBooks`). That the loop
in `move_linked_works()` stops at the end of the chain is `ChainEnd`.

`RunsInQueuedOrder` is the refinement of `OrderedQueue`, for each pwq of `max_active` 1,
however many others share the pool with it. It needs nothing beyond `IInv` and
`BooksInv`, and goes step by step:

* `QueueWork` is `Enqueue` (`QueueWorkOrder`): a delayed work goes behind all that
  wait and behind the holder of the slot; one that is not delayed finds the slot free, and
  then nobody is queued, as a slot is never left unused while works wait.
* `Claim` is `Start` (`ClaimOrder`): the work had the slot, so it has it alone (`OneSlot`),
  everybody else waits and nobody runs.
* `Return` is `Finish` (`ReturnOrder`), and hands the slot to the first of those that
  wait. It keeps its place, since it goes before them now as it did before (`FirstGoes`), and
  nothing but its barriers leaves `delayed_works` with it (`ReturnHands`).
* All else is unseen. In particular a barrier that is put into `delayed_works` changes no
  order of works (`BehindOrder`, `BarrierOrder`).

### 6.3 WorkQueueProofs

Assumption: `QueueAssumption`, which is about the sets the callers bring (a delayed work is
a work, a caller's item is its barrier), on top of `PoolAssumption`. The number of
works, timers, callers, pwqs and workers is arbitrary.

| theorem | property |
|---|---|
| `QueueInvariance` | `QInv` |
| `CallersAreExact` | `CallersExact`: `TypeOKQ`, `OneOwner`, `CancelingExact`, `CancelWaiterWoken` |
| `ListsAndSlotsExact` | `ListsAndSlots`: `QueuedOnce`, `MaxActiveExact` |
| `FlushWaits` | `FlushTrueWaited` |
| `WorkIsComing` | `WorkComing` |
| `CancelsKeepTheOrder` | `InQueuedOrder` |

`QInv` adds to `CoreInv` and the part of `BooksInv` that a steal keeps (`WorkBooks`)
what ties the callers to the pool:

* `Sole`: PENDING of a work is held by a thread that queues it, an armed timer, an
  expired timer's handler, a list, or one caller, and by no two of them. It has to be
  said with each pair apart, as every action hands PENDING from one of them to another.
* `BarrierQuiet`: a barrier is on a list, or is executed, only while its caller waits
  for it, so it may be inserted again when the caller returns (it is on the stack).
* `Frames` (which function a caller may be in at each place) and `TimersReady`.

The actions of `WorkerPool` are reused from 6.1 and 6.2. New is the steal: a work leaves
any list with its LINKED bit (`ChainedRemoves`), the chain that waited behind its slot
is activated first if it was delayed (`TakenOff`, `Promoted`), and the slot goes to the
next delayed work (`Freed`).

`FlushTrueWaited` is again about a history, and `FlushInv` about the present: while the
instance a caller waits for is still to come, the caller's barrier is behind it in the
same list and every item from one up to the other is LINKED (`Ahead`); while it
runs, the barrier is in the scheduled list of the worker that runs it (`HeldBy`). Each
surgery on the lists keeps such a segment together (`AheadCuts`, `AheadRemoves`, ...),
as lists are cut only behind an item that is not LINKED, and the one thing that is ever
inserted into a segment is another barrier for the same work: `insert_wq_barrier` puts it
right behind its target, and gives it the target's LINKED bit.

`WorkComing` is kept by `ListedRuns`: if the worklist is empty and the lock is free,
then a work that is listed (in `delayed_works`) means that a worker executes
something: delayed works wait only while every slot of their pwq is in use, and a slot
is in use by a work on the worklist or by one that runs. So the steal that activates a
delayed work and wakes nobody is right only since that worker comes back to the
worklist.

`CancelsKeepTheOrder` repeats the refinement of 6.2 for the clients of this module. New is
that the steal is `Withdraw`: whatever it moves, the order of the other works of the pwq
stays (`OrdStays`, kept beside `AheadStays` in `Unlisted`). If the holder of the slot is
stolen, all others wait and the first of them gets the slot (`HandOnOrder`); if a delayed
work is, it leaves from the middle of the list together with its barriers
(`DelayedLeavesOrder`).

### 6.4 FlushColorsProofs

Assumption: `ColorAssumption`: more than two colours, finitely many works, pwqs and
drainers (they are counted), any set of flushers.

| theorem | property |
|---|---|
| `FlushInvariant` | `IInv` |
| `FlushWaitsForAll` | `FlushedAll` |
| `FirstFlusherIsThere` | `FirstFlusherWaits` |
| `ColorsAreExact` | `ColorsExact` |

`FlushedAll` is a statement about a flusher's history (`owed`, what was in flight when
it was given its colour), the invariant one about the present. Its parts:

* `Control`: who is where. The flusher at a place under `wq->mutex` has it; the lists
  of flushers have no member twice, and their members wait with their completion not
  yet sent; nobody is first flusher while the cascade hands the role on, and then the
  next one is the head of the queue. `PrepMode` tells the four uses of
  `flush_workqueue_prep_pwqs()` apart, whose loop may be interleaved with workers.
* `Arms`: armed pwqs are armed for `flush_color`, they are counted by
  `nr_pwqs_to_flush`, and a pwq with a work of that colour in flight is armed, or still
  on the way of the loop. When the colour is completed none is left.
* `Colors`: the colours from `flush_color` up to before `work_color` are closed.
  Each is held by somebody who waits for it, in the order of the queue; a work in
  flight has a closed colour or `work_color`. Distances on the circle of colours are
  `Gap`, which `SuccIs` and `DistIs` show to be the code's modulus.
* `Debts`: what a waiting flusher is owed has no later colour than its own. So when its
  colour is completed nothing of it is in flight. This, `Arms` and `Colors` need
  each other: the overflow list may be given one colour for all only since the colour
  that was completed is free.
* `Drains`: `nr_drainers` counts.

### 6.5 PwqLifeProofs

Assumption: `LifeAssumption`: finitely many workqueues, pwqs and works (they are
counted); any sets of pools and cookies.

| theorem | property |
|---|---|
| `LifeInvariant` | `IInv` |
| `ReferencesAreExact` | `PwqHeld` |
| `TeardownComesLast` | `TeardownIsLast` |
| `OnePoolPerAttributes` | `HashedOnce` |

`IInv` says of each structure who may hold it: the base reference of a pwq is its
workqueue's (`Owners`), everything that points to a pwq points to one that is still
linked (`Places`), a pwq with no references is queued for the release thread, once
(`ReleaseThread`), and a pool that no pwq counts is the one this thread takes down
(`PoolLife`). `TeardownIsLast` is not inductive: that no worker is left when the pool is
freed needs that the release thread is the manager meanwhile and that no idle worker
is left, so nobody can create one. That a work in flight is safe needs both counts at
once: the work counts for the pwq, and the linked pwq for the pool.

### 6.6 CompletionProofs

Assumption: finitely many threads, fewer than UINT_MAX
(`Cardinality(Thread) < DoneMax`). The bound is needed: a `complete()` that
saturates the counter signals one thread only, while the counter then means
completions without end.

`IInv == TypeOK /\ NoLostWakeup` is inductive. `NoLostWakeup` counts: while somebody
sleeps, the completions left are at most the threads that are awake in a wait. A
`complete()` adds one to both sides, a taken completion subtracts one from the left
and at most one from the right, and a thread goes to sleep only when none is left.
`Implements` proves `Spec => ImplementsPermits` step by step: `Complete` is `Post`,
a wait that takes is `Pass`, a thread that blocks is `Block`, a wait that expires
is `GiveUp`, and sleeping, waking and re-reading are stutters.

### 6.7 LibraryProofs

`Library` puts the concurrent parts of the support library next to each other, and
`LibraryProofs` proves their safety properties, each from the specification of its own
part. Assumption: `LibraryAssumption`: the sets that meet in one field are disjoint, there
is a thread, a reference and a bit, references and threads are finitely many (they are
counted). Bits, waiters, tasks, timers, the clocks' bounds and that of the interrupts are
arbitrary.

| theorem | property | invariant |
|---|---|---|
| `ReferencesAreHeld` | `ReferencesHeld` (`Kthread`, `Lockref`) | `TaskInv`, `RefInv` |
| `NoSleeperIsLost` | `NoSleeperLost` (`WaitBit`, `WaitQueue`) | `BitInv`, `EventInv` |
| `WaitsAreNoLonger` | `NoLonger` (`WaitQueue`) | `SleepInv` |
| `OwnerIsRight` | `OwnerHolds` (`SafeMutex`) | `OwnerInv` |
| `TasksAlwaysHaveThreads` | `TasksHaveThreads` (`ThreadPool`) | `TaskListInv` |
| `TimersAreInOrder` | `TimersInOrder` (`Timer`) | `TimerInv` |
| `QueueImplementsTimers` | `ImplementsTimers` (`Timer`, `Timers`) | `TimerInv` |

* `RefInv`: the count is that of the references until the last putter marks the object
  dead. That this one has the only reference then (`Held = {r}`) is what makes the count
  exact again after `mark_dead` overwrote it; it needs that others who hold the lock
  cannot take a reference meanwhile.
* `BitInv`: `SleeperIsLinked` is inductive as it stands, with the types and a bucket of
  waiters: who sleeps has a post to take, or is in the bucket and its bit is still set or a
  waker that cleared it is still to go through the bucket. A call that was not interrupted
  is in the bucket exactly while it sleeps and was not posted. `EventInv`: between the change
  of the event and `wake_up()` some waker is on its way; a thread between its test and its
  wait has the lock.
* `SleepInv`: what a timed wait has slept, and what it may still sleep, are no more than the
  timeout: what is left (`left`) while it is awake, the time to the end of its wait
  (`until`) while it sleeps. The time that passes between the two readings of the clock
  enters neither, which is why the sum is kept though the end of the wait moves on.
  `RemainingFits` is the one step that needs arithmetic of the second reading.
* `OwnerInv`: the mutex belongs to the thread at a place inside, hence to one only.
* `TaskListInv` counts: a signal wakes one sleeper for one task, and a thread that goes
  to sleep saw the list empty under the lock.
* `TimerInv` is `TimerList` (the list holds each pending timer once, in order), `TimerThread`
  (a handler runs exactly while `active_node` is set; `InTime`) and `TimerCalls` (the caller
  in `mod_timer()` has the mutex, and its timer is on no list meanwhile; a handler calls
  only `mod_timer()`; who sleeps waits for the handler that runs). `Inserted` and `Detached`
  say what `__add_timer()` and `list_del()` do to an ordered list.
* `QueueImplementsTimers`: `TimerRefines` maps each step, of the caller and the timer the
  step is about. `ModDetach` is `Move`, `ModAdd` is
  `Arm`, `DelLock` is `Disarm`, `TrySync` is `DisarmSync` or, when the handler runs, unseen;
  `DelRead` answers `Unarmed`, or `Miss` while a timer is being moved; the thread's steps
  are `Handle`. The heart is `ArmedIs`: the armed timers are those of the list and, if it
  was armed before, the one that `mod_timer()` holds in its hands.

### 6.8 What only TLC checks

Liveness (`Executes`, `FlushReturnsInTheEnd`, `CancelerGoesOn`, `FlushReturns`,
`DestroyedIsFreed`, `EveryoneReturns`): the prover has no fairness and no `ENABLED`.
The trees and the sort compute by recursion over data, which the prover's library cannot
induct on, and the number allocator and the ID map are sequential code over the same
kind of data (`AllocatedExact`, `LoopsVisit`, `Balanced`, `DestroysOnce`, `RedBlack`,
`StableSort`): they stay with TLC.

## 7 What is not modelled

* Failures of allocation, but for the worker thread that cannot be created
  (`CreateFails`). In particular `create_pool()` of `thread_pool.c` frees the pool
  while threads of it may run, and reads it afterwards, if `pthread_create()` fails.
* A `task->state` that is RUNNING already when `schedule_timeout_interruptible()`
  locks: the model returns; the code returns an uninitialized `rc`.
* `util_idr_destroy()`'s memory: it frees the nodes and leaves the allocator's
  chunks. NULL entries, at which `idr_for_each_entry` stops.
* Hash functions (`xxhash.h` is vendored and by itself almost a third of the
  repository), logging, time arithmetic, strings, random numbers: pure or I/O, and
  nothing modelled depends on them. `kref.h` and the other lock wrappers are
  one-line uses of compiler and pthread primitives, `llist.h` and `queue_patch.h` macros
  on lists, which are sequences here; `bitstring.h` is sets of bits.
* Memory ordering: a lock is atomic and the data word changes atomically, as the
  code's `__atomic` built-ins and mutexes provide.
* `WORKER_IDLE`/`WORKER_PREP` as bits: they are functions of the worker's place.
* One model of everything: `WorkerPool` has pwqs that exist throughout, `PwqLife`
  has pools without lists, and `WorkQueue` uses the timers that `Timers` promises
  instead of a `Timer` of its own. Together they are out of TLC's reach.

## 8 Plan

All components that keep state have a module. The safety properties of the workqueue and
of the concurrent library are proved, and so are the refinements of `OrderedQueue`,
`Permits` and `Timers`. What is left needs induction over data (the trees, the sort, the
number allocator, the ID map) or fairness, see 6.8.
