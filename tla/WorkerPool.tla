------------------------------ MODULE WorkerPool ------------------------------
(***************************************************************************)
(* One worker_pool of workqueue.c: its kernel-style worker threads, the    *)
(* LIFO idle list, the manager role, the idle-worker timer, the worklist,  *)
(* and the pool_workqueues (pwqs) that feed it under max_active.           *)
(*                                                                         *)
(* Granularity.  Every field used here is protected by pool->lock, so a    *)
(* client's critical section is one step that needs the lock free.  A      *)
(* worker keeps the lock over several steps (variable lock), which is how  *)
(* worker_thread() walks from woke_up to the user function.  Accesses made *)
(* without the lock (test_and_set of PENDING, the manager's unlocked       *)
(* need_to_create_worker) are steps of their own.                          *)
(*                                                                         *)
(* A work item is a member of Work.  Barrier holds the on-stack wq_barrier *)
(* items of flush_work().  Flush colours are FlushColors.tla, so here a    *)
(* colour is only "none" (a Barrier) or "some".                            *)
(***************************************************************************)
EXTENDS Integers, Sequences, FiniteSets

CONSTANTS
  Work,        \* work_structs of the clients
  Barrier,     \* wq_barrier.work items, colour WORK_NO_COLOR
  Pwq,         \* pool_workqueues attached to this pool
  MaxActive,   \* pwq->max_active, a function on Pwq
  Worker,      \* the identities create_worker() can give to a worker
  None         \* NULL

ASSUME PoolAssumption ==
  /\ None \notin Worker \cup Work \cup Barrier \cup Pwq \cup Int
  /\ Work \cap Barrier = {}
  /\ Pwq \cap (Int \cup Worker) = {}
  /\ Worker # {} /\ IsFiniteSet(Worker) /\ IsFiniteSet(Work)
  /\ MaxActive \in [Pwq -> Nat \ {0}]

Item == Work \cup Barrier

(* pool->id: init_worker_pool() stores -1, and worker_pool_assign_id()     *)
(* files the pool under the allocated number without storing it.           *)
PoolId   == -1
PoolNone == 2147483647      \* WORK_OFFQ_POOL_NONE

VARIABLES
  lock,          \* pool->lock: the worker that holds it, or None
  worklist,      \* pool->worklist
  idle_list,     \* pool->idle_list, most recently idle first
  nr_idle, nr_workers, nr_running,
  manager,       \* pool->manager; POOL_MANAGER_ACTIVE is manager # None
  idle_timer,    \* pool->idle_timer is pending
  timer_cb,      \* the timer thread is about to run idle_worker_timeout()
  pc,            \* where each worker thread is in worker_thread()
  state,         \* task->state: "running" or "idle" (TASK_IDLE)
  die,           \* WORKER_DIE
  current_work,  \* worker->current_work
  current_pwq,   \* worker->current_pwq
  scheduled,     \* worker->scheduled
  data,          \* work->data, decoded
  delayed_works, \* pwq->delayed_works
  nr_active,     \* pwq->nr_active
  queueing       \* the pwq a queue_work() in progress will use: between its
                 \* test_and_set of PENDING and the end of __queue_work()

idleVars  == <<idle_list, nr_idle, nr_workers, manager, idle_timer, timer_cb>>
taskVars  == <<state, die>>
listVars  == <<worklist, delayed_works, nr_active, data>>
busyVars  == <<current_work, current_pwq, scheduled>>
vars == <<lock, nr_running, pc, queueing, idleVars, taskVars, listVars, busyVars>>

(* The data word: the flag bits, and high bits that are a pwq while queued *)
(* and a pool id while off queue.                                          *)
Word == [pending : BOOLEAN, delayed : BOOLEAN, linked : BOOLEAN,
         canceling : BOOLEAN, high : Pwq \cup {PoolId, PoolNone}]

WorkDataInit == [pending |-> FALSE, delayed |-> FALSE, linked |-> FALSE,
                 canceling |-> FALSE, high |-> PoolNone]
(* Wrong: the id is not put into the word.                                 *)
OffQueueCleared(id, pend) == [WorkDataInit EXCEPT !.pending = pend, !.high = None]
OffQueue(id, pend) == [WorkDataInit EXCEPT !.pending = pend, !.high = id]

(* get_unbound_pool() creates the first worker before anyone sees the pool. *)
Init == \E w0 \in Worker :
  /\ lock = None /\ worklist = <<>> /\ manager = None
  /\ idle_list = <<w0>> /\ nr_idle = 1 /\ nr_workers = 1 /\ nr_running = 0
  /\ idle_timer = FALSE /\ timer_cb = FALSE
  /\ pc = [w \in Worker |-> IF w = w0 THEN "asleep" ELSE "none"]
  /\ state = [w \in Worker |-> "running"]
  /\ die = [w \in Worker |-> FALSE]
  /\ current_work = [w \in Worker |-> None]
  /\ current_pwq = [w \in Worker |-> None]
  /\ scheduled = [w \in Worker |-> <<>>]
  /\ data = [i \in Item |-> WorkDataInit]
  /\ delayed_works = [q \in Pwq |-> <<>>]
  /\ nr_active = [q \in Pwq |-> 0]
  /\ queueing = [x \in Work |-> None]
-------------------------------------------------------------------------------
(* Policy functions                                                        *)
need_more_worker      == worklist # <<>> /\ nr_running = 0
may_start_off_by_one  == nr_idle >= 0     \* wrong: >= for >
may_start_working     == nr_idle > 0
need_to_create_worker == need_more_worker /\ ~may_start_working
keep_off_by_one       == worklist # <<>> /\ nr_running < 1     \* wrong: < for <=
keep_working          == worklist # <<>> /\ nr_running <= 1

too_many_workers(idle, workers) ==
  LET n == idle + (IF manager # None THEN 1 ELSE 0)
  IN  n > 2 /\ (n - 2) * 4 >= workers - n

(* Wrong: the worker that is idle for the longest time.                    *)
WokenTail(idle, st) ==
  IF idle = <<>> THEN st ELSE [st EXCEPT ![idle[Len(idle)]] = "running"]

(* The first idle worker's task set running; nothing when there is none.   *)
Woken(idle, st) ==
  IF idle = <<>> THEN st ELSE [st EXCEPT ![Head(idle)] = "running"]

RemoveAt(s, k) == SubSeq(s, 1, k - 1) \o SubSeq(s, k + 1, Len(s))

(* The linked chain at the head of s is what move_linked_works() moves: it *)
(* ends with the first item whose LINKED bit is clear, so it has one item  *)
(* more than s has prefixes whose items are all LINKED.                    *)
ChainLen(s, d) ==
  1 + Cardinality({n \in 1 .. Len(s) - 1 : \A m \in 1 .. n : d[s[m]].linked})
Chain(s, d) == SubSeq(s, 1, ChainLen(s, d))
RestAgain(s, d) == SubSeq(s, ChainLen(s, d), Len(s))   \* wrong: the last of the chain stays
Rest(s, d)  == SubSeq(s, ChainLen(s, d) + 1, Len(s))

ExecutingUnhashed(x) == {}     \* wrong: the worker is not in the busy hash
Executing(x) == {w \in Worker : current_work[w] = x}
-------------------------------------------------------------------------------
(* The lists of works as one value, for the helpers that change several.   *)
Lists == [worklist |-> worklist, delayed |-> delayed_works,
          active |-> nr_active, data |-> data]
SetLists(L) == /\ worklist' = L.worklist /\ delayed_works' = L.delayed
               /\ nr_active' = L.active  /\ data' = L.data

(* pwq_activate_delayed_work() of the work at position k of pwq q.         *)
Activate(L, q, k) ==
  LET s    == L.delayed[q]
      tail == SubSeq(s, k, Len(s))
  IN  [worklist |-> L.worklist \o Chain(tail, L.data),
       delayed  |-> [L.delayed EXCEPT ![q] = SubSeq(s, 1, k - 1) \o Rest(tail, L.data)],
       active   |-> [L.active EXCEPT ![q] = @ + 1],
       data     |-> [L.data EXCEPT ![s[k]].delayed = FALSE]]

(* Wrong: a freed slot goes to the newest work.                            *)
DecInFlightNewest(L, q, i) ==
  LET M == [L EXCEPT !.active[q] = @ - 1]
  IN  IF i \in Barrier THEN L
      ELSE IF M.delayed[q] # <<>> /\ M.active[q] < MaxActive[q]
           THEN Activate(M, q, Len(M.delayed[q])) ELSE M

(* pwq_dec_nr_in_flight() of item i of pwq q: a barrier has no colour and  *)
(* takes no part; a work frees its slot, which a delayed one may take.     *)
DecInFlight(L, q, i) ==
  LET M == [L EXCEPT !.active[q] = @ - 1]
  IN  IF i \in Barrier THEN L
      ELSE IF M.delayed[q] # <<>> /\ M.active[q] < MaxActive[q]
           THEN Activate(M, q, 1) ELSE M
-------------------------------------------------------------------------------
(* Clients: queue_work()                                                   *)

(* test_and_set_bit(PENDING) finds the bit clear: the caller now owns the  *)
(* item and goes on to __queue_work().  (A set bit returns false, a        *)
(* stutter.)                                                               *)
SetPending(x, q) ==
  /\ ~data[x].pending
  /\ data' = [data EXCEPT ![x].pending = TRUE]
  /\ queueing' = [queueing EXCEPT ![x] = q]
  /\ UNCHANGED <<lock, nr_running, pc, worklist, delayed_works, nr_active,
                 idleVars, taskVars, busyVars>>

(* The list heads that link items: a worker's scheduled list, a pwq's      *)
(* delayed_works, and (as None) the pool's worklist.                       *)
Heads == Worker \cup Pwq \cup {None}
At(h) == IF h \in Worker THEN scheduled[h]
         ELSE IF h \in Pwq THEN delayed_works[h] ELSE worklist
OnList(x) == \E h \in Heads : \E k \in 1 .. Len(At(h)) : At(h)[k] = x

(* __queue_work(), under wq->mutex and pool->lock, with insert_work().  As *)
(* no worker holds the lock nr_running is 0 and insert_work() wakes the    *)
(* first idle worker.                                                      *)
QueueWork(x) ==
  LET q == queueing[x]
      delay == nr_active[q] >= MaxActive[q]
  IN
  /\ q # None
  /\ lock = None
  /\ queueing' = [queueing EXCEPT ![x] = None]
  /\ IF OnList(x)     \* WARN_ON(!list_empty(&work->entry)): goto out
     THEN UNCHANGED <<listVars, state>>
     ELSE /\ data' = [data EXCEPT ![x] =
                        [pending |-> TRUE, delayed |-> delay, linked |-> FALSE,
                         canceling |-> FALSE, high |-> q]]
          /\ IF delay
             THEN /\ delayed_works' = [delayed_works EXCEPT ![q] = Append(@, x)]
                  /\ UNCHANGED <<worklist, nr_active>>
             ELSE /\ worklist' = Append(worklist, x)
                  /\ nr_active' = [nr_active EXCEPT ![q] = @ + 1]
                  /\ UNCHANGED delayed_works
          /\ state' = IF nr_running = 0 THEN Woken(idle_list, state) ELSE state
  /\ UNCHANGED <<lock, nr_running, pc, idleVars, die, busyVars>>
-------------------------------------------------------------------------------
(* Clients: flush_work()                                                   *)

(* Wrong: the barrier goes before its target.                              *)
InsertBefore(s, x, b) ==
  LET k == CHOOSE k \in 1 .. Len(s) : s[k] = x
  IN  SubSeq(s, 1, k - 1) \o <<b>> \o SubSeq(s, k, Len(s))

(* insert_wq_barrier(): behind the target, which is then linked to it ...  *)
InsertAfter(s, x, b) ==
  LET k == CHOOSE k \in 1 .. Len(s) : s[k] = x
  IN  SubSeq(s, 1, k) \o <<b>> \o SubSeq(s, k + 1, Len(s))

In(s, x) == \E k \in 1 .. Len(s) : s[k] = x
Behind(s, x, b) == IF In(s, x) THEN InsertAfter(s, x, b) ELSE s

BarrierWord(q, link) ==
  [pending |-> TRUE, delayed |-> FALSE, linked |-> link, canceling |-> FALSE, high |-> q]

BarrierBehindTarget(x, b) ==
  /\ data[x].high \in Pwq
  /\ worklist' = Behind(worklist, x, b)
  /\ delayed_works' = [q \in Pwq |-> Behind(delayed_works[q], x, b)]
  /\ scheduled' = [w \in Worker |-> Behind(scheduled[w], x, b)]
  /\ data' = [data EXCEPT ![b] = BarrierWord(data[x].high, data[x].linked), ![x].linked = TRUE]

(* ... or first in the scheduled list of the worker that executes it.      *)
BarrierAtWorker(x, b) ==
  \E w \in Executing(x) :
    /\ data[x].high \notin Pwq
    /\ scheduled' = [scheduled EXCEPT ![w] = <<b>> \o @]
    /\ data' = [data EXCEPT ![b] = BarrierWord(current_pwq[w], FALSE)]
    /\ UNCHANGED <<worklist, delayed_works>>

InsertBarrier(x, b) ==
  /\ lock = None
  /\ BarrierBehindTarget(x, b) \/ BarrierAtWorker(x, b)
  /\ state' = IF nr_running = 0 THEN Woken(idle_list, state) ELSE state
  /\ UNCHANGED <<lock, nr_running, pc, queueing, nr_active, idleVars, die,
                 current_work, current_pwq>>

(* A thread that is not waiting for its barrier flushes x.  (Before this   *)
(* it read the pool of x without the lock; see WorkQueue.)                 *)
FlushWork(x, b) ==
  /\ data[b].high \notin Pwq
  /\ \A w \in Worker : pc[w] = "exec" => current_work[w] # b
  /\ InsertBarrier(x, b)
-------------------------------------------------------------------------------
(* worker_thread()                                                         *)

(* task_schedule() returns, and the worker locks the pool: it dies, or     *)
(* leaves the idle list.                                                   *)
WokeUp(w) ==
  /\ pc[w] = "asleep" /\ state[w] = "running" /\ lock = None
  /\ IF die[w]
     THEN /\ pc' = [pc EXCEPT ![w] = "dying"]
          /\ UNCHANGED <<lock, idle_list, nr_idle>>
     ELSE /\ pc' = [pc EXCEPT ![w] = "recheck"]
          /\ lock' = w
          /\ nr_idle' = nr_idle - 1
          /\ \E k \in 1 .. Len(idle_list) :
               idle_list[k] = w /\ idle_list' = RemoveAt(idle_list, k)
  /\ UNCHANGED <<nr_running, queueing, nr_workers, manager, idle_timer, timer_cb,
                 taskVars, listVars, busyVars>>

(* The rest of a dying worker: worker id freed, detached, freed.           *)
Dying(w) ==
  /\ pc[w] = "dying"
  /\ pc' = [pc EXCEPT ![w] = "none"]
  /\ die' = [die EXCEPT ![w] = FALSE]
  /\ UNCHANGED <<lock, nr_running, queueing, idleVars, state, listVars, busyVars>>

(* recheck: sleep, become the manager, or start working (PREP is cleared,  *)
(* so this worker counts in nr_running).                                   *)
Recheck(w) ==
  /\ pc[w] = "recheck"
  /\ \/ /\ ~need_more_worker
        /\ pc' = [pc EXCEPT ![w] = "sleep"]
        /\ UNCHANGED <<lock, manager, nr_running>>
     \/ /\ need_more_worker /\ ~may_start_working /\ manager = None
        /\ pc' = [pc EXCEPT ![w] = "create"]
        /\ manager' = w
        /\ lock' = None
        /\ UNCHANGED nr_running
     \/ /\ need_more_worker /\ (may_start_working \/ manager # None)
        /\ pc' = [pc EXCEPT ![w] = "next"]
        /\ nr_running' = nr_running + 1
        /\ UNCHANGED <<lock, manager>>
  /\ UNCHANGED <<queueing, idle_list, nr_idle, nr_workers, idle_timer, timer_cb,
                 taskVars, listVars, busyVars>>

(* Wrong: the worker is not counted, or the timer is not set.              *)
EnterIdleUncounted(v, workers) ==
  /\ idle_list' = <<v>> \o idle_list
  /\ nr_idle' = nr_idle
  /\ idle_timer' = (idle_timer \/ too_many_workers(nr_idle + 1, workers))

(* worker_enter_idle(v) with "workers" workers counted.                    *)
EnterIdle(v, workers) ==
  /\ idle_list' = <<v>> \o idle_list
  /\ nr_idle' = nr_idle + 1
  /\ idle_timer' = (idle_timer \/ too_many_workers(nr_idle + 1, workers))

(* The manager, without the lock, creates a worker that takes the lock by  *)
(* proxy: it is counted, put on the idle list and woken.                   *)
CreateWorker(w, v) ==
  /\ pc[w] = "create" /\ pc[v] = "none" /\ lock = None
  /\ nr_workers' = nr_workers + 1
  /\ EnterIdle(v, nr_workers + 1)
  /\ state' = [state EXCEPT ![v] = "running"]
  /\ pc' = [pc EXCEPT ![w] = "relock", ![v] = "asleep"]
  /\ UNCHANGED <<lock, nr_running, queueing, manager, timer_cb, die, listVars, busyVars>>

(* create_worker() failed, but the unlocked re-check finds no need any     *)
(* more.  (While the need lasts the loop retries, a stutter.)              *)
CreateFails(w) ==
  /\ pc[w] = "create" /\ ~need_to_create_worker
  /\ pc' = [pc EXCEPT ![w] = "relock"]
  /\ UNCHANGED <<lock, nr_running, queueing, idleVars, taskVars, listVars, busyVars>>

(* maybe_create_worker() re-locks; still needed means another round, else  *)
(* manage_workers() gives the role up and the worker rechecks.             *)
Relock(w) ==
  /\ pc[w] = "relock" /\ lock = None
  /\ IF need_to_create_worker
     THEN /\ pc' = [pc EXCEPT ![w] = "create"]
          /\ UNCHANGED <<lock, manager>>
     ELSE /\ pc' = [pc EXCEPT ![w] = "recheck"]
          /\ lock' = w
          /\ manager' = None
  /\ UNCHANGED <<nr_running, queueing, idle_list, nr_idle, nr_workers, idle_timer,
                 timer_cb, taskVars, listVars, busyVars>>

(* process_one_work() of the item at the head of a list, "worklist" or the *)
(* worker's own "scheduled".  An item that some worker is executing goes,  *)
(* with its chain, to that worker's scheduled list.  Any other is claimed: *)
(* another worker is woken if work is left, PENDING is cleared, and the    *)
(* lock is dropped for the user function.                                  *)
Take(w, from, n) ==
  /\ worklist' = IF from = "worklist"
                 THEN SubSeq(worklist, n + 1, Len(worklist)) ELSE worklist
  /\ LET own == IF from = "worklist" THEN scheduled[w]
                ELSE SubSeq(scheduled[w], n + 1, Len(scheduled[w]))
     IN  scheduled' = [scheduled EXCEPT ![w] = own]

Claim(w, from, i) ==
  /\ Executing(i) = {}
  /\ Take(w, from, 1)
  /\ current_work' = [current_work EXCEPT ![w] = i]
  /\ current_pwq' = [current_pwq EXCEPT ![w] = data[i].high]
  /\ nr_running' = nr_running - 1
  /\ state' = IF worklist' # <<>> /\ nr_running' = 0
              THEN Woken(idle_list, state) ELSE state
  /\ data' = [data EXCEPT ![i] = OffQueue(PoolId, FALSE)]
  /\ lock' = None
  /\ pc' = [pc EXCEPT ![w] = "exec"]

(* The executing worker is never w itself: w has no current work here.     *)
Defer(w, from, s) ==
  /\ \E v \in Executing(Head(s)) :
       scheduled' = [u \in Worker |->
         IF u = v THEN scheduled[u] \o Chain(s, data)
         ELSE IF u = w /\ from = "scheduled" THEN Rest(s, data) ELSE scheduled[u]]
  /\ worklist' = IF from = "worklist" THEN Rest(s, data) ELSE worklist
  /\ pc' = [pc EXCEPT ![w] = "sched"]
  /\ UNCHANGED <<lock, nr_running, state, current_work, current_pwq, data>>

ProcessOneWork(w, from) ==
  LET s == IF from = "worklist" THEN worklist ELSE scheduled[w]
  IN  /\ s # <<>>
      /\ Claim(w, from, Head(s)) \/ Defer(w, from, s)
      /\ UNCHANGED <<queueing, idleVars, die, delayed_works, nr_active>>

(* The loop body: a lone item is processed at once, a linked chain is      *)
(* moved to the worker's scheduled list first.  (The code takes the first  *)
(* entry unchecked; a worker with an empty worklist here would be stuck.)  *)
Next1(w) ==
  /\ pc[w] = "next" /\ worklist # <<>>
  /\ ~data[Head(worklist)].linked
  /\ ProcessOneWork(w, "worklist")

MoveLinked(w) ==
  /\ pc[w] = "next" /\ worklist # <<>>
  /\ data[Head(worklist)].linked
  /\ scheduled' = [scheduled EXCEPT ![w] = @ \o Chain(worklist, data)]
  /\ worklist' = Rest(worklist, data)
  /\ pc' = [pc EXCEPT ![w] = "sched"]
  /\ UNCHANGED <<lock, nr_running, queueing, idleVars, taskVars, data,
                 delayed_works, nr_active, current_work, current_pwq>>

(* process_scheduled_works(), then the loop condition; a worker that leaves*)
(* the loop is PREP again.                                                 *)
ProcessScheduled(w) == pc[w] = "sched" /\ ProcessOneWork(w, "scheduled")

(* Wrong: WORKER_PREP is not set again, or scheduled is not walked to its  *)
(* end.                                                                    *)
LoopEndNotPrep(w) ==
  /\ pc[w] = "sched" /\ scheduled[w] = <<>>
  /\ pc' = [pc EXCEPT ![w] = IF keep_working THEN "next" ELSE "sleep"]
  /\ UNCHANGED <<lock, nr_running, queueing, idleVars, taskVars, listVars, busyVars>>
LoopEndEarly(w) ==
  /\ pc[w] = "sched"
  /\ IF keep_working
     THEN pc' = [pc EXCEPT ![w] = "next"] /\ UNCHANGED nr_running
     ELSE pc' = [pc EXCEPT ![w] = "sleep"] /\ nr_running' = nr_running - 1
  /\ UNCHANGED <<lock, queueing, idleVars, taskVars, listVars, busyVars>>

LoopEnd(w) ==
  /\ pc[w] = "sched" /\ scheduled[w] = <<>>
  /\ IF keep_working
     THEN pc' = [pc EXCEPT ![w] = "next"] /\ UNCHANGED nr_running
     ELSE pc' = [pc EXCEPT ![w] = "sleep"] /\ nr_running' = nr_running - 1
  /\ UNCHANGED <<lock, queueing, idleVars, taskVars, listVars, busyVars>>

(* worker->current_func(work) runs and returns.                            *)
RunFunc(w) ==
  /\ pc[w] = "exec"
  /\ pc' = [pc EXCEPT ![w] = "ret"]
  /\ UNCHANGED <<lock, nr_running, queueing, idleVars, taskVars, listVars, busyVars>>

(* Back under the lock, the worker forgets the item and frees its slot.    *)
Return(w) ==
  /\ pc[w] = "ret" /\ lock = None
  /\ lock' = w
  /\ nr_running' = nr_running + 1
  /\ current_work' = [current_work EXCEPT ![w] = None]
  /\ current_pwq' = [current_pwq EXCEPT ![w] = None]
  /\ SetLists(DecInFlight(Lists, current_pwq[w], current_work[w]))
  /\ pc' = [pc EXCEPT ![w] = "sched"]
  /\ UNCHANGED <<queueing, idleVars, taskVars, scheduled>>

(* sleep: on the idle list, TASK_IDLE, and the lock released.              *)
Sleep(w) ==
  /\ pc[w] = "sleep"
  /\ EnterIdle(w, nr_workers)
  /\ state' = [state EXCEPT ![w] = "idle"]
  /\ lock' = None
  /\ pc' = [pc EXCEPT ![w] = "asleep"]
  /\ UNCHANGED <<nr_running, queueing, nr_workers, manager, timer_cb, die,
                 listVars, busyVars>>
-------------------------------------------------------------------------------
(* The idle timer                                                          *)

(* The timer thread dequeues the expired timer and is about to call it.    *)
TimerExpire ==
  /\ idle_timer /\ ~timer_cb
  /\ idle_timer' = FALSE
  /\ timer_cb' = TRUE
  /\ UNCHANGED <<lock, nr_running, pc, queueing, idle_list, nr_idle, nr_workers,
                 manager, taskVars, listVars, busyVars>>

(* idle_worker_timeout() destroys k workers from the cold end of the idle  *)
(* list, stopping when there are not too many, or, with the timer set      *)
(* again, at a worker that has not been idle for long.                     *)
IdleWorkerTimeout ==
  /\ timer_cb /\ lock = None
  /\ \E k \in 0 .. Len(idle_list) :
       LET kept == Len(idle_list) - k
           dead == {idle_list[j] : j \in kept + 1 .. Len(idle_list)}
       IN  /\ \A j \in 0 .. k - 1 : too_many_workers(nr_idle - j, nr_workers - j)
           /\ idle_list' = SubSeq(idle_list, 1, kept)
           /\ nr_idle' = nr_idle - k
           /\ nr_workers' = nr_workers - k
           /\ idle_timer' = (idle_timer \/ too_many_workers(nr_idle - k, nr_workers - k))
           /\ die' = [w \in Worker |-> die[w] \/ w \in dead]
           /\ state' = [w \in Worker |-> IF w \in dead THEN "running" ELSE state[w]]
  /\ timer_cb' = FALSE
  /\ UNCHANGED <<lock, nr_running, pc, queueing, manager, listVars, busyVars>>
-------------------------------------------------------------------------------
Client == \E x \in Work : \/ (\E q \in Pwq : SetPending(x, q)) \/ QueueWork(x)
                         \/ \E b \in Barrier : FlushWork(x, b)

WorkerStep(w) ==
  \/ WokeUp(w) \/ Dying(w) \/ Recheck(w)
  \/ (\E v \in Worker : CreateWorker(w, v)) \/ CreateFails(w) \/ Relock(w)
  \/ Next1(w) \/ MoveLinked(w) \/ ProcessScheduled(w) \/ LoopEnd(w)
  \/ RunFunc(w) \/ Return(w) \/ Sleep(w)

Next == Client \/ (\E w \in Worker : WorkerStep(w)) \/ TimerExpire \/ IdleWorkerTimeout

Spec == Init /\ [][Next]_vars
-------------------------------------------------------------------------------
(* Properties                                                              *)

(* Every field holds a value of its type.                                  *)
TypeOK ==
  /\ lock \in Worker \cup {None} /\ manager \in Worker \cup {None}
  /\ worklist \in Seq(Item)
  /\ idle_list \in Seq(Worker)
  /\ nr_idle \in Int /\ nr_workers \in Int /\ nr_running \in Int
  /\ idle_timer \in BOOLEAN /\ timer_cb \in BOOLEAN
  /\ pc \in [Worker -> {"none", "asleep", "dying", "recheck", "create", "relock",
                        "next", "exec", "ret", "sched", "sleep"}]
  /\ state \in [Worker -> {"running", "idle"}]
  /\ die \in [Worker -> BOOLEAN]
  /\ current_work \in [Worker -> Item \cup {None}]
  /\ current_pwq \in [Worker -> Pwq \cup {PoolId, PoolNone, None}]
  /\ scheduled \in [Worker -> Seq(Item)]
  /\ data \in [Item -> Word]
  /\ delayed_works \in [Pwq -> Seq(Item)]
  /\ nr_active \in [Pwq -> Int]
  /\ queueing \in [Work -> Pwq \cup {None}]

(* No two workers of the pool run one item at the same time (the collision *)
(* check of process_one_work()).                                           *)
NonReentrant ==
  \A v, w \in Worker :
    v # w /\ current_work[v] # None => current_work[v] # current_work[w]

(* Whenever the pool is unlocked there is a spare worker, or a manager who *)
(* is getting one ("guaranteed to have at least one idle worker or that    *)
(* someone else has already assumed the manager role"): neither a burst of *)
(* works nor the idle timer may take the last one.                         *)
Spare == lock = None => idle_list # <<>> \/ manager # None

(* No lost wakeup: while work waits in the unlocked pool, the first idle   *)
(* worker is already running towards the lock.                             *)
HeadWoken ==
  lock = None /\ worklist # <<>> /\ idle_list # <<>> => state[Head(idle_list)] = "running"

(* The concurrency level counts exactly the worker that is in the          *)
(* processing loop with the lock held, so it is 0 for everybody else.      *)
NrRunningExact ==
  nr_running = IF \E w \in Worker : pc[w] \in {"next", "sched"} THEN 1 ELSE 0

(* The idle list has the workers that sleep and were not told to die, each *)
(* once, and the two counters agree with it and with the live workers.     *)
IdleExact ==
  /\ \A w \in Worker : (pc[w] = "asleep" /\ ~die[w]) <=> \E k \in 1 .. Len(idle_list) : idle_list[k] = w
  /\ \A j, k \in 1 .. Len(idle_list) : idle_list[j] = idle_list[k] => j = k
  /\ nr_idle = Len(idle_list)
  /\ nr_workers = Cardinality({w \in Worker : pc[w] \notin {"none", "dying"} /\ ~die[w]})

(* Executed once per queueing: an item is linked exactly while its data    *)
(* word names a pwq, and no two places of the lists hold the same item, so *)
(* the WARN_ON(!list_empty(&work->entry)) of __queue_work() never fires.   *)
QueuedOnce ==
  /\ \A x \in Item : OnList(x) <=> data[x].high \in Pwq
  /\ \A g \in Heads : \A j \in 1 .. Len(At(g)) :
       \A h \in Heads : \A k \in 1 .. Len(At(h)) :
         At(g)[j] = At(h)[k] => g = h /\ j = k

(* The works of pwq q that hold one of its max_active slots: those on a    *)
(* list other than q's delayed_works, and those being executed.            *)
Active(q) ==
  Cardinality({x \in Work : data[x].high = q /\ ~data[x].delayed})
    + Cardinality({w \in Worker : current_pwq[w] = q /\ current_work[w] \in Work})

(* max_active is kept exactly: nr_active counts the slots in use, no more  *)
(* than max_active are, and a work waits in delayed_works only while all   *)
(* are (a slot freed by a return is handed on, never leaked).              *)
MaxActiveExact ==
  \A q \in Pwq : /\ nr_active[q] = Active(q)
                 /\ nr_active[q] <= MaxActive[q]
                 /\ delayed_works[q] # <<>> => nr_active[q] = MaxActive[q]
                 /\ \A x \in Work : (data[x].high = q /\ data[x].delayed)
                                   <=> \E k \in 1 .. Len(delayed_works[q]) : delayed_works[q][k] = x

(* Works handed over by a collision are never orphaned: only a worker that *)
(* is executing, or walks its scheduled list, has any (the WARN_ON_ONCE in *)
(* worker_thread()), and it has none while it rechecks, sleeps or dies.     *)
ScheduledHeld ==
  \A w \in Worker : scheduled[w] # <<>> => pc[w] \in {"exec", "ret", "sched"}

(* A queued work is executed, whatever else is queued.                     *)
Executes == \A x \in Work : OnList(x) ~> Executing(x) # {}

(* Too many idle workers never stay unnoticed: the idle timer is pending,  *)
(* or its handler is about to run.                                         *)
TrimArmed == lock = None /\ too_many_workers(nr_idle, nr_workers) => idle_timer \/ timer_cb

(* The pool's books agree with its workers and works at every unlock: the  *)
(* idle list and the counts of workers, the idle timer while there are too *)
(* many, the slots of max_active, and who holds a chain of linked works.   *)
PoolBooks == IdleExact /\ TrimArmed /\ MaxActiveExact /\ ScheduledHeld

(* x is in front of y in s.                                                *)
InFront(s, x, y) == \E j, k \in 1 .. Len(s) : j < k /\ s[j] = x /\ s[k] = y

(* Of two queued works of a pwq, x goes before y: y waits in the pwq's     *)
(* delayed_works s, where x is in front of it, or x has left it already.   *)
Sooner(s, d, x, y) == d[y].delayed /\ (~d[x].delayed \/ InFront(s, x, y))

(* A pwq as an OrderedQueue.                                               *)
OrdQueued(q) == {x \in Work : data[x].high = q}
OrdAhead(q) == [y \in Work |-> {x \in OrdQueued(q) :
                 y \in OrdQueued(q) /\ Sooner(delayed_works[q], data, x, y)}]
OrdRunning(q) == {x \in Work : \E w \in Worker : current_pwq[w] = q /\ current_work[w] = x}
Ordered(q) == INSTANCE OrderedQueue
                WITH queued <- OrdQueued(q), ahead <- OrdAhead(q), running <- OrdRunning(q)

(* The pwqs of ordered workqueues.                                         *)
OrderedPwq == {q \in Pwq : MaxActive[q] = 1}
OrderedStep(q) == [Ordered(q)!Next]_<<OrdQueued(q), OrdAhead(q), OrdRunning(q)>>

(* An ordered workqueue (alloc_ordered_workqueue(), max_active 1) runs at  *)
(* most one of its works at a time, in the order of queue_work() and less  *)
(* the canceled ones, although several workers serve the pool, the pool    *)
(* serves other workqueues, a work may be deferred to the scheduled list   *)
(* of a worker that runs it for another of them, and a canceler may steal  *)
(* the holder of the slot, or a delayed work from under its barriers: such *)
(* a pwq of __queue_work(), pwq_activate_first_delayed(),                  *)
(* try_to_grab_pending() and process_one_work() implements OrderedQueue.   *)
InQueuedOrder == /\ \A q \in OrderedPwq : Ordered(q)!Init
                 /\ [][\A q \in OrderedPwq : OrderedStep(q)]_vars
===============================================================================
