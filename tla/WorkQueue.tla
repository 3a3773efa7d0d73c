------------------------------ MODULE WorkQueue ------------------------------
(***************************************************************************)
(* The clients of a worker pool that deal with one work item: delayed      *)
(* works and their timers, flush_work() with its on-stack barrier,         *)
(* flush_delayed_work(), cancel_delayed_work() and cancel_work_sync(), all *)
(* racing with queue_work() and the pool's workers.                        *)
(*                                                                         *)
(* A calling thread is named by the wq_barrier on its stack: Barrier is    *)
(* both the set of callers and the set of their barrier items, and a       *)
(* caller that flushes again uses the same address again.                  *)
(***************************************************************************)
EXTENDS WorkerPool

CONSTANTS
  DelayedWork,  \* the works that are the .work of a delayed_work
  Ops           \* the functions the callers use

ASSUME QueueAssumption ==
  /\ DelayedWork \subseteq Work
  /\ Ops \subseteq {"flush_work", "flush_delayed_work", "cancel_delayed_work", "cancel_sync"}

VARIABLES
  tmr,      \* a delayed_work's timer is pending
  firing,   \* its handler (q->active_node is the timer): "off", "calling"
            \* __queue_work(), or "called" it and about to return
  dwq,      \* dwork->wq, as the pwq it stands for
  arming,   \* delayed works between the test_and_set of PENDING and add_timer()
  cpc,      \* where a caller is
  op, tgt,  \* which function it is in, and for which work
  done,     \* barr.done is completed
  awaits    \* history: the instance of tgt the barrier is for is
            \* "queued", "running", or over ("none")

timerVars  == <<tmr, firing, dwq, arming>>
callVars   == <<cpc, op, tgt>>
waitVars   == <<done, awaits>>
allVars    == <<vars, timerVars, callVars, waitVars>>

(* The pool's fields that no client of this module touches.                *)
workerVars == <<nr_running, pc, die, current_work, current_pwq, idleVars>>

Caller == Barrier

InitQ ==
  /\ Init
  /\ tmr = [x \in DelayedWork |-> FALSE] /\ arming = {}
  /\ firing = [x \in DelayedWork |-> "off"]
  /\ dwq \in [DelayedWork -> Pwq \cup {None}]   \* of an earlier use
  /\ cpc = [c \in Caller |-> "idle"]
  /\ op = [c \in Caller |-> None] /\ tgt = [c \in Caller |-> None]
  /\ done = [c \in Caller |-> FALSE] /\ awaits = [c \in Caller |-> "none"]

(* The pool of a data word: off queue it is worker_pool_find(-1), NULL.    *)
get_work_pool(x) == data[x].high \in Pwq
-------------------------------------------------------------------------------
(* The pool's own steps.  What they do to an instance that is waited for   *)
(* is read off current_work.                                               *)
Claimed(x)  == \E w \in Worker : current_work[w] # x /\ current_work'[w] = x
Returned(x) == \E w \in Worker : current_work[w] = x /\ current_work'[w] # x
Track ==
  awaits' = [c \in Caller |->
    IF awaits[c] = "queued" /\ Claimed(tgt[c]) THEN "running"
    ELSE IF awaits[c] = "running" /\ Returned(tgt[c]) THEN "none"
    ELSE awaits[c]]

(* wq_barrier_func() is the user function of a barrier.                    *)
Pool(A) == A /\ Track /\ UNCHANGED <<timerVars, callVars>>
Complete(w) == done' = [c \in Caller |-> done[c] \/ (pc[w] = "exec" /\ current_work[w] = c)]
WorkerRuns(w) == Pool(WorkerStep(w)) /\ Complete(w)

(* Who is in __queue_work(x), if not a client's queue_work().              *)
ByTimer(x) == x \in DelayedWork /\ firing[x] = "calling"
ByCaller(x) == \E c \in Caller : cpc[c] = "queue" /\ tgt[c] = x
StartQueueing(x) ==
  (\E q \in Pwq : SetPending(x, q)) /\ UNCHANGED <<timerVars, callVars, waitVars>>
ClientQueues(x) ==
  /\ ~ByCaller(x) /\ ~ByTimer(x)
  /\ QueueWork(x)
  /\ UNCHANGED <<timerVars, callVars, waitVars>>
-------------------------------------------------------------------------------
(* Delayed works                                                           *)

(* Wrong: PENDING is not tested.                                           *)
QueueDelayedUntested(x, q) ==
  /\ data' = [data EXCEPT ![x].pending = TRUE]
  /\ arming' = arming \cup {x}
  /\ dwq' = [dwq EXCEPT ![x] = q]
  /\ UNCHANGED <<lock, state, queueing, worklist, delayed_works, nr_active, scheduled,
                 workerVars, tmr, firing, callVars, waitVars>>

(* queue_delayed_work() owns PENDING, then arms the timer.                 *)
QueueDelayed(x, q) ==
  /\ ~data[x].pending
  /\ data' = [data EXCEPT ![x].pending = TRUE]
  /\ arming' = arming \cup {x}
  /\ dwq' = [dwq EXCEPT ![x] = q]
  /\ UNCHANGED <<lock, state, queueing, worklist, delayed_works, nr_active, scheduled,
                 workerVars, tmr, firing, callVars, waitVars>>

ArmTimer(x) ==
  /\ x \in arming
  /\ arming' = arming \ {x}
  /\ tmr' = [tmr EXCEPT ![x] = TRUE]
  /\ UNCHANGED <<vars, firing, dwq, callVars, waitVars>>

(* The timer thread takes the timer off its queue and calls                *)
(* delayed_work_timer_fn(), which queues the work.                         *)
FireTimer(x) ==
  /\ tmr[x] /\ firing[x] = "off"
  /\ tmr' = [tmr EXCEPT ![x] = FALSE]
  /\ firing' = [firing EXCEPT ![x] = "calling"]
  /\ queueing' = [queueing EXCEPT ![x] = dwq[x]]
  /\ UNCHANGED <<lock, state, listVars, scheduled, workerVars, dwq, arming,
                 callVars, waitVars>>

TimerFn(x) ==
  /\ firing[x] = "calling"
  /\ QueueWork(x)
  /\ firing' = [firing EXCEPT ![x] = "called"]
  /\ UNCHANGED <<tmr, dwq, arming, callVars, waitVars>>

FiredTimer(x) ==
  /\ firing[x] = "called"
  /\ firing' = [firing EXCEPT ![x] = "off"]
  /\ UNCHANGED <<vars, tmr, dwq, arming, callVars, waitVars>>
-------------------------------------------------------------------------------
(* Callers                                                                 *)

(* A caller that is idle again has left its function's frame, and          *)
(* flush_delayed_work() ends in flush_work().                              *)
Goto(c, l) ==
  /\ cpc' = [cpc EXCEPT ![c] = l]
  /\ op'  = [op EXCEPT ![c] = CASE l = "idle" -> None
                                [] l = "flush" /\ @ = "flush_delayed_work" -> "flush_work"
                                [] OTHER -> @]
  /\ tgt' = [tgt EXCEPT ![c] = IF l = "idle" THEN None ELSE @]
Stay == UNCHANGED <<lock, state, queueing, scheduled, listVars, workerVars>>

Entry(o, x) == CASE o = "flush_work" -> "flush"
                 [] o = "flush_delayed_work" -> "del_sync"
                 [] OTHER -> IF x \in DelayedWork THEN "del" ELSE "test"

Call(c) ==
  /\ cpc[c] = "idle"
  /\ \E o \in Ops, x \in Work :
       /\ o \in {"flush_delayed_work", "cancel_delayed_work"} => x \in DelayedWork
       /\ op' = [op EXCEPT ![c] = o]
       /\ tgt' = [tgt EXCEPT ![c] = x]
       /\ cpc' = [cpc EXCEPT ![c] = Entry(o, x)]
  /\ Stay /\ UNCHANGED <<timerVars, waitVars>>

(* flush_delayed_work(): del_timer_sync() waits for a running handler; a   *)
(* timer it stops makes the caller the owner, who queues the work at once. *)
DelTimerSync(c) ==
  LET x == tgt[c] IN
  /\ cpc[c] = "del_sync" /\ firing[x] = "off"
  /\ tmr' = [tmr EXCEPT ![x] = FALSE]
  /\ IF tmr[x] THEN /\ queueing' = [queueing EXCEPT ![x] = dwq[x]]
                    /\ Goto(c, "queue")
     ELSE Goto(c, "flush") /\ UNCHANGED queueing
  /\ UNCHANGED <<lock, state, listVars, scheduled, workerVars, firing, dwq, arming, waitVars>>

QueueNow(c) ==
  /\ cpc[c] = "queue"
  /\ QueueWork(tgt[c])
  /\ Goto(c, "flush")
  /\ UNCHANGED <<timerVars, waitVars>>

(* start_flush_work(): the pool is read before it is locked, and the data  *)
(* word is read again under the lock.                                      *)
FlushReturns == [c \in Caller |-> IF op[c] = "cancel_sync" THEN "clear" ELSE "idle"]

FlushRead(c) ==
  /\ cpc[c] = "flush"
  /\ Goto(c, IF get_work_pool(tgt[c]) THEN "flush_lock" ELSE FlushReturns[c])
  /\ Stay /\ UNCHANGED <<timerVars, waitVars>>

FlushLock(c) ==
  /\ cpc[c] = "flush_lock" /\ lock = None
  /\ \/ /\ InsertBarrier(tgt[c], c)
        /\ awaits' = [awaits EXCEPT ![c] = IF get_work_pool(tgt[c]) THEN "queued" ELSE "running"]
        /\ Goto(c, "wait")
        /\ UNCHANGED done
     \/ /\ ~get_work_pool(tgt[c]) /\ Executing(tgt[c]) = {}
        /\ Goto(c, FlushReturns[c])
        /\ Stay /\ UNCHANGED waitVars
  /\ UNCHANGED timerVars

FlushWait(c) ==
  /\ cpc[c] = "wait" /\ done[c]
  /\ Goto(c, FlushReturns[c])
  /\ done' = [done EXCEPT ![c] = FALSE]
  /\ Stay /\ UNCHANGED <<timerVars, awaits>>

(* try_to_grab_pending(): steal the timer, ...                             *)
Grabbed(c) == Goto(c, IF op[c] = "cancel_sync" THEN "mark" ELSE "drop")

DelTimer(c) ==
  /\ cpc[c] = "del"
  /\ IF tmr[tgt[c]]
     THEN tmr' = [tmr EXCEPT ![tgt[c]] = FALSE] /\ Grabbed(c)
     ELSE Goto(c, "test") /\ UNCHANGED tmr
  /\ Stay /\ UNCHANGED <<firing, dwq, arming, waitVars>>

(* ... or claim PENDING, ...                                               *)
TestAndSet(c) ==
  /\ cpc[c] = "test"
  /\ IF data[tgt[c]].pending THEN Goto(c, "pool") ELSE Grabbed(c)
  /\ data' = [data EXCEPT ![tgt[c]].pending = TRUE]
  /\ UNCHANGED <<lock, state, queueing, scheduled, worklist, delayed_works, nr_active,
                 workerVars, timerVars, waitVars>>

ReadPool(c) ==
  /\ cpc[c] = "pool"
  /\ Goto(c, IF get_work_pool(tgt[c]) THEN "steal" ELSE "failed")
  /\ Stay /\ UNCHANGED <<timerVars, waitVars>>

(* ... or take the work off its list, a delayed one being activated first  *)
(* so that its barriers do not stay in delayed_works, and keep PENDING.    *)
Without(s, x) == IF In(s, x) THEN RemoveAt(s, CHOOSE k \in 1 .. Len(s) : s[k] = x) ELSE s

(* Wrong: the work stays on the worklist.                                  *)
StolenListed(x, q) ==
  [DecInFlight(Lists, q, x) EXCEPT !.data[x] = OffQueue(PoolId, TRUE)]

Stolen(x, q) ==
  LET s  == delayed_works[q]
      L1 == IF data[x].delayed
            THEN Activate(Lists, q, CHOOSE k \in 1 .. Len(s) : s[k] = x) ELSE Lists
      L2 == DecInFlight([L1 EXCEPT !.worklist = Without(@, x)], q, x)
  IN  [L2 EXCEPT !.data[x] = OffQueue(PoolId, TRUE)]

Steal(c) ==
  LET x == tgt[c] IN
  /\ cpc[c] = "steal" /\ lock = None
  /\ IF get_work_pool(x)
     THEN /\ SetLists(Stolen(x, data[x].high))
          /\ scheduled' = [w \in Worker |-> Without(scheduled[w], x)]
          /\ awaits' = [d \in Caller |-> IF awaits[d] = "queued" /\ tgt[d] = x
                                         THEN "none" ELSE awaits[d]]
          /\ Grabbed(c)
     ELSE Goto(c, "failed") /\ UNCHANGED <<listVars, scheduled, awaits>>
  /\ UNCHANGED <<lock, state, queueing, workerVars, timerVars, done>>

(* ... or give up: retry (-EAGAIN) unless someone else is canceling.       *)
Canceling(x) == ~get_work_pool(x) /\ data[x].canceling
Failed(c) ==
  /\ cpc[c] = "failed"
  /\ Goto(c, IF ~Canceling(tgt[c]) THEN Entry(op[c], tgt[c])
             ELSE IF op[c] = "cancel_sync" THEN "cond_lock" ELSE "idle")
  /\ Stay /\ UNCHANGED <<timerVars, waitVars>>

(* __cancel_work(): PENDING is cleared, the pool id kept.                  *)
Drop(c) ==
  /\ cpc[c] = "drop"
  /\ data' = [data EXCEPT ![tgt[c]] = OffQueue(@.high, FALSE)]
  /\ Goto(c, "idle")
  /\ UNCHANGED <<lock, state, queueing, scheduled, worklist, delayed_works, nr_active,
                 workerVars, timerVars, waitVars>>

(* __cancel_work_timer(): wait for another canceler, tested under          *)
(* cancel_mutex, ...                                                       *)
CondWait(c) ==
  /\ cpc[c] = "cond_lock"
  /\ Goto(c, IF Canceling(tgt[c]) THEN "cond_wait" ELSE Entry(op[c], tgt[c]))
  /\ Stay /\ UNCHANGED <<timerVars, waitVars>>

(* ... or mark the work, flush it, clear its word and wake the others.     *)
Mark(c) ==
  /\ cpc[c] = "mark"
  /\ data' = [data EXCEPT ![tgt[c]] = [OffQueue(@.high, TRUE) EXCEPT !.canceling = TRUE]]
  /\ Goto(c, "flush")
  /\ UNCHANGED <<lock, state, queueing, scheduled, worklist, delayed_works, nr_active,
                 workerVars, timerVars, waitVars>>

Clear(c) ==
  /\ cpc[c] = "clear"
  /\ data' = [data EXCEPT ![tgt[c]] = WorkDataInit]
  /\ Goto(c, "broadcast")
  /\ UNCHANGED <<lock, state, queueing, scheduled, worklist, delayed_works, nr_active,
                 workerVars, timerVars, waitVars>>

(* Wrong: nobody is woken.                                                 *)
BroadcastSilent(c) ==
  /\ cpc[c] = "broadcast"
  /\ Goto(c, "idle")
  /\ Stay /\ UNCHANGED <<timerVars, waitVars>>

Broadcast(c) ==
  /\ cpc[c] = "broadcast"
  /\ cpc' = [d \in Caller |-> IF d = c THEN "idle"
                              ELSE IF cpc[d] = "cond_wait" THEN Entry(op[d], tgt[d])
                              ELSE cpc[d]]
  /\ op' = [op EXCEPT ![c] = None] /\ tgt' = [tgt EXCEPT ![c] = None]
  /\ Stay /\ UNCHANGED <<timerVars, waitVars>>
-------------------------------------------------------------------------------
Timers == \E x \in DelayedWork : \/ \E q \in Pwq : QueueDelayed(x, q)
                                 \/ ArmTimer(x) \/ FireTimer(x) \/ TimerFn(x) \/ FiredTimer(x)

CallerStep(c) ==
  \/ DelTimerSync(c) \/ QueueNow(c) \/ FlushRead(c) \/ FlushLock(c) \/ FlushWait(c)
  \/ DelTimer(c) \/ TestAndSet(c) \/ ReadPool(c) \/ Steal(c) \/ Failed(c) \/ Drop(c)
  \/ CondWait(c) \/ Mark(c) \/ Clear(c) \/ Broadcast(c)

IdleTimer == (TimerExpire \/ IdleWorkerTimeout) /\ UNCHANGED <<timerVars, callVars, waitVars>>

NextQ == \/ \E x \in Work : StartQueueing(x) \/ ClientQueues(x)
         \/ \E w \in Worker : WorkerRuns(w)
         \/ IdleTimer
         \/ Timers
         \/ \E c \in Caller : Call(c) \/ CallerStep(c)

SpecQ == InitQ /\ [][NextQ]_allVars

(* Every thread runs on: a user function returns, a thread that waits for  *)
(* the pool lock gets it in the end (hence strong fairness), and           *)
(* create_worker() succeeds if it is retried.  So do the timer threads and *)
(* a caller inside a function; nobody has to call one.  A worker is at one *)
(* place at a time, so fairness of the union of its steps is fairness of   *)
(* each.                                                                   *)
FairQ == /\ \A x \in Work : SF_allVars(ClientQueues(x))
         /\ \A x \in DelayedWork : SF_allVars(ArmTimer(x) \/ FireTimer(x) \/ TimerFn(x) \/ FiredTimer(x))
         /\ \A w \in Worker : SF_allVars(WorkerRuns(w))
         /\ \A c \in Caller : SF_allVars(CallerStep(c))
FairSpecQ == SpecQ /\ FairQ
-------------------------------------------------------------------------------
(* Properties                                                              *)

(* Every field of the pool and of its clients holds a value of its type.  *)
TypeOKQ ==
  /\ TypeOK
  /\ tmr \in [DelayedWork -> BOOLEAN] /\ arming \subseteq DelayedWork
  /\ firing \in [DelayedWork -> {"off", "calling", "called"}]
  /\ dwq \in [DelayedWork -> Pwq \cup {None}]
  /\ cpc \in [Caller -> {"idle", "del_sync", "queue", "flush", "flush_lock", "wait", "del", "test",
                         "pool", "steal", "failed", "drop", "cond_lock", "cond_wait", "mark",
                         "clear", "broadcast"}]
  /\ op \in [Caller -> Ops \cup {"flush_work", None}] /\ tgt \in [Caller -> Work \cup {None}]
  /\ done \in [Caller -> BOOLEAN] /\ awaits \in [Caller -> {"none", "queued", "running"}]

(* A flush that waited did wait: when its barrier has run, the instance of *)
(* the work that it was inserted for has finished or was canceled, through *)
(* activation, collisions, chains and steals.                              *)
FlushTrueWaited == \A c \in Caller : cpc[c] = "wait" /\ done[c] => awaits[c] = "none"

(* The callers that own PENDING of work x.                                 *)
Owns(c) == cpc[c] \in {"drop", "mark", "clear"}
             \/ (op[c] = "cancel_sync" /\ cpc[c] \in {"flush", "flush_lock", "wait"})
OwningCallers(x) == {c \in Caller : tgt[c] = x /\ Owns(c)}

(* PENDING has exactly one owner: a queue_work() in progress, the timer    *)
(* (about to be armed, or armed), the list the work is on, or a canceler.  *)
OneOwner ==
  \A x \in Work :
    Cardinality(OwningCallers(x))
      + Cardinality({k \in {"queueing", "arming", "armed", "listed"} :
           CASE k = "queueing" -> queueing[x] # None
             [] k = "arming"   -> x \in arming
             [] k = "armed"    -> x \in DelayedWork /\ tmr[x]
             [] k = "listed"   -> OnList(x)})
    = IF data[x].pending THEN 1 ELSE 0

(* CANCELING is up exactly while one cancel_work_sync() is between mark    *)
(* and clear, so a canceler that sees it may wait for that one to end.     *)
CancelingExact ==
  \A x \in Work : data[x].canceling <=>
    \E c \in Caller : tgt[c] = x /\ op[c] = "cancel_sync"
                     /\ cpc[c] \in {"flush", "flush_lock", "wait", "clear"}

(* No lost wakeup of a canceler in cond_wait(cancel_cond): someone it      *)
(* waits for is still going to broadcast.                                  *)
CancelWaiterWoken ==
  \A c \in Caller : cpc[c] = "cond_wait" =>
    data[tgt[c]].canceling \/ \E d \in Caller : cpc[d] = "broadcast"

(* A worker is on its way to the unlocked pool's worklist: the first idle  *)
(* one is running, or one is executing, creating or about to lock.  (Weaker*)
(* than HeadWoken: stealing a delayed work puts its barriers on the        *)
(* worklist and wakes nobody.)                                             *)
WorkComing ==
  lock = None /\ worklist # <<>> =>
    \/ idle_list # <<>> /\ state[Head(idle_list)] = "running"
    \/ \E w \in Worker : pc[w] \in {"exec", "ret", "create", "relock"}

(* What the callers' functions share with each other: PENDING has one      *)
(* owner, CANCELING is up exactly during a cancel, a canceler that waits   *)
(* for another will be woken, and every field has its type.                *)
CallersExact == TypeOKQ /\ OneOwner /\ CancelingExact /\ CancelWaiterWoken

(* A work that collides with itself, is deferred, delayed, activated and   *)
(* stolen with its barriers is on a list once, and no slot of max_active   *)
(* is lost or given twice (WorkerPool).                                    *)
ListsAndSlots == QueuedOnce /\ MaxActiveExact

(* A flush_work() that inserted its barrier returns, whatever the workers  *)
(* do with the work it is linked to.                                       *)
FlushReturnsInTheEnd == \A c \in Caller : cpc[c] = "wait" ~> cpc[c] # "wait"

(* A cancel_work_sync() that waits on cancel_cond for another canceler goes*)
(* on in the end.                                                          *)
CancelerGoesOn == \A c \in Caller : cpc[c] = "cond_wait" ~> cpc[c] # "cond_wait"

(* "return true if flush_work waited for the work to finish execution,     *)
(* false if it was already idle": a flush that gives up does not leave the *)
(* work executing.                                                         *)
FlushFalseMeansIdle ==
  [][\A c \in Caller : op[c] = "flush_work" /\ cpc[c] # "wait" /\ cpc[c] # "idle" /\ cpc'[c] = "idle"
       => Executing(tgt[c]) = {}]_allVars
=============================================================================
