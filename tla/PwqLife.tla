------------------------------ MODULE PwqLife ------------------------------
(***************************************************************************)
(* The life of workqueues, pool_workqueues (pwqs) and worker pools of      *)
(* workqueue.c: alloc_workqueue(), apply_workqueue_attrs(),                *)
(* destroy_workqueue(), the reference counts, and the release thread that  *)
(* takes a pool down while its workers, its manager and its timer run.     *)
(*                                                                         *)
(* A pool is found by its attributes (a cookie) and shared.  What its      *)
(* workers do is WorkerPool's matter: here they are counted (idle, dying,  *)
(* one may manage, one per running work).  wq_pool_lock is a variable, as  *)
(* the release thread keeps it for many steps; what takes it and gives it  *)
(* back at once, and every critical section of a pool's lock, is one step. *)
(***************************************************************************)
EXTENDS Integers, FiniteSets, Sequences

CONSTANTS Wq, Pwq, Pool, Work, Cookie, None,
          MaxWorkers,   \* bound: workers of a pool, dying ones included
          MaxApplies    \* bound: calls of apply_workqueue_attrs()

(* "release" is the release thread, which takes wq_pool_lock like an owner.*)
ASSUME LifeAssumption ==
  /\ IsFiniteSet(Wq) /\ IsFiniteSet(Pwq) /\ IsFiniteSet(Work)
  /\ None \notin Wq \cup Pwq \cup Pool \cup Work \cup Cookie \cup {"release"}
  /\ "release" \notin Wq
  /\ MaxWorkers \in Nat /\ MaxApplies \in Nat

VARIABLES
  state, dfl, old,   \* wq: "none", "live", "apply", "dead"; dfl_pwq; ctx->dfl_pwq
  dpc, putting,      \* wq: where its destroyer is, and the pwq it puts
  applies,           \* the calls of apply_workqueue_attrs() so far
  pwq,               \* the fields of each struct pool_workqueue
  pool,              \* the fields of each struct worker_pool
  plock,             \* pool->lock when a destroyer keeps it over two steps
  at, running,       \* where a work is queued; the works executed for a pwq
  relq, rel,         \* pwq_release_list; the release thread
  wrlock             \* the writer of wq_pool_lock

wqVars == <<state, dfl, old, dpc, putting, applies>>
workVars == <<at, running>>
vars == <<wqVars, pwq, pool, plock, workVars, relq, rel, wrlock>>

NoPwq == [phase |-> "none", pool |-> None, wq |-> None, refcnt |-> 0]
NoPool == [phase |-> "none", cookie |-> None, refcnt |-> 0, hashed |-> FALSE, idle |-> 0,
           dying |-> 0, manager |-> "none", detach |-> "unset", timer |-> FALSE, handler |-> FALSE]

Init ==
  /\ state = [w \in Wq |-> "none"] /\ dfl = [w \in Wq |-> None] /\ old = [w \in Wq |-> None]
  /\ dpc = [w \in Wq |-> "out"] /\ putting = [w \in Wq |-> None] /\ applies = 0
  /\ pwq = [q \in Pwq |-> NoPwq] /\ pool = [p \in Pool |-> NoPool]
  /\ plock = [p \in Pool |-> None]
  /\ at = [x \in Work |-> None] /\ running = {}
  /\ relq = <<>> /\ rel = [pc |-> "pop", pwq |-> None, last |-> FALSE]
  /\ wrlock = None

Queued(q) == {x \in Work : at[x] = q}
InFlight(q) == (Queued(q) \X {"queued"}) \cup ({x \in Work : <<x, q>> \in running} \X {"running"})
Linked(w) == {q \in Pwq : pwq[q].phase = "linked" /\ pwq[q].wq = w}
Waiting(p) == {x \in Work : at[x] # None /\ pwq[at[x]].pool = p}
Busy(p) == {r \in running : pwq[r[2]].pool = p}
Managing(p) == IF pool[p].manager \in {"creates", "locks"} THEN 1 ELSE 0
Attached(p) == pool[p].idle + pool[p].dying + Managing(p) + Cardinality(Busy(p))
Unlocked(p) == plock[p] = None
-------------------------------------------------------------------------------
(* References.                                                             *)

(* put_pwq(), under the pool's lock: the last reference queues the pwq for *)
(* the release thread.                                                     *)
PutPwq(pw, q) ==
  /\ pwq' = [pw EXCEPT ![q].refcnt = @ - 1]
  /\ relq' = IF pw[q].refcnt = 1 THEN Append(relq, q) ELSE relq

MatchingNone(c) == {}   \* wrong: attributes are compared by address
Matching(c) == {p \in Pool : pool[p].hashed /\ pool[p].cookie = c}

(* get_unbound_pool(): the pool with these attributes, or a new one with   *)
(* its first worker.  (When that worker cannot be created the new pool is  *)
(* torn down again before anybody sees it, and the call fails.)            *)
GetUnboundPool(p, c) ==
  IF Matching(c) # {}
    THEN p \in Matching(c) /\ pool' = [pool EXCEPT ![p].refcnt = @ + 1]
    ELSE /\ pool[p].phase = "none"
         /\ pool' = [pool EXCEPT ![p] = [NoPool EXCEPT !.phase = "live", !.cookie = c,
                                           !.refcnt = 1, !.hashed = TRUE, !.idle = 1]]
-------------------------------------------------------------------------------
(* The owner of a workqueue.                                               *)

(* apply_wqattrs_prepare() and _commit(): a new pwq becomes the default    *)
(* one; the old one is put in ApplyCleanup, still under the write lock.    *)
Install(w, q, p, c) ==
  /\ pwq[q].phase = "none"
  /\ GetUnboundPool(p, c) /\ Unlocked(p)
  /\ pwq' = [pwq EXCEPT ![q] = [phase |-> "linked", pool |-> p, wq |-> w, refcnt |-> 1]]
  /\ dfl' = [dfl EXCEPT ![w] = q]
  /\ old' = [old EXCEPT ![w] = dfl[w]]
  /\ state' = [state EXCEPT ![w] = "apply"]
  /\ wrlock' = w

AllocWorkqueue(w) ==
  /\ state[w] = "none" /\ dpc[w] = "out" /\ wrlock = None
  /\ \E q \in Pwq, p \in Pool, c \in Cookie : Install(w, q, p, c)
  /\ UNCHANGED <<dpc, putting, applies, plock, workVars, relq, rel>>

ApplyAttrs(w) ==
  /\ state[w] = "live" /\ dpc[w] = "out" /\ wrlock = None /\ applies < MaxApplies
  /\ applies' = applies + 1
  /\ \E q \in Pwq, p \in Pool, c \in Cookie : Install(w, q, p, c)
  /\ UNCHANGED <<dpc, putting, plock, workVars, relq, rel>>

ApplyCleanup(w) ==
  /\ state[w] = "apply"
  /\ IF old[w] = None THEN UNCHANGED <<pwq, relq>>
     ELSE Unlocked(pwq[old[w]].pool) /\ PutPwq(pwq, old[w])
  /\ state' = [state EXCEPT ![w] = "live"] /\ old' = [old EXCEPT ![w] = None]
  /\ wrlock' = None
  /\ UNCHANGED <<dfl, dpc, putting, applies, pool, plock, workVars, rel>>

(* destroy_workqueue() of a drained workqueue; its caller uses it no more. *)
Destroy(w) ==
  /\ state[w] = "live" /\ dpc[w] = "out" /\ wrlock = None
  /\ \A q \in Linked(w) : InFlight(q) = {} /\ (q = dfl[w] \/ pwq[q].refcnt <= 1)
  /\ state' = [state EXCEPT ![w] = "dead"]
  /\ putting' = [putting EXCEPT ![w] = dfl[w]]
  /\ dfl' = [dfl EXCEPT ![w] = None]
  /\ dpc' = [dpc EXCEPT ![w] = "put"]
  /\ UNCHANGED <<old, applies, pwq, pool, plock, workVars, relq, rel, wrlock>>

(* put_pwq_unlocked(): the unlock reads pwq->pool again.                   *)
DestroyPut(w) ==
  LET p == pwq[putting[w]].pool IN
  /\ dpc[w] = "put" /\ Unlocked(p)
  /\ plock' = [plock EXCEPT ![p] = w]
  /\ PutPwq(pwq, putting[w])
  /\ dpc' = [dpc EXCEPT ![w] = "unlock"]
  /\ UNCHANGED <<state, dfl, old, putting, applies, pool, workVars, rel, wrlock>>

DestroyUnlock(w) ==
  /\ dpc[w] = "unlock"
  /\ plock' = [p \in Pool |-> IF plock[p] = w THEN None ELSE plock[p]]
  /\ dpc' = [dpc EXCEPT ![w] = "out"] /\ putting' = [putting EXCEPT ![w] = None]
  /\ UNCHANGED <<state, dfl, old, applies, pwq, pool, workVars, relq, rel, wrlock>>
-------------------------------------------------------------------------------
(* Works and workers.                                                      *)

(* The pool a work last ran in.  worker_pool_assign_id() files a new pool  *)
(* under a number but leaves pool->id -1, so no work ever names its pool.  *)
LastPool(x) == None

(* Where __queue_work() puts a work: the pwq it is running for, if it is   *)
(* found in its last pool, else dfl_pwq.                                   *)
TargetPwq(x, w) ==
  LET there == {r \in running : r[1] = x /\ pwq[r[2]].wq = w /\ pwq[r[2]].pool = LastPool(x)}
  IN IF there = {} THEN dfl[w] ELSE (CHOOSE r \in there : TRUE)[2]

(* Wrong: a queued work does not hold its pwq.                             *)
QueueWorkUncounted(x, w) ==
  /\ state[w] = "live" /\ wrlock = None /\ at[x] = None
  /\ Unlocked(pwq[dfl[w]].pool)
  /\ at' = [at EXCEPT ![x] = dfl[w]]
  /\ UNCHANGED <<wqVars, pwq, pool, plock, running, relq, rel, wrlock>>

(* __queue_work() holds wq_pool_lock for reading throughout.               *)
QueueWork(x, w) ==
  LET q == TargetPwq(x, w) IN
  /\ state[w] = "live" /\ wrlock = None /\ at[x] = None
  /\ Unlocked(pwq[q].pool)
  /\ pwq' = [pwq EXCEPT ![q].refcnt = @ + 1]
  /\ at' = [at EXCEPT ![x] = q]
  /\ UNCHANGED <<wqVars, pool, plock, running, relq, rel, wrlock>>

too_many_workers(f, busy) ==
  LET idle == f.idle + (IF f.manager = "none" THEN 0 ELSE 1) IN idle > 2 /\ (idle - 2) * 4 >= busy

(* worker_enter_idle()                                                     *)
EnterIdle(f, busy) == [f EXCEPT !.idle = @ + 1,
                        !.timer = @ \/ too_many_workers([f EXCEPT !.idle = @ + 1], busy)]

(* A worker takes a work unless it is the last idle one and nobody manages *)
(* (then it manages); a work that executes in this pool waits for that.    *)
Execute(x) ==
  LET q == at[x]  p == pwq[q].pool IN
  /\ at[x] # None /\ Unlocked(p)
  /\ \A r \in Busy(p) : r[1] # x
  /\ pool[p].idle > (IF pool[p].manager = "none" THEN 1 ELSE 0)
  /\ pool' = [pool EXCEPT ![p].idle = @ - 1]
  /\ at' = [at EXCEPT ![x] = None]
  /\ running' = running \cup {<<x, q>>}
  /\ UNCHANGED <<wqVars, pwq, plock, relq, rel, wrlock>>

need_to_create_worker(p) == Waiting(p) # {} /\ pool[p].idle = 0

BecomeManager(p) ==
  /\ Waiting(p) # {} /\ pool[p].idle = 1 /\ pool[p].manager = "none" /\ Unlocked(p)
  /\ pool' = [pool EXCEPT ![p].idle = 0, ![p].manager = "creates"]
  /\ UNCHANGED <<wqVars, pwq, plock, workVars, relq, rel, wrlock>>

(* maybe_create_worker(): without the lock the manager creates a worker,   *)
(* also when another has become idle; ...                                  *)
ManagerCreates(p) ==
  /\ pool[p].manager = "creates" /\ Unlocked(p)
  /\ Attached(p) < MaxWorkers
  /\ pool' = [pool EXCEPT ![p] = EnterIdle([@ EXCEPT !.manager = "locks"], Cardinality(Busy(p)))]
  /\ UNCHANGED <<wqVars, pwq, plock, workVars, relq, rel, wrlock>>

(* ... when that fails it tries again until none is needed.                *)
ManagerGivesUp(p) ==
  /\ pool[p].manager = "creates" /\ ~need_to_create_worker(p)
  /\ pool' = [pool EXCEPT ![p].manager = "locks"]
  /\ UNCHANGED <<wqVars, pwq, plock, workVars, relq, rel, wrlock>>

(* With the lock: once more, or back to its loop and to the idle list.     *)
ManagerEnds(p) ==
  /\ pool[p].manager = "locks" /\ Unlocked(p)
  /\ pool' = IF need_to_create_worker(p) THEN [pool EXCEPT ![p].manager = "creates"]
             ELSE [pool EXCEPT ![p] = EnterIdle([@ EXCEPT !.manager = "none"], Cardinality(Busy(p)))]
  /\ UNCHANGED <<wqVars, pwq, plock, workVars, relq, rel, wrlock>>

(* pwq_dec_nr_in_flight() puts the pwq; the worker goes idle.              *)
Return(r) ==
  LET q == r[2]  p == pwq[q].pool IN
  /\ r \in running /\ Unlocked(p)
  /\ running' = running \ {r}
  /\ PutPwq(pwq, q)
  /\ pool' = [pool EXCEPT ![p] = EnterIdle(@, Cardinality(Busy(p)) - 1)]
  /\ UNCHANGED <<wqVars, plock, at, rel, wrlock>>

(* The idle timer: its handler destroys an idle worker or arms it again.   *)
TimerFires(p) ==
  /\ pool[p].timer /\ ~pool[p].handler
  /\ pool' = [pool EXCEPT ![p].timer = FALSE, ![p].handler = TRUE]
  /\ UNCHANGED <<wqVars, pwq, plock, workVars, relq, rel, wrlock>>

TimerHandler(p) ==
  /\ pool[p].handler /\ Unlocked(p)
  /\ IF too_many_workers(pool[p], Cardinality(Busy(p)))
       THEN \/ pool' = [pool EXCEPT ![p].handler = FALSE, ![p].timer = TRUE]
            \/ pool[p].idle > 0 /\ pool' = [pool EXCEPT ![p].idle = @ - 1, ![p].dying = @ + 1]
       ELSE pool' = [pool EXCEPT ![p].handler = FALSE]
  /\ UNCHANGED <<wqVars, pwq, plock, workVars, relq, rel, wrlock>>

(* worker_detach_from_pool() of a destroyed worker; the last one completes *)
(* detach_completion, if it is there.                                      *)
Detach(p) ==
  /\ pool[p].dying > 0
  /\ pool' = [pool EXCEPT ![p].dying = @ - 1,
                ![p].detach = IF @ = "set" /\ Attached(p) = 1 THEN "done" ELSE @]
  /\ UNCHANGED <<wqVars, pwq, plock, workVars, relq, rel, wrlock>>
-------------------------------------------------------------------------------
(* The release thread: pwq_release_thread(), pwq_unbound_release(),        *)
(* put_unbound_pool().                                                     *)

RelPool == pwq[rel.pwq].pool
RelGoto(l) == rel' = [rel EXCEPT !.pc = l]

Pop ==
  /\ rel.pc = "pop" /\ relq # <<>>
  /\ rel' = [rel EXCEPT !.pc = "unlink", !.pwq = Head(relq)]
  /\ relq' = Tail(relq)
  /\ UNCHANGED <<wqVars, pwq, pool, plock, workVars, wrlock>>

(* The pwq leaves wq->pwqs and gives its reference to the pool up; the     *)
(* last reference unhashes the pool.                                       *)
Unlink ==
  LET p == RelPool  w == pwq[rel.pwq].wq IN
  /\ rel.pc = "unlink" /\ wrlock = None
  /\ pwq' = [pwq EXCEPT ![rel.pwq].phase = "unlinked"]
  /\ pool' = [pool EXCEPT ![p].refcnt = @ - 1, ![p].hashed = @ /\ pool[p].refcnt > 1]
  /\ rel' = [rel EXCEPT !.last = (Linked(w) = {rel.pwq}),
                        !.pc = IF pool[p].refcnt = 1 THEN "manager" ELSE "free"]
  /\ wrlock' = IF pool[p].refcnt = 1 THEN "release" ELSE None
  /\ UNCHANGED <<wqVars, plock, workVars, relq>>

(* The release thread becomes the manager and destroys the idle workers.   *)
BecomeLastManager ==
  /\ rel.pc = "manager" /\ Unlocked(RelPool) /\ pool[RelPool].manager = "none"
  /\ pool' = [pool EXCEPT ![RelPool].manager = "release", ![RelPool].idle = 0,
                           ![RelPool].dying = @ + pool[RelPool].idle]
  /\ RelGoto("attach")
  /\ UNCHANGED <<wqVars, pwq, plock, workVars, relq, wrlock>>

(* Wrong: it sets detach_completion although nobody is left to complete it.*)
SetDetachAlways ==
  /\ rel.pc = "attach"
  /\ pool' = [pool EXCEPT ![RelPool].detach = "set"] /\ RelGoto("wait")
  /\ UNCHANGED <<wqVars, pwq, plock, workVars, relq, wrlock>>

SetDetach ==
  /\ rel.pc = "attach"
  /\ IF Attached(RelPool) > 0
       THEN pool' = [pool EXCEPT ![RelPool].detach = "set"] /\ RelGoto("wait")
       ELSE RelGoto("timer") /\ UNCHANGED pool
  /\ UNCHANGED <<wqVars, pwq, plock, workVars, relq, wrlock>>

WaitDetached ==
  /\ rel.pc = "wait" /\ pool[RelPool].detach = "done"
  /\ RelGoto("timer")
  /\ UNCHANGED <<wqVars, pwq, pool, plock, workVars, relq, wrlock>>

(* Wrong: del_timer() in place of del_timer_sync().                        *)
FreePoolAsync ==
  /\ rel.pc = "timer"
  /\ pool' = [pool EXCEPT ![RelPool] = [NoPool EXCEPT !.handler = pool[RelPool].handler]]
  /\ wrlock' = None /\ RelGoto("free")
  /\ UNCHANGED <<wqVars, pwq, plock, workVars, relq>>

(* del_timer_sync() of the idle timer, free_pool(), and the write unlock.  *)
FreePool ==
  /\ rel.pc = "timer" /\ ~pool[RelPool].handler
  /\ pool' = [pool EXCEPT ![RelPool] = NoPool]
  /\ wrlock' = None /\ RelGoto("free")
  /\ UNCHANGED <<wqVars, pwq, plock, workVars, relq>>

(* The pwq is freed, and with its last pwq the workqueue.                  *)
FreePwq ==
  LET w == pwq[rel.pwq].wq IN
  /\ rel.pc = "free"
  /\ state' = IF rel.last THEN [state EXCEPT ![w] = "none"] ELSE state
  /\ pwq' = [pwq EXCEPT ![rel.pwq] = NoPwq]
  /\ rel' = [pc |-> "pop", pwq |-> None, last |-> FALSE]
  /\ UNCHANGED <<dfl, old, dpc, putting, applies, pool, plock, workVars, relq, wrlock>>

Release == Pop \/ Unlink \/ BecomeLastManager \/ SetDetach \/ WaitDetached \/ FreePool \/ FreePwq
OwnerGoesOn(w) == ApplyCleanup(w) \/ DestroyPut(w) \/ DestroyUnlock(w)
ManagerGoesOn(p) == ManagerCreates(p) \/ ManagerGivesUp(p) \/ ManagerEnds(p)
PoolGoesOn(p) == ManagerGoesOn(p) \/ TimerHandler(p) \/ Detach(p)

Next ==
  \/ \E w \in Wq : AllocWorkqueue(w) \/ ApplyAttrs(w) \/ Destroy(w) \/ OwnerGoesOn(w)
  \/ \E x \in Work : Execute(x) \/ \E w \in Wq : QueueWork(x, w)
  \/ \E r \in running : Return(r)
  \/ \E p \in Pool : BecomeManager(p) \/ TimerFires(p) \/ PoolGoesOn(p)
  \/ Release

Spec == Init /\ [][Next]_vars

(* wq_pool_lock is given to a writer that keeps waiting, a pool's lock to  *)
(* who waits for it; a manager, a destroyed worker, a timer handler go on. *)
FairSpec ==
  /\ Spec /\ SF_vars(Release)
  /\ \A w \in Wq : SF_vars(OwnerGoesOn(w))
  /\ WF_vars(\E p \in Pool : ManagerGoesOn(p))
  /\ WF_vars(\E p \in Pool : Detach(p))
  /\ \A p \in Pool : WF_vars(TimerHandler(p))
-------------------------------------------------------------------------------
(* Properties                                                              *)

PwqFields == [phase : {"none", "linked", "unlinked"}, pool : Pool \cup {None},
              wq : Wq \cup {None}, refcnt : Nat]
PoolFields == [phase : {"none", "live"}, cookie : Cookie \cup {None}, refcnt : Nat,
               hashed : BOOLEAN, idle : Nat, dying : Nat, manager : {"none", "creates", "locks", "release"},
               detach : {"unset", "set", "done"}, timer : BOOLEAN, handler : BOOLEAN]

(* Every field holds a value of its type.                                  *)
TypeOK ==
  /\ state \in [Wq -> {"none", "live", "apply", "dead"}]
  /\ dfl \in [Wq -> Pwq \cup {None}] /\ old \in [Wq -> Pwq \cup {None}]
  /\ dpc \in [Wq -> {"out", "put", "unlock"}] /\ putting \in [Wq -> Pwq \cup {None}]
  /\ applies \in 0 .. MaxApplies
  /\ pwq \in [Pwq -> PwqFields] /\ pool \in [Pool -> PoolFields]
  /\ plock \in [Pool -> Wq \cup {None}]
  /\ at \in [Work -> Pwq \cup {None}] /\ running \subseteq Work \X Pwq
  /\ relq \in Seq(Pwq)
  /\ rel \in [pc : {"pop", "unlink", "manager", "attach", "wait", "timer", "free"},
              pwq : Pwq \cup {None}, last : BOOLEAN]
  /\ wrlock \in Wq \cup {None, "release"}

(* The counters stay within what the references and the workers allow.     *)
Bounded ==
  /\ \A q \in Pwq : pwq[q].refcnt <= 1 + 2 * Cardinality(Work)
  /\ \A p \in Pool : pool[p].refcnt <= Cardinality(Pwq) /\ Attached(p) <= MaxWorkers + 1

(* A pwq is counted once by whoever still has to put its base reference    *)
(* and once per work in flight; it is queued for release exactly when that *)
(* is zero.  A pool is counted once per pwq that has not left it.          *)
Holders(q) == {w \in Wq : dfl[w] = q \/ old[w] = q \/ (putting[w] = q /\ dpc[w] = "put")}
InRelq(q) == \E i \in 1 .. Len(relq) : relq[i] = q
Counted(p) == {q \in Pwq : pwq[q].phase = "linked" /\ pwq[q].pool = p}
ReferencesExact ==
  /\ \A q \in Pwq : pwq[q].phase # "none" =>
        /\ pwq[q].refcnt = Cardinality(Holders(q)) + Cardinality(InFlight(q))
        /\ (pwq[q].refcnt = 0) <=> (rel.pwq = q \/ InRelq(q))
  /\ \A p \in Pool : pool[p].refcnt = Cardinality(Counted(p))

(* While its pwq is on wq->pwqs, which is what flush and drain walk, a pwq *)
(* has a pool and a workqueue; and a work in flight has such a pwq, and    *)
(* apply_workqueue_attrs() under way does not change that.                 *)
InFlightIsLinked ==
  /\ \A q \in Pwq : pwq[q].phase = "linked" =>
        pool[pwq[q].pool].phase = "live" /\ state[pwq[q].wq] # "none"
  /\ \A q \in Pwq : InFlight(q) # {} => pwq[q].phase = "linked"

(* Every reference that keeps a pwq is counted, and a pwq with works in    *)
(* flight is linked to its workqueue and has a pool.                       *)
PwqHeld == TypeOK /\ Bounded /\ ReferencesExact /\ InFlightIsLinked

(* A pool that is taken down has no work, and one that is freed has no     *)
(* worker, no timer and no handler left that would use it: the teardown    *)
(* waits for the manager, for every worker and for the timer.              *)
TeardownIsLast == \A p \in Pool :
  /\ pool[p].refcnt = 0 => Waiting(p) = {} /\ Busy(p) = {}
  /\ pool[p].manager = "release" => pool[p].idle = 0 /\ (rel.pc = "timer" => pool[p].dying = 0)
  /\ pool[p].phase = "none" => pool[p] = NoPool

(* One pool per set of attributes; a pool in teardown is not found again.  *)
HashedOnce ==
  /\ \A p1, p2 \in Pool : pool[p1].hashed /\ pool[p2].hashed /\ p1 # p2 => pool[p1].cookie # pool[p2].cookie
  /\ \A p \in Pool : pool[p].hashed <=> pool[p].refcnt > 0

(* A destroyed workqueue is freed, by the release thread with its last pwq *)
(* and after the teardown of the pool, which must not wait for ever.       *)
DestroyedIsFreed ==
  \A w \in Wq : state[w] = "dead" ~> state[w] = "none"

(* put_pwq_unlocked() of destroy_workqueue() reads pwq->pool of a pwq that *)
(* is still allocated.                                                     *)
PutterKeepsPwq == \A w \in Wq : dpc[w] = "unlock" => pwq[putting[w]].phase # "none"
=============================================================================
