-------------------------- MODULE WorkerPoolProofs --------------------------
(***************************************************************************)
(* Proofs about WorkerPool: first that every step keeps the types, then,   *)
(* from an inductive invariant, that an item is never executed twice at    *)
(* the same time, that the pool always has a spare worker, that the        *)
(* concurrency level is exact, that no wakeup is lost, and that an item is *)
(* on one list at a time, and executed once per queueing.                  *)
(***************************************************************************)
EXTENDS WorkerPool, ListLemmas, FiniteSetTheorems
-----------------------------------------------------------------------------
(* The sequence operators                                                  *)

(* A chain is not empty and not longer than its list.                      *)
LEMMA ChainLenType ==
  ASSUME NEW S, NEW s \in Seq(S), NEW d, s # <<>>
  PROVE  ChainLen(s, d) \in 1 .. Len(s)
<1> DEFINE I == 1 .. Len(s) - 1
           T == {n \in I : \A m \in 1 .. n : d[s[m]].linked}
<1>1. Len(s) \in Nat \ {0}
  BY EmptySeq
<1>2. IsFiniteSet(I) /\ Cardinality(I) = Len(s) - 1
  BY <1>1, FS_Interval
<1>3. T \in SUBSET I
  OBVIOUS
<1>4. IsFiniteSet(T) /\ Cardinality(T) <= Cardinality(I)
  <2> HIDE DEF I, T
  <2> QED BY <1>2, <1>3, FS_Subset
<1>5. Cardinality(T) \in Nat
  <2> HIDE DEF T
  <2> QED BY <1>4, FS_CardinalityType
<1>6. ChainLen(s, d) = 1 + Cardinality(T)
  BY DEF ChainLen
<1> HIDE DEF T, I
<1> QED
  BY <1>1, <1>2, <1>4, <1>5, <1>6

(* Taking a chain off a list leaves two sequences of the same elements.    *)
LEMMA ChainType ==
  ASSUME NEW S, NEW s \in Seq(S), NEW d, s # <<>>
  PROVE  Chain(s, d) \in Seq(S) /\ Rest(s, d) \in Seq(S)
<1>1. ChainLen(s, d) \in 1 .. Len(s) /\ Len(s) \in Nat
  BY ChainLenType, LenProperties
<1> QED
  BY <1>1, SubSeqType DEF Chain, Rest

(* Removing one element.                                                   *)
LEMMA RemoveAtType ==
  ASSUME NEW S, NEW s \in Seq(S), NEW k \in 1 .. Len(s)
  PROVE  RemoveAt(s, k) \in Seq(S) /\ Len(RemoveAt(s, k)) = Len(s) - 1
<1> DEFINE a == SubSeq(s, 1, k - 1)
           b == SubSeq(s, k + 1, Len(s))
<1>1. /\ a \in Seq(S) /\ b \in Seq(S)
      /\ Len(a) = k - 1 /\ Len(b) = Len(s) - k
  BY SubSeqType, LenProperties
<1>2. RemoveAt(s, k) = a \o b
  BY DEF RemoveAt
<1> HIDE DEF a, b
<1>3. a \o b \in Seq(S) /\ Len(a \o b) = Len(a) + Len(b)
  BY <1>1, ConcatProperties
<1>4. Len(s) \in Nat
  BY LenProperties
<1> QED
  BY <1>1, <1>2, <1>3, <1>4

(* The four lists of works that a helper changes together.                 *)
ListsType == [worklist : Seq(Item), delayed : [Pwq -> Seq(Item)],
              active : [Pwq -> Int], data : [Item -> Word]]

(* Activating a delayed work keeps the types of the lists.                 *)
LEMMA ActivateType ==
  ASSUME NEW L \in ListsType, NEW q \in Pwq, NEW k \in 1 .. Len(L.delayed[q])
  PROVE  Activate(L, q, k) \in ListsType
<1> DEFINE s == L.delayed[q]
           tail == SubSeq(s, k, Len(s))
<1>1. s \in Seq(Item) /\ Len(s) \in Nat
  BY LenProperties DEF ListsType
<1>2. tail \in Seq(Item) /\ Len(tail) = Len(s) - k + 1
  BY <1>1, SubSeqType
<1>3. tail # <<>>
  BY <1>1, <1>2, EmptySeq
<1>4. Chain(tail, L.data) \in Seq(Item) /\ Rest(tail, L.data) \in Seq(Item)
  <2> HIDE DEF tail
  <2> QED BY <1>2, <1>3, ChainType
<1>5. SubSeq(s, 1, k - 1) \in Seq(Item)
  BY <1>1, SubSeqType
<1>6. s[k] \in Item
  BY <1>1, ElementOfSeq
<1> DEFINE W == L.worklist \o Chain(tail, L.data)
           D == SubSeq(s, 1, k - 1) \o Rest(tail, L.data)
<1>7. W \in Seq(Item) /\ D \in Seq(Item)
  <2> HIDE DEF tail, s
  <2> QED BY <1>4, <1>5, ConcatProperties DEF ListsType
<1>8. [L.data EXCEPT ![s[k]].delayed = FALSE] \in [Item -> Word]
  <2> HIDE DEF s
  <2> QED BY <1>6 DEF ListsType, Word
<1>9. Activate(L, q, k) = [worklist |-> W, delayed |-> [L.delayed EXCEPT ![q] = D],
                           active |-> [L.active EXCEPT ![q] = @ + 1],
                           data |-> [L.data EXCEPT ![s[k]].delayed = FALSE]]
  BY DEF Activate
<1> HIDE DEF W, D, s
<1> QED
  BY <1>7, <1>8, <1>9 DEF ListsType

(* So does freeing a slot.                                                 *)
LEMMA DecInFlightType ==
  ASSUME NEW L \in ListsType, NEW q \in Pwq, NEW i
  PROVE  DecInFlight(L, q, i) \in ListsType
<1> DEFINE M == [L EXCEPT !.active[q] = @ - 1]
<1>1. M \in ListsType
  <2>1. L.active \in [Pwq -> Int]
    BY DEF ListsType
  <2>2. [L.active EXCEPT ![q] = @ - 1] \in [Pwq -> Int]
    BY <2>1
  <2>3. M = [L EXCEPT !.active = [L.active EXCEPT ![q] = @ - 1]]
    OBVIOUS
  <2> HIDE DEF M
  <2> QED BY <2>2, <2>3 DEF ListsType
<1>2. M.delayed[q] # <<>> => 1 \in 1 .. Len(M.delayed[q])
  <2> HIDE DEF M
  <2> QED BY <1>1, EmptySeq DEF ListsType
<1>3. M.delayed[q] # <<>> => Activate(M, q, 1) \in ListsType
  <2> HIDE DEF M
  <2> QED BY <1>1, <1>2, ActivateType
<1> QED
  BY <1>1, <1>3 DEF DecInFlight
-----------------------------------------------------------------------------
(* Type correctness, one lemma per action                                  *)

(* Works and barriers are items.                                           *)
LEMMA ItemFacts == Work \subseteq Item /\ Barrier \subseteq Item
  BY DEF Item

(* The data word of an item that is off queue is a word.                   *)
LEMMA OffQueueType ==
  ASSUME NEW id \in Pwq \cup {PoolId, PoolNone}, NEW p \in BOOLEAN
  PROVE  OffQueue(id, p) \in Word
  BY DEF OffQueue, WorkDataInit, Word

(* Waking the first idle worker keeps the states' type.                    *)
LEMMA WokenType ==
  ASSUME NEW l \in Seq(Worker), NEW st \in [Worker -> {"running", "idle"}]
  PROVE  Woken(l, st) \in [Worker -> {"running", "idle"}]
  BY HeadTailProperties DEF Woken

(* test_and_set of PENDING in queue_work() keeps the types.                *)
LEMMA SetPendingType ==
  ASSUME TypeOK, NEW x \in Work, NEW q \in Pwq, SetPending(x, q)
  PROVE  TypeOK'
<1>1. data' \in [Item -> Word]
  <2>1. data \in [Item -> Word] /\ data' = [data EXCEPT ![x].pending = TRUE] /\ x \in Item
    BY ItemFacts DEF TypeOK, SetPending
  <2>2. [data[x] EXCEPT !.pending = TRUE] \in Word
    BY <2>1 DEF Word
  <2> QED BY <2>1, <2>2
<1>2. queueing' \in [Work -> Pwq \cup {None}]
  BY DEF TypeOK, SetPending
<1> QED
  BY <1>1, <1>2 DEF TypeOK, SetPending, idleVars, taskVars, busyVars

(* __queue_work() keeps the types: the item goes to one list, the word     *)
(* names a pwq.                                                            *)
LEMMA QueueWorkType ==
  ASSUME TypeOK, NEW x \in Work, QueueWork(x)
  PROVE  TypeOK'
<1> DEFINE q == queueing[x]
           delay == nr_active[q] >= MaxActive[q]
<1>1. q \in Pwq /\ x \in Item
  BY ItemFacts DEF TypeOK, QueueWork
<1>2. queueing' \in [Work -> Pwq \cup {None}]
  BY DEF TypeOK, QueueWork
<1>3. CASE OnList(x)
  BY <1>2, <1>3 DEF TypeOK, QueueWork, idleVars, listVars, busyVars
<1>4. CASE ~OnList(x)
  <2>1. data' \in [Item -> Word]
    <3>1. data' = [data EXCEPT ![x] = [pending |-> TRUE, delayed |-> delay, linked |-> FALSE,
                                       canceling |-> FALSE, high |-> q]]
      BY <1>4 DEF QueueWork
    <3>2. delay \in BOOLEAN
      OBVIOUS
    <3>3. [pending |-> TRUE, delayed |-> delay, linked |-> FALSE,
           canceling |-> FALSE, high |-> q] \in Word
      <4> HIDE DEF q, delay
      <4> QED BY <1>1, <3>2 DEF Word
    <3> HIDE DEF q, delay
    <3> QED BY <3>1, <3>3 DEF TypeOK
  <2>2. state' \in [Worker -> {"running", "idle"}]
    <3>1. state' = state \/ state' = Woken(idle_list, state)
      BY <1>4 DEF QueueWork
    <3> QED BY <3>1, WokenType DEF TypeOK
  <2>3. /\ worklist' \in Seq(Item)
        /\ delayed_works' \in [Pwq -> Seq(Item)]
        /\ nr_active' \in [Pwq -> Int]
    <3>1. Append(worklist, x) \in Seq(Item) /\ Append(delayed_works[q], x) \in Seq(Item)
      <4> HIDE DEF q
      <4> QED BY <1>1, AppendProperties DEF TypeOK
    <3>2. CASE delay
      <4>1. /\ worklist' = worklist /\ nr_active' = nr_active
            /\ delayed_works' = [delayed_works EXCEPT ![q] = Append(delayed_works[q], x)]
        BY <1>4, <3>2 DEF QueueWork
      <4> HIDE DEF q
      <4> QED BY <1>1, <3>1, <4>1 DEF TypeOK
    <3>3. CASE ~delay
      <4>1. /\ worklist' = Append(worklist, x) /\ delayed_works' = delayed_works
            /\ nr_active' = [nr_active EXCEPT ![q] = nr_active[q] + 1]
        BY <1>4, <3>3 DEF QueueWork
      <4> HIDE DEF q
      <4> QED BY <1>1, <3>1, <4>1 DEF TypeOK
    <3> QED BY <3>2, <3>3
  <2> QED BY <1>2, <1>4, <2>1, <2>2, <2>3 DEF TypeOK, QueueWork, idleVars, busyVars
<1> QED BY <1>3, <1>4

(* A worker that wakes up and leaves the idle list, or sees that it must   *)
(* die, keeps the types.                                                   *)
LEMMA WokeUpType ==
  ASSUME TypeOK, NEW w \in Worker, WokeUp(w)
  PROVE  TypeOK'
<1>1. idle_list' \in Seq(Worker)
  <2>1. CASE die[w]
    BY <2>1 DEF TypeOK, WokeUp
  <2>2. CASE ~die[w]
    <3>1. PICK k \in 1 .. Len(idle_list) : idle_list' = RemoveAt(idle_list, k)
      BY <2>2 DEF WokeUp
    <3> QED BY <3>1, RemoveAtType DEF TypeOK
  <2> QED BY <2>1, <2>2
<1>2. lock' \in Worker \cup {None} /\ nr_idle' \in Int
  BY DEF TypeOK, WokeUp
<1>3. pc' = [pc EXCEPT ![w] = "dying"] \/ pc' = [pc EXCEPT ![w] = "recheck"]
  BY DEF WokeUp
<1> QED
  BY <1>1, <1>2, <1>3 DEF TypeOK, WokeUp, taskVars, listVars, busyVars

(* worker_enter_idle() keeps the types of the idle list, its count and its *)
(* timer.                                                                  *)
LEMMA EnterIdleType ==
  ASSUME TypeOK, NEW v \in Worker, NEW n, EnterIdle(v, n)
  PROVE  idle_list' \in Seq(Worker) /\ nr_idle' \in Int /\ idle_timer' \in BOOLEAN
<1>1. <<v>> \in Seq(Worker)
  OBVIOUS
<1>2. idle_list' \in Seq(Worker)
  BY <1>1, ConcatProperties DEF TypeOK, EnterIdle
<1>3. too_many_workers(nr_idle + 1, n) \in BOOLEAN
  BY DEF too_many_workers
<1> QED
  BY <1>2, <1>3 DEF TypeOK, EnterIdle

(* The end of a dying worker keeps the types.                              *)
LEMMA DyingType ==
  ASSUME TypeOK, NEW w \in Worker, Dying(w)
  PROVE  TypeOK'
  BY DEF TypeOK, Dying, idleVars, listVars, busyVars

(* The three ways out of recheck in worker_thread() keep the types.        *)
LEMMA RecheckType ==
  ASSUME TypeOK, NEW w \in Worker, Recheck(w)
  PROVE  TypeOK'
<1>1. \E l \in {"sleep", "create", "next"} : pc' = [pc EXCEPT ![w] = l]
  BY DEF Recheck
<1>2. /\ lock' \in Worker \cup {None} /\ manager' \in Worker \cup {None}
      /\ nr_running' \in Int
  BY DEF TypeOK, Recheck
<1> QED
  BY <1>1, <1>2 DEF TypeOK, Recheck, taskVars, listVars, busyVars

(* create_worker() keeps the types.                                        *)
LEMMA CreateWorkerType ==
  ASSUME TypeOK, NEW w \in Worker, NEW v \in Worker, CreateWorker(w, v)
  PROVE  TypeOK'
<1>1. idle_list' \in Seq(Worker) /\ nr_idle' \in Int /\ idle_timer' \in BOOLEAN
  BY EnterIdleType DEF CreateWorker
<1>2. pc' = [[pc EXCEPT ![w] = "relock"] EXCEPT ![v] = "asleep"]
  BY DEF CreateWorker
<1>3. state' \in [Worker -> {"running", "idle"}] /\ nr_workers' \in Int
  BY DEF TypeOK, CreateWorker
<1>4. UNCHANGED <<lock, nr_running, queueing, manager, timer_cb, die, listVars, busyVars>>
  BY DEF CreateWorker
<1> QED
  BY <1>1, <1>2, <1>3, <1>4 DEF TypeOK, listVars, busyVars

(* A create_worker() that failed keeps the types.                          *)
LEMMA CreateFailsType ==
  ASSUME TypeOK, NEW w \in Worker, CreateFails(w)
  PROVE  TypeOK'
  BY DEF TypeOK, CreateFails, idleVars, taskVars, listVars, busyVars

(* The end of maybe_create_worker() keeps the types.                       *)
LEMMA RelockType ==
  ASSUME TypeOK, NEW w \in Worker, Relock(w)
  PROVE  TypeOK'
<1>1. \E l \in {"create", "recheck"} : pc' = [pc EXCEPT ![w] = l]
  BY DEF Relock
<1>2. lock' \in Worker \cup {None} /\ manager' \in Worker \cup {None}
  BY DEF TypeOK, Relock
<1> QED
  BY <1>1, <1>2 DEF TypeOK, Relock, taskVars, listVars, busyVars

(* Taking items off the worklist or the scheduled list leaves lists of     *)
(* items.                                                                  *)
LEMMA TakeType ==
  ASSUME TypeOK, NEW w \in Worker, NEW from, NEW n \in Nat, Take(w, from, n)
  PROVE  worklist' \in Seq(Item) /\ scheduled' \in [Worker -> Seq(Item)]
<1>1. ASSUME NEW s \in Seq(Item)
      PROVE  SubSeq(s, n + 1, Len(s)) \in Seq(Item)
  BY SubSeqType, LenProperties
<1>2. /\ SubSeq(worklist, n + 1, Len(worklist)) \in Seq(Item)
      /\ SubSeq(scheduled[w], n + 1, Len(scheduled[w])) \in Seq(Item)
  BY <1>1 DEF TypeOK
<1> QED
  BY <1>2 DEF TypeOK, Take

(* The claim of process_one_work() keeps the types; current_pwq is what    *)
(* the word named.                                                         *)
LEMMA ClaimType ==
  ASSUME TypeOK, NEW w \in Worker, NEW from, NEW i \in Item, Claim(w, from, i),
         UNCHANGED <<queueing, idleVars, die, delayed_works, nr_active>>
  PROVE  TypeOK'
<1>1. worklist' \in Seq(Item) /\ scheduled' \in [Worker -> Seq(Item)]
  BY TakeType DEF Claim
<1>2. data' \in [Item -> Word]
  BY OffQueueType DEF TypeOK, Claim
<1>3. state' \in [Worker -> {"running", "idle"}]
  BY WokenType DEF TypeOK, Claim
<1>4. current_pwq' \in [Worker -> Pwq \cup {PoolId, PoolNone, None}]
  BY DEF TypeOK, Claim, Word
<1>5. current_work' \in [Worker -> Item \cup {None}]
  BY DEF TypeOK, Claim
<1>6. lock' = None /\ nr_running' = nr_running - 1 /\ pc' = [pc EXCEPT ![w] = "exec"]
  BY DEF Claim
<1> QED
  BY <1>1, <1>2, <1>3, <1>4, <1>5, <1>6 DEF TypeOK, idleVars

(* Handing a chain to the executing worker keeps the types.                *)
LEMMA DeferType ==
  ASSUME TypeOK, NEW w \in Worker, NEW from, NEW s \in Seq(Item), s # <<>>, Defer(w, from, s),
         UNCHANGED <<queueing, idleVars, die, delayed_works, nr_active>>
  PROVE  TypeOK'
<1>1. Chain(s, data) \in Seq(Item) /\ Rest(s, data) \in Seq(Item)
  BY ChainType
<1>2. \A v \in Worker : scheduled[v] \o Chain(s, data) \in Seq(Item)
  BY <1>1, ConcatProperties DEF TypeOK
<1>3. scheduled' \in [Worker -> Seq(Item)]
  BY <1>1, <1>2 DEF TypeOK, Defer
<1>4. worklist' \in Seq(Item)
  BY <1>1 DEF TypeOK, Defer
<1> QED
  BY <1>3, <1>4 DEF TypeOK, Defer, idleVars

(* process_one_work(), either way, keeps the types.                        *)
LEMMA ProcessOneWorkType ==
  ASSUME TypeOK, NEW w \in Worker, NEW from, ProcessOneWork(w, from)
  PROVE  TypeOK'
<1> DEFINE s == IF from = "worklist" THEN worklist ELSE scheduled[w]
<1>1. s \in Seq(Item)
  BY DEF TypeOK
<1>2. /\ s # <<>>
      /\ Claim(w, from, Head(s)) \/ Defer(w, from, s)
      /\ UNCHANGED <<queueing, idleVars, die, delayed_works, nr_active>>
  BY DEF ProcessOneWork
<1> HIDE DEF s
<1>3. Head(s) \in Item
  BY <1>1, <1>2, HeadTailProperties
<1>4. CASE Claim(w, from, Head(s))
  BY <1>2, <1>3, <1>4, ClaimType
<1>5. CASE Defer(w, from, s)
  BY <1>1, <1>2, <1>5, DeferType
<1> QED
  BY <1>2, <1>4, <1>5

(* move_linked_works() to the worker's own list keeps the types.           *)
LEMMA MoveLinkedType ==
  ASSUME TypeOK, NEW w \in Worker, MoveLinked(w)
  PROVE  TypeOK'
<1>1. Chain(worklist, data) \in Seq(Item) /\ Rest(worklist, data) \in Seq(Item)
  BY ChainType DEF TypeOK, MoveLinked
<1>2. scheduled[w] \o Chain(worklist, data) \in Seq(Item)
  BY <1>1, ConcatProperties DEF TypeOK
<1> QED
  BY <1>1, <1>2 DEF TypeOK, MoveLinked, idleVars, taskVars

(* The test of keep_working() keeps the types.                             *)
LEMMA LoopEndType ==
  ASSUME TypeOK, NEW w \in Worker, LoopEnd(w)
  PROVE  TypeOK'
<1>1. \E l \in {"next", "sleep"} : pc' = [pc EXCEPT ![w] = l]
  BY DEF LoopEnd
<1>2. nr_running' \in Int
  BY DEF TypeOK, LoopEnd
<1> QED
  BY <1>1, <1>2 DEF TypeOK, LoopEnd, idleVars, taskVars, listVars, busyVars

(* The user function changes nothing of the pool.                          *)
LEMMA RunFuncType ==
  ASSUME TypeOK, NEW w \in Worker, RunFunc(w)
  PROVE  TypeOK'
  BY DEF TypeOK, RunFunc, idleVars, taskVars, listVars, busyVars

(* The pwq of a returning worker is a pwq: it was on the queued item.      *)
LEMMA ReturnType ==
  ASSUME TypeOK, NEW w \in Worker, current_pwq[w] \in Pwq, Return(w)
  PROVE  TypeOK'
<1>1. Lists \in ListsType
  BY DEF TypeOK, Lists, ListsType
<1> DEFINE L == DecInFlight(Lists, current_pwq[w], current_work[w])
<1>2. L \in ListsType
  BY <1>1, DecInFlightType
<1>3. SetLists(L)
  BY DEF Return
<1> HIDE DEF L
<1>4. /\ worklist' \in Seq(Item) /\ delayed_works' \in [Pwq -> Seq(Item)]
      /\ nr_active' \in [Pwq -> Int] /\ data' \in [Item -> Word]
  BY <1>2, <1>3 DEF SetLists, ListsType
<1> QED
  BY <1>4 DEF TypeOK, Return, idleVars, taskVars

(* Going to sleep keeps the types.                                         *)
LEMMA SleepType ==
  ASSUME TypeOK, NEW w \in Worker, Sleep(w)
  PROVE  TypeOK'
<1>1. idle_list' \in Seq(Worker) /\ nr_idle' \in Int /\ idle_timer' \in BOOLEAN
  BY EnterIdleType DEF Sleep
<1> QED
  BY <1>1 DEF TypeOK, Sleep, listVars, busyVars

(* The expiry of the idle timer keeps the types.                           *)
LEMMA TimerExpireType == TypeOK /\ TimerExpire => TypeOK'
  BY DEF TypeOK, TimerExpire, taskVars, listVars, busyVars

(* idle_worker_timeout() keeps the types: what remains of the idle list is *)
(* a prefix of it.                                                         *)
LEMMA IdleWorkerTimeoutType ==
  ASSUME TypeOK, IdleWorkerTimeout
  PROVE  TypeOK'
<1>1. PICK k \in 0 .. Len(idle_list) :
        LET kept == Len(idle_list) - k
            dead == {idle_list[j] : j \in kept + 1 .. Len(idle_list)}
        IN  /\ idle_list' = SubSeq(idle_list, 1, kept)
            /\ nr_idle' = nr_idle - k
            /\ nr_workers' = nr_workers - k
            /\ idle_timer' = (idle_timer \/ too_many_workers(nr_idle - k, nr_workers - k))
            /\ die' = [w \in Worker |-> die[w] \/ w \in dead]
            /\ state' = [w \in Worker |-> IF w \in dead THEN "running" ELSE state[w]]
  BY DEF IdleWorkerTimeout
<1>2. idle_list' \in Seq(Worker)
  BY <1>1, SubSeqType, LenProperties DEF TypeOK
<1>3. nr_idle' \in Int /\ nr_workers' \in Int /\ idle_timer' \in BOOLEAN
  BY <1>1, LenProperties DEF TypeOK, too_many_workers
<1>4. die' \in [Worker -> BOOLEAN] /\ state' \in [Worker -> {"running", "idle"}]
  BY <1>1 DEF TypeOK
<1> QED
  BY <1>2, <1>3, <1>4 DEF TypeOK, IdleWorkerTimeout, listVars, busyVars

(* A step that changes nothing keeps the types.                            *)
LEMMA StutterType == TypeOK /\ UNCHANGED vars => TypeOK'
  BY DEF TypeOK, vars, idleVars, taskVars, listVars, busyVars
-----------------------------------------------------------------------------
(* The pool's invariant                                                    *)

(* The lock is held by the worker that is at a step under the lock.        *)
LockHolder == \A w \in Worker : pc[w] \in {"recheck", "next", "sched", "sleep"} <=> lock = w

(* The idle counter is the length of the idle list.                        *)
IdleLen == nr_idle = Len(idle_list)

(* Spare, kept also by the worker that goes round its loop with the lock:  *)
(* it will not look at the idle list again before it drops the lock.       *)
SpareHeld == (lock = None \/ \E w \in Worker : pc[w] \in {"next", "sched"})
               => idle_list # <<>> \/ manager # None

(* A worker goes to sleep only with the worklist empty.                    *)
SleepEmpty == \A w \in Worker : pc[w] = "sleep" => worklist = <<>>

(* At most one worker per item, and only those that execute have one.      *)
Busy == \A w \in Worker : current_work[w] # None <=> pc[w] \in {"exec", "ret"}

PoolCore == /\ LockHolder /\ NrRunningExact /\ IdleLen /\ SpareHeld
            /\ SleepEmpty /\ Busy /\ NonReentrant

(* None is neither a worker nor an item.                                   *)
LEMMA NoneFacts == None \notin Worker /\ None \notin Item
  BY PoolAssumption DEF Item

(* Clients keep PoolCore: they need the lock free, so no worker is in the   *)
(* loop, and insert_work() wakes the first idle worker.                    *)
LEMMA ClientInv ==
  ASSUME TypeOK, PoolCore, NEW x \in Work,
         (\E q \in Pwq : SetPending(x, q)) \/ QueueWork(x)
  PROVE  PoolCore' /\ (HeadWoken => HeadWoken')
<1>1. CASE \E q \in Pwq : SetPending(x, q)
  BY <1>1 DEF PoolCore, LockHolder, NrRunningExact, IdleLen, SpareHeld, HeadWoken, SleepEmpty,
     Busy, NonReentrant, SetPending, idleVars, taskVars, busyVars
<1>2. CASE QueueWork(x)
  <2>1. /\ lock = None
        /\ UNCHANGED <<lock, nr_running, pc, idle_list, nr_idle, manager, current_work>>
        /\ worklist' # worklist \/ state' # state => state' = Woken(idle_list, state) \/ nr_running # 0
    BY <1>2 DEF QueueWork, idleVars, busyVars, listVars
  <2>2. nr_running = 0 /\ \A w \in Worker : pc[w] # "sleep"
    BY <2>1, NoneFacts DEF PoolCore, LockHolder, NrRunningExact
  <2>3. HeadWoken => HeadWoken'
    BY <2>1, <2>2, HeadTailProperties DEF HeadWoken, Woken, TypeOK
  <2> QED
    BY <2>1, <2>2, <2>3 DEF PoolCore, LockHolder, NrRunningExact, IdleLen, SpareHeld,
       SleepEmpty, Busy, NonReentrant
<1> QED
  BY <1>1, <1>2

(* A barrier keeps PoolCore: as with a work that is queued, the lock is free *)
(* and the first idle worker is woken.                                     *)
LEMMA FlushWorkInv ==
  ASSUME TypeOK, PoolCore, NEW x \in Work, NEW b \in Barrier, FlushWork(x, b)
  PROVE  PoolCore' /\ (HeadWoken => HeadWoken')
<1>1. /\ lock = None
      /\ UNCHANGED <<lock, nr_running, pc, idle_list, nr_idle, manager, current_work>>
      /\ state' = IF nr_running = 0 THEN Woken(idle_list, state) ELSE state
  BY DEF FlushWork, InsertBarrier, idleVars
<1>2. nr_running = 0 /\ \A w \in Worker : pc[w] # "sleep"
  BY <1>1, NoneFacts DEF PoolCore, LockHolder, NrRunningExact
<1>3. HeadWoken'
  BY <1>1, <1>2, HeadTailProperties DEF HeadWoken, Woken, TypeOK
<1> QED
  BY <1>1, <1>2, <1>3 DEF PoolCore, LockHolder, NrRunningExact, IdleLen, SpareHeld, SleepEmpty,
     Busy, NonReentrant

(* A worker that takes the lock keeps PoolCore: the parts about an unlocked *)
(* pool are void.                                                          *)
LEMMA WokeUpInv ==
  ASSUME TypeOK, PoolCore, NEW w \in Worker, WokeUp(w)
  PROVE  PoolCore' /\ (HeadWoken => HeadWoken')
<1>1. /\ pc[w] = "asleep" /\ lock = None
      /\ UNCHANGED <<nr_running, worklist, manager, state, current_work>>
  BY DEF WokeUp, taskVars, listVars, busyVars
<1>2. CASE die[w]
  <2>1. pc' = [pc EXCEPT ![w] = "dying"] /\ UNCHANGED <<lock, idle_list, nr_idle>>
    BY <1>2 DEF WokeUp
  <2> QED
    BY <1>1, <2>1 DEF TypeOK, PoolCore, LockHolder, NrRunningExact, IdleLen, SpareHeld, HeadWoken,
       SleepEmpty, Busy, NonReentrant
<1>3. CASE ~die[w]
  <2>1. pc' = [pc EXCEPT ![w] = "recheck"] /\ lock' = w /\ nr_idle' = nr_idle - 1
    BY <1>3 DEF WokeUp
  <2>2. PICK k \in 1 .. Len(idle_list) : idle_list' = RemoveAt(idle_list, k)
    BY <1>3 DEF WokeUp
  <2>3. Len(idle_list') = Len(idle_list) - 1
    BY <2>2, RemoveAtType DEF TypeOK
  <2> QED
    BY SMTT(30), <1>1, <2>1, <2>3, NoneFacts DEF TypeOK, PoolCore, LockHolder, NrRunningExact, IdleLen,
       SpareHeld, HeadWoken, SleepEmpty, Busy, NonReentrant
<1> QED
  BY <1>2, <1>3

(* The end of a dying worker keeps PoolCore.                                *)
LEMMA DyingInv ==
  ASSUME TypeOK, PoolCore, NEW w \in Worker, Dying(w)
  PROVE  PoolCore' /\ (HeadWoken => HeadWoken')
  BY DEF TypeOK, PoolCore, LockHolder, NrRunningExact, IdleLen, SpareHeld, HeadWoken, SleepEmpty,
     Busy, NonReentrant, Dying, idleVars, listVars, busyVars

(* Recheck keeps PoolCore: who starts to work sees an idle worker or a      *)
(* manager, and who leaves to create one is the manager.                   *)
LEMMA RecheckInv ==
  ASSUME TypeOK, PoolCore, NEW w \in Worker, Recheck(w)
  PROVE  PoolCore' /\ (HeadWoken => HeadWoken')
<1>1. /\ pc[w] = "recheck"
      /\ UNCHANGED <<idle_list, nr_idle, worklist, state, current_work>>
  BY DEF Recheck, taskVars, listVars, busyVars
<1>2. lock = w /\ nr_running = 0
  BY <1>1 DEF TypeOK, PoolCore, LockHolder, NrRunningExact
<1>3. Len(idle_list) \in Nat /\ (Len(idle_list) = 0 <=> idle_list = <<>>)
  BY EmptySeq, LenProperties DEF TypeOK
<1>4. CASE ~need_more_worker /\ pc' = [pc EXCEPT ![w] = "sleep"] /\ UNCHANGED <<lock, manager, nr_running>>
  BY <1>1, <1>2, <1>4, NoneFacts DEF TypeOK, PoolCore, LockHolder, NrRunningExact, IdleLen, SpareHeld,
     HeadWoken, SleepEmpty, Busy, NonReentrant, need_more_worker
<1>5. CASE /\ need_more_worker /\ ~may_start_working /\ pc' = [pc EXCEPT ![w] = "create"]
           /\ manager' = w /\ lock' = None /\ UNCHANGED nr_running
  BY <1>1, <1>2, <1>3, <1>5, NoneFacts DEF TypeOK, PoolCore, LockHolder, NrRunningExact, IdleLen,
     SpareHeld, HeadWoken, SleepEmpty, Busy, NonReentrant, may_start_working
<1>6. CASE /\ need_more_worker /\ (may_start_working \/ manager # None)
           /\ pc' = [pc EXCEPT ![w] = "next"] /\ nr_running' = nr_running + 1
           /\ UNCHANGED <<lock, manager>>
  BY <1>1, <1>2, <1>3, <1>6, NoneFacts DEF TypeOK, PoolCore, LockHolder, NrRunningExact, IdleLen,
     SpareHeld, HeadWoken, SleepEmpty, Busy, NonReentrant, may_start_working
<1> QED
  BY <1>4, <1>5, <1>6 DEF Recheck

(* EnterIdle puts a worker in front of the idle list and counts it.        *)
LEMMA EnterIdleFacts ==
  ASSUME TypeOK, IdleLen, NEW v \in Worker, NEW n, EnterIdle(v, n)
  PROVE  IdleLen' /\ idle_list' # <<>> /\ Head(idle_list') = v
<1>1. <<v>> \in Seq(Worker) /\ Len(<<v>>) = 1
  OBVIOUS
<1>2. idle_list' \in Seq(Worker) /\ Len(idle_list') = 1 + Len(idle_list) /\ idle_list'[1] = v
  BY <1>1, ConcatProperties, LenProperties DEF TypeOK, EnterIdle
<1>3. idle_list' # <<>> /\ Head(idle_list') = v
  BY <1>2, EmptySeq, LenProperties DEF TypeOK
<1> QED
  BY <1>2, <1>3 DEF IdleLen, EnterIdle, TypeOK

(* create_worker() by proxy keeps PoolCore: the new worker is first in the  *)
(* idle list, and running.                                                 *)
LEMMA CreateWorkerInv ==
  ASSUME TypeOK, PoolCore, NEW w \in Worker, NEW v \in Worker, CreateWorker(w, v)
  PROVE  PoolCore' /\ (HeadWoken => HeadWoken')
<1>1. /\ pc[w] = "create" /\ pc[v] = "none" /\ lock = None
      /\ state' = [state EXCEPT ![v] = "running"]
      /\ pc' = [pc EXCEPT ![w] = "relock", ![v] = "asleep"]
      /\ UNCHANGED <<lock, nr_running, worklist, manager, current_work>>
  BY DEF CreateWorker, listVars, busyVars
<1>2. IdleLen' /\ idle_list' # <<>> /\ Head(idle_list') = v
  BY EnterIdleFacts DEF CreateWorker, PoolCore
<1>3. \A u \in Worker : pc'[u] = IF u = v THEN "asleep" ELSE IF u = w THEN "relock" ELSE pc[u]
  BY <1>1 DEF TypeOK
<1>4. state'[v] = "running"
  BY <1>1 DEF TypeOK
<1>5. LockHolder' /\ NrRunningExact' /\ SleepEmpty' /\ Busy'
  <2>1. \A u \in Worker : \A l \in {"recheck", "next", "sched", "sleep", "exec", "ret"} :
          pc'[u] = l <=> pc[u] = l
    <3>1. TAKE u \in Worker
    <3>2. CASE u = v
      <4>1. pc'[u] = "asleep" /\ pc[u] = "none"
        BY <1>1, <1>3, <3>2
      <4> QED BY <4>1
    <3>3. CASE u = w /\ u # v
      <4>1. pc'[u] = "relock" /\ pc[u] = "create"
        BY <1>1, <1>3, <3>3
      <4> QED BY <4>1
    <3>4. CASE u # w /\ u # v
      BY <1>3, <3>4
    <3> QED BY <3>2, <3>3, <3>4
  <2>2. LockHolder'
    BY <1>1, <2>1 DEF PoolCore, LockHolder
  <2>3. NrRunningExact'
    BY <1>1, <2>1 DEF PoolCore, NrRunningExact
  <2>4. SleepEmpty' /\ Busy'
    BY <1>1, <2>1 DEF PoolCore, SleepEmpty, Busy
  <2> QED BY <2>2, <2>3, <2>4
<1>6. SpareHeld' /\ HeadWoken'
  BY <1>2, <1>4 DEF SpareHeld, HeadWoken
<1>7. NonReentrant'
  BY <1>1 DEF PoolCore, NonReentrant
<1> QED
  BY <1>2, <1>5, <1>6, <1>7 DEF PoolCore

(* A failed create_worker() keeps PoolCore: the manager keeps its role.     *)
LEMMA CreateFailsInv ==
  ASSUME TypeOK, PoolCore, NEW w \in Worker, CreateFails(w)
  PROVE  PoolCore' /\ (HeadWoken => HeadWoken')
  BY DEF TypeOK, PoolCore, LockHolder, NrRunningExact, IdleLen, SpareHeld, HeadWoken, SleepEmpty,
     Busy, NonReentrant, CreateFails, idleVars, taskVars, listVars, busyVars

(* The end of maybe_create_worker() keeps PoolCore: the role is given up    *)
(* only with the lock held.                                                *)
LEMMA RelockInv ==
  ASSUME TypeOK, PoolCore, NEW w \in Worker, Relock(w)
  PROVE  PoolCore' /\ (HeadWoken => HeadWoken')
<1>1. /\ pc[w] = "relock" /\ lock = None
      /\ UNCHANGED <<nr_running, idle_list, nr_idle, worklist, state, current_work>>
  BY DEF Relock, taskVars, listVars, busyVars
<1>2. CASE pc' = [pc EXCEPT ![w] = "create"] /\ UNCHANGED <<lock, manager>>
  BY <1>1, <1>2 DEF TypeOK, PoolCore, LockHolder, NrRunningExact, IdleLen, SpareHeld, HeadWoken,
     SleepEmpty, Busy, NonReentrant
<1>3. CASE pc' = [pc EXCEPT ![w] = "recheck"] /\ lock' = w /\ manager' = None
  BY <1>1, <1>3, NoneFacts DEF TypeOK, PoolCore, LockHolder, NrRunningExact, IdleLen, SpareHeld,
     HeadWoken, SleepEmpty, Busy, NonReentrant
<1> QED
  BY <1>2, <1>3 DEF Relock

(* A claim keeps PoolCore: it runs an item that nobody executes, and wakes  *)
(* the next worker before it unlocks.                                      *)
LEMMA ClaimInv ==
  ASSUME TypeOK, PoolCore, NEW w \in Worker, NEW from, NEW i \in Item,
         pc[w] \in {"next", "sched"}, Claim(w, from, i),
         UNCHANGED <<queueing, idleVars, die, delayed_works, nr_active>>
  PROVE  PoolCore' /\ (HeadWoken => HeadWoken')
<1>1. /\ lock' = None /\ pc' = [pc EXCEPT ![w] = "exec"] /\ nr_running' = nr_running - 1
      /\ current_work' = [current_work EXCEPT ![w] = i]
      /\ \A u \in Worker : current_work[u] # i
      /\ UNCHANGED <<idle_list, nr_idle, manager>>
  BY DEF Claim, Executing, idleVars
<1>2. lock = w /\ nr_running = 1 /\ nr_running' = 0
  BY <1>1 DEF PoolCore, LockHolder, NrRunningExact
<1>3. \A u \in Worker : pc[u] \in {"recheck", "next", "sched", "sleep"} => u = w
  BY <1>2 DEF PoolCore, LockHolder
<1>4. LockHolder' /\ NrRunningExact' /\ IdleLen' /\ SpareHeld' /\ SleepEmpty'
  BY <1>1, <1>2, <1>3, NoneFacts DEF TypeOK, PoolCore, LockHolder, NrRunningExact, IdleLen,
     SpareHeld, SleepEmpty
<1>5. HeadWoken'
  <2>1. worklist' # <<>> => state' = Woken(idle_list, state)
    BY <1>2 DEF Claim
  <2> QED
    BY <1>1, <2>1, HeadTailProperties DEF HeadWoken, Woken, TypeOK
<1>6. Busy' /\ NonReentrant'
  BY <1>1, NoneFacts DEF TypeOK, PoolCore, Busy, NonReentrant
<1> QED
  BY <1>4, <1>5, <1>6 DEF PoolCore

(* process_one_work(), either way, keeps PoolCore.                          *)
LEMMA ProcessOneWorkInv ==
  ASSUME TypeOK, PoolCore, NEW w \in Worker, NEW from, pc[w] \in {"next", "sched"},
         ProcessOneWork(w, from)
  PROVE  PoolCore' /\ (HeadWoken => HeadWoken')
<1> DEFINE s == IF from = "worklist" THEN worklist ELSE scheduled[w]
<1>1. /\ s # <<>> /\ s \in Seq(Item)
      /\ Claim(w, from, Head(s)) \/ Defer(w, from, s)
      /\ UNCHANGED <<queueing, idleVars, die, delayed_works, nr_active>>
  BY DEF ProcessOneWork, TypeOK
<1> HIDE DEF s
<1>2. Head(s) \in Item
  BY <1>1, HeadTailProperties
<1>3. CASE Claim(w, from, Head(s))
  BY <1>1, <1>2, <1>3, ClaimInv
<1>4. CASE Defer(w, from, s)
  <2>1. /\ pc' = [pc EXCEPT ![w] = "sched"]
        /\ UNCHANGED <<lock, nr_running, state, current_work, idle_list, nr_idle, manager>>
    BY <1>1, <1>4 DEF Defer, idleVars
  <2>2. lock = w /\ w # None
    BY NoneFacts DEF PoolCore, LockHolder
  <2> QED
    BY <2>1, <2>2 DEF TypeOK, PoolCore, LockHolder, NrRunningExact, IdleLen, SpareHeld,
       HeadWoken, SleepEmpty, Busy, NonReentrant
<1> QED
  BY <1>1, <1>3, <1>4

(* Moving a chain to the own list keeps PoolCore.                           *)
LEMMA MoveLinkedInv ==
  ASSUME TypeOK, PoolCore, NEW w \in Worker, MoveLinked(w)
  PROVE  PoolCore' /\ (HeadWoken => HeadWoken')
<1>1. /\ pc[w] = "next" /\ pc' = [pc EXCEPT ![w] = "sched"]
      /\ UNCHANGED <<lock, nr_running, state, current_work, idle_list, nr_idle, manager>>
  BY DEF MoveLinked, idleVars, taskVars
<1>2. lock = w /\ w # None
  BY <1>1, NoneFacts DEF PoolCore, LockHolder
<1> QED
  BY <1>1, <1>2 DEF TypeOK, PoolCore, LockHolder, NrRunningExact, IdleLen, SpareHeld, HeadWoken,
     SleepEmpty, Busy, NonReentrant

(* The test of keep_working() keeps PoolCore: nr_running drops exactly when *)
(* the worker leaves the loop.                                             *)
LEMMA LoopEndInv ==
  ASSUME TypeOK, PoolCore, NEW w \in Worker, LoopEnd(w)
  PROVE  PoolCore' /\ (HeadWoken => HeadWoken')
<1>1. /\ pc[w] = "sched"
      /\ UNCHANGED <<lock, worklist, state, current_work, idle_list, nr_idle, manager>>
  BY DEF LoopEnd, idleVars, taskVars, listVars, busyVars
<1>2. lock = w /\ w # None /\ nr_running = 1
  BY <1>1, NoneFacts DEF PoolCore, LockHolder, NrRunningExact
<1>3. CASE pc' = [pc EXCEPT ![w] = "next"] /\ UNCHANGED nr_running
  BY <1>1, <1>2, <1>3 DEF TypeOK, PoolCore, LockHolder, NrRunningExact, IdleLen, SpareHeld,
     HeadWoken, SleepEmpty, Busy, NonReentrant
<1>4. CASE ~keep_working /\ pc' = [pc EXCEPT ![w] = "sleep"] /\ nr_running' = nr_running - 1
  BY <1>1, <1>2, <1>4 DEF TypeOK, PoolCore, LockHolder, NrRunningExact, IdleLen, SpareHeld,
     HeadWoken, SleepEmpty, Busy, NonReentrant, keep_working
<1> QED
  BY <1>3, <1>4 DEF LoopEnd

(* The user function keeps PoolCore.                                        *)
LEMMA RunFuncInv ==
  ASSUME TypeOK, PoolCore, NEW w \in Worker, RunFunc(w)
  PROVE  PoolCore' /\ (HeadWoken => HeadWoken')
  BY DEF TypeOK, PoolCore, LockHolder, NrRunningExact, IdleLen, SpareHeld, HeadWoken, SleepEmpty,
     Busy, NonReentrant, RunFunc, idleVars, taskVars, listVars, busyVars

(* The return of a user function keeps PoolCore: the lock is taken and      *)
(* nr_running counts the worker again.                                     *)
LEMMA ReturnInv ==
  ASSUME TypeOK, PoolCore, NEW w \in Worker, Return(w)
  PROVE  PoolCore' /\ (HeadWoken => HeadWoken')
<1>1. /\ pc[w] = "ret" /\ lock = None /\ lock' = w /\ pc' = [pc EXCEPT ![w] = "sched"]
      /\ nr_running' = nr_running + 1
      /\ current_work' = [current_work EXCEPT ![w] = None]
      /\ UNCHANGED <<idle_list, nr_idle, manager>>
  BY DEF Return, idleVars
<1>2. nr_running = 0 /\ \A u \in Worker : pc[u] \notin {"recheck", "next", "sched", "sleep"}
  BY <1>1, NoneFacts DEF PoolCore, LockHolder, NrRunningExact
<1> QED
  BY <1>1, <1>2, NoneFacts DEF TypeOK, PoolCore, LockHolder, NrRunningExact, IdleLen, SpareHeld,
     HeadWoken, SleepEmpty, Busy, NonReentrant

(* Going to sleep keeps PoolCore: it is reached with an empty worklist or   *)
(* with a spare, and the sleeper is idle itself.                           *)
LEMMA SleepInv ==
  ASSUME TypeOK, PoolCore, NEW w \in Worker, Sleep(w)
  PROVE  PoolCore' /\ (HeadWoken => HeadWoken')
<1>1. /\ pc[w] = "sleep" /\ lock' = None /\ pc' = [pc EXCEPT ![w] = "asleep"]
      /\ UNCHANGED <<nr_running, worklist, manager, current_work>>
  BY DEF Sleep, listVars, busyVars
<1>2. lock = w /\ worklist = <<>> /\ \A u \in Worker \ {w} : pc[u] \notin {"recheck", "next", "sched", "sleep"}
  BY <1>1 DEF PoolCore, LockHolder, SleepEmpty
<1>3. IdleLen' /\ idle_list' # <<>>
  BY EnterIdleFacts DEF Sleep, PoolCore
<1> QED
  BY SMTT(30), <1>1, <1>2, <1>3, NoneFacts DEF TypeOK, PoolCore, LockHolder, NrRunningExact, SpareHeld,
     HeadWoken, SleepEmpty, Busy, NonReentrant

(* The expiry of the idle timer keeps PoolCore.                             *)
LEMMA TimerExpireInv ==
  ASSUME TypeOK, PoolCore, TimerExpire
  PROVE  PoolCore' /\ (HeadWoken => HeadWoken')
  BY DEF PoolCore, LockHolder, NrRunningExact, IdleLen, SpareHeld, HeadWoken, SleepEmpty,
     Busy, NonReentrant, TimerExpire, taskVars, listVars, busyVars

(* The idle timer destroys from the cold end and never the last worker     *)
(* unless there is a manager; the first idle worker stays first.           *)
LEMMA IdleWorkerTimeoutInv ==
  ASSUME TypeOK, PoolCore, IdleWorkerTimeout
  PROVE  PoolCore' /\ (HeadWoken => HeadWoken')
<1>1. PICK k \in 0 .. Len(idle_list) :
        /\ \A j \in 0 .. k - 1 : too_many_workers(nr_idle - j, nr_workers - j)
        /\ idle_list' = SubSeq(idle_list, 1, Len(idle_list) - k)
        /\ nr_idle' = nr_idle - k
        /\ \A w \in Worker : state'[w] = state[w] \/ state'[w] = "running"
  BY DEF IdleWorkerTimeout
<1>2. /\ lock = None
      /\ UNCHANGED <<lock, nr_running, pc, manager, worklist, current_work>>
  BY DEF IdleWorkerTimeout, listVars, busyVars
<1>3. Len(idle_list) \in Nat /\ idle_list' \in Seq(Worker) /\ Len(idle_list') = Len(idle_list) - k
  <2>1. Len(idle_list) \in Nat
    BY LenProperties DEF TypeOK
  <2> QED BY <1>1, <2>1, SubSeqType DEF TypeOK
<1>4. k = 0 \/ manager # None \/ Len(idle_list') > 0
  <2> SUFFICES ASSUME k # 0, manager = None PROVE Len(idle_list) - k > 0
    BY <1>3
  <2>1. too_many_workers(nr_idle - (k - 1), nr_workers - (k - 1))
    BY <1>1
  <2>2. nr_idle - (k - 1) > 2
    BY <2>1 DEF too_many_workers, TypeOK
  <2> QED BY <1>3, <2>2 DEF PoolCore, IdleLen
<1>5. SpareHeld'
  <2>1. idle_list # <<>> \/ manager # None
    BY <1>2 DEF PoolCore, SpareHeld
  <2>2. idle_list # <<>> => Len(idle_list) > 0
    BY EmptySeq DEF TypeOK
  <2>3. Len(idle_list') > 0 \/ manager # None
    BY <1>3, <1>4, <2>1, <2>2
  <2>4. Len(idle_list') > 0 => idle_list' # <<>>
    BY EmptySeq
  <2> QED BY <1>2, <2>3, <2>4 DEF SpareHeld
<1>6. HeadWoken => HeadWoken'
  <2> SUFFICES ASSUME HeadWoken, worklist # <<>>, idle_list' # <<>> PROVE state'[Head(idle_list')] = "running"
    BY <1>2 DEF HeadWoken
  <2>1. Len(idle_list') > 0 /\ idle_list # <<>>
    BY <1>1, <1>3, EmptySeq DEF TypeOK
  <2>2. Head(idle_list') = Head(idle_list)
    BY <1>1, <1>3, <2>1, HeadTailOfSubSeq DEF TypeOK
  <2>3. Head(idle_list) \in Worker /\ state[Head(idle_list)] = "running"
    BY <1>2, <2>1, HeadTailProperties DEF PoolCore, HeadWoken, TypeOK
  <2> QED BY <1>1, <2>2, <2>3
<1> QED
  BY <1>1, <1>2, <1>3, <1>5, <1>6 DEF TypeOK, PoolCore, LockHolder, NrRunningExact, IdleLen,
     SleepEmpty, Busy, NonReentrant
-----------------------------------------------------------------------------
(* The lists' invariant                                                    *)

(* The works that are executed have a pwq.                                 *)
BusyPwq == \A w \in Worker : pc[w] \in {"exec", "ret"} => current_pwq[w] \in Pwq

ListInv == QueuedOnce /\ BusyPwq

(* The lists as one function on the heads.                                 *)
Places(wl, sch, dly) ==
  [h \in Heads |-> IF h \in Worker THEN sch[h] ELSE IF h \in Pwq THEN dly[h] ELSE wl]
Placed == Places(worklist, scheduled, delayed_works)

(* The three kinds of list heads are different.                            *)
LEMMA HeadFacts ==
  /\ None \in Heads /\ None \notin Worker /\ None \notin Pwq
  /\ \A w \in Worker : w \in Heads /\ w \notin Pwq /\ w # None
  /\ \A q \in Pwq : q \in Heads /\ q \notin Worker /\ q # None
  /\ \A h \in Heads : h \in Worker \/ h \in Pwq \/ h = None
  /\ PoolId \notin Pwq /\ PoolNone \notin Pwq
  BY PoolAssumption DEF Heads, PoolId, PoolNone

(* What the function of all lists holds at each kind of head.              *)
LEMMA PlacesFacts ==
  ASSUME NEW wl \in Seq(Item), NEW sch \in [Worker -> Seq(Item)], NEW dly \in [Pwq -> Seq(Item)]
  PROVE  /\ Places(wl, sch, dly) \in [Heads -> Seq(Item)]
         /\ Places(wl, sch, dly)[None] = wl
         /\ \A w \in Worker : Places(wl, sch, dly)[w] = sch[w]
         /\ \A q \in Pwq : Places(wl, sch, dly)[q] = dly[q]
  BY HeadFacts DEF Places

(* The lists before and after a step are lists of items.                   *)
LEMMA PlacedFacts ==
  ASSUME TypeOK
  PROVE  /\ Placed \in [Heads -> Seq(Item)] /\ Placed[None] = worklist
         /\ \A w \in Worker : Placed[w] = scheduled[w]
         /\ \A q \in Pwq : Placed[q] = delayed_works[q]
<1>1. /\ worklist \in Seq(Item) /\ scheduled \in [Worker -> Seq(Item)]
      /\ delayed_works \in [Pwq -> Seq(Item)]
  BY DEF TypeOK
<1> QED
  BY <1>1, PlacesFacts DEF Placed

(* The same for the lists after a step.                                    *)
LEMMA PlacedFactsNext ==
  ASSUME TypeOK'
  PROVE  /\ Placed' \in [Heads -> Seq(Item)] /\ Placed'[None] = worklist'
         /\ \A w \in Worker : Placed'[w] = scheduled'[w]
         /\ \A q \in Pwq : Placed'[q] = delayed_works'[q]
<1>1. /\ worklist' \in Seq(Item) /\ scheduled' \in [Worker -> Seq(Item)]
      /\ delayed_works' \in [Pwq -> Seq(Item)]
  BY DEF TypeOK
<1> QED
  BY <1>1, PlacesFacts DEF Placed

(* QueuedOnce in those terms, before and after a step.                     *)
LEMMA QueuedOnceAs ==
  ASSUME TypeOK
  PROVE  QueuedOnce <=> /\ Injective(Placed, Heads)
                        /\ \A x \in Item : On(Placed, Heads, x) <=> data[x].high \in Pwq
<1>1. \A h \in Heads : Placed[h] = At(h)
  BY DEF Placed, Places, At
<1> QED
  BY <1>1 DEF QueuedOnce, OnList, Injective, On

(* The same for the state after a step.                                    *)
LEMMA QueuedOnceAsNext ==
  ASSUME TypeOK'
  PROVE  QueuedOnce' <=> /\ Injective(Placed', Heads)
                         /\ \A x \in Item : On(Placed', Heads, x) <=> data'[x].high \in Pwq
<1>1. \A h \in Heads : Placed'[h] = At(h)'
  BY DEF Placed, Places, At
<1> QED
  BY <1>1 DEF QueuedOnce, OnList, Injective, On

(* A step that leaves the lists and the high bits alone.                   *)
LEMMA SameLists ==
  ASSUME TypeOK, TypeOK', QueuedOnce, UNCHANGED <<worklist, scheduled, delayed_works>>,
         \A x \in Item : data'[x].high = data[x].high
  PROVE  QueuedOnce'
<1>1. Placed' = Placed
  BY DEF Placed
<1> QED
  BY <1>1, QueuedOnceAs, QueuedOnceAsNext

(* test_and_set of PENDING keeps ListInv: no list changes.                 *)
LEMMA SetPendingList ==
  ASSUME TypeOK, TypeOK', ListInv, NEW x \in Work, NEW q \in Pwq, SetPending(x, q)
  PROVE  ListInv'
<1>1. /\ \A i \in Item : data'[i].high = data[i].high
      /\ UNCHANGED <<worklist, scheduled, delayed_works, pc, current_pwq>>
  BY ItemFacts DEF TypeOK, SetPending, busyVars, Word
<1> QED
  BY <1>1, SameLists DEF ListInv, BusyPwq

(* A work that is on no list goes to the end of one.                       *)
LEMMA QueueWorkAppends ==
  ASSUME TypeOK, TypeOK', NEW x \in Work, QueueWork(x), ~OnList(x)
  PROVE  /\ queueing[x] \in Pwq /\ \E h : Appends(Item, Heads, Placed, Placed', h, x)
         /\ data' = [data EXCEPT ![x] =
                     [pending |-> TRUE, delayed |-> nr_active[queueing[x]] >= MaxActive[queueing[x]],
                      linked |-> FALSE, canceling |-> FALSE, high |-> queueing[x]]]
<1> DEFINE q == queueing[x]
<1>1. q \in Pwq /\ x \in Item /\ UNCHANGED scheduled
  BY ItemFacts DEF TypeOK, QueueWork, busyVars
<1>2. /\ \/ worklist' = Append(worklist, x) /\ delayed_works' = delayed_works
         \/ worklist' = worklist /\ delayed_works' = [delayed_works EXCEPT ![q] = Append(delayed_works[q], x)]
      /\ data' = [data EXCEPT ![x] =
                   [pending |-> TRUE, delayed |-> nr_active[q] >= MaxActive[q], linked |-> FALSE,
                    canceling |-> FALSE, high |-> q]]
  BY DEF QueueWork
<1> HIDE DEF q
<1>3. CASE worklist' = Append(worklist, x) /\ delayed_works' = delayed_works
  <2>1. Appends(Item, Heads, Placed, Placed', None, x)
    BY <1>1, <1>3, HeadFacts, PlacedFacts, PlacedFactsNext DEF Appends
  <2> QED BY <1>1, <1>2, <2>1 DEF q
<1>4. CASE worklist' = worklist /\ delayed_works' = [delayed_works EXCEPT ![q] = Append(delayed_works[q], x)]
  <2>1. Appends(Item, Heads, Placed, Placed', q, x)
    BY <1>1, <1>4, HeadFacts, PlacedFacts, PlacedFactsNext DEF Appends, TypeOK
  <2> QED BY <1>1, <1>2, <2>1 DEF q
<1> QED
  BY <1>2, <1>3, <1>4

(* A queued work was on no list.                                           *)
LEMMA QueueWorkList ==
  ASSUME TypeOK, TypeOK', ListInv, NEW x \in Work, QueueWork(x)
  PROVE  ListInv'
<1>1. x \in Item /\ UNCHANGED <<pc, scheduled, current_pwq>>
  BY ItemFacts DEF TypeOK, QueueWork, busyVars
<1>2. CASE OnList(x)
  BY <1>1, <1>2, SameLists DEF QueueWork, listVars, ListInv, BusyPwq
<1>3. CASE ~OnList(x)
  <2>1. queueing[x] \in Pwq
    BY <1>3, QueueWorkAppends
  <2>2. \A i \in Item : data'[i].high = IF i = x THEN queueing[x] ELSE data[i].high
    BY <1>1, <1>3, QueueWorkAppends DEF TypeOK
  <2>3. PICK h : Appends(Item, Heads, Placed, Placed', h, x)
    BY <1>3, QueueWorkAppends
  <2>4. ~On(Placed, Heads, x)
    BY <1>3 DEF OnList, On, Placed, Places, At
  <2>5. /\ Injective(Placed', Heads)
        /\ \A i : On(Placed', Heads, i) <=> On(Placed, Heads, i) \/ i = x
    BY <2>3, <2>4, AppendNew, QueuedOnceAs DEF ListInv
  <2> QED BY <1>1, <2>1, <2>2, <2>5, QueuedOnceAs, QueuedOnceAsNext DEF ListInv, BusyPwq
<1> QED BY <1>2, <1>3

(* A barrier behind its target makes its list one longer.                  *)
LEMMA BehindFacts ==
  ASSUME NEW s \in Seq(Item), NEW x, NEW b \in Item
  PROVE  /\ Behind(s, x, b) \in Seq(Item)
         /\ ~In(s, x) => Behind(s, x, b) = s
         /\ In(s, x) => \E k \in 1 .. Len(s) :
              /\ s[k] = x /\ Len(Behind(s, x, b)) = Len(s) + 1
              /\ \A j \in 1 .. Len(s) + 1 :
                   Behind(s, x, b)[j] = IF j <= k THEN s[j] ELSE IF j = k + 1 THEN b ELSE s[j - 1]
<1>1. CASE ~In(s, x)
  BY <1>1 DEF Behind
<1>2. CASE In(s, x)
  <2> DEFINE k == CHOOSE k \in 1 .. Len(s) : s[k] = x
             p == SubSeq(s, 1, k)
             r == SubSeq(s, k + 1, Len(s))
  <2>1. k \in 1 .. Len(s) /\ s[k] = x /\ Len(s) \in Nat
    BY <1>2, LenProperties DEF In
  <2>2. Behind(s, x, b) = p \o <<b>> \o r
    BY <1>2 DEF Behind, InsertAfter
  <2> HIDE DEF k
  <2>3. p \in Seq(Item) /\ Len(p) = k /\ \A i \in 1 .. k : p[i] = s[i]
    BY <2>1, SubSeqType
  <2>4. r \in Seq(Item) /\ Len(r) = Len(s) - k /\ \A i \in 1 .. Len(s) - k : r[i] = s[i + k]
    <3>1. k + 1 \in Nat \ {0} /\ Len(s) \in Int
      BY <2>1
    <3>2. /\ r \in Seq(Item) /\ Len(r) = IF k + 1 <= Len(s) THEN Len(s) - (k + 1) + 1 ELSE 0
          /\ \A i \in 1 .. Len(s) - (k + 1) + 1 : r[i] = s[k + 1 + i - 1]
      BY <3>1, <2>1, SubSeqType
    <3> HIDE DEF r
    <3> QED BY <2>1, <3>2
  <2> HIDE DEF p, r
  <2>5. /\ p \o <<b>> \in Seq(Item) /\ Len(p \o <<b>>) = k + 1
        /\ \A i \in 1 .. k + 1 : (p \o <<b>>)[i] = IF i <= k THEN s[i] ELSE b
    <3>1. <<b>> \in Seq(Item) /\ Len(<<b>>) = 1 /\ <<b>>[1] = b
      OBVIOUS
    <3> QED BY <2>1, <2>3, <3>1, ConcatProperties
  <2>6. /\ Behind(s, x, b) \in Seq(Item) /\ Len(Behind(s, x, b)) = Len(s) + 1
        /\ \A j \in 1 .. Len(s) + 1 :
             Behind(s, x, b)[j] = IF j <= k THEN s[j] ELSE IF j = k + 1 THEN b ELSE s[j - 1]
    <3> DEFINE pb == p \o <<b>>
    <3>1. pb \in Seq(Item) /\ Len(pb) = k + 1 /\ Behind(s, x, b) = pb \o r
      BY <2>2, <2>5
    <3> HIDE DEF pb
    <3>2. /\ pb \o r \in Seq(Item) /\ Len(pb \o r) = Len(s) + 1
          /\ \A j \in 1 .. Len(s) + 1 :
               (pb \o r)[j] = IF j <= k + 1 THEN pb[j] ELSE r[j - (k + 1)]
      <4>1. r \in Seq(Item) /\ Len(r) = Len(s) - k
        BY <2>4
      <4>2. /\ pb \o r \in Seq(Item) /\ Len(pb \o r) = Len(pb) + Len(r)
            /\ \A j \in 1 .. Len(pb) + Len(r) :
                 (pb \o r)[j] = IF j <= Len(pb) THEN pb[j] ELSE r[j - Len(pb)]
        BY <3>1, <4>1, ConcatProperties
      <4>3. Len(pb) + Len(r) = Len(s) + 1
        BY <2>1, <3>1, <4>1
      <4> QED BY <3>1, <4>2, <4>3
    <3>3. \A j \in 1 .. Len(s) + 1 : j > k + 1 => r[j - (k + 1)] = s[j - 1]
      BY <2>1, <2>4
    <3>4. \A j \in 1 .. k + 1 : pb[j] = IF j <= k THEN s[j] ELSE b
      BY <2>5 DEF pb
    <3> QED BY <2>1, <3>1, <3>2, <3>3, <3>4
  <2> QED BY <1>2, <2>1, <2>6
<1> QED
  BY <1>1, <1>2

(* A barrier in front of a list.                                           *)
LEMMA InFrontFacts ==
  ASSUME NEW s \in Seq(Item), NEW b \in Item
  PROVE  /\ <<b>> \o s \in Seq(Item) /\ Len(<<b>> \o s) = Len(s) + 1
         /\ \A j \in 1 .. Len(s) + 1 : (<<b>> \o s)[j] = IF j = 1 THEN b ELSE s[j - 1]
<1>1. <<b>> \in Seq(Item) /\ Len(<<b>>) = 1 /\ <<b>>[1] = b
  OBVIOUS
<1>2. Len(s) \in Nat
  BY LenProperties
<1> QED
  BY <1>1, <1>2, ConcatProperties

(* A barrier's word is a word.                                             *)
LEMMA BarrierWordType ==
  ASSUME NEW q \in Pwq, NEW link \in BOOLEAN
  PROVE  BarrierWord(q, link) \in Word
  BY DEF BarrierWord, Word

(* The worker that executes the target of a barrier has a pwq.             *)
LEMMA ExecutingPwq ==
  ASSUME TypeOK, Busy, BusyPwq, NEW x \in Work, NEW w \in Executing(x)
  PROVE  w \in Worker /\ current_pwq[w] \in Pwq /\ pc[w] \in {"exec", "ret"}
  BY ItemFacts, NoneFacts DEF Executing, Busy, BusyPwq

(* start_flush_work() keeps the types: wherever the barrier goes, its word *)
(* names the pwq of the target or of the worker that executes it.          *)
LEMMA FlushWorkType ==
  ASSUME TypeOK, Busy, BusyPwq, NEW x \in Work, NEW b \in Barrier, FlushWork(x, b)
  PROVE  TypeOK'
<1>1. x \in Item /\ b \in Item
  BY ItemFacts
<1>2. state' \in [Worker -> {"running", "idle"}]
  <2>1. state' = state \/ state' = Woken(idle_list, state)
    BY DEF FlushWork, InsertBarrier
  <2> QED BY <2>1, WokenType DEF TypeOK
<1>3. /\ worklist' \in Seq(Item) /\ scheduled' \in [Worker -> Seq(Item)]
      /\ delayed_works' \in [Pwq -> Seq(Item)] /\ data' \in [Item -> Word]
  <2>1. CASE BarrierBehindTarget(x, b)
    <3>1. /\ Behind(worklist, x, b) \in Seq(Item)
          /\ \A q \in Pwq : Behind(delayed_works[q], x, b) \in Seq(Item)
          /\ \A w \in Worker : Behind(scheduled[w], x, b) \in Seq(Item)
      BY <1>1, BehindFacts DEF TypeOK
    <3>2. BarrierWord(data[x].high, data[x].linked) \in Word
      BY <1>1, <2>1, BarrierWordType DEF BarrierBehindTarget, TypeOK, Word
    <3>3. data' \in [Item -> Word]
      <4> DEFINE word == BarrierWord(data[x].high, data[x].linked)
                 d1 == [data EXCEPT ![b] = word]
      <4>1. data' = [d1 EXCEPT ![x].linked = TRUE]
        BY <2>1 DEF BarrierBehindTarget
      <4> HIDE DEF word
      <4>2. d1 \in [Item -> Word]
        BY <3>2 DEF TypeOK, word
      <4> HIDE DEF d1
      <4> QED BY <4>1, <4>2 DEF Word
    <3> QED BY <2>1, <3>1, <3>3 DEF BarrierBehindTarget
  <2>2. CASE BarrierAtWorker(x, b)
    <3>1. PICK w \in Executing(x) :
            /\ scheduled' = [scheduled EXCEPT ![w] = <<b>> \o scheduled[w]]
            /\ data' = [data EXCEPT ![b] = BarrierWord(current_pwq[w], FALSE)]
            /\ UNCHANGED <<worklist, delayed_works>>
      BY <2>2 DEF BarrierAtWorker
    <3>2. w \in Worker /\ BarrierWord(current_pwq[w], FALSE) \in Word
      BY ExecutingPwq, BarrierWordType
    <3>3. <<b>> \o scheduled[w] \in Seq(Item)
      BY <1>1, <3>2, InFrontFacts DEF TypeOK
    <3> QED BY <3>1, <3>2, <3>3 DEF TypeOK
  <2> QED BY <2>1, <2>2 DEF FlushWork, InsertBarrier
<1> QED
  BY <1>2, <1>3 DEF TypeOK, FlushWork, InsertBarrier, idleVars

(* Behind or before one list's items, a barrier that was on no list.       *)
LEMMA InsertedList ==
  ASSUME TypeOK, TypeOK', QueuedOnce, NEW b \in Item, data[b].high \notin Pwq,
         NEW g, NEW k, Inserts(Item, Heads, Placed, Placed', g, k, b),
         data'[b].high \in Pwq, \A i \in Item \ {b} : data'[i].high = data[i].high
  PROVE  QueuedOnce'
<1>1. ~On(Placed, Heads, b)
  BY QueuedOnceAs
<1>2. /\ Injective(Placed', Heads)
      /\ \A i : On(Placed', Heads, i) <=> On(Placed, Heads, i) \/ i = b
  BY <1>1, InsertNew, QueuedOnceAs
<1> QED
  BY <1>2, QueuedOnceAs, QueuedOnceAsNext

(* A barrier is put on one list, the target's or the executing worker's.   *)
LEMMA FlushWorkInserts ==
  ASSUME TypeOK, TypeOK', Busy, ListInv, NEW x \in Work, NEW b \in Barrier, FlushWork(x, b)
  PROVE  \E g, k :
           /\ Inserts(Item, Heads, Placed, Placed', g, k, b)
           /\ \/ /\ k = 0 /\ g \in Executing(x) /\ g \in Worker /\ data[x].high \notin Pwq
                 /\ UNCHANGED delayed_works
                 /\ \E p \in Pwq : data' = [data EXCEPT ![b] = BarrierWord(p, FALSE)]
              \/ /\ k > 0 /\ Placed[g][k] = x /\ data[x].high \in Pwq
                 /\ data' = [data EXCEPT ![b] = BarrierWord(data[x].high, data[x].linked),
                                         ![x].linked = TRUE]
                 /\ delayed_works' = [q \in Pwq |-> Behind(delayed_works[q], x, b)]
<1>1. x \in Item /\ b \in Item /\ x # b /\ data[b].high \notin Pwq
  BY ItemFacts, PoolAssumption DEF FlushWork
<1>2. CASE BarrierBehindTarget(x, b)
  <2>1. /\ data[x].high \in Pwq
        /\ worklist' = Behind(worklist, x, b)
        /\ delayed_works' = [q \in Pwq |-> Behind(delayed_works[q], x, b)]
        /\ scheduled' = [w \in Worker |-> Behind(scheduled[w], x, b)]
        /\ data' = [data EXCEPT ![b] = BarrierWord(data[x].high, data[x].linked), ![x].linked = TRUE]
    BY <1>2 DEF BarrierBehindTarget
  <2>2. \A h \in Heads : Placed'[h] = Behind(Placed[h], x, b)
    BY <2>1, HeadFacts, PlacedFacts, PlacedFactsNext
  <2>3. Placed \in [Heads -> Seq(Item)] /\ Placed' \in [Heads -> Seq(Item)]
    BY PlacedFacts, PlacedFactsNext
  <2>4. Injective(Placed, Heads) /\ On(Placed, Heads, x)
    BY <1>1, <2>1, QueuedOnceAs DEF ListInv
  <2>5. PICK g \in Heads : In(Placed[g], x)
    BY <2>4 DEF On, In
  <2>6. \A h \in Heads \ {g} : ~In(Placed[h], x)
    BY <2>4, <2>5 DEF Injective, In
  <2>7. \A h \in Heads \ {g} : Placed'[h] = Placed[h]
    BY <1>1, <2>2, <2>3, <2>6, BehindFacts
  <2>8. PICK k \in 1 .. Len(Placed[g]) :
          /\ Placed[g][k] = x /\ Len(Behind(Placed[g], x, b)) = Len(Placed[g]) + 1
          /\ \A j \in 1 .. Len(Placed[g]) + 1 :
               Behind(Placed[g], x, b)[j] =
                 IF j <= k THEN Placed[g][j] ELSE IF j = k + 1 THEN b ELSE Placed[g][j - 1]
    BY SMTT(30), <1>1, <2>3, <2>5, BehindFacts
  <2>9. Inserts(Item, Heads, Placed, Placed', g, k, b)
    BY <2>2, <2>3, <2>5, <2>7, <2>8 DEF Inserts
  <2>10. k > 0
    BY <2>3, <2>5, <2>8, LenProperties
  <2> QED BY <2>1, <2>8, <2>9, <2>10
<1>3. CASE BarrierAtWorker(x, b)
  <2>1. PICK w \in Executing(x) :
          /\ scheduled' = [scheduled EXCEPT ![w] = <<b>> \o scheduled[w]]
          /\ data[x].high \notin Pwq
          /\ data' = [data EXCEPT ![b] = BarrierWord(current_pwq[w], FALSE)]
          /\ UNCHANGED <<worklist, delayed_works>>
    BY <1>3 DEF BarrierAtWorker
  <2>2. w \in Worker /\ current_pwq[w] \in Pwq
    BY ExecutingPwq DEF ListInv
  <2>3. /\ scheduled'[w] = <<b>> \o scheduled[w]
        /\ \A u \in Worker \ {w} : scheduled'[u] = scheduled[u]
    BY <2>1, <2>2 DEF TypeOK
  <2>4. scheduled[w] \in Seq(Item) /\ Len(scheduled[w]) \in Nat
    BY <2>2, LenProperties DEF TypeOK
  <2>5. /\ Len(scheduled'[w]) = Len(scheduled[w]) + 1
        /\ \A j \in 1 .. Len(scheduled'[w]) :
             scheduled'[w][j] = IF j <= 0 THEN scheduled[w][j]
                                ELSE IF j = 0 + 1 THEN b ELSE scheduled[w][j - 1]
    BY <1>1, <2>3, <2>4, InFrontFacts
  <2>6. Inserts(Item, Heads, Placed, Placed', w, 0, b)
    <3>1. /\ w \in Heads /\ Placed[w] = scheduled[w] /\ Placed'[w] = scheduled'[w]
          /\ 0 \in 0 .. Len(Placed[w])
      BY <2>2, <2>4, HeadFacts, PlacedFacts, PlacedFactsNext
    <3>2. ASSUME NEW h \in Heads \ {w} PROVE Placed'[h] = Placed[h]
      <4>1. CASE h \in Worker
        BY <2>3, <4>1, PlacedFacts, PlacedFactsNext
      <4>2. CASE h \in Pwq
        BY <2>1, <4>2, PlacedFacts, PlacedFactsNext
      <4>3. CASE h = None
        BY <2>1, <4>3, PlacedFacts, PlacedFactsNext
      <4> QED BY <4>1, <4>2, <4>3 DEF Heads
    <3>3. Placed \in [Heads -> Seq(Item)] /\ Placed' \in [Heads -> Seq(Item)]
      BY PlacedFacts, PlacedFactsNext
    <3>4. /\ Len(Placed'[w]) = Len(Placed[w]) + 1
          /\ \A j \in 1 .. Len(Placed'[w]) :
               Placed'[w][j] = IF j <= 0 THEN Placed[w][j]
                               ELSE IF j = 0 + 1 THEN b ELSE Placed[w][j - 1]
      BY <2>5, <3>1
    <3> QED BY <3>1, <3>2, <3>3, <3>4 DEF Inserts
  <2> QED BY <2>1, <2>2, <2>6
<1> QED
  BY <1>2, <1>3 DEF FlushWork, InsertBarrier

(* So a flush keeps ListInv.                                               *)
LEMMA FlushWorkList ==
  ASSUME TypeOK, TypeOK', Busy, ListInv, NEW x \in Work, NEW b \in Barrier, FlushWork(x, b)
  PROVE  ListInv'
<1>1. x \in Item /\ b \in Item /\ x # b /\ data[b].high \notin Pwq
  BY ItemFacts, PoolAssumption DEF FlushWork
<1>2. BusyPwq'
  BY DEF FlushWork, InsertBarrier, ListInv, BusyPwq
<1>3. PICK g, k :
        /\ Inserts(Item, Heads, Placed, Placed', g, k, b)
        /\ \/ \E p \in Pwq : data' = [data EXCEPT ![b] = BarrierWord(p, FALSE)]
           \/ /\ data[x].high \in Pwq
              /\ data' = [data EXCEPT ![b] = BarrierWord(data[x].high, data[x].linked), ![x].linked = TRUE]
  BY FlushWorkInserts
<1>4. data'[b].high \in Pwq /\ \A i \in Item \ {b} : data'[i].high = data[i].high
  <2>1. CASE \E p \in Pwq : data' = [data EXCEPT ![b] = BarrierWord(p, FALSE)]
    BY <1>1, <2>1 DEF TypeOK, BarrierWord
  <2>2. CASE /\ data[x].high \in Pwq
             /\ data' = [data EXCEPT ![b] = BarrierWord(data[x].high, data[x].linked), ![x].linked = TRUE]
    BY <1>1, <2>2 DEF TypeOK, BarrierWord, Word
  <2> QED BY <1>3, <2>1, <2>2
<1> QED
  BY <1>1, <1>2, <1>3, <1>4, InsertedList DEF ListInv

(* A claimed item is the first of its list, and leaves it.                 *)
LEMMA ClaimDrops ==
  ASSUME TypeOK, TypeOK', NEW w \in Worker, NEW from \in {"worklist", "scheduled"},
         NEW s, s = (IF from = "worklist" THEN worklist ELSE scheduled[w]), s # <<>>,
         Claim(w, from, Head(s)), UNCHANGED delayed_works
  PROVE  /\ Head(s) \in Item /\ Head(s) = s[1]
         /\ \E g : g \notin Pwq /\ Placed[g] = s /\ Drops(Item, Heads, Placed, Placed', g)
<1> DEFINE g == IF from = "worklist" THEN None ELSE w
<1>1. s \in Seq(Item) /\ Head(s) \in Item /\ Head(s) = s[1]
  BY HeadTailProperties DEF TypeOK
<1>2. Take(w, from, 1)
  BY DEF Claim
<1>3. Drops(Item, Heads, Placed, Placed', g) /\ Placed[g] = s
  <2>1. CASE from = "worklist"
    <3>1. worklist' = SubSeq(worklist, 2, Len(worklist)) /\ UNCHANGED delayed_works
          /\ scheduled' = scheduled
      BY <1>2, <2>1 DEF Take, TypeOK
    <3> QED BY <2>1, <3>1, HeadFacts, PlacedFacts, PlacedFactsNext DEF Drops
  <2>2. CASE from = "scheduled"
    <3>1. worklist' = worklist /\ UNCHANGED delayed_works
          /\ scheduled'[w] = SubSeq(scheduled[w], 2, Len(scheduled[w]))
          /\ \A u \in Worker \ {w} : scheduled'[u] = scheduled[u]
      BY <1>2, <2>2 DEF Take, TypeOK
    <3> QED BY <2>2, <3>1, HeadFacts, PlacedFacts, PlacedFactsNext DEF Drops
  <2> QED BY <2>1, <2>2
<1>4. g \notin Pwq
  BY HeadFacts
<1> QED
  BY <1>1, <1>3, <1>4

(* A claimed item leaves its list and gets the pool's id for its pwq.      *)
LEMMA ClaimList ==
  ASSUME TypeOK, TypeOK', ListInv, NEW w \in Worker, NEW from \in {"worklist", "scheduled"},
         NEW s, s = (IF from = "worklist" THEN worklist ELSE scheduled[w]), s # <<>>,
         Claim(w, from, Head(s)), UNCHANGED delayed_works
  PROVE  ListInv'
<1> DEFINE i == Head(s)
<1>1. i \in Item /\ i = s[1]
  BY ClaimDrops
<1>2. /\ current_pwq' = [current_pwq EXCEPT ![w] = data[i].high]
      /\ data' = [data EXCEPT ![i] = OffQueue(PoolId, FALSE)]
      /\ pc' = [pc EXCEPT ![w] = "exec"]
  BY DEF Claim
<1>3. PICK g : Drops(Item, Heads, Placed, Placed', g) /\ Placed[g] = s
  BY ClaimDrops
<1> HIDE DEF i
<1>4. /\ Injective(Placed', Heads)
      /\ \A x : On(Placed', Heads, x) <=> On(Placed, Heads, x) /\ x # i
      /\ On(Placed, Heads, i)
  BY <1>1, <1>3, DropFirst, QueuedOnceAs DEF ListInv
<1>5. \A x \in Item : data'[x].high = IF x = i THEN PoolId ELSE data[x].high
  BY <1>1, <1>2 DEF TypeOK, OffQueue, WorkDataInit
<1>6. QueuedOnce'
  BY <1>4, <1>5, HeadFacts, QueuedOnceAs, QueuedOnceAsNext DEF ListInv
<1>7. data[i].high \in Pwq
  BY <1>1, <1>4, QueuedOnceAs DEF ListInv
<1> QED
  BY <1>2, <1>6, <1>7 DEF ListInv, BusyPwq, TypeOK

(* A chain that moves to another list takes no item twice.                 *)
LEMMA MovedList ==
  ASSUME TypeOK, TypeOK', QueuedOnce, NEW g, NEW h, NEW n,
         Moves(Item, Heads, Placed, Placed', g, h, n),
         \A x \in Item : data'[x].high = data[x].high
  PROVE  QueuedOnce'
<1>1. /\ Injective(Placed', Heads)
      /\ \A x : On(Placed', Heads, x) <=> On(Placed, Heads, x)
  BY MovePrefix, QueuedOnceAs
<1> QED
  BY <1>1, QueuedOnceAs, QueuedOnceAsNext

(* A collision hands the chain to the other worker, never to w itself.     *)
LEMMA DeferMoves ==
  ASSUME TypeOK, TypeOK', Busy, NEW w \in Worker, NEW from \in {"worklist", "scheduled"},
         NEW s, s = (IF from = "worklist" THEN worklist ELSE scheduled[w]), s # <<>>,
         pc[w] \in {"next", "sched"}, Defer(w, from, s), UNCHANGED delayed_works
  PROVE  \E g, v : /\ Moves(Item, Heads, Placed, Placed', g, v, ChainLen(s, data))
                   /\ Placed[g] = s /\ v \in Worker /\ pc[v] \in {"exec", "ret"}
<1>1. s \in Seq(Item) /\ Head(s) \in Item
  BY HeadTailProperties DEF TypeOK
<1>2. PICK v \in Executing(Head(s)) :
        scheduled' = [u \in Worker |->
          IF u = v THEN scheduled[u] \o Chain(s, data)
          ELSE IF u = w /\ from = "scheduled" THEN Rest(s, data) ELSE scheduled[u]]
  BY DEF Defer
<1>3. v \in Worker /\ v # w /\ pc[v] \in {"exec", "ret"}
  BY <1>1, NoneFacts DEF Executing, Busy
<1> DEFINE n == ChainLen(s, data)
           g == IF from = "worklist" THEN None ELSE w
<1>4. n \in 0 .. Len(s)
  BY <1>1, ChainLenType, LenProperties
<1>5. Chain(s, data) = SubSeq(s, 1, n) /\ Rest(s, data) = SubSeq(s, n + 1, Len(s))
  BY DEF Chain, Rest
<1> HIDE DEF n
<1>6. Moves(Item, Heads, Placed, Placed', g, v, n) /\ Placed[g] = s
  <2>1. CASE from = "worklist"
    <3>1. worklist' = Rest(s, data) /\ scheduled'[v] = scheduled[v] \o Chain(s, data)
          /\ \A u \in Worker \ {v} : scheduled'[u] = scheduled[u]
      BY <1>2, <1>3, <2>1 DEF Defer
    <3> QED BY <1>3, <1>4, <1>5, <2>1, <3>1, HeadFacts, PlacedFacts, PlacedFactsNext DEF Moves
  <2>2. CASE from = "scheduled"
    <3>1. worklist' = worklist /\ scheduled'[v] = scheduled[v] \o Chain(s, data)
          /\ scheduled'[w] = Rest(s, data)
          /\ \A u \in Worker \ {v, w} : scheduled'[u] = scheduled[u]
      BY <1>2, <1>3, <2>2 DEF Defer
    <3> QED BY <1>3, <1>4, <1>5, <2>2, <3>1, HeadFacts, PlacedFacts, PlacedFactsNext DEF Moves
  <2> QED BY <2>1, <2>2
<1> QED
  BY <1>3, <1>6 DEF n

(* So it keeps ListInv.                                                    *)
LEMMA DeferList ==
  ASSUME TypeOK, TypeOK', Busy, ListInv, NEW w \in Worker, NEW from \in {"worklist", "scheduled"},
         NEW s, s = (IF from = "worklist" THEN worklist ELSE scheduled[w]), s # <<>>,
         pc[w] \in {"next", "sched"}, Defer(w, from, s), UNCHANGED delayed_works
  PROVE  ListInv'
<1>1. PICK g, v : Moves(Item, Heads, Placed, Placed', g, v, ChainLen(s, data))
  BY DeferMoves
<1>2. UNCHANGED <<data, current_pwq>> /\ pc' = [pc EXCEPT ![w] = "sched"]
  BY DEF Defer
<1> QED
  BY <1>1, <1>2, MovedList DEF ListInv, BusyPwq, TypeOK

(* process_one_work() keeps ListInv: the item leaves the lists as its word *)
(* stops to name a pwq, or its chain moves to another head.                *)
LEMMA ProcessOneWorkList ==
  ASSUME TypeOK, TypeOK', Busy, ListInv, NEW w \in Worker, NEW from \in {"worklist", "scheduled"},
         pc[w] \in {"next", "sched"}, ProcessOneWork(w, from)
  PROVE  ListInv'
<1> DEFINE s == IF from = "worklist" THEN worklist ELSE scheduled[w]
<1>1. /\ s # <<>> /\ UNCHANGED delayed_works
      /\ Claim(w, from, Head(s)) \/ Defer(w, from, s)
  BY DEF ProcessOneWork
<1>2. s = (IF from = "worklist" THEN worklist ELSE scheduled[w])
  OBVIOUS
<1> HIDE DEF s
<1> QED
  BY <1>1, <1>2, ClaimList, DeferList

(* A prefix of the worklist goes to the end of the own list.               *)
LEMMA MoveLinkedMoves ==
  ASSUME TypeOK, TypeOK', NEW w \in Worker, MoveLinked(w)
  PROVE  Moves(Item, Heads, Placed, Placed', None, w, ChainLen(worklist, data))
<1> DEFINE n == ChainLen(worklist, data)
<1>1. n \in 0 .. Len(worklist)
  BY ChainLenType, LenProperties DEF TypeOK, MoveLinked
<1>2. /\ Chain(worklist, data) = SubSeq(worklist, 1, n)
      /\ Rest(worklist, data) = SubSeq(worklist, n + 1, Len(worklist))
  BY DEF Chain, Rest
<1> HIDE DEF n
<1>3. /\ scheduled' = [scheduled EXCEPT ![w] = scheduled[w] \o Chain(worklist, data)]
      /\ worklist' = Rest(worklist, data) /\ UNCHANGED <<data, delayed_works, current_pwq>>
      /\ pc' = [pc EXCEPT ![w] = "sched"]
  BY DEF MoveLinked
<1>4. /\ scheduled'[w] = scheduled[w] \o Chain(worklist, data)
      /\ \A u \in Worker \ {w} : scheduled'[u] = scheduled[u]
  BY <1>3 DEF TypeOK
<1>5. Moves(Item, Heads, Placed, Placed', None, w, n)
  BY <1>1, <1>2, <1>3, <1>4, HeadFacts, PlacedFacts, PlacedFactsNext DEF Moves
<1> QED
  BY <1>5 DEF n

(* So moving a chain to the own list keeps ListInv.                        *)
LEMMA MoveLinkedList ==
  ASSUME TypeOK, TypeOK', ListInv, NEW w \in Worker, MoveLinked(w)
  PROVE  ListInv'
<1>1. UNCHANGED <<data, current_pwq>> /\ pc' = [pc EXCEPT ![w] = "sched"]
  BY DEF MoveLinked
<1> QED
  BY <1>1, MoveLinkedMoves, MovedList DEF ListInv, BusyPwq, TypeOK

(* A returning worker frees its slot, if its item has one, which the first *)
(* delayed work takes, with its chain.                                     *)
Frees(w) == current_work[w] \notin Barrier
Hands(w) == LET q == current_pwq[w]
            IN  Frees(w) /\ delayed_works[q] # <<>> /\ nr_active[q] - 1 < MaxActive[q]

(* A return that hands no slot on leaves the lists alone.                  *)
LEMMA ReturnKeeps ==
  ASSUME TypeOK, ListInv, NEW w \in Worker, Return(w), ~Hands(w)
  PROVE  /\ UNCHANGED <<worklist, scheduled, delayed_works, data>>
         /\ Frees(w) => nr_active' = [nr_active EXCEPT ![current_pwq[w]] = nr_active[current_pwq[w]] - 1]
         /\ ~Frees(w) => nr_active' = nr_active
<1> DEFINE q == current_pwq[w]
           i == current_work[w]
           M == [Lists EXCEPT !.active[q] = @ - 1]
           L == DecInFlight(Lists, q, i)
<1>1. /\ worklist' = L.worklist /\ delayed_works' = L.delayed /\ data' = L.data
      /\ nr_active' = L.active /\ UNCHANGED scheduled
  BY DEF Return, SetLists
<1>2. /\ M.worklist = worklist /\ M.delayed = delayed_works /\ M.data = data
      /\ M.active = [nr_active EXCEPT ![q] = nr_active[q] - 1]
  BY DEF Lists
<1>3. /\ Lists.worklist = worklist /\ Lists.delayed = delayed_works /\ Lists.data = data
      /\ Lists.active = nr_active
  BY DEF Lists
<1>4. q \in Pwq /\ nr_active \in [Pwq -> Int]
  BY DEF Return, ListInv, BusyPwq, TypeOK
<1>5. M.active[q] = nr_active[q] - 1
  <2> HIDE DEF M, q
  <2> QED BY <1>2, <1>4
<1>6. CASE Frees(w)
  <2>1. L = M
    <3>1. ~(M.delayed[q] # <<>> /\ M.active[q] < MaxActive[q])
      <4> HIDE DEF M
      <4> QED BY <1>2, <1>5, <1>6 DEF Hands
    <3> HIDE DEF M
    <3>2. L = IF i \in Barrier THEN Lists
              ELSE IF M.delayed[q] # <<>> /\ M.active[q] < MaxActive[q] THEN Activate(M, q, 1) ELSE M
      BY DEF DecInFlight, M
    <3> QED BY <1>6, <3>1, <3>2 DEF Frees
  <2> HIDE DEF M, L
  <2> QED BY <1>1, <1>2, <1>6, <2>1
<1>7. CASE ~Frees(w)
  <2>1. L = Lists
    BY <1>7 DEF DecInFlight, Frees
  <2> HIDE DEF L
  <2> QED BY <1>1, <1>3, <1>7, <2>1
<1> QED
  BY <1>6, <1>7

(* A return that hands its slot on moves the chain of the first delayed    *)
(* work to the worklist, and as many slots are in use as before.           *)
LEMMA ReturnMoves ==
  ASSUME TypeOK, TypeOK', ListInv, NEW w \in Worker, Return(w), Hands(w)
  PROVE  LET q == current_pwq[w]
             s == delayed_works[q]
         IN  /\ q \in Pwq /\ s \in Seq(Item) /\ s[1] \in Item
             /\ Moves(Item, Heads, Placed, Placed', q, None, ChainLen(s, data))
             /\ data' = [data EXCEPT ![s[1]].delayed = FALSE]
             /\ nr_active' = nr_active
<1> DEFINE q == current_pwq[w]
           i == current_work[w]
           M == [Lists EXCEPT !.active[q] = @ - 1]
           L == DecInFlight(Lists, q, i)
           s == delayed_works[q]
           n == ChainLen(s, data)
<1>1. q \in Pwq /\ nr_active \in [Pwq -> Int]
  BY DEF Return, ListInv, BusyPwq, TypeOK
<1>2. /\ worklist' = L.worklist /\ delayed_works' = L.delayed /\ data' = L.data
      /\ nr_active' = L.active /\ UNCHANGED scheduled
  BY DEF Return, SetLists
<1>3. /\ M.worklist = worklist /\ M.delayed = delayed_works /\ M.data = data
      /\ M.active = [nr_active EXCEPT ![q] = nr_active[q] - 1]
  BY DEF Lists
<1>4. M.active[q] = nr_active[q] - 1
  <2> HIDE DEF M, q
  <2> QED BY <1>1, <1>3
<1>5. L = Activate(M, q, 1)
  <2>1. M.delayed[q] # <<>> /\ M.active[q] < MaxActive[q]
    <3> HIDE DEF M
    <3> QED BY <1>3, <1>4 DEF Hands
  <2> HIDE DEF M
  <2>2. L = IF i \in Barrier THEN Lists
            ELSE IF M.delayed[q] # <<>> /\ M.active[q] < MaxActive[q] THEN Activate(M, q, 1) ELSE M
    BY DEF DecInFlight, M
  <2> QED BY <2>1, <2>2 DEF Hands, Frees
<1> HIDE DEF q, i, L, M
<1>6. s \in Seq(Item) /\ s # <<>>
  BY <1>1 DEF TypeOK, Hands, q
<1>7. n \in 0 .. Len(s) /\ Len(s) \in Nat
  <2> HIDE DEF s
  <2> QED BY <1>6, ChainLenType, LenProperties
<1>8. SubSeq(s, 1, Len(s)) = s /\ SubSeq(s, 1, 1 - 1) = <<>>
  <2> HIDE DEF s
  <2> QED BY <1>6, SubSeqFull, SubSeqEmpty
<1>9. Chain(s, data) = SubSeq(s, 1, n) /\ Rest(s, data) = SubSeq(s, n + 1, Len(s))
  BY DEF Chain, Rest
<1>10. /\ L.worklist = worklist \o Chain(s, data)
       /\ L.delayed = [delayed_works EXCEPT ![q] = <<>> \o Rest(s, data)]
       /\ L.data = [data EXCEPT ![s[1]].delayed = FALSE]
       /\ L.active = [M.active EXCEPT ![q] = M.active[q] + 1]
  BY <1>3, <1>5, <1>8 DEF Activate
<1>11. <<>> \o Rest(s, data) = Rest(s, data)
  <2>1. Rest(s, data) \in Seq(Item)
    <3> HIDE DEF s
    <3> QED BY <1>6, ChainType
  <2> QED BY <2>1, ConcatEmptySeq
<1>12. s[1] \in Item
  <2> HIDE DEF s
  <2> QED BY <1>6, HeadTailProperties
<1>13. nr_active' = nr_active
  BY <1>1, <1>2, <1>3, <1>4, <1>10
<1> HIDE DEF n
<1>14. /\ delayed_works'[q] = SubSeq(s, n + 1, Len(s))
       /\ \A p \in Pwq \ {q} : delayed_works'[p] = delayed_works[p]
       /\ worklist' = worklist \o SubSeq(s, 1, n)
  <2>1. delayed_works' = [delayed_works EXCEPT ![q] = SubSeq(s, n + 1, Len(s))]
    BY <1>2, <1>9, <1>10, <1>11
  <2>2. worklist' = worklist \o SubSeq(s, 1, n)
    BY <1>2, <1>9, <1>10
  <2> HIDE DEF s
  <2> QED BY <1>1, <2>1, <2>2 DEF TypeOK
<1>15. Moves(Item, Heads, Placed, Placed', q, None, n)
  BY <1>1, <1>2, <1>7, <1>14, HeadFacts, PlacedFacts, PlacedFactsNext DEF Moves
<1>16. data' = [data EXCEPT ![s[1]].delayed = FALSE]
  BY <1>2, <1>10
<1> QED
  BY <1>1, <1>6, <1>12, <1>13, <1>15, <1>16 DEF q, n

(* The slot a return frees may take the first delayed work's chain to the  *)
(* worklist.                                                               *)
LEMMA ReturnList ==
  ASSUME TypeOK, TypeOK', ListInv, NEW w \in Worker, Return(w)
  PROVE  ListInv'
<1>1. BusyPwq'
  BY DEF Return, ListInv, BusyPwq, TypeOK
<1>2. CASE ~Hands(w)
  BY <1>1, <1>2, ReturnKeeps, SameLists DEF ListInv
<1>3. CASE Hands(w)
  <2> DEFINE q == current_pwq[w]
             s == delayed_works[q]
  <2>1. /\ s[1] \in Item /\ data' = [data EXCEPT ![s[1]].delayed = FALSE]
        /\ Moves(Item, Heads, Placed, Placed', q, None, ChainLen(s, data))
    BY <1>3, ReturnMoves
  <2> HIDE DEF s
  <2>2. \A x \in Item : data'[x].high = data[x].high
    BY <2>1 DEF TypeOK, Word
  <2> QED BY <1>1, <2>1, <2>2, MovedList DEF ListInv
<1> QED
  BY <1>2, <1>3

(* The steps that leave the lists alone.                                   *)
OtherStep(w) ==
  \/ WokeUp(w) \/ Dying(w) \/ Recheck(w)
  \/ (\E v \in Worker : CreateWorker(w, v)) \/ CreateFails(w) \/ Relock(w)
  \/ LoopEnd(w) \/ RunFunc(w) \/ Sleep(w)

(* The steps of a worker that touch no list of works keep ListInv.         *)
LEMMA OtherStepList ==
  ASSUME TypeOK, TypeOK', ListInv, NEW w \in Worker, OtherStep(w)
  PROVE  ListInv'
<1>1. UNCHANGED <<worklist, scheduled, delayed_works, data, current_pwq>>
  BY DEF OtherStep, WokeUp, Dying, Recheck, CreateWorker, CreateFails, Relock, LoopEnd, RunFunc,
     Sleep, listVars, busyVars
<1>2. \A u \in Worker : pc'[u] \in {"exec", "ret"} => pc[u] \in {"exec", "ret"}
  <2>1. CASE \E v \in Worker : CreateWorker(w, v)
    <3>1. PICK v \in Worker : pc' = [[pc EXCEPT ![w] = "relock"] EXCEPT ![v] = "asleep"]
      BY <2>1 DEF CreateWorker
    <3> QED BY <3>1 DEF TypeOK
  <2>2. CASE RunFunc(w)
    BY <2>2 DEF RunFunc, TypeOK
  <2>3. CASE WokeUp(w) \/ Dying(w) \/ Recheck(w) \/ CreateFails(w) \/ Relock(w) \/ LoopEnd(w) \/ Sleep(w)
    <3>1. \E l \in {"none", "asleep", "dying", "recheck", "create", "relock", "next", "sleep"} :
            pc' = [pc EXCEPT ![w] = l]
      BY <2>3 DEF WokeUp, Dying, Recheck, CreateFails, Relock, LoopEnd, Sleep
    <3> QED BY <3>1 DEF TypeOK
  <2> QED BY <2>1, <2>2, <2>3 DEF OtherStep
<1> QED
  BY <1>1, <1>2, SameLists DEF ListInv, BusyPwq
-----------------------------------------------------------------------------
(* The theorems                                                            *)

(* CoreInv is kept by itself; HeadWoken needs it.                          *)
CoreInv == TypeOK /\ PoolCore /\ ListInv
IInv == CoreInv /\ HeadWoken

(* The inductive invariant holds initially.                                *)
LEMMA InitIInv == Init => IInv
<1> SUFFICES ASSUME Init PROVE IInv
  OBVIOUS
<1>1. PICK w0 \in Worker :
        /\ lock = None /\ worklist = <<>> /\ manager = None
        /\ idle_list = <<w0>> /\ nr_idle = 1 /\ nr_workers = 1 /\ nr_running = 0
        /\ idle_timer = FALSE /\ timer_cb = FALSE
        /\ pc = [w \in Worker |-> IF w = w0 THEN "asleep" ELSE "none"]
        /\ state = [w \in Worker |-> "running"]
  BY DEF Init
<1>2. /\ die = [w \in Worker |-> FALSE]
      /\ current_work = [w \in Worker |-> None]
      /\ current_pwq = [w \in Worker |-> None]
      /\ scheduled = [w \in Worker |-> <<>>]
      /\ data = [i \in Item |-> WorkDataInit]
      /\ delayed_works = [q \in Pwq |-> <<>>]
      /\ nr_active = [q \in Pwq |-> 0]
      /\ queueing = [x \in Work |-> None]
  BY DEF Init
<1>3. WorkDataInit \in Word /\ WorkDataInit.high = PoolNone
  BY DEF WorkDataInit, Word
<1>4. TypeOK
  <2>1. <<w0>> \in Seq(Worker) /\ <<>> \in Seq(Item)
    OBVIOUS
  <2>2. /\ data \in [Item -> Word] /\ scheduled \in [Worker -> Seq(Item)]
        /\ delayed_works \in [Pwq -> Seq(Item)] /\ nr_active \in [Pwq -> Int]
        /\ queueing \in [Work -> Pwq \cup {None}]
    <3> HIDE DEF WorkDataInit, Word
    <3> QED BY <1>2, <1>3, <2>1
  <2>3. /\ pc \in [Worker -> {"none", "asleep", "dying", "recheck", "create", "relock",
                            "next", "exec", "ret", "sched", "sleep"}]
        /\ state \in [Worker -> {"running", "idle"}]
        /\ die \in [Worker -> BOOLEAN] /\ current_work \in [Worker -> Item \cup {None}]
        /\ current_pwq \in [Worker -> Pwq \cup {PoolId, PoolNone, None}]
    BY <1>1, <1>2
  <2>4. /\ lock \in Worker \cup {None} /\ manager \in Worker \cup {None}
        /\ worklist \in Seq(Item) /\ idle_list \in Seq(Worker)
        /\ nr_idle \in Int /\ nr_workers \in Int /\ nr_running \in Int
    BY <1>1, <2>1
  <2>5. idle_timer \in BOOLEAN /\ timer_cb \in BOOLEAN
    BY <1>1
  <2> QED BY <2>2, <2>3, <2>4, <2>5 DEF TypeOK
<1>5. PoolCore /\ HeadWoken
  BY <1>1, <1>2, NoneFacts DEF PoolCore, LockHolder, NrRunningExact, IdleLen, SpareHeld, HeadWoken,
     SleepEmpty, Busy, NonReentrant
<1>6. \A h \in Heads : At(h) = <<>>
  BY <1>1, <1>2, HeadFacts DEF At
<1>7. QueuedOnce
  <2>1. \A h \in Heads : Len(At(h)) = 0
    BY <1>6
  <2> QED BY <1>2, <1>3, <2>1, HeadFacts DEF QueuedOnce, OnList
<1>8. BusyPwq
  BY <1>1 DEF BusyPwq
<1> QED
  BY <1>4, <1>5, <1>7, <1>8 DEF IInv, CoreInv, ListInv

(* A client's queue_work() keeps the invariant.                            *)
LEMMA ClientCore ==
  ASSUME CoreInv, NEW x \in Work, (\E q \in Pwq : SetPending(x, q)) \/ QueueWork(x)
  PROVE  CoreInv' /\ (HeadWoken => HeadWoken')
<1> USE DEF CoreInv
<1>1. TypeOK'
  BY SetPendingType, QueueWorkType
<1> QED BY <1>1, ClientInv, SetPendingList, QueueWorkList

(* So does a barrier.                                                      *)
LEMMA FlushWorkCore ==
  ASSUME CoreInv, NEW x \in Work, NEW b \in Barrier, FlushWork(x, b)
  PROVE  CoreInv' /\ (HeadWoken => HeadWoken')
<1> USE DEF CoreInv
<1>1. TypeOK'
  BY FlushWorkType DEF PoolCore, ListInv
<1> QED BY <1>1, FlushWorkInv, FlushWorkList DEF PoolCore

(* So does every step of a worker, ...                                     *)
LEMMA WorkerStepCore ==
  ASSUME CoreInv, NEW w \in Worker, WorkerStep(w)
  PROVE  CoreInv' /\ (HeadWoken => HeadWoken')
<1> USE DEF CoreInv
<1>1. CASE OtherStep(w)
  <2>1. TypeOK'
    BY <1>1, WokeUpType, DyingType, RecheckType, CreateWorkerType, CreateFailsType, RelockType,
       LoopEndType, RunFuncType, SleepType DEF OtherStep
  <2>2. PoolCore' /\ (HeadWoken => HeadWoken')
    BY <1>1, WokeUpInv, DyingInv, RecheckInv, CreateWorkerInv, CreateFailsInv, RelockInv,
       LoopEndInv, RunFuncInv, SleepInv DEF OtherStep
  <2> QED BY <1>1, <2>1, <2>2, OtherStepList
<1>2. ASSUME NEW from \in {"worklist", "scheduled"}, pc[w] \in {"next", "sched"},
             ProcessOneWork(w, from)
      PROVE  CoreInv' /\ (HeadWoken => HeadWoken')
  <2>1. TypeOK'
    BY <1>2, ProcessOneWorkType
  <2> QED BY <1>2, <2>1, ProcessOneWorkInv, ProcessOneWorkList DEF PoolCore
<1>3. CASE MoveLinked(w)
  <2>1. TypeOK'
    BY <1>3, MoveLinkedType
  <2> QED BY <1>3, <2>1, MoveLinkedInv, MoveLinkedList
<1>4. CASE Return(w)
  <2>1. current_pwq[w] \in Pwq
    BY <1>4 DEF Return, ListInv, BusyPwq
  <2>2. TypeOK'
    BY <1>4, <2>1, ReturnType
  <2> QED BY <1>4, <2>2, ReturnInv, ReturnList
<1>5. CASE Next1(w)
  BY <1>2, <1>5 DEF Next1
<1>6. CASE ProcessScheduled(w)
  BY <1>2, <1>6 DEF ProcessScheduled
<1> HIDE DEF CoreInv
<1> QED BY <1>1, <1>3, <1>4, <1>5, <1>6 DEF WorkerStep, OtherStep

(* ... the idle timer, ...                                                 *)
LEMMA IdleTimerCore ==
  ASSUME CoreInv, TimerExpire \/ IdleWorkerTimeout
  PROVE  CoreInv' /\ (HeadWoken => HeadWoken')
<1> USE DEF CoreInv
<1>1. TypeOK' /\ PoolCore' /\ (HeadWoken => HeadWoken')
  BY TimerExpireType, TimerExpireInv, IdleWorkerTimeoutType, IdleWorkerTimeoutInv
<1>2. UNCHANGED <<pc, worklist, scheduled, delayed_works, data, current_pwq>>
  BY DEF TimerExpire, IdleWorkerTimeout, listVars, busyVars
<1> QED BY <1>1, <1>2, SameLists DEF ListInv, BusyPwq

(* ... and a step that changes nothing of the pool.                        *)
LEMMA StutterCore ==
  ASSUME CoreInv, UNCHANGED vars
  PROVE  CoreInv' /\ (HeadWoken => HeadWoken')
<1> USE DEF CoreInv
<1>1. TypeOK'
  BY StutterType
<1>2. UNCHANGED <<lock, nr_running, pc, idle_list, nr_idle, manager, state, worklist,
                  scheduled, delayed_works, data, current_work, current_pwq>>
  BY DEF vars, idleVars, taskVars, listVars, busyVars
<1>3. PoolCore' /\ (HeadWoken => HeadWoken')
  BY <1>2 DEF PoolCore, LockHolder, NrRunningExact, IdleLen, SpareHeld, HeadWoken, SleepEmpty,
     Busy, NonReentrant
<1> QED BY <1>1, <1>2, <1>3, SameLists DEF ListInv, BusyPwq

(* Every step keeps the invariant.                                         *)
LEMMA NextIInv ==
  ASSUME IInv, [Next]_vars
  PROVE  IInv'
<1>1. CoreInv' /\ (HeadWoken => HeadWoken')
  BY ClientCore, FlushWorkCore, WorkerStepCore, IdleTimerCore, StutterCore DEF IInv, Next, Client
<1> QED BY <1>1 DEF IInv

(* The invariant holds always.                                             *)
THEOREM Invariance == Spec => []IInv
<1>1. Init => IInv
  BY InitIInv
<1>2. IInv /\ [Next]_vars => IInv'
  BY NextIInv
<1> QED
  BY <1>1, <1>2, PTL DEF Spec

(* Every field of the pool always holds a value of its type: in particular *)
(* a worker that returns from a work finds a pwq in current_pwq.           *)
THEOREM TypeCorrect == Spec => []TypeOK
<1>1. IInv => TypeOK
  BY DEF IInv, CoreInv
<1> QED
  BY <1>1, Invariance, PTL

(* However many workers, works and pwqs, no item is executed by two        *)
(* workers of the pool at once (process_one_work()'s collision check).     *)
THEOREM NeverReentrant == Spec => []NonReentrant
<1>1. IInv => NonReentrant
  BY DEF IInv, CoreInv, PoolCore
<1> QED
  BY <1>1, Invariance, PTL

(* The unlocked pool always has an idle worker or a manager, whatever      *)
(* bursts of works arrive and whatever the idle timer destroys.            *)
THEOREM AlwaysSpare == Spec => []Spare
<1>1. IInv => Spare
  BY DEF IInv, CoreInv, PoolCore, SpareHeld, Spare
<1> QED
  BY <1>1, Invariance, PTL

(* While work waits in the unlocked pool the first idle worker is running. *)
THEOREM NoLostWakeup == Spec => []HeadWoken
<1>1. IInv => HeadWoken
  BY DEF IInv
<1> QED
  BY <1>1, Invariance, PTL

(* nr_running is the number of workers in the processing loop.             *)
THEOREM ConcurrencyExact == Spec => []NrRunningExact
<1>1. IInv => NrRunningExact
  BY DEF IInv, CoreInv, PoolCore
<1> QED
  BY <1>1, Invariance, PTL

(* An item is linked on at most one list, in one place, and exactly while  *)
(* its data word names a pwq: it is executed once per queueing.            *)
THEOREM ExecutedOncePerQueueing == Spec => []QueuedOnce
<1>1. IInv => QueuedOnce
  BY DEF IInv, CoreInv, ListInv
<1> QED
  BY <1>1, Invariance, PTL
=============================================================================
