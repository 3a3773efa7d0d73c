--------------------------- MODULE LibraryProofs ---------------------------
(***************************************************************************)
(* Proofs about the concurrent parts of the support library, for any       *)
(* number of threads, bits, tasks, references and timers.                  *)
(***************************************************************************)
EXTENDS Library, ListLemmas, FiniteSetTheorems
-----------------------------------------------------------------------------
(* The instances count as this module does.                                *)
LEMMA SameCardinality ==
  /\ \A S : L!Cardinality(S) = Cardinality(S)
  /\ \A S : T!Cardinality(S) = Cardinality(S)
  BY DEF L!Cardinality, T!Cardinality, Cardinality
-----------------------------------------------------------------------------
(* Kthread                                                                 *)

TaskInv == /\ allocated \in BOOLEAN
           /\ K!TaskHeld

(* No task was created yet.                                                *)
LEMMA InitTask == K!Init => TaskInv
<1> SUFFICES ASSUME K!Init PROVE TaskInv
  OBVIOUS
<1>1. allocated \in BOOLEAN /\ ~allocated /\ refcount = 0 /\ tpc = "none" /\ spc = "none"
  BY DEF K!Init
<1> QED  BY <1>1 DEF TaskInv, K!TaskHeld

(* put_task(): the memory goes with the last reference.                    *)
LEMMA DropTask ==
  ASSUME K!Drop
  PROVE  /\ refcount' = refcount - 1 /\ allocated' \in BOOLEAN
         /\ allocated' <=> allocated /\ refcount > 1
<1>1. allocated' = (allocated /\ refcount > 1) /\ refcount' = refcount - 1
  BY DEF K!Drop
<1> QED  BY <1>1, Zenon

(* Whoever uses the task has a reference: the thread its own, which        *)
(* kthread_create() made, and kthread_stop() another.                      *)
LEMMA NextTask == TaskInv /\ [K!Next]_K!vars => TaskInv'
<1> SUFFICES ASSUME TaskInv, [K!Next]_K!vars PROVE TaskInv'
  OBVIOUS
<1> USE DEF TaskInv, K!TaskHeld
<1>1. CASE K!Create
  BY <1>1 DEF K!Create
<1>2. CASE K!Waker
  BY <1>2 DEF K!Waker
<1>3. CASE K!ThreadStep
  <2>1. CASE K!Boot \/ K!SetState \/ K!Test
    BY <2>1 DEF K!Boot, K!SetState, K!Test, K!ThreadGoto
  <2>2. CASE K!Schedule \/ K!TimedSet \/ K!TimedLock
    BY <2>2 DEF K!Schedule, K!TimedSet, K!TimedLock, K!ThreadGoto
  <2>3. CASE K!Awake \/ K!Exit
    BY <2>3 DEF K!Awake, K!Exit
  <2>4. CASE K!PutTask
    BY <2>4, DropTask DEF K!PutTask
  <2> QED  BY <1>3, <2>1, <2>2, <2>3, <2>4 DEF K!ThreadStep
<1>4. CASE K!StopGet
  BY <1>4 DEF K!StopGet
<1>5. CASE K!StopStep
  <2>1. CASE K!StopFlag \/ K!StopWake \/ K!StopWait
    BY <2>1 DEF K!StopFlag, K!StopWake, K!StopWait
  <2>2. CASE K!StopPut
    BY <2>2, DropTask DEF K!StopPut
  <2> QED  BY <1>5, <2>1, <2>2 DEF K!StopStep
<1>6. CASE UNCHANGED K!vars
  BY <1>6 DEF K!vars
<1> QED  BY <1>1, <1>2, <1>3, <1>4, <1>5, <1>6 DEF K!Next
-----------------------------------------------------------------------------
(* Lockref                                                                 *)

Held == {r \in Reference : holder[r] # None}

(* While a thread puts the last reference, that one is left.               *)
RefInv == /\ holder \in [Reference -> Thread \cup {None}]
          /\ lpc \in [Thread -> {"idle", "last", "dead"}]
          /\ \A u \in Thread : lpc[u] # "idle" <=> u \in locker
          /\ locker \subseteq Thread /\ \A u, v \in locker : u = v
          /\ count = L!Dead \/ (count = Cardinality(Held) /\ count >= 1)
          /\ \A u \in Thread : lpc[u] # "idle" => \E r \in Reference : holder[r] = u /\ Held = {r}
          /\ \A u \in Thread : lpc[u] = "dead" => count = L!Dead
          /\ count = L!Dead => \A r \in Held : lpc[holder[r]] = "dead"

(* Sets of references are finite, and one more or less counts one.         *)
LEMMA CountRefs ==
  ASSUME NEW S \in SUBSET Reference, NEW r \in Reference
  PROVE  /\ IsFiniteSet(S) /\ Cardinality(S) \in Nat
         /\ r \notin S => Cardinality(S \cup {r}) = Cardinality(S) + 1
         /\ r \in S => Cardinality(S \ {r}) = Cardinality(S) - 1
         /\ Cardinality({r}) = 1 /\ (Cardinality(S) = 0 <=> S = {})
<1>1. IsFiniteSet(S)
  BY LibraryAssumption, FS_Subset
<1> QED  BY <1>1, FS_AddElement, FS_RemoveElement, FS_CardinalityType, FS_Singleton, FS_EmptySet

(* The creator has the one reference.                                      *)
LEMMA InitRef == L!Init => RefInv
<1> SUFFICES ASSUME L!Init PROVE RefInv
  OBVIOUS
<1>1. PICK f, u : f = (CHOOSE r \in Reference : TRUE) /\ u = (CHOOSE t \in Thread : TRUE)
  OBVIOUS
<1>2. f \in Reference /\ u \in Thread /\ u # None
  BY <1>1, LibraryAssumption
<1>3. /\ count = 1 /\ locker = {} /\ lpc = [t \in Thread |-> "idle"]
      /\ holder = [r \in Reference |-> IF r = f THEN u ELSE None]
  BY <1>1 DEF L!Init
<1>4. Held = {f}
  BY <1>2, <1>3 DEF Held
<1>5. count = Cardinality(Held)
  BY <1>2, <1>3, <1>4, CountRefs
<1> QED  BY <1>2, <1>3, <1>5 DEF RefInv, L!Dead

(* A thread that has the lock to itself takes a reference.                 *)
LEMMA GainRef ==
  ASSUME RefInv, NEW u \in Thread, L!Idle(u), L!Gain(u), count # L!Dead,
         count' = count + 1, UNCHANGED <<locker, lpc>>
  PROVE  RefInv'
<1>1. PICK r \in Reference : holder[r] = None /\ holder' = [holder EXCEPT ![r] = u]
  BY DEF L!Gain, L!RefsOf
<1>2. u # None
  BY LibraryAssumption
<1>3. Held' = Held \cup {r} /\ r \notin Held
  BY <1>1, <1>2 DEF RefInv, Held
<1>4. Cardinality(Held') = Cardinality(Held) + 1 /\ Cardinality(Held) \in Nat
  <2>1. Held \in SUBSET Reference
    BY DEF Held
  <2> QED  BY <1>3, <2>1, CountRefs
<1>5. \A t \in Thread : lpc[t] = "idle"
  BY DEF RefInv, L!Idle
<1>6. holder' \in [Reference -> Thread \cup {None}]
  BY <1>1 DEF RefInv
<1> QED  BY <1>4, <1>5, <1>6 DEF RefInv, L!Dead

(* ... or gives one back that is not the last.                             *)
LEMMA LoseRef ==
  ASSUME RefInv, NEW u \in Thread, L!PutNotZero(u)
  PROVE  RefInv'
<1>1. PICK r \in Reference : holder[r] = u /\ holder' = [holder EXCEPT ![r] = None]
  BY DEF L!PutNotZero, L!Lose, L!RefsOf
<1>2. u # None
  BY LibraryAssumption
<1>3. Held' = Held \ {r} /\ r \in Held
  BY <1>1, <1>2 DEF RefInv, Held
<1>4. Cardinality(Held') = Cardinality(Held) - 1 /\ Cardinality(Held) \in Nat
  <2>1. Held \in SUBSET Reference
    BY DEF Held
  <2> QED  BY <1>3, <2>1, CountRefs
<1>5. \A t \in Thread : lpc[t] = "idle"
  BY DEF RefInv, L!PutNotZero, L!Idle
<1>6. holder' \in [Reference -> Thread \cup {None}]
  BY <1>1 DEF RefInv
<1> QED  BY <1>4, <1>5, <1>6 DEF RefInv, L!Dead, L!PutNotZero

(* The count is exact until the thread with the last reference marks the   *)
(* object dead, and nobody gets a new one after that.                      *)
LEMMA NextRef == RefInv /\ [L!Next]_L!vars => RefInv'
<1> SUFFICES ASSUME RefInv, [L!Next]_L!vars PROVE RefInv'
  OBVIOUS
<1>1. ASSUME NEW u \in Thread, L!Get(u) PROVE RefInv'
  <2>1. PICK r \in Reference : holder[r] = u /\ u # None
    BY <1>1, LibraryAssumption DEF L!Get, L!RefsOf
  <2>2. lpc[u] = "idle" /\ r \in Held
    BY <1>1, <2>1 DEF L!Get, L!Idle, Held
  <2>3. count # L!Dead
    BY <2>1, <2>2 DEF RefInv
  <2> QED  BY <1>1, <2>3, GainRef DEF L!Get
<1>2. ASSUME NEW u \in Thread, L!GetNotDead(u) PROVE RefInv'
  BY <1>2, GainRef DEF L!GetNotDead, L!Dead
<1>3. ASSUME NEW u \in Thread, L!PutNotZero(u) PROVE RefInv'
  BY <1>3, LoseRef
<1>4. ASSUME NEW u \in Thread, L!PutOrLock(u) PROVE RefInv'
  <2>1. CASE count <= 1 /\ locker' = {u} /\ L!Goto(u, "last") /\ UNCHANGED <<count, holder>>
    <3>1. PICK r \in Reference : holder[r] = u /\ u # None
      BY <1>4, LibraryAssumption DEF L!PutOrLock, L!RefsOf
    <3>2. r \in Held /\ lpc[u] = "idle" /\ locker = {}
      BY <1>4, <3>1 DEF L!PutOrLock, L!Idle, Held
    <3>3. count = 1 /\ count = Cardinality(Held)
      <4>1. count # L!Dead
        <5>1. lpc[holder[r]] # "dead" /\ r \in Held
          BY <3>1, <3>2
        <5> QED  BY <5>1 DEF RefInv
      <4>2. count = Cardinality(Held) /\ count >= 1
        BY <4>1 DEF RefInv
      <4>3. Cardinality(Held) \in Nat
        BY CountRefs DEF Held
      <4> QED  BY <2>1, <4>2, <4>3
    <3>4. Held = {r}
      <4>1. Held \in SUBSET Reference /\ Held \ {r} \in SUBSET Reference
        BY DEF Held
      <4>2. Cardinality(Held \ {r}) = 0
        <5>1. Cardinality(Held \ {r}) = Cardinality(Held) - 1
          BY <3>2, <4>1, CountRefs
        <5> QED  BY <3>3, <5>1
      <4>3. Held \ {r} = {}
        BY <4>1, <4>2, CountRefs
      <4> QED  BY <3>2, <4>3
    <3>5. \A t \in Thread : lpc'[t] = IF t = u THEN "last" ELSE "idle"
      BY <2>1, <3>2 DEF RefInv, L!Goto
    <3>6. Held' = Held /\ lpc' \in [Thread -> {"idle", "last", "dead"}]
      BY <2>1 DEF RefInv, Held, L!Goto
    <3> QED  BY <2>1, <3>1, <3>3, <3>4, <3>5, <3>6 DEF RefInv, L!Dead
  <2> QED  BY <1>4, <2>1, LoseRef DEF L!PutOrLock
<1>5. ASSUME NEW u \in Thread, L!MarkDead(u) PROVE RefInv'
  <2>1. \A t \in Thread : lpc[t] # "idle" <=> t = u
    BY <1>5 DEF RefInv, L!MarkDead
  <2>2. PICK r \in Reference : holder[r] = u /\ Held = {r}
    BY <1>5 DEF RefInv, L!MarkDead
  <2>3. /\ \A t \in Thread : lpc'[t] = IF t = u THEN "dead" ELSE "idle"
        /\ lpc' \in [Thread -> {"idle", "last", "dead"}] /\ Held' = Held /\ count' = L!Dead
        /\ UNCHANGED <<locker, holder>>
    BY <1>5, <2>1 DEF RefInv, L!MarkDead, L!Goto, Held
  <2> QED  BY <2>1, <2>2, <2>3 DEF RefInv
<1>6. ASSUME NEW u \in Thread, L!Unlock(u) PROVE RefInv'
  <2>1. count = L!Dead /\ \A t \in Thread : lpc[t] # "idle" <=> t = u
    BY <1>6 DEF RefInv, L!Unlock
  <2>2. PICK r \in Reference : holder[r] = u /\ Held = {r}
    BY <1>6 DEF RefInv, L!Unlock
  <2>3. PICK s \in Reference : holder[s] = u /\ holder' = [holder EXCEPT ![s] = None]
    BY <1>6 DEF L!Unlock, L!Lose, L!RefsOf
  <2>4. Held' = {} /\ holder' \in [Reference -> Thread \cup {None}]
    BY <2>2, <2>3, LibraryAssumption DEF RefInv, Held
  <2>5. lpc' = [lpc EXCEPT ![u] = "idle"] /\ locker' = {} /\ count' = L!Dead
    BY <1>6, <2>1 DEF L!Unlock, L!Goto
  <2>6. /\ lpc' \in [Thread -> {"idle", "last", "dead"}]
        /\ \A t \in Thread : lpc'[t] = "idle"
    BY <2>1, <2>5 DEF RefInv
  <2> QED  BY <2>4, <2>5, <2>6 DEF RefInv
<1>7. CASE UNCHANGED L!vars
  BY <1>7 DEF RefInv, L!vars, Held
<1> QED  BY <1>1, <1>2, <1>3, <1>4, <1>5, <1>6, <1>7 DEF L!Next

(* A dead object has the reference of the thread that unlocks it, and none *)
(* after that.                                                             *)
LEMMA RefCounts == RefInv => L!CountIsReferences
<1> SUFFICES ASSUME RefInv PROVE L!CountIsReferences
  OBVIOUS
<1>1. ASSUME count = L!Dead, NEW u \in Thread
      PROVE  Cardinality(L!RefsOf(u)) = IF u \in locker THEN 1 ELSE 0
  <2>1. CASE u \in locker
    <3>1. PICK r \in Reference : holder[r] = u /\ Held = {r}
      BY <2>1 DEF RefInv
    <3>2. L!RefsOf(u) = {r}
      BY <3>1, LibraryAssumption DEF L!RefsOf, Held
    <3> QED  BY <2>1, <3>2, CountRefs
  <2>2. CASE u \notin locker
    <3>1. L!RefsOf(u) = {}
      BY <1>1, <2>2, LibraryAssumption DEF RefInv, L!RefsOf, Held
    <3> QED  BY <2>2, <3>1, FS_EmptySet
  <2> QED  BY <2>1, <2>2
<1>2. count = L!Dead \/ count = Cardinality(Held)
  BY DEF RefInv
<1> QED  BY <1>1, <1>2, SameCardinality DEF L!CountIsReferences, Held

(* The memory of a task lives as long as somebody uses it, and the count   *)
(* of a lockref is the number of its references until it is dead.          *)
THEOREM ReferencesAreHeld == K!Spec /\ L!Spec => []ReferencesHeld
<1>1. K!Spec => []TaskInv
  BY InitTask, NextTask, PTL DEF K!Spec
<1>2. L!Spec => []RefInv
  BY InitRef, NextRef, PTL DEF L!Spec
<1>3. TaskInv /\ RefInv => ReferencesHeld
  BY RefCounts DEF TaskInv, ReferencesHeld
<1> QED  BY <1>1, <1>2, <1>3, PTL
-----------------------------------------------------------------------------
(* WaitBit                                                                 *)

BitInv == /\ sem \in [Waiter -> Nat] /\ on \in [Waiter -> Bit] /\ intr \in [Waiter -> Nat]
          /\ wpc \in [Waiter -> {"idle", "lock", "sem", "taken", "again"}]
          /\ bucket \subseteq Waiter
          /\ B!SleeperIsLinked

(* Nobody waits for a bit at first.                                        *)
LEMMA InitBit == B!Init => BitInv
<1> SUFFICES ASSUME B!Init PROVE BitInv
  OBVIOUS
<1>1. (CHOOSE c \in Bit : TRUE) \in Bit
  BY LibraryAssumption, Zenon
<1>2. PICK b : b = (CHOOSE c \in Bit : TRUE)
  OBVIOUS
<1>3. /\ bucket = {} /\ sem = [w \in Waiter |-> 0] /\ wpc = [w \in Waiter |-> "idle"]
      /\ on = [w \in Waiter |-> b] /\ b \in Bit /\ intr = [w \in Waiter |-> 0]
  BY <1>1, <1>2, Zenon DEF B!Init
<1> QED  BY <1>3 DEF BitInv, B!SleeperIsLinked

(* A waiter is linked while its bit is set or the wakeup is to come, and   *)
(* the wakeup moves it from the bucket to its semaphore.  An interrupted   *)
(* one links itself again, or leaves.                                      *)
LEMMA NextBit == BitInv /\ [B!Next]_B!vars => BitInv'
<1> SUFFICES ASSUME BitInv, [B!Next]_B!vars PROVE BitInv'
  OBVIOUS
<1> USE DEF BitInv, B!SleeperIsLinked, B!Goto
<1>1. ASSUME NEW b \in Bit, B!SetBit(b) PROVE BitInv'
  BY <1>1 DEF B!SetBit
<1>2. ASSUME NEW b \in Bit, B!ClearBit(b) PROVE BitInv'
  BY <1>2 DEF B!ClearBit
<1>3. ASSUME NEW b \in Bit, B!Post(b) PROVE BitInv'
  BY <1>3 DEF B!Post, B!Posted
<1>4. ASSUME NEW w \in Waiter, NEW b \in Bit, B!Wait(w, b), B!Intact PROVE BitInv'
  BY <1>4 DEF B!Wait, B!Intact
<1>5. ASSUME NEW w \in Waiter, B!Enter(w) PROVE BitInv'
  BY <1>5 DEF B!Enter
<1>6. ASSUME NEW w \in Waiter, B!SemWait(w) PROVE BitInv'
  BY <1>6 DEF B!SemWait
<1>7. ASSUME NEW w \in Waiter, B!Test(w) PROVE BitInv'
  BY <1>7 DEF B!Test
<1>8. ASSUME NEW w \in Waiter, B!Again(w) PROVE BitInv'
  BY <1>8 DEF B!Again
<1>9. ASSUME NEW w \in Waiter, B!Interrupted(w) PROVE BitInv'
  BY <1>9 DEF B!Interrupted
<1>10. CASE UNCHANGED B!vars
  BY <1>10 DEF B!vars
<1> QED
  BY <1>1, <1>2, <1>3, <1>4, <1>5, <1>6, <1>7, <1>8, <1>9, <1>10 DEF B!Next, B!Step, B!WaiterStep
-----------------------------------------------------------------------------
(* WaitQueue                                                               *)

(* A thread between its test and its wait has the lock, so the wakeup for  *)
(* an event that came since cannot have happened.                          *)
EventInv ==
  /\ epc \in [Waiter -> {"idle", "enter", "loop", "tested", "asleep", "woken"}]
  /\ timeout \in [Waiter -> Nat] /\ left \in [Waiter -> Nat] /\ until \in [Waiter -> Nat]
  /\ slept \in [Waiter -> Nat] /\ now \in Nat
  /\ \A s \in Waiter : epc[s] \in {"loop", "tested"} => lock = {s}
  /\ event => waking \/ \A s \in Waiter : epc[s] \notin {"asleep", "tested"}

(* Nobody sleeps at first.                                                 *)
LEMMA InitEvent == E!Init => EventInv
  BY DEF E!Init, EventInv

(* What is left is a number of jiffies.                                    *)
LEMMA RemainingType ==
  ASSUME EventInv, NEW s \in Waiter PROVE E!Remaining(s) \subseteq Nat
<1>1. until[s] \in Nat /\ now \in Nat /\ E!Endless \in Nat
  BY LibraryAssumption DEF EventInv, E!Endless
<1>2. CASE timeout[s] = E!Endless
  BY <1>1, <1>2 DEF E!Remaining
<1>3. CASE timeout[s] # E!Endless /\ now >= until[s]
  BY <1>3 DEF E!Remaining
<1>4. CASE timeout[s] # E!Endless /\ ~(now >= until[s])
  <2>1. E!Remaining(s) = {until[s] - now, until[s] - now - 1}
    BY <1>4 DEF E!Remaining
  <2> QED  BY <1>1, <1>4, <2>1
<1> QED  BY <1>2, <1>3, <1>4

(* Each step keeps that.                                                   *)
LEMMA NextEvent == EventInv /\ [E!Next]_E!vars => EventInv'
<1> SUFFICES ASSUME EventInv, [E!Next]_E!vars PROVE EventInv'
  OBVIOUS
<1>1. CASE E!Tick \/ E!Happen \/ E!Undo
  BY <1>1 DEF EventInv, E!Tick, E!Happen, E!Undo
<1>2. CASE E!WakeUp
  BY <1>2 DEF EventInv, E!WakeUp, E!Broadcast
<1>3. ASSUME NEW s \in Waiter, E!Wait(s) PROVE EventInv'
  <2>1. PICK t \in {1, 2, E!Endless} :
          timeout' = [timeout EXCEPT ![s] = t] /\ left' = [left EXCEPT ![s] = t]
    BY <1>3 DEF E!Wait
  <2>2. t \in Nat
    BY LibraryAssumption DEF E!Endless
  <2> QED  BY <1>3, <2>1, <2>2 DEF EventInv, E!Wait, E!Goto
<1>4. ASSUME NEW s \in Waiter, E!Enter(s) PROVE EventInv'
  BY <1>4 DEF E!Enter, E!Goto, EventInv
<1>5. ASSUME NEW s \in Waiter, E!Test(s) PROVE EventInv'
  <2>1. CASE E!Leave(s)
    BY <1>5, <2>1, LibraryAssumption DEF EventInv, E!Test, E!Leave, E!Goto
  <2>2. CASE E!Stay(s)
    BY <1>5, <2>2 DEF EventInv, E!Test, E!Stay, E!Goto
  <2> QED  BY <1>5, <2>1, <2>2 DEF E!Test
<1>6. ASSUME NEW s \in Waiter, E!CondWait(s) PROVE EventInv'
  <2>1. now + left[s] \in Nat
    BY DEF EventInv
  <2> QED  BY <1>6, <2>1 DEF EventInv, E!CondWait, E!Goto
<1>7. ASSUME NEW s \in Waiter, E!Return(s) PROVE EventInv'
  BY <1>7 DEF EventInv, E!Return, E!Goto
<1>8. ASSUME NEW s \in Waiter, E!Relock(s) PROVE EventInv'
  <2>1. PICK r \in E!Remaining(s) : left' = [left EXCEPT ![s] = r]
    BY <1>8 DEF E!Relock
  <2>2. r \in Nat
    BY <2>1, RemainingType
  <2> QED  BY <1>8, <2>1, <2>2 DEF EventInv, E!Relock, E!Goto
<1>9. CASE UNCHANGED E!vars
  BY <1>9 DEF EventInv, E!vars
<1> QED  BY <1>1, <1>2, <1>3, <1>4, <1>5, <1>6, <1>7, <1>8, <1>9 DEF E!Next, E!SleeperStep

(* No thread that waits for a bit sleeps when its wakeup is past, and none *)
(* in wait_event() after the wakeup for its event.                         *)
THEOREM NoSleeperIsLost == B!Spec /\ E!Spec => []NoSleeperLost
<1>1. B!Spec => []BitInv
  BY InitBit, NextBit, PTL DEF B!Spec
<1>2. E!Spec => []EventInv
  BY InitEvent, NextEvent, PTL DEF E!Spec
<1>3. BitInv /\ EventInv => NoSleeperLost
  BY DEF BitInv, EventInv, NoSleeperLost, E!SleeperWillWake
<1> QED  BY <1>1, <1>2, <1>3, PTL

(* What a timed wait slept and what it may still sleep are no more than    *)
(* the timeout: what is left while it is awake, and the time to the end of *)
(* its wait while it sleeps.                                               *)
Fits(s) ==
  /\ epc[s] \in {"enter", "loop", "tested"} => slept[s] + left[s] <= timeout[s]
  /\ epc[s] \in {"asleep", "woken"} =>
       /\ slept[s] <= timeout[s]
       /\ now < until[s] => slept[s] + (until[s] - now) <= timeout[s]
SleepInv == \A s \in Waiter : /\ epc[s] = "idle" => slept[s] = 0
                              /\ timeout[s] = E!Endless \/ Fits(s)

(* The second reading of the clock counts what was slept.                  *)
LEMMA RemainingFits ==
  ASSUME EventInv, NEW s \in Waiter, epc[s] = "woken", Fits(s), timeout[s] # E!Endless,
         NEW r \in E!Remaining(s)
  PROVE  slept[s] + r <= timeout[s]
<1>1. timeout[s] \in Nat /\ until[s] \in Nat /\ slept[s] \in Nat /\ now \in Nat /\ r \in Nat
  BY RemainingType DEF EventInv
<1>2. CASE now >= until[s]
  BY <1>1, <1>2 DEF Fits, E!Remaining
<1>3. CASE ~(now >= until[s])
  <2>1. r = until[s] - now \/ r = until[s] - now - 1
    BY <1>3 DEF E!Remaining
  <2> QED  BY <1>1, <1>3, <2>1 DEF Fits
<1> QED  BY <1>2, <1>3

(* Each step keeps that.                                                   *)
LEMMA NextSleep == EventInv /\ SleepInv /\ [E!Next]_E!vars => SleepInv'
<1> SUFFICES ASSUME EventInv, SleepInv, [E!Next]_E!vars, NEW q \in Waiter
             PROVE  /\ epc'[q] = "idle" => slept'[q] = 0
                    /\ timeout'[q] = E!Endless \/ Fits(q)'
  BY DEF SleepInv, E!Endless
<1>0. /\ epc[q] = "idle" => slept[q] = 0
      /\ timeout[q] = E!Endless \/ Fits(q)
      /\ timeout[q] \in Nat /\ left[q] \in Nat /\ until[q] \in Nat /\ slept[q] \in Nat /\ now \in Nat
  BY DEF SleepInv, EventInv
<1>1. CASE E!Tick
  <2>1. /\ now' = now + 1 /\ UNCHANGED <<epc, timeout, left, until>>
        /\ slept'[q] = IF E!Waits(q) THEN slept[q] + 1 ELSE slept[q]
    BY <1>1 DEF E!Tick
  <2> QED  BY <1>0, <2>1 DEF Fits, E!Waits
<1>2. CASE E!Happen \/ E!Undo \/ UNCHANGED E!vars
  BY <1>0, <1>2 DEF Fits, E!Happen, E!Undo, E!vars
<1>3. CASE E!WakeUp
  <2>1. /\ epc'[q] = IF epc[q] = "asleep" THEN "woken" ELSE epc[q]
        /\ UNCHANGED <<timeout, left, until, slept, now>>
    BY <1>3 DEF E!WakeUp, E!Broadcast
  <2> QED  BY <1>0, <2>1 DEF Fits
<1>4. ASSUME NEW s \in Waiter, E!SleeperStep(s), s # q
      PROVE  /\ epc'[q] = epc[q] /\ timeout'[q] = timeout[q] /\ left'[q] = left[q]
             /\ until'[q] = until[q] /\ slept'[q] = slept[q] /\ now' = now
  BY <1>4 DEF EventInv, E!SleeperStep, E!Wait, E!Enter, E!Test, E!Leave, E!Stay, E!CondWait,
              E!Return, E!Relock, E!Goto
<1>5. CASE E!Wait(q)
  <2>1. PICK t : timeout' = [timeout EXCEPT ![q] = t] /\ left' = [left EXCEPT ![q] = t]
                 /\ t \in {1, 2, E!Endless}
    BY <1>5 DEF E!Wait
  <2>2. /\ epc'[q] = "enter" /\ timeout'[q] = t /\ left'[q] = t /\ slept'[q] = 0 /\ t \in Nat
    BY <1>0, <1>5, <2>1, LibraryAssumption DEF EventInv, E!Wait, E!Goto, E!Endless
  <2> QED  BY <2>2 DEF Fits
<1>6. CASE E!Enter(q)
  <2>1. /\ epc[q] = "enter" /\ epc'[q] = "loop" /\ UNCHANGED <<timeout, left, until, slept, now>>
    BY <1>6 DEF EventInv, E!Enter, E!Goto
  <2> QED  BY <1>0, <2>1 DEF Fits
<1>7. CASE E!Test(q)
  <2>1. CASE E!Leave(q)
    <3>1. epc'[q] = "idle" /\ slept'[q] = 0
      BY <2>1 DEF EventInv, E!Leave, E!Goto
    <3> QED  BY <3>1 DEF Fits
  <2>2. CASE E!Stay(q)
    <3>1. /\ epc[q] = "loop" /\ epc'[q] = "tested" /\ UNCHANGED <<timeout, left, until, slept, now>>
      BY <1>7, <2>2 DEF EventInv, E!Test, E!Stay, E!Goto
    <3> QED  BY <1>0, <3>1 DEF Fits
  <2> QED  BY <1>7, <2>1, <2>2 DEF E!Test
<1>8. CASE E!CondWait(q)
  <2>1. /\ epc[q] = "tested" /\ epc'[q] = "asleep" /\ UNCHANGED <<timeout, left, slept, now>>
        /\ timeout[q] # E!Endless => until'[q] = now + left[q]
    BY <1>8 DEF EventInv, E!CondWait, E!Goto
  <2> QED  BY <1>0, <2>1 DEF Fits
<1>9. CASE E!Return(q)
  <2>1. /\ epc[q] = "asleep" /\ epc'[q] = "woken" /\ UNCHANGED <<timeout, left, until, slept, now>>
    BY <1>9 DEF EventInv, E!Return, E!Goto
  <2> QED  BY <1>0, <2>1 DEF Fits
<1>10. CASE E!Relock(q)
  <2>1. PICK r \in E!Remaining(q) : left' = [left EXCEPT ![q] = r]
    BY <1>10 DEF E!Relock
  <2>2. /\ epc[q] = "woken" /\ epc'[q] = "loop" /\ left'[q] = r
        /\ UNCHANGED <<timeout, slept, now>>
    BY <1>10, <2>1 DEF EventInv, E!Relock, E!Goto
  <2>3. timeout[q] = E!Endless \/ slept[q] + r <= timeout[q]
    BY <1>0, <2>1, <2>2, RemainingFits
  <2> QED  BY <2>2, <2>3 DEF Fits
<1>11. ASSUME NEW s \in Waiter, E!SleeperStep(s)
       PROVE  (epc'[q] = "idle" => slept'[q] = 0) /\ (timeout'[q] = E!Endless \/ Fits(q)')
  <2>1. CASE s # q
    BY <1>0, <1>4, <1>11, <2>1 DEF Fits
  <2>2. CASE s = q
    BY <1>5, <1>6, <1>7, <1>8, <1>9, <1>10, <1>11, <2>2 DEF E!SleeperStep
  <2> QED  BY <2>1, <2>2
<1> QED  BY <1>1, <1>2, <1>3, <1>11 DEF E!Next

(* However often pthread_cond_timedwait() returns too early, the sleeps of *)
(* a timed wait are together no longer than its timeout, whatever time     *)
(* passes between the two readings of the clock.                           *)
THEOREM WaitsAreNoLonger == E!Spec => []NoLonger
<1>1. E!Init => SleepInv
  BY DEF E!Init, SleepInv, Fits
<1>2. E!Spec => []EventInv
  BY InitEvent, NextEvent, PTL DEF E!Spec
<1>3. E!Spec => []SleepInv
  BY <1>1, <1>2, NextSleep, PTL DEF E!Spec
<1>4. EventInv /\ SleepInv => NoLonger
  <2> SUFFICES ASSUME EventInv, SleepInv, NEW s \in Waiter, timeout[s] # E!Endless
               PROVE  slept[s] <= timeout[s]
    BY DEF NoLonger, E!NoLonger
  <2>1. /\ epc[s] \in {"idle", "enter", "loop", "tested", "asleep", "woken"}
        /\ slept[s] \in Nat /\ left[s] \in Nat /\ timeout[s] \in Nat
    BY DEF EventInv
  <2> QED  BY <2>1 DEF SleepInv, Fits
<1> QED  BY <1>2, <1>3, <1>4, PTL
-----------------------------------------------------------------------------
(* SafeMutex                                                               *)

(* The owner field alone is not inductive: it is right because only the    *)
(* thread that has the mutex is between the end of its lock and the start  *)
(* of its unlock.                                                          *)
Inside == {"locked", "held", "leaving", "waits"}
OwnerInv == /\ mpc \in [Thread -> {"out", "queued", "condwait"} \cup Inside]
            /\ mutex \in Thread \cup {None} /\ owner \in Thread \cup {None}
            /\ \A t \in Thread : mpc[t] \in Inside <=> mutex = t
            /\ \A t \in Thread : mpc[t] = "held" <=> owner = t

(* No thread has locked yet.                                               *)
LEMMA InitOwner == M!Init => OwnerInv
  BY LibraryAssumption DEF M!Init, OwnerInv, Inside

(* Each step of a lock, an unlock or a wait keeps it.                      *)
LEMMA NextOwner == OwnerInv /\ [M!Next]_M!vars => OwnerInv'
<1> SUFFICES ASSUME OwnerInv, [M!Next]_M!vars PROVE OwnerInv'
  OBVIOUS
<1> USE LibraryAssumption DEF OwnerInv, Inside, M!Goto
<1>1. ASSUME NEW t \in Thread, M!Lock(t) PROVE OwnerInv'
  BY <1>1 DEF M!Lock
<1>2. ASSUME NEW t \in Thread, M!SetOwner(t) PROVE OwnerInv'
  BY <1>2 DEF M!SetOwner
<1>3. ASSUME NEW t \in Thread, M!Unlock(t) PROVE OwnerInv'
  <2>1. CASE M!ClearOwner(t)
    BY <2>1 DEF M!ClearOwner
  <2>2. CASE mpc[t] = "leaving" /\ mutex' = None /\ M!Goto(t, "out") /\ UNCHANGED owner
    BY <2>2
  <2> QED  BY <1>3, <2>1, <2>2 DEF M!Unlock
<1>4. ASSUME NEW t \in Thread, M!CondWait(t) PROVE OwnerInv'
  <2>1. CASE mpc[t] = "held" /\ owner' = None /\ M!Goto(t, "waits") /\ UNCHANGED mutex
    BY <2>1
  <2>2. CASE mpc[t] = "waits" /\ mutex' = None /\ M!Goto(t, "condwait") /\ UNCHANGED owner
    BY <2>2
  <2>3. CASE mpc[t] = "condwait" /\ M!Goto(t, "queued") /\ UNCHANGED <<mutex, owner>>
    BY <2>3
  <2> QED  BY <1>4, <2>1, <2>2, <2>3 DEF M!CondWait
<1>5. CASE UNCHANGED M!vars
  BY <1>5 DEF M!vars
<1> QED  BY <1>1, <1>2, <1>3, <1>4, <1>5 DEF M!Next

(* Whatever the other threads do, a thread reads itself as the owner       *)
(* exactly between the end of safe_mutex_lock() and the start of its       *)
(* unlock or wait, and then it has the mutex.                              *)
THEOREM OwnerIsRight == M!Spec => []OwnerHolds
<1>1. OwnerInv => OwnerHolds
  BY DEF OwnerInv, OwnerHolds, M!OwnerHolds, Inside
<1> QED  BY <1>1, InitOwner, NextOwner, PTL DEF M!Spec
-----------------------------------------------------------------------------
(* ThreadPool                                                              *)

Asleep == T!Sleepers
AwakeOnes == Thread \ Asleep
Served == Asleep # {} => Len(tasks) <= Cardinality(AwakeOnes)

(* A thread that found the list empty has q_lock until it sleeps, so it is *)
(* still empty.                                                            *)
TaskListInv ==
  /\ tasks \in Seq(Task) /\ rpc \in [Thread -> {"none", "top", "wait", "asleep", "run", "exit"}]
  /\ \A r \in Thread : rpc[r] = "wait" => qlock = {r} /\ tasks = <<>>
  /\ Served

(* The awake threads can be counted, and one that wakes up counts one.     *)
LEMMA AwakeThreads ==
  ASSUME NEW S \in SUBSET Thread, NEW U \in SUBSET Thread, NEW r \in Thread
  PROVE  /\ Cardinality(S) \in Nat
         /\ r \notin S => Cardinality(S \cup {r}) = Cardinality(S) + 1
         /\ S \subseteq U => Cardinality(S) <= Cardinality(U)
<1>1. IsFiniteSet(S) /\ IsFiniteSet(U)
  BY CompletionAssumption, FS_Subset
<1> QED  BY <1>1, FS_AddElement, FS_CardinalityType, FS_Subset

(* There are no threads yet.                                               *)
LEMMA InitTasks == T!Init => TaskListInv
  BY DEF T!Init, TaskListInv, Served, Asleep, T!Sleepers

(* No fewer threads are awake, and no more tasks are listed.               *)
LEMMA FewerTasks ==
  ASSUME TaskListInv, tasks' \in Seq(Task), Len(tasks') <= Len(tasks), Asleep' \subseteq Asleep
  PROVE  Served'
<1> SUFFICES ASSUME Asleep' # {} PROVE Len(tasks') <= Cardinality(AwakeOnes')
  BY DEF Served
<1>1. Len(tasks) <= Cardinality(AwakeOnes)
  <2>1. Asleep # {}
    OBVIOUS
  <2> QED  BY <2>1 DEF TaskListInv, Served
<1>2. AwakeOnes \in SUBSET Thread /\ AwakeOnes' \in SUBSET Thread /\ AwakeOnes \subseteq AwakeOnes'
  BY DEF AwakeOnes
<1>3. /\ Cardinality(AwakeOnes) <= Cardinality(AwakeOnes')
      /\ Cardinality(AwakeOnes) \in Nat /\ Cardinality(AwakeOnes') \in Nat
  BY <1>2, AwakeThreads, LibraryAssumption
<1>4. Len(tasks) \in Nat /\ Len(tasks') \in Nat
  BY LenProperties DEF TaskListInv
<1> QED  BY <1>1, <1>3, <1>4

(* kthread_pool_add() wakes a thread for its task, if one sleeps.          *)
LEMMA AddTasks == ASSUME TaskListInv, NEW x \in Task, T!Add(x) PROVE TaskListInv'
<1>1. tasks' \in Seq(Task) /\ Len(tasks') = Len(tasks) + 1 /\ Len(tasks) \in Nat
  BY AppendProperties, LenProperties DEF TaskListInv, T!Add
<1>2. \A r \in Thread : rpc[r] # "wait"
  BY DEF TaskListInv, T!Add
<1>3. CASE T!Sleepers = {}
  <2>1. UNCHANGED rpc
    BY <1>3 DEF T!Add, T!Signal
  <2>2. Asleep' = {}
    BY <1>3, <2>1 DEF Asleep, T!Sleepers
  <2>3. Served'
    BY <2>2 DEF Served
  <2> QED  BY <1>1, <1>2, <2>1, <2>3 DEF TaskListInv
<1>4. CASE T!Sleepers # {}
  <2>1. PICK r \in T!Sleepers : T!Wake({r})
    BY <1>4 DEF T!Add, T!Signal
  <2>2. r \in Thread /\ rpc[r] = "asleep"
    BY DEF T!Sleepers
  <2>3. \A t \in Thread : rpc'[t] = IF t = r THEN "top" ELSE rpc[t]
    BY <2>1 DEF T!Wake
  <2>4. Asleep' = Asleep \ {r} /\ r \in Asleep
    BY <2>2, <2>3 DEF Asleep, T!Sleepers
  <2>5. AwakeOnes' = AwakeOnes \cup {r} /\ r \notin AwakeOnes
    BY <2>2, <2>4 DEF AwakeOnes
  <2>6. Cardinality(AwakeOnes') = Cardinality(AwakeOnes) + 1 /\ Cardinality(AwakeOnes) \in Nat
    BY <2>2, <2>5, AwakeThreads DEF AwakeOnes
  <2>7. Len(tasks) <= Cardinality(AwakeOnes)
    BY <1>4 DEF TaskListInv, Served, Asleep
  <2>8. Served'
    BY <1>1, <2>6, <2>7 DEF Served
  <2>9. rpc' \in [Thread -> {"none", "top", "wait", "asleep", "run", "exit"}]
    BY <2>1 DEF T!Wake, TaskListInv
  <2> QED  BY <1>1, <1>2, <2>3, <2>8, <2>9 DEF TaskListInv
<1> QED  BY <1>3, <1>4

(* A thread takes a task, leaves, or stays with the lock to sleep.         *)
LEMMA TestTasks == ASSUME TaskListInv, NEW r \in Thread, T!Test(r) PROVE TaskListInv'
<1>1. \A t \in Thread : rpc[t] # "wait"
  BY DEF TaskListInv, T!Test
<1>2. PICK l \in {"wait", "exit", "run"} :
        /\ rpc' = [rpc EXCEPT ![r] = l] /\ (l = "wait" => tasks = <<>> /\ qlock' = {r})
        /\ tasks' = tasks \/ (tasks # <<>> /\ tasks' = Tail(tasks) /\ l = "run")
  BY DEF T!Test, T!Goto
<1>3. tasks' \in Seq(Task) /\ Len(tasks') <= Len(tasks)
  BY <1>2, HeadTailProperties, LenProperties DEF TaskListInv
<1>4. rpc[r] = "top"
  BY DEF T!Test
<1>5. rpc' \in [Thread -> {"none", "top", "wait", "asleep", "run", "exit"}] /\ Asleep' = Asleep
  BY <1>2, <1>4 DEF TaskListInv, Asleep, T!Sleepers
<1>6. Served'
  BY <1>3, <1>5, FewerTasks
<1>7. \A t \in Thread : rpc'[t] = "wait" => t = r /\ l = "wait"
  BY <1>1, <1>2 DEF TaskListInv
<1> QED  BY <1>2, <1>3, <1>5, <1>6, <1>7 DEF TaskListInv

(* Each step of the threads and the caller keeps it.                       *)
LEMMA NextTasks == TaskListInv /\ [T!Next]_T!vars => TaskListInv'
<1> SUFFICES ASSUME TaskListInv, [T!Next]_T!vars PROVE TaskListInv'
  OBVIOUS
<1>1. ASSUME tasks' = tasks \/ tasks' = <<>>, Asleep' \subseteq Asleep,
             rpc' \in [Thread -> {"none", "top", "wait", "asleep", "run", "exit"}],
             \A r \in Thread : rpc'[r] = "wait" => rpc[r] = "wait", UNCHANGED qlock
      PROVE  TaskListInv'
  <2>1. tasks' \in Seq(Task) /\ Len(tasks') <= Len(tasks)
    <3>1. tasks \in Seq(Task) /\ Len(tasks) \in Nat
      BY LenProperties DEF TaskListInv
    <3>2. tasks' = <<>> => tasks' \in Seq(Task) /\ Len(tasks') = 0
      BY EmptySeq
    <3> QED  BY <1>1, <3>1, <3>2
  <2>2. Served'
    BY <1>1, <2>1, FewerTasks
  <2> QED  BY <1>1, <2>1, <2>2 DEF TaskListInv
<1>2. ASSUME NEW R \in SUBSET Thread, T!Wake(R)
      PROVE  /\ rpc' \in [Thread -> {"none", "top", "wait", "asleep", "run", "exit"}]
             /\ Asleep' \subseteq Asleep
             /\ \A r \in Thread : rpc'[r] = "wait" => rpc[r] = "wait"
  BY <1>2 DEF TaskListInv, T!Wake, Asleep, T!Sleepers
<1>3. T!Sleepers \in SUBSET Thread /\ \A r \in T!Sleepers : {r} \in SUBSET Thread
  BY DEF T!Sleepers
<1>4. CASE T!Create
  BY <1>1, <1>4 DEF T!Create, TaskListInv, Asleep, T!Sleepers
<1>5. CASE T!StartFlush \/ T!Shutdown \/ T!Join
  BY <1>1, <1>5 DEF T!StartFlush, T!Shutdown, T!Join, TaskListInv, Asleep, T!Sleepers
<1>6. CASE T!Flush
  <2>1. CASE UNCHANGED rpc
    BY <1>1, <1>6, <2>1 DEF T!Flush, TaskListInv, Asleep, T!Sleepers
  <2>2. CASE T!Wake(T!Sleepers)
    BY <1>1, <1>2, <1>3, <1>6, <2>2 DEF T!Flush
  <2> QED  BY <1>6, <2>1, <2>2 DEF T!Flush
<1>7. CASE T!Broadcast
  BY <1>1, <1>2, <1>3, <1>7 DEF T!Broadcast
<1>8. ASSUME NEW x \in Task, T!Add(x) PROVE TaskListInv'
  BY <1>8, AddTasks
<1>9. ASSUME NEW r \in Thread, T!Test(r) PROVE TaskListInv'
  BY <1>9, TestTasks
<1>10. ASSUME NEW r \in Thread, T!CondWait(r) PROVE TaskListInv'
  <2>1. /\ tasks = <<>> /\ tasks' = tasks /\ qlock = {r} /\ rpc' = [rpc EXCEPT ![r] = "asleep"]
    BY <1>10 DEF TaskListInv, T!CondWait, T!Goto
  <2>2. \A t \in Thread : rpc'[t] # "wait"
    BY <2>1 DEF TaskListInv
  <2>3. Len(tasks') = 0
    BY <2>1, EmptySeq
  <2>4. AwakeOnes' \in SUBSET Thread
    BY DEF AwakeOnes
  <2>5. Cardinality(AwakeOnes') \in Nat
    BY <2>4, AwakeThreads, LibraryAssumption
  <2>6. Served'
    BY <2>3, <2>5 DEF Served
  <2> QED  BY <2>1, <2>2, <2>6 DEF TaskListInv
<1>11. ASSUME NEW r \in Thread, T!Finish(r) PROVE TaskListInv'
  BY <1>1, <1>11 DEF T!Finish, T!Goto, TaskListInv, Asleep, T!Sleepers
<1>12. ASSUME NEW r \in Thread, T!Spurious(r) PROVE TaskListInv'
  BY <1>1, <1>2, <1>3, <1>12 DEF T!Spurious
<1>13. CASE UNCHANGED T!vars
  BY <1>13 DEF T!vars, TaskListInv, Served, Asleep, AwakeOnes, T!Sleepers
<1> QED
  BY <1>4, <1>5, <1>6, <1>7, <1>8, <1>9, <1>10, <1>11, <1>12, <1>13
     DEF T!Next, T!CallerStep, T!RunnerStep

(* While a thread of the pool sleeps, every task of the list has a thread  *)
(* that is awake and will look at the list.                                *)
THEOREM TasksAlwaysHaveThreads == T!Spec => []TasksHaveThreads
<1>1. TaskListInv => TasksHaveThreads
  BY SameCardinality DEF TaskListInv, Served, Asleep, AwakeOnes, TasksHaveThreads, T!TasksHaveThreads
<1> QED  BY <1>1, InitTasks, NextTasks, PTL DEF T!Spec
-----------------------------------------------------------------------------
(* Timer                                                                   *)

Callers == Waiter \cup {"handler"}
Calls == {"idle", "mod", "ret", "del", "deleted", "sync", "synced", "running"}
Elements(s) == {s[i] : i \in 1 .. Len(s)}
Ordered(s, e) == \A i, j \in 1 .. Len(s) : i < j => s[i] # s[j] /\ e[s[i]] <= e[s[j]]

(* The list, ...                                                           *)
TimerList == /\ all_timers \in Seq(Timer) /\ expires \in [Timer -> 0 .. MaxClock]
             /\ linked = Elements(all_timers) /\ Ordered(all_timers, expires)
(* ... the thread, ...                                                     *)
TimerThread == /\ thread \in [pc : {"top", "handler", "wait"}, now : Int, wake : Int, lag : Int]
               /\ clock \in Nat /\ active_node \in Timer \cup {None}
               /\ thread.pc = "handler" <=> active_node # None
               /\ Q!InTime
(* ... and the callers: mod_timer() has the mutex, and its timer is on no  *)
(* list meanwhile; a handler only calls mod_timer(); who sleeps waits for  *)
(* the handler that runs.                                                  *)
TimerCalls ==
  /\ call \in [Callers -> [op : Calls, timer : Timer \cup {None}, ret : {0, 1}]]
  /\ \A c \in Callers : call[c].op # "idle" => call[c].timer \in Timer
  /\ qmutex \in Callers \cup {None} /\ \A c \in Callers : call[c].op = "mod" <=> qmutex = c
  /\ \A c \in Callers : call[c].op = "mod" => call[c].timer \notin linked
  /\ waiters \subseteq Waiter /\ call["handler"].op \in {"idle", "mod", "ret"}
  /\ \A c \in waiters : call[c].op = "running" /\ active_node = call[c].timer
TimerInv == TimerList /\ TimerThread /\ TimerCalls

(* It says what the runs check.                                            *)
LEMMA TimerInvSays == TimerInv => TimersInOrder
<1> SUFFICES ASSUME TimerInv PROVE TimersInOrder
  OBVIOUS
<1>1. DOMAIN all_timers = 1 .. Len(all_timers)
  BY LenProperties DEF TimerInv, TimerList
<1>2. Q!TypeOK
  BY <1>1 DEF TimerInv, TimerList, TimerThread, TimerCalls, Elements, Callers, Q!TypeOK
<1>3. Q!Sorted
  BY <1>1 DEF TimerInv, TimerList, Ordered, Q!Sorted
<1> QED  BY <1>2, <1>3 DEF TimersInOrder, TimerInv, TimerThread, TimerCalls, Q!WaitersHaveHandler

CutAt(s, k) == SubSeq(s, 1, k - 1) \o SubSeq(s, k + 1, Len(s))
PutAt(s, k, t) == SubSeq(s, 1, k) \o <<t>> \o SubSeq(s, k + 1, Len(s))

(* What list_del() leaves.                                                 *)
LEMMA CutOut ==
  ASSUME NEW S, NEW s \in Seq(S), NEW k \in 1 .. Len(s)
  PROVE  /\ CutAt(s, k) \in Seq(S) /\ Len(CutAt(s, k)) = Len(s) - 1 /\ Len(s) \in Nat
         /\ \A j \in 1 .. Len(s) - 1 : CutAt(s, k)[j] = IF j < k THEN s[j] ELSE s[j + 1]
<1> DEFINE p == SubSeq(s, 1, k - 1)
           q == SubSeq(s, k + 1, Len(s))
           r == p \o q
<1>1. Len(s) \in Nat
  BY LenProperties
<1>2. p \in Seq(S) /\ Len(p) = k - 1 /\ \A j \in 1 .. k - 1 : p[j] = s[j]
  BY <1>1, SubSeqType
<1>3. q \in Seq(S) /\ Len(q) = Len(s) - k /\ \A j \in 1 .. Len(s) - k : q[j] = s[j + k]
  BY <1>1, SubSeqType
<1> HIDE DEF p, q
<1>4. /\ r \in Seq(S) /\ Len(r) = Len(p) + Len(q)
      /\ \A j \in 1 .. Len(p) + Len(q) : r[j] = IF j <= Len(p) THEN p[j] ELSE q[j - Len(p)]
  BY <1>2, <1>3, ConcatProperties
<1> HIDE DEF r
<1>5. ASSUME NEW j \in 1 .. Len(s) - 1
      PROVE  r[j] = IF j < k THEN s[j] ELSE s[j + 1]
  <2>1. j \in 1 .. Len(p) + Len(q)
    BY <1>1, <1>2, <1>3
  <2>2. CASE j < k
    BY <1>1, <1>2, <1>4, <2>1, <2>2
  <2>3. CASE j >= k
    <3>1. r[j] = q[j - (k - 1)] /\ j - (k - 1) \in 1 .. Len(s) - k
      BY <1>1, <1>2, <1>4, <2>1, <2>3
    <3>2. q[j - (k - 1)] = s[(j - (k - 1)) + k] /\ (j - (k - 1)) + k = j + 1
      BY <1>1, <1>3, <3>1
    <3> QED BY <1>1, <2>3, <3>1, <3>2
  <2> QED BY <1>1, <2>2, <2>3
<1>6. r \in Seq(S) /\ Len(r) = Len(s) - 1
  BY <1>1, <1>2, <1>3, <1>4
<1>7. CutAt(s, k) = r
  BY DEF CutAt, r, p, q
<1> QED BY <1>1, <1>5, <1>6, <1>7

(* What list_add() makes.                                                  *)
LEMMA PutIn ==
  ASSUME NEW S, NEW s \in Seq(S), NEW k \in 0 .. Len(s), NEW t \in S
  PROVE  /\ PutAt(s, k, t) \in Seq(S) /\ Len(PutAt(s, k, t)) = Len(s) + 1 /\ Len(s) \in Nat
         /\ \A j \in 1 .. Len(s) + 1 : PutAt(s, k, t)[j] = IF j <= k THEN s[j] ELSE IF j = k + 1 THEN t ELSE s[j - 1]
<1> DEFINE p == SubSeq(s, 1, k)
           q == SubSeq(s, k + 1, Len(s))
           o == <<t>>
           m == p \o o
           r == m \o q
<1>1. Len(s) \in Nat
  BY LenProperties
<1>2. p \in Seq(S) /\ Len(p) = k /\ \A j \in 1 .. k : p[j] = s[j]
  BY <1>1, SubSeqType
<1>3. q \in Seq(S) /\ Len(q) = Len(s) - k /\ \A j \in 1 .. Len(s) - k : q[j] = s[j + k]
  BY <1>1, SubSeqType
<1>4. o \in Seq(S) /\ Len(o) = 1 /\ o[1] = t
  OBVIOUS
<1> HIDE DEF p, q, o
<1>5. /\ m \in Seq(S) /\ Len(m) = Len(p) + Len(o)
      /\ \A j \in 1 .. Len(p) + Len(o) : m[j] = IF j <= Len(p) THEN p[j] ELSE o[j - Len(p)]
  BY <1>2, <1>4, ConcatProperties
<1> HIDE DEF m
<1>6. m \in Seq(S) /\ Len(m) = k + 1 /\ \A j \in 1 .. k + 1 : m[j] = IF j <= k THEN s[j] ELSE t
  <2>1. \A j \in 1 .. k : m[j] = s[j]
    BY <1>1, <1>2, <1>4, <1>5
  <2>2. m[k + 1] = o[(k + 1) - k] /\ (k + 1) - k = 1
    BY <1>1, <1>2, <1>4, <1>5
  <2> QED BY <1>1, <1>2, <1>4, <1>5, <2>1, <2>2
<1>7. /\ r \in Seq(S) /\ Len(r) = Len(m) + Len(q)
      /\ \A j \in 1 .. Len(m) + Len(q) : r[j] = IF j <= Len(m) THEN m[j] ELSE q[j - Len(m)]
  BY <1>3, <1>6, ConcatProperties
<1> HIDE DEF r
<1>8. ASSUME NEW j \in 1 .. Len(s) + 1
      PROVE  r[j] = IF j <= k THEN s[j] ELSE IF j = k + 1 THEN t ELSE s[j - 1]
  <2>1. j \in 1 .. Len(m) + Len(q)
    BY <1>1, <1>3, <1>6
  <2>2. CASE j <= k + 1
    BY <1>1, <1>6, <1>7, <2>1, <2>2
  <2>3. CASE j > k + 1
    <3>1. r[j] = q[j - (k + 1)] /\ j - (k + 1) \in 1 .. Len(s) - k
      BY <1>1, <1>6, <1>7, <2>1, <2>3
    <3>2. q[j - (k + 1)] = s[(j - (k + 1)) + k] /\ (j - (k + 1)) + k = j - 1
      BY <1>1, <1>3, <3>1
    <3> QED BY <1>1, <2>3, <3>1, <3>2
  <2> QED BY <1>1, <2>2, <2>3
<1>9. r \in Seq(S) /\ Len(r) = Len(s) + 1
  BY <1>1, <1>3, <1>6, <1>7
<1>10. PutAt(s, k, t) = r
  BY DEF PutAt, r, m, p, q, o
<1> QED BY <1>1, <1>8, <1>9, <1>10

(* detach_if_pending(): the timer is off the list, the others stay in      *)
(* order, and the first of them expires no earlier than before.            *)
LEMMA Detached ==
  ASSUME TimerList, NEW t \in Timer, NEW r, r = Q!Without(t),
         NEW e, \A u \in Timer : u # t => e[u] = expires[u]
  PROVE  /\ r \in Seq(Timer) /\ Elements(r) = linked \ {t} /\ Ordered(r, e)
         /\ r # <<>> => all_timers # <<>> /\ e[Head(r)] >= expires[Head(all_timers)]
<1>1. DOMAIN all_timers = 1 .. Len(all_timers) /\ Len(all_timers) \in Nat
      /\ \A i \in 1 .. Len(all_timers) : all_timers[i] \in Timer
  BY LenProperties, ElementOfSeq DEF TimerList
<1>2. CASE t \notin linked
  <2>1. r = all_timers
    BY <1>2 DEF Q!Without
  <2>2. \A i \in 1 .. Len(all_timers) : all_timers[i] # t
    BY <1>2 DEF TimerList, Elements
  <2>3. Ordered(r, e)
    BY <1>1, <2>1, <2>2 DEF TimerList, Ordered
  <2>4. r # <<>> => Head(r) = all_timers[1] /\ 1 \in 1 .. Len(all_timers)
    BY <1>1, <2>1, HeadTailProperties DEF TimerList
  <2>5. r # <<>> => e[Head(r)] >= expires[Head(all_timers)]
    BY <1>1, <2>1, <2>2, <2>4 DEF TimerList
  <2> QED  BY <1>2, <2>1, <2>3, <2>5 DEF TimerList
<1>3. CASE t \in linked
  <2>1. PICK k : k = CHOOSE i \in DOMAIN all_timers : all_timers[i] = t
    OBVIOUS
  <2>2. \E i \in DOMAIN all_timers : all_timers[i] = t
    BY <1>1, <1>3 DEF TimerList, Elements
  <2>3. k \in 1 .. Len(all_timers) /\ all_timers[k] = t
    BY <1>1, <2>1, <2>2
  <2>4. r = SubSeq(all_timers, 1, k - 1) \o SubSeq(all_timers, k + 1, Len(all_timers))
    BY <1>3, <2>1 DEF Q!Without
  <2>5. /\ r \in Seq(Timer) /\ Len(r) = Len(all_timers) - 1
        /\ \A j \in 1 .. Len(all_timers) - 1 :
             r[j] = IF j < k THEN all_timers[j] ELSE all_timers[j + 1]
    <3>1. r = CutAt(all_timers, k)
      BY <2>4 DEF CutAt
    <3>2. /\ CutAt(all_timers, k) \in Seq(Timer) /\ Len(CutAt(all_timers, k)) = Len(all_timers) - 1
          /\ \A j \in 1 .. Len(all_timers) - 1 : CutAt(all_timers, k)[j] =
               IF j < k THEN all_timers[j] ELSE all_timers[j + 1]
      BY <2>3, CutOut DEF TimerList
    <3> QED  BY <3>1, <3>2
  <2>6. \A i \in 1 .. Len(all_timers) : i # k => all_timers[i] # t
    BY <1>1, <2>3 DEF TimerList, Ordered
  <2>7. Elements(r) = linked \ {t}
    <3>1. ASSUME NEW j \in 1 .. Len(r) PROVE r[j] \in linked \ {t}
      <4>1. /\ j \in 1 .. Len(all_timers) /\ j + 1 \in 1 .. Len(all_timers)
            /\ r[j] = IF j < k THEN all_timers[j] ELSE all_timers[j + 1]
        BY <1>1, <2>5
      <4> QED  BY <1>1, <2>3, <2>6, <4>1 DEF TimerList, Elements
    <3>2. ASSUME NEW i \in 1 .. Len(all_timers), i # k
          PROVE  \E j \in 1 .. Len(r) : r[j] = all_timers[i]
      <4>1. CASE i < k
        BY <1>1, <2>3, <2>5, <4>1
      <4>2. CASE i > k
        <5>1. i - 1 \in 1 .. Len(all_timers) - 1 /\ ~(i - 1 < k) /\ (i - 1) + 1 = i
          BY <1>1, <2>3, <4>2
        <5> QED  BY <2>5, <5>1
      <4> QED  BY <1>1, <2>3, <3>2, <4>1, <4>2
    <3>3. ASSUME NEW u \in linked, u # t PROVE u \in Elements(r)
      <4>1. PICK i \in 1 .. Len(all_timers) : all_timers[i] = u
        BY <3>3 DEF TimerList, Elements
      <4>2. i # k
        BY <2>3, <3>3, <4>1
      <4> QED  BY <3>2, <4>1, <4>2 DEF Elements
    <3>4. \A u \in Elements(r) : u \in linked \ {t}
      BY <3>1 DEF Elements
    <3> QED  BY <3>3, <3>4
  <2>8. Ordered(r, e)
    <3> SUFFICES ASSUME NEW i \in 1 .. Len(r), NEW j \in 1 .. Len(r), i < j
                 PROVE  r[i] # r[j] /\ e[r[i]] <= e[r[j]]
      BY DEF Ordered
    <3>1. PICK m, n : m = (IF i < k THEN i ELSE i + 1) /\ n = (IF j < k THEN j ELSE j + 1)
      OBVIOUS
    <3>2. /\ m \in 1 .. Len(all_timers) /\ n \in 1 .. Len(all_timers) /\ m < n /\ m # k /\ n # k
          /\ r[i] = all_timers[m] /\ r[j] = all_timers[n]
      BY <1>1, <2>3, <2>5, <3>1
    <3>3. all_timers[m] # all_timers[n] /\ expires[all_timers[m]] <= expires[all_timers[n]]
      BY <3>2 DEF TimerList, Ordered
    <3>4. e[all_timers[m]] = expires[all_timers[m]] /\ e[all_timers[n]] = expires[all_timers[n]]
      BY <1>1, <2>6, <3>2
    <3> QED  BY <3>2, <3>3, <3>4
  <2>9. ASSUME r # <<>> PROVE all_timers # <<>> /\ e[Head(r)] >= expires[Head(all_timers)]
    <3>1. Len(r) > 0 /\ Head(r) = r[1]
      BY <2>5, <2>9, HeadTailProperties, LenProperties
    <3>2. Head(all_timers) = all_timers[1] /\ all_timers # <<>>
      BY <1>1, <2>5, <3>1, HeadTailProperties, EmptySeq DEF TimerList
    <3>3. PICK m \in 1 .. Len(all_timers) : r[1] = all_timers[m] /\ m # k
      BY <1>1, <2>3, <2>5, <3>1
    <3>4. expires[all_timers[1]] <= expires[all_timers[m]]
      <4>1. expires[all_timers[m]] \in 0 .. MaxClock
        BY <1>1 DEF TimerList
      <4> QED  BY <1>1, <3>3, <4>1, LibraryAssumption DEF TimerList, Ordered
    <3>5. e[all_timers[m]] = expires[all_timers[m]]
      BY <1>1, <2>6, <3>3
    <3>6. expires[all_timers[m]] \in Int /\ expires[all_timers[1]] \in Int
      BY <1>1, <3>3, LibraryAssumption DEF TimerList
    <3> QED  BY <3>1, <3>2, <3>3, <3>4, <3>5, <3>6
  <2> QED  BY <2>5, <2>7, <2>8, <2>9
<1> QED  BY <1>2, <1>3

(* __add_timer(): the timer is on the list, behind those that expire no    *)
(* later than it, and it is the first one or leaves the first one.         *)
LEMMA Inserted ==
  ASSUME TimerList, NEW t \in Timer, t \notin linked, Q!Insert(t)
  PROVE  /\ all_timers' \in Seq(Timer) /\ Elements(all_timers') = linked \cup {t}
         /\ Ordered(all_timers', expires) /\ all_timers' # <<>>
         /\ Head(all_timers') = t \/ (all_timers # <<>> /\ Head(all_timers') = Head(all_timers))
<1>1. /\ Len(all_timers) \in Nat
      /\ \A i \in 1 .. Len(all_timers) :
           all_timers[i] \in linked /\ all_timers[i] # t /\ expires[all_timers[i]] \in Int
  BY LenProperties, ElementOfSeq, LibraryAssumption DEF TimerList, Elements
<1>2. PICK k \in 0 .. Len(all_timers) :
        /\ \A j \in 1 .. k : expires[all_timers[j]] <= expires[t]
        /\ k < Len(all_timers) => expires[t] < expires[all_timers[k + 1]]
        /\ all_timers' = SubSeq(all_timers, 1, k) \o <<t>> \o SubSeq(all_timers, k + 1, Len(all_timers))
  BY DEF Q!Insert
<1>3. /\ all_timers' \in Seq(Timer) /\ Len(all_timers') = Len(all_timers) + 1
      /\ \A j \in 1 .. Len(all_timers) + 1 : all_timers'[j] =
           IF j <= k THEN all_timers[j] ELSE IF j = k + 1 THEN t ELSE all_timers[j - 1]
  <2>1. all_timers' = PutAt(all_timers, k, t)
    BY <1>2 DEF PutAt
  <2>2. /\ PutAt(all_timers, k, t) \in Seq(Timer) /\ Len(PutAt(all_timers, k, t)) = Len(all_timers) + 1
        /\ \A j \in 1 .. Len(all_timers) + 1 : PutAt(all_timers, k, t)[j] =
             IF j <= k THEN all_timers[j] ELSE IF j = k + 1 THEN t ELSE all_timers[j - 1]
    BY PutIn DEF TimerList
  <2> QED  BY <2>1, <2>2
<1>4. expires[t] \in Int
  BY LibraryAssumption DEF TimerList
<1>5. \A i \in k + 1 .. Len(all_timers) : expires[t] <= expires[all_timers[i]]
  <2> SUFFICES ASSUME NEW i \in k + 1 .. Len(all_timers) PROVE expires[t] <= expires[all_timers[i]]
    OBVIOUS
  <2>1. k + 1 \in 1 .. Len(all_timers) /\ i \in 1 .. Len(all_timers) /\ k < Len(all_timers)
    BY <1>1
  <2>2. expires[all_timers[k + 1]] <= expires[all_timers[i]]
    BY <1>1, <2>1 DEF TimerList, Ordered
  <2> QED  BY <1>1, <1>2, <1>4, <2>1, <2>2
<1>6. ASSUME NEW i \in 1 .. Len(all_timers'), NEW j \in 1 .. Len(all_timers'), i < j
      PROVE  all_timers'[i] # all_timers'[j] /\ expires[all_timers'[i]] <= expires[all_timers'[j]]
  <2>1. CASE j <= k
    <3>1. /\ i \in 1 .. Len(all_timers) /\ j \in 1 .. Len(all_timers)
          /\ all_timers'[i] = all_timers[i] /\ all_timers'[j] = all_timers[j]
      BY <1>1, <1>3, <1>6, <2>1
    <3> QED  BY <1>6, <3>1 DEF TimerList, Ordered
  <2>2. CASE j = k + 1
    <3>1. /\ i \in 1 .. Len(all_timers) /\ i \in 1 .. k
          /\ all_timers'[i] = all_timers[i] /\ all_timers'[j] = t
      BY <1>1, <1>3, <1>6, <2>2
    <3> QED  BY <1>1, <1>2, <3>1
  <2>3. CASE i = k + 1
    <3>1. /\ j - 1 \in k + 1 .. Len(all_timers) /\ j - 1 \in 1 .. Len(all_timers)
          /\ all_timers'[i] = t /\ all_timers'[j] = all_timers[j - 1]
      BY <1>1, <1>3, <1>6, <2>3
    <3> QED  BY <1>1, <1>5, <3>1
  <2>4. CASE j > k + 1 /\ i # k + 1
    <3>1. PICK m, n : m = (IF i <= k THEN i ELSE i - 1) /\ n = j - 1
      OBVIOUS
    <3>2. /\ m \in 1 .. Len(all_timers) /\ n \in 1 .. Len(all_timers) /\ m < n
          /\ all_timers'[i] = all_timers[m] /\ all_timers'[j] = all_timers[n]
      BY <1>1, <1>3, <1>6, <2>4, <3>1
    <3> QED  BY <3>2 DEF TimerList, Ordered
  <2> QED  BY <1>1, <1>3, <2>1, <2>2, <2>3, <2>4
<1>7. Elements(all_timers') = linked \cup {t}
  <2>1. ASSUME NEW j \in 1 .. Len(all_timers') PROVE all_timers'[j] \in linked \cup {t}
    <3>1. \/ all_timers'[j] = t
          \/ \E i \in 1 .. Len(all_timers) : all_timers'[j] = all_timers[i]
      <4>1. CASE j <= k
        BY <1>1, <1>3, <4>1
      <4>2. CASE j > k + 1
        <5>1. j - 1 \in 1 .. Len(all_timers) /\ all_timers'[j] = all_timers[j - 1]
          BY <1>1, <1>3, <4>2
        <5> QED  BY <5>1
      <4>3. CASE j = k + 1
        BY <1>1, <1>3, <4>3
      <4> QED  BY <1>1, <1>3, <4>1, <4>2, <4>3
    <3> QED  BY <1>1, <3>1
  <2>2. ASSUME NEW i \in 1 .. Len(all_timers)
        PROVE  \E j \in 1 .. Len(all_timers') : all_timers'[j] = all_timers[i]
    <3>1. CASE i <= k
      <4>1. i \in 1 .. Len(all_timers') /\ all_timers'[i] = all_timers[i]
        BY <1>1, <1>3, <3>1
      <4> QED  BY <4>1
    <3>2. CASE i > k
      <4>1. /\ i + 1 \in 1 .. Len(all_timers) + 1 /\ ~(i + 1 <= k) /\ i + 1 # k + 1
            /\ (i + 1) - 1 = i
        BY <1>1, <3>2
      <4>2. i + 1 \in 1 .. Len(all_timers') /\ all_timers'[i + 1] = all_timers[i]
        BY <1>3, <4>1
      <4> QED  BY <4>2
    <3> QED  BY <1>1, <3>1, <3>2
  <2>3. k + 1 \in 1 .. Len(all_timers') /\ all_timers'[k + 1] = t
    BY <1>1, <1>3
  <2>4. \A u \in linked : \E i \in 1 .. Len(all_timers) : all_timers[i] = u
    BY DEF TimerList, Elements
  <2>5. \A u \in linked \cup {t} : u \in Elements(all_timers')
    BY <2>2, <2>3, <2>4 DEF Elements
  <2>6. \A u \in Elements(all_timers') : u \in linked \cup {t}
    BY <2>1 DEF Elements
  <2> QED  BY <2>5, <2>6
<1>8. all_timers' # <<>> /\ Head(all_timers') = all_timers'[1]
  BY <1>1, <1>3, HeadTailProperties, EmptySeq
<1>9. all_timers'[1] = t \/ (1 \in 1 .. Len(all_timers) /\ all_timers'[1] = all_timers[1])
  BY <1>1, <1>3
<1>10. 1 \in 1 .. Len(all_timers) => all_timers # <<>> /\ Head(all_timers) = all_timers[1]
  BY <1>1, HeadTailProperties, EmptySeq DEF TimerList
<1> QED  BY <1>3, <1>6, <1>7, <1>8, <1>9, <1>10 DEF Ordered

(* At first the list is empty and nobody calls.                            *)
LEMMA InitTimer == Q!Init => TimerInv
<1> SUFFICES ASSUME Q!Init PROVE TimerInv
  OBVIOUS
<1>1. TimerList
  <2>1. all_timers \in Seq(Timer) /\ Len(all_timers) = 0
    BY EmptySeq DEF Q!Init
  <2>2. expires \in [Timer -> 0 .. MaxClock]
    BY LibraryAssumption DEF Q!Init
  <2> QED  BY <2>1, <2>2 DEF Q!Init, TimerList, Elements, Ordered
<1>2. TimerThread
  BY LibraryAssumption DEF Q!Init, TimerThread, Q!InTime
<1>3. TimerCalls
  BY LibraryAssumption DEF Q!Init, TimerCalls, Q!Idle, Callers, Calls
<1> QED  BY <1>1, <1>2, <1>3 DEF TimerInv

(* A timer is detached, and perhaps given a new time: the wait of the      *)
(* thread still ends by the first timer.                                   *)
LEMMA DetachKeeps ==
  ASSUME TimerInv, NEW t \in Timer, all_timers' = Q!Without(t), linked' = linked \ {t},
         expires' \in [Timer -> 0 .. MaxClock], \A u \in Timer : u # t => expires'[u] = expires[u],
         UNCHANGED <<active_node, clock, thread>>
  PROVE  TimerList' /\ TimerThread'
<1>1. /\ all_timers' \in Seq(Timer) /\ Elements(all_timers') = linked \ {t}
      /\ Ordered(all_timers', expires')
      /\ all_timers' # <<>> =>
           all_timers # <<>> /\ expires'[Head(all_timers')] >= expires[Head(all_timers)]
  BY Detached DEF TimerInv
<1>2. TimerList'
  BY <1>1 DEF TimerList
<1>3. all_timers' # <<>> =>
        expires'[Head(all_timers')] \in Int /\ expires[Head(all_timers)] \in Int
  <2> SUFFICES ASSUME all_timers' # <<>> PROVE Head(all_timers') \in Timer /\ Head(all_timers) \in Timer
    BY LibraryAssumption DEF TimerInv, TimerList
  <2> QED  BY <1>1, HeadTailProperties DEF TimerInv, TimerList
<1>4. Q!InTime'
  <2> SUFFICES ASSUME thread'.pc = "wait", all_timers' # <<>>
               PROVE  thread'.wake \in 0 .. expires'[Head(all_timers')] + thread'.lag
    BY DEF Q!InTime
  <2>1. thread.wake \in 0 .. expires[Head(all_timers)] + thread.lag
    BY <1>1 DEF TimerInv, TimerThread, Q!InTime
  <2>2. thread.lag \in Int /\ thread.wake \in Int /\ thread' = thread
    BY DEF TimerInv, TimerThread
  <2> QED  BY <1>1, <1>3, <2>1, <2>2
<1> QED  BY <1>2, <1>4 DEF TimerInv, TimerThread

(* A caller goes on to the next place of its function.                     *)
LEMMA SetKeeps ==
  ASSUME TimerCalls, NEW c \in Callers, NEW o \in Calls, NEW t \in Timer, NEW r \in {0, 1},
         Q!Set(c, o, t, r), c \notin waiters, linked' \subseteq linked,
         o = "mod" => qmutex = None /\ qmutex' = c /\ t \notin linked',
         o # "mod" => qmutex' = qmutex /\ call[c].op # "mod",
         c = "handler" => o \in {"mod", "ret"}, UNCHANGED <<waiters, active_node>>
  PROVE  TimerCalls'
<1>1. /\ call'[c] = [op |-> o, timer |-> t, ret |-> r]
      /\ \A d \in Callers : d # c => call'[d] = call[d]
      /\ call' \in [Callers -> [op : Calls, timer : Timer \cup {None}, ret : {0, 1}]]
  BY DEF TimerCalls, Q!Set
<1>2. call'[c].op = o /\ call'[c].timer = t
  BY <1>1
<1>3. \A d \in Callers : call'[d].op # "idle" => call'[d].timer \in Timer
  BY <1>1, <1>2 DEF TimerCalls
<1>5. \A d \in Callers : call'[d].op = "mod" <=> qmutex' = d
  <2>1. \A d \in Callers : call[d].op = "mod" <=> qmutex = d
    BY DEF TimerCalls
  <2>2. CASE o = "mod"
    <3>1. \A d \in Callers : d # None
      BY LibraryAssumption DEF Callers
    <3> QED  BY <1>1, <1>2, <2>1, <2>2, <3>1
  <2>3. CASE o # "mod"
    <3>1. qmutex' = qmutex /\ call[c].op # "mod"
      BY <2>3
    <3> QED  BY <1>1, <1>2, <2>1, <2>3, <3>1
  <2> QED  BY <2>2, <2>3
<1>6. \A d \in Callers : call'[d].op = "mod" => call'[d].timer \notin linked'
  BY <1>1, <1>2, <1>5 DEF TimerCalls
<1>7. \A d \in waiters' : call'[d].op = "running" /\ active_node' = call'[d].timer
  BY <1>1 DEF TimerCalls, Callers
<1>8. call'["handler"].op \in {"idle", "mod", "ret"}
  BY <1>1, <1>2 DEF TimerCalls, Callers
<1> QED  BY <1>1, <1>3, <1>5, <1>6, <1>7, <1>8 DEF TimerCalls

(* mod_timer() links the timer again, and signals the thread if it is the  *)
(* first one: else the thread would sleep past it.                         *)
LEMMA ModAddKeeps == ASSUME TimerInv, NEW c \in Callers, Q!ModAdd(c) PROVE TimerInv'
<1>1. PICK t : t = call[c].timer
  OBVIOUS
<1>2. /\ t \in Timer /\ t \notin linked /\ Q!Insert(t) /\ linked' = linked \cup {t} /\ qmutex = c
      /\ qmutex' = None /\ Q!Set(c, "ret", t, call[c].ret) /\ Q!SignalFirst
      /\ UNCHANGED <<expires, active_node, clock, waiters>> /\ call[c].op = "mod"
  BY <1>1 DEF Q!ModAdd, TimerInv, TimerCalls
<1>3. /\ all_timers' \in Seq(Timer) /\ Elements(all_timers') = linked \cup {t}
      /\ Ordered(all_timers', expires) /\ all_timers' # <<>>
      /\ Head(all_timers') = t \/ (all_timers # <<>> /\ Head(all_timers') = Head(all_timers))
  BY <1>2, Inserted DEF TimerInv
<1>4. TimerList'
  BY <1>2, <1>3 DEF TimerInv, TimerList
<1>5. TimerThread'
  <2>1. CASE thread.pc = "wait" /\ Head(all_timers') \notin linked
    <3>1. thread' = Q!TopOf
      BY <1>2, <2>1 DEF Q!SignalFirst
    <3> QED  BY <1>2, <2>1, <3>1 DEF TimerInv, TimerThread, Q!InTime, Q!TopOf
  <2>2. CASE ~(thread.pc = "wait" /\ Head(all_timers') \notin linked)
    <3>1. thread' = thread
      BY <1>2, <2>2 DEF Q!SignalFirst
    <3>2. thread.pc = "wait" => all_timers # <<>> /\ Head(all_timers') = Head(all_timers)
      BY <1>2, <1>3, <2>2
    <3> QED  BY <1>2, <3>1, <3>2 DEF TimerInv, TimerThread, Q!InTime
  <2> QED  BY <2>1, <2>2
<1>6. TimerCalls'
  <2>1. /\ call'[c] = [op |-> "ret", timer |-> t, ret |-> call[c].ret]
        /\ \A d \in Callers : d # c => call'[d] = call[d]
        /\ call' \in [Callers -> [op : Calls, timer : Timer \cup {None}, ret : {0, 1}]]
    BY <1>2 DEF TimerInv, TimerCalls, Q!Set, Calls
  <2>2. call'[c].op = "ret" /\ call'[c].timer = t
    BY <2>1
  <2>3. \A d \in Callers : call'[d].op # "mod" /\ d # None
    BY <1>2, <2>1, <2>2, LibraryAssumption DEF TimerInv, TimerCalls, Callers
  <2>4. c \notin waiters
    BY <1>2 DEF TimerInv, TimerCalls
  <2>5. \A d \in Callers : call'[d].op # "idle" => call'[d].timer \in Timer
    BY <1>2, <2>1, <2>2 DEF TimerInv, TimerCalls
  <2>6. \A d \in waiters' : call'[d].op = "running" /\ active_node' = call'[d].timer
    BY <1>2, <2>1, <2>4 DEF TimerInv, TimerCalls, Callers
  <2>7. call'["handler"].op \in {"idle", "mod", "ret"}
    BY <2>1, <2>2 DEF TimerInv, TimerCalls, Callers
  <2> QED  BY <1>2, <2>1, <2>3, <2>5, <2>6, <2>7 DEF TimerInv, TimerCalls
<1> QED  BY <1>4, <1>5, <1>6 DEF TimerInv

(* The thread takes the first timer, or waits for it.                      *)
LEMMA ServeKeeps ==
  ASSUME TimerInv, NEW n \in Int, Q!Serve(n), UNCHANGED <<expires, clock>>
  PROVE  TimerList' /\ TimerThread' /\ linked' \subseteq linked
<1>1. CASE all_timers # <<>> /\ expires[Head(all_timers)] <= n
  <2>1. PICK t : t = Head(all_timers)
    OBVIOUS
  <2>2. /\ active_node' = t /\ all_timers' = Tail(all_timers) /\ linked' = linked \ {t}
        /\ thread' = [pc |-> "handler", now |-> n, wake |-> -1, lag |-> 0]
    BY <1>1, <2>1 DEF Q!Serve
  <2>3. /\ t \in Timer /\ t = all_timers[1] /\ all_timers' \in Seq(Timer) /\ Len(all_timers) \in Nat
        /\ Len(all_timers) >= 1 /\ Len(all_timers') = Len(all_timers) - 1
        /\ \A i \in 1 .. Len(all_timers') : all_timers'[i] = all_timers[i + 1]
    BY <1>1, <2>1, <2>2, HeadTailProperties, LenProperties, EmptySeq DEF TimerInv, TimerList
  <2>4. Ordered(all_timers', expires')
    <3> SUFFICES ASSUME NEW i \in 1 .. Len(all_timers'), NEW j \in 1 .. Len(all_timers'), i < j
                 PROVE  /\ all_timers'[i] # all_timers'[j]
                        /\ expires[all_timers'[i]] <= expires[all_timers'[j]]
      BY DEF Ordered
    <3>1. PICK k, m : k = i + 1 /\ m = j + 1
      OBVIOUS
    <3>2. k \in 1 .. Len(all_timers) /\ m \in 1 .. Len(all_timers) /\ k < m
      BY <2>3, <3>1
    <3>3. all_timers'[i] = all_timers[k] /\ all_timers'[j] = all_timers[m]
      BY <2>3, <3>1
    <3> QED  BY <3>2, <3>3 DEF TimerInv, TimerList, Ordered
  <2>5. Elements(all_timers') = linked'
    <3>1. ASSUME NEW i \in 1 .. Len(all_timers') PROVE all_timers'[i] \in linked'
      <4>1. PICK k : k = i + 1
        OBVIOUS
      <4>2. k \in 1 .. Len(all_timers) /\ 1 \in 1 .. Len(all_timers) /\ 1 < k
        BY <2>3, <4>1
      <4>3. all_timers[1] # all_timers[k] /\ all_timers[k] \in linked
        BY <4>2 DEF TimerInv, TimerList, Ordered, Elements
      <4> QED  BY <2>2, <2>3, <4>1, <4>3
    <3>2. ASSUME NEW u \in linked' PROVE \E i \in 1 .. Len(all_timers') : all_timers'[i] = u
      <4>1. PICK k \in 1 .. Len(all_timers) : all_timers[k] = u
        BY <2>2, <3>2 DEF TimerInv, TimerList, Elements
      <4>2. k - 1 \in 1 .. Len(all_timers') /\ (k - 1) + 1 = k
        BY <2>2, <2>3, <3>2, <4>1
      <4> QED  BY <2>3, <4>1, <4>2
    <3> QED  BY <3>1, <3>2 DEF Elements
  <2>6. TimerThread'
    BY <2>2, <2>3, LibraryAssumption DEF TimerInv, TimerThread, Q!InTime
  <2> QED  BY <2>2, <2>3, <2>4, <2>5, <2>6 DEF TimerInv, TimerList
<1>2. CASE ~(all_timers # <<>> /\ expires[Head(all_timers)] <= n)
  <2>1. /\ active_node' = None /\ UNCHANGED <<all_timers, linked>>
        /\ thread' = [pc |-> "wait", now |-> 0, lag |-> clock - n,
             wake |-> IF all_timers = <<>> THEN -1 ELSE clock + expires[Head(all_timers)] - n]
    BY <1>2 DEF Q!Serve
  <2>2. all_timers # <<>> => expires[Head(all_timers)] \in Nat
    BY HeadTailProperties, LibraryAssumption DEF TimerInv, TimerList
  <2>3. clock \in Nat
    BY DEF TimerInv, TimerThread
  <2>4. /\ thread' \in [pc : {"top", "handler", "wait"}, now : Int, wake : Int, lag : Int]
        /\ thread'.pc = "wait" /\ thread'.lag = clock - n
        /\ all_timers # <<>> => thread'.wake = clock + expires[Head(all_timers)] - n
    BY <2>1, <2>2, <2>3
  <2>5. Q!InTime'
    BY <1>2, <2>1, <2>2, <2>3, <2>4 DEF Q!InTime
  <2>6. TimerThread'
    BY <2>1, <2>3, <2>4, <2>5, LibraryAssumption DEF TimerThread
  <2> QED  BY <2>1, <2>6 DEF TimerInv, TimerList
<1> QED  BY <1>1, <1>2

(* Each step of the callers, of the thread and of the clock keeps TimerInv.*)
LEMMA NextTimer == TimerInv /\ [Q!Next]_Q!vars => TimerInv'
<1> SUFFICES ASSUME TimerInv, [Q!Next]_Q!vars PROVE TimerInv'
  OBVIOUS
<1>1. ASSUME NEW c \in Callers, call[c].op \in {"del", "sync", "running"} PROVE c # "handler"
  BY <1>1 DEF TimerInv, TimerCalls
<1>2. ASSUME UNCHANGED <<all_timers, linked, expires, active_node, clock, thread>>
      PROVE  TimerList' /\ TimerThread'
  BY <1>2 DEF TimerInv, TimerList, TimerThread, Q!InTime
<1>3. ASSUME NEW c \in Callers, call[c].op # "running" PROVE c \notin waiters
  BY <1>3 DEF TimerInv, TimerCalls
<1>4. ASSUME NEW c \in Callers, call[c].op # "idle" PROVE call[c].timer \in Timer
  BY <1>4 DEF TimerInv, TimerCalls
<1>5. Calls = {"idle", "mod", "ret", "del", "deleted", "sync", "synced", "running"}
  BY DEF Calls
<1>6. ASSUME NEW t \in Timer PROVE Q!WasPending(t) \in {0, 1}
  BY DEF Q!WasPending
<1>7. ASSUME NEW c \in Callers, NEW t \in Timer, NEW e \in 1 .. MaxClock, Q!ModDetach(c, t, e)
      PROVE  TimerInv'
  <2>1. TimerList' /\ TimerThread'
    <3>1. /\ expires' \in [Timer -> 0 .. MaxClock]
          /\ \A u \in Timer : u # t => expires'[u] = expires[u]
      BY <1>7, LibraryAssumption DEF TimerInv, TimerList, Q!ModDetach
    <3> QED  BY <1>7, <3>1, DetachKeeps DEF Q!ModDetach
  <2>2. /\ Q!Set(c, "mod", t, IF t \in linked THEN 1 ELSE 0) /\ qmutex = None /\ qmutex' = c
        /\ linked' = linked \ {t} /\ UNCHANGED <<waiters, active_node>> /\ call[c].op = "idle"
    BY <1>7 DEF Q!ModDetach, Q!MayCall
  <2>3. c \notin waiters
    BY <1>3, <2>2
  <2>4. TimerCalls'
    BY <1>5, <2>2, <2>3, SetKeeps DEF TimerInv
  <2> QED  BY <2>1, <2>4 DEF TimerInv
<1>8. ASSUME NEW c \in Callers, NEW t \in Timer, Q!ModPendingOnly(c, t) \/ Q!DelRead(c, t) \/ Q!CallSync(c, t)
      PROVE  TimerInv'
  <2>1. PICK o \in {"ret", "del", "deleted", "sync"} : Q!Set(c, o, t, 0)
    BY <1>8 DEF Q!ModPendingOnly, Q!DelRead, Q!CallSync
  <2>2. /\ call[c].op = "idle" /\ c # "handler"
        /\ UNCHANGED <<all_timers, expires, active_node, linked, clock, thread, waiters, qmutex>>
    BY <1>8 DEF Q!ModPendingOnly, Q!DelRead, Q!CallSync, Q!MayCall
  <2>3. c \notin waiters
    BY <1>3, <2>2
  <2>4. TimerCalls'
    BY <1>5, <2>1, <2>2, <2>3, SetKeeps DEF TimerInv
  <2> QED  BY <1>2, <2>2, <2>4 DEF TimerInv
<1>9. ASSUME NEW c \in Callers, Q!ModAdd(c) PROVE TimerInv'
  BY <1>9, ModAddKeeps
<1>10. ASSUME NEW c \in Callers, NEW t \in Timer, NEW o \in {"deleted", "synced"},
              call[c].op \in {"del", "sync"}, call[c].timer = t, Q!Detach(t),
              Q!Set(c, o, t, Q!WasPending(t)),
              UNCHANGED <<expires, active_node, clock, thread, waiters, qmutex>>
       PROVE  TimerInv'
  <2>1. TimerList' /\ TimerThread' /\ linked' \subseteq linked
    BY <1>10, DetachKeeps DEF Q!Detach, TimerInv, TimerList
  <2>2. c \notin waiters
    BY <1>3, <1>10
  <2>3. TimerCalls'
    BY <1>1, <1>5, <1>6, <1>10, <2>1, <2>2, SetKeeps DEF TimerInv
  <2> QED  BY <2>1, <2>3 DEF TimerInv
<1>11. ASSUME NEW c \in Callers, Q!DelLock(c) PROVE TimerInv'
  BY <1>4, <1>10, <1>11 DEF Q!DelLock
<1>12. ASSUME NEW c \in Callers, NEW o \in {"running", "sync"}, call[c].op \in {"sync", "running"},
              c \notin waiters, Q!Set(c, o, call[c].timer, 0),
              UNCHANGED <<all_timers, linked, expires, active_node, clock, thread, waiters, qmutex>>
       PROVE  TimerInv'
  <2>1. call[c].timer \in Timer
    BY <1>4, <1>12
  <2>2. TimerCalls'
    BY <1>1, <1>5, <1>12, <2>1, SetKeeps DEF TimerInv
  <2> QED  BY <1>2, <1>12, <2>2 DEF TimerInv
<1>13. ASSUME NEW c \in Callers, Q!TrySync(c) PROVE TimerInv'
  <2>1. call[c].timer \in Timer /\ call[c].op = "sync" /\ c \notin waiters
    BY <1>3, <1>4, <1>13 DEF Q!TrySync
  <2>2. CASE active_node = call[c].timer
    BY <1>12, <1>13, <2>1, <2>2 DEF Q!TrySync
  <2>3. CASE active_node # call[c].timer
    BY <1>10, <1>13, <2>1, <2>3 DEF Q!TrySync
  <2> QED  BY <2>2, <2>3
<1>14. ASSUME NEW c \in Callers, Q!WaitRunning(c) PROVE TimerInv'
  <2>1. CASE active_node = call[c].timer
    <3>1. /\ waiters' = waiters \cup {c} /\ call[c].op = "running"
          /\ UNCHANGED <<call, all_timers, expires, active_node, linked, clock, thread, qmutex>>
      BY <1>14, <2>1 DEF Q!WaitRunning
    <3>2. c \in Waiter
      <4>1. CASE c = "handler"
        BY <3>1, <4>1 DEF TimerInv, TimerCalls
      <4> QED  BY <4>1 DEF Callers
    <3>3. TimerCalls'
      BY <2>1, <3>1, <3>2 DEF TimerInv, TimerCalls
    <3> QED  BY <1>2, <3>1, <3>3 DEF TimerInv
  <2>2. CASE active_node # call[c].timer
    BY <1>12, <1>14, <2>2 DEF Q!WaitRunning
  <2> QED  BY <2>1, <2>2
<1>15. ASSUME NEW c \in Callers, Q!Return(c) PROVE TimerInv'
  <2>1. /\ call' = [call EXCEPT ![c] = Q!Idle] /\ call[c].op \in {"ret", "deleted", "synced"}
        /\ UNCHANGED <<all_timers, expires, active_node, linked, clock, thread, waiters, qmutex>>
    BY <1>15 DEF Q!Return
  <2>2. /\ call'[c] = [op |-> "idle", timer |-> None, ret |-> 0]
        /\ \A d \in Callers : d # c => call'[d] = call[d]
        /\ call' \in [Callers -> [op : Calls, timer : Timer \cup {None}, ret : {0, 1}]]
    BY <2>1 DEF TimerInv, TimerCalls, Q!Idle, Calls
  <2>3. call'[c].op = "idle" /\ c \notin waiters /\ call[c].op # "mod"
    BY <1>3, <2>1, <2>2
  <2>4. \A d \in Callers : call'[d].op = "mod" <=> qmutex' = d
    BY <2>1, <2>2, <2>3 DEF TimerInv, TimerCalls
  <2>5. \A d \in waiters' : call'[d].op = "running" /\ active_node' = call'[d].timer
    BY <2>1, <2>2, <2>3 DEF TimerInv, TimerCalls, Callers
  <2>6. TimerCalls'
    BY <2>1, <2>2, <2>3, <2>4, <2>5 DEF TimerInv, TimerCalls
  <2> QED  BY <1>2, <2>1, <2>6 DEF TimerInv
<1>16. ASSUME NEW n \in Int, Q!Serve(n), waiters' = {}, UNCHANGED <<expires, clock, call, qmutex>>
       PROVE  TimerInv'
  <2>1. TimerList' /\ TimerThread' /\ linked' \subseteq linked
    BY <1>16, ServeKeeps
  <2>2. TimerCalls'
    BY <1>16, <2>1 DEF TimerInv, TimerCalls
  <2> QED  BY <2>1, <2>2 DEF TimerInv
<1>17. CASE Q!Top
  <2>1. active_node = None
    BY <1>17 DEF Q!Top, TimerInv, TimerThread
  <2>2. \A c \in waiters : call[c].timer \in Timer /\ active_node = call[c].timer
    BY DEF TimerInv, TimerCalls, Callers
  <2>3. waiters = {}
    BY <2>1, <2>2, LibraryAssumption
  <2>4. clock \in Int
    BY DEF TimerInv, TimerThread
  <2> QED  BY <1>16, <1>17, <2>3, <2>4 DEF Q!Top
<1>18. CASE Q!HandlerReturns
  <2>1. thread.now \in Int
    BY DEF TimerInv, TimerThread
  <2> QED  BY <1>16, <1>18, <2>1 DEF Q!HandlerReturns
<1>19. CASE Q!WaitEnds \/ Q!Spurious
  <2>1. /\ thread.pc = "wait" /\ thread' = Q!TopOf
        /\ UNCHANGED <<all_timers, expires, active_node, linked, clock, call, waiters, qmutex>>
    BY <1>19 DEF Q!WaitEnds, Q!Spurious
  <2>2. TimerThread'
    BY <2>1 DEF TimerInv, TimerThread, Q!InTime, Q!TopOf
  <2>3. TimerList' /\ TimerCalls'
    BY <2>1 DEF TimerInv, TimerList, TimerCalls
  <2> QED  BY <2>2, <2>3 DEF TimerInv
<1>20. ASSUME NEW c \in waiters, Q!WakesAnyway(c) PROVE TimerInv'
  <2>1. TimerList' /\ TimerThread'
    BY <1>2, <1>20 DEF Q!WakesAnyway
  <2> QED  BY <1>20, <2>1 DEF TimerInv, TimerCalls, Q!WakesAnyway
<1>21. CASE Q!Tick
  <2>1. clock' \in Nat /\ UNCHANGED <<all_timers, expires, active_node, linked, thread, call, waiters, qmutex>>
    BY <1>21 DEF Q!Tick, TimerInv, TimerThread
  <2> QED  BY <2>1 DEF TimerInv, TimerList, TimerThread, TimerCalls, Q!InTime
<1>22. CASE UNCHANGED Q!vars
  BY <1>22 DEF Q!vars, TimerInv, TimerList, TimerThread, TimerCalls, Q!InTime
<1> QED
  BY <1>7, <1>8, <1>9, <1>11, <1>13, <1>14, <1>15, <1>17, <1>18, <1>19, <1>20, <1>21, <1>22
     DEF Q!Next, Q!GoesOn, Q!ThreadStep, Callers

(* The list is in the order of expiry, the thread sleeps no longer than to *)
(* the first timer, and who waits for the end of a handler waits for the   *)
(* one that runs, whatever the callers and the handlers do.                *)
THEOREM TimersAreInOrder == Q!Spec => []TimersInOrder
  BY InitTimer, NextTimer, TimerInvSays, PTL DEF Q!Spec

(* What users see of the queue: the timer that a mod_timer() is moving, ...*)
Moved == IF qmutex = None THEN None ELSE call[qmutex].timer
(* ... what the calls are about to return, and about which timer, ...      *)
Answers == [c \in Callers |-> Q!Answer(c)]
Reply(t, a) == [timer |-> t, says |-> a]
Quiet == Reply(None, "none")
(* ... and the armed timers: those of the list, and the one that is moved  *)
(* if it was armed before.                                                 *)
ArmedIs ==
  /\ qmutex = None => Moved = None /\ Q!Armed = linked
  /\ qmutex # None =>
       /\ qmutex \in Callers /\ Moved = call[qmutex].timer /\ Moved \in Timer
       /\ Moved \notin linked /\ Moved # None
       /\ call[qmutex].ret = 1 => Q!Armed = linked \cup {Moved}
       /\ call[qmutex].ret # 1 => Q!Armed = linked

(* ArmedIs follows from what TimerInv says of the callers.                 *)
LEMMA CallsArm == TimerCalls => ArmedIs
<1> SUFFICES ASSUME TimerCalls PROVE ArmedIs
  OBVIOUS
<1>1. \A c \in Callers : call[c].op = "mod" <=> qmutex = c
  BY DEF TimerCalls
<1>2. qmutex \in Callers \cup {None} /\ None \notin Callers
  BY LibraryAssumption DEF TimerCalls, Callers
<1>3. Q!Armed = linked \cup {call[c].timer : c \in {d \in Callers : call[d].op = "mod" /\ call[d].ret = 1}}
  BY DEF Q!Armed, Callers
<1>4. CASE qmutex = None
  <2>1. {d \in Callers : call[d].op = "mod" /\ call[d].ret = 1} = {}
    BY <1>1, <1>2, <1>4
  <2> QED  BY <1>3, <1>4, <2>1 DEF Moved, ArmedIs
<1>5. CASE qmutex # None
  <2>1. /\ qmutex \in Callers /\ Moved = call[qmutex].timer /\ Moved \in Timer
        /\ Moved \notin linked /\ Moved # None
    BY <1>1, <1>2, <1>5, LibraryAssumption DEF TimerCalls, Moved
  <2>2. {d \in Callers : call[d].op = "mod" /\ call[d].ret = 1}
          = IF call[qmutex].ret = 1 THEN {qmutex} ELSE {}
    BY <1>1, <2>1
  <2> QED  BY <1>3, <1>5, <2>1, <2>2 DEF ArmedIs
<1> QED  BY <1>4, <1>5

(* What the place of a caller means to the users.                          *)
LEMMA AnswerIs ==
  ASSUME NEW c
  PROVE  /\ call[c].op \in {"ret", "deleted"} =>
              Q!Answer(c) = Reply(call[c].timer, IF call[c].ret = 1 THEN "armed" ELSE "idle")
         /\ call[c].op = "synced" =>
              Q!Answer(c) = Reply(call[c].timer, IF call[c].ret = 1 THEN "stopped" ELSE "quiet")
         /\ call[c].op \notin {"ret", "deleted", "synced"} => Q!Answer(c) = Quiet
         /\ call[c].op \in {"ret", "deleted", "synced"} => Q!Answer(c) # Quiet
  BY DEF Q!Answer, Q!Says, Reply, Quiet

(* The same after a step.                                                  *)
LEMMA AnswerIsNext ==
  ASSUME NEW c
  PROVE  /\ call'[c].op \in {"ret", "deleted"} =>
              Q!Answer(c)' = Reply(call'[c].timer, IF call'[c].ret = 1 THEN "armed" ELSE "idle")
         /\ call'[c].op = "synced" =>
              Q!Answer(c)' = Reply(call'[c].timer, IF call'[c].ret = 1 THEN "stopped" ELSE "quiet")
         /\ call'[c].op \notin {"ret", "deleted", "synced"} => Q!Answer(c)' = Quiet
  BY DEF Q!Answer, Q!Says, Reply, Quiet

(* A caller's step changes no other caller's answer.                       *)
LEMMA AnswersAre ==
  ASSUME TimerCalls, NEW c \in Callers, NEW o, NEW t, NEW r, Q!Set(c, o, t, r)
  PROVE  /\ call'[c].op = o /\ call'[c].timer = t /\ call'[c].ret = r
         /\ \A d \in Callers : d # c => call'[d] = call[d]
         /\ Answers[c] = Q!Answer(c)
         /\ Answers' = [Answers EXCEPT ![c] = Q!Answer(c)']
<1>1. /\ call'[c] = [op |-> o, timer |-> t, ret |-> r]
      /\ \A d \in Callers : d # c => call'[d] = call[d]
  BY DEF TimerCalls, Q!Set
<1>2. \A d \in Callers : d # c => Q!Answer(d)' = Q!Answer(d)
  BY <1>1 DEF Q!Answer, Q!Says
<1>3. Answers' = [Answers EXCEPT ![c] = Q!Answer(c)']
  BY <1>2 DEF Answers
<1> QED  BY <1>1, <1>3 DEF Answers

(* Before and after a step.                                                *)
Seen == TimerCalls /\ TimerCalls' /\ ArmedIs /\ ArmedIs'
(* A step has both before and after it.                                    *)
LEMMA StepSeen == ASSUME TimerInv, TimerInv' PROVE Seen
<1>1. TimerCalls' => ArmedIs'
  BY CallsArm, PTL
<1> QED  BY <1>1, CallsArm DEF TimerInv, Seen

(* Nothing that users see changes.                                         *)
Unseen == UNCHANGED <<Q!Armed, active_node, qmutex, Moved, Answers>>

(* The same timer is moved by the same caller.                             *)
LEMMA MovingSame == ASSUME UNCHANGED <<qmutex, Moved>> PROVE Q!Moving' = Q!Moving
BY DEF Q!Moving, Moved

(* The steps of Timers, in these terms: a timer is moved, ...              *)
LEMMA TimersMove ==
  ASSUME NEW c \in Callers, NEW t \in Timer, qmutex = None, qmutex' = c, c # None, Moved' = t,
         Answers[c] = Quiet, UNCHANGED <<Q!Armed, active_node, Answers>>
  PROVE  Q!T!Next
<1>1. Q!Moving = Q!T!Still
  BY DEF Q!Moving, Q!T!Still
<1>2. Q!Moving' = [by |-> c, timer |-> t]
  BY DEF Q!Moving, Moved
<1>3. Q!T!Move(c, t)
  BY <1>1, <1>2 DEF Q!T!Move, Q!T!Silent, Answers, Callers, Reply, Quiet
<1> QED  BY <1>3 DEF Q!T!Next, Callers

(* ... the timer that was moved is armed, and its caller told, ...         *)
LEMMA TimersArm ==
  ASSUME NEW c \in Callers, qmutex = c, qmutex' = None, c # None, Answers[c] = Quiet,
         Answers' = [Answers EXCEPT ![c] = Reply(Moved, IF Moved \in Q!Armed THEN "armed" ELSE "idle")],
         Q!Armed' = Q!Armed \cup {Moved}, UNCHANGED active_node
  PROVE  Q!T!Next
<1>1. Q!Moving = [by |-> c, timer |-> Moved]
  BY DEF Q!Moving, Moved
<1>2. Q!Moving' = Q!T!Still
  BY DEF Q!Moving, Q!T!Still
<1>3. Q!T!Arm(c)
  BY <1>1, <1>2 DEF Q!T!Arm, Q!T!Say, Q!T!Armed, Q!T!Silent, Answers, Callers, Reply, Quiet
<1> QED  BY <1>3 DEF Q!T!Next, Callers

(* ... a call takes a timer out of the armed ones, ...                     *)
LEMMA TimersDisarm ==
  ASSUME NEW c \in Callers, NEW t \in Timer, Answers[c] = Quiet,
         Answers' = [Answers EXCEPT ![c] = Reply(t, IF t \in Q!Armed THEN "armed" ELSE "idle")],
         Q!Armed' = Q!Armed \ {t}, UNCHANGED <<active_node, qmutex, Moved>>
  PROVE  Q!T!Next
<1>1. Q!T!Disarm(c, t)
  BY MovingSame DEF Q!T!Disarm, Q!T!Say, Q!T!Armed, Q!T!Silent, Answers, Callers, Reply, Quiet
<1> QED  BY <1>1 DEF Q!T!Next, Callers

(* ... finds that it was not armed, or misses it while it is moved, ...    *)
LEMMA TimersUnarmed ==
  ASSUME NEW c \in Callers, NEW t \in Timer, t \notin Q!Armed \/ (qmutex # None /\ t = Moved),
         Answers[c] = Quiet, Answers' = [Answers EXCEPT ![c] = Reply(t, "idle")],
         UNCHANGED <<Q!Armed, active_node, qmutex, Moved>>
  PROVE  Q!T!Next
<1>1. CASE t \notin Q!Armed
  <2>1. Q!T!Unarmed(c, t)
    BY <1>1, MovingSame DEF Q!T!Unarmed, Q!T!Say, Q!T!Silent, Answers, Callers, Reply, Quiet
  <2> QED  BY <2>1 DEF Q!T!Next, Callers
<1>2. CASE qmutex # None /\ t = Moved
  <2>1. Q!Moving # Q!T!Still /\ Q!Moving.timer = t
    BY <1>2 DEF Q!Moving, Moved, Q!T!Still
  <2>2. Q!T!Miss(c)
    BY <2>1, MovingSame DEF Q!T!Miss, Q!T!Say, Q!T!Silent, Answers, Callers, Reply, Quiet
  <2> QED  BY <2>2 DEF Q!T!Next, Callers
<1> QED  BY <1>1, <1>2

(* ... takes it out when its handler does not run, ...                     *)
LEMMA TimersDisarmSync ==
  ASSUME NEW c \in Callers, NEW t \in Timer, active_node # t, Answers[c] = Quiet,
         Answers' = [Answers EXCEPT ![c] = Reply(t, IF t \in Q!Armed THEN "stopped" ELSE "quiet")],
         Q!Armed' = Q!Armed \ {t}, UNCHANGED <<active_node, qmutex, Moved>>
  PROVE  Q!T!Next
<1>1. Q!T!DisarmSync(c, t)
  BY MovingSame DEF Q!T!DisarmSync, Q!T!Say, Q!T!Silent, Answers, Callers, Reply, Quiet
<1> QED  BY <1>1 DEF Q!T!Next, Callers

(* ... and returns; ...                                                    *)
LEMMA TimersReturn ==
  ASSUME NEW c \in Callers, Answers[c] # Quiet, Answers' = [Answers EXCEPT ![c] = Quiet],
         UNCHANGED <<Q!Armed, active_node, qmutex, Moved>>
  PROVE  Q!T!Next
<1>1. Q!T!Return(c)
  BY MovingSame DEF Q!T!Return, Q!T!Silent, Answers, Callers, Reply, Quiet
<1> QED  BY <1>1 DEF Q!T!Next, Callers

(* ... and a handler ends, and the next one may begin.                     *)
LEMMA TimersHandle ==
  ASSUME \/ active_node' = None /\ Q!Armed' = Q!Armed
         \/ \E t \in Q!Armed : active_node' = t /\ Q!Armed' = Q!Armed \ {t},
         UNCHANGED <<qmutex, Moved, Answers>>
  PROVE  Q!T!Next
<1>1. Q!T!Handle
  BY MovingSame DEF Q!T!Handle, Answers, Callers
<1> QED  BY <1>1 DEF Q!T!Next

(* The thread's steps: a handler ends, and the next one may begin.         *)
LEMMA ServeRefines ==
  ASSUME TimerInv, Seen, NEW n, Q!Serve(n), qmutex = None, UNCHANGED <<call, qmutex>>
  PROVE  Q!T!Next
<1>1. Moved = None /\ Moved' = None /\ Q!Armed = linked /\ Q!Armed' = linked'
  BY DEF Seen, ArmedIs
<1>2. Answers' = Answers
  BY DEF Answers, Q!Answer, Q!Says
<1>3. \/ active_node' = None /\ linked' = linked
      \/ \E t \in linked : active_node' = t /\ linked' = linked \ {t}
  <2>1. CASE all_timers # <<>> /\ expires[Head(all_timers)] <= n
    <3>1. Head(all_timers) = all_timers[1] /\ 1 \in 1 .. Len(all_timers)
      BY <2>1, HeadTailProperties, LenProperties, EmptySeq DEF TimerInv, TimerList
    <3>2. Head(all_timers) \in linked
      BY <3>1 DEF TimerInv, TimerList, Elements
    <3> QED  BY <2>1, <3>2 DEF Q!Serve
  <2>2. CASE ~(all_timers # <<>> /\ expires[Head(all_timers)] <= n)
    BY <2>2 DEF Q!Serve
  <2> QED  BY <2>1, <2>2
<1> QED  BY <1>1, <1>2, <1>3, TimersHandle

(* A caller that has the mutex or needs none answers: its answer is what   *)
(* Timers says.                                                            *)
LEMMA Answered ==
  ASSUME Seen, NEW c \in Callers, NEW o, NEW t, NEW r, Q!Set(c, o, t, r),
         call[c].op \notin {"ret", "deleted", "synced"}
  PROVE  /\ Answers[c] = Quiet
         /\ o \in {"ret", "deleted"} =>
              Answers' = [Answers EXCEPT ![c] = Reply(t, IF r = 1 THEN "armed" ELSE "idle")]
         /\ o = "synced" =>
              Answers' = [Answers EXCEPT ![c] = Reply(t, IF r = 1 THEN "stopped" ELSE "quiet")]
         /\ o \notin {"ret", "deleted", "synced"} => Answers' = Answers
         /\ qmutex' = qmutex /\ qmutex # c => Moved' = Moved
<1>1. /\ call'[c].op = o /\ call'[c].timer = t /\ call'[c].ret = r
      /\ \A d \in Callers : d # c => call'[d] = call[d]
      /\ Answers[c] = Q!Answer(c) /\ Answers' = [Answers EXCEPT ![c] = Q!Answer(c)']
  BY AnswersAre DEF Seen
<1>2. Answers[c] = Quiet
  BY <1>1, AnswerIs
<1>3. /\ o \in {"ret", "deleted"} => Q!Answer(c)' = Reply(t, IF r = 1 THEN "armed" ELSE "idle")
      /\ o = "synced" => Q!Answer(c)' = Reply(t, IF r = 1 THEN "stopped" ELSE "quiet")
      /\ o \notin {"ret", "deleted", "synced"} => Q!Answer(c)' = Quiet
  BY <1>1, AnswerIsNext
<1>4. o \notin {"ret", "deleted", "synced"} => Answers' = Answers
  BY <1>1, <1>2, <1>3 DEF Answers
<1>5. qmutex' = qmutex /\ qmutex # c => Moved' = Moved
  BY <1>1 DEF Seen, ArmedIs, Moved
<1> QED  BY <1>1, <1>2, <1>3, <1>4, <1>5

(* The armed timers are the same if the list and the caller with the mutex *)
(* are.                                                                    *)
LEMMA ArmedSame ==
  ASSUME Seen, NEW c \in Callers, \A d \in Callers : d # c => call'[d] = call[d], qmutex # c,
         UNCHANGED <<linked, qmutex>>
  PROVE  Q!Armed' = Q!Armed /\ Moved' = Moved
<1>1. qmutex # None => qmutex \in Callers /\ call'[qmutex] = call[qmutex]
  BY DEF Seen, ArmedIs
<1> QED  BY <1>1 DEF Seen, ArmedIs, Moved

(* A caller goes from a place where it has no answer to another such.      *)
LEMMA SilentCall ==
  ASSUME Seen, NEW c \in Callers, NEW o, NEW t, NEW r, Q!Set(c, o, t, r), qmutex # c,
         call[c].op \notin {"ret", "deleted", "synced"}, o \notin {"ret", "deleted", "synced"},
         UNCHANGED <<linked, active_node, qmutex>>
  PROVE  Unseen
<1>1. Answers' = Answers /\ Moved' = Moved
  BY Answered
<1>2. \A d \in Callers : d # c => call'[d] = call[d]
  BY AnswersAre DEF Seen
<1>3. Q!Armed' = Q!Armed
  BY <1>2, ArmedSame
<1> QED  BY <1>1, <1>3 DEF Unseen

(* mod_timer() from the outside: the timer is moved, and then armed.       *)
LEMMA ModRefines ==
  ASSUME TimerInv, Seen, NEW c \in Callers
  PROVE  /\ \A t \in Timer, e \in 1 .. MaxClock : Q!ModDetach(c, t, e) => Q!T!Next
         /\ Q!ModAdd(c) => Q!T!Next
<1>1. ASSUME NEW t \in Timer, NEW e \in 1 .. MaxClock, Q!ModDetach(c, t, e) PROVE Q!T!Next
  <2>1. /\ Q!Set(c, "mod", t, IF t \in linked THEN 1 ELSE 0) /\ qmutex = None /\ qmutex' = c
        /\ linked' = linked \ {t} /\ UNCHANGED active_node /\ call[c].op = "idle"
    BY <1>1 DEF Q!ModDetach, Q!MayCall
  <2>2. Answers' = Answers /\ Answers[c] = Quiet
    BY <2>1, Answered
  <2>3. call'[c].timer = t /\ call'[c].ret = IF t \in linked THEN 1 ELSE 0
    BY <2>1, AnswersAre DEF Seen
  <2>4. Moved = None /\ Q!Armed = linked
    BY <2>1 DEF Seen, ArmedIs
  <2>5. c # None
    BY LibraryAssumption DEF Callers
  <2>6. /\ Moved' = t
        /\ call'[c].ret = 1 => Q!Armed' = linked' \cup {t}
        /\ call'[c].ret # 1 => Q!Armed' = linked'
    BY <2>1, <2>3, <2>5 DEF Seen, ArmedIs
  <2>7. Q!Armed' = Q!Armed
    <3>1. CASE t \in linked
      BY <2>1, <2>3, <2>4, <2>6, <3>1
    <3>2. CASE t \notin linked
      BY <2>1, <2>3, <2>4, <2>6, <3>2
    <3> QED  BY <3>1, <3>2
  <2> QED  BY <2>1, <2>2, <2>5, <2>6, <2>7, TimersMove
<1>2. ASSUME Q!ModAdd(c) PROVE Q!T!Next
  <2>1. /\ qmutex = c /\ qmutex' = None /\ linked' = linked \cup {call[c].timer}
        /\ Q!Set(c, "ret", call[c].timer, call[c].ret) /\ UNCHANGED active_node /\ call[c].op = "mod"
    BY <1>2 DEF Q!ModAdd
  <2>2. c # None
    BY LibraryAssumption DEF Callers
  <2>3. /\ Moved = call[c].timer /\ Moved \notin linked /\ Moved # None
        /\ call[c].ret = 1 => Q!Armed = linked \cup {Moved}
        /\ call[c].ret # 1 => Q!Armed = linked
        /\ Moved' = None /\ Q!Armed' = linked'
    BY <2>1, <2>2 DEF Seen, ArmedIs
  <2>4. Q!Armed' = Q!Armed \cup {Moved}
    BY <2>1, <2>3
  <2>5. call[c].ret = 1 <=> Moved \in Q!Armed
    BY <2>3
  <2>6. /\ Answers[c] = Quiet
        /\ Answers' = [Answers EXCEPT ![c] = Reply(Moved, IF call[c].ret = 1 THEN "armed" ELSE "idle")]
    BY <2>1, <2>3, Answered
  <2>7. Answers' = [Answers EXCEPT ![c] = Reply(Moved, IF Moved \in Q!Armed THEN "armed" ELSE "idle")]
    <3>1. CASE call[c].ret = 1
      BY <2>5, <2>6, <3>1
    <3>2. CASE call[c].ret # 1
      BY <2>5, <2>6, <3>2
    <3> QED  BY <3>1, <3>2
  <2> QED  BY <2>1, <2>2, <2>4, <2>6, <2>7, TimersArm
<1> QED  BY <1>1, <1>2

(* del_timer() and mod_timer_pending(): a timer that is only being moved   *)
(* may be missed.                                                          *)
LEMMA DelRefines ==
  ASSUME TimerInv, Seen, NEW c \in Callers
  PROVE  /\ \A t \in Timer : Q!ModPendingOnly(c, t) \/ Q!DelRead(c, t) => Q!T!Next \/ Unseen
         /\ Q!DelLock(c) => Q!T!Next
<1>1. ASSUME NEW t \in Timer, NEW o \in {"ret", "deleted"}, t \notin linked, call[c].op = "idle",
             Q!Set(c, o, t, 0), UNCHANGED <<linked, active_node, qmutex>>
      PROVE  Q!T!Next
  <2>1. qmutex # c
    BY <1>1 DEF Seen, TimerCalls
  <2>2. Answers[c] = Quiet /\ Answers' = [Answers EXCEPT ![c] = Reply(t, "idle")] /\ Moved' = Moved
    BY <1>1, <2>1, Answered
  <2>3. \A d \in Callers : d # c => call'[d] = call[d]
    BY <1>1, AnswersAre DEF Seen
  <2>4. Q!Armed' = Q!Armed
    BY <1>1, <2>1, <2>3, ArmedSame
  <2>5. t \notin Q!Armed \/ (qmutex # None /\ t = Moved)
    BY <1>1 DEF Seen, ArmedIs
  <2> QED  BY <1>1, <2>2, <2>4, <2>5, TimersUnarmed
<1>2. ASSUME NEW t \in Timer, Q!ModPendingOnly(c, t) PROVE Q!T!Next
  BY <1>1, <1>2 DEF Q!ModPendingOnly, Q!MayCall
<1>3. ASSUME NEW t \in Timer, Q!DelRead(c, t) PROVE Q!T!Next \/ Unseen
  <2>1. call[c].op = "idle" /\ UNCHANGED <<linked, active_node, qmutex>>
    BY <1>3 DEF Q!DelRead, Q!MayCall
  <2>2. CASE t \in linked
    <3>1. Q!Set(c, "del", t, 0)
      BY <1>3, <2>2 DEF Q!DelRead
    <3>2. qmutex # c
      BY <2>1 DEF Seen, TimerCalls
    <3> QED  BY <2>1, <3>1, <3>2, SilentCall
  <2>3. CASE t \notin linked
    <3>1. Q!Set(c, "deleted", t, 0)
      BY <1>3, <2>3 DEF Q!DelRead
    <3> QED  BY <1>1, <2>1, <2>3, <3>1
  <2> QED  BY <2>2, <2>3
<1>4. ASSUME Q!DelLock(c) PROVE Q!T!Next
  <2>1. PICK t : t = call[c].timer
    OBVIOUS
  <2>2. /\ call[c].op = "del" /\ qmutex = None /\ qmutex' = None /\ linked' = linked \ {t}
        /\ Q!Set(c, "deleted", t, IF t \in linked THEN 1 ELSE 0) /\ UNCHANGED active_node
    BY <1>4, <2>1 DEF Q!DelLock, Q!Detach, Q!WasPending
  <2>3. t \in Timer /\ Moved = None /\ Moved' = None /\ Q!Armed = linked /\ Q!Armed' = linked'
    BY <2>1, <2>2 DEF Seen, ArmedIs, TimerCalls
  <2>4. /\ Answers[c] = Quiet
        /\ Answers' = [Answers EXCEPT ![c] =
             Reply(t, IF (IF t \in linked THEN 1 ELSE 0) = 1 THEN "armed" ELSE "idle")]
    BY <2>2, Answered
  <2>5. Answers' = [Answers EXCEPT ![c] = Reply(t, IF t \in Q!Armed THEN "armed" ELSE "idle")]
    <3>1. CASE t \in linked
      BY <2>3, <2>4, <3>1
    <3>2. CASE t \notin linked
      BY <2>3, <2>4, <3>2
    <3> QED  BY <3>1, <3>2
  <2> QED  BY <2>2, <2>3, <2>4, <2>5, TimersDisarm
<1> QED  BY <1>2, <1>3, <1>4

(* del_timer_sync() answers only when the handler is not running.          *)
LEMMA SyncRefines ==
  ASSUME TimerInv, Seen, NEW c \in Callers
  PROVE  /\ \A t \in Timer : Q!CallSync(c, t) => Unseen
         /\ Q!TrySync(c) => Q!T!Next \/ Unseen
         /\ Q!WaitRunning(c) => Unseen
<1>1. ASSUME NEW o \in {"sync", "running"}, NEW t, Q!Set(c, o, t, 0),
             call[c].op \in {"idle", "sync", "running"}, UNCHANGED <<linked, active_node, qmutex>>
      PROVE  Unseen
  <2>1. qmutex # c
    BY <1>1 DEF Seen, TimerCalls
  <2> QED  BY <1>1, <2>1, SilentCall
<1>2. ASSUME NEW t \in Timer, Q!CallSync(c, t) PROVE Unseen
  BY <1>1, <1>2 DEF Q!CallSync, Q!MayCall
<1>3. ASSUME Q!TrySync(c) PROVE Q!T!Next \/ Unseen
  <2>1. PICK t : t = call[c].timer
    OBVIOUS
  <2>2. call[c].op = "sync" /\ qmutex = None /\ UNCHANGED <<active_node, qmutex>>
    BY <1>3 DEF Q!TrySync
  <2>3. CASE active_node = t
    BY <1>1, <1>3, <2>1, <2>2, <2>3 DEF Q!TrySync
  <2>4. CASE active_node # t
    <3>1. /\ linked' = linked \ {t} /\ Q!Set(c, "synced", t, IF t \in linked THEN 1 ELSE 0)
      BY <1>3, <2>1, <2>4 DEF Q!TrySync, Q!Detach, Q!WasPending
    <3>2. t \in Timer /\ Moved = None /\ Moved' = None /\ Q!Armed = linked /\ Q!Armed' = linked'
      BY <2>1, <2>2 DEF Seen, ArmedIs, TimerCalls
    <3>3. /\ Answers[c] = Quiet
          /\ Answers' = [Answers EXCEPT ![c] =
               Reply(t, IF (IF t \in linked THEN 1 ELSE 0) = 1 THEN "stopped" ELSE "quiet")]
      BY <2>2, <3>1, Answered
    <3>4. Answers' = [Answers EXCEPT ![c] = Reply(t, IF t \in Q!Armed THEN "stopped" ELSE "quiet")]
      <4>1. CASE t \in linked
        BY <3>2, <3>3, <4>1
      <4>2. CASE t \notin linked
        BY <3>2, <3>3, <4>2
      <4> QED  BY <4>1, <4>2
    <3> QED  BY <2>2, <2>4, <3>1, <3>2, <3>3, <3>4, TimersDisarmSync
  <2> QED  BY <2>3, <2>4
<1>4. ASSUME Q!WaitRunning(c) PROVE Unseen
  <2>1. CASE active_node = call[c].timer
    BY <1>4, <2>1 DEF Q!WaitRunning, Unseen, Q!Armed, Moved, Answers, Q!Answer, Q!Says
  <2>2. CASE active_node # call[c].timer
    BY <1>1, <1>4, <2>2 DEF Q!WaitRunning
  <2> QED  BY <2>1, <2>2
<1> QED  BY <1>2, <1>3, <1>4

(* Each step of the queue is a step of Timers, or users see nothing of it. *)
LEMMA TimerRefines == TimerInv /\ TimerInv' /\ [Q!Next]_Q!vars => [Q!T!Next]_Q!T!vars
<1> SUFFICES ASSUME TimerInv, TimerInv', [Q!Next]_Q!vars PROVE Q!T!Next \/ Unseen
  BY MovingSame DEF Q!T!vars, Unseen, Answers, Callers
<1>1. Seen
  BY StepSeen
<1>2. ASSUME NEW c \in Callers, Q!Return(c) PROVE Q!T!Next
  <2>1. /\ call' = [call EXCEPT ![c] = [op |-> "idle", timer |-> None, ret |-> 0]]
        /\ call[c].op \in {"ret", "deleted", "synced"} /\ UNCHANGED <<linked, active_node, qmutex>>
    BY <1>2 DEF Q!Return, Q!Idle
  <2>2. Q!Set(c, "idle", None, 0)
    BY <2>1 DEF Q!Set
  <2>3. /\ call'[c].op = "idle" /\ \A d \in Callers : d # c => call'[d] = call[d]
        /\ Answers[c] = Q!Answer(c) /\ Answers' = [Answers EXCEPT ![c] = Q!Answer(c)']
    BY <1>1, <2>2, AnswersAre DEF Seen
  <2>4. Answers[c] # Quiet /\ Q!Answer(c)' = Quiet
    BY <2>1, <2>3, AnswerIs, AnswerIsNext
  <2>5. qmutex # c
    BY <1>1, <2>1 DEF Seen, TimerCalls
  <2>6. Q!Armed' = Q!Armed /\ Moved' = Moved
    BY <1>1, <2>1, <2>3, <2>5, ArmedSame
  <2> QED  BY <2>1, <2>3, <2>4, <2>6, TimersReturn
<1>3. CASE Q!Top \/ Q!HandlerReturns
  <2>1. PICK n : Q!Serve(n)
    BY <1>3 DEF Q!Top, Q!HandlerReturns
  <2> QED  BY <1>1, <1>3, <2>1, ServeRefines DEF Q!Top, Q!HandlerReturns
<1>4. CASE Q!WaitEnds \/ Q!Spurious \/ Q!Tick \/ UNCHANGED Q!vars \/ \E c \in waiters : Q!WakesAnyway(c)
  <2>1. UNCHANGED <<linked, active_node, call, qmutex>>
    BY <1>4 DEF Q!WaitEnds, Q!Spurious, Q!Tick, Q!vars, Q!WakesAnyway
  <2> QED  BY <2>1 DEF Unseen, Q!Armed, Moved, Answers, Q!Answer, Q!Says
<1>5. ASSUME NEW c \in Callers, Q!GoesOn(c) PROVE Q!T!Next \/ Unseen
  BY <1>1, <1>2, <1>5, ModRefines, DelRefines, SyncRefines DEF Q!GoesOn
<1>6. ASSUME NEW c \in Callers, NEW t \in Timer,
             \/ Q!ModPendingOnly(c, t) \/ Q!DelRead(c, t) \/ Q!CallSync(c, t)
             \/ \E e \in 1 .. MaxClock : Q!ModDetach(c, t, e)
      PROVE  Q!T!Next \/ Unseen
  BY <1>1, <1>6, ModRefines, DelRefines, SyncRefines
<1> QED  BY <1>3, <1>4, <1>5, <1>6 DEF Q!Next, Q!ThreadStep, Callers

(* At first nothing is armed, and nobody calls.                            *)
LEMMA TimersInit == Q!Init => Q!T!Init
<1> SUFFICES ASSUME Q!Init PROVE Q!T!Init
  OBVIOUS
<1>1. Q!Armed = {}
  BY DEF Q!Init, Q!Idle, Q!Armed
<1>2. \A c \in Callers : Q!Answer(c) = Q!T!Silent
  BY DEF Q!Init, Q!Idle, Callers, Q!Answer, Q!Says, Q!T!Silent
<1>3. Q!Moving = Q!T!Still
  BY DEF Q!Init, Q!Moving, Q!T!Still
<1> QED  BY <1>1, <1>2, <1>3 DEF Q!Init, Q!T!Init, Callers

(* The timer queue is what Timers promises its users: each call answers    *)
(* about the timer it was given, no call says of an armed timer that it    *)
(* was not but for the one that is being moved, and del_timer_sync()       *)
(* returns only when the handler of its timer does not run.                *)
THEOREM QueueImplementsTimers == Q!Spec => ImplementsTimers
<1>1. Q!Spec => []TimerInv
  BY InitTimer, NextTimer, PTL DEF Q!Spec
<1> QED  BY <1>1, TimersInit, TimerRefines, PTL DEF Q!Spec, ImplementsTimers, Q!ImplementsTimers, Q!T!Spec
=============================================================================
