----------------------------- MODULE WaitQueue -----------------------------
(***************************************************************************)
(* wait_event(), wait_event_timeout() and wake_up() of wait.h: threads     *)
(* wait for a condition that another thread makes true without the wait    *)
(* queue's lock, before it calls wake_up().                                *)
(*                                                                         *)
(* Time: `now` counts jiffies, up to the bound MaxNow.  __wait_jiffies()   *)
(* reads the clock twice, for the end of its wait and for what is left of  *)
(* it, and the clock goes on between the two, and while the loop tests the *)
(* condition.  What is left is rounded down to jiffies                     *)
(* (timespec_to_jiffies()): less than one is none.                         *)
(***************************************************************************)
EXTENDS Naturals

CONSTANTS Sleeper, MaxNow

VARIABLES
  event,    \* the condition
  waking,   \* a thread made it true and is about to call wake_up()
  lock,     \* the threads that hold wq_head->lock: at most one
  epc,      \* [Sleeper -> "idle", "enter", "loop", "tested", "asleep", "woken"]
  timeout,  \* [Sleeper -> Nat] the argument; Endless in wait_event()
  left,     \* [Sleeper -> Nat] __ret, the jiffies it may still wait
  until,    \* [Sleeper -> Nat] ts, when its pthread_cond_timedwait() ends
  slept,    \* [Sleeper -> Nat] the jiffies that its call was to sleep, to state NoLonger
  now       \* jiffies

vars == <<event, waking, lock, epc, timeout, left, until, slept, now>>

Endless == MaxNow + 3

Init == /\ event = FALSE /\ waking = FALSE /\ lock = {} /\ now = 0
        /\ epc = [s \in Sleeper |-> "idle"] /\ timeout = [s \in Sleeper |-> 0]
        /\ left = [s \in Sleeper |-> 0] /\ until = [s \in Sleeper |-> 0]
        /\ slept = [s \in Sleeper |-> 0]

Goto(s, l) == epc' = [epc EXCEPT ![s] = l]

(* In a timed wait, or on its way out of it, and the end is to come.       *)
Waits(s) == epc[s] \in {"asleep", "woken"} /\ now < until[s] /\ timeout[s] # Endless

Tick == /\ now < MaxNow /\ now' = now + 1
        /\ slept' = [s \in Sleeper |-> IF Waits(s) THEN slept[s] + 1 ELSE slept[s]]
        /\ UNCHANGED <<event, waking, lock, epc, timeout, left, until>>

Happen == /\ ~event /\ ~waking /\ event' = TRUE /\ waking' = TRUE
          /\ UNCHANGED <<lock, epc, timeout, left, until, slept, now>>
Undo == /\ event /\ event' = FALSE
        /\ UNCHANGED <<waking, lock, epc, timeout, left, until, slept, now>>

Broadcast == epc' = [s \in Sleeper |-> IF epc[s] = "asleep" THEN "woken" ELSE epc[s]]

WakeUpUnlocked ==   \* wrong: without the lock
  waking /\ Broadcast /\ waking' = FALSE /\ UNCHANGED <<event, lock, timeout, left, until, slept, now>>
WakeUp == /\ waking /\ lock = {} /\ Broadcast /\ waking' = FALSE
          /\ UNCHANGED <<event, lock, timeout, left, until, slept, now>>

(* The test without the lock; a timeout of 0 does not wait.                *)
Wait(s) ==
  /\ epc[s] = "idle" /\ ~event
  /\ \E t \in {1, 2, Endless} : timeout' = [timeout EXCEPT ![s] = t] /\ left' = [left EXCEPT ![s] = t]
  /\ Goto(s, "enter")
  /\ UNCHANGED <<event, waking, lock, until, slept, now>>

Enter(s) == /\ epc[s] = "enter" /\ lock = {}
            /\ Goto(s, "loop") /\ lock' = {s}
            /\ UNCHANGED <<event, waking, timeout, left, until, slept, now>>

(* The loop, which holds the lock: it leaves with 1 or what is left, or    *)
(* with 0, or calls __wait_jiffies() or pthread_cond_wait().               *)
Leave(s) ==
  /\ event \/ left[s] = 0
  /\ Goto(s, "idle") /\ lock' = {}
  /\ timeout' = [timeout EXCEPT ![s] = 0] /\ left' = [left EXCEPT ![s] = 0]
  /\ slept' = [slept EXCEPT ![s] = 0]
Stay(s) == ~event /\ left[s] > 0 /\ Goto(s, "tested") /\ UNCHANGED <<lock, timeout, left, slept>>
Test(s) == /\ epc[s] = "loop" /\ (Leave(s) \/ Stay(s))
           /\ UNCHANGED <<event, waking, until, now>>

(* The first reading of the clock, and the wait, which lets the lock go.   *)
CondWait(s) == /\ epc[s] = "tested" /\ Goto(s, "asleep") /\ lock' = {}
               /\ until' = [until EXCEPT ![s] = IF timeout[s] = Endless THEN Endless ELSE now + left[s]]
               /\ UNCHANGED <<event, waking, timeout, left, slept, now>>

(* pthread_cond_wait() may return without a signal, and a timed one when   *)
(* its time is over.                                                       *)
Return(s) == /\ epc[s] = "asleep" /\ Goto(s, "woken")
             /\ UNCHANGED <<event, waking, lock, timeout, left, until, slept, now>>

(* The wait has the lock again, and the second reading of the clock: what  *)
(* __wait_jiffies() makes of the time that is left.                        *)
RemainingAll(s) == {left[s]}   \* wrong: the whole time again
Remaining(s) == IF timeout[s] = Endless THEN {Endless}
                ELSE IF now >= until[s] THEN {0} ELSE {until[s] - now, until[s] - now - 1}
Relock(s) == /\ epc[s] = "woken" /\ lock = {}
             /\ \E r \in Remaining(s) : left' = [left EXCEPT ![s] = r]
             /\ Goto(s, "loop") /\ lock' = {s} /\ until' = [until EXCEPT ![s] = 0]
             /\ UNCHANGED <<event, waking, timeout, slept, now>>

SleeperStep(s) == Wait(s) \/ Enter(s) \/ Test(s) \/ CondWait(s) \/ Return(s) \/ Relock(s)
Next == Tick \/ Happen \/ Undo \/ WakeUp \/ \E s \in Sleeper : SleeperStep(s)
Spec == Init /\ [][Next]_vars
-------------------------------------------------------------------------------
(* Properties                                                              *)

(* No lost wakeup: who sleeps although the condition is true is about to   *)
(* be woken, for the condition is tested under the lock that wake_up()     *)
(* takes after it became true.                                             *)
SleeperWillWake == event => waking \/ \A s \in Sleeper : epc[s] # "asleep"

(* However often a timed wait is woken too early, all its sleeps together  *)
(* are no longer than the timeout.  (Its end may still move on, by the     *)
(* time between the two readings of the clock, which is no sleep.)         *)
NoLonger == \A s \in Sleeper : timeout[s] = Endless \/ slept[s] <= timeout[s]
=============================================================================
