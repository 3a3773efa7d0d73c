------------------------------- MODULE Timer -------------------------------
(***************************************************************************)
(* One timer queue of timer.c: the sorted list, the thread that runs the   *)
(* handlers, and the callers of mod_timer(), del_timer() and               *)
(* del_timer_sync().                                                       *)
(*                                                                         *)
(* Granularity.  What is done under q->mutex is one step, except that      *)
(* mod_timer() detaches the timer and links it again in two: del_timer()   *)
(* reads timer_pending() without the mutex and sees the state in between.  *)
(***************************************************************************)
EXTENDS Integers, Sequences

CONSTANTS Timer, Caller,   \* a handler is a caller of its own, "handler"
          None,
          MaxClock      \* bound: the clock stops here; no timer expires later.  Timers are
                        \* armed for ever all the same, for times that are past

VARIABLES
  all_timers, expires,   \* q->all_timers; timer->expires
  active_node,           \* the timer whose handler runs
  pending,               \* the timers whose entry.next is not NULL
  clock,                 \* util_get_jiffies()
  thread,                \* pc: "top", "handler", "wait"; now: its local; wake: the end
                         \* of its wait; lag: how old now was when the wait began
  call,                  \* what each caller (the handler is one) is doing: op, timer, ret
  waiters,               \* the callers asleep on q->waiter_cond
  mutex                  \* the caller inside mod_timer(), or None

vars == <<all_timers, expires, active_node, pending, clock, thread, call, waiters, mutex>>

Idle == [op |-> "idle", timer |-> None, ret |-> 0]

Init ==
  /\ all_timers = <<>> /\ expires = [t \in Timer |-> 0] /\ active_node = None /\ pending = {}
  /\ clock = 0 /\ thread = [pc |-> "top", now |-> 0, wake |-> -1, lag |-> 0]
  /\ call = [c \in Caller \cup {"handler"} |-> Idle] /\ waiters = {} /\ mutex = None

(* list_del(), of a timer that is on the list.                             *)
Without(t) ==
  IF t \notin pending THEN all_timers
  ELSE LET k == CHOOSE i \in DOMAIN all_timers : all_timers[i] = t
       IN  SubSeq(all_timers, 1, k - 1) \o SubSeq(all_timers, k + 1, Len(all_timers))

TopOf == [pc |-> "top", now |-> 0, wake |-> -1, lag |-> 0]

(* A caller starts; the handler is a caller for its own timer only.        *)
MayCall(c) == call[c].op = "idle" /\ (c = "handler" => thread.pc = "handler")
Set(c, op, t, r) == call' = [call EXCEPT ![c] = [op |-> op, timer |-> t, ret |-> r]]
-------------------------------------------------------------------------------
(* mod_timer(): detach_if_pending(), then __add_timer().  The time may be  *)
(* past already: the thread then takes the timer as soon as it can.        *)
ModDetach(c, t, e) ==
  /\ MayCall(c) /\ mutex = None
  /\ (c = "handler" => t = active_node)
  /\ mutex' = c
  /\ all_timers' = Without(t) /\ pending' = pending \ {t}
  /\ expires' = [expires EXCEPT ![t] = e]
  /\ Set(c, "mod", t, IF t \in pending THEN 1 ELSE 0)
  /\ UNCHANGED <<active_node, clock, thread, waiters>>

InsertFirst(t) == all_timers' = <<t>> \o all_timers   \* wrong: the order is not kept
Insert(t) ==
  \E k \in 0 .. Len(all_timers) :
    /\ \A j \in 1 .. k : expires[all_timers[j]] <= expires[t]
    /\ k < Len(all_timers) => expires[t] < expires[all_timers[k + 1]]
    /\ all_timers' = SubSeq(all_timers, 1, k) \o <<t>> \o SubSeq(all_timers, k + 1, Len(all_timers))

SignalUnlessEmpty ==   \* wrong: no signal for the first timer of an empty list
  thread' = IF thread.pc = "wait" /\ Head(all_timers') \notin pending /\ Len(all_timers') > 1
            THEN TopOf ELSE thread
SignalFirst == thread' = IF thread.pc = "wait" /\ Head(all_timers') \notin pending THEN TopOf ELSE thread

ModAdd(c) ==
  /\ call[c].op = "mod" /\ mutex = c
  /\ Insert(call[c].timer)
  /\ pending' = pending \cup {call[c].timer}
  /\ SignalFirst
  /\ mutex' = None /\ Set(c, "ret", call[c].timer, call[c].ret)
  /\ UNCHANGED <<expires, active_node, clock, waiters>>

(* mod_timer_pending() of a timer that is not pending changes nothing.     *)
ModPendingOnly(c, t) ==
  /\ MayCall(c) /\ mutex = None /\ t \notin pending /\ c # "handler"
  /\ Set(c, "ret", t, 0)
  /\ UNCHANGED <<all_timers, expires, active_node, pending, clock, thread, waiters, mutex>>

(* del_timer(): timer_pending() without the mutex, then again with it.     *)
DelRead(c, t) ==
  /\ MayCall(c) /\ c # "handler"
  /\ IF t \in pending THEN Set(c, "del", t, 0) ELSE Set(c, "deleted", t, 0)
  /\ UNCHANGED <<all_timers, expires, active_node, pending, clock, thread, waiters, mutex>>

Detach(t) == all_timers' = Without(t) /\ pending' = pending \ {t}
WasPending(t) == IF t \in pending THEN 1 ELSE 0

DelLock(c) ==
  /\ call[c].op = "del" /\ mutex = None
  /\ Set(c, "deleted", call[c].timer, WasPending(call[c].timer))
  /\ Detach(call[c].timer)
  /\ UNCHANGED <<expires, active_node, clock, thread, waiters, mutex>>

(* Wrong: del_timer_sync() does not look for the running handler.          *)
TrySyncAsync(c) ==
  /\ call[c].op = "sync" /\ mutex = None
  /\ Detach(call[c].timer) /\ Set(c, "synced", call[c].timer, WasPending(call[c].timer))
  /\ UNCHANGED <<expires, active_node, clock, thread, waiters, mutex>>

(* try_to_del_timer_sync() gives up while the handler runs.                *)
TrySync(c) ==
  /\ call[c].op = "sync" /\ mutex = None
  /\ IF active_node = call[c].timer
       THEN Set(c, "running", call[c].timer, 0) /\ UNCHANGED <<all_timers, pending>>
       ELSE Detach(call[c].timer) /\ Set(c, "synced", call[c].timer, WasPending(call[c].timer))
  /\ UNCHANGED <<expires, active_node, clock, thread, waiters, mutex>>

CallSync(c, t) ==
  /\ MayCall(c) /\ c # "handler"
  /\ Set(c, "sync", t, 0)
  /\ UNCHANGED <<all_timers, expires, active_node, pending, clock, thread, waiters, mutex>>

(* del_timer_wait_running(): asleep while active_node is the timer; a      *)
(* caller that is awake goes back to try_to_del_timer_sync().              *)
WaitRunning(c) ==
  /\ call[c].op = "running" /\ c \notin waiters /\ mutex = None
  /\ IF active_node = call[c].timer THEN waiters' = waiters \cup {c} /\ UNCHANGED call
     ELSE Set(c, "sync", call[c].timer, 0) /\ UNCHANGED waiters
  /\ UNCHANGED <<all_timers, expires, active_node, pending, clock, thread, mutex>>

Return(c) ==
  /\ call[c].op \in {"ret", "deleted", "synced"}
  /\ call' = [call EXCEPT ![c] = Idle]
  /\ UNCHANGED <<all_timers, expires, active_node, pending, clock, thread, waiters, mutex>>
-------------------------------------------------------------------------------
(* timer_entry().                                                          *)

(* The inner loop with its now, which may be old: take the first timer if  *)
(* it is due, else wait for it or (wake is -1) for a signal.               *)
Serve(now) ==
  IF all_timers # <<>> /\ expires[Head(all_timers)] <= now
    THEN /\ active_node' = Head(all_timers)
         /\ all_timers' = Tail(all_timers) /\ pending' = pending \ {Head(all_timers)}
         /\ thread' = [pc |-> "handler", now |-> now, wake |-> -1, lag |-> 0]
    ELSE /\ active_node' = None
         /\ thread' = [pc |-> "wait", now |-> 0, lag |-> clock - now,
                       wake |-> IF all_timers = <<>> THEN -1 ELSE clock + expires[Head(all_timers)] - now]
         /\ UNCHANGED <<all_timers, pending>>

Top ==
  /\ thread.pc = "top" /\ mutex = None
  /\ Serve(clock)
  /\ UNCHANGED <<expires, clock, call, waiters, mutex>>

HandlerReturns ==
  /\ thread.pc = "handler" /\ mutex = None /\ call["handler"].op = "idle"
  /\ Serve(thread.now)
  /\ waiters' = {}
  /\ UNCHANGED <<expires, clock, call, mutex>>

(* A wait may end beyond MaxClock: that is when the clock has stopped.     *)
WaitEnds ==
  /\ thread.pc = "wait" /\ thread.wake >= 0
  /\ clock >= thread.wake \/ clock = MaxClock
  /\ thread' = TopOf
  /\ UNCHANGED <<all_timers, expires, active_node, pending, clock, call, waiters, mutex>>

(* Both condition variables may also wake a thread without a signal.       *)
Spurious == /\ thread.pc = "wait" /\ thread' = TopOf
            /\ UNCHANGED <<all_timers, expires, active_node, pending, clock, call, waiters, mutex>>
WakesAnyway(c) == /\ c \in waiters /\ waiters' = waiters \ {c}
                  /\ UNCHANGED <<all_timers, expires, active_node, pending, clock, thread, call, mutex>>

Tick == /\ clock < MaxClock /\ clock' = clock + 1
        /\ UNCHANGED <<all_timers, expires, active_node, pending, thread, call, waiters, mutex>>

ThreadStep == Top \/ HandlerReturns \/ WaitEnds
GoesOn(c) == ModAdd(c) \/ DelLock(c) \/ TrySync(c) \/ WaitRunning(c) \/ Return(c)

Next ==
  \/ \E c \in Caller \cup {"handler"}, t \in Timer :
        \/ ModPendingOnly(c, t) \/ DelRead(c, t) \/ CallSync(c, t)
        \/ \E e \in 1 .. MaxClock : ModDetach(c, t, e)
  \/ \E c \in Caller \cup {"handler"} : GoesOn(c)
  \/ ThreadStep \/ Spurious \/ Tick \/ \E c \in waiters : WakesAnyway(c)

Spec == Init /\ [][Next]_vars
-------------------------------------------------------------------------------
(* Properties                                                              *)

TypeOK ==
  /\ expires \in [Timer -> 0 .. MaxClock] /\ active_node \in Timer \cup {None}
  /\ pending = {all_timers[i] : i \in DOMAIN all_timers}
  /\ waiters \subseteq {c \in Caller : call[c].op = "running"}
  /\ mutex \in Caller \cup {"handler", None}

(* The list is in the order of expiry, which all of timer_entry() relies   *)
(* on, and a timer is in it once.                                          *)
Sorted == \A i, j \in DOMAIN all_timers : i < j =>
  all_timers[i] # all_timers[j] /\ expires[all_timers[i]] <= expires[all_timers[j]]

(* The thread never sleeps past the first timer, by more than the time its *)
(* handlers took since it last looked at the clock.                        *)
InTime == (thread.pc = "wait" /\ all_timers # <<>>) =>
  thread.wake \in 0 .. expires[Head(all_timers)] + thread.lag

(* No caller sleeps for the end of a handler that has ended.               *)
WaitersHaveHandler == \A c \in waiters : active_node = call[c].timer

(* The queue implements Timers.                                            *)
Says(c) == CASE call[c].op = "ret" -> IF call[c].ret = 1 THEN "armed" ELSE "idle"
             [] call[c].op = "deleted" -> IF call[c].ret = 1 THEN "armed" ELSE "idle"
             [] call[c].op = "synced" -> IF call[c].ret = 1 THEN "stopped" ELSE "quiet"
             [] OTHER -> "none"
Answer(c) == [timer |-> IF Says(c) = "none" THEN None ELSE call[c].timer, says |-> Says(c)]
Moving == [by |-> mutex, timer |-> IF mutex = None THEN None ELSE call[mutex].timer]
Armed == pending \cup {call[c].timer : c \in {d \in Caller \cup {"handler"} : call[d].op = "mod" /\ call[d].ret = 1}}
T == INSTANCE Timers WITH Caller <- Caller \cup {"handler"}, armed <- Armed, running <- active_node,
       moving <- Moving, answer <- [c \in Caller \cup {"handler"} |-> Answer(c)]
ImplementsTimers == T!Spec

(* An armed timer expires (or is moved or deleted), unless others that are *)
(* due earlier are armed again and again.                                  *)
Overtaken(t) == \E c \in DOMAIN call : call[c].op = "mod" /\ expires[call[c].timer] < expires[t]
Fires(t) == []<>Overtaken(t) \/ (t \in pending ~> t \notin pending)

(* A del_timer_sync() returns, unless others restart its timer again and   *)
(* again, which its callers must prevent (timer.c:240).                    *)
Restarted(c) == \E d \in DOMAIN call \ {c} : call[d].op = "mod" /\ call[d].timer = call[c].timer
SyncReturns(c) == []<>Restarted(c) \/ (call[c].op = "sync" ~> call[c].op = "synced")
=============================================================================
