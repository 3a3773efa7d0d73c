----------------------------- MODULE Completion -----------------------------
(***************************************************************************)
(* struct completion of completion.c: a counter under a mutex with a       *)
(* condition variable.  Flushes, workqueue barriers, pool teardown and     *)
(* kthread_stop() all wait on one.                                         *)
(*                                                                         *)
(* Granularity.  A critical section of x->lock is one step, and one that   *)
(* reaches pthread_cond_wait() ends there: the thread is in the condition  *)
(* variable's queue (sleeping) until a signal, a timeout or a spurious     *)
(* wakeup, and takes the lock again in a later step (Resume).              *)
(***************************************************************************)
EXTENDS Integers, FiniteSets

CONSTANTS Thread,
          DoneMax     \* UINT_MAX, the value complete_all() stores

ASSUME CompletionAssumption ==
  /\ IsFiniteSet(Thread)
  /\ DoneMax \in Nat /\ Cardinality(Thread) < DoneMax

VARIABLES
  done,      \* x->done
  pc,        \* "idle", in wait_for_completion() ("wait") or its _timeout
             \* variant ("timed"), or in try_wait_for_completion() ("try")
  sleeping,  \* the queue of x->cond
  expired    \* the threads whose pthread_cond_timedwait() timed out

vars == <<done, pc, sleeping, expired>>

Init == /\ done = 0 /\ pc = [t \in Thread |-> "idle"]
        /\ sleeping = {} /\ expired = {}

Waiting == {t \in Thread : pc[t] \in {"wait", "timed"}}

(* One of the counted completions is used up.                              *)
Take == done > 0 /\ done' = IF done = DoneMax THEN done ELSE done - 1

Goto(t, l) == pc' = [pc EXCEPT ![t] = l]

(* wait_for_completion() or wait_for_completion_timeout(), up to the wait. *)
Wait(t, how) ==
  /\ pc[t] = "idle"
  /\ \/ Take /\ UNCHANGED <<pc, sleeping>>
     \/ /\ done = 0
        /\ Goto(t, how)
        /\ sleeping' = sleeping \cup {t}
        /\ UNCHANGED done
  /\ UNCHANGED expired

(* pthread_cond_wait() may return without a signal.                        *)
Spurious(t) ==
  /\ t \in sleeping
  /\ sleeping' = sleeping \ {t}
  /\ UNCHANGED <<done, pc, expired>>

Expire(t) ==
  /\ t \in sleeping /\ pc[t] = "timed"
  /\ sleeping' = sleeping \ {t}
  /\ expired' = expired \cup {t}
  /\ UNCHANGED <<done, pc>>

(* Wrong: a wait that timed out does not look at done again.               *)
ResumeExpired(t) ==
  /\ t \in Waiting \ sleeping
  /\ \/ t \notin expired /\ Take /\ Goto(t, "idle") /\ UNCHANGED sleeping
     \/ t \in expired /\ Goto(t, "idle") /\ UNCHANGED <<done, sleeping>>
     \/ done = 0 /\ t \notin expired /\ sleeping' = sleeping \cup {t} /\ UNCHANGED <<done, pc>>
  /\ expired' = expired \ {t}

(* Back under the lock: take a completion, or give up after a timeout, or  *)
(* wait again.                                                             *)
Resume(t) ==
  /\ t \in Waiting \ sleeping
  /\ \/ Take /\ Goto(t, "idle") /\ UNCHANGED sleeping
     \/ done = 0 /\ t \in expired /\ Goto(t, "idle") /\ UNCHANGED <<done, sleeping>>
     \/ done = 0 /\ t \notin expired /\ sleeping' = sleeping \cup {t} /\ UNCHANGED <<done, pc>>
  /\ expired' = expired \ {t}

(* try_wait_for_completion() reads done without the lock, and again with.  *)
TryRead(t) ==
  /\ pc[t] = "idle" /\ done > 0
  /\ Goto(t, "try")
  /\ UNCHANGED <<done, sleeping, expired>>

TryLock(t) ==
  /\ pc[t] = "try"
  /\ Take \/ (done = 0 /\ UNCHANGED done)
  /\ Goto(t, "idle")
  /\ UNCHANGED <<sleeping, expired>>

Increment == done' = IF done = DoneMax THEN done ELSE done + 1
SignalOne == IF sleeping = {} THEN UNCHANGED sleeping
             ELSE \E t \in sleeping : sleeping' = sleeping \ {t}

(* Wrong: only the first of several completions signals.                   *)
CompleteOnce ==
  /\ Increment
  /\ IF done = 0 THEN SignalOne ELSE UNCHANGED sleeping
  /\ UNCHANGED <<pc, expired>>

Complete == Increment /\ SignalOne /\ UNCHANGED <<pc, expired>>

CompleteAll == done' = DoneMax /\ sleeping' = {} /\ UNCHANGED <<pc, expired>>

(* reinit_completion() writes done without the lock; its callers have no   *)
(* thread in a call.                                                       *)
Reinit == /\ \A t \in Thread : pc[t] = "idle"
          /\ done' = 0 /\ UNCHANGED <<pc, sleeping, expired>>

ThreadStep(t) ==
  \/ Wait(t, "wait") \/ Wait(t, "timed") \/ Spurious(t) \/ Expire(t)
  \/ Resume(t) \/ TryRead(t) \/ TryLock(t)

Next == Complete \/ CompleteAll \/ Reinit \/ \E t \in Thread : ThreadStep(t)

Spec == Init /\ [][Next]_vars

(* A thread that left the condition variable's queue gets the lock.        *)
FairSpec == Spec /\ \A t \in Thread : WF_vars(Resume(t))
-------------------------------------------------------------------------------
(* Properties                                                              *)

(* done stays within an unsigned int (it never wraps below 0 or above      *)
(* UINT_MAX), and only waiting threads sleep or time out.                  *)
TypeOK ==
  /\ done \in 0 .. DoneMax
  /\ pc \in [Thread -> {"idle", "wait", "timed", "try"}]
  /\ sleeping \subseteq Waiting
  /\ expired \subseteq Waiting \ sleeping

(* No lost wakeup: while a thread sleeps, each completion that is left has *)
(* a waiting thread of its own that was woken for it or timed out, so that *)
(* neither a steal by try_wait nor a timeout strands a sleeper.            *)
NoLostWakeup == sleeping # {} => done <= Cardinality(Waiting \ sleeping)

(* A completion implements permits: every successful wait has a complete() *)
(* of its own, a timed wait fails only when there is none, and (in the     *)
(* fair specification) a permit that stays is used by a blocked thread.    *)
P == INSTANCE Permits WITH permits <- done, blocked <- Waiting, Endless <- DoneMax
ImplementsPermits == P!Spec
ServesPermits == P!FairSpec
=============================================================================
