----------------------------- MODULE SafeMutex -----------------------------
(***************************************************************************)
(* safe_mutex.h: a pthread mutex and the thread that owns it.  The owner   *)
(* is written by separate steps, inside the critical section, and read by  *)
(* safe_mutex_held() of any thread at any time.                            *)
(***************************************************************************)
CONSTANTS Self,     \* the threads
          Nobody    \* 0, which is no thread

VARIABLES
  mutex,   \* the thread that holds mtx->m, or Nobody
  owner,   \* mtx->owner
  mpc      \* [Self -> "out", "locked", "held", "leaving", "waits", "queued", "condwait"]

vars == <<mutex, owner, mpc>>

Init == mutex = Nobody /\ owner = Nobody /\ mpc = [t \in Self |-> "out"]

Goto(t, l) == mpc' = [mpc EXCEPT ![t] = l]

(* safe_mutex_lock(), and the return of pthread_cond_wait().               *)
Lock(t) == /\ mpc[t] \in {"out", "queued"} /\ mutex = Nobody
           /\ mutex' = t /\ Goto(t, "locked") /\ UNCHANGED owner
SetOwner(t) == mpc[t] = "locked" /\ owner' = t /\ Goto(t, "held") /\ UNCHANGED mutex

(* safe_mutex_unlock() asserts that it is the owner.                       *)
ClearOwner(t) == mpc[t] = "held" /\ owner' = Nobody /\ Goto(t, "leaving") /\ UNCHANGED mutex
UnlockFirst(t) ==      \* wrong: unlocks, and clears the owner afterwards
  \/ mpc[t] = "held" /\ mutex' = Nobody /\ Goto(t, "leaving") /\ UNCHANGED owner
  \/ mpc[t] = "leaving" /\ owner' = Nobody /\ Goto(t, "out") /\ UNCHANGED mutex
Unlock(t) == \/ ClearOwner(t)
             \/ mpc[t] = "leaving" /\ mutex' = Nobody /\ Goto(t, "out") /\ UNCHANGED owner

(* safe_cond_wait()                                                        *)
CondWait(t) ==
  \/ mpc[t] = "held" /\ owner' = Nobody /\ Goto(t, "waits") /\ UNCHANGED mutex
  \/ mpc[t] = "waits" /\ mutex' = Nobody /\ Goto(t, "condwait") /\ UNCHANGED owner
  \/ mpc[t] = "condwait" /\ Goto(t, "queued") /\ UNCHANGED <<mutex, owner>>

Next == \E t \in Self : Lock(t) \/ SetOwner(t) \/ Unlock(t) \/ CondWait(t)
Spec == Init /\ [][Next]_vars
-------------------------------------------------------------------------------
(* Properties                                                              *)

(* Whatever the other threads do, a thread reads itself as the owner       *)
(* exactly between the end of its lock and the start of its unlock or      *)
(* wait, and then it has the mutex: no assertion fails, and                *)
(* safe_mutex_held() is right although it reads without the mutex.         *)
OwnerHolds == \A t \in Self : /\ owner = t <=> mpc[t] = "held"
                              /\ owner = t => mutex = t
=============================================================================
