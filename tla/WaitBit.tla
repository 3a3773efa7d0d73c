------------------------------ MODULE WaitBit ------------------------------
(***************************************************************************)
(* util_wait_on_bit() and util_wake_up_bit() of wait_bit.c, for the bits   *)
(* of one hash bucket.  Each waiter has a semaphore of its own on its      *)
(* stack, and the bucket links it.  The bit itself changes without the     *)
(* bucket's lock: its owner clears it and then calls util_wake_up_bit(),   *)
(* and anyone may set it again.                                            *)
(*                                                                         *)
(* A critical section of the bucket's lock is one step.                    *)
(*                                                                         *)
(* A signal may interrupt sem_wait().  A call can then return with its     *)
(* waiter still linked: whoever walks the list next reads a frame that is  *)
(* gone, which C leaves undefined.  The model stops there (Intact).        *)
(***************************************************************************)
EXTENDS Naturals

CONSTANTS Waiter, Bit,
          MaxInterrupts   \* bound: how often the sem_wait() of a call is interrupted

VARIABLES
  word,     \* the bits that are set
  bucket,   \* the waiters that hash_tbl[idx].list links
  sem,      \* [Waiter -> Nat] w.sem
  wpc,      \* [Waiter -> "idle", "lock", "sem", "taken", "again"]
  on,       \* [Waiter -> Bit] the bit it waits for
  waker,    \* the bits that were cleared and whose wakeup is still to come
  intr      \* [Waiter -> Nat] how often its call was interrupted, to count to the bound

vars == <<word, bucket, sem, wpc, on, waker, intr>>

Init == /\ word = {} /\ bucket = {} /\ waker = {}
        /\ sem = [w \in Waiter |-> 0]
        /\ wpc = [w \in Waiter |-> "idle"]
        /\ on = [w \in Waiter |-> CHOOSE b \in Bit : TRUE]
        /\ intr = [w \in Waiter |-> 0]

SetBit(b) == b \notin word /\ word' = word \cup {b} /\ UNCHANGED <<bucket, sem, wpc, on, waker, intr>>

ClearBit(b) == /\ b \in word /\ word' = word \ {b} /\ waker' = waker \cup {b}
               /\ UNCHANGED <<bucket, sem, wpc, on, intr>>

(* util_wake_up_bit() posts every waiter of its bit, and unlinks it first. *)
Posted(b) == {w \in bucket : on[w] = b}
Post(b) ==
  /\ b \in waker /\ waker' = waker \ {b}
  /\ bucket' = bucket \ Posted(b)
  /\ sem' = [w \in Waiter |-> IF w \in Posted(b) THEN sem[w] + 1 ELSE sem[w]]
  /\ UNCHANGED <<word, wpc, on, intr>>

Goto(w, l) == wpc' = [wpc EXCEPT ![w] = l]

(* util_wait_on_bit(): the test without the lock, with a waiter that is    *)
(* new, and the test with it.                                              *)
Wait(w, b) ==
  /\ wpc[w] = "idle" /\ b \in word
  /\ Goto(w, "lock") /\ on' = [on EXCEPT ![w] = b]
  /\ sem' = [sem EXCEPT ![w] = 0] /\ intr' = [intr EXCEPT ![w] = 0]
  /\ UNCHANGED <<word, bucket, waker>>

Enter(w) ==
  /\ wpc[w] = "lock"
  /\ \/ on[w] \in word /\ bucket' = bucket \cup {w} /\ Goto(w, "sem")
     \/ on[w] \notin word /\ Goto(w, "idle") /\ UNCHANGED bucket
  /\ UNCHANGED <<word, sem, on, waker, intr>>

SemWait(w) ==
  /\ wpc[w] = "sem" /\ sem[w] > 0
  /\ sem' = [sem EXCEPT ![w] = @ - 1] /\ Goto(w, "taken")
  /\ UNCHANGED <<word, bucket, on, waker, intr>>

(* A handler of a signal ran: ret # 0, and nothing was taken.              *)
Interrupted(w) ==
  /\ wpc[w] = "sem" /\ intr[w] < MaxInterrupts
  /\ intr' = [intr EXCEPT ![w] = @ + 1] /\ Goto(w, "again")
  /\ UNCHANGED <<word, bucket, sem, on, waker>>

Test(w) ==
  /\ wpc[w] = "taken"
  /\ Goto(w, IF on[w] \in word THEN "again" ELSE "idle")
  /\ UNCHANGED <<word, bucket, sem, on, waker, intr>>

(* The bit is set again, or still: back into the list if a wakeup unlinked *)
(* it, whose post may be left over when the wait was interrupted.          *)
Again(w) ==
  /\ wpc[w] = "again"
  /\ \/ on[w] \in word /\ bucket' = bucket \cup {w} /\ Goto(w, "sem")
     \/ on[w] \notin word /\ bucket' = bucket \ {w} /\ Goto(w, "idle")
  /\ UNCHANGED <<word, sem, on, waker, intr>>

WaiterStep(w) == Enter(w) \/ SemWait(w) \/ Test(w) \/ Again(w)
Step == \/ \E b \in Bit : SetBit(b) \/ ClearBit(b) \/ Post(b)
        \/ \E w \in Waiter : WaiterStep(w) \/ Interrupted(w) \/ \E b \in Bit : Wait(w, b)

(* No link is left of a call that returned.                                *)
Intact == \A w \in bucket : wpc[w] # "idle"

Next == Intact /\ Step
Spec == Init /\ [][Next]_vars
Fairness == /\ \A w \in Waiter : WF_vars(Intact /\ WaiterStep(w))
            /\ \A b \in Bit : WF_vars(Intact /\ Post(b))
-------------------------------------------------------------------------------
(* Properties                                                              *)

(* A waiter does not sleep for a wakeup that is past: it has a post to     *)
(* take, or it is linked and its bit is set or the wakeup is still to      *)
(* come.  A call that was not interrupted is linked exactly while it       *)
(* sleeps and no wakeup came; when it returns it is linked no more and no  *)
(* post is left over, for its frame is gone.  Of one that was interrupted  *)
(* this is not true.                                                       *)
SleeperIsLinked == \A w \in Waiter :
  /\ wpc[w] = "sem" => sem[w] > 0 \/ (w \in bucket /\ on[w] \in word \cup waker)
  /\ intr[w] = 0 => /\ w \in bucket <=> wpc[w] = "sem" /\ sem[w] = 0
                    /\ sem[w] = 0 \/ (wpc[w] = "sem" /\ sem[w] = 1)

(* A wait ends, or the bit is set again and again.                         *)
WaitEnds(w) == wpc[w] # "idle" ~> wpc[w] = "idle" \/ on[w] \in word \/ ~Intact
=============================================================================
