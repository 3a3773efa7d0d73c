---------------------------- MODULE OrderedQueue ----------------------------
(***************************************************************************)
(* What alloc_ordered_workqueue() promises (workqueue.h): "an ordered      *)
(* workqueue executes at most one work item at any given time in the       *)
(* queued order".  A work that is already queued cannot be queued again; a *)
(* running one can.  A queued work may be taken back (cancel).  The order  *)
(* is kept as the works that each queued work still has in front of it.    *)
(***************************************************************************)
CONSTANT Work

VARIABLES queued,   \* the queued works
          ahead,    \* of each work, those that were queued before it
          running   \* the work being executed, if any

Init == queued = {} /\ ahead = [x \in Work |-> {}] /\ running = {}

Enqueue(x) == /\ x \notin queued
              /\ queued' = queued \cup {x}
              /\ ahead' = [ahead EXCEPT ![x] = queued]
              /\ UNCHANGED running

Leave(x) == /\ x \in queued
            /\ queued' = queued \ {x}
            /\ ahead' = [y \in Work |-> IF y = x THEN {} ELSE ahead[y] \ {x}]

Start(x) == /\ running = {} /\ ahead[x] = {}
            /\ Leave(x)
            /\ running' = {x}

Finish == running # {} /\ running' = {} /\ UNCHANGED <<queued, ahead>>

Withdraw(x) == Leave(x) /\ UNCHANGED running

Next == \/ \E x \in Work : Enqueue(x) \/ Start(x) \/ Withdraw(x)
        \/ Finish

Spec == Init /\ [][Next]_<<queued, ahead, running>>
=============================================================================
