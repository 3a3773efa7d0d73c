----------------------------- MODULE FlushColors -----------------------------
(***************************************************************************)
(* flush_workqueue() and drain_workqueue() of one workqueue.               *)
(*                                                                         *)
(* Works take the workqueue's current colour when they are queued; a flush *)
(* closes that colour and waits until no pwq has a work of it in flight.   *)
(* Several flushes wait in the queue of colours; the first flusher, woken  *)
(* by the last work, completes the others and hands the role on.           *)
(*                                                                         *)
(* Granularity.  wq->mutex is held over several steps, because workers,    *)
(* who take only their pool's lock, return in between.  Queueing a work    *)
(* needs wq->mutex, so the rest of __queue_work() is one step.  A member   *)
(* of Work is one instance: from its queue_work() to its return.           *)
(***************************************************************************)
EXTENDS Integers, Sequences, FiniteSets

CONSTANTS Pwq, Work, Flusher, None,
          NrColors,   \* WORK_NR_COLORS
          Drainers    \* the flushers that call drain_workqueue()

ASSUME ColorAssumption ==
  /\ None \notin Flusher \cup Pwq \cup Work
  /\ NrColors \in Nat /\ NrColors > 2
  /\ Drainers \subseteq Flusher
  /\ IsFiniteSet(Pwq) /\ IsFiniteSet(Work) /\ IsFiniteSet(Drainers)

Color == 0 .. NrColors - 1

VARIABLES
  mutex,             \* wq->mutex: its holder, or None
  work_color, flush_color,           \* of the workqueue
  first_flusher, flusher_queue, flusher_overflow,
  nr_pwqs_to_flush,
  pwq_work_color, pwq_flush_color,   \* of each pwq
  color, done,       \* wq_flusher.flush_color and .done of each flusher
  next,              \* the cascade's variable next
  prep,              \* flush_workqueue_prep_pwqs() in progress
  nr_drainers,       \* __WQ_DRAINING is nr_drainers > 0
  fpc,               \* where a flusher is
  stage,             \* where a work is
  pwq, wcolor,       \* of a work that is in flight
  owed               \* history: the works in flight when a flush started

wqVars    == <<work_color, flush_color, first_flusher, flusher_queue, flusher_overflow>>
pwqVars   == <<nr_pwqs_to_flush, pwq_work_color, pwq_flush_color>>
flushVars == <<color, done, next, prep, fpc>>
workVars  == <<stage, pwq, wcolor>>
vars == <<mutex, wqVars, pwqVars, flushVars, workVars, nr_drainers, owed>>

InFlight == {x \in Work : stage[x] \in {"queued", "running"}}
nr_in_flight(q, c) == Cardinality({x \in InFlight : pwq[x] = q /\ wcolor[x] = c})

NoPrep == [flush |-> -1, work |-> -1, todo |-> {}, wait |-> FALSE,
           yes |-> "none", no |-> "none"]

Init ==
  /\ mutex = None
  /\ work_color = 0 /\ flush_color = 0 /\ first_flusher = None
  /\ flusher_queue = <<>> /\ flusher_overflow = <<>>
  /\ nr_pwqs_to_flush = 0
  /\ pwq_work_color = [q \in Pwq |-> 0] /\ pwq_flush_color = [q \in Pwq |-> -1]
  /\ color = [f \in Flusher |-> -1] /\ done = [f \in Flusher |-> FALSE]
  /\ next = None /\ prep = NoPrep /\ nr_drainers = 0
  /\ fpc = [f \in Flusher |-> "idle"]
  /\ stage = [x \in Work |-> "idle"]
  /\ pwq = [x \in Work |-> None] /\ wcolor = [x \in Work |-> -1]
  /\ owed = [f \in Flusher |-> {}]

work_next_color(c) == (c + 1) % NrColors
-------------------------------------------------------------------------------
(* Works                                                                   *)

(* queue_work(), by a thread outside the workqueue or (chained) by a work  *)
(* of this workqueue.  wq->flags is read without the mutex; as             *)
(* task->data is never set, current_wq_worker() is NULL and                *)
(* is_chained_work() is false in every thread.                             *)
is_chained_work(chained) == FALSE

QueueWork(x, chained) ==
  /\ stage[x] = "idle"
  /\ chained => \E y \in Work : stage[y] = "running"
  /\ stage' = [stage EXCEPT ![x] =
       IF nr_drainers > 0 /\ ~is_chained_work(chained)
       THEN IF chained THEN "dropped_chained" ELSE "dropped" ELSE "queueing"]
  /\ UNCHANGED <<mutex, wqVars, pwqVars, flushVars, pwq, wcolor, nr_drainers, owed>>

Queue(x, q) ==
  /\ stage[x] = "queueing" /\ mutex = None
  /\ stage' = [stage EXCEPT ![x] = "queued"]
  /\ pwq' = [pwq EXCEPT ![x] = q]
  /\ wcolor' = [wcolor EXCEPT ![x] = pwq_work_color[q]]
  /\ UNCHANGED <<mutex, wqVars, pwqVars, flushVars, nr_drainers, owed>>

Execute(x) ==
  /\ stage[x] = "queued"
  /\ stage' = [stage EXCEPT ![x] = "running"]
  /\ UNCHANGED <<mutex, wqVars, pwqVars, flushVars, pwq, wcolor, nr_drainers, owed>>

(* A count of pwqs reaches zero: complete the first flusher.               *)
DecPwqsToFlush ==
  /\ nr_pwqs_to_flush' = nr_pwqs_to_flush - 1
  /\ done' = [f \in Flusher |-> done[f] \/ (nr_pwqs_to_flush = 1 /\ f = first_flusher)]

(* pwq_dec_nr_in_flight(): the last work of the colour being flushed       *)
(* clears its pwq's flush_color.                                           *)
Return(x) ==
  LET q == pwq[x]
      last == pwq_flush_color[q] = wcolor[x] /\ nr_in_flight(q, wcolor[x]) = 1
  IN
  /\ stage[x] = "running"
  /\ stage' = [stage EXCEPT ![x] = "idle"]
  /\ pwq' = [pwq EXCEPT ![x] = None]
  /\ wcolor' = [wcolor EXCEPT ![x] = -1]
  /\ owed' = [f \in Flusher |-> owed[f] \ {x}]
  /\ IF last
     THEN /\ pwq_flush_color' = [pwq_flush_color EXCEPT ![q] = -1]
          /\ DecPwqsToFlush
     ELSE UNCHANGED <<pwq_flush_color, nr_pwqs_to_flush, done>>
  /\ UNCHANGED <<mutex, wqVars, pwq_work_color, color, next, prep, fpc, nr_drainers>>
-------------------------------------------------------------------------------
(* flush_workqueue_prep_pwqs()                                             *)

(* Wrong: no guard count while the pwqs are visited, or the pwqs keep their*)
(* work_color.                                                             *)
StartPrepUnguarded(f, fc, wc, yes, no) ==
  /\ prep' = [flush |-> fc, work |-> wc, todo |-> Pwq, wait |-> FALSE, yes |-> yes, no |-> no]
  /\ fpc' = [fpc EXCEPT ![f] = "prep"]
  /\ nr_pwqs_to_flush' = IF fc >= 0 THEN 0 ELSE nr_pwqs_to_flush

(* The flusher goes on at "yes" if there is something to wait for, else at *)
(* "no".                                                                   *)
StartPrep(f, fc, wc, yes, no) ==
  /\ prep' = [flush |-> fc, work |-> wc, todo |-> Pwq, wait |-> FALSE, yes |-> yes, no |-> no]
  /\ fpc' = [fpc EXCEPT ![f] = "prep"]
  /\ nr_pwqs_to_flush' = IF fc >= 0 THEN 1 ELSE nr_pwqs_to_flush

(* Wrong: an armed pwq is not counted.                                     *)
PrepPwqUncounted(f, q) ==
  /\ fpc[f] = "prep" /\ q \in prep.todo
  /\ LET arm == prep.flush >= 0 /\ nr_in_flight(q, prep.flush) > 0
     IN  /\ pwq_flush_color' = [pwq_flush_color EXCEPT ![q] = IF arm THEN prep.flush ELSE @]
         /\ prep' = [prep EXCEPT !.todo = @ \ {q}, !.wait = @ \/ arm]
  /\ pwq_work_color' = [pwq_work_color EXCEPT ![q] = IF prep.work >= 0 THEN prep.work ELSE @]
  /\ UNCHANGED <<mutex, wqVars, nr_pwqs_to_flush, color, done, next, fpc, workVars, nr_drainers, owed>>

(* The body of its loop, under the pool's lock.                            *)
PrepPwq(f, q) ==
  /\ fpc[f] = "prep" /\ q \in prep.todo
  /\ LET arm == prep.flush >= 0 /\ nr_in_flight(q, prep.flush) > 0
     IN  /\ pwq_flush_color' = [pwq_flush_color EXCEPT ![q] = IF arm THEN prep.flush ELSE @]
         /\ nr_pwqs_to_flush' = nr_pwqs_to_flush + (IF arm THEN 1 ELSE 0)
         /\ prep' = [prep EXCEPT !.todo = @ \ {q}, !.wait = @ \/ arm]
  /\ pwq_work_color' = [pwq_work_color EXCEPT ![q] = IF prep.work >= 0 THEN prep.work ELSE @]
  /\ UNCHANGED <<mutex, wqVars, color, done, next, fpc, workVars, nr_drainers, owed>>

(* Its end: the guard count is dropped.                                    *)
PrepEnd(f) ==
  /\ fpc[f] = "prep" /\ prep.todo = {}
  /\ fpc' = [fpc EXCEPT ![f] = IF prep.wait THEN prep.yes ELSE prep.no]
  /\ IF prep.flush >= 0 THEN DecPwqsToFlush ELSE UNCHANGED <<nr_pwqs_to_flush, done>>
  /\ prep' = NoPrep
  /\ UNCHANGED <<mutex, wqVars, pwq_work_color, pwq_flush_color, color, next, workVars,
                 nr_drainers, owed>>
-------------------------------------------------------------------------------
(* flush_workqueue(): start to wait                                        *)

(* Under wq->mutex: the current colour becomes the flush's colour, or, if  *)
(* the colour space is full, the flush overflows.                          *)
Start(f) ==
  LET nc == work_next_color(work_color)
      TakeColor == color' = [color EXCEPT ![f] = work_color] /\ work_color' = nc
  IN
  /\ fpc[f] = "flush" /\ mutex = None
  /\ mutex' = f
  /\ done' = [done EXCEPT ![f] = FALSE]
  /\ owed' = [owed EXCEPT ![f] = InFlight]
  /\ \/ /\ nc # flush_color /\ first_flusher = None
        /\ TakeColor
        /\ first_flusher' = f
        /\ StartPrep(f, flush_color, nc, "unlock_wait", "nothing")
        /\ UNCHANGED <<flusher_queue, flusher_overflow>>
     \/ /\ nc # flush_color /\ first_flusher # None
        /\ TakeColor
        /\ flusher_queue' = Append(flusher_queue, f)
        /\ StartPrep(f, -1, nc, "unlock_wait", "unlock_wait")
        /\ UNCHANGED <<first_flusher, flusher_overflow>>
     \/ /\ nc = flush_color
        /\ flusher_overflow' = Append(flusher_overflow, f)
        /\ color' = [color EXCEPT ![f] = -1]
        /\ fpc' = [fpc EXCEPT ![f] = "unlock_wait"]
        /\ UNCHANGED <<work_color, first_flusher, flusher_queue, prep, nr_pwqs_to_flush>>
  /\ UNCHANGED <<flush_color, pwq_work_color, pwq_flush_color, next, workVars, nr_drainers>>

(* flush_workqueue() returns, to drain_workqueue() in a drainer.           *)
Leave(f) == fpc' = [fpc EXCEPT ![f] = IF f \in Drainers THEN "drain_check" ELSE "idle"]

Nothing(f) ==
  /\ fpc[f] = "nothing"
  /\ flush_color' = work_color
  /\ first_flusher' = None
  /\ mutex' = None
  /\ Leave(f)
  /\ UNCHANGED <<work_color, flusher_queue, flusher_overflow, pwqVars, color, done, next, prep,
                 workVars, nr_drainers, owed>>

UnlockWait(f) ==
  /\ fpc[f] = "unlock_wait"
  /\ mutex' = None
  /\ fpc' = [fpc EXCEPT ![f] = "wait"]
  /\ UNCHANGED <<wqVars, pwqVars, color, done, next, prep, workVars, nr_drainers, owed>>
-------------------------------------------------------------------------------
(* flush_workqueue(): wake up and cascade                                  *)

(* wait_for_completion() returns; first_flusher is read without the mutex, *)
(* and again with it.                                                      *)
WakeUp(f) ==
  /\ fpc[f] = "wait" /\ done[f]
  /\ IF first_flusher = f THEN fpc' = [fpc EXCEPT ![f] = "relock"] ELSE Leave(f)
  /\ UNCHANGED <<mutex, wqVars, pwqVars, color, done, next, prep, workVars, nr_drainers, owed>>

Relock(f) ==
  /\ fpc[f] = "relock" /\ mutex = None
  /\ IF first_flusher = f
     THEN /\ mutex' = f
          /\ first_flusher' = None
          /\ fpc' = [fpc EXCEPT ![f] = "complete"]
     ELSE Leave(f) /\ UNCHANGED <<mutex, first_flusher>>
  /\ UNCHANGED <<work_color, flush_color, flusher_queue, flusher_overflow, pwqVars, color, done,
                 next, prep, workVars, nr_drainers, owed>>

(* The loop's first half: the flushers of the finished colour, which lead  *)
(* the queue, are completed, the colour is freed, and all the flushers in  *)
(* overflow share a new one.  (next is not a flusher if the whole queue    *)
(* was of that colour.)                                                    *)
SameColor(n) ==
  /\ \A k \in 1 .. n : color[flusher_queue[k]] = flush_color
  /\ n < Len(flusher_queue) => color[flusher_queue[n + 1]] # flush_color
In(s, f) == \E k \in 1 .. Len(s) : s[k] = f

CompleteColor(f) ==
  LET nc == work_next_color(work_color) IN
  /\ fpc[f] = "complete"
  /\ \E n \in 0 .. Len(flusher_queue) :
       LET rest == SubSeq(flusher_queue, n + 1, Len(flusher_queue))
       IN  /\ SameColor(n)
           /\ done' = [g \in Flusher |-> done[g] \/ \E k \in 1 .. n : flusher_queue[k] = g]
           /\ next' = IF rest = <<>> THEN None ELSE Head(rest)
           /\ flusher_queue' = rest \o flusher_overflow
  /\ flush_color' = work_next_color(flush_color)
  /\ flusher_overflow' = <<>>
  /\ color' = [g \in Flusher |-> IF In(flusher_overflow, g) THEN work_color ELSE color[g]]
  /\ IF flusher_overflow # <<>>
     THEN work_color' = nc /\ StartPrep(f, -1, nc, "hand_on", "hand_on")
     ELSE /\ fpc' = [fpc EXCEPT ![f] = "hand_on"]
          /\ UNCHANGED <<work_color, prep, nr_pwqs_to_flush>>
  /\ UNCHANGED <<mutex, first_flusher, pwq_work_color, pwq_flush_color, workVars, nr_drainers, owed>>

(* list_del_init(): an entry that is linked leaves its list.               *)
Without(s, g) ==
  IF In(s, g)
  THEN LET k == CHOOSE k \in 1 .. Len(s) : s[k] = g
       IN  SubSeq(s, 1, k - 1) \o SubSeq(s, k + 1, Len(s))
  ELSE s

(* Wrong: the role is handed on before it is set, or no pwq is armed.      *)
HandOnUnset(f) ==
  /\ fpc[f] = "hand_on"
  /\ IF flusher_queue = <<>>
     THEN /\ fpc' = [fpc EXCEPT ![f] = "unlock"]
          /\ UNCHANGED <<flusher_queue, prep, nr_pwqs_to_flush>>
     ELSE /\ flusher_queue' = Without(flusher_queue, next)
          /\ StartPrep(f, flush_color, -1, "unlock", "again")
  /\ UNCHANGED <<mutex, work_color, flush_color, first_flusher, flusher_overflow, pwq_work_color,
                 pwq_flush_color, color, done, next, workVars, nr_drainers, owed>>
HandOnUnarmed(f) ==
  /\ fpc[f] = "hand_on"
  /\ fpc' = [fpc EXCEPT ![f] = "unlock"]
  /\ IF flusher_queue = <<>>
     THEN UNCHANGED <<flusher_queue, first_flusher>>
     ELSE /\ flusher_queue' = Without(flusher_queue, next)
          /\ first_flusher' = next
  /\ UNCHANGED <<mutex, work_color, flush_color, flusher_overflow, pwqVars, color, done, next,
                 prep, workVars, nr_drainers, owed>>

(* Its second half: next becomes the first flusher, for the next colour.   *)
HandOn(f) ==
  /\ fpc[f] = "hand_on"
  /\ IF flusher_queue = <<>>
     THEN /\ fpc' = [fpc EXCEPT ![f] = "unlock"]
          /\ UNCHANGED <<flusher_queue, first_flusher, prep, nr_pwqs_to_flush>>
     ELSE /\ flusher_queue' = Without(flusher_queue, next)
          /\ first_flusher' = next
          /\ StartPrep(f, flush_color, -1, "unlock", "again")
  /\ UNCHANGED <<mutex, work_color, flush_color, flusher_overflow, pwq_work_color,
                 pwq_flush_color, color, done, next, workVars, nr_drainers, owed>>

(* That colour was done already: repeat cascading.                         *)
Again(f) ==
  /\ fpc[f] = "again"
  /\ first_flusher' = None
  /\ fpc' = [fpc EXCEPT ![f] = "complete"]
  /\ UNCHANGED <<mutex, work_color, flush_color, flusher_queue, flusher_overflow, pwqVars, color,
                 done, next, prep, workVars, nr_drainers, owed>>

Unlock(f) ==
  /\ fpc[f] = "unlock"
  /\ mutex' = None
  /\ Leave(f)
  /\ UNCHANGED <<wqVars, pwqVars, color, done, next, prep, workVars, nr_drainers, owed>>
-------------------------------------------------------------------------------
(* Calls of flush_workqueue() and drain_workqueue().  A drainer flushes    *)
(* until it sees, under the mutex, all pwqs empty.                         *)
Call(f) ==
  /\ fpc[f] = "idle"
  /\ f \in Drainers => mutex = None
  /\ nr_drainers' = nr_drainers + (IF f \in Drainers THEN 1 ELSE 0)
  /\ fpc' = [fpc EXCEPT ![f] = "flush"]
  /\ UNCHANGED <<mutex, wqVars, pwqVars, color, done, next, prep, workVars, owed>>

DrainCheck(f) ==
  /\ fpc[f] = "drain_check" /\ mutex = None
  /\ IF InFlight = {}
     THEN nr_drainers' = nr_drainers - 1 /\ fpc' = [fpc EXCEPT ![f] = "idle"]
     ELSE fpc' = [fpc EXCEPT ![f] = "flush"] /\ UNCHANGED nr_drainers
  /\ UNCHANGED <<mutex, wqVars, pwqVars, color, done, next, prep, workVars, owed>>
-------------------------------------------------------------------------------
WorkStep(x) == (\E q \in Pwq : Queue(x, q)) \/ Execute(x) \/ Return(x)

FlusherStep(f) ==
  \/ Start(f) \/ (\E q \in Pwq : PrepPwq(f, q)) \/ PrepEnd(f) \/ Nothing(f) \/ UnlockWait(f)
  \/ WakeUp(f) \/ Relock(f) \/ CompleteColor(f) \/ HandOn(f) \/ Again(f) \/ Unlock(f)
  \/ DrainCheck(f)

Next == \/ \E x \in Work : (\E chained \in BOOLEAN : QueueWork(x, chained)) \/ WorkStep(x)
        \/ \E f \in Flusher : Call(f) \/ FlusherStep(f)

Spec == Init /\ [][Next]_vars

(* Works are executed and return, and a thread that wants wq->mutex gets   *)
(* it in the end.                                                          *)
FairSpec == /\ Spec
            /\ \A x \in Work : SF_vars(WorkStep(x))
            /\ \A f \in Flusher : SF_vars(FlusherStep(f))
-------------------------------------------------------------------------------
(* Properties                                                              *)

(* Every field holds a value of its type.                                  *)
PrepGoto == {"none", "unlock_wait", "nothing", "hand_on", "unlock", "again"}
TypeOK ==
  /\ mutex \in Flusher \cup {None} /\ first_flusher \in Flusher \cup {None}
  /\ work_color \in Color /\ flush_color \in Color
  /\ flusher_queue \in Seq(Flusher) /\ flusher_overflow \in Seq(Flusher)
  /\ nr_pwqs_to_flush \in Nat /\ nr_drainers \in Nat
  /\ pwq_work_color \in [Pwq -> Color] /\ pwq_flush_color \in [Pwq -> Color \cup {-1}]
  /\ color \in [Flusher -> Color \cup {-1}] /\ done \in [Flusher -> BOOLEAN]
  /\ next \in Flusher \cup {None}
  /\ prep \in [flush : Color \cup {-1}, work : Color \cup {-1}, todo : SUBSET Pwq,
               wait : BOOLEAN, yes : PrepGoto, no : PrepGoto]
  /\ fpc \in [Flusher -> {"idle", "flush", "prep", "nothing", "unlock_wait", "wait", "relock",
                          "complete", "hand_on", "again", "unlock", "drain_check"}]
  /\ stage \in [Work -> {"idle", "queueing", "queued", "running", "dropped", "dropped_chained"}]
  /\ pwq \in [Work -> Pwq \cup {None}] /\ wcolor \in [Work -> Color \cup {-1}]
  /\ owed \in [Flusher -> SUBSET Work]

(* A flush is completed only when every work that was in flight when it    *)
(* took the mutex has returned, whichever queue it waited in and whoever   *)
(* completed it.                                                           *)
FlushedAll == \A f \in Flusher : done[f] => owed[f] = {}

(* While a pwq or flush_workqueue_prep_pwqs() may still complete           *)
(* first_flusher->done, first_flusher is a flusher that has not gone on:   *)
(* a worker never touches the stack frame of a flush that has returned.    *)
FirstFlusherWaits ==
  (prep.flush >= 0 \/ \E q \in Pwq : pwq_flush_color[q] # -1)
    => /\ first_flusher # None
       /\ fpc[first_flusher] \in {"prep", "unlock_wait", "wait"}
       /\ ~done[first_flusher]

(* The count is of the pwqs that are still to finish the colour, and of    *)
(* the guard of flush_workqueue_prep_pwqs(), so it is zero exactly once.   *)
CountExact ==
  nr_pwqs_to_flush = Cardinality({q \in Pwq : pwq_flush_color[q] # -1})
                       + (IF prep.flush >= 0 THEN 1 ELSE 0)

(* The colours between flush_color and work_color are closed; each of them *)
(* has a flusher that waits for it, no work in flight has another colour   *)
(* than these and work_color, and a flush overflows only while no colour   *)
(* is left (the WARN_ON_ONCEs of flush_workqueue()).                       *)
Dist(c) == (c - flush_color) % NrColors
ColorsClosed ==
  mutex = None =>
    /\ \A q \in Pwq : pwq_work_color[q] = work_color
    /\ {c \in Color : Dist(c) < Dist(work_color)}
         = {color[f] : f \in {f \in Flusher : f = first_flusher \/ In(flusher_queue, f)}}
    /\ \A x \in InFlight : Dist(wcolor[x]) <= Dist(work_color)
    /\ flusher_overflow # <<>> => work_next_color(work_color) = flush_color

(* The counts of the colours agree with the works in flight and with the   *)
(* flushers, and no work is queued in a closed colour.                     *)
ColorsExact == TypeOK /\ CountExact /\ ColorsClosed

(* Every flush and every drain returns, although works keep being queued   *)
(* and other flushes keep being started.                                   *)
FlushReturns == \A f \in Flusher : fpc[f] # "idle" ~> fpc[f] = "idle"

(* "if draining, only works from the same workqueue are allowed": they are *)
(* not dropped.                                                            *)
ChainedAllowed == \A x \in Work : stage[x] # "dropped_chained"
=============================================================================
