------------------------------ MODULE Lockref ------------------------------
(***************************************************************************)
(* struct lockref of lockref.c: a count and the mutex that guards it, for  *)
(* an object that is found in some table.  A thread that has a reference   *)
(* may get another; one that has none uses util_lockref_get_not_dead().    *)
(* The last reference is put with the lock held, and its owner then marks  *)
(* the object dead and unlocks.                                            *)
(***************************************************************************)
EXTENDS Integers, FiniteSets

CONSTANTS User, Nobody,   \* Nobody is no thread
          Reference       \* the references there can be at a time

VARIABLES
  count,   \* lockref->count
  locker,  \* the threads that hold lockref->lock between two calls: at most one
  holder,  \* [Reference -> User \cup {Nobody}] the thread that has the reference
  lpc      \* [User -> "idle", "last", "dead"]: in the last put

vars == <<count, locker, holder, lpc>>

Dead == -128

(* util_lockref_init(1), by any one of the threads.                        *)
Init == LET first == CHOOSE r \in Reference : TRUE
            creator == CHOOSE u \in User : TRUE IN
  /\ count = 1 /\ locker = {} /\ lpc = [u \in User |-> "idle"]
  /\ holder = [r \in Reference |-> IF r = first THEN creator ELSE Nobody]

RefsOf(u) == {r \in Reference : holder[r] = u}
Gain(u) == \E r \in RefsOf(Nobody) : holder' = [holder EXCEPT ![r] = u]
Lose(u) == \E r \in RefsOf(u) : holder' = [holder EXCEPT ![r] = Nobody]
Goto(u, l) == lpc' = [lpc EXCEPT ![u] = l]
Idle(u) == lpc[u] = "idle" /\ locker = {}

Get(u) == /\ Idle(u) /\ RefsOf(u) # {}
          /\ count' = count + 1 /\ Gain(u) /\ UNCHANGED <<locker, lpc>>

GetNotDead(u) == /\ Idle(u) /\ count >= 0
                 /\ count' = count + 1 /\ Gain(u) /\ UNCHANGED <<locker, lpc>>

(* util_lockref_put_not_zero(): 0, and nothing done, at the last one.      *)
PutNotZero(u) == /\ Idle(u) /\ count > 1
                 /\ count' = count - 1 /\ Lose(u) /\ UNCHANGED <<locker, lpc>>

(* util_lockref_put_or_lock() does the same until the last one, where it   *)
(* returns 0 with the lock.                                                *)
PutOrLock(u) ==
  /\ Idle(u) /\ RefsOf(u) # {}
  /\ \/ PutNotZero(u)
     \/ count <= 1 /\ locker' = {u} /\ Goto(u, "last") /\ UNCHANGED <<count, holder>>

(* util_lockref_mark_dead(), and the owner's unlock.                       *)
MarkDead(u) == /\ lpc[u] = "last" /\ count' = Dead /\ Goto(u, "dead")
               /\ UNCHANGED <<locker, holder>>
Unlock(u) == /\ lpc[u] = "dead" /\ locker' = {} /\ Goto(u, "idle")
             /\ Lose(u) /\ UNCHANGED count

Next == \E u \in User : \/ Get(u) \/ GetNotDead(u) \/ PutNotZero(u) \/ PutOrLock(u)
                        \/ MarkDead(u) \/ Unlock(u)
Spec == Init /\ [][Next]_vars
-------------------------------------------------------------------------------
(* Properties                                                              *)

(* The count is the number of references, and when the object is dead     *)
(* nobody but the thread that put the last one has any.                    *)
CountIsReferences ==
  /\ count = Dead \/ count = Cardinality({r \in Reference : holder[r] # Nobody})
  /\ count = Dead => \A u \in User : Cardinality(RefsOf(u)) = IF u \in locker THEN 1 ELSE 0
=============================================================================
