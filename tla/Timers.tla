------------------------------- MODULE Timers -------------------------------
(***************************************************************************)
(* What a timer queue promises its users: a set of armed timers, one       *)
(* handler running at a time, and calls that say whether the timer they    *)
(* are about was armed.  del_timer_sync() returns only when the handler of *)
(* its timer is not running.                                               *)
(***************************************************************************)
CONSTANTS Timer, Caller, None

VARIABLES armed,     \* the armed timers
          running,   \* the timer whose handler runs, or None
          moving,    \* who moves which timer in a mod_timer(): at most one at a time
          answer     \* [Caller -> which timer a call is about, and what it is to return]

vars == <<armed, running, moving, answer>>

Still == [by |-> None, timer |-> None]
Silent == [timer |-> None, says |-> "none"]

Init == armed = {} /\ running = None /\ moving = Still /\ answer = [c \in Caller |-> Silent]

Say(c, t, a) == answer[c] = Silent /\ answer' = [answer EXCEPT ![c] = [timer |-> t, says |-> a]]
Armed(t) == IF t \in armed THEN "armed" ELSE "idle"

(* mod_timer(), which answers the caller that moves the timer.             *)
Move(c, t) == /\ moving = Still /\ answer[c] = Silent
              /\ moving' = [by |-> c, timer |-> t] /\ UNCHANGED <<armed, running, answer>>
Arm(c) == /\ moving.by = c /\ Say(c, moving.timer, Armed(moving.timer))
          /\ armed' = armed \cup {moving.timer} /\ moving' = Still /\ UNCHANGED running

Disarm(c, t) == Say(c, t, Armed(t)) /\ armed' = armed \ {t} /\ UNCHANGED <<running, moving>>
Unarmed(c, t) == t \notin armed /\ Say(c, t, "idle") /\ UNCHANGED <<armed, running, moving>>

(* The one weakness: a timer that is only being moved may be missed.       *)
Miss(c) == moving # Still /\ Say(c, moving.timer, "idle") /\ UNCHANGED <<armed, running, moving>>

DisarmSync(c, t) == /\ running # t /\ Say(c, t, IF t \in armed THEN "stopped" ELSE "quiet")
                    /\ armed' = armed \ {t} /\ UNCHANGED <<running, moving>>
Return(c) == answer[c] # Silent /\ answer' = [answer EXCEPT ![c] = Silent]
             /\ UNCHANGED <<armed, running, moving>>

(* A handler ends, and the next one may begin in the same step.            *)
Handle == /\ \/ running' = None /\ UNCHANGED armed
             \/ \E t \in armed : running' = t /\ armed' = armed \ {t}
          /\ UNCHANGED <<moving, answer>>

Next == \/ Handle
        \/ \E c \in Caller : Arm(c) \/ Miss(c) \/ Return(c)
        \/ \E c \in Caller, t \in Timer : Move(c, t) \/ Disarm(c, t) \/ Unarmed(c, t) \/ DisarmSync(c, t)

Spec == Init /\ [][Next]_vars
=============================================================================
