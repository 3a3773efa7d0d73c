------------------------------ MODULE MCScenes ------------------------------
(***************************************************************************)
(* queue_callers looks at two scenes, each with the actors it needs: a     *)
(* step of a scene is a step of NextQ in which the others do nothing.      *)
(* What is left out is only what clients may choose not to do, an idle     *)
(* timer that need not be early, and workers whose creation fails.         *)
(***************************************************************************)
EXTENDS MCWorkQueue

(* The scenes are an action constraint: the delayed work has been used     *)
(* with one of the workqueues before, and that tells them apart.           *)
(* Callers: a delayed work, one pwq, two workers and two callers.          *)
CallersScene ==
  /\ \A x \in Work : queueing'[x] # q2 /\ dwq'[x] # q2
  /\ Cardinality({w \in Worker : pc'[w] # "none"}) <= 2
(* Collide: one work that nobody delays, two pwqs, three workers that      *)
(* stay, one caller at a time.                                             *)
CollideScene ==
  /\ dwq' = dwq /\ arming' = {} /\ ~timer_cb'
  /\ \A c \in Caller : op'[c] \in FlushCancel \cup {None}
  /\ Cardinality({c \in Caller : op'[c] # None}) <= 1
Scenes == IF \E x \in DelayedWork : dwq[x] = q2 THEN CollideScene ELSE CallersScene
=============================================================================
