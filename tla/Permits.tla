------------------------------- MODULE Permits -------------------------------
(***************************************************************************)
(* What a completion promises: complete() gives one permit, complete_all() *)
(* gives permits without end, every wait that succeeds uses one up, nobody *)
(* is blocked for want of a permit that is there, and a timed wait gives   *)
(* up only if there is none.                                               *)
(***************************************************************************)
EXTENDS Naturals

CONSTANTS Thread,
          Endless     \* the number that stands for permits without end

VARIABLES permits,    \* 0 .. Endless
          blocked     \* the threads in a wait that has not returned

vars == <<permits, blocked>>

Init == permits = 0 /\ blocked = {}

Post == permits' = (IF permits = Endless THEN Endless ELSE permits + 1) /\ UNCHANGED blocked

PostAll == permits' = Endless /\ UNCHANGED blocked

Reset == blocked = {} /\ permits' = 0 /\ UNCHANGED blocked

Block(t) == permits = 0 /\ blocked' = blocked \cup {t} /\ UNCHANGED permits

Pass(t) == /\ permits > 0
           /\ permits' = IF permits = Endless THEN Endless ELSE permits - 1
           /\ blocked' = blocked \ {t}

GiveUp(t) == permits = 0 /\ blocked' = blocked \ {t} /\ UNCHANGED permits

Next == Post \/ PostAll \/ Reset \/ \E t \in Thread : Block(t) \/ Pass(t) \/ GiveUp(t)

Spec == Init /\ [][Next]_vars

(* While permits are left, some blocked thread gets one in the end.        *)
FairSpec == Spec /\ WF_vars(\E t \in blocked : Pass(t))
=============================================================================
