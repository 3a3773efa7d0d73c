---------------------------- MODULE MCWorkQueue -----------------------------
(* One or two works, and one or two threads that flush or cancel them.     *)
EXTENDS WorkQueue, TLC
CONSTANTS w1, w2, w3, a, b, c1, c2, q1, q2

Workers2 == {w1, w2}
Workers3 == {w1, w2, w3}
One == {a}
Two == {a, b}
Caller1 == {c1}
Caller2 == {c1, c2}
OnePwq == {q1}
TwoPwq == {q1, q2}
Ordered1 == [q \in {q1} |-> 1]
Twice1 == [q \in {q1} |-> 2]
Ordered2 == [q \in {q1, q2} |-> 1]
FlushOps == {"flush_work"}
CancelOps == {"cancel_sync"}
FlushCancel == {"flush_work", "cancel_sync"}
AllOps == {"flush_work", "flush_delayed_work", "cancel_delayed_work", "cancel_sync"}
Sym == Permutations(Worker) \cup Permutations(Caller)
=============================================================================
