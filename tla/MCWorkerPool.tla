---------------------------- MODULE MCWorkerPool ----------------------------
(* Small pools: two works on two pwqs, and one thread that flushes.        *)
EXTENDS WorkerPool, TLC
CONSTANTS w1, w2, w3, a, b, c1, q1, q2

Workers3 == {w1, w2, w3}
Two == {a, b}
Caller1 == {c1}
TwoPwq == {q1, q2}
Mixed == q1 :> 2 @@ q2 :> 1
SymWorkers == Permutations(Worker)
=============================================================================
