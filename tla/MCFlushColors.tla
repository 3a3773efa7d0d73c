--------------------------- MODULE MCFlushColors ---------------------------
(* Three colours: two flushes at work fill the colour space.               *)
EXTENDS FlushColors, TLC
CONSTANTS x1, x2, f1, f2, f3, f4, q1, q2

Works1 == {x1}
Works2 == {x1, x2}
Flushers2 == {f1, f2}
Flushers3 == {f1, f2, f3}
Flushers4 == {f1, f2, f3, f4}
DrainOne == {f1}
OnePwq == {q1}
TwoPwq == {q1, q2}
Sym == Permutations(Work) \cup Permutations(Pwq) \cup Permutations(Flusher)
=============================================================================
