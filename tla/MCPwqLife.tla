----------------------------- MODULE MCPwqLife -----------------------------
(* Two workqueues that share a pool or have one each.                      *)
EXTENDS PwqLife, TLC
CONSTANTS v1, v2, q1, q2, q3, p1, p2, x1, x2, c1, c2
Wqs == {v1, v2}
Wq1 == {v1}
Pwqs == {q1, q2, q3}
Pwq2 == {q1, q2}
Pools == {p1, p2}
Works == {x1, x2}
Work1 == {x1}
Cookies == {c1, c2}
=============================================================================
