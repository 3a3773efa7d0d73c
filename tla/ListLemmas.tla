----------------------------- MODULE ListLemmas -----------------------------
(***************************************************************************)
(* Lists that share no element.  A gives every list head in H a sequence;  *)
(* workqueue.c's heads are the worklist, the scheduled and the             *)
(* delayed_works lists, and its list_move_tail(), list_del_init() and      *)
(* list_add() are the steps below: none of them links an item in two       *)
(* places.                                                                 *)
(***************************************************************************)
EXTENDS Integers, Sequences, SequenceTheorems, TLAPS

(* A part of a sequence is a sequence of the same elements.                *)
LEMMA SubSeqType ==
  ASSUME NEW S, NEW s \in Seq(S), NEW m \in Nat \ {0}, NEW n \in Int, n <= Len(s)
  PROVE  /\ SubSeq(s, m, n) \in Seq(S)
         /\ Len(SubSeq(s, m, n)) = IF m <= n THEN n - m + 1 ELSE 0
         /\ \A i \in 1 .. n - m + 1 : SubSeq(s, m, n)[i] = s[m + i - 1]
<1>1. \A i \in m .. n : s[i] \in S
  BY LenProperties, ElementOfSeq
<1> QED
  BY <1>1, SubSeqProperties

(* No element has two places in the lists that A gives to the heads in H.  *)
Injective(A, H) ==
  \A g, h \in H : \A j \in 1 .. Len(A[g]), k \in 1 .. Len(A[h]) :
    A[g][j] = A[h][k] => g = h /\ j = k
On(A, H, x) == \E h \in H : \E k \in 1 .. Len(A[h]) : A[h][k] = x

(* From A to B, the first n elements of list g move to the end of list h.  *)
Moves(S, H, A, B, g, h, n) ==
  /\ A \in [H -> Seq(S)] /\ B \in [H -> Seq(S)]
  /\ g \in H /\ h \in H /\ g # h /\ n \in 0 .. Len(A[g])
  /\ B[g] = SubSeq(A[g], n + 1, Len(A[g]))
  /\ B[h] = A[h] \o SubSeq(A[g], 1, n)
  /\ \A f \in H \ {g, h} : B[f] = A[f]

(* What is where after such a move.                                        *)
LEMMA MoveElements ==
  ASSUME NEW S, NEW H, NEW A, NEW B, NEW g, NEW h, NEW n,
         Moves(S, H, A, B, g, h, n)
  PROVE  /\ \A f \in H : Len(A[f]) \in Nat /\ Len(B[f]) \in Nat
         /\ Len(B[g]) = Len(A[g]) - n
         /\ \A j \in 1 .. Len(B[g]) : B[g][j] = A[g][j + n]
         /\ Len(B[h]) = Len(A[h]) + n
         /\ \A j \in 1 .. Len(B[h]) :
              B[h][j] = IF j <= Len(A[h]) THEN A[h][j] ELSE A[g][j - Len(A[h])]
<1> USE DEF Moves
<1>1. \A f \in H : Len(A[f]) \in Nat /\ Len(B[f]) \in Nat
  BY LenProperties
<1>2. /\ Len(B[g]) = Len(A[g]) - n
      /\ \A j \in 1 .. Len(B[g]) : B[g][j] = A[g][j + n]
  BY <1>1, SubSeqType
<1>3. /\ Len(B[h]) = Len(A[h]) + n
      /\ \A j \in 1 .. Len(B[h]) :
           B[h][j] = IF j <= Len(A[h]) THEN A[h][j] ELSE A[g][j - Len(A[h])]
  <2> DEFINE p == SubSeq(A[g], 1, n)
  <2>1. p \in Seq(S) /\ Len(p) = n /\ \A i \in 1 .. n : p[i] = A[g][i]
    BY <1>1, SubSeqType
  <2>2. B[h] = A[h] \o p
    OBVIOUS
  <2> HIDE DEF p
  <2>3. /\ Len(A[h] \o p) = Len(A[h]) + Len(p)
        /\ \A i \in 1 .. Len(A[h]) + Len(p) :
             (A[h] \o p)[i] = IF i <= Len(A[h]) THEN A[h][i] ELSE p[i - Len(A[h])]
    <3> DEFINE a == A[h]
    <3>1. a \in Seq(S)
      OBVIOUS
    <3> HIDE DEF a
    <3>2. /\ Len(a \o p) = Len(a) + Len(p)
          /\ \A i \in 1 .. Len(a) + Len(p) :
               (a \o p)[i] = IF i <= Len(a) THEN a[i] ELSE p[i - Len(a)]
      BY <2>1, <3>1, ConcatProperties
    <3> QED BY <3>2 DEF a
  <2> QED BY <1>1, <2>1, <2>2, <2>3
<1> QED
  BY <1>1, <1>2, <1>3

(* Moving the first n elements of one list to the end of another.          *)
LEMMA MovePrefix ==
  ASSUME NEW S, NEW H, NEW A, NEW B, NEW g, NEW h, NEW n,
         Moves(S, H, A, B, g, h, n), Injective(A, H)
  PROVE  Injective(B, H) /\ \A x : On(B, H, x) <=> On(A, H, x)
<1> USE DEF Moves
<1> DEFINE FromH(f, j) == IF f = h /\ j > Len(A[h]) THEN g ELSE f
           FromJ(f, j) == IF f = g THEN j + n
                          ELSE IF f = h /\ j > Len(A[h]) THEN j - Len(A[h]) ELSE j
<1>1. \A f \in H : Len(A[f]) \in Nat /\ Len(B[f]) \in Nat
  BY LenProperties
<1>2. /\ Len(B[g]) = Len(A[g]) - n
      /\ \A j \in 1 .. Len(B[g]) : B[g][j] = A[g][j + n]
  BY MoveElements
<1>3. /\ Len(B[h]) = Len(A[h]) + n
      /\ \A j \in 1 .. Len(B[h]) :
           B[h][j] = IF j <= Len(A[h]) THEN A[h][j] ELSE A[g][j - Len(A[h])]
  BY MoveElements
<1>4. \A f \in H : \A j \in 1 .. Len(B[f]) :
        /\ FromH(f, j) \in H /\ FromJ(f, j) \in 1 .. Len(A[FromH(f, j)])
        /\ B[f][j] = A[FromH(f, j)][FromJ(f, j)]
  <2> TAKE f \in H
  <2> TAKE j \in 1 .. Len(B[f])
  <2>1. CASE f = g
    BY <1>1, <1>2, <2>1
  <2>2. CASE f = h
    BY <1>1, <1>3, <2>2
  <2>3. CASE f \notin {g, h}
    BY <1>1, <2>3
  <2> QED BY <2>1, <2>2, <2>3
<1>5. \A f1, f2 \in H : \A j1 \in 1 .. Len(B[f1]), j2 \in 1 .. Len(B[f2]) :
        FromH(f1, j1) = FromH(f2, j2) /\ FromJ(f1, j1) = FromJ(f2, j2) => f1 = f2 /\ j1 = j2
  BY <1>1, <1>2, <1>3
<1>6. Injective(B, H)
  <2> HIDE DEF FromH, FromJ
  <2> SUFFICES ASSUME NEW f1 \in H, NEW f2 \in H,
                      NEW j1 \in 1 .. Len(B[f1]), NEW j2 \in 1 .. Len(B[f2]),
                      B[f1][j1] = B[f2][j2]
               PROVE  f1 = f2 /\ j1 = j2
    BY DEF Injective
  <2> DEFINE g1 == FromH(f1, j1)
             g2 == FromH(f2, j2)
             i1 == FromJ(f1, j1)
             i2 == FromJ(f2, j2)
  <2>1. /\ g1 \in H /\ g2 \in H /\ i1 \in 1 .. Len(A[g1]) /\ i2 \in 1 .. Len(A[g2])
        /\ A[g1][i1] = A[g2][i2]
    BY <1>4
  <2>2. g1 = g2 /\ i1 = i2
    <3> HIDE DEF g1, g2, i1, i2
    <3> QED BY <2>1 DEF Injective
  <2> QED BY <1>5, <2>2
<1>7. ASSUME NEW x, On(B, H, x) PROVE On(A, H, x)
  <2> HIDE DEF FromH, FromJ
  <2> QED BY <1>4, <1>7 DEF On
<1>8. ASSUME NEW x, On(A, H, x) PROVE On(B, H, x)
  <2>1. PICK f \in H : \E j \in 1 .. Len(A[f]) : A[f][j] = x
    BY <1>8 DEF On
  <2>2. PICK j \in 1 .. Len(A[f]) : A[f][j] = x
    BY <2>1
  <2>3. CASE f = g /\ j > n
    <3>1. j - n \in 1 .. Len(B[g]) /\ B[g][j - n] = x
      BY <1>1, <1>2, <2>2, <2>3
    <3> QED BY <3>1 DEF On
  <2>4. CASE f = g /\ j <= n
    <3>1. j + Len(A[h]) \in 1 .. Len(B[h]) /\ B[h][j + Len(A[h])] = x
      BY <1>1, <1>3, <2>2, <2>4
    <3> QED BY <3>1 DEF On
  <2>5. CASE f = h
    <3>1. j \in 1 .. Len(B[h]) /\ B[h][j] = x
      BY <1>1, <1>3, <2>2, <2>5
    <3> QED BY <3>1 DEF On
  <2>6. CASE f \notin {g, h}
    BY <2>2, <2>6 DEF On
  <2> QED BY <1>1, <2>2, <2>3, <2>4, <2>5, <2>6
<1> QED
  BY <1>6, <1>7, <1>8

(* From A to B, list g loses its first element.                            *)
Drops(S, H, A, B, g) ==
  /\ A \in [H -> Seq(S)] /\ B \in [H -> Seq(S)]
  /\ g \in H /\ A[g] # <<>>
  /\ B[g] = SubSeq(A[g], 2, Len(A[g]))
  /\ \A f \in H \ {g} : B[f] = A[f]

(* What is where after that.                                               *)
LEMMA DropElements ==
  ASSUME NEW S, NEW H, NEW A, NEW B, NEW g,
         Drops(S, H, A, B, g)
  PROVE  /\ \A f \in H : Len(A[f]) \in Nat /\ Len(B[f]) \in Nat
         /\ Len(A[g]) > 0 /\ Len(B[g]) = Len(A[g]) - 1
         /\ \A j \in 1 .. Len(B[g]) : B[g][j] = A[g][j + 1]
<1> USE DEF Drops
<1>1. \A f \in H : Len(A[f]) \in Nat /\ Len(B[f]) \in Nat
  BY LenProperties
<1>2. Len(A[g]) > 0
  BY EmptySeq
<1>3. /\ Len(B[g]) = Len(A[g]) - 1
      /\ \A j \in 1 .. Len(B[g]) : B[g][j] = A[g][j + 1]
  <2> DEFINE a == A[g]
             p == SubSeq(a, 2, Len(a))
  <2>1. a \in Seq(S) /\ Len(a) \in Nat \ {0}
    BY <1>1, <1>2
  <2> HIDE DEF a
  <2>2. Len(p) = Len(a) - 1 /\ \A i \in 1 .. Len(a) - 2 + 1 : p[i] = a[2 + i - 1]
    <3> DEFINE n == Len(a)
    <3>1. n \in Int /\ n <= Len(a) /\ n >= 1
      BY <2>1
    <3> HIDE DEF n
    <3>2. /\ Len(SubSeq(a, 2, n)) = IF 2 <= n THEN n - 2 + 1 ELSE 0
          /\ \A i \in 1 .. n - 2 + 1 : SubSeq(a, 2, n)[i] = a[2 + i - 1]
      BY <2>1, <3>1, SubSeqType
    <3>3. Len(SubSeq(a, 2, n)) = n - 1
      BY <3>1, <3>2
    <3> QED BY <3>2, <3>3 DEF n
  <2>3. B[g] = p
    BY DEF a
  <2>4. \A i \in 1 .. Len(a) - 1 : p[i] = a[i + 1]
    BY <2>1, <2>2
  <2> HIDE DEF p
  <2> QED BY <2>1, <2>2, <2>3, <2>4 DEF a
<1> QED
  BY <1>1, <1>2, <1>3

(* Dropping the first element of one list.                                 *)
LEMMA DropFirst ==
  ASSUME NEW S, NEW H, NEW A, NEW B, NEW g,
         Drops(S, H, A, B, g), Injective(A, H)
  PROVE  /\ Injective(B, H) /\ \A x : On(B, H, x) <=> On(A, H, x) /\ x # A[g][1]
         /\ On(A, H, A[g][1])
<1>1. /\ Len(B[g]) = Len(A[g]) - 1
      /\ \A j \in 1 .. Len(B[g]) : B[g][j] = A[g][j + 1]
  BY DropElements
<1> USE DEF Drops
<1>2. \A f \in H : Len(A[f]) \in Nat /\ Len(B[f]) \in Nat
  BY LenProperties
<1>3. Len(A[g]) > 0
  BY EmptySeq
<1>4. \A f \in H : \A j \in 1 .. Len(B[f]) :
        LET i == IF f = g THEN j + 1 ELSE j
        IN  i \in 1 .. Len(A[f]) /\ B[f][j] = A[f][i]
  BY <1>2, <1>1
<1>5. Injective(B, H)
  <2> SUFFICES ASSUME NEW f1 \in H, NEW f2 \in H,
                      NEW j1 \in 1 .. Len(B[f1]), NEW j2 \in 1 .. Len(B[f2]),
                      B[f1][j1] = B[f2][j2]
               PROVE  f1 = f2 /\ j1 = j2
    BY DEF Injective
  <2> DEFINE i1 == IF f1 = g THEN j1 + 1 ELSE j1
             i2 == IF f2 = g THEN j2 + 1 ELSE j2
  <2>1. i1 \in 1 .. Len(A[f1]) /\ i2 \in 1 .. Len(A[f2]) /\ A[f1][i1] = A[f2][i2]
    BY <1>4
  <2>2. f1 = f2 /\ i1 = i2
    <3> HIDE DEF i1, i2
    <3> QED BY <2>1 DEF Injective
  <2> QED BY <1>2, <2>2
<1>6. ASSUME NEW x, On(B, H, x) PROVE On(A, H, x) /\ x # A[g][1]
  <2>1. PICK f \in H : \E j \in 1 .. Len(B[f]) : B[f][j] = x
    BY <1>6 DEF On
  <2>2. PICK j \in 1 .. Len(B[f]) : B[f][j] = x
    BY <2>1
  <2> DEFINE i == IF f = g THEN j + 1 ELSE j
  <2>3. i \in 1 .. Len(A[f]) /\ A[f][i] = x /\ (f = g => i > 1)
    BY <1>2, <1>4, <2>2
  <2>4. On(A, H, x)
    BY <2>3 DEF On
  <2>5. 1 \in 1 .. Len(A[g])
    BY <1>2, <1>3
  <2> HIDE DEF i
  <2>6. x # A[g][1]
    BY <2>3, <2>5 DEF Injective
  <2> QED BY <2>4, <2>6
<1>7. ASSUME NEW x, On(A, H, x), x # A[g][1] PROVE On(B, H, x)
  <2>1. PICK f \in H : \E j \in 1 .. Len(A[f]) : A[f][j] = x
    BY <1>7 DEF On
  <2>2. PICK j \in 1 .. Len(A[f]) : A[f][j] = x
    BY <2>1
  <2>3. CASE f = g
    <3>1. j - 1 \in 1 .. Len(B[g]) /\ B[g][j - 1] = x
      BY <1>2, <1>1, <1>7, <2>2, <2>3
    <3> QED BY <3>1 DEF On
  <2>4. CASE f # g
    BY <2>2, <2>4 DEF On
  <2> QED BY <2>3, <2>4
<1>8. On(A, H, A[g][1])
  BY <1>2, <1>3 DEF On
<1> QED
  BY <1>5, <1>6, <1>7, <1>8

(* From A to B, list g gets e behind its first k elements.                 *)
Inserts(S, H, A, B, g, k, e) ==
  /\ A \in [H -> Seq(S)] /\ B \in [H -> Seq(S)]
  /\ g \in H /\ k \in 0 .. Len(A[g])
  /\ Len(B[g]) = Len(A[g]) + 1
  /\ \A j \in 1 .. Len(B[g]) :
       B[g][j] = IF j <= k THEN A[g][j] ELSE IF j = k + 1 THEN e ELSE A[g][j - 1]
  /\ \A f \in H \ {g} : B[f] = A[f]

(* Inserting an element that is on no list.                                *)
LEMMA InsertNew ==
  ASSUME NEW S, NEW H, NEW A, NEW B, NEW g, NEW k, NEW e,
         Inserts(S, H, A, B, g, k, e), ~On(A, H, e), Injective(A, H)
  PROVE  Injective(B, H) /\ \A x : On(B, H, x) <=> On(A, H, x) \/ x = e
<1> DEFINE Old(f, j) == IF f = g /\ j > k THEN j - 1 ELSE j
<1>1. g \in H /\ k \in Nat /\ \A f \in H : Len(A[f]) \in Nat /\ Len(B[f]) \in Nat
  BY LenProperties DEF Inserts
<1>2. \A f \in H : \A j \in 1 .. Len(B[f]) :
        \/ Old(f, j) \in 1 .. Len(A[f]) /\ B[f][j] = A[f][Old(f, j)] /\ ~(f = g /\ j = k + 1)
        \/ f = g /\ j = k + 1 /\ B[f][j] = e
  <2> TAKE f \in H
  <2> TAKE j \in 1 .. Len(B[f])
  <2>1. CASE f = g
    BY <1>1, <2>1 DEF Inserts
  <2>2. CASE f # g
    BY <1>1, <2>2 DEF Inserts
  <2> QED BY <2>1, <2>2
<1>3. \A f \in H : \A j \in 1 .. Len(A[f]) : A[f][j] # e
  BY DEF On
<1>4. \A f \in H : \A i, j \in 1 .. Len(B[f]) :
        Old(f, i) = Old(f, j) /\ ~(f = g /\ i = k + 1) /\ ~(f = g /\ j = k + 1) => i = j
  BY <1>1
<1>5. Injective(B, H)
  <2> SUFFICES ASSUME NEW f1 \in H, NEW f2 \in H,
                      NEW j1 \in 1 .. Len(B[f1]), NEW j2 \in 1 .. Len(B[f2]),
                      B[f1][j1] = B[f2][j2]
               PROVE  f1 = f2 /\ j1 = j2
    BY DEF Injective
  <2> DEFINE i1 == Old(f1, j1)
             i2 == Old(f2, j2)
  <2>1. CASE f1 = g /\ j1 = k + 1
    <3>1. B[f1][j1] = e
      BY <1>1, <2>1 DEF Inserts
    <3> HIDE DEF Old
    <3> QED BY <1>2, <1>3, <2>1, <3>1
  <2>2. CASE f2 = g /\ j2 = k + 1
    <3>1. B[f2][j2] = e
      BY <1>1, <2>2 DEF Inserts
    <3> HIDE DEF Old
    <3> QED BY <1>2, <1>3, <2>2, <3>1
  <2>3. CASE ~(f1 = g /\ j1 = k + 1) /\ ~(f2 = g /\ j2 = k + 1)
    <3>1. i1 \in 1 .. Len(A[f1]) /\ i2 \in 1 .. Len(A[f2]) /\ A[f1][i1] = A[f2][i2]
      <4> HIDE DEF Old
      <4> QED BY <1>2, <2>3
    <3>2. f1 = f2 /\ i1 = i2
      <4> HIDE DEF i1, i2
      <4> QED BY <3>1 DEF Injective
    <3> HIDE DEF Old
    <3> QED BY <1>4, <2>3, <3>2
  <2> QED BY <2>1, <2>2, <2>3
<1>6. ASSUME NEW x, On(A, H, x) PROVE On(B, H, x)
  <2>1. PICK f \in H : \E j \in 1 .. Len(A[f]) : A[f][j] = x
    BY <1>6 DEF On
  <2>2. PICK j \in 1 .. Len(A[f]) : A[f][j] = x
    BY <2>1
  <2>3. CASE f = g
    <3> DEFINE i == IF j <= k THEN j ELSE j + 1
    <3>1. i \in 1 .. Len(B[g]) /\ B[g][i] = x
      BY <1>1, <2>2, <2>3 DEF Inserts
    <3> QED BY <1>1, <3>1 DEF On
  <2>4. CASE f # g
    BY <2>2, <2>4 DEF On, Inserts
  <2> QED BY <2>3, <2>4
<1>7. On(B, H, e)
  <2>1. k + 1 \in 1 .. Len(B[g]) /\ B[g][k + 1] = e
    BY <1>1 DEF Inserts
  <2> QED BY <1>1, <2>1 DEF On
<1>8. ASSUME NEW x, On(B, H, x) PROVE On(A, H, x) \/ x = e
  <2>1. PICK f \in H : \E j \in 1 .. Len(B[f]) : B[f][j] = x
    BY <1>8 DEF On
  <2>2. PICK j \in 1 .. Len(B[f]) : B[f][j] = x
    BY <2>1
  <2>3. \/ Old(f, j) \in 1 .. Len(A[f]) /\ A[f][Old(f, j)] = x
        \/ x = e
    <3> HIDE DEF Old
    <3> QED BY <1>2, <2>2
  <2> HIDE DEF Old
  <2> QED BY <2>3 DEF On
<1> QED
  BY <1>5, <1>6, <1>7, <1>8

(* From A to B, list g gets e at its end.                                  *)
Appends(S, H, A, B, g, e) ==
  /\ A \in [H -> Seq(S)] /\ B \in [H -> Seq(S)]
  /\ g \in H /\ e \in S
  /\ B[g] = Append(A[g], e)
  /\ \A f \in H \ {g} : B[f] = A[f]

(* An append is an insertion behind the last element.                      *)
LEMMA AppendInserts ==
  ASSUME NEW S, NEW H, NEW A, NEW B, NEW g, NEW e,
         Appends(S, H, A, B, g, e)
  PROVE  Inserts(S, H, A, B, g, Len(A[g]), e)
<1>1. \A f \in H : Len(A[f]) \in Nat /\ Len(B[f]) \in Nat
  BY LenProperties DEF Appends
<1>2. /\ Len(B[g]) = Len(A[g]) + 1
      /\ \A j \in 1 .. Len(A[g]) : B[g][j] = A[g][j]
      /\ B[g][Len(A[g]) + 1] = e
  BY AppendProperties DEF Appends
<1> QED
  BY <1>1, <1>2 DEF Appends, Inserts

(* Appending an element that is on no list.                                *)
LEMMA AppendNew ==
  ASSUME NEW S, NEW H, NEW A, NEW B, NEW g, NEW e,
         Appends(S, H, A, B, g, e), ~On(A, H, e), Injective(A, H)
  PROVE  Injective(B, H) /\ \A x : On(B, H, x) <=> On(A, H, x) \/ x = e
  BY AppendInserts, InsertNew

(* From A to B, list g loses its k-th element.                             *)
Removes(S, H, A, B, g, k) ==
  /\ A \in [H -> Seq(S)] /\ B \in [H -> Seq(S)]
  /\ g \in H /\ k \in 1 .. Len(A[g])
  /\ Len(B[g]) = Len(A[g]) - 1
  /\ \A j \in 1 .. Len(B[g]) : B[g][j] = IF j < k THEN A[g][j] ELSE A[g][j + 1]
  /\ \A f \in H \ {g} : B[f] = A[f]

(* Removing one element of one list.                                       *)
LEMMA RemoveOne ==
  ASSUME NEW S, NEW H, NEW A, NEW B, NEW g, NEW k,
         Removes(S, H, A, B, g, k), Injective(A, H)
  PROVE  /\ Injective(B, H) /\ \A x : On(B, H, x) <=> On(A, H, x) /\ x # A[g][k]
         /\ On(A, H, A[g][k])
<1> DEFINE Old(f, j) == IF f = g /\ j >= k THEN j + 1 ELSE j
<1>1. /\ g \in H /\ k \in 1 .. Len(A[g]) /\ \A f \in H : Len(A[f]) \in Nat /\ Len(B[f]) \in Nat
  BY LenProperties DEF Removes
<1>2. /\ Len(B[g]) = Len(A[g]) - 1
      /\ \A j \in 1 .. Len(B[g]) : B[g][j] = IF j < k THEN A[g][j] ELSE A[g][j + 1]
      /\ \A f \in H \ {g} : B[f] = A[f]
  BY DEF Removes
<1>3. \A f \in H : \A j \in 1 .. Len(B[f]) :
        /\ Old(f, j) \in 1 .. Len(A[f]) /\ B[f][j] = A[f][Old(f, j)]
        /\ ~(f = g /\ Old(f, j) = k)
  <2> TAKE f \in H
  <2> TAKE j \in 1 .. Len(B[f])
  <2>1. CASE f = g
    BY <1>1, <1>2, <2>1
  <2>2. CASE f # g
    BY <1>1, <1>2, <2>2
  <2> QED BY <2>1, <2>2
<1>4. \A f \in H : \A i, j \in 1 .. Len(B[f]) : Old(f, i) = Old(f, j) => i = j
  BY <1>1
<1>5. Injective(B, H)
  <2> SUFFICES ASSUME NEW f1 \in H, NEW f2 \in H,
                      NEW j1 \in 1 .. Len(B[f1]), NEW j2 \in 1 .. Len(B[f2]),
                      B[f1][j1] = B[f2][j2]
               PROVE  f1 = f2 /\ j1 = j2
    BY DEF Injective
  <2> DEFINE i1 == Old(f1, j1)
             i2 == Old(f2, j2)
  <2>1. i1 \in 1 .. Len(A[f1]) /\ i2 \in 1 .. Len(A[f2]) /\ A[f1][i1] = A[f2][i2]
    <3> HIDE DEF Old
    <3> QED BY <1>3
  <2>2. f1 = f2 /\ i1 = i2
    <3> HIDE DEF i1, i2
    <3> QED BY <2>1 DEF Injective
  <2> HIDE DEF Old
  <2> QED BY <1>4, <2>2
<1>6. ASSUME NEW x, On(B, H, x) PROVE On(A, H, x) /\ x # A[g][k]
  <2> HIDE DEF Old
  <2>1. PICK f \in H : \E j \in 1 .. Len(B[f]) : B[f][j] = x
    BY <1>6 DEF On
  <2>2. PICK j \in 1 .. Len(B[f]) : B[f][j] = x
    BY <2>1
  <2>3. PICK i \in 1 .. Len(A[f]) : A[f][i] = x /\ ~(f = g /\ i = k)
    BY <1>3, <2>2
  <2>4. On(A, H, x)
    BY <2>3 DEF On
  <2>5. x # A[g][k]
    BY <1>1, <2>3 DEF Injective
  <2> QED BY <2>4, <2>5
<1>7. ASSUME NEW x, On(A, H, x), x # A[g][k] PROVE On(B, H, x)
  <2>1. PICK f \in H : \E j \in 1 .. Len(A[f]) : A[f][j] = x
    BY <1>7 DEF On
  <2>2. PICK j \in 1 .. Len(A[f]) : A[f][j] = x
    BY <2>1
  <2>3. CASE f = g /\ j < k
    <3>1. j \in 1 .. Len(B[g]) /\ B[g][j] = x
      BY <1>1, <1>2, <2>2, <2>3
    <3> QED BY <1>1, <3>1 DEF On
  <2>4. CASE f = g /\ j > k
    <3>1. j - 1 \in 1 .. Len(B[g]) /\ B[g][j - 1] = x
      BY <1>1, <1>2, <2>2, <2>4
    <3> QED BY <1>1, <3>1 DEF On
  <2>5. CASE f # g
    BY <1>2, <2>2, <2>5 DEF On
  <2> QED BY <1>1, <1>7, <2>2, <2>3, <2>4, <2>5
<1>8. On(A, H, A[g][k])
  BY <1>1 DEF On
<1> QED
  BY <1>5, <1>6, <1>7, <1>8

(* From A to B, the n elements behind the first m of list g move to the    *)
(* end of list h.                                                          *)
Cuts(S, H, A, B, g, h, m, n) ==
  /\ A \in [H -> Seq(S)] /\ B \in [H -> Seq(S)]
  /\ g \in H /\ h \in H /\ g # h /\ m \in Nat /\ n \in Nat /\ m + n <= Len(A[g])
  /\ Len(B[g]) = Len(A[g]) - n
  /\ \A j \in 1 .. Len(B[g]) : B[g][j] = IF j <= m THEN A[g][j] ELSE A[g][j + n]
  /\ Len(B[h]) = Len(A[h]) + n
  /\ \A j \in 1 .. Len(B[h]) :
       B[h][j] = IF j <= Len(A[h]) THEN A[h][j] ELSE A[g][j - Len(A[h]) + m]
  /\ \A f \in H \ {g, h} : B[f] = A[f]

(* Where the element at place j of list f was, and has gone to.            *)
CutFromList(A, g, h, f, j) == IF f = h /\ j > Len(A[h]) THEN g ELSE f
CutFrom(A, g, h, m, n, f, j) ==
  IF f = g THEN IF j <= m THEN j ELSE j + n
  ELSE IF f = h /\ j > Len(A[h]) THEN j - Len(A[h]) + m ELSE j
CutToList(g, h, m, n, f, j) == IF f = g /\ m < j /\ j <= m + n THEN h ELSE f
CutTo(A, g, h, m, n, f, j) ==
  IF f = g THEN IF j <= m THEN j ELSE IF j <= m + n THEN j - m + Len(A[h]) ELSE j - n
  ELSE j

(* Every place of B comes from one of A, and every place of A goes to one. *)
LEMMA CutPlaces ==
  ASSUME NEW S, NEW H, NEW A, NEW B, NEW g, NEW h, NEW m, NEW n,
         Cuts(S, H, A, B, g, h, m, n)
  PROVE  /\ \A f \in H : Len(A[f]) \in Nat /\ Len(B[f]) \in Nat
         /\ \A f \in H : \A j \in 1 .. Len(B[f]) :
              /\ CutFromList(A, g, h, f, j) \in H
              /\ CutFrom(A, g, h, m, n, f, j) \in 1 .. Len(A[CutFromList(A, g, h, f, j)])
              /\ B[f][j] = A[CutFromList(A, g, h, f, j)][CutFrom(A, g, h, m, n, f, j)]
              /\ f = CutToList(g, h, m, n, CutFromList(A, g, h, f, j), CutFrom(A, g, h, m, n, f, j))
              /\ j = CutTo(A, g, h, m, n, CutFromList(A, g, h, f, j), CutFrom(A, g, h, m, n, f, j))
         /\ \A f \in H : \A j \in 1 .. Len(A[f]) :
              /\ CutToList(g, h, m, n, f, j) \in H
              /\ CutTo(A, g, h, m, n, f, j) \in 1 .. Len(B[CutToList(g, h, m, n, f, j)])
              /\ A[f][j] = B[CutToList(g, h, m, n, f, j)][CutTo(A, g, h, m, n, f, j)]
<1>1. \A f \in H : Len(A[f]) \in Nat /\ Len(B[f]) \in Nat
  BY LenProperties DEF Cuts
<1>2. /\ g \in H /\ h \in H /\ g # h /\ m \in Nat /\ n \in Nat /\ m + n <= Len(A[g])
      /\ Len(B[g]) = Len(A[g]) - n /\ Len(B[h]) = Len(A[h]) + n
      /\ Len(A[g]) \in Nat /\ Len(A[h]) \in Nat
  BY <1>1 DEF Cuts
<1>3. \A f \in H \ {g, h} : B[f] = A[f]
  BY DEF Cuts
<1>4. \A j \in 1 .. Len(B[g]) : B[g][j] = IF j <= m THEN A[g][j] ELSE A[g][j + n]
  BY DEF Cuts
<1>5. \A j \in 1 .. Len(B[h]) :
        B[h][j] = IF j <= Len(A[h]) THEN A[h][j] ELSE A[g][j - Len(A[h]) + m]
  BY DEF Cuts
<1>6. ASSUME NEW f \in H, NEW j \in 1 .. Len(B[f])
      PROVE  /\ CutFromList(A, g, h, f, j) \in H
             /\ CutFrom(A, g, h, m, n, f, j) \in 1 .. Len(A[CutFromList(A, g, h, f, j)])
             /\ B[f][j] = A[CutFromList(A, g, h, f, j)][CutFrom(A, g, h, m, n, f, j)]
             /\ f = CutToList(g, h, m, n, CutFromList(A, g, h, f, j), CutFrom(A, g, h, m, n, f, j))
             /\ j = CutTo(A, g, h, m, n, CutFromList(A, g, h, f, j), CutFrom(A, g, h, m, n, f, j))
  <2> SUFFICES ASSUME NEW e, NEW i, e = CutFromList(A, g, h, f, j), i = CutFrom(A, g, h, m, n, f, j)
               PROVE  /\ e \in H /\ i \in 1 .. Len(A[e]) /\ B[f][j] = A[e][i]
                      /\ f = CutToList(g, h, m, n, e, i) /\ j = CutTo(A, g, h, m, n, e, i)
    OBVIOUS
  <2>1. CASE f = g /\ j <= m
    <3>1. e = g /\ i = j /\ j \in 1 .. Len(B[g])
      BY <2>1 DEF CutFromList, CutFrom
    <3>2. i \in 1 .. Len(A[g]) /\ B[g][j] = A[g][i]
      BY <1>2, <1>4, <2>1, <3>1
    <3> QED BY <1>2, <2>1, <3>1, <3>2 DEF CutToList, CutTo
  <2>2. CASE f = g /\ j > m
    <3>1. e = g /\ i = j + n /\ j \in 1 .. Len(B[g]) /\ ~(j <= m)
      BY <1>2, <2>2 DEF CutFromList, CutFrom
    <3>2. i \in 1 .. Len(A[g]) /\ ~(i <= m + n) /\ ~(i <= m) /\ i - n = j
      BY <1>2, <3>1
    <3>3. B[g][j] = A[g][i]
      BY <1>4, <3>1
    <3> QED BY <1>2, <2>2, <3>1, <3>2, <3>3 DEF CutToList, CutTo
  <2>3. CASE f = h /\ j <= Len(A[h])
    <3>1. e = h /\ i = j /\ j \in 1 .. Len(B[h])
      BY <1>2, <2>3 DEF CutFromList, CutFrom
    <3>2. i \in 1 .. Len(A[h]) /\ B[h][j] = A[h][i]
      BY <1>2, <1>5, <2>3, <3>1
    <3> QED BY <1>2, <2>3, <3>1, <3>2 DEF CutToList, CutTo
  <2>4. CASE f = h /\ j > Len(A[h])
    <3>1. e = g /\ i = j - Len(A[h]) + m /\ j \in 1 .. Len(B[h])
      BY <1>2, <2>4 DEF CutFromList, CutFrom
    <3>2. /\ i \in 1 .. Len(A[g]) /\ ~(j <= Len(A[h])) /\ ~(i <= m) /\ i <= m + n
          /\ i - m + Len(A[h]) = j
      <4>1. Len(B[h]) \in Nat /\ j \in Nat /\ j <= Len(B[h])
        BY <1>2, <3>1
      <4>2. j <= Len(A[h]) + n /\ j > Len(A[h])
        BY <1>2, <2>4, <4>1
      <4>3. m \in Nat /\ n \in Nat /\ Len(A[h]) \in Nat /\ m + n <= Len(A[g]) /\ Len(A[g]) \in Nat
        BY <1>2
      <4>4. i \in Int /\ i > m /\ i <= m + n /\ i - m + Len(A[h]) = j
        <5> DEFINE p == Len(A[h])
                   r == j - p + m
        <5>1. r \in Int /\ r > m /\ r <= m + n /\ r - m + p = j
          <6> HIDE DEF p
          <6>1. p \in Nat /\ j > p /\ j <= p + n
            BY <4>2, <4>3 DEF p
          <6> QED BY <4>1, <4>3, <6>1
        <5>2. i = r
          BY <3>1
        <5> HIDE DEF r
        <5> QED BY <5>1, <5>2
      <4> QED BY <4>1, <4>2, <4>3, <4>4
    <3>3. B[h][j] = A[g][i]
      BY <1>5, <3>1, <3>2
    <3>4. CutToList(g, h, m, n, e, i) = h /\ CutTo(A, g, h, m, n, e, i) = i - m + Len(A[h])
      <4>1. i \in Int /\ m < i /\ i <= m + n /\ ~(i <= m)
        BY <1>2, <3>2
      <4> QED BY <3>1, <4>1 DEF CutToList, CutTo
    <3> QED BY <1>2, <2>4, <3>1, <3>2, <3>3, <3>4
  <2>5. CASE f \notin {g, h}
    BY <1>1, <1>3, <2>5 DEF CutFromList, CutFrom, CutToList, CutTo
  <2> QED BY <1>1, <1>2, <2>1, <2>2, <2>3, <2>4, <2>5
<1>7. ASSUME NEW f \in H, NEW j \in 1 .. Len(A[f])
      PROVE  /\ CutToList(g, h, m, n, f, j) \in H
             /\ CutTo(A, g, h, m, n, f, j) \in 1 .. Len(B[CutToList(g, h, m, n, f, j)])
             /\ A[f][j] = B[CutToList(g, h, m, n, f, j)][CutTo(A, g, h, m, n, f, j)]
  <2>1. CASE f = g /\ j <= m
    <3>1. j \in 1 .. Len(B[g]) /\ B[g][j] = A[g][j]
      BY <1>2, <1>4, <2>1
    <3> QED BY <2>1, <3>1, <1>2 DEF CutToList, CutTo
  <2>2. CASE f = g /\ m < j /\ j <= m + n
    <3> DEFINE i == j - m + Len(A[h])
    <3>1. i \in 1 .. Len(B[h]) /\ ~(i <= Len(A[h])) /\ i - Len(A[h]) + m = j
      BY <1>2, <2>2
    <3> HIDE DEF i
    <3>2. B[h][i] = A[g][j]
      BY <1>5, <3>1
    <3> QED BY <1>2, <2>2, <3>1, <3>2 DEF CutToList, CutTo, i
  <2>3. CASE f = g /\ j > m + n
    <3> DEFINE i == j - n
    <3>1. i \in 1 .. Len(B[g]) /\ ~(i <= m) /\ i + n = j
      BY <1>2, <2>3
    <3> HIDE DEF i
    <3>2. B[g][i] = A[g][j]
      BY <1>4, <3>1
    <3> QED BY <1>2, <2>3, <3>1, <3>2 DEF CutToList, CutTo, i
  <2>4. CASE f = h
    <3>1. f # g /\ j \in 1 .. Len(B[h]) /\ j <= Len(A[h])
      BY <1>2, <2>4
    <3>2. B[h][j] = A[h][j]
      BY <1>5, <3>1
    <3> QED BY <1>2, <2>4, <3>1, <3>2 DEF CutToList, CutTo
  <2>5. CASE f \notin {g, h}
    BY <1>3, <2>5 DEF CutToList, CutTo
  <2> QED BY <1>2, <2>1, <2>2, <2>3, <2>4, <2>5
<1> QED
  BY <1>1, <1>6, <1>7

(* Moving a part of one list to the end of another.                        *)
LEMMA CutSlice ==
  ASSUME NEW S, NEW H, NEW A, NEW B, NEW g, NEW h, NEW m, NEW n,
         Cuts(S, H, A, B, g, h, m, n), Injective(A, H)
  PROVE  Injective(B, H) /\ \A x : On(B, H, x) <=> On(A, H, x)
<1> DEFINE L(f, j) == CutFromList(A, g, h, f, j)
           P(f, j) == CutFrom(A, g, h, m, n, f, j)
<1>1. \A f \in H : \A j \in 1 .. Len(B[f]) :
        L(f, j) \in H /\ P(f, j) \in 1 .. Len(A[L(f, j)]) /\ B[f][j] = A[L(f, j)][P(f, j)]
  BY CutPlaces
<1>2. \A f1, f2 \in H : \A j1 \in 1 .. Len(B[f1]), j2 \in 1 .. Len(B[f2]) :
        L(f1, j1) = L(f2, j2) /\ P(f1, j1) = P(f2, j2) => f1 = f2 /\ j1 = j2
  <2>1. \A f \in H : \A j \in 1 .. Len(B[f]) :
          /\ f = CutToList(g, h, m, n, L(f, j), P(f, j))
          /\ j = CutTo(A, g, h, m, n, L(f, j), P(f, j))
    BY CutPlaces
  <2> HIDE DEF L, P
  <2> QED BY <2>1
<1>3. Injective(B, H)
  <2> HIDE DEF L, P
  <2> SUFFICES ASSUME NEW f1 \in H, NEW f2 \in H,
                      NEW j1 \in 1 .. Len(B[f1]), NEW j2 \in 1 .. Len(B[f2]),
                      B[f1][j1] = B[f2][j2]
               PROVE  f1 = f2 /\ j1 = j2
    BY DEF Injective
  <2> DEFINE g1 == L(f1, j1)
             g2 == L(f2, j2)
             i1 == P(f1, j1)
             i2 == P(f2, j2)
  <2>1. /\ g1 \in H /\ g2 \in H /\ i1 \in 1 .. Len(A[g1]) /\ i2 \in 1 .. Len(A[g2])
        /\ A[g1][i1] = A[g2][i2]
    BY <1>1
  <2>2. g1 = g2 /\ i1 = i2
    <3> HIDE DEF g1, g2, i1, i2
    <3> QED BY <2>1 DEF Injective
  <2> QED BY <1>2, <2>2
<1>4. ASSUME NEW x, On(B, H, x) PROVE On(A, H, x)
  <2> HIDE DEF L, P
  <2> QED BY <1>1, <1>4 DEF On
<1>5. ASSUME NEW x, On(A, H, x) PROVE On(B, H, x)
  <2>1. PICK f \in H : \E j \in 1 .. Len(A[f]) : A[f][j] = x
    BY <1>5 DEF On
  <2>2. PICK j \in 1 .. Len(A[f]) : A[f][j] = x
    BY <2>1
  <2>3. PICK e, i : e \in H /\ i \in 1 .. Len(B[e]) /\ A[f][j] = B[e][i]
    <3> PICK e, i : e = CutToList(g, h, m, n, f, j) /\ i = CutTo(A, g, h, m, n, f, j)
      OBVIOUS
    <3>1. e \in H /\ i \in 1 .. Len(B[e]) /\ A[f][j] = B[e][i]
      BY CutPlaces
    <3> QED BY <3>1
  <2> QED BY <2>2, <2>3 DEF On
<1> QED
  BY <1>3, <1>4, <1>5

(* Both older moves are such steps.                                        *)
LEMMA MovesCuts ==
  ASSUME NEW S, NEW H, NEW A, NEW B, NEW g, NEW h, NEW n, Moves(S, H, A, B, g, h, n)
  PROVE  Cuts(S, H, A, B, g, h, 0, n)
<1>1. /\ Len(A[g]) \in Nat /\ Len(A[h]) \in Nat
      /\ Len(B[g]) = Len(A[g]) - n
      /\ \A j \in 1 .. Len(B[g]) : B[g][j] = A[g][j + n]
      /\ Len(B[h]) = Len(A[h]) + n
      /\ \A j \in 1 .. Len(B[h]) :
           B[h][j] = IF j <= Len(A[h]) THEN A[h][j] ELSE A[g][j - Len(A[h])]
  BY MoveElements DEF Moves
<1>2. /\ A \in [H -> Seq(S)] /\ B \in [H -> Seq(S)] /\ g \in H /\ h \in H /\ g # h
      /\ n \in Nat /\ 0 + n <= Len(A[g]) /\ \A f \in H \ {g, h} : B[f] = A[f]
  BY <1>1 DEF Moves
<1>3. \A j \in 1 .. Len(B[g]) : B[g][j] = IF j <= 0 THEN A[g][j] ELSE A[g][j + n]
  BY <1>1
<1>4. ASSUME NEW j \in 1 .. Len(B[h])
      PROVE  B[h][j] = IF j <= Len(A[h]) THEN A[h][j] ELSE A[g][j - Len(A[h]) + 0]
  <2>1. j - Len(A[h]) + 0 = j - Len(A[h])
    BY <1>1
  <2> QED BY <1>1, <2>1
<1> QED
  BY <1>1, <1>2, <1>3, <1>4 DEF Cuts

(* Dropping the first element is removing it.                              *)
LEMMA DropsRemoves ==
  ASSUME NEW S, NEW H, NEW A, NEW B, NEW g, Drops(S, H, A, B, g)
  PROVE  Removes(S, H, A, B, g, 1)
<1>1. /\ \A f \in H : Len(A[f]) \in Nat /\ Len(B[f]) \in Nat
      /\ Len(A[g]) > 0 /\ Len(B[g]) = Len(A[g]) - 1
      /\ \A j \in 1 .. Len(B[g]) : B[g][j] = A[g][j + 1]
  BY DropElements
<1>2. /\ A \in [H -> Seq(S)] /\ B \in [H -> Seq(S)] /\ g \in H
      /\ \A f \in H \ {g} : B[f] = A[f]
  BY DEF Drops
<1>3. 1 \in 1 .. Len(A[g]) /\ \A j \in 1 .. Len(B[g]) : ~(j < 1)
  BY <1>1, <1>2
<1> QED
  BY <1>1, <1>2, <1>3 DEF Removes

(* The elements j to k of list f are still together in B, and in order.    *)
Kept(H, A, B, f, j, k) ==
  \E e \in H : \E r \in Int : \A i \in j .. k : i + r \in 1 .. Len(B[e]) /\ B[e][i + r] = A[f][i]

(* A cut keeps what it does not cut in two.                                *)
LEMMA CutKeeps ==
  ASSUME NEW S, NEW H, NEW A, NEW B, NEW g, NEW h, NEW m, NEW n,
         Cuts(S, H, A, B, g, h, m, n), NEW f \in H,
         NEW j \in 1 .. Len(A[f]), NEW k \in j .. Len(A[f]),
         f = g => m \notin j .. k - 1 /\ m + n \notin j .. k - 1
  PROVE  Kept(H, A, B, f, j, k)
<1> DEFINE E(i) == CutToList(g, h, m, n, f, i)
           P(i) == CutTo(A, g, h, m, n, f, i)
<1>1. /\ Len(A[f]) \in Nat /\ Len(A[h]) \in Nat /\ m \in Nat /\ n \in Nat /\ j \in Nat /\ k \in Nat
      /\ j >= 1 /\ j <= k /\ k <= Len(A[f])
  BY LenProperties DEF Cuts
<1>2. \A i \in 1 .. Len(A[f]) : E(i) \in H /\ P(i) \in 1 .. Len(B[E(i)]) /\ A[f][i] = B[E(i)][P(i)]
  BY CutPlaces
<1>3. PICK e, r : /\ e = E(j)
                  /\ r = IF f # g THEN 0 ELSE IF k <= m THEN 0
                         ELSE IF j > m + n THEN 0 - n ELSE Len(A[h]) - m
  OBVIOUS
<1>4. r \in Int
  BY <1>1, <1>3
<1>5. \A i \in j .. k : E(i) = e /\ P(i) = i + r
  <2> SUFFICES ASSUME NEW i \in j .. k PROVE E(i) = e /\ P(i) = i + r
    OBVIOUS
  <2>1. i \in Nat /\ j <= i /\ i <= k
    BY <1>1
  <2>2. CASE f # g
    BY <1>1, <1>3, <2>1, <2>2 DEF CutToList, CutTo
  <2>3. CASE f = g /\ k <= m
    BY <1>1, <1>3, <2>1, <2>3 DEF CutToList, CutTo
  <2>4. CASE f = g /\ j > m + n
    BY <1>1, <1>3, <2>1, <2>4 DEF CutToList, CutTo
  <2>5. CASE f = g /\ m < j /\ k <= m + n
    <3>1. /\ m < i /\ i <= m + n /\ ~(i <= m) /\ ~(j > m + n) /\ ~(k <= m) /\ j <= m + n
      BY <1>1, <2>1, <2>5
    <3>2. E(i) = h /\ e = h /\ P(i) = i - m + Len(A[h]) /\ r = Len(A[h]) - m
      BY <1>3, <2>5, <3>1 DEF CutToList, CutTo
    <3> DEFINE a == Len(A[h])
    <3>3. P(i) = i - m + a /\ r = a - m /\ a \in Nat
      BY <1>1, <3>2
    <3> HIDE DEF a, P
    <3>4. P(i) = i + r
      BY <1>1, <2>1, <3>3
    <3> QED BY <3>2, <3>4
  <2>6. f = g => k <= m \/ j > m + n \/ (m < j /\ k <= m + n)
    BY <1>1
  <2> QED BY <2>2, <2>3, <2>4, <2>5, <2>6
<1>6. \A i \in j .. k : i + r \in 1 .. Len(B[e]) /\ B[e][i + r] = A[f][i]
  <2> HIDE DEF E, P
  <2> SUFFICES ASSUME NEW i \in j .. k PROVE i + r \in 1 .. Len(B[e]) /\ B[e][i + r] = A[f][i]
    OBVIOUS
  <2>1. i \in 1 .. Len(A[f])
    BY <1>1
  <2> QED BY <1>2, <1>5, <2>1
<1>7. e \in H
  <2> HIDE DEF E, P
  <2>1. j \in 1 .. Len(A[f])
    OBVIOUS
  <2> QED BY <1>2, <1>3, <2>1
<1> QED
  BY <1>4, <1>6, <1>7 DEF Kept

(* So does a removal.                                                      *)
LEMMA RemoveKeeps ==
  ASSUME NEW S, NEW H, NEW A, NEW B, NEW g, NEW m, Removes(S, H, A, B, g, m),
         NEW f \in H, NEW j \in 1 .. Len(A[f]), NEW k \in j .. Len(A[f]),
         f = g => m \notin j .. k
  PROVE  Kept(H, A, B, f, j, k)
<1>1. /\ Len(A[f]) \in Nat /\ m \in Nat /\ j \in Nat /\ k \in Nat
      /\ j >= 1 /\ j <= k /\ k <= Len(A[f])
  BY LenProperties DEF Removes
<1>2. PICK r : r = IF f = g /\ j > m THEN 0 - 1 ELSE 0
  OBVIOUS
<1>3. ASSUME NEW i \in j .. k PROVE i + r \in 1 .. Len(B[f]) /\ B[f][i + r] = A[f][i]
  <2>1. i \in Nat /\ j <= i /\ i <= k
    BY <1>1
  <2>2. CASE f # g
    BY <1>1, <1>2, <2>1, <2>2 DEF Removes
  <2>3. CASE f = g /\ j > m
    <3>1. r = 0 - 1 /\ i + r = i - 1 /\ i - 1 \in 1 .. Len(B[g]) /\ ~(i - 1 < m) /\ i - 1 + 1 = i
      BY <1>1, <1>2, <2>1, <2>3 DEF Removes
    <3>2. B[g][i - 1] = A[g][i - 1 + 1]
      BY <3>1 DEF Removes
    <3> QED BY <2>3, <3>1, <3>2
  <2>4. CASE f = g /\ k < m
    <3>1. r = 0 /\ i + r = i /\ i \in 1 .. Len(B[g]) /\ i < m
      BY <1>1, <1>2, <2>1, <2>4 DEF Removes
    <3>2. B[g][i] = A[g][i]
      BY <3>1 DEF Removes
    <3> QED BY <2>4, <3>1, <3>2
  <2> QED BY <1>1, <2>2, <2>3, <2>4
<1>4. r \in Int
  BY <1>2
<1> QED
  BY <1>3, <1>4 DEF Kept

(* And an insertion.                                                       *)
LEMMA InsertKeeps ==
  ASSUME NEW S, NEW H, NEW A, NEW B, NEW g, NEW m, NEW e, Inserts(S, H, A, B, g, m, e),
         NEW f \in H, NEW j \in 1 .. Len(A[f]), NEW k \in j .. Len(A[f]),
         f = g => m \notin j .. k - 1
  PROVE  Kept(H, A, B, f, j, k)
<1>1. /\ Len(A[f]) \in Nat /\ m \in Nat /\ j \in Nat /\ k \in Nat
      /\ j >= 1 /\ j <= k /\ k <= Len(A[f])
  BY LenProperties DEF Inserts
<1>2. PICK r : r = IF f = g /\ j > m THEN 1 ELSE 0
  OBVIOUS
<1>3. ASSUME NEW i \in j .. k PROVE i + r \in 1 .. Len(B[f]) /\ B[f][i + r] = A[f][i]
  <2>1. i \in Nat /\ j <= i /\ i <= k
    BY <1>1
  <2>2. CASE f # g
    BY <1>1, <1>2, <2>1, <2>2 DEF Inserts
  <2>3. CASE f = g /\ j > m
    <3>1. r = 1 /\ i + 1 \in 1 .. Len(B[g]) /\ ~(i + 1 <= m) /\ i + 1 # m + 1 /\ i + 1 - 1 = i
      BY <1>1, <1>2, <2>1, <2>3 DEF Inserts
    <3>2. B[g][i + 1] = A[g][i + 1 - 1]
      BY <3>1 DEF Inserts
    <3> QED BY <2>3, <3>1, <3>2
  <2>4. CASE f = g /\ k <= m
    <3>1. r = 0 /\ i + r = i /\ i \in 1 .. Len(B[g]) /\ i <= m
      BY <1>1, <1>2, <2>1, <2>4 DEF Inserts
    <3>2. B[g][i] = A[g][i]
      BY <3>1 DEF Inserts
    <3> QED BY <2>4, <3>1, <3>2
  <2> QED BY <1>1, <2>2, <2>3, <2>4
<1>4. r \in Int
  BY <1>2
<1> QED
  BY <1>3, <1>4 DEF Kept
=============================================================================
