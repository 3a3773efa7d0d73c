-------------------------- MODULE PoolBooksProofs --------------------------
(***************************************************************************)
(* Proofs that the books of WorkerPool are exact: the idle list and the    *)
(* worker counts, the idle timer, the slots of max_active, and who holds   *)
(* linked works (PoolBooks), in every state and for any number of workers, *)
(* works and pwqs.  They rest on the invariant of WorkerPoolProofs.  At    *)
(* the end, that an ordered pwq implements OrderedQueue (InQueuedOrder).   *)
(***************************************************************************)
EXTENDS WorkerPoolProofs
-----------------------------------------------------------------------------
(* The invariant                                                           *)

(* Only a worker that sleeps, or is on its way out, has been told to die.  *)
DieAsleep == \A w \in Worker : die[w] => pc[w] \in {"asleep", "dying"}

(* TrimArmed, kept also while the lock is held: a worker that leaves the   *)
(* idle list can only make the workers less many.                          *)
Armed == too_many_workers(nr_idle, nr_workers) => idle_timer \/ timer_cb

(* The LINKED bit means that a barrier follows, and a barrier on a pwq's   *)
(* delayed_works follows an item with that bit: a chain is one item and    *)
(* barriers, and the first delayed item is always a work.                  *)
Follow(A, d) == \A h \in Heads : \A k \in 1 .. Len(A[h]) :
                  d[A[h][k]].linked => k < Len(A[h]) /\ A[h][k + 1] \in Barrier
Preceded(A, d) == \A q \in Pwq : \A k \in 1 .. Len(A[q]) :
                    A[q][k] \in Barrier => k > 1 /\ d[A[q][k - 1]].linked
Chained(A, d) == Follow(A, d) /\ Preceded(A, d)

BooksInv == DieAsleep /\ IdleExact /\ Armed /\ ScheduledHeld
              /\ Chained(Placed, data) /\ MaxActiveExact

(* The loop that counts a chain stops at its end: every item but the last  *)
(* is LINKED, and the last is not, unless the list ends there.             *)
LEMMA ChainEnd ==
  ASSUME NEW s \in Seq(Item), NEW d, s # <<>>
  PROVE  /\ ChainLen(s, d) \in 1 .. Len(s)
         /\ \A k \in 1 .. ChainLen(s, d) - 1 : d[s[k]].linked
         /\ ChainLen(s, d) < Len(s) => ~d[s[ChainLen(s, d)]].linked
<1> DEFINE I == 1 .. Len(s) - 1
           T == {n \in I : \A m \in 1 .. n : d[s[m]].linked}
           c == Cardinality(T)
<1>1. Len(s) \in Nat \ {0} /\ ChainLen(s, d) \in 1 .. Len(s)
  BY EmptySeq, ChainLenType
<1>2. IsFiniteSet(I)
  BY <1>1, FS_Interval
<1>3. T \in SUBSET I
  OBVIOUS
<1>4. IsFiniteSet(T) /\ c \in Nat
  <2>1. IsFiniteSet(T)
    <3> HIDE DEF I, T
    <3> QED BY <1>2, <1>3, FS_Subset
  <2> HIDE DEF T
  <2> QED BY <2>1, FS_CardinalityType
<1>5. ASSUME NEW n \in T PROVE n \in 1 .. c
  <2>1. n \in Nat \ {0} /\ 1 .. n \in SUBSET T
    BY <1>1
  <2>2. Cardinality(1 .. n) = n
    BY <2>1, FS_Interval
  <2>3. Cardinality(1 .. n) <= c
    <3> HIDE DEF T
    <3> QED BY <1>4, <2>1, FS_Subset
  <2> HIDE DEF c, T
  <2> QED BY <1>4, <2>1, <2>2, <2>3
<1>6. T = 1 .. c
  <2>1. T \in SUBSET (1 .. c)
    <3> HIDE DEF T, c
    <3> QED BY <1>5
  <2>2. IsFiniteSet(1 .. c) /\ Cardinality(1 .. c) = c
    <3> HIDE DEF c
    <3> QED BY <1>4, FS_Interval
  <2>3. Cardinality(1 .. c) = Cardinality(T)
    BY <2>2
  <2> HIDE DEF T, c
  <2> QED BY <2>1, <2>2, <2>3, FS_Subset
<1>7. ChainLen(s, d) = 1 + c
  BY DEF ChainLen
<1>8. \A k \in 1 .. c : d[s[k]].linked
  <2> SUFFICES ASSUME NEW k \in 1 .. c PROVE d[s[k]].linked
    OBVIOUS
  <2>1. k \in T
    BY <1>6
  <2> QED BY <2>1
<1>9. ASSUME 1 + c < Len(s), d[s[1 + c]].linked PROVE FALSE
  <2>1. \A m \in 1 .. 1 + c : d[s[m]].linked
    <3> HIDE DEF c
    <3> QED BY <1>4, <1>8, <1>9
  <2>2. 1 + c \in I
    <3> HIDE DEF c
    <3> QED BY <1>1, <1>4, <1>9
  <2>3. 1 + c \in T
    BY <2>1, <2>2
  <2>4. 1 + c \in 1 .. c
    BY <1>6, <2>3
  <2> HIDE DEF c
  <2> QED BY <1>4, <2>4
<1> HIDE DEF c
<1> QED
  BY <1>1, <1>4, <1>7, <1>8, <1>9

(* Two words that agree on the LINKED bits.                                *)
LEMMA SameLinks ==
  ASSUME NEW A \in [Heads -> Seq(Item)], NEW d, NEW e, Chained(A, d),
         \A x \in Item : e[x].linked = d[x].linked
  PROVE  Chained(A, e)
<1>1. \A h \in Heads : \A k \in 1 .. Len(A[h]) : A[h][k] \in Item
  BY ElementOfSeq
<1>2. \A q \in Pwq : q \in Heads /\ Len(A[q]) \in Nat
  BY HeadFacts, LenProperties
<1>3. Follow(A, e)
  BY <1>1 DEF Chained, Follow
<1>4. Preceded(A, e)
  <2> SUFFICES ASSUME NEW q \in Pwq, NEW k \in 1 .. Len(A[q]), A[q][k] \in Barrier
               PROVE  k > 1 /\ e[A[q][k - 1]].linked
    BY DEF Preceded
  <2>1. k > 1 /\ d[A[q][k - 1]].linked
    BY DEF Chained, Preceded
  <2>2. A[q][k - 1] \in Item
    BY <1>1, <1>2, <2>1
  <2> QED BY <2>1, <2>2
<1> QED
  BY <1>3, <1>4 DEF Chained

(* A whole chain moves: nothing behind a LINKED item is left without it.   *)
LEMMA ChainedMoves ==
  ASSUME NEW A, NEW B, NEW g, NEW h, NEW n, NEW d, Chained(A, d),
         Moves(Item, Heads, A, B, g, h, n), h \notin Pwq, n \in 1 .. Len(A[g]),
         n < Len(A[g]) => ~d[A[g][n]].linked
  PROVE  Chained(B, d)
<1>1. /\ \A f \in Heads : Len(A[f]) \in Nat /\ Len(B[f]) \in Nat
      /\ Len(B[g]) = Len(A[g]) - n
      /\ \A j \in 1 .. Len(B[g]) : B[g][j] = A[g][j + n]
      /\ Len(B[h]) = Len(A[h]) + n
      /\ \A j \in 1 .. Len(B[h]) :
           B[h][j] = IF j <= Len(A[h]) THEN A[h][j] ELSE A[g][j - Len(A[h])]
  BY MoveElements
<1>2. /\ g \in Heads /\ h \in Heads /\ g # h /\ \A f \in Heads \ {g, h} : B[f] = A[f]
      /\ Len(A[g]) \in Nat /\ Len(A[h]) \in Nat /\ Len(B[g]) \in Nat /\ Len(B[h]) \in Nat
      /\ n \in Nat
  <2>1. g \in Heads /\ h \in Heads /\ g # h /\ n \in 0 .. Len(A[g])
    BY DEF Moves
  <2>2. \A f \in Heads \ {g, h} : B[f] = A[f]
    BY DEF Moves
  <2> QED BY <1>1, <2>1, <2>2
<1>3. ASSUME NEW f \in Heads, NEW k \in 1 .. Len(B[f]), d[B[f][k]].linked
      PROVE  k < Len(B[f]) /\ B[f][k + 1] \in Barrier
  <2>1. CASE f = g
    <3>1. k \in 1 .. Len(B[g]) /\ B[f] = B[g]
      BY <2>1
    <3>2. k + n \in 1 .. Len(A[g]) /\ B[f][k] = A[g][k + n]
      <4>1. k + n \in 1 .. Len(A[g])
        BY <1>1, <1>2, <3>1
      <4>2. B[g][k] = A[g][k + n]
        BY <1>1, <3>1
      <4> QED BY <3>1, <4>1, <4>2
    <3>3. k + n < Len(A[g]) /\ A[g][k + n + 1] \in Barrier
      BY <1>2, <1>3, <3>2 DEF Chained, Follow
    <3>4. k < Len(B[g]) /\ k + 1 \in 1 .. Len(B[g]) /\ k + 1 + n = k + n + 1
      BY <1>1, <1>2, <2>1, <3>3
    <3>5. B[g][k + 1] = A[g][k + 1 + n]
      BY <1>1, <3>4
    <3> QED BY <2>1, <3>3, <3>4, <3>5
  <2>2. CASE f = h /\ k <= Len(A[h])
    <3>1. k \in 1 .. Len(A[h]) /\ B[f][k] = A[h][k]
      BY <1>1, <1>2, <2>2
    <3>2. k < Len(A[h]) /\ A[h][k + 1] \in Barrier
      BY <1>2, <1>3, <3>1 DEF Chained, Follow
    <3>3. k < Len(B[h]) /\ k + 1 \in 1 .. Len(B[h]) /\ k + 1 <= Len(A[h])
      BY <1>1, <1>2, <2>2, <3>2
    <3>4. B[h][k + 1] = A[h][k + 1]
      BY <1>1, <3>3
    <3> QED BY <2>2, <3>2, <3>3, <3>4
  <2>3. CASE f = h /\ k > Len(A[h])
    <3> DEFINE j == k - Len(A[h])
    <3>1. k \in 1 .. Len(B[h]) /\ ~(k <= Len(A[h])) /\ j \in Int /\ k = j + Len(A[h])
      BY <1>2, <2>3
    <3>2. j \in 1 .. n /\ j \in 1 .. Len(A[g]) /\ B[f][k] = A[g][j]
      <4>1. j \in 1 .. n /\ j \in 1 .. Len(A[g])
        BY <1>1, <1>2, <3>1
      <4>2. B[h][k] = A[g][k - Len(A[h])]
        BY <1>1, <3>1
      <4> QED BY <2>3, <4>1, <4>2
    <3> HIDE DEF j
    <3>3. j < Len(A[g]) /\ A[g][j + 1] \in Barrier
      BY <1>2, <1>3, <3>2 DEF Chained, Follow
    <3>4. j # n
      BY <1>3, <3>2, <3>3
    <3>5. k + 1 \in 1 .. Len(B[h]) /\ B[h][k + 1] = A[g][j + 1]
      <4> DEFINE a == Len(A[h])
      <4>1. a \in Nat /\ k \in Nat /\ j \in Nat /\ j + 1 <= n /\ k = j + a /\ j >= 1
        BY <1>2, <3>1, <3>2, <3>4
      <4>2. Len(B[h]) = a + n
        BY <1>1
      <4> HIDE DEF a
      <4>3. k + 1 \in 1 .. (a + n) /\ k + 1 > a /\ k + 1 - a = j + 1 /\ k + 1 \in Int
        BY <1>2, <4>1
      <4> PICK i : i = k + 1
        OBVIOUS
      <4>4. i \in 1 .. Len(B[h]) /\ i > a /\ i \in Int /\ a \in Int /\ i - a = j + 1
        BY <4>1, <4>2, <4>3
      <4>5. B[h][i] = IF i <= a THEN A[h][i] ELSE A[g][i - a]
        BY <1>1, <4>4 DEF a
      <4>6. B[h][i] = A[g][i - a]
        BY <4>4, <4>5
      <4>7. A[g][i - a] = A[g][j + 1]
        BY <4>4
      <4> QED BY <4>4, <4>6, <4>7
    <3> QED BY <1>2, <2>3, <3>1, <3>3, <3>5
  <2>4. CASE f \notin {g, h}
    BY <1>2, <1>3, <2>4 DEF Chained, Follow
  <2> QED BY <1>1, <1>2, <2>1, <2>2, <2>3, <2>4
<1>4. ASSUME NEW q \in Pwq, NEW k \in 1 .. Len(B[q]), B[q][k] \in Barrier
      PROVE  k > 1 /\ d[B[q][k - 1]].linked
  <2>1. q \in Heads
    BY HeadFacts
  <2>2. CASE q = g
    <3>1. k \in 1 .. Len(B[g]) /\ B[q] = B[g]
      BY <2>2
    <3>2. k + n \in 1 .. Len(A[g]) /\ B[q][k] = A[g][k + n]
      <4>1. k + n \in 1 .. Len(A[g])
        BY <1>1, <1>2, <3>1
      <4>2. B[g][k] = A[g][k + n]
        BY <1>1, <3>1
      <4> QED BY <3>1, <4>1, <4>2
    <3>3. d[A[g][k + n - 1]].linked
      BY SMTT(30), <1>4, <2>2, <3>2 DEF Chained, Preceded
    <3>4. k # 1
      BY <1>1, <2>1, <2>2, <3>2, <3>3
    <3>5. k - 1 \in 1 .. Len(B[g]) /\ (k - 1) + n = k + n - 1 /\ k > 1
      BY <1>2, <2>2, <3>4
    <3>6. B[g][k - 1] = A[g][(k - 1) + n]
      BY <1>1, <3>5
    <3> QED BY <2>2, <3>3, <3>5, <3>6
  <2>3. CASE q # g
    BY <1>2, <1>4, <2>1, <2>3 DEF Chained, Preceded
  <2> QED BY <2>2, <2>3
<1> QED
  BY <1>3, <1>4 DEF Chained, Follow, Preceded

(* The head of a list that is no delayed_works is dropped.                 *)
LEMMA ChainedDrops ==
  ASSUME NEW A, NEW B, NEW g, NEW d, Chained(A, d), Drops(Item, Heads, A, B, g), g \notin Pwq
  PROVE  Chained(B, d)
<1>1. /\ \A f \in Heads : Len(A[f]) \in Nat /\ Len(B[f]) \in Nat
      /\ Len(A[g]) > 0 /\ Len(B[g]) = Len(A[g]) - 1
      /\ \A j \in 1 .. Len(B[g]) : B[g][j] = A[g][j + 1]
  BY DropElements
<1>2. g \in Heads /\ \A f \in Heads \ {g} : B[f] = A[f]
  BY DEF Drops
<1>3. ASSUME NEW f \in Heads, NEW k \in 1 .. Len(B[f]), d[B[f][k]].linked
      PROVE  k < Len(B[f]) /\ B[f][k + 1] \in Barrier
  <2>1. CASE f = g
    <3>1. k + 1 \in 1 .. Len(A[g]) /\ B[f][k] = A[g][k + 1]
      BY <1>1, <1>2, <2>1
    <3>2. k + 1 < Len(A[g]) /\ A[g][k + 1 + 1] \in Barrier
      BY <1>2, <1>3, <3>1 DEF Chained, Follow
    <3> QED BY <1>1, <1>2, <2>1, <3>2
  <2>2. CASE f # g
    BY <1>2, <1>3, <2>2 DEF Chained, Follow
  <2> QED BY <2>1, <2>2
<1>4. \A q \in Pwq : B[q] = A[q]
  BY <1>2, HeadFacts
<1> QED
  BY <1>3, <1>4 DEF Chained, Follow, Preceded

(* A work that is not LINKED goes to the end of a list.                    *)
LEMMA ChainedAppends ==
  ASSUME NEW A, NEW B, NEW g, NEW x, NEW d, Chained(A, d),
         Appends(Item, Heads, A, B, g, x), x \notin Barrier, ~d[x].linked
  PROVE  Chained(B, d)
<1>1. Inserts(Item, Heads, A, B, g, Len(A[g]), x)
  BY AppendInserts
<1>2. /\ \A f \in Heads : Len(A[f]) \in Nat /\ Len(B[f]) \in Nat
      /\ g \in Heads /\ \A f \in Heads \ {g} : B[f] = A[f]
      /\ Len(B[g]) = Len(A[g]) + 1 /\ B[g][Len(A[g]) + 1] = x
      /\ \A j \in 1 .. Len(A[g]) : B[g][j] = A[g][j]
  <2>1. \A f \in Heads : Len(A[f]) \in Nat /\ Len(B[f]) \in Nat
    BY <1>1, LenProperties DEF Inserts
  <2> QED BY <1>1, <2>1 DEF Inserts
<1>3. ASSUME NEW f \in Heads, NEW k \in 1 .. Len(B[f]), d[B[f][k]].linked
      PROVE  k < Len(B[f]) /\ B[f][k + 1] \in Barrier
  <2>1. CASE f = g
    <3>1. k \in 1 .. Len(A[g]) /\ B[f][k] = A[g][k]
      BY <1>2, <1>3, <2>1
    <3>2. k < Len(A[g]) /\ A[g][k + 1] \in Barrier
      BY <1>2, <1>3, <3>1 DEF Chained, Follow
    <3> QED BY <1>2, <2>1, <3>2
  <2>2. CASE f # g
    BY <1>2, <1>3, <2>2 DEF Chained, Follow
  <2> QED BY <2>1, <2>2
<1>4. ASSUME NEW q \in Pwq, NEW k \in 1 .. Len(B[q]), B[q][k] \in Barrier
      PROVE  k > 1 /\ d[B[q][k - 1]].linked
  <2>1. q \in Heads
    BY HeadFacts
  <2>2. CASE q = g
    <3>1. k \in 1 .. Len(A[g]) /\ B[q][k] = A[g][k]
      BY <1>2, <1>4, <2>2
    <3>2. k > 1 /\ d[A[g][k - 1]].linked
      BY <1>4, <2>2, <3>1 DEF Chained, Preceded
    <3> QED BY <1>2, <2>2, <3>1, <3>2
  <2>3. CASE q # g
    BY <1>2, <1>4, <2>1, <2>3 DEF Chained, Preceded
  <2> QED BY <2>2, <2>3
<1> QED
  BY <1>3, <1>4 DEF Chained, Follow, Preceded

(* A barrier behind its target takes over the target's bit, or it goes in  *)
(* front of a scheduled list.                                              *)
LEMMA ChainedInserts ==
  ASSUME NEW A, NEW B, NEW g, NEW k, NEW b \in Barrier, NEW d, NEW e, Chained(A, d),
         Inserts(Item, Heads, A, B, g, k, b), Injective(B, Heads),
         \/ /\ k = 0 /\ g \notin Pwq /\ ~e[b].linked
            /\ \A y \in Item \ {b} : e[y].linked <=> d[y].linked
         \/ /\ k > 0 /\ e[A[g][k]].linked /\ (e[b].linked <=> d[A[g][k]].linked)
            /\ \A y \in Item \ {b, A[g][k]} : e[y].linked <=> d[y].linked
  PROVE  Chained(B, e)
<1>1. /\ A \in [Heads -> Seq(Item)] /\ B \in [Heads -> Seq(Item)]
      /\ \A f \in Heads : Len(A[f]) \in Nat /\ Len(B[f]) \in Nat
      /\ g \in Heads /\ k \in 0 .. Len(A[g]) /\ \A f \in Heads \ {g} : B[f] = A[f]
      /\ Len(B[g]) = Len(A[g]) + 1
      /\ \A j \in 1 .. Len(B[g]) :
           B[g][j] = IF j <= k THEN A[g][j] ELSE IF j = k + 1 THEN b ELSE A[g][j - 1]
  BY LenProperties DEF Inserts
<1>2. /\ k + 1 \in 1 .. Len(B[g]) /\ B[g][k + 1] = b
      /\ \A f \in Heads : \A j \in 1 .. Len(B[f]) : B[f][j] \in Item
      /\ \A f \in Heads : \A j \in 1 .. Len(B[f]) : B[f][j] = b => f = g /\ j = k + 1
      /\ k > 0 => k \in 1 .. Len(B[g]) /\ B[g][k] = A[g][k]
  <2>1. \A f \in Heads : \A j \in 1 .. Len(B[f]) : B[f][j] \in Item
    BY <1>1, ElementOfSeq
  <2>2. k + 1 \in 1 .. Len(B[g]) /\ B[g][k + 1] = b
    BY <1>1
  <2>3. k > 0 => k \in 1 .. Len(B[g]) /\ B[g][k] = A[g][k]
    BY <1>1
  <2>4. ASSUME NEW f \in Heads, NEW j \in 1 .. Len(B[f]), B[f][j] = b
        PROVE  f = g /\ j = k + 1
    <3>1. g \in Heads /\ B[f][j] = B[g][k + 1]
      BY <1>1, <2>2, <2>4
    <3> QED BY <2>2, <3>1 DEF Injective
  <2> QED BY <2>1, <2>2, <2>3, <2>4
<1>3. \A f \in Heads : \A j \in 1 .. Len(B[f]) :
        (f = g => j \notin {k, k + 1}) => (e[B[f][j]].linked <=> d[B[f][j]].linked)
  <2> SUFFICES ASSUME NEW f \in Heads, NEW j \in 1 .. Len(B[f]), f = g => j \notin {k, k + 1}
               PROVE  e[B[f][j]].linked <=> d[B[f][j]].linked
    OBVIOUS
  <2>1. B[f][j] # b /\ B[f][j] \in Item
    BY <1>2
  <2>2. ASSUME k > 0, B[f][j] = A[g][k] PROVE FALSE
    <3>1. k \in 1 .. Len(B[g]) /\ B[f][j] = B[g][k]
      BY <1>2, <2>2
    <3> QED BY <1>1, <3>1 DEF Injective
  <2> QED BY <2>1, <2>2
<1>4. ASSUME NEW f \in Heads, NEW j \in 1 .. Len(B[f]), e[B[f][j]].linked
      PROVE  j < Len(B[f]) /\ B[f][j + 1] \in Barrier
  <2>1. CASE f # g
    <3>1. d[A[f][j]].linked /\ B[f] = A[f]
      BY <1>1, <1>3, <1>4, <2>1
    <3> QED BY <3>1 DEF Chained, Follow
  <2>2. CASE f = g /\ j < k
    <3>1. B[g][j] = A[g][j] /\ j \in 1 .. Len(A[g])
      BY <1>1, <2>2
    <3>2. d[A[g][j]].linked
      BY <1>1, <1>3, <1>4, <2>2, <3>1
    <3>3. A[g][j + 1] \in Barrier
      BY <1>1, <3>1, <3>2 DEF Chained, Follow
    <3>4. j + 1 \in 1 .. Len(B[g]) /\ B[g][j + 1] = A[g][j + 1]
      BY <1>1, <2>2
    <3> QED BY <1>1, <2>2, <3>3, <3>4
  <2>3. CASE f = g /\ j = k
    BY <1>1, <1>2, <2>3
  <2>4. CASE f = g /\ j = k + 1
    <3>1. k > 0 /\ d[A[g][k]].linked
      BY <1>2, <1>4, <2>4
    <3>2. k < Len(A[g]) /\ A[g][k + 1] \in Barrier
      BY <1>1, <3>1 DEF Chained, Follow
    <3>3. /\ j < Len(B[g]) /\ j + 1 \in 1 .. Len(B[g])
          /\ ~(j + 1 <= k) /\ j + 1 # k + 1 /\ j + 1 - 1 = k + 1
      BY <1>1, <2>4, <3>2
    <3>4. B[g][j + 1] = A[g][j + 1 - 1]
      BY <1>1, <3>3
    <3> QED BY <2>4, <3>2, <3>3, <3>4
  <2>5. CASE f = g /\ j > k + 1
    <3>1. B[g][j] = A[g][j - 1] /\ j - 1 \in 1 .. Len(A[g])
      BY <1>1, <2>5
    <3>2. d[A[g][j - 1]].linked
      BY <1>1, <1>3, <1>4, <2>5, <3>1
    <3>3. j - 1 < Len(A[g]) /\ A[g][j - 1 + 1] \in Barrier
      BY <1>1, <3>1, <3>2 DEF Chained, Follow
    <3>4. j < Len(B[g]) /\ B[g][j + 1] = A[g][j]
      BY <1>1, <2>5, <3>3
    <3> QED BY <1>1, <2>5, <3>3, <3>4
  <2> QED BY <1>1, <2>1, <2>2, <2>3, <2>4, <2>5
<1>5. ASSUME NEW q \in Pwq, NEW j \in 1 .. Len(B[q]), B[q][j] \in Barrier
      PROVE  j > 1 /\ e[B[q][j - 1]].linked
  <2>1. q \in Heads
    BY HeadFacts
  <2>2. CASE q # g
    <3>1. B[q] = A[q]
      BY <1>1, <2>1, <2>2
    <3>2. j > 1 /\ d[A[q][j - 1]].linked
      BY <1>5, <3>1 DEF Chained, Preceded
    <3>3. j - 1 \in 1 .. Len(B[q])
      BY <1>1, <2>1, <3>2
    <3> QED BY <1>3, <2>1, <2>2, <3>1, <3>2, <3>3
  <2>3. CASE q = g /\ j <= k
    <3>1. B[g][j] = A[g][j] /\ j \in 1 .. Len(A[g])
      BY <1>1, <2>3
    <3>2. j > 1 /\ d[A[g][j - 1]].linked
      BY <1>5, <2>3, <3>1 DEF Chained, Preceded
    <3>3. j - 1 \in 1 .. Len(B[g]) /\ B[g][j - 1] = A[g][j - 1] /\ j - 1 \notin {k, k + 1}
      BY <1>1, <2>3, <3>2
    <3> QED BY <1>1, <1>3, <2>3, <3>2, <3>3
  <2>4. CASE q = g /\ j = k + 1
    BY <1>1, <1>2, <2>4
  <2>5. CASE q = g /\ j = k + 2
    <3>1. B[g][j] = A[g][j - 1] /\ j - 1 \in 1 .. Len(A[g])
      <4>1. /\ j \in 1 .. Len(B[g]) /\ Len(A[g]) \in Nat /\ k \in Nat
            /\ ~(j <= k) /\ j # k + 1 /\ j - 1 \in 1 .. Len(A[g])
        BY <1>1, <2>5
      <4> QED BY <1>1, <4>1
    <3>2. j - 1 > 1 /\ d[A[g][j - 1 - 1]].linked
      BY <1>5, <2>5, <3>1 DEF Chained, Preceded
    <3>3. k > 0 /\ j - 1 - 1 = k /\ j - 1 = k + 1
      BY <1>1, <2>5, <3>2
    <3> QED BY <1>2, <2>5, <3>2, <3>3
  <2>6. CASE q = g /\ j > k + 2
    <3>1. B[g][j] = A[g][j - 1] /\ j - 1 \in 1 .. Len(A[g])
      BY <1>1, <2>6
    <3>2. j - 1 > 1 /\ d[A[g][j - 1 - 1]].linked
      BY <1>5, <2>6, <3>1 DEF Chained, Preceded
    <3>3. j - 1 \in 1 .. Len(B[g]) /\ B[g][j - 1] = A[g][j - 1 - 1] /\ j - 1 \notin {k, k + 1}
      BY <1>1, <2>6, <3>2
    <3>4. e[B[g][j - 1]].linked <=> d[B[g][j - 1]].linked
      BY <1>1, <1>3, <3>3
    <3> QED BY <1>1, <2>6, <3>2, <3>3, <3>4
  <2> QED BY <1>1, <2>1, <2>2, <2>3, <2>4, <2>5, <2>6
<1> QED
  BY <1>4, <1>5 DEF Chained, Follow, Preceded
-----------------------------------------------------------------------------
(* The books about the workers                                             *)

WorkerBooks == DieAsleep /\ IdleExact /\ Armed
Live == {w \in Worker : pc[w] \notin {"none", "dying"} /\ ~die[w]}

(* The live workers are finitely many, and nr_workers is their number.     *)
LEMMA LiveFacts ==
  ASSUME IdleExact
  PROVE  IsFiniteSet(Live) /\ Live \in SUBSET Worker /\ nr_workers = Cardinality(Live)
<1>1. IsFiniteSet(Worker)
  BY PoolAssumption
<1>2. Live \in SUBSET Worker
  BY DEF Live
<1>3. nr_workers = Cardinality(Live)
  BY DEF IdleExact, Live
<1> QED
  BY <1>1, <1>2, <1>3, FS_Subset

(* Steps of a worker that is awake and stays awake.                        *)
LEMMA AwakeBooks ==
  ASSUME TypeOK, DieAsleep, IdleExact, NEW w \in Worker, NEW l,
         pc[w] \notin {"none", "asleep", "dying"}, l \notin {"none", "asleep", "dying"},
         pc' = [pc EXCEPT ![w] = l], UNCHANGED <<die, idle_list, nr_idle, nr_workers>>
  PROVE  DieAsleep' /\ IdleExact'
<1>1. /\ \A u \in Worker : pc'[u] = IF u = w THEN l ELSE pc[u]
      /\ \A u \in Worker : die'[u] = die[u]
  BY DEF TypeOK
<1>2. Live' = Live
  BY <1>1 DEF Live
<1>3. nr_workers' = Cardinality({u \in Worker : pc'[u] \notin {"none", "dying"} /\ ~die'[u]})
  BY <1>2, LiveFacts DEF Live
<1> QED
  BY <1>1, <1>3 DEF DieAsleep, IdleExact

(* The elements of a list without one of them.                             *)
LEMMA RemoveAtElements ==
  ASSUME NEW S, NEW s \in Seq(S), NEW k \in 1 .. Len(s)
  PROVE  /\ RemoveAt(s, k) \in Seq(S) /\ Len(RemoveAt(s, k)) = Len(s) - 1
         /\ \A j \in 1 .. Len(s) - 1 : RemoveAt(s, k)[j] = IF j < k THEN s[j] ELSE s[j + 1]
<1> DEFINE a == SubSeq(s, 1, k - 1)
           b == SubSeq(s, k + 1, Len(s))
<1>1. Len(s) \in Nat /\ k \in Nat
  BY LenProperties
<1>2. /\ a \in Seq(S) /\ Len(a) = k - 1 /\ \A i \in 1 .. k - 1 : a[i] = s[i]
  BY <1>1, SubSeqType
<1>3. /\ b \in Seq(S) /\ Len(b) = Len(s) - k /\ \A i \in 1 .. Len(s) - k : b[i] = s[i + k]
  <2>1. k + 1 \in Nat \ {0} /\ Len(s) \in Int
    BY <1>1
  <2>2. /\ b \in Seq(S) /\ Len(b) = IF k + 1 <= Len(s) THEN Len(s) - (k + 1) + 1 ELSE 0
        /\ \A i \in 1 .. Len(s) - (k + 1) + 1 : b[i] = s[k + 1 + i - 1]
    BY <1>1, <2>1, SubSeqType
  <2> HIDE DEF b
  <2> QED BY <1>1, <2>2
<1>4. RemoveAt(s, k) = a \o b
  BY DEF RemoveAt
<1> HIDE DEF a, b
<1>5. /\ a \o b \in Seq(S) /\ Len(a \o b) = Len(a) + Len(b)
      /\ \A j \in 1 .. Len(a) + Len(b) : (a \o b)[j] = IF j <= Len(a) THEN a[j] ELSE b[j - Len(a)]
  BY <1>2, <1>3, ConcatProperties
<1>6. Len(a) + Len(b) = Len(s) - 1
  BY <1>1, <1>2, <1>3
<1>7. ASSUME NEW j \in 1 .. Len(s) - 1 PROVE (a \o b)[j] = IF j < k THEN s[j] ELSE s[j + 1]
  <2>1. CASE j <= k - 1
    <3>1. j \in 1 .. k - 1 /\ j < k
      BY <1>1, <2>1
    <3>2. (a \o b)[j] = a[j]
      BY <1>1, <1>2, <1>5, <1>6, <2>1
    <3> QED BY <1>2, <3>1, <3>2
  <2>2. CASE j > k - 1
    <3>1. j - (k - 1) \in 1 .. Len(s) - k /\ (j - (k - 1)) + k = j + 1 /\ ~(j < k)
      BY <1>1, <2>2
    <3>2. (a \o b)[j] = b[j - (k - 1)]
      <4>1. j \in 1 .. Len(a) + Len(b) /\ ~(j <= Len(a)) /\ Len(a) = k - 1
        BY <1>1, <1>2, <1>6, <2>2
      <4>2. (a \o b)[j] = b[j - Len(a)]
        BY <1>5, <4>1
      <4> QED BY <4>1, <4>2
    <3>3. b[j - (k - 1)] = s[(j - (k - 1)) + k]
      BY <1>3, <3>1
    <3> QED BY <3>1, <3>2, <3>3
  <2>3. j <= k - 1 \/ j > k - 1
    BY <1>1
  <2> QED BY <2>1, <2>2, <2>3
<1> QED
  BY <1>4, <1>5, <1>6, <1>7

(* A worker that wakes up leaves the idle list, which stays exact; one     *)
(* that was told to die has left it already.                               *)
LEMMA WokeUpBooks ==
  ASSUME TypeOK, WorkerBooks, NEW w \in Worker, WokeUp(w)
  PROVE  WorkerBooks'
<1>1. /\ pc[w] = "asleep"
      /\ UNCHANGED <<nr_workers, manager, idle_timer, timer_cb, die>>
  BY DEF WokeUp, taskVars
<1>2. CASE die[w]
  <2>1. pc' = [pc EXCEPT ![w] = "dying"] /\ UNCHANGED <<idle_list, nr_idle>>
    BY <1>2 DEF WokeUp
  <2>2. \A u \in Worker : pc'[u] = IF u = w THEN "dying" ELSE pc[u]
    BY <2>1 DEF TypeOK
  <2>3. Live' = Live
    BY <1>1, <1>2, <2>2 DEF Live
  <2>4. nr_workers' = Cardinality({u \in Worker : pc'[u] \notin {"none", "dying"} /\ ~die'[u]})
    BY <1>1, <2>3, LiveFacts DEF Live, WorkerBooks
  <2>5. IdleExact' /\ DieAsleep'
    BY <1>1, <1>2, <2>1, <2>2, <2>4 DEF WorkerBooks, IdleExact, DieAsleep
  <2>6. Armed'
    BY <1>1, <2>1 DEF WorkerBooks, Armed, too_many_workers
  <2> QED BY <2>5, <2>6 DEF WorkerBooks
<1>3. CASE ~die[w]
  <2>1. pc' = [pc EXCEPT ![w] = "recheck"] /\ nr_idle' = nr_idle - 1
    BY <1>3 DEF WokeUp
  <2>2. PICK k \in 1 .. Len(idle_list) : idle_list[k] = w /\ idle_list' = RemoveAt(idle_list, k)
    BY <1>3 DEF WokeUp
  <2>3. \A u \in Worker : pc'[u] = IF u = w THEN "recheck" ELSE pc[u]
    BY <2>1 DEF TypeOK
  <2>4. Live' = Live
    BY <1>1, <1>3, <2>3 DEF Live
  <2>5. nr_workers' = Cardinality({u \in Worker : pc'[u] \notin {"none", "dying"} /\ ~die'[u]})
    BY <1>1, <2>4, LiveFacts DEF Live, WorkerBooks
  <2>6. /\ Len(idle_list) \in Nat /\ Len(idle_list') = Len(idle_list) - 1
        /\ \A j \in 1 .. Len(idle_list') : idle_list'[j] = IF j < k THEN idle_list[j] ELSE idle_list[j + 1]
    BY <2>2, RemoveAtElements, LenProperties DEF TypeOK
  <2>7. \A j, i \in 1 .. Len(idle_list) : idle_list[j] = idle_list[i] => j = i
    BY DEF WorkerBooks, IdleExact
  <2>8. \A j, i \in 1 .. Len(idle_list') : idle_list'[j] = idle_list'[i] => j = i
    BY <2>6, <2>7
  <2>9. ASSUME NEW u \in Worker
        PROVE  (\E j \in 1 .. Len(idle_list') : idle_list'[j] = u)
                 <=> (\E j \in 1 .. Len(idle_list) : idle_list[j] = u) /\ u # w
    <3>1. ASSUME NEW j \in 1 .. Len(idle_list'), idle_list'[j] = u
          PROVE  (\E i \in 1 .. Len(idle_list) : idle_list[i] = u) /\ u # w
      <4>1. CASE j < k
        <5>1. j \in 1 .. Len(idle_list) /\ j # k /\ idle_list[j] = u
          BY <2>6, <3>1, <4>1
        <5> QED BY <2>2, <2>7, <5>1
      <4>2. CASE ~(j < k)
        <5>1. j + 1 \in 1 .. Len(idle_list) /\ j + 1 # k /\ idle_list[j + 1] = u
          BY <2>6, <3>1, <4>2
        <5> QED BY <2>2, <2>7, <5>1
      <4> QED BY <4>1, <4>2
    <3>2. ASSUME NEW j \in 1 .. Len(idle_list), idle_list[j] = u, u # w
          PROVE  \E i \in 1 .. Len(idle_list') : idle_list'[i] = u
      <4>1. j # k
        BY <2>2, <3>2
      <4>2. CASE j < k
        <5>1. j \in 1 .. Len(idle_list')
          BY <2>6, <4>2
        <5> QED BY <2>6, <3>2, <4>2, <5>1
      <4>3. CASE j > k
        <5>1. j - 1 \in 1 .. Len(idle_list') /\ ~(j - 1 < k) /\ j - 1 + 1 = j
          BY <2>6, <4>3
        <5>2. idle_list'[j - 1] = idle_list[j - 1 + 1]
          BY <2>6, <5>1
        <5> QED BY <3>2, <5>1, <5>2
      <4> QED BY <4>1, <4>2, <4>3
    <3> QED BY <3>1, <3>2
  <2>10. IdleExact'
    <3>1. \A u \in Worker : (pc'[u] = "asleep" /\ ~die'[u]) <=> \E j \in 1 .. Len(idle_list') : idle_list'[j] = u
      BY <1>1, <2>3, <2>9 DEF WorkerBooks, IdleExact
    <3>2. nr_idle' = Len(idle_list')
      BY <2>1, <2>6 DEF WorkerBooks, IdleExact
    <3> QED BY <2>5, <2>8, <3>1, <3>2 DEF IdleExact
  <2>11. DieAsleep'
    BY <1>1, <1>3, <2>3 DEF WorkerBooks, DieAsleep
  <2>12. Armed'
    BY <1>1, <2>1 DEF WorkerBooks, Armed, too_many_workers, TypeOK
  <2> QED BY <2>10, <2>11, <2>12 DEF WorkerBooks
<1> QED
  BY <1>2, <1>3

(* A worker that was not on the idle list goes to its front.               *)
LEMMA EnterIdleBooks ==
  ASSUME TypeOK, IdleExact, NEW v \in Worker, NEW n, EnterIdle(v, n),
         pc[v] # "asleep" \/ die[v]
  PROVE  /\ \A u \in Worker : (\E j \in 1 .. Len(idle_list') : idle_list'[j] = u)
                                <=> (\E j \in 1 .. Len(idle_list) : idle_list[j] = u) \/ u = v
         /\ \A j, k \in 1 .. Len(idle_list') : idle_list'[j] = idle_list'[k] => j = k
         /\ nr_idle' = Len(idle_list')
<1>1. /\ idle_list' = <<v>> \o idle_list /\ nr_idle' = nr_idle + 1
      /\ idle_list \in Seq(Worker) /\ Len(idle_list) \in Nat
  BY LenProperties DEF EnterIdle, TypeOK
<1>2. /\ Len(idle_list') = Len(idle_list) + 1
      /\ \A j \in 1 .. Len(idle_list) + 1 : idle_list'[j] = IF j = 1 THEN v ELSE idle_list[j - 1]
  <2>1. <<v>> \in Seq(Worker) /\ Len(<<v>>) = 1 /\ <<v>>[1] = v
    OBVIOUS
  <2> QED BY <1>1, <2>1, ConcatProperties
<1>3. ~\E j \in 1 .. Len(idle_list) : idle_list[j] = v
  BY DEF IdleExact
<1>4. \A j, k \in 1 .. Len(idle_list) : idle_list[j] = idle_list[k] => j = k
  BY DEF IdleExact
<1>5. ASSUME NEW u \in Worker
      PROVE  (\E j \in 1 .. Len(idle_list') : idle_list'[j] = u)
               <=> (\E j \in 1 .. Len(idle_list) : idle_list[j] = u) \/ u = v
  <2>1. ASSUME NEW j \in 1 .. Len(idle_list), idle_list[j] = u
        PROVE  \E i \in 1 .. Len(idle_list') : idle_list'[i] = u
    <3>1. j + 1 \in 1 .. Len(idle_list') /\ j + 1 # 1 /\ j + 1 - 1 = j
      BY <1>1, <1>2
    <3>2. idle_list'[j + 1] = idle_list[j + 1 - 1]
      BY <1>2, <3>1
    <3> QED BY <2>1, <3>1, <3>2
  <2>2. 1 \in 1 .. Len(idle_list') /\ idle_list'[1] = v
    BY <1>1, <1>2
  <2> QED BY <1>1, <1>2, <2>1, <2>2
<1>6. ASSUME NEW j \in 1 .. Len(idle_list'), NEW k \in 1 .. Len(idle_list'), idle_list'[j] = idle_list'[k]
      PROVE  j = k
  <2>1. CASE j = 1 /\ k # 1
    <3>1. k - 1 \in 1 .. Len(idle_list)
      BY <1>1, <1>2, <2>1
    <3> QED BY <1>2, <1>3, <1>6, <2>1, <3>1
  <2>2. CASE k = 1 /\ j # 1
    <3>1. j - 1 \in 1 .. Len(idle_list)
      BY <1>1, <1>2, <2>2
    <3> QED BY <1>2, <1>3, <1>6, <2>2, <3>1
  <2>3. CASE j # 1 /\ k # 1
    <3>1. j - 1 \in 1 .. Len(idle_list) /\ k - 1 \in 1 .. Len(idle_list)
      BY <1>1, <1>2, <2>3
    <3>2. idle_list[j - 1] = idle_list[k - 1]
      BY <1>2, <1>6, <2>3
    <3>3. j - 1 = k - 1
      BY <1>4, <3>1, <3>2
    <3> QED BY <1>1, <1>2, <3>3
  <2> QED BY <2>1, <2>2, <2>3
<1> QED
  BY <1>1, <1>2, <1>5, <1>6 DEF IdleExact

(* Going to sleep sets the timer if there are too many workers now.        *)
LEMMA SleepBooks ==
  ASSUME TypeOK, WorkerBooks, NEW w \in Worker, Sleep(w)
  PROVE  WorkerBooks'
<1>1. /\ pc[w] = "sleep" /\ pc' = [pc EXCEPT ![w] = "asleep"] /\ EnterIdle(w, nr_workers)
      /\ UNCHANGED <<nr_workers, manager, timer_cb, die>>
  BY DEF Sleep
<1>2. \A u \in Worker : pc'[u] = IF u = w THEN "asleep" ELSE pc[u]
  BY <1>1 DEF TypeOK
<1>3. ~die[w]
  BY <1>1 DEF WorkerBooks, DieAsleep
<1>4. Live' = Live
  BY <1>1, <1>2 DEF Live
<1>5. nr_workers' = Cardinality({u \in Worker : pc'[u] \notin {"none", "dying"} /\ ~die'[u]})
  BY <1>1, <1>4, LiveFacts DEF Live, WorkerBooks
<1>6. /\ \A u \in Worker : (\E j \in 1 .. Len(idle_list') : idle_list'[j] = u)
                                <=> (\E j \in 1 .. Len(idle_list) : idle_list[j] = u) \/ u = w
      /\ \A j, k \in 1 .. Len(idle_list') : idle_list'[j] = idle_list'[k] => j = k
      /\ nr_idle' = Len(idle_list')
  BY <1>1, EnterIdleBooks DEF WorkerBooks
<1>7. \A u \in Worker : (pc'[u] = "asleep" /\ ~die'[u]) <=> \E j \in 1 .. Len(idle_list') : idle_list'[j] = u
  BY <1>1, <1>2, <1>3, <1>6 DEF WorkerBooks, IdleExact
<1>8. IdleExact' /\ DieAsleep'
  BY <1>1, <1>2, <1>5, <1>6, <1>7 DEF WorkerBooks, IdleExact, DieAsleep
<1>9. Armed'
  BY <1>1 DEF Armed, EnterIdle, too_many_workers
<1> QED
  BY <1>8, <1>9 DEF WorkerBooks

(* The new worker is counted, idle, and the timer is set if it is one too  *)
(* many.                                                                   *)
LEMMA CreateWorkerBooks ==
  ASSUME TypeOK, WorkerBooks, NEW w \in Worker, NEW v \in Worker, CreateWorker(w, v)
  PROVE  WorkerBooks'
<1>1. /\ pc[w] = "create" /\ pc[v] = "none" /\ nr_workers' = nr_workers + 1
      /\ EnterIdle(v, nr_workers + 1)
      /\ pc' = [[pc EXCEPT ![w] = "relock"] EXCEPT ![v] = "asleep"]
      /\ UNCHANGED <<manager, timer_cb, die>>
  BY DEF CreateWorker
<1>2. /\ \A u \in Worker : pc'[u] = IF u = v THEN "asleep" ELSE IF u = w THEN "relock" ELSE pc[u]
      /\ \A u \in Worker : die'[u] <=> die[u]
  BY <1>1 DEF TypeOK
<1>3. ~die[v] /\ v # w
  BY <1>1 DEF WorkerBooks, DieAsleep
<1>4. Live' = Live \cup {v} /\ v \notin Live
  <2>1. pc[w] = "create" /\ pc[v] = "none"
    BY <1>1
  <2>2. \A u \in Worker : u \in Live' <=> u \in Live \/ u = v
    <3> SUFFICES ASSUME NEW u \in Worker PROVE u \in Live' <=> u \in Live \/ u = v
      OBVIOUS
    <3>1. u \in Live' <=> pc'[u] \notin {"none", "dying"} /\ ~die'[u]
      BY DEF Live
    <3>2. u \in Live <=> pc[u] \notin {"none", "dying"} /\ ~die[u]
      BY DEF Live
    <3>3. CASE u = v
      BY <1>2, <1>3, <3>1, <3>3
    <3>4. CASE u = w
      BY <1>2, <1>3, <2>1, <3>1, <3>2, <3>4
    <3>5. CASE u # v /\ u # w
      BY <1>2, <3>1, <3>2, <3>5
    <3> QED BY <3>3, <3>4, <3>5
  <2>3. Live' \in SUBSET Worker /\ Live \in SUBSET Worker /\ v \notin Live
    BY <1>1 DEF Live
  <2> HIDE DEF Live
  <2> QED BY <2>2, <2>3
<1>5. nr_workers' = Cardinality({u \in Worker : pc'[u] \notin {"none", "dying"} /\ ~die'[u]})
  <2>1. IsFiniteSet(Live) /\ nr_workers = Cardinality(Live)
    BY LiveFacts DEF WorkerBooks
  <2>2. Cardinality(Live \cup {v}) = Cardinality(Live) + 1
    BY <1>4, <2>1, FS_AddElement
  <2> QED BY <1>1, <1>4, <2>1, <2>2 DEF Live
<1>6. /\ \A u \in Worker : (\E j \in 1 .. Len(idle_list') : idle_list'[j] = u)
                                <=> (\E j \in 1 .. Len(idle_list) : idle_list[j] = u) \/ u = v
      /\ \A j, k \in 1 .. Len(idle_list') : idle_list'[j] = idle_list'[k] => j = k
      /\ nr_idle' = Len(idle_list')
  BY <1>1, EnterIdleBooks DEF WorkerBooks
<1>7. \A u \in Worker : (pc'[u] = "asleep" /\ ~die'[u]) <=> \E j \in 1 .. Len(idle_list') : idle_list'[j] = u
  <2> SUFFICES ASSUME NEW u \in Worker
               PROVE  (pc'[u] = "asleep" /\ ~die'[u]) <=> \E j \in 1 .. Len(idle_list') : idle_list'[j] = u
    OBVIOUS
  <2>1. pc[w] = "create"
    BY <1>1
  <2>2. (pc[u] = "asleep" /\ ~die[u]) <=> \E j \in 1 .. Len(idle_list) : idle_list[j] = u
    BY DEF WorkerBooks, IdleExact
  <2>3. (pc'[u] = "asleep" /\ ~die'[u]) <=> (pc[u] = "asleep" /\ ~die[u]) \/ u = v
    BY <1>2, <1>3, <2>1
  <2> QED BY <1>6, <2>2, <2>3
<1>8. IdleExact'
  BY <1>5, <1>6, <1>7 DEF IdleExact
<1>9. DieAsleep'
  <2> SUFFICES ASSUME NEW u \in Worker, die'[u] PROVE pc'[u] \in {"asleep", "dying"}
    BY DEF DieAsleep
  <2>1. pc[u] \in {"asleep", "dying"}
    BY <1>2 DEF WorkerBooks, DieAsleep
  <2>2. u # w
    BY <1>1, <2>1
  <2> QED BY <1>2, <2>1, <2>2
<1>10. Armed'
  BY <1>1 DEF Armed, EnterIdle, too_many_workers
<1> QED
  BY <1>8, <1>9, <1>10 DEF WorkerBooks

(* The end of a dying worker: it was no longer counted.                    *)
LEMMA DyingBooks ==
  ASSUME TypeOK, WorkerBooks, NEW w \in Worker, Dying(w)
  PROVE  WorkerBooks'
<1>1. /\ pc[w] = "dying" /\ pc' = [pc EXCEPT ![w] = "none"] /\ die' = [die EXCEPT ![w] = FALSE]
      /\ UNCHANGED <<idle_list, nr_idle, nr_workers, manager, idle_timer, timer_cb>>
  BY DEF Dying, idleVars
<1>2. /\ \A u \in Worker : pc'[u] = IF u = w THEN "none" ELSE pc[u]
      /\ \A u \in Worker : die'[u] <=> die[u] /\ u # w
  BY <1>1 DEF TypeOK
<1>3. Live' = Live
  BY <1>1, <1>2 DEF Live
<1>4. nr_workers' = Cardinality({u \in Worker : pc'[u] \notin {"none", "dying"} /\ ~die'[u]})
  BY <1>1, <1>3, LiveFacts DEF Live, WorkerBooks
<1>5. IdleExact' /\ DieAsleep'
  BY <1>1, <1>2, <1>4 DEF WorkerBooks, IdleExact, DieAsleep
<1>6. Armed'
  BY <1>1 DEF WorkerBooks, Armed, too_many_workers
<1> QED
  BY <1>5, <1>6 DEF WorkerBooks

(* The workers that the idle timer destroys are as many as it counts.      *)
LEMMA DeadCount ==
  ASSUME NEW S, NEW s \in Seq(S), NEW k \in 0 .. Len(s),
         \A i, j \in 1 .. Len(s) : s[i] = s[j] => i = j,
         NEW dead, \A x : x \in dead <=> \E j \in Len(s) - k + 1 .. Len(s) : s[j] = x
  PROVE  IsFiniteSet(dead) /\ Cardinality(dead) = k
<1> DEFINE I == Len(s) - k + 1 .. Len(s)
           f == [j \in I |-> s[j]]
<1>1. Len(s) \in Nat /\ k \in Nat /\ I \in SUBSET (1 .. Len(s))
  BY LenProperties
<1>2. IsFiniteSet(I) /\ Cardinality(I) = k
  <2> PICK a : a = Len(s) - k + 1
    OBVIOUS
  <2>1. a \in Int /\ Len(s) \in Int
    BY <1>1
  <2>2. /\ IsFiniteSet(a .. Len(s))
        /\ Cardinality(a .. Len(s)) = IF a > Len(s) THEN 0 ELSE Len(s) - a + 1
    BY <2>1, FS_Interval
  <2>3. (IF a > Len(s) THEN 0 ELSE Len(s) - a + 1) = k
    BY <1>1
  <2> QED BY <2>2, <2>3
<1>3. f \in Bijection(I, dead)
  <2>1. f \in [I -> dead]
    OBVIOUS
  <2>2. \A i, j \in I : f[i] = f[j] => i = j
    <3> HIDE DEF I
    <3> QED BY <1>1
  <2>3. \A x \in dead : \E j \in I : f[j] = x
    OBVIOUS
  <2> HIDE DEF I, f
  <2> QED BY <2>1, <2>2, <2>3 DEF Bijection, Injection, Surjection, IsInjective
<1>4. ExistsBijection(I, dead)
  <2> HIDE DEF I, f
  <2> QED BY <1>3 DEF ExistsBijection
<1> HIDE DEF I, f
<1> QED
  BY <1>2, <1>4, FS_Bijection

(* The idle timer's handler counts down as many workers as it tells to     *)
(* die, and sets itself again if too many are left.                        *)
LEMMA IdleWorkerTimeoutBooks ==
  ASSUME TypeOK, WorkerBooks, IdleWorkerTimeout
  PROVE  WorkerBooks'
<1>1. PICK k \in 0 .. Len(idle_list) :
        /\ idle_list' = SubSeq(idle_list, 1, Len(idle_list) - k)
        /\ nr_idle' = nr_idle - k /\ nr_workers' = nr_workers - k
        /\ idle_timer' = (idle_timer \/ too_many_workers(nr_idle - k, nr_workers - k))
        /\ die' = [w \in Worker |->
                     die[w] \/ w \in {idle_list[j] : j \in Len(idle_list) - k + 1 .. Len(idle_list)}]
  BY DEF IdleWorkerTimeout
<1> DEFINE s == idle_list
           dead == {idle_list[j] : j \in Len(idle_list) - k + 1 .. Len(idle_list)}
<1>2. UNCHANGED <<pc, manager>> /\ \A w \in Worker : die'[w] <=> (die[w] \/ w \in dead)
  BY <1>1 DEF IdleWorkerTimeout
<1>3. /\ idle_list \in Seq(Worker) /\ Len(idle_list) \in Nat /\ k \in Nat /\ nr_idle = Len(idle_list)
      /\ \A i, j \in 1 .. Len(idle_list) : idle_list[i] = idle_list[j] => i = j
      /\ \A w \in Worker : (pc[w] = "asleep" /\ ~die[w]) <=> \E j \in 1 .. Len(idle_list) : idle_list[j] = w
  BY LenProperties DEF TypeOK, WorkerBooks, IdleExact
<1>4. /\ Len(idle_list') = Len(idle_list) - k
      /\ \A j \in 1 .. Len(idle_list) - k : idle_list'[j] = idle_list[j]
  <2>1. Len(idle_list) - k \in Int /\ Len(idle_list) - k <= Len(idle_list) /\ Len(idle_list) - k >= 0
    BY <1>3
  <2> QED BY <1>1, <1>3, <2>1, SubSeqType
<1>5. IsFiniteSet(dead) /\ Cardinality(dead) = k
  <2>1. \A x : x \in dead <=> \E j \in Len(idle_list) - k + 1 .. Len(idle_list) : idle_list[j] = x
    OBVIOUS
  <2> HIDE DEF dead
  <2>2. idle_list \in Seq(Worker) /\ k \in 0 .. Len(idle_list)
    BY <1>1, <1>3
  <2>3. \A i, j \in 1 .. Len(idle_list) : idle_list[i] = idle_list[j] => i = j
    BY <1>3
  <2> QED BY <2>1, <2>2, <2>3, DeadCount, Zenon
<1>6. \A w \in Worker : w \in dead <=> \E j \in 1 .. Len(idle_list) : idle_list[j] = w /\ j > Len(idle_list) - k
  BY <1>3
<1> HIDE DEF dead
<1>7. dead \in SUBSET Live /\ Live' = Live \ dead
  <2>1. dead \in SUBSET Worker
    BY <1>3, ElementOfSeq DEF dead
  <2>2. \A w \in dead : pc[w] = "asleep" /\ ~die[w]
    BY <1>3, <1>6, <2>1
  <2> QED BY <1>2, <2>1, <2>2 DEF Live
<1>8. nr_workers' = Cardinality({u \in Worker : pc'[u] \notin {"none", "dying"} /\ ~die'[u]})
  <2>1. IsFiniteSet(Live) /\ nr_workers = Cardinality(Live)
    BY LiveFacts DEF WorkerBooks
  <2>2. Live \cap dead = dead
    BY <1>7
  <2>3. Cardinality(Live \ dead) = Cardinality(Live) - Cardinality(Live \cap dead)
    BY <2>1, FS_Difference
  <2> QED BY <1>1, <1>5, <1>7, <2>1, <2>2, <2>3 DEF Live
<1>9. ASSUME NEW w \in Worker
      PROVE  (pc'[w] = "asleep" /\ ~die'[w]) <=> \E j \in 1 .. Len(idle_list') : idle_list'[j] = w
  <2>1. (pc'[w] = "asleep" /\ ~die'[w])
          <=> (\E j \in 1 .. Len(idle_list) : idle_list[j] = w) /\ w \notin dead
    BY <1>2, <1>3
  <2>2. ASSUME NEW j \in 1 .. Len(idle_list), idle_list[j] = w, w \notin dead
        PROVE  \E i \in 1 .. Len(idle_list') : idle_list'[i] = w
    <3>1. ~(j > Len(idle_list) - k)
      BY <1>6, <2>2
    <3>2. j \in 1 .. Len(idle_list') /\ j \in 1 .. Len(idle_list) - k
      BY <1>3, <1>4, <3>1
    <3> QED BY <1>4, <2>2, <3>2
  <2>3. ASSUME NEW j \in 1 .. Len(idle_list'), idle_list'[j] = w
        PROVE  (\E i \in 1 .. Len(idle_list) : idle_list[i] = w) /\ w \notin dead
    <3>1. j \in 1 .. Len(idle_list) /\ j <= Len(idle_list) - k /\ idle_list[j] = w
      BY <1>3, <1>4, <2>3
    <3>2. w \notin dead
      BY <1>3, <1>6, <3>1
    <3> QED BY <3>1, <3>2
  <2> QED BY <2>1, <2>2, <2>3
<1>10. \A i, j \in 1 .. Len(idle_list') : idle_list'[i] = idle_list'[j] => i = j
  <2>1. \A i \in 1 .. Len(idle_list') : i \in 1 .. Len(idle_list) /\ idle_list'[i] = idle_list[i]
    BY <1>3, <1>4
  <2> QED BY <1>3, <2>1
<1>11. IdleExact'
  BY <1>1, <1>3, <1>4, <1>8, <1>9, <1>10 DEF IdleExact
<1>12. DieAsleep'
  BY <1>2, <1>3, <1>6 DEF WorkerBooks, DieAsleep
<1>13. Armed'
  BY <1>1, <1>2 DEF Armed, too_many_workers
<1> QED
  BY <1>11, <1>12, <1>13 DEF WorkerBooks
-----------------------------------------------------------------------------
(* The books about the works: chains and slots                             *)

(* The works of pwq q that hold a slot while they are queued, and while    *)
(* they are executed.                                                      *)
OnSlot(q) == {x \in Work : data[x].high = q /\ ~data[x].delayed}
BySlot(q) == {w \in Worker : current_pwq[w] = q /\ current_work[w] \in Work}

(* Whether work x is on the delayed_works of q.                            *)
Waits(q, x) == \E k \in 1 .. Len(delayed_works[q]) : delayed_works[q][k] = x

(* MaxActiveExact for one pwq.                                             *)
SlotsOf(q) == /\ nr_active[q] = Cardinality(OnSlot(q)) + Cardinality(BySlot(q))
              /\ nr_active[q] <= MaxActive[q]
              /\ delayed_works[q] # <<>> => nr_active[q] = MaxActive[q]
              /\ \A x \in Work : (data[x].high = q /\ data[x].delayed) <=> Waits(q, x)

WorkBooks == ScheduledHeld /\ Chained(Placed, data) /\ MaxActiveExact

(* That is MaxActiveExact, before and after a step.                        *)
LEMMA SlotsAs == MaxActiveExact <=> \A q \in Pwq : SlotsOf(q)
  BY DEF MaxActiveExact, SlotsOf, Active, OnSlot, BySlot, Waits

(* The same for the state after a step.                                    *)
LEMMA SlotsAsNext == MaxActiveExact' <=> \A q \in Pwq : SlotsOf(q)'
  BY DEF MaxActiveExact, SlotsOf, Active, OnSlot, BySlot, Waits

(* Those sets are finite.                                                  *)
LEMMA SlotSets ==
  ASSUME NEW q
  PROVE  /\ IsFiniteSet(OnSlot(q)) /\ Cardinality(OnSlot(q)) \in Nat
         /\ IsFiniteSet(BySlot(q)) /\ Cardinality(BySlot(q)) \in Nat
<1>1. OnSlot(q) \in SUBSET Work /\ BySlot(q) \in SUBSET Worker
  BY DEF OnSlot, BySlot
<1>2. IsFiniteSet(Work) /\ IsFiniteSet(Worker)
  BY PoolAssumption
<1>3. IsFiniteSet(OnSlot(q)) /\ IsFiniteSet(BySlot(q))
  BY <1>1, <1>2, FS_Subset
<1> QED
  BY <1>3, FS_CardinalityType

(* A step that changes no slot and nothing in the delayed_works of q.      *)
LEMMA SlotFrame ==
  ASSUME NEW q \in Pwq, SlotsOf(q), nr_active'[q] = nr_active[q],
         \A x \in Work : /\ data'[x].high = q <=> data[x].high = q
                         /\ data[x].high = q => (data'[x].delayed <=> data[x].delayed)
                         /\ Waits(q, x)' <=> Waits(q, x),
         \A w \in Worker : (current_pwq'[w] = q /\ current_work'[w] \in Work)
                             <=> (current_pwq[w] = q /\ current_work[w] \in Work),
         delayed_works'[q] # <<>> => delayed_works[q] # <<>>
  PROVE  SlotsOf(q)'
<1>1. OnSlot(q)' = OnSlot(q)
  BY DEF OnSlot
<1>2. BySlot(q)' = BySlot(q)
  BY DEF BySlot
<1> QED
  BY <1>1, <1>2 DEF SlotsOf

(* A step that moves items between the worklist and the scheduled lists.   *)
LEMMA SlotsKept ==
  ASSUME MaxActiveExact, UNCHANGED <<nr_active, delayed_works, current_pwq, current_work>>,
         \A x \in Work : data'[x].high = data[x].high /\ (data'[x].delayed <=> data[x].delayed)
  PROVE  MaxActiveExact'
<1>1. \A q \in Pwq : SlotsOf(q)
  BY SlotsAs
<1>2. ASSUME NEW q \in Pwq PROVE SlotsOf(q)'
  <2>1. \A x \in Work : Waits(q, x)' <=> Waits(q, x)
    BY DEF Waits
  <2>2. SlotsOf(q)
    BY <1>1
  <2> QED BY <2>1, <2>2, SlotFrame
<1> QED
  BY <1>2, SlotsAsNext

(* test_and_set of PENDING keeps the books.                                *)
LEMMA SetPendingBooks ==
  ASSUME TypeOK, TypeOK', WorkBooks, NEW x \in Work, NEW q \in Pwq, SetPending(x, q)
  PROVE  WorkBooks'
<1>1. /\ UNCHANGED <<nr_active, delayed_works, current_pwq, current_work, pc, worklist, scheduled>>
      /\ data' = [data EXCEPT ![x].pending = TRUE]
  BY DEF SetPending, busyVars
<1>2. \A i \in Item : /\ data'[i].high = data[i].high /\ data'[i].delayed = data[i].delayed
                      /\ data'[i].linked = data[i].linked
  BY <1>1, ItemFacts DEF TypeOK, Word
<1>3. MaxActiveExact'
  BY <1>1, <1>2, ItemFacts, SlotsKept DEF WorkBooks
<1>4. Placed' = Placed /\ Placed \in [Heads -> Seq(Item)]
  BY <1>1, PlacedFacts DEF Placed
<1>5. Chained(Placed', data')
  BY <1>2, <1>4, SameLinks DEF WorkBooks
<1>6. ScheduledHeld'
  BY <1>1 DEF WorkBooks, ScheduledHeld
<1> QED
  BY <1>3, <1>5, <1>6 DEF WorkBooks

(* A queued work takes a slot, or waits because none is free.              *)
LEMMA QueueWorkSlots ==
  ASSUME TypeOK, TypeOK', ListInv, MaxActiveExact, NEW x \in Work, QueueWork(x), ~OnList(x)
  PROVE  MaxActiveExact'
<1>1. PICK q \in Pwq : q = queueing[x]
  BY QueueWorkAppends
<1>2. data' = [data EXCEPT ![x] = [pending |-> TRUE, delayed |-> nr_active[q] >= MaxActive[q],
                                   linked |-> FALSE, canceling |-> FALSE, high |-> q]]
  BY <1>1, QueueWorkAppends
<1>3. /\ UNCHANGED <<current_pwq, current_work>>
      /\ nr_active[q] >= MaxActive[q] =>
           /\ delayed_works' = [delayed_works EXCEPT ![q] = Append(delayed_works[q], x)]
           /\ nr_active' = nr_active
      /\ ~(nr_active[q] >= MaxActive[q]) =>
           /\ nr_active' = [nr_active EXCEPT ![q] = nr_active[q] + 1]
           /\ delayed_works' = delayed_works
  BY <1>1 DEF QueueWork, busyVars
<1>4. /\ x \in Item /\ data[x].high \notin Pwq
      /\ nr_active[q] \in Int /\ MaxActive[q] \in Nat /\ delayed_works[q] \in Seq(Item)
  BY ItemFacts, PoolAssumption DEF ListInv, QueuedOnce, TypeOK
<1>5. /\ \A y \in Work \ {x} : data'[y] = data[y]
      /\ data'[x].high = q /\ (data'[x].delayed <=> nr_active[q] >= MaxActive[q])
  BY <1>2, <1>4, ItemFacts DEF TypeOK
<1>6. \A p \in Pwq : SlotsOf(p)
  BY SlotsAs
<1>7. ASSUME NEW p \in Pwq, p # q PROVE SlotsOf(p)'
  <2>1. delayed_works'[p] = delayed_works[p] /\ nr_active'[p] = nr_active[p]
    BY <1>3, <1>7 DEF TypeOK
  <2>2. \A y \in Work : Waits(p, y)' <=> Waits(p, y)
    BY <2>1 DEF Waits
  <2>3. \A y \in Work : /\ data'[y].high = p <=> data[y].high = p
                        /\ data[y].high = p => (data'[y].delayed <=> data[y].delayed)
    BY <1>4, <1>5, <1>7
  <2>4. \A w \in Worker : (current_pwq'[w] = p /\ current_work'[w] \in Work)
                             <=> (current_pwq[w] = p /\ current_work[w] \in Work)
    BY <1>3
  <2>5. SlotsOf(p)
    BY <1>6
  <2> QED BY <2>1, <2>2, <2>3, <2>4, <2>5, SlotFrame
<1>8. SlotsOf(q)'
  <2>1. BySlot(q)' = BySlot(q)
    BY <1>3 DEF BySlot
  <2>2. x \notin OnSlot(q)
    BY <1>4 DEF OnSlot
  <2>3. CASE nr_active[q] >= MaxActive[q]
    <3>1. OnSlot(q)' = OnSlot(q)
      BY <1>4, <1>5, <2>3 DEF OnSlot
    <3>2. delayed_works'[q] = Append(delayed_works[q], x) /\ nr_active'[q] = nr_active[q]
      BY <1>3, <2>3 DEF TypeOK
    <3>3. nr_active[q] = MaxActive[q]
      BY <1>4, <1>6, <2>3 DEF SlotsOf
    <3>4. /\ Len(delayed_works[q]) \in Nat /\ Len(delayed_works'[q]) = Len(delayed_works[q]) + 1
          /\ \A k \in 1 .. Len(delayed_works[q]) : delayed_works'[q][k] = delayed_works[q][k]
          /\ delayed_works'[q][Len(delayed_works[q]) + 1] = x
      BY <1>4, <3>2, AppendProperties, LenProperties
    <3>5. ASSUME NEW y \in Work PROVE Waits(q, y)' <=> Waits(q, y) \/ y = x
      <4>1. ASSUME NEW k \in 1 .. Len(delayed_works'[q]), delayed_works'[q][k] = y
            PROVE  Waits(q, y) \/ y = x
        BY SMTT(30), <3>4, <4>1 DEF Waits
      <4>2. ASSUME Waits(q, y) PROVE Waits(q, y)'
        BY <3>4, <4>2 DEF Waits
      <4>3. Waits(q, x)'
        <5>1. Len(delayed_works[q]) + 1 \in 1 .. Len(delayed_works'[q])
          BY <3>4
        <5> QED BY <3>4, <5>1 DEF Waits
      <4> QED BY <4>1, <4>2, <4>3 DEF Waits
    <3>6. \A y \in Work : (data'[y].high = q /\ data'[y].delayed) <=> Waits(q, y)'
      BY <1>5, <1>6, <2>3, <3>5 DEF SlotsOf
    <3> QED BY <1>6, <2>1, <3>1, <3>2, <3>3, <3>6 DEF SlotsOf
  <2>4. CASE ~(nr_active[q] >= MaxActive[q])
    <3>1. OnSlot(q)' = OnSlot(q) \cup {x}
      BY <1>5, <2>4 DEF OnSlot
    <3>2. Cardinality(OnSlot(q) \cup {x}) = Cardinality(OnSlot(q)) + 1
      BY <2>2, SlotSets, FS_AddElement
    <3>3. delayed_works'[q] = delayed_works[q] /\ nr_active'[q] = nr_active[q] + 1
      BY <1>3, <2>4 DEF TypeOK
    <3>4. delayed_works[q] = <<>>
      BY <1>4, <1>6, <2>4 DEF SlotsOf
    <3>5. nr_active'[q] = Cardinality(OnSlot(q)') + Cardinality(BySlot(q)')
      BY <1>6, <2>1, <3>1, <3>2, <3>3, SlotSets DEF SlotsOf
    <3>6. \A y \in Work : Waits(q, y)' <=> Waits(q, y)
      BY <3>3 DEF Waits
    <3>7. ~Waits(q, x)
      BY <1>4, <1>6 DEF SlotsOf
    <3>8. \A y \in Work : (data'[y].high = q /\ data'[y].delayed) <=> Waits(q, y)'
      BY <1>5, <1>6, <2>4, <3>6, <3>7 DEF SlotsOf
    <3>9. nr_active'[q] <= MaxActive[q]
      BY <1>4, <2>4, <3>3
    <3> QED BY <3>3, <3>4, <3>5, <3>8, <3>9 DEF SlotsOf
  <2> QED BY <2>3, <2>4
<1> QED
  BY <1>7, <1>8, SlotsAsNext

(* queue_work() keeps the books.                                           *)
LEMMA QueueWorkBooks ==
  ASSUME TypeOK, TypeOK', ListInv, WorkBooks, NEW x \in Work, QueueWork(x)
  PROVE  WorkBooks'
<1>1. /\ UNCHANGED <<pc, scheduled, current_pwq, current_work>>
      /\ x \in Item /\ x \notin Barrier
  BY ItemFacts, PoolAssumption DEF QueueWork, busyVars
<1>2. ScheduledHeld'
  BY <1>1 DEF WorkBooks, ScheduledHeld
<1>3. CASE OnList(x)
  <2>1. UNCHANGED <<worklist, delayed_works, nr_active, data>>
    BY <1>3 DEF QueueWork, listVars
  <2>2. Placed' = Placed
    BY <1>1, <2>1 DEF Placed
  <2> QED BY <1>1, <1>2, <2>1, <2>2, SlotsKept DEF WorkBooks
<1>4. CASE ~OnList(x)
  <2>1. PICK h : Appends(Item, Heads, Placed, Placed', h, x)
    BY <1>4, QueueWorkAppends
  <2>2. data' = [data EXCEPT ![x] =
                  [pending |-> TRUE, delayed |-> nr_active[queueing[x]] >= MaxActive[queueing[x]],
                   linked |-> FALSE, canceling |-> FALSE, high |-> queueing[x]]]
    BY <1>4, QueueWorkAppends
  <2>3. ~data'[x].linked /\ \A y \in Item \ {x} : data'[y].linked = data[y].linked
    BY <1>1, <2>2 DEF TypeOK
  <2>4. ~On(Placed, Heads, x)
    BY <1>4 DEF OnList, On, Placed, Places, At
  <2>5. Chained(Placed, data')
    <3>1. Placed \in [Heads -> Seq(Item)]
      BY PlacedFacts
    <3>2. \A h2 \in Heads : \A k \in 1 .. Len(Placed[h2]) :
            Placed[h2][k] \in Item /\ Placed[h2][k] # x
      BY <2>4, <3>1, ElementOfSeq DEF On
    <3>3. Follow(Placed, data')
      BY <2>3, <3>2 DEF WorkBooks, Chained, Follow
    <3>4. Preceded(Placed, data')
      <4> SUFFICES ASSUME NEW p \in Pwq, NEW k \in 1 .. Len(Placed[p]), Placed[p][k] \in Barrier
                   PROVE  k > 1 /\ data'[Placed[p][k - 1]].linked
        BY DEF Preceded
      <4>1. k > 1 /\ data[Placed[p][k - 1]].linked /\ p \in Heads /\ Len(Placed[p]) \in Nat
        BY <3>1, HeadFacts, LenProperties DEF WorkBooks, Chained, Preceded
      <4>2. k - 1 \in 1 .. Len(Placed[p])
        BY <4>1
      <4> QED BY <2>3, <3>2, <4>1, <4>2
    <3> QED BY <3>3, <3>4 DEF Chained
  <2>6. Chained(Placed', data')
    BY <1>1, <2>1, <2>3, <2>5, ChainedAppends
  <2> QED BY <1>2, <1>4, <2>6, QueueWorkSlots DEF WorkBooks
<1> QED
  BY <1>3, <1>4

(* A list with a barrier behind x has the other items it had.              *)
LEMMA BehindIn ==
  ASSUME NEW s \in Seq(Item), NEW x, NEW b \in Item
  PROVE  /\ \A y : y # b => (In(Behind(s, x, b), y) <=> In(s, y))
         /\ Behind(s, x, b) # <<>> => s # <<>>
<1>1. CASE ~In(s, x)
  BY <1>1, BehindFacts
<1>2. CASE In(s, x)
  <2> DEFINE t == Behind(s, x, b)
  <2>1. PICK k \in 1 .. Len(s) :
          /\ Len(t) = Len(s) + 1
          /\ \A j \in 1 .. Len(s) + 1 : t[j] = IF j <= k THEN s[j] ELSE IF j = k + 1 THEN b ELSE s[j - 1]
    BY <1>2, BehindFacts
  <2>2. Len(s) \in Nat
    BY LenProperties
  <2> HIDE DEF t
  <2>3. ASSUME NEW y, y # b, In(t, y) PROVE In(s, y)
    <3>1. PICK j \in 1 .. Len(t) : t[j] = y
      BY <2>3 DEF In
    <3>2. CASE j <= k
      <4>1. j \in 1 .. Len(s) /\ s[j] = y
        BY <2>1, <2>2, <3>1, <3>2
      <4> QED BY <4>1 DEF In
    <3>3. CASE j > k
      <4>1. j # k + 1
        BY <2>1, <2>2, <2>3, <3>1, <3>3
      <4>2. j - 1 \in 1 .. Len(s) /\ s[j - 1] = y
        BY <2>1, <2>2, <3>1, <3>3, <4>1
      <4> QED BY <4>2 DEF In
    <3> QED BY <2>1, <2>2, <3>1, <3>2, <3>3
  <2>4. ASSUME NEW y, In(s, y) PROVE In(t, y)
    <3>1. PICK j \in 1 .. Len(s) : s[j] = y
      BY <2>4 DEF In
    <3>2. CASE j <= k
      <4>1. j \in 1 .. Len(t) /\ t[j] = y
        BY <2>1, <2>2, <3>1, <3>2
      <4> QED BY <4>1 DEF In
    <3>3. CASE j > k
      <4>1. j + 1 \in 1 .. Len(s) + 1 /\ ~(j + 1 <= k) /\ j + 1 # k + 1 /\ j + 1 - 1 = j
        BY <2>1, <2>2, <3>1, <3>3
      <4>2. t[j + 1] = s[j + 1 - 1]
        BY <2>1, <4>1
      <4>3. j + 1 \in 1 .. Len(t) /\ t[j + 1] = y
        BY <2>1, <3>1, <4>1, <4>2
      <4> QED BY <4>3 DEF In
    <3> QED BY <2>1, <2>2, <3>1, <3>2, <3>3
  <2>5. s # <<>>
    BY <2>1, <2>2, EmptySeq
  <2> QED BY <2>3, <2>4, <2>5 DEF t
<1> QED
  BY <1>1, <1>2

(* A barrier takes no slot, and keeps the books.                           *)
LEMMA FlushWorkBooks ==
  ASSUME TypeOK, TypeOK', Busy, ListInv, ListInv', WorkBooks, NEW x \in Work, NEW b \in Barrier,
         FlushWork(x, b)
  PROVE  WorkBooks'
<1>1. /\ x \in Item /\ b \in Item /\ x # b /\ \A y \in Work : y \in Item /\ y # b
      /\ UNCHANGED <<pc, nr_active, current_pwq, current_work>>
  BY ItemFacts, PoolAssumption DEF FlushWork, InsertBarrier
<1>2. ScheduledHeld'
  <2> SUFFICES ASSUME NEW w \in Worker, scheduled'[w] # <<>> PROVE pc[w] \in {"exec", "ret", "sched"}
    BY <1>1 DEF ScheduledHeld
  <2>1. CASE BarrierBehindTarget(x, b)
    <3>1. scheduled'[w] = Behind(scheduled[w], x, b) /\ scheduled[w] \in Seq(Item)
      BY <2>1 DEF BarrierBehindTarget, TypeOK
    <3>2. scheduled[w] # <<>>
      BY <1>1, <3>1, BehindIn
    <3> QED BY <3>2 DEF WorkBooks, ScheduledHeld
  <2>2. CASE BarrierAtWorker(x, b)
    <3>1. PICK v \in Executing(x) : scheduled' = [scheduled EXCEPT ![v] = <<b>> \o scheduled[v]]
      BY <2>2 DEF BarrierAtWorker
    <3>2. v \in Worker /\ pc[v] \in {"exec", "ret"}
      BY ExecutingPwq DEF ListInv
    <3>3. w # v => scheduled'[w] = scheduled[w]
      BY <3>1 DEF TypeOK
    <3> QED BY <3>2, <3>3 DEF WorkBooks, ScheduledHeld
  <2> QED BY <2>1, <2>2 DEF FlushWork, InsertBarrier
<1>3. PICK g, k :
        /\ Inserts(Item, Heads, Placed, Placed', g, k, b)
        /\ \/ /\ k = 0 /\ g \in Executing(x) /\ g \in Worker /\ data[x].high \notin Pwq
              /\ UNCHANGED delayed_works
              /\ \E p \in Pwq : data' = [data EXCEPT ![b] = BarrierWord(p, FALSE)]
           \/ /\ k > 0 /\ Placed[g][k] = x /\ data[x].high \in Pwq
              /\ data' = [data EXCEPT ![b] = BarrierWord(data[x].high, data[x].linked),
                                      ![x].linked = TRUE]
              /\ delayed_works' = [q \in Pwq |-> Behind(delayed_works[q], x, b)]
  BY FlushWorkInserts, Zenon
<1>4. Injective(Placed', Heads)
  BY QueuedOnceAsNext DEF ListInv
<1>5. CASE /\ k = 0 /\ g \in Worker /\ UNCHANGED delayed_works
           /\ \E p \in Pwq : data' = [data EXCEPT ![b] = BarrierWord(p, FALSE)]
  <2>1. /\ ~data'[b].linked /\ \A y \in Item \ {b} : data'[y] = data[y]
        /\ g \notin Pwq
    BY <1>1, <1>5, HeadFacts DEF TypeOK, BarrierWord
  <2>2. Chained(Placed', data')
    BY <1>3, <1>4, <1>5, <2>1, ChainedInserts DEF WorkBooks
  <2>3. MaxActiveExact'
    BY <1>1, <1>5, <2>1, SlotsKept DEF WorkBooks
  <2> QED BY <1>2, <2>2, <2>3 DEF WorkBooks
<1>6. CASE /\ k > 0 /\ Placed[g][k] = x /\ data[x].high \in Pwq
           /\ data' = [data EXCEPT ![b] = BarrierWord(data[x].high, data[x].linked),
                                   ![x].linked = TRUE]
           /\ delayed_works' = [q \in Pwq |-> Behind(delayed_works[q], x, b)]
  <2>1. /\ data'[b].linked = data[x].linked /\ data'[x].linked
        /\ \A y \in Item \ {b, x} : data'[y].linked = data[y].linked
        /\ \A y \in Item \ {b} : data'[y].high = data[y].high /\ data'[y].delayed = data[y].delayed
    <3> DEFINE d1 == [data EXCEPT ![b] = BarrierWord(data[x].high, data[x].linked)]
    <3>1. data' = [d1 EXCEPT ![x].linked = TRUE]
      BY <1>6
    <3>2. /\ d1 \in [Item -> Word] /\ d1[b].linked = data[x].linked
          /\ \A y \in Item \ {b} : d1[y] = data[y]
      <4>1. BarrierWord(data[x].high, data[x].linked) \in Word
        BY <1>1, <1>6, BarrierWordType DEF TypeOK, Word
      <4> QED BY <1>1, <4>1 DEF TypeOK, BarrierWord
    <3> HIDE DEF d1
    <3> QED BY <1>1, <3>1, <3>2 DEF Word
  <2>2. Chained(Placed', data')
    <3>1. Chained(Placed, data) /\ Inserts(Item, Heads, Placed, Placed', g, k, b) /\ k > 0
      BY <1>3, <1>6 DEF WorkBooks
    <3>2. data'[Placed[g][k]].linked /\ (data'[b].linked <=> data[Placed[g][k]].linked)
      BY <1>6, <2>1
    <3>3. \A y \in Item \ {b, Placed[g][k]} : data'[y].linked <=> data[y].linked
      BY <1>6, <2>1
    <3> QED BY <1>4, <3>1, <3>2, <3>3, ChainedInserts
  <2>3. ASSUME NEW q \in Pwq PROVE SlotsOf(q)'
    <3>1. delayed_works'[q] = Behind(delayed_works[q], x, b) /\ delayed_works[q] \in Seq(Item)
      BY <1>6 DEF TypeOK
    <3>2. /\ \A y \in Work : Waits(q, y)' <=> Waits(q, y)
          /\ delayed_works'[q] # <<>> => delayed_works[q] # <<>>
      <4>1. /\ \A y : y # b => (In(delayed_works'[q], y) <=> In(delayed_works[q], y))
            /\ delayed_works'[q] # <<>> => delayed_works[q] # <<>>
        BY <1>1, <3>1, BehindIn
      <4> QED BY <1>1, <4>1 DEF Waits, In
    <3>3. \A y \in Work : data'[y].high = data[y].high /\ data'[y].delayed = data[y].delayed
      BY <1>1, <2>1
    <3>4. SlotsOf(q)
      BY SlotsAs DEF WorkBooks
    <3> QED BY <1>1, <3>2, <3>3, <3>4, SlotFrame
  <2> QED BY <1>2, <2>2, <2>3, SlotsAsNext DEF WorkBooks
<1> QED
  BY <1>3, <1>5, <1>6

(* A claimed work keeps the slot it held on its list.                      *)
LEMMA ClaimSlots ==
  ASSUME TypeOK, TypeOK', Busy, ListInv, MaxActiveExact, NEW w \in Worker, pc[w] \in {"next", "sched"},
         NEW i \in Item, NEW g, g \notin Pwq, Drops(Item, Heads, Placed, Placed', g), Placed[g][1] = i,
         data' = [data EXCEPT ![i] = OffQueue(PoolId, FALSE)],
         current_work' = [current_work EXCEPT ![w] = i],
         current_pwq' = [current_pwq EXCEPT ![w] = data[i].high],
         UNCHANGED <<delayed_works, nr_active>>
  PROVE  MaxActiveExact'
<1>1. /\ On(Placed, Heads, i) /\ Injective(Placed, Heads) /\ Len(Placed[g]) > 0 /\ g \in Heads
      /\ Len(Placed[g]) \in Nat
  <2>1. Injective(Placed, Heads)
    BY QueuedOnceAs DEF ListInv
  <2>2. On(Placed, Heads, Placed[g][1])
    BY <2>1, DropFirst
  <2>3. g \in Heads
    BY DEF Drops
  <2>4. Len(Placed[g]) > 0 /\ \A f \in Heads : Len(Placed[f]) \in Nat
    BY DropElements
  <2> QED BY <2>1, <2>2, <2>3, <2>4
<1>2. data[i].high \in Pwq
  BY <1>1, QueuedOnceAs DEF ListInv
<1>3. \A q \in Pwq : ~Waits(q, i)
  <2> SUFFICES ASSUME NEW q \in Pwq, NEW k \in 1 .. Len(delayed_works[q]), delayed_works[q][k] = i
               PROVE  FALSE
    BY DEF Waits
  <2>1. Placed[q] = delayed_works[q] /\ q \in Heads
    BY PlacedFacts, HeadFacts
  <2>2. 1 \in 1 .. Len(Placed[g])
    BY <1>1
  <2>3. q = g
    BY <1>1, <2>1, <2>2 DEF Injective
  <2> QED BY <2>3
<1>4. current_work[w] = None
  BY DEF Busy
<1>5. /\ \A y \in Item \ {i} : data'[y] = data[y]
      /\ \A q \in Pwq : data'[i].high # q
      /\ \A u \in Worker \ {w} : current_work'[u] = current_work[u] /\ current_pwq'[u] = current_pwq[u]
      /\ current_work'[w] = i /\ current_pwq'[w] = data[i].high
  <2>1. data'[i].high = PoolId
    BY DEF TypeOK, OffQueue, WorkDataInit
  <2>2. \A q \in Pwq : data'[i].high # q
    BY <2>1, HeadFacts
  <2>3. \A y \in Item \ {i} : data'[y] = data[y]
    BY DEF TypeOK
  <2>4. /\ \A u \in Worker \ {w} : current_work'[u] = current_work[u] /\ current_pwq'[u] = current_pwq[u]
        /\ current_work'[w] = i /\ current_pwq'[w] = data[i].high
    BY DEF TypeOK
  <2> QED BY <2>2, <2>3, <2>4
<1>6. ASSUME NEW q \in Pwq PROVE SlotsOf(q)'
  <2>1. SlotsOf(q)
    BY SlotsAs
  <2>2. Waits(q, i) = FALSE /\ \A y \in Work : Waits(q, y)' <=> Waits(q, y)
    BY <1>3 DEF Waits
  <2>3. CASE i \in Work /\ data[i].high = q
    <3>1. ~data[i].delayed
      BY <1>3, <2>1, <2>3 DEF SlotsOf
    <3>2. i \in OnSlot(q) /\ OnSlot(q)' = OnSlot(q) \ {i}
      <4>1. \A y \in Work : (data'[y].high = q /\ ~data'[y].delayed)
                              <=> (data[y].high = q /\ ~data[y].delayed) /\ y # i
        BY <1>5, ItemFacts
      <4> QED BY <2>3, <3>1, <4>1 DEF OnSlot
    <3>3. w \notin BySlot(q) /\ BySlot(q)' = BySlot(q) \cup {w}
      <4>1. None \notin Work
        BY NoneFacts, ItemFacts
      <4>2. \A u \in Worker : (current_pwq'[u] = q /\ current_work'[u] \in Work)
                                <=> (current_pwq[u] = q /\ current_work[u] \in Work) \/ u = w
        BY <1>5, <2>3
      <4> QED BY <1>4, <4>1, <4>2 DEF BySlot
    <3>4. /\ Cardinality(OnSlot(q) \ {i}) = Cardinality(OnSlot(q)) - 1
          /\ Cardinality(BySlot(q) \cup {w}) = Cardinality(BySlot(q)) + 1
      <4>1. IsFiniteSet(OnSlot(q)) /\ IsFiniteSet(BySlot(q))
        BY SlotSets
      <4>2. Cardinality(OnSlot(q) \ {i}) = Cardinality(OnSlot(q)) - 1
        <5> PICK T : T = OnSlot(q)
          OBVIOUS
        <5>1. IsFiniteSet(T) /\ i \in T
          BY <3>2, <4>1
        <5>2. Cardinality(T \ {i}) = Cardinality(T) - 1
          BY <5>1, FS_RemoveElement
        <5> QED BY <5>2
      <4>3. Cardinality(BySlot(q) \cup {w}) = Cardinality(BySlot(q)) + 1
        BY <3>3, <4>1, FS_AddElement
      <4> QED BY <4>2, <4>3
    <3>5. nr_active'[q] = Cardinality(OnSlot(q)') + Cardinality(BySlot(q)')
      BY <2>1, <3>2, <3>3, <3>4, SlotSets DEF SlotsOf
    <3>6. \A y \in Work : (data'[y].high = q /\ data'[y].delayed) <=> Waits(q, y)'
      <4>1. \A y \in Work : (data[y].high = q /\ data[y].delayed) <=> Waits(q, y)
        BY <2>1 DEF SlotsOf
      <4>2. \A y \in Work \ {i} : data'[y] = data[y]
        BY <1>5, ItemFacts
      <4> SUFFICES ASSUME NEW y \in Work
                   PROVE  (data'[y].high = q /\ data'[y].delayed) <=> Waits(q, y)'
        OBVIOUS
      <4>3. Waits(q, y)' <=> Waits(q, y)
        BY <2>2
      <4>4. CASE y = i
        <5>1. data'[y].high # q /\ ~Waits(q, y)
          BY <1>3, <1>5, <4>4
        <5> QED BY <4>3, <5>1
      <4>5. CASE y # i
        <5>1. data'[y] = data[y]
          BY <4>2, <4>5
        <5> QED BY <4>1, <4>3, <5>1
      <4> QED BY <4>4, <4>5
    <3> QED BY <2>1, <3>5, <3>6 DEF SlotsOf
  <2>4. CASE ~(i \in Work /\ data[i].high = q)
    <3>1. \A y \in Work : /\ data'[y].high = q <=> data[y].high = q
                          /\ data[y].high = q => (data'[y].delayed <=> data[y].delayed)
      <4>1. \A y \in Work \ {i} : data'[y] = data[y]
        BY <1>5, ItemFacts
      <4> QED BY <1>5, <2>4, <4>1
    <3>2. \A u \in Worker : (current_pwq'[u] = q /\ current_work'[u] \in Work)
                              <=> (current_pwq[u] = q /\ current_work[u] \in Work)
      <4>1. None \notin Work
        BY NoneFacts, ItemFacts
      <4> QED BY <1>4, <1>5, <2>4, <4>1
    <3> QED BY <2>1, <2>2, <3>1, <3>2, SlotFrame
  <2> QED BY <2>3, <2>4
<1> QED
  BY <1>6, SlotsAsNext

(* process_one_work() keeps the books: what it claims has no LINKED bit    *)
(* any more, and what it hands over is a whole chain, to a worker that     *)
(* executes.                                                               *)
LEMMA ProcessOneWorkBooks ==
  ASSUME TypeOK, TypeOK', Busy, ListInv, WorkBooks, NEW w \in Worker,
         NEW from \in {"worklist", "scheduled"},
         pc[w] \in {"next", "sched"}, ProcessOneWork(w, from)
  PROVE  WorkBooks'
<1> DEFINE s == IF from = "worklist" THEN worklist ELSE scheduled[w]
<1>1. /\ s # <<>> /\ s \in Seq(Item)
      /\ Claim(w, from, Head(s)) \/ Defer(w, from, s)
      /\ s = (IF from = "worklist" THEN worklist ELSE scheduled[w])
      /\ UNCHANGED <<delayed_works, nr_active>>
  BY DEF ProcessOneWork, TypeOK
<1> HIDE DEF s
<1>2. CASE Claim(w, from, Head(s))
  <2>1. PICK g : g \notin Pwq /\ Placed[g] = s /\ Drops(Item, Heads, Placed, Placed', g)
    BY <1>1, <1>2, ClaimDrops
  <2> PICK i \in Item : i = Head(s) /\ i = s[1]
    BY <1>1, <1>2, ClaimDrops
  <2>2. /\ data' = [data EXCEPT ![i] = OffQueue(PoolId, FALSE)]
        /\ current_work' = [current_work EXCEPT ![w] = i]
        /\ current_pwq' = [current_pwq EXCEPT ![w] = data[i].high]
        /\ pc' = [pc EXCEPT ![w] = "exec"] /\ Take(w, from, 1)
    BY <1>2 DEF Claim
  <2>3. MaxActiveExact'
    BY <1>1, <2>1, <2>2, ClaimSlots DEF WorkBooks
  <2>4. ScheduledHeld'
    <3>1. \A u \in Worker \ {w} : scheduled'[u] = scheduled[u] /\ pc'[u] = pc[u]
      BY <2>2 DEF Take, TypeOK
    <3>2. pc'[w] = "exec"
      BY <2>2 DEF TypeOK
    <3> QED BY <3>1, <3>2 DEF WorkBooks, ScheduledHeld
  <2>5. Chained(Placed', data)
    BY <2>1, ChainedDrops DEF WorkBooks
  <2>6. \A y \in Item : data'[y].linked = (data[y].linked /\ y # i)
    <3>1. data \in [Item -> Word] /\ \A y \in Item : y # i => data'[y] = data[y]
      BY <2>2 DEF TypeOK
    <3>2. i \in Item => ~data'[i].linked
      BY <2>2, <3>1 DEF OffQueue, WorkDataInit
    <3>3. ASSUME NEW y \in Item PROVE data'[y].linked = (data[y].linked /\ y # i)
      <4>1. data[y].linked \in BOOLEAN /\ data'[y].linked \in BOOLEAN
        BY <1>1, <3>1 DEF TypeOK, Word
      <4>2. data'[y].linked <=> data[y].linked /\ y # i
        BY <3>1, <3>2
      <4> QED BY <4>1, <4>2
    <3> QED BY <3>3
  <2>7. ~On(Placed', Heads, i) /\ Placed' \in [Heads -> Seq(Item)]
    <3>1. Injective(Placed, Heads)
      BY QueuedOnceAs DEF ListInv
    <3>2. ~On(Placed', Heads, Placed[g][1])
      BY <2>1, <3>1, DropFirst
    <3>3. Placed' \in [Heads -> Seq(Item)]
      BY <2>1 DEF Drops
    <3>4. i = Placed[g][1]
      BY <1>1, <2>1
    <3> QED BY <3>2, <3>3, <3>4
  <2>8. \A h \in Heads : \A k \in 1 .. Len(Placed'[h]) : Placed'[h][k] \in Item /\ Placed'[h][k] # i
    BY <2>7, ElementOfSeq DEF On
  <2>9. Follow(Placed', data')
    BY <2>5, <2>6, <2>8 DEF Chained, Follow
  <2>10. Preceded(Placed', data')
    <3> SUFFICES ASSUME NEW p \in Pwq, NEW k \in 1 .. Len(Placed'[p]), Placed'[p][k] \in Barrier
                 PROVE  k > 1 /\ data'[Placed'[p][k - 1]].linked
      BY DEF Preceded
    <3>1. k > 1 /\ data[Placed'[p][k - 1]].linked /\ p \in Heads /\ Len(Placed'[p]) \in Nat
      BY <2>5, <2>7, HeadFacts, LenProperties DEF Chained, Preceded
    <3>2. k - 1 \in 1 .. Len(Placed'[p])
      BY <3>1
    <3> QED BY <2>6, <2>8, <3>1, <3>2
  <2> QED BY <2>3, <2>4, <2>9, <2>10 DEF WorkBooks, Chained
<1>3. CASE Defer(w, from, s)
  <2>1. PICK g, v : /\ Moves(Item, Heads, Placed, Placed', g, v, ChainLen(s, data))
                    /\ Placed[g] = s /\ v \in Worker /\ pc[v] \in {"exec", "ret"}
    BY <1>1, <1>3, DeferMoves
  <2>2. /\ UNCHANGED <<data, current_work, current_pwq>> /\ pc' = [pc EXCEPT ![w] = "sched"]
        /\ \A u \in Worker : pc'[u] = IF u = w THEN "sched" ELSE pc[u]
    BY <1>3 DEF Defer, TypeOK
  <2>3. Chained(Placed', data')
    <3>1. v \notin Pwq
      BY <2>1, HeadFacts
    <3>2. /\ ChainLen(s, data) \in 1 .. Len(s)
          /\ ChainLen(s, data) < Len(s) => ~data[s[ChainLen(s, data)]].linked
      BY <1>1, ChainEnd
    <3> QED BY <2>1, <2>2, <3>1, <3>2, ChainedMoves DEF WorkBooks
  <2>4. ScheduledHeld'
    <3>1. PICK z \in Executing(Head(s)) :
            scheduled' = [t \in Worker |->
              IF t = z THEN scheduled[t] \o Chain(s, data)
              ELSE IF t = w /\ from = "scheduled" THEN Rest(s, data) ELSE scheduled[t]]
      BY <1>3 DEF Defer
    <3>2. pc[z] \in {"exec", "ret"}
      <4>1. Head(s) \in Item
        BY <1>1, HeadTailProperties
      <4> QED BY <4>1, NoneFacts DEF Executing, Busy
    <3>3. \A u \in Worker : u # z /\ u # w => scheduled'[u] = scheduled[u]
      BY <3>1
    <3> QED BY <2>2, <3>2, <3>3 DEF WorkBooks, ScheduledHeld
  <2>5. MaxActiveExact'
    BY <1>1, <2>2, SlotsKept DEF WorkBooks
  <2> QED BY <2>3, <2>4, <2>5 DEF WorkBooks
<1> QED
  BY <1>1, <1>2, <1>3

(* A chain that a worker takes from the worklist is a whole one.           *)
LEMMA MoveLinkedBooks ==
  ASSUME TypeOK, TypeOK', WorkBooks, NEW w \in Worker, MoveLinked(w)
  PROVE  WorkBooks'
<1>1. /\ worklist # <<>> /\ worklist \in Seq(Item)
      /\ UNCHANGED <<data, nr_active, delayed_works, current_pwq, current_work>>
      /\ pc' = [pc EXCEPT ![w] = "sched"]
      /\ scheduled' = [scheduled EXCEPT ![w] = scheduled[w] \o Chain(worklist, data)]
  BY DEF MoveLinked, TypeOK
<1>2. /\ \A u \in Worker : pc'[u] = IF u = w THEN "sched" ELSE pc[u]
      /\ \A u \in Worker \ {w} : scheduled'[u] = scheduled[u]
  BY <1>1 DEF TypeOK
<1>3. ScheduledHeld'
  BY <1>2 DEF WorkBooks, ScheduledHeld
<1>4. Placed[None] = worklist /\ w \notin Pwq
  BY PlacedFacts, HeadFacts
<1>5. Chained(Placed', data')
  <2>1. Moves(Item, Heads, Placed, Placed', None, w, ChainLen(worklist, data))
    BY MoveLinkedMoves
  <2>2. /\ ChainLen(worklist, data) \in 1 .. Len(worklist)
        /\ ChainLen(worklist, data) < Len(worklist)
             => ~data[worklist[ChainLen(worklist, data)]].linked
    BY <1>1, ChainEnd
  <2> QED BY <1>1, <1>4, <2>1, <2>2, ChainedMoves DEF WorkBooks
<1>6. MaxActiveExact'
  BY <1>1, SlotsKept DEF WorkBooks
<1> QED
  BY <1>3, <1>5, <1>6 DEF WorkBooks

(* What every return does to the worker.                                   *)
LEMMA ReturnFacts ==
  ASSUME TypeOK, ListInv, Busy, WorkBooks, NEW w \in Worker, Return(w)
  PROVE  /\ current_pwq[w] \in Pwq /\ current_work[w] \in Item /\ ScheduledHeld'
         /\ \A u \in Worker : current_work'[u] = IF u = w THEN None ELSE current_work[u]
         /\ \A u \in Worker : current_pwq'[u] = IF u = w THEN None ELSE current_pwq[u]
         /\ None \notin Work
<1>1. pc[w] = "ret" /\ UNCHANGED scheduled /\ pc' = [pc EXCEPT ![w] = "sched"]
  BY DEF Return
<1>2. current_pwq[w] \in Pwq
  BY <1>1 DEF ListInv, BusyPwq
<1>3. current_work[w] \in Item
  BY <1>1 DEF Busy, TypeOK
<1>4. \A u \in Worker : pc'[u] = IF u = w THEN "sched" ELSE pc[u]
  BY <1>1 DEF TypeOK
<1>5. ScheduledHeld'
  BY <1>1, <1>4 DEF WorkBooks, ScheduledHeld
<1>6. /\ \A u \in Worker : current_work'[u] = IF u = w THEN None ELSE current_work[u]
      /\ \A u \in Worker : current_pwq'[u] = IF u = w THEN None ELSE current_pwq[u]
  BY DEF Return, TypeOK
<1> QED
  BY <1>2, <1>3, <1>5, <1>6, NoneFacts, ItemFacts

(* The slot of a returning work: the worker loses it.                      *)
LEMMA ReturnSlot ==
  ASSUME TypeOK, ListInv, Busy, WorkBooks, NEW w \in Worker, Return(w), Frees(w),
         NEW q \in Pwq, q = current_pwq[w]
  PROVE  Cardinality(BySlot(q)') = Cardinality(BySlot(q)) - 1
<1>1. /\ current_work[w] \in Work /\ None \notin Work
      /\ \A u \in Worker : current_work'[u] = IF u = w THEN None ELSE current_work[u]
      /\ \A u \in Worker : current_pwq'[u] = IF u = w THEN None ELSE current_pwq[u]
  BY ReturnFacts DEF Frees, Item
<1>2. w \in BySlot(q)
  BY <1>1 DEF BySlot
<1>3. \A u \in Worker : (current_pwq'[u] = q /\ current_work'[u] \in Work)
                          <=> (current_pwq[u] = q /\ current_work[u] \in Work) /\ u # w
  BY <1>1
<1>4. BySlot(q)' = BySlot(q) \ {w}
  BY <1>3 DEF BySlot
<1> PICK T : T = BySlot(q)
  OBVIOUS
<1>5. IsFiniteSet(T) /\ w \in T
  BY <1>2, SlotSets
<1>6. Cardinality(T \ {w}) = Cardinality(T) - 1
  BY <1>5, FS_RemoveElement
<1> QED
  BY <1>4, <1>6

(* A return that hands no slot on: nothing of its pwq was waiting for one, *)
(* or the item was a barrier and had none.                                 *)
LEMMA ReturnKeepsBooks ==
  ASSUME TypeOK, TypeOK', ListInv, Busy, WorkBooks, NEW w \in Worker, Return(w), ~Hands(w)
  PROVE  WorkBooks'
<1>1. /\ UNCHANGED <<worklist, scheduled, delayed_works, data>>
      /\ Frees(w) => nr_active' = [nr_active EXCEPT ![current_pwq[w]] = nr_active[current_pwq[w]] - 1]
      /\ ~Frees(w) => nr_active' = nr_active
  BY ReturnKeeps
<1>2. /\ current_pwq[w] \in Pwq /\ current_work[w] \in Item /\ ScheduledHeld'
      /\ \A u \in Worker : current_work'[u] = IF u = w THEN None ELSE current_work[u]
      /\ \A u \in Worker : current_pwq'[u] = IF u = w THEN None ELSE current_pwq[u]
      /\ None \notin Work /\ Work \cap Barrier = {}
  BY ReturnFacts, PoolAssumption
<1>3. Chained(Placed', data')
  <2>1. Placed' = Placed
    BY <1>1 DEF Placed
  <2> QED BY <1>1, <2>1 DEF WorkBooks
<1>4. ASSUME NEW q \in Pwq PROVE SlotsOf(q)'
  <2>1. SlotsOf(q)
    BY SlotsAs DEF WorkBooks
  <2>2. \A y \in Work : Waits(q, y)' <=> Waits(q, y)
    BY <1>1 DEF Waits
  <2>3. CASE Frees(w) /\ q = current_pwq[w]
    <3>1. nr_active[q] \in Int /\ MaxActive[q] \in Nat /\ nr_active'[q] = nr_active[q] - 1
      BY <1>1, <2>3, PoolAssumption DEF TypeOK
    <3>2. delayed_works[q] = <<>>
      <4>1. ASSUME delayed_works[q] # <<>> PROVE FALSE
        <5>1. nr_active[q] = MaxActive[q]
          BY <2>1, <4>1 DEF SlotsOf
        <5>2. nr_active[q] - 1 < MaxActive[q]
          BY <3>1, <5>1
        <5> QED BY <2>3, <4>1, <5>2 DEF Hands
      <4> QED BY <4>1
    <3>3. OnSlot(q)' = OnSlot(q)
      BY <1>1 DEF OnSlot
    <3>4. Cardinality(BySlot(q)') = Cardinality(BySlot(q)) - 1
      BY <2>3, ReturnSlot
    <3>5. nr_active'[q] = Cardinality(OnSlot(q)') + Cardinality(BySlot(q)')
      BY <2>1, <3>1, <3>3, <3>4, SlotSets DEF SlotsOf
    <3>6. nr_active'[q] <= MaxActive[q]
      BY <2>1, <3>1 DEF SlotsOf
    <3> QED BY <1>1, <2>1, <2>2, <3>2, <3>5, <3>6 DEF SlotsOf
  <2>4. CASE ~(Frees(w) /\ q = current_pwq[w])
    <3>1. nr_active'[q] = nr_active[q]
      BY <1>1, <2>4 DEF TypeOK
    <3>2. \A u \in Worker : (current_pwq'[u] = q /\ current_work'[u] \in Work)
                              <=> (current_pwq[u] = q /\ current_work[u] \in Work)
      BY <1>2, <2>4 DEF Frees
    <3> QED BY <1>1, <2>1, <2>2, <3>1, <3>2, SlotFrame
  <2> QED BY <2>3, <2>4
<1> QED
  BY <1>2, <1>3, <1>4, SlotsAsNext DEF WorkBooks

(* A return that hands its slot on: the first delayed item of the pwq is a *)
(* work, and it leaves delayed_works with its barriers only.               *)
LEMMA ReturnHands ==
  ASSUME TypeOK, TypeOK', ListInv, Busy, WorkBooks, NEW w \in Worker, Return(w), Hands(w),
         NEW q \in Pwq, q = current_pwq[w], NEW s \in Seq(Item), s = delayed_works[q],
         NEW n, n = ChainLen(s, data)
  PROVE  /\ s # <<>> /\ Len(s) \in Nat \ {0} /\ n \in 1 .. Len(s)
         /\ n < Len(s) => ~data[s[n]].linked
         /\ s[1] \in Work /\ \A k \in 2 .. n : s[k] \in Barrier
         /\ Moves(Item, Heads, Placed, Placed', q, None, n) /\ nr_active' = nr_active
         /\ \A y \in Item : data'[y].linked = data[y].linked /\ data'[y].high = data[y].high
         /\ \A y \in Item : data'[y].delayed <=> data[y].delayed /\ y # s[1]
         /\ Len(delayed_works'[q]) = Len(s) - n
         /\ \A j \in 1 .. Len(s) - n : delayed_works'[q][j] = s[j + n]
         /\ \A p \in Pwq \ {q} : delayed_works'[p] = delayed_works[p]
         /\ \A j, k \in 1 .. Len(s) : s[j] = s[k] => j = k
<1>1. /\ s[1] \in Item /\ Moves(Item, Heads, Placed, Placed', q, None, n)
      /\ data' = [data EXCEPT ![s[1]].delayed = FALSE] /\ nr_active' = nr_active
  BY ReturnMoves
<1> PICK x \in Item : x = s[1]
  BY <1>1
<1>2. s # <<>> /\ Len(s) \in Nat \ {0}
  <2>1. s # <<>>
    BY DEF Hands
  <2> QED BY <2>1, EmptySeq
<1>3. /\ n \in 1 .. Len(s) /\ \A k \in 1 .. n - 1 : data[s[k]].linked
      /\ n < Len(s) => ~data[s[n]].linked
  BY <1>2, ChainEnd
<1>4. Placed[q] = s /\ q \in Heads /\ None \notin Pwq /\ Placed'[q] = delayed_works'[q]
  BY PlacedFacts, PlacedFactsNext, HeadFacts
<1>5. /\ \A y \in Item : data'[y].linked = data[y].linked /\ data'[y].high = data[y].high
      /\ \A y \in Item : data'[y].delayed <=> data[y].delayed /\ y # x
  <2>1. \A y \in Item : data'[y] = IF y = x THEN [data[x] EXCEPT !.delayed = FALSE] ELSE data[y]
    BY <1>1 DEF TypeOK
  <2>2. \A y \in Item : data[y] \in Word
    BY DEF TypeOK
  <2> QED BY <2>1, <2>2 DEF Word
<1>6. x \in Work
  <2>1. 1 \in 1 .. Len(Placed[q]) /\ Placed[q][1] = x
    BY <1>2, <1>4
  <2>2. x \notin Barrier
    BY <2>1 DEF WorkBooks, Chained, Preceded
  <2> QED BY <2>2 DEF Item
<1>7. \A k \in 2 .. n : s[k] \in Barrier
  <2> SUFFICES ASSUME NEW k \in 2 .. n PROVE s[k] \in Barrier
    OBVIOUS
  <2>1. k - 1 \in 1 .. n - 1 /\ k - 1 \in 1 .. Len(s) /\ k - 1 + 1 = k
    BY <1>2, <1>3
  <2>2. data[s[k - 1]].linked
    BY <1>3, <2>1
  <2>3. Placed[q][k - 1 + 1] \in Barrier
    BY <1>4, <2>1, <2>2 DEF WorkBooks, Chained, Follow
  <2> QED BY <1>4, <2>1, <2>3
<1>8. /\ Len(delayed_works'[q]) = Len(s) - n
      /\ \A j \in 1 .. Len(s) - n : delayed_works'[q][j] = s[j + n]
      /\ \A p \in Pwq \ {q} : delayed_works'[p] = delayed_works[p]
  <2>1. /\ Len(Placed'[q]) = Len(Placed[q]) - n
        /\ \A j \in 1 .. Len(Placed'[q]) : Placed'[q][j] = Placed[q][j + n]
    BY <1>1, MoveElements
  <2>2. \A p \in Pwq \ {q} : p \in Heads /\ p # None
    BY HeadFacts
  <2>3. \A p \in Pwq \ {q} : Placed'[p] = Placed[p]
    BY <1>1, <2>2 DEF Moves
  <2>4. \A p \in Pwq : Placed'[p] = delayed_works'[p] /\ Placed[p] = delayed_works[p]
    BY PlacedFacts, PlacedFactsNext
  <2> QED BY <1>4, <2>1, <2>3, <2>4
<1>9. ASSUME NEW j \in 1 .. Len(s), NEW k \in 1 .. Len(s), s[j] = s[k] PROVE j = k
  <2>1. Injective(Placed, Heads)
    BY QueuedOnceAs DEF ListInv
  <2> QED BY <1>4, <1>9, <2>1 DEF Injective
<1> QED
  BY <1>1, <1>2, <1>3, <1>5, <1>6, <1>7, <1>8, <1>9

(* That work takes the slot.                                               *)
LEMMA ReturnHandsBooks ==
  ASSUME TypeOK, TypeOK', ListInv, Busy, WorkBooks, NEW w \in Worker, Return(w), Hands(w)
  PROVE  WorkBooks'
<1>1. /\ current_pwq[w] \in Pwq /\ current_work[w] \in Item /\ ScheduledHeld'
      /\ \A u \in Worker : current_work'[u] = IF u = w THEN None ELSE current_work[u]
      /\ \A u \in Worker : current_pwq'[u] = IF u = w THEN None ELSE current_pwq[u]
      /\ None \notin Work
  BY ReturnFacts
<1> PICK q \in Pwq : q = current_pwq[w]
  BY <1>1
<1> PICK s \in Seq(Item) : s = delayed_works[q]
  BY DEF TypeOK
<1> PICK n : n = ChainLen(s, data)
  OBVIOUS
<1>2. Moves(Item, Heads, Placed, Placed', q, None, n) /\ nr_active' = nr_active
  BY ReturnHands
<1>3. s # <<>> /\ Len(s) \in Nat \ {0} /\ Frees(w) /\ current_work[w] \in Work
  <2>1. s # <<>> /\ Frees(w)
    BY DEF Hands
  <2> QED BY <1>1, <2>1, EmptySeq DEF Frees, Item
<1>4. n \in 1 .. Len(s) /\ (n < Len(s) => ~data[s[n]].linked)
  BY ReturnHands
<1>5. Placed[q] = s /\ q \in Heads /\ None \notin Pwq /\ Placed'[q] = delayed_works'[q]
  BY PlacedFacts, PlacedFactsNext, HeadFacts
<1>6. Chained(Placed', data)
  BY <1>2, <1>4, <1>5, ChainedMoves DEF WorkBooks
<1> PICK x \in Work : x = s[1]
  BY ReturnHands
<1>7. /\ \A y \in Item : data'[y].linked = data[y].linked /\ data'[y].high = data[y].high
      /\ \A y \in Item : data'[y].delayed <=> data[y].delayed /\ y # x
  BY ReturnHands
<1>8. Chained(Placed', data')
  <2>1. Placed' \in [Heads -> Seq(Item)]
    BY PlacedFactsNext
  <2> QED BY <1>6, <1>7, <2>1, SameLinks
<1>9. x \in Work /\ x \in Item
  BY ItemFacts
<1>10. \A k \in 2 .. n : s[k] \in Barrier
  BY ReturnHands
<1>11. /\ Len(delayed_works'[q]) = Len(s) - n
       /\ \A j \in 1 .. Len(s) - n : delayed_works'[q][j] = s[j + n]
       /\ \A p \in Pwq \ {q} : delayed_works'[p] = delayed_works[p]
  BY ReturnHands
<1>12. ASSUME NEW j \in 1 .. Len(s), NEW k \in 1 .. Len(s), s[j] = s[k] PROVE j = k
  BY <1>12, ReturnHands
<1>13. ASSUME NEW y \in Work PROVE Waits(q, y)' <=> Waits(q, y) /\ y # x
  <2>1. y \notin Barrier
    BY PoolAssumption
  <2>2. ASSUME NEW j \in 1 .. Len(delayed_works'[q]), delayed_works'[q][j] = y
        PROVE  Waits(q, y) /\ y # x
    <3>1. j \in 1 .. Len(s) - n /\ n \in Nat \ {0}
      BY <1>3, <1>4, <1>11
    <3>2. j + n \in 1 .. Len(s) /\ s[j + n] = y /\ j + n # 1 /\ 1 \in 1 .. Len(s)
      <4>1. delayed_works'[q][j] = s[j + n]
        BY <1>11, <3>1
      <4> QED BY <1>3, <2>2, <3>1, <4>1
    <3>3. y # x
      BY <1>12, <3>2
    <3> QED BY <3>2, <3>3 DEF Waits
  <2>3. ASSUME NEW j \in 1 .. Len(s), s[j] = y, y # x PROVE Waits(q, y)'
    <3>1. j # 1 /\ ~(j \in 2 .. n)
      BY <1>10, <2>1, <2>3
    <3>2. j - n \in 1 .. Len(s) - n /\ j - n + n = j
      BY <1>3, <1>4, <3>1
    <3>3. delayed_works'[q][j - n] = s[j - n + n]
      BY <1>11, <3>2
    <3>4. j - n \in 1 .. Len(delayed_works'[q]) /\ delayed_works'[q][j - n] = y
      BY <1>11, <2>3, <3>2, <3>3
    <3> QED BY <3>4 DEF Waits
  <2> QED BY <2>2, <2>3 DEF Waits
<1>14. SlotsOf(q)'
  <2>1. SlotsOf(q) /\ Waits(q, x)
    <3>1. SlotsOf(q)
      BY SlotsAs DEF WorkBooks
    <3>2. 1 \in 1 .. Len(delayed_works[q])
      BY <1>3
    <3> QED BY <3>1, <3>2 DEF Waits
  <2>2. data[x].high = q /\ data[x].delayed
    BY <1>9, <2>1 DEF SlotsOf
  <2>3. x \notin OnSlot(q) /\ OnSlot(q)' = OnSlot(q) \cup {x}
    <3>1. \A y \in Work : (data'[y].high = q /\ ~data'[y].delayed)
                            <=> (data[y].high = q /\ ~data[y].delayed) \/ y = x
      BY <1>7, <2>2, ItemFacts
    <3> QED BY <1>9, <2>2, <3>1 DEF OnSlot
  <2>4. Cardinality(OnSlot(q)') = Cardinality(OnSlot(q)) + 1
    <3> PICK T : T = OnSlot(q)
      OBVIOUS
    <3>1. IsFiniteSet(T) /\ x \notin T
      BY <2>3, SlotSets
    <3>2. Cardinality(T \cup {x}) = Cardinality(T) + 1
      BY <3>1, FS_AddElement
    <3> QED BY <2>3, <3>2
  <2>5. Cardinality(BySlot(q)') = Cardinality(BySlot(q)) - 1
    BY <1>3, ReturnSlot
  <2>6. nr_active'[q] = Cardinality(OnSlot(q)') + Cardinality(BySlot(q)')
    BY <1>2, <2>1, <2>4, <2>5, SlotSets DEF SlotsOf
  <2>7. nr_active[q] = MaxActive[q]
    BY <1>3, <2>1 DEF SlotsOf
  <2>8. ASSUME NEW y \in Work PROVE (data'[y].high = q /\ data'[y].delayed) <=> Waits(q, y)'
    <3>1. (data[y].high = q /\ data[y].delayed) <=> Waits(q, y)
      BY <2>1 DEF SlotsOf
    <3> QED BY <1>7, <1>13, <3>1, ItemFacts
  <2>9. nr_active'[q] = MaxActive[q]
    BY <1>2, <2>7
  <2>10. nr_active'[q] <= MaxActive[q]
    BY <1>2, <2>1 DEF SlotsOf
  <2> QED BY <2>6, <2>8, <2>9, <2>10 DEF SlotsOf
<1>15. ASSUME NEW p \in Pwq, p # q PROVE SlotsOf(p)'
  <2>1. SlotsOf(p) /\ SlotsOf(q)
    BY SlotsAs DEF WorkBooks
  <2>2. delayed_works'[p] = delayed_works[p] /\ nr_active'[p] = nr_active[p]
    BY <1>2, <1>11, <1>15
  <2>3. \A y \in Work : Waits(p, y)' <=> Waits(p, y)
    BY <2>2 DEF Waits
  <2>4. data[x].high # p
    <3>1. 1 \in 1 .. Len(delayed_works[q]) /\ delayed_works[q][1] = x
      BY <1>3
    <3>2. data[x].high = q
      BY <1>9, <2>1, <3>1 DEF SlotsOf, Waits
    <3> QED BY <1>15, <3>2
  <2>5. \A y \in Work : /\ data'[y].high = p <=> data[y].high = p
                        /\ data[y].high = p => (data'[y].delayed <=> data[y].delayed)
    BY <1>7, <2>4, ItemFacts
  <2>6. \A u \in Worker : (current_pwq'[u] = p /\ current_work'[u] \in Work)
                            <=> (current_pwq[u] = p /\ current_work[u] \in Work)
    BY <1>1, <1>15
  <2> QED BY <2>1, <2>2, <2>3, <2>5, <2>6, SlotFrame
<1> QED
  BY <1>1, <1>8, <1>14, <1>15, SlotsAsNext DEF WorkBooks
-----------------------------------------------------------------------------
(* The other steps                                                         *)

(* A step of an awake worker that leaves the idle list and the timer alone.*)
LEMMA AwakeStep ==
  ASSUME TypeOK, WorkerBooks, NEW w \in Worker, NEW l,
         pc[w] \notin {"none", "asleep", "dying"}, l \notin {"none", "asleep", "dying"},
         pc' = [pc EXCEPT ![w] = l], UNCHANGED <<die, idleVars>>
  PROVE  WorkerBooks'
<1>1. UNCHANGED <<die, idle_list, nr_idle, nr_workers, manager, idle_timer, timer_cb>>
  BY DEF idleVars
<1>2. DieAsleep' /\ IdleExact'
  BY <1>1, AwakeBooks DEF WorkerBooks
<1>3. Armed'
  BY <1>1 DEF WorkerBooks, Armed, too_many_workers
<1> QED
  BY <1>2, <1>3 DEF WorkerBooks

(* A step of nobody in the pool.                                           *)
LEMMA ClientStep ==
  ASSUME WorkerBooks, UNCHANGED <<pc, die, idleVars>>
  PROVE  WorkerBooks'
<1>1. UNCHANGED <<pc, die, idle_list, nr_idle, nr_workers, manager, idle_timer, timer_cb>>
  BY DEF idleVars
<1> QED
  BY <1>1 DEF WorkerBooks, DieAsleep, IdleExact, Armed, too_many_workers

(* Recheck keeps the books: a worker becomes the manager only when nobody  *)
(* is idle, which is not too many.                                         *)
LEMMA RecheckBooks ==
  ASSUME TypeOK, WorkerBooks, NEW w \in Worker, Recheck(w)
  PROVE  WorkerBooks'
<1>1. /\ pc[w] = "recheck"
      /\ UNCHANGED <<die, idle_list, nr_idle, nr_workers, idle_timer, timer_cb>>
      /\ \E l \in {"sleep", "create", "next"} : pc' = [pc EXCEPT ![w] = l]
  BY DEF Recheck, taskVars
<1>2. DieAsleep' /\ IdleExact'
  BY <1>1, AwakeBooks DEF WorkerBooks
<1>3. Armed'
  <2>1. CASE UNCHANGED manager
    BY <1>1, <2>1 DEF WorkerBooks, Armed, too_many_workers
  <2>2. CASE ~UNCHANGED manager
    <3>1. ~(nr_idle > 0)
      BY <2>2 DEF Recheck, may_start_working
    <3>2. ~too_many_workers(nr_idle, nr_workers)'
      BY <1>1, <3>1 DEF too_many_workers, TypeOK
    <3> QED BY <3>2 DEF Armed
  <2> QED BY <2>1, <2>2
<1> QED
  BY <1>2, <1>3 DEF WorkerBooks

(* The end of the manager role keeps the books: the workers are not more   *)
(* than they were with the manager counted as idle.                        *)
LEMMA RelockBooks ==
  ASSUME TypeOK, WorkerBooks, NEW w \in Worker, Relock(w)
  PROVE  WorkerBooks'
<1>1. /\ pc[w] = "relock"
      /\ UNCHANGED <<die, idle_list, nr_idle, nr_workers, idle_timer, timer_cb>>
      /\ \E l \in {"create", "recheck"} : pc' = [pc EXCEPT ![w] = l]
      /\ manager' = manager \/ manager' = None
  BY DEF Relock, taskVars
<1>2. DieAsleep' /\ IdleExact'
  BY <1>1, AwakeBooks DEF WorkerBooks
<1>3. too_many_workers(nr_idle, nr_workers)' => too_many_workers(nr_idle, nr_workers)
  BY <1>1 DEF too_many_workers, TypeOK
<1>4. Armed'
  BY <1>1, <1>3 DEF WorkerBooks, Armed
<1> QED
  BY <1>2, <1>4 DEF WorkerBooks

(* Every step of a worker keeps the books about the workers.               *)
LEMMA WorkerStepWorkers ==
  ASSUME TypeOK, WorkerBooks, NEW w \in Worker, WorkerStep(w)
  PROVE  WorkerBooks'
<1>1. ASSUME ProcessOneWork(w, "worklist") \/ ProcessOneWork(w, "scheduled"), pc[w] \in {"next", "sched"}
      PROVE  WorkerBooks'
  <2>1. \E l \in {"exec", "sched"} : pc' = [pc EXCEPT ![w] = l]
    BY <1>1 DEF ProcessOneWork, Claim, Defer
  <2>2. UNCHANGED <<die, idleVars>>
    BY <1>1 DEF ProcessOneWork
  <2> QED BY <1>1, <2>1, <2>2, AwakeStep
<1>2. CASE Next1(w) \/ ProcessScheduled(w)
  BY <1>1, <1>2 DEF Next1, ProcessScheduled
<1>3. CASE MoveLinked(w) \/ LoopEnd(w) \/ RunFunc(w) \/ Return(w) \/ CreateFails(w)
  <2>1. /\ pc[w] \in {"next", "sched", "exec", "ret", "create"}
        /\ \E l \in {"next", "sched", "sleep", "ret", "relock"} : pc' = [pc EXCEPT ![w] = l]
    BY <1>3 DEF MoveLinked, LoopEnd, RunFunc, Return, CreateFails
  <2>2. UNCHANGED <<die, idleVars>>
    BY <1>3 DEF MoveLinked, LoopEnd, RunFunc, Return, CreateFails, taskVars
  <2> QED BY <2>1, <2>2, AwakeStep
<1>4. CASE WokeUp(w) \/ Dying(w) \/ Recheck(w) \/ Relock(w) \/ Sleep(w)
  BY <1>4, WokeUpBooks, DyingBooks, RecheckBooks, RelockBooks, SleepBooks
<1>5. CASE \E v \in Worker : CreateWorker(w, v)
  BY <1>5, CreateWorkerBooks
<1> QED
  BY <1>2, <1>3, <1>4, <1>5 DEF WorkerStep

(* The steps that leave the works alone: who has scheduled works stays in  *)
(* the loop, or is through with them.                                      *)
LEMMA SameWorks ==
  ASSUME WorkBooks, UNCHANGED <<listVars, busyVars>>,
         \A u \in Worker : pc[u] \in {"exec", "ret", "sched"} =>
           pc'[u] \in {"exec", "ret", "sched"} \/ scheduled[u] = <<>>
  PROVE  WorkBooks'
<1>1. UNCHANGED <<worklist, delayed_works, nr_active, data, current_work, current_pwq, scheduled>>
  BY DEF listVars, busyVars
<1>2. ScheduledHeld'
  BY <1>1 DEF WorkBooks, ScheduledHeld
<1>3. Chained(Placed', data')
  <2>1. Placed' = Placed
    BY <1>1 DEF Placed
  <2> QED BY <1>1, <2>1 DEF WorkBooks
<1>4. MaxActiveExact'
  BY <1>1, SlotsKept DEF WorkBooks
<1> QED
  BY <1>2, <1>3, <1>4 DEF WorkBooks

(* Every step of a worker keeps the books about the works.                 *)
LEMMA WorkerStepWorks ==
  ASSUME TypeOK, TypeOK', Busy, ListInv, WorkBooks, NEW w \in Worker, WorkerStep(w)
  PROVE  WorkBooks'
<1>1. CASE OtherStep(w)
  <2>1. UNCHANGED <<listVars, busyVars>>
    BY <1>1 DEF OtherStep, WokeUp, Dying, Recheck, CreateWorker, CreateFails, Relock, LoopEnd,
       RunFunc, Sleep
  <2>2. \A u \in Worker : pc[u] \in {"exec", "ret", "sched"} =>
           pc'[u] \in {"exec", "ret", "sched"} \/ scheduled[u] = <<>>
    <3>1. CASE \E v \in Worker : CreateWorker(w, v)
      <4>1. PICK v \in Worker : /\ pc[w] = "create" /\ pc[v] = "none"
                                /\ pc' = [[pc EXCEPT ![w] = "relock"] EXCEPT ![v] = "asleep"]
        BY <3>1 DEF CreateWorker
      <4> QED BY <4>1 DEF TypeOK
    <3>2. CASE RunFunc(w)
      BY <3>2 DEF RunFunc, TypeOK
    <3>3. CASE LoopEnd(w)
      <4>1. scheduled[w] = <<>> /\ \E l \in {"next", "sleep"} : pc' = [pc EXCEPT ![w] = l]
        BY <3>3 DEF LoopEnd
      <4> QED BY <4>1 DEF TypeOK
    <3>4. CASE WokeUp(w) \/ Dying(w) \/ Recheck(w) \/ CreateFails(w) \/ Relock(w) \/ Sleep(w)
      <4>1. /\ pc[w] \in {"asleep", "dying", "recheck", "create", "relock", "sleep"}
            /\ \E l \in {"none", "asleep", "dying", "recheck", "create", "relock", "next", "sleep"} :
                 pc' = [pc EXCEPT ![w] = l]
        BY <3>4 DEF WokeUp, Dying, Recheck, CreateFails, Relock, Sleep
      <4> QED BY <4>1 DEF TypeOK
    <3> QED BY <1>1, <3>1, <3>2, <3>3, <3>4 DEF OtherStep
  <2> QED BY <2>1, <2>2, SameWorks
<1>2. CASE Next1(w)
  BY <1>2, ProcessOneWorkBooks DEF Next1
<1>3. CASE MoveLinked(w)
  BY <1>3, MoveLinkedBooks
<1>4. CASE ProcessScheduled(w)
  BY <1>4, ProcessOneWorkBooks DEF ProcessScheduled
<1>5. CASE Return(w)
  BY <1>5, ReturnKeepsBooks, ReturnHandsBooks
<1> QED
  BY <1>1, <1>2, <1>3, <1>4, <1>5 DEF WorkerStep, OtherStep

(* The books are right at the start: one worker, idle, and no work.        *)
LEMMA InitBooks == Init => BooksInv
<1> SUFFICES ASSUME Init PROVE BooksInv
  OBVIOUS
<1>1. TypeOK
  BY InitIInv DEF IInv, CoreInv
<1>2. PICK w0 \in Worker :
        /\ worklist = <<>> /\ idle_list = <<w0>> /\ nr_idle = 1 /\ nr_workers = 1 /\ manager = None
        /\ pc = [w \in Worker |-> IF w = w0 THEN "asleep" ELSE "none"]
  BY DEF Init
<1>3. /\ die = [w \in Worker |-> FALSE]
      /\ current_work = [w \in Worker |-> None] /\ current_pwq = [w \in Worker |-> None]
      /\ scheduled = [w \in Worker |-> <<>>] /\ data = [i \in Item |-> WorkDataInit]
      /\ delayed_works = [q \in Pwq |-> <<>>] /\ nr_active = [q \in Pwq |-> 0]
  BY DEF Init
<1>4. DieAsleep /\ ScheduledHeld
  BY <1>3 DEF DieAsleep, ScheduledHeld
<1>5. IdleExact
  <2>1. Live = {w0}
    BY <1>2, <1>3 DEF Live
  <2>2. Cardinality({w0}) = 1
    BY FS_Singleton
  <2>3. Len(idle_list) = 1 /\ idle_list[1] = w0 /\ 1 .. Len(idle_list) = {1}
    BY <1>2
  <2>4. \A w \in Worker : (pc[w] = "asleep" /\ ~die[w]) <=> \E k \in 1 .. Len(idle_list) : idle_list[k] = w
    BY <1>2, <1>3, <2>3
  <2>5. nr_workers = Cardinality({w \in Worker : pc[w] \notin {"none", "dying"} /\ ~die[w]})
    BY <1>2, <2>1, <2>2 DEF Live
  <2> QED BY <1>2, <2>3, <2>4, <2>5 DEF IdleExact
<1>6. Armed
  BY <1>2 DEF Armed, too_many_workers
<1>7. Chained(Placed, data)
  <2>1. \A h \in Heads : Len(Placed[h]) = 0
    BY <1>1, <1>2, <1>3, PlacedFacts, HeadFacts
  <2>2. \A q \in Pwq : q \in Heads
    BY HeadFacts
  <2> QED BY <2>1, <2>2 DEF Chained, Follow, Preceded
<1>8. ASSUME NEW q \in Pwq PROVE SlotsOf(q)
  <2>1. OnSlot(q) = {}
    BY <1>3, ItemFacts, HeadFacts DEF OnSlot, WorkDataInit
  <2>2. BySlot(q) = {}
    BY <1>3, NoneFacts, ItemFacts DEF BySlot
  <2>3. Cardinality({}) = 0
    BY FS_EmptySet
  <2>4. nr_active[q] = 0 /\ delayed_works[q] = <<>> /\ MaxActive[q] \in Nat
    BY <1>3, PoolAssumption
  <2>5. \A x \in Work : data[x].high # q /\ ~Waits(q, x)
    BY <1>3, <2>4, ItemFacts, HeadFacts DEF WorkDataInit, Waits
  <2> QED BY <2>1, <2>2, <2>3, <2>4, <2>5 DEF SlotsOf
<1> QED
  BY <1>4, <1>5, <1>6, <1>7, <1>8, SlotsAs DEF BooksInv

(* Every step keeps the books.                                             *)
LEMMA NextBooks ==
  ASSUME IInv, IInv', BooksInv, [Next]_vars
  PROVE  BooksInv'
<1>1. BooksInv <=> WorkerBooks /\ WorkBooks
  BY DEF BooksInv, WorkerBooks, WorkBooks
<1>2. BooksInv' <=> WorkerBooks' /\ WorkBooks'
  BY DEF BooksInv, WorkerBooks, WorkBooks
<1>3. TypeOK /\ TypeOK' /\ Busy /\ ListInv /\ ListInv' /\ WorkerBooks /\ WorkBooks
  BY <1>1 DEF IInv, CoreInv, PoolCore
<1>4. ASSUME NEW x \in Work, NEW q \in Pwq, SetPending(x, q) PROVE BooksInv'
  <2>1. UNCHANGED <<pc, die, idleVars>>
    BY <1>4 DEF SetPending, taskVars
  <2> QED BY <1>2, <1>3, <1>4, <2>1, ClientStep, SetPendingBooks
<1>5. ASSUME NEW x \in Work, QueueWork(x) PROVE BooksInv'
  <2>1. UNCHANGED <<pc, die, idleVars>>
    BY <1>5 DEF QueueWork
  <2> QED BY <1>2, <1>3, <1>5, <2>1, ClientStep, QueueWorkBooks
<1>6. ASSUME NEW x \in Work, NEW b \in Barrier, FlushWork(x, b) PROVE BooksInv'
  <2>1. UNCHANGED <<pc, die, idleVars>>
    BY <1>6 DEF FlushWork, InsertBarrier
  <2> QED BY <1>2, <1>3, <1>6, <2>1, ClientStep, FlushWorkBooks
<1>7. ASSUME NEW w \in Worker, WorkerStep(w) PROVE BooksInv'
  BY <1>2, <1>3, <1>7, WorkerStepWorkers, WorkerStepWorks
<1>8. CASE TimerExpire
  <2>1. /\ UNCHANGED <<pc, die, idle_list, nr_idle, nr_workers, manager, listVars, busyVars>>
        /\ timer_cb'
    BY <1>8 DEF TimerExpire, taskVars
  <2>2. WorkerBooks'
    BY <1>3, <2>1 DEF WorkerBooks, DieAsleep, IdleExact, Armed
  <2>3. WorkBooks'
    BY <1>3, <2>1, SameWorks
  <2> QED BY <1>2, <2>2, <2>3
<1>9. CASE IdleWorkerTimeout
  <2>1. UNCHANGED <<pc, listVars, busyVars>>
    BY <1>9 DEF IdleWorkerTimeout
  <2>2. WorkBooks'
    BY <1>3, <2>1, SameWorks
  <2> QED BY <1>2, <1>3, <1>9, <2>2, IdleWorkerTimeoutBooks
<1>10. CASE UNCHANGED vars
  <2>1. UNCHANGED <<pc, die, idleVars, listVars, busyVars>>
    BY <1>10 DEF vars, taskVars
  <2> QED BY <1>2, <1>3, <2>1, ClientStep, SameWorks
<1> QED
  BY <1>4, <1>5, <1>6, <1>7, <1>8, <1>9, <1>10 DEF Next, Client

(* The books are right in every state, also while the lock is held.        *)
THEOREM BooksInvariance == Spec => []BooksInv
<1>1. Init => BooksInv
  BY InitBooks
<1>2. IInv /\ IInv' /\ BooksInv /\ [Next]_vars => BooksInv'
  BY NextBooks
<1> QED
  BY <1>1, <1>2, Invariance, PTL DEF Spec

(* However many workers, works and pwqs: the idle list and the worker      *)
(* counts agree with the workers, too many idle workers always have the    *)
(* timer after them, nr_active counts the slots in use, is at most         *)
(* max_active and equal to it while works wait, and only a worker that     *)
(* executes or walks its list holds scheduled works.                       *)
THEOREM BooksAreExact == Spec => []PoolBooks
<1>1. BooksInv => PoolBooks
  BY DEF BooksInv, PoolBooks, TrimArmed, Armed
<1> QED
  BY <1>1, BooksInvariance, PTL
-----------------------------------------------------------------------------
(* Ordered workqueues: the order of the delayed works                      *)

(* A list whose items x and y are found in another, at places in the same  *)
(* order, has them in the order of the other.                              *)
LEMMA InFrontThere ==
  ASSUME NEW s, NEW t, NEW x, NEW y, Len(s) \in Nat, NEW f,
         \A j \in 1 .. Len(s) : s[j] \in {x, y} => f[j] \in 1 .. Len(t) /\ t[f[j]] = s[j],
         \A j, k \in 1 .. Len(s) : s[j] \in {x, y} /\ s[k] \in {x, y} /\ j < k => f[j] < f[k],
         InFront(s, x, y)
  PROVE  InFront(t, x, y)
<1>1. PICK j, k \in 1 .. Len(s) : j < k /\ s[j] = x /\ s[k] = y
  BY DEF InFront
<1>2. /\ f[j] \in 1 .. Len(t) /\ f[k] \in 1 .. Len(t) /\ f[j] < f[k]
      /\ t[f[j]] = x /\ t[f[k]] = y
  BY <1>1
<1> QED
  BY <1>2 DEF InFront

(* Another item behind one of the list changes no order ...                *)
LEMMA BehindOrder ==
  ASSUME NEW s \in Seq(Item), NEW x, NEW b \in Item, NEW y, NEW z, y # b, z # b
  PROVE  InFront(Behind(s, x, b), y, z) <=> InFront(s, y, z)
<1>1. CASE ~In(s, x)
  BY <1>1, BehindFacts
<1>2. CASE In(s, x)
  <2> PICK t : t = Behind(s, x, b)
    OBVIOUS
  <2>1. PICK k \in 1 .. Len(s) :
          /\ Len(t) = Len(s) + 1
          /\ \A j \in 1 .. Len(s) + 1 : t[j] = IF j <= k THEN s[j] ELSE IF j = k + 1 THEN b ELSE s[j - 1]
    BY <1>2, BehindFacts
  <2>2. Len(s) \in Nat
    BY LenProperties
  <2>3. ASSUME InFront(s, y, z) PROVE InFront(t, y, z)
    <3> DEFINE f == [j \in 1 .. Len(s) |-> IF j <= k THEN j ELSE j + 1]
    <3>1. \A j \in 1 .. Len(s) : f[j] \in 1 .. Len(t) /\ t[f[j]] = s[j]
      <4> TAKE j \in 1 .. Len(s)
      <4>1. CASE j <= k
        BY <2>1, <2>2, <4>1
      <4>2. CASE j > k
        <5>1. f[j] = j + 1 /\ j + 1 \in 1 .. Len(s) + 1 /\ ~(j + 1 <= k) /\ j + 1 # k + 1 /\ j + 1 - 1 = j
          BY <2>1, <2>2, <4>2
        <5>2. t[j + 1] = s[j + 1 - 1]
          BY <2>1, <5>1
        <5> QED BY <2>1, <5>1, <5>2
      <4> QED BY <2>1, <2>2, <4>1, <4>2
    <3>2. \A i, j \in 1 .. Len(s) : i < j => f[i] < f[j]
      BY <2>1, <2>2
    <3> HIDE DEF f
    <3> QED BY <2>2, <2>3, <3>1, <3>2, InFrontThere
  <2>4. ASSUME InFront(t, y, z) PROVE InFront(s, y, z)
    <3> DEFINE f == [j \in 1 .. Len(t) |-> IF j <= k THEN j ELSE j - 1]
    <3>1. \A j \in 1 .. Len(t) : j = k + 1 => t[j] = b
      BY <2>1, <2>2
    <3>2. \A j \in 1 .. Len(t) : j # k + 1 => f[j] \in 1 .. Len(s) /\ s[f[j]] = t[j]
      <4> TAKE j \in 1 .. Len(t)
      <4>1. CASE j <= k
        BY <2>1, <2>2, <4>1
      <4>2. CASE j > k + 1
        <5>1. f[j] = j - 1 /\ j - 1 \in 1 .. Len(s) /\ ~(j <= k) /\ j # k + 1 /\ j \in 1 .. Len(s) + 1
          BY <2>1, <2>2, <4>2
        <5>2. t[j] = s[j - 1]
          BY <2>1, <5>1
        <5> QED BY <2>1, <5>1, <5>2
      <4> QED BY <2>1, <2>2, <4>1, <4>2
    <3>3. \A i, j \in 1 .. Len(t) : i # k + 1 /\ j # k + 1 /\ i < j => f[i] < f[j]
      BY <2>1, <2>2
    <3>4. Len(t) \in Nat
      BY <2>1, <2>2
    <3> HIDE DEF f
    <3> QED BY <2>4, <3>1, <3>2, <3>3, <3>4, InFrontThere
  <2> QED BY <2>3, <2>4
<1> QED
  BY <1>1, <1>2

(* ... nor does another item at the end, which comes after all.            *)
LEMMA AppendOrder ==
  ASSUME NEW s \in Seq(Item), NEW x \in Item, ~In(s, x), NEW y, NEW z
  PROVE  /\ z # x => (InFront(Append(s, x), y, z) <=> InFront(s, y, z))
         /\ InFront(Append(s, x), y, x) <=> In(s, y)
<1> PICK t : t = Append(s, x)
  OBVIOUS
<1>1. /\ Len(s) \in Nat /\ Len(t) = Len(s) + 1 /\ t[Len(s) + 1] = x
      /\ \A j \in 1 .. Len(s) : t[j] = s[j] /\ s[j] # x
  BY AppendProperties, LenProperties DEF In
<1>2. \A j, k \in 1 .. Len(t) : j < k => j \in 1 .. Len(s) /\ t[j] = s[j]
  BY <1>1
<1>3. ASSUME NEW k \in 1 .. Len(t), t[k] # x PROVE k \in 1 .. Len(s) /\ t[k] = s[k]
  <2>1. k # Len(s) + 1
    BY <1>1, <1>3
  <2> QED BY <1>1, <2>1
<1>4. \A k \in 1 .. Len(s) : k \in 1 .. Len(t) /\ Len(s) + 1 \in 1 .. Len(t) /\ k < Len(s) + 1
  BY <1>1
<1>5. ASSUME z # x PROVE InFront(t, y, z) <=> InFront(s, y, z)
  <2>1. ASSUME InFront(t, y, z) PROVE InFront(s, y, z)
    <3>1. PICK j, k \in 1 .. Len(t) : j < k /\ t[j] = y /\ t[k] = z
      BY <2>1 DEF InFront
    <3>2. j \in 1 .. Len(s) /\ s[j] = y /\ k \in 1 .. Len(s) /\ s[k] = z
      BY <1>2, <1>3, <1>5, <3>1
    <3> QED BY <3>1, <3>2 DEF InFront
  <2>2. ASSUME InFront(s, y, z) PROVE InFront(t, y, z)
    <3>1. PICK j, k \in 1 .. Len(s) : j < k /\ s[j] = y /\ s[k] = z
      BY <2>2 DEF InFront
    <3>2. j \in 1 .. Len(t) /\ k \in 1 .. Len(t) /\ t[j] = y /\ t[k] = z
      BY <1>1, <1>4, <3>1
    <3> QED BY <3>1, <3>2 DEF InFront
  <2> QED BY <2>1, <2>2
<1>6. InFront(t, y, x) <=> In(s, y)
  <2>1. ASSUME InFront(t, y, x) PROVE In(s, y)
    <3>1. PICK j, k \in 1 .. Len(t) : j < k /\ t[j] = y
      BY <2>1 DEF InFront
    <3>2. j \in 1 .. Len(s) /\ s[j] = y
      BY <1>2, <3>1
    <3> QED BY <3>2 DEF In
  <2>2. ASSUME In(s, y) PROVE InFront(t, y, x)
    <3>1. PICK j \in 1 .. Len(s) : s[j] = y
      BY <2>2 DEF In
    <3>2. j \in 1 .. Len(t) /\ Len(s) + 1 \in 1 .. Len(t) /\ j < Len(s) + 1 /\ t[j] = y /\ t[Len(s) + 1] = x
      BY <1>1, <1>4, <3>1
    <3> QED BY <3>2 DEF InFront
  <2> QED BY <2>1, <2>2
<1> QED
  BY <1>5, <1>6

(* Nor does the loss of a stretch that has neither item.                   *)
LEMMA CutOrder ==
  ASSUME NEW s \in Seq(Item), NEW t \in Seq(Item), NEW m \in Nat, NEW n \in Nat, m + n <= Len(s),
         Len(t) = Len(s) - n,
         \A j \in 1 .. Len(t) : t[j] = IF j <= m THEN s[j] ELSE s[j + n],
         NEW y, NEW z, \A j \in m + 1 .. m + n : s[j] \notin {y, z}
  PROVE  InFront(t, y, z) <=> InFront(s, y, z)
<1>1. Len(s) \in Nat /\ Len(t) \in Nat
  BY LenProperties
<1>2. ASSUME InFront(t, y, z) PROVE InFront(s, y, z)
  <2> DEFINE f == [j \in 1 .. Len(t) |-> IF j <= m THEN j ELSE j + n]
  <2>1. \A j \in 1 .. Len(t) : f[j] \in 1 .. Len(s) /\ s[f[j]] = t[j]
    BY <1>1
  <2>2. \A i, j \in 1 .. Len(t) : i < j => f[i] < f[j]
    BY <1>1
  <2> HIDE DEF f
  <2> QED BY <1>1, <1>2, <2>1, <2>2, InFrontThere
<1>3. ASSUME InFront(s, y, z) PROVE InFront(t, y, z)
  <2> DEFINE f == [j \in 1 .. Len(s) |-> IF j <= m THEN j ELSE j - n]
  <2>1. \A j \in 1 .. Len(s) : s[j] \in {y, z} => j <= m \/ j > m + n
    BY <1>1
  <2>2. \A j \in 1 .. Len(s) : j <= m \/ j > m + n => f[j] \in 1 .. Len(t) /\ t[f[j]] = s[j]
    <3> TAKE j \in 1 .. Len(s)
    <3>1. CASE j <= m
      BY <1>1, <3>1
    <3>2. CASE j > m + n
      <4>1. f[j] = j - n /\ j - n \in 1 .. Len(t) /\ ~(j - n <= m) /\ j - n + n = j
        BY <1>1, <3>2
      <4>2. t[j - n] = s[j - n + n]
        BY <4>1
      <4> QED BY <4>1, <4>2
    <3> QED BY <3>1, <3>2
  <2>3. \A i, j \in 1 .. Len(s) :
          (i <= m \/ i > m + n) /\ (j <= m \/ j > m + n) /\ i < j => f[i] < f[j]
    BY <1>1
  <2> HIDE DEF f
  <2> QED BY <1>1, <1>3, <2>1, <2>2, <2>3, InFrontThere
<1> QED
  BY <1>2, <1>3

-----------------------------------------------------------------------------
(* Ordered workqueues: a pwq as an OrderedQueue                            *)

(* Work x goes before work y in pwq q; a worker executes work x for q.     *)
Before(q, x, y) == Sooner(delayed_works[q], data, x, y)
Runs(q, x) == \E w \in Worker : current_pwq[w] = q /\ current_work[w] = x

(* A step that changes neither who is queued nor the order of the queued.  *)
LEMMA OrdLine ==
  ASSUME NEW q \in Pwq,
         \A x \in Work : data'[x].high = q <=> data[x].high = q,
         \A x \in Work : \A y \in Work :
           data[x].high = q /\ data[y].high = q => (Before(q, x, y)' <=> Before(q, x, y))
  PROVE  OrdQueued(q)' = OrdQueued(q) /\ OrdAhead(q)' = OrdAhead(q)
<1>1. OrdQueued(q)' = OrdQueued(q)
  BY DEF OrdQueued
<1>2. ASSUME NEW y \in Work
      PROVE  {x \in OrdQueued(q) : y \in OrdQueued(q) /\ Sooner(delayed_works[q], data, x, y)}'
               = {x \in OrdQueued(q) : y \in OrdQueued(q) /\ Sooner(delayed_works[q], data, x, y)}
  <2>1. \A x \in OrdQueued(q) : y \in OrdQueued(q) =>
          (Sooner(delayed_works'[q], data', x, y) <=> Sooner(delayed_works[q], data, x, y))
    BY <1>2 DEF OrdQueued, Before
  <2> QED BY <1>1, <2>1
<1> QED
  BY <1>1, <1>2 DEF OrdAhead

(* ... and runs none of its works.                                         *)
LEMMA OrdSame ==
  ASSUME NEW q \in Pwq,
         \A x \in Work : data'[x].high = q <=> data[x].high = q,
         \A x \in Work : \A y \in Work :
           data[x].high = q /\ data[y].high = q => (Before(q, x, y)' <=> Before(q, x, y)),
         \A x \in Work : Runs(q, x)' <=> Runs(q, x)
  PROVE  OrderedStep(q)
<1>1. OrdQueued(q)' = OrdQueued(q) /\ OrdAhead(q)' = OrdAhead(q)
  BY OrdLine
<1>2. OrdRunning(q)' = OrdRunning(q)
  BY DEF OrdRunning, Runs
<1> QED
  BY <1>1, <1>2 DEF OrderedStep

(* A queued work that leaves the pwq, wherever it stands, and no other.    *)
LEMMA OrdLeaves ==
  ASSUME NEW q \in Pwq, NEW z \in Work, data[z].high = q, data'[z].high # q,
         \A x \in Work \ {z} : data'[x].high = q <=> data[x].high = q,
         \A x \in Work \ {z} : \A y \in Work \ {z} :
           data[x].high = q /\ data[y].high = q => (Before(q, x, y)' <=> Before(q, x, y))
  PROVE  Ordered(q)!Leave(z)
<1>1. OrdQueued(q)' = OrdQueued(q) \ {z} /\ z \in OrdQueued(q)
  BY DEF OrdQueued
<1>2. ASSUME NEW y \in Work
      PROVE  OrdAhead(q)'[y] = IF y = z THEN {} ELSE OrdAhead(q)[y] \ {z}
  <2>1. /\ OrdAhead(q)[y] = {x \in OrdQueued(q) : y \in OrdQueued(q) /\ Sooner(delayed_works[q], data, x, y)}
        /\ OrdAhead(q)'[y] = {x \in OrdQueued(q)' : y \in OrdQueued(q)' /\ Sooner(delayed_works'[q], data', x, y)}
    BY DEF OrdAhead
  <2>2. \A x \in OrdQueued(q)' : y \in OrdQueued(q)' =>
          (Sooner(delayed_works'[q], data', x, y) <=> Sooner(delayed_works[q], data, x, y))
    BY <1>1 DEF OrdQueued, Before
  <2>3. CASE y = z
    BY <1>1, <2>1, <2>3
  <2>4. CASE y # z
    <3>1. y \in OrdQueued(q)' <=> y \in OrdQueued(q)
      BY <1>1, <2>4
    <3> QED BY <1>1, <2>1, <2>2, <2>4, <3>1
  <2> QED BY <2>3, <2>4
<1>3. OrdAhead(q)' = [y \in Work |-> IF y = z THEN {} ELSE OrdAhead(q)[y] \ {z}]
  <2>1. OrdAhead(q)' = [y \in Work |-> OrdAhead(q)'[y]]
    BY DEF OrdAhead
  <2> QED BY <1>2, <2>1
<1> QED
  BY <1>1, <1>3 DEF Ordered!Leave

(* The one slot of an ordered pwq: who has it has it alone.                *)
LEMMA OneSlot ==
  ASSUME NEW q \in Pwq, SlotsOf(q), MaxActive[q] = 1
  PROVE  /\ \A x \in OnSlot(q) : OnSlot(q) = {x} /\ BySlot(q) = {}
         /\ \A w \in BySlot(q) : BySlot(q) = {w} /\ OnSlot(q) = {}
         /\ nr_active[q] < 1 => OnSlot(q) = {} /\ BySlot(q) = {}
<1> PICK A, B : A = OnSlot(q) /\ B = BySlot(q)
  OBVIOUS
<1>1. /\ IsFiniteSet(A) /\ Cardinality(A) \in Nat /\ IsFiniteSet(B) /\ Cardinality(B) \in Nat
      /\ nr_active[q] = Cardinality(A) + Cardinality(B) /\ Cardinality(A) + Cardinality(B) <= 1
  BY SlotSets DEF SlotsOf
<1>2. \A S : IsFiniteSet(S) => (Cardinality(S) = 0 <=> S = {})
  BY FS_EmptySet
<1>3. ASSUME NEW S, IsFiniteSet(S), Cardinality(S) <= 1, NEW x \in S PROVE S = {x} /\ Cardinality(S) = 1
  <2>1. IsFiniteSet(S \ {x}) /\ Cardinality(S \ {x}) = Cardinality(S) - 1 /\ Cardinality(S) \in Nat
    BY <1>3, FS_RemoveElement, FS_CardinalityType
  <2>2. Cardinality(S \ {x}) \in Nat
    BY <2>1, FS_CardinalityType
  <2>3. Cardinality(S \ {x}) = 0 /\ Cardinality(S) = 1
    BY <1>3, <2>1, <2>2
  <2>4. S \ {x} = {}
    BY <1>2, <2>1, <2>3
  <2> QED BY <1>3, <2>3, <2>4
<1>4. Cardinality(A) <= 1 /\ Cardinality(B) <= 1
  BY <1>1
<1>5. ASSUME NEW x \in A PROVE A = {x} /\ B = {}
  <2>1. A = {x} /\ Cardinality(A) = 1
    BY <1>1, <1>3, <1>4, <1>5
  <2>2. Cardinality(B) = 0
    BY <1>1, <2>1
  <2> QED BY <1>1, <1>2, <2>1, <2>2
<1>6. ASSUME NEW w \in B PROVE B = {w} /\ A = {}
  <2>1. B = {w} /\ Cardinality(B) = 1
    BY <1>1, <1>3, <1>4, <1>6
  <2>2. Cardinality(A) = 0
    BY <1>1, <2>1
  <2> QED BY <1>1, <1>2, <2>1, <2>2
<1>7. ASSUME nr_active[q] < 1 PROVE A = {} /\ B = {}
  <2>1. Cardinality(A) = 0 /\ Cardinality(B) = 0
    BY <1>1, <1>7
  <2> QED BY <1>1, <1>2, <2>1
<1> QED
  BY <1>5, <1>6, <1>7

(* The slot goes to the first of the works that wait, Q, and it leaves the *)
(* list s with items that are not among them: their order stays.           *)
LEMMA FirstGoes ==
  ASSUME NEW s \in Seq(Item), NEW t \in Seq(Item), NEW d, NEW e, NEW n \in 1 .. Len(s), NEW Q,
         Len(t) = Len(s) - n, \A j \in 1 .. Len(t) : t[j] = s[j + n],
         \A j \in 2 .. n : s[j] \notin Q,
         \A j, k \in 1 .. Len(s) : s[j] = s[k] => j = k,
         \A y \in Q : d[y].delayed /\ In(s, y) /\ (e[y].delayed <=> y # s[1]),
         NEW y \in Q, NEW z \in Q
  PROVE  Sooner(t, e, y, z) <=> Sooner(s, d, y, z)
<1>1. Len(s) \in Nat /\ Len(t) \in Nat /\ Len(s) >= 1
  BY LenProperties
<1>2. Sooner(s, d, y, z) <=> InFront(s, y, z)
  BY DEF Sooner
<1>3. CASE z = s[1]
  <2>1. ~InFront(s, y, z)
    BY <1>1, <1>3 DEF InFront
  <2> QED BY <1>2, <1>3, <2>1 DEF Sooner
<1>4. CASE z # s[1] /\ y = s[1]
  <2>1. PICK k \in 1 .. Len(s) : s[k] = z
    BY DEF In
  <2>2. 1 \in 1 .. Len(s) /\ 1 < k
    BY <1>1, <1>4, <2>1
  <2>3. InFront(s, y, z)
    BY <1>4, <2>1, <2>2 DEF InFront
  <2> QED BY <1>2, <1>4, <2>3 DEF Sooner
<1>5. CASE z # s[1] /\ y # s[1]
  <2>1. \A j \in 0 + 1 .. 0 + n : s[j] \notin {y, z}
    <3> SUFFICES ASSUME NEW j \in 1 .. n PROVE s[j] \notin {y, z}
      OBVIOUS
    <3>1. j = 1 \/ j \in 2 .. n
      OBVIOUS
    <3> QED BY <1>5, <3>1
  <2>2. \A j \in 1 .. Len(t) : t[j] = IF j <= 0 THEN s[j] ELSE s[j + n]
    BY <1>1
  <2>3. 0 \in Nat /\ n \in Nat /\ 0 + n <= Len(s)
    BY <1>1
  <2>4. InFront(t, y, z) <=> InFront(s, y, z)
    BY <2>1, <2>2, <2>3, CutOrder
  <2> QED BY <1>2, <1>5, <2>4 DEF Sooner
<1> QED
  BY <1>3, <1>4, <1>5

(* A step that changes nothing of the pwq.                                 *)
LEMMA OrdKeeps ==
  ASSUME NEW q \in Pwq, delayed_works'[q] = delayed_works[q],
         \A x \in Work : /\ data'[x].high = q <=> data[x].high = q
                         /\ data[x].high = q => (data'[x].delayed <=> data[x].delayed),
         \A x \in Work : Runs(q, x)' <=> Runs(q, x)
  PROVE  OrderedStep(q)
<1>1. \A x \in Work : \A y \in Work :
        data[x].high = q /\ data[y].high = q => (Before(q, x, y)' <=> Before(q, x, y))
  BY DEF Before, Sooner
<1> QED
  BY <1>1, OrdSame

(* The delayed works of a pwq are on its list.                             *)
LEMMA DelayedIn ==
  ASSUME NEW q \in Pwq, SlotsOf(q), NEW x \in Work, data[x].high = q
  PROVE  data[x].delayed <=> In(delayed_works[q], x)
  BY DEF SlotsOf, Waits, In

(* queue_work() puts the work behind all that are queued: it waits, or     *)
(* none is queued, as the slot is free.                                    *)
LEMMA QueueWorkOrder ==
  ASSUME TypeOK, TypeOK', ListInv, MaxActiveExact, NEW x \in Work, QueueWork(x), NEW q \in OrderedPwq
  PROVE  OrderedStep(q)
<1>1. q \in Pwq /\ MaxActive[q] = 1 /\ SlotsOf(q) /\ x \in Item
  BY SlotsAs, ItemFacts DEF OrderedPwq
<1>2. \A y \in Work : Runs(q, y)' <=> Runs(q, y)
  BY DEF Runs, QueueWork, busyVars
<1>3. CASE OnList(x)
  BY <1>1, <1>2, <1>3, OrdKeeps DEF QueueWork, listVars
<1>4. CASE ~OnList(x)
  <2> PICK p \in Pwq : p = queueing[x]
    BY <1>4, QueueWorkAppends
  <2>1. /\ \A y \in Work \ {x} : data'[y] = data[y]
        /\ data'[x].high = p /\ (data'[x].delayed <=> nr_active[p] >= MaxActive[p])
    <3>1. data' = [data EXCEPT ![x] = [pending |-> TRUE, delayed |-> nr_active[p] >= MaxActive[p],
                                       linked |-> FALSE, canceling |-> FALSE, high |-> p]]
      BY <1>4, QueueWorkAppends
    <3> QED BY <1>1, <3>1, ItemFacts DEF TypeOK
  <2>2. data[x].high # q
    BY <1>1, <1>4 DEF ListInv, QueuedOnce
  <2>3. \A r \in Pwq : delayed_works'[r] = IF r = p /\ nr_active[p] >= MaxActive[p]
                                           THEN Append(delayed_works[r], x) ELSE delayed_works[r]
    <3>1. /\ nr_active[p] >= MaxActive[p] => delayed_works' = [delayed_works EXCEPT ![p] = Append(delayed_works[p], x)]
          /\ ~(nr_active[p] >= MaxActive[p]) => delayed_works' = delayed_works
      BY <1>4 DEF QueueWork
    <3>2. delayed_works \in [Pwq -> Seq(Item)]
      BY DEF TypeOK
    <3> PICK u : u = Append(delayed_works[p], x)
      OBVIOUS
    <3>3. /\ nr_active[p] >= MaxActive[p] => delayed_works' = [delayed_works EXCEPT ![p] = u]
          /\ ~(nr_active[p] >= MaxActive[p]) => delayed_works' = delayed_works
      BY <3>1
    <3>4. \A r \in Pwq : delayed_works'[r] = IF r = p /\ nr_active[p] >= MaxActive[p]
                                            THEN u ELSE delayed_works[r]
      BY ONLY <3>2, <3>3
    <3> QED BY <3>4
  <2>4. CASE p # q
    BY <1>1, <1>2, <2>1, <2>2, <2>3, <2>4, OrdKeeps
  <2>5. CASE p = q
    <3> PICK s \in Seq(Item) : s = delayed_works[q]
      BY <1>1 DEF TypeOK
    <3>1. ~In(s, x)
      <4>1. q \in Heads /\ delayed_works[q] = Placed[q]
        BY <1>1, HeadFacts, PlacedFacts
      <4>2. ~(\E k \in 1 .. Len(At(q)) : At(q)[k] = x)
        BY <1>4, <4>1 DEF OnList
      <4>3. At(q) = delayed_works[q]
        BY <1>1, HeadFacts DEF At
      <4> QED BY <4>2, <4>3 DEF In
    <3>2. ASSUME NEW y \in Work, NEW z \in Work, data'[y].high = q, data'[z].high = q
          PROVE  Before(q, y, z)' <=> IF z = x THEN y # x ELSE y # x /\ Before(q, y, z)
      <4>1. CASE nr_active[q] >= MaxActive[q]
        <5>1. delayed_works'[q] = Append(s, x) /\ data'[x].delayed
          BY <1>1, <2>1, <2>3, <2>5, <4>1
        <5>2. /\ z # x => (InFront(delayed_works'[q], y, z) <=> InFront(s, y, z))
              /\ InFront(delayed_works'[q], y, x) <=> In(s, y)
          BY <1>1, <3>1, <5>1, AppendOrder
        <5>3. y # x => (data[y].delayed <=> In(s, y))
          <6>1. y # x => data[y].high = q
            BY <2>1, <3>2
          <6> QED BY <1>1, <6>1, DelayedIn
        <5>4. CASE z = x
          <6>1. Before(q, y, z)' <=> ~data'[y].delayed \/ In(s, y)
            BY <5>1, <5>2, <5>4 DEF Before, Sooner
          <6>2. CASE y = x
            BY <3>1, <5>1, <5>4, <6>1, <6>2
          <6>3. CASE y # x
            BY <2>1, <5>3, <5>4, <6>1, <6>3
          <6> QED BY <6>2, <6>3
        <5>5. CASE z # x
          <6>1. ~InFront(s, x, z)
            BY <3>1 DEF InFront, In
          <6>2. CASE y = x
            <7>1. ~Before(q, y, z)'
              BY <5>1, <5>2, <5>5, <6>1, <6>2 DEF Before, Sooner
            <7> QED BY <5>5, <6>2, <7>1
          <6>3. CASE y # x
            <7>1. Before(q, y, z)' <=> Before(q, y, z)
              BY <2>1, <5>1, <5>2, <5>5, <6>3 DEF Before, Sooner
            <7> QED BY <5>5, <6>3, <7>1
          <6> QED BY <6>2, <6>3
        <5> QED BY <5>4, <5>5
      <4>2. CASE ~(nr_active[q] >= MaxActive[q])
        <5>1. nr_active[q] < 1 /\ delayed_works[q] = <<>> /\ ~data'[x].delayed
          <6>1. nr_active[q] \in Int /\ ~(nr_active[q] >= 1)
            BY <1>1, <4>2 DEF TypeOK
          <6>2. nr_active[q] < 1 /\ nr_active[q] # MaxActive[q]
            BY <1>1, <6>1
          <6> QED BY <1>1, <2>1, <2>5, <4>2, <6>2 DEF SlotsOf
        <5>2. OnSlot(q) = {} /\ ~In(delayed_works[q], y) /\ ~In(delayed_works[q], z)
          BY <1>1, <5>1, OneSlot DEF In
        <5>3. y = x /\ z = x
          <6>1. \A u \in Work : data[u].high = q => data[u].delayed
            BY <5>2 DEF OnSlot
          <6>2. data[y].high # q /\ data[z].high # q
            BY <1>1, <5>2, <6>1, DelayedIn
          <6> QED BY <2>1, <3>2, <6>2
        <5> QED BY <5>1, <5>3 DEF Before, Sooner
      <4> QED BY <4>1, <4>2
    <3>3. OrdQueued(q)' = OrdQueued(q) \cup {x} /\ x \notin OrdQueued(q)
      BY <2>1, <2>2, <2>5 DEF OrdQueued
    <3>4. ASSUME NEW z \in Work
          PROVE  OrdAhead(q)'[z] = IF z = x THEN OrdQueued(q) ELSE OrdAhead(q)[z]
      <4>1. /\ OrdAhead(q)[z] = {y \in OrdQueued(q) : z \in OrdQueued(q) /\ Before(q, y, z)}
            /\ OrdAhead(q)'[z] = {y \in OrdQueued(q)' : z \in OrdQueued(q)' /\ Before(q, y, z)'}
        BY DEF OrdAhead, Before
      <4>2. \A y \in OrdQueued(q)' : z \in OrdQueued(q)' =>
              (Before(q, y, z)' <=> IF z = x THEN y # x ELSE y # x /\ Before(q, y, z))
        BY <3>2 DEF OrdQueued
      <4>3. CASE z = x
        <5>1. z \in OrdQueued(q)' /\ \A y \in OrdQueued(q)' : Before(q, y, z)' <=> y # x
          BY <3>3, <4>2, <4>3
        <5> QED BY <3>3, <4>1, <4>3, <5>1
      <4>4. CASE z # x
        <5>1. /\ z \in OrdQueued(q)' <=> z \in OrdQueued(q)
              /\ \A y \in OrdQueued(q)' : z \in OrdQueued(q) =>
                   (Before(q, y, z)' <=> y # x /\ Before(q, y, z))
          BY <3>3, <4>2, <4>4
        <5> QED BY <3>3, <4>1, <4>4, <5>1
      <4> QED BY <4>3, <4>4
    <3>5. OrdAhead(q)' = [OrdAhead(q) EXCEPT ![x] = OrdQueued(q)]
      <4>1. OrdAhead(q)' = [z \in Work |-> OrdAhead(q)'[z]] /\ OrdAhead(q) = [z \in Work |-> OrdAhead(q)[z]]
        BY DEF OrdAhead
      <4> QED BY <3>4, <4>1
    <3>6. OrdRunning(q)' = OrdRunning(q)
      BY <1>2 DEF OrdRunning, Runs
    <3> QED BY <3>3, <3>5, <3>6 DEF OrderedStep, Ordered!Next, Ordered!Enqueue
  <2> QED BY <2>4, <2>5
<1> QED
  BY <1>3, <1>4

(* A barrier behind one of its works changes no order of the works.        *)
LEMMA BarrierOrder ==
  ASSUME TypeOK, NEW q \in Pwq, NEW x, NEW b \in Barrier,
         UNCHANGED <<current_work, current_pwq>>,
         delayed_works'[q] \in {delayed_works[q], Behind(delayed_works[q], x, b)},
         \A y \in Work : data'[y].high = data[y].high /\ (data'[y].delayed <=> data[y].delayed)
  PROVE  OrderedStep(q)
<1>1. \A y \in Work : Runs(q, y)' <=> Runs(q, y)
  BY DEF Runs
<1>2. delayed_works[q] \in Seq(Item) /\ b \in Item /\ \A y \in Work : y # b
  BY ItemFacts, PoolAssumption DEF TypeOK
<1>3. \A y \in Work : \A z \in Work :
        InFront(delayed_works'[q], y, z) <=> InFront(delayed_works[q], y, z)
  BY <1>2, BehindOrder
<1>4. \A y \in Work : \A z \in Work :
        data[y].high = q /\ data[z].high = q => (Before(q, y, z)' <=> Before(q, y, z))
  BY <1>3 DEF Before, Sooner
<1> QED
  BY <1>1, <1>4, OrdSame

(* A claimed work starts when nothing runs, and it is the first: it holds  *)
(* the slot, so it does not wait.                                          *)
LEMMA ClaimOrder ==
  ASSUME TypeOK, TypeOK', Busy, ListInv, MaxActiveExact, NEW w \in Worker, pc[w] \in {"next", "sched"},
         NEW i \in Item, NEW g, g \notin Pwq, Drops(Item, Heads, Placed, Placed', g), Placed[g][1] = i,
         data' = [data EXCEPT ![i] = OffQueue(PoolId, FALSE)],
         current_work' = [current_work EXCEPT ![w] = i],
         current_pwq' = [current_pwq EXCEPT ![w] = data[i].high],
         UNCHANGED delayed_works, NEW q \in OrderedPwq
  PROVE  OrderedStep(q)
<1>1. /\ q \in Pwq /\ MaxActive[q] = 1 /\ SlotsOf(q) /\ current_work[w] = None
      /\ None \notin Work /\ \A x \in Work : x \in Item
  BY SlotsAs, NoneFacts, ItemFacts DEF OrderedPwq, Busy
<1>2. /\ \A y \in Item \ {i} : data'[y] = data[y]
      /\ data'[i].high # q
  BY <1>1, HeadFacts DEF TypeOK, OffQueue, WorkDataInit
<1>3. /\ \A u \in Worker \ {w} : current_work'[u] = current_work[u] /\ current_pwq'[u] = current_pwq[u]
      /\ current_work'[w] = i /\ current_pwq'[w] = data[i].high
  BY DEF TypeOK
<1>4. \A x \in Work : Runs(q, x)' <=> Runs(q, x) \/ (x = i /\ data[i].high = q)
  BY <1>1, <1>3 DEF Runs
<1>5. CASE i \notin Work \/ data[i].high # q
  BY <1>1, <1>2, <1>4, <1>5, OrdKeeps
<1>6. CASE i \in Work /\ data[i].high = q
  <2>1. ~In(delayed_works[q], i)
    <3> SUFFICES ASSUME NEW k \in 1 .. Len(delayed_works[q]), delayed_works[q][k] = i PROVE FALSE
      BY DEF In
    <3>1. Injective(Placed, Heads) /\ g \in Heads /\ Len(Placed[g]) \in Nat \ {0}
      <4>1. Injective(Placed, Heads) /\ g \in Heads
        BY QueuedOnceAs DEF ListInv, Drops
      <4>2. Len(Placed[g]) > 0 /\ Len(Placed[g]) \in Nat
        BY <4>1, DropElements
      <4> QED BY <4>1, <4>2
    <3>2. q \in Heads /\ Placed[q] = delayed_works[q] /\ 1 \in 1 .. Len(Placed[g])
      BY <1>1, <3>1, HeadFacts, PlacedFacts
    <3>3. q = g
      BY <3>1, <3>2 DEF Injective
    <3> QED BY <1>1, <3>3
  <2>2. ~data[i].delayed
    BY <1>1, <1>6, <2>1, DelayedIn
  <2>3. BySlot(q) = {}
    <3>1. i \in OnSlot(q)
      BY <1>6, <2>2 DEF OnSlot
    <3> QED BY <1>1, <3>1, OneSlot
  <2>4. OrdRunning(q) = {}
    BY <2>3 DEF OrdRunning, BySlot
  <2>5. OrdRunning(q)' = {i}
    <3>1. \A x \in Work : ~Runs(q, x)
      BY <2>4 DEF OrdRunning, Runs
    <3> QED BY <1>4, <1>6, <3>1 DEF OrdRunning, Runs
  <2>6. OrdAhead(q)[i] = {}
    BY <1>6, <2>2 DEF OrdAhead, Sooner
  <2>7. Ordered(q)!Leave(i)
    <3>1. \A x \in Work \ {i} : data'[x] = data[x]
      BY <1>1, <1>2
    <3>2. \A x \in Work \ {i} : \A y \in Work \ {i} :
            data[x].high = q /\ data[y].high = q => (Before(q, x, y)' <=> Before(q, x, y))
      BY <3>1 DEF Before, Sooner
    <3>3. \A x \in Work \ {i} : data'[x].high = q <=> data[x].high = q
      BY <3>1
    <3>4. i \in Work /\ data[i].high = q /\ data'[i].high # q /\ q \in Pwq
      BY <1>1, <1>2, <1>6
    <3> HIDE DEF Before
    <3> QED BY ONLY <3>2, <3>3, <3>4, OrdLeaves
  <2> QED BY <1>6, <2>4, <2>5, <2>6, <2>7 DEF OrderedStep, Ordered!Next, Ordered!Start
<1> QED
  BY <1>5, <1>6

(* process_one_work() of any item, also of another pwq, and the handover   *)
(* of a chain to the worker that executes its first work.                  *)
LEMMA ProcessOneWorkOrder ==
  ASSUME TypeOK, TypeOK', Busy, ListInv, WorkBooks, NEW w \in Worker,
         NEW from \in {"worklist", "scheduled"},
         pc[w] \in {"next", "sched"}, ProcessOneWork(w, from), NEW q \in OrderedPwq
  PROVE  OrderedStep(q)
<1> PICK s : s = (IF from = "worklist" THEN worklist ELSE scheduled[w])
  OBVIOUS
<1>1. s # <<>> /\ (Claim(w, from, Head(s)) \/ Defer(w, from, s)) /\ UNCHANGED delayed_works
  BY DEF ProcessOneWork
<1>2. CASE Claim(w, from, Head(s))
  <2> PICK i : i = Head(s)
    OBVIOUS
  <2>1. i \in Item /\ i = s[1] /\ \E g : g \notin Pwq /\ Placed[g] = s /\ Drops(Item, Heads, Placed, Placed', g)
    BY <1>1, <1>2, ClaimDrops
  <2> PICK g : g \notin Pwq /\ Placed[g] = s /\ Drops(Item, Heads, Placed, Placed', g)
    BY <2>1
  <2>2. /\ data' = [data EXCEPT ![i] = OffQueue(PoolId, FALSE)]
        /\ current_work' = [current_work EXCEPT ![w] = i]
        /\ current_pwq' = [current_pwq EXCEPT ![w] = data[i].high]
    BY <1>2 DEF Claim
  <2> QED BY <1>1, <2>1, <2>2, ClaimOrder DEF WorkBooks
<1>3. CASE Defer(w, from, s)
  <2>1. UNCHANGED <<data, current_work, current_pwq>> /\ q \in Pwq
    BY <1>3 DEF Defer, OrderedPwq
  <2>2. \A x \in Work : Runs(q, x)' <=> Runs(q, x)
    BY <2>1 DEF Runs
  <2> QED BY <1>1, <2>1, <2>2, OrdKeeps
<1> QED
  BY <1>1, <1>2, <1>3

(* The return of a work ends it, and of the works that wait the first one  *)
(* gets the slot: it keeps its place.                                      *)
LEMMA ReturnOrder ==
  ASSUME TypeOK, TypeOK', ListInv, Busy, WorkBooks, NEW w \in Worker, Return(w), NEW q \in OrderedPwq
  PROVE  OrderedStep(q)
<1>1. /\ q \in Pwq /\ MaxActive[q] = 1 /\ SlotsOf(q) /\ None \notin Work /\ q # None
      /\ current_work[w] \in Item /\ current_pwq[w] \in Pwq
      /\ \A x \in Work : x \in Item /\ x \notin Barrier
      /\ \A u \in Worker : current_work'[u] = IF u = w THEN None ELSE current_work[u]
      /\ \A u \in Worker : current_pwq'[u] = IF u = w THEN None ELSE current_pwq[u]
  BY SlotsAs, ReturnFacts, HeadFacts, ItemFacts, PoolAssumption DEF OrderedPwq, WorkBooks
<1> PICK p \in Pwq, s \in Seq(Item) : p = current_pwq[w] /\ s = delayed_works[p]
  BY <1>1 DEF TypeOK
<1> PICK n : n = ChainLen(s, data)
  OBVIOUS
<1>2. CASE current_pwq[w] = q /\ current_work[w] \in Work
  <2>1. BySlot(q) = {w} /\ OnSlot(q) = {}
    <3>1. w \in BySlot(q)
      BY <1>2 DEF BySlot
    <3> QED BY <1>1, <3>1, OneSlot
  <2>2. OrdRunning(q) # {} /\ OrdRunning(q)' = {}
    <3>1. \A x \in Work : Runs(q, x) <=> x = current_work[w]
      BY <1>2, <2>1 DEF Runs, BySlot
    <3>2. \A x \in Work : ~Runs(q, x)'
      BY <1>1, <2>1 DEF Runs, BySlot
    <3> QED BY <1>2, <3>1, <3>2 DEF OrdRunning, Runs
  <2>3. /\ \A x \in Work : data'[x].high = q <=> data[x].high = q
        /\ \A x \in Work : \A y \in Work :
             data[x].high = q /\ data[y].high = q => (Before(q, x, y)' <=> Before(q, x, y))
    <3>1. CASE ~Hands(w)
      BY <3>1, ReturnKeeps DEF Before, Sooner
    <3>2. CASE Hands(w)
      <4> PICK Q, t, d, e : /\ Q = {x \in Work : data[x].high = q} /\ t = delayed_works'[q]
                            /\ d = data /\ e = data'
        OBVIOUS
      <4>1. /\ n \in 1 .. Len(s) /\ Len(t) = Len(s) - n
            /\ \A j \in 1 .. Len(t) : t[j] = s[j + n]
            /\ \A j \in 2 .. n : s[j] \in Barrier
            /\ \A j, k \in 1 .. Len(s) : s[j] = s[k] => j = k
            /\ \A x \in Work : data'[x].high = data[x].high /\ (data'[x].delayed <=> data[x].delayed /\ x # s[1])
        BY <1>1, <1>2, <3>2, ReturnHands
      <4>2. \A x \in Q : d[x].delayed /\ In(s, x) /\ (e[x].delayed <=> x # s[1])
        <5> TAKE x \in Q
        <5>1. data[x].delayed
          BY <2>1 DEF OnSlot
        <5> QED BY <1>1, <1>2, <4>1, <5>1, DelayedIn
      <4>3. \A j \in 2 .. n : s[j] \notin Q
        BY <1>1, <4>1
      <4>4. t \in Seq(Item)
        BY <1>1 DEF TypeOK
      <4>5. \A x, y \in Q : Sooner(t, e, x, y) <=> Sooner(s, d, x, y)
        <5> TAKE x, y \in Q
        <5>1. /\ Len(t) = Len(s) - n /\ \A j \in 1 .. Len(t) : t[j] = s[j + n]
              /\ \A j, k \in 1 .. Len(s) : s[j] = s[k] => j = k
          BY <4>1
        <5>2. n \in 1 .. Len(s)
          BY <4>1
        <5>3. s \in Seq(Item) /\ x \in Q /\ y \in Q
          OBVIOUS
        <5> QED BY ONLY <5>1, <5>2, <5>3, <4>2, <4>3, <4>4, FirstGoes
      <4> QED BY <1>2, <4>1, <4>5 DEF Before
    <3> QED BY <3>1, <3>2
  <2>4. OrdQueued(q)' = OrdQueued(q) /\ OrdAhead(q)' = OrdAhead(q)
    BY <1>1, <2>3, OrdLine
  <2> QED BY <2>2, <2>4 DEF OrderedStep, Ordered!Next, Ordered!Finish
<1>3. CASE ~(current_pwq[w] = q /\ current_work[w] \in Work)
  <2>1. \A x \in Work : Runs(q, x)' <=> Runs(q, x)
    BY <1>1, <1>3 DEF Runs
  <2>2. CASE ~Hands(w)
    BY <1>1, <2>1, <2>2, OrdKeeps, ReturnKeeps
  <2>3. CASE Hands(w)
    <3>1. p # q
      BY <1>1, <1>3, <2>3 DEF Hands, Frees, Item
    <3>2. /\ s # <<>> /\ Len(s) \in Nat \ {0} /\ s[1] \in Work
          /\ \A x \in Item : data'[x].high = data[x].high /\ (data'[x].delayed <=> data[x].delayed /\ x # s[1])
          /\ delayed_works'[q] = delayed_works[q]
      BY <1>1, <2>3, <3>1, ReturnHands
    <3>3. data[s[1]].high = p
      <4>1. Waits(p, s[1]) /\ SlotsOf(p)
        BY <3>2, SlotsAs DEF Waits, WorkBooks
      <4> QED BY <3>2, <4>1 DEF SlotsOf
    <3> QED BY <1>1, <2>1, <3>1, <3>2, <3>3, OrdKeeps
  <2> QED BY <2>2, <2>3
<1> QED
  BY <1>2, <1>3

(* A step that touches no work.                                            *)
LEMMA OtherOrder ==
  ASSUME NEW q \in OrderedPwq,
         UNCHANGED <<delayed_works, current_work, current_pwq>>,
         \A x \in Work : data'[x].high = data[x].high /\ data'[x].delayed = data[x].delayed
  PROVE  OrderedStep(q)
<1>1. q \in Pwq /\ \A x \in Work : Runs(q, x)' <=> Runs(q, x)
  BY DEF OrderedPwq, Runs
<1> QED
  BY <1>1, OrdKeeps

(* Every step of a worker is one of OrderedQueue, or none.                 *)
LEMMA WorkerStepOrder ==
  ASSUME TypeOK, TypeOK', Busy, ListInv, WorkBooks, NEW w \in Worker, WorkerStep(w),
         NEW q \in OrderedPwq
  PROVE  OrderedStep(q)
<1>1. CASE OtherStep(w)
  <2>1. UNCHANGED <<listVars, busyVars>>
    BY <1>1 DEF OtherStep, WokeUp, Dying, Recheck, CreateWorker, CreateFails, Relock, LoopEnd,
       RunFunc, Sleep
  <2> QED BY <2>1, OtherOrder DEF listVars, busyVars
<1>2. CASE Next1(w)
  BY <1>2, ProcessOneWorkOrder DEF Next1
<1>3. CASE MoveLinked(w)
  BY <1>3, OtherOrder DEF MoveLinked
<1>4. CASE ProcessScheduled(w)
  BY <1>4, ProcessOneWorkOrder DEF ProcessScheduled
<1>5. CASE Return(w)
  BY <1>5, ReturnOrder
<1> QED
  BY <1>1, <1>2, <1>3, <1>4, <1>5 DEF WorkerStep, OtherStep

(* test_and_set of PENDING is none.                                        *)
LEMMA SetPendingOrder ==
  ASSUME TypeOK, NEW x \in Work, NEW p \in Pwq, SetPending(x, p), NEW q \in OrderedPwq
  PROVE  OrderedStep(q)
<1>1. UNCHANGED <<delayed_works, current_work, current_pwq>> /\ data' = [data EXCEPT ![x].pending = TRUE]
  BY DEF SetPending, busyVars
<1>2. \A y \in Work : data'[y].high = data[y].high /\ data'[y].delayed = data[y].delayed
  BY <1>1, ItemFacts DEF TypeOK, Word
<1> QED
  BY <1>1, <1>2, OtherOrder

(* flush_work() is none.                                                   *)
LEMMA FlushWorkOrder ==
  ASSUME TypeOK, TypeOK', Busy, ListInv, NEW x \in Work, NEW b \in Barrier, FlushWork(x, b),
         NEW q \in OrderedPwq
  PROVE  OrderedStep(q)
<1>1. /\ q \in Pwq /\ x \in Item /\ b \in Item /\ x # b /\ \A y \in Work : y \in Item /\ y # b
      /\ UNCHANGED <<current_pwq, current_work>>
  BY ItemFacts, PoolAssumption DEF FlushWork, InsertBarrier, OrderedPwq
<1>2. \/ /\ delayed_works' = delayed_works
         /\ \E p \in Pwq : data' = [data EXCEPT ![b] = BarrierWord(p, FALSE)]
      \/ /\ data[x].high \in Pwq
         /\ data' = [data EXCEPT ![b] = BarrierWord(data[x].high, data[x].linked), ![x].linked = TRUE]
         /\ delayed_works' = [p \in Pwq |-> Behind(delayed_works[p], x, b)]
  BY FlushWorkInserts, Zenon
<1>3. delayed_works'[q] \in {delayed_works[q], Behind(delayed_works[q], x, b)}
  BY <1>1, <1>2
<1>4. \A y \in Work : data'[y].high = data[y].high /\ (data'[y].delayed <=> data[y].delayed)
  <2>1. CASE \E p \in Pwq : data' = [data EXCEPT ![b] = BarrierWord(p, FALSE)]
    BY <1>1, <2>1 DEF TypeOK
  <2>2. CASE /\ data[x].high \in Pwq
             /\ data' = [data EXCEPT ![b] = BarrierWord(data[x].high, data[x].linked), ![x].linked = TRUE]
    <3> PICK d1 : d1 = [data EXCEPT ![b] = BarrierWord(data[x].high, data[x].linked)]
      OBVIOUS
    <3>1. data' = [d1 EXCEPT ![x].linked = TRUE]
      BY <2>2
    <3>2. /\ d1 \in [Item -> Word] /\ \A y \in Item \ {b} : d1[y] = data[y]
      <4>1. BarrierWord(data[x].high, data[x].linked) \in Word
        BY <1>1, <2>2, BarrierWordType DEF TypeOK, Word
      <4> QED BY <1>1, <4>1 DEF TypeOK
    <3> QED BY <1>1, <3>1, <3>2 DEF Word
  <2> QED BY <1>2, <2>1, <2>2
<1> QED
  BY <1>1, <1>3, <1>4, BarrierOrder

(* A pwq starts as an empty OrderedQueue ...                               *)
LEMMA InitOrder ==
  ASSUME Init, NEW q \in OrderedPwq
  PROVE  Ordered(q)!Init
<1>1. /\ q \in Pwq /\ q # None /\ \A x \in Work : data[x].high # q
      /\ \A w \in Worker : current_pwq[w] = None
  BY ItemFacts, HeadFacts DEF Init, OrderedPwq, WorkDataInit
<1>2. OrdQueued(q) = {}
  BY <1>1 DEF OrdQueued
<1>3. OrdAhead(q) = [x \in Work |-> {}]
  BY <1>2 DEF OrdAhead
<1>4. OrdRunning(q) = {}
  BY <1>1 DEF OrdRunning
<1> QED
  BY <1>2, <1>3, <1>4 DEF Ordered!Init

(* ... and every step is one of OrderedQueue, or none.                     *)
LEMMA NextOrder ==
  ASSUME IInv, IInv', BooksInv, [Next]_vars, NEW q \in OrderedPwq
  PROVE  OrderedStep(q)
<1>1. TypeOK /\ TypeOK' /\ Busy /\ ListInv /\ WorkBooks
  BY DEF IInv, CoreInv, PoolCore, BooksInv, WorkBooks
<1>2. CASE Client
  BY <1>1, <1>2, SetPendingOrder, QueueWorkOrder, FlushWorkOrder DEF Client, WorkBooks
<1>3. CASE \E w \in Worker : WorkerStep(w)
  BY <1>1, <1>3, WorkerStepOrder
<1>4. CASE TimerExpire \/ IdleWorkerTimeout \/ UNCHANGED vars
  <2>1. UNCHANGED <<delayed_works, current_work, current_pwq, data>>
    BY <1>4 DEF TimerExpire, IdleWorkerTimeout, vars, listVars, busyVars
  <2> QED BY <2>1, OtherOrder
<1> QED
  BY <1>2, <1>3, <1>4 DEF Next

(* However many workers share the pool with however many workqueues, a pwq *)
(* of max_active 1 runs its works one at a time, in the order in which     *)
(* they were queued.                                                       *)
THEOREM RunsInQueuedOrder == Spec => InQueuedOrder
<1>1. Init => \A q \in OrderedPwq : Ordered(q)!Init
  BY InitOrder
<1>2. IInv /\ IInv' /\ BooksInv /\ [Next]_vars => [\A q \in OrderedPwq : OrderedStep(q)]_vars
  BY NextOrder
<1> QED
  BY <1>1, <1>2, Invariance, BooksInvariance, PTL DEF Spec, InQueuedOrder
=============================================================================
