--------------------------- MODULE WorkQueueProofs ---------------------------
(***************************************************************************)
(* Proofs about WorkQueue, the clients of the pool that flush, delay and   *)
(* cancel works: PENDING has one owner and CANCELING belongs to one cancel *)
(* (CallersExact), the lists and the slots of max_active stay exact when a *)
(* work is stolen (ListsAndSlots), a flush that waited did wait for its    *)
(* work (FlushTrueWaited), a worker is always on its way to the worklist   *)
(* (WorkComing), and an ordered workqueue keeps its order (InQueuedOrder). *)
(***************************************************************************)
EXTENDS WorkQueue, PoolBooksProofs
-----------------------------------------------------------------------------
(* The invariant                                                           *)

(* What a caller is doing, by where it is.                                 *)
Frame(c) ==
  /\ cpc[c] = "idle" <=> tgt[c] = None
  /\ cpc[c] \in {"del_sync", "queue"} => op[c] = "flush_delayed_work"
  /\ cpc[c] \in {"del_sync", "queue", "del"} => tgt[c] \in DelayedWork
  /\ cpc[c] \in {"flush", "flush_lock", "wait"} => op[c] \in {"flush_work", "cancel_sync"}
  /\ cpc[c] \in {"del", "test", "pool", "steal", "failed"}
       => op[c] \in {"cancel_delayed_work", "cancel_sync"}
  /\ cpc[c] = "drop" => op[c] = "cancel_delayed_work"
  /\ cpc[c] \in {"mark", "cond_lock", "cond_wait", "clear", "broadcast"} => op[c] = "cancel_sync"
Frames == \A c \in Caller : Frame(c)

(* A barrier is on a list, or is executed, only while its caller waits.    *)
Quiet(c) ==
  /\ data[c].high \in Pwq => cpc[c] = "wait" /\ ~done[c]
  /\ \A w \in Worker : pc[w] = "exec" /\ current_work[w] = c =>
       cpc[c] = "wait" /\ ~done[c] /\ data[c].high \notin Pwq
  /\ done[c] => cpc[c] = "wait"
BarrierQuiet == \A c \in Caller : Quiet(c)

(* A timer that can fire knows its workqueue.                              *)
TimersReady == \A x \in DelayedWork : tmr[x] \/ x \in arming => dwq[x] \in Pwq

(* The kinds of owner of PENDING of x, of which at most one has it.        *)
Queues(x)   == queueing[x] # None
Arms(x)     == x \in arming
Ticks(x)    == x \in DelayedWork /\ tmr[x]
Listed(x)   == data[x].high \in Pwq
Holds(c, x) == tgt[c] = x /\ Owns(c)
SoleAt(x) ==
  /\ data[x].pending <=> Queues(x) \/ Arms(x) \/ Ticks(x) \/ Listed(x) \/ \E c \in Caller : Holds(c, x)
  /\ Queues(x) => ~Arms(x) /\ ~Ticks(x) /\ ~Listed(x) /\ \A c \in Caller : ~Holds(c, x)
  /\ Arms(x) => ~Ticks(x) /\ ~Listed(x) /\ \A c \in Caller : ~Holds(c, x)
  /\ Ticks(x) => ~Listed(x) /\ \A c \in Caller : ~Holds(c, x)
  /\ Listed(x) => \A c \in Caller : ~Holds(c, x)
  /\ \A c, d \in Caller : Holds(c, x) /\ Holds(d, x) => c = d
Sole == \A x \in Work : SoleAt(x)

(* The one cancel_work_sync() that CANCELING of x belongs to.              *)
Cancels(c, x) == /\ tgt[c] = x /\ op[c] = "cancel_sync"
                 /\ cpc[c] \in {"flush", "flush_lock", "wait", "clear"}
CancelAt(x) == data[x].canceling <=> \E c \in Caller : Cancels(c, x)

(* What QInv says of the callers.                                          *)
CallerInv == /\ Frames /\ BarrierQuiet /\ TimersReady /\ Sole
             /\ CancelingExact /\ CancelWaiterWoken

(* From its work on, a barrier's list is LINKED up to it.                  *)
Ahead(A, d, x, b) ==
  \E h \in Heads : \E k \in 1 .. Len(A[h]) : \E j \in 1 .. k - 1 :
    /\ A[h][j] = x /\ A[h][k] = b
    /\ \A i \in j .. k - 1 : d[A[h][i]].linked

(* It is in the scheduled list of the worker that executes x.              *)
HeldBy(x, b) == \E w \in Worker : current_work[w] = x /\ In(scheduled[w], b)

(* A caller whose instance of its work is still to come, or runs, waits on *)
(* a barrier behind that instance, or at the worker that runs it.          *)
AwaitsRight(c) ==
  /\ awaits[c] # "none" => cpc[c] = "wait" /\ ~done[c]
  /\ awaits[c] = "queued" => Ahead(Placed, data, tgt[c], c)
  /\ awaits[c] = "running" => HeldBy(tgt[c], c)
FlushInv == \A c \in Caller : AwaitsRight(c)

(* The manager is the worker that creates another.                         *)
ManagerPlace == \A w \in Worker : manager = w <=> pc[w] \in {"create", "relock"}

(* The inductive invariant.                                                *)
QInv == TypeOKQ /\ CoreInv /\ WorkBooks /\ CallerInv
-----------------------------------------------------------------------------
(* Lists                                                                   *)

(* list_del_init(): the work is gone, and nothing else is.                 *)
LEMMA WithoutFacts ==
  ASSUME NEW s \in Seq(Item), NEW x
  PROVE  /\ Without(s, x) \in Seq(Item)
         /\ ~In(s, x) => Without(s, x) = s
         /\ In(s, x) => \E k \in 1 .. Len(s) :
              /\ s[k] = x /\ Len(Without(s, x)) = Len(s) - 1
              /\ \A j \in 1 .. Len(s) - 1 :
                   Without(s, x)[j] = IF j < k THEN s[j] ELSE s[j + 1]
<1>1. CASE ~In(s, x)
  BY <1>1 DEF Without
<1>2. CASE In(s, x)
  <2>1. PICK k \in 1 .. Len(s) : k = CHOOSE i \in 1 .. Len(s) : s[i] = x
    BY <1>2 DEF In
  <2>2. s[k] = x
    BY <1>2, <2>1 DEF In
  <2>3. Without(s, x) = RemoveAt(s, k)
    BY <1>2, <2>1 DEF Without
  <2>4. /\ RemoveAt(s, k) \in Seq(Item) /\ Len(RemoveAt(s, k)) = Len(s) - 1
        /\ \A j \in 1 .. Len(s) - 1 : RemoveAt(s, k)[j] = IF j < k THEN s[j] ELSE s[j + 1]
    BY RemoveAtElements
  <2> QED BY <1>2, <2>2, <2>3, <2>4
<1> QED
  BY <1>1, <1>2

(* Only the LINKED bits of the items on the lists matter.                  *)
LEMMA SameLinksOn ==
  ASSUME NEW A \in [Heads -> Seq(Item)], NEW d, NEW e, Chained(A, d),
         \A x \in Item : On(A, Heads, x) => (e[x].linked <=> d[x].linked)
  PROVE  Chained(A, e)
<1>1. \A h \in Heads : \A k \in 1 .. Len(A[h]) : A[h][k] \in Item /\ On(A, Heads, A[h][k])
  BY ElementOfSeq DEF On
<1>2. \A q \in Pwq : q \in Heads /\ Len(A[q]) \in Nat
  BY HeadFacts, LenProperties
<1>3. Follow(A, e)
  BY <1>1 DEF Chained, Follow
<1>4. Preceded(A, e)
  <2> SUFFICES ASSUME NEW q \in Pwq, NEW k \in 1 .. Len(A[q]), A[q][k] \in Barrier
               PROVE  k > 1 /\ e[A[q][k - 1]].linked
    BY DEF Preceded
  <2>1. k > 1 /\ d[A[q][k - 1]].linked
    BY DEF Chained, Preceded
  <2>2. k - 1 \in 1 .. Len(A[q])
    BY <1>2, <2>1
  <2>3. A[q][k - 1] \in Item /\ On(A, Heads, A[q][k - 1])
    BY <1>1, <1>2, <2>2
  <2> QED BY <2>1, <2>3
<1> QED
  BY <1>3, <1>4 DEF Chained

(* The chains stay as they are when the items stay next to each other that *)
(* a LINKED bit ties together.                                             *)
LEMMA ChainedKept ==
  ASSUME NEW A \in [Heads -> Seq(Item)], NEW B \in [Heads -> Seq(Item)], NEW d,
         Chained(A, d), Injective(B, Heads),
         \A x : On(B, Heads, x) => On(A, Heads, x),
         \A q \in Pwq : \A k \in 1 .. Len(B[q]) : \E p \in 1 .. Len(A[q]) : B[q][k] = A[q][p],
         \A q \in Pwq : \A p \in 1 .. Len(A[q]) : On(B, Heads, A[q][p]),
         \A f \in Heads : \A p \in 1 .. Len(A[f]) - 1 :
           /\ d[A[f][p]].linked /\ A[f][p + 1] \in Barrier /\ On(B, Heads, A[f][p])
           => Kept(Heads, A, B, f, p, p + 1)
  PROVE  Chained(B, d)
<1>1. /\ \A f \in Heads : Len(A[f]) \in Nat /\ Len(B[f]) \in Nat
      /\ \A q \in Pwq : q \in Heads
  BY HeadFacts, LenProperties
<1>2. ASSUME NEW f \in Heads, NEW p \in 1 .. Len(A[f]) - 1,
             d[A[f][p]].linked, A[f][p + 1] \in Barrier, On(B, Heads, A[f][p])
      PROVE  \E e \in Heads : \E i \in 1 .. Len(B[e]) - 1 : B[e][i] = A[f][p] /\ B[e][i + 1] = A[f][p + 1]
  <2>1. PICK e \in Heads, r \in Int :
          \A i \in p .. p + 1 : i + r \in 1 .. Len(B[e]) /\ B[e][i + r] = A[f][i]
    BY <1>2 DEF Kept
  <2>2. p \in p .. p + 1 /\ p + 1 \in p .. p + 1 /\ (p + 1) + r = (p + r) + 1
    BY <1>1
  <2>3. /\ p + r \in 1 .. Len(B[e]) /\ B[e][p + r] = A[f][p]
        /\ (p + 1) + r \in 1 .. Len(B[e]) /\ B[e][(p + 1) + r] = A[f][p + 1]
    BY <2>1, <2>2
  <2>4. p + r \in 1 .. Len(B[e]) - 1 /\ B[e][p + r] = A[f][p] /\ B[e][(p + r) + 1] = A[f][p + 1]
    BY <1>1, <2>2, <2>3
  <2> QED BY <2>4
<1>3. ASSUME NEW f \in Heads, NEW k \in 1 .. Len(B[f]), d[B[f][k]].linked
      PROVE  k < Len(B[f]) /\ B[f][k + 1] \in Barrier
  <2>1. On(B, Heads, B[f][k])
    BY DEF On
  <2>2. PICK g \in Heads : \E p \in 1 .. Len(A[g]) : A[g][p] = B[f][k]
    BY <2>1 DEF On
  <2>3. PICK p \in 1 .. Len(A[g]) : A[g][p] = B[f][k]
    BY <2>2
  <2>4. p < Len(A[g]) /\ A[g][p + 1] \in Barrier
    BY <1>3, <2>3 DEF Chained, Follow
  <2>5. p \in 1 .. Len(A[g]) - 1
    BY <1>1, <2>4
  <2>6. PICK e \in Heads : \E i \in 1 .. Len(B[e]) - 1 :
          B[e][i] = A[g][p] /\ B[e][i + 1] = A[g][p + 1]
    BY <1>2, <1>3, <2>1, <2>3, <2>4, <2>5
  <2>7. PICK i \in 1 .. Len(B[e]) - 1 : B[e][i] = A[g][p] /\ B[e][i + 1] = A[g][p + 1]
    BY <2>6
  <2>8. e = f /\ i = k
    BY <1>1, <2>3, <2>7 DEF Injective
  <2> QED BY <1>1, <2>4, <2>7, <2>8
<1>4. ASSUME NEW q \in Pwq, NEW k \in 1 .. Len(B[q]), B[q][k] \in Barrier
      PROVE  k > 1 /\ d[B[q][k - 1]].linked
  <2>1. PICK p \in 1 .. Len(A[q]) : B[q][k] = A[q][p]
    OBVIOUS
  <2>2. p > 1 /\ d[A[q][p - 1]].linked
    BY <1>4, <2>1 DEF Chained, Preceded
  <2>3. p - 1 \in 1 .. Len(A[q]) - 1 /\ (p - 1) + 1 = p /\ p - 1 \in 1 .. Len(A[q])
    BY <1>1, <2>2
  <2>4. On(B, Heads, A[q][p - 1])
    BY <2>3
  <2>5. PICK j : j = p - 1
    OBVIOUS
  <2>6. /\ j \in 1 .. Len(A[q]) - 1 /\ A[q][j + 1] \in Barrier /\ d[A[q][j]].linked
        /\ A[q][j + 1] = A[q][p] /\ On(B, Heads, A[q][j])
    BY <1>4, <2>1, <2>2, <2>3, <2>4, <2>5
  <2>7. PICK e \in Heads : \E i \in 1 .. Len(B[e]) - 1 : B[e][i] = A[q][j] /\ B[e][i + 1] = A[q][j + 1]
    BY <1>1, <1>2, <2>6
  <2>8. PICK i \in 1 .. Len(B[e]) - 1 : B[e][i] = A[q][j] /\ B[e][i + 1] = A[q][j + 1]
    BY <2>7
  <2>9. i + 1 \in 1 .. Len(B[e]) /\ B[e][i + 1] = B[q][k]
    BY <1>1, <2>1, <2>8, <2>6
  <2>10. e = q /\ i + 1 = k
    <3>1. Injective(B, Heads) /\ q \in Heads
      BY <1>1, HeadFacts
    <3>2. PICK v : v = i + 1
      OBVIOUS
    <3> QED BY ONLY <3>1, <3>2, <2>9, e \in Heads, k \in 1 .. Len(B[q]) DEF Injective
  <2>11. k > 1 /\ k - 1 = i /\ B[q][i] = A[q][j]
    BY <1>1, <2>8, <2>10
  <2> QED BY <2>11, <2>6
<1> QED
  BY <1>3, <1>4 DEF Chained, Follow, Preceded

(* A whole chain moves away from behind an item that is not tied to it.    *)
LEMMA ChainedCuts ==
  ASSUME NEW A, NEW B, NEW g, NEW h, NEW m, NEW n, NEW d, Chained(A, d), Injective(A, Heads),
         Cuts(Item, Heads, A, B, g, h, m, n), h \notin Pwq,
         m > 0 => ~(d[A[g][m]].linked /\ A[g][m + 1] \in Barrier),
         m + n < Len(A[g]) => ~d[A[g][m + n]].linked
  PROVE  Chained(B, d)
<1>1. /\ A \in [Heads -> Seq(Item)] /\ B \in [Heads -> Seq(Item)]
      /\ m \in Nat /\ n \in Nat /\ Len(A[g]) \in Nat
  BY CutPlaces DEF Cuts
<1>2. Injective(B, Heads) /\ \A x : On(B, Heads, x) <=> On(A, Heads, x)
  BY CutSlice
<1>3. ASSUME NEW q \in Pwq, NEW k \in 1 .. Len(B[q])
      PROVE  \E p \in 1 .. Len(A[q]) : B[q][k] = A[q][p]
  <2>1. q \in Heads /\ CutFromList(A, g, h, q, k) = q
    BY HeadFacts DEF CutFromList
  <2> PICK p : p = CutFrom(A, g, h, m, n, q, k)
    OBVIOUS
  <2>2. p \in 1 .. Len(A[q]) /\ B[q][k] = A[q][p]
    BY <2>1, CutPlaces
  <2> QED BY <2>2
<1>4. \A q \in Pwq : \A p \in 1 .. Len(A[q]) : On(B, Heads, A[q][p])
  BY <1>2, HeadFacts DEF On
<1>5. ASSUME NEW f \in Heads, NEW p \in 1 .. Len(A[f]) - 1,
             d[A[f][p]].linked, A[f][p + 1] \in Barrier
      PROVE  Kept(Heads, A, B, f, p, p + 1)
  <2>1. Len(A[f]) \in Nat
    BY CutPlaces
  <2> PICK k : k = p + 1
    OBVIOUS
  <2>2. p \in 1 .. Len(A[f]) /\ k \in p .. Len(A[f]) /\ p .. k - 1 = {p}
    BY <2>1
  <2>3. f = g => m \notin p .. k - 1 /\ m + n \notin p .. k - 1
    BY <1>1, <1>5, <2>2
  <2> QED BY <2>2, <2>3, CutKeeps
<1> QED
  BY <1>1, <1>2, <1>3, <1>4, <1>5, ChainedKept

(* A work is taken off a list that is no delayed_works.                    *)
LEMMA ChainedRemoves ==
  ASSUME NEW A, NEW B, NEW g, NEW k, NEW d, Chained(A, d), Injective(A, Heads),
         Removes(Item, Heads, A, B, g, k), g \notin Pwq, A[g][k] \notin Barrier
  PROVE  Chained(B, d)
<1>1. /\ A \in [Heads -> Seq(Item)] /\ B \in [Heads -> Seq(Item)]
      /\ g \in Heads /\ k \in 1 .. Len(A[g]) /\ \A q \in Pwq : q \in Heads /\ q # g /\ B[q] = A[q]
  BY HeadFacts DEF Removes
<1>2. Injective(B, Heads) /\ \A x : On(B, Heads, x) <=> On(A, Heads, x) /\ x # A[g][k]
  BY RemoveOne
<1>3. \A q \in Pwq : \A p \in 1 .. Len(B[q]) : \E i \in 1 .. Len(A[q]) : B[q][p] = A[q][i]
  BY <1>1
<1>4. ASSUME NEW q \in Pwq, NEW p \in 1 .. Len(A[q]) PROVE On(B, Heads, A[q][p])
  <2>1. On(A, Heads, A[q][p])
    BY <1>1 DEF On
  <2>2. A[q][p] # A[g][k]
    BY <1>1 DEF Injective
  <2> QED BY <1>2, <2>1, <2>2
<1>5. ASSUME NEW f \in Heads, NEW p \in 1 .. Len(A[f]) - 1,
             d[A[f][p]].linked, A[f][p + 1] \in Barrier, On(B, Heads, A[f][p])
      PROVE  Kept(Heads, A, B, f, p, p + 1)
  <2>1. Len(A[f]) \in Nat
    BY <1>1, LenProperties
  <2> PICK i : i = p + 1
    OBVIOUS
  <2>2. p \in 1 .. Len(A[f]) /\ i \in p .. Len(A[f]) /\ p .. i = {p, p + 1}
    BY <2>1
  <2>3. f = g => k \notin p .. i
    BY <1>2, <1>5, <2>2
  <2> QED BY <2>2, <2>3, RemoveKeeps
<1> QED
  BY <1>1, <1>2, <1>3, <1>4, <1>5, ChainedKept

(* A barrier stays behind its work, with LINKED items between them, when   *)
(* the part of the list from one to the other is kept.                     *)
LEMMA AheadKept ==
  ASSUME NEW A, NEW B, NEW d, NEW e, NEW x, NEW b, NEW h \in Heads,
         A \in [Heads -> Seq(Item)], B \in [Heads -> Seq(Item)],
         NEW k \in 1 .. Len(A[h]), NEW j \in 1 .. k - 1,
         A[h][j] = x, A[h][k] = b, \A i \in j .. k - 1 : e[A[h][i]].linked,
         Kept(Heads, A, B, h, j, k)
  PROVE  Ahead(B, e, x, b)
<1>1. PICK f \in Heads, r \in Int : \A i \in j .. k : i + r \in 1 .. Len(B[f]) /\ B[f][i + r] = A[h][i]
  BY DEF Kept
<1>2. Len(A[h]) \in Nat /\ Len(B[f]) \in Nat /\ j \in Nat /\ k \in Nat /\ j < k /\ j >= 1
  BY LenProperties
<1>3. PICK p, s : p = k + r /\ s = j + r
  OBVIOUS
<1>4. /\ p \in 1 .. Len(B[f]) /\ s \in 1 .. p - 1 /\ B[f][p] = b /\ B[f][s] = x
  <2>1. j \in j .. k /\ k \in j .. k
    BY <1>2
  <2>2. /\ k + r \in 1 .. Len(B[f]) /\ j + r \in 1 .. Len(B[f])
        /\ B[f][k + r] = b /\ B[f][j + r] = x
    BY <1>1, <2>1
  <2> QED BY <1>2, <1>3, <2>2
<1>5. ASSUME NEW i \in s .. p - 1 PROVE e[B[f][i]].linked
  <2> PICK u : u = i - r
    OBVIOUS
  <2>1. u \in j .. k - 1 /\ u \in j .. k /\ u + r = i
    BY <1>2, <1>3
  <2>2. B[f][u + r] = A[h][u]
    BY <1>1, <2>1
  <2> QED BY <2>1, <2>2
<1> QED
  BY <1>4, <1>5 DEF Ahead

(* The same lists, and no LINKED bit of an item on them is lost.           *)
LEMMA AheadSame ==
  ASSUME NEW A \in [Heads -> Seq(Item)], NEW d, NEW e, NEW x, NEW b, Ahead(A, d, x, b),
         \A y \in Item : On(A, Heads, y) /\ d[y].linked => e[y].linked
  PROVE  Ahead(A, e, x, b)
<1>1. PICK h \in Heads : \E k \in 1 .. Len(A[h]) : \E j \in 1 .. k - 1 :
        A[h][j] = x /\ A[h][k] = b /\ \A i \in j .. k - 1 : d[A[h][i]].linked
  BY DEF Ahead
<1>2. PICK k \in 1 .. Len(A[h]) : \E j \in 1 .. k - 1 :
        A[h][j] = x /\ A[h][k] = b /\ \A i \in j .. k - 1 : d[A[h][i]].linked
  BY <1>1
<1>3. PICK j \in 1 .. k - 1 :
        A[h][j] = x /\ A[h][k] = b /\ \A i \in j .. k - 1 : d[A[h][i]].linked
  BY <1>2
<1>4. Len(A[h]) \in Nat /\ \A i \in 1 .. Len(A[h]) : A[h][i] \in Item /\ On(A, Heads, A[h][i])
  BY LenProperties, ElementOfSeq DEF On
<1>5. \A i \in j .. k - 1 : i \in 1 .. Len(A[h])
  BY <1>4
<1>6. \A i \in j .. k - 1 : e[A[h][i]].linked
  BY <1>3, <1>4, <1>5
<1> QED
  BY <1>3, <1>6 DEF Ahead

(* A cut between chains.                                                   *)
LEMMA AheadCuts ==
  ASSUME NEW A, NEW B, NEW g, NEW h, NEW m, NEW n, NEW d, NEW x, NEW b,
         Chained(A, d), Ahead(A, d, x, b), Cuts(Item, Heads, A, B, g, h, m, n),
         m > 0 => ~(d[A[g][m]].linked /\ A[g][m + 1] \in Barrier),
         m + n < Len(A[g]) => ~d[A[g][m + n]].linked
  PROVE  Ahead(B, d, x, b)
<1>1. PICK f \in Heads : \E k \in 1 .. Len(A[f]) : \E j \in 1 .. k - 1 :
        A[f][j] = x /\ A[f][k] = b /\ \A i \in j .. k - 1 : d[A[f][i]].linked
  BY DEF Ahead
<1>2. PICK k \in 1 .. Len(A[f]) : \E j \in 1 .. k - 1 :
        A[f][j] = x /\ A[f][k] = b /\ \A i \in j .. k - 1 : d[A[f][i]].linked
  BY <1>1
<1>3. PICK j \in 1 .. k - 1 :
        A[f][j] = x /\ A[f][k] = b /\ \A i \in j .. k - 1 : d[A[f][i]].linked
  BY <1>2
<1>4. /\ A \in [Heads -> Seq(Item)] /\ B \in [Heads -> Seq(Item)] /\ Len(A[f]) \in Nat
      /\ Len(A[g]) \in Nat /\ m \in Nat /\ n \in Nat /\ m + n <= Len(A[g])
      /\ j \in Nat /\ k \in Nat /\ j >= 1 /\ j < k /\ k <= Len(A[f])
  BY CutPlaces DEF Cuts
<1>5. ASSUME f = g, m \in j .. k - 1 PROVE FALSE
  <2>1. d[A[f][m]].linked
    BY <1>3, <1>5
  <2>2. d[A[g][m]].linked /\ m \in 1 .. Len(A[g]) /\ m > 0
    BY <1>4, <1>5, <2>1
  <2>3. A[g][m + 1] \in Barrier
    BY <1>1, <1>5, <2>2 DEF Chained, Follow
  <2> QED BY <2>2, <2>3
<1>6. f = g => m + n \notin j .. k - 1
  BY <1>3, <1>4
<1>7. Kept(Heads, A, B, f, j, k)
  <2>1. j \in 1 .. Len(A[f]) /\ k \in j .. Len(A[f])
    BY <1>4
  <2> QED BY <1>5, <1>6, <2>1, CutKeeps
<1> QED
  BY <1>3, <1>4, <1>7, AheadKept

(* A removal of another item: the first of a list, or a work.              *)
LEMMA AheadRemoves ==
  ASSUME NEW A, NEW B, NEW g, NEW m, NEW d, NEW x, NEW b \in Barrier,
         Chained(A, d), Ahead(A, d, x, b), Removes(Item, Heads, A, B, g, m),
         A[g][m] # x, m = 1 \/ A[g][m] \notin Barrier
  PROVE  Ahead(B, d, x, b)
<1>1. PICK f \in Heads : \E k \in 1 .. Len(A[f]) : \E j \in 1 .. k - 1 :
        A[f][j] = x /\ A[f][k] = b /\ \A i \in j .. k - 1 : d[A[f][i]].linked
  BY DEF Ahead
<1>2. PICK k \in 1 .. Len(A[f]) : \E j \in 1 .. k - 1 :
        A[f][j] = x /\ A[f][k] = b /\ \A i \in j .. k - 1 : d[A[f][i]].linked
  BY <1>1
<1>3. PICK j \in 1 .. k - 1 :
        A[f][j] = x /\ A[f][k] = b /\ \A i \in j .. k - 1 : d[A[f][i]].linked
  BY <1>2
<1>4. /\ A \in [Heads -> Seq(Item)] /\ B \in [Heads -> Seq(Item)] /\ Len(A[f]) \in Nat
      /\ Len(A[g]) \in Nat /\ m \in Nat /\ m >= 1
      /\ j \in Nat /\ k \in Nat /\ j >= 1 /\ j < k /\ k <= Len(A[f])
  BY LenProperties DEF Removes
<1>5. ASSUME f = g, m \in j .. k PROVE FALSE
  <2>1. m # j
    BY <1>3, <1>5
  <2>2. m - 1 \in j .. k - 1 /\ m - 1 \in 1 .. Len(A[g]) /\ (m - 1) + 1 = m /\ m # 1
    BY <1>4, <1>5, <2>1
  <2>3. d[A[g][m - 1]].linked
    BY <1>3, <1>5, <2>2
  <2>4. A[g][(m - 1) + 1] \in Barrier
    BY <1>1, <1>5, <2>2, <2>3 DEF Chained, Follow
  <2> QED BY <2>2, <2>4
<1>6. Kept(Heads, A, B, f, j, k)
  <2>1. j \in 1 .. Len(A[f]) /\ k \in j .. Len(A[f])
    BY <1>4
  <2> QED BY <1>5, <2>1, RemoveKeeps
<1> QED
  BY <1>3, <1>4, <1>6, AheadKept

(* An insertion: inside a chain the new item is LINKED like its            *)
(* predecessor.                                                            *)
LEMMA AheadInserts ==
  ASSUME NEW A, NEW B, NEW g, NEW m, NEW y, NEW d, NEW e, NEW x, NEW b,
         Ahead(A, d, x, b), Inserts(Item, Heads, A, B, g, m, y), ~On(A, Heads, y),
         \A z \in Item \ {y} : d[z].linked => e[z].linked,
         m \in 1 .. Len(A[g]) - 1 /\ d[A[g][m]].linked => e[y].linked
  PROVE  Ahead(B, e, x, b)
<1>1. PICK f \in Heads : \E k \in 1 .. Len(A[f]) : \E j \in 1 .. k - 1 :
        A[f][j] = x /\ A[f][k] = b /\ \A i \in j .. k - 1 : d[A[f][i]].linked
  BY DEF Ahead
<1>2. PICK k \in 1 .. Len(A[f]) : \E j \in 1 .. k - 1 :
        A[f][j] = x /\ A[f][k] = b /\ \A i \in j .. k - 1 : d[A[f][i]].linked
  BY <1>1
<1>3. PICK j \in 1 .. k - 1 :
        A[f][j] = x /\ A[f][k] = b /\ \A i \in j .. k - 1 : d[A[f][i]].linked
  BY <1>2
<1>4. /\ A \in [Heads -> Seq(Item)] /\ B \in [Heads -> Seq(Item)] /\ Len(A[f]) \in Nat
      /\ Len(A[g]) \in Nat /\ m \in Nat /\ g \in Heads /\ Len(B[g]) = Len(A[g]) + 1
      /\ j \in Nat /\ k \in Nat /\ j >= 1 /\ j < k /\ k <= Len(A[f])
  BY LenProperties DEF Inserts
<1>5. \A i \in 1 .. Len(A[f]) : A[f][i] \in Item \ {y}
  BY <1>4, ElementOfSeq DEF On
<1>6. \A i \in j .. k - 1 : e[A[f][i]].linked
  BY <1>3, <1>4, <1>5
<1>7. CASE f = g => m \notin j .. k - 1
  <2>1. j \in 1 .. Len(A[f]) /\ k \in j .. Len(A[f])
    BY <1>4
  <2>2. Kept(Heads, A, B, f, j, k)
    BY <1>7, <2>1, InsertKeeps
  <2> QED BY <1>3, <1>4, <1>6, <2>2, AheadKept
<1>8. CASE f = g /\ m \in j .. k - 1
  <2> PICK p : p = k + 1
    OBVIOUS
  <2>1. p \in 1 .. Len(B[g]) /\ j \in 1 .. Len(B[g]) /\ j \in 1 .. p - 1 /\ j <= m /\ ~(p <= m) /\ p # m + 1 /\ p - 1 = k
    BY <1>4, <1>8
  <2>2. B[g][j] = x /\ B[g][p] = b
    BY <1>3, <1>8, <2>1 DEF Inserts
  <2>3. ASSUME NEW i \in j .. p - 1 PROVE e[B[g][i]].linked
    <3>1. i \in 1 .. Len(B[g]) /\ i \in Nat
      BY <1>4, <2>1
    <3>2. CASE i <= m
      <4>1. B[g][i] = A[g][i] /\ i \in j .. k - 1
        BY <1>4, <1>8, <3>1, <3>2 DEF Inserts
      <4> QED BY <1>6, <1>8, <4>1
    <3>3. CASE i = m + 1
      <4>1. B[g][i] = y
        BY <1>4, <3>1, <3>3 DEF Inserts
      <4>2. m \in 1 .. Len(A[g]) - 1 /\ d[A[g][m]].linked
        BY <1>3, <1>4, <1>8
      <4> QED BY <4>1, <4>2
    <3>4. CASE i > m + 1
      <4>1. B[g][i] = A[g][i - 1] /\ i - 1 \in j .. k - 1
        BY <1>4, <1>8, <2>1, <3>1, <3>4 DEF Inserts
      <4> QED BY <1>6, <1>8, <4>1
    <3> QED BY <1>4, <3>1, <3>2, <3>3, <3>4
  <2> QED BY <1>4, <2>1, <2>2, <2>3 DEF Ahead
<1> QED
  BY <1>7, <1>8

(* Barriers of works other than x stay linked behind them: ...             *)
AheadStays(A, d, B, e, x) ==
  \A y \in Work, b \in Barrier : y # x /\ Ahead(A, d, y, b) => Ahead(B, e, y, b)

(* ... when a work leaves, ...                                             *)
LEMMA RemoveStays ==
  ASSUME NEW A, NEW B, NEW g, NEW m, NEW d, NEW x, Chained(A, d),
         Removes(Item, Heads, A, B, g, m), A[g][m] = x, x \notin Barrier
  PROVE  AheadStays(A, d, B, d, x)
<1> SUFFICES ASSUME NEW y \in Work, NEW b \in Barrier, y # x, Ahead(A, d, y, b)
             PROVE  Ahead(B, d, y, b)
  BY DEF AheadStays
<1> QED
  BY AheadRemoves

(* ... when whole chains are moved, ...                                    *)
LEMMA CutStays ==
  ASSUME NEW A, NEW B, NEW g, NEW h, NEW m, NEW n, NEW d, NEW x,
         Chained(A, d), Cuts(Item, Heads, A, B, g, h, m, n),
         m = 0 \/ A[g][m + 1] \notin Barrier,
         m + n < Len(A[g]) => ~d[A[g][m + n]].linked
  PROVE  AheadStays(A, d, B, d, x)
<1> SUFFICES ASSUME NEW y \in Work, NEW b \in Barrier, Ahead(A, d, y, b)
             PROVE  Ahead(B, d, y, b)
  BY DEF AheadStays
<1>1. m > 0 => ~(d[A[g][m]].linked /\ A[g][m + 1] \in Barrier)
  OBVIOUS
<1> QED
  BY <1>1, AheadCuts

(* Words d after DELAYED of y was cleared.                                 *)
Undelayed(d, y) == [d EXCEPT ![y].delayed = FALSE]

(* ... when a DELAYED bit is cleared, ...                                  *)
LEMMA UndelayStays ==
  ASSUME NEW A \in [Heads -> Seq(Item)], NEW d \in [Item -> Word], NEW f, NEW x
  PROVE  AheadStays(A, d, A, Undelayed(d, f), x)
<1>1. \A y \in Item : d[y].linked => Undelayed(d, f)[y].linked
  BY DEF Undelayed, Word
<1> SUFFICES ASSUME NEW y \in Work, NEW b \in Barrier, Ahead(A, d, y, b)
             PROVE  Ahead(A, Undelayed(d, f), y, b)
  BY DEF AheadStays
<1>2. PICK e : e = Undelayed(d, f)
  OBVIOUS
<1>3. Ahead(A, e, y, b)
  BY <1>1, <1>2, AheadSame
<1> QED
  BY <1>2, <1>3

(* ... and when one of these follows another.                              *)
LEMMA StaysTwice ==
  ASSUME NEW A, NEW d, NEW B, NEW e, NEW C, NEW f, NEW x,
         AheadStays(A, d, B, e, x), AheadStays(B, e, C, f, x)
  PROVE  AheadStays(A, d, C, f, x)
BY DEF AheadStays
-----------------------------------------------------------------------------
(* The callers' steps as steps of the pool                                 *)

PoolRest == <<lock, state, worklist, scheduled, delayed_works, nr_active, workerVars>>

(* A step that leaves workers and lists alone keeps what is about them.    *)
LEMMA RestCore ==
  ASSUME PoolCore, UNCHANGED PoolRest
  PROVE  PoolCore' /\ (HeadWoken => HeadWoken')
BY DEF PoolCore, PoolRest, workerVars, idleVars, LockHolder, NrRunningExact, IdleLen, SpareHeld,
   SleepEmpty, Busy, NonReentrant, HeadWoken

(* Only the word of work x changes: PENDING is set, or x is on no list and *)
(* stays off them.                                                         *)
LEMMA WordStep ==
  ASSUME CoreInv, WorkBooks, NEW x \in Work, NEW word \in Word,
         data' = [data EXCEPT ![x] = word], UNCHANGED <<queueing, PoolRest>>,
         \/ word = [data[x] EXCEPT !.pending = TRUE]
         \/ data[x].high \notin Pwq /\ word.high \notin Pwq
  PROVE  CoreInv' /\ WorkBooks' /\ (HeadWoken => HeadWoken')
<1>1. TypeOK /\ PoolCore /\ QueuedOnce /\ BusyPwq
  BY DEF CoreInv, ListInv
<1>2. x \in Item /\ data \in [Item -> Word]
  BY <1>1, ItemFacts DEF TypeOK
<1>3. /\ \A y \in Item : y # x => data'[y] = data[y]
      /\ data'[x] = word /\ data' \in [Item -> Word]
  BY <1>2
<1>4. TypeOK'
  BY <1>1, <1>3 DEF TypeOK, PoolRest, workerVars, idleVars
<1>5. PoolCore' /\ (HeadWoken => HeadWoken')
  BY <1>1, RestCore
<1>6. /\ (word.high \in Pwq <=> data[x].high \in Pwq)
      /\ data[x].high \in Pwq => /\ word.high = data[x].high /\ word.linked = data[x].linked
                                 /\ word.delayed = data[x].delayed
  BY <1>2 DEF Word
<1>7. UNCHANGED <<worklist, scheduled, delayed_works, nr_active, pc, current_work, current_pwq>>
  BY DEF PoolRest, workerVars
<1>8. ListInv'
  <2>1. UNCHANGED Placed
    BY <1>7 DEF Placed, Places
  <2>2. \A y \in Item : data'[y].high \in Pwq <=> data[y].high \in Pwq
    BY <1>3, <1>6
  <2>3. QueuedOnce'
    <3>1. /\ Injective(Placed, Heads)
          /\ \A y \in Item : On(Placed, Heads, y) <=> data[y].high \in Pwq
      BY <1>1, QueuedOnceAs
    <3>2. /\ Injective(Placed', Heads)
          /\ \A y \in Item : On(Placed', Heads, y) <=> data'[y].high \in Pwq
      BY <2>1, <2>2, <3>1
    <3> QED BY <1>4, <3>2, QueuedOnceAsNext
  <2>4. BusyPwq'
    BY <1>1, <1>7 DEF BusyPwq
  <2> QED BY <2>3, <2>4 DEF ListInv
<1>9. WorkBooks'
  <2>1. ScheduledHeld'
    BY <1>7 DEF WorkBooks, ScheduledHeld
  <2>2. Chained(Placed', data')
    <3>1. Placed' = Placed /\ Placed \in [Heads -> Seq(Item)]
      BY <1>1, <1>7, PlacedFacts DEF Placed, Places
    <3>2. \A y \in Item : On(Placed, Heads, y) => (data'[y].linked <=> data[y].linked)
      BY <1>1, <1>3, <1>6, QueuedOnceAs
    <3>3. Chained(Placed, data')
      BY <3>1, <3>2, SameLinksOn DEF WorkBooks
    <3> QED BY <3>1, <3>3
  <2>3. ASSUME NEW q \in Pwq PROVE SlotsOf(q)'
    <3>1. SlotsOf(q)
      BY SlotsAs DEF WorkBooks
    <3>2. \A y \in Work : /\ data'[y].high = q <=> data[y].high = q
                          /\ data[y].high = q => (data'[y].delayed <=> data[y].delayed)
      BY <1>3, <1>6, ItemFacts
    <3>3. \A y \in Work : Waits(q, y)' <=> Waits(q, y)
      BY <1>7 DEF Waits
    <3> QED BY <1>7, <3>1, <3>2, <3>3, SlotFrame
  <2> QED BY <2>1, <2>2, <2>3, SlotsAsNext DEF WorkBooks
<1> QED
  BY <1>4, <1>5, <1>8, <1>9 DEF CoreInv

(* Only queueing changes.                                                  *)
LEMMA QueueingStep ==
  ASSUME CoreInv, WorkBooks, UNCHANGED <<data, PoolRest>>,
         queueing' \in [Work -> Pwq \cup {None}]
  PROVE  CoreInv' /\ WorkBooks' /\ (HeadWoken => HeadWoken')
<1>1. TypeOK /\ PoolCore /\ QueuedOnce /\ BusyPwq
  BY DEF CoreInv, ListInv
<1>2. UNCHANGED <<worklist, scheduled, delayed_works, nr_active, data, pc, current_work, current_pwq>>
  BY DEF PoolRest, workerVars
<1>3. TypeOK'
  BY <1>1 DEF TypeOK, PoolRest, workerVars, idleVars
<1>4. PoolCore' /\ (HeadWoken => HeadWoken')
  BY <1>1, RestCore
<1>5. QueuedOnce'
  BY <1>1, <1>2, <1>3, SameLists
<1>6. BusyPwq'
  BY <1>1, <1>2 DEF BusyPwq
<1>7. WorkBooks'
  BY <1>2, SameWorks DEF listVars, busyVars
<1> QED
  BY <1>3, <1>4, <1>5, <1>6, <1>7 DEF CoreInv, ListInv

(* DELAYED is the only flag of i that may change.                          *)
SameFlags(i) == /\ data'[i].high = data[i].high
                /\ data'[i].pending <=> data[i].pending
                /\ data'[i].linked <=> data[i].linked
                /\ data'[i].canceling <=> data[i].canceling

(* What process_one_work() and the rest of worker_thread() do to the words *)
(* of the items: one of them may be claimed, and loses every flag; of the  *)
(* others only DELAYED changes.                                            *)
LEMMA WorkerStepWords ==
  ASSUME CoreInv, NEW w \in Worker, WorkerStep(w)
  PROVE  /\ UNCHANGED queueing
         /\ pc[w] = "exec" => pc'[w] = "ret"
         /\ \A u \in Worker : u # w => current_work'[u] = current_work[u] /\ (pc'[u] = "exec" <=> pc[u] = "exec")
         /\ \/ /\ \A i \in Item : SameFlags(i)
               /\ pc'[w] # "exec" /\ current_work'[w] \in {None, current_work[w]}
            \/ \E i \in Item : /\ data[i].high \in Pwq /\ pc[w] \in {"next", "sched"}
                               /\ data' = [data EXCEPT ![i] = OffQueue(PoolId, FALSE)]
                               /\ pc'[w] = "exec" /\ current_work'[w] = i
<1>1. TypeOK /\ TypeOK' /\ Busy /\ ListInv /\ PoolCore
  BY WorkerStepCore DEF CoreInv, PoolCore
<1>2. /\ data \in [Item -> Word] /\ pc \in [Worker -> {"none", "asleep", "dying", "recheck", "create",
           "relock", "next", "exec", "ret", "sched", "sleep"}]
      /\ current_work \in [Worker -> Item \cup {None}]
  BY <1>1 DEF TypeOK
<1>3. ASSUME NEW l, l # "exec", pc' = [pc EXCEPT ![w] = l], UNCHANGED <<queueing, data, current_work>>,
             pc[w] = "exec" => l = "ret"
      PROVE  /\ UNCHANGED queueing
             /\ pc[w] = "exec" => pc'[w] = "ret"
             /\ \A u \in Worker : u # w => current_work'[u] = current_work[u] /\ (pc'[u] = "exec" <=> pc[u] = "exec")
             /\ \A i \in Item : SameFlags(i)
             /\ pc'[w] # "exec" /\ current_work'[w] \in {None, current_work[w]}
  BY <1>2, <1>3 DEF SameFlags
<1>4. CASE WokeUp(w)
  <2>1. PICK l : /\ l # "exec" /\ pc' = [pc EXCEPT ![w] = l] /\ pc[w] # "exec"
                 /\ UNCHANGED <<queueing, data, current_work>>
    BY <1>4 DEF WokeUp, listVars, busyVars
  <2> QED BY <1>3, <2>1
<1>5. CASE Dying(w)
  BY <1>3, <1>5 DEF Dying, listVars, busyVars
<1>6. CASE Recheck(w)
  <2>1. PICK l : /\ l # "exec" /\ pc' = [pc EXCEPT ![w] = l] /\ pc[w] # "exec"
                 /\ UNCHANGED <<queueing, data, current_work>>
    BY <1>6 DEF Recheck, listVars, busyVars
  <2> QED BY <1>3, <2>1
<1>7. ASSUME NEW v \in Worker, CreateWorker(w, v)
      PROVE  /\ UNCHANGED queueing
             /\ pc[w] = "exec" => pc'[w] = "ret"
             /\ \A u \in Worker : u # w => current_work'[u] = current_work[u] /\ (pc'[u] = "exec" <=> pc[u] = "exec")
             /\ \A i \in Item : SameFlags(i)
             /\ pc'[w] # "exec" /\ current_work'[w] \in {None, current_work[w]}
  BY <1>2, <1>7 DEF CreateWorker, SameFlags, listVars, busyVars
<1>8. CASE CreateFails(w) \/ Relock(w)
  <2>1. PICK l : /\ l # "exec" /\ pc' = [pc EXCEPT ![w] = l] /\ pc[w] # "exec"
                 /\ UNCHANGED <<queueing, data, current_work>>
    BY <1>8 DEF CreateFails, Relock, listVars, busyVars
  <2> QED BY <1>3, <2>1
<1>9. CASE MoveLinked(w)
  <2>1. PICK l : /\ l # "exec" /\ pc' = [pc EXCEPT ![w] = l] /\ pc[w] # "exec"
                 /\ UNCHANGED <<queueing, data, current_work>>
    BY <1>9 DEF MoveLinked
  <2> QED BY <1>3, <2>1
<1>10. CASE LoopEnd(w) \/ RunFunc(w) \/ Sleep(w)
  <2>1. PICK l : /\ l # "exec" /\ pc' = [pc EXCEPT ![w] = l] /\ (pc[w] = "exec" => l = "ret")
                 /\ UNCHANGED <<queueing, data, current_work>>
    BY <1>10 DEF LoopEnd, RunFunc, Sleep, listVars, busyVars
  <2> QED BY <1>3, <2>1
<1>11. CASE Return(w)
  <2>1. /\ UNCHANGED queueing /\ pc[w] = "ret" /\ pc' = [pc EXCEPT ![w] = "sched"]
        /\ current_work' = [current_work EXCEPT ![w] = None]
    BY <1>11 DEF Return
  <2>2. \A i \in Item : SameFlags(i)
    <3>1. CASE Hands(w)
      <4>1. PICK i \in Item : data' = [data EXCEPT ![i].delayed = FALSE]
        BY <1>1, <1>11, <3>1, ReturnMoves
      <4> QED BY <1>2, <4>1 DEF SameFlags, Word
    <3>2. CASE ~Hands(w)
      BY <1>1, <1>11, <3>2, ReturnKeeps DEF SameFlags
    <3> QED BY <3>1, <3>2
  <2> QED BY <1>2, <2>1, <2>2
<1>12. ASSUME NEW from \in {"worklist", "scheduled"}, pc[w] \in {"next", "sched"}, ProcessOneWork(w, from)
       PROVE  /\ UNCHANGED queueing
              /\ pc[w] = "exec" => pc'[w] = "ret"
              /\ \A u \in Worker : u # w => current_work'[u] = current_work[u] /\ (pc'[u] = "exec" <=> pc[u] = "exec")
              /\ \/ /\ \A i \in Item : SameFlags(i)
                    /\ pc'[w] # "exec" /\ current_work'[w] \in {None, current_work[w]}
                 \/ \E i \in Item : /\ data[i].high \in Pwq /\ pc[w] \in {"next", "sched"}
                                    /\ data' = [data EXCEPT ![i] = OffQueue(PoolId, FALSE)]
                                    /\ pc'[w] = "exec" /\ current_work'[w] = i
  <2>1. PICK s : /\ s = (IF from = "worklist" THEN worklist ELSE scheduled[w]) /\ s # <<>>
                 /\ Claim(w, from, Head(s)) \/ Defer(w, from, s)
                 /\ UNCHANGED <<queueing, delayed_works>>
    BY <1>12 DEF ProcessOneWork
  <2>2. CASE Claim(w, from, Head(s))
    <3>1. PICK i : i = Head(s)
      OBVIOUS
    <3>2. /\ i \in Item
          /\ \E g : g \notin Pwq /\ Placed[g] = s /\ Drops(Item, Heads, Placed, Placed', g)
      BY <1>1, <2>1, <2>2, <3>1, ClaimDrops
    <3>3. PICK g : g \notin Pwq /\ Placed[g] = s /\ Drops(Item, Heads, Placed, Placed', g)
      BY <3>2
    <3>4. On(Placed, Heads, Placed[g][1])
      <4>1. Injective(Placed, Heads)
        BY <1>1, QueuedOnceAs DEF ListInv
      <4> QED BY <3>3, <4>1, DropFirst
    <3>5. Placed[g][1] = i
      BY <1>1, <2>1, <2>2, <3>1, <3>3, ClaimDrops
    <3>6. data[i].high \in Pwq
      BY <1>1, <3>2, <3>4, <3>5, QueuedOnceAs DEF ListInv
    <3>7. /\ data' = [data EXCEPT ![i] = OffQueue(PoolId, FALSE)] /\ pc' = [pc EXCEPT ![w] = "exec"]
          /\ current_work' = [current_work EXCEPT ![w] = i]
      BY <2>2, <3>1 DEF Claim
    <3> QED BY <1>2, <1>12, <2>1, <3>2, <3>6, <3>7
  <2>3. CASE Defer(w, from, s)
    <3>1. pc' = [pc EXCEPT ![w] = "sched"] /\ UNCHANGED <<current_work, data>>
      BY <2>3 DEF Defer
    <3> QED BY <1>2, <1>3, <1>12, <2>1, <3>1
  <2> QED BY <2>1, <2>2, <2>3
<1>13. CASE Next1(w) \/ ProcessScheduled(w)
  <2>1. \E from \in {"worklist", "scheduled"} : pc[w] \in {"next", "sched"} /\ ProcessOneWork(w, from)
    BY <1>13 DEF Next1, ProcessScheduled
  <2> QED BY <1>12, <2>1
<1> QED
  BY <1>4, <1>5, <1>6, <1>7, <1>8, <1>9, <1>10, <1>11, <1>13 DEF WorkerStep
-----------------------------------------------------------------------------
(* The callers                                                             *)

Stops == {"idle", "del_sync", "queue", "flush", "flush_lock", "wait", "del", "test",
          "pool", "steal", "failed", "drop", "cond_lock", "cond_wait", "mark",
          "clear", "broadcast"}

(* The part of TypeOKQ that is about timers and callers.                   *)
TypeC == /\ tmr \in [DelayedWork -> BOOLEAN] /\ arming \subseteq DelayedWork
         /\ firing \in [DelayedWork -> {"off", "calling", "called"}]
         /\ dwq \in [DelayedWork -> Pwq \cup {None}]
         /\ cpc \in [Caller -> Stops]
         /\ op \in [Caller -> Ops \cup {"flush_work", None}] /\ tgt \in [Caller -> Work \cup {None}]
         /\ done \in [Caller -> BOOLEAN] /\ awaits \in [Caller -> {"none", "queued", "running"}]

(* The type invariant is the pool's and that of the clients' state, before *)
(* and after a step.                                                       *)
LEMMA TypeParts == /\ TypeOKQ <=> TypeOK /\ TypeC
                   /\ TypeOKQ' <=> TypeOK' /\ TypeC'
BY DEF TypeOKQ, TypeC, Stops

(* Works, barriers and callers, and what they are not.                     *)
LEMMA WorkFacts ==
  /\ DelayedWork \subseteq Work /\ Work \subseteq Item /\ Caller \subseteq Item /\ None \notin Work
  /\ \A x \in Work : x \notin Caller
BY QueueAssumption, PoolAssumption DEF Item, Caller

(* A caller moves on; the others stay where they are.                      *)
LEMMA GotoFacts ==
  ASSUME TypeC, NEW c \in Caller, NEW l \in Stops, Goto(c, l)
  PROVE  /\ cpc' \in [Caller -> Stops] /\ op' \in [Caller -> Ops \cup {"flush_work", None}]
         /\ tgt' \in [Caller -> Work \cup {None}]
         /\ cpc'[c] = l /\ tgt'[c] = (IF l = "idle" THEN None ELSE tgt[c])
         /\ l \notin {"idle", "flush"} => op'[c] = op[c]
         /\ l = "flush" => op'[c] = (IF op[c] = "flush_delayed_work" THEN "flush_work" ELSE op[c])
         /\ \A d \in Caller : d # c => cpc'[d] = cpc[d] /\ op'[d] = op[d] /\ tgt'[d] = tgt[d]
<1>1. PICK o : o = CASE l = "idle" -> None
                     [] l = "flush" /\ op[c] = "flush_delayed_work" -> "flush_work"
                     [] OTHER -> op[c]
  OBVIOUS
<1>2. /\ cpc' = [cpc EXCEPT ![c] = l] /\ op' = [op EXCEPT ![c] = o]
      /\ tgt' = [tgt EXCEPT ![c] = IF l = "idle" THEN None ELSE tgt[c]]
  BY <1>1 DEF Goto
<1>3. /\ o \in Ops \cup {"flush_work", None} /\ (l \notin {"idle", "flush"} => o = op[c])
      /\ l = "flush" => o = (IF op[c] = "flush_delayed_work" THEN "flush_work" ELSE op[c])
  <2>1. CASE l = "idle"
    BY <1>1, <2>1
  <2>2. CASE l = "flush" /\ op[c] = "flush_delayed_work"
    BY <1>1, <2>2
  <2>3. CASE l # "idle" /\ ~(l = "flush" /\ op[c] = "flush_delayed_work")
    BY <1>1, <2>3 DEF TypeC
  <2> QED BY <2>1, <2>2, <2>3
<1> QED
  BY <1>2, <1>3 DEF TypeC

(* What the works' owners are is not changed by a step that leaves their   *)
(* words, timers and callers alone.                                        *)
SameOwners(y) ==
  /\ data'[y].pending <=> data[y].pending
  /\ data'[y].canceling <=> data[y].canceling
  /\ Listed(y)' <=> Listed(y)
  /\ Queues(y)' <=> Queues(y)
  /\ Arms(y)' <=> Arms(y)
  /\ Ticks(y)' <=> Ticks(y)
SameHolders(y) == \A c \in Caller : (Holds(c, y)' <=> Holds(c, y)) /\ (Cancels(c, y)' <=> Cancels(c, y))

(* CancelingExact speaks of each work by itself, before and after a step.  *)
LEMMA CancelingAs == /\ CancelingExact <=> \A x \in Work : CancelAt(x)
                     /\ CancelingExact' <=> \A x \in Work : CancelAt(x)'
BY DEF CancelingExact, CancelAt, Cancels

(* A step that moves neither an owner nor a canceler of work y keeps what  *)
(* is said about the owner of its PENDING.                                 *)
LEMMA OwnersSame ==
  ASSUME NEW y \in Work, SoleAt(y), CancelAt(y), SameOwners(y), SameHolders(y)
  PROVE  SoleAt(y)' /\ CancelAt(y)'
<1>1. SoleAt(y)'
  BY DEF SoleAt, SameOwners, SameHolders
<1>2. CancelAt(y)'
  BY DEF CancelAt, SameOwners, SameHolders
<1> QED BY <1>1, <1>2

(* A caller that moves on, or stays, holds and cancels no other work.      *)
LEMMA OtherWorks ==
  ASSUME TypeC, NEW c \in Caller, NEW x, x = tgt[c], x \in Work, NEW l \in Stops, Goto(c, l)
  PROVE  /\ \A y \in Work : y # x => SameHolders(y)
         /\ \A d \in Caller : d # c => (Holds(d, x)' <=> Holds(d, x)) /\ (Cancels(d, x)' <=> Cancels(d, x))
         /\ Holds(c, x)' <=> l \in {"drop", "mark", "clear"}
                               \/ (op'[c] = "cancel_sync" /\ l \in {"flush", "flush_lock", "wait"})
         /\ Cancels(c, x)' <=> op'[c] = "cancel_sync" /\ l \in {"flush", "flush_lock", "wait", "clear"}
<1>1. /\ cpc'[c] = l /\ tgt'[c] = (IF l = "idle" THEN None ELSE tgt[c])
      /\ \A d \in Caller : d # c => cpc'[d] = cpc[d] /\ op'[d] = op[d] /\ tgt'[d] = tgt[d]
  BY GotoFacts
<1>2. \A d \in Caller : \A y : d # c => (Holds(d, y)' <=> Holds(d, y)) /\ (Cancels(d, y)' <=> Cancels(d, y))
  BY <1>1 DEF Holds, Owns, Cancels
<1>3. \A y \in Work : y # x => ~Holds(c, y) /\ ~Cancels(c, y) /\ ~Holds(c, y)' /\ ~Cancels(c, y)'
  BY <1>1, WorkFacts DEF Holds, Cancels
<1>4. /\ Holds(c, x)' <=> l \in {"drop", "mark", "clear"}
                            \/ (op'[c] = "cancel_sync" /\ l \in {"flush", "flush_lock", "wait"})
      /\ Cancels(c, x)' <=> op'[c] = "cancel_sync" /\ l \in {"flush", "flush_lock", "wait", "clear"}
  BY <1>1 DEF Holds, Owns, Cancels
<1> QED
  BY <1>2, <1>3, <1>4 DEF SameHolders

(* An owner that is no canceler, and CANCELING is clear.                   *)
LEMMA Uncanceled ==
  ASSUME NEW x \in Work, SoleAt(x), CancelAt(x),
         \/ ~data[x].pending \/ Queues(x) \/ Arms(x) \/ Ticks(x) \/ Listed(x)
         \/ \E c \in Caller : Holds(c, x) /\ ~Cancels(c, x)
  PROVE  ~data[x].canceling
<1>1. \A c \in Caller : Cancels(c, x) => Holds(c, x)
  BY DEF Cancels, Holds, Owns
<1>2. \A c \in Caller : ~Cancels(c, x)
  BY <1>1 DEF SoleAt
<1> QED BY <1>2 DEF CancelAt

(* The waiters of cancel_cond still wait for somebody.                     *)
LEMMA WokenKept ==
  ASSUME TypeC, Frames, CancelWaiterWoken,
         \A c \in Caller : cpc'[c] = "cond_wait" => cpc[c] = "cond_wait" /\ tgt'[c] = tgt[c],
         \A x \in Work : data[x].canceling => data'[x].canceling,
         \A c \in Caller : cpc[c] = "broadcast" => cpc'[c] = "broadcast"
  PROVE  CancelWaiterWoken'
<1>1. \A c \in Caller : cpc[c] = "cond_wait" => tgt[c] \in Work
  BY DEF Frames, Frame, TypeC
<1> QED
  BY <1>1 DEF CancelWaiterWoken

(* The other callers' frames are as they were.                             *)
LEMMA FramesKept ==
  ASSUME TypeC, Frames, NEW c \in Caller, NEW l \in Stops, Goto(c, l), Frame(c)'
  PROVE  Frames'
<1>1. \A d \in Caller : d # c => cpc'[d] = cpc[d] /\ op'[d] = op[d] /\ tgt'[d] = tgt[d]
  BY GotoFacts
<1>2. \A d \in Caller : d # c => Frame(d)'
  BY <1>1 DEF Frames, Frame
<1> QED
  BY <1>2 DEF Frames

(* What is about the callers, when one of them moves on and only its work  *)
(* may get another owner.                                                  *)
LEMMA CallerMoves ==
  ASSUME TypeC, CallerInv, NEW c \in Caller, NEW x, x = tgt[c], x \in Work,
         NEW l \in Stops, Goto(c, l), Frame(c)',
         \A y \in Work : y # x => SameOwners(y), SoleAt(x)', CancelAt(x)'
  PROVE  Frames' /\ Sole' /\ CancelingExact'
<1>1. Frames'
  BY FramesKept DEF CallerInv
<1>2. \A y \in Work : y # x => SoleAt(y)' /\ CancelAt(y)'
  <2>1. \A y \in Work : SoleAt(y) /\ CancelAt(y)
    BY CancelingAs DEF CallerInv, Sole
  <2>2. \A y \in Work : y # x => SameHolders(y)
    BY OtherWorks
  <2> QED BY <2>1, <2>2, OwnersSame
<1>3. Sole'
  BY <1>2 DEF Sole
<1>4. CancelingExact'
  BY <1>2, CancelingAs
<1> QED
  BY <1>1, <1>3, <1>4

(* When no caller moves.                                                   *)
LEMMA CallersStay ==
  ASSUME TypeC, CallerInv, UNCHANGED callVars,
         \A y \in Work : SameOwners(y) \/ (SoleAt(y)' /\ CancelAt(y)')
  PROVE  Frames' /\ Sole' /\ CancelingExact'
<1>1. Frames'
  BY DEF CallerInv, Frames, Frame, callVars
<1>2. \A y \in Work : SameHolders(y)
  BY DEF SameHolders, Holds, Owns, Cancels, callVars
<1>3. \A y \in Work : SoleAt(y) /\ CancelAt(y)
  BY CancelingAs DEF CallerInv, Sole
<1>4. \A y \in Work : SoleAt(y)' /\ CancelAt(y)'
  BY <1>2, <1>3, OwnersSame
<1>5. Sole'
  BY <1>4 DEF Sole
<1>6. CancelingExact'
  BY <1>4, CancelingAs
<1> QED
  BY <1>1, <1>5, <1>6

(* The barriers are left alone.                                            *)
LEMMA QuietKept ==
  ASSUME BarrierQuiet, UNCHANGED <<pc, current_work, done>>,
         \A c \in Caller : data'[c].high \in Pwq <=> data[c].high \in Pwq,
         \A c \in Caller : cpc[c] = "wait" => cpc'[c] = "wait"
  PROVE  BarrierQuiet'
BY DEF BarrierQuiet, Quiet

(* A word that changes is the word of a work.                              *)
LEMMA WordChange ==
  ASSUME TypeOK, NEW x \in Work, NEW word, data' = [data EXCEPT ![x] = word]
  PROVE  /\ data'[x] = word /\ \A i \in Item : i # x => data'[i] = data[i]
         /\ \A c \in Caller : data'[c] = data[c]
BY WorkFacts DEF TypeOK

(* try_to_grab_pending() has taken PENDING over.                           *)
LEMMA GrabbedFacts ==
  ASSUME TypeC, NEW c \in Caller, Frame(c), cpc[c] \in {"del", "test", "steal"}, Grabbed(c)
  PROVE  \E l \in {"mark", "drop"} : Goto(c, l) /\ Frame(c)' /\ op'[c] = op[c]
<1>1. PICK l : l = (IF op[c] = "cancel_sync" THEN "mark" ELSE "drop") /\ Goto(c, l)
  BY DEF Grabbed
<1>2. l \in {"mark", "drop"} /\ l \in Stops
  BY <1>1 DEF Stops
<1>3. cpc'[c] = l /\ tgt'[c] = tgt[c] /\ op'[c] = op[c]
  BY <1>1, <1>2, GotoFacts
<1>4. Frame(c)'
  BY <1>1, <1>2, <1>3 DEF Frame
<1> QED
  BY <1>1, <1>2, <1>3, <1>4

(* Who queues a work is its owner, so the work is on no list.              *)
LEMMA QueueWorkOwner ==
  ASSUME CoreInv, CoreInv', NEW x \in Work, SoleAt(x), CancelAt(x), QueueWork(x)
  PROVE  /\ ~OnList(x) /\ Queues(x) /\ ~Queues(x)' /\ Listed(x)' /\ ~data[x].canceling
         /\ data'[x].pending = TRUE /\ data'[x].canceling = FALSE
         /\ data'[x].linked = FALSE
         /\ \A i \in Item : i # x => data'[i] = data[i]
         /\ \A c \in Caller : data'[c] = data[c]
         /\ \A y \in Work : y # x => queueing'[y] = queueing[y]
         /\ UNCHANGED <<lock, nr_running, pc, idleVars, die, current_work, current_pwq, scheduled>>
<1>1. TypeOK /\ TypeOK' /\ QueuedOnce
  BY DEF CoreInv, ListInv
<1>2. Queues(x) /\ ~Listed(x)
  BY DEF QueueWork, SoleAt, Queues
<1>3. ~OnList(x)
  BY <1>1, <1>2, WorkFacts DEF QueuedOnce, Listed
<1>4. queueing[x] \in Pwq /\ data' = [data EXCEPT ![x] =
         [pending |-> TRUE, delayed |-> nr_active[queueing[x]] >= MaxActive[queueing[x]],
          linked |-> FALSE, canceling |-> FALSE, high |-> queueing[x]]]
  BY <1>1, <1>3, QueueWorkAppends
<1> PICK word : word = [pending |-> TRUE, delayed |-> nr_active[queueing[x]] >= MaxActive[queueing[x]],
                        linked |-> FALSE, canceling |-> FALSE, high |-> queueing[x]]
  OBVIOUS
<1>5. /\ data' = [data EXCEPT ![x] = word] /\ word.pending = TRUE
      /\ word.canceling = FALSE /\ word.linked = FALSE /\ word.high = queueing[x]
  BY <1>4
<1>6. /\ data'[x] = word /\ \A i \in Item : i # x => data'[i] = data[i]
      /\ \A c \in Caller : data'[c] = data[c]
  BY <1>1, <1>5, WordChange
<1>7. queueing'[x] = None /\ \A y \in Work : y # x => queueing'[y] = queueing[y]
  BY <1>1 DEF QueueWork, TypeOK
<1>8. ~data[x].canceling
  BY <1>2, Uncanceled
<1>9. UNCHANGED <<lock, nr_running, pc, idleVars, die, current_work, current_pwq, scheduled>>
  BY DEF QueueWork, busyVars
<1> QED
  BY <1>2, <1>3, <1>4, <1>5, <1>6, <1>7, <1>8, <1>9 DEF Queues, Listed
-----------------------------------------------------------------------------
(* The steps of the pool, its timers and its clients                       *)

(* What QInv is made of.                                                   *)
LEMMA QParts ==
  /\ QInv <=> TypeOK /\ TypeC /\ CoreInv /\ WorkBooks /\ CallerInv
  /\ QInv' <=> TypeOK' /\ TypeC' /\ CoreInv' /\ WorkBooks' /\ CallerInv'
BY TypeParts DEF QInv

(* A step that leaves the callers where they are, and their barriers alone,*)
(* keeps CallerInv if it keeps the owners of every work.                   *)
LEMMA CallersKeep ==
  ASSUME TypeC, CallerInv, UNCHANGED callVars, UNCHANGED <<pc, current_work, done>>,
         \A c \in Caller : data'[c].high \in Pwq <=> data[c].high \in Pwq,
         \A x \in Work : data[x].canceling <=> data'[x].canceling,
         \A y \in Work : SameOwners(y) \/ (SoleAt(y)' /\ CancelAt(y)'), TimersReady'
  PROVE  CallerInv'
<1>1. UNCHANGED <<cpc, op, tgt>>
  BY DEF callVars
<1>2. Frames' /\ Sole' /\ CancelingExact'
  BY CallersStay
<1>3. BarrierQuiet'
  BY <1>1, QuietKept DEF CallerInv
<1>4. CancelWaiterWoken'
  BY <1>1, WokenKept DEF CallerInv
<1> QED
  BY <1>2, <1>3, <1>4 DEF CallerInv

(* queue_work() gets PENDING, and is its owner.                            *)
LEMMA StartQueueingQ ==
  ASSUME QInv, NEW x \in Work, StartQueueing(x)
  PROVE  QInv'
<1>1. TypeOK /\ TypeC /\ CoreInv /\ WorkBooks /\ CallerInv
  BY QParts
<1>2. PICK q \in Pwq : SetPending(x, q)
  BY DEF StartQueueing
<1>3. UNCHANGED <<timerVars, callVars, waitVars>>
  BY DEF StartQueueing
<1>4. CoreInv' /\ TypeOK'
  BY <1>1, <1>2, ClientCore DEF CoreInv
<1>5. WorkBooks'
  BY <1>1, <1>2, <1>4, SetPendingBooks
<1>6. TypeC'
  BY <1>1, <1>3 DEF TypeC, timerVars, callVars, waitVars
<1>7. /\ ~data[x].pending /\ data' = [data EXCEPT ![x] = [data[x] EXCEPT !.pending = TRUE]]
      /\ queueing' = [queueing EXCEPT ![x] = q] /\ UNCHANGED <<pc, current_work>>
  BY <1>2 DEF SetPending, busyVars
<1>8. /\ x \in Item /\ data[x] \in Word /\ queueing \in [Work -> Pwq \cup {None}] /\ q # None
  BY <1>1, ItemFacts, HeadFacts DEF TypeOK
<1> PICK word : word = [data[x] EXCEPT !.pending = TRUE]
  OBVIOUS
<1>9. /\ word.pending = TRUE /\ word.canceling = data[x].canceling /\ word.high = data[x].high
  BY <1>8 DEF Word
<1>10. /\ data'[x] = word /\ \A i \in Item : i # x => data'[i] = data[i]
       /\ \A c \in Caller : data'[c] = data[c]
  BY <1>1, <1>7, WordChange
<1>11. SoleAt(x) /\ CancelAt(x)
  BY <1>1, CancelingAs DEF CallerInv, Sole
<1>12. queueing'[x] = q /\ \A y \in Work : y # x => queueing'[y] = queueing[y]
  BY <1>7, <1>8
<1>13. UNCHANGED <<tmr, arming, cpc, op, tgt, dwq, done>>
  BY <1>3 DEF timerVars, callVars, waitVars
<1>14. SoleAt(x)'
  BY <1>7, <1>8, <1>9, <1>10, <1>11, <1>12, <1>13 DEF SoleAt, Queues, Arms, Ticks, Listed, Holds, Owns
<1>15. CancelAt(x)'
  BY <1>9, <1>10, <1>11, <1>13 DEF CancelAt, Cancels
<1>16. \A y \in Work : y # x => SameOwners(y)
  BY <1>10, <1>12, <1>13, WorkFacts DEF SameOwners, Queues, Arms, Ticks, Listed
<1>17. \A y \in Work : data[y].canceling <=> data'[y].canceling
  BY <1>9, <1>10, WorkFacts
<1>18. TimersReady'
  BY <1>1, <1>13 DEF CallerInv, TimersReady
<1>19. CallerInv'
  BY <1>1, <1>3, <1>7, <1>10, <1>13, <1>14, <1>15, <1>16, <1>17, <1>18, CallersKeep
<1> QED
  BY <1>4, <1>5, <1>6, <1>19, QParts

(* __queue_work(): the list gets PENDING from whoever called.              *)
LEMMA QueueWorkOwners ==
  ASSUME TypeOK, CoreInv, CoreInv', WorkBooks, CallerInv, NEW x \in Work, QueueWork(x)
  PROVE  /\ UNCHANGED <<pc, current_work>>
         /\ \A c \in Caller : data'[c] = data[c]
         /\ \A y \in Work : data[y].canceling <=> data'[y].canceling
         /\ UNCHANGED <<tmr, arming>> => \A y \in Work : y # x => SameOwners(y)
         /\ ~data[x].canceling /\ ~data'[x].canceling
         /\ Queues(x) /\ ~Queues(x)' /\ Listed(x)' /\ data'[x].pending = TRUE
<1>1. SoleAt(x) /\ CancelAt(x)
  BY CancelingAs DEF CallerInv, Sole
<1>2. /\ Queues(x) /\ ~Queues(x)' /\ Listed(x)' /\ ~data[x].canceling
      /\ data'[x].pending = TRUE /\ data'[x].canceling = FALSE
      /\ \A i \in Item : i # x => data'[i] = data[i]
      /\ \A c \in Caller : data'[c] = data[c]
      /\ \A y \in Work : y # x => queueing'[y] = queueing[y]
      /\ UNCHANGED <<pc, current_work>>
  BY <1>1, QueueWorkOwner
<1>3. UNCHANGED <<tmr, arming>> => \A y \in Work : y # x => SameOwners(y)
  BY <1>2, WorkFacts DEF SameOwners, Queues, Arms, Ticks, Listed
<1> QED
  BY <1>2, <1>3, WorkFacts

(* The same when no caller moves.                                          *)
LEMMA QueueWorkQ ==
  ASSUME QInv, NEW x \in Work, QueueWork(x), UNCHANGED <<tmr, dwq, arming, callVars, waitVars>>,
         firing' \in [DelayedWork -> {"off", "calling", "called"}]
  PROVE  QInv'
<1>1. TypeOK /\ TypeC /\ CoreInv /\ WorkBooks /\ CallerInv
  BY QParts
<1>2. CoreInv' /\ TypeOK'
  BY <1>1, ClientCore DEF CoreInv
<1>3. WorkBooks'
  BY <1>1, <1>2, QueueWorkBooks DEF CoreInv
<1>4. TypeC'
  BY <1>1 DEF TypeC, callVars, waitVars
<1>5. /\ UNCHANGED <<pc, current_work>>
      /\ \A c \in Caller : data'[c] = data[c]
      /\ \A y \in Work : data[y].canceling <=> data'[y].canceling
      /\ \A y \in Work : y # x => SameOwners(y)
      /\ ~data[x].canceling /\ ~data'[x].canceling
      /\ Queues(x) /\ ~Queues(x)' /\ Listed(x)' /\ data'[x].pending = TRUE
  BY <1>1, <1>2, QueueWorkOwners
<1>6. UNCHANGED <<cpc, op, tgt, done>>
  BY DEF callVars, waitVars
<1>7. SoleAt(x) /\ CancelAt(x)
  BY <1>1, CancelingAs DEF CallerInv, Sole
<1>8. SameHolders(x) /\ (Arms(x)' <=> Arms(x)) /\ (Ticks(x)' <=> Ticks(x))
  BY <1>6 DEF SameHolders, Holds, Owns, Cancels, Arms, Ticks
<1>9. SoleAt(x)'
  BY <1>5, <1>7, <1>8 DEF SoleAt, SameHolders
<1>10. CancelAt(x)'
  BY <1>5, <1>7, <1>8 DEF CancelAt, SameHolders
<1>11. TimersReady'
  BY <1>1 DEF CallerInv, TimersReady
<1>12. CallerInv'
  BY <1>1, <1>5, <1>6, <1>9, <1>10, <1>11, CallersKeep
<1> QED
  BY <1>2, <1>3, <1>4, <1>12, QParts

(* The queue_work() of a client keeps the invariant, ...                   *)
LEMMA ClientQueuesQ ==
  ASSUME QInv, NEW x \in Work, ClientQueues(x)
  PROVE  QInv'
<1>1. firing' \in [DelayedWork -> {"off", "calling", "called"}]
  BY QParts DEF TypeC, ClientQueues, timerVars
<1> QED
  BY <1>1, QueueWorkQ DEF ClientQueues, timerVars

(* ... and so does that of a timer's handler.                              *)
LEMMA TimerFnQ ==
  ASSUME QInv, NEW x \in DelayedWork, TimerFn(x)
  PROVE  QInv'
<1>1. firing' \in [DelayedWork -> {"off", "calling", "called"}]
  BY QParts DEF TypeC, TimerFn
<1> QED
  BY <1>1, QueueWorkQ, WorkFacts DEF TimerFn

(* The idle timer's steps, and those that change nothing of the pool.      *)
LEMMA IdleTimerQ ==
  ASSUME QInv, IdleTimer
  PROVE  QInv'
<1>1. TypeOK /\ TypeC /\ CoreInv /\ WorkBooks /\ CallerInv
  BY QParts
<1>2. CoreInv' /\ TypeOK'
  BY <1>1, IdleTimerCore DEF CoreInv, IdleTimer
<1>3. UNCHANGED <<queueing, pc, listVars, busyVars>>
  BY DEF IdleTimer, TimerExpire, IdleWorkerTimeout
<1>4. WorkBooks'
  BY <1>1, <1>3, SameWorks
<1>5. UNCHANGED <<tmr, firing, dwq, arming, cpc, op, tgt, done, awaits>> /\ UNCHANGED callVars
  BY DEF IdleTimer, timerVars, callVars, waitVars
<1>6. TypeC'
  BY <1>1, <1>5 DEF TypeC
<1>7. UNCHANGED <<data, current_work, pc>>
  BY <1>3 DEF listVars, busyVars
<1>8. \A y \in Work : SameOwners(y)
  BY <1>3, <1>5, <1>7 DEF SameOwners, Queues, Arms, Ticks, Listed
<1>9. TimersReady'
  BY <1>1, <1>5 DEF CallerInv, TimersReady
<1>10. CallerInv'
  BY <1>1, <1>5, <1>7, <1>8, <1>9, CallersKeep
<1> QED
  BY <1>2, <1>4, <1>6, <1>10, QParts

(* A worker's step: a claim takes the item off its list, and PENDING from  *)
(* it; a barrier's function completes its caller's wait.                   *)
LEMMA WorkerRunsQuiet ==
  ASSUME CoreInv, BarrierQuiet, NEW w \in Worker, WorkerRuns(w)
  PROVE  BarrierQuiet'
<1>1. TypeOK /\ NonReentrant
  BY DEF CoreInv, PoolCore
<1>2. WorkerStep(w) /\ UNCHANGED cpc /\ \A c \in Caller : done'[c] <=> done[c] \/ (pc[w] = "exec" /\ current_work[w] = c)
  BY DEF WorkerRuns, Pool, Complete, callVars
<1>3. /\ pc[w] = "exec" => pc'[w] = "ret"
      /\ \A u \in Worker : u # w => current_work'[u] = current_work[u] /\ (pc'[u] = "exec" <=> pc[u] = "exec")
  BY <1>2, WorkerStepWords
<1> SUFFICES ASSUME NEW c \in Caller PROVE Quiet(c)'
  BY DEF BarrierQuiet
<1>4. Quiet(c) /\ c \in Item /\ c # None
  BY WorkFacts, NoneFacts DEF BarrierQuiet
<1>5. ASSUME NEW u \in Worker, u # w, pc'[u] = "exec", current_work'[u] = c
      PROVE  cpc[c] = "wait" /\ ~done[c] /\ data[c].high \notin Pwq /\ ~(pc[w] = "exec" /\ current_work[w] = c)
  <2>1. pc[u] = "exec" /\ current_work[u] = c
    BY <1>3, <1>5
  <2>2. ~(current_work[w] = c)
    BY <1>1, <1>4, <1>5, <2>1 DEF NonReentrant
  <2> QED BY <1>4, <1>5, <2>1, <2>2 DEF Quiet
<1>6. CASE /\ \A i \in Item : SameFlags(i)
           /\ pc'[w] # "exec" /\ current_work'[w] \in {None, current_work[w]}
  <2>1. data'[c].high = data[c].high
    BY <1>4, <1>6 DEF SameFlags
  <2>2. data'[c].high \in Pwq => cpc'[c] = "wait" /\ ~done'[c]
    BY <1>2, <1>4, <2>1 DEF Quiet
  <2>3. ASSUME NEW u \in Worker, pc'[u] = "exec", current_work'[u] = c
        PROVE  cpc'[c] = "wait" /\ ~done'[c] /\ data'[c].high \notin Pwq
    BY <1>2, <1>5, <1>6, <2>1, <2>3
  <2>4. done'[c] => cpc'[c] = "wait"
    BY <1>2, <1>4 DEF Quiet
  <2> QED BY <2>2, <2>3, <2>4 DEF Quiet
<1>7. CASE \E i \in Item : /\ data[i].high \in Pwq /\ pc[w] \in {"next", "sched"}
                           /\ data' = [data EXCEPT ![i] = OffQueue(PoolId, FALSE)]
                           /\ pc'[w] = "exec" /\ current_work'[w] = i
  <2>1. PICK i \in Item : /\ data[i].high \in Pwq /\ pc[w] \in {"next", "sched"}
                          /\ data' = [data EXCEPT ![i] = OffQueue(PoolId, FALSE)]
                          /\ pc'[w] = "exec" /\ current_work'[w] = i
    BY <1>7
  <2>2. /\ data'[c].high \in Pwq => data[c].high \in Pwq
        /\ c = i => data'[c].high \notin Pwq /\ data[c].high \in Pwq
    BY <1>1, <1>4, <2>1, HeadFacts DEF TypeOK, OffQueue, WorkDataInit
  <2>3. ~(pc[w] = "exec") /\ done'[c] <=> done[c]
    BY <1>2, <2>1
  <2>4. data'[c].high \in Pwq => cpc'[c] = "wait" /\ ~done'[c]
    BY <1>2, <1>4, <2>2, <2>3 DEF Quiet
  <2>5. ASSUME NEW u \in Worker, pc'[u] = "exec", current_work'[u] = c
        PROVE  cpc'[c] = "wait" /\ ~done'[c] /\ data'[c].high \notin Pwq
    <3>1. CASE u = w
      BY <1>2, <1>4, <2>1, <2>2, <2>3, <2>5, <3>1 DEF Quiet
    <3>2. CASE u # w
      BY <1>2, <1>5, <2>2, <2>3, <2>5, <3>2
    <3> QED BY <3>1, <3>2
  <2>6. done'[c] => cpc'[c] = "wait"
    BY <1>2, <1>4, <2>3 DEF Quiet
  <2> QED BY <2>4, <2>5, <2>6 DEF Quiet
<1> QED
  BY <1>2, <1>6, <1>7, WorkerStepWords

(* A worker's step keeps the owners.                                       *)
LEMMA WorkerRunsOwners ==
  ASSUME CoreInv, TypeC, CallerInv, NEW w \in Worker, WorkerRuns(w)
  PROVE  /\ \A y \in Work : SameOwners(y) \/ (SoleAt(y)' /\ CancelAt(y)')
         /\ \A y \in Work : data[y].canceling <=> data'[y].canceling
<1>1. /\ WorkerStep(w) /\ UNCHANGED <<tmr, arming, cpc, op, tgt>> /\ TypeOK
      /\ \A y \in Work : SoleAt(y) /\ CancelAt(y)
  BY CancelingAs DEF WorkerRuns, Pool, timerVars, callVars, CoreInv, CallerInv, Sole
<1>2. UNCHANGED queueing
  BY <1>1, WorkerStepWords
<1>3. CASE \A i \in Item : SameFlags(i)
  BY <1>1, <1>2, <1>3, WorkFacts DEF SameFlags, SameOwners, Queues, Arms, Ticks, Listed
<1>4. ASSUME NEW i \in Item, data[i].high \in Pwq, data' = [data EXCEPT ![i] = OffQueue(PoolId, FALSE)]
      PROVE  /\ \A y \in Work : SameOwners(y) \/ (SoleAt(y)' /\ CancelAt(y)')
             /\ \A y \in Work : data[y].canceling <=> data'[y].canceling
  <2>1. /\ \A y \in Item : y # i => data'[y] = data[y]
        /\ data'[i].pending = FALSE /\ data'[i].canceling = FALSE /\ data'[i].high \notin Pwq
    BY <1>1, <1>4, HeadFacts DEF TypeOK, OffQueue, WorkDataInit
  <2>2. \A y \in Work : y # i => SameOwners(y)
    BY <1>1, <1>2, <2>1, WorkFacts DEF SameOwners, Queues, Arms, Ticks, Listed
  <2>3. i \in Work => ~data[i].canceling
    BY <1>1, <1>4, Uncanceled DEF Listed
  <2>4. i \in Work => SoleAt(i)' /\ CancelAt(i)'
    <3> SUFFICES ASSUME i \in Work PROVE SoleAt(i)' /\ CancelAt(i)'
      OBVIOUS
    <3>1. /\ ~Queues(i)' /\ ~Arms(i)' /\ ~Ticks(i)' /\ ~Listed(i)'
          /\ \A c \in Caller : ~Holds(c, i)'
      BY <1>1, <1>2, <1>4, <2>1 DEF SoleAt, Queues, Arms, Ticks, Listed, Holds, Owns
    <3>2. \A c \in Caller : Cancels(c, i)' <=> Cancels(c, i)
      BY <1>1 DEF Cancels
    <3>3. SoleAt(i)'
      BY <2>1, <3>1 DEF SoleAt
    <3>4. CancelAt(i)'
      BY <1>1, <2>1, <2>3, <3>2 DEF CancelAt
    <3> QED BY <3>3, <3>4
  <2> QED BY <2>1, <2>2, <2>3, <2>4, WorkFacts
<1> QED
  BY <1>1, <1>3, <1>4, WorkerStepWords

(* A step of a worker keeps the invariant: the words lose no owner, and a  *)
(* barrier that runs was waited for.                                       *)
LEMMA WorkerRunsQ ==
  ASSUME QInv, NEW w \in Worker, WorkerRuns(w)
  PROVE  QInv'
<1>1. TypeOK /\ TypeC /\ CoreInv /\ WorkBooks /\ CallerInv
  BY QParts
<1>2. WorkerStep(w) /\ UNCHANGED <<timerVars, callVars>> /\ Track /\ Complete(w)
  BY DEF WorkerRuns, Pool
<1>3. CoreInv' /\ TypeOK'
  BY <1>1, <1>2, WorkerStepCore DEF CoreInv
<1>4. WorkBooks'
  BY <1>1, <1>2, <1>3, WorkerStepWorks DEF CoreInv, PoolCore
<1>5. UNCHANGED <<tmr, firing, dwq, arming, cpc, op, tgt>>
  BY <1>2 DEF timerVars, callVars
<1>6. TypeC'
  <2>1. done' \in [Caller -> BOOLEAN]
    BY <1>1, <1>2 DEF Complete, TypeC
  <2>2. awaits' \in [Caller -> {"none", "queued", "running"}]
    BY <1>1, <1>2 DEF Track, TypeC
  <2> QED BY <1>1, <1>5, <2>1, <2>2 DEF TypeC
<1>7. /\ \A y \in Work : SameOwners(y) \/ (SoleAt(y)' /\ CancelAt(y)')
      /\ \A y \in Work : data[y].canceling <=> data'[y].canceling
  BY <1>1, WorkerRunsOwners
<1>8. Frames' /\ Sole' /\ CancelingExact'
  BY <1>1, <1>2, <1>7, CallersStay
<1>9. BarrierQuiet'
  BY <1>1, WorkerRunsQuiet DEF CallerInv
<1>10. CancelWaiterWoken'
  BY <1>1, <1>5, <1>7, WokenKept DEF CallerInv
<1>11. TimersReady'
  BY <1>1, <1>5 DEF CallerInv, TimersReady
<1> QED
  BY <1>3, <1>4, <1>6, <1>8, <1>9, <1>10, <1>11, QParts DEF CallerInv

(* queue_delayed_work() gets PENDING, the timer has it next, and then the  *)
(* timer's handler.                                                        *)
LEMMA QueueDelayedQ ==
  ASSUME QInv, NEW x \in DelayedWork, NEW q \in Pwq, QueueDelayed(x, q)
  PROVE  QInv'
<1>1. TypeOK /\ TypeC /\ CoreInv /\ WorkBooks /\ CallerInv /\ x \in Work
  BY QParts, WorkFacts
<1>2. x \in Item /\ data[x] \in Word
  BY <1>1, ItemFacts DEF TypeOK
<1> PICK word : word = [data[x] EXCEPT !.pending = TRUE]
  OBVIOUS
<1>3. /\ ~data[x].pending /\ data' = [data EXCEPT ![x] = word]
      /\ arming' = arming \cup {x} /\ dwq' = [dwq EXCEPT ![x] = q]
      /\ UNCHANGED <<queueing, PoolRest, pc, current_work, tmr, firing, callVars, waitVars>>
  BY DEF QueueDelayed, PoolRest, workerVars
<1>4. UNCHANGED <<cpc, op, tgt, done, awaits>>
  BY <1>3 DEF callVars, waitVars
<1>5. word \in Word /\ word.pending = TRUE /\ word.canceling = data[x].canceling /\ word.high = data[x].high
  BY <1>2 DEF Word
<1>6. CoreInv' /\ WorkBooks'
  BY <1>1, <1>3, <1>5, WordStep
<1>7. TypeC' /\ TypeOK'
  BY <1>1, <1>3, <1>4, <1>6 DEF TypeC, CoreInv
<1>8. /\ data'[x] = word /\ \A i \in Item : i # x => data'[i] = data[i]
      /\ \A c \in Caller : data'[c] = data[c]
  BY <1>1, <1>3, WordChange
<1>9. SoleAt(x) /\ CancelAt(x)
  BY <1>1, CancelingAs DEF CallerInv, Sole
<1>10. SoleAt(x)'
  BY <1>3, <1>4, <1>5, <1>8, <1>9 DEF SoleAt, Queues, Arms, Ticks, Listed, Holds, Owns
<1>11. CancelAt(x)'
  BY <1>4, <1>5, <1>8, <1>9 DEF CancelAt, Cancels
<1>12. \A y \in Work : y # x => SameOwners(y)
  BY <1>3, <1>8, WorkFacts DEF SameOwners, Queues, Arms, Ticks, Listed
<1>13. \A y \in Work : data[y].canceling <=> data'[y].canceling
  BY <1>5, <1>8, WorkFacts
<1>14. TimersReady'
  BY <1>1, <1>3 DEF CallerInv, TimersReady, TypeC
<1>15. CallerInv'
  BY <1>1, <1>3, <1>4, <1>8, <1>10, <1>11, <1>12, <1>13, <1>14, CallersKeep
<1> QED
  BY <1>6, <1>7, <1>15, QParts

(* add_timer(): the owner of PENDING is now the armed timer.               *)
LEMMA ArmTimerQ ==
  ASSUME QInv, NEW x \in DelayedWork, ArmTimer(x)
  PROVE  QInv'
<1>1. TypeOK /\ TypeC /\ CoreInv /\ WorkBooks /\ CallerInv /\ x \in Work
  BY QParts, WorkFacts
<1>2. /\ x \in arming /\ arming' = arming \ {x} /\ tmr' = [tmr EXCEPT ![x] = TRUE]
      /\ UNCHANGED <<vars, firing, dwq, callVars, waitVars>>
  BY DEF ArmTimer
<1>3. UNCHANGED <<cpc, op, tgt, done, awaits>>
  BY <1>2 DEF callVars, waitVars
<1>4. UNCHANGED <<data, queueing, pc, current_work, listVars, busyVars>>
  BY <1>2 DEF vars, listVars, busyVars
<1>5. CoreInv' /\ TypeOK'
  BY <1>1, <1>2, StutterCore DEF CoreInv
<1>6. WorkBooks'
  BY <1>1, <1>4, SameWorks
<1>7. TypeC'
  BY <1>1, <1>2, <1>3 DEF TypeC
<1>8. SoleAt(x) /\ CancelAt(x)
  BY <1>1, CancelingAs DEF CallerInv, Sole
<1>9. /\ tmr'[x] /\ \A y \in DelayedWork : y # x => (tmr'[y] <=> tmr[y])
  BY <1>1, <1>2 DEF TypeC
<1>10. SoleAt(x)'
  BY <1>2, <1>3, <1>4, <1>8, <1>9 DEF SoleAt, Queues, Arms, Ticks, Listed, Holds, Owns
<1>11. CancelAt(x)'
  BY <1>3, <1>4, <1>8 DEF CancelAt, Cancels
<1>12. \A y \in Work : y # x => SameOwners(y)
  BY <1>2, <1>4, <1>9 DEF SameOwners, Queues, Arms, Ticks, Listed
<1>13. TimersReady'
  BY <1>1, <1>2, <1>9 DEF CallerInv, TimersReady
<1>14. CallerInv'
  BY <1>1, <1>2, <1>3, <1>4, <1>10, <1>11, <1>12, <1>13, CallersKeep
<1> QED
  BY <1>5, <1>6, <1>7, <1>14, QParts

(* The timer thread takes PENDING from the timer to __queue_work().        *)
LEMMA FireTimerQ ==
  ASSUME QInv, NEW x \in DelayedWork, FireTimer(x)
  PROVE  QInv'
<1>1. TypeOK /\ TypeC /\ CoreInv /\ WorkBooks /\ CallerInv /\ x \in Work
  BY QParts, WorkFacts
<1>2. /\ tmr[x] /\ tmr' = [tmr EXCEPT ![x] = FALSE] /\ queueing' = [queueing EXCEPT ![x] = dwq[x]]
      /\ firing' = [firing EXCEPT ![x] = "calling"]
      /\ UNCHANGED <<data, PoolRest, pc, current_work, arming, dwq, callVars, waitVars>>
  BY DEF FireTimer, PoolRest, listVars, workerVars
<1>3. UNCHANGED <<cpc, op, tgt, done, awaits>>
  BY <1>2 DEF callVars, waitVars
<1>4. dwq[x] \in Pwq /\ queueing \in [Work -> Pwq \cup {None}]
  BY <1>1, <1>2 DEF CallerInv, TimersReady, TypeOK
<1>5. queueing' \in [Work -> Pwq \cup {None}] /\ queueing'[x] = dwq[x] /\ dwq[x] # None
      /\ \A y \in Work : y # x => queueing'[y] = queueing[y]
  BY <1>1, <1>2, <1>4, HeadFacts
<1>6. CoreInv' /\ WorkBooks' /\ TypeOK'
  BY <1>1, <1>2, <1>5, QueueingStep DEF CoreInv
<1>7. TypeC'
  BY <1>1, <1>2, <1>3 DEF TypeC
<1>8. SoleAt(x) /\ CancelAt(x)
  BY <1>1, CancelingAs DEF CallerInv, Sole
<1>9. /\ ~tmr'[x] /\ \A y \in DelayedWork : y # x => (tmr'[y] <=> tmr[y])
  BY <1>1, <1>2 DEF TypeC
<1>10. SoleAt(x)'
  BY <1>2, <1>3, <1>5, <1>8, <1>9 DEF SoleAt, Queues, Arms, Ticks, Listed, Holds, Owns
<1>11. CancelAt(x)'
  BY <1>2, <1>3, <1>8 DEF CancelAt, Cancels
<1>12. \A y \in Work : y # x => SameOwners(y)
  BY <1>2, <1>5, <1>9 DEF SameOwners, Queues, Arms, Ticks, Listed
<1>13. TimersReady'
  BY <1>1, <1>2, <1>9 DEF CallerInv, TimersReady
<1>14. CallerInv'
  BY <1>1, <1>2, <1>3, <1>10, <1>11, <1>12, <1>13, CallersKeep
<1> QED
  BY <1>6, <1>7, <1>14, QParts

(* A step that changes nothing but where the timer's thread is.            *)
LEMMA FiredTimerQ ==
  ASSUME QInv, UNCHANGED <<vars, tmr, dwq, arming, callVars, waitVars>>,
         firing' \in [DelayedWork -> {"off", "calling", "called"}]
  PROVE  QInv'
<1>1. TypeOK /\ TypeC /\ CoreInv /\ WorkBooks /\ CallerInv
  BY QParts
<1>2. UNCHANGED <<cpc, op, tgt, done, awaits>>
  BY DEF callVars, waitVars
<1>3. UNCHANGED <<data, queueing, pc, current_work, listVars, busyVars>>
  BY DEF vars, listVars, busyVars
<1>4. CoreInv' /\ TypeOK'
  BY <1>1, StutterCore DEF CoreInv
<1>5. WorkBooks'
  BY <1>1, <1>3, SameWorks
<1>6. TypeC'
  BY <1>1, <1>2 DEF TypeC
<1>7. \A y \in Work : SameOwners(y)
  BY <1>3 DEF SameOwners, Queues, Arms, Ticks, Listed
<1>8. TimersReady'
  BY <1>1 DEF CallerInv, TimersReady
<1>9. CallerInv'
  BY <1>1, <1>2, <1>3, <1>7, <1>8, CallersKeep
<1> QED
  BY <1>4, <1>5, <1>6, <1>9, QParts
-----------------------------------------------------------------------------
(* The callers' steps                                                      *)

(* A caller that is in a function has a work.                              *)
LEMMA TargetFacts ==
  ASSUME TypeC, Frames, NEW c \in Caller, cpc[c] # "idle"
  PROVE  tgt[c] \in Work /\ Frame(c)
BY DEF TypeC, Frames, Frame

(* What a caller's step has to keep.                                       *)
LEMMA CallerQ ==
  ASSUME QInv, NEW c \in Caller, NEW x, x = tgt[c], x \in Work, NEW l \in Stops, Goto(c, l), Frame(c)',
         \A y \in Work : y # x => SameOwners(y), SoleAt(x)', CancelAt(x)',
         CoreInv', WorkBooks', BarrierQuiet', CancelWaiterWoken',
         UNCHANGED <<dwq, arming, firing>>, tmr' \in [DelayedWork -> BOOLEAN],
         \A y \in DelayedWork : tmr'[y] => tmr[y],
         done' \in [Caller -> BOOLEAN], awaits' \in [Caller -> {"none", "queued", "running"}]
  PROVE  QInv'
<1>1. TypeOK /\ TypeC /\ CoreInv /\ WorkBooks /\ CallerInv
  BY QParts
<1>2. Frames' /\ Sole' /\ CancelingExact'
  BY <1>1, CallerMoves
<1>3. TimersReady'
  BY <1>1 DEF CallerInv, TimersReady
<1>4. TypeC'
  BY <1>1, GotoFacts DEF TypeC
<1> QED
  BY <1>2, <1>3, <1>4, QParts DEF CallerInv, CoreInv

(* Who waits for cancel_cond will be woken, unless the last one to do it   *)
(* has just gone on.                                                       *)
LEMMA CallerWoken ==
  ASSUME TypeC, Frames, CancelWaiterWoken, NEW c \in Caller, NEW l \in Stops, Goto(c, l),
         cpc[c] # "broadcast", cpc[c] # "idle", l = "cond_wait" => data'[tgt[c]].canceling,
         \A x \in Work : data[x].canceling => data'[x].canceling
  PROVE  CancelWaiterWoken'
<1>1. /\ cpc'[c] = l /\ (l # "idle" => tgt'[c] = tgt[c])
      /\ \A d \in Caller : d # c => cpc'[d] = cpc[d] /\ op'[d] = op[d] /\ tgt'[d] = tgt[d]
  BY GotoFacts
<1>2. \A d \in Caller : cpc[d] = "broadcast" => cpc'[d] = "broadcast"
  BY <1>1
<1>3. \A d \in Caller : cpc[d] = "cond_wait" => tgt[d] \in Work
  BY TargetFacts
<1> SUFFICES ASSUME NEW d \in Caller, cpc'[d] = "cond_wait"
             PROVE  data'[tgt'[d]].canceling \/ \E e \in Caller : cpc'[e] = "broadcast"
  BY DEF CancelWaiterWoken
<1>4. CASE d = c
  BY <1>1, <1>4
<1>5. CASE d # c
  BY <1>1, <1>2, <1>3, <1>5 DEF CancelWaiterWoken
<1> QED BY <1>4, <1>5

(* A caller that does not wait has no barrier in the pool.                 *)
LEMMA CallerQuiet ==
  ASSUME TypeC, BarrierQuiet, NEW c \in Caller, NEW l \in Stops, Goto(c, l), cpc[c] # "wait",
         UNCHANGED <<pc, current_work, done>>,
         \A d \in Caller : data'[d].high \in Pwq <=> data[d].high \in Pwq
  PROVE  BarrierQuiet'
<1>1. \A d \in Caller : d # c => cpc'[d] = cpc[d]
  BY GotoFacts
<1> QED BY <1>1, QuietKept

(* A caller that moves on without touching the pool, its timers or the     *)
(* owners of its work.                                                     *)
LEMMA StaysQ ==
  ASSUME QInv, NEW c \in Caller, cpc[c] # "idle", cpc[c] # "broadcast",
         NEW l \in Stops, Goto(c, l), Frame(c)',
         Stay, UNCHANGED timerVars,
         \/ cpc[c] = "wait" /\ done[c] /\ done' = [done EXCEPT ![c] = FALSE]
         \/ cpc[c] # "wait" /\ UNCHANGED done,
         UNCHANGED awaits,
         NEW x, x = tgt[c], Holds(c, x)' <=> Holds(c, x), Cancels(c, x)' <=> Cancels(c, x),
         l = "cond_wait" => data[x].canceling
  PROVE  QInv'
<1>1. TypeOK /\ TypeC /\ CoreInv /\ WorkBooks /\ CallerInv
  BY QParts
<1>2. UNCHANGED <<queueing, data, PoolRest, pc, current_work, tmr, firing, dwq, arming>>
  BY DEF Stay, PoolRest, listVars, workerVars, timerVars
<1>3. CoreInv' /\ WorkBooks'
  <2>1. queueing' \in [Work -> Pwq \cup {None}]
    BY <1>1, <1>2 DEF TypeOK
  <2> QED BY <1>1, <1>2, <2>1, QueueingStep
<1>4. x \in Work /\ SoleAt(x) /\ CancelAt(x)
  BY <1>1, TargetFacts, CancelingAs DEF CallerInv, Sole
<1>5. \A y \in Work : SameOwners(y)
  BY <1>2 DEF SameOwners, Queues, Arms, Ticks, Listed
<1>6. SameHolders(x)
  BY <1>1, <1>4, OtherWorks DEF SameHolders
<1>7. SoleAt(x)' /\ CancelAt(x)'
  BY <1>4, <1>5, <1>6, OwnersSame
<1>8. BarrierQuiet'
  <2>1. CASE cpc[c] = "wait" /\ done[c] /\ done' = [done EXCEPT ![c] = FALSE]
    <3>1. \A d \in Caller : d # c => cpc'[d] = cpc[d] /\ (done'[d] <=> done[d])
      BY <1>1, <2>1, GotoFacts DEF TypeC
    <3>2. ~done'[c]
      BY <1>1, <2>1 DEF TypeC
    <3>3. Quiet(c)'
      BY <1>1, <1>2, <2>1, <3>2 DEF CallerInv, BarrierQuiet, Quiet
    <3>4. \A d \in Caller : d # c => Quiet(d)'
      BY <1>1, <1>2, <3>1 DEF CallerInv, BarrierQuiet, Quiet
    <3> QED BY <3>3, <3>4 DEF BarrierQuiet
  <2>2. CASE cpc[c] # "wait" /\ UNCHANGED done
    BY <1>1, <1>2, <2>2, CallerQuiet DEF CallerInv
  <2> QED BY <2>1, <2>2
<1>9. CancelWaiterWoken'
  BY <1>1, <1>2, CallerWoken DEF CallerInv
<1>10. done' \in [Caller -> BOOLEAN] /\ awaits' \in [Caller -> {"none", "queued", "running"}]
  BY <1>1 DEF TypeC
<1>11. tmr' \in [DelayedWork -> BOOLEAN] /\ \A y \in DelayedWork : tmr'[y] => tmr[y]
  BY <1>1, <1>2 DEF TypeC
<1> QED
  BY <1>2, <1>3, <1>4, <1>5, <1>7, <1>8, <1>9, <1>10, <1>11, CallerQ

(* A flush goes on, or returns to cancel_work_sync() or to its caller.     *)
LEMMA FlushGoes ==
  ASSUME TypeC, NEW c \in Caller, Frame(c), cpc[c] \in {"flush", "flush_lock", "wait"},
         NEW l, l \in {"flush_lock", "wait", FlushReturns[c]}, Goto(c, l), NEW x, x = tgt[c], x \in Work
  PROVE  /\ l \in Stops /\ l \notin {"cond_wait", "broadcast"} /\ Frame(c)'
         /\ Holds(c, x)' <=> Holds(c, x)
         /\ Cancels(c, x)' <=> Cancels(c, x)
<1>1. /\ op[c] \in {"flush_work", "cancel_sync"}
      /\ l \in {"flush_lock", "wait"} \/ (l = "clear" /\ op[c] = "cancel_sync")
           \/ (l = "idle" /\ op[c] = "flush_work")
  BY DEF Frame, FlushReturns
<1>2. l \in Stops
  BY <1>1 DEF Stops
<1>3. /\ cpc'[c] = l /\ tgt'[c] = (IF l = "idle" THEN None ELSE tgt[c])
      /\ l # "idle" => op'[c] = op[c]
  BY <1>1, <1>2, GotoFacts
<1>4. Frame(c)'
  BY <1>1, <1>3, WorkFacts DEF Frame
<1>5. /\ Holds(c, x)' <=> Holds(c, x)
      /\ Cancels(c, x)' <=> Cancels(c, x)
  BY <1>1, <1>3, WorkFacts DEF Holds, Owns, Cancels
<1> QED
  BY <1>1, <1>2, <1>4, <1>5

(* start_flush_work() without the lock: the caller goes to the lock, or    *)
(* returns.                                                                *)
LEMMA FlushReadQ ==
  ASSUME QInv, NEW c \in Caller, FlushRead(c)
  PROVE  QInv'
<1>1. TypeC /\ Frame(c) /\ tgt[c] \in Work
  BY QParts, TargetFacts DEF FlushRead, CallerInv
<1>2. /\ cpc[c] = "flush" /\ Stay /\ UNCHANGED timerVars /\ UNCHANGED <<done, awaits>>
      /\ \E l \in {"flush_lock", "wait", FlushReturns[c]} : Goto(c, l)
  BY DEF FlushRead, waitVars
<1>3. PICK l \in {"flush_lock", "wait", FlushReturns[c]} : Goto(c, l)
  BY <1>2
<1> PICK x : x = tgt[c]
  OBVIOUS
<1>4. /\ l \in Stops /\ l \notin {"cond_wait", "broadcast"} /\ Frame(c)'
      /\ Holds(c, x)' <=> Holds(c, x)
      /\ Cancels(c, x)' <=> Cancels(c, x)
  BY <1>1, <1>2, <1>3, FlushGoes
<1> QED
  BY <1>2, <1>3, <1>4, StaysQ

(* The caller's barrier has run, and the caller returns.                   *)
LEMMA FlushWaitQ ==
  ASSUME QInv, NEW c \in Caller, FlushWait(c)
  PROVE  QInv'
<1>1. TypeC /\ Frame(c) /\ tgt[c] \in Work
  BY QParts, TargetFacts DEF FlushWait, CallerInv
<1>2. /\ cpc[c] = "wait" /\ done[c] /\ done' = [done EXCEPT ![c] = FALSE] /\ UNCHANGED awaits
      /\ Stay /\ UNCHANGED timerVars /\ Goto(c, FlushReturns[c])
  BY DEF FlushWait
<1> PICK l : l = FlushReturns[c]
  OBVIOUS
<1> PICK x : x = tgt[c]
  OBVIOUS
<1>3. /\ l \in Stops /\ l \notin {"cond_wait", "broadcast"} /\ Frame(c)'
      /\ Holds(c, x)' <=> Holds(c, x)
      /\ Cancels(c, x)' <=> Cancels(c, x)
  BY <1>1, <1>2, FlushGoes
<1> QED
  BY <1>2, <1>3, StaysQ

(* try_to_grab_pending() without the lock: to the lock, or to its failure. *)
LEMMA ReadPoolQ ==
  ASSUME QInv, NEW c \in Caller, ReadPool(c)
  PROVE  QInv'
<1>1. TypeC /\ Frame(c) /\ tgt[c] \in Work
  BY QParts, TargetFacts DEF ReadPool, CallerInv
<1>2. /\ cpc[c] = "pool" /\ Stay /\ UNCHANGED timerVars /\ UNCHANGED <<done, awaits>>
      /\ \E l \in {"steal", "failed"} : Goto(c, l)
  BY DEF ReadPool, waitVars
<1>3. PICK l \in {"steal", "failed"} : Goto(c, l)
  BY <1>2
<1> PICK x : x = tgt[c]
  OBVIOUS
<1>4. l \in Stops
  BY <1>3 DEF Stops
<1>5. cpc'[c] = l /\ tgt'[c] = tgt[c] /\ op'[c] = op[c]
  BY <1>1, <1>3, <1>4, GotoFacts
<1>6. Frame(c)'
  BY <1>1, <1>2, <1>3, <1>5 DEF Frame
<1>7. /\ Holds(c, x)' <=> Holds(c, x)
      /\ Cancels(c, x)' <=> Cancels(c, x)
  BY <1>2, <1>5, <1>3 DEF Holds, Owns, Cancels
<1> QED
  BY <1>2, <1>3, <1>4, <1>6, <1>7, StaysQ

(* The start of a function, and of try_to_grab_pending() again.            *)
LEMMA EntryFacts ==
  ASSUME NEW o, NEW y
  PROVE  /\ o \in {"cancel_delayed_work", "cancel_sync"} =>
              Entry(o, y) = IF y \in DelayedWork THEN "del" ELSE "test"
         /\ o = "flush_work" => Entry(o, y) = "flush"
         /\ o = "flush_delayed_work" => Entry(o, y) = "del_sync"
BY DEF Entry

(* A caller that did not get PENDING tries again, waits for another        *)
(* canceler or gives up, and owns nothing the while.                       *)
LEMMA GoesBack ==
  ASSUME QInv, NEW c \in Caller, cpc[c] \in {"failed", "cond_lock"},
         Stay, UNCHANGED timerVars, UNCHANGED waitVars, NEW l, Goto(c, l),
         \/ l = Entry(op[c], tgt[c])
         \/ l = "cond_lock" /\ op[c] = "cancel_sync"
         \/ l = "cond_wait" /\ op[c] = "cancel_sync" /\ data[tgt[c]].canceling
         \/ l = "idle"
  PROVE  QInv'
<1>1. TypeC /\ Frame(c) /\ tgt[c] \in Work
  BY QParts, TargetFacts DEF CallerInv
<1>2. op[c] \in {"cancel_delayed_work", "cancel_sync"}
  BY <1>1 DEF Frame
<1>3. /\ l \in {"del", "test", "cond_lock", "cond_wait", "idle"}
      /\ l = "del" => tgt[c] \in DelayedWork
      /\ l \in {"cond_lock", "cond_wait"} => op[c] = "cancel_sync"
      /\ l = "cond_wait" => data[tgt[c]].canceling
  BY <1>2, EntryFacts
<1>4. l \in Stops
  BY <1>3 DEF Stops
<1>5. /\ cpc'[c] = l /\ tgt'[c] = (IF l = "idle" THEN None ELSE tgt[c])
      /\ l # "idle" => op'[c] = op[c]
  BY <1>1, <1>3, <1>4, GotoFacts
<1>6. Frame(c)'
  BY <1>1, <1>2, <1>3, <1>5, WorkFacts DEF Frame
<1> PICK x : x = tgt[c]
  OBVIOUS
<1>7. /\ Holds(c, x)' <=> Holds(c, x)
      /\ Cancels(c, x)' <=> Cancels(c, x)
  BY <1>1, <1>3, <1>5, WorkFacts DEF Holds, Owns, Cancels
<1>8. UNCHANGED <<done, awaits>>
  BY DEF waitVars
<1> QED
  BY <1>3, <1>4, <1>6, <1>7, <1>8, StaysQ

(* So __cancel_work() and __cancel_work_timer() keep the invariant when    *)
(* they found nothing to grab, ...                                         *)
LEMMA FailedQ ==
  ASSUME QInv, NEW c \in Caller, Failed(c)
  PROVE  QInv'
<1>1. PICK l : l = (IF ~Canceling(tgt[c]) THEN Entry(op[c], tgt[c])
                    ELSE IF op[c] = "cancel_sync" THEN "cond_lock" ELSE "idle") /\ Goto(c, l)
  BY DEF Failed
<1>2. cpc[c] = "failed" /\ Stay /\ UNCHANGED timerVars /\ UNCHANGED waitVars
  BY DEF Failed
<1> QED
  BY <1>1, <1>2, GoesBack

(* ... and when they test, under cancel_mutex, whether the other canceler  *)
(* is still there.                                                         *)
LEMMA CondWaitQ ==
  ASSUME QInv, NEW c \in Caller, CondWait(c)
  PROVE  QInv'
<1>1. PICK l : l = (IF Canceling(tgt[c]) THEN "cond_wait" ELSE Entry(op[c], tgt[c])) /\ Goto(c, l)
  BY DEF CondWait
<1>2. cpc[c] = "cond_lock" /\ Stay /\ UNCHANGED timerVars /\ UNCHANGED waitVars
  BY DEF CondWait
<1>3. op[c] = "cancel_sync"
  BY <1>2, QParts, TargetFacts DEF CallerInv, Frame
<1>4. l = "cond_wait" => data[tgt[c]].canceling \/ l = Entry(op[c], tgt[c])
  BY <1>1 DEF Canceling
<1> QED
  BY <1>1, <1>2, <1>3, <1>4, GoesBack

(* What a barrier's insertion does to the words.                           *)
LEMMA FlushWorkWords ==
  ASSUME TypeOK, CoreInv, NEW x \in Work, NEW b \in Barrier, FlushWork(x, b)
  PROVE  /\ UNCHANGED <<queueing, pc, current_work>>
         /\ \A y \in Item \ {b} : SameFlags(y) \/ (y = x /\ data'[y].linked)
         /\ \A y \in Item \ {b} : /\ data'[y].pending <=> data[y].pending
                                  /\ data'[y].canceling <=> data[y].canceling
                                  /\ data'[y].high = data[y].high
<1>1. UNCHANGED <<queueing, pc, current_work>>
  BY DEF FlushWork, InsertBarrier
<1>2. x \in Item /\ b \in Item /\ x # b /\ data \in [Item -> Word]
  BY ItemFacts, PoolAssumption DEF TypeOK
<1>3. CASE \E v : data' = [data EXCEPT ![b] = v]
  BY <1>1, <1>2, <1>3 DEF SameFlags
<1>4. CASE \E v : data' = [data EXCEPT ![b] = v, ![x].linked = TRUE]
  <2>1. PICK v : data' = [data EXCEPT ![b] = v, ![x].linked = TRUE]
    BY <1>4
  <2> PICK d1 : d1 = [data EXCEPT ![b] = v]
    OBVIOUS
  <2>2. \A y \in Item \ {b} : d1[y] = data[y]
    BY <1>2
  <2>3. data' = [d1 EXCEPT ![x] = [d1[x] EXCEPT !.linked = TRUE]] /\ DOMAIN d1 = Item
    BY <1>2, <2>1
  <2>4. /\ \A y \in Item \ {b, x} : data'[y] = data[y]
        /\ data'[x] = [data[x] EXCEPT !.linked = TRUE]
    BY <1>2, <2>2, <2>3
  <2>5. data[x] \in Word
    BY <1>2
  <2> QED BY <1>1, <1>2, <2>4, <2>5 DEF SameFlags, Word
<1> QED
  BY <1>1, <1>3, <1>4 DEF FlushWork, InsertBarrier, BarrierBehindTarget, BarrierAtWorker

(* flush_work() inserts its barrier and waits for it.                      *)
LEMMA InsertBarrierQ ==
  ASSUME QInv, NEW c \in Caller, cpc[c] = "flush_lock", InsertBarrier(tgt[c], c), Goto(c, "wait"),
         UNCHANGED timerVars, UNCHANGED done, awaits' \in [Caller -> {"none", "queued", "running"}]
  PROVE  QInv' /\ FlushWork(tgt[c], c)
<1>1. /\ TypeOK /\ TypeC /\ CoreInv /\ WorkBooks /\ CallerInv
      /\ Frame(c) /\ tgt[c] \in Work
  BY QParts, TargetFacts DEF CallerInv
<1> PICK x \in Work : x = tgt[c]
  BY <1>1
<1>2. ~done[c] /\ data[c].high \notin Pwq /\ \A w \in Worker : pc[w] = "exec" => current_work[w] # c
  BY <1>1 DEF CallerInv, BarrierQuiet, Quiet
<1>3. c \in Barrier /\ FlushWork(x, c)
  BY <1>2 DEF FlushWork, Caller
<1>4. CoreInv' /\ TypeOK'
  BY <1>1, <1>3, FlushWorkCore DEF CoreInv
<1>5. WorkBooks'
  BY <1>1, <1>3, <1>4, FlushWorkBooks DEF CoreInv, PoolCore
<1>6. UNCHANGED <<tmr, firing, dwq, arming>>
  BY DEF timerVars
<1>7. /\ UNCHANGED <<queueing, pc, current_work>>
      /\ \A y \in Item \ {c} : /\ data'[y].pending <=> data[y].pending
                               /\ data'[y].canceling <=> data[y].canceling
                               /\ data'[y].high = data[y].high
  BY <1>1, <1>3, FlushWorkWords
<1>8. \A y \in Work : SameOwners(y)
  BY <1>6, <1>7, WorkFacts DEF SameOwners, Queues, Arms, Ticks, Listed
<1> PICK l \in Stops : l = "wait"
  BY DEF Stops
<1>9. /\ Frame(c)'
      /\ Holds(c, x)' <=> Holds(c, x)
      /\ Cancels(c, x)' <=> Cancels(c, x)
  BY <1>1, FlushGoes
<1>10. SoleAt(x)' /\ CancelAt(x)'
  <2>1. SameHolders(x)
    BY <1>1, <1>9, OtherWorks DEF SameHolders
  <2>2. SoleAt(x) /\ CancelAt(x)
    BY <1>1, CancelingAs DEF CallerInv, Sole
  <2> QED BY <1>8, <2>1, <2>2, OwnersSame
<1>11. cpc'[c] = "wait" /\ \A d \in Caller : d # c => cpc'[d] = cpc[d]
  BY <1>1, GotoFacts
<1>12. BarrierQuiet'
  <2>1. ~done'[c] /\ \A w \in Worker : pc'[w] = "exec" => current_work'[w] # c
    BY <1>2, <1>7
  <2>2. Quiet(c)'
    BY <1>11, <2>1 DEF Quiet
  <2>3. \A d \in Caller : d # c => Quiet(d)'
    BY <1>1, <1>7, <1>11, WorkFacts DEF CallerInv, BarrierQuiet, Quiet
  <2> QED BY <2>2, <2>3 DEF BarrierQuiet
<1>13. CancelWaiterWoken'
  <2>1. \A y \in Work : data[y].canceling => data'[y].canceling
    BY <1>7, WorkFacts
  <2> QED BY <1>1, <2>1, CallerWoken DEF CallerInv
<1>14. /\ tmr' \in [DelayedWork -> BOOLEAN] /\ \A y \in DelayedWork : tmr'[y] => tmr[y]
       /\ done' \in [Caller -> BOOLEAN]
  BY <1>1, <1>6 DEF TypeC
<1>15. QInv'
  BY <1>1, <1>4, <1>5, <1>6, <1>8, <1>9, <1>10, <1>12, <1>13, <1>14, CallerQ
<1> QED
  BY <1>3, <1>15

(* start_flush_work() under the lock: the barrier goes in, or the work was *)
(* over.                                                                   *)
LEMMA FlushLockQ ==
  ASSUME QInv, NEW c \in Caller, FlushLock(c)
  PROVE  QInv'
<1>1. TypeC /\ Frame(c) /\ tgt[c] \in Work /\ cpc[c] = "flush_lock" /\ UNCHANGED timerVars
  BY QParts, TargetFacts DEF FlushLock, CallerInv
<1>2. CASE /\ InsertBarrier(tgt[c], c)
           /\ awaits' = [awaits EXCEPT ![c] = IF get_work_pool(tgt[c]) THEN "queued" ELSE "running"]
           /\ Goto(c, "wait") /\ UNCHANGED done
  <2>1. awaits' \in [Caller -> {"none", "queued", "running"}]
    BY <1>1, <1>2 DEF TypeC
  <2> QED BY <1>1, <1>2, <2>1, InsertBarrierQ
<1>3. CASE Goto(c, FlushReturns[c]) /\ Stay /\ UNCHANGED waitVars
  <2> PICK l : l = FlushReturns[c]
    OBVIOUS
  <2> PICK x : x = tgt[c]
    OBVIOUS
  <2>1. /\ l \in Stops /\ l \notin {"cond_wait", "broadcast"} /\ Frame(c)'
        /\ Holds(c, x)' <=> Holds(c, x)
        /\ Cancels(c, x)' <=> Cancels(c, x)
    BY <1>1, <1>3, FlushGoes
  <2>2. UNCHANGED done /\ UNCHANGED awaits
    BY <1>3 DEF waitVars
  <2> QED BY <1>1, <1>3, <2>1, <2>2, StaysQ
<1> QED
  BY <1>2, <1>3 DEF FlushLock

(* flush_delayed_work() takes PENDING from the timer it stops.             *)
LEMMA DelTimerSyncQ ==
  ASSUME QInv, NEW c \in Caller, DelTimerSync(c)
  PROVE  QInv'
<1>1. /\ TypeOK /\ TypeC /\ CoreInv /\ WorkBooks /\ CallerInv
      /\ Frame(c) /\ tgt[c] \in Work /\ cpc[c] = "del_sync"
  BY QParts, TargetFacts DEF DelTimerSync, CallerInv
<1> PICK x \in Work : x = tgt[c]
  BY <1>1
<1>2. /\ op[c] = "flush_delayed_work" /\ x \in DelayedWork
      /\ tmr \in [DelayedWork -> BOOLEAN] /\ queueing \in [Work -> Pwq \cup {None}]
  BY <1>1 DEF Frame, TypeC, TypeOK
<1>3. /\ tmr' = [tmr EXCEPT ![x] = FALSE]
      /\ UNCHANGED <<lock, state, listVars, scheduled, workerVars, firing, dwq, arming, waitVars>>
      /\ tmr[x] => queueing' = [queueing EXCEPT ![x] = dwq[x]] /\ Goto(c, "queue")
      /\ ~tmr[x] => Goto(c, "flush") /\ UNCHANGED queueing
  BY DEF DelTimerSync
<1>4. UNCHANGED <<data, PoolRest, pc, current_work, done, awaits>> /\ UNCHANGED done /\ UNCHANGED awaits
  BY <1>3 DEF listVars, workerVars, waitVars, PoolRest
<1>5. CASE ~tmr[x]
  <2>1. tmr' = tmr /\ Stay /\ UNCHANGED timerVars
    BY <1>2, <1>3, <1>5 DEF Stay, timerVars
  <2> PICK l \in Stops : l = "flush"
    BY DEF Stops
  <2>2. cpc'[c] = l /\ tgt'[c] = tgt[c] /\ op'[c] = "flush_work" /\ Goto(c, l)
    BY <1>1, <1>2, <1>3, <1>5, GotoFacts
  <2>3. Frame(c)'
    BY <1>1, <2>2, WorkFacts DEF Frame
  <2>4. /\ Holds(c, x)' <=> Holds(c, x)
        /\ Cancels(c, x)' <=> Cancels(c, x)
    BY <1>1, <1>2, <2>2 DEF Holds, Owns, Cancels
  <2> QED BY <1>1, <1>4, <2>1, <2>2, <2>3, <2>4, StaysQ
<1>6. CASE tmr[x]
  <2>1. dwq[x] \in Pwq /\ dwq[x] # None
    BY <1>1, <1>2, <1>6, HeadFacts DEF CallerInv, TimersReady
  <2>2. queueing' \in [Work -> Pwq \cup {None}] /\ queueing'[x] = dwq[x]
        /\ \A y \in Work : y # x => queueing'[y] = queueing[y]
    BY <1>2, <1>3, <1>6, <2>1
  <2>3. CoreInv' /\ WorkBooks'
    BY <1>1, <1>4, <2>2, QueueingStep
  <2> PICK l \in Stops : l = "queue"
    BY DEF Stops
  <2>4. cpc'[c] = l /\ tgt'[c] = tgt[c] /\ op'[c] = op[c] /\ Goto(c, l)
    BY <1>1, <1>3, <1>6, GotoFacts
  <2>5. Frame(c)'
    BY <1>1, <1>2, <2>4, WorkFacts DEF Frame
  <2>6. /\ ~tmr'[x] /\ \A y \in DelayedWork : y # x => (tmr'[y] <=> tmr[y])
        /\ tmr' \in [DelayedWork -> BOOLEAN]
    BY <1>2, <1>3
  <2>7. \A y \in Work : y # x => SameOwners(y)
    BY <1>3, <1>4, <2>2, <2>6 DEF SameOwners, Queues, Arms, Ticks, Listed
  <2>8. /\ ~Holds(c, x) /\ ~Holds(c, x)' /\ ~Cancels(c, x) /\ ~Cancels(c, x)'
        /\ \A d \in Caller : d # c => (Holds(d, x)' <=> Holds(d, x)) /\ (Cancels(d, x)' <=> Cancels(d, x))
    <3>1. ~Holds(c, x) /\ ~Holds(c, x)' /\ ~Cancels(c, x) /\ ~Cancels(c, x)'
      BY <1>1, <1>2, <2>4 DEF Holds, Owns, Cancels
    <3> QED BY <1>1, <2>4, <3>1, OtherWorks
  <2>9. SoleAt(x) /\ CancelAt(x)
    BY <1>1, CancelingAs DEF CallerInv, Sole
  <2>10. Ticks(x) /\ ~Ticks(x)' /\ Queues(x)' /\ (Arms(x)' <=> Arms(x)) /\ (Listed(x)' <=> Listed(x))
    BY <1>2, <1>3, <1>4, <1>6, <2>1, <2>2, <2>6 DEF Ticks, Queues, Arms, Listed
  <2>11. SoleAt(x)'
    BY <1>4, <2>8, <2>9, <2>10 DEF SoleAt
  <2>12. CancelAt(x)'
    BY <1>4, <2>8, <2>9 DEF CancelAt
  <2>13. BarrierQuiet' /\ CancelWaiterWoken'
    <3>1. BarrierQuiet'
      BY <1>1, <1>4, <2>4, CallerQuiet DEF CallerInv
    <3>2. CancelWaiterWoken'
      BY <1>1, <1>4, <2>4, CallerWoken DEF CallerInv
    <3> QED BY <3>1, <3>2
  <2>14. done' \in [Caller -> BOOLEAN] /\ awaits' \in [Caller -> {"none", "queued", "running"}]
    BY <1>1, <1>4 DEF TypeC
  <2>15. \A y \in DelayedWork : tmr'[y] => tmr[y]
    BY <2>6
  <2> QED
    BY <1>1, <1>3, <2>3, <2>4, <2>5, <2>6, <2>7, <2>11, <2>12, <2>13, <2>14, <2>15, CallerQ
<1> QED
  BY <1>2, <1>5, <1>6

(* ... and queues the work itself.                                         *)
LEMMA QueueNowQ ==
  ASSUME QInv, NEW c \in Caller, QueueNow(c)
  PROVE  QInv'
<1>1. /\ TypeOK /\ TypeC /\ CoreInv /\ WorkBooks /\ CallerInv
      /\ Frame(c) /\ tgt[c] \in Work /\ cpc[c] = "queue"
  BY QParts, TargetFacts DEF QueueNow, CallerInv
<1> PICK x \in Work : x = tgt[c]
  BY <1>1
<1>2. /\ op[c] = "flush_delayed_work" /\ QueueWork(x) /\ Goto(c, "flush")
      /\ UNCHANGED <<tmr, firing, dwq, arming, done, awaits>> /\ UNCHANGED done
  BY <1>1 DEF Frame, QueueNow, timerVars, waitVars
<1>3. CoreInv' /\ TypeOK'
  BY <1>1, <1>2, ClientCore DEF CoreInv
<1>4. WorkBooks'
  BY <1>1, <1>2, <1>3, QueueWorkBooks DEF CoreInv
<1>5. /\ UNCHANGED <<pc, current_work>>
      /\ \A d \in Caller : data'[d] = data[d]
      /\ \A y \in Work : data[y].canceling <=> data'[y].canceling
      /\ \A y \in Work : y # x => SameOwners(y)
      /\ ~data[x].canceling /\ ~data'[x].canceling
      /\ Queues(x) /\ ~Queues(x)' /\ Listed(x)' /\ data'[x].pending = TRUE
  BY <1>1, <1>2, <1>3, QueueWorkOwners
<1> PICK l \in Stops : l = "flush"
  BY DEF Stops
<1>6. cpc'[c] = l /\ tgt'[c] = tgt[c] /\ op'[c] = "flush_work" /\ Goto(c, l)
  BY <1>1, <1>2, GotoFacts
<1>7. Frame(c)'
  BY <1>1, <1>6, WorkFacts DEF Frame
<1>8. /\ ~Holds(c, x) /\ ~Holds(c, x)' /\ ~Cancels(c, x) /\ ~Cancels(c, x)'
      /\ \A d \in Caller : d # c => (Holds(d, x)' <=> Holds(d, x)) /\ (Cancels(d, x)' <=> Cancels(d, x))
  <2>1. ~Holds(c, x) /\ ~Holds(c, x)' /\ ~Cancels(c, x) /\ ~Cancels(c, x)'
    BY <1>1, <1>2, <1>6 DEF Holds, Owns, Cancels
  <2> QED BY <1>1, <1>6, <2>1, OtherWorks
<1>9. SoleAt(x) /\ CancelAt(x) /\ (Arms(x)' <=> Arms(x)) /\ (Ticks(x)' <=> Ticks(x))
  BY <1>1, <1>2, CancelingAs DEF CallerInv, Sole, Arms, Ticks
<1>10. SoleAt(x)'
  BY <1>5, <1>8, <1>9 DEF SoleAt
<1>11. CancelAt(x)'
  BY <1>5, <1>8, <1>9 DEF CancelAt
<1>12. BarrierQuiet'
  BY <1>1, <1>2, <1>5, <1>6, CallerQuiet DEF CallerInv
<1>13. CancelWaiterWoken'
  BY <1>1, <1>5, <1>6, CallerWoken DEF CallerInv
<1>14. /\ done' \in [Caller -> BOOLEAN] /\ awaits' \in [Caller -> {"none", "queued", "running"}]
       /\ tmr' \in [DelayedWork -> BOOLEAN] /\ \A y \in DelayedWork : tmr'[y] => tmr[y]
  BY <1>1, <1>2 DEF TypeC
<1> QED
  BY <1>1, <1>2, <1>3, <1>4, <1>5, <1>6, <1>7, <1>10, <1>11, <1>12, <1>13, <1>14, CallerQ

(* try_to_grab_pending() takes PENDING from the timer it stops, ...        *)
LEMMA DelTimerQ ==
  ASSUME QInv, NEW c \in Caller, DelTimer(c)
  PROVE  QInv'
<1>1. /\ TypeOK /\ TypeC /\ CoreInv /\ WorkBooks /\ CallerInv
      /\ Frame(c) /\ tgt[c] \in Work /\ cpc[c] = "del"
  BY QParts, TargetFacts DEF DelTimer, CallerInv
<1> PICK x \in Work : x = tgt[c]
  BY <1>1
<1>2. /\ op[c] \in {"cancel_delayed_work", "cancel_sync"} /\ x \in DelayedWork
      /\ tmr \in [DelayedWork -> BOOLEAN] /\ queueing \in [Work -> Pwq \cup {None}]
  BY <1>1 DEF Frame, TypeC, TypeOK
<1>3. /\ tmr[x] => tmr' = [tmr EXCEPT ![x] = FALSE] /\ Grabbed(c)
      /\ ~tmr[x] => Goto(c, "test") /\ UNCHANGED tmr
      /\ Stay /\ UNCHANGED <<firing, dwq, arming, waitVars>>
  BY DEF DelTimer
<1>4. UNCHANGED <<queueing, data, PoolRest, pc, current_work>> /\ UNCHANGED done /\ UNCHANGED awaits
  BY <1>3 DEF Stay, listVars, workerVars, waitVars, PoolRest
<1>5. CASE ~tmr[x]
  <2>1. UNCHANGED timerVars
    BY <1>3, <1>5 DEF timerVars
  <2> PICK l \in Stops : l = "test"
    BY DEF Stops
  <2>2. cpc'[c] = l /\ tgt'[c] = tgt[c] /\ op'[c] = op[c] /\ Goto(c, l)
    BY <1>1, <1>2, <1>3, <1>5, GotoFacts
  <2>3. Frame(c)'
    BY <1>1, <1>2, <2>2, WorkFacts DEF Frame
  <2>4. /\ Holds(c, x)' <=> Holds(c, x)
        /\ Cancels(c, x)' <=> Cancels(c, x)
    BY <1>1, <2>2 DEF Holds, Owns, Cancels
  <2> QED BY <1>1, <1>3, <1>4, <2>1, <2>2, <2>3, <2>4, StaysQ
<1>6. CASE tmr[x]
  <2>1. PICK l \in {"mark", "drop"} : Goto(c, l) /\ Frame(c)' /\ op'[c] = op[c]
    BY <1>1, <1>3, <1>6, GrabbedFacts
  <2>2. l \in Stops
    BY <2>1 DEF Stops
  <2>3. cpc'[c] = l /\ tgt'[c] = tgt[c]
    BY <1>1, <2>1, <2>2, GotoFacts
  <2>4. CoreInv' /\ WorkBooks'
    <3>1. queueing' \in [Work -> Pwq \cup {None}]
      BY <1>2, <1>4
    <3> QED BY <1>1, <1>4, <3>1, QueueingStep
  <2>5. /\ ~tmr'[x] /\ \A y \in DelayedWork : y # x => (tmr'[y] <=> tmr[y])
        /\ tmr' \in [DelayedWork -> BOOLEAN]
    BY <1>2, <1>3, <1>6
  <2>6. \A y \in Work : y # x => SameOwners(y)
    BY <1>3, <1>4, <2>5 DEF SameOwners, Queues, Arms, Ticks, Listed
  <2>7. /\ ~Holds(c, x) /\ Holds(c, x)' /\ ~Cancels(c, x) /\ ~Cancels(c, x)'
        /\ \A d \in Caller : d # c => (Holds(d, x)' <=> Holds(d, x)) /\ (Cancels(d, x)' <=> Cancels(d, x))
    <3>1. ~Holds(c, x) /\ Holds(c, x)' /\ ~Cancels(c, x) /\ ~Cancels(c, x)'
      BY <1>1, <2>1, <2>3 DEF Holds, Owns, Cancels
    <3> QED BY <1>1, <2>1, <2>2, <3>1, OtherWorks
  <2>8. SoleAt(x) /\ CancelAt(x)
    BY <1>1, CancelingAs DEF CallerInv, Sole
  <2>9. Ticks(x) /\ ~Ticks(x)' /\ (Queues(x)' <=> Queues(x)) /\ (Arms(x)' <=> Arms(x)) /\ (Listed(x)' <=> Listed(x))
    BY <1>2, <1>3, <1>4, <1>6, <2>5 DEF Ticks, Queues, Arms, Listed
  <2>10. SoleAt(x)'
    BY <1>4, <2>7, <2>8, <2>9 DEF SoleAt
  <2>11. CancelAt(x)'
    BY <1>4, <2>7, <2>8 DEF CancelAt
  <2>12. BarrierQuiet' /\ CancelWaiterWoken'
    <3>1. BarrierQuiet'
      BY <1>1, <1>4, <2>1, <2>2, CallerQuiet DEF CallerInv
    <3>2. CancelWaiterWoken'
      BY <1>1, <1>4, <2>1, <2>2, CallerWoken DEF CallerInv
    <3> QED BY <3>1, <3>2
  <2>13. /\ done' \in [Caller -> BOOLEAN] /\ awaits' \in [Caller -> {"none", "queued", "running"}]
         /\ \A y \in DelayedWork : tmr'[y] => tmr[y]
    BY <1>1, <1>4, <2>5 DEF TypeC
  <2> QED
    BY <1>1, <1>3, <2>1, <2>2, <2>4, <2>5, <2>6, <2>10, <2>11, <2>12, <2>13, CallerQ
<1> QED
  BY <1>2, <1>5, <1>6

(* A caller's step that changes the word of its work, which is on no list  *)
(* or gets PENDING.                                                        *)
LEMMA WordQ ==
  ASSUME QInv, NEW c \in Caller, cpc[c] \notin {"idle", "wait", "broadcast"},
         NEW x \in Work, x = tgt[c], NEW l \in Stops \ {"cond_wait"}, Goto(c, l), Frame(c)',
         NEW word \in Word, data' = [data EXCEPT ![x] = word],
         \/ word = [data[x] EXCEPT !.pending = TRUE]
         \/ data[x].high \notin Pwq /\ word.high \notin Pwq,
         UNCHANGED <<queueing, PoolRest>>, UNCHANGED timerVars, UNCHANGED waitVars,
         l = "broadcast" \/ (data[x].canceling => word.canceling),
         SoleAt(x)', CancelAt(x)'
  PROVE  QInv'
<1>1. TypeOK /\ TypeC /\ CoreInv /\ WorkBooks /\ CallerInv
  BY QParts
<1>2. CoreInv' /\ WorkBooks'
  BY <1>1, WordStep
<1>3. /\ data'[x] = word /\ \A i \in Item : i # x => data'[i] = data[i]
      /\ \A d \in Caller : data'[d] = data[d]
  BY <1>1, WordChange
<1>4. UNCHANGED <<tmr, firing, dwq, arming, pc, current_work, done, awaits>>
  BY DEF timerVars, PoolRest, workerVars, waitVars
<1>5. \A y \in Work : y # x => SameOwners(y)
  BY <1>3, <1>4, WorkFacts DEF SameOwners, Queues, Arms, Ticks, Listed
<1>6. BarrierQuiet'
  BY <1>1, <1>3, <1>4, CallerQuiet DEF CallerInv
<1>7. CancelWaiterWoken'
  <2>1. CASE l = "broadcast"
    BY <1>1, <2>1, GotoFacts DEF CancelWaiterWoken
  <2>2. CASE data[x].canceling => word.canceling
    <3>1. \A y \in Work : data[y].canceling => data'[y].canceling
      BY <1>3, <2>2, WorkFacts
    <3> QED BY <1>1, <3>1, CallerWoken DEF CallerInv
  <2> QED BY <2>1, <2>2
<1>8. /\ done' \in [Caller -> BOOLEAN] /\ awaits' \in [Caller -> {"none", "queued", "running"}]
      /\ tmr' \in [DelayedWork -> BOOLEAN] /\ \A y \in DelayedWork : tmr'[y] => tmr[y]
  BY <1>1, <1>4 DEF TypeC
<1> QED
  BY <1>2, <1>4, <1>5, <1>6, <1>7, <1>8, CallerQ

(* ... or from nobody, ...                                                 *)
LEMMA TestAndSetQ ==
  ASSUME QInv, NEW c \in Caller, TestAndSet(c)
  PROVE  QInv'
<1>1. /\ TypeOK /\ TypeC /\ CoreInv /\ WorkBooks /\ CallerInv
      /\ Frame(c) /\ tgt[c] \in Work /\ cpc[c] = "test"
  BY QParts, TargetFacts DEF TestAndSet, CallerInv
<1> PICK x \in Work : x = tgt[c]
  BY <1>1
<1> PICK word : word = [data[x] EXCEPT !.pending = TRUE]
  OBVIOUS
<1>2. /\ op[c] \in {"cancel_delayed_work", "cancel_sync"} /\ data[x] \in Word
  BY <1>1, WorkFacts DEF Frame, TypeOK
<1>3. /\ data[x].pending => Goto(c, "pool")
      /\ ~data[x].pending => Grabbed(c)
      /\ data' = [data EXCEPT ![x] = word] /\ UNCHANGED <<queueing, PoolRest>>
      /\ UNCHANGED timerVars /\ UNCHANGED waitVars
  BY DEF TestAndSet, PoolRest
<1>4. /\ word \in Word /\ word.pending = TRUE /\ (word.canceling <=> data[x].canceling) /\ word.high = data[x].high
      /\ data'[x] = word
  BY <1>1, <1>2, <1>3, WordChange DEF Word
<1>5. /\ SoleAt(x) /\ CancelAt(x) /\ (Queues(x)' <=> Queues(x)) /\ (Arms(x)' <=> Arms(x))
      /\ (Ticks(x)' <=> Ticks(x)) /\ (Listed(x)' <=> Listed(x))
  BY <1>1, <1>3, <1>4, CancelingAs DEF CallerInv, Sole, timerVars, Queues, Arms, Ticks, Listed
<1>6. CASE data[x].pending
  <2> PICK l \in Stops \ {"cond_wait"} : l = "pool"
    BY DEF Stops
  <2>1. cpc'[c] = l /\ tgt'[c] = tgt[c] /\ op'[c] = op[c] /\ Goto(c, l)
    BY <1>1, <1>3, <1>6, GotoFacts
  <2>2. Frame(c)'
    BY <1>1, <1>2, <2>1, WorkFacts DEF Frame
  <2>3. SameHolders(x)
    <3>1. /\ Holds(c, x)' <=> Holds(c, x)
          /\ Cancels(c, x)' <=> Cancels(c, x)
      BY <1>1, <2>1 DEF Holds, Owns, Cancels
    <3> QED BY <1>1, <2>1, <3>1, OtherWorks DEF SameHolders
  <2>4. SoleAt(x)' /\ CancelAt(x)'
    <3>1. SameOwners(x)
      BY <1>4, <1>5, <1>6 DEF SameOwners
    <3> QED BY <1>5, <2>3, <3>1, OwnersSame
  <2> QED BY <1>1, <1>3, <1>4, <2>1, <2>2, <2>4, WordQ
<1>7. CASE ~data[x].pending
  <2>1. PICK l \in {"mark", "drop"} : Goto(c, l) /\ Frame(c)' /\ op'[c] = op[c]
    BY <1>1, <1>3, <1>7, GrabbedFacts
  <2>2. l \in Stops \ {"cond_wait"} /\ l # "broadcast"
    BY <2>1 DEF Stops
  <2>3. cpc'[c] = l /\ tgt'[c] = tgt[c]
    BY <1>1, <2>1, <2>2, GotoFacts
  <2>4. /\ ~Holds(c, x) /\ Holds(c, x)' /\ ~Cancels(c, x) /\ ~Cancels(c, x)'
        /\ \A d \in Caller : d # c => (Holds(d, x)' <=> Holds(d, x)) /\ (Cancels(d, x)' <=> Cancels(d, x))
    <3>1. ~Holds(c, x) /\ Holds(c, x)' /\ ~Cancels(c, x) /\ ~Cancels(c, x)'
      BY <1>1, <2>1, <2>3 DEF Holds, Owns, Cancels
    <3> QED BY <1>1, <2>1, <2>2, <3>1, OtherWorks
  <2>5. SoleAt(x)'
    BY <1>4, <1>5, <1>7, <2>4 DEF SoleAt
  <2>6. CancelAt(x)'
    BY <1>4, <1>5, <2>4 DEF CancelAt
  <2> QED BY <1>1, <1>3, <1>4, <2>1, <2>2, <2>5, <2>6, WordQ
<1> QED
  BY <1>6, <1>7

(* Who holds PENDING is alone with it, and the work is on no list.         *)
LEMMA HolderFacts ==
  ASSUME TypeOK, NEW x \in Work, SoleAt(x), CancelAt(x), NEW c \in Caller, Holds(c, x)
  PROVE  /\ data[x].pending /\ data[x].high \in {PoolId, PoolNone} /\ data[x].high \notin Pwq
         /\ ~Queues(x) /\ ~Arms(x) /\ ~Ticks(x) /\ ~Listed(x)
         /\ \A d \in Caller : d # c => ~Holds(d, x) /\ ~Cancels(d, x)
<1>1. \A d \in Caller : Cancels(d, x) => Holds(d, x)
  BY DEF Cancels, Holds, Owns
<1>2. /\ data[x].pending /\ ~Queues(x) /\ ~Arms(x) /\ ~Ticks(x) /\ ~Listed(x)
      /\ \A d \in Caller : d # c => ~Holds(d, x) /\ ~Cancels(d, x)
  BY <1>1 DEF SoleAt
<1>3. data[x].high \in Pwq \cup {PoolId, PoolNone}
  BY WorkFacts DEF TypeOK, Word
<1> QED BY <1>2, <1>3 DEF Listed

(* The holder writes the word: PENDING is given up, or stays with it.      *)
LEMMA HolderQ ==
  ASSUME QInv, NEW c \in Caller, cpc[c] \in {"drop", "mark", "clear"},
         NEW x \in Work, x = tgt[c], NEW l \in Stops \ {"cond_wait"}, Goto(c, l), Frame(c)',
         NEW word \in Word, data' = [data EXCEPT ![x] = word], word.high \notin Pwq,
         UNCHANGED <<queueing, PoolRest>>, UNCHANGED timerVars, UNCHANGED waitVars,
         l = "broadcast" \/ (data[x].canceling => word.canceling),
         word.pending <=> Holds(c, x)', word.canceling <=> Cancels(c, x)'
  PROVE  QInv'
<1>1. /\ TypeOK /\ TypeC /\ CoreInv /\ WorkBooks /\ CallerInv
  BY QParts
<1>2. SoleAt(x) /\ CancelAt(x) /\ Holds(c, x)
  BY <1>1, CancelingAs DEF CallerInv, Sole, Holds, Owns
<1>3. /\ data[x].pending /\ data[x].high \notin Pwq
      /\ ~Queues(x) /\ ~Arms(x) /\ ~Ticks(x) /\ ~Listed(x)
      /\ \A d \in Caller : d # c => ~Holds(d, x) /\ ~Cancels(d, x)
  BY <1>1, <1>2, HolderFacts
<1>4. data'[x] = word
  BY ZenonT(40), <1>1, WordChange
<1>5. ~Queues(x)' /\ ~Arms(x)' /\ ~Ticks(x)' /\ ~Listed(x)'
  BY <1>3, <1>4 DEF Queues, Arms, Ticks, Listed, timerVars
<1>6. \A d \in Caller : d # c => ~Holds(d, x)' /\ ~Cancels(d, x)'
  BY <1>1, <1>3, OtherWorks
<1>7. SoleAt(x)'
  BY <1>4, <1>5, <1>6 DEF SoleAt
<1>8. CancelAt(x)'
  BY <1>4, <1>6 DEF CancelAt
<1> QED
  BY <1>3, <1>7, <1>8, WordQ

(* __cancel_work() gives PENDING up.                                       *)
LEMMA DropQ ==
  ASSUME QInv, NEW c \in Caller, Drop(c)
  PROVE  QInv'
<1>1. /\ TypeOK /\ TypeC /\ CoreInv /\ WorkBooks /\ CallerInv
      /\ Frame(c) /\ tgt[c] \in Work /\ cpc[c] = "drop"
  BY QParts, TargetFacts DEF Drop, CallerInv
<1> PICK x \in Work : x = tgt[c]
  BY <1>1
<1> PICK word : word = OffQueue(data[x].high, FALSE)
  OBVIOUS
<1>2. SoleAt(x) /\ CancelAt(x) /\ Holds(c, x) /\ ~Cancels(c, x)
  BY <1>1, CancelingAs DEF CallerInv, Sole, Holds, Owns, Cancels
<1>3. data[x].high \in {PoolId, PoolNone} /\ data[x].high \notin Pwq /\ ~data[x].canceling
  BY <1>1, <1>2, HolderFacts, Uncanceled
<1>4. word \in Word /\ word.high \notin Pwq /\ word.pending = FALSE /\ word.canceling = FALSE
  BY <1>3 DEF OffQueue, WorkDataInit, Word
<1>5. /\ data' = [data EXCEPT ![x] = word] /\ Goto(c, "idle") /\ UNCHANGED <<queueing, PoolRest>>
      /\ UNCHANGED timerVars /\ UNCHANGED waitVars
  BY DEF Drop, PoolRest
<1> PICK l \in Stops \ {"cond_wait"} : l = "idle"
  BY DEF Stops
<1>6. cpc'[c] = l /\ tgt'[c] = None /\ Goto(c, l)
  BY <1>1, <1>5, GotoFacts
<1>7. Frame(c)' /\ ~Holds(c, x)' /\ ~Cancels(c, x)'
  BY <1>6, NoneFacts, WorkFacts DEF Frame, Holds, Cancels
<1> QED
  BY <1>1, <1>3, <1>4, <1>5, <1>6, <1>7, HolderQ

(* __cancel_work_timer() marks the work, and clears its word in the end.   *)
LEMMA MarkQ ==
  ASSUME QInv, NEW c \in Caller, Mark(c)
  PROVE  QInv'
<1>1. /\ TypeOK /\ TypeC /\ CoreInv /\ WorkBooks /\ CallerInv
      /\ Frame(c) /\ tgt[c] \in Work /\ cpc[c] = "mark"
  BY QParts, TargetFacts DEF Mark, CallerInv
<1> PICK x \in Work : x = tgt[c]
  BY <1>1
<1> PICK word : word = [OffQueue(data[x].high, TRUE) EXCEPT !.canceling = TRUE]
  OBVIOUS
<1>2. SoleAt(x) /\ CancelAt(x) /\ Holds(c, x) /\ op[c] = "cancel_sync"
  BY <1>1, CancelingAs DEF CallerInv, Sole, Holds, Owns, Frame
<1>3. data[x].high \in {PoolId, PoolNone} /\ data[x].high \notin Pwq
  BY <1>1, <1>2, HolderFacts
<1>4. word \in Word /\ word.high \notin Pwq /\ word.pending = TRUE /\ word.canceling = TRUE
  BY <1>3 DEF OffQueue, WorkDataInit, Word
<1>5. /\ data' = [data EXCEPT ![x] = word] /\ Goto(c, "flush") /\ UNCHANGED <<queueing, PoolRest>>
      /\ UNCHANGED timerVars /\ UNCHANGED waitVars
  BY DEF Mark, PoolRest
<1> PICK l \in Stops \ {"cond_wait"} : l = "flush"
  BY DEF Stops
<1>6. cpc'[c] = l /\ tgt'[c] = tgt[c] /\ op'[c] = op[c] /\ Goto(c, l)
  BY <1>1, <1>2, <1>5, GotoFacts
<1>7. Frame(c)' /\ Holds(c, x)' /\ Cancels(c, x)'
  BY <1>1, <1>2, <1>6, NoneFacts, WorkFacts DEF Frame, Holds, Owns, Cancels
<1> QED
  BY <1>1, <1>3, <1>4, <1>5, <1>6, <1>7, HolderQ

(* clear_work_data(): the canceler gives up PENDING and CANCELING at once. *)
LEMMA ClearQ ==
  ASSUME QInv, NEW c \in Caller, Clear(c)
  PROVE  QInv'
<1>1. /\ TypeOK /\ TypeC /\ CoreInv /\ WorkBooks /\ CallerInv
      /\ Frame(c) /\ tgt[c] \in Work /\ cpc[c] = "clear"
  BY QParts, TargetFacts DEF Clear, CallerInv
<1> PICK x \in Work : x = tgt[c]
  BY <1>1
<1> PICK word : word = WorkDataInit
  OBVIOUS
<1>2. /\ word \in Word /\ word.high \notin Pwq /\ word.pending = FALSE /\ word.canceling = FALSE
      /\ op[c] = "cancel_sync"
  BY <1>1, HeadFacts DEF WorkDataInit, Word, Frame
<1>3. /\ data' = [data EXCEPT ![x] = word] /\ Goto(c, "broadcast") /\ UNCHANGED <<queueing, PoolRest>>
      /\ UNCHANGED timerVars /\ UNCHANGED waitVars
  BY DEF Clear, PoolRest
<1> PICK l \in Stops \ {"cond_wait"} : l = "broadcast"
  BY DEF Stops
<1>4. cpc'[c] = l /\ tgt'[c] = tgt[c] /\ op'[c] = op[c] /\ Goto(c, l)
  BY <1>1, <1>3, GotoFacts
<1>5. Frame(c)' /\ ~Holds(c, x)' /\ ~Cancels(c, x)'
  BY <1>1, <1>2, <1>4, WorkFacts DEF Frame, Holds, Owns, Cancels
<1> QED
  BY <1>1, <1>2, <1>3, <1>4, <1>5, HolderQ

(* A step of callers only, none of which holds or cancels anything before  *)
(* or after.                                                               *)
LEMMA FreeMovesQ ==
  ASSUME QInv, Stay, UNCHANGED timerVars, UNCHANGED waitVars,
         cpc' \in [Caller -> Stops], op' \in [Caller -> Ops \cup {"flush_work", None}],
         tgt' \in [Caller -> Work \cup {None}],
         \A d \in Caller : \/ cpc'[d] = cpc[d] /\ op'[d] = op[d] /\ tgt'[d] = tgt[d]
                           \/ /\ Frame(d)' /\ cpc[d] # "wait"
                              /\ \A y \in Work : ~Holds(d, y) /\ ~Cancels(d, y) /\ ~Holds(d, y)' /\ ~Cancels(d, y)',
         CancelWaiterWoken'
  PROVE  QInv'
<1>1. TypeOK /\ TypeC /\ CoreInv /\ WorkBooks /\ CallerInv
  BY QParts
<1>2. UNCHANGED <<queueing, data, PoolRest, pc, current_work, tmr, firing, dwq, arming, done, awaits>>
  BY DEF Stay, PoolRest, listVars, workerVars, timerVars, waitVars
<1>3. CoreInv' /\ WorkBooks' /\ TypeOK'
  <2>1. queueing' \in [Work -> Pwq \cup {None}]
    BY <1>1, <1>2 DEF TypeOK
  <2> QED BY <1>1, <1>2, <2>1, QueueingStep DEF CoreInv
<1>4. TypeC'
  BY <1>1, <1>2 DEF TypeC
<1>5. \A y \in Work : SameOwners(y)
  BY <1>2 DEF SameOwners, Queues, Arms, Ticks, Listed
<1>6. \A d \in Caller : cpc'[d] = cpc[d] /\ op'[d] = op[d] /\ tgt'[d] = tgt[d] =>
        \A y \in Work : (Holds(d, y)' <=> Holds(d, y)) /\ (Cancels(d, y)' <=> Cancels(d, y))
  BY DEF Holds, Owns, Cancels
<1>7. \A y \in Work : SameHolders(y)
  <2> SUFFICES ASSUME NEW y \in Work, NEW d \in Caller
               PROVE  (Holds(d, y)' <=> Holds(d, y)) /\ (Cancels(d, y)' <=> Cancels(d, y))
    BY DEF SameHolders
  <2> QED BY <1>6
<1>8. \A y \in Work : SoleAt(y)' /\ CancelAt(y)'
  <2>1. \A y \in Work : SoleAt(y) /\ CancelAt(y)
    BY <1>1, CancelingAs DEF CallerInv, Sole
  <2> QED BY <1>5, <1>7, <2>1, OwnersSame
<1>9. Sole' /\ CancelingExact'
  BY <1>8, CancelingAs DEF Sole
<1>10. Frames'
  <2> SUFFICES ASSUME NEW d \in Caller PROVE Frame(d)'
    BY DEF Frames
  <2>1. Frame(d)
    BY <1>1 DEF CallerInv, Frames
  <2>2. cpc'[d] = cpc[d] /\ op'[d] = op[d] /\ tgt'[d] = tgt[d] => Frame(d)'
    BY <2>1 DEF Frame
  <2> QED BY <2>2
<1>11. BarrierQuiet'
  BY <1>1, <1>2, QuietKept DEF CallerInv
<1>12. TimersReady'
  BY <1>1, <1>2 DEF CallerInv, TimersReady
<1> QED
  BY <1>3, <1>4, <1>9, <1>10, <1>11, <1>12, QParts DEF CallerInv

(* Those that waited for a cancel to end start again.                      *)
LEMMA BroadcastQ ==
  ASSUME QInv, NEW c \in Caller, Broadcast(c)
  PROVE  QInv'
<1>1. /\ TypeOK /\ TypeC /\ CallerInv /\ cpc[c] = "broadcast"
  BY QParts DEF Broadcast
<1>2. /\ cpc' = [d \in Caller |-> IF d = c THEN "idle"
                                  ELSE IF cpc[d] = "cond_wait" THEN Entry(op[d], tgt[d])
                                  ELSE cpc[d]]
      /\ op' = [op EXCEPT ![c] = None] /\ tgt' = [tgt EXCEPT ![c] = None]
      /\ Stay /\ UNCHANGED timerVars /\ UNCHANGED waitVars
  BY DEF Broadcast
<1>3. /\ cpc'[c] = "idle" /\ tgt'[c] = None
      /\ op' \in [Caller -> Ops \cup {"flush_work", None}] /\ tgt' \in [Caller -> Work \cup {None}]
      /\ \A d \in Caller : d # c => op'[d] = op[d] /\ tgt'[d] = tgt[d]
  BY <1>1, <1>2 DEF TypeC
<1>4. ASSUME NEW d \in Caller, d # c, cpc[d] = "cond_wait"
      PROVE  /\ cpc'[d] \in {"del", "test"} /\ Frame(d)'
             /\ \A y \in Work : ~Holds(d, y) /\ ~Cancels(d, y) /\ ~Holds(d, y)' /\ ~Cancels(d, y)'
  <2>1. op[d] = "cancel_sync" /\ tgt[d] \in Work
    BY <1>1, <1>4, TargetFacts DEF CallerInv, Frame
  <2>2. cpc'[d] = IF tgt[d] \in DelayedWork THEN "del" ELSE "test"
    BY <1>2, <1>4, <2>1, EntryFacts
  <2>3. Frame(d)'
    BY <1>3, <1>4, <2>1, <2>2, WorkFacts DEF Frame
  <2>4. \A y \in Work : ~Holds(d, y) /\ ~Cancels(d, y) /\ ~Holds(d, y)' /\ ~Cancels(d, y)'
    BY <1>3, <1>4, <2>2 DEF Holds, Owns, Cancels
  <2> QED BY <2>2, <2>3, <2>4
<1>5. /\ Frame(c)'
      /\ \A y \in Work : ~Holds(c, y) /\ ~Cancels(c, y) /\ ~Holds(c, y)' /\ ~Cancels(c, y)'
  BY <1>1, <1>3, WorkFacts DEF Frame, Holds, Owns, Cancels
<1>6. \A d \in Caller : \/ cpc'[d] = cpc[d] /\ op'[d] = op[d] /\ tgt'[d] = tgt[d]
                        \/ /\ Frame(d)' /\ cpc[d] # "wait"
                           /\ \A y \in Work : ~Holds(d, y) /\ ~Cancels(d, y) /\ ~Holds(d, y)' /\ ~Cancels(d, y)'
  <2> SUFFICES ASSUME NEW d \in Caller
               PROVE  \/ cpc'[d] = cpc[d] /\ op'[d] = op[d] /\ tgt'[d] = tgt[d]
                      \/ /\ Frame(d)' /\ cpc[d] # "wait"
                         /\ \A y \in Work : ~Holds(d, y) /\ ~Cancels(d, y) /\ ~Holds(d, y)' /\ ~Cancels(d, y)'
    OBVIOUS
  <2>1. CASE d = c
    BY <1>1, <1>5, <2>1
  <2>2. CASE d # c /\ cpc[d] = "cond_wait"
    BY <1>4, <2>2
  <2>3. CASE d # c /\ cpc[d] # "cond_wait"
    BY <1>2, <1>3, <2>3
  <2> QED BY <2>1, <2>2, <2>3
<1>7. cpc' \in [Caller -> Stops]
  <2>1. \A d \in Caller : cpc'[d] \in Stops
    <3> SUFFICES ASSUME NEW d \in Caller PROVE cpc'[d] \in Stops
      OBVIOUS
    <3>1. CASE d = c
      BY <1>3, <3>1 DEF Stops
    <3>2. CASE d # c /\ cpc[d] = "cond_wait"
      BY <1>4, <3>2 DEF Stops
    <3>3. CASE d # c /\ cpc[d] # "cond_wait"
      BY <1>1, <1>2, <3>3 DEF TypeC
    <3> QED BY <3>1, <3>2, <3>3
  <2> QED BY <1>2, <2>1
<1>8. CancelWaiterWoken'
  <2>1. \A d \in Caller : cpc'[d] # "cond_wait"
    <3> SUFFICES ASSUME NEW d \in Caller PROVE cpc'[d] # "cond_wait"
      OBVIOUS
    <3>1. CASE d # c /\ cpc[d] = "cond_wait"
      BY <1>4, <3>1
    <3>2. CASE d = c \/ cpc[d] # "cond_wait"
      BY <1>2, <3>2
    <3> QED BY <3>1, <3>2
  <2> QED BY <2>1 DEF CancelWaiterWoken
<1> QED
  BY <1>2, <1>3, <1>6, <1>7, <1>8, FreeMovesQ

(* A thread calls one of the functions.                                    *)
LEMMA CallQ ==
  ASSUME QInv, NEW c \in Caller, Call(c)
  PROVE  QInv'
<1>1. /\ TypeOK /\ TypeC /\ CallerInv /\ cpc[c] = "idle" /\ tgt[c] = None
  BY QParts DEF Call, CallerInv, Frames, Frame
<1>2. PICK o \in Ops, x \in Work :
        /\ o \in {"flush_delayed_work", "cancel_delayed_work"} => x \in DelayedWork
        /\ op' = [op EXCEPT ![c] = o]
        /\ tgt' = [tgt EXCEPT ![c] = x]
        /\ cpc' = [cpc EXCEPT ![c] = Entry(o, x)]
  BY DEF Call
<1>3. Stay /\ UNCHANGED timerVars /\ UNCHANGED waitVars
  BY DEF Call
<1>4. o \in {"flush_work", "flush_delayed_work", "cancel_delayed_work", "cancel_sync"}
  BY QueueAssumption
<1>5. /\ op'[c] = o /\ tgt'[c] = x /\ cpc'[c] = Entry(o, x)
      /\ op' \in [Caller -> Ops \cup {"flush_work", None}] /\ tgt' \in [Caller -> Work \cup {None}]
      /\ \A d \in Caller : d # c => cpc'[d] = cpc[d] /\ op'[d] = op[d] /\ tgt'[d] = tgt[d]
  BY <1>1, <1>2 DEF TypeC
<1> PICK l : l = Entry(o, x)
  OBVIOUS
<1>6. /\ l \in {"flush", "del_sync", "del", "test"}
      /\ l = "flush" => o = "flush_work"
      /\ l = "del_sync" => o = "flush_delayed_work"
      /\ l \in {"del", "test"} => o \in {"cancel_delayed_work", "cancel_sync"}
      /\ l \in {"del_sync", "del"} => x \in DelayedWork
  BY <1>2, <1>4 DEF Entry
<1>7. cpc' \in [Caller -> Stops]
  BY <1>1, <1>2, <1>6 DEF TypeC, Stops
<1>8. Frame(c)'
  BY <1>5, <1>6, WorkFacts DEF Frame
<1>9. \A y \in Work : ~Holds(c, y) /\ ~Cancels(c, y) /\ ~Holds(c, y)' /\ ~Cancels(c, y)'
  <2>1. o = "cancel_sync" => l # "flush"
    BY <1>6
  <2> QED BY <1>1, <1>5, <1>6, <2>1, WorkFacts DEF Holds, Owns, Cancels
<1>10. CancelWaiterWoken'
  <2>1. UNCHANGED data
    BY <1>3 DEF Stay, listVars
  <2> SUFFICES ASSUME NEW d \in Caller, cpc'[d] = "cond_wait"
               PROVE  data'[tgt'[d]].canceling \/ \E e \in Caller : cpc'[e] = "broadcast"
    BY DEF CancelWaiterWoken
  <2>2. d # c /\ cpc[d] = "cond_wait" /\ tgt'[d] = tgt[d]
    BY <1>5, <1>6
  <2>3. data[tgt[d]].canceling \/ \E e \in Caller : cpc[e] = "broadcast"
    BY <1>1, <2>2 DEF CallerInv, CancelWaiterWoken
  <2>4. \A e \in Caller : cpc[e] = "broadcast" => cpc'[e] = "broadcast"
    BY <1>1, <1>5
  <2> QED BY <2>1, <2>2, <2>3, <2>4
<1> QED
  BY <1>1, <1>3, <1>5, <1>7, <1>8, <1>9, <1>10, FreeMovesQ
-----------------------------------------------------------------------------
(* try_to_grab_pending() takes a work off its list                         *)

(* t is the part of s that begins behind the first m items.                *)
PartOf(t, s, m) == \A i \in 1 .. Len(t) : t[i] = s[m + i]

(* A part of a sequence, cut out with SubSeq.                              *)
LEMMA CutOut ==
  ASSUME NEW s \in Seq(Item), NEW m \in Nat, NEW n \in Nat, m <= n, n <= Len(s)
  PROVE  /\ SubSeq(s, m + 1, n) \in Seq(Item) /\ Len(SubSeq(s, m + 1, n)) = n - m
         /\ PartOf(SubSeq(s, m + 1, n), s, m)
<1> PICK l : l = m + 1
  OBVIOUS
<1>1. l \in Nat \ {0} /\ n \in Int /\ n - l + 1 = n - m /\ (l <= n \/ n - m = 0)
  OBVIOUS
<1>2. /\ SubSeq(s, l, n) \in Seq(Item)
      /\ Len(SubSeq(s, l, n)) = IF l <= n THEN n - l + 1 ELSE 0
      /\ \A i \in 1 .. n - l + 1 : SubSeq(s, l, n)[i] = s[l + i - 1]
  BY <1>1, SubSeqType
<1>3. Len(SubSeq(s, l, n)) = n - m
  BY <1>1, <1>2
<1>4. \A i \in 1 .. n - m : l + i - 1 = m + i
  BY <1>1
<1>5. \A i \in 1 .. n - m : SubSeq(s, l, n)[i] = s[m + i]
  BY <1>1, <1>2, <1>4
<1> QED
  BY <1>2, <1>3, <1>5 DEF PartOf

(* A slice C from the middle of s, with F before and R after it, goes      *)
(* behind wl; t is s from place m on.                                      *)
Sliced(s, t, F, C, R, m, n) ==
  /\ s \in Seq(Item) /\ t \in Seq(Item) /\ F \in Seq(Item) /\ C \in Seq(Item) /\ R \in Seq(Item)
  /\ m \in Nat /\ n \in Nat /\ Len(t) = Len(s) - m
  /\ Len(F) = m /\ Len(C) = n /\ Len(R) = Len(t) - n
  /\ PartOf(F, s, 0) /\ PartOf(t, s, m) /\ PartOf(C, t, 0) /\ PartOf(R, t, n)

(* Where the items of the slice, and the others, are then.                 *)
LEMMA Joined ==
  ASSUME NEW s, NEW wl \in Seq(Item), NEW t, NEW F, NEW C, NEW R, NEW m, NEW n,
         Sliced(s, t, F, C, R, m, n)
  PROVE  /\ Len(F \o R) = Len(s) - n
         /\ \A j \in 1 .. Len(s) - n : (F \o R)[j] = IF j <= m THEN s[j] ELSE s[j + n]
         /\ Len(wl \o C) = Len(wl) + n
         /\ \A j \in 1 .. Len(wl) + n :
              (wl \o C)[j] = IF j <= Len(wl) THEN wl[j] ELSE s[j - Len(wl) + m]
<1>1. /\ s \in Seq(Item) /\ t \in Seq(Item) /\ F \in Seq(Item) /\ C \in Seq(Item) /\ R \in Seq(Item)
      /\ m \in Nat /\ n \in Nat /\ Len(t) = Len(s) - m
      /\ Len(F) = m /\ Len(C) = n /\ Len(R) = Len(t) - n
      /\ PartOf(F, s, 0) /\ PartOf(t, s, m) /\ PartOf(C, t, 0) /\ PartOf(R, t, n)
  BY DEF Sliced
<1>2. Len(s) \in Nat /\ Len(t) \in Nat /\ Len(wl) \in Nat /\ Len(R) \in Nat
  BY <1>1, LenProperties
<1>3. /\ Len(F \o R) = Len(F) + Len(R)
      /\ \A j \in 1 .. Len(F) + Len(R) : (F \o R)[j] = IF j <= Len(F) THEN F[j] ELSE R[j - Len(F)]
  BY <1>1, ConcatProperties
<1>4. Len(F) + Len(R) = Len(s) - n
  BY <1>1, <1>2
<1>5. ASSUME NEW j \in 1 .. Len(s) - n PROVE (F \o R)[j] = IF j <= m THEN s[j] ELSE s[j + n]
  <2>1. CASE j <= m
    <3>1. (F \o R)[j] = F[j] /\ j \in 1 .. Len(F) /\ 0 + j = j
      BY <1>1, <1>2, <1>3, <1>4, <2>1
    <3>2. F[j] = s[j]
      BY <1>1, <3>1 DEF PartOf
    <3> QED BY <2>1, <3>1, <3>2
  <2>2. CASE ~(j <= m)
    <3> PICK i : i = j - m
      OBVIOUS
    <3>1. i \in 1 .. Len(R) /\ n + i \in 1 .. Len(t) /\ m + (n + i) = j + n
      BY <1>1, <1>2, <2>2
    <3>2. (F \o R)[j] = R[i]
      BY <1>1, <1>3, <1>4, <2>2
    <3>3. R[i] = t[n + i]
      BY <1>1, <3>1 DEF PartOf
    <3> PICK p : p = n + i
      OBVIOUS
    <3>4. t[p] = s[m + p] /\ m + p = j + n
      BY <1>1, <3>1 DEF PartOf
    <3> QED BY <2>2, <3>2, <3>3, <3>4
  <2> QED BY <2>1, <2>2
<1>6. /\ Len(wl \o C) = Len(wl) + n
      /\ \A j \in 1 .. Len(wl) + n : (wl \o C)[j] = IF j <= Len(wl) THEN wl[j] ELSE C[j - Len(wl)]
  BY <1>1, ConcatProperties
<1>7. ASSUME NEW j \in 1 .. Len(wl) + n, ~(j <= Len(wl)) PROVE C[j - Len(wl)] = s[j - Len(wl) + m]
  <2> PICK i : i = j - Len(wl)
    OBVIOUS
  <2>1. i \in 1 .. Len(C) /\ i \in 1 .. Len(t) /\ 0 + i = i /\ m + i = i + m
    BY <1>1, <1>2, <1>7
  <2>2. C[i] = t[i] /\ t[i] = s[m + i]
    BY <1>1, <2>1 DEF PartOf
  <2> QED BY <2>1, <2>2
<1>8. \A j \in 1 .. Len(wl) + n :
        (wl \o C)[j] = IF j <= Len(wl) THEN wl[j] ELSE s[j - Len(wl) + m]
  BY <1>1, <1>6, <1>7
<1> QED
  BY <1>1, <1>3, <1>4, <1>5, <1>6, <1>8

(* How many items an activation takes along.                               *)
Tied(L, q, k) == ChainLen(SubSeq(L.delayed[q], k, Len(L.delayed[q])), L.data)

(* The work at place k of delayed_works, with the chain behind it, went to *)
(* the end of the worklist, and took a slot.                               *)
Activated(L, sch, q, k) ==
  LET s == L.delayed[q]
      n == Tied(L, q, k)
      M == Activate(L, q, k)
  IN  /\ Cuts(Item, Heads, Places(L.worklist, sch, L.delayed),
              Places(M.worklist, sch, M.delayed), q, None, k - 1, n)
      /\ s[k] \in Item /\ M.data = [L.data EXCEPT ![s[k]].delayed = FALSE]
      /\ M.active = [L.active EXCEPT ![q] = L.active[q] + 1]
      /\ n \in 1 .. Len(s) - k + 1
      /\ \A i \in k .. k + n - 2 : L.data[s[i]].linked
      /\ k - 1 + n < Len(s) => ~L.data[s[k - 1 + n]].linked

(* That is what pwq_activate_delayed_work() does.                          *)
LEMMA ActivateCuts ==
  ASSUME NEW L \in ListsType, NEW sch \in [Worker -> Seq(Item)], NEW q \in Pwq,
         NEW k \in 1 .. Len(L.delayed[q])
  PROVE  Activated(L, sch, q, k)
<1>1. PICK s : s = L.delayed[q]
  OBVIOUS
<1>2. PICK wl, d, dly : wl = L.worklist /\ d = L.data /\ dly = L.delayed
  OBVIOUS
<1>3. PICK M : M = Activate(L, q, k)
  OBVIOUS
<1>4. /\ wl \in Seq(Item) /\ dly \in [Pwq -> Seq(Item)] /\ s \in Seq(Item) /\ s = dly[q]
      /\ L.active \in [Pwq -> Int] /\ M \in ListsType
  BY <1>1, <1>2, <1>3, ActivateType DEF ListsType
<1>5. PICK t : t = SubSeq(s, k, Len(s))
  OBVIOUS
<1>6. PICK m : m = k - 1
  OBVIOUS
<1>7. PICK n : n = Tied(L, q, k)
  OBVIOUS
<1>8. n = ChainLen(t, d)
  BY <1>1, <1>2, <1>5, <1>7 DEF Tied
<1>9. /\ Len(s) \in Nat /\ m \in Nat /\ m + 1 = k /\ m < Len(s) /\ s[k] \in Item /\ k \in Nat
  <2>1. Len(s) \in Nat /\ k \in 1 .. Len(s)
    BY <1>4, <1>1, LenProperties
  <2> QED BY <1>4, <1>6, <2>1, ElementOfSeq
<1>10. t \in Seq(Item) /\ Len(t) = Len(s) - m /\ PartOf(t, s, m)
  <2>1. SubSeq(s, m + 1, Len(s)) = t
    BY <1>9, <1>5
  <2>2. m <= Len(s)
    BY <1>9
  <2>3. /\ SubSeq(s, m + 1, Len(s)) \in Seq(Item) /\ Len(SubSeq(s, m + 1, Len(s))) = Len(s) - m
        /\ PartOf(SubSeq(s, m + 1, Len(s)), s, m)
    BY <1>4, <1>9, <2>2, CutOut
  <2> QED BY <2>1, <2>3
<1>11. t # <<>>
  BY <1>9, <1>10, EmptySeq
<1>12. /\ n \in 1 .. Len(t) /\ \A i \in 1 .. n - 1 : d[t[i]].linked
       /\ n < Len(t) => ~d[t[n]].linked
  BY <1>8, <1>10, <1>11, ChainEnd
<1>13. PICK C, F, R : C = SubSeq(t, 1, n) /\ F = SubSeq(s, 1, m) /\ R = SubSeq(t, n + 1, Len(t))
  OBVIOUS
<1>14. /\ M.worklist = wl \o C /\ M.delayed = [dly EXCEPT ![q] = F \o R]
       /\ M.active = [L.active EXCEPT ![q] = L.active[q] + 1]
       /\ M.data = [d EXCEPT ![s[k]].delayed = FALSE]
  <2>1. /\ M.worklist = L.worklist \o SubSeq(t, 1, n)
        /\ M.delayed = [L.delayed EXCEPT ![q] = SubSeq(s, 1, k - 1) \o SubSeq(t, n + 1, Len(t))]
        /\ M.active = [L.active EXCEPT ![q] = L.active[q] + 1]
        /\ M.data = [L.data EXCEPT ![s[k]].delayed = FALSE]
    <3>1. /\ M.worklist = L.worklist \o Chain(SubSeq(L.delayed[q], k, Len(L.delayed[q])), L.data)
          /\ M.delayed = [L.delayed EXCEPT ![q] = SubSeq(L.delayed[q], 1, k - 1)
                             \o Rest(SubSeq(L.delayed[q], k, Len(L.delayed[q])), L.data)]
          /\ M.active = [L.active EXCEPT ![q] = L.active[q] + 1]
          /\ M.data = [L.data EXCEPT ![L.delayed[q][k]].delayed = FALSE]
      BY <1>3 DEF Activate, ListsType
    <3>2. Chain(t, d) = SubSeq(t, 1, n) /\ Rest(t, d) = SubSeq(t, n + 1, Len(t))
      BY <1>8 DEF Chain, Rest
    <3> QED BY <1>1, <1>2, <1>5, <3>1, <3>2
  <2>2. SubSeq(s, 1, k - 1) = F
    BY <1>6, <1>13
  <2> QED BY <1>2, <1>13, <2>1, <2>2
<1>15. n \in Nat /\ Len(t) \in Nat /\ n <= Len(t) /\ n >= 1 /\ m <= Len(s)
  BY <1>9, <1>10, <1>12
<1>16. /\ C \in Seq(Item) /\ Len(C) = n /\ PartOf(C, t, 0)
       /\ F \in Seq(Item) /\ Len(F) = m /\ PartOf(F, s, 0)
       /\ R \in Seq(Item) /\ Len(R) = Len(t) - n /\ PartOf(R, t, n)
  <2>1. /\ SubSeq(t, 0 + 1, n) \in Seq(Item) /\ Len(SubSeq(t, 0 + 1, n)) = n - 0
        /\ PartOf(SubSeq(t, 0 + 1, n), t, 0)
    BY <1>10, <1>15, CutOut
  <2>2. /\ SubSeq(s, 0 + 1, m) \in Seq(Item) /\ Len(SubSeq(s, 0 + 1, m)) = m - 0
        /\ PartOf(SubSeq(s, 0 + 1, m), s, 0)
    BY <1>4, <1>9, <1>15, CutOut
  <2>3. /\ SubSeq(t, n + 1, Len(t)) \in Seq(Item) /\ Len(SubSeq(t, n + 1, Len(t))) = Len(t) - n
        /\ PartOf(SubSeq(t, n + 1, Len(t)), t, n)
    BY <1>10, <1>15, CutOut
  <2>4. 0 + 1 = 1 /\ n - 0 = n /\ m - 0 = m
    BY <1>9, <1>15
  <2> QED BY <1>13, <2>1, <2>2, <2>3, <2>4
<1>17. /\ Len(F \o R) = Len(s) - n
       /\ \A j \in 1 .. Len(s) - n : (F \o R)[j] = IF j <= m THEN s[j] ELSE s[j + n]
       /\ Len(wl \o C) = Len(wl) + n
       /\ \A j \in 1 .. Len(wl) + n :
            (wl \o C)[j] = IF j <= Len(wl) THEN wl[j] ELSE s[j - Len(wl) + m]
  <2>1. Sliced(s, t, F, C, R, m, n)
    BY <1>4, <1>9, <1>10, <1>15, <1>16 DEF Sliced
  <2> QED BY <1>4, <2>1, Joined
<1>18. PICK A, B : A = Places(wl, sch, dly) /\ B = Places(M.worklist, sch, M.delayed)
  OBVIOUS
<1>19. /\ A \in [Heads -> Seq(Item)] /\ B \in [Heads -> Seq(Item)]
       /\ A[q] = s /\ B[q] = F \o R /\ A[None] = wl /\ B[None] = wl \o C
       /\ \A f \in Heads \ {q, None} : B[f] = A[f]
  <2>1. M.worklist \in Seq(Item) /\ M.delayed \in [Pwq -> Seq(Item)]
    BY <1>4 DEF ListsType
  <2>2. /\ A \in [Heads -> Seq(Item)] /\ A[None] = wl
        /\ \A p \in Pwq : A[p] = dly[p]
        /\ \A w \in Worker : A[w] = sch[w]
    BY <1>4, <1>18, PlacesFacts
  <2>3. PICK mw, md : mw = M.worklist /\ md = M.delayed
    OBVIOUS
  <2>4. mw \in Seq(Item) /\ md \in [Pwq -> Seq(Item)] /\ B = Places(mw, sch, md)
    BY <1>18, <2>1, <2>3
  <2>5. /\ B \in [Heads -> Seq(Item)] /\ B[None] = mw
        /\ \A p \in Pwq : B[p] = md[p]
        /\ \A w \in Worker : B[w] = sch[w]
    BY <2>4, PlacesFacts
  <2>6. /\ B \in [Heads -> Seq(Item)] /\ B[None] = M.worklist
        /\ \A p \in Pwq : B[p] = M.delayed[p]
        /\ \A w \in Worker : B[w] = sch[w]
    BY <2>5, <2>3
  <2>7. M.delayed[q] = F \o R /\ \A p \in Pwq : p # q => M.delayed[p] = dly[p]
    BY <1>4, <1>14
  <2> QED BY <1>4, <1>14, <2>2, <2>6, <2>7, HeadFacts
<1>20. Cuts(Item, Heads, A, B, q, None, m, n)
  <2>1. /\ q \in Heads /\ None \in Heads /\ q # None /\ m + n <= Len(s)
    BY <1>9, <1>10, <1>15, HeadFacts
  <2> QED BY <1>9, <1>15, <1>17, <1>19, <2>1 DEF Cuts
<1>21. \A i \in k .. k + n - 2 : d[s[i]].linked
  <2> SUFFICES ASSUME NEW i \in k .. k + n - 2 PROVE d[s[i]].linked
    OBVIOUS
  <2> PICK j : j = i - m
    OBVIOUS
  <2>1. j \in 1 .. n - 1 /\ j \in 1 .. Len(t) /\ m + j = i
    BY <1>9, <1>10, <1>15
  <2>2. t[j] = s[m + j]
    BY <1>10, <2>1 DEF PartOf
  <2> QED BY <1>12, <2>1, <2>2
<1>22. m + n < Len(s) => ~d[s[m + n]].linked
  <2>1. t[n] = s[m + n]
    BY <1>10, <1>12 DEF PartOf
  <2>2. m + n < Len(s) => n < Len(t)
    BY <1>9, <1>10, <1>15
  <2> QED BY <1>12, <2>1, <2>2
<1>23. n \in 1 .. Len(s) - k + 1
  BY <1>9, <1>10, <1>15
<1> QED
  <2>1. /\ Cuts(Item, Heads, Places(L.worklist, sch, L.delayed),
                Places(M.worklist, sch, M.delayed), q, None, k - 1, n)
        /\ s[k] \in Item /\ M.data = [L.data EXCEPT ![s[k]].delayed = FALSE]
        /\ M.active = [L.active EXCEPT ![q] = L.active[q] + 1]
        /\ n \in 1 .. Len(s) - k + 1
        /\ \A i \in k .. k + n - 2 : L.data[s[i]].linked
        /\ k - 1 + n < Len(s) => ~L.data[s[k - 1 + n]].linked
    BY <1>2, <1>6, <1>18, <1>9, <1>14, <1>20, <1>21, <1>22, <1>23
  <2> QED BY <1>1, <1>3, <1>7, <2>1 DEF Activated

(* list_del_init() of a work on the worklist or a scheduled list h, where  *)
(* it sits at place k.                                                     *)
AllWithout(sch, x) == [w \in Worker |-> Without(sch[w], x)]
SitsAt(A, h, k, x) == h \in Heads \ Pwq /\ k \in 1 .. Len(A[h]) /\ A[h][k] = x

(* The places after that.                                                  *)
LEMMA PlacesWithout ==
  ASSUME NEW wl \in Seq(Item), NEW sch \in [Worker -> Seq(Item)], NEW dly \in [Pwq -> Seq(Item)], NEW x
  PROVE  LET ms == AllWithout(sch, x)
             B == Places(Without(wl, x), ms, dly)
         IN  /\ ms \in [Worker -> Seq(Item)] /\ Without(wl, x) \in Seq(Item)
             /\ B \in [Heads -> Seq(Item)] /\ B[None] = Without(wl, x)
             /\ \A p \in Pwq : B[p] = dly[p]
             /\ \A w \in Worker : B[w] = ms[w]
<1>1. AllWithout(sch, x) \in [Worker -> Seq(Item)] /\ Without(wl, x) \in Seq(Item)
  BY WithoutFacts DEF AllWithout
<1>2. PICK ms, rest : ms = AllWithout(sch, x) /\ rest = Without(wl, x)
  OBVIOUS
<1>3. rest \in Seq(Item) /\ ms \in [Worker -> Seq(Item)] /\ dly \in [Pwq -> Seq(Item)]
  BY <1>1, <1>2
<1>4. /\ Places(rest, ms, dly) \in [Heads -> Seq(Item)] /\ Places(rest, ms, dly)[None] = rest
      /\ \A w \in Worker : Places(rest, ms, dly)[w] = ms[w]
      /\ \A p \in Pwq : Places(rest, ms, dly)[p] = dly[p]
  BY ONLY <1>3, PlacesFacts
<1> QED BY <1>1, <1>2, <1>3, <1>4

(* If the work sat at place k of list h, it is the one item that is gone.  *)
LEMMA WithoutRemoves ==
  ASSUME NEW wl \in Seq(Item), NEW sch \in [Worker -> Seq(Item)], NEW dly \in [Pwq -> Seq(Item)],
         Injective(Places(wl, sch, dly), Heads), NEW x, NEW h, NEW k,
         SitsAt(Places(wl, sch, dly), h, k, x)
  PROVE  /\ AllWithout(sch, x) \in [Worker -> Seq(Item)] /\ Without(wl, x) \in Seq(Item)
         /\ Removes(Item, Heads, Places(wl, sch, dly), Places(Without(wl, x), AllWithout(sch, x), dly), h, k)
<1>1. PICK A, B : A = Places(wl, sch, dly) /\ B = Places(Without(wl, x), AllWithout(sch, x), dly)
  OBVIOUS
<1>2. Injective(A, Heads) /\ h \in Heads \ Pwq /\ k \in 1 .. Len(A[h]) /\ A[h][k] = x
  BY <1>1 DEF SitsAt
<1>3. AllWithout(sch, x) \in [Worker -> Seq(Item)] /\ Without(wl, x) \in Seq(Item)
  BY PlacesWithout
<1>4. /\ A \in [Heads -> Seq(Item)] /\ B \in [Heads -> Seq(Item)]
      /\ \A f \in Heads \ Pwq : B[f] = Without(A[f], x)
      /\ \A q \in Pwq : B[q] = A[q]
  <2>1. /\ A \in [Heads -> Seq(Item)] /\ A[None] = wl
        /\ \A p \in Pwq : A[p] = dly[p]
        /\ \A w \in Worker : A[w] = sch[w]
    BY <1>1, PlacesFacts
  <2>2. /\ B \in [Heads -> Seq(Item)] /\ B[None] = Without(wl, x)
        /\ \A p \in Pwq : B[p] = dly[p]
        /\ \A w \in Worker : B[w] = AllWithout(sch, x)[w]
    BY <1>1, PlacesWithout
  <2>3. \A w \in Worker : AllWithout(sch, x)[w] = Without(sch[w], x)
    BY DEF AllWithout
  <2> QED BY <2>1, <2>2, <2>3, HeadFacts
<1>5. A[h] \in Seq(Item) /\ In(A[h], x)
  BY <1>2, <1>4 DEF In
<1>6. PICK j \in 1 .. Len(A[h]) :
        /\ A[h][j] = x /\ Len(B[h]) = Len(A[h]) - 1
        /\ \A i \in 1 .. Len(A[h]) - 1 : B[h][i] = IF i < j THEN A[h][i] ELSE A[h][i + 1]
  <2>1. PICK s \in Seq(Item) : s = A[h]
    BY <1>5
  <2>2. B[h] = Without(s, x) /\ In(s, x)
    BY <1>2, <1>4, <1>5, <2>1
  <2>3. \E j \in 1 .. Len(s) :
          /\ s[j] = x /\ Len(Without(s, x)) = Len(s) - 1
          /\ \A i \in 1 .. Len(s) - 1 : Without(s, x)[i] = IF i < j THEN s[i] ELSE s[i + 1]
    BY <2>2, WithoutFacts
  <2> QED BY <2>2, <2>3, <2>1
<1>7. j = k
  BY <1>2, <1>6 DEF Injective
<1>8. ASSUME NEW f \in Heads \ {h} PROVE B[f] = A[f]
  <2>1. CASE f \in Pwq
    BY <1>4, <2>1
  <2>2. CASE f \notin Pwq
    <3>1. ~In(A[f], x)
      BY <1>2 DEF In, Injective
    <3> QED BY <1>4, <2>2, <3>1, WithoutFacts
  <2> QED BY <2>1, <2>2
<1>9. Removes(Item, Heads, A, B, h, k)
  BY <1>2, <1>4, <1>6, <1>7, <1>8 DEF Removes
<1> QED
  BY <1>1, <1>3, <1>9

(* The books while work x, off its list, still has its old word.           *)
Counted(d, p, x) == {y \in Work \ {x} : d[y].high = p /\ ~d[y].delayed}
LeftSlots(A, d, act, x, p) ==
  /\ act[p] = Cardinality(Counted(d, p, x)) + Cardinality(BySlot(p))
  /\ act[p] <= MaxActive[p]
  /\ A[p] # <<>> => act[p] >= MaxActive[p] - 1
  /\ \A y \in Work \ {x} : (d[y].high = p /\ d[y].delayed) <=> \E k \in 1 .. Len(A[p]) : A[p][k] = y

(* From places A, with words d and slots act, x has gone, and no slot is   *)
(* free but perhaps the one it had: that is Full, when it was handed on.   *)
Left(A, d, act, x) ==
  /\ A \in [Heads -> Seq(Item)] /\ d \in [Item -> Word] /\ act \in [Pwq -> Int]
  /\ Injective(A, Heads) /\ Chained(A, d)
  /\ \A y \in Item : On(A, Heads, y) <=> d[y].high \in Pwq /\ y # x
  /\ \A p \in Pwq : LeftSlots(A, d, act, x, p)
Full(A, act) == \A p \in Pwq : A[p] # <<>> => act[p] = MaxActive[p]

(* set_work_pool_and_keep_pending() completes the books again.             *)
LEMMA StealEnds ==
  ASSUME TypeOK, TypeOK', ListInv, WorkBooks, NEW x \in Work, NEW d,
         Left(Placed', d, nr_active', x), Full(Placed', nr_active'),
         data' = [d EXCEPT ![x] = OffQueue(PoolId, TRUE)],
         UNCHANGED <<pc, current_work, current_pwq>>,
         \A w \in Worker : scheduled'[w] # <<>> => scheduled[w] # <<>>
  PROVE  ListInv' /\ WorkBooks'
<1>1. PICK A : A = Placed'
  OBVIOUS
<1>2. /\ A \in [Heads -> Seq(Item)] /\ d \in [Item -> Word]
      /\ Injective(A, Heads) /\ Chained(A, d)
      /\ \A y \in Item : On(A, Heads, y) <=> d[y].high \in Pwq /\ y # x
      /\ \A p \in Pwq : LeftSlots(A, d, nr_active', x, p)
      /\ \A p \in Pwq : A[p] = delayed_works'[p]
  BY <1>1, PlacedFactsNext DEF Left
<1>3. x \in Item /\ OffQueue(PoolId, TRUE).high \notin Pwq
  BY WorkFacts, HeadFacts DEF OffQueue, WorkDataInit
<1>4. PICK word : word = OffQueue(PoolId, TRUE)
  OBVIOUS
<1>5. /\ data'[x].high \notin Pwq
      /\ \A y \in Item : y # x => data'[y] = d[y]
  <2>1. data' = [d EXCEPT ![x] = word] /\ word.high \notin Pwq
    BY <1>3, <1>4
  <2> QED BY <1>2, <1>3, <2>1
<1>6. \A y \in Item : On(A, Heads, y) <=> data'[y].high \in Pwq
  BY <1>2, <1>5
<1>7. ListInv'
  <2>1. QueuedOnce'
    BY <1>2, <1>6, <1>1, QueuedOnceAsNext
  <2> QED BY <2>1 DEF ListInv, BusyPwq
<1>8. Chained(Placed', data')
  <2>1. \A y \in Item : On(A, Heads, y) => (data'[y].linked <=> d[y].linked)
    BY <1>2, <1>5
  <2>2. Chained(A, data')
    BY <1>2, <2>1, SameLinksOn
  <2> QED BY <1>1, <2>2
<1>9. ASSUME NEW q \in Pwq PROVE SlotsOf(q)'
  <2>1. /\ nr_active'[q] = Cardinality(Counted(d, q, x)) + Cardinality(BySlot(q))
        /\ nr_active'[q] <= MaxActive[q]
        /\ \A y \in Work \ {x} : (d[y].high = q /\ d[y].delayed) <=> \E k \in 1 .. Len(A[q]) : A[q][k] = y
    BY <1>2 DEF LeftSlots
  <2>2. OnSlot(q)' = Counted(d, q, x)
    <3>1. \A y \in Work : (data'[y].high = q /\ ~data'[y].delayed) <=> y # x /\ d[y].high = q /\ ~d[y].delayed
      BY <1>5, ItemFacts
    <3> QED BY <3>1 DEF OnSlot, Counted
  <2>3. BySlot(q)' = BySlot(q)
    BY DEF BySlot
  <2>4. delayed_works'[q] # <<>> => nr_active'[q] = MaxActive[q]
    BY <1>2, <1>1 DEF Full
  <2>5. ASSUME NEW y \in Work PROVE (data'[y].high = q /\ data'[y].delayed) <=> Waits(q, y)'
    <3>1. Waits(q, y)' <=> \E k \in 1 .. Len(A[q]) : A[q][k] = y
      BY <1>2 DEF Waits
    <3>2. CASE y = x
      <4>1. ~On(A, Heads, x) /\ q \in Heads
        BY <1>2, <1>3, HeadFacts
      <4>2. ~(\E k \in 1 .. Len(A[q]) : A[q][k] = y)
        BY <3>2, <4>1 DEF On
      <4> QED BY <1>5, <3>1, <3>2, <4>2
    <3>3. CASE y # x
      BY <1>5, <2>1, <3>1, <3>3, ItemFacts
    <3> QED BY <3>2, <3>3
  <2> QED BY <2>1, <2>2, <2>3, <2>4, <2>5 DEF SlotsOf
<1>10. ScheduledHeld'
  BY DEF WorkBooks, ScheduledHeld
<1> QED
  BY <1>7, <1>8, <1>9, <1>10, SlotsAsNext DEF WorkBooks

(* Behind the first m items of s, n are tied together.                     *)
Chains(s, d, m, n) == \A i \in m + 1 .. m + n - 1 : d[s[i]].linked

(* From A to B, they went from q's delayed_works to the worklist.          *)
Moved(A, B, d, q, m, n) ==
  /\ Chained(A, d) /\ Injective(A, Heads) /\ q \in Pwq
  /\ Cuts(Item, Heads, A, B, q, None, m, n) /\ n > 0 /\ Chains(A[q], d, m, n)

(* What the cut of a work and its chain leaves of a pwq's delayed_works:   *)
(* the other works.                                                        *)
LEMMA CutWorks ==
  ASSUME NEW A, NEW B, NEW q, NEW m, NEW n, NEW d, Moved(A, B, d, q, m, n)
  PROVE  /\ \A y \in Work : (\E k \in 1 .. Len(B[q]) : B[q][k] = y)
                              <=> (\E k \in 1 .. Len(A[q]) : A[q][k] = y) /\ y # A[q][m + 1]
         /\ \A p \in Pwq : p # q => B[p] = A[p]
<1>1. /\ Chained(A, d) /\ Injective(A, Heads) /\ q \in Pwq
      /\ Cuts(Item, Heads, A, B, q, None, m, n) /\ n > 0 /\ Chains(A[q], d, m, n)
  BY DEF Moved
<1>2. /\ A[q] \in Seq(Item) /\ q \in Heads /\ None \notin Pwq /\ Len(A[q]) \in Nat
      /\ m \in Nat /\ n \in Nat \ {0} /\ m + n <= Len(A[q]) /\ Len(B[q]) = Len(A[q]) - n
      /\ \A j \in 1 .. Len(B[q]) : B[q][j] = IF j <= m THEN A[q][j] ELSE A[q][j + n]
      /\ \A f \in Heads \ {q, None} : B[f] = A[f]
  BY <1>1, HeadFacts, LenProperties DEF Cuts
<1>3. PICK s, t : s = A[q] /\ t = B[q]
  OBVIOUS
<1>4. /\ s \in Seq(Item) /\ Len(s) \in Nat /\ m + n <= Len(s) /\ Len(t) = Len(s) - n
      /\ \A j \in 1 .. Len(t) : t[j] = IF j <= m THEN s[j] ELSE s[j + n]
  BY <1>2, <1>3
<1>5. m + 1 \in 1 .. Len(s)
  BY <1>2, <1>4
<1>6. \A k \in m + 2 .. m + n : s[k] \in Barrier
  <2> SUFFICES ASSUME NEW k \in m + 2 .. m + n PROVE s[k] \in Barrier
    OBVIOUS
  <2>1. k - 1 \in m + 1 .. m + n - 1 /\ k - 1 \in 1 .. Len(s) /\ k - 1 + 1 = k
    BY <1>2, <1>4
  <2>2. d[s[k - 1]].linked
    BY <1>1, <1>3, <2>1 DEF Chains
  <2>3. s[k - 1 + 1] \in Barrier
    BY <1>1, <1>2, <1>3, <2>1, <2>2 DEF Chained, Follow
  <2> QED BY <2>1, <2>3
<1>7. ASSUME NEW j \in 1 .. Len(s), NEW k \in 1 .. Len(s), s[j] = s[k] PROVE j = k
  <2>1. j \in 1 .. Len(A[q]) /\ k \in 1 .. Len(A[q]) /\ A[q][j] = A[q][k]
    BY <1>7, <1>3
  <2> QED BY <1>1, <1>2, <2>1 DEF Injective
<1>8. ASSUME NEW y \in Work
      PROVE  (\E k \in 1 .. Len(t) : t[k] = y) <=> (\E k \in 1 .. Len(s) : s[k] = y) /\ y # s[m + 1]
  <2>1. ASSUME NEW k \in 1 .. Len(t), t[k] = y PROVE (\E j \in 1 .. Len(s) : s[j] = y) /\ y # s[m + 1]
    <3>1. CASE k <= m
      <4>1. k \in 1 .. Len(s) /\ k # m + 1 /\ s[k] = y
        BY <1>2, <1>4, <2>1, <3>1
      <4> QED BY <1>5, <1>7, <4>1
    <3>2. CASE ~(k <= m)
      <4>1. k + n \in 1 .. Len(s) /\ k + n # m + 1 /\ s[k + n] = y
        BY <1>2, <1>4, <2>1, <3>2
      <4> QED BY <1>5, <1>7, <4>1
    <3> QED BY <3>1, <3>2
  <2>2. ASSUME NEW k \in 1 .. Len(s), s[k] = y, y # s[m + 1] PROVE \E j \in 1 .. Len(t) : t[j] = y
    <3>1. k # m + 1 /\ k \notin m + 2 .. m + n
      BY <1>6, <2>2, WorkFacts DEF Caller
    <3>2. CASE k <= m
      <4>1. k \in 1 .. Len(t) /\ t[k] = s[k]
        BY <1>2, <1>4, <3>2
      <4> QED BY <2>2, <4>1
    <3>3. CASE ~(k <= m)
      <4>1. k - n \in 1 .. Len(t) /\ k - n + n = k /\ ~(k - n <= m)
        BY <1>2, <1>4, <3>1, <3>3
      <4>2. t[k - n] = s[k - n + n]
        BY <1>4, <4>1
      <4> QED BY <2>2, <4>1, <4>2
    <3> QED BY <3>2, <3>3
  <2> QED BY <2>1, <2>2
<1>9. \A p \in Pwq : p # q => B[p] = A[p]
  BY <1>2, HeadFacts
<1> QED
  BY <1>8, <1>9, <1>3

(* The first item of a pwq's delayed_works is a work.                      *)
LEMMA FirstWork ==
  ASSUME NEW A \in [Heads -> Seq(Item)], NEW q \in Pwq, NEW d, Chained(A, d), A[q] # <<>>
  PROVE  A[q][1] \in Work /\ 1 \in 1 .. Len(A[q])
<1>1. A[q] \in Seq(Item) /\ q \in Heads /\ Len(A[q]) \in Nat \ {0}
  BY HeadFacts, EmptySeq, LenProperties
<1>2. 1 \in 1 .. Len(A[q]) /\ A[q][1] \in Item
  BY <1>1, ElementOfSeq
<1>3. A[q][1] \notin Barrier
  BY <1>2 DEF Chained, Preceded
<1> QED BY <1>2, <1>3 DEF Item

(* The slots when q takes one more.                                        *)
Taken(act, q) == [act EXCEPT ![q] = act[q] + 1]

(* pwq_dec_nr_in_flight() hands a free slot to the first delayed work.     *)
LEMMA HandOn ==
  ASSUME NEW A, NEW d, NEW act, NEW x \in Work, Left(A, d, act, x), NEW q \in Pwq,
         A[q] # <<>>, act[q] < MaxActive[q],
         \A p \in Pwq : p # q /\ A[p] # <<>> => act[p] = MaxActive[p],
         NEW B, NEW n, Cuts(Item, Heads, A, B, q, None, 0, n), n \in 1 .. Len(A[q]),
         \A i \in 1 .. n - 1 : d[A[q][i]].linked,
         n < Len(A[q]) => ~d[A[q][n]].linked
  PROVE  /\ Left(B, Undelayed(d, A[q][1]), Taken(act, q), x)
         /\ Full(B, Taken(act, q))
<1>1. PICK e, act2 : e = Undelayed(d, A[q][1]) /\ act2 = Taken(act, q)
  OBVIOUS
<1>2. /\ A \in [Heads -> Seq(Item)] /\ d \in [Item -> Word] /\ act \in [Pwq -> Int]
      /\ Injective(A, Heads) /\ Chained(A, d)
      /\ \A y \in Item : On(A, Heads, y) <=> d[y].high \in Pwq /\ y # x
      /\ \A p \in Pwq : LeftSlots(A, d, act, x, p)
  BY DEF Left
<1>3. A[q][1] \in Work /\ 1 \in 1 .. Len(A[q])
  BY <1>2, FirstWork
<1>4. PICK f \in Work : f = A[q][1]
  BY <1>3
<1>5. f # x /\ f \in Item /\ d[f].high = q /\ d[f].delayed
  <2>1. On(A, Heads, f) /\ f \in Item
    BY <1>3, <1>4, HeadFacts, ItemFacts DEF On
  <2>2. f # x
    BY <1>2, <2>1
  <2>3. \E k \in 1 .. Len(A[q]) : A[q][k] = f
    BY <1>3, <1>4
  <2> QED BY <1>2, <2>1, <2>2, <2>3 DEF LeftSlots
<1>6. /\ e \in [Item -> Word]
      /\ \A y \in Item : /\ e[y].high = d[y].high
                         /\ e[y].linked <=> d[y].linked
                         /\ e[y].delayed <=> (d[y].delayed /\ y # f)
  <2>1. e = [d EXCEPT ![f] = [d[f] EXCEPT !.delayed = FALSE]]
    BY <1>1, <1>4 DEF Undelayed
  <2>2. d[f] \in Word
    BY <1>2, <1>5
  <2>3. PICK v : v = [d[f] EXCEPT !.delayed = FALSE]
    OBVIOUS
  <2>4. v \in Word /\ v.high = d[f].high /\ (v.linked <=> d[f].linked) /\ ~v.delayed
    BY <2>2, <2>3 DEF Word
  <2>5. e = [d EXCEPT ![f] = v]
    BY <2>1, <2>3
  <2>6. e[f] = v /\ e \in [Item -> Word] /\ \A y \in Item : y # f => e[y] = d[y]
    BY <1>2, <1>5, <2>4, <2>5
  <2> QED BY <2>4, <2>6
<1>7. Injective(B, Heads) /\ \A y : On(B, Heads, y) <=> On(A, Heads, y)
  BY <1>2, CutSlice
<1>8. B \in [Heads -> Seq(Item)] /\ None \notin Pwq
  BY HeadFacts DEF Cuts
<1>9. PICK m : m = 0
  OBVIOUS
<1>10. /\ Cuts(Item, Heads, A, B, q, None, m, n) /\ n > 0 /\ ~(m > 0) /\ A[q][m + 1] = f
       /\ Chains(A[q], d, m, n)
       /\ m + n < Len(A[q]) => ~d[A[q][m + n]].linked
  <2>1. m + 1 = 1 /\ m + n = n /\ ~(m > 0) /\ n > 0
    BY <1>3, <1>9
  <2>2. \A i \in m + 1 .. m + n - 1 : i \in 1 .. n - 1
    BY <1>3, <1>9
  <2> QED BY <1>4, <1>9, <2>1, <2>2 DEF Chains
<1>11. Chained(B, e)
  <2>1. Chained(B, d)
    BY <1>2, <1>8, <1>10, ChainedCuts
  <2>2. \A y \in Item : On(B, Heads, y) => (e[y].linked <=> d[y].linked)
    BY <1>6
  <2> QED BY <1>8, <2>1, <2>2, SameLinksOn
<1>12. /\ \A y \in Work : (\E k \in 1 .. Len(B[q]) : B[q][k] = y)
                            <=> (\E k \in 1 .. Len(A[q]) : A[q][k] = y) /\ y # f
       /\ \A p \in Pwq : p # q => B[p] = A[p]
  <2>1. /\ \A y \in Work : (\E k \in 1 .. Len(B[q]) : B[q][k] = y)
                              <=> (\E k \in 1 .. Len(A[q]) : A[q][k] = y) /\ y # A[q][m + 1]
        /\ \A p \in Pwq : p # q => B[p] = A[p]
    <3>1. Moved(A, B, d, q, m, n)
      BY <1>2, <1>10 DEF Moved
    <3> QED BY <3>1, CutWorks
  <2>2. A[q][m + 1] = f
    BY <1>10
  <2> QED BY <2>1, <2>2
<1>13. /\ act2 \in [Pwq -> Int] /\ act2[q] = act[q] + 1 /\ \A p \in Pwq : p # q => act2[p] = act[p]
  BY <1>2, <1>1 DEF Taken
<1>14. LeftSlots(B, e, act2, x, q) /\ act2[q] = MaxActive[q]
  <2>1. LeftSlots(A, d, act, x, q) /\ act[q] \in Int /\ MaxActive[q] \in Int
    BY <1>2, PoolAssumption
  <2>2. act2[q] = MaxActive[q]
    BY <1>13, <2>1 DEF LeftSlots
  <2>3. Counted(e, q, x) = Counted(d, q, x) \cup {f} /\ f \notin Counted(d, q, x)
    <3>1. \A y \in Work : (e[y].high = q /\ ~e[y].delayed) <=> (d[y].high = q /\ ~d[y].delayed) \/ y = f
      BY <1>5, <1>6, ItemFacts
    <3> QED BY <1>5, <3>1 DEF Counted
  <2>4. Cardinality(Counted(e, q, x)) = Cardinality(Counted(d, q, x)) + 1
    <3> PICK T : T = Counted(d, q, x)
      OBVIOUS
    <3>1. T \in SUBSET Work /\ IsFiniteSet(Work)
      BY PoolAssumption DEF Counted
    <3>2. IsFiniteSet(T) /\ f \notin T
      BY <2>3, <3>1, FS_Subset
    <3>3. Cardinality(T \cup {f}) = Cardinality(T) + 1
      BY <3>2, FS_AddElement
    <3> QED BY <2>3, <3>3
  <2>5. Cardinality(Counted(d, q, x)) \in Nat /\ Cardinality(BySlot(q)) \in Nat
    <3>1. Counted(d, q, x) \in SUBSET Work /\ IsFiniteSet(Work)
      BY PoolAssumption DEF Counted
    <3>2. IsFiniteSet(Counted(d, q, x))
      BY <3>1, FS_Subset
    <3> QED BY <3>2, FS_CardinalityType, SlotSets
  <2>6. act2[q] = Cardinality(Counted(e, q, x)) + Cardinality(BySlot(q))
    BY <1>13, <2>1, <2>4, <2>5 DEF LeftSlots
  <2>7. ASSUME NEW y \in Work \ {x}
        PROVE  (e[y].high = q /\ e[y].delayed) <=> \E k \in 1 .. Len(B[q]) : B[q][k] = y
    BY <1>6, <1>12, <2>1, ItemFacts DEF LeftSlots
  <2> QED BY <2>1, <2>2, <2>6, <2>7 DEF LeftSlots
<1>15. ASSUME NEW p \in Pwq, p # q PROVE LeftSlots(B, e, act2, x, p)
  <2>1. LeftSlots(A, d, act, x, p) /\ B[p] = A[p] /\ act2[p] = act[p]
    BY <1>2, <1>12, <1>13, <1>15
  <2>2. \A y \in Work : /\ (e[y].high = p /\ ~e[y].delayed) <=> (d[y].high = p /\ ~d[y].delayed)
                        /\ (e[y].high = p /\ e[y].delayed) <=> (d[y].high = p /\ d[y].delayed)
    BY <1>5, <1>6, <1>15, ItemFacts
  <2>3. Counted(e, p, x) = Counted(d, p, x)
    BY <2>2 DEF Counted
  <2> QED BY <2>1, <2>2, <2>3 DEF LeftSlots
<1>16. \A y \in Item : On(B, Heads, y) <=> e[y].high \in Pwq /\ y # x
  BY <1>2, <1>6, <1>7
<1>17. \A p \in Pwq : LeftSlots(B, e, act2, x, p)
  BY <1>14, <1>15
<1>18. Full(B, act2)
  BY <1>12, <1>13, <1>14 DEF Full
<1> QED
  BY <1>1, <1>6, <1>7, <1>8, <1>11, <1>13, <1>16, <1>18, <1>17 DEF Left

(* The books before a work is stolen.                                      *)
LEMMA BookFacts ==
  ASSUME TypeOK, ListInv, WorkBooks
  PROVE  /\ Placed \in [Heads -> Seq(Item)] /\ data \in [Item -> Word] /\ nr_active \in [Pwq -> Int]
         /\ Injective(Placed, Heads) /\ Chained(Placed, data)
         /\ \A y \in Item : On(Placed, Heads, y) <=> data[y].high \in Pwq
         /\ \A p \in Pwq : Placed[p] = delayed_works[p] /\ SlotsOf(p)
<1>1. data \in [Item -> Word] /\ nr_active \in [Pwq -> Int]
  BY DEF TypeOK
<1> QED
  BY <1>1, PlacedFacts, QueuedOnceAs, SlotsAs DEF ListInv, WorkBooks

(* Work x leaves place k of list h, which is no delayed_works.             *)
TakenOff(A, B, h, k, x) ==
  h \in Heads \ Pwq /\ Removes(Item, Heads, A, B, h, k) /\ A[h][k] = x

(* The slots when q has given one back.                                    *)
Freed(act, q) == [act EXCEPT ![q] = act[q] - 1]

(* pwq_dec_nr_in_flight(): a work that is not delayed leaves its slot.     *)
LEMMA LeaveActive ==
  ASSUME TypeOK, ListInv, WorkBooks, NEW x \in Work, NEW q \in Pwq,
         data[x].high = q, ~data[x].delayed,
         NEW B, NEW h, NEW k, TakenOff(Placed, B, h, k, x)
  PROVE  /\ Left(B, data, Freed(nr_active, q), x)
         /\ \A p \in Pwq : p # q /\ B[p] # <<>> => Freed(nr_active, q)[p] = MaxActive[p]
<1>1. /\ Placed \in [Heads -> Seq(Item)] /\ data \in [Item -> Word] /\ nr_active \in [Pwq -> Int]
      /\ Injective(Placed, Heads) /\ Chained(Placed, data)
      /\ \A y \in Item : On(Placed, Heads, y) <=> data[y].high \in Pwq
      /\ \A p \in Pwq : Placed[p] = delayed_works[p] /\ SlotsOf(p)
  BY BookFacts
<1>2. h \in Heads \ Pwq /\ Removes(Item, Heads, Placed, B, h, k) /\ Placed[h][k] = x
  BY DEF TakenOff
<1>3. PICK act : act = Freed(nr_active, q)
  OBVIOUS
<1>4. act \in [Pwq -> Int] /\ act[q] = nr_active[q] - 1 /\ \A p \in Pwq : p # q => act[p] = nr_active[p]
  BY <1>1, <1>3 DEF Freed
<1>5. Injective(B, Heads) /\ \A y : On(B, Heads, y) <=> On(Placed, Heads, y) /\ y # x
  BY <1>2, <1>1, RemoveOne
<1>6. Chained(B, data)
  BY <1>2, <1>1, WorkFacts, ChainedRemoves DEF Caller
<1>7. B \in [Heads -> Seq(Item)] /\ \A p \in Pwq : B[p] = delayed_works[p]
  BY <1>2, <1>1, HeadFacts DEF Removes
<1>8. \A y \in Item : On(B, Heads, y) <=> data[y].high \in Pwq /\ y # x
  BY <1>1, <1>5
<1>9. ASSUME NEW p \in Pwq PROVE LeftSlots(B, data, act, x, p)
  <2>1. /\ nr_active[p] = Cardinality(OnSlot(p)) + Cardinality(BySlot(p))
        /\ nr_active[p] <= MaxActive[p] /\ nr_active[p] \in Int /\ MaxActive[p] \in Int
        /\ B[p] # <<>> => nr_active[p] = MaxActive[p]
    <3>1. SlotsOf(p) /\ B[p] = delayed_works[p]
      BY <1>1, <1>7
    <3>2. nr_active[p] \in Int /\ MaxActive[p] \in Int
      BY <1>1, PoolAssumption
    <3> QED BY <3>1, <3>2 DEF SlotsOf
  <2>2. \A y \in Work : (data[y].high = p /\ data[y].delayed) <=> \E i \in 1 .. Len(B[p]) : B[p][i] = y
    <3>1. SlotsOf(p) /\ B[p] = delayed_works[p]
      BY <1>1, <1>7
    <3>2. \A y \in Work : Waits(p, y) <=> \E i \in 1 .. Len(B[p]) : B[p][i] = y
      BY <3>1 DEF Waits
    <3> QED BY <3>1, <3>2 DEF SlotsOf
  <2>3. act[p] = Cardinality(Counted(data, p, x)) + Cardinality(BySlot(p))
    <3>1. CASE p = q
      <4> PICK T : T = Counted(data, p, x)
        OBVIOUS
      <4>1. T \in SUBSET Work /\ IsFiniteSet(Work)
        BY PoolAssumption DEF Counted
      <4>2. IsFiniteSet(T) /\ x \notin T
        BY <4>1, FS_Subset DEF Counted
      <4>3. OnSlot(p) = T \cup {x}
        BY <3>1 DEF OnSlot, Counted
      <4>4. Cardinality(T \cup {x}) = Cardinality(T) + 1 /\ Cardinality(T) \in Nat
        BY <4>2, FS_AddElement, FS_CardinalityType
      <4>5. Cardinality(BySlot(p)) \in Nat
        BY SlotSets
      <4> QED BY <1>4, <2>1, <3>1, <4>3, <4>4, <4>5
    <3>2. CASE p # q
      <4>1. OnSlot(p) = Counted(data, p, x)
        BY <3>2 DEF OnSlot, Counted
      <4> QED BY <1>4, <2>1, <3>2, <4>1
    <3> QED BY <3>1, <3>2
  <2>4. act[p] <= MaxActive[p] /\ (B[p] # <<>> => act[p] >= MaxActive[p] - 1)
    BY <1>4, <2>1
  <2> QED BY <2>2, <2>3, <2>4 DEF LeftSlots
<1>10. Left(B, data, act, x)
  BY <1>1, <1>4, <1>5, <1>6, <1>7, <1>8, <1>9 DEF Left
<1>11. \A p \in Pwq : p # q /\ B[p] # <<>> => act[p] = MaxActive[p]
  BY <1>1, <1>4, <1>7 DEF SlotsOf
<1> QED
  BY <1>10, <1>11, <1>3

(* A delayed work is activated with its barriers before it is taken off    *)
(* the worklist, and its slot is free again at once.                       *)
LEMMA LeaveDelayed ==
  ASSUME TypeOK, ListInv, WorkBooks, NEW x \in Work, NEW q \in Pwq,
         data[x].high = q, data[x].delayed,
         NEW A, NEW m, NEW n, Cuts(Item, Heads, Placed, A, q, None, m, n), n > 0,
         Placed[q][m + 1] = x, Chains(Placed[q], data, m, n),
         m + n < Len(Placed[q]) => ~data[Placed[q][m + n]].linked,
         NEW B, NEW k, TakenOff(A, B, None, k, x)
  PROVE  Left(B, Undelayed(data, x), nr_active, x) /\ Full(B, nr_active)
<1>1. /\ Placed \in [Heads -> Seq(Item)] /\ data \in [Item -> Word] /\ nr_active \in [Pwq -> Int]
      /\ Injective(Placed, Heads) /\ Chained(Placed, data)
      /\ \A y \in Item : On(Placed, Heads, y) <=> data[y].high \in Pwq
      /\ \A p \in Pwq : Placed[p] = delayed_works[p] /\ SlotsOf(p)
  BY BookFacts
<1>2. Removes(Item, Heads, A, B, None, k) /\ A[None][k] = x
  BY DEF TakenOff
<1>3. PICK e : e = Undelayed(data, x)
  OBVIOUS
<1>4. /\ e \in [Item -> Word]
      /\ \A y \in Item : /\ e[y].high = data[y].high
                         /\ e[y].linked <=> data[y].linked
                         /\ e[y].delayed <=> (data[y].delayed /\ y # x)
  <2>1. x \in Item /\ data[x] \in Word
    BY <1>1, WorkFacts
  <2>2. PICK v : v = [data[x] EXCEPT !.delayed = FALSE]
    OBVIOUS
  <2>3. v \in Word /\ v.high = data[x].high /\ (v.linked <=> data[x].linked) /\ ~v.delayed
    BY <2>1, <2>2 DEF Word
  <2>4. e = [data EXCEPT ![x] = v]
    BY <1>3, <2>2 DEF Undelayed
  <2>5. e[x] = v /\ e \in [Item -> Word] /\ \A y \in Item : y # x => e[y] = data[y]
    BY <1>1, <2>1, <2>3, <2>4
  <2> QED BY <2>3, <2>5
<1>5. Injective(A, Heads) /\ \A y : On(A, Heads, y) <=> On(Placed, Heads, y)
  BY <1>1, CutSlice
<1>6. Chained(A, data)
  <2>1. Placed[q][m + 1] \notin Barrier /\ None \notin Pwq
    BY WorkFacts, HeadFacts DEF Caller
  <2> QED BY <1>1, <2>1, ChainedCuts
<1>7. Injective(B, Heads) /\ \A y : On(B, Heads, y) <=> On(A, Heads, y) /\ y # x
  BY <1>2, <1>5, RemoveOne
<1>8. A \in [Heads -> Seq(Item)] /\ B \in [Heads -> Seq(Item)] /\ \A p \in Pwq : B[p] = A[p]
  BY <1>2, HeadFacts DEF Removes
<1>9. Chained(B, e)
  <2>1. A[None][k] \notin Barrier /\ None \notin Pwq
    BY <1>2, WorkFacts, HeadFacts DEF Caller
  <2>2. Chained(B, data)
    BY <1>2, <1>5, <1>6, <2>1, ChainedRemoves
  <2>3. \A y \in Item : On(B, Heads, y) => (e[y].linked <=> data[y].linked)
    BY <1>4
  <2> QED BY <1>8, <2>2, <2>3, SameLinksOn
<1>10. \A y \in Item : On(B, Heads, y) <=> e[y].high \in Pwq /\ y # x
  BY <1>1, <1>4, <1>5, <1>7
<1>11. /\ \A y \in Work : (\E i \in 1 .. Len(A[q]) : A[q][i] = y)
                            <=> (\E i \in 1 .. Len(Placed[q]) : Placed[q][i] = y) /\ y # x
       /\ \A p \in Pwq : p # q => A[p] = Placed[p]
  <2>1. Moved(Placed, A, data, q, m, n)
    BY <1>1 DEF Moved
  <2>2. /\ \A y \in Work : (\E i \in 1 .. Len(A[q]) : A[q][i] = y)
                             <=> (\E i \in 1 .. Len(Placed[q]) : Placed[q][i] = y) /\ y # Placed[q][m + 1]
        /\ \A p \in Pwq : p # q => A[p] = Placed[p]
    BY <2>1, CutWorks
  <2> QED BY <2>2
<1>12. delayed_works[q] # <<>>
  <2>1. Waits(q, x)
    BY <1>1 DEF SlotsOf
  <2>2. delayed_works[q] \in Seq(Item) /\ Len(delayed_works[q]) \in Nat
    BY LenProperties DEF TypeOK
  <2> QED BY <2>1, <2>2, EmptySeq DEF Waits
<1>13. ASSUME NEW p \in Pwq PROVE LeftSlots(B, e, nr_active, x, p) /\ (B[p] # <<>> => nr_active[p] = MaxActive[p])
  <2>1. /\ nr_active[p] = Cardinality(OnSlot(p)) + Cardinality(BySlot(p))
        /\ nr_active[p] <= MaxActive[p] /\ nr_active[p] \in Int /\ MaxActive[p] \in Int
        /\ Placed[p] # <<>> => nr_active[p] = MaxActive[p]
        /\ \A y \in Work : (data[y].high = p /\ data[y].delayed)
                             <=> \E i \in 1 .. Len(Placed[p]) : Placed[p][i] = y
    <3>1. SlotsOf(p) /\ Placed[p] = delayed_works[p]
      BY <1>1
    <3>2. nr_active[p] \in Int /\ MaxActive[p] \in Int
      BY <1>1, PoolAssumption
    <3>3. \A y \in Work : Waits(p, y) <=> \E i \in 1 .. Len(Placed[p]) : Placed[p][i] = y
      BY <3>1 DEF Waits
    <3> QED BY <3>1, <3>2, <3>3 DEF SlotsOf
  <2>2. B[p] # <<>> => nr_active[p] = MaxActive[p]
    <3>1. CASE p = q
      BY <1>1, <1>12, <2>1, <3>1
    <3>2. CASE p # q
      BY <1>8, <1>11, <2>1, <3>2
    <3> QED BY <3>1, <3>2
  <2>3. Counted(e, p, x) = OnSlot(p)
    <3>1. \A y \in Work : (y # x /\ e[y].high = p /\ ~e[y].delayed) <=> (data[y].high = p /\ ~data[y].delayed)
      BY <1>4, ItemFacts
    <3> QED BY <3>1 DEF Counted, OnSlot
  <2>4. ASSUME NEW y \in Work \ {x}
        PROVE  (e[y].high = p /\ e[y].delayed) <=> \E i \in 1 .. Len(B[p]) : B[p][i] = y
    <3>1. (\E i \in 1 .. Len(B[p]) : B[p][i] = y) <=> \E i \in 1 .. Len(Placed[p]) : Placed[p][i] = y
      <4>1. CASE p = q
        BY <1>8, <1>11, <4>1
      <4>2. CASE p # q
        BY <1>8, <1>11, <4>2
      <4> QED BY <4>1, <4>2
    <3> QED BY <1>4, <2>1, <3>1, ItemFacts
  <2> QED BY <2>1, <2>2, <2>3, <2>4 DEF LeftSlots
<1>14. Left(B, e, nr_active, x)
  BY <1>1, <1>4, <1>7, <1>8, <1>9, <1>10, <1>13 DEF Left
<1>15. Full(B, nr_active)
  BY <1>13 DEF Full
<1> QED
  BY <1>14, <1>15, <1>3

(* From the delayed works A with words d to B with e, those of an ordered  *)
(* pwq stay queued in their order, but for x.                              *)
OrdStays(A, d, B, e, x) ==
  \A p \in OrderedPwq : \A y \in Work \ {x} : \A z \in Work \ {x} :
    d[y].high = p /\ d[z].high = p => (Sooner(B[p], e, y, z) <=> Sooner(A[p], d, y, z))

(* x leaves the one slot of q, and it is handed to the first of the works  *)
(* that wait, s[1], which takes its barriers along.                        *)
LEMMA HandOnOrder ==
  ASSUME TypeOK, ListInv, WorkBooks, NEW x \in Work, NEW q \in Pwq, data[x].high = q, ~data[x].delayed,
         NEW s \in Seq(Item), s = delayed_works[q], NEW n \in 1 .. Len(s), NEW C,
         C[q] \in Seq(Item), Len(C[q]) = Len(s) - n, \A j \in 1 .. Len(C[q]) : C[q][j] = s[j + n],
         \A i \in 1 .. n - 1 : data[s[i]].linked,
         \A p \in Pwq : p # q => C[p] = delayed_works[p]
  PROVE  OrdStays(Placed, data, C, Undelayed(data, s[1]), x)
<1>1. /\ Injective(Placed, Heads) /\ Chained(Placed, data) /\ data \in [Item -> Word]
      /\ \A p \in Pwq : Placed[p] = delayed_works[p] /\ SlotsOf(p)
      /\ Len(s) \in Nat /\ q \in Heads
  BY BookFacts, HeadFacts, LenProperties
<1>2. \A y \in Work : y \in Item /\ y \notin Barrier
  BY WorkFacts DEF Caller
<1> PICK f \in Item : f = s[1]
  <2>1. 1 \in 1 .. Len(s)
    BY <1>1
  <2> QED BY <2>1, ElementOfSeq
<1> PICK e : e = Undelayed(data, f)
  OBVIOUS
<1>3. \A y \in Work : e[y].delayed <=> data[y].delayed /\ y # f
  BY <1>1, <1>2 DEF Undelayed, Word
<1>4. Waits(q, f) \/ f \notin Work
  BY <1>1 DEF Waits
<1> SUFFICES ASSUME NEW p \in OrderedPwq, NEW y \in Work \ {x}, NEW z \in Work \ {x},
                    data[y].high = p, data[z].high = p
             PROVE  Sooner(C[p], e, y, z) <=> Sooner(Placed[p], data, y, z)
  BY DEF OrdStays
<1>5. p \in Pwq /\ MaxActive[p] = 1 /\ SlotsOf(p) /\ SlotsOf(q)
  BY <1>1 DEF OrderedPwq
<1>6. CASE p # q
  <2>1. f # y /\ f # z
    BY <1>4, <1>5, <1>6 DEF SlotsOf
  <2> QED BY <1>1, <1>3, <1>5, <1>6, <2>1 DEF Sooner
<1>7. CASE p = q
  <2> DEFINE Q == {u \in Work \ {x} : data[u].high = q}
  <2>1. \A u \in Q : data[u].delayed
    <3>1. OnSlot(q) = {x}
      <4>1. x \in OnSlot(q)
        BY DEF OnSlot
      <4> QED BY <1>5, <1>7, <4>1, OneSlot
    <3> QED BY <3>1 DEF OnSlot
  <2>2. \A u \in Q : data[u].delayed /\ In(s, u) /\ (e[u].delayed <=> u # s[1])
    BY <1>3, <1>5, <2>1, DelayedIn
  <2>3. \A j \in 2 .. n : s[j] \notin Q
    <3> SUFFICES ASSUME NEW j \in 2 .. n PROVE s[j] \in Barrier
      BY <1>2
    <3>1. j - 1 \in 1 .. n - 1 /\ j - 1 \in 1 .. Len(s) /\ j - 1 + 1 = j
      BY <1>1
    <3>2. data[s[j - 1]].linked
      BY <3>1
    <3>3. Placed[q][j - 1 + 1] \in Barrier
      BY <1>1, <3>1, <3>2 DEF Chained, Follow
    <3> QED BY <1>1, <3>1, <3>3
  <2>4. \A j, k \in 1 .. Len(s) : s[j] = s[k] => j = k
    <3> SUFFICES ASSUME NEW j \in 1 .. Len(s), NEW k \in 1 .. Len(s), s[j] = s[k] PROVE j = k
      OBVIOUS
    <3>1. Placed[q] = s /\ Injective(Placed, Heads)
      BY <1>1
    <3>2. j \in 1 .. Len(Placed[q]) /\ k \in 1 .. Len(Placed[q]) /\ Placed[q][j] = Placed[q][k]
      BY <3>1
    <3> QED BY ONLY <1>1, <3>1, <3>2 DEF Injective
  <2>5. y \in Q /\ z \in Q
    BY <1>7
  <2> HIDE DEF Q
  <2> PICK t, d : t = C[q] /\ d = data
    OBVIOUS
  <2>6. t \in Seq(Item) /\ Len(t) = Len(s) - n /\ \A j \in 1 .. Len(t) : t[j] = s[j + n]
    OBVIOUS
  <2>7. \A u \in Q : d[u].delayed /\ In(s, u) /\ (e[u].delayed <=> u # s[1])
    BY <2>2
  <2>8. s \in Seq(Item) /\ n \in 1 .. Len(s)
    OBVIOUS
  <2>9. Sooner(t, e, y, z) <=> Sooner(s, d, y, z)
    BY ONLY <2>3, <2>4, <2>5, <2>6, <2>7, <2>8, FirstGoes
  <2> QED BY <1>1, <1>7, <2>9
<1> QED
  BY <1>6, <1>7

(* In B, q's delayed works s have lost the n from place m + 1 on, and the  *)
(* other pwqs none.                                                        *)
DelayedCut(B, q, s, m, n) ==
  /\ s \in Seq(Item) /\ s = delayed_works[q] /\ m \in Nat /\ n \in Nat /\ m + n <= Len(s)
  /\ B[q] \in Seq(Item) /\ Len(B[q]) = Len(s) - n
  /\ \A j \in 1 .. Len(B[q]) : B[q][j] = IF j <= m THEN s[j] ELSE s[j + n]
  /\ \A p \in Pwq : p # q => B[p] = delayed_works[p]

(* x, at place m + 1 of the delayed works, leaves them with its barriers.  *)
LEMMA DelayedLeavesOrder ==
  ASSUME TypeOK, ListInv, WorkBooks, NEW x \in Work, NEW q \in Pwq,
         NEW s, NEW m, NEW n, NEW B, DelayedCut(B, q, s, m, n),
         s[m + 1] = x, Chains(s, data, m, n)
  PROVE  OrdStays(Placed, data, B, Undelayed(data, x), x)
<1>0. /\ s \in Seq(Item) /\ s = delayed_works[q] /\ m \in Nat /\ n \in Nat /\ m + n <= Len(s)
      /\ B[q] \in Seq(Item) /\ Len(B[q]) = Len(s) - n
      /\ \A j \in 1 .. Len(B[q]) : B[q][j] = IF j <= m THEN s[j] ELSE s[j + n]
      /\ \A p \in Pwq : p # q => B[p] = delayed_works[p]
  BY DEF DelayedCut
<1>1. /\ Chained(Placed, data) /\ data \in [Item -> Word]
      /\ \A p \in Pwq : Placed[p] = delayed_works[p]
      /\ Len(s) \in Nat /\ q \in Heads
  BY <1>0, BookFacts, HeadFacts, LenProperties
<1>2. \A y \in Work : y \in Item /\ y \notin Barrier
  BY WorkFacts DEF Caller
<1> PICK e : e = Undelayed(data, x)
  OBVIOUS
<1>3. \A y \in Work \ {x} : e[y] = data[y]
  BY <1>1, <1>2 DEF Undelayed
<1>4. \A j \in m + 1 .. m + n : s[j] = x \/ s[j] \in Barrier
  <2> SUFFICES ASSUME NEW j \in m + 1 .. m + n, j # m + 1 PROVE s[j] \in Barrier
    BY <1>0
  <2>1. j - 1 \in m + 1 .. m + n - 1 /\ j - 1 \in 1 .. Len(s) /\ j - 1 + 1 = j
    BY <1>0, <1>1
  <2>2. data[s[j - 1]].linked
    BY <2>1 DEF Chains
  <2>3. Placed[q] = s /\ j - 1 \in 1 .. Len(s) - 1
    BY <1>0, <1>1, <2>1
  <2>4. Placed[q][j - 1 + 1] \in Barrier
    BY <1>1, <2>1, <2>2, <2>3 DEF Chained, Follow
  <2> QED BY <2>1, <2>3, <2>4
<1> SUFFICES ASSUME NEW p \in Pwq, NEW y \in Work \ {x}, NEW z \in Work \ {x}
             PROVE  Sooner(B[p], e, y, z) <=> Sooner(Placed[p], data, y, z)
  BY DEF OrdStays, OrderedPwq
<1>5. CASE p # q
  BY <1>0, <1>1, <1>3, <1>5 DEF Sooner
<1>6. CASE p = q
  <2>1. \A j \in m + 1 .. m + n : s[j] \notin {y, z}
    BY <1>2, <1>4
  <2> PICK t : t = B[q]
    OBVIOUS
  <2>2. /\ t \in Seq(Item) /\ Len(t) = Len(s) - n
        /\ \A j \in 1 .. Len(t) : t[j] = IF j <= m THEN s[j] ELSE s[j + n]
    BY <1>0
  <2>3. s \in Seq(Item) /\ m \in Nat /\ n \in Nat /\ m + n <= Len(s)
    BY <1>0
  <2>4. InFront(t, y, z) <=> InFront(s, y, z)
    BY ONLY <2>1, <2>2, <2>3, CutOrder
  <2> QED BY <1>0, <1>1, <1>3, <1>6, <2>4 DEF Sooner
<1> QED
  BY <1>5, <1>6

(* What is left of the lists L of the pool, and the scheduled lists sch,   *)
(* when work x has been taken off them.                                    *)
Unlisted(L, sch, x) ==
  LET A == Places(L.worklist, sch, L.delayed)
  IN  L \in ListsType /\ sch \in [Worker -> Seq(Item)]
      /\ Left(A, L.data, L.active, x) /\ Full(A, L.active)
      /\ \E f : L.data \in {data, Undelayed(data, f)}
      /\ AheadStays(Placed, data, A, L.data, x)
      /\ OrdStays(Placed, data, A, L.data, x)

(* What Unlisted says when the places have a name.                         *)
LEMMA UnlistedAs ==
  ASSUME NEW L, NEW sch, NEW x, NEW A, A = Places(L.worklist, sch, L.delayed),
         L \in ListsType, sch \in [Worker -> Seq(Item)],
         Left(A, L.data, L.active, x), Full(A, L.active),
         \E f : L.data \in {data, Undelayed(data, f)},
         AheadStays(Placed, data, A, L.data, x), OrdStays(Placed, data, A, L.data, x)
  PROVE  Unlisted(L, sch, x)
BY DEF Unlisted

(* The lists before pwq_dec_nr_in_flight() looks for a delayed work.       *)
Unslotted(L, x, q) == [[L EXCEPT !.worklist = Without(L.worklist, x)] EXCEPT !.active[q] = L.active[q] - 1]

(* The fields of those lists, ...                                          *)
LEMMA UnslottedFacts ==
  ASSUME NEW L \in ListsType, NEW x \in Work, NEW q \in Pwq
  PROVE  /\ Unslotted(L, x, q) \in ListsType
         /\ Unslotted(L, x, q).worklist = Without(L.worklist, x)
         /\ Unslotted(L, x, q).delayed = L.delayed
         /\ Unslotted(L, x, q).data = L.data
         /\ Unslotted(L, x, q).active = Freed(L.active, q)
<1>1. Without(L.worklist, x) \in Seq(Item) /\ Freed(L.active, q) \in [Pwq -> Int]
  BY WithoutFacts DEF ListsType, Freed
<1>2. Unslotted(L, x, q) = [L EXCEPT !.worklist = Without(L.worklist, x), !.active = Freed(L.active, q)]
  BY DEF Unslotted, Freed, ListsType
<1> QED
  BY <1>1, <1>2 DEF ListsType

(* ... and those after it.                                                 *)
LEMMA DecFacts ==
  ASSUME NEW L \in ListsType, NEW x \in Work, NEW q \in Pwq, NEW M, M = Unslotted(L, x, q)
  PROVE  DecInFlight([L EXCEPT !.worklist = Without(L.worklist, x)], q, x) =
           IF M.delayed[q] # <<>> /\ M.active[q] < MaxActive[q] THEN Activate(M, q, 1) ELSE M
<1>1. x \notin Barrier
  BY WorkFacts DEF Caller
<1>2. M = [[L EXCEPT !.worklist = Without(L.worklist, x)] EXCEPT !.active[q] = @ - 1]
  BY DEF Unslotted, ListsType
<1> QED
  BY <1>1, <1>2 DEF DecInFlight

(* A work that is not delayed leaves, and the first delayed one may get    *)
(* its slot.                                                               *)
LEMMA StealActive ==
  ASSUME TypeOK, ListInv, WorkBooks, NEW x \in Work, NEW q \in Pwq, data[x].high = q, ~data[x].delayed
  PROVE  Unlisted(DecInFlight([Lists EXCEPT !.worklist = Without(Lists.worklist, x)], q, x),
                  AllWithout(scheduled, x), x)
<1>1. /\ Placed \in [Heads -> Seq(Item)] /\ data \in [Item -> Word] /\ nr_active \in [Pwq -> Int]
      /\ Injective(Placed, Heads) /\ Chained(Placed, data)
      /\ \A y \in Item : On(Placed, Heads, y) <=> data[y].high \in Pwq
      /\ \A p \in Pwq : Placed[p] = delayed_works[p] /\ SlotsOf(p)
  BY BookFacts
<1>2. Lists \in ListsType /\ Lists.worklist = worklist /\ Lists.delayed = delayed_works
      /\ Lists.data = data /\ Lists.active = nr_active
  BY DEF Lists, ListsType, TypeOK
<1>3. worklist \in Seq(Item) /\ scheduled \in [Worker -> Seq(Item)] /\ delayed_works \in [Pwq -> Seq(Item)]
  BY DEF TypeOK
<1>4. PICK h \in Heads : \E i \in 1 .. Len(Placed[h]) : Placed[h][i] = x
  BY <1>1, WorkFacts DEF On
<1>5. PICK k \in 1 .. Len(Placed[h]) : Placed[h][k] = x
  BY <1>4
<1>6. h \notin Pwq
  <2> SUFFICES ASSUME h \in Pwq PROVE FALSE
    OBVIOUS
  <2>1. SlotsOf(h) /\ Placed[h] = delayed_works[h]
    BY <1>1
  <2>2. Waits(h, x)
    BY <1>5, <2>1 DEF Waits
  <2> QED BY <2>1, <2>2 DEF SlotsOf
<1>7. PICK sch : sch = AllWithout(scheduled, x)
  OBVIOUS
<1>8. PICK M : M = Unslotted(Lists, x, q)
  OBVIOUS
<1>9. /\ M \in ListsType /\ M.worklist = Without(worklist, x) /\ M.delayed = delayed_works
      /\ M.data = data /\ M.active = Freed(nr_active, q)
  BY <1>2, <1>8, UnslottedFacts
<1>10. PICK B : B = Places(M.worklist, sch, M.delayed)
  OBVIOUS
<1>11. sch \in [Worker -> Seq(Item)] /\ Removes(Item, Heads, Placed, B, h, k)
  <2>1. SitsAt(Places(worklist, scheduled, delayed_works), h, k, x)
        /\ Injective(Places(worklist, scheduled, delayed_works), Heads)
    BY <1>1, <1>5, <1>6 DEF SitsAt, Placed
  <2>2. /\ AllWithout(scheduled, x) \in [Worker -> Seq(Item)]
        /\ Removes(Item, Heads, Places(worklist, scheduled, delayed_works),
                   Places(Without(worklist, x), AllWithout(scheduled, x), delayed_works), h, k)
    BY <1>3, <2>1, WithoutRemoves
  <2>3. B = Places(Without(worklist, x), AllWithout(scheduled, x), delayed_works)
    BY <1>7, <1>10, <1>9
  <2> QED BY <1>7, <2>2, <2>3 DEF Placed
<1>12. /\ Left(B, M.data, M.active, x)
       /\ \A p \in Pwq : p # q /\ B[p] # <<>> => M.active[p] = MaxActive[p]
  <2>1. /\ Left(B, data, Freed(nr_active, q), x)
        /\ \A p \in Pwq : p # q /\ B[p] # <<>> => Freed(nr_active, q)[p] = MaxActive[p]
    <3>1. TakenOff(Placed, B, h, k, x)
      BY <1>5, <1>6, <1>11 DEF TakenOff
    <3> QED BY <3>1, LeaveActive
  <2> QED BY <1>9, <2>1
<1>13. /\ B[q] = M.delayed[q] /\ B \in [Heads -> Seq(Item)] /\ q \in Heads
       /\ M.active \in [Pwq -> Int] /\ M.data \in [Item -> Word] /\ MaxActive[q] \in Int
  <2>1. M.worklist \in Seq(Item) /\ M.delayed \in [Pwq -> Seq(Item)]
    BY <1>9 DEF ListsType
  <2>2. PICK mw, md : mw = M.worklist /\ md = M.delayed
    OBVIOUS
  <2>3. mw \in Seq(Item) /\ md \in [Pwq -> Seq(Item)] /\ B = Places(mw, sch, md)
    BY <1>10, <2>1, <2>2
  <2>4. B[q] = md[q] /\ B \in [Heads -> Seq(Item)]
    BY <1>11, <2>3, PlacesFacts
  <2> QED BY <1>9, <2>4, <2>2, HeadFacts, PoolAssumption DEF ListsType
<1>14. PICK N : N = DecInFlight([Lists EXCEPT !.worklist = Without(Lists.worklist, x)], q, x)
  OBVIOUS
<1>15. N = IF M.delayed[q] # <<>> /\ M.active[q] < MaxActive[q] THEN Activate(M, q, 1) ELSE M
  BY <1>2, <1>8, <1>14, DecFacts
<1>16. AheadStays(Placed, data, B, data, x)
  BY <1>1, <1>5, <1>11, RemoveStays, WorkFacts DEF Caller
<1>17. \A p \in Pwq : B[p] = delayed_works[p]
  BY <1>1, <1>6, <1>11, HeadFacts DEF Removes
<1>18. CASE M.delayed[q] # <<>> /\ M.active[q] < MaxActive[q]
  <2>1. 1 \in 1 .. Len(M.delayed[q]) /\ N = Activate(M, q, 1)
    BY <1>13, <1>15, <1>18, EmptySeq, LenProperties
  <2>2. PICK C, n : C = Places(N.worklist, sch, N.delayed) /\ n = Tied(M, q, 1)
    OBVIOUS
  <2>3. /\ Cuts(Item, Heads, B, C, q, None, 1 - 1, n)
        /\ N.data = [M.data EXCEPT ![M.delayed[q][1]].delayed = FALSE]
        /\ N.active = [M.active EXCEPT ![q] = M.active[q] + 1]
        /\ n \in 1 .. Len(M.delayed[q]) - 1 + 1
        /\ \A i \in 1 .. 1 + n - 2 : M.data[M.delayed[q][i]].linked
        /\ 1 - 1 + n < Len(M.delayed[q]) => ~M.data[M.delayed[q][1 - 1 + n]].linked
    <3>1. Activated(M, sch, q, 1)
      BY <1>9, <1>11, <2>1, ActivateCuts
    <3> QED BY <1>10, <2>1, <2>2, <3>1 DEF Activated
  <2>4. /\ Cuts(Item, Heads, B, C, q, None, 0, n) /\ n \in 1 .. Len(B[q])
        /\ \A i \in 1 .. n - 1 : M.data[B[q][i]].linked
        /\ n < Len(B[q]) => ~M.data[B[q][n]].linked
    <3>1. Len(M.delayed[q]) \in Nat
      BY <1>13, LenProperties
    <3>2. n \in Int /\ 1 - 1 = 0 /\ 1 - 1 + n = n /\ 1 + n - 2 = n - 1
          /\ Len(M.delayed[q]) - 1 + 1 = Len(M.delayed[q])
      BY <2>3, <3>1
    <3> QED BY <1>13, <2>3, <3>2
  <2>5. N.data = Undelayed(M.data, B[q][1]) /\ N.active = Taken(M.active, q)
    BY <1>13, <2>3 DEF Undelayed, Taken
  <2>6. /\ Left(C, Undelayed(M.data, B[q][1]), Taken(M.active, q), x)
        /\ Full(C, Taken(M.active, q))
    <3>1. PICK d, act : d = M.data /\ act = M.active
      OBVIOUS
    <3>2. /\ Left(B, d, act, x) /\ B[q] # <<>> /\ act[q] < MaxActive[q]
          /\ \A p \in Pwq : p # q /\ B[p] # <<>> => act[p] = MaxActive[p]
          /\ \A i \in 1 .. n - 1 : d[B[q][i]].linked
          /\ n < Len(B[q]) => ~d[B[q][n]].linked
      BY <1>12, <1>13, <1>18, <2>4, <3>1
    <3>3. Left(C, Undelayed(d, B[q][1]), Taken(act, q), x) /\ Full(C, Taken(act, q))
      BY <2>4, <3>2, HandOn
    <3> QED BY <3>3, <3>1
  <2>7. N \in ListsType
    BY <1>9, <2>1, ActivateType
  <2>8. \E f : N.data \in {data, Undelayed(data, f)}
    BY <1>9, <2>5
  <2>9. AheadStays(Placed, data, C, N.data, x)
    <3>1. Chained(B, data)
      BY <1>9, <1>12 DEF Left
    <3>2. 0 + n < Len(B[q]) => ~data[B[q][0 + n]].linked
      <4>1. 0 + n = n
        BY <2>4
      <4> QED BY <1>9, <2>4, <4>1
    <3>3. AheadStays(B, data, C, data, x)
      BY <2>4, <3>1, <3>2, CutStays
    <3>4. AheadStays(C, data, C, Undelayed(data, B[q][1]), x)
      BY <1>1, <2>4, UndelayStays DEF Cuts
    <3>5. AheadStays(Placed, data, C, Undelayed(data, B[q][1]), x)
      BY <1>16, <3>3, <3>4, StaysTwice
    <3> QED BY <1>9, <2>5, <3>5
  <2>10. Left(C, N.data, N.active, x) /\ Full(C, N.active)
    BY <2>5, <2>6
  <2>11. OrdStays(Placed, data, C, N.data, x)
    <3> PICK s, t : s = B[q] /\ t = C[q]
      OBVIOUS
    <3>1. s \in Seq(Item) /\ s = delayed_works[q] /\ n \in 1 .. Len(s)
      BY <1>13, <1>17, <2>4
    <3>2. \A i \in 1 .. n - 1 : data[s[i]].linked
      BY <1>9, <2>4
    <3>3. /\ t \in Seq(Item) /\ Len(t) = Len(s) - n
          /\ \A j \in 1 .. Len(t) : t[j] = IF j <= 0 THEN s[j] ELSE s[j + n]
      BY <1>13, <2>4 DEF Cuts
    <3>4. \A j \in 1 .. Len(t) : t[j] = s[j + n]
      BY <3>3
    <3>5. \A p \in Pwq : p # q => C[p] = delayed_works[p]
      BY <1>17, <2>4, HeadFacts DEF Cuts
    <3>6. OrdStays(Placed, data, C, Undelayed(data, s[1]), x)
      BY <3>1, <3>2, <3>3, <3>4, <3>5, HandOnOrder
    <3> QED BY <1>9, <2>5, <3>6
  <2>12. Unlisted(N, sch, x)
    BY <1>11, <2>2, <2>7, <2>8, <2>9, <2>10, <2>11, UnlistedAs
  <2> QED BY <1>7, <1>14, <2>12
<1>19. CASE ~(M.delayed[q] # <<>> /\ M.active[q] < MaxActive[q])
  <2>1. N = M
    BY <1>15, <1>19
  <2>2. Full(B, M.active)
    <3>1. B[q] # <<>> => M.active[q] = MaxActive[q]
      BY <1>12, <1>13, <1>19 DEF Left, LeftSlots
    <3> QED BY <1>12, <3>1 DEF Full
  <2>3. \E f : N.data \in {data, Undelayed(data, f)}
    BY <1>9, <2>1
  <2>4. AheadStays(Placed, data, B, N.data, x)
    BY <1>9, <1>16, <2>1
  <2>5. OrdStays(Placed, data, B, N.data, x)
    <3>1. N.data = data /\ \A p \in OrderedPwq : B[p] = Placed[p]
      BY <1>1, <1>9, <1>17, <2>1 DEF OrderedPwq
    <3> QED BY <3>1 DEF OrdStays
  <2>6. N \in ListsType /\ B = Places(N.worklist, sch, N.delayed) /\ sch \in [Worker -> Seq(Item)]
        /\ Left(B, N.data, N.active, x) /\ Full(B, N.active)
    BY <1>9, <1>10, <1>11, <1>12, <2>1, <2>2
  <2>7. Unlisted(N, sch, x)
    BY <2>3, <2>4, <2>5, <2>6, UnlistedAs
  <2> QED BY <1>7, <1>14, <2>7
<1> QED
  BY <1>18, <1>19

(* A delayed work at place k leaves.                                       *)
LEMMA StealDelayed ==
  ASSUME TypeOK, ListInv, WorkBooks, NEW x \in Work, NEW q \in Pwq, data[x].high = q, data[x].delayed,
         NEW k \in 1 .. Len(delayed_works[q]), delayed_works[q][k] = x,
         NEW L, L = Activate(Lists, q, k)
  PROVE  Unlisted(DecInFlight([L EXCEPT !.worklist = Without(L.worklist, x)], q, x),
                  AllWithout(scheduled, x), x)
<1>1. /\ Placed \in [Heads -> Seq(Item)] /\ data \in [Item -> Word] /\ nr_active \in [Pwq -> Int]
      /\ Injective(Placed, Heads) /\ Chained(Placed, data)
      /\ \A y \in Item : On(Placed, Heads, y) <=> data[y].high \in Pwq
      /\ \A p \in Pwq : Placed[p] = delayed_works[p] /\ SlotsOf(p)
  BY BookFacts
<1>2. Lists \in ListsType /\ Lists.worklist = worklist /\ Lists.delayed = delayed_works
      /\ Lists.data = data /\ Lists.active = nr_active
  BY DEF Lists, ListsType, TypeOK
<1>3. worklist \in Seq(Item) /\ scheduled \in [Worker -> Seq(Item)]
  BY DEF TypeOK
<1>4. L \in ListsType
  BY <1>2, ActivateType
<1>5. PICK s, m, n : s = delayed_works[q] /\ m = k - 1 /\ n = Tied(Lists, q, k)
  OBVIOUS
<1>6. PICK A : A = Places(L.worklist, scheduled, L.delayed)
  OBVIOUS
<1>7. s \in Seq(Item) /\ Len(s) \in Nat /\ k \in Nat /\ m \in Nat /\ m + 1 = k /\ s[m + 1] = x /\ Placed[q] = s
  BY <1>1, <1>5, LenProperties DEF TypeOK
<1>8. /\ Cuts(Item, Heads, Placed, A, q, None, m, n)
      /\ L.data = Undelayed(data, x) /\ L.active = [nr_active EXCEPT ![q] = nr_active[q] + 1]
      /\ n \in 1 .. Len(s) - k + 1
      /\ \A i \in k .. k + n - 2 : data[s[i]].linked
      /\ m + n < Len(s) => ~data[s[m + n]].linked
  <2>1. Activated(Lists, scheduled, q, k)
    BY <1>2, <1>3, ActivateCuts
  <2> QED BY <1>2, <1>5, <1>6, <2>1 DEF Activated, Placed, Undelayed
<1>9. n > 0 /\ n \in Nat /\ Chains(s, data, m, n)
  <2>1. n \in Nat /\ n > 0 /\ \A i \in m + 1 .. m + n - 1 : i \in k .. k + n - 2
    BY <1>7, <1>8
  <2> QED BY <1>8, <2>1 DEF Chains
<1>10. /\ L.worklist \in Seq(Item) /\ L.delayed \in [Pwq -> Seq(Item)]
       /\ L.data \in [Item -> Word] /\ L.active \in [Pwq -> Int]
  BY <1>4 DEF ListsType
<1>11. Injective(A, Heads)
  BY <1>1, <1>8, CutSlice
<1>12. PICK j : SitsAt(A, None, j, x)
  <2>1. /\ Len(A[None]) = Len(Placed[None]) + n
        /\ \A i \in 1 .. Len(A[None]) :
             A[None][i] = IF i <= Len(Placed[None]) THEN Placed[None][i]
                          ELSE Placed[q][i - Len(Placed[None]) + m]
    BY <1>8 DEF Cuts
  <2>2. Len(Placed[None]) \in Nat
    BY <1>1, HeadFacts, LenProperties
  <2> PICK j : j = Len(Placed[None]) + 1
    OBVIOUS
  <2>3. j \in 1 .. Len(A[None]) /\ ~(j <= Len(Placed[None])) /\ j - Len(Placed[None]) + m = m + 1
    BY <1>7, <1>9, <2>1, <2>2
  <2>4. A[None][j] = x
    BY <1>7, <2>1, <2>3
  <2> QED BY <2>3, <2>4, HeadFacts DEF SitsAt
<1>13. PICK sch : sch = AllWithout(scheduled, x)
  OBVIOUS
<1>14. PICK M : M = Unslotted(L, x, q)
  OBVIOUS
<1>15. /\ M \in ListsType /\ M.worklist = Without(L.worklist, x) /\ M.delayed = L.delayed
       /\ M.data = L.data /\ M.active = Freed(L.active, q)
  BY <1>4, <1>14, UnslottedFacts
<1>16. M.active = nr_active /\ MaxActive[q] \in Int
  BY <1>1, <1>8, <1>15, PoolAssumption DEF Freed
<1>17. PICK B : B = Places(M.worklist, sch, M.delayed)
  OBVIOUS
<1>18. sch \in [Worker -> Seq(Item)] /\ TakenOff(A, B, None, j, x)
  <2>1. PICK lw, ld : lw = L.worklist /\ ld = L.delayed
    OBVIOUS
  <2>2. lw \in Seq(Item) /\ ld \in [Pwq -> Seq(Item)] /\ A = Places(lw, scheduled, ld)
        /\ B = Places(Without(lw, x), AllWithout(scheduled, x), ld)
    BY <1>10, <1>15, <1>6, <1>17, <1>13, <2>1
  <2>3. Injective(Places(lw, scheduled, ld), Heads) /\ SitsAt(Places(lw, scheduled, ld), None, j, x)
    BY <1>11, <1>12, <2>2
  <2>4. /\ AllWithout(scheduled, x) \in [Worker -> Seq(Item)]
        /\ Removes(Item, Heads, Places(lw, scheduled, ld),
                   Places(Without(lw, x), AllWithout(scheduled, x), ld), None, j)
    BY <1>3, <2>2, <2>3, WithoutRemoves
  <2> QED BY <1>12, <1>13, <2>2, <2>4 DEF TakenOff, SitsAt
<1>19. Left(B, Undelayed(data, x), nr_active, x) /\ Full(B, nr_active)
  <2>1. /\ Placed[q][m + 1] = x /\ Chains(Placed[q], data, m, n)
        /\ m + n < Len(Placed[q]) => ~data[Placed[q][m + n]].linked
    BY <1>7, <1>8, <1>9
  <2> QED BY <1>8, <1>9, <1>18, <2>1, LeaveDelayed
<1>20. PICK N : N = DecInFlight([L EXCEPT !.worklist = Without(L.worklist, x)], q, x)
  OBVIOUS
<1>21. N = M
  <2>1. N = IF M.delayed[q] # <<>> /\ M.active[q] < MaxActive[q] THEN Activate(M, q, 1) ELSE M
    BY <1>4, <1>14, <1>20, DecFacts
  <2>2. SlotsOf(q) /\ delayed_works[q] # <<>>
    BY <1>1, <1>7, <1>5, EmptySeq
  <2>3. ~(M.active[q] < MaxActive[q])
    BY <1>16, <2>2 DEF SlotsOf
  <2> QED BY <2>1, <2>3
<1>22. \E f : N.data \in {data, Undelayed(data, f)}
  BY <1>8, <1>15, <1>21
<1>23. Left(B, N.data, N.active, x) /\ Full(B, N.active) /\ N \in ListsType
       /\ B = Places(N.worklist, sch, N.delayed)
  BY <1>17, <1>8, <1>15, <1>16, <1>19, <1>21
<1>24. AheadStays(Placed, data, B, N.data, x)
  <2>1. AheadStays(Placed, data, A, data, x)
    <3>1. m + n < Len(Placed[q]) => ~data[Placed[q][m + n]].linked
      BY <1>7, <1>8
    <3>2. Placed[q][m + 1] \notin Barrier
      BY <1>7, WorkFacts DEF Caller
    <3> QED BY <1>1, <1>8, <3>1, <3>2, CutStays
  <2>2. Chained(A, data)
    <3>1. m + n < Len(Placed[q]) => ~data[Placed[q][m + n]].linked
      BY <1>7, <1>8
    <3>2. m > 0 => ~(data[Placed[q][m]].linked /\ Placed[q][m + 1] \in Barrier)
      BY <1>7, WorkFacts DEF Caller
    <3> QED BY <1>1, <1>8, <3>1, <3>2, HeadFacts, ChainedCuts
  <2>3. AheadStays(A, data, B, data, x)
    BY <1>18, <2>2, RemoveStays, WorkFacts DEF TakenOff, Caller
  <2>4. AheadStays(B, data, B, Undelayed(data, x), x)
    BY <1>1, <1>18, UndelayStays DEF TakenOff, Removes
  <2>5. AheadStays(Placed, data, B, Undelayed(data, x), x)
    BY <2>1, <2>3, <2>4, StaysTwice
  <2> QED BY <1>8, <1>15, <1>21, <2>5
<1>25. OrdStays(Placed, data, B, N.data, x)
  <2> PICK t : t = B[q]
    OBVIOUS
  <2>1. \A p \in Pwq : B[p] = A[p]
    BY <1>18, HeadFacts DEF TakenOff, Removes
  <2>2. t = A[q] /\ A[q] \in Seq(Item) /\ Len(A[q]) = Len(Placed[q]) - n /\ q \in Heads
        /\ \A i \in 1 .. Len(A[q]) : A[q][i] = IF i <= m THEN Placed[q][i] ELSE Placed[q][i + n]
    BY <1>8, <2>1, HeadFacts DEF Cuts
  <2>3. /\ t \in Seq(Item) /\ Len(t) = Len(s) - n
        /\ \A i \in 1 .. Len(t) : t[i] = IF i <= m THEN s[i] ELSE s[i + n]
    BY <1>7, <2>2
  <2>4. \A p \in Pwq : p # q => B[p] = delayed_works[p]
    BY <1>1, <1>8, <2>1, HeadFacts DEF Cuts
  <2>5. m + n <= Len(s)
    BY <1>7, <1>8 DEF Cuts
  <2>6. OrdStays(Placed, data, B, Undelayed(data, x), x)
    <3>1. s \in Seq(Item) /\ s = delayed_works[q] /\ m \in Nat /\ n \in Nat /\ s[m + 1] = x
      BY <1>5, <1>7, <1>9
    <3>2. /\ B[q] \in Seq(Item) /\ Len(B[q]) = Len(s) - n
          /\ \A i \in 1 .. Len(B[q]) : B[q][i] = IF i <= m THEN s[i] ELSE s[i + n]
      BY <2>3
    <3>3. DelayedCut(B, q, s, m, n)
      BY <2>4, <2>5, <3>1, <3>2 DEF DelayedCut
    <3>4. TypeOK /\ ListInv /\ WorkBooks /\ x \in Work /\ q \in Pwq /\ Chains(s, data, m, n)
      BY <1>9
    <3> QED BY ONLY <3>1, <3>3, <3>4, DelayedLeavesOrder
  <2> QED BY <1>8, <1>15, <1>21, <2>6
<1> QED
  <2>1. Unlisted(N, sch, x)
    BY <1>18, <1>22, <1>23, <1>24, <1>25, UnlistedAs
  <2> QED BY <1>13, <1>20, <2>1

(* Nothing but the bit DELAYED of f changes.                               *)
LEMMA UndelayedFacts ==
  ASSUME NEW d \in [Item -> Word], NEW f, NEW e, e \in {d, Undelayed(d, f)}
  PROVE  /\ e \in [Item -> Word]
         /\ \A y \in Item : /\ e[y].high = d[y].high
                            /\ e[y].pending <=> d[y].pending
                            /\ e[y].canceling <=> d[y].canceling
<1>1. CASE f \in Item /\ e = Undelayed(d, f)
  <2>1. PICK v : v = [d[f] EXCEPT !.delayed = FALSE]
    OBVIOUS
  <2>2. /\ v \in Word /\ v.high = d[f].high /\ (v.pending <=> d[f].pending)
        /\ v.canceling <=> d[f].canceling
    BY <1>1, <2>1 DEF Word
  <2>3. e = [d EXCEPT ![f] = v]
    BY <1>1, <2>1 DEF Undelayed
  <2>4. e[f] = v /\ e \in [Item -> Word] /\ \A y \in Item : y # f => e[y] = d[y]
    BY <1>1, <2>2, <2>3
  <2> QED BY <2>2, <2>4
<1>2. CASE ~(f \in Item /\ e = Undelayed(d, f))
  <2>1. e = d
    BY <1>2 DEF Undelayed
  <2> QED BY <2>1
<1> QED
  BY <1>1, <1>2

(* The lists when a delayed work has been activated.                       *)
Promoted(x, q) ==
  LET s == delayed_works[q]
  IN  IF data[x].delayed THEN Activate(Lists, q, CHOOSE k \in 1 .. Len(s) : s[k] = x) ELSE Lists

(* try_to_grab_pending() keeps the pool's lists and books.                 *)
LEMMA StealBooks ==
  ASSUME TypeOK, ListInv, WorkBooks, NEW x \in Work, NEW q \in Pwq, data[x].high = q,
         SetLists(Stolen(x, q)), scheduled' = AllWithout(scheduled, x),
         UNCHANGED <<lock, state, queueing, workerVars>>
  PROVE  /\ TypeOK' /\ ListInv' /\ WorkBooks'
         /\ data'[x] = OffQueue(PoolId, TRUE)
         /\ \A y \in Item \ {x} : /\ data'[y].high = data[y].high
                                  /\ data'[y].pending <=> data[y].pending
                                  /\ data'[y].canceling <=> data[y].canceling
         /\ AheadStays(Placed, data, Placed', data', x)
         /\ OrdStays(Placed, data, Placed', data', x)
<1>1. PICK L : L = Promoted(x, q)
  OBVIOUS
<1>2. PICK M : M = DecInFlight([L EXCEPT !.worklist = Without(L.worklist, x)], q, x)
  OBVIOUS
<1>3. Unlisted(M, AllWithout(scheduled, x), x)
  <2>1. CASE ~data[x].delayed
    <3>1. L = Lists
      BY <1>1, <2>1 DEF Promoted
    <3>2. Unlisted(DecInFlight([Lists EXCEPT !.worklist = Without(Lists.worklist, x)], q, x),
                   AllWithout(scheduled, x), x)
      BY <2>1, StealActive
    <3> QED BY <1>2, <3>1, <3>2
  <2>2. CASE data[x].delayed
    <3>1. SlotsOf(q)
      BY BookFacts
    <3>2. \E i \in 1 .. Len(delayed_works[q]) : delayed_works[q][i] = x
      BY <2>2, <3>1 DEF SlotsOf, Waits
    <3>3. PICK k \in 1 .. Len(delayed_works[q]) :
            k = CHOOSE i \in 1 .. Len(delayed_works[q]) : delayed_works[q][i] = x
      BY <3>2
    <3>4. delayed_works[q][k] = x
      BY <3>2, <3>3
    <3>5. L = Activate(Lists, q, k)
      BY <1>1, <2>2, <3>3 DEF Promoted
    <3>6. Unlisted(DecInFlight([L EXCEPT !.worklist = Without(L.worklist, x)], q, x),
                   AllWithout(scheduled, x), x)
      BY <2>2, <3>4, <3>5, StealDelayed
    <3> QED BY <1>2, <3>6
  <2> QED BY <2>1, <2>2
<1>4. /\ worklist' = M.worklist /\ delayed_works' = M.delayed /\ nr_active' = M.active
      /\ data' = [M.data EXCEPT ![x] = OffQueue(PoolId, TRUE)]
  <2>1. Stolen(x, q) = [M EXCEPT !.data[x] = OffQueue(PoolId, TRUE)]
    <3>1. Stolen(x, q) = [DecInFlight([Promoted(x, q) EXCEPT !.worklist = Without(@, x)], q, x)
                            EXCEPT !.data[x] = OffQueue(PoolId, TRUE)]
      BY Zenon DEF Stolen, Promoted
    <3>2. DecInFlight([L EXCEPT !.worklist = Without(@, x)], q, x) = M
      BY <1>2
    <3> QED BY <1>1, <3>1, <3>2
  <2>2. M \in ListsType
    BY <1>3 DEF Unlisted
  <2> QED BY <2>1, <2>2 DEF SetLists, ListsType
<1>5. PICK A, d, act : A = Places(M.worklist, scheduled', M.delayed) /\ d = M.data /\ act = M.active
  OBVIOUS
<1>6. /\ Left(A, d, act, x) /\ Full(A, act) /\ scheduled' \in [Worker -> Seq(Item)]
      /\ \E f : d \in {data, Undelayed(data, f)}
      /\ worklist' \in Seq(Item) /\ delayed_works' \in [Pwq -> Seq(Item)] /\ act \in [Pwq -> Int]
      /\ d \in [Item -> Word] /\ AheadStays(Placed, data, A, d, x) /\ OrdStays(Placed, data, A, d, x)
  BY <1>3, <1>4, <1>5 DEF Unlisted, ListsType
<1>7. A = Placed' /\ act = nr_active'
  BY <1>4, <1>5 DEF Placed
<1>8. /\ x \in Item /\ OffQueue(PoolId, TRUE) \in Word
      /\ data' = [d EXCEPT ![x] = OffQueue(PoolId, TRUE)]
  BY <1>4, <1>5, WorkFacts DEF OffQueue, WorkDataInit, Word
<1>9. data'[x] = OffQueue(PoolId, TRUE) /\ data' \in [Item -> Word] /\ \A y \in Item : y # x => data'[y] = d[y]
  <2>1. PICK word : word = OffQueue(PoolId, TRUE)
    OBVIOUS
  <2>2. x \in Item /\ word \in Word /\ data' = [d EXCEPT ![x] = word]
    BY <1>8, <2>1
  <2>3. data'[x] = word /\ data' \in [Item -> Word] /\ \A y \in Item : y # x => data'[y] = d[y]
    BY <1>6, <2>2
  <2> QED BY <2>3, <2>1
<1>10. TypeOK'
  <2>1. nr_active' \in [Pwq -> Int]
    BY <1>6, <1>7
  <2> QED BY <1>6, <1>9, <2>1 DEF TypeOK, workerVars, idleVars
<1>11. \A w \in Worker : scheduled'[w] # <<>> => scheduled[w] # <<>>
  <2> SUFFICES ASSUME NEW w \in Worker, scheduled[w] = <<>> PROVE scheduled'[w] = <<>>
    OBVIOUS
  <2>1. ~In(scheduled[w], x) /\ scheduled[w] \in Seq(Item)
    BY DEF In, TypeOK
  <2>2. Without(scheduled[w], x) = scheduled[w]
    BY <2>1, WithoutFacts
  <2> QED BY <2>2 DEF AllWithout
<1>12. ListInv' /\ WorkBooks'
  <2>1. UNCHANGED <<pc, current_work, current_pwq>>
    BY DEF workerVars
  <2>2. Left(Placed', d, nr_active', x) /\ Full(Placed', nr_active')
    BY <1>6, <1>7
  <2> QED BY <1>8, <1>10, <1>11, <2>1, <2>2, StealEnds
<1>13. \A y \in Item : /\ d[y].high = data[y].high
                       /\ d[y].pending <=> data[y].pending
                       /\ d[y].canceling <=> data[y].canceling
  <2>1. data \in [Item -> Word]
    BY DEF TypeOK
  <2> QED BY <1>6, <2>1, UndelayedFacts
<1>14. AheadStays(Placed, data, Placed', data', x)
  <2>1. ~On(A, Heads, x) /\ A \in [Heads -> Seq(Item)]
    BY <1>6, WorkFacts DEF Left
  <2>2. \A y \in Item : On(A, Heads, y) /\ d[y].linked => data'[y].linked
    BY <1>9, <2>1
  <2>3. ASSUME NEW y \in Work, NEW b \in Barrier, y # x, Ahead(Placed, data, y, b)
        PROVE  Ahead(Placed', data', y, b)
    <3>1. Ahead(A, d, y, b)
      BY <1>6, <2>3 DEF AheadStays
    <3> QED BY <1>7, <2>1, <2>2, <3>1, AheadSame
  <2> QED BY <2>3 DEF AheadStays
<1>15. OrdStays(Placed, data, Placed', data', x)
  <2>1. \A y \in Work \ {x} : data'[y] = d[y]
    BY <1>9, WorkFacts
  <2>2. OrdStays(Placed, data, Placed', d, x)
    BY <1>6, <1>7
  <2> QED BY <2>1, <2>2 DEF OrdStays, Sooner
<1> QED
  BY <1>9, <1>10, <1>12, <1>13, <1>14, <1>15

(* The caller that found nothing to steal tries again.                     *)
LEMMA StealFails ==
  ASSUME QInv, NEW c \in Caller, Steal(c), ~get_work_pool(tgt[c])
  PROVE  QInv'
<1>1. /\ TypeOK /\ TypeC /\ CoreInv /\ WorkBooks /\ CallerInv
      /\ Frame(c) /\ tgt[c] \in Work /\ cpc[c] = "steal"
  BY QParts, TargetFacts DEF Steal, CallerInv
<1>2. PICK x \in Work : x = tgt[c]
  BY <1>1
<1>3. Goto(c, "failed") /\ Stay /\ UNCHANGED timerVars /\ UNCHANGED done /\ UNCHANGED awaits
  BY DEF Steal, Stay
<1>4. PICK l \in Stops : l = "failed"
  BY DEF Stops
<1>5. cpc'[c] = l /\ tgt'[c] = tgt[c] /\ op'[c] = op[c] /\ Goto(c, l)
  BY <1>1, <1>3, <1>4, GotoFacts
<1>6. Frame(c)'
  BY <1>1, <1>4, <1>5, WorkFacts DEF Frame
<1>7. /\ Holds(c, x)' <=> Holds(c, x)
      /\ Cancels(c, x)' <=> Cancels(c, x)
  BY <1>1, <1>4, <1>5 DEF Holds, Owns, Cancels
<1> QED
  BY <1>1, <1>2, <1>4, <1>3, <1>5, <1>6, <1>7, StaysQ

(* What a steal does.                                                      *)
LEMMA StealFacts ==
  ASSUME NEW c \in Caller, Steal(c), NEW x, x = tgt[c], get_work_pool(x)
  PROVE  /\ lock = None /\ SetLists(Stolen(x, data[x].high)) /\ scheduled' = AllWithout(scheduled, x)
         /\ awaits' = [d \in Caller |-> IF awaits[d] = "queued" /\ tgt[d] = x THEN "none" ELSE awaits[d]]
         /\ Grabbed(c) /\ UNCHANGED <<lock, state, queueing, workerVars>>
         /\ UNCHANGED timerVars /\ UNCHANGED done
BY DEF Steal, AllWithout

(* With the lock free nobody is where the worklist matters to PoolCore.    *)
LEMMA ListsCore ==
  ASSUME PoolCore, lock = None, UNCHANGED <<lock, state, workerVars>>
  PROVE  PoolCore'
<1>1. \A w \in Worker : pc[w] # "sleep"
  BY HeadFacts DEF PoolCore, LockHolder
<1> QED
  BY <1>1 DEF PoolCore, workerVars, idleVars, LockHolder, NrRunningExact, IdleLen, SpareHeld,
              SleepEmpty, Busy, NonReentrant

(* try_to_grab_pending() takes the work, and PENDING, off its list.        *)
LEMMA StealQ ==
  ASSUME QInv, NEW c \in Caller, Steal(c)
  PROVE  QInv'
<1>1. /\ TypeOK /\ TypeC /\ CoreInv /\ WorkBooks /\ CallerInv
      /\ Frame(c) /\ tgt[c] \in Work /\ cpc[c] = "steal"
  BY QParts, TargetFacts DEF Steal, CallerInv
<1>2. PICK x \in Work : x = tgt[c]
  BY <1>1
<1>3. CASE ~get_work_pool(x)
  BY <1>2, <1>3, StealFails
<1>4. CASE get_work_pool(x)
  <2>1. PICK q \in Pwq : q = data[x].high
    BY <1>4 DEF get_work_pool
  <2>2. /\ lock = None /\ SetLists(Stolen(x, q)) /\ scheduled' = AllWithout(scheduled, x)
        /\ Grabbed(c) /\ UNCHANGED <<lock, state, queueing, workerVars>>
        /\ UNCHANGED timerVars /\ UNCHANGED done
    BY <1>2, <1>4, <2>1, StealFacts
  <2>3. awaits' \in [Caller -> {"none", "queued", "running"}]
    <3>1. awaits' = [d \in Caller |-> IF awaits[d] = "queued" /\ tgt[d] = x THEN "none" ELSE awaits[d]]
      BY <1>2, <1>4, StealFacts
    <3> QED BY <1>1, <3>1 DEF TypeC
  <2>4. /\ TypeOK' /\ ListInv' /\ WorkBooks' /\ data'[x] = OffQueue(PoolId, TRUE)
        /\ \A y \in Item \ {x} : /\ data'[y].high = data[y].high
                                 /\ data'[y].pending <=> data[y].pending
                                 /\ data'[y].canceling <=> data[y].canceling
    BY <1>1, <2>1, <2>2, StealBooks DEF CoreInv
  <2>5. CoreInv'
    BY <1>1, <2>2, <2>4, ListsCore DEF CoreInv
  <2>6. PICK l \in {"mark", "drop"} : Goto(c, l) /\ Frame(c)' /\ op'[c] = op[c]
    BY <1>1, <2>2, GrabbedFacts
  <2>7. l \in Stops
    BY <2>6 DEF Stops
  <2>8. cpc'[c] = l /\ tgt'[c] = tgt[c]
    BY <1>1, <2>6, <2>7, GotoFacts
  <2>9. SoleAt(x) /\ CancelAt(x) /\ Listed(x)
    BY <1>1, <1>4, CancelingAs DEF CallerInv, Sole, get_work_pool, Listed
  <2>10. /\ data'[x].pending = TRUE /\ data'[x].canceling = FALSE /\ ~Listed(x)'
         /\ ~data[x].canceling
    <3>1. OffQueue(PoolId, TRUE).pending = TRUE /\ OffQueue(PoolId, TRUE).canceling = FALSE
          /\ OffQueue(PoolId, TRUE).high = PoolId /\ PoolId \notin Pwq
      BY HeadFacts DEF OffQueue, WorkDataInit
    <3> QED BY <2>4, <2>9, <3>1, Uncanceled DEF Listed
  <2>11. UNCHANGED <<queueing, tmr, arming, dwq, firing, pc, current_work>>
    BY <2>2 DEF timerVars, workerVars
  <2>12. /\ (Queues(x)' <=> Queues(x)) /\ (Arms(x)' <=> Arms(x)) /\ (Ticks(x)' <=> Ticks(x))
         /\ \A y \in Work : y # x => SameOwners(y)
    BY <2>4, <2>11, WorkFacts DEF SameOwners, Queues, Arms, Ticks, Listed
  <2>13. /\ Holds(c, x)' /\ ~Cancels(c, x) /\ ~Cancels(c, x)' /\ ~Holds(c, x)
         /\ \A d \in Caller : d # c => (Holds(d, x)' <=> Holds(d, x)) /\ (Cancels(d, x)' <=> Cancels(d, x))
    <3>1. Holds(c, x)' /\ ~Holds(c, x) /\ ~Cancels(c, x) /\ ~Cancels(c, x)'
      BY <1>1, <1>2, <2>6, <2>8 DEF Holds, Owns, Cancels
    <3> QED BY <1>1, <1>2, <2>6, <2>7, <3>1, OtherWorks
  <2>14. SoleAt(x)'
    BY <2>9, <2>10, <2>12, <2>13 DEF SoleAt
  <2>15. CancelAt(x)'
    BY <2>9, <2>10, <2>13 DEF CancelAt
  <2>16. BarrierQuiet'
    <3>1. \A d \in Caller : data'[d].high = data[d].high
      BY <2>4, WorkFacts
    <3> QED BY <1>1, <2>2, <2>6, <2>7, <2>11, <3>1, CallerQuiet DEF CallerInv
  <2>17. CancelWaiterWoken'
    <3>1. \A y \in Work : data[y].canceling => data'[y].canceling
      BY <2>4, <2>10, WorkFacts
    <3> QED BY <1>1, <2>6, <2>7, <3>1, CallerWoken DEF CallerInv
  <2>18. /\ done' \in [Caller -> BOOLEAN] /\ tmr' \in [DelayedWork -> BOOLEAN]
         /\ \A y \in DelayedWork : tmr'[y] => tmr[y]
    BY <1>1, <2>2, <2>11 DEF TypeC
  <2> QED
    BY <1>2, <2>3, <2>4, <2>5, <2>6, <2>7, <2>11, <2>12, <2>14, <2>15, <2>16, <2>17, <2>18, CallerQ
<1> QED
  BY <1>3, <1>4
-----------------------------------------------------------------------------
(* All steps                                                               *)

(* At the start nobody owns a work, and nobody waits.                      *)
LEMMA InitQInv == InitQ => QInv
<1> SUFFICES ASSUME InitQ PROVE QInv
  OBVIOUS
<1>1. /\ tmr = [x \in DelayedWork |-> FALSE] /\ arming = {}
      /\ firing = [x \in DelayedWork |-> "off"]
      /\ dwq \in [DelayedWork -> Pwq \cup {None}]
      /\ cpc = [c \in Caller |-> "idle"]
      /\ op = [c \in Caller |-> None] /\ tgt = [c \in Caller |-> None]
      /\ done = [c \in Caller |-> FALSE] /\ awaits = [c \in Caller |-> "none"]
  BY DEF InitQ
<1>2. Init
  BY DEF InitQ
<1>3. /\ data = [i \in Item |-> WorkDataInit] /\ queueing = [x \in Work |-> None]
      /\ current_work = [w \in Worker |-> None]
  BY <1>2 DEF Init
<1>4. CoreInv /\ TypeOK
  BY <1>2, InitIInv DEF IInv, CoreInv
<1>5. WorkBooks
  BY <1>2, InitBooks DEF BooksInv, WorkBooks
<1>6. TypeC
  BY <1>1 DEF TypeC, Stops
<1>7. \A i \in Item : ~data[i].pending /\ ~data[i].canceling /\ data[i].high \notin Pwq
  BY <1>3, HeadFacts DEF WorkDataInit
<1>8. Frames
  BY <1>1 DEF Frames, Frame
<1>9. BarrierQuiet
  <2> SUFFICES ASSUME NEW c \in Caller PROVE Quiet(c)
    BY DEF BarrierQuiet
  <2>1. data[c].high \notin Pwq /\ c # None /\ ~done[c]
    BY <1>1, <1>7, WorkFacts, NoneFacts
  <2>2. \A w \in Worker : current_work[w] # c
    BY <1>3, <2>1
  <2> QED BY <2>1, <2>2 DEF Quiet
<1>10. TimersReady
  BY <1>1 DEF TimersReady
<1>11. \A c \in Caller, x \in Work : ~Holds(c, x) /\ ~Cancels(c, x)
  BY <1>1, WorkFacts DEF Holds, Cancels
<1>12. ASSUME NEW x \in Work PROVE SoleAt(x) /\ CancelAt(x)
  <2>1. ~Queues(x) /\ ~Arms(x) /\ ~Ticks(x) /\ ~Listed(x) /\ ~data[x].pending /\ ~data[x].canceling
    BY <1>1, <1>3, <1>7, WorkFacts DEF Queues, Arms, Ticks, Listed
  <2> QED BY <1>11, <2>1 DEF SoleAt, CancelAt
<1>13. CancelWaiterWoken
  BY <1>1 DEF CancelWaiterWoken
<1>14. CallerInv
  BY <1>8, <1>9, <1>10, <1>12, <1>13, CancelingAs DEF CallerInv, Sole
<1> QED
  BY <1>4, <1>5, <1>6, <1>14, QParts

(* Every step keeps the invariant.                                         *)
LEMMA NextQInv == QInv /\ [NextQ]_allVars => QInv'
<1> SUFFICES ASSUME QInv, [NextQ]_allVars PROVE QInv'
  OBVIOUS
<1>1. ASSUME NEW x \in Work, StartQueueing(x) \/ ClientQueues(x) PROVE QInv'
  BY <1>1, StartQueueingQ, ClientQueuesQ
<1>2. ASSUME NEW w \in Worker, WorkerRuns(w) PROVE QInv'
  BY <1>2, WorkerRunsQ
<1>3. ASSUME IdleTimer PROVE QInv'
  BY <1>3, IdleTimerQ
<1>4. ASSUME NEW x \in DelayedWork, NEW q \in Pwq, QueueDelayed(x, q) PROVE QInv'
  BY <1>4, QueueDelayedQ
<1>5. ASSUME NEW x \in DelayedWork, ArmTimer(x) \/ FireTimer(x) \/ TimerFn(x) PROVE QInv'
  BY <1>5, ArmTimerQ, FireTimerQ, TimerFnQ
<1>6. ASSUME NEW x \in DelayedWork, FiredTimer(x) PROVE QInv'
  <2>1. firing' \in [DelayedWork -> {"off", "calling", "called"}]
    BY <1>6, QParts DEF TypeC, FiredTimer
  <2> QED BY <1>6, <2>1, FiredTimerQ DEF FiredTimer
<1>7. ASSUME NEW c \in Caller, Call(c) PROVE QInv'
  BY <1>7, CallQ
<1>8. ASSUME NEW c \in Caller, CallerStep(c) PROVE QInv'
  BY <1>8, DelTimerSyncQ, QueueNowQ, FlushReadQ, FlushLockQ, FlushWaitQ, DelTimerQ, TestAndSetQ,
     ReadPoolQ, StealQ, FailedQ, DropQ, CondWaitQ, MarkQ, ClearQ, BroadcastQ DEF CallerStep
<1>9. CASE UNCHANGED allVars
  <2>1. firing' \in [DelayedWork -> {"off", "calling", "called"}]
    BY <1>9, QParts DEF TypeC, allVars, timerVars
  <2> QED BY <1>9, <2>1, FiredTimerQ DEF allVars, timerVars
<1> QED
  BY <1>1, <1>2, <1>3, <1>4, <1>5, <1>6, <1>7, <1>8, <1>9 DEF NextQ, Timers

(* So it holds in every state.                                             *)
THEOREM QueueInvariance == SpecQ => []QInv
<1> QED
  BY InitQInv, NextQInv, PTL DEF SpecQ

(* The holders of PENDING that are no callers, as OneOwner names them.     *)
Others(x) ==
  {k \in {"queueing", "arming", "armed", "listed"} :
     CASE k = "queueing" -> queueing[x] # None
       [] k = "arming"   -> x \in arming
       [] k = "armed"    -> x \in DelayedWork /\ tmr[x]
       [] k = "listed"   -> OnList(x)}

(* There is one of them at most, and none besides a caller.                *)
LEMMA OthersFacts ==
  ASSUME TypeC, QueuedOnce, NEW x \in Work, SoleAt(x)
  PROVE  \/ ~data[x].pending /\ Others(x) = {} /\ OwningCallers(x) = {}
         \/ data[x].pending /\ Others(x) = {} /\ \E c : OwningCallers(x) = {c}
         \/ data[x].pending /\ OwningCallers(x) = {} /\ \E k : Others(x) = {k}
<1>1. /\ "queueing" \in Others(x) <=> Queues(x)
      /\ "arming" \in Others(x) <=> Arms(x)
      /\ "armed" \in Others(x) <=> Ticks(x)
      /\ "listed" \in Others(x) <=> Listed(x)
      /\ Others(x) \subseteq {"queueing", "arming", "armed", "listed"}
  <2>1. OnList(x) <=> Listed(x)
    BY WorkFacts DEF QueuedOnce, Listed
  <2> QED BY <2>1 DEF Others, Queues, Arms, Ticks
<1>2. OwningCallers(x) = {c \in Caller : Holds(c, x)}
  BY DEF OwningCallers, Holds
<1>3. CASE \E c \in Caller : Holds(c, x)
  <2>1. PICK c \in Caller : Holds(c, x)
    BY <1>3
  <2>2. OwningCallers(x) = {c}
    BY <1>2, <2>1 DEF SoleAt
  <2>3. Others(x) = {} /\ data[x].pending
    BY <1>1, <2>1 DEF SoleAt
  <2> QED BY <2>2, <2>3
<1>4. CASE ~\E c \in Caller : Holds(c, x)
  <2>1. OwningCallers(x) = {}
    BY <1>2, <1>4
  <2>2. CASE Queues(x)
    <3>1. Others(x) = {"queueing"} /\ data[x].pending
      BY <1>1, <2>2 DEF SoleAt
    <3> QED BY <2>1, <3>1
  <2>3. CASE Arms(x)
    <3>1. Others(x) = {"arming"} /\ data[x].pending
      BY <1>1, <2>3 DEF SoleAt
    <3> QED BY <2>1, <3>1
  <2>4. CASE Ticks(x)
    <3>1. Others(x) = {"armed"} /\ data[x].pending
      BY <1>1, <2>4 DEF SoleAt
    <3> QED BY <2>1, <3>1
  <2>5. CASE Listed(x)
    <3>1. Others(x) = {"listed"} /\ data[x].pending
      BY <1>1, <2>5 DEF SoleAt
    <3> QED BY <2>1, <3>1
  <2>6. CASE ~Queues(x) /\ ~Arms(x) /\ ~Ticks(x) /\ ~Listed(x)
    <3>1. Others(x) = {} /\ ~data[x].pending
      BY <1>1, <1>4, <2>6 DEF SoleAt
    <3> QED BY <2>1, <3>1
  <2> QED BY <2>2, <2>3, <2>4, <2>5, <2>6
<1> QED
  BY <1>3, <1>4

(* However many works, timers and callers: PENDING has exactly one owner,  *)
(* CANCELING is up exactly while one cancel_work_sync() is between mark    *)
(* and clear, a canceler that waits for it will be woken, and every field  *)
(* has its type.                                                           *)
THEOREM CallersAreExact == SpecQ => []CallersExact
<1>1. ASSUME QInv PROVE CallersExact
  <2>1. TypeOKQ /\ TypeC /\ QueuedOnce /\ Sole /\ CancelingExact /\ CancelWaiterWoken
    BY <1>1, TypeParts DEF QInv, CoreInv, ListInv, CallerInv
  <2>2. ASSUME NEW x \in Work
        PROVE  Cardinality(OwningCallers(x)) + Cardinality(Others(x)) = IF data[x].pending THEN 1 ELSE 0
    <3>1. \/ ~data[x].pending /\ Others(x) = {} /\ OwningCallers(x) = {}
          \/ data[x].pending /\ Others(x) = {} /\ \E c : OwningCallers(x) = {c}
          \/ data[x].pending /\ OwningCallers(x) = {} /\ \E k : Others(x) = {k}
      BY <2>1, OthersFacts DEF Sole
    <3>2. Cardinality({}) = 0
      BY FS_EmptySet
    <3>3. CASE ~data[x].pending /\ Others(x) = {} /\ OwningCallers(x) = {}
      BY <3>2, <3>3
    <3>4. CASE data[x].pending /\ Others(x) = {} /\ \E c : OwningCallers(x) = {c}
      <4> PICK c : OwningCallers(x) = {c}
        BY <3>4
      <4>1. Cardinality({c}) = 1
        BY FS_Singleton
      <4> QED BY <3>2, <3>4, <4>1
    <3>5. CASE data[x].pending /\ OwningCallers(x) = {} /\ \E k : Others(x) = {k}
      <4> PICK k : Others(x) = {k}
        BY <3>5
      <4>1. Cardinality({k}) = 1
        BY FS_Singleton
      <4> QED BY <3>2, <3>5, <4>1
    <3> QED BY <3>1, <3>3, <3>4, <3>5
  <2>3. OneOwner
    BY <2>2, Zenon DEF OneOwner, Others
  <2> QED BY <2>1, <2>3 DEF CallersExact
<1> QED
  BY <1>1, QueueInvariance, PTL

(* Whatever is flushed, canceled and stolen: a work is on a list once, and *)
(* no slot of max_active is lost or given twice.                           *)
THEOREM ListsAndSlotsExact == SpecQ => []ListsAndSlots
<1>1. QInv => ListsAndSlots
  BY DEF QInv, CoreInv, ListInv, WorkBooks, ListsAndSlots
<1> QED
  BY <1>1, QueueInvariance, PTL
-----------------------------------------------------------------------------
(* A flush that waited                                                     *)

(* Barriers in the scheduled list of the worker that executes their work   *)
(* stay there, and others linked behind their works.                       *)
HeldStays == \A y \in Work, b \in Barrier : HeldBy(y, b) => HeldBy(y, b)'
BarriersStay == AheadStays(Placed, data, Placed', data', None) /\ HeldStays

(* A caller that waits is where its barrier is pending, for a work.        *)
LEMMA AwaitsFacts ==
  ASSUME TypeC, Frames, FlushInv, NEW c \in Caller, awaits[c] # "none"
  PROVE  tgt[c] \in Work /\ c \in Barrier /\ cpc[c] = "wait" /\ ~done[c]
BY TargetFacts DEF FlushInv, AwaitsRight, Caller

(* A caller's wait goes on.                                                *)
LEMMA AwaitsGoesOn ==
  ASSUME TypeC, Frames, FlushInv, BarriersStay, NEW c \in Caller,
         awaits'[c] = awaits[c],
         awaits[c] # "none" => cpc'[c] = cpc[c] /\ tgt'[c] = tgt[c] /\ (done'[c] <=> done[c])
  PROVE  AwaitsRight(c)'
<1>1. CASE awaits[c] = "none"
  BY <1>1 DEF AwaitsRight
<1>2. CASE awaits[c] # "none"
  <2>1. PICK x : x = tgt[c]
    OBVIOUS
  <2>2. x \in Work /\ c \in Barrier /\ cpc[c] = "wait" /\ ~done[c] /\ tgt'[c] = x /\ x # None
    BY <1>2, <2>1, AwaitsFacts, WorkFacts
  <2>3. /\ awaits[c] = "queued" => Ahead(Placed, data, x, c)
        /\ awaits[c] = "running" => HeldBy(x, c)
    BY <2>1 DEF FlushInv, AwaitsRight
  <2>4. awaits[c] = "queued" => Ahead(Placed', data', x, c)
    BY <2>2, <2>3 DEF BarriersStay, AheadStays
  <2>5. awaits[c] = "running" => HeldBy(x, c)'
    BY <2>2, <2>3 DEF BarriersStay, HeldStays
  <2>6. cpc'[c] = "wait" /\ ~done'[c]
    BY <1>2, <2>2
  <2> QED BY <2>2, <2>4, <2>5, <2>6 DEF AwaitsRight
<1> QED
  BY <1>1, <1>2

(* A step that leaves the lists alone, and no LINKED bit on them.          *)
LEMMA ListsStay ==
  ASSUME TypeOK, UNCHANGED <<worklist, scheduled, delayed_works, current_work>>,
         \A i \in Item : On(Placed, Heads, i) /\ data[i].linked => data'[i].linked
  PROVE  BarriersStay
<1>1. Placed' = Placed
  BY DEF Placed, Places
<1>2. AheadStays(Placed, data, Placed', data', None)
  BY <1>1, AheadSame, PlacedFacts DEF AheadStays
<1>3. HeldStays
  BY DEF HeldStays, HeldBy
<1> QED
  BY <1>2, <1>3 DEF BarriersStay

(* So such a step keeps FlushInv if no caller that waits moves.            *)
LEMMA WaitsStay ==
  ASSUME QInv, FlushInv, BarriersStay, UNCHANGED awaits,
         \A c \in Caller : cpc[c] = "wait" /\ ~done[c]
           => cpc'[c] = cpc[c] /\ tgt'[c] = tgt[c] /\ (done'[c] <=> done[c])
  PROVE  FlushInv'
<1>1. TypeC /\ Frames
  BY QParts DEF CallerInv
<1>2. ASSUME NEW c \in Caller PROVE AwaitsRight(c)'
  <2>1. awaits[c] # "none" => cpc'[c] = cpc[c] /\ tgt'[c] = tgt[c] /\ (done'[c] <=> done[c])
    BY <1>1, AwaitsFacts
  <2> QED BY <1>1, <2>1, AwaitsGoesOn
<1> QED
  BY <1>2 DEF FlushInv

(* A caller that does not wait goes somewhere; the others stay.            *)
LEMMA GotoStays ==
  ASSUME TypeC, NEW c \in Caller, NEW l \in Stops, Goto(c, l), cpc[c] # "wait" \/ done[c],
         UNCHANGED done \/ done' = [done EXCEPT ![c] = FALSE]
  PROVE  \A d \in Caller : cpc[d] = "wait" /\ ~done[d]
           => cpc'[d] = cpc[d] /\ tgt'[d] = tgt[d] /\ (done'[d] <=> done[d])
<1>1. \A d \in Caller : d # c => (done'[d] <=> done[d])
  BY DEF TypeC
<1> QED
  BY <1>1, GotoFacts

(* The caller's steps that leave the lists alone: only words of works that *)
(* are on no list lose a bit.                                              *)
LEMMA GoesF ==
  ASSUME QInv, FlushInv, NEW c \in Caller, NEW l \in Stops, Goto(c, l), cpc[c] # "wait" \/ done[c],
         UNCHANGED done \/ done' = [done EXCEPT ![c] = FALSE],
         UNCHANGED <<worklist, scheduled, delayed_works, current_work, awaits>>,
         \A i \in Item : data[i].high \in Pwq /\ data[i].linked => data'[i].linked
  PROVE  FlushInv'
<1>1. TypeOK /\ TypeC /\ ListInv
  BY QParts DEF CoreInv
<1>2. \A i \in Item : On(Placed, Heads, i) <=> data[i].high \in Pwq
  BY <1>1, QueuedOnceAs DEF ListInv
<1>3. BarriersStay
  BY <1>1, <1>2, ListsStay
<1> QED
  BY <1>1, <1>3, GotoStays, WaitsStay

(* Where the callers' steps go.                                            *)
LEMMA StopsFacts ==
  ASSUME NEW c \in Caller, NEW x
  PROVE  /\ FlushReturns[c] \in Stops /\ Entry(op[c], x) \in Stops
         /\ Grabbed(c) => \E l \in Stops : Goto(c, l)
BY DEF FlushReturns, Entry, Stops, Grabbed

(* The callers' steps that change neither list nor word.                   *)
LEMMA PlainStepF ==
  ASSUME QInv, FlushInv, NEW c \in Caller,
         DelTimerSync(c) \/ FlushRead(c) \/ FlushWait(c) \/ DelTimer(c) \/ ReadPool(c)
           \/ Failed(c) \/ CondWait(c)
  PROVE  FlushInv'
<1>1. UNCHANGED <<data, worklist, scheduled, delayed_works, current_work, awaits>>
  BY DEF DelTimerSync, FlushRead, FlushWait, DelTimer, ReadPool, Failed, CondWait,
         Stay, listVars, workerVars, waitVars
<1>2. cpc[c] # "wait" \/ done[c]
  BY DEF DelTimerSync, FlushRead, FlushWait, DelTimer, ReadPool, Failed, CondWait
<1>3. UNCHANGED done \/ done' = [done EXCEPT ![c] = FALSE]
  BY DEF DelTimerSync, FlushRead, FlushWait, DelTimer, ReadPool, Failed, CondWait, waitVars
<1>4. \E l \in Stops : Goto(c, l)
  <2>1. {"queue", "flush", "flush_lock", "test", "steal", "failed", "idle", "cond_lock", "cond_wait"}
          \subseteq Stops
    BY DEF Stops
  <2>2. CASE DelTimerSync(c) \/ FlushRead(c) \/ FlushWait(c) \/ ReadPool(c)
    BY <2>1, <2>2, StopsFacts DEF DelTimerSync, FlushRead, FlushWait, ReadPool
  <2>3. CASE DelTimer(c)
    BY <2>1, <2>3, StopsFacts DEF DelTimer
  <2>4. CASE Failed(c) \/ CondWait(c)
    BY <2>1, <2>4, StopsFacts DEF Failed, CondWait
  <2> QED BY <2>2, <2>3, <2>4
<1> QED
  BY <1>1, <1>2, <1>3, <1>4, GoesF

(* The callers' steps that change the word of their work.                  *)
LEMMA WordStepF ==
  ASSUME QInv, FlushInv, NEW c \in Caller, TestAndSet(c) \/ Drop(c) \/ Mark(c) \/ Clear(c)
  PROVE  FlushInv'
<1>1. TypeOK /\ TypeC /\ CallerInv
  BY QParts
<1>2. UNCHANGED <<worklist, scheduled, delayed_works, current_work, awaits, done>> /\ cpc[c] # "wait"
  BY DEF TestAndSet, Drop, Mark, Clear, workerVars, waitVars
<1>3. \E l \in Stops : Goto(c, l)
  <2>1. {"pool", "idle", "flush", "broadcast"} \subseteq Stops
    BY DEF Stops
  <2> QED BY <2>1, StopsFacts DEF TestAndSet, Drop, Mark, Clear
<1>4. PICK x : x = tgt[c]
  OBVIOUS
<1>5. x \in Work /\ x \in Item /\ SoleAt(x) /\ CancelAt(x)
  <2>1. cpc[c] # "idle"
    BY DEF TestAndSet, Drop, Mark, Clear
  <2> QED BY <1>1, <1>4, <2>1, TargetFacts, WorkFacts, CancelingAs DEF CallerInv, Sole
<1>6. \A i \in Item : data[i].high \in Pwq /\ data[i].linked => data'[i].linked
  <2>1. CASE TestAndSet(c)
    <3>1. data' = [data EXCEPT ![x].pending = TRUE]
      BY <1>4, <2>1 DEF TestAndSet
    <3> QED BY <1>1, <1>5, <3>1 DEF TypeOK, Word
  <2>2. CASE Drop(c) \/ Mark(c) \/ Clear(c)
    <3>1. Holds(c, x)
      BY <1>4, <2>2 DEF Holds, Owns, Drop, Mark, Clear
    <3>2. data[x].high \notin Pwq
      BY <1>1, <1>5, <3>1, HolderFacts
    <3>3. \A i \in Item : i # x => data'[i] = data[i]
      BY <1>1, <1>4, <2>2 DEF TypeOK, Drop, Mark, Clear
    <3> QED BY <3>2, <3>3
  <2> QED BY <2>1, <2>2
<1> QED
  BY <1>2, <1>3, <1>6, GoesF

(* Steps that move no caller that waits.                                   *)
LEMMA RestF ==
  ASSUME QInv, FlushInv, UNCHANGED <<worklist, scheduled, delayed_works, current_work, awaits, done>>,
         \A d \in Caller : cpc[d] = "wait" => cpc'[d] = cpc[d] /\ tgt'[d] = tgt[d],
         \A i \in Item : data[i].linked => data'[i].linked
  PROVE  FlushInv'
<1>1. TypeOK
  BY QParts
<1>2. BarriersStay
  BY <1>1, ListsStay
<1> QED
  BY <1>2, WaitsStay

(* A caller that enters a function, or leaves cancel_work_sync().          *)
LEMMA CallF ==
  ASSUME QInv, FlushInv, NEW c \in Caller, Call(c) \/ Broadcast(c)
  PROVE  FlushInv'
<1>1. TypeC
  BY QParts
<1>2. UNCHANGED <<data, worklist, scheduled, delayed_works, current_work, awaits, done>>
  BY DEF Call, Broadcast, Stay, listVars, workerVars, waitVars
<1>3. \A d \in Caller : cpc[d] = "wait" => cpc'[d] = cpc[d] /\ tgt'[d] = tgt[d]
  <2>1. CASE Call(c)
    BY <1>1, <2>1 DEF Call, TypeC
  <2>2. CASE Broadcast(c)
    BY <1>1, <2>2 DEF Broadcast, TypeC
  <2> QED BY <2>1, <2>2
<1> QED
  BY <1>2, <1>3, RestF

(* Timers, and clients that get PENDING.                                   *)
LEMMA TimersF ==
  ASSUME QInv, FlushInv,
         \/ IdleTimer
         \/ \E x \in Work : StartQueueing(x)
         \/ \E x \in DelayedWork : \/ \E q \in Pwq : QueueDelayed(x, q)
                                   \/ ArmTimer(x) \/ FireTimer(x) \/ FiredTimer(x)
  PROVE  FlushInv'
<1>1. TypeOK
  BY QParts
<1>2. UNCHANGED <<worklist, scheduled, delayed_works, current_work, awaits, done, cpc, tgt>>
  BY DEF IdleTimer, TimerExpire, IdleWorkerTimeout, StartQueueing, SetPending, QueueDelayed,
         ArmTimer, FireTimer, FiredTimer, listVars, busyVars, workerVars, callVars, waitVars, vars
<1>3. \A i \in Item : data[i].linked => data'[i].linked
  <2>1. CASE \E x \in Work : StartQueueing(x)
    BY <1>1, <2>1, ItemFacts DEF StartQueueing, SetPending, TypeOK, Word
  <2>2. CASE \E x \in DelayedWork : \E q \in Pwq : QueueDelayed(x, q)
    BY <1>1, <2>2, WorkFacts DEF QueueDelayed, TypeOK, Word
  <2>3. CASE IdleTimer
    BY <2>3 DEF IdleTimer, TimerExpire, IdleWorkerTimeout, listVars
  <2>4. CASE \E x \in DelayedWork : ArmTimer(x) \/ FireTimer(x) \/ FiredTimer(x)
    BY <2>4 DEF ArmTimer, FireTimer, FiredTimer, listVars, vars
  <2> QED BY <2>1, <2>2, <2>3, <2>4
<1> QED
  BY <1>2, <1>3, RestF

(* An item put at the end of a list ends no chain.                         *)
LEMMA QueueWorkStays ==
  ASSUME TypeOK, TypeOK', ListInv, NEW x \in Work, QueueWork(x), ~OnList(x), UNCHANGED scheduled
  PROVE  BarriersStay
<1>1. x \in Item /\ ~On(Placed, Heads, x)
  <2>1. x \in Item
    BY WorkFacts
  <2>2. data[x].high \notin Pwq
    BY <2>1 DEF ListInv, QueuedOnce
  <2> QED BY <2>1, <2>2, QueuedOnceAs DEF ListInv
<1>2. PICK h : Appends(Item, Heads, Placed, Placed', h, x)
  BY QueueWorkAppends
<1>3. Inserts(Item, Heads, Placed, Placed', h, Len(Placed[h]), x)
  BY <1>2, AppendInserts
<1>4. \A z \in Item \ {x} : data[z].linked => data'[z].linked
  BY QueueWorkAppends DEF TypeOK
<1>5. PICK m : m = Len(Placed[h])
  OBVIOUS
<1>6. m \notin 1 .. Len(Placed[h]) - 1
  <2>1. Len(Placed[h]) \in Nat
    BY <1>2, LenProperties DEF Appends
  <2> QED BY <1>5, <2>1
<1>7. AheadStays(Placed, data, Placed', data', None)
  <2>1. SUFFICES ASSUME NEW y \in Work, NEW b \in Barrier, Ahead(Placed, data, y, b)
                 PROVE  Ahead(Placed', data', y, b)
    BY DEF AheadStays
  <2> QED BY <1>1, <1>3, <1>4, <1>5, <1>6, <2>1, AheadInserts
<1>8. HeldStays
  BY DEF HeldStays, HeldBy, QueueWork, busyVars
<1> QED
  BY <1>7, <1>8 DEF BarriersStay

(* queue_work(), of a client, a timer or a caller.                         *)
LEMMA QueueWorkF ==
  ASSUME QInv, QInv', FlushInv, NEW x \in Work, QueueWork(x), UNCHANGED <<awaits, done>>,
         \A d \in Caller : cpc[d] = "wait" => cpc'[d] = cpc[d] /\ tgt'[d] = tgt[d]
  PROVE  FlushInv'
<1>1. TypeOK /\ TypeOK' /\ CoreInv /\ CoreInv' /\ ListInv /\ CallerInv
  BY QParts DEF CoreInv
<1>2. SoleAt(x) /\ CancelAt(x)
  BY <1>1, CancelingAs DEF CallerInv, Sole
<1>3. ~OnList(x) /\ UNCHANGED scheduled
  BY <1>1, <1>2, QueueWorkOwner
<1>4. BarriersStay
  BY <1>1, <1>3, QueueWorkStays
<1> QED
  BY <1>4, WaitsStay

(* The steps that queue a work.                                            *)
LEMMA QueuesF ==
  ASSUME QInv, QInv', FlushInv,
         \/ \E x \in Work : ClientQueues(x)
         \/ \E x \in DelayedWork : TimerFn(x)
         \/ \E c \in Caller : QueueNow(c)
  PROVE  FlushInv'
<1>1. CASE \E x \in Work : ClientQueues(x)
  BY <1>1, QueueWorkF DEF ClientQueues, callVars, waitVars
<1>2. CASE \E x \in DelayedWork : TimerFn(x)
  BY <1>2, QueueWorkF, WorkFacts DEF TimerFn, callVars, waitVars
<1>3. CASE \E c \in Caller : QueueNow(c)
  <2>1. PICK c \in Caller : QueueNow(c)
    BY <1>3
  <2>2. TypeC /\ Frames
    BY QParts DEF CallerInv
  <2>3. PICK x : x = tgt[c]
    OBVIOUS
  <2>4. x \in Work /\ QueueWork(x) /\ UNCHANGED <<awaits, done>> /\ cpc[c] = "queue" /\ Goto(c, "flush")
    BY <2>1, <2>2, <2>3, TargetFacts DEF QueueNow, waitVars
  <2>5. \A d \in Caller : d # c => cpc'[d] = cpc[d] /\ tgt'[d] = tgt[d]
    <3>1. "flush" \in Stops
      BY DEF Stops
    <3> QED BY <2>2, <2>4, <3>1, GotoFacts
  <2> QED BY <2>4, <2>5, QueueWorkF
<1> QED
  BY <1>1, <1>2, <1>3

(* A barrier that runs ends no wait but that of its caller, whose work is  *)
(* over: the barrier is on no list.                                        *)
LEMMA DoneRight ==
  ASSUME QInv, FlushInv, NEW w \in Worker, WorkerRuns(w), NEW c \in Caller, awaits[c] # "none"
  PROVE  cpc'[c] = cpc[c] /\ tgt'[c] = tgt[c] /\ (done'[c] <=> done[c])
<1>1. TypeOK /\ TypeC /\ ListInv /\ Busy /\ CallerInv
  BY QParts DEF CoreInv, PoolCore
<1>2. cpc' = cpc /\ tgt' = tgt
  BY DEF WorkerRuns, Pool, callVars
<1>3. done'[c] = (done[c] \/ (pc[w] = "exec" /\ current_work[w] = c))
  BY DEF WorkerRuns, Complete
<1>4. On(Placed, Heads, c)
  <2>1. CASE awaits[c] = "queued"
    <3>1. Ahead(Placed, data, tgt[c], c)
      BY <2>1 DEF FlushInv, AwaitsRight
    <3> QED BY <3>1 DEF Ahead, On
  <2>2. CASE awaits[c] = "running"
    <3>1. PICK v \in Worker : In(scheduled[v], c)
      BY <2>2 DEF FlushInv, AwaitsRight, HeldBy
    <3> QED BY <1>1, <3>1, PlacedFacts, HeadFacts DEF On, In
  <2>3. awaits[c] \in {"none", "queued", "running"}
    BY <1>1 DEF TypeC
  <2> QED BY <2>1, <2>2, <2>3
<1>5. c \in Item /\ data[c].high \in Pwq
  BY <1>1, <1>4, QueuedOnceAs, WorkFacts DEF ListInv
<1>6. ~(pc[w] = "exec" /\ current_work[w] = c)
  BY <1>1, <1>5 DEF CallerInv, BarrierQuiet, Quiet
<1> QED
  BY <1>2, <1>3, <1>6

(* What a worker's step does to a wait.                                    *)
LEMMA TrackFacts ==
  ASSUME QInv, FlushInv, NEW w \in Worker, WorkerRuns(w), NEW c \in Caller
  PROVE  awaits'[c] = IF awaits[c] = "queued" /\ Claimed(tgt[c]) THEN "running"
                      ELSE IF awaits[c] = "running" /\ Returned(tgt[c]) THEN "none"
                      ELSE awaits[c]
BY DEF WorkerRuns, Pool, Track

(* A worker's step that claims nothing and returns from nothing.           *)
LEMMA WorkerKeepsF ==
  ASSUME QInv, FlushInv, NEW w \in Worker, WorkerRuns(w), UNCHANGED current_work, BarriersStay
  PROVE  FlushInv'
<1>1. TypeC /\ Frames
  BY QParts DEF CallerInv
<1>2. ASSUME NEW c \in Caller PROVE AwaitsRight(c)'
  <2>1. ~Claimed(tgt[c]) /\ ~Returned(tgt[c])
    BY DEF Claimed, Returned
  <2>2. awaits'[c] = awaits[c]
    BY <2>1, TrackFacts
  <2> QED BY <1>1, <2>2, DoneRight, AwaitsGoesOn
<1> QED
  BY <1>2 DEF FlushInv

(* Steps of a worker that touch no list.                                   *)
LEMMA OtherStepF ==
  ASSUME QInv, FlushInv, NEW w \in Worker, WorkerRuns(w), OtherStep(w)
  PROVE  FlushInv'
<1>1. UNCHANGED <<worklist, scheduled, delayed_works, data, current_work>>
  BY DEF OtherStep, WokeUp, Dying, Recheck, CreateWorker, CreateFails, Relock, LoopEnd, RunFunc,
         Sleep, listVars, busyVars
<1>2. TypeOK
  BY QParts
<1> QED
  BY <1>1, <1>2, ListsStay, WorkerKeepsF

(* Whole chains move.                                                      *)
LEMMA ChainStays ==
  ASSUME TypeOK, NEW A, NEW B, NEW g, NEW h, NEW d, Chained(A, d), A[g] \in Seq(Item), A[g] # <<>>,
         Moves(Item, Heads, A, B, g, h, ChainLen(A[g], d))
  PROVE  AheadStays(A, d, B, d, None)
<1>1. PICK n : n = ChainLen(A[g], d)
  OBVIOUS
<1>2. Cuts(Item, Heads, A, B, g, h, 0, n)
  BY <1>1, MovesCuts
<1>3. n \in 1 .. Len(A[g]) /\ (n < Len(A[g]) => ~d[A[g][n]].linked)
  BY <1>1, ChainEnd
<1>4. 0 + n < Len(A[g]) => ~d[A[g][0 + n]].linked
  <2>1. 0 + n = n
    BY <1>3
  <2> QED BY <1>3, <2>1
<1>5. ASSUME NEW y \in Work, NEW b \in Barrier, Ahead(A, d, y, b) PROVE Ahead(B, d, y, b)
  <2>1. 0 > 0 => ~(d[A[g][0]].linked /\ A[g][0 + 1] \in Barrier)
    OBVIOUS
  <2> QED BY <1>2, <1>4, <1>5, <2>1, AheadCuts
<1> QED
  BY <1>5 DEF AheadStays

(* A worker without a work takes and gives barriers, and nobody else loses *)
(* one.                                                                    *)
LEMMA HeldKept ==
  ASSUME Busy, NEW w \in Worker, pc[w] \notin {"exec", "ret"},
         \A u \in Worker : u # w => current_work'[u] = current_work[u],
         \A u \in Worker : u # w => \A b \in Barrier : In(scheduled[u], b) => In(scheduled'[u], b)
  PROVE  HeldStays
<1>1. current_work[w] = None
  BY DEF Busy
<1> QED
  BY <1>1, WorkFacts DEF HeldStays, HeldBy

(* A linked chain taken from the worklist.                                 *)
LEMMA MoveLinkedF ==
  ASSUME QInv, QInv', FlushInv, NEW w \in Worker, WorkerRuns(w), MoveLinked(w)
  PROVE  FlushInv'
<1>1. TypeOK /\ TypeOK' /\ Busy /\ Chained(Placed, data)
  BY QParts DEF CoreInv, PoolCore, WorkBooks
<1>2. /\ worklist # <<>> /\ worklist \in Seq(Item) /\ Placed[None] = worklist
      /\ UNCHANGED <<data, current_work>> /\ pc[w] = "next"
  BY <1>1, PlacedFacts DEF MoveLinked, TypeOK
<1>3. Moves(Item, Heads, Placed, Placed', None, w, ChainLen(Placed[None], data))
  BY <1>1, <1>2, MoveLinkedMoves
<1>4. AheadStays(Placed, data, Placed', data', None)
  BY <1>1, <1>2, <1>3, ChainStays
<1>5. \A u \in Worker : u # w => scheduled'[u] = scheduled[u]
  BY <1>1 DEF MoveLinked, TypeOK
<1>6. HeldStays
  BY <1>1, <1>2, <1>5, HeldKept
<1> QED
  BY <1>2, <1>4, <1>6, WorkerKeepsF DEF BarriersStay

(* A chain put at the end of a list hides nothing there.                   *)
LEMMA InJoined ==
  ASSUME NEW s \in Seq(Item), NEW t \in Seq(Item), NEW b, In(s, b)
  PROVE  In(s \o t, b)
BY ConcatProperties, LenProperties DEF In

(* A chain handed to the worker that executes its first item.              *)
LEMMA DeferF ==
  ASSUME QInv, QInv', FlushInv, NEW w \in Worker, WorkerRuns(w), NEW from \in {"worklist", "scheduled"},
         NEW s, s = (IF from = "worklist" THEN worklist ELSE scheduled[w]), s # <<>>,
         pc[w] \in {"next", "sched"}, Defer(w, from, s), UNCHANGED delayed_works
  PROVE  FlushInv'
<1>1. TypeOK /\ TypeOK' /\ Busy /\ Chained(Placed, data)
  BY QParts DEF CoreInv, PoolCore, WorkBooks
<1>2. PICK g, v : /\ Moves(Item, Heads, Placed, Placed', g, v, ChainLen(s, data))
                  /\ Placed[g] = s
  BY <1>1, DeferMoves
<1>3. s \in Seq(Item) /\ UNCHANGED <<data, current_work>>
  BY <1>1 DEF TypeOK, Defer
<1>4. AheadStays(Placed, data, Placed', data', None)
  BY <1>1, <1>2, <1>3, ChainStays
<1>5. HeldStays
  <2>1. PICK v1 \in Worker : scheduled' = [u \in Worker |->
           IF u = v1 THEN scheduled[u] \o Chain(s, data)
           ELSE IF u = w /\ from = "scheduled" THEN Rest(s, data) ELSE scheduled[u]]
    BY DEF Defer, Executing
  <2>2. Chain(s, data) \in Seq(Item)
    BY <1>3, ChainEnd, ChainType
  <2>3. ASSUME NEW u \in Worker, u # w, NEW b \in Barrier, In(scheduled[u], b)
        PROVE  In(scheduled'[u], b)
    <3>1. scheduled[u] \in Seq(Item)
      BY <1>1 DEF TypeOK
    <3>2. In(scheduled[u] \o Chain(s, data), b)
      BY <2>2, <2>3, <3>1, InJoined
    <3> QED BY <2>1, <2>3, <3>2
  <2> QED BY <1>1, <1>3, <2>3, HeldKept
<1> QED
  BY <1>3, <1>4, <1>5, WorkerKeepsF DEF BarriersStay

(* Item i is the first of list g, ...                                      *)
FirstOf(A, g, i) == g \in Heads /\ A[g] # <<>> /\ A[g][1] = i
(* ... and b comes after it on a list that i is LINKED in.                 *)
LinkedAfter(A, d, g, i, b) == d[i].linked /\ \E k \in 2 .. Len(A[g]) : A[g][k] = b

(* What is linked behind the first item of its list.                       *)
LEMMA AheadOfFirst ==
  ASSUME NEW A \in [Heads -> Seq(Item)], Injective(A, Heads), NEW d, NEW g, NEW i, FirstOf(A, g, i),
         NEW b, Ahead(A, d, i, b)
  PROVE  LinkedAfter(A, d, g, i, b)
<1>1. PICK f \in Heads : \E k \in 1 .. Len(A[f]) : \E j \in 1 .. k - 1 :
        A[f][j] = i /\ A[f][k] = b /\ \A l \in j .. k - 1 : d[A[f][l]].linked
  BY DEF Ahead
<1>2. PICK k \in 1 .. Len(A[f]) : \E j \in 1 .. k - 1 :
        A[f][j] = i /\ A[f][k] = b /\ \A l \in j .. k - 1 : d[A[f][l]].linked
  BY <1>1
<1>3. PICK j \in 1 .. k - 1 :
        A[f][j] = i /\ A[f][k] = b /\ \A l \in j .. k - 1 : d[A[f][l]].linked
  BY <1>2
<1>4. Len(A[f]) \in Nat /\ 1 \in 1 .. Len(A[g]) /\ j \in 1 .. Len(A[f]) /\ j \in j .. k - 1
      /\ g \in Heads /\ A[g][1] = i
  BY LenProperties, EmptySeq DEF FirstOf
<1>5. f = g /\ j = 1
  BY <1>3, <1>4 DEF Injective
<1>6. k \in 2 .. Len(A[g])
  BY <1>4, <1>5
<1> QED
  BY <1>2, <1>3, <1>4, <1>5, <1>6 DEF LinkedAfter

(* An item is claimed: a barrier linked behind it is now in the scheduled  *)
(* list of the worker, since only an item with no link is claimed from the *)
(* worklist.                                                               *)
LEMMA ClaimF ==
  ASSUME QInv, QInv', FlushInv, NEW w \in Worker, WorkerRuns(w), NEW from \in {"worklist", "scheduled"},
         NEW s, s = (IF from = "worklist" THEN worklist ELSE scheduled[w]), s # <<>>,
         pc[w] \in {"next", "sched"}, from = "worklist" => ~data[Head(s)].linked,
         Claim(w, from, Head(s)), UNCHANGED delayed_works
  PROVE  FlushInv'
<1>1. TypeOK /\ TypeOK' /\ TypeC /\ Frames /\ Busy /\ ListInv /\ Chained(Placed, data)
  BY QParts DEF CoreInv, PoolCore, WorkBooks, CallerInv
<1>2. PICK i : i = Head(s)
  OBVIOUS
<1>3. PICK g : g \notin Pwq /\ Placed[g] = s /\ Drops(Item, Heads, Placed, Placed', g)
  BY <1>1, ClaimDrops
<1>4. i \in Item /\ i = s[1] /\ i = Placed[g][1] /\ g \in Heads
  BY <1>1, <1>2, <1>3, ClaimDrops DEF Drops
<1>5. Placed \in [Heads -> Seq(Item)] /\ Injective(Placed, Heads)
  BY <1>1, PlacedFacts, QueuedOnceAs DEF ListInv
<1>6. /\ \A u \in Worker : current_work'[u] = IF u = w THEN i ELSE current_work[u]
      /\ \A u \in Worker : u # w => scheduled'[u] = scheduled[u]
      /\ current_work[w] = None /\ None # i
      /\ \A z \in Item : z # i => data'[z] = data[z]
  <2>1. i # None
    BY <1>4, NoneFacts
  <2>2. \A u \in Worker : current_work'[u] = IF u = w THEN i ELSE current_work[u]
    BY <1>1, <1>2 DEF Claim, Take, TypeOK
  <2>3. \A u \in Worker : u # w => scheduled'[u] = scheduled[u]
    BY <1>1 DEF Claim, Take, TypeOK
  <2>4. current_work[w] = None
    BY <1>1 DEF Busy
  <2>5. \A z \in Item : z # i => data'[z] = data[z]
    BY <1>1, <1>2 DEF Claim, TypeOK
  <2> QED BY <2>1, <2>2, <2>3, <2>4, <2>5
<1>7. ASSUME NEW y \in Work, NEW b \in Barrier, y # i, Ahead(Placed, data, y, b)
      PROVE  Ahead(Placed', data', y, b)
  <2>1. Removes(Item, Heads, Placed, Placed', g, 1)
    BY <1>3, DropsRemoves
  <2>2. Ahead(Placed', data, y, b)
    BY <1>1, <1>4, <1>7, <2>1, AheadRemoves
  <2>3. \A z \in Item : On(Placed', Heads, z) /\ data[z].linked => data'[z].linked
    <3>1. ~On(Placed', Heads, i)
      BY <1>3, <1>4, <1>5, DropFirst
    <3> QED BY <1>6, <3>1
  <2>4. Placed' \in [Heads -> Seq(Item)]
    BY <1>1, PlacedFactsNext
  <2> QED BY <2>2, <2>3, <2>4, AheadSame
<1>8. ASSUME NEW b \in Barrier, Ahead(Placed, data, i, b) PROVE HeldBy(i, b)'
  <2>1. data[i].linked /\ \E k \in 2 .. Len(Placed[g]) : Placed[g][k] = b
    <3>1. FirstOf(Placed, g, i)
      BY <1>3, <1>4 DEF FirstOf
    <3>2. Ahead(Placed, data, i, b)
      BY <1>8
    <3>3. LinkedAfter(Placed, data, g, i, b)
      BY <1>5, <3>1, <3>2, AheadOfFirst
    <3> QED BY <3>3 DEF LinkedAfter
  <2>2. from = "scheduled" /\ s = scheduled[w]
    BY <1>2, <2>1
  <2>3. g = w
    <3>1. Placed[w] = s /\ w \in Heads /\ 1 \in 1 .. Len(s)
      BY <1>1, <2>2, PlacedFacts, HeadFacts, EmptySeq, LenProperties DEF TypeOK
    <3> QED BY <1>3, <1>4, <1>5, <3>1 DEF Injective
  <2>4. PICK k \in 2 .. Len(s) : s[k] = b
    BY <1>3, <2>1
  <2>5. s \in Seq(Item) /\ Len(s) \in Nat /\ s = Placed[w]
    BY <1>1, <2>2, PlacedFacts, LenProperties DEF TypeOK
  <2>6. /\ Len(Placed'[w]) = Len(s) - 1
        /\ \A j \in 1 .. Len(Placed'[w]) : Placed'[w][j] = s[j + 1]
    BY <1>3, <2>3, <2>5, DropElements
  <2>7. k - 1 \in 1 .. Len(Placed'[w]) /\ (k - 1) + 1 = k
    BY <2>5, <2>6
  <2>8. In(scheduled'[w], b)
    <3>1. Placed'[w] = scheduled'[w]
      BY <1>1, PlacedFactsNext
    <3>2. Placed'[w][k - 1] = b
      BY <2>4, <2>6, <2>7
    <3> QED BY <2>7, <3>1, <3>2 DEF In
  <2>9. current_work'[w] = i
    BY <1>6
  <2> QED BY <2>8, <2>9 DEF HeldBy
<1>9. ASSUME NEW c \in Caller PROVE AwaitsRight(c)'
  <2>1. CASE awaits[c] = "none"
    <3>1. awaits'[c] = "none"
      BY <2>1, TrackFacts
    <3> QED BY <3>1 DEF AwaitsRight
  <2>2. CASE awaits[c] # "none"
    <3>1. PICK x : x = tgt[c]
      OBVIOUS
    <3>2. x \in Work /\ c \in Barrier /\ x # None /\ tgt'[c] = x /\ cpc'[c] = "wait" /\ ~done'[c]
      BY <1>1, <2>2, <3>1, AwaitsFacts, DoneRight, WorkFacts
    <3>3. ~Returned(x)
      BY <1>6, <3>2 DEF Returned
    <3>4. Claimed(x) <=> x = i
      BY <1>6, <3>2 DEF Claimed
    <3>5. CASE awaits[c] = "queued"
      <4>1. Ahead(Placed, data, x, c)
        BY <3>1, <3>5 DEF FlushInv, AwaitsRight
      <4>2. CASE x = i
        <5>1. HeldBy(x, c)' /\ awaits'[c] = "running"
          BY <1>8, <3>1, <3>2, <3>4, <3>5, <4>1, <4>2, TrackFacts
        <5> QED BY <3>2, <5>1 DEF AwaitsRight
      <4>3. CASE x # i
        <5>1. Ahead(Placed', data', x, c) /\ awaits'[c] = "queued"
          BY <1>7, <3>1, <3>2, <3>4, <3>5, <4>1, <4>3, TrackFacts
        <5> QED BY <3>2, <5>1 DEF AwaitsRight
      <4> QED BY <4>2, <4>3
    <3>6. CASE awaits[c] = "running"
      <4>1. PICK v \in Worker : current_work[v] = x /\ In(scheduled[v], c)
        BY <3>1, <3>6 DEF FlushInv, AwaitsRight, HeldBy
      <4>2. v # w
        BY <1>6, <3>2, <4>1
      <4>3. HeldBy(x, c)'
        BY <1>6, <4>1, <4>2 DEF HeldBy
      <4>4. awaits'[c] = "running"
        BY <3>1, <3>3, <3>6, TrackFacts
      <4> QED BY <3>2, <4>3, <4>4 DEF AwaitsRight
    <3> QED BY <1>1, <2>2, <3>5, <3>6 DEF TypeC
  <2> QED BY <2>1, <2>2
<1> QED
  BY <1>9 DEF FlushInv

(* process_one_work().                                                     *)
LEMMA ProcessOneWorkF ==
  ASSUME QInv, QInv', FlushInv, NEW w \in Worker, WorkerRuns(w), Next1(w) \/ ProcessScheduled(w)
  PROVE  FlushInv'
<1>1. CASE Next1(w)
  <2>1. PICK s : s = worklist
    OBVIOUS
  <2>2. /\ s # <<>> /\ pc[w] \in {"next", "sched"} /\ ~data[Head(s)].linked
        /\ Claim(w, "worklist", Head(s)) \/ Defer(w, "worklist", s)
        /\ UNCHANGED delayed_works
    BY <1>1, <2>1 DEF Next1, ProcessOneWork
  <2> QED BY <2>1, <2>2, ClaimF, DeferF
<1>2. CASE ProcessScheduled(w)
  <2>1. PICK s : s = scheduled[w]
    OBVIOUS
  <2>2. /\ s # <<>> /\ pc[w] \in {"next", "sched"}
        /\ Claim(w, "scheduled", Head(s)) \/ Defer(w, "scheduled", s)
        /\ UNCHANGED delayed_works
    BY <1>2, <2>1 DEF ProcessScheduled, ProcessOneWork
  <2> QED BY <2>1, <2>2, ClaimF, DeferF
<1> QED
  BY <1>1, <1>2

(* A worker returns: the instance it executed is over, and a delayed work  *)
(* may go to the worklist with its chain.                                  *)
LEMMA ReturnF ==
  ASSUME QInv, QInv', FlushInv, NEW w \in Worker, WorkerRuns(w), Return(w)
  PROVE  FlushInv'
<1>1. TypeOK /\ TypeOK' /\ TypeC /\ Frames /\ Busy /\ ListInv /\ Chained(Placed, data)
  BY QParts DEF CoreInv, PoolCore, WorkBooks, CallerInv
<1>2. /\ \A u \in Worker : current_work'[u] = IF u = w THEN None ELSE current_work[u]
      /\ UNCHANGED scheduled
  BY <1>1 DEF Return, TypeOK
<1>3. AheadStays(Placed, data, Placed', data', None)
  <2>1. CASE ~Hands(w)
    <3>1. UNCHANGED <<worklist, scheduled, delayed_works, data>>
      BY <1>1, <2>1, ReturnKeeps
    <3>2. Placed' = Placed
      BY <3>1 DEF Placed, Places
    <3> QED BY <3>1, <3>2 DEF AheadStays
  <2>2. CASE Hands(w)
    <3>1. PICK q, s : q = current_pwq[w] /\ s = delayed_works[q]
      OBVIOUS
    <3>2. /\ q \in Pwq /\ s \in Seq(Item) /\ s[1] \in Item
          /\ Moves(Item, Heads, Placed, Placed', q, None, ChainLen(s, data))
          /\ data' = [data EXCEPT ![s[1]].delayed = FALSE]
      BY <1>1, <2>2, <3>1, ReturnMoves
    <3>3. s # <<>> /\ s = Placed[q]
      BY <1>1, <2>2, <3>1, <3>2, PlacedFacts DEF Hands
    <3>4. AheadStays(Placed, data, Placed', data, None)
      BY <1>1, <3>2, <3>3, ChainStays
    <3>5. \A z \in Item : data[z].linked => data'[z].linked
      <4>1. data \in [Item -> Word]
        BY <1>1 DEF TypeOK
      <4>2. \A z \in Item : z # s[1] => data'[z] = data[z]
        BY <3>2, <4>1
      <4>3. data'[s[1]].linked <=> data[s[1]].linked
        BY <3>2, <4>1 DEF Word
      <4> QED BY <4>2, <4>3
    <3>6. Placed' \in [Heads -> Seq(Item)]
      BY <1>1, PlacedFactsNext
    <3>7. ASSUME NEW y \in Work, NEW b \in Barrier, y # None, Ahead(Placed, data, y, b)
          PROVE  Ahead(Placed', data', y, b)
      <4>1. Ahead(Placed', data, y, b)
        BY <3>4, <3>7 DEF AheadStays
      <4> QED BY <3>5, <3>6, <4>1, AheadSame
    <3> QED BY <3>7 DEF AheadStays
  <2> QED BY <2>1, <2>2
<1>4. ASSUME NEW c \in Caller PROVE AwaitsRight(c)'
  <2>1. CASE awaits[c] = "none"
    <3>1. awaits'[c] = "none"
      BY <2>1, TrackFacts
    <3> QED BY <3>1 DEF AwaitsRight
  <2>2. CASE awaits[c] # "none"
    <3>1. PICK x : x = tgt[c]
      OBVIOUS
    <3>2. x \in Work /\ c \in Barrier /\ x # None /\ tgt'[c] = x /\ cpc'[c] = "wait" /\ ~done'[c]
      BY <1>1, <2>2, <3>1, AwaitsFacts, DoneRight, WorkFacts
    <3>3. ~Claimed(x)
      BY <1>2, <3>2 DEF Claimed
    <3>4. CASE awaits[c] = "queued"
      <4>1. Ahead(Placed, data, x, c)
        BY <3>1, <3>4 DEF FlushInv, AwaitsRight
      <4>2. Ahead(Placed', data', x, c)
        BY <1>3, <3>2, <4>1 DEF AheadStays
      <4>3. awaits'[c] = "queued"
        BY <3>1, <3>3, <3>4, TrackFacts
      <4> QED BY <3>2, <4>2, <4>3 DEF AwaitsRight
    <3>5. CASE awaits[c] = "running" /\ current_work[w] = x
      <4>1. Returned(x)
        BY <1>2, <3>2, <3>5 DEF Returned
      <4>2. awaits'[c] = "none"
        BY <3>1, <3>5, <4>1, TrackFacts
      <4> QED BY <4>2 DEF AwaitsRight
    <3>6. CASE awaits[c] = "running" /\ current_work[w] # x
      <4>1. PICK v \in Worker : current_work[v] = x /\ In(scheduled[v], c)
        BY <3>1, <3>6 DEF FlushInv, AwaitsRight, HeldBy
      <4>2. HeldBy(x, c)'
        BY <1>2, <3>6, <4>1 DEF HeldBy
      <4>3. ~Returned(x)
        BY <1>2, <3>6 DEF Returned
      <4>4. awaits'[c] = "running"
        BY <3>1, <3>6, <4>3, TrackFacts
      <4> QED BY <3>2, <4>2, <4>4 DEF AwaitsRight
    <3> QED BY <1>1, <2>2, <3>4, <3>5, <3>6 DEF TypeC
  <2> QED BY <2>1, <2>2
<1> QED
  BY <1>4 DEF FlushInv

(* Every step of a worker.                                                 *)
LEMMA WorkerRunsF ==
  ASSUME QInv, QInv', FlushInv, NEW w \in Worker, WorkerRuns(w)
  PROVE  FlushInv'
<1>1. OtherStep(w) \/ Next1(w) \/ MoveLinked(w) \/ ProcessScheduled(w) \/ Return(w)
  BY DEF WorkerRuns, Pool, WorkerStep, OtherStep
<1> QED
  BY <1>1, OtherStepF, ProcessOneWorkF, MoveLinkedF, ReturnF

(* insert_wq_barrier() clears no LINKED bit.                               *)
LEMMA FlushWorkLinks ==
  ASSUME TypeOK, NEW x \in Work, NEW b \in Barrier, FlushWork(x, b)
  PROVE  \A z \in Item \ {b} : data[z].linked => data'[z].linked
<1>1. x \in Item /\ b \in Item /\ x # b
  BY WorkFacts, ItemFacts, PoolAssumption
<1>2. CASE BarrierBehindTarget(x, b)
  <2>1. data' = [data EXCEPT ![b] = BarrierWord(data[x].high, data[x].linked), ![x].linked = TRUE]
    BY <1>2 DEF BarrierBehindTarget
  <2>2. data'[x].linked /\ \A z \in Item : z # b /\ z # x => data'[z] = data[z]
    BY <1>1, <2>1 DEF TypeOK, Word
  <2> QED BY <2>2
<1>3. CASE BarrierAtWorker(x, b)
  <2>1. \A z \in Item : z # b => data'[z] = data[z]
    BY <1>3 DEF BarrierAtWorker, TypeOK
  <2> QED BY <2>1
<1> QED
  BY <1>2, <1>3 DEF FlushWork, InsertBarrier

(* A barrier is inserted, and waits for the work it is behind.             *)
LEMMA FlushLockF ==
  ASSUME QInv, QInv', FlushInv, NEW c \in Caller, FlushLock(c)
  PROVE  FlushInv'
<1>1. TypeOK /\ TypeOK' /\ TypeC /\ Frames /\ Busy /\ ListInv /\ CallerInv
  BY QParts DEF CoreInv, PoolCore, CallerInv
<1>2. PICK x : x = tgt[c]
  OBVIOUS
<1>3. x \in Work /\ x \in Item /\ x # c /\ c \in Barrier /\ c \in Item
  BY <1>1, <1>2, TargetFacts, WorkFacts DEF FlushLock, Caller
<1>4. {"wait"} \subseteq Stops /\ FlushReturns[c] \in Stops
  BY StopsFacts DEF Stops
<1>5. CASE /\ InsertBarrier(x, c)
           /\ awaits' = [awaits EXCEPT ![c] = IF get_work_pool(x) THEN "queued" ELSE "running"]
           /\ Goto(c, "wait")
           /\ UNCHANGED <<done, timerVars>>
  <2>1. FlushWork(x, c) /\ cpc[c] = "flush_lock"
    <3>1. cpc[c] = "flush_lock"
      BY DEF FlushLock
    <3>2. awaits' \in [Caller -> {"none", "queued", "running"}]
      BY <1>1, <1>5 DEF TypeC
    <3> QED BY <1>2, <1>5, <3>1, <3>2, InsertBarrierQ
  <2>2. PICK g, k :
           /\ Inserts(Item, Heads, Placed, Placed', g, k, c)
           /\ \/ /\ k = 0 /\ g \in Executing(x) /\ g \in Worker /\ data[x].high \notin Pwq
                 /\ UNCHANGED delayed_works
                 /\ \E p \in Pwq : data' = [data EXCEPT ![c] = BarrierWord(p, FALSE)]
              \/ /\ k > 0 /\ Placed[g][k] = x /\ data[x].high \in Pwq
                 /\ data' = [data EXCEPT ![c] = BarrierWord(data[x].high, data[x].linked),
                                         ![x].linked = TRUE]
                 /\ delayed_works' = [q \in Pwq |-> Behind(delayed_works[q], x, c)]
    BY <1>1, <1>3, <2>1, FlushWorkInserts
  <2>3. ~On(Placed, Heads, c)
    BY <1>1, <1>3, <2>1, QueuedOnceAs DEF FlushWork, ListInv
  <2>4. \A z \in Item \ {c} : data[z].linked => data'[z].linked
    BY <1>1, <1>3, <2>1, FlushWorkLinks
  <2>5. k \in 1 .. Len(Placed[g]) - 1 /\ data[Placed[g][k]].linked => data'[c].linked
    <3>1. CASE k = 0
      BY <3>1
    <3>2. CASE Placed[g][k] = x /\ data' = [data EXCEPT ![c] = BarrierWord(data[x].high, data[x].linked),
                                                      ![x].linked = TRUE]
      <4>1. data'[c] = BarrierWord(data[x].high, data[x].linked)
        BY <1>1, <1>3, <3>2 DEF TypeOK
      <4> QED BY <3>2, <4>1 DEF BarrierWord
    <3> QED BY <2>2, <3>1, <3>2
  <2>6. AheadStays(Placed, data, Placed', data', None)
    <3>1. SUFFICES ASSUME NEW y \in Work, NEW b \in Barrier, Ahead(Placed, data, y, b)
                   PROVE  Ahead(Placed', data', y, b)
      BY DEF AheadStays
    <3> QED BY <2>2, <2>3, <2>4, <2>5, <3>1, AheadInserts
  <2>7. UNCHANGED current_work
    BY <2>1 DEF FlushWork, InsertBarrier
  <2>8. HeldStays
    <3>1. ASSUME NEW u \in Worker, NEW b, In(scheduled[u], b) PROVE In(scheduled'[u], b)
      <4>1. Placed[u] = scheduled[u] /\ Placed'[u] = scheduled'[u] /\ u \in Heads
        BY <1>1, PlacedFacts, PlacedFactsNext, HeadFacts
      <4>2. PICK j \in 1 .. Len(Placed[u]) : Placed[u][j] = b
        BY <3>1, <4>1 DEF In
      <4>3. CASE u # g
        BY <2>2, <3>1, <4>1, <4>3 DEF Inserts
      <4>4. CASE u = g
        <5>1. Len(Placed[u]) \in Nat /\ Len(Placed'[u]) = Len(Placed[u]) + 1 /\ k \in Nat
          BY <2>2, <4>4, LenProperties DEF Inserts
        <5>2. CASE j <= k
          <6>1. j \in 1 .. Len(Placed'[u]) /\ Placed'[u][j] = b
            BY <2>2, <4>2, <4>4, <5>1, <5>2 DEF Inserts
          <6> QED BY <4>1, <6>1 DEF In
        <5>3. CASE j > k
          <6>1. PICK i : i = j + 1
            OBVIOUS
          <6>2. i \in 1 .. Len(Placed'[u]) /\ ~(i <= k) /\ i # k + 1 /\ i - 1 = j
            BY <5>1, <5>3, <6>1
          <6>3. Placed'[u][i] = b
            BY <2>2, <4>2, <4>4, <6>2 DEF Inserts
          <6> QED BY <4>1, <6>2, <6>3 DEF In
        <5> QED BY <5>1, <5>2, <5>3
      <4> QED BY <4>3, <4>4
    <3> QED BY <2>7, <3>1 DEF HeldStays, HeldBy
  <2>9. ASSUME NEW d \in Caller, d # c PROVE AwaitsRight(d)'
    <3>1. cpc'[d] = cpc[d] /\ tgt'[d] = tgt[d] /\ done'[d] = done[d] /\ awaits'[d] = awaits[d]
      BY <1>1, <1>4, <1>5, <2>9, GotoFacts DEF TypeC
    <3> QED BY <1>1, <2>6, <2>8, <3>1, AwaitsGoesOn DEF BarriersStay
  <2>10. AwaitsRight(c)'
    <3>1. cpc'[c] = "wait" /\ tgt'[c] = x /\ done'[c] = done[c]
          /\ awaits'[c] = IF data[x].high \in Pwq THEN "queued" ELSE "running"
      BY <1>1, <1>2, <1>4, <1>5, GotoFacts DEF TypeC, get_work_pool
    <3>2. ~done[c]
      BY <1>1, <2>1 DEF CallerInv, BarrierQuiet, Quiet
    <3>3. CASE data[x].high \in Pwq
      <4>1. /\ k > 0 /\ Placed[g][k] = x
            /\ data' = [data EXCEPT ![c] = BarrierWord(data[x].high, data[x].linked), ![x].linked = TRUE]
        BY <2>2, <3>3
      <4>2. data'[x].linked
        BY <1>1, <1>3, <4>1 DEF TypeOK, Word
      <4>3. g \in Heads /\ k \in Nat /\ k + 1 \in 1 .. Len(Placed'[g]) /\ k \in 1 .. Len(Placed'[g])
            /\ Placed'[g][k] = x /\ Placed'[g][k + 1] = c
        <5>1. Len(Placed[g]) \in Nat
          BY <2>2, LenProperties DEF Inserts
        <5> QED BY <2>2, <4>1, <5>1 DEF Inserts
      <4>4. PICK m : m = k + 1
        OBVIOUS
      <4>5. m \in 1 .. Len(Placed'[g]) /\ k \in 1 .. m - 1 /\ Placed'[g][m] = c
            /\ \A i \in k .. m - 1 : i = k
        BY <4>1, <4>3, <4>4
      <4>6. \A i \in k .. m - 1 : data'[Placed'[g][i]].linked
        BY <4>2, <4>3, <4>5
      <4>7. Ahead(Placed', data', x, c)
        BY <4>3, <4>5, <4>6 DEF Ahead
      <4> QED BY <3>1, <3>2, <3>3, <4>7 DEF AwaitsRight
    <3>4. CASE data[x].high \notin Pwq
      <4>1. k = 0 /\ g \in Executing(x) /\ g \in Worker
        BY <2>2, <3>4
      <4>2. Placed'[g] = scheduled'[g] /\ g \in Heads
        BY <1>1, <4>1, PlacedFactsNext, HeadFacts
      <4>3. 1 \in 1 .. Len(Placed'[g]) /\ Placed'[g][1] = c
        <5>1. Len(Placed[g]) \in Nat
          BY <2>2, LenProperties DEF Inserts
        <5> QED BY <2>2, <4>1, <5>1 DEF Inserts
      <4>4. HeldBy(x, c)'
        BY <2>7, <4>1, <4>2, <4>3 DEF HeldBy, In, Executing
      <4> QED BY <3>1, <3>2, <3>4, <4>4 DEF AwaitsRight
    <3> QED BY <3>3, <3>4
  <2> QED BY <2>9, <2>10 DEF FlushInv
<1>6. CASE Goto(c, FlushReturns[c]) /\ Stay /\ UNCHANGED waitVars
  <2>1. UNCHANGED <<data, worklist, scheduled, delayed_works, current_work, awaits, done>>
    BY <1>6 DEF Stay, listVars, workerVars, waitVars
  <2>2. cpc[c] # "wait"
    BY DEF FlushLock
  <2> QED BY <1>4, <1>6, <2>1, <2>2, GoesF
<1> QED
  BY <1>2, <1>5, <1>6 DEF FlushLock

(* list_del_init() takes nothing else off the list.                        *)
LEMMA WithoutKeeps ==
  ASSUME NEW s \in Seq(Item), NEW x, NEW b, b # x, In(s, b)
  PROVE  In(Without(s, x), b)
<1>1. CASE ~In(s, x)
  BY <1>1, WithoutFacts
<1>2. CASE In(s, x)
  <2>1. PICK k \in 1 .. Len(s) :
          /\ s[k] = x /\ Len(Without(s, x)) = Len(s) - 1
          /\ \A j \in 1 .. Len(s) - 1 : Without(s, x)[j] = IF j < k THEN s[j] ELSE s[j + 1]
    BY <1>2, WithoutFacts
  <2>2. PICK i \in 1 .. Len(s) : s[i] = b
    BY DEF In
  <2>3. Len(s) \in Nat /\ i # k
    BY <2>1, <2>2, LenProperties
  <2>4. CASE i < k
    <3>1. i \in 1 .. Len(s) - 1 /\ Without(s, x)[i] = b
      BY <2>1, <2>2, <2>3, <2>4
    <3> QED BY <2>1, <3>1 DEF In
  <2>5. CASE i > k
    <3>1. PICK j : j = i - 1
      OBVIOUS
    <3>2. j \in 1 .. Len(s) - 1 /\ ~(j < k) /\ j + 1 = i
      BY <2>3, <2>5, <3>1
    <3>3. Without(s, x)[j] = b
      BY <2>1, <2>2, <3>2
    <3> QED BY <2>1, <3>2, <3>3 DEF In
  <2> QED BY <2>3, <2>4, <2>5
<1> QED
  BY <1>1, <1>2

(* A steal: the barriers of the stolen work wait for nothing any more, the *)
(* others stay behind their works.                                         *)
LEMMA StealF ==
  ASSUME QInv, QInv', FlushInv, NEW c \in Caller, Steal(c)
  PROVE  FlushInv'
<1>1. TypeOK /\ TypeOK' /\ TypeC /\ Frames /\ ListInv /\ WorkBooks
  BY QParts DEF CoreInv, CallerInv
<1>2. PICK x : x = tgt[c]
  OBVIOUS
<1>3. x \in Work /\ x \notin Barrier /\ cpc[c] = "steal"
  BY <1>1, <1>2, TargetFacts, WorkFacts DEF Steal, Caller
<1>4. CASE ~get_work_pool(x)
  <2>1. Goto(c, "failed") /\ UNCHANGED <<data, worklist, scheduled, delayed_works, current_work, awaits, done>>
    BY <1>2, <1>4 DEF Steal, listVars, workerVars
  <2>2. PICK l \in Stops : l = "failed"
    BY DEF Stops
  <2> QED BY <1>3, <2>1, <2>2, GoesF
<1>5. CASE get_work_pool(x)
  <2>1. PICK q \in Pwq : q = data[x].high
    BY <1>5 DEF get_work_pool
  <2>2. /\ SetLists(Stolen(x, q)) /\ scheduled' = AllWithout(scheduled, x)
        /\ awaits' = [d \in Caller |-> IF awaits[d] = "queued" /\ tgt[d] = x THEN "none" ELSE awaits[d]]
        /\ Grabbed(c) /\ UNCHANGED <<lock, state, queueing, workerVars>> /\ UNCHANGED done
    BY <1>2, <1>5, <2>1, StealFacts
  <2>3. AheadStays(Placed, data, Placed', data', x)
    BY <1>1, <1>3, <2>1, <2>2, StealBooks
  <2>4. UNCHANGED current_work
    BY <2>2 DEF workerVars
  <2>5. ASSUME NEW u \in Worker, NEW b \in Barrier, In(scheduled[u], b) PROVE In(scheduled'[u], b)
    <3>1. scheduled[u] \in Seq(Item) /\ b # x
      BY <1>1, <1>3 DEF TypeOK
    <3>2. In(Without(scheduled[u], x), b)
      BY <2>5, <3>1, WithoutKeeps
    <3> QED BY <2>2, <3>2 DEF AllWithout
  <2>6. \A d \in Caller : cpc[d] = "wait" => cpc'[d] = cpc[d] /\ tgt'[d] = tgt[d]
    BY <1>1, <1>3, <2>2, StopsFacts, GotoFacts
  <2>7. ASSUME NEW d \in Caller PROVE AwaitsRight(d)'
    <3>1. PICK y : y = tgt[d]
      OBVIOUS
    <3>2. awaits'[d] = IF awaits[d] = "queued" /\ y = x THEN "none" ELSE awaits[d]
      BY <2>2, <3>1
    <3>3. CASE awaits'[d] = "none"
      BY <3>3 DEF AwaitsRight
    <3>4. CASE awaits'[d] # "none"
      <4>1. /\ awaits'[d] = awaits[d] /\ awaits[d] # "none" /\ (awaits[d] = "queued" => y # x)
            /\ y \in Work /\ d \in Barrier /\ cpc[d] = "wait" /\ ~done[d]
        BY <1>1, <3>1, <3>2, <3>4, AwaitsFacts
      <4>2. cpc'[d] = "wait" /\ tgt'[d] = y /\ ~done'[d]
        BY <2>2, <2>6, <3>1, <4>1
      <4>3. awaits[d] = "queued" => Ahead(Placed', data', y, d)
        BY <2>3, <3>1, <4>1 DEF FlushInv, AwaitsRight, AheadStays
      <4>4. awaits[d] = "running" => HeldBy(y, d)'
        BY <2>4, <2>5, <3>1, <4>1 DEF FlushInv, AwaitsRight, HeldBy
      <4> QED BY <4>1, <4>2, <4>3, <4>4 DEF AwaitsRight
    <3> QED BY <3>3, <3>4
  <2> QED BY <2>7 DEF FlushInv
<1> QED
  BY <1>4, <1>5

(* Nobody waits at the start.                                              *)
LEMMA InitFlushInv == InitQ => FlushInv
BY DEF InitQ, FlushInv, AwaitsRight

(* Every step.                                                             *)
LEMMA NextFlushInv == QInv /\ QInv' /\ FlushInv /\ [NextQ]_allVars => FlushInv'
<1> SUFFICES ASSUME QInv, QInv', FlushInv, [NextQ]_allVars PROVE FlushInv'
  OBVIOUS
<1>1. ASSUME NEW x \in Work, StartQueueing(x) \/ ClientQueues(x) PROVE FlushInv'
  BY <1>1, TimersF, QueuesF
<1>2. ASSUME NEW w \in Worker, WorkerRuns(w) PROVE FlushInv'
  BY <1>2, WorkerRunsF
<1>3. CASE IdleTimer
  BY <1>3, TimersF
<1>4. CASE Timers
  BY <1>4, TimersF, QueuesF DEF Timers
<1>5. ASSUME NEW c \in Caller, Call(c) PROVE FlushInv'
  BY <1>5, CallF
<1>6. ASSUME NEW c \in Caller, CallerStep(c) PROVE FlushInv'
  BY <1>6, QueuesF, FlushLockF, StealF, CallF, PlainStepF, WordStepF DEF CallerStep
<1>7. CASE UNCHANGED allVars
  BY <1>7, RestF DEF allVars, vars, listVars, busyVars, callVars, waitVars
<1> QED
  BY <1>1, <1>2, <1>3, <1>4, <1>5, <1>6, <1>7 DEF NextQ

(* A flush_work() whose barrier has run did wait: the instance of the work *)
(* that the barrier was inserted for has returned or was stolen, wherever  *)
(* activations, collisions and steals have moved the two.                  *)
THEOREM FlushWaits == SpecQ => []FlushTrueWaited
<1>1. QInv /\ FlushInv => FlushTrueWaited
  BY DEF FlushInv, AwaitsRight, FlushTrueWaited
<1> QED
  BY <1>1, InitQInv, NextQInv, InitFlushInv, NextFlushInv, PTL DEF SpecQ
-----------------------------------------------------------------------------
(* A worker is on its way                                                  *)

ComingInv == ManagerPlace /\ WorkComing

(* The two ways in which a worker comes.                                   *)
HeadRuns == idle_list # <<>> /\ state[Head(idle_list)] = "running"
SomeRuns == \E w \in Worker : pc[w] \in {"exec", "ret", "create", "relock"}

(* With the lock free, nobody counts as running, and there is an idle      *)
(* worker or somebody is creating one.                                     *)
LEMMA UnlockedFacts ==
  ASSUME TypeOK, PoolCore, ManagerPlace, lock = None
  PROVE  /\ nr_running = 0 /\ \A w \in Worker : pc[w] \notin {"recheck", "next", "sched", "sleep"}
         /\ idle_list # <<>> \/ SomeRuns
<1>1. nr_running = 0 /\ \A w \in Worker : pc[w] \notin {"recheck", "next", "sched", "sleep"}
  BY NoneFacts DEF PoolCore, LockHolder, NrRunningExact
<1>2. manager # None => SomeRuns
  BY DEF ManagerPlace, SomeRuns, TypeOK
<1> QED
  BY <1>1, <1>2 DEF PoolCore, SpareHeld

(* Insertion wakes the first idle worker.                                  *)
LEMMA WakingComes ==
  ASSUME TypeOK, PoolCore, ManagerPlace, lock = None, UNCHANGED <<idle_list, pc, manager>>,
         state' = IF nr_running = 0 THEN Woken(idle_list, state) ELSE state
  PROVE  ComingInv'
<1>1. nr_running = 0 /\ (idle_list # <<>> \/ SomeRuns)
  BY UnlockedFacts
<1>2. idle_list # <<>> => state'[Head(idle_list)] = "running"
  BY <1>1, HeadTailProperties DEF Woken, TypeOK
<1>3. ManagerPlace'
  BY DEF ManagerPlace
<1> QED
  BY <1>1, <1>2, <1>3 DEF ComingInv, WorkComing, SomeRuns

(* Steps that have nothing to do with it.                                  *)
LEMMA ComingStays ==
  ASSUME ComingInv, UNCHANGED <<lock, worklist, idle_list, state, pc, manager>>
  PROVE  ComingInv'
BY DEF ComingInv, ManagerPlace, WorkComing

(* queue_work().                                                           *)
LEMMA QueueWorkComes ==
  ASSUME TypeOK, PoolCore, ComingInv, NEW x \in Work, QueueWork(x)
  PROVE  ComingInv'
<1>1. lock = None /\ UNCHANGED <<lock, idle_list, pc, manager>>
  BY DEF QueueWork, idleVars
<1>2. \/ UNCHANGED <<worklist, state>>
      \/ state' = IF nr_running = 0 THEN Woken(idle_list, state) ELSE state
  BY DEF QueueWork, listVars
<1> QED
  BY <1>1, <1>2, WakingComes, ComingStays DEF ComingInv

(* The place of the manager, when one worker moves.                        *)
LEMMA ManagerMoves ==
  ASSUME TypeOK, ManagerPlace, NEW w \in Worker, NEW l, pc' = [pc EXCEPT ![w] = l],
         \/ /\ UNCHANGED manager
            /\ l \in {"create", "relock"} <=> pc[w] \in {"create", "relock"}
         \/ manager = None /\ manager' = w /\ l = "create"
         \/ manager' = None /\ pc[w] \in {"create", "relock"} /\ l \notin {"create", "relock"}
  PROVE  ManagerPlace'
<1>1. \A u \in Worker : pc'[u] = IF u = w THEN l ELSE pc[u]
  BY DEF TypeOK
<1>2. w # None /\ \A u \in Worker : u # None
  BY NoneFacts
<1> QED
  BY <1>1, <1>2 DEF ManagerPlace

(* A worker that takes the lock, or keeps it, leaves nothing to show.      *)
LEMMA LockedComes ==
  ASSUME lock' # None
  PROVE  WorkComing'
BY DEF WorkComing

(* A worker that becomes one that comes is enough.                         *)
LEMMA SomeComes ==
  ASSUME NEW w \in Worker, pc'[w] \in {"exec", "ret", "create", "relock"}
  PROVE  WorkComing'
BY DEF WorkComing

(* The worker's steps.                                                     *)
LEMMA WorkerComes ==
  ASSUME TypeOK, PoolCore, ComingInv, NEW w \in Worker, WorkerStep(w)
  PROVE  ComingInv'
<1>1. w # None /\ ManagerPlace /\ WorkComing /\ w \in DOMAIN pc
  BY NoneFacts DEF ComingInv, TypeOK
<1>2. CASE WokeUp(w)
  <2>1. ManagerPlace'
    BY <1>1, <1>2, ManagerMoves DEF WokeUp
  <2>2. CASE die[w]
    <3>1. pc' = [pc EXCEPT ![w] = "dying"] /\ pc[w] = "asleep" /\ UNCHANGED <<lock, worklist, idle_list, state>>
      BY <1>2, <2>2 DEF WokeUp, taskVars, listVars
    <3>2. \A u \in Worker : pc[u] \in {"exec", "ret", "create", "relock"} => pc'[u] = pc[u]
      BY <3>1 DEF TypeOK
    <3> QED BY <1>1, <2>1, <3>1, <3>2 DEF ComingInv, WorkComing
  <2>3. CASE ~die[w]
    BY <1>1, <1>2, <2>1, <2>3, LockedComes DEF WokeUp, ComingInv
  <2> QED BY <2>2, <2>3
<1>3. CASE Dying(w)
  <2>1. pc' = [pc EXCEPT ![w] = "none"] /\ pc[w] = "dying" /\ UNCHANGED <<lock, worklist, idle_list, state, manager>>
    BY <1>3 DEF Dying, idleVars, listVars
  <2>2. \A u \in Worker : pc[u] \in {"exec", "ret", "create", "relock"} => pc'[u] = pc[u]
    BY <2>1 DEF TypeOK
  <2>3. ManagerPlace'
    BY <1>1, <2>1, ManagerMoves
  <2> QED BY <1>1, <2>1, <2>2, <2>3 DEF ComingInv, WorkComing
<1>4. CASE Recheck(w)
  <2>1. lock = w
    BY <1>4 DEF Recheck, PoolCore, LockHolder
  <2>2. CASE manager' = w /\ pc' = [pc EXCEPT ![w] = "create"] /\ manager = None
    <3>1. ManagerPlace' /\ pc'[w] = "create"
      BY <1>1, <2>2, ManagerMoves
    <3> QED BY <3>1, SomeComes DEF ComingInv
  <2>3. CASE \E l \in {"sleep", "next"} : pc' = [pc EXCEPT ![w] = l] /\ UNCHANGED <<lock, manager>>
    <3>1. ManagerPlace'
      BY <1>1, <1>4, <2>3, ManagerMoves DEF Recheck
    <3> QED BY <1>1, <2>1, <2>3, <3>1, LockedComes DEF ComingInv
  <2> QED BY <1>4, <2>2, <2>3 DEF Recheck
<1>5. CASE \E v \in Worker : CreateWorker(w, v)
  <2>1. PICK v \in Worker : CreateWorker(w, v)
    BY <1>5
  <2>2. /\ pc[w] = "create" /\ pc[v] = "none" /\ UNCHANGED manager
        /\ pc' = [pc EXCEPT ![w] = "relock", ![v] = "asleep"]
    BY <2>1 DEF CreateWorker
  <2>3. \A u \in Worker : pc'[u] = IF u = v THEN "asleep" ELSE IF u = w THEN "relock" ELSE pc[u]
    BY <2>2 DEF TypeOK
  <2>4. \A u \in Worker : pc'[u] \in {"create", "relock"} <=> pc[u] \in {"create", "relock"}
    <3>1. TAKE u \in Worker
    <3>2. CASE u = w
      <4>1. pc'[u] = "relock" /\ pc[u] = "create"
        BY <2>2, <2>3, <3>2
      <4> QED BY <4>1
    <3>3. CASE u = v
      <4>1. pc'[u] = "asleep" /\ pc[u] = "none"
        BY <2>2, <2>3, <3>3
      <4> QED BY <4>1
    <3>4. CASE u # v /\ u # w
      BY <2>3, <3>4
    <3> QED BY <3>2, <3>3, <3>4
  <2>5. ManagerPlace'
    BY <1>1, <2>2, <2>4 DEF ManagerPlace
  <2>6. pc'[w] = "relock"
    BY <2>2, <2>3
  <2> QED BY <2>5, <2>6, SomeComes DEF ComingInv
<1>6. CASE CreateFails(w)
  <2>1. ManagerPlace' /\ pc'[w] = "relock"
    BY <1>1, <1>6, ManagerMoves DEF CreateFails, idleVars
  <2> QED BY <2>1, SomeComes DEF ComingInv
<1>7. CASE Relock(w)
  <2>1. CASE need_to_create_worker
    <3>1. ManagerPlace' /\ pc'[w] = "create"
      BY <1>1, <1>7, <2>1, ManagerMoves DEF Relock
    <3> QED BY <3>1, SomeComes DEF ComingInv
  <2>2. CASE ~need_to_create_worker
    <3>1. ManagerPlace'
      BY <1>1, <1>7, <2>2, ManagerMoves DEF Relock
    <3> QED BY <1>1, <1>7, <2>2, <3>1, LockedComes DEF Relock, ComingInv
  <2> QED BY <2>1, <2>2
<1>8. ASSUME NEW from, ProcessOneWork(w, from), pc[w] \in {"next", "sched"} PROVE ComingInv'
  <2>1. UNCHANGED manager /\ lock = w
    BY <1>8 DEF ProcessOneWork, idleVars, PoolCore, LockHolder
  <2>2. CASE pc' = [pc EXCEPT ![w] = "exec"]
    <3>1. ManagerPlace' /\ pc'[w] = "exec"
      BY <1>1, <1>8, <2>1, <2>2, ManagerMoves
    <3> QED BY <3>1, SomeComes DEF ComingInv
  <2>3. CASE pc' = [pc EXCEPT ![w] = "sched"] /\ UNCHANGED lock
    <3>1. ManagerPlace'
      BY <1>1, <1>8, <2>1, <2>3, ManagerMoves
    <3> QED BY <1>1, <2>1, <2>3, <3>1, LockedComes DEF ComingInv
  <2> QED BY <1>8, <2>2, <2>3 DEF ProcessOneWork, Claim, Defer
<1>9. CASE Next1(w) \/ ProcessScheduled(w)
  BY <1>8, <1>9 DEF Next1, ProcessScheduled
<1>10. CASE MoveLinked(w) \/ LoopEnd(w)
  <2>1. lock = w /\ UNCHANGED <<lock, manager>> /\ pc[w] \in {"next", "sched"}
    BY <1>10 DEF MoveLinked, LoopEnd, idleVars, PoolCore, LockHolder
  <2>2. \E l \in {"sched", "next", "sleep"} : pc' = [pc EXCEPT ![w] = l]
    BY <1>10 DEF MoveLinked, LoopEnd
  <2>3. ManagerPlace'
    BY <1>1, <2>1, <2>2, ManagerMoves
  <2> QED BY <1>1, <2>1, <2>3, LockedComes DEF ComingInv
<1>11. CASE RunFunc(w)
  <2>1. ManagerPlace' /\ pc'[w] = "ret"
    BY <1>1, <1>11, ManagerMoves DEF RunFunc, idleVars
  <2> QED BY <2>1, SomeComes DEF ComingInv
<1>12. CASE Return(w)
  <2>1. ManagerPlace' /\ lock' = w
    BY <1>1, <1>12, ManagerMoves DEF Return, idleVars
  <2> QED BY <1>1, <2>1, LockedComes DEF ComingInv
<1>13. CASE Sleep(w)
  <2>1. ManagerPlace' /\ worklist' = <<>>
    BY <1>1, <1>13, ManagerMoves DEF Sleep, listVars, PoolCore, SleepEmpty
  <2> QED BY <2>1 DEF ComingInv, WorkComing
<1> QED
  BY <1>2, <1>3, <1>4, <1>5, <1>6, <1>7, <1>9, <1>10, <1>11, <1>12, <1>13 DEF WorkerStep

(* The idle timer takes the last idle worker only from a manager.          *)
LEMMA IdleTimerComes ==
  ASSUME TypeOK, TypeOK', PoolCore, PoolCore', ComingInv, TimerExpire \/ IdleWorkerTimeout
  PROVE  ComingInv'
<1>1. CASE TimerExpire
  BY <1>1, ComingStays DEF TimerExpire, taskVars, listVars
<1>2. CASE IdleWorkerTimeout
  <2>1. lock = None /\ UNCHANGED <<lock, pc, manager, worklist>>
    BY <1>2 DEF IdleWorkerTimeout, listVars
  <2>2. ManagerPlace'
    BY <2>1 DEF ManagerPlace, ComingInv
  <2>3. idle_list' # <<>> \/ SomeRuns
    <3>1. idle_list' # <<>> \/ manager # None
      BY <2>1 DEF PoolCore, SpareHeld
    <3> QED BY <3>1 DEF ManagerPlace, ComingInv, SomeRuns, TypeOK
  <2>4. ASSUME HeadRuns, idle_list' # <<>> PROVE HeadRuns'
    <3>1. PICK k \in 0 .. Len(idle_list) :
            /\ idle_list' = SubSeq(idle_list, 1, Len(idle_list) - k)
            /\ \A w \in Worker : state'[w] = state[w] \/ state'[w] = "running"
      BY <1>2 DEF IdleWorkerTimeout
    <3>2. idle_list \in Seq(Worker) /\ idle_list' \in Seq(Worker) /\ Len(idle_list) \in Nat
      BY LenProperties DEF TypeOK
    <3>3. Len(idle_list') > 0 /\ Len(idle_list) - k > 0
      <4>1. Len(idle_list') > 0
        BY <2>4, <3>2, EmptySeq, LenProperties
      <4>2. Len(idle_list') = IF 1 <= Len(idle_list) - k THEN Len(idle_list) - k - 1 + 1 ELSE 0
        BY <3>1, <3>2, SubSeqType
      <4> QED BY <3>1, <3>2, <4>1, <4>2
    <3>4. Head(idle_list') = Head(idle_list)
      BY <3>1, <3>2, <3>3, HeadTailOfSubSeq
    <3>5. Head(idle_list) \in Worker /\ state[Head(idle_list)] = "running"
      BY <2>4, <3>2, HeadTailProperties DEF HeadRuns
    <3> QED BY <2>4, <3>1, <3>4, <3>5 DEF HeadRuns
  <2> QED BY <2>1, <2>2, <2>3, <2>4 DEF ComingInv, WorkComing, HeadRuns, SomeRuns
<1> QED
  BY <1>1, <1>2

(* With the lock free and the worklist empty, a work that is listed is in  *)
(* the scheduled list of a worker that executes, or waits for a slot that  *)
(* such a work, or one that is executed, holds.                            *)
LEMMA ListedRuns ==
  ASSUME TypeOK, CoreInv, WorkBooks, lock = None, worklist = <<>>,
         NEW x \in Work, data[x].high \in Pwq
  PROVE  SomeRuns
<1>1. \A w \in Worker : scheduled[w] # <<>> \/ current_work[w] # None => pc[w] \in {"exec", "ret"}
  BY HeadFacts DEF WorkBooks, ScheduledHeld, CoreInv, PoolCore, LockHolder, Busy
<1>2. ASSUME NEW y \in Work, data[y].high \in Pwq, ~data[y].delayed PROVE SomeRuns
  <2>1. On(Placed, Heads, y)
    BY <1>2, BookFacts, WorkFacts DEF CoreInv
  <2>2. PICK h \in Heads : \E k \in 1 .. Len(Placed[h]) : Placed[h][k] = y
    BY <2>1 DEF On
  <2>3. h \notin Pwq
    <3> SUFFICES ASSUME h \in Pwq PROVE FALSE
      OBVIOUS
    <3>1. Placed[h] = delayed_works[h] /\ SlotsOf(h)
      BY BookFacts DEF CoreInv
    <3>2. Waits(h, y)
      BY <2>2, <3>1 DEF Waits
    <3> QED BY <1>2, <3>1, <3>2 DEF SlotsOf
  <2>4. h # None
    <3>1. Len(worklist) = 0
      BY EmptySeq
    <3> QED BY <2>2, <3>1, PlacedFacts
  <2>5. h \in Worker /\ Placed[h] = scheduled[h] /\ scheduled[h] \in Seq(Item)
    BY <2>3, <2>4, PlacedFacts DEF Heads, TypeOK
  <2>6. scheduled[h] # <<>>
    <3> SUFFICES ASSUME scheduled[h] = <<>> PROVE FALSE
      OBVIOUS
    <3>1. Len(scheduled[h]) = 0
      BY EmptySeq
    <3> QED BY <2>2, <2>5, <3>1
  <2> QED BY <1>1, <2>5, <2>6 DEF SomeRuns
<1>3. CASE ~data[x].delayed
  BY <1>2, <1>3
<1>4. CASE data[x].delayed
  <2>1. PICK q \in Pwq : q = data[x].high
    OBVIOUS
  <2>2. SlotsOf(q) /\ nr_active[q] \in Int /\ MaxActive[q] \in Nat \ {0}
    BY BookFacts, PoolAssumption DEF CoreInv
  <2>3. PICK k \in 1 .. Len(delayed_works[q]) : delayed_works[q][k] = x
    BY <1>4, <2>1, <2>2 DEF SlotsOf, Waits
  <2>4. delayed_works[q] # <<>>
    <3> SUFFICES ASSUME delayed_works[q] = <<>> PROVE FALSE
      OBVIOUS
    <3>1. Len(delayed_works[q]) = 0
      BY EmptySeq
    <3> QED BY <2>3, <3>1
  <2>5. Cardinality(OnSlot(q)) + Cardinality(BySlot(q)) > 0
    BY <2>2, <2>4 DEF SlotsOf
  <2>6. OnSlot(q) # {} \/ BySlot(q) # {}
    <3> SUFFICES ASSUME OnSlot(q) = {}, BySlot(q) = {} PROVE FALSE
      OBVIOUS
    <3>1. Cardinality(OnSlot(q)) = 0 /\ Cardinality(BySlot(q)) = 0
      BY FS_EmptySet
    <3> QED BY <2>5, <3>1
  <2>7. CASE OnSlot(q) # {}
    BY <1>2, <2>1, <2>7 DEF OnSlot
  <2>8. CASE BySlot(q) # {}
    <3>1. PICK w \in Worker : current_work[w] \in Work
      BY <2>8 DEF BySlot
    <3> QED BY <1>1, <3>1, WorkFacts DEF SomeRuns
  <2> QED BY <2>6, <2>7, <2>8
<1> QED
  BY <1>3, <1>4

(* try_to_grab_pending() wakes nobody, but what it leaves on the worklist  *)
(* is not alone.                                                           *)
LEMMA StealComes ==
  ASSUME QInv, ComingInv, NEW c \in Caller, Steal(c)
  PROVE  ComingInv'
<1>1. TypeOK /\ TypeC /\ CoreInv /\ WorkBooks /\ Frames
  BY QParts DEF CallerInv
<1>2. PICK x : x = tgt[c]
  OBVIOUS
<1>3. x \in Work
  BY <1>1, <1>2, TargetFacts DEF Steal
<1>4. lock = None /\ UNCHANGED <<lock, idle_list, state, pc, manager>>
  BY DEF Steal, workerVars, idleVars
<1>5. ManagerPlace'
  BY <1>4 DEF ComingInv, ManagerPlace
<1>6. CASE worklist # <<>>
  BY <1>4, <1>5, <1>6 DEF ComingInv, WorkComing
<1>7. CASE get_work_pool(x) /\ worklist = <<>>
  <2>1. SomeRuns
    BY <1>1, <1>3, <1>4, <1>7, ListedRuns DEF get_work_pool
  <2> QED BY <1>4, <1>5, <2>1 DEF ComingInv, WorkComing, SomeRuns
<1>8. CASE ~get_work_pool(x)
  <2>1. UNCHANGED worklist
    BY <1>2, <1>8 DEF Steal, listVars
  <2> QED BY <1>4, <2>1, ComingStays
<1> QED
  BY <1>6, <1>7, <1>8

(* Clients, timers and callers.                                            *)
LEMMA ClientsCome ==
  ASSUME QInv, ComingInv,
         \/ \E x \in Work : StartQueueing(x) \/ ClientQueues(x)
         \/ Timers
         \/ \E c \in Caller : Call(c) \/ CallerStep(c)
  PROVE  ComingInv'
<1>1. TypeOK /\ TypeC /\ PoolCore /\ Frames
  BY QParts DEF CoreInv, CallerInv
<1>2. ASSUME NEW x \in Work, StartQueueing(x) PROVE ComingInv'
  BY <1>2, ComingStays DEF StartQueueing, SetPending, idleVars, taskVars
<1>3. ASSUME NEW x \in Work, ClientQueues(x) PROVE ComingInv'
  BY <1>1, <1>3, QueueWorkComes DEF ClientQueues
<1>4. ASSUME NEW x \in DelayedWork, TimerFn(x) PROVE ComingInv'
  BY <1>1, <1>4, QueueWorkComes, WorkFacts DEF TimerFn
<1>5. ASSUME NEW x \in DelayedWork,
             (\E q \in Pwq : QueueDelayed(x, q)) \/ ArmTimer(x) \/ FireTimer(x) \/ FiredTimer(x)
      PROVE  ComingInv'
  BY <1>5, ComingStays DEF QueueDelayed, ArmTimer, FireTimer, FiredTimer, workerVars, idleVars,
                           taskVars, listVars, vars
<1>6. ASSUME NEW c \in Caller, QueueNow(c) PROVE ComingInv'
  <2>1. PICK x : x = tgt[c]
    OBVIOUS
  <2>2. x \in Work /\ QueueWork(x)
    BY <1>1, <1>6, <2>1, TargetFacts DEF QueueNow
  <2> QED BY <1>1, <2>2, QueueWorkComes
<1>7. ASSUME NEW c \in Caller, FlushLock(c) PROVE ComingInv'
  <2>1. CASE InsertBarrier(tgt[c], c)
    BY <1>1, <2>1, WakingComes DEF InsertBarrier, idleVars, ComingInv
  <2>2. CASE Stay
    BY <2>2, ComingStays DEF Stay, listVars, workerVars, idleVars
  <2> QED BY <1>7, <2>1, <2>2 DEF FlushLock
<1>8. ASSUME NEW c \in Caller, Call(c) \/ Broadcast(c) PROVE ComingInv'
  BY <1>8, ComingStays DEF Call, Broadcast, Stay, listVars, workerVars, idleVars
<1>9. ASSUME NEW c \in Caller,
             DelTimerSync(c) \/ FlushRead(c) \/ FlushWait(c) \/ DelTimer(c) \/ ReadPool(c)
               \/ Failed(c) \/ CondWait(c)
      PROVE  ComingInv'
  BY <1>9, ComingStays DEF DelTimerSync, FlushRead, FlushWait, DelTimer, ReadPool, Failed, CondWait,
                           Stay, listVars, workerVars, idleVars
<1>10. ASSUME NEW c \in Caller, TestAndSet(c) \/ Drop(c) \/ Mark(c) \/ Clear(c) PROVE ComingInv'
  BY <1>10, ComingStays DEF TestAndSet, Drop, Mark, Clear, workerVars, idleVars
<1>11. ASSUME NEW c \in Caller, CallerStep(c) PROVE ComingInv'
  BY <1>6, <1>7, <1>8, <1>9, <1>10, <1>11, StealComes DEF CallerStep
<1> QED
  BY <1>2, <1>3, <1>4, <1>5, <1>8, <1>11 DEF Timers

(* At the start the worklist is empty, and nobody creates a worker.        *)
LEMMA InitComingInv == InitQ => ComingInv
<1> SUFFICES ASSUME InitQ PROVE ComingInv
  OBVIOUS
<1>1. /\ worklist = <<>> /\ manager = None
      /\ \E w0 \in Worker : pc = [w \in Worker |-> IF w = w0 THEN "asleep" ELSE "none"]
  BY DEF InitQ, Init
<1> QED
  BY <1>1, NoneFacts DEF ComingInv, ManagerPlace, WorkComing

(* Every step.                                                             *)
LEMMA NextComingInv == QInv /\ QInv' /\ ComingInv /\ [NextQ]_allVars => ComingInv'
<1> SUFFICES ASSUME QInv, QInv', ComingInv, [NextQ]_allVars PROVE ComingInv'
  OBVIOUS
<1>1. TypeOK /\ TypeOK' /\ PoolCore /\ PoolCore'
  BY QParts DEF CoreInv
<1>2. ASSUME NEW w \in Worker, WorkerRuns(w) PROVE ComingInv'
  BY <1>1, <1>2, WorkerComes DEF WorkerRuns, Pool
<1>3. CASE IdleTimer
  BY <1>1, <1>3, IdleTimerComes DEF IdleTimer
<1>4. CASE UNCHANGED allVars
  BY <1>4, ComingStays DEF allVars, vars, listVars, idleVars, taskVars
<1> QED
  BY <1>2, <1>3, <1>4, ClientsCome DEF NextQ

(* A worker is on its way to a worklist with work in it while the lock is  *)
(* free: also for the works that a steal, which wakes nobody, puts there.  *)
THEOREM WorkIsComing == SpecQ => []WorkComing
<1>1. ComingInv => WorkComing
  BY DEF ComingInv
<1> QED
  BY <1>1, InitQInv, NextQInv, InitComingInv, NextComingInv, PTL DEF SpecQ
-----------------------------------------------------------------------------
(* Ordered workqueues                                                      *)

(* A step that sets PENDING of work x, and no more of the works.           *)
LEMMA PendingOrder ==
  ASSUME TypeOK, NEW x \in Work, data' = [data EXCEPT ![x].pending = TRUE],
         UNCHANGED <<delayed_works, current_work, current_pwq>>, NEW q \in OrderedPwq
  PROVE  OrderedStep(q)
<1>1. \A y \in Work : data'[y].high = data[y].high /\ data'[y].delayed = data[y].delayed
  BY ItemFacts DEF TypeOK, Word
<1> QED
  BY <1>1, OtherOrder

(* The owner of PENDING of work x, which is on no list, writes its word.   *)
LEMMA HolderOrder ==
  ASSUME QInv, NEW c \in Caller, NEW x \in Work, x = tgt[c], Owns(c), NEW word, word.high \notin Pwq,
         data' = [data EXCEPT ![x] = word],
         UNCHANGED <<delayed_works, current_work, current_pwq>>, NEW q \in OrderedPwq
  PROVE  OrderedStep(q)
<1>1. TypeOK /\ TypeC /\ CallerInv
  BY QParts
<1>2. data[x].high \notin Pwq
  BY <1>1, CancelingAs, HolderFacts DEF CallerInv, Sole, Holds
<1>3. q \in Pwq /\ delayed_works'[q] = delayed_works[q] /\ \A y \in Work : Runs(q, y)' <=> Runs(q, y)
  BY DEF OrderedPwq, Runs
<1>4. \A y \in Work : data'[y] = IF y = x THEN word ELSE data[y]
  BY <1>1, ItemFacts DEF TypeOK
<1> QED
  BY <1>2, <1>3, <1>4, OrdKeeps

(* try_to_grab_pending() takes a work out of its pwq: a withdrawal.        *)
LEMMA StealOrder ==
  ASSUME QInv, NEW c \in Caller, Steal(c), NEW q \in OrderedPwq
  PROVE  OrderedStep(q)
<1>1. /\ TypeOK /\ TypeC /\ CoreInv /\ WorkBooks /\ CallerInv
      /\ Frame(c) /\ tgt[c] \in Work /\ q \in Pwq
  BY QParts, TargetFacts DEF Steal, CallerInv, OrderedPwq
<1>2. PICK x \in Work : x = tgt[c]
  BY <1>1
<1>3. UNCHANGED <<current_work, current_pwq>> /\ \A y \in Work : Runs(q, y)' <=> Runs(q, y)
  BY DEF Steal, workerVars, Runs
<1>4. CASE ~get_work_pool(x)
  BY <1>2, <1>3, <1>4, OtherOrder DEF Steal, listVars
<1>5. CASE get_work_pool(x)
  <2>1. PICK p \in Pwq : p = data[x].high
    BY <1>5 DEF get_work_pool
  <2>2. /\ lock = None /\ SetLists(Stolen(x, p)) /\ scheduled' = AllWithout(scheduled, x)
        /\ UNCHANGED <<lock, state, queueing, workerVars>>
    BY <1>2, <1>5, <2>1, StealFacts
  <2>3. /\ TypeOK' /\ data'[x] = OffQueue(PoolId, TRUE)
        /\ \A y \in Item \ {x} : data'[y].high = data[y].high
        /\ OrdStays(Placed, data, Placed', data', x)
    BY <1>1, <2>1, <2>2, StealBooks DEF CoreInv
  <2>4. data'[x].high \notin Pwq /\ \A y \in Work \ {x} : data'[y].high = data[y].high
    <3>1. OffQueue(PoolId, TRUE).high = PoolId
      BY DEF OffQueue, WorkDataInit
    <3> QED BY <2>3, <3>1, HeadFacts, WorkFacts
  <2>5. \A y \in Work \ {x} : \A z \in Work \ {x} :
          data[y].high = q /\ data[z].high = q => (Before(q, y, z)' <=> Before(q, y, z))
    <3>1. Placed[q] = delayed_works[q] /\ Placed'[q] = delayed_works'[q]
      BY <1>1, <2>3, PlacedFacts, PlacedFactsNext
    <3> QED BY <2>3, <3>1 DEF OrdStays, Before
  <2>6. CASE p = q
    <3>1. Ordered(q)!Leave(x)
      <4>1. /\ q \in Pwq /\ x \in Work /\ data[x].high = q /\ data'[x].high # q
            /\ \A y \in Work \ {x} : data'[y].high = q <=> data[y].high = q
        BY <1>1, <2>1, <2>4, <2>6
      <4> HIDE DEF Before
      <4> QED BY ONLY <2>5, <4>1, OrdLeaves
    <3>2. OrdRunning(q)' = OrdRunning(q)
      BY <1>3 DEF OrdRunning, Runs
    <3> QED BY <3>1, <3>2 DEF OrderedStep, Ordered!Next, Ordered!Withdraw
  <2>7. CASE p # q
    <3>1. data[x].high # q /\ data'[x].high # q
      BY <1>1, <2>1, <2>4, <2>7
    <3>2. \A y \in Work : \A z \in Work :
            data[y].high = q /\ data[z].high = q => (Before(q, y, z)' <=> Before(q, y, z))
      BY <2>5, <3>1
    <3>3. \A y \in Work : data'[y].high = q <=> data[y].high = q
      BY <2>4, <3>1
    <3> HIDE DEF Before
    <3> QED BY <1>1, <1>3, <3>2, <3>3, OrdSame
  <2> QED BY <2>6, <2>7
<1> QED
  BY <1>4, <1>5

(* Clients, timers and callers.                                            *)
LEMMA ClientsOrder ==
  ASSUME QInv, QInv', NEW q \in OrderedPwq,
         \/ \E x \in Work : StartQueueing(x) \/ ClientQueues(x)
         \/ Timers
         \/ \E c \in Caller : Call(c) \/ CallerStep(c)
  PROVE  OrderedStep(q)
<1>1. /\ TypeOK /\ TypeOK' /\ TypeC /\ Busy /\ ListInv /\ WorkBooks /\ MaxActiveExact /\ Frames
  BY QParts DEF CoreInv, PoolCore, CallerInv, WorkBooks
<1>2. ASSUME NEW x \in Work, StartQueueing(x) PROVE OrderedStep(q)
  BY <1>1, <1>2, SetPendingOrder DEF StartQueueing
<1>3. ASSUME NEW x \in Work, QueueWork(x) PROVE OrderedStep(q)
  BY <1>1, <1>3, QueueWorkOrder
<1>4. ASSUME UNCHANGED <<delayed_works, current_work, current_pwq, data>> PROVE OrderedStep(q)
  BY <1>4, OtherOrder
<1>5. ASSUME NEW x \in DelayedWork, NEW p \in Pwq, QueueDelayed(x, p) PROVE OrderedStep(q)
  BY <1>1, <1>5, PendingOrder, WorkFacts DEF QueueDelayed, workerVars
<1>6. ASSUME NEW x \in DelayedWork, ArmTimer(x) \/ FireTimer(x) \/ FiredTimer(x) PROVE OrderedStep(q)
  BY <1>4, <1>6 DEF ArmTimer, FireTimer, FiredTimer, vars, listVars, busyVars, workerVars
<1>7. ASSUME NEW c \in Caller,
             \/ Call(c) \/ DelTimerSync(c) \/ FlushRead(c) \/ FlushWait(c) \/ DelTimer(c) \/ ReadPool(c)
             \/ Failed(c) \/ CondWait(c) \/ Broadcast(c)
      PROVE  OrderedStep(q)
  BY <1>4, <1>7 DEF Call, DelTimerSync, FlushRead, FlushWait, DelTimer, ReadPool, Failed, CondWait,
                    Broadcast, Stay, listVars, workerVars
<1>8. ASSUME NEW c \in Caller, QueueNow(c) PROVE OrderedStep(q)
  BY <1>1, <1>3, <1>8, TargetFacts DEF QueueNow
<1>9. ASSUME NEW c \in Caller, FlushLock(c) PROVE OrderedStep(q)
  <2>1. tgt[c] \in Work /\ c \in Barrier /\ cpc[c] = "flush_lock"
    BY <1>1, <1>9, TargetFacts DEF FlushLock, Caller
  <2>2. CASE /\ InsertBarrier(tgt[c], c)
             /\ awaits' = [awaits EXCEPT ![c] = IF get_work_pool(tgt[c]) THEN "queued" ELSE "running"]
             /\ Goto(c, "wait")
             /\ UNCHANGED <<done, timerVars>>
    <3>1. awaits' \in [Caller -> {"none", "queued", "running"}]
      BY <1>1, <2>2 DEF TypeC
    <3>2. FlushWork(tgt[c], c)
      BY <2>1, <2>2, <3>1, InsertBarrierQ
    <3> QED BY <1>1, <2>1, <3>2, FlushWorkOrder
  <2>3. CASE Stay
    BY <1>4, <2>3 DEF Stay, listVars, workerVars
  <2> QED BY <1>9, <2>2, <2>3 DEF FlushLock
<1>10. ASSUME NEW c \in Caller, TestAndSet(c) PROVE OrderedStep(q)
  BY <1>1, <1>10, PendingOrder, TargetFacts DEF TestAndSet, workerVars
<1>11. ASSUME NEW c \in Caller, Drop(c) \/ Mark(c) \/ Clear(c) PROVE OrderedStep(q)
  <2>1. PICK x : x = tgt[c]
    OBVIOUS
  <2>2. x \in Work /\ Owns(c) /\ UNCHANGED <<delayed_works, current_work, current_pwq>>
    BY <1>1, <1>11, <2>1, TargetFacts DEF Drop, Mark, Clear, Owns, workerVars
  <2>3. data[x].high \notin Pwq
    BY <1>1, <2>1, <2>2, QParts, CancelingAs, HolderFacts DEF CallerInv, Sole, Holds
  <2>4. PICK word : word.high \notin Pwq /\ data' = [data EXCEPT ![x] = word]
    <3>1. CASE Drop(c)
      <4>1. OffQueue(data[x].high, FALSE).high = data[x].high
        BY DEF OffQueue, WorkDataInit
      <4> QED BY <2>1, <2>3, <3>1, <4>1 DEF Drop
    <3>2. CASE Mark(c)
      <4>1. [OffQueue(data[x].high, TRUE) EXCEPT !.canceling = TRUE].high = data[x].high
        BY DEF OffQueue, WorkDataInit
      <4> QED BY <2>1, <2>3, <3>2, <4>1 DEF Mark
    <3>3. CASE Clear(c)
      <4>1. WorkDataInit.high \notin Pwq
        BY HeadFacts DEF WorkDataInit
      <4> QED BY <2>1, <3>3, <4>1 DEF Clear
    <3> QED BY <1>11, <3>1, <3>2, <3>3
  <2> QED BY <2>1, <2>2, <2>4, HolderOrder
<1>12. CASE \E x \in Work : StartQueueing(x) \/ ClientQueues(x)
  BY <1>2, <1>3, <1>12 DEF ClientQueues
<1>13. CASE Timers
  BY <1>3, <1>5, <1>6, <1>13, WorkFacts DEF Timers, TimerFn
<1>14. CASE \E c \in Caller : Call(c) \/ CallerStep(c)
  BY <1>7, <1>8, <1>9, <1>10, <1>11, <1>14, StealOrder DEF CallerStep
<1> QED
  BY <1>12, <1>13, <1>14

(* Every step is one of OrderedQueue, or none.                             *)
LEMMA NextOrderQ ==
  ASSUME QInv, QInv', [NextQ]_allVars, NEW q \in OrderedPwq
  PROVE  OrderedStep(q)
<1>1. TypeOK /\ TypeOK' /\ Busy /\ ListInv /\ WorkBooks
  BY QParts DEF CoreInv, PoolCore
<1>2. ASSUME NEW w \in Worker, WorkerRuns(w) PROVE OrderedStep(q)
  BY <1>1, <1>2, WorkerStepOrder DEF WorkerRuns, Pool
<1>3. CASE IdleTimer \/ UNCHANGED allVars
  <2>1. UNCHANGED <<delayed_works, current_work, current_pwq, data>>
    BY <1>3 DEF IdleTimer, TimerExpire, IdleWorkerTimeout, allVars, vars, listVars, busyVars
  <2> QED BY <2>1, OtherOrder
<1> QED
  BY <1>2, <1>3, ClientsOrder DEF NextQ

(* An ordered workqueue keeps its order whoever flushes, delays and        *)
(* cancels its works, or those of other workqueues.                        *)
THEOREM CancelsKeepTheOrder == SpecQ => InQueuedOrder
<1>1. InitQ => \A q \in OrderedPwq : Ordered(q)!Init
  BY InitOrder DEF InitQ
<1>2. QInv /\ QInv' /\ [NextQ]_allVars => [\A q \in OrderedPwq : OrderedStep(q)]_vars
  BY NextOrderQ
<1> QED
  BY <1>1, <1>2, QueueInvariance, PTL DEF SpecQ, InQueuedOrder
=============================================================================
