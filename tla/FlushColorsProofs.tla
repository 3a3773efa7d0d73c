-------------------------- MODULE FlushColorsProofs --------------------------
(***************************************************************************)
(* Proofs about FlushColors: flush_workqueue() waits for all works that    *)
(* were in flight, for any number of works, pwqs, flushers and colours.    *)
(*                                                                         *)
(* The invariant has five parts: who is where (Control), what the armed    *)
(* pwqs still wait for (Arms), which colours are closed and who waits for  *)
(* each (Colors), what each flush is owed (Debts), and the count of drains *)
(* (Drains).                                                               *)
(***************************************************************************)
EXTENDS FlushColors, ListLemmas, FiniteSetTheorems

(* How many colours c is after a, and the colour after c, without a        *)
(* modulus.                                                                *)
Gap(a, c) == IF c >= a THEN c - a ELSE c - a + NrColors
Succ(c) == IF c = NrColors - 1 THEN 0 ELSE c + 1

(* work_next_color() goes round the colours.                               *)
LEMMA SuccIs == \A c \in Color : work_next_color(c) = Succ(c) /\ Succ(c) \in Color
<1> USE ColorAssumption
<1> SUFFICES ASSUME NEW c \in Color PROVE (c + 1) % NrColors = Succ(c) /\ Succ(c) \in Color
  BY DEF work_next_color
<1> QED BY SMT DEF Succ, Color

(* The distance of a colour from flush_color is the gap between them.      *)
LEMMA DistIs == flush_color \in Color => \A c \in Color : Dist(c) = Gap(flush_color, c)
  BY ColorAssumption DEF Dist, Gap, Color

(* Gaps are numbers below NrColors; when flush_color or work_color moves   *)
(* on, they shrink or grow by one.                                         *)
LEMMA GapFacts ==
  ASSUME NEW a \in Color, NEW c \in Color
  PROVE  /\ Gap(a, c) \in Color /\ (Gap(a, c) = 0 <=> c = a)
         /\ c # a => Gap(Succ(a), c) = Gap(a, c) - 1
         /\ Succ(c) # a => Gap(a, Succ(c)) = Gap(a, c) + 1
         /\ Succ(c) = a <=> Gap(a, c) = NrColors - 1
         /\ \A d \in Color : Gap(a, c) = Gap(a, d) => c = d
  BY ColorAssumption DEF Gap, Succ, Color
-----------------------------------------------------------------------------
(* Who is where                                                            *)

(* wq->mutex is held by the flusher that is at a place under it.           *)
Holding == {"prep", "nothing", "unlock_wait", "complete", "hand_on", "again", "unlock"}
MutexHolder == \A f \in Flusher : fpc[f] \in Holding <=> mutex = f

(* Who is linked in one of the two lists waits, or is about to and has the *)
(* mutex; its completion was not sent, and it is not the first flusher.    *)
LinkedWaits == \A g \in Flusher : In(flusher_queue, g) \/ In(flusher_overflow, g) =>
  /\ fpc[g] \in {"wait", "prep", "unlock_wait"} /\ ~done[g] /\ g # first_flusher
  /\ fpc[g] = "prep" => prep.yes = "unlock_wait"

(* Nobody is linked twice.                                                 *)
LinkedOnce ==
  /\ \A j, k \in 1 .. Len(flusher_queue) : flusher_queue[j] = flusher_queue[k] => j = k
  /\ \A j, k \in 1 .. Len(flusher_overflow) : flusher_overflow[j] = flusher_overflow[k] => j = k
  /\ \A j \in 1 .. Len(flusher_queue), k \in 1 .. Len(flusher_overflow) :
       flusher_queue[j] # flusher_overflow[k]

(* The cascade, while it is on its way from one first flusher to the next. *)
HandsOn == mutex # None /\ (fpc[mutex] = "hand_on" \/ (fpc[mutex] = "prep" /\ prep.yes = "hand_on"))
Cascade == mutex # None /\ (fpc[mutex] = "complete" \/ HandsOn)

(* The first flusher has not left, nobody is first flusher in the cascade, *)
(* and the one that will be is the head of the queue.                      *)
FirstWaits ==
  /\ first_flusher # None =>
       fpc[first_flusher] \in {"prep", "nothing", "unlock_wait", "wait", "relock"} /\ ~Cascade
  /\ \A f \in Flusher : fpc[f] = "relock" => done[f]
  /\ HandsOn => flusher_overflow = <<>>
                /\ next = IF flusher_queue = <<>> THEN None ELSE Head(flusher_queue)

(* The four uses of flush_workqueue_prep_pwqs(): of a first flusher, of    *)
(* one that queues, of the overflow list, and of the next first flusher.   *)
PrepMode ==
  /\ (\A f \in Flusher : fpc[f] # "prep") => prep = NoPrep
  /\ \A f \in Flusher : fpc[f] = "prep" =>
       \/ /\ first_flusher = f /\ prep.flush = flush_color /\ prep.work = work_color
          /\ prep.yes = "unlock_wait" /\ prep.no = "nothing"
       \/ /\ first_flusher \notin {None, f} /\ prep.flush = -1 /\ prep.work = work_color
          /\ prep.yes = "unlock_wait" /\ prep.no = "unlock_wait"
       \/ /\ first_flusher = None /\ prep.flush = -1 /\ prep.work = work_color
          /\ prep.yes = "hand_on" /\ prep.no = "hand_on"
       \/ /\ first_flusher \notin {None, f} /\ prep.flush = flush_color /\ prep.work = -1
          /\ prep.yes = "unlock" /\ prep.no = "again"
FirstOrNot == \A f \in Flusher :
  /\ fpc[f] = "nothing" => first_flusher = f
  /\ fpc[f] = "again" => first_flusher \notin {None, f}
  /\ fpc[f] = "unlock_wait" => first_flusher # None
  /\ fpc[f] \in {"unlock", "complete", "hand_on"} => first_flusher # f

Control == MutexHolder /\ LinkedWaits /\ LinkedOnce /\ FirstWaits /\ PrepMode /\ FirstOrNot
-----------------------------------------------------------------------------
(* What the armed pwqs wait for                                            *)

Armed(q) == pwq_flush_color[q] # -1

(* Pwqs are armed for flush_color, while they are visited or afterwards;   *)
(* prep.wait says that some were.                                          *)
ArmedRight ==
  /\ \A q \in Pwq : Armed(q) => pwq_flush_color[q] = flush_color
  /\ prep.flush >= 0 => \A q \in prep.todo : ~Armed(q)
  /\ prep.flush >= 0 /\ ~prep.wait => \A q \in Pwq : ~Armed(q)
  /\ \A f \in Flusher : fpc[f] \in {"again", "nothing"} => \A q \in Pwq : ~Armed(q)

(* A pwq with works in flight in the colour that is flushed is armed, or   *)
(* will be; and none is left when that colour is completed.                *)
Old(x) == x \in InFlight /\ wcolor[x] = flush_color
OldArmed ==
  /\ first_flusher # None =>
       \A x \in Work : Old(x) => Armed(pwq[x]) \/ (prep.flush >= 0 /\ pwq[x] \in prep.todo)
  /\ \A f \in Flusher : fpc[f] = "complete" => \A x \in Work : ~Old(x)

Arms == CountExact /\ FirstFlusherWaits /\ ArmedRight /\ OldArmed
-----------------------------------------------------------------------------
(* Which colours are closed                                                *)

(* Works in flight have a closed colour or work_color.                     *)
InFlightColor == \A x \in Work : x \in InFlight =>
  wcolor[x] \in Color /\ pwq[x] \in Pwq /\ Gap(flush_color, wcolor[x]) <= Gap(flush_color, work_color)

(* Works are queued with work_color.                                       *)
QueuedColor == \A q \in Pwq :
  pwq_work_color[q] = work_color \/ (prep.work >= 0 /\ q \in prep.todo)

(* The first flusher has flush_color and the queue has the later colours,  *)
(* in order; each closed colour has somebody who waits for it.             *)
Holder(g) == g = first_flusher \/ In(flusher_queue, g)
HolderColor ==
  /\ \A g \in Flusher : Holder(g) =>
       color[g] \in Color /\ Gap(flush_color, color[g]) < Gap(flush_color, work_color)
  /\ first_flusher # None => color[first_flusher] = flush_color
  /\ \A j, k \in 1 .. Len(flusher_queue) :
       j <= k => Gap(flush_color, color[flusher_queue[j]]) <= Gap(flush_color, color[flusher_queue[k]])
ClosedHeld ==
  \A c \in Color : Gap(flush_color, c) < Gap(flush_color, work_color) =>
    \/ \E g \in Flusher : Holder(g) /\ color[g] = c
    \/ c = flush_color /\ \E f \in Flusher : fpc[f] = "complete"

(* Flushes overflow while no colour is left, and the queues are empty when *)
(* nobody flushes and when a first flusher starts.                         *)
NoFlush ==
  /\ \A f \in Flusher : fpc[f] = "complete" => work_color # flush_color
  /\ flusher_overflow # <<>> => Succ(work_color) = flush_color
  /\ first_flusher = None /\ ~Cascade =>
       flusher_queue = <<>> /\ flusher_overflow = <<>> /\ work_color = flush_color
  /\ first_flusher # None /\ first_flusher = mutex =>
       flusher_queue = <<>> /\ flusher_overflow = <<>> /\ work_color = Succ(flush_color)

Colors == InFlightColor /\ QueuedColor /\ HolderColor /\ ClosedHeld /\ NoFlush
-----------------------------------------------------------------------------
(* What a flush is owed: works in flight, none of a later colour than its  *)
(* own, and none when it is completed.                                     *)
OwedRight ==
  /\ \A f \in Flusher : owed[f] \subseteq InFlight
  /\ \A g \in Flusher : Holder(g) =>
       \A x \in owed[g] : Gap(flush_color, wcolor[x]) <= Gap(flush_color, color[g])
Debts == OwedRight /\ FlushedAll

(* wq->nr_drainers counts the drains that have not returned.               *)
Drains ==
  /\ nr_drainers = Cardinality({f \in Drainers : fpc[f] # "idle"})
  /\ \A f \in Flusher : fpc[f] = "drain_check" => f \in Drainers

IInv == TypeOK /\ Control /\ Arms /\ Colors /\ Debts /\ Drains
-----------------------------------------------------------------------------
(* The lists of flushers                                                   *)

NoRepeat(s) == \A j, k \in 1 .. Len(s) : s[j] = s[k] => j = k

(* A flusher queues at the end of a list.                                  *)
LEMMA AppendFacts ==
  ASSUME NEW S, NEW s \in Seq(S), NEW e \in S
  PROVE  /\ Append(s, e) \in Seq(S) /\ Len(Append(s, e)) = Len(s) + 1 /\ Len(s) \in Nat
         /\ \A k \in 1 .. Len(s) : Append(s, e)[k] = s[k]
         /\ Append(s, e)[Len(s) + 1] = e
         /\ Append(s, e) # <<>>
         /\ \A g : In(Append(s, e), g) <=> In(s, g) \/ g = e
<1>1. /\ Append(s, e) \in Seq(S) /\ Len(Append(s, e)) = Len(s) + 1 /\ Len(s) \in Nat
      /\ \A k \in 1 .. Len(s) : Append(s, e)[k] = s[k]
      /\ Append(s, e)[Len(s) + 1] = e
  BY AppendProperties, LenProperties
<1>2. Append(s, e) # <<>>
  BY <1>1, EmptySeq
<1>3. ASSUME NEW g PROVE In(Append(s, e), g) <=> In(s, g) \/ g = e
  <2> DEFINE a == Append(s, e)
  <2>1. Len(a) = Len(s) + 1 /\ Len(s) \in Nat /\ (\A k \in 1 .. Len(s) : a[k] = s[k])
        /\ a[Len(s) + 1] = e
    BY <1>1
  <2> HIDE DEF a
  <2>2. In(a, g) <=> In(s, g) \/ g = e
    BY <2>1 DEF In
  <2> QED BY <2>2 DEF a
<1> QED BY <1>1, <1>2, <1>3

(* list_splice_tail_init() of t behind r, what is left of s when its first *)
(* n elements left.                                                        *)
Spliced(S, s, t, n, r, q) ==
  /\ r \in Seq(S) /\ Len(r) = Len(s) - n
  /\ q \in Seq(S) /\ Len(q) = Len(s) - n + Len(t)
  /\ Len(s) \in Nat /\ Len(t) \in Nat
  /\ (r = <<>> <=> n = Len(s))
  /\ (n < Len(s) => Head(r) = s[n + 1])
  /\ \A k \in 1 .. Len(q) : q[k] = IF k <= Len(s) - n THEN s[k + n] ELSE t[k - (Len(s) - n)]
  /\ \A g : In(q, g) <=> (\E k \in n + 1 .. Len(s) : s[k] = g) \/ In(t, g)
(* That is what SubSeq and \o make of them.                                *)
LEMMA SpliceFacts ==
  ASSUME NEW S, NEW s \in Seq(S), NEW t \in Seq(S), NEW n \in 0 .. Len(s)
  PROVE  Spliced(S, s, t, n, SubSeq(s, n + 1, Len(s)), SubSeq(s, n + 1, Len(s)) \o t)
<1> DEFINE r == SubSeq(s, n + 1, Len(s))
           q == r \o t
<1>1. Len(s) \in Nat /\ Len(t) \in Nat
  BY LenProperties
<1>2. r \in Seq(S) /\ Len(r) = Len(s) - n /\ \A k \in 1 .. Len(s) - n : r[k] = s[k + n]
  BY <1>1, SubSeqType
<1> HIDE DEF r
<1>3. /\ q \in Seq(S) /\ Len(q) = Len(r) + Len(t)
      /\ \A k \in 1 .. Len(r) + Len(t) : q[k] = IF k <= Len(r) THEN r[k] ELSE t[k - Len(r)]
  BY <1>2, ConcatProperties
<1> HIDE DEF q
<1>4. r = <<>> <=> n = Len(s)
  BY <1>1, <1>2, EmptySeq
<1>5. n < Len(s) => Head(r) = s[n + 1]
  BY <1>1, <1>2
<1>6. \A k \in 1 .. Len(q) : q[k] = IF k <= Len(s) - n THEN s[k + n] ELSE t[k - (Len(s) - n)]
  BY <1>1, <1>2, <1>3
<1>7. ASSUME NEW g PROVE In(q, g) <=> (\E k \in n + 1 .. Len(s) : s[k] = g) \/ In(t, g)
  <2> DEFINE m == Len(s) - n
             l == Len(t)
  <2>1. /\ m \in Nat /\ l \in Nat /\ n \in Nat /\ Len(s) = m + n /\ Len(q) = m + l
        /\ \A k \in 1 .. m + l : q[k] = IF k <= m THEN s[k + n] ELSE t[k - m]
    BY <1>1, <1>2, <1>3, <1>6
  <2> HIDE DEF m
  <2>2. ASSUME NEW k \in 1 .. m + l, q[k] = g PROVE (\E j \in n + 1 .. m + n : s[j] = g) \/ In(t, g)
    <3>1. CASE k <= m
      <4>1. k + n \in n + 1 .. m + n /\ s[k + n] = g
        BY <2>1, <2>2, <3>1
      <4> QED BY <4>1
    <3>2. CASE k > m
      <4>1. k - m \in 1 .. l /\ t[k - m] = g
        BY <2>1, <2>2, <3>2
      <4> QED BY <4>1 DEF In
    <3> QED BY <2>1, <3>1, <3>2
  <2>3. ASSUME NEW k \in n + 1 .. m + n, s[k] = g PROVE \E j \in 1 .. m + l : q[j] = g
    <3> DEFINE j == k - n
    <3>1. j \in 1 .. m /\ k = j + n
      BY <2>1
    <3> HIDE DEF j
    <3>2. j \in 1 .. m + l /\ q[j] = s[j + n]
      BY <2>1, <3>1
    <3> QED BY <2>3, <3>1, <3>2
  <2>4. ASSUME NEW k \in 1 .. l, t[k] = g PROVE \E j \in 1 .. m + l : q[j] = g
    <3> DEFINE j == k + m
    <3>1. j \in 1 .. m + l /\ ~(j <= m) /\ j - m = k
      BY <2>1
    <3> HIDE DEF j
    <3>2. q[j] = t[j - m]
      BY <2>1, <3>1
    <3> QED BY <2>4, <3>1, <3>2
  <2> QED BY <2>1, <2>2, <2>3, <2>4 DEF In
<1> QED
  BY <1>1, <1>2, <1>3, <1>4, <1>5, <1>6, <1>7 DEF q, r, Spliced

(* list_del_init() of the first element.                                   *)
LEMMA WithoutHead ==
  ASSUME NEW S, NEW s \in Seq(S), s # <<>>, NoRepeat(s)
  PROVE  LET w == Without(s, Head(s))
         IN  /\ Head(s) = s[1] /\ Head(s) \in S /\ Len(s) \in Nat \ {0}
             /\ w \in Seq(S) /\ Len(w) = Len(s) - 1
             /\ \A k \in 1 .. Len(w) : w[k] = s[k + 1]
             /\ \A g : In(w, g) <=> In(s, g) /\ g # Head(s)
<1> DEFINE a == SubSeq(s, 1, 0)
           b == SubSeq(s, 2, Len(s))
           w == Without(s, Head(s))
<1>1. Len(s) \in Nat \ {0} /\ Head(s) = s[1] /\ Head(s) \in S
  BY EmptySeq, HeadTailProperties
<1>2. In(s, Head(s))
  BY <1>1 DEF In
<1>3. (CHOOSE k \in 1 .. Len(s) : s[k] = Head(s)) = 1
  <2> DEFINE k == CHOOSE k \in 1 .. Len(s) : s[k] = Head(s)
  <2>1. \E j \in 1 .. Len(s) : s[j] = Head(s)
    BY <1>2 DEF In
  <2>2. k \in 1 .. Len(s) /\ s[k] = Head(s)
    BY <2>1
  <2> HIDE DEF k
  <2>3. k = 1
    BY <1>1, <2>2 DEF NoRepeat
  <2> QED BY <2>3 DEF k
<1>4. w = SubSeq(s, 1, 1 - 1) \o SubSeq(s, 1 + 1, Len(s))
  BY <1>2, <1>3 DEF Without
<1>5. w = a \o b
  BY <1>4
<1>6. a = <<>>
  BY SubSeqEmpty
<1>7. b \in Seq(S) /\ Len(b) = Len(s) - 1 /\ \A k \in 1 .. Len(s) - 1 : b[k] = s[k + 1]
  <2> DEFINE n == Len(s)
  <2>1. n \in Nat \ {0} /\ n <= Len(s)
    BY <1>1
  <2> HIDE DEF n
  <2>2. SubSeq(s, 2, n) \in Seq(S) /\ Len(SubSeq(s, 2, n)) = n - 1
        /\ \A i \in 1 .. n - 2 + 1 : SubSeq(s, 2, n)[i] = s[2 + i - 1]
    <3>1. /\ SubSeq(s, 2, n) \in Seq(S)
          /\ Len(SubSeq(s, 2, n)) = IF 2 <= n THEN n - 2 + 1 ELSE 0
          /\ \A i \in 1 .. n - 2 + 1 : SubSeq(s, 2, n)[i] = s[2 + i - 1]
      BY <2>1, SubSeqType
    <3> QED BY <2>1, <3>1
  <2>3. \A k \in 1 .. n - 1 : SubSeq(s, 2, n)[k] = s[k + 1]
    BY <2>1, <2>2
  <2> QED BY <2>2, <2>3 DEF n
<1> HIDE DEF a, b
<1>8. w = b
  BY <1>5, <1>6, <1>7, ConcatEmptySeq
<1> HIDE DEF w
<1>9. w \in Seq(S) /\ Len(w) = Len(s) - 1 /\ \A k \in 1 .. Len(w) : w[k] = s[k + 1]
  BY <1>7, <1>8
<1>10. ASSUME NEW g PROVE In(w, g) <=> In(s, g) /\ g # Head(s)
  <2>1. ASSUME In(w, g) PROVE In(s, g) /\ g # Head(s)
    <3>1. PICK k \in 1 .. Len(w) : w[k] = g
      BY <2>1 DEF In
    <3>2. k + 1 \in 1 .. Len(s) /\ s[k + 1] = g /\ k + 1 # 1
      BY <1>1, <1>9, <3>1
    <3> QED BY <1>1, <3>2 DEF In, NoRepeat
  <2>2. ASSUME In(s, g), g # Head(s) PROVE In(w, g)
    <3>1. PICK k \in 1 .. Len(s) : s[k] = g
      BY <2>2 DEF In
    <3>2. k # 1
      BY <1>1, <2>2, <3>1
    <3>3. k - 1 \in 1 .. Len(w) /\ w[k - 1] = g
      BY <1>1, <1>9, <3>1, <3>2
    <3> QED BY <3>3 DEF In
  <2> QED BY <2>1, <2>2
<1> QED
  BY <1>1, <1>9, <1>10 DEF w
-----------------------------------------------------------------------------
(* The initial states, and steps that leave a part of the state alone      *)

(* At the start nothing is in flight and nobody flushes.                   *)
LEMMA InitIInv == Init => IInv
<1> SUFFICES ASSUME Init PROVE IInv
  OBVIOUS
<1> USE ColorAssumption DEF Init
<1>1. /\ InFlight = {} /\ (\A g : ~In(flusher_queue, g)) /\ (\A g : ~In(flusher_overflow, g))
      /\ flusher_queue = <<>> /\ flusher_overflow = <<>> /\ Len(flusher_queue) = 0
      /\ Len(flusher_overflow) = 0 /\ \A q \in Pwq : ~Armed(q)
  BY EmptySeq DEF InFlight, In, Armed
<1>2. Cardinality({q \in Pwq : pwq_flush_color[q] # -1}) = 0
  <2>1. {q \in Pwq : pwq_flush_color[q] # -1} = {}
    OBVIOUS
  <2> QED BY <2>1, FS_EmptySet
<1>3. TypeOK
  BY EmptySeq DEF TypeOK, Color, NoPrep, PrepGoto
<1>4. Control
  BY <1>1 DEF Control, MutexHolder, Holding, LinkedWaits, LinkedOnce, FirstWaits, HandsOn, Cascade,
              PrepMode, FirstOrNot, NoPrep
<1>5. Arms
  BY <1>1, <1>2 DEF Arms, CountExact, FirstFlusherWaits, ArmedRight, OldArmed, Armed, Old, NoPrep
<1>6. Colors
  BY <1>1 DEF Colors, InFlightColor, QueuedColor, HolderColor, ClosedHeld, NoFlush, Gap, Holder, Color
<1>7. Debts
  BY <1>1 DEF Debts, OwedRight, FlushedAll
<1>8. Drains
  <2>1. {f \in Drainers : fpc[f] # "idle"} = {}
    OBVIOUS
  <2> QED BY <2>1, FS_EmptySet DEF Drains
<1> QED BY <1>3, <1>4, <1>5, <1>6, <1>7, <1>8 DEF IInv

(* The places of the flushers.                                             *)
LEMMA ControlFrame ==
  ASSUME Control, UNCHANGED <<mutex, wqVars, done, next, prep, fpc>>
  PROVE  Control'
  BY DEF Control, MutexHolder, LinkedWaits, LinkedOnce, FirstWaits, HandsOn, Cascade, PrepMode,
         FirstOrNot, wqVars

(* The counts of works and the pwqs armed.                                 *)
LEMMA ArmsFrame ==
  ASSUME Arms, UNCHANGED <<pwqVars, prep, fpc, first_flusher, flush_color, done, wcolor, pwq>>, InFlight' = InFlight
  PROVE  Arms'
  BY DEF Arms, CountExact, FirstFlusherWaits, ArmedRight, OldArmed, Armed, Old, pwqVars

(* The colours in use.                                                     *)
LEMMA ColorsFrame ==
  ASSUME Colors, UNCHANGED <<mutex, wqVars, prep, fpc, color, pwq_work_color, wcolor, pwq>>, InFlight' = InFlight
  PROVE  Colors'
  BY DEF Colors, InFlightColor, QueuedColor, HolderColor, ClosedHeld, NoFlush, Holder, Cascade,
         HandsOn, wqVars

(* The works that flushers wait for.                                       *)
LEMMA DebtsFrame ==
  ASSUME Debts, UNCHANGED <<owed, first_flusher, flusher_queue, flush_color, color, wcolor, done>>, InFlight' = InFlight
  PROVE  Debts'
  BY DEF Debts, OwedRight, FlushedAll, Holder

(* The drainers: none enters or leaves ...                                 *)
LEMMA DrainsFrame ==
  ASSUME Drains, nr_drainers' = nr_drainers,
         \A f \in Drainers : fpc'[f] = "idle" <=> fpc[f] = "idle",
         \A f \in Flusher : fpc'[f] = "drain_check" => f \in Drainers
  PROVE  Drains'
<1>1. {f \in Drainers : fpc'[f] # "idle"} = {f \in Drainers : fpc[f] # "idle"}
  OBVIOUS
<1> QED BY <1>1 DEF Drains

(* ... when no flusher moves.                                              *)
LEMMA DrainsKept == ASSUME Drains, UNCHANGED <<nr_drainers, fpc>> PROVE Drains'
  BY DEF Drains

(* The steps of works that only change their stage.                        *)
LEMMA StageStep ==
  ASSUME IInv, NEW x \in Work, (\E chained \in BOOLEAN : QueueWork(x, chained)) \/ Execute(x)
  PROVE  IInv'
<1> USE DEF IInv
<1>1. /\ InFlight' = InFlight
      /\ UNCHANGED <<mutex, wqVars, pwqVars, flushVars, pwq, wcolor, nr_drainers, owed>>
      /\ stage' \in [Work -> {"idle", "queueing", "queued", "running", "dropped", "dropped_chained"}]
  <2>1. CASE \E chained \in BOOLEAN : QueueWork(x, chained)
    BY <2>1 DEF QueueWork, InFlight, TypeOK
  <2>2. CASE Execute(x)
    BY <2>2 DEF Execute, InFlight, TypeOK
  <2> QED BY <2>1, <2>2
<1>2. TypeOK'
  BY <1>1 DEF TypeOK, wqVars, pwqVars, flushVars
<1> QED
  BY <1>1, <1>2, ControlFrame, ArmsFrame, ColorsFrame, DebtsFrame, DrainsKept DEF wqVars, pwqVars, flushVars
-----------------------------------------------------------------------------
(* Steps of works                                                          *)

ArmedPwqs == {q \in Pwq : pwq_flush_color[q] # -1}

(* nr_pwqs_to_flush, as far as the pwqs are concerned.                     *)
LEMMA ArmedCount ==
  /\ IsFiniteSet(ArmedPwqs) /\ Cardinality(ArmedPwqs) \in Nat
  /\ (Cardinality(ArmedPwqs) = 0 <=> \A q \in Pwq : ~Armed(q))
  /\ \A q \in Pwq : Armed(q) /\ Cardinality(ArmedPwqs) = 1 => \A r \in Pwq : Armed(r) => r = q
<1> DEFINE A == ArmedPwqs
<1>1. A \subseteq Pwq /\ \A q \in Pwq : q \in A <=> Armed(q)
  BY DEF ArmedPwqs, Armed
<1> HIDE DEF A
<1>2. IsFiniteSet(A)
  BY <1>1, ColorAssumption, FS_Subset
<1>3. Cardinality(A) \in Nat /\ (Cardinality(A) = 0 <=> A = {})
  BY <1>2, FS_CardinalityType, FS_EmptySet
<1>4. ASSUME NEW q \in Pwq, Armed(q), Cardinality(A) = 1, NEW r \in Pwq, Armed(r) PROVE r = q
  <2>1. PICK e : A = {e}
    BY <1>2, <1>4, FS_Singleton
  <2> QED BY <1>1, <1>4, <2>1
<1> QED
  BY <1>1, <1>2, <1>3, <1>4 DEF A

(* The same after a step.                                                  *)
LEMMA ArmedCountNext ==
  /\ IsFiniteSet(ArmedPwqs') /\ Cardinality(ArmedPwqs') \in Nat
  /\ (Cardinality(ArmedPwqs') = 0 <=> \A q \in Pwq : ~Armed(q)')
<1> DEFINE A == ArmedPwqs'
<1>1. A \subseteq Pwq /\ \A q \in Pwq : q \in A <=> Armed(q)'
  BY DEF ArmedPwqs, Armed
<1> HIDE DEF A
<1>2. IsFiniteSet(A)
  BY <1>1, ColorAssumption, FS_Subset
<1>3. Cardinality(A) \in Nat /\ (Cardinality(A) = 0 <=> A = {})
  BY <1>2, FS_CardinalityType, FS_EmptySet
<1> QED
  BY <1>1, <1>2, <1>3 DEF A

(* With the mutex free nobody is in flush_workqueue_prep_pwqs().           *)
LEMMA NobodyPreps == Control /\ mutex = None => prep = NoPrep /\ \A f \in Flusher : fpc[f] \notin Holding
  BY ColorAssumption DEF Control, MutexHolder, PrepMode, Holding

(* A work is queued with its pwq's work colour.                            *)
LEMMA QueueStep ==
  ASSUME IInv, NEW x \in Work, NEW q \in Pwq, Queue(x, q)
  PROVE  IInv'
<1> USE DEF IInv
<1>1. /\ stage[x] = "queueing" /\ mutex = None
      /\ InFlight' = InFlight \cup {x} /\ x \notin InFlight
      /\ UNCHANGED <<mutex, wqVars, pwqVars, flushVars, nr_drainers, owed>>
      /\ pwq'[x] = q /\ wcolor'[x] = pwq_work_color[q]
      /\ \A y \in Work : y # x => pwq'[y] = pwq[y] /\ wcolor'[y] = wcolor[y]
  BY DEF Queue, InFlight, TypeOK
<1>2. prep = NoPrep /\ (\A f \in Flusher : fpc[f] \notin Holding) /\ ~Cascade
  BY <1>1, NobodyPreps DEF Cascade, HandsOn
<1>3. pwq_work_color[q] = work_color
  BY <1>2 DEF Colors, QueuedColor, NoPrep
<1>4. TypeOK'
  BY DEF TypeOK, Queue, wqVars, pwqVars, flushVars
<1>5. Control'
  BY <1>1, ControlFrame DEF wqVars, pwqVars, flushVars
<1>6. flush_color \in Color /\ work_color \in Color
  BY DEF TypeOK
<1>7. first_flusher # None => work_color # flush_color
  BY <1>6, ColorAssumption DEF Colors, HolderColor, Holder, Gap, Color, TypeOK
<1>8. Arms'
  <2>1. CountExact' /\ FirstFlusherWaits' /\ ArmedRight'
    BY <1>1 DEF Arms, CountExact, FirstFlusherWaits, ArmedRight, Armed, wqVars, pwqVars, flushVars
  <2>2. OldArmed'
    BY <1>1, <1>2, <1>3, <1>7 DEF Arms, OldArmed, Armed, Old, wqVars, pwqVars, flushVars, Holding
  <2> QED BY <2>1, <2>2 DEF Arms
<1>9. Colors'
  <2>1. InFlightColor'
    BY <1>1, <1>3, <1>6, ColorAssumption DEF Colors, InFlightColor, wqVars, Gap, Color
  <2>2. QueuedColor' /\ HolderColor' /\ ClosedHeld' /\ NoFlush'
    BY <1>1 DEF Colors, QueuedColor, HolderColor, ClosedHeld, NoFlush, Holder, Cascade,
                HandsOn, wqVars, pwqVars, flushVars
  <2> QED BY <2>1, <2>2 DEF Colors
<1>10. Debts'
  <2>1. \A f \in Flusher : \A y \in owed[f] : y # x /\ y \in Work
    BY <1>1 DEF Debts, OwedRight, InFlight
  <2> QED BY <1>1, <2>1 DEF Debts, OwedRight, FlushedAll, Holder, wqVars, pwqVars, flushVars
<1> QED BY <1>1, <1>4, <1>5, <1>8, <1>9, <1>10, DrainsKept DEF flushVars

(* A work that returns may be the last of its colour that a flush waits    *)
(* for at the pwq.                                                         *)
LEMMA ReturnStep ==
  ASSUME IInv, NEW x \in Work, Return(x)
  PROVE  IInv'
<1> USE DEF IInv
<1> DEFINE q == pwq[x]
           Same == {y \in InFlight : pwq[y] = q /\ wcolor[y] = wcolor[x]}
           last == pwq_flush_color[q] = wcolor[x] /\ Cardinality(Same) = 1
<1>1. /\ InFlight' = InFlight \ {x} /\ x \in InFlight
      /\ UNCHANGED <<mutex, wqVars, pwq_work_color, color, prep, fpc, next, nr_drainers>>
      /\ \A y \in Work : y # x => pwq'[y] = pwq[y] /\ wcolor'[y] = wcolor[y]
      /\ \A f \in Flusher : owed'[f] = owed[f] \ {x}
  BY DEF Return, InFlight, TypeOK
<1>2. q \in Pwq /\ wcolor[x] \in Color /\ wcolor[x] # -1
  BY <1>1 DEF Colors, InFlightColor, Color
<1>3. last => /\ pwq_flush_color' = [pwq_flush_color EXCEPT ![q] = -1]
              /\ nr_pwqs_to_flush' = nr_pwqs_to_flush - 1
              /\ \A f \in Flusher : done'[f] = (done[f] \/ (nr_pwqs_to_flush = 1 /\ f = first_flusher))
  BY DEF Return, DecPwqsToFlush, nr_in_flight
<1>4. ~last => UNCHANGED <<pwq_flush_color, nr_pwqs_to_flush, done>>
  BY DEF Return, nr_in_flight
<1>5. last => \A y \in InFlight : pwq[y] = q /\ wcolor[y] = wcolor[x] => y = x
  <2> SUFFICES ASSUME Cardinality(Same) = 1, NEW y \in Same PROVE y = x
    OBVIOUS
  <2>1. IsFiniteSet(Same) /\ x \in Same
    <3>1. Same \subseteq Work /\ x \in Same
      BY <1>1 DEF InFlight
    <3> HIDE DEF Same
    <3> QED BY <3>1, ColorAssumption, FS_Subset
  <2>2. PICK e : Same = {e}
    <3> HIDE DEF Same
    <3> QED BY <2>1, FS_Singleton
  <2> HIDE DEF Same
  <2> QED BY <2>1, <2>2
<1> HIDE DEF Same
<1>6. last => /\ Armed(q) /\ ArmedPwqs' = ArmedPwqs \ {q} /\ first_flusher \in Flusher
              /\ nr_pwqs_to_flush = Cardinality(ArmedPwqs) + (IF prep.flush >= 0 THEN 1 ELSE 0)
              /\ Cardinality(ArmedPwqs) \in Nat \ {0}
              /\ Cardinality(ArmedPwqs') = Cardinality(ArmedPwqs) - 1
              /\ wcolor[x] = flush_color
  <2> SUFFICES ASSUME last PROVE /\ Armed(q) /\ ArmedPwqs' = ArmedPwqs \ {q} /\ first_flusher \in Flusher
              /\ nr_pwqs_to_flush = Cardinality(ArmedPwqs) + (IF prep.flush >= 0 THEN 1 ELSE 0)
              /\ Cardinality(ArmedPwqs) \in Nat \ {0}
              /\ Cardinality(ArmedPwqs') = Cardinality(ArmedPwqs) - 1
              /\ wcolor[x] = flush_color
    OBVIOUS
  <2>1. Armed(q) /\ wcolor[x] = flush_color
    BY <1>2 DEF Armed, Arms, ArmedRight
  <2>2. ArmedPwqs' = ArmedPwqs \ {q} /\ q \in ArmedPwqs
    BY <1>2, <1>3, <2>1 DEF ArmedPwqs, Armed, TypeOK
  <2>3. first_flusher \in Flusher
    BY <2>1, <1>2 DEF Arms, FirstFlusherWaits, Armed, TypeOK
  <2>4. nr_pwqs_to_flush = Cardinality(ArmedPwqs) + (IF prep.flush >= 0 THEN 1 ELSE 0)
    BY DEF Arms, CountExact, ArmedPwqs
  <2>5. IsFiniteSet(ArmedPwqs) /\ Cardinality(ArmedPwqs) \in Nat \ {0}
    BY <1>2, <2>1, ArmedCount
  <2>6. Cardinality(ArmedPwqs \ {q}) = Cardinality(ArmedPwqs) - 1
    BY <2>2, <2>5, FS_RemoveElement
  <2> QED BY <2>1, <2>2, <2>3, <2>4, <2>5, <2>6
<1>7. last /\ nr_pwqs_to_flush = 1 =>
        prep.flush < 0 /\ (\A r \in Pwq : Armed(r) => r = q) /\ owed[first_flusher] \subseteq {x}
  <2> SUFFICES ASSUME last, nr_pwqs_to_flush = 1
               PROVE  prep.flush < 0 /\ (\A r \in Pwq : Armed(r) => r = q) /\ owed[first_flusher] \subseteq {x}
    OBVIOUS
  <2>1. prep.flush \in Int
    BY DEF TypeOK, Color
  <2>2. prep.flush < 0 /\ Cardinality(ArmedPwqs) = 1
    BY <1>6, <2>1
  <2>3. \A r \in Pwq : Armed(r) => r = q
    BY <1>2, <1>6, <2>2, ArmedCount
  <2>4. ASSUME NEW y \in owed[first_flusher] PROVE y = x
    <3>1. y \in InFlight /\ y \in Work /\ Gap(flush_color, wcolor[y]) <= Gap(flush_color, color[first_flusher])
      BY <1>6 DEF Debts, OwedRight, Holder, InFlight
    <3>2. wcolor[y] = flush_color
      BY <1>6, <3>1, ColorAssumption DEF Colors, HolderColor, InFlightColor, Gap, Color, TypeOK
    <3>3. Armed(pwq[y]) /\ pwq[y] \in Pwq
      BY <1>6, <2>2, <3>1, <3>2, ColorAssumption DEF Arms, OldArmed, Old, Colors, InFlightColor
    <3> QED BY <1>5, <1>6, <2>3, <3>1, <3>2, <3>3
  <2> QED BY <2>2, <2>3, <2>4
<1>8. TypeOK'
  <2>1. nr_pwqs_to_flush' \in Nat
    BY <1>3, <1>4, <1>6 DEF TypeOK
  <2>2. pwq_flush_color' \in [Pwq -> Color \cup {-1}] /\ done' \in [Flusher -> BOOLEAN]
    BY DEF Return, DecPwqsToFlush, TypeOK
  <2>3. stage' \in [Work -> {"idle", "queueing", "queued", "running", "dropped", "dropped_chained"}]
        /\ pwq' \in [Work -> Pwq \cup {None}] /\ wcolor' \in [Work -> Color \cup {-1}]
        /\ owed' \in [Flusher -> SUBSET Work]
    BY DEF Return, TypeOK
  <2> QED BY <1>1, <2>1, <2>2, <2>3 DEF TypeOK, wqVars
<1>9. /\ \A f \in Flusher : f # first_flusher => done'[f] = done[f]
      /\ \A f \in Flusher : done[f] => done'[f]
      /\ \A r \in Pwq : Armed(r)' => Armed(r) /\ pwq_flush_color'[r] = pwq_flush_color[r]
      /\ \A r \in Pwq : Armed(r) /\ ~Armed(r)' => last /\ r = q
  BY <1>2, <1>3, <1>4 DEF Armed, TypeOK
<1>10. Control'
  BY <1>1, <1>9 DEF Control, MutexHolder, LinkedWaits, LinkedOnce, FirstWaits, HandsOn, Cascade,
                    PrepMode, FirstOrNot, wqVars
<1>11. CountExact'
  <2>1. nr_pwqs_to_flush = Cardinality(ArmedPwqs) + (IF prep.flush >= 0 THEN 1 ELSE 0)
    BY DEF Arms, CountExact, ArmedPwqs
  <2>2. ~last => ArmedPwqs' = ArmedPwqs
    BY <1>4 DEF ArmedPwqs
  <2>3. nr_pwqs_to_flush' = Cardinality(ArmedPwqs') + (IF prep.flush >= 0 THEN 1 ELSE 0)
    BY <1>3, <1>4, <1>6, <2>1, <2>2
  <2> QED BY <1>1, <2>3 DEF CountExact, ArmedPwqs
<1>12. FirstFlusherWaits'
  <2> SUFFICES ASSUME prep.flush >= 0 \/ \E r \in Pwq : Armed(r)'
               PROVE  first_flusher # None /\ fpc[first_flusher] \in {"prep", "unlock_wait", "wait"}
                      /\ ~done'[first_flusher]
    BY <1>1 DEF FirstFlusherWaits, wqVars, Armed
  <2>1. first_flusher # None /\ fpc[first_flusher] \in {"prep", "unlock_wait", "wait"}
        /\ ~done[first_flusher] /\ first_flusher \in Flusher
    BY <1>9 DEF Arms, FirstFlusherWaits, Armed, TypeOK
  <2>2. ~(last /\ nr_pwqs_to_flush = 1)
    <3> SUFFICES ASSUME last, nr_pwqs_to_flush = 1 PROVE FALSE
      OBVIOUS
    <3>1. prep.flush < 0 /\ prep.flush \in Int
      BY <1>7 DEF TypeOK, Color
    <3>2. PICK r \in Pwq : Armed(r)'
      BY <3>1
    <3>3. r = q
      BY <1>7, <1>9, <3>2
    <3> QED BY <1>2, <1>3, <3>2, <3>3 DEF Armed, TypeOK
  <2> QED BY <1>3, <1>4, <2>1, <2>2
<1>13. ArmedRight'
  BY <1>1, <1>9 DEF Arms, ArmedRight, wqVars, TypeOK
<1>14. OldArmed'
  <2>1. ASSUME NEW y \in Work, Old(y)' PROVE Old(y) /\ y # x /\ pwq'[y] = pwq[y] /\ pwq[y] \in Pwq
    BY <1>1, <2>1 DEF Old, wqVars, Colors, InFlightColor
  <2>2. ASSUME NEW y \in Work, Old(y)', Armed(pwq[y]) PROVE Armed(pwq[y])'
    <3>1. Old(y) /\ y # x /\ pwq'[y] = pwq[y] /\ pwq[y] \in Pwq
      BY <2>1, <2>2
    <3>2. ~(last /\ pwq[y] = q)
      BY <1>5, <1>6, <3>1 DEF Old
    <3>3. pwq_flush_color'[pwq[y]] = pwq_flush_color[pwq[y]]
      BY <1>3, <1>4, <3>1, <3>2 DEF TypeOK
    <3> QED BY <2>2, <3>1, <3>3 DEF Armed
  <2> QED BY <1>1, <2>1, <2>2 DEF Arms, OldArmed, wqVars
<1>15. Arms'
  BY <1>11, <1>12, <1>13, <1>14 DEF Arms
<1>16. Colors'
  <2>1. InFlightColor'
    BY <1>1 DEF Colors, InFlightColor, wqVars
  <2>2. QueuedColor' /\ HolderColor' /\ ClosedHeld' /\ NoFlush'
    BY <1>1 DEF Colors, QueuedColor, HolderColor, ClosedHeld, NoFlush, Holder, Cascade,
                HandsOn, wqVars, pwqVars, flushVars
  <2> QED BY <2>1, <2>2 DEF Colors
<1>17. Debts'
  <2>1. OwedRight'
    BY <1>1 DEF Debts, OwedRight, Holder, InFlight, wqVars
  <2>2. FlushedAll'
    BY <1>1, <1>3, <1>4, <1>7 DEF Debts, FlushedAll
  <2> QED BY <2>1, <2>2 DEF Debts
<1> QED BY <1>1, <1>8, <1>10, <1>15, <1>16, <1>17, DrainsKept
-----------------------------------------------------------------------------
(* flush_workqueue_prep_pwqs()                                             *)

(* At a place under the mutex the flusher holds it, and nobody else is at  *)
(* such a place.                                                           *)
LEMMA HolderFacts ==
  ASSUME IInv, NEW f \in Flusher, fpc[f] \in Holding
  PROVE  /\ mutex = f /\ f # None
         /\ \A g \in Flusher : g # f => fpc[g] \notin Holding
         /\ fpc[f] # "prep" => prep = NoPrep
  BY ColorAssumption DEF IInv, Control, MutexHolder, PrepMode, Holding

(* flush_workqueue_prep_pwqs() arms one pwq and advances its colour.       *)
LEMMA PrepPwqStep ==
  ASSUME IInv, NEW f \in Flusher, NEW q \in Pwq, PrepPwq(f, q)
  PROVE  IInv'
<1> USE DEF IInv
<1> DEFINE Same == {y \in InFlight : pwq[y] = q /\ wcolor[y] = prep.flush}
           arm == prep.flush >= 0 /\ Cardinality(Same) > 0
<1>1. /\ fpc[f] = "prep" /\ q \in prep.todo /\ mutex = f /\ f # None
      /\ UNCHANGED <<mutex, wqVars, color, done, next, fpc, workVars, nr_drainers, owed>>
  BY HolderFacts DEF PrepPwq, Holding
<1>2. /\ prep'.flush = prep.flush /\ prep'.work = prep.work /\ prep'.yes = prep.yes /\ prep'.no = prep.no
      /\ prep'.todo = prep.todo \ {q} /\ prep'.wait = (prep.wait \/ arm)
      /\ prep' \in [flush : Color \cup {-1}, work : Color \cup {-1}, todo : SUBSET Pwq,
                    wait : BOOLEAN, yes : PrepGoto, no : PrepGoto]
  BY DEF PrepPwq, nr_in_flight, TypeOK
<1>3. /\ pwq_flush_color' = [pwq_flush_color EXCEPT ![q] = IF arm THEN prep.flush ELSE @]
      /\ nr_pwqs_to_flush' = nr_pwqs_to_flush + (IF arm THEN 1 ELSE 0)
      /\ pwq_work_color' = [pwq_work_color EXCEPT ![q] = IF prep.work >= 0 THEN prep.work ELSE @]
  BY DEF PrepPwq, nr_in_flight
<1>4. prep.flush >= 0 => \A y \in InFlight : pwq[y] = q /\ wcolor[y] = prep.flush => arm
  <2> SUFFICES ASSUME NEW y \in Same PROVE Cardinality(Same) > 0
    OBVIOUS
  <2>1. Same \subseteq Work /\ Same # {}
    BY DEF InFlight
  <2> HIDE DEF Same
  <2>2. IsFiniteSet(Same)
    BY <2>1, ColorAssumption, FS_Subset
  <2> QED BY <2>1, <2>2, FS_CardinalityType, FS_EmptySet
<1> HIDE DEF arm
<1>5. TypeOK'
  BY <1>1, <1>2, <1>3, ColorAssumption DEF TypeOK, Color, wqVars, workVars
<1>6. /\ prep.flush \in {flush_color, -1} /\ prep.work \in {work_color, -1}
      /\ prep.flush >= 0 => prep.flush = flush_color
      /\ prep.work >= 0 => prep.work = work_color
      /\ prep.work < 0 => prep.work = -1
      /\ flush_color >= 0 /\ flush_color # -1 /\ work_color >= 0
  BY <1>1 DEF Control, PrepMode, TypeOK, Color
<1>7. Control'
  <2>1. HandsOn' = HandsOn /\ Cascade' = Cascade
    BY <1>1, <1>2 DEF HandsOn, Cascade, wqVars
  <2>2. PrepMode'
    BY <1>1, <1>2 DEF Control, PrepMode, wqVars
  <2>3. (MutexHolder /\ LinkedWaits /\ LinkedOnce /\ FirstWaits /\ FirstOrNot)'
    BY <1>1, <1>2, <2>1 DEF Control, MutexHolder, LinkedWaits, LinkedOnce, FirstWaits, FirstOrNot, wqVars
  <2> QED BY <2>2, <2>3 DEF Control
<1>8. arm => ~Armed(q) /\ prep.flush >= 0
  BY <1>1 DEF arm, Arms, ArmedRight
<1>9. /\ \A r \in Pwq : r # q => (Armed(r)' <=> Armed(r)) /\ pwq_flush_color'[r] = pwq_flush_color[r]
      /\ Armed(q)' <=> Armed(q) \/ arm
      /\ arm => pwq_flush_color'[q] = flush_color
      /\ ~arm => pwq_flush_color'[q] = pwq_flush_color[q]
  BY <1>3, <1>6, <1>8 DEF Armed, TypeOK
<1>10. CountExact'
  <2>1. nr_pwqs_to_flush = Cardinality(ArmedPwqs) + (IF prep.flush >= 0 THEN 1 ELSE 0)
    BY DEF Arms, CountExact, ArmedPwqs
  <2>2. Cardinality(ArmedPwqs') = Cardinality(ArmedPwqs) + (IF arm THEN 1 ELSE 0)
    <3>1. CASE arm
      <4>1. ArmedPwqs' = ArmedPwqs \cup {q} /\ q \notin ArmedPwqs
        BY <1>8, <1>9, <3>1 DEF ArmedPwqs, Armed
      <4> QED BY <3>1, <4>1, ArmedCount, FS_AddElement
    <3>2. CASE ~arm
      <4>1. ArmedPwqs' = ArmedPwqs
        BY <1>9, <3>2 DEF ArmedPwqs
      <4> QED BY <3>2, <4>1, ArmedCount
    <3> QED BY <3>1, <3>2
  <2>3. nr_pwqs_to_flush' = Cardinality(ArmedPwqs') + (IF prep.flush >= 0 THEN 1 ELSE 0)
    BY <1>3, <2>1, <2>2, ArmedCount
  <2> QED BY <1>2, <2>3 DEF CountExact, ArmedPwqs
<1>11. FirstFlusherWaits' /\ ArmedRight'
  <2>1. FirstFlusherWaits'
    BY <1>1, <1>2, <1>8, <1>9 DEF Arms, FirstFlusherWaits, Armed, wqVars
  <2>2. ArmedRight'
    <3>1. \A r \in Pwq : Armed(r)' => pwq_flush_color'[r] = flush_color
      BY <1>9 DEF Arms, ArmedRight
    <3>2. prep.flush >= 0 => \A r \in prep'.todo : ~Armed(r)'
      BY <1>2, <1>9 DEF Arms, ArmedRight, TypeOK
    <3>3. prep.flush >= 0 /\ ~prep'.wait => \A r \in Pwq : ~Armed(r)'
      BY <1>2, <1>9 DEF Arms, ArmedRight
    <3>4. \A g \in Flusher : fpc[g] \notin {"again", "nothing"}
      BY <1>1 DEF Control, MutexHolder, Holding
    <3> QED BY <1>1, <1>2, <3>1, <3>2, <3>3, <3>4 DEF ArmedRight, wqVars
  <2> QED BY <2>1, <2>2
<1>12. OldArmed'
  <2>1. \A y \in Work : (Old(y)' <=> Old(y)) /\ (Old(y) => y \in InFlight /\ wcolor[y] = flush_color)
    BY <1>1 DEF Old, wqVars, workVars, InFlight
  <2>2. ASSUME first_flusher # None, NEW y \in Work, Old(y)
        PROVE  pwq_flush_color'[pwq[y]] # -1 \/ (prep.flush >= 0 /\ pwq[y] \in prep'.todo)
    <3>1. pwq[y] \in Pwq
      BY <2>1, <2>2 DEF Colors, InFlightColor
    <3>2. Armed(pwq[y]) \/ (prep.flush >= 0 /\ pwq[y] \in prep.todo)
      BY <2>2 DEF Arms, OldArmed
    <3>3. CASE pwq[y] # q
      BY <1>2, <1>9, <3>1, <3>2, <3>3 DEF Armed
    <3>4. CASE pwq[y] = q
      BY <1>4, <1>6, <1>9, <2>1, <2>2, <3>2, <3>4 DEF Armed
    <3> QED BY <3>3, <3>4
  <2>3. UNCHANGED <<first_flusher, pwq, fpc>>
    BY <1>1 DEF wqVars, workVars
  <2> QED BY <1>2, <2>1, <2>2, <2>3 DEF Arms, OldArmed, Armed
<1>13. Arms'
  BY <1>10, <1>11, <1>12 DEF Arms
<1>14. InFlight' = InFlight /\ UNCHANGED <<pwq, wcolor>>
  BY <1>1 DEF InFlight, workVars
<1>15. Colors'
  <2>1. QueuedColor'
    <3> SUFFICES ASSUME NEW r \in Pwq
                 PROVE  pwq_work_color'[r] = work_color \/ (prep'.work >= 0 /\ r \in prep'.todo)
      BY <1>1 DEF QueuedColor, wqVars
    <3>1. pwq_work_color[r] = work_color \/ (prep.work >= 0 /\ r \in prep.todo)
      BY DEF Colors, QueuedColor
    <3>2. CASE r = q
      BY <1>3, <1>6, <3>1, <3>2 DEF TypeOK
    <3>3. CASE r # q
      BY <1>2, <1>3, <3>1, <3>3 DEF TypeOK
    <3> QED BY <3>2, <3>3
  <2>2. Cascade' = Cascade
    BY <1>1, <1>2 DEF HandsOn, Cascade, wqVars
  <2>3. InFlightColor' /\ HolderColor' /\ ClosedHeld' /\ NoFlush'
    BY <1>1, <1>14, <2>2 DEF Colors, InFlightColor, HolderColor, ClosedHeld, NoFlush, Holder, wqVars
  <2> QED BY <2>1, <2>3 DEF Colors
<1>16. Debts'
  BY <1>1, <1>14, DebtsFrame DEF wqVars
<1> QED BY <1>1, <1>5, <1>7, <1>13, <1>15, <1>16, DrainsKept

(* It has been at every pwq.                                               *)
LEMMA PrepEndStep ==
  ASSUME IInv, NEW f \in Flusher, PrepEnd(f)
  PROVE  IInv'
<1> USE DEF IInv
<1>1. /\ fpc[f] = "prep" /\ prep.todo = {} /\ prep' = NoPrep
      /\ UNCHANGED <<mutex, wqVars, pwq_work_color, pwq_flush_color, color, next, workVars,
                     nr_drainers, owed>>
      /\ fpc'[f] = IF prep.wait THEN prep.yes ELSE prep.no
      /\ fpc' \in [Flusher -> {"idle", "flush", "prep", "nothing", "unlock_wait", "wait", "relock",
                               "complete", "hand_on", "again", "unlock", "drain_check", "none"}]
      /\ \A g \in Flusher : g # f => fpc'[g] = fpc[g]
  BY DEF PrepEnd, TypeOK, PrepGoto
<1>2. mutex = f /\ f # None /\ \A g \in Flusher : g # f => fpc[g] \notin Holding
  BY <1>1, HolderFacts DEF Holding
<1>3. \/ /\ first_flusher = f /\ prep.flush = flush_color /\ prep.work = work_color
         /\ prep.yes = "unlock_wait" /\ prep.no = "nothing"
      \/ /\ first_flusher \notin {None, f} /\ prep.flush = -1 /\ prep.work = work_color
         /\ prep.yes = "unlock_wait" /\ prep.no = "unlock_wait"
      \/ /\ first_flusher = None /\ prep.flush = -1 /\ prep.work = work_color
         /\ prep.yes = "hand_on" /\ prep.no = "hand_on"
      \/ /\ first_flusher \notin {None, f} /\ prep.flush = flush_color /\ prep.work = -1
         /\ prep.yes = "unlock" /\ prep.no = "again"
  BY <1>1 DEF Control, PrepMode
<1>4. flush_color >= 0 /\ flush_color \in Color /\ work_color \in Color /\ prep.flush \in Int
  BY DEF TypeOK, Color
<1>5. /\ prep.flush >= 0 => /\ nr_pwqs_to_flush' = nr_pwqs_to_flush - 1
                            /\ nr_pwqs_to_flush = Cardinality(ArmedPwqs) + 1
      /\ ~(prep.flush >= 0) => /\ UNCHANGED <<nr_pwqs_to_flush, done>>
                               /\ nr_pwqs_to_flush = Cardinality(ArmedPwqs)
      /\ done' \in [Flusher -> BOOLEAN]
      /\ \A g \in Flusher : done[g] => done'[g]
      /\ \A g \in Flusher : done'[g] => done[g] \/ (prep.flush >= 0 /\ nr_pwqs_to_flush = 1 /\ g = first_flusher)
  <2>1. nr_pwqs_to_flush = Cardinality(ArmedPwqs) + (IF prep.flush >= 0 THEN 1 ELSE 0)
    BY DEF Arms, CountExact, ArmedPwqs
  <2>2. \/ prep.flush >= 0 /\ nr_pwqs_to_flush' = nr_pwqs_to_flush - 1
           /\ done' = [g \in Flusher |-> done[g] \/ (nr_pwqs_to_flush = 1 /\ g = first_flusher)]
        \/ ~(prep.flush >= 0) /\ UNCHANGED <<nr_pwqs_to_flush, done>>
    BY DEF PrepEnd, DecPwqsToFlush
  <2>3. done \in [Flusher -> BOOLEAN]
    BY DEF TypeOK
  <2>4. CASE prep.flush >= 0
    BY <2>1, <2>2, <2>3, <2>4, ArmedCount
  <2>5. CASE ~(prep.flush >= 0)
    BY <2>1, <2>2, <2>3, <2>5, ArmedCount
  <2> QED BY <2>4, <2>5
<1>6. nr_pwqs_to_flush' = Cardinality(ArmedPwqs) /\ ArmedPwqs' = ArmedPwqs /\ \A q \in Pwq : Armed(q)' <=> Armed(q)
  BY <1>1, <1>5, ArmedCount DEF ArmedPwqs, Armed
<1>7. fpc'[f] \in {"unlock_wait", "nothing", "hand_on", "unlock", "again"}
  BY <1>1, <1>3
<1>8. TypeOK'
  <2>1. fpc' \in [Flusher -> {"idle", "flush", "prep", "nothing", "unlock_wait", "wait", "relock",
                          "complete", "hand_on", "again", "unlock", "drain_check"}]
    BY <1>7 DEF PrepEnd, TypeOK
  <2>2. nr_pwqs_to_flush' \in Nat
    BY <1>6, ArmedCount
  <2> QED BY <1>1, <1>5, <2>1, <2>2 DEF TypeOK, NoPrep, PrepGoto, wqVars, workVars
<1>9. Control'
  <2>1. MutexHolder'
    BY <1>1, <1>2, <1>7 DEF MutexHolder, Holding
  <2>2. LinkedWaits'
    BY <1>1, <1>2, <1>3, <1>5 DEF Control, LinkedWaits, wqVars, Holding
  <2>3. LinkedOnce'
    BY <1>1 DEF Control, LinkedOnce, wqVars
  <2>4. HandsOn' = HandsOn /\ Cascade' = Cascade
    BY <1>1, <1>2, <1>3 DEF HandsOn, Cascade, NoPrep
  <2>5. FirstWaits'
    <3>1. first_flusher # None => fpc'[first_flusher] \in {"prep", "nothing", "unlock_wait", "wait", "relock"}
      BY <1>1, <1>3 DEF Control, FirstWaits, TypeOK
    <3>2. \A g \in Flusher : fpc'[g] = "relock" => done'[g]
      BY <1>1, <1>5, <1>7 DEF Control, FirstWaits
    <3> QED BY <1>1, <2>4, <3>1, <3>2 DEF Control, FirstWaits, wqVars
  <2>6. PrepMode'
    BY <1>1, <1>2, <1>7 DEF PrepMode, Holding
  <2>7. FirstOrNot'
    BY <1>1, <1>2, <1>3 DEF Control, FirstOrNot, wqVars, Holding
  <2> QED BY <2>1, <2>2, <2>3, <2>5, <2>6, <2>7 DEF Control
<1>10. prep.flush >= 0 /\ nr_pwqs_to_flush = 1 => \A q \in Pwq : ~Armed(q)
  BY <1>5, ArmedCount
<1>11. CountExact'
  BY <1>1, <1>6, ArmedCount DEF CountExact, ArmedPwqs, NoPrep
<1>12. FirstFlusherWaits'
  <2> SUFFICES ASSUME NEW q \in Pwq, Armed(q)
               PROVE  first_flusher # None /\ fpc'[first_flusher] \in {"prep", "unlock_wait", "wait"}
                      /\ ~done'[first_flusher]
    BY <1>1, <1>6 DEF FirstFlusherWaits, Armed, NoPrep, wqVars
  <2>1. first_flusher \in Flusher /\ first_flusher # None /\ ~done[first_flusher]
        /\ fpc[first_flusher] \in {"prep", "unlock_wait", "wait"}
    BY DEF Arms, FirstFlusherWaits, Armed, TypeOK
  <2>2. ~done'[first_flusher]
    BY <1>5, <1>10, <2>1
  <2>3. first_flusher = f => fpc'[f] = "unlock_wait"
    <3>1. first_flusher = f => prep.flush = flush_color /\ prep.yes = "unlock_wait"
      BY <1>2, <1>3
    <3>2. prep.flush = flush_color => prep.wait
      BY <1>4 DEF Arms, ArmedRight
    <3> QED BY <1>1, <3>1, <3>2
  <2> QED BY <1>1, <2>1, <2>2, <2>3
<1>13. ArmedRight'
  <2>1. ASSUME fpc'[f] \in {"again", "nothing"} PROVE \A q \in Pwq : ~Armed(q)
    BY <1>1, <1>3, <1>4, <2>1 DEF Arms, ArmedRight
  <2>2. \A g \in Flusher : fpc'[g] \in {"again", "nothing"} => \A q \in Pwq : ~Armed(q)
    BY <1>1, <2>1 DEF Arms, ArmedRight
  <2> QED BY <1>1, <1>6, <2>2 DEF Arms, ArmedRight, NoPrep, wqVars
<1>14. InFlight' = InFlight /\ UNCHANGED <<pwq, wcolor>> /\ \A y \in Work : Old(y)' <=> Old(y)
  BY <1>1 DEF InFlight, workVars, Old, wqVars
<1>15. OldArmed'
  <2>1. \A g \in Flusher : fpc'[g] # "complete"
    BY <1>1, <1>2, <1>7 DEF Holding
  <2>2. first_flusher # None => \A y \in Work : Old(y) => Armed(pwq[y])
    BY <1>1 DEF Arms, OldArmed
  <2>3. first_flusher # None => \A y \in Work : Old(y)' => Armed(pwq[y])'
    BY <1>1, <1>14, <2>2 DEF Armed
  <2> QED BY <1>1, <1>14, <2>1, <2>3 DEF OldArmed, Armed, wqVars
<1>16. Arms'
  BY <1>11, <1>12, <1>13, <1>15 DEF Arms
<1>17. Colors'
  <2>1. QueuedColor'
    BY <1>1 DEF Colors, QueuedColor, wqVars
  <2>2. Cascade' = Cascade
    BY <1>1, <1>2, <1>3 DEF HandsOn, Cascade, NoPrep
  <2>3. InFlightColor' /\ HolderColor'
    BY <1>1, <1>14 DEF Colors, InFlightColor, HolderColor, Holder, wqVars
  <2>4. ClosedHeld'
    BY <1>1, <1>2, <1>7 DEF Colors, ClosedHeld, Holder, wqVars, Holding
  <2>5. NoFlush'
    BY <1>1, <1>2, <1>7, <2>2 DEF Colors, NoFlush, wqVars, Holding
  <2> QED BY <2>1, <2>3, <2>4, <2>5 DEF Colors
<1>18. Debts'
  <2>1. OwedRight'
    BY <1>1, <1>14 DEF Debts, OwedRight, Holder, wqVars
  <2>2. ASSUME prep.flush >= 0, nr_pwqs_to_flush = 1, first_flusher \in Flusher PROVE owed[first_flusher] = {}
    <3> SUFFICES ASSUME NEW y \in owed[first_flusher] PROVE FALSE
      OBVIOUS
    <3>1. first_flusher # None
      BY <2>2, ColorAssumption
    <3>2. y \in InFlight /\ y \in Work /\ Gap(flush_color, wcolor[y]) <= Gap(flush_color, color[first_flusher])
      BY <2>2 DEF Debts, OwedRight, Holder, InFlight
    <3>3. wcolor[y] = flush_color
      BY <3>1, <3>2, ColorAssumption DEF Colors, HolderColor, InFlightColor, Gap, Color, TypeOK
    <3>4. Armed(pwq[y]) /\ pwq[y] \in Pwq
      BY <1>1, <3>1, <3>2, <3>3 DEF Arms, OldArmed, Old, Colors, InFlightColor
    <3> QED BY <1>10, <2>2, <3>4
  <2>3. FlushedAll'
    BY <1>1, <1>5, <2>2 DEF Debts, FlushedAll
  <2> QED BY <2>1, <2>3 DEF Debts
<1>19. Drains'
  <2>1. fpc'[f] \notin {"idle", "drain_check"} /\ nr_drainers' = nr_drainers
    BY <1>1, <1>7
  <2> QED BY <1>1, <2>1, ColorAssumption, DrainsFrame DEF Drains
<1> QED BY <1>8, <1>9, <1>16, <1>17, <1>18, <1>19
-----------------------------------------------------------------------------
(* Short steps of flushers                                                 *)

Places == {"idle", "flush", "prep", "nothing", "unlock_wait", "wait", "relock",
           "complete", "hand_on", "again", "unlock", "drain_check"}

(* A drain is counted from its call to its return.                         *)
LEMMA DrainsStep ==
  ASSUME IInv, NEW f \in Flusher, Call(f) \/ DrainCheck(f)
  PROVE  Drains' /\ nr_drainers' \in Nat
<1> DEFINE D == {g \in Drainers : fpc[g] # "idle"}
           E == {g \in Drainers : fpc'[g] # "idle"}
<1>1. D \subseteq Drainers /\ E \subseteq Drainers /\ Drainers \subseteq Flusher
      /\ nr_drainers = Cardinality(D) /\ fpc \in [Flusher -> Places]
      /\ \A g \in Flusher : fpc[g] = "drain_check" => g \in Drainers
  BY ColorAssumption DEF IInv, Drains, TypeOK, Places
<1>2. /\ \/ E = D \cup {f} /\ f \notin D /\ nr_drainers' = nr_drainers + 1
         \/ E = D \ {f} /\ f \in D /\ nr_drainers' = nr_drainers - 1
         \/ E = D /\ nr_drainers' = nr_drainers
      /\ \A g \in Flusher : fpc'[g] = "drain_check" => fpc[g] = "drain_check"
  <2>1. \/ /\ fpc[f] = "idle" /\ fpc' = [fpc EXCEPT ![f] = "flush"]
           /\ nr_drainers' = nr_drainers + (IF f \in Drainers THEN 1 ELSE 0)
        \/ /\ fpc[f] = "drain_check" /\ nr_drainers' = nr_drainers
           /\ fpc' = [fpc EXCEPT ![f] = "flush"]
        \/ /\ fpc[f] = "drain_check" /\ nr_drainers' = nr_drainers - 1
           /\ fpc' = [fpc EXCEPT ![f] = "idle"]
    BY DEF Call, DrainCheck
  <2>2. /\ \A g \in Flusher : g # f => fpc'[g] = fpc[g]
        /\ \/ fpc[f] = "idle" /\ fpc'[f] = "flush" /\ nr_drainers' = nr_drainers + (IF f \in Drainers THEN 1 ELSE 0)
           \/ fpc[f] = "drain_check" /\ nr_drainers' = nr_drainers /\ fpc'[f] = "flush"
           \/ fpc[f] = "drain_check" /\ nr_drainers' = nr_drainers - 1 /\ fpc'[f] = "idle"
    BY <1>1, <2>1
  <2>3. nr_drainers + 0 = nr_drainers
    BY DEF IInv, TypeOK
  <2>4. \A g : (g \in D <=> g \in Drainers /\ fpc[g] # "idle") /\ (g \in E <=> g \in Drainers /\ fpc'[g] # "idle")
    OBVIOUS
  <2>5. \A g \in Drainers : g \in Flusher
    BY <1>1
  <2>6. \A g \in Flusher : fpc'[g] = "drain_check" => fpc[g] = "drain_check"
    BY <2>2
  <2> HIDE DEF D, E
  <2>7. CASE fpc[f] = "idle" /\ f \in Drainers
    <3>1. E = D \cup {f} /\ f \notin D
      BY <2>4, <2>2, <2>5, <2>7
    <3>2. nr_drainers' = nr_drainers + 1
      BY <2>2, <2>7
    <3> QED BY <2>6, <3>1, <3>2, Zenon
  <2>8. CASE fpc[f] = "idle" /\ f \notin Drainers
    <3>1. E = D
      BY <2>4, <2>2, <2>5, <2>8
    <3> QED BY <2>2, <2>3, <2>6, <2>8, <3>1
  <2>9. CASE fpc[f] = "drain_check" /\ fpc'[f] = "flush"
    <3>1. E = D
      BY <2>4, <2>2, <2>5, <2>9
    <3> QED BY <2>2, <2>6, <2>9, <3>1
  <2>10. CASE fpc[f] = "drain_check" /\ fpc'[f] = "idle"
    <3>1. E = D \ {f} /\ f \in D
      BY <1>1, <2>4, <2>2, <2>5, <2>10
    <3>2. nr_drainers' = nr_drainers - 1
      BY <2>2, <2>10
    <3> QED BY <2>6, <3>1, <3>2, Zenon
  <2> QED BY <2>2, <2>7, <2>8, <2>9, <2>10
<1> HIDE DEF D, E
<1>3. IsFiniteSet(D) /\ IsFiniteSet(E)
  BY <1>1, ColorAssumption, FS_Subset
<1>4. Cardinality(D) \in Nat /\ Cardinality(E) \in Nat
  BY <1>3, FS_CardinalityType
<1>5. /\ f \notin D => Cardinality(D \cup {f}) = Cardinality(D) + 1
      /\ f \in D => Cardinality(D \ {f}) = Cardinality(D) - 1
  BY <1>3, FS_AddElement, FS_RemoveElement
<1>6. nr_drainers' = Cardinality(E)
  BY <1>1, <1>2, <1>4, <1>5
<1> QED
  BY <1>1, <1>2, <1>4, <1>6 DEF Drains, E

(* A step of a flusher from one place outside the mutex to another.        *)
LEMMA OutsideStep ==
  ASSUME IInv, NEW f \in Flusher, Call(f) \/ DrainCheck(f) \/ WakeUp(f)
  PROVE  IInv'
<1> USE DEF IInv
<1>1. /\ UNCHANGED <<mutex, wqVars, pwqVars, color, done, next, prep, workVars, owed>>
      /\ fpc' \in [Flusher -> Places] /\ \A g \in Flusher : g # f => fpc'[g] = fpc[g]
      /\ \/ fpc[f] \in {"idle", "drain_check"} /\ fpc'[f] \in {"idle", "flush"}
         \/ /\ fpc[f] = "wait" /\ done[f] /\ first_flusher # f /\ UNCHANGED nr_drainers
            /\ fpc'[f] = IF f \in Drainers THEN "drain_check" ELSE "idle"
         \/ fpc[f] = "wait" /\ done[f] /\ fpc'[f] = "relock" /\ UNCHANGED nr_drainers
  BY ZenonT(40) DEF Call, DrainCheck, WakeUp, Leave, TypeOK, Places
<1>2. Drains' /\ nr_drainers' \in Nat
  <2>1. CASE Call(f) \/ DrainCheck(f)
    BY <2>1, DrainsStep
  <2>2. CASE WakeUp(f)
    <3>1. UNCHANGED nr_drainers /\ fpc[f] = "wait" /\ (fpc'[f] = "idle" => f \notin Drainers)
          /\ (fpc'[f] = "drain_check" => f \in Drainers)
      BY <2>2 DEF WakeUp, Leave, TypeOK
    <3> QED BY <1>1, <3>1, ColorAssumption, DrainsFrame DEF Drains, TypeOK
  <2> QED BY <2>1, <2>2
<1>3. TypeOK'
  BY <1>1, <1>2 DEF TypeOK, Places, wqVars, pwqVars, workVars
<1>4. HandsOn' = HandsOn /\ Cascade' = Cascade
  <2>1. mutex # None => fpc'[mutex] \in {"prep", "hand_on", "complete"} <=> fpc[mutex] \in {"prep", "hand_on", "complete"}
    BY <1>1 DEF TypeOK
  <2>2. mutex # None /\ fpc[mutex] \in {"prep", "hand_on", "complete"} => fpc'[mutex] = fpc[mutex]
    BY <1>1 DEF TypeOK
  <2> QED BY <1>1, <2>1, <2>2 DEF HandsOn, Cascade
<1>5. Control'
  <2>1. MutexHolder' /\ PrepMode' /\ FirstOrNot' /\ LinkedOnce'
    BY <1>1 DEF Control, MutexHolder, PrepMode, FirstOrNot, LinkedOnce, Holding, wqVars
  <2>2. LinkedWaits'
    BY <1>1 DEF Control, LinkedWaits, wqVars
  <2>3. FirstWaits'
    BY <1>1, <1>4 DEF Control, FirstWaits, wqVars, TypeOK
  <2> QED BY <2>1, <2>2, <2>3 DEF Control
<1>6. InFlight' = InFlight /\ UNCHANGED <<pwq, wcolor>>
  BY <1>1 DEF InFlight, workVars
<1>7. Arms'
  BY <1>1, <1>6 DEF Arms, CountExact, FirstFlusherWaits, ArmedRight, OldArmed, Armed, Old, pwqVars, wqVars, TypeOK
<1>8. Colors'
  BY <1>1, <1>4, <1>6 DEF Colors, InFlightColor, QueuedColor, HolderColor, ClosedHeld, NoFlush, Holder, wqVars, pwqVars
<1>9. Debts'
  BY <1>1, <1>6, DebtsFrame DEF wqVars
<1> QED BY <1>2, <1>3, <1>5, <1>7, <1>8, <1>9

(* A step of a flusher that gives the mutex back.                          *)
LEMMA ReleaseStep ==
  ASSUME IInv, NEW f \in Flusher, UnlockWait(f) \/ Unlock(f)
  PROVE  IInv'
<1> USE DEF IInv
<1>1. /\ UNCHANGED <<wqVars, pwqVars, color, done, next, prep, workVars, nr_drainers, owed>>
      /\ mutex' = None /\ fpc' \in [Flusher -> Places] /\ \A g \in Flusher : g # f => fpc'[g] = fpc[g]
      /\ \/ fpc[f] = "unlock_wait" /\ fpc'[f] = "wait"
         \/ fpc[f] = "unlock" /\ fpc'[f] = IF f \in Drainers THEN "drain_check" ELSE "idle"
  BY DEF UnlockWait, Unlock, Leave, TypeOK, Places
<1>2. /\ mutex = f /\ f # None /\ prep = NoPrep
      /\ \A g \in Flusher : g # f => fpc[g] \notin Holding
  BY <1>1, HolderFacts DEF Holding
<1>3. TypeOK'
  BY <1>1 DEF TypeOK, Places, wqVars, pwqVars, workVars
<1>4. ~HandsOn' /\ ~Cascade' /\ ~Cascade
  BY <1>1, <1>2 DEF HandsOn, Cascade
<1>5. Control'
  <2>1. MutexHolder' /\ PrepMode' /\ FirstOrNot' /\ LinkedOnce'
    BY <1>1, <1>2, ColorAssumption DEF Control, MutexHolder, PrepMode, FirstOrNot, LinkedOnce, Holding, wqVars
  <2>2. LinkedWaits'
    BY <1>1 DEF Control, LinkedWaits, wqVars
  <2>3. FirstWaits'
    BY <1>1, <1>4 DEF Control, FirstWaits, FirstOrNot, wqVars, TypeOK
  <2> QED BY <2>1, <2>2, <2>3 DEF Control
<1>6. InFlight' = InFlight /\ UNCHANGED <<pwq, wcolor>>
  BY <1>1 DEF InFlight, workVars
<1>7. Arms'
  BY <1>1, <1>6 DEF Arms, CountExact, FirstFlusherWaits, ArmedRight, OldArmed, Armed, Old, pwqVars,
                    wqVars, TypeOK, Control, FirstOrNot
<1>8. Colors'
  <2>1. ClosedHeld'
    BY <1>1 DEF Colors, ClosedHeld, Holder, wqVars
  <2>2. NoFlush'
    BY <1>1, <1>4 DEF Colors, NoFlush, Holder, wqVars
  <2>3. InFlightColor' /\ QueuedColor' /\ HolderColor'
    BY <1>1, <1>6 DEF Colors, InFlightColor, QueuedColor, HolderColor, Holder, wqVars, pwqVars
  <2> QED BY <2>1, <2>2, <2>3 DEF Colors
<1>9. Debts'
  BY <1>1, <1>6, DebtsFrame DEF wqVars
<1>10. Drains'
  BY <1>1, ColorAssumption, DrainsFrame DEF Drains
<1> QED BY <1>3, <1>5, <1>7, <1>8, <1>9, <1>10

(* The first flusher finds nothing to wait for.                            *)
LEMMA NothingStep ==
  ASSUME IInv, NEW f \in Flusher, Nothing(f)
  PROVE  IInv'
<1> USE DEF IInv
<1>1. /\ UNCHANGED <<work_color, flusher_queue, flusher_overflow, pwqVars, color, done, next, prep,
                     workVars, nr_drainers, owed>>
      /\ flush_color' = work_color /\ first_flusher' = None /\ mutex' = None
      /\ fpc' \in [Flusher -> Places] /\ \A g \in Flusher : g # f => fpc'[g] = fpc[g]
      /\ fpc[f] = "nothing" /\ fpc'[f] = IF f \in Drainers THEN "drain_check" ELSE "idle"
  BY DEF Nothing, Leave, TypeOK, Places
<1>2. /\ mutex = f /\ f # None /\ prep = NoPrep /\ first_flusher = f
      /\ \A g \in Flusher : g # f => fpc[g] \notin Holding
      /\ flusher_queue = <<>> /\ flusher_overflow = <<>> /\ work_color = Succ(flush_color)
      /\ flush_color \in Color /\ work_color \in Color
      /\ \A q \in Pwq : ~Armed(q)
  BY <1>1, HolderFacts DEF Holding, Control, FirstOrNot, Colors, NoFlush, TypeOK, Arms, ArmedRight
<1>3. TypeOK'
  BY <1>1, <1>2 DEF TypeOK, Places, pwqVars, workVars
<1>4. ~HandsOn' /\ ~Cascade' /\ ~Cascade
  BY <1>1, <1>2 DEF HandsOn, Cascade
<1>5. \A g : ~In(flusher_queue, g) /\ ~In(flusher_overflow, g)
  BY <1>2, EmptySeq DEF In
<1>6. Control'
  <2>1. MutexHolder' /\ PrepMode' /\ LinkedOnce'
    BY <1>1, <1>2, ColorAssumption DEF Control, MutexHolder, PrepMode, LinkedOnce, Holding
  <2>2. LinkedWaits' /\ FirstOrNot'
    BY <1>1, <1>2, <1>5 DEF Control, LinkedWaits, FirstOrNot, Holding
  <2>3. FirstWaits'
    BY <1>1, <1>4 DEF Control, FirstWaits
  <2> QED BY <2>1, <2>2, <2>3 DEF Control
<1>7. InFlight' = InFlight /\ UNCHANGED <<pwq, wcolor>>
  BY <1>1 DEF InFlight, workVars
<1>8. Arms'
  <2>1. \A q \in Pwq : ~Armed(q)'
    BY <1>1, <1>2 DEF Armed, pwqVars
  <2>2. CountExact'
    BY <1>1 DEF Arms, CountExact, pwqVars
  <2>3. \A g \in Flusher : fpc'[g] # "complete"
    BY <1>1, <1>2 DEF Holding
  <2>4. prep'.flush = -1
    BY <1>1, <1>2 DEF NoPrep
  <2> QED BY <1>1, <2>1, <2>2, <2>3, <2>4 DEF Arms, FirstFlusherWaits, ArmedRight, OldArmed, Armed
<1>9. Colors'
  <2>1. \A x \in Work : x \in InFlight => wcolor[x] = work_color /\ pwq[x] \in Pwq
    <3> SUFFICES ASSUME NEW x \in Work, x \in InFlight PROVE wcolor[x] = work_color /\ pwq[x] \in Pwq
      OBVIOUS
    <3>1. wcolor[x] \in Color /\ pwq[x] \in Pwq /\ Gap(flush_color, wcolor[x]) <= Gap(flush_color, work_color)
      BY DEF Colors, InFlightColor
    <3>2. wcolor[x] # flush_color
      BY <1>2, <3>1 DEF Arms, OldArmed, Old, NoPrep
    <3>3. Gap(flush_color, work_color) = 1
      BY <1>2, ColorAssumption DEF Gap, Succ, Color
    <3>4. Gap(flush_color, wcolor[x]) = 1
      <4>1. Gap(flush_color, wcolor[x]) \in Color /\ Gap(flush_color, wcolor[x]) # 0
        BY <1>2, <3>1, <3>2, GapFacts
      <4> QED BY <3>1, <3>3, <4>1, ColorAssumption DEF Color
    <3> QED BY <1>2, <3>1, <3>3, <3>4, GapFacts
  <2>2. Gap(work_color, work_color) = 0
    BY <1>2 DEF Gap, Color
  <2>3. InFlightColor'
    BY <1>1, <1>7, <2>1, <2>2, <1>2 DEF InFlightColor
  <2>4. QueuedColor'
    BY <1>1, <1>2 DEF Colors, QueuedColor, pwqVars
  <2>5. \A g \in Flusher : ~Holder(g)'
    BY <1>1, <1>2, <1>5, ColorAssumption DEF Holder
  <2>6. HolderColor'
    BY <1>1, <1>2, <2>5, EmptySeq DEF HolderColor
  <2>7. ClosedHeld'
    <3>1. \A c \in Color : Gap(work_color, c) >= 0
      BY <1>2, ColorAssumption DEF Gap, Color
    <3> QED BY <1>1, <1>2, <2>2, <3>1, GapFacts DEF ClosedHeld, Color
  <2>8. NoFlush'
    <3>1. \A g \in Flusher : fpc'[g] # "complete"
      BY <1>1, <1>2 DEF Holding
    <3> QED BY <1>1, <1>2, <3>1 DEF NoFlush
  <2> QED BY <2>3, <2>4, <2>6, <2>7, <2>8 DEF Colors
<1>10. Debts'
  <2>1. \A g \in Flusher : ~Holder(g)'
    BY <1>1, <1>2, <1>5, ColorAssumption DEF Holder
  <2> QED BY <1>1, <1>7, <2>1 DEF Debts, OwedRight, FlushedAll
<1>11. Drains'
  BY <1>1, ColorAssumption, DrainsFrame DEF Drains
<1> QED BY <1>3, <1>6, <1>8, <1>9, <1>10, <1>11

(* The colour that is flushed has no work left when nobody is armed.       *)
LEMMA NoneOld ==
  ASSUME IInv, first_flusher # None, prep = NoPrep, \A q \in Pwq : ~Armed(q)
  PROVE  \A x \in Work : ~Old(x)
  BY DEF IInv, Arms, OldArmed, NoPrep, Old, Colors, InFlightColor

(* The first flusher, which took the mutex again, and a flusher whose      *)
(* successor had nothing to wait for start to complete a colour.           *)
LEMMA RelockStep ==
  ASSUME IInv, NEW f \in Flusher, \/ Relock(f) /\ first_flusher = f
                                  \/ Again(f)
  PROVE  IInv'
<1> USE DEF IInv
<1>1. /\ UNCHANGED <<work_color, flush_color, flusher_queue, flusher_overflow, pwqVars, color, done,
                     next, prep, workVars, nr_drainers, owed>>
      /\ first_flusher' = None /\ mutex' = f /\ f # None
      /\ fpc' \in [Flusher -> Places] /\ \A g \in Flusher : g # f => fpc'[g] = fpc[g]
      /\ fpc[f] \in {"relock", "again"} /\ fpc'[f] = "complete"
  BY HolderFacts, ColorAssumption DEF Relock, Again, TypeOK, Places, Holding
<1>2. /\ prep = NoPrep /\ first_flusher # None /\ first_flusher \in Flusher
      /\ \A g \in Flusher : g # f => fpc[g] \notin Holding
  <2>1. CASE fpc[f] = "again"
    BY <2>1, HolderFacts DEF Holding, Control, FirstOrNot, TypeOK
  <2>2. CASE fpc[f] = "relock"
    BY <1>1, <2>2, NobodyPreps DEF Relock, Again, TypeOK
  <2> QED BY <1>1, <2>1, <2>2
<1>3. \A q \in Pwq : ~Armed(q)
  <2>1. CASE fpc[f] = "again"
    BY <2>1 DEF Arms, ArmedRight
  <2>2. CASE fpc[f] = "relock"
    BY <2>2 DEF Relock, Again, Arms, FirstFlusherWaits, Armed
  <2> QED BY <1>1, <2>1, <2>2
<1>4. \A x \in Work : ~Old(x)
  BY <1>2, <1>3, NoneOld
<1>5. TypeOK'
  BY <1>1 DEF TypeOK, Places, pwqVars, workVars
<1>6. ~HandsOn' /\ Cascade' /\ ~Cascade
  BY <1>1, <1>2 DEF HandsOn, Cascade, Control, FirstWaits
<1>7. Control'
  <2>1. MutexHolder' /\ PrepMode' /\ FirstOrNot' /\ LinkedOnce'
    BY <1>1, <1>2, ColorAssumption DEF Control, MutexHolder, PrepMode, FirstOrNot, LinkedOnce, Holding
  <2>2. LinkedWaits'
    BY <1>1, ColorAssumption DEF Control, LinkedWaits
  <2>3. FirstWaits'
    BY <1>1, <1>6 DEF Control, FirstWaits, TypeOK
  <2> QED BY <2>1, <2>2, <2>3 DEF Control
<1>8. InFlight' = InFlight /\ UNCHANGED <<pwq, wcolor>>
  BY <1>1 DEF InFlight, workVars
<1>9. Arms'
  <2>1. \A q \in Pwq : ~Armed(q)'
    BY <1>1, <1>3 DEF Armed, pwqVars
  <2>2. \A x \in Work : ~Old(x)'
    BY <1>1, <1>4, <1>8 DEF Old
  <2>3. CountExact'
    BY <1>1 DEF Arms, CountExact, pwqVars
  <2> QED BY <1>1, <1>2, <2>1, <2>2, <2>3 DEF Arms, FirstFlusherWaits, ArmedRight, OldArmed, Armed, NoPrep
<1>10. Colors'
  <2>1. \A g \in Flusher : Holder(g)' => Holder(g)
    BY <1>1, ColorAssumption DEF Holder
  <2>2. color[first_flusher] = flush_color /\ work_color # flush_color
    BY <1>2, GapFacts, ColorAssumption DEF Colors, HolderColor, Holder, TypeOK, Gap, Color
  <2>3. \A g \in Flusher : Holder(g) /\ g # first_flusher => Holder(g)'
    BY <1>1 DEF Holder
  <2>4. ClosedHeld'
    BY <1>1, <2>2, <2>3 DEF Colors, ClosedHeld
  <2>5. NoFlush'
    BY <1>1, <1>6, <2>2 DEF Colors, NoFlush
  <2>6. InFlightColor' /\ QueuedColor' /\ HolderColor'
    BY <1>1, <1>8, <2>1, ColorAssumption DEF Colors, InFlightColor, QueuedColor, HolderColor, pwqVars
  <2> QED BY <2>4, <2>5, <2>6 DEF Colors
<1>11. Debts'
  <2>1. \A g \in Flusher : Holder(g)' => Holder(g)
    BY <1>1, ColorAssumption DEF Holder
  <2> QED BY <1>1, <1>8, <2>1 DEF Debts, OwedRight, FlushedAll
<1>12. Drains'
  BY <1>1, ColorAssumption, DrainsFrame DEF Drains
<1> QED BY <1>5, <1>7, <1>9, <1>10, <1>11, <1>12

(* A flusher that is no longer first when it has the mutex leaves.         *)
LEMMA RelockLeaves ==
  ASSUME IInv, NEW f \in Flusher, Relock(f), first_flusher # f
  PROVE  IInv'
<1> USE DEF IInv
<1>1. /\ UNCHANGED <<mutex, wqVars, pwqVars, color, done, next, prep, workVars, nr_drainers, owed>>
      /\ mutex = None /\ fpc' \in [Flusher -> Places] /\ \A g \in Flusher : g # f => fpc'[g] = fpc[g]
      /\ fpc[f] = "relock" /\ fpc'[f] = IF f \in Drainers THEN "drain_check" ELSE "idle"
  BY DEF Relock, Leave, TypeOK, Places, wqVars
<1>2. TypeOK'
  BY <1>1 DEF TypeOK, Places, wqVars, pwqVars, workVars
<1>3. ~HandsOn' /\ ~Cascade' /\ ~Cascade /\ ~HandsOn
  BY <1>1 DEF HandsOn, Cascade
<1>4. Control'
  <2>1. MutexHolder' /\ PrepMode' /\ FirstOrNot' /\ LinkedOnce'
    BY <1>1 DEF Control, MutexHolder, PrepMode, FirstOrNot, LinkedOnce, Holding, wqVars
  <2>2. LinkedWaits'
    BY <1>1 DEF Control, LinkedWaits, wqVars
  <2>3. FirstWaits'
    BY <1>1, <1>3 DEF Control, FirstWaits, wqVars, TypeOK
  <2> QED BY <2>1, <2>2, <2>3 DEF Control
<1>5. InFlight' = InFlight /\ UNCHANGED <<pwq, wcolor>>
  BY <1>1 DEF InFlight, workVars
<1>6. Arms'
  BY <1>1, <1>5 DEF Arms, CountExact, FirstFlusherWaits, ArmedRight, OldArmed, Armed, Old, pwqVars, wqVars, TypeOK
<1>7. Colors'
  BY <1>1, <1>3, <1>5 DEF Colors, InFlightColor, QueuedColor, HolderColor, ClosedHeld, NoFlush, Holder, wqVars, pwqVars
<1>8. Debts'
  BY <1>1, <1>5, DebtsFrame DEF wqVars
<1>9. Drains'
  BY <1>1, ColorAssumption, DrainsFrame DEF Drains
<1> QED BY <1>2, <1>4, <1>6, <1>7, <1>8, <1>9
-----------------------------------------------------------------------------
(* flush_workqueue() starts                                                *)

(* What the three ways to start have in common.                            *)
LEMMA StartFacts ==
  ASSUME IInv, NEW f \in Flusher, Start(f)
  PROVE  /\ fpc[f] = "flush" /\ mutex = None /\ mutex' = f /\ f # None
         /\ prep = NoPrep /\ (\A g \in Flusher : fpc[g] \notin Holding)
         /\ ~Cascade /\ ~HandsOn /\ f # first_flusher
         /\ ~In(flusher_queue, f) /\ ~In(flusher_overflow, f)
         /\ flush_color \in Color /\ work_color \in Color
         /\ work_next_color(work_color) = Succ(work_color) /\ Succ(work_color) \in Color
         /\ Gap(flush_color, work_color) \in Color /\ flush_color >= 0 /\ work_color >= 0
         /\ UNCHANGED <<flush_color, pwq_work_color, pwq_flush_color, next, workVars, nr_drainers>>
         /\ InFlight' = InFlight /\ UNCHANGED <<stage, pwq, wcolor>>
         /\ done' = [done EXCEPT ![f] = FALSE]
         /\ owed' = [owed EXCEPT ![f] = InFlight]
<1> USE DEF IInv
<1>1. /\ fpc[f] = "flush" /\ mutex = None /\ mutex' = f /\ f # None
      /\ UNCHANGED <<flush_color, pwq_work_color, pwq_flush_color, next, workVars, nr_drainers>>
      /\ InFlight' = InFlight /\ UNCHANGED <<stage, pwq, wcolor>>
      /\ done' = [done EXCEPT ![f] = FALSE]
      /\ owed' = [owed EXCEPT ![f] = InFlight]
  BY ColorAssumption DEF Start, InFlight, workVars
<1>2. prep = NoPrep /\ (\A g \in Flusher : fpc[g] \notin Holding) /\ ~Cascade /\ ~HandsOn
  BY <1>1, NobodyPreps DEF Cascade, HandsOn
<1>3. f # first_flusher /\ ~In(flusher_queue, f) /\ ~In(flusher_overflow, f)
  BY <1>1 DEF Control, FirstWaits, LinkedWaits
<1>4. flush_color \in Color /\ work_color \in Color
  BY DEF TypeOK
<1>5. /\ work_next_color(work_color) = Succ(work_color) /\ Succ(work_color) \in Color
      /\ Gap(flush_color, work_color) \in Color /\ flush_color >= 0 /\ work_color >= 0
  BY <1>4, SuccIs, GapFacts DEF Color
<1> QED BY <1>1, <1>2, <1>3, <1>4, <1>5

(* What a flush is owed when it starts, whatever colour it takes.          *)
LEMMA StartDebts ==
  ASSUME IInv, NEW f \in Flusher, Start(f),
         \A g \in Flusher : g # f /\ Holder(g)' => Holder(g) /\ color'[g] = color[g],
         Holder(f)' => color'[f] = work_color
  PROVE  Debts'
<1> USE DEF IInv
<1>1. /\ InFlight' = InFlight /\ UNCHANGED <<flush_color, pwq, wcolor>>
      /\ done' = [done EXCEPT ![f] = FALSE]
      /\ owed' = [owed EXCEPT ![f] = InFlight]
  BY StartFacts
<1>2. \A g \in Flusher : g # f => owed'[g] = owed[g] /\ done'[g] = done[g]
  BY <1>1 DEF TypeOK
<1>3. owed'[f] = InFlight /\ done'[f] = FALSE
  BY <1>1 DEF TypeOK
<1>4. \A x \in InFlight : Gap(flush_color, wcolor[x]) <= Gap(flush_color, work_color)
  BY DEF Colors, InFlightColor, InFlight
<1>5. FlushedAll'
  BY <1>2, <1>3 DEF Debts, FlushedAll
<1>6. OwedRight'
  <2> SUFFICES ASSUME NEW g \in Flusher
               PROVE  /\ owed'[g] \subseteq InFlight
                      /\ Holder(g)' => \A x \in owed'[g] : Gap(flush_color, wcolor[x]) <= Gap(flush_color, color'[g])
    BY <1>1 DEF OwedRight
  <2>1. CASE g = f
    BY <1>3, <1>4, <2>1
  <2>2. CASE g # f
    BY <1>2, <2>2 DEF Debts, OwedRight
  <2> QED BY <2>1, <2>2
<1> QED BY <1>5, <1>6 DEF Debts

(* A flush that starts leaves every field with its type.                   *)
LEMMA StartTypes ==
  ASSUME IInv, NEW f \in Flusher, Start(f)
  PROVE  TypeOK'
<1> USE DEF IInv
<1> DEFINE P(fc, wc, yes, no) == [flush |-> fc, work |-> wc, todo |-> Pwq, wait |-> FALSE, yes |-> yes, no |-> no]
           PrepType == [flush : Color \cup {-1}, work : Color \cup {-1}, todo : SUBSET Pwq,
                        wait : BOOLEAN, yes : PrepGoto, no : PrepGoto]
<1>1. /\ P(flush_color, Succ(work_color), "unlock_wait", "nothing") \in PrepType
      /\ P(-1, Succ(work_color), "unlock_wait", "unlock_wait") \in PrepType
  BY StartFacts DEF PrepGoto
<1>2. /\ prep' \in PrepType /\ nr_pwqs_to_flush' \in Nat
      /\ fpc' \in [Flusher -> Places]
      /\ color' \in [Flusher -> Color \cup {-1}] /\ work_color' \in Color
      /\ first_flusher' \in Flusher \cup {None}
      /\ (flusher_queue' = flusher_queue \/ flusher_queue' = Append(flusher_queue, f))
      /\ (flusher_overflow' = flusher_overflow \/ flusher_overflow' = Append(flusher_overflow, f))
  <2>1. work_next_color(work_color) \in Color /\ work_next_color(work_color) = Succ(work_color)
    BY StartFacts
  <2> HIDE DEF PrepType
  <2>2. prep' \in PrepType
    BY <1>1, <2>1 DEF Start, StartPrep, TypeOK, PrepType
  <2>3. nr_pwqs_to_flush' \in Nat
    BY DEF Start, StartPrep, TypeOK
  <2>4. fpc' \in [Flusher -> Places]
    BY ZenonT(40) DEF Start, StartPrep, TypeOK, Places
  <2>5. color' \in [Flusher -> Color \cup {-1}] /\ work_color' \in Color
    BY <2>1 DEF Start, TypeOK
  <2>6. /\ first_flusher' \in Flusher \cup {None}
        /\ (flusher_queue' = flusher_queue \/ flusher_queue' = Append(flusher_queue, f))
        /\ (flusher_overflow' = flusher_overflow \/ flusher_overflow' = Append(flusher_overflow, f))
    BY DEF Start, TypeOK
  <2> QED BY <2>2, <2>3, <2>4, <2>5, <2>6
<1>3. flusher_queue' \in Seq(Flusher) /\ flusher_overflow' \in Seq(Flusher)
  <2>1. flusher_queue \in Seq(Flusher) /\ flusher_overflow \in Seq(Flusher)
    BY DEF TypeOK
  <2>2. Append(flusher_queue, f) \in Seq(Flusher) /\ Append(flusher_overflow, f) \in Seq(Flusher)
    BY <2>1, AppendFacts
  <2> QED BY <1>2, <2>1, <2>2
<1>4. mutex' = f /\ done' \in [Flusher -> BOOLEAN] /\ owed' \in [Flusher -> SUBSET Work]
      /\ UNCHANGED <<flush_color, pwq_work_color, pwq_flush_color, next, stage, pwq, wcolor, nr_drainers>>
  <2>1. InFlight \subseteq Work /\ owed \in [Flusher -> SUBSET Work] /\ done \in [Flusher -> BOOLEAN]
    BY DEF TypeOK, InFlight
  <2> QED BY <2>1, StartFacts
<1> QED BY <1>2, <1>3, <1>4 DEF TypeOK, Places

(* The first case: there is no first flusher.                              *)
LEMMA StartFirst ==
  ASSUME IInv, NEW f \in Flusher, Start(f), first_flusher = None
  PROVE  IInv'
<1> USE DEF IInv
<1>1. /\ flusher_queue = <<>> /\ flusher_overflow = <<>> /\ work_color = flush_color
      /\ \A q \in Pwq : ~Armed(q)
  BY StartFacts DEF Colors, NoFlush, Arms, FirstFlusherWaits, Armed
<1>2. Succ(work_color) # flush_color /\ Gap(flush_color, flush_color) = 0
      /\ Gap(flush_color, Succ(work_color)) = 1
  BY <1>1, StartFacts, ColorAssumption DEF Succ, Gap, Color
<1>3. /\ color' = [color EXCEPT ![f] = work_color] /\ work_color' = Succ(work_color)
      /\ first_flusher' = f
      /\ prep' = [flush |-> flush_color, work |-> Succ(work_color), todo |-> Pwq, wait |-> FALSE,
                  yes |-> "unlock_wait", no |-> "nothing"]
      /\ fpc' = [fpc EXCEPT ![f] = "prep"]
      /\ nr_pwqs_to_flush' = 1
      /\ UNCHANGED <<flusher_queue, flusher_overflow>>
  BY <1>2, StartFacts DEF Start, StartPrep
<1>4. /\ fpc'[f] = "prep" /\ (\A g \in Flusher : g # f => fpc'[g] = fpc[g])
      /\ done'[f] = FALSE /\ color'[f] = flush_color
      /\ (\A g \in Flusher : g # f => color'[g] = color[g] /\ done'[g] = done[g])
  BY <1>1, <1>3, StartFacts DEF TypeOK
<1>5. \A g : ~In(flusher_queue, g) /\ ~In(flusher_overflow, g)
  BY <1>1, EmptySeq DEF In
<1>6. \A g \in Flusher : Holder(g)' <=> g = f
  BY <1>3, <1>5 DEF Holder
<1>7. ~HandsOn' /\ ~Cascade'
  BY <1>3, <1>4, StartFacts DEF HandsOn, Cascade
<1>8. Control'
  <2>1. MutexHolder' /\ PrepMode' /\ FirstOrNot' /\ LinkedOnce'
    BY <1>3, <1>4, StartFacts DEF Control, MutexHolder, PrepMode, FirstOrNot, LinkedOnce, Holding
  <2>2. LinkedWaits'
    BY <1>3, <1>5 DEF LinkedWaits
  <2>3. FirstWaits'
    BY <1>3, <1>4, <1>7, StartFacts DEF Control, FirstWaits
  <2> QED BY <2>1, <2>2, <2>3 DEF Control
<1>9. Arms'
  <2>1. \A q \in Pwq : ~Armed(q)'
    BY <1>1, StartFacts DEF Armed
  <2>2. CountExact'
    <3>1. Cardinality(ArmedPwqs') = 0
      BY <2>1, ArmedCountNext
    <3> QED BY <1>3, <3>1, StartFacts DEF CountExact, ArmedPwqs
  <2>3. FirstFlusherWaits'
    BY <1>3, <1>4, StartFacts DEF FirstFlusherWaits
  <2>4. ArmedRight'
    BY <1>3, <1>4, <2>1, StartFacts DEF ArmedRight
  <2>5. OldArmed'
    <3>1. \A x \in Work : Old(x)' => pwq'[x] \in Pwq
      BY StartFacts DEF Old, Colors, InFlightColor
    <3>2. \A g \in Flusher : fpc'[g] # "complete"
      BY <1>4, StartFacts DEF Holding
    <3> QED BY <1>3, <3>1, <3>2, StartFacts DEF OldArmed
  <2> QED BY <2>2, <2>3, <2>4, <2>5 DEF Arms
<1>10. Colors'
  <2>1. InFlightColor'
    <3>1. \A c \in Color : Gap(flush_color, c) \in Int
      BY StartFacts, GapFacts DEF Color
    <3>2. \A x \in Work : x \in InFlight => Gap(flush_color, wcolor[x]) <= 1
      BY <1>1, <1>2, <3>1 DEF Colors, InFlightColor
    <3> QED BY <1>2, <1>3, <3>2, StartFacts DEF Colors, InFlightColor
  <2>2. QueuedColor'
    BY <1>3, StartFacts DEF QueuedColor, Color
  <2>3. HolderColor'
    BY <1>1, <1>2, <1>3, <1>4, <1>6, EmptySeq, StartFacts DEF HolderColor
  <2>4. ClosedHeld'
    <3>1. \A c \in Color : Gap(flush_color, c) \in Color /\ (Gap(flush_color, c) = 0 <=> c = flush_color)
      BY StartFacts, GapFacts
    <3>2. \A c \in Color : Gap(flush_color, c) < 1 => c = flush_color
      BY <3>1 DEF Color
    <3> QED BY <1>2, <1>3, <1>4, <1>6, <3>2, StartFacts DEF ClosedHeld
  <2>5. NoFlush'
    BY <1>1, <1>3, <1>4, StartFacts, ColorAssumption DEF NoFlush, Holding
  <2> QED BY <2>1, <2>2, <2>3, <2>4, <2>5 DEF Colors
<1>11. Debts'
  BY <1>1, <1>4, <1>6, StartDebts
<1>12. Drains'
  BY <1>4, StartFacts, ColorAssumption, DrainsFrame DEF Drains
<1>13. TypeOK'
  BY StartTypes
<1> QED BY <1>8, <1>9, <1>10, <1>11, <1>12, <1>13

(* A flush that does not become first flusher changes nothing of what the  *)
(* armed pwqs wait for.                                                    *)
LEMMA StartArms ==
  ASSUME IInv, NEW f \in Flusher, Start(f), first_flusher # None,
         UNCHANGED <<first_flusher, nr_pwqs_to_flush>>, prep'.flush = -1,
         fpc'[f] \in {"prep", "unlock_wait"}, \A g \in Flusher : g # f => fpc'[g] = fpc[g]
  PROVE  Arms'
<1> USE DEF IInv
<1>1. first_flusher \in Flusher /\ first_flusher # f /\ done'[first_flusher] = done[first_flusher]
      /\ fpc'[first_flusher] = fpc[first_flusher]
  BY StartFacts DEF TypeOK
<1>2. prep.flush = -1 /\ UNCHANGED <<pwq_flush_color, flush_color, pwq, wcolor>> /\ InFlight' = InFlight
  BY StartFacts DEF NoPrep
<1>3. CountExact'
  BY <1>2 DEF Arms, CountExact
<1>4. FirstFlusherWaits'
  BY <1>1, <1>2 DEF Arms, FirstFlusherWaits
<1>5. \A g \in Flusher : fpc'[g] \notin {"again", "nothing", "complete"}
  BY StartFacts DEF Holding
<1>6. ArmedRight'
  BY <1>2, <1>5 DEF Arms, ArmedRight, Armed
<1>7. OldArmed'
  BY <1>2, <1>5 DEF Arms, OldArmed, Old, Armed
<1> QED BY <1>3, <1>4, <1>6, <1>7 DEF Arms

(* The second case: behind a first flusher, in the queue of colours.       *)
LEMMA StartQueues ==
  ASSUME IInv, NEW f \in Flusher, Start(f), first_flusher # None, Succ(work_color) # flush_color
  PROVE  IInv'
<1> USE DEF IInv
<1>1. /\ color' = [color EXCEPT ![f] = work_color] /\ work_color' = Succ(work_color)
      /\ flusher_queue' = Append(flusher_queue, f)
      /\ prep' = [flush |-> -1, work |-> Succ(work_color), todo |-> Pwq, wait |-> FALSE,
                  yes |-> "unlock_wait", no |-> "unlock_wait"]
      /\ fpc' = [fpc EXCEPT ![f] = "prep"]
      /\ UNCHANGED <<first_flusher, flusher_overflow, nr_pwqs_to_flush>>
  <2>1. work_next_color(work_color) = Succ(work_color)
    BY StartFacts
  <2>2. /\ color' = [color EXCEPT ![f] = work_color] /\ work_color' = Succ(work_color)
        /\ flusher_queue' = Append(flusher_queue, f)
        /\ StartPrep(f, -1, Succ(work_color), "unlock_wait", "unlock_wait")
        /\ UNCHANGED <<first_flusher, flusher_overflow>>
    BY <2>1 DEF Start
  <2> QED BY <2>2 DEF StartPrep
<1>2. /\ fpc'[f] = "prep" /\ (\A g \in Flusher : g # f => fpc'[g] = fpc[g])
      /\ done'[f] = FALSE /\ color'[f] = work_color
      /\ (\A g \in Flusher : g # f => color'[g] = color[g] /\ done'[g] = done[g])
  BY <1>1, StartFacts DEF TypeOK
<1> DEFINE s == flusher_queue
           t == flusher_queue'
<1>3. /\ Len(t) = Len(s) + 1 /\ Len(s) \in Nat
      /\ (\A k \in 1 .. Len(s) : t[k] = s[k] /\ s[k] \in Flusher /\ s[k] # f)
      /\ t[Len(s) + 1] = f /\ t # <<>>
      /\ \A g : In(t, g) <=> In(s, g) \/ g = f
  <2>1. s \in Seq(Flusher)
    BY DEF TypeOK
  <2>2. \A k \in 1 .. Len(s) : s[k] \in Flusher
    BY <2>1, ElementOfSeq
  <2>3. \A k \in 1 .. Len(s) : s[k] # f
    BY StartFacts DEF In
  <2>4. t = Append(s, f)
    BY <1>1
  <2> HIDE DEF s, t
  <2> QED BY <2>1, <2>2, <2>3, <2>4, AppendFacts
<1>4. \A g \in Flusher : Holder(g)' <=> Holder(g) \/ g = f
  BY <1>1, <1>3 DEF Holder
<1>5. ~HandsOn' /\ ~Cascade'
  BY <1>1, <1>2, StartFacts DEF HandsOn, Cascade
<1>6. Gap(flush_color, Succ(work_color)) = Gap(flush_color, work_color) + 1
  BY StartFacts, GapFacts
<1>7. Control'
  <2>1. MutexHolder' /\ PrepMode' /\ FirstOrNot'
    BY <1>1, <1>2, StartFacts DEF Control, MutexHolder, PrepMode, FirstOrNot, Holding
  <2>2. LinkedWaits'
    BY <1>1, <1>2, <1>3, StartFacts DEF Control, LinkedWaits
  <2>3. FirstWaits'
    BY <1>1, <1>2, <1>5, StartFacts DEF Control, FirstWaits, TypeOK
  <2>4. LinkedOnce'
    <3> DEFINE o == flusher_overflow
    <3>1. \A k \in 1 .. Len(o) : o[k] # f
      BY StartFacts DEF In
    <3>2. (\A j, k \in 1 .. Len(t) : t[j] = t[k] => j = k)
      BY <1>3 DEF Control, LinkedOnce
    <3>3. \A j \in 1 .. Len(t), k \in 1 .. Len(o) : t[j] # o[k]
      BY <1>3, <3>1 DEF Control, LinkedOnce
    <3> QED BY <1>1, <3>2, <3>3 DEF Control, LinkedOnce
  <2> QED BY <2>1, <2>2, <2>3, <2>4 DEF Control
<1>8. Arms'
  BY <1>1, <1>2, StartArms
<1>9. Colors'
  <2>1. InFlightColor'
    <3>1. \A c \in Color : Gap(flush_color, c) \in Int
      BY StartFacts, GapFacts DEF Color
    <3>2. UNCHANGED <<flush_color, pwq, wcolor>> /\ InFlight' = InFlight /\ work_color \in Color
      BY StartFacts
    <3> QED BY <1>1, <1>6, <3>1, <3>2 DEF Colors, InFlightColor
  <2>2. QueuedColor'
    BY <1>1, StartFacts DEF QueuedColor, Color
  <2>3. \A g \in Flusher : Holder(g) =>
          color[g] \in Color /\ Gap(flush_color, color[g]) < Gap(flush_color, work_color)
          /\ Gap(flush_color, color[g]) \in Int
    <3>1. \A c \in Color : Gap(flush_color, c) \in Int
      BY StartFacts, GapFacts DEF Color
    <3> QED BY <3>1 DEF Colors, HolderColor
  <2>4. Gap(flush_color, work_color) \in Int /\ flush_color' = flush_color /\ work_color \in Color
    BY StartFacts DEF Color
  <2>5. HolderColor'
    <3>1. \A g \in Flusher : Holder(g)' =>
            color'[g] \in Color /\ Gap(flush_color, color'[g]) < Gap(flush_color, work_color')
      BY <1>1, <1>2, <1>4, <1>6, <2>3, <2>4
    <3>2. color'[first_flusher] = flush_color
      BY <1>2, StartFacts DEF Colors, HolderColor, TypeOK
    <3>3. \A j, k \in 1 .. Len(t) : j <= k => Gap(flush_color, color'[t[j]]) <= Gap(flush_color, color'[t[k]])
      <4> SUFFICES ASSUME NEW j \in 1 .. Len(t), NEW k \in 1 .. Len(t), j <= k
                   PROVE  Gap(flush_color, color'[t[j]]) <= Gap(flush_color, color'[t[k]])
        OBVIOUS
      <4>1. \A i \in 1 .. Len(s) : Holder(s[i]) /\ color'[t[i]] = color[s[i]] /\ s[i] \in Flusher
        BY <1>2, <1>3 DEF Holder, In
      <4>2. CASE k \in 1 .. Len(s)
        <5>1. j \in 1 .. Len(s)
          BY <1>3, <4>2
        <5> QED BY <4>1, <4>2, <5>1 DEF Colors, HolderColor
      <4>3. CASE k = Len(s) + 1 /\ j \in 1 .. Len(s)
        BY <1>2, <1>3, <2>3, <2>4, <4>1, <4>3
      <4>4. CASE k = Len(s) + 1 /\ j = k
        BY <1>2, <1>3, <2>4, <4>4
      <4> QED BY <1>3, <4>2, <4>3, <4>4
    <3> QED BY <1>1, <2>4, <3>1, <3>2, <3>3 DEF HolderColor
  <2>6. ClosedHeld'
    <3> SUFFICES ASSUME NEW c \in Color, Gap(flush_color, c) < Gap(flush_color, Succ(work_color))
                 PROVE  \E g \in Flusher : Holder(g)' /\ color'[g] = c
      BY <1>1, <2>4 DEF ClosedHeld
    <3>1. CASE c = work_color
      BY <1>2, <1>4, <3>1
    <3>2. CASE c # work_color
      <4>1. Gap(flush_color, c) \in Int /\ Gap(flush_color, c) # Gap(flush_color, work_color)
        BY <3>2, StartFacts, GapFacts DEF Color
      <4>2. Gap(flush_color, c) < Gap(flush_color, work_color)
        BY <1>6, <2>4, <4>1
      <4>3. PICK g \in Flusher : Holder(g) /\ color[g] = c
        BY <4>2, StartFacts DEF Colors, ClosedHeld, Holding
      <4>4. g # f
        BY <4>3, StartFacts DEF Holder
      <4> QED BY <1>2, <1>4, <4>3, <4>4
    <3> QED BY <3>1, <3>2
  <2>7. NoFlush'
    <3>1. flusher_overflow = <<>>
      BY StartFacts DEF Colors, NoFlush
    <3>2. \A g \in Flusher : fpc'[g] # "complete"
      BY <1>2, StartFacts DEF Holding
    <3>3. mutex' # first_flusher
      BY StartFacts
    <3> QED BY <1>1, <3>1, <3>2, <3>3 DEF NoFlush
  <2> QED BY <2>1, <2>2, <2>5, <2>6, <2>7 DEF Colors
<1>10. Debts'
  BY <1>2, <1>4, StartDebts
<1>11. Drains'
  BY <1>2, StartFacts, ColorAssumption, DrainsFrame DEF Drains
<1>12. TypeOK'
  BY StartTypes
<1> QED BY <1>7, <1>8, <1>9, <1>10, <1>11, <1>12

(* The third case: no colour is left.                                      *)
LEMMA StartOverflows ==
  ASSUME IInv, NEW f \in Flusher, Start(f), Succ(work_color) = flush_color
  PROVE  IInv'
<1> USE DEF IInv
<1>1. /\ color' = [color EXCEPT ![f] = -1]
      /\ flusher_overflow' = Append(flusher_overflow, f)
      /\ fpc' = [fpc EXCEPT ![f] = "unlock_wait"]
      /\ UNCHANGED <<work_color, first_flusher, flusher_queue, prep, nr_pwqs_to_flush>>
  BY StartFacts DEF Start
<1>2. /\ fpc'[f] = "unlock_wait" /\ (\A g \in Flusher : g # f => fpc'[g] = fpc[g])
      /\ done'[f] = FALSE
      /\ (\A g \in Flusher : g # f => color'[g] = color[g] /\ done'[g] = done[g])
  BY <1>1, StartFacts DEF TypeOK
<1>3. first_flusher # None
  <2>1. Succ(flush_color) # flush_color
    BY StartFacts, ColorAssumption DEF Succ, Color
  <2> QED BY <2>1, StartFacts DEF Colors, NoFlush
<1> DEFINE s == flusher_overflow
           t == flusher_overflow'
           q == flusher_queue
<1>4. /\ Len(t) = Len(s) + 1 /\ Len(s) \in Nat
      /\ (\A k \in 1 .. Len(s) : t[k] = s[k] /\ s[k] \in Flusher /\ s[k] # f)
      /\ t[Len(s) + 1] = f /\ t # <<>>
      /\ \A g : In(t, g) <=> In(s, g) \/ g = f
  <2>1. s \in Seq(Flusher)
    BY DEF TypeOK
  <2>2. \A k \in 1 .. Len(s) : s[k] \in Flusher
    BY <2>1, ElementOfSeq
  <2>3. \A k \in 1 .. Len(s) : s[k] # f
    BY StartFacts DEF In
  <2>4. t = Append(s, f)
    BY <1>1
  <2> HIDE DEF s, t
  <2> QED BY <2>1, <2>2, <2>3, <2>4, AppendFacts
<1>5. \A k \in 1 .. Len(q) : q[k] \in Flusher /\ q[k] # f
  <2>1. q \in Seq(Flusher)
    BY DEF TypeOK
  <2>2. \A k \in 1 .. Len(q) : q[k] \in Flusher
    BY <2>1, ElementOfSeq
  <2> QED BY <2>2, StartFacts DEF In
<1>6. \A g \in Flusher : Holder(g)' <=> Holder(g)
  BY <1>1 DEF Holder
<1>7. \A g \in Flusher : Holder(g) => g # f
  BY StartFacts DEF Holder
<1>8. ~HandsOn' /\ ~Cascade'
  BY <1>1, <1>2, StartFacts DEF HandsOn, Cascade
<1>9. Control'
  <2>1. MutexHolder' /\ PrepMode' /\ FirstOrNot'
    BY <1>1, <1>2, <1>3, StartFacts DEF Control, MutexHolder, PrepMode, FirstOrNot, Holding
  <2>2. LinkedWaits'
    BY <1>1, <1>2, <1>4, StartFacts DEF Control, LinkedWaits
  <2>3. FirstWaits'
    BY <1>1, <1>2, <1>8, StartFacts DEF Control, FirstWaits, TypeOK
  <2>4. LinkedOnce'
    <3>1. (\A j, k \in 1 .. Len(t) : t[j] = t[k] => j = k)
      BY <1>4 DEF Control, LinkedOnce
    <3>2. \A j \in 1 .. Len(q), k \in 1 .. Len(t) : q[j] # t[k]
      BY <1>4, <1>5 DEF Control, LinkedOnce
    <3> QED BY <1>1, <3>1, <3>2 DEF Control, LinkedOnce
  <2> QED BY <2>1, <2>2, <2>3, <2>4 DEF Control
<1>10. Arms'
  <2>1. prep'.flush = -1
    BY <1>1, StartFacts DEF NoPrep
  <2> QED BY <1>1, <1>2, <1>3, <2>1, StartArms
<1>11. Colors'
  <2>1. InFlightColor' /\ QueuedColor'
    BY <1>1, StartFacts DEF Colors, InFlightColor, QueuedColor
  <2>2. HolderColor'
    <3>1. first_flusher \in Flusher /\ first_flusher # f /\ flush_color' = flush_color
      BY <1>3, StartFacts DEF TypeOK
    <3>2. \A j, k \in 1 .. Len(q) :
            j <= k => Gap(flush_color, color'[q[j]]) <= Gap(flush_color, color'[q[k]])
      BY <1>2, <1>5 DEF Colors, HolderColor
    <3> QED BY <1>1, <1>2, <1>6, <1>7, <3>1, <3>2 DEF Colors, HolderColor
  <2>3. ClosedHeld'
    <3> SUFFICES ASSUME NEW c \in Color, Gap(flush_color, c) < Gap(flush_color, work_color)
                 PROVE  \E g \in Flusher : Holder(g)' /\ color'[g] = c
      BY <1>1, StartFacts DEF ClosedHeld
    <3>1. PICK g \in Flusher : Holder(g) /\ color[g] = c
      BY StartFacts DEF Colors, ClosedHeld, Holding
    <3> QED BY <1>2, <1>6, <1>7, <3>1
  <2>4. NoFlush'
    <3>1. \A g \in Flusher : fpc'[g] # "complete"
      BY <1>2, StartFacts DEF Holding
    <3>2. mutex' # first_flusher /\ flush_color' = flush_color
      BY StartFacts
    <3> QED BY <1>1, <1>3, <3>1, <3>2 DEF NoFlush
  <2> QED BY <2>1, <2>2, <2>3, <2>4 DEF Colors
<1>12. Debts'
  BY <1>2, <1>6, <1>7, StartDebts
<1>13. Drains'
  BY <1>2, StartFacts, ColorAssumption, DrainsFrame DEF Drains
<1>14. TypeOK'
  BY StartTypes
<1> QED BY <1>9, <1>10, <1>11, <1>12, <1>13, <1>14
-----------------------------------------------------------------------------
(* The cascade                                                             *)

(* In the cascade nobody is first flusher and no pwq is armed.             *)
LEMMA CascadeFacts ==
  ASSUME IInv, NEW f \in Flusher, fpc[f] \in {"complete", "hand_on"}
  PROVE  /\ mutex = f /\ f # None /\ prep = NoPrep /\ first_flusher = None /\ Cascade
         /\ \A g \in Flusher : g # f => fpc[g] \notin Holding
         /\ \A q \in Pwq : ~Armed(q)
         /\ (\A g \in Flusher : Holder(g) <=> In(flusher_queue, g))
         /\ ~In(flusher_queue, f) /\ ~In(flusher_overflow, f)
         /\ flush_color \in Color /\ work_color \in Color /\ flush_color >= 0 /\ work_color >= 0
         /\ \A c \in Color : Gap(flush_color, c) \in Color /\ Gap(flush_color, c) \in Int
                             /\ Gap(flush_color, c) >= 0 /\ (Gap(flush_color, c) = 0 <=> c = flush_color)
         /\ \A k \in 1 .. Len(flusher_queue) : flusher_queue[k] \in Flusher /\ Holder(flusher_queue[k])
         /\ flusher_queue \in Seq(Flusher) /\ flusher_overflow \in Seq(Flusher)
         /\ Len(flusher_queue) \in Nat
         /\ NoRepeat(flusher_queue)
<1> USE DEF IInv
<1>1. /\ mutex = f /\ f # None /\ prep = NoPrep
      /\ \A g \in Flusher : g # f => fpc[g] \notin Holding
  BY HolderFacts DEF Holding
<1>2. Cascade
  BY <1>1 DEF Cascade, HandsOn
<1>3. first_flusher = None
  BY <1>2 DEF Control, FirstWaits
<1>4. \A q \in Pwq : ~Armed(q)
  BY <1>3 DEF Arms, FirstFlusherWaits, Armed
<1>5. \A g \in Flusher : Holder(g) <=> In(flusher_queue, g)
  BY <1>3, ColorAssumption DEF Holder
<1>6. ~In(flusher_queue, f) /\ ~In(flusher_overflow, f)
  BY DEF Control, LinkedWaits
<1>7. flush_color \in Color /\ work_color \in Color /\ flush_color >= 0 /\ work_color >= 0
      /\ flusher_queue \in Seq(Flusher) /\ flusher_overflow \in Seq(Flusher)
  BY DEF TypeOK, Color
<1>8. \A c \in Color : Gap(flush_color, c) \in Color /\ (Gap(flush_color, c) = 0 <=> c = flush_color)
  BY <1>7, GapFacts
<1>9. \A c \in Color : c \in Int /\ c >= 0
  BY DEF Color
<1>10. \A k \in 1 .. Len(flusher_queue) : flusher_queue[k] \in Flusher /\ Holder(flusher_queue[k])
  BY <1>7, ElementOfSeq DEF Holder, In
<1>11. Len(flusher_queue) \in Nat /\ NoRepeat(flusher_queue)
  BY <1>7, LenProperties DEF Control, LinkedOnce, NoRepeat
<1> QED BY <1>1, <1>2, <1>3, <1>4, <1>5, <1>6, <1>7, <1>8, <1>9, <1>10, <1>11

(* The queue is empty: nobody is left to hand the role to.                 *)
LEMMA HandOnEnds ==
  ASSUME IInv, NEW f \in Flusher, HandOn(f), flusher_queue = <<>>
  PROVE  IInv'
<1> USE DEF IInv
<1>1. /\ UNCHANGED <<mutex, wqVars, pwqVars, color, done, next, prep, workVars, nr_drainers, owed>>
      /\ fpc' \in [Flusher -> Places] /\ \A g \in Flusher : g # f => fpc'[g] = fpc[g]
      /\ fpc[f] = "hand_on" /\ fpc'[f] = "unlock"
  BY DEF HandOn, TypeOK, Places, wqVars, pwqVars
<1>2. /\ mutex = f /\ f # None /\ prep = NoPrep /\ first_flusher = None
      /\ \A g \in Flusher : g # f => fpc[g] \notin Holding
      /\ \A q \in Pwq : ~Armed(q)
  BY <1>1, CascadeFacts
<1>3. flusher_overflow = <<>>
  BY <1>1, <1>2 DEF Control, FirstWaits, HandsOn
<1>4. work_color = flush_color
  <2>1. \A g \in Flusher : ~Holder(g)
    BY <1>1, CascadeFacts, EmptySeq DEF In
  <2>2. \A g \in Flusher : fpc[g] # "complete"
    BY <1>1, <1>2 DEF Holding
  <2>3. ~(Gap(flush_color, flush_color) < Gap(flush_color, work_color))
    BY <1>1, <2>1, <2>2, CascadeFacts DEF Colors, ClosedHeld
  <2>4. Gap(flush_color, flush_color) = 0 /\ Gap(flush_color, work_color) \in Nat
        /\ (Gap(flush_color, work_color) = 0 => work_color = flush_color)
    BY <1>1, CascadeFacts DEF Color
  <2> QED BY <2>3, <2>4
<1>5. TypeOK'
  BY <1>1 DEF TypeOK, Places, wqVars, pwqVars, workVars
<1>6. ~HandsOn' /\ ~Cascade'
  BY <1>1, <1>2 DEF HandsOn, Cascade
<1>7. Control'
  <2>1. MutexHolder' /\ PrepMode' /\ FirstOrNot' /\ LinkedOnce'
    BY <1>1, <1>2, ColorAssumption DEF Control, MutexHolder, PrepMode, FirstOrNot, LinkedOnce, Holding, wqVars
  <2>2. LinkedWaits'
    BY <1>1 DEF Control, LinkedWaits, wqVars
  <2>3. FirstWaits'
    BY <1>1, <1>2, <1>6 DEF Control, FirstWaits, wqVars, TypeOK
  <2> QED BY <2>1, <2>2, <2>3 DEF Control
<1>8. InFlight' = InFlight /\ UNCHANGED <<pwq, wcolor>>
  BY <1>1 DEF InFlight, workVars
<1>9. Arms'
  BY <1>1, <1>2, <1>8 DEF Arms, CountExact, FirstFlusherWaits, ArmedRight, OldArmed, Armed, Old, pwqVars, wqVars
<1>10. Colors'
  <2>1. ClosedHeld' /\ NoFlush'
    BY <1>1, <1>2, <1>3, <1>4 DEF Colors, ClosedHeld, NoFlush, Holder, wqVars
  <2>2. InFlightColor' /\ QueuedColor' /\ HolderColor'
    BY <1>1, <1>8 DEF Colors, InFlightColor, QueuedColor, HolderColor, Holder, wqVars, pwqVars
  <2> QED BY <2>1, <2>2 DEF Colors
<1>11. Debts'
  BY <1>1, <1>8, DebtsFrame DEF wqVars
<1>12. Drains'
  BY <1>1, ColorAssumption, DrainsFrame DEF Drains
<1> QED BY <1>5, <1>7, <1>9, <1>10, <1>11, <1>12

(* The head of the queue becomes the first flusher.                        *)
LEMMA HandOnNext ==
  ASSUME IInv, NEW f \in Flusher, HandOn(f), flusher_queue # <<>>
  PROVE  IInv'
<1> USE DEF IInv
<1> DEFINE s == flusher_queue
           t == flusher_queue'
           n == Head(flusher_queue)
<1>1. /\ UNCHANGED <<mutex, work_color, flush_color, flusher_overflow, pwq_work_color,
                     pwq_flush_color, color, done, next, workVars, nr_drainers, owed>>
      /\ fpc[f] = "hand_on" /\ fpc' = [fpc EXCEPT ![f] = "prep"]
      /\ flusher_queue' = Without(flusher_queue, next) /\ first_flusher' = next
      /\ prep' = [flush |-> flush_color, work |-> -1, todo |-> Pwq, wait |-> FALSE,
                  yes |-> "unlock", no |-> "again"]
      /\ (flush_color >= 0 => nr_pwqs_to_flush' = 1)
  BY DEF HandOn, StartPrep
<1>2. /\ mutex = f /\ f # None /\ prep = NoPrep /\ first_flusher = None
      /\ \A g \in Flusher : g # f => fpc[g] \notin Holding
      /\ \A q \in Pwq : ~Armed(q)
      /\ flush_color \in Color /\ work_color \in Color /\ flush_color >= 0
  BY <1>1, CascadeFacts
<1>3. flusher_overflow = <<>> /\ next = n
  BY <1>1, <1>2 DEF Control, FirstWaits, HandsOn
<1>4. fpc'[f] = "prep" /\ (\A g \in Flusher : g # f => fpc'[g] = fpc[g])
  BY <1>1 DEF TypeOK
<1>5. /\ n = s[1] /\ n \in Flusher /\ Len(s) \in Nat \ {0} /\ In(s, n)
      /\ t \in Seq(Flusher) /\ Len(t) = Len(s) - 1
      /\ \A k \in 1 .. Len(t) : t[k] = s[k + 1]
      /\ \A g : In(t, g) <=> In(s, g) /\ g # n
  <2>1. s \in Seq(Flusher) /\ NoRepeat(s) /\ s # <<>> /\ n = Head(s)
    BY <1>1, CascadeFacts
  <2>2. t = Without(s, n)
    BY <1>1, <1>3
  <2> HIDE DEF s, t, n
  <2>3. /\ n = s[1] /\ n \in Flusher /\ Len(s) \in Nat \ {0}
        /\ t \in Seq(Flusher) /\ Len(t) = Len(s) - 1
        /\ \A k \in 1 .. Len(t) : t[k] = s[k + 1]
        /\ \A g : In(t, g) <=> In(s, g) /\ g # n
    BY <2>1, <2>2, WithoutHead
  <2>4. In(s, n)
    BY <2>3 DEF In
  <2> QED BY <2>3, <2>4
<1>6. n # None /\ n # f /\ ~done[n] /\ fpc[n] \in {"wait", "prep", "unlock_wait"} /\ fpc'[n] = fpc[n]
  BY <1>1, <1>4, <1>5, ColorAssumption, CascadeFacts DEF Control, LinkedWaits
<1>7. \A g \in Flusher : Holder(g)' <=> Holder(g)
  BY <1>1, <1>3, <1>5, CascadeFacts DEF Holder
<1>8. Holder(n) /\ color[n] = flush_color
  <2>1. Holder(n)
    BY <1>5 DEF Holder
  <2>2. color[n] \in Color /\ Gap(flush_color, color[n]) < Gap(flush_color, work_color)
    BY <1>5, <2>1 DEF Colors, HolderColor
  <2>3. \A c \in Color : Gap(flush_color, c) \in Nat /\ (Gap(flush_color, c) = 0 <=> c = flush_color)
    BY <1>1, CascadeFacts DEF Color
  <2>4. Gap(flush_color, flush_color) < Gap(flush_color, work_color)
    BY <1>2, <2>2, <2>3
  <2>5. PICK g \in Flusher : Holder(g) /\ color[g] = flush_color
    BY <1>1, <1>2, <2>4 DEF Colors, ClosedHeld, Holding
  <2>6. In(s, g)
    BY <1>1, <2>5, CascadeFacts
  <2>7. PICK k \in 1 .. Len(s) : s[k] = g
    BY <2>6 DEF In
  <2>8. Gap(flush_color, color[s[1]]) <= Gap(flush_color, color[s[k]])
    BY <1>5, <2>7 DEF Colors, HolderColor
  <2> QED BY <1>2, <1>5, <2>1, <2>2, <2>3, <2>5, <2>7, <2>8
<1>9. TypeOK'
  <2>1. prep' \in [flush : Color \cup {-1}, work : Color \cup {-1}, todo : SUBSET Pwq,
                   wait : BOOLEAN, yes : PrepGoto, no : PrepGoto]
    BY <1>1, <1>2 DEF PrepGoto
  <2>2. flusher_queue' \in Seq(Flusher) /\ first_flusher' \in Flusher /\ nr_pwqs_to_flush' \in Nat
    BY <1>1, <1>2, <1>3, <1>5
  <2>3. fpc' \in [Flusher -> Places]
    BY <1>1 DEF TypeOK, Places
  <2> QED BY <1>1, <2>1, <2>2, <2>3 DEF TypeOK, Places, workVars
<1>10. ~HandsOn' /\ ~Cascade'
  BY <1>1, <1>2, <1>4 DEF HandsOn, Cascade
<1>11. Control'
  <2>1. MutexHolder' /\ PrepMode' /\ FirstOrNot'
    BY <1>1, <1>2, <1>3, <1>4, <1>6 DEF Control, MutexHolder, PrepMode, FirstOrNot, Holding
  <2>2. LinkedWaits'
    <3>1. ~In(s, f) /\ \A g : ~In(flusher_overflow, g)
      BY <1>1, <1>3, CascadeFacts, EmptySeq DEF In
    <3>2. \A g \in Flusher : In(s, g) => fpc[g] # "prep"
      BY <1>2, <3>1 DEF Holding
    <3> QED BY <1>1, <1>3, <1>4, <1>5, <3>1, <3>2 DEF Control, LinkedWaits
  <2>3. FirstWaits'
    BY <1>1, <1>3, <1>4, <1>6, <1>10 DEF Control, FirstWaits, TypeOK
  <2>4. LinkedOnce'
    <3>1. \A j, k \in 1 .. Len(t) : t[j] = t[k] => j = k
      BY <1>5 DEF Control, LinkedOnce
    <3> QED BY <1>1, <1>3, <3>1, EmptySeq DEF LinkedOnce
  <2> QED BY <2>1, <2>2, <2>3, <2>4 DEF Control
<1>12. InFlight' = InFlight /\ UNCHANGED <<pwq, wcolor>>
  BY <1>1 DEF InFlight, workVars
<1>13. Arms'
  <2>1. \A q \in Pwq : ~Armed(q)'
    BY <1>1, <1>2 DEF Armed
  <2>2. CountExact'
    <3>1. Cardinality(ArmedPwqs') = 0
      BY <2>1, ArmedCountNext
    <3> QED BY <1>1, <1>2, <3>1 DEF CountExact, ArmedPwqs
  <2>3. FirstFlusherWaits'
    BY <1>1, <1>3, <1>6 DEF FirstFlusherWaits
  <2>4. \A g \in Flusher : fpc'[g] \notin {"again", "nothing", "complete"}
    BY <1>2, <1>4 DEF Holding
  <2>5. ArmedRight'
    BY <1>1, <2>1, <2>4 DEF ArmedRight
  <2>6. OldArmed'
    <3>1. \A x \in Work : Old(x)' => pwq'[x] \in Pwq
      BY <1>12 DEF Old, Colors, InFlightColor
    <3> QED BY <1>1, <1>2, <2>4, <3>1 DEF OldArmed
  <2> QED BY <2>2, <2>3, <2>5, <2>6 DEF Arms
<1>14. Colors'
  <2>1. InFlightColor'
    BY <1>1, <1>12 DEF Colors, InFlightColor
  <2>2. QueuedColor'
    BY <1>1, <1>2 DEF Colors, QueuedColor, NoPrep
  <2>3. HolderColor'
    <3>1. \A j, k \in 1 .. Len(t) : j <= k => Gap(flush_color, color[t[j]]) <= Gap(flush_color, color[t[k]])
      <4>1. \A j \in 1 .. Len(t) : j + 1 \in 1 .. Len(s) /\ t[j] = s[j + 1]
        BY <1>5
      <4>2. \A j, k \in 1 .. Len(t) : j <= k => j + 1 <= k + 1
        BY <1>5
      <4> QED BY <4>1, <4>2 DEF Colors, HolderColor
    <3> QED BY <1>1, <1>3, <1>7, <1>8, <3>1 DEF Colors, HolderColor
  <2>4. ClosedHeld'
    BY <1>1, <1>2, <1>7 DEF Colors, ClosedHeld, Holding
  <2>5. NoFlush'
    <3>1. \A g \in Flusher : fpc'[g] # "complete"
      BY <1>2, <1>4 DEF Holding
    <3> QED BY <1>1, <1>2, <1>3, <1>6, <3>1 DEF NoFlush
  <2> QED BY <2>1, <2>2, <2>3, <2>4, <2>5 DEF Colors
<1>15. Debts'
  BY <1>1, <1>7, <1>12 DEF Debts, OwedRight, FlushedAll
<1>16. Drains'
  BY <1>1, <1>4, ColorAssumption, DrainsFrame DEF Drains
<1> QED BY <1>9, <1>11, <1>13, <1>14, <1>15, <1>16

(* The flushers of flush_color, which lead the queue, are completed, and   *)
(* the queue goes on with the overflow list.                               *)
LEMMA CompleteColorStep ==
  ASSUME IInv, NEW f \in Flusher, CompleteColor(f)
  PROVE  IInv'
<1> USE DEF IInv
<1> DEFINE s == flusher_queue
           o == flusher_overflow
           t == flusher_queue'
           gap(c) == Gap(flush_color, c)
           gapn(c) == Gap(Succ(flush_color), c)
<1>1. fpc[f] = "complete"
  BY DEF CompleteColor
<1>2. /\ mutex = f /\ f # None /\ prep = NoPrep /\ first_flusher = None /\ Cascade
      /\ (\A g \in Flusher : g # f => fpc[g] \notin Holding)
      /\ (\A q \in Pwq : ~Armed(q)) /\ (\A x \in Work : ~Old(x))
      /\ ~In(s, f) /\ ~In(o, f)
  BY <1>1, CascadeFacts DEF Arms, OldArmed
<1>3. /\ s \in Seq(Flusher) /\ o \in Seq(Flusher) /\ NoRepeat(s)
      /\ Len(s) \in Nat /\ Len(o) \in Nat /\ (o # <<>> <=> Len(o) > 0)
      /\ \A k \in 1 .. Len(s) : s[k] \in Flusher /\ Holder(s[k])
      /\ \A k \in 1 .. Len(o) : o[k] \in Flusher
      /\ \A g \in Flusher : Holder(g) <=> In(s, g)
  BY <1>1, CascadeFacts, LenProperties, ElementOfSeq, EmptySeq
<1>4. /\ flush_color \in Color /\ work_color \in Color
      /\ work_next_color(flush_color) = Succ(flush_color) /\ Succ(flush_color) \in Color
      /\ work_next_color(work_color) = Succ(work_color) /\ Succ(work_color) \in Color
  BY <1>1, CascadeFacts, SuccIs
<1>5. PICK n \in 0 .. Len(s) :
        /\ SameColor(n)
        /\ done' = [g \in Flusher |-> done[g] \/ \E k \in 1 .. n : s[k] = g]
        /\ next' = IF SubSeq(s, n + 1, Len(s)) = <<>> THEN None ELSE Head(SubSeq(s, n + 1, Len(s)))
        /\ t = SubSeq(s, n + 1, Len(s)) \o o
  BY DEF CompleteColor
<1>6. /\ UNCHANGED <<mutex, first_flusher, pwq_work_color, pwq_flush_color, workVars, nr_drainers, owed>>
      /\ flush_color' = Succ(flush_color) /\ flusher_overflow' = <<>>
      /\ color' = [g \in Flusher |-> IF In(o, g) THEN work_color ELSE color[g]]
  BY <1>4 DEF CompleteColor
<1>7. /\ o # <<>> => /\ work_color' = Succ(work_color) /\ fpc' = [fpc EXCEPT ![f] = "prep"]
                     /\ prep' = [flush |-> -1, work |-> Succ(work_color), todo |-> Pwq, wait |-> FALSE,
                                 yes |-> "hand_on", no |-> "hand_on"]
                     /\ UNCHANGED nr_pwqs_to_flush
      /\ o = <<>> => fpc' = [fpc EXCEPT ![f] = "hand_on"] /\ UNCHANGED <<work_color, prep, nr_pwqs_to_flush>>
  BY <1>4 DEF CompleteColor, StartPrep
<1>8. fpc'[f] = (IF o = <<>> THEN "hand_on" ELSE "prep") /\ (\A g \in Flusher : g # f => fpc'[g] = fpc[g])
  BY <1>7 DEF TypeOK
<1>9. /\ t \in Seq(Flusher) /\ Len(t) = Len(s) - n + Len(o) /\ n \in Nat
      /\ next' = IF n = Len(s) THEN None ELSE s[n + 1]
      /\ \A k \in 1 .. Len(t) : t[k] = IF k <= Len(s) - n THEN s[k + n] ELSE o[k - (Len(s) - n)]
      /\ \A g : In(t, g) <=> (\E k \in n + 1 .. Len(s) : s[k] = g) \/ In(o, g)
  <2> DEFINE r == SubSeq(s, n + 1, Len(s))
  <2>1. t = r \o o /\ next' = (IF r = <<>> THEN None ELSE Head(r)) /\ n \in Nat
        /\ r = SubSeq(s, n + 1, Len(s))
    BY <1>5
  <2> HIDE DEF s, o, t, r
  <2>2. Spliced(Flusher, s, o, n, r, t)
    BY <1>3, <2>1, SpliceFacts
  <2>3. next' = IF n = Len(s) THEN None ELSE s[n + 1]
    BY <1>3, <2>1, <2>2 DEF Spliced
  <2> QED BY <2>1, <2>2, <2>3 DEF Spliced
<1> HIDE DEF t
(* The arithmetic of the colours.                                          *)
<1>10. /\ \A c \in Color : gap(c) \in Int /\ gap(c) >= 0 /\ gap(c) <= NrColors - 1 /\ (gap(c) = 0 <=> c = flush_color)
       /\ \A c \in Color : c # flush_color => gapn(c) = gap(c) - 1
       /\ gapn(flush_color) = NrColors - 1
       /\ \A c, d \in Color : gap(c) = gap(d) => c = d
       /\ Succ(flush_color) # flush_color /\ gap(Succ(flush_color)) = 1
  <2>1. \A c \in Color : gap(c) \in Color /\ (gap(c) = 0 <=> c = flush_color)
    BY <1>4, GapFacts
  <2>2. \A c \in Color : c # flush_color => gapn(c) = gap(c) - 1
    BY <1>4, GapFacts
  <2>3. \A c, d \in Color : gap(c) = gap(d) => c = d
    BY <1>4, GapFacts
  <2>4. gapn(flush_color) = NrColors - 1 /\ Succ(flush_color) # flush_color /\ gap(Succ(flush_color)) = 1
    BY <1>4, ColorAssumption DEF Gap, Succ, Color
  <2>5. NrColors \in Int
    BY ColorAssumption
  <2> HIDE DEF gap, gapn
  <2> QED BY <2>1, <2>2, <2>3, <2>4, <2>5 DEF Color
<1>11. work_color # flush_color
  BY <1>1 DEF Colors, NoFlush
<1>12. o # <<>> => Succ(work_color) = flush_color /\ gap(work_color) = NrColors - 1
  <2>1. o # <<>> => Succ(work_color) = flush_color
    BY DEF Colors, NoFlush
  <2> QED BY <1>4, <2>1, GapFacts
<1>13. /\ work_color' \in Color
       /\ gapn(work_color') = IF o = <<>> THEN gap(work_color) - 1 ELSE NrColors - 1
  <2> HIDE DEF gap, gapn
  <2> QED BY <1>4, <1>7, <1>10, <1>11, <1>12
<1> HIDE DEF gap, gapn
<1>14. /\ \A k \in 1 .. n : color[s[k]] = flush_color
       /\ \A k \in n + 1 .. Len(s) : color[s[k]] # flush_color
  <2>1. (\A k \in 1 .. n : color[s[k]] = flush_color)
        /\ (n < Len(s) => color[s[n + 1]] # flush_color)
    BY <1>5 DEF SameColor
  <2>2. ASSUME NEW k \in n + 1 .. Len(s) PROVE color[s[k]] # flush_color
    <3>1. n + 1 \in 1 .. Len(s) /\ k \in 1 .. Len(s) /\ n + 1 <= k /\ n < Len(s)
      BY <1>3, <1>9
    <3>2. gap(color[s[n + 1]]) <= gap(color[s[k]])
      BY <3>1 DEF Colors, HolderColor, gap
    <3>3. color[s[n + 1]] \in Color /\ color[s[k]] \in Color
      BY <1>3, <3>1 DEF Colors, HolderColor
    <3> QED BY <1>10, <2>1, <3>1, <3>2, <3>3
  <2> QED BY <2>1, <2>2
<1>15. \A k \in 1 .. Len(s) : /\ color[s[k]] \in Color /\ gap(color[s[k]]) < gap(work_color)
                              /\ color'[s[k]] = color[s[k]]
  <2>1. \A k \in 1 .. Len(s) : color[s[k]] \in Color /\ gap(color[s[k]]) < gap(work_color)
    BY <1>3 DEF Colors, HolderColor, gap
  <2>2. \A k \in 1 .. Len(s) : ~In(o, s[k])
    BY DEF Control, LinkedOnce, In
  <2> QED BY <1>3, <1>6, <2>1, <2>2
<1>16. \A k \in 1 .. Len(o) : color'[o[k]] = work_color
  BY <1>3, <1>6 DEF In
<1>17. ASSUME NEW c \in Color, c # flush_color, gap(c) < gap(work_color)
       PROVE  \E k \in n + 1 .. Len(s) : color[s[k]] = c
  <2>1. PICK g \in Flusher : Holder(g) /\ color[g] = c
    BY <1>17 DEF Colors, ClosedHeld, gap
  <2>2. PICK k \in 1 .. Len(s) : s[k] = g
    BY <1>3, <2>1 DEF In
  <2>3. ~(k \in 1 .. n)
    BY <1>14, <1>17, <2>1, <2>2
  <2> QED BY <1>3, <1>9, <2>1, <2>2, <2>3
<1>18. o # <<>> => n < Len(s)
  <2> SUFFICES ASSUME o # <<>> PROVE n < Len(s)
    OBVIOUS
  <2>1. gap(Succ(flush_color)) < gap(work_color)
    BY <1>10, <1>12, ColorAssumption
  <2>2. \E k \in n + 1 .. Len(s) : color[s[k]] = Succ(flush_color)
    BY <1>4, <1>10, <1>17, <2>1
  <2> QED BY <1>3, <1>9, <2>2
<1>19. TypeOK'
  <2>1. next' \in Flusher \cup {None}
    BY <1>3, <1>9
  <2>2. done' \in [Flusher -> BOOLEAN] /\ color' \in [Flusher -> Color \cup {-1}]
    BY <1>4, <1>5, <1>6 DEF TypeOK
  <2>3. fpc' \in [Flusher -> Places]
    BY <1>7 DEF TypeOK, Places
  <2>4. prep' \in [flush : Color \cup {-1}, work : Color \cup {-1}, todo : SUBSET Pwq,
                   wait : BOOLEAN, yes : PrepGoto, no : PrepGoto]
    <3>1. CASE o = <<>>
      BY <1>7, <3>1 DEF TypeOK
    <3>2. CASE o # <<>>
      <4>1. [flush |-> -1, work |-> Succ(work_color), todo |-> Pwq, wait |-> FALSE,
             yes |-> "hand_on", no |-> "hand_on"]
              \in [flush : Color \cup {-1}, work : Color \cup {-1}, todo : SUBSET Pwq,
                   wait : BOOLEAN, yes : PrepGoto, no : PrepGoto]
        BY <1>4 DEF PrepGoto
      <4> QED BY <1>7, <3>2, <4>1
    <3> QED BY <3>1, <3>2
  <2>5. nr_pwqs_to_flush' \in Nat /\ flusher_overflow' \in Seq(Flusher)
    BY <1>6, <1>7, EmptySeq DEF TypeOK
  <2> QED BY <1>4, <1>6, <1>9, <1>13, <2>1, <2>2, <2>3, <2>4, <2>5 DEF TypeOK, Places, workVars, t
<1>20. first_flusher' = None /\ ~(fpc'[f] = "complete") /\ (\A g \in Flusher : fpc'[g] # "complete")
       /\ Cascade' /\ HandsOn' /\ mutex' = f
  BY <1>2, <1>6, <1>7, <1>8 DEF Cascade, HandsOn, Holding
<1>21. Control'
  <2>1. MutexHolder' /\ FirstOrNot'
    BY <1>2, <1>6, <1>8, <1>20 DEF Control, MutexHolder, FirstOrNot, Holding
  <2>2. PrepMode'
    BY <1>2, <1>6, <1>7, <1>8, <1>20 DEF PrepMode, Holding
  <2>3. LinkedWaits'
    <3> SUFFICES ASSUME NEW g \in Flusher, In(t, g)
                 PROVE  fpc'[g] \in {"wait", "prep", "unlock_wait"} /\ ~done'[g] /\ fpc'[g] # "prep"
      BY <1>6, <1>20, EmptySeq, ColorAssumption DEF LinkedWaits, In, t
    <3>1. In(s, g) \/ In(o, g)
      BY SMTT(30), <1>3, <1>9 DEF In
    <3>2. g # f /\ fpc'[g] = fpc[g] /\ ~done[g] /\ fpc[g] \in {"wait", "prep", "unlock_wait"} /\ fpc[g] # "prep"
      BY <1>2, <1>8, <3>1 DEF Control, LinkedWaits, Holding
    <3>3. ~\E k \in 1 .. n : s[k] = g
      <4>1. CASE \E k \in n + 1 .. Len(s) : s[k] = g
        BY SMTT(30), <1>3, <1>9, <4>1 DEF NoRepeat
      <4>2. CASE In(o, g)
        BY <1>3, <1>9, <4>2 DEF Control, LinkedOnce, In
      <4> QED BY <1>9, <4>1, <4>2
    <3> QED BY <1>5, <3>2, <3>3
  <2>4. FirstWaits'
    <3>1. next' = IF t = <<>> THEN None ELSE Head(t)
      <4>1. CASE n = Len(s)
        <5>1. Len(t) = 0
          BY <1>3, <1>9, <1>18, <4>1
        <5> QED BY <1>9, <4>1, <5>1, EmptySeq
      <4>2. CASE n < Len(s)
        <5>1. /\ Len(s) \in Nat /\ Len(o) \in Nat /\ n \in Nat
              /\ 1 <= Len(s) - n /\ 1 + n = n + 1
          BY <1>3, <1>9, <4>2, LenProperties
        <5>2. Len(t) > 0 /\ t[1] = s[n + 1]
          <6>1. Len(t) \in Nat /\ Len(t) > 0 /\ 1 \in 1 .. Len(t)
            BY <1>9, <5>1
          <6>2. t[1] = s[1 + n]
            BY <1>9, <5>1, <6>1
          <6> QED BY <5>1, <6>1, <6>2
        <5>3. t # <<>> /\ Head(t) = t[1]
          BY <1>9, <5>2, EmptySeq
        <5> QED BY <1>9, <4>2, <5>2, <5>3
      <4> QED BY <1>3, <1>9, <4>1, <4>2
    <3>2. \A g \in Flusher : fpc'[g] = "relock" => done'[g]
      BY <1>5, <1>8 DEF Control, FirstWaits
    <3> QED BY <1>6, <1>20, <3>1, <3>2 DEF FirstWaits, t
  <2>5. LinkedOnce'
    <3>1. \A j, k \in 1 .. Len(o) : o[j] = o[k] => j = k
      BY DEF Control, LinkedOnce
    <3>2. \A j \in 1 .. Len(s), k \in 1 .. Len(o) : s[j] # o[k]
      BY DEF Control, LinkedOnce
    <3> SUFFICES ASSUME NEW j \in 1 .. Len(t), NEW k \in 1 .. Len(t), t[j] = t[k] PROVE j = k
      BY <1>6, EmptySeq DEF LinkedOnce, t
    <3> DEFINE m == Len(s) - n
               l == Len(o)
    <3>3. m \in Nat /\ l \in Nat /\ n \in Nat /\ Len(s) = m + n /\ Len(t) = m + l
      BY <1>3, <1>9
    <3>4. \A i \in 1 .. m + l : t[i] = IF i <= m THEN s[i + n] ELSE o[i - m]
      BY <1>9, <3>3
    <3> HIDE DEF m, s, o
    <3>5. CASE j <= m /\ k <= m
      <4>1. s[j + n] = s[k + n] /\ j + n \in 1 .. m + n /\ k + n \in 1 .. m + n
        BY <3>3, <3>4, <3>5
      <4> DEFINE jj == j + n
                 kk == k + n
      <4>2. jj = kk
        <5> HIDE DEF jj, kk
        <5> QED BY <1>3, <3>3, <4>1 DEF NoRepeat, jj, kk
      <4> QED BY <3>3, <4>2
    <3>6. CASE j > m /\ k > m
      <4> DEFINE jj == j - m
                 kk == k - m
      <4>1. o[jj] = o[kk] /\ jj \in 1 .. l /\ kk \in 1 .. l
        BY <3>3, <3>4, <3>6
      <4>2. jj = kk
        <5> HIDE DEF jj, kk
        <5> QED BY <3>1, <4>1
      <4> QED BY <3>3, <4>2
    <3>7. CASE (j <= m /\ k > m) \/ (j > m /\ k <= m)
      <4>1. CASE j <= m /\ k > m
        <5>1. s[j + n] = o[k - m] /\ j + n \in 1 .. Len(s) /\ k - m \in 1 .. Len(o)
          BY <3>3, <3>4, <4>1
        <5> QED BY <3>2, <5>1
      <4>2. CASE j > m /\ k <= m
        <5>1. o[j - m] = s[k + n] /\ j - m \in 1 .. Len(o) /\ k + n \in 1 .. Len(s)
          BY <3>3, <3>4, <4>2
        <5> QED BY <3>2, <5>1
      <4> QED BY <3>7, <4>1, <4>2
    <3> QED BY <3>3, <3>5, <3>6, <3>7
  <2> QED BY <2>1, <2>2, <2>3, <2>4, <2>5 DEF Control
<1>22. InFlight' = InFlight /\ UNCHANGED <<pwq, wcolor>>
  BY <1>6 DEF InFlight, workVars
<1>23. prep'.flush = -1
  BY <1>2, <1>7 DEF NoPrep
<1>24. Arms'
  <2>1. \A q \in Pwq : ~Armed(q)'
    BY <1>2, <1>6 DEF Armed
  <2>2. CountExact'
    BY <1>2, <1>6, <1>7, <1>23 DEF Arms, CountExact, NoPrep
  <2>3. \A g \in Flusher : fpc'[g] \notin {"again", "nothing", "complete"}
    BY <1>2, <1>8 DEF Holding
  <2> QED BY <1>20, <1>23, <2>1, <2>2, <2>3 DEF Arms, FirstFlusherWaits, ArmedRight, OldArmed, Armed
<1>25. \A x \in Work : x \in InFlight =>
         /\ wcolor[x] \in Color /\ wcolor[x] # flush_color /\ pwq[x] \in Pwq
         /\ gap(wcolor[x]) <= gap(work_color)
  BY <1>2 DEF Colors, InFlightColor, Old, gap
<1>26. Colors'
  <2>1. InFlightColor'
    <3>1. \A x \in Work : x \in InFlight => gapn(wcolor[x]) <= gapn(work_color')
      BY <1>4, <1>10, <1>12, <1>13, <1>25
    <3> QED BY <1>6, <1>22, <1>25, <3>1 DEF InFlightColor, gapn
  <2>2. QueuedColor'
    <3>1. CASE o = <<>>
      BY <1>2, <1>6, <1>7, <3>1 DEF Colors, QueuedColor
    <3>2. CASE o # <<>>
      BY <1>4, <1>7, <3>2 DEF QueuedColor, Color
    <3> QED BY <3>1, <3>2
  <2>3. \A g \in Flusher : Holder(g)' <=> In(t, g)
    BY <1>20, ColorAssumption DEF Holder, t
  <2>4. \A k \in 1 .. Len(t) :
          /\ color'[t[k]] \in Color /\ gapn(color'[t[k]]) < gapn(work_color')
          /\ gapn(color'[t[k]]) = gap(color'[t[k]]) - 1
          /\ k > Len(s) - n => color'[t[k]] = work_color
          /\ k <= Len(s) - n => k + n \in n + 1 .. Len(s) /\ t[k] = s[k + n] /\ color'[t[k]] = color[s[k + n]]
    <3> SUFFICES ASSUME NEW k \in 1 .. Len(t)
                 PROVE  /\ color'[t[k]] \in Color /\ gapn(color'[t[k]]) < gapn(work_color')
                        /\ gapn(color'[t[k]]) = gap(color'[t[k]]) - 1
                        /\ k > Len(s) - n => color'[t[k]] = work_color
                        /\ k <= Len(s) - n => k + n \in n + 1 .. Len(s) /\ t[k] = s[k + n]
                                              /\ color'[t[k]] = color[s[k + n]]
      OBVIOUS
    <3>1. CASE k <= Len(s) - n
      <4> DEFINE i == k + n
      <4>1. i \in n + 1 .. Len(s) /\ i \in 1 .. Len(s) /\ t[k] = s[i]
        BY <1>3, <1>9, <3>1
      <4> HIDE DEF i
      <4>2. color'[t[k]] = color[s[i]] /\ color[s[i]] \in Color /\ color[s[i]] # flush_color
            /\ gap(color[s[i]]) < gap(work_color)
        BY <1>14, <1>15, <4>1
      <4>3. gapn(color[s[i]]) = gap(color[s[i]]) - 1 /\ gapn(color[s[i]]) < gapn(work_color')
        BY <1>4, <1>10, <1>12, <1>13, <4>2
      <4> QED BY <1>3, <1>9, <3>1, <4>1, <4>2, <4>3 DEF i
    <3>2. CASE k > Len(s) - n
      <4> DEFINE i == k - (Len(s) - n)
      <4>1. i \in 1 .. Len(o) /\ t[k] = o[i] /\ Len(o) > 0
        BY <1>3, <1>9, <3>2
      <4> HIDE DEF i
      <4>2. color'[t[k]] = work_color
        BY <1>16, <4>1
      <4>3. gapn(work_color) = gap(work_color) - 1 /\ gapn(work_color) < gapn(work_color')
        BY <1>3, <1>4, <1>10, <1>11, <1>12, <1>13, <4>1
      <4> QED BY <1>3, <1>4, <1>9, <3>2, <4>2, <4>3
    <3> QED BY <1>3, <1>9, <3>1, <3>2
  <2>5. HolderColor'
    <3>1. ASSUME NEW g \in Flusher, In(t, g)
          PROVE  color'[g] \in Color /\ gapn(color'[g]) < gapn(work_color')
      BY <2>4, <3>1 DEF In
    <3>2. ASSUME NEW j \in 1 .. Len(t), NEW k \in 1 .. Len(t), j <= k
          PROVE  gapn(color'[t[j]]) <= gapn(color'[t[k]])
      <4>1. CASE k <= Len(s) - n
        <5>1. j <= Len(s) - n /\ j + n <= k + n /\ j + n \in 1 .. Len(s) /\ k + n \in 1 .. Len(s)
          BY <1>3, <1>9, <3>2, <4>1
        <5>2. gap(color[s[j + n]]) <= gap(color[s[k + n]])
          BY <5>1 DEF Colors, HolderColor, gap
        <5> QED BY <1>10, <2>4, <4>1, <5>1, <5>2
      <4>2. CASE k > Len(s) - n /\ j > Len(s) - n
        BY <1>4, <1>10, <2>4, <4>2
      <4>3. CASE k > Len(s) - n /\ j <= Len(s) - n
        <5>1. color'[t[k]] = work_color /\ color'[t[j]] = color[s[j + n]] /\ j + n \in 1 .. Len(s)
          <6>1. color'[t[k]] = work_color
            BY <2>4, <4>3
          <6>2. color'[t[j]] = color[s[j + n]] /\ j + n \in n + 1 .. Len(s)
            BY <2>4, <4>3
          <6> QED BY <1>3, <1>9, <6>1, <6>2
        <5> QED BY <1>4, <1>10, <1>15, <2>4, <5>1
      <4> QED BY <1>3, <1>9, <4>1, <4>2, <4>3
    <3> QED BY <1>6, <1>20, <2>3, <3>1, <3>2 DEF HolderColor, gapn, t
  <2>6. ClosedHeld'
    <3> SUFFICES ASSUME NEW c \in Color, gapn(c) < gapn(work_color')
                 PROVE  \E g \in Flusher : In(t, g) /\ color'[g] = c
      BY <1>6, <2>3 DEF ClosedHeld, gapn
    <3>1. c # flush_color /\ gapn(c) = gap(c) - 1
      BY <1>4, <1>10, <1>12, <1>13, ColorAssumption
    <3>2. CASE c = work_color
      <4>1. o # <<>>
        BY <1>4, <1>10, <1>13, <3>1, <3>2
      <4>2. 1 \in 1 .. Len(o) /\ o[1] \in Flusher /\ In(o, o[1])
        BY <1>3, <4>1 DEF In
      <4> QED BY <1>9, <1>16, <3>2, <4>2
    <3>3. CASE c # work_color
      <4>1. gap(c) < gap(work_color)
        BY <1>4, <1>10, <1>12, <1>13, <3>1, <3>3
      <4>2. PICK k \in n + 1 .. Len(s) : color[s[k]] = c
        BY <1>17, <3>1, <4>1
      <4>3. k \in 1 .. Len(s)
        BY <1>3, <1>9
      <4>4. In(t, s[k])
        BY <1>9
      <4> QED BY <1>3, <1>15, <4>2, <4>3, <4>4
    <3> QED BY <3>2, <3>3
  <2>7. NoFlush'
    BY <1>6, <1>20 DEF NoFlush
  <2> QED BY <2>1, <2>2, <2>5, <2>6, <2>7 DEF Colors
<1>27. Debts'
  <2>1. OwedRight'
    <3> SUFFICES ASSUME NEW g \in Flusher, In(t, g), NEW x \in owed[g]
                 PROVE  gapn(wcolor[x]) <= gapn(color'[g])
      <4>1. \A g \in Flusher : Holder(g)' <=> In(t, g)
        BY <1>20, ColorAssumption DEF Holder, t
      <4> QED BY <1>6, <1>22, <4>1 DEF Debts, OwedRight, gapn
    <3>1. x \in Work /\ x \in InFlight
      BY DEF Debts, OwedRight, InFlight
    <3>2. gapn(wcolor[x]) = gap(wcolor[x]) - 1 /\ wcolor[x] \in Color /\ gap(wcolor[x]) <= gap(work_color)
      BY <1>10, <1>25, <3>1
    <3>3. CASE In(o, g)
      <4>1. color'[g] = work_color
        BY <1>6, <3>3
      <4> QED BY <1>4, <1>10, <1>11, <3>2, <4>1
    <3>4. CASE ~In(o, g)
      <4>1. PICK k \in n + 1 .. Len(s) : s[k] = g
        BY <1>9, <3>4
      <4>2. k \in 1 .. Len(s)
        BY <1>3, <1>9
      <4>3. color'[g] = color[g] /\ color[g] \in Color /\ color[g] # flush_color /\ Holder(g)
        BY <1>3, <1>14, <1>15, <4>1, <4>2
      <4>4. gap(wcolor[x]) <= gap(color[g])
        BY <4>3 DEF Debts, OwedRight, gap
      <4> QED BY <1>10, <3>2, <4>3, <4>4
    <3> QED BY <3>3, <3>4
  <2>2. FlushedAll'
    <3> SUFFICES ASSUME NEW g \in Flusher, done'[g], NEW x \in owed[g] PROVE FALSE
      BY <1>6 DEF FlushedAll
    <3>1. PICK k \in 1 .. n : s[k] = g
      BY <1>5 DEF Debts, FlushedAll
    <3>2. k \in 1 .. Len(s) /\ Holder(g) /\ color[g] = flush_color
      BY <1>3, <1>9, <1>14, <3>1
    <3>3. x \in Work /\ x \in InFlight /\ gap(wcolor[x]) <= gap(color[g])
      BY <3>2 DEF Debts, OwedRight, InFlight, gap
    <3> QED BY <1>4, <1>10, <1>25, <3>2, <3>3
  <2> QED BY <2>1, <2>2 DEF Debts
<1>28. Drains'
  <2>1. fpc'[f] \notin {"idle", "drain_check"} /\ nr_drainers' = nr_drainers
    BY <1>6, <1>8
  <2> QED BY <1>1, <1>8, <2>1, ColorAssumption, DrainsFrame DEF Drains
<1> QED BY <1>19, <1>21, <1>24, <1>26, <1>27, <1>28
-----------------------------------------------------------------------------
(* The theorems                                                            *)

(* flush_workqueue() with the mutex: the colours are used up, or the       *)
(* flusher is the first, or it queues behind the first.                    *)
LEMMA StartStep ==
  ASSUME IInv, NEW f \in Flusher, Start(f)
  PROVE  IInv'
<1>1. CASE Succ(work_color) = flush_color
  BY <1>1, StartOverflows
<1>2. CASE Succ(work_color) # flush_color /\ first_flusher = None
  BY <1>2, StartFirst
<1>3. CASE Succ(work_color) # flush_color /\ first_flusher # None
  BY <1>3, StartQueues
<1> QED BY <1>1, <1>2, <1>3

(* A step that changes nothing.                                            *)
LEMMA StutterStep == IInv /\ UNCHANGED vars => IInv'
<1> SUFFICES ASSUME IInv, UNCHANGED vars PROVE IInv'
  OBVIOUS
<1> USE DEF IInv
<1>1. /\ UNCHANGED <<mutex, wqVars, pwqVars, flushVars, workVars, nr_drainers, owed>>
      /\ InFlight' = InFlight
  BY DEF vars, InFlight, workVars
<1>2. TypeOK'
  BY <1>1 DEF TypeOK, wqVars, pwqVars, flushVars, workVars
<1> QED BY <1>1, <1>2, ControlFrame, ArmsFrame, ColorsFrame, DebtsFrame, DrainsKept
        DEF wqVars, pwqVars, flushVars, workVars

(* Every step keeps the invariant.                                         *)
LEMMA NextIInv == IInv /\ [Next]_vars => IInv'
<1> SUFFICES ASSUME IInv, Next PROVE IInv'
  BY StutterStep
<1>1. ASSUME NEW x \in Work, (\E chained \in BOOLEAN : QueueWork(x, chained)) \/ WorkStep(x) PROVE IInv'
  BY <1>1, StageStep, QueueStep, ReturnStep DEF WorkStep
<1>2. ASSUME NEW f \in Flusher, Call(f) PROVE IInv'
  BY <1>2, OutsideStep
<1>3. ASSUME NEW f \in Flusher, FlusherStep(f) PROVE IInv'
  <2>1. CASE Start(f)
    BY <2>1, StartStep
  <2>2. CASE (\E q \in Pwq : PrepPwq(f, q)) \/ PrepEnd(f)
    BY <2>2, PrepPwqStep, PrepEndStep
  <2>3. CASE Nothing(f)
    BY <2>3, NothingStep
  <2>4. CASE UnlockWait(f) \/ Unlock(f)
    BY <2>4, ReleaseStep
  <2>5. CASE WakeUp(f) \/ DrainCheck(f)
    BY <2>5, OutsideStep
  <2>6. CASE Relock(f) \/ Again(f)
    BY <2>6, RelockStep, RelockLeaves
  <2>7. CASE CompleteColor(f)
    BY <2>7, CompleteColorStep
  <2>8. CASE HandOn(f)
    BY <2>8, HandOnEnds, HandOnNext
  <2> QED BY <1>3, <2>1, <2>2, <2>3, <2>4, <2>5, <2>6, <2>7, <2>8 DEF FlusherStep
<1> QED BY <1>1, <1>2, <1>3 DEF Next

(* The invariant holds in every reachable state of flush_workqueue() and   *)
(* drain_workqueue().                                                      *)
THEOREM FlushInvariant == Spec => []IInv
<1>1. Init => IInv
  BY InitIInv
<1>2. IInv /\ [Next]_vars => IInv'
  BY NextIInv
<1> QED BY <1>1, <1>2, PTL DEF Spec

(* flush_workqueue() returns only when every work that was in flight when  *)
(* it took wq->mutex has returned, for any number of works, pwqs, flushers *)
(* and colours, and although the cascade completes several flushes at      *)
(* once.                                                                   *)
THEOREM FlushWaitsForAll == Spec => []FlushedAll
<1>1. IInv => FlushedAll
  BY DEF IInv, Debts
<1> QED BY <1>1, FlushInvariant, PTL

(* pwq_dec_nr_in_flight() and flush_workqueue_prep_pwqs() complete         *)
(* wq->first_flusher->done only while that flusher waits for it.           *)
THEOREM FirstFlusherIsThere == Spec => []FirstFlusherWaits
<1>1. IInv => FirstFlusherWaits
  BY DEF IInv, Arms
<1> QED BY <1>1, FlushInvariant, PTL

(* With the mutex free, the closed colours are those somebody waits for,   *)
(* and works in flight have no other colour than these and the current.    *)
LEMMA ColorsAreClosed == IInv => ColorsClosed
<1> SUFFICES ASSUME IInv, mutex = None
             PROVE  /\ \A q \in Pwq : pwq_work_color[q] = work_color
                    /\ {c \in Color : Dist(c) < Dist(work_color)}
                         = {color[f] : f \in {f \in Flusher : f = first_flusher \/ In(flusher_queue, f)}}
                    /\ \A x \in InFlight : Dist(wcolor[x]) <= Dist(work_color)
                    /\ flusher_overflow # <<>> => work_next_color(work_color) = flush_color
  BY DEF ColorsClosed
<1> USE DEF IInv
<1>1. prep = NoPrep /\ \A f \in Flusher : fpc[f] \notin Holding
  BY NobodyPreps
<1>2. \A c \in Color : Dist(c) = Gap(flush_color, c)
  BY DistIs DEF TypeOK
<1>3. work_color \in Color /\ work_next_color(work_color) = Succ(work_color)
  BY SuccIs DEF TypeOK
<1>4. \A q \in Pwq : pwq_work_color[q] = work_color
  BY <1>1 DEF Colors, QueuedColor, NoPrep
<1>5. \A x \in InFlight : Dist(wcolor[x]) <= Dist(work_color)
  BY <1>2, <1>3 DEF Colors, InFlightColor, InFlight
<1>6. flusher_overflow # <<>> => work_next_color(work_color) = flush_color
  BY <1>3 DEF Colors, NoFlush
<1>7. ASSUME NEW c \in Color, Dist(c) < Dist(work_color)
      PROVE  \E f \in Flusher : Holder(f) /\ color[f] = c
  BY <1>1, <1>2, <1>3, <1>7 DEF Colors, ClosedHeld, Holding
<1>8. ASSUME NEW f \in Flusher, Holder(f)
      PROVE  color[f] \in Color /\ Dist(color[f]) < Dist(work_color)
  BY <1>2, <1>3, <1>8 DEF Colors, HolderColor
<1>9. {c \in Color : Dist(c) < Dist(work_color)}
        = {color[f] : f \in {f \in Flusher : f = first_flusher \/ In(flusher_queue, f)}}
  <2> HIDE DEF IInv
  <2> QED BY <1>7, <1>8 DEF Holder
<1> QED BY <1>4, <1>5, <1>6, <1>9

(* wq->nr_pwqs_to_flush counts the armed pwqs, and the colours between     *)
(* flush_color and work_color are those that a flusher waits for.          *)
THEOREM ColorsAreExact == Spec => []ColorsExact
<1>1. IInv => ColorsExact
  BY ColorsAreClosed DEF IInv, Arms, ColorsExact
<1> QED BY <1>1, FlushInvariant, PTL

(* wq->nr_drainers, and so __WQ_DRAINING, tells whether a drain is under   *)
(* way.                                                                    *)
THEOREM DrainersCounted ==
  Spec => [](nr_drainers = Cardinality({f \in Drainers : fpc[f] # "idle"}))
<1>1. IInv => nr_drainers = Cardinality({f \in Drainers : fpc[f] # "idle"})
  BY DEF IInv, Drains
<1> QED BY <1>1, FlushInvariant, PTL
=============================================================================
