-------------------------------- MODULE Unr --------------------------------
(* The unit number allocator (src/unr.c).  A unrhdr keeps "first" numbers   *)
(* allocated from the start, "last" numbers free at the end and, between    *)
(* them, a list of chunks: runs of free numbers, runs of allocated numbers  *)
(* and bitmaps of at most NBITS numbers.  Every call rearranges the list:   *)
(* it splits a run, merges neighbours, gives runs back to first and last,   *)
(* and collapses several chunks into one bitmap.  Numbers are offsets from  *)
(* low inside the header and items (offset + Low) at the interface.         *)
(* Every call holds uh->mtx from its first read to its last write.          *)
EXTENDS Integers, Sequences, SequencesExt, FiniteSetsExt

CONSTANTS
    Low, High,    \* the range given to new_unrhdr()
    NBITS         \* numbers one bitmap holds (256 in the source's build)

VARIABLES
    uh,           \* struct unrhdr, and the spare chunks p1, p2 of the call
    owned         \* the items handed out and not given back (history)

vars == <<uh, owned>>

\* struct unr: the value of ptr tells a free run, an allocated run, a bitmap.
Free(n) == [ptr |-> "free", len |-> n, bits |-> {}]
Used(n) == [ptr |-> "used", len |-> n, bits |-> {}]
Map(n, S) == [ptr |-> "map", len |-> n, bits |-> S]

is_bitmap(up) == up.ptr = "map"

\* The offsets, within the chunk, of its allocated numbers.
Taken(up) == CASE up.ptr = "free" -> {}
               [] up.ptr = "used" -> 0 .. up.len - 1
               [] up.ptr = "map"  -> up.bits

\* Memory: a bitmap is a chunk and the chunk-sized map it points to.
Memory(up) == IF is_bitmap(up) THEN 2 ELSE 1

SumOver(f(_), head, k) ==
    LET sum[n \in 0 .. k] == IF n = 0 THEN 0 ELSE sum[n - 1] + f(head[n])
    IN  sum[k]
LenOf(up) == up.len
Before(head, k) == SumOver(LenOf, head, k - 1)

new_unr(h, n) == [h EXCEPT !.alloc = @ + n, !.spare = @ - n]
delete_unr(h, n) == [h EXCEPT !.alloc = @ - n, !.ppfree = @ \/ n > 0]

init_unrhdr == [first |-> 0, last |-> 1 + (High - Low), busy |-> 0,
                alloc |-> 0, spare |-> 0, head |-> <<>>, ppfree |-> FALSE]

(***************************************************************************)
(* optimize_unr(): from every chunk, the longest sequence that fits one    *)
(* bitmap; the first one that would free most memory becomes a bitmap, and *)
(* again until none would free any.                                        *)
(***************************************************************************)
WindowEnd(head, i) ==
    Max({j \in i .. Len(head) : Before(head, j + 1) - Before(head, i) <= NBITS})
WindowMemory(head, i) ==
    SumOver(Memory, head, WindowEnd(head, i)) - SumOver(Memory, head, i - 1)

\* Wrong: the bits of a chunk are put where they were in that chunk.
BitmapUnshifted(head, i, j) ==
    Map(Before(head, j + 1) - Before(head, i), UNION {Taken(head[k]) : k \in i .. j})

Bitmap(head, i, j) ==
    Map(Before(head, j + 1) - Before(head, i),
        UNION {{o + Before(head, k) - Before(head, i) : o \in Taken(head[k])} : k \in i .. j})

RECURSIVE optimize_unr(_)
optimize_unr(h) ==
    LET head  == h.head
        small == {i \in 1 .. Len(head) : head[i].len < NBITS}
        most  == Max({0} \cup {WindowMemory(head, i) : i \in small})
    IN  IF most < 3 THEN h
        ELSE LET us == Min({i \in small : WindowMemory(head, i) = most})
                 to == WindowEnd(head, us)
             IN  optimize_unr([delete_unr(h, most - 2) EXCEPT !.head =
                     SubSeq(head, 1, us - 1) \o <<Bitmap(head, us, to)>>
                         \o SubSeq(head, to + 1, Len(head))])

(***************************************************************************)
(* collapse_unr(uh, up), up being the k-th chunk: a full or empty bitmap   *)
(* becomes a run; an empty run goes; the hot spot merges with the runs     *)
(* beside it, the first allocated run with ->first, the last free run with *)
(* ->last; then bitmaps are tried.                                         *)
(***************************************************************************)
RunLength(h, k) ==
    LET up == h.head[k] IN
    IF is_bitmap(up) /\ up.bits = 0 .. up.len - 1
    THEN [delete_unr(h, 1) EXCEPT !.head[k] = Used(up.len)]
    ELSE IF is_bitmap(up) /\ up.bits = {}
    THEN [delete_unr(h, 1) EXCEPT !.head[k] = Free(up.len)]
    ELSE h

Drop(h, k) == [delete_unr(h, 1) EXCEPT !.head = RemoveAt(@, k)]

\* The chunk after the k-th joins it when both are runs of one kind.
Join(h, k) ==
    IF 1 <= k /\ k < Len(h.head) /\ ~is_bitmap(h.head[k]) /\ h.head[k].ptr = h.head[k + 1].ptr
    THEN [Drop(h, k + 1) EXCEPT !.head[k].len = @ + h.head[k + 1].len]
    ELSE h

IntoFirst(h) ==
    IF h.head # <<>> /\ h.head[1].ptr = "used"
    THEN [Drop(h, 1) EXCEPT !.first = @ + h.head[1].len] ELSE h
IntoLast(h) ==
    LET n == Len(h.head) IN
    IF n > 0 /\ h.head[n].ptr = "free"
    THEN [Drop(h, n) EXCEPT !.last = @ + h.head[n].len] ELSE h

collapse_unr(h, k) ==
    LET h1   == RunLength(h, k)
        gone == h1.head[k].len = 0
        h2   == IF gone THEN Drop(h1, k) ELSE h1
        at   == IF gone /\ (k > 1 \/ Len(h2.head) = 0) THEN k - 1 ELSE k
        prev == IF at > 1 THEN Join(h2, at - 1) ELSE h2
        hot  == at - (Len(h2.head) - Len(prev.head))
    IN  optimize_unr(IntoLast(IntoFirst(Join(prev, hot))))

(***************************************************************************)
(* The calls.  Each operator returns the header and the result.            *)
(***************************************************************************)
Result(h, id) == [uh |-> h, id |-> id]
Failed(h) == Result(h, -1)

\* The first clear bit of a bitmap; bit_ffc() looks at up->len bits.
FirstClear(up) == Min((0 .. up.len - 1) \ up.bits)

alloc_unrl(h) ==
    LET x == Low + h.first IN
    IF h.head = <<>>
    THEN IF h.last > 0
         THEN Result([h EXCEPT !.first = @ + 1, !.last = @ - 1, !.busy = @ + 1], x)
         ELSE Failed(h)
    ELSE IF h.head[1].ptr = "free"
    THEN Result(collapse_unr([h EXCEPT !.first = @ + 1, !.head[1].len = @ - 1,
                                       !.busy = @ + 1], 1), x)
    ELSE LET y == FirstClear(h.head[1])
         IN  Result(collapse_unr([h EXCEPT !.head[1].bits = @ \cup {y}, !.busy = @ + 1], 1), x + y)

\* The chunk that holds offset i from ->first; 0 when i lies behind the list.
Find(head, i) ==
    LET holds == {k \in 1 .. Len(head) : Before(head, k + 1) > i}
    IN  IF holds = {} THEN 0 ELSE Min(holds)

\* Free runs of no length are not made.
FreeRun(n) == IF n > 0 THEN <<Free(n)>> ELSE <<>>
UsedRun(n) == IF n > 0 THEN <<Used(n)>> ELSE <<>>

Replace(head, k, chunks) == SubSeq(head, 1, k - 1) \o chunks \o SubSeq(head, k + 1, Len(head))

\* The "done" part: the tail behind item shrinks to what is left of the range.
Done(h, item, k) ==
    collapse_unr([h EXCEPT !.last = Min({@, High - Low - (item - Low)}), !.busy = @ + 1], k)

alloc_unr_specificl(hh, item) ==
    LET h    == [hh EXCEPT !.spare = 2]
        i    == item - Low - h.first
        k    == Find(h.head, i)
        off  == i - Before(h.head, k)
        rest == i - Before(h.head, Len(h.head) + 1)
        tl   == h.head[k].len - (1 + off)
    IN  IF item < Low + h.first \/ item > High THEN Failed(h)
        ELSE IF h.head = <<>> /\ i = 0
        THEN Result([h EXCEPT !.first = @ + 1, !.last = @ - 1, !.busy = @ + 1], item)
        ELSE IF h.head = <<>>
        THEN Result([new_unr(h, 2) EXCEPT !.head = <<Free(i), Used(1)>>,
                                          !.last = High - Low - i, !.busy = @ + 1], item)
        ELSE IF k = 0
        THEN LET chunks == Append(FreeRun(rest), Used(1))
                 h1 == [new_unr(h, Len(chunks)) EXCEPT !.head = @ \o chunks]
             IN  Result(Done(h1, item, Len(h1.head)), item)
        ELSE IF is_bitmap(h.head[k])
        THEN IF off \in h.head[k].bits THEN Failed(h)
             ELSE Result(Done([h EXCEPT !.head[k].bits = @ \cup {off}], item, k), item)
        ELSE IF h.head[k].ptr = "used" THEN Failed(h)
        ELSE LET front  == FreeRun(off)
                 chunks == front \o <<Used(1)>> \o FreeRun(tl)
                 h1 == [new_unr(h, Len(chunks) - 1) EXCEPT !.head = Replace(@, k, chunks)]
             IN  Result(Done(h1, item, k + Len(front)), item)

\* Freeing in the ->first section: a run starting at the freed item.
FromFirst(h, i) ==
    IF i < h.first
    THEN [new_unr(h, 1) EXCEPT !.head = <<Used(h.first - i)>> \o @, !.first = i]
    ELSE h
free_unrl(hh, item) ==
    LET h == FromFirst([hh EXCEPT !.spare = 2], item - Low)
        i == item - Low - h.first
        k == Find(h.head, i)
        off == i - Before(h.head, k)
        up == h.head[k]
        b == [h EXCEPT !.busy = @ - 1]
    IN  IF item - Low + 1 = hh.first /\ hh.head = <<>>
        THEN [hh EXCEPT !.last = @ + 1, !.first = @ - 1, !.busy = @ - 1]
        ELSE IF is_bitmap(up)
        THEN collapse_unr([b EXCEPT !.head[k].bits = @ \ {off}], k)
        ELSE IF up.len = 1
        THEN collapse_unr([b EXCEPT !.head[k] = Free(1)], k)
        ELSE IF off = 0 /\ k > 1 /\ h.head[k - 1].ptr = "free"
        THEN collapse_unr([b EXCEPT !.head[k - 1].len = @ + 1, !.head[k].len = @ - 1], k)
        ELSE IF off = up.len - 1 /\ k < Len(h.head) /\ h.head[k + 1].ptr = "free"
        THEN collapse_unr([b EXCEPT !.head[k + 1].len = @ + 1, !.head[k].len = @ - 1], k)
        ELSE LET front  == UsedRun(off)
                 chunks == front \o <<Free(1)>> \o UsedRun(up.len - 1 - off)
             IN  collapse_unr([new_unr(b, Len(chunks) - 1) EXCEPT !.head = Replace(@, k, chunks)],
                              k + Len(front))

clean_unrhdrl(h) == [h EXCEPT !.ppfree = FALSE]

Init == uh = init_unrhdr /\ owned = {}

\* alloc_unr()
AllocUnr ==
    LET r == alloc_unrl(uh) IN
    /\ uh' = clean_unrhdrl(r.uh)
    /\ owned' = IF r.id = -1 THEN owned ELSE owned \cup {r.id}

\* alloc_unr_specific(); it leaves ppfree to a later call.
AllocUnrSpecific(item) ==
    LET r == alloc_unr_specificl(uh, item) IN
    /\ uh' = r.uh
    /\ owned' = IF r.id = -1 THEN owned ELSE owned \cup {item}

\* free_unr(); KASSERT asks for an allocated item of the range.
FreeUnr(item) ==
    /\ uh' = clean_unrhdrl(free_unrl(uh, item))
    /\ owned' = owned \ {item}

CleanUnrhdr == uh' = clean_unrhdrl(uh) /\ UNCHANGED owned

\* clear_unrhdr(), on a header whose postponed frees are done (KASSERT).
ClearUnrhdr ==
    /\ ~uh.ppfree
    /\ uh' = init_unrhdr
    /\ owned' = {}

Next == \/ AllocUnr
        \/ \E item \in Low .. High : AllocUnrSpecific(item)
        \/ \E item \in owned \cap (Low .. High) : FreeUnr(item)
        \/ CleanUnrhdr
        \/ ClearUnrhdr

Spec == Init /\ [][Next]_vars
-----------------------------------------------------------------------------
\* Allocated items according to the header.
Allocated == (Low .. Low + uh.first - 1) \cup
    UNION {{Low + uh.first + Before(uh.head, k) + o : o \in Taken(uh.head[k])}
               : k \in 1 .. Len(uh.head)}

\* Through every split, merge and collapse the header describes exactly the
\* items handed out, and busy counts them (check_unrhdr(), "items").
AllocatedExact == Allocated = owned /\ uh.busy = Cardinality(owned)

\* The memory account is exact (check_unrhdr(), "chunks"), and an allocator
\* with nothing allocated holds no chunk and no postponed free: the asserts of
\* delete_unrhdr() ("UNR memory leak", "postponed item") never fire.
MemoryExact ==
    /\ uh.alloc = SumOver(Memory, uh.head, Len(uh.head))
    /\ uh.busy = 0 => uh.head = <<>> /\ ~uh.ppfree

\* The other asserts hold: the first chunk has a free number ("UNR first
\* element is allocated", "No clear bit in bitmap"), no bitmap outgrows its
\* map, and a call needs at most the two chunks its caller allocated before
\* taking the lock ("Out of cached memory").
AssertsHold ==
    /\ uh.head # <<>> => Taken(uh.head[1]) # 0 .. uh.head[1].len - 1
    /\ \A k \in 1 .. Len(uh.head) : is_bitmap(uh.head[k]) => uh.head[k].len <= NBITS
    /\ uh.spare >= 0

\* alloc_unr() would hand out the lowest number that is free, and fails only
\* when every number of the range is taken: a hole anywhere in the list, or in
\* a bitmap, is found.
LowestFree ==
    LET id == alloc_unrl(uh).id IN
    IF id = -1 THEN Low .. High \subseteq owned
    ELSE Low .. id - 1 \subseteq owned /\ id \notin owned

\* "Highest and lowest valid values given as parameters" (unr.c, new_unrhdr).
InRange == owned \subseteq Low .. High
=============================================================================
