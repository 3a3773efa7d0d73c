------------------------------ MODULE ListSort ------------------------------
(* util_list_sort() (src/list_sort.c): a bottom-up merge sort of a linked   *)
(* list.  An element is [key, pos]: what cmp() compares and its place in    *)
(* the input.  "pending" is the prev-linked list of sorted sublists, newest *)
(* first; one step is one round of the do loop, one merge of the closing    *)
(* loop, or the final merge that also restores the prev links.              *)
EXTENDS Integers, Sequences, SequencesExt

CONSTANTS
    Key,        \* what cmp() compares
    MaxLen      \* bound: the longest input

VARIABLES
    input,      \* the list as it came (kept to state the properties)
    list,       \* what is left of the input; in the closing loop, the result so far
    pending,    \* the sublists awaiting merging
    count,      \* elements in pending
    pc          \* "rounds", "closing", "done"

vars == <<input, list, pending, count, pc>>

cmp(a, b) == a.key - b.key

\* Wrong: of two equal elements, the second list's goes first.
TakesFirstStrict(a, b) == cmp(a, b) < 0
\* "if equal, take 'a' -- important for sort stability"
TakesFirst(a, b) == cmp(a, b) <= 0

RECURSIVE merge(_, _)
merge(a, b) ==
    IF a = <<>> THEN b ELSE IF b = <<>> THEN a
    ELSE IF TakesFirst(a[1], b[1]) THEN <<a[1]>> \o merge(Tail(a), b)
    ELSE <<b[1]>> \o merge(a, Tail(b))

\* The least-significant clear bit of count; 2^that is the size to merge.
RECURSIVE ClearBit(_)
ClearBit(n) == IF n % 2 = 0 THEN 0 ELSE 1 + ClearBit(n \div 2)
RECURSIVE ShiftRight(_, _)
ShiftRight(n, k) == IF k = 0 THEN n ELSE ShiftRight(n \div 2, k - 1)

Elements(keys) == [i \in DOMAIN keys |-> [key |-> keys[i], pos |-> i]]

\* Zero or one elements: the function returns at once.
Init == /\ \E n \in 2 .. MaxLen : \E keys \in [1 .. n -> Key] : input = Elements(keys)
        /\ list = input /\ pending = <<>> /\ count = 0 /\ pc = "rounds"

\* The sublists at the clear bit are merged, the older one first, when count
\* has a higher bit set.
MergePending(p, n) ==
    LET k == ClearBit(n) IN
    IF ShiftRight(n, k) = 0 THEN p
    ELSE SubSeq(p, 1, k) \o <<merge(p[k + 2], p[k + 1])>> \o SubSeq(p, k + 3, Len(p))

Round ==
    /\ pc = "rounds" /\ list # <<>>
    /\ pending' = <<<<list[1]>>>> \o MergePending(pending, count)
    /\ list' = Tail(list)
    /\ count' = count + 1
    /\ UNCHANGED <<input, pc>>

\* End of input: the newest sublist is the result so far.
StartClosing ==
    /\ pc = "rounds" /\ list = <<>>
    /\ list' = pending[1] /\ pending' = Tail(pending) /\ pc' = "closing"
    /\ UNCHANGED <<input, count>>

OlderFirst(older, newer) == merge(older, newer)

MergeOne ==
    /\ pc = "closing" /\ Len(pending) > 1
    /\ list' = OlderFirst(pending[1], list) /\ pending' = Tail(pending)
    /\ UNCHANGED <<input, count, pc>>

\* merge_final(): the last sublist, then the circular links; cmp() calls made
\* for the caller's sake decide nothing.
MergeFinal ==
    /\ pc = "closing" /\ Len(pending) = 1
    /\ list' = OlderFirst(pending[1], list) /\ pending' = <<>> /\ pc' = "done"
    /\ UNCHANGED <<input, count>>

Next == Round \/ StartClosing \/ MergeOne \/ MergeFinal

Spec == Init /\ [][Next]_vars
-----------------------------------------------------------------------------
Precedes(a, b) == a.key < b.key \/ (a.key = b.key /\ a.pos < b.pos)
SortedList(s) == \A i \in 1 .. Len(s) - 1 : Precedes(s[i], s[i + 1])

\* The result is the input's elements, each once, by key and, for equal keys,
\* in the order of the input ("list_sort is a stable sort").
StableSort == pc = "done" => SortedList(list) /\ ToSet(list) = ToSet(input)

PowersOfTwo == {2 ^ i : i \in 0 .. MaxLen}

\* The invariants the comment of util_list_sort() names: sorted sublists of
\* power-of-two sizes, ordered by size and by age, at most two of each size.
PendingShape ==
    pc = "rounds" =>
        /\ \A k \in DOMAIN pending : SortedList(pending[k]) /\ Len(pending[k]) \in PowersOfTwo
        /\ \A k \in 1 .. Len(pending) - 1 :
              /\ Len(pending[k]) <= Len(pending[k + 1])
              /\ \A x \in ToSet(pending[k]), y \in ToSet(pending[k + 1]) : y.pos < x.pos
        /\ \A k \in 1 .. Len(pending) - 2 : Len(pending[k]) < Len(pending[k + 2])

\* "always performing at least 2:1 balanced merges": a closing merge joins a
\* sublist of size n with n/2 to 2n - 1 newer elements, and the rounds merge
\* sublists of one size.
BalancedMerges ==
    /\ pc = "closing" => /\ Len(pending[1]) <= 2 * Len(list)
                         /\ Len(list) <= 2 * Len(pending[1]) - 1
    /\ (pc = "rounds" /\ list # <<>> /\ ShiftRight(count, ClearBit(count)) # 0) =>
           Len(pending[ClearBit(count) + 1]) = Len(pending[ClearBit(count) + 2])
=============================================================================
