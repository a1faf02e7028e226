------------------------------- MODULE LuaSort -------------------------------
(***************************************************************************)
(* table.sort (ltablib.c), with which both ends of a connection bring the  *)
(* fields of a message into one order.  A step sorts the first of the      *)
(* ranges that are left: it partitions the range and leaves two smaller    *)
(* ones, the smaller half first, as the recursion of auxsort does.         *)
(***************************************************************************)
EXTENDS Integers, Sequences, FiniteSetsExt

VARIABLES arr,       \* the table
          less,      \* what sort_comp answers: the pairs <<x, y>> with x < y
          ranges,    \* the calls and loops of auxsort that are left
          invalid    \* "invalid order function for sorting" was raised

sortvars == <<arr, less, ranges, invalid>>

\* Mutant: the last element is left out.
WholeButLast(a) == <<<<1, Len(a) - 1>>>>

\* sort: the call of auxsort.
WholeTable(a) == <<<<1, Len(a)>>>>
SortStarts(a, order) == arr = a /\ less = order /\ ranges = WholeTable(a) /\ invalid = FALSE

Exchange(a, i, j) == [a EXCEPT ![i] = a[j], ![j] = a[i]]
SortComp(x, y) == <<x, y>> \in less

\* a[l], a[(l+u)/2] and a[u] in order.
Ends(a, l, u) == IF SortComp(a[u], a[l]) THEN Exchange(a, l, u) ELSE a
Median(a, l, u) ==
    LET i == (l + u) \div 2
    IN  IF SortComp(a[i], a[l]) THEN Exchange(a, i, l)
        ELSE IF SortComp(a[u], a[i]) THEN Exchange(a, i, u) ELSE a

\* ++i until a[i] >= P and --j until a[j] <= P; 0 for an invalid order.
Up(a, i, pivot, u) ==
    LET stops == {k \in i + 1 .. u : ~ SortComp(a[k], pivot)} IN IF stops = {} THEN 0 ELSE Min(stops)
Down(a, j, pivot, l) ==
    LET stops == {k \in l .. j - 1 : ~ SortComp(pivot, a[k])} IN IF stops = {} THEN 0 ELSE Max(stops)

\* The loop of the partition: the table, i and j, and the place of the pivot, which
\* is 0 for an invalid order.
Going == -1
At(a, i, j, place) == [arr |-> a, i |-> i, j |-> j, place |-> place]
Round(s, pivot, l, u) ==
    LET i == Up(s.arr, s.i, pivot, u)
        j == Down(s.arr, s.j, pivot, l)
    IN  IF s.place # Going THEN s
        ELSE IF i = 0 \/ j = 0 THEN At(s.arr, s.i, s.j, 0)
        ELSE IF j < i THEN At(Exchange(s.arr, u - 1, i), i, j, i)
        ELSE At(Exchange(s.arr, i, j), i, j, Going)

\* The partition of l .. u around the pivot at u - 1.
Partition(a, l, u) ==
    LET rounds[n \in 0 .. u - l] ==
            IF n = 0 THEN At(a, l, u - 1, Going) ELSE Round(rounds[n - 1], a[u - 1], l, u)
    IN  rounds[u - l]

\* Mutant: the pivot counts to the larger half.
HalvesWithPivot(l, u, i) == IF i - l < u - i THEN <<<<l, i - 1>>, <<i + 2, u>>>> ELSE <<<<i + 1, u>>, <<l, i - 1>>>>

\* The halves, the smaller one first.
Halves(l, u, i) == IF i - l < u - i THEN <<<<l, i - 1>>, <<i + 1, u>>>> ELSE <<<<i + 1, u>>, <<l, i - 1>>>>

SortStep ==
    /\ ranges # <<>> /\ ~ invalid
    /\ \E l \in {ranges[1][1]}, u \in {ranges[1][2]} :
       \E a \in {IF l < u THEN Ends(arr, l, u) ELSE arr} :
       \E b \in {IF u - l >= 2 THEN Median(a, l, u) ELSE a} :
          IF u - l <= 2
          THEN arr' = b /\ ranges' = Tail(ranges) /\ UNCHANGED invalid
          ELSE \E p \in {Partition(Exchange(b, (l + u) \div 2, u - 1), l, u)} :
                  /\ arr' = p.arr
                  /\ invalid' = (p.place = 0)
                  /\ ranges' = IF p.place = 0 THEN <<>> ELSE Halves(l, u, p.place) \o Tail(ranges)
    /\ UNCHANGED less

\* A call of table.sort, for any table and any order function.
Sort(values) ==
    /\ \E a \in Seq(values), order \in SUBSET (values \X values) : SortStarts(a, order)
    /\ [][SortStep]_sortvars

-----------------------------------------------------------------------------

\* What the manual asks of an order function.
WeakOrder(order, on) ==
    /\ \A x \in on : <<x, x>> \notin order
    /\ \A x, y, z \in on : /\ <<x, y>> \in order /\ <<y, z>> \in order => <<x, z>> \in order
                           /\ <<x, z>> \in order => <<x, y>> \in order \/ <<y, z>> \in order
Sorted == \A i, j \in DOMAIN arr : i < j => <<arr[j], arr[i]>> \notin less

\* When the order function answers as a strict weak order, table.sort raises no
\* error and ends with the table sorted (auxsort).
SortRight ==
    WeakOrder(less, {arr[i] : i \in DOMAIN arr}) => ~ invalid /\ (ranges = <<>> => Sorted)
=============================================================================
