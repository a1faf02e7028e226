---------------------------- MODULE StringPatterns ----------------------------
(***************************************************************************)
(* What a pattern of the Lua manual means, without a matcher.  A pattern   *)
(* is a sequence of items, an assignment gives every item a piece of the   *)
(* text, and the match is the assignment that its repetitions prefer:      *)
(* "*", "+" and "?" the longest piece, "-" the shortest one, the first     *)
(* item first.                                                             *)
(***************************************************************************)
EXTENDS Integers, Sequences, FiniteSets, TLC

One(set) == [kind |-> "one", set |-> set]
Plus(set) == [kind |-> "plus", set |-> set]
Option(set) == [kind |-> "option", set |-> set]
Open == [kind |-> "open"]
Close == [kind |-> "close"]
Here == [kind |-> "here"]
Back(n) == [kind |-> "back", n |-> n]
Balanced(x, y) == [kind |-> "balanced", x |-> x, y |-> y]
Frontier(set) == [kind |-> "frontier", set |-> set]

\* A pattern: its items, "^" and "$".
Pattern(items, from, to) == [items |-> items, from |-> from, to |-> to]

\* An assignment cut gives item k the piece cut[k] .. cut[k + 1] - 1.
Piece(text, cut, k) == SubSeq(text, cut[k], cut[k + 1] - 1)

\* The items that open a capture, and the item that closes the one of k.
Opening(items) == {k \in DOMAIN items : items[k].kind \in {"open", "here"}}
Nested(items, i, j) ==
    LET among(kind) == Len(SelectSeq(SubSeq(items, i, j), LAMBDA x : x.kind = kind))
    IN  among("open") - among("close")
ClosedBy(items, k) == CHOOSE j \in k .. Len(items) : Nested(items, k, j) = 0 /\ \A i \in k .. j - 1 : Nested(items, k, i) # 0
OpenedAs(items, n) == CHOOSE k \in Opening(items) : Cardinality({j \in Opening(items) : j <= k}) = n

Captured(items, text, cut, n) ==
    LET k == OpenedAs(items, n)
    IN  IF items[k].kind = "here" THEN <<ToString(cut[k])>>
        ELSE SubSeq(text, cut[k], cut[ClosedBy(items, k)] - 1)

Count(text, c) == Len(SelectSeq(text, LAMBDA x : x = c))

\* Item k may have its piece.
Fits(items, text, cut, k) ==
    LET item == items[k]
        piece == Piece(text, cut, k)
        at(i) == IF i \in DOMAIN text THEN text[i] ELSE ""
        all == \A i \in DOMAIN piece : piece[i] \in item.set
    IN  CASE item.kind = "one" -> Len(piece) = 1 /\ all
          [] item.kind \in {"star", "lazy"} -> all
          [] item.kind = "plus" -> Len(piece) >= 1 /\ all
          [] item.kind = "option" -> Len(piece) <= 1 /\ all
          [] item.kind = "back" -> piece = Captured(items, text, cut, item.n)
          [] item.kind = "balanced" ->
               /\ Len(piece) >= 2 /\ Count(piece, item.x) = Count(piece, item.y) /\ piece[1] = item.x
               /\ \A i \in 1 .. Len(piece) - 1 :
                     Count(SubSeq(piece, 1, i), item.x) > Count(SubSeq(piece, 1, i), item.y)
          [] item.kind = "frontier" ->
               piece = <<>> /\ at(cut[k] - 1) \notin item.set /\ at(cut[k]) \in item.set
          [] OTHER -> piece = <<>>

\* The assignments of the first k items, from position s on.
Assignments(items, text, s) ==
    LET upTo[k \in 0 .. Len(items)] ==
            IF k = 0 THEN {<<s>>}
            ELSE {cut \in {Append(c, e) : c \in upTo[k - 1], e \in s .. Len(text) + 1} :
                     cut[k] <= cut[k + 1] /\ Fits(items, text, cut, k)}
    IN  upTo[Len(items)]

\* c is preferred to d.
Preferred(items, c, d) ==
    \E k \in DOMAIN items :
        /\ \A j \in 1 .. k : c[j] = d[j]
        /\ IF items[k].kind = "lazy" THEN c[k + 1] < d[k + 1] ELSE c[k + 1] > d[k + 1]

\* The matches of a pattern at s: one, or none.
MatchesAt(pattern, text, s) ==
    LET all == {c \in Assignments(pattern.items, text, s) :
                   pattern.to => c[Len(c)] = Len(text) + 1}
    IN  {c \in all : \A d \in all : d = c \/ Preferred(pattern.items, c, d)}

\* What a match hands to the function of gsub.
CapturesOf(pattern, text, cut) ==
    IF Opening(pattern.items) = {} THEN <<SubSeq(text, cut[1], cut[Len(cut)] - 1)>>
    ELSE [n \in 1 .. Cardinality(Opening(pattern.items)) |-> Captured(pattern.items, text, cut, n)]
=============================================================================
