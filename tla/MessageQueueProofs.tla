------------------------- MODULE MessageQueueProofs -------------------------
(***************************************************************************)
(* The ring of module MessageQueue implements module Fifo for any initial  *)
(* size, any number of expansions and any messages.  The invariant is      *)
(* Inv: the indices stay in the ring and the cells from head up to tail,   *)
(* around the ring, hold messages.                                         *)
(***************************************************************************)
EXTENDS MessageQueue, SequenceTheorems, TLAPS

USE NoMsgAssumption, CapAssumption

Inv == TypeOK /\ NoGarbage

\* An index of at most twice the ring wraps once.
LEMMA Wrap ==
    \A c \in Nat \ {0} : \A x \in 0 .. 2 * c - 1 :
        /\ x < c => x % c = x
        /\ x >= c => x % c = x - c
<1> SUFFICES ASSUME NEW c \in Nat \ {0}, NEW x \in 0 .. 2 * c - 1
             PROVE  (x < c => x % c = x) /\ (x >= c => x % c = x - c)
  OBVIOUS
<1>1. \A n \in Nat \ {0}, y \in Nat : y < n => y % n = y
  OBVIOUS
<1>2. \A n \in Nat \ {0}, y \in Nat : y >= n /\ y < 2 * n => y % n = y - n
  BY SMT
<1>3. x \in Nat /\ x < 2 * c
  OBVIOUS
<1> QED BY <1>1, <1>2, <1>3

\* Where the i-th message after the oldest one is, and how many there are.
LEMMA Cells ==
    ASSUME TypeOK
    PROVE  /\ Length \in 0 .. cap - 1
           /\ \A i \in 0 .. cap - 1 :
                 /\ Cell(i) \in 0 .. cap - 1
                 /\ Cell(i) = IF head + i < cap THEN head + i ELSE head + i - cap
<1>1. Length \in 0 .. cap - 1
  BY DEF TypeOK, Length
<1>2. ASSUME NEW i \in 0 .. cap - 1
      PROVE  /\ Cell(i) \in 0 .. cap - 1
             /\ Cell(i) = IF head + i < cap THEN head + i ELSE head + i - cap
  <2> DEFINE x == head + i
  <2>1. x \in 0 .. 2 * cap - 1 /\ cap \in Nat \ {0} /\ head \in Nat
    BY DEF TypeOK
  <2>2. x = head + i /\ Cell(i) = x % cap
    BY DEF Cell
  <2> HIDE DEF x
  <2>3. (x < cap => x % cap = x) /\ (x >= cap => x % cap = x - cap)
    BY <2>1, Wrap
  <2> QED BY <2>1, <2>2, <2>3
<1> QED BY <1>1, <1>2

\* The content is a sequence of the messages between head and tail.
LEMMA ContentIsSeq ==
    ASSUME Inv
    PROVE  /\ Content \in Seq(Msg)
           /\ Len(Content) = Length
           /\ \A i \in 1 .. Length : Content[i] = queue[Cell(i - 1)]
<1>1. Length \in Nat
  BY Cells DEF Inv
<1>2. \A i \in 1 .. Length : Content[i] \in Msg
  BY DEF Inv, NoGarbage
<1> QED BY <1>1, <1>2 DEF Content

\* How to recognise the effect of Push and Pop of module Fifo on a sequence.
LEMMA IsAppend ==
    ASSUME NEW s \in Seq(Msg), NEW m \in Msg, NEW t \in Seq(Msg),
           Len(t) = Len(s) + 1, \A i \in 1 .. Len(s) : t[i] = s[i], t[Len(s) + 1] = m
    PROVE  t = Append(s, m)
<1>1. /\ Append(s, m) \in Seq(Msg) /\ Len(Append(s, m)) = Len(s) + 1 /\ Len(s) \in Nat
      /\ \A i \in 1 .. Len(s) : Append(s, m)[i] = s[i]
      /\ Append(s, m)[Len(s) + 1] = m
  BY AppendProperties
<1>2. \A i \in 1 .. Len(t) : t[i] = Append(s, m)[i]
  <2>1. \A i \in 1 .. Len(t) : i \in 1 .. Len(s) \/ i = Len(s) + 1
    BY <1>1
  <2> QED BY <1>1, <2>1
<1> QED BY <1>1, <1>2, SeqEqual

\* A sequence with the elements of Tail(s), each one place forward, is Tail(s).
LEMMA IsTail ==
    ASSUME NEW s \in Seq(Msg), s # <<>>, NEW t \in Seq(Msg),
           Len(t) = Len(s) - 1, \A i \in 1 .. Len(t) : t[i] = s[i + 1]
    PROVE  t = Tail(s)
<1>1. /\ Tail(s) \in Seq(Msg) /\ Len(Tail(s)) = Len(s) - 1
      /\ \A i \in 1 .. Len(Tail(s)) : Tail(s)[i] = s[i + 1]
  BY HeadTailProperties
<1> QED BY <1>1, SeqEqual

-----------------------------------------------------------------------------
(* One step of each kind. *)

\* A push that leaves a cell free.
LEMMA PushFits ==
    ASSUME Inv, NEW m \in Msg, Push(m), Advance(tail) # head
    PROVE  Inv' /\ Content' = Append(Content, m)
<1>1. /\ queue' = [queue EXCEPT ![tail] = m] /\ tail' = Advance(tail)
      /\ UNCHANGED <<cap, head, out, live>>
  BY DEF Push
<1>2. TypeOK'
  BY <1>1 DEF Inv, TypeOK, Advance
<1>3. Length \in 0 .. cap - 2 /\ Length' = Length + 1 /\ cap \in Nat \ {0}
  BY <1>1 DEF Inv, TypeOK, Length, Advance
<1>4. Cell(Length) = tail
  <2>1. Cell(Length) = IF head + Length < cap THEN head + Length ELSE head + Length - cap
    BY <1>3, Cells DEF Inv
  <2> QED BY <2>1 DEF Inv, TypeOK, Length
<1>5. \A i \in 0 .. cap - 1 : Cell(i)' = Cell(i)
  BY <1>1 DEF Cell
<1>6. \A i \in 0 .. Length - 1 : Cell(i) \in 0 .. cap - 1 /\ Cell(i) # tail
  <2> SUFFICES ASSUME NEW i \in 0 .. Length - 1
               PROVE  Cell(i) \in 0 .. cap - 1 /\ Cell(i) # tail
    OBVIOUS
  <2>1. i \in 0 .. cap - 1 /\ i < Length
    BY <1>3
  <2>2. /\ Cell(i) \in 0 .. cap - 1
        /\ Cell(i) = IF head + i < cap THEN head + i ELSE head + i - cap
    BY <2>1, Cells DEF Inv
  <2> QED BY <2>1, <2>2 DEF Inv, TypeOK, Length
<1>7. Content' = [i \in 1 .. Length + 1 |-> queue'[Cell(i - 1)]]
  <2>1. Content' = [i \in 1 .. Length' |-> queue'[Cell(i - 1)']]
    BY DEF Content
  <2>2. \A i \in 1 .. Length + 1 : i - 1 \in 0 .. cap - 1
    BY <1>3
  <2> QED BY <1>3, <1>5, <2>1, <2>2
<1>8. /\ Content \in Seq(Msg) /\ Len(Content) = Length
      /\ \A i \in 1 .. Length : Content[i] = queue[Cell(i - 1)]
  BY ContentIsSeq
<1>9. \A i \in 1 .. Length : queue'[Cell(i - 1)] = Content[i]
  <2> SUFFICES ASSUME NEW i \in 1 .. Length PROVE queue'[Cell(i - 1)] = queue[Cell(i - 1)]
    BY <1>8
  <2>1. i - 1 \in 0 .. Length - 1
    BY <1>3
  <2> QED BY <1>1, <1>6, <2>1 DEF Inv, TypeOK
<1>10. queue'[Cell(Length)] = m
  BY <1>1, <1>4 DEF Inv, TypeOK
<1>11. /\ Content' \in Seq(Msg) /\ Len(Content') = Length + 1
       /\ \A i \in 1 .. Length : Content'[i] = Content[i]
       /\ Content'[Length + 1] = m
  <2>1. Length \in Nat /\ \A i \in 1 .. Length + 1 : i \in 1 .. Length \/ i = Length + 1
    BY <1>3
  <2>2. \A i \in 1 .. Length + 1 : queue'[Cell(i - 1)] \in Msg
    <3>1. \A i \in 1 .. Length : Content[i] \in Msg
      BY <1>8, ElementOfSeq
    <3>2. Length + 1 - 1 = Length
      BY <2>1
    <3> QED BY <1>9, <1>10, <2>1, <3>1, <3>2
  <2>3. Length + 1 - 1 = Length /\ Length + 1 \in 1 .. Length + 1 /\ Length + 1 \in Nat
    BY <2>1
  <2>4. \A i \in 1 .. Length : i \in 1 .. Length + 1
    BY <2>1
  <2>5. \A i \in 1 .. Length + 1 : Content'[i] = queue'[Cell(i - 1)]
    BY <1>7
  <2>6. Content' \in Seq(Msg) /\ Len(Content') = Length + 1
    BY <1>7, <2>2, <2>3
  <2>7. Content'[Length + 1] = m
    <3>1. \A i \in 1 .. Length + 1 : i - 1 = Length => Content'[i] = m
      BY <1>10, <2>5, Zenon
    <3> QED BY <2>1, <2>3, <3>1
  <2>8. \A i \in 1 .. Length : Content'[i] = Content[i]
    BY <1>9, <2>4, <2>5
  <2> QED BY <2>6, <2>7, <2>8
<1>12. Content' = Append(Content, m)
  BY <1>8, <1>11, IsAppend
<1>13. NoGarbage'
  BY <1>3, <1>11 DEF NoGarbage
<1> QED BY <1>2, <1>12, <1>13 DEF Inv

\* A push into the last free cell: the ring doubles, the oldest message moves
\* to cell 0.
LEMMA PushGrows ==
    ASSUME Inv, NEW m \in Msg, Push(m), Advance(tail) = head
    PROVE  Inv' /\ Content' = Append(Content, m)
<1> DEFINE cells == [queue EXCEPT ![tail] = m]
<1>1. /\ queue' = Expanded(cells) /\ head' = 0 /\ tail' = cap /\ cap' = 2 * cap
      /\ UNCHANGED <<out, live>>
  BY DEF Push
<1>2. /\ cap \in Nat \ {0} /\ head \in 0 .. cap - 1 /\ tail \in 0 .. cap - 1
      /\ queue \in [0 .. cap - 1 -> Msg \cup {NoMsg}]
  BY DEF Inv, TypeOK
<1>3. Length = cap - 1 /\ Length' = cap
  BY <1>1, <1>2 DEF Length, Advance
<1>4. \A i \in 0 .. cap - 1 :
         /\ Cell(i) \in 0 .. cap - 1
         /\ Cell(i) = IF head + i < cap THEN head + i ELSE head + i - cap
  BY Cells DEF Inv
<1>5. Cell(cap - 1) = tail
  <2>1. cap - 1 \in 0 .. cap - 1
    BY <1>2
  <2>2. Cell(cap - 1) = IF head + (cap - 1) < cap THEN head + (cap - 1)
                        ELSE head + (cap - 1) - cap
    BY <1>4, <2>1
  <2> QED BY <1>2, <2>2 DEF Advance
<1>6. \A i \in 0 .. cap - 2 : Cell(i) # tail
  <2> SUFFICES ASSUME NEW i \in 0 .. cap - 2 PROVE Cell(i) # tail
    OBVIOUS
  <2>1. i \in 0 .. cap - 1 /\ i < cap - 1
    BY <1>2
  <2>2. Cell(i) = IF head + i < cap THEN head + i ELSE head + i - cap
    BY <1>4, <2>1
  <2> QED BY <1>2, <2>1, <2>2 DEF Advance
<1>7. \A i \in 0 .. cap - 1 : cells[Cell(i)] = IF i = cap - 1 THEN m ELSE queue[Cell(i)]
  <2> SUFFICES ASSUME NEW i \in 0 .. cap - 1
               PROVE  cells[Cell(i)] = IF i = cap - 1 THEN m ELSE queue[Cell(i)]
    OBVIOUS
  <2>1. CASE i = cap - 1
    BY <1>2, <1>5, <2>1
  <2>2. CASE i # cap - 1
    <3>1. i \in 0 .. cap - 2
      BY <1>2, <2>2
    <3> QED BY <1>2, <1>4, <1>6, <2>2, <3>1
  <2> QED BY <2>1, <2>2
<1> HIDE DEF cells
<1>8. /\ Content \in Seq(Msg) /\ Len(Content) = Length
      /\ \A i \in 1 .. Length : Content[i] = queue[Cell(i - 1)]
  BY ContentIsSeq
<1>9. \A i \in 0 .. 2 * cap - 1 :
         queue'[i] = IF i < cap THEN cells[Cell(i)] ELSE NoMsg
  BY <1>1 DEF Expanded, Cell
<1>10. \A i \in 0 .. cap - 1 : queue'[i] = IF i = cap - 1 THEN m ELSE Content[i + 1]
  <2> SUFFICES ASSUME NEW i \in 0 .. cap - 1
               PROVE  queue'[i] = IF i = cap - 1 THEN m ELSE Content[i + 1]
    OBVIOUS
  <2>1. i \in 0 .. 2 * cap - 1 /\ i < cap
    BY <1>2
  <2>2. queue'[i] = IF i = cap - 1 THEN m ELSE queue[Cell(i)]
    BY <1>7, <1>9, <2>1
  <2>3. ASSUME i # cap - 1 PROVE Content[i + 1] = queue[Cell(i)]
    <3>1. i + 1 \in 1 .. Length /\ i + 1 - 1 = i
      BY <1>2, <1>3, <2>3
    <3> QED BY <1>8, <3>1
  <2> QED BY <2>2, <2>3
<1>11. \A i \in 0 .. cap - 1 : queue'[i] \in Msg
  <2>1. \A i \in 1 .. Length : Content[i] \in Msg
    BY <1>8, ElementOfSeq
  <2>2. \A i \in 0 .. cap - 1 : i # cap - 1 => i + 1 \in 1 .. Length
    BY <1>2, <1>3
  <2> QED BY <1>10, <2>1, <2>2
<1>12. TypeOK'
  <2>1. queue' \in [0 .. cap' - 1 -> Msg \cup {NoMsg}]
    <3>1. DOMAIN queue' = 0 .. 2 * cap - 1 /\ queue' = [i \in 0 .. 2 * cap - 1 |-> queue'[i]]
      BY <1>1 DEF Expanded
    <3>2. \A i \in 0 .. 2 * cap - 1 : queue'[i] \in Msg \cup {NoMsg}
      <4>1. \A i \in 0 .. 2 * cap - 1 : i < cap => i \in 0 .. cap - 1
        BY <1>2
      <4> QED BY <1>9, <1>11, <4>1
    <3> QED BY <1>1, <3>1, <3>2
  <2>2. cap' \in Nat \ {0} /\ head' \in 0 .. cap' - 1 /\ tail' \in 0 .. cap' - 1
    BY <1>1, <1>2
  <2> QED BY <1>1, <2>1, <2>2 DEF Inv, TypeOK
<1>13. Content' = [i \in 1 .. cap |-> queue'[i - 1]]
  <2>1. Content' = [i \in 1 .. cap |-> queue'[Cell(i - 1)']]
    BY <1>3 DEF Content
  <2>2. ASSUME NEW i \in 1 .. cap PROVE Cell(i - 1)' = i - 1
    <3> DEFINE c == 2 * cap
               x == i - 1
    <3>1. c \in Nat \ {0} /\ x \in 0 .. 2 * c - 1 /\ x < c /\ 0 + x = x
      BY <1>2
    <3>2. Cell(x)' = (0 + x) % c
      BY <1>1 DEF Cell
    <3> HIDE DEF c, x
    <3>3. x % c = x
      BY <3>1, Wrap
    <3>4. Cell(x)' = x
      BY <3>1, <3>2, <3>3
    <3> QED BY <3>4 DEF x
  <2> QED BY <2>1, <2>2
<1>14. /\ Content' \in Seq(Msg) /\ Len(Content') = Len(Content) + 1
       /\ \A i \in 1 .. Len(Content) : Content'[i] = Content[i]
       /\ Content'[Len(Content) + 1] = m
  <2>1. cap \in Nat /\ \A i \in 1 .. cap : i - 1 \in 0 .. cap - 1
    BY <1>2
  <2>2. Content' \in Seq(Msg) /\ Len(Content') = cap
    BY <1>11, <1>13, <2>1
  <2>3. \A i \in 1 .. cap : Content'[i] = IF i - 1 = cap - 1 THEN m ELSE Content[i - 1 + 1]
    BY <1>10, <1>13, <2>1
  <2>4. \A i \in 1 .. cap : Content'[i] = IF i = cap THEN m ELSE Content[i]
    <3>1. \A i \in 1 .. cap : i - 1 + 1 = i /\ (i - 1 = cap - 1 <=> i = cap)
      BY <2>1
    <3> QED BY <2>3, <3>1
  <2>5. Len(Content) + 1 = cap /\ \A i \in 1 .. Len(Content) : i \in 1 .. cap /\ i # cap
    BY <1>2, <1>3, <1>8
  <2>6. cap \in 1 .. cap
    BY <1>2
  <2> QED BY <2>2, <2>4, <2>5, <2>6
<1>15. Content' = Append(Content, m)
  BY <1>8, <1>14, IsAppend
<1>16. NoGarbage'
  <2>1. \A i \in 1 .. cap : Content'[i] \in Msg
    <3>1. \A i \in 1 .. cap : i - 1 \in 0 .. cap - 1
      BY <1>2
    <3> QED BY <1>11, <1>13, <3>1
  <2> QED BY <1>3, <2>1 DEF NoGarbage
<1> QED BY <1>12, <1>15, <1>16 DEF Inv

\* A pop takes the oldest message.
LEMMA PopTakes ==
    ASSUME Inv, Pop
    PROVE  Inv' /\ Content # <<>> /\ out' = Head(Content) /\ Content' = Tail(Content)
<1>1. /\ head # tail /\ out' = queue[head] /\ head' = Advance(head)
      /\ UNCHANGED <<cap, tail, queue, live>>
  BY DEF Pop
<1>2. /\ cap \in Nat \ {0} /\ head \in 0 .. cap - 1 /\ tail \in 0 .. cap - 1
  BY DEF Inv, TypeOK
<1>3. Length \in 1 .. cap - 1 /\ Length' = Length - 1
  BY <1>1, <1>2 DEF Length, Advance
<1>4. /\ Content \in Seq(Msg) /\ Len(Content) = Length
      /\ \A i \in 1 .. Length : Content[i] = queue[Cell(i - 1)]
  BY ContentIsSeq
<1>5. /\ \A i \in 0 .. cap - 1 :
           Cell(i) = IF head + i < cap THEN head + i ELSE head + i - cap
  BY Cells DEF Inv
<1>6. ASSUME NEW i \in 0 .. cap - 2 PROVE Cell(i)' = Cell(i + 1)
  <2> DEFINE h == head'
             x == h + i
  <2>1. h \in 0 .. cap - 1 /\ i + 1 \in 0 .. cap - 1 /\ i \in Nat /\ i < cap - 1
    BY <1>1, <1>2 DEF Advance
  <2>2. x \in 0 .. 2 * cap - 1 /\ x = h + i
    <3> HIDE DEF h
    <3> QED BY <1>2, <2>1
  <2>3. Cell(i)' = x % cap
    BY <1>1 DEF Cell
  <2>4. Cell(i + 1) = IF head + (i + 1) < cap THEN head + (i + 1) ELSE head + (i + 1) - cap
    BY <1>5, <2>1
  <2>5. h = IF head + 1 >= cap THEN 0 ELSE head + 1
    BY <1>1 DEF Advance
  <2> HIDE DEF h, x
  <2>6. (x < cap => x % cap = x) /\ (x >= cap => x % cap = x - cap)
    BY <1>2, <2>2, Wrap
  <2>7. Cell(i)' = IF x < cap THEN x ELSE x - cap
    BY <1>2, <2>2, <2>3, <2>6
  <2> QED BY <1>2, <2>1, <2>2, <2>4, <2>5, <2>7
<1>7. Content # <<>> /\ out' = Head(Content)
  <2>1. Content # <<>> /\ Head(Content) = Content[1]
    BY <1>3, <1>4
  <2>2. 1 \in 1 .. Length /\ 0 \in 0 .. cap - 1 /\ 1 - 1 = 0
    BY <1>2, <1>3
  <2>3. Cell(0) = head
    <3>1. Cell(0) = IF head + 0 < cap THEN head + 0 ELSE head + 0 - cap
      BY <1>5, <2>2
    <3> QED BY <1>2, <3>1
  <2> QED BY <1>1, <1>4, <2>1, <2>2, <2>3
<1>8. Content' = [i \in 1 .. Length - 1 |-> queue[Cell(i)]]
  <2>1. Content' = [i \in 1 .. Length - 1 |-> queue[Cell(i - 1)']]
    BY <1>1, <1>3 DEF Content
  <2>2. ASSUME NEW i \in 1 .. Length - 1 PROVE Cell(i - 1)' = Cell(i)
    <3>1. i - 1 \in 0 .. cap - 2 /\ i - 1 + 1 = i
      BY <1>2, <1>3
    <3> QED BY <1>6, <3>1
  <2> QED BY <2>1, <2>2
<1>9. /\ Content' \in Seq(Msg) /\ Len(Content') = Length - 1
      /\ \A i \in 1 .. Length - 1 : Content'[i] = Content[i + 1] /\ Content'[i] \in Msg
  <2>1. \A i \in 1 .. Length - 1 : i + 1 \in 1 .. Length /\ i + 1 - 1 = i
    BY <1>2, <1>3
  <2>2. \A i \in 1 .. Length - 1 : Content[i + 1] = queue[Cell(i)]
    BY <1>4, <2>1
  <2>3. \A i \in 1 .. Length - 1 : queue[Cell(i)] \in Msg
    BY <1>4, <2>1, <2>2, ElementOfSeq
  <2>4. Length - 1 \in Nat
    BY <1>2, <1>3
  <2> QED BY <1>8, <2>2, <2>3, <2>4
<1>10. Content' = Tail(Content)
  BY <1>4, <1>7, <1>9, IsTail
<1>11. TypeOK'
  <2>1. queue[head] \in Msg \cup {NoMsg} /\ Advance(head) \in 0 .. cap - 1
    BY <1>2 DEF Inv, TypeOK, Advance
  <2> QED BY <1>1, <2>1 DEF Inv, TypeOK
<1>12. NoGarbage'
  BY <1>3, <1>9 DEF NoGarbage
<1> QED BY <1>7, <1>10, <1>11, <1>12 DEF Inv

\* Releasing the queue empties it.
LEMMA ReleaseDrops ==
    ASSUME Inv, Release
    PROVE  Inv' /\ Content' = <<>> /\ UNCHANGED out
<1>1. head' = tail /\ tail' = tail /\ cap' = cap /\ UNCHANGED <<queue, out>>
  BY DEF Release
<1>2. Length' = 0
  BY <1>1 DEF Length, Inv, TypeOK
<1>3. TypeOK'
  BY <1>1 DEF Inv, TypeOK, Release
<1>4. Content' = <<>> /\ NoGarbage'
  BY <1>2 DEF Content, NoGarbage
<1> QED BY <1>1, <1>3, <1>4 DEF Inv

-----------------------------------------------------------------------------

\* The ring starts empty.
LEMMA InitEmpty == Init => Inv /\ Content = <<>> /\ out = NoMsg
<1> SUFFICES ASSUME Init PROVE Inv /\ Content = <<>> /\ out = NoMsg
  OBVIOUS
<1>1. TypeOK /\ Length = 0
  BY DEF Init, TypeOK, Length
<1> QED BY <1>1 DEF Inv, NoGarbage, Content, Init

\* Every step keeps Inv and is a step of Fifo, or changes nothing Fifo sees.
LEMMA EveryStep == Inv /\ [Next]_vars => Inv' /\ [F!Next]_(F!vars)
<1> SUFFICES ASSUME Inv, [Next]_vars PROVE Inv' /\ [F!Next]_(F!vars)
  OBVIOUS
<1>1. ASSUME NEW m \in Msg, Push(m) PROVE Inv' /\ F!Next
  <2>1. Inv' /\ Content' = Append(Content, m)
    BY <1>1, PushFits, PushGrows
  <2>2. UNCHANGED out
    BY <1>1 DEF Push
  <2> QED BY <2>1, <2>2 DEF F!Next, F!Push
<1>2. ASSUME Pop PROVE Inv' /\ F!Next
  BY <1>2, PopTakes DEF F!Next, F!Pop
<1>3. ASSUME Release PROVE Inv' /\ F!Next
  BY <1>3, ReleaseDrops DEF F!Next, F!Release
<1>4. CASE UNCHANGED vars
  <2>1. UNCHANGED <<cap, head, tail, queue, out, live>>
    BY <1>4 DEF vars
  <2>2. Inv'
    BY <2>1 DEF Inv, TypeOK, NoGarbage, Content, Cell, Length
  <2>3. UNCHANGED <<Content, out>>
    BY <2>1 DEF Content, Cell, Length
  <2> QED BY <2>2, <2>3 DEF F!vars
<1> QED BY <1>1, <1>2, <1>3, <1>4 DEF Next

\* The indices stay within the ring, whatever its size has become.
THEOREM IndicesStayInRing == Spec => []TypeOK
<1>1. Inv => TypeOK
  BY DEF Inv
<1> QED BY <1>1, InitEmpty, EveryStep, PTL DEF Spec

\* No pop hands out a cell nobody wrote.
THEOREM OnlyPushedMessages == Spec => []NoGarbage
<1>1. Inv => NoGarbage
  BY DEF Inv
<1> QED BY <1>1, InitEmpty, EveryStep, PTL DEF Spec

\* The ring is a first-in-first-out queue: for every initial size, through
\* every wrap and every expansion, each message comes out once and in order.
THEOREM RingIsFifo == Spec => ImplementsFifo
<1>1. Init => F!Init
  BY InitEmpty DEF F!Init
<1> QED BY <1>1, InitEmpty, EveryStep, PTL DEF Spec, ImplementsFifo, F!Spec
=============================================================================
