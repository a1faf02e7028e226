---------------------------- MODULE ClientsProofs ---------------------------
(***************************************************************************)
(* The two programs at the other ends of the gateway's connections, proved *)
(* for any size of the ring, any stream of frames and any sizes of sends.  *)
(*                                                                         *)
(* The keyboard: the lock keeps the two threads out of each other's        *)
(* section, so a line is in the hands of the reader, in the ring between   *)
(* head and tail, or taken; RingInv says so.  The console client takes     *)
(* those steps among its own, and may exit at any of them.                 *)
(***************************************************************************)
EXTENDS MCClients, SeqLemmas

USE StdinQueueAssumption

Line == [n : Nat, whole : BOOLEAN]

\* The fields of struct queue and the variables of the two threads.
RingTypeOK ==
    /\ rpc \in {"fgets", "lock", "store", "check", "ended"}
    /\ mpc \in {"out", "in"}
    /\ lock \in {"nobody", "reader", "main"}
    /\ head \in 0 .. QueueSize - 1 /\ tail \in 0 .. QueueSize - 1
    /\ queue \in [0 .. QueueSize - 1 -> Line]
    /\ str \in Line /\ eof \in BOOLEAN /\ alive \in BOOLEAN
    /\ typed \in Seq(Line) /\ got \in Seq(Line)

\* The spin lock is held by the thread that is in its section.
Locked ==
    /\ lock = "reader" <=> rpc \in {"store", "check"}
    /\ lock = "main" <=> mpc = "in"

RingInv == RingTypeOK /\ Locked /\ LinesInOrder

\* exit(1) of the program, wherever the threads are.
Exit == alive' = FALSE /\ UNCHANGED <<rpc, mpc, lock, ring, input, got>>

-----------------------------------------------------------------------------
(* The ring. *)

\* How many lines wait.
Count == IF head <= tail THEN tail - head ELSE tail + QueueSize - head

\* They are the stretch of the ring that begins at head, and tail is where it ends.
LEMMA WaitingIs ==
    ASSUME RingTypeOK
    PROVE  /\ Waiting = Stretch(queue, head, Count, QueueSize)
           /\ Waiting \in Seq(Line)
           /\ Count \in 0 .. QueueSize - 1
           /\ tail = IF head + Count < QueueSize THEN head + Count ELSE head + Count - QueueSize
           /\ Count = 0 <=> head = tail
<1>1. Waiting = Stretch(queue, head, Count, QueueSize)
  BY DEF Waiting, Stretch, Count
<1>2. /\ Count \in 0 .. QueueSize - 1
      /\ tail = IF head + Count < QueueSize THEN head + Count ELSE head + Count - QueueSize
      /\ Count = 0 <=> head = tail
  BY DEF RingTypeOK, Count
<1>3. /\ QueueSize \in Nat \ {0} /\ queue \in [0 .. QueueSize - 1 -> Line]
      /\ head \in 0 .. QueueSize - 1 /\ str \in Line
  BY DEF RingTypeOK
<1>4. Stretch(queue, head, Count, QueueSize) \in Seq(Line)
  <2> DEFINE n == Count
             p == [queue EXCEPT ![tail] = str]
  <2>1. Stored(p, queue, head, n, QueueSize, str, Line)
    BY <1>2, <1>3 DEF Stored
  <2> HIDE DEF n, p
  <2>2. Stretch(queue, head, n, QueueSize) \in Seq(Line)
    BY <2>1, StretchPush
  <2> QED BY <2>2 DEF n
<1> QED BY <1>1, <1>2, <1>4

\* fgets returns a line.
LEMMA ReadLineKeeps ==
    ASSUME RingInv, ReadLine
    PROVE  RingInv'
<1>1. /\ rpc = "fgets" /\ rpc' = "lock" /\ typed' = Append(typed, str')
      /\ UNCHANGED <<mpc, lock, head, tail, queue, alive, got>>
      /\ str' \in Line /\ eof' \in BOOLEAN
  <2>1. typed \in Seq(Line) /\ Len(typed) + 1 \in Nat
    <3>1. typed \in Seq(Line)
      BY DEF RingInv, RingTypeOK
    <3> HIDE DEF Line
    <3>2. Len(typed) \in Nat
      BY <3>1, LenProperties
    <3> QED BY <3>1, <3>2
  <2>2. PICK newline \in BOOLEAN :
          /\ str' = [n |-> Len(typed) + 1, whole |-> newline]
          /\ eof' \in IF newline THEN {FALSE} ELSE BOOLEAN
    BY DEF ReadLine
  <2>3. str' \in Line
    BY <2>1, <2>2 DEF Line
  <2>4. eof' \in BOOLEAN
    BY <2>2
  <2> QED BY <2>3, <2>4 DEF ReadLine, ring
<1>2. typed \in Seq(Line) /\ got \in Seq(Line) /\ typed' \in Seq(Line)
  BY <1>1 DEF RingInv, RingTypeOK
<1>3. RingTypeOK' /\ Locked'
  BY <1>1, <1>2 DEF RingInv, RingTypeOK, Locked
<1>4. Waiting' = Waiting /\ Waiting \in Seq(Line)
  BY <1>1, WaitingIs DEF RingInv, Waiting
<1>5. typed = got \o Waiting \o <<>> /\ InHand' = <<str'>>
  BY <1>1 DEF RingInv, LinesInOrder, InHand
<1>6. typed' = typed \o <<str'>> /\ typed = got \o Waiting
  BY <1>1, <1>2, <1>4, <1>5, Assoc3, AppendIsConcat
<1>7. LinesInOrder'
  BY <1>1, <1>4, <1>5, <1>6 DEF LinesInOrder
<1> QED BY <1>3, <1>7 DEF RingInv

\* The reader stores the line; if the ring is full after that, head = tail and
\* what was taken still is the beginning of what was typed.
LEMMA ReaderStoresKeeps ==
    ASSUME RingInv, ReaderStores
    PROVE  RingInv'
<1>1. /\ rpc = "store" /\ rpc' = "check"
      /\ queue' = [queue EXCEPT ![tail] = str] /\ tail' = Advance(tail)
      /\ UNCHANGED <<mpc, lock, head, str, eof, typed, alive, got>>
  BY DEF ReaderStores, input
<1>2. RingTypeOK' /\ Locked'
  BY <1>1 DEF RingInv, RingTypeOK, Locked, Advance
<1>3. /\ Waiting = Stretch(queue, head, Count, QueueSize) /\ Waiting \in Seq(Line)
      /\ Count \in 0 .. QueueSize - 1
      /\ tail = IF head + Count < QueueSize THEN head + Count ELSE head + Count - QueueSize
  BY WaitingIs DEF RingInv
<1>4. /\ typed = got \o Waiting \o <<str>> /\ InHand' = <<>>
      /\ got \in Seq(Line) /\ typed \in Seq(Line) /\ str \in Line
  BY <1>1 DEF RingInv, LinesInOrder, InHand, RingTypeOK
<1>5. CASE head' = tail'
  <2>1. IsPrefix(got, typed)
    <3>1. Waiting \o <<str>> \in Seq(Line) /\ typed = got \o (Waiting \o <<str>>)
      BY <1>3, <1>4, Assoc3
    <3>2. Len(got) <= Len(typed) /\ SubSeq(typed, 1, Len(got)) = got
      BY <1>4, <3>1, SubSeqOfConcat1, ConcatProperties
    <3> QED BY <1>4, <3>1, <3>2 DEF IsPrefix
  <2> QED BY <1>1, <1>2, <1>5, <2>1 DEF RingInv, LinesInOrder
<1>6. CASE head' # tail'
  <2>1. Count' = Count + 1
    BY <1>1, <1>3, <1>6 DEF RingInv, RingTypeOK, Advance, Count
  <2>2. Stretch(queue', head, Count + 1, QueueSize) = Append(Waiting, str)
    <3> DEFINE n == Count
               p == queue'
    <3>1. Stored(p, queue, head, n, QueueSize, str, Line)
      BY <1>1, <1>3, <1>4 DEF Stored, RingInv, RingTypeOK
    <3> HIDE DEF n, p
    <3>2. Stretch(p, head, n + 1, QueueSize) = Append(Stretch(queue, head, n, QueueSize), str)
      BY <3>1, StretchPush
    <3> QED BY <1>3, <3>2 DEF n, p
  <2>3. Waiting' = Append(Waiting, str)
    <3>1. Waiting' = Stretch(queue', head', Count', QueueSize)
      BY DEF Waiting, Stretch, Count
    <3> QED BY <1>1, <2>1, <2>2, <3>1
  <2>4. Append(Waiting, str) = Waiting \o <<str>> /\ Append(Waiting, str) \in Seq(Line)
    BY <1>3, <1>4, AppendIsConcat
  <2>5. got \o Waiting' \o <<>> = typed
    BY <1>3, <1>4, <2>3, <2>4, Assoc3
  <2> QED BY <1>1, <1>2, <1>4, <1>6, <2>5 DEF RingInv, LinesInOrder
<1> QED BY <1>5, <1>6

\* lreadstdin takes the line at head.  The reader is not in its section.
LEMMA MainTakesKeeps ==
    ASSUME RingInv, MainTakes
    PROVE  RingInv'
<1>1. /\ mpc = "in" /\ mpc' = "out" /\ lock' = "nobody" /\ head # tail
      /\ got' = Append(got, queue[head]) /\ head' = Advance(head)
      /\ UNCHANGED <<rpc, tail, queue, str, eof, typed, alive>>
  BY DEF MainTakes, input
<1>2. rpc \notin {"store", "check"}
  BY <1>1 DEF RingInv, Locked
<1>3. /\ QueueSize \in Nat \ {0} /\ queue \in [0 .. QueueSize - 1 -> Line]
      /\ head \in 0 .. QueueSize - 1 /\ got \in Seq(Line) /\ queue[head] \in Line
      /\ tail \in 0 .. QueueSize - 1 /\ str \in Line
  BY DEF RingInv, RingTypeOK
<1>4. RingTypeOK' /\ Locked'
  BY <1>1, <1>2, <1>3 DEF RingInv, RingTypeOK, Locked, Advance
<1>5. /\ Waiting = Stretch(queue, head, Count, QueueSize)
      /\ Count \in 1 .. QueueSize
  BY <1>1, <1>3, WaitingIs DEF RingInv
<1>6. Count' = Count - 1
  BY <1>1, <1>3 DEF Advance, Count
<1>7. Waiting' = Stretch(queue, head', Count - 1, QueueSize)
  BY <1>1, <1>6 DEF Waiting, Stretch, Count
<1>8. Waiting' \in Seq(Line) /\ Waiting = <<queue[head]>> \o Waiting'
  <2> DEFINE n == Count
             g == Advance(head)
  <2>1. n \in 1 .. QueueSize /\ g = IF head + 1 >= QueueSize THEN 0 ELSE head + 1
    BY <1>5 DEF Advance
  <2>2. /\ Waiting' = Stretch(queue, g, n - 1, QueueSize)
        /\ Waiting = Stretch(queue, head, n, QueueSize)
    BY <1>1, <1>5, <1>7
  <2> HIDE DEF n, g
  <2>3. /\ Stretch(queue, g, n - 1, QueueSize) \in Seq(Line)
        /\ Stretch(queue, head, n, QueueSize)
             = <<queue[head]>> \o Stretch(queue, g, n - 1, QueueSize)
    <3>3. PICK w, h, c, m, d : w = queue /\ h = head /\ c = QueueSize /\ m = n /\ d = g
      OBVIOUS
    <3>1. /\ c \in Nat \ {0} /\ w \in [0 .. c - 1 -> Line] /\ h \in 0 .. c - 1 /\ m \in 1 .. c
          /\ d = IF h + 1 >= c THEN 0 ELSE h + 1
      BY <1>3, <2>1, <3>3
    <3>2. Stretch(w, d, m - 1, c) \in Seq(Line) /\ Stretch(w, h, m, c) = <<w[h]>> \o Stretch(w, d, m - 1, c)
      <4>1. Stretch(w, d, m - 1, c) \in Seq(Line)
        BY <3>1, StretchPop
      <4>2. Joins(<<w[h]>>, Stretch(w, d, m - 1, c), Stretch(w, h, m, c))
        BY <3>1, StretchPop
      <4> QED BY <4>1, <4>2, Zenon DEF Joins
    <3> QED BY <3>2, <3>3, Zenon
  <2> QED BY <2>2, <2>3
<1>9. typed = got \o Waiting \o InHand /\ InHand' = InHand /\ InHand \in Seq(Line)
  BY <1>1, <1>2, <1>3 DEF RingInv, LinesInOrder, InHand
<1>10. got' = got \o <<queue[head]>> /\ <<queue[head]>> \in Seq(Line)
  BY <1>1, <1>3, AppendIsConcat
<1>11. got' \o Waiting' = got \o Waiting
  BY <1>3, <1>8, <1>10, Assoc3
<1>12. LinesInOrder'
  BY <1>1, <1>2, <1>9, <1>11 DEF LinesInOrder
<1> QED BY <1>4, <1>12 DEF RingInv

\* The steps that move no line.
LEMMA OthersKeep ==
    ASSUME RingInv,
           \/ ReadFails \/ ReaderLocks \/ ReaderOverflows \/ ReaderUnlocks
           \/ MainLocks \/ MainFindsNothing \/ Exit \/ UNCHANGED vars
    PROVE  RingInv'
<1>1. RingTypeOK' /\ Locked'
  BY DEF RingInv, RingTypeOK, Locked, ReadFails, ReaderLocks, ReaderOverflows, ReaderUnlocks,
         MainLocks, MainFindsNothing, Exit, ring, input, vars
<1>2. Waiting' = Waiting
  BY DEF ReadFails, ReaderLocks, ReaderOverflows, ReaderUnlocks, MainLocks, MainFindsNothing,
         Exit, ring, input, vars, Waiting
<1>3. /\ InHand' = InHand /\ UNCHANGED <<got, typed, head, tail>>
      /\ rpc' = "check" <=> rpc = "check"
      \/ ReaderUnlocks
  BY DEF ReadFails, ReaderLocks, ReaderOverflows, MainLocks, MainFindsNothing,
         Exit, ring, input, vars, InHand
<1>4. CASE ReaderUnlocks
  BY <1>1, <1>2, <1>4 DEF RingInv, LinesInOrder, InHand, ReaderUnlocks, ring, input
<1>5. CASE ~ ReaderUnlocks
  BY <1>1, <1>2, <1>3, <1>5 DEF RingInv, LinesInOrder
<1> QED BY <1>4, <1>5

LEMMA RingStep ==
    ASSUME RingInv, [Next \/ Exit]_vars
    PROVE  RingInv'
  BY ReadLineKeeps, ReaderStoresKeeps, MainTakesKeeps, OthersKeep DEF Next, Reader, Main

LEMMA RingStarts ==
    ASSUME Init
    PROVE  RingInv
<1>1. NoLine \in Line /\ <<>> \in Seq(Line)
  BY DEF NoLine, Line
<1>2. RingTypeOK
  <2>1. queue \in [0 .. QueueSize - 1 -> Line]
    BY <1>1 DEF Init
  <2>2. 0 \in 0 .. QueueSize - 1
    OBVIOUS
  <2> QED BY <1>1, <2>1, <2>2 DEF Init, RingTypeOK
<1>3. Waiting = <<>>
  BY DEF Init, Waiting
<1>4. <<>> \o <<>> \o <<>> = <<>>
  BY <1>1, Assoc3
<1> QED BY <1>2, <1>3, <1>4 DEF Init, RingInv, Locked, LinesInOrder, InHand

\* No line that was typed is lost, doubled or taken out of turn, in any ring and
\* under any interleaving of readline_stdin and lreadstdin.
THEOREM RingCorrect == Spec => []LinesInOrder
<1>1. RingInv /\ [Next]_vars => RingInv'
  BY RingStep
<1>2. RingInv => LinesInOrder
  BY DEF RingInv
<1> QED BY <1>1, <1>2, RingStarts, PTL DEF Spec

-----------------------------------------------------------------------------
(* The two streams of the console client. *)

Byte == 0 .. 255

\* What two bytes can tell.
Short == 0 .. 256 * 256 - 1

Body == {body \in Seq(Byte) : Len(body) \in Short}
FrameOf == [body \in Body |-> Frame(body)]

\* The frames of bodies in a row.
Frames(bodies) == Joined(FrameOf, bodies)

\* What was shown, what is kept and what is on its way.
FramesInv ==
    /\ shown \in Seq(Body) /\ last \in Seq(Byte) /\ wire \in Seq(Byte)
    /\ (Frames(shown) \o last) \o wire = Stream

\* A size is written in two bytes.
LEMMA SizeWritten == \A n \in Short : n \in Nat /\ n \div 256 \in Byte /\ n % 256 \in Byte
<1> SUFFICES ASSUME NEW n \in Short PROVE n \in Nat /\ n \div 256 \in Byte /\ n % 256 \in Byte
  OBVIOUS
<1>1. n \in Int /\ 0 <= n /\ n < 256 * 256
  <2>1. \A m \in Int : \A k \in 0 .. m - 1 : k \in Int /\ 0 <= k /\ k < m
    OBVIOUS
  <2>2. 256 * 256 \in Int
    BY SMT
  <2> QED BY <2>1, <2>2, Zenon DEF Short
<1> QED BY <1>1, SMT DEF Byte

\* The two bytes are read as they were written.
LEMMA SizeRead ==
    \A n : \A a, b \in Byte :
        n = a * 256 + b => n \in Short /\ n \div 256 = a /\ n % 256 = b
<1> SUFFICES ASSUME NEW a \in Byte, NEW b \in Byte
             PROVE  /\ a * 256 + b \in Short
                    /\ (a * 256 + b) \div 256 = a /\ (a * 256 + b) % 256 = b
  OBVIOUS
<1>1. a \in Int /\ b \in Int /\ 0 <= a /\ a < 256 /\ 0 <= b /\ b < 256
  BY SMT DEF Byte
<1>2. (a * 256 + b) \div 256 = a
  BY <1>1, SMT
<1>3. (a * 256 + b) % 256 = b
  BY <1>1, SMT
<1>4. a * 256 + b \in Int /\ 0 <= a * 256 + b /\ a * 256 + b <= 256 * 256 - 1 /\ 256 * 256 - 1 \in Int
  BY <1>1, SMT
<1>5. a * 256 + b \in Short
  <2>1. PICK z, w : z = a * 256 + b /\ w = 256 * 256 - 1
    OBVIOUS
  <2>2. z \in Int /\ w \in Int /\ 0 <= z /\ z <= w
    BY <1>4, <2>1
  <2>3. z \in 0 .. w
    BY <2>2
  <2>4. Short = 0 .. w
    BY <2>1 DEF Short
  <2> QED BY <2>1, <2>3, <2>4
<1> QED BY <1>2, <1>3, <1>5

LEMMA FrameBytes == FrameOf \in [Body -> Seq(Byte)]
<1>1. ASSUME NEW body \in Body PROVE Frame(body) \in Seq(Byte)
  <2>1. body \in Seq(Byte) /\ Len(body) \in Short
    BY DEF Body
  <2>2. Len(body) \div 256 \in Byte /\ Len(body) % 256 \in Byte
    BY <2>1, SizeWritten
  <2>3. <<Len(body) \div 256, Len(body) % 256>> \in Seq(Byte)
    BY <2>2
  <2> QED BY <2>1, <2>3, ConcatProperties DEF Frame
<1> QED BY <1>1 DEF FrameOf

LEMMA StreamBytes == Stream \in Seq(Byte) /\ Bodies \in Seq(Body)
<1>1. Bodies \in Seq(Body)
  <2>1. 2 .. 256 * 256 - 1 \subseteq Short
    <3>1. \A n \in Int : 2 .. n \subseteq 0 .. n
      OBVIOUS
    <3>2. 256 * 256 - 1 \in Int
      BY SMT
    <3> QED BY <3>1, <3>2, Zenon DEF Short
  <2>2. PICK A : A = {body \in Seq(0 .. 255) : Len(body) \in 2 .. 256 * 256 - 1}
    OBVIOUS
  <2>3. A \subseteq Body
    BY <2>1, <2>2 DEF Body, Byte
  <2>4. Bodies \in Seq(A)
    BY <2>2, ConsoleClientAssumption
  <2>5. Seq(A) \subseteq Seq(Body)
    BY <2>3
  <2> QED BY <2>4, <2>5
<1>2. \A i \in 1 .. Len(Bodies) : FrameOf[Bodies[i]] = Frame(Bodies[i])
  BY <1>1 DEF FrameOf
<1>3. Stream = Joined(FrameOf, Bodies)
  BY <1>2 DEF Stream, Joined
<1> QED BY <1>1, <1>3, FrameBytes, JoinedType

LEMMA ByteAssoc ==
    \A a, b, c \in Seq(Byte) : Assoc(a, b, c)
  BY AssocAll

LEMMA ByteConcat ==
    \A a, b \in Seq(Byte) : a \o b \in Seq(Byte)
  BY ConcatProperties

\* One more frame.
LEMMA FramesAppend ==
    ASSUME NEW bodies \in Seq(Body), NEW body \in Body
    PROVE  /\ Frames(Append(bodies, body)) = Frames(bodies) \o Frame(body)
           /\ Frames(bodies) \in Seq(Byte) /\ Frame(body) \in Seq(Byte)
<1>1. FrameOf[body] = Frame(body) /\ Frame(body) \in Seq(Byte)
  BY FrameBytes DEF FrameOf
<1>2. Joined(FrameOf, Append(bodies, body)) = Joined(FrameOf, bodies) \o FrameOf[body]
  <2>1. Joins(Joined(FrameOf, bodies), FrameOf[body], Joined(FrameOf, Append(bodies, body)))
    BY FrameBytes, JoinedAppend
  <2> QED BY <2>1, Zenon DEF Joins
<1>3. Joined(FrameOf, bodies) \in Seq(Byte)
  BY FrameBytes, JoinedType
<1> QED BY <1>1, <1>2, <1>3 DEF Frames

LEMMA FramesShown ==
    ASSUME shown \in Seq(Body)
    PROVE  Frames(shown) = FlattenSeq([i \in 1 .. Len(shown) |-> Frame(shown[i])])
<1>1. \A i \in 1 .. Len(shown) : FrameOf[shown[i]] = Frame(shown[i])
  BY DEF FrameOf
<1> QED BY <1>1 DEF Frames, Joined

\* A text with a whole frame is that frame and the rest.
LEMMA SplitWhole ==
    ASSUME NEW text \in Seq(Byte), Whole(text)
    PROVE  /\ SubSeq(text, 3, 2 + Size(text)) \in Body
           /\ Rest(text) \in Seq(Byte)
           /\ text = Frame(SubSeq(text, 3, 2 + Size(text))) \o Rest(text)
<1> DEFINE size == Size(text)
           n == Len(text)
           body == SubSeq(text, 3, 2 + size)
<1>1. /\ n \in Nat /\ n >= 2 /\ text[1] \in Byte /\ text[2] \in Byte
      /\ n >= 2 + size /\ size = text[1] * 256 + text[2]
  <2>1. n \in Nat /\ n >= 2 /\ n >= text[1] * 256 + text[2] + 2
    BY DEF Whole
  <2>2. 1 \in 1 .. n /\ 2 \in 1 .. n
    BY <2>1
  <2>3. text[1] \in Byte /\ text[2] \in Byte
    BY <2>2
  <2>4. text[1] * 256 + text[2] \in Nat
    BY <2>3, SizeRead, SizeWritten
  <2>5. n >= 2 + size
    BY <2>1, <2>4 DEF Size
  <2> QED BY <2>1, <2>3, <2>5 DEF Size
<1> HIDE DEF size
<1>2. size \in Nat /\ size \in Short /\ size \div 256 = text[1] /\ size % 256 = text[2]
  <2> DEFINE a == text[1]
             b == text[2]
  <2>1. a \in Byte /\ b \in Byte /\ size = a * 256 + b
    BY <1>1
  <2> HIDE DEF a, b
  <2>2. size \in Short /\ size \div 256 = a /\ size % 256 = b
    BY <2>1, SizeRead
  <2> QED BY <2>2, SizeWritten DEF a, b
<1>3. body \in Seq(Byte) /\ Len(body) = size
  <2>1. \A i \in 3 .. 2 + size : text[i] \in Byte
    BY <1>1, <1>2
  <2>2. 3 \in Int /\ 2 + size \in Int
    BY <1>2
  <2>3. /\ body \in Seq(Byte)
        /\ Len(body) = IF 3 <= 2 + size THEN (2 + size) - 3 + 1 ELSE 0
    BY <2>1, <2>2, SubSeqProperties
  <2> QED BY <1>2, <2>3
<1>4. Rest(text) = SubSeq(text, 3 + size, n) /\ Rest(text) \in Seq(Byte)
  <2>1. \A i \in 3 + size .. n : text[i] \in Byte
    BY <1>1, <1>2
  <2>2. 3 + size \in Int /\ n \in Int
    BY <1>1, <1>2
  <2>3. SubSeq(text, 3 + size, n) \in Seq(Byte)
    BY <2>1, <2>2, SubSeqProperties
  <2> QED BY <2>3 DEF Rest, size
<1>5. SubSeq(text, 1, 2) = <<text[1], text[2]>>
  <2> DEFINE a == SubSeq(text, 1, 2)
             b == <<text[1], text[2]>>
  <2>1. \A i \in 1 .. 2 : text[i] \in Byte
    BY <1>1
  <2>2. /\ a \in Seq(Byte) /\ Len(a) = 2 /\ \A i \in 1 .. 2 : a[i] = text[1 + i - 1]
    BY <2>1
  <2>3. b \in Seq(Byte) /\ Len(b) = 2 /\ b[1] = text[1] /\ b[2] = text[2]
    BY <1>1
  <2>4. \A i \in 1 .. 2 : a[i] = b[i]
    BY <2>2, <2>3
  <2> HIDE DEF a, b
  <2> QED BY <2>2, <2>3, <2>4, SeqEqual DEF a, b
<1>6. SubSeq(text, 1, 2) \o body = SubSeq(text, 1, 2 + size)
  <2> DEFINE k == 2
             m == 2 + size
  <2>1. /\ 1 \in 1 .. Len(text) + 1 /\ k \in 1 - 1 .. Len(text) /\ m \in k .. Len(text)
        /\ k + 1 = 3
    BY <1>1, <1>2
  <2> HIDE DEF k, m
  <2>2. SubSeq(text, 1, k) \o SubSeq(text, k + 1, m) = SubSeq(text, 1, m)
    BY <2>1, ConcatAdjacentSubSeq
  <2>3. SubSeq(text, 1, k) \o SubSeq(text, 3, m) = SubSeq(text, 1, m)
    BY <2>1, <2>2
  <2> QED BY <2>3 DEF k, m
<1>7. SubSeq(text, 1, 2 + size) \o Rest(text) = text
  <2> DEFINE k == 2 + size
  <2>1. 1 \in 1 .. Len(text) + 1 /\ k \in 1 - 1 .. Len(text) /\ n \in k .. Len(text)
    BY <1>1, <1>2
  <2>2. k + 1 = 3 + size
    BY <1>2
  <2> HIDE DEF k
  <2>3. SubSeq(text, 1, k) \o SubSeq(text, k + 1, n) = SubSeq(text, 1, n)
    BY <2>1, ConcatAdjacentSubSeq
  <2>4. SubSeq(text, 1, n) = text
    BY SubSeqFull
  <2> QED BY <1>4, <2>2, <2>3, <2>4 DEF k
<1>8. Frame(body) = SubSeq(text, 1, 2) \o body
  BY <1>2, <1>3, <1>5 DEF Frame
<1>9. body \in Body
  BY <1>2, <1>3 DEF Body
<1> QED BY <1>4, <1>6, <1>7, <1>8, <1>9 DEF size

\* unpack_package and the assignments after it move bytes from the text to what is shown.
LEMMA UnpackedKeeps ==
    ASSUME NEW text \in Seq(Byte), NEW w \in Seq(Byte), shown \in Seq(Body),
           (Frames(shown) \o text) \o w = Stream, Unpacked(text), wire' = w
    PROVE  FramesInv'
<1>1. CASE Whole(text)
  <2> DEFINE body == SubSeq(text, 3, 2 + Size(text))
             rest == Rest(text)
             done == Frames(shown)
             frame == Frame(body)
  <2>1. shown' = Append(shown, body) /\ last' = rest
    BY <1>1 DEF Unpacked
  <2>2. body \in Body /\ rest \in Seq(Byte) /\ text = frame \o rest
    BY <1>1, SplitWhole
  <2> HIDE DEF body, rest
  <2>3. Frames(shown') = done \o frame /\ done \in Seq(Byte) /\ frame \in Seq(Byte)
    <3>1. Frames(Append(shown, body)) = Frames(shown) \o Frame(body)
      BY <2>2, FramesAppend
    <3> QED BY <2>1, <2>2, <3>1, FramesAppend
  <2> HIDE DEF done, frame
  <2>4. (done \o frame) \o rest = done \o (frame \o rest)
    <3>1. done \in Seq(Byte) /\ frame \in Seq(Byte) /\ rest \in Seq(Byte)
      BY <2>2, <2>3
    <3>2. Assoc(done, frame, rest)
      BY <3>1, ByteAssoc
    <3> QED BY <3>2 DEF Assoc
  <2>5. (Frames(shown') \o last') \o wire' = Stream
    BY <2>1, <2>2, <2>3, <2>4 DEF done
  <2>6. shown' \in Seq(Body)
    BY <2>1, <2>2, AppendProperties
  <2> QED BY <2>1, <2>2, <2>5, <2>6 DEF FramesInv, Frames, Joined
<1>2. CASE ~ Whole(text)
  BY <1>2 DEF Unpacked, FramesInv, Frames
<1> QED BY <1>1, <1>2

LEMMA FramesStep ==
    ASSUME FramesInv, [ClientNext]_allvars
    PROVE  FramesInv'
<1>1. /\ shown \in Seq(Body) /\ last \in Seq(Byte) /\ wire \in Seq(Byte)
      /\ (Frames(shown) \o last) \o wire = Stream
      /\ Frames(shown) \in Seq(Byte)
  BY FrameBytes, JoinedType DEF FramesInv, Frames
<1>2. CASE TakeKept
  BY <1>1, <1>2, UnpackedKeeps DEF TakeKept
<1>3. CASE Recv
  <2>1. PICK k \in 1 .. CacheSize :
          /\ k <= Len(wire)
          /\ Unpacked(last \o SubSeq(wire, 1, k))
          /\ wire' = SubSeq(wire, k + 1, Len(wire))
    BY <1>3 DEF Recv
  <2> DEFINE a == SubSeq(wire, 1, k)
             w == SubSeq(wire, k + 1, Len(wire))
  <2>2. a \in Seq(Byte) /\ w \in Seq(Byte)
    BY <1>1, <2>1
  <2>3. a \o w = wire
    <3>1. 1 \in 1 .. Len(wire) + 1 /\ k \in 1 - 1 .. Len(wire) /\ Len(wire) \in k .. Len(wire)
      BY <1>1, <2>1
    <3>2. a \o w = SubSeq(wire, 1, Len(wire))
      BY <1>1, <3>1, ConcatAdjacentSubSeq
    <3> QED BY <1>1, <3>2, SubSeqFull
  <2>4. Unpacked(last \o a) /\ wire' = w
    BY <2>1
  <2> HIDE DEF a, w
  <2> DEFINE text == last \o a
  <2>5. text \in Seq(Byte)
    BY <1>1, <2>2, ConcatProperties
  <2>6. (Frames(shown) \o text) \o w = Stream
    <3> DEFINE done == Frames(shown)
    <3>1. done \in Seq(Byte) /\ (done \o last) \o wire = Stream
      BY <1>1
    <3> HIDE DEF done
    <3>2. (done \o last) \o (a \o w) = ((done \o last) \o a) \o w
      <4>1. done \o last \in Seq(Byte)
        BY <1>1, <3>1, ByteConcat
      <4> PICK p : p = done \o last
        OBVIOUS
      <4>2. Assoc(p, a, w)
        BY <2>2, <4>1, ByteAssoc
      <4>3. p \o (a \o w) = (p \o a) \o w
        BY <4>2, Zenon DEF Assoc
      <4> QED BY <4>3, Zenon
    <3>3. (done \o last) \o a = done \o (last \o a)
      <4>1. Assoc(done, last, a)
        BY <1>1, <2>2, <3>1, ByteAssoc
      <4> QED BY <4>1 DEF Assoc
    <3> QED BY <2>3, <3>1, <3>2, <3>3 DEF done
  <2>7. Unpacked(text)
    BY <2>4
  <2> HIDE DEF text
  <2> QED BY <1>1, <2>2, <2>4, <2>5, <2>6, <2>7, UnpackedKeeps
<1>4. CASE UNCHANGED <<shown, last, wire>>
  BY <1>1, <1>4 DEF FramesInv, Frames
<1> QED
  BY <1>2, <1>3, <1>4
  DEF ClientNext, Receiving, Commanding, Connects, ConnectFails, NeedMore, RecvBlocks, RecvEnds,
      FrameFails, GatewayCloses, StdinLocks, NoCommand, TakesCommand, CommandFails, Sends, SendDone,
      cvars, allvars

\* The commands as they were packed, each as the bytes 1 to PackSize of its line.
Cell == Nat \X Nat
Pack(i) == [j \in 1 .. PackSize |-> <<i, j>>]
Packs(n) == FlattenSeq([i \in 1 .. n |-> Pack(i)])

\* What block_send has still to write of the last one.
Left == [j \in 1 .. unsent |-> <<Len(got), PackSize - unsent + j>>]

\* The program is in its section of the ring only where it calls readstdin.
PacksInv ==
    /\ unsent \in 0 .. PackSize /\ (at # "send" => unsent = 0)
    /\ mpc = "in" => at = "stdin"
    /\ out \in Seq(Cell) /\ out \o Left = Packs(Len(got))

LEMMA PacksGrow ==
    ASSUME NEW n \in Nat
    PROVE  /\ Packs(n) \in Seq(Cell) /\ Pack(n + 1) \in Seq(Cell)
           /\ Packs(n + 1) = Packs(n) \o Pack(n + 1)
           /\ Packs(0) = <<>>
<1>1. PackSize \in Nat
  BY ConsoleClientAssumption
<1>2. \A i \in Nat : Pack(i) \in Seq(Cell)
  BY <1>1 DEF Pack, Cell
<1> DEFINE t == [i \in 1 .. n |-> Pack(i)]
           u == [i \in 1 .. n + 1 |-> Pack(i)]
           x == Pack(n + 1)
<1>3. t \in Seq(Seq(Cell)) /\ u \in Seq(Seq(Cell)) /\ x \in Seq(Cell)
  <2>1. \A i \in 1 .. n + 1 : Pack(i) \in Seq(Cell)
    BY <1>2
  <2> QED BY <1>2, <2>1
<1>4. /\ Len(t) = n /\ Len(u) = n + 1 /\ u[n + 1] = x
      /\ \A i \in 1 .. n : u[i] = t[i]
  OBVIOUS
<1>5. Packs(n) = FlattenSeq(t) /\ Packs(n + 1) = FlattenSeq(u)
  BY DEF Packs
<1>6. Packs(0) = <<>>
  <2>1. [i \in 1 .. 0 |-> Pack(i)] = <<>>
    OBVIOUS
  <2> QED BY <2>1 DEF Packs, FlattenSeq
<1> HIDE DEF t, u, x
<1>7. u = Append(t, x)
  BY <1>3, <1>4, IsAppend
<1>8. FlattenSeq(Append(t, x)) = FlattenSeq(t) \o x /\ FlattenSeq(t) \in Seq(Cell)
  BY <1>3, FlattenAppend, FlattenType
<1> QED BY <1>3, <1>5, <1>6, <1>7, <1>8 DEF x

LEMMA PacksLength == \A n \in Nat : Len(Packs(n)) = n * PackSize
<1> DEFINE T == {n \in Nat : Len(Packs(n)) = n * PackSize}
<1>1. PackSize \in Nat
  BY ConsoleClientAssumption
<1>2. 0 \in T
  <2>1. Packs(0) = <<>> /\ 0 * PackSize = 0
    BY <1>1, PacksGrow
  <2> QED BY <2>1
<1>3. ASSUME NEW n \in T PROVE n + 1 \in T
  <2>1. n \in Nat /\ n + 1 \in Nat /\ Len(Packs(n)) = n * PackSize
    OBVIOUS
  <2>2. Packs(n) \in Seq(Cell) /\ Pack(n + 1) \in Seq(Cell) /\ Packs(n + 1) = Packs(n) \o Pack(n + 1)
    BY <2>1, PacksGrow
  <2>3. Len(Pack(n + 1)) = PackSize
    BY <1>1 DEF Pack
  <2>4. Len(Packs(n + 1)) = n * PackSize + PackSize
    BY <2>1, <2>2, <2>3, ConcatProperties
  <2>5. (n + 1) * PackSize = n * PackSize + PackSize
    BY <1>1, <2>1
  <2> QED BY <2>1, <2>4, <2>5
<1> HIDE DEF T
<1>4. T \subseteq Nat
  BY DEF T
<1>5. T = Nat
  BY <1>2, <1>3, <1>4, Induction
<1> QED BY <1>5 DEF T

LEMMA CellConcat ==
    ASSUME NEW a \in Seq(Cell), NEW b \in Seq(Cell), NEW c \in Seq(Cell)
    PROVE  (a \o b) \o c = a \o (b \o c) /\ a \o b \in Seq(Cell) /\ a \o <<>> = a
  BY ConcatAssociative, ConcatProperties, ConcatEmptySeq

LEMMA LeftIs ==
    ASSUME unsent \in 0 .. PackSize, Len(got) \in Nat
    PROVE  Left \in Seq(Cell) /\ Len(Left) = unsent
<1>1. PackSize \in Nat
  BY ConsoleClientAssumption
<1>2. \A j \in 1 .. unsent : PackSize - unsent + j \in Nat
  BY <1>1
<1> QED BY <1>1, <1>2 DEF Left, Cell

\* send() takes k bytes of what is left.
LEMMA SendsKeeps ==
    ASSUME PacksInv, got \in Seq(Line), Sends
    PROVE  PacksInv'
<1>1. PICK k \in 1 .. unsent :
        /\ out' = out \o [j \in 1 .. k |-> <<Len(got), PackSize - unsent + j>>]
        /\ unsent' = unsent - k
  BY DEF Sends
<1>2. at = "send" /\ UNCHANGED <<at, mpc, got>>
  BY DEF Sends, vars
<1>3. /\ PackSize \in Nat /\ Len(got) \in Nat /\ unsent \in 0 .. PackSize
      /\ out \in Seq(Cell) /\ out \o Left = Packs(Len(got))
  <2>1. PackSize \in Nat
    BY ConsoleClientAssumption
  <2>2. Len(got) \in Nat
    BY LenProperties
  <2> QED BY <2>1, <2>2 DEF PacksInv
<1> DEFINE now == [j \in 1 .. k |-> <<Len(got), PackSize - unsent + j>>]
           rest == unsent - k
           later == [j \in 1 .. rest |-> <<Len(got), PackSize - rest + j>>]
<1>4. now \in Seq(Cell) /\ Len(now) = k
  <2>1. \A j \in 1 .. k : PackSize - unsent + j \in Nat
    BY <1>1, <1>3
  <2> QED BY <1>3, <2>1 DEF Cell
<1>5. Left' = later /\ later \in Seq(Cell) /\ Len(later) = rest
  <2>1. rest \in Nat /\ \A j \in 1 .. rest : PackSize - rest + j \in Nat
    BY <1>1, <1>3
  <2> QED BY <1>1, <1>2, <1>3, <2>1 DEF Cell, Left
<1>6. now \o later = Left
  <2>1. /\ \A i \in 1 .. unsent : (now \o later)[i] = IF i <= k THEN now[i] ELSE later[i - k]
        /\ now \o later \in Seq(Cell) /\ Len(now \o later) = unsent
    <3> HIDE DEF now, later
    <3>1. /\ now \o later \in Seq(Cell) /\ Len(now \o later) = k + rest
          /\ \A i \in 1 .. k + rest : (now \o later)[i] = IF i <= k THEN now[i] ELSE later[i - k]
      <4> PICK a, b : a = now /\ b = later
        OBVIOUS
      <4>1. a \in Seq(Cell) /\ b \in Seq(Cell) /\ Len(a) = k /\ Len(b) = rest
        BY <1>4, <1>5
      <4>2. /\ a \o b \in Seq(Cell) /\ Len(a \o b) = Len(a) + Len(b)
            /\ \A i \in 1 .. Len(a) + Len(b) : (a \o b)[i] = IF i <= Len(a) THEN a[i] ELSE b[i - Len(a)]
        BY <4>1, ConcatProperties
      <4> QED BY <4>1, <4>2
    <3>2. k + rest = unsent
      BY <1>1, <1>3
    <3> QED BY <3>1, <3>2
  <2>2. ASSUME NEW i \in 1 .. unsent PROVE (now \o later)[i] = Left[i]
    <3>1. Left[i] = <<Len(got), PackSize - unsent + i>>
      BY DEF Left
    <3>2. CASE i <= k
      <4>1. i \in 1 .. k
        BY <1>3, <3>2
      <4> QED BY <2>1, <3>1, <3>2, <4>1
    <3>3. CASE ~ (i <= k)
      <4>1. i - k \in 1 .. rest /\ PackSize - rest + (i - k) = PackSize - unsent + i
        BY <1>1, <1>3, <3>3
      <4> QED BY <2>1, <3>1, <3>3, <4>1
    <3> QED BY <3>2, <3>3
  <2>3. Left \in Seq(Cell) /\ Len(Left) = unsent
    BY <1>3, LeftIs
  <2> HIDE DEF now, later
  <2> QED BY <2>1, <2>2, <2>3, SeqEqual
<1> HIDE DEF now, later
<1>7. out' = out \o now /\ out' \in Seq(Cell)
  BY <1>1, <1>3, <1>4, CellConcat DEF now
<1>8. out' \o Left' = Packs(Len(got'))
  <2>1. (out \o now) \o later = out \o (now \o later)
    <3>1. out \in Seq(Cell) /\ now \in Seq(Cell) /\ later \in Seq(Cell)
      BY <1>3, <1>4, <1>5
    <3> QED BY <3>1, CellConcat
  <2> QED BY <1>2, <1>3, <1>5, <1>6, <1>7, <2>1
<1>9. unsent' \in 0 .. PackSize
  BY <1>1, <1>3
<1> QED BY <1>2, <1>7, <1>8, <1>9 DEF PacksInv

\* A line is taken: nothing of the last command was left.
LEMMA TakesCommandKeeps ==
    ASSUME PacksInv, RingTypeOK, TakesCommand
    PROVE  PacksInv'
<1>1. /\ mpc = "in" /\ mpc' = "out" /\ at' = "send" /\ unsent' = PackSize /\ UNCHANGED out
      /\ got' = Append(got, queue[head])
  BY DEF TakesCommand, MainTakes
<1>2. /\ PackSize \in Nat /\ unsent = 0 /\ out \in Seq(Cell) /\ out \o Left = Packs(Len(got))
      /\ got \in Seq(Line) /\ queue[head] \in Line
  BY <1>1, ConsoleClientAssumption DEF PacksInv, RingTypeOK
<1> DEFINE n == Len(got)
<1>3. n \in Nat /\ Len(got') = n + 1
  BY <1>1, <1>2, AppendProperties
<1>4. Left = <<>>
  BY <1>2 DEF Left
<1>5. out = Packs(n)
  BY <1>2, <1>4, CellConcat
<1>6. Left' = Pack(n + 1)
  <2>1. \A j \in 1 .. PackSize : PackSize - PackSize + j = j
    BY <1>2
  <2> QED BY <1>1, <1>3, <2>1 DEF Left, Pack
<1>7. out' \o Left' = Packs(Len(got'))
  BY <1>1, <1>3, <1>5, <1>6, PacksGrow
<1> QED BY <1>1, <1>2, <1>7 DEF PacksInv

LEMMA PacksStep ==
    ASSUME PacksInv, RingTypeOK, [ClientNext]_allvars
    PROVE  PacksInv'
<1>1. CASE Sends
  BY <1>1, SendsKeeps DEF RingTypeOK
<1>2. CASE TakesCommand
  BY <1>2, TakesCommandKeeps
<1>3. CASE UNCHANGED <<got, unsent, out>> /\ (at' # "send" => unsent' = 0) /\ (mpc' = "in" => at' = "stdin")
  BY <1>3 DEF PacksInv, Left
<1>4. CASE Reader /\ UNCHANGED cvars
  BY <1>3, <1>4 DEF PacksInv, cvars, Reader, ReadLine, ReadFails, ReaderLocks, ReaderStores,
     ReaderOverflows, ReaderUnlocks, ring, input
<1>5. CASE Receiving
  BY <1>3, <1>5
  DEF PacksInv, Receiving, Connects, ConnectFails, TakeKept, NeedMore, Recv, RecvBlocks, RecvEnds,
      Unpacked, cvars, vars
<1>6. CASE FrameFails \/ GatewayCloses \/ StdinLocks
  BY <1>3, <1>6 DEF PacksInv, FrameFails, GatewayCloses, StdinLocks, MainLocks, cvars, vars
<1>7. CASE NoCommand \/ CommandFails \/ SendDone
  BY <1>3, <1>7 DEF PacksInv, NoCommand, MainFindsNothing, CommandFails, SendDone, cvars, vars
<1>8. CASE UNCHANGED allvars
  BY <1>3, <1>8 DEF PacksInv, allvars, cvars, vars
<1> QED BY <1>1, <1>2, <1>4, <1>5, <1>6, <1>7, <1>8 DEF ClientNext, Commanding

\* The rest of what StreamsExact says, for the whole console client.
ConsoleInv == RingInv /\ FramesInv /\ PacksInv

LEMMA ConsoleStarts ==
    ASSUME ClientInit
    PROVE  ConsoleInv
<1>1. RingInv
  BY RingStarts DEF ClientInit
<1>2. FramesInv
  <2>1. Frames(<<>>) = <<>> /\ Stream \in Seq(Byte) /\ <<>> \in Seq(Body) /\ <<>> \in Seq(Byte)
    BY JoinedEmpty, StreamBytes DEF Frames
  <2>2. (<<>> \o <<>>) \o Stream = Stream
    BY <2>1, ConcatEmptySeq
  <2> QED BY <2>1, <2>2 DEF ClientInit, FramesInv
<1>3. PacksInv
  <2>1. PackSize \in Nat
    BY ConsoleClientAssumption
  <2>2. Left = <<>> /\ Len(got) = 0 /\ out = <<>> /\ unsent = 0
    BY DEF ClientInit, Init, Left
  <2>3. Packs(0) = <<>> /\ <<>> \in Seq(Cell) /\ <<>> \o <<>> = <<>>
    BY PacksGrow, CellConcat
  <2> QED BY <2>1, <2>2, <2>3 DEF ClientInit, Init, PacksInv
<1> QED BY <1>1, <1>2, <1>3 DEF ConsoleInv

LEMMA ConsoleStep ==
    ASSUME ConsoleInv, [ClientNext]_allvars
    PROVE  ConsoleInv'
<1>1. [Next \/ Exit]_vars
  BY DEF ClientNext, Receiving, Commanding, Connects, ConnectFails, TakeKept, Recv, NeedMore,
         RecvBlocks, RecvEnds, FrameFails, GatewayCloses, StdinLocks, NoCommand, TakesCommand,
         CommandFails, Sends, SendDone, allvars, Next, Main, Exit
<1> QED BY <1>1, RingStep, FramesStep, PacksStep DEF ConsoleInv, RingInv

LEMMA ConsoleExact ==
    ASSUME ConsoleInv
    PROVE  LinesInOrder /\ StreamsExact
<1>1. FramesExact
  BY FramesShown DEF ConsoleInv, FramesInv, FramesExact
<1>2. PacksInOrder
  <2> DEFINE n == Len(got)
  <2>1. /\ n \in Nat /\ out \in Seq(Cell) /\ out \o Left = Packs(n) /\ PackSize \in Nat
        /\ unsent \in 0 .. PackSize
    BY ConsoleClientAssumption, LenProperties DEF ConsoleInv, RingInv, RingTypeOK, PacksInv
  <2>2. Left \in Seq(Cell) /\ Len(Left) = unsent
    BY <2>1, LeftIs
  <2>3. Len(Packs(n)) = n * PackSize
    BY <2>1, PacksLength
  <2>4. Len(out) + unsent = n * PackSize /\ Len(out) \in Nat
    BY <2>1, <2>2, <2>3, ConcatProperties
  <2>5. n * PackSize - unsent = Len(out)
    BY <2>1, <2>4
  <2>6. SubSeq(Packs(n), 1, Len(out)) = out
    BY <2>1, <2>2, PrefixOfConcat
  <2> QED BY <2>5, <2>6 DEF PacksInOrder, Packs, Pack
<1> QED BY <1>1, <1>2 DEF StreamsExact, ConsoleInv, RingInv

\* The same in the console client, whose program is one of the two threads and may
\* end the process anywhere.
THEOREM ClientRingCorrect == ClientSpec => []LinesInOrder
<1>1. ConsoleInv /\ [ClientNext]_allvars => ConsoleInv'
  BY ConsoleStep
<1>2. ConsoleInv => LinesInOrder
  BY ConsoleExact
<1> QED BY <1>1, <1>2, ConsoleStarts, PTL DEF ClientSpec

\* Whatever recv and send cut the two streams into: bodies are shown whole and in
\* order and commands are written whole and in order, no byte lost or doubled
\* (client.lua:66-92, block_send).
THEOREM ClientStreamsCorrect == ClientSpec => []StreamsExact
<1>1. ConsoleInv /\ [ClientNext]_allvars => ConsoleInv'
  BY ConsoleStep
<1>2. ConsoleInv => StreamsExact
  BY ConsoleExact
<1> QED BY <1>1, <1>2, ConsoleStarts, PTL DEF ClientSpec

-----------------------------------------------------------------------------
(* The logic server's socket: what ClientSocketProofs shows of its steps holds *)
(* of them here, where tail and peer have other names.                       *)

SP == INSTANCE ClientSocketProofs WITH tail <- wbTail, peer <- other

LEMMA SameSteps == [S!Next]_socketVars => [SP!Next]_SP!vars
<1> SUFFICES ASSUME [S!Next]_socketVars PROVE [SP!Next]_SP!vars
  OBVIOUS
<1>1. S!Connect => SP!Connect
  BY DEF S!Connect, SP!Connect, S!Nil, SP!Nil, S!inbox, SP!inbox, S!sends, SP!sends
<1>2. S!ConnectFails => SP!ConnectFails
  BY DEF S!ConnectFails, SP!ConnectFails, S!others, SP!others, S!socket, SP!socket, S!outbox,
         SP!outbox, S!inbox, SP!inbox, S!sends, SP!sends
<1>3. S!LoopStarts => SP!LoopStarts
  BY DEF S!LoopStarts, SP!LoopStarts, S!others, SP!others, S!socket, SP!socket, S!outbox,
         SP!outbox, S!inbox, SP!inbox, S!sends, SP!sends
<1>4. S!FlushEnds => SP!FlushEnds
  BY DEF S!FlushEnds, SP!FlushEnds, S!Nil, SP!Nil, S!ToRead, SP!ToRead, S!socket, SP!socket,
         S!inbox, SP!inbox, S!sends, SP!sends
<1>5. S!FlushWrites => SP!FlushWrites
  BY DEF S!FlushWrites, SP!FlushWrites, S!WriteTakes, SP!WriteTakes, S!Bytes, SP!Bytes, S!Node,
         SP!Node, S!ToRead, SP!ToRead, S!socket, SP!socket, S!inbox, SP!inbox
<1>6. S!FlushBlocks => SP!FlushBlocks
  BY DEF S!FlushBlocks, SP!FlushBlocks, S!ToRead, SP!ToRead, S!others, SP!others, S!socket,
         SP!socket, S!outbox, SP!outbox, S!inbox, SP!inbox, S!sends, SP!sends
<1>7. S!FlushFails => SP!FlushFails
  BY DEF S!FlushFails, SP!FlushFails, S!Broken, SP!Broken, S!ForceClose, SP!ForceClose, S!Nil,
         SP!Nil, S!sends, SP!sends
<1>8. S!ReadChunk => SP!ReadChunk
  BY DEF S!ReadChunk, SP!ReadChunk, S!socket, SP!socket, S!outbox, SP!outbox, S!sends, SP!sends
<1>9. S!ReadBlocks => SP!ReadBlocks
  BY DEF S!ReadBlocks, SP!ReadBlocks, S!others, SP!others, S!socket, SP!socket, S!outbox,
         SP!outbox, S!inbox, SP!inbox, S!sends, SP!sends
<1>10. S!ReadEnds => SP!ReadEnds
  BY DEF S!ReadEnds, SP!ReadEnds, S!ForceClose, SP!ForceClose, S!Nil, SP!Nil, S!sends, SP!sends
<1>11. S!Disconnect => SP!Disconnect
  BY DEF S!Disconnect, SP!Disconnect, S!outbox, SP!outbox, S!inbox, SP!inbox, S!sends, SP!sends
<1>12. S!PopDelivers => SP!PopDelivers
  BY DEF S!PopDelivers, SP!PopDelivers, S!socket, SP!socket, S!outbox, SP!outbox, S!sends,
         SP!sends
<1>13. S!PopEnds => SP!PopEnds
  BY DEF S!PopEnds, SP!PopEnds, S!others, SP!others, S!socket, SP!socket, S!outbox, SP!outbox,
         S!inbox, SP!inbox, S!sends, SP!sends
<1>14. S!PopCrashes => SP!PopCrashes
  BY DEF S!PopCrashes, SP!PopCrashes, S!others, SP!others, S!socket, SP!socket, S!outbox,
         SP!outbox, S!inbox, SP!inbox, S!sends, SP!sends
<1>15. S!Send => SP!Send
  BY DEF S!Send, SP!Send, S!SendRefused, SP!SendRefused, S!outbox, SP!outbox, S!SendNow,
         SP!SendNow, S!WriteTakes, SP!WriteTakes, S!Bytes, SP!Bytes, S!AppendBuffer,
         SP!AppendBuffer, S!Node, SP!Node, S!Take, SP!Take, S!SendLater, SP!SendLater,
         S!SendFails, SP!SendFails, S!Broken, SP!Broken, S!ForceClose, SP!ForceClose, S!Nil,
         SP!Nil
<1>16. S!Callback => SP!Callback
  BY <1>15 DEF S!Callback, SP!Callback, S!outbox, SP!outbox, S!others, SP!others, S!socket, SP!socket,
         S!inbox, SP!inbox, S!sends, SP!sends
<1>17. S!SendIdle => SP!SendIdle
  BY <1>15 DEF S!SendIdle, SP!SendIdle
<1>18. S!Delete => SP!Delete
  BY DEF S!Delete, SP!Delete, S!ForceClose, SP!ForceClose, S!Nil, SP!Nil, S!sends, SP!sends
<1>19. S!PeerLeaves => SP!PeerLeaves
  BY DEF S!PeerLeaves, SP!PeerLeaves, S!Ended, SP!Ended, S!socket, SP!socket, S!outbox,
         SP!outbox, S!inbox, SP!inbox, S!sends, SP!sends
<1>20. S!NumberReused => SP!NumberReused
  BY DEF S!NumberReused, SP!NumberReused, S!outbox, SP!outbox, S!inbox, SP!inbox, S!sends,
         SP!sends
<1>21. UNCHANGED socketVars => UNCHANGED SP!vars
  BY DEF socketVars, SP!vars
<1> QED
  BY <1>1, <1>2, <1>3, <1>4, <1>5, <1>6, <1>7, <1>8, <1>9, <1>10, <1>11, <1>12, <1>13, <1>14,
     <1>15, <1>16, <1>17, <1>18, <1>19, <1>20, <1>21
  DEF S!Next, SP!Next, S!Loop, SP!Loop, S!Flush, SP!Flush, S!Read, SP!Read, S!Pop, SP!Pop

\* The invariant of ClientSocketProofs gives the properties their names here.
LEMMA SameProperties ==
    ASSUME SP!SocketInv
    PROVE  WriteListExact /\ EndReportedOnce
<1>1. SP!TypeOK => S!TypeOK
  BY DEF S!TypeOK, SP!TypeOK, S!Control, SP!Control
<1>2. SP!Pending = S!Pending
  BY DEF S!Pending, SP!Pending, S!Bytes, SP!Bytes, S!FlattenSeq, SP!FlattenSeq
<1>3. SP!StreamExact => S!StreamExact
  BY <1>2 DEF S!StreamExact, SP!StreamExact, S!IsPrefix, SP!IsPrefix
<1>4. SP!WbSizeExact => S!WbSizeExact
  BY <1>2 DEF S!WbSizeExact, SP!WbSizeExact
<1>5. SP!TailIsLast => S!TailIsLast
  BY DEF S!TailIsLast, SP!TailIsLast, S!Last, SP!Last, S!Nil, SP!Nil
<1>6. SP!EndReportedOnce => S!EndReportedOnce
  BY DEF S!EndReportedOnce, SP!EndReportedOnce
<1> QED
  BY <1>1, <1>3, <1>4, <1>5, <1>6
  DEF SP!SocketInv, SP!WriteListExact, S!WriteListExact, WriteListExact, EndReportedOnce

LEMMA SameStart ==
    ASSUME S!Init
    PROVE  SP!SocketInv
<1>1. SP!ClientSocketAssumption
  BY ClientsAssumption DEF S!ClientSocketAssumption, SP!ClientSocketAssumption
<1>2. SP!Init
  BY DEF S!Init, SP!Init, S!Nil, SP!Nil
<1> QED BY <1>1, <1>2, SP!SocketStarts

-----------------------------------------------------------------------------
(* The two programs. *)

BothInv == ConsoleInv /\ SP!SocketInv

LEMMA BothStarts ==
    ASSUME BothInit
    PROVE  BothInv
  BY ConsoleStarts, SameStart DEF BothInit, BothInv

LEMMA BothStep ==
    ASSUME BothInv, [BothNext]_bothVars
    PROVE  BothInv'
<1>1. [ClientNext]_allvars /\ [S!Next]_socketVars
  BY DEF BothNext, InConsole, InServer, bothVars
<1>2. SP!ClientSocketAssumption
  BY ClientsAssumption DEF S!ClientSocketAssumption, SP!ClientSocketAssumption
<1>3. ConsoleInv'
  BY <1>1, ConsoleStep DEF BothInv
<1>4. SP!SocketInv'
  BY <1>1, <1>2, SameSteps, SP!SocketStep DEF BothInv
<1> QED BY <1>3, <1>4 DEF BothInv

\* What the runs check of either program, in one statement.
THEOREM ClientsCorrect ==
    FairSpec => [](LinesInOrder /\ StreamsExact /\ WriteListExact /\ EndReportedOnce)
<1>1. BothInv /\ [BothNext]_bothVars => BothInv'
  BY BothStep
<1>2. BothInv => LinesInOrder /\ StreamsExact /\ WriteListExact /\ EndReportedOnce
  BY ConsoleExact, SameProperties DEF BothInv
<1> QED BY <1>1, <1>2, BothStarts, PTL DEF FairSpec

\* In every behaviour the runs explore, the keyboard's lines come out of the ring
\* once each and in order (socketstdin.c).
THEOREM LinesCorrect == FairSpec => []LinesInOrder
  BY ClientsCorrect, PTL

\* In every behaviour the runs explore, frames and commands cross the console's
\* socket whole and in order, however recv and send cut them (client.lua).
THEOREM StreamsCorrect == FairSpec => []StreamsExact
  BY ClientsCorrect, PTL

\* In every behaviour the runs explore, the gateway gets the bytes of the server's
\* socket_send calls in their order, once each (client_socket.c).
THEOREM WritesCorrect == FairSpec => []WriteListExact
  BY ClientsCorrect, PTL

\* In every behaviour the runs explore, the end of the server's connection is
\* reported at most once, and last (client_socket.c).
THEOREM EndCorrect == FairSpec => []EndReportedOnce
  BY ClientsCorrect, PTL
=============================================================================
