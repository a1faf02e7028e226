------------------------- MODULE ClientSocketProofs --------------------------
(***************************************************************************)
(* The logic server's socket, proved for any sizes of sends, any cuts of   *)
(* write() and any bounds: the gateway gets the bytes in the order of the  *)
(* calls of socket_send, what the struct keeps by hand agrees with the     *)
(* list, and the disconnect callback comes once and last.                  *)
(*                                                                         *)
(* That needs to know more: which structures exist where the thread is,    *)
(* that a descriptor whose number serves another connection never becomes  *)
(* the socket's own again, and that a socket that was not connected has    *)
(* sent nothing (SocketInv).                                               *)
(***************************************************************************)
EXTENDS ClientSocket, SeqLemmas

\* A byte, by its buffer and its place there, and a write_buffer.
Byte == (1 .. MaxSends) \X Nat
Buffer == [n : 1 .. MaxSends, ptr : Nat, sz : Nat]

\* What a buffer still holds, and a list of them.
Held == [b \in Buffer |-> Bytes(b.n, b.ptr, b.sz)]
HeldBy(list) == Joined(Held, list)

\* Where socket_connect has not succeeded.
Unconnected == {"new", "failed", "aborted"}

\* Which structures exist at each place of the thread.
Structures ==
    /\ pc \in Unconnected =>
          ~ fd /\ ~ q /\ file = "free" /\ wb = <<>> /\ accepted = <<>> /\ written = <<>> /\ ends = 0
    /\ pc \in {"flush", "read", "pop", "callback", "gone"} => fd
    /\ pc = "gone" => ~ q
    /\ pc \in {"read", "callback"} => q
    /\ q <=> file = "ours"
    /\ q => fd
    /\ fd => ends = 0
    /\ accepted \in Seq(Byte) /\ written \in Seq(Byte)

SocketInv == Structures /\ WriteListExact /\ EndReportedOnce

-----------------------------------------------------------------------------
(* The list of write buffers. *)

LEMMA BytesType ==
    ASSUME NEW n \in 1 .. MaxSends, NEW p \in Nat, NEW k \in Nat
    PROVE  Bytes(n, p, k) \in Seq(Byte) /\ Len(Bytes(n, p, k)) = k
<1>1. \A j \in 1 .. k : p + j \in Nat
  OBVIOUS
<1> QED BY <1>1 DEF Bytes, Byte

LEMMA HeldType == Held \in [Buffer -> Seq(Byte)]
<1>1. \A b \in Buffer : Bytes(b.n, b.ptr, b.sz) \in Seq(Byte)
  BY BytesType DEF Buffer
<1> QED BY <1>1 DEF Held

LEMMA ByteAssoc ==
    ASSUME NEW a \in Seq(Byte), NEW b \in Seq(Byte), NEW c \in Seq(Byte)
    PROVE  Assoc(a, b, c)
  BY AssocAll

LEMMA ByteEmpty ==
    ASSUME NEW a \in Seq(Byte)
    PROVE  a \o <<>> = a /\ <<>> \o a = a
  BY ConcatEmptySeq

LEMMA ByteLen ==
    ASSUME NEW a \in Seq(Byte), NEW b \in Seq(Byte)
    PROVE  a \o b \in Seq(Byte) /\ Len(a \o b) = Len(a) + Len(b) /\ Len(a) \in Nat /\ Len(b) \in Nat
  BY ConcatProperties

LEMMA BytePrefix ==
    ASSUME NEW a \in Seq(Byte), NEW b \in Seq(Byte)
    PROVE  IsPrefix(a, a \o b)
  BY PrefixOfConcat

LEMMA PendingIs ==
    ASSUME wb \in Seq(Buffer)
    PROVE  Pending = HeldBy(wb) /\ Pending \in Seq(Byte)
<1>1. \A i \in 1 .. Len(wb) : Held[wb[i]] = Bytes(wb[i].n, wb[i].ptr, wb[i].sz)
  BY DEF Held
<1>2. Pending = HeldBy(wb)
  BY <1>1 DEF Pending, HeldBy, Joined
<1>3. Joined(Held, wb) \in Seq(Byte)
  BY HeldType, JoinedType
<1> QED BY <1>2, <1>3 DEF HeldBy

LEMMA HeldEmpty == HeldBy(<<>>) = <<>>
  BY JoinedEmpty DEF HeldBy

LEMMA HeldAppend ==
    ASSUME NEW list \in Seq(Buffer), NEW b \in Buffer
    PROVE  /\ HeldBy(Append(list, b)) = HeldBy(list) \o Bytes(b.n, b.ptr, b.sz)
           /\ HeldBy(list) \in Seq(Byte) /\ Bytes(b.n, b.ptr, b.sz) \in Seq(Byte)
           /\ Len(Bytes(b.n, b.ptr, b.sz)) = b.sz
<1>1. Joined(Held, Append(list, b)) = Joined(Held, list) \o Held[b]
  <2>1. Joins(Joined(Held, list), Held[b], Joined(Held, Append(list, b)))
    BY HeldType, JoinedAppend
  <2> QED BY <2>1, Zenon DEF Joins
<1>2. Joined(Held, list) \in Seq(Byte)
  BY HeldType, JoinedType
<1>3. Held[b] = Bytes(b.n, b.ptr, b.sz)
  BY DEF Held
<1>4. b.n \in 1 .. MaxSends /\ b.ptr \in Nat /\ b.sz \in Nat
  BY DEF Buffer
<1> QED BY <1>1, <1>2, <1>3, <1>4, BytesType DEF HeldBy

LEMMA HeldCons ==
    ASSUME NEW list, NEW b, NEW all, Begins(all, b, list, Buffer)
    PROVE  /\ HeldBy(all) = Bytes(b.n, b.ptr, b.sz) \o HeldBy(list)
           /\ HeldBy(list) \in Seq(Byte)
<1>1. Joined(Held, all) = Held[b] \o Joined(Held, list)
  <2>1. Joins(Held[b], Joined(Held, list), Joined(Held, all))
    BY HeldType, JoinedCons
  <2> QED BY <2>1, Zenon DEF Joins
<1>2. list \in Seq(Buffer) /\ b \in Buffer
  BY DEF Begins
<1>3. Joined(Held, list) \in Seq(Byte)
  BY <1>2, HeldType, JoinedType
<1>4. Held[b] = Bytes(b.n, b.ptr, b.sz)
  BY <1>2 DEF Held
<1> QED BY <1>1, <1>3, <1>4 DEF HeldBy

\* write() splits a buffer.
LEMMA BytesSplit ==
    ASSUME NEW n \in 1 .. MaxSends, NEW p \in Nat, NEW sz \in Nat, NEW k \in 0 .. sz
    PROVE  Bytes(n, p, k) \o Bytes(n, p + k, sz - k) = Bytes(n, p, sz)
<1> DEFINE done == Bytes(n, p, k)
           left == sz - k
           rest == Bytes(n, p + k, left)
           all == Bytes(n, p, sz)
<1>0. left \in Nat /\ p + k \in Nat /\ k \in Nat /\ k + left = sz
  OBVIOUS
<1> HIDE DEF left
<1>1. /\ done \in Seq(Byte) /\ Len(done) = k /\ rest \in Seq(Byte) /\ Len(rest) = left
      /\ all \in Seq(Byte) /\ Len(all) = sz
  BY <1>0, BytesType
<1>2. /\ \A i \in 1 .. k : done[i] = <<n, p + i>>
      /\ \A i \in 1 .. left : rest[i] = <<n, p + k + i>>
      /\ \A i \in 1 .. sz : all[i] = <<n, p + i>>
  BY DEF Bytes
<1> HIDE DEF done, rest, all
<1>3. /\ done \o rest \in Seq(Byte) /\ Len(done \o rest) = sz
      /\ \A i \in 1 .. sz : (done \o rest)[i] = IF i <= k THEN done[i] ELSE rest[i - k]
  BY <1>0, <1>1, ConcatProperties
<1>4. ASSUME NEW i \in 1 .. sz PROVE (done \o rest)[i] = all[i]
  <2>1. CASE i <= k
    <3>1. i \in 1 .. k
      BY <1>0, <2>1
    <3> QED BY <1>2, <1>3, <2>1, <3>1
  <2>2. CASE ~ (i <= k)
    <3>1. i - k \in 1 .. left /\ p + k + (i - k) = p + i
      BY <1>0, <2>2
    <3>2. rest[i - k] = <<n, p + i>>
      BY <1>2, <3>1
    <3> QED BY <1>2, <1>3, <2>2, <3>2
  <2> QED BY <2>1, <2>2
<1>5. done \o rest = all
  BY <1>1, <1>3, <1>4, SeqEqual
<1> QED BY <1>5 DEF done, rest, all, left

-----------------------------------------------------------------------------
(* What the steps do to the list and to the stream. *)

ListInv ==
    /\ wb \in Seq(Buffer) /\ tail \in 0 .. MaxSends /\ wbSize \in Int
    /\ accepted \in Seq(Byte) /\ written \in Seq(Byte)
    /\ StreamExact /\ WbSizeExact /\ TailIsLast

\* The list after a step.
LEMMA PendingAfter ==
    ASSUME wb' \in Seq(Buffer)
    PROVE  Pending' = HeldBy(wb') /\ Pending' \in Seq(Byte)
<1>1. \A i \in 1 .. Len(wb') : Held[wb'[i]] = Bytes(wb'[i].n, wb'[i].ptr, wb'[i].sz)
  BY DEF Held
<1>2. Pending' = HeldBy(wb')
  BY <1>1 DEF Pending, HeldBy, Joined
<1>3. Joined(Held, wb') \in Seq(Byte)
  BY HeldType, JoinedType
<1> QED BY <1>2, <1>3 DEF HeldBy

LEMMA ListKept ==
    ASSUME ListInv, MaxSends \in Nat, UNCHANGED <<wb, wbSize, accepted, written, file, q>>,
           tail' = tail \/ (wb = <<>> /\ tail' = Nil)
    PROVE  ListInv'
<1>1. Pending' = Pending
  BY DEF Pending
<1>2. StreamExact' /\ WbSizeExact'
  BY <1>1 DEF ListInv, StreamExact, WbSizeExact
<1>3. TailIsLast' /\ tail' \in 0 .. MaxSends
  BY DEF ListInv, TailIsLast, Nil
<1> QED BY <1>2, <1>3 DEF ListInv

LEMMA ListClosed ==
    ASSUME ListInv, Structures, MaxSends \in Nat, ForceClose, UNCHANGED <<wbSize, accepted, written>>
    PROVE  ListInv'
<1>1. file' # "ours" /\ q' = FALSE /\ wb' = <<>> /\ tail' = 0
  BY DEF ForceClose, Structures, Nil
<1>2. IsPrefix(written, accepted)
  <2>1. CASE file = "ours"
    <3>1. written \o Pending = accepted /\ written \in Seq(Byte) /\ Pending \in Seq(Byte)
      BY <2>1, PendingIs DEF ListInv, StreamExact
    <3> QED BY <3>1, BytePrefix
  <2>2. CASE file # "ours"
    BY <2>2 DEF ListInv, StreamExact
  <2> QED BY <2>1, <2>2
<1>3. IsPrefix(written', accepted')
  BY <1>2
<1>4. StreamExact' /\ WbSizeExact' /\ TailIsLast'
  BY <1>1, <1>3 DEF StreamExact, WbSizeExact, TailIsLast
<1> QED BY <1>1, <1>4 DEF ListInv

\* append_sendbuffer.
LEMMA Appended ==
    ASSUME ListInv, NEW node \in Buffer, AppendBuffer(node)
    PROVE  /\ wb' \in Seq(Buffer) /\ tail' \in 0 .. MaxSends /\ wbSize' \in Int /\ TailIsLast'
           /\ Pending' = Pending \o Bytes(node.n, node.ptr, node.sz)
           /\ Len(Pending') = Len(Pending) + node.sz /\ Len(Pending) \in Nat
           /\ Pending \in Seq(Byte) /\ Bytes(node.n, node.ptr, node.sz) \in Seq(Byte)
<1>1. wb \in Seq(Buffer) /\ wb' = Append(wb, node) /\ tail' = node.n /\ wbSize' = wbSize + node.sz
  BY DEF ListInv, AppendBuffer
<1>2. node.n \in 1 .. MaxSends /\ node.ptr \in Nat /\ node.sz \in Nat
  BY DEF Buffer
<1>3. wb' \in Seq(Buffer) /\ Last(wb') = node
  BY <1>1, AppendProperties DEF Last
<1>4. Pending = HeldBy(wb) /\ Pending' = HeldBy(wb')
  BY <1>1, <1>3, PendingIs, PendingAfter
<1> DEFINE text == Bytes(node.n, node.ptr, node.sz)
<1>5. /\ HeldBy(Append(wb, node)) = HeldBy(wb) \o text
      /\ HeldBy(wb) \in Seq(Byte) /\ text \in Seq(Byte) /\ Len(text) = node.sz
  BY <1>1, HeldAppend
<1> HIDE DEF text
<1>6. Pending' = Pending \o text /\ Len(Pending \o text) = Len(Pending) + node.sz /\ Len(Pending) \in Nat
  BY <1>1, <1>4, <1>5, ByteLen
<1>7. wbSize' \in Int
  BY <1>1, <1>2 DEF ListInv
<1>8. tail' \in 0 .. MaxSends
  BY <1>1, <1>2
<1> QED BY <1>1, <1>3, <1>4, <1>5, <1>6, <1>7, <1>8 DEF TailIsLast, text

\* socket_send with nothing waiting.
LEMMA ListSendNow ==
    ASSUME ListInv, NEW n \in 1 .. MaxSends, NEW sz \in Nat, SendNow(n, sz)
    PROVE  ListInv'
<1>1. PICK k \in 0 .. sz :
        /\ WriteTakes(n, 0, k)
        /\ IF k = sz THEN UNCHANGED <<outbox>> ELSE AppendBuffer(Node(n, k, sz - k))
  BY DEF SendNow
<1>2. /\ wb = <<>> /\ UNCHANGED <<file, q>>
      /\ accepted' = IF file = "ours" THEN accepted \o Bytes(n, 0, sz) ELSE accepted
      /\ written' = IF file = "ours" THEN written \o Bytes(n, 0, k) ELSE written
  BY <1>1 DEF SendNow, Take, WriteTakes
<1>3. Pending = <<>>
  BY <1>2, HeldEmpty, PendingIs DEF ListInv
<1>4. accepted \in Seq(Byte) /\ written \in Seq(Byte)
  BY DEF ListInv
<1> DEFINE all == Bytes(n, 0, sz)
           done == Bytes(n, 0, k)
           rest == Bytes(n, k, sz - k)
<1>5. /\ all \in Seq(Byte) /\ done \in Seq(Byte) /\ rest \in Seq(Byte)
      /\ done \o rest = all
  <2>1. k \in Nat /\ sz - k \in Nat /\ 0 + k = k /\ 0 \in Nat
    OBVIOUS
  <2>2. done \o Bytes(n, 0 + k, sz - k) = all
    BY <2>1, BytesSplit
  <2> QED BY <2>1, <2>2, BytesType
<1> HIDE DEF all, done, rest
<1>6. accepted' = IF file = "ours" THEN accepted \o all ELSE accepted
  BY <1>2 DEF all
<1>7. written' = IF file = "ours" THEN written \o done ELSE written
  BY <1>2 DEF done
<1>8. accepted' \in Seq(Byte) /\ written' \in Seq(Byte)
  BY <1>4, <1>5, <1>6, <1>7, ByteLen
<1>9. file = "ours" => written = accepted
  BY <1>3, <1>4, ByteEmpty DEF ListInv, StreamExact
<1>10. file # "ours" => IsPrefix(written', accepted')
  BY <1>6, <1>7 DEF ListInv, StreamExact
<1>11. CASE k = sz
  <2>1. UNCHANGED <<wb, tail, wbSize>>
    BY <1>1, <1>11 DEF outbox
  <2>2. Pending' = Pending
    BY <2>1 DEF Pending
  <2>3. done = all
    BY <1>11 DEF done, all
  <2>4. StreamExact'
    BY <1>2, <1>3, <1>6, <1>7, <1>8, <1>9, <1>10, <2>2, <2>3, ByteEmpty DEF StreamExact
  <2>5. WbSizeExact' /\ TailIsLast'
    BY <1>2, <2>1, <2>2 DEF ListInv, WbSizeExact, TailIsLast
  <2> QED BY <1>8, <2>1, <2>4, <2>5 DEF ListInv
<1>12. CASE k # sz
  <2> DEFINE node == Node(n, k, sz - k)
  <2>1. node \in Buffer /\ node.n = n /\ node.ptr = k /\ node.sz = sz - k /\ AppendBuffer(node)
    BY <1>1, <1>12 DEF Node, Buffer
  <2> HIDE DEF node
  <2>2. /\ wb' \in Seq(Buffer) /\ tail' \in 0 .. MaxSends /\ wbSize' \in Int /\ TailIsLast'
        /\ Pending' = Pending \o Bytes(node.n, node.ptr, node.sz)
        /\ Len(Pending') = Len(Pending) + node.sz /\ Len(Pending) \in Nat
    BY <2>1, Appended
  <2>3. Pending' = rest
    BY <1>3, <1>5, <2>1, <2>2, ByteEmpty DEF rest
  <2>4. StreamExact'
    <3>1. CASE file = "ours"
      <4>1. (accepted \o done) \o rest = accepted \o (done \o rest)
        <5>1. accepted \in Seq(Byte) /\ done \in Seq(Byte) /\ rest \in Seq(Byte)
          BY <1>4, <1>5
        <5>2. Assoc(accepted, done, rest)
          BY <5>1, ByteAssoc
        <5> QED BY <5>2 DEF Assoc
      <4> QED BY <1>2, <1>5, <1>6, <1>7, <1>9, <2>3, <3>1, <4>1 DEF StreamExact
    <3>2. CASE file # "ours"
      BY <1>2, <1>10, <3>2 DEF StreamExact
    <3> QED BY <3>1, <3>2
  <2>5. WbSizeExact'
    BY <1>2, <2>1, <2>2 DEF ListInv, WbSizeExact, AppendBuffer
  <2> QED BY <1>8, <2>2, <2>4, <2>5 DEF ListInv
<1> QED BY <1>11, <1>12

\* socket_send behind what waits.
LEMMA ListSendLater ==
    ASSUME ListInv, NEW n \in 1 .. MaxSends, NEW sz \in Nat, SendLater(n, sz)
    PROVE  ListInv'
<1> DEFINE node == Node(n, 0, sz)
           all == Bytes(n, 0, sz)
<1>1. /\ UNCHANGED <<file, q, written>> /\ AppendBuffer(node)
      /\ accepted' = IF file = "ours" THEN accepted \o all ELSE accepted
      /\ node \in Buffer /\ node.n = n /\ node.ptr = 0 /\ node.sz = sz
  BY DEF SendLater, Take, Node, Buffer
<1> HIDE DEF node
<1>2. /\ wb' \in Seq(Buffer) /\ tail' \in 0 .. MaxSends /\ wbSize' \in Int /\ TailIsLast'
      /\ Pending' = Pending \o Bytes(node.n, node.ptr, node.sz)
      /\ Len(Pending') = Len(Pending) + node.sz /\ Len(Pending) \in Nat
      /\ Pending \in Seq(Byte) /\ Bytes(node.n, node.ptr, node.sz) \in Seq(Byte)
  BY <1>1, Appended
<1>3. Pending' = Pending \o all /\ all \in Seq(Byte)
  BY <1>1, <1>2
<1> HIDE DEF all
<1>4. accepted \in Seq(Byte) /\ written \in Seq(Byte)
  BY DEF ListInv
<1>5. accepted' \in Seq(Byte) /\ written' \in Seq(Byte)
  BY <1>1, <1>3, <1>4, ByteLen
<1>6. StreamExact'
  <2>1. CASE file = "ours"
    <3>1. (written \o Pending) \o all = written \o (Pending \o all)
      <4>1. written \in Seq(Byte) /\ Pending \in Seq(Byte) /\ all \in Seq(Byte)
        BY <1>2, <1>3, <1>4
      <4>2. Assoc(written, Pending, all)
        BY <4>1, ByteAssoc
      <4> QED BY <4>2 DEF Assoc
    <3> QED BY <1>1, <1>3, <2>1, <3>1 DEF ListInv, StreamExact
  <2>2. CASE file # "ours"
    BY <1>1, <2>2 DEF ListInv, StreamExact
  <2> QED BY <2>1, <2>2
<1>7. WbSizeExact'
  BY <1>1, <1>2 DEF ListInv, WbSizeExact, AppendBuffer
<1> QED BY <1>2, <1>5, <1>6, <1>7 DEF ListInv

\* The loop writes the first buffer or a part of it.
LEMMA ListFlushWrites ==
    ASSUME ListInv, FlushWrites
    PROVE  ListInv'
<1> DEFINE node == Head(wb)
           rest == Tail(wb)
           held == HeldBy(rest)
<1>1. wb \in Seq(Buffer) /\ wb # <<>> /\ accepted \in Seq(Byte) /\ written \in Seq(Byte)
  BY DEF ListInv, FlushWrites
<1>2. PICK k \in 0 .. node.sz :
        /\ WriteTakes(node.n, node.ptr, k)
        /\ wbSize' = wbSize - k
        /\ IF k = node.sz
           THEN wb' = rest
           ELSE wb' = <<Node(node.n, node.ptr + k, node.sz - k)>> \o rest
  BY DEF FlushWrites
<1>3. UNCHANGED <<file, q, tail, accepted>>
  BY DEF FlushWrites, socket
<1> DEFINE left == node.sz - k
           whole == Bytes(node.n, node.ptr, node.sz)
           done == Bytes(node.n, node.ptr, k)
           more == Bytes(node.n, node.ptr + k, left)
<1>4. /\ node \in Buffer /\ rest \in Seq(Buffer) /\ Begins(wb, node, rest, Buffer)
      /\ Len(rest) = Len(wb) - 1 /\ Len(wb) \in Nat /\ Len(wb) > 0
      /\ \A i \in 1 .. Len(rest) : rest[i] = wb[i + 1]
  <2>1. /\ node \in Buffer /\ rest \in Seq(Buffer) /\ Len(rest) = Len(wb) - 1
        /\ \A i \in 1 .. Len(rest) : rest[i] = wb[i + 1]
    BY <1>1, HeadTailProperties
  <2>2. node = wb[1] /\ Len(wb) \in Nat /\ Len(wb) > 0
    BY <1>1
  <2> HIDE DEF node, rest
  <2>3. Begins(wb, node, rest, Buffer)
    BY <1>1, <2>1, <2>2 DEF Begins
  <2> QED BY <2>1, <2>2, <2>3
<1> HIDE DEF node, rest
<1>5. node.n \in 1 .. MaxSends /\ node.ptr \in Nat /\ node.sz \in Nat /\ k \in Nat
      /\ node.ptr + k \in Nat /\ left \in Nat /\ k + left = node.sz
  BY <1>4 DEF Buffer
<1>6. /\ HeldBy(wb) = whole \o held /\ held \in Seq(Byte) /\ whole \in Seq(Byte)
      /\ done \in Seq(Byte) /\ more \in Seq(Byte) /\ done \o more = whole
      /\ Len(whole) = node.sz /\ Len(more) = left
  <2>1. HeldBy(wb) = whole \o held /\ held \in Seq(Byte)
    BY <1>4, HeldCons
  <2>2. /\ whole \in Seq(Byte) /\ done \in Seq(Byte) /\ more \in Seq(Byte)
        /\ Len(whole) = node.sz /\ Len(more) = left
    <3> HIDE DEF left
    <3> QED BY <1>5, BytesType
  <2>3. done \o more = whole
    BY <1>5, BytesSplit
  <2> QED BY <2>1, <2>2, <2>3
<1>7. file = "ours" => written \o HeldBy(wb) = accepted
  BY <1>1, PendingIs DEF ListInv, StreamExact
<1>8. q => wbSize = Len(HeldBy(wb))
  BY <1>1, PendingIs DEF ListInv, WbSizeExact
<1>9. written' = IF file = "ours" THEN written \o done ELSE written
  BY <1>2 DEF WriteTakes
<1>10. IF rest = <<>> THEN node.n = tail ELSE rest[Len(rest)].n = tail
  <2>1. wb[Len(wb)].n = tail
    BY <1>1, <1>4 DEF ListInv, TailIsLast, Last
  <2>2. rest = <<>> => Len(wb) = 1
    BY <1>4
  <2>3. rest # <<>> => Len(rest) \in 1 .. Len(rest) /\ rest[Len(rest)] = wb[Len(wb)]
    BY <1>4
  <2>4. node = wb[1]
    BY <1>4 DEF Begins
  <2> QED BY <2>1, <2>2, <2>3, <2>4
<1>11. Len(HeldBy(wb)) = node.sz + Len(held) /\ Len(held) \in Nat
  <2> HIDE DEF whole, held
  <2>1. whole \in Seq(Byte) /\ held \in Seq(Byte) /\ Len(whole) = node.sz
    BY <1>6
  <2> QED BY <1>6, <2>1, ByteLen
<1> HIDE DEF left, whole, done, more, held
<1>12. written' \in Seq(Byte)
  BY <1>1, <1>6, <1>9, ByteLen
<1>13. file # "ours" => IsPrefix(written', accepted')
  BY <1>3, <1>9 DEF ListInv, StreamExact
<1>14. CASE k = node.sz
  <2>1. wb' = rest /\ wb' \in Seq(Buffer)
    BY <1>2, <1>4, <1>14
  <2>2. Pending' = held
    BY <2>1, PendingAfter DEF held
  <2>3. done = whole
    BY <1>14 DEF done, whole
  <2>4. file = "ours" => (written \o whole) \o held = accepted
    <3>1. written \in Seq(Byte) /\ whole \in Seq(Byte) /\ held \in Seq(Byte)
      BY <1>1, <1>6
    <3>2. (written \o whole) \o held = written \o (whole \o held)
      <4>1. Assoc(written, whole, held)
        BY <3>1, ByteAssoc
      <4> QED BY <4>1 DEF Assoc
    <3> QED BY <1>6, <1>7, <3>2
  <2>5. StreamExact'
    BY <1>3, <1>9, <1>13, <2>2, <2>3, <2>4 DEF StreamExact
  <2>6. WbSizeExact'
    <3>1. q => wbSize - k = Len(held)
      <4>1. k \in Nat /\ Len(held) \in Nat
        BY <1>5, <1>11
      <4>2. q => wbSize = k + Len(held)
        BY <1>8, <1>11, <1>14
      <4> QED BY <4>1, <4>2
    <3> QED BY <1>2, <1>3, <2>2, <3>1 DEF WbSizeExact
  <2>7. TailIsLast'
    BY <1>3, <1>4, <1>10, <2>1 DEF TailIsLast, Last
  <2> QED BY <1>1, <1>2, <1>3, <1>12, <2>1, <2>5, <2>6, <2>7 DEF ListInv
<1>15. CASE k # node.sz
  <2> DEFINE cut == Node(node.n, node.ptr + k, node.sz - k)
  <2>1. wb' = <<cut>> \o rest
    BY <1>2, <1>15
  <2>2. cut \in Buffer /\ cut.n = node.n /\ cut.ptr = node.ptr + k /\ cut.sz = left
    BY <1>5 DEF Node, Buffer, left
  <2> HIDE DEF cut
  <2>3. Begins(wb', cut, rest, Buffer)
    BY <1>4, <2>1, <2>2, ConsBegins
  <2>4. wb' \in Seq(Buffer) /\ Len(wb') = Len(rest) + 1 /\ Len(rest) \in Nat /\ wb'[1] = cut
        /\ \A i \in 1 .. Len(rest) : wb'[i + 1] = rest[i]
    BY <1>4, <2>3 DEF Begins
  <2>5. HeldBy(wb') = more \o held
    BY <2>2, <2>3, HeldCons DEF more, held
  <2>6. Pending' = more \o held
    BY <2>4, <2>5, PendingAfter
  <2>7. file = "ours" => (written \o done) \o (more \o held) = accepted
    <3>1. written \in Seq(Byte) /\ done \in Seq(Byte) /\ more \in Seq(Byte) /\ held \in Seq(Byte)
      BY <1>1, <1>6
    <3>2. more \o held \in Seq(Byte)
      BY <3>1, ByteLen
    <3>3. (written \o done) \o (more \o held) = written \o (done \o (more \o held))
      <4> DEFINE later == more \o held
      <4>1. later \in Seq(Byte)
        BY <3>2
      <4> HIDE DEF later
      <4>2. Assoc(written, done, later)
        BY <3>1, <4>1, ByteAssoc
      <4> QED BY <4>2 DEF later, Assoc
    <3>4. done \o (more \o held) = (done \o more) \o held
      <4>1. Assoc(done, more, held)
        BY <3>1, ByteAssoc
      <4> QED BY <4>1, Zenon DEF Assoc
    <3> QED BY <1>6, <1>7, <3>3, <3>4
  <2>8. StreamExact'
    BY <1>3, <1>9, <1>13, <2>6, <2>7 DEF StreamExact
  <2>9. Len(more \o held) = left + Len(held)
    BY <1>6, ByteLen
  <2>10. WbSizeExact'
    BY <1>2, <1>3, <1>5, <1>8, <1>11, <2>6, <2>9 DEF WbSizeExact, left
  <2>11. TailIsLast'
    <3>1. wb'[Len(wb')] = IF rest = <<>> THEN cut ELSE rest[Len(rest)]
      BY <1>4, <2>4
    <3> QED BY <1>3, <1>4, <1>10, <2>2, <3>1 DEF TailIsLast, Last
  <2> QED BY <1>1, <1>2, <1>3, <1>12, <2>4, <2>8, <2>10, <2>11 DEF ListInv
<1> QED BY <1>14, <1>15

-----------------------------------------------------------------------------
(* Every step keeps the whole invariant. *)

\* What is left of TypeOK.
ThreadType ==
    /\ pc \in Control
    /\ fd \in BOOLEAN /\ q \in BOOLEAN
    /\ file \in {"ours", "free", "other"}
    /\ queued \in 0 .. MaxChunk /\ backlog \in Nat
    /\ peer \in {"up", "gone"}
    /\ nsent \in 0 .. MaxSends /\ nrecv \in 0 .. MaxRecv
    /\ ret \in {"none", "ok", "error"} /\ ends \in Nat

LEMMA SocketInvIs == SocketInv <=> ThreadType /\ ListInv /\ Structures /\ EndReportedOnce
  BY DEF SocketInv, WriteListExact, TypeOK, ThreadType, ListInv, Structures, Buffer

\* Where it lies with the thread and the structures, not with the list.
ThreadInv == ThreadType /\ Structures /\ EndReportedOnce

LEMMA ThreadSend ==
    ASSUME ClientSocketAssumption, ThreadInv, Send, ListInv',
           \/ pc = "idle" /\ pc' = "idle"
           \/ pc = "callback" /\ pc' = "pop"
    PROVE  ThreadInv'
<1>1. nsent' \in 0 .. MaxSends
  BY DEF ThreadInv, ThreadType, Send, ClientSocketAssumption
<1>2. /\ UNCHANGED <<fd, peer, nrecv, ends>> /\ ret' \in {"ok", "error"}
      /\ \/ UNCHANGED <<file, q, queued, backlog>>
         \/ fd /\ q' = FALSE /\ file' = "free" /\ queued' = 0 /\ backlog' = 0
  BY DEF Send, SendRefused, SendNow, SendLater, SendFails, Take, ForceClose
<1>3. ThreadType'
  <2>1. 0 \in 0 .. MaxChunk /\ 0 \in Nat
    BY DEF ClientSocketAssumption
  <2> QED BY <1>1, <1>2, <2>1 DEF ThreadInv, ThreadType, Control
<1>4. Structures'
  BY <1>2 DEF ThreadInv, Structures, ListInv, Unconnected
<1>5. EndReportedOnce'
  BY <1>2 DEF ThreadInv, Structures, EndReportedOnce
<1> QED BY <1>3, <1>4, <1>5 DEF ThreadInv

LEMMA ThreadStep ==
    ASSUME ClientSocketAssumption, ThreadInv, ListInv', [Next]_vars
    PROVE  ThreadInv'
<1> USE DEF ThreadInv, ThreadType, Structures, EndReportedOnce, Control, Unconnected,
            ClientSocketAssumption
<1>0. 0 \in 0 .. MaxChunk /\ 0 \in Nat
  OBVIOUS
<1>1. CASE Connect
  BY <1>1 DEF Connect, inbox, sends, ListInv
<1>2. CASE ConnectFails
  BY <1>2 DEF ConnectFails, others, socket, outbox, inbox, sends
<1>3. CASE LoopStarts
  BY <1>3 DEF LoopStarts, others, socket, outbox, inbox, sends
<1>4. CASE FlushEnds
  BY <1>4 DEF FlushEnds, ToRead, socket, inbox, sends
<1>5. CASE FlushWrites
  BY <1>5 DEF FlushWrites, ToRead, socket, inbox, ListInv
<1>6. CASE FlushBlocks
  BY <1>6 DEF FlushBlocks, ToRead, others, socket, outbox, inbox, sends
<1>7. CASE FlushFails
  <2>1. ThreadType'
    BY <1>0, <1>7 DEF FlushFails, ForceClose, sends
  <2>2. Structures' /\ EndReportedOnce'
    BY <1>7 DEF FlushFails, ForceClose, sends, ListInv
  <2> QED BY <2>1, <2>2
<1>8. CASE ReadChunk
  BY <1>8 DEF ReadChunk, socket, outbox, sends
<1>9. CASE ReadBlocks
  BY <1>9 DEF ReadBlocks, others, socket, outbox, inbox, sends
<1>10. CASE ReadEnds
  <2>1. ThreadType'
    BY <1>0, <1>10 DEF ReadEnds, ForceClose, sends
  <2>2. Structures' /\ EndReportedOnce'
    BY <1>10 DEF ReadEnds, ForceClose, sends, ListInv
  <2> QED BY <2>1, <2>2
<1>11. CASE Disconnect
  <2>1. fd /\ ends = 0 /\ ends' = 1 /\ ~ q
    BY <1>11 DEF Disconnect
  <2>2. ThreadType'
    <3>1. /\ UNCHANGED <<file, q, queued, backlog, peer, nsent, nrecv, ret>>
          /\ pc' = "idle" /\ fd' = FALSE /\ ends' \in Nat
      BY <1>11, <2>1 DEF Disconnect, inbox, sends
    <3> QED BY <3>1
  <2>3. Structures' /\ EndReportedOnce'
    BY <1>11, <2>1 DEF Disconnect, outbox, inbox, sends
  <2> QED BY <2>2, <2>3
<1>12. CASE PopDelivers
  BY <1>12 DEF PopDelivers, socket, outbox, sends
<1>13. CASE PopEnds
  BY <1>13 DEF PopEnds, others, socket, outbox, inbox, sends
<1>14. CASE PopCrashes
  BY <1>14 DEF PopCrashes, others, socket, outbox, inbox, sends
<1>15. CASE Callback
  <2>1. CASE Send
    BY <1>15, <2>1, ThreadSend DEF Callback
  <2>2. CASE UNCHANGED others
    BY <1>15, <2>2 DEF Callback, others, socket, outbox, inbox, sends
  <2> QED BY <1>15, <2>1, <2>2 DEF Callback
<1>16. CASE SendIdle
  BY <1>16, ThreadSend DEF SendIdle
<1>17. CASE Delete
  <2>1. ThreadType'
    BY <1>0, <1>17 DEF Delete, ForceClose, sends
  <2>2. Structures' /\ EndReportedOnce'
    BY <1>17 DEF Delete, ForceClose, sends, ListInv
  <2> QED BY <2>1, <2>2
<1>18. CASE PeerLeaves
  BY <1>18 DEF PeerLeaves, socket, outbox, inbox, sends
<1>19. CASE NumberReused
  BY <1>19 DEF NumberReused, outbox, inbox, sends
<1>20. CASE UNCHANGED vars
  BY <1>20 DEF vars
<1> QED
  BY <1>1, <1>2, <1>3, <1>4, <1>5, <1>6, <1>7, <1>8, <1>9, <1>10, <1>11, <1>12, <1>13, <1>14,
     <1>15, <1>16, <1>17, <1>18, <1>19, <1>20
  DEF Next, Loop, Flush, Read, Pop

LEMMA ListSend ==
    ASSUME ClientSocketAssumption, ThreadInv, ListInv, Send
    PROVE  ListInv'
<1>1. MaxSends \in Nat /\ nsent' \in 1 .. MaxSends
  BY DEF ClientSocketAssumption, ThreadInv, ThreadType, Send
<1>2. CASE SendRefused
  BY <1>1, <1>2, ListKept DEF SendRefused, outbox
<1>3. CASE SendFails
  BY <1>1, <1>3, ListClosed DEF SendFails, ThreadInv
<1>4. ASSUME NEW sz \in Sizes, SendNow(nsent', sz) PROVE ListInv'
  <2> DEFINE n == nsent'
  <2>1. n \in 1 .. MaxSends /\ sz \in Nat /\ SendNow(n, sz)
    BY <1>1, <1>4 DEF ClientSocketAssumption
  <2> HIDE DEF n
  <2> QED BY <2>1, ListSendNow
<1>5. ASSUME NEW sz \in Sizes, SendLater(nsent', sz) PROVE ListInv'
  <2> DEFINE n == nsent'
  <2>1. n \in 1 .. MaxSends /\ sz \in Nat /\ SendLater(n, sz)
    BY <1>1, <1>5 DEF ClientSocketAssumption
  <2> HIDE DEF n
  <2> QED BY <2>1, ListSendLater
<1> QED BY <1>2, <1>3, <1>4, <1>5 DEF Send

LEMMA ListStep ==
    ASSUME ClientSocketAssumption, ThreadInv, ListInv, [Next]_vars
    PROVE  ListInv'
<1>1. MaxSends \in Nat
  BY DEF ClientSocketAssumption
<1>2. CASE Connect
  <2>1. /\ wb' = <<>> /\ tail' = 0 /\ wbSize' = 0 /\ file' = "ours" /\ UNCHANGED <<accepted, written>>
        /\ accepted = <<>> /\ written = <<>>
    BY <1>2 DEF Connect, sends, ThreadInv, Structures, Unconnected, Nil
  <2>2. Pending' = <<>>
    BY <2>1, HeldEmpty, PendingAfter
  <2>3. StreamExact' /\ WbSizeExact' /\ TailIsLast'
    BY <2>1, <2>2 DEF StreamExact, WbSizeExact, TailIsLast
  <2> QED BY <1>1, <2>1, <2>3 DEF ListInv
<1>3. CASE UNCHANGED <<wb, wbSize, accepted, written, file, q>> /\ (tail' = tail \/ (wb = <<>> /\ tail' = Nil))
  BY <1>1, <1>3, ListKept
<1>4. CASE ConnectFails \/ LoopStarts \/ FlushEnds \/ FlushBlocks \/ ReadChunk \/ ReadBlocks
           \/ Disconnect \/ PopDelivers \/ PopEnds \/ PopCrashes \/ PeerLeaves
  BY <1>3, <1>4
  DEF ConnectFails, LoopStarts, FlushEnds, FlushBlocks, ReadChunk, ReadBlocks, Disconnect,
      PopDelivers, PopEnds, PopCrashes, PeerLeaves, others, socket, outbox, inbox, sends
<1>5. CASE FlushWrites
  BY <1>5, ListFlushWrites
<1>6. CASE FlushFails \/ ReadEnds \/ Delete
  BY <1>1, <1>6, ListClosed DEF FlushFails, ReadEnds, Delete, ThreadInv, sends
<1>7. CASE Callback
  BY <1>3, <1>7, ListSend DEF Callback, others, socket, outbox, sends
<1>8. CASE SendIdle
  BY <1>8, ListSend DEF SendIdle
<1>9. CASE NumberReused
  <2>1. /\ file # "ours" /\ file' # "ours" /\ UNCHANGED <<wb, tail, wbSize, accepted, written, q>>
    BY <1>9 DEF NumberReused, outbox, sends
  <2>2. Pending' = Pending
    BY <2>1 DEF Pending
  <2> QED BY <2>1, <2>2 DEF ListInv, StreamExact, WbSizeExact, TailIsLast
<1>10. CASE UNCHANGED vars
  BY <1>3, <1>10 DEF vars
<1> QED
  BY <1>2, <1>4, <1>5, <1>6, <1>7, <1>8, <1>9, <1>10 DEF Next, Loop, Flush, Read, Pop

LEMMA SocketStep ==
    ASSUME ClientSocketAssumption, SocketInv, [Next]_vars
    PROVE  SocketInv'
<1>1. ThreadInv /\ ListInv
  BY SocketInvIs DEF ThreadInv
<1>2. ThreadInv' /\ ListInv'
  BY <1>1, ListStep, ThreadStep
<1> QED
  BY <1>2
  DEF SocketInv, WriteListExact, TypeOK, ThreadInv, ThreadType, ListInv, Structures, Buffer

LEMMA SocketStarts ==
    ASSUME ClientSocketAssumption, Init
    PROVE  SocketInv
<1>1. Pending = <<>>
  BY HeldEmpty, PendingIs DEF Init
<1>2. StreamExact /\ WbSizeExact /\ TailIsLast
  <2>1. <<>> \in Seq(Byte) /\ <<>> \o <<>> = <<>>
    BY ByteEmpty
  <2>2. IsPrefix(<<>>, <<>>)
    BY <2>1, BytePrefix
  <2> QED BY <1>1, <2>2 DEF Init, StreamExact, WbSizeExact, TailIsLast
<1>3. ThreadInv
  <2>1. 0 \in 0 .. MaxChunk /\ 0 \in 0 .. MaxSends /\ 0 \in 0 .. MaxRecv /\ 0 \in Nat
    BY DEF ClientSocketAssumption
  <2>2. ThreadType
    BY <2>1 DEF Init, ThreadType, Control
  <2>3. Structures /\ EndReportedOnce
    BY DEF Init, Structures, EndReportedOnce, Unconnected
  <2> QED BY <2>2, <2>3 DEF ThreadInv
<1>4. ListInv
  BY <1>2 DEF Init, ListInv, Nil, ClientSocketAssumption
<1> QED BY <1>3, <1>4, SocketInvIs DEF ThreadInv

\* The gateway gets the bytes in the order of the socket_send calls, each once,
\* however write() cuts them, and wb_size and tail agree with the list
\* (client_socket.c:140-224).
THEOREM WritesAreExact ==
    ASSUME ClientSocketAssumption
    PROVE  Spec => []WriteListExact
<1>1. Init => SocketInv
  BY SocketStarts
<1>2. SocketInv /\ [Next]_vars => SocketInv'
  BY SocketStep
<1>3. SocketInv => WriteListExact
  BY DEF SocketInv
<1> QED BY <1>1, <1>2, <1>3, PTL DEF Spec

\* The disconnect callback comes at most once, last, and only for a connection whose
\* structures are released (socket_msgdispatch).
THEOREM EndIsReportedOnce ==
    ASSUME ClientSocketAssumption
    PROVE  Spec => []EndReportedOnce
<1>1. Init => SocketInv
  BY SocketStarts
<1>2. SocketInv /\ [Next]_vars => SocketInv'
  BY SocketStep
<1>3. SocketInv => EndReportedOnce
  BY DEF SocketInv
<1> QED BY <1>1, <1>2, <1>3, PTL DEF Spec
=============================================================================
