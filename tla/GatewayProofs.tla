--------------------------- MODULE GatewayProofs ----------------------------
(***************************************************************************)
(* What holds of the gateway for any number of sockets, any table size,    *)
(* any byte width and whatever the peers send.  What concerns the life of  *)
(* connections follows from IndInv of module Gateway, which every step     *)
(* preserves.  The order of messages needs more: frames are numbered as    *)
(* they arrive, and of each sender those handed on come before those in    *)
(* its buffer, and these before those in the queue (OrderInv).             *)
(***************************************************************************)
EXTENDS GatewayProps, SequenceTheorems, TLAPS

USE GatewayAssumption, HalfByteAssumption

-----------------------------------------------------------------------------
(* The two-byte words and the table. *)

\* write_block always stores two bytes.
LEMMA WriteBlockType == \A r \in Int : WriteBlock(r) \in WireWord
<1>1. Byte * Byte \in Nat \ {0}
  BY DEF Byte
<1> HIDE DEF Byte
<1>2. \A m \in Nat \ {0}, r \in Int : r % m \in 0 .. m - 1
  OBVIOUS
<1> QED BY <1>1, <1>2 DEF WriteBlock, WireWord

\* hashid_lookup finds an id if and only if it is in the table.
LEMMA LookupFinds ==
    ASSUME tab \in [Slots -> Ids \cup {Free}], NEW i \in Int
    PROVE  /\ Lookup(i) >= 0 => Lookup(i) \in Slots /\ tab[Lookup(i)] = i /\ i \in Ids
           /\ i \in Ids => (Lookup(i) >= 0 <=> InTable(i)) /\ (Lookup(i) < 0 <=> ~ InTable(i))
           /\ Lookup(i) \in Int
BY DEF Lookup, InTable, Slots, Free

\* read_block returns an integer.
LEMMA ReadBlockType == \A w \in WireWord : ReadBlock(w) \in Int
<1> SUFFICES ASSUME NEW w \in WireWord PROVE ReadBlock(w) \in Int
  OBVIOUS
<1>1. Byte \in Nat \ {0} /\ w \in Int
  BY DEF Byte, WireWord
<1>2. w \div Byte \in Int /\ w % Byte \in Int
  BY <1>1
<1>3. \A b \in Int : SignedChar(b) \in Int
  BY <1>1 DEF SignedChar
<1> HIDE DEF Byte
<1> QED BY <1>1, <1>2, <1>3 DEF ReadBlock

\* A word that is read back as a positive number is read back as it is.
LEMMA PositiveWord ==
    ASSUME NEW w \in WireWord, ReadBlock(w) > 0
    PROVE  ReadBlock(w) = w /\ WriteBlock(ReadBlock(w)) = w
<1> DEFINE b == Byte
           hi == w \div b
           lo == w % b
<1>1. b \in Nat \ {0} /\ w \in Nat /\ w < b * b
  BY DEF Byte, WireWord
<1>2. HalfByte \in Nat /\ HalfByte < b /\ b = 2 * HalfByte
  BY DEF Byte
<1>3. hi \in Nat /\ lo \in 0 .. b - 1 /\ w = b * hi + lo
  <2> HIDE DEF b
  <2>1. \A m \in Nat \ {0} : \A n \in Nat :
          n \div m \in Nat /\ n % m \in 0 .. m - 1 /\ n = m * (n \div m) + (n % m)
    BY SMT
  <2> QED BY <1>1, <2>1
<1>4. hi < b
  <2> SUFFICES ASSUME hi >= b PROVE FALSE
    BY <1>1, <1>3
  <2>1. b * hi >= b * b
    <3> HIDE DEF b, hi
    <3>1. \A m, n \in Nat : n >= m => m * n >= m * m
      BY SMT
    <3> QED BY <1>1, <1>3, <3>1
  <2> HIDE DEF b, hi, lo
  <2> QED BY <1>1, <1>3, <2>1
<1>5. ReadBlock(w) = IF lo >= HalfByte THEN SignedChar(lo) ELSE SignedChar(hi) * b + lo
  BY DEF ReadBlock
<1>6. lo < HalfByte
  <2> HIDE DEF b, hi, lo
  <2> QED BY <1>2, <1>3, <1>5 DEF SignedChar, Byte
<1>7. hi < HalfByte
  <2> SUFFICES ASSUME hi >= HalfByte PROVE FALSE
    BY <1>2, <1>3
  <2>1. SignedChar(hi) = hi - b /\ hi - b \in Int /\ hi - b <= -1
    BY <1>1, <1>3, <1>4 DEF SignedChar
  <2>2. (hi - b) * b <= -1 * b
    <3> HIDE DEF b, hi
    <3>1. \A m \in Nat, n \in Int : n <= -1 => n * m <= -1 * m
      BY SMT
    <3> QED BY <1>1, <2>1, <3>1
  <2>3. ReadBlock(w) = (hi - b) * b + lo
    BY <1>1, <1>3, <1>5, <1>6, <2>1
  <2> HIDE DEF b, hi, lo
  <2> QED BY <1>1, <1>3, <2>1, <2>2, <2>3
<1>8. ReadBlock(w) = hi * b + lo
  <2> HIDE DEF b, hi, lo
  <2> QED BY <1>2, <1>3, <1>5, <1>6, <1>7 DEF SignedChar
<1>9. hi * b + lo = w
  <2> HIDE DEF b, hi, lo
  <2> QED BY <1>1, <1>3
<1>10. w % (b * b) = w
  <2> HIDE DEF b, hi, lo
  <2>1. b * b \in Nat \ {0}
    BY <1>1
  <2>2. \A m \in Nat \ {0} : \A n \in Nat : n < m => n % m = n
    OBVIOUS
  <2> QED BY <1>1, <2>1, <2>2
<1> QED BY <1>8, <1>9, <1>10 DEF WriteBlock

-----------------------------------------------------------------------------
(* The queue: a poll appends one message, a dispatch takes the first. *)

\* A push leaves the queued messages where they are and adds one behind them.
LEMMA Pushed ==
    ASSUME mq \in Seq(MqMessage), NEW m \in MqMessage, mq' = Append(mq, m)
    PROVE  /\ mq' \in Seq(MqMessage)
           /\ Len(mq) \in Nat
           /\ Len(mq') = Len(mq) + 1
           /\ \A k \in 1 .. Len(mq) : mq'[k] = mq[k] /\ mq[k] \in MqMessage
           /\ mq'[Len(mq) + 1] = m
BY AppendProperties, ElementOfSeq

\* A pop moves every message but the first one place forward.
LEMMA Popped ==
    ASSUME mq \in Seq(MqMessage), mq # <<>>, mq' = Tail(mq)
    PROVE  /\ mq' \in Seq(MqMessage)
           /\ Len(mq) \in Nat \ {0}
           /\ Len(mq') = Len(mq) - 1
           /\ \A k \in 1 .. Len(mq') : mq'[k] = mq[k + 1]
           /\ Head(mq) = mq[1]
           /\ \A k \in 1 .. Len(mq) : mq[k] \in MqMessage
BY HeadTailProperties, ElementOfSeq, EmptySeq

-----------------------------------------------------------------------------
(* The type invariant. *)

\* A well-formed report becomes a well-formed message, and only the queue grows.
LEMMA ForwardType ==
    ASSUME TypeOK, NEW type \in {"ACCEPT", "CONNECT", "DATA", "CLOSE", "ERROR"},
           NEW id \in Sockets, NEW ud \in Ids \cup {0}, NEW data \in Seq(Arrived),
           Forward(type, id, ud, data)
    PROVE  /\ mq' = Append(mq, [type |-> type, id |-> id, ud |-> ud, data |-> data])
           /\ [type |-> type, id |-> id, ud |-> ud, data |-> data] \in MqMessage
           /\ mq' \in Seq(MqMessage)
           /\ UNCHANGED <<tab, conn, sid, log>>
BY AppendProperties DEF Forward, TypeOK, MqMessage

\* A poll keeps the types.
LEMMA PollType ==
    ASSUME TypeOK, Poll
    PROVE  TypeOK'
<1>1. loop' \in LoopState
  BY DEF Poll, Return, LoopState
<1>2. ASSUME NEW i \in Sockets, PollConnect(i) PROVE TypeOK'
  <2>1. <<>> \in Seq(Arrived)
    OBVIOUS
  <2>2. Forward("CONNECT", i, 0, <<>>)
    BY <1>2 DEF PollConnect
  <2>3. st' \in [Sockets -> SocketState] /\ closing' \in SUBSET Ids
    BY <1>2 DEF PollConnect, Opened, TypeOK, SocketState
  <2> QED BY <1>1, <1>2, <2>1, <2>2, <2>3, ForwardType DEF PollConnect, TypeOK
<1>3. ASSUME NEW i \in Ids, PollAccept(i) PROVE TypeOK'
  <2>1. <<>> \in Seq(Arrived)
    OBVIOUS
  <2>2. Forward("ACCEPT", ListenId, i, <<>>)
    BY <1>3 DEF PollAccept
  <2>3. st' \in [Sockets -> SocketState] /\ closing' \in SUBSET Ids
    BY <1>3 DEF PollAccept, NewConnection, TypeOK, SocketState
  <2>4. ListenId \in Sockets
    BY DEF Sockets
  <2> QED BY <1>1, <1>3, <2>1, <2>2, <2>3, <2>4, ForwardType DEF PollAccept, TypeOK
<1>4. ASSUME NEW i \in Ids, PollData(i) PROVE TypeOK'
  <2>1. PICK k \in 0 .. MaxChunk :
          \E chunk \in [1 .. k -> FramesOf[i]] :
            /\ Forward("DATA", i, 0, Numbered(i, k, chunk))
            /\ nsent' = [nsent EXCEPT ![i] = @ + k]
    BY <1>4 DEF PollData
  <2>2. PICK chunk \in [1 .. k -> FramesOf[i]] :
          /\ Forward("DATA", i, 0, Numbered(i, k, chunk))
          /\ nsent' = [nsent EXCEPT ![i] = @ + k]
    BY <2>1
  <2>3. nsent[i] \in Nat /\ k \in Nat
    BY DEF TypeOK
  <2>4. \A j \in 1 .. k : [frame |-> chunk[j], n |-> nsent[i] + j] \in Arrived
    BY <2>3 DEF Arrived
  <2>5. Numbered(i, k, chunk) \in Seq(Arrived)
    BY <2>3, <2>4 DEF Numbered
  <2>6. nsent' \in [Ids -> Nat]
    BY <2>2, <2>3 DEF TypeOK
  <2>7. i \in Sockets
    BY DEF Sockets
  <2> QED BY <1>1, <1>4, <2>2, <2>5, <2>6, <2>7, ForwardType DEF PollData, HasData, TypeOK, ssVars
<1>5. ASSUME NEW i \in Ids, PollClose(i) \/ PollError(i) PROVE TypeOK'
  <2>1. <<>> \in Seq(Arrived)
    OBVIOUS
  <2>2. Forward("CLOSE", i, 0, <<>>) \/ Forward("ERROR", i, 0, <<>>)
    BY <1>5 DEF PollClose, PollError
  <2>3. st' \in [Sockets -> SocketState] /\ closing' \in SUBSET Ids
    BY <1>5 DEF PollClose, PollError, Closed, Failed, TypeOK, SocketState
  <2>4. i \in Sockets
    BY DEF Sockets
  <2> QED
    BY <1>1, <1>5, <2>1, <2>2, <2>3, <2>4, ForwardType DEF PollClose, PollError, TypeOK
<1> QED BY <1>2, <1>3, <1>4, <1>5 DEF Poll

\* A packet handed to Send is logged or lost.
LEMMA SendType ==
    ASSUME log \in Seq(Packet), NEW p, CanSend(p.to) => p \in Packet, Send(p)
    PROVE  log' \in Seq(Packet)
BY AppendProperties DEF Send

\* The frames that wait for a handler, when there is one.
LEMMA PendingType ==
    ASSUME TypeOK, NEW s \in Slots, NEW data \in Seq(Arrived), conn[s].buf \o data # <<>>
    PROVE  /\ conn[s].buf \o data \in Seq(Arrived)
           /\ Head(conn[s].buf \o data) \in Arrived
           /\ Tail(conn[s].buf \o data) \in Seq(Arrived)
<1>1. conn[s].buf \in Seq(Arrived)
  BY DEF TypeOK, Connection
<1>2. conn[s].buf \o data \in Seq(Arrived)
  BY <1>1, ConcatProperties
<1> QED BY <1>2, HeadTailProperties

\* Keep and KeepAs keep the table of connections a table of connections.
LEMMA KeepType ==
    ASSUME TypeOK, NEW s \in Slots, NEW rest \in Seq(Arrived),
           NEW tp \in {"none", "C", "S", "D"}
    PROVE  /\ Keep(s, rest) => conn' \in [Slots -> Connection]
           /\ KeepAs(s, rest, tp) => conn' \in [Slots -> Connection]
           /\ \A i \in Ids : Clear(s, i) =>
                 conn' \in [Slots -> Connection] /\ closing' = closing \cup {i}
<1>1. /\ conn \in [Slots -> Connection] /\ conn[s] \in Connection
      /\ <<>> \in Seq(Arrived)
  BY DEF TypeOK
<1>2. \A b \in Seq(Arrived), t \in {"none", "C", "S", "D"} :
          [id |-> conn[s].id, tp |-> t, buf |-> b] \in Connection
  BY <1>1 DEF Connection
<1>3. conn[s].tp \in {"none", "C", "S", "D"}
  BY <1>1 DEF Connection
<1>4. ASSUME NEW b \in Seq(Arrived), NEW t \in {"none", "C", "S", "D"}, KeepAs(s, b, t)
      PROVE  conn' \in [Slots -> Connection]
  <2>1. conn' = [conn EXCEPT ![s] = [id |-> conn[s].id, tp |-> t, buf |-> b]]
    BY <1>4 DEF KeepAs
  <2>2. [id |-> conn[s].id, tp |-> t, buf |-> b] \in Connection
    BY <1>2
  <2> QED BY <1>1, <2>1, <2>2
<1>5. Keep(s, rest) => conn' \in [Slots -> Connection]
  BY <1>3, <1>4 DEF Keep
<1>6. ASSUME NEW i \in Ids, Clear(s, i)
      PROVE  conn' \in [Slots -> Connection] /\ closing' = closing \cup {i}
  BY <1>1, <1>3, <1>4, <1>6 DEF Clear, SSClose
<1> QED BY <1>4, <1>5, <1>6

\* What the handlers of a frame change, by type.
LEMMA HandlerType ==
    ASSUME TypeOK, NEW s \in Slots, NEW i \in Ids, NEW rest \in Seq(Arrived),
           NEW a \in Arrived, loop = "dispatch",
           DoHandshake(s, i, rest, a) \/ HandleMsg(s, i, rest, a)
    PROVE  /\ closing' \in SUBSET Ids
           /\ conn' \in [Slots -> Connection]
           /\ sid' \in Ids \cup {0, -1}
           /\ loop' \in LoopState
           /\ log' \in Seq(Packet)
<1>1. CASE DoHandshake(s, i, rest, a)
  <2>1. <<>> \in Seq(Arrived) /\ a.frame.kind = "handshake"
    BY <1>1 DEF DoHandshake
  <2>2. a.frame.dev \in Device
    BY <2>1 DEF Arrived, Frame, Handshake, Message
  <2>3. UNCHANGED <<log, loop>>
    BY <1>1 DEF DoHandshake
  <2>4. CASE HandshakeAs(s, rest, a)
    BY <2>3, <2>4, KeepType DEF HandshakeAs, TypeOK
  <2>5. CASE HandshakeServer(s, i, rest, a)
    BY <2>3, <2>5, KeepType DEF HandshakeServer, TypeOK
  <2>6. CASE HandshakeRefused(s, i, a)
    BY <2>1, <2>3, <2>6, KeepType DEF HandshakeRefused, SSClose, TypeOK
  <2>7. CASE HandshakeUnknown(s, i, a)
    <3>1. Clear(s, i) /\ UNCHANGED sid
      BY <2>7 DEF HandshakeUnknown
    <3>2. conn' \in [Slots -> Connection] /\ closing' = closing \cup {i}
      BY <2>1, <3>1, KeepType
    <3> QED BY <2>3, <3>1, <3>2 DEF TypeOK
  <2> QED BY <1>1, <2>4, <2>5, <2>6, <2>7 DEF DoHandshake
<1>2. CASE HandleMsg(s, i, rest, a)
  <2>1. UNCHANGED sid /\ a.frame.to \in WireWord /\ a.n \in Nat \ {0}
    BY <1>2 DEF HandleMsg, Arrived, Frame, Handshake, Message
  <2>2. i \in Int /\ sid \in Int /\ ReadBlock(a.frame.to) \in Int
    BY <2>1, ReadBlockType DEF TypeOK
  <2>3. /\ WriteBlock(i) \in WireWord
        /\ WriteBlock(sid) \in WireWord
        /\ WriteBlock(ReadBlock(a.frame.to)) \in WireWord
        /\ 0 \in WireWord
    <3>1. WriteBlock(0) = 0
      BY DEF WriteBlock, Byte
    <3> QED BY <2>2, <3>1, WriteBlockType
  <2>4. \A x : CanSend(x) => x \in Sockets
    BY DEF CanSend, Exists
  <2>5. CASE RelayToServer(s, i, rest, a)
    BY <2>1, <2>3, <2>4, <2>5, KeepType, SendType DEF RelayToServer, TypeOK, Packet, LoopState
  <2>6. CASE NoServer(s, i)
    <3>1. Clear(s, i) /\ UNCHANGED <<loop, log>>
      BY <2>6 DEF NoServer
    <3>2. conn' \in [Slots -> Connection] /\ closing' = closing \cup {i}
      BY <3>1, KeepType, Zenon
    <3> QED BY <2>1, <3>1, <3>2 DEF TypeOK
  <2>7. CASE RelayToClient(s, i, rest, a)
    BY <2>1, <2>3, <2>4, <2>7, KeepType, SendType DEF RelayToClient, TypeOK, Packet
  <2>8. CASE NotifyServer(s, i, rest, a)
    BY <2>1, <2>3, <2>4, <2>8, KeepType, SendType DEF NotifyServer, TypeOK, Packet, LoopState
  <2>9. CASE DebugMessage(s, rest)
    <3>1. Keep(s, rest) /\ UNCHANGED <<closing, loop, log>>
      BY <2>9 DEF DebugMessage
    <3>2. conn' \in [Slots -> Connection]
      BY <3>1, KeepType, Zenon
    <3> QED BY <2>1, <3>1, <3>2 DEF TypeOK
  <2>10. CASE NotShakenHands(s, i)
    <3>1. Clear(s, i) /\ UNCHANGED <<loop, log>>
      BY <2>10 DEF NotShakenHands
    <3>2. conn' \in [Slots -> Connection] /\ closing' = closing \cup {i}
      BY <3>1, KeepType, Zenon
    <3> QED BY <2>1, <3>1, <3>2 DEF TypeOK
  <2> QED BY <1>2, <2>5, <2>6, <2>7, <2>8, <2>9, <2>10 DEF HandleMsg
<1> QED BY <1>1, <1>2

\* Handling a message keeps the types.
LEMMA DispatchType ==
    ASSUME TypeOK, QueuedData, QueuedAccepts, QueuedEnds, Dispatch
    PROVE  TypeOK'
<1> DEFINE m == Head(mq)
<1>1. /\ mq # <<>> /\ mq' = Tail(mq) /\ loop = "dispatch"
      /\ UNCHANGED nsent
      /\ Handle(m)
  BY DEF Dispatch
<1>2. /\ mq' \in Seq(MqMessage) /\ m = mq[1] /\ 1 \in 1 .. Len(mq)
      /\ m \in MqMessage
  BY <1>1, Popped DEF TypeOK
<1> HIDE DEF m
<1>3. CASE AcceptFull(m) /\ UNCHANGED loop
  BY <1>1, <1>2, <1>3 DEF AcceptFull, SSClose, TypeOK, QueuedAccepts
<1>4. CASE AcceptNew(m) /\ UNCHANGED loop
  <2>1. m.ud \in Ids
    BY <1>2, <1>4 DEF AcceptNew, QueuedAccepts
  <2>2. PICK s \in Slots : Insert(m.ud, s) /\ conn' = [conn EXCEPT ![s].id = m.ud]
    BY <1>4 DEF AcceptNew
  <2>3. tab' \in [Slots -> Ids \cup {Free}]
    BY <2>1, <2>2 DEF Insert, TypeOK
  <2>4. conn[s] \in Connection
    BY DEF TypeOK
  <2>5. conn' \in [Slots -> Connection]
    BY <2>1, <2>2, <2>4 DEF TypeOK, Connection
  <2>6. st' \in [Sockets -> SocketState]
    BY <1>4 DEF AcceptNew, SSStart, TypeOK, SocketState
  <2> QED BY <1>1, <1>2, <1>4, <2>3, <2>5, <2>6 DEF AcceptNew, TypeOK
<1>5. CASE Connected(m) /\ UNCHANGED loop
  <2>1. m.id \in Sockets
    BY <1>2 DEF MqMessage
  <2>2. closing' \in SUBSET Ids
    BY <1>5, <2>1 DEF Connected, SSClose, Sockets, TypeOK
  <2> QED BY <1>1, <1>2, <1>5, <2>2 DEF Connected, TypeOK
<1>6. CASE Disconnected(m) /\ UNCHANGED loop
  <2>1. NoConn \in Connection
    BY DEF NoConn, Connection
  <2>2. /\ tab' \in [Slots -> Ids \cup {Free}]
        /\ conn' \in [Slots -> Connection]
        /\ sid' \in Ids \cup {0, -1}
    BY <1>6, <2>1 DEF Disconnected, Remove, TypeOK
  <2>3. UNCHANGED <<st, closing, log, loop>>
    BY <1>6 DEF Disconnected
  <2> QED BY <1>1, <1>2, <2>2, <2>3 DEF TypeOK
<1>7. CASE Data(m)
  <2>1. m.id \in Ids /\ m.data \in Seq(Arrived)
    BY <1>2, <1>7 DEF Data, QueuedData, MqMessage
  <2>2. CASE Lookup(m.id) >= 0
    <3>1. PICK s \in Slots :
            NoFrame(conn[s].buf \o m.data) \/ OldestFrame(s, m.id, conn[s].buf \o m.data)
      BY <1>7, <2>2 DEF Data
    <3>2. /\ closing' \in SUBSET Ids
          /\ conn' \in [Slots -> Connection]
          /\ sid' \in Ids \cup {0, -1}
          /\ loop' \in LoopState
          /\ log' \in Seq(Packet)
      <4>1. CASE NoFrame(conn[s].buf \o m.data)
        BY <4>1 DEF NoFrame, TypeOK
      <4>2. CASE OldestFrame(s, m.id, conn[s].buf \o m.data)
        BY <1>1, <2>1, <4>2, PendingType, HandlerType DEF OldestFrame
      <4> QED BY <3>1, <4>1, <4>2
    <3> QED BY <1>1, <1>2, <1>7, <3>2 DEF Data, TypeOK
  <2>3. CASE ~ Lookup(m.id) >= 0
    BY <1>1, <1>2, <1>7, <2>1, <2>3 DEF Data, SSClose, TypeOK
  <2> QED BY <2>2, <2>3
<1> QED BY <1>1, <1>3, <1>4, <1>5, <1>6, <1>7 DEF Handle

-----------------------------------------------------------------------------
(* The queue and the life of the sockets: a poll. *)

\* What a poll reports, and what it leaves alone.
LEMMA PollCases ==
    ASSUME TypeOK, Poll
    PROVE  \E m \in MqMessage :
             /\ mq' = Append(mq, m)
             /\ UNCHANGED <<tab, conn, sid, log, closing>>
             /\ loop \in {"poll", "more"} /\ loop' \in {"dispatch", "more"}
             /\ \/ /\ m.type = "CONNECT" /\ m.id \in Sockets
                   /\ st[m.id] = "opening" /\ st' = [st EXCEPT ![m.id] = "open"]
                \/ /\ m.type = "ACCEPT" /\ m.ud \in Ids
                   /\ st[m.ud] = "unused" /\ st' = [st EXCEPT ![m.ud] = "accepted"]
                \/ /\ m.type = "DATA" /\ m.id \in Ids
                   /\ st[m.id] = "open" /\ UNCHANGED st
                \/ /\ m.type \in {"CLOSE", "ERROR"} /\ m.id \in Ids
                   /\ st[m.id] \in {"accepted", "opening", "open"}
                   /\ st[m.id] = "accepted" => m.id \in closing
                   /\ st' = [st EXCEPT ![m.id] = "dead"]
<1> DEFINE Msg(type, id, ud, data) == [type |-> type, id |-> id, ud |-> ud, data |-> data]
<1>1. loop \in {"poll", "more"} /\ loop' \in {"dispatch", "more"}
  BY DEF Poll, Return
<1>2. <<>> \in Seq(Arrived) /\ ListenId \in Sockets /\ Ids \subseteq Sockets
  BY DEF Sockets
<1>3. ASSUME NEW i \in Sockets, PollConnect(i)
      PROVE  /\ Msg("CONNECT", i, 0, <<>>) \in MqMessage
             /\ mq' = Append(mq, Msg("CONNECT", i, 0, <<>>))
             /\ UNCHANGED <<tab, conn, sid, log, closing>>
             /\ st[i] = "opening" /\ st' = [st EXCEPT ![i] = "open"]
  BY <1>2, <1>3, ForwardType DEF PollConnect, Opened
<1>4. ASSUME NEW i \in Ids, PollAccept(i)
      PROVE  /\ Msg("ACCEPT", ListenId, i, <<>>) \in MqMessage
             /\ mq' = Append(mq, Msg("ACCEPT", ListenId, i, <<>>))
             /\ UNCHANGED <<tab, conn, sid, log, closing>>
             /\ st[i] = "unused" /\ st' = [st EXCEPT ![i] = "accepted"]
  BY <1>2, <1>4, ForwardType DEF PollAccept, NewConnection
<1>5. ASSUME NEW i \in Ids, PollData(i)
      PROVE  \E data \in Seq(Arrived) :
               /\ Msg("DATA", i, 0, data) \in MqMessage
               /\ mq' = Append(mq, Msg("DATA", i, 0, data))
               /\ UNCHANGED <<tab, conn, sid, log, closing>>
               /\ st[i] = "open" /\ UNCHANGED st
  <2>1. PICK k \in 0 .. MaxChunk :
          \E chunk \in [1 .. k -> FramesOf[i]] : Forward("DATA", i, 0, Numbered(i, k, chunk))
    BY <1>5 DEF PollData
  <2>2. PICK chunk \in [1 .. k -> FramesOf[i]] : Forward("DATA", i, 0, Numbered(i, k, chunk))
    BY <2>1
  <2>3. nsent[i] \in Nat /\ k \in Nat
    BY DEF TypeOK
  <2>4. \A j \in 1 .. k : [frame |-> chunk[j], n |-> nsent[i] + j] \in Arrived
    BY <2>3 DEF Arrived
  <2>5. Numbered(i, k, chunk) \in Seq(Arrived)
    BY <2>3, <2>4 DEF Numbered
  <2> QED BY <1>2, <1>5, <2>2, <2>5, ForwardType DEF PollData, HasData, ssVars
<1>6. ASSUME NEW i \in Ids, PollClose(i) \/ PollError(i)
      PROVE  \E type \in {"CLOSE", "ERROR"} :
               /\ Msg(type, i, 0, <<>>) \in MqMessage
               /\ mq' = Append(mq, Msg(type, i, 0, <<>>))
               /\ UNCHANGED <<tab, conn, sid, log, closing>>
               /\ st[i] \in {"accepted", "opening", "open"}
               /\ st[i] = "accepted" => i \in closing
               /\ st' = [st EXCEPT ![i] = "dead"]
  <2>1. st[i] \in SocketState
    BY <1>2 DEF TypeOK
  <2>2. CASE PollClose(i)
    BY <1>2, <2>1, <2>2, ForwardType DEF PollClose, Closed, Exists, SocketState
  <2>3. CASE PollError(i)
    BY <1>2, <2>1, <2>3, ForwardType DEF PollError, Failed, SocketState
  <2> QED BY <1>6, <2>2, <2>3
<1>7. ASSUME NEW type, NEW id, NEW ud, NEW data
      PROVE  /\ Msg(type, id, ud, data).type = type
             /\ Msg(type, id, ud, data).id = id
             /\ Msg(type, id, ud, data).ud = ud
             /\ Msg(type, id, ud, data).data = data
  OBVIOUS
<1> HIDE DEF Msg
<1>8. CASE \E i \in Sockets : PollConnect(i)
  BY <1>1, <1>3, <1>7, <1>8
<1>9. CASE \E i \in Ids : PollAccept(i)
  BY <1>1, <1>4, <1>7, <1>9
<1>10. CASE \E i \in Ids : PollData(i)
  <2>1. PICK i \in Ids : PollData(i)
    BY <1>10
  <2>2. PICK data \in Seq(Arrived) :
          /\ Msg("DATA", i, 0, data) \in MqMessage
          /\ mq' = Append(mq, Msg("DATA", i, 0, data))
          /\ UNCHANGED <<tab, conn, sid, log, closing>>
          /\ st[i] = "open" /\ UNCHANGED st
    BY <1>5, <2>1
  <2> QED BY <1>1, <1>7, <2>2
<1>11. CASE \E i \in Ids : PollClose(i) \/ PollError(i)
  <2>1. PICK i \in Ids : PollClose(i) \/ PollError(i)
    BY <1>11
  <2> QED BY <1>1, <1>6, <1>7, <2>1
<1> QED BY <1>8, <1>9, <1>10, <1>11 DEF Poll

\* Appending a report of socket i keeps the queue and the sockets in agreement.
LEMMA PollSocketInv ==
    ASSUME TypeOK, SocketInv, Poll
    PROVE  SocketInv'
<1>1. PICK m \in MqMessage :
        /\ mq' = Append(mq, m)
        /\ UNCHANGED <<tab, conn, sid, log, closing>>
        /\ \/ /\ m.type = "CONNECT" /\ m.id \in Sockets
              /\ st[m.id] = "opening" /\ st' = [st EXCEPT ![m.id] = "open"]
           \/ /\ m.type = "ACCEPT" /\ m.ud \in Ids
              /\ st[m.ud] = "unused" /\ st' = [st EXCEPT ![m.ud] = "accepted"]
           \/ /\ m.type = "DATA" /\ m.id \in Ids
              /\ st[m.id] = "open" /\ UNCHANGED st
           \/ /\ m.type \in {"CLOSE", "ERROR"} /\ m.id \in Ids
              /\ st[m.id] \in {"accepted", "opening", "open"}
              /\ st[m.id] = "accepted" => m.id \in closing
              /\ st' = [st EXCEPT ![m.id] = "dead"]
  BY PollCases
<1>2. /\ Len(mq) \in Nat
      /\ Len(mq') = Len(mq) + 1
      /\ \A k \in 1 .. Len(mq) : mq'[k] = mq[k] /\ mq[k] \in MqMessage
      /\ mq'[Len(mq) + 1] = m
  BY <1>1, Pushed DEF TypeOK
<1>3. /\ st \in [Sockets -> SocketState] /\ Ids \subseteq Sockets
      /\ closing \subseteq Ids
      /\ tab \in [Slots -> Ids \cup {Free}] /\ Free \notin Ids
  BY DEF TypeOK, Sockets, Free
<1>4. \A k \in 1 .. Len(mq') : k \in 1 .. Len(mq) \/ (k = Len(mq) + 1 /\ mq'[k] = m)
  BY <1>2
<1>5. \A i : InTable(i)' <=> InTable(i)
  BY <1>1 DEF InTable
<1>6. \A i : EndQueued(i) => EndQueued(i)'
  BY <1>2 DEF EndQueued, IsEnd
<1>7. QueuedAccepts'
  <2> SUFFICES ASSUME NEW k \in 1 .. Len(mq'), mq'[k].type = "ACCEPT"
               PROVE  /\ mq'[k].ud \in Ids
                      /\ st'[mq'[k].ud] = "accepted"
                      /\ mq'[k].ud \notin closing
                      /\ ~ InTable(mq'[k].ud)
                      /\ \A j \in 1 .. Len(mq') :
                            mq'[j].type = "ACCEPT" /\ mq'[j].ud = mq'[k].ud => j = k
    BY <1>1, <1>5 DEF QueuedAccepts, InTable
  <2>1. CASE k \in 1 .. Len(mq)
    <3>1. /\ mq[k].ud \in Ids
          /\ st[mq[k].ud] = "accepted"
          /\ mq[k].ud \notin closing
          /\ ~ InTable(mq[k].ud)
          /\ \A j \in 1 .. Len(mq) : mq[j].type = "ACCEPT" /\ mq[j].ud = mq[k].ud => j = k
      BY <1>2, <2>1 DEF SocketInv, QueuedAccepts
    <3>2. st'[mq[k].ud] = "accepted" /\ ~ (m.type = "ACCEPT" /\ m.ud = mq[k].ud)
      BY <1>1, <1>3, <3>1
    <3> QED BY <1>2, <1>4, <2>1, <3>1, <3>2
  <2>2. CASE mq'[k] = m /\ k = Len(mq) + 1
    <3>1. m.ud \in Ids /\ st[m.ud] = "unused" /\ st' = [st EXCEPT ![m.ud] = "accepted"]
      BY <1>1, <2>2
    <3>2. m.ud \notin closing /\ ~ InTable(m.ud)
      BY <1>3, <3>1 DEF SocketInv, ClosingUsed, TableStarted, InTable
    <3>3. \A j \in 1 .. Len(mq) : mq[j].type = "ACCEPT" => mq[j].ud # m.ud
      BY <3>1 DEF SocketInv, QueuedAccepts
    <3> QED BY <1>2, <1>3, <1>4, <2>2, <3>1, <3>2, <3>3
  <2> QED BY <1>4, <2>1, <2>2
<1>8. QueuedEnds'
  <2> SUFFICES ASSUME NEW k \in 1 .. Len(mq'), mq'[k].type \in {"CLOSE", "ERROR"}
               PROVE  /\ mq'[k].id \in Ids
                      /\ st'[mq'[k].id] = "dead"
                      /\ \A j \in 1 .. Len(mq') : IsEnd(mq'[j], mq'[k].id) => j = k
    BY DEF QueuedEnds, IsEnd
  <2>1. CASE k \in 1 .. Len(mq)
    <3>1. /\ mq[k].id \in Ids
          /\ st[mq[k].id] = "dead"
          /\ \A j \in 1 .. Len(mq) : IsEnd(mq[j], mq[k].id) => j = k
      BY <1>2, <2>1 DEF SocketInv, QueuedEnds
    <3>2. st'[mq[k].id] = "dead" /\ ~ IsEnd(m, mq[k].id)
      BY <1>1, <1>3, <3>1 DEF IsEnd
    <3> QED BY <1>2, <1>4, <2>1, <3>1, <3>2
  <2>2. CASE mq'[k] = m /\ k = Len(mq) + 1
    <3>1. m.id \in Ids /\ st[m.id] # "dead" /\ st' = [st EXCEPT ![m.id] = "dead"]
      BY <1>1, <2>2
    <3>2. \A j \in 1 .. Len(mq) : ~ IsEnd(mq[j], m.id)
      BY <3>1 DEF SocketInv, QueuedEnds, IsEnd
    <3> QED BY <1>2, <1>3, <1>4, <2>2, <3>1, <3>2
  <2> QED BY <1>4, <2>1, <2>2
<1>9. QueuedData'
  BY <1>1, <1>2, <1>4 DEF QueuedData, SocketInv
<1>10. TableStarted'
  BY <1>1, <1>3 DEF TableStarted, SocketInv
<1>11. StartedInTable'
  BY <1>1, <1>3, <1>5 DEF StartedInTable, SocketInv
<1>12. AcceptedPending'
  <2>1. \A i : Accepting(i) => Accepting(i)'
    BY <1>2 DEF Accepting
  <2>2. m.type = "ACCEPT" => Accepting(m.ud)'
    BY <1>2 DEF Accepting
  <2> QED BY <1>1, <1>3, <2>1, <2>2 DEF AcceptedPending, SocketInv
<1>13. ClosingUsed'
  BY <1>1, <1>3 DEF ClosingUsed, SocketInv
<1>14. NoOrphans'
  <2> SUFFICES ASSUME NEW k \in 1 .. Len(mq'), mq'[k].type \in {"DATA", "CONNECT"},
                      mq'[k].id # ListenId
               PROVE  /\ InTable(mq'[k].id)
                      /\ \A j \in 1 .. k - 1 : ~ IsEnd(mq'[j], mq'[k].id)
    BY <1>1, <1>5 DEF NoOrphans, IsEnd, InTable
  <2>1. CASE k \in 1 .. Len(mq)
    <3>1. /\ InTable(mq[k].id)
          /\ \A j \in 1 .. k - 1 : ~ IsEnd(mq[j], mq[k].id)
      BY <1>2, <2>1 DEF SocketInv, NoOrphans
    <3>2. \A j \in 1 .. k - 1 : j \in 1 .. Len(mq)
      BY <1>2, <2>1
    <3> QED BY <1>2, <2>1, <3>1, <3>2
  <2>2. CASE mq'[k] = m /\ k = Len(mq) + 1
    <3>1. m.id \in Ids /\ st[m.id] \in {"opening", "open"}
      BY <1>1, <2>2 DEF Sockets
    <3>2. InTable(m.id)
      BY <3>1 DEF SocketInv, StartedInTable
    <3>3. \A j \in 1 .. Len(mq) : ~ IsEnd(mq[j], m.id)
      BY <3>1 DEF SocketInv, QueuedEnds, IsEnd
    <3> QED BY <1>2, <2>2, <3>2, <3>3
  <2> QED BY <1>4, <2>1, <2>2
<1>15. NoLeakedSlot'
  <2>1. m.type \in {"CLOSE", "ERROR"} => EndQueued(m.id)'
    BY <1>2 DEF EndQueued, IsEnd
  <2> QED BY <1>1, <1>3, <1>6, <2>1 DEF NoLeakedSlot, SocketInv
<1> QED BY <1>7, <1>8, <1>9, <1>10, <1>11, <1>12, <1>13, <1>14, <1>15 DEF SocketInv

-----------------------------------------------------------------------------
(* The queue and the life of the sockets: a dispatch. *)

\* What stays true of the queue's tail when no slot changes hands: the handler
\* took the first message and may have asked for sockets to be closed.
LEMMA PopSocketInv ==
    ASSUME TypeOK, SocketInv, mq # <<>>, mq' = Tail(mq), UNCHANGED <<st, tab>>,
           closing \subseteq closing', closing' \subseteq Ids,
           \A i \in closing' \ closing :
               /\ st[i] # "unused"
               /\ \A k \in 2 .. Len(mq) : ~ (mq[k].type = "ACCEPT" /\ mq[k].ud = i),
           mq[1].type = "ACCEPT" => mq[1].ud \in closing',
           mq[1].type \in {"CLOSE", "ERROR"} => ~ InTable(mq[1].id)
    PROVE  SocketInv'
<1>1. /\ Len(mq) \in Nat \ {0}
      /\ Len(mq') = Len(mq) - 1
      /\ \A k \in 1 .. Len(mq') : mq'[k] = mq[k + 1] /\ k + 1 \in 2 .. Len(mq)
  BY Popped DEF TypeOK
<1>2. \A k \in 2 .. Len(mq) : k - 1 \in 1 .. Len(mq') /\ mq'[k - 1] = mq[k]
  BY <1>1
<1>3. \A k \in 1 .. Len(mq) : k = 1 \/ k \in 2 .. Len(mq)
  BY <1>1
<1>4. \A i : InTable(i)' <=> InTable(i)
  BY DEF InTable
<1>5. QueuedAccepts'
  <2> SUFFICES ASSUME NEW k \in 1 .. Len(mq'), mq'[k].type = "ACCEPT"
               PROVE  /\ mq'[k].ud \in Ids
                      /\ st[mq'[k].ud] = "accepted"
                      /\ mq'[k].ud \notin closing'
                      /\ ~ InTable(mq'[k].ud)
                      /\ \A j \in 1 .. Len(mq') :
                            mq'[j].type = "ACCEPT" /\ mq'[j].ud = mq'[k].ud => j = k
    BY DEF QueuedAccepts, InTable
  <2>1. /\ mq[k + 1].ud \in Ids
        /\ st[mq[k + 1].ud] = "accepted"
        /\ mq[k + 1].ud \notin closing
        /\ ~ InTable(mq[k + 1].ud)
        /\ \A j \in 1 .. Len(mq) :
              mq[j].type = "ACCEPT" /\ mq[j].ud = mq[k + 1].ud => j = k + 1
    BY <1>1, <1>3 DEF SocketInv, QueuedAccepts
  <2>2. \A j \in 1 .. Len(mq') : mq'[j].type = "ACCEPT" /\ mq'[j].ud = mq'[k].ud => j = k
    BY <1>1, <1>3, <2>1
  <2>3. mq'[k] = mq[k + 1] /\ k + 1 \in 2 .. Len(mq)
    BY <1>1
  <2>4. mq[k + 1].ud \notin closing'
    BY <2>1, <2>3
  <2> QED BY <2>1, <2>2, <2>3, <2>4
<1>6. QueuedEnds'
  <2> SUFFICES ASSUME NEW k \in 1 .. Len(mq'), mq'[k].type \in {"CLOSE", "ERROR"}
               PROVE  /\ mq'[k].id \in Ids
                      /\ st[mq'[k].id] = "dead"
                      /\ \A j \in 1 .. Len(mq') : IsEnd(mq'[j], mq'[k].id) => j = k
    BY DEF QueuedEnds, IsEnd
  <2>1. /\ mq[k + 1].id \in Ids
        /\ st[mq[k + 1].id] = "dead"
        /\ \A j \in 1 .. Len(mq) : IsEnd(mq[j], mq[k + 1].id) => j = k + 1
    BY <1>1, <1>3 DEF SocketInv, QueuedEnds
  <2> QED BY <1>1, <1>3, <2>1
<1>7. QueuedData' /\ TableStarted' /\ StartedInTable' /\ ClosingUsed'
  <2>1. QueuedData'
    BY <1>1, <1>3 DEF SocketInv, QueuedData
  <2>2. TableStarted' /\ StartedInTable'
    BY <1>4 DEF SocketInv, TableStarted, StartedInTable
  <2>3. ClosingUsed'
    BY DEF SocketInv, ClosingUsed
  <2> QED BY <2>1, <2>2, <2>3
<1>8. AcceptedPending'
  <2>1. \A i : Accepting(i) => Accepting(i)' \/ (mq[1].type = "ACCEPT" /\ mq[1].ud = i)
    BY <1>2, <1>3 DEF Accepting
  <2> QED BY <2>1 DEF SocketInv, AcceptedPending
<1>9. NoOrphans'
  <2> SUFFICES ASSUME NEW k \in 1 .. Len(mq'), mq'[k].type \in {"DATA", "CONNECT"},
                      mq'[k].id # ListenId
               PROVE  /\ InTable(mq'[k].id)
                      /\ \A j \in 1 .. k - 1 : ~ IsEnd(mq'[j], mq'[k].id)
    BY <1>4 DEF NoOrphans, IsEnd, InTable
  <2>1. /\ InTable(mq[k + 1].id)
        /\ \A j \in 1 .. k : ~ IsEnd(mq[j], mq[k + 1].id)
    BY <1>1, <1>3 DEF SocketInv, NoOrphans
  <2>2. \A j \in 1 .. k - 1 : j \in 1 .. Len(mq') /\ j + 1 \in 1 .. k
    BY <1>1
  <2> QED BY <1>1, <2>1, <2>2
<1>10. NoLeakedSlot'
  <2>1. \A i : EndQueued(i) => EndQueued(i)' \/ IsEnd(mq[1], i)
    BY <1>2, <1>3 DEF EndQueued, IsEnd
  <2> QED BY <2>1 DEF SocketInv, NoLeakedSlot, IsEnd, InTable
<1> QED BY <1>5, <1>6, <1>7, <1>8, <1>9, <1>10 DEF SocketInv

\* A new connection moves from the queue to the table.
LEMMA AcceptSocketInv ==
    ASSUME TypeOK, SocketInv, mq # <<>>, mq' = Tail(mq), AcceptNew(mq[1])
    PROVE  SocketInv'
<1>1. /\ Len(mq) \in Nat \ {0}
      /\ Len(mq') = Len(mq) - 1
      /\ \A k \in 1 .. Len(mq') : mq'[k] = mq[k + 1] /\ k + 1 \in 1 .. Len(mq) /\ k + 1 # 1
  BY Popped DEF TypeOK
<1>2. /\ \A k \in 1 .. Len(mq) : k = 1 \/ k \in 2 .. Len(mq)
      /\ \A k \in 2 .. Len(mq) : k - 1 \in 1 .. Len(mq') /\ mq'[k - 1] = mq[k]
  BY <1>1
<1> DEFINE u == mq[1].ud
<1>3. /\ mq[1].type = "ACCEPT" /\ u \in Ids
      /\ st[u] = "accepted" /\ u \notin closing /\ ~ InTable(u)
      /\ \A k \in 1 .. Len(mq') : mq'[k].type = "ACCEPT" => mq'[k].ud # u
  <2>1. mq[1].type = "ACCEPT"
    BY DEF AcceptNew
  <2> QED BY <1>1, <2>1 DEF SocketInv, QueuedAccepts
<1>4. PICK s \in Slots : Insert(u, s)
  BY DEF AcceptNew
<1>5. /\ tab[s] = Free /\ tab' = [tab EXCEPT ![s] = u]
      /\ tab \in [Slots -> Ids \cup {Free}] /\ Free \notin Ids
  BY <1>4 DEF Insert, TypeOK, Free
<1>6. /\ st' = [st EXCEPT ![u] = "opening"]
      /\ st \in [Sockets -> SocketState] /\ Ids \subseteq Sockets /\ UNCHANGED closing
  BY <1>3 DEF AcceptNew, SSStart, TypeOK, Sockets
<1> HIDE DEF u
<1>7. \A i \in Ids : (\E t \in Slots : tab'[t] = i) <=> InTable(i) \/ i = u
  BY <1>3, <1>5 DEF InTable
<1>8. QueuedAccepts'
  <2> SUFFICES ASSUME NEW k \in 1 .. Len(mq'), mq'[k].type = "ACCEPT"
               PROVE  /\ mq'[k].ud \in Ids
                      /\ st'[mq'[k].ud] = "accepted"
                      /\ mq'[k].ud \notin closing'
                      /\ ~ \E t \in Slots : tab'[t] = mq'[k].ud
                      /\ \A j \in 1 .. Len(mq') :
                            mq'[j].type = "ACCEPT" /\ mq'[j].ud = mq'[k].ud => j = k
    BY DEF QueuedAccepts, InTable
  <2>1. mq'[k] = mq[k + 1] /\ k + 1 \in 1 .. Len(mq) /\ mq'[k].ud # u
    BY <1>1, <1>3
  <2>2. /\ mq[k + 1].ud \in Ids
        /\ st[mq[k + 1].ud] = "accepted"
        /\ mq[k + 1].ud \notin closing
        /\ ~ InTable(mq[k + 1].ud)
        /\ \A j \in 1 .. Len(mq) :
              mq[j].type = "ACCEPT" /\ mq[j].ud = mq[k + 1].ud => j = k + 1
    BY <2>1 DEF SocketInv, QueuedAccepts
  <2>3. \A j \in 1 .. Len(mq') : mq'[j].type = "ACCEPT" /\ mq'[j].ud = mq'[k].ud => j = k
    BY <1>1, <2>1, <2>2
  <2>4. ~ \E t \in Slots : tab'[t] = mq'[k].ud
    BY <1>7, <2>1, <2>2
  <2> QED BY <1>6, <2>1, <2>2, <2>3, <2>4
<1>9. QueuedEnds'
  <2> SUFFICES ASSUME NEW k \in 1 .. Len(mq'), mq'[k].type \in {"CLOSE", "ERROR"}
               PROVE  /\ mq'[k].id \in Ids
                      /\ st'[mq'[k].id] = "dead"
                      /\ \A j \in 1 .. Len(mq') : IsEnd(mq'[j], mq'[k].id) => j = k
    BY DEF QueuedEnds, IsEnd
  <2>1. /\ mq[k + 1].id \in Ids
        /\ st[mq[k + 1].id] = "dead"
        /\ \A j \in 1 .. Len(mq) : IsEnd(mq[j], mq[k + 1].id) => j = k + 1
    BY <1>1 DEF SocketInv, QueuedEnds
  <2>2. mq[k + 1].id # u
    BY <1>3, <2>1
  <2> QED BY <1>1, <1>6, <2>1, <2>2
<1>10. QueuedData'
  BY <1>1 DEF SocketInv, QueuedData
<1>11. TableStarted'
  BY <1>3, <1>5, <1>6 DEF SocketInv, TableStarted, InTable
<1>12. StartedInTable'
  BY <1>3, <1>6, <1>7 DEF SocketInv, StartedInTable, InTable
<1>13. AcceptedPending'
  <2>1. \A i : Accepting(i) => Accepting(i)' \/ i = u
    BY <1>2 DEF Accepting, u
  <2> QED BY <1>6, <2>1 DEF SocketInv, AcceptedPending
<1>14. ClosingUsed'
  BY <1>6 DEF SocketInv, ClosingUsed
<1>15. NoOrphans'
  <2> SUFFICES ASSUME NEW k \in 1 .. Len(mq'), mq'[k].type \in {"DATA", "CONNECT"},
                      mq'[k].id # ListenId
               PROVE  /\ \E t \in Slots : tab'[t] = mq'[k].id
                      /\ \A j \in 1 .. k - 1 : ~ IsEnd(mq'[j], mq'[k].id)
    BY DEF NoOrphans, IsEnd, InTable
  <2>1. /\ InTable(mq[k + 1].id)
        /\ \A j \in 1 .. k : ~ IsEnd(mq[j], mq[k + 1].id)
    BY <1>1 DEF SocketInv, NoOrphans
  <2>2. \A j \in 1 .. k - 1 : j \in 1 .. Len(mq') /\ j + 1 \in 1 .. k
    BY <1>1
  <2>3. mq[k + 1] \in MqMessage
    BY <1>1, Popped DEF TypeOK
  <2>4. mq[k + 1].id \in Ids
    BY <1>1, <2>3 DEF MqMessage, Sockets
  <2> QED BY <1>1, <1>7, <2>1, <2>2, <2>4
<1>16. NoLeakedSlot'
  <2>1. \A i : EndQueued(i) => EndQueued(i)'
    <3>1. \A i : ~ IsEnd(mq[1], i)
      BY <1>3 DEF IsEnd
    <3> QED BY <1>2, <3>1 DEF EndQueued, IsEnd
  <2> QED BY <1>3, <1>5, <1>6, <2>1 DEF SocketInv, NoLeakedSlot, InTable
<1> QED BY <1>8, <1>9, <1>10, <1>11, <1>12, <1>13, <1>14, <1>15, <1>16 DEF SocketInv

\* The end of a socket, once dispatched, takes it out of the table.
LEMMA RemoveSocketInv ==
    ASSUME TypeOK, TableMatchesConn, SocketInv, mq # <<>>, mq' = Tail(mq),
           mq[1].type \in {"CLOSE", "ERROR"}, NEW s \in Slots, Remove(mq[1].id, s),
           UNCHANGED <<st, closing>>
    PROVE  SocketInv'
<1>1. /\ Len(mq) \in Nat \ {0}
      /\ Len(mq') = Len(mq) - 1
      /\ \A k \in 1 .. Len(mq') : mq'[k] = mq[k + 1] /\ k + 1 \in 1 .. Len(mq) /\ k + 1 # 1
  BY Popped DEF TypeOK
<1>2. /\ \A k \in 1 .. Len(mq) : k = 1 \/ k \in 2 .. Len(mq)
      /\ \A k \in 2 .. Len(mq) : k - 1 \in 1 .. Len(mq') /\ mq'[k - 1] = mq[k]
  BY <1>1
<1> DEFINE d == mq[1].id
<1>3. /\ d \in Ids /\ st[d] = "dead"
      /\ \A k \in 1 .. Len(mq') : ~ IsEnd(mq'[k], d)
  BY <1>1 DEF SocketInv, QueuedEnds, IsEnd
<1>4. /\ tab[s] = d /\ tab' = [tab EXCEPT ![s] = Free]
      /\ tab \in [Slots -> Ids \cup {Free}] /\ Free \notin Ids
  BY DEF Remove, TypeOK, Free
<1>5. IsEnd(mq[1], d)
  BY DEF IsEnd
<1> HIDE DEF d
<1>6. \A i \in Ids : (\E t \in Slots : tab'[t] = i) <=> InTable(i) /\ i # d
  BY <1>3, <1>4 DEF InTable, TableMatchesConn
<1>7. QueuedAccepts'
  <2> SUFFICES ASSUME NEW k \in 1 .. Len(mq'), mq'[k].type = "ACCEPT"
               PROVE  /\ mq'[k].ud \in Ids
                      /\ st[mq'[k].ud] = "accepted"
                      /\ mq'[k].ud \notin closing
                      /\ ~ \E t \in Slots : tab'[t] = mq'[k].ud
                      /\ \A j \in 1 .. Len(mq') :
                            mq'[j].type = "ACCEPT" /\ mq'[j].ud = mq'[k].ud => j = k
    BY DEF QueuedAccepts, InTable
  <2>1. mq'[k] = mq[k + 1] /\ k + 1 \in 1 .. Len(mq)
    BY <1>1
  <2>2. /\ mq[k + 1].ud \in Ids
        /\ st[mq[k + 1].ud] = "accepted"
        /\ mq[k + 1].ud \notin closing
        /\ ~ InTable(mq[k + 1].ud)
        /\ \A j \in 1 .. Len(mq) :
              mq[j].type = "ACCEPT" /\ mq[j].ud = mq[k + 1].ud => j = k + 1
    BY <2>1 DEF SocketInv, QueuedAccepts
  <2>3. \A j \in 1 .. Len(mq') : mq'[j].type = "ACCEPT" /\ mq'[j].ud = mq'[k].ud => j = k
    BY <1>1, <2>1, <2>2
  <2> QED BY <1>6, <2>1, <2>2, <2>3
<1>8. QueuedEnds'
  <2> SUFFICES ASSUME NEW k \in 1 .. Len(mq'), mq'[k].type \in {"CLOSE", "ERROR"}
               PROVE  /\ mq'[k].id \in Ids
                      /\ st[mq'[k].id] = "dead"
                      /\ \A j \in 1 .. Len(mq') : IsEnd(mq'[j], mq'[k].id) => j = k
    BY DEF QueuedEnds, IsEnd
  <2>1. /\ mq[k + 1].id \in Ids
        /\ st[mq[k + 1].id] = "dead"
        /\ \A j \in 1 .. Len(mq) : IsEnd(mq[j], mq[k + 1].id) => j = k + 1
    BY <1>1 DEF SocketInv, QueuedEnds
  <2> QED BY <1>1, <2>1
<1>9. QueuedData'
  BY <1>1 DEF SocketInv, QueuedData
<1>10. TableStarted'
  BY <1>4 DEF SocketInv, TableStarted
<1>11. StartedInTable'
  BY <1>3, <1>6 DEF SocketInv, StartedInTable, InTable
<1>12. AcceptedPending'
  <2>1. \A i : Accepting(i) => Accepting(i)'
    BY <1>2 DEF Accepting
  <2> QED BY <2>1 DEF SocketInv, AcceptedPending
<1>13. ClosingUsed'
  BY DEF SocketInv, ClosingUsed
<1>14. NoOrphans'
  <2> SUFFICES ASSUME NEW k \in 1 .. Len(mq'), mq'[k].type \in {"DATA", "CONNECT"},
                      mq'[k].id # ListenId
               PROVE  /\ \E t \in Slots : tab'[t] = mq'[k].id
                      /\ \A j \in 1 .. k - 1 : ~ IsEnd(mq'[j], mq'[k].id)
    BY DEF NoOrphans, IsEnd, InTable
  <2>1. /\ InTable(mq[k + 1].id)
        /\ \A j \in 1 .. k : ~ IsEnd(mq[j], mq[k + 1].id)
    BY <1>1 DEF SocketInv, NoOrphans
  <2>2. 1 \in 1 .. k /\ \A j \in 1 .. k - 1 : j \in 1 .. Len(mq') /\ j + 1 \in 1 .. k
    BY <1>1
  <2>3. mq[k + 1] \in MqMessage
    BY <1>1, Popped DEF TypeOK
  <2>4. mq[k + 1].id \in Ids
    BY <1>1, <2>3 DEF MqMessage, Sockets
  <2>5. mq[k + 1].id # d
    BY <1>5, <2>1, <2>2
  <2> QED BY <1>1, <1>6, <2>1, <2>2, <2>4, <2>5
<1>15. NoLeakedSlot'
  <2>1. \A i : EndQueued(i) => EndQueued(i)' \/ i = d
    <3>1. \A i : IsEnd(mq[1], i) => i = d
      BY DEF IsEnd, d
    <3> QED BY <1>2, <3>1 DEF EndQueued, IsEnd
  <2>2. \A t \in Slots : tab'[t] # Free => tab'[t] = tab[t] /\ tab[t] # d
    BY <1>4 DEF TableMatchesConn
  <2> QED BY <2>1, <2>2 DEF SocketInv, NoLeakedSlot
<1> QED BY <1>7, <1>8, <1>9, <1>10, <1>11, <1>12, <1>13, <1>14, <1>15 DEF SocketInv

-----------------------------------------------------------------------------
(* The other invariants: what the handlers of a frame do. *)

\* A handler touches the connection it works for and no other; it registers a
\* server only when there is none, and makes no second one without closing it;
\* it can abort only by writing to a server that is not there.
LEMMA HandlerEffect ==
    ASSUME TypeOK, NEW s \in Slots, NEW i \in Ids, NEW rest, NEW a,
           DoHandshake(s, i, rest, a) \/ HandleMsg(s, i, rest, a)
    PROVE  /\ closing' = closing \/ closing' = closing \cup {i}
           /\ DOMAIN conn' = Slots
           /\ \A t \in Slots : t # s => conn'[t] = conn[t]
           /\ conn'[s].id = conn[s].id
           /\ conn'[s].tp = "S" => conn[s].tp = "S" \/ sid' = i \/ i \in closing'
           /\ sid' = sid \/ (sid' = i /\ sid <= 0)
           /\ loop' = loop \/ (loop' = "aborted" /\ ~ CanSend(sid) /\ sid' = sid)
<1>1. conn \in [Slots -> Connection]
  BY DEF TypeOK
<1>2. ASSUME NEW b, NEW tp, KeepAs(s, b, tp)
      PROVE  /\ DOMAIN conn' = Slots
             /\ \A t \in Slots : t # s => conn'[t] = conn[t]
             /\ conn'[s].id = conn[s].id
             /\ conn'[s].tp = tp
  BY <1>1, <1>2 DEF KeepAs
<1>3. CASE DoHandshake(s, i, rest, a)
  <2>1. UNCHANGED loop
    BY <1>3 DEF DoHandshake
  <2>2. CASE HandshakeAs(s, rest, a)
    <3>1. a.frame.dev # "S" /\ KeepAs(s, rest, a.frame.dev) /\ UNCHANGED <<sid, closing>>
      BY <2>2 DEF HandshakeAs
    <3> QED BY <1>2, <2>1, <3>1
  <2>3. CASE HandshakeServer(s, i, rest, a)
    BY <1>2, <2>1, <2>3 DEF HandshakeServer
  <2>4. CASE HandshakeRefused(s, i, a)
    BY <1>2, <2>1, <2>4 DEF HandshakeRefused, SSClose
  <2>5. CASE HandshakeUnknown(s, i, a)
    BY <1>2, <2>1, <2>5 DEF HandshakeUnknown, Clear, SSClose
  <2> QED BY <1>3, <2>2, <2>3, <2>4, <2>5 DEF DoHandshake
<1>4. CASE HandleMsg(s, i, rest, a)
  <2>1. UNCHANGED sid
    BY <1>4 DEF HandleMsg
  <2>2. CASE RelayToServer(s, i, rest, a)
    BY <1>2, <2>1, <2>2 DEF RelayToServer, Keep
  <2>3. CASE NoServer(s, i)
    BY <1>2, <2>1, <2>3 DEF NoServer, Clear, SSClose
  <2>4. CASE RelayToClient(s, i, rest, a)
    BY <1>2, <2>1, <2>4 DEF RelayToClient, Keep
  <2>5. CASE NotifyServer(s, i, rest, a)
    BY <1>2, <2>1, <2>5 DEF NotifyServer, Keep
  <2>6. CASE DebugMessage(s, rest)
    BY <1>2, <2>1, <2>6 DEF DebugMessage, Keep
  <2>7. CASE NotShakenHands(s, i)
    BY <1>2, <2>1, <2>7 DEF NotShakenHands, Clear, SSClose
  <2> QED BY <1>4, <2>2, <2>3, <2>4, <2>5, <2>6, <2>7 DEF HandleMsg
<1> QED BY <1>3, <1>4

\* The DATA message at the head of the queue finds its connection.
LEMMA DataEffect ==
    ASSUME TypeOK, SocketInv, mq # <<>>, loop = "dispatch", Data(mq[1])
    PROVE  \E s \in Slots :
             /\ tab[s] = mq[1].id /\ mq[1].id \in Ids
             /\ closing' = closing \/ closing' = closing \cup {mq[1].id}
             /\ DOMAIN conn' = Slots
             /\ \A t \in Slots : t # s => conn'[t] = conn[t]
             /\ conn'[s].id = conn[s].id
             /\ conn'[s].tp = "S" =>
                  conn[s].tp = "S" \/ sid' = mq[1].id \/ mq[1].id \in closing'
             /\ sid' = sid \/ (sid' = mq[1].id /\ sid <= 0)
             /\ loop' = loop \/ (loop' = "aborted" /\ ~ CanSend(sid) /\ sid' = sid)
             /\ UNCHANGED <<st, tab>>
<1>1. 1 \in 1 .. Len(mq)
  BY Popped, EmptySeq DEF TypeOK
<1>2. mq[1].type = "DATA" /\ mq[1].id \in Ids
  BY <1>1 DEF Data, SocketInv, QueuedData
<1>3. InTable(mq[1].id)
  BY <1>1, <1>2 DEF SocketInv, NoOrphans
<1>4. Lookup(mq[1].id) >= 0
  <2>1. mq[1].id \in Int
    BY <1>2
  <2> QED BY <1>2, <1>3, <2>1, LookupFinds DEF TypeOK
<1>5. PICK s \in Slots :
        /\ tab[s] = mq[1].id
        /\ \/ UNCHANGED <<closing, conn, sid, loop>>
           \/ \E rest, a : \/ DoHandshake(s, mq[1].id, rest, a)
                           \/ HandleMsg(s, mq[1].id, rest, a)
  BY <1>4 DEF Data, NoFrame, OldestFrame
<1>7. UNCHANGED <<st, tab>>
  BY DEF Data
<1>8. /\ closing' = closing \/ closing' = closing \cup {mq[1].id}
      /\ DOMAIN conn' = Slots
      /\ \A t \in Slots : t # s => conn'[t] = conn[t]
      /\ conn'[s].id = conn[s].id
      /\ conn'[s].tp = "S" => conn[s].tp = "S" \/ sid' = mq[1].id \/ mq[1].id \in closing'
      /\ sid' = sid \/ (sid' = mq[1].id /\ sid <= 0)
      /\ loop' = loop \/ (loop' = "aborted" /\ ~ CanSend(sid) /\ sid' = sid)
  <2>1. CASE UNCHANGED <<closing, conn, sid, loop>>
    BY <2>1 DEF TypeOK
  <2>2. CASE \E rest, a : \/ DoHandshake(s, mq[1].id, rest, a)
                          \/ HandleMsg(s, mq[1].id, rest, a)
    <3>1. PICK rest, a : \/ DoHandshake(s, mq[1].id, rest, a)
                         \/ HandleMsg(s, mq[1].id, rest, a)
      BY <2>2
    <3> QED BY <1>2, <3>1, HandlerEffect, Zenon
  <2> QED BY <1>5, <2>1, <2>2
<1> QED BY <1>2, <1>5, <1>7, <1>8, Zenon

-----------------------------------------------------------------------------
(* The induction. *)

\* Handling the first message of the queue preserves the invariant, case by case.
LEMMA DispatchInv ==
    ASSUME IndInv, Dispatch
    PROVE  IndInv'
<1> DEFINE m == mq[1]
<1>1. /\ TypeOK /\ TableMatchesConn /\ SocketInv /\ ServerKnown
      /\ RefusedServersClosing /\ AbortWindow
  BY DEF IndInv
<1>2. /\ mq # <<>> /\ mq' = Tail(mq) /\ loop = "dispatch"
      /\ Handle(m)
  BY <1>1, Popped DEF Dispatch, TypeOK
<1>3. TypeOK'
  BY <1>1, DispatchType DEF SocketInv
<1>4. /\ 1 \in 1 .. Len(mq) /\ m \in MqMessage
      /\ \A k \in 2 .. Len(mq) : k \in 1 .. Len(mq) /\ k # 1
      /\ \A k \in 2 .. Len(mq) : k - 1 \in 1 .. Len(mq') /\ mq'[k - 1] = mq[k]
      /\ \A k \in 1 .. Len(mq) : k = 1 \/ k \in 2 .. Len(mq)
  BY <1>1, <1>2, Popped, EmptySeq DEF TypeOK
<1>5. /\ tab \in [Slots -> Ids \cup {Free}] /\ conn \in [Slots -> Connection]
      /\ sid \in Ids \cup {0, -1} /\ closing \subseteq Ids
      /\ Free = -1 /\ Free \notin Ids /\ ListenId \notin Ids /\ 0 \notin Ids
      /\ \A i \in Ids : i > 0 /\ i \in Int
  BY <1>1 DEF TypeOK, Free
<1> HIDE DEF m
<1>6. m.type = "ACCEPT" =>
        /\ m.ud \in Ids /\ st[m.ud] = "accepted" /\ ~ InTable(m.ud)
        /\ \A k \in 2 .. Len(mq) : ~ (mq[k].type = "ACCEPT" /\ mq[k].ud = m.ud)
  BY <1>1, <1>4 DEF SocketInv, QueuedAccepts, m
<1>7. CASE AcceptFull(m) /\ UNCHANGED loop
  <2>1. /\ m.type = "ACCEPT" /\ closing' = closing \cup {m.ud}
        /\ UNCHANGED <<st, tab, conn, sid, loop>>
    BY <1>7 DEF AcceptFull, SSClose
  <2>2. SocketInv'
    BY <1>1, <1>2, <1>5, <1>6, <2>1, PopSocketInv DEF m
  <2>3. TableMatchesConn' /\ ServerKnown' /\ RefusedServersClosing' /\ AbortWindow'
    BY <1>1, <1>2, <2>1
    DEF TableMatchesConn, ServerKnown, RefusedServersClosing, AbortWindow, InTable
  <2> QED BY <1>3, <2>2, <2>3 DEF IndInv
<1>8. CASE AcceptNew(m) /\ UNCHANGED loop
  <2>1. m.type = "ACCEPT" /\ m.ud \in Ids /\ ~ InTable(m.ud) /\ UNCHANGED <<closing, sid, loop>>
    BY <1>6, <1>8 DEF AcceptNew
  <2>2. PICK s \in Slots : /\ tab[s] = Free
                           /\ tab' = [tab EXCEPT ![s] = m.ud]
                           /\ conn' = [conn EXCEPT ![s].id = m.ud]
    BY <1>8 DEF AcceptNew, Insert
  <2>3. SocketInv'
    BY <1>1, <1>2, <1>8, AcceptSocketInv DEF m
  <2>4. conn[s] = NoConn
    BY <1>1, <2>2 DEF TableMatchesConn
  <2>5. /\ conn'[s].id = m.ud /\ conn'[s].tp = "none"
        /\ \A t \in Slots : t # s => conn'[t] = conn[t] /\ tab'[t] = tab[t]
        /\ tab'[s] = m.ud
    BY <1>5, <2>2, <2>4 DEF NoConn
  <2>6. TableMatchesConn'
    BY <1>1, <1>5, <2>1, <2>5 DEF TableMatchesConn, InTable
  <2>7. ServerKnown'
    BY <1>1, <2>1, <2>2, <2>5, <1>5 DEF ServerKnown, InTable
  <2>8. RefusedServersClosing'
    BY <1>1, <2>1, <2>5 DEF RefusedServersClosing
  <2>9. AbortWindow'
    BY <1>2, <2>1 DEF AbortWindow
  <2> QED BY <1>3, <2>3, <2>6, <2>7, <2>8, <2>9 DEF IndInv
<1>9. CASE Connected(m) /\ UNCHANGED loop
  <2>1. m.type = "CONNECT" /\ m.id \in Sockets /\ UNCHANGED <<st, tab, conn, sid, loop>>
    BY <1>4, <1>9 DEF Connected, MqMessage
  <2>2. m.id = ListenId \/ Lookup(m.id) >= 0
    <3>1. CASE m.id # ListenId
      <4>1. InTable(m.id)
        BY <1>1, <1>4, <2>1, <3>1 DEF SocketInv, NoOrphans, m
      <4>2. m.id \in Ids /\ m.id \in Int
        BY <1>5, <2>1, <3>1 DEF Sockets
      <4> QED BY <1>5, <4>1, <4>2, LookupFinds
    <3> QED BY <3>1
  <2>3. UNCHANGED closing
    BY <1>9, <2>2 DEF Connected
  <2>4. SocketInv'
    BY <1>1, <1>2, <1>5, <2>1, <2>3, PopSocketInv DEF m
  <2>5. TableMatchesConn' /\ ServerKnown' /\ RefusedServersClosing' /\ AbortWindow'
    BY <1>1, <1>2, <2>1, <2>3
    DEF TableMatchesConn, ServerKnown, RefusedServersClosing, AbortWindow, InTable
  <2> QED BY <1>3, <2>4, <2>5 DEF IndInv
<1>10. CASE Disconnected(m) /\ UNCHANGED loop
  <2>1. /\ m.type \in {"CLOSE", "ERROR"} /\ UNCHANGED <<st, closing, loop>>
        /\ m.id \in Ids
    BY <1>1, <1>4, <1>10 DEF Disconnected, SocketInv, QueuedEnds, m
  <2>2. CASE Lookup(m.id) < 0 /\ UNCHANGED <<tab, conn, sid>>
    <3>1. ~ InTable(m.id)
      <4>1. m.id \in Int
        BY <1>5, <2>1
      <4> QED BY <1>5, <2>1, <2>2, <4>1, LookupFinds
    <3>2. SocketInv'
      BY <1>1, <1>2, <1>5, <2>1, <2>2, <3>1, PopSocketInv DEF m
    <3>3. TableMatchesConn' /\ ServerKnown' /\ RefusedServersClosing' /\ AbortWindow'
      BY <1>1, <1>2, <2>1, <2>2
      DEF TableMatchesConn, ServerKnown, RefusedServersClosing, AbortWindow, InTable
    <3> QED BY <1>3, <3>2, <3>3 DEF IndInv
  <2>3. ASSUME NEW s \in Slots, Remove(m.id, s),
               sid' = IF conn[s].id = sid THEN -1 ELSE sid,
               conn' = [conn EXCEPT ![s] = NoConn]
        PROVE  IndInv'
    <3>1. SocketInv'
      BY <1>1, <1>2, <2>1, <2>3, RemoveSocketInv DEF m
    <3>2. /\ tab[s] = m.id /\ conn[s].id = m.id
          /\ tab'[s] = Free /\ conn'[s] = NoConn
          /\ \A t \in Slots : t # s => conn'[t] = conn[t] /\ tab'[t] = tab[t] /\ tab[t] # m.id
          /\ NoConn.id = Free /\ NoConn.tp = "none"
      BY <1>1, <1>5, <2>1, <2>3 DEF Remove, TableMatchesConn, NoConn
    <3>3. TableMatchesConn'
      BY <1>1, <3>2 DEF TableMatchesConn
    <3>4. ServerKnown'
      BY <1>1, <2>3, <3>2 DEF ServerKnown, InTable
    <3>5. RefusedServersClosing'
      BY <1>1, <2>1, <2>3, <3>2 DEF RefusedServersClosing
    <3>6. AbortWindow'
      BY <1>2, <2>1 DEF AbortWindow
    <3> QED BY <1>3, <3>1, <3>3, <3>4, <3>5, <3>6 DEF IndInv
  <2> QED BY <1>10, <2>2, <2>3 DEF Disconnected
<1>11. CASE Data(m)
  <2>1. PICK s \in Slots :
          /\ tab[s] = m.id /\ m.id \in Ids
          /\ closing' = closing \/ closing' = closing \cup {m.id}
          /\ DOMAIN conn' = Slots
          /\ \A t \in Slots : t # s => conn'[t] = conn[t]
          /\ conn'[s].id = conn[s].id
          /\ conn'[s].tp = "S" => conn[s].tp = "S" \/ sid' = m.id \/ m.id \in closing'
          /\ sid' = sid \/ (sid' = m.id /\ sid <= 0)
          /\ loop' = loop \/ (loop' = "aborted" /\ ~ CanSend(sid) /\ sid' = sid)
          /\ UNCHANGED <<st, tab>>
    BY <1>1, <1>2, <1>11, DataEffect DEF m
  <2>2. m.type = "DATA" /\ InTable(m.id)
    BY <1>11, <2>1 DEF Data, InTable
  <2>3. SocketInv'
    <3>1. st[m.id] # "unused"
      BY <1>1, <1>5, <2>1 DEF SocketInv, TableStarted
    <3>2. \A k \in 2 .. Len(mq) : ~ (mq[k].type = "ACCEPT" /\ mq[k].ud = m.id)
      BY <1>1, <1>4, <2>2 DEF SocketInv, QueuedAccepts
    <3>3. closing \subseteq closing' /\ closing' \subseteq Ids /\ closing' \ closing \subseteq {m.id}
      BY <1>5, <2>1
    <3>4. m.type # "ACCEPT" /\ m.type \notin {"CLOSE", "ERROR"}
      BY <2>2
    <3> QED BY <1>1, <1>2, <2>1, <3>1, <3>2, <3>3, <3>4, PopSocketInv DEF m
  <2>4. TableMatchesConn'
    BY <1>1, <1>5, <2>1 DEF TableMatchesConn
  <2>5. ServerKnown'
    BY <1>1, <2>1 DEF ServerKnown, InTable
  <2>6. RefusedServersClosing'
    <3>1. \A t \in Slots : conn[t].tp = "S" => tab[t] \in Ids
      BY <1>1, <1>5 DEF TableMatchesConn, NoConn
    <3> QED BY <1>1, <1>5, <2>1, <3>1 DEF RefusedServersClosing
  <2>7. AbortWindow'
    <3> SUFFICES ASSUME loop' = "aborted", sid > 0, sid' = sid
                 PROVE  \E k \in 1 .. Len(mq') : IsEnd(mq'[k], sid)
      BY <1>2, <1>5, <2>1 DEF AbortWindow, EndQueued, IsEnd
    <3>1. ~ CanSend(sid) /\ sid \in Ids
      BY <1>2, <1>5, <2>1
    <3>2. PICK t \in Slots : tab[t] = sid
      BY <1>1, <3>1 DEF ServerKnown, InTable
    <3>3. st[sid] = "dead"
      BY <1>1, <1>5, <3>1, <3>2 DEF SocketInv, TableStarted, CanSend, Exists, Sockets
    <3>4. PICK k \in 1 .. Len(mq) : IsEnd(mq[k], sid)
      BY <1>1, <1>5, <3>1, <3>2, <3>3 DEF SocketInv, NoLeakedSlot, EndQueued
    <3>5. k # 1
      BY <2>2, <3>4 DEF IsEnd, m
    <3> QED BY <1>4, <3>4, <3>5
  <2> QED BY <1>3, <2>3, <2>4, <2>5, <2>6, <2>7 DEF IndInv
<1> QED BY <1>2, <1>7, <1>8, <1>9, <1>10, <1>11 DEF Handle

\* A poll preserves the invariant.
LEMMA PollInv ==
    ASSUME IndInv, Poll
    PROVE  IndInv'
<1>1. /\ TypeOK /\ TableMatchesConn /\ SocketInv /\ ServerKnown
      /\ RefusedServersClosing /\ AbortWindow
  BY DEF IndInv
<1>2. TypeOK' /\ SocketInv'
  BY <1>1, PollType, PollSocketInv
<1>3. UNCHANGED <<tab, conn, sid, closing>> /\ loop' # "aborted"
  <2>1. /\ \E m \in MqMessage : UNCHANGED <<tab, conn, sid, closing>>
        /\ loop' \in {"dispatch", "more"}
    BY <1>1, PollCases
  <2> QED BY <2>1
<1>4. TableMatchesConn' /\ ServerKnown' /\ RefusedServersClosing' /\ AbortWindow'
  BY <1>1, <1>3 DEF TableMatchesConn, ServerKnown, RefusedServersClosing, AbortWindow, InTable
<1> QED BY <1>2, <1>4 DEF IndInv

\* The invariant holds when gate_init is done.
LEMMA InitInv == Init => IndInv
<1> SUFFICES ASSUME Init PROVE IndInv
  OBVIOUS
<1>1. /\ st = [i \in Sockets |-> IF i = ListenId THEN "opening" ELSE "unused"]
      /\ closing = {} /\ tab = [s \in Slots |-> Free] /\ conn = [s \in Slots |-> NoConn]
      /\ sid = 0 /\ mq = <<>> /\ loop = "poll" /\ nsent = [i \in Ids |-> 0] /\ log = <<>>
  BY DEF Init, SSInit, TabInit
<1>2. TypeOK
  BY <1>1 DEF TypeOK, SocketState, NoConn, Connection, LoopState
<1>3. Len(mq) = 0
  BY <1>1
<1>4. SocketInv
  <2>1. \A i \in Ids : i \in Sockets /\ i # ListenId
    BY DEF Sockets
  <2> QED
    BY <1>1, <1>3, <2>1 DEF SocketInv, QueuedAccepts, QueuedEnds, QueuedData, TableStarted,
       StartedInTable, AcceptedPending, ClosingUsed, NoOrphans, NoLeakedSlot
<1>5. TableMatchesConn
  <2>1. \A s \in Slots : tab[s] = Free /\ conn[s] = NoConn /\ NoConn.id = Free
    BY <1>1 DEF NoConn, Free
  <2> QED BY <2>1 DEF TableMatchesConn
<1>6. ServerKnown /\ AbortWindow
  BY <1>1 DEF ServerKnown, AbortWindow
<1>7. RefusedServersClosing
  BY <1>1 DEF RefusedServersClosing, NoConn
<1> QED BY <1>2, <1>4, <1>5, <1>6, <1>7 DEF IndInv

\* Only loop moves, to a new poll.
LEMMA SleepInv ==
    ASSUME IndInv, UNCHANGED <<st, closing, tab, conn, sid, mq, nsent, log>>,
           loop' \in {loop, "poll"}
    PROVE  IndInv'
<1>1. TypeOK' /\ AbortWindow'
  BY DEF IndInv, TypeOK, AbortWindow, LoopState, EndQueued, IsEnd
<1>2. TableMatchesConn' /\ ServerKnown' /\ RefusedServersClosing'
  BY DEF IndInv, TableMatchesConn, ServerKnown, RefusedServersClosing, InTable
<1>3. QueuedAccepts' /\ QueuedEnds' /\ QueuedData' /\ NoOrphans'
  BY DEF IndInv, SocketInv, QueuedAccepts, QueuedEnds, QueuedData, NoOrphans, IsEnd, InTable
<1>4. TableStarted' /\ StartedInTable' /\ AcceptedPending' /\ ClosingUsed' /\ NoLeakedSlot'
  BY DEF IndInv, SocketInv, TableStarted, StartedInTable, AcceptedPending, ClosingUsed,
     NoLeakedSlot, InTable, Accepting, EndQueued, IsEnd
<1> QED BY <1>1, <1>2, <1>3, <1>4 DEF IndInv, SocketInv

\* Every step of the gateway and of its sockets preserves the invariant.
LEMMA NextInv == IndInv /\ [Next]_vars => IndInv'
<1> SUFFICES ASSUME IndInv, [Next]_vars PROVE IndInv'
  OBVIOUS
<1>1. CASE Sleep \/ UNCHANGED vars
  BY <1>1, SleepInv DEF Sleep, vars
<1> QED BY <1>1, PollInv, DispatchInv DEF Next

-----------------------------------------------------------------------------
(* The theorems. *)

\* The inductive invariant holds in every state the gateway can reach.
THEOREM Induction == Spec => []IndInv
BY InitInv, NextInv, PTL DEF Spec

\* Every variable of the gateway keeps the shape its C type gives it.
THEOREM TypeCorrect == Spec => []TypeOK
<1>1. IndInv => TypeOK
  BY DEF IndInv
<1> QED BY <1>1, Induction, PTL

\* The hash table and the array of connections always agree, whatever is
\* accepted, refused and closed in which order.
THEOREM TablesAgree == Spec => []TableMatchesConn
<1>1. IndInv => TableMatchesConn
  BY DEF IndInv
<1> QED BY <1>1, Induction, PTL

\* sid never names a connection that is gone from the table.
THEOREM ServerIsConnected == Spec => []ServerKnown
<1>1. IndInv => ServerKnown
  BY DEF IndInv
<1> QED BY <1>1, Induction, PTL

\* A connection of type 'S' other than the registered server is being closed.
THEOREM OneServer == Spec => []RefusedServersClosing
<1>1. IndInv => RefusedServersClosing
  BY DEF IndInv
<1> QED BY <1>1, Induction, PTL

\* The "unknown connection" branches of the DATA and CONNECT handlers are dead:
\* a queued message always finds its connection.
THEOREM EveryMessageHasItsConnection == Spec => []NoOrphans
<1>1. IndInv => NoOrphans
  BY DEF IndInv, SocketInv
<1> QED BY <1>1, Induction, PTL

\* A slot whose socket is gone will be freed, and a socket that exists is in
\* the table, waits to be accepted, or is being closed.
THEOREM NothingLeaks == Spec => [](NoLeakedSlot /\ NoForgottenSocket)
<1>1. IndInv => NoLeakedSlot
  BY DEF IndInv, SocketInv
<1>2. IndInv => NoForgottenSocket
  <2> SUFFICES ASSUME IndInv, NEW i \in Ids, Exists(i)
               PROVE  InTable(i) \/ Accepting(i) \/ i \in closing
    BY DEF NoForgottenSocket, Accepting
  <2>1. i \in Sockets /\ st[i] \in {"accepted", "opening", "open"}
    BY DEF IndInv, TypeOK, Exists, SocketState, Sockets
  <2> QED BY <2>1 DEF IndInv, SocketInv, StartedInTable, AcceptedPending
<1> QED BY <1>1, <1>2, Induction, PTL

\* The double free in the notice of a lost client happens only while there is
\* no server or its end waits in the queue.
THEOREM AbortOnlyInWindow == Spec => []AbortWindow
<1>1. IndInv => AbortWindow
  BY DEF IndInv
<1> QED BY <1>1, Induction, PTL

\* No handler gives away the slot of a socket that is still alive.
THEOREM SlotsAreStable == Spec => SlotOutlivesSocket
<1> DEFINE A == \A s \in Slots : tab[s] # Free /\ tab'[s] # tab[s] =>
                    tab'[s] = Free /\ st[tab[s]] = "dead"
<1>1. IndInv /\ [Next]_vars => [A]_vars
  <2> SUFFICES ASSUME IndInv, Next PROVE A
    OBVIOUS
  <2>1. CASE Poll
    <3>1. UNCHANGED tab
      BY <2>1, PollCases DEF IndInv
    <3> QED BY <3>1
  <2>2. CASE Sleep
    BY <2>2 DEF Sleep
  <2>3. CASE Dispatch
    <3> DEFINE m == Head(mq)
    <3>1. 1 \in 1 .. Len(mq) /\ m = mq[1] /\ Handle(m)
      BY <2>3, Popped, EmptySeq DEF Dispatch, IndInv, TypeOK
    <3> HIDE DEF m
    <3>2. CASE AcceptFull(m) \/ Connected(m) \/ Data(m)
      BY <3>2 DEF AcceptFull, Connected, Data
    <3>3. CASE AcceptNew(m)
      <4>1. PICK s \in Slots : tab[s] = Free /\ tab' = [tab EXCEPT ![s] = m.ud]
        BY <3>3 DEF AcceptNew, Insert
      <4> QED BY <4>1
    <3>4. CASE Disconnected(m)
      <4>1. CASE UNCHANGED tab
        BY <4>1
      <4>2. CASE \E s \in Slots : Remove(m.id, s)
        <5>1. PICK s \in Slots : tab[s] = m.id /\ tab' = [tab EXCEPT ![s] = Free]
          BY <4>2 DEF Remove
        <5>2. st[m.id] = "dead"
          BY <3>1, <3>4 DEF Disconnected, IndInv, SocketInv, QueuedEnds
        <5>3. tab \in [Slots -> Ids \cup {Free}]
          BY DEF IndInv, TypeOK
        <5> QED BY <5>1, <5>2, <5>3
      <4> QED BY <3>4, <4>1, <4>2 DEF Disconnected
    <3> QED BY <3>1, <3>2, <3>3, <3>4 DEF Handle
  <2> QED BY <2>1, <2>2, <2>3 DEF Next
<1> QED BY <1>1, Induction, PTL DEF Spec, SlotOutlivesSocket

-----------------------------------------------------------------------------
(* What goes out. *)

Sound(p) ==
    /\ p.kind = "toClient" => WriteBlock(p.to) = p.asked
    /\ p.kind = "notice" => p.asked \in WireWord /\ Lookup(ReadBlock(p.asked)) <= 0

\* A handler sends one packet at most: a relayed one goes to the socket that
\* was asked for, a notice is about one that hashid_lookup does not give.
LEMMA HandlerSends ==
    ASSUME TypeOK, NEW s \in Slots, NEW i, NEW rest, NEW a \in Arrived,
           DoHandshake(s, i, rest, a) \/ HandleMsg(s, i, rest, a)
    PROVE  log' = log \/ \E p : Sound(p) /\ log' = Append(log, p)
<1>1. CASE DoHandshake(s, i, rest, a)
  BY <1>1 DEF DoHandshake
<1>2. CASE HandleMsg(s, i, rest, a)
  <2> DEFINE mid == ReadBlock(a.frame.to)
  <2>1. a.frame.to \in WireWord /\ mid \in Int
    BY <1>2, ReadBlockType DEF HandleMsg, Arrived, Frame, Handshake, Message
  <2>2. CASE RelayToServer(s, i, rest, a)
    <3> DEFINE p == [kind |-> "toServer", from |-> i, to |-> sid, word |-> WriteBlock(i),
                     asked |-> 0, n |-> a.n]
    <3>1. Sound(p)
      BY DEF Sound
    <3>2. Send(p)
      BY <2>2 DEF RelayToServer
    <3> QED BY <3>1, <3>2 DEF Send
  <2>3. CASE RelayToClient(s, i, rest, a)
    <3> DEFINE p == [kind |-> "toClient", from |-> i, to |-> mid, word |-> WriteBlock(sid),
                     asked |-> a.frame.to, n |-> a.n]
    <3>1. Lookup(mid) > 0 /\ Send(p)
      BY <2>3 DEF RelayToClient
    <3>2. mid > 0
      <4>1. Lookup(mid) >= 0
        BY <2>1, <3>1, LookupFinds DEF TypeOK
      <4>2. mid \in Ids
        BY <2>1, <4>1, LookupFinds DEF TypeOK
      <4> HIDE DEF mid
      <4> QED BY <4>2
    <3>3. WriteBlock(mid) = a.frame.to
      BY <2>1, <3>2, PositiveWord
    <3>4. Sound(p)
      BY <3>3 DEF Sound
    <3> QED BY <3>1, <3>4 DEF Send
  <2>4. CASE NotifyServer(s, i, rest, a)
    <3> DEFINE p == [kind |-> "notice", from |-> i, to |-> sid, word |-> WriteBlock(mid),
                     asked |-> a.frame.to, n |-> a.n]
    <3>1. Lookup(mid) <= 0 /\ Send(p)
      BY <2>4 DEF NotifyServer
    <3>2. Sound(p)
      BY <2>1, <3>1 DEF Sound
    <3> QED BY <3>1, <3>2 DEF Send
  <2>5. CASE NoServer(s, i) \/ DebugMessage(s, rest) \/ NotShakenHands(s, i)
    BY <2>5 DEF NoServer, DebugMessage, NotShakenHands
  <2> QED BY <1>2, <2>2, <2>3, <2>4, <2>5 DEF HandleMsg
<1> QED BY <1>1, <1>2

\* Only the handlers of a DATA message send anything.
LEMMA LogStep ==
    ASSUME IndInv, [Next]_vars
    PROVE  log' = log \/ \E p : Sound(p) /\ log' = Append(log, p)
<1>1. CASE UNCHANGED vars
  BY <1>1 DEF vars
<1>2. CASE Poll
  BY <1>2 DEF Poll, PollConnect, PollAccept, PollData, PollClose, PollError, Forward
<1>3. CASE Sleep
  BY <1>3 DEF Sleep
<1>4. CASE Dispatch
  <2> DEFINE m == Head(mq)
  <2>1. m = mq[1] /\ m \in MqMessage /\ Handle(m) /\ 1 \in 1 .. Len(mq)
    BY <1>4, Popped, EmptySeq DEF Dispatch, IndInv, TypeOK
  <2> HIDE DEF m
  <2>2. CASE AcceptFull(m) \/ AcceptNew(m) \/ Connected(m) \/ Disconnected(m)
    BY <2>2 DEF AcceptFull, AcceptNew, Connected, Disconnected
  <2>3. CASE Data(m)
    <3>1. m.type = "DATA" /\ m.data \in Seq(Arrived)
      BY <2>1, <2>3 DEF Data, IndInv, SocketInv, QueuedData, MqMessage
    <3>2. CASE UNCHANGED log
      BY <3>2
    <3>3. ASSUME NEW s \in Slots, OldestFrame(s, m.id, conn[s].buf \o m.data)
          PROVE  log' = log \/ \E p : Sound(p) /\ log' = Append(log, p)
      <4>1. PICK pending : pending = conn[s].buf \o m.data
        OBVIOUS
      <4>2. Head(pending) \in Arrived
        BY <3>1, <3>3, <4>1, PendingType DEF IndInv, OldestFrame
      <4> QED BY <3>3, <4>1, <4>2, HandlerSends DEF IndInv, OldestFrame
    <3> QED BY <2>3, <3>2, <3>3 DEF Data, NoFrame
  <2> QED BY <2>1, <2>2, <2>3 DEF Handle
<1> QED BY <1>1, <1>2, <1>3, <1>4 DEF Next

\* A server's packet goes to the socket its two bytes spell and to no other,
\* however wide a byte is and however the bytes are read.
THEOREM RelaysAreAddressed == Spec => []RelayAddressed
<1>1. Init => RelayAddressed
  BY DEF Init, RelayAddressed
<1>2. IndInv /\ RelayAddressed /\ [Next]_vars => RelayAddressed'
  <2> SUFFICES ASSUME IndInv, RelayAddressed, [Next]_vars PROVE RelayAddressed'
    OBVIOUS
  <2>1. log \in Seq(Packet)
    BY DEF IndInv, TypeOK
  <2>2. CASE log' = log
    BY <2>2 DEF RelayAddressed
  <2>3. ASSUME NEW p, Sound(p), log' = Append(log, p) PROVE RelayAddressed'
    <3>1. /\ Len(log') = Len(log) + 1 /\ Len(log) \in Nat
          /\ \A k \in 1 .. Len(log) : log'[k] = log[k]
          /\ log'[Len(log) + 1] = p
      BY <2>1, <2>3
    <3>2. \A k \in 1 .. Len(log') : k \in 1 .. Len(log) \/ k = Len(log) + 1
      BY <3>1
    <3> QED BY <2>3, <3>1, <3>2 DEF RelayAddressed, Sound
  <2> QED BY <2>2, <2>3, LogStep
<1> QED BY <1>1, <1>2, Induction, PTL DEF Spec

\* A notice is wrong only about the client in slot 0 and about clients whose
\* id does not survive read_block.
THEOREM NoticesAreSound == Spec => NoticeSound
<1> DEFINE A == \A s \in Slots :
                  /\ tab[s] # Free
                  /\ Len(log') > Len(log)
                  /\ log'[Len(log')].kind = "notice"
                  /\ log'[Len(log')].asked = WriteBlock(tab[s])
                  => s = 0 \/ ~ Readable(tab[s])
<1>1. IndInv /\ [Next]_vars => [A]_vars
  <2> SUFFICES ASSUME IndInv, [Next]_vars, NEW s \in Slots, tab[s] # Free,
                      Len(log') > Len(log), log'[Len(log')].kind = "notice",
                      log'[Len(log')].asked = WriteBlock(tab[s]), Readable(tab[s])
               PROVE  s = 0
    OBVIOUS
  <2>1. log \in Seq(Packet) /\ tab \in [Slots -> Ids \cup {Free}]
    BY DEF IndInv, TypeOK
  <2>2. log' # log
    BY <2>1
  <2>3. PICK p : Sound(p) /\ log' = Append(log, p)
    BY <2>2, LogStep
  <2>4. log'[Len(log')] = p
    BY <2>1, <2>3
  <2>5. Lookup(tab[s]) <= 0
    BY <2>3, <2>4 DEF Sound, Readable
  <2>6. tab[s] \in Ids /\ tab[s] \in Int /\ InTable(tab[s])
    <3>1. tab[s] \in Ids
      BY <2>1
    <3>2. \A i \in Ids : i \in Int
      OBVIOUS
    <3> QED BY <3>1, <3>2 DEF InTable
  <2>7. Lookup(tab[s]) = 0 /\ tab[0] = tab[s] /\ 0 \in Slots
    BY <2>1, <2>5, <2>6, LookupFinds
  <2> QED BY <2>6, <2>7 DEF IndInv, TableMatchesConn
<1> QED BY <1>1, Induction, PTL DEF Spec, NoticeSound

-----------------------------------------------------------------------------
(***************************************************************************)
(* The order of one sender's packets.  Its frames wait in the queue and in *)
(* the buffer of its slot: none of them has gone out yet, nor a later one, *)
(* and the ones in the buffer come before the ones in the queue (OrderInv).*)
(***************************************************************************)

\* Frames of socket i that wait, oldest first.
Waiting(i, frames) ==
    \A x \in 1 .. Len(frames) :
        /\ frames[x].n <= nsent[i]
        /\ \A j \in 1 .. Len(log) : log[j].from = i => log[j].n < frames[x].n
        /\ \A y \in 1 .. x - 1 : frames[y].n < frames[x].n

Before(f, g) == \A x \in 1 .. Len(f), y \in 1 .. Len(g) : f[x].n < g[y].n

LogArrived == \A j \in 1 .. Len(log) : log[j].n <= nsent[log[j].from]
BuffersWait == \A s \in Slots : Waiting(tab[s], conn[s].buf)
QueueWaits == \A k \in 1 .. Len(mq) : mq[k].type = "DATA" => Waiting(mq[k].id, mq[k].data)
Ordered(q) ==
    \A j, k \in 1 .. Len(q) :
        j < k /\ q[j].type = "DATA" /\ q[k].type = "DATA" /\ q[j].id = q[k].id =>
            Before(q[j].data, q[k].data)
QueueOrder == Ordered(mq)
BufferFirst ==
    \A s \in Slots, k \in 1 .. Len(mq) :
        mq[k].type = "DATA" /\ mq[k].id = tab[s] => Before(conn[s].buf, mq[k].data)

OrderInv ==
    LogArrived /\ BuffersWait /\ QueueWaits /\ QueueOrder /\ BufferFirst /\ SenderOrder

\* Frames are numbered.
LEMMA Numbers ==
    ASSUME NEW f \in Seq(Arrived)
    PROVE  \A x \in 1 .. Len(f) : f[x].n \in Nat
<1>1. \A x \in 1 .. Len(f) : f[x] \in Arrived
  BY ElementOfSeq
<1>2. \A a \in Arrived : a.n \in Nat
  BY DEF Arrived
<1> QED BY <1>1, <1>2

\* A step that moves no frame leaves the order alone.
LEMMA StillOrder ==
    ASSUME OrderInv, UNCHANGED <<mq, tab, conn, log, nsent>>
    PROVE  OrderInv'
<1>1. LogArrived' /\ SenderOrder'
  BY DEF OrderInv, LogArrived, SenderOrder
<1>2. BuffersWait'
  BY DEF OrderInv, BuffersWait, Waiting
<1>3. QueueWaits'
  BY DEF OrderInv, QueueWaits, Waiting
<1>4. QueueOrder'
  <2>1. Ordered(mq')
    BY DEF OrderInv, QueueOrder, Ordered
  <2> QED BY <2>1 DEF QueueOrder
<1>5. BufferFirst'
  BY DEF OrderInv, BufferFirst, Before
<1> QED BY <1>1, <1>2, <1>3, <1>4, <1>5 DEF OrderInv

\* A report that brings no frame leaves the order alone.
LEMMA PushOrder ==
    ASSUME TypeOK, OrderInv, NEW m \in MqMessage, m.type # "DATA",
           mq' = Append(mq, m), UNCHANGED <<tab, conn, log, nsent>>
    PROVE  OrderInv'
<1>1. /\ Len(mq') = Len(mq) + 1 /\ Len(mq) \in Nat
      /\ \A k \in 1 .. Len(mq) : mq'[k] = mq[k]
      /\ mq'[Len(mq) + 1] = m
  BY Pushed DEF TypeOK
<1>2. \A k \in 1 .. Len(mq') : mq'[k].type = "DATA" => k \in 1 .. Len(mq) /\ mq'[k] = mq[k]
  BY <1>1
<1>3. \A i, f : Waiting(i, f) => Waiting(i, f)'
  BY DEF Waiting
<1>4. LogArrived' /\ SenderOrder'
  BY DEF OrderInv, LogArrived, SenderOrder
<1>5. BuffersWait'
  BY DEF OrderInv, BuffersWait, Waiting
<1>6. QueueWaits'
  <2> SUFFICES ASSUME NEW k \in 1 .. Len(mq'), mq'[k].type = "DATA"
               PROVE  Waiting(mq[k].id, mq[k].data)'
    BY DEF QueueWaits
  <2> PICK d, f : d = mq'[k].id /\ f = mq'[k].data
    OBVIOUS
  <2>1. Waiting(d, f)' => Waiting(mq[k].id, mq[k].data)'
    BY DEF Waiting
  <2>2. Waiting(d, f)
    BY <1>2 DEF OrderInv, QueueWaits
  <2> QED BY <1>3, <2>1, <2>2
<1>7. QueueOrder'
  <2> SUFFICES Ordered(mq')
    BY DEF QueueOrder
  <2> SUFFICES ASSUME NEW j \in 1 .. Len(mq'), NEW k \in 1 .. Len(mq'), j < k,
                      mq'[j].type = "DATA", mq'[k].type = "DATA", mq'[j].id = mq'[k].id
               PROVE  Before(mq'[j].data, mq'[k].data)
    BY DEF Ordered
  <2> QED BY <1>2 DEF OrderInv, QueueOrder, Ordered
<1>8. BufferFirst'
  <2> SUFFICES ASSUME NEW s \in Slots, NEW k \in 1 .. Len(mq'), mq'[k].type = "DATA",
                      mq'[k].id = tab'[s]
               PROVE  Before(conn'[s].buf, mq'[k].data)
    BY DEF BufferFirst
  <2> QED BY <1>2 DEF OrderInv, BufferFirst
<1> QED BY <1>4, <1>5, <1>6, <1>7, <1>8 DEF OrderInv

\* Frames that arrive come after all that arrived before.
LEMMA DataOrder ==
    ASSUME TypeOK, OrderInv, QueuedData, NEW i \in Ids, PollData(i)
    PROVE  OrderInv'
<1>1. PICK k \in 0 .. MaxChunk : \E chunk \in [1 .. k -> FramesOf[i]] :
        /\ Forward("DATA", i, 0, Numbered(i, k, chunk))
        /\ nsent' = [nsent EXCEPT ![i] = @ + k]
  BY DEF PollData
<1>2. PICK chunk \in [1 .. k -> FramesOf[i]] :
        /\ Forward("DATA", i, 0, Numbered(i, k, chunk))
        /\ nsent' = [nsent EXCEPT ![i] = @ + k]
  BY <1>1
<1> PICK data : data = Numbered(i, k, chunk)
  OBVIOUS
<1>3. nsent \in [Ids -> Nat] /\ k \in Nat
  BY DEF TypeOK
<1>4. data \in Seq(Arrived) /\ Len(data) = k /\ \A x \in 1 .. k : data[x].n = nsent[i] + x
  <2>1. \A j \in 1 .. k : [frame |-> chunk[j], n |-> nsent[i] + j] \in Arrived
    BY <1>3 DEF Arrived
  <2> QED BY <1>3, <2>1 DEF Numbered
<1>5. i \in Sockets
  BY DEF Sockets
<1>6. PICK m \in MqMessage : m.type = "DATA" /\ m.id = i /\ m.data = data /\ mq' = Append(mq, m)
  <2> PICK m : m = [type |-> "DATA", id |-> i, ud |-> 0, data |-> data]
    OBVIOUS
  <2>1. m \in MqMessage
    BY <1>4, <1>5 DEF MqMessage
  <2>2. mq' = Append(mq, m)
    BY <1>2 DEF Forward
  <2> QED BY <2>1, <2>2
<1>7. UNCHANGED <<tab, conn, log>>
  BY <1>2 DEF Forward
<1>8. /\ mq \in Seq(MqMessage)
      /\ Len(mq') = Len(mq) + 1 /\ Len(mq) \in Nat
      /\ \A j \in 1 .. Len(mq) : mq'[j] = mq[j] /\ mq[j] \in MqMessage
      /\ mq'[Len(mq) + 1] = m
      /\ \A j \in 1 .. Len(mq') : j \in 1 .. Len(mq) \/ j = Len(mq) + 1
  BY <1>6, Pushed DEF TypeOK
<1>9. \A j \in Ids : nsent[j] \in Nat /\ nsent'[j] \in Nat /\ nsent[j] <= nsent'[j]
  BY <1>2, <1>3
<1>10. nsent'[i] = nsent[i] + k
  BY <1>2, <1>3
<1>11. log \in Seq(Packet) /\ \A j \in 1 .. Len(log) : log[j] \in Packet
  BY ElementOfSeq DEF TypeOK
<1>12. \A j \in 1 .. Len(log) : log[j].from \in Ids /\ log[j].n \in Nat
  BY <1>11 DEF Packet
<1>13. ASSUME NEW j \in Ids, NEW f \in Seq(Arrived), Waiting(j, f)
       PROVE  Waiting(j, f)'
  <2>1. \A x \in 1 .. Len(f) : f[x].n \in Nat
    BY Numbers
  <2>2. nsent[j] \in Nat /\ nsent'[j] \in Nat /\ nsent[j] <= nsent'[j]
    BY <1>9
  <2>3. \A x \in 1 .. Len(f) : f[x].n <= nsent'[j]
    <3> SUFFICES ASSUME NEW x \in 1 .. Len(f) PROVE f[x].n <= nsent'[j]
      OBVIOUS
    <3>1. f[x].n <= nsent[j] /\ f[x].n \in Nat
      BY <1>13, <2>1 DEF Waiting
    <3> QED BY <2>2, <3>1
  <2> QED BY <1>7, <1>13, <2>3 DEF Waiting
<1>14. ASSUME NEW f \in Seq(Arrived), Waiting(i, f)
       PROVE  Before(f, data)
  <2>1. \A x \in 1 .. Len(f) : f[x].n \in Nat /\ f[x].n <= nsent[i]
    BY <1>14, Numbers DEF Waiting
  <2>2. nsent[i] \in Nat
    BY <1>9
  <2>3. ASSUME NEW x \in 1 .. Len(f), NEW y \in 1 .. Len(data) PROVE f[x].n < data[y].n
    <3>1. f[x].n \in Nat /\ f[x].n <= nsent[i]
      BY <2>1
    <3>2. y \in Nat \ {0} /\ data[y].n = nsent[i] + y
      BY <1>3, <1>4
    <3> QED BY <2>2, <3>1, <3>2
  <2> QED BY <2>3 DEF Before
<1>15. Waiting(i, data)'
  <2>1. \A x \in 1 .. k : data[x].n <= nsent'[i]
    <3>1. \A x \in 1 .. k : nsent[i] + x <= nsent[i] + k
      BY <1>9
    <3> QED BY <1>4, <1>10, <3>1
  <2>2. \A j \in 1 .. Len(log) : log[j].from = i => log[j].n <= nsent[i]
    BY DEF OrderInv, LogArrived
  <2>3. \A x \in 1 .. k, j \in 1 .. Len(log) : log[j].from = i => log[j].n < data[x].n
    <3> SUFFICES ASSUME NEW x \in 1 .. k, NEW j \in 1 .. Len(log), log[j].from = i
                 PROVE  log[j].n < data[x].n
      OBVIOUS
    <3>1. log[j].n \in Nat /\ log[j].n <= nsent[i] /\ nsent[i] \in Nat
      BY <1>9, <1>12, <2>2
    <3>2. x \in Nat \ {0} /\ data[x].n = nsent[i] + x
      BY <1>3, <1>4
    <3> QED BY <3>1, <3>2
  <2>4. \A x \in 1 .. k : \A y \in 1 .. x - 1 : data[y].n < data[x].n
    <3>1. \A x \in 1 .. k : \A y \in 1 .. x - 1 :
            y \in 1 .. k /\ nsent[i] + y < nsent[i] + x
      BY <1>9
    <3> QED BY <1>4, <3>1
  <2> QED BY <1>4, <1>7, <2>1, <2>3, <2>4 DEF Waiting
<1>16. LogArrived'
  <2>1. \A j \in 1 .. Len(log) : log[j].n <= nsent[log[j].from]
    BY DEF OrderInv, LogArrived
  <2>2. \A j \in 1 .. Len(log) : log[j].n <= nsent'[log[j].from]
    <3> SUFFICES ASSUME NEW j \in 1 .. Len(log) PROVE log[j].n <= nsent'[log[j].from]
      OBVIOUS
    <3> PICK c, d : c = log[j].from /\ d = log[j].n
      OBVIOUS
    <3>1. c \in Ids /\ d \in Nat /\ d <= nsent[c]
      BY <1>12, <2>1
    <3>2. nsent[c] \in Nat /\ nsent'[c] \in Nat /\ nsent[c] <= nsent'[c]
      BY <1>9, <3>1
    <3> QED BY <3>1, <3>2
  <2> QED BY <1>7, <2>2 DEF LogArrived
<1>17. \A s \in Slots : conn[s].buf \in Seq(Arrived) /\ tab[s] \in Ids \cup {Free}
  BY DEF TypeOK, Connection
<1>18. \A j \in 1 .. Len(mq) : mq[j].type = "DATA" => mq[j].id \in Ids /\ mq[j].data \in Seq(Arrived)
  BY <1>8 DEF QueuedData, MqMessage
<1>19. BuffersWait'
  <2> SUFFICES ASSUME NEW s \in Slots PROVE Waiting(tab[s], conn[s].buf)'
    BY <1>7 DEF BuffersWait
  <2>1. Waiting(tab[s], conn[s].buf)
    BY DEF OrderInv, BuffersWait
  <2>2. CASE tab[s] \in Ids
    BY <1>7, <1>13, <1>17, <2>1, <2>2
  <2>3. CASE tab[s] \notin Ids
    <3>1. UNCHANGED nsent[tab[s]]
      BY <1>2, <1>3, <1>7, <2>3
    <3> QED BY <1>7, <2>1, <3>1 DEF Waiting
  <2> QED BY <2>2, <2>3
<1>20. QueueWaits'
  <2> SUFFICES ASSUME NEW j \in 1 .. Len(mq'), mq'[j].type = "DATA"
               PROVE  Waiting(mq[j].id, mq[j].data)'
    BY DEF QueueWaits
  <2> PICK d, f : d = mq'[j].id /\ f = mq'[j].data
    OBVIOUS
  <2>3. Waiting(d, f)' => Waiting(mq[j].id, mq[j].data)'
    BY DEF Waiting
  <2>1. CASE j \in 1 .. Len(mq)
    <3>1. Waiting(d, f) /\ d \in Ids /\ f \in Seq(Arrived)
      BY <1>8, <1>18, <2>1 DEF OrderInv, QueueWaits
    <3> QED BY <1>13, <2>3, <3>1
  <2>2. CASE j = Len(mq) + 1
    <3>1. d = i /\ f = data
      BY <1>6, <1>8, <2>2
    <3> QED BY <1>15, <2>3, <3>1
  <2> QED BY <1>8, <2>1, <2>2
<1>21. QueueOrder'
  <2> SUFFICES Ordered(mq')
    BY DEF QueueOrder
  <2> SUFFICES ASSUME NEW j \in 1 .. Len(mq'), NEW d \in 1 .. Len(mq'), j < d,
                      mq'[j].type = "DATA", mq'[d].type = "DATA", mq'[j].id = mq'[d].id
               PROVE  Before(mq'[j].data, mq'[d].data)
    BY DEF Ordered
  <2>1. CASE d \in 1 .. Len(mq)
    <3>1. j \in 1 .. Len(mq)
      BY <1>8, <2>1
    <3> QED BY <1>8, <2>1, <3>1 DEF OrderInv, QueueOrder, Ordered
  <2>2. CASE d = Len(mq) + 1
    <3>1. j \in 1 .. Len(mq) /\ mq'[j] = mq[j]
      BY <1>8, <2>2
    <3>2. Waiting(i, mq[j].data) /\ mq[j].data \in Seq(Arrived)
      BY <1>6, <1>8, <1>18, <2>2, <3>1 DEF OrderInv, QueueWaits
    <3> QED BY <1>6, <1>8, <1>14, <2>2, <3>1, <3>2
  <2> QED BY <1>8, <2>1, <2>2
<1>22. BufferFirst'
  <2> SUFFICES ASSUME NEW s \in Slots, NEW j \in 1 .. Len(mq'), mq'[j].type = "DATA",
                      mq'[j].id = tab[s]
               PROVE  Before(conn[s].buf, mq'[j].data)
    BY <1>7 DEF BufferFirst
  <2>1. CASE j \in 1 .. Len(mq)
    BY <1>8, <2>1 DEF OrderInv, BufferFirst
  <2>2. CASE j = Len(mq) + 1
    <3>1. Waiting(i, conn[s].buf)
      BY <1>6, <1>8, <2>2 DEF OrderInv, BuffersWait
    <3> QED BY <1>6, <1>8, <1>14, <1>17, <2>2, <3>1
  <2> QED BY <1>8, <2>1, <2>2
<1>23. SenderOrder'
  BY <1>7 DEF OrderInv, SenderOrder
<1> QED BY <1>16, <1>19, <1>20, <1>21, <1>22, <1>23 DEF OrderInv

\* The effect of handling a frame on the order: it goes out or is forgotten, and
\* what stays buffered is what came behind it.
Handled(s, i, data) ==
    /\ conn'[s].buf \in {<<>>, Tail(conn[s].buf \o data)}
    /\ \/ log' = log
       \/ \E p \in Packet :
             p.from = i /\ p.n = Head(conn[s].buf \o data).n /\ log' = Append(log, p)

\* What a handler does is that.
LEMMA HandlerOrder ==
    ASSUME TypeOK, TypeOK', NEW s \in Slots, NEW i \in Ids, NEW data \in Seq(Arrived),
           LET pending == conn[s].buf \o data
           IN  \/ DoHandshake(s, i, Tail(pending), Head(pending))
               \/ HandleMsg(s, i, Tail(pending), Head(pending))
    PROVE  Handled(s, i, data)
<1> PICK a, rest : a = Head(conn[s].buf \o data) /\ rest = Tail(conn[s].buf \o data)
  OBVIOUS
<1>1. DoHandshake(s, i, rest, a) \/ HandleMsg(s, i, rest, a)
  OBVIOUS
<1>2. s \in DOMAIN conn
  BY DEF TypeOK
<1>3. ASSUME NEW b, NEW tp, KeepAs(s, b, tp)
      PROVE  conn'[s].buf = b
  BY <1>2, <1>3 DEF KeepAs
<1>4. (\E b, tp : KeepAs(s, b, tp) /\ b \in {<<>>, rest}) /\ (log' = log \/
         \E p : p.from = i /\ p.n = a.n /\ log' = Append(log, p))
  <2>1. CASE DoHandshake(s, i, rest, a)
    BY <2>1 DEF DoHandshake, HandshakeAs, HandshakeServer, HandshakeRefused, HandshakeUnknown,
       Clear
  <2>2. CASE HandleMsg(s, i, rest, a)
    <3>1. ASSUME NEW q, Send(q), q.from = i, q.n = a.n
          PROVE  log' = log \/ \E p : p.from = i /\ p.n = a.n /\ log' = Append(log, p)
      BY <3>1 DEF Send
    <3>2. CASE RelayToServer(s, i, rest, a)
      BY <3>1, <3>2 DEF RelayToServer, Keep
    <3>3. CASE RelayToClient(s, i, rest, a)
      BY <3>1, <3>3 DEF RelayToClient, Keep
    <3>4. CASE NotifyServer(s, i, rest, a)
      BY <3>1, <3>4 DEF NotifyServer, Keep
    <3>5. CASE NoServer(s, i) \/ DebugMessage(s, rest) \/ NotShakenHands(s, i)
      BY <3>5 DEF NoServer, DebugMessage, NotShakenHands, Keep, Clear
    <3> QED BY <2>2, <3>2, <3>3, <3>4, <3>5 DEF HandleMsg
  <2> QED BY <1>1, <2>1, <2>2
<1>5. ASSUME NEW p, log' = Append(log, p) PROVE p \in Packet
  <2>1. log \in Seq(Packet) /\ log' \in Seq(Packet)
    BY DEF TypeOK
  <2>2. Len(log') = Len(log) + 1 /\ log'[Len(log) + 1] = p /\ Len(log) \in Nat
    BY <1>5, <2>1
  <2> QED BY <2>1, <2>2, ElementOfSeq
<1> QED BY <1>3, <1>4, <1>5 DEF Handled

\* The first message goes and no packet does: every buffer stays or is dropped.
LEMMA PopOrder ==
    ASSUME TypeOK, OrderInv, mq # <<>>, mq' = Tail(mq), UNCHANGED <<log, nsent>>,
           \A s \in Slots : \/ conn'[s].buf = <<>>
                            \/ conn'[s].buf = conn[s].buf /\ tab'[s] = tab[s]
    PROVE  OrderInv'
<1>1. /\ Len(mq') = Len(mq) - 1 /\ Len(mq) \in Nat
      /\ \A k \in 1 .. Len(mq') : mq'[k] = mq[k + 1] /\ k + 1 \in 1 .. Len(mq)
  BY Popped DEF TypeOK
<1>2. \A d, f : Waiting(d, f) => Waiting(d, f)'
  BY DEF Waiting
<1>3. LogArrived' /\ SenderOrder'
  BY DEF OrderInv, LogArrived, SenderOrder
<1>4. BuffersWait'
  <2> SUFFICES ASSUME NEW s \in Slots PROVE Waiting(tab[s], conn[s].buf)'
    BY DEF BuffersWait
  <2> PICK d, f : d = tab'[s] /\ f = conn'[s].buf
    OBVIOUS
  <2>1. Waiting(d, f)' => Waiting(tab[s], conn[s].buf)'
    BY DEF Waiting
  <2>2. CASE f = <<>>
    BY <2>1, <2>2 DEF Waiting
  <2>3. CASE conn'[s].buf = conn[s].buf /\ tab'[s] = tab[s]
    BY <1>2, <2>1, <2>3 DEF OrderInv, BuffersWait
  <2> QED BY <2>2, <2>3
<1>5. QueueWaits'
  <2> SUFFICES ASSUME NEW k \in 1 .. Len(mq'), mq'[k].type = "DATA"
               PROVE  Waiting(mq[k].id, mq[k].data)'
    BY DEF QueueWaits
  <2> PICK d, f : d = mq'[k].id /\ f = mq'[k].data
    OBVIOUS
  <2>1. Waiting(d, f)' => Waiting(mq[k].id, mq[k].data)'
    BY DEF Waiting
  <2>2. Waiting(d, f)
    BY <1>1 DEF OrderInv, QueueWaits
  <2> QED BY <1>2, <2>1, <2>2
<1>6. QueueOrder'
  <2> SUFFICES Ordered(mq')
    BY DEF QueueOrder
  <2> SUFFICES ASSUME NEW j \in 1 .. Len(mq'), NEW k \in 1 .. Len(mq'), j < k,
                      mq'[j].type = "DATA", mq'[k].type = "DATA", mq'[j].id = mq'[k].id
               PROVE  Before(mq'[j].data, mq'[k].data)
    BY DEF Ordered
  <2>1. j + 1 \in 1 .. Len(mq) /\ k + 1 \in 1 .. Len(mq) /\ j + 1 < k + 1
    BY <1>1
  <2>2. mq'[j] = mq[j + 1] /\ mq'[k] = mq[k + 1]
    BY <1>1
  <2> QED BY <2>1, <2>2 DEF OrderInv, QueueOrder, Ordered
<1>7. BufferFirst'
  <2> SUFFICES ASSUME NEW s \in Slots, NEW k \in 1 .. Len(mq'), mq'[k].type = "DATA",
                      mq'[k].id = tab'[s]
               PROVE  Before(conn'[s].buf, mq'[k].data)
    BY DEF BufferFirst
  <2>1. CASE conn'[s].buf = <<>>
    BY <2>1 DEF Before
  <2>2. CASE conn'[s].buf = conn[s].buf /\ tab'[s] = tab[s]
    BY <1>1, <2>2 DEF OrderInv, BufferFirst
  <2> QED BY <2>1, <2>2
<1> QED BY <1>3, <1>4, <1>5, <1>6, <1>7 DEF OrderInv

\* What is buffered and what arrives, joined.
LEMMA JoinedFrames ==
    ASSUME NEW f \in Seq(Arrived), NEW g \in Seq(Arrived), f \o g # <<>>
    PROVE  /\ f \o g \in Seq(Arrived) /\ 1 \in 1 .. Len(f \o g)
           /\ Head(f \o g) = (f \o g)[1] /\ Head(f \o g) \in Arrived
           /\ \A x \in 1 .. Len(f \o g) :
                \/ x \in 1 .. Len(f) /\ (f \o g)[x] = f[x]
                \/ x > Len(f) /\ x - Len(f) \in 1 .. Len(g) /\ (f \o g)[x] = g[x - Len(f)]
           /\ \A x \in 1 .. Len(Tail(f \o g)) :
                x + 1 \in 1 .. Len(f \o g) /\ Tail(f \o g)[x] = (f \o g)[x + 1]
<1>1. Len(f) \in Nat /\ Len(g) \in Nat
  BY LenProperties
<1>2. f \o g \in Seq(Arrived) /\ Len(f \o g) = Len(f) + Len(g)
  BY ConcatProperties
<1>3. Len(f) + Len(g) > 0
  BY <1>1, <1>2, EmptySeq
<1>4. Head(f \o g) = (f \o g)[1] /\ Head(f \o g) \in Arrived
  BY <1>2, HeadTailProperties
<1>5. Len(Tail(f \o g)) = Len(f) + Len(g) - 1
  BY <1>2, HeadTailProperties
<1>6. \A x \in 1 .. Len(f) + Len(g) :
        (f \o g)[x] = IF x <= Len(f) THEN f[x] ELSE g[x - Len(f)]
  BY <1>2, ConcatProperties
<1>7. \A x \in 1 .. Len(f) + Len(g) - 1 : Tail(f \o g)[x] = (f \o g)[x + 1]
  BY <1>2, <1>5, HeadTailProperties
<1> PICK m, n, h, t : m = Len(f) /\ n = Len(g) /\ h = f \o g /\ t = Tail(f \o g)
  OBVIOUS
<1>8. 1 \in 1 .. m + n /\ \A x \in 1 .. m + n - 1 : x + 1 \in 1 .. m + n
  BY <1>1, <1>3
<1>9. \A x \in 1 .. m + n :
        (x \in 1 .. m /\ x <= m) \/ (~ x <= m /\ x > m /\ x - m \in 1 .. n)
  BY <1>1
<1> QED BY <1>2, <1>4, <1>5, <1>6, <1>7, <1>8, <1>9

\* Those that wait in the buffer and then those in the message are all waiting.
LEMMA JoinedWait ==
    ASSUME NEW i, NEW f \in Seq(Arrived), NEW g \in Seq(Arrived), f \o g # <<>>,
           Waiting(i, f), Waiting(i, g), Before(f, g)
    PROVE  /\ Waiting(i, f \o g)
           /\ Waiting(i, Tail(f \o g))
           /\ \A x \in 1 .. Len(Tail(f \o g)) : Head(f \o g).n < Tail(f \o g)[x].n
           /\ Head(f \o g).n <= nsent[i]
           /\ \A j \in 1 .. Len(log) : log[j].from = i => log[j].n < Head(f \o g).n
<1> PICK h, t : h = f \o g /\ t = Tail(f \o g)
  OBVIOUS
<1>1. /\ 1 \in 1 .. Len(h) /\ Head(h) = h[1]
      /\ \A x \in 1 .. Len(h) :
            \/ x \in 1 .. Len(f) /\ h[x] = f[x]
            \/ x > Len(f) /\ x - Len(f) \in 1 .. Len(g) /\ h[x] = g[x - Len(f)]
      /\ \A x \in 1 .. Len(t) : x + 1 \in 1 .. Len(h) /\ t[x] = h[x + 1]
  BY JoinedFrames
<1>2. Len(f) \in Nat /\ Len(g) \in Nat /\ Len(h) \in Nat /\ Len(t) \in Nat
  <2>1. h \in Seq(Arrived) /\ h # <<>>
    BY <1>1, JoinedFrames
  <2>2. t \in Seq(Arrived)
    BY <2>1, HeadTailProperties
  <2> QED BY <2>1, <2>2, LenProperties
<1>3. ASSUME NEW x \in 1 .. Len(h)
      PROVE  /\ h[x].n <= nsent[i]
             /\ \A j \in 1 .. Len(log) : log[j].from = i => log[j].n < h[x].n
  BY <1>1 DEF Waiting
<1>4. ASSUME NEW x \in 1 .. Len(h), NEW y \in 1 .. Len(h), y < x
      PROVE  h[y].n < h[x].n
  <2>1. CASE x \in 1 .. Len(f) /\ h[x] = f[x]
    <3>1. y \in 1 .. x - 1 /\ ~ y > Len(f)
      BY <1>2, <1>4, <2>1
    <3>2. h[y] = f[y]
      BY <1>1, <3>1
    <3> QED BY <2>1, <3>1, <3>2 DEF Waiting
  <2>2. CASE x > Len(f) /\ x - Len(f) \in 1 .. Len(g) /\ h[x] = g[x - Len(f)]
    <3>1. CASE y \in 1 .. Len(f) /\ h[y] = f[y]
      BY <2>2, <3>1 DEF Before
    <3>2. CASE y > Len(f) /\ y - Len(f) \in 1 .. Len(g) /\ h[y] = g[y - Len(f)]
      <4>1. y - Len(f) \in 1 .. (x - Len(f)) - 1
        BY <1>2, <1>4, <2>2, <3>2
      <4> QED BY <2>2, <3>2, <4>1 DEF Waiting
    <3> QED BY <1>1, <3>1, <3>2
  <2> QED BY <1>1, <2>1, <2>2
<1>5. Waiting(i, h)
  <2>1. \A x \in 1 .. Len(h) : \A y \in 1 .. x - 1 : y \in 1 .. Len(h) /\ y < x
    BY <1>2
  <2> QED BY <1>3, <1>4, <2>1 DEF Waiting
<1>6. Waiting(i, t)
  <2>1. \A x \in 1 .. Len(t) : \A y \in 1 .. x - 1 : y \in 1 .. Len(t) /\ y + 1 < x + 1
    BY <1>2
  <2>2. \A x \in 1 .. Len(t) : \A y \in 1 .. x - 1 : t[y].n < t[x].n
    <3> SUFFICES ASSUME NEW x \in 1 .. Len(t), NEW y \in 1 .. x - 1 PROVE t[y].n < t[x].n
      OBVIOUS
    <3>1. y \in 1 .. Len(t) /\ y + 1 < x + 1
      BY <2>1
    <3>2. /\ x + 1 \in 1 .. Len(h) /\ t[x] = h[x + 1]
          /\ y + 1 \in 1 .. Len(h) /\ t[y] = h[y + 1]
      BY <1>1, <3>1
    <3> QED BY <1>4, <3>1, <3>2
  <2>3. \A x \in 1 .. Len(t) :
          /\ t[x].n <= nsent[i]
          /\ \A j \in 1 .. Len(log) : log[j].from = i => log[j].n < t[x].n
    BY <1>1, <1>3
  <2> QED BY <2>2, <2>3 DEF Waiting
<1>7. \A x \in 1 .. Len(t) : Head(h).n < t[x].n
  <2> SUFFICES ASSUME NEW x \in 1 .. Len(t) PROVE Head(h).n < t[x].n
    OBVIOUS
  <2>1. 1 < x + 1
    BY <1>2
  <2>2. x + 1 \in 1 .. Len(h) /\ t[x] = h[x + 1] /\ Head(h) = h[1] /\ 1 \in 1 .. Len(h)
    BY <1>1
  <2> QED BY <1>4, <2>1, <2>2
<1> QED BY <1>1, <1>3, <1>5, <1>6, <1>7

\* Both come before what comes behind both.
LEMMA JoinedBefore ==
    ASSUME NEW f \in Seq(Arrived), NEW g \in Seq(Arrived), f \o g # <<>>, NEW next,
           Before(f, next), Before(g, next)
    PROVE  /\ Before(Tail(f \o g), next)
           /\ \A y \in 1 .. Len(next) : Head(f \o g).n < next[y].n
<1> PICK h, t : h = f \o g /\ t = Tail(f \o g)
  OBVIOUS
<1>1. /\ 1 \in 1 .. Len(h) /\ Head(h) = h[1]
      /\ \A x \in 1 .. Len(h) :
            \/ x \in 1 .. Len(f) /\ h[x] = f[x]
            \/ x > Len(f) /\ x - Len(f) \in 1 .. Len(g) /\ h[x] = g[x - Len(f)]
      /\ \A x \in 1 .. Len(t) : x + 1 \in 1 .. Len(h) /\ t[x] = h[x + 1]
  BY JoinedFrames
<1>2. \A x \in 1 .. Len(h), y \in 1 .. Len(next) : h[x].n < next[y].n
  BY <1>1 DEF Before
<1> QED BY <1>1, <1>2 DEF Before

\* The oldest frame of a socket is handled, and the rest stay behind it.
LEMMA HandledOrder ==
    ASSUME TypeOK, TableMatchesConn, OrderInv, mq # <<>>, mq' = Tail(mq), UNCHANGED <<tab, nsent>>,
           mq[1].type = "DATA", mq[1].data \in Seq(Arrived),
           NEW s \in Slots, tab[s] = mq[1].id, mq[1].id \in Ids,
           conn[s].buf \o mq[1].data # <<>>,
           \A t \in Slots : t # s => conn'[t] = conn[t],
           Handled(s, mq[1].id, mq[1].data)
    PROVE  OrderInv'
<1> PICK i, data, buf, first, rest :
      /\ i = mq[1].id /\ data = mq[1].data /\ buf = conn[s].buf
      /\ first = Head(buf \o data) /\ rest = Tail(buf \o data)
  OBVIOUS
<1>1. /\ Len(mq') = Len(mq) - 1 /\ Len(mq) \in Nat /\ 1 \in 1 .. Len(mq)
      /\ \A k \in 1 .. Len(mq') : mq'[k] = mq[k + 1] /\ k + 1 \in 1 .. Len(mq) /\ 1 < k + 1
  BY Popped, EmptySeq DEF TypeOK
<1>2. buf \in Seq(Arrived) /\ data \in Seq(Arrived) /\ buf \o data # <<>>
  BY DEF TypeOK, Connection
<1>3. Waiting(i, buf) /\ Waiting(i, data) /\ Before(buf, data)
  BY <1>1 DEF OrderInv, BuffersWait, QueueWaits, BufferFirst
<1>4. first \in Arrived
  BY <1>2, JoinedFrames
<1>5. /\ Waiting(i, rest) /\ \A x \in 1 .. Len(rest) : first.n < rest[x].n
      /\ first.n <= nsent[i]
      /\ \A j \in 1 .. Len(log) : log[j].from = i => log[j].n < first.n
  BY <1>2, <1>3, JoinedWait
<1>6. log \in Seq(Packet)
  BY DEF TypeOK
<1>8. /\ conn'[s].buf = <<>> \/ conn'[s].buf = rest
      /\ \/ log' = log
         \/ \E p \in Packet : p.from = i /\ p.n = first.n /\ log' = Append(log, p)
  BY DEF Handled
<1>10. /\ \A j \in 1 .. Len(log) : j \in 1 .. Len(log') /\ log'[j] = log[j]
       /\ \A j \in 1 .. Len(log') :
            \/ j \in 1 .. Len(log) /\ log'[j] = log[j]
            \/ /\ log'[j].from = i /\ log'[j].n = first.n
               /\ \A k \in 1 .. Len(log') : k < j => k \in 1 .. Len(log)
               /\ j \notin 1 .. Len(log) /\ \A k \in 1 .. Len(log') : ~ j < k
  <2>1. CASE log' = log
    BY <2>1
  <2>2. CASE \E p \in Packet : p.from = i /\ p.n = first.n /\ log' = Append(log, p)
    <3>1. PICK p : p.from = i /\ p.n = first.n /\ log' = Append(log, p)
      BY <2>2
    <3>2. Len(log) \in Nat /\ Len(log') = Len(log) + 1
      BY <1>6, <3>1
    <3>3. /\ \A j \in 1 .. Len(log) : j \in 1 .. Len(log') /\ log'[j] = log[j]
          /\ log'[Len(log) + 1] = p
      BY <1>6, <3>1, <3>2
    <3>4. \A j \in 1 .. Len(log') : j \in 1 .. Len(log) \/ j = Len(log) + 1
      BY <3>2
    <3>5. LET last == Len(log) + 1
          IN  /\ \A k \in 1 .. Len(log') : k < last => k \in 1 .. Len(log)
              /\ last \notin 1 .. Len(log) /\ \A k \in 1 .. Len(log') : ~ last < k
      BY <3>2
    <3> QED BY <3>1, <3>3, <3>4, <3>5
  <2> QED BY <1>8, <2>1, <2>2
<1>11. ASSUME NEW d, NEW f, Waiting(d, f), d = i => \A x \in 1 .. Len(f) : first.n < f[x].n
       PROVE  Waiting(d, f)'
  <2>1. \A x \in 1 .. Len(f), j \in 1 .. Len(log) : log[j].from = d => log[j].n < f[x].n
    BY <1>11 DEF Waiting
  <2>2. ASSUME NEW x \in 1 .. Len(f), NEW j \in 1 .. Len(log'), log'[j].from = d
        PROVE  log'[j].n < f[x].n
    <3>1. CASE j \in 1 .. Len(log) /\ log'[j] = log[j]
      BY <2>1, <2>2, <3>1
    <3>2. CASE log'[j].from = i /\ log'[j].n = first.n
      BY <1>11, <2>2, <3>2
    <3> QED BY <1>10, <3>1, <3>2
  <2> QED BY <1>11, <2>2 DEF Waiting
<1>12. LogArrived'
  <2> SUFFICES ASSUME NEW j \in 1 .. Len(log') PROVE log'[j].n <= nsent[log'[j].from]
    BY DEF LogArrived
  <2>1. CASE log'[j].from = i /\ log'[j].n = first.n
    BY <1>5, <2>1
  <2>2. CASE j \in 1 .. Len(log) /\ log'[j] = log[j]
    BY <2>2 DEF OrderInv, LogArrived
  <2> QED BY <1>10, <2>1, <2>2
<1>13. SenderOrder'
  <2> SUFFICES ASSUME NEW j \in 1 .. Len(log'), NEW k \in 1 .. Len(log'), j < k,
                      log'[j].from = log'[k].from
               PROVE  log'[j].n < log'[k].n
    BY DEF SenderOrder
  <2>1. j \in 1 .. Len(log) /\ log'[j] = log[j]
    BY <1>10
  <2>2. CASE k \in 1 .. Len(log) /\ log'[k] = log[k]
    BY <2>1, <2>2 DEF OrderInv, SenderOrder
  <2>3. CASE log'[k].from = i /\ log'[k].n = first.n
    BY <1>5, <2>1, <2>3
  <2> QED BY <1>10, <2>2, <2>3
<1>14. \A t \in Slots : t # s => conn'[t].buf = conn[t].buf /\ tab[t] # i
  <2>1. i # Free
    BY DEF Free
  <2> QED BY <2>1 DEF TableMatchesConn
<1>15. BuffersWait'
  <2> SUFFICES ASSUME NEW t \in Slots PROVE Waiting(tab[t], conn[t].buf)'
    BY DEF BuffersWait
  <2> PICK d, f : d = tab'[t] /\ f = conn'[t].buf
    OBVIOUS
  <2>1. Waiting(d, f)' => Waiting(tab[t], conn[t].buf)'
    BY DEF Waiting
  <2>2. CASE f = <<>>
    BY <2>1, <2>2 DEF Waiting
  <2>3. CASE t = s /\ f = rest
    BY <1>5, <1>11, <2>1, <2>3
  <2>4. CASE t # s
    <3>1. Waiting(d, f) /\ d # i
      BY <1>14, <2>4 DEF OrderInv, BuffersWait
    <3> QED BY <1>11, <2>1, <3>1
  <2> QED BY <1>8, <2>2, <2>3, <2>4
<1>16. ASSUME NEW k \in 1 .. Len(mq'), mq'[k].type = "DATA", mq'[k].id = i
       PROVE  Before(rest, mq'[k].data) /\ \A x \in 1 .. Len(mq'[k].data) : first.n < mq'[k].data[x].n
  <2> PICK next : next = mq'[k].data
    OBVIOUS
  <2>1. Before(buf, next) /\ Before(data, next)
    BY <1>1, <1>16 DEF OrderInv, BufferFirst, QueueOrder, Ordered
  <2> QED BY <1>2, <2>1, JoinedBefore
<1>17. QueueWaits'
  <2> SUFFICES ASSUME NEW k \in 1 .. Len(mq'), mq'[k].type = "DATA"
               PROVE  Waiting(mq[k].id, mq[k].data)'
    BY DEF QueueWaits
  <2> PICK d, f : d = mq'[k].id /\ f = mq'[k].data
    OBVIOUS
  <2>1. Waiting(d, f)' => Waiting(mq[k].id, mq[k].data)'
    BY DEF Waiting
  <2>2. Waiting(d, f)
    BY <1>1 DEF OrderInv, QueueWaits
  <2>3. d = i => \A x \in 1 .. Len(f) : first.n < f[x].n
    BY <1>16
  <2> QED BY <1>11, <2>1, <2>2, <2>3
<1>18. QueueOrder'
  <2> SUFFICES Ordered(mq')
    BY DEF QueueOrder
  <2> SUFFICES ASSUME NEW j \in 1 .. Len(mq'), NEW k \in 1 .. Len(mq'), j < k,
                      mq'[j].type = "DATA", mq'[k].type = "DATA", mq'[j].id = mq'[k].id
               PROVE  Before(mq[j].data, mq[k].data)'
    BY DEF Ordered
  <2> PICK f, g : f = mq'[j].data /\ g = mq'[k].data
    OBVIOUS
  <2>2. Before(f, g) => Before(mq[j].data, mq[k].data)'
    BY DEF Before
  <2>1. j + 1 \in 1 .. Len(mq) /\ k + 1 \in 1 .. Len(mq) /\ j + 1 < k + 1
    BY <1>1
  <2>3. Before(f, g)
    BY <1>1, <2>1 DEF OrderInv, QueueOrder, Ordered
  <2> QED BY <2>2, <2>3
<1>19. BufferFirst'
  <2> SUFFICES ASSUME NEW t \in Slots, NEW k \in 1 .. Len(mq'), mq'[k].type = "DATA",
                      mq'[k].id = tab[t]
               PROVE  Before(conn[t].buf, mq[k].data)'
    BY DEF BufferFirst
  <2> PICK f, next : f = conn'[t].buf /\ next = mq'[k].data
    OBVIOUS
  <2>1. Before(f, next) => Before(conn[t].buf, mq[k].data)'
    BY DEF Before
  <2>2. CASE t # s
    <3>1. f = conn[t].buf /\ next = mq[k + 1].data
      BY <1>1, <1>14, <2>2
    <3>2. Before(f, next)
      BY <1>1, <3>1 DEF OrderInv, BufferFirst
    <3> QED BY <2>1, <3>2
  <2>3. CASE t = s /\ f = rest
    <3>1. Before(rest, next)
      BY <1>16, <2>3
    <3> QED BY <2>1, <2>3, <3>1
  <2>4. CASE f = <<>>
    BY <2>1, <2>4 DEF Before
  <2> QED BY <1>8, <2>2, <2>3, <2>4
<1> QED BY <1>12, <1>13, <1>15, <1>17, <1>18, <1>19 DEF OrderInv

\* Every step keeps the senders' order.
LEMMA OrderStep ==
    ASSUME IndInv, IndInv', OrderInv, [Next]_vars
    PROVE  OrderInv'
<1>1. CASE UNCHANGED vars
  BY <1>1, StillOrder DEF vars
<1>2. CASE Sleep
  BY <1>2, StillOrder DEF Sleep
<1>3. CASE Poll
  <2>1. CASE \E i \in Ids : PollData(i)
    BY <2>1, DataOrder DEF IndInv, SocketInv
  <2>2. ASSUME NEW type \in {"ACCEPT", "CONNECT", "CLOSE", "ERROR"}, NEW i \in Sockets,
               NEW ud \in Ids \cup {0}, Forward(type, i, ud, <<>>), UNCHANGED nsent
        PROVE  OrderInv'
    <3>1. <<>> \in Seq(Arrived) /\ type \in {"ACCEPT", "CONNECT", "DATA", "CLOSE", "ERROR"}
      OBVIOUS
    <3>2. PICK m : m = [type |-> type, id |-> i, ud |-> ud, data |-> <<>>]
      OBVIOUS
    <3>3. m \in MqMessage /\ mq' = Append(mq, m) /\ UNCHANGED <<tab, conn, log>>
      <4>1. UNCHANGED <<tab, conn, log>> /\ mq' = Append(mq, m)
        BY <2>2, <3>2 DEF Forward
      <4>2. m \in MqMessage
        BY <3>1, <3>2 DEF MqMessage
      <4> QED BY <4>1, <4>2
    <3>4. m.type # "DATA"
      BY <3>2
    <3> QED BY <2>2, <3>3, <3>4, PushOrder DEF IndInv
  <2>3. Ids \subseteq Sockets /\ ListenId \in Sockets
    BY DEF Sockets
  <2> QED BY <1>3, <2>1, <2>2, <2>3 DEF Poll, PollConnect, PollAccept, PollClose, PollError
<1>4. CASE Dispatch
  <2> PICK m : m = Head(mq)
    OBVIOUS
  <2>1. /\ mq # <<>> /\ mq' = Tail(mq) /\ UNCHANGED nsent /\ Handle(m)
        /\ m = mq[1] /\ m \in MqMessage /\ 1 \in 1 .. Len(mq)
    BY <1>4, Popped, EmptySeq DEF Dispatch, IndInv, TypeOK
  <2>2. conn \in [Slots -> Connection] /\ \A s \in Slots : tab[s] = Free => conn[s].buf = <<>>
    BY DEF IndInv, TypeOK, TableMatchesConn, NoConn
  <2>3. CASE AcceptFull(m) \/ Connected(m)
    BY <2>1, <2>3, PopOrder DEF AcceptFull, Connected, IndInv
  <2>4. CASE AcceptNew(m)
    <3>1. PICK s \in Slots : /\ tab[s] = Free
                             /\ tab' = [tab EXCEPT ![s] = m.ud]
                             /\ conn' = [conn EXCEPT ![s].id = m.ud]
      BY <2>4 DEF AcceptNew, Insert
    <3>2. UNCHANGED log
      BY <2>4 DEF AcceptNew
    <3>3. \A t \in Slots : conn'[t].buf = conn[t].buf /\ (t # s => tab'[t] = tab[t])
      BY <2>2, <3>1
    <3> QED BY <2>1, <2>2, <3>1, <3>2, <3>3, PopOrder DEF IndInv
  <2>5. CASE Disconnected(m)
    <3>1. \A t \in Slots : conn'[t].buf = <<>> \/ (conn'[t].buf = conn[t].buf /\ tab'[t] = tab[t])
      <4>1. CASE UNCHANGED <<tab, conn>>
        BY <4>1
      <4>2. CASE \E s \in Slots : Remove(m.id, s) /\ conn' = [conn EXCEPT ![s] = NoConn]
        BY <2>2, <4>2 DEF Remove, NoConn
      <4> QED BY <2>5, <4>1, <4>2 DEF Disconnected
    <3>2. UNCHANGED log
      BY <2>5 DEF Disconnected
    <3> QED BY <2>1, <3>1, <3>2, PopOrder DEF IndInv
  <2>6. CASE Data(m)
    <3>1. /\ m.type = "DATA" /\ m.data \in Seq(Arrived) /\ m.id \in Ids
          /\ UNCHANGED tab
      BY <2>1, <2>6 DEF Data, IndInv, SocketInv, QueuedData, MqMessage
    <3>2. CASE UNCHANGED <<conn, log>>
      BY <2>1, <3>1, <3>2, PopOrder DEF IndInv
    <3>3. ASSUME NEW s \in Slots, tab[s] = m.id, OldestFrame(s, m.id, conn[s].buf \o m.data)
          PROVE  OrderInv'
      <4>1. Handled(s, m.id, m.data)
        BY <3>1, <3>3, HandlerOrder DEF IndInv, OldestFrame
      <4>2. \A t \in Slots : t # s => conn'[t] = conn[t]
        BY <3>1, <3>3, HandlerEffect DEF IndInv, OldestFrame
      <4>3. conn[s].buf \o m.data # <<>>
        BY <3>3 DEF OldestFrame
      <4> QED BY <2>1, <3>1, <3>3, <4>1, <4>2, <4>3, HandledOrder DEF IndInv
    <3> QED BY <2>6, <3>2, <3>3 DEF Data, NoFrame
  <2> QED BY <2>1, <2>3, <2>4, <2>5, <2>6 DEF Handle
<1> QED BY <1>1, <1>2, <1>3, <1>4 DEF Next

\* Whatever is polled, buffered and handled when: the packets that one connection
\* causes go out in the order in which it sent its frames, one per frame at most.
THEOREM SendersInOrder == Spec => []SenderOrder
<1>1. Init => OrderInv
  <2> SUFFICES ASSUME Init PROVE OrderInv
    OBVIOUS
  <2>1. log = <<>> /\ mq = <<>> /\ \A s \in Slots : conn[s].buf = <<>>
    BY DEF Init, NoConn
  <2> QED BY <2>1 DEF OrderInv, LogArrived, BuffersWait, QueueWaits, QueueOrder, Ordered, BufferFirst,
             SenderOrder, Waiting
<1>2. IndInv /\ IndInv' /\ OrderInv /\ [Next]_vars => OrderInv'
  BY OrderStep
<1>3. OrderInv => SenderOrder
  BY DEF OrderInv
<1> QED BY <1>1, <1>2, <1>3, Induction, PTL DEF Spec
=============================================================================
