------------------------------- MODULE Framing ------------------------------
(***************************************************************************)
(* One connection seen as bytes: a peer writes frames (two bytes of size,  *)
(* big-endian, and that many bytes of body), TCP cuts the stream anywhere, *)
(* each piece becomes a DATA message and dispatch_message of gate_main.c   *)
(* takes frames out of the connection's databuffer.  client_socket.c does  *)
(* the same with a MinSize of 2.                                           *)
(***************************************************************************)
EXTENDS DataBuffer

CONSTANTS Bodies,     \* the bodies a peer may send
          MinSize,    \* the least size that is read: 6 in the gateway
          MaxFrames,  \* bound: frames a peer sends
          MaxPiece    \* bound: bytes in one DATA message

FramingAssumption ==
    /\ \A b \in Bodies : b \in Seq(0 .. Base - 1) /\ Len(b) \in 1 .. Base * Base - 1
    /\ MinSize \in Nat \ {0}
    /\ MaxFrames \in Nat
    /\ MaxPiece \in Nat

VARIABLES db,       \* c->buffer
          mp,       \* g->mp
          wire,     \* bytes written by the peer and not yet received
          sent,     \* history: the bodies the peer wrote
          got       \* history: the bodies handed to handshake or handlemsg

vars == <<db, mp, wire, sent, got>>

\* A frame as bytes, as lproto's pack writes it.
Encoded(b) == <<Len(b) \div Base, Len(b) % Base>> \o b

Init ==
    /\ db = NoData
    /\ mp = NoPool
    /\ wire = <<>>
    /\ sent = <<>>
    /\ got = <<>>

\* The peer writes a frame.
Write(b) ==
    /\ Len(sent) < MaxFrames
    /\ wire' = wire \o Encoded(b)
    /\ sent' = Append(sent, b)
    /\ UNCHANGED <<db, mp, got>>

-----------------------------------------------------------------------------
(* dispatch_message.  d is the buffer after the push and the header.       *)

\* Mutant: the header is forgotten before the body is there.
IncompleteReset(d, size) == size <= 0 /\ db' = Reset(d) /\ UNCHANGED got

Incomplete(d, size) ==
    /\ size <= 0
    /\ db' = d
    /\ UNCHANGED got

Deliver(d, size) ==
    /\ size >= MinSize
    /\ got' = Append(got, SubSeq(Unread(d), 1, size))
    /\ db' = Reset(AfterRead(d, size))

\* The header is forgotten, the body stays in the buffer.
TooShort(d, size) ==
    /\ size > 0
    /\ size < MinSize
    /\ db' = Reset(d)
    /\ UNCHANGED got

\* A piece of n bytes arrives and is dispatched.
Receive(n) ==
    LET pushed == Pushed(db, SubSeq(wire, 1, n))
        d == AfterHeader(pushed)
        size == FrameSize(pushed)
    IN  /\ n <= Len(wire)
        /\ wire' = SubSeq(wire, n + 1, Len(wire))
        /\ Incomplete(d, size) \/ Deliver(d, size) \/ TooShort(d, size)
        /\ mp' = NodesReturned(NodeTaken(mp), Len(pushed.chunks) - Len(db'.chunks))
        /\ UNCHANGED sent

\* databuffer_clear when the connection ends; the slot serves another one.
Clear ==
    /\ mp' = NodesReturned(mp, Len(db.chunks))
    /\ db' = NoData
    /\ wire' = <<>> /\ sent' = <<>> /\ got' = <<>>

\* messagepool_free, which follows the last clear.
PoolFree ==
    /\ db.chunks = <<>>
    /\ mp' = NoPool
    /\ UNCHANGED <<db, wire, sent, got>>

Next ==
    \/ \E b \in Bodies : Write(b)
    \/ \E n \in 1 .. MaxPiece : Receive(n)
    \/ Clear \/ PoolFree

Spec == Init /\ [][Next]_vars

-----------------------------------------------------------------------------

\* size and offset are kept by hand next to the list of chunks: they always
\* agree with it, so that the assert of databuffer_read holds and its loop
\* never runs off the list (databuffer.h:68-71).
SizeExact ==
    /\ db.size = Len(FlattenSeq(db.chunks)) - db.offset
    /\ IF db.chunks = <<>> THEN db.offset = 0 ELSE db.offset < Len(Head(db.chunks))

\* A node of the pool is either free or holds a chunk of the buffer, however
\* often they change hands.
PoolExact == mp.free + Len(db.chunks) = PoolSize * mp.lists

\* The peer sends no frame that is too short.
LongEnough(b) == Len(b) >= MinSize
Legal == \A k \in 1 .. Len(sent) : LongEnough(sent[k])

\* Wherever the stream of a peer that keeps to the least size is cut, every
\* byte it wrote is in exactly one place, in order: delivered, read as a pending
\* header, buffered, or on its way.
NoByteLost ==
    Legal =>
    LET pending == IF db.header = 0 THEN <<>>
                   ELSE <<db.header \div Base, db.header % Base>>
    IN  FlattenSeq([k \in 1 .. Len(got) |-> Encoded(got[k])])
            \o pending \o Unread(db) \o wire
        = FlattenSeq([k \in 1 .. Len(sent) |-> Encoded(sent[k])])

\* What is handled is what such a peer sent, in that order, cut at the right
\* places.
StaysFramed == Legal => IsPrefix(got, sent)
=============================================================================
