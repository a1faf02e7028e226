---------------------------- MODULE ClientSocket ----------------------------
(***************************************************************************)
(* common-src/client_socket.c: the logic server's connection to the        *)
(* gateway, driven by one thread that calls socket_send_remainbuffer and   *)
(* socket_msgdispatch over and over (lsocketloop of lua-socket.c) and by   *)
(* the Lua callbacks that socket_msgdispatch makes.                        *)
(*                                                                         *)
(* Every system call is a step of its own and may do what the kernel may   *)
(* do: write a part, block, fail.  The kernel may give the number of a     *)
(* closed descriptor to another connection of the process.  Frames are     *)
(* counted here; module Framing has their bytes.                           *)
(***************************************************************************)
EXTENDS Integers, SequencesExt

CONSTANTS Sizes,      \* sizes of the buffers given to socket_send
          MaxSends,   \* bound: calls of socket_send
          MaxRecv,    \* bound: frames received
          MaxChunk    \* bound: frames that one read returns

ClientSocketAssumption ==
    /\ Sizes \subseteq Nat
    /\ MaxSends \in Nat
    /\ MaxRecv \in Nat
    /\ MaxChunk \in Nat

VARIABLES pc,        \* where the thread is, see Control
          fd,        \* s->fd # -1
          file,      \* what that descriptor is: ours, free or another's
          q,         \* s->q # NULL
          wb,        \* the write buffers from s->head on
          tail,      \* the buffer s->tail points to, Nil for NULL
          wbSize,    \* s->wb_size
          queued,    \* frames in the chunk that waits in s->q
          backlog,   \* frames in s->read_buffer
          peer,      \* the other end: up or gone
          nsent,     \* socket_send calls so far; names the next buffer
          nrecv,     \* frames received so far
          accepted,  \* history: the bytes socket_send took, in order
          written,   \* history: the bytes write() took for the gateway
          ret,       \* history: how the last socket_send ended
          ends       \* history: calls of the disconnect callback

vars == <<pc, fd, file, q, wb, tail, wbSize, queued, backlog, peer, nsent, nrecv,
          accepted, written, ret, ends>>

\* Groups of them, for the variables that an action leaves alone.
outbox == <<wb, tail, wbSize>>
inbox == <<queued, backlog, nrecv>>
socket == <<fd, file, q>>
sends == <<nsent, accepted, written, ret>>
others == <<socket, outbox, inbox, peer, sends, ends>>

\* In socket_connect; outside the loop, in socket_send_remainbuffer, before the
\* read, in the loop that pops chunks, in the message callback, in the disconnect
\* callback.  After the error of lconnect, after freeaddrinfo of a pointer that
\* nobody set, after socket_delete, and after a NULL pointer was followed.
Control == {"new", "idle", "flush", "read", "pop", "callback", "gone",
            "failed", "aborted", "deleted", "crashed"}
Ended == {"failed", "aborted", "deleted", "crashed"}

Nil == 0

\* A write_buffer: its name, how much of it is written (ptr) and left (sz).
Node(n, ptr, sz) == [n |-> n, ptr |-> ptr, sz |-> sz]

\* k bytes of buffer n from position p on.
Bytes(n, p, k) == [j \in 1 .. k |-> <<n, p + j>>]

\* socket_new.  It leaves q as malloc gives it, and nothing reads q before
\* socket_connect sets it.
Init ==
    /\ pc = "new"
    /\ fd = FALSE /\ file = "free" /\ q = FALSE
    /\ wb = <<>> /\ tail = Nil /\ wbSize = 0
    /\ queued = 0 /\ backlog = 0
    /\ peer = "up"
    /\ nsent = 0 /\ nrecv = 0
    /\ accepted = <<>> /\ written = <<>> /\ ret = "none" /\ ends = 0

-----------------------------------------------------------------------------
(* socket_connect, and lconnect around it. *)

Connect ==
    /\ pc = "new"
    /\ fd' = TRUE /\ file' = "ours" /\ q' = TRUE
    /\ wb' = <<>> /\ tail' = Nil /\ wbSize' = 0
    /\ pc' = "idle"
    /\ UNCHANGED <<inbox, peer, sends, ends>>

\* Nobody listens there; or the address is not found, and the list that
\* getaddrinfo did not make is freed.  The struct socket is lost.
ConnectFails ==
    /\ pc = "new"
    /\ pc' \in {"failed", "aborted"}
    /\ UNCHANGED others

-----------------------------------------------------------------------------
(* Pieces of the functions. *)

\* force_close: the queue and both buffers go, the descriptor is closed, fd and
\* wb_size stay as they are.
ForceClose ==
    /\ wb' = <<>> /\ tail' = Nil
    /\ queued' = 0 /\ backlog' = 0
    /\ q' = FALSE
    /\ file' = IF fd THEN "free" ELSE file

\* write() takes k bytes of buffer n from p on; they are for the gateway if the
\* descriptor still is its connection.
WriteTakes(n, p, k) ==
    /\ file # "free"
    /\ written' = IF file = "ours" THEN written \o Bytes(n, p, k) ELSE written

\* write() or read() may fail for good.
Broken == file # "ours" \/ peer = "gone"

\* append_sendbuffer.
AppendBuffer(node) ==
    /\ wb' = Append(wb, node)
    /\ tail' = node.n
    /\ wbSize' = wbSize + node.sz

-----------------------------------------------------------------------------
(* socket_send of a new buffer of sz bytes. *)

SendRefused ==
    /\ ~ fd
    /\ ret' = "error"
    /\ UNCHANGED <<file, q, outbox, queued, backlog, accepted, written>>

\* Taken, as bytes for the gateway.
Take(n, sz) ==
    /\ accepted' = IF file = "ours" THEN accepted \o Bytes(n, 0, sz) ELSE accepted
    /\ ret' = "ok"
    /\ UNCHANGED <<file, q, queued, backlog>>

\* Mutant of SendNow: a buffer may overtake the ones that wait.
SendOvertakes(n, sz) ==
    /\ fd
    /\ \E k \in 0 .. sz :
          /\ WriteTakes(n, 0, k)
          /\ IF k = sz THEN UNCHANGED <<outbox>>
             ELSE AppendBuffer(Node(n, k, sz - k))
    /\ Take(n, sz)

\* Nothing waits: write at once and keep what does not fit.
SendNow(n, sz) ==
    /\ fd /\ wb = <<>>
    /\ \E k \in 0 .. sz :
          /\ WriteTakes(n, 0, k)
          /\ IF k = sz THEN UNCHANGED <<outbox>>
             ELSE AppendBuffer(Node(n, k, sz - k))
    /\ Take(n, sz)

SendFails ==
    /\ fd /\ wb = <<>>
    /\ Broken
    /\ ForceClose
    /\ ret' = "error"
    /\ UNCHANGED <<wbSize, accepted, written>>

\* Something waits: the buffer queues up behind it.
SendLater(n, sz) ==
    /\ fd /\ wb # <<>>
    /\ AppendBuffer(Node(n, 0, sz))
    /\ Take(n, sz)
    /\ UNCHANGED written

Send ==
    /\ nsent < MaxSends
    /\ nsent' = nsent + 1
    /\ \/ SendRefused
       \/ \E sz \in Sizes : SendNow(nsent', sz) \/ SendLater(nsent', sz)
       \/ SendFails
    /\ UNCHANGED <<fd, peer, nrecv, ends>>

-----------------------------------------------------------------------------
(* socket_send_remainbuffer. *)

LoopStarts ==
    /\ pc = "idle" /\ fd
    /\ pc' = "flush"
    /\ UNCHANGED others

\* socket_msgdispatch returns at once when there is no queue.
ToRead == pc' = IF q THEN "read" ELSE "idle"

FlushEnds ==
    /\ pc = "flush" /\ wb = <<>>
    /\ tail' = Nil
    /\ ToRead
    /\ UNCHANGED <<socket, wb, wbSize, inbox, peer, sends, ends>>

\* A write takes the whole first buffer, or a part of it and the rest stays.
FlushWrites ==
    /\ pc = "flush" /\ wb # <<>>
    /\ LET node == Head(wb)
       IN  \E k \in 0 .. node.sz :
              /\ k > 0 \/ node.sz = 0
              /\ WriteTakes(node.n, node.ptr, k)
              /\ wbSize' = wbSize - k
              /\ IF k = node.sz
                 THEN wb' = Tail(wb) /\ UNCHANGED pc
                 ELSE wb' = <<Node(node.n, node.ptr + k, node.sz - k)>> \o Tail(wb) /\ ToRead
    /\ UNCHANGED <<socket, tail, inbox, peer, nsent, accepted, ret, ends>>

\* EAGAIN.
FlushBlocks ==
    /\ pc = "flush" /\ wb # <<>> /\ file # "free"
    /\ ToRead
    /\ UNCHANGED others

FlushFails ==
    /\ pc = "flush" /\ wb # <<>> /\ Broken
    /\ ForceClose
    /\ pc' = "idle"
    /\ UNCHANGED <<fd, wbSize, peer, sends, nrecv, ends>>

-----------------------------------------------------------------------------
(* socket_msgdispatch. *)

ReadChunk ==
    /\ pc = "read"
    /\ \E k \in 1 .. MaxChunk :
          /\ nrecv + k <= MaxRecv
          /\ nrecv' = nrecv + k
          /\ queued' = k
    /\ pc' = "pop"
    /\ UNCHANGED <<socket, outbox, backlog, peer, sends, ends>>

ReadBlocks ==
    /\ pc = "read" /\ peer = "up"
    /\ pc' = "pop"
    /\ UNCHANGED others

\* Mutant of ReadEnds: the end is taken for a read that would block.
ReadEndsUnseen ==
    /\ pc = "read" /\ peer = "gone"
    /\ pc' = "pop"
    /\ UNCHANGED others

\* read() returns 0 or fails.
ReadEnds ==
    /\ pc = "read" /\ peer = "gone"
    /\ ForceClose
    /\ pc' = "gone"
    /\ UNCHANGED <<fd, wbSize, peer, sends, nrecv, ends>>

\* Mutant of Disconnect: fd is not reset.
DisconnectKeepsFd ==
    /\ pc = "gone"
    /\ ends' = ends + 1
    /\ pc' = "idle"
    /\ UNCHANGED <<socket, outbox, inbox, peer, sends>>

\* The callback with size 0, and the assignment after it.
Disconnect ==
    /\ pc = "gone"
    /\ ends' = ends + 1
    /\ fd' = FALSE
    /\ pc' = "idle"
    /\ UNCHANGED <<file, q, outbox, inbox, peer, sends>>

\* A popped chunk is pushed to the read buffer and one frame is taken out.
PopDelivers ==
    /\ pc = "pop" /\ q /\ queued > 0
    /\ backlog' = backlog + queued - 1
    /\ queued' = 0
    /\ pc' = "callback"
    /\ UNCHANGED <<socket, outbox, peer, sends, nrecv, ends>>

PopEnds ==
    /\ pc = "pop" /\ q /\ queued = 0
    /\ pc' = "idle"
    /\ UNCHANGED others

\* socket_mq_pop(NULL): the callback's send closed the socket.
PopCrashes ==
    /\ pc = "pop" /\ ~ q
    /\ pc' = "crashed"
    /\ UNCHANGED others

\* The message callback answers, or not.
Callback ==
    /\ pc = "callback"
    /\ pc' = "pop"
    /\ \/ Send
       \/ UNCHANGED others

-----------------------------------------------------------------------------

\* The program sends between two rounds of the loop.
SendIdle == pc = "idle" /\ Send /\ UNCHANGED pc

\* socket_delete, between two rounds.
Delete ==
    /\ pc = "idle"
    /\ ForceClose
    /\ pc' = "deleted"
    /\ UNCHANGED <<fd, wbSize, peer, sends, nrecv, ends>>

PeerLeaves ==
    /\ peer = "up" /\ pc \notin Ended \cup {"new"}
    /\ peer' = "gone"
    /\ UNCHANGED <<pc, socket, outbox, inbox, sends, ends>>

\* The process opens another connection, which gets the lowest free number.
NumberReused ==
    /\ pc = "idle" /\ fd /\ file = "free"
    /\ file' = "other"
    /\ UNCHANGED <<pc, fd, q, outbox, inbox, peer, sends, ends>>

Flush == FlushEnds \/ FlushWrites \/ FlushBlocks \/ FlushFails
Read == ReadChunk \/ ReadBlocks \/ ReadEnds
Pop == PopDelivers \/ PopEnds \/ PopCrashes
Loop == LoopStarts \/ Flush \/ Read \/ Disconnect \/ Pop \/ Callback

Next == Connect \/ ConnectFails \/ Loop \/ SendIdle \/ Delete \/ PeerLeaves \/ NumberReused

Spec == Init /\ [][Next]_vars

-----------------------------------------------------------------------------

\* The fields of struct socket, and where the thread is.
TypeOK ==
    /\ pc \in Control
    /\ fd \in BOOLEAN /\ q \in BOOLEAN
    /\ file \in {"ours", "free", "other"}
    /\ wb \in Seq([n : 1 .. MaxSends, ptr : Nat, sz : Nat])
    /\ tail \in 0 .. MaxSends
    /\ wbSize \in Int
    /\ queued \in 0 .. MaxChunk /\ backlog \in Nat
    /\ peer \in {"up", "gone"}
    /\ nsent \in 0 .. MaxSends /\ nrecv \in 0 .. MaxRecv
    /\ ret \in {"none", "ok", "error"} /\ ends \in Nat

\* What the write buffers still hold.
Pending == FlattenSeq([i \in 1 .. Len(wb) |-> Bytes(wb[i].n, wb[i].ptr, wb[i].sz)])

\* However write() cuts the buffers, blocks in the middle of one and is called
\* again from another function: the gateway gets the bytes in the order of the
\* socket_send calls, each once (client_socket.c:140-224).
StreamExact ==
    IF file = "ours" THEN written \o Pending = accepted ELSE IsPrefix(written, accepted)

\* wb_size is kept by hand in three functions: as long as the connection lives
\* it is what waits to be written.
WbSizeExact == q => wbSize = Len(Pending)

\* append_sendbuffer asserts it of a list whose tail socket_send_remainbuffer
\* resets only when it got to the end (client_socket.c:187-188).
TailIsLast == wb # <<>> => tail = Last(wb).n

\* The list of write buffers, its fields and the bytes that went out agree.
WriteListExact == TypeOK /\ StreamExact /\ WbSizeExact /\ TailIsLast

\* The disconnect callback comes at most once, last, and only for a connection
\* whose structures are released.
EndReportedOnce ==
    /\ ends <= 1
    /\ ends = 1 => ~ fd /\ ~ q /\ pc \in {"idle", "deleted"}

\* When the gateway is gone the socket finds out and lets go of its descriptor
\* and its buffers, by whichever of its three calls to write and read.
LossNoticed == (peer = "gone" /\ q) ~> (~ q \/ pc = "crashed")

-----------------------------------------------------------------------------
(* "return -1 when error" (client_socket.c:194), which is not the whole     *)
(* story.                                                                   *)

\* An error of socket_send is a return value that the caller can act on.
ErrorIsSurvived == pc # "crashed"
=============================================================================
