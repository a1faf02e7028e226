------------------------------ MODULE Gateway -------------------------------
(***************************************************************************)
(* The gateway process: gateway-src/main.c (gate_loop), gate_main.c and    *)
(* gate_socket.c.  One thread alternates between polling the socket server *)
(* (each report becomes a message in the queue mq) and dispatching every   *)
(* queued message.  The gateway keeps a table of connections, knows which  *)
(* of them is the game server (sid), relays the packets of clients to it   *)
(* and its packets to the client they name.                                *)
(*                                                                         *)
(* A packet is seen here whole, as a frame: module DataBuffer has the      *)
(* bytes.  What matters of the framing is kept: TCP delivers pieces, so a  *)
(* DATA message may complete several frames, one or none, and its handler  *)
(* takes at most one frame out of the buffer, the oldest that is whole.    *)
(***************************************************************************)
EXTENDS Wire, SocketServer, Sequences, FiniteSets

CONSTANTS MaxConnection,  \* max of gate_init: size of the table
          FramesOf,       \* FramesOf[i]: what may be read from socket i
          MaxSend,        \* bound: MaxSend[i] frames from the peer of socket i
          MaxChunk,       \* bound: frames that one DATA message completes
          MaxPieces       \* bound: MaxPieces[i] queued DATA that complete none

\* The device string of a handshake, compared with the three HANDSHAKE_*_MD5.
Device == {"C", "S", "D", "unknown"}

\* protId 100 is a handshake, anything else is a message; to is the two bytes
\* after the size, where a game server names the client it writes to.
Handshake == [kind : {"handshake"}, dev : Device]
Message == [kind : {"message"}, to : WireWord]
Frame == Handshake \cup Message

ASSUME GatewayAssumption ==
    /\ MaxConnection \in Nat \ {0}
    /\ Ids \subseteq Nat \ {0}
    /\ ListenId \in Nat \ {0}
    /\ ListenId \notin Ids
    /\ FramesOf \in [Ids -> SUBSET Frame]
    /\ MaxChunk \in Nat

ASSUME MaxSendAssumption == MaxSend \in [Ids -> Nat] /\ MaxPieces \in [Ids -> Nat]

VARIABLES tab,     \* g->hash
          conn,    \* g->conn: id, conn_tp and the frames buffered per slot
          sid,     \* g->sid
          mq,      \* the queue of gate_mq.c (module Fifo)
          loop,    \* where gate_loop is, see LoopState
          nsent,   \* history: frames received so far per socket
          log      \* history: the packets socket_server_send accepted

vars == <<st, closing, tab, conn, sid, mq, loop, nsent, log>>

INSTANCE IdTable WITH Cap <- MaxConnection

\* "poll": in a poll that may wait; "more": in a poll that will not wait,
\* because the last one reported more; "dispatch": in gate_dispatch;
\* "aborted": the C library stopped the process.
LoopState == {"poll", "more", "dispatch", "aborted"}

\* An arrived frame, numbered by its sender.
Arrived == [frame : Frame, n : Nat \ {0}]

NoConn == [id |-> -1, tp |-> "none", buf |-> <<>>]

Init ==
    /\ SSInit
    /\ TabInit
    /\ conn = [s \in Slots |-> NoConn]
    /\ sid = 0
    /\ mq = <<>>
    /\ loop = "poll"
    /\ nsent = [i \in Ids |-> 0]
    /\ log = <<>>

-----------------------------------------------------------------------------
(* gate_socket_poll: one report becomes one message. *)

Forward(type, id, ud, data) ==
    /\ mq' = Append(mq, [type |-> type, id |-> id, ud |-> ud, data |-> data])
    /\ UNCHANGED <<tab, conn, sid, log>>

PollAccept(i) ==
    NewConnection(i) /\ Forward("ACCEPT", ListenId, i, <<>>) /\ UNCHANGED nsent

PollConnect(i) == Opened(i) /\ Forward("CONNECT", i, 0, <<>>) /\ UNCHANGED nsent

\* k frames of socket i, numbered on from the last one that arrived.
Numbered(i, k, chunk) == [j \in 1 .. k |-> [frame |-> chunk[j], n |-> nsent[i] + j]]

\* The queued DATA messages of socket i that only bring a part of a frame.
Pieces(i) == {j \in 1 .. Len(mq) : mq[j].type = "DATA" /\ mq[j].id = i /\ mq[j].data = <<>>}

\* The data completes k frames; with k = 0 it ends within the first one.  After
\* databuffer_clear the rest of a frame is read as frames of its own, whatever
\* they are: they too are among FramesOf[i].
PollData(i) ==
    /\ HasData(i)
    /\ \E k \in 0 .. MaxChunk : \E chunk \in [1 .. k -> FramesOf[i]] :
          /\ nsent[i] + k <= MaxSend[i]
          /\ k = 0 => Cardinality(Pieces(i)) < MaxPieces[i]
          /\ Forward("DATA", i, 0, Numbered(i, k, chunk))
          /\ nsent' = [nsent EXCEPT ![i] = @ + k]

PollClose(i) == Closed(i) /\ Forward("CLOSE", i, 0, <<>>) /\ UNCHANGED nsent

PollError(i) == Failed(i) /\ Forward("ERROR", i, 0, <<>>) /\ UNCHANGED nsent

\* A poll that reports more is called again before anything is dispatched.
Return ==
    /\ loop \in {"poll", "more"}
    /\ \/ loop' = "dispatch"
       \/ loop' = "more" /\ ReportReady'

Poll ==
    /\ \/ \E i \in Sockets : PollConnect(i)
       \/ \E i \in Ids : PollAccept(i) \/ PollData(i) \/ PollClose(i) \/ PollError(i)
    /\ Return

\* The reports that do not wait for a peer.
PollOwed ==
    /\ \/ \E i \in Sockets : PollConnect(i)
       \/ \E i \in closing : PollClose(i)
    /\ Return

-----------------------------------------------------------------------------
(* dispatch_socket_message, one action per case. *)

\* Mutant of AcceptFull: the refused socket is started.
AcceptFullStarts(m) ==
    m.type = "ACCEPT" /\ Full /\ SSStart(m.ud) /\ UNCHANGED <<closing, tab, conn, sid, log>>

\* hashid_full: the new socket is closed; it was never in the table.
AcceptFull(m) ==
    /\ m.type = "ACCEPT"
    /\ Full
    /\ SSClose(m.ud)
    /\ UNCHANGED <<st, tab, conn, sid, log>>

\* Mutants of AcceptNew: the slot an id hashes to is taken without a look at
\* who has it; the socket is never started.
AcceptNewCollides(m) ==
    /\ m.type = "ACCEPT"
    /\ tab' = [tab EXCEPT ![m.ud % MaxConnection] = m.ud]
    /\ conn' = [conn EXCEPT ![m.ud % MaxConnection].id = m.ud]
    /\ SSStart(m.ud)
    /\ UNCHANGED <<closing, sid, log>>

AcceptNewNotStarted(m) ==
    /\ m.type = "ACCEPT" /\ ~Full
    /\ \E s \in Slots : Insert(m.ud, s) /\ conn' = [conn EXCEPT ![s].id = m.ud]
    /\ UNCHANGED <<st, closing, sid, log>>

AcceptNew(m) ==
    /\ m.type = "ACCEPT"
    /\ ~Full
    /\ \E s \in Slots :
          /\ Insert(m.ud, s)
          /\ conn' = [conn EXCEPT ![s].id = m.ud]
    /\ SSStart(m.ud)
    /\ UNCHANGED <<closing, sid, log>>

\* "start listening" and "open" only print; an unknown connection is closed.
Connected(m) ==
    /\ m.type = "CONNECT"
    /\ IF m.id = ListenId \/ Lookup(m.id) >= 0
       THEN UNCHANGED closing
       ELSE SSClose(m.id)
    /\ UNCHANGED <<st, tab, conn, sid, log>>

\* Mutants of Disconnected: sid is not reset; an ERROR is not taken for an end.
DisconnectedKeepsSid(m) ==
    /\ m.type \in {"CLOSE", "ERROR"}
    /\ \/ Lookup(m.id) < 0 /\ UNCHANGED <<tab, conn>>
       \/ \E s \in Slots : Remove(m.id, s) /\ conn' = [conn EXCEPT ![s] = NoConn]
    /\ UNCHANGED <<st, closing, sid, log>>

DisconnectedNoError(m) ==
    /\ m.type \in {"CLOSE", "ERROR"}
    /\ \/ (Lookup(m.id) < 0 \/ m.type = "ERROR") /\ UNCHANGED <<tab, conn, sid>>
       \/ \E s \in Slots :
          /\ m.type = "CLOSE"
          /\ Remove(m.id, s)
          /\ sid' = IF conn[s].id = sid THEN -1 ELSE sid
          /\ conn' = [conn EXCEPT ![s] = NoConn]
    /\ UNCHANGED <<st, closing, log>>

\* hashid_remove finds nothing for a connection that was turned away.
Disconnected(m) ==
    /\ m.type \in {"CLOSE", "ERROR"}
    /\ \/ /\ Lookup(m.id) < 0
          /\ UNCHANGED <<tab, conn, sid>>
       \/ \E s \in Slots :
          /\ Remove(m.id, s)
          /\ sid' = IF conn[s].id = sid THEN -1 ELSE sid
          /\ conn' = [conn EXCEPT ![s] = NoConn]
    /\ UNCHANGED <<st, closing, log>>

-----------------------------------------------------------------------------
(* dispatch_message and the handlers it calls.  s is the slot of socket i, *)
(* a the frame they handle, rest the frames that stay buffered.            *)

KeepAs(s, rest, tp) == conn' = [conn EXCEPT ![s] = [id |-> @.id, tp |-> tp, buf |-> rest]]
Keep(s, rest) == KeepAs(s, rest, conn[s].tp)

\* goto _clear: forget what is buffered and ask for the socket to be closed.
\* The connection stays in the table until the CLOSE message.
Clear(s, i) == KeepAs(s, <<>>, conn[s].tp) /\ SSClose(i)

\* gate_socket_send: the packet goes out, or it is lost and -1 is returned.
Send(packet) == log' = IF CanSend(packet.to) THEN Append(log, packet) ELSE log

HandshakeAs(s, rest, a) ==
    /\ a.frame.dev \in {"C", "D"}
    /\ KeepAs(s, rest, a.frame.dev)
    /\ UNCHANGED <<sid, closing>>

HandshakeServer(s, i, rest, a) ==
    /\ a.frame.dev = "S"
    /\ sid <= 0
    /\ KeepAs(s, rest, "S")
    /\ sid' = i
    /\ UNCHANGED closing

\* "already connect": conn_tp is set before sid is looked at.
HandshakeRefused(s, i, a) ==
    /\ a.frame.dev = "S"
    /\ sid > 0
    /\ KeepAs(s, <<>>, "S")
    /\ SSClose(i)
    /\ UNCHANGED sid

HandshakeUnknown(s, i, a) ==
    /\ a.frame.dev = "unknown"
    /\ Clear(s, i)
    /\ UNCHANGED sid

DoHandshake(s, i, rest, a) ==
    /\ a.frame.kind = "handshake"
    /\ \/ HandshakeAs(s, rest, a)
       \/ HandshakeServer(s, i, rest, a)
       \/ HandshakeRefused(s, i, a)
       \/ HandshakeUnknown(s, i, a)
    /\ UNCHANGED <<log, loop>>

\* Mutant of RelayToServer: the frame is relayed but stays in the buffer.
RelayKeepsFrame(s, i, rest, a) ==
    /\ conn[s].tp = "C"
    /\ sid > 0
    /\ Send([kind |-> "toServer", from |-> i, to |-> sid, word |-> WriteBlock(i),
             asked |-> 0, n |-> a.n])
    /\ Keep(s, <<a>> \o rest)
    /\ UNCHANGED <<closing, loop>>

\* A client's packet goes to the game server, stamped with the client's id.
RelayToServer(s, i, rest, a) ==
    /\ conn[s].tp = "C"
    /\ sid > 0
    /\ Send([kind |-> "toServer", from |-> i, to |-> sid, word |-> WriteBlock(i),
             asked |-> 0, n |-> a.n])
    /\ Keep(s, rest)
    /\ UNCHANGED <<closing, loop>>

NoServer(s, i) ==
    /\ conn[s].tp = "C"
    /\ sid <= 0
    /\ Clear(s, i)
    /\ UNCHANGED <<log, loop>>

\* Mutant of RelayToClient: the slot is taken for the socket.
RelayToSlot(s, i, rest, a) ==
    LET mid == ReadBlock(a.frame.to)
    IN  /\ conn[s].tp = "S"
        /\ Lookup(mid) > 0
        /\ Send([kind |-> "toClient", from |-> i, to |-> Lookup(mid),
                 word |-> WriteBlock(sid), asked |-> a.frame.to, n |-> a.n])
        /\ Keep(s, rest)
        /\ UNCHANGED <<closing, loop>>

\* A server's packet goes to the socket it names, if the table has it.
RelayToClient(s, i, rest, a) ==
    LET mid == ReadBlock(a.frame.to)
    IN  /\ conn[s].tp = "S"
        /\ Lookup(mid) > 0
        /\ Send([kind |-> "toClient", from |-> i, to |-> mid, word |-> WriteBlock(sid),
                 asked |-> a.frame.to, n |-> a.n])
        /\ Keep(s, rest)
        /\ UNCHANGED <<closing, loop>>

\* Mutant of NotifyServer: slot 1 is not found either.
NotifyOffByOne(s, i, rest, a) ==
    LET mid == ReadBlock(a.frame.to)
    IN  /\ conn[s].tp = "S"
        /\ Lookup(mid) <= 1
        /\ Send([kind |-> "notice", from |-> i, to |-> sid, word |-> WriteBlock(mid),
                 asked |-> a.frame.to, n |-> a.n])
        /\ loop' \in IF CanSend(sid) THEN {loop} ELSE {loop, "aborted"}
        /\ Keep(s, rest)
        /\ UNCHANGED closing

\* Otherwise the server is told, by a packet of protId 98, that the client is
\* gone.  If that packet cannot be sent, gate_socket_send frees it and the
\* handler frees it again: what the heap does then is undefined, in practice
\* it stops the process or lives on.
NotifyServer(s, i, rest, a) ==
    LET mid == ReadBlock(a.frame.to)
    IN  /\ conn[s].tp = "S"
        /\ Lookup(mid) <= 0
        /\ Send([kind |-> "notice", from |-> i, to |-> sid, word |-> WriteBlock(mid),
                 asked |-> a.frame.to, n |-> a.n])
        /\ loop' \in IF CanSend(sid) THEN {loop} ELSE {loop, "aborted"}
        /\ Keep(s, rest)
        /\ UNCHANGED closing

\* A debug client's packet is handed to the Lua function msg_dispatch.
DebugMessage(s, rest) ==
    /\ conn[s].tp = "D"
    /\ Keep(s, rest)
    /\ UNCHANGED <<closing, log, loop>>

NotShakenHands(s, i) ==
    /\ conn[s].tp = "none"
    /\ Clear(s, i)
    /\ UNCHANGED <<log, loop>>

HandleMsg(s, i, rest, a) ==
    /\ a.frame.kind = "message"
    /\ \/ RelayToServer(s, i, rest, a)
       \/ NoServer(s, i)
       \/ RelayToClient(s, i, rest, a)
       \/ NotifyServer(s, i, rest, a)
       \/ DebugMessage(s, rest)
       \/ NotShakenHands(s, i)
    /\ UNCHANGED sid

\* databuffer_readheader: no frame is whole yet.
NoFrame(pending) ==
    /\ pending = <<>>
    /\ UNCHANGED <<closing, conn, sid, log, loop>>

\* The oldest frame is handled, only that one.
OldestFrame(s, i, pending) ==
    /\ pending # <<>>
    /\ \/ DoHandshake(s, i, Tail(pending), Head(pending))
       \/ HandleMsg(s, i, Tail(pending), Head(pending))

\* Data of a known connection is added to what its buffer holds.  Data of an
\* unknown connection is dropped and the socket closed.
Data(m) ==
    /\ m.type = "DATA"
    /\ IF Lookup(m.id) >= 0
       THEN \E s \in Slots :
               /\ tab[s] = m.id
               /\ LET pending == conn[s].buf \o m.data
                  IN  NoFrame(pending) \/ OldestFrame(s, m.id, pending)
       ELSE SSClose(m.id) /\ UNCHANGED <<conn, sid, log, loop>>
    /\ UNCHANGED <<st, tab>>

-----------------------------------------------------------------------------
(* gate_dispatch: pop and handle until the queue is empty. *)

Handle(m) ==
    \/ (AcceptFull(m) \/ AcceptNew(m) \/ Connected(m) \/ Disconnected(m)) /\ UNCHANGED loop
    \/ Data(m)

Dispatch ==
    /\ loop = "dispatch"
    /\ mq # <<>>
    /\ mq' = Tail(mq)
    /\ Handle(Head(mq))
    /\ UNCHANGED nsent

\* The pop fails: gate_loop sleeps and polls again.
Sleep ==
    /\ loop = "dispatch"
    /\ mq = <<>>
    /\ loop' = "poll"
    /\ UNCHANGED <<st, closing, tab, conn, sid, mq, nsent, log>>

Next == Poll \/ Dispatch \/ Sleep

Spec == Init /\ [][Next]_vars

(***************************************************************************)
(* The gateway's thread keeps running, a poll that reported more comes     *)
(* back, and the socket server eventually makes the reports that are its   *)
(* own to make: a started socket opens, a requested close is carried out.  *)
(* The last is strong fairness: polls alternate with dispatches, and other *)
(* peers may send pieces for ever, but a socket server that is polled over *)
(* and over does not put off a command for ever.  Nothing makes a peer     *)
(* send, hang up or connect.                                               *)
(***************************************************************************)
Fairness ==
    /\ WF_vars(Dispatch)
    /\ WF_vars(Sleep)
    /\ WF_vars(loop = "more" /\ Poll)
    /\ SF_vars(PollOwed)

FairSpec == Spec /\ Fairness
=============================================================================
