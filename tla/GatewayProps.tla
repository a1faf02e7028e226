---------------------------- MODULE GatewayProps ----------------------------
(***************************************************************************)
(* What makes the gateway of module Gateway correct: its types, its safety *)
(* and why it holds, what no step may do, what must happen in the end, and *)
(* what the repository says of the gateway although the code does not      *)
(* keep it.                                                                *)
(***************************************************************************)
EXTENDS Gateway

-----------------------------------------------------------------------------
(* Type invariant *)

MqMessage ==
    [type : {"ACCEPT", "CONNECT", "DATA", "CLOSE", "ERROR"},
     id : Sockets, ud : Ids \cup {0}, data : Seq(Arrived)]

Packet ==
    [kind : {"toServer", "toClient", "notice"}, from : Ids, to : Sockets,
     word : WireWord, asked : WireWord, n : Nat \ {0}]

Connection ==
    [id : Ids \cup {-1}, tp : {"none", "C", "S", "D"}, buf : Seq(Arrived)]

\* The state of the gateway and of its sockets has the shape that struct gate,
\* struct connection and struct gate_message give it.
TypeOK ==
    /\ st \in [Sockets -> SocketState]
    /\ closing \in SUBSET Ids
    /\ tab \in [Slots -> Ids \cup {Free}]
    /\ conn \in [Slots -> Connection]
    /\ sid \in Ids \cup {0, -1}
    /\ mq \in Seq(MqMessage)
    /\ loop \in LoopState
    /\ nsent \in [Ids -> Nat]
    /\ log \in Seq(Packet)

-----------------------------------------------------------------------------
(* Safety *)

IsEnd(m, i) == m.type \in {"CLOSE", "ERROR"} /\ m.id = i
EndQueued(i) == \E k \in 1 .. Len(mq) : IsEnd(mq[k], i)
InTable(i) == \E s \in Slots : tab[s] = i

\* hash and conn are two arrays updated by different statements of the accept
\* and close handlers (gate_main.c:258-287): they always name the same socket
\* per slot, no socket has two slots, and an empty slot keeps nothing of its
\* last connection.
TableMatchesConn ==
    /\ \A s \in Slots : conn[s].id = tab[s] /\ (tab[s] = Free => conn[s] = NoConn)
    /\ \A s, t \in Slots : tab[s] = tab[t] /\ tab[s] # Free => s = t

\* The server the gateway relays to is a connection it still has: sid is never
\* left behind by a close (gate_main.c:264-266).
ServerKnown == sid > 0 => InTable(sid)

\* A refused server keeps conn_tp 'S' and its queued packets are still handled
\* as a server's (gate_main.c:115-121, 157); but every connection of type 'S' that
\* is not the registered server is on its way out.
RefusedServersClosing ==
    \A s \in Slots : conn[s].tp = "S" => tab[s] = sid \/ tab[s] \in closing

\* The branches "Drop unknown connection" and "Close unknown connection"
\* (gate_main.c:236-239, 252-255) are never taken: whatever is polled and dispatched in
\* which order, a DATA or CONNECT message finds its connection, and no message
\* of a socket is queued behind the report of its end.
NoOrphans ==
    \A k \in 1 .. Len(mq) :
        mq[k].type \in {"DATA", "CONNECT"} /\ mq[k].id # ListenId =>
            /\ InTable(mq[k].id)
            /\ \A j \in 1 .. k - 1 : ~ IsEnd(mq[j], mq[k].id)

\* No slot leaks: a slot whose socket is gone will be freed, because the
\* report of the socket's end is in the queue.
NoLeakedSlot ==
    \A s \in Slots : tab[s] # Free /\ st[tab[s]] = "dead" => EndQueued(tab[s])

\* No socket is forgotten: one that exists has a slot, or waits in the queue to
\* be accepted, or was turned away and is being closed (gate_main.c:276-286).
NoForgottenSocket ==
    \A i \in Ids : Exists(i) =>
        \/ InTable(i)
        \/ \E k \in 1 .. Len(mq) : mq[k].type = "ACCEPT" /\ mq[k].ud = i
        \/ i \in closing

\* The double free of NotifyServer (gate_main.c:174-177 after gate_socket.c:83-85)
\* can only happen while no server is registered, or between the report of the
\* registered server's end and its dispatch.
AbortWindow == loop = "aborted" => sid <= 0 \/ EndQueued(sid)

\* Each frame causes at most one packet, and the packets caused by one
\* connection go out in the order in which it sent its frames, through the
\* queue, the buffer and the handlers.
SenderOrder ==
    \A j, k \in 1 .. Len(log) : j < k /\ log[j].from = log[k].from => log[j].n < log[k].n

\* A server's packet is never delivered to a socket other than the one whose
\* id its two bytes spell, whatever they are (gate_main.c:158-160).
RelayAddressed ==
    \A k \in 1 .. Len(log) : log[k].kind = "toClient" => WriteBlock(log[k].to) = log[k].asked

-----------------------------------------------------------------------------
(***************************************************************************)
(* Why the safety invariants hold: the queue and the life of each socket   *)
(* agree.  The conjunction IndInv is preserved by every step.              *)
(***************************************************************************)

Accepting(i) == \E k \in 1 .. Len(mq) : mq[k].type = "ACCEPT" /\ mq[k].ud = i

\* A connection is offered once, and nothing happens to it before.
QueuedAccepts ==
    \A k \in 1 .. Len(mq) : mq[k].type = "ACCEPT" =>
        /\ mq[k].ud \in Ids
        /\ st[mq[k].ud] = "accepted"
        /\ mq[k].ud \notin closing
        /\ ~ InTable(mq[k].ud)
        /\ \A j \in 1 .. Len(mq) : mq[j].type = "ACCEPT" /\ mq[j].ud = mq[k].ud => j = k

\* The end of a socket is reported once, when it is over.
QueuedEnds ==
    \A k \in 1 .. Len(mq) : mq[k].type \in {"CLOSE", "ERROR"} =>
        /\ mq[k].id \in Ids
        /\ st[mq[k].id] = "dead"
        /\ \A j \in 1 .. Len(mq) : IsEnd(mq[j], mq[k].id) => j = k

QueuedData ==
    \A k \in 1 .. Len(mq) : mq[k].type = "DATA" => mq[k].id \in Ids

\* Where a socket is, by its state.
TableStarted == \A s \in Slots : tab[s] # Free => st[tab[s]] \in {"opening", "open", "dead"}
StartedInTable == \A i \in Ids : st[i] \in {"opening", "open"} => InTable(i)
AcceptedPending == \A i \in Ids : st[i] = "accepted" => Accepting(i) \/ i \in closing
ClosingUsed == \A i \in closing : st[i] # "unused"

SocketInv ==
    /\ QueuedAccepts
    /\ QueuedEnds
    /\ QueuedData
    /\ TableStarted
    /\ StartedInTable
    /\ AcceptedPending
    /\ ClosingUsed
    /\ NoOrphans
    /\ NoLeakedSlot

\* What the proofs of module GatewayProofs carry from step to step.
IndInv ==
    /\ TypeOK
    /\ TableMatchesConn
    /\ SocketInv
    /\ ServerKnown
    /\ RefusedServersClosing
    /\ AbortWindow

-----------------------------------------------------------------------------
(* What a step may never do *)

\* A slot changes hands only through its socket's death: no handler takes the
\* slot of a socket that may still deliver or be written to.
SlotOutlivesSocket ==
    [][\A s \in Slots : tab[s] # Free /\ tab'[s] # tab[s] =>
           tab'[s] = Free /\ st[tab[s]] = "dead"]_vars

\* The server is told that a client is gone only if it is, or if the gateway
\* cannot address that client at all: it sits in slot 0, which the handler
\* takes for "not found", or its id does not survive read_block.
NoticeSound ==
    [][\A s \in Slots :
           /\ tab[s] # Free
           /\ Len(log') > Len(log)
           /\ log'[Len(log')].kind = "notice"
           /\ log'[Len(log')].asked = WriteBlock(tab[s])
           => s = 0 \/ ~ Readable(tab[s])]_vars

-----------------------------------------------------------------------------
(* Liveness *)

Aborted == loop = "aborted"

\* After the server's socket is gone another server can register.
ServerReplaceable ==
    \A i \in Ids : (sid = i /\ st[i] = "dead") ~> (sid # i \/ Aborted)

\* An accepted connection is opened or ended, it does not stay half accepted.
AcceptedServed ==
    \A i \in Ids : (st[i] = "accepted") ~> (st[i] \in {"open", "dead"} \/ Aborted)

-----------------------------------------------------------------------------
(* What the comments and the README say of the gateway, and the code does  *)
(* not keep.                                                               *)

Appended(kind) == Len(log') > Len(log) /\ log'[Len(log')].kind = kind

\* "tell server, client already disconnect" (gate_main.c:166): the server is
\* told so only of ids that no connected client has.
NoticeMeansGone ==
    [][Appended("notice") =>
           ~ \E s \in Slots : /\ conn[s].tp = "C"
                             /\ log'[Len(log')].asked = WriteBlock(tab[s])]_vars

\* A command typed by a user "will send protocal to server" (README.md:33): no
\* complete packet of a client stays in its connection's buffer for ever.
BacklogDrains ==
    \A s \in Slots :
        (conn[s].tp = "C" /\ conn[s].buf # <<>>) ~> (conn[s].buf = <<>>)
=============================================================================
