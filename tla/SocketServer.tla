---------------------------- MODULE SocketServer ----------------------------
(***************************************************************************)
(* EXTERNAL.  3rd/socket-server is a git submodule whose sources are not   *)
(* in this repository.  This module states what gateway-src/ relies on, as *)
(* its calls and its switch over the poll results show it:                 *)
(*   - a listening socket reports each new connection once, by an id that  *)
(*     no other connection has;                                            *)
(*   - the connection stays silent until it is started, then reports that  *)
(*     it is open, then its data, then once and last CLOSE or ERROR;       *)
(*   - a requested close is asynchronous: data may still be reported, and  *)
(*     the CLOSE report comes from a later poll;                           *)
(*   - a send to a socket that is not there any more returns -1.           *)
(***************************************************************************)
EXTENDS Integers

CONSTANTS Ids,         \* the ids a new connection may get
          ListenId     \* the id of the listening socket

VARIABLES st,          \* life of each socket, see SocketState
          closing      \* the sockets whose close was requested

ssVars == <<st, closing>>

SocketState == {"unused", "accepted", "opening", "open", "dead"}
Sockets == Ids \cup {ListenId}

\* gate_init has created the listening socket and started it.
SSInit ==
    /\ st = [i \in Sockets |-> IF i = ListenId THEN "opening" ELSE "unused"]
    /\ closing = {}

Exists(i) == i \in Sockets /\ st[i] \notin {"unused", "dead"}

-----------------------------------------------------------------------------
(* Commands. *)

SSStart(i) == st' = [st EXCEPT ![i] = IF @ = "accepted" THEN "opening" ELSE @]

SSClose(i) == closing' = closing \cup {i}

\* socket_server_send succeeds; otherwise it returns -1.
CanSend(i) == Exists(i)

-----------------------------------------------------------------------------
(* Reports of socket_server_poll. *)

NewConnection(i) ==
    /\ st[ListenId] = "open"
    /\ st[i] = "unused"
    /\ st' = [st EXCEPT ![i] = "accepted"]
    /\ UNCHANGED closing

Opened(i) ==
    /\ st[i] = "opening"
    /\ st' = [st EXCEPT ![i] = "open"]
    /\ UNCHANGED closing

HasData(i) == i \in Ids /\ st[i] = "open" /\ UNCHANGED ssVars

\* A requested close is carried out, or the peer hung up.
Closed(i) ==
    /\ i \in Ids
    /\ \/ i \in closing /\ Exists(i)
       \/ st[i] = "open"
    /\ st' = [st EXCEPT ![i] = "dead"]
    /\ UNCHANGED closing

Failed(i) ==
    /\ i \in Ids
    /\ st[i] \in {"opening", "open"}
    /\ st' = [st EXCEPT ![i] = "dead"]
    /\ UNCHANGED closing

\* Some socket has a report to make, now.
ReportReady ==
    \/ st[ListenId] = "opening"
    \/ \E i \in Ids : st[i] \in {"opening", "open"} \/ (i \in closing /\ Exists(i))
=============================================================================
