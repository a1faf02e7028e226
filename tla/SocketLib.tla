----------------------------- MODULE SocketLib ------------------------------
(***************************************************************************)
(* lualib/socket.lua over lua-socket.c: the objects that wrap the C        *)
(* sockets, the tables that find them by descriptor and by name, the loop  *)
(* that visits them with pairs while their callbacks change the tables,    *)
(* and the collector, which closes what the program has lost.              *)
(*                                                                         *)
(* A C socket goes through the states that module ClientSocket shows:      *)
(* "failed" is one whose write failed (closed, but fd keeps the number),   *)
(* "ended" one whose loss was reported (fd is -1).  The kernel gives out   *)
(* the lowest free descriptor.                                             *)
(***************************************************************************)
EXTENDS Integers, FiniteSets

CONSTANTS Nil,
          Socks,     \* bound: the objects that connect can make
          Fds,       \* descriptors
          Names      \* addr and port

SocketLibAssumption == Nil \notin Socks \cup Int /\ Fds \subseteq Nat

VARIABLES csock,    \* the C socket of each object: none, open, failed, ended or freed
          cfd,      \* its field fd
          owner,    \* kernel: the C socket that a descriptor was opened for
          fd2sock,  \* sockList_fd2sock
          name2fd,  \* sockList_name2fd
          meta,     \* objects that have the metatable
          held,     \* objects that a variable of the program refers to
          pc,       \* idle, visit, callback, ending or corrupt
          cur,      \* the object that socket.loop visits
          todo,     \* keys that pairs has still to come to
          misuse    \* history: calls after which the library can go wrong

tables == <<fd2sock, name2fd>>
loop == <<pc, cur, todo>>
vars == <<csock, cfd, owner, tables, meta, held, loop, misuse>>

Listed == {fd \in Fds : fd2sock[fd] # Nil}

\* The program runs between two rounds of the loop and in the message callback.
Running == pc \in {"idle", "callback"}

Init ==
    /\ csock = [o \in Socks |-> "none"] /\ cfd = [o \in Socks |-> -1]
    /\ owner = [fd \in Fds |-> Nil]
    /\ fd2sock = [fd \in Fds \cup {-1} |-> Nil]
    /\ name2fd = [key \in Names \X {":", ""} |-> Nil]
    /\ meta = {} /\ held = {}
    /\ pc = "idle" /\ cur = Nil /\ todo = {} /\ misuse = {}

-----------------------------------------------------------------------------

\* A new key during a traversal: pairs may go on with any of the keys, or fail.
Disturbed(fd) ==
    IF pc = "idle" \/ fd2sock[fd] # Nil THEN UNCHANGED todo
    ELSE todo' \in SUBSET (Listed \cup {fd})

\* The two ways to store a name: as it is looked up (mutant), and without the
\* colon, as the code does.
NamedAsLookedUp(name) == <<name, ":">>

Named(name) == <<name, "">>

\* socket.connect of an object that gets the lowest free descriptor.  A socket
\* that was found under the name would lose its entry.
Connect(o, name) ==
    /\ Running /\ csock[o] = "none"
    /\ \E fd \in Fds :
          /\ owner[fd] = Nil /\ \A x \in Fds : x < fd => owner[x] # Nil
          /\ csock' = [csock EXCEPT ![o] = "open"]
          /\ cfd' = [cfd EXCEPT ![o] = fd]
          /\ owner' = [owner EXCEPT ![fd] = o]
          /\ fd2sock' = [x \in DOMAIN fd2sock |->
                            IF x = fd THEN o
                            ELSE IF x = name2fd[<<name, ":">>] THEN Nil ELSE fd2sock[x]]
          /\ name2fd' = [name2fd EXCEPT ![Named(name)] = fd]
          /\ misuse' = IF \E p \in Socks : csock[p] = "failed" /\ cfd[p] = fd
                       THEN misuse \cup {"reuse"} ELSE misuse
          /\ Disturbed(fd)
    /\ meta' = meta \cup {o} /\ held' = held \cup {o}
    /\ UNCHANGED <<pc, cur>>

\* close(2) of the number in the field fd, whoever has it now.
Closed(fd) == [x \in Fds |-> IF x = fd THEN Nil ELSE owner[x]]

\* sock:close: the entry of the number goes, socket_delete closes it and frees
\* the C socket.  A C socket that is free already is undefined behaviour.
Close(o) ==
    /\ IF csock[o] = "freed"
       THEN pc' = "corrupt" /\ UNCHANGED <<csock, owner, fd2sock>>
       ELSE /\ fd2sock' = [fd2sock EXCEPT ![cfd[o]] = Nil]
            /\ owner' = Closed(cfd[o])
            /\ csock' = [csock EXCEPT ![o] = "freed"]
            /\ UNCHANGED pc
    /\ UNCHANGED <<cfd, name2fd, cur, todo>>

\* The program closes a socket that it has; the object keeps the metatable.
ProgramCloses(o) ==
    /\ Running /\ o \in held /\ o \in meta
    /\ Close(o)
    /\ misuse' = misuse \cup {"close"}
    /\ UNCHANGED <<meta, held>>

\* Mutant: the metatable stays.
ProgramDisconnectsOnly(o) ==
    /\ Running /\ o \in held /\ o \in meta
    /\ Close(o)
    /\ misuse' = IF o = cur THEN misuse \cup {"own"} ELSE misuse
    /\ UNCHANGED <<meta, held>>

\* sock:disconnect; in its own callback it frees what the caller goes on using.
ProgramDisconnects(o) ==
    /\ Running /\ o \in held /\ o \in meta
    /\ Close(o)
    /\ meta' = meta \ {o}
    /\ misuse' = IF o = cur THEN misuse \cup {"own"} ELSE misuse
    /\ UNCHANGED held

\* sock:sendstring when write() fails: force_close; the entry stays.
SendFails(o) ==
    /\ Running /\ o \in held /\ o \in meta /\ csock[o] = "open"
    /\ csock' = [csock EXCEPT ![o] = "failed"]
    /\ owner' = Closed(cfd[o])
    /\ misuse' = IF o = cur THEN misuse \cup {"send"} ELSE misuse
    /\ UNCHANGED <<cfd, tables, meta, held, loop>>

\* The program loses its reference, or takes one from socket.getsock.
Drop(o) ==
    /\ Running /\ o \in held
    /\ held' = held \ {o}
    /\ UNCHANGED <<csock, cfd, owner, tables, meta, loop, misuse>>

GetSock(fd) ==
    /\ Running /\ fd \in Listed /\ fd2sock[fd] \notin held
    /\ held' = held \cup {fd2sock[fd]}
    /\ UNCHANGED <<csock, cfd, owner, tables, meta, loop, misuse>>

\* __gc of an object that nothing refers to any more.
Collect(o) ==
    /\ pc # "corrupt"
    /\ o \in meta \ held /\ o # cur /\ \A fd \in Fds : fd2sock[fd] # o
    /\ Close(o)
    /\ meta' = meta \ {o}
    /\ UNCHANGED <<held, misuse>>

-----------------------------------------------------------------------------
(* socket.loop *)

LoopStarts ==
    /\ pc = "idle" /\ Listed # {}
    /\ pc' = "visit" /\ todo' = Listed
    /\ UNCHANGED <<csock, cfd, owner, tables, meta, held, cur, misuse>>

LoopEnds ==
    /\ pc = "visit" /\ todo \cap Listed = {}
    /\ pc' = "idle" /\ cur' = Nil /\ todo' = {}
    /\ UNCHANGED <<csock, cfd, owner, tables, meta, held, misuse>>

\* lsocketloop of the next object: what waits is flushed, which may fail; then
\* nothing comes, a message comes, or the end does.  A socket whose write failed
\* has no queue any more and is passed over: its end is never reported.
Visit(fd) ==
    /\ pc = "visit" /\ fd \in todo \cap Listed
    /\ cur' = fd2sock[fd] /\ todo' = todo \ {fd}
    /\ LET o == fd2sock[fd]
       IN  \/ UNCHANGED <<pc, csock, owner>>
           \/ csock[o] = "open" /\ pc' = "callback" /\ UNCHANGED <<csock, owner>>
           \/ /\ csock[o] = "open" /\ pc' \in {"visit", "ending"}
              /\ csock' = [csock EXCEPT ![o] = "failed"]
              /\ owner' = Closed(cfd[o])
    /\ UNCHANGED <<cfd, tables, meta, held, misuse>>

\* socket_msgdispatch goes on with its socket when the callback is done.
CallbackReturns ==
    /\ pc = "callback"
    /\ pc' = IF csock[cur] = "open" THEN "visit" ELSE "corrupt"
    /\ UNCHANGED <<csock, cfd, owner, tables, meta, held, cur, todo, misuse>>

\* Mutant: disconnect_dispatch forgets the socket only if it holds it.
EndReportedHeld ==
    /\ pc = "ending"
    /\ fd2sock' = IF cur \in held THEN [fd2sock EXCEPT ![cfd[cur]] = Nil] ELSE fd2sock
    /\ cfd' = [cfd EXCEPT ![cur] = -1]
    /\ csock' = [csock EXCEPT ![cur] = "ended"]
    /\ pc' = "visit"
    /\ UNCHANGED <<owner, name2fd, meta, held, cur, todo, misuse>>

\* disconnect_dispatch and what follows it in socket_msgdispatch.
EndReported ==
    /\ pc = "ending"
    /\ fd2sock' = [fd2sock EXCEPT ![cfd[cur]] = Nil]
    /\ cfd' = [cfd EXCEPT ![cur] = -1]
    /\ csock' = [csock EXCEPT ![cur] = "ended"]
    /\ pc' = "visit"
    /\ UNCHANGED <<owner, name2fd, meta, held, cur, todo, misuse>>

Program ==
    \/ \E o \in Socks, name \in Names : Connect(o, name)
    \/ \E o \in Socks : ProgramCloses(o) \/ ProgramDisconnects(o) \/ SendFails(o) \/ Drop(o)
    \/ \E fd \in Fds : GetSock(fd)

Loop ==
    \/ LoopStarts \/ LoopEnds \/ CallbackReturns \/ EndReported
    \/ \E fd \in Fds : Visit(fd)

Next == Program \/ Loop \/ \E o \in Socks : Collect(o)

Spec == Init /\ [][Next]_vars

-----------------------------------------------------------------------------

\* A C socket is used after it was freed only by a program that calls close
\* (the finalizer of the same object closes it once more), or that in the
\* callback of a socket disconnects that socket or sends on it in vain: nothing
\* that the collector does at any moment of a round, and no disconnect of
\* another socket in a callback, leads there (socket.lua:10, lua-socket.c:93).
MemorySafe == pc = "corrupt" => misuse \cap {"close", "own", "send"} # {}

\* A descriptor finds the socket that has it; a socket whose end was reported
\* or that was freed is found no more (socket.lua:31-42, client_socket.c:283).
ListedIsOwn ==
    \A fd \in Fds : \E o \in Socks \cup {Nil} :
        fd2sock[fd] = o /\ (o # Nil => cfd[o] = fd /\ csock[o] \in {"open", "failed"})

\* An open socket keeps its descriptor and is found under it, whatever other
\* sockets of the same name or of the same number before it do: unless a new
\* socket got the number of one that failed and was not reported yet.  Then the
\* finalizer of the old one closes the number of the new one.
OpenIsListed ==
    "reuse" \in misuse \/
    \A o \in Socks : csock[o] = "open" => fd2sock[cfd[o]] = o /\ owner[cfd[o]] = o
=============================================================================
