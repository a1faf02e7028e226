----------------------------- MODULE MCContainers -----------------------------
(***************************************************************************)
(* The containers for TLC: each behaviour is one of the message queue      *)
(* (which this module extends), the id table, the hash map, a databuffer   *)
(* with the stream that fills it, or the tables in which the Lua programs  *)
(* find their sockets, with the program and the collector.                 *)
(***************************************************************************)
EXTENDS MessageQueue, TLC

CONSTANTS IdSlots, MinHash, Ids,                 \* of hashid.h
          Keys, HashOf, NameOf, MapSize, MapValues, MapNodes,   \* of hashmap.h
          Base, PoolSize, Bodies, MinSize, MaxFrames, MaxPiece, \* of databuffer.h
          NoSocket, Socks, Fds, Names                    \* of socket.lua

VARIABLES part,                                  \* the container of this behaviour
          id, next, hash, count, idsLive,        \* of HashId
          node, heap, answer, state,             \* of HashMap
          db, mp, wire, sent, got,               \* of Framing
          csock, cfd, owner, fd2sock, name2fd, meta, held, pc, cur, todo, misuse   \* of SocketLib

idVars == <<id, next, hash, count, idsLive>>
mapVars == <<node, heap, answer, state>>
streamVars == <<db, mp, wire, sent, got>>
socketVars == <<csock, cfd, owner, fd2sock, name2fd, meta, held, pc, cur, todo, misuse>>
allVars == <<part, vars, idVars, mapVars, streamVars, socketVars>>

\* Two keys with one hash, and a third of their bucket with the name of the first.
TheKeys == {"k1", "k2", "k3", "k4"}
TheHashes == [k1 |-> 5, k2 |-> 5, k3 |-> 7, k4 |-> 4]
TheNames == [k1 |-> "x", k2 |-> "y", k3 |-> "x", k4 |-> "z"]

\* Frames: too short, and long enough ones; bytes that look like a size.
Frames == {<<0, 3>>, <<0, 3, 0>>, <<3, 0, 0, 1, 0>>}

\* The objects of socket.lua are alike.
Alike == Permutations(Socks)

H == INSTANCE HashId WITH Cap <- IdSlots, live <- idsLive
M == INSTANCE HashMap WITH Size <- MapSize, Values <- MapValues, MaxNodes <- MapNodes
B == INSTANCE Framing
S == INSTANCE SocketLib WITH Nil <- NoSocket

ASSUME ContainersAssumption ==
    /\ H!HashIdAssumption
    /\ M!HashMapAssumption
    /\ B!DataBufferAssumption /\ B!FramingAssumption
    /\ S!SocketLibAssumption

AllInit ==
    /\ part \in {"queue", "ids", "map", "stream", "sockets"}
    /\ Init /\ H!Init /\ M!Init /\ B!Init /\ S!Init

AllNext ==
    \/ part = "queue" /\ Next /\ UNCHANGED <<part, idVars, mapVars, streamVars, socketVars>>
    \/ part = "ids" /\ H!Next /\ UNCHANGED <<part, vars, mapVars, streamVars, socketVars>>
    \/ part = "map" /\ M!Next /\ UNCHANGED <<part, vars, idVars, streamVars, socketVars>>
    \/ part = "stream" /\ B!Next /\ UNCHANGED <<part, vars, idVars, mapVars, socketVars>>
    \/ part = "sockets" /\ S!Next /\ UNCHANGED <<part, vars, idVars, mapVars, streamVars>>

AllSpec == AllInit /\ [][AllNext]_allVars

-----------------------------------------------------------------------------

\* hashid.h keeps the promise on which module Gateway is built: each id has
\* one slot, found until it is removed, and only free slots are given away.
ImplementsIdTable == H!ImplementsIdTable

\* However insertions and removals at the front and in the middle of chains
\* follow each other, a chain ends and holds exactly the nodes whose id has its
\* hash, a free node is linked nowhere, and hashid_full's count is exact
\* (hashid.h:104 and 107 assert it).
IdsChained == H!ChainsPartition /\ H!CountExact

\* Every key of hashmap.h has a stack of values of its own, whatever shares its
\* bucket, its hash or its name.
StackPerKey == M!StackPerKey

\* Wherever the stream of a peer is cut, every byte that it wrote is in exactly
\* one place, in order, and frames come out as they were sent; size, offset and
\* the nodes of the pool, kept by hand, agree with the chunks (databuffer.h).
BufferExact == B!NoByteLost /\ B!StaysFramed /\ B!SizeExact /\ B!PoolExact

\* A C socket is used after it was freed only by a program that calls close, or
\* that in the callback of a socket disconnects it or sends on it in vain
\* (socket.lua:10, lua-socket.c:93).
MemorySafe == S!MemorySafe

\* A descriptor finds the socket that has it, and an ended or freed socket is
\* found no more (socket.lua:31-42, client_socket.c:283).
ListedIsOwn == S!ListedIsOwn

\* An open socket keeps its descriptor and is found under it, whatever other
\* sockets of its name or number did (socket.lua:19-33).
OpenIsListed == S!OpenIsListed
=============================================================================
