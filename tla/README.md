# sample-netgame-server in TLA+

A verification project for
[sample-netgame-server](https://github.com/hanxi/sample-netgame-server): TLA+
modules translated from its C and Lua sources and from the Lua interpreter that it
carries, TLC configurations that check them on small instances, and TLAPS proofs of
what matters most for instances of any size. Paths below are relative to the repository.

## The system

Three kinds of process talk over TCP. Game clients and one game server connect
to a **gateway**; each introduces itself with a handshake (an md5 string says
client, server or debug client). The gateway relays the packets of clients to
the server, stamped with the client's socket id in bytes 2 and 3, and the
packets of the server to the client those two bytes name.

```
 console client            gateway                           game server
 client.lua                main.c: gate_loop                 main.c: main_loop
 lua-clientsocket.c  TCP   poll -> queue -> dispatch   TCP   socket.lua, lua-socket.c
  reader thread    <---->  gate_socket  gate_mq  gate_main  <----> client_socket.c
  + Lua thread             hashid, databuffer                databuffer, socket_mq
 lproto.lua                                                  lproto.lua
 ------------------------- 3rd/lua (all three processes) -------------------------
```

| component | state | operations | hard about it | correct means |
|---|---|---|---|---|
| gateway (`gateway-src/gate_main.c`, `gate_socket.c`, `main.c`) | table of connections (`hash` and `conn`), `sid`, the buffered frames | poll a report into the queue; dispatch DATA, CONNECT, CLOSE/ERROR, ACCEPT; handshake; relay; notice | reports of many sockets queued in any order; closes are asynchronous; a dying socket still has data queued; table full; second server; a failed send | the two tables agree; no slot or socket is lost; `sid` is a live connection; packets go where their bytes say, in order |
| message queues (`gate_mq.c`, `common-src/socket_mq.c`) | ring with `cap`, `head`, `tail` | init, push, expand, pop, release | full and empty look alike; unrolling the ring | a FIFO queue |
| id table (`common-src/hashid.h`) | nodes in fixed slots, hash chains, `count` | init, insert, lookup, remove, full, clear | links of chains while nodes are reused | one slot per id, found until removed |
| hash map (`common-src/hashmap.h`) | chains of nodes with key and value | new, insert, search, remove, delete | removal at the front and in the middle; equal hashes; shadowed values | a stack of values per key |
| data buffer (`common-src/databuffer.h`) | list of chunks, `offset`, `size`, `header`; node pool | push, read, readheader, reset, clear | TCP cuts frames anywhere | no byte lost, frames cut at the right places |
| client socket (`common-src/client_socket.c`, `lualib-src/lua-socket.c`) | write list with `tail` and `wb_size`, queue, read buffer, descriptor | send, loop (flush, read, callbacks), disconnect, delete | partial, blocked and failing writes; callbacks that send or lose the socket | the byte stream in order; one report of the end; a loss is noticed |
| socket library (`lualib/socket.lua`) and its program (`server-src/main.c`, `bin.server/scripts/main.lua`) | two tables by name and descriptor, the objects and their metatables | connect, close, disconnect, send, loop, delsock, `__gc` | tables that change while they are traversed; reused descriptor numbers; the collector closes at any moment | a descriptor finds the socket that has it, an open socket is found |
| console client (`bin.client/client.lua`, `lualib-src/lua-clientsocket.c`) | ring of lines under a spin lock; the received text not parsed yet | reader thread, `readstdin`, recv, framing, blocking send | two threads, fixed ring, `exit(1)` in a thread; recv and send cut both streams | lines, frames and commands whole, once and in order; both inputs are served |
| packets (`lualib/lproto.lua`; its C half is an empty submodule) | sorted fields per protocol | initprot, pack, unpack | both ends rely on the same order of fields | what was typed is what the server gets |
| Lua compiler and virtual machine (`3rd/lua/lparser.c`, `lcode.c`, `lvm.c`, `ldo.c`, `lfunc.c`) | registers, patch lists, constants; stack, frames, open upvalues | every statement, expression and instruction | registers by discipline only; code that is patched later; errors that unwind | a script does what the manual says |
| Lua collector (`lgc.c`, `lstring.c`) | colours, gray lists, weak lists, finalizer lists, the sweep | single steps, barriers, full cycles | the program runs between any two steps | nothing reachable freed, the rest freed, finalizers once |
| Lua tables (`ltable.c`) | array part, hash part with free pointer | get, set, rehash, next, `#` | moved nodes, dead keys, resize | a function from keys to values |
| Lua library (`lstrlib.c`, `ltablib.c`, `lauxlib.c`) | match state, `luaL_Buffer`, partitions | `gsub`, `sort`, `insert`, `concat` | backtracking by hand; a buffer that moves on the Lua stack | what the manual says |
| socket server (`3rd/socket-server`, empty submodule) | sockets of the process | listen, start, close, send, poll | asynchronous | external: modelled from its use |

The gateway is one thread. `gate_socket_poll` turns one report of the socket
server into one message of the queue; `gate_dispatch` pops and handles until the
queue is empty. The game server is one thread too: `main_loop` calls
`socket.loop`, which calls `lsocketloop` for each socket: flush the write list,
read once, call back for each frame. The console client has a second thread that
reads the keyboard. The Lua collector is no thread, but it runs a step at any
allocation, so that a program must expect it everywhere.

`PROJECT.json` lists the hazards that matter most, with the line where each bites and
the property that watches it.

## Modules

| module | models |
|---|---|
| `Fifo`, `MessageQueue`, `MessageQueueProofs` | what both message queues promise; the growing ring of `gate_mq.c` and of its twin `socket_mq.c`; proof that the ring implements `Fifo` |
| `IdTable`, `HashId` | what `hashid.h` promises; its nodes, chains and `count`, which implement it |
| `HashMap` | `hashmap.h` with buckets and chains |
| `Wire` | `write_block` and `read_block`, with the signed `char` |
| `SocketServer` | external: the socket server as `gate_socket.c` uses it |
| `Gateway`, `GatewayProps`, `GatewayProofs` | the gateway process, which composes `Wire`, `IdTable`, `SocketServer` and a FIFO queue; its properties and its inductive invariant; their proofs |
| `DataBuffer`, `Framing` | `databuffer.h` as operators on a buffer and a pool; one connection as bytes: the peer, the wire, `dispatch_message` |
| `ContainersProofs` | proofs about the id table, the hash map and the data buffer, what they share about linked lists, and the proofs of the socket library |
| `ClientSocket`, `ClientSocketProofs` | `client_socket.c` under `lsocketloop` and its callbacks; its proofs |
| `StdinQueue`, `ConsoleClient`, `ClientsProofs` | the keyboard thread and `lreadstdin`; the program of `client.lua` on top of them; their proofs, and those of the client socket put beside them |
| `SocketLib` | `socket.lua` over `lua-socket.c` and the kernel's descriptors, with its program and the collector; its proofs are in `ContainersProofs` |
| `LuaBuffer`, `LuaString`, `LuaSort`, `LProto` | `luaL_Buffer`; the pattern matcher and `gsub`; `table.sort`; `lproto.lua` over the three |
| `StringPatterns` | reference: what a pattern means, without a matcher |
| `LuaTable`, `LuaTableProofs` | `ltable.c`; its proofs, and those of `LuaSort` |
| `LuaGC`, `LuaGCProofs` | `lgc.c`, with the strings of `lstring.c` and the upvalues of `lfunc.c`; its proofs |
| `LuaCode`, `LuaParser`, `LuaVM` | code generator, compiler, virtual machine |
| `LuaSemantics` | reference: what a program means, without registers or upvalues |
| `SeqLemmas` | lemmas about sequences, rings and `FlattenSeq` that several of the proofs need |
| `MCContainers`, `MCGateway`, `MCClients`, `MCLProto`, `MCLibrary`, `MCLuaGC`, `MCLuaVM` | small instances for TLC |

`Gateway` does not see hash chains, ring indices or bytes. It uses the id table
as `IdTable`, the queue as a sequence and packets as whole frames; `HashId`
shows that the hash table implements `IdTable`, `MessageQueueProofs` that the
ring implements `Fifo`, and `Framing` that a DATA message delivers whole frames
in order, one at most. In the same way `SocketLib` sees a C socket only as open,
failed, ended or freed, the states through which `ClientSocket` takes it, and
`LProto` sees sorted fields and split lines as `LuaSort` and `LuaString` make them.

**State and actions.**
- `Gateway`: `tab` is `hash` (`id[]`), `conn` the array of `struct connection` with
  `id`, `conn_tp` and the frames in `buffer`; `sid`, `mq` are the fields and the queue
  of the same names; `loop` is where `gate_loop` stands; `st` and `closing` are the
  sockets inside the socket server. `nsent` and `log` are history. `Poll` is one call of
  `gate_socket_poll` (`Return` is the test of its result in `gate_loop`), `Dispatch` one
  turn of the loop in `gate_dispatch` with the whole of `dispatch_socket_message`,
  `Sleep` the end of that loop. In `Handle` every case and every `goto _clear` has a
  disjunct.
- `MessageQueue`, `HashId`, `HashMap`: one action per function. `Framing`: the peer
  writes a frame, the kernel delivers a piece, `dispatch_message` handles it.
- `ClientSocket`: each system call is a step of its own, because other code runs or the
  peer acts between two of them. `StdinQueue`: every access under the lock that the
  other thread might see is a step. `ConsoleClient`: one step per `recv`, unpacked
  frame, look at the keyboard, and `send`.
- `SocketLib`: `csock` and `cfd` are the C structs, `owner` the kernel's table,
  `fd2sock`, `name2fd`, `meta` the Lua tables and metatables, `held` what the program
  still refers to. A visit of `socket.loop`, the callbacks that it makes and the calls
  that the program makes from inside them are steps; `__gc` may come between any two.
- `LuaTable`: an assignment with the rehash it may need, a step of `next`, an insertion
  and a collector that marks keys dead. `LuaString`: a step per match of `gsub`.
  `LuaSort`: a step per partition. `LProto`: a step per function on the way of a
  message.
- `LuaGC`: a single step of the collector, and each kind of thing a program may do to
  an object: allocate, store with the barrier that the code has there, drop, resume,
  close an upvalue, set a metatable, intern a string, call `collectgarbage()`.
- `LuaCode` and `LuaParser` are operators on a function state, one per function of
  the compiler; a failed `lua_assert` is remembered in its field `ok`. `LuaVM` has one
  action per instruction or group of instructions.

Definitions marked "Mutant" are deliberate errors. No specification uses
them: each is put in the place of the definition it follows to see that a
property notices.

## What the runs show

Passing runs. All have `CHECK_DEADLOCK FALSE`, since everything here may rightly stop: a
bounded input is used up, a gateway waits in poll, a queue is released, a process exits,
a script ends. `containers`, `clients` and `library` hold several machines each and choose
one of them in the initial state.

| run | configuration | bounds | shows |
|---|---|---|---|
| `containers` | `MCContainers` | ring of 2 that grows to 4, 3 messages; 5 nodes, 8 buckets, ids 1, 2, 9, 17, 25; a map of 3 buckets, 4 keys of which two have one hash; 3 frames of 2 to 5 bytes, any cut; 3 socket objects (interchangeable), 2 descriptors | `ImplementsFifo`, `NoGarbage`; `ImplementsIdTable`, `IdsChained`; `StackPerKey`; `BufferExact`: no byte lost, counters and node pool exact, frames as they were sent; `MemorySafe`, `ListedIsOwn`, `OpenIsListed` of the socket library |
| `gateway` | `MCGateway` | 3 connections, 2 slots, one frame each; one of them also sends pieces, one queued at a time | a queued message finds its connection, no slot or socket is lost or given away too early, a lost server can be replaced, an accepted connection is served |
| `gateway_talk` | `MCGatewayTalk` | a peer of any kind, whose id is not readable, that sends 3 frames, up to 2 in one DATA, and pieces, one queued at a time; a second one that may be the server | `SenderOrder`, `RelayAddressed`, `NoticeSound` |
| `clients` | `MCClients` | ring of 3, 4 lines, 2 frames of 4 and 5 bytes read in pieces of up to 4, commands of 2 bytes; 3 sends of 0, 1 or 3 bytes, 2 frames received | lines, frames, commands and written bytes in order and once; one report of a socket's end; a line is taken, a frame is shown, a loss is noticed |
| `library` | `MCLibrary` | all patterns of two items on texts of up to 3 characters, patterns with captures on up to 4; sorts of up to 6 elements under valid and invalid orders; typed lines and tables with missing, wrong and default fields; tables with 3 integer and 2 other keys under a good and a bad hash | `GsubExact`, `SortRight`, `RoundTrip`; `LookupExact`, `RehashFits`, `BorderFound`, `TraversalComplete` |
| `lua_gc` | `MCLuaGC` | 3 objects in 8 combinations of types, two hash values | nothing reachable is freed, no black object refers to a white one while marking, finalizers run once and before the memory goes, weak tables lose only what they may; garbage is freed |
| `lua_vm` | `MCLuaVM` | families of programs with an enumerated part: conditions, multiple assignments, loops, gotos, calls, protected calls, metatables, constructors, operators, comparisons of numbers and strings, shared variables, errors | the result, or the error, is that of `LuaSemantics`; no assertion of the compiler fails; `L->top` is right between instructions; every register used is in the frame |

Runs that find a text of the repository contradicted (details in
`PROJECT.json`, "findings"):

| run | text | what the code does |
|---|---|---|
| `notice` | "tell server, client already disconnect" (`gate_main.c:166`) | also told of the connected client in slot 0 (`> 0` at line 158) |
| `backlog` | "will send protocal to server" (`README.md:33`) | the second of two packets in one DATA message waits for the next one |
| `client_socket_error` | "return -1 when error" (`client_socket.c:194`) | a failed send in the callback also frees the queue that the caller pops next |
| `lua_for_list` | `lua_assert(fs->freereg == fs->nactvar)` (`lparser.c:446`) | `forlist` with more than three expressions leaves registers reserved; the loop's own variables keep theirs, but the values of the body's locals are put beyond the registers from which they are read |
| `ephemeron` | "all strongly accessible objects are marked" (`lgc.c:1016`) | an ephemeron table that was put on `allweak` (`lgc.c:409`) is not visited again; an entry made afterwards loses its value |

### Behaviours that a reader of the code might not expect

They are in the models, and the properties are stated around them.

- A refused second server's queued packets are still relayed, stamped as the
  registered server's, until its close arrives (`RefusedServersClosing` bounds it).
- An id with a byte of 128 or more is read back as a negative number (`read_block`
  uses plain `char`, `gate_main.c:80`); its client gets no packets and the server a
  notice about it. `NoticeSound` lists this as one of its two exceptions.
- A frame of 1 to 5 bytes leaves its body in the buffer, to be read as the next
  header (`gate_main.c:223`). In `Framing` it is `Legal` only to send longer ones; the
  counters are exact in any case.
- The notice (`gate_main.c:171`) announces 6 bytes and carries 4.
- A notice that fails is freed twice while the server's end is reported and not
  dispatched yet, or when there is no server (`AbortWindow`, proved to be the only
  times).
- After a failed write the descriptor is closed and `fd` stays set; the loop never
  reports the end of that socket, and a later send or close may reach another
  connection that got the number. `ClientSocket` separates the bytes that went there;
  `SocketLib` has the state "failed".
- `socket.lua` stores a connection under `addr..port` and looks for it under
  `addr..":"..port`: the old connection is never found.
- `close` frees the C socket, and `__gc` of the same object frees it again; a
  `disconnect` inside the socket's own callback frees what the C code still uses, and so
  does a send there that fails. These calls are `misuse` in `SocketLib`; `MemorySafe` says
  that they are the only ways.
- `sendbuffer` passes a light userdata to `sendstring` and sends nothing: answers of
  the server's script never leave it.
- The client's program removes the size and the id before `prot:unpack`, which skips
  both again; since no answer is sent, this is never reached.
- In a typed line runs of spaces inside a string become one. A list with a hole may be
  cut short or read askew (`#` and `ipairs` disagree); `RoundTrip` leaves such lists
  out. `kk` in `initprot` is a global that is always nil. `BUFFER_MAX_LEN` is compared
  with each write, not with their sum.
- The end of the keyboard's input, or a full ring, exits the process with lines still
  queued (`LineTaken` allows it). The last character of a line is cut off whether or
  not it is a newline.
- A `hash_remove` from an empty bucket follows a NULL pointer.
- `lsendbuffer` does not free its packet when `block_send` raises an error; an error of
  the Lua loop leaves its message on the stack of `server-src/main.c`.
- A label between two `local` statements without values: `luaK_nil` (`lcode.c:40`) merges
  the second with the first, and a goto to the label skips the result. The programs of
  the run have no label there.

### Why the bounds are enough

Two slots and three sockets give a full table, a refused accept, a collision in the
slot order, and a slot that is taken again. The values of a byte (`HalfByte`) are scaled
down, so that small ids fall on both sides of the sign; `Gateway` is proved for every
value. Three frames (a handshake and two packets), up to two in one DATA, give a backlog,
its later delivery, by another frame or by a piece that completes none, and an order to
keep; a piece changes nothing else, so one queued at a time (`MaxPieces`) is enough. In that
instance the server may be either peer and the other one refused, a client may sit in slot 0
or have an id that is not read back, so that both exceptions of `NoticeSound` occur. Five ids, four in one bucket and two of them
with the same first slot, give chains of four with removals at each place. Three messages
cannot show more of the ring than a first and a wrapped expansion do, and it is proved for
every size. Three write buffers give a head, a middle and a tail. A ring of three lines
wraps and overflows within four. Three socket objects on two descriptors give a number
that is reused while the old entry is there, and a traversal that loses, gains and keeps
an entry. Five keys fill tables of 4 and 8 nodes and an array part of 4, with
chains from which a key was moved aside. Three objects give a chain of references that crosses all colours; which
types they have is chosen so that every pair of mechanisms meets (upvalue and thread, weak
table and finalizer, weak table in weak table, strings in one bucket). In the compiler's
instance a constant index above 1 does not fit an operand and a constructor is flushed
after two items, so that the long forms appear in short programs.

### Fairness

- `Gateway`: the thread keeps running (`Dispatch`, `Sleep`); a poll that reported
  "more" finds the rest (`loop = "more" /\ Poll`); the socket server makes the
  reports that depend on nobody else (`PollOwed`: a started socket opens, a
  requested close is carried out). That is strong fairness: polls alternate with
  dispatches, and peers may send pieces for ever, so that `PollOwed` is possible again and
  again but not always; a socket server that is polled over and over carries out the
  command in the end. No peer has to do anything.
- `MCClients`: both threads of the console client are scheduled; the lock is a spin
  lock, which a waiting thread gets if it is free again and again (strong fairness; the
  holder sleeps or waits for the keyboard between two holds). Nobody has to type. What the
  gateway sent arrives (strong fairness of `Recv`, which other rounds may find blocked).
  `main_loop` calls the server's socket for ever (weak fairness of `Loop`); a gateway
  that reads lets `write` take something again and again (strong fairness of
  `FlushWrites`, since `FlushBlocks` may come in between any number of times).
- `LuaGC`: the collector's step comes again and again (`SingleStep`) and a waiting
  finalizer is called when the program runs: the program goes on allocating, which is what
  drives `luaC_step`, and `luaC_forcestep` calls finalizers after the step, at a pause all of
  them (`lgc.c:1169`); `luaC_fullgc` calls them, too, except in an emergency, which is part
  of an allocation. While `luaC_fullgc` is at work (`full > 0`) the program stands still, and
  it may call it again and again, so this is strong fairness (`full = 0 /\ Finalize`). The
  program itself has to do nothing in particular; it goes on after a full collection.

## What is proved

TLAPS checks the following for every value of the constants, under the `ASSUME`s
of the modules: at least one slot; ids are positive and the listening socket's is not
among them; what peers may send are frames; rings, buckets and pools have at least the
cells that the code gives them; the bodies that the console client receives have 2 to
65535 bytes, which is what two bytes of size can say and what `client.lua` can parse;
nil is no socket and no number; the collector's objects are finitely many. `PROJECT.json`,
"theorems", lists the results with the properties that they state.

`SeqLemmas` has what the proofs share. Where data are unbounded, induction is needed,
and the induction theorems of the library take a predicate as a parameter, which the
provers cannot instantiate. `LeastNat` gets a least element of a *set* of numbers out of
the well-foundedness of `<`, and `Induction` follows for a set; the facts about
`FlattenSeq` (a recursive definition of SequencesExt) and about walks of a list are proved
with that: the set in question is that of the numbers for which the statement holds.

**The message queue** (`MessageQueueProofs`). The invariant is `TypeOK /\ NoGarbage`: the
indices are in the ring and the cells from `head` up to `tail`, around the ring, were
pushed. Lemma `Wrap` computes `%` for an index that wraps at most once, `Cells` says where
the i-th oldest message is; from these each operation is shown to do to `Content` what
`Fifo` does to its sequence (the expansion moves cell `(head + i) % cap` to cell `i`).
`RingIsFifo` is the refinement, `IndicesStayInRing` the type part.

**The gateway** (`GatewayProofs`). No safety property of the gateway is inductive alone.
That a DATA message finds its connection (`NoOrphans`) needs that a socket's end is
reported last and once, that a started socket stays in the table until that report is
dispatched, and that no socket is accepted twice. `IndInv` collects this: `SocketInv`
relates the queue to the life of each socket (`QueuedAccepts`, `QueuedEnds`,
`TableStarted`, `StartedInTable`, `AcceptedPending`, `NoLeakedSlot`), `TableMatchesConn`
relates the two tables, `ServerKnown`, `RefusedServersClosing` and `AbortWindow` say what
`sid` means. The proof has a lemma per kind of step (a poll, an accept, an end, a handler
of a frame), one step per disjunct of `Handle`, and ends in `Induction`: `Spec =>
[]IndInv`, from which follow

- `TypeCorrect`, `TablesAgree`, `ServerIsConnected`, `OneServer`,
  `EveryMessageHasItsConnection`, `NothingLeaks`, `AbortOnlyInWindow`;
- the action properties `SlotsAreStable` and `NoticesAreSound`;
- `RelaysAreAddressed`, which also needs arithmetic about `read_block`: a word read
  back as a positive number is read back as it is (`PositiveWord`).

`SendersInOrder` does not follow from `IndInv`. Its invariant `OrderInv` says of the frames
of one sender, which are numbered as they arrive: those handed on come before those in
the connection's buffer (`BuffersWait`), those before the ones in the queue (`QueueWaits`,
`BufferFirst`), and the queue has them in order (`QueueOrder`). The socket server's
behaviour in these proofs is what module `SocketServer` states.

**The containers** (`ContainersProofs`, about the specification of `MCContainers`). A
linked list is a function `c` from numbers to nodes and a length `n` (`Linked`): node `i`
links to node `i + 1`, the first `n` are different and are all there are, the rest is nil.
`LinkedPush` and `LinkedDrop` say that a node put in front, or taken out at any place, leaves
such a list; `LinkedFits` that it has no more nodes than exist, so that the bounded walks of
the models reach its end. `hashid.h` and `hashmap.h` both use them.

- *Id table.* `IdsInv`: each bucket's chain is a list of exactly the nodes of its bucket,
  free nodes are unlinked, an id is in one node, `count` is the number of nodes in use.
  `ChainsCorrect` is the invariant of the runs. `IdTableImplemented` is the refinement
  that the gateway relies on: `IdTable` sees one slot per id and no chain.
- *Hash map.* `MapInv` is the same of its chains. `ValuesAre` turns what `ValuesOf` reads off
  a chain into one text per node, put in a row, empty where the node is another key's. A
  node put in front puts a text in front; a node taken out takes out its text
  (`FlattenDrop`), and where it was the first match all texts before it are empty. So each
  step is a push, a pop or neither on the stack of each key, and the search finds the top
  (`StacksCorrect`).
- *Data buffer.* `StreamInv`: `size`, `offset` and the pool agree with the chunks, and some
  sequence of frames, encoded and put in a row, is the header that was read (if any) with the
  bytes in the chunks and on the wire after it; that sequence is what was sent less what
  was handled. Cutting a piece off the wire, reading across chunks, and reading a header
  are lemmas about bytes, `BuffersCorrect` the result.

**The clients** (`ClientsProofs`, `ClientSocketProofs`). `RingInv`: the lock is held by the
thread in its section, and a line is in the hands of the reader, in the ring between `head`
and `tail`, or taken; it gives `LinesCorrect`. `FramesInv`: frames shown, the text kept and the
bytes on the wire are the stream; `PacksInv`: what was sent and what `block_send` has still to
write are the commands of the lines taken; they give `StreamsCorrect`. `SocketInv` of the
client socket says where the thread may be while which structures exist, that a descriptor
whose number serves another connection never becomes the socket's own again, and that the
list's bytes are those sent less those written; it gives `WritesCorrect` and `EndCorrect`.
Each is proved of its own module first; the two programs are then put side by side.

**The socket library** (`ContainersProofs`, too). `SocketsInv`: an entry is kept only while no failed
socket, whose field `fd` keeps the number, shares it (`NumbersApart`); freeing a socket takes
its metatable away, so that nothing closes it again (`FreedHasNoMeta`); the socket of a
callback is open until the callback meddles with it (`CallbackOpen`); and no entry is ever
made under the name that `connect` looks up (`NothingNamed`, the `addr..":"..port` of
`socket.lua`). `MemoryStaysSafe`, `EntriesAreOwn` and `OpenSocketsFound` follow, for any number of
objects and descriptors.

**The collector** (`LuaGCProofs`). `GCInv`: the heap is typed and nothing refers to a free
address (`HeapTyped`); an object that is not dead refers to none that is (`LiveClosed`); what is
not white waits for the sweep or for its finalizer (`SweepWaits`); a black object refers to
no white one, not even in an empty entry (`BlackRefers`); weak tables, threads and open
upvalues are never black (`NeverBlack`); the two finalizer lists are disjoint and without
repetitions and say which finalizers were called (`FinalizersKept`). The step that needs most
is `atomic`, which marks, clears and separates in one go: what it leaves white is closed
under "refers to", so nothing that is kept refers to what will be swept. From `GCInv` follow
`NothingDangles`, `TriColourHolds`, `FinalizersCalledOnce` and `WeakTablesKeepReachable`. The
last states what the code keeps and not what its comment says: an entry of an ephemeron table
that reached the collector too late (`late`, the finding of run `ephemeron`) counts for
nothing. With three objects in the run nothing depends on such an entry; that the property
has to leave it out came up in the proof.

**Lua's tables** (`LuaTableProofs`). An instance has any number of keys and any hash, so every
collision that a real hash can make is one of them. The invariant of a table is `Good`:
typed; a value is at its own key; the nodes from `lastfree` on are in use (`FreeBelow`); and
the chains are as they should be. Following `next` from a node `x` leads to the nodes
`R[x]`, and no chain has a cycle (`Linked`); a key is in the chain of its main position, and
the node there belongs there (`Headed`); a key is twice in a chain only if the later node is
dead (`Single`), which happens when a cleared field is assigned again. The sets `R` are the
strengthening: `luaH_newkey` changes them in one of three ways (`Overwritten`, `LinkedIn`,
`MovedAside`, where the node in the way is moved and its predecessor linked to the new place),
and each keeps `Good`.

- *Lookup.* `TableInv` says that the table holds what the history says and nothing else;
  an assignment to a present field, a new key with room, and a new key with rehash keep it
  (`TablesAreRight`). `GetIs` computes what a lookup returns; `EntriesAreContents` that no
  value is in two places; hence `LookupsAreExact`.
- *Rehash.* `ComputeSizesIs`, `ResizeIs` and `RehashIs` count: what goes into the array fits
  there, the rest and the new key have a node each, so that no insertion of a rehash finds
  the table full (`RehashLeavesRoom`).
- *Border.* The search keeps a present (or zero) lower and an absent upper end and halves
  what is between (`BetweenIs`); beyond the array it doubles first (`UnboundIs`).
- *Traversal.* `TraversalInv` relates the key of the traversal to the entries it has passed.
  An assignment to a present field and a dead mark move no entry (`SameShape`, `SameIndex`),
  so the index of the key is found again and only grows: `TraversalsAreComplete`.

**table.sort** (`LuaTableProofs`, about `Sort` of `LuaSort`: any table, any set of pairs that
the order function may answer). Elements are only ever exchanged (`Reordered`: a permutation
that leaves everything outside the range alone), also under an order that is none:
`SortPermutes`. For a strict weak order the comment of `ltablib.c:215` is the invariant of the
partition, `GoingAt`: up to `i` nothing is above the pivot, from `j` on nothing is below. Then
both scans stop before they leave the range (`ScansAre`: the median of three put the
sentinels there), each exchange brings `i` and `j` nearer by one, so that the loop ends
(`PartitionIs`), and the pivot's place splits the range (`SplitIs`). `SortInv` is the
invariant of the calls: the ranges that are left do not meet, and two elements are in order
unless one range holds them both. With no range left that is `SortsRight`.

Of the gateway's theorems, `TypeCorrect`, `TablesAgree`, `ServerIsConnected`, `OneServer` and
`AbortOnlyInWindow` state parts of the invariant that no run lists; they, `Induction`,
`CollectorInvariant`, `TablesAreRight`, `SortPermutes` and `IndicesStayInRing` hold for every
instance and need none. All other
results are also checked by a run.

**Only model-checked:**

- liveness and `ENABLED`, which are out of the prover's reach;
- `GsubExact` and `RoundTrip`, and the properties of the compiler and the virtual machine:
  recursive descent is written there with `RECURSIVE` operators, without which it would not
  be readable, and what they compute would need an induction over data.

## What is not modelled, and why

- `gate_release`, `gate_mq_release` from `main`, and the exit of `gate_loop`: nothing
  calls `gate_socket_exit`, so the code after the loop is never reached.
  (`MessageQueue` has the release itself. It leaves the ring's array allocated:
  the `FREE` is commented out.)
- The branches for packets of 16 MB and more: the size field has two bytes.
- `Gateway` keeps whole frames: a DATA message may complete several, one or none, but what
  the bytes of an unfinished one are is not in the model. After `databuffer_clear` the rest
  of a partly received frame is parsed as a header until the close arrives; what then passes
  for a frame is among `FramesOf`, which may be any set. The notice's missing bytes are not
  in the model.
- A socket id is used once in `Gateway`; the real socket server may use a number again
  long after its socket is gone.
- `lua_dispatch` of a debug client's packet, logging, `remote_name`, failed memory
  allocation.
- In `ClientSocket` a connect fails or succeeds as a whole: which address of the list
  answers is not told apart, and after a failure, which raises a Lua error, no caller has
  the struct. The growth of the read size is abstracted.
- `lproto_c`, whose submodule is empty: a message is a sequence of cells, and reading a
  cell of the other type or beyond the end fails.
- Of Lua: the scanner, precedence and syntax errors; in the virtual machine division, powers,
  `OP_LOADKX`, strings used as numbers and coroutines
  (the collector has threads); hooks; metamethods other than `__index`, `__newindex` and
  `__gc`, the only ones the scripts set; growth of the Lua stack; line information; the
  widths of operands; the generational mode and the pacing of the collector, which is
  nondeterministic here; float keys; library functions that the scripts do not call;
  `lua.c`, `loadlib.c`, `lundump.c`, number formatting. They are input, output or
  arithmetic on strings with no state that outlives a call.
- `lua-md5`, the gateway's script (three constants), the Makefiles.

## Plan

1. *(done)* The containers, the gateway with properties and proofs, the byte streams,
   the programs at both ends, the message encoding, the socket library, and the parts of
   Lua that they run on.
2. *(done)* Proofs of the containers, of both clients, of the socket library, of the
   collector, of Lua's tables and of `table.sort`; the order of the messages through the
   gateway.
3. Model: a label between `local` statements as a finding of the compiler; the byte-level
   composition of `Framing` with a connection that is being closed.
