--------------------------- MODULE ConsoleClient ----------------------------
(***************************************************************************)
(* bin.client/client.lua: the console client's program, over the C half of *)
(* lua-clientsocket.c.  One thread takes every frame that the gateway sent *)
(* out of a text that it keeps by itself (unpack_package, recv_package),   *)
(* then looks for one line from the keyboard (module StdinQueue), packs it *)
(* and spins in block_send until all of it is written.                     *)
(***************************************************************************)
EXTENDS StdinQueue

CONSTANTS Bodies,      \* bound: the bodies of the frames that the gateway sends
          CacheSize,   \* CACHE_SIZE of lrecv
          PackSize     \* bound: bytes of a packed command

ASSUME ConsoleClientAssumption ==
    /\ Bodies \in Seq({body \in Seq(0 .. 255) : Len(body) \in 2 .. 256 * 256 - 1})
    /\ CacheSize \in Nat \ {0} /\ PackSize \in Nat

VARIABLES at,      \* where the program is: connect, or in the loop recv, read, stdin or send
          last,    \* the text kept between two rounds
          wire,    \* bytes that the kernel has not given to recv yet
          peer,    \* the gateway's end: up or closed
          shown,   \* history: the bodies unpacked
          unsent,  \* bytes of the command that block_send has still to write
          out      \* history: <<line, byte>> as send() took them

cvars == <<at, last, wire, peer, shown, unsent, out>>
allvars == <<vars, cvars>>

Frame(body) == <<Len(body) \div 256, Len(body) % 256>> \o body
Stream == FlattenSeq([i \in 1 .. Len(Bodies) |-> Frame(Bodies[i])])

ClientInit ==
    /\ Init
    /\ at = "connect" /\ last = <<>> /\ wire = Stream /\ peer = "up" /\ shown = <<>>
    /\ unsent = 0 /\ out = <<>>

-----------------------------------------------------------------------------

\* lconnect.  The thread of the keyboard runs already.
Connects ==
    /\ alive /\ at = "connect"
    /\ at' = "recv"
    /\ UNCHANGED <<vars, last, wire, peer, shown, unsent, out>>

\* Its error, or that of the handshake which follows, ends the program.
ConnectFails ==
    /\ alive /\ at = "connect"
    /\ alive' = FALSE
    /\ UNCHANGED <<rpc, mpc, lock, ring, input, got, cvars>>

\* Mutant: a frame is whole when the next one has begun.
WholeLate(text) == Len(text) >= 2 /\ Len(text) > text[1] * 256 + text[2] + 2

\* unpack_package finds a whole frame.
Whole(text) == Len(text) >= 2 /\ Len(text) >= text[1] * 256 + text[2] + 2

Size(text) == text[1] * 256 + text[2]

\* Mutant: the header's own two bytes are forgotten.
RestOfBody(text) == SubSeq(text, 1 + Size(text), Len(text))

\* What follows the frame.
Rest(text) == SubSeq(text, 3 + Size(text), Len(text))

\* Its two results, for the loop: a frame is shown and the loop comes again, or
\* it breaks and looks at the keyboard.
Unpacked(text) ==
    IF Whole(text)
    THEN /\ shown' = Append(shown, SubSeq(text, 3, 2 + Size(text)))
         /\ last' = Rest(text)
         /\ at' = "recv"
    ELSE last' = text /\ at' = "stdin" /\ UNCHANGED shown

\* recv_package with a frame in what was kept.
TakeKept ==
    /\ alive /\ at = "recv" /\ Whole(last)
    /\ Unpacked(last)
    /\ UNCHANGED <<vars, wire, peer, unsent, out>>

\* prot:unpack fails on a frame, and the program ends.
FrameFails ==
    /\ alive /\ at = "recv" /\ shown # <<>>
    /\ alive' = FALSE
    /\ UNCHANGED <<rpc, mpc, lock, ring, input, got, cvars>>

\* It has to read.
NeedMore ==
    /\ alive /\ at = "recv" /\ ~ Whole(last)
    /\ at' = "read"
    /\ UNCHANGED <<vars, last, wire, peer, shown, unsent, out>>

\* lrecv returns a chunk, as much as the kernel has or less.
Recv ==
    /\ alive /\ at = "read"
    /\ \E k \in 1 .. CacheSize :
          /\ k <= Len(wire)
          /\ Unpacked(last \o SubSeq(wire, 1, k))
          /\ wire' = SubSeq(wire, k + 1, Len(wire))
    /\ UNCHANGED <<vars, peer, unsent, out>>

\* EAGAIN: the loop goes to the keyboard.  What is on its way may come later.
RecvBlocks ==
    /\ alive /\ at = "read" /\ (wire # <<>> \/ peer = "up")
    /\ at' = "stdin"
    /\ UNCHANGED <<vars, last, wire, peer, shown, unsent, out>>

\* "Server closed", and the error of recv: the program ends.
RecvEnds ==
    /\ alive /\ at = "read" /\ peer = "closed"
    /\ alive' = FALSE
    /\ UNCHANGED <<rpc, mpc, lock, ring, input, got, cvars>>

GatewayCloses ==
    /\ alive /\ at # "connect" /\ peer = "up"
    /\ peer' = "closed"
    /\ UNCHANGED <<vars, at, last, wire, shown, unsent, out>>

-----------------------------------------------------------------------------
(* socket.readstdin, prot:pack and socket.sendbuffer. *)

StdinLocks == at = "stdin" /\ MainLocks /\ UNCHANGED cvars

NoCommand == MainFindsNothing /\ at' = "recv" /\ UNCHANGED <<last, wire, peer, shown, unsent, out>>

\* The command packs, or an error of the program ends it.
TakesCommand ==
    /\ MainTakes
    /\ at' = "send" /\ unsent' = PackSize
    /\ UNCHANGED <<last, wire, peer, shown, out>>

CommandFails ==
    /\ alive /\ at = "send" /\ (unsent = PackSize \/ peer = "closed")
    /\ alive' = FALSE
    /\ UNCHANGED <<rpc, mpc, lock, ring, input, got, cvars>>

\* A round of block_send in which send() takes something.
Sends ==
    /\ alive /\ at = "send" /\ unsent > 0
    /\ \E k \in 1 .. unsent :
          /\ out' = out \o [j \in 1 .. k |-> <<Len(got), PackSize - unsent + j>>]
          /\ unsent' = unsent - k
    /\ UNCHANGED <<vars, at, last, wire, peer, shown>>

SendDone ==
    /\ alive /\ at = "send" /\ unsent = 0
    /\ at' = "recv"
    /\ UNCHANGED <<vars, last, wire, peer, shown, unsent, out>>

Receiving == Connects \/ ConnectFails \/ TakeKept \/ NeedMore \/ Recv \/ RecvBlocks \/ RecvEnds
Commanding == NoCommand \/ TakesCommand \/ CommandFails \/ Sends \/ SendDone

ClientNext ==
    (Reader /\ UNCHANGED cvars) \/ Receiving \/ FrameFails \/ GatewayCloses \/ StdinLocks \/ Commanding

ClientSpec == ClientInit /\ [][ClientNext]_allvars

-----------------------------------------------------------------------------

\* However recv cuts the stream, and whatever the keyboard does in between: the
\* bodies come out whole and in order, and no byte is lost or taken twice
\* (client.lua:66-92).
FramesExact ==
    FlattenSeq([i \in 1 .. Len(shown) |-> Frame(shown[i])]) \o last \o wire = Stream

\* The commands go out in the order typed, each whole before the next
\* (lua-clientsocket.c:55-66).
PacksInOrder ==
    out = SubSeq(FlattenSeq([i \in 1 .. Len(got) |-> [j \in 1 .. PackSize |-> <<i, j>>]]),
                 1, Len(got) * PackSize - unsent)

\* Every frame is shown, unless the process ends.
FrameShown == <>(shown = Bodies \/ ~ alive)
=============================================================================
