------------------------------ MODULE MCClients ------------------------------
(***************************************************************************)
(* The two programs at the other ends of the gateway's connections, for    *)
(* TLC: each behaviour is one of the console client (which this module     *)
(* extends) or of the logic server's socket.                               *)
(***************************************************************************)
EXTENDS ConsoleClient

CONSTANTS Sizes, MaxSends, MaxRecv, MaxChunk     \* of ClientSocket

VARIABLES program,                               \* "console" or "server"
          pc, fd, file, q, wb, wbTail, wbSize,   \* of ClientSocket
          queued, backlog, other, nsent, nrecv, accepted, written, ret, ends

socketVars == <<pc, fd, file, q, wb, wbTail, wbSize, queued, backlog, other, nsent,
                nrecv, accepted, written, ret, ends>>
bothVars == <<program, allvars, socketVars>>

\* Frames of two lengths, the shortest that have the sender's id.
TheBodies == <<<<7, 8>>, <<0, 9, 1>>>>

S == INSTANCE ClientSocket WITH tail <- wbTail, peer <- other

ASSUME ClientsAssumption == S!ClientSocketAssumption

BothInit == program \in {"console", "server"} /\ ClientInit /\ S!Init

InConsole == program = "console" /\ UNCHANGED <<program, socketVars>>
InServer == program = "server" /\ UNCHANGED <<program, allvars>>

BothNext == (InConsole /\ ClientNext) \/ (InServer /\ S!Next)

(***************************************************************************)
(* Both threads of the console run, and nobody makes the user type; a      *)
(* thread that waits for the lock gets it when the other leaves it free    *)
(* again and again; what the gateway sent arrives, and the gateway reads.  *)
(* The server's main_loop never stops calling the socket's loop, and a     *)
(* gateway that reads lets write() take something again and again.         *)
(***************************************************************************)
Fairness ==
    /\ WF_bothVars(InConsole /\ (ReaderStores \/ ReaderOverflows \/ ReaderUnlocks) /\ UNCHANGED cvars)
    /\ SF_bothVars(InConsole /\ ReaderLocks /\ UNCHANGED cvars)
    /\ SF_bothVars(InConsole /\ StdinLocks)
    /\ WF_bothVars(InConsole /\ (Receiving \/ Commanding))
    /\ SF_bothVars(InConsole /\ Recv)
    /\ WF_bothVars(InServer /\ S!Loop)
    /\ SF_bothVars(InServer /\ S!FlushWrites)

FairSpec == BothInit /\ [][BothNext]_bothVars /\ Fairness

-----------------------------------------------------------------------------

\* However recv and send cut the two streams of the console client, and whatever
\* the keyboard does in between: frames come out whole and in order, commands go
\* out whole and in order, no byte is lost or sent twice (client.lua:66-92,
\* block_send).
StreamsExact == FramesExact /\ PacksInOrder

\* Every frame that the gateway sent is shown, unless the process ends.
FrameIsShown == program = "console" => FrameShown

\* However write() cuts the buffers of the server's socket and blocks: the gateway
\* gets the bytes in the order of the socket_send calls, each once; wb_size and
\* tail, kept by hand, agree with the list (client_socket.c:140-224).
WriteListExact == S!WriteListExact

\* The disconnect callback comes at most once, last, and only for a connection
\* whose structures are released (socket_msgdispatch).
EndReportedOnce == S!EndReportedOnce

\* When the gateway is gone the socket finds out and lets go of its descriptor
\* and its buffers, by whichever of its three calls to write and read.
LossNoticed == S!LossNoticed
=============================================================================
