---------------------------- MODULE MessageQueue ----------------------------
(***************************************************************************)
(* The growing ring of gateway-src/gate_mq.c, and of its line-by-line twin *)
(* common-src/socket_mq.c.  head and tail wrap at cap, equal indices mean  *)
(* "empty", and a push that makes them equal doubles the ring at once, so  *)
(* that a full ring is never mistaken for an empty one.                    *)
(*                                                                         *)
(* Every call runs under the queue's spin lock from its first to its last  *)
(* access, so a call is one action.                                        *)
(***************************************************************************)
EXTENDS Integers, Sequences

CONSTANTS Msg,         \* the messages
          NoMsg,       \* content of a cell or of a struct nobody wrote yet
          InitCap,     \* DEFAULT_QUEUE_SIZE
          MaxCap       \* bound: no push that would expand the ring beyond it

ASSUME NoMsgAssumption == NoMsg \notin Msg
ASSUME CapAssumption == InitCap \in Nat \ {0} /\ MaxCap \in Nat

VARIABLES cap, head, tail,   \* the fields of struct message_queue
          queue,             \* q->queue: the cells, indexed from 0
          out,               \* *message: what the last successful pop stored
          live               \* FALSE once the queue was released

vars == <<cap, head, tail, queue, out, live>>

-----------------------------------------------------------------------------

Init ==
    /\ cap = InitCap
    /\ head = 0
    /\ tail = 0
    /\ queue = [i \in 0 .. InitCap - 1 |-> NoMsg]
    /\ out = NoMsg
    /\ live = TRUE

\* gate_mq_length: the number of messages between head and tail.
Length == IF head <= tail THEN tail - head ELSE tail + cap - head

\* An index after ++, wrapped as push and pop wrap it.
Advance(i) == IF i + 1 >= cap THEN 0 ELSE i + 1

\* Mutant of Expanded: the cells are copied where they are.
ExpandedInPlace(cells) == [i \in 0 .. 2 * cap - 1 |-> IF i < cap THEN cells[i] ELSE NoMsg]

\* expand_queue of the ring whose cells are cells: the oldest message moves
\* to cell 0 and the rest follow; the upper half is fresh memory.
Expanded(cells) ==
    [i \in 0 .. 2 * cap - 1 |->
        IF i < cap THEN cells[(head + i) % cap] ELSE NoMsg]

Push(m) ==
    LET cells == [queue EXCEPT ![tail] = m]
        next  == Advance(tail)
    IN  /\ live
        /\ \/ /\ next # head
              /\ queue' = cells
              /\ tail' = next
              /\ UNCHANGED <<cap, head>>
           \/ /\ next = head
              /\ 2 * cap <= MaxCap
              /\ queue' = Expanded(cells)
              /\ head' = 0
              /\ tail' = cap
              /\ cap' = 2 * cap
        /\ UNCHANGED <<out, live>>

\* Mutant of Pop: emptiness is not checked.
PopUnchecked ==
    /\ live
    /\ out' = queue[head]
    /\ head' = Advance(head)
    /\ UNCHANGED <<cap, tail, queue, live>>

\* A pop of an empty queue returns 1 and touches nothing: no step.
Pop ==
    /\ live
    /\ head # tail
    /\ out' = queue[head]
    /\ head' = Advance(head)
    /\ UNCHANGED <<cap, tail, queue, live>>

\* gate_mq_release: pop and free until the pop fails, then free the struct.
Release ==
    /\ live
    /\ head' = tail
    /\ live' = FALSE
    /\ UNCHANGED <<cap, tail, queue, out>>

Next == (\E m \in Msg : Push(m)) \/ Pop \/ Release

Spec == Init /\ [][Next]_vars

-----------------------------------------------------------------------------

\* The fields of the struct stay within the ring, and every cell between head
\* and tail holds a message (gate_mq.c:43-93).
TypeOK ==
    /\ cap \in Nat \ {0}
    /\ head \in 0 .. cap - 1
    /\ tail \in 0 .. cap - 1
    /\ queue \in [0 .. cap - 1 -> Msg \cup {NoMsg}]
    /\ out \in Msg \cup {NoMsg}
    /\ live \in BOOLEAN

\* The refinement mapping: the messages from head up to tail, around the ring.
Cell(i) == (head + i) % cap
Content == [i \in 1 .. Length |-> queue[Cell(i - 1)]]

F == INSTANCE Fifo WITH q <- Content

\* The ring implements the queue its callers rely on: whatever the sequence of
\* pushes, pops and expansions, messages come out once, in order, unchanged.
ImplementsFifo == F!Spec

\* No pop hands out a cell that nobody wrote: the cells between head and tail
\* are exactly the pushed ones, also right after an expansion.
NoGarbage == \A i \in 1 .. Length : Content[i] \in Msg
=============================================================================
