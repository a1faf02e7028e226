-------------------------------- MODULE Fifo --------------------------------
(***************************************************************************)
(* What a message queue of this code base promises its callers: messages   *)
(* leave it once each, unchanged and in the order in which they were       *)
(* pushed, whatever happens to the storage behind it.  gate_mq.c and       *)
(* socket_mq.c implement it with a growing ring (module MessageQueue).     *)
(***************************************************************************)
EXTENDS Sequences

CONSTANTS Msg,     \* the messages that may be pushed
          NoMsg    \* what the caller's struct holds before the first pop

VARIABLES q,       \* the messages in the queue, oldest first
          out      \* *message: what the last successful pop returned

vars == <<q, out>>

Init == q = <<>> /\ out = NoMsg

Push(m) == q' = Append(q, m) /\ UNCHANGED out

Pop == q # <<>> /\ out' = Head(q) /\ q' = Tail(q)

\* Deleting the queue drops whatever is still in it.
Release == q' = <<>> /\ UNCHANGED out

Next == (\E m \in Msg : Push(m)) \/ Pop \/ Release

Spec == Init /\ [][Next]_vars
=============================================================================
