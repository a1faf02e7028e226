----------------------------- MODULE StdinQueue -----------------------------
(***************************************************************************)
(* The console client's keyboard: lualib-src/lua-clientsocket.c starts a   *)
(* thread that reads lines from stdin (readline_stdin) and puts them into  *)
(* a ring of fixed size; the Lua program takes one line at a time          *)
(* (lreadstdin) and never waits for one.  The two threads share the ring   *)
(* under a spin lock.  exit(1) ends both.                                  *)
(***************************************************************************)
EXTENDS Integers, SequencesExt

CONSTANTS QueueSize,   \* QUEUE_SIZE
          MaxLines     \* bound: lines the user types

ASSUME StdinQueueAssumption == QueueSize \in Nat \ {0} /\ MaxLines \in Nat

VARIABLES rpc,     \* where readline_stdin is
          mpc,     \* where lreadstdin is
          lock,    \* who holds q->lock
          head, tail, queue,
          str,     \* the line in the hands of readline_stdin
          eof,     \* feof(stdin)
          alive,   \* FALSE after exit(1)
          typed,   \* history: the lines fgets returned, as they are passed on
          got      \* history: the lines lreadstdin returned

vars == <<rpc, mpc, lock, head, tail, queue, str, eof, alive, typed, got>>

\* struct queue, but for its lock.
ring == <<head, tail, queue>>
input == <<str, eof, typed>>

NoLine == [n |-> 0, whole |-> FALSE]

Init ==
    /\ rpc = "fgets" /\ mpc = "out" /\ lock = "nobody"
    /\ head = 0 /\ tail = 0
    /\ queue = [i \in 0 .. QueueSize - 1 |-> NoLine]
    /\ str = NoLine
    /\ eof = FALSE /\ alive = TRUE
    /\ typed = <<>> /\ got = <<>>

\* An index after ++, wrapped.
Advance(i) == IF i + 1 >= QueueSize THEN 0 ELSE i + 1

-----------------------------------------------------------------------------
(* readline_stdin. *)

\* fgets returns a line.  Its last character is cut off: the newline, or the
\* last character of a piece of a line that is too long for the buffer or ends
\* with the input.
ReadLine ==
    /\ alive /\ rpc = "fgets" /\ ~ eof
    /\ Len(typed) < MaxLines
    /\ \E newline \in BOOLEAN :
          /\ str' = [n |-> Len(typed) + 1, whole |-> newline]
          /\ eof' \in IF newline THEN {FALSE} ELSE BOOLEAN
    /\ typed' = Append(typed, str')
    /\ rpc' = "lock"
    /\ UNCHANGED <<mpc, lock, ring, alive, got>>

\* fgets finds the end of the input: exit(1).
ReadFails ==
    /\ alive /\ rpc = "fgets" /\ ~ eof
    /\ alive' = FALSE
    /\ UNCHANGED <<rpc, mpc, lock, ring, input, got>>

ReaderLocks ==
    /\ alive /\ rpc = "lock" /\ lock = "nobody"
    /\ lock' = "reader"
    /\ rpc' = "store"
    /\ UNCHANGED <<mpc, ring, input, alive, got>>

ReaderStores ==
    /\ alive /\ rpc = "store"
    /\ queue' = [queue EXCEPT ![tail] = str]
    /\ tail' = Advance(tail)
    /\ rpc' = "check"
    /\ UNCHANGED <<mpc, lock, head, input, alive, got>>

\* "queue overflow": exit(1) while the lock is held.
ReaderOverflows ==
    /\ alive /\ rpc = "check" /\ head = tail
    /\ alive' = FALSE
    /\ UNCHANGED <<rpc, mpc, lock, ring, input, got>>

\* Mutants of ReaderUnlocks: overflow is not noticed; the lock is kept by a
\* thread that ends.
ReaderUnlocksFull ==
    /\ alive /\ rpc = "check"
    /\ lock' = "nobody"
    /\ rpc' = IF eof THEN "ended" ELSE "fgets"
    /\ UNCHANGED <<mpc, ring, input, alive, got>>

ReaderEndsLocked ==
    /\ alive /\ rpc = "check" /\ head # tail
    /\ lock' = IF eof THEN lock ELSE "nobody"
    /\ rpc' = IF eof THEN "ended" ELSE "fgets"
    /\ UNCHANGED <<mpc, ring, input, alive, got>>

\* The thread ends after a last line without a newline.
ReaderUnlocks ==
    /\ alive /\ rpc = "check" /\ head # tail
    /\ lock' = "nobody"
    /\ rpc' = IF eof THEN "ended" ELSE "fgets"
    /\ UNCHANGED <<mpc, ring, input, alive, got>>

-----------------------------------------------------------------------------
(* lreadstdin. *)

MainLocks ==
    /\ alive /\ mpc = "out" /\ lock = "nobody"
    /\ lock' = "main"
    /\ mpc' = "in"
    /\ UNCHANGED <<rpc, ring, input, alive, got>>

MainFindsNothing ==
    /\ alive /\ mpc = "in" /\ head = tail
    /\ lock' = "nobody"
    /\ mpc' = "out"
    /\ UNCHANGED <<rpc, ring, input, alive, got>>

MainTakes ==
    /\ alive /\ mpc = "in" /\ head # tail
    /\ got' = Append(got, queue[head])
    /\ head' = Advance(head)
    /\ lock' = "nobody"
    /\ mpc' = "out"
    /\ UNCHANGED <<rpc, tail, queue, input, alive>>

Reader == ReadLine \/ ReadFails \/ ReaderLocks \/ ReaderStores \/ ReaderOverflows \/ ReaderUnlocks
Main == MainLocks \/ MainFindsNothing \/ MainTakes

Next == Reader \/ Main

Spec == Init /\ [][Next]_vars

-----------------------------------------------------------------------------

\* The lines between head and tail.
Waiting ==
    LET n == IF head <= tail THEN tail - head ELSE tail + QueueSize - head
    IN  [i \in 1 .. n |-> queue[(head + i - 1) % QueueSize]]

InHand == IF rpc \in {"lock", "store"} THEN <<str>> ELSE <<>>

\* Whatever the interleaving and however often the ring wraps: every line is
\* in one place, in the order typed, as long as the ring did not overflow; and
\* an overflow is always noticed before a line is overwritten.
LinesInOrder ==
    IF rpc = "check" /\ head = tail THEN IsPrefix(got, typed)
    ELSE got \o Waiting \o InHand = typed

\* A line reaches the Lua program unless the process exits.
LineTaken ==
    \A n \in 1 .. MaxLines : (Len(typed) >= n) ~> (Len(got) >= n \/ ~ alive)
=============================================================================
