----------------------------- MODULE DataBuffer -----------------------------
(***************************************************************************)
(* common-src/databuffer.h: the bytes received from a socket and not yet   *)
(* taken out.  The chunks stay as read() returned them, in a list whose    *)
(* nodes come from a pool; offset is how far the first one has been read,  *)
(* size counts the bytes left, header is the size field once it was read.  *)
(***************************************************************************)
EXTENDS Integers, SequencesExt, FiniteSetsExt

CONSTANTS Base,      \* the values of a byte: 256 in the code
          PoolSize   \* MESSAGEPOOL

DataBufferAssumption == Base \in Nat \ {0} /\ PoolSize \in Nat \ {0, 1}

\* A databuffer and a messagepool after memset.
NoData == [header |-> 0, offset |-> 0, size |-> 0, chunks |-> <<>>]
NoPool == [lists |-> 0, free |-> 0]

\* The bytes that can still be read.
Unread(db) == LET all == FlattenSeq(db.chunks) IN SubSeq(all, db.offset + 1, Len(all))

\* databuffer_push, and the node it takes from the pool.
Pushed(db, data) ==
    [db EXCEPT !.size = @ + Len(data), !.chunks = Append(@, data)]

NodeTaken(mp) ==
    IF mp.free > 0
    THEN [mp EXCEPT !.free = @ - 1]
    ELSE [lists |-> mp.lists + 1, free |-> PoolSize - 1]

\* databuffer_read of sz bytes: the chunks it reads to their end are dropped.
Emptied(db, sz) ==
    LET upTo(k) == Len(FlattenSeq(SubSeq(db.chunks, 1, k)))
    IN  Max({k \in 0 .. Len(db.chunks) : upTo(k) <= db.offset + sz})

AfterRead(db, sz) ==
    LET k == Emptied(db, sz)
    IN  [db EXCEPT !.size = @ - sz,
                   !.chunks = SubSeq(@, k + 1, Len(@)),
                   !.offset = @ + sz - Len(FlattenSeq(SubSeq(db.chunks, 1, k)))]

NodesReturned(mp, k) == [mp EXCEPT !.free = @ + k]

\* databuffer_readheader with two bytes: the buffer afterwards; its result is
\* the size field, or -1 as long as the header or the body is incomplete.
HeaderSize == 2

AfterHeader(db) ==
    IF db.header = 0 /\ db.size >= HeaderSize
    THEN [AfterRead(db, HeaderSize) EXCEPT
              !.header = Unread(db)[1] * Base + Unread(db)[2]]
    ELSE db

FrameSize(db) ==
    LET d == AfterHeader(db)
    IN  IF (db.header = 0 /\ db.size < HeaderSize) \/ d.size < d.header
        THEN -1 ELSE d.header

\* databuffer_reset.
Reset(db) == [db EXCEPT !.header = 0]
=============================================================================
