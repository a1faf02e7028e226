------------------------------ MODULE MCLibrary ------------------------------
(***************************************************************************)
(* What the Lua programs are built on: each behaviour is one of the        *)
(* strings, sorts and messages of MCLProto, or a table of ltable.c.        *)
(***************************************************************************)
EXTENDS MCLProto, LuaTable

VARIABLES part          \* "messages" or "tables"

allVars == <<part, lvars, vars>>

\* A hash that spreads the keys, and one under which a key that was moved aside
\* is in the way of the next.
AnObj == CHOOSE o \in Objs : TRUE
Spread == [k \in Hashed |-> IF k \notin Objs THEN k ELSE IF k = AnObj THEN 1 ELSE 3]
Crowded == [k \in Hashed |-> IF k = AnObj THEN 0 ELSE IF k = 2 THEN 1 ELSE 3]
SpreadOrCrowded == {Spread, Crowded}

\* The table that waits while messages are made.
Unchanging == t.hash = Spread /\ Len(t.array) = 0 /\ SizeNode(t) = 0

AllInit ==
    /\ Init
    /\ \/ part = "messages" /\ LibraryStarts /\ Unchanging
       \/ part = "tables" /\ Unused

AllNext ==
    \/ part = "messages" /\ MessageNext /\ UNCHANGED <<part, vars>>
    \/ part = "tables" /\ Next /\ UNCHANGED <<part, lvars>>

AllSpec == AllInit /\ [][AllNext]_allVars
=============================================================================
