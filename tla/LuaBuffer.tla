------------------------------ MODULE LuaBuffer ------------------------------
(***************************************************************************)
(* luaL_Buffer (lauxlib.c), in which gsub and table.concat collect their   *)
(* result.  A buffer starts as an array of its C function.  When that is   *)
(* too small the buffer moves to a box, a userdata that has to lie at the  *)
(* top of the Lua stack for as long as the buffer is in use: what is       *)
(* added from the stack must go below it and come out again.  Then the two *)
(* functions of ltablib.c that the scripts build lists and texts with.     *)
(***************************************************************************)
EXTENDS Integers, Sequences

CONSTANT BufferSize   \* LUAL_BUFFERSIZE

ASSUME LuaBufferAssumption == BufferSize \in Nat \ {0}

\* box is the box that B->b points to, 0 for the array (initb); stack is the
\* part of the Lua stack above the arguments: texts, and <<"box", id>>; err tells
\* that an error was raised while the buffer was in use.
BuffInit == [text |-> <<>>, size |-> BufferSize, box |-> 0, stack |-> <<>>, err |-> FALSE]

BuffOnStack(b) == b.box # 0

Top(b) == b.stack[Len(b.stack)]
Push(b, v) == [b EXCEPT !.stack = Append(@, v)]

\* lua_remove(L, -n) and lua_insert(L, -2).
RemoveFromTop(b, n) ==
    [b EXCEPT !.stack = SubSeq(@, 1, Len(@) - n) \o SubSeq(@, Len(@) - n + 2, Len(@))]
InsertBelowTop(b) ==
    [b EXCEPT !.stack = SubSeq(@, 1, Len(@) - 2) \o <<@[Len(@)], @[Len(@) - 1]>>]

\* luaL_prepbuffsize: room for sz more characters, in a new box if need be.
PrepBuffSize(b, sz) ==
    LET used == Len(b.text)
        newsize == IF 2 * b.size - used < sz THEN used + sz ELSE 2 * b.size
        moved == [Push(b, <<"box", b.box + 1>>) EXCEPT !.size = newsize, !.box = @ + 1]
    IN  IF b.size - used >= sz THEN b
        ELSE IF BuffOnStack(b) THEN RemoveFromTop(moved, 2) ELSE moved

\* luaL_addlstring and luaL_addchar.
AddText(b, s) == [PrepBuffSize(b, Len(s)) EXCEPT !.text = @ \o s]

\* luaL_addvalue: the text at the top goes to the buffer.
AddValue(b) ==
    LET s == Top(b)
        added == AddText(IF BuffOnStack(b) THEN InsertBelowTop(b) ELSE b, s)
    IN  RemoveFromTop(added, IF BuffOnStack(added) THEN 2 ELSE 1)

\* luaL_pushresult
PushResult(b) == IF BuffOnStack(b) THEN RemoveFromTop(Push(b, b.text), 2) ELSE Push(b, b.text)

\* The buffer's box, and nothing else, is on the stack.
InUse(b) == /\ b.stack = (IF BuffOnStack(b) THEN <<<<"box", b.box>>>> ELSE <<>>)
            /\ Len(b.text) <= b.size

-----------------------------------------------------------------------------
(* ltablib.c *)

\* table.insert(t, v) for a list without holes.
TInsert(t, v) == [n \in 1 .. Len(t) + 1 |-> IF n = Len(t) + 1 THEN v ELSE t[n]]

\* addfield
AddField(b, t, i) == IF i \in DOMAIN t THEN AddValue(Push(b, t[i])) ELSE [b EXCEPT !.err = TRUE]

\* table.concat(t, sep, i): the loop of tconcat, and the text that it returns.
RECURSIVE AddFields(_, _, _, _)
AddFields(b, t, sep, i) ==
    CASE i < Len(t) -> AddFields(AddText(AddField(b, t, i), sep), t, sep, i + 1)
      [] i = Len(t) -> AddField(b, t, i)
      [] i > Len(t) -> b
TConcat(t, sep, i) == PushResult(AddFields(BuffInit, t, sep, i))
=============================================================================
