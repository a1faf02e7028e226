-------------------------------- MODULE LProto --------------------------------
(***************************************************************************)
(* lualib/lproto.lua: what a user types at the console becomes a message,  *)
(* and the message a table again at the other end.                         *)
(*                                                                         *)
(* Both ends sort the fields of the templates when they start              *)
(* (lproto.initprot over table.sort).  The client splits the line, packs   *)
(* the table and sends it; the gateway writes its id of the client into    *)
(* the message; the server unpacks it.  A value is <<type, datum>>; a      *)
(* table is a function from the fields or positions that are there.        *)
(* lproto_c is external: a message is a sequence of cells, and to read a   *)
(* cell of the other type, or beyond the end, fails.  The answer of the    *)
(* server is packed in the same way and then not sent (SocketLib).         *)
(***************************************************************************)
EXTENDS LuaString, LuaSort, FiniteSets
LOCAL INSTANCE SequencesExt

CONSTANTS Template,    \* protDict[protId]: the fields with their defaults, or the
                       \* template of the items of a list
          FieldOrder,  \* the order "<" of the names, as pairs
          ClientId,    \* the gateway's id of the client
          Arguments,   \* bound: the tables that prot:pack is called with
          Lines        \* bound: what the user types

VARIABLES at,          \* sorting, typed, packing, sent, relayed, shown, failed, or lib
          sorts,       \* the sorts that initprot has still to do
          keysort,     \* _keysort of both ends: <<end, list or "">> to field names
          args,        \* the words of the line
          chunk,       \* what load is given, the words after the first
          arg,         \* the table given to prot:pack
          message,     \* the cells
          got          \* what prot:unpack returned: "ret" and the table

pvars == <<at, sorts, keysort, args, chunk, arg, message, got>>
lvars == <<pvars, svars, sortvars>>

IsList(key) == Template[key][1] = "list"
Lists == {key \in DOMAIN Template : IsList(key)}

\* The names that a sort is about: of the message, or of the items of a list.
NamesOf(which) == IF which = "" THEN DOMAIN Template ELSE DOMAIN Template[which][2]

\* pairs comes to the fields in any order.
PairsByKey(which) == \E names \in SetToSeqs(NamesOf(which)) : SortStarts(names, FieldOrder)

-----------------------------------------------------------------------------
(* lproto.initprot at both ends. *)

MessageStarts ==
    /\ at = "sorting"
    /\ \E line \in Lines : GsubStarts(line, <<"[", "^", " ", "]", "+">>, [type |-> "function", returns |-> "nothing"])
    /\ sorts = SetToSeq({"client", "server"} \X (Lists \cup {""}))
    /\ keysort = <<>> /\ args = <<>> /\ chunk = <<>> /\ arg = <<>> /\ message = <<>> /\ got = <<>>
    /\ PairsByKey(sorts[1][2])

\* A template's fields are sorted: _keysort is the result, the next one follows.
KeysSorted ==
    /\ at = "sorting" /\ ranges = <<>>
    /\ keysort' = [w \in DOMAIN keysort \cup {sorts[1]} |-> IF w = sorts[1] THEN arr ELSE keysort[w]]
    /\ sorts' = Tail(sorts)
    /\ IF Len(sorts) = 1 THEN at' = "typed" /\ UNCHANGED sortvars
       ELSE /\ arr' \in SetToSeqs(NamesOf(sorts[2][2])) /\ ranges' = WholeTable(arr')
            /\ UNCHANGED <<at, less, invalid>>
    /\ UNCHANGED <<args, chunk, arg, message, got, svars>>

Sorting == at \in {"sorting", "lib"} /\ SortStep /\ UNCHANGED <<pvars, svars>>

-----------------------------------------------------------------------------
(* The command line. *)

\* The function that gsub calls gives the word to table.insert.
Splitting ==
    /\ at \in {"typed", "lib"} /\ GsubRound
    /\ args' = IF at = "typed" /\ pieces' # pieces /\ Last(pieces')[1] = "match"
               THEN TInsert(args, Last(pieces')[4][1]) ELSE args
    /\ UNCHANGED <<at, sorts, keysort, chunk, arg, message, got, sortvars>>

\* tonumber(args[1]) has to be the id of a template, which is 1 here; what
\* follows is put together again and loaded as the table.
LineSplit ==
    /\ at = "typed" /\ matching = "no"
    /\ at' = IF args # <<>> /\ args[1] = <<"1">> THEN "packing" ELSE "failed"
    /\ chunk' = Top(TConcat(args, <<" ">>, 2))
    /\ UNCHANGED <<sorts, keysort, args, arg, message, got, svars, sortvars>>

-----------------------------------------------------------------------------
(* prot:pack *)

Cell(v) == <<IF v[1] = "number" THEN "int" ELSE "str", v[2]>>

\* A field that is missing or of the wrong type gets the default.
Filled(t, key, default) ==
    IF key \in DOMAIN t /\ t[key][1] = default[1] THEN t
    ELSE [k \in DOMAIN t \cup {key} |-> IF k = key THEN default ELSE t[k]]
FilledAll(t, template) ==
    [k \in DOMAIN t \cup DOMAIN template |-> Filled(t, k, template[k])[k]]

\* #t of a list, and how far ipairs comes.
Border(list) == {n \in {0} \cup DOMAIN list : n + 1 \notin DOMAIN list}
IPairs(list) == CHOOSE n \in Border(list) : 1 .. n \subseteq DOMAIN list

\* The cells of the item t.
RECURSIVE ItemCells(_, _, _)
ItemCells(t, template, keys) ==
    IF keys = <<>> THEN <<>>
    ELSE <<Cell(Filled(t, keys[1], template[keys[1]])[keys[1]])>> \o ItemCells(t, template, Tail(keys))

\* The fields of the table t, in the order of keys; #t of its lists is n.  A
\* list that is missing or no table is an error, <<"error">>.
RECURSIVE Fields(_, _, _)
Fields(t, keys, n) ==
    IF keys = <<>> THEN <<>>
    ELSE LET key == keys[1]
             rest == Fields(t, Tail(keys), n)
             items == t[key][2]
             template == Template[key][2]
             cells == FlattenSeq([i \in 1 .. IPairs(items) |->
                                    ItemCells(items[i], template, keysort[<<"client", key>>])])
         IN  CASE ~ IsList(key) -> <<Cell(Filled(t, key, Template[key])[key])>> \o rest
               [] IsList(key) /\ (key \notin DOMAIN t \/ t[key][1] # "list") -> <<<<"error">>>>
               [] OTHER -> <<<<"int", n[key]>>>> \o cells \o rest

Pack ==
    /\ at = "packing"
    /\ arg' \in Arguments
    /\ \E n \in [Lists -> 0 .. 3] :
          /\ \A key \in Lists : key \in DOMAIN arg' /\ arg'[key][1] = "list" => n[key] \in Border(arg'[key][2])
          /\ \E cells \in {Fields(arg', keysort[<<"client", "">>], n)} :
                IF \E i \in DOMAIN cells : cells[i] = <<"error">>
                THEN at' = "failed" /\ UNCHANGED message
                ELSE at' = "sent" /\ message' = <<<<"size", Len(cells) + 2>>, <<"id", 0>>, <<"id", 1>>>> \o cells
    /\ UNCHANGED <<sorts, keysort, args, chunk, got, svars, sortvars>>

\* handlemsg of the gateway writes the id of the client.
Relay ==
    /\ at = "sent"
    /\ message' = [message EXCEPT ![2] = <<"id", ClientId>>]
    /\ at' = "relayed"
    /\ UNCHANGED <<sorts, keysort, args, chunk, arg, got, svars, sortvars>>

-----------------------------------------------------------------------------
(* prot:unpack *)

\* lproto_c.read succeeds at the cell i.
Reads(cells, i, type) == i \in DOMAIN cells /\ cells[i][1] = (IF type = "number" THEN "int" ELSE "str")

\* The fields named keys, or n items of a list, from the cell i on: the cell
\* that follows, 0 for a failure, and the table.
RECURSIVE ReadFields(_, _, _, _, _), ReadItems(_, _, _, _)
ReadFields(cells, i, keys, template, t) ==
    IF keys = <<>> THEN <<i, t>>
    ELSE LET key == keys[1]
             isList == template[key][1] = "list"
             items == ReadItems(cells, i + 1, cells[i][2], key)
             read == IF isList THEN items ELSE <<i + 1, cells[i][2]>>
         IN  IF ~ Reads(cells, i, IF isList THEN "number" ELSE template[key][1]) \/ read[1] = 0
             THEN <<0, t>>
             ELSE ReadFields(cells, read[1], Tail(keys), template,
                             [k \in DOMAIN t \cup {key} |-> IF k = key THEN <<template[key][1], read[2]>> ELSE t[k]])
ReadItems(cells, i, n, key) ==
    IF n = 0 THEN <<i, <<>>>>
    ELSE LET first == ReadFields(cells, i, keysort[<<"server", key>>], Template[key][2], <<>>)
             rest == ReadItems(cells, first[1], n - 1, key)
         IN  IF first[1] = 0 \/ rest[1] = 0 THEN <<0, <<>>>> ELSE <<rest[1], <<first[2]>> \o rest[2]>>

\* The server gives prot:unpack the whole frame.
Unpack ==
    /\ at = "relayed"
    /\ \E read \in {ReadFields(message, 4, keysort[<<"server", "">>], Template, <<>>)} :
          got' = IF read[1] = 0 THEN [ret |-> -1]
                 ELSE [ret |-> 0, fd |-> message[2][2], protId |-> message[3][2], p |-> read[2]]
    /\ at' = "shown"
    /\ UNCHANGED <<sorts, keysort, args, chunk, arg, message, svars, sortvars>>

MessageNext == KeysSorted \/ Sorting \/ Splitting \/ LineSplit \/ Pack \/ Relay \/ Unpack
=============================================================================
