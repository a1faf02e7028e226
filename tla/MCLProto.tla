------------------------------- MODULE MCLProto -------------------------------
(***************************************************************************)
(* The library of the console client and its messages: all patterns of two *)
(* items and a family with captures, on all short subjects; sorts of short *)
(* tables with valid and invalid orders; and lines, with the tables they   *)
(* stand for, on their way to the server.                                  *)
(***************************************************************************)
EXTENDS LProto
LOCAL INSTANCE SequencesExt
P == INSTANCE StringPatterns

CONSTANTS PairSubjects,     \* bound: the length of the subjects of item pairs
          FamilySubjects,   \* bound: and of the patterns with captures
          SortLength        \* bound: the length of the tables that are sorted

-----------------------------------------------------------------------------
(* Patterns and how they are written. *)

Chars == {"", " ", "1", "a", "b"}
SetText == <<<<"a">>, <<".">>, <<"[", "^", "a", "]">>>>
SetMeant == <<{"a"}, Chars \ {""}, Chars \ {"", "a"}>>
Suffix == [one |-> <<>>, star |-> <<"*">>, plus |-> <<"+">>, option |-> <<"?">>, lazy |-> <<"-">>]

\* An item and its text.
Items == {<<[kind |-> kind, set |-> SetMeant[i]], SetText[i] \o Suffix[kind]>> : kind \in DOMAIN Suffix, i \in 1 .. 3}

\* The pattern with these items, and its text.
Whole(parts, from, to) ==
    <<P!Pattern([n \in DOMAIN parts |-> parts[n][1]], from, to),
      (IF from THEN <<"^">> ELSE <<>>) \o FlattenSeq([n \in DOMAIN parts |-> parts[n][2]])
          \o (IF to THEN <<"$">> ELSE <<>>)>>

O == <<P!Open, <<"(">>>>
C == <<P!Close, <<")">>>>
H == <<P!Here, <<"(", ")">>>>
Few == {i \in Items : \/ (i[1].set = SetMeant[1]) /\ (i[1].kind # "one")
                      \/ (i[1].set = SetMeant[2]) /\ (i[1].kind \in {"one", "star", "lazy"})}

Pairs == {Whole(<<x, y>>, from, to) : x \in Items, y \in Items, from \in BOOLEAN, to \in BOOLEAN}
Families ==
    {Whole(parts, FALSE, to) : to \in BOOLEAN, parts \in UNION {
        {<<O, x, C, y>>, <<x, O, y, C>>, <<O, x, O, y, C, C>>, <<O, O, x, C, y, C>>,
         <<O, x, C, y, <<P!Back(1), <<"%", "1">>>>>>, <<x, H, y>>,
         <<x, <<P!Balanced("a", "b"), <<"%", "b", "a", "b">>>>, O, y, C>>,
         <<<<P!Frontier({"a"}), <<"%", "f", "[", "a", "]">>>>, x, O, y, C>>,
         <<x, <<P!Plus({"a", "b"}), <<"%", "a", "+">>>>, y>>,
         <<<<P!Option({"1", "a"}), <<"[", "1", "-", "a", "]", "?">>>>, x, y>>}
        : x \in Few, y \in Few}}
Split == <<P!Pattern(<<P!Plus(Chars \ {"", " "})>>, FALSE, FALSE), <<"[", "^", " ", "]", "+">>>>

MeaningOf == [text \in {p[2] : p \in Pairs \cup Families \cup {Split}} |->
                (CHOOSE p \in Pairs \cup Families \cup {Split} : p[2] = text)[1]]

Subjects(n) == UNION {[1 .. k -> {"a", "b"}] : k \in 0 .. n}
Spaced == {<<" ", "a", " ", " ", "1", "b">>, <<"1", " ", "a", "1", " ">>}

\* The third arguments of gsub, and what a text there means: characters, and
\* captures by their numbers.
AsString(text) == [type |-> "string", text |-> text]
Replacements ==
    {AsString(<<"%", "1", "a", "%", "%", "%", "0">>), [type |-> "function", returns |-> "nothing"],
     [type |-> "function", returns |-> "captures"],
     [type |-> "table", fields |-> [w \in {<<>>, <<"a">>, <<"a", "b">>} |-> IF w = <<"a">> THEN <<>> ELSE <<"1", " ", "1">>]]}
TextMeans ==
    [text \in {<<"1", "%", "0">>, <<"%", "1", "a", "%", "%", "%", "0">>} |->
        IF Len(text) = 3 THEN <<<<"text", "1">>, <<"match">>>>
        ELSE <<<<"first">>, <<"text", "a">>, <<"text", "%">>, <<"match">>>>]
ReplacementFor(t) ==
    SetToSeq(Replacements)[1 + ((Cardinality({i \in DOMAIN t : t[i] = "a"}) + Len(t)) % 4)]

PatternStarts ==
    \/ \E p \in Pairs, t \in Subjects(PairSubjects) : GsubStarts(t, p[2], AsString(<<"1", "%", "0">>))
    \/ \E p \in Families, t \in Subjects(FamilySubjects) : \E r \in {ReplacementFor(t)} : GsubStarts(t, p[2], r)
    \/ \E p \in Families \cup {Split}, t \in Spaced, r \in Replacements : GsubStarts(t, p[2], r)

-----------------------------------------------------------------------------
(* Sorts. *)

Below(n) == {<<x, y>> \in (1 .. n) \X (1 .. n) : x < y}

\* Every order of three, every asymmetric one of four; then tables with ties
\* and without.
TableStarts ==
    \/ \E order \in SUBSET ((1 .. 3) \X (1 .. 3)), n \in 0 .. 3 : SortStarts([i \in 1 .. n |-> i], order)
    \/ \E order \in {{IF o[p] THEN p ELSE <<p[2], p[1]>> : p \in d} : d \in SUBSET Below(4), o \in [Below(4) -> BOOLEAN]} :
          SortStarts(<<1, 2, 3, 4>>, order)
    \/ \E n \in 0 .. SortLength : \E a \in [1 .. n -> 1 .. 3] : SortStarts(a, Below(3))
    \/ \E a \in SetToSeqs(1 .. 6) : SortStarts(a, Below(6))

-----------------------------------------------------------------------------
(* Messages. *)

Fields2 == [a |-> <<"number", 1>>, b |-> <<"string", "hao">>]
TheTemplate == [list |-> <<"list", Fields2>>, pong |-> <<"string", "pong">>, ret |-> <<"number", -1>>]
TheOrder == {<<"a", "b">>, <<"list", "pong">>, <<"list", "ret">>, <<"pong", "ret">>}
TheLines == {<<"1", " ", "a">>, <<" ", "1", " ", " ", "a", "b", " ", "1", "a", " ", " ", "b", " ">>, <<" ", "1">>, <<"a", " ", "1">>, <<" ">>, <<>>}

Good == [a |-> <<"number", 5>>, b |-> <<"string", "x">>]
Bad == [a |-> <<"string", "y">>, c |-> <<"number", 6>>]
Contents == {<<>>, <<Good>>, <<Bad, Good>>, [i \in {1, 3} |-> Good]}
TheArguments ==
    {[pong |-> p, list |-> <<"list", l>>] : p \in {<<"string", "z">>, <<"number", 2>>}, l \in Contents}
    \cup {[ret |-> <<"number", 7>>, list |-> <<"list", l>>] : l \in Contents}
    \cup {[ret |-> <<"string", "w">>], [ret |-> <<"number", 7>>, list |-> <<"number", 3>>]}

-----------------------------------------------------------------------------

NoMessage == sorts = <<>> /\ keysort = <<>> /\ args = <<>> /\ chunk = <<>> /\ arg = <<>> /\ message = <<>> /\ got = <<>>

NoPattern ==
    /\ subject = <<>> /\ pattern = <<>> /\ src = 1 /\ pieces = <<>>
    /\ repl = AsString(<<>>) /\ buffer = BuffInit /\ matching = "no"
NoSort == arr = <<>> /\ less = {} /\ ranges = <<>> /\ invalid = FALSE
Unused == at = "lib" /\ NoMessage /\ NoPattern /\ NoSort

LibraryStarts ==
    \/ MessageStarts
    \/ at = "lib" /\ NoMessage /\ PatternStarts /\ NoSort
    \/ at = "lib" /\ NoMessage /\ TableStarts /\ NoPattern

-----------------------------------------------------------------------------
(* Properties. *)

\* A piece that gsub made is what the pattern means there.
PieceRight(n) ==
    LET piece == pieces[n]
        meant == P!MatchesAt(MeaningOf[pattern], subject, piece[2])
    IN  IF piece[1] = "match"
        THEN \E cut \in meant : /\ cut[Len(cut)] = piece[3]
                                /\ piece[4] = P!CapturesOf(MeaningOf[pattern], subject, cut)
        ELSE \/ meant = {}
             \/ n > 1 /\ pieces[n - 1] # piece /\ pieces[n - 1][1] = "match"
                /\ pieces[n - 1][2] = piece[2] /\ pieces[n - 1][3] = piece[2]

\* What takes the place of a piece.
TextOf(piece) ==
    LET match == SubSeq(subject, piece[2], piece[3] - 1)
    IN  CASE piece[1] = "char" -> match
          [] piece[1] # "char" /\ repl.type = "string" ->
               FlattenSeq([n \in DOMAIN TextMeans[repl.text] |->
                   CASE TextMeans[repl.text][n][1] = "match" -> match
                     [] TextMeans[repl.text][n][1] = "first" -> piece[4][1]
                     [] OTHER -> Tail(TextMeans[repl.text][n])])
          [] piece[1] # "char" /\ repl.type = "table" ->
               IF piece[4][1] \in DOMAIN repl.fields THEN repl.fields[piece[4][1]] ELSE match
          [] OTHER -> IF repl.returns = "nothing" THEN match ELSE FlattenSeq(piece[4])
Text == FlattenSeq([n \in DOMAIN pieces |-> TextOf(pieces[n])])

\* string.gsub finds, at every place it comes to, the match that the pattern
\* means, with its captures, or passes a character where there is none; the
\* pieces cover the subject without a gap, and a sound pattern never raises an
\* error (str_gsub, match, max_expand, start_capture and end_capture).  What it
\* builds meanwhile is the text with the replacements in their places, and the
\* Lua stack holds the box of the buffer, in the end the result, and nothing else
\* (add_value, luaL_prepbuffsize, luaL_addvalue and luaL_pushresult).
GsubExact ==
    /\ matching # "error"
    /\ pieces # <<>> => /\ pieces[1][2] = 1 /\ src = pieces[Len(pieces)][3]
                        /\ \A n \in 1 .. Len(pieces) - 1 : pieces[n][3] = pieces[n + 1][2]
                        /\ \A n \in {Len(pieces) - 1, Len(pieces)} \ {0} : PieceRight(n)
    /\ matching = "no" /\ pattern # <<>> /\ ~ Anchored => src = Len(subject) + 1
    /\ matching = "yes" => InUse(buffer) /\ buffer.text = Text
    /\ matching = "no" /\ pattern # <<>> =>
          buffer.stack = <<Text \o SubSeq(subject, src, Len(subject))>>

\* What the server gets is what was typed: the client's id, the protocol, and
\* the table with the default for every field that was missing or of the wrong
\* type, as long as its lists have no holes (lproto.lua, gate_main.c handlemsg);
\* what is loaded as that table is the line after its first word, with single
\* spaces (client.lua, tconcat).
Meant(t) ==
    [key \in DOMAIN Template |->
        IF IsList(key) THEN <<"list", [i \in DOMAIN t[key][2] |->
                                         [k \in DOMAIN Template[key][2] |-> FilledAll(t[key][2][i], Template[key][2])[k]]]>>
        ELSE FilledAll(t, [k \in DOMAIN Template \ Lists |-> Template[k]])[key]]
NoHoles(t) == \A key \in Lists : DOMAIN t[key][2] = 1 .. Cardinality(DOMAIN t[key][2])
AfterFirstWord ==
    LET word == {i \in DOMAIN subject : subject[i] # " " /\ \E j \in 1 .. i : subject[j] = " " /\ \E k \in 1 .. j : subject[k] # " "}
        kept == {i \in DOMAIN subject : i \in word \/ (subject[i] = " " /\ i + 1 \in word /\ \E j \in word : j < i)}
    IN  [n \in 1 .. Cardinality(kept) |-> subject[CHOOSE i \in kept : Cardinality({j \in kept : j <= i}) = n]]
RoundTrip ==
    /\ at = "packing" => chunk = AfterFirstWord
    /\ at = "shown" /\ NoHoles(arg) => got = [ret |-> 0, fd |-> ClientId, protId |-> 1, p |-> Meant(arg)]
=============================================================================
