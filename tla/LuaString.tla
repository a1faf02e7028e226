------------------------------ MODULE LuaString ------------------------------
(***************************************************************************)
(* Pattern matching (lstrlib.c), with which the console client cuts a line *)
(* into words: string.gsub(cmd, '[^ ]+', f).  match tries the items of a   *)
(* pattern in turn, takes back what it tried, and keeps the captures in a  *)
(* state that it undoes by hand.  gsub is a loop with a step per match.    *)
(*                                                                         *)
(* A text is a sequence of characters; positions count from 1, and what is *)
(* read after the end is the NUL there.  A result of the matcher is a      *)
(* state whose field s is the end of the match, or 0.                      *)
(***************************************************************************)
EXTENDS LuaBuffer, TLC
LOCAL INSTANCE SequencesExt

CONSTANTS MaxCCalls,     \* MAXCCALLS
          MaxCaptures    \* LUA_MAXCAPTURES

ASSUME LuaStringAssumption == MaxCCalls \in Nat /\ MaxCaptures \in Nat

VARIABLES subject, pattern,
          src,        \* where gsub is in the subject
          pieces,     \* the result: <<"char", from, from + 1, <<>>>> and
                      \* <<"match", from, end, captures>>
          repl,       \* the third argument: its type, and the text, the fields,
                      \* or what the function returns
          buffer,     \* the text that is built, and the Lua stack
          matching    \* gsub is in its loop, "yes" or "no", or "error"

svars == <<subject, pattern, src, pieces, repl, buffer, matching>>

Unfinished == -1
Position == -2

\* The order of the characters that ranges use.
Order == <<"", " ", "1", "a", "b">>
Code(c) == SelectInSeq(Order, LAMBDA x : x = c)

CharAt(text, i) == IF i \in DOMAIN text THEN text[i] ELSE ""

\* The state that a match at s of the subject starts with.
Start(text, pat) ==
    [text |-> text, pat |-> pat, depth |-> MaxCCalls, capture |-> <<>>, s |-> 0, err |-> FALSE]
PEnd(ms) == Len(ms.pat) + 1
End(ms) == Len(ms.text) + 1

Failed(ms) == [ms EXCEPT !.s = 0]
Error(ms) == [ms EXCEPT !.s = 0, !.err = TRUE]

-----------------------------------------------------------------------------
(* One character. *)

\* classend: the position after the class at p; 0 for a malformed one.
RECURSIVE BracketEnd(_, _)
BracketEnd(pat, p) ==
    LET next == IF pat[p] = "%" /\ p < Len(pat) THEN p + 2 ELSE p + 1
    IN  IF p > Len(pat) THEN 0 ELSE IF CharAt(pat, next) = "]" THEN next + 1 ELSE BracketEnd(pat, next)
ClassEnd(pat, p) ==
    CASE pat[p] = "%" -> IF p = Len(pat) THEN 0 ELSE p + 2
      [] pat[p] = "[" -> BracketEnd(pat, IF CharAt(pat, p + 1) = "^" THEN p + 2 ELSE p + 1)
      [] OTHER -> p + 1

\* match_class, for the letters and their complements.
Classes == [a |-> {"a", "b"}, d |-> {"1"}, s |-> {" "}, w |-> {"a", "b", "1"}]
MatchClass(c, cl) ==
    CASE cl \in {"a", "d", "s", "w"} -> c \in Classes[cl]
      [] cl = "A" -> c \notin Classes.a
      [] cl = "D" -> c \notin Classes.d
      [] cl = "S" -> c \notin Classes.s
      [] cl = "W" -> c \notin Classes.w
      [] OTHER -> c = cl

\* The loop of matchbracketclass from p on; the bracket is at ec.
RECURSIVE InSet(_, _, _, _)
InSet(c, pat, p, ec) ==
    /\ p < ec
    /\ CASE pat[p] = "%" -> MatchClass(c, pat[p + 1]) \/ InSet(c, pat, p + 2, ec)
         [] pat[p] # "%" /\ pat[p + 1] = "-" /\ p + 2 < ec ->
              Code(c) \in Code(pat[p]) .. Code(pat[p + 2]) \/ InSet(c, pat, p + 3, ec)
         [] OTHER -> pat[p] = c \/ InSet(c, pat, p + 1, ec)
MatchBracketClass(c, pat, p, ec) ==
    IF pat[p + 1] = "^" THEN ~ InSet(c, pat, p + 2, ec) ELSE InSet(c, pat, p + 1, ec)

SingleMatch(ms, s, p, ep) ==
    /\ s < End(ms)
    /\ CASE ms.pat[p] = "." -> TRUE
         [] ms.pat[p] = "%" -> MatchClass(ms.text[s], ms.pat[p + 1])
         [] ms.pat[p] = "[" -> MatchBracketClass(ms.text[s], ms.pat, p, ep - 1)
         [] OTHER -> ms.pat[p] = ms.text[s]

-----------------------------------------------------------------------------
(* Items. *)

RECURSIVE Match(_, _, _), DoMatch(_, _, _), MaxExpand(_, _, _, _, _), MinExpand(_, _, _, _)

\* matchbalance; s is where the pair was opened.
RECURSIVE Balance(_, _, _, _)
Balance(ms, s, p, cont) ==
    CASE s >= End(ms) -> 0
      [] s < End(ms) /\ ms.text[s] = ms.pat[p + 1] ->
           IF cont = 1 THEN s + 1 ELSE Balance(ms, s + 1, p, cont - 1)
      [] OTHER -> Balance(ms, s + 1, p, IF ms.text[s] = ms.pat[p] THEN cont + 1 ELSE cont)
MatchBalance(ms, s, p) ==
    IF CharAt(ms.text, s) # ms.pat[p] THEN 0 ELSE Balance(ms, s + 1, p, 1)

\* max_expand, from i repetitions down.
Repeats(ms, s, p, ep) ==
    CHOOSE i \in 0 .. End(ms) - s :
        /\ \A j \in 0 .. i - 1 : SingleMatch(ms, s + j, p, ep)
        /\ ~ SingleMatch(ms, s + i, p, ep)
MaxExpand(ms, s, p, ep, i) ==
    IF i < 0 \/ ms.err THEN Failed(ms)
    ELSE CHOOSE r \in {IF m.s # 0 THEN m ELSE MaxExpand(m, s, p, ep, i - 1)
                       : m \in {Match(ms, s + i, ep + 1)}} : TRUE

MinExpand(ms, s, p, ep) ==
    CHOOSE r \in {CASE m.s # 0 \/ m.err -> m
                    [] m.s = 0 /\ ~ m.err /\ SingleMatch(m, s, p, ep) -> MinExpand(m, s + 1, p, ep)
                    [] OTHER -> Failed(m)
                  : m \in {Match(ms, s, ep + 1)}} : TRUE

\* start_capture
StartCapture(ms, s, p, what) ==
    LET opened == [ms EXCEPT !.capture = Append(@, [init |-> s, len |-> what])]
        r == Match(opened, s, p)
    IN  IF Len(ms.capture) >= MaxCaptures THEN Error(ms)
        ELSE IF r.s = 0 THEN [r EXCEPT !.capture = Front(@)] ELSE r

\* Mutant: a capture that was closed in vain stays closed.
EndCaptureStays(ms, s, p) ==
    LET l == SelectLastInSeq(ms.capture, LAMBDA c : c.len = Unfinished)
    IN  IF l = 0 THEN Error(ms)
        ELSE Match([ms EXCEPT !.capture[l].len = s - ms.capture[l].init], s, p)

\* end_capture
EndCapture(ms, s, p) ==
    LET l == SelectLastInSeq(ms.capture, LAMBDA c : c.len = Unfinished)
        r == Match([ms EXCEPT !.capture[l].len = s - ms.capture[l].init], s, p)
    IN  IF l = 0 THEN Error(ms)
        ELSE IF r.s = 0 THEN [r EXCEPT !.capture[l].len = Unfinished] ELSE r

\* match_capture of capture number l.  A position is no text: its length, as an
\* unsigned number, is more than what is left.
MatchCapture(ms, s, l) ==
    LET c == ms.capture[l]
    IN  /\ c.len >= 0 /\ End(ms) - s >= c.len
        /\ SubSeq(ms.text, c.init, c.init + c.len - 1) = SubSeq(ms.text, s, s + c.len - 1)

Digit == [x \in {"1", "2"} |-> IF x = "1" THEN 1 ELSE 2]

\* match: a call goes one deeper.
Match(ms, s, p) ==
    IF ms.err \/ ms.depth = 0 THEN Error(ms)
    ELSE CHOOSE r \in {[m EXCEPT !.depth = IF m.err THEN @ ELSE @ + 1]
                       : m \in {DoMatch([ms EXCEPT !.depth = @ - 1], s, p)}} : TRUE

\* A class with its suffix.
MatchClassItem(ms, s, p) ==
    LET ep == ClassEnd(ms.pat, p)
        suffix == CharAt(ms.pat, ep)
        one == SingleMatch(ms, s, p, ep)
        taken == Match(ms, s + 1, ep + 1)
    IN  CASE ep = 0 -> Error(ms)
          [] ep # 0 /\ ~ one ->
               IF suffix \in {"*", "?", "-"} THEN DoMatch(ms, s, ep + 1) ELSE Failed(ms)
          [] ep # 0 /\ one /\ suffix = "?" ->
               IF taken.s # 0 \/ taken.err THEN taken ELSE DoMatch(taken, s, ep + 1)
          [] ep # 0 /\ one /\ suffix = "+" ->
               MaxExpand(ms, s + 1, p, ep, Repeats(ms, s + 1, p, ep))
          [] ep # 0 /\ one /\ suffix = "*" -> MaxExpand(ms, s, p, ep, Repeats(ms, s, p, ep))
          [] ep # 0 /\ one /\ suffix = "-" -> MinExpand(ms, s, p, ep)
          [] OTHER -> DoMatch(ms, s + 1, ep)

\* The items that start with "%" and are no class.
MatchEscape(ms, s, p) ==
    LET x == ms.pat[p + 1]
        after == MatchBalance(ms, s, p + 2)
        ep == ClassEnd(ms.pat, p + 2)
        previous == CharAt(ms.text, s - 1)
    IN  CASE x = "b" -> IF p + 2 >= PEnd(ms) - 1 THEN Error(ms)
                        ELSE IF after = 0 THEN Failed(ms) ELSE DoMatch(ms, after, p + 4)
          [] x = "f" ->
               IF CharAt(ms.pat, p + 2) # "[" \/ ep = 0 THEN Error(ms)
               ELSE IF /\ ~ MatchBracketClass(previous, ms.pat, p + 2, ep - 1)
                       /\ MatchBracketClass(CharAt(ms.text, s), ms.pat, p + 2, ep - 1)
                    THEN DoMatch(ms, s, ep) ELSE Failed(ms)
          [] x \in DOMAIN Digit ->
               IF Digit[x] > Len(ms.capture) \/ ms.capture[Digit[x]].len = Unfinished THEN Error(ms)
               ELSE IF MatchCapture(ms, s, Digit[x])
                    THEN DoMatch(ms, s + ms.capture[Digit[x]].len, p + 2) ELSE Failed(ms)

\* The body of match.
DoMatch(ms, s, p) ==
    IF p >= PEnd(ms) THEN [ms EXCEPT !.s = s]
    ELSE
    CASE ms.pat[p] = "(" ->
           IF CharAt(ms.pat, p + 1) = ")" THEN StartCapture(ms, s, p + 2, Position)
           ELSE StartCapture(ms, s, p + 1, Unfinished)
      [] ms.pat[p] = ")" -> EndCapture(ms, s, p + 1)
      [] ms.pat[p] = "$" /\ p + 1 = PEnd(ms) -> IF s = End(ms) THEN [ms EXCEPT !.s = s] ELSE Failed(ms)
      [] ms.pat[p] = "%" /\ CharAt(ms.pat, p + 1) \in {"b", "f"} \cup DOMAIN Digit -> MatchEscape(ms, s, p)
      [] OTHER -> MatchClassItem(ms, s, p)

-----------------------------------------------------------------------------
(* string.gsub *)

Anchored == CharAt(pattern, 1) = "^"

\* push_onecapture of capture l, the whole match if there is none; a position is
\* a number, which becomes text.
OneCapture(ms, l, s, e) ==
    LET c == ms.capture[l]
    IN  CASE ms.capture = <<>> -> SubSeq(ms.text, s, e - 1)
          [] ms.capture # <<>> /\ c.len = Position -> <<ToString(c.init)>>
          [] OTHER -> SubSeq(ms.text, c.init, c.init + c.len - 1)
CaptureFails(ms, l) ==
    IF l > Len(ms.capture) THEN l > 1 \/ ms.capture # <<>> ELSE ms.capture[l].len = Unfinished

\* push_captures
Captures(ms, s, e) == [l \in 1 .. (IF ms.capture = <<>> THEN 1 ELSE Len(ms.capture)) |-> OneCapture(ms, l, s, e)]

\* add_s from position i of the replacement on.
RECURSIVE AddS(_, _, _, _, _)
AddS(ms, b, s, e, i) ==
    LET c == CharAt(repl.text, i)
        x == CharAt(repl.text, i + 1)
        l == IF x \in DOMAIN Digit THEN Digit[x] ELSE 0
    IN  CASE i > Len(repl.text) -> b
          [] i <= Len(repl.text) /\ c # "%" -> AddS(ms, AddText(b, <<c>>), s, e, i + 1)
          [] c = "%" /\ x = "%" -> AddS(ms, AddText(b, <<x>>), s, e, i + 2)
          [] c = "%" /\ x = "0" -> AddS(ms, AddText(b, SubSeq(ms.text, s, e - 1)), s, e, i + 2)
          [] c = "%" /\ l > 0 /\ ~ CaptureFails(ms, l) ->
               AddS(ms, AddValue(Push(b, OneCapture(ms, l, s, e))), s, e, i + 2)
          [] OTHER -> [b EXCEPT !.err = TRUE]

\* add_value: what the table has for the first capture, or the function returns
\* for all of them; nil keeps the text of the match.
AddReplacement(ms, b, s, e) ==
    LET captures == Captures(ms, s, e)
        nothing == Push(b, SubSeq(ms.text, s, e - 1))
    IN  CASE repl.type = "string" -> AddS(ms, b, s, e, 1)
          [] \/ repl.type = "table" /\ CaptureFails(ms, 1)
             \/ repl.type = "function" /\ \E l \in DOMAIN ms.capture : CaptureFails(ms, l) ->
               [b EXCEPT !.err = TRUE]
          [] repl.type = "table" ->
               AddValue(IF captures[1] \in DOMAIN repl.fields THEN Push(b, repl.fields[captures[1]]) ELSE nothing)
          [] repl.type = "function" ->
               AddValue(IF repl.returns = "nothing" THEN nothing ELSE Push(b, FlattenSeq(captures)))

GsubStarts(text, pat, r) ==
    /\ subject = text /\ pattern = pat /\ repl = r
    /\ src = 1 /\ pieces = <<>> /\ buffer = BuffInit /\ matching = "yes"

\* A round of str_gsub; without a match, or after an empty one, a character is
\* copied.  What is left of the subject after the last round is copied, too.
GsubRound ==
    /\ matching = "yes"
    /\ \E m \in {Match(Start(subject, IF Anchored THEN Tail(pattern) ELSE pattern), src, 1)} :
       \E found \in {IF m.s = 0 THEN <<>> ELSE <<<<"match", src, m.s, Captures(m, src, m.s)>>>>},
          ahead \in {src < Len(subject) + 1},
          b \in {IF m.s = 0 THEN buffer ELSE AddReplacement(m, buffer, src, m.s)} :
          IF m.err \/ b.err
          THEN matching' = "error" /\ UNCHANGED <<src, pieces, buffer>>
          ELSE \E copied \in {IF m.s <= src /\ ahead THEN AddText(b, <<subject[src]>>) ELSE b} :
               /\ pieces' = pieces \o found
                            \o IF m.s <= src /\ ahead THEN <<<<"char", src, src + 1, <<>>>>>> ELSE <<>>
               /\ src' = IF m.s > src THEN m.s ELSE IF ahead THEN src + 1 ELSE src
               /\ matching' = IF ~ Anchored /\ (m.s > src \/ ahead) THEN "yes" ELSE "no"
               /\ buffer' = IF matching' = "yes" THEN copied
                            ELSE PushResult(AddText(copied, SubSeq(subject, src', Len(subject))))
    /\ UNCHANGED <<subject, pattern, repl>>
=============================================================================
