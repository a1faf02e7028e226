---------------------------- MODULE LuaSemantics -----------------------------
(***************************************************************************)
(* What a Lua program means, in the words of the reference manual: every   *)
(* execution of a local statement makes new variables, a function refers   *)
(* to the variables that are visible where it is made, and a block is left *)
(* by its end, a goto, a return or an error.  No registers, no upvalues.   *)
(*                                                                         *)
(* A store s has the values of all variables (cells), the tables, the      *)
(* first of them the globals, their metatables, and the functions.  An     *)
(* environment has the cells of the visible variables and the values of    *)
(* "...".                                                                  *)
(***************************************************************************)
EXTENDS LuaVM
LOCAL INSTANCE SequencesExt

CONSTANT Expected      \* what the programs mean, for those of Mains

RECURSIVE Eval(_, _, _), EvalList(_, _, _), Run(_, _, _, _), Apply(_, _, _)

Yields(vs, s) == [ok |-> TRUE, vs |-> vs, s |-> s]
ErrorOf(v, s) == [ok |-> FALSE, vs |-> <<v>>, s |-> s]
Error(s) == ErrorOf(Message, s)
FirstOf(vs) == IF vs = <<>> THEN NilValue ELSE vs[1]
One(r) == IF r.ok THEN [r EXCEPT !.vs = <<FirstOf(r.vs)>>] ELSE r

\* n values out of vs.
Adjusted(vs, n) == [m \in 1 .. n |-> IF m <= Len(vs) THEN vs[m] ELSE NilValue]

\* New variables with the values vs.
Declare(env, s, names, vs) ==
    [env |-> [env EXCEPT !.cells = [x \in DOMAIN @ \cup ToSet(names) |->
                 IF x \in ToSet(names)
                 THEN Len(s.cells) + SelectLastInSeq(names, LAMBDA y : y = x) ELSE @[x]]],
     s |-> [s EXCEPT !.cells = @ \o Adjusted(vs, Len(names))]]

\* Values of expressions from left to right; the last one gives all of its values.
EvalList(xs, env, s) ==
    IF xs = <<>> THEN Yields(<<>>, s)
    ELSE LET r == Eval(xs[1], env, s)
             rest == EvalList(Tail(xs), env, r.s)
         IN  IF Len(xs) = 1 \/ ~ r.ok THEN r
             ELSE IF ~ rest.ok THEN rest ELSE Yields(<<FirstOf(r.vs)>> \o rest.vs, rest.s)

\* What the metatable of table t says of an event.
Handler(t, event, s) ==
    IF s.metas[t[2]] = NilValue THEN NilValue ELSE Get(s.tables[s.metas[t[2]][2]], event)

\* t[k]: where there is no value, __index is called, or indexed in its place; n
\* tables are tried.
RECURSIVE Index(_, _, _, _), SetIndex(_, _, _, _, _)
Index(t, k, s, n) ==
    IF n = 0 \/ ~ Is(t, "table") THEN Error(s)
    ELSE LET h == Handler(t, IndexEvent, s)
         IN  CASE Get(s.tables[t[2]], k) # NilValue \/ h = NilValue -> Yields(<<Get(s.tables[t[2]], k)>>, s)
               [] OTHER -> IF h[1] \in {"function", "cfunction"} THEN One(Apply(h, <<t, k>>, s))
                           ELSE Index(h, k, s, n - 1)

\* t[k] = v, with __newindex.
SetIndex(t, k, v, s, n) ==
    IF n = 0 \/ ~ Is(t, "table") THEN Error(s)
    ELSE LET h == Handler(t, NewIndexEvent, s)
         IN  CASE Get(s.tables[t[2]], k) # NilValue \/ h = NilValue ->
                    IF k = NilValue THEN Error(s) ELSE Yields(<<>>, [s EXCEPT !.tables[t[2]] = Put(@, k, v)])
               [] OTHER -> IF h[1] \in {"function", "cfunction"} THEN Apply(h, <<t, k, v>>, s)
                           ELSE SetIndex(h, k, v, s, n - 1)

\* setmetatable; a metatable with a field __metatable stays.
WithMetatable(vs, s) ==
    IF /\ Len(vs) > 1 /\ Is(vs[1], "table") /\ (Is(vs[2], "table") \/ vs[2] = NilValue)
       /\ Handler(vs[1], <<"string", <<"__metatable">>>>, s) = NilValue
    THEN Yields(<<vs[1]>>, [s EXCEPT !.metas[vs[1][2]] = vs[2]]) ELSE Error(s)

\* pcall gives the value of an error, error raises one.
Protected(vs, s) ==
    LET r == Apply(vs[1], Tail(vs), s)
    IN  IF vs = <<>> THEN Error(s) ELSE Yields(<<Bool(r.ok)>> \o r.vs, r.s)

Apply(f, vs, s) ==
    CASE Is(f, "function") ->
           LET fn == s.functions[f[2]]
               n == Len(fn.code[2])
               d == Declare([fn.env EXCEPT !.dots = SubSeq(vs, n + 1, Len(vs))], s, fn.code[2], vs)
               r == Run(fn.code[4], 1, <<d.env>>, d.s)
           IN  [ok |-> r.sig # "error", vs |-> r.vs, s |-> r.s]
      [] f = <<"cfunction", "pcall">> -> Protected(vs, s)
      [] f = <<"cfunction", "error">> -> ErrorOf(RaisedBy(vs), s)
      [] f = <<"cfunction", "setmetatable">> -> WithMetatable(vs, s)
      [] OTHER -> Error(s)

\* The order of numbers, and of strings: the first difference decides, where the end
\* of a string comes before any character.
Before(x, y) ==
    IF Is(x, "number") THEN x[2] < y[2]
    ELSE \E n \in 1 .. Len(x[2]) + 1 :
            /\ n <= Len(y[2]) /\ SubSeq(x[2], 1, n - 1) = SubSeq(y[2], 1, n - 1)
            /\ \/ n > Len(x[2])
               \/ /\ n <= Len(x[2])
                  /\ \E i, j \in DOMAIN Collation : i < j /\ Collation[i] = x[2][n] /\ Collation[j] = y[2][n]

Binary(op, x, y) ==
    CASE op = "==" -> <<Bool(x = y)>>
      [] op = "~=" -> <<Bool(x # y)>>
      [] op = ".." -> IF Joins(x) /\ Joins(y) THEN <<<<"string", Text(x) \o Text(y)>>>> ELSE <<>>
      [] op \in DOMAIN ArithOps ->
           IF Is(x, "number") /\ Is(y, "number")
           THEN <<<<"number", Arith(ArithOps[op], x[2], y[2])>>>> ELSE <<>>
      [] OTHER ->
           IF x[1] # y[1] \/ ~ Joins(x) THEN <<>>
           ELSE <<Bool(CASE op = "<" -> Before(x, y) [] op = "<=" -> ~ Before(y, x)
                         [] op = ">" -> Before(y, x) [] op = ">=" -> ~ Before(x, y))>>

Unary(op, s, x) ==
    CASE op = "not" -> <<Bool(IsFalse(x))>>
      [] op = "-" -> IF Is(x, "number") THEN <<<<"number", -x[2]>>>> ELSE <<>>
      [] op = "#" -> IF Is(x, "table") THEN <<<<"number", Border(s.tables[x[2]])>>>>
                     ELSE IF Is(x, "string") THEN <<<<"number", Len(x[2])>>>> ELSE <<>>

Maybe(vs, s) == IF vs = <<>> THEN Error(s) ELSE Yields(vs, s)

\* The entries of a constructor, in table t; n items are in it.
RECURSIVE Entries(_, _, _, _, _)
Entries(fields, t, n, env, s) ==
    IF fields = <<>> THEN Yields(<<<<"table", t>>>>, s)
    ELSE LET f == Head(fields)
             r == EvalList(Tail(f), env, s)
             last == Tail(fields) = <<>>
             vs == IF last THEN r.vs ELSE <<FirstOf(r.vs)>>
             items == [s.tables EXCEPT ![t] = [k \in DOMAIN r.s.tables[t] \cup {<<"number", n + m>> : m \in
                           {m \in DOMAIN vs : vs[m] # NilValue}} |->
                         IF k[1] = "number" /\ k[2] > n THEN vs[k[2] - n] ELSE r.s.tables[t][k]]]
         IN  IF ~ r.ok THEN r
             ELSE IF f[1] = "rec" /\ FirstOf(r.vs) = NilValue THEN Error(r.s)
             ELSE IF f[1] = "item"
             THEN Entries(Tail(fields), t, n + Len(vs), env, [r.s EXCEPT !.tables[t] = items[t]])
             ELSE Entries(Tail(fields), t, n, env,
                          [r.s EXCEPT !.tables[t] = Put(@, r.vs[1], Adjusted(r.vs, 2)[2])])

Eval(x, env, s) ==
    CASE x[1] = "nil" -> Yields(<<NilValue>>, s)
      [] x[1] \in {"true", "false"} -> Yields(<<Bool(x[1] = "true")>>, s)
      [] x[1] = "num" -> Yields(<<<<"number", x[2]>>>>, s)
      [] x[1] = "str" -> Yields(<<<<"string", x[2]>>>>, s)
      [] x[1] = "..." -> Yields(env.dots, s)
      [] x[1] = "fn" -> Yields(<<<<"function", Len(s.functions) + 1>>>>,
                               [s EXCEPT !.functions = Append(@, [code |-> x, env |-> env])])
      [] x[1] = "name" -> IF x[2] \in DOMAIN env.cells THEN Yields(<<s.cells[env.cells[x[2]]]>>, s)
                          ELSE Yields(<<Get(s.tables[1], <<"string", <<x[2]>>>>)>>, s)
      [] x[1] = "paren" -> One(Eval(x[2], env, s))
      [] x[1] = "dot" -> LET r == One(Eval(x[2], env, s))
                         IN  IF r.ok THEN Index(r.vs[1], <<"string", <<x[3]>>>>, r.s, MaxTagLoop) ELSE r
      [] x[1] = "index" -> LET r == EvalList(<<x[2], <<"paren", x[3]>>>>, env, s)
                           IN  IF r.ok THEN Index(r.vs[1], r.vs[2], r.s, MaxTagLoop) ELSE r
      [] x[1] = "call" -> LET r == EvalList(<<x[2]>> \o x[3], env, s)
                              f == One(Eval(x[2], env, s))
                          IN  IF x[3] = <<>> THEN IF f.ok THEN Apply(f.vs[1], <<>>, f.s) ELSE f
                              ELSE IF r.ok THEN Apply(r.vs[1], Tail(r.vs), r.s) ELSE r
      [] x[1] = "method" ->
           LET o == One(Eval(x[2], env, s))
               f == Index(o.vs[1], <<"string", <<x[3]>>>>, o.s, MaxTagLoop)
               r == EvalList(x[4], env, f.s)
           IN  IF ~ o.ok THEN o ELSE IF ~ f.ok THEN f
               ELSE IF r.ok THEN Apply(f.vs[1], o.vs \o r.vs, r.s) ELSE r
      [] x[1] = "un" -> LET r == One(Eval(x[3], env, s))
                        IN  IF r.ok THEN Maybe(Unary(x[2], r.s, r.vs[1]), r.s) ELSE r
      [] x[1] = "bin" /\ x[2] \in {"and", "or"} ->
           LET r == One(Eval(x[3], env, s))
           IN  IF ~ r.ok \/ IsFalse(r.vs[1]) = (x[2] = "and") THEN r ELSE One(Eval(x[4], env, r.s))
      [] x[1] = "bin" /\ x[2] \notin {"and", "or"} ->
           LET r == EvalList(<<x[3], <<"paren", x[4]>>>>, env, s)
           IN  IF r.ok THEN Maybe(Binary(x[2], r.vs[1], r.vs[2]), r.s) ELSE r
      [] x[1] = "table" -> Entries(x[2], Len(s.tables) + 1, 0, env,
                                   [s EXCEPT !.tables = Append(@, <<>>), !.metas = Append(@, NilValue)])

-----------------------------------------------------------------------------
(* Statements.  How one ends: sig is "next", "error", "return" or the label *)
(* of a goto.                                                               *)

Ends(sig, vs, env, s) == [sig |-> sig, vs |-> vs, env |-> env, s |-> s]
Left(r, env) == Ends(IF r.ok THEN "next" ELSE "error", IF r.ok THEN <<>> ELSE r.vs, env, r.s)

\* The variables of an assignment are evaluated first: a name, or table and key.
RECURSIVE Places(_, _, _), Assign(_, _, _, _)
Places(xs, env, s) ==
    IF xs = <<>> THEN Yields(<<>>, s)
    ELSE LET x == xs[1]
             r == IF x[1] = "name" THEN Yields(<<x>>, s)
                  ELSE EvalList(<<x[2], <<"paren", IF x[1] = "dot" THEN <<"str", <<x[3]>>>> ELSE x[3]>>>>, env, s)
             rest == Places(Tail(xs), env, r.s)
         IN  IF ~ r.ok THEN r ELSE IF ~ rest.ok THEN rest
             ELSE Yields(<<IF x[1] = "name" THEN x ELSE r.vs>> \o rest.vs, rest.s)

SetGlobal(s, x, v) == [s EXCEPT !.tables[1] = Put(@, <<"string", <<x>>>>, v)]

\* The last variable first, which the manual leaves open.
Assign(places, vs, env, s) ==
    IF places = <<>> THEN Yields(<<>>, s)
    ELSE LET p == Last(places)
             v == vs[Len(places)]
             r == SetIndex(p[1], p[2], v, s, MaxTagLoop)
         IN  IF p[1] = "name"
             THEN Assign(Front(places), vs, env,
                         IF p[2] \in DOMAIN env.cells THEN [s EXCEPT !.cells[env.cells[p[2]]] = v]
                         ELSE SetGlobal(s, p[2], v))
             ELSE IF r.ok THEN Assign(Front(places), vs, env, r.s) ELSE r

\* Another round of a loop, unless its body was left.
Leaves(r) == r.sig # "next"
Broken(r, env) == Ends(IF r.sig = "break" THEN "next" ELSE r.sig, r.vs, env, r.s)

RECURSIVE While(_, _, _, _), Repeat(_, _, _, _), For(_, _, _, _, _, _, _), ForIn(_, _, _, _, _)
While(x, sts, env, s) ==
    LET c == One(Eval(x, env, s))
        r == Run(sts, 1, <<env>>, c.s)
    IN  IF ~ c.ok \/ IsFalse(c.vs[1]) THEN Left(c, env)
        ELSE IF Leaves(r) THEN Broken(r, env) ELSE While(x, sts, env, r.s)

Repeat(sts, x, env, s) ==
    LET r == Run(sts, 1, <<env>>, s)
        c == One(Eval(x, r.env, r.s))
    IN  IF Leaves(r) THEN Broken(r, env)
        ELSE IF ~ c.ok \/ ~ IsFalse(c.vs[1]) THEN Left(c, env) ELSE Repeat(sts, x, env, c.s)

For(x, n, limit, step, sts, env, s) ==
    LET d == Declare(env, s, <<x>>, <<<<"number", n>>>>)
        r == Run(sts, 1, <<d.env>>, d.s)
    IN  IF IF step > 0 THEN n > limit ELSE n < limit THEN Ends("next", <<>>, env, s)
        ELSE IF Leaves(r) THEN Broken(r, env) ELSE For(x, n + step, limit, step, sts, env, r.s)

ForIn(names, vs, sts, env, s) ==
    LET c == Apply(vs[1], <<vs[2], vs[3]>>, s)
        d == Declare(env, c.s, names, c.vs)
        r == Run(sts, 1, <<d.env>>, d.s)
    IN  IF ~ c.ok \/ FirstOf(c.vs) = NilValue THEN Left(c, env)
        ELSE IF Leaves(r) THEN Broken(r, env)
        ELSE ForIn(names, <<vs[1], vs[2], FirstOf(c.vs)>>, sts, env, r.s)

RECURSIVE If(_, _, _, _)
If(clauses, elses, env, s) ==
    LET c == One(Eval(clauses[1][1], env, s))
    IN  IF clauses = <<>>
        THEN IF elses = <<>> THEN Ends("next", <<>>, env, s) ELSE Run(elses[1], 1, <<env>>, s)
        ELSE IF ~ c.ok THEN Left(c, env)
        ELSE IF IsFalse(c.vs[1]) THEN If(Tail(clauses), elses, env, c.s)
        ELSE Run(clauses[1][2], 1, <<env>>, c.s)

\* What a statement does with the variables of env.
Exec(st, env, s) ==
    CASE st[1] = "local" ->
           LET r == EvalList(st[3], env, s)
               d == Declare(env, r.s, st[2], r.vs)
           IN  IF r.ok THEN Ends("next", <<>>, d.env, d.s) ELSE Left(r, env)
      [] st[1] = "localfn" ->
           LET d == Declare(env, s, <<st[2]>>, <<>>)
               r == Eval(st[3], d.env, d.s)
           IN  Ends("next", <<>>, d.env, [r.s EXCEPT !.cells[Len(d.s.cells)] = r.vs[1]])
      [] st[1] = "set" ->
           LET p == Places(st[2], env, s)
               r == EvalList(st[3], env, p.s)
           IN  IF ~ p.ok THEN Left(p, env) ELSE IF ~ r.ok THEN Left(r, env)
               ELSE Left(Assign(p.vs, Adjusted(r.vs, Len(st[2])), env, r.s), env)
      [] st[1] = "function" ->
           LET p == Places(<<st[2]>>, env, s)
               r == Eval(st[3], env, p.s)
           IN  IF ~ p.ok THEN Left(p, env) ELSE Left(Assign(p.vs, r.vs, env, r.s), env)
      [] st[1] = "do" -> [Run(st[2], 1, <<env>>, s) EXCEPT !.env = env]
      [] st[1] = "while" -> While(st[2], st[3], env, s)
      [] st[1] = "repeat" -> Repeat(st[2], st[3], env, s)
      [] st[1] = "if" -> [If(st[2], st[3], env, s) EXCEPT !.env = env]
      [] st[1] = "for" ->
           LET r == EvalList([n \in DOMAIN st[3] |-> <<"paren", st[3][n]>>], env, s)
               vs == [n \in 1 .. 3 |-> IF n <= Len(r.vs) THEN r.vs[n] ELSE <<"number", 1>>]
           IN  IF ~ r.ok THEN Left(r, env)
               ELSE IF \E n \in 1 .. 3 : ~ Is(vs[n], "number") THEN Left(Error(r.s), env)
               ELSE For(st[2], vs[1][2], vs[2][2], vs[3][2], st[4], env, r.s)
      [] st[1] = "forin" ->
           LET r == EvalList(st[3], env, s)
           IN  IF r.ok THEN ForIn(st[2], Adjusted(r.vs, 3), st[4], env, r.s) ELSE Left(r, env)
      [] st[1] = "label" -> Ends("next", <<>>, env, s)
      [] st[1] = "goto" -> Ends(st[2], <<>>, env, s)
      [] st[1] = "return" ->
           LET r == EvalList(st[2], env, s)
           IN  Ends(IF r.ok THEN "return" ELSE "error", r.vs, env, r.s)
      [] OTHER -> Left(Eval(st, env, s), env)

\* A block from statement n on; envs are the environments of the statements that
\* were reached.  A goto back finds the variables that were visible there.
Run(sts, n, envs, s) ==
    IF n > Len(sts) THEN Ends("next", <<>>, envs[n], s)
    ELSE LET r == Exec(sts[n], envs[n], s)
             to == SelectInSeq(sts, LAMBDA st : st = <<"label", r.sig>>)
         IN  IF r.sig = "next" THEN Run(sts, n + 1, Append(envs, r.env), r.s)
             ELSE IF to = 0 THEN [r EXCEPT !.env = envs[1]]
             ELSE Run(sts, to, [m \in 1 .. to |-> IF m <= n THEN envs[m] ELSE envs[n]], r.s)

\* The results of a program; an error is not a value.
Meaning(p) ==
    LET r == Run(p, 1, <<[cells |-> <<>>, dots |-> <<>>]>>,
                 [cells |-> <<>>, tables |-> <<BaseLibrary>>, metas |-> <<NilValue>>, functions |-> <<>>])
    IN  IF r.sig = "error" THEN <<"error">> ELSE r.vs

-----------------------------------------------------------------------------

\* The virtual machine, with the code of the compiler, returns what the program
\* means, or fails where it fails.
ResultRight ==
    status # "run" => Expected[prog] = IF status = "error" THEN <<"error">> ELSE result

\* The assertions of the compiler hold and it rejects no program: registers are
\* freed in order, blocks start and end with no temporary, jumps are patched once.
CompilesCleanly == Mains[prog].ok /\ ~ Mains[prog].rejected

\* Unless an open call or "..." left its values for the next instruction, the top
\* of the stack is that of the frame.
TopOfFrame ==
    status = "run" /\ Ci.kind = "lua" =>
        LET i == Ins
        IN  top # Ci.top => i.op \in {"CALL", "TAILCALL", "RETURN", "SETLIST"} /\ i.b = 0

\* The registers of a frame are on its part of the stack: no instruction reaches
\* beyond maxstacksize, and no jump out of the function.
Reaches(i) ==
    CASE i.op = "LOADNIL" -> i.a + i.b
      [] i.op \in {"SELF", "CLOSURE"} -> i.a + (IF i.op = "SELF" THEN 1 ELSE 0)
      [] i.op \in {"CALL", "TAILCALL"} -> i.a + (IF i.b = 0 THEN 0 ELSE i.b - 1)
      [] i.op = "RETURN" /\ i.b > 1 -> i.a + i.b - 2
      [] i.op = "VARARG" /\ i.b > 1 -> i.a + i.b - 2
      [] i.op \in {"FORPREP", "FORLOOP"} -> i.a + 3
      [] i.op = "TFORCALL" -> i.a + 2 + (IF i.c > 3 THEN i.c ELSE 3)
      [] i.op = "SETLIST" -> i.a + i.b
      [] i.op \in {"JMP", "SETUPVAL"} -> 0
      [] OTHER -> i.a

Contained ==
    status = "run" /\ Ci.kind = "lua" =>
        LET i == Fn.code[Ci.pc + 1]
        IN  /\ Reaches(i) < Fn.maxstacksize
            /\ i.op \in {"JMP", "FORPREP", "FORLOOP", "TFORLOOP"} => i.b \in 0 .. Len(Fn.code) - 1
=============================================================================
