------------------------------- MODULE MCLuaVM -------------------------------
(* Families of programs, each with a part that is enumerated.              *)
EXTENDS LuaSemantics
LOCAL INSTANCE SequencesExt

-----------------------------------------------------------------------------
(* The syntax. *)

N(x) == <<"name", x>>
K(n) == <<"num", n>>
Str(c) == <<"str", <<c>>>>
NilX == <<"nil">>
Dots == <<"...">>
Bin(x, op, y) == <<"bin", op, x, y>>
NotX(x) == <<"un", "not", x>>
Fun(params, body) == <<"fn", params, FALSE, body>>
VFun(params, body) == <<"fn", params, TRUE, body>>
Do(f, args) == <<"call", f, args>>
At(t, k) == <<"index", t, k>>
Dot(t, x) == <<"dot", t, x>>
Loc(x, e) == <<"local", <<x>>, <<e>>>>
Let1(x, e) == <<"set", <<x>>, <<e>>>>
Rtn(xs) == <<"return", xs>>
If1(c, sts) == <<"if", <<<<c, sts>>>>, <<>>>>
Goto(x) == <<"goto", x>>
Break == Goto("break")

-----------------------------------------------------------------------------
(* Conditions: "and", "or", "not" and comparisons, where a value or a jump   *)
(* is wanted.                                                                *)

Given == <<"local", <<"a", "b", "f">>, <<K(1), <<"false">>, Fun(<<>>, <<Rtn(<<NilX, K(4)>>)>>)>>>>

\* All combinations of the members of two sequences, and Op of each member.  (TLC
\* reads s and t once, and "<<>> \o" has it evaluate the sequence.)
Pairs(s, t, Op(_, _)) ==
    CHOOSE r \in {<<>> \o [n \in 1 .. Len(u) * Len(v) |->
                            Op(u[(n - 1) \div Len(v) + 1], v[((n - 1) % Len(v)) + 1])]
                  : u \in {s}, v \in {t}} : TRUE
Each(s, Op(_)) == CHOOSE r \in {<<>> \o [n \in DOMAIN u |-> Op(u[n])] : u \in {s}} : TRUE

Logic(s, t) ==
    Pairs(s, t, LAMBDA x, y : Bin(x, "and", y)) \o Pairs(s, t, LAMBDA x, y : Bin(x, "or", y))

Leaf == <<N("a"), N("b"), K(3), <<"false">>, Do(N("f"), <<>>), Bin(N("a"), "<", K(2)), NotX(N("a"))>>
Few == <<N("b"), K(3), Bin(N("a"), ">=", K(2)), NilX>>
Two == Logic(Leaf, Leaf)
FewTwo == Logic(Few, Few)
Inner == FewTwo \o Each(FewTwo, NotX)
Conditions == Two \o Each(Two, NotX)
Nested == Logic(Inner, Few) \o Logic(Few, Inner)

Wanted(c, place) ==
    CASE place = "result" -> <<Rtn(<<c>>)>>
      [] place = "local" -> <<Let1(N("a"), c), Rtn(<<N("b"), N("a")>>)>>
      [] place = "condition" -> <<<<"if", <<<<c, <<Rtn(<<K(1)>>)>>>>>>, <<<<Rtn(<<K(2)>>)>>>>>>>>
      [] place = "argument" -> <<Rtn(<<Do(Fun(<<"x", "y">>, <<Rtn(<<N("y")>>)>>), <<c, c>>)>>)>>
LogicPrograms ==
    LET program(c, place) == <<Given>> \o Wanted(c, place)
    IN  Pairs(Conditions, <<"result", "local", "condition", "argument">>, program)
        \o Pairs(Nested, <<"local">>, program)

-----------------------------------------------------------------------------
(* Multiple assignments to variables, upvalues, globals and fields that the  *)
(* others use.                                                               *)

Targets2 == <<N("a"), N("t"), N("u"), N("g"), At(N("t"), N("a")), Dot(N("t"), "x"), Dot(N("u"), "x")>>
Source == <<K(9), Bin(N("a"), "+", K(1)), N("t")>>
Sources ==
    Pairs(Source, Source, LAMBDA x, y : <<x, y>>)
    \o <<<<K(9)>>, <<Do(N("h"), <<>>)>>, <<K(7), Do(N("h"), <<>>), N("a")>>>>
AssignmentPrograms ==
    Pairs(Pairs(Targets2, Targets2, LAMBDA x, y : <<x, y>>), Sources,
      LAMBDA vs, es :
        <<<<"local", <<"u", "h">>, <<<<"table", <<<<"rec", Str("x"), K(3)>>>>>>,
                                     Fun(<<>>, <<Rtn(<<K(5), K(6)>>)>>)>>>>,
          <<"localfn", "f", Fun(<<>>,
              <<<<"local", <<"a", "t">>, <<K(1), <<"table", <<<<"rec", Str("x"), K(2)>>, <<"item", K(4)>>>>>>>>>>,
                <<"local", <<"s", "w">>, <<N("t"), N("u")>>>>,
                <<"set", vs, es>>,
                Rtn(<<N("a"), N("t"), N("u"), N("g"), At(N("s"), K(1)), Dot(N("s"), "x"), Dot(N("w"), "x")>>)>>)>>,
          Rtn(<<Do(N("f"), <<>>)>>)>>)

-----------------------------------------------------------------------------
(* Loops that make functions of their variables and are left in every way.  *)

Counter(x) == Fun(<<>>, <<Let1(N(x), Bin(N(x), "+", K(1))), Rtn(<<N(x)>>)>>)
Makes(x) == Let1(At(N("fs"), N("i")), Counter(x))
At2 == Bin(N("i"), "==", K(2))
Parts == <<Makes("x"), If1(At2, <<Break>>), If1(At2, <<Goto("cont")>>)>>
Orders == <<<<>>, <<1>>, <<2>>, <<3>>, <<1, 2>>, <<2, 1>>, <<1, 3>>, <<3, 1>>, <<1, 2, 3>>, <<3, 2, 1>>>>
\* The last statements: none, another local function, or a block that is left.
Last3 == <<<<>>, <<Loc("y", N("x")), Makes("y")>>,
           <<<<"do", <<Loc("y", K(8)), Makes("y"), If1(At2, <<Break>>), Loc("z", N("y"))>>>>>>>>
Loop(kind, sts) ==
    LET next == <<Let1(N("i"), Bin(N("i"), "+", K(1))), Loc("x", N("i"))>>
    IN  CASE kind = "while" -> <<"while", Bin(N("i"), "<", K(3)), next \o sts>>
          [] kind = "repeat" -> <<"repeat", next \o <<<<"do", sts>>>>, Bin(N("x"), ">=", K(3))>>
          [] kind = "for" -> <<"for", "i", <<K(1), K(3)>>, <<Loc("x", N("i"))>> \o sts>>
          [] kind = "down" -> <<"for", "x", <<K(3), K(1), K(-1)>>, <<Loc("i", N("x"))>> \o sts>>
          [] kind = "forin" ->
               <<"forin", <<"i", "x">>,
                 <<Fun(<<"s", "n">>, <<If1(Bin(N("n"), "<", N("s")), <<Rtn(<<Bin(N("n"), "+", K(1)), K(7)>>)>>)>>),
                   K(3), K(0)>>, sts>>
Called(n) == Bin(At(N("fs"), K(n)), "and", Do(At(N("fs"), K(n)), <<>>))
LoopPrograms ==
    Pairs(<<"while", "repeat", "for", "down", "forin">>,
          Pairs(Orders, Last3, LAMBDA o, l :
                  [n \in DOMAIN o |-> Parts[o[n]]] \o l \o <<<<"label", "cont">>>>),
      LAMBDA kind, sts :
        <<<<"local", <<"i", "fs">>, <<K(0), <<"table", <<>>>>>>>>, Loop(kind, sts),
          <<"local", <<"p", "q">>, <<K(4), K(4)>>>>,
          Rtn(<<Called(1), Called(1), Called(2), Called(3), N("i")>>)>>)

\* Gotos back over the variables that were captured, and out of nested blocks.
GotoPrograms ==
    Each(<<<<>>, <<Makes("x")>>, <<Loc("y", N("x")), Makes("y")>>,
           <<<<"do", <<Loc("y", N("x")), Makes("y"), If1(Bin(N("i"), "<", K(3)), <<Goto("top")>>)>>>>>>,
           <<<<"do", <<Loc("y", N("x")), Makes("y"), Goto("out")>>>>>>,
           <<<<"if", <<<<Bin(N("i"), ">", K(1)), <<Goto("out"), <<"label", "l">>>>>>,
                       <<Bin(N("i"), "<", K(1)), <<Goto("top"), <<"label", "l">>, Loc("z", K(1))>>>>>>,
               <<<<Makes("x"), Goto("top")>>>>>>>>>>,
      LAMBDA sts :
        <<<<"local", <<"i", "fs">>, <<K(0), <<"table", <<>>>>>>>>,
          <<"do",
            <<<<"label", "top">>, Let1(N("i"), Bin(N("i"), "+", K(1))), Loc("x", N("i"))>> \o sts
            \o <<If1(Bin(N("i"), "<", K(3)), <<Goto("top")>>), <<"label", "out">>>>>>,
          <<"local", <<"p", "q">>, <<K(4), K(4)>>>>,
          Rtn(<<Called(1), Called(1), Called(2), Called(3), N("i")>>)>>)

-----------------------------------------------------------------------------
(* Calls: parameters, "..." and results.                                     *)

Bodies == <<<<Rtn(<<N("p"), Dots>>)>>, <<Rtn(<<Dots, N("p")>>)>>, <<Rtn(<<<<"paren", Dots>>>>)>>,
            <<Loc("q", Dots), Rtn(<<Do(N("h"), <<N("q"), Dots>>)>>)>>,
            <<Loc("q", Fun(<<>>, <<Rtn(<<N("p")>>)>>)), Rtn(<<Do(N("q"), <<>>)>>)>>>>
ArgLists == <<<<>>, <<K(1)>>, <<K(1), K(2), K(3)>>, <<Do(N("h"), <<>>), K(2)>>,
              <<K(2), Do(N("h"), <<K(3), K(4)>>)>>>>
Uses(c, use) ==
    CASE use = "tail" -> <<Rtn(<<c>>)>>
      [] use = "one" -> <<Rtn(<<<<"paren", c>>>>)>>
      [] use = "first" -> <<Rtn(<<c, K(7)>>)>>
      [] use = "last" -> <<Rtn(<<K(7), c>>)>>
      [] use = "locals" -> <<<<"local", <<"x", "y", "z">>, <<c>>>>, Rtn(<<N("z"), N("y"), N("x")>>)>>
      [] use = "table" -> <<Loc("t", <<"table", <<<<"item", K(8)>>, <<"item", c>>>>>>),
                            Rtn(<<At(N("t"), K(1)), At(N("t"), K(2)), At(N("t"), K(3)), At(N("t"), K(4))>>)>>
      [] use = "none" -> <<c, Rtn(<<>>)>>
CallPrograms ==
    Pairs(Pairs(Bodies, <<<<"p">>, <<"o", "p">>>>, LAMBDA b, ps : VFun(ps, b)),
          Pairs(ArgLists, <<"tail", "one", "first", "last", "locals", "table", "none">>,
                LAMBDA as, use : Uses(Do(N("f"), as), use)),
      LAMBDA f, sts :
        <<<<"localfn", "h", VFun(<<>>, <<Rtn(<<K(5), Dots>>)>>)>>, <<"localfn", "f", f>>>> \o sts)

-----------------------------------------------------------------------------
(* Constructors, operators, functions that share variables, and errors.      *)

Field == <<<<"item", K(3)>>, <<"item", Do(N("h"), <<>>)>>, <<"rec", Str("x"), K(4)>>>>
Fields2 == Pairs(Field, Field, LAMBDA x, y : <<x, y>>)
Fields4 == Pairs(Fields2, Fields2, LAMBDA x, y : x \o y)
TablePrograms ==
    Each(<<<<>>>> \o Each(Field, LAMBDA x : <<x>>) \o Fields2
         \o Pairs(Fields2, Field, LAMBDA x, y : x \o <<y>>) \o Fields4
         \o Pairs(Fields4, Field, LAMBDA x, y : x \o <<y>>),
      LAMBDA fields :
        <<<<"localfn", "h", Fun(<<>>, <<Rtn(<<K(5), K(6)>>)>>)>>,
          Loc("t", <<"table", fields>>),
          Rtn(<<At(N("t"), K(1)), At(N("t"), K(2)), At(N("t"), K(3)), At(N("t"), K(5)),
                At(N("t"), K(6)), At(N("t"), K(7)), Dot(N("t"), "x"), <<"un", "#", N("t")>>>>)>>)

Number == <<N("a"), K(3), Do(N("h"), <<>>)>>
Ops(s, t, ops) ==
    Pairs(ops, Pairs(s, t, LAMBDA x, y : <<x, y>>), LAMBDA o, xs : Bin(xs[1], o, xs[2]))
Sums == Ops(Number, Number, <<"+", "-", "*">>)
Sum3 == Ops(Sums, Number, <<"+", "-", "*", "%", "..">>) \o Ops(Number, Sums, <<"+", "-", "*", "..">>)
        \o Each(Sums, LAMBDA x : <<"un", "-", x>>)
        \o Ops(Number, Ops(Number, Number, <<"..">>), <<"..">>)
        \o Ops(Ops(Number, Number, <<"..">>), Number, <<"..">>)
ArithPrograms ==
    Each(Sum3, LAMBDA x :
        <<<<"local", <<"a", "h">>, <<K(2), Fun(<<>>, <<Rtn(<<K(4)>>)>>)>>>>,
          Loc("b", x), Rtn(<<N("b"), <<"un", "#", Str("s")>>>>)>>)

\* Comparisons of strings and numbers, one of them the string that a number became.
Letters == <<"3", "a", "b">>
Ranked == <<Str("a"), Str("b"), <<"str", <<>>>>, <<"str", <<"a", "b">>>>, Bin(N("a"), "..", Str("a")), N("a"), N("n")>>
ComparePrograms ==
    Pairs(Ops(Ranked, Ranked, <<"<", "<=", ">", ">=">>), <<"result", "condition">>,
      LAMBDA c, place : <<<<"local", <<"a", "n">>, <<K(3)>>>>>> \o Wanted(c, place))

Wrong == <<Do(N("n"), <<>>), Do(N("g"), <<K(1)>>), Dot(N("g"), "x"), At(N("n"), K(1)),
           <<"method", N("n"), "m", <<>>>>, Bin(N("n"), "+", K(1)), <<"un", "-", N("n")>>,
           <<"un", "#", N("g")>>, Bin(N("n"), "<", K(1)), Bin(K(1), "..", N("n")), Bin(N("n"), "==", NilX)>>
ErrorPrograms ==
    Each(Wrong, LAMBDA x :
        <<Let1(N("g"), K(1)), Loc("f", Fun(<<"n">>, <<Loc("r", x), Rtn(<<N("r")>>)>>)),
          Rtn(<<Do(N("f"), <<>>)>>)>>)
    \o <<<<Loc("t", <<"table", <<>>>>), Let1(At(N("t"), NilX), K(1)), Rtn(<<K(1)>>)>>,
         <<Let1(Dot(N("g"), "x"), K(1)), Rtn(<<K(1)>>)>>,
         <<<<"for", "i", <<K(1), NilX>>, <<>>>>, Rtn(<<K(1)>>)>>,
         <<<<"forin", <<"i">>, <<K(1)>>, <<>>>>, Rtn(<<K(1)>>)>>>>

SharedPrograms ==
    <<  \* two functions of one variable, one of which makes functions
        <<Loc("x", K(0)), <<"localfn", "inc", Counter("x")>>,
          <<"localfn", "mk", Fun(<<"y">>, <<Rtn(<<Fun(<<>>,
              <<Let1(N("x"), Bin(N("x"), "+", N("y"))), Rtn(<<Do(N("inc"), <<>>)>>)>>)>>)>>)>>,
          <<"local", <<"f", "g">>, <<Do(N("mk"), <<K(2)>>), Do(N("mk"), <<K(4)>>)>>>>,
          Rtn(<<Do(N("f"), <<>>), Do(N("g"), <<>>), Do(N("f"), <<>>), N("x")>>)>>,
        \* a recursive function
        <<<<"localfn", "fac", Fun(<<"n">>,
              <<If1(Bin(N("n"), "<=", K(1)), <<Rtn(<<K(1)>>)>>),
                Rtn(<<Bin(N("n"), "*", Do(N("fac"), <<Bin(N("n"), "-", K(1))>>))>>)>>)>>,
          Rtn(<<Do(N("fac"), <<K(3)>>)>>)>>,
        \* one function that a loop makes twice, and its variable
        <<<<"local", <<"n", "fs">>, <<K(0), <<"table", <<>>>>>>>>,
          <<"for", "i", <<K(1), K(2)>>, <<Let1(At(N("fs"), N("i")), Counter("n"))>>>>,
          Rtn(<<Called(1), Called(2), N("n")>>)>>,
        \* a method
        <<Loc("t", <<"table", <<<<"rec", Str("x"), K(1)>>>>>>),
          <<"function", Dot(N("t"), "m"), Fun(<<"self", "y">>,
              <<Let1(Dot(N("self"), "x"), Bin(Dot(N("self"), "x"), "+", N("y"))),
                Rtn(<<Dot(N("self"), "x"), N("y")>>)>>)>>,
          <<"method", N("t"), "m", <<K(4)>>>>,
          Rtn(<<<<"method", N("t"), "m", <<K(2)>>>>, <<"method", N("t"), "m", <<K(3)>>>>>>)>>,
        \* a variable of the function around the one around
        <<Loc("x", K(1)),
          <<"localfn", "f", Fun(<<>>, <<Loc("g", Fun(<<>>, <<Let1(N("x"), Bin(N("x"), "+", K(1))),
                                                             Rtn(<<N("x")>>)>>)), Rtn(<<N("g")>>)>>)>>,
          Rtn(<<Do(Do(N("f"), <<>>), <<>>), Do(Do(N("f"), <<>>), <<>>), N("x")>>)>>  >>

\* Functions that return, raise an error, make functions of their variables or
\* catch errors themselves, called through pcall in every way.
Throws == <<<<"true">>, NilX, K(3), Str("s")>>
Making(x, sts) == <<Loc(x, N("p")), Let1(N("g"), Counter(x)), Let1(N(x), K(6))>> \o sts
ProtectedBodies ==
    <<<<Rtn(<<K(1), N("p")>>)>>, Making("x", <<Rtn(<<>>)>>), Making("x", <<Loc("r", Bin(NilX, "+", N("p")))>>),
      <<Loc("f", Fun(<<"p">>, Making("y", <<Do(N("n"), <<>>)>>))), Do(N("f"), <<K(4)>>)>>,
      <<Rtn(<<Do(N("pcall"), <<Fun(<<"p">>, Making("x", <<Do(N("error"), <<N("p")>>)>>)), K(2)>>), N("p")>>)>>,
      <<Loc("q", Do(N("pcall"), <<N("error"), K(2)>>)), Do(N("error"), <<N("q")>>)>>,
      <<<<"for", "i", <<K(1), K(3)>>, Making("x", <<If1(At2, <<Do(N("error"), <<N("i")>>)>>)>>)>>>>>>
    \o Each(Throws, LAMBDA v : Making("x", <<Do(N("error"), <<v>>)>>))
PCallArgs ==
    <<<<>>, <<N("f")>>, <<N("f"), K(5), K(7)>>, <<N("n")>>, <<N("pcall"), N("f"), K(5)>>, <<N("error"), <<"false">>>>,
      <<Fun(<<>>, <<Rtn(<<Do(N("f"), <<K(8)>>)>>)>>)>>>>
ProtectedPrograms ==
    Pairs(ProtectedBodies,
          Pairs(PCallArgs, <<"tail", "one", "first", "last", "locals", "table", "none">>,
                LAMBDA as, use : Uses(Do(N("pcall"), as), use)),
      LAMBDA body, sts :
        <<Let1(N("g"), Fun(<<>>, <<>>)), Loc("f", Fun(<<"p">>, body)), Loc("h", Fun(<<>>, sts)),
          <<"local", <<"a", "b", "c", "d">>, <<Do(N("h"), <<>>)>>>>,
          Rtn(<<N("a"), N("b"), N("c"), N("d"), Do(N("g"), <<>>), Do(N("g"), <<>>)>>)>>)

\* Objects with metatables: fields that are found in another table, in a chain of
\* them, by a function or not at all, and stores that go elsewhere; set before or
\* after the absence of a metamethod was seen, directly or through another object.
With(t, m) == Do(N("setmetatable"), <<t, m>>)
Rec(fields) == <<"table", [n \in DOMAIN fields |-> <<"rec", Str(fields[n][1]), fields[n][2]>>]>>
Handlers ==
    <<Rec(<<<<"x", K(5)>>>>), With(Rec(<<<<"y", K(1)>>>>), Rec(<<<<"__index", Rec(<<<<"x", K(6)>>>>)>>>>)),
      With(Rec(<<>>), Rec(<<<<"__newindex", N("u")>>>>)), With(Rec(<<>>), N("m")), N("u"), N("t"), N("pcall"), K(1),
      Fun(<<"t", "k", "v">>, <<Rtn(<<N("k"), N("v")>>)>>), Fun(<<>>, <<>>),
      Fun(<<"t", "k", "v">>, <<Loc("y", N("v")), Let1(N("g"), Counter("y")), Let1(N("y"), K(6)), Rtn(<<Do(N("g"), <<>>)>>)>>),
      Fun(<<"t", "k", "v">>, <<Let1(Dot(N("u"), "x"), N("v")), Rtn(<<Do(N("error"), <<N("k")>>)>>)>>)>>
FieldPrograms ==
    Pairs(Pairs(Handlers, <<N("m"), N("p")>>, LAMBDA h, o : Let1(Dot(o, "__index"), h)),
          <<"tail", "one", "first", "last", "locals", "table">>,
      LAMBDA set, use :
        <<<<"local", <<"m", "u", "t">>, <<Rec(<<>>), Rec(<<>>)>>>>, Let1(N("t"), With(Rec(<<>>), N("m"))),
          Loc("p", With(Rec(<<>>), Rec(<<<<"__newindex", N("m")>>>>))),
          Loc("a", Dot(N("t"), "x")), set, Let1(N("a"), Bin(N("a"), "or", Dot(N("t"), "y")))>>
        \o Uses(Do(Fun(<<>>, <<Rtn(<<Dot(N("t"), "x"), N("a")>>)>>), <<>>), use))
StorePrograms ==
    Pairs(Pairs(Handlers, <<N("m"), N("p")>>, LAMBDA h, o : Let1(Dot(o, "__newindex"), h)), <<Str("x"), NilX, Str("z")>>,
      LAMBDA set, key :
        <<<<"local", <<"m", "u", "t">>, <<Rec(<<>>), Rec(<<>>)>>>>,
          Let1(N("t"), With(Rec(<<<<"z", K(1)>>>>), N("m"))),
          Loc("p", With(Rec(<<>>), Rec(<<<<"__newindex", N("m")>>>>))),
          Let1(Dot(N("t"), "y"), K(2)), set,
          Loc("r", Do(N("pcall"), <<Fun(<<>>, <<Let1(At(N("t"), key), K(3)), Let1(At(N("t"), key), K(4))>>)>>)),
          Rtn(<<N("r"), Dot(N("t"), "x"), Dot(N("t"), "z"), Dot(N("u"), "x"), Dot(N("m"), "x"), Bin(N("g"), "and", Do(N("g"), <<>>))>>)>>)
MetaPrograms ==
    FieldPrograms \o StorePrograms
    \o Each(<<<<>>, <<K(1)>>, <<K(1), Rec(<<>>)>>, <<Rec(<<>>)>>, <<Rec(<<>>), K(1)>>, <<Rec(<<>>), NilX>>,
              <<N("o"), NilX>>, <<N("o"), Rec(<<>>)>>,
              <<With(Rec(<<>>), Rec(<<<<"__metatable", K(1)>>>>)), NilX>>>>,
         LAMBDA args :  \* the objects of lproto.lua, whose metatable is then changed
           <<Loc("prot", Rec(<<>>)),
             <<"function", Dot(N("prot"), "m"), Fun(<<"self", "y">>, <<Rtn(<<Bin(Dot(N("self"), "x"), "+", N("y"))>>)>>)>>,
             Loc("o", With(Rec(<<<<"x", K(3)>>>>), Rec(<<<<"__index", N("prot")>>>>))),
             Loc("a", <<"method", N("o"), "m", <<K(2)>>>>),
             Loc("r", Do(N("pcall"), <<N("setmetatable")>> \o args)),
             Rtn(<<N("a"), N("r"), Bin(Dot(N("o"), "m"), "==", NilX), Dot(N("o"), "x")>>)>>)

\* Loops with one to five expressions where three are used.
ForListPrograms ==
    Pairs(<<1, 2, 3, 4, 5>>, <<<<Loc("x", K(5)), Rtn(<<N("x")>>)>>, <<Rtn(<<N("k")>>)>>>>,
      LAMBDA n, sts :
        <<Loc("f", Fun(<<>>, <<Rtn(<<K(2)>>)>>)),
          <<"forin", <<"k">>, SubSeq(<<N("f"), N("f"), NilX, K(4), K(6)>>, 1, n), sts>>>>)

Scripts ==
    AssignmentPrograms \o LogicPrograms \o LoopPrograms \o GotoPrograms \o CallPrograms
    \o ProtectedPrograms \o MetaPrograms \o TablePrograms \o ArithPrograms \o ComparePrograms
    \o ErrorPrograms \o SharedPrograms

\* The constants.  (With LET, TLC counts no coverage inside of the compiler.)
Compiled == Each(Scripts, MainFunc)
Meanings == Each(Scripts, Meaning)
CompiledScripts == LET code == Compiled IN code
MeaningsOfScripts == LET values == Meanings IN values
CompiledForLists == LET code == Each(ForListPrograms, MainFunc) IN code
MeaningsOfForLists == LET values == Each(ForListPrograms, Meaning) IN values
=============================================================================
