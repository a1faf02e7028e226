------------------------------ MODULE LuaParser ------------------------------
(***************************************************************************)
(* The Lua compiler (lparser.c), which generates code while it reads: an   *)
(* operator per rule of the grammar, from the syntax tree.  Scanning,      *)
(* precedence and the syntax errors are left out.                          *)
(*                                                                         *)
(* Expressions: <<"nil">>, <<"true">>, <<"false">>, <<"...">>,             *)
(*   <<"num", n>>, <<"str", s>>, <<"name", x>>, <<"paren", e>>,            *)
(*   <<"dot", e, x>>, <<"index", e, k>>, <<"call", f, args>>,              *)
(*   <<"method", e, x, args>>, <<"un", op, e>>, <<"bin", op, e1, e2>>,     *)
(*   <<"fn", params, vararg, body>>, <<"table", fields>> with the fields   *)
(*   <<"item", e>> and <<"rec", k, e>>.                                    *)
(* Statements: <<"local", names, exps>>, <<"localfn", x, fn>>,             *)
(*   <<"set", vars, exps>>, <<"function", var, fn>>, <<"do", body>>,       *)
(*   <<"while", e, body>>, <<"repeat", body, e>>,                          *)
(*   <<"if", <<<<e, body>>, ...>>, elses>> with elses <<>> or <<body>>,    *)
(*   <<"for", x, exps, body>>, <<"forin", names, exps, body>>,             *)
(*   <<"label", x>>, <<"goto", x>>, <<"return", exps>>, calls.             *)
(* A break is <<"goto", "break">>; an "until" follows the last statement of  *)
(* a repeat block, whose labels are never the last.                        *)
(***************************************************************************)
EXTENDS LuaCode
LOCAL INSTANCE SequencesExt

RECURSIVE Expr(_, _), StatList(_, _), Function(_, _)

-----------------------------------------------------------------------------
(* Variables. *)

\* open_func.  The state of the enclosing function is in prev.
OpenFunc(prev, vararg) ==
    [code |-> <<>>, k |-> <<>>, protos |-> <<>>, upvals |-> <<>>,
     lasttarget |-> 0, jpc |-> NoJump, freereg |-> 0, nactvar |-> 0, vars |-> <<>>,
     bl |-> <<[nactvar |-> 0, firstlabel |-> 0, firstgoto |-> 0, upval |-> FALSE, isloop |-> FALSE]>>,
     labels |-> <<>>, gotos |-> <<>>, lh |-> <<>>,
     maxstacksize |-> 2, numparams |-> 0, vararg |-> vararg,
     e |-> E("void", 0), ok |-> TRUE, rejected |-> FALSE, prev |-> prev]

\* new_localvar and adjustlocalvars
AdjustLocalVars(fs, names) ==
    [fs EXCEPT !.vars = @ \o names, !.nactvar = @ + Len(names)]

\* searchvar and searchupvalue: the last local variable with the name, or -1.
SearchVar(fs, n) == SelectLastInSeq(SubSeq(fs.vars, 1, fs.nactvar), LAMBDA v : v = n) - 1
SearchUpvalue(fs, n) == SelectInSeq(fs.upvals, LAMBDA u : u.name = n) - 1

\* removevars
RemoveVars(fs, level) == [fs EXCEPT !.vars = SubSeq(@, 1, level), !.nactvar = level]

\* markupval: the block of the variable will have to close it.
MarkUpval(fs, level) ==
    [fs EXCEPT !.bl[SelectLastInSeq(fs.bl, LAMBDA b : b.nactvar <= level)].upval = TRUE]

\* newupvalue for the variable that the enclosing function found.
NewUpvalue(fs, n, v) ==
    [fs EXCEPT !.upvals = Append(@, [name |-> n, instack |-> v.k = "local", idx |-> v.i])]

\* singlevaraux: a variable of an enclosing function becomes an upvalue of all
\* functions between.
RECURSIVE Resolve(_, _, _)
Resolve(fs, n, base) ==
    LET v == SearchVar(fs, n)
        known == SearchUpvalue(fs, n)
        outer == Resolve(fs.prev[1], n, FALSE)
        up == NewUpvalue([fs EXCEPT !.prev = <<outer>>], n, outer.e)
    IN  IF v >= 0 THEN SetE(IF base THEN fs ELSE MarkUpval(fs, v), E("local", v))
        ELSE IF known >= 0 THEN SetE(fs, E("upval", known))
        ELSE IF fs.prev = <<>> \/ outer.e.k = "void" THEN SetE(fs, E("void", 0))
        ELSE SetE(up, E("upval", Len(fs.upvals)))

\* singlevar: a global is a field of _ENV.
SingleVar(fs, n) ==
    LET v == Resolve(fs, n, TRUE)
        env == Resolve(v, "_ENV", TRUE)
    IN  IF v.e.k # "void" THEN v ELSE Indexed(StringK(env, <<n>>), env.e)

AdjustAssign(fs, nvars, nexps) ==
    LET extra == nvars - nexps
        more == IF extra + 1 < 0 THEN 0 ELSE extra + 1
        open == SetReturns(fs, more)
        v == IF fs.e.k = "void" THEN fs ELSE Exp2NextReg(fs)
    IN  IF HasMultRet(fs.e) THEN IF more > 1 THEN ReserveRegs(open, more - 1) ELSE open
        ELSE IF extra > 0 THEN Nil(ReserveRegs(v, extra), v.freereg, extra) ELSE v

-----------------------------------------------------------------------------
(* Blocks, labels and gotos. *)

EnterBlock(fs, isloop) ==
    Asserts([fs EXCEPT !.bl = Append(@,
               [nactvar |-> fs.nactvar, firstlabel |-> Len(fs.labels),
                firstgoto |-> Len(fs.gotos), upval |-> FALSE, isloop |-> isloop])],
           fs.freereg = fs.nactvar)

\* newlabelentry, of a label or of a goto.
NewLabelEntry(n, pc, nactvar) == [name |-> n, pc |-> pc, nactvar |-> nactvar]

\* closegoto: a goto into the scope of a local variable is an error.
CloseGoto(fs, g, label) ==
    PatchList([fs EXCEPT !.gotos = RemoveAt(@, g),
                         !.rejected = @ \/ fs.gotos[g].nactvar < label.nactvar],
              fs.gotos[g].pc, label.pc)

\* findlabel: a goto to a label that the current block already has.
FindLabel(fs, g) ==
    LET found == {l \in Last(fs.bl).firstlabel + 1 .. Len(fs.labels) : fs.labels[l].name = fs.gotos[g].name}
        label == fs.labels[CHOOSE l \in found : TRUE]
    IN  IF found = {} THEN fs
        ELSE CloseGoto(IF fs.gotos[g].nactvar > label.nactvar
                       THEN PatchClose(fs, fs.gotos[g].pc, label.nactvar) ELSE fs, g, label)

\* findgotos: the pending gotos of the current block, from g on, to a new label.
RECURSIVE FindGotos(_, _, _)
FindGotos(fs, label, g) ==
    IF g > Len(fs.gotos) THEN fs
    ELSE IF fs.gotos[g].name = label.name THEN FindGotos(CloseGoto(fs, g, label), label, g)
    ELSE FindGotos(fs, label, g + 1)

\* checkrepeated: a block has a label once.
CheckRepeated(fs, n) ==
    [fs EXCEPT !.rejected = @ \/ \E l \in Last(fs.bl).firstlabel + 1 .. Len(fs.labels) : fs.labels[l].name = n]

\* labelstat and breaklabel.  A label at the end of a block is outside the scope
\* of the variables of the block.
LabelStat(fs, n, nactvar) ==
    LET label == NewLabelEntry(n, Pc(fs), nactvar)
    IN  FindGotos([fs EXCEPT !.labels = Append(@, label)], label, Last(fs.bl).firstgoto + 1)

\* gotostat of the list of jumps at pc.
GotoStat(fs, n, pc) ==
    FindLabel([fs EXCEPT !.gotos = Append(@, NewLabelEntry(n, pc, fs.nactvar))],
              Len(fs.gotos) + 1)

\* movegotosout: the gotos, from g on, that the block bl leaves pending.
RECURSIVE MoveGotosOut(_, _, _)
MoveGotosOut(fs, bl, g) ==
    IF g > Len(fs.gotos) THEN fs
    ELSE LET leaves == fs.gotos[g].nactvar > bl.nactvar
             closed == IF leaves /\ bl.upval THEN PatchClose(fs, fs.gotos[g].pc, bl.nactvar) ELSE fs
             out == IF leaves THEN [closed EXCEPT !.gotos[g].nactvar = bl.nactvar] ELSE closed
             next == FindLabel(out, g)
         IN  MoveGotosOut(next, bl, IF Len(next.gotos) = Len(fs.gotos) THEN g + 1 ELSE g)

\* leaveblock: a jump to here closes the upvalues of the block.  A goto that is
\* pending at the end of the function is an error.
LeaveBlock(fs) ==
    LET bl == Last(fs.bl)
        inner == Len(fs.bl) > 1
        closed == IF inner /\ bl.upval
                  THEN PatchToHere(PatchClose(Jump(fs), Pc(fs), bl.nactvar), Pc(fs)) ELSE fs
        broken == IF bl.isloop THEN LabelStat(closed, "break", fs.nactvar) ELSE closed
        out == [RemoveVars(broken, bl.nactvar) EXCEPT
                   !.bl = Front(@), !.freereg = bl.nactvar, !.labels = SubSeq(@, 1, bl.firstlabel)]
    IN  IF inner THEN MoveGotosOut(out, bl, bl.firstgoto + 1)
        ELSE [out EXCEPT !.rejected = @ \/ Len(out.gotos) > bl.firstgoto]

Block(fs, sts) == LeaveBlock(StatList(EnterBlock(fs, FALSE), sts))

-----------------------------------------------------------------------------
(* Expressions. *)

\* explist: all but the last value are in registers.
RECURSIVE ExpList(_, _)
ExpList(fs, xs) ==
    IF Len(xs) = 1 THEN Expr(fs, xs[1]) ELSE ExpList(Exp2NextReg(Expr(fs, xs[1])), Tail(xs))

\* fieldsel and the index of suffixedexp
FieldSel(fs0, x) == LET fs == Exp2AnyRegUp(fs0) IN Indexed(StringK(fs, <<x>>), fs.e)
YIndex(fs0, x) == LET fs == Exp2AnyRegUp(fs0) IN Indexed(Exp2Val(Expr(fs, x)), fs.e)

\* funcargs.  The call leaves one result unless that is changed.
FuncArgs(fs, args) ==
    LET base == fs.e.i
        a == IF args = <<>> THEN SetE(fs, E("void", 0)) ELSE SetReturns(ExpList(fs, args), MultRet)
        open == HasMultRet(a.e)
        ready == IF open \/ a.e.k = "void" THEN a ELSE Exp2NextReg(a)
        n == IF open THEN 0 ELSE ready.freereg - base
    IN  [Code(ready, "CALL", base, n, 2) EXCEPT !.e = E("call", Pc(ready)), !.freereg = base + 1]

\* suffixedexp and primaryexp
SuffixedExp(fs, x) ==
    CASE x[1] = "name" -> SingleVar(fs, x[2])
      [] x[1] = "paren" -> DischargeVars(Expr(fs, x[2]))
      [] x[1] = "dot" -> FieldSel(Expr(fs, x[2]), x[3])
      [] x[1] = "index" -> YIndex(Expr(fs, x[2]), x[3])
      [] x[1] = "call" -> FuncArgs(Exp2NextReg(Expr(fs, x[2])), x[3])
      [] x[1] = "method" -> FuncArgs(Self(Expr(fs, x[2]), <<x[3]>>), x[4])

\* recfield of the table in register t.
RecField(fs, t, key, x) ==
    LET k == Exp2RK(Exp2Val(Expr(fs, key)))
        v == Exp2RK(Expr(k, x))
    IN  [Code(v, "SETTABLE", t, RK(k.e), RK(v.e)) EXCEPT !.freereg = fs.freereg]

\* struct ConsControl of a constructor that has no field yet.
NoField == [na |-> 0, tostore |-> 0]

\* closelistfield; cc.v is the expression of fs.
CloseListField(fs, t, cc) ==
    IF fs.e.k = "void" THEN fs
    ELSE LET v == SetE(Exp2NextReg(fs), E("void", 0))
         IN  IF cc.tostore = FieldsPerFlush THEN SetList(v, t, cc.na, cc.tostore) ELSE v

LastListField(fs, t, cc) ==
    IF cc.tostore = 0 THEN fs
    ELSE IF HasMultRet(fs.e) THEN SetList(SetReturns(fs, MultRet), t, cc.na, MultRet)
    ELSE SetList(IF fs.e.k = "void" THEN fs ELSE Exp2NextReg(fs), t, cc.na, cc.tostore)

\* The loop of constructor, with the counters of cc.
RECURSIVE Fields(_, _, _, _)
Fields(fs, t, fields, cc) ==
    IF fields = <<>> THEN LastListField(fs, t, cc)
    ELSE LET f == Head(fields)
             c == CloseListField(Asserts(fs, fs.e.k = "void" \/ cc.tostore > 0), t, cc)
             left == IF fs.e.k # "void" /\ cc.tostore = FieldsPerFlush THEN 0 ELSE cc.tostore
         IN  IF f[1] = "item"
             THEN Fields(Expr(c, f[2]), t, Tail(fields), [na |-> cc.na + 1, tostore |-> left + 1])
             ELSE Fields(SetE(RecField(c, t, f[2], f[3]), E("void", 0)), t, Tail(fields),
                         [cc EXCEPT !.tostore = left])

Constructor(fs, fields) ==
    LET t == Exp2NextReg(SetE(Code(fs, "NEWTABLE", 0, 0, 0), E("reloc", Pc(fs))))
    IN  SetE(Fields(SetE(t, E("void", 0)), t.e.i, fields, NoField), t.e)

\* close_func: what is kept of a function.
CloseFunc(fs) == LeaveBlock(Ret(fs, 0, 0))
Proto(fs) == [code |-> fs.code, k |-> fs.k, upvals |-> fs.upvals, protos |-> fs.protos,
              maxstacksize |-> fs.maxstacksize, numparams |-> fs.numparams, vararg |-> fs.vararg]

\* parlist and the statements of a function, whose state is fs.
Function(fs, x) ==
    LET new == AdjustLocalVars(fs, x[2])
    IN  CloseFunc(StatList([ReserveRegs(new, new.nactvar) EXCEPT !.numparams = new.nactvar], x[4]))

\* body; codeclosure uses the last register.
Body(fs, x) ==
    LET done == Function(OpenFunc(<<fs>>, x[3]), x)
        outer == [done.prev[1] EXCEPT !.protos = Append(@, Proto(done)),
                                      !.ok = @ /\ done.ok, !.rejected = @ \/ done.rejected]
    IN  Exp2NextReg(SetE(Code(outer, "CLOSURE", 0, Len(outer.protos) - 1, 0), E("reloc", Pc(outer))))

\* simpleexp and subexpr.  An error ends the compilation.
Expr(fs, x) ==
    IF fs.rejected THEN fs
    ELSE
    CASE x[1] \in {"nil", "true", "false"} -> SetE(fs, E(x[1], 0))
      [] x[1] = "num" -> SetE(fs, E("knum", x[2]))
      [] x[1] = "str" -> StringK(fs, x[2])
      [] x[1] = "..." -> SetE(Code(fs, "VARARG", 0, 1, 0), E("vararg", Pc(fs)))
      [] x[1] = "table" -> Constructor(fs, x[2])
      [] x[1] = "fn" -> Body(fs, x)
      [] x[1] = "un" -> Prefix(Expr(fs, x[3]), x[2])
      [] x[1] = "bin" -> LET v == Infix(Expr(fs, x[3]), x[2])
                         IN  Posfix(Expr(v, x[4]), x[2], v.e)
      [] OTHER -> SuffixedExp(fs, x)

-----------------------------------------------------------------------------
(* Statements. *)

\* Mutant: the index is not looked at.
CheckConflictTable(fs, v) ==
    LET table(x) == x.k = "indexed" /\ x.vt = v.k /\ x.i = v.i
        safe(x) == IF table(x) THEN [x EXCEPT !.vt = "local", !.i = fs.freereg] ELSE x
        copy == Code(fs, IF v.k = "local" THEN "MOVE" ELSE "GETUPVAL", fs.freereg, v.i, 0)
    IN  IF \E n \in DOMAIN fs.lh : table(fs.lh[n])
        THEN ReserveRegs([copy EXCEPT !.lh = [n \in DOMAIN @ |-> safe(@[n])]], 1) ELSE fs

\* check_conflict: the variable v is assigned to, and earlier on the left-hand
\* side it is a table or an index.  Those use a copy.
CheckConflict(fs, v) ==
    LET table(x) == x.k = "indexed" /\ x.vt = v.k /\ x.i = v.i
        index(x) == x.k = "indexed" /\ v.k = "local" /\ x.idx = v.i
        safe(x) == [x EXCEPT !.vt = IF table(x) THEN "local" ELSE @,
                             !.i = IF table(x) THEN fs.freereg ELSE @,
                             !.idx = IF index(x) THEN fs.freereg ELSE @]
        copy == Code(fs, IF v.k = "local" THEN "MOVE" ELSE "GETUPVAL", fs.freereg, v.i, 0)
    IN  IF \E n \in DOMAIN fs.lh : table(fs.lh[n]) \/ index(fs.lh[n])
        THEN ReserveRegs([copy EXCEPT !.lh = [n \in DOMAIN @ |-> safe(@[n])]], 1) ELSE fs

\* The left-hand side of an assignment.
RECURSIVE Targets(_, _), StoreFrom(_, _)
Targets(fs, xs) ==
    IF xs = <<>> THEN fs
    ELSE LET v == SuffixedExp(fs, xs[1])
             c == IF v.e.k = "indexed" THEN v ELSE CheckConflict(v, v.e)
         IN  Targets([c EXCEPT !.lh = Append(@, v.e)], Tail(xs))

\* Default assignments, from variable n to the first.
StoreFrom(fs, n) ==
    IF n = 0 THEN fs
    ELSE StoreFrom(StoreVar(SetE(fs, E("nonreloc", fs.freereg - 1)), fs.lh[n]), n - 1)

\* assignment
Assignment(fs, vars, exps) ==
    LET nvars == Len(vars)
        nexps == Len(exps)
        e == ExpList(Targets([fs EXCEPT !.lh = <<>>], vars), exps)
        a == AdjustAssign(e, nvars, nexps)
    IN  IF nexps = nvars THEN StoreFrom(StoreVar(SetOneRet(e), e.lh[nvars]), nvars - 1)
        ELSE StoreFrom(IF nexps > nvars THEN [a EXCEPT !.freereg = @ - (nexps - nvars)] ELSE a, nvars)

LocalStat(fs, names, exps) ==
    LET v == IF exps = <<>> THEN SetE(fs, E("void", 0)) ELSE ExpList(fs, exps)
    IN  AdjustLocalVars(AdjustAssign(v, Len(names), Len(exps)), names)

\* cond, whose jumps are in the list e.f.
Cond(fs, x) ==
    LET v == Expr(fs, x)
    IN  GoIfTrue(IF v.e.k = "nil" THEN [v EXCEPT !.e.k = "false"] ELSE v)

WhileStat(fs, x, sts) ==
    LET c == Cond(GetLabel(fs), x)
        b == Block(EnterBlock(c, TRUE), sts)
    IN  PatchToHere(LeaveBlock(PatchList(Jump(b), Pc(b), Pc(fs))), c.e.f)

\* repeatstat: the condition is in the scope of the block.
RepeatStat(fs, sts, x) ==
    LET c == Cond(StatList(EnterBlock(EnterBlock(GetLabel(fs), TRUE), FALSE), Append(sts, <<"until">>)), x)
        scope == Last(c.bl)
        closed == IF scope.upval THEN PatchClose(c, c.e.f, scope.nactvar) ELSE c
    IN  LeaveBlock(PatchList(LeaveBlock(closed), c.e.f, Pc(fs)))

\* forbody with its three control variables.
ForBody(fs, base, names, sts, isnum) ==
    LET v == AdjustLocalVars(fs, <<"(for 1)", "(for 2)", "(for 3)">>)
        prep == IF isnum THEN Code(v, "FORPREP", base, NoJump, 0) ELSE Jump(v)
        scope == ReserveRegs(AdjustLocalVars(EnterBlock(prep, FALSE), names), Len(names))
        body == PatchToHere(LeaveBlock(Block(scope, sts)), Pc(v))
        call == IF isnum THEN body ELSE Code(body, "TFORCALL", base, 0, Len(names))
        end == IF isnum THEN Code(call, "FORLOOP", base, NoJump, 0)
               ELSE Code(call, "TFORLOOP", base + 2, NoJump, 0)
    IN  PatchList(end, Pc(call), Pc(v) + 1)

\* fornum: the values of exp1, and the default step.
ForNum(fs, x, exps, sts) ==
    LET v == Exp2NextReg(ExpList(fs, exps))
        step == IF Len(exps) = 3 THEN v ELSE ReserveRegs(CodeK(v, v.freereg, <<"number", 1>>), 1)
    IN  ForBody(step, fs.freereg, <<x>>, sts, TRUE)

\* Mutant: no room for the call of the iterator.
ForListNoRoom(fs, names, exps, sts) ==
    ForBody(AdjustAssign(ExpList(fs, exps), 3, Len(exps)), fs.freereg, names, sts, FALSE)

\* forlist: the call of the iterator needs three registers.
ForList(fs, names, exps, sts) ==
    ForBody(CheckStack(AdjustAssign(ExpList(fs, exps), 3, Len(exps)), 3),
            fs.freereg, names, sts, FALSE)

\* forstat, with the scope of the loop and its control variables.
ForStat(fs, s) ==
    LET in == EnterBlock(fs, TRUE)
    IN  LeaveBlock(IF s[1] = "for" THEN ForNum(in, s[2], s[3], s[4])
                   ELSE ForList(in, s[2], s[3], s[4]))

\* test_then_block of the first clause, and the rest of ifstat.  A block that
\* starts with a goto needs no jump around it.  The list escape leads to the end.
NoOps(sts) == SelectInSeq(sts \o <<<<"end">>>>, LAMBDA s : s[1] # "label") - 1

RECURSIVE IfStat(_, _, _, _)
IfStat(fs, clauses, elses, escape) ==
    IF clauses = <<>> THEN PatchToHere(IF elses = <<>> THEN fs ELSE Block(fs, elses[1]), escape)
    ELSE
    LET sts == clauses[1][2]
        goes == sts # <<>> /\ sts[1][1] = "goto"
        v == Expr(fs, clauses[1][1])
        t == IF goes THEN GoIfFalse(v) ELSE GoIfTrue(v)
        in == EnterBlock(t, FALSE)
        n == NoOps(Tail(sts))
        gone == StatList(GotoStat(in, sts[1][2], t.e.t), SubSeq(sts, 2, n + 1))
        more == Tail(clauses) # <<>> \/ elses # <<>>
        rest == IF goes THEN StatList(Jump(gone), SubSeq(sts, n + 2, Len(sts))) ELSE StatList(in, sts)
        left == LeaveBlock(rest)
        out == IF more THEN Jump(left) ELSE left
    IN  IF goes /\ n + 1 = Len(sts) THEN IfStat(LeaveBlock(gone), Tail(clauses), elses, escape)
        ELSE IfStat(PatchToHere(IF more THEN Link(out, escape, Pc(left)) ELSE out,
                                IF goes THEN Pc(gone) ELSE t.e.f),
                    Tail(clauses), elses, IF more THEN Concat(escape, Pc(left)) ELSE escape)

\* retstat: a call is a tail call if it is the only expression.
RetStat(fs, exps) ==
    LET v == ExpList(fs, exps)
        open == SetReturns(v, MultRet)
        tail == v.e.k = "call" /\ Len(exps) = 1
        one == Exp2AnyReg(v)
        all == Exp2NextReg(v)
    IN  CASE exps = <<>> -> Ret(fs, 0, 0)
          [] exps # <<>> /\ HasMultRet(v.e) ->
               Ret(IF tail THEN Asserts([open EXCEPT !.code[v.e.i + 1].op = "TAILCALL"],
                                       GetCode(open).a = fs.nactvar)
                   ELSE open, fs.nactvar, MultRet)
          [] Len(exps) = 1 /\ ~ HasMultRet(v.e) -> Ret(one, one.e.i, 1)
          [] OTHER -> Ret(Asserts(all, Len(exps) = all.freereg - fs.nactvar), fs.nactvar, Len(exps))

\* localfunc: the variable is in scope in the function.
LocalFunc(fs, x, fn) == Body(AdjustLocalVars(fs, <<x>>), fn)

\* funcstat
FuncStat(fs, var, fn) == LET v == SuffixedExp(fs, var) IN StoreVar(Body(v, fn), v.e)

\* exprstat of a call, which uses no results.
CallStat(fs, x) == LET v == SuffixedExp(fs, x) IN [v EXCEPT !.code[v.e.i + 1].c = 1]

\* statement.  What follows it tells whether a label is the last of the block.
Statement(fs, s, rest) ==
    LET last == \A n \in DOMAIN rest : rest[n][1] = "label"
        done ==
           CASE s[1] = "local" -> LocalStat(fs, s[2], s[3])
             [] s[1] = "localfn" -> LocalFunc(fs, s[2], s[3])
             [] s[1] = "set" -> Assignment(fs, s[2], s[3])
             [] s[1] = "function" -> FuncStat(fs, s[2], s[3])
             [] s[1] = "do" -> Block(fs, s[2])
             [] s[1] = "while" -> WhileStat(fs, s[2], s[3])
             [] s[1] = "repeat" -> RepeatStat(fs, s[2], s[3])
             [] s[1] = "if" -> IfStat(fs, s[2], s[3], NoJump)
             [] s[1] \in {"for", "forin"} -> ForStat(fs, s)
             [] s[1] = "label" -> LabelStat(CheckRepeated(fs, s[2]), s[2], IF last THEN Last(fs.bl).nactvar ELSE fs.nactvar)
             [] s[1] = "goto" -> GotoStat(Jump(fs), s[2], Pc(fs))
             [] s[1] = "return" -> RetStat(fs, s[2])
             [] s[1] = "until" -> fs
             [] OTHER -> CallStat(fs, s)
    IN  [Asserts(done, done.maxstacksize >= done.freereg /\ done.freereg >= done.nactvar)
         EXCEPT !.freereg = done.nactvar]

\* statlist
StatList(fs, sts) ==
    IF fs.rejected \/ sts = <<>> THEN fs ELSE StatList(Statement(fs, Head(sts), Tail(sts)), Tail(sts))

\* mainfunc: a vararg function whose only upvalue is _ENV.
MainFunc(sts) ==
    Function([OpenFunc(<<>>, TRUE) EXCEPT
                 !.upvals = <<[name |-> "_ENV", instack |-> TRUE, idx |-> 0]>>], <<"fn", <<>>, TRUE, sts>>)
=============================================================================
