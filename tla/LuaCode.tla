------------------------------- MODULE LuaCode -------------------------------
(***************************************************************************)
(* The code generator of the Lua compiler (lcode.c), which compiles every  *)
(* script of the game server, the gateway and the console client.          *)
(*                                                                         *)
(* An operator takes a function state and returns the one after the call.  *)
(* Its field e is the expression descriptor that the call works on, with   *)
(* the fields k (kind), i (info, nval or ind.t), idx and vt (ind.idx and   *)
(* ind.vt), t and f (patch lists).  An instruction has fields op, a, b, c. *)
(* A position is counted from 0 as in the code; a jump holds the position  *)
(* that it leads to, or the next jump of the list that it is in.  Line     *)
(* information and the limits of the operands' width are left out.         *)
(***************************************************************************)
EXTENDS Integers, Sequences
LOCAL INSTANCE SequencesExt

CONSTANTS MaxIndexRK,       \* MAXINDEXRK: the largest constant of an RK operand
          FieldsPerFlush    \* LFIELDS_PER_FLUSH

ASSUME LuaCodeAssumption == MaxIndexRK \in Nat /\ FieldsPerFlush \in Nat \ {0}

NoJump == -1
NoReg == 255
MultRet == -1
BitRK == 256

Values == {"nil", "true", "false", "k", "knum"}
TestOps == {"EQ", "LT", "LE", "TEST", "TESTSET"}

I(op, a, b, c) == [op |-> op, a |-> a, b |-> b, c |-> c]
E(k, i) == [k |-> k, i |-> i, idx |-> 0, vt |-> "", t |-> NoJump, f |-> NoJump]

Pc(fs) == Len(fs.code)
SetE(fs, e) == [fs EXCEPT !.e = e]
HasJumps(e) == e.t # e.f
IsNumeral(e) == e.k = "knum" /\ e.t = NoJump /\ e.f = NoJump
HasMultRet(e) == e.k \in {"call", "vararg"}

\* lua_assert: the state remembers whether an assertion failed.
Asserts(fs, fact) == [fs EXCEPT !.ok = @ /\ fact]

-----------------------------------------------------------------------------
(* Lists of jumps. *)

RECURSIVE Jumps(_, _), LastJump(_, _)

\* The jumps of a list.
Jumps(code, list) ==
    IF list = NoJump THEN {} ELSE {list} \cup Jumps(code, code[list + 1].b)

LastJump(code, list) ==
    IF code[list + 1].b = NoJump THEN list ELSE LastJump(code, code[list + 1].b)

\* getjumpcontrol: the test that controls the jump at j, or the jump.
Control(code, j) ==
    IF j >= 1 /\ code[j].op \in TestOps THEN code[j] ELSE code[j + 1]

\* need_value: a jump of the list does not produce a value.
NeedValue(code, list) == \E j \in Jumps(code, list) : Control(code, j).op # "TESTSET"

\* patchtestreg of a TESTSET instruction.
TestReg(i, reg) ==
    IF reg # NoReg /\ reg # i.b THEN [i EXCEPT !.a = reg] ELSE I("TEST", i.b, 0, i.c)

\* The instructions before the jumps of list that produce values now put them
\* into reg.
PatchRegs(code, list, reg) ==
    LET js == Jumps(code, list)
    IN  [p \in DOMAIN code |->
           IF p \in js /\ code[p].op = "TESTSET" THEN TestReg(code[p], reg) ELSE code[p]]

\* patchlistaux
PatchListAux(fs, list, vtarget, reg, dtarget) ==
    LET js == Jumps(fs.code, list)
        code == PatchRegs(fs.code, list, reg)
        dest(j) == IF Control(fs.code, j).op = "TESTSET" THEN vtarget ELSE dtarget
    IN  [fs EXCEPT !.code = [p \in DOMAIN code |->
           IF p - 1 \in js THEN [code[p] EXCEPT !.b = dest(p - 1)] ELSE code[p]]]

\* luaK_concat: the list of both, and the code where they are linked.
Concat(l1, l2) == IF l1 = NoJump THEN l2 ELSE l1
Link(fs, l1, l2) ==
    IF l1 = NoJump \/ l2 = NoJump THEN fs
    ELSE [fs EXCEPT !.code[LastJump(fs.code, l1) + 1].b = l2]

GetLabel(fs) == [fs EXCEPT !.lasttarget = Pc(fs)]

PatchToHere(fs, list) ==
    [Link(GetLabel(fs), fs.jpc, list) EXCEPT !.jpc = Concat(fs.jpc, list)]

PatchList(fs, list, target) ==
    IF target = Pc(fs) THEN PatchToHere(fs, list)
    ELSE PatchListAux(fs, list, target, NoReg, target)

\* luaK_patchclose: the jumps close the upvalues from level on.
PatchClose(fs, list, level) ==
    LET js == Jumps(fs.code, list)
    IN  [Asserts(fs, \A j \in js : fs.code[j + 1].a = 0 \/ fs.code[j + 1].a >= level + 1)
         EXCEPT !.code = [p \in DOMAIN @ |->
            IF p - 1 \in js THEN [@[p] EXCEPT !.a = level + 1] ELSE @[p]]]

-----------------------------------------------------------------------------
(* Instructions, registers and constants. *)

\* luaK_code: the pending jumps to here get their target.
Code(fs, op, a, b, c) ==
    LET pc == Pc(fs)
    IN  [PatchListAux(fs, fs.jpc, pc, NoReg, pc)
         EXCEPT !.code = Append(@, I(op, a, b, c)), !.jpc = NoJump]

\* The expression is the result of a new instruction, in no register yet.
CodeReloc(fs, op, b, c) ==
    [Code(fs, op, 0, b, c) EXCEPT !.e.k = "reloc", !.e.i = Pc(fs)]

\* The instruction of the expression.
GetCode(fs) == fs.code[fs.e.i + 1]

\* luaK_jump: the new jump, at Pc(fs), takes over the jumps to here.
Jump(fs) == Code([fs EXCEPT !.jpc = NoJump], "JMP", 0, fs.jpc, 0)

\* condjump, whose jump is at Pc(fs) + 1
CondJump(fs, op, a, b, c) == Jump(Code(fs, op, a, b, c))

\* luaK_ret
Ret(fs, first, nret) == Code(fs, "RETURN", first, nret + 1, 0)

\* luaK_nil: an instruction before it that sets adjacent registers is extended,
\* unless jumps lead to here.
Nil(fs, from, n) ==
    LET l == from + n - 1
        prev == IF Pc(fs) > fs.lasttarget THEN Last(fs.code) ELSE I("", 0, 0, 0)
        pl == prev.a + prev.b
        first == IF prev.a < from THEN prev.a ELSE from
    IN  IF /\ prev.op = "LOADNIL"
           /\ (prev.a <= from /\ from <= pl + 1) \/ (from <= prev.a /\ prev.a <= l + 1)
        THEN [fs EXCEPT !.code[Pc(fs)] = I("LOADNIL", first, (IF pl > l THEN pl ELSE l) - first, 0)]
        ELSE Code(fs, "LOADNIL", from, n - 1, 0)

\* luaK_checkstack and luaK_reserveregs
CheckStack(fs, n) ==
    IF fs.freereg + n > fs.maxstacksize THEN [fs EXCEPT !.maxstacksize = fs.freereg + n] ELSE fs
ReserveRegs(fs, n) == [CheckStack(fs, n) EXCEPT !.freereg = @ + n]

IsK(x) == x >= BitRK

\* freereg: temporaries are freed in the order of a stack.
FreeReg(fs, reg) ==
    IF ~ IsK(reg) /\ reg >= fs.nactvar
    THEN Asserts([fs EXCEPT !.freereg = @ - 1], reg = fs.freereg - 1)
    ELSE fs

FreeExp(fs, e) == IF e.k = "nonreloc" THEN FreeReg(fs, e.i) ELSE fs

\* addk: the index of a constant, and the state that has it.
KIndex(fs, v) ==
    IF \E n \in DOMAIN fs.k : fs.k[n] = v
    THEN (CHOOSE n \in DOMAIN fs.k : fs.k[n] = v) - 1 ELSE Len(fs.k)
AddK(fs, v) == IF KIndex(fs, v) < Len(fs.k) THEN fs ELSE [fs EXCEPT !.k = Append(@, v)]

\* The value of a constant expression.
KValue(fs) ==
    CASE fs.e.k = "nil" -> <<"nil", 0>>
      [] fs.e.k \in {"true", "false"} -> <<"boolean", fs.e.k = "true">>
      [] fs.e.k = "knum" -> <<"number", fs.e.i>>
      [] OTHER -> fs.k[fs.e.i + 1]

\* luaK_stringK
StringK(fs, s) == SetE(AddK(fs, <<"string", s>>), E("k", KIndex(fs, <<"string", s>>)))

\* luaK_codek
CodeK(fs, reg, v) == Code(AddK(fs, v), "LOADK", reg, KIndex(fs, v), 0)

-----------------------------------------------------------------------------
(* The value of an expression. *)

\* luaK_setreturns of an open call or vararg.
SetReturns(fs, nresults) ==
    CASE fs.e.k = "call" -> [fs EXCEPT !.code[fs.e.i + 1].c = nresults + 1]
      [] fs.e.k = "vararg" ->
           ReserveRegs([fs EXCEPT !.code[fs.e.i + 1].b = nresults + 1,
                                  !.code[fs.e.i + 1].a = fs.freereg], 1)
      [] OTHER -> fs

SetOneRet(fs) ==
    CASE fs.e.k = "call" -> [fs EXCEPT !.e.k = "nonreloc", !.e.i = GetCode(fs).a]
      [] fs.e.k = "vararg" -> [fs EXCEPT !.code[fs.e.i + 1].b = 2, !.e.k = "reloc"]
      [] OTHER -> fs

DischargeVars(fs) ==
    LET e == fs.e
    IN  CASE e.k = "local" -> [fs EXCEPT !.e.k = "nonreloc"]
          [] e.k = "upval" -> CodeReloc(fs, "GETUPVAL", e.i, 0)
          [] e.k = "indexed" ->
               IF e.vt = "local"
               THEN CodeReloc(FreeReg(FreeReg(fs, e.idx), e.i), "GETTABLE", e.i, e.idx)
               ELSE CodeReloc(FreeReg(fs, e.idx), "GETTABUP", e.i, e.idx)
          [] OTHER -> SetOneRet(fs)

Discharge2Reg(fs0, reg) ==
    LET fs == DischargeVars(fs0)
        e == fs.e
        loaded ==
           CASE e.k = "nil" -> Nil(fs, reg, 1)
             [] e.k \in {"true", "false"} ->
                  Code(fs, "LOADBOOL", reg, IF e.k = "true" THEN 1 ELSE 0, 0)
             [] e.k \in {"k", "knum"} -> CodeK(fs, reg, KValue(fs))
             [] e.k = "reloc" -> [fs EXCEPT !.code[e.i + 1].a = reg]
             [] e.k = "nonreloc" /\ reg # e.i -> Code(fs, "MOVE", reg, e.i, 0)
             [] OTHER -> fs
    IN  IF e.k = "jmp" THEN fs ELSE [loaded EXCEPT !.e.i = reg, !.e.k = "nonreloc"]

Discharge2AnyReg(fs) ==
    IF fs.e.k = "nonreloc" THEN fs ELSE Discharge2Reg(ReserveRegs(fs, 1), fs.freereg)

\* The two instructions that load false and true, for the jumps without a value.
LoadBools(fs, reg) ==
    Code(GetLabel(Code(GetLabel(fs), "LOADBOOL", reg, 0, 1)), "LOADBOOL", reg, 1, 0)

\* exp2reg
Exp2Reg(fs0, reg) ==
    LET d == Discharge2Reg(fs0, reg)
        isjmp == d.e.k = "jmp"
        fs == IF isjmp THEN [Link(d, d.e.t, d.e.i) EXCEPT !.e.t = Concat(@, d.e.i)] ELSE d
        needs == NeedValue(fs.code, fs.e.t) \/ NeedValue(fs.code, fs.e.f)
        skip == IF isjmp THEN fs ELSE Jump(fs)
        pf == Pc(skip)
        valued == IF needs
                  THEN PatchToHere(LoadBools(skip, reg), IF isjmp THEN NoJump ELSE Pc(fs))
                  ELSE fs
        final == Pc(valued)
        patched == PatchListAux(PatchListAux(GetLabel(valued), fs.e.f, final, reg, pf),
                                fs.e.t, final, reg, pf + 1)
    IN  SetE(IF HasJumps(fs.e) THEN patched ELSE fs, E("nonreloc", reg))

Exp2NextReg(fs0) ==
    LET d == DischargeVars(fs0)
        fs == ReserveRegs(FreeExp(d, d.e), 1)
    IN  Exp2Reg(fs, fs.freereg - 1)

\* The register is that of fs.e.
Exp2AnyReg(fs0) ==
    LET fs == DischargeVars(fs0)
    IN  CASE fs.e.k = "nonreloc" /\ ~ HasJumps(fs.e) -> fs
          [] fs.e.k = "nonreloc" /\ HasJumps(fs.e) /\ fs.e.i >= fs.nactvar -> Exp2Reg(fs, fs.e.i)
          [] OTHER -> Exp2NextReg(fs)

Exp2AnyRegUp(fs) == IF fs.e.k # "upval" \/ HasJumps(fs.e) THEN Exp2AnyReg(fs) ELSE fs

Exp2Val(fs) == IF HasJumps(fs.e) THEN Exp2AnyReg(fs) ELSE DischargeVars(fs)

\* luaK_exp2RK, and the operand it returns.
Exp2RK(fs0) ==
    LET fs == Exp2Val(fs0)
        n == KIndex(fs, KValue(fs))
        fits == IF fs.e.k \in {"k", "knum"} THEN n <= MaxIndexRK ELSE Len(fs.k) <= MaxIndexRK
        new == IF fs.e.k \in {"k", "knum"} \/ fits THEN AddK(fs, KValue(fs)) ELSE fs
    IN  IF fs.e.k \notin Values THEN Exp2AnyReg(fs)
        ELSE IF fits THEN [new EXCEPT !.e.k = "k", !.e.i = n]
        ELSE Exp2AnyReg(new)
RK(e) == IF e.k = "k" THEN e.i + BitRK ELSE e.i

\* luaK_storevar of the expression.
StoreVar(fs, var) ==
    IF var.k = "local" THEN Exp2Reg(FreeExp(fs, fs.e), var.i)
    ELSE LET v == IF var.k = "upval" THEN Exp2AnyReg(fs) ELSE Exp2RK(fs)
             stored ==
                CASE var.k = "upval" -> Code(v, "SETUPVAL", v.e.i, var.i, 0)
                  [] var.vt = "local" -> Code(v, "SETTABLE", var.i, var.idx, RK(v.e))
                  [] OTHER -> Code(v, "SETTABUP", var.i, var.idx, RK(v.e))
         IN  FreeExp(stored, v.e)

\* luaK_self, of the method with the name key.
Self(fs0, key) ==
    LET o == Exp2AnyReg(fs0)
        base == FreeExp(o, o.e).freereg
        k == Exp2RK(StringK(ReserveRegs(FreeExp(o, o.e), 2), key))
    IN  SetE(FreeExp(Code(k, "SELF", base, o.e.i, RK(k.e)), k.e), E("nonreloc", base))

-----------------------------------------------------------------------------
(* Conditions. *)

\* invertjump
InvertJump(fs) ==
    [Asserts(fs, fs.code[fs.e.i].op \in {"EQ", "LT", "LE"}) EXCEPT !.code[fs.e.i].a = 1 - @]

\* jumponcond, whose jump is the last instruction.
JumpOnCond(fs, cond) ==
    IF fs.e.k = "reloc" /\ GetCode(fs).op = "NOT"
    THEN CondJump([fs EXCEPT !.code = Front(@)], "TEST", GetCode(fs).b, 0, 1 - cond)
    ELSE LET v == Discharge2AnyReg(fs)
         IN  CondJump(FreeExp(v, v.e), "TESTSET", NoReg, v.e.i, cond)

GoIfTrue(fs0) ==
    LET fs == DischargeVars(fs0)
        j == CASE fs.e.k = "jmp" -> InvertJump(fs)
               [] fs.e.k \in {"k", "knum", "true"} -> fs
               [] OTHER -> JumpOnCond(fs, 0)
        pc == CASE fs.e.k = "jmp" -> fs.e.i
                [] fs.e.k \in {"k", "knum", "true"} -> NoJump
                [] OTHER -> Pc(j) - 1
    IN  PatchToHere([Link(j, fs.e.f, pc) EXCEPT !.e.f = Concat(fs.e.f, pc), !.e.t = NoJump], fs.e.t)

GoIfFalse(fs0) ==
    LET fs == DischargeVars(fs0)
        j == IF fs.e.k \in {"jmp", "nil", "false"} THEN fs ELSE JumpOnCond(fs, 1)
        pc == CASE fs.e.k = "jmp" -> fs.e.i
                [] fs.e.k \in {"nil", "false"} -> NoJump
                [] OTHER -> Pc(j) - 1
    IN  PatchToHere([Link(j, fs.e.t, pc) EXCEPT !.e.t = Concat(fs.e.t, pc), !.e.f = NoJump], fs.e.f)

\* codenot
CodeNot(fs0) ==
    LET fs == DischargeVars(fs0)
        v == Discharge2AnyReg(fs)
        n == CASE fs.e.k \in {"nil", "false"} -> [fs EXCEPT !.e.k = "true"]
               [] fs.e.k \in {"k", "knum", "true"} -> [fs EXCEPT !.e.k = "false"]
               [] fs.e.k = "jmp" -> InvertJump(fs)
               [] OTHER -> CodeReloc(FreeExp(v, v.e), "NOT", v.e.i, 0)
    IN  [n EXCEPT !.e.t = fs.e.f, !.e.f = fs.e.t,
                  !.code = PatchRegs(PatchRegs(@, fs.e.t, NoReg), fs.e.f, NoReg)]

-----------------------------------------------------------------------------
(* Operators. *)

\* luaK_indexed of the expression t by that of fs.
Indexed(fs, t) ==
    LET k == Exp2RK(fs)
    IN  Asserts(SetE(k, [E("indexed", t.i) EXCEPT !.idx = RK(k.e),
                                                 !.vt = IF t.k = "upval" THEN "upval" ELSE "local"]),
               ~ HasJumps(t))

\* luaO_arith
Arith(op, x, y) ==
    CASE op = "ADD" -> x + y [] op = "SUB" -> x - y [] op = "MUL" -> x * y
      [] op = "MOD" -> IF y > 0 THEN x % y ELSE -((-x) % (-y)) [] op = "UNM" -> -x

\* constfolding
Folds(op, e1, e2) == IsNumeral(e1) /\ IsNumeral(e2) /\ ~ (op = "MOD" /\ e2.i = 0)

\* Mutant: the first operand is freed first, wherever it is.
CodeArithInOrder(fs, op, e1) ==
    LET f2 == Exp2RK(fs)
        f1 == Exp2RK(SetE(f2, e1))
    IN  IF Folds(op, e1, fs.e) THEN SetE(fs, [e1 EXCEPT !.i = Arith(op, e1.i, fs.e.i)])
        ELSE CodeReloc(FreeExp(FreeExp(f1, f1.e), f2.e), op, RK(f1.e), RK(f2.e))

\* codearith of e1 and the expression of fs; the operand with the higher register
\* is freed first.
CodeArith(fs, op, e1) ==
    LET e2 == fs.e
        f2 == Exp2RK(fs)
        f1 == Exp2RK(SetE(f2, e1))
        o1 == RK(f1.e)
        o2 == RK(f2.e)
        freed == IF o1 > o2 THEN FreeExp(FreeExp(f1, f1.e), f2.e)
                 ELSE FreeExp(FreeExp(f1, f2.e), f1.e)
    IN  IF Folds(op, e1, e2) THEN SetE(fs, [e1 EXCEPT !.i = Arith(op, e1.i, e2.i)])
        ELSE CodeReloc(freed, op, o1, o2)

\* The same of OP_UNM and OP_LEN.
CodeUnary(fs, op) ==
    LET v == Exp2AnyReg(fs) IN CodeReloc(FreeExp(v, v.e), op, v.e.i, 0)

\* codecomp: ~=, > and >= are made of the other three.
CodeComp(fs, op, cond, e1) ==
    LET f1 == Exp2RK(SetE(fs, e1))
        f2 == Exp2RK(SetE(f1, fs.e))
        o1 == RK(f1.e)
        o2 == RK(f2.e)
        swap == cond = 0 /\ op # "EQ"
        j == CondJump(FreeExp(FreeExp(f2, f2.e), f1.e), op, IF swap THEN 1 ELSE cond,
                      IF swap THEN o2 ELSE o1, IF swap THEN o1 ELSE o2)
    IN  [j EXCEPT !.e = [f1.e EXCEPT !.k = "jmp", !.i = Pc(j) - 1]]

\* luaK_prefix
Prefix(fs, op) ==
    CASE op = "not" -> CodeNot(fs)
      [] op = "-" -> IF IsNumeral(fs.e) THEN [fs EXCEPT !.e.i = -@] ELSE CodeUnary(fs, "UNM")
      [] op = "#" -> CodeUnary(fs, "LEN")

ArithOps == [o \in {"+", "-", "*", "%"} |->
    CASE o = "+" -> "ADD" [] o = "-" -> "SUB" [] o = "*" -> "MUL" [] o = "%" -> "MOD"]

\* luaK_infix: the first operand is read, the second one not yet.
Infix(fs, op) ==
    CASE op = "and" -> GoIfTrue(fs)
      [] op = "or" -> GoIfFalse(fs)
      [] op = ".." -> Exp2NextReg(fs)
      [] op \in DOMAIN ArithOps /\ IsNumeral(fs.e) -> fs
      [] OTHER -> Exp2RK(fs)

\* The concatenation of e1 with a value that was just concatenated is one
\* instruction.
CodeConcat(fs, e1) ==
    LET v == Exp2Val(fs)
    IN  IF v.e.k = "reloc" /\ GetCode(v).op = "CONCAT"
        THEN SetE(Asserts([FreeExp(v, e1) EXCEPT !.code[v.e.i + 1].b = e1.i], e1.i = GetCode(v).b - 1),
                  [e1 EXCEPT !.k = "reloc", !.i = v.e.i])
        ELSE CodeArith(Exp2NextReg(v), "CONCAT", e1)

\* luaK_posfix: both operands are read, e1 and that of fs.
Posfix(fs, op, e1) ==
    LET d == DischargeVars(fs)
    IN  CASE op = "and" -> Asserts([Link(d, d.e.f, e1.f) EXCEPT !.e.f = Concat(d.e.f, e1.f)], e1.t = NoJump)
          [] op = "or" -> Asserts([Link(d, d.e.t, e1.t) EXCEPT !.e.t = Concat(d.e.t, e1.t)], e1.f = NoJump)
          [] op = ".." -> CodeConcat(fs, e1)
          [] op \in DOMAIN ArithOps -> CodeArith(fs, ArithOps[op], e1)
          [] op = "==" -> CodeComp(fs, "EQ", 1, e1)
          [] op = "<" -> CodeComp(fs, "LT", 1, e1)
          [] op = "<=" -> CodeComp(fs, "LE", 1, e1)
          [] op = "~=" -> CodeComp(fs, "EQ", 0, e1)
          [] op = ">" -> CodeComp(fs, "LT", 0, e1)
          [] op = ">=" -> CodeComp(fs, "LE", 0, e1)

\* luaK_setlist
SetList(fs, base, nelems, tostore) ==
    [Asserts(Code(fs, "SETLIST", base, IF tostore = MultRet THEN 0 ELSE tostore,
                 (nelems - 1) \div FieldsPerFlush + 1), tostore # 0)
     EXCEPT !.freereg = base + 1]
=============================================================================
