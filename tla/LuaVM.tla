-------------------------------- MODULE LuaVM --------------------------------
(***************************************************************************)
(* The virtual machine (lvm.c) that runs the compiled scripts, with the    *)
(* calls of ldo.c and the upvalues of lfunc.c.  A step is an instruction.  *)
(*                                                                         *)
(* A value is <<type, datum>>; functions and tables are numbered as they   *)
(* are made.  The stack keeps what dead registers held, as in the code.    *)
(* The C functions are pcall, error and setmetatable; the metamethods are  *)
(* __index and __newindex, which are all that the scripts set besides      *)
(* __gc.  Strings are compared as strcoll does it in the "C" locale, which *)
(* no program here changes: by the order of their characters.  Division,   *)
(* powers and OP_LOADKX, coercions between numbers and strings other than  *)
(* by concatenation, coroutines, hooks and the growth of the stack are     *)
(* left out.                                                               *)
(***************************************************************************)
EXTENDS LuaParser, TLC
LOCAL INSTANCE SequencesExt
LOCAL INSTANCE FiniteSets

CONSTANTS Mains,       \* the main functions that the compiler made
          Collation,   \* the characters of strings that are compared, in their order
          MaxTagLoop,  \* MAXTAGLOOP
          StackSize    \* registers of the stack

VARIABLES prog,        \* the number of the main function
          stack,       \* L->stack
          top,         \* L->top
          ci,          \* the CallInfo list: func, base, top, pc (savedpc), nresults;
                       \* kind is "lua", or where a C function is; to is the
                       \* register that waits for the value of a metamethod
          closures,    \* functions: their prototype and upvalues
          upvals,      \* the upvalues: a register while open, then a value
          cache,       \* the cache of each prototype
          tables,      \* the tables
          metatable,   \* the metatable of each, or 0
          flags,       \* the metamethods of each that are known to be absent
          status,      \* "run", "done" or "error"
          result       \* what the program returned

heap == <<closures, upvals, cache, tables>>
metas == <<metatable, flags>>
vars == <<prog, stack, top, ci, heap, metas, status, result>>

NilValue == <<"nil", 0>>
Bool(b) == <<"boolean", b>>
IsFalse(v) == v = NilValue \/ v = Bool(FALSE)
Is(v, type) == v[1] = type

\* The prototype that the indices of path lead to, from p.
RECURSIVE ProtoAt(_, _)
ProtoAt(p, path) == IF path = <<>> THEN p ELSE ProtoAt(p.protos[path[1] + 1], Tail(path))

Ci == Last(ci)
Cl == closures[stack[Ci.func][2]]
Fn == ProtoAt(Mains[prog], Cl.proto)

\* The instruction at the pc.
Ins == Fn.code[Ci.pc + 1]
Executes(ops) == status = "run" /\ Ci.kind = "lua" /\ Ins.op \in ops

R(x) == stack[Ci.base + x]
RKValue(x) == IF IsK(x) THEN Fn.k[x - BitRK + 1] ELSE R(x)

\* *uv->v
UpValue(u) == IF upvals[u].open THEN stack[upvals[u].at] ELSE upvals[u].value

-----------------------------------------------------------------------------
(* Values. *)

\* luaV_gettable and luaV_settable of a table; nil takes an entry away.
Get(t, k) == IF k \in DOMAIN t THEN t[k] ELSE NilValue
Put(t, k, v) ==
    IF v = NilValue THEN [x \in DOMAIN t \ {k} |-> t[x]]
    ELSE [x \in DOMAIN t \cup {k} |-> IF x = k THEN v ELSE t[x]]

\* luaH_getn, where the table has one border.
Border(t) == CHOOSE n \in 0 .. Cardinality(DOMAIN t) :
                /\ <<"number", n + 1>> \notin DOMAIN t
                /\ \A m \in 1 .. n : <<"number", m>> \in DOMAIN t

\* tostring; a number counts as one character.
Text(v) == IF Is(v, "number") THEN <<ToString(v[2])>> ELSE v[2]
Joins(v) == v[1] \in {"string", "number"}

\* luaV_concat
RECURSIVE TextOf(_)
TextOf(vs) == IF vs = <<>> THEN <<>> ELSE Text(vs[1]) \o TextOf(Tail(vs))

-----------------------------------------------------------------------------
(* Steps. *)

Goes(pc) == ci' = [ci EXCEPT ![Len(ci)].pc = pc]

\* The instruction sets register a.
Sets(a, v) ==
    /\ stack' = [stack EXCEPT ![Ci.base + a] = v]
    /\ Goes(Ci.pc + 1)
    /\ UNCHANGED <<prog, top, heap, status, result>>

\* luaF_close of the upvalues from level on.
Closed(up, st, level) ==
    [u \in DOMAIN up |-> IF up[u].open /\ up[u].at >= level
                         THEN [open |-> FALSE, at |-> 0, value |-> st[up[u].at]] ELSE up[u]]

\* luaD_throw of v, with the stack st and the frames cs: the last pcall gets it in
\* the place of its function (luaD_pcall, seterrorobj), or the program ends.
Raises(v, st, cs) ==
    LET k == SelectLastInSeq(cs, LAMBDA c : c.kind = "protects")
        old == cs[k].func + 2
    IN  IF k = 0 THEN status' = "error" /\ UNCHANGED <<prog, stack, top, ci, heap, result>>
        ELSE /\ upvals' = Closed(upvals, st, old)
             /\ stack' = [st EXCEPT ![old] = v]
             /\ ci' = [SubSeq(cs, 1, k) EXCEPT ![k].kind = "failed"]
             /\ top' = old + 1
             /\ UNCHANGED <<prog, closures, cache, tables, status, result>>

\* luaG_runerror; the texts of the messages are not told apart.
Message == <<"string", <<"message">>>>
Fails == Raises(Message, stack, ci)

SetsOrFails(ok, a, v) == (ok /\ Sets(a, v)) \/ (~ ok /\ Fails)

Move == Executes({"MOVE"}) /\ Sets(Ins.a, R(Ins.b))
LoadK == Executes({"LOADK"}) /\ Sets(Ins.a, Fn.k[Ins.b + 1])
GetUpval == Executes({"GETUPVAL"}) /\ Sets(Ins.a, UpValue(Cl.upvals[Ins.b + 1]))

LoadBool ==
    /\ Executes({"LOADBOOL"})
    /\ stack' = [stack EXCEPT ![Ci.base + Ins.a] = Bool(Ins.b = 1)]
    /\ Goes(Ci.pc + 1 + Ins.c)
    /\ UNCHANGED <<prog, top, heap, status, result>>

LoadNil ==
    /\ Executes({"LOADNIL"})
    /\ stack' = [r \in DOMAIN stack |->
                   IF r \in Ci.base + Ins.a .. Ci.base + Ins.a + Ins.b THEN NilValue ELSE stack[r]]
    /\ Goes(Ci.pc + 1)
    /\ UNCHANGED <<prog, top, heap, status, result>>

-----------------------------------------------------------------------------
(* Tables and their metamethods. *)

IndexEvent == <<"string", <<"__index">>>>
NewIndexEvent == <<"string", <<"__newindex">>>>

\* fasttm, where fl are the flags.
FastTM(h, event, fl) ==
    IF metatable[h] = 0 \/ event \in fl[metatable[h]] THEN NilValue
    ELSE Get(tables[metatable[h]], event)

\* The loop of luaV_gettable and luaV_settable from t on: the table where it ends,
\* NilValue for an error; the function that is to be called there, NilValue if
\* there is none; and the flags, to which luaT_gettm adds.
RECURSIVE Access(_, _, _, _, _)
Access(t, key, event, fl, loop) ==
    LET h == t[2]
        tm == FastTM(h, event, fl)
    IN  CASE loop = 0 \/ ~ Is(t, "table") -> [at |-> NilValue, tm |-> NilValue, flags |-> fl]
          [] OTHER ->
               IF Get(tables[h], key) # NilValue \/ metatable[h] = 0
               THEN [at |-> t, tm |-> NilValue, flags |-> fl]
               ELSE IF tm = NilValue
               THEN [at |-> t, tm |-> NilValue, flags |-> [fl EXCEPT ![metatable[h]] = @ \cup {event}]]
               ELSE IF Is(tm, "function") \/ Is(tm, "cfunction")
               THEN [at |-> t, tm |-> tm, flags |-> fl]
               ELSE Access(tm, key, event, fl, loop - 1)

\* luaD_precall of the function at func of stack st, whose arguments end at ltop,
\* with adjust_varargs: the stack and the new CallInfo.
PreCall(st, func, ltop, nresults) ==
    LET p == ProtoAt(Mains[prog], closures[st[func][2]].proto)
        last == IF ltop < func + 1 + p.numparams THEN func + 1 + p.numparams ELSE ltop
        fixed == func + 1 .. func + p.numparams
        padded == [r \in DOMAIN st |-> IF r \in ltop .. last - 1 THEN NilValue ELSE st[r]]
        base == IF p.vararg THEN last ELSE func + 1
        moved == [r \in DOMAIN st |->
                    IF r \in fixed THEN NilValue
                    ELSE IF r \in base .. base + p.numparams - 1 THEN padded[func + 1 + r - base]
                    ELSE padded[r]]
    IN  [stack |-> IF p.vararg THEN moved ELSE padded,
         ci |-> [func |-> func, base |-> base, top |-> base + p.maxstacksize, pc |-> 0,
                 nresults |-> nresults, kind |-> "lua", to |-> NoReg]]

\* luaD_precall, with the stack st and the frames cs; without a function, an error.
Enter(st, cs, func, ltop, nresults) ==
    CASE Is(st[func], "function") ->
           \E call \in {PreCall(st, func, ltop, nresults)} :
              /\ stack' = call.stack
              /\ ci' = Append(cs, call.ci)
              /\ top' = call.ci.top
              /\ UNCHANGED <<prog, heap, status, result>>
      [] Is(st[func], "cfunction") ->
           /\ stack' = st
           /\ ci' = Append(cs, [func |-> func, base |-> func + 1, top |-> ltop, pc |-> 0,
                                nresults |-> nresults, kind |-> "enters", to |-> NoReg])
           /\ top' = ltop
           /\ UNCHANGED <<prog, heap, status, result>>
      [] OTHER -> Raises(Message, st, cs)

\* callTM, for a result in the register to or without one.
CallTM(tm, args, to, st) ==
    Enter([r \in DOMAIN st |-> IF r \in top .. top + Len(args) THEN (<<tm>> \o args)[r - top + 1] ELSE st[r]],
          [ci EXCEPT ![Len(ci)].pc = @ + 1, ![Len(ci)].to = to],
          top, top + 1 + Len(args), IF to = NoReg THEN 0 ELSE 1)

\* luaV_gettable of t into register a of the stack st.
Gets(t, key, a, st) ==
    /\ \E found \in {Access(t, key, IndexEvent, flags, MaxTagLoop)} :
          /\ flags' = found.flags
          /\ CASE found.at = NilValue -> Raises(Message, st, ci)
               [] found.tm # NilValue -> CallTM(found.tm, <<found.at, key>>, Ci.base + a, st)
               [] OTHER ->
                    /\ stack' = [st EXCEPT ![Ci.base + a] = Get(tables[found.at[2]], key)]
                    /\ Goes(Ci.pc + 1)
                    /\ UNCHANGED <<prog, top, heap, status, result>>
    /\ UNCHANGED metatable

GetTable ==
    /\ Executes({"GETTABUP", "GETTABLE"})
    /\ Gets(IF Ins.op = "GETTABUP" THEN UpValue(Cl.upvals[Ins.b + 1]) ELSE R(Ins.b),
            RKValue(Ins.c), Ins.a, stack)

OpSelf ==
    /\ Executes({"SELF"})
    /\ Gets(R(Ins.b), RKValue(Ins.c), Ins.a, [stack EXCEPT ![Ci.base + Ins.a + 1] = R(Ins.b)])

SetTable ==
    /\ Executes({"SETTABUP", "SETTABLE"})
    /\ \E t \in {IF Ins.op = "SETTABUP" THEN UpValue(Cl.upvals[Ins.a + 1]) ELSE R(Ins.a)},
          key \in {RKValue(Ins.b)}, v \in {RKValue(Ins.c)} :
       \E found \in {Access(t, key, NewIndexEvent, flags, MaxTagLoop)} :
          CASE found.tm # NilValue ->
                 CallTM(found.tm, <<found.at, key, v>>, NoReg, stack) /\ flags' = found.flags
            [] found.tm = NilValue /\ (found.at = NilValue \/ key = NilValue) ->
                 Fails /\ flags' = found.flags
            [] OTHER ->
                 /\ tables' = [tables EXCEPT ![found.at[2]] = Put(@, key, v)]
                 /\ flags' = [found.flags EXCEPT ![found.at[2]] = {}]
                 /\ Goes(Ci.pc + 1)
                 /\ UNCHANGED <<prog, stack, top, closures, upvals, cache, status, result>>
    /\ UNCHANGED metatable

SetUpval ==
    /\ Executes({"SETUPVAL"})
    /\ \E u \in {Cl.upvals[Ins.b + 1]} :
          IF upvals[u].open
          THEN stack' = [stack EXCEPT ![upvals[u].at] = R(Ins.a)] /\ UNCHANGED upvals
          ELSE upvals' = [upvals EXCEPT ![u].value = R(Ins.a)] /\ UNCHANGED stack
    /\ Goes(Ci.pc + 1)
    /\ UNCHANGED <<prog, top, closures, cache, tables, status, result>>

NewTable ==
    /\ Executes({"NEWTABLE"})
    /\ tables' = Append(tables, <<>>) /\ metatable' = Append(metatable, 0) /\ flags' = Append(flags, {})
    /\ stack' = [stack EXCEPT ![Ci.base + Ins.a] = <<"table", Len(tables) + 1>>]
    /\ Goes(Ci.pc + 1)
    /\ UNCHANGED <<prog, top, closures, upvals, cache, status, result>>

\* The arithmetic instructions and luaV_arith.
OpArith ==
    /\ Executes({"ADD", "SUB", "MUL", "MOD"})
    /\ \E x \in {RKValue(Ins.b)}, y \in {RKValue(Ins.c)} :
          SetsOrFails(Is(x, "number") /\ Is(y, "number"), Ins.a, <<"number", Arith(Ins.op, x[2], y[2])>>)

OpUnm ==
    Executes({"UNM"}) /\ SetsOrFails(Is(R(Ins.b), "number"), Ins.a, <<"number", - R(Ins.b)[2]>>)

Not == Executes({"NOT"}) /\ Sets(Ins.a, Bool(IsFalse(R(Ins.b))))

\* luaV_objlen
ObjLen ==
    /\ Executes({"LEN"})
    /\ \E v \in {R(Ins.b)} :
          SetsOrFails(Is(v, "table") \/ Is(v, "string"), Ins.a,
                      <<"number", IF Is(v, "table") THEN Border(tables[v[2]]) ELSE Len(v[2])>>)

\* OP_CONCAT, which leaves the string in its first operand too.
OpConcat ==
    /\ Executes({"CONCAT"})
    /\ \E vs \in {[n \in 1 .. Ins.c - Ins.b + 1 |-> R(Ins.b + n - 1)]} :
          IF \E n \in DOMAIN vs : ~ Joins(vs[n]) THEN Fails
          ELSE /\ stack' = [stack EXCEPT ![Ci.base + Ins.a] = <<"string", TextOf(vs)>>,
                                         ![Ci.base + Ins.b] = <<"string", TextOf(vs)>>]
               /\ Goes(Ci.pc + 1)
               /\ top' = Ci.top
               /\ UNCHANGED <<prog, heap, status, result>>

\* dojump
DoJump(j, st) ==
    /\ upvals' = IF j.a > 0 THEN Closed(upvals, st, Ci.base + j.a - 1) ELSE upvals
    /\ Goes(j.b)

Jmp ==
    /\ Executes({"JMP"})
    /\ DoJump(Ins, stack)
    /\ UNCHANGED <<prog, stack, top, closures, cache, tables, status, result>>

\* A test that succeeds does the jump that follows it, or skips it.
Branch(succeeds) ==
    IF succeeds THEN DoJump(Fn.code[Ci.pc + 2], stack) ELSE Goes(Ci.pc + 2) /\ UNCHANGED upvals

\* l_strcmp: negative, zero or positive.
RECURSIVE StrCmp(_, _)
StrCmp(l, r) ==
    LET Place(c) == SelectInSeq(Collation, LAMBDA x : x = c)
    IN  CASE l = <<>> \/ r = <<>> -> Len(l) - Len(r)
          [] l # <<>> /\ r # <<>> ->
               IF l[1] = r[1] THEN StrCmp(Tail(l), Tail(r)) ELSE Place(l[1]) - Place(r[1])

\* luaV_equalobj_, raw, and luaV_lessthan and luaV_lessequal.
EqualObj(x, y) == x = y
Ordered(x, y) == x[1] = y[1] /\ x[1] \in {"number", "string"}
LessThan(x, y) == IF Is(x, "number") THEN x[2] < y[2] ELSE StrCmp(x[2], y[2]) < 0
LessEqual(x, y) == IF Is(x, "number") THEN x[2] <= y[2] ELSE StrCmp(x[2], y[2]) <= 0

Compare ==
    /\ Executes({"EQ", "LT", "LE"})
    /\ \E x \in {RKValue(Ins.b)}, y \in {RKValue(Ins.c)} :
          IF Ins.op # "EQ" /\ ~ Ordered(x, y) THEN Fails
          ELSE /\ Branch((CASE Ins.op = "EQ" -> EqualObj(x, y)
                            [] Ins.op = "LT" -> LessThan(x, y)
                            [] Ins.op = "LE" -> LessEqual(x, y)) <=> Ins.a = 1)
               /\ UNCHANGED <<prog, stack, top, closures, cache, tables, status, result>>

Test ==
    /\ Executes({"TEST"})
    /\ Branch(IsFalse(R(Ins.a)) <=> Ins.c = 0)
    /\ UNCHANGED <<prog, stack, top, closures, cache, tables, status, result>>

TestSet ==
    /\ Executes({"TESTSET"})
    /\ \E goes \in {IsFalse(R(Ins.b)) <=> Ins.c = 0} :
          /\ Branch(goes)
          /\ stack' = IF goes THEN [stack EXCEPT ![Ci.base + Ins.a] = R(Ins.b)] ELSE stack
    /\ UNCHANGED <<prog, top, closures, cache, tables, status, result>>

-----------------------------------------------------------------------------
(* Calls. *)

\* Where the arguments or results that start at register a end.
Until(a, b) == IF b # 0 THEN Ci.base + a + b ELSE top

Calls(func, ltop, nresults) == Enter(stack, [ci EXCEPT ![Len(ci)].pc = @ + 1], func, ltop, nresults)

Call == Executes({"CALL"}) /\ Calls(Ci.base + Ins.a, Until(Ins.a, Ins.b), Ins.c - 1)

\* A tail call puts the called frame in the place of the caller's, unless it is a
\* C function's: a return follows.
TailCall ==
    /\ Executes({"TAILCALL"})
    /\ IF ~ Is(R(Ins.a), "function") THEN Calls(Ci.base + Ins.a, Until(Ins.a, Ins.b), MultRet)
       ELSE \E call \in {PreCall(stack, Ci.base + Ins.a, Until(Ins.a, Ins.b), MultRet)} :
            \E down \in {call.ci.func - Ci.func},
               lim \in {call.ci.base + ProtoAt(Mains[prog], closures[R(Ins.a)[2]].proto).numparams} :
               /\ upvals' = IF Fn.protos # <<>> THEN Closed(upvals, call.stack, Ci.base) ELSE upvals
               /\ stack' = [r \in DOMAIN stack |->
                     IF r \in Ci.func .. lim - down - 1 THEN call.stack[r + down] ELSE call.stack[r]]
               /\ ci' = [ci EXCEPT ![Len(ci)] =
                           [@ EXCEPT !.base = call.ci.base - down, !.top = call.ci.top - down,
                                     !.pc = 0]]
               /\ top' = call.ci.top - down
               /\ UNCHANGED <<prog, closures, cache, tables, status, result>>

\* luaD_poscall: the results first .. first + n - 1 of st take the place of the
\* function, as many as the caller wants; callTM moves one to its register.
PosCall(st, first, n) ==
    \E func \in {Ci.func}, wanted \in {Ci.nresults}, to \in {IF Len(ci) = 1 THEN NoReg ELSE ci[Len(ci) - 1].to} :
    \E count \in {IF wanted = MultRet THEN n ELSE wanted} :
       /\ stack' = [r \in DOMAIN st |->
             IF r \notin (func .. func + count - 1) \cup ({to} \ {NoReg}) THEN st[r]
             ELSE IF r = to THEN IF n > 0 THEN st[first] ELSE NilValue
             ELSE IF r - func < n THEN st[first + r - func] ELSE NilValue]
       /\ IF Len(ci) = 1
          THEN /\ status' = "done"
               /\ result' = [r \in 1 .. count |-> stack'[func + r - 1]]
               /\ UNCHANGED <<ci, top>>
          ELSE /\ ci' = [Front(ci) EXCEPT ![Len(ci) - 1].to = NoReg]
               /\ top' = IF wanted = MultRet THEN func + count ELSE ci[Len(ci) - 1].top
               /\ UNCHANGED <<status, result>>
       /\ UNCHANGED <<prog, closures, cache, tables>>

\* OP_RETURN
Return ==
    /\ Executes({"RETURN"})
    /\ upvals' = IF Fn.protos # <<>> THEN Closed(upvals, stack, Ci.base) ELSE upvals
    /\ PosCall(stack, Ci.base + Ins.a, IF Ins.b # 0 THEN Ins.b - 1 ELSE top - (Ci.base + Ins.a))

-----------------------------------------------------------------------------
(* C functions. *)

RunsC(name) == status = "run" /\ Ci.kind = "enters" /\ stack[Ci.func][2] = name

\* luaB_error; a string, or a number, gets the position in front.
RaisedBy(vs) ==
    LET v == IF vs = <<>> THEN NilValue ELSE vs[1]
    IN  IF Joins(v) THEN <<"string", <<"position">> \o Text(v)>> ELSE v
LuaError == RunsC("error") /\ Raises(RaisedBy(IF top = Ci.base THEN <<>> ELSE <<stack[Ci.base]>>), stack, ci)

\* luaB_pcall makes room for the status and calls its first argument (lua_pcallk).
PCall ==
    /\ RunsC("pcall")
    /\ IF top = Ci.base THEN Fails
       ELSE Enter([r \in DOMAIN stack |->
                     IF r = Ci.base THEN NilValue ELSE IF r \in Ci.base + 1 .. top THEN stack[r - 1] ELSE stack[r]],
                  [ci EXCEPT ![Len(ci)].kind = "protects"], Ci.base + 1, top + 1, MultRet)

\* finishpcall, after the call returned or failed.
PCallReturns ==
    /\ status = "run" /\ Ci.kind \in {"protects", "failed"}
    /\ PosCall([stack EXCEPT ![Ci.base] = Bool(Ci.kind = "protects")], Ci.base, top - Ci.base)
    /\ UNCHANGED upvals

\* luaB_setmetatable
LuaSetMetatable ==
    /\ RunsC("setmetatable")
    /\ \E t \in {stack[Ci.base]}, mt \in {stack[Ci.base + 1]} :
          IF /\ top >= Ci.base + 2 /\ Is(t, "table") /\ (Is(mt, "table") \/ mt = NilValue)
             /\ metatable[t[2]] # 0 => Get(tables[metatable[t[2]]], <<"string", <<"__metatable">>>>) = NilValue
          THEN /\ metatable' = [metatable EXCEPT ![t[2]] = IF mt = NilValue THEN 0 ELSE mt[2]]
               /\ PosCall(stack, Ci.base, 1)
               /\ UNCHANGED upvals
          ELSE Fails /\ UNCHANGED metatable
    /\ UNCHANGED flags

-----------------------------------------------------------------------------
(* Varargs, loops, constructors and functions. *)

Vararg ==
    /\ Executes({"VARARG"})
    /\ \E n \in {Ci.base - Ci.func - Fn.numparams - 1}, ra \in {Ci.base + Ins.a} :
       \E b \in {IF Ins.b = 0 THEN n ELSE Ins.b - 1} :
          /\ stack' = [r \in DOMAIN stack |->
                IF r \notin ra .. ra + b - 1 THEN stack[r]
                ELSE IF r - ra < n THEN stack[Ci.base - n + r - ra] ELSE NilValue]
          /\ top' = IF Ins.b = 0 THEN ra + n ELSE top
    /\ Goes(Ci.pc + 1)
    /\ UNCHANGED <<prog, heap, status, result>>

ForPrep ==
    /\ Executes({"FORPREP"})
    /\ IF \E n \in 0 .. 2 : ~ Is(R(Ins.a + n), "number") THEN Fails
       ELSE /\ stack' = [stack EXCEPT ![Ci.base + Ins.a] = <<"number", @[2] - R(Ins.a + 2)[2]>>]
            /\ Goes(Ins.b)
            /\ UNCHANGED <<prog, top, heap, status, result>>

ForLoop ==
    /\ Executes({"FORLOOP"})
    /\ \E step \in {R(Ins.a + 2)[2]}, limit \in {R(Ins.a + 1)[2]} :
       \E idx \in {R(Ins.a)[2] + step} :
          IF IF 0 < step THEN idx <= limit ELSE limit <= idx
          THEN /\ stack' = [stack EXCEPT ![Ci.base + Ins.a] = <<"number", idx>>,
                                         ![Ci.base + Ins.a + 3] = <<"number", idx>>]
               /\ Goes(Ins.b)
          ELSE UNCHANGED stack /\ Goes(Ci.pc + 1)
    /\ UNCHANGED <<prog, top, heap, status, result>>

TForCall ==
    /\ Executes({"TFORCALL"})
    /\ Enter([r \in DOMAIN stack |->
                 IF r \in Ci.base + Ins.a + 3 .. Ci.base + Ins.a + 5 THEN stack[r - 3] ELSE stack[r]],
             [ci EXCEPT ![Len(ci)].pc = @ + 1], Ci.base + Ins.a + 3, Ci.base + Ins.a + 6, Ins.c)

TForLoop ==
    /\ Executes({"TFORLOOP"})
    /\ IF R(Ins.a + 1) # NilValue
       THEN stack' = [stack EXCEPT ![Ci.base + Ins.a] = R(Ins.a + 1)] /\ Goes(Ins.b)
       ELSE UNCHANGED stack /\ Goes(Ci.pc + 1)
    /\ UNCHANGED <<prog, top, heap, status, result>>

\* The table t with the list vs, whose values come after the first ones.
WithList(t, first, vs) ==
    LET at == [m \in DOMAIN vs |-> <<"number", first + m>>]
        kept == DOMAIN t \ {at[m] : m \in DOMAIN vs}
        set == {m \in DOMAIN vs : vs[m] # NilValue}
    IN  [k \in kept \cup {at[m] : m \in set} |-> IF k \in kept THEN t[k] ELSE vs[k[2] - first]]

\* The values that OP_SETLIST stores.
ListValues == [m \in 1 .. (IF Ins.b = 0 THEN top - (Ci.base + Ins.a) - 1 ELSE Ins.b) |-> R(Ins.a + m)]

\* Mutant: the top stays where an open call or "..." put it.
OpSetListKeepsTop ==
    /\ Executes({"SETLIST"})
    /\ \E vs \in {ListValues} :
          tables' = [tables EXCEPT ![R(Ins.a)[2]] = WithList(@, (Ins.c - 1) * FieldsPerFlush, vs)]
    /\ Goes(Ci.pc + 1)
    /\ UNCHANGED <<prog, stack, top, closures, upvals, cache, status, result>>

OpSetList ==
    /\ Executes({"SETLIST"})
    /\ \E vs \in {ListValues} :
          tables' = [tables EXCEPT ![R(Ins.a)[2]] = WithList(@, (Ins.c - 1) * FieldsPerFlush, vs)]
    /\ top' = Ci.top
    /\ Goes(Ci.pc + 1)
    /\ UNCHANGED <<prog, stack, closures, upvals, cache, status, result>>

\* luaF_findupval of each of the registers in turn: the upvalues, with new ones.
RECURSIVE FindUpvals(_, _)
FindUpvals(up, regs) ==
    IF regs = <<>> THEN up
    ELSE FindUpvals(IF \E u \in DOMAIN up : up[u].open /\ up[u].at = regs[1] THEN up
                    ELSE Append(up, [open |-> TRUE, at |-> regs[1], value |-> NilValue]),
                    Tail(regs))

\* getcached: the last function that was made of a prototype has the same
\* variables as upvalues.
Cached(path, descs) ==
    /\ path \in DOMAIN cache
    /\ \A n \in DOMAIN descs :
          LET has == closures[cache[path]].upvals[n]
              enc == Cl.upvals[descs[n].idx + 1]
              at == Ci.base + descs[n].idx
          IN  IF descs[n].instack THEN upvals[has].open /\ upvals[has].at = at
              ELSE has = enc \/ (upvals[has].open /\ upvals[enc].open /\ upvals[has].at = upvals[enc].at)

\* OP_CLOSURE and pushclosure
Closure ==
    /\ Executes({"CLOSURE"})
    /\ \E path \in {Append(Cl.proto, Ins.b)}, descs \in {Fn.protos[Ins.b + 1].upvals} :
          IF Cached(path, descs)
          THEN /\ stack' = [stack EXCEPT ![Ci.base + Ins.a] = <<"function", cache[path]>>]
               /\ UNCHANGED <<closures, upvals, cache>>
          ELSE \E up \in {FindUpvals(upvals, [n \in 1 .. Len(SelectSeq(descs, LAMBDA d : d.instack)) |->
                              Ci.base + SelectSeq(descs, LAMBDA d : d.instack)[n].idx])} :
                  /\ upvals' = up
                  /\ closures' = Append(closures, [proto |-> path, upvals |->
                        [n \in DOMAIN descs |->
                           IF descs[n].instack
                           THEN CHOOSE u \in DOMAIN up : up[u].open /\ up[u].at = Ci.base + descs[n].idx
                           ELSE Cl.upvals[descs[n].idx + 1]]])
                  /\ cache' = (path :> Len(closures) + 1) @@ cache
                  /\ stack' = [stack EXCEPT ![Ci.base + Ins.a] = <<"function", Len(closures) + 1>>]
    /\ Goes(Ci.pc + 1)
    /\ UNCHANGED <<prog, top, tables, status, result>>

-----------------------------------------------------------------------------

\* The program is called without arguments; its upvalue is the table of globals.
BaseLibrary == [k \in {<<"string", <<name>>>> : name \in {"pcall", "error", "setmetatable"}} |-> <<"cfunction", k[2][1]>>]
Init ==
    /\ prog \in DOMAIN Mains
    /\ stack = [r \in 0 .. StackSize - 1 |-> IF r = 0 THEN <<"function", 1>> ELSE NilValue]
    /\ closures = <<[proto |-> <<>>, upvals |-> <<1>>]>>
    /\ upvals = <<[open |-> FALSE, at |-> 0, value |-> <<"table", 1>>]>>
    /\ cache = <<>> /\ tables = <<BaseLibrary>> /\ metatable = <<0>> /\ flags = <<{}>>
    /\ ci = <<[func |-> 0, base |-> 1, top |-> 1 + Mains[prog].maxstacksize, pc |-> 0,
               nresults |-> MultRet, kind |-> "lua", to |-> NoReg]>>
    /\ top = 1 + Mains[prog].maxstacksize
    /\ status = "run" /\ result = <<>>

\* luaV_execute
Next ==
    \/ GetTable \/ OpSelf \/ SetTable \/ NewTable \/ LuaSetMetatable
    \/ /\ \/ Move \/ LoadK \/ LoadBool \/ LoadNil \/ GetUpval \/ SetUpval \/ OpArith \/ OpUnm
          \/ Not \/ ObjLen \/ OpConcat \/ Jmp \/ Compare \/ Test \/ TestSet \/ Call \/ TailCall
          \/ Return \/ LuaError \/ PCall \/ PCallReturns \/ ForLoop \/ ForPrep \/ TForCall
          \/ TForLoop \/ OpSetList \/ Closure \/ Vararg
       /\ UNCHANGED metas

Spec == Init /\ [][Next]_vars
=============================================================================
