------------------------------- MODULE LuaGC --------------------------------
(***************************************************************************)
(* The memory of the Lua states that the game server, the gateway and the  *)
(* console client run in: the incremental mark and sweep collector of      *)
(* lgc.c, with the strings of lstring.c and the upvalues of lfunc.c, while *)
(* a program allocates and stores between any two steps of it.             *)
(*                                                                         *)
(* An object has two fields, ref[o]: key and value of a table's entry, the *)
(* metatable of a userdata, the upvalue of a closure, the value of a       *)
(* closed upvalue, the stack of a thread.  The two whites are named by     *)
(* what they mean at the time: "white" is the current one, "dead" the      *)
(* other.  Gray objects that wait in grayagain, weak or ephemeron are those *)
(* neither in gray nor in late.                                            *)
(***************************************************************************)
EXTENDS Integers, Sequences, FiniteSets

CONSTANTS Nil,         \* no object
          Main,        \* the main thread, which runs the program
          Objects,     \* addresses of the other objects
          Kinds,       \* what the addresses are used for: a set of functions
          StrHash      \* the hash of the string at an address

Tables == {"strong", "weakvalue", "ephemeron", "allweak"}
Types == Tables \cup {"udata", "string", "closure", "upval", "thread", "unused"}

ASSUME LuaGCAssumption ==
    /\ Nil \notin Objects \cup {Main} /\ Main \notin Objects
    /\ Kinds \subseteq [Objects -> Types]
    /\ StrHash \in [Objects -> Nat]
    /\ IsFiniteSet(Objects)

VARIABLES kind,        \* the type of the object at each address
          alive,       \* objects allocated and not freed
          color,       \* the bits of marked that are colours
          ref,         \* the two fields of each object
          open,        \* the thread whose stack an open upvalue points into
          gcstate,     \* g->gcstate
          gray,        \* g->gray
          late,        \* tables with ephemerons in g->allweak
          finobj,      \* list of objects with a finalizer
          tobefnz,     \* list of objects whose finalizer is to be called
          finalized,   \* objects with FINALIZEDBIT
          tosweep,     \* what is after g->sweepfin and g->sweepgc
          sweepstrgc,  \* g->sweepstrgc
          strsize,     \* g->strt.size
          full,        \* how often luaC_fullgc still runs to a pause; 0: not in it
          called       \* history: finalizers called for the object at an address

heap == <<kind, ref, open>>
fin == <<finobj, tobefnz, finalized, called>>
sweeping == <<tosweep, sweepstrgc, strsize>>
marks == <<color, gray, late>>
vars == <<heap, alive, marks, gcstate, fin, sweeping, full>>

Threads == {Main} \cup {o \in alive : kind[o] = "thread"}
Strings == {o \in alive : kind[o] = "string"}
Is(o, types) == o \in Objects /\ kind[o] \in types

\* The objects on a list, and a list without those of X.
Elements(s) == {s[i] : i \in DOMAIN s}
Without(s, X) ==
    LET rest[n \in 0 .. Len(s)] ==
            IF n = 0 THEN <<>>
            ELSE IF s[n] \in X THEN rest[n - 1] ELSE Append(rest[n - 1], s[n])
    IN  rest[Len(s)]

\* What a thread's stack holds; an upvalue may point to the second slot.
Stack(th) == {ref[th][1], ref[th][2]} \ {Nil}
OpenUpvals(th) == {u \in alive : open[u] = th}

\* *uv->v
Value(u) == IF open[u] # Nil THEN ref[open[u]][2] ELSE ref[u][2]

\* keepinvariant
Marking == gcstate = "propagate"

IsWhite(o, col) == o \in Objects /\ col[o] \in {"white", "dead"}

-----------------------------------------------------------------------------
(* Marking. *)

\* What reallymarkobject visits at once instead of through the gray list: the
\* value of an upvalue, the metatable of a userdata.
Visited(S, col) ==
    LET whites(T) == {o \in T : IsWhite(o, col)}
        values == {Value(u) : u \in {o \in whites(S) : Is(o, {"upval"})}}
        udatas == {o \in whites(S \cup values) : Is(o, {"udata"})}
    IN  whites(S \cup values \cup {ref[u][1] : u \in udatas})

\* Weak tables, threads and open upvalues stay gray when they are visited.
Done(o) ==
    IF Is(o, Tables \ {"strong"}) \/ Is(o, {"thread"}) \/ open[o] # Nil
    THEN "gray" ELSE "black"

\* The objects that wait for their traversal.
Listed(S) == {o \in S : Is(o, Tables \cup {"closure", "thread"})}

\* markobject of each object of S, from colours col and gray list l.
MarkAll(S, col, l) ==
    LET new == Visited(S, col)
    IN  /\ color' = [o \in Objects |-> IF o \notin new THEN col[o]
                                       ELSE IF o \in Listed(new) THEN "gray" ELSE Done(o)]
        /\ gray' = l \cup Listed(new)

\* The strings of a weak table are values and never weak (iscleared).
StringsOf(o) == {s \in {ref[o][1], ref[o][2]} : Is(s, {"string"})}

MarkedIn(col) == {Nil, Main} \cup {k \in Objects : ~ IsWhite(k, col)}

\* What the traversal of an object marks, where marked are the keys that are.
Children(o, marked) ==
    IF Is(o, Tables) /\ ref[o][2] = Nil THEN {}
    ELSE CASE Is(o, {"udata", "closure"}) -> {ref[o][1]}
           [] Is(o, {"upval"}) -> {Value(o)}
           [] Is(o, {"string", "allweak"}) -> {}
           [] Is(o, {"weakvalue"}) -> {ref[o][1]} \cup StringsOf(o)
           [] Is(o, {"ephemeron"}) ->
                 IF ref[o][1] \in marked \/ Is(ref[o][1], {"string"}) THEN {ref[o][1], ref[o][2]} ELSE {}
           [] OTHER -> {ref[o][1], ref[o][2]}

\* restartcollection.  Objects whose finalizer is still to be called are marked
\* as if they were white.
Restart ==
    /\ gcstate = "pause"
    /\ gcstate' = "propagate"
    /\ LET fnz == Elements(tobefnz)
       IN  MarkAll(fnz,
                   [o \in Objects |-> IF o \in fnz THEN "white" ELSE color[o]], {Main})
    /\ UNCHANGED <<heap, alive, late, fin, sweeping, full>>

\* removeentry: an empty entry forgets a key that is not marked.
Forgotten(o, col) ==
    Is(o, Tables \ {"allweak"}) /\ ref[o][2] = Nil /\ IsWhite(ref[o][1], col)

\* Mutant: the object stays in the list.
PropagateKeeps(o) ==
    /\ gcstate = "propagate" /\ o \in gray
    /\ LET col == [x \in Objects |-> IF x = o THEN Done(o) ELSE color[x]]
       IN  /\ MarkAll(Children(o, MarkedIn(col)), col, gray)
           /\ ref' = IF Forgotten(o, col) THEN [ref EXCEPT ![o][1] = Nil] ELSE ref
    /\ UNCHANGED <<kind, open, alive, late, gcstate, fin, sweeping, full>>

\* traverseephemeron links a table with a weak key that is not marked and a
\* value that is into allweak, where it is not traversed again.
TooLate(o, col) ==
    /\ Is(o, {"ephemeron"}) /\ ref[o][2] # Nil /\ ~ IsWhite(ref[o][2], col)
    /\ IsWhite(ref[o][1], col) /\ ~ Is(ref[o][1], {"string"})

\* propagatemark of one object of the gray list.
Propagate(o) ==
    /\ gcstate = "propagate" /\ o \in gray
    /\ LET col == [x \in Objects |-> IF x = o THEN Done(o) ELSE color[x]]
       IN  /\ MarkAll(Children(o, MarkedIn(col)), col, gray \ {o})
           /\ ref' = IF Forgotten(o, col) THEN [ref EXCEPT ![o][1] = Nil] ELSE ref
           /\ late' = IF TooLate(o, col) THEN late \cup {o} ELSE late
    /\ UNCHANGED <<kind, open, alive, gcstate, fin, sweeping, full>>

-----------------------------------------------------------------------------
(* The atomic phase. *)

\* What propagateall, retraversegrays, remarkupvals and convergeephemerons reach
\* together: the least set with S that no object still to be traversed leaves.
\* Black objects are not traversed again, nor are the tables of late; those of
\* again are.
Reached(S, again) ==
    LET closed(M) == \A o \in M \cup {Main} :
                        (o = Main \/ (color[o] # "black" /\ o \notin late) \/ o \in again)
                        => (Children(o, M \cup {Nil, Main}) \cap Objects) \subseteq M
        sets == {M \in {S \cup X : X \in SUBSET (alive \ S)} : closed(M)}
    IN  {o \in alive : \A M \in sets : o \in M}

\* Mutant: strings are objects like any other.
ClearedString(o, M) == o \in Objects \ M

\* iscleared, when the objects of M are marked.
Cleared(o, M) == o \in Objects \ M /\ ~ Is(o, {"string"})

\* clearvalues and clearkeys of a weak table's entry.
ClearValue(e, M) ==
    IF Cleared(e[2], M) THEN <<IF e[1] \in Objects \ M THEN Nil ELSE e[1], Nil>> ELSE e
ClearKey(e, M) == IF e[2] # Nil /\ Cleared(e[1], M) THEN <<Nil, Nil>> ELSE e

\* A weak table's entry after clearvalues, for the tables that were reached
\* before the finalizers were separated, clearkeys and clearvalues.
Cleaned(h, strong, kept) ==
    LET valweak == Is(h, {"weakvalue", "allweak"}) \/ h \in late
        e1 == IF valweak /\ h \in strong THEN ClearValue(ref[h], strong) ELSE ref[h]
        e2 == IF Is(h, {"ephemeron", "allweak"}) THEN ClearKey(e1, kept) ELSE e1
    IN  IF valweak /\ h \notin strong THEN ClearValue(e2, kept) ELSE e2

\* The strings that iscleared marks when it meets them in the entries r.
WeakStrings(M, r) ==
    {s \in UNION {{r[h][1], r[h][2]} : h \in {t \in M : (Is(t, {"allweak"}) \/ t \in late) /\ r[t][2] # Nil}} :
        Is(s, {"string"})}

\* entersweep: what is in the lists now will be swept.
EnterSweep(objs) ==
    /\ gcstate' = "sweepstring"
    /\ sweepstrgc' = 0
    /\ tosweep' = {o \in objs : kind[o] # "string" /\ open[o] = Nil}

\* separatetobefnz: the objects with a finalizer that nothing reaches, in the
\* order of finobj, go to the end of tobefnz.
Lost(strong) == Without(finobj, strong)
Separate(lost) ==
    /\ finobj' = Without(finobj, Elements(lost))
    /\ tobefnz' = tobefnz \o lost
    /\ finalized' = finalized \cup Elements(lost)

\* atomic: values that are only finalized leave the weak tables before their
\* finalizers run, keys after; then the whites are exchanged.
Atomic ==
    /\ gcstate = "propagate" /\ gray = {}
    /\ \E strong \in {Reached({o \in alive : ~ IsWhite(o, color)}, {})} :
       \E lost \in {Lost(strong)} :
       \E fnz \in {Elements(tobefnz \o lost)} :
       \E kept \in {Reached(strong \cup fnz, fnz)} :
          /\ Separate(lost)
          /\ \E entry \in {[h \in kept |-> Cleaned(h, strong, kept)]} :
                /\ ref' = [o \in DOMAIN ref |-> IF o \in kept THEN entry[o] ELSE ref[o]]
                /\ color' = [o \in Objects |->
                       IF o \in kept \cup WeakStrings(kept, entry)
                       THEN Done(o)
                       ELSE IF color[o] = "white" /\ o \in alive THEN "dead" ELSE "white"]
          /\ EnterSweep(alive \ fnz)
    /\ late' = {}
    /\ UNCHANGED <<kind, open, alive, gray, called, strsize, full>>

-----------------------------------------------------------------------------
(* Sweeping. *)

Dead(o) == o \in Objects /\ color[o] = "dead"

\* freeobj of the objects of D, and the colour of those of L, which live.  A
\* thread that goes closes its upvalues (luaF_close): those that live keep the
\* value.
Sweep(D, L) ==
    LET ends == {u \in alive : open[u] \in D}
        freed == D \cup {u \in ends : Dead(u)}
        closed == ends \ freed
    IN  /\ alive' = alive \ freed
        /\ color' = [o \in Objects |-> IF o \in freed \cup L \cup closed THEN "white" ELSE color[o]]
        /\ ref' = [o \in DOMAIN ref |-> IF o \in freed THEN <<Nil, Nil>>
                                        ELSE IF o \in closed THEN <<Nil, Value(o)>> ELSE ref[o]]
        /\ open' = [o \in Objects |-> IF o \in freed \cup closed THEN Nil ELSE open[o]]
        /\ finalized' = finalized \ freed
        /\ called' = [o \in Objects |-> IF o \in freed THEN 0 ELSE called[o]]
        /\ finobj' = Without(finobj, freed)

\* The open upvalues of a thread are swept with it (sweepthread).
SweepObjects(S) ==
    LET all == S \cup UNION {OpenUpvals(th) : th \in {o \in S : ~ Dead(o)}}
    IN  Sweep({o \in all : Dead(o)}, {o \in all : ~ Dead(o)} \cap Objects)

Bucket(i, size) == {s \in Strings : StrHash[s] % size = i}

SweepString ==
    /\ gcstate = "sweepstring"
    /\ SweepObjects(Bucket(sweepstrgc, strsize))
    /\ sweepstrgc' = sweepstrgc + 1
    /\ gcstate' = IF sweepstrgc' >= strsize THEN "sweepudata" ELSE gcstate
    /\ UNCHANGED <<kind, gray, tobefnz, tosweep, strsize, full, late>>

SweepUdata ==
    /\ gcstate = "sweepudata"
    /\ LET fins == tosweep \cap Elements(finobj)
       IN  \/ \E o \in fins : SweepObjects({o}) /\ tosweep' = tosweep \ {o} /\ UNCHANGED gcstate
           \/ /\ fins = {}
              /\ gcstate' = "sweep"
              /\ UNCHANGED <<ref, open, alive, color, fin, tosweep>>
    /\ UNCHANGED <<kind, gray, tobefnz, sweepstrgc, strsize, full, late>>

SweepAll ==
    /\ gcstate = "sweep"
    /\ \E o \in tosweep : SweepObjects({o}) /\ tosweep' = tosweep \ {o}
    /\ UNCHANGED <<kind, gray, tobefnz, sweepstrgc, strsize, gcstate, full, late>>

\* checkSizes: an emergency collection does not shrink the string table.
CheckSizes ==
    strsize' \in {strsize} \cup
        (IF Cardinality(Strings) < strsize \div 2 THEN {strsize \div 2} ELSE {})

\* The main thread is swept last.
SweepEnds ==
    /\ gcstate = "sweep" /\ tosweep = {}
    /\ SweepObjects({Main})
    /\ CheckSizes
    /\ gcstate' = "pause"
    /\ full' = IF full > 0 THEN full - 1 ELSE full
    /\ UNCHANGED <<kind, gray, tobefnz, tosweep, sweepstrgc, late>>

\* singlestep
SingleStep ==
    \/ Restart \/ (\E o \in gray : Propagate(o)) \/ Atomic
    \/ SweepString \/ SweepUdata \/ SweepAll \/ SweepEnds

-----------------------------------------------------------------------------
(* The program.  The stack of the main thread stands for its registers,     *)
(* its globals and the registry; a call leaves its result in slot 1.        *)

\* What an object refers to; an empty entry is not seen.
Refs(o) ==
    (IF Is(o, Tables) /\ ref[o][2] = Nil THEN {}
     ELSE IF Is(o, {"upval"}) THEN {Value(o)} ELSE {ref[o][1], ref[o][2]}) \ {Nil}

\* What the program can get at, along every reference.
Closure(roots) ==
    LET closed(M) == \A o \in M : Refs(o) \subseteq M
        sets == {M \in {roots \cup X : X \in SUBSET (Objects \ roots)} : closed(M)}
    IN  {o \in Objects : \A M \in sets : o \in M}
Accessible == Closure(Stack(Main))

\* What a variable can hold; the upvalue of a closure is no value itself.
Values == {o \in Accessible : ~ Is(o, {"upval"})} \cup {Nil}

\* A call leaves its result in the first slot.
SetTop(v) == [ref EXCEPT ![Main][1] = v]

\* Mutant: no barrier.
NoBarrier(o, v) == UNCHANGED <<color, gray>>

\* luaC_barrier_: forward while marking; a black owner turns white in a sweep.
\* The assertion !isdead(g, v) of the code is part of NoDangling.
Barrier(o, v) ==
    IF o \in Objects /\ color[o] = "black" /\ IsWhite(v, color)
    THEN IF Marking THEN MarkAll({v}, color, gray)
         ELSE color' = [color EXCEPT ![o] = "white"] /\ UNCHANGED gray
    ELSE UNCHANGED <<color, gray>>

\* luaC_barrierback_: the table is gray again, in grayagain.
BarrierBack(t, vs) ==
    /\ color' = IF color[t] = "black" /\ \E v \in vs : IsWhite(v, color)
                THEN [color EXCEPT ![t] = "gray"] ELSE color
    /\ UNCHANGED gray

\* luaC_newobj of any type but strings, upvalues and closures.
New(o) ==
    /\ o \notin alive /\ Is(o, Tables \cup {"udata", "thread"})
    /\ alive' = alive \cup {o}
    /\ ref' = SetTop(o)
    /\ UNCHANGED <<kind, open, color, gcstate, gray, fin, sweeping, full, late>>

\* Mutant: internshrstr returns a dead string as it is.
InternDead(o) ==
    /\ o \in alive /\ Is(o, {"string"})
    /\ ref' = SetTop(o)
    /\ UNCHANGED <<kind, open, alive, color, gcstate, gray, fin, sweeping, full, late>>

\* internshrstr of the content at o: a dead string that is not swept yet is
\* resurrected.
Intern(o) ==
    /\ o \in alive /\ Is(o, {"string"})
    /\ color' = IF Dead(o) THEN [color EXCEPT ![o] = "white"] ELSE color
    /\ ref' = SetTop(o)
    /\ UNCHANGED <<kind, open, alive, gcstate, gray, fin, sweeping, full, late>>

\* newshrstr.  A crowded table is doubled, but not in the middle of a sweep of
\* the strings (luaS_resize), which is finished first.
NewString(o) ==
    /\ o \notin alive /\ Is(o, {"string"})
    /\ LET crowded == Cardinality(Strings) >= strsize
           left == IF crowded /\ gcstate = "sweepstring"
                   THEN UNION {Bucket(i, strsize) : i \in sweepstrgc .. strsize - 1} ELSE {}
       IN  /\ strsize' = IF crowded THEN 2 * strsize ELSE strsize
           /\ gcstate' = IF crowded /\ gcstate = "sweepstring" THEN "sweepudata" ELSE gcstate
           /\ alive' = {s \in alive : s \notin left \/ ~ Dead(s)} \cup {o}
           /\ color' = [s \in Objects |-> IF s \in left THEN "white" ELSE color[s]]
    /\ ref' = SetTop(o)
    /\ UNCHANGED <<kind, open, gray, fin, tosweep, sweepstrgc, full, late>>

\* OP_CLOSURE in thread th for a local variable in its second slot:
\* luaF_findupval returns the open upvalue of the slot, alive again if it was
\* dead, or makes one.
NewClosure(c, u, th) ==
    /\ c \notin alive /\ Is(c, {"closure"})
    /\ th = Main \/ th \in Accessible
    /\ \/ u \in OpenUpvals(th) /\ color' = IF Dead(u) THEN [color EXCEPT ![u] = "white"] ELSE color
       \/ OpenUpvals(th) = {} /\ u \notin alive /\ Is(u, {"upval"}) /\ UNCHANGED color
    /\ alive' = alive \cup {c, u}
    /\ open' = [open EXCEPT ![u] = th]
    /\ ref' = [SetTop(c) EXCEPT ![c] = <<u, Nil>>]
    /\ UNCHANGED <<kind, gcstate, gray, fin, sweeping, full, late>>

\* luaF_close of the local variable of a thread that ends its block.
CloseUpval(u) ==
    /\ u \in alive /\ open[u] # Nil /\ (open[u] = Main \/ open[u] \in Accessible)
    /\ open' = [open EXCEPT ![u] = Nil]
    /\ IF Dead(u)
       THEN alive' = alive \ {u} /\ color' = [color EXCEPT ![u] = "white"] /\ UNCHANGED <<ref, gray>>
       ELSE /\ ref' = [ref EXCEPT ![u] = <<Nil, Value(u)>>]
            /\ UNCHANGED alive
            /\ IF color[u] # "gray" THEN UNCHANGED <<color, gray>>
               ELSE IF Marking THEN MarkAll({Value(u)}, [color EXCEPT ![u] = "black"], gray)
               ELSE color' = [color EXCEPT ![u] = "white"] /\ UNCHANGED gray
    /\ UNCHANGED <<kind, gcstate, fin, sweeping, full, late>>

\* OP_SETUPVAL
SetUpval(c, v) ==
    /\ Is(c, {"closure"})
    /\ LET u == ref[c][1]
       IN  IF open[u] # Nil
           THEN ref' = [ref EXCEPT ![open[u]][2] = v] /\ UNCHANGED <<color, gray>>
           ELSE ref' = [ref EXCEPT ![u][2] = v] /\ Barrier(u, v)
    /\ UNCHANGED <<kind, open, alive, gcstate, fin, sweeping, full, late>>

\* lua_rawset and luaV_settable: a new key only replaces that of an empty entry.
SetTable(t, k, v) ==
    /\ Is(t, Tables)
    /\ k = ref[t][1] \/ (ref[t][2] = Nil /\ v # Nil)
    /\ Is(t, {"strong"}) => k = Nil
    /\ ref' = [ref EXCEPT ![t] = <<k, v>>]
    /\ BarrierBack(t, IF k = ref[t][1] THEN {v} ELSE {k, v})
    /\ UNCHANGED <<kind, open, alive, gcstate, fin, sweeping, full, late>>

\* Mutant: FINALIZEDBIT is not looked at.
SeparatesAgain(d, gc) == gc /\ d \notin Elements(finobj)

\* luaC_checkfinalizer goes on: there is a __gc, and d is not on the list yet, nor
\* was it called.
Separates(d, gc) == gc /\ d \notin finalized /\ d \notin Elements(finobj)

\* luaC_checkfinalizer: the object moves to the list finobj; outside of the marking
\* it becomes white.
CheckFinalizer(d, mt, moves) ==
    /\ finobj' = IF moves THEN <<d>> \o finobj ELSE finobj
    /\ tosweep' = IF moves THEN tosweep \ {d} ELSE tosweep
    /\ IF moves /\ ~ Marking
       THEN color' = [color EXCEPT ![d] = "white"] /\ UNCHANGED gray
       ELSE Barrier(d, mt)

\* lua_setmetatable of a userdata; mt has a __gc or not.
SetMetatable(d, mt, gc) ==
    /\ Is(d, {"udata"}) /\ Is(mt, Tables)
    /\ ref' = [ref EXCEPT ![d][1] = mt]
    /\ CheckFinalizer(d, mt, Separates(d, gc))
    /\ UNCHANGED <<kind, open, alive, gcstate, tobefnz, finalized, called,
                   sweepstrgc, strsize, full, late>>

\* Resuming a coroutine passes it a value, on a stack without barriers.
SetStack(th, v) ==
    /\ Is(th, {"thread"})
    /\ ref' = [ref EXCEPT ![th][2] = v]
    /\ UNCHANGED <<kind, open, alive, color, gcstate, gray, fin, sweeping, full, late>>

\* A local or global variable of the program is assigned.
SetLocal(i, v) ==
    /\ ref' = [ref EXCEPT ![Main][i] = v]
    /\ UNCHANGED <<kind, open, alive, color, gcstate, gray, fin, sweeping, full, late>>

\* GCTM: the next object is back among the others and its finalizer is called,
\* which may do with it what the program may do.
Finalize ==
    /\ tobefnz # <<>>
    /\ LET d == Head(tobefnz)
       IN  /\ color' = IF Marking THEN color ELSE [color EXCEPT ![d] = "white"]
           /\ ref' = SetTop(d)
           /\ called' = [called EXCEPT ![d] = @ + 1]
    /\ tobefnz' = Tail(tobefnz)
    /\ UNCHANGED <<kind, open, alive, gcstate, gray, finobj, finalized, sweeping, full, late>>

\* luaC_fullgc up to its runs to a pause, which are the single steps.  A cycle
\* that is marking is given up: the whites are not exchanged, so that the sweep
\* only turns what it visits white, and one whole cycle follows; a sweep is
\* finished first.  The finalizers that it calls before and, back at the pause,
\* after the cycle are steps of the program; an emergency collection calls none.
FullGC ==
    /\ full' = IF gcstate \in {"pause", "propagate"} THEN 1 ELSE 2
    /\ LET fnz == Elements(tobefnz)
       IN  IF Marking
           THEN /\ gcstate' = "pause" /\ gray' = {}
                /\ color' = [o \in Objects |-> IF o \in fnz THEN color[o] ELSE "white"]
                /\ CheckSizes
           ELSE UNCHANGED <<gcstate, gray, color, strsize>>
    /\ late' = {}
    /\ UNCHANGED <<heap, alive, fin, tosweep, sweepstrgc>>

\* What the program does, when it does not wait for luaC_fullgc.
Program ==
    /\ full = 0
    /\ \/ \E o \in Objects : New(o) \/ Intern(o) \/ NewString(o) \/ CloseUpval(o)
       \/ \E c, u \in Objects, th \in Threads : NewClosure(c, u, th)
       \/ \E o \in Accessible, v \in Values :
             \/ SetUpval(o, v) \/ SetStack(o, v)
             \/ \E k \in Values : SetTable(o, k, v)
             \/ \E gc \in BOOLEAN : SetMetatable(o, v, gc)
       \/ \E i \in 1 .. 2, v \in Values : SetLocal(i, v)
       \/ Finalize
       \/ FullGC

\* A new Lua state.
Init ==
    /\ kind \in Kinds
    /\ alive = {} /\ color = [o \in Objects |-> "white"]
    /\ ref = [o \in Objects \cup {Main} |-> <<Nil, Nil>>]
    /\ open = [o \in Objects |-> Nil]
    /\ gcstate = "pause" /\ gray = {} /\ late = {}
    /\ finobj = <<>> /\ tobefnz = <<>> /\ finalized = {} /\ called = [o \in Objects |-> 0]
    /\ tosweep = {} /\ sweepstrgc = 0 /\ strsize = 1 /\ full = 0

Next == SingleStep \/ Program

Spec == Init /\ [][Next]_vars

(***************************************************************************)
(* The program goes on allocating, so luaC_step brings the next single     *)
(* step, and luaC_fullgc does not return before its steps are made.  A     *)
(* finalizer that waits is called when the program runs again: after each  *)
(* step, luaC_forcestep calls some, and at a pause all; luaC_fullgc calls  *)
(* all of them unless it is an emergency collection, which is part of an   *)
(* allocation and is followed by others.  While full > 0 no finalizer can  *)
(* be called, again and again if the program calls luaC_fullgc again and   *)
(* again: hence strong fairness.                                           *)
(***************************************************************************)
FairSpec == Spec /\ WF_vars(SingleStep) /\ SF_vars(full = 0 /\ Finalize)

-----------------------------------------------------------------------------

\* No reference that the program can follow leads to memory that was freed,
\* also from the objects whose finalizers are to come.
NoDangling == Closure(Stack(Main) \cup Elements(tobefnz)) \subseteq alive

\* lgc.h: while the collector marks, a black object never refers to a white
\* one, whatever the program stored since the object was visited.
TriColour ==
    Marking => \A o \in alive : color[o] = "black" => \A v \in Refs(o) : ~ IsWhite(v, color)

\* An object is freed only when no finalizer of it is outstanding, and one that
\* had a finalizer has had it called exactly once.
FinalizedOnce ==
    [][\A o \in alive \ alive' :
          /\ o \notin Elements(finobj) /\ o \notin Elements(tobefnz)
          /\ called[o] = IF o \in finalized THEN 1 ELSE 0]_vars

\* What is reachable without the weak references and the tables of late: the value
\* of any other ephemeron counts once its key is reachable.
StrongRefs(o, M) ==
    IF o \in late THEN {}
    ELSE IF Is(o, Tables) THEN Children(o, M \cup {Nil}) \ {Nil} ELSE Refs(o)
Strong ==
    LET closed(M) == \A o \in M : StrongRefs(o, M) \subseteq M
        sets == {M \in {Stack(Main) \cup X : X \in SUBSET Objects} : closed(M)}
    IN  {o \in Objects : \A M \in sets : o \in M}

\* The collector takes an entry out of a weak table only if its weak key or its
\* weak value was not strongly reachable and is no string (strings are values),
\* and out of no other table.
Losable(v) == v \notin Strong /\ ~ Is(v, {"string"})
WronglyTaken(h) ==
    /\ Is(h, Tables) /\ ref[h][2] # Nil /\ ref'[h][2] = Nil
    /\ ~ (Is(h, {"weakvalue", "allweak"}) /\ Losable(ref[h][2]))
    /\ ~ (Is(h, {"ephemeron", "allweak"}) /\ Losable(ref[h][1]))

\* So it is for every table but those of late.
WeakKeepsReachable == [][SingleStep => \A h \in Accessible \ late : ~ WronglyTaken(h)]_vars

\* lgc.c:1016: when weak tables are cleared, "all strongly accessible objects are
\* marked", the value of an entry with a key that is among them.
EphemeronsKeepReachable == [][SingleStep => \A h \in Accessible : ~ WronglyTaken(h)]_vars

\* Whatever the program does between the steps of the collector, an object that
\* it can no longer reach is freed, or its finalizer hands it to the program.
GarbageCollected ==
    \A o \in Objects : []<>(o \notin alive \/ o \in Accessible)
=============================================================================
