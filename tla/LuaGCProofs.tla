----------------------------- MODULE LuaGCProofs -----------------------------
(***************************************************************************)
(* The incremental collector, proved for any number of objects of any      *)
(* kinds and any program: what the program can reach is never freed, the   *)
(* tricolour invariant of lgc.h, that finalizers are called once, and that *)
(* weak tables lose only what they may.                                    *)
(*                                                                         *)
(* None of the four is inductive.  What is (GCInv): a heap of the right    *)
(* types, where nothing refers to a free address (HeapTyped); an object    *)
(* that is not dead refers to objects that are not dead (LiveClosed); what *)
(* is not white waits for the sweep or for its finalizer (SweepWaits); a   *)
(* black object refers to no white one, also in an empty entry, and weak   *)
(* tables, threads and open upvalues are never black (BlackRefers,         *)
(* NeverBlack); and the two lists of finalizers are disjoint, without      *)
(* repetition, and hold what has the bit (FinalizersKept).                 *)
(***************************************************************************)
EXTENDS LuaGC, SeqLemmas, FiniteSetTheorems

Colours == {"white", "dead", "gray", "black"}
Sweeps == {"sweepstring", "sweepudata", "sweep"}

GCType ==
    /\ kind \in [Objects -> Types]
    /\ alive \subseteq Objects
    /\ color \in [Objects -> Colours]
    /\ DOMAIN ref = Objects \cup {Main}
    /\ \A o \in Objects \cup {Main} : ref[o] \in (Objects \cup {Nil}) \X (Objects \cup {Nil})
    /\ open \in [Objects -> Objects \cup {Main, Nil}]
    /\ gcstate \in {"pause", "propagate"} \cup Sweeps
    /\ gray \subseteq Objects \cup {Main}
    /\ finobj \in Seq(Objects) /\ tobefnz \in Seq(Objects)
    /\ finalized \subseteq Objects
    /\ tosweep \subseteq Objects
    /\ sweepstrgc \in Nat /\ strsize \in Nat \ {0}
    /\ called \in [Objects -> Nat]

\* The objects that are not dead, and those whose finalizer is still to be called.
Live == {o \in alive : color[o] # "dead"}
Waiting == Elements(tobefnz)

\* What a field of a table, a variable or an upvalue may hold.
Storable == {o \in Objects : kind[o] # "upval"} \cup {Nil}
Metatable(v) == v = Nil \/ Is(v, Tables)

FieldsTyped(o) ==
    /\ kind[o] = "string" => ref[o] = <<Nil, Nil>>
    /\ kind[o] = "udata" => Metatable(ref[o][1]) /\ ref[o][2] = Nil
    /\ kind[o] = "closure" => (ref[o][1] = Nil \/ Is(ref[o][1], {"upval"})) /\ ref[o][2] = Nil
    /\ kind[o] = "upval" => ref[o][1] = Nil /\ ref[o][2] \in Storable
    /\ kind[o] = "thread" => ref[o][1] = Nil /\ ref[o][2] \in Storable
    /\ Is(o, Tables) => ref[o][1] \in Storable /\ ref[o][2] \in Storable

HeapTyped ==
    /\ ref[Main][1] \in Storable /\ ref[Main][2] \in Storable
    /\ \A o \in Objects :
          /\ FieldsTyped(o)
          /\ o \notin alive => ref[o] = <<Nil, Nil>> /\ open[o] = Nil /\ color[o] = "white"
          /\ o \in alive => kind[o] # "unused" /\ (kind[o] = "closure" => ref[o][1] # Nil)
          /\ open[o] # Nil => /\ kind[o] = "upval" /\ ref[o] = <<Nil, Nil>>
                              /\ open[o] = Main \/ (open[o] \in alive /\ kind[open[o]] = "thread")

\* Nothing that is not dead refers to what is dead or free.
LiveClosed ==
    /\ \A o \in Live \cup {Main} : Refs(o) \subseteq Live
    /\ Waiting \subseteq Live
    /\ Elements(finobj) \subseteq Live

\* What the sweep has still to come to.
Unswept ==
    {o \in alive :
        /\ gcstate \in Sweeps
        /\ \/ o \in tosweep
           \/ open[o] # Nil /\ (open[o] = Main \/ open[o] \in tosweep)
           \/ gcstate = "sweepstring" /\ kind[o] = "string" /\ StrHash[o] % strsize >= sweepstrgc}

SweepWaits ==
    gcstate # "propagate" => \A o \in alive : color[o] # "white" => o \in Unswept \/ o \in Waiting

NoneDead == gcstate = "propagate" => alive \subseteq Live

NeverBlack ==
    \A o \in Objects : color[o] = "black" =>
        /\ kind[o] \in {"strong", "udata", "closure", "upval", "string"}
        /\ open[o] = Nil

BlackRefers ==
    gcstate = "propagate" =>
        \A o \in alive : color[o] = "black" =>
            /\ \A v \in Refs(o) : ~ IsWhite(v, color)
            /\ kind[o] = "strong" => ~ IsWhite(ref[o][1], color)

GrayListed ==
    /\ gray \subseteq alive \cup {Main}
    /\ gcstate # "propagate" => gray = {}
    /\ \A o \in late : Is(o, {"ephemeron"})

NoRepeats(s) == \A i \in DOMAIN s : \A j \in DOMAIN s : s[i] = s[j] => i = j

FinalizersKept ==
    /\ NoRepeats(finobj) /\ NoRepeats(tobefnz)
    /\ \A o \in Elements(finobj) : kind[o] = "udata" /\ o \notin finalized
    /\ \A o \in Waiting : kind[o] = "udata" /\ o \in finalized
    /\ finalized \subseteq alive /\ \A o \in finalized : kind[o] = "udata"
    /\ \A o \in Objects : called[o] = IF o \in finalized /\ o \notin Waiting THEN 1 ELSE 0

GCInv ==
    /\ GCType /\ HeapTyped /\ LiveClosed /\ SweepWaits /\ NoneDead
    /\ NeverBlack /\ BlackRefers /\ GrayListed /\ FinalizersKept

-----------------------------------------------------------------------------
(* Lists without some elements. *)

WithoutUpTo(s, X, n, f) ==
    f = [m \in 0 .. n |-> IF m = 0 THEN <<>>
                          ELSE IF s[m] \in X THEN f[m - 1] ELSE Append(f[m - 1], s[m])]

\* The recursion of Without is well defined.
LEMMA WithoutExists ==
    ASSUME NEW s, NEW X
    PROVE  \A k \in Nat : \E f : WithoutUpTo(s, X, k, f)
<1> DEFINE T == {n \in Nat : \E f : WithoutUpTo(s, X, n, f)}
<1>1. 0 \in T
  <2>1. \A m \in 0 .. 0 : m = 0
    OBVIOUS
  <2>2. WithoutUpTo(s, X, 0, [m \in 0 .. 0 |-> <<>>])
    BY <2>1 DEF WithoutUpTo
  <2> QED BY <2>2
<1>2. ASSUME NEW n \in T PROVE n + 1 \in T
  <2>1. PICK f : WithoutUpTo(s, X, n, f)
    OBVIOUS
  <2> DEFINE new == IF s[n + 1] \in X THEN f[n] ELSE Append(f[n], s[n + 1])
             g == [m \in 0 .. n + 1 |-> IF m = n + 1 THEN new ELSE f[m]]
  <2>2. \A m \in 0 .. n : f[m] = IF m = 0 THEN <<>>
                                 ELSE IF s[m] \in X THEN f[m - 1] ELSE Append(f[m - 1], s[m])
    BY <2>1 DEF WithoutUpTo
  <2>3. \A m \in 0 .. n + 1 : g[m] = IF m = 0 THEN <<>>
                                     ELSE IF s[m] \in X THEN g[m - 1] ELSE Append(g[m - 1], s[m])
    <3> TAKE m \in 0 .. n + 1
    <3>1. CASE m = n + 1
      <4>1. m # 0 /\ m - 1 = n /\ n \in 0 .. n + 1 /\ n # n + 1
        BY <3>1
      <4> QED BY <3>1, <4>1
    <3>2. CASE m # n + 1
      <4>1. m \in 0 .. n /\ (m # 0 => m - 1 \in 0 .. n + 1 /\ m - 1 # n + 1)
        BY <3>2
      <4> QED BY <2>2, <3>2, <4>1
    <3> QED BY <3>1, <3>2
  <2>4. g = [m \in 0 .. n + 1 |-> g[m]]
    OBVIOUS
  <2> HIDE DEF g
  <2>5. WithoutUpTo(s, X, n + 1, g)
    BY <2>3, <2>4 DEF WithoutUpTo
  <2> QED BY <2>5
<1> HIDE DEF T
<1>3. T = Nat
  <2>1. T \subseteq Nat
    BY DEF T
  <2> QED BY <1>1, <1>2, <2>1, Induction
<1> QED BY <1>3 DEF T

\* Appending what is not there keeps a list without repetitions.
LEMMA AppendNew ==
    ASSUME NEW S, NEW s \in Seq(S), NEW e \in S
    PROVE  /\ Append(s, e) \in Seq(S) /\ Elements(Append(s, e)) = Elements(s) \cup {e}
           /\ NoRepeats(s) /\ e \notin Elements(s) => NoRepeats(Append(s, e))
<1> PICK t : t = Append(s, e)
  OBVIOUS
<1>1. /\ t \in Seq(S) /\ Len(t) = Len(s) + 1 /\ Len(s) \in Nat
      /\ \A i \in 1 .. Len(s) : t[i] = s[i]
      /\ t[Len(s) + 1] = e
  BY AppendProperties
<1>2. DOMAIN t = 1 .. Len(s) + 1 /\ DOMAIN s = 1 .. Len(s)
  BY <1>1
<1>3. \A i \in DOMAIN t : i \in DOMAIN s \/ i = Len(s) + 1
  BY <1>1, <1>2
<1>4. Len(s) + 1 \in DOMAIN t /\ \A i \in DOMAIN s : i \in DOMAIN t /\ i # Len(s) + 1
  BY <1>1, <1>2
<1>5. Elements(t) = Elements(s) \cup {e}
  BY <1>1, <1>2, <1>3, <1>4 DEF Elements
<1>6. ASSUME NoRepeats(s), e \notin Elements(s) PROVE NoRepeats(t)
  <2>1. \A i \in DOMAIN s : s[i] # e
    BY <1>6 DEF Elements
  <2> QED BY <1>1, <1>2, <1>3, <1>6, <2>1 DEF NoRepeats
<1> QED BY <1>1, <1>5, <1>6

\* Without(s, X) has the elements of s that are not in X, in no more places.
LEMMA WithoutIs ==
    ASSUME NEW S, NEW s \in Seq(S), NEW X
    PROVE  /\ Without(s, X) \in Seq(S)
           /\ Elements(Without(s, X)) = Elements(s) \ X
           /\ NoRepeats(s) => NoRepeats(Without(s, X))
<1> DEFINE G == CHOOSE f : WithoutUpTo(s, X, Len(s), f)
           Sel(n) == {s[i] : i \in 1 .. n}
           T == {n \in Nat : n <= Len(s) =>
                    /\ G[n] \in Seq(S) /\ Elements(G[n]) = Sel(n) \ X
                    /\ NoRepeats(s) => NoRepeats(G[n])}
<1>1. WithoutUpTo(s, X, Len(s), G)
  <2>1. Len(s) \in Nat
    OBVIOUS
  <2>2. \E f : WithoutUpTo(s, X, Len(s), f)
    BY <2>1, WithoutExists
  <2> QED BY <2>2, Zenon
<1>2. Without(s, X) = G[Len(s)]
  BY DEF Without, WithoutUpTo
<1> HIDE DEF G
<1>3. \A m \in 0 .. Len(s) : G[m] = IF m = 0 THEN <<>>
                          ELSE IF s[m] \in X THEN G[m - 1] ELSE Append(G[m - 1], s[m])
  BY <1>1 DEF WithoutUpTo
<1>4. 0 \in T
  <2>1. G[0] = <<>>
    BY <1>3
  <2>2. <<>> \in Seq(S) /\ Elements(<<>>) = {} /\ NoRepeats(<<>>) /\ Sel(0) = {}
    BY DEF Elements, NoRepeats
  <2> QED BY <2>1, <2>2
<1>5. ASSUME NEW n \in T PROVE n + 1 \in T
  <2> SUFFICES ASSUME n + 1 <= Len(s)
               PROVE  /\ G[n + 1] \in Seq(S) /\ Elements(G[n + 1]) = Sel(n + 1) \ X
                      /\ NoRepeats(s) => NoRepeats(G[n + 1])
    OBVIOUS
  <2>1. n + 1 \in 0 .. Len(s) /\ n + 1 # 0 /\ (n + 1) - 1 = n /\ n <= Len(s) /\ n + 1 \in 1 .. Len(s)
    OBVIOUS
  <2>2. /\ G[n] \in Seq(S) /\ Elements(G[n]) = Sel(n) \ X
        /\ NoRepeats(s) => NoRepeats(G[n])
    BY <2>1
  <2>3. G[n + 1] = IF s[n + 1] \in X THEN G[n] ELSE Append(G[n], s[n + 1])
    BY <1>3, <2>1
  <2>4. Sel(n + 1) = Sel(n) \cup {s[n + 1]}
    <3>1. \A i \in 1 .. n + 1 : i \in 1 .. n \/ i = n + 1
      OBVIOUS
    <3>2. n + 1 \in 1 .. n + 1 /\ \A i \in 1 .. n : i \in 1 .. n + 1
      OBVIOUS
    <3> QED BY <3>1, <3>2
  <2>5. NoRepeats(s) => s[n + 1] \notin Sel(n)
    <3>1. \A i \in 1 .. n : i \in DOMAIN s /\ n + 1 \in DOMAIN s /\ i # n + 1
      BY <2>1
    <3> QED BY <3>1 DEF NoRepeats
  <2>6. s[n + 1] \in S
    BY <2>1
  <2>7. CASE s[n + 1] \in X
    BY <2>2, <2>3, <2>4, <2>7
  <2>8. CASE s[n + 1] \notin X
    <3>1. /\ Append(G[n], s[n + 1]) \in Seq(S)
          /\ Elements(Append(G[n], s[n + 1])) = Elements(G[n]) \cup {s[n + 1]}
          /\ NoRepeats(G[n]) /\ s[n + 1] \notin Elements(G[n]) => NoRepeats(Append(G[n], s[n + 1]))
      BY <2>2, <2>6, AppendNew
    <3> HIDE DEF Sel
    <3> QED BY <2>2, <2>3, <2>4, <2>5, <2>8, <3>1
  <2> QED BY <2>7, <2>8
<1>6. T = Nat
  <2>1. T \subseteq Nat
    OBVIOUS
  <2> HIDE DEF T
  <2> QED BY <1>4, <1>5, <2>1, Induction
<1>7. Len(s) \in T /\ Len(s) <= Len(s)
  <2>1. Len(s) \in Nat
    OBVIOUS
  <2> HIDE DEF T
  <2> QED BY <1>6, <2>1
<1>8. Sel(Len(s)) = Elements(s)
  BY DEF Elements
<1> HIDE DEF Sel
<1> QED BY <1>2, <1>7, <1>8

-----------------------------------------------------------------------------
(* References. *)

\* Nil and the main thread are no objects.
LEMMA Distinct == Nil \notin Objects /\ Main \notin Objects /\ Nil # Main
BY LuaGCAssumption

\* The types whose traversal is special.
LEMMA KindsOf ==
    ASSUME NEW o
    PROVE  /\ Is(o, Tables) <=> /\ o \in Objects
                                /\ \/ kind[o] = "strong" \/ kind[o] = "weakvalue"
                                   \/ kind[o] = "ephemeron" \/ kind[o] = "allweak"
           /\ Is(o, Tables \ {"strong"}) <=> /\ o \in Objects
                                /\ \/ kind[o] = "weakvalue"
                                   \/ kind[o] = "ephemeron" \/ kind[o] = "allweak"
           /\ Is(o, Tables \cup {"closure", "thread"}) <=> /\ o \in Objects
                                /\ \/ kind[o] = "strong" \/ kind[o] = "weakvalue"
                                   \/ kind[o] = "ephemeron" \/ kind[o] = "allweak"
                                   \/ kind[o] = "closure" \/ kind[o] = "thread"
BY DEF Is, Tables

\* The two fields, as the types of the heap have them.
LEMMA FieldsAre ==
    ASSUME GCType, HeapTyped, NEW o \in Objects \cup {Main}
    PROVE  /\ ref[o] = <<ref[o][1], ref[o][2]>>
           /\ ref[o][1] \in Objects \cup {Nil} /\ ref[o][2] \in Objects \cup {Nil}
BY DEF GCType

\* What an upvalue holds is never an upvalue.
LEMMA ValueStorable ==
    ASSUME GCType, HeapTyped, NEW o \in Objects, kind[o] = "upval"
    PROVE  Value(o) \in Storable
<1>1. CASE open[o] = Nil
  BY <1>1 DEF Value, HeapTyped, FieldsTyped
<1>2. CASE open[o] = Main
  BY <1>2, Distinct DEF Value, HeapTyped
<1>3. CASE open[o] # Nil /\ open[o] # Main
  <2>1. open[o] \in alive /\ kind[open[o]] = "thread"
    BY <1>3 DEF HeapTyped
  <2>2. open[o] \in Objects
    BY <2>1 DEF GCType
  <2> QED BY <1>3, <2>1, <2>2 DEF Value, HeapTyped, FieldsTyped
<1> QED BY <1>1, <1>2, <1>3

\* A write to one field of an object.
LEMMA WriteField ==
    ASSUME NEW r, NEW D, NEW A, DOMAIN r = D, NEW p \in D, r[p] \in A \X A, NEW v
    PROVE  /\ DOMAIN [r EXCEPT ![p][1] = v] = D /\ DOMAIN [r EXCEPT ![p][2] = v] = D
           /\ \A x \in D : [r EXCEPT ![p][1] = v][x] = IF x = p THEN <<v, r[p][2]>> ELSE r[x]
           /\ \A x \in D : [r EXCEPT ![p][2] = v][x] = IF x = p THEN <<r[p][1], v>> ELSE r[x]
<1>1. [r[p] EXCEPT ![1] = v] = <<v, r[p][2]>> /\ [r[p] EXCEPT ![2] = v] = <<r[p][1], v>>
  <2>1. PICK a \in A, b \in A : r[p] = <<a, b>>
    OBVIOUS
  <2>2. [<<a, b>> EXCEPT ![1] = v] = <<v, b>> /\ [<<a, b>> EXCEPT ![2] = v] = <<a, v>>
    OBVIOUS
  <2> QED BY <2>1, <2>2
<1> QED BY <1>1

\* The same as one fact about the entry, the domain and the value.
FieldsWritten(r, D, p, v) ==
    /\ DOMAIN [r EXCEPT ![p][1] = v] = D
    /\ \A x \in D : [r EXCEPT ![p][1] = v][x] = IF x = p THEN <<v, r[p][2]>> ELSE r[x]

LEMMA WritesField ==
    \A r, D, A, p, v : DOMAIN r = D /\ p \in D /\ r[p] \in A \X A => FieldsWritten(r, D, p, v)
<1> SUFFICES ASSUME NEW r, NEW D, NEW A, DOMAIN r = D, NEW p \in D, r[p] \in A \X A, NEW v
             PROVE  FieldsWritten(r, D, p, v)
  OBVIOUS
<1>1. [r[p] EXCEPT ![1] = v] = <<v, r[p][2]>>
  <2>1. PICK a \in A, b \in A : r[p] = <<a, b>>
    OBVIOUS
  <2>2. [<<a, b>> EXCEPT ![1] = v] = <<v, b>>
    OBVIOUS
  <2> QED BY <2>1, <2>2
<1> QED BY <1>1 DEF FieldsWritten

\* Refs, type by type.
LEMMA RefsAre ==
    ASSUME GCType, HeapTyped, NEW o \in Objects \cup {Main}
    PROVE  /\ o = Main => Refs(o) = {ref[o][1], ref[o][2]} \ {Nil}
           /\ Is(o, Tables) => Refs(o) = IF ref[o][2] = Nil THEN {} ELSE {ref[o][1], ref[o][2]} \ {Nil}
           /\ Is(o, {"upval"}) => Refs(o) = {Value(o)} \ {Nil}
           /\ Is(o, {"udata"}) \/ Is(o, {"closure"}) => Refs(o) = {ref[o][1]} \ {Nil}
           /\ Is(o, {"thread"}) => Refs(o) = {ref[o][2]} \ {Nil}
           /\ Is(o, {"string"}) => Refs(o) = {}
           /\ Refs(o) \subseteq Objects
<1>1. o = Main => Refs(o) = {ref[o][1], ref[o][2]} \ {Nil}
  BY Distinct DEF Refs, Is
<1>2. Is(o, Tables) => Refs(o) = IF ref[o][2] = Nil THEN {} ELSE {ref[o][1], ref[o][2]} \ {Nil}
  BY DEF Refs, Is, Tables
<1>3. Is(o, {"upval"}) => Refs(o) = {Value(o)} \ {Nil}
  BY KindsOf DEF Refs, Is
<1>4. Is(o, {"udata"}) \/ Is(o, {"closure"}) => Refs(o) = {ref[o][1]} \ {Nil}
  BY KindsOf DEF Refs, Is, HeapTyped, FieldsTyped
<1>5. Is(o, {"thread"}) => Refs(o) = {ref[o][2]} \ {Nil}
  BY KindsOf DEF Refs, Is, HeapTyped, FieldsTyped
<1>6. Is(o, {"string"}) => Refs(o) = {}
  BY KindsOf DEF Refs, Is, HeapTyped, FieldsTyped
<1>7. Refs(o) \subseteq Objects
  <2>1. CASE Is(o, {"upval"})
    BY <1>3, <2>1, ValueStorable DEF Is, Storable
  <2>2. CASE ~ Is(o, {"upval"})
    BY <2>2, FieldsAre DEF Refs
  <2> QED BY <2>1, <2>2
<1> QED BY <1>1, <1>2, <1>3, <1>4, <1>5, <1>6, <1>7

\* The sets that the roots and the references lead to are the closed ones that
\* are least; every closed one contains them.
LEMMA ClosureWithin ==
    ASSUME NEW roots, NEW M, roots \subseteq M, M \subseteq Objects,
           \A o \in M : Refs(o) \subseteq M
    PROVE  Closure(roots) \subseteq M
<1>1. M \in {roots \cup X : X \in SUBSET (Objects \ roots)}
  <2>1. M = roots \cup (M \ roots) /\ M \ roots \in SUBSET (Objects \ roots)
    OBVIOUS
  <2> QED BY <2>1
<1> QED BY <1>1 DEF Closure

\* What the program and the finalizers to come can reach is not dead.
LEMMA ReachableLive ==
    ASSUME GCInv
    PROVE  /\ Closure(Stack(Main) \cup Waiting) \subseteq Live /\ Accessible \subseteq Live
           /\ Live \subseteq Objects
<1>1. GCType /\ HeapTyped /\ LiveClosed
  BY DEF GCInv
<1>2. Live \subseteq Objects
  BY <1>1 DEF Live, GCType
<1>3. Stack(Main) \subseteq Live
  BY <1>1, RefsAre DEF Stack, LiveClosed
<1>4. Waiting \subseteq Live /\ \A o \in Live : Refs(o) \subseteq Live
  BY <1>1 DEF LiveClosed
<1>5. Closure(Stack(Main) \cup Waiting) \subseteq Live
  BY <1>2, <1>3, <1>4, ClosureWithin
<1>6. Accessible \subseteq Live
  BY <1>2, <1>3, <1>4, ClosureWithin DEF Accessible
<1> QED BY <1>2, <1>5, <1>6

\* So a value that the program stores is storable, and not dead.
LEMMA ValuesLive ==
    ASSUME GCInv, NEW v \in Values
    PROVE  v \in Storable /\ v \in Live \cup {Nil}
BY ReachableLive DEF Values, Storable, Is

-----------------------------------------------------------------------------
(* Marking. *)

Marked(o, col) == o \in Objects /\ (col[o] = "gray" \/ col[o] = "black")

\* What markobject of the objects of S does to colours col and the gray list l.
Marks(S, col, l) ==
    /\ color' \in [Objects -> Colours]
    /\ \A o \in Objects : Marked(o, col) => color'[o] = col[o]
    /\ \A o \in Objects : color'[o] # col[o] => o \in Live /\ Marked(o, color')
    /\ \A o \in Objects : color'[o] = "black" /\ col[o] # "black" =>
          /\ open[o] = Nil /\ (kind[o] = "udata" \/ kind[o] = "upval" \/ kind[o] = "string")
          /\ \A v \in Refs(o) : Marked(v, color')
    /\ \A o \in S \cap Objects : Marked(o, color')
    /\ l \subseteq gray' /\ gray' \subseteq l \cup Live

\* An object that is marked at once is so with all it refers to.
LEMMA MarkAllMarks ==
    ASSUME GCType, HeapTyped, LiveClosed, NEW S, NEW col \in [Objects -> Colours], NEW l,
           S \cap Objects \subseteq Live, MarkAll(S, col, l)
    PROVE  Marks(S, col, l)
<1> DEFINE whites(T) == {o \in T : IsWhite(o, col)}
           values == {Value(u) : u \in {o \in whites(S) : Is(o, {"upval"})}}
           udatas == {o \in whites(S \cup values) : Is(o, {"udata"})}
           metas == {ref[u][1] : u \in udatas}
           new == whites(S \cup values \cup metas)
<1>1. Visited(S, col) = new
  BY DEF Visited
<1>2. /\ color' = [o \in Objects |-> IF o \notin new THEN col[o]
                                     ELSE IF o \in Listed(new) THEN "gray" ELSE Done(o)]
      /\ gray' = l \cup Listed(new)
  BY <1>1 DEF MarkAll
<1>3. Live \subseteq Objects /\ \A o \in Live : Refs(o) \subseteq Live
  BY DEF Live, GCType, LiveClosed
<1>4. \A o \in Objects : IsWhite(o, col) <=> ~ Marked(o, col)
  BY DEF IsWhite, Marked, Colours
<1>5. \A o \in whites(S) : o \in Live
  BY DEF IsWhite
<1>6. \A u \in whites(S) : Is(u, {"upval"}) => Value(u) \in Storable /\ Value(u) \in Live \cup {Nil}
  <2> TAKE u \in whites(S)
  <2> HAVE Is(u, {"upval"})
  <2>1. u \in Live /\ u \in Objects /\ kind[u] = "upval"
    BY <1>3, <1>5 DEF Is
  <2>2. Value(u) \in Storable
    BY <2>1, ValueStorable
  <2>3. Refs(u) = {Value(u)} \ {Nil}
    BY <2>1, RefsAre
  <2> QED BY <1>3, <2>1, <2>2, <2>3
<1>7. \A v \in values : v \in Storable /\ v \in Live \cup {Nil}
  BY <1>6
<1>8. \A o \in whites(S \cup values) : o \in Live
  BY <1>5, <1>7, Distinct DEF IsWhite
<1>9. \A d \in udatas : d \in Live /\ Metatable(ref[d][1]) /\ ref[d][1] \in Live \cup {Nil}
  <2> TAKE d \in udatas
  <2>1. d \in Live /\ d \in Objects /\ Is(d, {"udata"})
    BY <1>3, <1>8
  <2>2. Refs(d) = {ref[d][1]} \ {Nil}
    BY <2>1, RefsAre
  <2>3. Metatable(ref[d][1])
    BY <2>1 DEF Is, HeapTyped, FieldsTyped
  <2> QED BY <1>3, <2>1, <2>2, <2>3
<1>10. \A v \in metas : v = Nil \/ (Is(v, Tables) /\ v \in Live)
  BY <1>9 DEF Metatable
<1>11. new \subseteq Live /\ new \subseteq Objects
  BY <1>3, <1>8, <1>10, Distinct DEF IsWhite
<1>12. \A o \in S \cup values \cup metas : o \in Objects => o \in new \/ Marked(o, col)
  BY <1>4
<1>13. \A o \in new : ~ Marked(o, col)
  BY <1>4, <1>11
<1>14. \A o \in new : Is(o, {"upval"}) => o \in whites(S) /\ Value(o) \in values
  <2> TAKE o \in new
  <2> HAVE Is(o, {"upval"})
  <2>1. o # Nil /\ o \notin values
    BY <1>7, Distinct DEF Storable, Is
  <2>2. o \notin metas
    BY <1>10, <2>1, KindsOf DEF Is
  <2> QED BY <2>1, <2>2
<1>15. \A o \in new : Is(o, {"udata"}) => ref[o][1] \in metas
  <2> TAKE o \in new
  <2> HAVE Is(o, {"udata"})
  <2>1. o \notin metas
    BY <1>10, KindsOf, Distinct DEF Is
  <2>2. o \in udatas
    BY <2>1
  <2> QED BY <2>2
<1> HIDE DEF whites, values, udatas, metas, new
<1>16. \A o \in Objects : color'[o] = IF o \notin new THEN col[o]
                                     ELSE IF o \in Listed(new) THEN "gray" ELSE Done(o)
  BY <1>2
<1>17. \A o \in new : Marked(o, color')
  BY <1>11, <1>16 DEF Marked, Done
<1>18. \A o \in S \cup values \cup metas : o \in Objects => Marked(o, color')
  BY <1>12, <1>16, <1>17 DEF Marked
<1>19. color' \in [Objects -> Colours]
  BY <1>2 DEF Done, Colours
<1>20. ASSUME NEW o \in Objects, color'[o] = "black", col[o] # "black"
       PROVE  /\ open[o] = Nil /\ (kind[o] = "udata" \/ kind[o] = "upval" \/ kind[o] = "string")
              /\ \A v \in Refs(o) : Marked(v, color')
  <2>1. o \in new /\ o \notin Listed(new) /\ Done(o) = "black"
    BY <1>16, <1>20
  <2>2. open[o] = Nil
    BY <2>1 DEF Done
  <2>3. o \in alive /\ kind[o] # "unused" /\ kind[o] \in Types
    BY <1>11, <2>1 DEF Live, HeapTyped, GCType
  <2>4. kind[o] = "udata" \/ kind[o] = "upval" \/ kind[o] = "string"
    BY <2>1, <2>3, KindsOf DEF Listed, Types, Tables
  <2>5. ASSUME NEW v \in Refs(o) PROVE Marked(v, color')
    <3>1. v \in Objects
      BY <2>5, RefsAre
    <3>2. CASE kind[o] = "udata"
      BY <1>15, <1>18, <2>1, <2>5, <3>1, <3>2, RefsAre DEF Is
    <3>3. CASE kind[o] = "upval"
      BY <1>14, <1>18, <2>1, <2>5, <3>1, <3>3, RefsAre DEF Is
    <3>4. CASE kind[o] = "string"
      BY <2>5, <3>4, RefsAre DEF Is
    <3> QED BY <2>4, <3>2, <3>3, <3>4
  <2> QED BY <2>2, <2>4, <2>5
<1>21. \A o \in Objects : Marked(o, col) => color'[o] = col[o]
  BY <1>13, <1>16
<1>22. \A o \in Objects : color'[o] # col[o] => o \in Live /\ Marked(o, color')
  BY <1>11, <1>16, <1>17
<1>23. \A o \in S \cap Objects : Marked(o, color')
  BY <1>18
<1>24. l \subseteq gray' /\ gray' \subseteq l \cup Live
  BY <1>2, <1>11 DEF Listed
<1> QED BY <1>19, <1>20, <1>21, <1>22, <1>23, <1>24 DEF Marks

\* What the traversal of an entry with a weak value or a weak key marks.
LEMMA WeakChildren ==
    ASSUME NEW o \in Objects, NEW M, ref[o][2] # Nil
    PROVE  /\ kind[o] = "weakvalue" => Children(o, M) = {ref[o][1]} \cup StringsOf(o)
           /\ kind[o] = "ephemeron" /\ (ref[o][1] \in M \/ Is(ref[o][1], {"string"}))
              => Children(o, M) = {ref[o][1], ref[o][2]}
<1>1. CASE kind[o] = "weakvalue" \/ kind[o] = "ephemeron"
  <2>1. /\ ~ Is(o, {"udata", "closure"}) /\ ~ Is(o, {"upval"}) /\ ~ Is(o, {"string", "allweak"})
        /\ Is(o, {"weakvalue"}) <=> kind[o] = "weakvalue"
        /\ Is(o, {"ephemeron"}) <=> kind[o] = "ephemeron"
    BY <1>1 DEF Is
  <2>2. Children(o, M) =
           IF Is(o, {"weakvalue"}) THEN {ref[o][1]} \cup StringsOf(o)
           ELSE IF ref[o][1] \in M \/ Is(ref[o][1], {"string"}) THEN {ref[o][1], ref[o][2]} ELSE {}
    <3>1. CASE kind[o] = "weakvalue"
      BY <2>1, <3>1 DEF Children
    <3>2. CASE kind[o] = "ephemeron"
      BY <2>1, <3>2 DEF Children
    <3> QED BY <1>1, <3>1, <3>2
  <2> QED BY <2>1, <2>2
<1> QED BY <1>1

\* A traversal only marks what the object refers to, and the more keys are
\* marked the more it marks.
LEMMA ChildrenAre ==
    ASSUME GCType, HeapTyped, NEW o \in Objects \cup {Main}, NEW M
    PROVE  /\ Children(o, M) \subseteq Refs(o) \cup {Nil}
           /\ \A N : M \subseteq N => Children(o, M) \subseteq Children(o, N)
           /\ (kind[o] = "strong" \/ kind[o] = "udata" \/ kind[o] = "closure" \/ kind[o] = "upval"
                  \/ kind[o] = "string" \/ kind[o] = "thread" \/ o = Main)
              => Refs(o) \subseteq Children(o, M)
<1>1. CASE o = Main
  <2>1. \A types : ~ Is(o, types)
    BY <1>1, Distinct DEF Is
  <2>2. \A N : Children(o, N) = {ref[o][1], ref[o][2]}
    BY <2>1 DEF Children
  <2> QED BY <1>1, <2>2, RefsAre
<1>2. CASE o # Main
  <2>1. o \in Objects /\ kind[o] \in Types
    BY <1>2 DEF GCType
  <2>2. CASE kind[o] = "udata" \/ kind[o] = "closure"
    <3>0. Is(o, {"udata", "closure"}) /\ ~ Is(o, {"upval"}) /\ ~ Is(o, {"string", "allweak"})
          /\ ~ Is(o, Tables) /\ ~ Is(o, {"weakvalue"}) /\ ~ Is(o, {"ephemeron"})
      BY <2>1, <2>2 DEF Is, Tables
    <3>1. \A N : Children(o, N) = {ref[o][1]}
      BY <3>0 DEF Children
    <3>2. Refs(o) = {ref[o][1]} \ {Nil}
      BY <2>1, <2>2, RefsAre DEF Is
    <3> QED BY <3>1, <3>2
  <2>3. CASE kind[o] = "upval"
    <3>0. ~ Is(o, {"udata", "closure"}) /\ Is(o, {"upval"}) /\ ~ Is(o, {"string", "allweak"})
          /\ ~ Is(o, Tables) /\ ~ Is(o, {"weakvalue"}) /\ ~ Is(o, {"ephemeron"})
      BY <2>1, <2>3 DEF Is, Tables
    <3>1. \A N : Children(o, N) = {Value(o)}
      BY <3>0 DEF Children
    <3>2. Refs(o) = {Value(o)} \ {Nil}
      BY <2>1, <2>3, RefsAre DEF Is
    <3> QED BY <3>1, <3>2
  <2>4. CASE kind[o] = "string"
    <3>0. ~ Is(o, {"udata", "closure"}) /\ ~ Is(o, {"upval"}) /\ Is(o, {"string", "allweak"})
          /\ ~ Is(o, Tables) /\ ~ Is(o, {"weakvalue"}) /\ ~ Is(o, {"ephemeron"})
      BY <2>1, <2>4 DEF Is, Tables
    <3>1. \A N : Children(o, N) = {}
      BY <3>0 DEF Children
    <3>2. Refs(o) = {}
      BY <2>1, <2>4, RefsAre DEF Is
    <3> QED BY <3>1, <3>2
  <2>5. CASE kind[o] = "thread" \/ kind[o] = "unused"
    <3>1. \A N : Children(o, N) = {ref[o][1], ref[o][2]}
      BY <2>1, <2>5 DEF Children, Is, Tables
    <3>2. Refs(o) = {ref[o][1], ref[o][2]} \ {Nil}
      BY <2>1, <2>5 DEF Refs, Is, Tables
    <3> QED BY <3>1, <3>2
  <2>6. CASE kind[o] = "strong" \/ kind[o] = "weakvalue" \/ kind[o] = "ephemeron" \/ kind[o] = "allweak"
    <3>1. Is(o, Tables) /\ ~ Is(o, {"udata", "closure"}) /\ ~ Is(o, {"upval"})
      BY <2>1, <2>6 DEF Is, Tables
    <3>2. Refs(o) = IF ref[o][2] = Nil THEN {} ELSE {ref[o][1], ref[o][2]} \ {Nil}
      BY <3>1, RefsAre
    <3>3. CASE ref[o][2] = Nil
      <4>1. \A N : Children(o, N) = {}
        BY <3>1, <3>3 DEF Children
      <4> QED BY <3>2, <3>3, <4>1
    <3>4. CASE ref[o][2] # Nil
      <4>1. CASE kind[o] = "strong"
        <5>1. \A N : Children(o, N) = {ref[o][1], ref[o][2]}
          BY <2>1, <3>1, <3>4, <4>1 DEF Children, Is
        <5> QED BY <3>2, <3>4, <5>1
      <4>2. CASE kind[o] = "weakvalue"
        <5>1. \A N : Children(o, N) = {ref[o][1]} \cup StringsOf(o)
          BY <2>1, <3>1, <3>4, <4>2 DEF Children, Is
        <5> QED BY <2>1, <3>2, <3>4, <4>2, <5>1, Distinct DEF StringsOf
      <4>3. CASE kind[o] = "ephemeron"
        <5>1. \A N : Children(o, N) = IF ref[o][1] \notin N /\ ~ Is(ref[o][1], {"string"})
                                      THEN {} ELSE {ref[o][1], ref[o][2]}
          BY <2>1, <3>1, <3>4, <4>3 DEF Children, Is
        <5> QED BY <2>1, <3>2, <3>4, <4>3, <5>1, Distinct
      <4>4. CASE kind[o] = "allweak"
        <5>1. \A N : Children(o, N) = {}
          BY <2>1, <3>1, <3>4, <4>4 DEF Children, Is
        <5> QED BY <2>1, <4>4, <5>1, Distinct
      <4> QED BY <2>6, <4>1, <4>2, <4>3, <4>4
    <3> QED BY <3>3, <3>4
  <2> QED BY <2>1, <2>2, <2>3, <2>4, <2>5, <2>6 DEF Types, Tables
<1> QED BY <1>1, <1>2

-----------------------------------------------------------------------------
(* What a step leaves alone. *)

LEMMA SameRefs ==
    ASSUME UNCHANGED heap
    PROVE  /\ \A o : Refs(o)' = Refs(o) /\ Value(o)' = Value(o)
           /\ \A o, types : Is(o, types)' = Is(o, types)
           /\ \A o : FieldsTyped(o)' = FieldsTyped(o)
           /\ Storable' = Storable
BY DEF heap, Refs, Value, Is, FieldsTyped, Metatable, Storable

LEMMA SameFields ==
    ASSUME kind' = kind, NEW o, ref'[o] = ref[o]
    PROVE  FieldsTyped(o)' = FieldsTyped(o)
<1>1. Storable' = Storable /\ \A v, types : Is(v, types)' = Is(v, types)
  BY DEF Storable, Is
<1>2. \A v : Metatable(v)' = Metatable(v)
  BY <1>1 DEF Metatable
<1> QED BY <1>1, <1>2 DEF FieldsTyped

LEMMA EmptyFields ==
    ASSUME NEW o, ref'[o] = <<Nil, Nil>>
    PROVE  FieldsTyped(o)'
<1>1. ref'[o][1] = Nil /\ ref'[o][2] = Nil
  OBVIOUS
<1> QED BY <1>1 DEF FieldsTyped, Metatable, Storable

LEMMA HeapKept ==
    ASSUME GCType, HeapTyped, UNCHANGED heap, alive' = alive,
           \A o \in Objects \ alive : color'[o] = "white"
    PROVE  HeapTyped'
<1>1. kind' = kind /\ ref' = ref /\ open' = open
  BY DEF heap
<1> QED BY <1>1, SameRefs DEF HeapTyped

LEMMA FinalizersSame ==
    ASSUME FinalizersKept, UNCHANGED <<kind, fin>>, finalized \subseteq alive'
    PROVE  FinalizersKept'
BY DEF FinalizersKept, fin, Waiting

LEMMA RestartKeeps == ASSUME GCInv, Restart PROVE GCInv'
<1>1. GCType /\ HeapTyped /\ LiveClosed /\ SweepWaits /\ FinalizersKept /\ GrayListed /\ NeverBlack
  BY DEF GCInv
<1>2. /\ gcstate = "pause" /\ gcstate' = "propagate"
      /\ UNCHANGED <<heap, alive, late, fin, sweeping, full>>
  BY DEF Restart
<1>3. UNCHANGED <<kind, ref, open, finobj, tobefnz, finalized, called, tosweep, sweepstrgc, strsize>>
  BY <1>2 DEF heap, fin, sweeping
<1> PICK col : col = [o \in Objects |-> IF o \in Waiting THEN "white" ELSE color[o]]
  OBVIOUS
<1>4. MarkAll(Waiting, col, {Main}) /\ col \in [Objects -> Colours]
  BY <1>1 DEF Restart, Waiting, GCType, Colours
<1>5. Waiting \subseteq Live /\ Live \subseteq alive /\ alive \subseteq Objects
  BY <1>1 DEF LiveClosed, Live, GCType
<1>6. Marks(Waiting, col, {Main})
  BY <1>1, <1>4, <1>5, MarkAllMarks
<1>7. \A o \in Objects : col[o] = "white"
  BY <1>1, <1>2 DEF SweepWaits, Unswept, Sweeps, HeapTyped
<1>8. alive = Live
  BY <1>1, <1>2, <1>5 DEF SweepWaits, Unswept, Sweeps, Live
<1>9. /\ color' \in [Objects -> Colours]
      /\ \A o \in Objects : color'[o] = "white" \/ (o \in alive /\ Marked(o, color'))
      /\ \A o \in Objects : color'[o] = "black" =>
          /\ open[o] = Nil /\ (kind[o] = "udata" \/ kind[o] = "upval" \/ kind[o] = "string")
          /\ \A v \in Refs(o) : Marked(v, color')
      /\ gray' \subseteq {Main} \cup alive
  BY <1>6, <1>7, <1>8 DEF Marks
<1>10. GCType'
  BY <1>1, <1>2, <1>3, <1>5, <1>9 DEF GCType
<1>11. HeapTyped'
  BY <1>1, <1>2, <1>9, HeapKept
<1>12. Live' = alive
  BY <1>2, <1>5, <1>9 DEF Live, Marked
<1>13. LiveClosed'
  BY <1>1, <1>2, <1>3, <1>8, <1>12, SameRefs DEF LiveClosed, Waiting
<1>14. SweepWaits' /\ NoneDead'
  BY <1>2, <1>12 DEF SweepWaits, NoneDead
<1>15. NeverBlack'
  BY <1>3, <1>9 DEF NeverBlack
<1>16. BlackRefers'
  BY <1>2, <1>3, <1>5, <1>9, SameRefs DEF BlackRefers, IsWhite, Marked
<1>17. GrayListed'
  BY <1>1, <1>2, <1>9, SameRefs DEF GrayListed
<1>18. FinalizersKept'
  BY <1>1, <1>2, <1>3, FinalizersSame DEF FinalizersKept
<1> QED BY <1>10, <1>11, <1>13, <1>14, <1>15, <1>16, <1>17, <1>18 DEF GCInv

\* An object that is black when it is visited.
LEMMA DoneBlack ==
    ASSUME GCType, HeapTyped, NEW o \in alive, Done(o) = "black"
    PROVE  /\ kind[o] = "strong" \/ kind[o] = "udata" \/ kind[o] = "closure" \/ kind[o] = "upval"
              \/ kind[o] = "string"
           /\ open[o] = Nil
<1>1. ~ Is(o, Tables \ {"strong"}) /\ ~ Is(o, {"thread"}) /\ open[o] = Nil
  BY DEF Done
<1>2. o \in Objects /\ kind[o] \in Types /\ kind[o] # "unused"
  BY DEF GCType, HeapTyped
<1> QED BY <1>1, <1>2, KindsOf DEF Types, Tables, Is

\* One traversal: the object may become black, for all it refers to is marked.
LEMMA PropagateKeepsInv == ASSUME GCInv, NEW o \in gray, Propagate(o) PROVE GCInv'
<1>1. GCType /\ HeapTyped /\ LiveClosed /\ NoneDead /\ FinalizersKept /\ GrayListed /\ NeverBlack
      /\ BlackRefers
  BY DEF GCInv
<1>2. /\ gcstate = "propagate"
      /\ UNCHANGED <<kind, open, alive, gcstate, fin, sweeping, full>>
  BY DEF Propagate
<1>3. UNCHANGED <<kind, open, finobj, tobefnz, finalized, called, tosweep, sweepstrgc, strsize>>
  BY <1>2 DEF fin, sweeping
<1> PICK col : col = [x \in Objects |-> IF x = o THEN Done(o) ELSE color[x]]
  OBVIOUS
<1> PICK S : S = Children(o, MarkedIn(col))
  OBVIOUS
<1>4. /\ MarkAll(S, col, gray \ {o})
      /\ ref' = IF Forgotten(o, col) THEN [ref EXCEPT ![o][1] = Nil] ELSE ref
      /\ late' = IF TooLate(o, col) THEN late \cup {o} ELSE late
  BY DEF Propagate
<1>5. alive = Live /\ alive \subseteq Objects /\ o \in alive \cup {Main}
  BY <1>1, <1>2 DEF NoneDead, Live, GCType, GrayListed
<1>6. Done(o) = "gray" \/ Done(o) = "black"
  BY DEF Done
<1>7. col \in [Objects -> Colours]
  BY <1>1, <1>6 DEF GCType, Colours
<1>8. \A x \in Objects : Marked(x, color) => Marked(x, col)
  BY <1>6 DEF Marked
<1>9. S \subseteq Refs(o) \cup {Nil} /\ S \cap Objects \subseteq Live
  <2>1. S \subseteq Refs(o) \cup {Nil} /\ Refs(o) \subseteq Live
    BY <1>1, <1>5, ChildrenAre DEF LiveClosed
  <2> QED BY <2>1, Distinct
<1>10. Marks(S, col, gray \ {o})
  BY <1>1, <1>4, <1>7, <1>9, MarkAllMarks
<1>11. /\ color' \in [Objects -> Colours]
       /\ \A x \in Objects : Marked(x, col) => color'[x] = col[x]
       /\ \A x \in Objects : color'[x] # col[x] => x \in Live /\ Marked(x, color')
       /\ \A x \in Objects : color'[x] = "black" /\ col[x] # "black" =>
             /\ open[x] = Nil /\ (kind[x] = "udata" \/ kind[x] = "upval" \/ kind[x] = "string")
             /\ \A v \in Refs(x) : Marked(v, color')
       /\ \A x \in S \cap Objects : Marked(x, color')
       /\ gray' \subseteq gray \cup alive
  BY <1>5, <1>10 DEF Marks
<1>12. \A x \in Objects : Marked(x, col) => Marked(x, color')
  BY <1>11 DEF Marked
\* The entry: only an empty one forgets its key.
<1>13. Forgotten(o, col) => /\ Is(o, Tables) /\ o \in Objects /\ ref[o][2] = Nil
  BY DEF Forgotten, Is
<1>14. /\ DOMAIN ref' = Objects \cup {Main}
       /\ \A x \in Objects \cup {Main} : x # o => ref'[x] = ref[x]
       /\ \A x \in Objects \cup {Main} : ref'[x][2] = ref[x][2]
                                         /\ ref'[x] \in (Objects \cup {Nil}) \X (Objects \cup {Nil})
       /\ ref'[o][1] = IF Forgotten(o, col) THEN Nil ELSE ref[o][1]
       /\ ~ Forgotten(o, col) => ref' = ref
  <2>1. CASE Forgotten(o, col)
    <3>1. o \in Objects \cup {Main} /\ ref[o] = <<ref[o][1], ref[o][2]>>
      BY <1>1, <1>13, <2>1, FieldsAre
    <3>2. \A x \in Objects \cup {Main} : ref'[x] = IF x = o THEN <<Nil, ref[o][2]>> ELSE ref[x]
      <4>1. DOMAIN ref = Objects \cup {Main} /\ ref[o] \in (Objects \cup {Nil}) \X (Objects \cup {Nil})
        BY <1>1, <3>1 DEF GCType
      <4> QED BY <1>4, <2>1, <3>1, <4>1, WriteField
    <3>3. DOMAIN ref' = Objects \cup {Main}
      BY <1>1, <1>4, <2>1 DEF GCType
    <3>4. \A x \in Objects \cup {Main} : ref[x] \in (Objects \cup {Nil}) \X (Objects \cup {Nil})
      BY <1>1 DEF GCType
    <3>5. ref[o][2] \in Objects \cup {Nil}
      BY <1>1, <3>1, FieldsAre
    <3> QED BY <2>1, <3>1, <3>2, <3>3, <3>4, <3>5
  <2>2. CASE ~ Forgotten(o, col)
    BY <1>1, <1>4, <2>2 DEF GCType
  <2> QED BY <2>1, <2>2
<1>15. \A x \in Objects : open[x] # Nil => open[x] \in Objects \cup {Main}
  BY <1>1 DEF GCType
<1>16. \A x \in Objects \cup {Main} : Refs(x)' = Refs(x)
  <2> TAKE x \in Objects \cup {Main}
  <2>1. x \in Objects => Value(x)' = Value(x)
    BY <1>3, <1>14, <1>15 DEF Value
  <2>2. \A types : Is(x, types)' = Is(x, types)
    BY <1>3 DEF Is
  <2>3. CASE Is(x, {"upval"})
    BY <2>1, <2>2, <2>3, KindsOf DEF Refs, Is
  <2>4. CASE Is(x, Tables) /\ ref[x][2] = Nil
    BY <1>14, <2>2, <2>4 DEF Refs
  <2>5. CASE ~ Is(x, {"upval"}) /\ ~ (Is(x, Tables) /\ ref[x][2] = Nil)
    <3>1. ref'[x] = ref[x]
      BY <1>13, <1>14, <2>5
    <3> QED BY <2>2, <2>5, <3>1 DEF Refs
  <2> QED BY <2>3, <2>4, <2>5
<1>17. GCType'
  BY <1>1, <1>2, <1>3, <1>5, <1>11, <1>14 DEF GCType
<1>18. HeapTyped'
  <2>1. ASSUME NEW x \in Objects PROVE FieldsTyped(x)'
    <3>1. CASE Forgotten(o, col) /\ x = o
      BY <1>1, <1>3, <1>13, <1>14, <3>1, KindsOf DEF HeapTyped, FieldsTyped, Storable, Is
    <3>2. CASE ~ (Forgotten(o, col) /\ x = o)
      <4>1. ref'[x] = ref[x]
        BY <1>14, <3>2
      <4> QED BY <1>1, <1>3, <4>1 DEF HeapTyped, FieldsTyped, Storable, Is, Metatable
    <3> QED BY <3>1, <3>2
  <2>2. Storable' = Storable
    BY <1>3 DEF Storable
  <2>3. ref'[Main] = ref[Main]
    BY <1>13, <1>14, Distinct
  <2>4. ASSUME NEW x \in Objects, x \notin alive
        PROVE  ref'[x] = <<Nil, Nil>> /\ open'[x] = Nil /\ color'[x] = "white"
    <3>1. x # o
      BY <1>5, <2>4, Distinct
    <3>2. col[x] = "white"
      BY <1>1, <2>4, <3>1 DEF HeapTyped
    <3> QED BY <1>1, <1>3, <1>5, <1>11, <1>14, <2>4, <3>1, <3>2 DEF HeapTyped
  <2>5. ASSUME NEW x \in Objects, open[x] # Nil
        PROVE  /\ kind[x] = "upval" /\ ref'[x] = <<Nil, Nil>>
               /\ open[x] = Main \/ (open[x] \in alive /\ kind[open[x]] = "thread")
    <3>1. /\ kind[x] = "upval" /\ ref[x] = <<Nil, Nil>>
          /\ open[x] = Main \/ (open[x] \in alive /\ kind[open[x]] = "thread")
      BY <1>1, <2>5 DEF HeapTyped
    <3>2. ~ (Forgotten(o, col) /\ x = o)
      BY <1>13, <3>1, KindsOf
    <3> QED BY <1>14, <3>1, <3>2
  <2>6. \A x \in alive : kind[x] # "unused" /\ (kind[x] = "closure" => ref'[x][1] # Nil)
    <3> TAKE x \in alive
    <3>1. x \in Objects /\ kind[x] # "unused" /\ (kind[x] = "closure" => ref[x][1] # Nil)
      BY <1>1, <1>5 DEF HeapTyped
    <3>2. kind[x] = "closure" => ~ Is(x, Tables)
      BY KindsOf
    <3> QED BY <1>13, <1>14, <3>1, <3>2
  <2> QED BY <1>1, <1>2, <1>3, <2>1, <2>2, <2>3, <2>4, <2>5, <2>6 DEF HeapTyped
<1>19. \A x \in alive : color'[x] # "dead"
  <2> TAKE x \in alive
  <2>1. color[x] # "dead" /\ x \in Objects
    BY <1>5 DEF Live
  <2>2. col[x] # "dead"
    BY <1>6, <2>1
  <2> QED BY <1>11, <2>1, <2>2 DEF Marked
<1>20. Live' = alive
  BY <1>2, <1>19 DEF Live
<1>21. LiveClosed'
  <2>1. \A x \in Live' \cup {Main} : Refs(x)' \subseteq Live'
    BY <1>1, <1>5, <1>16, <1>20 DEF LiveClosed
  <2> QED BY <1>1, <1>3, <1>5, <1>20, <2>1 DEF LiveClosed, Waiting
<1>22. SweepWaits' /\ NoneDead'
  BY <1>2, <1>20 DEF SweepWaits, NoneDead
<1>23. o \in Objects => color'[o] = Done(o)
  BY <1>6, <1>11 DEF Marked
<1>24. o \in Objects /\ Done(o) = "black" =>
         /\ kind[o] = "strong" \/ kind[o] = "udata" \/ kind[o] = "closure" \/ kind[o] = "upval"
            \/ kind[o] = "string"
         /\ open[o] = Nil
  BY <1>1, <1>5, DoneBlack, Distinct
<1>25. NeverBlack'
  <2> SUFFICES ASSUME NEW x \in Objects, color'[x] = "black"
               PROVE  /\ kind[x] \in {"strong", "udata", "closure", "upval", "string"}
                      /\ open[x] = Nil
    BY <1>3 DEF NeverBlack
  <2>1. CASE x = o
    BY <1>23, <1>24, <2>1
  <2>2. CASE x # o /\ color[x] = "black"
    BY <1>1, <2>2 DEF NeverBlack
  <2>3. CASE x # o /\ color[x] # "black"
    <3>1. col[x] # "black"
      BY <2>3
    <3> QED BY <1>11, <3>1
  <2> QED BY <2>1, <2>2, <2>3
<1>26. ASSUME NEW x \in alive, color'[x] = "black"
       PROVE  /\ \A v \in Refs(x) : Marked(v, color')
              /\ kind[x] = "strong" => ~ IsWhite(ref'[x][1], color')
  <2>1. \A v : Marked(v, color') => ~ IsWhite(v, color')
    BY DEF Marked, IsWhite
  <2>2. \A v : IsWhite(v, color') => v \in Objects /\ ~ Marked(v, color')
    BY DEF Marked, IsWhite
  <2>3. \A v \in Objects : ~ IsWhite(v, color) => Marked(v, color)
    BY <1>1 DEF IsWhite, Marked, GCType, Colours
  <2>4. \A v \in Objects : ~ IsWhite(v, col) => Marked(v, col)
    BY <1>7 DEF IsWhite, Marked, Colours
  <2>5. x \in Objects /\ Refs(x) \subseteq Objects
    BY <1>1, <1>5, RefsAre
  <2>6. CASE x = o
    <3>1. o \in Objects /\ Done(o) = "black"
      BY <1>23, <1>26, <2>5, <2>6
    <3>2. Refs(o) \subseteq S
      BY <1>1, <1>24, <3>1, ChildrenAre
    <3>3. \A v \in Refs(x) : Marked(v, color')
      BY <1>11, <2>5, <2>6, <3>2
    <3>4. ASSUME kind[x] = "strong" PROVE ~ IsWhite(ref'[x][1], color')
      <4>1. Is(x, Tables) /\ Is(x, Tables \ {"allweak"})
        BY <2>5, <3>4 DEF Is, Tables
      <4>2. CASE ref[x][2] # Nil
        <5>1. ref'[x] = ref[x]
          BY <1>13, <1>14, <2>6, <4>2, <2>5
        <5>2. ref[x][1] = Nil \/ ref[x][1] \in Refs(x)
          BY <1>1, <2>5, <4>1, <4>2, RefsAre
        <5> QED BY <2>2, <3>3, <5>1, <5>2, Distinct
      <4>3. CASE ref[x][2] = Nil
        <5>1. CASE IsWhite(ref[x][1], col)
          <6>1. Forgotten(o, col)
            BY <2>6, <4>1, <4>3, <5>1 DEF Forgotten
          <6> QED BY <1>14, <2>2, <2>6, <6>1, Distinct
        <5>2. CASE ~ IsWhite(ref[x][1], col)
          <6>1. ref'[x][1] = ref[x][1]
            BY <1>14, <2>6, <5>2 DEF Forgotten
          <6> QED BY <1>12, <2>2, <2>4, <5>2, <6>1
        <5> QED BY <5>1, <5>2
      <4> QED BY <4>2, <4>3
    <3> QED BY <3>3, <3>4
  <2>7. CASE x # o /\ color[x] = "black"
    <3>1. /\ \A v \in Refs(x) : ~ IsWhite(v, color)
          /\ kind[x] = "strong" => ~ IsWhite(ref[x][1], color)
      BY <1>1, <1>2, <2>7 DEF BlackRefers
    <3>2. ref'[x] = ref[x]
      BY <1>14, <2>5, <2>7
    <3> QED BY <1>8, <1>12, <2>2, <2>3, <2>5, <3>1, <3>2
  <2>8. CASE x # o /\ color[x] # "black"
    <3>1. col[x] # "black"
      BY <2>5, <2>8
    <3> QED BY <1>11, <1>26, <2>5, <3>1
  <2> QED BY <2>6, <2>7, <2>8
<1>27. BlackRefers'
  <2>1. \A x \in alive : x \in Objects
    BY <1>5
  <2> QED BY <1>2, <1>3, <1>16, <1>26, <2>1 DEF BlackRefers, IsWhite, Marked
<1>28. GrayListed'
  <2>1. gray' \subseteq alive' \cup {Main}
    BY <1>1, <1>2, <1>11 DEF GrayListed
  <2>2. \A x \in late' : Is(x, {"ephemeron"})
    BY <1>1, <1>4 DEF GrayListed, TooLate
  <2> QED BY <1>2, <1>3, <2>1, <2>2 DEF GrayListed, Is
<1>29. FinalizersKept'
  BY <1>1, <1>2, <1>3, FinalizersSame DEF FinalizersKept
<1> QED BY <1>17, <1>18, <1>21, <1>22, <1>25, <1>27, <1>28, <1>29 DEF GCInv

-----------------------------------------------------------------------------
(* Sweeping. *)

\* What sweeping the objects of S does to the parts of the invariant that know
\* nothing of the phase: it frees dead objects only, and no object that lives
\* loses a reference, though an upvalue may lose its thread.
Swept(S) ==
    /\ GCType' /\ HeapTyped' /\ LiveClosed' /\ NeverBlack' /\ FinalizersKept'
    /\ alive' \subseteq alive /\ Live' = Live
    /\ \A x \in alive' : color'[x] # "white" => /\ color'[x] = color[x] /\ x \notin S
                                                /\ open'[x] = open[x] /\ open[x] \notin S
    /\ \A x \in Objects \cup {Main} : Is(x, Tables) /\ x \in Live => ref'[x] = ref[x]

\* The rest of the state has its type after the step.
RestTyped ==
    /\ gcstate' \in {"pause", "propagate"} \cup Sweeps /\ gray' = gray
    /\ tosweep' \subseteq Objects /\ sweepstrgc' \in Nat /\ strsize' \in Nat \ {0}

LEMMA SweepSwept ==
    ASSUME GCInv, NEW S, S \subseteq Objects \cup {Main}, SweepObjects(S), RestTyped,
           UNCHANGED <<kind, tobefnz>>
    PROVE  Swept(S)
<1>1. GCType /\ HeapTyped /\ LiveClosed /\ FinalizersKept /\ NeverBlack
  BY DEF GCInv
<1> PICK all : all = S \cup UNION {OpenUpvals(th) : th \in {o \in S : ~ Dead(o)}}
  OBVIOUS
<1> PICK D : D = {o \in all : Dead(o)}
  OBVIOUS
<1> PICK L : L = {o \in all : ~ Dead(o)} \cap Objects
  OBVIOUS
<1> PICK ends : ends = {u \in alive : open[u] \in D}
  OBVIOUS
<1> PICK F : F = D \cup {u \in ends : Dead(u)}
  OBVIOUS
<1> PICK C : C = ends \ F
  OBVIOUS
<1>2. /\ alive' = alive \ F
      /\ color' = [o \in Objects |-> IF o \in F \cup L \cup C THEN "white" ELSE color[o]]
      /\ ref' = [o \in DOMAIN ref |-> IF o \in F THEN <<Nil, Nil>>
                                      ELSE IF o \in C THEN <<Nil, Value(o)>> ELSE ref[o]]
      /\ open' = [o \in Objects |-> IF o \in F \cup C THEN Nil ELSE open[o]]
      /\ finalized' = finalized \ F
      /\ called' = [o \in Objects |-> IF o \in F THEN 0 ELSE called[o]]
      /\ finobj' = Without(finobj, F)
  BY Zenon DEF SweepObjects, Sweep
<1>3. alive \subseteq Objects /\ Live = {o \in alive : ~ Dead(o)} /\ \A o : Dead(o) => o \in alive
  BY <1>1 DEF GCType, HeapTyped, Live, Dead
<1>4. /\ F \subseteq alive /\ \A o \in F : Dead(o)
      /\ C \subseteq alive /\ \A o \in C : ~ Dead(o)
      /\ \A o \in F \cup C : o \in Objects /\ o # Main
  BY <1>3, Distinct
<1>5. \A u \in alive : open[u] # Nil => /\ kind[u] = "upval" /\ ref[u] = <<Nil, Nil>>
                                        /\ open[u] = Main \/ (open[u] \in alive /\ kind[open[u]] = "thread")
  BY <1>1, <1>3 DEF HeapTyped
<1>6. Nil \notin D
  BY <1>3, Distinct
<1>7. \A u \in C : kind[u] = "upval" /\ open[u] # Nil
  BY <1>3, <1>5, <1>6
<1>8. \A u \in alive \ (F \cup C) : open[u] # Nil => open[u] \notin F \cup C
  <2> SUFFICES ASSUME NEW u \in alive, u \notin F \cup C, open[u] # Nil, open[u] \in F \cup C
               PROVE  FALSE
    OBVIOUS
  <2>1. open[u] \in alive /\ kind[open[u]] = "thread" /\ open[u] # Main
    BY <1>4, <1>5
  <2>2. open[u] \notin C
    BY <1>7, <2>1
  <2>3. open[u] \notin D
    OBVIOUS
  <2>4. open[u] \in ends
    BY <2>2, <2>3
  <2> QED BY <1>5, <1>6, <2>1, <2>4
<1>9. Live' = Live
  <2>1. \A o \in alive : o \in F => o \notin Live
    BY <1>3, <1>4
  <2>2. \A o \in Live : o \in alive' /\ color'[o] # "dead"
    BY <1>2, <1>3, <2>1 DEF Dead
  <2>3. \A o \in alive' : color'[o] # "dead" => o \in Live
    BY <1>2, <1>3, <1>4 DEF Dead
  <2> QED BY <1>2, <2>2, <2>3 DEF Live
<1>10. /\ DOMAIN ref' = Objects \cup {Main}
       /\ \A x \in Objects \cup {Main} : ref'[x] = IF x \in F THEN <<Nil, Nil>>
                                      ELSE IF x \in C THEN <<Nil, Value(x)>> ELSE ref[x]
  BY <1>1, <1>2 DEF GCType
<1>11. \A x \in C : Value(x) \in Storable
  BY <1>1, <1>3, <1>4, <1>7, ValueStorable
<1>12. Storable \subseteq Objects \cup {Nil} /\ Storable' = Storable /\ Nil \in Storable
  BY DEF Storable
<1>13. \A x \in Objects \cup {Main} : ref'[x] \in (Objects \cup {Nil}) \X (Objects \cup {Nil})
  <2> TAKE x \in Objects \cup {Main}
  <2>1. ref[x] \in (Objects \cup {Nil}) \X (Objects \cup {Nil})
    BY <1>1 DEF GCType
  <2>2. CASE x \in F
    <3>1. ref'[x] = <<Nil, Nil>> /\ Nil \in Objects \cup {Nil}
      BY <1>10, <2>2
    <3> QED BY <3>1
  <2>3. CASE x \notin F /\ x \in C
    <3>1. Value(x) \in Objects \cup {Nil} /\ Nil \in Objects \cup {Nil}
      BY <1>11, <1>12, <2>3
    <3>2. ref'[x] = <<Nil, Value(x)>>
      BY <1>10, <2>3
    <3> QED BY <3>1, <3>2
  <2>4. CASE x \notin F \cup C
    BY <1>10, <2>1, <2>4
  <2> QED BY <2>2, <2>3, <2>4
<1>14. /\ finobj' \in Seq(Objects) /\ Elements(finobj') = Elements(finobj) \ F
       /\ NoRepeats(finobj) => NoRepeats(finobj')
  BY <1>1, <1>2, WithoutIs DEF GCType
<1>15. color' \in [Objects -> Colours] /\ open' \in [Objects -> Objects \cup {Main, Nil}]
       /\ called' \in [Objects -> Nat]
  BY <1>1, <1>2 DEF GCType, Colours
<1>16. GCType'
  BY <1>1, <1>2, <1>10, <1>13, <1>14, <1>15 DEF GCType, RestTyped
<1>17. HeapTyped'
  <2>1. ASSUME NEW x \in Objects PROVE FieldsTyped(x)'
    <3>1. CASE x \in F
      <4>1. ref'[x] = <<Nil, Nil>>
        BY <1>10, <3>1
      <4> QED BY <4>1, EmptyFields
    <3>2. CASE x \in C
      <4>1. ref'[x] = <<Nil, Value(x)>> /\ x \notin F /\ kind[x] = "upval" /\ Value(x) \in Storable
        BY <1>7, <1>10, <1>11, <3>2
      <4>2. ~ Is(x, Tables)
        BY <4>1, KindsOf
      <4> QED BY <1>12, <4>1, <4>2 DEF FieldsTyped, Metatable, Is
    <3>3. CASE x \notin F \cup C
      <4>1. ref'[x] = ref[x]
        BY <1>10, <3>3
      <4> QED BY <1>1, <4>1, SameFields DEF HeapTyped
    <3> QED BY <3>1, <3>2, <3>3
  <2>2. ref'[Main] = ref[Main]
    BY <1>4, <1>10
  <2>3. ASSUME NEW x \in Objects, x \notin alive'
        PROVE  ref'[x] = <<Nil, Nil>> /\ open'[x] = Nil /\ color'[x] = "white"
    <3>1. CASE x \in F
      BY <1>2, <1>10, <3>1
    <3>2. CASE x \notin F
      <4>1. x \notin alive /\ x \notin C
        BY <1>2, <1>4, <2>3, <3>2
      <4>2. ref[x] = <<Nil, Nil>> /\ open[x] = Nil /\ color[x] = "white"
        BY <1>1, <4>1 DEF HeapTyped
      <4> QED BY <1>2, <1>10, <3>2, <4>1, <4>2
    <3> QED BY <3>1, <3>2
  <2>4. ASSUME NEW x \in Objects, open'[x] # Nil
        PROVE  /\ kind[x] = "upval" /\ ref'[x] = <<Nil, Nil>>
               /\ open'[x] = Main \/ (open'[x] \in alive' /\ kind[open'[x]] = "thread")
    <3>1. x \notin F \cup C /\ open'[x] = open[x] /\ open[x] # Nil
      BY <1>2, <2>4
    <3>2. x \in alive
      BY <1>1, <3>1 DEF HeapTyped
    <3>3. open[x] \notin F \cup C
      BY <1>8, <3>1, <3>2
    <3>4. ref'[x] = ref[x]
      BY <1>10, <3>1
    <3> QED BY <1>2, <1>5, <3>1, <3>2, <3>3, <3>4
  <2>5. \A x \in alive' : kind[x] # "unused" /\ (kind[x] = "closure" => ref'[x][1] # Nil)
    <3> TAKE x \in alive'
    <3>1. x \in Objects /\ x \in alive /\ x \notin F
      BY <1>2, <1>3
    <3>2. kind[x] # "unused" /\ (kind[x] = "closure" => ref[x][1] # Nil)
      BY <1>1, <3>1 DEF HeapTyped
    <3>3. kind[x] = "closure" => ref'[x] = ref[x]
      BY <1>7, <1>10, <3>1
    <3> QED BY <3>2, <3>3
  <2> QED BY <1>1, <1>12, <2>1, <2>2, <2>3, <2>4, <2>5 DEF HeapTyped
<1>18. \A x \in Live \cup {Main} : x \notin F
  BY <1>3, <1>4
<1>19. \A x \in Live : Is(x, {"upval"}) => Value(x)' = Value(x)
  <2> TAKE x \in Live
  <2> HAVE Is(x, {"upval"})
  <2>1. x \in Objects /\ x \in alive /\ x \notin F
    BY <1>3, <1>18
  <2>2. CASE x \in C
    <3>1. open'[x] = Nil /\ ref'[x] = <<Nil, Value(x)>>
      BY <1>2, <1>10, <2>1, <2>2
    <3> QED BY <3>1 DEF Value
  <2>3. CASE x \notin C /\ open[x] = Nil
    <3>1. open'[x] = Nil /\ ref'[x] = ref[x]
      BY <1>2, <1>10, <2>1, <2>3
    <3> QED BY <2>3, <3>1 DEF Value
  <2>4. CASE x \notin C /\ open[x] # Nil
    <3>1. open'[x] = open[x] /\ open[x] \notin F \cup C /\ open[x] \in Objects \cup {Main}
      BY <1>2, <1>3, <1>5, <1>8, <2>1, <2>4
    <3>2. ref'[open[x]] = ref[open[x]]
      BY <1>10, <3>1
    <3> QED BY <2>4, <3>1, <3>2 DEF Value
  <2> QED BY <2>2, <2>3, <2>4
<1>20. \A x \in Live \cup {Main} : ~ Is(x, {"upval"}) => ref'[x] = ref[x]
  <2> TAKE x \in Live \cup {Main}
  <2> HAVE ~ Is(x, {"upval"})
  <2>1. x \notin F \cup C /\ x \in Objects \cup {Main}
    BY <1>3, <1>4, <1>7, <1>18 DEF Is
  <2> QED BY <1>10, <2>1
<1>21. \A x \in Live \cup {Main} : Refs(x)' = Refs(x)
  <2> TAKE x \in Live \cup {Main}
  <2>1. \A types : Is(x, types)' = Is(x, types)
    BY DEF Is
  <2>2. CASE Is(x, {"upval"})
    <3>1. x \in Live /\ ~ Is(x, Tables)
      BY <2>2, Distinct, KindsOf DEF Is
    <3> QED BY <1>19, <2>1, <2>2, <3>1 DEF Refs
  <2>3. CASE ~ Is(x, {"upval"})
    BY <1>20, <2>1, <2>3 DEF Refs
  <2> QED BY <2>2, <2>3
<1>22. LiveClosed'
  <2>1. Waiting' = Waiting /\ Elements(finobj') \subseteq Elements(finobj)
    BY <1>14 DEF Waiting
  <2> QED BY <1>1, <1>9, <1>21, <2>1 DEF LiveClosed
<1>23. NeverBlack'
  <2> SUFFICES ASSUME NEW x \in Objects, color'[x] = "black"
               PROVE  /\ kind[x] \in {"strong", "udata", "closure", "upval", "string"}
                      /\ open'[x] = Nil
    BY DEF NeverBlack
  <2>1. color[x] = "black" /\ x \notin F \cup C
    BY <1>2
  <2> QED BY <1>1, <1>2, <2>1 DEF NeverBlack
<1>24. FinalizersKept'
  <2>1. Waiting' = Waiting /\ \A o \in Waiting : o \notin F
    BY <1>1, <1>18 DEF Waiting, LiveClosed
  <2>2. \A o \in Objects : called'[o] = IF o \in finalized' /\ o \notin Waiting' THEN 1 ELSE 0
    BY <1>1, <1>2, <2>1 DEF FinalizersKept
  <2>3. NoRepeats(finobj') /\ NoRepeats(tobefnz')
    BY <1>1, <1>14 DEF FinalizersKept
  <2>4. \A o \in Elements(finobj') : kind[o] = "udata" /\ o \notin finalized'
    BY <1>1, <1>2, <1>14 DEF FinalizersKept
  <2>5. finalized' \subseteq alive' /\ \A o \in finalized' : kind[o] = "udata"
    BY <1>1, <1>2 DEF FinalizersKept
  <2>6. \A o \in Waiting' : kind[o] = "udata" /\ o \in finalized'
    BY <1>1, <1>2, <2>1 DEF FinalizersKept
  <2> QED BY <2>2, <2>3, <2>4, <2>5, <2>6 DEF FinalizersKept
<1>25. ASSUME NEW x \in alive', color'[x] # "white"
       PROVE  color'[x] = color[x] /\ x \notin S /\ open'[x] = open[x] /\ open[x] \notin S
  <2>1. x \in Objects /\ x \in alive /\ x \notin F
    BY <1>2, <1>3
  <2>2. x \notin F \cup L \cup C /\ color'[x] = color[x] /\ open'[x] = open[x]
    BY <1>2, <1>25, <2>1
  <2>3. x \notin all
    BY <2>1, <2>2
  <2>4. ASSUME open[x] \in S PROVE FALSE
    <3>1. CASE Dead(open[x])
      <4>1. open[x] \in D
        BY <2>4, <3>1
      <4>2. x \in ends
        BY <2>1, <4>1
      <4> QED BY <2>2, <4>2
    <3>2. CASE ~ Dead(open[x])
      <4>1. x \in OpenUpvals(open[x])
        BY <2>1 DEF OpenUpvals
      <4>2. OpenUpvals(open[x]) \in {OpenUpvals(th) : th \in {o \in S : ~ Dead(o)}}
        BY <2>4, <3>2
      <4> QED BY <2>3, <4>1, <4>2
    <3> QED BY <3>1, <3>2
  <2> QED BY <2>2, <2>3, <2>4
<1>26. \A x \in Objects \cup {Main} : Is(x, Tables) /\ x \in Live => ref'[x] = ref[x]
  BY <1>20, KindsOf DEF Is
<1> QED BY <1>2, <1>9, <1>16, <1>17, <1>22, <1>23, <1>24, <1>25, <1>26 DEF Swept

\* A step that frees nothing that lives and takes no value from a table that lives.
NothingTaken ==
    /\ Live \subseteq alive'
    /\ \A x \in Live : Is(x, Tables) => ref'[x][2] = ref[x][2]

LEMMA SweptTakesNothing == ASSUME NEW S, Swept(S) PROVE NothingTaken
BY DEF Swept, NothingTaken, Live, Is

\* What had still to be swept is in S or has still to be swept.
LEMMA SweptEnough ==
    ASSUME GCInv, NEW S, Swept(S), RestTyped, UNCHANGED <<kind, tobefnz, late>>,
           gcstate \in Sweeps, gcstate' # "propagate",
           \A x \in tosweep : x \notin S => gcstate' \in Sweeps /\ x \in tosweep',
           Main \notin S => gcstate' \in Sweeps,
           \A x \in Strings : /\ gcstate = "sweepstring" /\ x \notin S
                              /\ StrHash[x] % strsize >= sweepstrgc
                              => /\ gcstate' = "sweepstring"
                                 /\ StrHash[x] % strsize' >= sweepstrgc'
    PROVE  GCInv'
<1>1. GCType' /\ HeapTyped' /\ LiveClosed' /\ NeverBlack' /\ FinalizersKept'
  BY DEF Swept
<1>2. SweepWaits /\ GrayListed
  BY DEF GCInv
<1>3. SweepWaits'
  <2> SUFFICES ASSUME NEW x \in alive', color'[x] # "white", x \notin Waiting
               PROVE  x \in Unswept'
    BY DEF SweepWaits, Waiting
  <2>1. /\ x \in alive /\ color[x] # "white" /\ x \notin S
        /\ open'[x] = open[x] /\ open[x] \notin S
    BY DEF Swept
  <2>2. x \in Unswept
    BY <1>2, <2>1 DEF SweepWaits, Sweeps
  <2>3. CASE x \in tosweep
    BY <2>1, <2>3 DEF Unswept
  <2>4. CASE open[x] # Nil /\ (open[x] = Main \/ open[x] \in tosweep)
    BY <2>1, <2>4 DEF Unswept
  <2>5. CASE gcstate = "sweepstring" /\ kind[x] = "string" /\ StrHash[x] % strsize >= sweepstrgc
    <3>1. gcstate' = "sweepstring" /\ StrHash[x] % strsize' >= sweepstrgc'
      BY <2>1, <2>5 DEF Strings
    <3> QED BY <2>1, <2>5, <3>1 DEF Unswept, Sweeps
  <2> QED BY <2>2, <2>3, <2>4, <2>5 DEF Unswept
<1>4. NoneDead' /\ BlackRefers'
  BY DEF NoneDead, BlackRefers
<1>5. GrayListed'
  BY <1>2 DEF GrayListed, RestTyped, Sweeps, Is
<1> QED BY <1>1, <1>3, <1>4, <1>5 DEF GCInv

LEMMA SweepStringKeeps == ASSUME GCInv, SweepString PROVE GCInv' /\ NothingTaken
<1> PICK S : S = Bucket(sweepstrgc, strsize)
  OBVIOUS
<1>1. /\ gcstate = "sweepstring" /\ SweepObjects(S) /\ sweepstrgc' = sweepstrgc + 1
      /\ gcstate' = IF sweepstrgc' >= strsize THEN "sweepudata" ELSE gcstate
      /\ UNCHANGED <<kind, gray, tobefnz, tosweep, strsize, full, late>>
  BY DEF SweepString
<1>2. GCType /\ alive \subseteq Objects /\ StrHash \in [Objects -> Nat]
  BY LuaGCAssumption DEF GCInv, GCType
<1>3. S \subseteq Objects \cup {Main}
  BY <1>2 DEF Bucket, Strings
<1>4. RestTyped
  BY <1>1, <1>2 DEF RestTyped, GCType, Sweeps
<1>5. Swept(S)
  BY <1>1, <1>3, <1>4, SweepSwept
<1>6. gcstate \in Sweeps /\ gcstate' \in Sweeps /\ gcstate' # "propagate"
  BY <1>1 DEF Sweeps
<1>7. ASSUME NEW x \in Strings, x \notin S, StrHash[x] % strsize >= sweepstrgc
      PROVE  gcstate' = "sweepstring" /\ StrHash[x] % strsize' >= sweepstrgc'
  <2>1. StrHash[x] \in Nat /\ strsize \in Nat \ {0} /\ sweepstrgc \in Nat
    BY <1>2 DEF Strings, GCType
  <2> PICK h : h = StrHash[x] % strsize
    OBVIOUS
  <2>2. h \in Nat /\ h < strsize
    BY <2>1
  <2>3. h # sweepstrgc
    BY <1>7 DEF Bucket
  <2>4. h >= sweepstrgc + 1
    BY <1>7, <2>1, <2>2, <2>3
  <2> QED BY <1>1, <2>1, <2>2, <2>4
<1> QED BY <1>1, <1>4, <1>5, <1>6, <1>7, SweptEnough, SweptTakesNothing

LEMMA SweepUdataKeeps == ASSUME GCInv, SweepUdata PROVE GCInv' /\ NothingTaken
<1>1. /\ gcstate = "sweepudata"
      /\ UNCHANGED <<kind, gray, tobefnz, sweepstrgc, strsize, full, late>>
  BY DEF SweepUdata
<1>2. GCType
  BY DEF GCInv
<1>3. ASSUME NEW o \in tosweep, SweepObjects({o}), tosweep' = tosweep \ {o}, gcstate' = gcstate
      PROVE  GCInv' /\ NothingTaken
  <2>1. RestTyped /\ {o} \subseteq Objects \cup {Main}
    BY <1>1, <1>2, <1>3 DEF RestTyped, GCType, Sweeps
  <2>2. Swept({o})
    BY <1>1, <1>3, <2>1, SweepSwept
  <2>3. gcstate \in Sweeps /\ gcstate # "propagate" /\ gcstate # "sweepstring"
    BY <1>1 DEF Sweeps
  <2> QED BY <1>1, <1>3, <2>1, <2>2, <2>3, SweptEnough, SweptTakesNothing
<1>4. ASSUME gcstate' = "sweep", UNCHANGED <<ref, open, alive, color, fin, tosweep>>
      PROVE  GCInv' /\ NothingTaken
  <2>1. UNCHANGED <<heap, fin, finobj, finalized, called>>
    BY <1>1, <1>4 DEF heap, fin
  <2>2. GCType'
    BY <1>1, <1>2, <1>4, <2>1 DEF GCType, Sweeps
  <2>3. HeapTyped' /\ FinalizersKept'
    BY <1>1, <1>2, <1>4, <2>1, HeapKept, FinalizersSame DEF GCInv, HeapTyped, FinalizersKept
  <2>4. Live' = Live /\ LiveClosed'
    BY <1>1, <1>4, <2>1, SameRefs DEF GCInv, LiveClosed, Live, Waiting
  <2>5. SweepWaits'
    BY <1>1, <1>4 DEF GCInv, SweepWaits, Unswept, Sweeps, Waiting
  <2>6. NoneDead' /\ NeverBlack' /\ BlackRefers'
    BY <1>1, <1>4 DEF GCInv, NoneDead, NeverBlack, BlackRefers
  <2>7. GrayListed'
    BY <1>1, <1>4 DEF GCInv, GrayListed, Is
  <2>8. NothingTaken
    BY <1>1, <1>4 DEF NothingTaken, Live
  <2> QED BY <2>2, <2>3, <2>4, <2>5, <2>6, <2>7, <2>8 DEF GCInv
<1> QED BY <1>3, <1>4 DEF SweepUdata

LEMMA SweepAllKeeps == ASSUME GCInv, SweepAll PROVE GCInv' /\ NothingTaken
<1>1. /\ gcstate = "sweep"
      /\ UNCHANGED <<kind, gray, tobefnz, sweepstrgc, strsize, gcstate, full, late>>
  BY DEF SweepAll
<1> PICK o \in tosweep : SweepObjects({o}) /\ tosweep' = tosweep \ {o}
  BY DEF SweepAll
<1>2. RestTyped /\ {o} \subseteq Objects \cup {Main}
  BY <1>1 DEF GCInv, RestTyped, GCType, Sweeps
<1>3. Swept({o})
  BY <1>1, <1>2, SweepSwept
<1>4. gcstate \in Sweeps /\ gcstate # "propagate" /\ gcstate # "sweepstring"
  BY <1>1 DEF Sweeps
<1> QED BY <1>1, <1>2, <1>3, <1>4, SweptEnough, SweptTakesNothing

\* checkSizes leaves a table with a bucket.
LEMMA SizesTyped ==
    ASSUME GCType, CheckSizes
    PROVE  strsize' \in Nat \ {0}
<1>1. IsFiniteSet(Strings)
  <2>1. Strings \in SUBSET Objects
    BY DEF Strings, GCType
  <2> QED BY <2>1, LuaGCAssumption, FS_Subset
<1>2. Cardinality(Strings) \in Nat
  BY <1>1, FS_CardinalityType
<1>3. strsize \in Nat /\ strsize # 0
  BY DEF GCType
<1>4. strsize' = strsize \/ (strsize' = strsize \div 2 /\ Cardinality(Strings) < strsize \div 2)
  BY DEF CheckSizes
<1>5. strsize \div 2 \in Nat
  BY <1>3
<1> QED BY <1>2, <1>3, <1>4, <1>5

LEMMA SweepEndsKeeps == ASSUME GCInv, SweepEnds PROVE GCInv' /\ NothingTaken
<1>1. /\ gcstate = "sweep" /\ tosweep = {} /\ SweepObjects({Main}) /\ CheckSizes
      /\ gcstate' = "pause"
      /\ UNCHANGED <<kind, gray, tobefnz, tosweep, sweepstrgc, late>>
  BY DEF SweepEnds
<1>2. strsize' \in Nat \ {0}
  BY <1>1, SizesTyped DEF GCInv
<1>3. RestTyped /\ {Main} \subseteq Objects \cup {Main}
  BY <1>1, <1>2 DEF GCInv, RestTyped, GCType
<1>4. Swept({Main})
  BY <1>1, <1>3, SweepSwept
<1>5. gcstate \in Sweeps /\ gcstate' # "propagate" /\ gcstate # "sweepstring"
  BY <1>1 DEF Sweeps
<1> QED BY <1>1, <1>3, <1>4, <1>5, SweptEnough, SweptTakesNothing

-----------------------------------------------------------------------------
(* The atomic phase. *)

\* No object of M that is still to be traversed leaves M.
TraversedWithin(M, again) ==
    \A o \in M \cup {Main} :
        (o = Main \/ (color[o] # "black" /\ o \notin late) \/ o \in again)
        => (Children(o, M \cup {Nil, Main}) \cap Objects) \subseteq M

\* What Reached returns is itself closed.
LEMMA ReachedClosed ==
    ASSUME GCType, HeapTyped, LiveClosed, alive \subseteq Live, NEW S, S \subseteq alive, NEW again,
           NEW R, R = Reached(S, again)
    PROVE  S \subseteq R /\ R \subseteq alive /\ TraversedWithin(R, again)
<1> DEFINE closed(M) == \A o \in M \cup {Main} :
                            (o = Main \/ (color[o] # "black" /\ o \notin late) \/ o \in again)
                            => (Children(o, M \cup {Nil, Main}) \cap Objects) \subseteq M
           sets == {M \in {S \cup X : X \in SUBSET (alive \ S)} : closed(M)}
<1>1. R = {o \in alive : \A M \in sets : o \in M}
  BY DEF Reached
<1>2. \A M \in sets : S \subseteq M /\ closed(M)
  OBVIOUS
<1> HIDE DEF sets
<1>3. S \subseteq R /\ R \subseteq alive /\ \A M \in sets : R \subseteq M
  BY <1>1, <1>2
<1>4. ASSUME NEW o \in R \cup {Main}, o = Main \/ (color[o] # "black" /\ o \notin late) \/ o \in again,
             NEW v \in Children(o, R \cup {Nil, Main}) \cap Objects
      PROVE  v \in R
  <2>1. o \in Objects \cup {Main} /\ (o = Main \/ o \in Live)
    BY <1>3 DEF GCType
  <2>2. v \in alive
    <3>1. v \in Refs(o) \cup {Nil}
      BY <2>1, ChildrenAre
    <3> QED BY <2>1, <3>1, Distinct DEF LiveClosed, Live
  <2>3. ASSUME NEW M \in sets PROVE v \in M
    <3>1. Children(o, R \cup {Nil, Main}) \subseteq Children(o, M \cup {Nil, Main})
      <4>1. R \cup {Nil, Main} \subseteq M \cup {Nil, Main}
        BY <1>3
      <4> QED BY <2>1, <4>1, ChildrenAre
    <3>2. o \in M \cup {Main} /\ closed(M)
      BY <1>2, <1>3
    <3>3. (Children(o, M \cup {Nil, Main}) \cap Objects) \subseteq M
      BY <1>4, <3>2
    <3> QED BY <3>1, <3>3
  <2> QED BY <1>1, <2>2, <2>3
<1>5. TraversedWithin(R, again)
  BY <1>4 DEF TraversedWithin
<1> QED BY <1>3, <1>5

\* The entry of a table of kept is as it was, or it has been cleared, for one of
\* the two reasons that there are.
LEMMA CleanedIs ==
    ASSUME GCType, HeapTyped, GrayListed, NEW h \in Objects, NEW strong, NEW kept, strong \subseteq kept,
           NEW e, e = Cleaned(h, strong, kept)
    PROVE  /\ ref[h][2] = Nil => e = ref[h]
           /\ ~ Is(h, Tables) => e = ref[h]
           /\ e[2] # Nil =>
                /\ e = ref[h]
                /\ Is(h, {"weakvalue", "allweak"}) \/ h \in late => ~ Cleared(e[2], kept)
                /\ Is(h, {"ephemeron", "allweak"}) => ~ Cleared(e[1], kept)
           /\ e[2] = Nil =>
                /\ e = ref[h] \/ e = <<Nil, Nil>> \/ e = <<ref[h][1], Nil>>
                /\ \/ ref[h][2] = Nil
                   \/ (Is(h, {"weakvalue", "allweak"}) \/ h \in late) /\ Cleared(ref[h][2], strong)
                   \/ Is(h, {"ephemeron", "allweak"}) /\ Cleared(ref[h][1], strong)
<1>1. ~ Is(h, Tables) => ~ Is(h, {"weakvalue", "allweak"}) /\ ~ Is(h, {"ephemeron", "allweak"})
                         /\ h \notin late
  <2>1. ~ Is(h, Tables) => ~ Is(h, {"weakvalue", "allweak"}) /\ ~ Is(h, {"ephemeron", "allweak"})
                           /\ ~ Is(h, {"ephemeron"})
    BY DEF Is, Tables
  <2> QED BY <2>1 DEF GrayListed
<1> PICK valweak : valweak = (Is(h, {"weakvalue", "allweak"}) \/ h \in late)
  OBVIOUS
<1> PICK keyweak : keyweak = Is(h, {"ephemeron", "allweak"})
  OBVIOUS
<1> PICK k, v : k = ref[h][1] /\ v = ref[h][2]
  OBVIOUS
<1>2. ref[h] = <<k, v>>
  BY FieldsAre
<1>3. \A x : Cleared(x, kept) => Cleared(x, strong)
  BY DEF Cleared
<1>4. \A M : ~ Cleared(Nil, M)
  BY Distinct DEF Cleared
<1>5. \A M : ClearValue(<<k, v>>, M) = IF Cleared(v, M) THEN <<IF k \in Objects \ M THEN Nil ELSE k, Nil>>
                                       ELSE <<k, v>>
  BY DEF ClearValue
<1>6. \A a, b, M : ClearKey(<<a, b>>, M) = IF b # Nil /\ Cleared(a, M) THEN <<Nil, Nil>> ELSE <<a, b>>
  BY DEF ClearKey
<1>7. \A M : ClearValue(<<Nil, Nil>>, M) = <<Nil, Nil>>
  BY <1>4 DEF ClearValue
<1> PICK e1 : e1 = IF valweak /\ h \in strong THEN ClearValue(<<k, v>>, strong) ELSE <<k, v>>
  OBVIOUS
<1> PICK e2 : e2 = IF keyweak THEN ClearKey(e1, kept) ELSE e1
  OBVIOUS
<1>8. e = IF valweak /\ h \notin strong THEN ClearValue(e2, kept) ELSE e2
  BY <1>2 DEF Cleaned
<1>9. CASE valweak /\ h \in strong /\ Cleared(v, strong)
  <2>1. e1 = <<Nil, Nil>> \/ e1 = <<k, Nil>>
    BY <1>5, <1>9
  <2>2. e = e1
    BY <1>6, <1>8, <1>9, <2>1
  <2>3. e[2] = Nil /\ v # Nil
    BY <1>4, <1>9, <2>1, <2>2
  <2> QED BY <1>1, <1>9, <2>1, <2>2, <2>3
<1>10. CASE ~ (valweak /\ h \in strong /\ Cleared(v, strong))
  <2>1. e1 = <<k, v>>
    BY <1>5, <1>10
  <2>2. CASE keyweak /\ v # Nil /\ Cleared(k, kept)
    <3>1. e = <<Nil, Nil>>
      BY <1>6, <1>7, <1>8, <2>1, <2>2
    <3> QED BY <1>1, <1>3, <2>2, <3>1
  <2>3. CASE ~ (keyweak /\ v # Nil /\ Cleared(k, kept))
    <3>1. e2 = <<k, v>>
      BY <1>6, <2>1, <2>3
    <3>2. CASE valweak /\ h \notin strong /\ Cleared(v, kept)
      <4>1. e = <<Nil, Nil>> \/ e = <<k, Nil>>
        BY <1>5, <1>8, <3>1, <3>2
      <4>2. e[2] = Nil /\ v # Nil
        BY <1>4, <3>2, <4>1
      <4> QED BY <1>1, <1>3, <3>2, <4>1, <4>2
    <3>3. CASE ~ (valweak /\ h \notin strong /\ Cleared(v, kept))
      <4>1. e = <<k, v>>
        BY <1>5, <1>8, <3>1, <3>3
      <4>2. e = ref[h] /\ e[1] = k /\ e[2] = v
        BY <1>2, <4>1
      <4>3. valweak => ~ Cleared(v, kept)
        BY <1>3, <1>10, <3>3
      <4> QED BY <2>3, <4>2, <4>3
    <3> QED BY <3>2, <3>3
  <2> QED BY <2>2, <2>3
<1> QED BY <1>9, <1>10

\* Two lists with nothing in common.
LEMMA ConcatLists ==
    ASSUME NEW S, NEW s \in Seq(S), NEW t \in Seq(S)
    PROVE  /\ s \o t \in Seq(S) /\ Elements(s \o t) = Elements(s) \cup Elements(t)
           /\ NoRepeats(s) /\ NoRepeats(t) /\ Elements(s) \cap Elements(t) = {} => NoRepeats(s \o t)
<1> PICK c : c = s \o t
  OBVIOUS
<1>1. /\ c \in Seq(S) /\ Len(c) = Len(s) + Len(t) /\ Len(s) \in Nat /\ Len(t) \in Nat
      /\ \A i \in 1 .. Len(c) : c[i] = IF i <= Len(s) THEN s[i] ELSE t[i - Len(s)]
  BY ConcatProperties
<1>2. DOMAIN c = 1 .. Len(c) /\ DOMAIN s = 1 .. Len(s) /\ DOMAIN t = 1 .. Len(t)
  BY <1>1
<1>3. \A i \in DOMAIN c : \/ i \in DOMAIN s /\ c[i] = s[i]
                          \/ i - Len(s) \in DOMAIN t /\ c[i] = t[i - Len(s)] /\ i \notin DOMAIN s
  BY <1>1, <1>2
<1>4. /\ \A i \in DOMAIN s : i \in DOMAIN c /\ c[i] = s[i]
      /\ \A i \in DOMAIN t : i + Len(s) \in DOMAIN c /\ c[i + Len(s)] = t[i]
  BY <1>1, <1>2
<1>5. Elements(c) = Elements(s) \cup Elements(t)
  <2>1. Elements(c) \subseteq Elements(s) \cup Elements(t)
    BY <1>3 DEF Elements
  <2>2. Elements(s) \subseteq Elements(c)
    BY <1>4 DEF Elements
  <2>3. Elements(t) \subseteq Elements(c)
    BY <1>4 DEF Elements
  <2> QED BY <2>1, <2>2, <2>3
<1>6. ASSUME NoRepeats(s), NoRepeats(t), Elements(s) \cap Elements(t) = {},
             NEW i \in DOMAIN c, NEW j \in DOMAIN c, c[i] = c[j]
      PROVE  i = j
  <2>1. CASE i \in DOMAIN s /\ j \in DOMAIN s
    BY <1>4, <1>6, <2>1 DEF NoRepeats
  <2>2. CASE i \notin DOMAIN s /\ j \notin DOMAIN s
    <3>1. /\ i - Len(s) \in DOMAIN t /\ j - Len(s) \in DOMAIN t
          /\ t[i - Len(s)] = t[j - Len(s)]
      BY <1>3, <1>6, <2>2
    <3>2. i - Len(s) = j - Len(s)
      BY <1>6, <3>1 DEF NoRepeats
    <3> QED BY <1>1, <1>2, <3>2
  <2>3. CASE (i \in DOMAIN s) # (j \in DOMAIN s)
    <3>1. /\ \A x \in DOMAIN c : x \in DOMAIN s => c[x] \in Elements(s)
          /\ \A x \in DOMAIN c : x \notin DOMAIN s => c[x] \in Elements(t)
      BY <1>3 DEF Elements
    <3> QED BY <1>6, <2>3, <3>1
  <2> QED BY <2>1, <2>2, <2>3
<1>7. NoRepeats(s) /\ NoRepeats(t) /\ Elements(s) \cap Elements(t) = {} => NoRepeats(c)
  BY <1>6 DEF NoRepeats
<1> QED BY <1>1, <1>5, <1>7

ListsJoined(S, s, t) ==
    /\ s \o t \in Seq(S) /\ Elements(s \o t) = Elements(s) \cup Elements(t)
    /\ NoRepeats(s) /\ NoRepeats(t) /\ Elements(s) \cap Elements(t) = {} => NoRepeats(s \o t)

LEMMA ListsJoin == \A S : \A s, t \in Seq(S) : ListsJoined(S, s, t)
<1> SUFFICES ASSUME NEW S, NEW s \in Seq(S), NEW t \in Seq(S) PROVE ListsJoined(S, s, t)
  OBVIOUS
<1> QED BY ConcatLists, Zenon DEF ListsJoined

\* The choices of Atomic, one after the other.
AtomicStep(strong, lost, fnz, kept, entry) ==
    /\ strong = Reached({o \in alive : ~ IsWhite(o, color)}, {})
    /\ lost = Lost(strong) /\ fnz = Elements(tobefnz \o lost)
    /\ kept = Reached(strong \cup fnz, fnz)
    /\ entry = [h \in kept |-> Cleaned(h, strong, kept)]
    /\ Separate(lost)
    /\ ref' = [o \in DOMAIN ref |-> IF o \in kept THEN entry[o] ELSE ref[o]]
    /\ color' = [o \in Objects |->
           IF o \in kept \cup WeakStrings(kept, entry) THEN Done(o)
           ELSE IF color[o] = "white" /\ o \in alive THEN "dead" ELSE "white"]
    /\ EnterSweep(alive \ fnz)

LEMMA AtomicIs ==
    ASSUME Atomic
    PROVE  \E strong, lost, fnz, kept, entry : AtomicStep(strong, lost, fnz, kept, entry)
<1>1. PICK strong \in {Reached({o \in alive : ~ IsWhite(o, color)}, {})} :
         \E lost \in {Lost(strong)} :
         \E fnz \in {Elements(tobefnz \o lost)} :
         \E kept \in {Reached(strong \cup fnz, fnz)} :
            /\ Separate(lost)
            /\ \E entry \in {[h \in kept |-> Cleaned(h, strong, kept)]} :
                  /\ ref' = [o \in DOMAIN ref |-> IF o \in kept THEN entry[o] ELSE ref[o]]
                  /\ color' = [o \in Objects |->
                         IF o \in kept \cup WeakStrings(kept, entry) THEN Done(o)
                         ELSE IF color[o] = "white" /\ o \in alive THEN "dead" ELSE "white"]
            /\ EnterSweep(alive \ fnz)
  BY Zenon DEF Atomic
<1>2. PICK lost, fnz, kept :
            /\ lost = Lost(strong) /\ fnz = Elements(tobefnz \o lost)
            /\ kept = Reached(strong \cup fnz, fnz)
            /\ Separate(lost)
            /\ \E entry \in {[h \in kept |-> Cleaned(h, strong, kept)]} :
                  /\ ref' = [o \in DOMAIN ref |-> IF o \in kept THEN entry[o] ELSE ref[o]]
                  /\ color' = [o \in Objects |->
                         IF o \in kept \cup WeakStrings(kept, entry) THEN Done(o)
                         ELSE IF color[o] = "white" /\ o \in alive THEN "dead" ELSE "white"]
            /\ EnterSweep(alive \ fnz)
  BY <1>1, Zenon
<1>3. PICK entry :
            /\ entry = [h \in kept |-> Cleaned(h, strong, kept)]
            /\ ref' = [o \in DOMAIN ref |-> IF o \in kept THEN entry[o] ELSE ref[o]]
            /\ color' = [o \in Objects |->
                   IF o \in kept \cup WeakStrings(kept, entry) THEN Done(o)
                   ELSE IF color[o] = "white" /\ o \in alive THEN "dead" ELSE "white"]
  BY <1>2, Zenon
<1>4. AtomicStep(strong, lost, fnz, kept, entry)
  BY <1>1, <1>2, <1>3 DEF AtomicStep
<1> QED BY <1>4

\* atomic: what it keeps is closed under the references that it leaves.
LEMMA AtomicKeeps == ASSUME GCInv, Atomic PROVE GCInv'
<1>1. GCType /\ HeapTyped /\ LiveClosed /\ NoneDead /\ FinalizersKept /\ GrayListed /\ NeverBlack
      /\ BlackRefers
  BY DEF GCInv
<1>2. gcstate = "propagate" /\ gray = {} /\ late' = {}
      /\ UNCHANGED <<kind, open, alive, gray, called, strsize, full>>
  BY DEF Atomic
<1>31. PICK strong, lost, fnz, kept, entry : AtomicStep(strong, lost, fnz, kept, entry)
  BY AtomicIs
<1>3. /\ strong = Reached({o \in alive : ~ IsWhite(o, color)}, {})
      /\ lost = Lost(strong) /\ fnz = Elements(tobefnz \o lost)
      /\ kept = Reached(strong \cup fnz, fnz)
      /\ entry = [h \in kept |-> Cleaned(h, strong, kept)]
      /\ Separate(lost)
      /\ ref' = [o \in DOMAIN ref |-> IF o \in kept THEN entry[o] ELSE ref[o]]
      /\ color' = [o \in Objects |->
             IF o \in kept \cup WeakStrings(kept, entry) THEN Done(o)
             ELSE IF color[o] = "white" /\ o \in alive THEN "dead" ELSE "white"]
      /\ EnterSweep(alive \ fnz)
  BY <1>31 DEF AtomicStep
<1>4. alive = Live /\ alive \subseteq Objects
  BY <1>1, <1>2 DEF NoneDead, Live, GCType
<1> PICK marked : marked = {o \in alive : ~ IsWhite(o, color)}
  OBVIOUS
<1>5. marked \subseteq strong /\ strong \subseteq alive
  <2>1. marked \subseteq alive /\ alive \subseteq Live
    BY <1>3, <1>4
  <2> QED BY <1>1, <1>3, <2>1, ReachedClosed
\* The lists.
<1>6. /\ lost \in Seq(Objects) /\ Elements(lost) = Elements(finobj) \ strong
      /\ NoRepeats(finobj) => NoRepeats(lost)
  BY <1>1, <1>3, WithoutIs DEF Lost, GCType
<1>7. /\ finobj' \in Seq(Objects) /\ Elements(finobj') = Elements(finobj) \ Elements(lost)
      /\ NoRepeats(finobj) => NoRepeats(finobj')
  BY <1>1, <1>3, WithoutIs DEF Separate, GCType
<1>8. Elements(lost) \cap Waiting = {}
  BY <1>1, <1>6 DEF FinalizersKept
<1>9. /\ tobefnz' \in Seq(Objects) /\ fnz = Waiting \cup Elements(lost) /\ Waiting' = fnz
      /\ NoRepeats(tobefnz')
  <2>1. tobefnz' = tobefnz \o lost /\ tobefnz \in Seq(Objects)
    BY <1>1, <1>3 DEF Separate, GCType
  <2>2. Elements(tobefnz) \cap Elements(lost) = {} /\ NoRepeats(tobefnz) /\ NoRepeats(lost)
    BY <1>1, <1>6, <1>8 DEF FinalizersKept, Waiting
  <2> PICK c : c = tobefnz \o lost
    OBVIOUS
  <2>3. lost \in Seq(Objects) /\ tobefnz \in Seq(Objects)
    BY <1>6, <2>1
  <2>4. c \in Seq(Objects) /\ Elements(c) = Elements(tobefnz) \cup Elements(lost) /\ NoRepeats(c)
    BY <2>2, <2>3, ConcatLists
  <2>5. tobefnz' = c
    BY <2>1
  <2>6. Waiting' = Elements(tobefnz')
    BY DEF Waiting
  <2> QED BY <1>3, <2>4, <2>5, <2>6 DEF Waiting
<1>10. fnz \subseteq alive /\ \A o \in fnz : kind[o] = "udata"
  BY <1>1, <1>4, <1>6, <1>9 DEF LiveClosed, FinalizersKept
<1>11. /\ strong \cup fnz \subseteq kept /\ kept \subseteq alive
       /\ \A o \in kept \cup {Main} : o = Main \/ (color[o] # "black" /\ o \notin late) \/ o \in fnz
                 => (Children(o, kept \cup {Nil, Main}) \cap Objects) \subseteq kept
  <2> PICK T : T = strong \cup fnz
    OBVIOUS
  <2>1. T \subseteq alive /\ alive \subseteq Live /\ kept = Reached(T, fnz)
    BY <1>3, <1>4, <1>5, <1>10
  <2>2. T \subseteq kept /\ kept \subseteq alive /\ TraversedWithin(kept, fnz)
    BY <1>1, <2>1, ReachedClosed
  <2> QED BY <2>2 DEF TraversedWithin
\* The entries.
<1>12. /\ DOMAIN ref' = Objects \cup {Main}
       /\ \A o \in kept : ref'[o] = Cleaned(o, strong, kept) /\ entry[o] = ref'[o]
       /\ \A o \in Objects \cup {Main} : o \notin kept => ref'[o] = ref[o]
  <2>1. /\ DOMAIN ref = Objects \cup {Main}
        /\ ref' = [o \in DOMAIN ref |-> IF o \in kept THEN entry[o] ELSE ref[o]]
        /\ entry = [h \in kept |-> Cleaned(h, strong, kept)]
    BY <1>1, <1>3 DEF GCType
  <2>2. kept \subseteq Objects
    BY <1>4, <1>11
  <2> QED BY <2>1, <2>2
<1>13. ASSUME NEW o \in Objects \cup {Main}
       PROVE  /\ ~ Is(o, Tables) => ref'[o] = ref[o]
              /\ ref'[o] = ref[o] \/ ref'[o] = <<Nil, Nil>> \/ ref'[o] = <<ref[o][1], Nil>>
              /\ ref'[o][2] # Nil => ref'[o] = ref[o]
              /\ ref'[o][2] # Nil /\ o \in kept =>
                   /\ Is(o, {"weakvalue", "allweak"}) \/ o \in late => ~ Cleared(ref[o][2], kept)
                   /\ Is(o, {"ephemeron", "allweak"}) => ~ Cleared(ref[o][1], kept)
  <2>1. CASE o \in kept
    <3>1. o \in Objects /\ strong \subseteq kept
      BY <1>4, <1>11, <2>1
    <3>2. ref'[o] = Cleaned(o, strong, kept)
      BY <1>12, <2>1
    <3> QED BY <1>1, <3>1, <3>2, CleanedIs
  <2>2. CASE o \notin kept
    BY <1>12, <2>2
  <2> QED BY <2>1, <2>2
<1>14. \A o \in Objects \cup {Main} : /\ ref'[o] \in (Objects \cup {Nil}) \X (Objects \cup {Nil})
                                      /\ ref'[o][1] = ref[o][1] \/ ref'[o][1] = Nil
                                      /\ ref'[o][2] = ref[o][2] \/ ref'[o][2] = Nil
  <2> TAKE o \in Objects \cup {Main}
  <2>1. /\ ref[o] \in (Objects \cup {Nil}) \X (Objects \cup {Nil}) /\ Nil \in Objects \cup {Nil}
        /\ ref[o][1] \in Objects \cup {Nil}
    BY <1>1, FieldsAre DEF GCType
  <2>2. CASE ref'[o] = ref[o]
    BY <2>1, <2>2
  <2>3. CASE ref'[o] = <<Nil, Nil>>
    BY <2>1, <2>3
  <2>4. CASE ref'[o] = <<ref[o][1], Nil>>
    BY <2>1, <2>4
  <2> QED BY <1>13, <2>2, <2>3, <2>4
<1> PICK ws : ws = WeakStrings(kept, entry)
  OBVIOUS
<1>15. ws \subseteq alive /\ \A s \in ws : kind[s] = "string"
  <2> SUFFICES ASSUME NEW s \in ws PROVE s \in alive /\ kind[s] = "string"
    OBVIOUS
  <2>1. PICK t \in kept : /\ Is(t, {"allweak"}) \/ t \in late
                          /\ entry[t][2] # Nil /\ s \in {entry[t][1], entry[t][2]}
                          /\ Is(s, {"string"})
    BY DEF WeakStrings
  <2>2. t \in Live /\ t \in Objects /\ ref'[t] = ref[t] /\ entry[t] = ref[t]
    BY <1>4, <1>11, <1>12, <1>13, <2>1
  <2>3. Is(t, Tables)
    BY <1>1, <2>1 DEF GrayListed, Is, Tables
  <2>4. s \in Refs(t)
    BY <1>1, <2>1, <2>2, <2>3, RefsAre, Distinct DEF Is
  <2> QED BY <1>1, <1>4, <2>1, <2>2, <2>4 DEF LiveClosed, Is
<1>16. \A o \in Objects : color'[o] = IF o \in kept \cup ws THEN Done(o)
                                      ELSE IF color[o] = "white" /\ o \in alive THEN "dead" ELSE "white"
  BY <1>3
<1>17. \A o : Done(o) = "gray" \/ Done(o) = "black"
  BY DEF Done
<1>18. \A o \in alive : o \in kept \/ color[o] = "white"
  BY <1>1, <1>3, <1>4, <1>5, <1>11 DEF IsWhite, Live, GCType, Colours
<1>19. Live' = kept \cup ws
  <2>1. \A o \in kept \cup ws : o \in Objects /\ o \in alive
    BY <1>4, <1>11, <1>15
  <2> QED BY <1>2, <1>4, <1>16, <1>17, <1>18, <2>1 DEF Live
<1>20. GCType'
  <2>1. color' \in [Objects -> Colours]
    BY <1>3, <1>17 DEF Colours
  <2>2. /\ gcstate' = "sweepstring" /\ sweepstrgc' = 0 /\ tosweep' \subseteq Objects
        /\ finalized' = finalized \cup Elements(lost)
    BY <1>3, <1>4 DEF EnterSweep, Separate
  <2>3. Elements(lost) \subseteq Objects
    BY <1>4, <1>9, <1>10
  <2> QED BY <1>1, <1>2, <1>7, <1>9, <1>12, <1>14, <2>1, <2>2, <2>3 DEF GCType, Sweeps
<1>21. HeapTyped'
  <2>1. Storable' = Storable /\ Nil \in Storable
    BY <1>2 DEF Storable
  <2>2. ASSUME NEW x \in Objects PROVE FieldsTyped(x)'
    <3>1. CASE ~ Is(x, Tables)
      <4>1. ref'[x] = ref[x]
        BY <1>13, <3>1
      <4> QED BY <1>1, <1>2, <4>1, SameFields DEF HeapTyped
    <3>2. CASE Is(x, Tables)
      <4>1. kind[x] = "strong" \/ kind[x] = "weakvalue" \/ kind[x] = "ephemeron" \/ kind[x] = "allweak"
        BY <3>2, KindsOf
      <4>2. ref[x][1] \in Storable /\ ref[x][2] \in Storable
        BY <1>1, <3>2 DEF HeapTyped, FieldsTyped
      <4>3. ref'[x][1] \in Storable /\ ref'[x][2] \in Storable
        BY <1>14, <2>1, <4>2
      <4> QED BY <1>2, <2>1, <4>1, <4>3 DEF FieldsTyped
    <3> QED BY <3>1, <3>2
  <2>3. ref'[Main] = ref[Main]
    BY <1>13, Distinct DEF Is
  <2>4. ASSUME NEW x \in Objects, x \notin alive
        PROVE  ref'[x] = <<Nil, Nil>> /\ open'[x] = Nil /\ color'[x] = "white"
    <3>1. x \notin kept \cup ws
      BY <1>11, <1>15, <2>4
    <3> QED BY <1>1, <1>2, <1>12, <1>16, <2>4, <3>1 DEF HeapTyped
  <2>5. ASSUME NEW x \in Objects, open[x] # Nil
        PROVE  /\ kind[x] = "upval" /\ ref'[x] = <<Nil, Nil>>
               /\ open[x] = Main \/ (open[x] \in alive /\ kind[open[x]] = "thread")
    <3>1. /\ kind[x] = "upval" /\ ref[x] = <<Nil, Nil>>
          /\ open[x] = Main \/ (open[x] \in alive /\ kind[open[x]] = "thread")
      BY <1>1, <2>5 DEF HeapTyped
    <3>2. ~ Is(x, Tables)
      BY <3>1, KindsOf
    <3> QED BY <1>13, <3>1, <3>2
  <2>6. \A x \in alive : kind[x] # "unused" /\ (kind[x] = "closure" => ref'[x][1] # Nil)
    <3> TAKE x \in alive
    <3>1. x \in Objects /\ kind[x] # "unused" /\ (kind[x] = "closure" => ref[x][1] # Nil)
      BY <1>1, <1>4 DEF HeapTyped
    <3>2. kind[x] = "closure" => ref'[x] = ref[x]
      BY <1>13, <3>1, KindsOf
    <3> QED BY <3>1, <3>2
  <2> QED BY <1>1, <1>2, <2>1, <2>2, <2>3, <2>4, <2>5, <2>6 DEF HeapTyped
<1>22. ASSUME NEW o \in kept \cup ws \cup {Main} PROVE Refs(o)' \subseteq kept \cup ws
  <2>1. o \in Objects \cup {Main} /\ (o # Main => o \in alive /\ o \in Objects)
    BY <1>4, <1>11, <1>15
  <2>2. \A types : Is(o, types)' = Is(o, types)
    BY <1>2 DEF Is
  <2>3. Refs(o) \cap Objects = Refs(o) /\ \A N : Children(o, N) \subseteq Refs(o) \cup {Nil}
    BY <1>1, <2>1, RefsAre, ChildrenAre
  \* What is no table keeps its references; they are reached or were marked.
  <2>4. CASE ~ Is(o, Tables)
    <3>1. Refs(o)' = Refs(o)
      <4>1. ref'[o] = ref[o] /\ open' = open
        BY <1>2, <1>13, <2>1, <2>4
      <4>2. Is(o, {"upval"}) /\ open[o] # Nil => ref'[open[o]] = ref[open[o]]
        <5> SUFFICES ASSUME Is(o, {"upval"}), open[o] # Nil PROVE ref'[open[o]] = ref[open[o]]
          OBVIOUS
        <5>1. open[o] = Main \/ (open[o] \in alive /\ kind[open[o]] = "thread")
          BY <1>1 DEF HeapTyped, Is
        <5>2. ~ Is(open[o], Tables) /\ open[o] \in Objects \cup {Main}
          BY <1>4, <5>1, KindsOf, Distinct
        <5> QED BY <1>13, <5>2
      <4>3. Is(o, {"upval"}) => Value(o)' = Value(o)
        BY <4>1, <4>2 DEF Value
      <4> QED BY <2>2, <2>4, <4>1, <4>3 DEF Refs
    <3>2. CASE o = Main
      <4>1. Refs(o) \subseteq Children(o, kept \cup {Nil, Main})
        BY <1>1, <2>1, <3>2, ChildrenAre
      <4> QED BY <1>11, <2>3, <3>1, <3>2, <4>1
    <3>3. CASE o \in ws
      <4>1. Is(o, {"string"})
        BY <1>4, <1>15, <3>3 DEF Is
      <4> QED BY <1>1, <2>1, <3>1, <4>1, RefsAre
    <3>4. CASE o # Main /\ o \in kept /\ (color[o] # "black" \/ o \in fnz)
      <4>1. kind[o] = "udata" \/ kind[o] = "closure" \/ kind[o] = "upval" \/ kind[o] = "string"
            \/ kind[o] = "thread"
        BY <1>1, <2>1, <2>4, <3>4, KindsOf DEF GCType, HeapTyped, Types, Tables
      <4>2. Refs(o) \subseteq Children(o, kept \cup {Nil, Main})
        BY <1>1, <2>1, <4>1, ChildrenAre
      <4>3. o \notin late
        BY <1>1, <2>4 DEF GrayListed, Is, Tables
      <4> QED BY <1>11, <2>3, <3>1, <3>4, <4>2, <4>3
    <3>5. CASE o # Main /\ color[o] = "black"
      <4>1. \A v \in Refs(o) : ~ IsWhite(v, color) /\ v \in alive
        BY <1>1, <1>2, <1>4, <2>1, <3>5 DEF BlackRefers, LiveClosed
      <4> QED BY <1>3, <1>5, <1>11, <3>1, <4>1
    <3> QED BY <3>2, <3>3, <3>4, <3>5
  \* A table that was cleared has an empty entry.
  <2>5. CASE Is(o, Tables) /\ ref'[o][2] = Nil
    BY <2>2, <2>5 DEF Refs
  <2>6. CASE Is(o, Tables) /\ ref'[o][2] # Nil
    <3> PICK k, v : k = ref[o][1] /\ v = ref[o][2]
      OBVIOUS
    <3>1. ref'[o] = ref[o] /\ o \in Objects /\ v # Nil
      BY <1>13, <2>1, <2>6 DEF Is
    <3>2. Refs(o)' = {k, v} \ {Nil} /\ Refs(o) = {k, v} \ {Nil} /\ ~ Is(o, {"upval"})
      <4>1. ~ Is(o, {"upval"})
        BY <2>6, KindsOf DEF Is
      <4> QED BY <2>2, <2>6, <3>1, <4>1 DEF Refs
    <3>3. o \in kept
      BY <1>15, <2>1, <2>6, <3>1, KindsOf, Distinct
    <3>4. k \in Objects \cup {Nil} /\ v \in Objects
      BY <1>1, <2>1, <3>1, FieldsAre
    <3>5. /\ Is(o, {"weakvalue", "allweak"}) \/ o \in late => v \in kept \/ Is(v, {"string"})
          /\ Is(o, {"ephemeron", "allweak"}) => k = Nil \/ k \in kept \/ Is(k, {"string"})
      BY <1>13, <2>6, <3>1, <3>3, <3>4 DEF Cleared
    <3>6. o \notin fnz
      BY <1>10, <2>6, KindsOf
    <3>7. CASE Is(o, {"allweak"}) \/ o \in late
      <4>1. /\ Is(v, {"string"}) => v \in ws
            /\ Is(k, {"string"}) => k \in ws
        BY <1>12, <3>1, <3>3, <3>7 DEF WeakStrings
      <4>2. Is(o, {"weakvalue", "allweak"}) \/ o \in late
        BY <3>7 DEF Is
      <4>3. Is(o, {"ephemeron", "allweak"})
        BY <1>1, <3>7 DEF Is, GrayListed
      <4> QED BY <3>2, <3>5, <4>1, <4>2, <4>3
    <3>8. CASE ~ Is(o, {"allweak"}) /\ o \notin late /\ color[o] = "black"
      <4>1. \A x \in Refs(o) : ~ IsWhite(x, color) /\ x \in alive
        BY <1>1, <1>2, <1>4, <1>11, <3>3, <3>8 DEF BlackRefers, LiveClosed
      <4> QED BY <1>3, <1>5, <1>11, <3>2, <4>1
    <3>9. CASE ~ Is(o, {"allweak"}) /\ o \notin late /\ color[o] # "black"
      <4>1. (Children(o, kept \cup {Nil, Main}) \cap Objects) \subseteq kept
        BY <1>11, <3>3, <3>9
      <4>2. kind[o] = "strong" \/ kind[o] = "weakvalue" \/ kind[o] = "ephemeron"
        BY <2>6, <3>9, KindsOf DEF Is
      <4>3. ~ Is(o, {"udata", "closure"}) /\ ~ Is(o, {"upval"}) /\ ~ Is(o, {"string", "allweak"})
        BY <4>2 DEF Is
      <4>4. CASE kind[o] = "strong"
        <5>1. Refs(o) \subseteq Children(o, kept \cup {Nil, Main})
          BY <1>1, <3>1, <4>4, ChildrenAre
        <5> QED BY <2>3, <3>2, <4>1, <5>1
      <4>5. CASE kind[o] = "weakvalue"
        <5>1. Is(o, {"weakvalue", "allweak"})
          BY <3>1, <4>5 DEF Is
        <5>2. {k} \cup StringsOf(o) \subseteq Children(o, kept \cup {Nil, Main})
          BY <3>1, <4>5, WeakChildren
        <5>3. v \in kept \/ v \in StringsOf(o)
          BY <3>5, <5>1 DEF StringsOf
        <5> QED BY <3>2, <3>4, <4>1, <5>2, <5>3
      <4>6. CASE kind[o] = "ephemeron"
        <5>1. Is(o, {"ephemeron"}) /\ Is(o, {"ephemeron", "allweak"}) /\ ~ Is(o, {"weakvalue"})
          BY <3>1, <4>6 DEF Is
        <5>2. k \in kept \cup {Nil, Main} \/ Is(k, {"string"})
          BY <3>5, <5>1
        <5>3. Refs(o) \subseteq Children(o, kept \cup {Nil, Main})
          BY <3>1, <3>2, <4>6, <5>2, WeakChildren
        <5> QED BY <2>3, <3>2, <4>1, <5>3
      <4> QED BY <4>2, <4>4, <4>5, <4>6
    <3> QED BY <3>7, <3>8, <3>9
  <2> QED BY <2>4, <2>5, <2>6
<1>23. LiveClosed'
  <2>1. \A o \in Live' \cup {Main} : Refs(o)' \subseteq Live'
    BY <1>19, <1>22
  <2>2. Waiting' \subseteq Live'
    BY <1>9, <1>11, <1>19
  <2>3. Elements(finobj') \subseteq Live'
    BY <1>6, <1>7, <1>11, <1>19
  <2> QED BY <2>1, <2>2, <2>3 DEF LiveClosed
<1>24. SweepWaits'
  <2> SUFFICES ASSUME NEW x \in alive, x \notin fnz
               PROVE  x \in Unswept'
    BY <1>2, <1>9 DEF SweepWaits
  <2>1. /\ gcstate' = "sweepstring" /\ sweepstrgc' = 0 /\ strsize' \in Nat \ {0}
        /\ tosweep' = {o \in alive \ fnz : kind[o] # "string" /\ open[o] = Nil}
    BY <1>1, <1>2, <1>3 DEF EnterSweep, GCType
  <2>2. CASE kind[x] = "string"
    <3>1. StrHash[x] \in Nat
      BY <1>4, LuaGCAssumption
    <3>2. StrHash[x] % strsize' >= 0
      BY <2>1, <3>1
    <3> QED BY <1>2, <2>1, <2>2, <3>2 DEF Unswept, Sweeps
  <2>3. CASE kind[x] # "string" /\ open[x] = Nil
    BY <1>2, <2>1, <2>3 DEF Unswept, Sweeps
  <2>4. CASE open[x] # Nil
    <3>1. open[x] = Main \/ (open[x] \in alive /\ kind[open[x]] = "thread")
      BY <1>1, <1>4, <2>4 DEF HeapTyped
    <3>2. open[x] # Main => open[open[x]] = Nil
      <4>1. \A y \in Objects : open[y] # Nil => kind[y] = "upval"
        BY <1>1 DEF HeapTyped
      <4> QED BY <1>4, <3>1, <4>1
    <3>3. open[x] = Main \/ open[x] \in tosweep'
      BY <1>10, <2>1, <3>1, <3>2
    <3> QED BY <1>2, <2>1, <2>4, <3>3 DEF Unswept, Sweeps
  <2> QED BY <2>2, <2>3, <2>4
<1>25. NoneDead' /\ BlackRefers'
  BY <1>3 DEF NoneDead, BlackRefers, EnterSweep
<1>26. NeverBlack'
  <2> SUFFICES ASSUME NEW x \in Objects, color'[x] = "black"
               PROVE  /\ kind[x] \in {"strong", "udata", "closure", "upval", "string"}
                      /\ open[x] = Nil
    BY <1>2 DEF NeverBlack
  <2>1. x \in alive /\ Done(x) = "black"
    BY <1>11, <1>15, <1>16
  <2> QED BY <1>1, <2>1, DoneBlack
<1>27. GrayListed'
  BY <1>2 DEF GrayListed
<1>28. FinalizersKept'
  <2>1. finalized' = finalized \cup Elements(lost) /\ called' = called
    BY <1>2, <1>3 DEF Separate
  <2>2. Elements(lost) \subseteq Elements(finobj) /\ Elements(lost) \subseteq alive
    BY <1>6, <1>9, <1>10
  <2>3. \A o \in Elements(finobj) : kind[o] = "udata" /\ o \notin finalized
    BY <1>1 DEF FinalizersKept
  <2>4. NoRepeats(finobj') /\ NoRepeats(tobefnz')
    BY <1>1, <1>7, <1>9 DEF FinalizersKept
  <2>5. \A o \in Elements(finobj') : kind'[o] = "udata" /\ o \notin finalized'
    BY <1>2, <1>7, <2>1, <2>3
  <2>6. \A o \in Waiting' : kind'[o] = "udata" /\ o \in finalized'
    BY <1>1, <1>2, <1>9, <1>10, <2>1 DEF FinalizersKept
  <2>7. finalized' \subseteq alive' /\ \A o \in finalized' : kind'[o] = "udata"
    BY <1>1, <1>2, <2>1, <2>2, <2>3 DEF FinalizersKept
  <2>8. \A o \in Objects : called'[o] = IF o \in finalized' /\ o \notin Waiting' THEN 1 ELSE 0
    BY <1>1, <1>9, <2>1, <2>2, <2>3 DEF FinalizersKept
  <2> QED BY <2>4, <2>5, <2>6, <2>7, <2>8 DEF FinalizersKept
<1> QED BY <1>20, <1>21, <1>23, <1>24, <1>25, <1>26, <1>27, <1>28 DEF GCInv

-----------------------------------------------------------------------------
(* The program stores. *)

\* Object p, or the main thread, is given new fields.
Write(p, k, v) ==
    /\ DOMAIN ref' = Objects \cup {Main}
    /\ \A x \in Objects \cup {Main} : ref'[x] = IF x = p THEN <<k, v>> ELSE ref[x]

\* What the barriers do to colours, and an allocation: nothing is dead that was
\* not, what becomes black refers to marked objects; while the collector marks
\* no object loses its mark, and at other times objects only become white.
Recoloured(p) ==
    /\ color' \in [Objects -> Colours]
    /\ \A x \in Objects : color'[x] = "black" /\ color[x] # "black" =>
          /\ x # p /\ open[x] = Nil
          /\ kind[x] = "udata" \/ kind[x] = "upval" \/ kind[x] = "string"
          /\ \A v \in Refs(x) : Marked(v, color')
    /\ \A x \in Objects : color'[x] = "dead" => color[x] = "dead"
    /\ \A x \in Objects \ alive : color'[x] = "white"
    /\ gcstate = "propagate" => \A x \in Objects : Marked(x, color) => Marked(x, color')
    /\ gcstate # "propagate" => \A x \in Objects : color'[x] # "white" => color[x] # "white"
    /\ gray' \subseteq gray \cup Live /\ (gcstate # "propagate" => gray' = gray)

\* What the lists are after the step.
ListsKept ==
    /\ finobj' \in Seq(Objects) /\ tobefnz' \in Seq(Objects)
    /\ finalized' \subseteq Objects /\ called' \in [Objects -> Nat] /\ tosweep' \subseteq Objects
    /\ FinalizersKept' /\ Waiting' \subseteq Waiting /\ Elements(finobj') \subseteq Live'
    /\ gcstate # "propagate" =>
          /\ \A y \in tosweep : y \in tosweep' \/ (kind[y] = "udata" /\ color'[y] = "white")
          /\ \A y \in Waiting : y \in Waiting' \/ color'[y] = "white"

LEMMA LiveStays ==
    ASSUME GCType, NEW p, Recoloured(p), alive \subseteq alive'
    PROVE  Live \subseteq Live'
BY DEF Live, Recoloured, GCType

LEMMA ListsSame ==
    ASSUME GCInv, UNCHANGED <<kind, fin, tosweep>>, NEW p, Recoloured(p), alive \subseteq alive'
    PROVE  ListsKept
<1>1. UNCHANGED <<finobj, tobefnz, finalized, called>>
  BY DEF fin
<1>2. FinalizersKept /\ GCType /\ LiveClosed
  BY DEF GCInv
<1>3. FinalizersKept'
  BY <1>2, FinalizersSame DEF FinalizersKept
<1>4. Live \subseteq Live'
  BY <1>2, LiveStays
<1> QED BY <1>1, <1>2, <1>3, <1>4 DEF ListsKept, GCType, LiveClosed, Waiting

\* A write changes what p refers to and, if p is a thread, its upvalues.
LEMMA WriteRefs ==
    ASSUME GCType, HeapTyped, UNCHANGED <<kind, open>>, NEW p \in Objects \cup {Main},
           NEW k \in Objects \cup {Nil}, NEW v \in Objects \cup {Nil}, Write(p, k, v),
           NEW x \in Objects \cup {Main}
    PROVE  /\ Refs(x)' \subseteq Refs(x) \cup ({k, v} \ {Nil})
           /\ x # p /\ (x \in Objects => open[x] # p) => Refs(x)' = Refs(x) /\ ref'[x] = ref[x]
<1>1. \A types : Is(x, types)' = Is(x, types)
  BY DEF Is
<1>2. \A y \in Objects \cup {Main} : ref'[y] = IF y = p THEN <<k, v>> ELSE ref[y]
  BY DEF Write
<1>3. CASE Is(x, {"upval"})
  <2>1. x \in Objects /\ ~ Is(x, Tables)
    BY <1>3, KindsOf DEF Is
  <2>2. Refs(x)' = {Value(x)'} \ {Nil} /\ Refs(x) = {Value(x)} \ {Nil}
    BY <1>1, <1>3, <2>1 DEF Refs
  <2>3. open[x] \in Objects \cup {Main, Nil}
    BY <2>1 DEF GCType
  <2>4. CASE open[x] = Nil
    BY <1>2, <2>1, <2>2, <2>4, Distinct DEF Value
  <2>5. CASE open[x] # Nil
    BY <1>2, <2>1, <2>2, <2>3, <2>5 DEF Value
  <2> QED BY <2>4, <2>5
<1>4. CASE ~ Is(x, {"upval"})
  <2>1. CASE x = p
    <3>1. ref'[x] = <<k, v>>
      BY <1>2, <2>1
    <3>2. ref'[x][1] = k /\ ref'[x][2] = v
      BY <3>1
    <3> QED BY <1>1, <1>4, <2>1, <3>2 DEF Refs
  <2>2. CASE x # p
    BY <1>1, <1>2, <1>4, <2>2 DEF Refs
  <2> QED BY <2>1, <2>2
<1> QED BY <1>3, <1>4

\* A store of what is not dead, with the barrier that it needs.
LEMMA StoreKeeps ==
    ASSUME GCInv, NEW p, NEW k \in Objects \cup {Nil}, NEW v \in Objects \cup {Nil},
           Write(p, k, v), Recoloured(p), ListsKept,
           UNCHANGED <<kind, open, gcstate, sweepstrgc, late>>,
           p = Main \/ p \in alive, p \in Objects => kind[p] # "closure",
           p = Main => k \in Storable /\ v \in Storable,
           p # Main => FieldsTyped(p)' /\ open[p] = Nil,
           alive \subseteq alive', alive' \subseteq Objects,
           \A x \in alive' \ alive : kind[x] # "unused" /\ kind[x] # "closure",
           \A x \in Live' \ Live : Refs(x) = {},
           k \in Live' \cup {Nil}, v \in Live' \cup {Nil},
           gcstate = "propagate" /\ p \in Objects /\ color'[p] = "black" =>
              ~ IsWhite(k, color') /\ ~ IsWhite(v, color'),
           strsize' \in Nat \ {0}, gcstate = "sweepstring" => strsize' = strsize
    PROVE  GCInv'
<1>1. GCType /\ HeapTyped /\ LiveClosed /\ SweepWaits /\ NoneDead /\ NeverBlack /\ BlackRefers
      /\ GrayListed /\ FinalizersKept
  BY DEF GCInv
<1>2. p \in Objects \cup {Main} /\ alive \subseteq Objects /\ Live \subseteq alive
  BY <1>1 DEF Live, GCType
<1>3. /\ DOMAIN ref' = Objects \cup {Main}
      /\ \A x \in Objects \cup {Main} : ref'[x] = IF x = p THEN <<k, v>> ELSE ref[x]
  BY DEF Write
<1>4. GCType'
  <2>1. \A x \in Objects \cup {Main} : ref'[x] \in (Objects \cup {Nil}) \X (Objects \cup {Nil})
    BY <1>1, <1>3 DEF GCType
  <2>2. gray' \subseteq Objects \cup {Main}
    BY <1>1, <1>2 DEF Recoloured, GCType
  <2> QED BY <1>1, <1>3, <2>1, <2>2 DEF GCType, Recoloured, ListsKept
<1>5. Live \subseteq Live'
  BY <1>1, LiveStays
<1>6. \A x \in Objects \cup {Main} :
         /\ Refs(x)' \subseteq Refs(x) \cup ({k, v} \ {Nil})
         /\ x # p /\ (x \in Objects => open[x] # p) => Refs(x)' = Refs(x) /\ ref'[x] = ref[x]
  BY <1>1, <1>2, WriteRefs
<1>7. HeapTyped'
  <2>1. Storable' = Storable
    BY DEF Storable
  <2>2. ref'[Main][1] \in Storable /\ ref'[Main][2] \in Storable
    <3>1. CASE p = Main
      <4>1. ref'[Main] = <<k, v>>
        BY <1>3, <3>1
      <4> QED BY <3>1, <4>1
    <3>2. CASE p # Main
      BY <1>1, <1>3, <3>2 DEF HeapTyped
    <3> QED BY <3>1, <3>2
  <2>3. ASSUME NEW x \in Objects PROVE FieldsTyped(x)'
    <3>1. CASE x = p
      BY <2>3, <3>1, Distinct
    <3>2. CASE x # p
      <4>1. ref'[x] = ref[x]
        BY <1>3, <3>2
      <4> QED BY <1>1, <4>1, SameFields DEF HeapTyped
    <3> QED BY <3>1, <3>2
  <2>4. ASSUME NEW x \in Objects, x \notin alive'
        PROVE  ref'[x] = <<Nil, Nil>> /\ open'[x] = Nil /\ color'[x] = "white"
    <3>1. x \notin alive /\ x # p
      BY <1>2, <2>4, Distinct
    <3> QED BY <1>1, <1>3, <3>1 DEF HeapTyped, Recoloured
  <2>5. ASSUME NEW x \in Objects, open[x] # Nil
        PROVE  /\ kind[x] = "upval" /\ ref'[x] = <<Nil, Nil>>
               /\ open[x] = Main \/ (open[x] \in alive' /\ kind[open[x]] = "thread")
    <3>1. x # p
      BY <2>5, Distinct
    <3> QED BY <1>1, <1>3, <2>5, <3>1 DEF HeapTyped
  <2>6. \A x \in alive' : kind[x] # "unused" /\ (kind[x] = "closure" => ref'[x][1] # Nil)
    <3> TAKE x \in alive'
    <3>1. CASE x \in alive /\ x # p
      <4>1. x \in Objects /\ kind[x] # "unused" /\ (kind[x] = "closure" => ref[x][1] # Nil)
        BY <1>1, <1>2, <3>1 DEF HeapTyped
      <4> QED BY <1>3, <3>1, <4>1
    <3>2. CASE x \notin alive
      BY <3>2
    <3>3. CASE x = p /\ x \in alive
      BY <1>1, <1>2, <3>3, Distinct DEF HeapTyped
    <3> QED BY <3>1, <3>2, <3>3
  <2> QED BY <1>1, <2>1, <2>2, <2>3, <2>4, <2>5, <2>6 DEF HeapTyped
<1>8. LiveClosed'
  <2>1. ASSUME NEW x \in Live' \cup {Main} PROVE Refs(x)' \subseteq Live'
    <3>1. x \in Objects \cup {Main}
      BY DEF Live
    <3>2. Refs(x) \subseteq Live'
      BY <1>1, <1>5 DEF LiveClosed
    <3> QED BY <1>6, <3>1, <3>2
  <2>2. Waiting' \subseteq Live'
    BY <1>1, <1>5 DEF ListsKept, LiveClosed
  <2> QED BY <2>1, <2>2 DEF LiveClosed, ListsKept
<1>9. SweepWaits'
  <2> SUFFICES ASSUME gcstate # "propagate", NEW x \in alive', color'[x] # "white", x \notin Waiting'
               PROVE  x \in Unswept'
    BY DEF SweepWaits
  <2>1. x \in Objects /\ color[x] # "white" /\ x \in alive
    BY DEF Recoloured
  <2>2. x \notin Waiting
    BY <2>1 DEF ListsKept
  <2>3. x \in Unswept
    BY <1>1, <2>1, <2>2 DEF SweepWaits
  <2>4. CASE x \in tosweep
    BY <2>3, <2>4 DEF Unswept, ListsKept
  <2>5. CASE open[x] # Nil /\ (open[x] = Main \/ open[x] \in tosweep)
    <3>1. open[x] # Main => kind[open[x]] = "thread"
      BY <1>1, <2>1, <2>5 DEF HeapTyped
    <3>2. open[x] = Main \/ open[x] \in tosweep'
      BY <2>5, <3>1 DEF ListsKept
    <3> QED BY <2>3, <2>5, <3>2 DEF Unswept
  <2>6. CASE gcstate = "sweepstring" /\ kind[x] = "string" /\ StrHash[x] % strsize >= sweepstrgc
    BY <2>3, <2>6 DEF Unswept
  <2> QED BY <2>3, <2>4, <2>5, <2>6 DEF Unswept
<1>10. NoneDead'
  <2> SUFFICES ASSUME gcstate = "propagate", NEW x \in alive' PROVE color'[x] # "dead"
    BY DEF NoneDead, Live
  <2>1. x \in Objects
    OBVIOUS
  <2>2. color[x] # "dead"
    BY <1>1, <2>1 DEF NoneDead, Live, HeapTyped
  <2> QED BY <2>1, <2>2 DEF Recoloured
<1>11. NeverBlack'
  <2> SUFFICES ASSUME NEW x \in Objects, color'[x] = "black"
               PROVE  /\ kind[x] \in {"strong", "udata", "closure", "upval", "string"}
                      /\ open[x] = Nil
    BY DEF NeverBlack
  <2>1. CASE color[x] = "black"
    BY <1>1, <2>1 DEF NeverBlack
  <2>2. CASE color[x] # "black"
    BY <2>2 DEF Recoloured
  <2> QED BY <2>1, <2>2
<1>12. BlackRefers'
  <2> SUFFICES ASSUME gcstate = "propagate", NEW x \in alive', color'[x] = "black"
               PROVE  /\ \A w \in Refs(x)' : ~ IsWhite(w, color')
                      /\ kind[x] = "strong" => ~ IsWhite(ref'[x][1], color')
    BY DEF BlackRefers, IsWhite
  <2>1. \A w \in Objects : ~ IsWhite(w, color) => ~ IsWhite(w, color')
    <3> SUFFICES ASSUME NEW w \in Objects, ~ IsWhite(w, color) PROVE ~ IsWhite(w, color')
      OBVIOUS
    <3>1. color[w] \in Colours
      BY <1>1 DEF GCType
    <3>2. Marked(w, color)
      BY <3>1 DEF Colours, IsWhite, Marked
    <3>3. Marked(w, color')
      BY <3>2 DEF Recoloured
    <3> QED BY <3>3 DEF IsWhite, Marked
  <2>2. x \in Objects /\ open[x] = Nil /\ x \in alive
    BY <1>4, <1>11 DEF NeverBlack, Recoloured
  <2>3. Refs(x) \subseteq Objects
    BY <1>1, <2>2, RefsAre
  <2>4. ~ IsWhite(Nil, color) /\ ~ IsWhite(Nil, color')
    BY Distinct DEF IsWhite
  <2>5. ref[x][1] \in Objects \cup {Nil}
    BY <1>1, <2>2, FieldsAre
  <2>6. CASE x = p
    <3>1. color[x] = "black"
      BY <2>2, <2>6 DEF Recoloured
    <3>2. \A w \in Refs(x) : ~ IsWhite(w, color)
      BY <1>1, <2>2, <3>1 DEF BlackRefers
    <3>3. ref'[x] = <<k, v>>
      BY <1>3, <2>2, <2>6
    <3>4. ref'[x][1] = k
      BY <3>3
    <3> QED BY <1>6, <2>1, <2>2, <2>3, <2>6, <3>2, <3>4
  <2>7. CASE x # p
    <3>1. Refs(x)' = Refs(x) /\ ref'[x] = ref[x]
      BY <1>2, <1>6, <2>2, <2>7, Distinct
    <3>2. CASE color[x] = "black"
      <4>1. /\ \A w \in Refs(x) : ~ IsWhite(w, color)
            /\ kind[x] = "strong" => ~ IsWhite(ref[x][1], color)
        BY <1>1, <2>2, <3>2 DEF BlackRefers
      <4> QED BY <2>1, <2>3, <2>4, <2>5, <3>1, <4>1
    <3>3. CASE color[x] # "black"
      <4>1. /\ kind[x] # "strong"
            /\ \A w \in Refs(x) : Marked(w, color')
        BY <2>2, <3>3 DEF Recoloured
      <4> QED BY <3>1, <4>1 DEF Marked, IsWhite
    <3> QED BY <3>2, <3>3
  <2> QED BY <2>6, <2>7
<1>13. GrayListed'
  <2>1. gray' \subseteq alive' \cup {Main}
    BY <1>1, <1>2 DEF GrayListed, Recoloured
  <2> QED BY <1>1, <2>1 DEF GrayListed, Recoloured, Is
<1> QED BY <1>4, <1>7, <1>8, <1>9, <1>10, <1>11, <1>12, <1>13 DEF GCInv, ListsKept

\* A free address refers to nothing.
LEMMA FreeRefs ==
    ASSUME GCType, HeapTyped, NEW x \in Objects, x \notin alive
    PROVE  Refs(x) = {}
<1>1. ref[x] = <<Nil, Nil>> /\ open[x] = Nil
  BY DEF HeapTyped
<1>2. ref[x][1] = Nil /\ ref[x][2] = Nil
  BY <1>1
<1> QED BY <1>1, <1>2 DEF Refs, Value

LEMMA SameColours ==
    ASSUME GCInv, UNCHANGED <<color, gray>>, NEW p
    PROVE  Recoloured(p)
BY DEF GCInv, GCType, HeapTyped, Recoloured, Marked

LEMMA WhitenColours ==
    ASSUME GCInv, UNCHANGED gray, NEW p, NEW d \in Objects, color' = [color EXCEPT ![d] = "white"],
           gcstate = "propagate" => ~ Marked(d, color)
    PROVE  Recoloured(p)
<1>1. color \in [Objects -> Colours] /\ \A x \in Objects \ alive : color[x] = "white"
  BY DEF GCInv, GCType, HeapTyped
<1>2. \A x \in Objects : color'[x] = IF x = d THEN "white" ELSE color[x]
  BY <1>1
<1>3. color' \in [Objects -> Colours]
  BY <1>1 DEF Colours
<1> QED BY <1>1, <1>2, <1>3 DEF Recoloured, Marked

\* After the barrier no black owner refers to a white value.
LEMMA BarrierRecolours ==
    ASSUME GCInv, NEW o \in Objects, NEW v \in Live \cup {Nil}, Barrier(o, v)
    PROVE  /\ Recoloured(o) /\ (color'[o] = "black" => ~ IsWhite(v, color'))
           /\ \A x \in Objects : color'[x] # color[x] => x \in Live \/ x = o
<1>1. GCType /\ HeapTyped /\ LiveClosed /\ Live \subseteq Objects
  BY ReachableLive DEF GCInv
<1>2. CASE color[o] = "black" /\ IsWhite(v, color) /\ Marking
  <2>1. MarkAll({v}, color, gray) /\ gcstate = "propagate"
    BY <1>2 DEF Barrier, Marking
  <2>2. {v} \cap Objects \subseteq Live /\ color \in [Objects -> Colours]
    BY <1>1, Distinct DEF GCType
  <2>3. Marks({v}, color, gray)
    BY <1>1, <2>1, <2>2, MarkAllMarks
  <2>4. \A x \in Objects \ alive : color[x] = "white" /\ x \notin Live
    BY <1>1 DEF HeapTyped, Live
  <2>5. \A x \in Objects : Marked(x, color') => color'[x] # "dead" /\ ~ IsWhite(x, color')
    BY DEF Marked, IsWhite
  <2>6. v \in Objects
    BY <1>2 DEF IsWhite
  <2> QED BY <1>2, <2>1, <2>3, <2>4, <2>5, <2>6 DEF Marks, Recoloured, Marked
<1>3. CASE color[o] = "black" /\ IsWhite(v, color) /\ ~ Marking
  <2>1. color' = [color EXCEPT ![o] = "white"] /\ UNCHANGED gray /\ gcstate # "propagate"
    BY <1>3 DEF Barrier, Marking
  <2>2. color'[o] = "white" /\ \A x \in Objects : x # o => color'[x] = color[x]
    BY <1>1, <2>1 DEF GCType
  <2>3. Recoloured(o)
    BY <2>1, WhitenColours
  <2> QED BY <2>2, <2>3
<1>4. CASE ~ (color[o] = "black" /\ IsWhite(v, color))
  <2>1. UNCHANGED <<color, gray>>
    BY <1>4 DEF Barrier
  <2>2. Recoloured(o)
    BY <2>1, SameColours
  <2> QED BY <1>4, <2>1, <2>2 DEF IsWhite
<1> QED BY <1>2, <1>3, <1>4

LEMMA WriteIs ==
    ASSUME GCType, HeapTyped, NEW p \in Objects \cup {Main}, NEW v
    PROVE  /\ ref' = [ref EXCEPT ![p][1] = v] => Write(p, v, ref[p][2])
           /\ ref' = [ref EXCEPT ![p][2] = v] => Write(p, ref[p][1], v)
<1>1. DOMAIN ref = Objects \cup {Main} /\ ref[p] \in (Objects \cup {Nil}) \X (Objects \cup {Nil})
  BY DEF GCType
<1>2. /\ DOMAIN [ref EXCEPT ![p][1] = v] = Objects \cup {Main}
      /\ \A x \in Objects \cup {Main} :
            [ref EXCEPT ![p][1] = v][x] = IF x = p THEN <<v, ref[p][2]>> ELSE ref[x]
  BY <1>1, WriteField
<1>3. /\ DOMAIN [ref EXCEPT ![p][2] = v] = Objects \cup {Main}
      /\ \A x \in Objects \cup {Main} :
            [ref EXCEPT ![p][2] = v][x] = IF x = p THEN <<ref[p][1], v>> ELSE ref[x]
  BY <1>1, WriteField
<1> QED BY <1>2, <1>3 DEF Write

LEMMA SetTopIs ==
    ASSUME GCType, NEW v
    PROVE  /\ DOMAIN SetTop(v) = Objects \cup {Main}
           /\ \A x \in Objects \cup {Main} : SetTop(v)[x] = IF x = Main THEN <<v, ref[Main][2]>> ELSE ref[x]
<1>1. DOMAIN ref = Objects \cup {Main} /\ ref[Main] \in (Objects \cup {Nil}) \X (Objects \cup {Nil})
  BY DEF GCType
<1>2. Main \in Objects \cup {Main}
  OBVIOUS
<1>3. FieldsWritten(ref, Objects \cup {Main}, Main, v)
  BY <1>1, <1>2, WritesField
<1> QED BY <1>3 DEF SetTop, FieldsWritten

\* What the fields of the main thread hold.
LEMMA MainFields ==
    ASSUME GCInv
    PROVE  /\ ref[Main][1] \in Storable /\ ref[Main][1] \in Live \cup {Nil}
           /\ ref[Main][2] \in Storable /\ ref[Main][2] \in Live \cup {Nil}
           /\ Live \subseteq Objects
<1>1. GCType /\ HeapTyped /\ LiveClosed
  BY DEF GCInv
<1>2. {ref[Main][1], ref[Main][2]} \ {Nil} \subseteq Live
  BY <1>1, RefsAre DEF LiveClosed
<1> QED BY <1>1, <1>2, ReachableLive DEF HeapTyped

\* A result in the first slot of the main thread.
LEMMA SetTopKeeps ==
    ASSUME GCInv, NEW o \in Objects, kind[o] # "upval", kind[o] # "unused", kind[o] # "closure",
           ref' = SetTop(o),
           Recoloured(Main), ListsKept, UNCHANGED <<kind, open, gcstate, sweepstrgc, late>>,
           alive' = alive \cup {o}, color'[o] # "dead",
           o \notin Live => Refs(o) = {}, \A x \in alive : x # o => color'[x] = color[x],
           strsize' \in Nat \ {0}, gcstate = "sweepstring" => strsize' = strsize
    PROVE  GCInv'
<1>1. GCType /\ HeapTyped
  BY DEF GCInv
<1> PICK v : v = ref[Main][2]
  OBVIOUS
<1>2. v \in Storable /\ v \in Live \cup {Nil} /\ Live \subseteq Objects /\ alive \subseteq Objects
  BY <1>1, MainFields DEF GCType
<1>3. Write(Main, o, v)
  BY <1>1, WriteIs DEF SetTop
<1>4. Live \subseteq Live' /\ o \in Live' /\ Live' \subseteq Live \cup {o}
  BY <1>1, LiveStays DEF Live
<1>5. o \in Storable /\ v \in Live' \cup {Nil} /\ v \in Objects \cup {Nil}
  BY <1>2, <1>4 DEF Storable
<1>6. \A x \in alive' \ alive : kind[x] # "unused" /\ kind[x] # "closure"
  OBVIOUS
<1>7. \A x \in Live' \ Live : Refs(x) = {}
  BY <1>4
<1>8. /\ alive \subseteq alive' /\ alive' \subseteq Objects /\ Main \notin Objects
      /\ o \in Objects \cup {Nil} /\ o \in Live' \cup {Nil}
  BY <1>2, <1>4, Distinct
<1> QED BY <1>2, <1>3, <1>5, <1>6, <1>7, <1>8, StoreKeeps

LEMMA NewKeeps == ASSUME GCInv, NEW o \in Objects, New(o) PROVE GCInv'
<1>1. /\ o \notin alive /\ alive' = alive \cup {o} /\ ref' = SetTop(o)
      /\ UNCHANGED <<kind, open, color, gcstate, gray, fin, sweeping, full, late>>
  BY DEF New
<1>2. UNCHANGED <<sweepstrgc, strsize, tosweep>>
  BY <1>1 DEF sweeping
<1>3. kind[o] # "upval" /\ kind[o] # "unused" /\ kind[o] # "closure"
  BY DEF New, Is, Tables
<1>4. GCType /\ HeapTyped
  BY DEF GCInv
<1>5. Recoloured(Main) /\ ListsKept
  <2>1. Recoloured(Main)
    BY <1>1, SameColours
  <2> QED BY <1>1, <1>2, <2>1, ListsSame
<1>6. color'[o] # "dead" /\ Refs(o) = {} /\ strsize' \in Nat \ {0}
  BY <1>1, <1>2, <1>4, FreeRefs DEF HeapTyped, GCType
<1> QED BY <1>1, <1>2, <1>3, <1>5, <1>6, SetTopKeeps

LEMMA InternKeeps == ASSUME GCInv, NEW o \in Objects, Intern(o) PROVE GCInv'
<1>1. /\ o \in alive /\ Is(o, {"string"}) /\ ref' = SetTop(o)
      /\ color' = IF Dead(o) THEN [color EXCEPT ![o] = "white"] ELSE color
      /\ UNCHANGED <<kind, open, alive, gcstate, gray, fin, sweeping, full, late>>
  BY DEF Intern
<1>2. UNCHANGED <<sweepstrgc, strsize, tosweep>> /\ alive' = alive \cup {o}
  BY <1>1 DEF sweeping
<1>3. kind[o] # "upval" /\ kind[o] # "unused" /\ kind[o] # "closure"
  BY <1>1 DEF Is
<1>4. GCType /\ HeapTyped
  BY DEF GCInv
<1>5. Recoloured(Main) /\ ListsKept
  <2>1. Recoloured(Main)
    BY <1>1, SameColours, WhitenColours DEF Dead, Marked
  <2> QED BY <1>1, <1>2, <2>1, ListsSame
<1>6. color'[o] # "dead" /\ Refs(o) = {} /\ strsize' \in Nat \ {0}
      /\ \A x \in alive : x # o => color'[x] = color[x]
  <2>1. Refs(o) = {}
    BY <1>1, <1>4, RefsAre
  <2>2. alive \subseteq Objects /\ color \in [Objects -> Colours]
    BY <1>4 DEF GCType
  <2> QED BY <1>1, <1>2, <1>4, <2>1, <2>2 DEF Dead, GCType
<1> QED BY <1>1, <1>2, <1>3, <1>5, <1>6, SetTopKeeps

\* What lists share when an element goes.
LEMMA TailLists ==
    ASSUME NEW S, NEW s \in Seq(S), s # <<>>
    PROVE  /\ Tail(s) \in Seq(S) /\ Head(s) \in Elements(s) /\ Elements(Tail(s)) \subseteq Elements(s)
           /\ NoRepeats(s) => NoRepeats(Tail(s)) /\ Elements(Tail(s)) = Elements(s) \ {Head(s)}
<1> PICK t : t = Tail(s)
  OBVIOUS
<1>1. /\ t \in Seq(S) /\ Len(s) \in Nat /\ Len(s) # 0 /\ Len(t) = Len(s) - 1 /\ Head(s) = s[1]
      /\ \A i \in 1 .. Len(t) : t[i] = s[i + 1]
  BY HeadTailProperties, EmptySeq
<1>2. DOMAIN t = 1 .. Len(t) /\ DOMAIN s = 1 .. Len(s) /\ 1 \in DOMAIN s
  BY <1>1
<1>3. \A i \in DOMAIN t : i + 1 \in DOMAIN s /\ t[i] = s[i + 1] /\ i + 1 # 1
  BY <1>1, <1>2
<1>4. \A i \in DOMAIN s : i # 1 => i - 1 \in DOMAIN t /\ (i - 1) + 1 = i
  BY <1>1, <1>2
<1>5. Head(s) \in Elements(s) /\ Elements(t) \subseteq Elements(s)
  BY <1>1, <1>2, <1>3 DEF Elements
<1>6. ASSUME NoRepeats(s) PROVE NoRepeats(t) /\ Elements(t) = Elements(s) \ {Head(s)}
  <2>1. NoRepeats(t)
    <3> SUFFICES ASSUME NEW i \in DOMAIN t, NEW j \in DOMAIN t, t[i] = t[j] PROVE i = j
      BY DEF NoRepeats
    <3>1. i + 1 = j + 1
      BY <1>3, <1>6 DEF NoRepeats
    <3> QED BY <1>2, <3>1
  <2>2. Head(s) \notin Elements(t)
    BY <1>1, <1>2, <1>3, <1>6 DEF Elements, NoRepeats
  <2>3. \A x \in Elements(s) : x # Head(s) => x \in Elements(t)
    <3> SUFFICES ASSUME NEW i \in DOMAIN s, s[i] # Head(s) PROVE s[i] \in Elements(t)
      BY DEF Elements
    <3>1. i # 1
      BY <1>1
    <3>2. i - 1 \in DOMAIN t /\ t[i - 1] = s[i]
      BY <1>3, <1>4, <3>1
    <3> QED BY <3>2 DEF Elements
  <2> QED BY <1>5, <2>1, <2>2, <2>3
<1> QED BY <1>1, <1>5, <1>6

LEMMA SetLocalKeeps == ASSUME GCInv, NEW i \in 1 .. 2, NEW v \in Values, SetLocal(i, v) PROVE GCInv'
<1>1. /\ ref' = [ref EXCEPT ![Main][i] = v]
      /\ UNCHANGED <<kind, open, alive, color, gcstate, gray, fin, sweeping, full, late>>
  BY DEF SetLocal
<1>2. UNCHANGED <<sweepstrgc, strsize, tosweep>>
  BY <1>1 DEF sweeping
<1>3. Recoloured(Main)
  BY <1>1, SameColours
<1>4. ListsKept
  BY <1>1, <1>2, <1>3, ListsSame
<1>5. v \in Storable /\ v \in Live \cup {Nil} /\ Live' = Live
  BY <1>1, ValuesLive DEF Live
<1>6. GCType /\ HeapTyped
  BY DEF GCInv
<1> PICK a, b : a = ref[Main][1] /\ b = ref[Main][2]
  OBVIOUS
<1>7. a \in Storable /\ b \in Storable /\ a \in Live \cup {Nil} /\ b \in Live \cup {Nil}
      /\ Live \subseteq Objects
  BY MainFields
<1>8. Write(Main, v, b) \/ Write(Main, a, v)
  <2>1. CASE i = 1
    BY <1>1, <1>6, <2>1, WriteIs
  <2>2. CASE i = 2
    BY <1>1, <1>6, <2>2, WriteIs
  <2> QED BY <2>1, <2>2
<1>9. Main \notin Objects /\ v \in Objects \cup {Nil} /\ a \in Objects \cup {Nil} /\ b \in Objects \cup {Nil}
      /\ alive' = alive /\ alive \subseteq Objects /\ strsize' \in Nat \ {0}
  BY <1>1, <1>2, <1>5, <1>6, <1>7, Distinct DEF GCType
<1>10. CASE Write(Main, v, b)
  BY <1>1, <1>2, <1>3, <1>4, <1>5, <1>7, <1>9, <1>10, StoreKeeps
<1>11. CASE Write(Main, a, v)
  BY <1>1, <1>2, <1>3, <1>4, <1>5, <1>7, <1>9, <1>11, StoreKeeps
<1> QED BY <1>8, <1>10, <1>11

\* A value in the second slot of a thread, which is never black.
LEMMA StackStoreKeeps ==
    ASSUME GCInv, NEW th, NEW v \in Values,
           th = Main \/ (th \in alive /\ kind[th] = "thread"),
           ref' = [ref EXCEPT ![th][2] = v],
           UNCHANGED <<kind, open, alive, color, gcstate, gray, fin, sweeping, full, late>>
    PROVE  GCInv'
<1>1. UNCHANGED <<sweepstrgc, strsize, tosweep>>
  BY DEF sweeping
<1>2. Recoloured(th) /\ ListsKept
  BY <1>1, SameColours, ListsSame
<1>3. v \in Storable /\ v \in Live \cup {Nil} /\ Live' = Live
  BY ValuesLive DEF Live
<1>4. GCType /\ HeapTyped /\ LiveClosed /\ NeverBlack
  BY DEF GCInv
<1>5. th \in Objects \cup {Main} /\ Main \notin Objects /\ alive \subseteq Objects /\ Live \subseteq Objects
      /\ strsize' \in Nat \ {0}
  BY <1>1, <1>4, Distinct DEF GCType, Live
<1> PICK a : a = ref[th][1]
  OBVIOUS
<1>6. Write(th, a, v)
  BY <1>4, <1>5, WriteIs
<1>7. a \in Storable /\ a \in Live \cup {Nil} /\ (th # Main => a = Nil)
  <2>1. CASE th = Main
    BY <2>1, MainFields
  <2>2. CASE th # Main
    <3>1. a = Nil
      BY <1>4, <1>5, <2>2 DEF HeapTyped, FieldsTyped
    <3> QED BY <3>1 DEF Storable
  <2> QED BY <2>1, <2>2
<1>8. th # Main => FieldsTyped(th)' /\ open[th] = Nil /\ kind[th] # "closure" /\ color'[th] # "black"
  <2> SUFFICES ASSUME th # Main
               PROVE  FieldsTyped(th)' /\ open[th] = Nil /\ kind[th] # "closure" /\ color'[th] # "black"
    OBVIOUS
  <2>1. th \in Objects /\ kind[th] = "thread" /\ a = Nil
    BY <1>5, <1>7
  <2>2. ref'[th] = <<a, v>>
    BY <1>5, <1>6 DEF Write
  <2>3. ref'[th][1] = Nil /\ ref'[th][2] = v
    BY <2>1, <2>2
  <2>4. Storable' = Storable /\ ~ Is(th, Tables)'
    BY <2>1 DEF Storable, Is, Tables
  <2>5. FieldsTyped(th)'
    BY <1>3, <2>1, <2>3, <2>4 DEF FieldsTyped
  <2>6. open[th] = Nil /\ color[th] # "black"
    BY <1>4, <2>1 DEF HeapTyped, NeverBlack
  <2> QED BY <2>1, <2>5, <2>6
<1>9. a \in Objects \cup {Nil} /\ v \in Objects \cup {Nil}
  BY <1>3, <1>5, <1>7
<1>10. th \in Objects => th # Main
  BY <1>5
<1> QED BY <1>1, <1>2, <1>3, <1>5, <1>6, <1>7, <1>8, <1>9, <1>10, StoreKeeps

LEMMA SetStackKeeps ==
    ASSUME GCInv, NEW th \in Accessible, NEW v \in Values, SetStack(th, v) PROVE GCInv'
<1>1. th \in alive /\ kind[th] = "thread"
  BY ReachableLive DEF SetStack, Is, Live
<1> QED BY <1>1, StackStoreKeeps DEF SetStack

LEMMA SetUpvalKeeps ==
    ASSUME GCInv, NEW c \in Accessible, NEW v \in Values, SetUpval(c, v) PROVE GCInv'
<1>1. GCType /\ HeapTyped /\ LiveClosed /\ Live \subseteq Objects /\ c \in Live
  BY ReachableLive DEF GCInv
<1> PICK u : u = ref[c][1]
  OBVIOUS
<1>2. /\ Is(c, {"closure"})
      /\ IF open[u] # Nil
         THEN ref' = [ref EXCEPT ![open[u]][2] = v] /\ UNCHANGED <<color, gray>>
         ELSE ref' = [ref EXCEPT ![u][2] = v] /\ Barrier(u, v)
      /\ UNCHANGED <<kind, open, alive, gcstate, fin, sweeping, full, late>>
  BY DEF SetUpval
<1>3. u \in Live /\ kind[u] = "upval" /\ u \in Objects
  <2>1. c \in Objects /\ c \in alive /\ kind[c] = "closure"
    BY <1>1, <1>2 DEF Live, Is
  <2>2. u # Nil /\ (u = Nil \/ Is(u, {"upval"}))
    BY <1>1, <2>1 DEF HeapTyped, FieldsTyped
  <2>3. u \in Refs(c)
    BY <1>1, <1>2, <2>1, <2>2, RefsAre
  <2> QED BY <1>1, <2>2, <2>3 DEF Is, LiveClosed
<1>4. CASE open[u] # Nil
  <2>1. open[u] = Main \/ (open[u] \in alive /\ kind[open[u]] = "thread")
    BY <1>1, <1>3, <1>4 DEF HeapTyped
  <2> QED BY <1>2, <1>4, <2>1, StackStoreKeeps
<1>5. CASE open[u] = Nil
  <2>1. UNCHANGED <<sweepstrgc, strsize, tosweep>> /\ ref' = [ref EXCEPT ![u][2] = v] /\ Barrier(u, v)
    BY <1>2, <1>5 DEF sweeping
  <2>2. v \in Storable /\ v \in Live \cup {Nil}
    BY ValuesLive
  <2>3. /\ Recoloured(u) /\ (color'[u] = "black" => ~ IsWhite(v, color'))
        /\ \A x \in Objects : color'[x] # color[x] => x \in Live \/ x = u
    BY <1>3, <2>1, <2>2, BarrierRecolours
  <2>4. ListsKept
    BY <1>2, <2>1, <2>3, ListsSame
  <2>5. ref[u][1] = Nil
    BY <1>1, <1>3 DEF HeapTyped, FieldsTyped
  <2>6. Write(u, Nil, v)
    BY <1>1, <1>3, <2>1, <2>5, WriteIs
  <2>7. Live \subseteq Live' /\ \A x \in Live' : x \in Live
    <3>1. Live \subseteq Live'
      BY <1>1, <1>2, <2>3, LiveStays
    <3>2. \A x \in Live' : x \in Objects /\ x \in alive /\ color'[x] # "dead"
      BY <1>1, <1>2 DEF Live, GCType
    <3>3. \A x \in Live' : x \in Live
      BY <1>3, <2>3, <3>2 DEF Live
    <3> QED BY <3>1, <3>3
  <2>8. FieldsTyped(u)'
    <3>1. ref'[u] = <<Nil, v>>
      BY <1>3, <2>6 DEF Write
    <3>2. ref'[u][1] = Nil /\ ref'[u][2] = v
      BY <3>1
    <3>3. Storable' = Storable /\ ~ Is(u, Tables)'
      BY <1>2, <1>3 DEF Storable, Is, Tables
    <3> QED BY <1>2, <1>3, <2>2, <3>2, <3>3 DEF FieldsTyped
  <2>9. /\ alive' = alive /\ alive \subseteq Objects /\ u \in alive /\ u # Main
        /\ strsize' \in Nat \ {0} /\ v \in Objects \cup {Nil} /\ ~ IsWhite(Nil, color')
    BY <1>1, <1>2, <1>3, <2>1, <2>2, Distinct DEF GCType, Live, IsWhite
  <2> QED BY <1>2, <1>3, <1>5, <2>1, <2>2, <2>3, <2>4, <2>6, <2>7, <2>8, <2>9, StoreKeeps
<1> QED BY <1>4, <1>5

\* A store in a table, with the backward barrier.  A black table is strong, and
\* then the key of its entry is marked, also when the entry is empty.
LEMMA SetTableKeeps ==
    ASSUME GCInv, NEW t \in Accessible, NEW k \in Values, NEW v \in Values, SetTable(t, k, v)
    PROVE  GCInv'
<1>1. GCType /\ HeapTyped /\ NeverBlack /\ BlackRefers
  BY DEF GCInv
<1>2. t \in Live /\ t \in alive /\ t \in Objects /\ Live \subseteq Objects /\ alive \subseteq Objects
  BY <1>1, ReachableLive DEF Live, GCType
<1>3. /\ Is(t, Tables) /\ ref' = [ref EXCEPT ![t] = <<k, v>>]
      /\ BarrierBack(t, IF k = ref[t][1] THEN {v} ELSE {k, v})
      /\ UNCHANGED <<kind, open, alive, gcstate, fin, sweeping, full, late>>
  BY DEF SetTable
<1>4. UNCHANGED <<sweepstrgc, strsize, tosweep>> /\ strsize' \in Nat \ {0} /\ UNCHANGED gray
  BY <1>1, <1>3 DEF sweeping, GCType, BarrierBack
<1>5. k \in Storable /\ v \in Storable /\ k \in Live \cup {Nil} /\ v \in Live \cup {Nil}
  BY ValuesLive
<1>6. Write(t, k, v)
  BY <1>1, <1>2, <1>3 DEF GCType, Write
<1>7. /\ \A x \in Objects : x # t => color'[x] = color[x]
      /\ color'[t] = color[t] \/ (color[t] = "black" /\ color'[t] = "gray")
      /\ color' \in [Objects -> Colours]
  BY <1>1, <1>2, <1>3 DEF BarrierBack, GCType, Colours
<1>8. color'[t] = "black" =>
         color' = color /\ color[t] = "black" /\ \A x \in (IF k = ref[t][1] THEN {v} ELSE {k, v}) : ~ IsWhite(x, color)
  BY <1>1, <1>2, <1>3 DEF BarrierBack, GCType
<1>9. Recoloured(t)
  <2>1. \A x \in Objects \ alive : color[x] = "white"
    BY <1>1 DEF HeapTyped
  <2> QED BY <1>2, <1>4, <1>7, <2>1 DEF Recoloured, Marked
<1>10. ListsKept
  BY <1>3, <1>4, <1>9, ListsSame
<1>11. ASSUME gcstate = "propagate", color'[t] = "black"
       PROVE  ~ IsWhite(k, color') /\ ~ IsWhite(v, color')
  <2>1. color' = color /\ color[t] = "black" /\ ~ IsWhite(v, color)
    BY <1>8, <1>11
  <2>2. kind[t] = "strong"
    BY <1>1, <1>2, <1>3, <2>1, KindsOf DEF NeverBlack
  <2>3. ~ IsWhite(ref[t][1], color)
    BY <1>1, <1>2, <1>11, <2>1, <2>2 DEF BlackRefers
  <2>4. ~ IsWhite(k, color)
    BY <1>8, <1>11, <2>3
  <2> QED BY <2>1, <2>4
<1>12. FieldsTyped(t)' /\ open[t] = Nil /\ kind[t] # "closure"
  <2>1. ref'[t] = <<k, v>>
    BY <1>2, <1>6 DEF Write
  <2>2. ref'[t][1] = k /\ ref'[t][2] = v
    BY <2>1
  <2>3. Storable' = Storable
    BY <1>3 DEF Storable
  <2>4. kind[t] = "strong" \/ kind[t] = "weakvalue" \/ kind[t] = "ephemeron" \/ kind[t] = "allweak"
    BY <1>3, KindsOf
  <2>5. FieldsTyped(t)'
    BY <1>3, <1>5, <2>2, <2>3, <2>4 DEF FieldsTyped
  <2>6. open[t] = Nil
    BY <1>1, <1>2, <2>4 DEF HeapTyped
  <2> QED BY <2>4, <2>5, <2>6
<1>13. \A x \in Live' : x \in Live
  BY <1>2, <1>3, <1>7 DEF Live
<1>14. Live \subseteq Live'
  BY <1>1, <1>3, <1>9, LiveStays
<1>15. /\ t # Main /\ k \in Objects \cup {Nil} /\ v \in Objects \cup {Nil}
       /\ k \in Live' \cup {Nil} /\ v \in Live' \cup {Nil} /\ alive' = alive
  BY <1>2, <1>3, <1>5, <1>14, Distinct
<1> QED BY <1>2, <1>3, <1>4, <1>6, <1>9, <1>10, <1>11, <1>12, <1>13, <1>15, StoreKeeps

\* A new metatable, and perhaps a place at the head of finobj.
LEMMA SetMetatableKeeps ==
    ASSUME GCInv, NEW d \in Accessible, NEW mt \in Values, NEW gc \in BOOLEAN, SetMetatable(d, mt, gc)
    PROVE  GCInv'
<1>1. GCType /\ HeapTyped /\ LiveClosed /\ FinalizersKept
  BY DEF GCInv
<1>2. d \in Live /\ d \in alive /\ d \in Objects /\ Live \subseteq Objects /\ alive \subseteq Objects
  BY <1>1, ReachableLive DEF Live, GCType
<1> PICK moves : moves = Separates(d, gc)
  OBVIOUS
<1>3. /\ Is(d, {"udata"}) /\ Is(mt, Tables) /\ ref' = [ref EXCEPT ![d][1] = mt]
      /\ finobj' = IF moves THEN <<d>> \o finobj ELSE finobj
      /\ tosweep' = IF moves THEN tosweep \ {d} ELSE tosweep
      /\ IF moves /\ ~ Marking
         THEN color' = [color EXCEPT ![d] = "white"] /\ UNCHANGED gray
         ELSE Barrier(d, mt)
      /\ moves => d \notin finalized /\ d \notin Elements(finobj)
      /\ UNCHANGED <<kind, open, alive, gcstate, tobefnz, finalized, called,
                     sweepstrgc, strsize, full, late>>
  BY DEF SetMetatable, CheckFinalizer, Separates
<1>4. kind[d] = "udata"
  BY <1>3 DEF Is
<1>5. mt \in Live \cup {Nil} /\ mt \in Storable
  BY ValuesLive
<1>6. ref[d][2] = Nil /\ open[d] = Nil
  BY <1>1, <1>2, <1>4 DEF HeapTyped, FieldsTyped
<1>7. Write(d, mt, Nil)
  BY <1>1, <1>2, <1>3, <1>6, WriteIs
<1>8. /\ Recoloured(d) /\ (gcstate = "propagate" /\ color'[d] = "black" => ~ IsWhite(mt, color'))
      /\ \A x \in Objects : color'[x] # color[x] => x \in Live
      /\ moves /\ gcstate # "propagate" => color'[d] = "white"
  <2>1. CASE moves /\ ~ Marking
    <3>1. color' = [color EXCEPT ![d] = "white"] /\ UNCHANGED gray /\ gcstate # "propagate"
      BY <1>3, <2>1 DEF Marking
    <3>2. Recoloured(d)
      BY <1>2, <3>1, WhitenColours
    <3>3. color'[d] = "white" /\ \A x \in Objects : x # d => color'[x] = color[x]
      BY <1>1, <1>2, <3>1 DEF GCType
    <3> QED BY <1>2, <3>1, <3>2, <3>3
  <2>2. CASE ~ (moves /\ ~ Marking)
    <3>1. Barrier(d, mt)
      BY <1>3, <2>2
    <3>2. /\ Recoloured(d) /\ (color'[d] = "black" => ~ IsWhite(mt, color'))
          /\ \A x \in Objects : color'[x] # color[x] => x \in Live \/ x = d
      BY <1>2, <1>5, <3>1, BarrierRecolours
    <3> QED BY <1>2, <2>2, <3>2 DEF Marking
  <2> QED BY <2>1, <2>2
<1>9. Live \subseteq Live'
  BY <1>1, <1>3, <1>8, LiveStays
<1>10. \A x \in Live' : x \in Live
  BY <1>2, <1>3, <1>8 DEF Live
<1>11. /\ finobj' \in Seq(Objects) /\ Elements(finobj') \subseteq Elements(finobj) \cup {d}
       /\ NoRepeats(finobj') /\ (d \in Elements(finobj') /\ d \notin Elements(finobj) => moves)
  <2> PICK one : one = <<d>>
    OBVIOUS
  <2>1. one \in Seq(Objects) /\ Elements(one) = {d} /\ NoRepeats(one)
    <3>1. DOMAIN one = {1} /\ one[1] = d
      OBVIOUS
    <3> QED BY <1>2, <3>1 DEF Elements, NoRepeats
  <2>2. finobj \in Seq(Objects) /\ NoRepeats(finobj)
    BY <1>1 DEF GCType, FinalizersKept
  <2>3. CASE moves
    <3>1. {d} \cap Elements(finobj) = {}
      BY <1>3, <2>3
    <3>2. finobj' = one \o finobj
      BY <1>3, <2>3
    <3>3. /\ one \o finobj \in Seq(Objects) /\ Elements(one \o finobj) = {d} \cup Elements(finobj)
          /\ NoRepeats(one \o finobj)
      <4>1. Elements(one) \cap Elements(finobj) = {}
        BY <2>1, <3>1
      <4>2. one \in Seq(Objects) /\ finobj \in Seq(Objects)
        BY <2>1, <2>2
      <4>3. ListsJoined(Objects, one, finobj)
        BY <4>2, ListsJoin
      <4> QED BY <2>1, <2>2, <4>1, <4>3, Zenon DEF ListsJoined
    <3> QED BY <2>3, <3>2, <3>3, Zenon
  <2>4. CASE ~ moves
    BY <1>3, <2>2, <2>4
  <2> QED BY <2>3, <2>4
<1>12. FinalizersKept'
  <2>1. \A x \in Elements(finobj') : kind[x] = "udata" /\ x \notin finalized
    BY <1>1, <1>3, <1>4, <1>11 DEF FinalizersKept
  <2> QED BY <1>1, <1>3, <1>11, <2>1 DEF FinalizersKept, Waiting
<1>13. ListsKept
  <2>1. Waiting' = Waiting
    BY <1>3 DEF Waiting
  <2>2. Elements(finobj') \subseteq Live'
    BY <1>1, <1>2, <1>9, <1>11 DEF LiveClosed
  <2>3. tosweep' \subseteq Objects /\ finalized' \subseteq Objects /\ called' \in [Objects -> Nat]
        /\ tobefnz' \in Seq(Objects)
    BY <1>1, <1>3 DEF GCType
  <2>4. gcstate # "propagate" =>
          \A y \in tosweep : y \in tosweep' \/ (kind[y] = "udata" /\ color'[y] = "white")
    BY <1>3, <1>4, <1>8
  <2> QED BY <1>11, <1>12, <2>1, <2>2, <2>3, <2>4 DEF ListsKept
<1>14. FieldsTyped(d)'
  <2>1. ref'[d] = <<mt, Nil>>
    BY <1>2, <1>7 DEF Write
  <2>2. ref'[d][1] = mt /\ ref'[d][2] = Nil
    BY <2>1
  <2>3. Metatable(mt)' /\ ~ Is(d, Tables)'
    BY <1>3, <1>4, KindsOf DEF Metatable, Is, Tables
  <2> QED BY <1>3, <1>4, <2>2, <2>3 DEF FieldsTyped
<1>15. /\ d # Main /\ mt \in Objects \cup {Nil} /\ mt \in Live' \cup {Nil} /\ alive' = alive
       /\ strsize' \in Nat \ {0} /\ ~ IsWhite(Nil, color') /\ kind[d] # "closure" /\ strsize' = strsize
  BY <1>1, <1>2, <1>3, <1>4, <1>5, <1>9, Distinct DEF GCType, IsWhite
<1> QED BY <1>2, <1>3, <1>6, <1>7, <1>8, <1>10, <1>13, <1>14, <1>15, StoreKeeps

\* A finalizer is called: its object is in the hands of the program again.
LEMMA FinalizeKeeps == ASSUME GCInv, Finalize PROVE GCInv'
<1>1. GCType /\ HeapTyped /\ LiveClosed /\ FinalizersKept
  BY DEF GCInv
<1> PICK d : d = Head(tobefnz)
  OBVIOUS
<1>2. /\ tobefnz # <<>> /\ color' = IF Marking THEN color ELSE [color EXCEPT ![d] = "white"]
      /\ ref' = SetTop(d) /\ called' = [called EXCEPT ![d] = @ + 1] /\ tobefnz' = Tail(tobefnz)
      /\ UNCHANGED <<kind, open, alive, gcstate, gray, finobj, finalized, sweeping, full, late>>
  BY DEF Finalize
<1>3. /\ tobefnz' \in Seq(Objects) /\ d \in Waiting /\ NoRepeats(tobefnz') /\ Waiting' = Waiting \ {d}
  <2>1. tobefnz \in Seq(Objects) /\ NoRepeats(tobefnz)
    BY <1>1 DEF GCType, FinalizersKept
  <2> QED BY <1>2, <2>1, TailLists DEF Waiting
<1>4. d \in Live /\ d \in alive /\ d \in Objects /\ kind[d] = "udata" /\ d \in finalized
  BY <1>1, <1>3 DEF LiveClosed, Live, GCType, FinalizersKept
<1>5. UNCHANGED <<sweepstrgc, strsize, tosweep>> /\ strsize' \in Nat \ {0} /\ alive' = alive \cup {d}
  BY <1>1, <1>2, <1>4 DEF sweeping, GCType
<1>6. Recoloured(Main)
  BY <1>2, <1>4, SameColours, WhitenColours DEF Marking
<1>7. color'[d] # "dead" /\ (\A x \in alive : x # d => color'[x] = color[x])
      /\ (gcstate # "propagate" => color'[d] = "white")
  BY <1>1, <1>2, <1>4 DEF GCType, Live, Marking
<1>8. called' \in [Objects -> Nat] /\ \A x \in Objects : called'[x] = IF x = d THEN called[d] + 1 ELSE called[x]
  BY <1>1, <1>2, <1>4 DEF GCType
<1>9. FinalizersKept'
  <2>1. called[d] = 0 /\ called'[d] = 1
    BY <1>1, <1>3, <1>4, <1>8 DEF FinalizersKept
  <2>2. \A x \in Objects : called'[x] = IF x \in finalized /\ x \notin Waiting' THEN 1 ELSE 0
    BY <1>1, <1>3, <1>4, <1>8, <2>1 DEF FinalizersKept
  <2> QED BY <1>1, <1>2, <1>3, <2>2 DEF FinalizersKept
<1>10. ListsKept
  <2>1. Elements(finobj') \subseteq Live'
    BY <1>1, <1>2, <1>6, LiveStays DEF LiveClosed
  <2> QED BY <1>1, <1>2, <1>3, <1>5, <1>7, <1>8, <1>9, <2>1 DEF ListsKept, GCType
<1> QED BY <1>2, <1>4, <1>5, <1>6, <1>7, <1>10, SetTopKeeps

\* A full collection gives up a marking: everything is white again, but for what
\* waits for a finalizer.
LEMMA FullGCKeeps == ASSUME GCInv, FullGC PROVE GCInv'
<1>1. GCType /\ HeapTyped /\ LiveClosed /\ SweepWaits /\ NoneDead /\ NeverBlack /\ BlackRefers
      /\ GrayListed /\ FinalizersKept
  BY DEF GCInv
<1>2. late' = {} /\ UNCHANGED <<heap, alive, fin, tosweep, sweepstrgc>>
  BY DEF FullGC
<1>3. UNCHANGED <<kind, ref, open, finobj, tobefnz, finalized, called>> /\ Waiting' = Waiting
  BY <1>2 DEF heap, fin, Waiting
<1>4. FinalizersKept'
  BY <1>1, <1>2, <1>3, FinalizersSame DEF FinalizersKept
<1>5. CASE ~ Marking
  <2>1. UNCHANGED <<gcstate, gray, color, strsize>>
    BY <1>5 DEF FullGC
  <2>2. HeapTyped'
    BY <1>1, <1>2, <2>1, HeapKept DEF HeapTyped
  <2>3. Live' = Live /\ LiveClosed'
    BY <1>1, <1>2, <1>3, <2>1, SameRefs DEF Live, LiveClosed
  <2>4. GCType' /\ SweepWaits' /\ NoneDead' /\ NeverBlack' /\ GrayListed'
    BY <1>1, <1>2, <1>3, <2>1, <2>3 DEF GCType, SweepWaits, Unswept, NoneDead, NeverBlack, GrayListed
  <2>5. BlackRefers'
    BY <1>1, <1>2, <1>3, <2>1, SameRefs DEF BlackRefers, IsWhite
  <2> QED BY <1>4, <2>2, <2>3, <2>4, <2>5 DEF GCInv
<1>6. CASE Marking
  <2>1. /\ gcstate' = "pause" /\ gray' = {} /\ CheckSizes /\ gcstate = "propagate"
        /\ color' = [o \in Objects |-> IF o \in Waiting THEN color[o] ELSE "white"]
    BY <1>6 DEF FullGC, Marking, Waiting
  <2>2. strsize' \in Nat \ {0}
    BY <1>1, <2>1, SizesTyped
  <2>3. Waiting \subseteq Live /\ alive \subseteq Live /\ alive \subseteq Objects /\ Live \subseteq alive
    BY <1>1, <2>1 DEF LiveClosed, NoneDead, GCType, Live
  <2>4. /\ color' \in [Objects -> Colours]
        /\ \A o \in Objects : color'[o] # "white" => o \in Waiting /\ color'[o] = color[o]
    BY <1>1, <2>1 DEF GCType, Colours
  <2>5. GCType'
    BY <1>1, <1>2, <1>3, <2>1, <2>2, <2>4 DEF GCType
  <2>6. HeapTyped'
    <3>1. \A o \in Objects \ alive : color'[o] = "white"
      BY <2>3, <2>4 DEF Live
    <3> QED BY <1>1, <1>2, <3>1, HeapKept
  <2>7. Live' = Live
    BY <1>2, <2>3, <2>4 DEF Live
  <2>8. LiveClosed'
    BY <1>1, <1>2, <1>3, <2>7, SameRefs DEF LiveClosed
  <2>9. SweepWaits'
    BY <1>2, <1>3, <2>1, <2>3, <2>4 DEF SweepWaits
  <2>10. NeverBlack'
    BY <1>1, <1>3, <2>4 DEF NeverBlack
  <2>11. NoneDead' /\ BlackRefers' /\ GrayListed'
    BY <1>2, <2>1 DEF NoneDead, BlackRefers, GrayListed
  <2> QED BY <1>4, <2>5, <2>6, <2>8, <2>9, <2>10, <2>11 DEF GCInv
<1> QED BY <1>5, <1>6

\* A new string finds room; a crowded table grows, after what is left of the sweep
\* of the strings.
LEMMA NewStringKeeps == ASSUME GCInv, NEW o \in Objects, NewString(o) PROVE GCInv'
<1>1. GCType /\ HeapTyped /\ LiveClosed /\ SweepWaits /\ NeverBlack /\ GrayListed /\ FinalizersKept
  BY DEF GCInv
<1> PICK crowded : crowded = (Cardinality(Strings) >= strsize)
  OBVIOUS
<1> PICK left : left = IF crowded /\ gcstate = "sweepstring"
                       THEN UNION {Bucket(i, strsize) : i \in sweepstrgc .. strsize - 1} ELSE {}
  OBVIOUS
<1>2. /\ o \notin alive /\ Is(o, {"string"}) /\ ref' = SetTop(o)
      /\ strsize' = IF crowded THEN 2 * strsize ELSE strsize
      /\ gcstate' = IF crowded /\ gcstate = "sweepstring" THEN "sweepudata" ELSE gcstate
      /\ alive' = {s \in alive : s \notin left \/ ~ Dead(s)} \cup {o}
      /\ color' = [s \in Objects |-> IF s \in left THEN "white" ELSE color[s]]
      /\ UNCHANGED <<kind, open, gray, fin, tosweep, sweepstrgc, full, late>>
  BY DEF NewString
<1>3. kind[o] = "string" /\ color[o] = "white" /\ open[o] = Nil /\ Refs(o) = {}
  BY <1>1, <1>2, FreeRefs DEF Is, HeapTyped
<1>4. strsize' \in Nat \ {0} /\ strsize \in Nat \ {0} /\ sweepstrgc \in Nat
  BY <1>1, <1>2 DEF GCType
<1>5. \A x \in left : x \in alive /\ kind[x] = "string" /\ gcstate = "sweepstring"
  BY DEF Bucket, Strings
<1>6. color' \in [Objects -> Colours] /\ alive \subseteq Objects /\ Live \subseteq Objects
  BY <1>1, <1>2 DEF GCType, Colours, Live
<1>7. CASE ~ (crowded /\ gcstate = "sweepstring")
  <2>1. color' = color /\ gcstate' = gcstate /\ alive' = alive \cup {o}
    BY <1>1, <1>2, <1>7 DEF GCType
  <2>2. Recoloured(Main)
    BY <1>2, <2>1, SameColours
  <2>3. ListsKept
    BY <1>2, <2>1, <2>2, ListsSame
  <2>5. color'[o] # "dead" /\ kind[o] # "upval" /\ kind[o] # "unused" /\ kind[o] # "closure"
    BY <1>3, <2>1
  <2>6. gcstate = "sweepstring" => strsize' = strsize
    BY <1>2, <1>7
  <2> QED BY <1>2, <1>3, <1>4, <2>1, <2>2, <2>3, <2>5, <2>6, SetTopKeeps
<1>8. CASE crowded /\ gcstate = "sweepstring"
  <2>1. gcstate = "sweepstring" /\ gcstate' = "sweepudata"
        /\ left = UNION {Bucket(i, strsize) : i \in sweepstrgc .. strsize - 1}
    BY <1>2, <1>8
  <2>2. \A x \in alive : kind[x] = "string" /\ StrHash[x] % strsize >= sweepstrgc => x \in left
    <3> SUFFICES ASSUME NEW x \in alive, kind[x] = "string", StrHash[x] % strsize >= sweepstrgc
                 PROVE  x \in left
      OBVIOUS
    <3>1. StrHash[x] \in Nat
      BY <1>6, LuaGCAssumption
    <3> PICK i : i = StrHash[x] % strsize
      OBVIOUS
    <3>2. i \in Nat /\ i < strsize /\ i >= sweepstrgc
      BY <1>4, <3>1
    <3>3. i \in sweepstrgc .. strsize - 1
      BY <1>4, <3>2
    <3>4. x \in Bucket(i, strsize)
      BY DEF Bucket, Strings
    <3> QED BY <2>1, <3>3, <3>4
  <2> PICK b : b = ref[Main][2]
    OBVIOUS
  <2>3. b \in Storable /\ b \in Live \cup {Nil}
    BY MainFields
  <2>4. Write(Main, o, b)
    BY <1>1, <1>2, WriteIs DEF SetTop
  <2>5. /\ DOMAIN ref' = Objects \cup {Main}
        /\ \A x \in Objects \cup {Main} : ref'[x] = IF x = Main THEN <<o, b>> ELSE ref[x]
    BY <2>4 DEF Write
  <2>6. alive' \subseteq alive \cup {o} /\ o \in alive' /\ alive' \subseteq Objects
        /\ \A x \in alive : x \in alive' \/ (x \in left /\ color[x] = "dead")
    BY <1>2, <1>6 DEF Dead
  <2>7. \A x \in Objects : color'[x] = "white" \/ (x \notin left /\ color'[x] = color[x])
    BY <1>2
  <2>8. Live' = Live \cup {o}
    <3>1. ASSUME NEW x \in Live PROVE x \in Live'
      <4>1. x \in alive /\ x \in Objects /\ color[x] # "dead"
        BY <1>6 DEF Live
      <4> QED BY <2>6, <2>7, <4>1 DEF Live
    <3>2. o \in Live'
      BY <1>3, <2>6, <2>7 DEF Live
    <3>3. ASSUME NEW x \in Live', x # o PROVE x \in Live
      <4>1. x \in alive /\ x \in alive' /\ color'[x] # "dead" /\ x \in Objects
        BY <1>6, <2>6, <3>3 DEF Live
      <4>2. CASE x \in left
        BY <1>2, <3>3, <4>1, <4>2 DEF Live, Dead
      <4>3. CASE x \notin left
        BY <1>2, <4>1, <4>3 DEF Live
      <4> QED BY <4>2, <4>3
    <3> QED BY <3>1, <3>2, <3>3
  <2>9. UNCHANGED <<finobj, tobefnz, finalized, called>> /\ Waiting' = Waiting
    BY <1>2 DEF fin, Waiting
  <2>10. GCType'
    <3>1. \A x \in Objects \cup {Main} : ref'[x] \in (Objects \cup {Nil}) \X (Objects \cup {Nil})
      BY <1>1, <1>6, <2>3, <2>5 DEF GCType
    <3>2. gcstate' \in Sweeps
      BY <2>1 DEF Sweeps
    <3> QED BY <1>1, <1>2, <1>4, <1>6, <2>5, <2>6, <2>9, <3>1, <3>2 DEF GCType
  <2>11. HeapTyped'
    <3>1. Storable' = Storable
      BY <1>2 DEF Storable
    <3>2. ref'[Main][1] \in Storable /\ ref'[Main][2] \in Storable
      <4>1. ref'[Main] = <<o, b>>
        BY <2>5
      <4>2. o \in Storable
        BY <1>3 DEF Storable
      <4> QED BY <2>3, <4>1, <4>2
    <3>3. \A x \in Objects : ref'[x] = ref[x]
      BY <2>5, Distinct
    <3>4. \A x \in Objects : FieldsTyped(x)'
      BY <1>1, <1>2, <3>3, SameFields DEF HeapTyped
    <3>5. ASSUME NEW x \in Objects, x \notin alive'
          PROVE  ref'[x] = <<Nil, Nil>> /\ open[x] = Nil /\ color'[x] = "white"
      <4>1. CASE x \notin alive
        <5>1. ref[x] = <<Nil, Nil>> /\ open[x] = Nil /\ color[x] = "white"
          BY <1>1, <4>1 DEF HeapTyped
        <5> QED BY <2>7, <3>3, <5>1
      <4>2. CASE x \in alive
        <5>1. x \in left
          BY <2>6, <3>5, <4>2
        <5>2. ref[x] = <<Nil, Nil>> /\ open[x] = Nil
          BY <1>1, <1>5, <5>1 DEF HeapTyped, FieldsTyped
        <5> QED BY <1>2, <3>3, <5>1, <5>2
      <4> QED BY <4>1, <4>2
    <3>6. ASSUME NEW x \in Objects, open[x] # Nil
          PROVE  /\ kind[x] = "upval" /\ ref'[x] = <<Nil, Nil>>
                 /\ open[x] = Main \/ (open[x] \in alive' /\ kind[open[x]] = "thread")
      <4>1. /\ kind[x] = "upval" /\ ref[x] = <<Nil, Nil>>
            /\ open[x] = Main \/ (open[x] \in alive /\ kind[open[x]] = "thread")
        BY <1>1, <3>6 DEF HeapTyped
      <4>2. open[x] = Main \/ (open[x] \in alive' /\ kind[open[x]] = "thread")
        BY <1>5, <2>6, <4>1
      <4> QED BY <3>3, <4>1, <4>2
    <3>7. \A x \in alive' : kind[x] # "unused" /\ (kind[x] = "closure" => ref'[x][1] # Nil)
      <4> TAKE x \in alive'
      <4>1. CASE x = o
        BY <1>3, <4>1
      <4>2. CASE x # o
        <5>1. x \in alive /\ x \in Objects
          BY <1>6, <2>6, <4>2
        <5> QED BY <1>1, <3>3, <5>1 DEF HeapTyped
      <4> QED BY <4>1, <4>2
    <3> QED BY <1>2, <3>1, <3>2, <3>4, <3>5, <3>6, <3>7 DEF HeapTyped
  <2>12. LiveClosed'
    <3>1. ASSUME NEW x \in Live' \cup {Main} PROVE Refs(x)' \subseteq Live'
      <4>1. x \in Objects \cup {Main} /\ Refs(x)' \subseteq Refs(x) \cup ({o, b} \ {Nil})
        <5>1. x \in Objects \cup {Main} /\ Main \in Objects \cup {Main}
              /\ o \in Objects \cup {Nil} /\ b \in Objects \cup {Nil}
          BY <1>6, <2>3, <2>8
        <5>2. UNCHANGED <<kind, open>>
          BY <1>2
        <5> QED BY <1>1, <2>4, <5>1, <5>2, WriteRefs
      <4>2. Refs(x) \subseteq Live
        BY <1>1, <1>3, <2>8 DEF LiveClosed
      <4> QED BY <2>3, <2>8, <4>1, <4>2
    <3> QED BY <1>1, <2>8, <2>9, <3>1 DEF LiveClosed
  <2>13. SweepWaits'
    <3> SUFFICES ASSUME NEW x \in alive', color'[x] # "white", x \notin Waiting
                 PROVE  x \in Unswept'
      BY <2>9 DEF SweepWaits
    <3>1. x \in Objects /\ x \notin left /\ color[x] # "white"
      BY <2>6, <2>7
    <3>2. x \in alive
      BY <1>3, <2>6, <3>1
    <3>3. x \in Unswept
      BY <1>1, <2>1, <3>1, <3>2 DEF SweepWaits
    <3>4. x \in tosweep \/ (open[x] # Nil /\ (open[x] = Main \/ open[x] \in tosweep))
      BY <2>2, <3>1, <3>2, <3>3 DEF Unswept
    <3> QED BY <1>2, <2>1, <3>4 DEF Unswept, Sweeps
  <2>14. NoneDead' /\ BlackRefers' /\ GrayListed'
    <3>1. gray' = {} /\ late' = late
      BY <1>1, <1>2, <2>1 DEF GrayListed
    <3> QED BY <1>1, <1>2, <2>1, <3>1 DEF NoneDead, BlackRefers, GrayListed, Is
  <2>15. NeverBlack'
    BY <1>1, <1>2, <2>7 DEF NeverBlack
  <2>16. FinalizersKept'
    <3>1. finalized \subseteq alive'
      <4>1. \A x \in finalized : x \in alive /\ kind[x] = "udata"
        BY <1>1 DEF FinalizersKept
      <4> QED BY <1>5, <2>6, <4>1
    <3> QED BY <1>1, <1>2, <3>1, FinalizersSame
  <2> QED BY <2>10, <2>11, <2>12, <2>13, <2>14, <2>15, <2>16 DEF GCInv
<1> QED BY <1>7, <1>8

\* A closure and its upvalue, new or alive again, which holds what its thread holds.
LEMMA NewClosureKeeps ==
    ASSUME GCInv, NEW c \in Objects, NEW u \in Objects, NEW th \in Threads, NewClosure(c, u, th)
    PROVE  GCInv'
<1>1. GCType /\ HeapTyped /\ LiveClosed /\ SweepWaits /\ NoneDead /\ NeverBlack /\ BlackRefers
      /\ GrayListed /\ FinalizersKept
  BY DEF GCInv
<1>2. /\ c \notin alive /\ kind[c] = "closure"
      /\ th = Main \/ th \in Accessible
      /\ \/ /\ u \in alive /\ open[u] = th
            /\ color' = IF Dead(u) THEN [color EXCEPT ![u] = "white"] ELSE color
         \/ u \notin alive /\ kind[u] = "upval" /\ color' = color
      /\ alive' = alive \cup {c, u} /\ open' = [open EXCEPT ![u] = th]
      /\ ref' = [SetTop(c) EXCEPT ![c] = <<u, Nil>>]
      /\ UNCHANGED <<kind, gcstate, gray, fin, sweeping, full, late>>
  BY DEF NewClosure, Is, OpenUpvals
<1>3. UNCHANGED <<finobj, tobefnz, finalized, called, tosweep, sweepstrgc, strsize>> /\ Waiting' = Waiting
  BY <1>2 DEF fin, sweeping, Waiting
<1>4. alive \subseteq Objects /\ Live \subseteq alive /\ Live \subseteq Objects
  BY <1>1 DEF GCType, Live
<1>5. th = Main \/ (th \in Live /\ th \in alive /\ th \in Objects /\ kind[th] = "thread")
  <2>1. th \in Accessible => th \in Live /\ th \in Objects
    BY ReachableLive
  <2> QED BY <1>2, <1>4, <2>1, Distinct DEF Threads
<1>6. th # Nil /\ th # c /\ th # u /\ c # u /\ kind[u] = "upval" /\ ref[u] = <<Nil, Nil>>
      /\ c # Main /\ u # Main
  <2>1. th # Nil
    BY <1>5, Distinct
  <2>2. kind[u] = "upval" /\ ref[u] = <<Nil, Nil>>
    BY <1>1, <1>2, <2>1 DEF HeapTyped
  <2> QED BY <1>2, <1>5, <2>1, <2>2, Distinct
<1>7. /\ color' \in [Objects -> Colours] /\ color'[u] # "dead" /\ color[c] = "white"
      /\ \A x \in Objects : x # u => color'[x] = color[x]
      /\ \A x \in Objects : color'[x] # "white" => color'[x] = color[x] /\ x \in alive
      /\ color' = color \/ (color[u] = "dead" /\ color'[u] = "white" /\ u \in alive)
  <2>1. \A x \in Objects : x \notin alive => color[x] = "white"
    BY <1>1 DEF HeapTyped
  <2> QED BY <1>1, <1>2, <2>1 DEF GCType, Colours, Dead
<1>8. \A x \in Objects : open'[x] = IF x = u THEN th ELSE open[x]
  BY <1>1, <1>2 DEF GCType
<1>9. \A x \in alive : open'[x] = open[x]
  BY <1>2, <1>4, <1>8
<1> PICK b : b = ref[Main][2]
  OBVIOUS
<1>10. b \in Storable /\ b \in Live \cup {Nil}
  BY MainFields
<1>11. /\ DOMAIN ref' = Objects \cup {Main}
       /\ \A x \in Objects \cup {Main} :
             ref'[x] = IF x = c THEN <<u, Nil>> ELSE IF x = Main THEN <<c, b>> ELSE ref[x]
  <2> PICK r : r = SetTop(c)
    OBVIOUS
  <2>1. /\ DOMAIN r = Objects \cup {Main}
        /\ \A x \in Objects \cup {Main} : r[x] = IF x = Main THEN <<c, b>> ELSE ref[x]
    BY <1>1, SetTopIs
  <2>2. ref' = [r EXCEPT ![c] = <<u, Nil>>]
    BY <1>2
  <2> QED BY <1>6, <2>1, <2>2
<1>12. ref'[c] = <<u, Nil>> /\ ref'[Main] = <<c, b>> /\ \A x \in Objects : x # c => ref'[x] = ref[x]
  BY <1>6, <1>11, Distinct
<1>13. ref'[c][1] = u /\ ref'[c][2] = Nil /\ ref'[Main][1] = c /\ ref'[Main][2] = b
  BY <1>12
<1>14. Live' = Live \cup {c, u}
  <2>1. \A x \in Objects : x # u => color'[x] = color[x]
    BY <1>7
  <2> QED BY <1>2, <1>4, <1>7 DEF Live
<1>15. \A x, types : Is(x, types)' = Is(x, types)
  BY <1>2 DEF Is
<1>16. GCType'
  <2>1. \A x \in Objects \cup {Main} : ref'[x] \in (Objects \cup {Nil}) \X (Objects \cup {Nil})
    <3>1. \A x \in Objects \cup {Main} : ref[x] \in (Objects \cup {Nil}) \X (Objects \cup {Nil})
      BY <1>1 DEF GCType
    <3>2. b \in Objects \cup {Nil} /\ u \in Objects \cup {Nil} /\ c \in Objects \cup {Nil}
      BY <1>4, <1>10
    <3>3. /\ <<u, Nil>> \in (Objects \cup {Nil}) \X (Objects \cup {Nil})
          /\ <<c, b>> \in (Objects \cup {Nil}) \X (Objects \cup {Nil})
      BY <3>2
    <3> QED BY <1>11, <3>1, <3>3
  <2>2. open' \in [Objects -> Objects \cup {Main, Nil}]
    BY <1>1, <1>2, <1>5 DEF GCType
  <2>3. alive' \subseteq Objects
    BY <1>2, <1>4
  <2> QED BY <1>1, <1>2, <1>3, <1>7, <1>11, <2>1, <2>2, <2>3 DEF GCType
<1>17. HeapTyped'
  <2>1. Storable' = Storable
    BY <1>2 DEF Storable
  <2>2. ref'[Main][1] \in Storable /\ ref'[Main][2] \in Storable
    BY <1>2, <1>10, <1>13 DEF Storable
  <2>3. ASSUME NEW x \in Objects PROVE FieldsTyped(x)'
    <3>1. CASE x = c
      <4>1. Is(u, {"upval"})' /\ ~ Is(c, Tables)'
        BY <1>2, <1>6, <1>15 DEF Is, Tables
      <4> QED BY <1>2, <1>13, <3>1, <4>1 DEF FieldsTyped
    <3>2. CASE x # c
      BY <1>1, <1>2, <1>12, <3>2, SameFields DEF HeapTyped
    <3> QED BY <3>1, <3>2
  <2>4. ASSUME NEW x \in Objects, x \notin alive'
        PROVE  ref'[x] = <<Nil, Nil>> /\ open'[x] = Nil /\ color'[x] = "white"
    <3>1. x \notin alive /\ x # c /\ x # u
      BY <1>2, <2>4
    <3> QED BY <1>1, <1>7, <1>8, <1>12, <3>1 DEF HeapTyped
  <2>5. ASSUME NEW x \in Objects, open'[x] # Nil
        PROVE  /\ kind[x] = "upval" /\ ref'[x] = <<Nil, Nil>>
               /\ open'[x] = Main \/ (open'[x] \in alive' /\ kind[open'[x]] = "thread")
    <3>1. CASE x = u
      BY <1>2, <1>5, <1>6, <1>8, <1>12, <3>1
    <3>2. CASE x # u
      <4>1. open'[x] = open[x] /\ kind[x] = "upval"
        BY <1>1, <1>8, <2>5, <3>2 DEF HeapTyped
      <4> QED BY <1>1, <1>2, <1>12, <2>5, <4>1 DEF HeapTyped
    <3> QED BY <3>1, <3>2
  <2>6. \A x \in alive' : kind[x] # "unused" /\ (kind[x] = "closure" => ref'[x][1] # Nil)
    <3> TAKE x \in alive'
    <3>1. CASE x = c
      BY <1>2, <1>13, <3>1, Distinct
    <3>2. CASE x = u
      BY <1>6, <3>2
    <3>3. CASE x # c /\ x # u
      <4>1. x \in alive /\ x \in Objects
        BY <1>2, <1>4, <3>3
      <4> QED BY <1>1, <1>12, <3>3, <4>1 DEF HeapTyped
    <3> QED BY <3>1, <3>2, <3>3
  <2> QED BY <1>2, <2>1, <2>2, <2>3, <2>4, <2>5, <2>6 DEF HeapTyped
<1>18. ASSUME NEW x \in Objects, x # c, x # u PROVE Refs(x)' = Refs(x)
  <2>1. ref'[x] = ref[x]
    BY <1>12, <1>18
  <2>2. CASE Is(x, {"upval"})
    <3>1. open[x] # Nil => open[x] = Main \/ (open[x] \in Objects /\ open[x] # c)
      BY <1>1, <1>2, <1>4 DEF HeapTyped
    <3>2. Value(x)' = Value(x)
      BY <1>8, <1>12, <1>13, <1>18, <2>1, <3>1 DEF Value
    <3>3. ~ Is(x, Tables)
      BY <2>2, KindsOf DEF Is
    <3> QED BY <1>15, <2>2, <3>2, <3>3 DEF Refs
  <2>3. CASE ~ Is(x, {"upval"})
    BY <1>15, <2>1, <2>3 DEF Refs
  <2> QED BY <2>2, <2>3
<1>19. Refs(c)' = {u} /\ Refs(Main)' = {c, b} \ {Nil}
  <2>1. ~ Is(c, Tables) /\ ~ Is(c, {"upval"}) /\ \A types : ~ Is(Main, types)
    BY <1>2, KindsOf, Distinct DEF Is
  <2> QED BY <1>13, <1>15, <2>1, Distinct DEF Refs
<1>20. Refs(u)' \subseteq Live
  <2>1. open'[u] = th /\ Is(u, {"upval"}) /\ ~ Is(u, Tables)
    BY <1>6, <1>8, KindsOf DEF Is
  <2>2. Value(u)' = ref'[th][2]
    BY <1>6, <2>1 DEF Value
  <2>3. ref'[th][2] = ref[th][2]
    BY <1>5, <1>6, <1>12, <1>13
  <2>4. ref[th][2] \in Live \cup {Nil}
    <3>1. CASE th = Main
      BY <1>10, <3>1
    <3>2. CASE th # Main
      <4>1. Refs(th) = {ref[th][2]} \ {Nil}
        BY <1>1, <1>5, <3>2, RefsAre DEF Is
      <4> QED BY <1>1, <1>5, <3>2, <4>1 DEF LiveClosed
    <3> QED BY <3>1, <3>2
  <2> QED BY <1>15, <2>1, <2>2, <2>3, <2>4 DEF Refs
<1>21. LiveClosed'
  <2>1. ASSUME NEW x \in Live' \cup {Main} PROVE Refs(x)' \subseteq Live'
    <3>1. CASE x = c \/ x = u \/ x = Main
      BY <1>10, <1>14, <1>19, <1>20, <3>1
    <3>2. CASE x # c /\ x # u /\ x # Main
      <4>1. x \in Live /\ x \in Objects
        BY <1>4, <1>14, <3>2
      <4> QED BY <1>1, <1>14, <1>18, <3>2, <4>1 DEF LiveClosed
    <3> QED BY <3>1, <3>2
  <2> QED BY <1>1, <1>3, <1>14, <2>1 DEF LiveClosed
<1>22. SweepWaits'
  <2> SUFFICES ASSUME gcstate # "propagate", NEW x \in alive', color'[x] # "white", x \notin Waiting
               PROVE  x \in Unswept'
    BY <1>2, <1>3 DEF SweepWaits
  <2>1. x \in alive /\ color[x] # "white"
    BY <1>7, <1>16 DEF GCType
  <2>2. x \in Unswept
    BY <1>1, <2>1 DEF SweepWaits
  <2>3. open'[x] = open[x]
    BY <1>9, <2>1
  <2> QED BY <1>2, <1>3, <2>2, <2>3 DEF Unswept
<1>23. NoneDead'
  BY <1>1, <1>2, <1>14 DEF NoneDead
<1>24. NeverBlack'
  <2> SUFFICES ASSUME NEW x \in Objects, color'[x] = "black"
               PROVE  /\ kind[x] \in {"strong", "udata", "closure", "upval", "string"}
                      /\ open'[x] = Nil
    BY <1>2 DEF NeverBlack
  <2>1. color[x] = "black" /\ x \in alive
    BY <1>7
  <2> QED BY <1>1, <1>9, <2>1 DEF NeverBlack
<1>25. BlackRefers'
  <2> SUFFICES ASSUME gcstate = "propagate", NEW x \in alive', color'[x] = "black"
               PROVE  /\ \A v \in Refs(x)' : ~ IsWhite(v, color')
                      /\ kind[x] = "strong" => ~ IsWhite(ref'[x][1], color')
    BY <1>2 DEF BlackRefers
  <2>1. color' = color
    BY <1>1, <1>4, <1>7 DEF NoneDead, Live
  <2>2. x \in alive /\ x \in Objects /\ color[x] = "black" /\ x # c
    BY <1>2, <1>7, <1>16 DEF GCType
  <2>3. x # u
    BY <1>1, <1>2, <1>6, <2>2 DEF NeverBlack
  <2>4. Refs(x)' = Refs(x) /\ ref'[x] = ref[x]
    BY <1>12, <1>18, <2>2, <2>3
  <2> QED BY <1>1, <2>1, <2>2, <2>4 DEF BlackRefers
<1>26. GrayListed'
  BY <1>1, <1>2, <1>15 DEF GrayListed
<1>27. FinalizersKept'
  BY <1>1, <1>2, FinalizersSame DEF FinalizersKept
<1> QED BY <1>16, <1>17, <1>21, <1>22, <1>23, <1>24, <1>25, <1>26, <1>27 DEF GCInv

\* An upvalue that is closed takes the value of its thread with it, or is freed
\* when it was dead.
LEMMA CloseUpvalKeeps == ASSUME GCInv, NEW u \in Objects, CloseUpval(u) PROVE GCInv'
<1>1. GCType /\ HeapTyped /\ LiveClosed /\ SweepWaits /\ NoneDead /\ NeverBlack /\ BlackRefers
      /\ GrayListed /\ FinalizersKept
  BY DEF GCInv
<1>2. /\ u \in alive /\ open[u] # Nil /\ open' = [open EXCEPT ![u] = Nil]
      /\ IF Dead(u)
         THEN alive' = alive \ {u} /\ color' = [color EXCEPT ![u] = "white"] /\ UNCHANGED <<ref, gray>>
         ELSE /\ ref' = [ref EXCEPT ![u] = <<Nil, Value(u)>>]
              /\ UNCHANGED alive
              /\ IF color[u] # "gray" THEN UNCHANGED <<color, gray>>
                 ELSE IF Marking THEN MarkAll({Value(u)}, [color EXCEPT ![u] = "black"], gray)
                 ELSE color' = [color EXCEPT ![u] = "white"] /\ UNCHANGED gray
      /\ UNCHANGED <<kind, gcstate, fin, sweeping, full, late>>
  BY DEF CloseUpval
<1>3. UNCHANGED <<finobj, tobefnz, finalized, called, tosweep, sweepstrgc, strsize>> /\ Waiting' = Waiting
  BY <1>2 DEF fin, sweeping, Waiting
<1>4. alive \subseteq Objects /\ Live \subseteq alive /\ Live \subseteq Objects
  BY <1>1 DEF GCType, Live
<1>5. kind[u] = "upval" /\ ref[u] = <<Nil, Nil>> /\ color[u] # "black" /\ u # Main
      /\ (open[u] = Main \/ (open[u] \in alive /\ kind[open[u]] = "thread"))
  BY <1>1, <1>2, Distinct DEF HeapTyped, NeverBlack
<1>6. \A x \in Objects : open'[x] = IF x = u THEN Nil ELSE open[x]
  BY <1>1, <1>2 DEF GCType
<1>7. \A x, types : Is(x, types)' = Is(x, types)
  BY <1>2 DEF Is
<1>8. Storable' = Storable
  BY <1>2 DEF Storable
<1>9. \A x \in Objects : open[x] # Nil => open[x] = Main \/ (open[x] \in Objects /\ open[x] # u)
  BY <1>1, <1>4, <1>5 DEF HeapTyped
<1>10. finalized \subseteq alive'
  <2>1. u \notin finalized
    BY <1>1, <1>5 DEF FinalizersKept
  <2> QED BY <1>1, <1>2, <2>1 DEF FinalizersKept
<1>11. FinalizersKept'
  BY <1>1, <1>2, <1>10, FinalizersSame
<1>12. CASE Dead(u)
  <2>1. /\ alive' = alive \ {u} /\ color' = [color EXCEPT ![u] = "white"] /\ UNCHANGED <<ref, gray>>
        /\ color[u] = "dead"
    BY <1>2, <1>12 DEF Dead
  <2>2. /\ color' \in [Objects -> Colours] /\ color'[u] = "white"
        /\ \A x \in Objects : x # u => color'[x] = color[x]
    BY <1>1, <2>1 DEF GCType, Colours
  <2>3. gcstate # "propagate"
    BY <1>1, <1>2, <2>1 DEF NoneDead, Live
  <2>4. Live' = Live
    <3>1. u \notin Live
      BY <2>1 DEF Live
    <3> QED BY <1>4, <2>1, <2>2, <3>1 DEF Live
  <2>5. ASSUME NEW x \in Objects \cup {Main}, x # u PROVE Refs(x)' = Refs(x)
    <3>1. Is(x, {"upval"}) => Value(x)' = Value(x)
      BY <1>6, <2>1, <2>5 DEF Value, Is
    <3> QED BY <1>7, <2>1, <3>1 DEF Refs
  <2>6. GCType'
    <3>1. open' \in [Objects -> Objects \cup {Main, Nil}]
      BY <1>1, <1>2 DEF GCType
    <3> QED BY <1>1, <1>2, <1>3, <1>4, <2>1, <2>2, <3>1 DEF GCType
  <2>7. HeapTyped'
    <3>1. ASSUME NEW x \in Objects, x \notin alive'
          PROVE  ref[x] = <<Nil, Nil>> /\ open'[x] = Nil /\ color'[x] = "white"
      BY <1>1, <1>5, <1>6, <2>1, <2>2, <3>1 DEF HeapTyped
    <3>2. ASSUME NEW x \in Objects, open'[x] # Nil
          PROVE  /\ kind[x] = "upval" /\ ref[x] = <<Nil, Nil>>
                 /\ open'[x] = Main \/ (open'[x] \in alive' /\ kind[open'[x]] = "thread")
      <4>1. open'[x] = open[x]
        BY <1>6, <3>2
      <4> QED BY <1>1, <1>5, <2>1, <3>2, <4>1 DEF HeapTyped
    <3>3. \A x \in Objects : FieldsTyped(x)'
      BY <1>1, <1>2, <2>1, SameFields DEF HeapTyped
    <3> QED BY <1>1, <1>2, <1>8, <2>1, <3>1, <3>2, <3>3 DEF HeapTyped
  <2>8. LiveClosed'
    <3>1. ASSUME NEW x \in Live' \cup {Main} PROVE Refs(x)' \subseteq Live'
      <4>1. x \in Objects \cup {Main} /\ x # u /\ x \in Live \cup {Main}
        BY <1>4, <1>5, <2>1, <2>4 DEF Live
      <4> QED BY <1>1, <2>4, <2>5, <4>1 DEF LiveClosed
    <3> QED BY <1>1, <1>3, <2>4, <3>1 DEF LiveClosed
  <2>9. SweepWaits'
    <3> SUFFICES ASSUME NEW x \in alive', color'[x] # "white", x \notin Waiting
                 PROVE  x \in Unswept'
      BY <1>3 DEF SweepWaits
    <3>1. x \in Objects /\ x # u /\ x \in alive
      BY <1>4, <2>1
    <3>2. x \in Unswept /\ open'[x] = open[x]
      BY <1>1, <1>6, <2>2, <2>3, <3>1 DEF SweepWaits
    <3> QED BY <1>2, <1>3, <3>2 DEF Unswept
  <2>10. NeverBlack'
    BY <1>1, <1>2, <1>6, <2>2 DEF NeverBlack
  <2>11. NoneDead' /\ BlackRefers' /\ GrayListed'
    BY <1>1, <1>2, <1>7, <2>1, <2>3 DEF NoneDead, BlackRefers, GrayListed
  <2> QED BY <1>11, <2>6, <2>7, <2>8, <2>9, <2>10, <2>11 DEF GCInv
<1>13. CASE ~ Dead(u)
  <2> PICK v : v = Value(u)
    OBVIOUS
  <2>1. /\ ref' = [ref EXCEPT ![u] = <<Nil, v>>] /\ alive' = alive /\ u \in Live /\ color[u] # "dead"
        /\ IF color[u] # "gray" THEN UNCHANGED <<color, gray>>
           ELSE IF Marking THEN MarkAll({v}, [color EXCEPT ![u] = "black"], gray)
           ELSE color' = [color EXCEPT ![u] = "white"] /\ UNCHANGED gray
    BY <1>2, <1>13 DEF Dead, Live
  <2>2. Refs(u) = {v} \ {Nil} /\ v \in Storable /\ v \in Live \cup {Nil}
    <3>1. Refs(u) = {v} \ {Nil}
      BY <1>1, <1>5, RefsAre DEF Is
    <3> QED BY <1>1, <1>5, <2>1, <3>1, ValueStorable DEF LiveClosed
  <2>3. /\ DOMAIN ref' = Objects \cup {Main}
        /\ \A x \in Objects \cup {Main} : ref'[x] = IF x = u THEN <<Nil, v>> ELSE ref[x]
    BY <1>1, <2>1 DEF GCType
  <2>4. ref'[u] = <<Nil, v>>
    BY <2>3
  <2>5. ref'[u][1] = Nil /\ ref'[u][2] = v
    BY <2>4
  <2>6. /\ color' \in [Objects -> Colours]
        /\ \A x \in Objects : color'[x] # color[x] => x \in Live /\ color'[x] # "dead"
        /\ gcstate # "propagate" =>
              \A x \in Objects : color'[x] # "white" => x # u /\ color'[x] = color[x]
        /\ \A x \in Objects : color'[x] = "black" /\ color[x] # "black" =>
              /\ x = u \/ open[x] = Nil
              /\ kind[x] = "udata" \/ kind[x] = "upval" \/ kind[x] = "string"
              /\ \A y \in Refs(x) : Marked(y, color')
        /\ gcstate = "propagate" => \A x \in Objects : Marked(x, color) => Marked(x, color')
        /\ gray' \subseteq gray \cup Live /\ (gcstate # "propagate" => gray' = gray)
    <3>1. CASE color[u] # "gray"
      <4>1. color[u] = "white"
        BY <1>1, <1>5, <2>1, <3>1 DEF GCType, Colours
      <4>2. color' = color /\ gray' = gray
        BY <2>1, <3>1
      <4> QED BY <1>1, <4>1, <4>2 DEF GCType
    <3>2. CASE color[u] = "gray" /\ Marking
      <4> PICK col : col = [color EXCEPT ![u] = "black"]
        OBVIOUS
      <4>1. /\ col \in [Objects -> Colours] /\ col[u] = "black"
            /\ \A x \in Objects : x # u => col[x] = color[x]
        BY <1>1 DEF GCType, Colours
      <4>2. MarkAll({v}, col, gray) /\ {v} \cap Objects \subseteq Live /\ gcstate = "propagate"
        BY <2>1, <2>2, <3>2, Distinct DEF Marking
      <4>3. Marks({v}, col, gray)
        BY <1>1, <4>1, <4>2, MarkAllMarks
      <4>4. color'[u] = "black"
        BY <4>1, <4>3 DEF Marks, Marked
      <4>5. \A y \in Refs(u) : Marked(y, color')
        BY <1>4, <2>2, <4>3 DEF Marks
      <4>6. \A x \in Objects : x # u => Marked(x, color) = Marked(x, col)
        BY <4>1 DEF Marked
      <4>7. \A x \in Objects : Marked(x, col) => Marked(x, color')
        BY <4>3 DEF Marks, Marked
      <4>8. \A x \in Objects : color'[x] # color[x] => x \in Live /\ color'[x] # "dead"
        BY <2>1, <4>1, <4>3, <4>4 DEF Marks, Marked
      <4>9. \A x \in Objects : Marked(x, color) => Marked(x, color')
        BY <4>4, <4>6, <4>7 DEF Marked
      <4>10. ASSUME NEW x \in Objects, color'[x] = "black", color[x] # "black"
             PROVE  /\ x = u \/ open[x] = Nil
                    /\ kind[x] = "udata" \/ kind[x] = "upval" \/ kind[x] = "string"
                    /\ \A y \in Refs(x) : Marked(y, color')
        <5>1. CASE x = u
          BY <1>5, <4>5, <5>1
        <5>2. CASE x # u
          <6>1. col[x] # "black"
            BY <4>1, <4>10, <5>2
          <6> QED BY <4>3, <4>10, <6>1 DEF Marks
        <5> QED BY <5>1, <5>2
      <4>11. gray' \subseteq gray \cup Live /\ color' \in [Objects -> Colours]
        BY <4>3 DEF Marks
      <4> QED BY <4>2, <4>8, <4>9, <4>10, <4>11
    <3>3. CASE color[u] = "gray" /\ ~ Marking
      <4>1. color' = [color EXCEPT ![u] = "white"] /\ gray' = gray /\ gcstate # "propagate"
        BY <2>1, <3>3 DEF Marking
      <4>2. /\ color' \in [Objects -> Colours] /\ color'[u] = "white"
            /\ \A x \in Objects : x # u => color'[x] = color[x]
        BY <1>1, <4>1 DEF GCType, Colours
      <4> QED BY <2>1, <4>1, <4>2
    <3> QED BY <3>1, <3>2, <3>3
  <2>7. \A x \in Objects \ alive : color'[x] = "white"
    <3>1. \A x \in Objects \ alive : color[x] = "white" /\ x \notin Live
      BY <1>1, <1>4 DEF HeapTyped
    <3> QED BY <2>6, <3>1
  <2>8. Live' = Live
    BY <1>4, <2>1, <2>6 DEF Live
  <2>9. ASSUME NEW x \in Objects \cup {Main} PROVE Refs(x)' = Refs(x)
    <3>1. CASE x = u
      <4>1. Value(u)' = v /\ Is(u, {"upval"}) /\ ~ Is(u, Tables)
        BY <1>5, <1>6, <2>5, KindsOf DEF Value, Is
      <4> QED BY <1>7, <2>2, <3>1, <4>1 DEF Refs
    <3>2. CASE x # u
      <4>1. ref'[x] = ref[x]
        BY <2>3, <3>2
      <4>2. Is(x, {"upval"}) => Value(x)' = Value(x)
        <5> SUFFICES ASSUME x \in Objects PROVE Value(x)' = Value(x)
          BY DEF Is
        <5>1. open'[x] = open[x] /\ (open[x] # Nil => ref'[open[x]] = ref[open[x]])
          BY <1>5, <1>6, <1>9, <2>3, <3>2
        <5> QED BY <4>1, <5>1 DEF Value
      <4> QED BY <1>7, <4>1, <4>2 DEF Refs
    <3> QED BY <3>1, <3>2
  <2>10. GCType'
    <3>1. open' \in [Objects -> Objects \cup {Main, Nil}]
      BY <1>1, <1>2 DEF GCType
    <3>2. \A x \in Objects \cup {Main} : ref'[x] \in (Objects \cup {Nil}) \X (Objects \cup {Nil})
      <4>1. <<Nil, v>> \in (Objects \cup {Nil}) \X (Objects \cup {Nil})
        BY <2>2 DEF Storable
      <4> QED BY <1>1, <2>3, <4>1 DEF GCType
    <3>3. gray' \subseteq Objects \cup {Main}
      BY <1>1, <1>4, <2>6 DEF GCType
    <3> QED BY <1>1, <1>2, <1>3, <2>1, <2>3, <2>6, <3>1, <3>2, <3>3 DEF GCType
  <2>11. HeapTyped'
    <3>1. ASSUME NEW x \in Objects, x \notin alive
          PROVE  ref'[x] = <<Nil, Nil>> /\ open'[x] = Nil /\ color'[x] = "white"
      BY <1>1, <1>2, <1>6, <2>3, <2>7, <3>1 DEF HeapTyped
    <3>2. ASSUME NEW x \in Objects, open'[x] # Nil
          PROVE  /\ kind[x] = "upval" /\ ref'[x] = <<Nil, Nil>>
                 /\ open'[x] = Main \/ (open'[x] \in alive /\ kind[open'[x]] = "thread")
      <4>1. open'[x] = open[x] /\ x # u
        BY <1>6, <3>2
      <4> QED BY <1>1, <2>3, <3>2, <4>1 DEF HeapTyped
    <3>3. ASSUME NEW x \in Objects PROVE FieldsTyped(x)'
      <4>1. CASE x = u
        <5>1. ~ Is(u, Tables)
          BY <1>5, KindsOf
        <5> QED BY <1>2, <1>5, <1>7, <1>8, <2>2, <2>5, <4>1, <5>1 DEF FieldsTyped
      <4>2. CASE x # u
        BY <1>1, <1>2, <2>3, <4>2, SameFields DEF HeapTyped
      <4> QED BY <4>1, <4>2
    <3>4. ref'[Main] = ref[Main]
      BY <1>5, <2>3
    <3>5. \A x \in alive : kind[x] # "unused" /\ (kind[x] = "closure" => ref'[x][1] # Nil)
      <4> TAKE x \in alive
      <4>1. x \in Objects /\ kind[x] # "unused" /\ (kind[x] = "closure" => ref[x][1] # Nil)
        BY <1>1, <1>4 DEF HeapTyped
      <4> QED BY <1>5, <2>3, <4>1
    <3> QED BY <1>1, <1>2, <1>8, <2>1, <3>1, <3>2, <3>3, <3>4, <3>5 DEF HeapTyped
  <2>12. LiveClosed'
    <3>1. ASSUME NEW x \in Live' \cup {Main} PROVE Refs(x)' \subseteq Live'
      <4>1. x \in Objects \cup {Main} /\ x \in Live \cup {Main}
        BY <1>4, <2>8
      <4> QED BY <1>1, <2>8, <2>9, <4>1 DEF LiveClosed
    <3> QED BY <1>1, <1>3, <2>8, <3>1 DEF LiveClosed
  <2>13. SweepWaits'
    <3> SUFFICES ASSUME gcstate # "propagate", NEW x \in alive, color'[x] # "white", x \notin Waiting
                 PROVE  x \in Unswept'
      BY <1>2, <1>3, <2>1 DEF SweepWaits
    <3>1. x \in Objects /\ x # u /\ color'[x] = color[x]
      BY <1>4, <2>6
    <3>2. x \in Unswept /\ open'[x] = open[x]
      BY <1>1, <1>6, <3>1 DEF SweepWaits
    <3> QED BY <1>2, <1>3, <2>1, <3>2 DEF Unswept
  <2>14. NoneDead'
    BY <1>1, <1>2, <2>1, <2>8 DEF NoneDead
  <2>15. NeverBlack'
    <3> SUFFICES ASSUME NEW x \in Objects, color'[x] = "black"
                 PROVE  /\ kind[x] \in {"strong", "udata", "closure", "upval", "string"}
                        /\ open'[x] = Nil
      BY <1>2 DEF NeverBlack
    <3>1. CASE color[x] = "black"
      BY <1>1, <1>6, <3>1 DEF NeverBlack
    <3>2. CASE color[x] # "black"
      BY <1>6, <2>6, <3>2
    <3> QED BY <3>1, <3>2
  <2>16. BlackRefers'
    <3> SUFFICES ASSUME gcstate = "propagate", NEW x \in alive, color'[x] = "black"
                 PROVE  /\ \A y \in Refs(x)' : ~ IsWhite(y, color')
                        /\ kind[x] = "strong" => ~ IsWhite(ref'[x][1], color')
      BY <1>2, <2>1 DEF BlackRefers
    <3>1. x \in Objects /\ Refs(x)' = Refs(x) /\ Refs(x) \subseteq Objects
      BY <1>1, <1>4, <2>9, RefsAre
    <3>2. \A y : IsWhite(y, color') => y \in Objects /\ ~ Marked(y, color')
      BY DEF Marked, IsWhite
    <3>3. \A y \in Objects : ~ IsWhite(y, color) => Marked(y, color')
      <4>1. \A y \in Objects : ~ IsWhite(y, color) => Marked(y, color)
        BY <1>1 DEF IsWhite, Marked, GCType, Colours
      <4> QED BY <2>6, <4>1
    <3>4. CASE color[x] = "black"
      <4>1. x # u /\ ref'[x] = ref[x]
        BY <1>5, <2>3, <3>1, <3>4
      <4>2. /\ \A y \in Refs(x) : ~ IsWhite(y, color)
            /\ kind[x] = "strong" => ~ IsWhite(ref[x][1], color)
        BY <1>1, <3>4 DEF BlackRefers
      <4> QED BY <3>1, <3>2, <3>3, <4>1, <4>2
    <3>5. CASE color[x] # "black"
      BY <2>6, <3>1, <3>2, <3>5
    <3> QED BY <3>4, <3>5
  <2>17. GrayListed'
    <3>1. gray' \subseteq alive' \cup {Main}
      BY <1>1, <1>4, <2>1, <2>6 DEF GrayListed
    <3> QED BY <1>1, <1>2, <1>7, <2>6, <3>1 DEF GrayListed
  <2> QED BY <1>11, <2>10, <2>11, <2>12, <2>13, <2>14, <2>15, <2>16, <2>17 DEF GCInv
<1> QED BY <1>12, <1>13

-----------------------------------------------------------------------------
(* The invariant. *)

LEMMA InitInv == ASSUME Init PROVE GCInv
<1>1. /\ kind \in [Objects -> Types] /\ alive = {} /\ color = [o \in Objects |-> "white"]
      /\ ref = [o \in Objects \cup {Main} |-> <<Nil, Nil>>]
      /\ open = [o \in Objects |-> Nil] /\ gcstate = "pause" /\ gray = {} /\ late = {}
      /\ finobj = <<>> /\ tobefnz = <<>> /\ finalized = {} /\ called = [o \in Objects |-> 0]
      /\ tosweep = {} /\ sweepstrgc = 0 /\ strsize = 1
  BY LuaGCAssumption DEF Init
<1>2. GCType
  <2>1. <<Nil, Nil>> \in (Objects \cup {Nil}) \X (Objects \cup {Nil})
    OBVIOUS
  <2> QED BY <1>1, <2>1 DEF GCType, Colours
<1>3. \A x \in Objects \cup {Main} : ref[x] = <<Nil, Nil>> /\ ref[x][1] = Nil /\ ref[x][2] = Nil
  BY <1>1
<1>4. HeapTyped
  <2>1. \A x \in Objects : FieldsTyped(x)
    BY <1>3 DEF FieldsTyped, Metatable, Storable
  <2> QED BY <1>1, <1>3, <2>1 DEF HeapTyped, Storable
<1>5. Live = {} /\ Waiting = {} /\ Elements(finobj) = {} /\ NoRepeats(finobj) /\ NoRepeats(tobefnz)
  BY <1>1 DEF Live, Waiting, Elements, NoRepeats
<1>6. LiveClosed
  <2>1. Refs(Main) = {}
    BY <1>3, Distinct DEF Refs, Is
  <2> QED BY <1>5, <2>1 DEF LiveClosed
<1>7. SweepWaits /\ NoneDead /\ NeverBlack /\ BlackRefers /\ GrayListed
  BY <1>1 DEF SweepWaits, NoneDead, NeverBlack, BlackRefers, GrayListed
<1>8. FinalizersKept
  BY <1>1, <1>5 DEF FinalizersKept
<1> QED BY <1>2, <1>4, <1>6, <1>7, <1>8 DEF GCInv

LEMMA SingleStepKeeps == ASSUME GCInv, SingleStep PROVE GCInv'
<1>1. CASE Restart
  BY <1>1, RestartKeeps
<1>2. ASSUME NEW o \in gray, Propagate(o) PROVE GCInv'
  BY <1>2, PropagateKeepsInv
<1>3. CASE Atomic
  BY <1>3, AtomicKeeps
<1>4. CASE SweepString
  BY <1>4, SweepStringKeeps
<1>5. CASE SweepUdata
  BY <1>5, SweepUdataKeeps
<1>6. CASE SweepAll
  BY <1>6, SweepAllKeeps
<1>7. CASE SweepEnds
  BY <1>7, SweepEndsKeeps
<1> QED BY <1>1, <1>2, <1>3, <1>4, <1>5, <1>6, <1>7 DEF SingleStep

LEMMA ProgramKeeps == ASSUME GCInv, Program PROVE GCInv'
<1>1. ASSUME NEW o \in Objects, New(o) \/ Intern(o) \/ NewString(o) \/ CloseUpval(o) PROVE GCInv'
  BY <1>1, NewKeeps, InternKeeps, NewStringKeeps, CloseUpvalKeeps
<1>2. ASSUME NEW c \in Objects, NEW u \in Objects, NEW th \in Threads, NewClosure(c, u, th) PROVE GCInv'
  BY <1>2, NewClosureKeeps
<1>3. ASSUME NEW o \in Accessible, NEW v \in Values, SetUpval(o, v) \/ SetStack(o, v) PROVE GCInv'
  BY <1>3, SetUpvalKeeps, SetStackKeeps
<1>4. ASSUME NEW o \in Accessible, NEW v \in Values, NEW k \in Values, SetTable(o, k, v) PROVE GCInv'
  BY <1>4, SetTableKeeps
<1>5. ASSUME NEW o \in Accessible, NEW v \in Values, NEW gc \in BOOLEAN, SetMetatable(o, v, gc) PROVE GCInv'
  BY <1>5, SetMetatableKeeps
<1>6. ASSUME NEW i \in 1 .. 2, NEW v \in Values, SetLocal(i, v) PROVE GCInv'
  BY <1>6, SetLocalKeeps
<1>7. CASE Finalize
  BY <1>7, FinalizeKeeps
<1>8. CASE FullGC
  BY <1>8, FullGCKeeps
<1> QED BY <1>1, <1>2, <1>3, <1>4, <1>5, <1>6, <1>7, <1>8 DEF Program

LEMMA StutterKeeps == ASSUME GCInv, UNCHANGED vars PROVE GCInv'
<1>1. UNCHANGED <<kind, ref, open, alive, color, gray, late, gcstate, finobj, tobefnz, finalized,
                  called, tosweep, sweepstrgc, strsize, heap, fin>>
  BY DEF vars, heap, fin, marks, sweeping
<1>2. GCType'
  BY <1>1 DEF GCInv, GCType
<1>3. HeapTyped' /\ FinalizersKept'
  BY <1>1, HeapKept, FinalizersSame DEF GCInv, HeapTyped, FinalizersKept
<1>4. Live' = Live /\ LiveClosed'
  BY <1>1, SameRefs DEF GCInv, LiveClosed, Live, Waiting
<1>5. SweepWaits'
  BY <1>1 DEF GCInv, SweepWaits, Unswept, Waiting
<1>6. NoneDead' /\ NeverBlack'
  BY <1>1, <1>4 DEF GCInv, NoneDead, NeverBlack
<1>7. BlackRefers'
  BY <1>1, SameRefs DEF GCInv, BlackRefers, IsWhite
<1>8. GrayListed'
  BY <1>1, SameRefs DEF GCInv, GrayListed
<1> QED BY <1>2, <1>3, <1>4, <1>5, <1>6, <1>7, <1>8 DEF GCInv

\* The inductive invariant.
THEOREM CollectorInvariant == Spec => []GCInv
<1>1. Init => GCInv
  BY InitInv
<1>2. GCInv /\ [Next]_vars => GCInv'
  BY SingleStepKeeps, ProgramKeeps, StutterKeeps DEF Next
<1> QED BY <1>1, <1>2, PTL DEF Spec

\* Memory that the program or a finalizer to come can reach is never freed: the
\* mark phase, the barriers and the resurrections of lgc.c together are enough,
\* wherever the program runs between two steps of the collector.
THEOREM NothingDangles == Spec => []NoDangling
<1>1. GCInv => NoDangling
  <2> SUFFICES ASSUME GCInv PROVE NoDangling
    OBVIOUS
  <2> QED BY ReachableLive DEF NoDangling, Waiting, Live
<1> QED BY <1>1, CollectorInvariant, PTL

\* The invariant that lgc.h states for the incremental phase.
THEOREM TriColourHolds == Spec => []TriColour
<1>1. GCInv => TriColour
  BY DEF GCInv, BlackRefers, TriColour, Marking
<1> QED BY <1>1, CollectorInvariant, PTL

-----------------------------------------------------------------------------
(* Finalizers. *)

\* What a step frees was dead.
LEMMA FreesDead == ASSUME GCInv, [Next]_vars PROVE Live \subseteq alive'
<1>1. CASE Restart \/ (\E o \in gray : Propagate(o)) \/ Atomic \/ UNCHANGED vars
  BY <1>1 DEF Restart, Propagate, Atomic, vars, Live
<1>2. CASE SweepString \/ SweepUdata \/ SweepAll \/ SweepEnds
  BY <1>2, SweepStringKeeps, SweepUdataKeeps, SweepAllKeeps, SweepEndsKeeps DEF NothingTaken
<1>3. ASSUME NEW o \in Objects, NewString(o) PROVE Live \subseteq alive'
  BY <1>3 DEF NewString, Live, Dead
<1>4. ASSUME NEW o \in Objects, CloseUpval(o) PROVE Live \subseteq alive'
  BY <1>4 DEF CloseUpval, Live, Dead
<1>5. ASSUME NEW o \in Objects, New(o) \/ Intern(o) PROVE Live \subseteq alive'
  BY <1>5 DEF New, Intern, Live
<1>6. ASSUME NEW c \in Objects, NEW u \in Objects, NEW th \in Threads, NewClosure(c, u, th)
      PROVE  Live \subseteq alive'
  BY <1>6 DEF NewClosure, Live
<1>7. ASSUME NEW o \in Accessible, NEW v \in Values,
             \/ SetUpval(o, v) \/ SetStack(o, v)
             \/ \E k \in Values : SetTable(o, k, v)
             \/ \E gc \in BOOLEAN : SetMetatable(o, v, gc)
      PROVE  Live \subseteq alive'
  BY <1>7 DEF SetUpval, SetStack, SetTable, SetMetatable, Live
<1>8. CASE (\E i \in 1 .. 2, v \in Values : SetLocal(i, v)) \/ Finalize \/ FullGC
  BY <1>8 DEF SetLocal, Finalize, FullGC, Live
<1> QED BY <1>1, <1>2, <1>3, <1>4, <1>5, <1>6, <1>7, <1>8 DEF Next, SingleStep, Program

\* No object is freed before its finalizer was called, and no finalizer is called
\* twice, although a finalizer brings its object back.
THEOREM FinalizersCalledOnce == Spec => FinalizedOnce
<1>1. ASSUME GCInv, [Next]_vars
      PROVE  \A o \in alive \ alive' :
                /\ o \notin Elements(finobj) /\ o \notin Elements(tobefnz)
                /\ called[o] = IF o \in finalized THEN 1 ELSE 0
  <2>1. Live \subseteq alive'
    BY <1>1, FreesDead
  <2>2. Waiting \subseteq Live /\ Elements(finobj) \subseteq Live /\ alive \subseteq Objects
    BY <1>1 DEF GCInv, LiveClosed, GCType
  <2>3. \A o \in Objects : called[o] = IF o \in finalized /\ o \notin Waiting THEN 1 ELSE 0
    BY <1>1 DEF GCInv, FinalizersKept
  <2> QED BY <2>1, <2>2, <2>3 DEF Waiting
<1> QED BY <1>1, CollectorInvariant, PTL DEF Spec, FinalizedOnce

-----------------------------------------------------------------------------
(* Weak tables. *)

\* Outside of the atomic phase the collector takes no value from a table.
LEMMA OtherStepsTakeNothing ==
    ASSUME GCInv, SingleStep, ~ Atomic
    PROVE  \A h \in Live : Is(h, Tables) => ref'[h][2] = ref[h][2]
<1>1. CASE Restart
  BY <1>1 DEF Restart, heap
<1>2. ASSUME NEW o \in gray, Propagate(o), NEW h \in Live PROVE ref'[h][2] = ref[h][2]
  <2> PICK col : ref' = IF Forgotten(o, col) THEN [ref EXCEPT ![o][1] = Nil] ELSE ref
    BY <1>2 DEF Propagate
  <2>1. GCType /\ h \in Objects \cup {Main} /\ o \in Objects \cup {Main}
    BY DEF GCInv, GCType, Live, GrayListed
  <2>2. CASE Forgotten(o, col)
    <3>1. DOMAIN ref = Objects \cup {Main} /\ ref[o] \in (Objects \cup {Nil}) \X (Objects \cup {Nil})
      BY <2>1 DEF GCType
    <3>2. \A x \in Objects \cup {Main} : ref'[x] = IF x = o THEN <<Nil, ref[o][2]>> ELSE ref[x]
      BY <2>1, <2>2, <3>1, WriteField
    <3> QED BY <2>1, <3>2
  <2>3. CASE ~ Forgotten(o, col)
    BY <2>3
  <2> QED BY <2>2, <2>3
<1>3. CASE SweepString \/ SweepUdata \/ SweepAll \/ SweepEnds
  BY <1>3, SweepStringKeeps, SweepUdataKeeps, SweepAllKeeps, SweepEndsKeeps DEF NothingTaken
<1> QED BY <1>1, <1>2, <1>3 DEF SingleStep

LEMMA ReachedContains ==
    ASSUME NEW S, NEW T, NEW again, NEW none
    PROVE  Reached(S, none) \subseteq Reached(Reached(S, none) \cup T, again)
<1> PICK R : R = Reached(S, none)
  OBVIOUS
<1>1. R \subseteq alive
  BY DEF Reached
<1> PICK S2 : S2 = R \cup T
  OBVIOUS
<1> DEFINE closed(M) == \A o \in M \cup {Main} :
                            (o = Main \/ (color[o] # "black" /\ o \notin late) \/ o \in again)
                            => (Children(o, M \cup {Nil, Main}) \cap Objects) \subseteq M
           sets == {M \in {S2 \cup X : X \in SUBSET (alive \ S2)} : closed(M)}
<1>2. Reached(S2, again) = {o \in alive : \A M \in sets : o \in M}
  BY DEF Reached
<1>3. \A M \in sets : S2 \subseteq M
  OBVIOUS
<1> HIDE DEF sets
<1> QED BY <1>1, <1>2, <1>3

\* The first set that the atomic phase reaches has all that is strongly reachable.
LEMMA StrongReached ==
    ASSUME GCInv, gcstate = "propagate", NEW R,
           R = Reached({o \in alive : ~ IsWhite(o, color)}, {})
    PROVE  Strong \subseteq R
<1>1. GCType /\ HeapTyped /\ LiveClosed /\ NoneDead /\ BlackRefers
  BY DEF GCInv
<1> PICK S : S = {o \in alive : ~ IsWhite(o, color)}
  OBVIOUS
<1>2. alive \subseteq Live /\ alive \subseteq Objects /\ S \subseteq alive /\ Live \subseteq alive
  BY <1>1 DEF NoneDead, GCType, Live
<1>3. S \subseteq R /\ R \subseteq alive /\ TraversedWithin(R, {})
  BY <1>1, <1>2, ReachedClosed
<1>4. Stack(Main) \subseteq R
  <2>1. Refs(Main) \subseteq Children(Main, R \cup {Nil, Main}) \cap Objects
    BY <1>1, ChildrenAre, RefsAre
  <2>2. (Children(Main, R \cup {Nil, Main}) \cap Objects) \subseteq R
    BY <1>3 DEF TraversedWithin
  <2>3. Stack(Main) = Refs(Main)
    BY <1>1, RefsAre DEF Stack
  <2> QED BY <2>1, <2>2, <2>3
<1>5. ASSUME NEW o \in R PROVE StrongRefs(o, R) \subseteq R
  <2>1. o \in alive /\ o \in Objects /\ Refs(o) \subseteq alive /\ Refs(o) \subseteq Objects
    BY <1>1, <1>2, <1>3, RefsAre DEF LiveClosed
  <2>2. StrongRefs(o, R) \subseteq Refs(o)
    <3>1. Children(o, R \cup {Nil}) \subseteq Refs(o) \cup {Nil}
      BY <1>1, <2>1, ChildrenAre
    <3> QED BY <3>1 DEF StrongRefs
  <2>3. CASE o \in late
    BY <2>3 DEF StrongRefs
  <2>4. CASE o \notin late /\ color[o] = "black"
    <3>1. \A v \in Refs(o) : v \in S
      BY <1>1, <2>1, <2>4 DEF BlackRefers
    <3> QED BY <1>3, <2>2, <3>1
  <2>5. CASE o \notin late /\ color[o] # "black"
    <3>1. (Children(o, R \cup {Nil, Main}) \cap Objects) \subseteq R
      BY <1>3, <2>5 DEF TraversedWithin
    <3>2. CASE Is(o, Tables)
      <4>1. StrongRefs(o, R) = Children(o, R \cup {Nil}) \ {Nil}
        BY <2>5, <3>2 DEF StrongRefs
      <4>2. Children(o, R \cup {Nil}) \subseteq Children(o, R \cup {Nil, Main})
        <5>1. R \cup {Nil} \subseteq R \cup {Nil, Main}
          OBVIOUS
        <5> QED BY <1>1, <2>1, <5>1, ChildrenAre
      <4> QED BY <2>1, <2>2, <3>1, <4>1, <4>2
    <3>3. CASE ~ Is(o, Tables)
      <4>1. kind[o] = "udata" \/ kind[o] = "closure" \/ kind[o] = "upval" \/ kind[o] = "string"
            \/ kind[o] = "thread"
        <5>1. kind[o] \in Types /\ kind[o] # "unused"
          BY <1>1, <2>1 DEF GCType, HeapTyped
        <5> QED BY <2>1, <3>3, <5>1, KindsOf DEF Types, Tables
      <4>2. Refs(o) \subseteq Children(o, R \cup {Nil, Main})
        BY <1>1, <2>1, <4>1, ChildrenAre
      <4> QED BY <2>1, <2>2, <3>1, <4>2
    <3> QED BY <3>2, <3>3
  <2> QED BY <2>3, <2>4, <2>5
<1>6. R \in {M \in {Stack(Main) \cup X : X \in SUBSET Objects} : \A o \in M : StrongRefs(o, M) \subseteq M}
  <2>1. R = Stack(Main) \cup R /\ R \in SUBSET Objects
    BY <1>2, <1>3, <1>4
  <2> QED BY <1>5, <2>1
<1> QED BY <1>6 DEF Strong

\* A weak table that the program can get at loses an entry only for a weak key or
\* a weak value that was not strongly reachable, unless it is one of the tables
\* that traverseephemeron has linked into allweak.
THEOREM WeakTablesKeepReachable == Spec => WeakKeepsReachable
<1>1. ASSUME GCInv, SingleStep, NEW h \in Accessible \ late PROVE ~ WronglyTaken(h)
  <2> SUFFICES ASSUME Is(h, Tables), ref[h][2] # Nil, ref'[h][2] = Nil
               PROVE  \/ Is(h, {"weakvalue", "allweak"}) /\ Losable(ref[h][2])
                      \/ Is(h, {"ephemeron", "allweak"}) /\ Losable(ref[h][1])
    BY DEF WronglyTaken
  <2>1. h \in Live /\ h \in Objects
    BY <1>1, ReachableLive DEF Is
  <2>2. Atomic
    BY <1>1, <2>1, OtherStepsTakeNothing
  <2>3. gcstate = "propagate"
    BY <2>2 DEF Atomic
  <2>4. PICK strong, lost, fnz, kept, entry : AtomicStep(strong, lost, fnz, kept, entry)
    BY <2>2, AtomicIs
  <2>5. /\ strong = Reached({o \in alive : ~ IsWhite(o, color)}, {})
        /\ kept = Reached(strong \cup fnz, fnz)
        /\ entry = [x \in kept |-> Cleaned(x, strong, kept)]
        /\ ref' = [o \in DOMAIN ref |-> IF o \in kept THEN entry[o] ELSE ref[o]]
        /\ lost = Lost(strong) /\ fnz = Elements(tobefnz \o lost)
    BY <2>4 DEF AtomicStep
  <2>6. GCType /\ HeapTyped /\ GrayListed
    BY <1>1 DEF GCInv
  <2>7. h \in DOMAIN ref
    BY <2>1, <2>6 DEF GCType
  <2>8. h \in kept /\ ref'[h] = Cleaned(h, strong, kept)
    BY <2>5, <2>7
  <2>9. strong \subseteq kept
    BY <2>5, ReachedContains
  <2>10. \/ Is(h, {"weakvalue", "allweak"}) /\ Cleared(ref[h][2], strong)
         \/ Is(h, {"ephemeron", "allweak"}) /\ Cleared(ref[h][1], strong)
    BY <2>1, <2>6, <2>8, <2>9, CleanedIs
  <2>11. Strong \subseteq strong
    BY <1>1, <2>3, <2>5, StrongReached
  <2>12. \A v : Cleared(v, strong) => Losable(v)
    BY <2>11 DEF Cleared, Losable
  <2> QED BY <2>10, <2>12
<1>2. GCInv /\ [Next]_vars => [SingleStep => \A h \in Accessible \ late : ~ WronglyTaken(h)]_vars
  BY <1>1
<1> QED BY <1>2, CollectorInvariant, PTL DEF Spec, WeakKeepsReachable
=============================================================================
