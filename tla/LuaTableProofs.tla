--------------------------- MODULE LuaTableProofs ---------------------------
(***************************************************************************)
(* The tables of ltable.c, proved for any number of keys and any hash: a   *)
(* lookup finds what was assigned, rehash leaves room, # finds a border    *)
(* and a traversal returns every field once.  Then table.sort of           *)
(* ltablib.c, for any table and any order function.                        *)
(*                                                                         *)
(* The invariant of a table is Good.  Following next from a node leads to  *)
(* the nodes R[x], and no chain has a cycle (Linked); a key is in the      *)
(* chain of its main position, and the node there belongs there (Headed);  *)
(* a key is twice in a chain only if the later node is dead (Single).      *)
(* TableInv adds that the table holds what the history says, and           *)
(* TraversalInv that the traversal has returned what it has passed.        *)
(*                                                                         *)
(* The invariant of the sort is SortInv: the ranges that are left do not   *)
(* meet, and two elements are in order unless one range holds them both.   *)
(***************************************************************************)
EXTENDS LuaTable, LuaSort, SeqLemmas, FiniteSetTheorems

\* The nodes, and the key and the value of a node.
Nodes(a) == DOMAIN a.node
Node(k, d, v, i) == [key |-> k, dead |-> d, val |-> v, next |-> i]
NodeType == [key : Keys \cup {Nil}, dead : BOOLEAN, val : Keys \cup {Nil}, next : Nat \cup {None}]

TableType(a) ==
    /\ SizeNode(a) \in Nat /\ Nodes(a) = 0 .. SizeNode(a) - 1
    /\ a \in [array : Seq(Keys \cup {Nil}), node : [Nodes(a) -> NodeType], lastfree : Nat,
              hash : Hash, fits : BOOLEAN]

\* The elements of the array and the values of the nodes are at their keys.
ValuesOwn(a) ==
    /\ \A i \in 1 .. Len(a.array) : a.array[i] \in {Nil, i}
    /\ \A x \in Nodes(a) :
          /\ a.node[x].val \in {Nil, a.node[x].key}
          /\ a.node[x].dead => a.node[x].val = Nil
          /\ a.node[x].val # Nil => a.node[x].val \notin 1 .. Len(a.array)

\* getfreepos has passed only nodes with keys.
FreeBelow(a) ==
    /\ a.lastfree <= SizeNode(a)
    /\ \A x \in Nodes(a) : a.lastfree <= x => a.node[x].key # Nil

\* R leads from a node to the nodes from there to the end of its chain.
Linked(a, R) ==
    /\ R \in [Nodes(a) -> SUBSET Nodes(a)]
    /\ \A x \in Nodes(a) :
          \/ a.node[x].next = None /\ R[x] = {x}
          \/ /\ a.node[x].next \in Nodes(a) /\ x \notin R[a.node[x].next]
             /\ R[x] = {x} \cup R[a.node[x].next]
    /\ \A x, y \in Nodes(a) : a.node[x].next = a.node[y].next /\ a.node[x].next # None => x = y
    /\ \A x \in Nodes(a) : a.node[x].key = Nil =>
          a.node[x].next = None /\ \A y \in Nodes(a) : x \in R[y] => x = y

\* A key is in the chain of its main position, where a key is that belongs there.
Headed(a, R) ==
    \A x \in Nodes(a) : a.node[x].key # Nil =>
        /\ x \in R[MainPosition(a, a.node[x].key)]
        /\ a.node[MainPosition(a, a.node[x].key)].key # Nil
        /\ MainPosition(a, a.node[MainPosition(a, a.node[x].key)].key) = MainPosition(a, a.node[x].key)

\* A key may be there again if it is dead and comes later.
Single(a, R) ==
    \A x, y \in Nodes(a) :
        x # y /\ a.node[x].key = a.node[y].key /\ a.node[x].key # Nil /\ ~ a.node[x].dead
            => a.node[y].dead /\ y \in R[x]

Chained(a) == \E R : Linked(a, R) /\ Headed(a, R) /\ Single(a, R)

Good(a) ==
    /\ TableType(a) /\ ValuesOwn(a) /\ FreeBelow(a) /\ Chained(a)
    /\ Len(a.array) <= 2 * MaxInt + 1

-----------------------------------------------------------------------------
(* Nodes and chains. *)

LEMMA SizeIs ==
    ASSUME NEW a, NEW s \in Nat, Nodes(a) = 0 .. s - 1
    PROVE  SizeNode(a) = s /\ IsFiniteSet(Nodes(a))
<1>1. 0 \in Int /\ s - 1 \in Int /\ (0 > s - 1 => s = 0)
  OBVIOUS
<1>2. IsFiniteSet(0 .. s - 1) /\ Cardinality(0 .. s - 1) = IF 0 > s - 1 THEN 0 ELSE (s - 1) - 0 + 1
  BY <1>1, FS_Interval
<1>3. Cardinality(0 .. s - 1) = s
  BY <1>1, <1>2
<1> QED BY <1>2, <1>3 DEF SizeNode, Nodes

LEMMA Constants ==
    /\ MaxInt \in Nat \ {0} /\ Keys \subseteq Hashed /\ Nil \notin Hashed /\ Nil \notin Int
    /\ Ints \subseteq Keys /\ None \notin Nat
    /\ \A k \in Keys : k \in Int => k \in Ints
    /\ \A h \in Hash : h \in [Hashed -> Nat]
<1>1. /\ MaxInt \in Nat \ {0} /\ Objs \cap Int = {} /\ Nil \notin Objs /\ Nil \notin Int
      /\ None \notin Nat /\ \A h \in Hash : h \in [Hashed -> Nat]
  BY LuaTableAssumption
<1>2. 1 .. MaxInt \subseteq 1 .. 2 * MaxInt + 2 /\ 1 .. 2 * MaxInt + 2 \subseteq Int
  BY <1>1
<1>3. Keys \subseteq Hashed
  BY <1>2 DEF Keys, Ints, Hashed
<1>4. Nil \notin Hashed
  BY <1>1, <1>2 DEF Hashed
<1>5. Ints \subseteq Keys /\ \A k \in Keys : k \in Int => k \in Ints
  BY <1>1 DEF Keys
<1> QED BY <1>1, <1>3, <1>4, <1>5

LEMMA NodesAre ==
    ASSUME NEW a, TableType(a)
    PROVE  /\ SizeNode(a) \in Nat /\ Nodes(a) = 0 .. SizeNode(a) - 1
           /\ None \notin Nodes(a) /\ Nodes(a) \subseteq Nat
           /\ IsFiniteSet(Nodes(a)) /\ Cardinality(Nodes(a)) = SizeNode(a)
           /\ SizeNode(a) = 0 <=> Nodes(a) = {}
<1>1. SizeNode(a) \in Nat /\ Nodes(a) = 0 .. SizeNode(a) - 1
  BY DEF TableType
<1>2. IsFiniteSet(Nodes(a)) /\ Cardinality(Nodes(a)) = SizeNode(a)
  BY <1>1, SizeIs DEF SizeNode, Nodes
<1>3. 0 .. SizeNode(a) - 1 \subseteq Nat /\ (SizeNode(a) # 0 => 0 \in 0 .. SizeNode(a) - 1)
  BY <1>1
<1> QED BY <1>1, <1>2, <1>3, Constants, FS_EmptySet

\* A key's main position is a node.
LEMMA MainIs ==
    ASSUME NEW a, TableType(a), SizeNode(a) # 0, NEW k \in Hashed
    PROVE  MainPosition(a, k) \in Nodes(a)
<1>1. SizeNode(a) \in Nat \ {0} /\ Nodes(a) = 0 .. SizeNode(a) - 1 /\ a.hash[k] \in Nat
  BY Constants DEF TableType
<1> DEFINE d == IF k \in Objs \/ SizeNode(a) = 1 THEN SizeNode(a) ELSE SizeNode(a) - 1
<1>2. d \in Nat \ {0} /\ d - 1 <= SizeNode(a) - 1
  BY <1>1
<1>3. \A x \in Nat, e \in Nat \ {0} : x % e \in 0 .. e - 1
  OBVIOUS
<1>4. MainPosition(a, k) = a.hash[k] % d
  BY DEF MainPosition
<1> HIDE DEF d
<1>5. MainPosition(a, k) \in 0 .. d - 1
  BY <1>1, <1>2, <1>3, <1>4
<1> QED BY <1>1, <1>2, <1>5

LEMMA SameMain ==
    ASSUME NEW a, NEW b, b.hash = a.hash, Nodes(b) = Nodes(a)
    PROVE  SizeNode(b) = SizeNode(a) /\ \A k : MainPosition(b, k) = MainPosition(a, k)
  BY DEF MainPosition, SizeNode, Nodes

\* Reaching is reflexive, transitive and antisymmetric.
LEMMA ReachSelf ==
    ASSUME NEW a, NEW R, Linked(a, R), NEW x \in Nodes(a)
    PROVE  x \in R[x]
  BY DEF Linked


\* The chain from a node is well defined.
ChainUpTo(a, p, n, f) ==
    f = [m \in 0 .. n |-> IF m = 0 THEN p ELSE IF f[m - 1] = None THEN None ELSE a.node[f[m - 1]].next]

LEMMA ChainExists == \A a, p : \A n \in Nat : \E f : ChainUpTo(a, p, n, f)
<1> SUFFICES ASSUME NEW a, NEW p PROVE \A n \in Nat : \E f : ChainUpTo(a, p, n, f)
  OBVIOUS
<1> DEFINE After(x) == IF x = None THEN None ELSE a.node[x].next
           U == {n \in Nat : \E f : ChainUpTo(a, p, n, f)}
<1>1. 0 \in U
  <2>1. \A m \in 0 .. 0 : m = 0
    OBVIOUS
  <2>2. ChainUpTo(a, p, 0, [m \in 0 .. 0 |-> p])
    BY <2>1 DEF ChainUpTo
  <2> QED BY <2>2
<1>2. ASSUME NEW n \in U PROVE n + 1 \in U
  <2>1. PICK f : ChainUpTo(a, p, n, f)
    OBVIOUS
  <2> DEFINE g == [m \in 0 .. n + 1 |-> IF m = n + 1 THEN After(f[n]) ELSE f[m]]
  <2>2. \A m \in 0 .. n : f[m] = IF m = 0 THEN p ELSE After(f[m - 1])
    BY <2>1 DEF ChainUpTo
  <2> HIDE DEF After
  <2>3. \A m \in 0 .. n + 1 : g[m] = IF m = 0 THEN p ELSE After(g[m - 1])
    <3> TAKE m \in 0 .. n + 1
    <3>1. CASE m = n + 1
      <4>1. m # 0 /\ m - 1 = n /\ n \in 0 .. n + 1 /\ n # n + 1
        BY <3>1
      <4> QED BY <3>1, <4>1
    <3>2. CASE m # n + 1
      <4>1. m \in 0 .. n /\ (m # 0 => m - 1 \in 0 .. n + 1 /\ m - 1 # n + 1)
        BY <3>2
      <4> QED BY <2>2, <3>2, <4>1
    <3> QED BY <3>1, <3>2
  <2>4. g = [m \in 0 .. n + 1 |-> g[m]]
    OBVIOUS
  <2> HIDE DEF g
  <2>5. g = [m \in 0 .. n + 1 |-> IF m = 0 THEN p ELSE After(g[m - 1])]
    BY <2>3, <2>4
  <2>6. ChainUpTo(a, p, n + 1, g)
    BY <2>5 DEF ChainUpTo, After
  <2> QED BY <2>6
<1> HIDE DEF U
<1>3. U = Nat
  <2>1. U \subseteq Nat
    BY DEF U
  <2> QED BY <1>1, <1>2, <2>1, Induction
<1> QED BY <1>3 DEF U

LEMMA ChainIs ==
    ASSUME NEW a, NEW p, SizeNode(a) \in Nat
    PROVE  /\ DOMAIN Chain(a, p) = 0 .. SizeNode(a)
           /\ Chain(a, p)[0] = p
           /\ \A m \in Nat : m + 1 <= SizeNode(a) =>
                 Chain(a, p)[m + 1] = IF Chain(a, p)[m] = None THEN None
                                      ELSE a.node[Chain(a, p)[m]].next
<1> PICK f : f = Chain(a, p)
  OBVIOUS
<1>1. ChainUpTo(a, p, SizeNode(a), f)
  <2> DEFINE E(g) == ChainUpTo(a, p, SizeNode(a), g)
  <2>1. f = CHOOSE g : E(g)
    BY DEF Chain, ChainUpTo
  <2>2. \E g : E(g)
    BY ChainExists
  <2> HIDE DEF E
  <2>3. E(f)
    BY <2>1, <2>2, Zenon
  <2> QED BY <2>3 DEF E
<1>2. DOMAIN f = 0 .. SizeNode(a)
  BY <1>1 DEF ChainUpTo
<1>3. \A m \in 0 .. SizeNode(a) :
         f[m] = IF m = 0 THEN p ELSE IF f[m - 1] = None THEN None ELSE a.node[f[m - 1]].next
  BY <1>1 DEF ChainUpTo
<1>4. 0 \in 0 .. SizeNode(a) /\ \A m \in Nat : m + 1 <= SizeNode(a) =>
         m + 1 \in 0 .. SizeNode(a) /\ m + 1 # 0 /\ (m + 1) - 1 = m
  OBVIOUS
<1>5. f[0] = p
  BY <1>3, <1>4
<1>6. ASSUME NEW m \in Nat, m + 1 <= SizeNode(a)
      PROVE  f[m + 1] = IF f[m] = None THEN None ELSE a.node[f[m]].next
  BY <1>3, <1>4, <1>6
<1> QED BY <1>2, <1>5, <1>6

\* A node is reached from every node that is not after it.
LEMMA ChainGoesOn ==
    ASSUME NEW a, NEW R, TableType(a), Linked(a, R), NEW p \in Nodes(a), NEW m \in Nat, NEW l \in Nat,
           m <= l, l <= SizeNode(a), Chain(a, p)[l] # None
    PROVE  /\ Chain(a, p)[m] \in Nodes(a) /\ Chain(a, p)[l] \in R[Chain(a, p)[m]]
           /\ R[Chain(a, p)[l]] \subseteq R[Chain(a, p)[m]]
<1> PICK f : f = Chain(a, p)
  OBVIOUS
<1> DEFINE Onward(n) == /\ f[m] \in Nodes(a) /\ f[n] \in R[f[m]] /\ R[f[n]] \subseteq R[f[m]]
                        /\ f[n] \in Nodes(a)
           U == {n \in Nat : n >= m /\ n <= SizeNode(a) /\ f[n] # None => Onward(n)}
           V == {n \in Nat : n <= SizeNode(a) => f[n] = None \/ f[n] \in Nodes(a)}
<1>1. f[0] = p /\ SizeNode(a) \in Nat
      /\ \A n \in Nat : n + 1 <= SizeNode(a) => f[n + 1] = IF f[n] = None THEN None ELSE a.node[f[n]].next
  BY ChainIs DEF TableType
<1>2. \A x \in Nodes(a) : x \in R[x] /\ x # None
  BY ReachSelf, Constants DEF TableType
<1>3. \A x \in Nodes(a) : a.node[x].next # None =>
         a.node[x].next \in Nodes(a) /\ R[a.node[x].next] \subseteq R[x]
  BY DEF Linked
<1>4. 0 \in V
  BY <1>1
<1>5. ASSUME NEW n \in V PROVE n + 1 \in V
  BY <1>1, <1>3, <1>5
<1>6. V = Nat
  <2>1. V \subseteq Nat
    OBVIOUS
  <2> HIDE DEF V
  <2> QED BY <1>4, <1>5, <2>1, Induction
<1>7. 0 \in U
  <2> SUFFICES ASSUME 0 >= m, f[0] # None PROVE Onward(0)
    BY <1>1
  <2>1. m = 0
    OBVIOUS
  <2> QED BY <1>1, <1>2, <2>1
<1>8. ASSUME NEW n \in U PROVE n + 1 \in U
  <2> SUFFICES ASSUME n + 1 >= m, n + 1 <= SizeNode(a), f[n + 1] # None PROVE Onward(n + 1)
    OBVIOUS
  <2>1. f[n] # None /\ f[n + 1] = a.node[f[n]].next /\ n <= SizeNode(a) /\ f[n] \in Nodes(a)
    <3>1. n \in V /\ n \in Nat
      BY <1>6
    <3> HIDE DEF U
    <3> QED BY <1>1, <3>1
  <2>2. f[n + 1] \in Nodes(a) /\ R[f[n + 1]] \subseteq R[f[n]] /\ f[n + 1] \in R[f[n + 1]]
    <3> HIDE DEF U, V
    <3> QED BY <1>2, <1>3, <2>1
  <2>3. CASE m = n + 1
    BY <2>2, <2>3
  <2>4. CASE m # n + 1
    <3>1. n >= m
      BY <2>4
    <3>2. Onward(n)
      BY <1>1, <2>1, <3>1
    <3> HIDE DEF U, V
    <3> QED BY <2>2, <3>2
  <2> QED BY <2>3, <2>4
<1>9. U = Nat
  <2>1. U \subseteq Nat
    OBVIOUS
  <2> HIDE DEF U
  <2> QED BY <1>7, <1>8, <2>1, Induction
<1>10. Onward(l)
  BY <1>1, <1>9
<1> QED BY <1>10

LEMMA ChainReaches ==
    ASSUME NEW a, NEW R, TableType(a), Linked(a, R), NEW p \in Nodes(a), NEW i \in R[p]
    PROVE  \E m \in Nat : m < SizeNode(a) /\ Chain(a, p)[m] = i
<1> PICK f : f = Chain(a, p)
  OBVIOUS
<1> SUFFICES ASSUME \A m \in Nat : m < SizeNode(a) => f[m] # i PROVE FALSE
  OBVIOUS
<1> DEFINE s == SizeNode(a)
           Left(m) == f[m] \in Nodes(a) /\ i \in R[f[m]] /\ Cardinality(R[f[m]]) <= s - m
           U == {m \in Nat : m <= s => Left(m)}
<1>1. s \in Nat /\ f[0] = p
      /\ \A n \in Nat : n + 1 <= s => f[n + 1] = IF f[n] = None THEN None ELSE a.node[f[n]].next
  BY ChainIs DEF TableType
<1>2. IsFiniteSet(Nodes(a)) /\ Cardinality(Nodes(a)) = s
  BY SizeIs DEF TableType, SizeNode, Nodes
<1>3. \A x \in Nodes(a) : R[x] \in SUBSET Nodes(a) /\ x # None /\ x \in R[x]
  BY ReachSelf, Constants DEF Linked, TableType
<1>4. \A x \in Nodes(a) : IsFiniteSet(R[x]) /\ Cardinality(R[x]) \in Nat /\ Cardinality(R[x]) <= s
  <2> TAKE x \in Nodes(a)
  <2>1. IsFiniteSet(R[x]) /\ Cardinality(R[x]) <= s
    BY <1>2, <1>3, FS_Subset
  <2> QED BY <2>1, FS_CardinalityType
<1>5. 0 \in U
  BY <1>1, <1>4
<1>6. ASSUME NEW m \in U, m + 1 <= s PROVE Left(m + 1)
  <2> PICK x : x = f[m]
    OBVIOUS
  <2>1. m \in Nat /\ m <= s /\ x \in Nodes(a) /\ i \in R[x] /\ Cardinality(R[x]) <= s - m /\ x # i
    BY <1>1, <1>6
  <2> PICK y : y = a.node[x].next
    OBVIOUS
  <2>2. y \in Nodes(a) /\ x \notin R[y] /\ R[x] = R[y] \cup {x}
    BY <2>1 DEF Linked
  <2>3. i \in R[y] /\ f[m + 1] = y
    BY <1>1, <1>3, <1>6, <2>1, <2>2
  <2>4. Cardinality(R[x]) = Cardinality(R[y]) + 1
    <3> PICK S : S = R[y]
      OBVIOUS
    <3>1. IsFiniteSet(S) /\ x \notin S /\ R[x] = S \cup {x}
      BY <1>4, <2>2
    <3>2. Cardinality(S \cup {x}) = Cardinality(S) + 1
      BY <3>1, FS_AddElement
    <3> QED BY <3>1, <3>2
  <2>5. Cardinality(R[y]) \in Nat /\ Cardinality(R[x]) \in Nat
    BY <1>4, <2>1, <2>2
  <2>6. Cardinality(R[y]) <= s - (m + 1)
    BY <1>1, <2>1, <2>4, <2>5
  <2> QED BY <2>2, <2>3, <2>6
<1>7. U = Nat
  <2>1. U \subseteq Nat /\ \A m \in U : m + 1 \in U
    BY <1>6
  <2> HIDE DEF U
  <2> QED BY <1>5, <2>1, Induction
<1>8. Left(s)
  BY <1>1, <1>7
<1>9. Cardinality(R[f[s]]) = 0
  BY <1>1, <1>4, <1>8
<1>10. R[f[s]] = {}
  BY <1>4, <1>8, <1>9, FS_EmptySet
<1> QED BY <1>8, <1>10

LEMMA ReachOrder ==
    ASSUME NEW a, NEW R, TableType(a), Linked(a, R), NEW x \in Nodes(a), NEW y \in R[x]
    PROVE  y \in Nodes(a) /\ R[y] \subseteq R[x] /\ (x \in R[y] => x = y)
<1>1. \A p \in Nodes(a) : \A i \in R[p] : i \in Nodes(a) /\ R[i] \subseteq R[p]
  <2> TAKE p \in Nodes(a)
  <2> TAKE i \in R[p]
  <2>1. PICK m \in Nat : m < SizeNode(a) /\ Chain(a, p)[m] = i
    BY ChainReaches
  <2>2. SizeNode(a) \in Nat /\ 0 <= SizeNode(a) /\ 0 \in Nat /\ Chain(a, p)[0] = p
    BY ChainIs DEF TableType
  <2>3. i \in Nodes(a) /\ i # None
    BY Constants DEF Linked, TableType
  <2>4. R[Chain(a, p)[m]] \subseteq R[Chain(a, p)[0]]
    <3>1. 0 <= m /\ m <= SizeNode(a) /\ Chain(a, p)[m] # None
      BY <2>1, <2>2, <2>3
    <3> QED BY <2>1, <2>2, <3>1, ChainGoesOn
  <2> QED BY <2>1, <2>2, <2>3, <2>4
<1>2. ASSUME x \in R[y], x # y PROVE FALSE
  <2> PICK z : z = a.node[x].next
    OBVIOUS
  <2>1. z \in Nodes(a) /\ x \notin R[z] /\ y \in R[z]
    BY <1>2 DEF Linked
  <2>2. R[y] \subseteq R[z]
    BY <1>1, <2>1
  <2> QED BY <1>2, <2>1, <2>2
<1> QED BY <1>1, <1>2

-----------------------------------------------------------------------------
(* Lookups. *)

\* The nodes that a search may find.
Hits(a, R, k, D) == {x \in R[MainPosition(a, k)] : a.node[x].key = k /\ a.node[x].dead \in D}

LEMMA FindIs ==
    ASSUME NEW a, NEW R, TableType(a), Linked(a, R), NEW k \in Hashed, NEW D, SizeNode(a) # 0
    PROVE  \/ Find(a, k, D) = None /\ Hits(a, R, k, D) = {}
           \/ Find(a, k, D) \in Hits(a, R, k, D) /\ Hits(a, R, k, D) \subseteq R[Find(a, k, D)]
<1> PICK p : p = MainPosition(a, k)
  OBVIOUS
<1> PICK c : c = Chain(a, p)
  OBVIOUS
<1> PICK T : T = {n \in DOMAIN c : c[n] # None /\ a.node[c[n]].key = k /\ a.node[c[n]].dead \in D}
  OBVIOUS
<1>1. Find(a, k, D) = IF T = {} THEN None ELSE c[Min(T)]
  BY DEF Find
<1>2. p \in Nodes(a) /\ SizeNode(a) \in Nat /\ DOMAIN c = 0 .. SizeNode(a) /\ c[0] = p
  <2>1. p \in Nodes(a) /\ SizeNode(a) \in Nat
    BY MainIs, NodesAre
  <2> QED BY <2>1, ChainIs
<1>3. ASSUME NEW x \in Hits(a, R, k, D) PROVE \E m \in T : c[m] = x
  <2>1. x \in R[p] /\ a.node[x].key = k /\ a.node[x].dead \in D
    BY <1>3 DEF Hits
  <2>2. PICK m \in Nat : m < SizeNode(a) /\ c[m] = x
    BY <1>2, <2>1, ChainReaches
  <2>3. m \in DOMAIN c
    BY <1>2, <2>2
  <2>4. x \in Nodes(a) /\ x # None
    BY <1>2, <2>1, ReachOrder, NodesAre
  <2> QED BY <2>1, <2>2, <2>3, <2>4
<1>4. CASE T = {}
  BY <1>1, <1>3, <1>4
<1>5. ASSUME NEW m \in T
      PROVE  /\ m \in Nat /\ m <= SizeNode(a) /\ 0 <= m /\ c[m] # None
             /\ a.node[c[m]].key = k /\ a.node[c[m]].dead \in D
  BY <1>2, <1>5
<1>6. CASE T # {}
  <2>1. PICK m \in T : \A l \in T : m <= l
    <3>1. T \subseteq Nat
      BY <1>5
    <3> QED BY <1>6, <3>1, LeastNat
  <2>2. Min(T) \in T /\ \A l \in T : Min(T) <= l
    <3>1. \E n \in T : \A l \in T : n <= l
      BY <2>1
    <3> QED BY <3>1, Zenon DEF Min
  <2> PICK n : n = Min(T)
    OBVIOUS
  <2>3. n \in Nat /\ n <= SizeNode(a) /\ 0 <= n /\ c[n] # None /\ a.node[c[n]].key = k /\ a.node[c[n]].dead \in D
    BY <1>5, <2>2
  <2>4. c[n] \in R[p]
    <3>1. 0 \in Nat
      OBVIOUS
    <3>2. Chain(a, p)[n] \in R[Chain(a, p)[0]]
      BY <1>2, <2>3, <3>1, ChainGoesOn
    <3> QED BY <1>2, <3>2
  <2>5. c[n] \in Hits(a, R, k, D)
    BY <2>3, <2>4 DEF Hits
  <2>6. ASSUME NEW x \in Hits(a, R, k, D) PROVE x \in R[c[n]]
    <3>1. PICK l \in T : c[l] = x
      BY <1>3
    <3>2. l \in Nat /\ l <= SizeNode(a) /\ n <= l /\ c[l] # None
      BY <1>5, <2>2, <3>1
    <3> QED BY <1>2, <2>3, <3>1, <3>2, ChainGoesOn
  <2> QED BY <1>1, <1>6, <2>5, <2>6
<1> QED BY <1>4, <1>6

\* What a search finds does not depend on the values, nor on the order of the nodes
\* that are not linked.
LEMMA FindOnce ==
    ASSUME NEW a, NEW b, NEW R, TableType(a), Linked(a, R), TableType(b), Linked(b, R), NEW k \in Hashed,
           NEW D, SizeNode(a) # 0, SizeNode(b) # 0, Hits(a, R, k, D) = Hits(b, R, k, D),
           R[MainPosition(a, k)] \subseteq Nodes(a)
    PROVE  Find(a, k, D) = Find(b, k, D)
<1> PICK T : T = Hits(a, R, k, D)
  OBVIOUS
<1>1. \/ Find(a, k, D) = None /\ T = {}
      \/ Find(a, k, D) \in T /\ T \subseteq R[Find(a, k, D)]
  BY FindIs
<1>2. \/ Find(b, k, D) = None /\ T = {}
      \/ Find(b, k, D) \in T /\ T \subseteq R[Find(b, k, D)]
  BY FindIs
<1>3. T \subseteq Nodes(a)
  BY DEF Hits
<1>4. \A x, y \in T : y \in R[x] /\ x \in R[y] => x = y
  BY <1>3, ReachOrder
<1> QED BY <1>1, <1>2, <1>4

\* luaH_get for a key of the hash part.
LEMMA NodeOfIs ==
    ASSUME NEW a, TableType(a), Chained(a), NEW k \in Hashed
    PROVE  \/ NodeOf(a, k) = None /\ \A x \in Nodes(a) : a.node[x].key = k => a.node[x].dead
           \/ /\ NodeOf(a, k) \in Nodes(a) /\ NodeOf(a, k) # None
              /\ a.node[NodeOf(a, k)].key = k /\ ~ a.node[NodeOf(a, k)].dead
<1> PICK R : Linked(a, R) /\ Headed(a, R) /\ Single(a, R)
  BY DEF Chained
<1>1. CASE SizeNode(a) = 0
  <2>1. Nodes(a) = {}
    BY <1>1 DEF TableType
  <2> QED BY <1>1, <2>1 DEF NodeOf, Find
<1>2. CASE SizeNode(a) # 0
  <2> PICK n : n = NodeOf(a, k)
    OBVIOUS
  <2>1. \/ n = None /\ Hits(a, R, k, {FALSE}) = {}
        \/ n \in Hits(a, R, k, {FALSE})
    BY <1>2, FindIs DEF NodeOf
  <2>2. k # Nil /\ MainPosition(a, k) \in Nodes(a) /\ None \notin Nodes(a)
    BY <1>2, MainIs, Constants DEF TableType
  <2>3. R[MainPosition(a, k)] \subseteq Nodes(a)
    BY <2>2 DEF Linked
  <2>4. \A x \in Nodes(a) : a.node[x].dead \in BOOLEAN /\ (a.node[x].key = k => x \in R[MainPosition(a, k)])
    BY <2>2 DEF Headed, TableType, NodeType
  <2>5. CASE n = None /\ Hits(a, R, k, {FALSE}) = {}
    <3>1. \A x \in Nodes(a) : a.node[x].key = k => a.node[x].dead # FALSE
      BY <2>4, <2>5 DEF Hits
    <3> QED BY <2>4, <2>5, <3>1
  <2>6. CASE n \in Hits(a, R, k, {FALSE})
    BY <2>2, <2>3, <2>6 DEF Hits
  <2> QED BY <2>1, <2>5, <2>6
<1> QED BY <1>1, <1>2

\* What is in a table: the value at key k is k.
Contents(a) ==
    {k \in Keys : \/ k \in 1 .. Len(a.array) /\ a.array[k] = k
                  \/ \E x \in Nodes(a) : a.node[x].val = k}

\* luaH_get: a key finds itself or nothing.
LEMMA GetIs ==
    ASSUME NEW a, TableType(a), ValuesOwn(a), Chained(a), NEW k \in Hashed
    PROVE  Get(a, k) = IF k \in Contents(a) THEN k ELSE Nil
<1>1. Len(a.array) \in Nat /\ \A i \in 1 .. Len(a.array) : a.array[i] \in Keys \cup {Nil}
  BY DEF TableType
<1>2. \A x \in Nodes(a) : /\ a.node[x].val \in {Nil, a.node[x].key} /\ a.node[x].val \in Keys \cup {Nil}
                          /\ a.node[x].dead => a.node[x].val = Nil
  BY DEF ValuesOwn, TableType, NodeType
<1>3. k # Nil /\ Nil \notin Keys
  BY Constants
<1>4. CASE InArray(a, k)
  <2>1. k \in 1 .. Len(a.array) /\ a.array[k] \in {Nil, k} /\ Get(a, k) = a.array[k]
    BY <1>4 DEF InArray, ValuesOwn, Get
  <2>2. \A x \in Nodes(a) : a.node[x].val # k
    BY <1>3, <2>1 DEF ValuesOwn
  <2> QED BY <1>1, <1>3, <2>1, <2>2 DEF Contents
<1>5. CASE ~ InArray(a, k)
  <2> PICK n : n = NodeOf(a, k)
    OBVIOUS
  <2>1. Get(a, k) = IF n = None THEN Nil ELSE a.node[n].val
    BY <1>5 DEF Get
  <2>2. k \in Contents(a) <=> \E x \in Nodes(a) : a.node[x].val = k
    BY <1>2, <1>3, <1>5 DEF Contents, InArray
  <2>3. CASE n = None
    <3>1. \A x \in Nodes(a) : a.node[x].key = k => a.node[x].dead
      BY <2>3, NodeOfIs
    <3> QED BY <1>2, <1>3, <2>1, <2>2, <2>3, <3>1
  <2>4. CASE n # None
    <3>1. n \in Nodes(a) /\ a.node[n].key = k /\ ~ a.node[n].dead
      BY <2>4, NodeOfIs
    <3>2. ASSUME NEW x \in Nodes(a), a.node[x].val = k PROVE x = n
      <4>1. a.node[x].key = k /\ ~ a.node[x].dead
        BY <1>2, <1>3, <3>2
      <4>2. PICK R : Single(a, R)
        BY DEF Chained
      <4> QED BY <1>3, <3>1, <4>1, <4>2 DEF Single
    <3> QED BY <1>2, <1>3, <2>1, <2>2, <2>4, <3>1, <3>2
  <2> QED BY <2>3, <2>4
<1> QED BY <1>4, <1>5

-----------------------------------------------------------------------------
(* Insertions. *)

LEMMA FreePosIs ==
    ASSUME NEW a, TableType(a), FreeBelow(a)
    PROVE  \/ FreePos(a) = None /\ \A x \in Nodes(a) : a.node[x].key # Nil
           \/ /\ FreePos(a) \in Nodes(a) /\ FreePos(a) # None /\ a.node[FreePos(a)].key = Nil
              /\ \A x \in Nodes(a) : FreePos(a) < x => a.node[x].key # Nil
<1> PICK T : T = {i \in 0 .. a.lastfree - 1 : a.node[i].key = Nil}
  OBVIOUS
<1>1. FreePos(a) = IF T = {} THEN None ELSE Max(T)
  BY DEF FreePos
<1>2. a.lastfree \in Nat /\ a.lastfree <= SizeNode(a) /\ SizeNode(a) \in Nat
      /\ Nodes(a) = 0 .. SizeNode(a) - 1
  BY DEF TableType, FreeBelow
<1>3. T \subseteq Nodes(a) /\ None \notin Nodes(a) /\ Nodes(a) \subseteq Nat
  BY <1>2, NodesAre
<1>4. \A x \in Nodes(a) : a.node[x].key = Nil => x \in T
  <2> SUFFICES ASSUME NEW x \in Nodes(a), a.node[x].key = Nil PROVE x \in T
    OBVIOUS
  <2>1. ~ a.lastfree <= x
    BY DEF FreeBelow
  <2> QED BY <1>2, <2>1
<1>5. CASE T = {}
  BY <1>1, <1>4, <1>5
<1>6. CASE T # {}
  <2> DEFINE U == {SizeNode(a) - x : x \in T}
  <2>1. U \subseteq Nat /\ U # {}
    BY <1>2, <1>3, <1>6
  <2>2. PICK u \in U : \A w \in U : u <= w
    BY <2>1, LeastNat
  <2>3. PICK n \in T : u = SizeNode(a) - n
    OBVIOUS
  <2>4. \A x \in T : n >= x
    <3> TAKE x \in T
    <3>1. SizeNode(a) - n <= SizeNode(a) - x
      BY <2>2, <2>3
    <3>2. x \in Nat /\ n \in Nat
      BY <1>3
    <3> QED BY <1>2, <3>1, <3>2
  <2>5. Max(T) \in T /\ \A x \in T : Max(T) >= x
    <3>1. \E m \in T : \A x \in T : m >= x
      BY <2>4
    <3> QED BY <3>1, Zenon DEF Max
  <2> PICK m : m = Max(T)
    OBVIOUS
  <2>6. m \in Nodes(a) /\ a.node[m].key = Nil /\ FreePos(a) = m
    BY <1>1, <1>3, <1>6, <2>5
  <2>7. ASSUME NEW x \in Nodes(a), m < x PROVE a.node[x].key # Nil
    <3>1. x \notin T
      BY <1>3, <2>5, <2>6, <2>7
    <3> QED BY <1>4, <3>1
  <2> QED BY <1>3, <2>6, <2>7
<1> QED BY <1>5, <1>6

\* How an assignment to an absent key changes the nodes: a node without a value is
\* taken, or the new one is linked behind the one at the main position, or the latter
\* is moved.
Entered(k, v, i) == Node(k, FALSE, v, i)

Kept(a, b) ==
    /\ TableType(b) /\ Nodes(b) = Nodes(a) /\ b.array = a.array /\ b.hash = a.hash /\ b.fits = a.fits

Overwritten(a, b, p, k, v) ==
    /\ p \in Nodes(a) /\ a.node[p].val = Nil
    /\ Kept(a, b) /\ b.lastfree = a.lastfree
    /\ b.node[p] = Entered(k, v, a.node[p].next)
    /\ \A x \in Nodes(a) : x # p => b.node[x] = a.node[x]

LinkedIn(a, b, p, n, k, v) ==
    /\ p \in Nodes(a) /\ a.node[p].val # Nil /\ n \in Nodes(a) /\ a.node[n].key = Nil
    /\ MainPosition(a, a.node[p].key) = p
    /\ Kept(a, b) /\ b.lastfree = n
    /\ b.node[p] = Node(a.node[p].key, a.node[p].dead, a.node[p].val, n)
    /\ b.node[n] = Entered(k, v, a.node[p].next)
    /\ \A x \in Nodes(a) : x # p /\ x # n => b.node[x] = a.node[x]

MovedAside(a, b, p, n, q, k, v) ==
    /\ p \in Nodes(a) /\ a.node[p].val # Nil /\ n \in Nodes(a) /\ a.node[n].key = Nil
    /\ MainPosition(a, a.node[p].key) # p
    /\ q \in Nodes(a) /\ a.node[q].next = p
    /\ Kept(a, b) /\ b.lastfree = n
    /\ b.node[q] = Node(a.node[q].key, a.node[q].dead, a.node[q].val, n)
    /\ b.node[n] = a.node[p]
    /\ b.node[p] = Entered(k, v, None)
    /\ \A x \in Nodes(a) : x # p /\ x # n /\ x # q => b.node[x] = a.node[x]

Full(a, b) ==
    /\ \A x \in Nodes(a) : a.node[x].key # Nil
    /\ TableType(b) /\ b.node = a.node /\ b.array = a.array /\ b.hash = a.hash
    /\ b.lastfree = 0 /\ b.fits = FALSE

\* A table with other nodes.
With(a, nd, lf, f) == [array |-> a.array, node |-> nd, lastfree |-> lf, hash |-> a.hash, fits |-> f]

Rebuilt(a, b, nd, lf, f) ==
    /\ TableType(b) /\ Nodes(b) = Nodes(a) /\ b.node = nd /\ b.lastfree = lf /\ b.fits = f
    /\ b.array = a.array /\ b.hash = a.hash

LEMMA WithIs ==
    ASSUME NEW a, TableType(a), NEW nd \in [Nodes(a) -> NodeType], NEW lf \in Nat, NEW f \in BOOLEAN,
           NEW b, b = With(a, nd, lf, f)
    PROVE  Rebuilt(a, b, nd, lf, f)
<1>1. a.array \in Seq(Keys \cup {Nil}) /\ a.hash \in Hash
  BY DEF TableType
<1>2. b.node = nd /\ b.array = a.array /\ b.hash = a.hash /\ b.lastfree = lf /\ b.fits = f
      /\ b = [array |-> a.array, node |-> nd, lastfree |-> lf, hash |-> a.hash, fits |-> f]
  BY DEF With
<1>3. Nodes(b) = Nodes(a) /\ SizeNode(b) = SizeNode(a)
  BY <1>2 DEF Nodes, SizeNode
<1>4. TableType(b)
  BY <1>1, <1>2, <1>3 DEF TableType
<1> QED BY <1>2, <1>3, <1>4 DEF Rebuilt

LEMMA IsWith ==
    ASSUME NEW a, TableType(a)
    PROVE  /\ a = With(a, a.node, a.lastfree, a.fits)
           /\ \A nd : [a EXCEPT !.node = nd] = With(a, nd, a.lastfree, a.fits)
           /\ \A lf : [a EXCEPT !.lastfree = lf] = With(a, a.node, lf, a.fits)
           /\ \A f : [a EXCEPT !.fits = f] = With(a, a.node, a.lastfree, f)
           /\ a.node \in [Nodes(a) -> NodeType] /\ a.lastfree \in Nat /\ a.fits \in BOOLEAN
<1>1. a = With(a, a.node, a.lastfree, a.fits)
      /\ a.node \in [Nodes(a) -> NodeType] /\ a.lastfree \in Nat /\ a.fits \in BOOLEAN
  BY DEF TableType, With
<1>2. \A nd : [a EXCEPT !.node = nd] = With(a, nd, a.lastfree, a.fits)
  BY <1>1 DEF With
<1>3. \A lf : [a EXCEPT !.lastfree = lf] = With(a, a.node, lf, a.fits)
  BY <1>1 DEF With
<1>4. \A f : [a EXCEPT !.fits = f] = With(a, a.node, a.lastfree, f)
  BY <1>1 DEF With
<1> QED BY <1>1, <1>2, <1>3, <1>4

\* A table of which one node is written.
Written(a, b, n, c) ==
    /\ Kept(a, b) /\ b.lastfree = a.lastfree /\ b.node[n] = c
    /\ \A x \in Nodes(a) : x # n => b.node[x] = a.node[x]

LEMMA NodeAt ==
    ASSUME NEW a, TableType(a), NEW n \in Nodes(a), NEW c \in NodeType, NEW b, b = [a EXCEPT !.node[n] = c]
    PROVE  Written(a, b, n, c)
<1> PICK nd : nd = [a.node EXCEPT ![n] = c]
  OBVIOUS
<1>1. a.node \in [Nodes(a) -> NodeType] /\ a.lastfree \in Nat /\ a.fits \in BOOLEAN
  BY IsWith
<1>2. nd \in [Nodes(a) -> NodeType] /\ nd[n] = c /\ \A x \in Nodes(a) : x # n => nd[x] = a.node[x]
  BY <1>1
<1>3. b = [a EXCEPT !.node = nd]
  OBVIOUS
<1>4. b = With(a, nd, a.lastfree, a.fits)
  BY <1>3, IsWith
<1>5. /\ TableType(b) /\ Nodes(b) = Nodes(a) /\ b.node = nd /\ b.lastfree = a.lastfree
      /\ b.fits = a.fits /\ b.array = a.array /\ b.hash = a.hash
  <2>1. Rebuilt(a, b, nd, a.lastfree, a.fits)
    BY <1>1, <1>2, <1>4, WithIs
  <2> QED BY <2>1 DEF Rebuilt
<1> QED BY <1>2, <1>5 DEF Written, Kept

KeySet(a, n, k) == [a EXCEPT !.node[n].key = k]
DeadReset(a, n) == [a EXCEPT !.node[n].dead = FALSE]
ValueSet(a, n, v) == [a EXCEPT !.node[n].val = v]
NodeSet(a, n, c) == [a EXCEPT !.node[n] = c]
NextSet(a, n, i) == [a EXCEPT !.node[n].next = i]
Unfit(a) == [a EXCEPT !.fits = FALSE]
LastfreeSet(a, lf) == [a EXCEPT !.lastfree = lf]

LEMMA FieldAt ==
    ASSUME NEW a, TableType(a), NEW n \in Nodes(a)
    PROVE  /\ \A k \in Keys \cup {Nil} :
                 /\ Written(a, KeySet(a, n, k), n, Node(k, a.node[n].dead, a.node[n].val, a.node[n].next))
                 /\ Written(a, ValueSet(a, n, k), n, Node(a.node[n].key, a.node[n].dead, k, a.node[n].next))
           /\ \A i \in Nat \cup {None} : Written(a, NextSet(a, n, i), n, Node(a.node[n].key, a.node[n].dead, a.node[n].val, i))
           /\ Written(a, DeadReset(a, n), n, Node(a.node[n].key, FALSE, a.node[n].val, a.node[n].next))
<1> SUFFICES ASSUME NEW k \in Keys \cup {Nil}, NEW i \in Nat \cup {None}
             PROVE  /\ Written(a, KeySet(a, n, k), n, Node(k, a.node[n].dead, a.node[n].val, a.node[n].next))
                    /\ Written(a, DeadReset(a, n), n, Node(a.node[n].key, FALSE, a.node[n].val, a.node[n].next))
                    /\ Written(a, ValueSet(a, n, k), n, Node(a.node[n].key, a.node[n].dead, k, a.node[n].next))
                    /\ Written(a, NextSet(a, n, i), n, Node(a.node[n].key, a.node[n].dead, a.node[n].val, i))
  OBVIOUS
<1> PICK c : c = a.node[n]
  OBVIOUS
<1>1. c \in NodeType /\ FALSE \in BOOLEAN
  BY IsWith
<1>2. /\ [c EXCEPT !.key = k] = Node(k, c.dead, c.val, c.next)
      /\ [c EXCEPT !.dead = FALSE] = Node(c.key, FALSE, c.val, c.next)
      /\ [c EXCEPT !.val = k] = Node(c.key, c.dead, k, c.next)
      /\ [c EXCEPT !.next = i] = Node(c.key, c.dead, c.val, i)
  <2>1. c = [key |-> c.key, dead |-> c.dead, val |-> c.val, next |-> c.next]
    BY <1>1 DEF NodeType
  <2>2. [c EXCEPT !.key = k] = Node(k, c.dead, c.val, c.next)
    BY <2>1 DEF Node
  <2>3. [c EXCEPT !.dead = FALSE] = Node(c.key, FALSE, c.val, c.next)
    <3>1. \A f : [c EXCEPT !.dead = f] = Node(c.key, f, c.val, c.next)
      BY <2>1 DEF Node
    <3> QED BY <3>1, Zenon
  <2>4. [c EXCEPT !.val = k] = Node(c.key, c.dead, k, c.next)
    BY <2>1 DEF Node
  <2>5. [c EXCEPT !.next = i] = Node(c.key, c.dead, c.val, i)
    BY <2>1 DEF Node
  <2> QED BY <2>2, <2>3, <2>4, <2>5
<1>3. /\ Node(k, c.dead, c.val, c.next) \in NodeType
      /\ Node(c.key, FALSE, c.val, c.next) \in NodeType
      /\ Node(c.key, c.dead, k, c.next) \in NodeType
      /\ Node(c.key, c.dead, c.val, i) \in NodeType
  BY <1>1 DEF NodeType, Node
<1>4. KeySet(a, n, k) = [a EXCEPT !.node[n] = [c EXCEPT !.key = k]]
  BY DEF KeySet
<1>5. DeadReset(a, n) = [a EXCEPT !.node[n] = [c EXCEPT !.dead = FALSE]]
  BY DEF DeadReset
<1>6. ValueSet(a, n, k) = [a EXCEPT !.node[n] = [c EXCEPT !.val = k]]
  BY DEF ValueSet
<1>7. NextSet(a, n, i) = [a EXCEPT !.node[n] = [c EXCEPT !.next = i]]
  BY DEF NextSet
<1>8. \A d \in NodeType : Written(a, [a EXCEPT !.node[n] = d], n, d)
  BY NodeAt
<1>9. Written(a, KeySet(a, n, k), n, Node(k, c.dead, c.val, c.next))
  BY <1>2, <1>3, <1>4, <1>8
<1>10. Written(a, DeadReset(a, n), n, Node(c.key, FALSE, c.val, c.next))
  <2> PICK e : e = Node(c.key, FALSE, c.val, c.next)
    OBVIOUS
  <2>1. e \in NodeType
    BY <1>3
  <2>2. DeadReset(a, n) = [a EXCEPT !.node[n] = e]
    BY <1>2, <1>5
  <2>3. Written(a, DeadReset(a, n), n, e)
    BY <1>8, <2>1, <2>2
  <2> QED BY <2>3
<1>11. Written(a, ValueSet(a, n, k), n, Node(c.key, c.dead, k, c.next))
  BY <1>2, <1>3, <1>6, <1>8
<1>12. Written(a, NextSet(a, n, i), n, Node(c.key, c.dead, c.val, i))
  BY <1>2, <1>3, <1>7, <1>8
<1> QED BY <1>9, <1>10, <1>11, <1>12

LEMMA NodeFields ==
    \A k, d, v, i : /\ Node(k, d, v, i).key = k /\ Node(k, d, v, i).dead = d
                    /\ Node(k, d, v, i).val = v /\ Node(k, d, v, i).next = i
  BY DEF Node

LEMMA EnteredIs ==
    ASSUME NEW k, NEW v, NEW i
    PROVE  /\ Entered(k, v, i).key = k /\ ~ Entered(k, v, i).dead
           /\ Entered(k, v, i).val = v /\ Entered(k, v, i).next = i
           /\ [[key |-> k, dead |-> FALSE, val |-> v, next |-> None] EXCEPT !.next = i] = Entered(k, v, i)
           /\ k \in Keys /\ v \in Keys \cup {Nil} /\ i \in Nat \cup {None} => Entered(k, v, i) \in NodeType
<1> PICK f \in BOOLEAN : f = FALSE
  OBVIOUS
<1> PICK e : e = Entered(k, v, i)
  OBVIOUS
<1>1. e = [key |-> k, dead |-> f, val |-> v, next |-> i]
  BY DEF Entered, Node
<1>2. e.key = k /\ e.dead = f /\ e.val = v /\ e.next = i
  BY <1>1
<1>3. [[key |-> k, dead |-> f, val |-> v, next |-> None] EXCEPT !.next = i] = e
  BY <1>1
<1>4. k \in Keys /\ v \in Keys \cup {Nil} /\ i \in Nat \cup {None} => e \in NodeType
  BY <1>1 DEF NodeType
<1> QED BY <1>2, <1>3, <1>4

LEMMA WrittenTwice ==
    ASSUME NEW a, NEW b, NEW e, NEW n, NEW c, NEW d, Written(a, b, n, c), Written(b, e, n, d)
    PROVE  Written(a, e, n, d)
  BY DEF Written, Kept

LEMMA LastfreeAt ==
    ASSUME NEW a, TableType(a), NEW lf \in Nat
    PROVE  /\ Kept(a, LastfreeSet(a, lf)) /\ LastfreeSet(a, lf).lastfree = lf
           /\ LastfreeSet(a, lf).node = a.node

<1>1. a.node \in [Nodes(a) -> NodeType] /\ a.lastfree \in Nat /\ a.fits \in BOOLEAN
  BY IsWith
<1> PICK b : b = LastfreeSet(a, lf)
  OBVIOUS
<1>2. b = With(a, a.node, lf, a.fits)
  BY IsWith DEF LastfreeSet
<1>3. /\ TableType(b) /\ Nodes(b) = Nodes(a) /\ b.node = a.node /\ b.lastfree = lf
      /\ b.fits = a.fits /\ b.array = a.array /\ b.hash = a.hash
  <2>1. Rebuilt(a, b, a.node, lf, a.fits)
    BY <1>1, <1>2, WithIs
  <2> QED BY <2>1 DEF Rebuilt
<1> QED BY <1>3 DEF Kept

LEMMA UnfitIs ==
    ASSUME NEW a, TableType(a)
    PROVE  /\ TableType(Unfit(a)) /\ Nodes(Unfit(a)) = Nodes(a) /\ Unfit(a).node = a.node
           /\ Unfit(a).lastfree = a.lastfree /\ Unfit(a).array = a.array /\ Unfit(a).hash = a.hash
           /\ Unfit(a).fits = FALSE
<1>1. a.node \in [Nodes(a) -> NodeType] /\ a.lastfree \in Nat
  BY IsWith
<1> PICK b : b = Unfit(a)
  OBVIOUS
<1> PICK f \in BOOLEAN : f = FALSE
  OBVIOUS
<1>2. b = With(a, a.node, a.lastfree, f)
  BY IsWith DEF Unfit
<1>3. /\ TableType(b) /\ Nodes(b) = Nodes(a) /\ b.node = a.node /\ b.lastfree = a.lastfree
      /\ b.fits = f /\ b.array = a.array /\ b.hash = a.hash
  <2>1. Rebuilt(a, b, a.node, a.lastfree, f)
    BY <1>1, <1>2, WithIs
  <2> QED BY <2>1 DEF Rebuilt
<1> QED BY <1>3

LEMMA EnteredFields ==
    \A k, v, i : /\ Entered(k, v, i).key = k /\ ~ Entered(k, v, i).dead
                 /\ Entered(k, v, i).val = v /\ Entered(k, v, i).next = i
<1> TAKE k, v, i
<1> PICK f \in BOOLEAN : f = FALSE
  OBVIOUS
<1>1. Entered(k, v, i) = Node(k, f, v, i)
  BY Zenon DEF Entered
<1> QED BY <1>1, NodeFields

LEMMA ValueEntered ==
    ASSUME NEW a, TableType(a), NEW n \in Nodes(a), NEW k, NEW i, NEW v \in Keys \cup {Nil},
           a.node[n].key = k, ~ a.node[n].dead, a.node[n].next = i
    PROVE  Written(a, ValueSet(a, n, v), n, Entered(k, v, i))
<1> PICK f \in BOOLEAN : f = FALSE
  OBVIOUS
<1>1. a.node[n].dead = f
  BY IsWith DEF NodeType
<1>2. Written(a, ValueSet(a, n, v), n, Node(k, f, v, i))
  BY <1>1, FieldAt
<1>3. Node(k, f, v, i) = Entered(k, v, i)
  BY Zenon DEF Entered
<1> QED BY <1>2, <1>3

\* luaH_newkey looks for the node before the colliding one, and there is one.
LEMMA BeforeIs ==
    ASSUME NEW a, TableType(a), ValuesOwn(a), Chained(a), NEW p \in Nodes(a), a.node[p].val # Nil,
           MainPosition(a, a.node[p].key) # p
    PROVE  \E q \in DOMAIN a.node : a.node[q].next = p /\
              \E j \in DOMAIN a.node : Chain(a, MainPosition(a, a.node[p].key))[j] = q
<1> PICK R : Linked(a, R) /\ Headed(a, R)
  BY DEF Chained
<1> PICK o : o = MainPosition(a, a.node[p].key)
  OBVIOUS
<1>1. a.node[p].key \in Keys /\ a.node[p].key # Nil /\ SizeNode(a) # 0
  <2>1. a.node[p] \in NodeType /\ a.node[p].val = a.node[p].key
    BY DEF TableType, ValuesOwn
  <2>2. Nodes(a) # {}
    OBVIOUS
  <2> QED BY <2>1, <2>2, NodesAre DEF NodeType
<1>2. o \in Nodes(a) /\ p \in R[o]
  BY <1>1, MainIs, Constants DEF Headed
<1>3. PICK m \in Nat : m < SizeNode(a) /\ Chain(a, o)[m] = p
  BY <1>2, ChainReaches
<1>4. SizeNode(a) \in Nat /\ Nodes(a) = 0 .. SizeNode(a) - 1 /\ Nodes(a) = DOMAIN a.node /\ None \notin Nodes(a)
  BY NodesAre DEF Nodes
<1>5. Chain(a, o)[0] = o /\ \A l \in Nat : l + 1 <= SizeNode(a) =>
         Chain(a, o)[l + 1] = IF Chain(a, o)[l] = None THEN None ELSE a.node[Chain(a, o)[l]].next
  BY <1>4, ChainIs
<1>6. m # 0
  BY <1>3, <1>5
<1> PICK j : j = m - 1
  OBVIOUS
<1>7. j \in Nat /\ j + 1 = m /\ j <= m /\ m <= SizeNode(a) /\ j \in Nodes(a)
  BY <1>3, <1>4, <1>6
<1>8. Chain(a, o)[j] \in Nodes(a)
  <2>1. Chain(a, o)[m] # None
    BY <1>3, <1>4
  <2> QED BY <1>2, <1>3, <1>7, <2>1, ChainGoesOn
<1>9. a.node[Chain(a, o)[j]].next = p
  BY <1>3, <1>4, <1>5, <1>7, <1>8
<1> QED BY <1>4, <1>7, <1>8, <1>9

Before(a, k) ==
    CHOOSE i \in DOMAIN a.node : a.node[i].next = MainPosition(a, k) /\
        \E j \in DOMAIN a.node : Chain(a, MainPosition(a, a.node[MainPosition(a, k)].key))[j] = i

\* luaH_newkey and the value: one of the ways to enter a key.
LEMMA AssignedNew ==
    ASSUME NEW a, TableType(a), FreeBelow(a), ValuesOwn(a), Chained(a), NEW k \in Keys,
           NEW v \in Keys \cup {Nil}, ~ InArray(a, k), NodeOf(a, k) = None, NEW p, p = MainPosition(a, k),
           NEW b, b = Assigned(a, k, v)
    PROVE  \/ Overwritten(a, b, p, k, v)
           \/ \E n : LinkedIn(a, b, p, n, k, v) /\ \A x \in Nodes(a) : n < x => a.node[x].key # Nil
           \/ \E n, q : MovedAside(a, b, p, n, q, k, v) /\ \A x \in Nodes(a) : n < x => a.node[x].key # Nil
           \/ Full(a, b) /\ (SizeNode(a) = 0 \/ a.node[p].val # Nil)
<1> PICK n : n = FreePos(a)
  OBVIOUS
<1> PICK u : u = Placed(a, k)
  OBVIOUS
<1>1. b = IF u.at = None THEN Unfit(u.tab) ELSE ValueSet(u.tab, u.at, v)
  BY DEF Assigned, Unfit, ValueSet
<1>2. \/ n = None /\ (\A x \in Nodes(a) : a.node[x].key # Nil)
      \/ /\ n \in Nodes(a) /\ n # None /\ a.node[n].key = Nil
         /\ \A x \in Nodes(a) : n < x => a.node[x].key # Nil
  BY FreePosIs
<1>3. SizeNode(a) # 0 => p \in Nodes(a)
  BY MainIs, Constants
<1>4. None \notin Nodes(a) /\ Nodes(a) \subseteq Nat /\ k \in Keys \cup {Nil} /\ Nil \in Keys \cup {Nil} /\ k # Nil
  BY NodesAre, Constants
<1>5. CASE ~ (SizeNode(a) = 0 \/ a.node[p].val # Nil)
  <2>1. PICK w : w = KeySet(a, p, k)
    OBVIOUS
  <2>2. PICK z : z = DeadReset(w, p)
    OBVIOUS
  <2>3. u = [at |-> p, tab |-> z]
    BY <1>5, <2>1, <2>2 DEF Placed, KeySet, DeadReset
  <2>4. p \in Nodes(a) /\ p # None /\ a.node[p].val = Nil
    BY <1>3, <1>4, <1>5
  <2>5. b = ValueSet(z, p, v)
    BY <1>1, <2>3, <2>4
  <2>6. PICK c : Written(a, w, p, c) /\ c.key = k /\ c.next = a.node[p].next
    <3>1. Written(a, w, p, Node(k, a.node[p].dead, a.node[p].val, a.node[p].next))
      BY <1>4, <2>1, <2>4, FieldAt
    <3> QED BY <3>1, NodeFields
  <2>7. TableType(w) /\ p \in Nodes(w) /\ w.node[p] = c
    BY <2>4, <2>6 DEF Written, Kept
  <2>8. PICK d : Written(w, z, p, d) /\ d.key = k /\ ~ d.dead /\ d.next = a.node[p].next
    <3>1. Written(w, z, p, Entered(w.node[p].key, w.node[p].val, w.node[p].next))
      BY <2>2, <2>7, FieldAt DEF Entered
    <3>2. w.node[p].key = k /\ w.node[p].next = a.node[p].next
      BY <2>6, <2>7
    <3>3. PICK d : d = Entered(w.node[p].key, w.node[p].val, w.node[p].next)
      OBVIOUS
    <3>4. d.key = k /\ ~ d.dead /\ d.next = a.node[p].next
      BY <3>2, <3>3, EnteredFields
    <3> QED BY <3>1, <3>3, <3>4
  <2>9. TableType(z) /\ p \in Nodes(z) /\ z.node[p] = d
    BY <2>7, <2>8 DEF Written, Kept
  <2>10. Written(z, b, p, Entered(k, v, a.node[p].next))
    BY <2>5, <2>8, <2>9, ValueEntered
  <2>11. Written(a, z, p, d)
    BY <2>6, <2>8, WrittenTwice
  <2>12. Written(a, b, p, Entered(k, v, a.node[p].next))
    BY <2>10, <2>11, WrittenTwice
  <2>13. Overwritten(a, b, p, k, v)
    BY <2>4, <2>12 DEF Overwritten, Written
  <2> QED BY <2>13
<1>6. CASE (SizeNode(a) = 0 \/ a.node[p].val # Nil) /\ n = None
  <2> PICK w : w = LastfreeSet(a, 0)
    OBVIOUS
  <2>1. u = [at |-> None, tab |-> w]
    BY <1>6 DEF Placed, LastfreeSet
  <2>2. b = Unfit(w)
    BY <1>1, <2>1
  <2>3. Kept(a, w) /\ w.lastfree = 0 /\ w.node = a.node
    <3>1. 0 \in Nat
      OBVIOUS
    <3> QED BY <3>1, LastfreeAt
  <2>4. TableType(w)
    BY <2>3 DEF Kept
  <2>5. /\ TableType(b) /\ Nodes(b) = Nodes(w) /\ b.node = w.node /\ b.lastfree = w.lastfree
        /\ b.array = w.array /\ b.hash = w.hash /\ b.fits = FALSE
    BY <2>2, <2>4, UnfitIs
  <2>6. \A x \in Nodes(a) : a.node[x].key # Nil
    BY <1>2, <1>6
  <2>7. Full(a, b)
    BY <2>3, <2>5, <2>6 DEF Full, Kept
  <2> QED BY <1>6, <2>7
<1>7. ASSUME SizeNode(a) # 0, a.node[p].val # Nil, n # None
      PROVE  /\ p \in Nodes(a) /\ n \in Nodes(a) /\ n \in Nat /\ a.node[n].key = Nil /\ n # p
             /\ TableType(LastfreeSet(a, n)) /\ Nodes(LastfreeSet(a, n)) = Nodes(a)
             /\ Kept(a, LastfreeSet(a, n)) /\ LastfreeSet(a, n).node = a.node
             /\ LastfreeSet(a, n).lastfree = n
             /\ n \in Nat \cup {None} /\ a.node[p].next \in Nat \cup {None}
  <2>1. p \in Nodes(a) /\ n \in Nodes(a) /\ n \in Nat /\ a.node[n].key = Nil
    BY <1>2, <1>3, <1>4, <1>7
  <2>2. a.node[p].val = a.node[p].key
    BY <1>7, <2>1 DEF ValuesOwn
  <2>3. a.node[p] \in NodeType
    BY <2>1, IsWith
  <2> QED BY <1>7, <2>1, <2>2, <2>3, LastfreeAt DEF Kept, NodeType
<1>8. CASE SizeNode(a) # 0 /\ a.node[p].val # Nil /\ n # None /\ MainPosition(a, a.node[p].key) = p
  <2>1. PICK w : w = LastfreeSet(a, n)
    OBVIOUS
  <2>2. PICK z : z = NextSet(w, p, n)
    OBVIOUS
  <2>3. PICK y : y = NodeSet(z, n, Entered(k, Nil, a.node[p].next))
    OBVIOUS
  <2>4. [[key |-> k, dead |-> FALSE, val |-> Nil, next |-> None] EXCEPT !.next = a.node[p].next]
           = Entered(k, Nil, a.node[p].next)
    BY EnteredIs
  <2>5. u = [at |-> n, tab |-> y]
    BY <1>8, <2>1, <2>2, <2>3, <2>4 DEF Placed, LastfreeSet, NextSet, NodeSet
  <2>6. b = ValueSet(y, n, v)
    BY <1>1, <1>8, <2>5
  <2>7. Written(w, z, p, Node(a.node[p].key, a.node[p].dead, a.node[p].val, n))
    BY <1>7, <1>8, <2>1, <2>2, FieldAt
  <2>8. TableType(z) /\ n \in Nodes(z)
    BY <1>7, <1>8, <2>1, <2>7 DEF Written, Kept
  <2>9. Written(z, y, n, Entered(k, Nil, a.node[p].next))
    <3>1. Entered(k, Nil, a.node[p].next) \in NodeType
      BY <1>4, <1>7, <1>8 DEF Entered, Node, NodeType
    <3> QED BY <2>3, <2>8, <3>1, NodeAt DEF NodeSet
  <2>10. TableType(y) /\ n \in Nodes(y) /\ y.node[n] = Entered(k, Nil, a.node[p].next)
    BY <2>8, <2>9 DEF Written, Kept
  <2>11. Written(y, b, n, Entered(k, v, a.node[p].next))
    <3>1. y.node[n].key = k /\ ~ y.node[n].dead /\ y.node[n].next = a.node[p].next
      BY <2>10, EnteredFields
    <3> QED BY <2>6, <2>10, <3>1, ValueEntered
  <2>12. Written(z, b, n, Entered(k, v, a.node[p].next))
    BY <2>9, <2>11, WrittenTwice
  <2>13. Kept(a, b) /\ b.lastfree = n
    BY <1>7, <1>8, <2>1, <2>7, <2>12 DEF Written, Kept
  <2>14. b.node[p] = Node(a.node[p].key, a.node[p].dead, a.node[p].val, n)
    BY <1>7, <1>8, <2>1, <2>7, <2>12 DEF Written, Kept
  <2>15. \A x \in Nodes(a) : x # p /\ x # n => b.node[x] = a.node[x]
    BY <1>7, <1>8, <2>1, <2>7, <2>12 DEF Written, Kept
  <2>16. b.node[n] = Entered(k, v, a.node[p].next)
    BY <2>12 DEF Written
  <2>17. LinkedIn(a, b, p, n, k, v)
    BY <1>7, <1>8, <2>13, <2>14, <2>15, <2>16 DEF LinkedIn
  <2> QED BY <1>2, <1>8, <2>17
<1>9. CASE SizeNode(a) # 0 /\ a.node[p].val # Nil /\ n # None /\ MainPosition(a, a.node[p].key) # p
  <2>1. PICK w : w = LastfreeSet(a, n)
    OBVIOUS
  <2>2. PICK q : q = Before(a, k)
    OBVIOUS
  <2>4. q \in Nodes(a) /\ a.node[q].next = p
    <3>1. p \in Nodes(a)
      BY <1>7, <1>9
    <3>2. \E i \in DOMAIN a.node : a.node[i].next = p /\
             \E j \in DOMAIN a.node : Chain(a, MainPosition(a, a.node[p].key))[j] = i
      BY <1>9, <3>1, BeforeIs
    <3>3. q \in DOMAIN a.node /\ a.node[q].next = p
      BY <2>2, <3>2, Zenon DEF Before
    <3> QED BY <3>3 DEF Nodes
  <2>5. PICK z : z = NextSet(w, q, n)
    OBVIOUS
  <2>6. PICK y : y = NodeSet(z, n, a.node[p])
    OBVIOUS
  <2>7. PICK c : c = Entered(k, Nil, None)
    OBVIOUS
  <2>8. PICK x : x = NodeSet(y, p, c)
    OBVIOUS
  <2>9. u = [at |-> p, tab |-> x]
    <3>1. c = [key |-> k, dead |-> FALSE, val |-> Nil, next |-> None]
      BY <2>7, Zenon DEF Entered, Node
    <3>2. u = [at |-> p, tab |-> [a EXCEPT !.lastfree = n, !.node[q].next = n, !.node[n] = a.node[p],
                                           !.node[p] = c]]
      BY <1>9, <2>2, <3>1 DEF Placed, Before
    <3> QED BY <2>1, <2>5, <2>6, <2>8, <3>2 DEF LastfreeSet, NextSet, NodeSet
  <2>10. p # None /\ p \in Nodes(a) /\ n \in Nodes(a) /\ n # p
    BY <1>4, <1>7, <1>9
  <2>11. b = ValueSet(x, p, v)
    BY <1>1, <2>9, <2>10
  <2>12. q # p /\ q # n
    <3>1. PICK R : Linked(a, R)
      BY DEF Chained
    <3>2. p # None /\ a.node[n].next = None
      BY <1>7, <1>9, <2>10, <3>1 DEF Linked
    <3>3. q # n
      BY <2>4, <3>2
    <3>4. q \in R[q] /\ (a.node[q].next # None => q \notin R[a.node[q].next])
      BY <2>4, <3>1, ReachSelf DEF Linked
    <3> QED BY <2>4, <3>2, <3>3, <3>4
  <2>13. TableType(w) /\ Nodes(w) = Nodes(a) /\ w.node = a.node /\ Kept(a, w) /\ w.lastfree = n
    BY <1>7, <1>9, <2>1
  <2>14. Written(w, z, q, Node(a.node[q].key, a.node[q].dead, a.node[q].val, n))
    <3>1. n \in Nat \cup {None}
      BY <1>7, <1>9
    <3> QED BY <2>4, <2>5, <2>13, <3>1, FieldAt
  <2>15. TableType(z) /\ Nodes(z) = Nodes(a)
    BY <2>13, <2>14 DEF Written, Kept
  <2>16. Written(z, y, n, a.node[p])
    <3>1. a.node[p] \in NodeType
      BY <2>10, IsWith
    <3> QED BY <2>6, <2>10, <2>15, <3>1, NodeAt DEF NodeSet
  <2>17. TableType(y) /\ Nodes(y) = Nodes(a)
    BY <2>15, <2>16 DEF Written, Kept
  <2>18. Written(y, x, p, c)
    <3>1. c \in NodeType
      BY <1>4, <2>7, EnteredIs
    <3> QED BY <2>8, <2>10, <2>17, <3>1, NodeAt DEF NodeSet
  <2>19. TableType(x) /\ p \in Nodes(x) /\ x.node[p] = c
    BY <2>10, <2>17, <2>18 DEF Written, Kept
  <2>20. Written(x, b, p, Entered(k, v, None))
    <3>1. c.key = k /\ ~ c.dead /\ c.next = None
      BY <2>7, EnteredFields
    <3> QED BY <2>11, <2>19, <3>1, ValueEntered
  <2>21. Written(y, b, p, Entered(k, v, None))
    BY <2>18, <2>20, WrittenTwice
  <2>22. Kept(a, b) /\ b.lastfree = n
    BY <2>13, <2>14, <2>16, <2>21 DEF Written, Kept
  <2>23. b.node[q] = Node(a.node[q].key, a.node[q].dead, a.node[q].val, n)
    BY <2>4, <2>12, <2>13, <2>14, <2>15, <2>16, <2>17, <2>21 DEF Written
  <2>24. b.node[n] = a.node[p]
    BY <2>10, <2>13, <2>15, <2>16, <2>17, <2>21 DEF Written
  <2>25. b.node[p] = Entered(k, v, None)
    BY <2>21 DEF Written
  <2>26. \A l \in Nodes(a) : l # p /\ l # n /\ l # q => b.node[l] = a.node[l]
    BY <2>13, <2>14, <2>15, <2>16, <2>17, <2>21 DEF Written
  <2>27. MovedAside(a, b, p, n, q, k, v)
    BY <1>7, <1>9, <2>4, <2>10, <2>22, <2>23, <2>24, <2>25, <2>26 DEF MovedAside
  <2> QED BY <1>2, <1>9, <2>27
<1>10. SizeNode(a) = 0 => n = None
  <2>1. SizeNode(a) = 0 => Nodes(a) = {}
    BY NodesAre
  <2> QED BY <1>2, <2>1
<1> QED BY <1>5, <1>6, <1>8, <1>9, <1>10

\* The node with key k is absent or dead.
Absent(a, k) == \A x \in Nodes(a) : a.node[x].key = k => a.node[x].dead

LEMMA OverwrittenChained ==
    ASSUME NEW a, NEW b, NEW p, NEW k \in Keys, NEW v, TableType(a), Chained(a), Absent(a, k),
           p = MainPosition(a, k), Overwritten(a, b, p, k, v)
    PROVE  Chained(b)
<1>1. PICK R : Linked(a, R) /\ Headed(a, R) /\ Single(a, R)
  BY DEF Chained
<1>2. Nodes(b) = Nodes(a) /\ p \in Nodes(a) /\ b.hash = a.hash /\ k # Nil
  BY Constants DEF Overwritten, Kept
<1>3. \A l : MainPosition(b, l) = MainPosition(a, l)
  BY <1>2, SameMain
<1>4. PICK c : c = b.node[p] /\ c.key = k /\ ~ c.dead /\ c.next = a.node[p].next
  <2>1. b.node[p] = Entered(k, v, a.node[p].next)
    BY DEF Overwritten
  <2> QED BY <2>1, EnteredFields
<1>5. \A x \in Nodes(a) : x # p => b.node[x] = a.node[x]
  BY DEF Overwritten
<1>6. \A x \in Nodes(a) : b.node[x].next = a.node[x].next
  BY <1>4, <1>5
<1>7. Linked(b, R)
  <2>1. \A x \in Nodes(a) : b.node[x].key = Nil => a.node[x].key = Nil
    BY <1>2, <1>4, <1>5
  <2> QED BY <1>1, <1>2, <1>6, <2>1 DEF Linked
<1>8. Headed(b, R)
  <2> SUFFICES ASSUME NEW x \in Nodes(a), b.node[x].key # Nil, NEW m, m = MainPosition(a, b.node[x].key)
               PROVE  x \in R[m] /\ b.node[m].key # Nil /\ MainPosition(a, b.node[m].key) = m
    BY <1>2, <1>3 DEF Headed
  <2>1. p \in R[p]
    BY <1>1, <1>2, ReachSelf
  <2>2. CASE x = p
    BY <1>2, <1>4, <2>1, <2>2
  <2>3. CASE x # p
    <3>1. x \in R[m] /\ a.node[m].key # Nil /\ MainPosition(a, a.node[m].key) = m
      BY <1>1, <1>5, <2>3 DEF Headed
    <3>2. m \in Nodes(a)
      <4>1. a.node[x].key \in Keys /\ SizeNode(a) # 0
        <5>1. a.node[x] \in NodeType /\ Nodes(a) # {}
          BY IsWith
        <5> QED BY <1>5, <2>3, <5>1, NodesAre DEF NodeType
      <4> QED BY <1>5, <2>3, <4>1, MainIs, Constants
    <3> QED BY <1>2, <1>4, <1>5, <3>1, <3>2
  <2> QED BY <2>2, <2>3
<1>9. Single(b, R)
  <2> SUFFICES ASSUME NEW x \in Nodes(a), NEW y \in Nodes(a), x # y, b.node[x].key = b.node[y].key,
                      b.node[x].key # Nil, ~ b.node[x].dead
               PROVE  b.node[y].dead /\ y \in R[x]
    BY <1>2 DEF Single
  <2>1. CASE x = p
    <3>1. a.node[y].key = k /\ a.node[y].dead /\ b.node[y] = a.node[y]
      BY <1>4, <1>5, <2>1 DEF Absent
    <3>2. y \in R[p]
      BY <1>1, <1>2, <3>1 DEF Headed
    <3> QED BY <2>1, <3>1, <3>2
  <2>2. CASE y = p
    BY <1>4, <1>5, <2>2 DEF Absent
  <2>3. CASE x # p /\ y # p
    BY <1>1, <1>5, <2>3 DEF Single
  <2> QED BY <2>1, <2>2, <2>3
<1> QED BY <1>7, <1>8, <1>9 DEF Chained

\* The main position of a key that is in a node.
LEMMA KeyMain ==
    ASSUME NEW a, TableType(a), NEW R, Linked(a, R), Headed(a, R), NEW x \in Nodes(a), a.node[x].key # Nil,
           NEW m, m = MainPosition(a, a.node[x].key)
    PROVE  m \in Nodes(a) /\ x \in R[m] /\ a.node[m].key # Nil /\ MainPosition(a, a.node[m].key) = m
<1>1. a.node[x].key \in Keys /\ SizeNode(a) # 0
  <2>1. a.node[x] \in NodeType /\ Nodes(a) # {}
    BY IsWith
  <2> QED BY <2>1, NodesAre DEF NodeType
<1>2. m \in Nodes(a)
  BY <1>1, MainIs, Constants
<1> QED BY <1>2 DEF Headed

\* A free node is in no other chain.
LEMMA FreeAlone ==
    ASSUME NEW a, TableType(a), NEW R, Linked(a, R), NEW n \in Nodes(a), a.node[n].key = Nil
    PROVE  /\ a.node[n].next = None /\ R[n] = {n} /\ n # None
           /\ \A x \in Nodes(a) : n \in R[x] => x = n
           /\ \A x \in Nodes(a) : a.node[x].next # n
<1>1. a.node[n].next = None /\ R[n] = {n} /\ n # None /\ \A x \in Nodes(a) : n \in R[x] => x = n
  BY NodesAre DEF Linked
<1>2. ASSUME NEW x \in Nodes(a), a.node[x].next = n PROVE FALSE
  <2>1. n \in R[x]
    BY <1>1, <1>2 DEF Linked
  <2> QED BY <1>1, <1>2, <2>1
<1> QED BY <1>1, <1>2

LEMMA LinkedInLinked ==
    ASSUME NEW a, NEW b, NEW p, NEW n, NEW k \in Keys, NEW v, TableType(a), NEW R, Linked(a, R),
           ValuesOwn(a), LinkedIn(a, b, p, n, k, v), NEW Q,
           Q = [x \in Nodes(a) |-> IF x = n THEN {n} \cup (R[p] \ {p})
                                   ELSE IF p \in R[x] THEN R[x] \cup {n} ELSE R[x]]
    PROVE  Linked(b, Q)
<1> PICK i : i = a.node[p].next
  OBVIOUS
<1>1. Nodes(b) = Nodes(a) /\ p \in Nodes(a) /\ n \in Nodes(a) /\ k # Nil /\ p # n /\ a.node[p].key # Nil
  <2>1. Nodes(b) = Nodes(a) /\ p \in Nodes(a) /\ n \in Nodes(a) /\ a.node[p].val # Nil /\ a.node[n].key = Nil
    BY DEF LinkedIn, Kept
  <2> QED BY <2>1, Constants DEF ValuesOwn
<1>2. /\ a.node[n].next = None /\ R[n] = {n} /\ n # None
      /\ \A x \in Nodes(a) : n \in R[x] => x = n
      /\ \A x \in Nodes(a) : a.node[x].next # n
  <2>1. a.node[n].key = Nil
    BY DEF LinkedIn
  <2> QED BY <1>1, <2>1, FreeAlone
<1>3. b.node[n].key = k /\ b.node[n].next = i
  <2>1. b.node[n] = Entered(k, v, i)
    BY DEF LinkedIn
  <2> QED BY <2>1, EnteredFields
<1>4. b.node[p].key = a.node[p].key /\ b.node[p].next = n
  <2>1. b.node[p] = Node(a.node[p].key, a.node[p].dead, a.node[p].val, n)
    BY DEF LinkedIn
  <2> QED BY <2>1, NodeFields
<1>5. \A x \in Nodes(a) : x # p /\ x # n => b.node[x] = a.node[x]
  BY DEF LinkedIn
<1>6. R \in [Nodes(a) -> SUBSET Nodes(a)] /\ \A x \in Nodes(a) : x \in R[x]
  BY ReachSelf DEF Linked
<1>7. \A x \in Nodes(a) :
         \/ a.node[x].next = None /\ R[x] = {x}
         \/ /\ a.node[x].next \in Nodes(a) /\ x \notin R[a.node[x].next]
            /\ R[x] = {x} \cup R[a.node[x].next]
  BY DEF Linked
<1>8. Q \in [Nodes(a) -> SUBSET Nodes(a)]
  BY <1>1, <1>6
<1>9. /\ Q[n] = {n} \cup (R[p] \ {p}) /\ Q[p] = R[p] \cup {n}
      /\ \A x \in Nodes(a) : x # n => Q[x] = IF p \in R[x] THEN R[x] \cup {n} ELSE R[x]
  BY <1>1, <1>6
<1>10. ASSUME NEW x \in Nodes(a)
       PROVE  \/ b.node[x].next = None /\ Q[x] = {x}
              \/ /\ b.node[x].next \in Nodes(a) /\ x \notin Q[b.node[x].next]
                 /\ Q[x] = {x} \cup Q[b.node[x].next]
  <2>1. CASE x = p
    <3>1. p \notin Q[n] /\ Q[p] = {p} \cup Q[n]
      BY <1>1, <1>6, <1>9
    <3> QED BY <1>1, <1>4, <2>1, <3>1
  <2>2. CASE x = n /\ i = None
    <3>1. None \notin Nodes(a) /\ a.node[p].next = None
      BY <2>2, NodesAre
    <3>2. R[p] = {p}
      BY <1>1, <1>7, <3>1
    <3> QED BY <1>3, <1>9, <2>2, <3>2
  <2>3. CASE x = n /\ i # None
    <3>1. i \in Nodes(a) /\ p \notin R[i] /\ R[p] = {p} \cup R[i] /\ i # n
      BY <1>1, <1>2, <1>7, <2>3
    <3>2. Q[i] = R[i] /\ n \notin R[i]
      BY <1>2, <1>9, <3>1
    <3> QED BY <1>3, <1>9, <2>3, <3>1, <3>2
  <2>4. CASE x # p /\ x # n
    <3>1. b.node[x].next = a.node[x].next /\ a.node[x].next # n
      BY <1>2, <1>5, <2>4
    <3>2. CASE a.node[x].next = None /\ R[x] = {x}
      BY <1>9, <2>4, <3>1, <3>2
    <3>3. CASE a.node[x].next \in Nodes(a) /\ x \notin R[a.node[x].next]
               /\ R[x] = {x} \cup R[a.node[x].next]
      <4> PICK j : j = a.node[x].next
        OBVIOUS
      <4>1. j \in Nodes(a) /\ j # n /\ x \notin R[j] /\ R[x] = {x} \cup R[j]
        BY <3>1, <3>3
      <4>2. x \notin Q[j] /\ Q[x] = {x} \cup Q[j]
        BY <1>9, <2>4, <4>1
      <4> QED BY <3>1, <4>1, <4>2
    <3> QED BY <1>7, <3>2, <3>3
  <2> QED BY <2>1, <2>2, <2>3, <2>4
<1>11. \A x, y \in Nodes(a) : b.node[x].next = b.node[y].next /\ b.node[x].next # None => x = y
  <2>1. \A x, y \in Nodes(a) : a.node[x].next = a.node[y].next /\ a.node[x].next # None => x = y
    BY DEF Linked
  <2>2. \A x \in Nodes(a) : x # p /\ x # n => b.node[x].next = a.node[x].next
    BY <1>5
  <2> QED BY <1>1, <1>2, <1>3, <1>4, <2>1, <2>2
<1>12. ASSUME NEW x \in Nodes(a), b.node[x].key = Nil
       PROVE  b.node[x].next = None /\ \A y \in Nodes(a) : x \in Q[y] => x = y
  <2>1. x # n /\ x # p /\ a.node[x].key = Nil
    BY <1>1, <1>3, <1>4, <1>5, <1>12
  <2>2. a.node[x].next = None /\ \A y \in Nodes(a) : x \in R[y] => x = y
    BY <2>1 DEF Linked
  <2>3. b.node[x].next = None
    BY <1>5, <2>1, <2>2
  <2>4. \A y \in Nodes(a) : x \in Q[y] => x = y
    BY <1>1, <1>9, <2>1, <2>2
  <2> QED BY <2>3, <2>4
<1> QED BY <1>1, <1>8, <1>10, <1>11, <1>12 DEF Linked

LEMMA LinkedInChained ==
    ASSUME NEW a, NEW b, NEW p, NEW n, NEW k \in Keys, NEW v, TableType(a), Chained(a), ValuesOwn(a),
           Absent(a, k), p = MainPosition(a, k), LinkedIn(a, b, p, n, k, v)
    PROVE  Chained(b)
<1>1. PICK R : Linked(a, R) /\ Headed(a, R) /\ Single(a, R)
  BY DEF Chained
<1>2. PICK Q : Q = [x \in Nodes(a) |-> IF x = n THEN {n} \cup (R[p] \ {p})
                                      ELSE IF p \in R[x] THEN R[x] \cup {n} ELSE R[x]]
  OBVIOUS
<1>3. Linked(b, Q)
  BY <1>1, <1>2, LinkedInLinked
<1>4. /\ Nodes(b) = Nodes(a) /\ p \in Nodes(a) /\ n \in Nodes(a) /\ k # Nil /\ p # n
      /\ a.node[p].key # Nil /\ ~ a.node[p].dead /\ b.hash = a.hash /\ a.node[n].key = Nil
      /\ MainPosition(a, a.node[p].key) = p
  <2>1. Nodes(b) = Nodes(a) /\ p \in Nodes(a) /\ n \in Nodes(a) /\ a.node[p].val # Nil /\ a.node[n].key = Nil
        /\ b.hash = a.hash /\ MainPosition(a, a.node[p].key) = p
    BY DEF LinkedIn, Kept
  <2> QED BY <2>1, Constants DEF ValuesOwn
<1>5. \A l : MainPosition(b, l) = MainPosition(a, l)
  BY <1>4, SameMain
<1>6. b.node[n].key = k
  <2>1. b.node[n] = Entered(k, v, a.node[p].next)
    BY DEF LinkedIn
  <2> QED BY <2>1, EnteredFields
<1>7. \A x \in Nodes(a) : x # n => b.node[x].key = a.node[x].key /\ b.node[x].dead = a.node[x].dead
  <2>1. b.node[p] = Node(a.node[p].key, a.node[p].dead, a.node[p].val, n)
    BY DEF LinkedIn
  <2>2. b.node[p].key = a.node[p].key /\ b.node[p].dead = a.node[p].dead
    BY <2>1, NodeFields
  <2>3. \A x \in Nodes(a) : x # p /\ x # n => b.node[x] = a.node[x]
    BY DEF LinkedIn
  <2> QED BY <2>2, <2>3
<1>8. /\ Q[n] = {n} \cup (R[p] \ {p}) /\ n \in Q[p]
      /\ \A x \in Nodes(a) : x # n => R[x] \subseteq Q[x]
  <2>1. p \in R[p] /\ Q[p] = IF p \in R[p] THEN R[p] \cup {n} ELSE R[p]
    BY <1>1, <1>2, <1>4, ReachSelf
  <2> QED BY <1>2, <1>4, <2>1
<1>9. Headed(b, Q)
  <2> SUFFICES ASSUME NEW x \in Nodes(a), b.node[x].key # Nil, NEW m, m = MainPosition(a, b.node[x].key)
               PROVE  x \in Q[m] /\ b.node[m].key # Nil /\ MainPosition(a, b.node[m].key) = m
    BY <1>4, <1>5 DEF Headed
  <2>1. CASE x = n
    BY <1>4, <1>6, <1>7, <1>8, <2>1
  <2>2. CASE x # n
    <3>1. m \in Nodes(a) /\ x \in R[m] /\ a.node[m].key # Nil /\ MainPosition(a, a.node[m].key) = m
      <4>1. a.node[x].key # Nil /\ m = MainPosition(a, a.node[x].key)
        BY <1>7, <2>2
      <4> QED BY <1>1, <4>1, KeyMain
    <3>2. m # n
      BY <1>4, <3>1
    <3> QED BY <1>7, <1>8, <3>1, <3>2
  <2> QED BY <2>1, <2>2
<1>10. Single(b, Q)
  <2> SUFFICES ASSUME NEW x \in Nodes(a), NEW y \in Nodes(a), x # y, b.node[x].key = b.node[y].key,
                      b.node[x].key # Nil, ~ b.node[x].dead
               PROVE  b.node[y].dead /\ y \in Q[x]
    BY <1>4 DEF Single
  <2>1. CASE x = n
    <3>1. a.node[y].key = k /\ a.node[y].dead /\ b.node[y].dead
      BY <1>6, <1>7, <2>1 DEF Absent
    <3>2. y \in R[p] /\ y # p
      BY <1>1, <1>4, <3>1 DEF Headed
    <3> QED BY <1>8, <2>1, <3>1, <3>2
  <2>2. CASE y = n
    BY <1>6, <1>7, <2>2 DEF Absent
  <2>3. CASE x # n /\ y # n
    <3>1. b.node[y].dead /\ y \in R[x]
      BY <1>1, <1>7, <2>3 DEF Single
    <3> QED BY <1>8, <2>3, <3>1
  <2> QED BY <2>1, <2>2, <2>3
<1> QED BY <1>3, <1>9, <1>10 DEF Chained

\* What follows from it at once.
Aside(a, b, p, n, q, k) ==
    /\ Nodes(b) = Nodes(a) /\ p \in Nodes(a) /\ n \in Nodes(a) /\ q \in Nodes(a) /\ b.hash = a.hash
    /\ k # Nil /\ p # n /\ q # p /\ q # n /\ a.node[p].key # Nil /\ ~ a.node[p].dead
    /\ a.node[n].key = Nil /\ MainPosition(a, a.node[p].key) # p
    /\ b.node[p].key = k /\ b.node[p].next = None /\ b.node[n] = a.node[p]
    /\ b.node[q].key = a.node[q].key /\ b.node[q].dead = a.node[q].dead /\ b.node[q].next = n
    /\ a.node[q].next = p
    /\ \A x \in Nodes(a) : x # p /\ x # n /\ x # q => b.node[x] = a.node[x]

LEMMA MovedAsideFacts ==
    ASSUME NEW a, NEW b, NEW p, NEW n, NEW q, NEW k \in Keys, NEW v, TableType(a), NEW R, Linked(a, R),
           ValuesOwn(a), MovedAside(a, b, p, n, q, k, v)
    PROVE  Aside(a, b, p, n, q, k)
<1>1. /\ Nodes(b) = Nodes(a) /\ p \in Nodes(a) /\ n \in Nodes(a) /\ q \in Nodes(a) /\ b.hash = a.hash
      /\ a.node[p].val # Nil /\ a.node[n].key = Nil /\ MainPosition(a, a.node[p].key) # p
      /\ a.node[q].next = p /\ b.node[n] = a.node[p]
      /\ \A x \in Nodes(a) : x # p /\ x # n /\ x # q => b.node[x] = a.node[x]
  BY DEF MovedAside, Kept
<1>2. k # Nil /\ p # n /\ a.node[p].key # Nil /\ ~ a.node[p].dead
  BY <1>1, Constants DEF ValuesOwn
<1>3. q # n /\ a.node[q].next # None
  <2>1. a.node[n].next = None
    BY <1>1 DEF Linked
  <2> QED BY <1>1, <2>1, NodesAre
<1>4. q # p
  <2>1. q \in R[q] /\ q \notin R[a.node[q].next]
    BY <1>1, <1>3, ReachSelf DEF Linked
  <2> QED BY <1>1, <2>1
<1>5. b.node[p].key = k /\ b.node[p].next = None
  <2>1. b.node[p] = Entered(k, v, None)
    BY DEF MovedAside
  <2> QED BY <2>1, EnteredFields
<1>6. b.node[q].key = a.node[q].key /\ b.node[q].dead = a.node[q].dead /\ b.node[q].next = n
  <2>1. b.node[q] = Node(a.node[q].key, a.node[q].dead, a.node[q].val, n)
    BY DEF MovedAside
  <2> QED BY <2>1, NodeFields
<1> QED BY <1>1, <1>2, <1>3, <1>4, <1>5, <1>6 DEF Aside

LEMMA MovedAsideLinked ==
    ASSUME NEW a, NEW b, NEW p, NEW n, NEW q, NEW k \in Keys, NEW v, TableType(a), NEW R, Linked(a, R),
           ValuesOwn(a), MovedAside(a, b, p, n, q, k, v), NEW Q,
           Q = [x \in Nodes(a) |-> IF x = p THEN {p}
                                   ELSE IF x = n \/ p \in R[x] THEN {n} \cup ((IF x = n THEN R[p] ELSE R[x]) \ {p})
                                   ELSE R[x]]
    PROVE  Linked(b, Q)
<1> PICK i : i = a.node[p].next
  OBVIOUS
<1>1. /\ Nodes(b) = Nodes(a) /\ p \in Nodes(a) /\ n \in Nodes(a) /\ q \in Nodes(a) /\ b.hash = a.hash
      /\ k # Nil /\ p # n /\ q # p /\ q # n /\ a.node[p].key # Nil
      /\ a.node[n].key = Nil /\ a.node[q].next = p
      /\ b.node[p].key = k /\ b.node[p].next = None /\ b.node[n].next = i /\ b.node[n].key = a.node[p].key
      /\ b.node[q].key = a.node[q].key /\ b.node[q].next = n
      /\ \A x \in Nodes(a) : x # p /\ x # n /\ x # q => b.node[x] = a.node[x]
  <2>1. Aside(a, b, p, n, q, k)
    BY MovedAsideFacts, Zenon
  <2> QED BY <2>1 DEF Aside
<1>2. /\ a.node[n].next = None /\ R[n] = {n} /\ n # None
      /\ \A x \in Nodes(a) : n \in R[x] => x = n
      /\ \A x \in Nodes(a) : a.node[x].next # n
  BY <1>1, FreeAlone
<1>3. R \in [Nodes(a) -> SUBSET Nodes(a)] /\ (\A x \in Nodes(a) : x \in R[x]) /\ None \notin Nodes(a)
  BY ReachSelf, NodesAre DEF Linked
<1>4. \A x \in Nodes(a) :
         \/ a.node[x].next = None /\ R[x] = {x}
         \/ /\ a.node[x].next \in Nodes(a) /\ x \notin R[a.node[x].next]
            /\ R[x] = {x} \cup R[a.node[x].next]
  BY DEF Linked
<1>5. Q \in [Nodes(a) -> SUBSET Nodes(a)]
  BY <1>1, <1>3
<1>6. /\ Q[p] = {p} /\ Q[n] = {n} \cup (R[p] \ {p})
      /\ \A x \in Nodes(a) : x # n /\ x # p => Q[x] = IF p \in R[x] THEN {n} \cup (R[x] \ {p}) ELSE R[x]
  BY <1>1, <1>3
<1>7. \A x, y \in Nodes(a) : a.node[x].next = a.node[y].next /\ a.node[x].next # None => x = y
  BY DEF Linked
<1>8. ASSUME NEW x \in Nodes(a)
      PROVE  \/ b.node[x].next = None /\ Q[x] = {x}
             \/ /\ b.node[x].next \in Nodes(a) /\ x \notin Q[b.node[x].next]
                /\ Q[x] = {x} \cup Q[b.node[x].next]
  <2>1. CASE x = p
    BY <1>1, <1>6, <2>1
  <2>2. CASE x = n /\ i = None
    <3>1. R[p] = {p}
      BY <1>1, <1>3, <1>4, <2>2
    <3> QED BY <1>1, <1>6, <2>2, <3>1
  <2>3. CASE x = n /\ i # None
    <3>1. i \in Nodes(a) /\ p \notin R[i] /\ R[p] = {p} \cup R[i] /\ i # n
      BY <1>1, <1>2, <1>4, <2>3
    <3>2. Q[i] = R[i] /\ n \notin R[i]
      BY <1>2, <1>3, <1>6, <3>1
    <3> QED BY <1>1, <1>6, <2>3, <3>1, <3>2
  <2>4. CASE x = q
    <3>1. q \notin R[p] /\ R[q] = {q} \cup R[p] /\ p \in R[q]
      BY <1>1, <1>3, <1>4
    <3>2. Q[q] = {q} \cup Q[n] /\ q \notin Q[n]
      BY <1>1, <1>6, <3>1
    <3> QED BY <1>1, <2>4, <3>2
  <2>5. CASE x # p /\ x # n /\ x # q
    <3>1. b.node[x].next = a.node[x].next /\ a.node[x].next # n /\ a.node[x].next # p
      BY <1>1, <1>2, <1>3, <1>7, <2>5
    <3>2. CASE a.node[x].next = None /\ R[x] = {x}
      BY <1>6, <2>5, <3>1, <3>2
    <3>3. CASE a.node[x].next \in Nodes(a) /\ x \notin R[a.node[x].next]
               /\ R[x] = {x} \cup R[a.node[x].next]
      <4> PICK j : j = a.node[x].next
        OBVIOUS
      <4>1. j \in Nodes(a) /\ j # n /\ j # p /\ x \notin R[j] /\ R[x] = {x} \cup R[j]
        BY <3>1, <3>3
      <4>2. x \notin Q[j] /\ Q[x] = {x} \cup Q[j]
        BY <1>6, <2>5, <4>1
      <4> QED BY <3>1, <4>1, <4>2
    <3> QED BY <1>4, <3>2, <3>3
  <2> QED BY <2>1, <2>2, <2>3, <2>4, <2>5
<1>9. \A x, y \in Nodes(a) : b.node[x].next = b.node[y].next /\ b.node[x].next # None => x = y
  <2>1. \A x \in Nodes(a) : x # p /\ x # n /\ x # q => b.node[x].next = a.node[x].next
    BY <1>1
  <2> QED BY <1>1, <1>2, <1>7, <2>1
<1>10. ASSUME NEW x \in Nodes(a), b.node[x].key = Nil
       PROVE  b.node[x].next = None /\ \A y \in Nodes(a) : x \in Q[y] => x = y
  <2>1. x # n /\ x # p /\ a.node[x].key = Nil
    BY <1>1, <1>10
  <2>2. a.node[x].next = None /\ \A y \in Nodes(a) : x \in R[y] => x = y
    BY <2>1 DEF Linked
  <2>3. b.node[x].next = None
    BY <1>1, <1>3, <2>1, <2>2
  <2>4. \A y \in Nodes(a) : x \in Q[y] => x = y
    BY <1>1, <1>6, <2>1, <2>2
  <2> QED BY <2>3, <2>4
<1> QED BY <1>1, <1>5, <1>8, <1>9, <1>10 DEF Linked

LEMMA MovedAsideChained ==
    ASSUME NEW a, NEW b, NEW p, NEW n, NEW q, NEW k \in Keys, NEW v, TableType(a), Chained(a), ValuesOwn(a),
           Absent(a, k), p = MainPosition(a, k), MovedAside(a, b, p, n, q, k, v)
    PROVE  Chained(b)
<1>1. PICK R : Linked(a, R) /\ Headed(a, R) /\ Single(a, R)
  BY DEF Chained
<1>2. PICK Q : Q = [x \in Nodes(a) |-> IF x = p THEN {p}
                       ELSE IF x = n \/ p \in R[x] THEN {n} \cup ((IF x = n THEN R[p] ELSE R[x]) \ {p})
                       ELSE R[x]]
  OBVIOUS
<1>3. Linked(b, Q)
  BY <1>1, <1>2, MovedAsideLinked
<1>4. /\ Nodes(b) = Nodes(a) /\ p \in Nodes(a) /\ n \in Nodes(a) /\ q \in Nodes(a) /\ b.hash = a.hash
      /\ k # Nil /\ p # n /\ q # p /\ q # n /\ a.node[p].key # Nil /\ ~ a.node[p].dead
      /\ a.node[n].key = Nil /\ MainPosition(a, a.node[p].key) # p
      /\ b.node[p].key = k /\ b.node[n] = a.node[p]
      /\ b.node[q].key = a.node[q].key /\ b.node[q].dead = a.node[q].dead
      /\ \A x \in Nodes(a) : x # p /\ x # n /\ x # q => b.node[x] = a.node[x]
  <2>1. Aside(a, b, p, n, q, k)
    BY <1>1, MovedAsideFacts, Zenon
  <2> QED BY <2>1 DEF Aside
<1>5. \A l : MainPosition(b, l) = MainPosition(a, l)
  BY <1>4, SameMain
<1>6. \A x \in Nodes(a) : x # n /\ x # p => b.node[x].key = a.node[x].key /\ b.node[x].dead = a.node[x].dead
  BY <1>4
<1>7. /\ Q[p] = {p} /\ Q[n] = {n} \cup (R[p] \ {p})
      /\ \A x \in Nodes(a) : x # n /\ x # p => Q[x] = IF p \in R[x] THEN {n} \cup (R[x] \ {p}) ELSE R[x]
  BY <1>2, <1>4
<1>8. ASSUME NEW x \in Nodes(a), a.node[x].key # Nil
      PROVE  /\ MainPosition(a, a.node[x].key) \in Nodes(a) \ {p, n}
             /\ x \in R[MainPosition(a, a.node[x].key)]
             /\ a.node[MainPosition(a, a.node[x].key)].key # Nil
             /\ MainPosition(a, a.node[MainPosition(a, a.node[x].key)].key) = MainPosition(a, a.node[x].key)
  <2> PICK m : m = MainPosition(a, a.node[x].key)
    OBVIOUS
  <2>1. m \in Nodes(a) /\ x \in R[m] /\ a.node[m].key # Nil /\ MainPosition(a, a.node[m].key) = m
    BY <1>1, <1>8, KeyMain
  <2> QED BY <1>4, <2>1
<1>9. Headed(b, Q)
  <2> SUFFICES ASSUME NEW x \in Nodes(a), b.node[x].key # Nil, NEW m, m = MainPosition(a, b.node[x].key)
               PROVE  x \in Q[m] /\ b.node[m].key # Nil /\ MainPosition(a, b.node[m].key) = m
    BY <1>4, <1>5 DEF Headed
  <2>1. CASE x = p
    BY <1>4, <1>7, <2>1
  <2>2. CASE x # p
    <3>1. PICK y \in Nodes(a) : a.node[y].key = b.node[x].key /\ (IF x = n THEN y = p ELSE y = x /\ x # p)
      BY <1>4, <1>6, <2>2
    <3>2. m \in Nodes(a) \ {p, n} /\ y \in R[m] /\ a.node[m].key # Nil /\ MainPosition(a, a.node[m].key) = m
      BY <1>8, <3>1
    <3>3. b.node[m].key = a.node[m].key
      BY <1>6, <3>2
    <3>4. x \in Q[m]
      <4>1. m # n /\ m # p /\ m \in Nodes(a) /\ y \in R[m]
        BY <3>2
      <4>2. CASE x = n
        <5>1. p \in R[m]
          BY <3>1, <4>1, <4>2
        <5> QED BY <1>7, <4>1, <4>2, <5>1
      <4>3. CASE x # n
        <5>1. x \in R[m] /\ x # p
          BY <3>1, <4>1, <4>3
        <5> QED BY <1>7, <4>1, <5>1
      <4> QED BY <4>2, <4>3
    <3> QED BY <3>2, <3>3, <3>4
  <2> QED BY <2>1, <2>2
<1>10. \A y \in Nodes(a) : a.node[y].key # k
  BY <1>4, <1>8
<1>11. Single(b, Q)
  <2> SUFFICES ASSUME NEW x \in Nodes(a), NEW y \in Nodes(a), x # y, b.node[x].key = b.node[y].key,
                      b.node[x].key # Nil, ~ b.node[x].dead
               PROVE  b.node[y].dead /\ y \in Q[x]
    BY <1>4 DEF Single
  <2>1. x # p /\ y # p
    BY <1>4, <1>6, <1>10
  <2>2. CASE x = n
    <3>1. a.node[y].key = a.node[p].key /\ b.node[y].dead = a.node[y].dead /\ y # n
      BY <1>4, <1>6, <2>1, <2>2
    <3>2. a.node[y].dead /\ y \in R[p]
      BY <1>1, <1>4, <2>1, <3>1 DEF Single
    <3> QED BY <1>7, <2>1, <2>2, <3>1, <3>2
  <2>3. CASE y = n
    <3>1. a.node[x].key = a.node[p].key /\ ~ a.node[x].dead /\ x # n
      BY <1>4, <1>6, <2>1, <2>3
    <3> QED BY <1>1, <1>4, <2>1, <3>1 DEF Single
  <2>4. CASE x # n /\ y # n
    <3>1. b.node[y].dead /\ y \in R[x]
      BY <1>1, <1>6, <2>1, <2>4 DEF Single
    <3> QED BY <1>7, <2>1, <2>4, <3>1
  <2> QED BY <2>2, <2>3, <2>4
<1> QED BY <1>3, <1>9, <1>11 DEF Chained

\* Every entry of the hash part has a value.
Fresh(a) == \A x \in Nodes(a) : a.node[x].key # Nil => a.node[x].val # Nil

\* What an assignment achieves.
Entering(a, b, k, v) ==
    /\ Good(b) /\ b.fits = a.fits /\ Nodes(b) = Nodes(a) /\ Len(b.array) = Len(a.array) /\ b.hash = a.hash
    /\ Contents(b) = (Contents(a) \ {k}) \cup ({v} \ {Nil})
    /\ v = k /\ Fresh(a) => Fresh(b)

\* The nodes are the old ones and one more.
Renewed(a, b, k, v) ==
    /\ \A x \in Nodes(a) :
          \/ b.node[x].key = k /\ ~ b.node[x].dead /\ b.node[x].val = v
          \/ \E y \in Nodes(a) : /\ b.node[x].key = a.node[y].key /\ b.node[x].dead = a.node[y].dead
                                 /\ b.node[x].val = a.node[y].val
    /\ \A y \in Nodes(a) : a.node[y].val # Nil => \E x \in Nodes(a) : b.node[x].val = a.node[y].val
    /\ \E x \in Nodes(a) : b.node[x].val = v

LEMMA RenewedEnters ==
    ASSUME NEW a, Good(a), NEW b, NEW k \in Keys, NEW v \in {k, Nil}, ~ InArray(a, k), Absent(a, k),
           Kept(a, b), Chained(b), FreeBelow(b), Renewed(a, b, k, v)
    PROVE  Entering(a, b, k, v)
<1>1. /\ TableType(a) /\ ValuesOwn(a) /\ TableType(b) /\ Nodes(b) = Nodes(a) /\ b.array = a.array
      /\ b.hash = a.hash /\ b.fits = a.fits /\ Len(a.array) <= 2 * MaxInt + 1
  BY DEF Good, Kept
<1>2. k # Nil /\ Nil \notin Keys
  BY Constants
<1>3. ValuesOwn(b)
  <2> SUFFICES ASSUME NEW x \in Nodes(a)
               PROVE  /\ b.node[x].val \in {Nil, b.node[x].key}
                      /\ b.node[x].dead => b.node[x].val = Nil
                      /\ b.node[x].val # Nil => b.node[x].val \notin 1 .. Len(a.array)
    BY <1>1 DEF ValuesOwn
  <2>1. CASE b.node[x].key = k /\ ~ b.node[x].dead /\ b.node[x].val = v
    BY <2>1 DEF InArray
  <2>2. CASE \E y \in Nodes(a) : /\ b.node[x].key = a.node[y].key /\ b.node[x].dead = a.node[y].dead
                                 /\ b.node[x].val = a.node[y].val
    BY <1>1, <2>2 DEF ValuesOwn
  <2> QED BY <2>1, <2>2 DEF Renewed
<1>4. ASSUME NEW x \in Nodes(a) PROVE a.node[x].val # k
  <2>1. a.node[x].val \in {Nil, a.node[x].key} /\ (a.node[x].dead => a.node[x].val = Nil)
    BY <1>1 DEF ValuesOwn
  <2> QED BY <1>2, <2>1 DEF Absent
<1>5. Contents(b) = (Contents(a) \ {k}) \cup ({v} \ {Nil})
  <2>1. ASSUME NEW l \in Keys
        PROVE  (\E x \in Nodes(a) : b.node[x].val = l) <=> l = v \/ (\E x \in Nodes(a) : a.node[x].val = l)
    <3>1. \A x \in Nodes(a) : b.node[x].val = v \/ \E y \in Nodes(a) : b.node[x].val = a.node[y].val
      BY DEF Renewed
    <3>2. \A y \in Nodes(a) : a.node[y].val # Nil => \E x \in Nodes(a) : b.node[x].val = a.node[y].val
      BY DEF Renewed
    <3>3. \E x \in Nodes(a) : b.node[x].val = v
      BY DEF Renewed
    <3> QED BY <1>2, <3>1, <3>2, <3>3
  <2>2. ASSUME NEW l \in Keys
        PROVE  l \in Contents(b) <=> l \in (Contents(a) \ {k}) \cup ({v} \ {Nil})
    <3> PICK A : A = (l \in 1 .. Len(a.array) /\ a.array[l] = l)
      OBVIOUS
    <3>1. l \in Contents(b) <=> A \/ \E x \in Nodes(a) : b.node[x].val = l
      BY <1>1 DEF Contents
    <3>2. l \in Contents(a) <=> A \/ \E x \in Nodes(a) : a.node[x].val = l
      BY DEF Contents
    <3>3. l = k => ~ A
      BY DEF InArray
    <3> QED BY <1>2, <1>4, <2>1, <3>1, <3>2, <3>3
  <2>3. Contents(b) \subseteq Keys /\ Contents(a) \subseteq Keys /\ {v} \ {Nil} \subseteq Keys
    BY DEF Contents
  <2> QED BY <2>2, <2>3
<1>6. v = k /\ Fresh(a) => Fresh(b)
  BY <1>1, <1>2 DEF Fresh, Renewed
<1>7. Good(b)
  BY <1>1, <1>3 DEF Good
<1> QED BY <1>1, <1>5, <1>6, <1>7 DEF Entering

LEMMA OverwrittenEnters ==
    ASSUME NEW a, Good(a), NEW b, NEW k \in Keys, NEW v \in {k, Nil}, ~ InArray(a, k), Absent(a, k),
           NEW p, p = MainPosition(a, k), Overwritten(a, b, p, k, v)
    PROVE  Entering(a, b, k, v)
<1>1. TableType(a) /\ Chained(a) /\ FreeBelow(a) /\ k # Nil
  BY Constants DEF Good
<1>2. Kept(a, b) /\ p \in Nodes(a) /\ a.node[p].val = Nil /\ b.lastfree = a.lastfree
      /\ \A x \in Nodes(a) : x # p => b.node[x] = a.node[x]
  BY DEF Overwritten
<1>3. b.node[p].key = k /\ ~ b.node[p].dead /\ b.node[p].val = v
  <2>1. b.node[p] = Entered(k, v, a.node[p].next)
    BY DEF Overwritten
  <2> QED BY <2>1, EnteredFields
<1>4. Chained(b)
  BY <1>1, OverwrittenChained
<1>5. FreeBelow(b)
  <2>1. Nodes(b) = Nodes(a) /\ SizeNode(b) = SizeNode(a)
    BY <1>2 DEF Kept, Nodes, SizeNode
  <2> QED BY <1>1, <1>2, <1>3, <2>1 DEF FreeBelow
<1>6. Renewed(a, b, k, v)
  BY <1>2, <1>3 DEF Renewed
<1> QED BY <1>2, <1>4, <1>5, <1>6, RenewedEnters

LEMMA LinkedInEnters ==
    ASSUME NEW a, Good(a), NEW b, NEW k \in Keys, NEW v \in {k, Nil}, ~ InArray(a, k), Absent(a, k),
           NEW p, p = MainPosition(a, k), NEW n, LinkedIn(a, b, p, n, k, v),
           \A x \in Nodes(a) : n < x => a.node[x].key # Nil
    PROVE  Entering(a, b, k, v)
<1>1. TableType(a) /\ Chained(a) /\ ValuesOwn(a) /\ k # Nil
  BY Constants DEF Good
<1>2. Kept(a, b) /\ p \in Nodes(a) /\ a.node[p].val # Nil /\ b.lastfree = n /\ n \in Nodes(a) /\ a.node[n].key = Nil
      /\ \A x \in Nodes(a) : x # p /\ x # n => b.node[x] = a.node[x]
  BY DEF LinkedIn
<1>3. b.node[n].key = k /\ ~ b.node[n].dead /\ b.node[n].val = v
  <2>1. b.node[n] = Entered(k, v, a.node[p].next)
    BY DEF LinkedIn
  <2> QED BY <2>1, EnteredFields
<1>4. b.node[p].key = a.node[p].key /\ b.node[p].dead = a.node[p].dead /\ b.node[p].val = a.node[p].val
  <2>1. b.node[p] = Node(a.node[p].key, a.node[p].dead, a.node[p].val, n)
    BY DEF LinkedIn
  <2> QED BY <2>1, NodeFields
<1>5. a.node[n].val = Nil /\ a.node[p].key # Nil /\ p # n
  BY <1>1, <1>2 DEF ValuesOwn
<1>6. Chained(b)
  BY <1>1, LinkedInChained
<1>7. FreeBelow(b)
  <2>1. Nodes(b) = Nodes(a) /\ SizeNode(b) = SizeNode(a)
    BY <1>2 DEF Kept, Nodes, SizeNode
  <2>2. SizeNode(a) \in Nat /\ Nodes(a) = 0 .. SizeNode(a) - 1
    BY <1>1, NodesAre
  <2>3. ASSUME NEW x \in Nodes(a), n <= x PROVE b.node[x].key # Nil
    <3>1. x = n \/ n < x
      BY <1>2, <2>2, <2>3
    <3> QED BY <1>1, <1>2, <1>3, <1>4, <1>5, <3>1
  <2>4. n <= SizeNode(a)
    BY <1>2, <2>2
  <2> QED BY <1>2, <2>1, <2>3, <2>4 DEF FreeBelow
<1>8. Renewed(a, b, k, v)
  <2>1. \A x \in Nodes(a) : x # n =>
            b.node[x].key = a.node[x].key /\ b.node[x].dead = a.node[x].dead /\ b.node[x].val = a.node[x].val
    BY <1>2, <1>4
  <2> QED BY <1>2, <1>3, <1>5, <2>1 DEF Renewed
<1> QED BY <1>2, <1>6, <1>7, <1>8, RenewedEnters

LEMMA MovedAsideEnters ==
    ASSUME NEW a, Good(a), NEW b, NEW k \in Keys, NEW v \in {k, Nil}, ~ InArray(a, k), Absent(a, k),
           NEW p, p = MainPosition(a, k), NEW n, NEW q, MovedAside(a, b, p, n, q, k, v),
           \A x \in Nodes(a) : n < x => a.node[x].key # Nil
    PROVE  Entering(a, b, k, v)
<1>1. TableType(a) /\ Chained(a) /\ ValuesOwn(a) /\ k # Nil
  BY Constants DEF Good
<1>2. Kept(a, b) /\ b.lastfree = n
  BY DEF MovedAside
<1>3. /\ p \in Nodes(a) /\ n \in Nodes(a) /\ q \in Nodes(a)
      /\ p # n /\ q # p /\ q # n /\ a.node[p].key # Nil /\ a.node[n].key = Nil
      /\ b.node[p].key = k /\ b.node[n] = a.node[p]
      /\ b.node[q].key = a.node[q].key /\ b.node[q].dead = a.node[q].dead
      /\ \A x \in Nodes(a) : x # p /\ x # n /\ x # q => b.node[x] = a.node[x]
  <2>1. PICK R : Linked(a, R)
    BY <1>1 DEF Chained
  <2>2. Aside(a, b, p, n, q, k)
    BY <1>1, <2>1, MovedAsideFacts, Zenon
  <2> QED BY <2>2 DEF Aside
<1>4. b.node[q].val = a.node[q].val
  <2>1. b.node[q] = Node(a.node[q].key, a.node[q].dead, a.node[q].val, n)
    BY DEF MovedAside
  <2> QED BY <2>1, NodeFields
<1>5. ~ b.node[p].dead /\ b.node[p].val = v
  <2>1. b.node[p] = Entered(k, v, None)
    BY DEF MovedAside
  <2> QED BY <2>1, EnteredFields
<1>6. a.node[n].val = Nil
  BY <1>1, <1>3 DEF ValuesOwn
<1>7. Chained(b)
  BY <1>1, MovedAsideChained
<1>8. FreeBelow(b)
  <2>1. Nodes(b) = Nodes(a) /\ SizeNode(b) = SizeNode(a)
    BY <1>2 DEF Kept, Nodes, SizeNode
  <2>2. SizeNode(a) \in Nat /\ Nodes(a) = 0 .. SizeNode(a) - 1
    BY <1>1, NodesAre
  <2>3. ASSUME NEW x \in Nodes(a), n <= x PROVE b.node[x].key # Nil
    <3>1. x = n \/ n < x
      BY <1>3, <2>2, <2>3
    <3> QED BY <1>1, <1>3, <3>1
  <2>4. n <= SizeNode(a)
    BY <1>3, <2>2
  <2> QED BY <1>2, <2>1, <2>3, <2>4 DEF FreeBelow
<1>9. Renewed(a, b, k, v)
  <2>1. \A x \in Nodes(a) : x # n /\ x # p =>
            b.node[x].key = a.node[x].key /\ b.node[x].dead = a.node[x].dead /\ b.node[x].val = a.node[x].val
    BY <1>3, <1>4
  <2>2. \A x \in Nodes(a) :
          \/ b.node[x].key = k /\ ~ b.node[x].dead /\ b.node[x].val = v
          \/ \E y \in Nodes(a) : /\ b.node[x].key = a.node[y].key /\ b.node[x].dead = a.node[y].dead
                                 /\ b.node[x].val = a.node[y].val
    BY <1>3, <1>5, <2>1
  <2>3. \A y \in Nodes(a) : a.node[y].val # Nil => \E x \in Nodes(a) : b.node[x].val = a.node[y].val
    <3> SUFFICES ASSUME NEW y \in Nodes(a), a.node[y].val # Nil
                 PROVE  \E x \in Nodes(a) : b.node[x].val = a.node[y].val
      OBVIOUS
    <3>1. y # n
      BY <1>6
    <3> QED BY <1>3, <2>1, <3>1
  <2> QED BY <1>3, <1>5, <2>2, <2>3 DEF Renewed
<1> QED BY <1>2, <1>7, <1>8, <1>9, RenewedEnters

\* The value at a key that is there.
LEMMA AssignedFound ==
    ASSUME NEW a, Good(a), NEW k \in Keys, NEW v \in {k, Nil}, NEW b, b = Assigned(a, k, v),
           InArray(a, k) \/ NodeOf(a, k) # None
    PROVE  Entering(a, b, k, v)
<1>1. TableType(a) /\ ValuesOwn(a) /\ FreeBelow(a) /\ Chained(a) /\ Len(a.array) <= 2 * MaxInt + 1
  BY DEF Good
<1>2. k # Nil /\ Nil \notin Keys /\ v \in Keys \cup {Nil}
  BY Constants
<1>3. CASE InArray(a, k)
  <2>1. b = [a EXCEPT !.array[k] = v] /\ k \in 1 .. Len(a.array)
    BY <1>3 DEF Assigned, InArray
  <2> PICK r : r = [a.array EXCEPT ![k] = v]
    OBVIOUS
  <2>2. a.array \in Seq(Keys \cup {Nil}) /\ a.hash \in Hash /\ a.lastfree \in Nat /\ a.fits \in BOOLEAN
        /\ a.node \in [Nodes(a) -> NodeType]
        /\ a = [array |-> a.array, node |-> a.node, lastfree |-> a.lastfree, hash |-> a.hash, fits |-> a.fits]
    BY <1>1 DEF TableType
  <2>3. r \in Seq(Keys \cup {Nil}) /\ Len(r) = Len(a.array) /\ r[k] = v
        /\ \A i \in 1 .. Len(a.array) : i # k => r[i] = a.array[i]
    BY <1>2, <2>1, <2>2
  <2>4. b = [array |-> r, node |-> a.node, lastfree |-> a.lastfree, hash |-> a.hash, fits |-> a.fits]
    BY <2>1, <2>2
  <2>5. b.array = r /\ b.node = a.node /\ b.lastfree = a.lastfree /\ b.hash = a.hash /\ b.fits = a.fits
        /\ Nodes(b) = Nodes(a) /\ SizeNode(b) = SizeNode(a)
    BY <2>4 DEF Nodes, SizeNode
  <2>6. TableType(b)
    BY <1>1, <2>2, <2>3, <2>4, <2>5 DEF TableType
  <2>7. Chained(b)
    <3>1. PICK R : Linked(a, R) /\ Headed(a, R) /\ Single(a, R)
      BY <1>1 DEF Chained
    <3>2. \A l : MainPosition(b, l) = MainPosition(a, l)
      BY <2>5, SameMain
    <3>3. Linked(b, R) /\ Single(b, R)
      BY <2>5, <3>1 DEF Linked, Single
    <3>4. Headed(b, R)
      BY <2>5, <3>1, <3>2 DEF Headed
    <3> QED BY <3>3, <3>4 DEF Chained
  <2>8. ValuesOwn(b) /\ FreeBelow(b)
    BY <1>1, <2>1, <2>3, <2>5 DEF ValuesOwn, FreeBelow
  <2>9. Contents(b) = (Contents(a) \ {k}) \cup ({v} \ {Nil})
    <3>1. \A x \in Nodes(a) : a.node[x].val # k
      BY <1>1, <1>2, <2>1 DEF ValuesOwn
    <3>2. ASSUME NEW l \in Keys
          PROVE  l \in Contents(b) <=> l \in (Contents(a) \ {k}) \cup ({v} \ {Nil})
      <4>1. CASE l = k
        BY <1>2, <2>1, <2>3, <2>5, <3>1, <4>1 DEF Contents
      <4>2. CASE l # k
        BY <1>2, <2>3, <2>5, <4>2 DEF Contents
      <4> QED BY <4>1, <4>2
    <3>3. Contents(b) \subseteq Keys /\ Contents(a) \subseteq Keys /\ {v} \ {Nil} \subseteq Keys
      BY <1>2 DEF Contents
    <3> QED BY <3>2, <3>3
  <2>10. Good(b)
    BY <1>1, <2>3, <2>5, <2>6, <2>7, <2>8 DEF Good
  <2> QED BY <2>3, <2>5, <2>9, <2>10 DEF Entering, Fresh
<1>4. CASE ~ InArray(a, k) /\ NodeOf(a, k) # None
  <2> PICK n : n = NodeOf(a, k)
    OBVIOUS
  <2>1. b = ValueSet(a, n, v)
    BY <1>4 DEF Assigned, ValueSet
  <2>2. n \in Nodes(a) /\ a.node[n].key = k /\ ~ a.node[n].dead
    BY <1>1, <1>4, Constants, NodeOfIs
  <2>3. Written(a, b, n, Node(a.node[n].key, a.node[n].dead, v, a.node[n].next))
    BY <1>1, <1>2, <2>1, <2>2, FieldAt
  <2>4. /\ TableType(b) /\ Nodes(b) = Nodes(a) /\ b.array = a.array /\ b.hash = a.hash /\ b.fits = a.fits
        /\ b.lastfree = a.lastfree /\ b.node[n] = Node(a.node[n].key, a.node[n].dead, v, a.node[n].next)
        /\ \A x \in Nodes(a) : x # n => b.node[x] = a.node[x]
    BY <2>3 DEF Written, Kept
  <2>5. b.node[n].key = a.node[n].key /\ b.node[n].dead = a.node[n].dead /\ b.node[n].val = v
        /\ b.node[n].next = a.node[n].next
    BY <2>4, NodeFields
  <2>6. \A x \in Nodes(a) : b.node[x].key = a.node[x].key /\ b.node[x].dead = a.node[x].dead
           /\ b.node[x].next = a.node[x].next
    BY <2>4, <2>5
  <2>7. SizeNode(b) = SizeNode(a)
    BY <2>4 DEF SizeNode, Nodes
  <2>8. Chained(b)
    <3>1. PICK R : Linked(a, R) /\ Headed(a, R) /\ Single(a, R)
      BY <1>1 DEF Chained
    <3>2. \A l : MainPosition(b, l) = MainPosition(a, l)
      BY <2>4, SameMain
    <3>3. Linked(b, R) /\ Single(b, R)
      BY <2>4, <2>6, <3>1 DEF Linked, Single
    <3>4. Headed(b, R)
      <4> SUFFICES ASSUME NEW x \in Nodes(a), a.node[x].key # Nil, NEW m, m = MainPosition(a, a.node[x].key)
                   PROVE  x \in R[m] /\ b.node[m].key # Nil /\ MainPosition(a, b.node[m].key) = m
        BY <2>4, <2>6, <3>2 DEF Headed
      <4>1. m \in Nodes(a) /\ x \in R[m] /\ a.node[m].key # Nil /\ MainPosition(a, a.node[m].key) = m
        BY <1>1, <3>1, KeyMain
      <4> QED BY <2>6, <4>1
    <3> QED BY <3>3, <3>4 DEF Chained
  <2>9. FreeBelow(b)
    BY <1>1, <2>4, <2>6, <2>7 DEF FreeBelow
  <2>10. ValuesOwn(b)
    <3>1. k \notin 1 .. Len(a.array)
      BY <1>4 DEF InArray
    <3> QED BY <1>1, <2>2, <2>4, <2>5, <3>1 DEF ValuesOwn
  <2>11. ASSUME NEW x \in Nodes(a), a.node[x].val = k PROVE x = n
    <3>1. a.node[x].key = k /\ ~ a.node[x].dead
      BY <1>1, <1>2, <2>11 DEF ValuesOwn
    <3>2. PICK R : Single(a, R)
      BY <1>1 DEF Chained
    <3> QED BY <1>2, <2>2, <3>1, <3>2 DEF Single
  <2>12. Contents(b) = (Contents(a) \ {k}) \cup ({v} \ {Nil})
    <3>1. ASSUME NEW l \in Keys
          PROVE  l \in Contents(b) <=> l \in (Contents(a) \ {k}) \cup ({v} \ {Nil})
      <4> PICK A : A = (l \in 1 .. Len(a.array) /\ a.array[l] = l)
        OBVIOUS
      <4>1. l \in Contents(b) <=> A \/ \E x \in Nodes(a) : b.node[x].val = l
        BY <2>4 DEF Contents
      <4>2. l \in Contents(a) <=> A \/ \E x \in Nodes(a) : a.node[x].val = l
        BY DEF Contents
      <4>3. CASE l = k
        <5>1. ~ A
          BY <1>4, <4>3 DEF InArray
        <5>2. (\E x \in Nodes(a) : b.node[x].val = k) <=> v = k
          BY <1>2, <2>2, <2>4, <2>5, <2>11
        <5> QED BY <1>2, <4>1, <4>3, <5>1, <5>2
      <4>4. CASE l # k
        <5>1. a.node[n].val # l /\ b.node[n].val # l
          <6>1. a.node[n].val \in {Nil, k}
            BY <1>1, <2>2 DEF ValuesOwn
          <6> QED BY <1>2, <2>5, <4>4, <6>1
        <5>2. (\E x \in Nodes(a) : b.node[x].val = l) <=> \E x \in Nodes(a) : a.node[x].val = l
          BY <2>4, <5>1
        <5> QED BY <1>2, <4>1, <4>2, <4>4, <5>2
      <4> QED BY <4>3, <4>4
    <3>2. Contents(b) \subseteq Keys /\ Contents(a) \subseteq Keys /\ {v} \ {Nil} \subseteq Keys
      BY <1>2 DEF Contents
    <3> QED BY <3>1, <3>2
  <2>13. Good(b)
    BY <1>1, <2>4, <2>8, <2>9, <2>10 DEF Good
  <2>14. v = k /\ Fresh(a) => Fresh(b)
    BY <1>2, <2>4, <2>5, <2>6 DEF Fresh
  <2> QED BY <2>4, <2>12, <2>13, <2>14 DEF Entering
<1> QED BY <1>3, <1>4

\* luaH_set, the assignment included: the value is there, or every node has a key.
LEMMA AssignedIs ==
    ASSUME NEW a, Good(a), NEW k \in Keys, NEW v \in {k, Nil}, NEW b, b = Assigned(a, k, v)
    PROVE  \/ Entering(a, b, k, v)
           \/ /\ Full(a, b) /\ ~ InArray(a, k) /\ Absent(a, k)
              /\ SizeNode(a) = 0 \/ a.node[MainPosition(a, k)].val # Nil
<1>1. TableType(a) /\ ValuesOwn(a) /\ FreeBelow(a) /\ Chained(a)
  BY DEF Good
<1>2. CASE InArray(a, k) \/ NodeOf(a, k) # None
  BY <1>2, AssignedFound
<1>3. CASE ~ InArray(a, k) /\ NodeOf(a, k) = None
  <2>1. Absent(a, k)
    <3>1. k \in Hashed
      BY Constants
    <3> QED BY <1>1, <1>3, <3>1, NodeOfIs DEF Absent
  <2> PICK p : p = MainPosition(a, k)
    OBVIOUS
  <2>2. \/ Overwritten(a, b, p, k, v)
        \/ \E n : LinkedIn(a, b, p, n, k, v) /\ \A x \in Nodes(a) : n < x => a.node[x].key # Nil
        \/ \E n, q : MovedAside(a, b, p, n, q, k, v) /\ \A x \in Nodes(a) : n < x => a.node[x].key # Nil
        \/ Full(a, b) /\ (SizeNode(a) = 0 \/ a.node[p].val # Nil)
    <3>1. v \in Keys \cup {Nil}
      OBVIOUS
    <3> QED BY <1>1, <1>3, <3>1, AssignedNew, Zenon
  <2>3. CASE Overwritten(a, b, p, k, v)
    BY <1>3, <2>1, <2>3, OverwrittenEnters
  <2>4. ASSUME NEW n, LinkedIn(a, b, p, n, k, v), \A x \in Nodes(a) : n < x => a.node[x].key # Nil
        PROVE  Entering(a, b, k, v)
    BY <1>3, <2>1, <2>4, LinkedInEnters
  <2>5. ASSUME NEW n, NEW q, MovedAside(a, b, p, n, q, k, v),
               \A x \in Nodes(a) : n < x => a.node[x].key # Nil
        PROVE  Entering(a, b, k, v)
    BY <1>3, <2>1, <2>5, MovedAsideEnters
  <2>6. CASE Full(a, b) /\ (SizeNode(a) = 0 \/ a.node[p].val # Nil)
    BY <1>3, <2>1, <2>6
  <2> QED BY <2>2, <2>3, <2>4, <2>5, <2>6
<1> QED BY <1>2, <1>3

\* The keys in use that are not in the array part.
Outside(a) == Contents(a) \ (1 .. Len(a.array))

\* A table without empty entries has a free node as long as it holds fewer keys.
LEMMA RoomLeft ==
    ASSUME NEW a, Good(a), Fresh(a), \A x \in Nodes(a) : a.node[x].key # Nil
    PROVE  IsFiniteSet(Outside(a)) /\ Cardinality(Outside(a)) = SizeNode(a)
<1>1. TableType(a) /\ ValuesOwn(a) /\ Chained(a)
  BY DEF Good
<1>2. IsFiniteSet(Nodes(a)) /\ Cardinality(Nodes(a)) = SizeNode(a)
  BY <1>1, NodesAre
<1>3. \A x \in Nodes(a) : /\ a.node[x].val # Nil /\ a.node[x].val = a.node[x].key /\ ~ a.node[x].dead
                          /\ a.node[x].val \in Keys /\ a.node[x].val \notin 1 .. Len(a.array)
  BY <1>1 DEF ValuesOwn, Fresh, TableType, NodeType
<1> PICK f : f = [x \in Nodes(a) |-> a.node[x].val]
  OBVIOUS
<1>4. Outside(a) = {f[x] : x \in Nodes(a)}
  <2>1. Nil \notin Keys
    BY Constants
  <2>2. \A l \in Outside(a) : l \in Keys /\ l \notin 1 .. Len(a.array) /\ \E x \in Nodes(a) : a.node[x].val = l
    BY DEF Outside, Contents
  <2>3. \A x \in Nodes(a) : a.node[x].val \in Outside(a)
    BY <1>3 DEF Outside, Contents
  <2> QED BY <2>2, <2>3
<1>5. \A x, y \in Nodes(a) : f[x] = f[y] => x = y
  <2>1. PICK R : Single(a, R)
    BY <1>1 DEF Chained
  <2>2. \A x, y \in Nodes(a) : a.node[x].val = a.node[y].val => x = y
    BY <1>1, <1>3, <2>1, Constants DEF Single, Fresh
  <2> QED BY <2>2
<1>6. f \in Bijection(Nodes(a), Outside(a))
  BY <1>4, <1>5 DEF Bijection, Injection, Surjection, IsInjective
<1> PICK S : S = Nodes(a)
  OBVIOUS
<1> PICK T : T = Outside(a)
  OBVIOUS
<1>7. ExistsBijection(S, T)
  BY <1>6 DEF ExistsBijection
<1>8. IsFiniteSet(T) /\ Cardinality(T) = Cardinality(S)
  BY <1>2, <1>7, FS_Bijection
<1> QED BY <1>2, <1>8

-----------------------------------------------------------------------------
(* Powers of two. *)

Doubled(n, f) == f = [m \in 0 .. n |-> IF m = 0 THEN 1 ELSE 2 * f[m - 1]]

LEMMA DoubledIs ==
    ASSUME NEW n \in Nat, NEW f, Doubled(n, f)
    PROVE  f[0] = 1 /\ \A m \in Nat : m + 1 <= n => f[m + 1] = 2 * f[m]
<1>1. DOMAIN f = 0 .. n /\ \A m \in 0 .. n : f[m] = IF m = 0 THEN 1 ELSE 2 * f[m - 1]
  BY DEF Doubled
<1>2. 0 \in 0 .. n /\ \A m \in Nat : m + 1 <= n => m + 1 \in 0 .. n /\ m + 1 # 0 /\ (m + 1) - 1 = m
  OBVIOUS
<1>3. ASSUME NEW m \in Nat, m + 1 <= n PROVE f[m + 1] = 2 * f[m]
  BY <1>1, <1>2, <1>3
<1> QED BY <1>1, <1>2, <1>3

LEMMA DoubledExists == \A n \in Nat : \E f : Doubled(n, f)
<1> DEFINE U == {n \in Nat : \E f : Doubled(n, f)}
<1>1. 0 \in U
  <2>1. \A m \in 0 .. 0 : m = 0
    OBVIOUS
  <2>2. Doubled(0, [m \in 0 .. 0 |-> 1])
    BY <2>1 DEF Doubled
  <2> QED BY <2>2
<1>2. ASSUME NEW n \in U PROVE n + 1 \in U
  <2>1. PICK f : Doubled(n, f)
    OBVIOUS
  <2> DEFINE g == [m \in 0 .. n + 1 |-> IF m = n + 1 THEN 2 * f[n] ELSE f[m]]
  <2>2. \A m \in 0 .. n : f[m] = IF m = 0 THEN 1 ELSE 2 * f[m - 1]
    BY <2>1 DEF Doubled
  <2>3. \A m \in 0 .. n + 1 : g[m] = IF m = 0 THEN 1 ELSE 2 * g[m - 1]
    <3> TAKE m \in 0 .. n + 1
    <3>1. CASE m = n + 1
      <4>1. m # 0 /\ m - 1 = n /\ n \in 0 .. n + 1 /\ n # n + 1
        BY <3>1
      <4> QED BY <3>1, <4>1
    <3>2. CASE m # n + 1
      <4>1. m \in 0 .. n /\ (m # 0 => m - 1 \in 0 .. n + 1 /\ m - 1 # n + 1)
        BY <3>2
      <4> QED BY <2>2, <3>2, <4>1
    <3> QED BY <3>1, <3>2
  <2>4. g = [m \in 0 .. n + 1 |-> g[m]]
    OBVIOUS
  <2> HIDE DEF g
  <2>5. g = [m \in 0 .. n + 1 |-> IF m = 0 THEN 1 ELSE 2 * g[m - 1]]
    BY <2>3, <2>4
  <2>6. Doubled(n + 1, g)
    BY <2>5 DEF Doubled
  <2> QED BY <2>6
<1> HIDE DEF U
<1>3. U = Nat
  <2>1. U \subseteq Nat
    BY DEF U
  <2> QED BY <1>1, <1>2, <2>1, Induction
<1> QED BY <1>3 DEF U

LEMMA DoubledOnce ==
    ASSUME NEW n \in Nat, NEW l \in Nat, NEW f, NEW g, Doubled(n, f), Doubled(l, g)
    PROVE  \A m \in Nat : m <= n /\ m <= l => f[m] = g[m]
<1> DEFINE U == {m \in Nat : m <= n /\ m <= l => f[m] = g[m]}
<1>1. /\ f[0] = 1 /\ \A m \in Nat : m + 1 <= n => f[m + 1] = 2 * f[m]
      /\ g[0] = 1 /\ \A m \in Nat : m + 1 <= l => g[m + 1] = 2 * g[m]
  BY DoubledIs
<1>2. 0 \in U
  BY <1>1
<1>3. ASSUME NEW m \in U PROVE m + 1 \in U
  <2> SUFFICES ASSUME m + 1 <= n, m + 1 <= l PROVE f[m + 1] = g[m + 1]
    OBVIOUS
  <2>1. f[m] = g[m]
    OBVIOUS
  <2> QED BY <1>1, <2>1
<1>4. U = Nat
  <2>1. U \subseteq Nat
    OBVIOUS
  <2> HIDE DEF U
  <2> QED BY <1>2, <1>3, <2>1, Induction
<1> QED BY <1>4

LEMMA PowersAre == twoto[0] = 1 /\ \A n \in Nat : twoto[n + 1] = 2 * twoto[n]
<1> DEFINE G(n) == CHOOSE g : Doubled(n, g)
           h == [n \in Nat |-> G(n)[n]]
           E(f) == f = [x \in Nat |-> IF x = 0 THEN 1 ELSE 2 * f[x - 1]]
<1>1. \A n \in Nat : Doubled(n, G(n))
  BY DoubledExists, Zenon
<1> HIDE DEF G
<1>2. \A x \in Nat : h[x] = IF x = 0 THEN 1 ELSE 2 * h[x - 1]
  <2> TAKE x \in Nat
  <2>1. CASE x = 0
    BY <1>1, <2>1, DoubledIs
  <2>2. CASE x # 0
    <3> PICK y : y = x - 1
      OBVIOUS
    <3>1. y \in Nat /\ y + 1 = x /\ y <= x /\ x <= x
      BY <2>2
    <3>2. G(x)[x] = 2 * G(x)[y]
      BY <1>1, <3>1, DoubledIs
    <3>3. G(x)[y] = G(y)[y]
      <4>1. y <= y
        BY <3>1
      <4> QED BY <1>1, <3>1, <4>1, DoubledOnce
    <3> QED BY <2>2, <3>1, <3>2, <3>3
  <2> QED BY <2>1, <2>2
<1>3. h = [x \in Nat |-> h[x]]
  OBVIOUS
<1> HIDE DEF h
<1>4. E(h)
  BY <1>2, <1>3
<1>5. twoto = CHOOSE f : E(f)
  BY DEF twoto
<1> HIDE DEF E
<1>6. E(twoto)
  BY <1>4, <1>5, Zenon
<1>7. twoto = [x \in Nat |-> IF x = 0 THEN 1 ELSE 2 * twoto[x - 1]]
  BY <1>6 DEF E
<1>8. \A n \in Nat : n + 1 \in Nat /\ n + 1 # 0 /\ (n + 1) - 1 = n
  OBVIOUS
<1> PICK f : f = twoto
  OBVIOUS
<1>9. \A x \in Nat : f[x] = IF x = 0 THEN 1 ELSE 2 * f[x - 1]
  BY <1>7
<1> QED BY <1>8, <1>9

LEMMA PowersGrow ==
    /\ \A n \in Nat : twoto[n] \in Nat /\ twoto[n] >= n + 1
    /\ \A m, n \in Nat : m <= n => twoto[m] <= twoto[n]
<1> PICK f : f = twoto
  OBVIOUS
<1> DEFINE U == {n \in Nat : f[n] \in Nat /\ f[n] >= n + 1}
<1>1. f[0] = 1 /\ \A n \in Nat : f[n + 1] = 2 * f[n]
  BY PowersAre
<1>2. 0 \in U
  BY <1>1
<1>3. ASSUME NEW n \in U PROVE n + 1 \in U
  BY <1>1
<1>4. U = Nat
  <2>1. U \subseteq Nat
    OBVIOUS
  <2> HIDE DEF U
  <2> QED BY <1>2, <1>3, <2>1, Induction
<1>5. \A n \in Nat : f[n] \in Nat /\ f[n] >= n + 1
  BY <1>4
<1>6. ASSUME NEW m \in Nat PROVE \A n \in Nat : m <= n => f[m] <= f[n]
  <2> DEFINE V == {n \in Nat : m <= n => f[m] <= f[n]}
  <2>1. 0 \in V
    BY <1>5
  <2>2. ASSUME NEW n \in V PROVE n + 1 \in V
    <3>1. CASE m <= n
      BY <1>1, <1>5, <2>2, <3>1
    <3>2. CASE ~ m <= n
      <4>1. m <= n + 1 => m = n + 1
        BY <3>2
      <4> QED BY <1>5, <4>1
    <3> QED BY <3>1, <3>2
  <2>3. V = Nat
    <3>1. V \subseteq Nat
      OBVIOUS
    <3> HIDE DEF V
    <3> QED BY <2>1, <2>2, <3>1, Induction
  <2> QED BY <2>3
<1> QED BY <1>5, <1>6

\* ceillog2: the size of the hash part is enough.
LEMMA CeilingIs ==
    ASSUME NEW n \in Nat
    PROVE  twoto[Ceillog2(n)] \in Nat /\ twoto[Ceillog2(n)] >= n
<1> DEFINE S == {i \in Nat : twoto[i] >= n}
<1>1. n \in S
  BY PowersGrow
<1>2. PICK i \in S : \A j \in S : i <= j
  BY <1>1, LeastNat
<1>3. i \in 0 .. n /\ twoto[i] >= n
  BY <1>1, <1>2
<1>4. \A j \in 0 .. i - 1 : twoto[j] < n
  <2> TAKE j \in 0 .. i - 1
  <2>1. j \in Nat /\ ~ i <= j
    OBVIOUS
  <2>2. j \notin S
    BY <1>2, <2>1
  <2> QED BY <2>1, <2>2, PowersGrow
<1>5. Ceillog2(n) \in 0 .. n /\ twoto[Ceillog2(n)] >= n
  BY <1>3, <1>4, Zenon DEF Ceillog2
<1> QED BY <1>5, PowersGrow

-----------------------------------------------------------------------------
(* Resizing. *)

\* luaH_resize inserts again the elements of the slice that vanishes, then the nodes.
Gap(a, nasize) == IF Len(a.array) > nasize THEN Len(a.array) - nasize ELSE 0
Bare(a, nasize, size) ==
    [a EXCEPT !.array = [i \in 1 .. nasize |-> IF i <= Len(a.array) THEN a.array[i] ELSE Nil],
              !.node = NodeVector(size), !.lastfree = size]
Moved(a, nasize, n) ==
    IF n <= Gap(a, nasize) THEN [key |-> nasize + n, val |-> a.array[nasize + n]]
    ELSE a.node[SizeNode(a) - (n - Gap(a, nasize))]
Refill(a, nasize, b, s, f) ==
    f = [n \in 0 .. s |->
            IF n = 0 THEN b
            ELSE IF Moved(a, nasize, n).val = Nil THEN f[n - 1]
            ELSE Assigned(f[n - 1], Moved(a, nasize, n).key, Moved(a, nasize, n).val)]

LEMMA RefillExists == \A a, nasize, b : \A s \in Nat : \E f : Refill(a, nasize, b, s, f)
<1> SUFFICES ASSUME NEW a, NEW nasize, NEW b PROVE \A s \in Nat : \E f : Refill(a, nasize, b, s, f)
  OBVIOUS
<1> DEFINE After(n, x) == IF Moved(a, nasize, n).val = Nil THEN x
                          ELSE Assigned(x, Moved(a, nasize, n).key, Moved(a, nasize, n).val)
           U == {n \in Nat : \E f : Refill(a, nasize, b, n, f)}
<1>1. 0 \in U
  <2>1. \A m \in 0 .. 0 : m = 0
    OBVIOUS
  <2>2. Refill(a, nasize, b, 0, [m \in 0 .. 0 |-> b])
    BY <2>1 DEF Refill
  <2> QED BY <2>2
<1>2. ASSUME NEW n \in U PROVE n + 1 \in U
  <2>1. PICK f : Refill(a, nasize, b, n, f)
    OBVIOUS
  <2> DEFINE g == [m \in 0 .. n + 1 |-> IF m = n + 1 THEN After(n + 1, f[n]) ELSE f[m]]
  <2>2. \A m \in 0 .. n : f[m] = IF m = 0 THEN b ELSE After(m, f[m - 1])
    BY <2>1 DEF Refill
  <2> HIDE DEF After
  <2>3. \A m \in 0 .. n + 1 : g[m] = IF m = 0 THEN b ELSE After(m, g[m - 1])
    <3> TAKE m \in 0 .. n + 1
    <3>1. CASE m = n + 1
      <4>1. m # 0 /\ m - 1 = n /\ n \in 0 .. n + 1 /\ n # n + 1
        BY <3>1
      <4> QED BY <3>1, <4>1
    <3>2. CASE m # n + 1
      <4>1. m \in 0 .. n /\ (m # 0 => m - 1 \in 0 .. n + 1 /\ m - 1 # n + 1)
        BY <3>2
      <4> QED BY <2>2, <3>2, <4>1
    <3> QED BY <3>1, <3>2
  <2>4. g = [m \in 0 .. n + 1 |-> g[m]]
    OBVIOUS
  <2> HIDE DEF g
  <2>5. g = [m \in 0 .. n + 1 |-> IF m = 0 THEN b ELSE After(m, g[m - 1])]
    BY <2>3, <2>4
  <2>6. Refill(a, nasize, b, n + 1, g)
    BY <2>5 DEF Refill, After
  <2> QED BY <2>6
<1> HIDE DEF U
<1>3. U = Nat
  <2>1. U \subseteq Nat
    BY DEF U
  <2> QED BY <1>1, <1>2, <2>1, Induction
<1> QED BY <1>3 DEF U

LEMMA RefillIs ==
    ASSUME NEW a, NEW nasize, NEW b, NEW s \in Nat, NEW f, Refill(a, nasize, b, s, f)
    PROVE  /\ f[0] = b
           /\ \A n \in Nat : n + 1 <= s =>
                 f[n + 1] = IF Moved(a, nasize, n + 1).val = Nil THEN f[n]
                            ELSE Assigned(f[n], Moved(a, nasize, n + 1).key, Moved(a, nasize, n + 1).val)
<1> DEFINE After(n, x) == IF Moved(a, nasize, n).val = Nil THEN x
                          ELSE Assigned(x, Moved(a, nasize, n).key, Moved(a, nasize, n).val)
<1>1. \A n \in 0 .. s : f[n] = IF n = 0 THEN b ELSE After(n, f[n - 1])
  BY DEF Refill
<1> HIDE DEF After
<1>2. 0 \in 0 .. s /\ \A m \in Nat : m + 1 <= s => m + 1 \in 0 .. s /\ m + 1 # 0 /\ (m + 1) - 1 = m
  OBVIOUS
<1>3. ASSUME NEW m \in Nat, m + 1 <= s PROVE f[m + 1] = After(m + 1, f[m])
  BY <1>1, <1>2, <1>3
<1>4. f[0] = b
  BY <1>1, <1>2
<1> QED BY <1>3, <1>4 DEF After

LEMMA ResizeFilled ==
    ASSUME NEW a, SizeNode(a) \in Nat, Len(a.array) \in Nat, NEW nasize \in Nat, NEW nhsize \in Nat,
           NEW size, size = IF nhsize = 0 THEN 0 ELSE twoto[Ceillog2(nhsize)]
    PROVE  \E f : Refill(a, nasize, Bare(a, nasize, size), Gap(a, nasize) + SizeNode(a), f)
                  /\ Resize(a, nasize, nhsize) = f[Gap(a, nasize) + SizeNode(a)]
<1> DEFINE s == Gap(a, nasize) + SizeNode(a)
           E(g) == Refill(a, nasize, Bare(a, nasize, size), s, g)
           c == CHOOSE g : E(g)
<1>1. s \in Nat
  BY DEF Gap
<1>2. E(c)
  <2>1. \E g : E(g)
    BY <1>1, RefillExists
  <2> HIDE DEF E
  <2> QED BY <2>1, Zenon
<1>3. Resize(a, nasize, nhsize) = c[s]
  BY DEF Resize, Refill, Bare, Moved, Gap
<1> QED BY <1>2, <1>3

LEMMA EmptyIs ==
    EmptyNode \in NodeType /\ EmptyNode.key = Nil /\ EmptyNode.val = Nil /\ EmptyNode.next = None
    /\ ~ EmptyNode.dead
<1> PICK f \in BOOLEAN : f = FALSE
  OBVIOUS
<1> PICK e : e = EmptyNode
  OBVIOUS
<1>1. e = [key |-> Nil, dead |-> f, val |-> Nil, next |-> None]
  BY DEF EmptyNode
<1> QED BY <1>1 DEF NodeType

\* The table before anything is inserted again.
Bared(a, b, nasize, size) ==
    /\ Good(b) /\ b.fits /\ Fresh(b) /\ SizeNode(b) = size
    /\ Len(b.array) = nasize /\ b.hash = a.hash
    /\ Contents(b) = {k \in 1 .. nasize : k <= Len(a.array) /\ a.array[k] = k}

LEMMA BareIs ==
    ASSUME NEW a, Good(a), a.fits, NEW nasize \in Nat, nasize <= 2 * MaxInt + 1, NEW size \in Nat,
           NEW b, b = Bare(a, nasize, size)
    PROVE  Bared(a, b, nasize, size)
<1>1. /\ a.array \in Seq(Keys \cup {Nil}) /\ a.hash \in Hash /\ a.fits \in BOOLEAN
      /\ a = [array |-> a.array, node |-> a.node, lastfree |-> a.lastfree, hash |-> a.hash, fits |-> a.fits]
  BY DEF Good, TableType
<1> PICK r : r = [i \in 1 .. nasize |-> IF i <= Len(a.array) THEN a.array[i] ELSE Nil]
  OBVIOUS
<1> PICK nd : nd = NodeVector(size)
  OBVIOUS
<1>2. b = [array |-> r, node |-> nd, lastfree |-> size, hash |-> a.hash, fits |-> a.fits]
  BY <1>1 DEF Bare
<1>3. \A i \in 1 .. Len(a.array) : a.array[i] \in Keys \cup {Nil} /\ Len(a.array) \in Nat
  BY <1>1
<1>4. \A i \in 1 .. nasize : i <= Len(a.array) => i \in 1 .. Len(a.array)
  BY <1>1
<1>5. \A i \in 1 .. nasize : r[i] \in Keys \cup {Nil}
  BY <1>3, <1>4
<1>6. r \in Seq(Keys \cup {Nil}) /\ Len(r) = nasize
  BY <1>5
<1>7. DOMAIN nd = 0 .. size - 1 /\ \A x \in 0 .. size - 1 : nd[x] = EmptyNode
  BY DEF NodeVector
<1>8. b.array = r /\ b.node = nd /\ b.lastfree = size /\ b.hash = a.hash /\ b.fits = a.fits
  BY <1>2
<1>9. Nodes(b) = 0 .. size - 1 /\ SizeNode(b) = size
  <2>1. Nodes(b) = 0 .. size - 1
    BY <1>7, <1>8 DEF Nodes
  <2> QED BY <2>1, SizeIs
<1>10. nd \in [Nodes(b) -> NodeType]
  <2>1. nd = [x \in Nodes(b) |-> EmptyNode]
    BY <1>9 DEF NodeVector
  <2> QED BY <2>1, EmptyIs
<1>11. TableType(b)
  BY <1>1, <1>2, <1>6, <1>9, <1>10 DEF TableType
<1>12. \A x \in Nodes(b) : b.node[x] = EmptyNode
  BY <1>7, <1>8, <1>9
<1>13. \A x \in Nodes(b) : /\ b.node[x].key = Nil /\ b.node[x].val = Nil /\ b.node[x].next = None
                           /\ ~ b.node[x].dead
  BY <1>12, EmptyIs
<1>14. ValuesOwn(b)
  <2>1. \A i \in 1 .. nasize : r[i] \in {Nil, i}
    BY <1>4 DEF Good, ValuesOwn
  <2> QED BY <1>6, <1>8, <1>13, <2>1 DEF ValuesOwn
<1>15. FreeBelow(b)
  <2>1. \A x \in Nodes(b) : ~ size <= x
    BY <1>9
  <2> QED BY <1>8, <1>9, <2>1 DEF FreeBelow
<1>16. Chained(b)
  <2> PICK R : R = [x \in Nodes(b) |-> {x}]
    OBVIOUS
  <2>1. Linked(b, R)
    BY <1>13 DEF Linked
  <2>2. Headed(b, R) /\ Single(b, R)
    BY <1>13 DEF Headed, Single
  <2> QED BY <2>1, <2>2 DEF Chained
<1>17. Good(b)
  BY <1>6, <1>8, <1>11, <1>14, <1>15, <1>16 DEF Good
<1>18. Contents(b) = {k \in 1 .. nasize : k <= Len(a.array) /\ a.array[k] = k}
  <2>1. Nil \notin Keys /\ \A k \in 1 .. nasize : k # Nil
    BY Constants
  <2>2. \A k \in Contents(b) : k \in 1 .. nasize /\ k <= Len(a.array) /\ a.array[k] = k
    BY <1>6, <1>8, <1>13, <2>1 DEF Contents
  <2>3. ASSUME NEW k \in 1 .. nasize, k <= Len(a.array), a.array[k] = k PROVE k \in Contents(b)
    <3>1. k \in Keys
      BY <1>3, <1>4, <2>1, <2>3
    <3>2. r[k] = k
      BY <2>3
    <3> QED BY <1>6, <1>8, <3>1, <3>2 DEF Contents
  <2> QED BY <2>2, <2>3
<1> QED BY <1>6, <1>8, <1>9, <1>13, <1>17, <1>18 DEF Bared, Fresh

\* What is inserted again.
LEMMA MovedIs ==
    ASSUME NEW a, Good(a), NEW nasize \in Nat
    PROVE  /\ Gap(a, nasize) + SizeNode(a) \in Nat
           /\ \A n \in 1 .. Gap(a, nasize) + SizeNode(a) :
                 /\ Moved(a, nasize, n).val \in {Nil, Moved(a, nasize, n).key}
                 /\ Moved(a, nasize, n).val # Nil => Moved(a, nasize, n).val \in Contents(a)
           /\ \A k \in Contents(a) :
                 \/ k \in 1 .. nasize /\ k <= Len(a.array) /\ a.array[k] = k
                 \/ \E n \in 1 .. Gap(a, nasize) + SizeNode(a) : Moved(a, nasize, n).val = k
<1>1. TableType(a) /\ ValuesOwn(a)
  BY DEF Good
<1>2. SizeNode(a) \in Nat /\ Nodes(a) = 0 .. SizeNode(a) - 1 /\ Len(a.array) \in Nat
  BY <1>1, NodesAre DEF TableType
<1> PICK g : g = Gap(a, nasize)
  OBVIOUS
<1>3. g \in Nat /\ (g # 0 => nasize + g = Len(a.array)) /\ Len(a.array) <= nasize + g
  BY <1>2 DEF Gap
<1>4. \A i \in 1 .. Len(a.array) : a.array[i] \in {Nil, i} /\ a.array[i] \in Keys \cup {Nil}
  BY <1>1 DEF ValuesOwn, TableType
<1>5. \A x \in Nodes(a) : a.node[x].val \in {Nil, a.node[x].key} /\ a.node[x].val \in Keys \cup {Nil}
  BY <1>1, IsWith DEF ValuesOwn, NodeType
<1>6. ASSUME NEW n \in 1 .. g
      PROVE  nasize + n \in 1 .. Len(a.array) /\ Moved(a, nasize, n).key = nasize + n
             /\ Moved(a, nasize, n).val = a.array[nasize + n]
  BY <1>2, <1>3 DEF Moved
<1>7. ASSUME NEW n \in g + 1 .. g + SizeNode(a)
      PROVE  SizeNode(a) - (n - g) \in Nodes(a) /\ Moved(a, nasize, n) = a.node[SizeNode(a) - (n - g)]
  <2>1. SizeNode(a) - (n - g) \in 0 .. SizeNode(a) - 1 /\ ~ n <= g
    <3>1. n \in Int /\ g + 1 <= n /\ n <= g + SizeNode(a) /\ g \in Int /\ SizeNode(a) \in Int
      BY <1>2, <1>3
    <3>2. \A s, m, h \in Int : h + 1 <= m /\ m <= h + s => s - (m - h) \in 0 .. s - 1 /\ ~ m <= h
      OBVIOUS
    <3> QED BY <3>1, <3>2
  <2>2. Moved(a, nasize, n) = a.node[SizeNode(a) - (n - g)]
    BY <2>1 DEF Moved
  <2> QED BY <1>2, <2>1, <2>2
<1>8. ASSUME NEW n \in 1 .. g + SizeNode(a)
      PROVE  /\ Moved(a, nasize, n).val \in {Nil, Moved(a, nasize, n).key}
             /\ Moved(a, nasize, n).val # Nil => Moved(a, nasize, n).val \in Contents(a)
  <2>1. CASE n \in 1 .. g
    BY <1>4, <1>6, <2>1 DEF Contents
  <2>2. CASE n \in g + 1 .. g + SizeNode(a)
    <3>1. PICK x \in Nodes(a) : Moved(a, nasize, n) = a.node[x]
      BY <1>7, <2>2
    <3> QED BY <1>5, <3>1 DEF Contents
  <2> QED BY <1>2, <1>3, <2>1, <2>2
<1>9. ASSUME NEW k \in Contents(a)
      PROVE  \/ k \in 1 .. nasize /\ k <= Len(a.array) /\ a.array[k] = k
             \/ \E n \in 1 .. g + SizeNode(a) : Moved(a, nasize, n).val = k
  <2>1. CASE k \in 1 .. Len(a.array) /\ a.array[k] = k
    <3>1. CASE k <= nasize
      BY <1>2, <2>1, <3>1
    <3>2. CASE ~ k <= nasize
      <4>1. k - nasize \in 1 .. g /\ nasize + (k - nasize) = k /\ k - nasize \in 1 .. g + SizeNode(a)
        BY <1>2, <1>3, <2>1, <3>2
      <4> QED BY <1>6, <2>1, <4>1
    <3> QED BY <3>1, <3>2
  <2>2. CASE \E x \in Nodes(a) : a.node[x].val = k
    <3>1. PICK x \in Nodes(a) : a.node[x].val = k
      BY <2>2
    <3>2. PICK n : n = g + (SizeNode(a) - x)
      OBVIOUS
    <3>3. n \in g + 1 .. g + SizeNode(a) /\ SizeNode(a) - (n - g) = x /\ n \in 1 .. g + SizeNode(a)
      <4>1. x \in 0 .. SizeNode(a) - 1 /\ SizeNode(a) \in Nat /\ g \in Nat
        BY <1>2, <1>3
      <4>2. \A s, h \in Nat : \A y \in 0 .. s - 1 :
               /\ h + (s - y) \in h + 1 .. h + s /\ s - ((h + (s - y)) - h) = y
               /\ h + (s - y) \in 1 .. h + s
        OBVIOUS
      <4> QED BY <3>2, <4>1, <4>2
    <3> QED BY <1>7, <3>1, <3>3
  <2> QED BY <2>1, <2>2 DEF Contents
<1> QED BY <1>2, <1>3, <1>8, <1>9

\* No rehash is called for while the hash part is large enough.
LEMMA EntersFresh ==
    ASSUME NEW b, Good(b), Fresh(b), NEW k \in Keys, NEW v \in {k, Nil}, NEW c, c = Assigned(b, k, v),
           NEW S, IsFiniteSet(S), Cardinality(S) <= SizeNode(b),
           (Contents(b) \cup {k}) \ (1 .. Len(b.array)) \subseteq S
    PROVE  Entering(b, c, k, v)
<1> SUFFICES ASSUME Full(b, c), ~ InArray(b, k), Absent(b, k) PROVE FALSE
  BY AssignedIs
<1>1. \A x \in Nodes(b) : b.node[x].key # Nil
  BY DEF Full
<1> PICK T : T = Outside(b)
  OBVIOUS
<1>2. IsFiniteSet(T) /\ Cardinality(T) = SizeNode(b)
  BY <1>1, RoomLeft
<1>3. k \notin T
  <2>1. TableType(b) /\ ValuesOwn(b) /\ Chained(b) /\ k # Nil
    BY Constants DEF Good
  <2>2. \A x \in Nodes(b) : b.node[x].val # k
    BY <2>1 DEF ValuesOwn, Absent
  <2> QED BY <2>2 DEF Outside, Contents, InArray
<1>4. T \cup {k} \subseteq S
  BY DEF Outside, InArray
<1>5. Cardinality(T \cup {k}) = Cardinality(T) + 1
  BY <1>2, <1>3, FS_AddElement
<1>6. Cardinality(T \cup {k}) <= Cardinality(S)
  <2> PICK W : W = T \cup {k}
    OBVIOUS
  <2>1. Cardinality(W) <= Cardinality(S)
    BY <1>4, FS_Subset
  <2> QED BY <2>1
<1>7. SizeNode(b) \in Nat /\ Cardinality(S) \in Nat
  BY FS_CardinalityType, NodesAre DEF Good
<1> QED BY <1>2, <1>5, <1>6, <1>7

Resized(a, r, nasize, nhsize) ==
    /\ Good(r) /\ r.fits /\ Fresh(r) /\ r.hash = a.hash /\ Contents(r) = Contents(a)
    /\ Len(r.array) = nasize /\ SizeNode(r) >= nhsize

LEMMA ResizeIs ==
    ASSUME NEW a, Good(a), a.fits, NEW nasize \in Nat, nasize <= 2 * MaxInt + 1, NEW nhsize \in Nat,
           IsFiniteSet(Contents(a) \ (1 .. nasize)), Cardinality(Contents(a) \ (1 .. nasize)) <= nhsize,
           NEW r, r = Resize(a, nasize, nhsize)
    PROVE  Resized(a, r, nasize, nhsize)
<1> PICK S : S = Contents(a) \ (1 .. nasize)
  OBVIOUS
<1> PICK size : size = IF nhsize = 0 THEN 0 ELSE twoto[Ceillog2(nhsize)]
  OBVIOUS
<1>1. size \in Nat /\ size >= nhsize
  BY CeilingIs
<1> PICK b : b = Bare(a, nasize, size)
  OBVIOUS
<1> PICK s : s = Gap(a, nasize) + SizeNode(a)
  OBVIOUS
<1>2. PICK f : Refill(a, nasize, b, s, f) /\ r = f[s]
  <2>1. SizeNode(a) \in Nat /\ Len(a.array) \in Nat
    BY NodesAre DEF Good, TableType
  <2> QED BY <2>1, ResizeFilled
<1>3. /\ Good(b) /\ b.fits /\ Fresh(b) /\ SizeNode(b) = size
      /\ Len(b.array) = nasize /\ b.hash = a.hash
      /\ Contents(b) = {k \in 1 .. nasize : k <= Len(a.array) /\ a.array[k] = k}
  <2>1. Bared(a, b, nasize, size)
    BY <1>1, BareIs
  <2> QED BY <2>1 DEF Bared
<1>4. /\ s \in Nat
      /\ \A n \in 1 .. s : /\ Moved(a, nasize, n).val \in {Nil, Moved(a, nasize, n).key}
                           /\ Moved(a, nasize, n).val # Nil => Moved(a, nasize, n).val \in Contents(a)
      /\ \A k \in Contents(a) : k \in Contents(b) \/ \E n \in 1 .. s : Moved(a, nasize, n).val = k
  <2>1. /\ s \in Nat
        /\ \A n \in 1 .. s : /\ Moved(a, nasize, n).val \in {Nil, Moved(a, nasize, n).key}
                             /\ Moved(a, nasize, n).val # Nil => Moved(a, nasize, n).val \in Contents(a)
    BY MovedIs
  <2>2. \A k \in Contents(a) :
          \/ k \in 1 .. nasize /\ k <= Len(a.array) /\ a.array[k] = k
          \/ \E n \in 1 .. s : Moved(a, nasize, n).val = k
    BY MovedIs
  <2> QED BY <1>3, <2>1, <2>2
<1>5. Contents(b) \subseteq Contents(a)
  <2>1. Contents(b) \subseteq Keys
    BY DEF Contents
  <2>2. Len(a.array) \in Nat
    BY DEF Good, TableType
  <2> QED BY <1>3, <2>1, <2>2 DEF Contents
<1>6. /\ f[0] = b
      /\ \A n \in Nat : n + 1 <= s =>
            f[n + 1] = IF Moved(a, nasize, n + 1).val = Nil THEN f[n]
                       ELSE Assigned(f[n], Moved(a, nasize, n + 1).key, Moved(a, nasize, n + 1).val)
  <2>1. s \in Nat
    BY <1>4
  <2> QED BY <1>2, <2>1, RefillIs
<1> DEFINE Filled(n, g) ==
              /\ Good(g) /\ g.fits /\ Fresh(g) /\ SizeNode(g) = size /\ Len(g.array) = nasize /\ g.hash = a.hash
              /\ Contents(g) \subseteq Contents(a) /\ Contents(b) \subseteq Contents(g)
              /\ \A m \in 1 .. n : Moved(a, nasize, m).val = Nil \/ Moved(a, nasize, m).val \in Contents(g)
           U == {n \in Nat : n <= s => Filled(n, f[n])}
<1>7. 0 \in U
  BY <1>3, <1>5, <1>6
<1>8. ASSUME NEW n \in U PROVE n + 1 \in U
  <2> SUFFICES ASSUME n + 1 <= s PROVE Filled(n + 1, f[n + 1])
    OBVIOUS
  <2> PICK g : g = f[n]
    OBVIOUS
  <2> PICK h : h = f[n + 1]
    OBVIOUS
  <2> PICK e : e = Moved(a, nasize, n + 1)
    OBVIOUS
  <2>1. n \in Nat /\ n + 1 \in 1 .. s /\ n <= s /\ 1 .. n + 1 = 1 .. n \cup {n + 1}
    BY <1>4
  <2>2. Filled(n, g)
    BY <2>1
  <2> HIDE DEF U
  <2>3. h = IF e.val = Nil THEN g ELSE Assigned(g, e.key, e.val)
    BY <1>6, <2>1
  <2>4. e.val \in {Nil, e.key} /\ (e.val # Nil => e.val \in Contents(a))
    BY <1>4, <2>1
  <2>5. CASE e.val = Nil
    <3>1. \A m \in 1 .. n + 1 : Moved(a, nasize, m).val = Nil \/ Moved(a, nasize, m).val \in Contents(g)
      BY <2>1, <2>2, <2>5
    <3> QED BY <2>2, <2>3, <2>5, <3>1
  <2>6. CASE e.val # Nil
    <3> PICK k : k = e.val
      OBVIOUS
    <3>1. k \in Contents(a) /\ e.key = k /\ k \in Keys /\ k # Nil /\ h = Assigned(g, k, k)
      BY <2>3, <2>4, <2>6 DEF Contents
    <3>2. Entering(g, h, k, k)
      <4>1. (Contents(g) \cup {k}) \ (1 .. Len(g.array)) \subseteq S
        BY <2>2, <3>1
      <4>2. Cardinality(S) <= SizeNode(g)
        <5>1. Cardinality(S) \in Nat
          BY FS_CardinalityType
        <5> QED BY <1>1, <2>2, <5>1
      <4>3. k \in {k, Nil}
        OBVIOUS
      <4> QED BY <2>2, <3>1, <4>1, <4>2, <4>3, EntersFresh
    <3>3. /\ Good(h) /\ h.fits = g.fits /\ Nodes(h) = Nodes(g) /\ Len(h.array) = Len(g.array)
          /\ h.hash = g.hash /\ Fresh(h) /\ Contents(h) = (Contents(g) \ {k}) \cup ({k} \ {Nil})
      BY <2>2, <3>2 DEF Entering
    <3>4. SizeNode(h) = SizeNode(g)
      BY <3>3 DEF SizeNode, Nodes
    <3>5. Contents(h) = Contents(g) \cup {k}
      BY <3>1, <3>3
    <3>6. \A m \in 1 .. n + 1 : Moved(a, nasize, m).val = Nil \/ Moved(a, nasize, m).val \in Contents(h)
      BY <2>1, <2>2, <3>5
    <3> QED BY <2>2, <3>1, <3>3, <3>4, <3>5, <3>6
  <2> QED BY <2>5, <2>6
<1>9. U = Nat
  <2>1. U \subseteq Nat
    OBVIOUS
  <2> HIDE DEF U
  <2> QED BY <1>7, <1>8, <2>1, Induction
<1>10. Filled(s, r)
  <2>1. s \in U /\ s <= s
    BY <1>4, <1>9
  <2> QED BY <1>2, <2>1
<1>11. Contents(r) = Contents(a)
  <2>1. Nil \notin Contents(a)
    BY Constants DEF Contents
  <2>2. Contents(r) \subseteq Contents(a) /\ Contents(b) \subseteq Contents(r)
        /\ \A m \in 1 .. s : Moved(a, nasize, m).val = Nil \/ Moved(a, nasize, m).val \in Contents(r)
    BY <1>10
  <2>3. ASSUME NEW k \in Contents(a) PROVE k \in Contents(r)
    BY <1>4, <2>1, <2>2
  <2> QED BY <2>2, <2>3
<1> QED BY <1>1, <1>10, <1>11 DEF Resized

-----------------------------------------------------------------------------
(* The size of the array part. *)

Slice(keys, i) == Cardinality({k \in keys : twoto[i] \div 2 < k /\ k <= twoto[i]})
Sizes(keys, t0, f) ==
    f = [n \in 0 .. t0 |->
            IF n = 0 THEN [a |-> 0, na |-> 0, n |-> 0]
            ELSE IF twoto[n - 1] \div 2 >= Cardinality(keys) \/ f[n - 1].a = Cardinality(keys) THEN f[n - 1]
            ELSE IF Slice(keys, n - 1) > 0 /\ f[n - 1].a + Slice(keys, n - 1) > twoto[n - 1] \div 2
            THEN [a |-> f[n - 1].a + Slice(keys, n - 1), na |-> f[n - 1].a + Slice(keys, n - 1), n |-> twoto[n - 1]]
            ELSE [f[n - 1] EXCEPT !.a = f[n - 1].a + Slice(keys, n - 1)]]

\* One step of computesizes.
Sized(keys, i, s) ==
    IF twoto[i] \div 2 >= Cardinality(keys) \/ s.a = Cardinality(keys) THEN s
    ELSE IF Slice(keys, i) > 0 /\ s.a + Slice(keys, i) > twoto[i] \div 2
    THEN [a |-> s.a + Slice(keys, i), na |-> s.a + Slice(keys, i), n |-> twoto[i]]
    ELSE [s EXCEPT !.a = s.a + Slice(keys, i)]

LEMMA SizesStep ==
    \A keys, t0, f : Sizes(keys, t0, f) <=>
        f = [n \in 0 .. t0 |-> IF n = 0 THEN [a |-> 0, na |-> 0, n |-> 0] ELSE Sized(keys, n - 1, f[n - 1])]
  BY DEF Sizes, Sized

LEMMA SizesExists == \A keys : \A l \in Nat : \E f : Sizes(keys, l, f)
<1> SUFFICES ASSUME NEW keys PROVE \A l \in Nat : \E f : Sizes(keys, l, f)
  OBVIOUS
<1> DEFINE U == {n \in Nat : \E f : Sizes(keys, n, f)}
<1> PICK z : z = [a |-> 0, na |-> 0, n |-> 0]
  OBVIOUS
<1>1. 0 \in U
  <2>1. \A m \in 0 .. 0 : m = 0
    OBVIOUS
  <2>2. Sizes(keys, 0, [m \in 0 .. 0 |-> z])
    BY <2>1 DEF Sizes
  <2> QED BY <2>2
<1>2. ASSUME NEW n \in U PROVE n + 1 \in U
  <2>1. PICK f : Sizes(keys, n, f)
    OBVIOUS
  <2> DEFINE g == [m \in 0 .. n + 1 |-> IF m = n + 1 THEN Sized(keys, n, f[n]) ELSE f[m]]
  <2>2. \A m \in 0 .. n : f[m] = IF m = 0 THEN z ELSE Sized(keys, m - 1, f[m - 1])
    BY <2>1, SizesStep
  <2>3. \A m \in 0 .. n + 1 : g[m] = IF m = 0 THEN z ELSE Sized(keys, m - 1, g[m - 1])
    <3> TAKE m \in 0 .. n + 1
    <3>1. CASE m = n + 1
      <4>1. m # 0 /\ m - 1 = n /\ n \in 0 .. n + 1 /\ n # n + 1
        BY <3>1
      <4> QED BY <3>1, <4>1
    <3>2. CASE m # n + 1
      <4>1. m \in 0 .. n /\ (m # 0 => m - 1 \in 0 .. n + 1 /\ m - 1 # n + 1)
        BY <3>2
      <4> QED BY <2>2, <3>2, <4>1
    <3> QED BY <3>1, <3>2
  <2>4. g = [m \in 0 .. n + 1 |-> g[m]]
    OBVIOUS
  <2> HIDE DEF g
  <2>5. g = [m \in 0 .. n + 1 |-> IF m = 0 THEN z ELSE Sized(keys, m - 1, g[m - 1])]
    BY <2>3, <2>4
  <2>6. Sizes(keys, n + 1, g)
    BY <2>5, SizesStep
  <2> QED BY <2>6
<1> HIDE DEF U
<1>3. U = Nat
  <2>1. U \subseteq Nat
    BY DEF U
  <2> QED BY <1>1, <1>2, <2>1, Induction
<1> QED BY <1>3 DEF U

LEMMA SizesIs ==
    ASSUME NEW keys, NEW l \in Nat, NEW f, Sizes(keys, l, f)
    PROVE  /\ f[0].a = 0 /\ f[0].na = 0 /\ f[0].n = 0 /\ f[0] = [a |-> 0, na |-> 0, n |-> 0]
           /\ \A n \in Nat : n + 1 <= l => f[n + 1] = Sized(keys, n, f[n])
<1> PICK z : z = [a |-> 0, na |-> 0, n |-> 0]
  OBVIOUS
<1>1. \A n \in 0 .. l : f[n] = IF n = 0 THEN z ELSE Sized(keys, n - 1, f[n - 1])
  BY SizesStep
<1>2. 0 \in 0 .. l /\ \A m \in Nat : m + 1 <= l => m + 1 \in 0 .. l /\ m + 1 # 0 /\ (m + 1) - 1 = m
  OBVIOUS
<1>3. ASSUME NEW m \in Nat, m + 1 <= l PROVE f[m + 1] = Sized(keys, m, f[m])
  BY <1>1, <1>2, <1>3
<1>4. f[0] = z
  BY <1>1, <1>2
<1> QED BY <1>3, <1>4

LEMMA ComputeSizesFilled ==
    ASSUME NEW keys
    PROVE  \E f : Sizes(keys, MaxInt + 1, f) /\ ComputeSizes(keys) = f[MaxInt + 1]
<1> DEFINE E(g) == Sizes(keys, MaxInt + 1, g)
           c == CHOOSE g : E(g)
<1>1. E(c)
  <2>1. \E g : E(g)
    <3>1. MaxInt + 1 \in Nat
      BY Constants
    <3> QED BY <3>1, SizesExists
  <2> HIDE DEF E
  <2> QED BY <2>1, Zenon
<1>2. ComputeSizes(keys) = c[MaxInt + 1]
  BY DEF ComputeSizes, Sizes, Slice
<1> QED BY <1>1, <1>2

Below(keys, m) == Cardinality(keys \cap (1 .. m))

LEMMA SliceAdds ==
    ASSUME NEW keys, keys \subseteq Ints, NEW i \in Nat
    PROVE  /\ IsFiniteSet(keys) /\ Cardinality(keys) <= MaxInt /\ Cardinality(keys) \in Nat
           /\ \A m \in Nat : Below(keys, m) \in Nat /\ Below(keys, m) <= Cardinality(keys)
           /\ Slice(keys, i) \in Nat
           /\ Below(keys, twoto[i] \div 2) + Slice(keys, i) = Below(keys, twoto[i])
<1>1. MaxInt \in Nat \ {0} /\ twoto[i] \in Nat
  BY Constants, PowersGrow
<1> PICK p : p = twoto[i]
  OBVIOUS
<1> PICK h : h = p \div 2
  OBVIOUS
<1>2. p \in Nat /\ h \in Nat /\ h <= p
  BY <1>1
<1>3. IsFiniteSet(keys) /\ Cardinality(keys) <= MaxInt
  <2>1. IsFiniteSet(Ints) /\ Cardinality(Ints) = MaxInt
    <3>1. 1 \in Int /\ MaxInt \in Int
      BY <1>1
    <3>2. IsFiniteSet(1 .. MaxInt) /\ Cardinality(1 .. MaxInt) = IF 1 > MaxInt THEN 0 ELSE MaxInt - 1 + 1
      BY <3>1, FS_Interval
    <3> QED BY <1>1, <3>2 DEF Ints
  <2> QED BY <2>1, FS_Subset
<1>4. \A T : T \subseteq keys => IsFiniteSet(T) /\ Cardinality(T) \in Nat /\ Cardinality(T) <= Cardinality(keys)
  <2> TAKE T
  <2> HAVE T \subseteq keys
  <2>1. IsFiniteSet(T) /\ Cardinality(T) <= Cardinality(keys)
    BY <1>3, FS_Subset
  <2> QED BY <2>1, FS_CardinalityType
<1> PICK A : A = keys \cap (1 .. h)
  OBVIOUS
<1> PICK B : B = {k \in keys : h < k /\ k <= p}
  OBVIOUS
<1> PICK C : C = keys \cap (1 .. p)
  OBVIOUS
<1>5. A \cup B = C /\ A \cap B = {}
  <2>1. \A k \in keys : k \in Int /\ 1 <= k
    BY <1>1 DEF Ints
  <2>2. \A k \in keys : k \in A <=> k <= h
    BY <1>2, <2>1
  <2>3. \A k \in keys : k \in C <=> k <= p
    BY <1>2, <2>1
  <2>4. A \subseteq keys /\ B \subseteq keys /\ C \subseteq keys
    OBVIOUS
  <2>5. \A k \in keys : k \in B <=> ~ k <= h /\ k <= p
    BY <1>2, <2>1
  <2>6. \A k \in keys : k <= h => k <= p
    BY <1>2, <2>1
  <2> QED BY <2>2, <2>3, <2>4, <2>5, <2>6
<1>6. IsFiniteSet(A) /\ IsFiniteSet(B) /\ Cardinality(A) \in Nat /\ Cardinality(B) \in Nat
  BY <1>4
<1>7. Cardinality(A \cup B) = Cardinality(A) + Cardinality(B) - Cardinality(A \cap B)
  BY <1>6, FS_Union
<1>8. Cardinality({}) = 0
  BY FS_EmptySet
<1>9. Cardinality(A) + Cardinality(B) = Cardinality(C)
  <2>1. Cardinality(C) = Cardinality(A) + Cardinality(B) - 0
    BY <1>5, <1>7, <1>8
  <2> QED BY <1>6, <2>1
<1>10. Below(keys, h) = Cardinality(A) /\ Below(keys, p) = Cardinality(C) /\ Slice(keys, i) = Cardinality(B)
  BY DEF Below, Slice
<1>11. Cardinality(keys) \in Nat
  BY <1>3, FS_CardinalityType
<1> QED BY <1>3, <1>4, <1>6, <1>9, <1>10, <1>11 DEF Below

LEMMA ComputeSizesIs ==
    ASSUME NEW keys, keys \subseteq Ints, NEW c, c = ComputeSizes(keys)
    PROVE  c.n \in Nat /\ c.n <= 2 * MaxInt /\ c.na = Below(keys, c.n)
<1>1. PICK f : Sizes(keys, MaxInt + 1, f) /\ c = f[MaxInt + 1]
  BY ComputeSizesFilled
<1>2. MaxInt \in Nat /\ MaxInt + 1 \in Nat
  BY Constants
<1>3. /\ f[0].a = 0 /\ f[0].na = 0 /\ f[0].n = 0 /\ f[0] = [a |-> 0, na |-> 0, n |-> 0]
      /\ \A n \in Nat : n + 1 <= MaxInt + 1 => f[n + 1] = Sized(keys, n, f[n])
  BY <1>1, <1>2, SizesIs
<1> PICK all : all = Cardinality(keys)
  OBVIOUS
<1>4. all \in Nat /\ all <= MaxInt /\ \A m \in Nat : Below(keys, m) \in Nat /\ Below(keys, m) <= all
  <2>1. 0 \in Nat
    OBVIOUS
  <2> QED BY <2>1, SliceAdds
<1>5. Below(keys, 0) = 0
  <2>1. keys \cap (1 .. 0) = {}
    OBVIOUS
  <2> QED BY <2>1, FS_EmptySet DEF Below
<1>6. twoto[0] \div 2 = 0 /\ \A n \in Nat : twoto[n + 1] \div 2 = twoto[n] /\ twoto[n] \in Nat
         /\ twoto[n] \div 2 <= twoto[n]
  BY PowersAre, PowersGrow
<1> DEFINE P(n, s) ==
              /\ s \in [a : Nat, na : Nat, n : Nat]
              /\ s.n <= 2 * MaxInt /\ s.na = Below(keys, s.n)
              /\ \/ s.a = Below(keys, twoto[n] \div 2)
                 \/ s.a = all \/ twoto[n] \div 2 >= all
           U == {n \in Nat : n <= MaxInt + 1 => P(n, f[n])}
<1>7. 0 \in U
  <2>1. f[0] \in [a : Nat, na : Nat, n : Nat]
    BY <1>3
  <2> QED BY <1>2, <1>3, <1>5, <1>6, <2>1
<1>8. ASSUME NEW n \in U PROVE n + 1 \in U
  <2> SUFFICES ASSUME n + 1 <= MaxInt + 1 PROVE P(n + 1, f[n + 1])
    OBVIOUS
  <2> PICK s : s = f[n]
    OBVIOUS
  <2> PICK r : r = f[n + 1]
    OBVIOUS
  <2> PICK h : h = twoto[n] \div 2
    OBVIOUS
  <2> PICK p : p = twoto[n]
    OBVIOUS
  <2> PICK d : d = Slice(keys, n)
    OBVIOUS
  <2>1. n \in Nat /\ n <= MaxInt + 1 /\ P(n, s)
    BY <1>2
  <2>2. r = Sized(keys, n, s)
    BY <1>3, <2>1
  <2>3. p \in Nat /\ h \in Nat /\ h <= p /\ twoto[n + 1] \div 2 = p /\ p <= 2 * h + 1
    BY <1>6, <2>1
  <2>4. d \in Nat /\ Below(keys, h) + d = Below(keys, p)
    BY <2>1, SliceAdds
  <2>5. Below(keys, p) \in Nat /\ Below(keys, p) <= all
    BY <1>4, <2>3
  <2>6. CASE h >= all \/ s.a = all
    <3>1. r = s
      BY <2>2, <2>6 DEF Sized
    <3>2. s.a = all \/ p >= all
      BY <1>4, <2>3, <2>6
    <3>3. /\ s \in [a : Nat, na : Nat, n : Nat]
          /\ s.n <= 2 * MaxInt /\ s.na = Below(keys, s.n)
      BY <2>1
    <3> QED BY <2>3, <3>1, <3>2, <3>3
  <2>7. CASE ~ (h >= all \/ s.a = all)
    <3>1. s.a = Below(keys, h) /\ s.a + d = Below(keys, p) /\ s \in [a : Nat, na : Nat, n : Nat]
          /\ s.n <= 2 * MaxInt /\ s.na = Below(keys, s.n)
      BY <2>1, <2>4, <2>7
    <3> PICK e : e = s.a + d
      OBVIOUS
    <3>2. e \in Nat /\ e = Below(keys, p)
      BY <2>5, <3>1
    <3>3. CASE d > 0 /\ e > h
      <4>1. r = [a |-> e, na |-> e, n |-> p]
        BY <2>2, <2>7, <3>3 DEF Sized
      <4>2. r.a = e /\ r.na = e /\ r.n = p /\ r \in [a : Nat, na : Nat, n : Nat]
        BY <2>3, <3>2, <4>1
      <4>3. p <= 2 * MaxInt
        BY <1>2, <1>4, <2>3, <2>5, <3>2, <3>3
      <4> QED BY <2>3, <3>2, <4>2, <4>3
    <3>4. CASE ~ (d > 0 /\ e > h)
      <4>1. r = [s EXCEPT !.a = e]
        BY <2>2, <2>7, <3>4 DEF Sized
      <4>2. r.a = e /\ r.na = s.na /\ r.n = s.n /\ r \in [a : Nat, na : Nat, n : Nat]
        BY <3>1, <3>2, <4>1
      <4> QED BY <2>3, <3>1, <3>2, <4>2
    <3> QED BY <3>3, <3>4
  <2> QED BY <2>6, <2>7
<1>9. U = Nat
  <2>1. U \subseteq Nat
    OBVIOUS
  <2> HIDE DEF U
  <2> QED BY <1>7, <1>8, <2>1, Induction
<1>10. P(MaxInt + 1, c)
  <2>1. MaxInt + 1 \in U /\ MaxInt + 1 <= MaxInt + 1
    BY <1>2, <1>9
  <2> QED BY <1>1, <2>1
<1> QED BY <1>10

-----------------------------------------------------------------------------
(* Assignments with a rehash. *)

LEMMA ContentsFinite ==
    ASSUME NEW a, Good(a)
    PROVE  /\ IsFiniteSet(Contents(a)) /\ IsFiniteSet(Outside(a))
           /\ Cardinality(Outside(a)) <= SizeNode(a)
<1>1. TableType(a) /\ ValuesOwn(a) /\ Len(a.array) \in Nat
  BY DEF Good, TableType
<1> PICK S : S = Nodes(a)
  OBVIOUS
<1> PICK T : T = Outside(a)
  OBVIOUS
<1>2. IsFiniteSet(S) /\ Cardinality(S) = SizeNode(a)
  BY <1>1, NodesAre
<1>3. \A l \in T : \E x \in S : a.node[x].val = l
  BY DEF Outside, Contents
<1> PICK g : g = [l \in T |-> CHOOSE x \in S : a.node[x].val = l]
  OBVIOUS
<1>4. \A l \in T : g[l] \in S /\ a.node[g[l]].val = l
  BY <1>3
<1>5. g \in [T -> S]
  <2>1. DOMAIN g = T /\ g = [l \in T |-> g[l]]
    OBVIOUS
  <2> QED BY <1>4, <2>1
<1>6. \A l, m \in T : g[l] = g[m] => l = m
  BY <1>4
<1>7. g \in Injection(T, S)
  BY <1>5, <1>6 DEF Injection, IsInjective
<1>8. IsFiniteSet(T) /\ Cardinality(T) <= Cardinality(S)
  BY <1>2, <1>7, FS_Injection
<1> PICK W : W = 1 .. Len(a.array)
  OBVIOUS
<1>9. IsFiniteSet(W)
  <2>1. 1 \in Int /\ Len(a.array) \in Int
    BY <1>1
  <2> QED BY <2>1, FS_Interval
<1>10. IsFiniteSet(T \cup W)
  BY <1>8, <1>9, FS_Union
<1>11. Contents(a) \subseteq T \cup W
  BY DEF Outside
<1> PICK C : C = Contents(a)
  OBVIOUS
<1> PICK V : V = T \cup W
  OBVIOUS
<1>12. IsFiniteSet(C)
  BY <1>10, <1>11, FS_Subset
<1> QED BY <1>2, <1>8, <1>12

LEMMA UsedIs ==
    ASSUME NEW a, Good(a), NEW k \in Keys
    PROVE  Used(a, k) = {k} \cup Contents(a) /\ IsFiniteSet(Used(a, k)) /\ Used(a, k) \subseteq Keys
<1>1. TableType(a) /\ ValuesOwn(a) /\ Nil \notin Keys
  BY Constants DEF Good
<1>2. DOMAIN a.array = 1 .. Len(a.array) /\ \A i \in 1 .. Len(a.array) : a.array[i] \in Keys \cup {Nil}
  BY <1>1 DEF TableType
<1>3. \A i \in 1 .. Len(a.array) : a.array[i] \in {Nil, i}
  BY <1>1 DEF ValuesOwn
<1>4. \A x \in Nodes(a) : a.node[x].val \in {Nil, a.node[x].key} /\ a.node[x].val \in Keys \cup {Nil}
  BY <1>1, IsWith DEF ValuesOwn, NodeType
<1> PICK A : A = {i \in DOMAIN a.array : a.array[i] # Nil}
  OBVIOUS
<1> PICK B : B = {a.node[i].key : i \in {j \in DOMAIN a.node : a.node[j].val # Nil}}
  OBVIOUS
<1>5. \A l \in A \cup B : l \in Contents(a)
  <2>1. ASSUME NEW l \in A PROVE l \in Contents(a)
    BY <1>2, <1>3 DEF Contents
  <2>2. ASSUME NEW l \in B PROVE l \in Contents(a)
    <3>1. PICK x \in Nodes(a) : a.node[x].val # Nil /\ l = a.node[x].key
      BY DEF Nodes
    <3> QED BY <1>4, <3>1 DEF Contents
  <2> QED BY <2>1, <2>2
<1>6. \A l \in Contents(a) : l \in A \cup B
  <2> TAKE l \in Contents(a)
  <2>1. CASE l \in 1 .. Len(a.array) /\ a.array[l] = l
    BY <1>1, <1>2, <2>1 DEF Contents
  <2>2. CASE \E x \in Nodes(a) : a.node[x].val = l
    <3>1. PICK x \in Nodes(a) : a.node[x].val = l
      BY <2>2
    <3>2. a.node[x].key = l /\ l # Nil
      BY <1>1, <1>4, <3>1 DEF Contents
    <3> QED BY <3>1, <3>2 DEF Nodes
  <2> QED BY <2>1, <2>2 DEF Contents
<1>7. Used(a, k) = {k} \cup A \cup B
  BY DEF Used
<1>8. Used(a, k) = {k} \cup Contents(a)
  BY <1>5, <1>6, <1>7
<1> PICK C : C = Contents(a)
  OBVIOUS
<1>9. IsFiniteSet(C \cup {k})
  <2>1. IsFiniteSet(C)
    BY ContentsFinite
  <2> QED BY <2>1, FS_AddElement
<1>10. C \cup {k} = Used(a, k)
  BY <1>8
<1>11. C \subseteq Keys
  BY DEF Contents
<1> QED BY <1>8, <1>9, <1>10, <1>11

\* rehash leaves room for what it inserts again and for one more key.
LEMMA RehashIs ==
    ASSUME NEW a, Good(a), a.fits, NEW k \in Keys, NEW r, r = Rehash(a, k)
    PROVE  /\ Good(r) /\ r.fits /\ Fresh(r) /\ r.hash = a.hash /\ Contents(r) = Contents(a)
           /\ \E S : /\ IsFiniteSet(S) /\ Cardinality(S) <= SizeNode(r)
                     /\ (Contents(r) \cup {k}) \ (1 .. Len(r.array)) \subseteq S
<1> PICK used : used = Used(a, k)
  OBVIOUS
<1> PICK keys : keys = used \cap Ints
  OBVIOUS
<1> PICK c : c = ComputeSizes(keys)
  OBVIOUS
<1>1. used = {k} \cup Contents(a) /\ IsFiniteSet(used) /\ used \subseteq Keys
  BY UsedIs
<1>2. c.n \in Nat /\ c.n <= 2 * MaxInt /\ c.na = Below(keys, c.n)
  <2>1. keys \subseteq Ints
    OBVIOUS
  <2> QED BY <2>1, ComputeSizesIs
<1> PICK n : n = c.n
  OBVIOUS
<1> PICK S : S = used \ (1 .. n)
  OBVIOUS
<1> PICK W : W = 1 .. n
  OBVIOUS
<1>3. used \cap W = keys \cap W
  <2>1. \A l \in used : l \in W => l \in Ints
    BY <1>1, <1>2, Constants
  <2> QED BY <2>1
<1>4. IsFiniteSet(S) /\ Cardinality(S) = Cardinality(used) - c.na
  <2>1. IsFiniteSet(used \ W) /\ Cardinality(used \ W) = Cardinality(used) - Cardinality(used \cap W)
    BY <1>1, FS_Difference
  <2> QED BY <1>2, <1>3, <2>1 DEF Below
<1>5. r = Resize(a, n, Cardinality(S))
  <2>1. r = Resize(a, n, Cardinality(used) - c.na)
    BY DEF Rehash
  <2> QED BY <1>4, <2>1
<1> PICK T : T = Contents(a) \ (1 .. n)
  OBVIOUS
<1>6. IsFiniteSet(T) /\ Cardinality(T) <= Cardinality(S) /\ Cardinality(S) \in Nat
  <2>1. T \in SUBSET S
    BY <1>1
  <2> QED BY <1>4, <2>1, FS_Subset, FS_CardinalityType
<1>7. n \in Nat /\ n <= 2 * MaxInt + 1
  BY <1>2, Constants
<1>8. /\ Good(r) /\ r.fits /\ Fresh(r) /\ r.hash = a.hash /\ Contents(r) = Contents(a)
      /\ Len(r.array) = n /\ SizeNode(r) >= Cardinality(S)
  <2> PICK m : m = Cardinality(S)
    OBVIOUS
  <2>1. /\ m \in Nat /\ n \in Nat /\ n <= 2 * MaxInt + 1 /\ IsFiniteSet(T) /\ Cardinality(T) <= m
        /\ T = Contents(a) \ (1 .. n)
    <3>1. IsFiniteSet(T)
      <4>1. T \in SUBSET S
        BY <1>1
      <4> QED BY <1>4, <4>1, FS_Subset
    <3> QED BY <1>6, <1>7, <3>1
  <2>2. r = Resize(a, n, m)
    BY <1>5
  <2>3. IsFiniteSet(Contents(a) \ (1 .. n)) /\ Cardinality(Contents(a) \ (1 .. n)) <= m
    BY <2>1
  <2>4. Resized(a, r, n, m)
    BY <2>1, <2>2, <2>3, ResizeIs
  <2> QED BY <2>4 DEF Resized
<1>9. Cardinality(S) <= SizeNode(r)
  <2>1. SizeNode(r) \in Nat
    BY <1>8, NodesAre DEF Good
  <2> QED BY <1>6, <1>8, <2>1
<1>10. (Contents(r) \cup {k}) \ (1 .. Len(r.array)) \subseteq S
  BY <1>1, <1>8
<1> QED BY <1>4, <1>8, <1>9, <1>10

Fit(a) == [a EXCEPT !.fits = TRUE]

LEMMA FitIs ==
    ASSUME NEW a, TableType(a)
    PROVE  /\ TableType(Fit(a)) /\ Nodes(Fit(a)) = Nodes(a) /\ Fit(a).node = a.node
           /\ Fit(a).lastfree = a.lastfree /\ Fit(a).array = a.array /\ Fit(a).hash = a.hash
           /\ Fit(a).fits
<1>1. a.node \in [Nodes(a) -> NodeType] /\ a.lastfree \in Nat
  BY IsWith
<1> PICK b : b = Fit(a)
  OBVIOUS
<1> PICK f \in BOOLEAN : f = TRUE
  OBVIOUS
<1>2. b = With(a, a.node, a.lastfree, f)
  BY IsWith DEF Fit
<1>3. /\ TableType(b) /\ Nodes(b) = Nodes(a) /\ b.node = a.node /\ b.lastfree = a.lastfree
      /\ b.fits = f /\ b.array = a.array /\ b.hash = a.hash
  <2>1. Rebuilt(a, b, a.node, a.lastfree, f)
    BY <1>1, <1>2, WithIs
  <2> QED BY <2>1 DEF Rebuilt
<1> QED BY <1>3

\* A full table is fit for a rehash.
LEMMA FullIs ==
    ASSUME NEW a, Good(a), NEW u, Full(a, u), NEW w, w = Fit(u)
    PROVE  Good(w) /\ w.fits /\ w.hash = a.hash /\ Contents(w) = Contents(a)
<1>1. /\ TableType(a) /\ ValuesOwn(a) /\ Chained(a) /\ Len(a.array) <= 2 * MaxInt + 1
      /\ SizeNode(a) \in Nat
  BY NodesAre DEF Good
<1>2. /\ \A x \in Nodes(a) : a.node[x].key # Nil
      /\ TableType(u) /\ u.node = a.node /\ u.array = a.array /\ u.hash = a.hash /\ u.lastfree = 0
  BY DEF Full
<1>3. TableType(w) /\ w.node = u.node /\ w.lastfree = u.lastfree /\ w.array = u.array /\ w.hash = u.hash
  BY <1>2, FitIs
<1>4. w.fits /\ w.lastfree = 0
  BY <1>2, FitIs
<1>5. Nodes(w) = Nodes(a) /\ SizeNode(w) = SizeNode(a) /\ w.node = a.node /\ w.array = a.array /\ w.hash = a.hash
  BY <1>2, <1>3 DEF Nodes, SizeNode
<1>6. FreeBelow(w)
  BY <1>1, <1>2, <1>4, <1>5 DEF FreeBelow
<1>7. ValuesOwn(w)
  BY <1>1, <1>5 DEF ValuesOwn
<1>8. Chained(w)
  <2>1. PICK R : Linked(a, R) /\ Headed(a, R) /\ Single(a, R)
    BY <1>1 DEF Chained
  <2>2. \A l : MainPosition(w, l) = MainPosition(a, l)
    BY <1>5, SameMain
  <2>3. Linked(w, R) /\ Single(w, R)
    BY <1>5, <2>1 DEF Linked, Single
  <2>4. Headed(w, R)
    BY <1>5, <2>1, <2>2 DEF Headed
  <2> QED BY <2>3, <2>4 DEF Chained
<1>9. Contents(w) = Contents(a)
  BY <1>5 DEF Contents
<1> QED BY <1>1, <1>3, <1>4, <1>5, <1>6, <1>7, <1>8, <1>9 DEF Good

\* luaH_set, the assignment and a rehash: the table is what it was but for this key.
LEMMA SetKeyIs ==
    ASSUME NEW a, Good(a), a.fits, NEW k \in Keys, NEW v \in {k, Nil}, NEW b, b = SetKey(a, k, v)
    PROVE  /\ Good(b) /\ b.fits /\ b.hash = a.hash
           /\ Contents(b) = (Contents(a) \ {k}) \cup ({v} \ {Nil})
<1>1. PICK u : u = Assigned(a, k, v)
  OBVIOUS
<1>2. b = IF u.fits THEN u ELSE Assigned(Rehash(Fit(u), k), k, v)
  BY <1>1 DEF SetKey, Fit
<1>3. CASE Entering(a, u, k, v)
  <2>1. /\ Good(u) /\ u.fits = a.fits /\ u.hash = a.hash
        /\ Contents(u) = (Contents(a) \ {k}) \cup ({v} \ {Nil})
    BY <1>3 DEF Entering
  <2>2. u.fits
    BY <2>1
  <2>3. b = u
    BY <1>2, <2>2
  <2> QED BY <2>1, <2>2, <2>3
<1>4. CASE Full(a, u)
  <2>1. PICK w : w = Fit(u)
    OBVIOUS
  <2>2. Good(w) /\ w.fits /\ w.hash = a.hash /\ Contents(w) = Contents(a)
    BY <1>4, <2>1, FullIs
  <2>3. PICK r : r = Rehash(w, k)
    OBVIOUS
  <2>4. /\ Good(r) /\ r.fits /\ Fresh(r) /\ r.hash = w.hash /\ Contents(r) = Contents(w)
        /\ \E S : /\ IsFiniteSet(S) /\ Cardinality(S) <= SizeNode(r)
                  /\ (Contents(r) \cup {k}) \ (1 .. Len(r.array)) \subseteq S
    BY <2>2, <2>3, RehashIs
  <2>5. PICK S : /\ IsFiniteSet(S) /\ Cardinality(S) <= SizeNode(r)
                 /\ (Contents(r) \cup {k}) \ (1 .. Len(r.array)) \subseteq S
    BY <2>4
  <2>6. b = Assigned(r, k, v)
    <3>1. ~ u.fits
      BY <1>4 DEF Full
    <3> QED BY <1>2, <2>1, <2>3, <3>1
  <2>7. Entering(r, b, k, v)
    BY <2>4, <2>5, <2>6, EntersFresh
  <2>8. Good(b) /\ b.fits = r.fits /\ b.hash = r.hash /\ Contents(b) = (Contents(r) \ {k}) \cup ({v} \ {Nil})
    BY <2>7 DEF Entering
  <2> QED BY <2>2, <2>4, <2>8
<1> QED BY <1>1, <1>3, <1>4, AssignedIs

-----------------------------------------------------------------------------
(* The invariant of the table. *)

\* The history variable and the table agree.
TableInv ==
    /\ Good(t) /\ t.fits
    /\ map = [k \in Keys |-> IF k \in Contents(t) THEN k ELSE Nil]

\* removeentry of lgc.c
Buried(a, i) == [a EXCEPT !.node[i].dead = TRUE]

LEMMA BuriedIs ==
    ASSUME NEW a, Good(a), NEW i \in Nodes(a), a.node[i].val = Nil, NEW b, b = Buried(a, i)
    PROVE  /\ Good(b) /\ b.fits = a.fits /\ Contents(b) = Contents(a)
           /\ Nodes(b) = Nodes(a) /\ b.array = a.array /\ b.hash = a.hash
           /\ \A x \in Nodes(a) : b.node[x].key = a.node[x].key /\ b.node[x].next = a.node[x].next
<1>1. TableType(a) /\ ValuesOwn(a) /\ FreeBelow(a) /\ Chained(a) /\ Len(a.array) <= 2 * MaxInt + 1
  BY DEF Good
<1> PICK f \in BOOLEAN : f = TRUE
  OBVIOUS
<1> PICK e : e = Node(a.node[i].key, f, a.node[i].val, a.node[i].next)
  OBVIOUS
<1>2. a.node[i] \in NodeType
  BY <1>1, IsWith
<1> PICK c : c = a.node[i]
  OBVIOUS
<1>3. [c EXCEPT !.dead = f] = e
  <2>1. c = [key |-> c.key, dead |-> c.dead, val |-> c.val, next |-> c.next]
    BY <1>2 DEF NodeType
  <2>2. \A g : [c EXCEPT !.dead = g] = Node(c.key, g, c.val, c.next)
    BY <2>1 DEF Node
  <2> QED BY <2>2
<1>4. e \in NodeType
  BY <1>2 DEF NodeType, Node
<1>5. b = [a EXCEPT !.node[i] = e]
  <2>1. b = [a EXCEPT !.node[i] = [c EXCEPT !.dead = f]]
    BY DEF Buried
  <2> QED BY <1>3, <2>1
<1>6. Written(a, b, i, e)
  BY <1>1, <1>4, <1>5, NodeAt
<1>7. /\ TableType(b) /\ Nodes(b) = Nodes(a) /\ b.array = a.array /\ b.hash = a.hash /\ b.fits = a.fits
      /\ b.lastfree = a.lastfree /\ b.node[i] = e /\ \A x \in Nodes(a) : x # i => b.node[x] = a.node[x]
  BY <1>6 DEF Written, Kept
<1>8. e.key = c.key /\ e.dead = f /\ e.val = c.val /\ e.next = c.next
  <2>1. \A g : /\ Node(c.key, g, c.val, c.next).key = c.key /\ Node(c.key, g, c.val, c.next).dead = g
               /\ Node(c.key, g, c.val, c.next).val = c.val /\ Node(c.key, g, c.val, c.next).next = c.next
    BY NodeFields
  <2> QED BY <2>1
<1>9. \A x \in Nodes(a) : /\ b.node[x].key = a.node[x].key /\ b.node[x].next = a.node[x].next
                          /\ b.node[x].val = a.node[x].val
  BY <1>7, <1>8
<1>10. \A x \in Nodes(a) : b.node[x].dead <=> a.node[x].dead \/ x = i
  BY <1>7, <1>8
<1>11. SizeNode(b) = SizeNode(a)
  BY <1>7 DEF SizeNode, Nodes
<1>12. Chained(b)
  <2>1. PICK R : Linked(a, R) /\ Headed(a, R) /\ Single(a, R)
    BY <1>1 DEF Chained
  <2>2. \A l : MainPosition(b, l) = MainPosition(a, l)
    BY <1>7, SameMain
  <2>3. Linked(b, R)
    BY <1>7, <1>9, <2>1 DEF Linked
  <2>4. Single(b, R)
    BY <1>7, <1>9, <1>10, <2>1 DEF Single
  <2>5. Headed(b, R)
    <3> SUFFICES ASSUME NEW x \in Nodes(a), a.node[x].key # Nil, NEW m, m = MainPosition(a, a.node[x].key)
                 PROVE  x \in R[m] /\ b.node[m].key # Nil /\ MainPosition(a, b.node[m].key) = m
      BY <1>7, <1>9, <2>2 DEF Headed
    <3>1. m \in Nodes(a) /\ x \in R[m] /\ a.node[m].key # Nil /\ MainPosition(a, a.node[m].key) = m
      BY <1>1, <2>1, KeyMain
    <3> QED BY <1>9, <3>1
  <2> QED BY <2>3, <2>4, <2>5 DEF Chained
<1>13. FreeBelow(b)
  BY <1>1, <1>7, <1>9, <1>11 DEF FreeBelow
<1>14. ValuesOwn(b)
  BY <1>1, <1>7, <1>9, <1>10 DEF ValuesOwn
<1>15. Contents(b) = Contents(a)
  BY <1>7, <1>9 DEF Contents
<1> QED BY <1>1, <1>7, <1>9, <1>12, <1>13, <1>14, <1>15 DEF Good

\* A table without nodes.
Blank(h) == [array |-> <<>>, node |-> NodeVector(0), lastfree |-> 0, hash |-> h, fits |-> TRUE]

LEMMA BlankIs ==
    ASSUME NEW h \in Hash, NEW a, a = Blank(h)
    PROVE  Good(a) /\ a.fits /\ Contents(a) = {}
<1> PICK f \in BOOLEAN : f = TRUE
  OBVIOUS
<1> PICK r : r = <<>>
  OBVIOUS
<1> PICK nd : nd = NodeVector(0)
  OBVIOUS
<1>1. r \in Seq(Keys \cup {Nil}) /\ Len(r) = 0 /\ 1 .. 0 = {} /\ 0 .. 0 - 1 = {}
  OBVIOUS
<1>2. a = [array |-> r, node |-> nd, lastfree |-> 0, hash |-> h, fits |-> f]
  BY DEF Blank
<1>3. a.array = r /\ a.node = nd /\ a.lastfree = 0 /\ a.hash = h /\ a.fits = f
  BY <1>2
<1>4. DOMAIN nd = 0 .. 0 - 1 /\ Nodes(a) = 0 .. 0 - 1
  BY <1>3 DEF NodeVector, Nodes
<1>5. SizeNode(a) = 0 /\ Nodes(a) = {}
  BY <1>1, <1>4, SizeIs
<1>6. nd \in [Nodes(a) -> NodeType]
  <2>1. nd = [x \in Nodes(a) |-> EmptyNode]
    BY <1>4 DEF NodeVector
  <2> QED BY <2>1, <1>5
<1>7. TableType(a)
  <2>1. a \in [array : Seq(Keys \cup {Nil}), node : [Nodes(a) -> NodeType], lastfree : Nat,
               hash : Hash, fits : BOOLEAN]
    <3> DEFINE D(q, m, l, g) == [array |-> q, node |-> m, lastfree |-> l, hash |-> h, fits |-> g]
               X == [array : Seq(Keys \cup {Nil}), node : [Nodes(a) -> NodeType], lastfree : Nat,
                     hash : Hash, fits : BOOLEAN]
    <3>1. \A q \in Seq(Keys \cup {Nil}), m \in [Nodes(a) -> NodeType], l \in Nat, g \in BOOLEAN :
             D(q, m, l, g) \in X
      OBVIOUS
    <3>2. r \in Seq(Keys \cup {Nil}) /\ nd \in [Nodes(a) -> NodeType] /\ 0 \in Nat
      BY <1>1, <1>6
    <3>3. a = D(r, nd, 0, f)
      BY <1>2
    <3> HIDE DEF D, X
    <3>4. D(r, nd, 0, f) \in X
      BY <3>1, <3>2
    <3>5. a \in X
      BY <3>3, <3>4
    <3> QED BY <3>5 DEF X
  <2>2. SizeNode(a) \in Nat /\ Nodes(a) = 0 .. SizeNode(a) - 1
    BY <1>4, <1>5
  <2> QED BY <2>1, <2>2 DEF TableType
<1>8. ValuesOwn(a) /\ FreeBelow(a)
  BY <1>1, <1>3, <1>5 DEF ValuesOwn, FreeBelow
<1>9. Chained(a)
  <2> PICK R : R = [x \in {} |-> {}]
    OBVIOUS
  <2>1. Linked(a, R) /\ Headed(a, R) /\ Single(a, R)
    BY <1>5 DEF Linked, Headed, Single
  <2> QED BY <2>1 DEF Chained
<1>10. Contents(a) = {}
  BY <1>1, <1>3, <1>5 DEF Contents
<1> QED BY <1>1, <1>3, <1>7, <1>8, <1>9, <1>10, Constants DEF Good

LEMMA InitTable == Init => TableInv
<1> SUFFICES ASSUME Init PROVE TableInv
  OBVIOUS
<1>1. PICK h \in Hash, na \in 0 .. 2, nh \in 0 .. 2 : t = Resize(Blank(h), na, nh)
  BY DEF Init, Blank
<1> PICK a : a = Blank(h)
  OBVIOUS
<1>2. Good(a) /\ a.fits /\ Contents(a) = {}
  BY BlankIs
<1>3. na \in Nat /\ nh \in Nat /\ na <= 2 * MaxInt + 1 /\ 0 <= nh
  BY Constants
<1>4. IsFiniteSet(Contents(a) \ (1 .. na)) /\ Cardinality(Contents(a) \ (1 .. na)) <= nh
  <2> PICK W : W = Contents(a) \ (1 .. na)
    OBVIOUS
  <2>1. W = {}
    BY <1>2
  <2>2. IsFiniteSet(W) /\ Cardinality(W) = 0
    BY <2>1, FS_EmptySet
  <2> QED BY <1>3, <2>2
<1>5. Resized(a, t, na, nh)
  BY <1>1, <1>2, <1>3, <1>4, ResizeIs
<1>6. Good(t) /\ t.fits /\ Contents(t) = {}
  BY <1>2, <1>5 DEF Resized
<1>7. map = [k \in Keys |-> IF k \in Contents(t) THEN k ELSE Nil]
  BY <1>6 DEF Init
<1> QED BY <1>6, <1>7 DEF TableInv

LEMMA AssignTable ==
    ASSUME TableInv, NEW k \in Keys, NEW v \in {k, Nil}, Assign(k, v)
    PROVE  TableInv'
<1>1. /\ Good(t) /\ t.fits
      /\ map = [l \in Keys |-> IF l \in Contents(t) THEN l ELSE Nil]
  BY DEF TableInv
<1>2. t' = SetKey(t, k, v) /\ map' = [map EXCEPT ![k] = v]
  BY DEF Assign
<1> PICK u : u = t'
  OBVIOUS
<1>3. Good(u) /\ u.fits /\ Contents(u) = (Contents(t) \ {k}) \cup ({v} \ {Nil})
  BY <1>1, <1>2, SetKeyIs
<1>4. k # Nil
  BY Constants
<1> PICK C : C = Contents(t)
  OBVIOUS
<1> PICK D : D = Contents(u)
  OBVIOUS
<1>5. map' = [l \in Keys |-> IF l \in D THEN l ELSE Nil]
  <2>1. \A l \in Keys : l # k => (l \in D <=> l \in C)
    BY <1>3
  <2>2. k \in D <=> v = k
    BY <1>3, <1>4
  <2> QED BY <1>1, <1>2, <2>1, <2>2
<1> QED BY <1>3, <1>5 DEF TableInv

LEMMA SetListTable ==
    ASSUME TableInv, NEW n \in 1 .. MaxInt, SetList(n)
    PROVE  TableInv'
<1>1. /\ Good(t) /\ t.fits
      /\ map = [l \in Keys |-> IF l \in Contents(t) THEN l ELSE Nil]
  BY DEF TableInv
<1>2. n > Len(t.array) /\ t' = Resize(t, n, SizeNode(t)) /\ map' = map
  BY DEF SetList
<1> PICK u : u = t'
  OBVIOUS
<1>3. n \in Nat /\ n <= 2 * MaxInt + 1 /\ Len(t.array) \in Nat /\ SizeNode(t) \in Nat
  BY <1>1, Constants, NodesAre DEF Good, TableType
<1>4. IsFiniteSet(Contents(t) \ (1 .. n)) /\ Cardinality(Contents(t) \ (1 .. n)) <= SizeNode(t)
  <2> PICK W : W = Contents(t) \ (1 .. n)
    OBVIOUS
  <2> PICK O : O = Outside(t)
    OBVIOUS
  <2>1. IsFiniteSet(O) /\ Cardinality(O) <= SizeNode(t)
    BY <1>1, ContentsFinite
  <2>2. W \in SUBSET O
    BY <1>2, <1>3 DEF Outside
  <2>3. IsFiniteSet(W) /\ Cardinality(W) <= Cardinality(O)
    BY <2>1, <2>2, FS_Subset
  <2>4. Cardinality(W) \in Nat /\ Cardinality(O) \in Nat
    BY <2>1, <2>3, FS_CardinalityType
  <2> QED BY <1>3, <2>1, <2>3, <2>4
<1>5. Resized(t, u, n, SizeNode(t))
  BY <1>1, <1>2, <1>3, <1>4, ResizeIs
<1>6. Good(u) /\ u.fits /\ Contents(u) = Contents(t)
  BY <1>5 DEF Resized
<1> QED BY <1>1, <1>2, <1>6 DEF TableInv

LEMMA MarkDeadTable ==
    ASSUME TableInv, NEW i \in DOMAIN t.node, MarkDead(i)
    PROVE  TableInv'
<1>1. /\ Good(t) /\ t.fits
      /\ map = [l \in Keys |-> IF l \in Contents(t) THEN l ELSE Nil]
  BY DEF TableInv
<1>2. i \in Nodes(t) /\ t.node[i].val = Nil /\ t' = Buried(t, i) /\ map' = map
  BY DEF MarkDead, Nodes, Buried
<1> PICK u : u = t'
  OBVIOUS
<1>3. Good(u) /\ u.fits = t.fits /\ Contents(u) = Contents(t)
  BY <1>1, <1>2, BuriedIs
<1>4. u.fits
  BY <1>1, <1>3
<1> QED BY <1>1, <1>2, <1>3, <1>4 DEF TableInv

LEMMA NextTable == TableInv /\ [Next]_vars => TableInv'
<1> SUFFICES ASSUME TableInv, [Next]_vars PROVE TableInv'
  OBVIOUS
<1>1. ASSUME NEW k \in Keys, Assign(k, k) \/ Assign(k, Nil) PROVE TableInv'
  BY <1>1, AssignTable
<1>2. ASSUME NEW n \in 1 .. MaxInt, SetList(n) PROVE TableInv'
  BY <1>2, SetListTable
<1>3. ASSUME NEW i \in DOMAIN t.node, MarkDead(i) PROVE TableInv'
  BY <1>3, MarkDeadTable
<1>4. ASSUME UNCHANGED <<t, map>> PROVE TableInv'
  BY <1>4 DEF TableInv
<1>5. CASE Begin \/ Advance
  BY <1>4, <1>5 DEF Begin, Advance
<1>6. CASE UNCHANGED vars
  BY <1>4, <1>6 DEF vars
<1> QED BY <1>1, <1>2, <1>3, <1>5, <1>6 DEF Next

\* The table is well formed and agrees with what was assigned, in every reachable state.
THEOREM TablesAreRight == Spec => []TableInv
<1> QED BY InitTable, NextTable, PTL DEF Spec

\* rehash (ltable.c) leaves room for everything that it inserts again and for the new
\* key, whatever the keys hash to: luaH_newkey never calls it from within it.
THEOREM RehashLeavesRoom == Spec => []RehashFits
<1>1. TableInv => RehashFits
  BY DEF TableInv, RehashFits
<1> QED BY <1>1, TablesAreRight, PTL

\* The entries with a value are as many as the keys in use.
LEMMA EntriesAreContents ==
    ASSUME NEW a, Good(a), NEW S, S = {i \in 1 .. Len(a.array) + SizeNode(a) : Entry(a, i).val # Nil}
    PROVE  Cardinality(Contents(a)) = Cardinality(S)
<1>1. TableType(a) /\ ValuesOwn(a) /\ Chained(a) /\ Len(a.array) \in Nat /\ SizeNode(a) \in Nat
      /\ Nodes(a) = 0 .. SizeNode(a) - 1 /\ Nil \notin Keys
  BY NodesAre, Constants DEF Good, TableType
<1> PICK l : l = Len(a.array)
  OBVIOUS
<1> PICK C : C = Contents(a)
  OBVIOUS
<1>2. \A i \in 1 .. l : Entry(a, i).key = i /\ Entry(a, i).val = a.array[i] /\ a.array[i] \in {Nil, i}
                        /\ a.array[i] \in Keys \cup {Nil} /\ i \in 1 .. l + SizeNode(a)
  BY <1>1 DEF Entry, ValuesOwn, TableType
<1>3. \A i \in l + 1 .. l + SizeNode(a) :
         Entry(a, i) = a.node[i - l - 1] /\ i - l - 1 \in Nodes(a) /\ i \in 1 .. l + SizeNode(a)
  BY <1>1 DEF Entry
<1>4. \A x \in Nodes(a) : /\ a.node[x].val \in {Nil, a.node[x].key} /\ a.node[x].val \in Keys \cup {Nil}
                          /\ a.node[x].dead => a.node[x].val = Nil
                          /\ a.node[x].val # Nil => a.node[x].val \notin 1 .. l
  BY <1>1, IsWith DEF ValuesOwn, NodeType
<1>5. \A x \in Nodes(a) : x + l + 1 \in l + 1 .. l + SizeNode(a) /\ (x + l + 1) - l - 1 = x
  BY <1>1
<1> PICK f : f = [i \in S |-> Entry(a, i).val]
  OBVIOUS
<1>6. \A i \in S : (i \in 1 .. l \/ i \in l + 1 .. l + SizeNode(a)) /\ f[i] = Entry(a, i).val /\ f[i] # Nil
  BY <1>1
<1>7. \A i \in S : f[i] \in C
  <2> TAKE i \in S
  <2>1. CASE i \in 1 .. l
    <3>1. f[i] = i /\ a.array[i] = i /\ i \in Keys
      BY <1>1, <1>2, <1>6, <2>1
    <3> QED BY <2>1, <3>1 DEF Contents
  <2>2. CASE i \in l + 1 .. l + SizeNode(a)
    <3>1. PICK x \in Nodes(a) : f[i] = a.node[x].val
      BY <1>3, <1>6, <2>2
    <3>2. f[i] \in Keys
      BY <1>4, <1>6, <3>1
    <3> QED BY <3>1, <3>2 DEF Contents
  <2> QED BY <1>6, <2>1, <2>2
<1>8. ASSUME NEW k \in C PROVE \E i \in S : f[i] = k
  <2>1. k \in Keys /\ k # Nil
    BY <1>1 DEF Contents
  <2>2. CASE k \in 1 .. l /\ a.array[k] = k
    BY <1>2, <2>1, <2>2
  <2>3. CASE \E x \in Nodes(a) : a.node[x].val = k
    <3>1. PICK x \in Nodes(a) : a.node[x].val = k
      BY <2>3
    <3>2. Entry(a, x + l + 1) = a.node[x] /\ x + l + 1 \in 1 .. l + SizeNode(a)
      BY <1>3, <1>5
    <3> QED BY <2>1, <3>1, <3>2
  <2> QED BY <2>2, <2>3 DEF Contents
<1>9. ASSUME NEW i \in S, NEW j \in S, f[i] = f[j] PROVE i = j
  <2>1. CASE i \in 1 .. l /\ j \in 1 .. l
    BY <1>2, <1>6, <1>9, <2>1
  <2>2. ASSUME NEW g \in S, NEW h \in S, g \in 1 .. l, h \in l + 1 .. l + SizeNode(a), f[g] = f[h] PROVE FALSE
    <3>1. f[g] = g
      BY <1>2, <1>6, <2>2
    <3>2. f[h] \notin 1 .. l
      BY <1>3, <1>4, <1>6, <2>2
    <3> QED BY <2>2, <3>1, <3>2
  <2>3. CASE i \in l + 1 .. l + SizeNode(a) /\ j \in l + 1 .. l + SizeNode(a)
    <3> PICK x : x = i - l - 1
      OBVIOUS
    <3> PICK y : y = j - l - 1
      OBVIOUS
    <3>1. x \in Nodes(a) /\ y \in Nodes(a) /\ f[i] = a.node[x].val /\ f[j] = a.node[y].val /\ f[i] # Nil
      BY <1>3, <1>6, <2>3
    <3>2. a.node[x].key = f[i] /\ a.node[y].key = f[i] /\ ~ a.node[x].dead /\ ~ a.node[y].dead
      BY <1>4, <1>9, <3>1
    <3>3. x = y
      <4>1. PICK R : Single(a, R)
        BY <1>1 DEF Chained
      <4> QED BY <3>1, <3>2, <4>1 DEF Single
    <3>4. i \in Int /\ j \in Int /\ l \in Int
      BY <1>1, <2>3
    <3>5. i - l - 1 = j - l - 1
      BY <3>3
    <3> QED BY <3>4, <3>5
  <2> QED BY <1>6, <1>9, <2>1, <2>2, <2>3
<1>10. f \in Bijection(S, C)
  <2>1. f \in [S -> C]
    <3>1. DOMAIN f = S /\ f = [i \in S |-> f[i]]
      OBVIOUS
    <3> QED BY <1>7, <3>1
  <2> QED BY <1>8, <1>9, <2>1 DEF Bijection, Injection, Surjection, IsInjective
<1>11. IsFiniteSet(S)
  <2> PICK W : W = 1 .. l + SizeNode(a)
    OBVIOUS
  <2>1. 1 \in Int /\ l + SizeNode(a) \in Int
    BY <1>1
  <2>2. IsFiniteSet(W)
    BY <2>1, FS_Interval
  <2> QED BY <2>2, FS_Subset
<1>12. ExistsBijection(S, C)
  BY <1>10 DEF ExistsBijection
<1> QED BY <1>11, <1>12, FS_Bijection

\* A lookup (luaH_get) finds what was assigned last to the key, and nothing else, and
\* every value is in the table once: through collisions, moved nodes, dead keys and every
\* rehash, for any number of keys and any hash.
THEOREM LookupsAreExact == Spec => []LookupExact
<1>1. ASSUME TableInv PROVE LookupExact
  <2>1. Good(t) /\ map = [k \in Keys |-> IF k \in Contents(t) THEN k ELSE Nil]
    BY <1>1 DEF TableInv
  <2>2. \A k \in Keys : Get(t, k) = map[k]
    <3> TAKE k \in Keys
    <3>1. k \in Hashed
      BY Constants
    <3>2. Get(t, k) = IF k \in Contents(t) THEN k ELSE Nil
      BY <2>1, <3>1, GetIs DEF Good
    <3> QED BY <2>1, <3>2
  <2>3. {k \in Keys : map[k] # Nil} = Contents(t)
    <3>1. Nil \notin Keys /\ Contents(t) \subseteq Keys
      BY Constants DEF Contents
    <3> QED BY <2>1, <3>1
  <2>4. Cardinality(Contents(t)) =
           Cardinality({i \in 1 .. Len(t.array) + SizeNode(t) : Entry(t, i).val # Nil})
    BY <2>1, EntriesAreContents
  <2> QED BY <2>2, <2>3, <2>4 DEF LookupExact
<1> QED BY <1>1, TablesAreRight, PTL

-----------------------------------------------------------------------------
(* The border. *)

\* One step of the binary search.
Halved(a, e) ==
    IF e[2] - e[1] <= 1 THEN e
    ELSE IF Get(a, (e[1] + e[2]) \div 2) = Nil THEN <<e[1], (e[1] + e[2]) \div 2>>
    ELSE <<(e[1] + e[2]) \div 2, e[2]>>
Search(a, lo, hi, l, f) == f = [n \in 0 .. l |-> IF n = 0 THEN <<lo, hi>> ELSE Halved(a, f[n - 1])]

LEMMA SearchExists == \A a, lo, hi : \A l \in Nat : \E f : Search(a, lo, hi, l, f)
<1> SUFFICES ASSUME NEW a, NEW lo, NEW hi PROVE \A l \in Nat : \E f : Search(a, lo, hi, l, f)
  OBVIOUS
<1> DEFINE U == {n \in Nat : \E f : Search(a, lo, hi, n, f)}
<1> PICK z : z = <<lo, hi>>
  OBVIOUS
<1>1. 0 \in U
  <2>1. \A m \in 0 .. 0 : m = 0
    OBVIOUS
  <2>2. Search(a, lo, hi, 0, [m \in 0 .. 0 |-> z])
    BY <2>1 DEF Search
  <2> QED BY <2>2
<1>2. ASSUME NEW n \in U PROVE n + 1 \in U
  <2>1. PICK f : Search(a, lo, hi, n, f)
    OBVIOUS
  <2> DEFINE g == [m \in 0 .. n + 1 |-> IF m = n + 1 THEN Halved(a, f[n]) ELSE f[m]]
  <2>2. \A m \in 0 .. n : f[m] = IF m = 0 THEN z ELSE Halved(a, f[m - 1])
    BY <2>1 DEF Search
  <2>3. \A m \in 0 .. n + 1 : g[m] = IF m = 0 THEN z ELSE Halved(a, g[m - 1])
    <3> TAKE m \in 0 .. n + 1
    <3>1. CASE m = n + 1
      <4>1. m # 0 /\ m - 1 = n /\ n \in 0 .. n + 1 /\ n # n + 1
        BY <3>1
      <4> QED BY <3>1, <4>1
    <3>2. CASE m # n + 1
      <4>1. m \in 0 .. n /\ (m # 0 => m - 1 \in 0 .. n + 1 /\ m - 1 # n + 1)
        BY <3>2
      <4> QED BY <2>2, <3>2, <4>1
    <3> QED BY <3>1, <3>2
  <2>4. g = [m \in 0 .. n + 1 |-> g[m]]
    OBVIOUS
  <2> HIDE DEF g
  <2>5. g = [m \in 0 .. n + 1 |-> IF m = 0 THEN z ELSE Halved(a, g[m - 1])]
    BY <2>3, <2>4
  <2>6. Search(a, lo, hi, n + 1, g)
    BY <2>5 DEF Search
  <2> QED BY <2>6
<1> HIDE DEF U
<1>3. U = Nat
  <2>1. U \subseteq Nat
    BY DEF U
  <2> QED BY <1>1, <1>2, <2>1, Induction
<1> QED BY <1>3 DEF U

Border(a, r) == r \in Nat /\ (r = 0 \/ Get(a, r) # Nil) /\ Get(a, r + 1) = Nil

\* Between a present (or zero) and an absent number, the search finds a border.
LEMMA BetweenIs ==
    ASSUME NEW a, NEW lo \in Nat, NEW hi \in Nat, lo < hi, lo = 0 \/ Get(a, lo) # Nil, Get(a, hi) = Nil,
           NEW r, r = Between(a, lo, hi)
    PROVE  Border(a, r)
<1>1. PICK f : Search(a, lo, hi, hi, f) /\ r = f[hi][1]
  <2> DEFINE E(g) == Search(a, lo, hi, hi, g)
             c == CHOOSE g : E(g)
  <2>1. E(c)
    <3>1. \E g : E(g)
      BY SearchExists
    <3> HIDE DEF E
    <3> QED BY <3>1, Zenon
  <2>2. r = c[hi][1]
    BY DEF Between, Search, Halved
  <2> QED BY <2>1, <2>2
<1> PICK z : z = <<lo, hi>>
  OBVIOUS
<1>2. \A n \in 0 .. hi : f[n] = IF n = 0 THEN z ELSE Halved(a, f[n - 1])
  BY <1>1 DEF Search
<1>3. \A n \in Nat : n + 1 <= hi => n + 1 \in 0 .. hi /\ n + 1 # 0 /\ (n + 1) - 1 = n
  OBVIOUS
<1>4. f[0] = z /\ \A n \in Nat : n + 1 <= hi => f[n + 1] = Halved(a, f[n])
  <2>1. 0 \in 0 .. hi
    OBVIOUS
  <2> QED BY <1>2, <1>3, <2>1
<1> DEFINE P(n, e) ==
              /\ e \in Nat \X Nat /\ e[1] < e[2]
              /\ e[1] = 0 \/ Get(a, e[1]) # Nil
              /\ Get(a, e[2]) = Nil
              /\ e[2] - e[1] <= 1 \/ e[2] - e[1] <= hi - n
           U == {n \in Nat : n <= hi => P(n, f[n])}
<1>5. 0 \in U
  <2>1. z \in Nat \X Nat /\ z[1] = lo /\ z[2] = hi
    OBVIOUS
  <2> QED BY <1>4, <2>1
<1>6. ASSUME NEW n \in U PROVE n + 1 \in U
  <2> SUFFICES ASSUME n + 1 <= hi PROVE P(n + 1, f[n + 1])
    OBVIOUS
  <2>1. n \in Nat /\ n <= hi /\ P(n, f[n])
    OBVIOUS
  <2> PICK d : d = f[n]
    OBVIOUS
  <2> PICK e : e = f[n + 1]
    OBVIOUS
  <2> PICK l : l = d[1]
    OBVIOUS
  <2> PICK h : h = d[2]
    OBVIOUS
  <2>2. /\ d = <<l, h>> /\ l \in Nat /\ h \in Nat /\ l < h /\ (l = 0 \/ Get(a, l) # Nil) /\ Get(a, h) = Nil
        /\ (h - l <= 1 \/ h - l <= hi - n)
    BY <2>1
  <2> PICK m : m = (l + h) \div 2
    OBVIOUS
  <2>3. e = IF h - l <= 1 THEN d ELSE IF Get(a, m) = Nil THEN <<l, m>> ELSE <<m, h>>
    BY <1>4, <2>1 DEF Halved
  <2> HIDE DEF P, U
  <2>4. \A x, y \in Nat : /\ <<x, y>> \in Nat \X Nat /\ <<x, y>>[1] = x /\ <<x, y>>[2] = y
    OBVIOUS
  <2>5. CASE h - l <= 1
    BY <2>2, <2>3, <2>4, <2>5 DEF P
  <2>6. CASE ~ h - l <= 1
    <3>1. m \in Nat /\ l < m /\ m < h /\ m - l <= (h - l) - 1 /\ h - m <= (h - l) - 1
      BY <2>2, <2>6
    <3>2. m - l <= hi - (n + 1) /\ h - m <= hi - (n + 1)
      BY <2>1, <2>2, <2>6, <3>1
    <3>3. CASE Get(a, m) = Nil
      <4>1. e = <<l, m>>
        BY <2>3, <2>6, <3>3
      <4>2. e[1] = l /\ e[2] = m /\ e \in Nat \X Nat
        BY <2>2, <2>4, <3>1, <4>1
      <4> QED BY <2>2, <3>1, <3>2, <3>3, <4>2 DEF P
    <3>4. CASE Get(a, m) # Nil
      <4>1. e = <<m, h>>
        BY <2>3, <2>6, <3>4
      <4>2. e[1] = m /\ e[2] = h /\ e \in Nat \X Nat
        BY <2>2, <2>4, <3>1, <4>1
      <4> QED BY <2>2, <3>1, <3>2, <3>4, <4>2 DEF P
    <3> QED BY <3>3, <3>4
  <2> QED BY <2>5, <2>6
<1>7. U = Nat
  <2>1. U \subseteq Nat
    OBVIOUS
  <2> HIDE DEF U
  <2> QED BY <1>5, <1>6, <2>1, Induction
<1>8. P(hi, f[hi])
  BY <1>7
<1> PICK x : x = f[hi]
  OBVIOUS
<1>9. x[2] = x[1] + 1 /\ x[1] \in Nat /\ (x[1] = 0 \/ Get(a, x[1]) # Nil) /\ Get(a, x[2]) = Nil
  BY <1>8
<1> QED BY <1>1, <1>9 DEF Border

\* unbound_search doubles from j + 1.
Doubling(j, d) == d[0] = j + 1 /\ \A m \in Nat : d[m] \in Nat /\ d[m + 1] = 2 * d[m] /\ d[m] >= m + 1

LEMMA DoublingIs ==
    ASSUME NEW j \in Nat, NEW d, \A m \in Nat : d[m] = (j + 1) * twoto[m]
    PROVE  Doubling(j, d)
<1> PICK f : f = twoto
  OBVIOUS
<1>1. f[0] = 1 /\ \A m \in Nat : m + 1 \in Nat /\ f[m] \in Nat /\ f[m] >= m + 1 /\ f[m + 1] = 2 * f[m]
  BY PowersAre, PowersGrow
<1>2. d[0] = j + 1
  BY <1>1
<1>3. ASSUME NEW m \in Nat PROVE d[m] \in Nat /\ d[m + 1] = 2 * d[m] /\ d[m] >= m + 1
  <2> PICK x : x = f[m]
    OBVIOUS
  <2>1. x \in Nat /\ x >= m + 1 /\ d[m] = (j + 1) * x
    BY <1>1
  <2>2. m + 1 \in Nat /\ f[m + 1] = 2 * x
    BY <1>1
  <2>3. d[m + 1] = (j + 1) * (2 * x)
    BY <2>2
  <2> PICK y : y = j * x
    OBVIOUS
  <2>4. (j + 1) * x = y + x /\ (j + 1) * (2 * x) = 2 * (y + x) /\ y \in Nat
    BY <2>1
  <2> QED BY <2>1, <2>3, <2>4
<1> QED BY <1>2, <1>3 DEF Doubling

\* It stops at the first power at which there is nothing.
Stops(a, d, m) == Get(a, d[m]) = Nil /\ \A l \in 0 .. m - 1 : Get(a, d[l]) # Nil

LEMMA UnboundIs ==
    ASSUME NEW a, Good(a), NEW j \in Nat, j <= 2 * MaxInt + 1, NEW d, Doubling(j, d)
    PROVE  \E m \in 0 .. MaxInt : Stops(a, d, m)
<1>1. TableType(a) /\ ValuesOwn(a) /\ Chained(a) /\ MaxInt \in Nat \ {0}
  BY Constants DEF Good
<1>2. d[0] = j + 1 /\ \A m \in Nat : d[m] \in Nat /\ d[m + 1] = 2 * d[m] /\ d[m] >= m + 1
  BY DEF Doubling
<1>3. \A m \in Nat : d[m] \in Contents(a) => d[m] <= MaxInt
  <2> TAKE m \in Nat
  <2> HAVE d[m] \in Contents(a)
  <2>1. d[m] \in Keys
    BY DEF Contents
  <2>2. d[m] \in Nat
    BY <1>2
  <2> QED BY <1>1, <2>1, <2>2, Constants DEF Ints
<1> DEFINE S == {m \in Nat : d[m] \notin Contents(a)}
<1>4. MaxInt \in S
  <2>1. d[MaxInt] >= MaxInt + 1 /\ d[MaxInt] \in Nat /\ MaxInt \in Nat
    BY <1>1, <1>2
  <2>2. ~ d[MaxInt] <= MaxInt
    BY <2>1
  <2> QED BY <1>3, <2>1, <2>2
<1>5. PICK m \in S : \A l \in S : m <= l
  <2>1. S \subseteq Nat
    OBVIOUS
  <2> HIDE DEF S
  <2> QED BY <1>4, <2>1, LeastNat
<1>6. m \in 0 .. MaxInt /\ d[m] \notin Contents(a) /\ \A l \in 0 .. m - 1 : d[l] \in Contents(a)
  <2>1. m \in Nat /\ MaxInt \in Nat /\ m <= MaxInt
    BY <1>1, <1>4, <1>5
  <2>2. \A l \in 0 .. m - 1 : l \in Nat /\ ~ m <= l
    BY <2>1
  <2> QED BY <1>5, <2>1, <2>2
<1> HIDE DEF S
<1>7. ASSUME NEW l \in 0 .. m - 1 PROVE Get(a, d[l]) # Nil
  <2>1. d[l] \in Contents(a)
    BY <1>6
  <2> PICK k : k = d[l]
    OBVIOUS
  <2>2. k \in Keys /\ k \in Hashed /\ k # Nil /\ k \in Contents(a)
    BY <2>1, Constants DEF Contents
  <2> QED BY <1>1, <2>2, GetIs
<1>8. Get(a, d[m]) = Nil
  <2>1. d[m] \in Nat /\ d[m] >= 1 /\ d[m] <= 2 * MaxInt + 2
    <3>1. CASE m = 0
      BY <1>1, <1>2, <3>1
    <3>2. CASE m # 0
      <4> PICK l : l = m - 1
        OBVIOUS
      <4>1. l \in 0 .. m - 1 /\ l \in Nat /\ l + 1 = m /\ m \in Nat
        BY <1>6, <3>2
      <4>2. d[l] <= MaxInt /\ d[m] = 2 * d[l] /\ d[m] >= m + 1 /\ d[m] \in Nat /\ d[l] \in Nat
        BY <1>2, <1>3, <1>6, <4>1
      <4> QED BY <1>1, <4>1, <4>2
    <3> QED BY <3>1, <3>2
  <2> PICK k : k = d[m]
    OBVIOUS
  <2>2. k \in Hashed /\ k \notin Contents(a)
    BY <1>1, <1>6, <2>1 DEF Hashed
  <2> QED BY <1>1, <2>2, GetIs
<1>9. Stops(a, d, m)
  BY <1>7, <1>8 DEF Stops
<1> QED BY <1>6, <1>9

\* luaH_getn returns a border.
LEMMA GetNIs ==
    ASSUME NEW a, Good(a), NEW r, r = GetN(a)
    PROVE  Border(a, r)
<1> PICK j : j = Len(a.array)
  OBVIOUS
<1>1. j \in Nat /\ j <= 2 * MaxInt + 1 /\ MaxInt \in Nat
  BY Constants DEF Good, TableType
<1>2. j # 0 => Get(a, j) = a.array[j]
  BY <1>1 DEF Get, InArray
<1>3. CASE j > 0 /\ a.array[j] = Nil
  <2> PICK lo : lo = 0
    OBVIOUS
  <2>1. r = Between(a, lo, j) /\ lo < j /\ lo \in Nat /\ Get(a, j) = Nil
    BY <1>1, <1>2, <1>3 DEF GetN
  <2>2. lo = 0 \/ Get(a, lo) # Nil
    OBVIOUS
  <2> QED BY <1>1, <2>1, <2>2, BetweenIs, Zenon
<1>4. CASE ~ (j > 0 /\ a.array[j] = Nil) /\ SizeNode(a) = 0
  <2>1. r = j
    BY <1>4 DEF GetN
  <2>2. j + 1 \notin 1 .. Len(a.array)
    BY <1>1
  <2>3. Get(a, j + 1) = Nil
    BY <1>4, <2>2 DEF Get, InArray, NodeOf, Find
  <2> QED BY <1>1, <1>2, <1>4, <2>1, <2>3 DEF Border
<1>5. CASE ~ (j > 0 /\ a.array[j] = Nil) /\ SizeNode(a) # 0
  <2> DEFINE e == [m \in Nat |-> (j + 1) * twoto[m]]
             P(m) == Get(a, (j + 1) * twoto[m]) = Nil /\ \A l \in 0 .. m - 1 : Get(a, (j + 1) * twoto[l]) # Nil
             p == CHOOSE m \in 0 .. MaxInt : P(m)
  <2>1. PICK d : \A m \in Nat : d[m] = (j + 1) * twoto[m]
    <3>1. \A m \in Nat : e[m] = (j + 1) * twoto[m]
      OBVIOUS
    <3> QED BY <3>1, Zenon
  <2>2. r = Between(a, IF p = 0 THEN j ELSE (j + 1) * twoto[p - 1], (j + 1) * twoto[p])
    BY <1>5 DEF GetN
  <2> HIDE DEF e
  <2>3. \A m \in 0 .. MaxInt : P(m) <=> Stops(a, d, m)
    <3> TAKE m \in 0 .. MaxInt
    <3>1. d[m] = (j + 1) * twoto[m] /\ \A l \in 0 .. m - 1 : d[l] = (j + 1) * twoto[l]
      BY <1>1, <2>1
    <3> QED BY <3>1 DEF Stops
  <2>4. Doubling(j, d)
    BY <1>1, <2>1, DoublingIs
  <2>5. \E m \in 0 .. MaxInt : Stops(a, d, m)
    BY <1>1, <2>4, UnboundIs
  <2> HIDE DEF P
  <2>6. p \in 0 .. MaxInt /\ P(p)
    <3>1. \E m \in 0 .. MaxInt : P(m)
      BY <2>3, <2>5
    <3> QED BY <3>1, Zenon
  <2> HIDE DEF p
  <2>7. p \in Nat /\ Get(a, d[p]) = Nil /\ \A l \in 0 .. p - 1 : Get(a, d[l]) # Nil
    <3>1. Stops(a, d, p) /\ p \in Nat
      BY <1>1, <2>3, <2>6
    <3> QED BY <3>1 DEF Stops
  <2>8. d[0] = j + 1 /\ \A m \in Nat : d[m] \in Nat /\ d[m + 1] = 2 * d[m] /\ d[m] >= m + 1
    BY <2>4 DEF Doubling
  <2>9. CASE p = 0
    <3> PICK hi : hi = d[p]
      OBVIOUS
    <3>1. hi \in Nat /\ j < hi /\ Get(a, hi) = Nil
      BY <1>1, <2>7, <2>8, <2>9
    <3>2. r = Between(a, j, hi)
      BY <2>1, <2>2, <2>7, <2>9
    <3>3. j = 0 \/ Get(a, j) # Nil
      BY <1>1, <1>2, <1>5
    <3> QED BY <1>1, <3>1, <3>2, <3>3, BetweenIs, Zenon
  <2>10. CASE p # 0
    <3> PICK l : l = p - 1
      OBVIOUS
    <3>1. l \in Nat /\ l + 1 = p /\ l \in 0 .. p - 1
      BY <2>7, <2>10
    <3> PICK lo : lo = d[l]
      OBVIOUS
    <3> PICK hi : hi = d[p]
      OBVIOUS
    <3>2. lo \in Nat /\ hi \in Nat /\ hi = 2 * lo /\ lo >= l + 1
      BY <2>7, <2>8, <3>1
    <3>3. lo < hi /\ Get(a, lo) # Nil /\ Get(a, hi) = Nil
      BY <2>7, <3>1, <3>2
    <3>4. r = Between(a, lo, hi)
      BY <2>1, <2>2, <2>7, <2>10, <3>1
    <3> QED BY <3>2, <3>3, <3>4, BetweenIs, Zenon
  <2> QED BY <2>9, <2>10
<1> QED BY <1>3, <1>4, <1>5

\* The length # of a table (luaH_getn, unbound_search) is a border: t[n] is there and t[n + 1]
\* is not, wherever the integer keys are and however many are missing.
THEOREM BordersAreFound == Spec => []BorderFound
<1>1. ASSUME TableInv PROVE BorderFound
  <2> PICK n : n = GetN(t)
    OBVIOUS
  <2>1. (n = 0 \/ Get(t, n) # Nil) /\ Get(t, n + 1) = Nil
    BY <1>1, GetNIs DEF TableInv, Border
  <2> QED BY <2>1 DEF BorderFound
<1> QED BY <1>1, TablesAreRight, PTL

-----------------------------------------------------------------------------
(* The traversal. *)

\* An entry with a value is found at its number.
IndexedAt(a, j, c) == c \in Contents(a) /\ Entry(a, j).key = c /\ FindIndex(a, c) = j

LEMMA IndexIs ==
    ASSUME NEW a, Good(a), NEW j \in 1 .. Len(a.array) + SizeNode(a), NEW c, c = Entry(a, j).val, c # Nil
    PROVE  IndexedAt(a, j, c)
<1>1. /\ TableType(a) /\ ValuesOwn(a) /\ Chained(a) /\ Len(a.array) \in Nat /\ SizeNode(a) \in Nat
      /\ Nodes(a) = 0 .. SizeNode(a) - 1 /\ Nil \notin Keys /\ None \notin Nat
  BY NodesAre, Constants DEF Good, TableType
<1> PICK l : l = Len(a.array)
  OBVIOUS
<1>2. CASE j \in 1 .. l
  <2>1. Entry(a, j) = [key |-> j, val |-> a.array[j]]
    BY <1>1, <1>2 DEF Entry
  <2>2. Entry(a, j).key = j /\ a.array[j] = c
    BY <2>1
  <2>3. a.array[j] \in {Nil, j} /\ a.array[j] \in Keys \cup {Nil}
    BY <1>1, <1>2 DEF ValuesOwn, TableType
  <2>4. c = j /\ c \in Keys
    BY <2>2, <2>3
  <2>5. c \in Contents(a)
    BY <1>2, <2>2, <2>4 DEF Contents
  <2>6. FindIndex(a, c) = j
    BY <1>2, <2>4 DEF FindIndex, InArray
  <2> QED BY <2>2, <2>4, <2>5, <2>6 DEF IndexedAt
<1>3. CASE j \notin 1 .. l
  <2> PICK x : x = j - l - 1
    OBVIOUS
  <2>1. ~ j <= l /\ j \in Nat
    BY <1>1, <1>3
  <2>2. Entry(a, j) = a.node[x]
    BY <2>1 DEF Entry
  <2>3. x \in Nodes(a) /\ l + x + 1 = j
    BY <1>1, <2>1
  <2>4. a.node[x].val = c /\ a.node[x] \in NodeType
    BY <1>1, <2>2, <2>3, IsWith
  <2>5. c \in Keys /\ a.node[x].key = c /\ c \notin 1 .. l /\ ~ a.node[x].dead
    BY <1>1, <2>3, <2>4 DEF ValuesOwn, NodeType
  <2>6. c \in Contents(a)
    BY <2>3, <2>4, <2>5 DEF Contents
  <2>7. Find(a, c, BOOLEAN) = x
    <3>1. PICK R : Linked(a, R) /\ Headed(a, R) /\ Single(a, R)
      BY <1>1 DEF Chained
    <3> PICK n : n = Find(a, c, BOOLEAN)
      OBVIOUS
    <3>2. x \in R[MainPosition(a, c)] /\ c \in Hashed /\ SizeNode(a) # 0
      BY <1>1, <2>3, <2>5, <3>1, Constants, NodesAre DEF Headed
    <3>3. a.node[x].dead \in BOOLEAN
      BY <2>4 DEF NodeType
    <3>4. x \in Hits(a, R, c, BOOLEAN)
      BY <2>5, <3>2, <3>3 DEF Hits
    <3>5. n \in Hits(a, R, c, BOOLEAN) /\ Hits(a, R, c, BOOLEAN) \subseteq R[n]
      BY <1>1, <3>1, <3>2, <3>4, FindIs
    <3>6. n \in R[MainPosition(a, c)] /\ a.node[n].key = c /\ x \in R[n] /\ MainPosition(a, c) \in Nodes(a)
      BY <1>1, <3>2, <3>4, <3>5, MainIs DEF Hits
    <3>7. n \in Nodes(a)
      BY <1>1, <3>1, <3>6, ReachOrder
    <3>8. n # x => n \in R[x]
      BY <1>1, <2>3, <2>5, <3>1, <3>6, <3>7 DEF Single
    <3> QED BY <1>1, <2>3, <3>1, <3>6, <3>7, <3>8, ReachOrder
  <2>8. FindIndex(a, c) = l + x + 1
    <3>1. c # Nil /\ x # None /\ ~ InArray(a, c)
      BY <1>1, <2>3, <2>5 DEF InArray
    <3> QED BY <2>7, <3>1 DEF FindIndex
  <2> QED BY <2>2, <2>3, <2>5, <2>6, <2>8 DEF IndexedAt
<1> QED BY <1>2, <1>3

\* What is in the table has an entry.
LEMMA IndexOf ==
    ASSUME NEW a, Good(a), NEW k \in Contents(a)
    PROVE  /\ k \in Keys /\ FindIndex(a, k) \in 1 .. Len(a.array) + SizeNode(a)
           /\ Entry(a, FindIndex(a, k)).val = k
<1>1. /\ TableType(a) /\ Len(a.array) \in Nat /\ SizeNode(a) \in Nat
      /\ Nodes(a) = 0 .. SizeNode(a) - 1 /\ Nil \notin Keys /\ k \in Keys
  BY NodesAre, Constants DEF Good, TableType, Contents
<1> PICK l : l = Len(a.array)
  OBVIOUS
<1>2. PICK j \in 1 .. l + SizeNode(a) : Entry(a, j).val = k
  <2>1. CASE k \in 1 .. l /\ a.array[k] = k
    <3>1. Entry(a, k) = [key |-> k, val |-> a.array[k]] /\ k \in 1 .. l + SizeNode(a)
      BY <1>1, <2>1 DEF Entry
    <3>2. Entry(a, k).val = k
      BY <2>1, <3>1
    <3> QED BY <3>1, <3>2
  <2>2. CASE \E x \in Nodes(a) : a.node[x].val = k
    <3>1. PICK x \in Nodes(a) : a.node[x].val = k
      BY <2>2
    <3>2. x + l + 1 \in 1 .. l + SizeNode(a) /\ ~ x + l + 1 <= l /\ (x + l + 1) - l - 1 = x
      BY <1>1
    <3>3. Entry(a, x + l + 1) = a.node[x]
      BY <3>2 DEF Entry
    <3> QED BY <3>1, <3>2, <3>3
  <2> QED BY <2>1, <2>2 DEF Contents
<1>3. k # Nil
  BY <1>1
<1>4. IndexedAt(a, j, k)
  BY <1>2, <1>3, IndexIs
<1> QED BY <1>1, <1>2, <1>4 DEF IndexedAt

\* Tables with the same keys in the same chains.
SameShape(a, b) ==
    /\ Nodes(b) = Nodes(a) /\ Len(b.array) = Len(a.array) /\ b.hash = a.hash
    /\ \A x \in Nodes(a) : b.node[x].key = a.node[x].key /\ b.node[x].next = a.node[x].next

LEMMA SameIndex ==
    ASSUME NEW a, NEW b, Good(a), Good(b), SameShape(a, b), NEW k \in Keys \cup {Nil}
    PROVE  FindIndex(b, k) = FindIndex(a, k)
<1>1. TableType(a) /\ TableType(b) /\ Chained(a)
  BY DEF Good
<1>2. /\ Nodes(b) = Nodes(a) /\ Len(b.array) = Len(a.array) /\ b.hash = a.hash
      /\ \A x \in Nodes(a) : b.node[x].key = a.node[x].key /\ b.node[x].next = a.node[x].next
  BY DEF SameShape
<1>3. SizeNode(b) = SizeNode(a) /\ \A l : MainPosition(b, l) = MainPosition(a, l)
  BY <1>2, SameMain
<1>4. CASE k = Nil
  BY <1>4 DEF FindIndex
<1>5. CASE k # Nil
  <2>1. k \in Hashed
    BY <1>5, Constants
  <2>2. Find(b, k, BOOLEAN) = Find(a, k, BOOLEAN)
    <3>1. CASE SizeNode(a) = 0
      BY <1>3, <3>1 DEF Find
    <3>2. CASE SizeNode(a) # 0
      <4>1. PICK R : Linked(a, R)
        BY <1>1 DEF Chained
      <4>2. Linked(b, R)
        BY <1>2, <4>1 DEF Linked
      <4>3. R[MainPosition(a, k)] \subseteq Nodes(a)
        BY <1>1, <2>1, <3>2, <4>1, MainIs DEF Linked
      <4>4. \A x \in Nodes(a) : a.node[x].dead \in BOOLEAN /\ b.node[x].dead \in BOOLEAN
        BY <1>1, <1>2, IsWith DEF NodeType
      <4>5. Hits(b, R, k, BOOLEAN) = Hits(a, R, k, BOOLEAN)
        BY <1>2, <1>3, <4>3, <4>4 DEF Hits
      <4> QED BY <1>1, <1>3, <2>1, <3>2, <4>1, <4>2, <4>3, <4>5, FindOnce
    <3> QED BY <3>1, <3>2
  <2> QED BY <1>2, <2>2 DEF FindIndex, InArray
<1> QED BY <1>4, <1>5

\* An assignment to a field that is there moves nothing.
LEMMA AssignedThere ==
    ASSUME NEW a, Good(a), a.fits, NEW k \in Contents(a), NEW v \in {k, Nil}, NEW b, b = SetKey(a, k, v)
    PROVE  SameShape(a, b)
<1>1. TableType(a) /\ ValuesOwn(a) /\ Chained(a) /\ k \in Keys /\ k # Nil /\ k \in Hashed /\ v \in Keys \cup {Nil}
  BY Constants DEF Good, Contents
<1>2. InArray(a, k) \/ NodeOf(a, k) # None
  <2>1. Get(a, k) = k
    BY <1>1, GetIs
  <2> QED BY <1>1, <2>1 DEF Get
<1>3. PICK u : u = Assigned(a, k, v)
  OBVIOUS
<1>4. Entering(a, u, k, v)
  BY <1>1, <1>2, <1>3, AssignedFound
<1>5. u.fits /\ Nodes(u) = Nodes(a) /\ Len(u.array) = Len(a.array) /\ u.hash = a.hash
  BY <1>4 DEF Entering
<1>6. b = u
  BY <1>3, <1>5 DEF SetKey
<1>7. CASE InArray(a, k)
  <2>1. u = [a EXCEPT !.array[k] = v]
    BY <1>3, <1>7 DEF Assigned
  <2>2. a = [array |-> a.array, node |-> a.node, lastfree |-> a.lastfree, hash |-> a.hash, fits |-> a.fits]
    BY <1>1, IsWith DEF With
  <2>3. u.node = a.node
    BY <2>1, <2>2
  <2> QED BY <1>5, <1>6, <2>3 DEF SameShape
<1>8. CASE ~ InArray(a, k) /\ NodeOf(a, k) # None
  <2> PICK n : n = NodeOf(a, k)
    OBVIOUS
  <2>1. u = ValueSet(a, n, v)
    BY <1>3, <1>8 DEF Assigned, ValueSet
  <2>2. n \in Nodes(a)
    BY <1>1, <1>8, NodeOfIs
  <2>3. Written(a, u, n, Node(a.node[n].key, a.node[n].dead, v, a.node[n].next))
    BY <1>1, <2>1, <2>2, FieldAt
  <2>4. /\ u.node[n] = Node(a.node[n].key, a.node[n].dead, v, a.node[n].next)
        /\ \A x \in Nodes(a) : x # n => u.node[x] = a.node[x]
    BY <2>3 DEF Written
  <2>5. u.node[n].key = a.node[n].key /\ u.node[n].next = a.node[n].next
    BY <2>4, NodeFields
  <2> QED BY <1>5, <1>6, <2>4, <2>5 DEF SameShape
<1> QED BY <1>2, <1>7, <1>8

\* Where a traversal is: it has returned the keys up to there, and the fields that have been
\* there all the time are there.
Passed(a, key, sn, st) ==
    /\ key \in Keys \cup {Nil} /\ FindIndex(a, key) \in Nat
    /\ st \subseteq Contents(a)
    /\ \A k \in sn : k \in Keys /\ FindIndex(a, k) \in Nat /\ FindIndex(a, k) <= FindIndex(a, key)
    /\ \A k \in st : FindIndex(a, k) <= FindIndex(a, key) => k \in sn

IterType == iter \in [on : BOOLEAN, key : Keys \cup {Nil}, lost : BOOLEAN]
TraversalInv == IterType /\ (iter.on => ~ iter.lost /\ Passed(t, iter.key, seen, steady))

LEMMA IdleIs == Idle \in [on : BOOLEAN, key : Keys \cup {Nil}, lost : BOOLEAN] /\ ~ Idle.on
<1>1. \A f, g \in BOOLEAN : [on |-> f, key |-> Nil, lost |-> g] \in [on : BOOLEAN, key : Keys \cup {Nil}, lost : BOOLEAN]
  OBVIOUS
<1>2. FALSE \in BOOLEAN
  OBVIOUS
<1> QED BY <1>1, <1>2, Zenon DEF Idle

\* A traversal that begins has passed nothing.
LEMMA PassedNone ==
    ASSUME NEW a, Good(a), NEW st, st \subseteq Contents(a)
    PROVE  Passed(a, Nil, {}, st)
<1>1. FindIndex(a, Nil) = 0 /\ 0 \in Nat
  BY DEF FindIndex
<1>2. \A k \in st : FindIndex(a, k) \in Nat /\ ~ FindIndex(a, k) <= 0
  <2> TAKE k \in st
  <2>1. FindIndex(a, k) \in 1 .. Len(a.array) + SizeNode(a)
    BY IndexOf
  <2> QED BY <2>1
<1> QED BY <1>1, <1>2 DEF Passed

\* A change of values and marks leaves it there.
LEMMA PassedStays ==
    ASSUME NEW a, NEW b, Good(a), Good(b), SameShape(a, b), NEW key, NEW sn, NEW st, NEW su,
           Passed(a, key, sn, st), su \subseteq st, su \subseteq Contents(b)
    PROVE  Passed(b, key, sn, su)
<1>1. \A k \in Keys \cup {Nil} : FindIndex(b, k) = FindIndex(a, k)
  BY SameIndex
<1>2. st \subseteq Keys
  BY DEF Passed, Contents
<1> QED BY <1>1, <1>2 DEF Passed

\* luaH_next: either everything has been passed, or the key that is returned is new and
\* nothing between was there.
LEMMA PassedOn ==
    ASSUME NEW a, Good(a), NEW key, NEW sn, NEW st, Passed(a, key, sn, st),
           NEW k, k = NextKey(a, FindIndex(a, key))
    PROVE  /\ FindIndex(a, key) # None
           /\ k = Nil => st \subseteq sn
           /\ k # Nil => k \notin sn /\ Passed(a, k, sn \cup {k}, st)
<1> PICK i : i = FindIndex(a, key)
  OBVIOUS
<1> PICK L : L = {j \in i + 1 .. Len(a.array) + SizeNode(a) : Entry(a, j).val # Nil}
  OBVIOUS
<1>1. /\ i \in Nat /\ Len(a.array) \in Nat /\ SizeNode(a) \in Nat /\ None \notin Nat /\ Nil \notin Keys
      /\ st \subseteq Contents(a)
      /\ \A l \in sn : l \in Keys /\ FindIndex(a, l) \in Nat /\ FindIndex(a, l) <= i
      /\ \A l \in st : FindIndex(a, l) <= i => l \in sn
  BY NodesAre, Constants DEF Passed, Good, TableType
<1>2. k = IF L = {} THEN Nil ELSE Entry(a, Min(L)).key
  BY DEF NextKey
<1>3. L \subseteq Nat /\ L \subseteq 1 .. Len(a.array) + SizeNode(a) /\ \A j \in L : j > i /\ Entry(a, j).val # Nil
  BY <1>1
<1>4. ASSUME NEW l \in st
      PROVE  /\ l \in Keys /\ FindIndex(a, l) \in Nat /\ Entry(a, FindIndex(a, l)).val = l
             /\ FindIndex(a, l) <= i => l \in sn
             /\ ~ FindIndex(a, l) <= i => FindIndex(a, l) \in L
  <2> PICK j : j = FindIndex(a, l)
    OBVIOUS
  <2>1. l \in Keys /\ j \in 1 .. Len(a.array) + SizeNode(a) /\ Entry(a, j).val = l
    BY <1>1, <1>4, IndexOf
  <2>2. j \in Nat /\ (~ j <= i => j \in i + 1 .. Len(a.array) + SizeNode(a))
    BY <1>1, <2>1
  <2> QED BY <1>1, <2>1, <2>2
<1>5. CASE L = {}
  BY <1>1, <1>2, <1>4, <1>5
<1>6. CASE L # {}
  <2> PICK m : m = Min(L)
    OBVIOUS
  <2>1. m \in L /\ \A j \in L : m <= j
    <3>1. PICK n \in L : \A j \in L : n <= j
      BY <1>3, <1>6, LeastNat
    <3>2. \E z \in L : \A j \in L : z <= j
      BY <3>1
    <3> QED BY <3>2, Zenon DEF Min
  <2> PICK c : c = Entry(a, m).val
    OBVIOUS
  <2>2. c # Nil /\ m \in 1 .. Len(a.array) + SizeNode(a) /\ m \in Nat /\ m > i
    BY <1>3, <2>1
  <2>3. c \in Contents(a) /\ Entry(a, m).key = c /\ FindIndex(a, c) = m
    <3>1. IndexedAt(a, m, c)
      BY <2>2, IndexIs
    <3> QED BY <3>1 DEF IndexedAt
  <2>4. k = c /\ c \in Keys
    BY <1>2, <1>6, <2>3 DEF Contents
  <2>5. k \notin sn
    BY <1>1, <2>2, <2>3, <2>4
  <2>6. ASSUME NEW l \in st, FindIndex(a, l) <= m PROVE l \in sn \cup {k}
    <3>1. CASE FindIndex(a, l) <= i
      BY <1>4, <3>1
    <3>2. CASE ~ FindIndex(a, l) <= i
      <4>1. FindIndex(a, l) = m
        <5>1. FindIndex(a, l) \in Nat /\ m <= FindIndex(a, l)
          BY <1>4, <2>1, <3>2
        <5> QED BY <2>2, <2>6, <5>1
      <4> QED BY <1>4, <2>4, <4>1
    <3> QED BY <3>1, <3>2
  <2>7. ASSUME NEW l \in sn \cup {k} PROVE l \in Keys /\ FindIndex(a, l) \in Nat /\ FindIndex(a, l) <= m
    <3>1. CASE l \in sn
      <4>1. FindIndex(a, l) \in Nat /\ FindIndex(a, l) <= i
        BY <1>1, <3>1
      <4> QED BY <1>1, <2>2, <3>1, <4>1
    <3>2. CASE l = k
      BY <2>2, <2>3, <2>4, <3>2
    <3> QED BY <3>1, <3>2
  <2>8. Passed(a, k, sn \cup {k}, st)
    BY <1>1, <2>2, <2>3, <2>4, <2>6, <2>7 DEF Passed
  <2> QED BY <1>1, <2>4, <2>5, <2>8, <2>2
<1> QED BY <1>5, <1>6

LEMMA InitTraversal == Init => TraversalInv
<1> SUFFICES ASSUME Init PROVE IterType /\ ~ iter.on
  BY DEF TraversalInv
<1>1. iter = Idle
  BY DEF Init
<1> QED BY <1>1, IdleIs DEF IterType

LEMMA AssignTraversal ==
    ASSUME TableInv, TableInv', TraversalInv, NEW k \in Keys, NEW v \in {k, Nil}, Assign(k, v)
    PROVE  TraversalInv'
<1>1. Good(t) /\ t.fits /\ t' = SetKey(t, k, v)
  BY DEF TableInv, Assign
<1> PICK u : u = t'
  OBVIOUS
<1>2. Good(u) /\ Contents(u) = (Contents(t) \ {k}) \cup ({v} \ {Nil})
  BY <1>1, SetKeyIs
<1>3. Get(t, k) # Nil => k \in Contents(t)
  BY <1>1, GetIs, Constants DEF Good
<1>4. CASE Get(t, k) # Nil
  <2>1. steady' = (IF v = Nil THEN steady \ {k} ELSE steady) /\ iter' = iter /\ seen' = seen
    BY <1>4 DEF Assign
  <2>2. SameShape(t, u)
    BY <1>1, <1>3, <1>4, AssignedThere
  <2> SUFFICES ASSUME iter.on PROVE ~ iter.lost /\ Passed(u, iter.key, seen, steady')
    BY <2>1 DEF TraversalInv, IterType
  <2>3. ~ iter.lost /\ Passed(t, iter.key, seen, steady)
    BY DEF TraversalInv
  <2>4. steady \subseteq Contents(t) /\ k # Nil
    BY <2>3, Constants DEF Passed
  <2>5. steady' \subseteq steady /\ steady' \subseteq Contents(u)
    BY <1>2, <2>1, <2>4
  <2> QED BY <1>1, <1>2, <2>2, <2>3, <2>5, PassedStays
<1>5. CASE Get(t, k) = Nil
  <2>1. iter' = Idle
    BY <1>5 DEF Assign
  <2>2. ~ iter'.on /\ IterType'
    BY <2>1, IdleIs DEF IterType
  <2> QED BY <2>2 DEF TraversalInv
<1> QED BY <1>4, <1>5

LEMMA MarkDeadTraversal ==
    ASSUME TableInv, TraversalInv, NEW i \in DOMAIN t.node, MarkDead(i)
    PROVE  TraversalInv'
<1>1. Good(t) /\ i \in Nodes(t) /\ t.node[i].val = Nil /\ t' = Buried(t, i)
      /\ iter' = iter /\ seen' = seen /\ steady' = steady
  BY DEF TableInv, MarkDead, Nodes, Buried
<1> PICK u : u = t'
  OBVIOUS
<1>2. Good(u) /\ Contents(u) = Contents(t) /\ SameShape(t, u)
  <2>1. /\ Good(u) /\ Contents(u) = Contents(t)
        /\ Nodes(u) = Nodes(t) /\ u.array = t.array /\ u.hash = t.hash
        /\ \A x \in Nodes(t) : u.node[x].key = t.node[x].key /\ u.node[x].next = t.node[x].next
    BY <1>1, BuriedIs
  <2> QED BY <2>1 DEF SameShape
<1> SUFFICES ASSUME iter.on PROVE ~ iter.lost /\ Passed(u, iter.key, seen, steady)
  BY <1>1 DEF TraversalInv, IterType
<1>3. ~ iter.lost /\ Passed(t, iter.key, seen, steady)
  BY DEF TraversalInv
<1>4. steady \subseteq Contents(u)
  BY <1>2, <1>3 DEF Passed
<1> QED BY <1>1, <1>2, <1>3, <1>4, PassedStays

LEMMA BeginTraversal ==
    ASSUME TableInv, Begin
    PROVE  TraversalInv'
<1>1. Good(t) /\ t' = t /\ seen' = {} /\ steady' = {k \in Keys : Get(t, k) # Nil}
      /\ iter' = [on |-> TRUE, key |-> Nil, lost |-> FALSE]
  BY DEF TableInv, Begin
<1>2. steady' \subseteq Contents(t)
  <2>1. \A k \in Keys : Get(t, k) # Nil => k \in Contents(t)
    BY <1>1, GetIs, Constants DEF Good
  <2> QED BY <1>1, <2>1
<1>3. iter'.key = Nil /\ ~ iter'.lost
  BY <1>1
<1>4. IterType'
  <2>1. \A f, g \in BOOLEAN : [on |-> f, key |-> Nil, lost |-> g] \in [on : BOOLEAN, key : Keys \cup {Nil}, lost : BOOLEAN]
    OBVIOUS
  <2>2. FALSE \in BOOLEAN /\ TRUE \in BOOLEAN
    OBVIOUS
  <2> QED BY <1>1, <2>1, <2>2, Zenon DEF IterType
<1>5. Passed(t, Nil, {}, steady')
  BY <1>1, <1>2, PassedNone
<1>6. Passed(t', iter'.key, seen', steady')
  <2>1. t' = t /\ seen' = {}
    BY <1>1
  <2> QED BY <1>3, <1>5, <2>1
<1> QED BY <1>3, <1>4, <1>6 DEF TraversalInv

\* What Advance does in a state of the traversal.
Complete ==
    IF iter'.on THEN ~ iter'.lost /\ iter'.key \notin seen /\ Passed(t, iter'.key, seen', steady)
    ELSE steady \subseteq seen

LEMMA AdvanceTraversal ==
    ASSUME TableInv, TraversalInv, Advance
    PROVE  Complete /\ TraversalInv'
<1> PICK i : i = FindIndex(t, iter.key)
  OBVIOUS
<1> PICK k : k = NextKey(t, i)
  OBVIOUS
<1>1. /\ Good(t) /\ IterType /\ iter.on /\ ~ iter.lost /\ t' = t /\ map' = map
      /\ IF i = None THEN iter' = [iter EXCEPT !.lost = TRUE] /\ seen' = seen /\ steady' = steady
         ELSE IF k = Nil THEN iter' = Idle /\ seen' = {} /\ steady' = {}
         ELSE iter' = [iter EXCEPT !.key = k] /\ seen' = seen \cup {k} /\ steady' = steady
  BY DEF TableInv, TraversalInv, Advance
<1>2. Passed(t, iter.key, seen, steady)
  BY <1>1 DEF TraversalInv
<1>3. /\ i # None
      /\ k = Nil => steady \subseteq seen
      /\ k # Nil => k \notin seen /\ Passed(t, k, seen \cup {k}, steady)
  BY <1>1, <1>2, PassedOn
<1>4. CASE k = Nil
  <2>1. iter' = Idle
    BY <1>1, <1>3, <1>4
  <2>2. ~ iter'.on /\ IterType'
    BY <2>1, IdleIs DEF IterType
  <2> QED BY <1>3, <1>4, <2>2 DEF Complete, TraversalInv
<1>5. CASE k # Nil
  <2>1. iter' = [iter EXCEPT !.key = k] /\ seen' = seen \cup {k} /\ steady' = steady
    BY <1>1, <1>3, <1>5
  <2>2. k \in Keys \cup {Nil}
    BY <1>3, <1>5 DEF Passed
  <2>3. iter'.on /\ ~ iter'.lost /\ iter'.key = k /\ IterType'
    BY <1>1, <2>1, <2>2 DEF IterType
  <2> QED BY <1>1, <1>3, <1>5, <2>1, <2>3 DEF Complete, TraversalInv
<1> QED BY <1>4, <1>5

LEMMA NextTraversal ==
    ASSUME TableInv, TableInv', TraversalInv, [Next]_vars
    PROVE  TraversalInv' /\ (Advance => Complete)
<1>1. ASSUME NEW k \in Keys, NEW v \in {k, Nil}, Assign(k, v) PROVE TraversalInv'
  BY <1>1, AssignTraversal
<1>2. ASSUME NEW n \in 1 .. MaxInt, SetList(n) PROVE TraversalInv'
  <2>1. iter' = Idle
    BY <1>2 DEF SetList
  <2> QED BY <2>1, IdleIs DEF TraversalInv, IterType
<1>3. ASSUME NEW i \in DOMAIN t.node, MarkDead(i) PROVE TraversalInv'
  BY <1>3, MarkDeadTraversal
<1>4. Begin => TraversalInv'
  BY BeginTraversal
<1>5. Advance => TraversalInv' /\ Complete
  BY AdvanceTraversal
<1>6. UNCHANGED vars => TraversalInv'
  BY DEF vars, TraversalInv, IterType
<1>7. \A k \in Keys : k \in {k, Nil} /\ Nil \in {k, Nil}
  OBVIOUS
<1> QED BY <1>1, <1>2, <1>3, <1>4, <1>5, <1>6, <1>7 DEF Next

\* A traversal (luaH_next, findindex) to which no field is added finds the key that it is at,
\* also when the field was cleared and the collector has marked the key dead; it returns no
\* key twice, and every field that was there all the time.
THEOREM TraversalsAreComplete == Spec => TraversalComplete
<1> DEFINE I == TableInv /\ TraversalInv
           A == iter' # iter /\ Advance =>
                   IF iter'.on THEN ~ iter'.lost /\ iter'.key \notin seen ELSE steady \subseteq seen
<1>1. Init => I
  BY InitTable, InitTraversal
<1>2. I /\ [Next]_vars => I'
  BY NextTable, NextTraversal
<1>3. I /\ [Next]_vars => [A]_vars
  <2> SUFFICES ASSUME I, [Next]_vars, Advance PROVE A
    OBVIOUS
  <2>1. Complete
    BY NextTable, NextTraversal
  <2> QED BY <2>1 DEF Complete
<1> HIDE DEF I
<1>4. TraversalComplete <=> [][A]_vars
  BY DEF TraversalComplete
<1> HIDE DEF A
<1> QED BY <1>1, <1>2, <1>3, <1>4, PTL DEF Spec

-----------------------------------------------------------------------------
(* table.sort: orders and exchanges. *)

Le(x, y) == <<y, x>> \notin less
ValuesOf(a) == {a[i] : i \in DOMAIN a}

\* Under a strict weak order "not greater" is reflexive, total and transitive.
LEMMA OrderIs ==
    ASSUME NEW V, WeakOrder(less, V), NEW x \in V, NEW y \in V, NEW z \in V
    PROVE  Le(x, x) /\ (Le(x, y) \/ Le(y, x)) /\ (Le(x, y) /\ Le(y, z) => Le(x, z))
  BY DEF WeakOrder, Le

\* b is a with its elements between l and u in another order.
Rearranged(a, b, l, u, f) ==
    /\ f \in [DOMAIN a -> DOMAIN a]
    /\ \A i, j \in DOMAIN a : f[i] = f[j] => i = j
    /\ \A j \in DOMAIN a : \E i \in DOMAIN a : f[i] = j
    /\ DOMAIN b = DOMAIN a /\ \A i \in DOMAIN a : b[i] = a[f[i]]
    /\ \A i \in DOMAIN a : IF i \in l .. u THEN f[i] \in l .. u ELSE f[i] = i
Reordered(a, b, l, u) == \E f : Rearranged(a, b, l, u, f)

LEMMA ReorderedSelf == \A a, l, u : Reordered(a, a, l, u)
<1> SUFFICES ASSUME NEW a, NEW l, NEW u PROVE Reordered(a, a, l, u)
  OBVIOUS
<1> PICK f : f = [i \in DOMAIN a |-> i]
  OBVIOUS
<1>1. Rearranged(a, a, l, u, f)
  BY DEF Rearranged
<1> QED BY <1>1 DEF Reordered

LEMMA ReorderedTwice ==
    ASSUME NEW a, NEW b, NEW c, NEW l, NEW u, Reordered(a, b, l, u), Reordered(b, c, l, u)
    PROVE  Reordered(a, c, l, u)
<1>1. PICK f : Rearranged(a, b, l, u, f)
  BY DEF Reordered
<1>2. PICK g : Rearranged(b, c, l, u, g)
  BY DEF Reordered
<1> PICK D : D = DOMAIN a
  OBVIOUS
<1>3. /\ f \in [D -> D] /\ DOMAIN b = D
      /\ \A i, j \in D : f[i] = f[j] => i = j
      /\ \A j \in D : \E i \in D : f[i] = j
      /\ \A i \in D : b[i] = a[f[i]]
      /\ \A i \in D : IF i \in l .. u THEN f[i] \in l .. u ELSE f[i] = i
  BY <1>1 DEF Rearranged
<1>4. /\ g \in [D -> D] /\ DOMAIN c = D
      /\ \A i, j \in D : g[i] = g[j] => i = j
      /\ \A j \in D : \E i \in D : g[i] = j
      /\ \A i \in D : c[i] = b[g[i]]
      /\ \A i \in D : IF i \in l .. u THEN g[i] \in l .. u ELSE g[i] = i
  BY <1>2, <1>3 DEF Rearranged
<1> PICK h : h = [i \in D |-> f[g[i]]]
  OBVIOUS
<1>5. \A i \in D : g[i] \in D /\ h[i] = f[g[i]] /\ h[i] \in D
  BY <1>3, <1>4
<1>6. h \in [D -> D]
  BY <1>5
<1>7. \A i, j \in D : h[i] = h[j] => i = j
  BY <1>3, <1>4, <1>5
<1>8. ASSUME NEW j \in D PROVE \E i \in D : h[i] = j
  <2>1. PICK m \in D : f[m] = j
    BY <1>3
  <2>2. PICK i \in D : g[i] = m
    BY <1>4
  <2> QED BY <1>5, <2>1, <2>2
<1>9. \A i \in D : c[i] = a[h[i]]
  BY <1>3, <1>4, <1>5
<1>10. \A i \in D : IF i \in l .. u THEN h[i] \in l .. u ELSE h[i] = i
  BY <1>3, <1>4, <1>5
<1>11. Rearranged(a, c, l, u, h)
  BY <1>4, <1>6, <1>7, <1>8, <1>9, <1>10 DEF Rearranged
<1> QED BY <1>11 DEF Reordered

\* set2 after the two lua_rawgeti.
Exchanged(a, b, i, j) ==
    /\ DOMAIN b = DOMAIN a /\ b[i] = a[j] /\ b[j] = a[i]
    /\ \A k \in DOMAIN a : k # i /\ k # j => b[k] = a[k]

LEMMA ExchangeIs ==
    ASSUME NEW a, NEW i \in DOMAIN a, NEW j \in DOMAIN a, NEW b, b = Exchange(a, i, j)
    PROVE  Exchanged(a, b, i, j)
  BY DEF Exchange, Exchanged

LEMMA ExchangeReorders ==
    ASSUME NEW a, NEW i \in DOMAIN a, NEW j \in DOMAIN a, NEW l, NEW u, i \in l .. u, j \in l .. u,
           NEW b, Exchanged(a, b, i, j)
    PROVE  Reordered(a, b, l, u)
<1> PICK f : f = [k \in DOMAIN a |-> IF k = i THEN j ELSE IF k = j THEN i ELSE k]
  OBVIOUS
<1>1. f \in [DOMAIN a -> DOMAIN a]
  OBVIOUS
<1>2. \A k, m \in DOMAIN a : f[k] = f[m] => k = m
  OBVIOUS
<1>3. \A m \in DOMAIN a : f[f[m]] = m /\ f[m] \in DOMAIN a
  OBVIOUS
<1>4. \A k \in DOMAIN a : b[k] = a[f[k]]
  BY DEF Exchanged
<1>5. \A k \in DOMAIN a : IF k \in l .. u THEN f[k] \in l .. u ELSE f[k] = k
  OBVIOUS
<1>6. \A m \in DOMAIN a : \E k \in DOMAIN a : f[k] = m
  BY <1>3
<1>7. DOMAIN b = DOMAIN a
  BY DEF Exchanged
<1>8. Rearranged(a, b, l, u, f)
  BY <1>1, <1>2, <1>4, <1>5, <1>6, <1>7 DEF Rearranged
<1> QED BY <1>8 DEF Reordered

\* The same values, outside in the same places.
LEMMA ReorderedValues ==
    ASSUME NEW a, NEW b, NEW l, NEW u, Reordered(a, b, l, u)
    PROVE  /\ DOMAIN b = DOMAIN a /\ ValuesOf(b) = ValuesOf(a)
           /\ \A i \in DOMAIN a : i \notin l .. u => b[i] = a[i]
           /\ \A i \in DOMAIN a : i \in l .. u => \E j \in DOMAIN a : j \in l .. u /\ b[i] = a[j]
<1>1. PICK f : Rearranged(a, b, l, u, f)
  BY DEF Reordered
<1>2. DOMAIN b = DOMAIN a /\ \A i \in DOMAIN a : f[i] \in DOMAIN a /\ b[i] = a[f[i]]
  BY <1>1 DEF Rearranged
<1>3. \A j \in DOMAIN a : \E i \in DOMAIN a : b[i] = a[j]
  <2> TAKE j \in DOMAIN a
  <2>1. PICK i \in DOMAIN a : f[i] = j
    BY <1>1 DEF Rearranged
  <2> QED BY <1>2, <2>1
<1>4. ValuesOf(b) = ValuesOf(a)
  BY <1>2, <1>3 DEF ValuesOf
<1>5. \A i \in DOMAIN a : IF i \in l .. u THEN f[i] \in l .. u ELSE f[i] = i
  BY <1>1 DEF Rearranged
<1> QED BY <1>2, <1>4, <1>5

MovedWithin(a, b, l, u) ==
    /\ \A i \in DOMAIN a : i \notin l .. u => b[i] = a[i]
    /\ \A i \in DOMAIN a : i \in l .. u => \E j \in DOMAIN a : j \in l .. u /\ b[i] = a[j]

LEMMA ReorderedMoves ==
    ASSUME NEW a, NEW b, NEW l, NEW u, Reordered(a, b, l, u)
    PROVE  MovedWithin(a, b, l, u)
  BY ReorderedValues DEF MovedWithin

\* What an order says about places: it is one, on the values of a.
Ordered(a) == WeakOrder(less, ValuesOf(a))

LEMMA OrderAt ==
    ASSUME NEW a, Ordered(a), NEW i \in DOMAIN a, NEW j \in DOMAIN a, NEW k \in DOMAIN a
    PROVE  Le(a[i], a[i]) /\ (Le(a[i], a[j]) \/ Le(a[j], a[i])) /\ (Le(a[i], a[j]) /\ Le(a[j], a[k]) => Le(a[i], a[k]))
<1>1. a[i] \in ValuesOf(a) /\ a[j] \in ValuesOf(a) /\ a[k] \in ValuesOf(a)
  BY DEF ValuesOf
<1> QED BY <1>1, OrderIs DEF Ordered

LEMMA OrderedStays ==
    ASSUME NEW a, NEW b, NEW l, NEW u, Reordered(a, b, l, u)
    PROVE  Ordered(b) <=> Ordered(a)
<1>1. ValuesOf(b) = ValuesOf(a)
  BY ReorderedValues
<1> QED BY <1>1 DEF Ordered

\* The first and the last element are put in order.
LEMMA EndsIs ==
    ASSUME NEW a, NEW l \in DOMAIN a, NEW u \in DOMAIN a, l \in l .. u, u \in l .. u, NEW b, b = Ends(a, l, u)
    PROVE  Reordered(a, b, l, u) /\ (Ordered(a) => Le(b[l], b[u]))
<1>1. CASE SortComp(a[u], a[l])
  <2>1. Exchanged(a, b, l, u)
    BY <1>1, ExchangeIs DEF Ends
  <2>2. Reordered(a, b, l, u)
    BY <2>1, ExchangeReorders
  <2>3. b[l] = a[u] /\ b[u] = a[l]
    BY <2>1 DEF Exchanged
  <2>4. Ordered(a) => Le(a[l], a[u]) \/ Le(a[u], a[l])
    BY OrderAt
  <2>5. ~ Le(a[l], a[u])
    BY <1>1 DEF SortComp, Le
  <2> QED BY <2>2, <2>3, <2>4, <2>5
<1>2. CASE ~ SortComp(a[u], a[l])
  <2>1. b = a
    BY <1>2 DEF Ends
  <2> QED BY <1>2, <2>1, ReorderedSelf DEF SortComp, Le
<1> QED BY <1>1, <1>2

\* Then the one in the middle.
LEMMA MedianIs ==
    ASSUME NEW a, NEW l \in Int, NEW u \in Int, u - l >= 2, l .. u \subseteq DOMAIN a, NEW b, b = Median(a, l, u),
           NEW m, m = (l + u) \div 2
    PROVE  /\ m \in l + 1 .. u - 1 /\ Reordered(a, b, l, u)
           /\ Ordered(a) /\ Le(a[l], a[u]) => Le(b[l], b[m]) /\ Le(b[m], b[u])
<1>1. m \in l + 1 .. u - 1 /\ m \in l .. u /\ l \in l .. u /\ u \in l .. u /\ m # l /\ m # u /\ l # u
  OBVIOUS
<1>2. m \in DOMAIN a /\ l \in DOMAIN a /\ u \in DOMAIN a
  BY <1>1
<1>3. b = IF SortComp(a[m], a[l]) THEN Exchange(a, m, l) ELSE IF SortComp(a[u], a[m]) THEN Exchange(a, m, u) ELSE a
  BY DEF Median
<1>4. Ordered(a) => /\ Le(a[l], a[m]) \/ Le(a[m], a[l])
                    /\ Le(a[m], a[u]) \/ Le(a[u], a[m])
  BY <1>2, OrderAt
<1>5. CASE SortComp(a[m], a[l])
  <2>1. Exchanged(a, b, m, l)
    BY <1>2, <1>3, <1>5, ExchangeIs
  <2>2. Reordered(a, b, l, u)
    BY <1>1, <1>2, <2>1, ExchangeReorders
  <2>3. b[m] = a[l] /\ b[l] = a[m] /\ b[u] = a[u]
    BY <1>1, <1>2, <2>1 DEF Exchanged
  <2>4. ~ Le(a[l], a[m])
    BY <1>5 DEF SortComp, Le
  <2> QED BY <1>1, <1>4, <2>2, <2>3, <2>4
<1>6. CASE ~ SortComp(a[m], a[l]) /\ SortComp(a[u], a[m])
  <2>1. Exchanged(a, b, m, u)
    BY <1>2, <1>3, <1>6, ExchangeIs
  <2>2. Reordered(a, b, l, u)
    BY <1>1, <1>2, <2>1, ExchangeReorders
  <2>3. b[m] = a[u] /\ b[u] = a[m] /\ b[l] = a[l]
    BY <1>1, <1>2, <2>1 DEF Exchanged
  <2>4. ~ Le(a[m], a[u])
    BY <1>6 DEF SortComp, Le
  <2> QED BY <1>1, <1>4, <2>2, <2>3, <2>4
<1>7. CASE ~ SortComp(a[m], a[l]) /\ ~ SortComp(a[u], a[m])
  <2>1. b = a
    BY <1>3, <1>7
  <2>2. Le(a[l], a[m]) /\ Le(a[m], a[u])
    BY <1>7 DEF SortComp, Le
  <2>3. Reordered(a, b, l, u)
    BY <2>1, ReorderedSelf
  <2> QED BY <1>1, <2>1, <2>2, <2>3
<1> QED BY <1>5, <1>6, <1>7

-----------------------------------------------------------------------------
(* table.sort: the partition. *)

\* i stops at the first element that is not less than the pivot.
LEMMA UpIs ==
    ASSUME NEW a, NEW i \in Nat, NEW p, NEW u \in Int, NEW n, n = Up(a, i, p, u)
    PROVE  \/ n = 0 /\ \A k \in i + 1 .. u : ~ Le(p, a[k])
           \/ n \in i + 1 .. u /\ Le(p, a[n]) /\ \A k \in i + 1 .. n - 1 : ~ Le(p, a[k])
<1> PICK T : T = {k \in i + 1 .. u : Le(p, a[k])}
  OBVIOUS
<1>1. n = IF T = {} THEN 0 ELSE Min(T)
  BY DEF Up, SortComp, Le
<1>2. T \subseteq Nat
  OBVIOUS
<1>3. CASE T = {}
  BY <1>1, <1>3
<1>4. CASE T # {}
  <2>1. \E m \in T : \A k \in T : m <= k
    BY <1>2, <1>4, LeastNat
  <2>2. Min(T) \in T /\ \A k \in T : Min(T) <= k
    BY <2>1, Zenon DEF Min
  <2>3. n \in T /\ \A k \in T : n <= k
    BY <1>1, <1>4, <2>2
  <2>4. \A k \in i + 1 .. n - 1 : k \notin T /\ k \in i + 1 .. u
    <3> TAKE k \in i + 1 .. n - 1
    <3>1. ~ n <= k /\ k \in i + 1 .. u
      BY <2>3
    <3> QED BY <2>3, <3>1
  <2> QED BY <2>3, <2>4
<1> QED BY <1>3, <1>4

\* j stops at the last one that is not greater.
LEMMA DownIs ==
    ASSUME NEW a, NEW j \in Int, NEW p, NEW l \in Nat, NEW n, n = Down(a, j, p, l)
    PROVE  \/ n = 0 /\ \A k \in l .. j - 1 : ~ Le(a[k], p)
           \/ n \in l .. j - 1 /\ Le(a[n], p) /\ \A k \in n + 1 .. j - 1 : ~ Le(a[k], p)
<1> PICK T : T = {k \in l .. j - 1 : Le(a[k], p)}
  OBVIOUS
<1>1. n = IF T = {} THEN 0 ELSE Max(T)
  BY DEF Down, SortComp, Le
<1>2. CASE T = {}
  BY <1>1, <1>2
<1>3. CASE T # {}
  <2> DEFINE U == {j - x : x \in T}
  <2>1. U \subseteq Nat /\ U # {}
    BY <1>3
  <2>2. PICK w \in U : \A x \in U : w <= x
    BY <2>1, LeastNat
  <2>3. PICK m \in T : w = j - m
    OBVIOUS
  <2>4. \A x \in T : m >= x
    <3> TAKE x \in T
    <3>1. j - m <= j - x
      BY <2>2, <2>3
    <3> QED BY <3>1
  <2>5. Max(T) \in T /\ \A x \in T : Max(T) >= x
    <3>1. \E y \in T : \A x \in T : y >= x
      BY <2>4
    <3> QED BY <3>1, Zenon DEF Max
  <2>6. n \in T /\ \A x \in T : n >= x
    BY <1>1, <1>3, <2>5
  <2>7. \A k \in n + 1 .. j - 1 : k \notin T /\ k \in l .. j - 1
    <3> TAKE k \in n + 1 .. j - 1
    <3>1. ~ n >= k /\ k \in l .. j - 1
      BY <2>6
    <3> QED BY <2>6, <3>1
  <2> QED BY <2>6, <2>7
<1> QED BY <1>2, <1>3

\* What the partition starts from, and its loop after n exchanges: up to i no element is
\* greater than the pivot, from j on none is less.
Framed(a, l, u) == Ordered(a) /\ Le(a[l], a[u - 1]) /\ Le(a[u - 1], a[u])
NoneAbove(b, p, l, i) == \A k \in l .. i : Le(b[k], p)
NoneBelow(b, p, j, u) == \A k \in j .. u : Le(p, b[k])
GoingAt(a, l, u, b, i, j, n) ==
    /\ i \in Nat /\ j \in Nat /\ l + n <= i /\ i <= j /\ j + n <= u - 1 /\ i < u - 1 /\ l < j
    /\ Reordered(a, b, l, u) /\ b[u - 1] = a[u - 1]
    /\ Framed(a, l, u) => NoneAbove(b, a[u - 1], l, i) /\ NoneBelow(b, a[u - 1], j, u)

\* What it ends with: the pivot is at its place, or the order is none.
Parted(a, l, u, b, m) ==
    /\ m \in {0} \union l + 1 .. u /\ Reordered(a, b, l, u)
    /\ Framed(a, l, u) => m \in l + 1 .. u - 1 /\ NoneAbove(b, b[m], l, m) /\ NoneBelow(b, b[m], m, u)

LEMMA ReorderedFurther ==
    ASSUME NEW a, NEW b, NEW l \in Int, NEW u \in Int, l .. u \subseteq DOMAIN a, Reordered(a, b, l, u),
           NEW i \in l .. u, NEW j \in l .. u, NEW c, c = Exchange(b, i, j)
    PROVE  Exchanged(b, c, i, j) /\ Reordered(a, c, l, u)
<1>1. DOMAIN b = DOMAIN a
  BY ReorderedValues
<1>2. i \in DOMAIN b /\ j \in DOMAIN b
  BY <1>1
<1>3. Exchanged(b, c, i, j)
  BY <1>2, ExchangeIs
<1>4. Reordered(b, c, l, u)
  BY <1>2, <1>3, ExchangeReorders
<1> QED BY <1>3, <1>4, ReorderedTwice

\* Under an order both scans stop, and say where the elements between are.
LEMMA ScansAre ==
    ASSUME NEW a, NEW l \in Nat, NEW u \in Nat, u - l >= 3, l .. u \subseteq DOMAIN a, Framed(a, l, u),
           NEW b, NEW i, NEW j, NEW n \in Nat, GoingAt(a, l, u, b, i, j, n),
           NEW x, x = Up(b, i, a[u - 1], u), NEW y, y = Down(b, j, a[u - 1], l)
    PROVE  /\ x \in i + 1 .. u - 1 /\ Le(a[u - 1], b[x]) /\ NoneAbove(b, a[u - 1], l, x - 1)
           /\ y \in l .. j - 1 /\ Le(b[y], a[u - 1]) /\ NoneBelow(b, a[u - 1], y + 1, u)
<1> PICK p : p = a[u - 1]
  OBVIOUS
<1>1. /\ i \in Nat /\ j \in Nat /\ l <= i /\ i <= j /\ j <= u - 1 /\ i < u - 1
      /\ Reordered(a, b, l, u) /\ b[u - 1] = p
  BY DEF GoingAt
<1>2. NoneAbove(b, p, l, i) /\ NoneBelow(b, p, j, u)
  BY DEF GoingAt
<1>3. Ordered(b) /\ DOMAIN b = DOMAIN a
  BY <1>1, OrderedStays, ReorderedValues DEF Framed
<1>4. u - 1 \in DOMAIN b /\ u - 1 \in l .. u
  BY <1>3
<1>5. ASSUME NEW k \in l .. u PROVE Le(b[k], p) \/ Le(p, b[k])
  <2>1. k \in DOMAIN b
    BY <1>3
  <2> QED BY <1>1, <1>3, <1>4, <2>1, OrderAt
<1>6. Le(p, p)
  BY <1>1, <1>3, <1>4, OrderAt
<1>7. \/ x = 0 /\ \A k \in i + 1 .. u : ~ Le(p, b[k])
      \/ x \in i + 1 .. u /\ Le(p, b[x]) /\ \A k \in i + 1 .. x - 1 : ~ Le(p, b[k])
  BY <1>1, UpIs
<1>8. \/ y = 0 /\ \A k \in l .. j - 1 : ~ Le(b[k], p)
      \/ y \in l .. j - 1 /\ Le(b[y], p) /\ \A k \in y + 1 .. j - 1 : ~ Le(b[k], p)
  BY <1>1, DownIs
<1>9. u - 1 \in i + 1 .. u /\ Le(p, b[u - 1])
  BY <1>1, <1>6
<1>10. x \in i + 1 .. u /\ Le(p, b[x]) /\ \A k \in i + 1 .. x - 1 : ~ Le(p, b[k])
  BY <1>7, <1>9
<1>11. x \in i + 1 .. u - 1
  <2>1. ~ u - 1 \in i + 1 .. x - 1
    BY <1>9, <1>10
  <2> QED BY <1>1, <1>10, <2>1
<1>12. NoneAbove(b, p, l, x - 1)
  <2> SUFFICES ASSUME NEW k \in l .. x - 1 PROVE Le(b[k], p)
    BY DEF NoneAbove
  <2>1. CASE k \in l .. i
    BY <1>2, <2>1 DEF NoneAbove
  <2>2. CASE k \in i + 1 .. x - 1
    <3>1. k \in l .. u
      BY <1>1, <1>11, <2>2
    <3> QED BY <1>5, <1>10, <2>2, <3>1
  <2> QED BY <1>1, <2>1, <2>2
<1>13. l \in l .. j - 1 /\ Le(b[l], p)
  <2>1. l < j
    BY DEF GoingAt
  <2> QED BY <1>1, <1>2, <2>1 DEF NoneAbove
<1>14. y \in l .. j - 1 /\ Le(b[y], p) /\ \A k \in y + 1 .. j - 1 : ~ Le(b[k], p)
  BY <1>8, <1>13
<1>15. NoneBelow(b, p, y + 1, u)
  <2> SUFFICES ASSUME NEW k \in y + 1 .. u PROVE Le(p, b[k])
    BY DEF NoneBelow
  <2>1. CASE k \in j .. u
    BY <1>2, <2>1 DEF NoneBelow
  <2>2. CASE k \in y + 1 .. j - 1
    <3>1. k \in l .. u
      BY <1>1, <1>14, <2>2
    <3> QED BY <1>5, <1>14, <2>2, <3>1
  <2> QED BY <1>1, <1>14, <2>1, <2>2
<1> QED BY <1>10, <1>11, <1>12, <1>14, <1>15

\* A round that exchanges two elements goes on,
LEMMA RoundGoes ==
    ASSUME NEW a, NEW l \in Nat, NEW u \in Nat, u - l >= 3, l .. u \subseteq DOMAIN a,
           NEW b, NEW i, NEW j, NEW n \in Nat, GoingAt(a, l, u, b, i, j, n),
           NEW x, x = Up(b, i, a[u - 1], u), NEW y, y = Down(b, j, a[u - 1], l), x # 0, y # 0, ~ y < x,
           NEW c, c = Exchange(b, x, y)
    PROVE  GoingAt(a, l, u, c, x, y, n + 1)
<1>1. /\ i \in Nat /\ j \in Nat /\ l + n <= i /\ i <= j /\ j + n <= u - 1 /\ i < u - 1 /\ l < j
      /\ Reordered(a, b, l, u) /\ b[u - 1] = a[u - 1]
  BY DEF GoingAt
<1>2. x \in i + 1 .. u
  BY <1>1, UpIs
<1>3. y \in l .. j - 1
  BY <1>1, DownIs
<1>4. /\ x \in Nat /\ y \in Nat /\ l + (n + 1) <= x /\ x <= y /\ y + (n + 1) <= u - 1 /\ x < u - 1 /\ l < y
      /\ x \in l .. u /\ y \in l .. u /\ y # u - 1 /\ x # u - 1 /\ u - 1 \in l .. u
  BY <1>1, <1>2, <1>3
<1>5. Exchanged(b, c, x, y) /\ Reordered(a, c, l, u) /\ DOMAIN b = DOMAIN a
  BY <1>1, <1>4, ReorderedFurther, ReorderedValues
<1>6. /\ c[x] = b[y] /\ c[y] = b[x]
      /\ \A k \in l .. u : k # x /\ k # y => c[k] = b[k]
  BY <1>5 DEF Exchanged
<1>7. c[u - 1] = a[u - 1]
  BY <1>1, <1>4, <1>6
<1>8. ASSUME Framed(a, l, u) PROVE NoneAbove(c, a[u - 1], l, x) /\ NoneBelow(c, a[u - 1], y, u)
  <2> PICK p : p = a[u - 1]
    OBVIOUS
  <2>1. /\ Le(p, b[x]) /\ NoneAbove(b, p, l, x - 1)
        /\ Le(b[y], p) /\ NoneBelow(b, p, y + 1, u)
    BY <1>8, ScansAre
  <2>2. NoneAbove(c, p, l, x)
    <3> SUFFICES ASSUME NEW k \in l .. x PROVE Le(c[k], p)
      BY DEF NoneAbove
    <3>1. CASE k = x
      BY <1>6, <2>1, <3>1
    <3>2. CASE k # x
      <4>1. k \in l .. x - 1 /\ k \in l .. u /\ k # y
        BY <1>4, <3>2
      <4>2. c[k] = b[k] /\ Le(b[k], p)
        BY <1>6, <2>1, <3>2, <4>1 DEF NoneAbove
      <4> QED BY <4>2
    <3> QED BY <3>1, <3>2
  <2>3. NoneBelow(c, p, y, u)
    <3> SUFFICES ASSUME NEW k \in y .. u PROVE Le(p, c[k])
      BY DEF NoneBelow
    <3>1. CASE k = y
      BY <1>6, <2>1, <3>1
    <3>2. CASE k # y
      <4>1. k \in y + 1 .. u /\ k \in l .. u /\ k # x
        BY <1>4, <3>2
      <4>2. c[k] = b[k] /\ Le(p, b[k])
        BY <1>6, <2>1, <3>2, <4>1 DEF NoneBelow
      <4> QED BY <4>2
    <3> QED BY <3>1, <3>2
  <2> QED BY <2>2, <2>3
<1> QED BY <1>4, <1>5, <1>7, <1>8 DEF GoingAt

\* one in which the scans have met puts the pivot between the halves.
LEMMA RoundEnds ==
    ASSUME NEW a, NEW l \in Nat, NEW u \in Nat, u - l >= 3, l .. u \subseteq DOMAIN a,
           NEW b, NEW i, NEW j, NEW n \in Nat, GoingAt(a, l, u, b, i, j, n),
           NEW x, x = Up(b, i, a[u - 1], u), NEW y, y = Down(b, j, a[u - 1], l), x # 0, y # 0, y < x,
           NEW c, c = Exchange(b, u - 1, x)
    PROVE  Parted(a, l, u, c, x)
<1>1. /\ i \in Nat /\ j \in Nat /\ l + n <= i /\ i <= j /\ j + n <= u - 1 /\ i < u - 1 /\ l < j
      /\ Reordered(a, b, l, u) /\ b[u - 1] = a[u - 1]
  BY DEF GoingAt
<1>2. x \in i + 1 .. u
  BY <1>1, UpIs
<1>3. y \in l .. j - 1
  BY <1>1, DownIs
<1>4. x \in l + 1 .. u /\ x \in l .. u /\ u - 1 \in l .. u
  BY <1>1, <1>2
<1>5. Exchanged(b, c, u - 1, x) /\ Reordered(a, c, l, u) /\ DOMAIN b = DOMAIN a
  BY <1>1, <1>4, ReorderedFurther, ReorderedValues
<1>6. /\ c[x] = a[u - 1] /\ c[u - 1] = b[x]
      /\ \A k \in l .. u : k # x /\ k # u - 1 => c[k] = b[k]
  BY <1>1, <1>5 DEF Exchanged
<1>7. ASSUME Framed(a, l, u) PROVE x \in l + 1 .. u - 1 /\ NoneAbove(c, c[x], l, x) /\ NoneBelow(c, c[x], x, u)
  <2> PICK p : p = a[u - 1]
    OBVIOUS
  <2>1. /\ x \in i + 1 .. u - 1 /\ Le(p, b[x]) /\ NoneAbove(b, p, l, x - 1)
        /\ NoneBelow(b, p, y + 1, u)
    BY <1>7, ScansAre
  <2>2. x \in l + 1 .. u - 1
    BY <1>1, <2>1
  <2>3. Le(p, p)
    <3>1. Ordered(a) /\ u - 1 \in DOMAIN a
      BY <1>4, <1>7 DEF Framed
    <3> QED BY <3>1, OrderAt
  <2>4. c[x] = p
    BY <1>6
  <2>5. NoneAbove(c, p, l, x)
    <3> SUFFICES ASSUME NEW k \in l .. x PROVE Le(c[k], p)
      BY DEF NoneAbove
    <3>1. CASE k = x
      BY <2>3, <2>4, <3>1
    <3>2. CASE k # x
      <4>1. k \in l .. x - 1 /\ k \in l .. u /\ k # u - 1
        BY <2>2, <3>2
      <4>2. c[k] = b[k] /\ Le(b[k], p)
        BY <1>6, <2>1, <3>2, <4>1 DEF NoneAbove
      <4> QED BY <4>2
    <3> QED BY <3>1, <3>2
  <2>6. NoneBelow(c, p, x, u)
    <3> SUFFICES ASSUME NEW k \in x .. u PROVE Le(p, c[k])
      BY DEF NoneBelow
    <3>1. CASE k = x
      BY <2>3, <2>4, <3>1
    <3>2. CASE k = u - 1
      BY <1>6, <2>1, <3>2
    <3>3. CASE k # x /\ k # u - 1
      <4>1. k \in y + 1 .. u /\ k \in l .. u
        BY <1>1, <1>3, <2>2
      <4>2. c[k] = b[k] /\ Le(p, b[k])
        BY <1>6, <2>1, <3>3, <4>1 DEF NoneBelow
      <4> QED BY <4>2
    <3> QED BY <3>1, <3>2, <3>3
  <2> QED BY <2>2, <2>4, <2>5, <2>6
<1> QED BY <1>4, <1>5, <1>7 DEF Parted

\* The partition after n rounds.
After(a, l, u, s, n) ==
    \/ s.place = Going /\ GoingAt(a, l, u, s.arr, s.i, s.j, n)
    \/ s.place # Going /\ Parted(a, l, u, s.arr, s.place)

LEMMA RoundIs ==
    ASSUME NEW a, NEW l \in Nat, l >= 1, NEW u \in Nat, u - l >= 3, l .. u \subseteq DOMAIN a,
           NEW s, NEW n \in Nat, After(a, l, u, s, n), NEW r, r = Round(s, a[u - 1], l, u)
    PROVE  After(a, l, u, r, n + 1)
<1>1. CASE s.place # Going
  <2>1. r = s
    BY <1>1 DEF Round
  <2> QED BY <1>1, <2>1 DEF After
<1>2. CASE s.place = Going
  <2> PICK b, i, j : b = s.arr /\ i = s.i /\ j = s.j
    OBVIOUS
  <2>1. GoingAt(a, l, u, b, i, j, n)
    BY <1>2 DEF After
  <2> PICK x : x = Up(b, i, a[u - 1], u)
    OBVIOUS
  <2> PICK y : y = Down(b, j, a[u - 1], l)
    OBVIOUS
  <2>2. r = IF x = 0 \/ y = 0 THEN At(b, i, j, 0)
            ELSE IF y < x THEN At(Exchange(b, u - 1, x), x, y, x)
            ELSE At(Exchange(b, x, y), x, y, Going)
    BY <1>2 DEF Round
  <2>3. CASE x = 0 \/ y = 0
    <3>1. r.place = 0 /\ r.arr = b
      BY <2>2, <2>3 DEF At
    <3>2. ~ Framed(a, l, u)
      <4>1. SUFFICES ASSUME Framed(a, l, u) PROVE FALSE
        OBVIOUS
      <4>2. i \in Nat /\ x \in i + 1 .. u - 1 /\ y \in l .. j - 1
        BY <2>1, <4>1, ScansAre DEF GoingAt
      <4> QED BY <2>3, <4>2
    <3>3. Reordered(a, b, l, u)
      BY <2>1 DEF GoingAt
    <3>4. Parted(a, l, u, r.arr, r.place)
      BY <3>1, <3>2, <3>3 DEF Parted
    <3>5. r.place # Going
      BY <3>1 DEF Going
    <3> QED BY <3>4, <3>5 DEF After
  <2>4. CASE x # 0 /\ y # 0 /\ y < x
    <3>1. r.place = x /\ r.arr = Exchange(b, u - 1, x)
      BY <2>2, <2>4 DEF At
    <3>2. Parted(a, l, u, r.arr, x)
      BY <2>1, <2>4, <3>1, RoundEnds
    <3>3. x # Going
      BY <3>2 DEF Parted, Going
    <3> QED BY <3>1, <3>2, <3>3 DEF After
  <2>5. CASE x # 0 /\ y # 0 /\ ~ y < x
    <3>1. r.place = Going /\ r.arr = Exchange(b, x, y) /\ r.i = x /\ r.j = y
      BY <2>2, <2>5 DEF At
    <3>2. GoingAt(a, l, u, r.arr, x, y, n + 1)
      BY <2>1, <2>5, <3>1, RoundGoes
    <3> QED BY <3>1, <3>2 DEF After
  <2> QED BY <2>3, <2>4, <2>5
<1> QED BY <1>1, <1>2

\* The loop of the partition as a function of the rounds: there is one.
Rounds(a, l, u, n, f) ==
    f = [m \in 0 .. n |-> IF m = 0 THEN At(a, l, u - 1, Going) ELSE Round(f[m - 1], a[u - 1], l, u)]

LEMMA RoundsExist == \A a, l, u : \A k \in Nat : \E f : Rounds(a, l, u, k, f)
<1> SUFFICES ASSUME NEW a, NEW l, NEW u PROVE \A k \in Nat : \E f : Rounds(a, l, u, k, f)
  OBVIOUS
<1> DEFINE U == {n \in Nat : \E f : Rounds(a, l, u, n, f)}
<1> PICK z : z = At(a, l, u - 1, Going)
  OBVIOUS
<1> PICK p : p = a[u - 1]
  OBVIOUS
<1>1. 0 \in U
  <2>1. \A m \in 0 .. 0 : m = 0
    OBVIOUS
  <2>2. Rounds(a, l, u, 0, [m \in 0 .. 0 |-> z])
    BY <2>1 DEF Rounds
  <2> QED BY <2>2
<1>2. ASSUME NEW n \in U PROVE n + 1 \in U
  <2>1. PICK f : Rounds(a, l, u, n, f)
    OBVIOUS
  <2> DEFINE g == [m \in 0 .. n + 1 |-> IF m = n + 1 THEN Round(f[n], p, l, u) ELSE f[m]]
  <2>2. \A m \in 0 .. n : f[m] = IF m = 0 THEN z ELSE Round(f[m - 1], p, l, u)
    BY <2>1 DEF Rounds
  <2>3. \A m \in 0 .. n + 1 : g[m] = IF m = 0 THEN z ELSE Round(g[m - 1], p, l, u)
    <3> TAKE m \in 0 .. n + 1
    <3>1. CASE m = n + 1
      <4>1. m # 0 /\ m - 1 = n /\ n \in 0 .. n + 1 /\ n # n + 1
        BY <3>1
      <4> QED BY <3>1, <4>1
    <3>2. CASE m # n + 1
      <4>1. m \in 0 .. n /\ (m # 0 => m - 1 \in 0 .. n + 1 /\ m - 1 # n + 1)
        BY <3>2
      <4> QED BY <2>2, <3>2, <4>1
    <3> QED BY <3>1, <3>2
  <2>4. g = [m \in 0 .. n + 1 |-> g[m]]
    OBVIOUS
  <2> HIDE DEF g
  <2>5. g = [m \in 0 .. n + 1 |-> IF m = 0 THEN z ELSE Round(g[m - 1], p, l, u)]
    BY <2>3, <2>4
  <2>6. Rounds(a, l, u, n + 1, g)
    BY <2>5 DEF Rounds
  <2> QED BY <2>6
<1> HIDE DEF U
<1>3. U = Nat
  <2>1. U \subseteq Nat
    BY DEF U
  <2> QED BY <1>1, <1>2, <2>1, Induction
<1> QED BY <1>3 DEF U

\* The partition exchanges at most half the range, so it ends; and as it should.
LEMMA PartitionIs ==
    ASSUME NEW a, NEW l \in Nat, l >= 1, NEW u \in Nat, u - l >= 3, l .. u \subseteq DOMAIN a,
           NEW p, p = Partition(a, l, u)
    PROVE  Parted(a, l, u, p.arr, p.place)
<1> PICK d \in Nat : d = u - l
  OBVIOUS
<1>1. PICK f : Rounds(a, l, u, d, f) /\ p = f[d]
  <2> DEFINE E(g) == Rounds(a, l, u, d, g)
             c == CHOOSE g : E(g)
  <2>1. E(c)
    <3>1. \E g : E(g)
      BY RoundsExist
    <3> HIDE DEF E
    <3> QED BY <3>1, Zenon
  <2>2. p = c[d]
    BY DEF Partition, Rounds
  <2> QED BY <2>1, <2>2
<1> PICK z : z = At(a, l, u - 1, Going)
  OBVIOUS
<1>2. \A n \in 0 .. d : f[n] = IF n = 0 THEN z ELSE Round(f[n - 1], a[u - 1], l, u)
  BY <1>1 DEF Rounds
<1>3. \A n \in Nat : n + 1 <= d => n + 1 \in 0 .. d /\ n + 1 # 0 /\ (n + 1) - 1 = n
  OBVIOUS
<1>4. f[0] = z /\ \A n \in Nat : n + 1 <= d => f[n + 1] = Round(f[n], a[u - 1], l, u)
  <2>1. 0 \in 0 .. d
    OBVIOUS
  <2> QED BY <1>2, <1>3, <2>1
<1> DEFINE U == {n \in Nat : n <= d => After(a, l, u, f[n], n)}
<1>5. 0 \in U
  <2>1. z.place = Going /\ z.arr = a /\ z.i = l /\ z.j = u - 1
    BY DEF At
  <2>2. ASSUME Framed(a, l, u) PROVE NoneAbove(a, a[u - 1], l, l) /\ NoneBelow(a, a[u - 1], u - 1, u)
    <3>1. Ordered(a) /\ Le(a[l], a[u - 1]) /\ Le(a[u - 1], a[u]) /\ u - 1 \in DOMAIN a
      BY <2>2 DEF Framed
    <3>2. Le(a[u - 1], a[u - 1])
      BY <3>1, OrderAt
    <3>3. (\A k \in l .. l : k = l) /\ (\A k \in u - 1 .. u : k = u - 1 \/ k = u)
      OBVIOUS
    <3> QED BY <3>1, <3>2, <3>3 DEF NoneAbove, NoneBelow
  <2>3. /\ l \in Nat /\ u - 1 \in Nat /\ l + 0 <= l /\ l <= u - 1 /\ (u - 1) + 0 <= u - 1
        /\ l < u - 1
    OBVIOUS
  <2>4. Reordered(a, a, l, u)
    BY ReorderedSelf
  <2>5. GoingAt(a, l, u, a, l, u - 1, 0)
    BY <2>2, <2>3, <2>4 DEF GoingAt
  <2>6. After(a, l, u, z, 0)
    BY <2>1, <2>5 DEF After
  <2> QED BY <1>4, <2>6
<1>6. ASSUME NEW n \in U PROVE n + 1 \in U
  <2> SUFFICES ASSUME n + 1 <= d PROVE After(a, l, u, f[n + 1], n + 1)
    OBVIOUS
  <2>1. n \in Nat /\ After(a, l, u, f[n], n)
    OBVIOUS
  <2> HIDE DEF U
  <2> PICK s : s = f[n]
    OBVIOUS
  <2> PICK r : r = f[n + 1]
    OBVIOUS
  <2>2. r = Round(s, a[u - 1], l, u)
    BY <1>4, <2>1
  <2>3. After(a, l, u, s, n)
    BY <2>1
  <2>4. After(a, l, u, r, n + 1)
    BY <2>1, <2>2, <2>3, RoundIs
  <2> QED BY <2>4
<1> HIDE DEF U
<1>7. d \in U
  <2>1. U \subseteq Nat
    BY DEF U
  <2> QED BY <1>5, <1>6, <2>1, Induction
<1>8. After(a, l, u, p, d)
  BY <1>1, <1>7 DEF U
<1>9. \A i, j : ~ GoingAt(a, l, u, p.arr, i, j, d)
  BY DEF GoingAt
<1> QED BY <1>8, <1>9 DEF After

\* The ends and the middle, as far as the range has them.
Prepared(a, l, u) ==
    LET e == IF l < u THEN Ends(a, l, u) ELSE a
    IN  IF u - l >= 2 THEN Median(e, l, u) ELSE e

LEMMA PreparedIs ==
    ASSUME NEW a, NEW l \in Nat, NEW u \in Nat, l .. u \subseteq DOMAIN a,
           NEW c, c = Prepared(a, l, u), NEW m, m = (l + u) \div 2
    PROVE  /\ Reordered(a, c, l, u)
           /\ Ordered(a) /\ u - l = 1 => Le(c[l], c[u])
           /\ Ordered(a) /\ u - l >= 2 => m \in l + 1 .. u - 1 /\ Le(c[l], c[m]) /\ Le(c[m], c[u])
<1> PICK e : e = IF l < u THEN Ends(a, l, u) ELSE a
  OBVIOUS
<1> c = IF u - l >= 2 THEN Median(e, l, u) ELSE e
  BY DEF Prepared
<1>1. CASE ~ l < u
  <2>1. c = a /\ ~ u - l = 1 /\ ~ u - l >= 2
    BY <1>1
  <2> QED BY <2>1, ReorderedSelf
<1>2. CASE l < u
  <2>1. l \in DOMAIN a /\ u \in DOMAIN a /\ l \in l .. u /\ u \in l .. u
    BY <1>2
  <2>2. Reordered(a, e, l, u) /\ (Ordered(a) => Le(e[l], e[u]))
    BY <1>2, <2>1, EndsIs
  <2>3. (Ordered(e) <=> Ordered(a)) /\ DOMAIN e = DOMAIN a
    BY <2>2, OrderedStays, ReorderedValues
  <2>4. CASE ~ u - l >= 2
    BY <2>2, <2>4
  <2>5. CASE u - l >= 2
    <3>1. l .. u \subseteq DOMAIN e /\ c = Median(e, l, u)
      BY <2>3, <2>5
    <3>2. /\ m \in l + 1 .. u - 1 /\ Reordered(e, c, l, u)
          /\ Ordered(e) /\ Le(e[l], e[u]) => Le(c[l], c[m]) /\ Le(c[m], c[u])
      BY <2>5, <3>1, MedianIs
    <3>3. Reordered(a, c, l, u)
      BY <2>2, <3>2, ReorderedTwice
    <3>4. ~ u - l = 1
      BY <2>5
    <3> QED BY <2>2, <2>3, <3>2, <3>3, <3>4
  <2> QED BY <2>4, <2>5
<1> QED BY <1>1, <1>2

\* Afterwards two elements of the range are in order or in the same half.
In(r, k) == r[1] <= k /\ k <= r[2]
Together(rs, p, q) == \E n \in DOMAIN rs : In(rs[n], p) /\ In(rs[n], q)
InOrder(a, rs, l, u) == \A p, q \in l .. u : p < q => Le(a[p], a[q]) \/ Together(rs, p, q)

\* A range of at most three elements is in order at once,
LEMMA ShortIs ==
    ASSUME NEW a, NEW l \in Nat, NEW u \in Nat, l .. u \subseteq DOMAIN a, u - l <= 2, Ordered(a)
    PROVE  InOrder(Prepared(a, l, u), <<>>, l, u)
<1> PICK c : c = Prepared(a, l, u)
  OBVIOUS
<1> PICK m : m = (l + u) \div 2
  OBVIOUS
<1>1. /\ Reordered(a, c, l, u)
      /\ u - l = 1 => Le(c[l], c[u])
      /\ u - l >= 2 => m \in l + 1 .. u - 1 /\ Le(c[l], c[m]) /\ Le(c[m], c[u])
  BY PreparedIs
<1>2. Ordered(c) /\ DOMAIN c = DOMAIN a
  BY <1>1, OrderedStays, ReorderedValues
<1>3. SUFFICES ASSUME NEW p \in l .. u, NEW q \in l .. u, p < q PROVE Le(c[p], c[q])
  BY DEF InOrder
<1>4. CASE u - l = 1
  <2>1. p = l /\ q = u
    BY <1>3, <1>4
  <2> QED BY <1>1, <1>4, <2>1
<1>5. CASE u - l = 2
  <2>1. m = l + 1 /\ u = l + 2 /\ u - l >= 2
    BY <1>5
  <2>2. l \in l .. u /\ m \in l .. u /\ u \in l .. u
    BY <2>1
  <2>3. l \in DOMAIN c /\ m \in DOMAIN c /\ u \in DOMAIN c
    BY <1>2, <2>2
  <2>4. Le(c[l], c[m]) /\ Le(c[m], c[u])
    BY <1>1, <2>1
  <2>5. Le(c[l], c[u])
    BY <1>2, <2>3, <2>4, OrderAt
  <2>6. (p = l /\ q = m) \/ (p = l /\ q = u) \/ (p = m /\ q = u)
    BY <1>3, <2>1
  <2> QED BY <2>4, <2>5, <2>6
<1>6. u - l = 1 \/ u - l = 2
  BY <1>3
<1> QED BY <1>4, <1>5, <1>6

\* and a longer one is split by the pivot.
Split(a, l, u) == Partition(Exchange(Prepared(a, l, u), (l + u) \div 2, u - 1), l, u)
IsSplit(a, l, u, b, i) ==
    /\ i \in {0} \union l + 1 .. u /\ Reordered(a, b, l, u)
    /\ Ordered(a) => i # 0 /\ InOrder(b, Halves(l, u, i), l, u)

LEMMA SplitIs ==
    ASSUME NEW a, NEW l \in Nat, NEW u \in Nat, l >= 1, l .. u \subseteq DOMAIN a, ~ u - l <= 2
    PROVE  IsSplit(a, l, u, Split(a, l, u).arr, Split(a, l, u).place)
<1> PICK c : c = Prepared(a, l, u)
  OBVIOUS
<1> PICK s : s = Split(a, l, u)
  OBVIOUS
<1> PICK b, i : b = s.arr /\ i = s.place
  OBVIOUS
<1> PICK m : m = (l + u) \div 2
  OBVIOUS
<1>1. /\ Reordered(a, c, l, u)
      /\ Ordered(a) => Le(c[l], c[m]) /\ Le(c[m], c[u])
  BY PreparedIs
<1>2. m \in l + 1 .. u - 2 /\ m \in l .. u /\ u - 1 \in l .. u /\ l \in l .. u /\ u \in l .. u /\ u - l >= 3
      /\ l # m /\ l # u - 1 /\ u # m /\ u # u - 1
  OBVIOUS
<1> PICK d : d = Exchange(c, m, u - 1)
  OBVIOUS
<1>3. Exchanged(c, d, m, u - 1) /\ Reordered(a, d, l, u) /\ DOMAIN c = DOMAIN a
  BY <1>1, <1>2, ReorderedFurther, ReorderedValues
<1>4. d[u - 1] = c[m] /\ d[l] = c[l] /\ d[u] = c[u] /\ DOMAIN d = DOMAIN a
  <2>1. l \in DOMAIN c /\ u \in DOMAIN c
    BY <1>2, <1>3
  <2> QED BY <1>2, <1>3, <2>1 DEF Exchanged
<1>5. Ordered(d) <=> Ordered(a)
  BY <1>3, OrderedStays
<1>6. Ordered(a) => Framed(d, l, u)
  BY <1>1, <1>4, <1>5 DEF Framed
<1>7. Parted(d, l, u, b, i)
  <2>1. s = Partition(d, l, u) /\ l .. u \subseteq DOMAIN d
    BY <1>4 DEF Split
  <2> QED BY <1>2, <2>1, PartitionIs
<1>8. i \in {0} \union l + 1 .. u /\ Reordered(d, b, l, u)
  BY <1>7 DEF Parted
<1>9. Reordered(a, b, l, u)
  BY <1>3, <1>8, ReorderedTwice
<1>10. ASSUME Ordered(a) PROVE i # 0 /\ InOrder(b, Halves(l, u, i), l, u)
  <2>1. i \in l + 1 .. u - 1 /\ NoneAbove(b, b[i], l, i) /\ NoneBelow(b, b[i], i, u)
    BY <1>6, <1>7, <1>10 DEF Parted
  <2>2. Ordered(b) /\ DOMAIN b = DOMAIN a
    BY <1>9, <1>10, OrderedStays, ReorderedValues
  <2>3. SUFFICES ASSUME NEW p \in l .. u, NEW q \in l .. u, p < q
                 PROVE  Le(b[p], b[q]) \/ Together(Halves(l, u, i), p, q)
    BY <2>1 DEF InOrder
  <2>4. CASE p <= i /\ i <= q
    <3>1. Le(b[p], b[i]) /\ Le(b[i], b[q])
      BY <2>1, <2>4 DEF NoneAbove, NoneBelow
    <3>2. p \in DOMAIN b /\ q \in DOMAIN b /\ i \in l .. u
      BY <2>1, <2>2
    <3>3. i \in DOMAIN b
      BY <2>2, <3>2
    <3> QED BY <2>2, <3>1, <3>2, <3>3, OrderAt
  <2>5. CASE ~ (p <= i /\ i <= q)
    <3>1. \/ In(<<l, i - 1>>, p) /\ In(<<l, i - 1>>, q)
          \/ In(<<i + 1, u>>, p) /\ In(<<i + 1, u>>, q)
      BY <2>1, <2>3, <2>5 DEF In
    <3>2. \/ Halves(l, u, i) = <<<<l, i - 1>>, <<i + 1, u>>>>
          \/ Halves(l, u, i) = <<<<i + 1, u>>, <<l, i - 1>>>>
      BY DEF Halves
    <3> QED BY <3>1, <3>2 DEF Together
  <2> QED BY <2>4, <2>5
<1> QED BY <1>8, <1>9, <1>10 DEF IsSplit

-----------------------------------------------------------------------------
(* table.sort: the ranges that are left. *)

\* Ranges between l and u that do not meet.
Inside(rs, l, u) ==
    /\ rs \in Seq(Nat \X Nat)
    /\ \A n \in DOMAIN rs : l <= rs[n][1] /\ rs[n][2] <= u
    /\ \A m, n \in DOMAIN rs : \A k \in Nat : In(rs[m], k) /\ In(rs[n], k) => m = n

LEMMA HalvesAre ==
    ASSUME NEW l \in Nat, l >= 1, NEW u \in Nat, NEW i \in l + 1 .. u
    PROVE  Inside(Halves(l, u, i), l, u)
<1> PICK x : x = <<l, i - 1>>
  OBVIOUS
<1> PICK y : y = <<i + 1, u>>
  OBVIOUS
<1> PICK rs : rs = Halves(l, u, i)
  OBVIOUS
<1>1. rs = <<x, y>> \/ rs = <<y, x>>
  BY DEF Halves
<1>2. /\ x \in Nat \X Nat /\ l <= x[1] /\ x[2] <= u
      /\ y \in Nat \X Nat /\ l <= y[1] /\ y[2] <= u
  OBVIOUS
<1>3. \A k \in Nat : ~ (In(x, k) /\ In(y, k))
  BY DEF In
<1>4. rs \in Seq(Nat \X Nat) /\ DOMAIN rs = 1 .. 2 /\ ((rs[1] = x /\ rs[2] = y) \/ (rs[1] = y /\ rs[2] = x))
  <2>1. CASE rs = <<x, y>>
    BY <1>2, <2>1
  <2>2. CASE rs = <<y, x>>
    BY <1>2, <2>2
  <2> QED BY <1>1, <2>1, <2>2
<1>5. \A n \in DOMAIN rs : n = 1 \/ n = 2
  BY <1>4
<1>6. ASSUME NEW m \in DOMAIN rs, NEW n \in DOMAIN rs, NEW k \in Nat, In(rs[m], k), In(rs[n], k)
      PROVE  m = n
  BY <1>3, <1>4, <1>5, <1>6
<1> QED BY <1>2, <1>4, <1>5, <1>6 DEF Inside

\* A step replaces the first range by parts of it.
Carries(rs, parts, new) ==
    /\ \A p, q : Together(parts, p, q) => Together(new, p, q)
    /\ \A n \in 2 .. Len(rs) : \A p, q : In(rs[n], p) /\ In(rs[n], q) => Together(new, p, q)
Replaces(N, rs, parts, new) ==
    /\ rs # <<>> /\ Inside(rs, 1, N) /\ Inside(parts, rs[1][1], rs[1][2])
    /\ new = parts \o Tail(rs)

LEMMA ReplacedIs ==
    ASSUME NEW N \in Nat, NEW rs, NEW parts, NEW new, Replaces(N, rs, parts, new)
    PROVE  Inside(new, 1, N) /\ Carries(rs, parts, new)
<1> PICK l, u : l = rs[1][1] /\ u = rs[1][2]
  OBVIOUS
<1> rs # <<>> /\ Inside(rs, 1, N) /\ Inside(parts, l, u) /\ new = parts \o Tail(rs)
  BY DEF Replaces
<1> PICK R : R = Nat \X Nat
  OBVIOUS
<1>1. rs \in Seq(R) /\ parts \in Seq(R) /\ Tail(rs) \in Seq(R)
  BY HeadTailProperties DEF Inside
<1> PICK K \in Nat : K = Len(rs)
  BY <1>1, LenProperties
<1> PICK L \in Nat : L = Len(parts)
  BY <1>1
<1>2. K >= 1 /\ Len(Tail(rs)) = K - 1 /\ \A n \in 1 .. K - 1 : Tail(rs)[n] = rs[n + 1]
  BY <1>1, HeadTailProperties
<1>3. /\ new \in Seq(R) /\ Len(new) = L + (K - 1)
      /\ \A n \in 1 .. L + (K - 1) : new[n] = IF n <= L THEN parts[n] ELSE Tail(rs)[n - L]
  BY <1>1, <1>2, ConcatProperties
<1>4. DOMAIN new = 1 .. L + (K - 1) /\ DOMAIN parts = 1 .. L /\ DOMAIN rs = 1 .. K
  BY <1>1, <1>3
<1>5. \A n \in 1 .. L : n \in DOMAIN new /\ new[n] = parts[n]
  BY <1>2, <1>3, <1>4
<1>6. \A n \in 2 .. K : n + L - 1 \in DOMAIN new /\ new[n + L - 1] = rs[n]
  <2> SUFFICES ASSUME NEW n \in 2 .. K PROVE n + L - 1 \in DOMAIN new /\ new[n + L - 1] = rs[n]
    OBVIOUS
  <2> PICK x : x = n + L - 1
    OBVIOUS
  <2>1. x \in 1 .. L + (K - 1) /\ ~ x <= L /\ x - L = n - 1 /\ n - 1 \in 1 .. K - 1 /\ (n - 1) + 1 = n
    BY <1>2
  <2>2. new[x] = Tail(rs)[n - 1]
    BY <1>3, <2>1
  <2>3. Tail(rs)[n - 1] = rs[(n - 1) + 1]
    BY <1>2, <2>1
  <2> QED BY <1>4, <2>1, <2>2, <2>3
<1>7. ASSUME NEW n \in DOMAIN new
      PROVE  \/ n \in 1 .. L
             \/ \E m \in 2 .. K : n = m + L - 1
  <2>1. CASE n <= L
    BY <1>4, <2>1
  <2>2. CASE ~ n <= L
    <3>1. n - L + 1 \in 2 .. K /\ n = (n - L + 1) + L - 1
      BY <1>2, <1>4, <2>2
    <3> QED BY <3>1
  <2> QED BY <2>1, <2>2
<1>8. 1 \in DOMAIN rs /\ rs[1] \in R /\ l \in Nat /\ u \in Nat /\ 1 <= l /\ u <= N
  <2>1. 1 \in DOMAIN rs
    BY <1>2, <1>4
  <2>2. rs[1] \in R
    BY <1>1, <1>2, ElementOfSeq
  <2> QED BY <2>1, <2>2 DEF Inside
<1>9. \A n \in 1 .. L : parts[n] \in R /\ l <= parts[n][1] /\ parts[n][2] <= u
  BY <1>1, <1>4, ElementOfSeq DEF Inside
<1>10. \A n \in 1 .. K : rs[n] \in R /\ 1 <= rs[n][1] /\ rs[n][2] <= N
  BY <1>1, <1>4, ElementOfSeq DEF Inside
<1>11. ASSUME NEW n \in DOMAIN new PROVE 1 <= new[n][1] /\ new[n][2] <= N
  <2>1. CASE n \in 1 .. L
    <3>1. new[n] = parts[n]
      BY <1>5, <2>1
    <3> QED BY <1>8, <1>9, <2>1, <3>1
  <2>2. CASE n \notin 1 .. L
    <3>1. PICK m \in 2 .. K : n = m + L - 1
      BY <1>7, <2>2
    <3>2. new[n] = rs[m]
      BY <1>6, <3>1
    <3> QED BY <1>10, <3>2
  <2> QED BY <2>1, <2>2
<1>12. ASSUME NEW m \in DOMAIN new, NEW n \in DOMAIN new, NEW k \in Nat, In(new[m], k), In(new[n], k)
       PROVE  m = n
  <2>1. ASSUME NEW x \in 1 .. L, NEW y \in 2 .. K, In(parts[x], k), In(rs[y], k) PROVE FALSE
    <3>1. In(rs[1], k)
      BY <1>8, <1>9, <2>1 DEF In
    <3>2. 1 \in DOMAIN rs /\ y \in DOMAIN rs /\ y # 1
      BY <1>4, <1>8
    <3> QED BY <2>1, <3>1, <3>2 DEF Inside
  <2>2. CASE m \in 1 .. L
    <3>1. n \in 1 .. L
      BY <1>5, <1>6, <1>7, <1>12, <2>1, <2>2
    <3> QED BY <1>4, <1>5, <1>12, <2>2, <3>1 DEF Inside
  <2>3. CASE m \notin 1 .. L
    <3>1. PICK x \in 2 .. K : m = x + L - 1
      BY <1>7, <2>3
    <3>2. In(rs[x], k)
      BY <1>6, <1>12, <3>1
    <3>3. n \notin 1 .. L
      BY <1>5, <1>12, <2>1, <3>2
    <3>4. PICK y \in 2 .. K : n = y + L - 1
      BY <1>7, <3>3
    <3>5. In(rs[y], k)
      BY <1>6, <1>12, <3>4
    <3>6. x \in DOMAIN rs /\ y \in DOMAIN rs
      BY <1>4
    <3>7. x = y
      BY <3>2, <3>5, <3>6 DEF Inside
    <3> QED BY <3>1, <3>4, <3>7
  <2> QED BY <2>2, <2>3
<1>13. Inside(new, 1, N)
  BY <1>3, <1>11, <1>12 DEF Inside
<1>14. \A p, q : Together(parts, p, q) => Together(new, p, q)
  BY <1>4, <1>5 DEF Together
<1>15. \A n \in 2 .. Len(rs) : \A p, q : In(rs[n], p) /\ In(rs[n], q) => Together(new, p, q)
  BY <1>6 DEF Together
<1> QED BY <1>13, <1>14, <1>15 DEF Carries

\* The order between the ranges stays.
LEMMA StaysInOrder ==
    ASSUME NEW N \in Nat, NEW rs, NEW parts, NEW new, Replaces(N, rs, parts, new),
           NEW a, DOMAIN a = 1 .. N, NEW b, Reordered(a, b, rs[1][1], rs[1][2]),
           InOrder(a, rs, 1, N), InOrder(b, parts, rs[1][1], rs[1][2])
    PROVE  InOrder(b, new, 1, N)
<1> PICK l, u : l = rs[1][1] /\ u = rs[1][2]
  OBVIOUS
<1> rs # <<>> /\ Inside(rs, 1, N) /\ Inside(parts, l, u) /\ new = parts \o Tail(rs)
  BY DEF Replaces
<1> Reordered(a, b, l, u) /\ InOrder(b, parts, l, u)
  OBVIOUS
<1>1. /\ \A p, q : Together(parts, p, q) => Together(new, p, q)
      /\ \A n \in 2 .. Len(rs) : \A p, q : In(rs[n], p) /\ In(rs[n], q) => Together(new, p, q)
  <2>1. Carries(rs, parts, new)
    BY ReplacedIs, Zenon
  <2> QED BY <2>1 DEF Carries
<1>2. 1 \in DOMAIN rs /\ DOMAIN rs = 1 .. Len(rs) /\ Len(rs) \in Nat /\ l \in Nat /\ u \in Nat /\ 1 <= l /\ u <= N
  <2>1. rs \in Seq(Nat \X Nat)
    BY DEF Inside
  <2>2. 1 \in DOMAIN rs /\ DOMAIN rs = 1 .. Len(rs) /\ Len(rs) \in Nat
    BY <2>1
  <2>3. rs[1] \in Nat \X Nat
    BY <2>1, <2>2, ElementOfSeq
  <2> QED BY <2>2, <2>3 DEF Inside
<1>3. /\ \A i \in 1 .. N : i \notin l .. u => b[i] = a[i]
      /\ \A i \in 1 .. N : i \in l .. u => \E j \in 1 .. N : j \in l .. u /\ b[i] = a[j]
  <2>1. MovedWithin(a, b, l, u)
    BY ReorderedMoves, Zenon
  <2> QED BY <2>1 DEF MovedWithin
<1>4. \A k \in Nat, n \in DOMAIN rs : k \in l .. u /\ In(rs[n], k) => n = 1
  <2> TAKE k \in Nat, n \in DOMAIN rs
  <2>1. k \in l .. u => In(rs[1], k)
    BY <1>2 DEF In
  <2> QED BY <1>2, <2>1 DEF Inside
<1>5. \A k \in Nat : In(rs[1], k) => k \in l .. u
  BY <1>2 DEF In
<1> SUFFICES ASSUME NEW p \in 1 .. N, NEW q \in 1 .. N, p < q PROVE Le(b[p], b[q]) \/ Together(new, p, q)
  BY DEF InOrder
<1>6. ASSUME NEW x \in 1 .. N, NEW y \in 1 .. N, x < y, x \notin l .. u \/ y \notin l .. u
      PROVE  \/ Le(a[x], a[y])
             \/ x \notin l .. u /\ y \notin l .. u /\ Together(new, x, y)
  <2> SUFFICES ASSUME ~ Le(a[x], a[y]) PROVE x \notin l .. u /\ y \notin l .. u /\ Together(new, x, y)
    OBVIOUS
  <2>1. PICK n \in DOMAIN rs : In(rs[n], x) /\ In(rs[n], y)
    BY <1>6 DEF InOrder, Together
  <2>2. n # 1
    BY <1>5, <1>6, <2>1
  <2>3. x \notin l .. u /\ y \notin l .. u
    BY <1>4, <2>1, <2>2
  <2>4. n \in 2 .. Len(rs)
    BY <1>2, <2>2
  <2> QED BY <1>1, <2>1, <2>3, <2>4
<1>7. CASE p \in l .. u /\ q \in l .. u
  BY <1>1, <1>7 DEF InOrder
<1>8. CASE p \in l .. u /\ q \notin l .. u
  <2>1. PICK j \in 1 .. N : j \in l .. u /\ b[p] = a[j]
    BY <1>3, <1>8
  <2>2. ~ q <= u
    BY <1>2, <1>8
  <2>3. j < q
    BY <1>2, <2>1, <2>2
  <2>4. b[q] = a[q]
    BY <1>3, <1>8
  <2> QED BY <1>6, <1>8, <2>1, <2>3, <2>4
<1>9. CASE p \notin l .. u /\ q \in l .. u
  <2>1. PICK j \in 1 .. N : j \in l .. u /\ b[q] = a[j]
    BY <1>3, <1>9
  <2>2. ~ l <= p
    BY <1>2, <1>9
  <2>3. p < j
    BY <1>2, <2>1, <2>2
  <2>4. b[p] = a[p]
    BY <1>3, <1>9
  <2> QED BY <1>6, <1>9, <2>1, <2>3, <2>4
<1>10. CASE p \notin l .. u /\ q \notin l .. u
  <2>1. b[p] = a[p] /\ b[q] = a[q]
    BY <1>3, <1>10
  <2> QED BY <1>6, <1>10, <2>1
<1> QED BY <1>7, <1>8, <1>9, <1>10

\* The invariant: the ranges do not meet and, for an order, two elements are in order
\* unless one range holds them both.
SortedSoFar(a, rs, bad) ==
    \E N \in Nat : /\ DOMAIN a = 1 .. N /\ Inside(rs, 1, N)
                   /\ Ordered(a) => ~ bad /\ InOrder(a, rs, 1, N)
SortInv == SortedSoFar(arr, ranges, invalid)

\* It holds at the call of sort,
LEMMA SortInvStarts ==
    ASSUME NEW values, NEW a \in Seq(values), NEW order, SortStarts(a, order)
    PROVE  SortInv
<1> PICK N \in Nat : N = Len(a)
  OBVIOUS
<1> PICK r : r = <<1, N>>
  OBVIOUS
<1>1. arr = a /\ DOMAIN a = 1 .. N /\ ranges = <<r>> /\ r \in Nat \X Nat /\ ~ invalid
  BY DEF SortStarts, WholeTable
<1>2. ranges \in Seq(Nat \X Nat) /\ DOMAIN ranges = 1 .. 1 /\ ranges[1] = r
  BY <1>1
<1>3. Inside(ranges, 1, N)
  BY <1>2 DEF Inside
<1>4. \A p, q \in 1 .. N : Together(ranges, p, q)
  BY <1>2 DEF Together, In
<1> QED BY <1>1, <1>3, <1>4 DEF SortInv, SortedSoFar, InOrder


\* The first range lies in the table.
LEMMA RangeIs ==
    ASSUME NEW N \in Nat, NEW rs, rs # <<>>, Inside(rs, 1, N)
    PROVE  rs[1][1] \in Nat /\ rs[1][2] \in Nat /\ 1 <= rs[1][1] /\ rs[1][2] <= N
<1>1. rs \in Seq(Nat \X Nat) /\ 1 \in DOMAIN rs
  BY DEF Inside
<1>2. rs[1] \in Nat \X Nat
  BY <1>1, ElementOfSeq
<1> QED BY <1>1, <1>2 DEF Inside

\* What a step does to the first range.
Does(a, rs, b, parts, bad) ==
    /\ Inside(parts, rs[1][1], rs[1][2]) /\ Reordered(a, b, rs[1][1], rs[1][2])
    /\ Ordered(a) => ~ bad /\ InOrder(b, parts, rs[1][1], rs[1][2])

\* Such a step keeps the invariant.
LEMMA StepKeeps ==
    ASSUME NEW a, NEW rs, NEW v, SortedSoFar(a, rs, v), rs # <<>>,
           NEW b, NEW parts, NEW bad, Does(a, rs, b, parts, bad)
    PROVE  SortedSoFar(b, parts \o Tail(rs), bad)
<1> PICK new : new = parts \o Tail(rs)
  OBVIOUS
<1>1. PICK N \in Nat : /\ DOMAIN a = 1 .. N /\ Inside(rs, 1, N)
                       /\ Ordered(a) => ~ v /\ InOrder(a, rs, 1, N)
  BY DEF SortedSoFar
<1>2. Replaces(N, rs, parts, new)
  BY <1>1 DEF Replaces, Does
<1>3. Inside(new, 1, N)
  BY <1>2, ReplacedIs, Zenon
<1>4. Reordered(a, b, rs[1][1], rs[1][2])
  BY DEF Does
<1>5. DOMAIN b = 1 .. N /\ (Ordered(b) <=> Ordered(a))
  BY <1>1, <1>4, ReorderedValues, OrderedStays
<1>6. ASSUME Ordered(a) PROVE ~ bad /\ InOrder(b, new, 1, N)
  <2>1. InOrder(a, rs, 1, N)
    BY <1>1, <1>6
  <2>2. ~ bad /\ InOrder(b, parts, rs[1][1], rs[1][2])
    BY <1>6 DEF Does
  <2>3. InOrder(b, new, 1, N)
    BY <1>1, <1>2, <1>4, <2>1, <2>2, StaysInOrder, Zenon
  <2> QED BY <2>2, <2>3
<1> QED BY <1>3, <1>5, <1>6 DEF SortedSoFar


\* A short range is done,
LEMMA ShortDoes ==
    ASSUME NEW a, NEW rs, NEW bad, SortedSoFar(a, rs, bad), rs # <<>>,
           NEW l, l = rs[1][1], NEW u, u = rs[1][2], u - l <= 2
    PROVE  Does(a, rs, Prepared(a, l, u), <<>>, bad)
<1> PICK c : c = Prepared(a, l, u)
  OBVIOUS
<1>1. PICK N \in Nat : /\ DOMAIN a = 1 .. N /\ Inside(rs, 1, N)
                       /\ Ordered(a) => ~ bad
  BY DEF SortedSoFar
<1>2. l \in Nat /\ u \in Nat /\ l .. u \subseteq DOMAIN a
  <2>1. l \in Nat /\ u \in Nat /\ 1 <= l /\ u <= N
    BY <1>1, RangeIs
  <2> QED BY <1>1, <2>1
<1>3. Reordered(a, c, l, u)
  BY <1>2, PreparedIs
<1>4. ASSUME Ordered(a) PROVE ~ bad /\ InOrder(c, <<>>, l, u)
  BY <1>1, <1>2, <1>4, ShortIs
<1>5. Inside(<<>>, l, u)
  BY DEF Inside
<1> QED BY <1>3, <1>4, <1>5 DEF Does

\* a long one leaves its halves, or the error.
LEMMA LongDoes ==
    ASSUME NEW a, NEW rs, NEW v, SortedSoFar(a, rs, v), rs # <<>>,
           NEW l, l = rs[1][1], NEW u, u = rs[1][2], ~ u - l <= 2,
           NEW b, b = Split(a, l, u).arr, NEW i, i = Split(a, l, u).place
    PROVE  /\ Reordered(a, b, l, u)
           /\ i = 0 => ~ Ordered(b)
           /\ i # 0 => Does(a, rs, b, Halves(l, u, i), FALSE)
<1>1. PICK N \in Nat : DOMAIN a = 1 .. N /\ Inside(rs, 1, N)
  BY DEF SortedSoFar
<1>2. l \in Nat /\ u \in Nat /\ l >= 1 /\ l .. u \subseteq DOMAIN a
  <2>1. l \in Nat /\ u \in Nat /\ 1 <= l /\ u <= N
    BY <1>1, RangeIs
  <2> QED BY <1>1, <2>1
<1>3. IsSplit(a, l, u, b, i)
  BY <1>2, SplitIs
<1>4. i \in {0} \union l + 1 .. u /\ Reordered(a, b, l, u)
  BY <1>3 DEF IsSplit
<1>5. Ordered(b) <=> Ordered(a)
  BY <1>4, OrderedStays
<1>6. Ordered(a) => i # 0 /\ InOrder(b, Halves(l, u, i), l, u)
  BY <1>3 DEF IsSplit
<1>7. ASSUME i # 0 PROVE Does(a, rs, b, Halves(l, u, i), FALSE)
  <2>1. i \in l + 1 .. u
    BY <1>4, <1>7
  <2>2. Inside(Halves(l, u, i), l, u)
    BY <1>2, <2>1, HalvesAre
  <2> QED BY <1>4, <1>6, <2>2, Zenon DEF Does
<1> QED BY <1>4, <1>5, <1>6, <1>7

\* A step keeps the invariant and exchanges elements only.
LEMMA SortStepIs ==
    ASSUME SortInv, SortStep
    PROVE  /\ SortedSoFar(arr', ranges', invalid') /\ less' = less
           /\ Reordered(arr, arr', ranges[1][1], ranges[1][2])
<1> PICK l, u : l = ranges[1][1] /\ u = ranges[1][2]
  OBVIOUS
<1>1. SortedSoFar(arr, ranges, invalid) /\ ranges # <<>> /\ less' = less
  BY DEF SortInv, SortStep
<1>2. CASE u - l <= 2
  <2>1. arr' = Prepared(arr, l, u) /\ ranges' = Tail(ranges) /\ invalid' = invalid
    BY <1>2 DEF SortStep, Prepared
  <2>2. Does(arr, ranges, arr', <<>>, invalid')
    BY <1>1, <1>2, <2>1, ShortDoes
  <2>3. <<>> \o Tail(ranges) = Tail(ranges)
    <3>1. PICK N \in Nat : Inside(ranges, 1, N)
      BY <1>1 DEF SortedSoFar
    <3>2. Tail(ranges) \in Seq(Nat \X Nat)
      BY <1>1, <3>1, HeadTailProperties DEF Inside
    <3> QED BY <3>2, ConcatEmptySeq
  <2>4. SortedSoFar(arr', <<>> \o Tail(ranges), invalid')
    BY <1>1, <2>2, StepKeeps, Zenon
  <2> QED BY <1>1, <2>1, <2>2, <2>3, <2>4 DEF Does
<1>3. CASE ~ u - l <= 2
  <2> PICK i : i = Split(arr, l, u).place
    OBVIOUS
  <2>1. /\ arr' = Split(arr, l, u).arr
        /\ i = 0 => ranges' = <<>>
        /\ i # 0 => ranges' = Halves(l, u, i) \o Tail(ranges)
        /\ invalid' = (i = 0)
    BY <1>3 DEF SortStep, Prepared, Split
  <2>2. /\ Reordered(arr, arr', l, u)
        /\ i = 0 => ~ Ordered(arr')
        /\ i # 0 => Does(arr, ranges, arr', Halves(l, u, i), FALSE)
    BY <1>1, <1>3, <2>1, LongDoes
  <2>3. CASE i # 0
    <3>1. ranges' = Halves(l, u, i) \o Tail(ranges) /\ invalid' = FALSE
      BY <2>1, <2>3
    <3>2. SortedSoFar(arr', Halves(l, u, i) \o Tail(ranges), FALSE)
      BY <1>1, <2>2, <2>3, StepKeeps, Zenon
    <3> QED BY <1>1, <2>2, <3>1, <3>2
  <2>4. CASE i = 0
    <3>1. PICK N \in Nat : DOMAIN arr = 1 .. N
      BY <1>1 DEF SortedSoFar
    <3>2. DOMAIN arr' = 1 .. N
      BY <2>2, <3>1, ReorderedValues
    <3>3. ranges' = <<>> /\ ~ Ordered(arr')
      BY <2>1, <2>2, <2>4
    <3>4. Inside(<<>>, 1, N)
      BY DEF Inside
    <3>5. SortedSoFar(arr', ranges', invalid')
      BY <3>2, <3>3, <3>4 DEF SortedSoFar
    <3> QED BY <1>1, <2>2, <3>5
  <2> QED BY <2>3, <2>4
<1> QED BY <1>2, <1>3

\* At the end, with no range left, every two elements are in order.
LEMMA SortInvIsRight ==
    ASSUME SortInv
    PROVE  SortRight
<1>1. PICK N \in Nat : /\ DOMAIN arr = 1 .. N
                       /\ Ordered(arr) => ~ invalid /\ InOrder(arr, ranges, 1, N)
  BY DEF SortInv, SortedSoFar
<1> SUFFICES ASSUME WeakOrder(less, {arr[i] : i \in DOMAIN arr}) PROVE ~ invalid /\ (ranges = <<>> => Sorted)
  BY DEF SortRight
<1>2. ~ invalid /\ InOrder(arr, ranges, 1, N)
  BY <1>1 DEF Ordered, ValuesOf
<1>3. ASSUME ranges = <<>> PROVE Sorted
  <2>1. \A p, q : ~ Together(ranges, p, q)
    BY <1>3 DEF Together
  <2>2. \A p, q \in 1 .. N : p < q => Le(arr[p], arr[q])
    BY <1>2, <2>1 DEF InOrder
  <2> QED BY <1>1, <2>2 DEF Sorted, Le
<1> QED BY <1>2, <1>3

\* and after every step.
LEMMA SortInvStays == SortInv /\ [SortStep]_sortvars => SortInv'
<1> SUFFICES ASSUME SortInv, [SortStep]_sortvars PROVE SortInv'
  OBVIOUS
<1>1. SortedSoFar(arr', ranges', invalid') /\ less' = less
  <2>1. CASE SortStep
    BY <2>1, SortStepIs
  <2>2. CASE UNCHANGED sortvars
    BY <2>2 DEF sortvars, SortInv
  <2> QED BY <2>1, <2>2
<1> QED BY <1>1 DEF SortInv, SortedSoFar, Ordered, InOrder, Le

\* For every table and every order function that answers as a strict weak order,
\* table.sort raises no error and ends with the table sorted.
THEOREM SortsRight == ASSUME NEW CONSTANT Values PROVE Sort(Values) => []SortRight
<1>1. ASSUME NEW a \in Seq(Values), NEW order PROVE SortStarts(a, order) => SortInv
  BY SortInvStarts
<1>2. (\E a \in Seq(Values), order \in SUBSET (Values \X Values) : SortStarts(a, order)) => SortInv
  BY <1>1
<1>3. SortInv => SortRight
  BY SortInvIsRight
<1> QED BY <1>2, <1>3, SortInvStays, PTL DEF Sort

\* Whatever the order function answers, a step of the sort only exchanges elements: none
\* is lost and none is doubled, also when the sort ends with an error.
Permuted == \E f : /\ f \in [DOMAIN arr -> DOMAIN arr]
                   /\ \A i, j \in DOMAIN arr : f[i] = f[j] => i = j
                   /\ \A j \in DOMAIN arr : \E i \in DOMAIN arr : f[i] = j
                   /\ DOMAIN arr' = DOMAIN arr /\ \A i \in DOMAIN arr : arr'[i] = arr[f[i]]

THEOREM SortPermutes == ASSUME NEW CONSTANT Values PROVE Sort(Values) => [][Permuted]_sortvars
<1>1. ASSUME NEW a \in Seq(Values), NEW order PROVE SortStarts(a, order) => SortInv
  BY SortInvStarts
<1>2. (\E a \in Seq(Values), order \in SUBSET (Values \X Values) : SortStarts(a, order)) => SortInv
  BY <1>1
<1>3. SortInv /\ [SortStep]_sortvars => [Permuted]_sortvars
  <2> SUFFICES ASSUME SortInv, SortStep PROVE Permuted
    OBVIOUS
  <2> PICK l, u : l = ranges[1][1] /\ u = ranges[1][2]
    OBVIOUS
  <2>1. PICK f : Rearranged(arr, arr', l, u, f)
    BY SortStepIs DEF Reordered
  <2> QED BY <2>1 DEF Rearranged, Permuted
<1> QED BY <1>2, <1>3, SortInvStays, PTL DEF Sort
=============================================================================
