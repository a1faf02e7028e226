-------------------------- MODULE ContainersProofs --------------------------
(***************************************************************************)
(* The containers of common-src and the tables of socket.lua, proved for   *)
(* any capacity and any contents.                                          *)
(*                                                                         *)
(* Linked lists: hashid.h and hashmap.h both thread their nodes on one     *)
(* list per bucket.  What a node put in front or taken out makes of such a *)
(* list is proved once for both.                                           *)
(*                                                                         *)
(* The id table: hashid.h keeps the promise of module IdTable on which the *)
(* gateway is built.  What has to be known beside the types is what each   *)
(* chain is (IsChain): a list without repetitions of exactly the nodes of  *)
(* its bucket.                                                             *)
(*                                                                         *)
(* The hash map: MapInv says the same of its chains.  What ValuesOf reads  *)
(* off a chain is one text per node, put in a row; so a node put in front  *)
(* is a push, and the first match taken out is a pop.                      *)
(*                                                                         *)
(* The databuffer: StreamInv says how the bytes of a peer are shared out   *)
(* between the frames delivered, the header that has been read, the chunks *)
(* that wait and the wire, and that size, offset and pool agree with them. *)
(*                                                                         *)
(* The tables of socket.lua: what finds a socket, and that neither the     *)
(* collector nor the callbacks can make the library use a C socket that    *)
(* was freed, unless the program makes one of the three calls of misuse.   *)
(* A socket keeps its entry only while no failed one, whose field fd keeps *)
(* the number, shares it (NumbersApart); closing a socket that has the     *)
(* metatable frees it once, because freeing takes the metatable away       *)
(* (FreedHasNoMeta); and the socket of the callback is open until the      *)
(* callback itself meddles with it (CallbackOpen).                         *)
(***************************************************************************)
EXTENDS MCContainers, SeqLemmas, FiniteSetTheorems

-----------------------------------------------------------------------------
(* Linked lists. *)

\* From p on the links of succ lead through n nodes, all of X, each once, to nil:
\* c is what a walk comes to, link by link.
Linked(p, succ, X, c, n, nil) ==
    /\ n \in Nat
    /\ p = c[0]
    /\ \A i \in Nat : i < n => c[i] \in X /\ succ[c[i]] = c[i + 1]
    /\ \A i \in Nat : ~ i < n => c[i] = nil
    /\ \A i, j \in Nat : i < j /\ j < n => c[i] # c[j]
    /\ \A s \in X : \E i \in Nat : i < n /\ c[i] = s

\* A node is put in front.
LEMMA LinkedPush ==
    ASSUME NEW p, NEW succ, NEW X, NEW c, NEW n, NEW nil, Linked(p, succ, X, c, n, nil),
           NEW s, s \notin X, NEW t, t[s] = p, \A x \in X : t[x] = succ[x],
           NEW d, d = [k \in Nat |-> IF k = 0 THEN s ELSE c[k - 1]]
    PROVE  Linked(s, t, X \cup {s}, d, n + 1, nil)
<1>1. d[0] = s /\ n \in Nat /\ n + 1 \in Nat
  BY DEF Linked
<1>2. \A k \in Nat : k + 1 \in Nat /\ d[k + 1] = c[k] /\ (k + 1 < n + 1 <=> k < n)
  BY <1>1
<1>3. \A k \in Nat : k = 0 \/ \E j \in Nat : k = j + 1
  <2> SUFFICES ASSUME NEW k \in Nat, k # 0 PROVE \E j \in Nat : k = j + 1
    OBVIOUS
  <2>1. k - 1 \in Nat /\ k = (k - 1) + 1
    OBVIOUS
  <2> QED BY <2>1
<1>4. \A k \in Nat : k < n => c[k] # s
  BY DEF Linked
<1>5. PICK e : e = d
  OBVIOUS
<1>6. e[0] = s /\ \A k \in Nat : k + 1 \in Nat /\ e[k + 1] = c[k] /\ (k + 1 < n + 1 <=> k < n)
  BY <1>1, <1>2, <1>5
<1>7. ASSUME NEW k \in Nat, k < n + 1
      PROVE  e[k] \in X \cup {s} /\ t[e[k]] = e[k + 1]
  <2>1. CASE k = 0
    <3>1. e[k] = s /\ e[k + 1] = c[0]
      BY <1>6, <2>1
    <3> QED BY <3>1 DEF Linked
  <2>2. ASSUME NEW j \in Nat, k = j + 1 PROVE e[k] \in X \cup {s} /\ t[e[k]] = e[k + 1]
    <3>1. j < n /\ e[k] = c[j] /\ e[k + 1] = c[j + 1]
      BY <1>6, <1>7, <2>2
    <3>2. c[j] \in X /\ succ[c[j]] = c[j + 1]
      BY <3>1 DEF Linked
    <3> QED BY <3>1, <3>2
  <2> QED BY <1>3, <2>1, <2>2
<1>8. ASSUME NEW k \in Nat, ~ k < n + 1 PROVE e[k] = nil
  <2>1. k # 0
    BY <1>1, <1>8
  <2>2. PICK j \in Nat : k = j + 1
    BY <1>3, <2>1
  <2>3. e[k] = c[j] /\ ~ j < n
    BY <1>6, <1>8, <2>2
  <2> QED BY <2>3 DEF Linked
<1>9. ASSUME NEW k \in Nat, NEW l \in Nat, k < l, l < n + 1 PROVE e[k] # e[l]
  <2>1. l # 0
    BY <1>9
  <2>2. PICK j \in Nat : l = j + 1
    BY <1>3, <2>1
  <2>3. e[l] = c[j] /\ j < n
    BY <1>6, <1>9, <2>2
  <2>4. CASE k = 0
    BY <1>4, <1>6, <2>3, <2>4
  <2>5. ASSUME NEW g \in Nat, k = g + 1 PROVE e[k] # e[l]
    <3>1. e[k] = c[g] /\ g < j
      BY <1>6, <1>9, <2>2, <2>5
    <3> QED BY <2>3, <3>1 DEF Linked
  <2> QED BY <1>3, <2>4, <2>5
<1>10. ASSUME NEW x \in X \cup {s} PROVE \E i \in Nat : i < n + 1 /\ e[i] = x
  <2>1. CASE x = s
    <3>1. 0 < n + 1
      BY <1>1
    <3> QED BY <1>6, <2>1, <3>1
  <2>2. CASE x \in X
    <3>1. PICK i \in Nat : i < n /\ c[i] = x
      BY <2>2 DEF Linked
    <3> QED BY <1>6, <3>1
  <2> QED BY <2>1, <2>2
<1>11. Linked(s, t, X \cup {s}, e, n + 1, nil)
  BY <1>1, <1>6, <1>7, <1>8, <1>9, <1>10 DEF Linked
<1> QED BY <1>5, <1>11

\* Node m is taken out: its predecessor, or the pointer to the list, gets its
\* successor.
Dropped(p, succ, X, c, n, nil, m, q, t) ==
    /\ Linked(p, succ, X, c, n, nil)
    /\ m \in Nat /\ m < n
    /\ q = IF m = 0 THEN c[1] ELSE p
    /\ m # 0 => t[c[m - 1]] = c[m + 1]
    /\ \A x \in X : x # c[m] /\ (m # 0 => x # c[m - 1]) => t[x] = succ[x]
Except(c, m) == [k \in Nat |-> IF k < m THEN c[k] ELSE c[k + 1]]

LEMMA LinkedDrop ==
    ASSUME NEW p, NEW succ, NEW X, NEW c, NEW n, NEW nil, NEW m, NEW q, NEW t,
           Dropped(p, succ, X, c, n, nil, m, q, t)
    PROVE  Linked(q, t, X \ {c[m]}, Except(c, m), n - 1, nil)
<1> SUFFICES ASSUME Linked(p, succ, X, c, n, nil), m \in Nat, m < n,
                    q = (IF m = 0 THEN c[1] ELSE p), m # 0 => t[c[m - 1]] = c[m + 1],
                    \A x \in X : x # c[m] /\ (m # 0 => x # c[m - 1]) => t[x] = succ[x],
                    NEW d, d = [k \in Nat |-> IF k < m THEN c[k] ELSE c[k + 1]]
             PROVE  Linked(q, t, X \ {c[m]}, d, n - 1, nil)
  BY DEF Dropped, Except
<1>1. \A k \in Nat : (k < m => d[k] = c[k]) /\ (~ k < m => d[k] = c[k + 1])
  OBVIOUS
<1>2. PICK e : e = d
  OBVIOUS
<1>3. \A k \in Nat : (k < m => e[k] = c[k]) /\ (~ k < m => e[k] = c[k + 1])
  BY <1>1, <1>2
<1>4. n \in Nat /\ n - 1 \in Nat
  BY DEF Linked
<1>5. \A k \in Nat : k < n => c[k] \in X /\ (k # m => c[k] # c[m])
  <2>1. \A k \in Nat : k # m => k < m \/ m < k
    OBVIOUS
  <2> QED BY <2>1 DEF Linked
<1>6. m # 0 => m - 1 \in Nat /\ m - 1 < n /\ m - 1 # m
  BY <1>4
<1>7. q = e[0]
  <2>1. CASE m = 0
    BY <1>3, <2>1
  <2>2. CASE m # 0
    BY <1>3, <2>2 DEF Linked
  <2> QED BY <2>1, <2>2
<1>8. ASSUME NEW k \in Nat, k < n - 1
      PROVE  e[k] \in X \ {c[m]} /\ t[e[k]] = e[k + 1]
  <2>1. CASE k + 1 < m
    <3>1. e[k] = c[k] /\ e[k + 1] = c[k + 1] /\ k < n /\ k < m /\ k # m /\ k # m - 1 /\ m # 0
      BY <1>3, <1>4, <1>8, <2>1
    <3>2. c[k] # c[m - 1]
      <4>1. k < m - 1
        BY <2>1
      <4> QED BY <1>6, <3>1, <4>1 DEF Linked
    <3>3. c[k] \in X /\ c[k] # c[m] /\ succ[c[k]] = c[k + 1]
      BY <1>5, <3>1 DEF Linked
    <3> QED BY <3>1, <3>2, <3>3
  <2>2. CASE k + 1 = m
    <3>1. e[k] = c[m - 1] /\ e[k + 1] = c[m + 1] /\ m # 0 /\ k = m - 1
      BY <1>3, <2>2
    <3>2. c[m - 1] \in X /\ c[m - 1] # c[m]
      BY <1>5, <1>6, <3>1
    <3> QED BY <3>1, <3>2
  <2>3. CASE m < k + 1
    <3>1. e[k] = c[k + 1] /\ e[k + 1] = c[k + 1 + 1] /\ k + 1 < n /\ k + 1 # m
      BY <1>3, <1>4, <1>8, <2>3
    <3>2. c[k + 1] \in X /\ c[k + 1] # c[m] /\ succ[c[k + 1]] = c[k + 1 + 1]
      BY <1>5, <3>1 DEF Linked
    <3>3. m # 0 => c[k + 1] # c[m - 1]
      <4>1. m # 0 => m - 1 < k + 1
        BY <2>3
      <4> QED BY <1>6, <3>1, <4>1 DEF Linked
    <3> QED BY <3>1, <3>2, <3>3
  <2> QED BY <2>1, <2>2, <2>3
<1>9. ASSUME NEW k \in Nat, ~ k < n - 1 PROVE e[k] = nil
  <2>1. ~ k < m /\ ~ k + 1 < n /\ e[k] = c[k + 1] /\ k + 1 \in Nat
    BY <1>3, <1>4, <1>9
  <2> QED BY <2>1 DEF Linked
<1>10. ASSUME NEW k \in Nat, k < n - 1
       PROVE  \E j \in Nat : j < n /\ j # m /\ e[k] = c[j] /\ j = IF k < m THEN k ELSE k + 1
  BY <1>3, <1>4, <1>10
<1>11. ASSUME NEW k \in Nat, NEW l \in Nat, k < l, l < n - 1 PROVE e[k] # e[l]
  <2>1. k < n - 1
    BY <1>4, <1>11
  <2>2. PICK i \in Nat : i < n /\ e[k] = c[i] /\ i = IF k < m THEN k ELSE k + 1
    BY <1>10, <2>1
  <2>3. PICK j \in Nat : j < n /\ e[l] = c[j] /\ j = IF l < m THEN l ELSE l + 1
    BY <1>10, <1>11
  <2>4. i < j
    BY <1>11, <2>2, <2>3
  <2> QED BY <2>2, <2>3, <2>4 DEF Linked
<1>12. ASSUME NEW x \in X \ {c[m]} PROVE \E k \in Nat : k < n - 1 /\ e[k] = x
  <2>1. PICK j \in Nat : j < n /\ c[j] = x
    BY DEF Linked
  <2>2. j # m
    BY <2>1
  <2>3. CASE j < m
    <3>1. j < n - 1
      BY <1>4, <2>3
    <3> QED BY <1>3, <2>1, <2>3, <3>1
  <2>4. CASE m < j
    <3>1. j - 1 \in Nat /\ j - 1 < n - 1 /\ ~ j - 1 < m /\ (j - 1) + 1 = j
      BY <1>4, <2>1, <2>4
    <3> QED BY <1>3, <2>1, <3>1
  <2> QED BY <2>2, <2>3, <2>4
<1>13. Linked(q, t, X \ {c[m]}, e, n - 1, nil)
  BY <1>4, <1>7, <1>8, <1>9, <1>11, <1>12 DEF Linked
<1> QED BY <1>2, <1>13

\* A list has no more nodes than there are.
LEMMA LinkedFits ==
    ASSUME NEW p, NEW succ, NEW X, NEW c, NEW n, NEW nil, Linked(p, succ, X, c, n, nil),
           IsFiniteSet(X), NEW b \in Nat, Cardinality(X) <= b
    PROVE  n <= b
<1>1. n \in Nat
  BY DEF Linked
<1> DEFINE f == [i \in 0 .. n - 1 |-> c[i]]
<1>2. \A i \in 0 .. n - 1 : i \in Nat /\ i < n /\ f[i] = c[i] /\ c[i] \in X
  BY <1>1 DEF Linked
<1>3. f \in Injection(0 .. n - 1, X)
  <2>1. f \in [0 .. n - 1 -> X]
    BY <1>2
  <2>2. ASSUME NEW i \in 0 .. n - 1, NEW j \in 0 .. n - 1, f[i] = f[j] PROVE i = j
    <3>1. ~ i < j /\ ~ j < i
      BY <1>2, <2>2 DEF Linked
    <3> QED BY <3>1
  <2> QED BY <2>1, <2>2 DEF Injection, IsInjective
<1> HIDE DEF f
<1>4. IsFiniteSet(0 .. n - 1) /\ Cardinality(0 .. n - 1) = n
  <2>1. n - 1 \in Int /\ 0 \in Int
    BY <1>1
  <2>2. Cardinality(0 .. n - 1) = IF 0 > n - 1 THEN 0 ELSE (n - 1) - 0 + 1
    BY <2>1, FS_Interval
  <2> QED BY <1>1, <2>1, <2>2, FS_Interval
<1>5. Cardinality(0 .. n - 1) <= Cardinality(X)
  BY <1>3, FS_Injection
<1>6. Cardinality(X) \in Nat
  BY FS_CardinalityType
<1> QED BY <1>1, <1>4, <1>5, <1>6

\* What a program that follows the links comes to.
LEMMA LinkedSteps ==
    ASSUME NEW p, NEW succ, NEW X, NEW c, NEW n, NEW nil, Linked(p, succ, X, c, n, nil), nil \notin X
    PROVE  \A m \in Nat \ {0} : IF c[m - 1] = nil THEN c[m] = nil
                                ELSE c[m - 1] \in X /\ c[m] = succ[c[m - 1]]
<1> TAKE m \in Nat \ {0}
<1>1. m - 1 \in Nat /\ m \in Nat /\ (m - 1) + 1 = m /\ n \in Nat
  BY DEF Linked
<1>2. CASE m - 1 < n
  BY <1>1, <1>2 DEF Linked
<1>3. CASE ~ m - 1 < n
  <2>1. ~ m < n
    BY <1>1, <1>3
  <2> QED BY <1>1, <1>3, <2>1 DEF Linked
<1> QED BY <1>2, <1>3

\* Two that begin and go on alike are the same.
LEMMA AlikeUpTo ==
    ASSUME NEW b \in Nat, NEW w, NEW c, w[0] = c[0],
           \A m \in 1 .. b : w[m - 1] = c[m - 1] => w[m] = c[m]
    PROVE  \A m \in 0 .. b : w[m] = c[m]
<1> DEFINE T == {m \in Nat : m <= b => w[m] = c[m]}
<1>1. T = Nat
  <2>1. 0 \in T
    OBVIOUS
  <2>2. ASSUME NEW m \in T PROVE m + 1 \in T
    <3>1. CASE m + 1 <= b
      <4>1. m + 1 \in 1 .. b /\ (m + 1) - 1 = m /\ w[m] = c[m]
        BY <3>1
      <4> QED BY <4>1
    <3>2. CASE ~ m + 1 <= b
      BY <3>2
    <3> QED BY <3>1, <3>2
  <2>3. T \subseteq Nat
    OBVIOUS
  <2> HIDE DEF T
  <2> QED BY <2>1, <2>2, <2>3, Induction
<1> SUFFICES ASSUME NEW m \in 0 .. b PROVE m \in T
  OBVIOUS
<1> QED BY <1>1

-----------------------------------------------------------------------------
(* hashcap. *)

DoubledUpTo(n, f) == f = [k \in 0 .. n |-> IF k = 0 THEN MinHash ELSE 2 * f[k - 1]]

\* The doubling of hashid_init is well defined.
LEMMA DoublingExists == \A n \in Nat : \E f : DoubledUpTo(n, f)
<1> DEFINE T == {n \in Nat : \E f : DoubledUpTo(n, f)}
<1>1. 0 \in T
  <2>1. \A k \in 0 .. 0 : k = 0
    OBVIOUS
  <2>2. DoubledUpTo(0, [k \in 0 .. 0 |-> MinHash])
    BY <2>1 DEF DoubledUpTo
  <2> QED BY <2>2
<1>2. ASSUME NEW n \in T PROVE n + 1 \in T
  <2>1. PICK f : DoubledUpTo(n, f)
    OBVIOUS
  <2> DEFINE g == [k \in 0 .. n + 1 |-> IF k = n + 1 THEN 2 * f[n] ELSE f[k]]
  <2>2. \A k \in 0 .. n : f[k] = IF k = 0 THEN MinHash ELSE 2 * f[k - 1]
    BY <2>1 DEF DoubledUpTo
  <2>3. \A k \in 0 .. n + 1 : g[k] = IF k = 0 THEN MinHash ELSE 2 * g[k - 1]
    <3> TAKE k \in 0 .. n + 1
    <3>1. CASE k = n + 1
      <4>1. k # 0 /\ k - 1 = n /\ n \in 0 .. n + 1 /\ n # n + 1
        BY <3>1
      <4> QED BY <3>1, <4>1
    <3>2. CASE k # n + 1
      <4>1. k \in 0 .. n /\ (k # 0 => k - 1 \in 0 .. n + 1 /\ k - 1 # n + 1)
        BY <3>2
      <4> QED BY <2>2, <3>2, <4>1
    <3> QED BY <3>1, <3>2
  <2>4. g = [k \in 0 .. n + 1 |-> g[k]]
    OBVIOUS
  <2> HIDE DEF g
  <2>5. DoubledUpTo(n + 1, g)
    BY <2>3, <2>4 DEF DoubledUpTo
  <2> QED BY <2>5
<1> HIDE DEF T
<1>3. T = Nat
  <2>1. T \subseteq Nat
    BY DEF T
  <2> QED BY <1>1, <1>2, <2>1, Induction
<1> QED BY <1>3 DEF T

\* hashcap is a positive number: the doubling reaches the capacity.
LEMMA HashCapType == H!HashCap \in Nat \ {0}
<1> PICK D : D = H!Doubled
  OBVIOUS
<1>1. IdSlots \in Nat \ {0} /\ MinHash \in Nat \ {0}
  BY ContainersAssumption DEF H!HashIdAssumption
<1>2. DoubledUpTo(IdSlots, D)
  <2>1. D = CHOOSE f : f = [k \in 0 .. IdSlots |-> IF k = 0 THEN MinHash ELSE 2 * f[k - 1]]
    BY DEF H!Doubled
  <2> QED BY <1>1, <2>1, DoublingExists DEF DoubledUpTo
<1>3. D[0] = MinHash /\ \A k \in 1 .. IdSlots : D[k] = 2 * D[k - 1]
  <2>1. \A k \in 0 .. IdSlots : D[k] = IF k = 0 THEN MinHash ELSE 2 * D[k - 1]
    BY <1>2 DEF DoubledUpTo
  <2>2. 0 \in 0 .. IdSlots /\ \A k \in 1 .. IdSlots : k \in 0 .. IdSlots /\ k # 0
    BY <1>1
  <2> QED BY <2>1, <2>2
<1> DEFINE T == {k \in Nat : k <= IdSlots => D[k] \in Nat /\ D[k] >= k + 1}
<1>4. T = Nat
  <2>1. 0 \in T
    BY <1>1, <1>3
  <2>2. ASSUME NEW k \in T PROVE k + 1 \in T
    <3>1. CASE k + 1 <= IdSlots
      <4>1. D[k + 1] = 2 * D[k] /\ D[k] \in Nat /\ D[k] >= k + 1
        BY <1>1, <1>3, <3>1
      <4> QED BY <4>1
    <3>2. CASE ~ k + 1 <= IdSlots
      BY <3>2
    <3> QED BY <3>1, <3>2
  <2>3. T \subseteq Nat
    OBVIOUS
  <2> HIDE DEF T
  <2> QED BY <2>1, <2>2, <2>3, Induction
<1>5. \A k \in 0 .. IdSlots : D[k] \in Nat /\ D[k] >= k + 1
  <2> SUFFICES ASSUME NEW k \in 0 .. IdSlots PROVE k \in T
    BY <1>1
  <2> QED BY <1>1, <1>4
<1> DEFINE R == {k \in 0 .. IdSlots : D[k] >= IdSlots}
<1>6. PICK k \in R : \A j \in R : k <= j
  <2>1. IdSlots \in R /\ R \subseteq Nat
    BY <1>1, <1>5
  <2> QED BY <2>1, LeastNat
<1>7. D[k] = MinHash \/ D[k] \div 2 < IdSlots
  <2>1. CASE k = 0
    BY <1>3, <2>1
  <2>2. CASE k # 0
    <3>1. k - 1 \in 0 .. IdSlots /\ k - 1 \notin R
      BY <1>1, <1>6, <2>2
    <3>2. D[k - 1] \in Nat /\ D[k - 1] < IdSlots /\ D[k] = 2 * D[k - 1]
      BY <1>1, <1>3, <1>5, <2>2, <3>1
    <3>3. \A d \in Nat : (2 * d) \div 2 = d
      OBVIOUS
    <3> QED BY <3>2, <3>3
  <2> QED BY <2>1, <2>2
<1>8. \E h \in {D[j] : j \in 0 .. IdSlots} : h >= IdSlots /\ (h = MinHash \/ h \div 2 < IdSlots)
  BY <1>6, <1>7
<1>9. H!HashCap \in {D[j] : j \in 0 .. IdSlots}
  BY <1>8 DEF H!HashCap
<1> QED BY <1>1, <1>5, <1>9

-----------------------------------------------------------------------------
(* The chains of the id table. *)

\* The nodes that belong into bucket h, and how they are linked.
Members(h) == {s \in H!Slots : id[s] # H!Free /\ H!Hash(id[s]) = h}
IsChain(h, c, n) == Linked(hash[h], next, Members(h), c, n, H!Nil)

IdsType ==
    /\ id \in [H!Slots -> Ids \cup {H!Free}]
    /\ next \in [H!Slots -> H!Slots \cup {H!Nil}]
    /\ hash \in [H!Buckets -> H!Slots \cup {H!Nil}]
    /\ count \in Int
    /\ idsLive \in BOOLEAN

FreeUnlinked == \A s \in H!Slots : id[s] = H!Free => next[s] = H!Nil
IdsOnce == \A s, t \in H!Slots : id[s] = id[t] /\ id[s] # H!Free => s = t
Chained == \A h \in H!Buckets : \E c, n : IsChain(h, c, n)

IdsInv == IdsType /\ FreeUnlinked /\ IdsOnce /\ Chained /\ H!CountExact

\* The numbers of the table, without their arithmetic.
LEMMA IdsFacts ==
    /\ H!Nil \notin H!Slots /\ H!Free = H!Nil /\ H!Free \notin Ids
    /\ H!Slots \subseteq Nat /\ 0 \in H!Slots
    /\ \A x \in Ids : x \in Nat /\ H!Hash(x) \in H!Buckets
<1>1. IdSlots \in Nat \ {0} /\ Ids \subseteq Nat
  BY ContainersAssumption DEF H!HashIdAssumption
<1>2. \A x \in Ids : H!Hash(x) \in H!Buckets
  <2> PICK m : m = H!HashCap
    OBVIOUS
  <2>1. m \in Nat \ {0}
    BY HashCapType
  <2>2. \A x \in Nat : x % m \in 0 .. m - 1
    BY <2>1
  <2> QED BY <1>1, <2>2 DEF H!Hash, H!Buckets
<1>3. -1 \notin H!Slots /\ -1 \notin Ids /\ H!Slots \subseteq Nat /\ 0 \in H!Slots
  BY <1>1 DEF H!Slots
<1> QED BY <1>1, <1>2, <1>3 DEF H!Nil, H!Free

\* What is known of a chain, node by node.
LEMMA ChainIs ==
    ASSUME NEW h, NEW c, NEW n, IsChain(h, c, n)
    PROVE  /\ n \in Nat /\ n <= IdSlots /\ hash[h] = c[0]
           /\ \A i \in Nat : i < n => /\ c[i] \in H!Slots /\ next[c[i]] = c[i + 1]
                                      /\ id[c[i]] # H!Free /\ H!Hash(id[c[i]]) = h
           /\ \A i \in Nat : ~ i < n => c[i] = H!Nil
           /\ \A i, j \in Nat : i < j /\ j < n => c[i] # c[j]
           /\ \A s \in H!Slots :
                 id[s] # H!Free /\ H!Hash(id[s]) = h <=> \E i \in Nat : i < n /\ c[i] = s
<1>1. IdSlots \in Nat \ {0}
  BY ContainersAssumption DEF H!HashIdAssumption
<1>2. IsFiniteSet(H!Slots) /\ Cardinality(H!Slots) = IdSlots
  <2>1. IdSlots - 1 \in Int /\ (0 <= IdSlots - 1) /\ IdSlots - 1 - 0 + 1 = IdSlots
    BY <1>1
  <2>2. IsFiniteSet(0 .. IdSlots - 1) /\ Cardinality(0 .. IdSlots - 1) = IdSlots
    BY <1>1, <2>1, FS_Interval
  <2> QED BY <2>2 DEF H!Slots
<1>3. IsFiniteSet(Members(h)) /\ Cardinality(Members(h)) <= IdSlots
  <2>1. Members(h) \subseteq H!Slots
    BY DEF Members
  <2> QED BY <1>2, <2>1, FS_Subset
<1>4. n <= IdSlots
  BY <1>1, <1>3, LinkedFits DEF IsChain
<1> QED BY <1>4 DEF IsChain, Linked, Members

\* A walk of a bucket comes to the nodes of its chain, and then to no more.
LEMMA WalkIsChain ==
    ASSUME NEW h, NEW c, NEW n, IsChain(h, c, n)
    PROVE  \A m \in 0 .. IdSlots : H!Walk(h)[m] = c[m]
<1> DEFINE at == [m \in 0 .. IdSlots |-> c[m]]
           E(f) == f = [m \in 0 .. IdSlots |->
                          IF m = 0 THEN hash[h]
                          ELSE IF f[m - 1] = H!Nil THEN H!Nil ELSE next[f[m - 1]]]
<1>1. IdSlots \in Nat /\ c[0] = hash[h]
  BY ContainersAssumption, ChainIs DEF H!HashIdAssumption
<1>2. \A m \in Nat \ {0} : c[m] = IF c[m - 1] = H!Nil THEN H!Nil ELSE next[c[m - 1]]
  <2>1. H!Nil \notin Members(h)
    BY IdsFacts DEF Members
  <2>2. \A m \in Nat \ {0} : IF c[m - 1] = H!Nil THEN c[m] = H!Nil
                            ELSE c[m - 1] \in Members(h) /\ c[m] = next[c[m - 1]]
    BY <2>1, LinkedSteps DEF IsChain
  <2> QED BY <2>2
<1>3. E(at)
  <2>1. \A m \in 0 .. IdSlots :
          at[m] = IF m = 0 THEN hash[h]
                  ELSE IF at[m - 1] = H!Nil THEN H!Nil ELSE next[at[m - 1]]
    <3> TAKE m \in 0 .. IdSlots
    <3>1. m # 0 => m \in Nat \ {0} /\ m - 1 \in 0 .. IdSlots
      BY <1>1
    <3> QED BY <1>1, <1>2, <3>1
  <2>2. at = [m \in 0 .. IdSlots |-> at[m]]
    OBVIOUS
  <2> HIDE DEF at
  <2> QED BY <2>1, <2>2
<1> HIDE DEF at
<1> PICK w : w = H!Walk(h)
  OBVIOUS
<1>4. w = CHOOSE f : E(f)
  BY DEF H!Walk
<1> HIDE DEF E
<1>5. E(w)
  BY <1>3, <1>4, Zenon
<1>6. w[0] = c[0] /\ \A m \in 1 .. IdSlots : w[m - 1] = c[m - 1] => w[m] = c[m]
  <2>1. \A m \in 0 .. IdSlots :
          w[m] = IF m = 0 THEN hash[h] ELSE IF w[m - 1] = H!Nil THEN H!Nil ELSE next[w[m - 1]]
    BY <1>5 DEF E
  <2>2. 0 \in 0 .. IdSlots
        /\ \A m \in 1 .. IdSlots : m \in 0 .. IdSlots /\ m # 0 /\ m \in Nat \ {0}
    BY <1>1
  <2> QED BY <1>1, <1>2, <2>1, <2>2
<1> QED BY <1>1, <1>6, AlikeUpTo

\* What a search finds is in the chain, where it was found.
LEMMA FoundInChain ==
    ASSUME NEW h, NEW c, NEW n, IsChain(h, c, n), NEW x, NEW s, NEW m \in H!Slots,
           H!FoundAt(h, x, s, m)
    PROVE  m \in Nat /\ m < n /\ c[m] = s /\ s \in H!Slots /\ id[s] = x
<1>1. m \in Nat /\ m \in 0 .. IdSlots
  BY ContainersAssumption DEF H!Slots, H!HashIdAssumption
<1>2. c[m] = s /\ s # H!Nil /\ id[s] = x
  BY <1>1, WalkIsChain DEF H!FoundAt
<1>3. m < n
  BY <1>1, <1>2, ChainIs
<1> QED BY <1>1, <1>2, <1>3, ChainIs

\* An id that is not found is not in the table.
LEMMA LookupComplete ==
    ASSUME IdsInv, NEW x \in Ids, H!Lookup(x) = -1
    PROVE  \A s \in H!Slots : id[s] # x
<1> SUFFICES ASSUME NEW s \in H!Slots, id[s] = x PROVE FALSE
  OBVIOUS
<1> PICK h : h = H!Hash(x)
  OBVIOUS
<1>1. h \in H!Buckets /\ x # H!Free
  BY IdsFacts
<1>2. PICK c, n : IsChain(h, c, n)
  BY <1>1 DEF IdsInv, Chained
<1>3. PICK m \in Nat : m < n /\ c[m] = s
  BY <1>1, <1>2, ChainIs
<1>4. n \in Nat /\ n <= IdSlots /\ IdSlots \in Nat
  <2>1. n \in Nat
    BY <1>2, ChainIs
  <2>2. n <= IdSlots
    BY <1>2, ChainIs
  <2> QED BY <2>1, <2>2, ContainersAssumption DEF H!HashIdAssumption
<1>5. m \in H!Slots /\ m \in 0 .. IdSlots /\ \A j \in 0 .. m - 1 : j \in 0 .. IdSlots /\ j \in Nat /\ j < m /\ j < n
  BY <1>3, <1>4 DEF H!Slots
<1>6. \A j \in 0 .. IdSlots : H!Walk(h)[j] = c[j]
  BY <1>2, WalkIsChain
<1>7. \A j \in 0 .. m - 1 : id[c[j]] # x
  <2> SUFFICES ASSUME NEW j \in 0 .. m - 1 PROVE id[c[j]] # x
    OBVIOUS
  <2>1. c[j] \in H!Slots /\ c[j] # c[m]
    BY <1>2, <1>3, <1>5, ChainIs
  <2> QED BY <1>1, <1>3, <2>1 DEF IdsInv, IdsOnce
<1>8. H!FoundAt(h, x, s, m)
  BY <1>3, <1>5, <1>6, <1>7, IdsFacts DEF H!FoundAt
<1>9. H!Lookup(x) \in H!Slots
  <2>1. H!Lookup(x) = CHOOSE t \in H!Slots : \E k \in H!Slots : H!FoundAt(H!Hash(x), x, t, k)
    BY <1>5, <1>8 DEF H!Lookup
  <2> QED BY <1>5, <1>8, <2>1
<1> QED BY <1>9, IdsFacts

\* A step that touches no node of a chain and gives its bucket no other leaves it.
LEMMA ChainStays ==
    ASSUME NEW h, NEW c, NEW n, IsChain(h, c, n), hash'[h] = hash[h],
           \A i \in Nat : i < n => next'[c[i]] = next[c[i]],
           \A t \in H!Slots :
              (id'[t] # H!Free /\ H!Hash(id'[t]) = h) <=> (id[t] # H!Free /\ H!Hash(id[t]) = h)
    PROVE  IsChain(h, c, n)'
<1>1. Members(h)' = Members(h)
  BY DEF Members
<1> QED BY <1>1 DEF IsChain, Linked

\* The instance counts as this module does.
LEMMA SameCardinality == \A X : H!Cardinality(X) = Cardinality(X)
  BY DEF H!Cardinality, Cardinality, H!IsFiniteSet, IsFiniteSet

\* The nodes in use are counted.
LEMMA CountGrows ==
    ASSUME IdsInv, NEW s \in H!Slots, NEW x \in Ids, id[s] = H!Free, idsLive,
           id' = [id EXCEPT ![s] = x], count' = count + 1
    PROVE  H!CountExact'
<1> DEFINE U == {t \in H!Slots : id[t] # H!Free}
           V == {t \in H!Slots : id'[t] # H!Free}
<1>1. IsFiniteSet(H!Slots)
  <2>1. 0 \in Int /\ IdSlots - 1 \in Int
    BY ContainersAssumption DEF H!HashIdAssumption
  <2> QED BY <2>1, FS_Interval DEF H!Slots
<1>2. IsFiniteSet(U)
  BY <1>1, FS_Subset
<1>3. V = U \cup {s} /\ s \notin U
  BY IdsFacts DEF IdsInv, IdsType
<1>4. Cardinality(V) = Cardinality(U) + 1
  BY <1>2, <1>3, FS_AddElement
<1>5. count = Cardinality(U)
  BY SameCardinality DEF IdsInv, H!CountExact
<1> QED BY <1>4, <1>5, SameCardinality DEF H!CountExact

LEMMA CountShrinks ==
    ASSUME IdsInv, NEW s \in H!Slots, id[s] # H!Free, idsLive,
           id' = [id EXCEPT ![s] = H!Free], count' = count - 1
    PROVE  H!CountExact'
<1> DEFINE U == {t \in H!Slots : id[t] # H!Free}
           V == {t \in H!Slots : id'[t] # H!Free}
<1>1. IsFiniteSet(H!Slots)
  <2>1. 0 \in Int /\ IdSlots - 1 \in Int
    BY ContainersAssumption DEF H!HashIdAssumption
  <2> QED BY <2>1, FS_Interval DEF H!Slots
<1>2. IsFiniteSet(U)
  BY <1>1, FS_Subset
<1>3. V = U \ {s} /\ s \in U
  BY DEF IdsInv, IdsType
<1>4. Cardinality(V) = Cardinality(U) - 1
  BY <1>2, <1>3, FS_RemoveElement
<1>5. count = Cardinality(U)
  BY SameCardinality DEF IdsInv, H!CountExact
<1> QED BY <1>4, <1>5, SameCardinality DEF H!CountExact

\* hashid_insert puts the node at the front of its chain.
LEMMA InsertKeeps ==
    ASSUME IdsInv, NEW x \in Ids, H!Insert(x)
    PROVE  IdsInv' /\ \E s \in H!Slots : H!T!Lookup(x) = -1 /\ H!T!Insert(x, s)
<1> PICK h : h = H!Hash(x)
  OBVIOUS
<1>1. h \in H!Buckets /\ x # H!Free /\ x \in Nat
  BY IdsFacts
<1>2. \A s \in H!Slots : id[s] # x
  BY LookupComplete DEF H!Insert
<1>3. PICK i \in H!Slots :
        LET s == (i + x) % IdSlots
        IN  /\ id[s] = H!Free
            /\ \A j \in 0 .. i - 1 : id[(j + x) % IdSlots] # H!Free
            /\ id' = [id EXCEPT ![s] = x]
            /\ next' = IF hash[h] = H!Nil THEN next ELSE [next EXCEPT ![s] = hash[h]]
            /\ hash' = [hash EXCEPT ![h] = s]
  BY DEF H!Insert
<1> PICK s : s = (i + x) % IdSlots
  OBVIOUS
<1>4. s \in H!Slots /\ id[s] = H!Free /\ idsLive /\ idsLive' /\ count' = count + 1
  <2>1. IdSlots \in Nat \ {0} /\ i \in Nat
    BY IdsFacts, ContainersAssumption DEF H!HashIdAssumption
  <2>2. s \in 0 .. IdSlots - 1
    BY <1>1, <2>1
  <2> QED BY <1>3, <2>2 DEF H!Insert, H!Slots
<1>5. IdsType /\ FreeUnlinked /\ IdsOnce /\ Chained
  BY DEF IdsInv
<1>6. /\ id' = [id EXCEPT ![s] = x] /\ hash' = [hash EXCEPT ![h] = s]
      /\ next' \in [H!Slots -> H!Slots \cup {H!Nil}] /\ next'[s] = hash[h]
      /\ \A t \in H!Slots : t # s => next'[t] = next[t]
  BY <1>1, <1>3, <1>4, <1>5 DEF IdsType, FreeUnlinked
<1>7. IdsType'
  BY <1>1, <1>4, <1>5, <1>6 DEF IdsType
<1>8. FreeUnlinked'
  BY <1>1, <1>4, <1>5, <1>6 DEF IdsType, FreeUnlinked
<1>9. IdsOnce'
  BY <1>1, <1>2, <1>4, <1>5, <1>6 DEF IdsType, IdsOnce
<1>10. ASSUME NEW b \in H!Buckets PROVE (\E c, n : IsChain(b, c, n))'
  <2>1. PICK c, n : IsChain(b, c, n)
    BY <1>5 DEF Chained
  <2>2. \A t \in H!Slots : t # s => id'[t] = id[t]
    BY <1>5, <1>6 DEF IdsType
  <2>3. id'[s] = x
    BY <1>4, <1>5, <1>6 DEF IdsType
  <2>4. CASE b # h
    <3>1. hash'[b] = hash[b]
      BY <1>5, <1>6, <2>4 DEF IdsType
    <3>2. \A k \in Nat : k < n => next'[c[k]] = next[c[k]]
      <4>1. \A k \in Nat : k < n => c[k] \in H!Slots /\ id[c[k]] # H!Free
        BY <2>1, ChainIs
      <4> QED BY <1>4, <1>6, <4>1
    <3>3. \A t \in H!Slots :
             (id'[t] # H!Free /\ H!Hash(id'[t]) = b) <=> (id[t] # H!Free /\ H!Hash(id[t]) = b)
      BY <1>4, <2>2, <2>3, <2>4
    <3>4. IsChain(b, c, n)'
      BY <2>1, <3>1, <3>2, <3>3, ChainStays
    <3> QED BY <3>4
  <2>5. CASE b = h
    <3>1. s \notin Members(h) /\ \A t \in Members(h) : next'[t] = next[t]
      BY <1>4, <1>6 DEF Members
    <3>2. Linked(hash[h], next, Members(h), c, n, H!Nil)
      BY <2>1, <2>5 DEF IsChain
    <3>3. \E d : Linked(s, next', Members(h) \cup {s}, d, n + 1, H!Nil)
      BY <1>6, <3>1, <3>2, LinkedPush
    <3>4. Members(h)' = Members(h) \cup {s}
      BY <1>1, <1>4, <2>2, <2>3 DEF Members
    <3>5. hash'[h] = s
      BY <1>1, <1>5, <1>6 DEF IdsType
    <3> QED BY <2>5, <3>3, <3>4, <3>5 DEF IsChain
  <2> QED BY <2>4, <2>5
<1>11. Chained'
  <2>1. H!Buckets' = H!Buckets
    OBVIOUS
  <2> QED BY <1>10 DEF Chained
<1>12. H!CountExact'
  BY <1>4, <1>6, CountGrows
<1>13. H!T!Lookup(x) = -1
  BY <1>2 DEF H!T!Lookup, H!T!Slots, H!Slots
<1>14. H!T!Insert(x, s)
  BY <1>3, <1>4, <1>6 DEF H!T!Insert, H!Slots, H!T!Free, H!Free
<1> QED BY <1>4, <1>7, <1>8, <1>9, <1>11, <1>12, <1>13, <1>14 DEF IdsInv

\* The node at place m of a chain goes: its predecessor, or the bucket, is
\* given its successor.
Unlinked(h, c, m) ==
    /\ IF m = 0
       THEN hash' = [hash EXCEPT ![h] = next[c[0]]] /\ next' = [next EXCEPT ![c[0]] = H!Nil]
       ELSE hash' = hash /\ next' = [next EXCEPT ![c[m - 1]] = next[c[m]], ![c[m]] = H!Nil]
    /\ id' = [id EXCEPT ![c[m]] = H!Free]
    /\ count' = count - 1
    /\ UNCHANGED idsLive

LEMMA UnlinkKeeps ==
    ASSUME IdsInv, idsLive, NEW h \in H!Buckets, NEW c, NEW n, IsChain(h, c, n),
           NEW m \in Nat, m < n, Unlinked(h, c, m)
    PROVE  IdsInv'
<1> PICK s : s = c[m]
  OBVIOUS
<1>1. IdsType /\ FreeUnlinked /\ IdsOnce /\ Chained
  BY DEF IdsInv
<1>2. /\ s \in H!Slots /\ next[s] = c[m + 1] /\ id[s] # H!Free /\ H!Hash(id[s]) = h
      /\ n \in Nat
  BY ChainIs
<1>3. id' = [id EXCEPT ![s] = H!Free]
  BY DEF Unlinked
<1>4. /\ next[s] \in H!Slots \cup {H!Nil}
      /\ \A k \in Nat : k < n => c[k] \in H!Slots /\ (k # m => c[k] # s)
  <2>1. \A k \in Nat : k # m => k < m \/ m < k
    OBVIOUS
  <2> QED BY <1>1, <1>2, <2>1, ChainIs DEF IdsType
<1>5. /\ next'[s] = H!Nil
      /\ m # 0 => m - 1 \in Nat /\ m - 1 < n /\ m - 1 # m
      /\ m # 0 => next'[c[m - 1]] = c[m + 1] /\ hash' = hash
      /\ m = 0 => hash' = [hash EXCEPT ![h] = c[1]]
      /\ \A t \in H!Slots : t # s /\ (m # 0 => t # c[m - 1]) => next'[t] = next[t]
      /\ next' \in [H!Slots -> H!Slots \cup {H!Nil}]
  <2>1. CASE m = 0
    <3>1. hash' = [hash EXCEPT ![h] = next[s]] /\ next' = [next EXCEPT ![s] = H!Nil]
      BY <2>1 DEF Unlinked
    <3> QED BY <1>1, <1>2, <2>1, <3>1 DEF IdsType
  <2>2. CASE m # 0
    <3>1. m - 1 \in Nat /\ m - 1 < n /\ m - 1 # m
      BY <1>2, <2>2
    <3> PICK p : p = c[m - 1]
      OBVIOUS
    <3>2. p \in H!Slots /\ p # s
      BY <1>4, <3>1
    <3>3. hash' = hash /\ next' = [next EXCEPT ![p] = next[s], ![s] = H!Nil]
      BY <2>2 DEF Unlinked
    <3>4. /\ next'[s] = H!Nil /\ next'[p] = next[s]
          /\ \A t \in H!Slots : t # s /\ t # p => next'[t] = next[t]
      BY <1>1, <1>2, <3>2, <3>3 DEF IdsType
    <3>5. next' \in [H!Slots -> H!Slots \cup {H!Nil}]
      BY <1>1, <1>4, <3>3 DEF IdsType
    <3> QED BY <1>2, <2>2, <3>1, <3>3, <3>4, <3>5
  <2> QED BY <2>1, <2>2
<1>6. id'[s] = H!Free /\ \A t \in H!Slots : t # s => id'[t] = id[t]
  BY <1>1, <1>2, <1>3 DEF IdsType
<1>7. IdsType'
  <2>1. hash' \in [H!Buckets -> H!Slots \cup {H!Nil}]
    BY <1>1, <1>2, <1>4, <1>5 DEF IdsType
  <2>2. id' \in [H!Slots -> Ids \cup {H!Free}]
    BY <1>1, <1>3 DEF IdsType
  <2>3. count' \in Int /\ idsLive' \in BOOLEAN
    BY <1>1 DEF Unlinked, IdsType
  <2> QED BY <1>5, <2>1, <2>2, <2>3 DEF IdsType
<1>8. FreeUnlinked'
  <2> SUFFICES ASSUME NEW t \in H!Slots, id'[t] = H!Free PROVE next'[t] = H!Nil
    BY DEF FreeUnlinked
  <2>1. CASE t = s
    BY <1>5, <2>1
  <2>2. CASE t # s
    <3>1. id[t] = H!Free /\ next[t] = H!Nil
      BY <1>1, <1>6, <2>2 DEF FreeUnlinked
    <3>2. m # 0 => t # c[m - 1]
      BY <1>5, <3>1, ChainIs
    <3> QED BY <1>5, <2>2, <3>1, <3>2
  <2> QED BY <2>1, <2>2
<1>9. IdsOnce'
  BY <1>1, <1>6 DEF IdsOnce
<1>10. ASSUME NEW b \in H!Buckets, b # h PROVE (\E d, k : IsChain(b, d, k))'
  <2>1. PICK d, k : IsChain(b, d, k)
    BY <1>1 DEF Chained
  <2>2. hash'[b] = hash[b]
    BY <1>1, <1>5, <1>10 DEF IdsType
  <2>3. \A j \in Nat : j < k => d[j] \in H!Slots /\ H!Hash(id[d[j]]) = b
    BY <2>1, ChainIs
  <2>4. \A j \in Nat : j < k => d[j] # s /\ (m # 0 => d[j] # c[m - 1])
    <3>1. m # 0 => H!Hash(id[c[m - 1]]) = h
      BY <1>5, ChainIs
    <3> QED BY <1>2, <1>10, <2>3, <3>1
  <2>5. \A j \in Nat : j < k => next'[d[j]] = next[d[j]]
    BY <1>5, <2>3, <2>4
  <2>6. \A t \in H!Slots :
           (id'[t] # H!Free /\ H!Hash(id'[t]) = b) <=> (id[t] # H!Free /\ H!Hash(id[t]) = b)
    BY <1>2, <1>6, <1>10
  <2>7. IsChain(b, d, k)'
    BY <2>1, <2>2, <2>5, <2>6, ChainStays
  <2> QED BY <2>7
<1>11. (\E d, k : IsChain(h, d, k))'
  <2>1. PICK q : q = IF m = 0 THEN c[1] ELSE hash[h]
    OBVIOUS
  <2>2. Linked(hash[h], next, Members(h), c, n, H!Nil)
    BY DEF IsChain
  <2>3. \A t \in Members(h) : t # c[m] /\ (m # 0 => t # c[m - 1]) => next'[t] = next[t]
    BY <1>5 DEF Members
  <2>4. \E d : Linked(q, next', Members(h) \ {c[m]}, d, n - 1, H!Nil)
    <3>1. m # 0 => next'[c[m - 1]] = c[m + 1]
      BY <1>5
    <3>2. Dropped(hash[h], next, Members(h), c, n, H!Nil, m, q, next')
      BY <2>1, <2>2, <2>3, <3>1 DEF Dropped
    <3> QED BY <3>2, LinkedDrop
  <2>5. Members(h)' = Members(h) \ {c[m]}
    BY <1>2, <1>6 DEF Members
  <2>6. hash'[h] = q
    BY <1>1, <1>5, <2>1 DEF IdsType
  <2> QED BY <2>4, <2>5, <2>6 DEF IsChain
<1>12. Chained'
  <2>1. H!Buckets' = H!Buckets
    OBVIOUS
  <2> QED BY <1>10, <1>11 DEF Chained
<1>13. H!CountExact'
  BY <1>2, <1>3, CountShrinks DEF Unlinked
<1> QED BY <1>7, <1>8, <1>9, <1>12, <1>13 DEF IdsInv

\* hashid_remove, at the front of the chain and behind it.
LEMMA RemoveKeeps ==
    ASSUME IdsInv, NEW x \in Ids, H!RemoveFirst(x) \/ H!RemoveLater(x)
    PROVE  IdsInv' /\ \E s \in H!Slots : H!T!Remove(x, s)
<1> PICK h : h = H!Hash(x)
  OBVIOUS
<1>1. h \in H!Buckets /\ x # H!Free /\ H!Free = H!T!Free
  BY IdsFacts DEF H!Free, H!T!Free
<1>2. PICK c, n : IsChain(h, c, n)
  BY <1>1 DEF IdsInv, Chained
<1>3. n \in Nat /\ n <= IdSlots /\ IdSlots \in Nat /\ \A m \in H!Slots : m \in 0 .. IdSlots
  <2>1. n \in Nat
    BY <1>2, ChainIs
  <2>2. n <= IdSlots
    BY <1>2, ChainIs
  <2> QED BY <2>1, <2>2, ContainersAssumption DEF H!HashIdAssumption, H!Slots
<1>4. CASE H!RemoveFirst(x)
  <2>1. PICK s \in H!Slots :
          /\ H!FoundAt(h, x, s, 0)
          /\ hash' = [hash EXCEPT ![h] = next[s]]
          /\ next' = [next EXCEPT ![s] = H!Nil]
          /\ H!Forget(s)
    BY <1>4 DEF H!RemoveFirst
  <2>2. 0 < n /\ c[0] = s /\ id[s] = x
    BY <1>2, <2>1, FoundInChain, IdsFacts
  <2>3. Unlinked(h, c, 0) /\ idsLive
    BY <1>4, <2>1, <2>2 DEF Unlinked, H!Forget, H!RemoveFirst
  <2>4. IdsInv'
    BY <1>1, <1>2, <2>2, <2>3, UnlinkKeeps
  <2>5. H!T!Remove(x, s)
    BY <1>1, <2>1, <2>2 DEF H!T!Remove, H!Forget
  <2> QED BY <2>4, <2>5
<1>5. CASE H!RemoveLater(x)
  <2>1. PICK m \in H!Slots \ {0}, s \in H!Slots :
          /\ H!FoundAt(h, x, s, m)
          /\ next' = [next EXCEPT ![H!Walk(h)[m - 1]] = next[s], ![s] = H!Nil]
          /\ H!Forget(s)
    BY <1>5 DEF H!RemoveLater
  <2>2. m \in Nat /\ m < n /\ c[m] = s /\ id[s] = x
    BY <1>2, <2>1, FoundInChain
  <2>3. H!Walk(h)[m - 1] = c[m - 1]
    <3>1. m - 1 \in 0 .. IdSlots
      BY <1>3, <2>1, <2>2
    <3> QED BY <1>2, <3>1, WalkIsChain
  <2>4. Unlinked(h, c, m) /\ idsLive
    BY <1>5, <2>1, <2>2, <2>3 DEF Unlinked, H!Forget, H!RemoveLater
  <2>5. IdsInv'
    BY <1>1, <1>2, <2>2, <2>4, UnlinkKeeps
  <2>6. H!T!Remove(x, s)
    BY <1>1, <2>1, <2>2 DEF H!T!Remove, H!Forget
  <2> QED BY <2>5, <2>6
<1> QED BY <1>4, <1>5

\* Steps that leave the table alone keep what is known of it, live or cleared.
LEMMA IdsStay ==
    ASSUME IdsInv, UNCHANGED <<id, next, hash>>, count' \in Int, idsLive' \in BOOLEAN,
           idsLive' => idsLive /\ count' = count
    PROVE  IdsInv'
<1>1. IdsType' /\ FreeUnlinked' /\ IdsOnce'
  BY DEF IdsInv, IdsType, FreeUnlinked, IdsOnce
<1>2. \A h, c, n : IsChain(h, c, n) => IsChain(h, c, n)'
  BY DEF IsChain, Members, Linked
<1>3. Chained'
  <2>1. \A h \in H!Buckets : \E c, n : IsChain(h, c, n)'
    BY <1>2 DEF IdsInv, Chained
  <2> QED BY <2>1 DEF Chained
<1>4. H!CountExact'
  BY DEF IdsInv, H!CountExact
<1> QED BY <1>1, <1>3, <1>4 DEF IdsInv

LEMMA IdsStart == H!Init => IdsInv
<1> SUFFICES ASSUME H!Init PROVE IdsInv
  OBVIOUS
<1>1. IdsType /\ FreeUnlinked /\ IdsOnce
  BY DEF H!Init, IdsType, FreeUnlinked, IdsOnce
<1>2. ASSUME NEW h \in H!Buckets PROVE IsChain(h, [i \in Nat |-> H!Nil], 0)
  BY <1>2 DEF H!Init, IsChain, Members, Linked
<1>3. H!CountExact
  <2>1. {s \in H!Slots : id[s] # H!Free} = {}
    BY DEF H!Init
  <2> QED BY <2>1, SameCardinality, FS_EmptySet DEF H!Init, H!CountExact
<1> QED BY <1>1, <1>2, <1>3 DEF IdsInv, Chained

\* Every step of the table keeps the invariant and is one that IdTable promises.
LEMMA IdsStep ==
    ASSUME IdsInv, [H!Next]_idVars
    PROVE  IdsInv' /\ [H!T!TabNext]_id
<1>1. CASE UNCHANGED idVars
  BY <1>1, IdsStay DEF idVars, IdsInv, IdsType
<1>2. CASE H!Clear
  <2>1. 0 \in Int
    OBVIOUS
  <2> QED BY <1>2, <2>1, IdsStay DEF H!Clear
<1>3. H!T!Slots = H!Slots
  BY DEF H!T!Slots, H!Slots
<1>4. ASSUME NEW x \in Ids, H!Insert(x) PROVE IdsInv' /\ H!T!TabNext
  BY <1>3, <1>4, InsertKeeps DEF H!T!TabNext
<1>5. ASSUME NEW x \in Ids, H!RemoveFirst(x) \/ H!RemoveLater(x) PROVE IdsInv' /\ H!T!TabNext
  BY <1>3, <1>5, RemoveKeeps DEF H!T!TabNext
<1> QED BY <1>1, <1>2, <1>4, <1>5 DEF H!Next, H!Clear

\* The chains are what the comments and the asserts of hashid.h take them for.
LEMMA ChainsAreExact == IdsInv => IdsChained
<1> SUFFICES ASSUME IdsInv PROVE H!ChainsPartition
  BY DEF IdsChained, IdsInv
<1>1. ASSUME NEW h \in H!Buckets
      PROVE  /\ H!Walk(h)[IdSlots] = H!Nil
             /\ \A s \in H!Slots : s \in H!Chain(h) <=> id[s] # H!Free /\ H!Hash(id[s]) = h
  <2>1. PICK c, n : IsChain(h, c, n)
    BY <1>1 DEF IdsInv, Chained
  <2>2. n \in Nat /\ n <= IdSlots /\ IdSlots \in Nat
    <3>1. n \in Nat
      BY <2>1, ChainIs
    <3>2. n <= IdSlots
      BY <2>1, ChainIs
    <3> QED BY <3>1, <3>2, ContainersAssumption DEF H!HashIdAssumption
  <2>3. \A m \in 0 .. IdSlots : H!Walk(h)[m] = c[m]
    BY <2>1, WalkIsChain
  <2>4. H!Walk(h)[IdSlots] = H!Nil
    <3>1. IdSlots \in 0 .. IdSlots /\ ~ IdSlots < n
      BY <2>2
    <3> QED BY <2>1, <2>2, <2>3, <3>1, ChainIs
  <2>5. ASSUME NEW s \in H!Slots
        PROVE  s \in H!Chain(h) <=> \E i \in Nat : i < n /\ c[i] = s
    <3>1. \A m \in H!Slots : m \in 0 .. IdSlots /\ m \in Nat
      BY <2>2 DEF H!Slots
    <3>2. \A i \in Nat : i < n => i \in H!Slots
      BY <2>2 DEF H!Slots
    <3>3. s # H!Nil
      BY IdsFacts
    <3>4. \A m \in H!Slots : c[m] = s => m < n
      BY <2>1, <3>1, <3>3, ChainIs
    <3>5. s \in H!Chain(h) <=> \E m \in H!Slots : H!Walk(h)[m] = s
      BY <3>3 DEF H!Chain
    <3> QED BY <2>3, <3>1, <3>2, <3>4, <3>5
  <2> QED BY <2>1, <2>4, <2>5, ChainIs
<1> QED BY <1>1 DEF H!ChainsPartition, IdsInv, FreeUnlinked

-----------------------------------------------------------------------------
(* The theorems about the id table. *)

LEMMA IdsAlone == [AllNext]_allVars => [H!Next]_idVars
  BY DEF AllNext, allVars, idVars

\* hashid.h links each id into the chain of its hash value and nowhere else, every
\* walk of a chain ends, and count is the number of the ids, whatever is inserted
\* and removed in which order and however large the table is.
THEOREM ChainsCorrect == AllSpec => []IdsChained
<1>1. AllInit => IdsInv
  BY IdsStart DEF AllInit
<1>2. IdsInv /\ [AllNext]_allVars => IdsInv'
  BY IdsStep, IdsAlone
<1> QED BY <1>1, <1>2, ChainsAreExact, PTL DEF AllSpec

\* hashid.h keeps the promise of module IdTable, on which module Gateway and its
\* theorems are built: each of its steps is a step of that table, or none.
THEOREM IdTableImplemented == AllSpec => ImplementsIdTable
<1>1. AllInit => IdsInv /\ H!T!TabInit
  BY IdsStart DEF AllInit, H!Init, H!T!TabInit, H!Slots, H!T!Slots, H!Free, H!T!Free
<1>2. IdsInv /\ [AllNext]_allVars => IdsInv' /\ [H!T!TabNext]_id
  BY IdsStep, IdsAlone
<1> QED BY <1>1, <1>2, PTL DEF AllSpec, ImplementsIdTable, H!ImplementsIdTable, H!T!TabSpec
-----------------------------------------------------------------------------
(* The hash map.  The walks and searches of HashMap are stated here for any *)
(* buckets nd and any heap hp, so that they can be read before and after a  *)
(* step.                                                                    *)

WalkFrom(p, hp) ==
    LET at[m \in 0 .. MapNodes] ==
            IF m = 0 THEN p ELSE IF at[m - 1] = M!Null THEN M!Null ELSE hp[at[m - 1]].next
    IN  at

IsOf(e, k) == e.hash = HashOf[k] /\ e.name = NameOf[k]

FoundFrom(p, hp, k, m) ==
    /\ WalkFrom(p, hp)[m] # M!Null /\ IsOf(hp[WalkFrom(p, hp)[m]], k)
    /\ \A j \in 0 .. m - 1 : ~ IsOf(hp[WalkFrom(p, hp)[j]], k)

PlacesFrom(p, hp, k) == {m \in 0 .. MapNodes : FoundFrom(p, hp, k, m)}

AnyOf(places) == CHOOSE m \in places : TRUE

SearchFrom(p, hp, k) ==
    IF PlacesFrom(p, hp, k) = {} THEN M!NotFound
    ELSE hp[WalkFrom(p, hp)[AnyOf(PlacesFrom(p, hp, k))]].value

ValuesAlong(at, hp, k) ==
    LET from[m \in 0 .. MapNodes + 1] ==
            IF m > MapNodes \/ at[m] = M!Null THEN <<>>
            ELSE (IF IsOf(hp[at[m]], k) THEN <<hp[at[m]].value>> ELSE <<>>) \o from[m + 1]
    IN  from[0]

ValuesFrom(p, hp, k) == ValuesAlong(WalkFrom(p, hp), hp, k)

\* They are those of HashMap.
LEMMA MapReads ==
    /\ \A b : M!Walk(b) = WalkFrom(node[b], heap)
    /\ \A k, m : M!FoundAt(k, m) <=> FoundFrom(node[M!Bucket(k)], heap, k, m)
    /\ \A k : M!Found(k) = PlacesFrom(node[M!Bucket(k)], heap, k)
    /\ \A k : M!Search(k) = SearchFrom(node[M!Bucket(k)], heap, k)
    /\ \A k : M!Search(k)' = SearchFrom(node'[M!Bucket(k)], heap', k)
    /\ \A k : M!ValuesOf(k) = ValuesFrom(node[M!Bucket(k)], heap, k)
    /\ \A k : M!ValuesOf(k)' = ValuesFrom(node'[M!Bucket(k)], heap', k)
<1>1. /\ \A b : M!Walk(b) = WalkFrom(node[b], heap)
      /\ \A b : M!Walk(b)' = WalkFrom(node'[b], heap')
  BY DEF M!Walk, WalkFrom
<1>2. /\ \A n, k : M!Is(n, k) <=> IsOf(heap[n], k)
      /\ \A n, k : M!Is(n, k)' <=> IsOf(heap'[n], k)
  BY DEF M!Is, IsOf
<1>3. /\ \A k, m : M!FoundAt(k, m) <=> FoundFrom(node[M!Bucket(k)], heap, k, m)
      /\ \A k, m : M!FoundAt(k, m)' <=> FoundFrom(node'[M!Bucket(k)], heap', k, m)
  BY <1>1, <1>2 DEF M!FoundAt, FoundFrom
<1>4. /\ \A k : M!Found(k) = PlacesFrom(node[M!Bucket(k)], heap, k)
      /\ \A k : M!Found(k)' = PlacesFrom(node'[M!Bucket(k)], heap', k)
  BY <1>3 DEF M!Found, PlacesFrom
<1>5. /\ \A k : M!Search(k) = SearchFrom(node[M!Bucket(k)], heap, k)
      /\ \A k : M!Search(k)' = SearchFrom(node'[M!Bucket(k)], heap', k)
  <2>1. /\ \A k : M!Search(k) = IF M!Found(k) = {} THEN M!NotFound
                                 ELSE heap[M!Walk(M!Bucket(k))[AnyOf(M!Found(k))]].value
        /\ \A k : M!Search(k)' = IF M!Found(k)' = {} THEN M!NotFound
                                 ELSE heap'[M!Walk(M!Bucket(k))'[AnyOf(M!Found(k)')]].value
    BY DEF M!Search, AnyOf
  <2> QED BY <1>1, <1>4, <2>1 DEF SearchFrom, AnyOf
<1>6. /\ \A k : M!ValuesOf(k) = ValuesFrom(node[M!Bucket(k)], heap, k)
      /\ \A k : M!ValuesOf(k)' = ValuesFrom(node'[M!Bucket(k)], heap', k)
  <2>1. /\ \A k : M!ValuesOf(k) = ValuesAlong(M!Walk(M!Bucket(k)), heap, k)
        /\ \A k : M!ValuesOf(k)' = ValuesAlong(M!Walk(M!Bucket(k))', heap', k)
    BY DEF M!ValuesOf, ValuesAlong, M!Is, IsOf
  <2> QED BY <1>1, <2>1 DEF ValuesFrom
<1> QED BY <1>1, <1>3, <1>4, <1>5, <1>6

\* The nodes of bucket b, and how they are linked.
InBucket(hp, b) == {x \in DOMAIN hp : hp[x].hash % MapSize = b}
Links(hp) == [x \in DOMAIN hp |-> hp[x].next]
MapChain(nd, hp, b, c, n) == Linked(nd[b], Links(hp), InBucket(hp, b), c, n, M!Null)

NodeType ==
    [next : 0 .. MapNodes, name : {NameOf[k] : k \in Keys}, hash : Nat, value : MapValues]

MapGood(nd, hp) ==
    /\ DOMAIN hp \subseteq 1 .. MapNodes
    /\ \A x \in DOMAIN hp : hp[x] \in NodeType
    /\ nd \in [0 .. MapSize - 1 -> 0 .. MapNodes]
    /\ \A b \in 0 .. MapSize - 1 : \E c, n : MapChain(nd, hp, b, c, n)

MapInv == state = "live" => MapGood(node, heap)

LEMMA MapFacts ==
    /\ MapSize \in Nat \ {0} /\ MapNodes \in Nat /\ M!Null = 0
    /\ \A k \in Keys : HashOf[k] \in Nat /\ M!Bucket(k) \in 0 .. MapSize - 1
<1>1. MapSize \in Nat \ {0} /\ MapNodes \in Nat /\ \A k \in Keys : HashOf[k] \in Nat
  BY ContainersAssumption DEF M!HashMapAssumption
<1>2. \A x \in Nat : x % MapSize \in 0 .. MapSize - 1
  BY <1>1
<1> QED BY <1>1, <1>2 DEF M!Bucket, M!Null

\* What is known of a chain, node by node, and what a walk of it comes to.
LEMMA MapChainIs ==
    ASSUME NEW nd, NEW hp, MapGood(nd, hp), NEW b, NEW c, NEW n, MapChain(nd, hp, b, c, n)
    PROVE  /\ n \in Nat /\ n <= MapNodes /\ nd[b] = c[0]
           /\ \A i \in Nat : i < n => /\ c[i] \in DOMAIN hp /\ hp[c[i]].next = c[i + 1]
                                      /\ hp[c[i]].hash % MapSize = b /\ c[i] # M!Null
           /\ \A i \in Nat : ~ i < n => c[i] = M!Null
           /\ \A i, j \in Nat : i < j /\ j < n => c[i] # c[j]
           /\ \A x \in DOMAIN hp : hp[x].hash % MapSize = b => \E i \in Nat : i < n /\ c[i] = x
           /\ \A m \in 0 .. MapNodes : WalkFrom(nd[b], hp)[m] = c[m]
<1>1. MapNodes \in Nat /\ M!Null = 0 /\ DOMAIN hp \subseteq 1 .. MapNodes
  BY MapFacts DEF MapGood
<1>2. Linked(nd[b], Links(hp), InBucket(hp, b), c, n, M!Null)
  BY DEF MapChain
<1>3. n \in Nat /\ n <= MapNodes
  <2>1. InBucket(hp, b) \subseteq 1 .. MapNodes
    BY <1>1 DEF InBucket
  <2>2. IsFiniteSet(1 .. MapNodes) /\ Cardinality(1 .. MapNodes) = MapNodes
    <3>1. 1 \in Int /\ MapNodes \in Int /\ (IF 1 > MapNodes THEN 0 ELSE MapNodes - 1 + 1) = MapNodes
      BY <1>1
    <3> QED BY <3>1, FS_Interval
  <2>3. IsFiniteSet(InBucket(hp, b)) /\ Cardinality(InBucket(hp, b)) <= MapNodes
    BY <2>1, <2>2, FS_Subset
  <2>4. n <= MapNodes
    BY <1>1, <1>2, <2>3, LinkedFits
  <2>5. n \in Nat
    BY <1>2 DEF Linked
  <2> QED BY <2>4, <2>5
<1>4. \A i \in Nat : i < n => c[i] \in InBucket(hp, b) /\ Links(hp)[c[i]] = c[i + 1]
  BY <1>2 DEF Linked
<1>5. \A x \in InBucket(hp, b) :
        x \in DOMAIN hp /\ x # M!Null /\ hp[x].hash % MapSize = b /\ Links(hp)[x] = hp[x].next
  BY <1>1 DEF InBucket, Links
<1>6. /\ nd[b] = c[0]
      /\ \A i \in Nat : ~ i < n => c[i] = M!Null
      /\ \A i, j \in Nat : i < j /\ j < n => c[i] # c[j]
      /\ \A x \in InBucket(hp, b) : \E i \in Nat : i < n /\ c[i] = x
  BY <1>2 DEF Linked
<1>7. \A m \in 0 .. MapNodes : WalkFrom(nd[b], hp)[m] = c[m]
  <2>1. \A m \in Nat \ {0} : IF c[m - 1] = M!Null THEN c[m] = M!Null
                             ELSE c[m - 1] \in InBucket(hp, b) /\ c[m] = Links(hp)[c[m - 1]]
    <3>1. M!Null \notin InBucket(hp, b)
      BY <1>5
    <3> QED BY <1>2, <3>1, LinkedSteps
  <2>2. \A m \in Nat \ {0} : c[m] = IF c[m - 1] = M!Null THEN M!Null ELSE hp[c[m - 1]].next
    BY <1>5, <2>1
  <2> DEFINE at == [m \in 0 .. MapNodes |-> c[m]]
             E(f) == f = [m \in 0 .. MapNodes |->
                            IF m = 0 THEN nd[b]
                            ELSE IF f[m - 1] = M!Null THEN M!Null ELSE hp[f[m - 1]].next]
  <2>3. E(at)
    <3>1. \A m \in 0 .. MapNodes :
            at[m] = IF m = 0 THEN nd[b]
                    ELSE IF at[m - 1] = M!Null THEN M!Null ELSE hp[at[m - 1]].next
      <4> TAKE m \in 0 .. MapNodes
      <4>1. m # 0 => m \in Nat \ {0} /\ m - 1 \in 0 .. MapNodes
        BY <1>1
      <4> QED BY <1>6, <2>2, <4>1
    <3>2. at = [m \in 0 .. MapNodes |-> at[m]]
      OBVIOUS
    <3> HIDE DEF at
    <3> QED BY <3>1, <3>2
  <2> HIDE DEF at
  <2>4. PICK w : w = WalkFrom(nd[b], hp)
    OBVIOUS
  <2>5. w = CHOOSE f : E(f)
    BY <2>4 DEF WalkFrom
  <2> HIDE DEF E
  <2>6. E(w)
    BY <2>3, <2>5, Zenon
  <2>7. w[0] = c[0] /\ \A m \in 1 .. MapNodes : w[m - 1] = c[m - 1] => w[m] = c[m]
    <3>1. \A m \in 0 .. MapNodes :
            w[m] = IF m = 0 THEN nd[b]
                   ELSE IF w[m - 1] = M!Null THEN M!Null ELSE hp[w[m - 1]].next
      BY <2>6 DEF E
    <3>2. 0 \in 0 .. MapNodes
          /\ \A m \in 1 .. MapNodes : m \in 0 .. MapNodes /\ m # 0 /\ m \in Nat \ {0}
      BY <1>1
    <3> QED BY <1>6, <2>2, <3>1, <3>2
  <2> QED BY <1>1, <2>4, <2>7, AlikeUpTo
<1>8. \A x \in DOMAIN hp : hp[x].hash % MapSize = b => x \in InBucket(hp, b)
  BY DEF InBucket
<1> QED BY <1>3, <1>4, <1>5, <1>6, <1>7, <1>8

\* The values of k at the nodes of a chain, from node m on: those that are its own.
TextOf(e, k) == IF IsOf(e, k) THEN <<e.value>> ELSE <<>>
Texts(hp, c, n, k, m) == [i \in 1 .. n - m |-> TextOf(hp[c[m + i - 1]], k)]

LEMMA TextsAre ==
    ASSUME NEW nd, NEW hp, MapGood(nd, hp), NEW b, NEW c, NEW n, MapChain(nd, hp, b, c, n),
           NEW k \in Keys, NEW m \in Nat, m <= n, NEW t, t = Texts(hp, c, n, k, m)
    PROVE  /\ t \in Seq(Seq(MapValues)) /\ Len(t) = n - m /\ n - m \in Nat
           /\ \A i \in 1 .. n - m : t[i] = TextOf(hp[c[m + i - 1]], k)
           /\ m < n => Begins(t, TextOf(hp[c[m]], k), Texts(hp, c, n, k, m + 1), Seq(MapValues))
           /\ m = n => t = <<>>
<1>1. n \in Nat /\ n - m \in Nat /\ \A i \in Nat : i < n => c[i] \in DOMAIN hp
  BY MapChainIs
<1>2. \A x \in DOMAIN hp : TextOf(hp[x], k) \in Seq(MapValues)
  BY DEF MapGood, NodeType, TextOf
<1>3. \A j \in Nat : j < n => TextOf(hp[c[j]], k) \in Seq(MapValues)
  BY <1>1, <1>2
<1>4. PICK Y : Y = Seq(MapValues)
  OBVIOUS
<1>5. ASSUME NEW j \in Nat, j <= n
      PROVE  /\ n - j \in Nat
             /\ Texts(hp, c, n, k, j) \in Seq(Y) /\ Len(Texts(hp, c, n, k, j)) = n - j
             /\ \A i \in 1 .. n - j : Texts(hp, c, n, k, j)[i] = TextOf(hp[c[j + i - 1]], k)
  <2>1. n - j \in Nat /\ \A i \in 1 .. n - j : j + i - 1 \in Nat /\ j + i - 1 < n
    BY <1>1, <1>5
  <2>2. \A i \in 1 .. n - j : TextOf(hp[c[j + i - 1]], k) \in Y
    BY <1>3, <1>4, <2>1
  <2> QED BY <2>1, <2>2 DEF Texts
<1>6. t \in Seq(Y) /\ Len(t) = n - m /\ \A i \in 1 .. n - m : t[i] = TextOf(hp[c[m + i - 1]], k)
  BY <1>5
<1>7. ASSUME m < n
      PROVE  Begins(t, TextOf(hp[c[m]], k), Texts(hp, c, n, k, m + 1), Y)
  <2>1. PICK r : r = Texts(hp, c, n, k, m + 1)
    OBVIOUS
  <2>2. m + 1 \in Nat /\ m + 1 <= n
    BY <1>1, <1>7
  <2>3. r \in Seq(Y) /\ Len(r) = n - (m + 1)
        /\ \A i \in 1 .. n - (m + 1) : r[i] = TextOf(hp[c[(m + 1) + i - 1]], k)
    BY <1>5, <2>1, <2>2
  <2>4. Len(t) = Len(r) + 1 /\ 1 \in 1 .. n - m /\ m + 1 - 1 = m
    BY <1>1, <1>6, <1>7, <2>3
  <2>5. t[1] = TextOf(hp[c[m]], k)
    BY <1>6, <2>4
  <2>6. ASSUME NEW i \in 1 .. Len(r) PROVE t[i + 1] = r[i]
    <3>1. i \in 1 .. n - (m + 1) /\ i + 1 \in 1 .. n - m /\ m + (i + 1) - 1 = (m + 1) + i - 1
      BY <1>1, <1>7, <2>3
    <3>2. t[i + 1] = TextOf(hp[c[m + (i + 1) - 1]], k)
      BY <1>6, <3>1
    <3> QED BY <2>3, <3>1, <3>2
  <2>7. TextOf(hp[c[m]], k) \in Y
    BY <1>3, <1>4, <1>7
  <2>8. Begins(t, TextOf(hp[c[m]], k), r, Y)
    BY <1>6, <2>3, <2>4, <2>5, <2>6, <2>7 DEF Begins
  <2> QED BY <2>1, <2>8
<1>8. m = n => t = <<>>
  BY <1>1, <1>6, EmptySeq
<1> QED BY <1>1, <1>4, <1>6, <1>7, <1>8

\* ValuesOf puts them in a row.
LEMMA ValuesAre ==
    ASSUME NEW nd, NEW hp, MapGood(nd, hp), NEW b, NEW c, NEW n, MapChain(nd, hp, b, c, n),
           NEW k \in Keys
    PROVE  ValuesFrom(nd[b], hp, k) = FlattenSeq(Texts(hp, c, n, k, 0))
<1> DEFINE last == MapNodes + 1
           at == WalkFrom(nd[b], hp)
           E(f) == f = [m \in 0 .. MapNodes + 1 |->
                           IF m > MapNodes \/ at[m] = M!Null THEN <<>>
                           ELSE TextOf(hp[at[m]], k) \o f[m + 1]]
           R(m) == FlattenSeq(Texts(hp, c, n, k, m))
           v == [m \in 0 .. MapNodes + 1 |-> IF m < n THEN R(m) ELSE <<>>]
<1>1. MapNodes \in Nat /\ last \in Nat
  BY MapFacts
<1>2. n \in Nat /\ n <= MapNodes
  BY MapChainIs
<1>3. \A m \in 0 .. MapNodes : at[m] = c[m]
  BY MapChainIs
<1>4. /\ \A m \in Nat : m < n => c[m] # M!Null
      /\ \A m \in Nat : ~ m < n => c[m] = M!Null
  BY MapChainIs
<1>5. PICK V : V = MapValues
  OBVIOUS
<1>6. \A m \in Nat : m < n => R(m) = TextOf(hp[c[m]], k) \o R(m + 1)
  <2> SUFFICES ASSUME NEW m \in Nat, m < n PROVE R(m) = TextOf(hp[c[m]], k) \o R(m + 1)
    OBVIOUS
  <2>1. m <= n
    BY <1>2
  <2>2. PICK x, s, t : x = TextOf(hp[c[m]], k) /\ s = Texts(hp, c, n, k, m + 1) /\ t = Texts(hp, c, n, k, m)
    OBVIOUS
  <2>3. Begins(t, x, s, Seq(V))
    BY <1>5, <2>1, <2>2, TextsAre
  <2>4. t = <<x>> \o s /\ s \in Seq(Seq(V)) /\ x \in Seq(V)
    <3>1. t = <<x>> \o s
      BY <2>3, IsCons
    <3>2. s \in Seq(Seq(V)) /\ x \in Seq(V)
      BY <2>3 DEF Begins
    <3> QED BY <3>1, <3>2
  <2>5. FlattenSeq(t) = x \o FlattenSeq(s)
    BY <2>4, FlattenCons
  <2> QED BY <2>2, <2>5
<1>7. R(n) = <<>>
  <2>1. n \in Nat /\ n <= n
    BY <1>2
  <2>2. Texts(hp, c, n, k, n) = <<>>
    BY <2>1, TextsAre
  <2>3. FlattenSeq(<<>>) = <<>>
    BY DEF FlattenSeq
  <2> QED BY <2>2, <2>3
<1>8. v[0] = R(0)
  <2>1. 0 \in 0 .. MapNodes + 1 /\ (~ 0 < n => n = 0)
    BY <1>1, <1>2
  <2>2. v[0] = IF 0 < n THEN R(0) ELSE <<>>
    BY <2>1
  <2> HIDE DEF R, v
  <2> QED BY <1>7, <2>1, <2>2
<1> HIDE DEF R
<1>9. \A m \in 0 .. MapNodes + 1 :
         v[m] = IF m > MapNodes \/ at[m] = M!Null THEN <<>> ELSE TextOf(hp[at[m]], k) \o v[m + 1]
  <2> HIDE DEF at
  <2> TAKE m \in 0 .. MapNodes + 1
  <2>1. m \in Nat /\ v[m] = IF m < n THEN R(m) ELSE <<>>
    BY <1>1
  <2>2. ASSUME m < n PROVE v[m] = IF m > MapNodes \/ at[m] = M!Null THEN <<>> ELSE TextOf(hp[at[m]], k) \o v[m + 1]
    <3>1. m + 1 \in 0 .. MapNodes + 1 /\ ~ m > MapNodes /\ m \in 0 .. MapNodes /\ (~ m + 1 < n => m + 1 = n)
      BY <1>1, <1>2, <2>1, <2>2
    <3>2. v[m + 1] = IF m + 1 < n THEN R(m + 1) ELSE <<>>
      BY <3>1
    <3> HIDE DEF v
    <3>3. v[m + 1] = R(m + 1)
      BY <1>7, <3>1, <3>2
    <3>4. at[m] = c[m] /\ at[m] # M!Null
      BY <1>3, <1>4, <2>1, <2>2, <3>1
    <3>5. R(m) = TextOf(hp[c[m]], k) \o R(m + 1)
      BY <1>6, <2>1, <2>2
    <3>6. v[m] = R(m)
      BY <2>1, <2>2
    <3> QED BY <3>1, <3>3, <3>4, <3>5, <3>6
  <2>3. ASSUME ~ m < n PROVE v[m] = IF m > MapNodes \/ at[m] = M!Null THEN <<>> ELSE TextOf(hp[at[m]], k) \o v[m + 1]
    <3> HIDE DEF v
    <3>1. ~ m > MapNodes => m \in 0 .. MapNodes /\ c[m] = M!Null
      BY <1>1, <1>4, <2>1, <2>3
    <3> QED BY <1>3, <2>1, <2>3, <3>1
  <2> QED BY <2>2, <2>3
<1>10. E(v)
  <2>1. v = [m \in 0 .. MapNodes + 1 |-> v[m]]
    OBVIOUS
  <2> HIDE DEF v, at
  <2> QED BY <1>9, <2>1
<1>11. PICK w : w = CHOOSE f : E(f)
  OBVIOUS
<1>12. ValuesFrom(nd[b], hp, k) = w[0]
  BY <1>11 DEF ValuesFrom, ValuesAlong, TextOf
<1> HIDE DEF E, v, at
<1>13. E(w)
  BY <1>10, <1>11, Zenon
<1>14. PICK A : A = [j \in Nat |-> w[last - j]]
  OBVIOUS
<1>15. PICK C : C = [j \in Nat |-> v[last - j]]
  OBVIOUS
<1>16. \A m \in 0 .. MapNodes + 1 :
          w[m] = IF m > MapNodes \/ at[m] = M!Null THEN <<>> ELSE TextOf(hp[at[m]], k) \o w[m + 1]
  BY <1>13 DEF E
<1>17. A[0] = C[0]
  <2>1. last - 0 = MapNodes + 1 /\ MapNodes + 1 \in 0 .. MapNodes + 1 /\ MapNodes + 1 > MapNodes
    BY <1>1
  <2>2. A[0] = w[MapNodes + 1] /\ C[0] = v[MapNodes + 1]
    BY <1>14, <1>15, <2>1
  <2> QED BY <1>9, <1>16, <2>1, <2>2
<1>18. ASSUME NEW j \in 1 .. last, A[j - 1] = C[j - 1] PROVE A[j] = C[j]
  <2>1. PICK m : m = last - j
    OBVIOUS
  <2>2. m \in 0 .. MapNodes + 1 /\ last - (j - 1) = m + 1 /\ j \in Nat /\ j - 1 \in Nat
    BY <1>1, <2>1
  <2>3. A[j] = w[m] /\ C[j] = v[m] /\ A[j - 1] = w[m + 1] /\ C[j - 1] = v[m + 1]
    BY <1>14, <1>15, <2>1, <2>2
  <2> QED BY <1>9, <1>16, <1>18, <2>2, <2>3
<1>19. \A j \in 0 .. last : A[j] = C[j]
  BY <1>1, <1>17, <1>18, AlikeUpTo
<1>20. w[0] = v[0]
  <2>1. last \in 0 .. last /\ last \in Nat /\ last - last = 0
    BY <1>1
  <2>2. A[last] = w[0] /\ C[last] = v[0]
    BY <1>14, <1>15, <2>1
  <2> QED BY <1>19, <2>1, <2>2
<1> QED BY <1>8, <1>12, <1>20 DEF R

\* The node of place m is the first node of the chain that is k's.
FirstOf(hp, c, n, k, m) ==
    /\ m \in Nat /\ m < n /\ IsOf(hp[c[m]], k)
    /\ \A j \in Nat : j < m => ~ IsOf(hp[c[j]], k)

\* A search finds that node.
LEMMA FoundIs ==
    ASSUME NEW nd, NEW hp, MapGood(nd, hp), NEW b, NEW c, NEW n, MapChain(nd, hp, b, c, n),
           NEW k, NEW m \in 0 .. MapNodes
    PROVE  FoundFrom(nd[b], hp, k, m) <=> FirstOf(hp, c, n, k, m)
<1>1. /\ MapNodes \in Nat /\ n \in Nat /\ n <= MapNodes
      /\ \A j \in Nat : j < n <=> c[j] # M!Null
      /\ \A j \in 0 .. MapNodes : WalkFrom(nd[b], hp)[j] = c[j]
  BY MapFacts, MapChainIs
<1>2. m \in Nat /\ \A j \in Nat : j < m => j \in 0 .. MapNodes /\ j \in 0 .. m - 1
  BY <1>1
<1>3. \A j \in 0 .. m - 1 : j \in Nat /\ j < m
  BY <1>2
<1> QED BY <1>1, <1>2, <1>3 DEF FoundFrom, FirstOf

\* hash_search returns the value ValuesOf lists first.
LEMMA TopIs ==
    ASSUME NEW nd, NEW hp, MapGood(nd, hp), NEW b, NEW c, NEW n, MapChain(nd, hp, b, c, n),
           NEW k \in Keys, NEW V, V = ValuesFrom(nd[b], hp, k)
    PROVE  SearchFrom(nd[b], hp, k) = IF V = <<>> THEN M!NotFound ELSE V[1]
<1>1. MapNodes \in Nat /\ n \in Nat /\ n <= MapNodes
  BY MapFacts, MapChainIs
<1>2. PICK t, Y : t = Texts(hp, c, n, k, 0) /\ Y = MapValues
  OBVIOUS
<1>3. /\ t \in Seq(Seq(Y)) /\ Len(t) = n
      /\ \A i \in 1 .. n : t[i] = TextOf(hp[c[i - 1]], k)
  <2>1. 0 \in Nat /\ 0 <= n /\ n - 0 = n /\ \A i \in 1 .. n : 0 + i - 1 = i - 1
    BY <1>1
  <2>2. t \in Seq(Seq(Y)) /\ Len(t) = n - 0 /\ \A i \in 1 .. n - 0 : t[i] = TextOf(hp[c[0 + i - 1]], k)
    BY <1>2, <2>1, TextsAre
  <2> QED BY <2>1, <2>2
<1>4. V = FlattenSeq(t)
  BY <1>2, ValuesAre
<1>5. ASSUME \A j \in Nat : j < n => ~ IsOf(hp[c[j]], k)
      PROVE  SearchFrom(nd[b], hp, k) = IF V = <<>> THEN M!NotFound ELSE V[1]
  <2>1. PlacesFrom(nd[b], hp, k) = {}
    <3>1. \A m \in 0 .. MapNodes : ~ FirstOf(hp, c, n, k, m)
      BY <1>5 DEF FirstOf
    <3>2. \A m \in 0 .. MapNodes : ~ FoundFrom(nd[b], hp, k, m)
      BY <3>1, FoundIs, Zenon
    <3> QED BY <3>2 DEF PlacesFrom
  <2>2. \A i \in 1 .. n : i - 1 \in Nat /\ i - 1 < n
    BY <1>1
  <2>3. \A i \in 1 .. Len(t) : t[i] = <<>>
    BY <1>3, <1>5, <2>2 DEF TextOf
  <2>4. V = <<>>
    BY <1>3, <1>4, <2>3, FlattenBlank
  <2> QED BY <2>1, <2>4 DEF SearchFrom, AnyOf
<1>6. ASSUME NEW l \in Nat, l < n, IsOf(hp[c[l]], k)
      PROVE  SearchFrom(nd[b], hp, k) = IF V = <<>> THEN M!NotFound ELSE V[1]
  <2> DEFINE T == {j \in Nat : j < n /\ IsOf(hp[c[j]], k)}
  <2>1. T \subseteq Nat /\ T # {}
    BY <1>6
  <2>2. \A j : j \in T <=> j \in Nat /\ j < n /\ IsOf(hp[c[j]], k)
    OBVIOUS
  <2> HIDE DEF T
  <2>3. PICK m \in T : \A j \in T : m <= j
    BY <2>1, LeastNat
  <2>4. m \in Nat /\ m < n /\ m \in 0 .. MapNodes /\ IsOf(hp[c[m]], k)
    BY <1>1, <2>2, <2>3
  <2>5. \A j \in Nat : j < m => ~ IsOf(hp[c[j]], k)
    <3>1. \A j \in Nat : j < m => j < n /\ ~ m <= j
      BY <1>1, <2>4
    <3> QED BY <2>2, <2>3, <3>1
  <2>6. PlacesFrom(nd[b], hp, k) = {m}
    <3>1. FoundFrom(nd[b], hp, k, m)
      <4>1. FirstOf(hp, c, n, k, m)
        BY <2>4, <2>5 DEF FirstOf
      <4> QED BY <2>4, <4>1, FoundIs, Zenon
    <3>2. ASSUME NEW q \in 0 .. MapNodes, FoundFrom(nd[b], hp, k, q) PROVE q = m
      <4>1. q \in Nat /\ IsOf(hp[c[q]], k) /\ \A j \in Nat : j < q => ~ IsOf(hp[c[j]], k)
        <5>1. FirstOf(hp, c, n, k, q)
          BY <3>2, FoundIs, Zenon
        <5> QED BY <5>1 DEF FirstOf
      <4>2. ~ m < q /\ ~ q < m
        BY <2>4, <2>5, <4>1
      <4> QED BY <2>4, <4>1, <4>2
    <3> QED BY <2>4, <3>1, <3>2 DEF PlacesFrom
  <2>7. SearchFrom(nd[b], hp, k) = hp[c[m]].value
    <3>1. AnyOf({m}) = m
      BY DEF AnyOf
    <3>2. WalkFrom(nd[b], hp)[m] = c[m]
      BY <2>4, MapChainIs
    <3> QED BY <2>6, <3>1, <3>2 DEF SearchFrom
  <2>8. m + 1 \in 1 .. Len(t) /\ \A i \in 1 .. (m + 1) - 1 : i \in 1 .. n /\ i - 1 \in Nat /\ i - 1 < m
    BY <1>1, <1>3, <2>4
  <2>9. \A i \in 1 .. (m + 1) - 1 : t[i] = <<>>
    BY <1>3, <2>5, <2>8 DEF TextOf
  <2>10. t[m + 1] = <<hp[c[m]].value>> /\ hp[c[m]].value \in Y
    <3>1. m + 1 \in 1 .. n /\ (m + 1) - 1 = m
      BY <1>1, <2>4
    <3>2. c[m] \in DOMAIN hp
      BY <2>4, MapChainIs
    <3> QED BY <1>2, <1>3, <2>4, <3>1, <3>2 DEF TextOf, MapGood, NodeType
  <2>11. PICK a, d \in Seq(Y) :
            /\ FlattenSeq(t) = (a \o t[m + 1]) \o d
            /\ (\A i \in 1 .. (m + 1) - 1 : t[i] = <<>>) => a = <<>>
    <3>1. PICK h : h = m + 1
      OBVIOUS
    <3>2. t \in Seq(Seq(Y)) /\ h \in 1 .. Len(t)
      BY <1>3, <2>8, <3>1
    <3>3. \E a, d \in Seq(Y) :
            /\ a = FlattenSeq(SubSeq(t, 1, h - 1)) /\ d = FlattenSeq(Past(t, h))
            /\ FlattenSeq(t) = (a \o t[h]) \o d
            /\ (\A i \in 1 .. h - 1 : t[i] = <<>>) => a = <<>>
      BY <3>2, FlattenSplit
    <3> QED BY <3>1, <3>3, Zenon
  <2>12. V = (<<>> \o <<hp[c[m]].value>>) \o d
    BY <1>4, <2>9, <2>10, <2>11
  <2>13. PICK x : x = hp[c[m]].value
    OBVIOUS
  <2>14. V = <<x>> \o d /\ x \in Y
    <3>1. <<>> \o <<x>> = <<x>>
      OBVIOUS
    <3> QED BY <2>10, <2>12, <2>13, <3>1
  <2>15. Begins(V, x, d, Y)
    BY <2>14, ConsBegins
  <2>16. V # <<>> /\ V[1] = x
    BY <2>15 DEF Begins
  <2> QED BY <2>7, <2>13, <2>16
<1> QED BY <1>5, <1>6

LEMMA ValuesType ==
    ASSUME NEW nd, NEW hp, MapGood(nd, hp), NEW b, NEW c, NEW n, MapChain(nd, hp, b, c, n),
           NEW k \in Keys
    PROVE  ValuesFrom(nd[b], hp, k) \in Seq(MapValues)
<1>1. 0 \in Nat /\ 0 <= n
  <2>1. n \in Nat
    BY MapChainIs
  <2> QED BY <2>1
<1>2. PICK t, Y : t = Texts(hp, c, n, k, 0) /\ Y = MapValues
  OBVIOUS
<1>3. t \in Seq(Seq(Y))
  BY <1>1, <1>2, TextsAre
<1>4. FlattenSeq(t) \in Seq(Y)
  BY <1>3, FlattenType
<1> QED BY <1>2, <1>4, ValuesAre

\* A step that does not touch the nodes of a bucket leaves its chain and its values.
LEMMA BucketKept ==
    ASSUME NEW nd, NEW hp, MapGood(nd, hp), NEW b, NEW c, NEW n, MapChain(nd, hp, b, c, n),
           NEW ne, NEW he, ne[b] = nd[b],
           \A x \in DOMAIN hp : hp[x].hash % MapSize = b => x \in DOMAIN he /\ he[x] = hp[x],
           \A x \in DOMAIN he : he[x].hash % MapSize = b => x \in DOMAIN hp /\ he[x] = hp[x]
    PROVE  /\ MapChain(ne, he, b, c, n)
           /\ MapGood(ne, he) => \A x \in Keys : ValuesFrom(ne[b], he, x) = ValuesFrom(nd[b], hp, x)
<1>1. InBucket(he, b) = InBucket(hp, b)
  BY DEF InBucket
<1>2. \A x \in InBucket(hp, b) : Links(he)[x] = Links(hp)[x] /\ he[x] = hp[x]
  BY DEF InBucket, Links
<1>3. Linked(nd[b], Links(hp), InBucket(hp, b), c, n, M!Null)
  BY DEF MapChain
<1>4. Linked(ne[b], Links(he), InBucket(he, b), c, n, M!Null)
  BY <1>1, <1>2, <1>3 DEF Linked
<1>5. MapChain(ne, he, b, c, n)
  BY <1>4 DEF MapChain
<1>6. ASSUME MapGood(ne, he), NEW x \in Keys
      PROVE  ValuesFrom(ne[b], he, x) = ValuesFrom(nd[b], hp, x)
  <2>1. \A i \in 1 .. n - 0 : he[c[0 + i - 1]] = hp[c[0 + i - 1]]
    <3>1. \A i \in 1 .. n - 0 : 0 + i - 1 \in Nat /\ 0 + i - 1 < n
      BY <1>3 DEF Linked
    <3> QED BY <1>2, <1>3, <3>1 DEF Linked
  <2>2. Texts(he, c, n, x, 0) = Texts(hp, c, n, x, 0)
    BY <2>1 DEF Texts
  <2>3. ValuesFrom(ne[b], he, x) = FlattenSeq(Texts(he, c, n, x, 0))
    BY <1>5, <1>6, ValuesAre
  <2>4. ValuesFrom(nd[b], hp, x) = FlattenSeq(Texts(hp, c, n, x, 0))
    BY ValuesAre
  <2> QED BY <2>2, <2>3, <2>4
<1> QED BY <1>5, <1>6

\* hash_insert: node s is put in front of the chain of k.
PushNode(nd, hp, k, v, s, ne, he) ==
    /\ k \in Keys /\ v \in MapValues /\ s \in 1 .. MapNodes /\ s \notin DOMAIN hp
    /\ he = [x \in DOMAIN hp \cup {s} |->
                IF x = s THEN [next |-> nd[M!Bucket(k)], name |-> NameOf[k], hash |-> HashOf[k], value |-> v]
                ELSE hp[x]]
    /\ ne = [nd EXCEPT ![M!Bucket(k)] = s]

LEMMA NodePushed ==
    ASSUME NEW nd, NEW hp, MapGood(nd, hp), NEW k, NEW v, NEW s, NEW ne, NEW he,
           PushNode(nd, hp, k, v, s, ne, he)
    PROVE  /\ MapGood(ne, he)
           /\ \A x \in Keys :
                 ValuesFrom(ne[M!Bucket(x)], he, x) =
                    (IF M!Same(x, k) THEN <<v>> ELSE <<>>) \o ValuesFrom(nd[M!Bucket(x)], hp, x)
<1>1. PICK b : b = M!Bucket(k)
  OBVIOUS
<1>2. /\ b \in 0 .. MapSize - 1 /\ MapNodes \in Nat /\ HashOf[k] \in Nat /\ HashOf[k] % MapSize = b
      /\ M!Null = 0 /\ k \in Keys /\ v \in MapValues
  <2>1. k \in Keys /\ v \in MapValues
    BY DEF PushNode
  <2> QED BY <1>1, <2>1, MapFacts DEF M!Bucket
<1>3. /\ ne[b] = s /\ \A a \in 0 .. MapSize - 1 : a # b => ne[a] = nd[a]
      /\ ne \in [0 .. MapSize - 1 -> 0 .. MapNodes]
  BY <1>1, <1>2 DEF MapGood, PushNode
<1>4. /\ DOMAIN he = DOMAIN hp \cup {s}
      /\ he[s] = [next |-> nd[b], name |-> NameOf[k], hash |-> HashOf[k], value |-> v]
      /\ \A x \in DOMAIN hp : he[x] = hp[x] /\ x # s
      /\ s \in 1 .. MapNodes
  BY <1>1 DEF PushNode
<1>5. \A x \in DOMAIN he : he[x] \in NodeType
  <2>1. nd[b] \in 0 .. MapNodes
    BY <1>2 DEF MapGood
  <2>2. he[s] \in NodeType
    BY <1>2, <1>4, <2>1 DEF NodeType
  <2> QED BY <1>4, <2>2 DEF MapGood
<1>6. PICK c, n : MapChain(nd, hp, b, c, n)
  BY <1>2 DEF MapGood
<1>7. PICK d : d = [j \in Nat |-> IF j = 0 THEN s ELSE c[j - 1]]
  OBVIOUS
<1>8. MapChain(ne, he, b, d, n + 1)
  <2>1. InBucket(he, b) = InBucket(hp, b) \cup {s} /\ s \notin InBucket(hp, b)
    BY <1>2, <1>4 DEF InBucket
  <2>2. Links(he)[s] = nd[b] /\ \A x \in InBucket(hp, b) : Links(he)[x] = Links(hp)[x]
    BY <1>4 DEF Links, InBucket
  <2>3. Linked(nd[b], Links(hp), InBucket(hp, b), c, n, M!Null)
    BY <1>6 DEF MapChain
  <2>4. PICK p, succ, X, t : p = nd[b] /\ succ = Links(hp) /\ X = InBucket(hp, b) /\ t = Links(he)
    OBVIOUS
  <2>5. Linked(p, succ, X, c, n, M!Null) /\ s \notin X /\ t[s] = p /\ \A x \in X : t[x] = succ[x]
    BY <2>1, <2>2, <2>3, <2>4
  <2>6. Linked(s, t, X \cup {s}, d, n + 1, M!Null)
    BY <1>7, <2>5, LinkedPush
  <2> QED BY <1>3, <2>1, <2>4, <2>6 DEF MapChain
<1>9. ASSUME NEW a \in 0 .. MapSize - 1, a # b
      PROVE  /\ \A x \in DOMAIN hp : hp[x].hash % MapSize = a => x \in DOMAIN he /\ he[x] = hp[x]
             /\ \A x \in DOMAIN he : he[x].hash % MapSize = a => x \in DOMAIN hp /\ he[x] = hp[x]
  BY <1>2, <1>4, <1>9
<1>10. MapGood(ne, he)
  <2>1. ASSUME NEW a \in 0 .. MapSize - 1 PROVE \E e, m : MapChain(ne, he, a, e, m)
    <3>1. CASE a = b
      BY <1>8, <3>1
    <3>2. CASE a # b
      <4>1. PICK e, m : MapChain(nd, hp, a, e, m)
        BY DEF MapGood
      <4>2. MapChain(ne, he, a, e, m)
        BY <1>3, <1>9, <3>2, <4>1, BucketKept
      <4> QED BY <4>2
    <3> QED BY <3>1, <3>2
  <2>2. DOMAIN he \subseteq 1 .. MapNodes
    BY <1>4 DEF MapGood
  <2> QED BY <1>3, <1>5, <2>1, <2>2 DEF MapGood
<1>11. ASSUME NEW x \in Keys, M!Bucket(x) = b
       PROVE  ValuesFrom(ne[b], he, x) = TextOf(he[s], x) \o ValuesFrom(nd[b], hp, x)
  <2>1. PICK Y, t, u : Y = MapValues /\ t = Texts(he, d, n + 1, x, 0) /\ u = Texts(hp, c, n, x, 0)
    OBVIOUS
  <2>2. n \in Nat /\ \A i \in Nat : i < n => c[i] \in DOMAIN hp
    BY <1>6, MapChainIs
  <2>3. u \in Seq(Seq(Y))
    <3>1. 0 \in Nat /\ 0 <= n
      BY <2>2
    <3> QED BY <1>6, <2>1, <3>1, TextsAre
  <2>4. Begins(t, TextOf(he[d[0]], x), Texts(he, d, n + 1, x, 0 + 1), Seq(Y))
    <3>1. 0 \in Nat /\ 0 <= n + 1 /\ 0 < n + 1
      BY <2>2
    <3> QED BY <1>8, <1>10, <2>1, <3>1, TextsAre
  <2>5. Texts(he, d, n + 1, x, 0 + 1) = u
    <3>1. ASSUME NEW i \in 1 .. n PROVE he[d[(0 + 1) + i - 1]] = hp[c[0 + i - 1]]
      <4>1. (0 + 1) + i - 1 = i /\ i \in Nat /\ i # 0 /\ 0 + i - 1 = i - 1 /\ i - 1 \in Nat /\ i - 1 < n
        BY <2>2
      <4>2. d[i] = c[i - 1]
        BY <1>7, <4>1
      <4> QED BY <1>4, <2>2, <4>1, <4>2
    <3>2. (n + 1) - (0 + 1) = n /\ n - 0 = n
      BY <2>2
    <3>3. u = [i \in 1 .. n |-> TextOf(hp[c[0 + i - 1]], x)]
      BY <2>1, <3>2 DEF Texts
    <3>4. Texts(he, d, n + 1, x, 0 + 1) = [i \in 1 .. n |-> TextOf(he[d[(0 + 1) + i - 1]], x)]
      BY <3>2, Zenon DEF Texts
    <3>5. \A i \in 1 .. n : TextOf(he[d[(0 + 1) + i - 1]], x) = TextOf(hp[c[0 + i - 1]], x)
      BY <3>1
    <3>6. [i \in 1 .. n |-> TextOf(he[d[(0 + 1) + i - 1]], x)] = [i \in 1 .. n |-> TextOf(hp[c[0 + i - 1]], x)]
      BY <3>5
    <3> QED BY <3>3, <3>4, <3>6
  <2>6. PICK w : w = TextOf(he[s], x)
    OBVIOUS
  <2>7. Begins(t, w, u, Seq(Y))
    BY <1>7, <2>4, <2>5, <2>6
  <2>8. t = <<w>> \o u /\ w \in Seq(Y)
    <3>1. t = <<w>> \o u
      BY <2>7, IsCons
    <3> QED BY <2>7, <3>1 DEF Begins
  <2>9. FlattenSeq(t) = w \o FlattenSeq(u)
    BY <2>3, <2>8, FlattenCons
  <2>10. ValuesFrom(ne[b], he, x) = FlattenSeq(t)
    <3>1. PICK m : m = n + 1
      OBVIOUS
    <3>2. MapChain(ne, he, b, d, m)
      BY <1>8, <3>1
    <3>3. ValuesFrom(ne[b], he, x) = FlattenSeq(Texts(he, d, m, x, 0))
      BY <1>10, <3>2, ValuesAre
    <3> QED BY <2>1, <3>1, <3>3
  <2>11. ValuesFrom(nd[b], hp, x) = FlattenSeq(u)
    BY <1>6, <2>1, ValuesAre
  <2> QED BY <2>6, <2>9, <2>10, <2>11
<1>12. \A x \in Keys : TextOf(he[s], x) = IF M!Same(x, k) THEN <<v>> ELSE <<>>
  BY <1>4 DEF TextOf, IsOf, M!Same
<1>13. ASSUME NEW x \in Keys
       PROVE  ValuesFrom(ne[M!Bucket(x)], he, x) =
                  (IF M!Same(x, k) THEN <<v>> ELSE <<>>) \o ValuesFrom(nd[M!Bucket(x)], hp, x)
  <2>1. CASE M!Bucket(x) = b
    BY <1>11, <1>12, <2>1
  <2>2. CASE M!Bucket(x) # b
    <3>1. M!Bucket(x) \in 0 .. MapSize - 1
      BY MapFacts
    <3>2. PICK a : a = M!Bucket(x)
      OBVIOUS
    <3>3. PICK e, m : MapChain(nd, hp, a, e, m)
      BY <3>1, <3>2 DEF MapGood
    <3>4. ValuesFrom(ne[a], he, x) = ValuesFrom(nd[a], hp, x)
      <4>1. a \in 0 .. MapSize - 1 /\ a # b
        BY <2>2, <3>1, <3>2
      <4>2. /\ \A y \in DOMAIN hp : hp[y].hash % MapSize = a => y \in DOMAIN he /\ he[y] = hp[y]
            /\ \A y \in DOMAIN he : he[y].hash % MapSize = a => y \in DOMAIN hp /\ he[y] = hp[y]
        BY <1>9, <4>1
      <4>3. ne[a] = nd[a]
        BY <1>3, <4>1
      <4> QED BY <1>10, <3>3, <4>2, <4>3, BucketKept
    <3>5. ~ M!Same(x, k)
      BY <1>1, <2>2 DEF M!Same, M!Bucket
    <3>6. ValuesFrom(nd[a], hp, x) \in Seq(MapValues)
      BY <3>3, ValuesType
    <3>7. <<>> \o ValuesFrom(nd[a], hp, x) = ValuesFrom(nd[a], hp, x)
      BY <3>6, Assoc3
    <3> QED BY <3>2, <3>4, <3>5, <3>7
  <2> QED BY <2>1, <2>2
<1> QED BY <1>10, <1>13

\* hash_remove: node m of the chain of bucket b is taken out.
DropNode(nd, hp, b, c, n, m, ne, he) ==
    /\ b \in 0 .. MapSize - 1 /\ MapChain(nd, hp, b, c, n) /\ m \in Nat /\ m < n
    /\ DOMAIN he = DOMAIN hp \ {c[m]}
    /\ \A x \in DOMAIN he :
          he[x] = IF m # 0 /\ x = c[m - 1] THEN [hp[x] EXCEPT !.next = c[m + 1]] ELSE hp[x]
    /\ ne = IF m = 0 THEN [nd EXCEPT ![b] = c[1]] ELSE nd

\* What it had for k, and nothing else, is missing in the values of its bucket.
ValueDropped(nd, hp, b, c, m, ne, he, k) ==
    \E a, d \in Seq(MapValues) :
        /\ ValuesFrom(nd[b], hp, k) = (a \o TextOf(hp[c[m]], k)) \o d
        /\ ValuesFrom(ne[b], he, k) = a \o d
        /\ (\A j \in Nat : j < m => ~ IsOf(hp[c[j]], k)) => a = <<>>

LEMMA NodeDropped ==
    ASSUME NEW nd, NEW hp, MapGood(nd, hp), NEW b, NEW c, NEW n, NEW m, NEW ne, NEW he,
           DropNode(nd, hp, b, c, n, m, ne, he)
    PROVE  /\ MapGood(ne, he)
           /\ \A x \in Keys : M!Bucket(x) # b =>
                 ValuesFrom(ne[M!Bucket(x)], he, x) = ValuesFrom(nd[M!Bucket(x)], hp, x)
           /\ \A x \in Keys : ValueDropped(nd, hp, b, c, m, ne, he, x)
<1>1. b \in 0 .. MapSize - 1 /\ MapChain(nd, hp, b, c, n) /\ m \in Nat /\ m < n
  BY DEF DropNode
<1>2. /\ n \in Nat /\ n <= MapNodes /\ nd[b] = c[0] /\ c[m] \in DOMAIN hp
      /\ \A i \in Nat : i < n => c[i] \in DOMAIN hp /\ hp[c[i]].next = c[i + 1] /\ hp[c[i]].hash % MapSize = b
      /\ \A i \in Nat : ~ i < n => c[i] = M!Null
      /\ \A i, j \in Nat : i < j /\ j < n => c[i] # c[j]
  BY <1>1, MapChainIs
<1>3. /\ MapNodes \in Nat /\ M!Null = 0 /\ m + 1 \in Nat
      /\ \A i \in Nat : c[i] \in 0 .. MapNodes
  <2>1. MapNodes \in Nat /\ M!Null = 0 /\ m + 1 \in Nat
    BY <1>1, MapFacts
  <2>2. DOMAIN hp \subseteq 0 .. MapNodes
    BY <2>1 DEF MapGood
  <2> QED BY <1>2, <2>1, <2>2
<1>4. /\ DOMAIN he = DOMAIN hp \ {c[m]}
      /\ \A x \in DOMAIN he :
            he[x] = IF m # 0 /\ x = c[m - 1] THEN [hp[x] EXCEPT !.next = c[m + 1]] ELSE hp[x]
      /\ ne = IF m = 0 THEN [nd EXCEPT ![b] = c[1]] ELSE nd
  BY DEF DropNode
<1>5. ASSUME NEW x \in DOMAIN he
      PROVE  /\ x \in DOMAIN hp /\ he[x] \in NodeType
             /\ he[x].hash = hp[x].hash /\ he[x].name = hp[x].name /\ he[x].value = hp[x].value
             /\ he[x].next = IF m # 0 /\ x = c[m - 1] THEN c[m + 1] ELSE hp[x].next
             /\ ~ (m # 0 /\ x = c[m - 1]) => he[x] = hp[x]
  <2>1. x \in DOMAIN hp /\ hp[x] \in NodeType /\ c[m + 1] \in 0 .. MapNodes
    BY <1>3, <1>4 DEF MapGood
  <2>2. CASE m # 0 /\ x = c[m - 1]
    <3>1. he[x] = [hp[x] EXCEPT !.next = c[m + 1]]
      BY <1>4, <2>2
    <3> QED BY <2>1, <2>2, <3>1 DEF NodeType
  <2>3. CASE ~ (m # 0 /\ x = c[m - 1])
    <3>1. he[x] = hp[x]
      BY <1>4, <2>3
    <3> QED BY <2>1, <2>3, <3>1
  <2> QED BY <2>2, <2>3
<1>6. /\ ne \in [0 .. MapSize - 1 -> 0 .. MapNodes]
      /\ ne[b] = IF m = 0 THEN c[1] ELSE nd[b]
      /\ \A a \in 0 .. MapSize - 1 : a # b => ne[a] = nd[a]
  <2>1. nd \in [0 .. MapSize - 1 -> 0 .. MapNodes] /\ c[1] \in 0 .. MapNodes
    BY <1>3 DEF MapGood
  <2> QED BY <1>1, <1>4, <2>1
<1>7. ASSUME NEW a \in 0 .. MapSize - 1, a # b
      PROVE  /\ \A x \in DOMAIN hp : hp[x].hash % MapSize = a => x \in DOMAIN he /\ he[x] = hp[x]
             /\ \A x \in DOMAIN he : he[x].hash % MapSize = a => x \in DOMAIN hp /\ he[x] = hp[x]
  <2>1. hp[c[m]].hash % MapSize = b
    BY <1>1, <1>2
  <2>2. m # 0 => hp[c[m - 1]].hash % MapSize = b
    <3>1. m # 0 => m - 1 \in Nat /\ m - 1 < n
      BY <1>1, <1>2
    <3> QED BY <1>2, <3>1
  <2>3. \A x \in DOMAIN hp : hp[x].hash % MapSize = a => x \in DOMAIN he /\ ~ (m # 0 /\ x = c[m - 1])
    BY <1>4, <1>7, <2>1, <2>2
  <2>4. \A x \in DOMAIN hp : hp[x].hash % MapSize = a => x \in DOMAIN he /\ he[x] = hp[x]
    BY <1>5, <2>3
  <2> QED BY <1>5, <2>4
<1>8. PICK e : e = Except(c, m)
  OBVIOUS
<1>9. MapChain(ne, he, b, e, n - 1)
  <2>1. InBucket(he, b) = InBucket(hp, b) \ {c[m]}
    BY <1>4, <1>5 DEF InBucket
  <2>2. PICK p, q, succ, X, t :
           p = nd[b] /\ q = ne[b] /\ succ = Links(hp) /\ X = InBucket(hp, b) /\ t = Links(he)
    OBVIOUS
  <2>3. m # 0 => t[c[m - 1]] = c[m + 1]
    <3> SUFFICES ASSUME m # 0 PROVE t[c[m - 1]] = c[m + 1]
      OBVIOUS
    <3>1. m - 1 \in Nat /\ m - 1 < n /\ m - 1 < m
      BY <1>1, <1>2
    <3>2. c[m - 1] \in DOMAIN hp /\ c[m - 1] # c[m]
      BY <1>1, <1>2, <3>1
    <3>3. c[m - 1] \in DOMAIN he
      BY <1>4, <3>2
    <3> QED BY <1>5, <2>2, <3>3 DEF Links
  <2>4. \A x \in X : x # c[m] /\ (m # 0 => x # c[m - 1]) => t[x] = succ[x]
    <3>1. \A x \in X : x # c[m] => x \in DOMAIN he /\ x \in DOMAIN hp
      BY <1>4, <2>2 DEF InBucket
    <3>2. \A x \in DOMAIN he : t[x] = he[x].next
      BY <2>2 DEF Links
    <3>3. \A x \in DOMAIN hp : succ[x] = hp[x].next
      BY <2>2 DEF Links
    <3> QED BY <1>5, <3>1, <3>2, <3>3
  <2>5. Linked(p, succ, X, c, n, M!Null)
    BY <1>1, <2>2 DEF MapChain
  <2>6. Dropped(p, succ, X, c, n, M!Null, m, q, t)
    BY <1>1, <1>6, <2>2, <2>3, <2>4, <2>5 DEF Dropped
  <2>7. Linked(q, t, X \ {c[m]}, Except(c, m), n - 1, M!Null)
    BY <2>6, LinkedDrop
  <2> QED BY <1>8, <2>1, <2>2, <2>7 DEF MapChain
<1>10. MapGood(ne, he)
  <2>1. ASSUME NEW a \in 0 .. MapSize - 1 PROVE \E f, l : MapChain(ne, he, a, f, l)
    <3>1. CASE a = b
      BY <1>9, <3>1
    <3>2. CASE a # b
      <4>1. PICK f, l : MapChain(nd, hp, a, f, l)
        BY DEF MapGood
      <4>2. MapChain(ne, he, a, f, l)
        BY <1>6, <1>7, <3>2, <4>1, BucketKept
      <4> QED BY <4>2
    <3> QED BY <3>1, <3>2
  <2>2. DOMAIN he \subseteq 1 .. MapNodes
    BY <1>4 DEF MapGood
  <2> QED BY <1>5, <1>6, <2>1, <2>2 DEF MapGood
<1>11. ASSUME NEW x \in Keys, M!Bucket(x) # b
       PROVE  ValuesFrom(ne[M!Bucket(x)], he, x) = ValuesFrom(nd[M!Bucket(x)], hp, x)
  <2>1. PICK a : a = M!Bucket(x)
    OBVIOUS
  <2>2. a \in 0 .. MapSize - 1 /\ a # b
    BY <1>11, <2>1, MapFacts
  <2>3. PICK f, l : MapChain(nd, hp, a, f, l)
    BY <2>2 DEF MapGood
  <2>4. /\ \A y \in DOMAIN hp : hp[y].hash % MapSize = a => y \in DOMAIN he /\ he[y] = hp[y]
        /\ \A y \in DOMAIN he : he[y].hash % MapSize = a => y \in DOMAIN hp /\ he[y] = hp[y]
    BY <1>7, <2>2
  <2>5. ne[a] = nd[a]
    BY <1>6, <2>2
  <2>6. ValuesFrom(ne[a], he, x) = ValuesFrom(nd[a], hp, x)
    BY <1>10, <2>3, <2>4, <2>5, BucketKept
  <2> QED BY <2>1, <2>6
<1>12. ASSUME NEW x \in Keys
       PROVE  ValueDropped(nd, hp, b, c, m, ne, he, x)
  <2>1. PICK Y, l, s, t : /\ Y = MapValues /\ l = n - 1
                          /\ s = Texts(hp, c, n, x, 0) /\ t = Texts(he, e, l, x, 0)
    OBVIOUS
  <2>2. l \in Nat /\ 0 \in Nat /\ 0 <= n /\ 0 <= l /\ n - 0 = n /\ l - 0 = l
    BY <1>1, <1>2, <2>1
  <2>3. MapChain(ne, he, b, e, l)
    BY <1>9, <2>1
  <2>4. s \in Seq(Seq(Y)) /\ Len(s) = n /\ \A i \in 1 .. n : s[i] = TextOf(hp[c[0 + i - 1]], x)
    <3>1. /\ s \in Seq(Seq(Y)) /\ Len(s) = n - 0
          /\ \A i \in 1 .. n - 0 : s[i] = TextOf(hp[c[0 + i - 1]], x)
      BY <1>1, <2>1, <2>2, TextsAre
    <3> QED BY <2>2, <3>1
  <2>5. t \in Seq(Seq(Y)) /\ Len(t) = l /\ \A i \in 1 .. l : t[i] = TextOf(he[e[0 + i - 1]], x)
    <3>1. /\ t \in Seq(Seq(Y)) /\ Len(t) = l - 0
          /\ \A i \in 1 .. l - 0 : t[i] = TextOf(he[e[0 + i - 1]], x)
      BY <1>10, <2>1, <2>2, <2>3, TextsAre
    <3> QED BY <2>2, <3>1
  <2>6. \A y \in DOMAIN he : TextOf(he[y], x) = TextOf(hp[y], x)
    BY <1>5 DEF TextOf, IsOf
  <2>7. \A i \in Nat : i < l => e[i] \in DOMAIN he
    BY <1>10, <2>3, MapChainIs
  <2>8. ASSUME NEW i \in 1 .. l
        PROVE  t[i] = TextOf(hp[e[i - 1]], x)
               /\ s[i] = TextOf(hp[c[i - 1]], x) /\ s[i + 1] = TextOf(hp[c[i]], x)
               /\ e[i - 1] = IF i - 1 < m THEN c[i - 1] ELSE c[i]
    <3>1. /\ 0 + i - 1 = i - 1 /\ 0 + (i + 1) - 1 = i /\ i - 1 \in Nat /\ i - 1 < l
          /\ i \in 1 .. n /\ i + 1 \in 1 .. n /\ (i - 1) + 1 = i
      BY <1>2, <2>1, <2>2
    <3>2. s[i] = TextOf(hp[c[i - 1]], x) /\ s[i + 1] = TextOf(hp[c[i]], x)
      BY <2>4, <3>1
    <3>3. t[i] = TextOf(hp[e[i - 1]], x)
      BY <2>5, <2>6, <2>7, <3>1
    <3>4. e[i - 1] = IF i - 1 < m THEN c[i - 1] ELSE c[i]
      BY <1>8, <3>1 DEF Except
    <3> QED BY <3>2, <3>3, <3>4
  <2>9. LacksText(t, s, m + 1, Seq(Y))
    <3>1. m + 1 \in 1 .. Len(s) /\ Len(t) = Len(s) - 1
      BY <1>1, <1>2, <2>1, <2>4, <2>5
    <3>2. \A i \in 1 .. (m + 1) - 1 : i \in 1 .. l /\ i - 1 < m
      BY <1>1, <1>2, <2>1
    <3>3. \A i \in m + 1 .. Len(t) : i \in 1 .. l /\ ~ i - 1 < m
      BY <1>1, <1>2, <2>1, <2>5
    <3>4. \A i \in 1 .. (m + 1) - 1 : t[i] = s[i]
      BY <2>8, <3>2
    <3>5. \A i \in m + 1 .. Len(t) : t[i] = s[i + 1]
      BY <2>8, <3>3
    <3> QED BY <2>4, <2>5, <3>1, <3>4, <3>5 DEF LacksText
  <2>10. PICK g : g = m + 1
    OBVIOUS
  <2>11. \E a, d \in Seq(Y) :
            /\ FlattenSeq(s) = (a \o s[g]) \o d /\ FlattenSeq(t) = a \o d
            /\ (\A i \in 1 .. g - 1 : s[i] = <<>>) => a = <<>>
    <3>1. LacksText(t, s, g, Seq(Y))
      BY <2>9, <2>10
    <3>2. LacksPart(t, s, g, Seq(Y))
      BY <3>1, FlattenDrop
    <3> QED BY <3>2 DEF LacksPart
  <2>12. s[g] = TextOf(hp[c[m]], x)
    <3>1. g \in 1 .. n /\ 0 + g - 1 = m
      BY <1>1, <1>2, <2>10
    <3> QED BY <2>4, <3>1
  <2>13. ASSUME \A j \in Nat : j < m => ~ IsOf(hp[c[j]], x) PROVE \A i \in 1 .. g - 1 : s[i] = <<>>
    <3>1. \A i \in 1 .. g - 1 : i \in 1 .. n /\ 0 + i - 1 = i - 1 /\ i - 1 \in Nat /\ i - 1 < m
      BY <1>1, <1>2, <2>10
    <3> QED BY <2>4, <2>13, <3>1 DEF TextOf
  <2>14. ValuesFrom(nd[b], hp, x) = FlattenSeq(s)
    BY <1>1, <2>1, ValuesAre
  <2>15. ValuesFrom(ne[b], he, x) = FlattenSeq(t)
    BY <1>10, <2>1, <2>3, ValuesAre
  <2> QED BY <2>1, <2>11, <2>12, <2>13, <2>14, <2>15, Zenon DEF ValueDropped
<1> QED BY <1>10, <1>11, <1>12

\* What the actions of HashMap do.
OneStack(k) == \A x \in Keys : M!Unmoved(x) \/ (M!Same(x, k) /\ (M!Pushed(x) \/ M!Popped(x)))

LEMMA InsertPushes ==
    ASSUME MapGood(node, heap), NEW k \in Keys, NEW v \in MapValues, M!Insert(k, v)
    PROVE  MapGood(node', heap') /\ OneStack(k)
<1>1. PICK s \in 1 .. MapNodes : PushNode(node, heap, k, v, s, node', heap')
  <2>1. PICK s \in 1 .. MapNodes :
          /\ s \notin DOMAIN heap
          /\ heap' = [x \in DOMAIN heap \cup {s} |->
                        IF x = s THEN [next |-> node[M!Bucket(k)], name |-> NameOf[k], hash |-> HashOf[k], value |-> v]
                        ELSE heap[x]]
          /\ node' = [node EXCEPT ![M!Bucket(k)] = s]
    BY DEF M!Insert
  <2> QED BY <2>1 DEF PushNode
<1>2. /\ MapGood(node', heap')
      /\ \A x \in Keys :
            ValuesFrom(node'[M!Bucket(x)], heap', x) =
                (IF M!Same(x, k) THEN <<v>> ELSE <<>>) \o ValuesFrom(node[M!Bucket(x)], heap, x)
  <2>1. PICK nd, hp, ne, he : nd = node /\ hp = heap /\ ne = node' /\ he = heap'
    OBVIOUS
  <2>2. MapGood(nd, hp) /\ PushNode(nd, hp, k, v, s, ne, he)
    BY <1>1, <2>1
  <2>3. /\ MapGood(ne, he)
        /\ \A x \in Keys :
              ValuesFrom(ne[M!Bucket(x)], he, x) =
                  (IF M!Same(x, k) THEN <<v>> ELSE <<>>) \o ValuesFrom(nd[M!Bucket(x)], hp, x)
    BY <2>2, NodePushed
  <2> QED BY <2>1, <2>3
<1>3. ASSUME NEW x \in Keys
      PROVE  M!Unmoved(x) \/ (M!Same(x, k) /\ M!Pushed(x))
  <2>1. M!ValuesOf(x)' = (IF M!Same(x, k) THEN <<v>> ELSE <<>>) \o M!ValuesOf(x)
    BY <1>2, MapReads
  <2>2. CASE M!Same(x, k)
    BY <2>1, <2>2 DEF M!Pushed
  <2>3. CASE ~ M!Same(x, k)
    <3>1. M!ValuesOf(x) \in Seq(MapValues)
      <4>1. M!Bucket(x) \in 0 .. MapSize - 1
        BY MapFacts
      <4>2. PICK c, n : MapChain(node, heap, M!Bucket(x), c, n)
        BY <4>1 DEF MapGood
      <4>3. ValuesFrom(node[M!Bucket(x)], heap, x) \in Seq(MapValues)
        BY <4>2, ValuesType
      <4> QED BY <4>3, MapReads
    <3>2. <<>> \o M!ValuesOf(x) = M!ValuesOf(x)
      BY <3>1, Assoc3
    <3> QED BY <2>1, <2>3, <3>2 DEF M!Unmoved
  <2> QED BY <2>2, <2>3
<1> QED BY <1>2, <1>3 DEF OneStack

LEMMA RemovePops ==
    ASSUME MapGood(node, heap), NEW k \in Keys, NEW c, NEW n, NEW m,
           DropNode(node, heap, M!Bucket(k), c, n, m, node', heap'),
           IsOf(heap[c[m]], k), \A j \in Nat : j < m => ~ IsOf(heap[c[j]], k),
           answer' = heap[c[m]].value
    PROVE  MapGood(node', heap') /\ OneStack(k)
<1>1. PICK b : b = M!Bucket(k)
  OBVIOUS
<1>2. /\ MapGood(node', heap')
      /\ \A x \in Keys : M!Bucket(x) # b =>
            ValuesFrom(node'[M!Bucket(x)], heap', x) = ValuesFrom(node[M!Bucket(x)], heap, x)
      /\ \A x \in Keys : ValueDropped(node, heap, b, c, m, node', heap', x)
  <2>1. PICK nd, hp, ne, he : nd = node /\ hp = heap /\ ne = node' /\ he = heap'
    OBVIOUS
  <2>2. MapGood(nd, hp) /\ DropNode(nd, hp, b, c, n, m, ne, he)
    BY <1>1, <2>1
  <2>3. /\ MapGood(ne, he)
        /\ \A x \in Keys : M!Bucket(x) # b =>
              ValuesFrom(ne[M!Bucket(x)], he, x) = ValuesFrom(nd[M!Bucket(x)], hp, x)
        /\ \A x \in Keys : ValueDropped(nd, hp, b, c, m, ne, he, x)
    BY <2>2, NodeDropped
  <2> QED BY <2>1, <2>3
<1>3. heap[c[m]].value \in MapValues
  <2>1. MapChain(node, heap, b, c, n) /\ m \in Nat /\ m < n
    BY <1>1 DEF DropNode
  <2>2. c[m] \in DOMAIN heap
    BY <2>1, MapChainIs
  <2> QED BY <2>2 DEF MapGood, NodeType
<1>4. ASSUME NEW x \in Keys
      PROVE  M!Unmoved(x) \/ (M!Same(x, k) /\ M!Popped(x))
  <2>1. CASE M!Bucket(x) # b
    <3>1. M!ValuesOf(x)' = M!ValuesOf(x)
      BY <1>2, <2>1, MapReads
    <3> QED BY <3>1 DEF M!Unmoved
  <2>2. CASE M!Bucket(x) = b
    <3>1. PICK a, d \in Seq(MapValues) :
             /\ ValuesFrom(node[b], heap, x) = (a \o TextOf(heap[c[m]], x)) \o d
             /\ ValuesFrom(node'[b], heap', x) = a \o d
             /\ (\A j \in Nat : j < m => ~ IsOf(heap[c[j]], x)) => a = <<>>
      BY <1>2 DEF ValueDropped
    <3>2. /\ M!ValuesOf(x) = (a \o TextOf(heap[c[m]], x)) \o d
          /\ M!ValuesOf(x)' = a \o d
      BY <2>2, <3>1, MapReads
    <3>3. CASE M!Same(x, k)
      <4>1. \A e : IsOf(e, x) <=> IsOf(e, k)
        BY <3>3 DEF IsOf, M!Same
      <4>2. a = <<>> /\ TextOf(heap[c[m]], x) = <<heap[c[m]].value>>
        BY <3>1, <4>1 DEF TextOf
      <4>3. PICK v : v = heap[c[m]].value
        OBVIOUS
      <4>4. <<>> \o <<v>> = <<v>> /\ <<>> \o d = d
        BY Assoc3
      <4>5. M!ValuesOf(x) = <<v>> \o M!ValuesOf(x)' /\ answer' = v /\ v \in MapValues
        BY <1>3, <3>2, <4>2, <4>3, <4>4
      <4> QED BY <3>3, <4>5 DEF M!Popped
    <3>4. CASE ~ M!Same(x, k)
      <4>1. TextOf(heap[c[m]], x) = <<>>
        BY <3>4 DEF TextOf, IsOf, M!Same
      <4>2. a \o <<>> = a
        BY Assoc3
      <4>3. M!ValuesOf(x)' = M!ValuesOf(x)
        BY <3>2, <4>1, <4>2
      <4> QED BY <4>3 DEF M!Unmoved
    <3> QED BY <3>3, <3>4
  <2> QED BY <2>1, <2>2
<1> QED BY <1>2, <1>4 DEF OneStack

LEMMA RemovesPop ==
    ASSUME MapGood(node, heap), NEW k \in Keys, M!RemoveFirst(k) \/ M!RemoveLater(k)
    PROVE  MapGood(node', heap') /\ OneStack(k)
<1>1. PICK b : b = M!Bucket(k)
  OBVIOUS
<1>2. b \in 0 .. MapSize - 1 /\ MapNodes \in Nat /\ 0 \in 0 .. MapNodes
  BY <1>1, MapFacts
<1>3. PICK c, n : MapChain(node, heap, b, c, n)
  BY <1>2 DEF MapGood
<1>4. /\ node[b] = c[0] /\ n \in Nat
      /\ \A i \in Nat : i < n => c[i] \in DOMAIN heap /\ heap[c[i]].next = c[i + 1]
      /\ \A i \in 0 .. MapNodes : WalkFrom(node[b], heap)[i] = c[i]
  BY <1>3, MapChainIs
<1>5. CASE M!RemoveFirst(k)
  <2>1. FoundFrom(node[b], heap, k, 0)
    BY <1>1, <1>5, MapReads DEF M!RemoveFirst
  <2>2. 0 < n /\ IsOf(heap[c[0]], k) /\ \A j \in Nat : j < 0 => ~ IsOf(heap[c[j]], k)
    <3>1. MapGood(node, heap) /\ MapChain(node, heap, b, c, n) /\ 0 \in 0 .. MapNodes
      BY <1>2, <1>3
    <3>2. FirstOf(heap, c, n, k, 0)
      BY <2>1, <3>1, FoundIs, Zenon
    <3> QED BY <3>2 DEF FirstOf
  <2>3. /\ node' = [node EXCEPT ![b] = heap[c[0]].next] /\ answer' = heap[c[0]].value
        /\ heap' = [x \in DOMAIN heap \ {c[0]} |-> heap[x]]
    BY <1>1, <1>4, <1>5 DEF M!RemoveFirst, M!Cleared
  <2>4. heap[c[0]].next = c[1]
    BY <1>4, <2>2
  <2>5. DropNode(node, heap, b, c, n, 0, node', heap')
    BY <1>2, <1>3, <2>2, <2>3, <2>4 DEF DropNode
  <2> QED BY <1>1, <2>2, <2>3, <2>5, RemovePops
<1>6. CASE M!RemoveLater(k)
  <2>1. PICK m \in M!Found(k) \ {0} : \E p \in {M!Walk(b)[m]} :
          M!Cleared(p, [heap EXCEPT ![M!Walk(b)[m - 1]].next = heap[p].next])
    BY <1>1, <1>6 DEF M!RemoveLater
  <2>2. m \in 0 .. MapNodes /\ m # 0 /\ m - 1 \in 0 .. MapNodes /\ FoundFrom(node[b], heap, k, m)
    <3>1. m \in PlacesFrom(node[b], heap, k) /\ m # 0
      BY <1>1, <2>1, MapReads
    <3>2. m \in 0 .. MapNodes /\ FoundFrom(node[b], heap, k, m)
      BY <3>1 DEF PlacesFrom
    <3> QED BY <1>2, <3>1, <3>2
  <2>3. m \in Nat /\ m < n /\ IsOf(heap[c[m]], k) /\ \A j \in Nat : j < m => ~ IsOf(heap[c[j]], k)
    <3>1. MapGood(node, heap) /\ MapChain(node, heap, b, c, n)
      BY <1>3
    <3>2. FirstOf(heap, c, n, k, m)
      BY <2>2, <3>1, FoundIs, Zenon
    <3> QED BY <3>2 DEF FirstOf
  <2>4. m - 1 \in Nat /\ m - 1 < n
    BY <1>4, <2>2, <2>3
  <2>5. M!Walk(b)[m] = c[m] /\ M!Walk(b)[m - 1] = c[m - 1]
    BY <1>4, <2>2, MapReads
  <2>6. c[m - 1] \in DOMAIN heap /\ c[m] \in DOMAIN heap /\ heap[c[m]].next = c[m + 1]
    BY <1>4, <2>3, <2>4
  <2>7. PICK links : links = [heap EXCEPT ![c[m - 1]].next = c[m + 1]]
    OBVIOUS
  <2>8. heap' = [x \in DOMAIN heap \ {c[m]} |-> links[x]] /\ answer' = heap[c[m]].value
    BY <2>1, <2>5, <2>6, <2>7 DEF M!Cleared
  <2>9. \A x \in DOMAIN heap :
           links[x] = IF x = c[m - 1] THEN [heap[x] EXCEPT !.next = c[m + 1]] ELSE heap[x]
    BY <2>6, <2>7
  <2>10. node' = node
    BY <1>6 DEF M!RemoveLater
  <2>11. DropNode(node, heap, b, c, n, m, node', heap')
    BY <1>2, <1>3, <2>2, <2>3, <2>8, <2>9, <2>10 DEF DropNode
  <2> QED BY <1>1, <2>3, <2>8, <2>11, RemovePops
<1> QED BY <1>5, <1>6

\* Every node is in the chain of some bucket, so hash_delete frees them all.
LEMMA DeleteFrees ==
    ASSUME MapGood(node, heap), M!Delete
    PROVE  DOMAIN heap' = {}
<1>1. DOMAIN heap' = DOMAIN heap \ {M!Walk(b)[m] : b \in 0 .. MapSize - 1, m \in 0 .. MapNodes}
  BY DEF M!Delete
<1>2. ASSUME NEW x \in DOMAIN heap
      PROVE  x \in {M!Walk(b)[m] : b \in 0 .. MapSize - 1, m \in 0 .. MapNodes}
  <2>1. PICK b : b = heap[x].hash % MapSize
    OBVIOUS
  <2>2. b \in 0 .. MapSize - 1
    <3>1. heap[x].hash \in Nat /\ MapSize \in Nat \ {0}
      BY MapFacts DEF MapGood, NodeType
    <3> QED BY <2>1, <3>1
  <2>3. PICK c, n : MapChain(node, heap, b, c, n)
    BY <2>2 DEF MapGood
  <2>4. /\ n \in Nat /\ n <= MapNodes /\ MapNodes \in Nat
        /\ \E i \in Nat : i < n /\ c[i] = x
        /\ \A m \in 0 .. MapNodes : WalkFrom(node[b], heap)[m] = c[m]
    BY <2>1, <2>3, MapChainIs, MapFacts
  <2>5. PICK i \in 0 .. MapNodes : c[i] = x
    BY <2>4
  <2>6. M!Walk(b)[i] = x
    BY <2>4, <2>5, MapReads
  <2> QED BY <2>2, <2>6
<1> QED BY <1>1, <1>2

LEMMA TopAfter ==
    ASSUME MapGood(node', heap')
    PROVE  \A x \in Keys :
              M!Search(x)' = IF M!ValuesOf(x)' = <<>> THEN M!NotFound ELSE M!ValuesOf(x)'[1]
<1> TAKE x \in Keys
<1>1. PICK b, nd, hp : b = M!Bucket(x) /\ nd = node' /\ hp = heap'
  OBVIOUS
<1>2. MapGood(nd, hp) /\ b \in 0 .. MapSize - 1
  BY <1>1, MapFacts
<1>3. PICK c, n : MapChain(nd, hp, b, c, n)
  BY <1>2 DEF MapGood
<1>4. PICK V : V = ValuesFrom(nd[b], hp, x)
  OBVIOUS
<1>5. SearchFrom(nd[b], hp, x) = IF V = <<>> THEN M!NotFound ELSE V[1]
  BY <1>2, <1>3, <1>4, TopIs
<1>6. M!Search(x)' = SearchFrom(nd[b], hp, x) /\ M!ValuesOf(x)' = V
  BY <1>1, <1>4, MapReads
<1> QED BY <1>5, <1>6

\* One step of the map.
StackStep ==
    IF state' = "deleted" THEN DOMAIN heap' = {}
    ELSE /\ \E k \in Keys : OneStack(k)
         /\ \A x \in Keys :
               M!Search(x)' = IF M!ValuesOf(x)' = <<>> THEN M!NotFound ELSE M!ValuesOf(x)'[1]

LEMMA MapStep ==
    ASSUME MapInv, M!Next
    PROVE  MapInv' /\ StackStep
<1>1. CASE M!Delete
  <2>1. state = "live" /\ state' = "deleted"
    BY <1>1 DEF M!Delete
  <2>2. DOMAIN heap' = {}
    BY <1>1, <2>1, DeleteFrees DEF MapInv
  <2> QED BY <2>1, <2>2 DEF MapInv, StackStep
<1>2. ASSUME NEW k \in Keys,
             (\E v \in MapValues : M!Insert(k, v)) \/ M!RemoveFirst(k) \/ M!RemoveLater(k) \/ M!RemoveNothing(k)
      PROVE  MapInv' /\ StackStep
  <2>1. state = "live" /\ state' # "deleted"
    BY <1>2 DEF M!Insert, M!RemoveFirst, M!RemoveLater, M!RemoveNothing
  <2>2. MapGood(node, heap)
    BY <2>1 DEF MapInv
  <2>3. CASE \E v \in MapValues : M!Insert(k, v)
    <3>1. MapGood(node', heap') /\ OneStack(k)
      BY <2>2, <2>3, InsertPushes
    <3> QED BY <2>1, <3>1, TopAfter DEF MapInv, StackStep
  <2>4. CASE M!RemoveFirst(k) \/ M!RemoveLater(k)
    <3>1. MapGood(node', heap') /\ OneStack(k)
      BY <2>2, <2>4, RemovesPop
    <3> QED BY <2>1, <3>1, TopAfter DEF MapInv, StackStep
  <2>5. CASE M!RemoveNothing(k)
    <3>1. node' = node /\ heap' = heap
      BY <2>5 DEF M!RemoveNothing
    <3>2. MapGood(node', heap')
      BY <2>2, <3>1
    <3>3. \A x : M!ValuesOf(x)' = M!ValuesOf(x)
      BY <3>1, MapReads
    <3>4. OneStack(k)
      BY <3>3 DEF OneStack, M!Unmoved
    <3> QED BY <2>1, <3>2, <3>4, TopAfter DEF MapInv, StackStep
  <2> QED BY <1>2, <2>3, <2>4, <2>5
<1> QED BY <1>1, <1>2 DEF M!Next

LEMMA MapStart == M!Init => MapInv
<1> SUFFICES ASSUME M!Init PROVE MapGood(node, heap)
  BY DEF MapInv
<1>1. node = [b \in 0 .. MapSize - 1 |-> M!Null] /\ DOMAIN heap = {} /\ MapNodes \in Nat /\ M!Null = 0
  BY MapFacts DEF M!Init
<1>2. ASSUME NEW b \in 0 .. MapSize - 1 PROVE \E c, n : MapChain(node, heap, b, c, n)
  <2>1. PICK c : c = [i \in Nat |-> M!Null]
    OBVIOUS
  <2>2. InBucket(heap, b) = {}
    BY <1>1 DEF InBucket
  <2>3. MapChain(node, heap, b, c, 0)
    BY <1>1, <2>1, <2>2 DEF MapChain, Linked
  <2> QED BY <2>3
<1>3. node \in [0 .. MapSize - 1 -> 0 .. MapNodes]
  BY <1>1
<1> QED BY <1>1, <1>2, <1>3 DEF MapGood

LEMMA MapAlone == [AllNext]_allVars => [M!Next]_mapVars
  BY DEF AllNext, allVars, mapVars

\* hashmap.h: whatever shares its bucket, its hash or its name, every key has a
\* stack of values of its own; hash_insert puts one on it, hash_remove takes the
\* top off and returns it, hash_search returns it, and hash_delete frees all.
THEOREM StacksCorrect == AllSpec => StackPerKey
<1>1. AllInit => MapInv
  BY MapStart DEF AllInit
<1>2. MapInv /\ [M!Next]_mapVars => MapInv'
  <2> SUFFICES ASSUME MapInv, [M!Next]_mapVars PROVE MapInv'
    OBVIOUS
  <2>1. CASE M!Next
    BY <2>1, MapStep
  <2>2. CASE UNCHANGED mapVars
    BY <2>2 DEF mapVars, MapInv
  <2> QED BY <2>1, <2>2
<1>3. MapInv /\ [M!Next]_mapVars =>
         [IF state' = "deleted" THEN DOMAIN heap' = {}
          ELSE /\ \E k \in Keys : \A x \in Keys :
                     M!Unmoved(x) \/ (M!Same(x, k) /\ (M!Pushed(x) \/ M!Popped(x)))
               /\ \A x \in Keys :
                     M!Search(x)' = (IF M!ValuesOf(x)' = <<>> THEN M!NotFound ELSE M!ValuesOf(x)'[1])]_M!vars
  <2> SUFFICES ASSUME MapInv, M!Next PROVE StackStep
    BY DEF StackStep, OneStack, mapVars, M!vars
  <2> QED BY MapStep
<1>4. [AllNext]_allVars => [M!Next]_mapVars
  BY MapAlone
<1> QED BY <1>1, <1>2, <1>3, <1>4, PTL DEF AllSpec, StackPerKey, M!StackPerKey

-----------------------------------------------------------------------------
(* The databuffer. *)

Byte == 0 .. Base - 1
BufferType ==
    [header : 0 .. Base * Base - 1, offset : Nat, size : Nat, chunks : Seq(Seq(Byte))]

\* size and offset agree with the chunks.
Exact(d) ==
    /\ d \in BufferType
    /\ d.size = Len(FlattenSeq(d.chunks)) - d.offset
    /\ IF d.chunks = <<>> THEN d.offset = 0 ELSE d.offset < Len(Head(d.chunks))

\* Module Framing has the FlattenSeq of this module.
LEMMA SameFlatten == \A x : B!FlattenSeq(x) = FlattenSeq(x)
  BY DEF B!FlattenSeq, FlattenSeq

LEMMA BufferFields ==
    ASSUME NEW d, Exact(d)
    PROVE  /\ d.header \in 0 .. Base * Base - 1 /\ d.offset \in Nat /\ d.size \in Nat
           /\ d.chunks \in Seq(Seq(Byte)) /\ Len(d.chunks) \in Nat
           /\ FlattenSeq(d.chunks) \in Seq(Byte) /\ Len(FlattenSeq(d.chunks)) = d.offset + d.size
           /\ d.offset \in 0 .. Len(FlattenSeq(d.chunks))
           /\ d.offset + d.size \in 0 .. Len(FlattenSeq(d.chunks))
<1>1. /\ d.header \in 0 .. Base * Base - 1 /\ d.offset \in Nat /\ d.size \in Nat
      /\ d.chunks \in Seq(Seq(Byte))
  BY DEF Exact, BufferType
<1>2. FlattenSeq(d.chunks) \in Seq(Byte)
  BY <1>1, FlattenType
<1>3. Len(FlattenSeq(d.chunks)) \in Nat /\ Len(d.chunks) \in Nat
  BY <1>1, <1>2, LenProperties
<1>4. d.size = Len(FlattenSeq(d.chunks)) - d.offset
  BY DEF Exact
<1>5. Len(FlattenSeq(d.chunks)) = d.offset + d.size
  BY <1>1, <1>3, <1>4
<1> QED BY <1>1, <1>2, <1>3, <1>5

\* What can be read are size bytes from offset on.
LEMMA UnreadIs ==
    ASSUME NEW d, Exact(d)
    PROVE  /\ B!Unread(d) = Past(FlattenSeq(d.chunks), d.offset)
           /\ B!Unread(d) \in Seq(Byte) /\ Len(B!Unread(d)) = d.size
<1> PICK x : x = FlattenSeq(d.chunks)
  OBVIOUS
<1>1. x \in Seq(Byte) /\ Len(x) = d.offset + d.size /\ d.offset \in 0 .. Len(x)
      /\ d.offset \in Nat /\ d.size \in Nat
  BY BufferFields
<1>2. B!Unread(d) = Past(x, d.offset)
  BY SameFlatten DEF B!Unread, Past
<1>3. Past(x, d.offset) \in Seq(Byte) /\ Len(Past(x, d.offset)) = Len(x) - d.offset
  BY <1>1, CutAt
<1> QED BY <1>1, <1>2, <1>3

\* A push adds bytes at the end.
LEMMA PushIs ==
    ASSUME NEW d, Exact(d), NEW x \in Seq(Byte), x # <<>>, NEW p, p = B!Pushed(d, x)
    PROVE  /\ Exact(p) /\ p.header = d.header /\ Len(p.chunks) = Len(d.chunks) + 1
           /\ B!Unread(p) = B!Unread(d) \o x
<1>1. /\ p.header = d.header /\ p.offset = d.offset /\ p.size = d.size + Len(x)
      /\ p.chunks = Append(d.chunks, x)
      /\ p = [header |-> p.header, offset |-> p.offset, size |-> p.size, chunks |-> p.chunks]
  BY DEF B!Pushed, Exact, BufferType
<1>2. Len(x) \in Nat \ {0}
  BY EmptySeq
<1>3. /\ p.chunks \in Seq(Seq(Byte)) /\ p.chunks # <<>> /\ Len(p.chunks) = Len(d.chunks) + 1
      /\ FlattenSeq(p.chunks) = FlattenSeq(d.chunks) \o x
      /\ Head(p.chunks) = IF d.chunks = <<>> THEN x ELSE Head(d.chunks)
  <2>1. d.chunks \in Seq(Seq(Byte))
    BY BufferFields
  <2> PICK c : c = d.chunks
    OBVIOUS
  <2>2. c \in Seq(Seq(Byte))
    BY <2>1
  <2>3. /\ Append(c, x) \in Seq(Seq(Byte)) /\ Append(c, x) # <<>> /\ Len(Append(c, x)) = Len(c) + 1
    BY <2>2, AppendProperties
  <2>4. FlattenSeq(Append(c, x)) = FlattenSeq(c) \o x
    BY <2>2, FlattenAppend
  <2>5. Head(Append(c, x)) = IF c = <<>> THEN x ELSE Head(c)
    BY <2>2, HeadTailAppend
  <2> QED BY <1>1, <2>3, <2>4, <2>5
<1> PICK f : f = FlattenSeq(d.chunks)
  OBVIOUS
<1>4. /\ f \in Seq(Byte) /\ Len(f) = d.offset + d.size /\ d.offset \in 0 .. Len(f)
      /\ d.offset \in Nat /\ d.size \in Nat
  BY BufferFields
<1>5. Len(f \o x) = d.offset + d.size + Len(x)
  <2>1. f \in Seq(Byte)
    BY <1>4
  <2>2. Len(f \o x) = Len(f) + Len(x)
    BY <2>1, ConcatProperties
  <2> QED BY <1>4, <2>2
<1>6. Exact(p)
  <2>1. p.header \in 0 .. Base * Base - 1 /\ p.offset \in Nat /\ p.size \in Nat
    BY <1>1, <1>2, BufferFields
  <2>2. p \in BufferType
    BY <1>1, <1>3, <2>1 DEF BufferType
  <2>3. p.size = Len(FlattenSeq(p.chunks)) - p.offset
    BY <1>1, <1>2, <1>3, <1>4, <1>5
  <2>4. p.offset < Len(Head(p.chunks))
    BY <1>1, <1>2, <1>3 DEF Exact
  <2> QED BY <1>3, <2>2, <2>3, <2>4 DEF Exact
<1>7. B!Unread(p) = B!Unread(d) \o x
  <2>1. B!Unread(p) = Past(f \o x, d.offset)
    BY <1>1, <1>3, <1>6, UnreadIs
  <2>2. B!Unread(d) = Past(f, d.offset)
    BY UnreadIs
  <2>3. Past(f \o x, d.offset) = Past(f, d.offset) \o x
    BY <1>4, PastBefore
  <2> QED BY <2>1, <2>2, <2>3
<1> QED BY <1>1, <1>3, <1>6, <1>7

\* There is a last chunk up to which a read of some bytes goes.
LEMMA GreatestBelow ==
    ASSUME NEW n \in Nat, NEW X, X \subseteq 0 .. n, X # {}
    PROVE  B!Max(X) \in X /\ \A y \in X : y <= B!Max(X)
<1> DEFINE Y == {n - x : x \in X}
<1>0. \A x \in X : x \in Int /\ n - x \in Nat
  OBVIOUS
<1>1. Y \subseteq Nat /\ Y # {}
  BY <1>0
<1>2. PICK y \in Y : \A z \in Y : y <= z
  BY <1>1, LeastNat
<1>3. PICK x \in X : y = n - x
  BY <1>2
<1>4. \A z \in X : x >= z
  <2> TAKE z \in X
  <2>1. n - z \in Y /\ x \in Nat /\ z \in Nat
    BY <1>3
  <2>2. n - x <= n - z
    BY <1>2, <1>3, <2>1
  <2> QED BY <2>1, <2>2
<1>5. \E w \in X : \A z \in X : w >= z
  BY <1>3, <1>4
<1>6. B!Max(X) \in X /\ \A z \in X : B!Max(X) >= z
  BY <1>5, Zenon DEF B!Max
<1> PICK m : m = B!Max(X)
  OBVIOUS
<1>7. m \in X /\ \A z \in X : m >= z
  BY <1>6
<1>8. \A z \in X : z <= m
  BY <1>0, <1>7
<1> QED BY <1>7, <1>8

\* A list of chunks, cut.
LEMMA CutChunks ==
    ASSUME NEW X, NEW s \in Seq(Seq(X)), NEW n \in 0 .. Len(s)
    PROVE  /\ SubSeq(s, 1, n) \in Seq(Seq(X)) /\ Len(SubSeq(s, 1, n)) = n
           /\ Past(s, n) \in Seq(Seq(X)) /\ Len(Past(s, n)) = Len(s) - n
           /\ s = SubSeq(s, 1, n) \o Past(s, n)
<1>1. PICK Y : Y = Seq(X)
  OBVIOUS
<1>2. s \in Seq(Y)
  BY <1>1
<1>3. /\ SubSeq(s, 1, n) \in Seq(Y) /\ Len(SubSeq(s, 1, n)) = n
      /\ Past(s, n) \in Seq(Y) /\ Len(Past(s, n)) = Len(s) - n
      /\ s = SubSeq(s, 1, n) \o Past(s, n)
  BY <1>2, CutAt
<1> QED BY <1>1, <1>3

\* One chunk more is cut off.
LEMMA NextChunk ==
    ASSUME NEW X, NEW s \in Seq(Seq(X)), NEW k \in Nat, k < Len(s)
    PROVE  /\ s[k + 1] \in Seq(X)
           /\ Head(Past(s, k)) = s[k + 1]
           /\ SubSeq(s, 1, k + 1) = Append(SubSeq(s, 1, k), s[k + 1])
<1>1. PICK Y : Y = Seq(X)
  OBVIOUS
<1>2. s \in Seq(Y) /\ Len(s) \in Nat
  BY <1>1, LenProperties
<1>3. k + 1 \in 1 .. Len(s) /\ (k + 1) - 1 = k /\ 1 \in 1 .. Len(s) /\ Len(s) \in k + 1 .. Len(s)
  BY <1>2
<1>4. s[k + 1] \in Y
  BY <1>2, <1>3, ElementOfSeq
<1>5. Head(SubSeq(s, k + 1, Len(s))) = s[k + 1]
  BY <1>2, <1>3, HeadTailOfSubSeq
<1>6. SubSeq(s, 1, k + 1) = SubSeq(s, 1, k) \o <<s[k + 1]>>
  BY <1>2, <1>3, SubSeqRecursiveSecond
<1>7. SubSeq(s, 1, k) \in Seq(Y)
  BY <1>2, <1>3, CutAt
<1>8. Append(SubSeq(s, 1, k), s[k + 1]) = SubSeq(s, 1, k) \o <<s[k + 1]>>
  BY <1>4, <1>7, AppendIsConcat
<1> QED BY <1>1, <1>4, <1>5, <1>6, <1>8 DEF Past

\* The chunks that lie within the first m bytes.
LEMMA LastChunk ==
    ASSUME NEW X, NEW s \in Seq(Seq(X)), NEW m \in Nat, NEW k,
           k = B!Max({j \in 0 .. Len(s) : Len(FlattenSeq(SubSeq(s, 1, j))) <= m})
    PROVE  /\ k \in 0 .. Len(s)
           /\ Len(FlattenSeq(SubSeq(s, 1, k))) <= m
           /\ k < Len(s) => m < Len(FlattenSeq(SubSeq(s, 1, k))) + Len(s[k + 1])
<1>0. Len(s) \in Nat
  BY LenProperties
<1> DEFINE upTo(j) == Len(FlattenSeq(SubSeq(s, 1, j)))
           T == {j \in 0 .. Len(s) : upTo(j) <= m}
<1>1. 0 \in T
  <2>1. SubSeq(s, 1, 0) = <<>>
    BY SubSeqEmpty
  <2>2. FlattenSeq(<<>>) = <<>>
    BY DEF FlattenSeq
  <2>3. FlattenSeq(SubSeq(s, 1, 0)) = <<>> /\ Len(<<>>) = 0
    BY <2>1, <2>2
  <2>4. upTo(0) = 0
    BY <2>3
  <2> QED BY <1>0, <2>4
<1>2. k \in T /\ \A j \in T : j <= k
  <2>1. T \subseteq 0 .. Len(s) /\ T # {}
    BY <1>1
  <2>2. B!Max(T) \in T /\ \A j \in T : j <= B!Max(T)
    BY <1>0, <2>1, GreatestBelow
  <2> QED BY <2>2
<1>3. k \in 0 .. Len(s) /\ k \in Nat /\ upTo(k) <= m
  BY <1>0, <1>2
<1>4. ASSUME k < Len(s) PROVE m < upTo(k) + Len(s[k + 1])
  <2>1. k + 1 \in 0 .. Len(s) /\ ~ (k + 1 <= k)
    BY <1>0, <1>3, <1>4
  <2>2. ~ upTo(k + 1) <= m
    BY <1>2, <2>1
  <2>3. PICK a : a = SubSeq(s, 1, k)
    OBVIOUS
  <2>4. PICK b : b = s[k + 1]
    OBVIOUS
  <2>5. a \in Seq(Seq(X)) /\ b \in Seq(X) /\ SubSeq(s, 1, k + 1) = Append(a, b)
    BY <1>3, <1>4, <2>3, <2>4, CutChunks, NextChunk
  <2>6. FlattenSeq(Append(a, b)) = FlattenSeq(a) \o b
    BY <2>5, FlattenAppend
  <2>7. PICK f : f = FlattenSeq(a)
    OBVIOUS
  <2>8. f \in Seq(X) /\ b \in Seq(X)
    BY <2>5, <2>7, FlattenType
  <2>9. Len(f \o b) = Len(f) + Len(b) /\ Len(f) \in Nat /\ Len(b) \in Nat
    BY <2>8, ConcatProperties, LenProperties
  <2>10. upTo(k + 1) = Len(f) + Len(b) /\ upTo(k) = Len(f)
    BY <2>3, <2>5, <2>6, <2>7, <2>9
  <2>11. ~ (Len(f) + Len(b) <= m)
    BY <2>2, <2>10
  <2> HIDE DEF upTo
  <2>12. m < Len(f) + Len(b)
    BY <2>9, <2>11
  <2> QED BY <2>4, <2>10, <2>12
<1> QED BY <1>3, <1>4

\* A cut list of bytes, as a list of chunks: what remains once m bytes are gone.
LEMMA CutBytes ==
    ASSUME NEW X, NEW s \in Seq(Seq(X)), NEW k \in 0 .. Len(s)
    PROVE  /\ FlattenSeq(SubSeq(s, 1, k)) \in Seq(X) /\ FlattenSeq(Past(s, k)) \in Seq(X)
           /\ FlattenSeq(s) = FlattenSeq(SubSeq(s, 1, k)) \o FlattenSeq(Past(s, k))
           /\ Len(FlattenSeq(s)) =
                  Len(FlattenSeq(SubSeq(s, 1, k))) + Len(FlattenSeq(Past(s, k)))
<1>1. PICK a : a = SubSeq(s, 1, k)
  OBVIOUS
<1>2. PICK c : c = Past(s, k)
  OBVIOUS
<1>3. a \in Seq(Seq(X)) /\ c \in Seq(Seq(X)) /\ s = a \o c
  <2>1. SubSeq(s, 1, k) \in Seq(Seq(X)) /\ Past(s, k) \in Seq(Seq(X))
    BY CutChunks
  <2>2. s = SubSeq(s, 1, k) \o Past(s, k)
    BY CutChunks
  <2> QED BY <1>1, <1>2, <2>1, <2>2
<1>4. FlattenSeq(a \o c) = FlattenSeq(a) \o FlattenSeq(c)
  BY <1>3, FlattenConcat
<1>5. PICK f : f = FlattenSeq(a)
  OBVIOUS
<1>6. PICK g : g = FlattenSeq(c)
  OBVIOUS
<1>7. f \in Seq(X) /\ g \in Seq(X)
  BY <1>3, <1>5, <1>6, FlattenType
<1>8. Len(f \o g) = Len(f) + Len(g)
  BY <1>7, ConcatProperties
<1> QED BY <1>1, <1>2, <1>3, <1>4, <1>5, <1>6, <1>7, <1>8

\* A read takes bytes from the front.
LEMMA ReadIs ==
    ASSUME NEW d, Exact(d), NEW n \in 0 .. d.size, NEW r, r = B!AfterRead(d, n)
    PROVE  /\ Exact(r) /\ r.header = d.header /\ r.size = d.size - n
           /\ Len(r.chunks) \in 0 .. Len(d.chunks)
           /\ B!Unread(r) = Past(B!Unread(d), n)
<1>1. PICK s : s = d.chunks
  OBVIOUS
<1>2. PICK o : o = d.offset
  OBVIOUS
<1>3. PICK z : z = d.size
  OBVIOUS
<1>4. /\ s \in Seq(Seq(Byte)) /\ o \in Nat /\ z \in Nat /\ n \in Nat /\ n <= z /\ o + n \in Nat
      /\ FlattenSeq(s) \in Seq(Byte) /\ Len(FlattenSeq(s)) = o + z /\ Len(s) \in Nat
  BY <1>1, <1>2, <1>3, BufferFields
<1>5. PICK k : k = B!Emptied(d, n)
  OBVIOUS
<1>6. k = B!Max({j \in 0 .. Len(s) : Len(FlattenSeq(SubSeq(s, 1, j))) <= o + n})
  BY <1>1, <1>2, <1>5, SameFlatten DEF B!Emptied
<1>7. PICK f : f = FlattenSeq(SubSeq(s, 1, k))
  OBVIOUS
<1>8. PICK c : c = Past(s, k)
  OBVIOUS
<1>9. PICK g : g = FlattenSeq(c)
  OBVIOUS
<1>10. k \in 0 .. Len(s) /\ Len(f) <= o + n /\ (k < Len(s) => o + n < Len(f) + Len(s[k + 1]))
  BY <1>4, <1>6, <1>7, LastChunk
<1>11. /\ f \in Seq(Byte) /\ g \in Seq(Byte) /\ FlattenSeq(s) = f \o g
       /\ Len(FlattenSeq(s)) = Len(f) + Len(g)
  BY <1>4, <1>7, <1>8, <1>9, <1>10, CutBytes
<1>12. c \in Seq(Seq(Byte)) /\ Len(c) = Len(s) - k
  BY <1>4, <1>8, <1>10, CutChunks
<1>13. /\ r.header = d.header /\ r.size = z - n /\ r.chunks = c /\ r.offset = o + n - Len(f)
       /\ r = [header |-> r.header, offset |-> r.offset, size |-> r.size, chunks |-> r.chunks]
  BY <1>1, <1>2, <1>3, <1>5, <1>7, <1>8, SameFlatten DEF B!AfterRead, Past, Exact, BufferType
<1>14. Len(f) \in Nat /\ Len(g) \in Nat
  BY <1>11, LenProperties
<1>15. PICK p : p = r.offset
  OBVIOUS
<1>16. p \in Nat /\ z - n \in Nat /\ p \in 0 .. Len(g) /\ Len(f) + p = o + n /\ z - n = Len(g) - p
  <2>1. p = o + n - Len(f) /\ Len(f) <= o + n /\ Len(f) + Len(g) = o + z
    BY <1>4, <1>10, <1>11, <1>13, <1>15
  <2>2. o \in Nat /\ n \in Nat /\ z \in Nat /\ n <= z
    BY <1>4
  <2>3. \A x, y, u, v, w \in Nat : x <= u + v /\ v <= w /\ x + y = u + w =>
            /\ u + v - x \in Nat /\ w - v \in Nat /\ u + v - x \in 0 .. y
            /\ x + (u + v - x) = u + v /\ w - v = y - (u + v - x)
    OBVIOUS
  <2> QED BY <1>14, <2>1, <2>2, <2>3
<1>17. r \in BufferType
  <2>1. r.header \in 0 .. Base * Base - 1
    BY <1>13, BufferFields
  <2>2. r.offset \in Nat /\ r.size \in Nat /\ r.chunks \in Seq(Seq(Byte))
    BY <1>12, <1>13, <1>15, <1>16
  <2> QED BY <1>13, <2>1, <2>2 DEF BufferType
<1>18. ASSUME c = <<>> PROVE Exact(r)
  <2>1. Len(g) = 0
    <3>1. FlattenSeq(<<>>) = <<>>
      BY DEF FlattenSeq
    <3> QED BY <1>9, <1>18, <3>1
  <2>2. p = 0
    BY <1>16, <2>1
  <2> QED BY <1>9, <1>12, <1>13, <1>15, <1>16, <1>17, <1>18, <2>2 DEF Exact
<1>19. ASSUME c # <<>> PROVE Exact(r)
  <2>1. k < Len(s) /\ k \in Nat
    <3>1. Len(c) # 0
      BY <1>12, <1>19, EmptySeq
    <3> QED BY <1>4, <1>10, <1>12, <3>1
  <2>2. Head(c) = s[k + 1] /\ s[k + 1] \in Seq(Byte)
    BY <1>4, <1>8, <2>1, NextChunk
  <2>3. PICK h : h = Len(s[k + 1])
    OBVIOUS
  <2>4. h \in Nat /\ o + n < Len(f) + h
    BY <1>10, <2>1, <2>2, <2>3, LenProperties
  <2>5. p < h
    BY <1>4, <1>14, <1>16, <2>4
  <2> QED BY <1>9, <1>13, <1>15, <1>16, <1>17, <1>19, <2>2, <2>3, <2>5 DEF Exact
<1>20. Exact(r)
  BY <1>18, <1>19
<1>21. B!Unread(r) = Past(B!Unread(d), n)
  <2>1. B!Unread(r) = Past(g, p)
    BY <1>9, <1>13, <1>15, <1>20, UnreadIs
  <2>2. B!Unread(d) = Past(f \o g, o)
    BY <1>1, <1>2, <1>11, UnreadIs
  <2>3. Past(f \o g, Len(f) + p) = Past(g, p)
    BY <1>11, <1>16, PastFurther
  <2>4. PICK w : w = f \o g
    OBVIOUS
  <2>5. w \in Seq(Byte) /\ o \in 0 .. Len(w) /\ n \in 0 .. Len(w) - o
    <3>1. w \in Seq(Byte) /\ Len(w) = o + z
      BY <1>4, <1>11, <2>4
    <3> QED BY <1>4, <3>1
  <2>6. Past(Past(w, o), n) = Past(w, o + n)
    BY <2>5, PastTwice
  <2> QED BY <1>16, <2>1, <2>2, <2>3, <2>4, <2>6
<1> QED
  <2>1. Len(c) \in 0 .. Len(s)
    BY <1>4, <1>10, <1>12
  <2> QED BY <1>1, <1>3, <1>13, <1>20, <1>21, <2>1

-----------------------------------------------------------------------------
(* The size field of a frame. *)

LEMMA StreamFacts ==
    /\ Base \in Nat \ {0} /\ PoolSize \in Nat \ {0, 1} /\ MinSize \in Nat \ {0}
    /\ \A b \in Bodies : b \in Seq(Byte) /\ Len(b) \in 1 .. Base * Base - 1
  BY ContainersAssumption DEF B!DataBufferAssumption, B!FramingAssumption, Byte

\* Two bytes are a size below Base * Base.
LEMMA PairRange ==
    ASSUME NEW h \in Byte, NEW l \in Byte
    PROVE  h * Base + l \in 0 .. Base * Base - 1
<1>1. Base \in Nat \ {0} /\ h \in Nat /\ l \in Nat /\ h <= Base - 1 /\ l <= Base - 1
  BY StreamFacts DEF Byte
<1>2. \A x, y \in Nat : x * y \in Nat
  OBVIOUS
<1>3. \A x, y, z \in Nat : x <= y => x * z <= y * z
  OBVIOUS
<1>4. h * Base \in Nat /\ h * Base <= (Base - 1) * Base /\ Base - 1 \in Nat
  BY <1>1, <1>2, <1>3
<1>5. (Base - 1) * Base = Base * Base - Base /\ Base * Base \in Nat
  BY <1>1
<1> QED BY <1>1, <1>4, <1>5

\* A size is written as two bytes, from which it is read back.
LEMMA PairBack ==
    ASSUME NEW n \in 0 .. Base * Base - 1
    PROVE  /\ n \div Base \in Byte /\ n % Base \in Byte
           /\ (n \div Base) * Base + (n % Base) = n
<1>1. Base \in Nat \ {0} /\ n \in Nat /\ Base * Base \in Nat /\ n < Base * Base
  <2>1. Base \in Nat \ {0}
    BY StreamFacts
  <2>2. Base * Base \in Nat
    BY <2>1
  <2> QED BY <2>1, <2>2
<1>2. PICK q : q = n \div Base
  OBVIOUS
<1>3. PICK m : m = n % Base
  OBVIOUS
<1>4. q \in Int /\ m \in 0 .. Base - 1 /\ n = Base * q + m
  BY <1>1, <1>2, <1>3
<1>5. q >= 0
  <2>1. SUFFICES ASSUME q <= -1 PROVE FALSE
    BY <1>4
  <2>2. \A x \in Int, y \in Nat : x <= -1 => y * x <= -y
    OBVIOUS
  <2>3. Base * q <= -Base /\ Base * q \in Int
    BY <1>1, <1>4, <2>1, <2>2
  <2> QED BY <1>1, <1>4, <2>3
<1>6. q < Base
  <2>1. SUFFICES ASSUME q >= Base PROVE FALSE
    BY <1>1, <1>4
  <2>2. \A x \in Int, y \in Nat : x >= y => y * x >= y * y
    OBVIOUS
  <2>3. Base * q >= Base * Base /\ Base * q \in Int
    BY <1>1, <1>4, <2>1, <2>2
  <2> QED BY <1>1, <1>4, <2>3
<1>7. q * Base = Base * q
  BY <1>1, <1>4
<1> QED BY <1>1, <1>2, <1>3, <1>4, <1>5, <1>6, <1>7 DEF Byte

\* The text of a body.
Enc == [b \in Bodies |-> B!Encoded(b)]

LEMMA EncodedIs ==
    /\ Enc \in [Bodies -> Seq(Byte)]
    /\ \A b \in Bodies :
           /\ Enc[b] = <<Len(b) \div Base, Len(b) % Base>> \o b
           /\ <<Len(b) \div Base, Len(b) % Base>> \in Seq(Byte)
<1>1. ASSUME NEW b \in Bodies
      PROVE  /\ Enc[b] = <<Len(b) \div Base, Len(b) % Base>> \o b /\ Enc[b] \in Seq(Byte)
             /\ <<Len(b) \div Base, Len(b) % Base>> \in Seq(Byte)
  <2>1. b \in Seq(Byte) /\ Len(b) \in 1 .. Base * Base - 1
    BY StreamFacts
  <2>2. Len(b) \in 0 .. Base * Base - 1
    BY <2>1
  <2>3. Len(b) \div Base \in Byte /\ Len(b) % Base \in Byte
    BY <2>2, PairBack
  <2>4. PICK q \in Byte, m \in Byte : q = Len(b) \div Base /\ m = Len(b) % Base
    BY <2>3
  <2>5. <<q, m>> \in Seq(Byte)
    OBVIOUS
  <2>6. <<q, m>> \o b \in Seq(Byte)
    BY <2>1, <2>5, ConcatProperties
  <2> QED BY <2>4, <2>5, <2>6 DEF Enc, B!Encoded
<1>2. Enc = [b \in Bodies |-> Enc[b]]
  BY DEF Enc
<1> QED BY <1>1, <1>2

\* d, with w still to come, holds the frames of rest, the first perhaps without
\* the size field, which has been read then.
Framed(d, w, rest) ==
    IF d.header = 0
    THEN B!Unread(d) \o w = Joined(Enc, rest)
    ELSE \E b, r : /\ Begins(rest, b, r, Bodies) /\ d.header = Len(b)
                   /\ B!Unread(d) \o w = b \o Joined(Enc, r)

\* The same bytes in two ways: what the shorter beginning leaves.
LEMMA Overlap ==
    ASSUME NEW X, NEW u \in Seq(X), NEW w \in Seq(X), NEW a \in Seq(X), NEW j \in Seq(X),
           u \o w = a \o j, Len(a) <= Len(u)
    PROVE  SubSeq(u, 1, Len(a)) = a /\ Past(u, Len(a)) \o w = j
<1>1. Len(a) \in Nat /\ Len(u) \in Nat /\ Len(a) \in 0 .. Len(u)
  <2>1. Len(a) \in Nat /\ Len(u) \in Nat
    BY LenProperties
  <2> QED BY <2>1
<1>2. Past(u, Len(a)) \o w = j
  <2>1. Past(u \o w, Len(a)) = Past(u, Len(a)) \o w
    BY <1>1, PastBefore
  <2>2. Past(a \o j, Len(a)) = j
    BY PastPart
  <2> QED BY <2>1, <2>2
<1>3. \A i \in 1 .. Len(a) : u[i] = a[i]
  <2> TAKE i \in 1 .. Len(a)
  <2>1. i \in 1 .. Len(u)
    BY <1>1
  <2>2. (u \o w)[i] = u[i]
    BY <2>1, ConcatProperties
  <2>3. (a \o j)[i] = a[i]
    BY ConcatProperties
  <2> QED BY <2>2, <2>3
<1>4. PICK c : c = SubSeq(u, 1, Len(a))
  OBVIOUS
<1>5. c \in Seq(X) /\ Len(c) = Len(a)
  BY <1>1, <1>4, CutAt
<1>6. \A i \in 1 .. Len(a) : c[i] = u[i]
  BY <1>1, <1>4
<1>7. c = a
  BY <1>3, <1>5, <1>6, SeqEqual
<1> QED BY <1>2, <1>4, <1>7

\* The lemmas on sequences, for bytes and bodies.
LEMMA BytesJoin ==
    \A s, t \in Seq(Byte) : s \o t \in Seq(Byte) /\ Len(s \o t) = Len(s) + Len(t)
  BY ConcatProperties

LEMMA BytesAssoc ==
    \A s, t, v \in Seq(Byte) : (s \o t) \o v = s \o (t \o v)
<1> SUFFICES ASSUME NEW s \in Seq(Byte), NEW t \in Seq(Byte), NEW v \in Seq(Byte)
             PROVE  (s \o t) \o v = s \o (t \o v)
  OBVIOUS
<1>1. Assoc(s, t, v)
  BY AssocAll
<1> QED BY <1>1, Zenon DEF Assoc

LEMMA BytesOverlap ==
    \A u, w, a, j \in Seq(Byte) :
        u \o w = a \o j /\ Len(a) <= Len(u) =>
            SubSeq(u, 1, Len(a)) = a /\ Past(u, Len(a)) \o w = j
<1> SUFFICES ASSUME NEW u \in Seq(Byte), NEW w \in Seq(Byte), NEW a \in Seq(Byte),
                    NEW j \in Seq(Byte), u \o w = a \o j, Len(a) <= Len(u)
             PROVE  SubSeq(u, 1, Len(a)) = a /\ Past(u, Len(a)) \o w = j
  OBVIOUS
<1> QED BY Overlap

LEMMA JoinedBytes == \A w \in Seq(Bodies) : Joined(Enc, w) \in Seq(Byte)
<1>1. Enc \in [Bodies -> Seq(Byte)]
  BY EncodedIs
<1> QED BY <1>1, JoinedType

LEMMA JoinedFirst ==
    \A v, x, w : Begins(v, x, w, Bodies) => Joined(Enc, v) = Enc[x] \o Joined(Enc, w)
<1> SUFFICES ASSUME NEW v, NEW x, NEW w, Begins(v, x, w, Bodies)
             PROVE  Joined(Enc, v) = Enc[x] \o Joined(Enc, w)
  OBVIOUS
<1>1. Enc \in [Bodies -> Seq(Byte)]
  BY EncodedIs
<1>2. Joins(Enc[x], Joined(Enc, w), Joined(Enc, v))
  BY <1>1, JoinedCons
<1> QED BY <1>2, Zenon DEF Joins

LEMMA JoinedLast ==
    \A w \in Seq(Bodies), x \in Bodies : Joined(Enc, Append(w, x)) = Joined(Enc, w) \o Enc[x]
<1> SUFFICES ASSUME NEW w \in Seq(Bodies), NEW x \in Bodies
             PROVE  Joined(Enc, Append(w, x)) = Joined(Enc, w) \o Enc[x]
  OBVIOUS
<1>1. Enc \in [Bodies -> Seq(Byte)]
  BY EncodedIs
<1>2. Joins(Joined(Enc, w), Enc[x], Joined(Enc, Append(w, x)))
  BY <1>1, JoinedAppend
<1> QED BY <1>2, Zenon DEF Joins

LEMMA JoinedTwo ==
    \A v, w \in Seq(Bodies) : Joined(Enc, v \o w) = Joined(Enc, v) \o Joined(Enc, w)
<1> SUFFICES ASSUME NEW v \in Seq(Bodies), NEW w \in Seq(Bodies)
             PROVE  Joined(Enc, v \o w) = Joined(Enc, v) \o Joined(Enc, w)
  OBVIOUS
<1>1. Enc \in [Bodies -> Seq(Byte)]
  BY EncodedIs
<1> QED BY <1>1, JoinedConcat

\* Setting the header leaves the bytes alone.
LEMMA HeaderSet ==
    ASSUME NEW r, Exact(r), NEW h \in 0 .. Base * Base - 1, NEW d, d = [r EXCEPT !.header = h]
    PROVE  /\ Exact(d) /\ d.header = h /\ d.size = r.size /\ d.chunks = r.chunks
           /\ B!Unread(d) = B!Unread(r)
<1>1. r \in BufferType
  BY DEF Exact
<1>2. /\ d.header = h /\ d.size = r.size /\ d.chunks = r.chunks /\ d.offset = r.offset
      /\ d \in BufferType
  BY <1>1 DEF BufferType
<1>3. Exact(d)
  BY <1>2 DEF Exact
<1>4. B!Unread(d) = B!Unread(r)
  BY <1>2 DEF B!Unread
<1> QED BY <1>2, <1>3, <1>4

\* A frame in full begins with its size.
LEMMA SizeRead ==
    ASSUME NEW u \in Seq(Byte), NEW w \in Seq(Byte), NEW rest \in Seq(Bodies),
           u \o w = Joined(Enc, rest), Len(u) >= 2
    PROVE  \E b, r : /\ Begins(rest, b, r, Bodies) /\ u[1] * Base + u[2] = Len(b)
                     /\ Past(u, 2) \o w = b \o Joined(Enc, r)
<1>1. rest # <<>>
  <2> SUFFICES ASSUME rest = <<>> PROVE FALSE
    OBVIOUS
  <2>1. u \o w = <<>>
    BY JoinedEmpty
  <2>2. Len(u \o w) = Len(u) + Len(w) /\ Len(u) \in Nat /\ Len(w) \in Nat
    BY ConcatProperties, LenProperties
  <2>3. Len(u \o w) = 0
    BY <2>1
  <2> QED BY <2>2, <2>3
<1>2. PICK b, r : Begins(rest, b, r, Bodies)
  <2>1. Head(rest) = rest[1] /\ Tail(rest) \in Seq(Bodies) /\ Len(Tail(rest)) = Len(rest) - 1
        /\ \A i \in 1 .. Len(Tail(rest)) : Tail(rest)[i] = rest[i + 1]
    BY <1>1, HeadTailProperties
  <2>2. Len(rest) \in Nat \ {0}
    BY <1>1, EmptySeq
  <2>3. rest[1] \in Bodies
    BY <2>2
  <2>4. Begins(rest, rest[1], Tail(rest), Bodies)
    BY <2>1, <2>2, <2>3 DEF Begins
  <2> QED BY <2>4
<1>3. b \in Bodies /\ r \in Seq(Bodies)
  BY <1>2 DEF Begins
<1>4. b \in Seq(Byte) /\ Len(b) \in 0 .. Base * Base - 1
  BY <1>3, StreamFacts
<1>5. PICK q \in Byte, m \in Byte : q = Len(b) \div Base /\ m = Len(b) % Base
  BY <1>4, PairBack
<1>6. PICK j : j = Joined(Enc, r)
  OBVIOUS
<1>7. j \in Seq(Byte)
  BY <1>3, <1>6, JoinedBytes
<1>8. u \o w = (<<q, m>> \o b) \o j
  <2>1. Enc[b] = <<q, m>> \o b
    BY <1>3, <1>5, EncodedIs
  <2>2. Joined(Enc, rest) = Enc[b] \o Joined(Enc, r)
    BY <1>2, JoinedFirst, Zenon
  <2> QED BY <1>6, <2>1, <2>2
<1>9. <<q, m>> \in Seq(Byte) /\ Len(<<q, m>>) = 2 /\ <<q, m>>[1] = q /\ <<q, m>>[2] = m
  OBVIOUS
<1>10. PICK a : a = <<q, m>>
  OBVIOUS
<1>11. u \o w = a \o (b \o j) /\ b \o j \in Seq(Byte) /\ a \in Seq(Byte) /\ Len(a) = 2
  <2>1. a \in Seq(Byte) /\ Len(a) = 2
    BY <1>9, <1>10
  <2>2. (a \o b) \o j = a \o (b \o j)
    BY <1>4, <1>7, <2>1, BytesAssoc, Zenon
  <2>3. b \o j \in Seq(Byte)
    BY <1>4, <1>7, BytesJoin, Zenon
  <2> QED BY <1>8, <1>10, <2>1, <2>2, <2>3
<1>12. SubSeq(u, 1, 2) = a /\ Past(u, 2) \o w = b \o j
  <2>1. PICK y : y = b \o j
    OBVIOUS
  <2>2. u \o w = a \o y /\ y \in Seq(Byte) /\ a \in Seq(Byte) /\ Len(a) = 2
    BY <1>11, <2>1
  <2>3. SubSeq(u, 1, Len(a)) = a /\ Past(u, Len(a)) \o w = y
    <3>1. Len(a) <= Len(u)
      BY <2>2
    <3> QED BY <2>2, <3>1, BytesOverlap, Zenon
  <2> QED BY <2>1, <2>2, <2>3
<1>13. u[1] = q /\ u[2] = m
  <2>1. SubSeq(u, 1, 2)[1] = u[1] /\ SubSeq(u, 1, 2)[2] = u[2]
    OBVIOUS
  <2> QED BY <1>9, <1>10, <1>12, <2>1
<1>14. q * Base + m = Len(b)
  BY <1>4, <1>5, PairBack
<1> QED BY <1>2, <1>6, <1>12, <1>13, <1>14

\* databuffer_readheader: nothing is lost, and a size is only given when the
\* body is there.
LEMMA HeaderIs ==
    ASSUME NEW p, Exact(p), NEW d, d = B!AfterHeader(p), NEW z, z = B!FrameSize(p)
    PROVE  /\ Exact(d) /\ Len(d.chunks) \in 0 .. Len(p.chunks)
           /\ z = -1 \/ (z = d.header /\ z \in 0 .. d.size)
           /\ \A w \in Seq(Byte), rest \in Seq(Bodies) : Framed(p, w, rest) => Framed(d, w, rest)
<1>1. p.header \in 0 .. Base * Base - 1 /\ p.size \in Nat /\ Len(p.chunks) \in Nat
  BY BufferFields
<1>2. CASE p.header = 0 /\ p.size >= 2
  <2>1. PICK r : r = B!AfterRead(p, 2)
    OBVIOUS
  <2>2. PICK u : u = B!Unread(p)
    OBVIOUS
  <2>3. u \in Seq(Byte) /\ Len(u) = p.size
    BY <2>2, UnreadIs
  <2>4. 2 \in 0 .. p.size
    BY <1>1, <1>2
  <2>5. /\ Exact(r) /\ Len(r.chunks) \in 0 .. Len(p.chunks)
        /\ B!Unread(r) = Past(u, 2)
    BY <2>1, <2>2, <2>4, ReadIs
  <2>6. PICK h : h = u[1] * Base + u[2]
    OBVIOUS
  <2>7. h \in 0 .. Base * Base - 1
    <3>1. u[1] \in Byte /\ u[2] \in Byte
      BY <1>1, <1>2, <2>3
    <3> QED BY <2>6, <3>1, PairRange
  <2>8. d = [r EXCEPT !.header = h]
    BY <1>2, <2>1, <2>2, <2>6 DEF B!AfterHeader, B!HeaderSize
  <2>9. /\ Exact(d) /\ d.header = h /\ d.chunks = r.chunks /\ B!Unread(d) = Past(u, 2)
    BY <2>5, <2>7, <2>8, HeaderSet
  <2>10. z = IF d.size < d.header THEN -1 ELSE d.header
    BY <1>1, <1>2 DEF B!FrameSize, B!HeaderSize
  <2>11. z = -1 \/ (z = d.header /\ z \in 0 .. d.size)
    <3>1. d.header \in Nat /\ d.size \in Nat
      <4>1. d.header \in 0 .. Base * Base - 1 /\ d.size \in Nat
        BY <2>9, BufferFields
      <4> QED BY <4>1
    <3> QED BY <2>10, <3>1
  <2>12. ASSUME NEW w \in Seq(Byte), NEW rest \in Seq(Bodies), Framed(p, w, rest)
         PROVE  Framed(d, w, rest)
    <3>1. u \o w = Joined(Enc, rest)
      BY <1>2, <2>2, <2>12 DEF Framed
    <3>2. Len(u) >= 2
      BY <1>2, <2>3
    <3>3. PICK b, r1 : /\ Begins(rest, b, r1, Bodies) /\ h = Len(b)
                       /\ Past(u, 2) \o w = b \o Joined(Enc, r1)
      <4>1. u \in Seq(Byte)
        BY <2>3
      <4>2. \E b, r1 : /\ Begins(rest, b, r1, Bodies) /\ u[1] * Base + u[2] = Len(b)
                       /\ Past(u, 2) \o w = b \o Joined(Enc, r1)
        BY <3>1, <3>2, <4>1, SizeRead
      <4> QED BY <2>6, <4>2
    <3>4. h # 0
      <4>1. b \in Bodies
        BY <3>3 DEF Begins
      <4>2. Len(b) \in 1 .. Base * Base - 1
        BY <4>1, StreamFacts
      <4> QED BY <3>3, <4>2
    <3> QED BY <2>9, <3>3, <3>4 DEF Framed
  <2> QED BY <2>5, <2>9, <2>11, <2>12
<1>3. CASE ~ (p.header = 0 /\ p.size >= 2)
  <2>1. d = p
    BY <1>3 DEF B!AfterHeader, B!HeaderSize
  <2>2. z = -1 \/ (z = d.header /\ ~ (d.size < d.header))
    BY <1>3 DEF B!FrameSize
  <2>3. z = -1 \/ (z = d.header /\ z \in 0 .. d.size)
    BY <1>1, <2>1, <2>2
  <2> QED BY <1>1, <2>1, <2>3
<1> QED BY <1>2, <1>3

\* A frame whose body is there is taken out as it was put in.
LEMMA FrameTaken ==
    ASSUME NEW d, Exact(d), d.header # 0, d.header <= d.size,
           NEW w \in Seq(Byte), NEW rest, Framed(d, w, rest),
           NEW e, e = B!Reset(B!AfterRead(d, d.header))
    PROVE  \E b, r : /\ Begins(rest, b, r, Bodies) /\ d.header = Len(b)
                     /\ SubSeq(B!Unread(d), 1, d.header) = b
                     /\ Framed(e, w, r)
<1>1. PICK b, r : /\ Begins(rest, b, r, Bodies) /\ d.header = Len(b)
                  /\ B!Unread(d) \o w = b \o Joined(Enc, r)
  BY DEF Framed
<1>2. b \in Bodies /\ r \in Seq(Bodies)
  BY <1>1 DEF Begins
<1>3. PICK j : j = Joined(Enc, r)
  OBVIOUS
<1>4. j \in Seq(Byte) /\ b \in Seq(Byte)
  BY <1>2, <1>3, JoinedBytes, StreamFacts
<1>5. PICK u : u = B!Unread(d)
  OBVIOUS
<1>6. u \in Seq(Byte) /\ Len(u) = d.size
  BY <1>5, UnreadIs
<1>7. SubSeq(u, 1, Len(b)) = b /\ Past(u, Len(b)) \o w = j
  <2>1. Len(b) <= Len(u)
    BY <1>1, <1>6
  <2>2. u \o w = b \o j
    BY <1>1, <1>3, <1>5
  <2> QED BY <1>4, <1>6, <2>1, <2>2, BytesOverlap, Zenon
<1>8. d.header \in 0 .. d.size
  <2>1. d.header \in 0 .. Base * Base - 1 /\ d.size \in Nat
    BY BufferFields
  <2> QED BY <2>1
<1>9. PICK f : f = B!AfterRead(d, d.header)
  OBVIOUS
<1>10. Exact(f) /\ B!Unread(f) = Past(u, Len(b))
  BY <1>1, <1>5, <1>8, <1>9, ReadIs
<1>11. 0 \in 0 .. Base * Base - 1
  <2>1. d.header \in 0 .. Base * Base - 1
    BY BufferFields
  <2>2. Base * Base \in Nat
    BY StreamFacts
  <2> QED BY <2>1, <2>2
<1>12. e.header = 0 /\ B!Unread(e) = Past(u, Len(b))
  BY <1>9, <1>10, <1>11, HeaderSet DEF B!Reset
<1> QED BY <1>1, <1>3, <1>5, <1>7, <1>12 DEF Framed

-----------------------------------------------------------------------------
(* The stream. *)

\* Of a peer that keeps to the least size: what was sent is what was handled and
\* what is still in the buffer and on the wire.
StreamInv ==
    /\ Exact(db) /\ wire \in Seq(Byte) /\ sent \in Seq(Bodies)
    /\ mp \in [lists : Nat, free : Nat] /\ mp.free + Len(db.chunks) = PoolSize * mp.lists
    /\ B!Legal => \E rest \in Seq(Bodies) :
           got \in Seq(Bodies) /\ sent = got \o rest /\ Framed(db, wire, rest)

\* A buffer of no bytes, and nothing to come.
LEMMA NothingFramed ==
    /\ Exact(B!NoData) /\ B!NoData.header = 0 /\ Len(B!NoData.chunks) = 0
    /\ Framed(B!NoData, <<>>, <<>>)
<1>1. PICK d : d = B!NoData
  OBVIOUS
<1>2. d.header = 0 /\ d.offset = 0 /\ d.size = 0 /\ d.chunks = <<>> /\ d \in BufferType
  <2>1. 0 \in 0 .. Base * Base - 1
    <3>1. Base * Base \in Nat \ {0}
      BY StreamFacts
    <3> QED BY <3>1
  <2>2. <<>> \in Seq(Seq(Byte))
    OBVIOUS
  <2> QED BY <1>1, <2>1, <2>2 DEF B!NoData, BufferType
<1>3. FlattenSeq(<<>>) = <<>>
  BY DEF FlattenSeq
<1>4. Len(FlattenSeq(d.chunks)) = 0
  BY <1>2, <1>3
<1>5. Exact(d)
  BY <1>2, <1>4 DEF Exact
<1>6. B!Unread(d) \in Seq(Byte) /\ Len(B!Unread(d)) = 0
  BY <1>2, <1>5, UnreadIs
<1>7. B!Unread(d) \o <<>> = <<>>
  <2>1. B!Unread(d) = <<>>
    BY <1>6, EmptySeq
  <2> QED BY <2>1
<1>8. Framed(d, <<>>, <<>>)
  BY <1>2, <1>7, JoinedEmpty DEF Framed
<1> QED BY <1>1, <1>2, <1>5, <1>8

LEMMA StreamStart == B!Init => StreamInv
<1> SUFFICES ASSUME B!Init PROVE StreamInv
  OBVIOUS
<1>1. db = B!NoData /\ mp = [lists |-> 0, free |-> 0] /\ wire = <<>> /\ sent = <<>> /\ got = <<>>
  BY DEF B!Init, B!NoPool
<1>2. Exact(db) /\ Len(db.chunks) = 0 /\ Framed(db, wire, <<>>)
  BY <1>1, NothingFramed
<1>3. mp \in [lists : Nat, free : Nat] /\ mp.free + Len(db.chunks) = PoolSize * mp.lists
  BY <1>1, <1>2, StreamFacts
<1>4. <<>> \in Seq(Bodies) /\ <<>> \in Seq(Byte) /\ <<>> = <<>> \o <<>>
  OBVIOUS
<1> QED BY <1>1, <1>2, <1>3, <1>4 DEF StreamInv

LEMMA WriteKeeps == ASSUME StreamInv, NEW b \in Bodies, B!Write(b) PROVE StreamInv'
<1>1. /\ wire' = wire \o B!Encoded(b) /\ sent' = Append(sent, b)
      /\ UNCHANGED <<db, mp, got>>
  BY DEF B!Write
<1>2. Enc[b] = B!Encoded(b) /\ Enc[b] \in Seq(Byte)
  BY EncodedIs DEF Enc
<1>3. PICK e : e = Enc[b]
  OBVIOUS
<1>4. wire \in Seq(Byte) /\ sent \in Seq(Bodies) /\ e \in Seq(Byte) /\ wire' = wire \o e
  BY <1>1, <1>2, <1>3 DEF StreamInv
<1>5. wire' \in Seq(Byte) /\ sent' \in Seq(Bodies)
  BY <1>1, <1>4, BytesJoin, AppendProperties
<1>6. B!Legal' => B!Legal
  <2>1. Len(sent') = Len(sent) + 1 /\ Len(sent) \in Nat /\ \A k \in 1 .. Len(sent) : sent'[k] = sent[k]
    BY <1>1, <1>4, AppendProperties
  <2>2. \A k \in 1 .. Len(sent) : k \in 1 .. Len(sent')
    BY <2>1
  <2> QED BY <2>1, <2>2 DEF B!Legal
<1>7. ASSUME B!Legal'
      PROVE  \E rest \in Seq(Bodies) :
                 got' \in Seq(Bodies) /\ sent' = got' \o rest /\ Framed(db', wire', rest)
  <2>1. PICK rest \in Seq(Bodies) :
            got \in Seq(Bodies) /\ sent = got \o rest /\ Framed(db, wire, rest)
    BY <1>6, <1>7 DEF StreamInv
  <2>2. Append(rest, b) \in Seq(Bodies)
    BY AppendProperties
  <2>3. sent' = got' \o Append(rest, b)
    <3>1. <<b>> \in Seq(Bodies) /\ Append(rest, b) = rest \o <<b>>
          /\ Append(got \o rest, b) = (got \o rest) \o <<b>>
      BY <2>1, AppendIsConcat, ConcatProperties
    <3>2. (got \o rest) \o <<b>> = got \o (rest \o <<b>>)
      BY <2>1, <3>1, Assoc3
    <3> QED BY <1>1, <2>1, <3>1, <3>2
  <2>4. PICK u : u = B!Unread(db)
    OBVIOUS
  <2>5. u \in Seq(Byte)
    BY <2>4, UnreadIs DEF StreamInv
  <2>6. u \o wire' = (u \o wire) \o e
    BY <1>4, <2>5, BytesAssoc, Zenon
  <2>7. Framed(db, wire', Append(rest, b))
    <3>1. CASE db.header = 0
      <4>1. u \o wire = Joined(Enc, rest)
        BY <2>1, <2>4, <3>1 DEF Framed
      <4>2. Joined(Enc, Append(rest, b)) = Joined(Enc, rest) \o e
        BY <1>3, JoinedLast
      <4> QED BY <2>4, <2>6, <3>1, <4>1, <4>2 DEF Framed
    <3>2. CASE db.header # 0
      <4>1. PICK c, r : /\ Begins(rest, c, r, Bodies) /\ db.header = Len(c)
                        /\ u \o wire = c \o Joined(Enc, r)
        BY <2>1, <2>4, <3>2 DEF Framed
      <4>2. c \in Bodies /\ r \in Seq(Bodies)
        BY <4>1 DEF Begins
      <4>3. Joined(Enc, Append(r, b)) = Joined(Enc, r) \o e
        BY <1>3, <4>2, JoinedLast
      <4>4. Begins(Append(rest, b), c, Append(r, b), Bodies)
        <5>1. rest = <<c>> \o r
          BY <4>1, IsCons
        <5>2. /\ Append(r, b) \in Seq(Bodies) /\ <<b>> \in Seq(Bodies) /\ <<c>> \in Seq(Bodies)
              /\ Append(r, b) = r \o <<b>> /\ Append(rest, b) = rest \o <<b>>
          BY <4>2, AppendIsConcat, AppendProperties
        <5>3. (<<c>> \o r) \o <<b>> = <<c>> \o (r \o <<b>>)
          BY <4>2, <5>2, Assoc3
        <5>4. Begins(<<c>> \o Append(r, b), c, Append(r, b), Bodies)
          BY <4>2, <5>2, ConsBegins
        <5> QED BY <5>1, <5>2, <5>3, <5>4
      <4>5. PICK j : j = Joined(Enc, r)
        OBVIOUS
      <4>6. j \in Seq(Byte) /\ c \in Seq(Byte)
        BY <4>2, <4>5, JoinedBytes, StreamFacts
      <4>7. (c \o j) \o e = c \o (j \o e)
        BY <1>4, <4>6, BytesAssoc, Zenon
      <4>8. u \o wire' = c \o Joined(Enc, Append(r, b))
        BY <2>6, <4>1, <4>3, <4>5, <4>7
      <4> QED BY <2>4, <3>2, <4>1, <4>4, <4>8 DEF Framed
    <3> QED BY <3>1, <3>2
  <2> QED BY <1>1, <2>1, <2>2, <2>3, <2>7
<1> QED
  <2>1. Exact(db') /\ mp' \in [lists : Nat, free : Nat]
        /\ mp'.free + Len(db'.chunks) = PoolSize * mp'.lists
    BY <1>1 DEF StreamInv
  <2> QED BY <1>5, <1>7, <2>1 DEF StreamInv

\* The pool: one node is taken, the nodes of the chunks read are given back.
LEMMA PoolKeeps ==
    ASSUME NEW q \in [lists : Nat, free : Nat], NEW l \in Nat, NEW m \in 0 .. l + 1,
           q.free + l = PoolSize * q.lists,
           NEW r, r = B!NodesReturned(B!NodeTaken(q), (l + 1) - m)
    PROVE  r \in [lists : Nat, free : Nat] /\ r.free + m = PoolSize * r.lists
<1>1. PoolSize \in Nat \ {0, 1} /\ q.lists \in Nat /\ q.free \in Nat /\ m \in Nat /\ m <= l + 1
  BY StreamFacts
<1>2. (l + 1) - m \in Nat
  BY <1>1
<1>3. CASE q.free > 0
  <2>1. r = [q EXCEPT !.free = (q.free - 1) + ((l + 1) - m)]
    BY <1>3 DEF B!NodeTaken, B!NodesReturned
  <2>2. r.lists = q.lists /\ r.free = (q.free - 1) + ((l + 1) - m)
        /\ r = [lists |-> r.lists, free |-> r.free]
    BY <2>1
  <2>3. (q.free - 1) + ((l + 1) - m) \in Nat
    BY <1>1, <1>2, <1>3
  <2>4. r.free + m = q.free + l
    BY <1>1, <2>2
  <2> QED BY <1>1, <2>2, <2>3, <2>4
<1>4. CASE ~ (q.free > 0)
  <2>1. r = [lists |-> q.lists + 1, free |-> (PoolSize - 1) + ((l + 1) - m)]
    BY <1>4 DEF B!NodeTaken, B!NodesReturned
  <2>2. r.lists = q.lists + 1 /\ r.free = (PoolSize - 1) + ((l + 1) - m)
    BY <2>1
  <2>3. (PoolSize - 1) + ((l + 1) - m) \in Nat /\ q.lists + 1 \in Nat
    BY <1>1, <1>2
  <2>4. l = PoolSize * q.lists
    BY <1>1, <1>4
  <2>5. PoolSize * (q.lists + 1) = PoolSize * q.lists + PoolSize
    BY <1>1
  <2>6. r.free + m = l + PoolSize
    BY <1>1, <2>2
  <2> QED BY <2>1, <2>2, <2>3, <2>4, <2>5, <2>6
<1> QED BY <1>3, <1>4

\* Of the bytes on the wire the first n become the last of the buffer.
LEMMA PieceFramed ==
    ASSUME NEW d, Exact(d), NEW w \in Seq(Byte), NEW n \in 1 .. Len(w), NEW rest \in Seq(Bodies),
           Framed(d, w, rest), NEW p, p = B!Pushed(d, SubSeq(w, 1, n))
    PROVE  Framed(p, Past(w, n), rest)
<1>1. PICK x : x = SubSeq(w, 1, n)
  OBVIOUS
<1>2. PICK y : y = Past(w, n)
  OBVIOUS
<1>3. n \in 0 .. Len(w)
  OBVIOUS
<1>4. x \in Seq(Byte) /\ Len(x) = n /\ y \in Seq(Byte) /\ w = x \o y
  <2>1. SubSeq(w, 1, n) \in Seq(Byte) /\ Len(SubSeq(w, 1, n)) = n /\ Past(w, n) \in Seq(Byte)
    BY <1>3, CutAt
  <2>2. w = SubSeq(w, 1, n) \o Past(w, n)
    BY <1>3, CutAt
  <2> QED BY <1>1, <1>2, <2>1, <2>2
<1>5. x # <<>>
  BY <1>4
<1>6. p.header = d.header /\ B!Unread(p) = B!Unread(d) \o x
  BY <1>1, <1>4, <1>5, PushIs
<1>7. PICK u : u = B!Unread(d)
  OBVIOUS
<1>8. u \in Seq(Byte)
  BY <1>7, UnreadIs
<1>9. (u \o x) \o y = u \o (x \o y)
  BY <1>4, <1>8, BytesAssoc, Zenon
<1>10. B!Unread(p) \o y = B!Unread(d) \o w
  BY <1>4, <1>6, <1>7, <1>9
<1> QED BY <1>2, <1>6, <1>10 DEF Framed

LEMMA ReceiveKeeps == ASSUME StreamInv, NEW n \in 1 .. MaxPiece, B!Receive(n) PROVE StreamInv'
<1>1. PICK p : p = B!Pushed(db, SubSeq(wire, 1, n))
  OBVIOUS
<1>2. PICK d : d = B!AfterHeader(p)
  OBVIOUS
<1>3. PICK z : z = B!FrameSize(p)
  OBVIOUS
<1>4. /\ n <= Len(wire) /\ wire' = Past(wire, n) /\ sent' = sent
      /\ B!Incomplete(d, z) \/ B!Deliver(d, z) \/ B!TooShort(d, z)
      /\ mp' = B!NodesReturned(B!NodeTaken(mp), Len(p.chunks) - Len(db'.chunks))
  BY <1>1, <1>2, <1>3 DEF B!Receive, Past
<1>5. Exact(db) /\ wire \in Seq(Byte) /\ sent \in Seq(Bodies) /\ n \in 1 .. Len(wire)
  <2>1. wire \in Seq(Byte) /\ Exact(db) /\ sent \in Seq(Bodies)
    BY DEF StreamInv
  <2>2. Len(wire) \in Nat
    BY <2>1, LenProperties
  <2> QED BY <1>4, <2>1, <2>2
<1>6. SubSeq(wire, 1, n) \in Seq(Byte) /\ SubSeq(wire, 1, n) # <<>> /\ Past(wire, n) \in Seq(Byte)
  <2>1. n \in 0 .. Len(wire) /\ n # 0
    BY <1>5
  <2>2. SubSeq(wire, 1, n) \in Seq(Byte) /\ Len(SubSeq(wire, 1, n)) = n /\ Past(wire, n) \in Seq(Byte)
    BY <1>5, <2>1, CutAt
  <2>3. SubSeq(wire, 1, n) # <<>>
    <3> PICK x : x = SubSeq(wire, 1, n)
      OBVIOUS
    <3>1. Len(x) # 0
      BY <2>1, <2>2
    <3> QED BY <3>1
  <2> QED BY <2>2, <2>3
<1>7. Exact(p) /\ p.header = db.header /\ Len(p.chunks) = Len(db.chunks) + 1
  BY <1>1, <1>5, <1>6, PushIs
<1>8. /\ Exact(d) /\ Len(d.chunks) \in 0 .. Len(p.chunks)
      /\ z = -1 \/ (z = d.header /\ z \in 0 .. d.size)
  BY <1>2, <1>3, <1>7, HeaderIs
<1>9. ASSUME NEW rest \in Seq(Bodies), Framed(db, wire, rest) PROVE Framed(d, wire', rest)
  <2>1. Framed(p, wire', rest)
    BY <1>1, <1>4, <1>5, <1>9, PieceFramed
  <2> QED BY <1>2, <1>4, <1>6, <1>7, <2>1, HeaderIs
<1>10. d.header \in Nat /\ d.size \in Nat
  <2>1. d.header \in 0 .. Base * Base - 1 /\ d.size \in Nat
    BY <1>8, BufferFields
  <2> QED BY <2>1
<1>11. 0 \in 0 .. Base * Base - 1
  <2>1. Base * Base \in Nat \ {0}
    BY StreamFacts
  <2> QED BY <2>1
<1>12. B!Legal' => B!Legal
  BY <1>4 DEF B!Legal
<1>13. Exact(db') /\ Len(db'.chunks) \in 0 .. Len(p.chunks)
  <2>1. CASE B!Incomplete(d, z)
    BY <1>8, <2>1 DEF B!Incomplete
  <2>2. CASE B!Deliver(d, z)
    <3>1. db' = B!Reset(B!AfterRead(d, z)) /\ z >= MinSize /\ MinSize \in Nat \ {0}
      BY <2>2, StreamFacts DEF B!Deliver
    <3>2. z \in 0 .. d.size
      BY <1>8, <3>1
    <3>3. PICK f : f = B!AfterRead(d, z)
      OBVIOUS
    <3>4. Exact(f) /\ Len(f.chunks) \in 0 .. Len(d.chunks)
      BY <1>8, <3>2, <3>3, ReadIs
    <3>5. Exact(db') /\ db'.chunks = f.chunks
      BY <1>11, <3>1, <3>3, <3>4, HeaderSet DEF B!Reset
    <3>6. Len(p.chunks) \in Nat /\ Len(d.chunks) \in Nat
      BY <1>7, <1>8, BufferFields
    <3> QED BY <1>8, <3>4, <3>5, <3>6
  <2>3. CASE B!TooShort(d, z)
    <3>1. db' = [d EXCEPT !.header = 0]
      BY <2>3 DEF B!TooShort, B!Reset
    <3> QED BY <1>8, <1>11, <3>1, HeaderSet
  <2> QED BY <1>4, <2>1, <2>2, <2>3
<1>14. mp' \in [lists : Nat, free : Nat] /\ mp'.free + Len(db'.chunks) = PoolSize * mp'.lists
  <2>1. /\ mp \in [lists : Nat, free : Nat] /\ mp.free + Len(db.chunks) = PoolSize * mp.lists
        /\ Len(db.chunks) \in Nat
    BY <1>5, BufferFields DEF StreamInv
  <2>2. Len(db'.chunks) \in 0 .. Len(db.chunks) + 1
    BY <1>7, <1>13
  <2>3. mp' = B!NodesReturned(B!NodeTaken(mp), (Len(db.chunks) + 1) - Len(db'.chunks))
    BY <1>4, <1>7
  <2>4. PICK q, l, m, r : q = mp /\ l = Len(db.chunks) /\ m = Len(db'.chunks) /\ r = mp'
    OBVIOUS
  <2>5. r \in [lists : Nat, free : Nat] /\ r.free + m = PoolSize * r.lists
    BY <2>1, <2>2, <2>3, <2>4, PoolKeeps
  <2> QED BY <2>4, <2>5
<1>15. ASSUME B!Legal'
       PROVE  \E rest \in Seq(Bodies) :
                  got' \in Seq(Bodies) /\ sent' = got' \o rest /\ Framed(db', wire', rest)
  <2>1. PICK rest \in Seq(Bodies) :
            got \in Seq(Bodies) /\ sent = got \o rest /\ Framed(db, wire, rest)
    BY <1>12, <1>15 DEF StreamInv
  <2>2. Framed(d, wire', rest)
    BY <1>9, <2>1
  <2>3. ASSUME d.header # 0, z = d.header, NEW b, NEW r, Begins(rest, b, r, Bodies)
        PROVE  Len(b) >= MinSize
    <3>1. b \in Bodies /\ r \in Seq(Bodies) /\ rest = <<b>> \o r /\ rest[1] = b /\ Len(rest) = Len(r) + 1
      BY <2>3, IsCons DEF Begins
    <3>2. Len(got) \in Nat /\ Len(r) \in Nat /\ Len(sent) = Len(got) + Len(rest)
          /\ sent[Len(got) + 1] = rest[1]
      <4>1. Len(got) \in Nat /\ Len(r) \in Nat
        BY <2>1, <3>1, LenProperties
      <4>2. 1 \in 1 .. Len(rest)
        BY <3>1, <4>1
      <4> QED BY <2>1, <4>1, <4>2, ConcatProperties
    <3>3. Len(got) + 1 \in 1 .. Len(sent')
      BY <1>4, <3>1, <3>2
    <3> QED BY <1>4, <1>15, <3>1, <3>2, <3>3 DEF B!Legal, B!LongEnough
  <2>4. CASE B!Incomplete(d, z)
    BY <1>4, <2>1, <2>2, <2>4 DEF B!Incomplete
  <2>5. CASE B!Deliver(d, z)
    <3>1. /\ z >= MinSize /\ db' = B!Reset(B!AfterRead(d, z))
          /\ got' = Append(got, SubSeq(B!Unread(d), 1, z)) /\ MinSize \in Nat \ {0}
      BY <2>5, StreamFacts DEF B!Deliver
    <3>2. z = d.header /\ d.header # 0 /\ d.header <= d.size
      BY <1>8, <1>10, <3>1
    <3>3. PICK b, r : /\ Begins(rest, b, r, Bodies) /\ SubSeq(B!Unread(d), 1, d.header) = b
                      /\ Framed(db', wire', r)
      BY <1>4, <1>6, <1>8, <2>2, <3>1, <3>2, FrameTaken
    <3>4. b \in Bodies /\ r \in Seq(Bodies) /\ rest = <<b>> \o r
      BY <3>3, IsCons DEF Begins
    <3>5. got' = Append(got, b)
      BY <3>1, <3>2, <3>3
    <3>6. got' \in Seq(Bodies) /\ got' = got \o <<b>> /\ <<b>> \in Seq(Bodies)
      BY <2>1, <3>4, <3>5, AppendProperties, AppendIsConcat
    <3>7. (got \o <<b>>) \o r = got \o (<<b>> \o r)
      BY <2>1, <3>4, <3>6, Assoc3
    <3> QED BY <1>4, <2>1, <3>3, <3>4, <3>6, <3>7
  <2>6. CASE B!TooShort(d, z)
    <3>1. z > 0 /\ z < MinSize
      BY <2>6 DEF B!TooShort
    <3>2. z = d.header /\ d.header # 0 /\ d.header <= d.size
      BY <1>8, <1>10, <3>1
    <3>3. PICK b, r : Begins(rest, b, r, Bodies) /\ d.header = Len(b)
      BY <2>2, <3>2 DEF Framed
    <3>4. Len(b) >= MinSize
      BY <2>3, <3>2, <3>3
    <3>5. FALSE
      BY <1>10, <3>1, <3>2, <3>3, <3>4, StreamFacts
    <3> QED BY <3>5
  <2> QED BY <1>4, <2>4, <2>5, <2>6
<1>16. wire' \in Seq(Byte) /\ sent' \in Seq(Bodies)
  BY <1>4, <1>5, <1>6
<1> QED BY <1>13, <1>14, <1>15, <1>16 DEF StreamInv

LEMMA ClearKeeps == ASSUME StreamInv, B!Clear PROVE StreamInv'
<1>1. /\ mp' = [mp EXCEPT !.free = @ + Len(db.chunks)] /\ db' = B!NoData
      /\ wire' = <<>> /\ sent' = <<>> /\ got' = <<>>
  BY DEF B!Clear, B!NodesReturned
<1>2. /\ mp.free \in Nat /\ mp.lists \in Nat /\ Len(db.chunks) \in Nat
      /\ mp \in [lists : Nat, free : Nat] /\ mp.free + Len(db.chunks) = PoolSize * mp.lists
  BY BufferFields DEF StreamInv
<1>3. mp' \in [lists : Nat, free : Nat] /\ mp'.lists = mp.lists
      /\ mp'.free = mp.free + Len(db.chunks)
  BY <1>1, <1>2
<1>4. Exact(db') /\ Len(db'.chunks) = 0 /\ Framed(db', wire', <<>>)
  BY <1>1, NothingFramed
<1>5. mp'.free + Len(db'.chunks) = PoolSize * mp'.lists
  BY <1>2, <1>3, <1>4
<1>6. <<>> \in Seq(Bodies) /\ <<>> \in Seq(Byte) /\ <<>> = <<>> \o <<>>
  OBVIOUS
<1> QED BY <1>1, <1>3, <1>4, <1>5, <1>6 DEF StreamInv

LEMMA PoolFreeKeeps == ASSUME StreamInv, B!PoolFree PROVE StreamInv'
<1>1. db.chunks = <<>> /\ mp' = [lists |-> 0, free |-> 0] /\ UNCHANGED <<db, wire, sent, got>>
  BY DEF B!PoolFree, B!NoPool
<1>2. mp' \in [lists : Nat, free : Nat] /\ mp'.free + Len(db'.chunks) = PoolSize * mp'.lists
  BY <1>1, StreamFacts
<1>3. B!Legal' = B!Legal
  BY <1>1 DEF B!Legal
<1> QED BY <1>1, <1>2, <1>3 DEF StreamInv

LEMMA StreamStep == StreamInv /\ [B!Next]_streamVars => StreamInv'
<1> SUFFICES ASSUME StreamInv, [B!Next]_streamVars PROVE StreamInv'
  OBVIOUS
<1>1. CASE \E b \in Bodies : B!Write(b)
  BY <1>1, WriteKeeps
<1>2. CASE \E n \in 1 .. MaxPiece : B!Receive(n)
  BY <1>2, ReceiveKeeps
<1>3. CASE B!Clear
  BY <1>3, ClearKeeps
<1>4. CASE B!PoolFree
  BY <1>4, PoolFreeKeeps
<1>5. CASE UNCHANGED streamVars
  BY <1>5 DEF streamVars, StreamInv, B!Legal
<1> QED BY <1>1, <1>2, <1>3, <1>4, <1>5 DEF B!Next

\* The invariant says what the properties say.
LEMMA StreamIsExact == StreamInv => BufferExact
<1> SUFFICES ASSUME StreamInv PROVE BufferExact
  OBVIOUS
<1>1. B!SizeExact
  BY SameFlatten DEF StreamInv, Exact, B!SizeExact
<1>2. B!PoolExact
  BY DEF StreamInv, B!PoolExact
<1>3. ASSUME B!Legal PROVE B!IsPrefix(got, sent)
  <2>1. PICK rest \in Seq(Bodies) : got \in Seq(Bodies) /\ sent = got \o rest
    BY <1>3 DEF StreamInv
  <2>2. SubSeq(got \o rest, 1, Len(got)) = got /\ IsPrefix(got, got \o rest)
    BY <2>1, PrefixOfConcat
  <2> QED BY <2>1, <2>2 DEF B!IsPrefix, IsPrefix
<1>4. ASSUME B!Legal
      PROVE  FlattenSeq([k \in 1 .. Len(got) |-> B!Encoded(got[k])])
                 \o (IF db.header = 0 THEN <<>> ELSE <<db.header \div Base, db.header % Base>>)
                 \o B!Unread(db) \o wire
             = FlattenSeq([k \in 1 .. Len(sent) |-> B!Encoded(sent[k])])
  <2>1. PICK rest \in Seq(Bodies) :
            got \in Seq(Bodies) /\ sent = got \o rest /\ Framed(db, wire, rest)
    BY <1>4 DEF StreamInv
  <2>2. \A v \in Seq(Bodies) : FlattenSeq([k \in 1 .. Len(v) |-> B!Encoded(v[k])]) = Joined(Enc, v)
    <3> TAKE v \in Seq(Bodies)
    <3>1. \A k \in 1 .. Len(v) : v[k] \in Bodies
      OBVIOUS
    <3>2. [k \in 1 .. Len(v) |-> B!Encoded(v[k])] = [k \in 1 .. Len(v) |-> Enc[v[k]]]
      BY <3>1 DEF Enc
    <3> QED BY <3>2 DEF Joined
  <2>3. PICK p : p = IF db.header = 0 THEN <<>> ELSE <<db.header \div Base, db.header % Base>>
    OBVIOUS
  <2>4. PICK u : u = B!Unread(db)
    OBVIOUS
  <2>5. PICK g : g = Joined(Enc, got)
    OBVIOUS
  <2>6. u \in Seq(Byte) /\ wire \in Seq(Byte) /\ g \in Seq(Byte)
    BY <2>1, <2>4, <2>5, UnreadIs, JoinedBytes DEF StreamInv
  <2>7. p \in Seq(Byte) /\ p \o (u \o wire) = Joined(Enc, rest)
    <3>1. CASE db.header = 0
      <4>1. u \o wire \in Seq(Byte)
        BY <2>6, BytesJoin
      <4>2. p = <<>> /\ u \o wire = Joined(Enc, rest)
        BY <2>1, <2>3, <2>4, <3>1 DEF Framed
      <4>3. <<>> \o (u \o wire) = u \o wire /\ <<>> \in Seq(Byte)
        BY <4>1
      <4> QED BY <4>2, <4>3
    <3>2. CASE db.header # 0
      <4>1. PICK b, r : /\ Begins(rest, b, r, Bodies) /\ db.header = Len(b)
                        /\ u \o wire = b \o Joined(Enc, r)
        BY <2>1, <2>4, <3>2 DEF Framed
      <4>2. b \in Bodies /\ r \in Seq(Bodies)
        BY <4>1 DEF Begins
      <4>3. p \in Seq(Byte) /\ Enc[b] = p \o b
        BY <2>3, <3>2, <4>1, <4>2, EncodedIs
      <4>4. PICK j : j = Joined(Enc, r)
        OBVIOUS
      <4>5. b \in Seq(Byte) /\ j \in Seq(Byte)
        BY <4>2, <4>4, JoinedBytes, StreamFacts
      <4>6. (p \o b) \o j = p \o (b \o j)
        BY <4>3, <4>5, BytesAssoc, Zenon
      <4>7. Joined(Enc, rest) = Enc[b] \o j
        BY <4>1, <4>4, JoinedFirst, Zenon
      <4> QED BY <4>1, <4>3, <4>4, <4>6, <4>7
    <3> QED BY <3>1, <3>2
  <2>8. ((g \o p) \o u) \o wire = g \o (p \o (u \o wire))
    <3>1. g \o p \in Seq(Byte) /\ u \o wire \in Seq(Byte)
      BY <2>6, <2>7, BytesJoin
    <3>2. ((g \o p) \o u) \o wire = (g \o p) \o (u \o wire)
      <4>1. u \in Seq(Byte) /\ wire \in Seq(Byte)
        BY <2>6, <2>7
      <4> QED BY <3>1, <4>1, BytesAssoc, Zenon
    <3>3. (g \o p) \o (u \o wire) = g \o (p \o (u \o wire))
      <4>1. g \in Seq(Byte) /\ p \in Seq(Byte)
        BY <2>6, <2>7
      <4> QED BY <3>1, <4>1, BytesAssoc, Zenon
    <3> QED BY <3>2, <3>3
  <2>9. Joined(Enc, sent) = g \o Joined(Enc, rest)
    BY <2>1, <2>5, JoinedTwo
  <2>10. sent \in Seq(Bodies)
    BY DEF StreamInv
  <2> QED BY <2>1, <2>2, <2>3, <2>4, <2>5, <2>7, <2>8, <2>9, <2>10
<1>5. B!StaysFramed
  BY <1>3 DEF B!StaysFramed
<1>6. B!NoByteLost
  <2>1. \A x : B!FlattenSeq(x) = FlattenSeq(x)
    BY SameFlatten
  <2> QED BY <1>4, <2>1 DEF B!NoByteLost
<1> QED BY <1>1, <1>2, <1>5, <1>6 DEF BufferExact

LEMMA StreamAlone == [AllNext]_allVars => [B!Next]_streamVars
  BY DEF AllNext, allVars, streamVars

\* databuffer.h, with the dispatch of gate_main.c: however TCP cuts the stream of a
\* peer, and for frames of any contents and any size that fits two bytes, no byte
\* is lost, doubled or moved, and the frames come out as they were sent; size,
\* offset and the nodes of the pool always agree with the chunks.
THEOREM BuffersCorrect == AllSpec => []BufferExact
<1>1. AllInit => StreamInv
  BY StreamStart DEF AllInit
<1>2. StreamInv /\ [AllNext]_allVars => StreamInv'
  BY StreamStep, StreamAlone
<1> QED BY <1>1, <1>2, StreamIsExact, PTL DEF AllSpec

-----------------------------------------------------------------------------
(* The socket library: every number of sockets, descriptors and names. *)

\* The field fd of a C socket that has no descriptor.
NoNumber == -1

States == {"none", "open", "failed", "ended", "freed"}
Places == {"idle", "visit", "callback", "ending", "corrupt"}

SocketsType ==
    /\ csock \in [Socks -> States]
    /\ cfd \in [Socks -> Fds \cup {NoNumber}]
    /\ owner \in [Fds -> Socks \cup {NoSocket}]
    /\ fd2sock \in [Fds \cup {NoNumber} -> Socks \cup {NoSocket}]
    /\ name2fd \in [Names \X {":", ""} -> Fds \cup {NoSocket}]
    /\ pc \in Places /\ meta \subseteq Socks
    /\ pc \in {"callback", "ending"} => cur \in Socks

\* A number is kept until the loss is reported.
Numbered ==
    \A o \in Socks :
        /\ csock[o] = "none" \/ csock[o] = "ended" => cfd[o] = NoNumber
        /\ csock[o] = "open" \/ csock[o] = "failed" => cfd[o] \in Fds

\* No entry is ever made under the key that connect looks up.
NothingNamed == \A name \in Names : name2fd[<<name, ":">>] = NoSocket

\* A socket that failed and one that is open have different numbers.
NumbersApart ==
    "reuse" \in misuse \/
    \A o \in Socks, p \in Socks : csock[o] = "failed" /\ csock[p] = "open" => cfd[o] # cfd[p]

\* A freed socket has no metatable any more, so that nothing closes it again.
FreedHasNoMeta == "close" \in misuse \/ \A o \in meta : csock[o] # "freed"

\* In its callback a socket is open, and while its end is reported it is closed.
CallbackOpen ==
    /\ pc = "callback" => csock[cur] = "open" \/ misuse \cap {"close", "own", "send"} # {}
    /\ pc = "ending" => csock[cur] = "failed"

Meddled(ms) == ms \cap {"close", "own", "send"} # {}

SocketsInv ==
    /\ SocketsType /\ Numbered /\ NothingNamed /\ NumbersApart /\ FreedHasNoMeta
    /\ CallbackOpen /\ MemorySafe /\ ListedIsOwn /\ OpenIsListed

-----------------------------------------------------------------------------

\* The descriptors are numbers and nil is none.
LEMMA SocketConstants ==
    /\ NoSocket \notin Socks /\ NoSocket \notin Fds \cup {NoNumber}
    /\ NoNumber \notin Fds
<1>1. NoSocket \notin Socks \cup Int /\ Fds \subseteq Nat
  BY ContainersAssumption DEF S!SocketLibAssumption
<1>2. NoNumber \in Int /\ NoNumber \notin Nat
  BY DEF NoNumber
<1>3. Fds \subseteq Int
  BY <1>1
<1> QED BY <1>1, <1>2, <1>3

\* An open socket shares its number with none that is not freed.
LEMMA OpenApart ==
    ASSUME SocketsInv, "reuse" \notin misuse, NEW o \in Socks, NEW p \in Socks, o # p,
           csock[p] = "open", csock[o] # "freed"
    PROVE  cfd[o] # cfd[p]
<1>1. cfd[p] \in Fds
  BY DEF SocketsInv, Numbered
<1>2. CASE csock[o] \in {"none", "ended"}
  <2>1. cfd[o] = NoNumber
    BY <1>2 DEF SocketsInv, Numbered
  <2> QED BY <1>1, <2>1, SocketConstants
<1>3. CASE csock[o] = "failed"
  BY <1>3 DEF SocketsInv, NumbersApart
<1>4. CASE csock[o] = "open"
  BY <1>4 DEF SocketsInv, OpenIsListed, S!OpenIsListed
<1>5. csock[o] \in States
  BY DEF SocketsInv, SocketsType
<1> QED BY <1>2, <1>3, <1>4, <1>5 DEF States

\* The entry of a descriptor, if it has one.
LEMMA ListedFacts ==
    ASSUME SocketsInv, NEW fd \in Fds, fd2sock[fd] # NoSocket
    PROVE  /\ fd2sock[fd] \in Socks /\ cfd[fd2sock[fd]] = fd
           /\ csock[fd2sock[fd]] \in {"open", "failed"}
  BY DEF SocketsInv, ListedIsOwn, S!ListedIsOwn

\* A new socket gets the lowest free descriptor.
LEMMA ConnectKeeps ==
    ASSUME SocketsInv, NEW o \in Socks, NEW name \in Names, S!Connect(o, name)
    PROVE  SocketsInv'
<1>1. PICK fd \in Fds :
          /\ owner[fd] = NoSocket
          /\ csock' = [csock EXCEPT ![o] = "open"]
          /\ cfd' = [cfd EXCEPT ![o] = fd]
          /\ owner' = [owner EXCEPT ![fd] = o]
          /\ fd2sock' = [x \in DOMAIN fd2sock |->
                            IF x = fd THEN o
                            ELSE IF x = name2fd[<<name, ":">>] THEN NoSocket ELSE fd2sock[x]]
          /\ name2fd' = [name2fd EXCEPT ![<<name, "">>] = fd]
          /\ misuse' = IF \E p \in Socks : csock[p] = "failed" /\ cfd[p] = fd
                       THEN misuse \cup {"reuse"} ELSE misuse
  BY DEF S!Connect, S!Named
<1>2. pc \in {"idle", "callback"} /\ csock[o] = "none" /\ meta' = meta \cup {o} /\ pc' = pc /\ cur' = cur
  BY DEF S!Connect, S!Running
<1>3. fd2sock' = [fd2sock EXCEPT ![fd] = o]
  <2>1. \A x \in DOMAIN fd2sock : x # name2fd[<<name, ":">>]
    BY SocketConstants DEF SocketsInv, NothingNamed, SocketsType
  <2> QED BY <1>1, <2>1
<1>4. SocketsType' /\ NothingNamed'
  <2>1. SocketsType'
    <3>1. csock' \in [Socks -> States] /\ meta' \subseteq Socks
      BY <1>1, <1>2 DEF SocketsInv, SocketsType, States
    <3>2. cfd' \in [Socks -> Fds \cup {NoNumber}] /\ owner' \in [Fds -> Socks \cup {NoSocket}]
      BY <1>1 DEF SocketsInv, SocketsType
    <3>3. fd2sock' \in [Fds \cup {NoNumber} -> Socks \cup {NoSocket}]
      BY <1>3 DEF SocketsInv, SocketsType
    <3>4. name2fd' \in [Names \X {":", ""} -> Fds \cup {NoSocket}]
      BY <1>1 DEF SocketsInv, SocketsType
    <3> QED BY <1>2, <3>1, <3>2, <3>3, <3>4 DEF SocketsInv, SocketsType
  <2>2. NothingNamed'
    BY <1>1 DEF SocketsInv, NothingNamed, SocketsType
  <2> QED BY <2>1, <2>2
<1>5. Numbered'
  BY <1>1 DEF SocketsInv, SocketsType, Numbered
<1>6. NumbersApart'
  BY <1>1, <1>2 DEF SocketsInv, SocketsType, NumbersApart, Numbered
<1>7. FreedHasNoMeta'
  BY <1>1, <1>2 DEF SocketsInv, SocketsType, FreedHasNoMeta
<1>8. CallbackOpen' /\ MemorySafe'
  BY <1>1, <1>2 DEF SocketsInv, SocketsType, CallbackOpen, MemorySafe, S!MemorySafe
<1>9. ListedIsOwn'
  <2>1. ASSUME NEW x \in Fds, fd2sock'[x] # NoSocket
        PROVE  fd2sock'[x] \in Socks /\ cfd'[fd2sock'[x]] = x /\ csock'[fd2sock'[x]] \in {"open", "failed"}
    <3>1. CASE x = fd
      <4>1. fd2sock'[x] = o
        BY <1>3, <3>1 DEF SocketsInv, SocketsType
      <4>2. csock'[o] = "open" /\ cfd'[o] = fd
        BY <1>1 DEF SocketsInv, SocketsType
      <4> QED BY <3>1, <4>1, <4>2
    <3>2. CASE x # fd
      <4>1. fd2sock'[x] = fd2sock[x]
        BY <1>3, <3>2 DEF SocketsInv, SocketsType
      <4>2. fd2sock[x] # o
        BY <1>2, <2>1, <4>1, ListedFacts
      <4> QED BY <1>1, <2>1, <4>1, <4>2, ListedFacts DEF SocketsInv, SocketsType
    <3> QED BY <3>1, <3>2
  <2> QED BY <2>1 DEF ListedIsOwn, S!ListedIsOwn
<1>10. OpenIsListed'
  <2>1. ASSUME "reuse" \notin misuse', NEW p \in Socks, csock'[p] = "open"
        PROVE  fd2sock'[cfd'[p]] = p /\ owner'[cfd'[p]] = p
    <3>1. CASE p = o
      BY <1>1, <1>3, <3>1 DEF SocketsInv, SocketsType
    <3>2. CASE p # o
      <4>1. csock[p] = "open" /\ cfd'[p] = cfd[p] /\ cfd[p] \in Fds /\ "reuse" \notin misuse
        BY <1>1, <2>1, <3>2 DEF SocketsInv, SocketsType, Numbered
      <4>2. fd2sock[cfd[p]] = p /\ owner[cfd[p]] = p
        BY <4>1 DEF SocketsInv, OpenIsListed, S!OpenIsListed
      <4>3. cfd[p] # fd
        BY <1>1, <4>2, SocketConstants
      <4> QED BY <1>1, <1>3, <4>1, <4>2, <4>3 DEF SocketsInv, SocketsType
    <3> QED BY <3>1, <3>2
  <2> QED BY <2>1 DEF OpenIsListed, S!OpenIsListed
<1> QED BY <1>4, <1>5, <1>6, <1>7, <1>8, <1>9, <1>10 DEF SocketsInv

\* close(2) takes away one descriptor.
LEMMA ClosedFacts ==
    ASSUME SocketsInv, NEW fd \in Fds \cup {NoNumber}, owner' = S!Closed(fd)
    PROVE  /\ owner' \in [Fds -> Socks \cup {NoSocket}]
           /\ \A x \in Fds : x # fd => owner'[x] = owner[x]
  BY DEF SocketsInv, SocketsType, S!Closed

\* A socket is closed by the program or the collector; what was freed is not
\* closed again unless the program calls close.
LEMMA CloseKeeps ==
    ASSUME SocketsInv, NEW o \in meta, S!Close(o), misuse \subseteq misuse', meta' \subseteq meta,
           "close" \in misuse' \/ o \notin meta',
           o # cur \/ Meddled(misuse') \/ pc \notin {"callback", "ending"},
           pc = "ending" => o # cur,
           pc # "corrupt"
    PROVE  SocketsInv'
<1>1. o \in Socks /\ cfd[o] \in Fds \cup {NoNumber}
  BY DEF SocketsInv, SocketsType
<1>2. cfd' = cfd /\ name2fd' = name2fd /\ cur' = cur
  BY DEF S!Close
<1>3. meta' \subseteq Socks
  BY DEF SocketsInv, SocketsType
<1>4. CASE csock[o] = "freed"
  <2>1. pc' = "corrupt" /\ UNCHANGED <<csock, owner, fd2sock>>
    BY <1>4 DEF S!Close
  <2>2. "close" \in misuse
    BY <1>4 DEF SocketsInv, FreedHasNoMeta
  <2>3. "close" \in misuse'
    BY <2>2
  <2>4. SocketsType' /\ Numbered' /\ NothingNamed'
    BY <1>2, <1>3, <2>1 DEF SocketsInv, SocketsType, Numbered, NothingNamed, Places
  <2>5. NumbersApart' /\ FreedHasNoMeta' /\ CallbackOpen' /\ MemorySafe'
    BY <1>2, <2>1, <2>3 DEF SocketsInv, NumbersApart, FreedHasNoMeta, CallbackOpen, MemorySafe, S!MemorySafe
  <2>6. ListedIsOwn' /\ OpenIsListed'
    BY <1>2, <2>1 DEF SocketsInv, ListedIsOwn, S!ListedIsOwn, OpenIsListed, S!OpenIsListed
  <2> QED BY <2>4, <2>5, <2>6 DEF SocketsInv
<1>5. CASE csock[o] # "freed"
  <2>1. /\ fd2sock' = [fd2sock EXCEPT ![cfd[o]] = NoSocket]
        /\ owner' = S!Closed(cfd[o])
        /\ csock' = [csock EXCEPT ![o] = "freed"]
        /\ pc' = pc
    BY <1>5 DEF S!Close
  <2>2. SocketsType' /\ NothingNamed'
    <3>1. csock' \in [Socks -> States]
      BY <2>1 DEF SocketsInv, SocketsType, States
    <3>2. owner' \in [Fds -> Socks \cup {NoSocket}]
      BY <1>1, <2>1, ClosedFacts
    <3>3. fd2sock' \in [Fds \cup {NoNumber} -> Socks \cup {NoSocket}]
      BY <2>1 DEF SocketsInv, SocketsType
    <3> QED BY <1>2, <1>3, <2>1, <3>1, <3>2, <3>3 DEF SocketsInv, SocketsType, NothingNamed
  <2>3. \A p \in Socks : csock'[p] # csock[p] => p = o /\ csock'[p] = "freed"
    BY <2>1 DEF SocketsInv, SocketsType
  <2>4. csock'[o] = "freed"
    BY <1>1, <2>1 DEF SocketsInv, SocketsType
  <2>5. Numbered'
    BY <1>2, <2>3 DEF SocketsInv, Numbered
  <2>6. NumbersApart'
    BY <1>2, <2>3 DEF SocketsInv, NumbersApart
  <2>7. FreedHasNoMeta'
    BY <2>3 DEF SocketsInv, FreedHasNoMeta, SocketsType
  <2>8. CallbackOpen'
    BY <1>1, <1>2, <2>1, <2>3 DEF SocketsInv, CallbackOpen, SocketsType, Meddled
  <2>9. MemorySafe'
    BY <2>1 DEF SocketsInv, MemorySafe, S!MemorySafe
  <2>10. ListedIsOwn'
    <3>1. ASSUME NEW x \in Fds, fd2sock'[x] # NoSocket
          PROVE  fd2sock'[x] \in Socks /\ cfd'[fd2sock'[x]] = x /\ csock'[fd2sock'[x]] \in {"open", "failed"}
      <4>1. fd2sock'[x] = fd2sock[x] /\ x # cfd[o]
        BY <2>1, <3>1 DEF SocketsInv, SocketsType
      <4>2. fd2sock[x] # o
        BY <3>1, <4>1, ListedFacts
      <4> QED BY <1>2, <2>3, <3>1, <4>1, <4>2, ListedFacts
    <3> QED BY <3>1 DEF ListedIsOwn, S!ListedIsOwn
  <2>11. OpenIsListed'
    <3>1. ASSUME "reuse" \notin misuse', NEW p \in Socks, csock'[p] = "open"
          PROVE  fd2sock'[cfd'[p]] = p /\ owner'[cfd'[p]] = p
      <4>1. p # o /\ csock[p] = "open" /\ "reuse" \notin misuse
        BY <2>3, <2>4, <3>1
      <4>2. cfd[p] \in Fds /\ cfd[p] # cfd[o]
        <5>1. cfd[p] \in Fds
          BY <4>1 DEF SocketsInv, Numbered
        <5> QED BY <1>1, <1>5, <4>1, <5>1, OpenApart
      <4>3. fd2sock[cfd[p]] = p /\ owner[cfd[p]] = p
        BY <4>1 DEF SocketsInv, OpenIsListed, S!OpenIsListed
      <4>4. owner'[cfd[p]] = owner[cfd[p]]
        BY <1>1, <2>1, <4>2, ClosedFacts
      <4>5. fd2sock'[cfd[p]] = fd2sock[cfd[p]]
        BY <2>1, <4>2 DEF SocketsInv, SocketsType
      <4> QED BY <1>2, <4>3, <4>4, <4>5
    <3> QED BY <3>1 DEF OpenIsListed, S!OpenIsListed
  <2> QED BY <2>2, <2>5, <2>6, <2>7, <2>8, <2>9, <2>10, <2>11 DEF SocketsInv
<1> QED BY <1>4, <1>5

\* A write fails, of the program or of the loop: the entry stays, the number too.
LEMMA FailureKeeps ==
    ASSUME SocketsInv, NEW o \in Socks, csock[o] = "open",
           csock' = [csock EXCEPT ![o] = "failed"], owner' = S!Closed(cfd[o]),
           UNCHANGED <<cfd, fd2sock, name2fd, meta>>, misuse \subseteq misuse',
           pc' \in Places, pc' # "corrupt", pc' \in {"callback", "ending"} => cur' \in Socks,
           CallbackOpen'
    PROVE  SocketsInv'
<1>1. cfd[o] \in Fds
  BY DEF SocketsInv, Numbered
<1>2. \A p \in Socks : p # o => csock'[p] = csock[p]
  BY DEF SocketsInv, SocketsType
<1>3. csock'[o] = "failed"
  BY DEF SocketsInv, SocketsType
<1>4. SocketsType' /\ NothingNamed'
  <2>1. csock' \in [Socks -> States]
    BY DEF SocketsInv, SocketsType, States
  <2>2. owner' \in [Fds -> Socks \cup {NoSocket}]
    BY <1>1, ClosedFacts
  <2> QED BY <2>1, <2>2 DEF SocketsInv, SocketsType, NothingNamed
<1>5. Numbered'
  BY <1>1, <1>2, <1>3 DEF SocketsInv, Numbered
<1>6. NumbersApart'
  <2>1. ASSUME "reuse" \notin misuse', NEW p \in Socks, NEW q \in Socks,
               csock'[p] = "failed", csock'[q] = "open"
        PROVE  cfd[p] # cfd[q]
    <3>1. q # o /\ csock[q] = "open" /\ "reuse" \notin misuse
      BY <1>2, <1>3, <2>1
    <3>2. p # q /\ csock[p] # "freed"
      BY <1>2, <2>1
    <3> QED BY <3>1, <3>2, OpenApart
  <2> QED BY <2>1 DEF NumbersApart
<1>7. FreedHasNoMeta' /\ MemorySafe'
  BY <1>2, <1>3 DEF SocketsInv, SocketsType, FreedHasNoMeta, MemorySafe, S!MemorySafe
<1>8. ListedIsOwn'
  <2>1. ASSUME NEW x \in Fds, fd2sock[x] # NoSocket
        PROVE  fd2sock[x] \in Socks /\ cfd[fd2sock[x]] = x /\ csock'[fd2sock[x]] \in {"open", "failed"}
    BY <1>2, <1>3, <2>1, ListedFacts
  <2> QED BY <2>1 DEF ListedIsOwn, S!ListedIsOwn
<1>9. OpenIsListed'
  <2>1. ASSUME "reuse" \notin misuse', NEW p \in Socks, csock'[p] = "open"
        PROVE  fd2sock[cfd[p]] = p /\ owner'[cfd[p]] = p
    <3>1. p # o /\ csock[p] = "open" /\ "reuse" \notin misuse
      BY <1>2, <1>3, <2>1
    <3>2. cfd[p] \in Fds
      BY <3>1 DEF SocketsInv, Numbered
    <3>3. cfd[o] # cfd[p]
      BY <3>1, OpenApart
    <3>4. fd2sock[cfd[p]] = p /\ owner[cfd[p]] = p
      BY <3>1 DEF SocketsInv, OpenIsListed, S!OpenIsListed
    <3> QED BY <1>1, <3>2, <3>3, <3>4, ClosedFacts
  <2> QED BY <2>1 DEF OpenIsListed, S!OpenIsListed
<1> QED BY <1>4, <1>5, <1>6, <1>7, <1>8, <1>9 DEF SocketsInv

\* The end of a socket that failed is reported: only its own entry goes.
LEMMA EndReportedKeeps ==
    ASSUME SocketsInv, S!EndReported
    PROVE  SocketsInv'
<1>1. /\ pc = "ending" /\ pc' = "visit"
      /\ fd2sock' = [fd2sock EXCEPT ![cfd[cur]] = NoSocket]
      /\ cfd' = [cfd EXCEPT ![cur] = -1]
      /\ csock' = [csock EXCEPT ![cur] = "ended"]
      /\ UNCHANGED <<owner, name2fd, meta, cur, misuse>>
  BY DEF S!EndReported
<1>2. cur \in Socks /\ csock[cur] = "failed"
  BY <1>1 DEF SocketsInv, SocketsType, CallbackOpen
<1>3. cfd[cur] \in Fds
  BY <1>2 DEF SocketsInv, Numbered
<1>4. \A p \in Socks : p # cur => csock'[p] = csock[p] /\ cfd'[p] = cfd[p]
  BY <1>1 DEF SocketsInv, SocketsType
<1>5. csock'[cur] = "ended" /\ cfd'[cur] = NoNumber
  BY <1>1, <1>2 DEF SocketsInv, SocketsType, NoNumber
<1>6. SocketsType' /\ NothingNamed'
  <2>1. csock' \in [Socks -> States]
    BY <1>1 DEF SocketsInv, SocketsType, States
  <2>2. cfd' \in [Socks -> Fds \cup {NoNumber}]
    BY <1>1 DEF SocketsInv, SocketsType, NoNumber
  <2>3. fd2sock' \in [Fds \cup {NoNumber} -> Socks \cup {NoSocket}]
    BY <1>1 DEF SocketsInv, SocketsType
  <2> QED BY <1>1, <2>1, <2>2, <2>3 DEF SocketsInv, SocketsType, NothingNamed, Places
<1>7. Numbered'
  BY <1>4, <1>5 DEF SocketsInv, Numbered
<1>8. NumbersApart' /\ FreedHasNoMeta' /\ CallbackOpen' /\ MemorySafe'
  BY <1>1, <1>4, <1>5 DEF SocketsInv, SocketsType, NumbersApart, FreedHasNoMeta, CallbackOpen, MemorySafe, S!MemorySafe
<1>9. ListedIsOwn'
  <2>1. ASSUME NEW x \in Fds, fd2sock'[x] # NoSocket
        PROVE  fd2sock'[x] \in Socks /\ cfd'[fd2sock'[x]] = x /\ csock'[fd2sock'[x]] \in {"open", "failed"}
    <3>1. fd2sock'[x] = fd2sock[x] /\ x # cfd[cur]
      BY <1>1, <2>1 DEF SocketsInv, SocketsType
    <3>2. fd2sock[x] # cur
      BY <2>1, <3>1, ListedFacts
    <3> QED BY <1>4, <2>1, <3>1, <3>2, ListedFacts
  <2> QED BY <2>1 DEF ListedIsOwn, S!ListedIsOwn
<1>10. OpenIsListed'
  <2>1. ASSUME "reuse" \notin misuse', NEW p \in Socks, csock'[p] = "open"
        PROVE  fd2sock'[cfd'[p]] = p /\ owner'[cfd'[p]] = p
    <3>1. p # cur /\ csock[p] = "open" /\ "reuse" \notin misuse
      BY <1>1, <1>4, <1>5, <2>1
    <3>2. fd2sock[cfd[p]] = p /\ owner[cfd[p]] = p
      BY <3>1 DEF SocketsInv, OpenIsListed, S!OpenIsListed
    <3>3. cfd[cur] # cfd[p] /\ cfd[p] \in Fds
      <4>1. cfd[p] \in Fds
        BY <3>1 DEF SocketsInv, Numbered
      <4> QED BY <1>2, <3>1, <4>1, OpenApart
    <3>4. fd2sock'[cfd[p]] = fd2sock[cfd[p]]
      BY <1>1, <3>3 DEF SocketsInv, SocketsType
    <3> QED BY <1>1, <1>4, <3>1, <3>2, <3>4
  <2> QED BY <2>1 DEF OpenIsListed, S!OpenIsListed
<1> QED BY <1>6, <1>7, <1>8, <1>9, <1>10 DEF SocketsInv

\* Steps that leave the sockets and the tables as they are.
LEMMA SocketsStay ==
    ASSUME SocketsInv, UNCHANGED <<csock, cfd, owner, fd2sock, name2fd, meta, misuse>>,
           pc' \in Places, pc' \in {"callback", "ending"} => cur' \in Socks,
           CallbackOpen', MemorySafe'
    PROVE  SocketsInv'
<1>1. SocketsType' /\ Numbered' /\ NothingNamed' /\ NumbersApart' /\ FreedHasNoMeta'
  BY DEF SocketsInv, SocketsType, Numbered, NothingNamed, NumbersApart, FreedHasNoMeta
<1>2. ListedIsOwn' /\ OpenIsListed'
  BY DEF SocketsInv, ListedIsOwn, S!ListedIsOwn, OpenIsListed, S!OpenIsListed
<1> QED BY <1>1, <1>2 DEF SocketsInv

-----------------------------------------------------------------------------

LEMMA SocketsStart == S!Init => SocketsInv
<1> SUFFICES ASSUME S!Init PROVE SocketsInv
  OBVIOUS
<1>1. SocketsType /\ Numbered /\ NothingNamed
  BY SocketConstants DEF S!Init, SocketsType, Numbered, NothingNamed, States, Places, NoNumber
<1>2. NumbersApart /\ FreedHasNoMeta /\ CallbackOpen /\ MemorySafe
  BY DEF S!Init, NumbersApart, FreedHasNoMeta, CallbackOpen, MemorySafe, S!MemorySafe
<1>3. ListedIsOwn /\ OpenIsListed
  BY SocketConstants DEF S!Init, ListedIsOwn, S!ListedIsOwn, OpenIsListed, S!OpenIsListed
<1> QED BY <1>1, <1>2, <1>3 DEF SocketsInv

LEMMA ProgramKeeps == ASSUME SocketsInv, S!Program PROVE SocketsInv'
<1>1. S!Running => pc \in {"idle", "callback"}
  BY DEF S!Running
<1>2. ASSUME NEW o \in Socks, NEW name \in Names, S!Connect(o, name) PROVE SocketsInv'
  BY <1>2, ConnectKeeps
<1>3. ASSUME NEW o \in Socks, S!ProgramCloses(o) PROVE SocketsInv'
  BY <1>1, <1>3, CloseKeeps DEF S!ProgramCloses, Meddled
<1>4. ASSUME NEW o \in Socks, S!ProgramDisconnects(o) PROVE SocketsInv'
  BY <1>1, <1>4, CloseKeeps DEF S!ProgramDisconnects, Meddled
<1>5. ASSUME NEW o \in Socks, S!SendFails(o) PROVE SocketsInv'
  <2>1. CallbackOpen'
    BY <1>1, <1>5 DEF S!SendFails, S!loop, S!tables, SocketsInv, SocketsType, CallbackOpen
  <2>2. pc \in Places /\ (pc \in {"callback", "ending"} => cur \in Socks)
    BY DEF SocketsInv, SocketsType
  <2> QED BY <1>1, <1>5, <2>1, <2>2, FailureKeeps DEF S!SendFails, S!loop, S!tables
<1>6. ASSUME UNCHANGED <<csock, cfd, owner, fd2sock, name2fd, meta, misuse, pc, cur>>
      PROVE  SocketsInv'
  BY <1>6, SocketsStay DEF SocketsInv, SocketsType, CallbackOpen, MemorySafe, S!MemorySafe
<1>7. ASSUME NEW o \in Socks, S!Drop(o) PROVE SocketsInv'
  BY <1>6, <1>7 DEF S!Drop, S!tables, S!loop
<1>8. ASSUME NEW fd \in Fds, S!GetSock(fd) PROVE SocketsInv'
  BY <1>6, <1>8 DEF S!GetSock, S!tables, S!loop
<1> QED BY <1>2, <1>3, <1>4, <1>5, <1>7, <1>8 DEF S!Program

LEMMA LoopKeeps == ASSUME SocketsInv, S!Loop PROVE SocketsInv'
<1>1. CASE S!LoopStarts \/ S!LoopEnds
  BY <1>1, SocketsStay DEF S!LoopStarts, S!LoopEnds, S!tables, CallbackOpen, MemorySafe, S!MemorySafe, Places
<1>2. CASE S!CallbackReturns
  BY <1>2, SocketsStay DEF S!CallbackReturns, S!tables, CallbackOpen, MemorySafe, S!MemorySafe, Places, SocketsInv
<1>3. CASE S!EndReported
  BY <1>3, EndReportedKeeps
<1>4. ASSUME NEW fd \in Fds, S!Visit(fd) PROVE SocketsInv'
  <2>1. /\ pc = "visit" /\ fd2sock[fd] # NoSocket /\ cur' = fd2sock[fd]
        /\ UNCHANGED <<cfd, fd2sock, name2fd, meta, misuse>>
    BY <1>4 DEF S!Visit, S!Listed, S!tables
  <2>2. cur' \in Socks
    BY <2>1, ListedFacts
  <2>3. CASE UNCHANGED <<pc, csock, owner>>
    BY <2>1, <2>2, <2>3, SocketsStay DEF CallbackOpen, MemorySafe, S!MemorySafe, Places
  <2>4. CASE csock[fd2sock[fd]] = "open" /\ pc' = "callback" /\ UNCHANGED <<csock, owner>>
    BY <2>1, <2>2, <2>4, SocketsStay DEF CallbackOpen, MemorySafe, S!MemorySafe, Places
  <2>5. CASE /\ csock[fd2sock[fd]] = "open" /\ pc' \in {"visit", "ending"}
             /\ csock' = [csock EXCEPT ![fd2sock[fd]] = "failed"]
             /\ owner' = S!Closed(cfd[fd2sock[fd]])
    <3>1. csock'[cur'] = "failed"
      BY <2>1, <2>2, <2>5 DEF SocketsInv, SocketsType
    <3>2. CallbackOpen' /\ pc' \in Places /\ pc' # "corrupt"
      BY <2>5, <3>1 DEF CallbackOpen, Places
    <3> QED BY <2>1, <2>2, <2>5, <3>2, FailureKeeps
  <2> QED BY <1>4, <2>3, <2>4, <2>5 DEF S!Visit
<1> QED BY <1>1, <1>2, <1>3, <1>4 DEF S!Loop

LEMMA SocketsStep == SocketsInv /\ [AllNext]_allVars => SocketsInv'
<1> SUFFICES ASSUME SocketsInv, [AllNext]_allVars PROVE SocketsInv'
  OBVIOUS
<1>1. [S!Next]_socketVars
  BY DEF AllNext, allVars, socketVars
<1>2. ASSUME NEW o \in Socks, S!Collect(o) PROVE SocketsInv'
  BY <1>2, CloseKeeps DEF S!Collect
<1>3. CASE UNCHANGED socketVars
  BY <1>3, SocketsStay DEF socketVars, SocketsInv, SocketsType, CallbackOpen, MemorySafe, S!MemorySafe
<1> QED BY <1>1, <1>2, <1>3, ProgramKeeps, LoopKeeps DEF S!Next

-----------------------------------------------------------------------------

\* Neither the collector, at whatever moment of a round it runs, nor a callback
\* that disconnects other sockets or lets their writes fail makes the library use
\* a C socket that was freed: only the three calls of misuse can.
THEOREM MemoryStaysSafe == AllSpec => []MemorySafe
  BY SocketsStart, SocketsStep, PTL DEF AllSpec, AllInit, SocketsInv

\* A descriptor finds the socket that has it, never one that ended or was freed.
THEOREM EntriesAreOwn == AllSpec => []ListedIsOwn
  BY SocketsStart, SocketsStep, PTL DEF AllSpec, AllInit, SocketsInv

\* An open socket has its descriptor and its entry whatever the other sockets of
\* its name or number do, unless it got the number of one that failed unreported.
THEOREM OpenSocketsFound == AllSpec => []OpenIsListed
  BY SocketsStart, SocketsStep, PTL DEF AllSpec, AllInit, SocketsInv
=============================================================================
