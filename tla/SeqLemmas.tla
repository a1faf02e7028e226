----------------------------- MODULE SeqLemmas ------------------------------
(***************************************************************************)
(* Facts about sequences and rings that the proofs of several components   *)
(* need: how to recognise an Append or a Tail, what a stretch of a ring    *)
(* holds after a push or a pop, and what FlattenSeq of SequencesExt does   *)
(* at either end.  FlattenSeq is recursive, so the last ones are proved by *)
(* induction over the naturals, which is derived here for a set instead of *)
(* a predicate.                                                            *)
(***************************************************************************)
EXTENDS Integers, SequencesExt, SequenceTheorems, WellFoundedInduction, TLAPS

\* Every set of natural numbers has a least element.
LEMMA LeastNat ==
    ASSUME NEW T, T \subseteq Nat, T # {}
    PROVE  \E x \in T : \A y \in T : x <= y
<1> DEFINE R == OpToRel(<, Nat)
<1>1. IsWellFoundedOn(R, Nat)
  BY NatLessThanWellFounded
<1>2. \A m, n \in Nat : m < n => <<m, n>> \in R
  BY DEF OpToRel
<1> HIDE DEF R
<1>3. PICK x \in T : \A y \in T : ~ (<<y, x>> \in R)
  BY <1>1, WFMin, Zenon
<1>4. \A y \in T : ~ (y < x)
  BY <1>2, <1>3
<1> QED BY <1>4

\* Induction, for a set that contains 0 and the successor of each element.
LEMMA Induction ==
    ASSUME NEW T, T \subseteq Nat, 0 \in T, \A n \in T : n + 1 \in T
    PROVE  T = Nat
<1> DEFINE U == Nat \ T
<1> SUFFICES ASSUME U # {} PROVE FALSE
  OBVIOUS
<1>1. PICK x \in U : \A y \in U : x <= y
  BY LeastNat, U \subseteq Nat
<1>2. x \in Nat /\ x # 0 /\ x \notin T
  OBVIOUS
<1>3. x - 1 \in Nat /\ x - 1 \notin U
  BY <1>1, <1>2
<1> QED BY <1>2, <1>3

-----------------------------------------------------------------------------
(* Append, Tail and concatenation. *)

\* A sequence that is longer by one, agrees with s and ends with m.
LEMMA IsAppend ==
    ASSUME NEW S, NEW s \in Seq(S), NEW m \in S, NEW t \in Seq(S),
           Len(t) = Len(s) + 1, \A i \in 1 .. Len(s) : t[i] = s[i], t[Len(s) + 1] = m
    PROVE  t = Append(s, m)
<1>1. /\ Append(s, m) \in Seq(S) /\ Len(Append(s, m)) = Len(s) + 1 /\ Len(s) \in Nat
      /\ \A i \in 1 .. Len(s) : Append(s, m)[i] = s[i]
      /\ Append(s, m)[Len(s) + 1] = m
  BY AppendProperties
<1>2. \A i \in 1 .. Len(t) : t[i] = Append(s, m)[i]
  <2>1. \A i \in 1 .. Len(t) : i \in 1 .. Len(s) \/ i = Len(s) + 1
    BY <1>1
  <2> QED BY <1>1, <2>1
<1> QED BY <1>1, <1>2, SeqEqual

\* t is longer than s by one, begins with m and goes on like s.
Begins(t, m, s, S) ==
    /\ s \in Seq(S) /\ m \in S /\ t \in Seq(S)
    /\ Len(t) = Len(s) + 1 /\ t[1] = m /\ \A i \in 1 .. Len(s) : t[i + 1] = s[i]

LEMMA ConsBegins ==
    ASSUME NEW S, NEW s \in Seq(S), NEW m \in S
    PROVE  Begins(<<m>> \o s, m, s, S)
<1>1. <<m>> \in Seq(S) /\ Len(<<m>>) = 1 /\ <<m>>[1] = m /\ Len(s) \in Nat
  OBVIOUS
<1>2. /\ <<m>> \o s \in Seq(S) /\ Len(<<m>> \o s) = 1 + Len(s)
      /\ \A i \in 1 .. 1 + Len(s) :
            (<<m>> \o s)[i] = IF i <= 1 THEN <<m>>[i] ELSE s[i - 1]
  BY <1>1, ConcatProperties
<1>3. /\ \A i \in 1 .. Len(s) : i + 1 \in 1 .. 1 + Len(s) /\ ~ (i + 1 <= 1) /\ (i + 1) - 1 = i
      /\ 1 \in 1 .. 1 + Len(s)
  BY <1>1
<1>4. (<<m>> \o s)[1] = m /\ \A i \in 1 .. Len(s) : (<<m>> \o s)[i + 1] = s[i]
  BY <1>1, <1>2, <1>3
<1> QED BY <1>1, <1>2, <1>4 DEF Begins

LEMMA IsCons ==
    ASSUME NEW S, NEW s, NEW m, NEW t, Begins(t, m, s, S)
    PROVE  t = <<m>> \o s
<1> SUFFICES ASSUME s \in Seq(S), m \in S, t \in Seq(S), Len(t) = Len(s) + 1, t[1] = m,
                    \A i \in 1 .. Len(s) : t[i + 1] = s[i]
             PROVE  t = <<m>> \o s
  BY DEF Begins
<1>1. <<m>> \in Seq(S) /\ Len(<<m>>) = 1 /\ <<m>>[1] = m /\ Len(s) \in Nat
  OBVIOUS
<1>2. /\ <<m>> \o s \in Seq(S) /\ Len(<<m>> \o s) = 1 + Len(s)
      /\ \A i \in 1 .. 1 + Len(s) :
            (<<m>> \o s)[i] = IF i <= 1 THEN <<m>>[i] ELSE s[i - 1]
  BY <1>1, ConcatProperties
<1>3. ASSUME NEW i \in 1 .. Len(t) PROVE t[i] = (<<m>> \o s)[i]
  <2>1. CASE i = 1
    BY <1>1, <1>2, <2>1
  <2>2. CASE i # 1
    <3>1. i - 1 \in 1 .. Len(s) /\ (i - 1) + 1 = i /\ ~ (i <= 1)
      BY <1>1, <2>2
    <3>2. t[i] = s[i - 1]
      BY <3>1
    <3> QED BY <1>1, <1>2, <3>1, <3>2
  <2> QED BY <2>1, <2>2
<1> QED BY <1>1, <1>2, <1>3, SeqEqual

\* Three sequences joined from the left and from the right; u before v is w.
Assoc(a, b, c) == (a \o b) \o c = a \o (b \o c)
Joins(u, v, w) == w = u \o v

LEMMA AssocAll == \A S : \A a, b, c \in Seq(S) : Assoc(a, b, c)
  BY ConcatAssociative, Zenon DEF Assoc

\* Three sequences in a row.
LEMMA Assoc3 ==
    ASSUME NEW S, NEW a \in Seq(S), NEW b \in Seq(S), NEW c \in Seq(S)
    PROVE  /\ (a \o b) \o c = a \o (b \o c)
           /\ a \o b \in Seq(S) /\ a \o b \o c \in Seq(S)
           /\ a \o <<>> = a /\ <<>> \o a = a
  BY ConcatAssociative, ConcatProperties, ConcatEmptySeq

\* The beginning of a concatenation.
LEMMA PrefixOfConcat ==
    ASSUME NEW S, NEW a \in Seq(S), NEW b \in Seq(S)
    PROVE  SubSeq(a \o b, 1, Len(a)) = a /\ IsPrefix(a, a \o b)
<1> DEFINE n == Len(a)
           c == a \o b
           p == SubSeq(c, 1, n)
<1>1. /\ n \in Nat /\ c \in Seq(S) /\ Len(c) = n + Len(b) /\ Len(b) \in Nat
      /\ \A i \in 1 .. n : c[i] = a[i]
  BY ConcatProperties
<1> HIDE DEF c
<1>2. \A i \in 1 .. n : c[i] \in S
  BY <1>1
<1>3. p \in Seq(S) /\ Len(p) = n /\ \A i \in 1 .. n : p[i] = c[i]
  BY <1>1, <1>2
<1> HIDE DEF p
<1>4. p = a
  BY <1>1, <1>3, SeqEqual
<1> QED BY <1>1, <1>4 DEF p, c, IsPrefix

-----------------------------------------------------------------------------
(* The end of a sequence. *)

\* s without its first n elements.
Past(s, n) == SubSeq(s, n + 1, Len(s))

LEMMA CutAt ==
    ASSUME NEW S, NEW s \in Seq(S), NEW n \in 0 .. Len(s)
    PROVE  /\ SubSeq(s, 1, n) \in Seq(S) /\ Len(SubSeq(s, 1, n)) = n
           /\ Past(s, n) \in Seq(S) /\ Len(Past(s, n)) = Len(s) - n
           /\ s = SubSeq(s, 1, n) \o Past(s, n)
<1>1. Len(s) \in Nat /\ \A i \in 1 .. Len(s) : s[i] \in S
  BY LenProperties, ElementOfSeq
<1>2. SubSeq(s, 1, n) \in Seq(S) /\ Len(SubSeq(s, 1, n)) = n
  <2>1. \A i \in 1 .. n : s[i] \in S
    BY <1>1
  <2>2. n \in Int /\ (IF 1 <= n THEN n - 1 + 1 ELSE 0) = n
    BY <1>1
  <2> QED BY <2>1, <2>2, SubSeqProperties
<1>3. Past(s, n) \in Seq(S) /\ Len(Past(s, n)) = Len(s) - n
  <2>1. \A i \in n + 1 .. Len(s) : s[i] \in S
    BY <1>1
  <2>2. n + 1 \in Int /\ Len(s) \in Int
        /\ (IF n + 1 <= Len(s) THEN Len(s) - (n + 1) + 1 ELSE 0) = Len(s) - n
    BY <1>1
  <2> QED BY <2>1, <2>2, SubSeqProperties DEF Past
<1>4. SubSeq(s, 1, n) \o Past(s, n) = SubSeq(s, 1, Len(s))
  <2>1. 1 \in 1 .. Len(s) + 1 /\ n \in 1 - 1 .. Len(s) /\ Len(s) \in n .. Len(s)
    BY <1>1
  <2> QED BY <2>1, ConcatAdjacentSubSeq DEF Past
<1> QED BY <1>2, <1>3, <1>4, SubSeqFull

\* The second of two parts.
LEMMA PastPart ==
    ASSUME NEW S, NEW a \in Seq(S), NEW b \in Seq(S)
    PROVE  Past(a \o b, Len(a)) = b
<1> DEFINE c == a \o b
           q == Past(c, Len(a))
<1>1. c \in Seq(S) /\ Len(a) \in 0 .. Len(c)
  <2>1. c \in Seq(S) /\ Len(c) = Len(a) + Len(b) /\ Len(a) \in Nat /\ Len(b) \in Nat
    BY ConcatProperties, LenProperties
  <2> QED BY <2>1
<1>2. q \in Seq(S) /\ c = SubSeq(c, 1, Len(a)) \o q
  BY <1>1, CutAt
<1>3. SubSeq(c, 1, Len(a)) = a
  BY PrefixOfConcat
<1>4. a \o q = a \o b
  BY <1>2, <1>3
<1> HIDE DEF q
<1>5. q = b
  BY <1>2, <1>4, ConcatSimplifications, Zenon
<1> QED BY <1>5 DEF q

\* Some elements of the second part are cut off too.
LEMMA PastFurther ==
    ASSUME NEW S, NEW a \in Seq(S), NEW b \in Seq(S), NEW m \in 0 .. Len(b)
    PROVE  Past(a \o b, Len(a) + m) = Past(b, m)
<1> DEFINE p == SubSeq(b, 1, m)
           q == Past(b, m)
<1>1. p \in Seq(S) /\ Len(p) = m /\ q \in Seq(S) /\ b = p \o q
  BY CutAt
<1> HIDE DEF p, q
<1>2. a \o b = (a \o p) \o q /\ a \o p \in Seq(S) /\ Len(a \o p) = Len(a) + m
  <2>1. (a \o p) \o q = a \o (p \o q)
    <3>1. p \in Seq(S) /\ q \in Seq(S)
      BY <1>1
    <3>2. Assoc(a, p, q)
      BY <3>1, AssocAll
    <3> QED BY <3>2 DEF Assoc
  <2>2. a \o p \in Seq(S) /\ Len(a \o p) = Len(a) + Len(p)
    BY <1>1, ConcatProperties
  <2> QED BY <1>1, <2>1, <2>2
<1>3. Past((a \o p) \o q, Len(a \o p)) = q
  BY <1>1, <1>2, PastPart
<1> QED BY <1>2, <1>3 DEF q

LEMMA PastTwice ==
    ASSUME NEW S, NEW s \in Seq(S), NEW n \in 0 .. Len(s), NEW m \in 0 .. Len(s) - n
    PROVE  Past(Past(s, n), m) = Past(s, n + m)
<1> DEFINE p == SubSeq(s, 1, n)
           q == Past(s, n)
<1>1. p \in Seq(S) /\ Len(p) = n /\ q \in Seq(S) /\ Len(q) = Len(s) - n /\ s = p \o q
  BY CutAt
<1> HIDE DEF p, q
<1>2. Past(p \o q, Len(p) + m) = Past(q, m)
  <2>1. m \in 0 .. Len(q)
    BY <1>1
  <2> QED BY <1>1, <2>1, PastFurther, Zenon
<1> QED BY <1>1, <1>2, Zenon DEF q

\* Some elements of the first part are cut off.
LEMMA PastBefore ==
    ASSUME NEW S, NEW a \in Seq(S), NEW b \in Seq(S), NEW n \in 0 .. Len(a)
    PROVE  Past(a \o b, n) = Past(a, n) \o b
<1> DEFINE p == SubSeq(a, 1, n)
           q == Past(a, n)
<1>1. p \in Seq(S) /\ Len(p) = n /\ q \in Seq(S) /\ a = p \o q
  BY CutAt
<1> HIDE DEF p, q
<1>2. a \o b = p \o (q \o b) /\ q \o b \in Seq(S)
  <2>1. Assoc(p, q, b)
    BY <1>1, AssocAll
  <2>2. (p \o q) \o b = p \o (q \o b)
    BY <2>1 DEF Assoc
  <2>3. q \o b \in Seq(S)
    BY <1>1, ConcatProperties
  <2> QED BY <1>1, <2>2, <2>3, Zenon
<1>3. Past(p \o (q \o b), Len(p)) = q \o b
  BY <1>1, <1>2, PastPart
<1> QED BY <1>1, <1>2, <1>3 DEF q

-----------------------------------------------------------------------------
(* FlattenSeq. *)

\* There is a function that satisfies its recursion up to any place.
LEMMA FlattenExists ==
    ASSUME NEW s
    PROVE  \A n \in Nat : \E f : f = [i \in 1 .. n |-> IF i = 1 THEN s[i] ELSE f[i - 1] \o s[i]]
<1> DEFINE T == {n \in Nat : \E f : f = [i \in 1 .. n |-> IF i = 1 THEN s[i] ELSE f[i - 1] \o s[i]]}
<1>1. 0 \in T
  <2>1. [i \in {} |-> i] = [i \in 1 .. 0 |-> IF i = 1 THEN s[i] ELSE [j \in {} |-> j][i - 1] \o s[i]]
    OBVIOUS
  <2> QED BY <2>1
<1>2. ASSUME NEW n \in T PROVE n + 1 \in T
  <2>1. PICK f : f = [i \in 1 .. n |-> IF i = 1 THEN s[i] ELSE f[i - 1] \o s[i]]
    OBVIOUS
  <2> DEFINE new == IF n + 1 = 1 THEN s[n + 1] ELSE f[n] \o s[n + 1]
             g == [i \in 1 .. n + 1 |-> IF i = n + 1 THEN new ELSE f[i]]
  <2>2. \A i \in 1 .. n : f[i] = IF i = 1 THEN s[i] ELSE f[i - 1] \o s[i]
    BY <2>1
  <2>3. \A i \in 1 .. n + 1 : g[i] = IF i = 1 THEN s[i] ELSE g[i - 1] \o s[i]
    <3> TAKE i \in 1 .. n + 1
    <3>1. CASE i = n + 1
      <4>1. i # 1 => i - 1 = n /\ i - 1 \in 1 .. n + 1 /\ i - 1 # n + 1
        BY <3>1
      <4> QED BY <3>1, <4>1
    <3>2. CASE i # n + 1
      <4>1. i \in 1 .. n
        BY <3>2
      <4>2. i # 1 => i - 1 \in 1 .. n + 1 /\ i - 1 # n + 1
        BY <3>2
      <4> QED BY <2>2, <3>2, <4>1, <4>2
    <3> QED BY <3>1, <3>2
  <2>4. g = [i \in 1 .. n + 1 |-> g[i]]
    OBVIOUS
  <2> HIDE DEF g
  <2>5. g = [i \in 1 .. n + 1 |-> IF i = 1 THEN s[i] ELSE g[i - 1] \o s[i]]
    BY <2>3, <2>4
  <2>6. n + 1 \in Nat
    OBVIOUS
  <2> QED BY <2>5, <2>6
<1> HIDE DEF T
<1>3. T = Nat
  <2>1. T \subseteq Nat
    BY DEF T
  <2> QED BY <1>1, <1>2, <2>1, Induction
<1> QED BY <1>3 DEF T

\* The function in the definition of FlattenSeq.
LEMMA FlattenIs ==
    ASSUME NEW s, Len(s) \in Nat \ {0}
    PROVE  \E f : /\ f[1] = s[1]
                  /\ \A i \in 1 .. Len(s) - 1 : f[i + 1] = f[i] \o s[i + 1]
                  /\ FlattenSeq(s) = f[Len(s)]
<1> DEFINE G == CHOOSE f : f = [i \in 1 .. Len(s) |-> IF i = 1 THEN s[i] ELSE f[i - 1] \o s[i]]
<1>1. G = [i \in 1 .. Len(s) |-> IF i = 1 THEN s[i] ELSE G[i - 1] \o s[i]]
  BY FlattenExists
<1>2. FlattenSeq(s) = G[Len(s)]
  BY DEF FlattenSeq
<1> HIDE DEF G
<1>3. \A i \in 1 .. Len(s) : G[i] = IF i = 1 THEN s[i] ELSE G[i - 1] \o s[i]
  BY <1>1
<1>4. ASSUME NEW i \in 1 .. Len(s) - 1 PROVE G[i + 1] = G[i] \o s[i + 1]
  <2>1. i + 1 \in 1 .. Len(s) /\ i + 1 # 1 /\ (i + 1) - 1 = i
    OBVIOUS
  <2>2. G[i + 1] = IF i + 1 = 1 THEN s[i + 1] ELSE G[(i + 1) - 1] \o s[i + 1]
    BY <1>3, <2>1
  <2> QED BY <2>1, <2>2
<1>5. G[1] = s[1]
  BY <1>3
<1> QED BY <1>2, <1>4, <1>5, Zenon

\* FlattenSeq is of the same type as the parts.
LEMMA FlattenType ==
    ASSUME NEW S, NEW s \in Seq(Seq(S))
    PROVE  FlattenSeq(s) \in Seq(S)
<1>1. FlattenSeq(<<>>) = <<>> /\ <<>> \in Seq(S)
  BY DEF FlattenSeq
<1>2. CASE Len(s) = 0
  <2>1. s = <<>>
    BY <1>2, EmptySeq
  <2> QED BY <1>1, <2>1
<1>3. CASE Len(s) # 0
  <2>1. Len(s) \in Nat \ {0} /\ \A i \in 1 .. Len(s) : s[i] \in Seq(S)
    BY <1>3
  <2>2. PICK f : /\ f[1] = s[1]
                 /\ \A i \in 1 .. Len(s) - 1 : f[i + 1] = f[i] \o s[i + 1]
                 /\ FlattenSeq(s) = f[Len(s)]
    BY <2>1, FlattenIs
  <2> DEFINE T == {n \in Nat : n \in 1 .. Len(s) => f[n] \in Seq(S)}
  <2>3. 0 \in T
    OBVIOUS
  <2>4. ASSUME NEW n \in T PROVE n + 1 \in T
    <3> SUFFICES ASSUME n + 1 \in 1 .. Len(s) PROVE f[n + 1] \in Seq(S)
      OBVIOUS
    <3>1. CASE n = 0
      BY <2>1, <2>2, <3>1
    <3>2. CASE n # 0
      <4>1. n \in 1 .. Len(s) /\ n \in 1 .. Len(s) - 1
        BY <2>1, <3>2
      <4>2. f[n] \in Seq(S) /\ s[n + 1] \in Seq(S)
        BY <2>1, <4>1
      <4> QED BY <2>2, <4>1, <4>2, ConcatProperties
    <3> QED BY <3>1, <3>2
  <2> HIDE DEF T
  <2>5. T = Nat
    <3>1. T \subseteq Nat
      BY DEF T
    <3> QED BY <2>3, <2>4, <3>1, Induction
  <2>6. Len(s) \in T /\ Len(s) \in 1 .. Len(s)
    BY <2>1, <2>5
  <2>7. f[Len(s)] \in Seq(S)
    BY <2>6 DEF T
  <2> QED BY <2>2, <2>7
<1> QED
  <2>1. Len(s) \in Nat
    OBVIOUS
  <2> QED BY <1>2, <1>3

\* One more part at the end.
LEMMA FlattenAppend ==
    ASSUME NEW S, NEW s \in Seq(Seq(S)), NEW x \in Seq(S)
    PROVE  FlattenSeq(Append(s, x)) = FlattenSeq(s) \o x
<1> DEFINE t == Append(s, x)
           n == Len(s)
<1>1. /\ t \in Seq(Seq(S)) /\ n \in Nat /\ Len(t) = n + 1
      /\ \A i \in 1 .. n : t[i] = s[i]
      /\ t[n + 1] = x
  BY AppendProperties
<1> HIDE DEF t
<1>2. PICK g : /\ g[1] = t[1]
               /\ \A i \in 1 .. Len(t) - 1 : g[i + 1] = g[i] \o t[i + 1]
               /\ FlattenSeq(t) = g[Len(t)]
  <2>1. Len(t) \in Nat \ {0}
    BY <1>1
  <2> QED BY <2>1, FlattenIs
<1>3. CASE n = 0
  <2>1. s = <<>> /\ FlattenSeq(t) = x
    BY <1>1, <1>2, <1>3, EmptySeq
  <2>2. FlattenSeq(<<>>) = <<>>
    BY DEF FlattenSeq
  <2>3. <<>> \o x = x
    BY ConcatEmptySeq
  <2> QED BY <2>1, <2>2, <2>3 DEF t
<1>4. CASE n # 0
  <2>1. PICK f : /\ f[1] = s[1]
                 /\ \A i \in 1 .. n - 1 : f[i + 1] = f[i] \o s[i + 1]
                 /\ FlattenSeq(s) = f[n]
    <3>1. Len(s) \in Nat \ {0}
      BY <1>1, <1>4
    <3> QED BY <3>1, FlattenIs
  <2> DEFINE T == {k \in Nat : k \in 1 .. n => f[k] = g[k]}
  <2>2. 0 \in T
    OBVIOUS
  <2>3. ASSUME NEW k \in T PROVE k + 1 \in T
    <3> SUFFICES ASSUME k + 1 \in 1 .. n PROVE f[k + 1] = g[k + 1]
      OBVIOUS
    <3>1. CASE k = 0
      BY <1>1, <1>2, <2>1, <3>1
    <3>2. CASE k # 0
      <4>1. k \in 1 .. n /\ k \in 1 .. n - 1 /\ k \in 1 .. Len(t) - 1
        <5>1. k \in Nat /\ k # 0 /\ k + 1 \in 1 .. n /\ n \in Nat /\ Len(s) = n /\ Len(t) = n + 1
          BY <1>1, <3>2
        <5> QED BY <5>1
      <4>2. f[k] = g[k]
        BY <4>1
      <4>3. f[k + 1] = f[k] \o s[k + 1] /\ g[k + 1] = g[k] \o t[k + 1] /\ t[k + 1] = s[k + 1]
        BY <1>1, <1>2, <2>1, <4>1
      <4> QED BY <4>2, <4>3, Zenon
    <3> QED BY <3>1, <3>2
  <2> HIDE DEF T
  <2>4. T = Nat
    <3>1. T \subseteq Nat
      BY DEF T
    <3> QED BY <2>2, <2>3, <3>1, Induction
  <2>5. n \in 1 .. n /\ n \in 1 .. Len(t) - 1
    BY <1>1, <1>4
  <2>6. f[n] = g[n] /\ g[n + 1] = g[n] \o t[n + 1] /\ FlattenSeq(t) = g[n + 1]
    BY <1>1, <1>2, <2>4, <2>5 DEF T
  <2> QED BY <1>1, <2>1, <2>6 DEF t
<1> QED BY <1>3, <1>4

\* FlattenSeq of one part, and of no part.
LEMMA FlattenOne ==
    ASSUME NEW S, NEW x \in Seq(S)
    PROVE  FlattenSeq(<<x>>) = x /\ FlattenSeq(<<>>) = <<>>
<1>1. FlattenSeq(<<>>) = <<>> /\ <<>> \in Seq(Seq(S)) /\ Append(<<>>, x) = <<x>>
  BY DEF FlattenSeq
<1>2. FlattenSeq(<<x>>) = <<>> \o x
  BY <1>1, FlattenAppend
<1> QED BY <1>1, <1>2, ConcatEmptySeq

\* One more part at the front.
LEMMA FlattenCons ==
    ASSUME NEW S, NEW s \in Seq(Seq(S)), NEW x \in Seq(S)
    PROVE  FlattenSeq(<<x>> \o s) = x \o FlattenSeq(s)
<1> DEFINE P(u) == FlattenSeq(<<x>> \o u) = x \o FlattenSeq(u)
           T == {n \in Nat : \A u \in Seq(Seq(S)) : Len(u) = n => P(u)}
<1>1. 0 \in T
  <2> SUFFICES ASSUME NEW u \in Seq(Seq(S)), Len(u) = 0 PROVE P(u)
    OBVIOUS
  <2>1. u = <<>> /\ <<x>> \o <<>> = <<x>> /\ x \o <<>> = x
    BY EmptySeq, ConcatEmptySeq
  <2>2. FlattenSeq(<<x>>) = x /\ FlattenSeq(<<>>) = <<>>
    BY FlattenOne
  <2> QED BY <2>1, <2>2
<1>2. ASSUME NEW n \in Nat, \A w \in Seq(Seq(S)) : Len(w) = n => P(w),
             NEW u \in Seq(Seq(S)), Len(u) = n + 1
      PROVE  P(u)
  <2> DEFINE v == [i \in 1 .. n |-> u[i]]
             y == u[n + 1]
  <2>1. /\ v \in Seq(Seq(S)) /\ Len(v) = n /\ y \in Seq(S)
        /\ u = Append(v, y)
    <3>1. n \in Nat /\ \A i \in 1 .. n + 1 : u[i] \in Seq(S)
      BY <1>2
    <3>2. v \in Seq(Seq(S)) /\ Len(v) = n /\ \A i \in 1 .. n : u[i] = v[i]
      BY <3>1
    <3>3. y \in Seq(S)
      BY <3>1
    <3> HIDE DEF v
    <3> QED BY <1>2, <3>2, <3>3, IsAppend
  <2> HIDE DEF v, y
  <2>2. P(v)
    BY <1>2, <2>1
  <2>3. <<x>> \in Seq(Seq(S)) /\ <<y>> \in Seq(Seq(S)) /\ <<x>> \o v \in Seq(Seq(S))
    BY <2>1, ConcatProperties
  <2>4. <<x>> \o u = Append(<<x>> \o v, y)
    <3>1. u = v \o <<y>> /\ Append(<<x>> \o v, y) = (<<x>> \o v) \o <<y>>
      BY <2>1, <2>3, AppendIsConcat
    <3>2. <<y>> \in Seq(Seq(S)) /\ <<x>> \in Seq(Seq(S)) /\ v \in Seq(Seq(S))
      BY <2>1, <2>3
    <3> PICK p, q : p = <<x>> /\ q = <<y>>
      OBVIOUS
    <3>3. Assoc(p, v, q)
      BY <3>2, AssocAll
    <3>4. (<<x>> \o v) \o <<y>> = <<x>> \o (v \o <<y>>)
      BY <3>3 DEF Assoc
    <3> QED BY <3>1, <3>4, Zenon
  <2>5. FlattenSeq(<<x>> \o u) = FlattenSeq(<<x>> \o v) \o y
    BY <2>1, <2>3, <2>4, FlattenAppend
  <2>6. FlattenSeq(u) = FlattenSeq(v) \o y /\ FlattenSeq(v) \in Seq(S)
    BY <2>1, FlattenAppend, FlattenType
  <2>7. (x \o FlattenSeq(v)) \o y = x \o (FlattenSeq(v) \o y)
    <3>1. FlattenSeq(v) \in Seq(S) /\ y \in Seq(S)
      BY <2>1, <2>6
    <3>2. Assoc(x, FlattenSeq(v), y)
      BY <3>1, AssocAll
    <3> QED BY <3>2 DEF Assoc
  <2> QED BY <2>2, <2>5, <2>6, <2>7
<1>3. \A n \in T : n + 1 \in T
  <2> HIDE DEF P
  <2>1. \A n \in T : n + 1 \in Nat
    OBVIOUS
  <2> QED BY <1>2, <2>1
<1> HIDE DEF T
<1>4. T = Nat
  <2>1. T \subseteq Nat
    BY DEF T
  <2> QED BY <1>1, <1>3, <2>1, Induction
<1> QED
  <2>1. Len(s) \in T
    BY <1>4
  <2> QED BY <2>1 DEF T

\* Many parts, and many more.
LEMMA FlattenConcat ==
    ASSUME NEW S, NEW a \in Seq(Seq(S)), NEW b \in Seq(Seq(S))
    PROVE  FlattenSeq(a \o b) = FlattenSeq(a) \o FlattenSeq(b)
<1>0. \A s, t, w \in Seq(S) : Assoc(s, t, w)
  BY AssocAll
<1> DEFINE P(u) == FlattenSeq(a \o u) = FlattenSeq(a) \o FlattenSeq(u)
           T == {n \in Nat : \A u \in Seq(Seq(S)) : Len(u) = n => P(u)}
<1>1. 0 \in T
  <2> SUFFICES ASSUME NEW u \in Seq(Seq(S)), Len(u) = 0 PROVE P(u)
    OBVIOUS
  <2>1. u = <<>> /\ a \o <<>> = a /\ FlattenSeq(<<>>) = <<>> /\ FlattenSeq(a) \in Seq(S)
    BY EmptySeq, ConcatEmptySeq, FlattenType DEF FlattenSeq
  <2>2. FlattenSeq(a) \o <<>> = FlattenSeq(a)
    BY <2>1, ConcatEmptySeq
  <2> QED BY <2>1, <2>2
<1>2. ASSUME NEW n \in Nat, \A w \in Seq(Seq(S)) : Len(w) = n => P(w),
             NEW u \in Seq(Seq(S)), Len(u) = n + 1
      PROVE  P(u)
  <2>1. PICK v \in Seq(Seq(S)), y \in Seq(S) : u = Append(v, y)
    <3>1. u # <<>>
      BY <1>2, EmptySeq
    <3> QED BY <3>1, SequenceEmptyOrAppend
  <2>2. Len(v) = n
    <3>1. Len(u) = Len(v) + 1 /\ Len(v) \in Nat
      BY <2>1, AppendProperties, LenProperties
    <3> QED BY <1>2, <3>1
  <2>3. FlattenSeq(a \o v) = FlattenSeq(a) \o FlattenSeq(v)
    BY <1>2, <2>2
  <2>4. a \o u = Append(a \o v, y) /\ a \o v \in Seq(Seq(S))
    <3>1. <<y>> \in Seq(Seq(S)) /\ a \o v \in Seq(Seq(S))
      BY ConcatProperties
    <3>2. u = v \o <<y>> /\ Append(a \o v, y) = (a \o v) \o <<y>>
      BY <2>1, <3>1, AppendIsConcat
    <3> PICK q : q = <<y>>
      OBVIOUS
    <3>3. Assoc(a, v, q)
      BY <3>1, AssocAll
    <3>4. (a \o v) \o <<y>> = a \o (v \o <<y>>)
      BY <3>3 DEF Assoc
    <3> QED BY <3>1, <3>2, <3>4, Zenon
  <2>5. FlattenSeq(a \o u) = FlattenSeq(a \o v) \o y /\ FlattenSeq(u) = FlattenSeq(v) \o y
    BY <2>1, <2>4, FlattenAppend
  <2>6. FlattenSeq(a) \in Seq(S) /\ FlattenSeq(v) \in Seq(S)
    BY FlattenType
  <2>7. (FlattenSeq(a) \o FlattenSeq(v)) \o y = FlattenSeq(a) \o (FlattenSeq(v) \o y)
    <3>1. y \in Seq(S)
      BY <2>1
    <3>2. Assoc(FlattenSeq(a), FlattenSeq(v), y)
      BY <1>0, <2>6, <3>1
    <3> QED BY <3>2 DEF Assoc
  <2> QED BY <2>3, <2>5, <2>7
<1>3. \A n \in T : n + 1 \in T
  <2> HIDE DEF P
  <2>1. \A n \in T : n + 1 \in Nat
    OBVIOUS
  <2> QED BY <1>2, <2>1
<1> HIDE DEF T
<1>4. T = Nat
  <2>1. T \subseteq Nat
    BY DEF T
  <2> QED BY <1>1, <1>3, <2>1, Induction
<1> QED
  <2>1. Len(b) \in T
    BY <1>4, LenProperties
  <2> QED BY <2>1 DEF T

\* Empty texts in a row.
LEMMA FlattenBlank ==
    ASSUME NEW S, NEW s \in Seq(Seq(S)), \A i \in 1 .. Len(s) : s[i] = <<>>
    PROVE  FlattenSeq(s) = <<>>
<1>1. Len(s) \in Nat
  BY LenProperties
<1>2. CASE Len(s) = 0
  <2>1. s = <<>>
    BY <1>2, EmptySeq
  <2> QED BY <2>1 DEF FlattenSeq
<1>3. CASE Len(s) # 0
  <2>1. PICK f : /\ f[1] = s[1]
                 /\ \A i \in 1 .. Len(s) - 1 : f[i + 1] = f[i] \o s[i + 1]
                 /\ FlattenSeq(s) = f[Len(s)]
    BY <1>1, <1>3, FlattenIs
  <2> DEFINE T == {i \in Nat : i + 1 <= Len(s) => f[i + 1] = <<>>}
  <2>2. 0 \in T
    BY <1>1, <2>1
  <2>3. ASSUME NEW i \in T PROVE i + 1 \in T
    <3> SUFFICES ASSUME i + 1 + 1 <= Len(s) PROVE f[i + 1 + 1] = <<>>
      OBVIOUS
    <3>1. i + 1 \in 1 .. Len(s) - 1 /\ i + 1 <= Len(s) /\ i + 1 + 1 \in 1 .. Len(s)
      BY <1>1
    <3>2. f[i + 1] = <<>> /\ s[i + 1 + 1] = <<>>
      BY <3>1
    <3>3. <<>> \o <<>> = <<>>
      OBVIOUS
    <3> QED BY <2>1, <3>1, <3>2, <3>3
  <2>4. T \subseteq Nat
    OBVIOUS
  <2> HIDE DEF T
  <2>5. T = Nat
    BY <2>2, <2>3, <2>4, Induction
  <2>6. Len(s) - 1 \in T /\ (Len(s) - 1) + 1 = Len(s)
    BY <1>1, <1>3, <2>5
  <2>7. f[Len(s)] = <<>>
    BY <1>1, <2>6 DEF T
  <2> QED BY <2>1, <2>7
<1> QED BY <1>2, <1>3

\* The texts before and after text m.
LEMMA FlattenSplit ==
    ASSUME NEW S, NEW s \in Seq(Seq(S)), NEW m \in 1 .. Len(s)
    PROVE  \E a, b \in Seq(S) :
               /\ a = FlattenSeq(SubSeq(s, 1, m - 1)) /\ b = FlattenSeq(Past(s, m))
               /\ FlattenSeq(s) = (a \o s[m]) \o b
               /\ (\A i \in 1 .. m - 1 : s[i] = <<>>) => a = <<>>
<1>1. PICK Y : Y = Seq(S)
  OBVIOUS
<1>2. s \in Seq(Y) /\ Len(s) \in Nat /\ m - 1 \in 0 .. Len(s) /\ m \in 0 .. Len(s)
  BY <1>1, LenProperties
<1>3. PICK p, q, r : p = SubSeq(s, 1, m) /\ q = Past(s, m) /\ r = SubSeq(s, 1, m - 1)
  OBVIOUS
<1>4. p \in Seq(Y) /\ q \in Seq(Y) /\ s = p \o q
  <2>1. SubSeq(s, 1, m) \in Seq(Y) /\ Past(s, m) \in Seq(Y)
    BY <1>2, CutAt
  <2>2. s = SubSeq(s, 1, m) \o Past(s, m)
    BY <1>2, CutAt
  <2> QED BY <1>3, <2>1, <2>2
<1>5. r \in Seq(Y) /\ Len(r) = m - 1 /\ s[m] \in Y
  BY <1>2, <1>3, CutAt, ElementOfSeq
<1>6. p = Append(r, s[m])
  <2>1. 1 \in 1 .. Len(s) /\ m \in 1 .. Len(s)
    BY <1>2
  <2>2. SubSeq(s, 1, m) = SubSeq(s, 1, m - 1) \o <<s[m]>>
    BY <1>2, <2>1, SubSeqRecursiveSecond
  <2>3. Append(r, s[m]) = r \o <<s[m]>>
    BY <1>5, AppendIsConcat
  <2> QED BY <1>3, <2>2, <2>3
<1>7. FlattenSeq(s) = FlattenSeq(p) \o FlattenSeq(q)
  BY <1>1, <1>4, FlattenConcat
<1>8. FlattenSeq(p) = FlattenSeq(r) \o s[m]
  BY <1>1, <1>5, <1>6, FlattenAppend
<1>9. FlattenSeq(r) \in Seq(S) /\ FlattenSeq(q) \in Seq(S)
  BY <1>1, <1>4, <1>5, FlattenType
<1>10. ASSUME \A i \in 1 .. m - 1 : s[i] = <<>> PROVE FlattenSeq(r) = <<>>
  <2>1. \A i \in 1 .. Len(r) : r[i] = s[i]
    BY <1>3, <1>5
  <2>2. \A i \in 1 .. Len(r) : r[i] = <<>>
    BY <1>5, <1>10, <2>1
  <2> QED BY <1>1, <1>5, <2>2, FlattenBlank
<1>11. PICK a, b : a = FlattenSeq(r) /\ b = FlattenSeq(q)
  OBVIOUS
<1> QED BY <1>3, <1>7, <1>8, <1>9, <1>10, <1>11

\* t is s without text m.
LacksText(t, s, m, S) ==
    /\ s \in Seq(S) /\ t \in Seq(S) /\ m \in 1 .. Len(s) /\ Len(t) = Len(s) - 1
    /\ \A i \in 1 .. m - 1 : t[i] = s[i]
    /\ \A i \in m .. Len(t) : t[i] = s[i + 1]

\* Text m, and nothing else, is missing in what t comes to.
LacksPart(t, s, m, Y) ==
    \E a, b \in Y :
        /\ FlattenSeq(s) = (a \o s[m]) \o b /\ FlattenSeq(t) = a \o b
        /\ (\A i \in 1 .. m - 1 : s[i] = <<>>) => a = <<>>

LEMMA FlattenDrop ==
    ASSUME NEW S, NEW s, NEW t, NEW m, LacksText(t, s, m, Seq(S))
    PROVE  LacksPart(t, s, m, Seq(S))
<1>1. PICK Y : Y = Seq(S)
  OBVIOUS
<1>2. /\ s \in Seq(Y) /\ t \in Seq(Y) /\ m \in 1 .. Len(s) /\ Len(t) = Len(s) - 1
      /\ \A i \in 1 .. m - 1 : t[i] = s[i]
      /\ \A i \in m .. Len(t) : t[i] = s[i + 1]
  BY <1>1 DEF LacksText
<1>3. Len(s) \in Nat /\ Len(t) \in Nat /\ m - 1 \in 0 .. Len(s) /\ m - 1 \in 0 .. Len(t)
      /\ m \in 0 .. Len(s) /\ m \in Nat
  <2>1. Len(s) \in Nat /\ Len(t) \in Nat
    BY <1>2, LenProperties
  <2> QED BY <1>2, <2>1
<1>4. PICK r, q : r = SubSeq(s, 1, m - 1) /\ q = Past(s, m)
  OBVIOUS
<1>5. r \in Seq(Y) /\ Len(r) = m - 1 /\ q \in Seq(Y) /\ Len(q) = Len(s) - m
  <2>1. SubSeq(s, 1, m - 1) \in Seq(Y) /\ Len(SubSeq(s, 1, m - 1)) = m - 1
    BY <1>2, <1>3, CutAt
  <2>2. Past(s, m) \in Seq(Y) /\ Len(Past(s, m)) = Len(s) - m
    BY <1>2, <1>3, CutAt
  <2> QED BY <1>4, <2>1, <2>2
<1>6. (\A i \in 1 .. m - 1 : r[i] = s[i]) /\ \A i \in 1 .. Len(q) : q[i] = s[m + i]
  <2>1. \A i \in 1 .. m - 1 : r[i] = s[i]
    BY <1>2, <1>3, <1>4
  <2>2. q = SubSeq(s, m + 1, Len(s))
    BY <1>4 DEF Past
  <2>3. ASSUME NEW i \in 1 .. Len(q) PROVE q[i] = s[m + i]
    <3>1. i \in 1 .. (Len(s) - (m + 1)) + 1 /\ (m + 1) + i - 1 = m + i
      BY <1>3, <1>5
    <3> QED BY <1>2, <1>3, <2>2, <3>1
  <2> QED BY <2>1, <2>3
<1>7. t = r \o q
  <2>1. PICK w : w = r \o q
    OBVIOUS
  <2>2. w \in Seq(Y) /\ Len(w) = Len(r) + Len(q)
        /\ \A i \in 1 .. Len(w) : w[i] = IF i <= Len(r) THEN r[i] ELSE q[i - Len(r)]
    <3>1. r \in Seq(Y) /\ q \in Seq(Y)
      BY <1>5
    <3>2. r \o q \in Seq(Y) /\ Len(r \o q) = Len(r) + Len(q)
      BY <3>1, ConcatProperties
    <3>3. \A i \in 1 .. Len(r) + Len(q) :
             (r \o q)[i] = IF i <= Len(r) THEN r[i] ELSE q[i - Len(r)]
      BY <3>1, ConcatProperties
    <3> QED BY <2>1, <3>2, <3>3
  <2>3. Len(w) = Len(t)
    BY <1>2, <1>3, <1>5, <2>2
  <2>4. ASSUME NEW i \in 1 .. Len(t) PROVE t[i] = w[i]
    <3>1. CASE i <= m - 1
      <4>1. i \in 1 .. m - 1 /\ i \in 1 .. Len(w) /\ i <= Len(r)
        BY <1>3, <1>5, <2>3, <3>1
      <4> QED BY <1>2, <1>6, <2>2, <4>1
    <3>2. CASE ~ i <= m - 1
      <4>1. i \in m .. Len(t) /\ i \in 1 .. Len(w) /\ ~ i <= Len(r)
            /\ i - Len(r) \in 1 .. Len(q) /\ m + (i - Len(r)) = i + 1
        BY <1>2, <1>3, <1>5, <2>3, <3>2
      <4>2. t[i] = s[i + 1] /\ w[i] = q[i - Len(r)] /\ q[i - Len(r)] = s[m + (i - Len(r))]
        BY <1>2, <1>6, <2>2, <4>1
      <4> QED BY <4>1, <4>2
    <3> QED BY <3>1, <3>2
  <2>5. t = w
    BY <1>2, <2>2, <2>3, <2>4, SeqEqual
  <2> QED BY <2>1, <2>5
<1>8. FlattenSeq(t) = FlattenSeq(r) \o FlattenSeq(q)
  BY <1>1, <1>5, <1>7, FlattenConcat
<1>9. \E a, b \in Seq(S) :
          /\ a = FlattenSeq(SubSeq(s, 1, m - 1)) /\ b = FlattenSeq(Past(s, m))
          /\ FlattenSeq(s) = (a \o s[m]) \o b
          /\ (\A i \in 1 .. m - 1 : s[i] = <<>>) => a = <<>>
  <2>1. s \in Seq(Seq(S)) /\ m \in 1 .. Len(s)
    BY <1>1, <1>2
  <2> QED BY <2>1, FlattenSplit
<1> QED BY <1>4, <1>8, <1>9 DEF LacksPart

-----------------------------------------------------------------------------
(* A sequence of things that have a text each, and their texts in a row.    *)

\* The texts f gives to the members of w.
Joined(f, w) == FlattenSeq([i \in 1 .. Len(w) |-> f[w[i]]])

LEMMA JoinedType ==
    ASSUME NEW S, NEW X, NEW f \in [X -> Seq(S)], NEW w \in Seq(X)
    PROVE  /\ Joined(f, w) \in Seq(S)
           /\ [i \in 1 .. Len(w) |-> f[w[i]]] \in Seq(Seq(S))
<1> DEFINE t == [i \in 1 .. Len(w) |-> f[w[i]]]
<1>1. Len(w) \in Nat /\ \A i \in 1 .. Len(w) : w[i] \in X
  OBVIOUS
<1>2. \A i \in 1 .. Len(w) : f[w[i]] \in Seq(S)
  BY <1>1
<1>3. t \in Seq(Seq(S))
  BY <1>1, <1>2
<1> HIDE DEF t
<1>4. FlattenSeq(t) \in Seq(S)
  BY <1>3, FlattenType
<1> QED BY <1>3, <1>4 DEF t, Joined

LEMMA JoinedEmpty ==
    ASSUME NEW f
    PROVE  Joined(f, <<>>) = <<>>
<1>1. [i \in 1 .. Len(<<>>) |-> f[<<>>[i]]] = <<>>
  OBVIOUS
<1>2. FlattenSeq(<<>>) = <<>>
  BY DEF FlattenSeq
<1> QED BY <1>1, <1>2 DEF Joined

LEMMA JoinedAppend ==
    ASSUME NEW S, NEW X, NEW f \in [X -> Seq(S)], NEW w \in Seq(X), NEW x \in X
    PROVE  Joins(Joined(f, w), f[x], Joined(f, Append(w, x)))
<1> DEFINE v == Append(w, x)
           t == [i \in 1 .. Len(w) |-> f[w[i]]]
           u == [i \in 1 .. Len(v) |-> f[v[i]]]
<1>1. /\ v \in Seq(X) /\ Len(v) = Len(w) + 1 /\ Len(w) \in Nat /\ v[Len(w) + 1] = x
      /\ \A i \in 1 .. Len(w) : v[i] = w[i]
  BY AppendProperties
<1> HIDE DEF v
<1>2. t \in Seq(Seq(S)) /\ u \in Seq(Seq(S)) /\ f[x] \in Seq(S)
  BY <1>1, JoinedType
<1>3. Len(u) = Len(t) + 1 /\ u[Len(t) + 1] = f[x]
  BY <1>1
<1>4. \A i \in 1 .. Len(t) : u[i] = t[i]
  BY <1>1
<1>5. Joined(f, v) = FlattenSeq(u) /\ Joined(f, w) = FlattenSeq(t)
  BY DEF Joined
<1> HIDE DEF t, u
<1>6. u = Append(t, f[x])
  BY <1>2, <1>3, <1>4, IsAppend
<1>7. FlattenSeq(u) = FlattenSeq(t) \o f[x]
  BY <1>2, <1>6, FlattenAppend
<1> QED BY <1>5, <1>7, Zenon DEF v, Joins

LEMMA JoinedCons ==
    ASSUME NEW S, NEW X, NEW f \in [X -> Seq(S)], NEW w, NEW x, NEW v, Begins(v, x, w, X)
    PROVE  Joins(f[x], Joined(f, w), Joined(f, v))
<1> DEFINE t == [i \in 1 .. Len(w) |-> f[w[i]]]
           u == [i \in 1 .. Len(v) |-> f[v[i]]]
<1>1. /\ w \in Seq(X) /\ x \in X
      /\ v \in Seq(X) /\ Len(v) = Len(w) + 1 /\ Len(w) \in Nat /\ v[1] = x
      /\ \A i \in 1 .. Len(w) : v[i + 1] = w[i]
  BY DEF Begins
<1>2. t \in Seq(Seq(S)) /\ u \in Seq(Seq(S)) /\ f[x] \in Seq(S)
  BY <1>1, JoinedType
<1>3. Len(u) = Len(t) + 1 /\ u[1] = f[x]
  BY <1>1
<1>4. \A i \in 1 .. Len(t) : u[i + 1] = t[i]
  BY <1>1
<1>5. Joined(f, v) = FlattenSeq(u) /\ Joined(f, w) = FlattenSeq(t)
  BY DEF Joined
<1> HIDE DEF t, u
<1>6. u = <<f[x]>> \o t
  <2> DEFINE m == f[x]
  <2>1. m \in Seq(S) /\ u[1] = m
    BY <1>2, <1>3
  <2> HIDE DEF m
  <2>2. u = <<m>> \o t
    <3>1. Begins(u, m, t, Seq(S))
      BY <1>2, <1>3, <1>4, <2>1 DEF Begins
    <3> QED BY <3>1, IsCons
  <2> QED BY <2>2 DEF m
<1>7. FlattenSeq(u) = f[x] \o FlattenSeq(t)
  BY <1>2, <1>6, FlattenCons
<1> QED BY <1>5, <1>7, Zenon DEF Joins

LEMMA JoinedConcat ==
    ASSUME NEW S, NEW X, NEW f \in [X -> Seq(S)], NEW v \in Seq(X), NEW w \in Seq(X)
    PROVE  Joined(f, v \o w) = Joined(f, v) \o Joined(f, w)
<1> DEFINE c == v \o w
           t == [i \in 1 .. Len(v) |-> f[v[i]]]
           u == [i \in 1 .. Len(w) |-> f[w[i]]]
           r == [i \in 1 .. Len(c) |-> f[c[i]]]
<1>1. /\ c \in Seq(X) /\ Len(c) = Len(v) + Len(w) /\ Len(v) \in Nat /\ Len(w) \in Nat
      /\ \A i \in 1 .. Len(v) + Len(w) : c[i] = IF i <= Len(v) THEN v[i] ELSE w[i - Len(v)]
  BY ConcatProperties, LenProperties
<1> HIDE DEF c
<1>2. t \in Seq(Seq(S)) /\ u \in Seq(Seq(S)) /\ r \in Seq(Seq(S))
  BY <1>1, JoinedType
<1>3. Len(t) = Len(v) /\ Len(u) = Len(w) /\ Len(r) = Len(v) + Len(w)
  BY <1>1
<1>4. \A i \in 1 .. Len(v) + Len(w) :
        r[i] = IF i <= Len(v) THEN t[i] ELSE u[i - Len(v)]
  <2> TAKE i \in 1 .. Len(v) + Len(w)
  <2>1. r[i] = f[c[i]]
    BY <1>1
  <2>2. CASE i <= Len(v)
    BY <1>1, <2>1, <2>2
  <2>3. CASE ~ i <= Len(v)
    <3>1. i - Len(v) \in 1 .. Len(w)
      BY <1>1, <2>3
    <3>2. u[i - Len(v)] = f[w[i - Len(v)]]
      BY <3>1
    <3> QED BY <1>1, <2>1, <2>3, <3>2
  <2> QED BY <2>2, <2>3
<1>5. /\ Joined(f, c) = FlattenSeq(r) /\ Joined(f, v) = FlattenSeq(t)
      /\ Joined(f, w) = FlattenSeq(u)
  BY DEF Joined
<1> HIDE DEF t, u, r
<1>6. r = t \o u
  <2>1. /\ t \o u \in Seq(Seq(S)) /\ Len(t \o u) = Len(t) + Len(u)
        /\ \A i \in 1 .. Len(t) + Len(u) : (t \o u)[i] = IF i <= Len(t) THEN t[i] ELSE u[i - Len(t)]
    BY <1>2, ConcatProperties
  <2> DEFINE s == t \o u
  <2>2. s \in Seq(Seq(S)) /\ Len(s) = Len(r) /\ \A i \in 1 .. Len(r) : r[i] = s[i]
    BY <1>3, <1>4, <2>1
  <2> HIDE DEF s
  <2>3. r = s
    BY <1>2, <2>2, SeqEqual
  <2> QED BY <2>3 DEF s
<1> QED BY <1>2, <1>5, <1>6, FlattenConcat DEF c

-----------------------------------------------------------------------------
(* A stretch of a ring of c cells: n of them from cell h on. *)

Stretch(q, h, n, c) == [i \in 1 .. n |-> q[(h + i - 1) % c]]

\* An index of at most twice the ring wraps once.
LEMMA WrapOnce ==
    \A c \in Nat \ {0} : \A x \in 0 .. 2 * c - 1 :
        x % c \in 0 .. c - 1 /\ x % c = IF x < c THEN x ELSE x - c
<1> SUFFICES ASSUME NEW c \in Nat \ {0}, NEW x \in 0 .. 2 * c - 1
             PROVE  x % c \in 0 .. c - 1 /\ x % c = IF x < c THEN x ELSE x - c
  OBVIOUS
<1>1. \A n \in Nat \ {0}, y \in Nat : y < n => y % n = y
  OBVIOUS
<1>2. \A n \in Nat \ {0}, y \in Nat : y >= n /\ y < 2 * n => y % n = y - n
  BY SMT
<1>3. x \in Nat /\ x < 2 * c
  OBVIOUS
<1>4. (x < c => x % c = x) /\ (x >= c => x % c = x - c)
  BY <1>1, <1>2, <1>3
<1> QED BY <1>3, <1>4

\* p is the ring q of c cells, but that x is stored in the cell after the n cells from h on.
Stored(p, q, h, n, c, x, S) ==
    /\ c \in Nat \ {0} /\ q \in [0 .. c - 1 -> S] /\ h \in 0 .. c - 1 /\ n \in 0 .. c - 1 /\ x \in S
    /\ p = [q EXCEPT ![IF h + n < c THEN h + n ELSE h + n - c] = x]

\* That makes the stretch longer.
LEMMA StretchPush ==
    ASSUME NEW p, NEW q, NEW h, NEW n, NEW c, NEW x, NEW S, Stored(p, q, h, n, c, x, S)
    PROVE  /\ Stretch(q, h, n, c) \in Seq(S)
           /\ Stretch(p, h, n + 1, c) = Append(Stretch(q, h, n, c), x)
<1> DEFINE t == IF h + n < c THEN h + n ELSE h + n - c
<1>0. /\ c \in Nat \ {0} /\ q \in [0 .. c - 1 -> S] /\ h \in 0 .. c - 1 /\ n \in 0 .. c - 1 /\ x \in S
      /\ p = [q EXCEPT ![t] = x]
  BY DEF Stored
<1> USE <1>0
<1> DEFINE s == Stretch(q, h, n, c)
           u == Stretch(p, h, n + 1, c)
<1>1. n \in Nat /\ t \in 0 .. c - 1
  BY <1>0
<1>2. ASSUME NEW i \in 1 .. n + 1
      PROVE  /\ (h + i - 1) % c \in 0 .. c - 1
             /\ (h + i - 1) % c = IF h + i - 1 < c THEN h + i - 1 ELSE h + i - 1 - c
  <2> DEFINE y == h + i - 1
  <2>1. y \in 0 .. 2 * c - 1
    OBVIOUS
  <2> HIDE DEF y
  <2>2. y % c \in 0 .. c - 1 /\ y % c = IF y < c THEN y ELSE y - c
    BY <2>1, WrapOnce
  <2> QED BY <2>2 DEF y
<1>3. \A i \in 1 .. n : (h + i - 1) % c # t
  BY <1>2
<1>4. (h + (n + 1) - 1) % c = t
  <2>1. n + 1 \in 1 .. n + 1 /\ h + (n + 1) - 1 = h + n
    OBVIOUS
  <2> QED BY <1>2, <2>1
<1>5. s \in Seq(S) /\ Len(s) = n /\ \A i \in 1 .. n : s[i] = q[(h + i - 1) % c]
  <2>1. \A i \in 1 .. n : q[(h + i - 1) % c] \in S
    BY <1>2
  <2> QED BY <1>1, <2>1 DEF Stretch
<1>6. \A j \in 0 .. c - 1 : p[j] = IF j = t THEN x ELSE q[j]
  BY <1>1
<1>7. \A i \in 1 .. n + 1 : p[(h + i - 1) % c] = IF i = n + 1 THEN x ELSE s[i]
  <2> HIDE DEF s
  <2> TAKE i \in 1 .. n + 1
  <2>1. CASE i = n + 1
    BY <1>1, <1>4, <1>6, <2>1
  <2>2. CASE i # n + 1
    <3>1. i \in 1 .. n
      BY <2>2
    <3> QED BY <1>2, <1>3, <1>5, <1>6, <2>2, <3>1
  <2> QED BY <2>1, <2>2
<1> HIDE DEF s
<1>8. \A i \in 1 .. n : s[i] \in S
  BY <1>5
<1>9. \A i \in 1 .. n + 1 : p[(h + i - 1) % c] \in S
  <2>1. \A i \in 1 .. n + 1 : i # n + 1 => i \in 1 .. n
    BY <1>1
  <2> QED BY <1>7, <1>8, <2>1
<1>10. u \in Seq(S) /\ Len(u) = n + 1 /\ \A i \in 1 .. n + 1 : u[i] = p[(h + i - 1) % c]
  <2>1. n + 1 \in Nat
    BY <1>1
  <2> QED BY <1>9, <2>1 DEF Stretch
<1> HIDE DEF u
<1>11. \A i \in 1 .. Len(s) : u[i] = s[i]
  <2>1. \A i \in 1 .. n : i \in 1 .. n + 1 /\ i # n + 1
    BY <1>1
  <2> QED BY <1>5, <1>7, <1>10, <2>1
<1>12. u[Len(s) + 1] = x
  <2>1. n + 1 \in 1 .. n + 1
    BY <1>1
  <2> QED BY <1>5, <1>7, <1>10, <2>1
<1>13. u = Append(s, x)
  BY <1>5, <1>10, <1>11, <1>12, IsAppend
<1> QED BY <1>5, <1>13 DEF s, u

\* The first cell of a stretch, and the rest of it.
LEMMA StretchPop ==
    ASSUME NEW S, NEW c \in Nat \ {0}, NEW q \in [0 .. c - 1 -> S], NEW h \in 0 .. c - 1,
           NEW n \in 1 .. c,
           NEW g, g = IF h + 1 >= c THEN 0 ELSE h + 1
    PROVE  /\ Stretch(q, g, n - 1, c) \in Seq(S)
           /\ Joins(<<q[h]>>, Stretch(q, g, n - 1, c), Stretch(q, h, n, c))
<1> DEFINE s == Stretch(q, g, n - 1, c)
           u == Stretch(q, h, n, c)
<1>1. n \in Nat /\ n - 1 \in Nat /\ g \in 0 .. c - 1
  OBVIOUS
<1>2. ASSUME NEW i \in 1 .. n
      PROVE  /\ (h + i - 1) % c \in 0 .. c - 1
             /\ (h + i - 1) % c = IF h + i - 1 < c THEN h + i - 1 ELSE h + i - 1 - c
  <2> DEFINE y == h + i - 1
  <2>1. y \in 0 .. 2 * c - 1
    OBVIOUS
  <2> HIDE DEF y
  <2>2. y % c \in 0 .. c - 1 /\ y % c = IF y < c THEN y ELSE y - c
    BY <2>1, WrapOnce
  <2> QED BY <2>2 DEF y
<1>3. ASSUME NEW i \in 1 .. n - 1
      PROVE  /\ (g + i - 1) % c \in 0 .. c - 1
             /\ (g + i - 1) % c = (h + (i + 1) - 1) % c
  <2> DEFINE y == g + i - 1
             z == h + (i + 1) - 1
  <2>1. y \in 0 .. 2 * c - 1 /\ z \in 0 .. 2 * c - 1 /\ z = h + i /\ y = g + i - 1
    OBVIOUS
  <2> HIDE DEF y, z
  <2>2. y % c \in 0 .. c - 1 /\ y % c = IF y < c THEN y ELSE y - c
    BY <2>1, WrapOnce
  <2>3. z % c = IF z < c THEN z ELSE z - c
    BY <2>1, WrapOnce
  <2>4. y % c = z % c
    BY <2>1, <2>2, <2>3
  <2> QED BY <2>2, <2>4 DEF y, z
<1>4. s \in Seq(S) /\ Len(s) = n - 1 /\ \A i \in 1 .. n - 1 : s[i] = q[(g + i - 1) % c]
  <2>1. \A i \in 1 .. n - 1 : q[(g + i - 1) % c] \in S
    BY <1>3
  <2> QED BY <1>1, <2>1 DEF Stretch
<1>5. u \in Seq(S) /\ Len(u) = n /\ \A i \in 1 .. n : u[i] = q[(h + i - 1) % c]
  <2>1. \A i \in 1 .. n : q[(h + i - 1) % c] \in S
    BY <1>2
  <2> QED BY <1>1, <2>1 DEF Stretch
<1> HIDE DEF s, u
<1>6. u[1] = q[h] /\ q[h] \in S
  <2>1. 1 \in 1 .. n /\ h + 1 - 1 = h /\ h < c
    OBVIOUS
  <2>2. (h + 1 - 1) % c = h
    BY <1>2, <2>1
  <2> QED BY <1>5, <2>1, <2>2
<1>7. \A i \in 1 .. Len(s) : u[i + 1] = s[i]
  <2>1. \A i \in 1 .. n - 1 : i + 1 \in 1 .. n
    BY <1>1
  <2> QED BY <1>3, <1>4, <1>5, <2>1
<1>8. u = <<q[h]>> \o s
  BY <1>1, <1>4, <1>5, <1>6, <1>7, IsCons
<1> QED BY <1>4, <1>8, Zenon DEF s, u, Joins
=============================================================================
