------------------------------ MODULE LuaTable ------------------------------
(***************************************************************************)
(* The tables of ltable.c, in which the programs keep their connections by *)
(* name and by descriptor, the protocols, the loaded modules: an array     *)
(* part and a hash part with chained scatter (Brent's variation), which    *)
(* grow together in rehash; the border # and the traversal by next while   *)
(* fields are assigned and the collector marks dead keys.                  *)
(*                                                                         *)
(* The value stored at key k is called k.  A key that is no integer is a   *)
(* collectable object; Hash gives what luai_hashnum or the string's hash   *)
(* says.  Not modelled: tables of 2^30 entries.                            *)
(***************************************************************************)
EXTENDS Integers, Sequences, FiniteSets, FiniteSetsExt

CONSTANTS Nil, None,  \* no value; no node
          MaxInt,     \* the integer keys are 1 .. MaxInt
          Objs,       \* the other keys
          Hash        \* set of functions from keys to numbers

Ints == 1 .. MaxInt
Keys == Ints \cup Objs

Hashed == 1 .. 2 * MaxInt + 2 \cup Objs    \* # looks beyond MaxInt

ASSUME LuaTableAssumption ==
    /\ MaxInt \in Nat \ {0} /\ Objs \cap Int = {} /\ Nil \notin Objs \cup Int /\ None \notin Nat
    /\ \A h \in Hash : h \in [Hashed -> Nat]

VARIABLES t,        \* the table
          map,      \* history: what was assigned to each key
          iter,     \* a traversal: the key that next returned last
          seen,     \* history: keys returned by the traversal
          steady    \* history: keys that have had a value since it began

vars == <<t, map, iter, seen, steady>>

-----------------------------------------------------------------------------
(* Nodes. *)

EmptyNode == [key |-> Nil, dead |-> FALSE, val |-> Nil, next |-> None]

\* setnodevector; a hash part of size 0 is the dummy node.
NodeVector(size) == [i \in 0 .. size - 1 |-> EmptyNode]
SizeNode(tab) == Cardinality(DOMAIN tab.node)
twoto[x \in Nat] == IF x = 0 THEN 1 ELSE 2 * twoto[x - 1]
Ceillog2(n) == CHOOSE i \in 0 .. n : twoto[i] >= n /\ \A j \in 0 .. i - 1 : twoto[j] < n

\* hashmod for numbers, hashpow2 for strings.
MainPosition(tab, k) ==
    LET size == SizeNode(tab)
    IN  tab.hash[k] % (IF k \in Objs \/ size = 1 THEN size ELSE size - 1)

\* The nodes of a chain in order, and the first that matches.
Chain(tab, p) ==
    LET f[n \in 0 .. SizeNode(tab)] ==
            IF n = 0 THEN p ELSE IF f[n - 1] = None THEN None ELSE tab.node[f[n - 1]].next
    IN  f
Find(tab, k, deadness) ==
    IF SizeNode(tab) = 0 THEN None
    ELSE LET chain == Chain(tab, MainPosition(tab, k))
             hits == {n \in DOMAIN chain : chain[n] # None /\ tab.node[chain[n]].key = k
                                            /\ tab.node[chain[n]].dead \in deadness}
         IN  IF hits = {} THEN None ELSE chain[Min(hits)]

InArray(tab, k) == k \in 1 .. Len(tab.array)

\* luaH_get
NodeOf(tab, k) == Find(tab, k, {FALSE})
Get(tab, k) ==
    IF InArray(tab, k) THEN tab.array[k]
    ELSE IF NodeOf(tab, k) = None THEN Nil ELSE tab.node[NodeOf(tab, k)].val

-----------------------------------------------------------------------------
(* Insertion. *)

\* getfreepos: lastfree only goes down.
FreePos(tab) ==
    LET free == {i \in 0 .. tab.lastfree - 1 : tab.node[i].key = Nil}
    IN  IF free = {} THEN None ELSE Max(free)

\* Mutant: the colliding node is moved and its chain is not redone.
PlacedUnlinked(tab, k) ==
    LET mp == MainPosition(tab, k)
        taken == SizeNode(tab) = 0 \/ tab.node[mp].val # Nil
        n == FreePos(tab)
        new == [key |-> k, dead |-> FALSE, val |-> Nil, next |-> None]
    IN  CASE ~ taken -> [at |-> mp, tab |-> [tab EXCEPT !.node[mp].key = k, !.node[mp].dead = FALSE]]
          [] taken /\ n = None -> [at |-> None, tab |-> [tab EXCEPT !.lastfree = 0]]
          [] taken /\ n # None /\ MainPosition(tab, tab.node[mp].key) # mp ->
                [at |-> mp, tab |-> [tab EXCEPT !.lastfree = n, !.node[n] = tab.node[mp],
                                                !.node[mp] = new]]
          [] OTHER ->
                [at |-> n, tab |-> [tab EXCEPT !.lastfree = n, !.node[mp].next = n,
                                               !.node[n] = [new EXCEPT !.next = tab.node[mp].next]]]

\* luaH_newkey up to the call of rehash: where k went, and the nodes.
Placed(tab, k) ==
    LET mp == MainPosition(tab, k)
        taken == SizeNode(tab) = 0 \/ tab.node[mp].val # Nil
        n == FreePos(tab)
        other == MainPosition(tab, tab.node[mp].key)
        new == [key |-> k, dead |-> FALSE, val |-> Nil, next |-> None]
        before == CHOOSE i \in DOMAIN tab.node : tab.node[i].next = mp /\
                     \E j \in DOMAIN tab.node : Chain(tab, other)[j] = i
    IN  CASE ~ taken -> [at |-> mp, tab |-> [tab EXCEPT !.node[mp].key = k, !.node[mp].dead = FALSE]]
          [] taken /\ n = None -> [at |-> None, tab |-> [tab EXCEPT !.lastfree = 0]]
          [] taken /\ n # None /\ other # mp ->
                [at |-> mp, tab |-> [tab EXCEPT !.lastfree = n, !.node[before].next = n,
                                                !.node[n] = tab.node[mp], !.node[mp] = new]]
          [] OTHER ->
                [at |-> n, tab |-> [tab EXCEPT !.lastfree = n, !.node[mp].next = n,
                                               !.node[n] = [new EXCEPT !.next = tab.node[mp].next]]]

\* luaH_set and the assignment, when no rehash is called for; else fits is FALSE.
Assigned(tab, k, v) ==
    IF InArray(tab, k) THEN [tab EXCEPT !.array[k] = v]
    ELSE IF NodeOf(tab, k) # None THEN [tab EXCEPT !.node[NodeOf(tab, k)].val = v]
    ELSE LET p == Placed(tab, k)
         IN  IF p.at = None THEN [p.tab EXCEPT !.fits = FALSE]
             ELSE [p.tab EXCEPT !.node[p.at].val = v]

\* luaH_resize: elements of the vanishing slice, then the old nodes from the
\* last to the first, are inserted again.
Resize(tab, nasize, nhsize) ==
    LET size == IF nhsize = 0 THEN 0 ELSE twoto[Ceillog2(nhsize)]
        old == Len(tab.array)
        gap == IF old > nasize THEN old - nasize ELSE 0
        bare == [tab EXCEPT !.array = [i \in 1 .. nasize |-> IF i <= old THEN tab.array[i] ELSE Nil],
                            !.node = NodeVector(size), !.lastfree = size]
        entry(n) == IF n <= gap THEN [key |-> nasize + n, val |-> tab.array[nasize + n]]
                    ELSE tab.node[SizeNode(tab) - (n - gap)]
        filled[n \in 0 .. gap + SizeNode(tab)] ==
            IF n = 0 THEN bare
            ELSE IF entry(n).val = Nil THEN filled[n - 1]
            ELSE Assigned(filled[n - 1], entry(n).key, entry(n).val)
    IN  filled[gap + SizeNode(tab)]

\* numusearray, numusehash and countint: the keys in use, with the new one.
Used(tab, k) ==
    {k} \cup {i \in DOMAIN tab.array : tab.array[i] # Nil}
        \cup {tab.node[i].key : i \in {j \in DOMAIN tab.node : tab.node[j].val # Nil}}

\* computesizes: nums(i) is the number of keys in (2^(i-1), 2^i].
ComputeSizes(keys) ==
    LET narray == Cardinality(keys)
        nums(i) == Cardinality({k \in keys : twoto[i] \div 2 < k /\ k <= twoto[i]})
        sizes[n \in 0 .. MaxInt + 1] ==
            IF n = 0 THEN [a |-> 0, na |-> 0, n |-> 0]
            ELSE LET i == n - 1
                     s == sizes[i]
                     a == s.a + nums(i)
                 IN  IF twoto[i] \div 2 >= narray \/ s.a = narray THEN s
                     ELSE IF nums(i) > 0 /\ a > twoto[i] \div 2 THEN [a |-> a, na |-> a, n |-> twoto[i]]
                     ELSE [s EXCEPT !.a = a]
    IN  sizes[MaxInt + 1]

\* Mutant: the new key is not counted.
RehashUncounted(tab, k) ==
    LET used == Used(tab, k) \ {k}
        sizes == ComputeSizes(used \cap Ints)
    IN  Resize(tab, sizes.n, Cardinality(used) - sizes.na)

Rehash(tab, k) ==
    LET used == Used(tab, k)
        sizes == ComputeSizes(used \cap Ints)
    IN  Resize(tab, sizes.n, Cardinality(used) - sizes.na)

\* luaH_set: an assignment that finds no free node enlarges the table first.
SetKey(tab, k, v) ==
    LET u == Assigned(tab, k, v)
    IN  IF u.fits THEN u
        ELSE Assigned(Rehash([u EXCEPT !.fits = TRUE], k), k, v)

-----------------------------------------------------------------------------
(* Traversal and length. *)

\* Mutant: a dead key is not found.
FindIndexAlive(tab, k) ==
    IF k = Nil THEN 0
    ELSE IF InArray(tab, k) THEN k
    ELSE IF NodeOf(tab, k) = None THEN None ELSE Len(tab.array) + NodeOf(tab, k) + 1

\* findindex: a dead key still tells where it was.
FindIndex(tab, k) ==
    IF k = Nil THEN 0
    ELSE IF InArray(tab, k) THEN k
    ELSE LET n == Find(tab, k, BOOLEAN)
         IN  IF n = None THEN None ELSE Len(tab.array) + n + 1

\* luaH_next: elements are numbered from 1, those of the array part first.
Entry(tab, i) ==
    IF i <= Len(tab.array) THEN [key |-> i, val |-> tab.array[i]]
    ELSE tab.node[i - Len(tab.array) - 1]
NextKey(tab, i) ==
    LET later == {j \in i + 1 .. Len(tab.array) + SizeNode(tab) : Entry(tab, j).val # Nil}
    IN  IF later = {} THEN Nil ELSE Entry(tab, Min(later)).key

\* Binary search between a present i and an absent j.
Between(tab, lo, hi) ==
    LET ends[n \in 0 .. hi] ==
            IF n = 0 THEN <<lo, hi>>
            ELSE LET e == ends[n - 1]
                     m == (e[1] + e[2]) \div 2
                 IN  IF e[2] - e[1] <= 1 THEN e
                     ELSE IF Get(tab, m) = Nil THEN <<e[1], m>> ELSE <<m, e[2]>>
    IN  ends[hi][1]

\* Mutant: the hash part is not looked at.
GetNArray(tab) ==
    LET j == Len(tab.array)
    IN  IF j > 0 /\ tab.array[j] = Nil THEN Between(tab, 0, j) ELSE j

\* luaH_getn, with unbound_search.
GetN(tab) ==
    LET j == Len(tab.array)
        doubling(n) == (j + 1) * twoto[n]
        n == CHOOSE m \in 0 .. MaxInt :
                Get(tab, doubling(m)) = Nil /\ \A l \in 0 .. m - 1 : Get(tab, doubling(l)) # Nil
    IN  IF j > 0 /\ tab.array[j] = Nil THEN Between(tab, 0, j)
        ELSE IF SizeNode(tab) = 0 THEN j
        ELSE Between(tab, IF n = 0 THEN j ELSE doubling(n - 1), doubling(n))

-----------------------------------------------------------------------------

Idle == [on |-> FALSE, key |-> Nil, lost |-> FALSE]

\* luaH_new and the sizes of OP_NEWTABLE.
Init ==
    /\ \E h \in Hash, na \in 0 .. 2, nh \in 0 .. 2 :
          t = Resize([array |-> <<>>, node |-> NodeVector(0), lastfree |-> 0,
                      hash |-> h, fits |-> TRUE], na, nh)
    /\ map = [k \in Keys |-> Nil]
    /\ iter = Idle /\ seen = {} /\ steady = {}

\* luaV_settable and lua_rawset, also of nil to an absent key, which makes an
\* entry.  A traversal may go on if the key was there.
Assign(k, v) ==
    /\ t' = SetKey(t, k, v)
    /\ map' = [map EXCEPT ![k] = v]
    /\ IF Get(t, k) # Nil
       THEN steady' = (IF v = Nil THEN steady \ {k} ELSE steady) /\ UNCHANGED <<iter, seen>>
       ELSE iter' = Idle /\ seen' = {} /\ steady' = {}

\* OP_SETLIST: luaH_resizearray.
SetList(n) ==
    /\ n > Len(t.array)
    /\ t' = Resize(t, n, SizeNode(t))
    /\ iter' = Idle /\ seen' = {} /\ steady' = {}
    /\ UNCHANGED map

\* removeentry of lgc.c: the key of an entry without a value that the collector
\* has not marked at that time.
MarkDead(i) ==
    /\ i \in DOMAIN t.node
    /\ t.node[i].key \in Objs /\ t.node[i].val = Nil /\ ~ t.node[i].dead
    /\ t' = [t EXCEPT !.node[i].dead = TRUE]
    /\ UNCHANGED <<map, iter, seen, steady>>

\* lua_next
Begin ==
    /\ ~ iter.on
    /\ iter' = [on |-> TRUE, key |-> Nil, lost |-> FALSE]
    /\ seen' = {} /\ steady' = {k \in Keys : Get(t, k) # Nil}
    /\ UNCHANGED <<t, map>>

Advance ==
    /\ iter.on /\ ~ iter.lost
    /\ LET i == FindIndex(t, iter.key)
           k == NextKey(t, i)
       IN  IF i = None THEN iter' = [iter EXCEPT !.lost = TRUE] /\ UNCHANGED <<seen, steady>>
           ELSE IF k = Nil THEN iter' = Idle /\ seen' = {} /\ steady' = {}
           ELSE iter' = [iter EXCEPT !.key = k] /\ seen' = seen \cup {k} /\ UNCHANGED steady
    /\ UNCHANGED <<t, map>>

Next ==
    \/ \E k \in Keys : Assign(k, k) \/ Assign(k, Nil)
    \/ \E n \in 1 .. MaxInt : SetList(n)
    \/ \E i \in DOMAIN t.node : MarkDead(i)
    \/ Begin \/ Advance

Spec == Init /\ [][Next]_vars

-----------------------------------------------------------------------------

\* A lookup (luaH_get) finds what was assigned last, through collisions, nodes that
\* luaH_newkey moved, dead keys and every resize, and no value is in the table twice.
LookupExact ==
    /\ \A k \in Keys : Get(t, k) = map[k]
    /\ Cardinality({k \in Keys : map[k] # Nil}) =
          Cardinality({i \in 1 .. Len(t.array) + SizeNode(t) : Entry(t, i).val # Nil})

\* rehash leaves room for everything that it inserts again and for the new key:
\* it is never called from within itself.
RehashFits == t.fits

\* ltable.c on luaH_getn: t[n] is not nil and t[n+1] is nil.
BorderFound ==
    LET n == GetN(t) IN (n = 0 \/ Get(t, n) # Nil) /\ Get(t, n + 1) = Nil

\* A traversal (luaH_next) during which no field was added always finds the key that
\* it is at (findindex), also when the field was cleared and the collector has marked the key dead; it
\* returns no key twice, and every key that had a value all the time.
TraversalComplete ==
    [][iter' # iter /\ Advance =>
          IF iter'.on THEN ~ iter'.lost /\ iter'.key \notin seen ELSE steady \subseteq seen]_vars
=============================================================================
