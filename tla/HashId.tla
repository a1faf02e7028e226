------------------------------- MODULE HashId -------------------------------
(***************************************************************************)
(* common-src/hashid.h: the ids in a table of Cap nodes, the nodes of one  *)
(* hash value linked into a chain.  A node stays in its place (the gateway *)
(* uses its index for the conn array), only the links move.  A pointer is  *)
(* the index of the node it points to, or Nil.                             *)
(*                                                                         *)
(* The caller is gate_main.c: it inserts an id only once while it is in    *)
(* the table (the socket server hands it out once) and only after          *)
(* hashid_full said no.                                                    *)
(***************************************************************************)
EXTENDS Integers, FiniteSets

CONSTANTS Cap,      \* max of hashid_init
          MinHash,  \* the 16 that hashcap starts from
          Ids       \* the ids inserted; lookups and removals may ask for more

HashIdAssumption ==
    /\ Cap \in Nat \ {0}
    /\ MinHash \in Nat \ {0}
    /\ Ids \subseteq Nat

VARIABLES id,      \* hi->id[].id
          next,    \* hi->id[].next
          hash,    \* hi->hash[]: the head of each chain
          count,   \* hi->count
          live     \* FALSE once hashid_clear freed the arrays

vars == <<id, next, hash, count, live>>

Nil == -1
Free == -1
Slots == 0 .. Cap - 1

\* hashcap: MinHash doubled until it is at least Cap.
Doubled[k \in 0 .. Cap] == IF k = 0 THEN MinHash ELSE 2 * Doubled[k - 1]

HashCap ==
    CHOOSE h \in {Doubled[k] : k \in 0 .. Cap} : h >= Cap /\ (h = MinHash \/ h \div 2 < Cap)

\* id & hi->hashmod, for hashmod = hashcap - 1 and a power of two hashcap.
Hash(x) == x % HashCap
Buckets == 0 .. HashCap - 1

Init ==
    /\ id = [s \in Slots |-> Free]
    /\ next = [s \in Slots |-> Nil]
    /\ hash = [h \in Buckets |-> Nil]
    /\ count = 0
    /\ live = TRUE

-----------------------------------------------------------------------------

\* The pointer that a walk of bucket h holds after n links.
Walk(h) ==
    LET at[n \in 0 .. Cap] ==
            IF n = 0 THEN hash[h]
            ELSE IF at[n - 1] = Nil THEN Nil ELSE next[at[n - 1]]
    IN  at

\* Node s is the first of bucket h whose id is x, n links from its head.
FoundAt(h, x, s, n) ==
    /\ Walk(h)[n] = s
    /\ s # Nil
    /\ id[s] = x
    /\ \A m \in 0 .. n - 1 : id[Walk(h)[m]] # x

\* hashid_lookup.
Lookup(x) ==
    IF \E n \in Slots, s \in Slots : FoundAt(Hash(x), x, s, n)
    THEN CHOOSE s \in Slots : \E n \in Slots : FoundAt(Hash(x), x, s, n)
    ELSE -1

\* hashid_full.
Full == count = Cap

\* Mutant of Insert: the search starts at node 0.
InsertFromZero(x) ==
    /\ live
    /\ ~ Full
    /\ Lookup(x) = -1
    /\ \E s \in Slots :
          /\ id[s] = Free
          /\ \A t \in Slots : t < s => id[t] # Free
          /\ id' = [id EXCEPT ![s] = x]
          /\ next' = [next EXCEPT ![s] = hash[Hash(x)]]
          /\ hash' = [hash EXCEPT ![Hash(x)] = s]
    /\ count' = count + 1
    /\ UNCHANGED live

\* hashid_insert: the first free node at or after x % Cap goes to the front of
\* its chain.  (The code leaves next alone when the chain is empty: it asserts
\* that it is NULL, as it does here.)
Insert(x) ==
    /\ live
    /\ ~ Full
    /\ Lookup(x) = -1
    /\ \E i \in Slots :
          LET s == (i + x) % Cap
          IN  /\ id[s] = Free
              /\ \A j \in 0 .. i - 1 : id[(j + x) % Cap] # Free
              /\ id' = [id EXCEPT ![s] = x]
              /\ next' = IF hash[Hash(x)] = Nil THEN next
                         ELSE [next EXCEPT ![s] = hash[Hash(x)]]
              /\ hash' = [hash EXCEPT ![Hash(x)] = s]
    /\ count' = count + 1
    /\ UNCHANGED live

\* The end of hashid_remove: node s is free, its successor takes its place.
Forget(s) ==
    /\ id' = [id EXCEPT ![s] = Free]
    /\ count' = count - 1
    /\ UNCHANGED live

\* hashid_remove, when the node is the first of its chain.
RemoveFirst(x) ==
    /\ live
    /\ \E s \in Slots :
          /\ FoundAt(Hash(x), x, s, 0)
          /\ hash' = [hash EXCEPT ![Hash(x)] = next[s]]
          /\ next' = [next EXCEPT ![s] = Nil]
          /\ Forget(s)

\* Mutant of RemoveLater: the predecessor still points to the freed node.
RemoveLaterDangling(x) ==
    /\ live
    /\ \E n \in Slots \ {0}, s \in Slots :
          /\ FoundAt(Hash(x), x, s, n)
          /\ next' = [next EXCEPT ![s] = Nil]
          /\ Forget(s)
    /\ UNCHANGED hash

\* hashid_remove, when the node has a predecessor.
RemoveLater(x) ==
    /\ live
    /\ \E n \in Slots \ {0}, s \in Slots :
          /\ FoundAt(Hash(x), x, s, n)
          /\ next' = [next EXCEPT ![Walk(Hash(x))[n - 1]] = next[s], ![s] = Nil]
          /\ Forget(s)
    /\ UNCHANGED hash

\* hashid_clear: the arrays are freed and nothing may be looked up any more.
Clear ==
    /\ live
    /\ live' = FALSE
    /\ count' = 0
    /\ UNCHANGED <<id, next, hash>>

Next ==
    \/ \E x \in Ids : Insert(x) \/ RemoveFirst(x) \/ RemoveLater(x)
    \/ Clear

Spec == Init /\ [][Next]_vars

-----------------------------------------------------------------------------

\* The nodes of bucket h.
Chain(h) == {Walk(h)[n] : n \in Slots} \ {Nil}

\* However insertions and removals at the front and in the middle of chains
\* follow each other: a chain ends (no walk runs in circles), it holds exactly
\* the nodes whose id has its hash, and a free node is linked nowhere and
\* points nowhere, which is what the assert of hashid.h:107 relies on.
ChainsPartition ==
    /\ \A h \in Buckets : Walk(h)[Cap] = Nil
    /\ \A h \in Buckets, s \in Slots : s \in Chain(h) <=> id[s] # Free /\ Hash(id[s]) = h
    /\ \A s \in Slots : id[s] = Free => next[s] = Nil

\* hashid_full tells by count alone whether the search for a free node in
\* hashid_insert can fail (the assert of hashid.h:104).
CountExact == live => count = Cardinality({s \in Slots : id[s] # Free})

\* The table the gateway relies on.
T == INSTANCE IdTable WITH tab <- id

\* hashid.h keeps the promise on which module Gateway is built: each id has
\* one slot, found until it is removed, and only free slots are given away.
ImplementsIdTable == T!TabSpec
=============================================================================
