------------------------------- MODULE HashMap -------------------------------
(***************************************************************************)
(* common-src/hashmap.h: names with a value, in chains of nodes from the   *)
(* heap.  An insertion never looks for the name: a second one hides the    *)
(* first until it is removed.  Two keys are the same when their hashes and *)
(* their first 32 characters are.                                          *)
(***************************************************************************)
EXTENDS Integers, Sequences, FiniteSets

CONSTANTS Keys,       \* the keys
          HashOf,     \* hash_string of each
          NameOf,     \* the GLOBALNAME_LENGTH characters of each
          Size,       \* hash_size
          Values,     \* the values
          MaxNodes    \* bound: nodes in use at a time

HashMapAssumption == Size \in Nat \ {0} /\ MaxNodes \in Nat /\ HashOf \in [Keys -> Nat]

VARIABLES node,       \* hash->node[]: the first node of each bucket
          heap,       \* the nodes in use: next, name, hash, value
          answer,     \* what the last hash_remove returned
          state       \* "live", "deleted", or "crashed" at a NULL pointer

vars == <<node, heap, answer, state>>

Null == 0
NotFound == -1    \* as it is an unsigned number, a value may be the same
Bucket(k) == HashOf[k] % Size
Is(n, k) == heap[n].hash = HashOf[k] /\ heap[n].name = NameOf[k]

\* The pointer after m links from the head of bucket b.
Walk(b) ==
    LET at[m \in 0 .. MaxNodes] ==
            IF m = 0 THEN node[b] ELSE IF at[m - 1] = Null THEN Null ELSE heap[at[m - 1]].next
    IN  at

\* The first node of k is m links from the head of its bucket.
FoundAt(k, m) ==
    /\ Walk(Bucket(k))[m] # Null /\ Is(Walk(Bucket(k))[m], k)
    /\ \A j \in 0 .. m - 1 : ~ Is(Walk(Bucket(k))[j], k)
Found(k) == {m \in 0 .. MaxNodes : FoundAt(k, m)}

\* hash_search
Search(k) == IF Found(k) = {} THEN NotFound ELSE heap[Walk(Bucket(k))[CHOOSE m \in Found(k) : TRUE]].value

\* hash_new
Init ==
    /\ node = [b \in 0 .. Size - 1 |-> Null] /\ heap = <<>>
    /\ answer = NotFound /\ state = "live"

\* hash_insert
Insert(k, v) ==
    /\ state = "live" /\ Cardinality(DOMAIN heap) < MaxNodes
    /\ \E n \in 1 .. MaxNodes :
          /\ n \notin DOMAIN heap /\ 1 .. n - 1 \subseteq DOMAIN heap
          /\ heap' = [x \in DOMAIN heap \cup {n} |->
                        IF x = n THEN [next |-> node[Bucket(k)], name |-> NameOf[k], hash |-> HashOf[k], value |-> v]
                        ELSE heap[x]]
          /\ node' = [node EXCEPT ![Bucket(k)] = n]
    /\ UNCHANGED <<answer, state>>

\* The label _clear of hash_remove; links is the heap without links to node n.
Cleared(n, links) == heap' = [x \in DOMAIN heap \ {n} |-> links[x]] /\ answer' = heap[n].value

\* hash_remove
RemoveFirst(k) ==
    /\ state = "live" /\ FoundAt(k, 0)
    /\ node' = [node EXCEPT ![Bucket(k)] = heap[node[Bucket(k)]].next]
    /\ Cleared(node[Bucket(k)], heap)
    /\ UNCHANGED state

\* Mutant: the chain is cut behind the node that goes.
RemoveLaterCuts(k) ==
    /\ state = "live"
    /\ \E m \in Found(k) \ {0} :
          Cleared(Walk(Bucket(k))[m], [heap EXCEPT ![Walk(Bucket(k))[m - 1]].next = Null])
    /\ UNCHANGED <<node, state>>

RemoveLater(k) ==
    /\ state = "live"
    /\ \E m \in Found(k) \ {0} : \E n \in {Walk(Bucket(k))[m]} :
          Cleared(n, [heap EXCEPT ![Walk(Bucket(k))[m - 1]].next = heap[n].next])
    /\ UNCHANGED <<node, state>>

\* An empty bucket: ptr->key is read through a NULL pointer.
RemoveNothing(k) ==
    /\ state = "live" /\ Found(k) = {}
    /\ IF node[Bucket(k)] = Null THEN state' = "crashed" /\ UNCHANGED answer
       ELSE answer' = NotFound /\ UNCHANGED state
    /\ UNCHANGED <<node, heap>>

\* hash_delete; the array of buckets is not freed.
Delete ==
    /\ state = "live" /\ state' = "deleted"
    /\ heap' = [x \in DOMAIN heap \ {Walk(b)[m] : b \in 0 .. Size - 1, m \in 0 .. MaxNodes} |-> heap[x]]
    /\ UNCHANGED <<node, answer>>

Next ==
    \/ \E k \in Keys : (\E v \in Values : Insert(k, v)) \/ RemoveFirst(k) \/ RemoveLater(k) \/ RemoveNothing(k)
    \/ Delete

Spec == Init /\ [][Next]_vars

-----------------------------------------------------------------------------

\* The values of k, the last one first.
ValuesOf(k) ==
    LET at == Walk(Bucket(k))
        from[m \in 0 .. MaxNodes + 1] ==
            IF m > MaxNodes \/ at[m] = Null THEN <<>>
            ELSE (IF Is(at[m], k) THEN <<heap[at[m]].value>> ELSE <<>>) \o from[m + 1]
    IN  from[0]

\* Whatever shares its bucket, its hash or its name, every key has a stack of
\* values of its own: a step puts a value on one stack, takes the top of one off
\* and returns it, or leaves all as they are; hash_search returns the top; and
\* after hash_delete no node is left (hash_insert, hash_remove, hash_delete).
Same(x, k) == HashOf[x] = HashOf[k] /\ NameOf[x] = NameOf[k]
Pushed(x) == \E v \in Values : ValuesOf(x)' = <<v>> \o ValuesOf(x)
Popped(x) == \E v \in Values : ValuesOf(x) = <<v>> \o ValuesOf(x)' /\ answer' = v
Unmoved(x) == ValuesOf(x)' = ValuesOf(x)
StackPerKey ==
    [][IF state' = "deleted" THEN DOMAIN heap' = {}
       ELSE /\ \E k \in Keys : \A x \in Keys : Unmoved(x) \/ (Same(x, k) /\ (Pushed(x) \/ Popped(x)))
            /\ \A x \in Keys : Search(x)' = (IF ValuesOf(x)' = <<>> THEN NotFound ELSE ValuesOf(x)'[1])]_vars
=============================================================================
