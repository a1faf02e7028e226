------------------------------ MODULE IdTable -------------------------------
(***************************************************************************)
(* What hashid.h promises the gateway: a table of at most Cap socket ids,  *)
(* each in a slot of its own.  The slot is the index of the connection in  *)
(* the gateway's conn array, so it is part of the promise, the hash chains *)
(* are not (module HashId has them).                                       *)
(***************************************************************************)
EXTENDS Integers

CONSTANTS Cap,     \* hi->cap, the max of hashid_init
          Ids      \* the socket ids that may be inserted

VARIABLE tab       \* hi->id[]: the id in each slot, or Free

Slots == 0 .. Cap - 1
Free == -1

TabInit == tab = [s \in Slots |-> Free]

\* hashid_lookup: the slot of id, or -1.
Lookup(id) ==
    IF \E s \in Slots : tab[s] = id /\ id # Free
    THEN CHOOSE s \in Slots : tab[s] = id
    ELSE -1

\* hashid_full.
Full == \A s \in Slots : tab[s] # Free

\* hashid_insert returns s: the first free slot at or after id % Cap.
Insert(id, s) ==
    /\ \E i \in 0 .. Cap - 1 :
          /\ s = (i + id) % Cap
          /\ tab[s] = Free
          /\ \A j \in 0 .. i - 1 : tab[(j + id) % Cap] # Free
    /\ tab' = [tab EXCEPT ![s] = id]

\* hashid_remove returns s, the slot it freed.
Remove(id, s) ==
    /\ tab[s] = id
    /\ tab' = [tab EXCEPT ![s] = Free]

TabNext ==
    \E id \in Ids, s \in Slots :
        \/ Lookup(id) = -1 /\ Insert(id, s)
        \/ Remove(id, s)

TabSpec == TabInit /\ [][TabNext]_tab
=============================================================================
