SPECIFICATION FairSpec
CONSTANTS
    Nil = Nil
    Main = Main
    a = a
    b = b
    c = c
    Objects = {a, b, c}
    Kinds <- Uses
    StrHash <- Hash
INVARIANTS NoDangling TriColour
PROPERTIES FinalizedOnce WeakKeepsReachable GarbageCollected
CHECK_DEADLOCK FALSE
