SPECIFICATION Spec
CONSTANTS
    Nil = Nil
    Main = Main
    a = a
    b = b
    c = c
    Objects = {a, b, c}
    Kinds <- EphemeronUses
    StrHash <- Hash
PROPERTIES EphemeronsKeepReachable
CHECK_DEADLOCK FALSE
