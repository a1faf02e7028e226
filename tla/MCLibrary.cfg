SPECIFICATION AllSpec
CONSTANTS
    MaxCCalls = 20
    MaxCaptures = 32
    BufferSize = 2
    ClientId = 9
    Template <- TheTemplate
    FieldOrder <- TheOrder
    Arguments <- TheArguments
    Lines <- TheLines
    PairSubjects = 3
    FamilySubjects = 4
    SortLength = 6
    Nil = Nil
    None = None
    MaxInt = 3
    Objs = {obj1, obj2}
    Hash <- SpreadOrCrowded
INVARIANTS GsubExact SortRight RoundTrip LookupExact RehashFits BorderFound
PROPERTIES TraversalComplete
CHECK_DEADLOCK FALSE
