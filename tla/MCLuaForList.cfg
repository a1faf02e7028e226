SPECIFICATION Spec
CONSTANTS
    MaxIndexRK = 1
    FieldsPerFlush = 2
    Collation <- Letters
    MaxTagLoop = 4
    StackSize = 60
    Mains <- CompiledForLists
    Expected <- MeaningsOfForLists
INVARIANT CompilesCleanly
CHECK_DEADLOCK FALSE
