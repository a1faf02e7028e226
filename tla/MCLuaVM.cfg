SPECIFICATION Spec
CONSTANTS
    MaxIndexRK = 1
    FieldsPerFlush = 2
    Collation <- Letters
    MaxTagLoop = 4
    StackSize = 60
    Mains <- CompiledScripts
    Expected <- MeaningsOfScripts
INVARIANTS ResultRight CompilesCleanly TopOfFrame Contained
CHECK_DEADLOCK FALSE
