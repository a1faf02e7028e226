CONSTANTS
    Sizes = {2}
    MaxSends = 2
    MaxRecv = 2
    MaxChunk = 1
SPECIFICATION Spec
INVARIANT ErrorIsSurvived
CHECK_DEADLOCK FALSE
