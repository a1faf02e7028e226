SPECIFICATION FairSpec
CONSTANTS
    QueueSize = 3
    MaxLines = 4
    Bodies <- TheBodies
    CacheSize = 4
    PackSize = 2
    Sizes = {0, 1, 3}
    MaxSends = 3
    MaxRecv = 2
    MaxChunk = 2
INVARIANTS LinesInOrder StreamsExact WriteListExact EndReportedOnce
PROPERTIES LineTaken FrameIsShown LossNoticed
CHECK_DEADLOCK FALSE
