CONSTANTS
    HalfByte = 2
    Ids = {4, 5}
    ListenId = 1
    MaxConnection = 2
    FramesOf <- Hasty
    MaxSend <- Twice
    MaxChunk = 2
    MaxPieces <- FiveOnce
SPECIFICATION FairSpec
PROPERTY BacklogDrains
CHECK_DEADLOCK FALSE
