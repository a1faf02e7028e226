CONSTANTS
    HalfByte = 2
    Ids = {4, 5}
    ListenId = 1
    MaxConnection = 2
    FramesOf <- ClientInSlotZero
    MaxSend <- Twice
    MaxChunk = 1
    MaxPieces <- FiveOnce
SPECIFICATION Spec
PROPERTY NoticeMeansGone
CHECK_DEADLOCK FALSE
