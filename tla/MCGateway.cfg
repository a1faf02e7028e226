CONSTANTS
    HalfByte = 2
    Ids = {4, 5, 7}
    ListenId = 1
    MaxConnection = 2
    FramesOf <- Newcomers
    MaxSend <- Once
    MaxChunk = 1
    MaxPieces <- FiveOnce
SPECIFICATION FairSpec
INVARIANTS NoOrphans NoLeakedSlot
PROPERTIES SlotOutlivesSocket ServerReplaceable AcceptedServed
CHECK_DEADLOCK FALSE
