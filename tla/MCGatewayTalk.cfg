CONSTANTS
    HalfByte = 2
    Ids = {5, 7}
    ListenId = 1
    MaxConnection = 2
    FramesOf <- Talkers
    MaxSend <- SevenThrice
    MaxChunk = 2
    MaxPieces <- SevenOnce
SPECIFICATION Spec
INVARIANTS SenderOrder RelayAddressed
PROPERTY NoticeSound
CHECK_DEADLOCK FALSE
