SPECIFICATION AllSpec
CONSTANTS
  Msg = {m1, m2, m3}
  NoMsg = NoMsg
  InitCap = 2
  MaxCap = 4
  IdSlots = 5
  MinHash = 2
  Ids = {1, 2, 9, 17, 25}
  Keys <- TheKeys
  HashOf <- TheHashes
  NameOf <- TheNames
  MapSize = 3
  MapValues = {1, 2}
  MapNodes = 3
  Base = 4
  PoolSize = 2
  Bodies <- Frames
  MinSize = 3
  MaxFrames = 3
  MaxPiece = 9
  NoSocket = NoSocket
  Socks = {a, b, c}
  Fds = {0, 1}
  Names = {gw}
SYMMETRY Alike
INVARIANTS NoGarbage IdsChained BufferExact MemorySafe ListedIsOwn OpenIsListed
PROPERTIES ImplementsFifo ImplementsIdTable StackPerKey
CHECK_DEADLOCK FALSE
