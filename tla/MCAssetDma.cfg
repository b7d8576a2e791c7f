SPECIFICATION FairSpec
CONSTANTS
    Threads = {"audio", "game", "loader"}
    Sharers = {"game", "loader"}
    Priority <- MCPriority
    MaxPieces = 2
    Depth = 1
    None = None
INVARIANTS
    TypeOK
    OwnData
PROPERTIES
    ReadsReturn
