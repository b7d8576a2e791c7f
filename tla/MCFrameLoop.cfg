SPECIFICATION FairSpec
CONSTANTS
    Priority <- MCPriority
    QueueDepth = 2
    ClientDepth = 2
    MaxRate = 3
    AdaptAfter = 3
INVARIANTS
    TypeOK
    OneFrameInFlight
    WalkedListIntact
PROPERTIES
    CapSpec
    NeverTwoFastFrames
    GameAlive
    AudioAnswered
