SPECIFICATION DmaSpec
CONSTANTS
    Buffers = 3
    Length = 4
    Lag = 1
    Requests <- MCRequests
    NoBuffer = NoBuffer
VIEW View
INVARIANTS
    DmaTypeOK
PROPERTIES
    CacheSpec
