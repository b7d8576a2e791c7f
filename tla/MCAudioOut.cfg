SPECIFICATION Spec
CONSTANTS
    Ring = 5
    Blocks = 4
    BlockFrames = 2
    Needs = {1, 3}
    Drifts <- MCDrifts
    Ids = 14
    Silence = Silence
VIEW View
INVARIANTS
    TypeOK
PROPERTIES
    PlaysInOrder
