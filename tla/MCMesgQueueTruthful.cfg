SPECIFICATION Spec
CONSTANTS
    sched = sched
    audio = audio
    game = game
    Thread <- MCThread
    Priority <- MCPriority
    Capacity = 2
INVARIANTS
    Truthful
CONSTRAINT CountBound
CHECK_DEADLOCK FALSE
