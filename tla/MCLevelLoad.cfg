SPECIFICATION FairSpec
CONSTANTS
    Level = {l1, l2}
    None = none
    LoadDelay = 4
INVARIANTS
    TypeOK
    NoStaleList
    SceneHasLevel
    OneSignal
    FlagTellsLevel
    DeferredOutsideLoads
PROPERTIES
    RequestServed
    SlotSpec
    PreviewLoads
