SPECIFICATION Spec
CONSTANTS
    Units = 4
    MaxSlots = 5
    Sizes = {1, 2}
INVARIANTS
    TypeOK
    PoolSound
PROPERTIES
    HeapSpec
