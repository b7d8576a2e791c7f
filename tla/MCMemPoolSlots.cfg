SPECIFICATION Spec
CONSTANTS
    Units = 6
    MaxSlots = 5
    Sizes = {1, 2}
INVARIANTS
    EntryLeftForSplit
