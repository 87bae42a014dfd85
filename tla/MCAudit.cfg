SPECIFICATION ASpec
CONSTANTS
    Plists <- Contexts
    Blobs <- MCBlobs
    Numerals <- MCNumerals
    NotUtf8 = {"latin1"}
    U32Max = 1000000000
    U64Max = 2000000000
    MaxProtectors = 3
INVARIANTS
    InventoryIgnoresOrder
    StateIsTheFirstStatus
    WeakVolumesAreFlagged
CHECK_DEADLOCK FALSE
