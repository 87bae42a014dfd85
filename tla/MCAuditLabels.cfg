SPECIFICATION ASpec
CONSTANTS
    Plists <- ThreeUsers
    Blobs <- MCBlobs
    Numerals <- MCNumerals
    NotUtf8 = {"latin1"}
    U32Max = 1000000000
    U64Max = 2000000000
    MaxProtectors = 3
INVARIANT
    LabelsAreDeduped
CHECK_DEADLOCK FALSE
