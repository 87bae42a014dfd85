SPECIFICATION Spec
CONSTANTS
    Plists <- NoneBehindXts
    Blobs <- MCBlobs
    Numerals <- MCNumerals
    NotUtf8 = {"latin1"}
    U32Max = 1000000000
    U64Max = 2000000000
    MaxProtectors = 64
INVARIANT
    VolumeKeyFollowsItsAlgorithm
CHECK_DEADLOCK FALSE
