SPECIFICATION Spec
CONSTANTS
    Plists <- MCPlists
    Blobs <- MCBlobs
    Numerals <- MCNumerals
    NotUtf8 = {"latin1"}
    U32Max = 1000000000
    U64Max = 2000000000
    MaxProtectors = 2
INVARIANTS
    TypeOK
    VolumeKeyIsAesXts
    ProtectorsInOrder
    
PROPERTIES
    EveryTurnAdvances
    ScanEnds
CHECK_DEADLOCK FALSE
