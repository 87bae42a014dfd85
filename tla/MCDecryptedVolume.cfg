SPECIFICATION FairSpec
CONSTANTS
    WordMax = 31
    SectorSize = 4
    AesBlockSize = 2
    PhysicalBases = {3, 25}
    Sizes = {0, 7, 10}
    ImageLens = {0, 9, 20}
    Offsets = {0, 5, 9}
    BufLens = {0, 1, 9}
    SeekDeltas <- MCDeltas
    OverflowChecks = FALSE
INVARIANTS
    TypeOK
    RegionIsImagePrefix
    ReadsAreExact
    OnlyIoErrors
PROPERTIES
    CallReturns
    ImplementsPlaintextVolume
