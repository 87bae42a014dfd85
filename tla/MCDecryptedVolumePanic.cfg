SPECIFICATION Spec
CONSTANTS
    WordMax = 31
    SectorSize = 4
    AesBlockSize = 2
    PhysicalBases = {3, 25}
    Sizes = {10}
    ImageLens = {20}
    Offsets = {0, 9}
    BufLens = {1, 9}
    SeekDeltas <- MCDeltas
    OverflowChecks = TRUE
INVARIANT
    NoPanic
