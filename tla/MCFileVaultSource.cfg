SPECIFICATION FairSpec
CONSTANTS
    Threads = {t1, t2}
    NoThread = NoThread
    Sizes = {0, 3}
    Bases = {1, 6}
    ImageLens = {2, 5}
    SectorMax = 7
    Offsets = {0, 2, 3}
    BufLens = {0, 2, 4}
INVARIANTS
    TypeOK
    HolderOwnsReader
    ConcurrentReadsAreExact
PROPERTIES
    PanicStaysInItsCall
    ImplementsAtomicSource
    LockIsReleased
