SPECIFICATION OSpec
CONSTANTS
    WordMax = 127
    TypeEnd = 2
    SizeEnd = 4
    PointerEnd = 6
    DescriptorLen = 3
    SegmentsAt = 4
    SegmentLen = 2
    MetadataUnit = 16
    AesBlock = 2
    MaxBlocks = 4
    MaxSegments = 2
    BlockNumbers = 32
    HeaderWord = 9
    HeaderLen = 8
    Passwords = {"right", "wrong"}
    Layouts <- OpenedLayouts
    FirstBlockFields = {1, 3, 5}
    DescriptorFields = {0, 2}
    Images <- WholeOrCut
    Offers <- SomeOffers
    Threads = {t1, t2}
    NoThread = NoThread
    SectorLen = 4
    Offsets = {0, 1, 3}
    BufLens = {2, 5}
SYMMETRY AnyThread
INVARIANT
    DeliveredIsWritten
