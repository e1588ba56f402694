SPECIFICATION MemSpec
CONSTANTS
    PAGE_SIZE = 4
    PAGE_TABLE_LEN = 6
    NUM_KERNEL_PAGE_TABLES = 2
    KERNEL_FIRST_PAGE_TABLE_OFFSET = 2
    NFrames = 192
    KernelFirst = 2
    KernelLast = 3
    VgaFrame = 1
    PhysFrames <- NoFrames
    Offsets <- NoFrames
    Sizes <- UpToTwoBlocks
    MaxObjects = 0
    MaxTlb = 0
    WordBits = 4
    PageWords = 6
    CmosSizes = {36, 48}
INVARIANTS
    MemTypeOK
    SingleBlocksNotShared
    ChunksMapTheirBlocks
    LiveBlocksMarked
    BlocksInRam
    FramesMappedOnce
\* A kernel that panicked stops in for(;;).
CHECK_DEADLOCK FALSE
