SPECIFICATION Spec
CONSTANTS
    PAGE_SIZE = 4
    PAGE_TABLE_LEN = 6
    NUM_KERNEL_PAGE_TABLES = 2
    KERNEL_FIRST_PAGE_TABLE_OFFSET = 2
    NFrames = 5
    KernelFirst = 2
    KernelLast = 3
    VgaFrame = 1
    PhysFrames <- MCPhysFrames
    Offsets <- MCOffsets
    Sizes <- MCSizes
    MaxObjects = 3
    MaxTlb = 1
INVARIANTS
    TypeOK
    MappingsIntact
    NoLeakedPages
    BootMapUnchanged
    TlbCoherent
    ObjectsAccessible
PROPERTIES
    UnpageCountMatches
    ImplementsPageSpace
\* A kernel that panicked stops in for(;;).
CHECK_DEADLOCK FALSE
