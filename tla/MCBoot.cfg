SPECIFICATION BootSpec
CONSTANTS
    PAGE_SIZE = 4
    PAGE_TABLE_LEN = 6
    NUM_KERNEL_PAGE_TABLES = 2
    KERNEL_FIRST_PAGE_TABLE_OFFSET = 2
    NFrames = 16
    KernelFirst = 2
    KernelLast = 4
    VgaFrame = 1
    PhysFrames <- NoArguments
    Offsets <- NoArguments
    Sizes <- NoArguments
    MaxObjects = 0
    MaxTlb = 2
    EcxValues <- AnyEcx
    RegModulus = 32
INVARIANTS
    KernelStartsInInit
    LowMemoryIsIdentity
PROPERTY
    ReachesKernel
\* The kernel's own steps are those of the other modules.
CHECK_DEADLOCK FALSE
