SPECIFICATION KernelSpec
CONSTANTS
    Vectors <- MCVectors
    MaxInterrupts = 3
    IDT_ENTRIES = 20
    LastStub = 17
    isr <- MCisr
INVARIANTS
    KernelTypeOK
    HandlerSeesVector
    LinesNotMixed
    LockHasHolder
    SegmentsFlat
    ExceptionsReachStubs
    NothingPrintedUnseen
PROPERTIES
    KernelMainEnds
\* kernel_main() ends, and a handler that waits for the lock its own context
\* holds waits for ever.
CHECK_DEADLOCK FALSE
