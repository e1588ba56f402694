SPECIFICATION Spec
CONSTANTS
    Vectors <- MCVectors
    MaxInterrupts = 2
INVARIANTS
    FrameIsOnTop
\* A handler that waits for the lock its own context holds waits for ever.
CHECK_DEADLOCK FALSE
