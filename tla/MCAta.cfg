SPECIFICATION Spec
CONSTANTS
    Kinds <- MCKinds
    Words = 2
    ByteSize = 2
    HighSize = 2
    Sectors <- MCSectors
INVARIANTS
    TypeOK
    DisksIdentified
    SectorRead
    DrivesQuiet
PROPERTY OperationsEnd
\* After the panic of ata_poll_status() nothing runs.
CHECK_DEADLOCK FALSE
