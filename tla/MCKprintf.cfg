SPECIFICATION Spec
CONSTANTS
    IntBits = 16
    BytesPerLine = 2
    Displays = {d1, d2}
    Calls <- MCCalls
    IntArgs <- MCIntArgs
    StrArgs <- MCStrArgs
    CharArgs <- MCCharArgs
    Dumps <- MCDumps
INVARIANTS
    PrintsAsPrintf
    HexdumpTable
\* A call returns, and a dump ends.
CHECK_DEADLOCK FALSE
