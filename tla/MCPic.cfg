SPECIFICATION Spec
CONSTANT Lines <- MCLines
INVARIANTS
    TypeOK
    MasksKept
    LineNumbersArrive
    NothingLeftInService
