SPECIFICATION FairSpec
CONSTANTS
    Idle = Idle
    Calls = {c1, c2, c3}
    LineSize = 3
    PipeSize = 2
CHECK_DEADLOCK FALSE
INVARIANTS
    TypeOK
    OneReader
    LinesWhole
    OneInThePipes
PROPERTIES
    ImplementsRpc
    SendReturns
