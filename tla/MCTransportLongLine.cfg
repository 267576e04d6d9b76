SPECIFICATION Spec
CONSTANTS
    Idle = Idle
    Calls = {c1, c2, c3}
    LineSize = 1
    PipeSize = 3
CHECK_DEADLOCK FALSE
INVARIANT
    OneUnanswered
