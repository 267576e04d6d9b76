SPECIFICATION NebStaysUpSpec
CONSTANTS
    None = None
    Msgs = {m1, m2}
    MaxMessages = 0
    MaxBytes = 0
    MaxRetries = 1
    MaxCrashes = 1
CHECK_DEADLOCK FALSE
INVARIANT
    DeadLettersWereTried
