SPECIFICATION UnitSpec
CONSTANTS
    None = None
    Msgs = {m1}
    MaxMessages = 1
    MaxBytes = 1
    MaxRetries = 1
    MaxCrashes = 1
    MaxSignals = 0
CHECK_DEADLOCK FALSE
PROPERTY
    FailedIsRestarted
