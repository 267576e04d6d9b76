SPECIFICATION CoptSpec
CONSTANTS
    None = None
    Msgs = {m1, m2}
    MaxMessages = 1
    MaxBytes = 0
    MaxRetries = 1
    MaxCrashes = 1
    MaxSignals = 2
CHECK_DEADLOCK FALSE
INVARIANT
    CoptTypeOK
PROPERTIES
    SignalEnds
    SecondSignalEnds
    EverySettled
