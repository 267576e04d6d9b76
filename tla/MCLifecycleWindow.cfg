SPECIFICATION Spec
CONSTANTS
    None = None
    Msgs = {m1, m2, m3}
    MaxMessages = 1
    MaxBytes = 0
    MaxRetries = 1
    MaxCrashes = 1
CHECK_DEADLOCK FALSE
INVARIANT
    DeliveredOrRetained
