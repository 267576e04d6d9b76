SPECIFICATION Spec
CONSTANTS
    None = None
    Senders = {s1}
    Msgs = {m1, m2, m3, m4}
    SegmentSize = 2
    MaxMessages = 0
    MaxCrashes = 0
CHECK_DEADLOCK FALSE
INVARIANT
    NothingSkipped
