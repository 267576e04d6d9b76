SPECIFICATION FairSpec
CONSTANTS
    None = None
    Senders = {s1, s2}
    Msgs = {m1, m2, m3}
    SegmentSize = 4
    MaxMessages = 1
    MaxCrashes = 1
CHECK_DEADLOCK FALSE
INVARIANTS
    TypeOK
    StrictAppendOrder
    NothingSkipped
    AckedAtOrAfter
PROPERTY
    EveryDelivered
