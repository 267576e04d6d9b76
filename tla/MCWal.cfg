SPECIFICATION Spec
CONSTANTS
    None = None
    Msgs = {m1, m2}
    SegmentSize = 2
    MaxStream = 3
    MaxDead = 1
    MaxMissing = 1
SYMMETRY Symmetry
INVARIANTS
    TypeOK
    StrictAppendOrder
    NextIsReadable
    AckedStays
    NothingSkipped
    PostBehindConsumed
PROPERTY
    ImplementsStore
