SPECIFICATION Spec
CONSTANTS
    None = None
    Msgs = {m1, m2, m3}
    MaxMessages = 1
    MaxBytes = 2
    MaxRetries = 2
    MaxCrashes = 2
SYMMETRY Symmetry
CHECK_DEADLOCK FALSE
INVARIANTS
    TypeOK
    StateFollowsPump
    ReplyAnswersRequest
    OneAtATime
    InOrderDelivery
    NothingLost
    OneRedelivery
    DurableAtLoopTop
PROPERTY
    ImplementsRpc
