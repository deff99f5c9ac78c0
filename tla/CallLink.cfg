\* A call's handshake and tasks, and its microphone.
SPECIFICATION Spec
CONSTANTS
    p1 = p1
    p2 = p2
    NoPort = NoPort
    d1 = d1
    d2 = d2
    None = None
PROPERTIES
    RebindHeals
    BrokenHalfRebuilt
    FollowsDefault
\* A call that was stopped stays so, and the host may stop.
CHECK_DEADLOCK FALSE
