\* A ring of three slots, a sender that may restart once.
SPECIFICATION Spec
CONSTANTS
    None = None
    SeqMod = 32
    Capacity = 3
    ReanchorMax = 1
    ResyncAfter = 2
    TargetMin = 1
    TargetMax = 1
    HoldFrames = 1
    AccelWindow = 1
    AccelObserved = 1
    ForceExcess = 1
    MaxPull = 1
    MaxSent = 11
    MaxRestarts = 1
    Reorder = 4
INVARIANTS
    WindowSound
    DeafnessBounded
PROPERTIES
    NothingDiscarded
    DecodedInOrder
CHECK_DEADLOCK FALSE
