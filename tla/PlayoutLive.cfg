\* Short talkspurts, a varying target and pull, under the fairness of the
\* receive task and the device.
SPECIFICATION FairSpec
CONSTANTS
    None = None
    SeqMod = 32
    Capacity = 3
    ReanchorMax = 1
    ResyncAfter = 2
    TargetMin = 1
    TargetMax = 2
    HoldFrames = 1
    AccelWindow = 2
    AccelObserved = 2
    ForceExcess = 1
    MaxPull = 2
    MaxSent = 5
    MaxRestarts = 1
    Reorder = 2
PROPERTIES
    BufferedIsPlayed
    TickDisarms
CHECK_DEADLOCK FALSE
