\* The gate, paranoid mode, the output path and the mixer.
SPECIFICATION Spec
CONSTANTS
    Preroll <- MCPreroll
    Hangover <- MCHangover
    QueueCap <- MCQueueCap
    MicCap <- MCMicCap
    Switches <- MCSwitches
    Paranoid <- MCParanoid
    MaxFrames <- MCMaxFrames
    MaxFlips <- MCMaxFlips
    MaxFaults <- MCMaxFaults
    ann = ann
    bob = bob
    eve = eve
    Senders = {ann, bob, eve}
    MaxStreams = 2
    Ttl = 5
    Window = 2
    MaxBuf = 1
    MaxLead = 1
    HoldFrames = 1
    Recent = 2
    MaxPull = 2
    MaxPackets = 2
    FrameSize = 3
    LowWater = 6
    RingSize = 24
    SafetyCap = 45
    JitterMax = 15
    TargetMax = 10
    SampleRate = 3
    Devices = {"small", "large"}
    Rate <- MCRate
    Requests <- MCRequests
    MaxSkips = 1
    MaxMeets = 2
    MaxRebuilds = 1
SYMMETRY Peers
INVARIANTS
    GateIsWindow
    ConstantRate
    LevelHeld
    LevelsCurrent
\* The microphone may fall silent and the call end.
CHECK_DEADLOCK FALSE
