\* One command at a time, in any order, a fault, and an abort that hits a
\* running task.
SPECIFICATION Spec
CONSTANTS
    MaxConns = 4
    r1 = r1
    Rooms = {r1}
    Echo = Echo
    None = None
    Slots = {1}
    ActorCap = 2
    Commands = {"connect", "disconnect", "join", "create", "leave", "echo", "stopecho"}
    MaxCommands = 4
    MaxFaults = 1
    MaxLate = 1
INVARIANTS
    VoiceFollowsChannel
PROPERTIES
    NeverReconnectsUnwanted
    SoundCheckEnds
\* The user may stop.
CHECK_DEADLOCK FALSE
