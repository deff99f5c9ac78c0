\* Three frames, every way to split the stream (length 4 is oversized); a user's
\* commands in any order; connections lost and refused.
SPECIFICATION ConnectionSpec
CONSTANTS
    Prefix = 2
    MaxFrame = 3
    ReadBuf = 4
    MaxPending = 8
    Lengths = {0, 1, 3, 4}
    MaxFrames = 3
    r1 = r1
    r2 = r2
    Echo = Echo
    None = None
    MaxConns = 5
    CmdCap = 3
    MaxCommands = 2
    Rooms <- MCRooms
    MsgCap <- MCMsgCap
    MaxFaults <- MCMaxFaults
    Commands <- MCCommands
INVARIANTS
    DeliveredExactly
    NoOverflow
    RoomAgreement
PROPERTIES
    WrittenIsDelivered
    Recovers
\* A stream ends, and a user may stop typing.
CHECK_DEADLOCK FALSE
