\* The settings file and the pins, direct messages, live levels.
SPECIFICATION Spec
CONSTANTS
    ann = ann
    bob = bob
    eve = eve
    s1 = s1
    s2 = s2
    None = None
    Servers = {s1, s2}
    Certs = {c1, c2}
    DeskValues = {v1}
    MaxSets = 2
    MaxConnects <- MCMaxConnects
    MaxRotations = 1
    MaxCrashes = 1
    Peers <- MCPeers
    DmServers <- MCDmServers
    Limit <- MCLimit
    AbortLate <- MCAbortLate
    MaxDms = 2
    MaxReconnects <- MCMaxReconnects
    MaxCalls = 2
    MaxWrites = 2
    SilenceTicks = 1
SYMMETRY Threads
INVARIANTS
    PinTruth
    RestartKeeps
    DmKeptAndShown
    SnapshotNeverOlder
\* The programs may be left alone, and the last call may be over.
CHECK_DEADLOCK FALSE
