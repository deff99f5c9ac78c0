\* Three scenarios of the connection handlers and a relay worker.
SPECIFICATION Spec
CONSTANTS
    a = a
    b = b
    lobby = lobby
    den = den
    Clients = {a, b}
    Maintenance = Maintenance
    None = None
    FirstName <- MCFirstName
    OtherNames <- MCOtherNames
    Public <- MCPublic
    Private <- MCPrivate
    Persistent <- MCPersistent
    SlowClients <- MCSlowClients
    Commands <- MCCommands
    MaxCommands <- MCMaxCommands
    Addrs = {a1, a2, a3}
    VoiceChannels = {lobby}
    EchoChannels = {echo}
    Platforms = {"linux", "macos", "other"}
    NoAddr = NoAddr
INVARIANTS
    ViewExactUnlessRaced
    ListRefreshPending
    SentToThePeersRead
PROPERTY
    ChatInItsRoom
\* All clients may hang up for good.
CHECK_DEADLOCK FALSE
