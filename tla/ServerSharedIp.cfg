\* Two clients behind one NAT, two identity keys, every kind of channel.
SPECIFICATION Spec
CONSTANTS
    None = None
    c1 = c1
    c2 = c2
    u1 = u1
    u2 = u2
    u3 = u3
    TcpAddrs = {c1, c2}
    UdpAddrs = {u1, u2}
    IpOf <- SharedIp
    PubKeys = {pk1, pk2}
    Tokens = {t1, t2}
    PublicChannels = {"pub-lobby", "pub-x"}
    PrivateChannels = {}
    EchoChannels = {"echo-1"}
    Persistent = {"pub-lobby"}
    MaxChannels = 2
    MaxClients = 2
SYMMETRY SharedIpSymmetry
INVARIANTS
    TypeOK
    TokensFollowMembership
    CacheCoherent
    VoiceOnlyToMembers
    DmRouteSound
    ForwardSecrecy
PROPERTY
    ImplementsVoiceRooms
