\* A member that is not yet registered for voice when another leaves.
SPECIFICATION Spec
CONSTANTS
    None = None
    c1 = c1
    c2 = c2
    u1 = u1
    u2 = u2
    u3 = u3
    TcpAddrs = {c1, c2}
    UdpAddrs = {u1}
    IpOf <- SharedIp
    PubKeys = {}
    Tokens = {t1, t2}
    PublicChannels = {"pub-lobby", "pub-x"}
    PrivateChannels = {}
    EchoChannels = {}
    Persistent = {"pub-lobby"}
    MaxChannels = 2
    MaxClients = 2

INVARIANT
    ChannelOutlivesMembers
