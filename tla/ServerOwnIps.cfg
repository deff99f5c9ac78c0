\* Two clients, each behind its own IP, one of which may change port, under the
\* fairness of the maintenance loop.
SPECIFICATION FairSpec
CONSTANTS
    None = None
    c1 = c1
    c2 = c2
    u1 = u1
    u2 = u2
    u3 = u3
    TcpAddrs = {c1, c2}
    UdpAddrs = {u1, u2, u3}
    IpOf <- OwnIps
    PubKeys = {}
    Tokens = {"t1", "t2"}
    PublicChannels = {"pub-x"}
    PrivateChannels = {"p1"}
    EchoChannels = {}
    Persistent = {}
    MaxChannels = 2
    MaxClients = 2
INVARIANT
    VoiceReachesMembers
PROPERTIES
    VoiceChannelSurvives
    AbandonedChannelsReaped
