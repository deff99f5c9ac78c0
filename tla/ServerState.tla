---------------------------- MODULE ServerState ----------------------------
(***************************************************************************)
(* The registry of the tc server (crates/server/src/state.rs): who is      *)
(* connected, which channel each client is in, which UDP addresses voice   *)
(* is fanned out to, the tokens that admit a UDP address, the voice keys   *)
(* and the index that routes direct messages.                              *)
(*                                                                         *)
(* Every method of ServerState takes the one RwLock for its whole body, so *)
(* each is one action.  A method that returns an error changes nothing:    *)
(* its error conditions are the guard of its action.                       *)
(*                                                                         *)
(* Data abstractions:                                                      *)
(*  - an Instant is reduced to what cleanup_with asks of it: a channel is  *)
(*    in `aged' once its grace period has elapsed, a token in `young'      *)
(*    until its TTL has;                                                   *)
(*  - a 256-bit random voice key is represented by the set of addresses it *)
(*    was ever handed to: minting a key makes that set empty (two random   *)
(*    keys are assumed to differ);                                         *)
(*  - an absent peer-cache entry is the empty peer list, which is what a   *)
(*    reader (fill_channel_peers) gets in both cases.                      *)
(***************************************************************************)
EXTENDS Naturals, FiniteSets

CONSTANTS
    TcpAddrs,         \* source addresses of TCP connections
    UdpAddrs,         \* source addresses of UDP datagrams
    IpOf,             \* the canonical IP of a TCP or UDP address
    PubKeys,          \* identity keys clients may announce in Hello
    Tokens,           \* the non-zero 64-bit UDP tokens
    PublicChannels,   \* ids pub-<name>
    PrivateChannels,  \* generated ids
    EchoChannels,     \* ids echo-<generated>
    Persistent,       \* public channels created at startup
    MaxChannels,      \* Limits::max_channels, 0 = unlimited
    MaxClients,       \* Limits::max_clients,  0 = unlimited
    None              \* Rust's Option::None

Channels == PublicChannels \union PrivateChannels \union EchoChannels

ASSUME AddressAssumption ==
    /\ IpOf \in [TcpAddrs \union UdpAddrs -> STRING]
    /\ None \notin TcpAddrs \union UdpAddrs \union PubKeys \union Channels

ASSUME ChannelAssumption ==
    /\ Persistent \subseteq PublicChannels
    /\ PublicChannels \intersect PrivateChannels = {}
    /\ (PublicChannels \union PrivateChannels) \intersect EchoChannels = {}
    /\ IsFiniteSet(Channels)
    /\ IsFiniteSet(TcpAddrs)

ASSUME LimitAssumption ==
    /\ MaxChannels \in Nat
    /\ MaxClients \in Nat
    /\ MaxChannels > 0 => Cardinality(Persistent) <= MaxChannels

VARIABLES
    clients,       \* the registered TCP addresses (keys of Inner.clients)
    channel,       \* ClientInfo.channel
    udpAddr,       \* ClientInfo.udp_addr
    pubkey,        \* ClientInfo.pubkey
    pubkeyIndex,   \* Inner.pubkey_index
    channels,      \* the existing channel ids (keys of Inner.channels)
    participants,  \* Inner.channels: the UDP addresses in each channel
    keyHolders,    \* Inner.channel_keys: who was handed the current key
    aged,          \* Inner.channel_created_at: grace period elapsed
    udpTokens,     \* Inner.udp_tokens: the client and channel of each token
    young,         \* Inner.udp_tokens: tokens whose TTL has not elapsed
    peerCache,     \* ServerState.peer_cache, read without the lock
    session        \* ghost: who joined since the channel was last unoccupied

clientVars  == <<clients, channel, udpAddr>>
dmVars      == <<pubkey, pubkeyIndex>>
channelVars == <<channels, participants, keyHolders, aged>>
tokenVars   == <<udpTokens, young>>
vars == <<clients, channel, udpAddr, pubkey, pubkeyIndex, channels,
          participants, keyHolders, aged, udpTokens, young, peerCache, session>>

TokenInfo == [tcp : TcpAddrs, ch : Channels]

NoToken == [tcp |-> None, ch |-> None]

(***************************************************************************)
(* Queries the methods make of the state.                                  *)
(***************************************************************************)
Members(ch)  == {c \in clients : channel[c] = ch}
Occupied(ch) == Members(ch) # {}
IssuedTokens == {t \in Tokens : udpTokens[t] # NoToken}

ChannelLimitReached == MaxChannels > 0 /\ Cardinality(channels) >= MaxChannels

ServerFull == MaxClients > 0 /\ Cardinality(clients) >= MaxClients

(* The startup code creates the persistent channels before it listens. *)
Init ==
    /\ clients = {}
    /\ channel = [c \in TcpAddrs |-> None]
    /\ udpAddr = [c \in TcpAddrs |-> None]
    /\ pubkey  = [c \in TcpAddrs |-> None]
    /\ pubkeyIndex = [k \in PubKeys |-> None]
    /\ channels = Persistent
    /\ participants = [ch \in Channels |-> {}]
    /\ keyHolders   = [ch \in Channels |-> {}]
    /\ aged = {}
    /\ udpTokens = [t \in Tokens |-> NoToken]
    /\ young = {}
    /\ peerCache = [ch \in Channels |-> {}]
    /\ session   = [ch \in Channels |-> {}]

(***************************************************************************)
(* Connections.  A connection's source address is not in use by another    *)
(* registered connection.                                                  *)
(***************************************************************************)
RegisterClient(c) ==
    /\ c \notin clients
    /\ ~ServerFull
    /\ clients' = clients \union {c}
    /\ channel' = [channel EXCEPT ![c] = None]
    /\ udpAddr' = [udpAddr EXCEPT ![c] = None]
    /\ pubkey'  = [pubkey EXCEPT ![c] = None]
    /\ UNCHANGED <<pubkeyIndex, channelVars, tokenVars, peerCache, session>>

(* Last writer wins; the client's previous key is unindexed whoever the    *)
(* index maps it to.                                                       *)
SetPubkey(c, k) ==
    /\ c \in clients
    /\ pubkey' = [pubkey EXCEPT ![c] = k]
    /\ pubkeyIndex' = [j \in PubKeys |->
                         IF j = k THEN c
                         ELSE IF j = pubkey[c] THEN None
                         ELSE pubkeyIndex[j]]
    /\ UNCHANGED <<clientVars, channelVars, tokenVars, peerCache, session>>

(***************************************************************************)
(* What leave_channel and remove_client share: c's UDP address leaves the  *)
(* channel, and a channel whose set of UDP addresses is then empty is      *)
(* destroyed unless it is persistent.  The channel may already be gone, in *)
(* which case the lookup fails and its (empty) peer list is cached.        *)
(***************************************************************************)
\* Mutant: the leaver's address stays in the channel.
PeersWithoutNobody(c, ch) == participants[ch]

PeersWithout(c, ch) == participants[ch] \ {udpAddr[c]}

\* Mutant: one address left counts as empty.
DestroyedByOneLeft(c, ch) ==
    /\ ch \in channels
    /\ Cardinality(PeersWithout(c, ch)) <= 1
    /\ ch \notin Persistent

DestroyedBy(c, ch) ==
    /\ ch \in channels
    /\ PeersWithout(c, ch) = {}
    /\ ch \notin Persistent

\* Mutant: the creation timestamp of a removed channel is kept.
DropChannelsKeepTimestamp(gone) ==
    /\ channels' = channels \ gone
    /\ keyHolders' = [ch \in Channels |->
                        IF ch \in gone THEN {} ELSE keyHolders[ch]]
    /\ UNCHANGED aged

(* A channel goes together with its key and its creation timestamp. *)
DropChannels(gone) ==
    /\ channels' = channels \ gone
    /\ keyHolders' = [ch \in Channels |->
                        IF ch \in gone THEN {} ELSE keyHolders[ch]]
    /\ aged' = aged \ gone

\* Mutant: the cache is not refreshed.
CachePeersSkipped(ch, peers) == UNCHANGED peerCache

(* update_channel_peers, and remove_channel_from_cache for peers = {}. *)
CachePeers(ch, peers) == peerCache' = [peerCache EXCEPT ![ch] = peers]

VacateChannel(c, ch) ==
    /\ participants' = [participants EXCEPT ![ch] = PeersWithout(c, ch)]
    /\ CachePeers(ch, PeersWithout(c, ch))
    /\ DropChannels(IF DestroyedBy(c, ch) THEN {ch} ELSE {})

KeepTokens(kept) ==
    /\ udpTokens' = [t \in Tokens |-> IF t \in kept THEN udpTokens[t] ELSE NoToken]
    /\ young' = young \intersect kept

\* Mutant: pending tokens survive the leave.
TokensOfEveryone(c) == IssuedTokens

TokensOfOthers(c) == {t \in IssuedTokens : udpTokens[t].tcp # c}

\* Mutant: the index keeps the address of a client that is gone.
IndexUntouched(c) == pubkeyIndex

IndexWithout(c) ==
    [k \in PubKeys |-> IF k = pubkey[c] THEN None ELSE pubkeyIndex[k]]

RemoveClient(c) ==
    /\ c \in clients
    /\ clients' = clients \ {c}
    /\ channel' = [channel EXCEPT ![c] = None]
    /\ udpAddr' = [udpAddr EXCEPT ![c] = None]
    /\ pubkey'  = [pubkey EXCEPT ![c] = None]
    /\ pubkeyIndex' = IndexWithout(c)
    /\ KeepTokens(TokensOfOthers(c))
    /\ IF channel[c] = None
       THEN UNCHANGED <<channelVars, peerCache>>
       ELSE VacateChannel(c, channel[c])
    /\ UNCHANGED session

LeaveChannel(c) ==
    /\ c \in clients
    /\ channel[c] # None
    /\ channel' = [channel EXCEPT ![c] = None]
    /\ udpAddr' = [udpAddr EXCEPT ![c] = None]
    /\ KeepTokens(TokensOfOthers(c))
    /\ VacateChannel(c, channel[c])
    /\ UNCHANGED <<clients, dmVars, session>>

(***************************************************************************)
(* Channels.  A named channel must not exist; a generated id is retried    *)
(* until it does not.                                                      *)
(***************************************************************************)
OpenChannel(ch, holders) ==
    /\ ~ChannelLimitReached
    /\ ch \notin channels
    /\ channels' = channels \union {ch}
    /\ participants' = [participants EXCEPT ![ch] = {}]
    /\ keyHolders' = [keyHolders EXCEPT ![ch] = holders]
    /\ aged' = aged \ {ch}

CreateChannel(ch) ==
    /\ ch \in PublicChannels \union PrivateChannels
    /\ OpenChannel(ch, {})
    /\ UNCHANGED <<clientVars, dmVars, tokenVars, peerCache, session>>

IssueToken(t, c, ch) ==
    /\ t \notin IssuedTokens
    /\ udpTokens' = [udpTokens EXCEPT ![t] = [tcp |-> c, ch |-> ch]]
    /\ young' = young \union {t}

\* Mutant: a persistent channel keeps one key for ever.
HoldersNeverRotate(c, ch) == keyHolders[ch] \union {c}

(* The key a joiner is handed: minted afresh on the 0 -> 1 occupancy       *)
(* transition of a persistent channel, the channel's current key           *)
(* otherwise.                                                              *)
HoldersAfterJoin(c, ch) ==
    IF ch \in Persistent /\ ~Occupied(ch)
    THEN {c}
    ELSE keyHolders[ch] \union {c}

SessionAfterJoin(c, ch) ==
    IF Occupied(ch) THEN session[ch] \union {c} ELSE {c}

JoinChannel(c, ch, t) ==
    /\ c \in clients
    /\ ch \in channels
    /\ channel[c] = None
    /\ keyHolders' = [keyHolders EXCEPT ![ch] = HoldersAfterJoin(c, ch)]
    /\ channel' = [channel EXCEPT ![c] = ch]
    /\ IssueToken(t, c, ch)
    /\ session' = [session EXCEPT ![ch] = SessionAfterJoin(c, ch)]
    /\ UNCHANGED <<clients, udpAddr, dmVars, channels, participants, aged,
                   peerCache>>

StartEchoTest(c, ch, t) ==
    /\ c \in clients
    /\ channel[c] = None
    /\ ch \in EchoChannels
    /\ OpenChannel(ch, {c})
    /\ IssueToken(t, c, ch)
    /\ channel' = [channel EXCEPT ![c] = ch]
    /\ session' = [session EXCEPT ![ch] = SessionAfterJoin(c, ch)]
    /\ UNCHANGED <<clients, udpAddr, dmVars, peerCache>>

(***************************************************************************)
(* register_udp_by_token: a hello carrying an issued token arrives from    *)
(* UDP address a.  An unknown token, or an address whose IP is not the TCP *)
(* session's, changes nothing.                                             *)
(***************************************************************************)
\* Mutant: the previous address is removed after the new one is inserted.
PeersAfterHelloSwapped(c, ch, a) ==
    IF ch \in channels
    THEN (participants[ch] \union {a}) \ {udpAddr[c]}
    ELSE participants[ch]

PeersAfterHello(c, ch, a) ==
    IF ch \in channels
    THEN (participants[ch] \ {udpAddr[c]}) \union {a}
    ELSE participants[ch]

RegisterUdpByToken(t, a) ==
    LET c  == udpTokens[t].tcp
        ch == udpTokens[t].ch
    IN  /\ t \in IssuedTokens
        /\ IpOf[c] = IpOf[a]
        /\ c \in clients
        /\ young' = young \union {t}
        /\ udpAddr' = [udpAddr EXCEPT ![c] = a]
        /\ participants' = [participants EXCEPT ![ch] = PeersAfterHello(c, ch, a)]
        /\ CachePeers(ch, PeersAfterHello(c, ch, a))
        /\ UNCHANGED <<clients, channel, dmVars, channels, keyHolders, aged,
                       udpTokens, session>>

(***************************************************************************)
(* Maintenance.                                                            *)
(***************************************************************************)
\* Mutant: the grace period is compared the wrong way round.
ReapableWhileYoung ==
    {ch \in channels : /\ participants[ch] = {}
                       /\ ~Occupied(ch)
                       /\ ch \notin Persistent
                       /\ ch \notin aged}

ReapableChannels ==
    {ch \in channels : /\ participants[ch] = {}
                       /\ ~Occupied(ch)
                       /\ ch \notin Persistent
                       /\ ch \in aged}

TokenLive(t) ==
    /\ udpTokens[t].tcp \in clients
    /\ channel[udpTokens[t].tcp] = udpTokens[t].ch

CleanupEmptyChannels ==
    /\ DropChannels(ReapableChannels)
    /\ KeepTokens({t \in IssuedTokens :
                      /\ udpTokens[t].ch \notin ReapableChannels
                      /\ TokenLive(t) \/ t \in young})
    /\ UNCHANGED <<clientVars, dmVars, participants, peerCache, session>>

(* The grace period of a channel, or the TTL of a token, elapses. *)
ChannelAges(ch) ==
    /\ ch \in channels \ aged
    /\ aged' = aged \union {ch}
    /\ UNCHANGED <<clientVars, dmVars, channels, participants, keyHolders,
                   tokenVars, peerCache, session>>

TokenAges(t) ==
    /\ t \in young
    /\ young' = young \ {t}
    /\ UNCHANGED <<clientVars, dmVars, channelVars, udpTokens, peerCache, session>>

Next ==
    \/ \E c \in TcpAddrs :
          \/ RegisterClient(c)
          \/ RemoveClient(c)
          \/ LeaveChannel(c)
          \/ \E k \in PubKeys : SetPubkey(c, k)
          \/ \E ch \in Channels, t \in Tokens :
                \/ JoinChannel(c, ch, t)
                \/ StartEchoTest(c, ch, t)
    \/ \E ch \in Channels : CreateChannel(ch) \/ ChannelAges(ch)
    \/ \E t \in Tokens :
          \/ TokenAges(t)
          \/ \E a \in UdpAddrs : RegisterUdpByToken(t, a)
    \/ CleanupEmptyChannels

Spec == Init /\ [][Next]_vars

(***************************************************************************)
(* The maintenance loop of main.rs calls cleanup on every tick of an       *)
(* interval timer, and time passes.  Nothing is assumed of the clients.    *)
(***************************************************************************)
Fairness ==
    /\ WF_vars(CleanupEmptyChannels)
    /\ \A ch \in Channels : WF_vars(ChannelAges(ch))

FairSpec == Spec /\ Fairness

-----------------------------------------------------------------------------
(***************************************************************************)
(* Properties.                                                             *)
(***************************************************************************)

(* Type correctness of the registry; an address with no registered client  *)
(* has no client record.                                                   *)
TypeOK ==
    /\ clients \subseteq TcpAddrs
    /\ channel \in [TcpAddrs -> Channels \union {None}]
    /\ udpAddr \in [TcpAddrs -> UdpAddrs \union {None}]
    /\ pubkey \in [TcpAddrs -> PubKeys \union {None}]
    /\ pubkeyIndex \in [PubKeys -> TcpAddrs \union {None}]
    /\ channels \subseteq Channels
    /\ participants \in [Channels -> SUBSET UdpAddrs]
    /\ keyHolders \in [Channels -> SUBSET TcpAddrs]
    /\ aged \subseteq channels
    /\ udpTokens \in [Tokens -> TokenInfo \union {NoToken}]
    /\ young \subseteq IssuedTokens
    /\ peerCache \in [Channels -> SUBSET UdpAddrs]
    /\ session \in [Channels -> SUBSET TcpAddrs]

(* An issued token admits its holder only to the channel the holder is in  *)
(* now, and a client holds at most one: no token survives the leave or the *)
(* disconnect that ended the membership it was issued for (join_channel,   *)
(* leave_channel, remove_client, cleanup_with).                            *)
TokensFollowMembership ==
    \A t \in IssuedTokens :
        /\ TokenLive(t)
        /\ \A u \in IssuedTokens : udpTokens[u].tcp = udpTokens[t].tcp => u = t

(* The lock-free peer cache the relay reads lists, for every channel, the  *)
(* channel's registered addresses and nothing for a channel that does not  *)
(* exist (update_channel_peers, remove_channel_from_cache).                *)
CacheCoherent ==
    \A ch \in Channels :
        /\ peerCache[ch] = participants[ch]
        /\ ch \notin channels => peerCache[ch] = {}

(* Voice of a channel is fanned out only to the address that a client now  *)
(* in that channel registered: no address of a client that left, was       *)
(* disconnected or rebound to another port stays in the fan-out.           *)
VoiceOnlyToMembers ==
    \A ch \in Channels : \A a \in peerCache[ch] :
        \E c \in Members(ch) : udpAddr[c] = a

DistinctIps == \A c, d \in TcpAddrs : IpOf[c] = IpOf[d] => c = d

(* When every client has its own IP, a member of a channel's current       *)
(* incarnation whose hello was acknowledged is in the fan-out, whatever    *)
(* others joined, left or rebound since (register_udp_by_token).           *)
VoiceReachesMembers ==
    DistinctIps =>
        \A c \in clients :
            /\ channel[c] # None
            /\ c \in keyHolders[channel[c]]
            /\ udpAddr[c] # None
            => udpAddr[c] \in peerCache[channel[c]]

(* A direct message addressed to a key is routed only to a connected       *)
(* client that announced that key last (set_pubkey, lookup_pubkey).        *)
DmRouteSound ==
    \A k \in PubKeys :
        pubkeyIndex[k] # None =>
            /\ pubkeyIndex[k] \in clients
            /\ pubkey[pubkeyIndex[k]] = k

(* Forward secrecy across sessions: whoever was handed the key an occupied *)
(* channel is using joined since the channel was last unoccupied.  It      *)
(* rests on the rotation in join_channel for persistent channels and, for  *)
(* the others, on the last leave emptying the fan-out and destroying the   *)
(* channel together with its key.                                          *)
ForwardSecrecy ==
    \A ch \in channels : Occupied(ch) => keyHolders[ch] \subseteq session[ch]

(* A channel that is not persistent and that nobody is in has a key that   *)
(* nobody was ever handed: what makes ForwardSecrecy inductive.            *)
UnoccupiedKeysUnknown ==
    \A ch \in channels \ Persistent : ~Occupied(ch) => keyHolders[ch] = {}

(* The members of a persistent channel all hold its current key: it never  *)
(* rotates under anyone (join_channel).                                    *)
PersistentKeyAgreement ==
    \A ch \in Persistent : Members(ch) \subseteq keyHolders[ch]

(* The configured limits hold at every moment, the echo-test channels and  *)
(* the persistent ones included (register_client, create_channel,          *)
(* start_echo_test).                                                       *)
WithinLimits ==
    /\ MaxClients > 0 => Cardinality(clients) <= MaxClients
    /\ MaxChannels > 0 => Cardinality(channels) <= MaxChannels

(* A channel never disappears under a client that is talking in it: when   *)
(* every client has its own IP, a channel some remaining member of which   *)
(* is registered for voice survives every leave, disconnect and cleanup.   *)
VoiceChannelSurvives ==
    [][DistinctIps =>
         \A c \in clients \intersect clients' :
             /\ channel[c] \in channels
             /\ channel'[c] = channel[c]
             /\ c \in keyHolders[channel[c]]
             /\ udpAddr[c] # None
             => channel[c] \in channels']_vars

(* A channel nobody is in is removed, or joined, or persistent: abandoned  *)
(* channels do not use up the channel limit for ever (cleanup_with).       *)
AbandonedChannelsReaped ==
    \A ch \in Channels \ Persistent :
        (ch \in channels /\ ~Occupied(ch)) ~> (ch \notin channels \/ Occupied(ch))

(* What the comments of handle_client and handle_leave_channel say of      *)
(* destruction - a channel goes away when its last member does - so the    *)
(* channel a client is in exists.                                          *)
ChannelOutlivesMembers ==
    \A c \in clients : channel[c] # None => channel[c] \in channels

=============================================================================
