------------------------- MODULE ServerStateProofs -------------------------
(***************************************************************************)
(* Proofs about ServerState for every set of addresses, channels and       *)
(* tokens and every limit, and the proof that it implements VoiceRooms.    *)
(***************************************************************************)
EXTENDS ServerRooms, FiniteSetTheorems, TLAPS

(***************************************************************************)
(* What the two ways of changing the token table do to the set of issued   *)
(* tokens.                                                                 *)
(***************************************************************************)

(* A token record is never the absent token: None is not an address. *)
LEMMA TokenInfoIsNotNoToken == NoToken \notin TokenInfo
  BY AddressAssumption DEF NoToken, TokenInfo

(* Retaining a set of issued tokens leaves exactly those issued, with the  *)
(* client and channel they had.                                            *)
LEMMA KeepTokensEffect ==
  ASSUME TypeOK, NEW kept \in SUBSET IssuedTokens, KeepTokens(kept)
  PROVE  /\ udpTokens' \in [Tokens -> TokenInfo \union {NoToken}]
         /\ IssuedTokens' = kept
         /\ young' \subseteq kept
         /\ \A t \in kept : udpTokens'[t] = udpTokens[t]
  BY DEF TypeOK, KeepTokens, IssuedTokens

(* Issuing a token adds it to the issued ones and touches no other. *)
LEMMA IssueTokenEffect ==
  ASSUME TypeOK, NEW t \in Tokens, NEW c \in TcpAddrs, NEW ch \in Channels,
         IssueToken(t, c, ch)
  PROVE  /\ udpTokens' \in [Tokens -> TokenInfo \union {NoToken}]
         /\ IssuedTokens' = IssuedTokens \union {t}
         /\ t \notin IssuedTokens
         /\ young' \subseteq IssuedTokens'
         /\ udpTokens'[t] = [tcp |-> c, ch |-> ch]
         /\ \A u \in IssuedTokens : udpTokens'[u] = udpTokens[u]
  <1>1. [tcp |-> c, ch |-> ch] \in TokenInfo
    BY DEF TokenInfo
  <1>2. udpTokens'[t] # NoToken
    BY <1>1, TokenInfoIsNotNoToken DEF TypeOK, IssueToken
  <1> QED
    BY <1>1, <1>2 DEF TypeOK, IssueToken, IssuedTokens

(* The record of an issued token is a client and a channel. *)
LEMMA IssuedTokenInfo ==
  ASSUME TypeOK, NEW t \in IssuedTokens
  PROVE  /\ udpTokens[t] \in TokenInfo
         /\ udpTokens[t].tcp \in TcpAddrs
         /\ udpTokens[t].ch \in Channels
  BY DEF TypeOK, IssuedTokens, TokenInfo

(* Vacating a channel keeps the channel tables well typed. *)
LEMMA VacateTypes ==
  ASSUME TypeOK, NEW c \in TcpAddrs, NEW ch \in Channels, VacateChannel(c, ch)
  PROVE  /\ participants' \in [Channels -> SUBSET UdpAddrs]
         /\ peerCache' \in [Channels -> SUBSET UdpAddrs]
         /\ channels' \subseteq Channels
         /\ keyHolders' \in [Channels -> SUBSET TcpAddrs]
         /\ aged' \subseteq channels'
  BY DEF TypeOK, VacateChannel, CachePeers, DropChannels, PeersWithout

-----------------------------------------------------------------------------
(* Every step of the registry keeps its state well typed: no method stores *)
(* an address, channel or token where another kind of value belongs.       *)
LEMMA TypeStep == TypeOK /\ [Next]_vars => TypeOK'
  <1> SUFFICES ASSUME TypeOK, [Next]_vars
               PROVE  TypeOK'
    OBVIOUS
  <1>1. ASSUME NEW c \in TcpAddrs, RegisterClient(c)
        PROVE  TypeOK'
    BY <1>1 DEF TypeOK, RegisterClient, channelVars, tokenVars, IssuedTokens
  <1>2. ASSUME NEW c \in TcpAddrs, RemoveClient(c)
        PROVE  TypeOK'
    <2>1. /\ udpTokens' \in [Tokens -> TokenInfo \union {NoToken}]
          /\ young' \subseteq IssuedTokens'
      BY <1>2, KeepTokensEffect DEF RemoveClient, TokensOfOthers
    <2>2. CASE channel[c] = None
      BY <1>2, <2>1, <2>2 DEF TypeOK, RemoveClient, IndexWithout, channelVars
    <2>3. CASE channel[c] # None
      BY <1>2, <2>1, <2>3, VacateTypes DEF TypeOK, RemoveClient, IndexWithout
    <2> QED
      BY <2>2, <2>3
  <1>3. ASSUME NEW c \in TcpAddrs, LeaveChannel(c)
        PROVE  TypeOK'
    <2>1. /\ udpTokens' \in [Tokens -> TokenInfo \union {NoToken}]
          /\ young' \subseteq IssuedTokens'
      BY <1>3, KeepTokensEffect DEF LeaveChannel, TokensOfOthers
    <2> QED
      BY <1>3, <2>1, VacateTypes DEF TypeOK, LeaveChannel, dmVars
  <1>4. ASSUME NEW c \in TcpAddrs, NEW k \in PubKeys, SetPubkey(c, k)
        PROVE  TypeOK'
    BY <1>4 DEF TypeOK, SetPubkey, clientVars, channelVars, tokenVars, IssuedTokens
  <1>5. ASSUME NEW c \in TcpAddrs, NEW ch \in Channels, NEW t \in Tokens,
               JoinChannel(c, ch, t)
        PROVE  TypeOK'
    BY <1>5, IssueTokenEffect
    DEF TypeOK, JoinChannel, HoldersAfterJoin, SessionAfterJoin, dmVars
  <1>6. ASSUME NEW c \in TcpAddrs, NEW ch \in Channels, NEW t \in Tokens,
               StartEchoTest(c, ch, t)
        PROVE  TypeOK'
    BY <1>6, IssueTokenEffect
    DEF TypeOK, StartEchoTest, OpenChannel, SessionAfterJoin, dmVars
  <1>7. ASSUME NEW ch \in Channels, CreateChannel(ch)
        PROVE  TypeOK'
    BY <1>7 DEF TypeOK, CreateChannel, OpenChannel, clientVars, dmVars,
                tokenVars, IssuedTokens
  <1>8. ASSUME NEW ch \in Channels, ChannelAges(ch)
        PROVE  TypeOK'
    BY <1>8 DEF TypeOK, ChannelAges, clientVars, dmVars, tokenVars, IssuedTokens
  <1>9. ASSUME NEW t \in Tokens, TokenAges(t)
        PROVE  TypeOK'
    BY <1>9 DEF TypeOK, TokenAges, clientVars, dmVars, channelVars, IssuedTokens
  <1>10. ASSUME NEW t \in Tokens, NEW a \in UdpAddrs, RegisterUdpByToken(t, a)
         PROVE  TypeOK'
    <2>1. /\ t \in IssuedTokens
          /\ udpTokens[t].tcp \in TcpAddrs
          /\ udpTokens[t].ch \in Channels
      BY <1>10, IssuedTokenInfo DEF RegisterUdpByToken
    <2> QED
      BY <1>10, <2>1
      DEF TypeOK, RegisterUdpByToken, CachePeers, PeersAfterHello, dmVars, IssuedTokens
  <1>11. ASSUME CleanupEmptyChannels
         PROVE  TypeOK'
    <2>1. /\ udpTokens' \in [Tokens -> TokenInfo \union {NoToken}]
          /\ young' \subseteq IssuedTokens'
      BY <1>11, KeepTokensEffect DEF CleanupEmptyChannels
    <2> QED
      BY <1>11, <2>1
      DEF TypeOK, CleanupEmptyChannels, DropChannels, ReapableChannels, clientVars, dmVars
  <1>12. CASE UNCHANGED vars
    BY <1>12 DEF TypeOK, vars, IssuedTokens
  <1> QED
    BY <1>1, <1>2, <1>3, <1>4, <1>5, <1>6, <1>7, <1>8, <1>9, <1>10, <1>11,
       <1>12 DEF Next

(* The registry's type invariant holds in every reachable state. *)
THEOREM TypeCorrect == Spec => []TypeOK
  <1>1. Init => TypeOK
    BY ChannelAssumption DEF Init, TypeOK, Channels
  <1> QED
    BY <1>1, TypeStep, PTL DEF Spec

-----------------------------------------------------------------------------
(***************************************************************************)
(* Voice isolation.  The relay's fan-out lists only addresses of present   *)
(* members; that needs the tokens to follow membership (a hello is what    *)
(* adds an address) and the cache to follow the registry.                  *)
(***************************************************************************)
Isolation ==
    /\ TokensFollowMembership
    /\ CacheCoherent
    /\ VoiceOnlyToMembers

(* What a leave and a disconnect have in common. *)
Departure(c) ==
    /\ c \in clients
    /\ clients' \in {clients, clients \ {c}}
    /\ channel' = [channel EXCEPT ![c] = None]
    /\ udpAddr' = [udpAddr EXCEPT ![c] = None]
    /\ KeepTokens(TokensOfOthers(c))
    /\ session' = session
    /\ \/ channel[c] = None /\ UNCHANGED <<channelVars, peerCache>>
       \/ channel[c] # None /\ VacateChannel(c, channel[c])

(* A leave and a disconnect are departures. *)
LEMMA DeparturesDepart ==
  ASSUME NEW c, RemoveClient(c) \/ LeaveChannel(c)
  PROVE  Departure(c)
  BY DEF RemoveClient, LeaveChannel, Departure

(* The members of a channel after c departed: c itself is in no channel. *)
LEMMA DepartureMembers ==
  ASSUME TypeOK, NEW c \in TcpAddrs, Departure(c), NEW ch \in Channels
  PROVE  /\ Members(ch)' = Members(ch) \ {c}
         /\ \A d \in Members(ch) \ {c} : udpAddr'[d] = udpAddr[d]
  BY AddressAssumption DEF TypeOK, Departure, Members

(* The channel tables after c departed: c's address is gone from the       *)
(* channel c was in, and no other channel is touched.                      *)
LEMMA DepartureChannels ==
  ASSUME TypeOK, CacheCoherent, NEW c \in TcpAddrs, Departure(c),
         NEW ch \in Channels
  PROVE  /\ participants'[ch] = IF ch = channel[c] THEN PeersWithout(c, ch)
                                ELSE participants[ch]
         /\ peerCache'[ch] = participants'[ch]
         /\ ch \in channels' <=> ch \in channels /\ ~(ch = channel[c] /\ DestroyedBy(c, ch))
  <1>1. CASE channel[c] = None
    BY <1>1, AddressAssumption
    DEF TypeOK, Departure, CacheCoherent, channelVars
  <1>2. CASE channel[c] # None
    <2>1. channel[c] \in Channels
      BY <1>2 DEF TypeOK
    <2> QED
      BY <1>2, <2>1 DEF TypeOK, Departure, CacheCoherent, VacateChannel,
                        CachePeers, DropChannels
  <1> QED
    BY <1>1, <1>2

(* A departure preserves isolation. *)
LEMMA DepartureIsolation ==
  ASSUME TypeOK, Isolation, NEW c \in TcpAddrs, Departure(c)
  PROVE  Isolation'
  <1> USE DEF Isolation
  <1>1. TokensFollowMembership'
    <2>1. /\ IssuedTokens' = TokensOfOthers(c)
          /\ \A t \in TokensOfOthers(c) : udpTokens'[t] = udpTokens[t]
      BY KeepTokensEffect DEF Departure, TokensOfOthers
    <2>2. ASSUME NEW t \in TokensOfOthers(c)
          PROVE  TokenLive(t)'
      <3>1. /\ t \in IssuedTokens
            /\ udpTokens[t].tcp # c
            /\ TokenLive(t)
        BY DEF TokensOfOthers, TokensFollowMembership
      <3> QED
        BY <2>1, <3>1 DEF TypeOK, TokenLive, Departure
    <2> QED
      BY <2>1, <2>2 DEF TokensFollowMembership, TokensOfOthers
  <1>2. CacheCoherent'
    <2> SUFFICES ASSUME NEW ch \in Channels, ch \notin channels'
                 PROVE  peerCache'[ch] = {}
      BY DepartureChannels DEF CacheCoherent
    <2>1. CASE ch \in channels
      BY <2>1, DepartureChannels DEF DestroyedBy
    <2>2. CASE ch \notin channels
      <3>1. participants[ch] = {}
        BY <2>2 DEF CacheCoherent
      <3> QED
        BY <2>2, <3>1, DepartureChannels DEF PeersWithout
    <2> QED
      BY <2>1, <2>2
  <1>3. VoiceOnlyToMembers'
    <2> SUFFICES ASSUME NEW ch \in Channels, NEW a \in peerCache'[ch]
                 PROVE  \E d \in Members(ch)' : udpAddr'[d] = a
      BY DEF VoiceOnlyToMembers
    <2>1. /\ a \in peerCache[ch]
          /\ ch = channel[c] => a # udpAddr[c]
      <3>1. /\ participants'[ch] = IF ch = channel[c] THEN PeersWithout(c, ch)
                                   ELSE participants[ch]
            /\ peerCache'[ch] = participants'[ch]
        BY DepartureChannels
      <3>2. peerCache[ch] = participants[ch]
        BY DEF CacheCoherent
      <3> QED
        BY <3>1, <3>2 DEF PeersWithout
    <2>2. PICK d \in Members(ch) : udpAddr[d] = a
      BY <2>1 DEF VoiceOnlyToMembers
    <2>3. d # c
      BY <2>1, <2>2 DEF Members
    <2> QED
      BY <2>2, <2>3, DepartureMembers
  <1> QED
    BY <1>1, <1>2, <1>3

(* Joining a channel, or opening an echo channel and entering it. *)
LEMMA EnterIsolation ==
  ASSUME TypeOK, Isolation,
         NEW c \in TcpAddrs, NEW ch \in Channels, NEW t \in Tokens,
         JoinChannel(c, ch, t) \/ StartEchoTest(c, ch, t)
  PROVE  Isolation'
  <1> USE DEF Isolation
  <1>1. /\ c \in clients
        /\ clients' = clients
        /\ channel[c] = None
        /\ channel' = [channel EXCEPT ![c] = ch]
        /\ udpAddr' = udpAddr
        /\ peerCache' = peerCache
        /\ participants' = participants
        /\ channels \subseteq channels'
        /\ IssueToken(t, c, ch)
    <2>1. CASE JoinChannel(c, ch, t)
      BY <2>1 DEF JoinChannel
    <2>2. CASE StartEchoTest(c, ch, t)
      <3>1. participants[ch] = {}
        BY <2>2 DEF StartEchoTest, OpenChannel, CacheCoherent
      <3>2. participants' = participants
        BY <2>2, <3>1 DEF StartEchoTest, OpenChannel, TypeOK
      <3> QED
        BY <2>2, <3>2 DEF StartEchoTest, OpenChannel
    <2> QED
      BY <2>1, <2>2
  <1>2. TokensFollowMembership'
    <2>1. /\ IssuedTokens' = IssuedTokens \union {t}
          /\ t \notin IssuedTokens
          /\ udpTokens'[t] = [tcp |-> c, ch |-> ch]
          /\ \A u \in IssuedTokens : udpTokens'[u] = udpTokens[u]
      BY <1>1, IssueTokenEffect
    <2>2. ASSUME NEW u \in IssuedTokens
          PROVE  TokenLive(u)' /\ udpTokens[u].tcp # c
      <3>1. TokenLive(u) /\ udpTokens[u].ch \in Channels
        BY IssuedTokenInfo DEF TokensFollowMembership
      <3>2. udpTokens[u].tcp # c
        BY <1>1, <3>1, AddressAssumption DEF TokenLive
      <3> QED
        BY <1>1, <2>1, <3>1, <3>2 DEF TokenLive, TypeOK
    <2>3. TokenLive(t)'
      BY <1>1, <2>1 DEF TokenLive, TypeOK
    <2> QED
      BY <2>1, <2>2, <2>3 DEF TokensFollowMembership
  <1>3. CacheCoherent'
    BY <1>1 DEF CacheCoherent
  <1>4. VoiceOnlyToMembers'
    <2> SUFFICES ASSUME NEW b \in Channels, NEW a \in peerCache[b]
                 PROVE  \E d \in Members(b)' : udpAddr[d] = a
      BY <1>1 DEF VoiceOnlyToMembers
    <2>1. PICK d \in Members(b) : udpAddr[d] = a
      BY DEF VoiceOnlyToMembers
    <2>2. d \in Members(b)'
      BY <1>1, <2>1, AddressAssumption DEF Members, TypeOK
    <2> QED
      BY <2>1, <2>2
  <1> QED
    BY <1>2, <1>3, <1>4

(* A hello registers its sender's address in the channel it is in. *)
LEMMA HelloIsolation ==
  ASSUME TypeOK, Isolation, NEW t \in Tokens, NEW a \in UdpAddrs,
         RegisterUdpByToken(t, a)
  PROVE  Isolation'
  <1> USE DEF Isolation
  <1> DEFINE c  == udpTokens[t].tcp
             ch == udpTokens[t].ch
  <1>1. /\ t \in IssuedTokens
        /\ c \in TcpAddrs
        /\ ch \in Channels
        /\ c \in Members(ch)
    BY IssuedTokenInfo
    DEF RegisterUdpByToken, TokensFollowMembership, TokenLive, Members
  <1>2. /\ udpAddr' = [udpAddr EXCEPT ![c] = a]
        /\ \A b \in Channels : b # ch => participants'[b] = participants[b]
                                         /\ peerCache'[b] = peerCache[b]
        /\ participants'[ch] = PeersAfterHello(c, ch, a)
        /\ peerCache'[ch] = PeersAfterHello(c, ch, a)
        /\ channels' = channels
        /\ \A b \in Channels : Members(b)' = Members(b)
    BY <1>1 DEF RegisterUdpByToken, CachePeers, TypeOK, Members
  <1>3. TokensFollowMembership'
    BY DEF RegisterUdpByToken, TokensFollowMembership, TokenLive, IssuedTokens
  <1>4. CacheCoherent'
    BY <1>1, <1>2 DEF CacheCoherent, PeersAfterHello
  <1>5. VoiceOnlyToMembers'
    <2> SUFFICES ASSUME NEW b \in Channels, NEW x \in peerCache'[b]
                 PROVE  \E d \in Members(b) : udpAddr'[d] = x
      BY <1>2 DEF VoiceOnlyToMembers
    <2>1. CASE b = ch /\ x = a
      BY <1>1, <1>2, <2>1 DEF TypeOK
    <2>2. CASE ~(b = ch /\ x = a)
      <3>1. /\ x \in peerCache[b]
            /\ b = ch => x # udpAddr[c]
        <4>1. CASE b = ch
          <5>1. CASE ch \in channels
            BY <1>1, <1>2, <2>2, <4>1, <5>1 DEF CacheCoherent, PeersAfterHello
          <5>2. CASE ch \notin channels
            BY <1>1, <1>2, <2>2, <4>1, <5>2 DEF CacheCoherent, PeersAfterHello
          <5> QED
            BY <5>1, <5>2
        <4>2. CASE b # ch
          BY <1>2, <4>2
        <4> QED
          BY <4>1, <4>2
      <3>2. PICK d \in Members(b) : udpAddr[d] = x
        BY <3>1 DEF VoiceOnlyToMembers
      <3>3. d # c
        BY <1>1, <3>1, <3>2 DEF Members
      <3> QED
        BY <1>1, <1>2, <3>2, <3>3 DEF TypeOK, Members
    <2> QED
      BY <2>1, <2>2
  <1> QED
    BY <1>3, <1>4, <1>5

(* Maintenance preserves isolation; it expires no token, since every       *)
(* issued token is live.                                                   *)
LEMMA CleanupIsolation ==
  ASSUME TypeOK, Isolation, CleanupEmptyChannels
  PROVE  Isolation'
  <1> USE DEF Isolation
  <1> DEFINE kept == {t \in IssuedTokens :
                        /\ udpTokens[t].ch \notin ReapableChannels
                        /\ TokenLive(t) \/ t \in young}
  <1>1. /\ IssuedTokens' = kept
        /\ \A t \in kept : udpTokens'[t] = udpTokens[t]
    BY KeepTokensEffect DEF CleanupEmptyChannels
  <1>2. TokensFollowMembership'
    BY <1>1 DEF CleanupEmptyChannels, TokensFollowMembership, TokenLive, clientVars
  <1>3. CacheCoherent'
    BY DEF CleanupEmptyChannels, DropChannels, CacheCoherent, ReapableChannels
  <1>4. VoiceOnlyToMembers'
    BY DEF CleanupEmptyChannels, VoiceOnlyToMembers, Members, clientVars
  <1> QED
    BY <1>2, <1>3, <1>4

(* Every step preserves isolation. *)
LEMMA IsolationStep == TypeOK /\ Isolation /\ [Next]_vars => Isolation'
  <1> SUFFICES ASSUME TypeOK, Isolation, [Next]_vars
               PROVE  Isolation'
    OBVIOUS
  <1>1. ASSUME NEW c \in TcpAddrs, RegisterClient(c)
        PROVE  Isolation'
    <2>1. \A ch \in Channels : /\ Members(ch)' = Members(ch)
                               /\ \A d \in Members(ch) : udpAddr'[d] = udpAddr[d]
      BY <1>1, AddressAssumption DEF RegisterClient, Members, TypeOK
    <2>2. TokensFollowMembership'
      <3>1. \A t \in IssuedTokens : TokenLive(t)'
        BY <1>1, IssuedTokenInfo
        DEF RegisterClient, Isolation, TokensFollowMembership, TokenLive,
            tokenVars, TypeOK
      <3> QED
        BY <1>1, <3>1 DEF RegisterClient, Isolation, TokensFollowMembership,
                          IssuedTokens, tokenVars
    <2>3. CacheCoherent' /\ VoiceOnlyToMembers'
      BY <1>1, <2>1 DEF RegisterClient, Isolation, CacheCoherent,
                        VoiceOnlyToMembers, channelVars
    <2> QED
      BY <2>2, <2>3 DEF Isolation
  <1>2. ASSUME NEW c \in TcpAddrs, RemoveClient(c) \/ LeaveChannel(c)
        PROVE  Isolation'
    BY <1>2, DeparturesDepart, DepartureIsolation
  <1>3. ASSUME NEW ch \in Channels, CreateChannel(ch)
        PROVE  Isolation'
    <2>1. participants' = participants
      BY <1>3 DEF CreateChannel, OpenChannel, Isolation, CacheCoherent, TypeOK
    <2>2. /\ channels \subseteq channels'
          /\ UNCHANGED <<clients, channel, udpAddr, udpTokens, peerCache>>
      BY <1>3 DEF CreateChannel, OpenChannel, clientVars, tokenVars
    <2>3. CacheCoherent'
      BY <2>1, <2>2 DEF Isolation, CacheCoherent
    <2>4. TokensFollowMembership' /\ VoiceOnlyToMembers'
      BY <2>2 DEF Isolation, VoiceOnlyToMembers, TokensFollowMembership,
                  TokenLive, Members, IssuedTokens
    <2> QED
      BY <2>3, <2>4 DEF Isolation
  <1>4. CASE \/ \E c \in TcpAddrs, k \in PubKeys : SetPubkey(c, k)
             \/ \E ch \in Channels : ChannelAges(ch)
             \/ \E t \in Tokens : TokenAges(t)
             \/ UNCHANGED vars
    <2>1. UNCHANGED <<clients, channel, udpAddr, channels, participants,
                      udpTokens, peerCache>>
      BY <1>4 DEF SetPubkey, ChannelAges, TokenAges, vars, clientVars,
                  channelVars, tokenVars
    <2> QED
      BY <2>1 DEF Isolation, CacheCoherent, VoiceOnlyToMembers,
                  TokensFollowMembership, TokenLive, Members, IssuedTokens
  <1> QED
    BY <1>1, <1>2, <1>3, <1>4, EnterIsolation, HelloIsolation,
       CleanupIsolation DEF Next

(* Voice isolation, for every instance: tokens follow membership, the      *)
(* cache follows the registry, and voice is fanned out to members only.    *)
THEOREM VoiceIsolation ==
  Spec => [](TokensFollowMembership /\ CacheCoherent /\ VoiceOnlyToMembers)
  <1>1. Init => Isolation
    BY DEF Init, Isolation, TokensFollowMembership, CacheCoherent,
           VoiceOnlyToMembers, IssuedTokens
  <1>2. Spec => []Isolation
    BY <1>1, IsolationStep, TypeCorrect, PTL DEF Spec
  <1> QED
    BY <1>2, PTL DEF Isolation

(* Tokens, for every instance: an issued token is its holder's only one    *)
(* and admits to the channel the holder is in now.                         *)
COROLLARY TokensFollow == Spec => []TokensFollowMembership
  BY VoiceIsolation, PTL

(* The peer cache, for every instance: what the relay reads without the    *)
(* lock are the registered addresses of each channel.                      *)
COROLLARY CacheFollows == Spec => []CacheCoherent
  BY VoiceIsolation, PTL

-----------------------------------------------------------------------------
(***************************************************************************)
(* Forward secrecy of the voice keys.                                      *)
(***************************************************************************)
Secrecy == ForwardSecrecy /\ UnoccupiedKeysUnknown

(* Only c's membership changes when c enters a channel. *)
LEMMA EnterMembers ==
  ASSUME TypeOK, NEW c \in TcpAddrs, NEW ch \in Channels, NEW t \in Tokens,
         JoinChannel(c, ch, t) \/ StartEchoTest(c, ch, t), NEW b \in Channels
  PROVE  Members(b)' = IF b = ch THEN Members(b) \union {c} ELSE Members(b)
  BY AddressAssumption DEF JoinChannel, StartEchoTest, Members, TypeOK

(* A departure leaves no key behind: the last member to go takes the last  *)
(* address with it, so the channel is destroyed unless it is persistent.   *)
LEMMA DepartureSecrecy ==
  ASSUME TypeOK, Isolation, Secrecy, NEW c \in TcpAddrs, Departure(c)
  PROVE  Secrecy'
  <1>1. CacheCoherent
    BY DEF Isolation
  <1>2. \A ch \in channels' : ch \in Channels /\ ch \in channels
    <2>1. channels' \subseteq channels
      BY DEF Departure, VacateChannel, DropChannels, channelVars
    <2> QED
      BY <2>1 DEF TypeOK
  <1>3. \A ch \in channels' : keyHolders'[ch] = keyHolders[ch]
    <2>1. CASE channel[c] = None
      BY <2>1, AddressAssumption DEF Departure, channelVars
    <2>2. CASE channel[c] # None
      BY <2>2, <1>2 DEF Departure, VacateChannel, DropChannels, TypeOK
    <2> QED
      BY <2>1, <2>2
  <1>4. \A ch \in channels' : Members(ch)' = Members(ch) \ {c}
    BY <1>2, DepartureMembers
  <1>5. ForwardSecrecy'
    <2> SUFFICES ASSUME NEW ch \in channels', Members(ch)' # {}
                 PROVE  keyHolders'[ch] \subseteq session'[ch]
      BY DEF ForwardSecrecy, Occupied
    <2>1. Members(ch) # {}
      BY <1>4
    <2> QED
      BY <1>2, <1>3, <2>1 DEF Secrecy, ForwardSecrecy, Occupied, Departure
  <1>6. UnoccupiedKeysUnknown'
    <2> SUFFICES ASSUME NEW ch \in channels' \ Persistent, Members(ch)' = {}
                 PROVE  keyHolders'[ch] = {}
      BY DEF UnoccupiedKeysUnknown, Occupied
    <2>1. CASE Members(ch) = {}
      BY <1>2, <1>3, <2>1 DEF Secrecy, UnoccupiedKeysUnknown, Occupied
    <2>2. CASE Members(ch) # {}
      <3>1. Members(ch) = {c} /\ channel[c] = ch
        BY <1>4, <2>2 DEF Members
      <3>2. PeersWithout(c, ch) = {}
        <4>1. \A a \in peerCache[ch] : a = udpAddr[c]
          BY <1>2, <3>1 DEF Isolation, VoiceOnlyToMembers
        <4> QED
          BY <1>1, <1>2, <4>1 DEF PeersWithout, CacheCoherent
      <3>3. ch \notin channels'
        BY <1>1, <1>2, <3>1, <3>2, DepartureChannels DEF DestroyedBy
      <3> QED
        BY <3>3
    <2> QED
      BY <2>1, <2>2
  <1> QED
    BY <1>5, <1>6 DEF Secrecy

(* Every step preserves secrecy: a joiner of an unoccupied channel is      *)
(* handed a key that nobody else holds.                                    *)
LEMMA SecrecyStep == TypeOK /\ Isolation /\ Secrecy /\ [Next]_vars => Secrecy'
  <1> SUFFICES ASSUME TypeOK, Isolation, Secrecy, [Next]_vars
               PROVE  Secrecy'
    OBVIOUS
  <1>1. ASSUME NEW c \in TcpAddrs, RegisterClient(c)
        PROVE  Secrecy'
    <2>1. \A ch \in Channels : Members(ch)' = Members(ch)
      BY <1>1, AddressAssumption DEF RegisterClient, Members, TypeOK
    <2> QED
      BY <1>1, <2>1 DEF RegisterClient, channelVars, Secrecy, ForwardSecrecy,
                        UnoccupiedKeysUnknown, Occupied, TypeOK
  <1>2. ASSUME NEW c \in TcpAddrs, RemoveClient(c) \/ LeaveChannel(c)
        PROVE  Secrecy'
    BY <1>2, DeparturesDepart, DepartureSecrecy
  <1>3. ASSUME NEW c \in TcpAddrs, NEW ch \in Channels, NEW t \in Tokens,
               JoinChannel(c, ch, t) \/ StartEchoTest(c, ch, t)
        PROVE  Secrecy'
    <2>1. \A b \in Channels :
             Members(b)' = IF b = ch THEN Members(b) \union {c} ELSE Members(b)
      BY <1>3, EnterMembers
    <2>2. /\ \A b \in channels' : b # ch => b \in channels
          /\ \A b \in Channels : b # ch => /\ keyHolders'[b] = keyHolders[b]
                                           /\ session'[b] = session[b]
      BY <1>3 DEF JoinChannel, StartEchoTest, OpenChannel, TypeOK
    <2>3. keyHolders'[ch] \subseteq session'[ch]
      <3>1. session'[ch] = SessionAfterJoin(c, ch)
        BY <1>3 DEF JoinChannel, StartEchoTest, TypeOK
      <3>2. CASE StartEchoTest(c, ch, t)
        BY <3>1, <3>2 DEF StartEchoTest, OpenChannel, SessionAfterJoin, TypeOK
      <3>3. CASE JoinChannel(c, ch, t)
        <4>1. keyHolders'[ch] = HoldersAfterJoin(c, ch) /\ ch \in channels
          BY <3>3 DEF JoinChannel, TypeOK
        <4>2. CASE Occupied(ch)
          BY <3>1, <4>1, <4>2 DEF HoldersAfterJoin, SessionAfterJoin, Secrecy,
                                  ForwardSecrecy
        <4>3. CASE ~Occupied(ch)
          BY <3>1, <4>1, <4>3 DEF HoldersAfterJoin, SessionAfterJoin, Secrecy,
                                  UnoccupiedKeysUnknown
        <4> QED
          BY <4>2, <4>3
      <3> QED
        BY <1>3, <3>2, <3>3
    <2>4. channels' \subseteq Channels
      BY <1>3 DEF JoinChannel, StartEchoTest, OpenChannel, TypeOK
    <2>5. ForwardSecrecy'
      BY <2>1, <2>2, <2>3, <2>4 DEF Secrecy, ForwardSecrecy, Occupied
    <2>6. UnoccupiedKeysUnknown'
      BY <2>1, <2>2, <2>4 DEF Secrecy, UnoccupiedKeysUnknown, Occupied
    <2> QED
      BY <2>5, <2>6 DEF Secrecy
  <1>4. ASSUME NEW ch \in Channels, CreateChannel(ch)
        PROVE  Secrecy'
    <2>1. /\ \A b \in channels' : b # ch => b \in channels
          /\ keyHolders' = [keyHolders EXCEPT ![ch] = {}]
          /\ UNCHANGED <<clients, channel, session>>
      BY <1>4 DEF CreateChannel, OpenChannel, clientVars
    <2> QED
      BY <2>1 DEF TypeOK, Secrecy, ForwardSecrecy, UnoccupiedKeysUnknown,
                  Occupied, Members
  <1>5. ASSUME CleanupEmptyChannels
        PROVE  Secrecy'
    <2>1. /\ channels' = channels \ ReapableChannels
          /\ \A ch \in channels' : keyHolders'[ch] = keyHolders[ch]
          /\ UNCHANGED <<clients, channel, session>>
      BY <1>5 DEF CleanupEmptyChannels, DropChannels, clientVars, TypeOK
    <2> QED
      BY <2>1 DEF Secrecy, ForwardSecrecy, UnoccupiedKeysUnknown, Occupied, Members
  <1>6. CASE \/ \E c \in TcpAddrs, k \in PubKeys : SetPubkey(c, k)
             \/ \E ch \in Channels : ChannelAges(ch)
             \/ \E t \in Tokens : TokenAges(t)
             \/ \E t \in Tokens, a \in UdpAddrs : RegisterUdpByToken(t, a)
             \/ UNCHANGED vars
    <2>1. UNCHANGED <<clients, channel, channels, keyHolders, session>>
      BY <1>6 DEF SetPubkey, ChannelAges, TokenAges, RegisterUdpByToken, vars,
                  clientVars, channelVars
    <2> QED
      BY <2>1 DEF Secrecy, ForwardSecrecy, UnoccupiedKeysUnknown, Occupied, Members
  <1> QED
    BY <1>1, <1>2, <1>3, <1>4, <1>5, <1>6 DEF Next

(* Forward secrecy for every instance: nobody who left before the present  *)
(* session of a channel was handed the key the session uses.               *)
THEOREM KeysAreForwardSecret == Spec => []ForwardSecrecy
  <1>1. Init => Secrecy
    BY DEF Init, Secrecy, ForwardSecrecy, UnoccupiedKeysUnknown, Occupied, Members
  <1>2. Spec => []Isolation
    BY VoiceIsolation, PTL DEF Isolation
  <1>3. Spec => []Secrecy
    BY <1>1, <1>2, SecrecyStep, TypeCorrect, PTL DEF Spec
  <1> QED
    BY <1>3, PTL DEF Secrecy

-----------------------------------------------------------------------------
(* The direct-message index, for every instance: a key is routed only to a *)
(* connected client that announced it last.                                *)
THEOREM DmRoutesAreSound == Spec => []DmRouteSound
  <1>1. Init => DmRouteSound
    BY DEF Init, DmRouteSound
  <1>2. TypeOK /\ DmRouteSound /\ [Next]_vars => DmRouteSound'
    <2> SUFFICES ASSUME TypeOK, DmRouteSound, [Next]_vars
                 PROVE  DmRouteSound'
      OBVIOUS
    <2>1. ASSUME NEW c \in TcpAddrs, RegisterClient(c)
          PROVE  DmRouteSound'
      BY <2>1 DEF RegisterClient, DmRouteSound, TypeOK
    <2>2. ASSUME NEW c \in TcpAddrs, RemoveClient(c)
          PROVE  DmRouteSound'
      BY <2>2 DEF RemoveClient, IndexWithout, DmRouteSound, TypeOK
    <2>3. ASSUME NEW c \in TcpAddrs, NEW k \in PubKeys, SetPubkey(c, k)
          PROVE  DmRouteSound'
      BY <2>3, AddressAssumption DEF SetPubkey, clientVars, DmRouteSound, TypeOK
    <2>4. CASE UNCHANGED <<clients, pubkey, pubkeyIndex>>
      BY <2>4 DEF DmRouteSound
    <2> QED
      BY <2>1, <2>2, <2>3, <2>4
      DEF Next, LeaveChannel, JoinChannel, StartEchoTest, CreateChannel,
          ChannelAges, TokenAges, RegisterUdpByToken, CleanupEmptyChannels,
          clientVars, dmVars, vars
  <1> QED
    BY <1>1, <1>2, TypeCorrect, PTL DEF Spec

-----------------------------------------------------------------------------
(***************************************************************************)
(* Completeness of the fan-out when every client has its own IP.           *)
(***************************************************************************)

(* A client's registered address is on its own IP (the check of            *)
(* register_udp_by_token), a client in no channel has none, and the key of *)
(* a channel that does not exist is nobody's.                              *)
AddressesOwned ==
    /\ \A c \in clients : udpAddr[c] # None => IpOf[udpAddr[c]] = IpOf[c]
    /\ \A c \in clients : channel[c] = None => udpAddr[c] = None
    /\ \A ch \in Channels \ channels : keyHolders[ch] = {}

Reach == AddressesOwned /\ VoiceReachesMembers

(* A departure removes from the fan-out only the departing client's own    *)
(* address.                                                                *)
LEMMA DepartureReach ==
  ASSUME TypeOK, Isolation, Reach, NEW c \in TcpAddrs, Departure(c)
  PROVE  Reach'
  <1>1. CacheCoherent /\ AddressesOwned
    BY DEF Isolation, Reach
  <1>2. /\ \A d \in clients' : d \in clients /\ d \in TcpAddrs
        /\ channel'[c] = None /\ udpAddr'[c] = None
        /\ \A d \in TcpAddrs \ {c} : channel'[d] = channel[d] /\ udpAddr'[d] = udpAddr[d]
    BY DEF Departure, TypeOK
  <1>3. \A ch \in Channels : keyHolders'[ch] \subseteq keyHolders[ch]
    BY DEF Departure, VacateChannel, DropChannels, channelVars, TypeOK
  <1>4. AddressesOwned'
    <2>1. \A ch \in Channels \ channels' : keyHolders'[ch] = {}
      BY <1>1 DEF Departure, VacateChannel, DropChannels, channelVars, TypeOK,
                  AddressesOwned
    <2> QED
      BY <1>1, <1>2, <2>1 DEF AddressesOwned
  <1>5. VoiceReachesMembers'
    <2> SUFFICES ASSUME DistinctIps, NEW d \in clients', channel'[d] # None,
                        d \in keyHolders'[channel'[d]], udpAddr'[d] # None
                 PROVE  udpAddr'[d] \in peerCache'[channel'[d]]
      BY DEF VoiceReachesMembers, DistinctIps
    <2>1. d # c /\ d \in clients /\ d \in TcpAddrs
      BY <1>2
    <2>2. /\ channel'[d] = channel[d]
          /\ udpAddr'[d] = udpAddr[d]
          /\ channel[d] \in Channels
      BY <1>2, <2>1 DEF TypeOK
    <2>3. udpAddr[d] \in peerCache[channel[d]]
      BY <1>3, <2>1, <2>2 DEF Reach, VoiceReachesMembers
    <2>4. udpAddr[c] # udpAddr[d]
      BY <1>1, <2>1, <2>2 DEF AddressesOwned, DistinctIps, Departure
    <2>5. /\ participants'[channel[d]] =
                IF channel[d] = channel[c] THEN PeersWithout(c, channel[d])
                ELSE participants[channel[d]]
          /\ peerCache'[channel[d]] = participants'[channel[d]]
      BY <1>1, <2>2, DepartureChannels
    <2>6. peerCache[channel[d]] = participants[channel[d]]
      BY <1>1, <2>2 DEF CacheCoherent
    <2> QED
      BY <2>2, <2>3, <2>4, <2>5, <2>6 DEF PeersWithout
  <1> QED
    BY <1>4, <1>5 DEF Reach

(* A hello replaces only the sender's own address. *)
LEMMA HelloReach ==
  ASSUME TypeOK, Isolation, Reach, NEW t \in Tokens, NEW a \in UdpAddrs,
         RegisterUdpByToken(t, a)
  PROVE  Reach'
  <1> DEFINE c  == udpTokens[t].tcp
             ch == udpTokens[t].ch
  <1>1. /\ t \in IssuedTokens
        /\ c \in TcpAddrs
        /\ c \in clients
        /\ ch \in Channels
        /\ channel[c] = ch
    BY IssuedTokenInfo
    DEF RegisterUdpByToken, Isolation, TokensFollowMembership, TokenLive
  <1>2. /\ UNCHANGED <<clients, channel, channels, keyHolders>>
        /\ IpOf[c] = IpOf[a]
        /\ udpAddr' = [udpAddr EXCEPT ![c] = a]
        /\ peerCache' = [peerCache EXCEPT ![ch] = PeersAfterHello(c, ch, a)]
    BY DEF RegisterUdpByToken, CachePeers
  <1>3. AddressesOwned'
    BY <1>1, <1>2, AddressAssumption DEF AddressesOwned, Reach, TypeOK
  <1>4. VoiceReachesMembers'
    <2> SUFFICES ASSUME DistinctIps, NEW d \in clients, channel[d] # None,
                        d \in keyHolders[channel[d]], udpAddr'[d] # None
                 PROVE  udpAddr'[d] \in peerCache'[channel[d]]
      BY <1>2 DEF VoiceReachesMembers, DistinctIps
    <2>1. channel[d] \in Channels /\ d \in TcpAddrs
      BY DEF TypeOK
    <2>2. channel[d] \in channels
      BY <2>1 DEF Reach, AddressesOwned
    <2>3. CASE d = c
      BY <1>1, <1>2, <2>2, <2>3 DEF PeersAfterHello, TypeOK
    <2>4. CASE d # c
      <3>1. udpAddr'[d] = udpAddr[d]
        BY <1>2, <2>1, <2>4 DEF TypeOK
      <3>2. udpAddr[d] \in peerCache[channel[d]]
        BY <3>1 DEF Reach, VoiceReachesMembers
      <3>3. udpAddr[c] # udpAddr[d]
        BY <1>1, <2>1, <2>4, <3>1 DEF Reach, AddressesOwned, DistinctIps
      <3>4. CASE channel[d] = ch
        BY <1>1, <1>2, <2>2, <3>1, <3>2, <3>3, <3>4
        DEF PeersAfterHello, Isolation, CacheCoherent, TypeOK
      <3>5. CASE channel[d] # ch
        BY <1>1, <1>2, <2>1, <3>1, <3>2, <3>5 DEF TypeOK
      <3> QED
        BY <3>4, <3>5
    <2> QED
      BY <2>3, <2>4
  <1> QED
    BY <1>3, <1>4 DEF Reach

(* Every step preserves reachability. *)
LEMMA ReachStep == TypeOK /\ Isolation /\ Reach /\ [Next]_vars => Reach'
  <1> SUFFICES ASSUME TypeOK, Isolation, Reach, [Next]_vars
               PROVE  Reach'
    OBVIOUS
  <1>1. ASSUME NEW c \in TcpAddrs, RegisterClient(c)
        PROVE  Reach'
    BY <1>1 DEF RegisterClient, channelVars, Reach, AddressesOwned,
                VoiceReachesMembers, DistinctIps, TypeOK
  <1>2. ASSUME NEW c \in TcpAddrs, RemoveClient(c) \/ LeaveChannel(c)
        PROVE  Reach'
    BY <1>2, DeparturesDepart, DepartureReach
  <1>3. ASSUME NEW c \in TcpAddrs, NEW ch \in Channels, NEW t \in Tokens,
               JoinChannel(c, ch, t) \/ StartEchoTest(c, ch, t)
        PROVE  Reach'
    <2>1. /\ c \in clients /\ channel[c] = None
          /\ UNCHANGED <<clients, udpAddr, peerCache>>
          /\ channel' = [channel EXCEPT ![c] = ch]
          /\ channels' = channels \union {ch}
      BY <1>3 DEF JoinChannel, StartEchoTest, OpenChannel
    <2>2. \A b \in Channels :
             /\ \A d \in keyHolders'[b] : d = c \/ d \in keyHolders[b]
             /\ b # ch => keyHolders'[b] = keyHolders[b]
      BY <1>3 DEF JoinChannel, HoldersAfterJoin, StartEchoTest, OpenChannel, TypeOK
    <2>3. udpAddr[c] = None
      BY <2>1 DEF Reach, AddressesOwned
    <2>4. AddressesOwned'
      BY <2>1, <2>2, <2>3 DEF Reach, AddressesOwned, TypeOK
    <2>5. VoiceReachesMembers'
      BY <2>1, <2>2, <2>3 DEF Reach, VoiceReachesMembers, DistinctIps, TypeOK
    <2> QED
      BY <2>4, <2>5 DEF Reach
  <1>4. ASSUME NEW ch \in Channels, CreateChannel(ch)
        PROVE  Reach'
    <2>1. /\ UNCHANGED <<clients, channel, udpAddr, peerCache>>
          /\ channels' = channels \union {ch}
          /\ keyHolders' = [keyHolders EXCEPT ![ch] = {}]
      BY <1>4 DEF CreateChannel, OpenChannel, clientVars
    <2> QED
      BY <2>1 DEF Reach, AddressesOwned, VoiceReachesMembers, DistinctIps, TypeOK
  <1>5. ASSUME CleanupEmptyChannels
        PROVE  Reach'
    <2>1. /\ UNCHANGED <<clients, channel, udpAddr, peerCache>>
          /\ channels' = channels \ ReapableChannels
          /\ \A ch \in Channels : keyHolders'[ch] =
                IF ch \in ReapableChannels THEN {} ELSE keyHolders[ch]
      BY <1>5 DEF CleanupEmptyChannels, DropChannels, clientVars
    <2> QED
      BY <2>1 DEF Reach, AddressesOwned, VoiceReachesMembers, DistinctIps, TypeOK
  <1>6. CASE \/ \E c \in TcpAddrs, k \in PubKeys : SetPubkey(c, k)
             \/ \E ch \in Channels : ChannelAges(ch)
             \/ \E t \in Tokens : TokenAges(t)
             \/ UNCHANGED vars
    <2>1. UNCHANGED <<clients, channel, udpAddr, channels, keyHolders, peerCache>>
      BY <1>6 DEF SetPubkey, ChannelAges, TokenAges, vars, clientVars, channelVars
    <2> QED
      BY <2>1 DEF Reach, AddressesOwned, VoiceReachesMembers, DistinctIps
  <1> QED
    BY <1>1, <1>2, <1>3, <1>4, <1>5, <1>6, HelloReach DEF Next

(* Completeness of the fan-out for every instance in which each client has *)
(* its own IP: an acknowledged member of the channel's current incarnation *)
(* is in it.                                                               *)
THEOREM VoiceReaches == Spec => []VoiceReachesMembers
  <1>1. Init => Reach
    BY DEF Init, Reach, AddressesOwned, VoiceReachesMembers
  <1>2. Spec => []Isolation
    BY VoiceIsolation, PTL DEF Isolation
  <1>3. Spec => []Reach
    BY <1>1, <1>2, ReachStep, TypeCorrect, PTL DEF Spec
  <1> QED
    BY <1>3, PTL DEF Reach

(* No step takes the channel away from a voice-registered member that      *)
(* stays in it, in every instance in which each client has its own IP.     *)
THEOREM VoiceChannelsSurvive == Spec => VoiceChannelSurvives
  <1> DEFINE Kept == DistinctIps =>
                       \A c \in clients \intersect clients' :
                           /\ channel[c] \in channels
                           /\ channel'[c] = channel[c]
                           /\ c \in keyHolders[channel[c]]
                           /\ udpAddr[c] # None
                           => channel[c] \in channels'
  <1>1. TypeOK /\ Isolation /\ Reach /\ [Next]_vars => [Kept]_vars
    <2> SUFFICES ASSUME TypeOK, Isolation, Reach, Next, DistinctIps,
                        NEW c \in clients \intersect clients',
                        channel[c] \in channels, channel'[c] = channel[c],
                        c \in keyHolders[channel[c]], udpAddr[c] # None
                 PROVE  channel[c] \in channels'
      OBVIOUS
    <2>1. /\ c \in TcpAddrs
          /\ channel[c] \in Channels
          /\ channel[c] # None
      BY AddressAssumption DEF TypeOK
    <2>2. udpAddr[c] \in participants[channel[c]]
      BY <2>1 DEF Reach, VoiceReachesMembers, Isolation, CacheCoherent
    <2>3. ASSUME NEW d \in TcpAddrs, RemoveClient(d) \/ LeaveChannel(d)
          PROVE  channel[c] \in channels'
      <3>1. Departure(d)
        BY <2>3, DeparturesDepart
      <3>2. d # c
        BY <2>1, <3>1 DEF Departure, TypeOK
      <3>3. udpAddr[d] # udpAddr[c]
        BY <2>1, <3>1, <3>2 DEF Departure, Reach, AddressesOwned, DistinctIps
      <3>4. ~DestroyedBy(d, channel[c])
        BY <2>2, <3>3 DEF DestroyedBy, PeersWithout
      <3> QED
        BY <2>1, <3>1, <3>4, DepartureChannels DEF Isolation
    <2>4. ASSUME CleanupEmptyChannels
          PROVE  channel[c] \in channels'
      BY <2>2, <2>4 DEF CleanupEmptyChannels, DropChannels, ReapableChannels
    <2>5. CASE channels \subseteq channels'
      BY <2>5
    <2> QED
      BY <2>3, <2>4, <2>5
      DEF Next, RegisterClient, SetPubkey, JoinChannel, StartEchoTest,
          CreateChannel, OpenChannel, ChannelAges, TokenAges,
          RegisterUdpByToken, channelVars
  <1>2. Init => Reach
    BY DEF Init, Reach, AddressesOwned, VoiceReachesMembers
  <1>3. Spec => []Isolation
    BY VoiceIsolation, PTL DEF Isolation
  <1>4. Spec => []Reach
    BY <1>2, <1>3, ReachStep, TypeCorrect, PTL DEF Spec
  <1>5. Spec => [][Kept]_vars
    BY <1>1, <1>3, <1>4, TypeCorrect, PTL DEF Spec
  <1> QED
    BY <1>5 DEF VoiceChannelSurvives

-----------------------------------------------------------------------------
(* Persistent channels, for every instance: they are never destroyed, and  *)
(* their members all hold the current key.                                 *)
THEOREM PersistentKeysAgree ==
  Spec => [](Persistent \subseteq channels /\ PersistentKeyAgreement)
  <1> DEFINE Agree == Persistent \subseteq channels /\ PersistentKeyAgreement
  <1>1. Init => Agree
    BY DEF Init, PersistentKeyAgreement, Members
  <1>2. TypeOK /\ Isolation /\ Agree /\ [Next]_vars => Agree'
    <2> SUFFICES ASSUME TypeOK, Isolation, Agree, [Next]_vars
                 PROVE  Agree'
      OBVIOUS
    <2>0. Persistent \subseteq Channels
      BY ChannelAssumption DEF Channels
    <2>1. ASSUME NEW c \in TcpAddrs, RegisterClient(c)
          PROVE  Agree'
      <3>1. \A ch \in Channels : Members(ch)' = Members(ch)
        BY <2>1, AddressAssumption DEF RegisterClient, Members, TypeOK
      <3> QED
        BY <2>0, <2>1, <3>1 DEF RegisterClient, channelVars, PersistentKeyAgreement
    <2>2. ASSUME NEW c \in TcpAddrs, RemoveClient(c) \/ LeaveChannel(c)
          PROVE  Agree'
      <3>1. Departure(c)
        BY <2>2, DeparturesDepart
      <3>2. \A ch \in Persistent : Members(ch)' \subseteq Members(ch)
        BY <2>0, <3>1, DepartureMembers
      <3>3. \A ch \in Persistent : keyHolders'[ch] = keyHolders[ch] /\ ch \in channels'
        BY <2>0, <3>1 DEF Departure, VacateChannel, DropChannels, DestroyedBy,
                          channelVars, TypeOK
      <3> QED
        BY <3>2, <3>3 DEF PersistentKeyAgreement
    <2>3. ASSUME NEW c \in TcpAddrs, NEW ch \in Channels, NEW t \in Tokens,
                 JoinChannel(c, ch, t) \/ StartEchoTest(c, ch, t)
          PROVE  Agree'
      <3>1. \A b \in Persistent :
               Members(b)' = IF b = ch THEN Members(b) \union {c} ELSE Members(b)
        BY <2>0, <2>3, EnterMembers
      <3>2. CASE StartEchoTest(c, ch, t)
        BY <2>0, <3>1, <3>2 DEF StartEchoTest, OpenChannel, PersistentKeyAgreement,
                                TypeOK
      <3>3. CASE JoinChannel(c, ch, t)
        BY <2>0, <3>1, <3>3 DEF JoinChannel, HoldersAfterJoin, Occupied,
                                PersistentKeyAgreement, TypeOK
      <3> QED
        BY <2>3, <3>2, <3>3
    <2>4. ASSUME NEW ch \in Channels, CreateChannel(ch)
          PROVE  Agree'
      BY <2>0, <2>4 DEF CreateChannel, OpenChannel, clientVars,
                        PersistentKeyAgreement, Members, TypeOK
    <2>5. ASSUME CleanupEmptyChannels
          PROVE  Agree'
      BY <2>0, <2>5 DEF CleanupEmptyChannels, DropChannels, ReapableChannels, clientVars,
                        PersistentKeyAgreement, Members, TypeOK
    <2>6. CASE \/ \E c \in TcpAddrs, k \in PubKeys : SetPubkey(c, k)
               \/ \E ch \in Channels : ChannelAges(ch)
               \/ \E t \in Tokens : TokenAges(t)
               \/ \E t \in Tokens, a \in UdpAddrs : RegisterUdpByToken(t, a)
               \/ UNCHANGED vars
      <3>1. UNCHANGED <<clients, channel, channels, keyHolders>>
        BY <2>6 DEF SetPubkey, ChannelAges, TokenAges, RegisterUdpByToken, vars,
                    clientVars, channelVars
      <3> QED
        BY <3>1 DEF PersistentKeyAgreement, Members
    <2> QED
      BY <2>1, <2>2, <2>3, <2>4, <2>5, <2>6 DEF Next
  <1>3. Spec => []Isolation
    BY VoiceIsolation, PTL DEF Isolation
  <1> QED
    BY <1>1, <1>2, <1>3, TypeCorrect, PTL DEF Spec

-----------------------------------------------------------------------------
(* A limit (0 = none) on the size of a set is kept by removing elements    *)
(* and by adding one while the limit is not reached.                       *)
LEMMA LimitKept ==
  ASSUME NEW S, IsFiniteSet(S), NEW T, NEW N \in Nat,
         N > 0 => Cardinality(S) <= N,
         \/ T \in SUBSET S
         \/ ~(N > 0 /\ Cardinality(S) >= N) /\ \E x : T = S \union {x}
  PROVE  N > 0 => Cardinality(T) <= N
  <1>1. Cardinality(S) \in Nat
    BY FS_CardinalityType
  <1>2. CASE T \in SUBSET S
    <2>1. Cardinality(T) <= Cardinality(S) /\ Cardinality(T) \in Nat
      BY <1>2, FS_Subset, FS_CardinalityType
    <2> QED
      BY <1>1, <2>1
  <1>3. ASSUME NEW x, T = S \union {x}, ~(N > 0 /\ Cardinality(S) >= N)
        PROVE  N > 0 => Cardinality(T) <= N
    <2>1. Cardinality(T) = Cardinality(S) \/ Cardinality(T) = Cardinality(S) + 1
      BY <1>3, FS_AddElement
    <2> QED
      BY <1>1, <1>3, <2>1
  <1> QED
    BY <1>2, <1>3

(* The limits, for every instance: neither the connected clients nor the   *)
(* existing channels ever exceed a configured limit.                       *)
THEOREM LimitsHold == Spec => []WithinLimits
  <1>1. Init => WithinLimits
    BY LimitAssumption, FS_EmptySet DEF Init, WithinLimits
  <1>2. TypeOK /\ WithinLimits /\ [Next]_vars => WithinLimits'
    <2> SUFFICES ASSUME TypeOK, WithinLimits, [Next]_vars
                 PROVE  WithinLimits'
      OBVIOUS
    <2>1. IsFiniteSet(clients) /\ IsFiniteSet(channels)
      BY ChannelAssumption, FS_Subset DEF TypeOK
    <2>2. \/ clients' \in SUBSET clients
          \/ ~ServerFull /\ \E c : clients' = clients \union {c}
      BY DEF Next, RegisterClient, RemoveClient, LeaveChannel, SetPubkey,
             JoinChannel, StartEchoTest, CreateChannel, ChannelAges, TokenAges,
             RegisterUdpByToken, CleanupEmptyChannels, clientVars, vars
    <2>3. \/ channels' \in SUBSET channels
          \/ ~ChannelLimitReached /\ \E ch : channels' = channels \union {ch}
      BY DEF Next, RegisterClient, RemoveClient, LeaveChannel, SetPubkey,
             JoinChannel, StartEchoTest, CreateChannel, OpenChannel,
             VacateChannel, DropChannels, ChannelAges, TokenAges, RegisterUdpByToken,
             CleanupEmptyChannels, channelVars, vars
    <2>4. MaxClients > 0 => Cardinality(clients') <= MaxClients
      BY <2>1, <2>2, LimitAssumption, LimitKept DEF ServerFull, WithinLimits
    <2>5. MaxChannels > 0 => Cardinality(channels') <= MaxChannels
      BY <2>1, <2>3, LimitAssumption, LimitKept DEF ChannelLimitReached, WithinLimits
    <2> QED
      BY <2>4, <2>5 DEF WithinLimits
  <1> QED
    BY <1>1, <1>2, TypeCorrect, PTL DEF Spec

(***************************************************************************)
(* The registry implements VoiceRooms.  This rests on the voice isolation  *)
(* above and on one more invariant: who is in no channel has no registered *)
(* address.                                                                *)
(***************************************************************************)


(* Who is not registered is in no channel; who is in none has no address. *)
OutsideSilent ==
    \A c \in TcpAddrs :
        /\ c \notin clients => channel[c] = None
        /\ channel[c] = None => udpAddr[c] = None

(* The table of issued tokens names channels, and a token is live. *)
LEMMA TokenHolderInChannel ==
  ASSUME TypeOK, Isolation, NEW t \in IssuedTokens
  PROVE  /\ udpTokens[t].tcp \in TcpAddrs
         /\ udpTokens[t].ch \in Channels
         /\ channel[udpTokens[t].tcp] = udpTokens[t].ch
         /\ udpTokens[t].ch # None
  BY IssuedTokenInfo, AddressAssumption
     DEF Isolation, TokensFollowMembership, TokenLive

(* No step gives an address to a client outside: only a hello gives one,   *)
(* and the holder of a token is in a channel.                              *)
LEMMA OutsideStep ==
  ASSUME TypeOK, Isolation, OutsideSilent, [Next]_vars
  PROVE  OutsideSilent'
  <1>1. ASSUME NEW c \in TcpAddrs, RegisterClient(c)
        PROVE  OutsideSilent'
    BY <1>1 DEF TypeOK, OutsideSilent, RegisterClient
  <1>2. ASSUME NEW c \in TcpAddrs, RemoveClient(c) \/ LeaveChannel(c)
        PROVE  OutsideSilent'
    BY <1>2 DEF TypeOK, OutsideSilent, RemoveClient, LeaveChannel
  <1>3. ASSUME NEW c \in TcpAddrs, NEW ch \in Channels, NEW t \in Tokens,
               JoinChannel(c, ch, t) \/ StartEchoTest(c, ch, t)
        PROVE  OutsideSilent'
    <2>1. ch # None
      BY AddressAssumption
    <2> QED
      BY <1>3, <2>1 DEF TypeOK, OutsideSilent, JoinChannel, StartEchoTest
  <1>4. ASSUME NEW t \in Tokens, NEW a \in UdpAddrs, RegisterUdpByToken(t, a)
        PROVE  OutsideSilent'
    <2>1. t \in IssuedTokens
      BY <1>4 DEF RegisterUdpByToken
    <2> QED
      BY <1>4, <2>1, TokenHolderInChannel DEF TypeOK, OutsideSilent, RegisterUdpByToken
  <1>5. CASE UNCHANGED clientVars
    BY <1>5 DEF OutsideSilent, clientVars
  <1>6. ASSUME NEW c \in TcpAddrs, NEW k \in PubKeys, SetPubkey(c, k)
        PROVE  UNCHANGED clientVars
    BY <1>6 DEF SetPubkey
  <1>7. ASSUME NEW ch \in Channels, CreateChannel(ch) \/ ChannelAges(ch)
        PROVE  UNCHANGED clientVars
    BY <1>7 DEF CreateChannel, ChannelAges
  <1>8. ASSUME NEW t \in Tokens, TokenAges(t)
        PROVE  UNCHANGED clientVars
    BY <1>8 DEF TokenAges
  <1>9. CleanupEmptyChannels => UNCHANGED clientVars
    BY DEF CleanupEmptyChannels
  <1>10. CASE UNCHANGED vars
    BY <1>10, <1>5 DEF vars, clientVars
  <1> QED
    BY <1>1, <1>2, <1>3, <1>4, <1>5, <1>6, <1>7, <1>8, <1>9, <1>10 DEF Next

-----------------------------------------------------------------------------
(***************************************************************************)
(* Every step of the registry is a step of the rooms, or does not show.    *)
(***************************************************************************)

(* A leave, and the disconnect of a client in a channel, is an exit. *)
LEMMA DepartureIsExit ==
  ASSUME TypeOK, Isolation, NEW c \in TcpAddrs, Departure(c), channel[c] # None
  PROVE  Voice!Exit(c)
  <1> DEFINE ch == channel[c]
  <1>1. ch \in Channels
    BY DEF TypeOK
  <1>2. /\ VacateChannel(c, ch)
        /\ peerCache' = [peerCache EXCEPT ![ch] = participants[ch] \ {udpAddr[c]}]
        /\ channels' = channels \ (IF DestroyedBy(c, ch) THEN {ch} ELSE {})
    BY DEF Departure, VacateChannel, CachePeers, DropChannels, PeersWithout
  <1>3. peerCache[ch] = participants[ch]
    BY <1>1 DEF Isolation, CacheCoherent
  <1>4. peerCache' = [peerCache EXCEPT ![channel[c]] = @ \ {udpAddr[c]}]
    BY <1>2, <1>3
  <1>5. peerCache'[ch] = PeersWithout(c, ch)
    BY <1>1, <1>2 DEF TypeOK, PeersWithout
  <1>6. channels' = channels \ {r \in {channel[c]} :
                                   peerCache'[r] = {} /\ r \notin Persistent}
    BY <1>2, <1>5 DEF DestroyedBy
  <1> QED
    BY <1>4, <1>6 DEF Departure, Voice!Exit

(* A client outside disconnects: nothing of it shows. *)
LEMMA OutsiderGoes ==
  ASSUME TypeOK, OutsideSilent, NEW c \in TcpAddrs, RemoveClient(c), channel[c] = None
  PROVE  UNCHANGED Voice!vars
  BY DEF TypeOK, OutsideSilent, RemoveClient, channelVars, Voice!vars

(* A hello that is accepted is a member that listens. *)
LEMMA HelloIsListen ==
  ASSUME TypeOK, Isolation, NEW t \in Tokens, NEW a \in UdpAddrs, RegisterUdpByToken(t, a)
  PROVE  \E c \in TcpAddrs : Voice!Listen(c, a)
  <1> DEFINE c == udpTokens[t].tcp
             ch == udpTokens[t].ch
  <1>1. t \in IssuedTokens
    BY DEF RegisterUdpByToken
  <1>2. c \in TcpAddrs /\ ch \in Channels /\ channel[c] = ch /\ ch # None
    BY <1>1, TokenHolderInChannel
  <1>3. /\ udpAddr' = [udpAddr EXCEPT ![c] = a]
        /\ peerCache' = [peerCache EXCEPT ![ch] = PeersAfterHello(c, ch, a)]
        /\ IpOf[c] = IpOf[a]
        /\ UNCHANGED <<channel, channels>>
    BY DEF RegisterUdpByToken, CachePeers
  <1>4. peerCache[ch] = participants[ch]
    BY <1>2 DEF Isolation, CacheCoherent
  <1>5. CASE ch \in channels
    BY <1>2, <1>3, <1>4, <1>5 DEF PeersAfterHello, Voice!Listen
  <1>6. CASE ch \notin channels
    <2>1. peerCache' = peerCache
      BY <1>2, <1>3, <1>4, <1>6 DEF PeersAfterHello, TypeOK
    <2> QED
      BY <1>2, <1>3, <1>6, <2>1 DEF Voice!Listen
  <1> QED
    BY <1>5, <1>6, <1>2

(* What the maintenance removes is empty, unoccupied and not persistent. *)
LEMMA CleanupIsClose ==
  ASSUME TypeOK, Isolation, OutsideSilent, CleanupEmptyChannels
  PROVE  Voice!Close(ReapableChannels)
  <1>1. ASSUME NEW r \in ReapableChannels
        PROVE  /\ peerCache[r] = {} /\ r \notin Persistent
               /\ \A c \in TcpAddrs : channel[c] # r
    <2>1. r \in Channels /\ participants[r] = {} /\ Members(r) = {} /\ r \notin Persistent
      BY DEF ReapableChannels, Occupied, TypeOK
    <2>2. r # None
      BY <2>1, AddressAssumption
    <2> QED
      BY <2>1, <2>2 DEF Isolation, CacheCoherent, OutsideSilent, Members
  <1>2. channels' = channels \ ReapableChannels /\ UNCHANGED <<channel, udpAddr, peerCache>>
    BY DEF CleanupEmptyChannels, DropChannels, clientVars
  <1> QED
    BY <1>1, <1>2 DEF Voice!Close

(* The step of each method, and of time, seen from the rooms. *)
LEMMA StepIsRoomStep ==
  ASSUME TypeOK, Isolation, OutsideSilent, [Next]_vars
  PROVE  [Voice!Next]_Voice!vars
  <1>1. ASSUME NEW c \in TcpAddrs, RegisterClient(c)
        PROVE  UNCHANGED Voice!vars
    BY <1>1 DEF TypeOK, OutsideSilent, RegisterClient, channelVars, Voice!vars
  <1>2. ASSUME NEW c \in TcpAddrs, RemoveClient(c) \/ LeaveChannel(c)
        PROVE  [Voice!Next]_Voice!vars
    <2>1. Departure(c)
      BY <1>2, DeparturesDepart
    <2>2. CASE channel[c] # None
      BY <2>1, <2>2, DepartureIsExit DEF Voice!Next
    <2>3. CASE channel[c] = None
      BY <1>2, <2>3, OutsiderGoes DEF LeaveChannel
    <2> QED
      BY <2>2, <2>3
  <1>3. ASSUME NEW c \in TcpAddrs, NEW ch \in Channels, NEW t \in Tokens,
               JoinChannel(c, ch, t)
        PROVE  Voice!Enter(c, ch)
    BY <1>3 DEF JoinChannel, Voice!Enter
  <1>4. ASSUME NEW c \in TcpAddrs, NEW ch \in Channels, NEW t \in Tokens,
               StartEchoTest(c, ch, t)
        PROVE  Voice!OpenAndEnter(c, ch)
    BY <1>4 DEF StartEchoTest, OpenChannel, Voice!OpenAndEnter
  <1>5. ASSUME NEW ch \in Channels, CreateChannel(ch)
        PROVE  Voice!Open(ch)
    BY <1>5 DEF CreateChannel, OpenChannel, clientVars, Voice!Open
  <1>6. ASSUME NEW t \in Tokens, NEW a \in UdpAddrs, RegisterUdpByToken(t, a)
        PROVE  Voice!Next
    BY <1>6, HelloIsListen DEF Voice!Next
  <1>7. CASE CleanupEmptyChannels
    <2>1. ReapableChannels \in SUBSET Channels
      BY DEF ReapableChannels, TypeOK
    <2> QED
      BY <1>7, <2>1, CleanupIsClose DEF Voice!Next
  <1>8. ASSUME \/ \E c \in TcpAddrs, k \in PubKeys : SetPubkey(c, k)
               \/ \E ch \in Channels : ChannelAges(ch)
               \/ \E t \in Tokens : TokenAges(t)
               \/ UNCHANGED vars
        PROVE  UNCHANGED Voice!vars
    BY <1>8 DEF SetPubkey, ChannelAges, TokenAges, clientVars, channelVars, vars, Voice!vars
  <1> QED
    BY <1>1, <1>2, <1>3, <1>4, <1>5, <1>6, <1>7, <1>8 DEF Next, Voice!Next

(* The registry implements the rooms: Init maps to Init, and every step,   *)
(* from a state in which tokens follow membership and the cache follows    *)
(* the registry, is a step of VoiceRooms or does not show.                 *)
THEOREM RegistryImplementsRooms == Spec => ImplementsVoiceRooms
  <1>1. Init => Voice!Init
    BY DEF Init, Voice!Init
  <1>2. Init => OutsideSilent
    BY DEF Init, OutsideSilent
  <1>3. Spec => []TypeOK
    BY TypeCorrect
  <1>4. Spec => []Isolation
    BY VoiceIsolation, PTL DEF Isolation
  <1>5. Spec => []OutsideSilent
    BY <1>2, <1>3, <1>4, OutsideStep, PTL DEF Spec
  <1> QED
    BY <1>1, <1>3, <1>4, <1>5, StepIsRoomStep, PTL
       DEF Spec, ImplementsVoiceRooms, Voice!Spec
=============================================================================
