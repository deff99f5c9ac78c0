------------------------------ MODULE UdpRelay ------------------------------
(***************************************************************************)
(* One worker of the UDP voice relay (relay_loop of crates/server/src/     *)
(* udp.rs) with its BatchSender.  Workers share nothing but the peer cache *)
(* of the registry, which the control plane replaces while they run.       *)
(*                                                                         *)
(* The cache is an arbitrary list of addresses per channel here; that it   *)
(* holds the right ones is ServerState's CacheCoherent.  Registration by a *)
(* hello is modelled in VoiceLink.                                         *)
(***************************************************************************)
EXTENDS Naturals, Sequences, SequencesExt

CONSTANTS
    Addrs,         \* UDP addresses
    VoiceChannels, \* channels that fan out
    EchoChannels,  \* channels with ECHO_CHANNEL_PREFIX
    Platforms,     \* "linux", "macos", "other": the build
    NoAddr         \* 0.0.0.0:0, never a registered address

(* What the parameters have to satisfy. *)
RelayAssumption ==
    /\ IsFiniteSet(Addrs) /\ NoAddr \notin Addrs
    /\ VoiceChannels \intersect EchoChannels = {}
    /\ Platforms \subseteq {"linux", "macos", "other"}

Channels == VoiceChannels \union EchoChannels

VARIABLES
    platform,
    unreachable,  \* addresses the kernel refuses to send to
    peers,        \* the registry's peer cache
    pc,           \* "recv", "send" or "sent"
    src,          \* the datagram's source
    channel,      \* its channel
    addrs,        \* the worker's peer buffer
    cachedAddrs,  \* BatchSender.cached_addrs, as its message headers have them
    out           \* the addresses the datagram went out to

vars == <<platform, unreachable, peers, pc, src, channel, addrs, cachedAddrs, out>>

\* The lists of distinct addresses.
PeerLists == UNION {SetToSeqs(S) : S \in SUBSET Addrs}

Init ==
    /\ platform \in Platforms
    /\ unreachable \in {{}} \union {{a} : a \in Addrs}
    /\ peers = [c \in Channels |-> <<>>]
    /\ pc = "recv"
    /\ src = NoAddr
    /\ channel \in Channels
    /\ addrs = <<>>
    /\ cachedAddrs = <<>>
    /\ out = {}

(* update_channel_peers: an echo channel has one member. *)
UpdateChannelPeers(c, list) ==
    /\ c \in EchoChannels => Len(list) <= 1
    /\ peers' = [peers EXCEPT ![c] = list]
    /\ UNCHANGED <<platform, unreachable, pc, src, channel, addrs, cachedAddrs, out>>

(* An echo channel reflects: nobody is excluded. *)
Exclude(from, c) == IF c \in EchoChannels THEN NoAddr ELSE from

(* filter: a list without one of its addresses. *)
Without(list, a) ==
    LET kept[i \in 0 .. Len(list)] ==
            IF i = 0 THEN <<>>
            ELSE IF list[i] = a THEN kept[i - 1] ELSE Append(kept[i - 1], list[i])
    IN  kept[Len(list)]

FillChannelPeers(c, exclude) == Without(peers[c], exclude)

(* A voice datagram comes in; the peers are read without a lock.  Hellos   *)
(* and datagrams without a channel id send nothing.                        *)
Receive(from, c) ==
    /\ pc \in {"recv", "sent"}
    /\ src' = from
    /\ channel' = c
    /\ addrs' = FillChannelPeers(c, Exclude(from, c))
    /\ pc' = "send"
    /\ out' = {}
    /\ UNCHANGED <<platform, unreachable, peers, cachedAddrs>>

\* Mutant: a peer set of the same size is taken for the same one.
PeerSetChangedBySize == Len(cachedAddrs) # Len(addrs)

PeerSetChanged == cachedAddrs # addrs

(* rebuild, when the peer set is not the one of the previous datagram. *)
Headers == IF PeerSetChanged THEN addrs ELSE cachedAddrs

(* The kernel sends a batch in order and stops at the first failure. *)
Batch(list) ==
    {list[i] : i \in {j \in DOMAIN list : \A k \in 1 .. j : list[k] \notin unreachable}}

(* A loop of try_send_to skips the failures. *)
OneByOne(list) == ToSet(list) \ unreachable

(* send_to_all.  A batch of which nothing was sent is an error, after      *)
(* which the macOS build sends one by one.                                 *)
SendToAll ==
    /\ pc = "send"
    /\ pc' = "sent"
    /\ \/ /\ addrs = <<>>
          /\ out' = {}
          /\ UNCHANGED cachedAddrs
       \/ /\ addrs # <<>> /\ platform = "other"
          /\ out' = OneByOne(addrs)
          /\ UNCHANGED cachedAddrs
       \/ /\ addrs # <<>> /\ platform = "linux"
          /\ cachedAddrs' = Headers
          /\ out' = Batch(Headers)
       \/ /\ addrs # <<>> /\ platform = "macos"
          /\ cachedAddrs' = Headers
          /\ out' = IF Batch(Headers) = {} THEN OneByOne(addrs) ELSE Batch(Headers)
    /\ UNCHANGED <<platform, unreachable, peers, src, channel, addrs>>

Next ==
    \/ \E c \in Channels, list \in PeerLists : UpdateChannelPeers(c, list)
    \/ \E from \in Addrs, c \in Channels : Receive(from, c)
    \/ SendToAll

Spec == Init /\ [][Next]_vars

-----------------------------------------------------------------------------
(* send_to_all with its reused headers: a datagram goes to the peers that  *)
(* were read for it and to nobody else, whatever channel and whatever peer *)
(* set the batch was built for before, and when all can be reached, to     *)
(* all; it returns to the address it came from in an echo test only.       *)
SentToThePeersRead ==
    pc = "sent" =>
        /\ out \subseteq ToSet(addrs)
        /\ ToSet(addrs) \intersect unreachable = {} => out = ToSet(addrs)
        /\ src \in out => channel \in EchoChannels
=============================================================================
