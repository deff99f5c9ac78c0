---------------------------- MODULE MCServerTasks ----------------------------
(***************************************************************************)
(* The server's tasks beside the registry, for TLC: the handlers of the    *)
(* control connections in three scenarios, and a worker of the UDP relay.  *)
(* A behaviour is a behaviour of one scenario; `part' says of which, and   *)
(* the variables of the other module keep their initial values.            *)
(*                                                                         *)
(* No two connections may choose one name: the server allows it, but a     *)
(* roster of names cannot then tell them apart.                            *)
(***************************************************************************)
EXTENDS Naturals, TLC

CONSTANTS
    Clients, Maintenance, FirstName, OtherNames, None,  \* of ControlPlane
    Public, Private, Persistent, SlowClients,           \* by scene
    Commands, MaxCommands,
    Addrs, VoiceChannels, EchoChannels, Platforms, NoAddr   \* of UdpRelay

\* "roster": clients in and out of a lobby, which may rename themselves, miss messages
\* and hang up.  "list": public and private channels, echo tests included, come and go,
\* and members are or are not heard over UDP when the others leave.  "chat": one client
\* moves between rooms while the other chats and asks.
Scenes == {"roster", "list", "chat"}

VARIABLES
    part,
    phase, registered, channel, name, announced, channels, voiced, senders,
    task, view, budget, dropped, raced, lastList,
    platform, unreachable, peers, pc, src, relayed, addrs, cachedAddrs, out

controlVars == <<phase, registered, channel, name, announced, channels, voiced,
                 senders, task, view, budget, dropped, raced, lastList>>
relayVars == <<platform, unreachable, peers, pc, src, relayed, addrs, cachedAddrs, out>>
vars == <<part, controlVars, relayVars>>

Control(s) == INSTANCE ControlPlane WITH
    Public <- Public[s], Private <- Private[s], Persistent <- Persistent[s],
    SlowClients <- SlowClients[s], Commands <- Commands[s], MaxCommands <- MaxCommands[s]

\* Every build of the relay, with an address that cannot be reached or none.
Relay == INSTANCE UdpRelay WITH channel <- relayed

ASSUME TasksAssumption ==
    (\A s \in Scenes : Control(s)!ControlAssumption) /\ Relay!RelayAssumption

OwnNames(c) == OtherNames[c] \union {FirstName[c]}

ASSUME NamesAssumption ==
    \A c, d \in Clients : c # d => OwnNames(c) \intersect OwnNames(d) = {}

\* A relay that the scenario leaves alone has one initial state.
RelayIdle ==
    /\ Relay!Init
    /\ platform = "linux" /\ unreachable = {}
    /\ relayed = (CHOOSE c \in VoiceChannels : TRUE)

Init ==
    \/ /\ \E s \in Scenes : part = s /\ Control(s)!Init
       /\ RelayIdle
    \/ part = "relay" /\ Control("roster")!Init /\ Relay!Init

Handle ==
    /\ \E s \in Scenes : part = s /\ Control(s)!Next
    /\ UNCHANGED <<part, relayVars>>

Forward == part = "relay" /\ Relay!Next /\ UNCHANGED <<part, controlVars>>

Next == Handle \/ Forward

Spec == Init /\ [][Next]_vars

\* The values of the run.
CONSTANTS a, b, lobby, den

MCFirstName   == a :> "user-1" @@ b :> "user-2"
MCOtherNames  == a :> {"ann"} @@ b :> {}
MCPublic      == "roster" :> {lobby} @@ "list" :> {lobby} @@ "chat" :> {lobby, den}
MCPrivate     == "roster" :> {} @@ "list" :> {den} @@ "chat" :> {}
MCPersistent  == "roster" :> {lobby} @@ "list" :> {} @@ "chat" :> {lobby, den}
MCSlowClients == "roster" :> {b} @@ "list" :> {} @@ "chat" :> {}
MCCommands ==
    "roster" :> {"join", "leave", "rename", "quit"}
    @@ "list" :> {"create", "join", "leave", "echo", "quit"}
    @@ "chat" :> {"join", "leave", "chat", "dm", "hello", "list", "ping", "flood"}
MCMaxCommands ==
    "roster" :> (a :> 2 @@ b :> 2) @@ "list" :> (a :> 3 @@ b :> 1)
    @@ "chat" :> (a :> 3 @@ b :> 2)

-----------------------------------------------------------------------------
(* Once every handler is done, a client that missed no message shows the   *)
(* channel the server has it in, and its members by their current names    *)
(* unless its join overlapped another change of the roster.                *)
ViewExactUnlessRaced ==
    \A s \in Scenes : part = s => Control(s)!ViewExactUnlessRaced

(* No handler changes the public channels or their counts and forgets to   *)
(* refresh the sidebars.                                                   *)
ListRefreshPending == \A s \in Scenes : part = s => Control(s)!ListRefreshPending

(* A client that missed no message is never shown a chat of one channel    *)
(* while it shows another.                                                 *)
ChatInItsRoom ==
    [][\A s \in Scenes : part = s => Control(s)!ShownInItsRoom]_vars

(* A datagram goes to the peers that were read for it and to nobody else,  *)
(* whatever the relay's reused message headers were built for before.      *)
SentToThePeersRead == part = "relay" => Relay!SentToThePeersRead
=============================================================================
