---------------------------- MODULE ControlPlane ----------------------------
(***************************************************************************)
(* The control plane of the tc server (crates/server/src/tcp.rs) and what  *)
(* a client makes of it (handle_server_message in                          *)
(* crates/client/src/main.rs).                                             *)
(*                                                                         *)
(* One task serves each connection.  A handler first calls one method of   *)
(* the registry, which is atomic, and then performs a sequence of effects: *)
(* send_to, broadcast_to_channel, broadcast_channel_list.  Each effect     *)
(* takes its locks anew, so the handlers of other connections run in       *)
(* between.  A handler is therefore an action that makes the registry call *)
(* and leaves the rest of its effects in `task', from which they are taken *)
(* one at a time, in order.  Only when its task is empty does a connection *)
(* read its next command.                                                  *)
(*                                                                         *)
(* Data abstractions: the registry is reduced to what the handlers tell    *)
(* the clients (see ServerState for the rest); a client's identity key is  *)
(* its connection; message texts are left out; a ChatMessage carries the   *)
(* channel it was written in, which only the properties look at.           *)
(***************************************************************************)
EXTENDS Naturals, Sequences, FiniteSets

CONSTANTS
    Clients,      \* connections; a source address is used by one of them
    Maintenance,  \* the maintenance task
    FirstName,    \* the name register_client gives each connection
    OtherNames,   \* the names it may choose with SetName
    Public,       \* ids with the prefix pub-
    Private,      \* generated ids, echo ids included
    Persistent,   \* public channels created at startup
    SlowClients,  \* clients that may let their queue fill up
    Commands,     \* the kinds of command the clients may send
    MaxCommands,  \* bound: how many commands each connection sends
    None

Channels == Public \union Private
Tasks    == Clients \union {Maintenance}
Names    == UNION {OtherNames[c] \union {FirstName[c]} : c \in Clients}

CommandKinds == {"create", "join", "leave", "chat", "dm", "rename", "hello",
                 "list", "ping", "echo", "flood", "quit"}

(* What the parameters have to satisfy. *)
ControlAssumption ==
    /\ Persistent \subseteq Public
    /\ Public \intersect Private = {}
    /\ None \notin Channels \union Clients \union Names
    /\ Maintenance \notin Clients
    /\ FirstName \in [Clients -> Names]
    /\ SlowClients \subseteq Clients
    /\ MaxCommands \in [Clients -> Nat]
    /\ Commands \subseteq CommandKinds

VARIABLES
    phase,       \* of a connection: "new", "open" or "closed"
    registered,  \* the keys of Inner.clients
    channel,     \* ClientInfo.channel
    name,        \* ClientInfo.name, and the handler's own copy
    announced,   \* connections whose Hello carried a key
    channels,    \* the existing channel ids
    voiced,      \* members whose UDP address is in their channel's set
    senders,     \* the keys of ClientSenders
    task,        \* the effects each task has still to perform
    view,        \* what each client makes of the messages queued for it
    budget,      \* commands each connection may still send
    dropped,     \* ghost: clients that missed a message on a full queue
    raced,       \* ghost: clients whose join overlapped a roster change
    lastList     \* ghost: the list broadcast_channel_list read last

registry == <<registered, channel, name, announced, channels, voiced>>
vars == <<phase, registered, channel, name, announced, channels, voiced,
          senders, task, view, budget, dropped, raced, lastList>>

(***************************************************************************)
(* Messages and effects.                                                   *)
(***************************************************************************)
Welcome          == [t |-> "Welcome"]
Error            == [t |-> "Error"]
Pong             == [t |-> "Pong"]
LeftChannel      == [t |-> "LeftChannel"]
PeerJoined(n)    == [t |-> "PeerJoined", peer |-> n]
PeerLeft(n)      == [t |-> "PeerLeft", peer |-> n]
NameChanged(o, n)   == [t |-> "NameChanged", old |-> o, new |-> n]
ChatMessage(n, ch)  == [t |-> "ChatMessage", from |-> n, room |-> ch]
DirectMessage(n)    == [t |-> "DirectMessage", from |-> n]
ChannelCreated(ch)  == [t |-> "ChannelCreated", ch |-> ch]
JoinedChannel(ch, roster) == [t |-> "JoinedChannel", ch |-> ch, roster |-> roster]
EchoTestReady(ch)   == [t |-> "EchoTestReady", ch |-> ch]
ChannelList(list)   == [t |-> "ChannelList", list |-> list]

SendTo(c, m)  == [op |-> "send", to |-> c, msg |-> m]
CastTo(ch, exclude, m) == [op |-> "cast", ch |-> ch, exclude |-> exclude, msg |-> m]
ReadList      == [op |-> "read"]
FanOut(list)  == [op |-> "fan", list |-> list]
OpenQueue     == [op |-> "open"]
RemoveClient  == [op |-> "remove"]

(***************************************************************************)
(* Queries of the registry.                                                *)
(***************************************************************************)
Members(ch)      == {c \in registered : channel[c] = ch}
Participants(ch) == {c \in Members(ch) : c \in voiced}

\* A roster is a bag of names: its order is never relied upon.
RosterOf(who, nameOf) == [n \in Names |-> Cardinality({c \in who : nameOf[c] = n})]

(* list_public_channels: every existing public channel with its count. *)
PublicList == [ch \in Public |-> IF ch \in channels
                                 THEN Cardinality(Members(ch)) ELSE None]

NoView == [channel |-> None, roster |-> [n \in Names |-> 0], list |-> <<>>]

Init ==
    /\ phase = [c \in Clients |-> "new"]
    /\ registered = {}
    /\ channel = [c \in Clients |-> None]
    /\ name = FirstName
    /\ announced = {}
    /\ channels = Persistent
    /\ voiced = {}
    /\ senders = {}
    /\ task = [t \in Tasks |-> <<>>]
    /\ view = [c \in Clients |-> NoView]
    /\ budget = MaxCommands
    /\ dropped = {}
    /\ raced = {}
    /\ lastList = PublicList

(***************************************************************************)
(* The client takes one message at a time, in the order they were queued:  *)
(* writer_task, TCP, reader_task and the event loop keep it.  What it will *)
(* show once it has caught up is therefore settled when a message is       *)
(* queued, and that is when the model applies it.                          *)
(***************************************************************************)
(* JoinedChannel replaces the participants by its snapshot. *)
Joined(v, m) == [v EXCEPT !.channel = m.ch, !.roster = m.roster]

(* The other messages push to, filter, or rename the first match in the    *)
(* participants; an empty old_name only tells the client its own name.     *)
Apply(v, m) ==
    CASE m.t = "JoinedChannel" -> Joined(v, m)
      [] m.t = "LeftChannel"   -> [v EXCEPT !.channel = None,
                                            !.roster = [n \in Names |-> 0]]
      [] m.t = "PeerJoined"    -> [v EXCEPT !.roster[m.peer] = @ + 1]
      [] m.t = "PeerLeft"      -> [v EXCEPT !.roster[m.peer] = 0]
      [] m.t = "NameChanged"   -> IF m.old = None \/ v.roster[m.old] = 0 THEN v
                                  ELSE [v EXCEPT !.roster[m.old] = @ - 1,
                                                 !.roster[m.new] = @ + 1]
      [] m.t = "ChannelList"   -> [v EXCEPT !.list = m.list]
      [] OTHER                 -> v

(***************************************************************************)
(* Delivery into the queues: try_send, which drops the message when the    *)
(* client has let CLIENT_QUEUE_CAPACITY of them wait.  How fast a client   *)
(* reads is up to it and its network, so the queue of any slow client may  *)
(* be full at any time.                                                    *)
(***************************************************************************)
Deliver(targets, m) ==
    \E full \in SUBSET (targets \intersect senders \intersect SlowClients) :
        /\ view' = [c \in Clients |-> IF c \in (targets \intersect senders) \ full
                                      THEN Apply(view[c], m) ELSE view[c]]
        /\ dropped' = dropped \union full

\* Mutant: the public list is not refreshed.
RefreshNever(ch) == <<>>

(* "Joining a public channel bumps its participant count": the handlers    *)
(* refresh the list only for public channels.                              *)
Refresh(ch) == IF ch \in Public THEN <<ReadList>> ELSE <<>>

(***************************************************************************)
(* Connections: accept, register_client, then the queue and the two        *)
(* messages that greet the client.                                         *)
(***************************************************************************)
Accept(c) ==
    /\ phase[c] = "new"
    /\ phase' = [phase EXCEPT ![c] = "open"]
    /\ registered' = registered \union {c}
    /\ task' = [task EXCEPT ![c] = <<OpenQueue>>]
    /\ UNCHANGED <<channel, name, announced, channels, voiced, senders,
                   view, budget, dropped, raced, lastList>>

PerformOpen(c) ==
    /\ task[c] # <<>> /\ Head(task[c]).op = "open"
    /\ senders' = senders \union {c}
    /\ view' = [view EXCEPT ![c] = Apply(Apply(@, Welcome), NameChanged(None, name[c]))]
    /\ task' = [task EXCEPT ![c] = Tail(@)]
    /\ UNCHANGED <<phase, registry, budget, dropped, raced, lastList>>

(* handle_message is called for the next frame, and one command is spent. *)
Command(c, kind) ==
    /\ phase[c] = "open"
    /\ c \in senders
    /\ task[c] = <<>>
    /\ kind \in Commands
    /\ budget[c] > 0
    /\ budget' = [budget EXCEPT ![c] = @ - 1]

Then(c, effects) == task' = [task EXCEPT ![c] = effects]

Reply(c, m) ==
    /\ Then(c, <<SendTo(c, m)>>)
    /\ UNCHANGED registry

(***************************************************************************)
(* The overlap that `raced' records: the roster of ch changes while a      *)
(* member still has its JoinedChannel, with an older snapshot, to come.    *)
(***************************************************************************)
Joining(ch) ==
    {c \in Clients : \E i \in DOMAIN task[c] :
        /\ task[c][i].op = "send"
        /\ task[c][i].msg.t = "JoinedChannel"
        /\ task[c][i].msg.ch = ch}

Announcing(ch) ==
    {c \in Clients : \E i \in DOMAIN task[c] :
        /\ task[c][i].op = "cast"
        /\ task[c][i].msg.t = "PeerJoined"
        /\ task[c][i].ch = ch}

(***************************************************************************)
(* Channels.                                                               *)
(***************************************************************************)
(* Refused when the id exists or the channel limit is reached. *)
HandleCreateChannel(c, ch) ==
    /\ Command(c, "create")
    /\ \/ Reply(c, Error)
       \/ /\ ch \notin channels
          /\ channels' = channels \union {ch}
          /\ Then(c, <<SendTo(c, ChannelCreated(ch))>> \o Refresh(ch))
          /\ UNCHANGED <<registered, channel, name, announced, voiced>>
    /\ UNCHANGED <<phase, senders, view, dropped, raced, lastList>>

JoinEffects(c, ch) ==
    << CastTo(ch, c, PeerJoined(name[c])),
       SendTo(c, JoinedChannel(ch, RosterOf(Members(ch) \union {c}, name))) >>
    \o Refresh(ch)

HandleJoinChannel(c, ch) ==
    /\ Command(c, "join")
    /\ IF ch \notin channels \/ channel[c] # None
       THEN Reply(c, Error) /\ UNCHANGED raced
       ELSE /\ channel' = [channel EXCEPT ![c] = ch]
            /\ Then(c, JoinEffects(c, ch))
            /\ raced' = (raced \ {c}) \union (Joining(ch) \ {c})
                        \union (IF Announcing(ch) # {} THEN {c} ELSE {})
            /\ UNCHANGED <<registered, name, announced, channels, voiced>>
    /\ UNCHANGED <<phase, senders, view, dropped, lastList>>

(* What leave_channel and remove_client do to the channel: it is destroyed *)
(* when its set of UDP addresses is empty, unless it is persistent.        *)
Vacate(c) ==
    /\ voiced' = voiced \ {c}
    /\ channels' = IF /\ Participants(channel[c]) \subseteq {c}
                      /\ channel[c] \notin Persistent
                   THEN channels \ {channel[c]} ELSE channels

LeaveEffects(c) ==
    << SendTo(c, LeftChannel),
       CastTo(channel[c], None, PeerLeft(name[c])) >>
    \o Refresh(channel[c])

HandleLeaveChannel(c) ==
    /\ Command(c, "leave")
    /\ IF channel[c] = None
       THEN Reply(c, Error) /\ UNCHANGED raced
       ELSE /\ channel' = [channel EXCEPT ![c] = None]
            /\ Vacate(c)
            /\ Then(c, LeaveEffects(c))
            /\ raced' = raced \union (Joining(channel[c]) \ {c})
            /\ UNCHANGED <<registered, name, announced>>
    /\ UNCHANGED <<phase, senders, view, dropped, lastList>>

(* The echo test is a private channel created and joined in one call; its  *)
(* id is drawn at random, so it is not one that somebody is still in.      *)
HandleStartEchoTest(c, ch) ==
    /\ Command(c, "echo")
    /\ \/ Reply(c, Error)
       \/ /\ channel[c] = None
          /\ ch \in Private \ channels /\ Members(ch) = {}
          /\ channels' = channels \union {ch}
          /\ channel' = [channel EXCEPT ![c] = ch]
          /\ Then(c, <<SendTo(c, EchoTestReady(ch))>>)
          /\ UNCHANGED <<registered, name, announced, voiced>>
    /\ UNCHANGED <<phase, senders, view, dropped, raced, lastList>>

(***************************************************************************)
(* Messages between clients, names, and the requests that only ask.        *)
(***************************************************************************)
(* Too long a text is answered; a chat outside a channel is not. *)
HandleChatMessage(c) ==
    /\ Command(c, "chat")
    /\ \/ Reply(c, Error)
       \/ /\ channel[c] # None
          /\ Then(c, <<CastTo(channel[c], c, ChatMessage(name[c], channel[c]))>>)
          /\ UNCHANGED registry
       \/ /\ channel[c] = None
          /\ UNCHANGED <<task, registry>>
    /\ UNCHANGED <<phase, senders, view, dropped, raced, lastList>>

(* The recipient is looked up here and written to in a later effect. *)
HandleDirectMessage(c, d) ==
    /\ Command(c, "dm")
    /\ IF c \notin announced \/ d \notin announced
       THEN Reply(c, Error)
       ELSE /\ Then(c, <<SendTo(d, DirectMessage(name[c]))>>)
            /\ UNCHANGED registry
    /\ UNCHANGED <<phase, senders, view, dropped, raced, lastList>>

RenameEffects(c, n) ==
    <<SendTo(c, NameChanged(name[c], n))>>
    \o (IF channel[c] = None THEN <<>>
        ELSE <<CastTo(channel[c], c, NameChanged(name[c], n))>>)

HandleSetName(c, n) ==
    /\ Command(c, "rename")
    /\ \/ Reply(c, Error) /\ UNCHANGED raced
       \/ /\ name' = [name EXCEPT ![c] = n]
          /\ Then(c, RenameEffects(c, n))
          /\ raced' = raced \union
                (IF channel[c] = None THEN {} ELSE Joining(channel[c]) \ {c})
          /\ UNCHANGED <<registered, channel, announced, channels, voiced>>
    /\ UNCHANGED <<phase, senders, view, dropped, lastList>>

(* A Hello whose key has the wrong size is ignored. *)
HandleHello(c) ==
    /\ Command(c, "hello")
    /\ announced' \in {announced, announced \union {c}}
    /\ UNCHANGED <<phase, registered, channel, name, channels, voiced, senders,
                   task, view, dropped, raced, lastList>>

HandleListChannels(c) ==
    /\ Command(c, "list")
    /\ Reply(c, ChannelList(PublicList))
    /\ UNCHANGED <<phase, senders, view, dropped, raced, lastList>>

HandlePing(c) ==
    /\ Command(c, "ping")
    /\ Reply(c, Pong)
    /\ UNCHANGED <<phase, senders, view, dropped, raced, lastList>>

(* reader_loop refuses any command but Ping and Hello that its rate        *)
(* limiters do not admit.                                                  *)
RateLimited(c) ==
    /\ Command(c, "flood")
    /\ Reply(c, Error)
    /\ UNCHANGED <<phase, senders, view, dropped, raced, lastList>>

(***************************************************************************)
(* The end of a connection: closed, idle too long, or a broken frame.      *)
(***************************************************************************)
SendersWithout(c) == senders \ {c}

Disconnect(c) ==
    /\ phase[c] = "open"
    /\ c \in senders
    /\ task[c] = <<>>
    /\ "quit" \in Commands
    /\ phase' = [phase EXCEPT ![c] = "closed"]
    /\ senders' = SendersWithout(c)
    /\ Then(c, <<RemoveClient>>)
    /\ UNCHANGED <<registry, view, budget, dropped, raced, lastList>>

\* Mutant: a lost connection is not announced to the channel.
RemovalEffectsSilent(c) == IF channel[c] = None THEN <<>> ELSE Refresh(channel[c])

RemovalEffects(c) ==
    IF channel[c] = None THEN <<>>
    ELSE <<CastTo(channel[c], None, PeerLeft(name[c]))>> \o Refresh(channel[c])

PerformRemove(c) ==
    /\ task[c] # <<>> /\ Head(task[c]).op = "remove"
    /\ registered' = registered \ {c}
    /\ announced' = announced \ {c}
    /\ channel' = [channel EXCEPT ![c] = None]
    /\ IF channel[c] = None THEN UNCHANGED <<voiced, channels, raced>>
       ELSE /\ Vacate(c)
            /\ raced' = raced \union (Joining(channel[c]) \ {c})
    /\ Then(c, RemovalEffects(c))
    /\ UNCHANGED <<phase, name, senders, view, budget, dropped, lastList>>

(***************************************************************************)
(* The effects of a handler, one at a time.                                *)
(***************************************************************************)
PerformSend(t) ==
    /\ task[t] # <<>> /\ Head(task[t]).op = "send"
    /\ Deliver({Head(task[t]).to}, Head(task[t]).msg)
    /\ Then(t, Tail(task[t]))
    /\ UNCHANGED <<phase, registry, senders, budget, raced, lastList>>

\* Mutant: a broadcast is not confined to its channel.
RecipientsEveryone(e) == registered \ {e.exclude}

(* broadcast_channel_addrs holds the registry's lock throughout. *)
Recipients(e) == Members(e.ch) \ {e.exclude}

PerformCast(t) ==
    /\ task[t] # <<>> /\ Head(task[t]).op = "cast"
    /\ Deliver(Recipients(Head(task[t])), Head(task[t]).msg)
    /\ Then(t, Tail(task[t]))
    /\ UNCHANGED <<phase, registry, senders, budget, raced, lastList>>

(* broadcast_channel_list reads the list under one lock ... *)
PerformRead(t) ==
    /\ task[t] # <<>> /\ Head(task[t]).op = "read"
    /\ lastList' = PublicList
    /\ Then(t, <<FanOut(PublicList)>> \o Tail(task[t]))
    /\ UNCHANGED <<phase, registry, senders, view, budget, dropped, raced>>

(* ... and fans it out under another. *)
PerformFanOut(t) ==
    /\ task[t] # <<>> /\ Head(task[t]).op = "fan"
    /\ Deliver(senders, ChannelList(Head(task[t]).list))
    /\ Then(t, Tail(task[t]))
    /\ UNCHANGED <<phase, registry, senders, budget, raced, lastList>>

(***************************************************************************)
(* The rest of the server, as far as the lists show it: a UDP hello puts a *)
(* member's address in its channel's set, and the maintenance task removes *)
(* channels nobody is in (their grace period over).                        *)
(***************************************************************************)
RegisterUdp(c) ==
    /\ c \in registered \ voiced
    /\ channel[c] \in channels
    /\ voiced' = voiced \union {c}
    /\ UNCHANGED <<phase, registered, channel, name, announced, channels, senders,
                   task, view, budget, dropped, raced, lastList>>

Reapable == {ch \in channels \ Persistent : Members(ch) = {}}

RunMaintenance(removed) ==
    /\ task[Maintenance] = <<>>
    /\ removed # {} /\ removed \subseteq Reapable
    /\ channels' = channels \ removed
    /\ Then(Maintenance, IF removed \intersect Public = {} THEN <<>> ELSE <<ReadList>>)
    /\ UNCHANGED <<phase, registered, channel, name, announced, voiced, senders,
                   view, budget, dropped, raced, lastList>>

ClientNext(c) ==
    \/ Accept(c)
    \/ \E ch \in Channels : \/ HandleCreateChannel(c, ch)
                           \/ HandleJoinChannel(c, ch)
                           \/ HandleStartEchoTest(c, ch)
    \/ HandleLeaveChannel(c)
    \/ HandleChatMessage(c)
    \/ \E d \in Clients : HandleDirectMessage(c, d)
    \/ \E n \in OtherNames[c] : HandleSetName(c, n)
    \/ HandleHello(c)
    \/ HandleListChannels(c)
    \/ HandlePing(c)
    \/ RateLimited(c)
    \/ Disconnect(c)
    \/ RegisterUdp(c)

Perform(t) ==
    \/ PerformOpen(t)
    \/ PerformRemove(t)
    \/ PerformSend(t)
    \/ PerformCast(t)
    \/ PerformRead(t)
    \/ PerformFanOut(t)

Next ==
    \/ \E c \in Clients : ClientNext(c)
    \/ \E t \in Tasks : Perform(t)
    \/ \E removed \in SUBSET channels : RunMaintenance(removed)

Spec == Init /\ [][Next]_vars

(***************************************************************************)
(* Properties.                                                             *)
(***************************************************************************)
\* No handler is under way.
Settled == \A t \in Tasks : task[t] = <<>>

(* Once every handler is done, a client that missed no message shows the   *)
(* channel the server has it in (an echo test shows none), and the members *)
(* of that channel by their current names unless its join overlapped       *)
(* another change of the roster: there is no other way for the handlers of *)
(* join, leave and rename and for the cleanup of a lost connection to      *)
(* leave a client with a wrong view.                                       *)
ViewExactUnlessRaced ==
    Settled => \A c \in senders \ dropped :
        /\ \/ view[c].channel = channel[c]
           \/ view[c].channel = None /\ channel[c] \in Private
        /\ (view[c].channel # None /\ c \notin raced)
               => view[c].roster = RosterOf(Members(view[c].channel), name)

(* No handler changes the public channels or their counts and forgets to   *)
(* refresh the sidebars: whenever the list read last is out of date, some  *)
(* task has still to read it.                                              *)
ListRefreshPending ==
    \/ lastList = PublicList
    \/ \E t \in Tasks : \E i \in DOMAIN task[t] : task[t][i] = ReadList

(* A client that missed no message is never shown a chat of one channel    *)
(* while it shows another: what is queued for a member that left, behind   *)
(* its LeftChannel, is only what its next channel sends.                   *)
ShownInItsRoom ==
    \A c \in senders \ dropped, t \in Tasks :
        (/\ task[t] # <<>> /\ task'[t] = Tail(task[t])
         /\ Head(task[t]).op = "cast" /\ Head(task[t]).msg.t = "ChatMessage"
         /\ c \in Recipients(Head(task[t])))
        => view[c].channel \in {None, Head(task[t]).msg.room}

ChatInItsRoom == [][ShownInItsRoom]_vars
=============================================================================
