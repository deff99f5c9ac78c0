--------------------------- MODULE ClientSession ---------------------------
(***************************************************************************)
(* The terminal client's session (crates/client/src/main.rs) on top of its *)
(* connection (crates/client/src/network.rs).                              *)
(*                                                                         *)
(* Each call of network::connect makes a connection of its own, with a     *)
(* writer, a reader and a heartbeat task; `conn' and `rx' say which of     *)
(* them the event loop holds the sending and the receiving end of.  The    *)
(* event loop runs one branch at a time (a command, a message, the echo    *)
(* deadline, a reconnect) and is the only one to change its own state; the *)
(* tasks and the server run in between.                                    *)
(*                                                                         *)
(* Data abstractions: the server is reduced to the channel it has each     *)
(* connection in and its answers (see ControlPlane), of which the ones     *)
(* that refuse a command, for its rate or for the state of the registry,   *)
(* may be given to any command at any time; a Ping that is queued          *)
(* has no other effect than to keep the server from timing the connection  *)
(* out (HEARTBEAT_INTERVAL_SECS is well below its CLIENT_IDLE_TIMEOUT); a  *)
(* deadline may pass at any time once it is set.                           *)
(***************************************************************************)
EXTENDS Naturals, Sequences

CONSTANTS
    MaxConns,     \* bound: connections made in a behaviour
    Rooms,        \* channel ids
    Echo,         \* the id of an echo-test channel
    None,
    CmdCap,       \* CMD_QUEUE_CAPACITY
    MsgCap,       \* MSG_QUEUE_CAPACITY
    Commands,     \* the kinds of command the user types
    MaxCommands,  \* bound: commands typed in a behaviour
    MaxFaults     \* bound: connections broken, connects refused, answers dropped

(* What the parameters have to satisfy. *)
SessionAssumption ==
    /\ MaxConns \in Nat \ {0}
    /\ CmdCap \in Nat \ {0}
    /\ MsgCap \in Nat \ {0}
    /\ Echo \notin Rooms /\ None \notin Rooms /\ Echo # None

Conns == 1 .. MaxConns
NoConn == 0

VARIABLES
    link,         \* of each connection: "new", "up" or "closed"
    cmdq,         \* commands queued by cmd_tx for the writer
    heart,        \* connections whose heartbeat task is running
    reader,       \* connections whose reader task is running
    wire,         \* messages on their way to the reader
    msgq,         \* messages queued in server_rx
    room,         \* the server: the channel it has each connection in
    stayed,       \* history: connections refused a leave, and not yet out since
    missed,       \* history: connections not told of a move, their queue full
    conn,         \* the event loop: the connection it can send on
    rx,           \* the event loop: the connection server_rx receives from
    connState,    \* App.conn_state
    channel,      \* App.channel
    joinParams,   \* App.voice_join_params, by their channel
    rejoin,       \* App.rejoin_channel
    voice,        \* the channel voice_handle streams to
    voiceActive,  \* App.voice_active
    echo,         \* App.echo_deadline is set
    retry,        \* next_reconnect is set
    typed,        \* commands typed so far
    faults        \* faults so far

serverVars == <<room, stayed, missed>>
netVars  == <<link, cmdq, heart, reader, wire, serverVars>>
loopVars == <<rx, msgq, channel, joinParams, rejoin, voice, voiceActive, echo, retry>>
vars == <<link, cmdq, heart, reader, wire, msgq, serverVars, conn, rx, connState,
          channel, joinParams, rejoin, voice, voiceActive, echo, retry, typed, faults>>

(* The client starts with its first connect, which may fail. *)
Init ==
    /\ \E ok \in BOOLEAN :
         /\ link = [k \in Conns |-> IF ok /\ k = 1 THEN "up" ELSE "new"]
         /\ heart = IF ok THEN {1} ELSE {}
         /\ reader = IF ok THEN {1} ELSE {}
         /\ conn = IF ok THEN 1 ELSE NoConn
         /\ rx = IF ok THEN 1 ELSE NoConn
         /\ connState = IF ok THEN "connected" ELSE "disconnected"
    /\ cmdq = [k \in Conns |-> <<>>]
    /\ wire = [k \in Conns |-> <<>>]
    /\ msgq = <<>>
    /\ room = [k \in Conns |-> None]
    /\ stayed = {} /\ missed = {}
    /\ channel = None /\ joinParams = None /\ rejoin = None
    /\ voice = None /\ voiceActive = FALSE
    /\ echo = FALSE /\ retry = FALSE
    /\ typed = 0 /\ faults = 0

(***************************************************************************)
(* Sending.  try_send fails when the queue is full or the writer is gone;  *)
(* a writer whose connection closed is gone once its next write fails.     *)
(***************************************************************************)
SendOrDisconnect(m) ==
    \/ /\ conn = NoConn
       /\ UNCHANGED <<cmdq, conn, connState>>
    \/ /\ conn # NoConn
       /\ Len(cmdq[conn]) < CmdCap
       /\ cmdq' = [cmdq EXCEPT ![conn] = Append(@, m)]
       /\ UNCHANGED <<conn, connState>>
    \/ /\ conn # NoConn
       /\ Len(cmdq[conn]) >= CmdCap \/ link[conn] = "closed"
       /\ conn' = NoConn
       /\ connState' = "disconnected"
       /\ UNCHANGED cmdq

(***************************************************************************)
(* network::connect: a fresh connection, whose queue starts with the       *)
(* greeting and, when there is a channel to rejoin, the request for it.    *)
(***************************************************************************)
Fresh == {k \in Conns : link[k] = "new" /\ \A j \in 1 .. k - 1 : link[j] # "new"}

RejoinRequest(want) == IF want = None THEN <<>> ELSE <<[cmd |-> "join", ch |-> want]>>

Connected(k, want) ==
    /\ link' = [link EXCEPT ![k] = "up"]
    /\ heart' = heart \union {k}
    /\ reader' = reader \union {k}
    /\ cmdq' = [cmdq EXCEPT ![k] = RejoinRequest(want)]
    /\ conn' = k
    /\ rx' = k
    /\ msgq' = <<>>
    /\ connState' = "connected"
    /\ rejoin' = None
    /\ UNCHANGED faults

ConnectRefused ==
    /\ faults < MaxFaults
    /\ faults' = faults + 1

\* Mutant: a refusal ends the attempts.
RetryAfterRefusalNever == FALSE

(* A refusal sets the next attempt, up to RECONNECT_MAX_MS away. *)
RetryAfterRefusal == TRUE

(* The event loop's own attempt, after a disconnect it was told of. *)
AutoReconnect ==
    /\ retry
    /\ \/ /\ \E k \in Fresh : Connected(k, rejoin)
          /\ retry' = FALSE
       \/ /\ ConnectRefused
          /\ connState' = "reconnecting"
          /\ retry' = RetryAfterRefusal
          /\ UNCHANGED <<link, heart, reader, cmdq, conn, rx, msgq, rejoin>>
    /\ UNCHANGED <<wire, serverVars, channel, joinParams, voice, voiceActive, echo, typed>>

(***************************************************************************)
(* Commands.                                                               *)
(***************************************************************************)
Type(kind) ==
    /\ kind \in Commands
    /\ typed < MaxCommands
    /\ typed' = typed + 1

(* /create, /connect, /list, /name and chat: a message, if connected. *)
CmdSend(kind, m) ==
    /\ Type(kind)
    /\ connState = "connected"
    /\ SendOrDisconnect(m)
    /\ UNCHANGED <<link, heart, reader, wire, serverVars, loopVars, faults>>

CmdLeave ==
    /\ Type("leave")
    /\ connState = "connected"
    /\ SendOrDisconnect([cmd |-> "leave"])
    /\ voice' = None
    /\ voiceActive' = FALSE
    /\ channel' = None
    /\ joinParams' = None
    /\ rejoin' = None
    /\ UNCHANGED <<link, heart, reader, wire, serverVars, rx, msgq, echo, retry, faults>>

EchoTestAllowed == channel = None /\ ~voiceActive /\ ~echo

CmdEchoTest ==
    /\ EchoTestAllowed
    /\ CmdSend("echo", [cmd |-> "echo"])

(* "Drop old connection": the event loop lets go of both ends. *)
DoReconnect(want) ==
    /\ \/ \E k \in Fresh : Connected(k, want)
       \/ /\ ConnectRefused
          /\ conn' = NoConn
          /\ rx' = NoConn
          /\ msgq' = <<>>
          /\ connState' = "disconnected"
          /\ rejoin' = want
          /\ UNCHANGED <<link, heart, reader, cmdq>>
    /\ retry' = FALSE
    /\ voiceActive' = FALSE
    /\ channel' = None
    /\ joinParams' = None

CmdReconnect ==
    /\ Type("reconnect")
    /\ DoReconnect(rejoin)
    /\ UNCHANGED <<wire, serverVars, voice, echo>>

(* /server with a link that names a channel; it reconnects only when       *)
(* disconnected.                                                           *)
CmdServer(r) ==
    /\ Type("server")
    /\ IF connState # "connected"
       THEN DoReconnect(r)
       ELSE /\ rejoin' = r
            /\ UNCHANGED <<link, cmdq, heart, reader, conn, connState, rx, msgq,
                           channel, joinParams, voiceActive, retry, faults>>
    /\ UNCHANGED <<wire, serverVars, voice, echo>>

(* /config input or output: voice is restarted from the join's parameters. *)
RestartVoice ==
    /\ Type("config")
    /\ joinParams # None
    /\ \/ voice' = joinParams /\ voiceActive' = TRUE
       \/ voice' = None /\ voiceActive' = FALSE
    /\ UNCHANGED <<netVars, conn, connState, rx, msgq, channel, joinParams,
                   rejoin, echo, retry, faults>>

(* "End a running sound-check once its window elapses." *)
EchoDeadline ==
    /\ echo
    /\ echo' = FALSE
    /\ voice' = None
    /\ voiceActive' = FALSE
    /\ SendOrDisconnect([cmd |-> "stopecho"])
    /\ UNCHANGED <<link, heart, reader, wire, serverVars, rx, msgq, channel, joinParams,
                   rejoin, retry, typed, faults>>

(***************************************************************************)
(* Messages: handle_server_message, and the marker that ends the stream.   *)
(***************************************************************************)
TakeMessage(t) ==
    /\ msgq # <<>>
    /\ Head(msgq).msg = t
    /\ msgq' = Tail(msgq)
    /\ UNCHANGED <<link, heart, reader, wire, serverVars, rx, typed, faults>>

(* Starting voice may fail, which leaves the old handle in place. *)
OnJoinedChannel ==
    /\ TakeMessage("joined")
    /\ channel' = Head(msgq).ch
    /\ joinParams' = Head(msgq).ch
    /\ \/ voice' = Head(msgq).ch /\ voiceActive' = TRUE
       \/ UNCHANGED <<voice, voiceActive>>
    /\ UNCHANGED <<cmdq, conn, connState, rejoin, echo, retry>>

OnEchoTestReady ==
    /\ TakeMessage("echoready")
    /\ \/ voice' = Echo /\ voiceActive' = TRUE /\ echo' = TRUE
       \/ UNCHANGED <<voice, voiceActive, echo>>
    /\ UNCHANGED <<cmdq, conn, connState, channel, joinParams, rejoin, retry>>

\* Mutant: the voice pipeline runs on.
OnLeftChannelVoiceKept ==
    /\ TakeMessage("left")
    /\ channel' = None
    /\ joinParams' = None
    /\ rejoin' = None
    /\ UNCHANGED <<cmdq, conn, connState, voice, voiceActive, echo, retry>>

OnLeftChannel ==
    /\ TakeMessage("left")
    /\ voice' = None
    /\ voiceActive' = FALSE
    /\ channel' = None
    /\ joinParams' = None
    /\ rejoin' = None
    /\ UNCHANGED <<cmdq, conn, connState, echo, retry>>

OnChannelCreated ==
    /\ TakeMessage("created")
    /\ SendOrDisconnect([cmd |-> "join", ch |-> Head(msgq).ch])
    /\ UNCHANGED <<channel, joinParams, rejoin, voice, voiceActive, echo, retry>>

(* Errors, lists, chat and names only print or change what is not modelled. *)
OnOtherMessage ==
    /\ TakeMessage("other")
    /\ UNCHANGED <<cmdq, conn, connState, channel, joinParams, rejoin, voice,
                   voiceActive, echo, retry>>

ChannelToRejoin == IF channel = None THEN rejoin ELSE channel

OnDisconnected ==
    /\ TakeMessage("closed")
    /\ rejoin' = ChannelToRejoin
    /\ channel' = None
    /\ conn' = NoConn
    /\ voice' = None
    /\ voiceActive' = FALSE
    /\ echo' = FALSE
    /\ joinParams' = None
    /\ retry' = TRUE
    /\ connState' = "reconnecting"
    /\ UNCHANGED cmdq

(***************************************************************************)
(* The tasks of a connection.                                              *)
(***************************************************************************)

(* try_send on msg_tx succeeds. *)
HasRoom(k) == rx = k /\ Len(msgq) < MsgCap

(* The reader gives up when its message cannot be queued. *)
QueueMessage(k, m) ==
    IF HasRoom(k)
    THEN msgq' = Append(msgq, m) /\ UNCHANGED reader
    ELSE reader' = reader \ {k} /\ UNCHANGED msgq

ReaderTask(k) ==
    /\ k \in reader
    /\ wire[k] # <<>>
    /\ QueueMessage(k, Head(wire[k]))
    /\ wire' = [wire EXCEPT ![k] = Tail(@)]
    /\ UNCHANGED <<link, cmdq, heart, serverVars, conn, connState, rx, channel,
                   joinParams, rejoin, voice, voiceActive, echo, retry, typed, faults>>

(* At the end of the stream the reader queues the marker, if there is room. *)
AfterEof(k) == IF HasRoom(k) THEN Append(msgq, [msg |-> "closed"]) ELSE msgq

ReaderEof(k) ==
    /\ k \in reader
    /\ wire[k] = <<>> /\ link[k] = "closed"
    /\ reader' = reader \ {k}
    /\ msgq' = AfterEof(k)
    /\ UNCHANGED <<link, cmdq, heart, wire, serverVars, conn, connState, rx, channel,
                   joinParams, rejoin, voice, voiceActive, echo, retry, typed, faults>>

Heartbeat(k) ==
    /\ k \in heart
    /\ link[k] = "closed" \/ Len(cmdq[k]) >= CmdCap
    /\ heart' = heart \ {k}
    /\ UNCHANGED <<link, cmdq, reader, wire, serverVars, conn, connState, loopVars,
                   typed, faults>>

(* The socket goes with the last half of the stream: the writer ends when  *)
(* nobody can send to it any more.                                         *)
SocketDropped(k) ==
    /\ link[k] = "up"
    /\ conn # k /\ k \notin heart /\ cmdq[k] = <<>>
    /\ k \notin reader
    /\ link' = [link EXCEPT ![k] = "closed"]
    /\ room' = [room EXCEPT ![k] = None]
    /\ UNCHANGED <<stayed, missed, cmdq, heart, reader, wire, conn, connState, loopVars,
                   typed, faults>>

(***************************************************************************)
(* The server, and the network between.                                    *)
(***************************************************************************)
(* send_to drops an answer that the client's queue has no room for.        *)
Answer(k, r, m) ==
    /\ room' = [room EXCEPT ![k] = r]
    /\ \/ /\ wire' = [wire EXCEPT ![k] = Append(@, m)]
          /\ UNCHANGED <<missed, faults>>
       \/ /\ faults < MaxFaults
          /\ faults' = faults + 1
          /\ missed' = IF r = room[k] THEN missed ELSE missed \union {k}
          /\ UNCHANGED wire

(* Any command may be one too many for the bucket of its connection or of  *)
(* its address, which other connections draw on; a channel to join may be  *)
(* gone, one to create too many; a member may not join, nobody else leave. *)
(* Chat, too, is answered with something that only prints.                 *)
Refused(k) ==
    /\ Answer(k, room[k], [msg |-> "other"])
    /\ stayed' = IF Head(cmdq[k]).cmd = "leave" /\ room[k] # None
                 THEN stayed \union {k} ELSE stayed

CarriedOut(k) ==
    LET c == Head(cmdq[k]) IN
    \/ /\ c.cmd = "join" /\ room[k] = None
       /\ Answer(k, c.ch, [msg |-> "joined", ch |-> c.ch])
       /\ UNCHANGED stayed
    \/ /\ c.cmd = "echo" /\ room[k] = None
       /\ Answer(k, Echo, [msg |-> "echoready"])
       /\ UNCHANGED stayed
    \/ /\ c.cmd \in {"leave", "stopecho"} /\ room[k] # None
       /\ Answer(k, None, [msg |-> "left"])
       /\ stayed' = stayed \ {k}
    \/ /\ c.cmd = "create"
       /\ Answer(k, room[k], [msg |-> "created", ch |-> c.ch])
       /\ UNCHANGED stayed

ServerHandles(k) ==
    /\ link[k] = "up"
    /\ cmdq[k] # <<>>
    /\ CarriedOut(k) \/ Refused(k)
    /\ cmdq' = [cmdq EXCEPT ![k] = Tail(@)]
    /\ UNCHANGED <<link, heart, reader, conn, connState, loopVars, typed>>

(* reader_loop of the server: no frame for CLIENT_IDLE_TIMEOUT. *)
IdleTimeout(k) ==
    /\ link[k] = "up"
    /\ k \notin heart /\ cmdq[k] = <<>>
    /\ link' = [link EXCEPT ![k] = "closed"]
    /\ room' = [room EXCEPT ![k] = None]
    /\ UNCHANGED <<stayed, missed, cmdq, heart, reader, wire, conn, connState, loopVars,
                   typed, faults>>

LinkLost(k) ==
    /\ link[k] = "up"
    /\ faults < MaxFaults
    /\ faults' = faults + 1
    /\ link' = [link EXCEPT ![k] = "closed"]
    /\ room' = [room EXCEPT ![k] = None]
    /\ UNCHANGED <<stayed, missed, cmdq, heart, reader, wire, conn, connState, loopVars,
                   typed>>

EventLoop ==
    \/ OnJoinedChannel \/ OnEchoTestReady \/ OnLeftChannel \/ OnChannelCreated
    \/ OnOtherMessage \/ OnDisconnected
    \/ EchoDeadline
    \/ AutoReconnect

User ==
    \/ \E r \in Rooms : \/ CmdSend("join", [cmd |-> "join", ch |-> r])
                        \/ CmdSend("create", [cmd |-> "create", ch |-> r])
                        \/ CmdServer(r)
    \/ CmdSend("say", [cmd |-> "say"])
    \/ CmdLeave \/ CmdEchoTest \/ CmdReconnect \/ RestartVoice

Network(k) ==
    ReaderTask(k) \/ ReaderEof(k) \/ SocketDropped(k) \/ ServerHandles(k) \/ IdleTimeout(k)

Next ==
    \/ EventLoop
    \/ User
    \/ \E k \in Conns : Network(k) \/ Heartbeat(k) \/ LinkLost(k)

(* The runtime keeps polling the tasks, the event loop keeps turning, and  *)
(* timers fire; the user and the faults are not bound to anything.         *)
Fairness ==
    /\ WF_vars(EventLoop)
    /\ \A k \in Conns : WF_vars(Network(k)) /\ WF_vars(Heartbeat(k))

Spec == Init /\ [][Next]_vars /\ Fairness

(***************************************************************************)
(* Properties.                                                             *)
(***************************************************************************)

\* Nothing is on its way to or from the connection in use.
Quiet ==
    /\ conn # NoConn /\ link[conn] = "up"
    /\ cmdq[conn] = <<>> /\ wire[conn] = <<>> /\ msgq = <<>>
    /\ conn \in reader

(* Whatever the user typed, whatever the server refused, in whatever order *)
(* the answers came and however often the connection was lost: once        *)
(* nothing is on its way, the channel shown is the one the server has the  *)
(* client in (an echo test shows none), and while the client says that     *)
(* voice is active, the microphone streams to that channel and to no       *)
(* other.  A client whose leave was refused has already shown itself       *)
(* outside (cmd_leave does not wait for the answer): it shows no channel   *)
(* until a later leave is granted, while the server keeps it in one.       *)
(* Not of a connection whose answer to a move was dropped on the way.      *)
RoomAgreement ==
    Quiet /\ conn \notin missed =>
        /\ \/ channel = room[conn]
           \/ channel = None /\ (room[conn] = Echo \/ conn \in stayed)
        /\ voiceActive => voice = room[conn]

(* A client that has been told of a disconnect, and whose user does        *)
(* nothing about it, connects again, however often it is refused.          *)
Recovers == (retry /\ typed = MaxCommands) ~> connState = "connected"

=============================================================================
