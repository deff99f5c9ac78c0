-------------------------- MODULE DesktopSession --------------------------
(***************************************************************************)
(* The desktop client's session: the commands of the user interface        *)
(* (commands.rs), the drain task that handles a connection's messages and  *)
(* reconnects (drain.rs), and the voice actor's call and sound check       *)
(* (voice_actor.rs), around the AppCore they share behind a mutex.         *)
(*                                                                         *)
(* Commands are asynchronous and may overlap: each is a sequence of steps, *)
(* one per critical section or await.  A drain task is named by the first  *)
(* connection it serves.  JoinHandle::abort ends a task that is parked; a  *)
(* task that is running on another thread goes on to its next pending      *)
(* await, so it may still take a free lock or fill a queue: such an abort  *)
(* is `late'.                                                              *)
(*                                                                         *)
(* Data abstractions: the server is the channel it has each connection in  *)
(* and its answers (see ControlPlane); reader, writer and heartbeat of a   *)
(* connection are in ClientSession; a call is the connection and the       *)
(* channel of its StartParams; the address of the server, names, rosters,  *)
(* chat, history and settings are left out; a timer may fire at any time.  *)
(***************************************************************************)
EXTENDS Naturals, Sequences, FiniteSets

CONSTANTS
    MaxConns,      \* bound: connections made in a behaviour
    Rooms,         \* channel ids
    Echo,          \* the id of an echo-test channel
    None,
    Slots,         \* commands that may be in progress at a time
    ActorCap,      \* capacity of the actor's command queue
    Commands,      \* the kinds of command the user gives
    MaxCommands,   \* bound: commands given in a behaviour
    MaxFaults,     \* bound: links lost, connects refused, voice starts failed and
                   \* answers dropped
    MaxLate        \* bound: aborts that hit a running task

ASSUME DesktopAssumption ==
    /\ MaxConns \in Nat \ {0}
    /\ ActorCap \in Nat \ {0}
    /\ Echo \notin Rooms /\ None \notin Rooms /\ Echo # None
    /\ 0 \notin Slots

Conns == 1 .. MaxConns
NoConn == 0
NoCall == [conn |-> NoConn, ch |-> None]
Timer == 0          \* the asker of an echo stop: a timer, or a command's slot

VARIABLES
    link,          \* of each connection: "new", "up" or "closed"
    toServer,      \* messages on their way to the server
    toClient,      \* messages on their way to the drain task
    room,          \* the server: the channel it has each connection in
    conn,          \* AppCore.conn
    channel,       \* AppCore.channel
    pendingJoin,   \* AppCore.pending_join, by its channel
    drainHandle,   \* AppCore.drain_handle, by the task
    task,          \* of each drain task: its step, its receiver and its argument
    aborting,      \* tasks aborted while they were running
    cmd,           \* of each slot: the command in progress
    actorq,        \* the voice actor's queue
    call,          \* actor_loop: handle
    last,          \* actor_loop: last_params
    echo,          \* actor_loop: echo_handle
    timers,        \* sound-check timers that sleep
    ending,        \* sound-check timers that have their result
    panel,         \* the settings panel shows a sound check as running
    wanted,        \* history: the user's last command about it was connect
    typed, faults, lates

coreVars  == <<conn, channel, pendingJoin, drainHandle, wanted>>
netVars   == <<link, toServer, toClient, room>>
actorVars == <<actorq, call, last, echo>>
timerVars == <<timers, ending, panel>>
vars == <<netVars, coreVars, task, aborting, cmd, actorVars, timerVars, typed, faults, lates>>

NoTask == [at |-> "none", rx |-> NoConn, arg |-> None]
NoCmd  == [op |-> "none", at |-> "none", arg |-> None]

Init ==
    /\ link = [k \in Conns |-> "new"]
    /\ toServer = [k \in Conns |-> <<>>]
    /\ toClient = [k \in Conns |-> <<>>]
    /\ room = [k \in Conns |-> None]
    /\ conn = NoConn /\ channel = None /\ pendingJoin = None
    /\ drainHandle = NoConn /\ wanted = FALSE
    /\ task = [d \in Conns |-> NoTask]
    /\ aborting = {}
    /\ cmd = [s \in Slots |-> NoCmd]
    /\ actorq = <<>> /\ call = NoCall /\ last = NoCall /\ echo = NoCall
    /\ timers = 0 /\ ending = 0 /\ panel = FALSE
    /\ typed = 0 /\ faults = 0 /\ lates = 0

Fault == faults < MaxFaults /\ faults' = faults + 1

(***************************************************************************)
(* Sending: to the server on AppCore's connection, to the voice actor, and *)
(* network::connect.                                                       *)
(***************************************************************************)
Sent(m) ==
    IF conn # NoConn /\ link[conn] = "up"
    THEN [toServer EXCEPT ![conn] = Append(@, m)]
    ELSE toServer

(* tx.send(..).await waits for room. *)
Enqueue(c) ==
    /\ Len(actorq) < ActorCap
    /\ actorq' = Append(actorq, c)

Fresh == {k \in Conns : link[k] = "new" /\ \A j \in 1 .. k - 1 : link[j] # "new"}

Dial(k) ==
    /\ k \in Fresh
    /\ link' = [link EXCEPT ![k] = "up"]
    /\ UNCHANGED <<toServer, toClient, room>>

(***************************************************************************)
(* Abort of the drain task whose handle AppCore holds.                     *)
(***************************************************************************)
Parked == {"recv", "await", "echoawait", "echostarted", "sleep"}
Alive(d) == task[d].at \notin {"none", "dead"}

Killed(d) == [task EXCEPT ![d] = [@ EXCEPT !.at = "dead"]]

\* Mutant: the handle is dropped, not aborted.
AbortDrainDetached == UNCHANGED <<task, aborting, lates>>

AbortDrain ==
    \/ /\ drainHandle # NoConn
       /\ task' = Killed(drainHandle)
       /\ UNCHANGED <<aborting, lates>>
    \/ /\ drainHandle # NoConn
       /\ Alive(drainHandle) /\ task[drainHandle].at \notin Parked
       /\ lates < MaxLate
       /\ lates' = lates + 1
       /\ aborting' = aborting \union {drainHandle}
       /\ UNCHANGED task
    \/ /\ drainHandle = NoConn
       /\ UNCHANGED <<task, aborting, lates>>

(* Where a step leaves the task: one that was aborted ends where it would  *)
(* have to wait.                                                           *)
Goes(d, at, rx, arg) ==
    task' = [task EXCEPT ![d] =
        IF d \in aborting /\ at \in Parked
        THEN [NoTask EXCEPT !.at = "dead"]
        ELSE [at |-> at, rx |-> rx, arg |-> arg]]

(***************************************************************************)
(* Commands.                                                               *)
(***************************************************************************)
Give(kind) ==
    /\ kind \in Commands
    /\ typed < MaxCommands
    /\ typed' = typed + 1

Begin(s, kind, at, arg) ==
    /\ Give(kind)
    /\ cmd[s] = NoCmd
    /\ cmd' = [cmd EXCEPT ![s] = [op |-> kind, at |-> at, arg |-> arg]]

At(s, kind, at) == cmd[s].op = kind /\ cmd[s].at = at

Continue(s, at, arg) == cmd' = [cmd EXCEPT ![s] = [@ EXCEPT !.at = at, !.arg = arg]]

Done(s) == cmd' = [cmd EXCEPT ![s] = NoCmd]

ClearSession ==
    /\ AbortDrain
    /\ drainHandle' = NoConn
    /\ conn' = NoConn
    /\ channel' = None
    /\ pendingJoin' = None

Connect(s) ==
    /\ Begin(s, "connect", "stop", None)
    /\ ClearSession
    /\ wanted' = TRUE
    /\ UNCHANGED <<netVars, actorVars, timerVars, faults>>

Disconnect(s) ==
    /\ Begin(s, "disconnect", "stop", None)
    /\ ClearSession
    /\ wanted' = FALSE
    /\ UNCHANGED <<netVars, actorVars, timerVars, faults>>

(* voice_to_stop.stop().await, after the lock is released. *)
StopsVoice(s) ==
    /\ cmd[s].op \in {"connect", "disconnect"} /\ cmd[s].at = "stop"
    /\ Enqueue([op |-> "stop"])
    /\ IF cmd[s].op = "connect" THEN Continue(s, "dial", cmd[s].arg) ELSE Done(s)
    /\ UNCHANGED <<netVars, coreVars, task, aborting, call, last, echo, timerVars,
                   typed, faults, lates>>

ConnectDialled(s) ==
    /\ At(s, "connect", "dial")
    /\ \/ \E k \in Fresh :
            /\ Dial(k)
            /\ conn' = k
            /\ Continue(s, "spawn", k)
            /\ UNCHANGED faults
       \/ /\ Fault
          /\ conn' = NoConn
          /\ Done(s)
          /\ UNCHANGED netVars
    /\ UNCHANGED <<channel, pendingJoin, drainHandle, wanted, task, aborting,
                   actorVars, timerVars, typed, lates>>

ConnectSpawns(s) ==
    /\ At(s, "connect", "spawn")
    /\ LET k == cmd[s].arg IN
         task' = [task EXCEPT ![k] = [at |-> "recv", rx |-> k, arg |-> None]]
    /\ Continue(s, "handle", cmd[s].arg)
    /\ UNCHANGED <<netVars, coreVars, aborting, actorVars, timerVars, typed, faults, lates>>

ConnectKeepsHandle(s) ==
    /\ At(s, "connect", "handle")
    /\ drainHandle' = cmd[s].arg
    /\ Done(s)
    /\ UNCHANGED <<netVars, conn, channel, pendingJoin, wanted, task, aborting,
                   actorVars, timerVars, typed, faults, lates>>

(* join_channel, create_channel and the other commands that only send. *)
SendMsg(kind, m) ==
    /\ Give(kind)
    /\ conn # NoConn
    /\ toServer' = Sent(m)
    /\ UNCHANGED <<link, toClient, room, coreVars, task, aborting, cmd, actorVars,
                   timerVars, faults, lates>>

LeaveChannel(s) ==
    /\ Begin(s, "leave", "send", None)
    /\ Enqueue([op |-> "stop"])
    /\ UNCHANGED <<netVars, coreVars, task, aborting, call, last, echo, timerVars,
                   faults, lates>>

StartEchoTest(s) ==
    /\ conn # NoConn /\ channel = None
    /\ Begin(s, "echo", "send", None)
    /\ UNCHANGED <<netVars, coreVars, task, aborting, actorVars, timerVars, faults, lates>>

(* The panel, when it is closed on a running sound check; the command      *)
(* waits for the actor's reply, see ActorEchoStop.                         *)
CancelEchoTest(s) ==
    /\ panel
    /\ Begin(s, "stopecho", "reply", None)
    /\ Enqueue([op |-> "echostop", by |-> s])
    /\ panel' = FALSE
    /\ UNCHANGED <<netVars, coreVars, task, aborting, call, last, echo, timers, ending,
                   faults, lates>>

(* The second half of the three commands above: send_msg. *)
CommandSends(s) ==
    /\ cmd[s].at = "send"
    /\ toServer' = Sent([cmd |-> cmd[s].op, ch |-> None])
    /\ Done(s)
    /\ UNCHANGED <<link, toClient, room, coreVars, task, aborting, actorVars,
                   timerVars, typed, faults, lates>>

(***************************************************************************)
(* The drain task: one message at a time.                                  *)
(***************************************************************************)
drainUnchanged == <<aborting, cmd, timerVars, typed, lates>>

TakeMessage(d) ==
    /\ task[d].at = "recv"
    /\ LET k == task[d].rx IN
         /\ toClient[k] # <<>>
         /\ Goes(d, "handle", k, Head(toClient[k]))
         /\ toClient' = [toClient EXCEPT ![k] = Tail(@)]
    /\ UNCHANGED <<link, toServer, room, coreVars, actorVars, faults, drainUnchanged>>

Handles(d, kind) == task[d].at = "handle" /\ task[d].arg.msg = kind

HandleJoinedChannel(d) ==
    /\ Handles(d, "joined")
    /\ channel' = task[d].arg.ch
    /\ pendingJoin' = task[d].arg.ch
    /\ Goes(d, "voice", task[d].rx, None)
    /\ UNCHANGED <<netVars, conn, drainHandle, wanted, actorVars, faults,
                   drainUnchanged>>

(* spawn_voice: the parameters under the lock, the command after it. *)
SpawnVoice(d) ==
    /\ task[d].at = "voice"
    /\ pendingJoin' = None
    /\ IF pendingJoin = None \/ conn = NoConn
       THEN Goes(d, "recv", task[d].rx, None)
       ELSE Goes(d, "send", task[d].rx, [conn |-> conn, ch |-> pendingJoin])
    /\ UNCHANGED <<netVars, conn, channel, drainHandle, wanted, actorVars,
                   faults, drainUnchanged>>

SendStart(d) ==
    /\ task[d].at = "send"
    /\ Enqueue([op |-> "start", by |-> d, p |-> task[d].arg])
    /\ Goes(d, "await", task[d].rx, None)
    /\ UNCHANGED <<netVars, coreVars, call, last, echo, faults, drainUnchanged>>

(* spawn_echo, in the same two steps; the timer is armed once the actor    *)
(* has replied.                                                            *)
HandleEchoTestReady(d) ==
    /\ Handles(d, "echoready")
    /\ IF conn = NoConn
       THEN Goes(d, "recv", task[d].rx, None)
       ELSE Goes(d, "echosend", task[d].rx, [conn |-> conn, ch |-> Echo])
    /\ UNCHANGED <<netVars, coreVars, actorVars, faults, drainUnchanged>>

SendEchoStart(d) ==
    /\ task[d].at = "echosend"
    /\ Enqueue([op |-> "echostart", by |-> d, p |-> task[d].arg])
    /\ Goes(d, "echoawait", task[d].rx, None)
    /\ UNCHANGED <<netVars, coreVars, call, last, echo, faults, drainUnchanged>>

\* Mutant: the end of the test is left to the settings panel.
TimersArmedNever == timers

TimersArmed == timers + 1

ArmTimer(d) ==
    /\ task[d].at = "echostarted"
    /\ timers' = TimersArmed
    /\ panel' = TRUE
    /\ Goes(d, "recv", task[d].rx, None)
    /\ UNCHANGED <<netVars, coreVars, actorVars, faults, aborting, cmd, ending, typed, lates>>

HandleLeftChannel(d) ==
    /\ Handles(d, "left")
    /\ channel' = None
    /\ Enqueue([op |-> "stop"])
    /\ Goes(d, "recv", task[d].rx, None)
    /\ UNCHANGED <<netVars, conn, pendingJoin, drainHandle, wanted, call, last,
                   echo, faults, drainUnchanged>>

HandleChannelCreated(d) ==
    /\ Handles(d, "created")
    /\ toServer' = Sent([cmd |-> "join", ch |-> task[d].arg.ch])
    /\ Goes(d, "recv", task[d].rx, None)
    /\ UNCHANGED <<link, toClient, room, coreVars, actorVars, faults, drainUnchanged>>

(* Errors, and the messages about names, peers, lists and chat. *)
HandleOther(d) ==
    /\ Handles(d, "other")
    /\ Goes(d, "recv", task[d].rx, None)
    /\ UNCHANGED <<netVars, coreVars, actorVars, faults, drainUnchanged>>

(* The receiver yields None. *)
ConnectionLost(d) ==
    /\ task[d].at = "recv"
    /\ link[task[d].rx] = "closed" /\ toClient[task[d].rx] = <<>>
    /\ Goes(d, "lost", task[d].rx, None)
    /\ UNCHANGED <<netVars, coreVars, actorVars, faults, drainUnchanged>>

TearDownSession(d) ==
    /\ task[d].at = "lost"
    /\ conn' = NoConn
    /\ channel' = None
    /\ pendingJoin' = None
    /\ Goes(d, "stop", task[d].rx, None)
    /\ UNCHANGED <<netVars, drainHandle, wanted, actorVars, faults, drainUnchanged>>

TearDownVoice(d) ==
    /\ task[d].at = "stop"
    /\ Enqueue([op |-> "stop"])
    /\ Goes(d, "sleep", task[d].rx, None)
    /\ UNCHANGED <<netVars, coreVars, call, last, echo, faults, drainUnchanged>>

AfterRefusal == "sleep"

(* reconnect_loop: it sleeps and dials until it succeeds. *)
Redial(d) ==
    /\ task[d].at = "sleep"
    /\ \/ \E k \in Fresh :
            /\ Dial(k)
            /\ Goes(d, "dialled", k, None)
            /\ UNCHANGED faults
       \/ /\ Fault
          /\ Goes(d, AfterRefusal, task[d].rx, None)
          /\ UNCHANGED netVars
    /\ UNCHANGED <<coreVars, actorVars, drainUnchanged>>

Reconnected(d) ==
    /\ task[d].at = "dialled"
    /\ conn' = task[d].rx
    /\ Goes(d, "recv", task[d].rx, None)
    /\ UNCHANGED <<netVars, channel, pendingJoin, drainHandle, wanted, actorVars,
                   faults, drainUnchanged>>

(* A task aborted late meets an await that has to wait. *)
AbortTakesEffect(d) ==
    /\ d \in aborting /\ Alive(d)
    /\ task' = Killed(d)
    /\ UNCHANGED <<netVars, coreVars, actorVars, faults, drainUnchanged>>

Drain(d) ==
    \/ TakeMessage(d) \/ HandleJoinedChannel(d) \/ SpawnVoice(d) \/ SendStart(d)
    \/ HandleEchoTestReady(d) \/ SendEchoStart(d) \/ ArmTimer(d) \/ HandleLeftChannel(d)
    \/ HandleChannelCreated(d) \/ HandleOther(d) \/ ConnectionLost(d)
    \/ TearDownSession(d) \/ TearDownVoice(d) \/ Redial(d) \/ Reconnected(d)

(***************************************************************************)
(* The voice actor: actor_loop, one command at a time.                     *)
(***************************************************************************)
ActorTakes(op) ==
    /\ actorq # <<>>
    /\ Head(actorq).op = op
    /\ actorq' = Tail(actorq)
    /\ UNCHANGED <<netVars, coreVars, aborting, typed, lates>>

(* The reply, which nobody reads when the task has been aborted. *)
Woken(d, at) == IF Alive(d) THEN [task EXCEPT ![d] = [@ EXCEPT !.at = at]] ELSE task

ActorStart ==
    /\ ActorTakes("start")
    /\ \/ call' = Head(actorq).p /\ UNCHANGED faults
       \/ call' = NoCall /\ Fault
    /\ last' = Head(actorq).p
    /\ task' = Woken(Head(actorq).by, "recv")
    /\ UNCHANGED <<cmd, echo, timerVars>>

\* Mutant: the parameters survive the stop.
ActorStopForgetsNot ==
    /\ ActorTakes("stop")
    /\ call' = NoCall
    /\ UNCHANGED <<task, cmd, last, echo, timerVars, faults>>

ActorStop ==
    /\ ActorTakes("stop")
    /\ call' = NoCall
    /\ last' = NoCall
    /\ UNCHANGED <<task, cmd, echo, timerVars, faults>>

ActorEchoStart ==
    /\ ActorTakes("echostart")
    /\ \/ /\ echo' = Head(actorq).p
          /\ task' = Woken(Head(actorq).by, "echostarted")
          /\ UNCHANGED faults
       \/ /\ echo' = NoCall
          /\ task' = Woken(Head(actorq).by, "recv")
          /\ Fault
    /\ UNCHANGED <<cmd, call, last, timerVars>>

ActorEchoStop ==
    /\ ActorTakes("echostop")
    /\ echo' = NoCall
    /\ IF Head(actorq).by = Timer
       THEN ending' = ending + 1 /\ UNCHANGED cmd
       ELSE Continue(Head(actorq).by, "send", None) /\ UNCHANGED ending
    /\ UNCHANGED <<task, call, last, timers, panel, faults>>

RestartNeeded == call = NoCall /\ echo = NoCall /\ last # NoCall

(* A snapshot, polled by the level pump, restarts a call that did not      *)
(* start.                                                                  *)
ActorSnapshot ==
    /\ RestartNeeded
    /\ \/ call' = last /\ UNCHANGED faults
       \/ call' = NoCall /\ Fault
    /\ UNCHANGED <<netVars, coreVars, task, aborting, cmd, actorq, last, echo, timerVars,
                   typed, lates>>

Actor == ActorStart \/ ActorStop \/ ActorEchoStart \/ ActorEchoStop \/ ActorSnapshot

(***************************************************************************)
(* The sound-check timer: it outlives the task that armed it.              *)
(***************************************************************************)
TimerFires ==
    /\ timers > 0
    /\ timers' = timers - 1
    /\ Enqueue([op |-> "echostop", by |-> Timer])
    /\ UNCHANGED <<netVars, coreVars, task, aborting, cmd, call, last, echo, ending,
                   panel, typed, faults, lates>>

TimerSends ==
    /\ ending > 0
    /\ ending' = ending - 1
    /\ panel' = FALSE
    /\ toServer' = Sent([cmd |-> "stopecho", ch |-> None])
    /\ UNCHANGED <<link, toClient, room, coreVars, task, aborting, cmd, actorVars,
                   timers, typed, faults, lates>>

(***************************************************************************)
(* The server.                                                             *)
(***************************************************************************)
(* send_to drops an answer that the client's queue has no room for.        *)
Answer(k, r, m) ==
    /\ room' = [room EXCEPT ![k] = r]
    /\ \/ toClient' = [toClient EXCEPT ![k] = Append(@, m)] /\ UNCHANGED faults
       \/ Fault /\ UNCHANGED toClient

(* Any command may be one too many for the bucket of its connection or of  *)
(* its address; a channel to join may be gone, one to create too many; a   *)
(* member may not join, and nobody else leave.                             *)
Refused(k) == Answer(k, room[k], [msg |-> "other"])

CarriedOut(k) ==
    LET c == Head(toServer[k]) IN
    \/ /\ c.cmd = "join" /\ room[k] = None
       /\ Answer(k, c.ch, [msg |-> "joined", ch |-> c.ch])
    \/ /\ c.cmd = "echo" /\ room[k] = None
       /\ Answer(k, Echo, [msg |-> "echoready"])
    \/ /\ c.cmd \in {"leave", "stopecho"} /\ room[k] # None
       /\ Answer(k, None, [msg |-> "left"])
    \/ /\ c.cmd = "create"
       /\ Answer(k, room[k], [msg |-> "created", ch |-> c.ch])

ServerHandles(k) ==
    /\ link[k] = "up"
    /\ toServer[k] # <<>>
    /\ toServer' = [toServer EXCEPT ![k] = Tail(@)]
    /\ CarriedOut(k) \/ Refused(k)
    /\ UNCHANGED <<link, coreVars, task, aborting, cmd, actorVars, timerVars,
                   typed, lates>>

LinkLost(k) ==
    /\ link[k] = "up"
    /\ Fault
    /\ link' = [link EXCEPT ![k] = "closed"]
    /\ room' = [room EXCEPT ![k] = None]
    /\ toServer' = [toServer EXCEPT ![k] = <<>>]
    /\ UNCHANGED <<toClient, coreVars, task, aborting, cmd, actorVars, timerVars,
                   typed, lates>>

CommandSteps(s) ==
    \/ StopsVoice(s) \/ ConnectDialled(s) \/ ConnectSpawns(s) \/ ConnectKeepsHandle(s)
    \/ CommandSends(s)

User(s) ==
    \/ Connect(s) \/ Disconnect(s) \/ LeaveChannel(s) \/ StartEchoTest(s) \/ CancelEchoTest(s)

Next ==
    \/ \E s \in Slots : User(s) \/ CommandSteps(s)
    \/ \E r \in Rooms : \/ SendMsg("join", [cmd |-> "join", ch |-> r])
                        \/ SendMsg("create", [cmd |-> "create", ch |-> r])
    \/ \E d \in Conns : Drain(d) \/ AbortTakesEffect(d)
    \/ Actor
    \/ TimerFires \/ TimerSends
    \/ \E k \in Conns : ServerHandles(k) \/ LinkLost(k)

(* The runtime polls every task that can go on, the actor's thread serves  *)
(* its queue and is polled for snapshots, timers fire and the server       *)
(* answers; neither the user nor a fault is bound to anything.             *)
Fairness ==
    /\ \A s \in Slots : WF_vars(CommandSteps(s))
    /\ \A d \in Conns : WF_vars(Drain(d)) /\ WF_vars(AbortTakesEffect(d))
    /\ WF_vars(ActorStart \/ ActorStop \/ ActorEchoStart \/ ActorEchoStop)
    /\ WF_vars(ActorSnapshot)
    /\ WF_vars(TimerFires) /\ WF_vars(TimerSends)
    /\ \A k \in Conns : WF_vars(ServerHandles(k))

Spec == Init /\ [][Next]_vars /\ Fairness

(***************************************************************************)
(* Properties.                                                             *)
(***************************************************************************)

Idle == \A s \in Slots : cmd[s] = NoCmd

\* No task is in the middle of a message, and no command for the actor is queued.
AtRest ==
    /\ Idle /\ actorq = <<>>
    /\ \A d \in Conns : task[d].at \in {"none", "dead", "recv", "sleep"}
    /\ conn # NoConn => toClient[conn] = <<>>

(* The microphone streams to the channel that is shown, over the           *)
(* connection in use, or not at all: Start and Stop reach the actor in the *)
(* order of the memberships they belong to, unless an abort has hit a      *)
(* drain task while it ran.                                                *)
VoiceFollowsChannel ==
    (AtRest /\ lates = 0) => call = NoCall \/ call = [conn |-> conn, ch |-> channel]

(* "Explicit disconnects never reconnect on their own": no drain task      *)
(* installs a new connection after the user has disconnected, except one   *)
(* that was past its last await when it was aborted.                       *)
NeverReconnectsUnwanted ==
    [][\A d \in Conns \ aborting :
         (task[d].at = "dialled" /\ conn' = task[d].rx /\ conn # conn') => wanted]_vars

(* A sound check ends by itself as long as its connection is the current   *)
(* one and no abort hits the task that is to arm its timer, whether the    *)
(* panel that started it is still there or not.                            *)
SoundCheckEnds ==
    \A k \in Conns : (echo.conn = k /\ conn = k) ~> (echo.conn # k \/ conn # k \/ lates > 0)
=============================================================================
