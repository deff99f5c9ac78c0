--------------------------- MODULE DesktopProofs ---------------------------
(***************************************************************************)
(* Proofs about DesktopSession, for any number of connections, channels,   *)
(* commands and faults, any capacity of the actor's queue, and commands    *)
(* that are given one after the other.                                     *)
(***************************************************************************)
EXTENDS DesktopSession, TLAPS

(* The user interface waits for a command before it gives the next.        *)
OneCommand == \A s, t \in Slots : s = t

(***************************************************************************)
(* Types.                                                                  *)
(***************************************************************************)

Params == [conn : Conns \union {NoConn}, ch : Rooms \union {Echo, None}]

ToServer ==
    [cmd : {"join", "create"}, ch : Rooms] \union
    [cmd : {"leave", "echo", "stopecho"}, ch : {None}]

ToClient ==
    [msg : {"joined", "created"}, ch : Rooms] \union
    [msg : {"echoready", "left", "other"}]

Entries ==
    [op : {"stop"}] \union
    [op : {"start", "echostart"}, by : Conns, p : Params] \union
    [op : {"echostop"}, by : Slots \union {Timer}]

Waits == {"recv", "voice", "await", "echoawait", "echostarted", "lost", "stop", "sleep",
          "dialled"}

Tasks ==
    [at : {"none", "dead"}, rx : Conns \union {NoConn},
     arg : ToClient \union Params \union {None}] \union
    [at : Waits, rx : Conns, arg : ToClient \union Params \union {None}] \union
    [at : {"handle"}, rx : Conns, arg : ToClient] \union
    [at : {"send", "echosend"}, rx : Conns, arg : Params]

Commanded ==
    [op : {"none"}, at : {"none"}, arg : {None}] \union
    [op : {"connect"}, at : {"stop", "dial"}, arg : {None}] \union
    [op : {"connect"}, at : {"spawn", "handle"}, arg : Conns] \union
    [op : {"disconnect"}, at : {"stop"}, arg : {None}] \union
    [op : {"leave", "echo", "stopecho"}, at : {"send"}, arg : {None}] \union
    [op : {"stopecho"}, at : {"reply"}, arg : {None}]

Types ==
    /\ link \in [Conns -> {"new", "up", "closed"}]
    /\ toServer \in [Conns -> Seq(ToServer)]
    /\ toClient \in [Conns -> Seq(ToClient)]
    /\ conn \in Conns \union {NoConn}
    /\ channel \in Rooms \union {None} /\ pendingJoin \in Rooms \union {None}
    /\ drainHandle \in Conns \union {NoConn}
    /\ task \in [Conns -> Tasks]
    /\ aborting \subseteq Conns
    /\ cmd \in [Slots -> Commanded]
    /\ actorq \in Seq(Entries)
    /\ call \in Params /\ last \in Params
    /\ lates \in Nat

(***************************************************************************)
(* Which drain tasks there are.                                            *)
(***************************************************************************)

\* A command that has cleared the session is in progress.
Clearing == \E s \in Slots : cmd[s].op \in {"connect", "disconnect"}

\* The command has spawned d and not yet stored its handle.
JustSpawned(d) == \E s \in Slots : At(s, "connect", "handle") /\ cmd[s].arg = d

(* A task that was not aborted is the one AppCore has the handle of, or    *)
(* the one that connect is about to store.                                 *)
Tracked ==
    /\ \A d \in Conns \ aborting : Alive(d) => d = drainHandle \/ JustSpawned(d)
    /\ Clearing => drainHandle = NoConn

(* There is one only while the user wants to be connected.                 *)
HandleWanted ==
    /\ drainHandle # NoConn => wanted
    /\ \A s \in Slots : cmd[s].op = "connect" => wanted

\* An echo stop that a command has queued and waits for.
AskedBy(s, i) == actorq[i].op = "echostop" /\ actorq[i].by = s

(* The actor replies to a command that waits, once.                        *)
StopAsked ==
    \A s \in Slots, i \in 1..Len(actorq) : AskedBy(s, i) =>
        /\ At(s, "stopecho", "reply")
        /\ \A j \in 1..Len(actorq) : AskedBy(s, j) => i = j

TaskInv == Types /\ Tracked /\ HandleWanted /\ StopAsked

(***************************************************************************)
(* What the actor's queue leaves.                                          *)
(***************************************************************************)

ForVoice(e) == e.op \in {"start", "stop"}

Leaves(e) == IF e.op = "start" THEN e.p ELSE NoCall

(* Once the actor has served the queue q, its parameters are p; m are the  *)
(* ones it has now.                                                        *)
Settles(q, m, p) ==
    /\ \A i \in 1..Len(q) :
         (ForVoice(q[i]) /\ \A j \in i + 1..Len(q) : ~ForVoice(q[j])) => Leaves(q[i]) = p
    /\ (\A i \in 1..Len(q) : ~ForVoice(q[i])) => m = p

Shown == [conn |-> conn, ch |-> channel]

(***************************************************************************)
(* The session, as long as no abort was late.                              *)
(***************************************************************************)

Awaited(e) == IF e.op = "start" THEN "await" ELSE "echoawait"

\* A start that task d has queued and whose reply it reads, if it is alive.
QueuedBy(d, i) == actorq[i].op \in {"start", "echostart"} /\ actorq[i].by = d

\* Task d has queued no start.
NothingBy(d) == \A i \in 1..Len(actorq) : ~QueuedBy(d, i)

(* A task is new to the actor when it is spawned, and a connect spawns it  *)
(* for its own connection.                                                 *)
SpawnedOnce ==
    /\ \A k \in Conns : link[k] = "new" => ~Alive(k) /\ NothingBy(k)
    /\ \A s \in Slots : At(s, "connect", "spawn") =>
         /\ conn = cmd[s].arg
         /\ link[cmd[s].arg] # "new" /\ NothingBy(cmd[s].arg)

(* The actor replies to a task that waits, once.                           *)
StartAsked ==
    \A d \in Conns, i \in 1..Len(actorq) : QueuedBy(d, i) /\ Alive(d) =>
        /\ task[d].at = Awaited(actorq[i])
        /\ \A j \in 1..Len(actorq) : QueuedBy(d, j) => i = j

Between == {"stop", "sleep", "dialled"}

(* The task serves AppCore's connection, except between two connections.   *)
ServesConn ==
    \A d \in Conns : Alive(d) /\ task[d].at \notin Between =>
        conn = task[d].rx /\ conn \in Conns

(* What the task is about to ask for is what is shown.                     *)
AsksForShown ==
    \A d \in Conns :
        /\ task[d].at = "voice" => pendingJoin = channel /\ channel \in Rooms
        /\ task[d].at = "send" => task[d].arg = Shown

\* A start or a stop is about to be queued.
AboutToQueue ==
    \/ \E s \in Slots : cmd[s].op \in {"connect", "disconnect"} /\ cmd[s].at = "stop"
    \/ \E d \in Conns : task[d].at \in {"voice", "send", "stop"}

(* The actor comes to stream to the channel shown or not at all; before a  *)
(* new connection is there, not at all.                                    *)
QueueFollows ==
    /\ AboutToQueue \/ Settles(actorq, last, Shown) \/ Settles(actorq, last, NoCall)
    /\ (\E s \in Slots : At(s, "connect", "dial")) => Settles(actorq, last, NoCall)
    /\ (\E d \in Conns : task[d].at \in {"sleep", "dialled"}) =>
         Settles(actorq, last, NoCall)

SessionInv ==
    /\ aborting = {}
    /\ SpawnedOnce /\ StartAsked /\ ServesConn /\ AsksForShown /\ QueueFollows
    /\ call \in {NoCall, last}

VoiceInv == TaskInv /\ (lates = 0 => SessionInv)

(***************************************************************************)
(* Type correctness.                                                       *)
(***************************************************************************)

LEMMA Constants ==
  /\ MaxConns \in Nat \ {0} /\ ActorCap \in Nat \ {0}
  /\ Echo \notin Rooms /\ None \notin Rooms /\ Echo # None
  /\ Timer \notin Slots
  /\ NoConn \notin Conns /\ NoCall \in Params
  BY DesktopAssumption DEF Conns, NoConn, NoCall, Params, Timer

LEMMA TaskFields ==
  ASSUME NEW t \in Tasks
  PROVE  /\ t = [at |-> t.at, rx |-> t.rx, arg |-> t.arg]
         /\ t.rx \in Conns \union {NoConn}
         /\ t.arg \in ToClient \union Params \union {None}
         /\ t.at \in Waits \union {"none", "dead", "handle", "send", "echosend"}
         /\ t.at \notin {"none", "dead"} => t.rx \in Conns
         /\ t.at = "handle" => t.arg \in ToClient
         /\ t.at \in {"send", "echosend"} => t.arg \in Params
  <1>1. CASE t \in [at : {"none", "dead"}, rx : Conns \union {NoConn},
                    arg : ToClient \union Params \union {None}]
    BY <1>1
  <1>2. CASE t \in [at : Waits, rx : Conns, arg : ToClient \union Params \union {None}]
    BY <1>2 DEF Waits
  <1>3. CASE t \in [at : {"handle"}, rx : Conns, arg : ToClient]
    BY <1>3
  <1>4. CASE t \in [at : {"send", "echosend"}, rx : Conns, arg : Params]
    BY <1>4
  <1> QED
    BY <1>1, <1>2, <1>3, <1>4 DEF Tasks

LEMMA SentTyped ==
  ASSUME Types, NEW m \in ToServer, toServer' = Sent(m)
  PROVE  toServer' \in [Conns -> Seq(ToServer)]
  <1>1. toServer \in [Conns -> Seq(ToServer)]
    BY DEF Types
  <1>2. CASE conn # NoConn /\ link[conn] = "up"
    <2>1. conn \in Conns /\ toServer[conn] \in Seq(ToServer)
      BY <1>2, <1>1 DEF Types
    <2>2. Append(toServer[conn], m) \in Seq(ToServer)
      BY <2>1
    <2>3. toServer' = [toServer EXCEPT ![conn] = Append(toServer[conn], m)]
      BY <1>2 DEF Sent
    <2> QED
      BY <1>1, <2>1, <2>2, <2>3
  <1>3. CASE ~(conn # NoConn /\ link[conn] = "up")
    BY <1>1, <1>3 DEF Sent
  <1> QED
    BY <1>2, <1>3

LEMMA EnqueueTyped ==
  ASSUME Types, NEW e \in Entries, Enqueue(e)
  PROVE  /\ actorq' \in Seq(Entries)
         /\ Len(actorq') = Len(actorq) + 1
         /\ \A i \in 1..Len(actorq) : actorq'[i] = actorq[i]
         /\ actorq'[Len(actorq) + 1] = e
  BY DEF Types, Enqueue

LEMMA TakenTyped ==
  ASSUME Types, NEW op, ActorTakes(op)
  PROVE  /\ actorq' \in Seq(Entries)
         /\ actorq # <<>> /\ actorq[1] = Head(actorq)
         /\ actorq[1] \in Entries /\ actorq[1].op = op
         /\ Len(actorq) \in Nat \ {0} /\ Len(actorq') = Len(actorq) - 1
         /\ \A i \in 1..Len(actorq') : actorq'[i] = actorq[i + 1]
  BY DEF Types, ActorTakes

LEMMA GoesTyped ==
  ASSUME Types, NEW d \in Conns, NEW at, NEW rx, NEW arg,
         [at |-> at, rx |-> rx, arg |-> arg] \in Tasks,
         Goes(d, at, rx, arg)
  PROVE  /\ task' \in [Conns -> Tasks]
         /\ \A e \in Conns \ {d} : task'[e] = task[e]
         /\ d \notin aborting => task'[d] = [at |-> at, rx |-> rx, arg |-> arg]
         /\ task'[d].at \in {at, "dead"}
  <1>1. [NoTask EXCEPT !.at = "dead"] \in Tasks
    BY DEF NoTask, Tasks
  <1>2. task \in [Conns -> Tasks]
    BY DEF Types
  <1>3. CASE d \in aborting /\ at \in Parked
    <2>1. task' = [task EXCEPT ![d] = [NoTask EXCEPT !.at = "dead"]]
      BY <1>3 DEF Goes
    <2>2. [NoTask EXCEPT !.at = "dead"].at = "dead"
      BY DEF NoTask
    <2> QED
      BY <1>1, <1>2, <1>3, <2>1, <2>2
  <1>4. CASE ~(d \in aborting /\ at \in Parked)
    <2>1. task' = [task EXCEPT ![d] = [at |-> at, rx |-> rx, arg |-> arg]]
      BY <1>4 DEF Goes
    <2> QED
      BY <1>2, <2>1
  <1> QED
    BY <1>3, <1>4

LEMMA KilledTyped ==
  ASSUME Types, NEW d \in Conns, task' = Killed(d)
  PROVE  /\ task' \in [Conns -> Tasks]
         /\ \A e \in Conns \ {d} : task'[e] = task[e]
         /\ task'[d].at = "dead" /\ ~Alive(d)'
  <1>1. task \in [Conns -> Tasks] /\ task[d] \in Tasks
    BY DEF Types
  <1>2. /\ [task[d] EXCEPT !.at = "dead"] \in Tasks
        /\ [task[d] EXCEPT !.at = "dead"].at = "dead"
    <2>1. [task[d] EXCEPT !.at = "dead"] = [at |-> "dead", rx |-> task[d].rx, arg |-> task[d].arg]
      BY <1>1, TaskFields
    <2>2. [at |-> "dead", rx |-> task[d].rx, arg |-> task[d].arg] \in Tasks
      BY <1>1, TaskFields DEF Tasks
    <2> QED
      BY <2>1, <2>2
  <1>3. task' = [task EXCEPT ![d] = [task[d] EXCEPT !.at = "dead"]]
    BY DEF Killed
  <1> QED
    BY <1>1, <1>2, <1>3 DEF Alive

LEMMA WokenTyped ==
  ASSUME Types, NEW d \in Conns, NEW at \in {"recv", "echostarted"}, task' = Woken(d, at)
  PROVE  /\ task' \in [Conns -> Tasks]
         /\ \A e \in Conns \ {d} : task'[e] = task[e]
         /\ ~Alive(d) => task'[d] = task[d]
         /\ Alive(d) => task'[d].at = at /\ task'[d].rx = task[d].rx
  <1>1. task \in [Conns -> Tasks] /\ task[d] \in Tasks
    BY DEF Types
  <1>2. CASE Alive(d)
    <2>1. /\ [task[d] EXCEPT !.at = at] = [at |-> at, rx |-> task[d].rx, arg |-> task[d].arg]
          /\ task[d].rx \in Conns
      BY <1>1, <1>2, TaskFields DEF Alive
    <2>2. [at |-> at, rx |-> task[d].rx, arg |-> task[d].arg] \in Tasks
      BY <1>1, <2>1, TaskFields DEF Tasks, Waits
    <2>3. task' = [task EXCEPT ![d] = [task[d] EXCEPT !.at = at]]
      BY <1>2 DEF Woken
    <2> QED
      BY <1>1, <1>2, <2>1, <2>2, <2>3
  <1>3. CASE ~Alive(d)
    BY <1>1, <1>3 DEF Woken
  <1> QED
    BY <1>2, <1>3

LEMMA DialTyped ==
  ASSUME Types, NEW k \in Conns, Dial(k)
  PROVE  /\ link' \in [Conns -> {"new", "up", "closed"}]
         /\ link[k] = "new" /\ link'[k] = "up"
         /\ \A j \in Conns \ {k} : link'[j] = link[j]
         /\ UNCHANGED <<toServer, toClient, room>>
  BY DEF Types, Dial, Fresh

LEMMA CommandTyped ==
  ASSUME Types, NEW s \in Slots, NEW c \in Commanded, cmd' = [cmd EXCEPT ![s] = c]
  PROVE  /\ cmd' \in [Slots -> Commanded]
         /\ cmd'[s] = c
         /\ \A t \in Slots \ {s} : cmd'[t] = cmd[t]
  BY DEF Types

LEMMA AbortTyped ==
  ASSUME Types, AbortDrain
  PROVE  /\ task' \in [Conns -> Tasks]
         /\ aborting' \subseteq Conns /\ aborting \subseteq aborting'
         /\ lates' \in Nat /\ lates <= lates'
         /\ \A d \in Conns : Alive(d)' => Alive(d)
         /\ \A d \in Conns : (Alive(d)' /\ d = drainHandle) => d \in aborting'
         /\ \A d \in Conns : Alive(d)' => task'[d] = task[d]
         /\ \A d \in Conns : task'[d].at \in {task[d].at, "dead"}
         /\ lates' = 0 => lates = 0 /\ aborting' = aborting
  <1>1. CASE drainHandle # NoConn /\ task' = Killed(drainHandle) /\ UNCHANGED <<aborting, lates>>
    <2>1. drainHandle \in Conns
      BY <1>1 DEF Types
    <2>2. /\ task' \in [Conns -> Tasks] /\ task'[drainHandle].at = "dead"
          /\ \A d \in Conns \ {drainHandle} : task'[d] = task[d]
      BY <1>1, <2>1, KilledTyped
    <2>3. \A d \in Conns : (d = drainHandle /\ ~Alive(d)') \/ task'[d] = task[d]
      BY <2>2 DEF Alive
    <2>4. aborting' = aborting /\ lates' = lates /\ aborting \subseteq Conns /\ lates \in Nat
      BY <1>1 DEF Types
    <2>5. \A d \in Conns : Alive(d)' => Alive(d) /\ task'[d] = task[d] /\ d # drainHandle
      BY <2>2, <2>3 DEF Alive
    <2>6. \A d \in Conns : task'[d].at \in {task[d].at, "dead"}
      BY <2>2
    <2> QED
      BY <2>2, <2>4, <2>5, <2>6
  <1>2. CASE /\ drainHandle # NoConn /\ lates' = lates + 1
             /\ aborting' = aborting \union {drainHandle} /\ UNCHANGED task
    BY <1>2 DEF Types, Alive
  <1>3. CASE drainHandle = NoConn /\ UNCHANGED <<task, aborting, lates>>
    BY <1>3, Constants DEF Types, Alive
  <1> QED
    BY <1>1, <1>2, <1>3 DEF AbortDrain

LEMMA CommandTypes ==
  ASSUME Types, NEW s \in Slots, User(s) \/ CommandSteps(s)
  PROVE  Types'
  <1>0. cmd[s] \in Commanded
    BY DEF Types
  <1>1. CASE Connect(s) \/ Disconnect(s)
    <2>1. \E c \in Commanded : cmd' = [cmd EXCEPT ![s] = c]
      <3>1. /\ [op |-> "connect", at |-> "stop", arg |-> None] \in Commanded
            /\ [op |-> "disconnect", at |-> "stop", arg |-> None] \in Commanded
        BY DEF Commanded
      <3> QED
        BY <1>1, <3>1 DEF Connect, Disconnect, Begin
    <2>2. cmd' \in [Slots -> Commanded]
      BY <2>1, CommandTyped
    <2>3. AbortDrain /\ conn' = NoConn /\ channel' = None /\ pendingJoin' = None
          /\ drainHandle' = NoConn /\ UNCHANGED <<netVars, actorVars>>
      BY <1>1 DEF Connect, Disconnect, ClearSession
    <2> QED
      BY <2>2, <2>3, AbortTyped DEF Types, netVars, actorVars
  <1>2. CASE StopsVoice(s)
    <2>1. [op |-> "stop"] \in Entries
      BY DEF Entries
    <2>2. actorq' \in Seq(Entries)
      BY <1>2, <2>1, EnqueueTyped DEF StopsVoice
    <2>3. CASE cmd[s].op = "connect"
      <3>1. [[cmd[s] EXCEPT !.at = "dial"] EXCEPT !.arg = cmd[s].arg] \in Commanded
        BY <1>0, <1>2, <2>3 DEF Commanded, StopsVoice
      <3>2. cmd' = [cmd EXCEPT ![s] = [cmd[s] EXCEPT !.at = "dial", !.arg = cmd[s].arg]]
        BY <1>2, <2>3 DEF StopsVoice, Continue
      <3>3. cmd' \in [Slots -> Commanded]
        BY <3>1, <3>2, CommandTyped
      <3> QED
        BY <1>2, <2>2, <3>3 DEF StopsVoice, Types, netVars, coreVars, timerVars
    <2>4. CASE cmd[s].op # "connect"
      <3>1. cmd' = [cmd EXCEPT ![s] = NoCmd] /\ NoCmd \in Commanded
        BY <1>2, <2>4 DEF StopsVoice, Done, NoCmd, Commanded
      <3>2. cmd' \in [Slots -> Commanded]
        BY <3>1, CommandTyped
      <3> QED
        BY <1>2, <2>2, <3>2 DEF StopsVoice, Types, netVars, coreVars, timerVars
    <2> QED
      BY <2>3, <2>4
  <1>3. CASE ConnectDialled(s)
    <2>1. CASE \E k \in Fresh : Dial(k) /\ conn' = k /\ Continue(s, "spawn", k)
      <3>1. PICK k \in Conns : Dial(k) /\ conn' = k /\ Continue(s, "spawn", k)
        BY <2>1 DEF Fresh
      <3>2. cmd[s].op = "connect" /\ cmd[s].at = "dial"
        BY <1>3 DEF ConnectDialled, At
      <3>3. [cmd[s] EXCEPT !.at = "spawn", !.arg = k] \in Commanded
        BY <1>0, <3>2 DEF Commanded
      <3>4. cmd' \in [Slots -> Commanded]
        BY <3>1, <3>3, CommandTyped DEF Continue
      <3> QED
        BY <1>3, <3>1, <3>4, DialTyped DEF ConnectDialled, Types, actorVars
    <2>2. CASE Done(s) /\ conn' = NoConn /\ UNCHANGED netVars
      <3>1. NoCmd \in Commanded
        BY DEF NoCmd, Commanded
      <3>2. cmd' \in [Slots -> Commanded]
        BY <2>2, <3>1, CommandTyped DEF Done
      <3> QED
        BY <1>3, <2>2, <3>2 DEF ConnectDialled, Types, actorVars, netVars
    <2> QED
      BY <1>3, <2>1, <2>2 DEF ConnectDialled
  <1>4. CASE ConnectSpawns(s)
    <2>1. cmd[s].op = "connect" /\ cmd[s].at = "spawn" /\ cmd[s].arg \in Conns
      BY <1>0, <1>4 DEF Commanded, ConnectSpawns, At
    <2>2. [cmd[s] EXCEPT !.at = "handle", !.arg = cmd[s].arg] \in Commanded
      BY <1>0, <2>1 DEF Commanded
    <2>3. cmd' \in [Slots -> Commanded]
      BY <1>4, <2>2, CommandTyped DEF ConnectSpawns, Continue
    <2>4. [at |-> "recv", rx |-> cmd[s].arg, arg |-> None] \in Tasks
      BY <2>1 DEF Tasks, Waits
    <2> QED
      BY <1>4, <2>1, <2>3, <2>4 DEF ConnectSpawns, Types, netVars, coreVars, actorVars
  <1>5. CASE ConnectKeepsHandle(s)
    <2>1. cmd[s].arg \in Conns
      BY <1>0, <1>5 DEF Commanded, ConnectKeepsHandle, At
    <2>2. NoCmd \in Commanded
      BY DEF NoCmd, Commanded
    <2>3. cmd' \in [Slots -> Commanded]
      BY <1>5, <2>2, CommandTyped DEF ConnectKeepsHandle, Done
    <2> QED
      BY <1>5, <2>1, <2>3 DEF ConnectKeepsHandle, Types, netVars, actorVars
  <1>6. CASE CommandSends(s)
    <2>1. [cmd |-> cmd[s].op, ch |-> None] \in ToServer
      BY <1>0, <1>6 DEF Commanded, CommandSends, ToServer
    <2>2. toServer' \in [Conns -> Seq(ToServer)]
      BY <1>6, <2>1, SentTyped DEF CommandSends
    <2>3. NoCmd \in Commanded
      BY DEF NoCmd, Commanded
    <2>4. cmd' \in [Slots -> Commanded]
      BY <1>6, <2>3, CommandTyped DEF CommandSends, Done
    <2> QED
      BY <1>6, <2>2, <2>4 DEF CommandSends, Types, coreVars, actorVars
  <1>7. CASE LeaveChannel(s)
    <2>1. /\ [op |-> "stop"] \in Entries
          /\ [op |-> "leave", at |-> "send", arg |-> None] \in Commanded
      BY DEF Entries, Commanded
    <2>2. actorq' \in Seq(Entries)
      BY <1>7, <2>1, EnqueueTyped DEF LeaveChannel
    <2>3. cmd' \in [Slots -> Commanded]
      BY <1>7, <2>1, CommandTyped DEF LeaveChannel, Begin
    <2> QED
      BY <1>7, <2>2, <2>3 DEF LeaveChannel, Types, netVars, coreVars
  <1>8. CASE StartEchoTest(s)
    <2>1. [op |-> "echo", at |-> "send", arg |-> None] \in Commanded
      BY DEF Commanded
    <2>2. cmd' \in [Slots -> Commanded]
      BY <1>8, <2>1, CommandTyped DEF StartEchoTest, Begin
    <2> QED
      BY <1>8, <2>2 DEF StartEchoTest, Types, netVars, coreVars, actorVars
  <1>9. CASE CancelEchoTest(s)
    <2>1. /\ [op |-> "echostop", by |-> s] \in Entries
          /\ [op |-> "stopecho", at |-> "reply", arg |-> None] \in Commanded
      BY DEF Entries, Commanded
    <2>2. actorq' \in Seq(Entries)
      BY <1>9, <2>1, EnqueueTyped DEF CancelEchoTest
    <2>3. cmd' \in [Slots -> Commanded]
      BY <1>9, <2>1, CommandTyped DEF CancelEchoTest, Begin
    <2> QED
      BY <1>9, <2>2, <2>3 DEF CancelEchoTest, Types, netVars, coreVars
  <1> QED
    BY <1>1, <1>2, <1>3, <1>4, <1>5, <1>6, <1>7, <1>8, <1>9 DEF User, CommandSteps

\* A drain step that concerns the session and the server only.
DrainKeeps == UNCHANGED <<aborting, cmd, lates>>

LEMMA DrainGoes ==
  ASSUME Types, NEW d \in Conns, NEW at, NEW rx, NEW arg,
         [at |-> at, rx |-> rx, arg |-> arg] \in Tasks, Goes(d, at, rx, arg), DrainKeeps,
         link' \in [Conns -> {"new", "up", "closed"}],
         toServer' \in [Conns -> Seq(ToServer)], toClient' \in [Conns -> Seq(ToClient)],
         conn' \in Conns \union {NoConn}, channel' \in Rooms \union {None},
         pendingJoin' \in Rooms \union {None}, drainHandle' = drainHandle,
         actorq' \in Seq(Entries), call' = call, last' = last
  PROVE  Types'
  <1>1. task' \in [Conns -> Tasks]
    BY GoesTyped
  <1> QED
    BY <1>1 DEF Types, DrainKeeps

LEMMA DrainTypes ==
  ASSUME Types, NEW d \in Conns, Drain(d) \/ AbortTakesEffect(d)
  PROVE  Types'
  <1>0. /\ task[d] \in Tasks
        /\ task[d].at \notin {"none", "dead"} => task[d].rx \in Conns
        /\ task[d].at = "handle" => task[d].arg \in ToClient
        /\ task[d].at \in {"send", "echosend"} => task[d].arg \in Params
    BY TaskFields DEF Types
  <1>t. ASSUME NEW at \in Waits, NEW rx \in Conns
        PROVE  [at |-> at, rx |-> rx, arg |-> None] \in Tasks
    BY DEF Tasks
  <1>k. UNCHANGED drainUnchanged => DrainKeeps
    BY DEF drainUnchanged, DrainKeeps
  <1>c. [conn |-> conn, ch |-> Echo] \in Params /\ [conn |-> conn, ch |-> pendingJoin] \in Params
    BY DEF Types, Params
  <1>1. CASE TakeMessage(d)
    <2> DEFINE k == task[d].rx
    <2>2. toClient[k] # <<>> /\ Goes(d, "handle", k, Head(toClient[k]))
          /\ toClient' = [toClient EXCEPT ![k] = Tail(toClient[k])]
      BY <1>1 DEF TakeMessage
    <2>3. k \in Conns
      BY <1>0, <1>1 DEF TakeMessage
    <2>4. Types'
      <3>1. toClient[k] \in Seq(ToClient)
        BY <2>3 DEF Types
      <3>2. Head(toClient[k]) \in ToClient /\ Tail(toClient[k]) \in Seq(ToClient)
        BY <2>2, <3>1
      <3>3. [at |-> "handle", rx |-> k, arg |-> Head(toClient[k])] \in Tasks
        BY <2>3, <3>2 DEF Tasks
      <3>4. toClient' \in [Conns -> Seq(ToClient)]
        BY <2>2, <2>3, <3>2 DEF Types
      <3> QED
        BY <1>1, <1>k, <2>2, <3>3, <3>4, DrainGoes DEF TakeMessage, Types, coreVars, actorVars
    <2> QED
      BY <2>4
  <1>2. CASE HandleJoinedChannel(d)
    <2>1. task[d].arg.ch \in Rooms
      BY <1>0, <1>2 DEF HandleJoinedChannel, Handles, ToClient
    <2>2. [at |-> "voice", rx |-> task[d].rx, arg |-> None] \in Tasks
      BY <1>0, <1>2, <1>t DEF HandleJoinedChannel, Handles, Waits
    <2> QED
      BY <1>2, <1>k, <2>1, <2>2, DrainGoes
         DEF HandleJoinedChannel, Types, netVars, actorVars
  <1>3. CASE SpawnVoice(d)
    <2>1. /\ [at |-> "recv", rx |-> task[d].rx, arg |-> None] \in Tasks
          /\ [at |-> "send", rx |-> task[d].rx, arg |-> [conn |-> conn, ch |-> pendingJoin]]
                \in Tasks
      BY <1>0, <1>3, <1>c, <1>t DEF SpawnVoice, Waits, Tasks
    <2> QED
      BY <1>3, <1>k, <2>1, DrainGoes DEF SpawnVoice, Types, netVars, actorVars
  <1>4. CASE SendStart(d)
    <2>1. [op |-> "start", by |-> d, p |-> task[d].arg] \in Entries
      BY <1>0, <1>4 DEF SendStart, Entries
    <2>2. actorq' \in Seq(Entries)
      BY <1>4, <2>1, EnqueueTyped DEF SendStart
    <2>3. [at |-> "await", rx |-> task[d].rx, arg |-> None] \in Tasks
      BY <1>0, <1>4, <1>t DEF SendStart, Waits
    <2> QED
      BY <1>4, <1>k, <2>2, <2>3, DrainGoes DEF SendStart, Types, netVars, coreVars
  <1>5. CASE HandleEchoTestReady(d)
    <2>1. /\ [at |-> "recv", rx |-> task[d].rx, arg |-> None] \in Tasks
          /\ [at |-> "echosend", rx |-> task[d].rx, arg |-> [conn |-> conn, ch |-> Echo]]
                \in Tasks
      BY <1>0, <1>5, <1>c, <1>t DEF HandleEchoTestReady, Handles, Waits, Tasks
    <2> QED
      BY <1>5, <1>k, <2>1, DrainGoes
         DEF HandleEchoTestReady, Types, netVars, coreVars, actorVars
  <1>6. CASE SendEchoStart(d)
    <2>1. [op |-> "echostart", by |-> d, p |-> task[d].arg] \in Entries
      BY <1>0, <1>6 DEF SendEchoStart, Entries
    <2>2. actorq' \in Seq(Entries)
      BY <1>6, <2>1, EnqueueTyped DEF SendEchoStart
    <2>3. [at |-> "echoawait", rx |-> task[d].rx, arg |-> None] \in Tasks
      BY <1>0, <1>6, <1>t DEF SendEchoStart, Waits
    <2> QED
      BY <1>6, <1>k, <2>2, <2>3, DrainGoes DEF SendEchoStart, Types, netVars, coreVars
  <1>7. CASE ArmTimer(d)
    <2>1. [at |-> "recv", rx |-> task[d].rx, arg |-> None] \in Tasks
      BY <1>0, <1>7, <1>t DEF ArmTimer, Waits
    <2> QED
      BY <1>7, <2>1, DrainGoes
         DEF ArmTimer, DrainKeeps, Types, netVars, coreVars, actorVars
  <1>8. CASE HandleLeftChannel(d)
    <2>1. [op |-> "stop"] \in Entries
      BY DEF Entries
    <2>2. actorq' \in Seq(Entries)
      BY <1>8, <2>1, EnqueueTyped DEF HandleLeftChannel
    <2>3. [at |-> "recv", rx |-> task[d].rx, arg |-> None] \in Tasks
      BY <1>0, <1>8, <1>t DEF HandleLeftChannel, Handles, Waits
    <2> QED
      BY <1>8, <1>k, <2>2, <2>3, DrainGoes DEF HandleLeftChannel, Types, netVars
  <1>9. CASE HandleChannelCreated(d)
    <2>1. task[d].arg.ch \in Rooms
      BY <1>0, <1>9 DEF HandleChannelCreated, Handles, ToClient
    <2>2. [cmd |-> "join", ch |-> task[d].arg.ch] \in ToServer
      BY <2>1 DEF ToServer
    <2>3. toServer' \in [Conns -> Seq(ToServer)]
      BY <1>9, <2>2, SentTyped DEF HandleChannelCreated
    <2>4. [at |-> "recv", rx |-> task[d].rx, arg |-> None] \in Tasks
      BY <1>0, <1>9, <1>t DEF HandleChannelCreated, Handles, Waits
    <2> QED
      BY <1>9, <1>k, <2>3, <2>4, DrainGoes
         DEF HandleChannelCreated, Types, coreVars, actorVars
  <1>10. CASE HandleOther(d) \/ ConnectionLost(d)
    <2>1. /\ [at |-> "recv", rx |-> task[d].rx, arg |-> None] \in Tasks
          /\ [at |-> "lost", rx |-> task[d].rx, arg |-> None] \in Tasks
      BY <1>0, <1>10, <1>t DEF HandleOther, ConnectionLost, Handles, Waits
    <2> QED
      BY <1>10, <1>k, <2>1, DrainGoes
         DEF HandleOther, ConnectionLost, Types, netVars, coreVars, actorVars
  <1>11. CASE TearDownSession(d)
    <2>1. [at |-> "stop", rx |-> task[d].rx, arg |-> None] \in Tasks
      BY <1>0, <1>11, <1>t DEF TearDownSession, Waits
    <2> QED
      BY <1>11, <1>k, <2>1, DrainGoes DEF TearDownSession, Types, netVars, actorVars
  <1>12. CASE TearDownVoice(d)
    <2>1. [op |-> "stop"] \in Entries
      BY DEF Entries
    <2>2. actorq' \in Seq(Entries)
      BY <1>12, <2>1, EnqueueTyped DEF TearDownVoice
    <2>3. [at |-> "sleep", rx |-> task[d].rx, arg |-> None] \in Tasks
      BY <1>0, <1>12, <1>t DEF TearDownVoice, Waits
    <2> QED
      BY <1>12, <1>k, <2>2, <2>3, DrainGoes DEF TearDownVoice, Types, netVars, coreVars
  <1>13. CASE Redial(d)
    <2>1. CASE \E k \in Fresh : Dial(k) /\ Goes(d, "dialled", k, None)
      <3>1. PICK k \in Conns : Dial(k) /\ Goes(d, "dialled", k, None)
        BY <2>1 DEF Fresh
      <3>2. [at |-> "dialled", rx |-> k, arg |-> None] \in Tasks
        BY <1>t DEF Waits
      <3> QED
        BY <1>13, <1>k, <3>1, <3>2, DialTyped, DrainGoes DEF Redial, Types, coreVars, actorVars
    <2>2. CASE Goes(d, AfterRefusal, task[d].rx, None) /\ UNCHANGED netVars
      <3>1. [at |-> AfterRefusal, rx |-> task[d].rx, arg |-> None] \in Tasks
        BY <1>0, <1>13, <1>t DEF Redial, Waits, AfterRefusal
      <3> QED
        BY <1>13, <1>k, <2>2, <3>1, DrainGoes DEF Redial, Types, netVars, coreVars, actorVars
    <2> QED
      BY <1>13, <2>1, <2>2 DEF Redial
  <1>14. CASE Reconnected(d)
    <2>1. [at |-> "recv", rx |-> task[d].rx, arg |-> None] \in Tasks
      BY <1>0, <1>14, <1>t DEF Reconnected, Waits
    <2> QED
      BY <1>0, <1>14, <1>k, <2>1, DrainGoes DEF Reconnected, Types, netVars, actorVars
  <1>15. CASE AbortTakesEffect(d)
    <2>1. task' \in [Conns -> Tasks]
      BY <1>15, KilledTyped DEF AbortTakesEffect
    <2> QED
      BY <1>15, <2>1
         DEF AbortTakesEffect, Types, netVars, coreVars, actorVars, drainUnchanged
  <1> QED
    BY <1>1, <1>2, <1>3, <1>4, <1>5, <1>6, <1>7, <1>8, <1>9, <1>10, <1>11, <1>12, <1>13,
       <1>14, <1>15 DEF Drain

LEMMA ActorTypes ==
  ASSUME Types, StopAsked, Actor
  PROVE  Types'
  <1>0. actorq # <<>> => actorq[1] = Head(actorq) /\ actorq[1] \in Entries
    BY DEF Types
  <1>1. CASE ActorStart
    <2>1. actorq' \in Seq(Entries) /\ actorq[1] = Head(actorq) /\ actorq[1] \in Entries
          /\ actorq[1].op = "start"
      BY <1>1, TakenTyped DEF ActorStart
    <2>2. actorq[1].by \in Conns /\ actorq[1].p \in Params
      BY <2>1 DEF Entries
    <2>3. task' \in [Conns -> Tasks]
      BY <1>1, <2>1, <2>2, WokenTyped DEF ActorStart
    <2>4. call' \in Params /\ last' \in Params
      BY <1>1, <2>1, <2>2, Constants DEF ActorStart
    <2> QED
      BY <1>1, <2>1, <2>3, <2>4 DEF ActorStart, ActorTakes, Types, netVars, coreVars
  <1>2. CASE ActorStop
    <2>1. actorq' \in Seq(Entries)
      BY <1>2, TakenTyped DEF ActorStop
    <2> QED
      BY <1>2, <2>1, Constants DEF ActorStop, ActorTakes, Types, netVars, coreVars
  <1>3. CASE ActorEchoStart
    <2>1. actorq' \in Seq(Entries) /\ actorq[1] = Head(actorq) /\ actorq[1] \in Entries
          /\ actorq[1].op = "echostart"
      BY <1>3, TakenTyped DEF ActorEchoStart
    <2>2. actorq[1].by \in Conns
      BY <2>1 DEF Entries
    <2>3. task' \in [Conns -> Tasks]
      BY <1>3, <2>1, <2>2, WokenTyped DEF ActorEchoStart
    <2> QED
      BY <1>3, <2>1, <2>3 DEF ActorEchoStart, ActorTakes, Types, netVars, coreVars
  <1>4. CASE ActorEchoStop
    <2>1. actorq' \in Seq(Entries) /\ actorq[1] = Head(actorq) /\ actorq[1] \in Entries
          /\ actorq[1].op = "echostop" /\ Len(actorq) \in Nat \ {0}
      BY <1>4, TakenTyped DEF ActorEchoStop
    <2>2. actorq[1].by \in Slots \union {Timer}
      BY <2>1 DEF Entries
    <2>3. cmd' \in [Slots -> Commanded]
      <3>1. CASE actorq[1].by = Timer
        BY <1>4, <2>1, <3>1 DEF ActorEchoStop, Types
      <3>2. CASE actorq[1].by \in Slots /\ actorq[1].by # Timer
        <4>1. PICK s \in Slots : s = actorq[1].by
          BY <3>2
        <4>2. At(s, "stopecho", "reply")
          BY <2>1, <4>1 DEF StopAsked, AskedBy
        <4>3. cmd[s] \in Commanded
          BY DEF Types
        <4>4. [cmd[s] EXCEPT !.at = "send", !.arg = None] \in Commanded
          BY <4>2, <4>3 DEF Commanded, At
        <4>5. cmd' = [cmd EXCEPT ![s] = [cmd[s] EXCEPT !.at = "send", !.arg = None]]
          BY <1>4, <2>1, <3>2, <4>1 DEF ActorEchoStop, Continue
        <4> QED
          BY <4>4, <4>5, CommandTyped
      <3> QED
        BY <2>2, <3>1, <3>2
    <2> QED
      BY <1>4, <2>1, <2>3 DEF ActorEchoStop, ActorTakes, Types, netVars, coreVars
  <1>5. CASE ActorSnapshot
    BY <1>5, Constants DEF ActorSnapshot, Types, netVars, coreVars
  <1> QED
    BY <1>1, <1>2, <1>3, <1>4, <1>5 DEF Actor

LEMMA AnswerTyped ==
  ASSUME Types, NEW k \in Conns, NEW r, NEW m \in ToClient, Answer(k, r, m)
  PROVE  toClient' \in [Conns -> Seq(ToClient)]
  <1>1. toClient \in [Conns -> Seq(ToClient)] /\ toClient[k] \in Seq(ToClient)
    BY DEF Types
  <1>2. Append(toClient[k], m) \in Seq(ToClient)
    BY <1>1
  <1>3. toClient' = [toClient EXCEPT ![k] = Append(toClient[k], m)] \/ toClient' = toClient
    BY DEF Answer
  <1> QED
    BY <1>1, <1>2, <1>3

LEMMA OtherTypes ==
  ASSUME Types,
         \/ \E r \in Rooms : \/ SendMsg("join", [cmd |-> "join", ch |-> r])
                             \/ SendMsg("create", [cmd |-> "create", ch |-> r])
         \/ TimerFires \/ TimerSends
         \/ \E k \in Conns : ServerHandles(k) \/ LinkLost(k)
  PROVE  Types'
  <1>1. ASSUME NEW r \in Rooms, NEW kind \in {"join", "create"},
               SendMsg(kind, [cmd |-> kind, ch |-> r])
        PROVE  Types'
    <2>1. [cmd |-> kind, ch |-> r] \in ToServer
      BY DEF ToServer
    <2>2. toServer' \in [Conns -> Seq(ToServer)]
      BY <1>1, <2>1, SentTyped DEF SendMsg
    <2> QED
      BY <1>1, <2>2 DEF SendMsg, Types, coreVars, actorVars
  <1>2. CASE TimerFires
    <2>1. [op |-> "echostop", by |-> Timer] \in Entries
      BY DEF Entries
    <2>2. actorq' \in Seq(Entries)
      BY <1>2, <2>1, EnqueueTyped DEF TimerFires
    <2> QED
      BY <1>2, <2>2 DEF TimerFires, Types, netVars, coreVars
  <1>3. CASE TimerSends
    <2>1. [cmd |-> "stopecho", ch |-> None] \in ToServer
      BY DEF ToServer
    <2>2. toServer' \in [Conns -> Seq(ToServer)]
      BY <1>3, <2>1, SentTyped DEF TimerSends
    <2> QED
      BY <1>3, <2>2 DEF TimerSends, Types, coreVars, actorVars
  <1>4. ASSUME NEW k \in Conns, ServerHandles(k)
        PROVE  Types'
    <2> DEFINE c == Head(toServer[k])
    <2>1. toServer[k] \in Seq(ToServer) /\ toServer[k] # <<>>
      BY <1>4 DEF ServerHandles, Types
    <2>2. c \in ToServer /\ Tail(toServer[k]) \in Seq(ToServer)
      BY <2>1
    <2>3. toServer' \in [Conns -> Seq(ToServer)]
      BY <1>4, <2>2 DEF ServerHandles, Types
    <2>4. c.cmd \in {"join", "create"} => c.ch \in Rooms
      BY <2>2 DEF ToServer
    <2>5. \E r : \E m \in ToClient : Answer(k, r, m)
      <3>1. CASE c.cmd = "join" /\ Answer(k, c.ch, [msg |-> "joined", ch |-> c.ch])
        BY <2>4, <3>1 DEF ToClient
      <3>2. CASE Answer(k, Echo, [msg |-> "echoready"])
        BY <3>2 DEF ToClient
      <3>3. CASE Answer(k, None, [msg |-> "left"])
        BY <3>3 DEF ToClient
      <3>4. CASE c.cmd = "create" /\ Answer(k, room[k], [msg |-> "created", ch |-> c.ch])
        BY <2>4, <3>4 DEF ToClient
      <3>5. CASE Answer(k, room[k], [msg |-> "other"])
        BY <3>5 DEF ToClient
      <3> QED
        BY <1>4, <3>1, <3>2, <3>3, <3>4, <3>5 DEF ServerHandles, CarriedOut, Refused
    <2>6. toClient' \in [Conns -> Seq(ToClient)]
      BY <2>5, AnswerTyped
    <2> QED
      BY <1>4, <2>3, <2>6 DEF ServerHandles, Types, coreVars, actorVars
  <1>5. ASSUME NEW k \in Conns, LinkLost(k)
        PROVE  Types'
    <2>1. <<>> \in Seq(ToServer)
      OBVIOUS
    <2> QED
      BY <1>5, <2>1 DEF LinkLost, Types, coreVars, actorVars
  <1> QED
    BY <1>1, <1>2, <1>3, <1>4, <1>5

(***************************************************************************)
(* Which drain tasks there are.                                            *)
(***************************************************************************)

(* The commands that clear the session, and the one that has spawned a     *)
(* task, are where they were.                                              *)
CommandQuiet ==
    \A s \in Slots :
        /\ cmd'[s].op \in {"connect", "disconnect"} => cmd'[s].op = cmd[s].op
        /\ At(s, "connect", "handle") => cmd'[s] = cmd[s]

\* No task comes to life and no abort is forgotten.
NoNewTask ==
    /\ \A d \in Conns : Alive(d)' => Alive(d)
    /\ aborting \subseteq aborting'
    /\ UNCHANGED <<drainHandle, wanted>>

LEMMA QuietStep ==
  ASSUME TaskInv, CommandQuiet, NoNewTask
  PROVE  Tracked' /\ HandleWanted'
  <1>1. Tracked'
    <2>1. ASSUME NEW d \in Conns \ aborting', Alive(d)'
          PROVE  d = drainHandle' \/ JustSpawned(d)'
      <3>1. d = drainHandle \/ JustSpawned(d)
        BY <2>1 DEF NoNewTask, TaskInv, Tracked
      <3>2. JustSpawned(d) => JustSpawned(d)'
        BY DEF CommandQuiet, JustSpawned, At
      <3> QED
        BY <3>1, <3>2 DEF NoNewTask
    <2>2. Clearing' => Clearing
      BY DEF CommandQuiet, Clearing
    <2> QED
      BY <2>1, <2>2 DEF NoNewTask, TaskInv, Tracked
  <1>2. HandleWanted'
    BY DEF CommandQuiet, NoNewTask, TaskInv, HandleWanted
  <1> QED
    BY <1>1, <1>2

LEMMA GoesAlone ==
  ASSUME Types, NEW d \in Conns, NEW at, NEW rx, NEW arg, Goes(d, at, rx, arg)
  PROVE  \A e \in Conns \ {d} : task'[e] = task[e]
  BY DEF Types, Goes

(* What a drain task queues for the actor.                                 *)
Queues(d) ==
    \/ actorq' = actorq
    \/ \E e \in Entries : e.op \in {"start", "stop", "echostart"} /\ Enqueue(e)

LEMMA DrainStep ==
  ASSUME Types, NEW d \in Conns, Drain(d) \/ AbortTakesEffect(d)
  PROVE  /\ DrainKeeps /\ NoNewTask /\ Queues(d)
         /\ Alive(d) /\ \A e \in Conns \ {d} : task'[e] = task[e]
  <1>0. task[d] \in Tasks
    BY DEF Types
  <1>1. Alive(d) /\ DrainKeeps /\ UNCHANGED <<drainHandle, wanted>>
    <2>1. CASE AbortTakesEffect(d)
      BY <2>1 DEF AbortTakesEffect, drainUnchanged, coreVars, DrainKeeps
    <2>2. CASE TakeMessage(d) \/ HandleJoinedChannel(d) \/ SpawnVoice(d) \/ SendStart(d)
               \/ HandleEchoTestReady(d) \/ SendEchoStart(d) \/ HandleLeftChannel(d)
      BY <2>2 DEF TakeMessage, HandleJoinedChannel, SpawnVoice, SendStart,
         HandleEchoTestReady, SendEchoStart, HandleLeftChannel, drainUnchanged, coreVars,
         DrainKeeps, Alive, Handles
    <2>3. CASE ArmTimer(d) \/ HandleChannelCreated(d) \/ HandleOther(d) \/ ConnectionLost(d)
               \/ TearDownSession(d) \/ TearDownVoice(d) \/ Redial(d) \/ Reconnected(d)
      BY <2>3 DEF ArmTimer, HandleChannelCreated, HandleOther, ConnectionLost,
         TearDownSession, TearDownVoice, Redial, Reconnected, drainUnchanged, coreVars,
         DrainKeeps, Alive, Handles
    <2> QED
      BY <2>1, <2>2, <2>3 DEF Drain
  <1>2. \A e \in Conns \ {d} : task'[e] = task[e]
    <2>1. CASE AbortTakesEffect(d)
      BY <2>1, KilledTyped DEF AbortTakesEffect
    <2>2. CASE Drain(d)
      <3>1. \E at, rx, arg : Goes(d, at, rx, arg)
        BY <2>2 DEF Drain, TakeMessage, HandleJoinedChannel, SpawnVoice, SendStart,
           HandleEchoTestReady, SendEchoStart, HandleLeftChannel, ArmTimer,
           HandleChannelCreated, HandleOther, ConnectionLost, TearDownSession,
           TearDownVoice, Redial, Reconnected
      <3> QED
        BY <3>1, GoesAlone
    <2> QED
      BY <2>1, <2>2
  <1>3. Queues(d)
    <2>1. CASE SendStart(d)
      <3>1. [op |-> "start", by |-> d, p |-> task[d].arg] \in Entries
        BY <1>0, <2>1, TaskFields DEF SendStart, Entries
      <3> QED
        BY <2>1, <3>1 DEF SendStart, Queues
    <2>2. CASE SendEchoStart(d)
      <3>1. [op |-> "echostart", by |-> d, p |-> task[d].arg] \in Entries
        BY <1>0, <2>2, TaskFields DEF SendEchoStart, Entries
      <3> QED
        BY <2>2, <3>1 DEF SendEchoStart, Queues
    <2>3. CASE HandleLeftChannel(d) \/ TearDownVoice(d)
      <3>1. [op |-> "stop"] \in Entries
        BY DEF Entries
      <3> QED
        BY <2>3, <3>1 DEF HandleLeftChannel, TearDownVoice, Queues
    <2>4. CASE AbortTakesEffect(d)
      BY <2>4 DEF AbortTakesEffect, actorVars, Queues
    <2>5. CASE TakeMessage(d) \/ HandleJoinedChannel(d) \/ SpawnVoice(d)
               \/ HandleEchoTestReady(d) \/ ArmTimer(d) \/ HandleChannelCreated(d)
               \/ HandleOther(d) \/ ConnectionLost(d) \/ TearDownSession(d) \/ Redial(d)
               \/ Reconnected(d)
      BY <2>5 DEF TakeMessage, HandleJoinedChannel, SpawnVoice, HandleEchoTestReady,
         ArmTimer, HandleChannelCreated, HandleOther, ConnectionLost, TearDownSession,
         Redial, Reconnected, actorVars, Queues
    <2> QED
      BY <2>1, <2>2, <2>3, <2>4, <2>5 DEF Drain
  <1> QED
    BY <1>1, <1>2, <1>3 DEF NoNewTask, DrainKeeps, Alive

\* A command that waits for the actor goes on waiting.
RepliesAwaited == \A s \in Slots : At(s, "stopecho", "reply") => cmd'[s] = cmd[s]

LEMMA StopAskedQueued ==
  ASSUME TaskInv, RepliesAwaited,
         \/ actorq' = actorq
         \/ \E e \in Entries : (e.op = "echostop" => e.by \notin Slots) /\ Enqueue(e)
  PROVE  StopAsked'
  <1>1. CASE actorq' = actorq
    BY <1>1 DEF TaskInv, StopAsked, AskedBy, RepliesAwaited, At
  <1>2. ASSUME NEW e \in Entries, e.op = "echostop" => e.by \notin Slots, Enqueue(e)
        PROVE  StopAsked'
    <2>1. /\ Len(actorq') = Len(actorq) + 1 /\ Len(actorq) \in Nat
          /\ \A i \in 1..Len(actorq) : actorq'[i] = actorq[i]
          /\ actorq'[Len(actorq) + 1] = e
      BY <1>2, EnqueueTyped DEF TaskInv, Types
    <2>2. ASSUME NEW s \in Slots, NEW i \in 1..Len(actorq'), AskedBy(s, i)'
          PROVE  i \in 1..Len(actorq) /\ AskedBy(s, i)
      <3>1. i # Len(actorq) + 1
        BY <1>2, <2>1, <2>2 DEF AskedBy
      <3> QED
        BY <2>1, <2>2, <3>1 DEF AskedBy
    <2>3. ASSUME NEW s \in Slots, NEW i \in 1..Len(actorq'), AskedBy(s, i)'
          PROVE  At(s, "stopecho", "reply")'
      BY <2>2, <2>3 DEF TaskInv, StopAsked, RepliesAwaited, At
    <2>4. ASSUME NEW s \in Slots, NEW i \in 1..Len(actorq'), AskedBy(s, i)',
                 NEW j \in 1..Len(actorq'), AskedBy(s, j)'
          PROVE  i = j
      BY <2>2, <2>4 DEF TaskInv, StopAsked
    <2> QED
      BY <2>3, <2>4 DEF StopAsked
  <1> QED
    BY <1>1, <1>2

LEMMA StopAskedTaken ==
  ASSUME TaskInv, NEW op, ActorTakes(op),
         \A s \in Slots : At(s, "stopecho", "reply") => cmd'[s] = cmd[s] \/ AskedBy(s, 1)
  PROVE  StopAsked'
  <1>1. /\ Len(actorq) \in Nat \ {0} /\ Len(actorq') = Len(actorq) - 1
        /\ \A i \in 1..Len(actorq') : actorq'[i] = actorq[i + 1]
    BY TakenTyped DEF TaskInv
  <1>2. ASSUME NEW s \in Slots, NEW i \in 1..Len(actorq'), AskedBy(s, i)'
        PROVE  i + 1 \in 1..Len(actorq) /\ AskedBy(s, i + 1)
    BY <1>1, <1>2 DEF AskedBy
  <1>3. ASSUME NEW s \in Slots, NEW i \in 1..Len(actorq'), AskedBy(s, i)'
        PROVE  At(s, "stopecho", "reply")'
    <2>1. /\ At(s, "stopecho", "reply")
          /\ \A j \in 1..Len(actorq) : AskedBy(s, j) => i + 1 = j
      BY <1>2, <1>3 DEF TaskInv, StopAsked
    <2>2. ~AskedBy(s, 1)
      BY <1>1, <2>1
    <2> QED
      BY <2>1, <2>2 DEF At
  <1>4. ASSUME NEW s \in Slots, NEW i \in 1..Len(actorq'), AskedBy(s, i)',
               NEW j \in 1..Len(actorq'), AskedBy(s, j)'
        PROVE  i = j
    <2>1. i + 1 = j + 1
      BY <1>2, <1>4 DEF TaskInv, StopAsked
    <2> QED
      BY <1>1, <2>1
  <1> QED
    BY <1>3, <1>4 DEF StopAsked

LEMMA DrainTaskInv ==
  ASSUME TaskInv, NEW d \in Conns, Drain(d) \/ AbortTakesEffect(d)
  PROVE  TaskInv'
  <1>1. DrainKeeps /\ NoNewTask /\ Queues(d)
    BY DrainStep DEF TaskInv
  <1>2. CommandQuiet /\ RepliesAwaited
    BY <1>1 DEF DrainKeeps, CommandQuiet, RepliesAwaited
  <1>3. Types'
    BY DrainTypes DEF TaskInv
  <1>4. StopAsked'
    BY <1>1, <1>2, StopAskedQueued DEF Queues
  <1> QED
    BY <1>1, <1>2, <1>3, <1>4, QuietStep DEF TaskInv

LEMMA ActorTaskInv ==
  ASSUME TaskInv, Actor
  PROVE  TaskInv'
  <1>1. Types'
    BY ActorTypes DEF TaskInv
  <1>2. CASE ActorStart \/ ActorStop \/ ActorEchoStart
    <2>1. \E op : ActorTakes(op)
      BY <1>2 DEF ActorStart, ActorStop, ActorEchoStart
    <2>2. UNCHANGED <<cmd, aborting, drainHandle, wanted>>
      BY <1>2 DEF ActorStart, ActorStop, ActorEchoStart, ActorTakes, coreVars
    <2>3. \A d \in Conns : Alive(d)' => Alive(d)
      <3>1. CASE ActorStop
        BY <3>1 DEF ActorStop, Alive
      <3>2. CASE ActorStart
        <4>1. actorq[1] = Head(actorq) /\ actorq[1].by \in Conns
          BY <3>2, TakenTyped DEF ActorStart, TaskInv, Entries
        <4>2. \A e \in Conns \ {actorq[1].by} : task'[e] = task[e]
          BY <3>2, <4>1, WokenTyped DEF ActorStart, TaskInv
        <4>3. ~Alive(actorq[1].by) => task'[actorq[1].by] = task[actorq[1].by]
          BY <3>2, <4>1, WokenTyped DEF ActorStart, TaskInv
        <4> QED
          BY <4>1, <4>2, <4>3 DEF Alive
      <3>3. CASE ActorEchoStart
        <4>1. actorq[1] = Head(actorq) /\ actorq[1].by \in Conns
          BY <3>3, TakenTyped DEF ActorEchoStart, TaskInv, Entries
        <4>2. \A e \in Conns \ {actorq[1].by} : task'[e] = task[e]
          BY <3>3, <4>1, WokenTyped DEF ActorEchoStart, TaskInv
        <4>3. ~Alive(actorq[1].by) => task'[actorq[1].by] = task[actorq[1].by]
          BY <3>3, <4>1, WokenTyped DEF ActorEchoStart, TaskInv
        <4> QED
          BY <4>1, <4>2, <4>3 DEF Alive
      <3> QED
        BY <1>2, <3>1, <3>2, <3>3
    <2>4. CommandQuiet /\ NoNewTask
      BY <2>2, <2>3 DEF CommandQuiet, NoNewTask
    <2>5. StopAsked'
      BY <2>1, <2>2, StopAskedTaken
    <2> QED
      BY <1>1, <2>4, <2>5, QuietStep DEF TaskInv
  <1>3. CASE ActorEchoStop
    <2>1. ActorTakes("echostop") /\ actorq[1] = Head(actorq) /\ actorq[1].op = "echostop"
          /\ actorq[1].by \in Slots \union {Timer} /\ Len(actorq) \in Nat \ {0}
      BY <1>3, TakenTyped DEF ActorEchoStop, TaskInv, Entries
    <2>2. UNCHANGED <<task, aborting, drainHandle, wanted>>
      BY <1>3 DEF ActorEchoStop, ActorTakes, coreVars
    <2>3. CASE actorq[1].by = Timer
      <3>1. cmd' = cmd
        BY <1>3, <2>1, <2>3 DEF ActorEchoStop
      <3>2. CommandQuiet /\ NoNewTask
        BY <2>2, <3>1 DEF CommandQuiet, NoNewTask, Alive
      <3>3. StopAsked'
        BY <2>1, <3>1, StopAskedTaken
      <3> QED
        BY <1>1, <3>2, <3>3, QuietStep DEF TaskInv
    <2>4. ASSUME NEW s \in Slots, actorq[1].by = s, s # Timer
          PROVE  TaskInv'
      <3>1. At(s, "stopecho", "reply") /\ AskedBy(s, 1)
        BY <2>1, <2>4 DEF TaskInv, StopAsked, AskedBy
      <3>2. cmd' = [cmd EXCEPT ![s] = [cmd[s] EXCEPT !.at = "send", !.arg = None]]
        BY <1>3, <2>1, <2>4 DEF ActorEchoStop, Continue
      <3>3. cmd[s] \in Commanded /\ cmd \in [Slots -> Commanded]
        BY DEF TaskInv, Types
      <3>4. cmd'[s].op = "stopecho" /\ \A t \in Slots \ {s} : cmd'[t] = cmd[t]
        BY <3>1, <3>2, <3>3 DEF Commanded, At
      <3>5. CommandQuiet /\ NoNewTask
        BY <2>2, <3>1, <3>4 DEF CommandQuiet, NoNewTask, Alive, At
      <3>6. StopAsked'
        BY <2>1, <3>1, <3>4, StopAskedTaken
      <3> QED
        BY <1>1, <3>5, <3>6, QuietStep DEF TaskInv
    <2> QED
      BY <2>1, <2>3, <2>4
  <1>4. CASE ActorSnapshot
    <2>1. UNCHANGED <<task, aborting, drainHandle, wanted, cmd, actorq>>
      BY <1>4 DEF ActorSnapshot, coreVars
    <2>2. CommandQuiet /\ NoNewTask /\ RepliesAwaited
      BY <2>1 DEF CommandQuiet, NoNewTask, RepliesAwaited, Alive
    <2>3. StopAsked'
      BY <2>1, <2>2, StopAskedQueued
    <2> QED
      BY <1>1, <2>2, <2>3, QuietStep DEF TaskInv
  <1> QED
    BY <1>2, <1>3, <1>4 DEF Actor

LEMMA OtherTaskInv ==
  ASSUME TaskInv,
         \/ \E r \in Rooms : \/ SendMsg("join", [cmd |-> "join", ch |-> r])
                             \/ SendMsg("create", [cmd |-> "create", ch |-> r])
         \/ TimerFires \/ TimerSends
         \/ \E k \in Conns : ServerHandles(k) \/ LinkLost(k)
  PROVE  TaskInv'
  <1>1. Types'
    BY OtherTypes DEF TaskInv
  <1>2. UNCHANGED <<task, aborting, drainHandle, wanted, cmd>>
    BY DEF SendMsg, TimerFires, TimerSends, ServerHandles, LinkLost, coreVars
  <1>3. CommandQuiet /\ NoNewTask /\ RepliesAwaited
    BY <1>2 DEF CommandQuiet, NoNewTask, RepliesAwaited, Alive
  <1>4. actorq' = actorq \/ Enqueue([op |-> "echostop", by |-> Timer])
    BY DEF SendMsg, TimerFires, TimerSends, ServerHandles, LinkLost, actorVars
  <1>5. [op |-> "echostop", by |-> Timer] \in Entries
    BY DEF Entries
  <1>6. StopAsked'
    BY <1>3, <1>4, <1>5, Constants, StopAskedQueued
  <1> QED
    BY <1>1, <1>3, <1>6, QuietStep DEF TaskInv

LEMMA CommandTaskInv ==
  ASSUME OneCommand, TaskInv, NEW s \in Slots, User(s) \/ CommandSteps(s)
  PROVE  TaskInv'
  <1>0. /\ Types' /\ cmd \in [Slots -> Commanded] /\ cmd[s] \in Commanded
        /\ \A t \in Slots : t = s
    BY CommandTypes DEF TaskInv, Types, OneCommand
  <1>1. CASE Connect(s) \/ Disconnect(s)
    <2>1. /\ cmd[s] = NoCmd /\ cmd'[s].op \in {"connect", "disconnect"}
          /\ cmd'[s].op = "connect" => wanted' = TRUE
          /\ drainHandle' = NoConn /\ AbortDrain /\ actorq' = actorq
      BY <1>0, <1>1 DEF Connect, Disconnect, Begin, ClearSession, actorVars
    <2>2. ~Clearing /\ \A d \in Conns : ~JustSpawned(d)
      BY <1>0, <2>1 DEF Clearing, JustSpawned, At, NoCmd
    <2>3. \A d \in Conns \ aborting' : ~Alive(d)'
      BY <2>1, <2>2, AbortTyped DEF TaskInv, Tracked
    <2>4. Tracked'
      BY <2>1, <2>3 DEF Tracked
    <2>5. HandleWanted'
      BY <1>0, <2>1 DEF HandleWanted
    <2>6. RepliesAwaited
      BY <1>0, <2>1 DEF RepliesAwaited, At, NoCmd
    <2>7. StopAsked'
      BY <2>1, <2>6, StopAskedQueued
    <2> QED
      BY <1>0, <2>4, <2>5, <2>7 DEF TaskInv
  <1>2. CASE StopsVoice(s) \/ ConnectDialled(s) \/ CommandSends(s) \/ LeaveChannel(s)
             \/ StartEchoTest(s)
    <2>1. UNCHANGED <<task, aborting, drainHandle, wanted>>
      BY <1>2 DEF StopsVoice, ConnectDialled, CommandSends, LeaveChannel, StartEchoTest, coreVars
    <2>2. /\ ~At(s, "connect", "handle") /\ ~At(s, "stopecho", "reply")
          /\ cmd'[s].op \in {"connect", "disconnect"} => cmd'[s].op = cmd[s].op
      <3>1. CASE StopsVoice(s)
        <4>1. cmd[s].op \in {"connect", "disconnect"} /\ cmd[s].at = "stop"
          BY <3>1 DEF StopsVoice
        <4>2. CASE cmd' = [cmd EXCEPT ![s] = [cmd[s] EXCEPT !.at = "dial", !.arg = cmd[s].arg]]
          BY <1>0, <4>1, <4>2 DEF Commanded, At
        <4>3. CASE cmd' = [cmd EXCEPT ![s] = NoCmd]
          BY <1>0, <4>1, <4>3 DEF NoCmd, At
        <4> QED
          BY <3>1, <4>2, <4>3 DEF StopsVoice, Continue, Done
      <3>2. CASE ConnectDialled(s)
        <4>1. cmd[s].op = "connect" /\ cmd[s].at = "dial"
          BY <3>2 DEF ConnectDialled, At
        <4>2. ASSUME NEW k, cmd' = [cmd EXCEPT ![s] = [cmd[s] EXCEPT !.at = "spawn", !.arg = k]]
              PROVE  cmd'[s].op = "connect"
          BY <1>0, <4>1, <4>2 DEF Commanded
        <4>3. CASE cmd' = [cmd EXCEPT ![s] = NoCmd]
          BY <1>0, <4>1, <4>3 DEF NoCmd, At
        <4> QED
          BY <3>2, <4>1, <4>2, <4>3 DEF ConnectDialled, Continue, Done, At
      <3>3. CASE CommandSends(s)
        BY <1>0, <3>3 DEF CommandSends, Done, NoCmd, At, Commanded
      <3>4. CASE LeaveChannel(s) \/ StartEchoTest(s)
        BY <1>0, <3>4 DEF LeaveChannel, StartEchoTest, Begin, NoCmd, At
      <3> QED
        BY <1>2, <3>1, <3>2, <3>3, <3>4
    <2>3. CommandQuiet /\ RepliesAwaited /\ NoNewTask
      BY <1>0, <2>1, <2>2 DEF CommandQuiet, RepliesAwaited, NoNewTask, Alive
    <2>4. actorq' = actorq \/ Enqueue([op |-> "stop"])
      BY <1>2 DEF StopsVoice, ConnectDialled, CommandSends, LeaveChannel, StartEchoTest, actorVars
    <2>5. [op |-> "stop"] \in Entries
      BY DEF Entries
    <2>6. StopAsked'
      BY <2>3, <2>4, <2>5, StopAskedQueued
    <2> QED
      BY <1>0, <2>3, <2>6, QuietStep DEF TaskInv
  <1>3. CASE ConnectSpawns(s)
    <2>1. /\ At(s, "connect", "spawn") /\ cmd[s].arg \in Conns
          /\ cmd' = [cmd EXCEPT ![s] = [cmd[s] EXCEPT !.at = "handle", !.arg = cmd[s].arg]]
          /\ UNCHANGED <<drainHandle, wanted, aborting, actorq>>
          /\ \A e \in Conns \ {cmd[s].arg} : task'[e] = task[e]
      BY <1>0, <1>3 DEF ConnectSpawns, Continue, At, Commanded, coreVars, actorVars, TaskInv, Types
    <2>2. At(s, "connect", "handle")' /\ cmd'[s].arg = cmd[s].arg
      BY <1>0, <2>1 DEF At, Commanded
    <2>3. Tracked'
      <3>1. ASSUME NEW d \in Conns \ aborting', Alive(d)'
            PROVE  d = drainHandle' \/ JustSpawned(d)'
        <4>1. CASE d = cmd[s].arg
          BY <2>2, <4>1 DEF JustSpawned
        <4>2. CASE d # cmd[s].arg
          <5>1. Alive(d) /\ ~JustSpawned(d)
            BY <1>0, <2>1, <3>1, <4>2 DEF Alive, JustSpawned, At
          <5> QED
            BY <2>1, <3>1, <5>1 DEF TaskInv, Tracked
        <4> QED
          BY <4>1, <4>2
      <3>2. Clearing
        BY <2>1 DEF Clearing, At
      <3> QED
        BY <2>1, <3>1, <3>2 DEF TaskInv, Tracked
    <2>4. HandleWanted'
      BY <1>0, <2>1 DEF TaskInv, HandleWanted, At
    <2>5. RepliesAwaited
      BY <1>0, <2>1 DEF RepliesAwaited, At
    <2>6. StopAsked'
      BY <2>1, <2>5, StopAskedQueued
    <2> QED
      BY <1>0, <2>3, <2>4, <2>6 DEF TaskInv
  <1>4. CASE ConnectKeepsHandle(s)
    <2>1. /\ At(s, "connect", "handle") /\ drainHandle' = cmd[s].arg /\ cmd'[s] = NoCmd
          /\ UNCHANGED <<wanted, aborting, task, actorq>>
      BY <1>0, <1>4 DEF ConnectKeepsHandle, Done, actorVars
    <2>2. Tracked'
      <3>1. ASSUME NEW d \in Conns \ aborting', Alive(d)'
            PROVE  d = drainHandle' 
        <4>1. d = drainHandle \/ JustSpawned(d)
          BY <2>1, <3>1 DEF TaskInv, Tracked, Alive
        <4>2. drainHandle = NoConn /\ d # NoConn
          BY <2>1, Constants DEF TaskInv, Tracked, Clearing, At
        <4> QED
          BY <1>0, <2>1, <4>1, <4>2 DEF JustSpawned
      <3>2. ~Clearing'
        BY <1>0, <2>1 DEF Clearing, NoCmd
      <3> QED
        BY <3>1, <3>2 DEF Tracked
    <2>3. HandleWanted'
      BY <1>0, <2>1 DEF TaskInv, HandleWanted, At, NoCmd
    <2>4. RepliesAwaited
      BY <1>0, <2>1 DEF RepliesAwaited, At
    <2>5. StopAsked'
      BY <2>1, <2>4, StopAskedQueued
    <2> QED
      BY <1>0, <2>2, <2>3, <2>5 DEF TaskInv
  <1>5. CASE CancelEchoTest(s)
    <2>1. /\ cmd[s] = NoCmd /\ At(s, "stopecho", "reply")'
          /\ UNCHANGED <<task, aborting, drainHandle, wanted>>
          /\ Enqueue([op |-> "echostop", by |-> s])
      BY <1>0, <1>5 DEF CancelEchoTest, Begin, At, coreVars
    <2>2. CommandQuiet /\ NoNewTask
      BY <1>0, <2>1 DEF CommandQuiet, NoNewTask, Alive, At, NoCmd
    <2>3. [op |-> "echostop", by |-> s] \in Entries
      BY DEF Entries
    <2>4. /\ Len(actorq') = Len(actorq) + 1 /\ Len(actorq) \in Nat
          /\ \A i \in 1..Len(actorq) : actorq'[i] = actorq[i]
      BY <2>1, <2>3, EnqueueTyped DEF TaskInv, Types
    <2>5. \A i \in 1..Len(actorq) : ~AskedBy(s, i)
      BY <2>1 DEF TaskInv, StopAsked, At, NoCmd
    <2>6. \A i \in 1..Len(actorq') : AskedBy(s, i)' => i = Len(actorq) + 1
      BY <2>4, <2>5 DEF AskedBy
    <2>7. StopAsked'
      BY <1>0, <2>1, <2>6 DEF StopAsked
    <2> QED
      BY <1>0, <2>2, <2>7, QuietStep DEF TaskInv
  <1> QED
    BY <1>1, <1>2, <1>3, <1>4, <1>5 DEF User, CommandSteps

LEMMA TaskInvInit ==
  ASSUME Init
  PROVE  TaskInv
  <1>1. Types
    <2>1. NoTask \in Tasks /\ NoCmd \in Commanded
      BY DEF NoTask, Tasks, NoCmd, Commanded
    <2> QED
      BY <2>1, Constants DEF Init, Types
  <1>2. \A d \in Conns : ~Alive(d)
    BY DEF Init, Alive, NoTask
  <1>3. Tracked /\ HandleWanted
    BY <1>2 DEF Init, Tracked, HandleWanted, Clearing, NoCmd
  <1>4. StopAsked
    BY DEF Init, StopAsked
  <1> QED
    BY <1>1, <1>3, <1>4 DEF TaskInv

LEMMA TaskInvUnchanged ==
  ASSUME TaskInv, UNCHANGED vars
  PROVE  TaskInv'
  <1>1. UNCHANGED <<link, toServer, toClient, conn, channel, pendingJoin, drainHandle, wanted,
                    task, aborting, cmd, actorq, call, last, lates>>
    BY DEF vars, netVars, coreVars, actorVars
  <1>2. Types'
    BY <1>1 DEF TaskInv, Types
  <1>3. CommandQuiet /\ NoNewTask /\ RepliesAwaited
    BY <1>1 DEF CommandQuiet, NoNewTask, RepliesAwaited, Alive
  <1>4. StopAsked'
    BY <1>1, <1>3, StopAskedQueued
  <1> QED
    BY <1>2, <1>3, <1>4, QuietStep DEF TaskInv

LEMMA TaskInvStep ==
  ASSUME OneCommand, TaskInv, [Next]_vars
  PROVE  TaskInv'
  BY CommandTaskInv, DrainTaskInv, ActorTaskInv, OtherTaskInv, TaskInvUnchanged DEF Next

(* Only a drain task that the user's last connect left running installs    *)
(* the connection it has redialled (reconnect_loop), whatever connects,    *)
(* disconnects, refusals and late aborts came before: a task that was not  *)
(* aborted is the one whose handle AppCore holds.                          *)
THEOREM OnlyWantedReconnects ==
  OneCommand => (Spec => NeverReconnectsUnwanted)
  <1> SUFFICES ASSUME OneCommand
               PROVE  Spec => NeverReconnectsUnwanted
    OBVIOUS
  <1>1. Init => TaskInv
    BY TaskInvInit
  <1>2. TaskInv /\ [Next]_vars => TaskInv'
    BY TaskInvStep
  <1>3. ASSUME TaskInv, [Next]_vars
        PROVE  [\A d \in Conns \ aborting :
                  (task[d].at = "dialled" /\ conn' = task[d].rx /\ conn # conn') => wanted]_vars
    <2>1. ASSUME NEW d \in Conns \ aborting, task[d].at = "dialled"
          PROVE  wanted
      <3>1. d = drainHandle \/ JustSpawned(d)
        BY <1>3, <2>1 DEF TaskInv, Tracked, Alive
      <3>2. d # NoConn
        BY Constants
      <3> QED
        BY <1>3, <3>1, <3>2 DEF TaskInv, HandleWanted, JustSpawned, At
    <2> QED
      BY <2>1
  <1> QED
    BY <1>1, <1>2, <1>3, PTL DEF Spec, NeverReconnectsUnwanted

(***************************************************************************)
(* What the actor's queue leaves.                                          *)
(***************************************************************************)

LEMMA SettlesQueued ==
  ASSUME NEW q \in Seq(Entries), NEW q2 \in Seq(Entries), NEW e \in Entries, NEW m,
         Len(q2) = Len(q) + 1, \A i \in 1..Len(q) : q2[i] = q[i], q2[Len(q) + 1] = e
  PROVE  /\ ForVoice(e) => Settles(q2, m, Leaves(e))
         /\ ~ForVoice(e) => \A p : Settles(q, m, p) => Settles(q2, m, p)
  <1>0. Len(q) \in Nat /\ 1..Len(q2) = 1..Len(q) \union {Len(q) + 1}
    OBVIOUS
  <1>1. ASSUME ForVoice(e)
        PROVE  Settles(q2, m, Leaves(e))
    <2>1. ASSUME NEW i \in 1..Len(q2), \A j \in i + 1..Len(q2) : ~ForVoice(q2[j])
          PROVE  q2[i] = e
      <3>1. CASE i \in 1..Len(q)
        <4>1. Len(q) + 1 \in i + 1..Len(q2)
          BY <1>0, <3>1
        <4> QED
          BY <1>1, <2>1, <4>1
      <3> QED
        BY <1>0, <3>1
    <2>2. Len(q) + 1 \in 1..Len(q2)
      BY <1>0
    <2> QED
      BY <1>1, <2>1, <2>2 DEF Settles
  <1>2. ASSUME ~ForVoice(e), NEW p, Settles(q, m, p)
        PROVE  Settles(q2, m, p)
    <2>1. ASSUME NEW i \in 1..Len(q2), ForVoice(q2[i]),
                 \A j \in i + 1..Len(q2) : ~ForVoice(q2[j])
          PROVE  Leaves(q2[i]) = p
      <3>1. i \in 1..Len(q) /\ q2[i] = q[i]
        BY <1>0, <1>2, <2>1
      <3>2. \A j \in i + 1..Len(q) : ~ForVoice(q[j])
        <4>1. \A j \in i + 1..Len(q) : j \in 1..Len(q) /\ j \in i + 1..Len(q2)
          BY <1>0, <3>1
        <4> QED
          BY <2>1, <4>1
      <3> QED
        BY <1>2, <2>1, <3>1, <3>2 DEF Settles
    <2>2. ASSUME \A i \in 1..Len(q2) : ~ForVoice(q2[i])
          PROVE  m = p
      <3>1. \A i \in 1..Len(q) : ~ForVoice(q[i])
        BY <1>0, <2>2
      <3> QED
        BY <1>2, <3>1 DEF Settles
    <2> QED
      BY <2>1, <2>2 DEF Settles
  <1> QED
    BY <1>1, <1>2

LEMMA SettlesTaken ==
  ASSUME NEW q \in Seq(Entries), NEW q2 \in Seq(Entries), NEW m, NEW p, Settles(q, m, p),
         Len(q) \in Nat \ {0}, Len(q2) = Len(q) - 1, \A i \in 1..Len(q2) : q2[i] = q[i + 1]
  PROVE  Settles(q2, IF ForVoice(q[1]) THEN Leaves(q[1]) ELSE m, p)
  <1>1. ASSUME NEW i \in 1..Len(q2), ForVoice(q2[i]),
               \A j \in i + 1..Len(q2) : ~ForVoice(q2[j])
        PROVE  Leaves(q2[i]) = p
    <2>1. i + 1 \in 1..Len(q) /\ q2[i] = q[i + 1]
      OBVIOUS
    <2>2. ASSUME NEW j \in (i + 1) + 1..Len(q)
          PROVE  ~ForVoice(q[j])
      <3>1. j - 1 \in i + 1..Len(q2) /\ j - 1 \in 1..Len(q2) /\ (j - 1) + 1 = j
        BY <2>1
      <3>2. q2[j - 1] = q[j]
        BY <3>1
      <3> QED
        BY <1>1, <3>1, <3>2
    <2> QED
      BY <1>1, <2>1, <2>2 DEF Settles
  <1>2. ASSUME \A i \in 1..Len(q2) : ~ForVoice(q2[i])
        PROVE  (IF ForVoice(q[1]) THEN Leaves(q[1]) ELSE m) = p
    <2>1. ASSUME NEW j \in 1 + 1..Len(q)
          PROVE  ~ForVoice(q[j])
      <3>1. j - 1 \in 1..Len(q2) /\ (j - 1) + 1 = j
        OBVIOUS
      <3>2. q2[j - 1] = q[j]
        BY <3>1
      <3> QED
        BY <1>2, <3>1, <3>2
    <2>2. 1 \in 1..Len(q) /\ \A j \in 1..Len(q) : j = 1 \/ j \in 1 + 1..Len(q)
      OBVIOUS
    <2>3. CASE ForVoice(q[1])
      BY <2>1, <2>2, <2>3 DEF Settles
    <2>4. CASE ~ForVoice(q[1])
      <3>1. \A j \in 1..Len(q) : ~ForVoice(q[j])
        BY <2>1, <2>2, <2>4
      <3> QED
        BY <2>4, <3>1 DEF Settles
    <2> QED
      BY <2>3, <2>4
  <1> QED
    BY <1>1, <1>2 DEF Settles

(***************************************************************************)
(* The session.                                                            *)
(***************************************************************************)

LEMMA OneAlive ==
  ASSUME OneCommand, TaskInv, aborting = {}
  PROVE  /\ \A d, e \in Conns : Alive(d) /\ Alive(e) => d = e
         /\ \A s \in Slots : (cmd[s].op \in {"connect", "disconnect"} /\ cmd[s].at # "handle")
              => \A d \in Conns : ~Alive(d)
  <1>1. \A d \in Conns : Alive(d) => d = drainHandle \/ JustSpawned(d)
    BY DEF TaskInv, Tracked
  <1>2. ASSUME NEW d \in Conns, NEW e \in Conns, Alive(d), Alive(e)
        PROVE  d = e
    <2>1. CASE JustSpawned(d) \/ JustSpawned(e)
      <3>1. drainHandle = NoConn
        BY <2>1 DEF TaskInv, Tracked, Clearing, JustSpawned, At
      <3>2. JustSpawned(d) /\ JustSpawned(e)
        BY <1>1, <1>2, <3>1, Constants
      <3> QED
        BY <3>2 DEF JustSpawned, OneCommand
    <2> QED
      BY <1>1, <1>2, <2>1
  <1>3. ASSUME NEW s \in Slots, cmd[s].op \in {"connect", "disconnect"}, cmd[s].at # "handle",
               NEW d \in Conns, Alive(d)
        PROVE  FALSE
    <2>1. drainHandle = NoConn
      BY <1>3 DEF TaskInv, Tracked, Clearing
    <2>2. ~JustSpawned(d)
      BY <1>3 DEF JustSpawned, At, OneCommand
    <2> QED
      BY <1>1, <1>3, <2>1, <2>2, Constants
  <1> QED
    BY <1>2, <1>3

\* The three ways a step may leave the queue of the starts.
StartsKept ==
    \/ actorq' = actorq
    \/ \E e \in Entries : e.op \in {"stop", "echostop"} /\ Enqueue(e)

LEMMA NothingQueued ==
  ASSUME Types, StartsKept, NEW d \in Conns
  PROVE  /\ NothingBy(d) => NothingBy(d)'
         /\ \A i \in 1..Len(actorq') : QueuedBy(d, i)' =>
              i \in 1..Len(actorq) /\ QueuedBy(d, i) /\ actorq'[i] = actorq[i]
  <1>1. CASE actorq' = actorq
    BY <1>1 DEF NothingBy, QueuedBy
  <1>2. ASSUME NEW e \in Entries, e.op \in {"stop", "echostop"}, Enqueue(e)
        PROVE  \A i \in 1..Len(actorq') : QueuedBy(d, i)' =>
                  i \in 1..Len(actorq) /\ QueuedBy(d, i) /\ actorq'[i] = actorq[i]
    <2>1. /\ Len(actorq') = Len(actorq) + 1 /\ Len(actorq) \in Nat
          /\ \A i \in 1..Len(actorq) : actorq'[i] = actorq[i]
          /\ actorq'[Len(actorq) + 1] = e
      BY <1>2, EnqueueTyped DEF Types
    <2>2. ASSUME NEW i \in 1..Len(actorq'), QueuedBy(d, i)'
          PROVE  i \in 1..Len(actorq)
      <3>1. i # Len(actorq) + 1
        BY <1>2, <2>1, <2>2 DEF QueuedBy
      <3> QED
        BY <2>1, <3>1
    <2> QED
      BY <2>1, <2>2 DEF QueuedBy
  <1> QED
    BY <1>1, <1>2 DEF StartsKept, NothingBy

\* Task d queues a start and waits for the reply.
Starts(d) ==
    \E e \in Entries : /\ e.op \in {"start", "echostart"} /\ e.by = d
                       /\ Enqueue(e) /\ task'[d].at = Awaited(e)

(* What a step of the task d has to keep.                                  *)
GoodStep(d) ==
    /\ DrainKeeps /\ call' = call /\ last' = last
    /\ \A k \in Conns : link'[k] = "new" => link[k] = "new"
    /\ StartsKept \/ Starts(d)
    /\ (Alive(d)' /\ task'[d].at \notin Between) => conn' = task'[d].rx /\ conn' \in Conns
    /\ task'[d].at = "voice" => pendingJoin' = channel' /\ channel' \in Rooms
    /\ task'[d].at = "send" => task'[d].arg = Shown'
    /\ \/ task'[d].at \in {"voice", "send", "stop"}
       \/ Settles(actorq', last', Shown') \/ Settles(actorq', last', NoCall)
    /\ task'[d].at \in {"sleep", "dialled"} => Settles(actorq', last', NoCall)

LEMMA DrainSession ==
  ASSUME OneCommand, TaskInv, SessionInv, NEW d \in Conns, Alive(d), GoodStep(d),
         \A e \in Conns \ {d} : task'[e] = task[e],
         task[d].at \notin {"await", "echoawait"}
  PROVE  SessionInv'
  <1>1. \A e \in Conns \ {d} : ~Alive(e) /\ task'[e].at \in {"none", "dead"} /\ ~Alive(e)'
    BY OneAlive DEF SessionInv, Alive
  <1>2. /\ \A s \in Slots : cmd[s].op \in {"connect", "disconnect"} => cmd[s].at = "handle"
        /\ cmd' = cmd /\ aborting' = {}
    BY OneAlive DEF SessionInv, GoodStep, DrainKeeps
  <1>3. \A k \in Conns \ {d} : NothingBy(k) => NothingBy(k)'
    <2>1. CASE StartsKept
      BY <2>1, NothingQueued DEF TaskInv
    <2>2. CASE Starts(d)
      <3>1. PICK e \in Entries : e.by = d /\ Enqueue(e)
        BY <2>2 DEF Starts
      <3>2. /\ Len(actorq') = Len(actorq) + 1 /\ Len(actorq) \in Nat
            /\ \A i \in 1..Len(actorq) : actorq'[i] = actorq[i]
            /\ actorq'[Len(actorq) + 1] = e
        BY <3>1, EnqueueTyped DEF TaskInv, Types
      <3> QED
        BY <3>1, <3>2 DEF NothingBy, QueuedBy
    <2> QED
      BY <2>1, <2>2 DEF GoodStep
  <1>4. NothingBy(d)
    BY DEF SessionInv, StartAsked, NothingBy, Awaited
  <1>5. SpawnedOnce'
    <2>1. ASSUME NEW k \in Conns, link'[k] = "new"
          PROVE  ~Alive(k)' /\ NothingBy(k)'
      <3>1. link[k] = "new"
        BY <2>1 DEF GoodStep
      <3>2. k # d /\ NothingBy(k)
        BY <3>1 DEF SessionInv, SpawnedOnce
      <3> QED
        BY <1>1, <1>3, <3>2
    <2>2. \A s \in Slots : ~At(s, "connect", "spawn")'
      BY <1>2 DEF At
    <2> QED
      BY <2>1, <2>2 DEF SpawnedOnce
  <1>6. StartAsked'
    <2>1. CASE StartsKept
      <3>1. \A i \in 1..Len(actorq') : ~QueuedBy(d, i)'
        BY <1>4, <2>1, NothingQueued DEF TaskInv, NothingBy
      <3> QED
        BY <1>1, <3>1 DEF StartAsked
    <2>2. CASE Starts(d)
      <3>1. PICK e \in Entries : e.by = d /\ Enqueue(e) /\ task'[d].at = Awaited(e)
        BY <2>2 DEF Starts
      <3>2. /\ Len(actorq') = Len(actorq) + 1 /\ Len(actorq) \in Nat
            /\ \A i \in 1..Len(actorq) : actorq'[i] = actorq[i]
            /\ actorq'[Len(actorq) + 1] = e
        BY <3>1, EnqueueTyped DEF TaskInv, Types
      <3>3. \A i \in 1..Len(actorq') : QueuedBy(d, i)' => i = Len(actorq) + 1
        BY <1>4, <3>2 DEF NothingBy, QueuedBy
      <3> QED
        BY <1>1, <3>1, <3>2, <3>3 DEF StartAsked
    <2> QED
      BY <2>1, <2>2 DEF GoodStep
  <1>7. ServesConn'
    BY <1>1 DEF GoodStep, ServesConn
  <1>8. AsksForShown'
    BY <1>1 DEF GoodStep, AsksForShown
  <1>9. QueueFollows'
    <2>1. \A s \in Slots : ~At(s, "connect", "dial")'
      BY <1>2 DEF At
    <2>2. AboutToQueue' \/ Settles(actorq', last', Shown') \/ Settles(actorq', last', NoCall)
      BY DEF GoodStep, AboutToQueue
    <2>3. \A e \in Conns : task'[e].at \in {"sleep", "dialled"} => e = d
      BY <1>1
    <2>4. (\E e \in Conns : task'[e].at \in {"sleep", "dialled"}) => Settles(actorq', last', NoCall)
      BY <2>3 DEF GoodStep
    <2> QED
      BY <2>1, <2>2, <2>4 DEF QueueFollows, NoCall, NoConn
  <1>10. call' \in {NoCall, last'}
    BY DEF SessionInv, GoodStep
  <1> QED
    BY <1>2, <1>5, <1>6, <1>7, <1>8, <1>9, <1>10 DEF SessionInv, NoCall

LEMMA GoesThere ==
  ASSUME Types, aborting = {}, NEW d \in Conns, NEW at, NEW rx, NEW arg, Goes(d, at, rx, arg)
  PROVE  task'[d].at = at /\ task'[d].rx = rx /\ task'[d].arg = arg
  BY DEF Types, Goes

LEMMA QueueKeeps ==
  ASSUME TaskInv,
         \/ actorq' = actorq
         \/ \E e \in Entries : e.op \in {"echostart", "echostop"} /\ Enqueue(e)
  PROVE  \A p : Settles(actorq, last, p) => Settles(actorq', last, p)
  <1>1. ASSUME NEW e \in Entries, e.op \in {"echostart", "echostop"}, Enqueue(e)
        PROVE  \A p : Settles(actorq, last, p) => Settles(actorq', last, p)
    <2>1. actorq \in Seq(Entries) /\ actorq' \in Seq(Entries) /\ ~ForVoice(e)
      BY <1>1, EnqueueTyped DEF TaskInv, Types, ForVoice
    <2>2. /\ Len(actorq') = Len(actorq) + 1
          /\ \A i \in 1..Len(actorq) : actorq'[i] = actorq[i]
          /\ actorq'[Len(actorq) + 1] = e
      BY <1>1, EnqueueTyped DEF TaskInv, Types
    <2> QED
      BY <2>1, <2>2, SettlesQueued
  <1> QED
    BY <1>1

LEMMA QueueTakesVoice ==
  ASSUME TaskInv, NEW e \in Entries, ForVoice(e), Enqueue(e)
  PROVE  Settles(actorq', last, Leaves(e))
  <1>1. actorq \in Seq(Entries) /\ actorq' \in Seq(Entries)
    BY EnqueueTyped DEF TaskInv, Types
  <1>2. /\ Len(actorq') = Len(actorq) + 1
        /\ \A i \in 1..Len(actorq) : actorq'[i] = actorq[i]
        /\ actorq'[Len(actorq) + 1] = e
    BY EnqueueTyped DEF TaskInv, Types
  <1> QED
    BY <1>1, <1>2, SettlesQueued

LEMMA StopQueued ==
  ASSUME TaskInv, Enqueue([op |-> "stop"])
  PROVE  Settles(actorq', last, NoCall) /\ StartsKept
  <1>1. [op |-> "stop"] \in Entries /\ ForVoice([op |-> "stop"]) /\ Leaves([op |-> "stop"]) = NoCall
    BY DEF Entries, ForVoice, Leaves
  <1>2. Settles(actorq', last, Leaves([op |-> "stop"]))
    BY <1>1, QueueTakesVoice
  <1> QED
    BY <1>1, <1>2 DEF StartsKept

LEMMA GoodSteps ==
  ASSUME OneCommand, TaskInv, SessionInv, NEW d \in Conns, Drain(d)
  PROVE  GoodStep(d) /\ task[d].at \notin {"await", "echoawait"}
  <1>0. /\ Types /\ aborting = {} /\ Alive(d) /\ task[d] \in Tasks
        /\ DrainKeeps
    BY DrainStep DEF TaskInv, SessionInv, Types
  <1>1. \A e \in Conns \ {d} : ~Alive(e) /\ task[e].at \in {"none", "dead"}
    BY <1>0, OneAlive DEF Alive
  <1>2. \A s \in Slots : ~(cmd[s].op \in {"connect", "disconnect"} /\ cmd[s].at = "stop")
    BY <1>0, OneAlive
  <1>3. task[d].at \notin {"voice", "send", "stop"} =>
          Settles(actorq, last, Shown) \/ Settles(actorq, last, NoCall)
    BY <1>1, <1>2 DEF SessionInv, QueueFollows, AboutToQueue
  <1>4. task[d].at \in {"sleep", "dialled"} => Settles(actorq, last, NoCall)
    BY DEF SessionInv, QueueFollows
  <1>5. task[d].at \notin Between => conn = task[d].rx /\ conn \in Conns
    BY <1>0 DEF SessionInv, ServesConn
  <1>6. /\ task[d].at = "voice" => pendingJoin = channel /\ channel \in Rooms
        /\ task[d].at = "send" => task[d].arg = Shown
    BY DEF SessionInv, AsksForShown
  <1>a. CASE TakeMessage(d) \/ HandleOther(d) \/ ConnectionLost(d) \/ HandleChannelCreated(d)
    <2>1. /\ task[d].at \in {"recv", "handle"}
          /\ UNCHANGED <<link, conn, channel, pendingJoin, actorq, call, last>>
          /\ \E at \in {"handle", "recv", "lost"} : \E arg : Goes(d, at, task[d].rx, arg)
      BY <1>a DEF TakeMessage, HandleOther, ConnectionLost, HandleChannelCreated, Handles,
         netVars, coreVars, actorVars
    <2>2. task'[d].at \in {"handle", "recv", "lost"} /\ task'[d].rx = task[d].rx
      BY <1>0, <2>1, GoesThere
    <2>3. StartsKept /\ Shown' = Shown
      BY <2>1 DEF StartsKept, Shown
    <2> QED
      BY <1>0, <1>3, <1>5, <2>1, <2>2, <2>3 DEF GoodStep, Between
  <1>b. CASE HandleJoinedChannel(d)
    <2>1. /\ task[d].at = "handle" /\ channel' = pendingJoin' /\ channel' = task[d].arg.ch
          /\ UNCHANGED <<link, conn, actorq, call, last>> /\ Goes(d, "voice", task[d].rx, None)
      BY <1>b DEF HandleJoinedChannel, Handles, netVars, actorVars
    <2>2. task[d].arg \in ToClient /\ task[d].arg.msg = "joined"
      BY <1>0, <1>b, <2>1, TaskFields DEF HandleJoinedChannel, Handles
    <2>3. channel' \in Rooms
      BY <2>1, <2>2 DEF ToClient
    <2>4. task'[d].at = "voice" /\ task'[d].rx = task[d].rx
      BY <1>0, <2>1, GoesThere
    <2>5. StartsKept
      BY <2>1 DEF StartsKept
    <2> QED
      BY <1>0, <1>5, <2>1, <2>3, <2>4, <2>5 DEF GoodStep, Between
  <1>c. CASE SpawnVoice(d)
    <2>1. /\ task[d].at = "voice"
          /\ UNCHANGED <<link, conn, channel, actorq, call, last>>
          /\ pendingJoin # None /\ conn # NoConn
          /\ Goes(d, "send", task[d].rx, [conn |-> conn, ch |-> pendingJoin])
      <3>1. task[d].at = "voice" /\ pendingJoin \in Rooms /\ conn \in Conns
        BY <1>5, <1>6, <1>c DEF SpawnVoice, Between
      <3>2. pendingJoin # None /\ conn # NoConn
        BY <3>1, Constants
      <3> QED
        BY <1>c, <3>1, <3>2 DEF SpawnVoice, netVars, actorVars
    <2>2. /\ task'[d].at = "send" /\ task'[d].rx = task[d].rx
          /\ task'[d].arg = [conn |-> conn, ch |-> pendingJoin]
      BY <1>0, <2>1, GoesThere
    <2>3. task'[d].arg = Shown'
      BY <1>6, <2>1, <2>2 DEF Shown
    <2>4. StartsKept
      BY <2>1 DEF StartsKept
    <2> QED
      BY <1>0, <1>5, <2>1, <2>2, <2>3, <2>4 DEF GoodStep, Between
  <1>d. CASE SendStart(d)
    <2> DEFINE e == [op |-> "start", by |-> d, p |-> task[d].arg]
    <2>1. /\ task[d].at = "send" /\ Enqueue(e) /\ Goes(d, "await", task[d].rx, None)
          /\ UNCHANGED <<link, conn, channel, pendingJoin, call, last>>
      BY <1>d DEF SendStart, netVars, coreVars
    <2>2. e \in Entries
      BY <1>0, <2>1, TaskFields DEF Entries
    <2>3. task'[d].at = "await" /\ task'[d].rx = task[d].rx
      BY <1>0, <2>1, GoesThere
    <2>4. Starts(d)
      BY <2>1, <2>2, <2>3 DEF Starts, Awaited
    <2>5. Settles(actorq', last, Leaves(e))
      BY <2>1, <2>2, QueueTakesVoice DEF ForVoice
    <2>6. Leaves(e) = Shown /\ Shown' = Shown
      BY <1>6, <2>1 DEF Leaves, Shown
    <2> QED
      BY <1>0, <1>5, <2>1, <2>3, <2>4, <2>5, <2>6 DEF GoodStep, Between
  <1>e. CASE HandleEchoTestReady(d)
    <2>1. /\ task[d].at = "handle"
          /\ UNCHANGED <<link, conn, channel, pendingJoin, actorq, call, last>>
          /\ \E at \in {"recv", "echosend"} : \E arg : Goes(d, at, task[d].rx, arg)
      BY <1>e DEF HandleEchoTestReady, Handles, netVars, coreVars, actorVars
    <2>2. task'[d].at \in {"recv", "echosend"} /\ task'[d].rx = task[d].rx
      BY <1>0, <2>1, GoesThere
    <2>3. StartsKept /\ Shown' = Shown
      BY <2>1 DEF StartsKept, Shown
    <2> QED
      BY <1>0, <1>3, <1>5, <2>1, <2>2, <2>3 DEF GoodStep, Between
  <1>f. CASE SendEchoStart(d)
    <2> DEFINE e == [op |-> "echostart", by |-> d, p |-> task[d].arg]
    <2>1. /\ task[d].at = "echosend" /\ Enqueue(e) /\ Goes(d, "echoawait", task[d].rx, None)
          /\ UNCHANGED <<link, conn, channel, pendingJoin, call, last>>
      BY <1>f DEF SendEchoStart, netVars, coreVars
    <2>2. e \in Entries
      BY <1>0, <2>1, TaskFields DEF Entries
    <2>3. task'[d].at = "echoawait" /\ task'[d].rx = task[d].rx
      BY <1>0, <2>1, GoesThere
    <2>4. Starts(d)
      BY <2>1, <2>2, <2>3 DEF Starts, Awaited
    <2>5. \A p : Settles(actorq, last, p) => Settles(actorq', last, p)
      BY <2>1, <2>2, QueueKeeps
    <2>6. Shown' = Shown
      BY <2>1 DEF Shown
    <2> QED
      BY <1>0, <1>3, <1>5, <2>1, <2>3, <2>4, <2>5, <2>6 DEF GoodStep, Between
  <1>g. CASE ArmTimer(d)
    <2>1. /\ task[d].at = "echostarted" /\ Goes(d, "recv", task[d].rx, None)
          /\ UNCHANGED <<link, conn, channel, pendingJoin, actorq, call, last>>
      BY <1>g DEF ArmTimer, netVars, coreVars, actorVars
    <2>2. task'[d].at = "recv" /\ task'[d].rx = task[d].rx
      BY <1>0, <2>1, GoesThere
    <2>3. StartsKept /\ Shown' = Shown
      BY <2>1 DEF StartsKept, Shown
    <2> QED
      BY <1>0, <1>3, <1>5, <2>1, <2>2, <2>3 DEF GoodStep, Between
  <1>h. CASE HandleLeftChannel(d)
    <2>1. /\ task[d].at = "handle" /\ Goes(d, "recv", task[d].rx, None)
          /\ UNCHANGED <<link, conn, call, last>> /\ Enqueue([op |-> "stop"])
      BY <1>h DEF HandleLeftChannel, Handles, netVars
    <2>2. task'[d].at = "recv" /\ task'[d].rx = task[d].rx
      BY <1>0, <2>1, GoesThere
    <2>3. Settles(actorq', last, NoCall) /\ StartsKept
      BY <2>1, StopQueued
    <2>4. NoCall' = NoCall
      BY DEF NoCall, NoConn
    <2> QED
      BY <1>0, <1>5, <2>1, <2>2, <2>3, <2>4 DEF GoodStep, Between
  <1>i. CASE TearDownSession(d)
    <2>1. /\ task[d].at = "lost" /\ Goes(d, "stop", task[d].rx, None)
          /\ UNCHANGED <<link, actorq, call, last>>
      BY <1>i DEF TearDownSession, netVars, actorVars
    <2>2. task'[d].at = "stop"
      BY <1>0, <2>1, GoesThere
    <2>3. StartsKept
      BY <2>1 DEF StartsKept
    <2> QED
      BY <1>0, <2>1, <2>2, <2>3 DEF GoodStep, Between
  <1>j. CASE TearDownVoice(d)
    <2>1. /\ task[d].at = "stop" /\ Goes(d, "sleep", task[d].rx, None)
          /\ UNCHANGED <<link, conn, call, last>> /\ Enqueue([op |-> "stop"])
      BY <1>j DEF TearDownVoice, netVars, coreVars
    <2>2. task'[d].at = "sleep"
      BY <1>0, <2>1, GoesThere
    <2>3. Settles(actorq', last, NoCall) /\ StartsKept
      BY <2>1, StopQueued
    <2> QED
      BY <1>0, <2>1, <2>2, <2>3 DEF GoodStep, Between
  <1>k. CASE Redial(d)
    <2>1. /\ task[d].at = "sleep" /\ UNCHANGED <<actorq, call, last>>
          /\ \A k \in Conns : link'[k] = "new" => link[k] = "new"
      <3>1. CASE \E k \in Conns : Dial(k)
        BY <1>0, <1>k, <3>1, DialTyped DEF Redial, actorVars
      <3>2. CASE link' = link
        BY <1>k, <3>2 DEF Redial, actorVars
      <3> QED
        BY <1>k, <3>1, <3>2 DEF Redial, Fresh, netVars
    <2>2. \E at \in {"sleep", "dialled"} : \E rx : Goes(d, at, rx, None)
      BY <1>k DEF Redial, AfterRefusal
    <2>3. task'[d].at \in {"sleep", "dialled"}
      BY <1>0, <2>2, GoesThere
    <2>4. StartsKept
      BY <2>1 DEF StartsKept
    <2> QED
      BY <1>0, <1>4, <2>1, <2>3, <2>4 DEF GoodStep, Between
  <1>l. CASE Reconnected(d)
    <2>1. /\ task[d].at = "dialled" /\ conn' = task[d].rx /\ Goes(d, "recv", task[d].rx, None)
          /\ UNCHANGED <<link, actorq, call, last>>
      BY <1>l DEF Reconnected, netVars, actorVars
    <2>2. task'[d].at = "recv" /\ task'[d].rx = task[d].rx
      BY <1>0, <2>1, GoesThere
    <2>3. task[d].rx \in Conns
      BY <1>0, <2>1, TaskFields
    <2>4. StartsKept
      BY <2>1 DEF StartsKept
    <2> QED
      BY <1>0, <1>4, <2>1, <2>2, <2>3, <2>4 DEF GoodStep, Between
  <1> QED
    BY <1>a, <1>b, <1>c, <1>d, <1>e, <1>f, <1>g, <1>h, <1>i, <1>j, <1>k, <1>l DEF Drain

LEMMA DrainVoiceInv ==
  ASSUME OneCommand, VoiceInv, NEW d \in Conns, Drain(d) \/ AbortTakesEffect(d)
  PROVE  VoiceInv'
  <1>1. TaskInv' /\ lates' = lates
    BY DrainTaskInv, DrainStep DEF VoiceInv, TaskInv, DrainKeeps
  <1>2. ASSUME lates = 0
        PROVE  SessionInv'
    <2>1. SessionInv /\ TaskInv
      BY <1>2 DEF VoiceInv
    <2>2. Drain(d)
      BY <2>1 DEF SessionInv, AbortTakesEffect
    <2>3. Alive(d) /\ \A e \in Conns \ {d} : task'[e] = task[e]
      BY <2>1, <2>2, DrainStep DEF TaskInv
    <2> QED
      BY <2>1, <2>2, <2>3, GoodSteps, DrainSession
  <1> QED
    BY <1>1, <1>2 DEF VoiceInv

(* What a step of the actor has to keep.                                   *)
Served ==
    /\ \A d \in Conns : \/ task'[d] = task[d]
                        \/ /\ QueuedBy(d, 1) /\ Alive(d)
                           /\ task'[d].at \in {"recv", "echostarted"}
                           /\ task'[d].rx = task[d].rx
    /\ \A s \in Slots : \/ cmd'[s] = cmd[s]
                        \/ cmd[s].op = "stopecho" /\ cmd'[s].op = "stopecho"
    /\ last' = IF ForVoice(actorq[1]) THEN Leaves(actorq[1]) ELSE last
    /\ call' \in {NoCall, last'}

LEMMA ActorSession ==
  ASSUME TaskInv, SessionInv, NEW op, ActorTakes(op), Served
  PROVE  SessionInv'
  <1>0. /\ Len(actorq) \in Nat \ {0} /\ Len(actorq') = Len(actorq) - 1
        /\ \A i \in 1..Len(actorq') : actorq'[i] = actorq[i + 1]
        /\ actorq \in Seq(Entries) /\ actorq' \in Seq(Entries)
        /\ UNCHANGED <<link, conn, channel, pendingJoin, aborting>>
    BY TakenTyped DEF TaskInv, Types, ActorTakes, netVars, coreVars
  <1>1. ASSUME NEW d \in Conns, NEW i \in 1..Len(actorq'), QueuedBy(d, i)'
        PROVE  i + 1 \in 1..Len(actorq) /\ QueuedBy(d, i + 1) /\ actorq'[i] = actorq[i + 1]
    BY <1>0, <1>1 DEF QueuedBy
  <1>2. \A d \in Conns : NothingBy(d) => NothingBy(d)'
    BY <1>1 DEF NothingBy
  <1>3. \A d \in Conns : Alive(d)' => Alive(d)
    BY DEF Served, Alive
  <1>4. SpawnedOnce'
    <2>1. \A k \in Conns : link'[k] = "new" => ~Alive(k)' /\ NothingBy(k)'
      BY <1>0, <1>2, <1>3 DEF SessionInv, SpawnedOnce
    <2>2. ASSUME NEW s \in Slots, At(s, "connect", "spawn")'
          PROVE  (/\ conn = cmd[s].arg
                  /\ link[cmd[s].arg] # "new" /\ NothingBy(cmd[s].arg))'
      <3>1. cmd'[s] = cmd[s] /\ At(s, "connect", "spawn")
        BY <2>2 DEF Served, At
      <3>2. cmd[s].arg \in Conns
        BY <3>1 DEF TaskInv, Types, Commanded, At
      <3>3. NothingBy(cmd[s].arg)'
        BY <1>2, <3>1, <3>2 DEF SessionInv, SpawnedOnce
      <3> QED
        BY <1>0, <3>1, <3>3 DEF SessionInv, SpawnedOnce, NothingBy, QueuedBy
    <2> QED
      BY <2>1, <2>2 DEF SpawnedOnce
  <1>5. StartAsked'
    <2>1. ASSUME NEW d \in Conns, NEW i \in 1..Len(actorq'), QueuedBy(d, i)', Alive(d)'
          PROVE  /\ task'[d].at = Awaited(actorq'[i])
                 /\ \A j \in 1..Len(actorq') : QueuedBy(d, j)' => i = j
      <3>1. /\ task[d].at = Awaited(actorq[i + 1])
            /\ \A j \in 1..Len(actorq) : QueuedBy(d, j) => i + 1 = j
        BY <1>1, <1>3, <2>1 DEF SessionInv, StartAsked
      <3>2. ~QueuedBy(d, 1)
        BY <1>0, <3>1
      <3>3. task'[d] = task[d]
        BY <3>2 DEF Served
      <3>4. \A j \in 1..Len(actorq') : QueuedBy(d, j)' => i + 1 = j + 1
        BY <1>1, <3>1
      <3>5. \A j \in 1..Len(actorq') : i + 1 = j + 1 => i = j
        BY <1>0
      <3> QED
        BY <1>1, <2>1, <3>1, <3>3, <3>4, <3>5 DEF Awaited
    <2> QED
      BY <2>1 DEF StartAsked
  <1>6. \A d \in Conns : QueuedBy(d, 1) /\ Alive(d) => task[d].at \in {"await", "echoawait"}
    BY <1>0 DEF SessionInv, StartAsked, Awaited
  <1>7. ServesConn'
    BY <1>0, <1>3, <1>6 DEF SessionInv, ServesConn, Served, Between
  <1>8. AsksForShown'
    BY <1>0 DEF SessionInv, AsksForShown, Served, Shown
  <1>9. QueueFollows'
    <2>1. \A p : Settles(actorq, last, p) => Settles(actorq', last', p)
      BY <1>0, SettlesTaken DEF Served
    <2>2. AboutToQueue => AboutToQueue'
      <3>1. \A d \in Conns : task[d].at \in {"voice", "send", "stop"} => task'[d] = task[d]
        BY <1>6 DEF Served
      <3>2. \A s \in Slots : cmd[s].op \in {"connect", "disconnect"} => cmd'[s] = cmd[s]
        BY DEF Served
      <3> QED
        BY <3>1, <3>2 DEF AboutToQueue
    <2>3. Shown' = Shown /\ NoCall' = NoCall
      BY <1>0 DEF Shown, NoCall, NoConn
    <2>4. (\E s \in Slots : At(s, "connect", "dial")') => \E s \in Slots : At(s, "connect", "dial")
      BY DEF Served, At
    <2>5. (\E d \in Conns : task'[d].at \in {"sleep", "dialled"})
             => \E d \in Conns : task[d].at \in {"sleep", "dialled"}
      BY DEF Served
    <2> QED
      BY <2>1, <2>2, <2>3, <2>4, <2>5 DEF SessionInv, QueueFollows
  <1> QED
    BY <1>0, <1>4, <1>5, <1>7, <1>8, <1>9 DEF SessionInv, Served, NoCall, NoConn

LEMMA WokenServed ==
  ASSUME TaskInv, NEW at \in {"recv", "echostarted"}, NEW op \in {"start", "echostart"},
         ActorTakes(op), task' = Woken(Head(actorq).by, at)
  PROVE  \A d \in Conns : \/ task'[d] = task[d]
                          \/ /\ QueuedBy(d, 1) /\ Alive(d)
                             /\ task'[d].at \in {"recv", "echostarted"}
                             /\ task'[d].rx = task[d].rx
  <1>1. actorq[1] = Head(actorq) /\ actorq[1].op = op /\ actorq[1].by \in Conns
    BY TakenTyped DEF TaskInv, Entries
  <1> DEFINE e == actorq[1].by
  <1>2. /\ \A d \in Conns \ {e} : task'[d] = task[d]
        /\ ~Alive(e) => task'[e] = task[e]
        /\ Alive(e) => task'[e].at = at /\ task'[e].rx = task[e].rx
    BY <1>1, WokenTyped DEF TaskInv
  <1>3. QueuedBy(e, 1)
    BY <1>1 DEF QueuedBy
  <1> QED
    BY <1>2, <1>3

LEMMA ActorVoiceInv ==
  ASSUME VoiceInv, Actor
  PROVE  VoiceInv'
  <1>1. TaskInv /\ TaskInv' /\ lates' = lates
    BY ActorTaskInv DEF VoiceInv, Actor, ActorStart, ActorStop, ActorEchoStart, ActorEchoStop,
       ActorSnapshot, ActorTakes
  <1>2. ASSUME lates = 0
        PROVE  SessionInv'
    <2>0. SessionInv
      BY <1>2 DEF VoiceInv
    <2>1. CASE ActorStart
      <3>1. ActorTakes("start") /\ actorq[1] = Head(actorq) /\ actorq[1].op = "start"
        BY <1>1, <2>1, TakenTyped DEF ActorStart, TaskInv
      <3>2. /\ task' = Woken(Head(actorq).by, "recv") /\ cmd' = cmd
            /\ last' = actorq[1].p /\ call' \in {NoCall, last'}
        BY <2>1, <3>1 DEF ActorStart
      <3>3. Served
        BY <1>1, <3>1, <3>2, WokenServed DEF Served, ForVoice, Leaves
      <3> QED
        BY <1>1, <2>0, <3>1, <3>3, ActorSession
    <2>2. CASE ActorStop
      <3>1. ActorTakes("stop") /\ actorq[1].op = "stop"
        BY <1>1, <2>2, TakenTyped DEF ActorStop, TaskInv
      <3>2. Served
        BY <2>2, <3>1 DEF ActorStop, Served, ForVoice, Leaves
      <3> QED
        BY <1>1, <2>0, <3>1, <3>2, ActorSession
    <2>3. CASE ActorEchoStart
      <3>1. ActorTakes("echostart") /\ actorq[1].op = "echostart"
        BY <1>1, <2>3, TakenTyped DEF ActorEchoStart, TaskInv
      <3>2. /\ \E at \in {"recv", "echostarted"} : task' = Woken(Head(actorq).by, at)
            /\ UNCHANGED <<cmd, call, last>>
        BY <2>3 DEF ActorEchoStart
      <3>3. \A d \in Conns : \/ task'[d] = task[d]
                             \/ /\ QueuedBy(d, 1) /\ Alive(d)
                                /\ task'[d].at \in {"recv", "echostarted"}
                                /\ task'[d].rx = task[d].rx
        BY <1>1, <3>1, <3>2, WokenServed
      <3>4. Served
        BY <2>0, <3>1, <3>2, <3>3 DEF Served, ForVoice, SessionInv
      <3> QED
        BY <1>1, <2>0, <3>1, <3>4, ActorSession
    <2>4. CASE ActorEchoStop
      <3>1. /\ ActorTakes("echostop") /\ actorq[1].op = "echostop" /\ actorq[1] = Head(actorq)
            /\ actorq[1].by \in Slots \union {Timer} /\ Len(actorq) \in Nat \ {0}
        BY <1>1, <2>4, TakenTyped DEF ActorEchoStop, TaskInv, Entries
      <3>2. UNCHANGED <<task, call, last>>
        BY <2>4 DEF ActorEchoStop
      <3>3. \A s \in Slots : \/ cmd'[s] = cmd[s]
                             \/ cmd[s].op = "stopecho" /\ cmd'[s].op = "stopecho"
        <4>1. CASE actorq[1].by = Timer
          BY <2>4, <3>1, <4>1 DEF ActorEchoStop
        <4>2. ASSUME NEW t \in Slots, actorq[1].by = t, t # Timer
              PROVE  \A s \in Slots : \/ cmd'[s] = cmd[s]
                                      \/ cmd[s].op = "stopecho" /\ cmd'[s].op = "stopecho"
          <5>1. At(t, "stopecho", "reply")
            BY <1>1, <3>1, <4>2 DEF TaskInv, StopAsked, AskedBy
          <5>2. cmd' = [cmd EXCEPT ![t] = [cmd[t] EXCEPT !.at = "send", !.arg = None]]
            BY <2>4, <3>1, <4>2 DEF ActorEchoStop, Continue
          <5>3. cmd \in [Slots -> Commanded] /\ cmd[t] \in Commanded
            BY <1>1 DEF TaskInv, Types
          <5> QED
            BY <5>1, <5>2, <5>3 DEF Commanded, At
        <4> QED
          BY <3>1, <4>1, <4>2
      <3>4. Served
        BY <2>0, <3>1, <3>2, <3>3 DEF Served, ForVoice, SessionInv
      <3> QED
        BY <1>1, <2>0, <3>1, <3>4, ActorSession
    <2>5. CASE ActorSnapshot
      <3>1. /\ UNCHANGED <<link, conn, channel, pendingJoin, aborting, task, cmd, actorq, last>>
            /\ call' \in {NoCall, last'}
        BY <2>5 DEF ActorSnapshot, netVars, coreVars
      <3>2. SpawnedOnce' /\ StartAsked'
        BY <2>0, <3>1 DEF SessionInv, SpawnedOnce, StartAsked, NothingBy, QueuedBy, At, Alive
      <3>3. ServesConn' /\ AsksForShown'
        BY <2>0, <3>1 DEF SessionInv, ServesConn, AsksForShown, Shown, Alive
      <3>4. QueueFollows'
        BY <2>0, <3>1 DEF SessionInv, QueueFollows, AboutToQueue, Shown, NoCall, At
      <3> QED
        BY <2>0, <3>1, <3>2, <3>3, <3>4 DEF SessionInv, NoCall, NoConn
    <2> QED
      BY <2>1, <2>2, <2>3, <2>4, <2>5 DEF Actor
  <1> QED
    BY <1>1, <1>2 DEF VoiceInv

(* What a step that moves no drain task has to keep.                       *)
Undisturbed ==
    /\ UNCHANGED <<task, conn, channel, pendingJoin, aborting, call, last>>
    /\ StartsKept
    /\ \A k \in Conns : link'[k] = "new" => link[k] = "new"
    /\ \A s \in Slots : At(s, "connect", "spawn")' => cmd'[s] = cmd[s]
    /\ \/ Settles(actorq', last, NoCall)
       \/ /\ \A p : Settles(actorq, last, p) => Settles(actorq', last, p)
          /\ \A s \in Slots :
               /\ cmd[s].op \in {"connect", "disconnect"} /\ cmd[s].at = "stop"
                    => cmd'[s] = cmd[s]
               /\ At(s, "connect", "dial")' => cmd'[s] = cmd[s]

LEMMA UndisturbedSession ==
  ASSUME TaskInv, SessionInv, Undisturbed
  PROVE  SessionInv'
  <1>1. SpawnedOnce'
    <2>1. \A k \in Conns : link'[k] = "new" => ~Alive(k)' /\ NothingBy(k)'
      BY NothingQueued DEF TaskInv, SessionInv, SpawnedOnce, Undisturbed, Alive
    <2>2. ASSUME NEW s \in Slots, At(s, "connect", "spawn")'
          PROVE  (/\ conn = cmd[s].arg
                  /\ link[cmd[s].arg] # "new" /\ NothingBy(cmd[s].arg))'
      <3>1. cmd'[s] = cmd[s] /\ At(s, "connect", "spawn")
        BY <2>2 DEF Undisturbed, At
      <3>2. cmd[s].arg \in Conns
        BY <3>1 DEF TaskInv, Types, Commanded, At
      <3>3. NothingBy(cmd[s].arg)'
        <4>1. PICK k \in Conns : k = cmd[s].arg
          BY <3>2
        <4>2. NothingBy(k)'
          BY <3>1, <4>1, NothingQueued DEF TaskInv, SessionInv, SpawnedOnce, Undisturbed
        <4> QED
          BY <3>1, <4>1, <4>2 DEF NothingBy, QueuedBy
      <3> QED
        BY <3>1, <3>2, <3>3 DEF SessionInv, SpawnedOnce, Undisturbed
    <2> QED
      BY <2>1, <2>2 DEF SpawnedOnce
  <1>2. StartAsked'
    <2>1. ASSUME NEW d \in Conns, NEW i \in 1..Len(actorq'), QueuedBy(d, i)', Alive(d)'
          PROVE  /\ task'[d].at = Awaited(actorq'[i])
                 /\ \A j \in 1..Len(actorq') : QueuedBy(d, j)' => i = j
      <3>1. \A j \in 1..Len(actorq') : QueuedBy(d, j)' =>
               j \in 1..Len(actorq) /\ QueuedBy(d, j) /\ actorq'[j] = actorq[j]
        BY NothingQueued DEF TaskInv, Undisturbed
      <3>2. Alive(d) /\ task'[d] = task[d]
        BY <2>1 DEF Undisturbed, Alive
      <3> QED
        BY <2>1, <3>1, <3>2 DEF SessionInv, StartAsked, Awaited
    <2> QED
      BY <2>1 DEF StartAsked
  <1>3. ServesConn' /\ AsksForShown'
    BY DEF SessionInv, ServesConn, AsksForShown, Undisturbed, Alive, Shown
  <1>4. QueueFollows'
    <2>0. Shown' = Shown /\ NoCall' = NoCall
      BY DEF Undisturbed, Shown, NoCall, NoConn
    <2>1. CASE Settles(actorq', last, NoCall)
      BY <2>0, <2>1 DEF QueueFollows, Undisturbed
    <2>2. CASE /\ \A p : Settles(actorq, last, p) => Settles(actorq', last, p)
               /\ \A s \in Slots :
                    /\ cmd[s].op \in {"connect", "disconnect"} /\ cmd[s].at = "stop"
                         => cmd'[s] = cmd[s]
                    /\ At(s, "connect", "dial")' => cmd'[s] = cmd[s]
      <3>1. AboutToQueue => AboutToQueue'
        BY <2>2 DEF Undisturbed, AboutToQueue
      <3>2. (\E s \in Slots : At(s, "connect", "dial")')
               => \E s \in Slots : At(s, "connect", "dial")
        BY <2>2 DEF At
      <3> QED
        BY <2>0, <2>2, <3>1, <3>2 DEF SessionInv, QueueFollows, Undisturbed
    <2> QED
      BY <2>1, <2>2 DEF Undisturbed
  <1> QED
    BY <1>1, <1>2, <1>3, <1>4 DEF SessionInv, Undisturbed, NoCall, NoConn

LEMMA OtherVoiceInv ==
  ASSUME VoiceInv,
         \/ \E r \in Rooms : \/ SendMsg("join", [cmd |-> "join", ch |-> r])
                             \/ SendMsg("create", [cmd |-> "create", ch |-> r])
         \/ TimerFires \/ TimerSends
         \/ \E k \in Conns : ServerHandles(k) \/ LinkLost(k)
  PROVE  VoiceInv'
  <1>1. TaskInv /\ TaskInv' /\ lates' = lates
    BY OtherTaskInv DEF VoiceInv, SendMsg, TimerFires, TimerSends, ServerHandles, LinkLost
  <1>2. UNCHANGED <<task, conn, channel, pendingJoin, aborting, call, last, cmd>>
    BY DEF SendMsg, TimerFires, TimerSends, ServerHandles, LinkLost, coreVars, actorVars
  <1>3. \A k \in Conns : link'[k] = "new" => link[k] = "new"
    BY <1>1 DEF SendMsg, TimerFires, TimerSends, ServerHandles, LinkLost, netVars, TaskInv, Types
  <1>4. actorq' = actorq \/ Enqueue([op |-> "echostop", by |-> Timer])
    BY DEF SendMsg, TimerFires, TimerSends, ServerHandles, LinkLost, actorVars
  <1>5. [op |-> "echostop", by |-> Timer] \in Entries
    BY DEF Entries
  <1>6. StartsKept /\ \A p : Settles(actorq, last, p) => Settles(actorq', last, p)
    BY <1>1, <1>4, <1>5, QueueKeeps DEF StartsKept
  <1>7. Undisturbed
    BY <1>2, <1>3, <1>6 DEF Undisturbed
  <1> QED
    BY <1>1, <1>7, UndisturbedSession DEF VoiceInv

LEMMA CommandVoiceInv ==
  ASSUME OneCommand, VoiceInv, NEW s \in Slots, User(s) \/ CommandSteps(s)
  PROVE  VoiceInv'
  <1>0. /\ TaskInv /\ TaskInv' /\ cmd \in [Slots -> Commanded] /\ cmd[s] \in Commanded
        /\ \A t \in Slots : t = s
    BY CommandTaskInv DEF VoiceInv, TaskInv, Types, OneCommand
  <1>1. CASE Connect(s) \/ Disconnect(s)
    <2> SUFFICES ASSUME lates' = 0
                 PROVE  SessionInv'
      BY <1>0 DEF VoiceInv
    <2>1. /\ cmd[s] = NoCmd /\ cmd'[s].op \in {"connect", "disconnect"} /\ cmd'[s].at = "stop"
          /\ AbortDrain /\ drainHandle' = NoConn /\ UNCHANGED <<link, actorq, call, last>>
      BY <1>0, <1>1 DEF Connect, Disconnect, Begin, ClearSession, actorVars, netVars
    <2>2. lates = 0 /\ aborting' = aborting
      BY <1>0, <2>1, AbortTyped DEF TaskInv
    <2>3. SessionInv /\ aborting' = {}
      BY <2>2 DEF VoiceInv, SessionInv
    <2>4. \A d \in Conns : ~Alive(d)'
      <3>1. \A d \in Conns : ~JustSpawned(d)'
        BY <1>0, <2>1 DEF JustSpawned, At
      <3>2. \A d \in Conns : Alive(d)' => d = drainHandle' \/ JustSpawned(d)'
        BY <1>0, <2>3 DEF TaskInv, Tracked
      <3> QED
        BY <2>1, <3>1, <3>2, Constants
    <2>5. \A d \in Conns : task'[d].at \in {"none", "dead"}
      BY <2>4 DEF Alive
    <2>6. SpawnedOnce'
      BY <1>0, <2>1, <2>3, <2>4 DEF SessionInv, SpawnedOnce, NothingBy, QueuedBy, At
    <2>7. StartAsked' /\ ServesConn' /\ AsksForShown'
      BY <2>4, <2>5 DEF StartAsked, ServesConn, AsksForShown
    <2>8. QueueFollows'
      BY <1>0, <2>1, <2>5 DEF QueueFollows, AboutToQueue, At
    <2> QED
      BY <2>1, <2>3, <2>6, <2>7, <2>8 DEF SessionInv, NoCall, NoConn
  <1>2. CASE StopsVoice(s)
    <2>1. /\ UNCHANGED <<link, task, conn, channel, pendingJoin, aborting, call, last, lates>>
          /\ Enqueue([op |-> "stop"]) /\ cmd[s].at = "stop"
      BY <1>2 DEF StopsVoice, netVars, coreVars
    <2>2. ~At(s, "connect", "spawn")'
      <3>1. CASE cmd' = [cmd EXCEPT ![s] = [cmd[s] EXCEPT !.at = "dial", !.arg = cmd[s].arg]]
        BY <1>0, <3>1 DEF Commanded, At
      <3>2. CASE cmd' = [cmd EXCEPT ![s] = NoCmd]
        BY <1>0, <3>2 DEF NoCmd, At
      <3> QED
        BY <1>2, <3>1, <3>2 DEF StopsVoice, Continue, Done
    <2>3. Undisturbed
      BY <1>0, <2>1, <2>2, StopQueued DEF Undisturbed
    <2> QED
      BY <1>0, <2>1, <2>3, UndisturbedSession DEF VoiceInv
  <1>3. CASE ConnectDialled(s)
    <2>1. /\ UNCHANGED <<channel, pendingJoin, task, aborting, actorq, call, last, lates>>
          /\ cmd[s].op = "connect" /\ cmd[s].at = "dial"
      BY <1>3 DEF ConnectDialled, At, actorVars
    <2> SUFFICES ASSUME lates = 0
                 PROVE  SessionInv'
      BY <1>0, <2>1 DEF VoiceInv
    <2>2. SessionInv /\ aborting' = {}
      BY <2>1 DEF VoiceInv, SessionInv
    <2>3. \A d \in Conns : ~Alive(d) /\ task'[d].at \in {"none", "dead"} /\ ~Alive(d)'
      BY <1>0, <2>1, <2>2, OneAlive DEF Alive, SessionInv
    <2>4. Settles(actorq', last', NoCall) /\ NoCall' = NoCall
      BY <2>1, <2>2 DEF SessionInv, QueueFollows, At, NoCall, NoConn
    <2>5. SpawnedOnce'
      <3>1. CASE \E k \in Fresh : Dial(k) /\ conn' = k /\ Continue(s, "spawn", k)
        <4>1. PICK k \in Conns : Dial(k) /\ conn' = k /\ Continue(s, "spawn", k)
          BY <3>1 DEF Fresh
        <4>2. /\ link[k] = "new" /\ link'[k] = "up"
              /\ \A j \in Conns \ {k} : link'[j] = link[j]
          BY <1>0, <4>1, DialTyped DEF TaskInv
        <4>3. NothingBy(k) /\ cmd'[s].arg = k
          BY <1>0, <2>2, <4>1, <4>2 DEF SessionInv, SpawnedOnce, Continue, Commanded
        <4>4. NothingBy(k)'
          BY <2>1, <4>3 DEF NothingBy, QueuedBy
        <4>5. \A j \in Conns : link'[j] = "new" => ~Alive(j)' /\ NothingBy(j)'
          BY <2>1, <2>2, <2>3, <4>2 DEF SessionInv, SpawnedOnce, NothingBy, QueuedBy
        <4>6. (conn = cmd[s].arg /\ link[cmd[s].arg] # "new" /\ NothingBy(cmd[s].arg))'
          BY <4>1, <4>2, <4>3, <4>4 DEF NothingBy, QueuedBy
        <4> QED
          BY <1>0, <4>5, <4>6 DEF SpawnedOnce
      <3>2. CASE Done(s) /\ UNCHANGED netVars
        <4>1. \A t \in Slots : ~At(t, "connect", "spawn")'
          BY <1>0, <3>2 DEF Done, NoCmd, At
        <4>2. \A j \in Conns : link'[j] = "new" => ~Alive(j)' /\ NothingBy(j)'
          BY <2>1, <2>2, <2>3, <3>2 DEF SessionInv, SpawnedOnce, NothingBy, QueuedBy, netVars
        <4> QED
          BY <4>1, <4>2 DEF SpawnedOnce
      <3> QED
        BY <1>3, <3>1, <3>2 DEF ConnectDialled
    <2>6. StartAsked' /\ ServesConn' /\ AsksForShown'
      BY <2>3 DEF StartAsked, ServesConn, AsksForShown
    <2>7. QueueFollows'
      BY <2>4 DEF QueueFollows
    <2> QED
      BY <2>1, <2>2, <2>5, <2>6, <2>7 DEF SessionInv, NoCall, NoConn
  <1>4. CASE ConnectSpawns(s)
    <2>0. PICK k \in Conns : k = cmd[s].arg
      BY <1>0, <1>4 DEF ConnectSpawns, At, Commanded
    <2>1. /\ UNCHANGED <<link, conn, channel, pendingJoin, aborting, actorq, call, last, lates>>
          /\ At(s, "connect", "spawn") /\ cmd'[s].arg = k
          /\ task' = [task EXCEPT ![k] = [at |-> "recv", rx |-> k, arg |-> None]]
          /\ At(s, "connect", "handle")'
      BY <1>0, <1>4, <2>0 DEF ConnectSpawns, Continue, At, Commanded, netVars, coreVars, actorVars
    <2> SUFFICES ASSUME lates = 0
                 PROVE  SessionInv'
      BY <1>0, <2>1 DEF VoiceInv
    <2>2. SessionInv /\ aborting' = {}
      BY <2>1 DEF VoiceInv, SessionInv
    <2>3. \A d \in Conns : ~Alive(d) /\ task[d].at \in {"none", "dead"}
      BY <1>0, <2>1, <2>2, OneAlive DEF Alive, SessionInv, At
    <2>4. /\ task'[k].at = "recv" /\ task'[k].rx = k
          /\ \A d \in Conns \ {k} : ~Alive(d)' /\ task'[d].at \in {"none", "dead"}
      BY <1>0, <2>1, <2>3 DEF Alive, TaskInv, Types
    <2>5. conn = k /\ link[k] # "new" /\ NothingBy(k)
      BY <2>0, <2>1, <2>2 DEF SessionInv, SpawnedOnce
    <2>6. NothingBy(k)' /\ \A d \in Conns : NothingBy(d) => NothingBy(d)'
      BY <2>1, <2>5 DEF NothingBy, QueuedBy
    <2>7. SpawnedOnce'
      BY <1>0, <2>1, <2>2, <2>4, <2>5, <2>6 DEF SessionInv, SpawnedOnce, At
    <2>8. StartAsked'
      BY <2>1, <2>4, <2>5 DEF StartAsked, NothingBy, QueuedBy
    <2>9. ServesConn' /\ AsksForShown'
      BY <2>1, <2>4, <2>5 DEF ServesConn, AsksForShown
    <2>10. QueueFollows'
      <3>1. ~AboutToQueue
        BY <1>0, <2>1, <2>3 DEF AboutToQueue, At
      <3>2. Settles(actorq', last', Shown') \/ Settles(actorq', last', NoCall')
        BY <2>1, <2>2, <3>1 DEF SessionInv, QueueFollows, Shown, NoCall, NoConn
      <3>3. ~(\E t \in Slots : At(t, "connect", "dial")')
        BY <1>0, <2>1 DEF At
      <3>4. \A d \in Conns : task'[d].at \notin {"sleep", "dialled"}
        BY <2>4
      <3> QED
        BY <3>2, <3>3, <3>4 DEF QueueFollows
    <2> QED
      BY <2>1, <2>2, <2>7, <2>8, <2>9, <2>10 DEF SessionInv, NoCall, NoConn
  <1>5. CASE ConnectKeepsHandle(s) \/ CommandSends(s) \/ StartEchoTest(s)
    <2>1. UNCHANGED <<link, task, conn, channel, pendingJoin, aborting, actorq, call, last, lates>>
      BY <1>5 DEF ConnectKeepsHandle, CommandSends, StartEchoTest, netVars, coreVars, actorVars
    <2>2. /\ ~At(s, "connect", "spawn")' /\ ~At(s, "connect", "dial")'
          /\ ~(cmd[s].op \in {"connect", "disconnect"} /\ cmd[s].at = "stop")
      BY <1>0, <1>5 DEF ConnectKeepsHandle, CommandSends, StartEchoTest, Begin, Done, NoCmd, At
    <2>3. Undisturbed
      BY <1>0, <2>1, <2>2 DEF Undisturbed, StartsKept
    <2> QED
      BY <1>0, <2>1, <2>3, UndisturbedSession DEF VoiceInv
  <1>6. CASE LeaveChannel(s)
    <2>1. /\ UNCHANGED <<link, task, conn, channel, pendingJoin, aborting, call, last, lates>>
          /\ Enqueue([op |-> "stop"]) /\ ~At(s, "connect", "spawn")'
      BY <1>0, <1>6 DEF LeaveChannel, Begin, At, netVars, coreVars
    <2>2. Undisturbed
      BY <1>0, <2>1, StopQueued DEF Undisturbed
    <2> QED
      BY <1>0, <2>1, <2>2, UndisturbedSession DEF VoiceInv
  <1>7. CASE CancelEchoTest(s)
    <2>1. /\ UNCHANGED <<link, task, conn, channel, pendingJoin, aborting, call, last, lates>>
          /\ Enqueue([op |-> "echostop", by |-> s]) /\ cmd[s] = NoCmd
          /\ ~At(s, "connect", "spawn")' /\ ~At(s, "connect", "dial")'
      BY <1>0, <1>7 DEF CancelEchoTest, Begin, At, netVars, coreVars
    <2>2. [op |-> "echostop", by |-> s] \in Entries
      BY DEF Entries
    <2>3. StartsKept /\ \A p : Settles(actorq, last, p) => Settles(actorq', last, p)
      BY <1>0, <2>1, <2>2, QueueKeeps DEF StartsKept
    <2>4. Undisturbed
      BY <1>0, <2>1, <2>3 DEF Undisturbed, NoCmd
    <2> QED
      BY <1>0, <2>1, <2>4, UndisturbedSession DEF VoiceInv
  <1> QED
    BY <1>1, <1>2, <1>3, <1>4, <1>5, <1>6, <1>7 DEF User, CommandSteps

LEMMA VoiceInvInit ==
  ASSUME Init
  PROVE  VoiceInv
  <1>1. TaskInv
    BY TaskInvInit
  <1>2. \A d \in Conns : ~Alive(d) /\ task[d].at = "none"
    BY DEF Init, Alive, NoTask
  <1>3. SpawnedOnce /\ StartAsked
    BY <1>2 DEF Init, SpawnedOnce, StartAsked, NothingBy, At, NoCmd
  <1>4. ServesConn /\ AsksForShown
    BY <1>2 DEF ServesConn, AsksForShown
  <1>5. Settles(actorq, last, NoCall)
    BY DEF Init, Settles
  <1>6. QueueFollows
    BY <1>5 DEF QueueFollows
  <1> QED
    BY <1>1, <1>3, <1>4, <1>6 DEF Init, VoiceInv, SessionInv

LEMMA VoiceInvUnchanged ==
  ASSUME VoiceInv, UNCHANGED vars
  PROVE  VoiceInv'
  <1>1. UNCHANGED <<link, conn, channel, pendingJoin, task, aborting, cmd, actorq, call, last,
                    lates>>
    BY DEF vars, netVars, coreVars, actorVars
  <1>2. TaskInv /\ TaskInv'
    BY TaskInvUnchanged DEF VoiceInv
  <1>3. Undisturbed
    BY <1>1 DEF Undisturbed, StartsKept
  <1> QED
    BY <1>1, <1>2, <1>3, UndisturbedSession DEF VoiceInv

LEMMA VoiceInvStep ==
  ASSUME OneCommand, VoiceInv, [Next]_vars
  PROVE  VoiceInv'
  BY CommandVoiceInv, DrainVoiceInv, ActorVoiceInv, OtherVoiceInv, VoiceInvUnchanged DEF Next

LEMMA VoiceInvFollows ==
  ASSUME VoiceInv
  PROVE  VoiceFollowsChannel
  <1> SUFFICES ASSUME AtRest, lates = 0
               PROVE  call = NoCall \/ call = [conn |-> conn, ch |-> channel]
    BY DEF VoiceFollowsChannel
  <1>1. SessionInv
    BY DEF VoiceInv
  <1>2. ~AboutToQueue
    BY DEF AtRest, Idle, AboutToQueue, NoCmd
  <1>3. Settles(actorq, last, Shown) \/ Settles(actorq, last, NoCall)
    BY <1>1, <1>2 DEF SessionInv, QueueFollows
  <1>4. actorq = <<>>
    BY DEF AtRest
  <1>5. last = Shown \/ last = NoCall
    BY <1>3, <1>4 DEF Settles
  <1> QED
    BY <1>1, <1>5 DEF SessionInv, Shown

(* Whatever the user connected to, joined and left, and however often the  *)
(* connection was lost: at rest the voice actor streams to the channel     *)
(* shown, on AppCore's connection, or not at all, unless an abort was      *)
(* late.  The last start or stop in the actor's queue (Settles) is what    *)
(* the session that is shown asked for.                                    *)
THEOREM VoiceFollows ==
  OneCommand => (Spec => []VoiceFollowsChannel)
  <1> SUFFICES ASSUME OneCommand
               PROVE  Spec => []VoiceFollowsChannel
    OBVIOUS
  <1>1. Init => VoiceInv
    BY VoiceInvInit
  <1>2. VoiceInv /\ [Next]_vars => VoiceInv'
    BY VoiceInvStep
  <1>3. VoiceInv => VoiceFollowsChannel
    BY VoiceInvFollows
  <1> QED
    BY <1>1, <1>2, <1>3, PTL DEF Spec
=============================================================================
