--------------------------- MODULE ServerTasksProofs ---------------------------
(***************************************************************************)
(* Proofs about the handlers of the control connections (ControlPlane),    *)
(* for any number of clients, channels, names and commands, and about the  *)
(* relay of datagrams (UdpRelay), for any finite number of addresses.      *)
(***************************************************************************)
EXTENDS MCServerTasks, Sequences, FiniteSets, FiniteSetTheorems,
        WellFoundedInduction, TLAPS

Tasks == Clients \union {Maintenance}

IsSeq(q) == \E S : q \in Seq(S)

Elements(q) == {q[i] : i \in 1..Len(q)}

\* The effects a task has still to perform.
Pending(t) == Elements(task[t])

\* The two halves of broadcast_channel_list are one kind of effect.
Kind(e) == IF e.op = "fan" THEN "read" ELSE e.op

\* A task never has two effects of one kind to perform.
TaskShape(q) == IsSeq(q) /\ \A i, j \in 1..Len(q) : Kind(q[i]) = Kind(q[j]) => i = j

(***************************************************************************)
(* Sequences of effects.                                                   *)
(***************************************************************************)
LEMMA HeadAndTail ==
  ASSUME NEW q, TaskShape(q), q # <<>>
  PROVE  /\ Head(q) \in Elements(q)
         /\ TaskShape(Tail(q))
         /\ Elements(Tail(q)) = Elements(q) \ {Head(q)}
         /\ \A e \in Elements(Tail(q)) : Kind(e) # Kind(Head(q))
  <1>1. PICK S : q \in Seq(S)
    BY DEF IsSeq, TaskShape
  <1>2. /\ Len(q) \in Nat /\ Len(q) >= 1 /\ Head(q) = q[1] /\ Tail(q) \in Seq(S)
        /\ Len(Tail(q)) = Len(q) - 1
        /\ \A i \in 1..Len(Tail(q)) : Tail(q)[i] = q[i + 1]
    BY <1>1
  <1>3. Head(q) \in Elements(q)
    BY <1>2 DEF Elements
  <1>4. IsSeq(Tail(q))
    BY <1>2 DEF IsSeq
  <1>5. ASSUME NEW i \in 1..Len(Tail(q)), NEW j \in 1..Len(Tail(q)),
               Kind(Tail(q)[i]) = Kind(Tail(q)[j])
        PROVE  i = j
    <2>1. i + 1 \in 1..Len(q) /\ j + 1 \in 1..Len(q) /\ Kind(q[i + 1]) = Kind(q[j + 1])
      BY <1>2, <1>5
    <2>2. i + 1 = j + 1
      BY <2>1 DEF TaskShape
    <2> QED
      BY <2>2
  <1>6. ASSUME NEW i \in 1..Len(Tail(q))
        PROVE  Tail(q)[i] \in Elements(q) /\ Kind(Tail(q)[i]) # Kind(Head(q))
    <2>1. i + 1 \in 1..Len(q) /\ Tail(q)[i] = q[i + 1] /\ i + 1 # 1 /\ 1 \in 1..Len(q)
      BY <1>2
    <2> QED
      BY <1>2, <2>1 DEF Elements, TaskShape
  <1>7. ASSUME NEW e \in Elements(q), e # Head(q)
        PROVE  \E i \in 1..Len(Tail(q)) : e = Tail(q)[i]
    <2>1. PICK j \in 1..Len(q) : e = q[j]
      BY DEF Elements
    <2>2. j # 1 /\ j - 1 \in 1..Len(Tail(q)) /\ Tail(q)[j - 1] = q[j]
      BY <1>2, <1>7, <2>1
    <2> QED
      BY <2>1, <2>2
  <1>8. \A e \in Elements(Tail(q)) : e \in Elements(q) /\ Kind(e) # Kind(Head(q))
    BY <1>6 DEF Elements
  <1>9. Elements(Tail(q)) = Elements(q) \ {Head(q)}
    <2>1. \A e \in Elements(Tail(q)) : e \in Elements(q) \ {Head(q)}
      BY <1>8
    <2>2. \A e \in Elements(q) \ {Head(q)} : e \in Elements(Tail(q))
      BY <1>7 DEF Elements
    <2> QED
      BY <2>1, <2>2
  <1> QED
    BY <1>3, <1>4, <1>5, <1>8, <1>9 DEF TaskShape

LEMMA Single ==
  ASSUME NEW e
  PROVE  /\ TaskShape(<<>>) /\ Elements(<<>>) = {}
         /\ TaskShape(<<e>>) /\ Elements(<<e>>) = {e}
  <1>1. <<>> \in Seq({e}) /\ Len(<<>>) = 0
    OBVIOUS
  <1>2. <<e>> \in Seq({e}) /\ Len(<<e>>) = 1 /\ <<e>>[1] = e /\ 1..1 = {1}
    OBVIOUS
  <1>3. TaskShape(<<>>) /\ Elements(<<>>) = {}
    BY <1>1 DEF TaskShape, IsSeq, Elements
  <1>4. TaskShape(<<e>>) /\ Elements(<<e>>) = {e}
    BY <1>2 DEF TaskShape, IsSeq, Elements
  <1> QED
    BY <1>3, <1>4

LEMMA Pushed ==
  ASSUME NEW e, NEW q, TaskShape(q), \A f \in Elements(q) : Kind(f) # Kind(e)
  PROVE  TaskShape(<<e>> \o q) /\ Elements(<<e>> \o q) = {e} \union Elements(q)
  <1>1. PICK S : q \in Seq(S)
    BY DEF IsSeq, TaskShape
  <1> DEFINE r == <<e>> \o q
  <1>2. q \in Seq(S \union {e}) /\ <<e>> \in Seq(S \union {e})
    BY <1>1
  <1>3. /\ r \in Seq(S \union {e}) /\ Len(r) = Len(q) + 1 /\ Len(q) \in Nat
        /\ r[1] = e /\ \A i \in 1..Len(q) : r[i + 1] = q[i]
    BY <1>2
  <1>4. \A i \in 1..Len(r) : i = 1 \/ (i - 1 \in 1..Len(q) /\ r[i] = q[i - 1])
    BY <1>3
  <1>5. ASSUME NEW i \in 1..Len(r), NEW j \in 1..Len(r), Kind(r[i]) = Kind(r[j])
        PROVE  i = j
    <2>1. CASE i = 1 /\ j = 1
      BY <2>1
    <2>2. CASE i = 1 /\ j # 1
      <3>1. j - 1 \in 1..Len(q) /\ r[j] = q[j - 1]
        BY <1>4, <2>2
      <3> QED
        BY <1>3, <1>5, <2>2, <3>1 DEF Elements
    <2>3. CASE i # 1 /\ j = 1
      <3>1. i - 1 \in 1..Len(q) /\ r[i] = q[i - 1]
        BY <1>4, <2>3
      <3> QED
        BY <1>3, <1>5, <2>3, <3>1 DEF Elements
    <2>4. CASE i # 1 /\ j # 1
      <3>1. i - 1 \in 1..Len(q) /\ j - 1 \in 1..Len(q) /\ r[i] = q[i - 1] /\ r[j] = q[j - 1]
        BY <1>4, <2>4
      <3>2. i - 1 = j - 1
        BY <1>5, <3>1 DEF TaskShape
      <3> QED
        BY <3>2
    <2> QED
      BY <2>1, <2>2, <2>3, <2>4
  <1>6. IsSeq(r)
    BY <1>3 DEF IsSeq
  <1>7. \A f \in Elements(r) : f \in {e} \union Elements(q)
    BY <1>3, <1>4 DEF Elements
  <1>8. \A f \in Elements(q) : f \in Elements(r)
    <2>1. ASSUME NEW i \in 1..Len(q) PROVE q[i] \in Elements(r)
      <3>1. i + 1 \in 1..Len(r) /\ r[i + 1] = q[i]
        BY <1>3
      <3> QED
        BY <3>1 DEF Elements
    <2> QED
      BY <2>1 DEF Elements
  <1>9. e \in Elements(r)
    BY <1>3 DEF Elements
  <1> HIDE DEF r
  <1>10. TaskShape(r) /\ Elements(r) = {e} \union Elements(q)
    BY <1>5, <1>6, <1>7, <1>8, <1>9 DEF TaskShape
  <1> QED
    BY <1>10 DEF r

LEMMA PushedTwo ==
  ASSUME NEW e, NEW f, NEW q, TaskShape(q), Kind(e) # Kind(f),
         \A g \in Elements(q) : Kind(g) # Kind(e) /\ Kind(g) # Kind(f)
  PROVE  TaskShape(<<e, f>> \o q) /\ Elements(<<e, f>> \o q) = {e, f} \union Elements(q)
  <1>1. TaskShape(<<f>> \o q) /\ Elements(<<f>> \o q) = {f} \union Elements(q)
    BY Pushed
  <1>2. /\ TaskShape(<<e>> \o (<<f>> \o q))
        /\ Elements(<<e>> \o (<<f>> \o q)) = {e} \union ({f} \union Elements(q))
    BY <1>1, Pushed
  <1>3. PICK S : q \in Seq(S)
    BY DEF IsSeq, TaskShape
  <1>4. <<e>> \o (<<f>> \o q) = <<e, f>> \o q
    <2>1. q \in Seq(S \union {e, f}) /\ <<e>> \in Seq(S \union {e, f})
          /\ <<f>> \in Seq(S \union {e, f}) /\ <<e, f>> \in Seq(S \union {e, f})
      BY <1>3
    <2>2. <<e>> \o (<<f>> \o q) = (<<e>> \o <<f>>) \o q
      BY <2>1
    <2>3. <<e>> \o <<f>> = <<e, f>>
      <3> DEFINE r == <<e>> \o <<f>>
      <3>1. r \in Seq({e, f}) /\ Len(r) = 2 /\ r[1] = e /\ r[2] = f
        <4>1. <<e>> \in Seq({e, f}) /\ <<f>> \in Seq({e, f})
          OBVIOUS
        <4> QED
          BY <4>1
      <3> HIDE DEF r
      <3>2. DOMAIN r = 1..2 /\ r = [i \in DOMAIN r |-> r[i]]
        BY <3>1
      <3>3. r = <<e, f>>
        BY <3>1, <3>2
      <3> QED
        BY <3>3 DEF r
    <2> QED
      BY <2>2, <2>3
  <1> QED
    BY <1>2, <1>4

(***************************************************************************)
(* What the variables may hold, and the shape of the tasks.                *)
(***************************************************************************)
Rooms(s) == Public[s] \union Private[s]

AllNames == UNION {OwnNames(c) : c \in Clients}

\* The maintenance task only ever refreshes the lists.
TasksOK ==
    /\ DOMAIN task = Tasks
    /\ \A t \in Tasks : TaskShape(task[t])
    /\ \A e \in Pending(Maintenance) : Kind(e) = "read"

Basics(s) ==
    /\ registered \subseteq Clients /\ senders \subseteq Clients
    /\ DOMAIN phase = Clients /\ DOMAIN view = Clients
    /\ channel \in [Clients -> Rooms(s) \union {None}]
    /\ name \in [Clients -> AllNames] /\ \A c \in Clients : name[c] \in OwnNames(c)
    /\ phase = [c \in Clients |-> phase[c]]
    /\ view = [c \in Clients |-> view[c]]
    /\ TasksOK

(***************************************************************************)
(* The steps of the control plane, told by the sets of pending effects.    *)
(***************************************************************************)
Same(t) == \A u \in Tasks \ {t} : Pending(u)' = Pending(u)

Gets(t, effects) == Pending(t)' = effects /\ Same(t)

\* A connection that reads its next command.
Ready(c) == c \in Clients /\ c \in senders /\ Pending(c) = {}

In(ch) == {c \in registered : channel[c] = ch}

Refreshes(s, ch) == IF ch \in Public[s] THEN {Control(s)!ReadList} ELSE {}

RosterMessages == {"JoinedChannel", "LeftChannel", "PeerJoined", "PeerLeft", "NameChanged"}

\* What a handler that changes nothing in the registry may still send.
Answer(s, c, e) ==
    \/ \E d, m : e = Control(s)!SendTo(d, m) /\ m.t \notin RosterMessages
    \/ /\ channel[c] # None
       /\ e = Control(s)!CastTo(channel[c], c, Control(s)!ChatMessage(name[c], channel[c]))

Idle ==
    /\ UNCHANGED <<phase, registered, channel, name, channels, senders, view, dropped,
                   raced, lastList>>
    /\ \A t \in Tasks : Pending(t)' = Pending(t)

Accepted(s, c) ==
    /\ phase[c] = "new" /\ phase' = [phase EXCEPT ![c] = "open"]
    /\ registered' = registered \union {c}
    /\ Gets(c, {Control(s)!OpenQueue})
    /\ UNCHANGED <<channel, name, channels, senders, view, dropped, raced, lastList>>

Opened(s, c) ==
    /\ \E e \in Pending(c) : e.op = "open" /\ Gets(c, Pending(c) \ {e})
    /\ senders' = senders \union {c}
    /\ UNCHANGED <<phase, registered, channel, name, channels, view, dropped, raced,
                   lastList>>

Answered(s, c) ==
    /\ Ready(c)
    /\ \E E : (\A e \in E : Answer(s, c, e)) /\ Gets(c, E)
    /\ UNCHANGED <<phase, registered, channel, name, channels, senders, view, dropped,
                   raced, lastList>>

Created(s, c, ch) ==
    /\ Ready(c)
    /\ channels' = channels \union {ch}
    /\ Gets(c, {Control(s)!SendTo(c, Control(s)!ChannelCreated(ch))}
               \union Refreshes(s, ch))
    /\ UNCHANGED <<phase, registered, channel, name, senders, view, dropped, raced,
                   lastList>>

\* The members whose JoinedChannel is still to come, or whose PeerJoined is.
Entering(ch) ==
    {c \in Clients : \E e \in Pending(c) :
        e.op = "send" /\ e.msg.t = "JoinedChannel" /\ e.msg.ch = ch}

Announcers(ch) ==
    {c \in Clients : \E e \in Pending(c) :
        e.op = "cast" /\ e.msg.t = "PeerJoined" /\ e.ch = ch}

Entered(s, c, ch) ==
    /\ Ready(c) /\ ch \in Rooms(s)
    /\ channel[c] = None /\ channel' = [channel EXCEPT ![c] = ch]
    /\ Gets(c, {Control(s)!CastTo(ch, c, Control(s)!PeerJoined(name[c])),
                Control(s)!SendTo(c, Control(s)!JoinedChannel(ch,
                    Control(s)!RosterOf(In(ch) \union {c}, name)))}
               \union Refreshes(s, ch))
    /\ raced' = (raced \ {c}) \union (Entering(ch) \ {c})
                \union (IF Announcers(ch) # {} THEN {c} ELSE {})
    /\ UNCHANGED <<phase, registered, name, channels, senders, view, dropped, lastList>>

Vacated(c) == channels' \in {channels, channels \ {channel[c]}}

Departed(s, c) ==
    /\ Ready(c)
    /\ channel[c] # None /\ channel' = [channel EXCEPT ![c] = None]
    /\ Vacated(c)
    /\ Gets(c, {Control(s)!SendTo(c, Control(s)!LeftChannel),
                Control(s)!CastTo(channel[c], None, Control(s)!PeerLeft(name[c]))}
               \union Refreshes(s, channel[c]))
    /\ raced' = raced \union (Entering(channel[c]) \ {c})
    /\ UNCHANGED <<phase, registered, name, senders, view, dropped, lastList>>

Echoed(s, c, ch) ==
    /\ Ready(c)
    /\ ch \in Private[s] /\ In(ch) = {}
    /\ channels' = channels \union {ch}
    /\ channel[c] = None /\ channel' = [channel EXCEPT ![c] = ch]
    /\ Gets(c, {Control(s)!SendTo(c, Control(s)!EchoTestReady(ch))})
    /\ UNCHANGED <<phase, registered, name, senders, view, dropped, raced, lastList>>

Renamed(s, c, n) ==
    /\ Ready(c)
    /\ n \in OwnNames(c) /\ name' = [name EXCEPT ![c] = n]
    /\ Gets(c, {Control(s)!SendTo(c, Control(s)!NameChanged(name[c], n))} \union
               (IF channel[c] = None THEN {}
                ELSE {Control(s)!CastTo(channel[c], c, Control(s)!NameChanged(name[c], n))}))
    /\ raced' = raced \union
           (IF channel[c] = None THEN {} ELSE Entering(channel[c]) \ {c})
    /\ UNCHANGED <<phase, registered, channel, channels, senders, view, dropped, lastList>>

Closed(s, c) ==
    /\ Ready(c)
    /\ phase' = [phase EXCEPT ![c] = "closed"]
    /\ senders' = senders \ {c}
    /\ Gets(c, {Control(s)!RemoveClient})
    /\ UNCHANGED <<registered, channel, name, channels, view, dropped, raced, lastList>>

Removed(s, c) ==
    /\ \E e \in Pending(c) : e.op = "remove"
    /\ registered' = registered \ {c}
    /\ channel' = [channel EXCEPT ![c] = None]
    /\ IF channel[c] = None THEN UNCHANGED <<channels, raced>>
       ELSE /\ Vacated(c)
            /\ raced' = raced \union (Entering(channel[c]) \ {c})
    /\ Gets(c, IF channel[c] = None THEN {}
               ELSE {Control(s)!CastTo(channel[c], None, Control(s)!PeerLeft(name[c]))}
                    \union Refreshes(s, channel[c]))
    /\ UNCHANGED <<phase, name, senders, view, dropped, lastList>>

\* The message reaches those of the targets that have a queue; who misses it is dropped.
Reaches(s, targets, m) ==
    /\ dropped \subseteq dropped'
    /\ view' = [c \in Clients |-> view'[c]]
    /\ \A c \in Clients : view'[c] # view[c] =>
           c \in senders /\ c \in targets /\ view'[c] = Control(s)!Apply(view[c], m)
    /\ \A c \in senders \ dropped' :
           c \in targets => view'[c] = Control(s)!Apply(view[c], m)

Performed(s, t, e, targets, m) ==
    /\ e \in Pending(t) /\ Gets(t, Pending(t) \ {e})
    /\ \A f \in Pending(t) : f # e => f.op # e.op
    /\ Reaches(s, targets, m)
    /\ UNCHANGED <<phase, registered, channel, name, channels, senders, raced, lastList>>

Sent(s, t) ==
    \E e \in Pending(t) : e.op = "send" /\ Performed(s, t, e, {e.to}, e.msg)

Casted(s, t) ==
    \E e \in Pending(t) :
        e.op = "cast" /\ Performed(s, t, e, In(e.ch) \ {e.exclude}, e.msg)

Fanned(s, t) ==
    \E e \in Pending(t) : e.op = "fan"
        /\ Performed(s, t, e, senders, Control(s)!ChannelList(e.list))

ListRead(s, t) ==
    /\ \E e \in Pending(t) :
           e.op = "read"
           /\ Gets(t, (Pending(t) \ {e}) \union {Control(s)!FanOut(Control(s)!PublicList)})
    /\ lastList' = Control(s)!PublicList
    /\ UNCHANGED <<phase, registered, channel, name, channels, senders, view, dropped,
                   raced>>

Reaped(s, removed) ==
    /\ channels' = channels \ removed
    /\ \A ch \in removed : In(ch) = {}
    /\ Pending(Maintenance) = {}
    /\ Gets(Maintenance, IF removed \intersect Public[s] = {} THEN {}
                         ELSE {Control(s)!ReadList})
    /\ UNCHANGED <<phase, registered, channel, name, senders, view, dropped, raced,
                   lastList>>

Event(s) ==
    \/ Idle
    \/ \E c \in Clients :
           \/ Accepted(s, c) \/ Opened(s, c) \/ Answered(s, c)
           \/ \E ch \in Rooms(s) : Created(s, c, ch) \/ Entered(s, c, ch) \/ Echoed(s, c, ch)
           \/ Departed(s, c) \/ Closed(s, c) \/ Removed(s, c)
           \/ \E n \in OwnNames(c) : Renamed(s, c, n)
    \/ \E t \in Tasks : Sent(s, t) \/ Casted(s, t) \/ Fanned(s, t) \/ ListRead(s, t)
    \/ \E removed : Reaped(s, removed)

(***************************************************************************)
(* Every step of the control plane is one of these events.                 *)
(***************************************************************************)
LEMMA TaskSet ==
  ASSUME NEW s \in Scenes, Basics(s), NEW t \in Tasks, NEW q, TaskShape(q),
         task' = [task EXCEPT ![t] = q],
         t = Maintenance => \A e \in Elements(q) : Kind(e) = "read"
  PROVE  TasksOK' /\ Gets(t, Elements(q))
  <1>1. DOMAIN task' = Tasks /\ task'[t] = q /\ \A u \in Tasks \ {t} : task'[u] = task[u]
    BY DEF Basics, TasksOK
  <1>2. \A u \in Tasks : TaskShape(task'[u])
    BY <1>1 DEF Basics, TasksOK
  <1>3. Gets(t, Elements(q))
    BY <1>1 DEF Gets, Same, Pending
  <1>4. Maintenance \in Tasks
    BY DEF Tasks
  <1>5. \A e \in Pending(Maintenance)' : Kind(e) = "read"
    <2>1. CASE t = Maintenance
      BY <1>1, <2>1 DEF Pending
    <2>2. CASE t # Maintenance
      BY <1>3, <1>4, <2>2 DEF Basics, TasksOK, Gets, Same
    <2> QED
      BY <2>1, <2>2
  <1> QED
    BY <1>1, <1>2, <1>3, <1>5 DEF TasksOK

LEMMA OneEffect ==
  ASSUME NEW s \in Scenes, Basics(s), NEW t \in Tasks, NEW e, task' = [task EXCEPT ![t] = <<e>>],
         t = Maintenance => Kind(e) = "read"
  PROVE  TasksOK' /\ Gets(t, {e})
  <1>1. TaskShape(<<e>>) /\ Elements(<<e>>) = {e}
    BY Single
  <1>2. t = Maintenance => \A f \in Elements(<<e>>) : Kind(f) = "read"
    BY <1>1
  <1>3. TasksOK' /\ Gets(t, Elements(<<e>>))
    BY <1>1, <1>2, TaskSet
  <1> QED
    BY <1>1, <1>3

LEMMA NoEffect ==
  ASSUME NEW s \in Scenes, Basics(s), NEW t \in Tasks, task' = [task EXCEPT ![t] = <<>>]
  PROVE  TasksOK' /\ Gets(t, {})
  <1>1. TaskShape(<<>>) /\ Elements(<<>>) = {}
    BY Single
  <1>2. t = Maintenance => \A f \in Elements(<<>>) : Kind(f) = "read"
    BY <1>1
  <1>3. TasksOK' /\ Gets(t, Elements(<<>>))
    BY <1>1, <1>2, TaskSet
  <1> QED
    BY <1>1, <1>3

LEMMA NamesAgree ==
  ASSUME NEW s \in Scenes
  PROVE  /\ Control(s)!Tasks = Tasks /\ Control(s)!Channels = Rooms(s)
         /\ Control(s)!Names = AllNames
         /\ \A ch : Control(s)!Members(ch) = In(ch)
         /\ Maintenance \notin Clients
         /\ None \notin Rooms(s) \union Clients \union AllNames
         /\ FirstName \in [Clients -> AllNames]
         /\ \A c \in Clients : OtherNames[c] \subseteq OwnNames(c)
         /\ Public[s] \intersect Private[s] = {}
  <1>1. Control(s)!Names = AllNames
    BY DEF Control!Names, AllNames, OwnNames
  <1> QED
    BY <1>1, TasksAssumption
    DEF Control!ControlAssumption, Control!Tasks, Control!Channels, Control!Members, Tasks,
        Rooms, In, OwnNames

LEMMA Commanding ==
  ASSUME NEW s \in Scenes, Basics(s), NEW c \in Clients, NEW kind, Control(s)!Command(c, kind)
  PROVE  Ready(c)
  BY Single DEF Ready, Control!Command, Pending

LEMMA SameOverlap ==
  ASSUME NEW s \in Scenes, Basics(s), NEW ch
  PROVE  Control(s)!Joining(ch) = Entering(ch) /\ Control(s)!Announcing(ch) = Announcers(ch)
  <1>1. ASSUME NEW c \in Clients
        PROVE  DOMAIN task[c] = 1..Len(task[c])
    <2>1. TaskShape(task[c])
      BY DEF Basics, TasksOK, Tasks
    <2>2. PICK S : task[c] \in Seq(S)
      BY <2>1 DEF TaskShape, IsSeq
    <2> QED
      BY <2>2
  <1>2. \A c \in Clients : Pending(c) = {task[c][i] : i \in DOMAIN task[c]}
    BY <1>1 DEF Pending, Elements
  <1> QED
    BY <1>2 DEF Control!Joining, Control!Announcing, Entering, Announcers

LEMMA Delivery ==
  ASSUME NEW s \in Scenes, Basics(s), NEW targets, NEW m, Control(s)!Deliver(targets, m)
  PROVE  Reaches(s, targets, m) /\ DOMAIN view' = Clients
  <1>1. PICK full \in SUBSET (targets \intersect senders \intersect SlowClients[s]) :
          /\ view' = [c \in Clients |-> IF c \in (targets \intersect senders) \ full
                                        THEN Control(s)!Apply(view[c], m) ELSE view[c]]
          /\ dropped' = dropped \union full
    BY DEF Control!Deliver
  <1>2. \A c \in Clients : view'[c] = IF c \in (targets \intersect senders) \ full
                                      THEN Control(s)!Apply(view[c], m) ELSE view[c]
    BY <1>1
  <1>3. DOMAIN view' = Clients /\ view' = [c \in Clients |-> view'[c]]
    BY <1>1
  <1> QED
    BY <1>1, <1>2, <1>3 DEF Reaches, Basics

\* The forms the tasks of the handlers take.
LEMMA RefreshShape ==
  ASSUME NEW s \in Scenes, NEW ch
  PROVE  /\ TaskShape(Control(s)!Refresh(ch))
         /\ Elements(Control(s)!Refresh(ch)) = Refreshes(s, ch)
         /\ \A e \in Refreshes(s, ch) : Kind(e) = "read"
  <1> DEFINE read == Control(s)!ReadList
  <1>1. Kind(read) = "read"
    BY DEF Kind, Control!ReadList
  <1> HIDE DEF read
  <1>2. /\ TaskShape(<<>>) /\ Elements(<<>>) = {}
        /\ TaskShape(<<read>>) /\ Elements(<<read>>) = {read}
    BY Single
  <1>3. /\ Control(s)!Refresh(ch) = IF ch \in Public[s] THEN <<read>> ELSE <<>>
        /\ Refreshes(s, ch) = IF ch \in Public[s] THEN {read} ELSE {}
    BY DEF Control!Refresh, Refreshes, read
  <1> QED
    BY <1>1, <1>2, <1>3

LEMMA Taken ==
  ASSUME NEW s \in Scenes, Basics(s), NEW t \in Tasks, task[t] # <<>>
  PROVE  /\ Head(task[t]) \in Pending(t)
         /\ TaskShape(Tail(task[t]))
         /\ Elements(Tail(task[t])) = Pending(t) \ {Head(task[t])}
         /\ \A e \in Elements(Tail(task[t])) : Kind(e) # Kind(Head(task[t]))
         /\ \A f \in Pending(t) : f # Head(task[t]) => f.op # Head(task[t]).op
  <1>1. TaskShape(task[t])
    BY DEF Basics, TasksOK
  <1>2. /\ Head(task[t]) \in Pending(t)
        /\ TaskShape(Tail(task[t]))
        /\ Elements(Tail(task[t])) = Pending(t) \ {Head(task[t])}
        /\ \A e \in Elements(Tail(task[t])) : Kind(e) # Kind(Head(task[t]))
    BY <1>1, HeadAndTail DEF Pending
  <1> QED
    BY <1>2 DEF Kind

LEMMA EveryStep ==
  ASSUME NEW s \in Scenes, Basics(s), Control(s)!Next
  PROVE  Basics(s)' /\ Event(s)
  <1>0. /\ Control(s)!Tasks = Tasks /\ Control(s)!Channels = Rooms(s)
        /\ \A ch : Control(s)!Members(ch) = In(ch)
        /\ \A c \in Clients : OtherNames[c] \subseteq OwnNames(c)
    BY NamesAgree
  <1>1. ASSUME NEW c \in Clients, Control(s)!ClientNext(c)
        PROVE  Basics(s)' /\ Event(s)
    <2>c. c \in Tasks /\ c # Maintenance
      BY NamesAgree DEF Tasks
    <2> DEFINE quiet == UNCHANGED <<phase, registered, channel, name, channels, senders,
                                    view, dropped, raced, lastList>>
    <2>1. ASSUME NEW m, m.t \notin RosterMessages, Ready(c), Control(s)!Reply(c, m)
          PROVE  /\ TasksOK' /\ UNCHANGED <<registered, channel, name, channels>>
                 /\ \E E : (\A e \in E : Answer(s, c, e)) /\ Gets(c, E)
      <3> DEFINE e == Control(s)!SendTo(c, m)
      <3>1. task' = [task EXCEPT ![c] = <<e>>] /\ UNCHANGED <<registered, channel, name, channels>>
        BY <2>1 DEF Control!Reply, Control!Then, Control!registry
      <3>2. Answer(s, c, e)
        BY <2>1 DEF Answer
      <3> HIDE DEF e
      <3>3. TasksOK' /\ Gets(c, {e})
        BY <2>c, <3>1, OneEffect
      <3> QED
        BY <3>1, <3>2, <3>3
    <2>2. ASSUME quiet, TasksOK', Ready(c), \E E : (\A e \in E : Answer(s, c, e)) /\ Gets(c, E)
          PROVE  Basics(s)' /\ Event(s)
      <3>1. Answered(s, c)
        BY <2>2 DEF Answered
      <3>2. Basics(s)'
        BY <2>2 DEF Basics
      <3> QED
        BY <3>1, <3>2 DEF Event
    <2> HIDE DEF quiet
    <2>3. CASE Control(s)!Accept(c)
      <3> DEFINE e == Control(s)!OpenQueue
      <3>1. /\ task' = [task EXCEPT ![c] = <<e>>]
            /\ phase[c] = "new" /\ phase' = [phase EXCEPT ![c] = "open"]
            /\ registered' = registered \union {c}
            /\ UNCHANGED <<channel, name, channels, senders, view, dropped, raced, lastList>>
        BY <2>3 DEF Control!Accept
      <3>2. TasksOK' /\ Gets(c, {e})
        BY <2>c, <3>1, OneEffect
      <3>3. Accepted(s, c)
        BY <3>1, <3>2 DEF Accepted
      <3>4. Basics(s)'
        BY <3>1, <3>2 DEF Basics
      <3> QED
        BY <3>3, <3>4 DEF Event
    <2>4. ASSUME NEW ch \in Rooms(s), Control(s)!HandleCreateChannel(c, ch)
          PROVE  Basics(s)' /\ Event(s)
      <3>1. /\ Ready(c)
            /\ UNCHANGED <<phase, senders, view, dropped, raced, lastList>>
        BY <2>4, Commanding DEF Control!HandleCreateChannel
      <3>2. CASE Control(s)!Reply(c, Control(s)!Error)
        BY <2>1, <2>2, <3>1, <3>2 DEF quiet, Control!Error, RosterMessages
      <3>3. CASE ~Control(s)!Reply(c, Control(s)!Error)
        <4> DEFINE e == Control(s)!SendTo(c, Control(s)!ChannelCreated(ch))
                   r == Control(s)!Refresh(ch)
        <4>1. /\ task' = [task EXCEPT ![c] = <<e>> \o r]
              /\ channels' = channels \union {ch}
              /\ UNCHANGED <<registered, channel, name>>
          BY <2>4, <3>3 DEF Control!HandleCreateChannel, Control!Then
        <4>2. Kind(e) = "send"
          BY DEF Kind, Control!SendTo
        <4>3. TaskShape(r) /\ Elements(r) = Refreshes(s, ch) /\ \A g \in Elements(r) : Kind(g) = "read"
          BY RefreshShape
        <4> HIDE DEF e, r
        <4>4. TaskShape(<<e>> \o r) /\ Elements(<<e>> \o r) = {e} \union Refreshes(s, ch)
          BY <4>2, <4>3, Pushed
        <4>5. TasksOK' /\ Gets(c, Elements(<<e>> \o r))
          BY <2>c, <4>1, <4>4, TaskSet
        <4>6. Created(s, c, ch)
          BY <3>1, <4>1, <4>4, <4>5 DEF Created, e
        <4>7. Basics(s)'
          BY <3>1, <4>1, <4>5 DEF Basics
        <4> QED
          BY <4>6, <4>7 DEF Event
      <3> QED
        BY <3>2, <3>3
    <2>5. ASSUME NEW ch \in Rooms(s), Control(s)!HandleJoinChannel(c, ch)
          PROVE  Basics(s)' /\ Event(s)
      <3>1. /\ Ready(c)
            /\ UNCHANGED <<phase, senders, view, dropped, lastList>>
        BY <2>5, Commanding DEF Control!HandleJoinChannel
      <3>2. CASE ch \notin channels \/ channel[c] # None
        <4>1. Control(s)!Reply(c, Control(s)!Error) /\ UNCHANGED raced
          BY <2>5, <3>2 DEF Control!HandleJoinChannel
        <4> QED
          BY <2>1, <2>2, <3>1, <4>1 DEF quiet, Control!Error, RosterMessages
      <3>3. CASE ~(ch \notin channels \/ channel[c] # None)
        <4> DEFINE e == Control(s)!CastTo(ch, c, Control(s)!PeerJoined(name[c]))
                   f == Control(s)!SendTo(c, Control(s)!JoinedChannel(ch,
                            Control(s)!RosterOf(In(ch) \union {c}, name)))
                   r == Control(s)!Refresh(ch)
        <4>1. /\ channel' = [channel EXCEPT ![c] = ch]
              /\ task' = [task EXCEPT ![c] = Control(s)!JoinEffects(c, ch)]
              /\ raced' = (raced \ {c}) \union (Control(s)!Joining(ch) \ {c})
                          \union (IF Control(s)!Announcing(ch) # {} THEN {c} ELSE {})
              /\ UNCHANGED <<registered, name, channels>>
          BY <2>5, <3>3 DEF Control!HandleJoinChannel, Control!Then
        <4>2. Control(s)!JoinEffects(c, ch) = <<e, f>> \o r
          BY <1>0 DEF Control!JoinEffects
        <4>3. Kind(e) = "cast" /\ Kind(f) = "send"
          BY DEF Kind, Control!SendTo, Control!CastTo
        <4>4. TaskShape(r) /\ Elements(r) = Refreshes(s, ch) /\ \A g \in Elements(r) : Kind(g) = "read"
          BY RefreshShape
        <4> HIDE DEF e, f, r
        <4>5. TaskShape(<<e, f>> \o r) /\ Elements(<<e, f>> \o r) = {e, f} \union Refreshes(s, ch)
          BY <4>3, <4>4, PushedTwo
        <4>6. TasksOK' /\ Gets(c, Elements(<<e, f>> \o r))
          BY <2>c, <4>1, <4>2, <4>5, TaskSet
        <4>7. Control(s)!Joining(ch) = Entering(ch) /\ Control(s)!Announcing(ch) = Announcers(ch)
          BY SameOverlap
        <4>8. Entered(s, c, ch)
          BY <3>1, <3>3, <4>1, <4>5, <4>6, <4>7 DEF Entered, e, f
        <4>9. Basics(s)'
          BY <3>1, <4>1, <4>6 DEF Basics
        <4> QED
          BY <4>8, <4>9 DEF Event
      <3> QED
        BY <3>2, <3>3
    <2>6. ASSUME NEW ch \in Rooms(s), Control(s)!HandleStartEchoTest(c, ch)
          PROVE  Basics(s)' /\ Event(s)
      <3>1. /\ Ready(c)
            /\ UNCHANGED <<phase, senders, view, dropped, raced, lastList>>
        BY <2>6, Commanding DEF Control!HandleStartEchoTest
      <3>2. CASE Control(s)!Reply(c, Control(s)!Error)
        BY <2>1, <2>2, <3>1, <3>2 DEF quiet, Control!Error, RosterMessages
      <3>3. CASE ~Control(s)!Reply(c, Control(s)!Error)
        <4> DEFINE e == Control(s)!SendTo(c, Control(s)!EchoTestReady(ch))
        <4>1. /\ channel[c] = None
              /\ ch \in Private[s] \ channels /\ Control(s)!Members(ch) = {}
              /\ channels' = channels \union {ch}
              /\ channel' = [channel EXCEPT ![c] = ch]
              /\ task' = [task EXCEPT ![c] = <<e>>]
              /\ UNCHANGED <<registered, name>>
          BY <2>6, <3>3 DEF Control!HandleStartEchoTest, Control!Then
        <4> HIDE DEF e
        <4>2. TasksOK' /\ Gets(c, {e})
          BY <2>c, <4>1, OneEffect
        <4>3. Echoed(s, c, ch)
          BY <1>0, <3>1, <4>1, <4>2 DEF Echoed, e
        <4>4. Basics(s)'
          BY <3>1, <4>1, <4>2 DEF Basics
        <4> QED
          BY <4>3, <4>4 DEF Event
      <3> QED
        BY <3>2, <3>3
    <2>7. CASE Control(s)!HandleLeaveChannel(c)
      <3>1. /\ Ready(c)
            /\ UNCHANGED <<phase, senders, view, dropped, lastList>>
        BY <2>7, Commanding DEF Control!HandleLeaveChannel
      <3>2. CASE channel[c] = None
        <4>1. Control(s)!Reply(c, Control(s)!Error) /\ UNCHANGED raced
          BY <2>7, <3>2 DEF Control!HandleLeaveChannel
        <4> QED
          BY <2>1, <2>2, <3>1, <4>1 DEF quiet, Control!Error, RosterMessages
      <3>3. CASE channel[c] # None
        <4> DEFINE e == Control(s)!SendTo(c, Control(s)!LeftChannel)
                   f == Control(s)!CastTo(channel[c], None, Control(s)!PeerLeft(name[c]))
                   r == Control(s)!Refresh(channel[c])
        <4>1. /\ channel' = [channel EXCEPT ![c] = None]
              /\ task' = [task EXCEPT ![c] = Control(s)!LeaveEffects(c)]
              /\ raced' = raced \union (Control(s)!Joining(channel[c]) \ {c})
              /\ Control(s)!Vacate(c)
              /\ UNCHANGED <<registered, name>>
          BY <2>7, <3>3 DEF Control!HandleLeaveChannel, Control!Then
        <4>2. Control(s)!LeaveEffects(c) = <<e, f>> \o r
          BY DEF Control!LeaveEffects
        <4>3. Kind(e) = "send" /\ Kind(f) = "cast"
          BY DEF Kind, Control!SendTo, Control!CastTo
        <4>4. /\ TaskShape(r) /\ Elements(r) = Refreshes(s, channel[c])
              /\ \A g \in Elements(r) : Kind(g) = "read"
          BY RefreshShape
        <4> HIDE DEF e, f, r
        <4>5. /\ TaskShape(<<e, f>> \o r)
              /\ Elements(<<e, f>> \o r) = {e, f} \union Refreshes(s, channel[c])
          BY <4>3, <4>4, PushedTwo
        <4>6. TasksOK' /\ Gets(c, Elements(<<e, f>> \o r))
          BY <2>c, <4>1, <4>2, <4>5, TaskSet
        <4>7. Control(s)!Joining(channel[c]) = Entering(channel[c])
          BY SameOverlap
        <4>8. Vacated(c)
          BY <4>1 DEF Control!Vacate, Vacated
        <4>9. Departed(s, c)
          BY <3>1, <3>3, <4>1, <4>5, <4>6, <4>7, <4>8 DEF Departed, e, f
        <4>10. Basics(s)'
          BY <3>1, <4>1, <4>6 DEF Basics
        <4> QED
          BY <4>9, <4>10 DEF Event
      <3> QED
        BY <3>2, <3>3
    <2>8. CASE Control(s)!HandleChatMessage(c)
      <3>1. /\ Ready(c)
            /\ UNCHANGED <<phase, senders, view, dropped, raced, lastList>>
        BY <2>8, Commanding DEF Control!HandleChatMessage
      <3>2. CASE Control(s)!Reply(c, Control(s)!Error)
        BY <2>1, <2>2, <3>1, <3>2 DEF quiet, Control!Error, RosterMessages
      <3>3. CASE ~Control(s)!Reply(c, Control(s)!Error) /\ channel[c] # None
        <4> DEFINE e == Control(s)!CastTo(channel[c], c,
                            Control(s)!ChatMessage(name[c], channel[c]))
        <4>1. /\ task' = [task EXCEPT ![c] = <<e>>]
              /\ UNCHANGED <<registered, channel, name, channels>>
          BY <2>8, <3>3 DEF Control!HandleChatMessage, Control!Then, Control!registry
        <4>2. Answer(s, c, e)
          BY <3>3 DEF Answer
        <4> HIDE DEF e
        <4>3. TasksOK' /\ Gets(c, {e})
          BY <2>c, <4>1, OneEffect
        <4> QED
          BY <2>2, <3>1, <4>1, <4>2, <4>3 DEF quiet
      <3>4. CASE ~Control(s)!Reply(c, Control(s)!Error) /\ channel[c] = None
        <4>1. UNCHANGED <<task, registered, channel, name, channels>>
          BY <2>8, <3>4 DEF Control!HandleChatMessage, Control!registry
        <4>2. TasksOK' /\ Gets(c, {})
          BY <3>1, <4>1 DEF Basics, TasksOK, Gets, Same, Pending, Ready
        <4> QED
          BY <2>2, <3>1, <4>1, <4>2 DEF quiet
      <3> QED
        BY <3>2, <3>3, <3>4
    <2>9. ASSUME NEW d \in Clients, Control(s)!HandleDirectMessage(c, d)
          PROVE  Basics(s)' /\ Event(s)
      <3>1. /\ Ready(c)
            /\ UNCHANGED <<phase, senders, view, dropped, raced, lastList>>
        BY <2>9, Commanding DEF Control!HandleDirectMessage
      <3>2. CASE Control(s)!Reply(c, Control(s)!Error)
        BY <2>1, <2>2, <3>1, <3>2 DEF quiet, Control!Error, RosterMessages
      <3>3. CASE ~Control(s)!Reply(c, Control(s)!Error)
        <4> DEFINE m == Control(s)!DirectMessage(name[c])
                   e == Control(s)!SendTo(d, m)
        <4>1. /\ task' = [task EXCEPT ![c] = <<e>>]
              /\ UNCHANGED <<registered, channel, name, channels>>
          BY <2>9, <3>3 DEF Control!HandleDirectMessage, Control!Then, Control!registry
        <4>2. m.t \notin RosterMessages
          BY DEF Control!DirectMessage, RosterMessages
        <4> HIDE DEF m
        <4>3. Answer(s, c, e)
          BY <4>2 DEF Answer
        <4> HIDE DEF e
        <4>4. TasksOK' /\ Gets(c, {e})
          BY <2>c, <4>1, OneEffect
        <4> QED
          BY <2>2, <3>1, <4>1, <4>3, <4>4 DEF quiet
      <3> QED
        BY <3>2, <3>3
    <2>10. ASSUME NEW n \in OtherNames[c], Control(s)!HandleSetName(c, n)
           PROVE  Basics(s)' /\ Event(s)
      <3>1. /\ Ready(c)
            /\ UNCHANGED <<phase, senders, view, dropped, lastList>>
        BY <2>10, Commanding DEF Control!HandleSetName
      <3>2. CASE Control(s)!Reply(c, Control(s)!Error) /\ UNCHANGED raced
        BY <2>1, <2>2, <3>1, <3>2 DEF quiet, Control!Error, RosterMessages
      <3>3. CASE ~(Control(s)!Reply(c, Control(s)!Error) /\ UNCHANGED raced)
        <4> DEFINE e == Control(s)!SendTo(c, Control(s)!NameChanged(name[c], n))
                   f == Control(s)!CastTo(channel[c], c, Control(s)!NameChanged(name[c], n))
                   E == {e} \union (IF channel[c] = None THEN {} ELSE {f})
        <4>1. /\ task' = [task EXCEPT ![c] = Control(s)!RenameEffects(c, n)]
              /\ name' = [name EXCEPT ![c] = n]
              /\ raced' = raced \union
                    (IF channel[c] = None THEN {} ELSE Control(s)!Joining(channel[c]) \ {c})
              /\ UNCHANGED <<registered, channel, channels>>
          BY <2>10, <3>3 DEF Control!HandleSetName, Control!Then
        <4>2. Control(s)!RenameEffects(c, n) =
                  <<e>> \o (IF channel[c] = None THEN <<>> ELSE <<f>>)
          BY DEF Control!RenameEffects
        <4>3. Kind(e) = "send" /\ Kind(f) = "cast"
          BY DEF Kind, Control!SendTo, Control!CastTo
        <4>4. Control(s)!Joining(channel[c]) = Entering(channel[c])
          BY SameOverlap
        <4>5. n \in OwnNames(c) /\ n \in AllNames
          BY <1>0 DEF AllNames
        <4> HIDE DEF e, f
        <4>6. /\ TaskShape(Control(s)!RenameEffects(c, n))
              /\ Elements(Control(s)!RenameEffects(c, n)) = E
          <5>1. TaskShape(<<>>) /\ Elements(<<>>) = {} /\ TaskShape(<<f>>) /\ Elements(<<f>>) = {f}
            BY Single
          <5>2. CASE channel[c] = None
            <6>1. TaskShape(<<e>> \o <<>>) /\ Elements(<<e>> \o <<>>) = {e} \union {}
              BY <5>1, Pushed
            <6> QED
              BY <4>2, <5>2, <6>1
          <5>3. CASE channel[c] # None
            <6>1. TaskShape(<<e>> \o <<f>>) /\ Elements(<<e>> \o <<f>>) = {e} \union {f}
              BY <4>3, <5>1, Pushed
            <6> QED
              BY <4>2, <5>3, <6>1
          <5> QED
            BY <5>2, <5>3
        <4>7. TasksOK' /\ Gets(c, E)
          <5>1. TasksOK' /\ Gets(c, Elements(Control(s)!RenameEffects(c, n)))
            BY <2>c, <4>1, <4>6, TaskSet
          <5> QED
            BY <4>6, <5>1
        <4>8. Renamed(s, c, n)
          BY <3>1, <4>1, <4>4, <4>5, <4>7 DEF Renamed, e, f
        <4>9. Basics(s)'
          BY <3>1, <4>1, <4>5, <4>7 DEF Basics
        <4> QED
          BY <4>5, <4>8, <4>9 DEF Event
      <3> QED
        BY <3>2, <3>3
    <2>11. CASE Control(s)!HandleHello(c)
      <3>1. /\ Ready(c)
            /\ UNCHANGED <<phase, registered, channel, name, channels, senders, task, view,
                           dropped, raced, lastList>>
        BY <2>11, Commanding DEF Control!HandleHello
      <3>2. TasksOK' /\ Gets(c, {})
        BY <3>1 DEF Basics, TasksOK, Gets, Same, Pending, Ready
      <3> QED
        BY <2>2, <3>1, <3>2 DEF quiet
    <2>12. CASE Control(s)!HandleListChannels(c)
      <3>1. /\ Ready(c) /\ Control(s)!Reply(c, Control(s)!ChannelList(Control(s)!PublicList))
            /\ UNCHANGED <<phase, senders, view, dropped, raced, lastList>>
        BY <2>12, Commanding DEF Control!HandleListChannels
      <3> QED
        BY <2>1, <2>2, <3>1 DEF quiet, Control!ChannelList, RosterMessages
    <2>13. CASE Control(s)!HandlePing(c)
      <3>1. /\ Ready(c) /\ Control(s)!Reply(c, Control(s)!Pong)
            /\ UNCHANGED <<phase, senders, view, dropped, raced, lastList>>
        BY <2>13, Commanding DEF Control!HandlePing
      <3> QED
        BY <2>1, <2>2, <3>1 DEF quiet, Control!Pong, RosterMessages
    <2>14. CASE Control(s)!RateLimited(c)
      <3>1. /\ Ready(c) /\ Control(s)!Reply(c, Control(s)!Error)
            /\ UNCHANGED <<phase, senders, view, dropped, raced, lastList>>
        BY <2>14, Commanding DEF Control!RateLimited
      <3> QED
        BY <2>1, <2>2, <3>1 DEF quiet, Control!Error, RosterMessages
    <2>15. CASE Control(s)!Disconnect(c)
      <3> DEFINE e == Control(s)!RemoveClient
      <3>1. /\ c \in senders /\ task[c] = <<>>
            /\ phase' = [phase EXCEPT ![c] = "closed"] /\ senders' = senders \ {c}
            /\ task' = [task EXCEPT ![c] = <<e>>]
            /\ UNCHANGED <<registered, channel, name, channels, view, dropped, raced, lastList>>
        BY <2>15 DEF Control!Disconnect, Control!SendersWithout, Control!Then, Control!registry
      <3>2. Ready(c)
        BY <3>1, Single DEF Ready, Pending
      <3> HIDE DEF e
      <3>3. TasksOK' /\ Gets(c, {e})
        BY <2>c, <3>1, OneEffect
      <3>4. Closed(s, c)
        BY <3>1, <3>2, <3>3 DEF Closed, e
      <3>5. Basics(s)'
        BY <3>1, <3>3 DEF Basics
      <3> QED
        BY <3>4, <3>5 DEF Event
    <2>16. CASE Control(s)!RegisterUdp(c)
      <3>1. UNCHANGED <<phase, registered, channel, name, channels, senders, task, view,
                        dropped, raced, lastList>>
        BY <2>16 DEF Control!RegisterUdp
      <3>2. Idle /\ Basics(s)'
        BY <3>1 DEF Idle, Basics, TasksOK, Pending
      <3> QED
        BY <3>2 DEF Event
    <2> QED
      BY <1>1, <2>3, <2>4, <2>5, <2>6, <2>7, <2>8, <2>9, <2>10, <2>11, <2>12, <2>13,
         <2>14, <2>15, <2>16, <1>0 DEF Control!ClientNext
  <1>2. ASSUME NEW t \in Tasks, Control(s)!Perform(t)
        PROVE  Basics(s)' /\ Event(s)
    <2> DEFINE e == Head(task[t])
    <2>1. task[t] # <<>>
      BY <1>2 DEF Control!Perform, Control!PerformOpen, Control!PerformRemove,
                  Control!PerformSend, Control!PerformCast, Control!PerformRead,
                  Control!PerformFanOut
    <2>2. /\ e \in Pending(t)
          /\ TaskShape(Tail(task[t]))
          /\ Elements(Tail(task[t])) = Pending(t) \ {e}
          /\ \A g \in Elements(Tail(task[t])) : Kind(g) # Kind(e)
          /\ \A f \in Pending(t) : f # e => f.op # e.op
      BY <2>1, Taken
    <2>3. ASSUME task' = [task EXCEPT ![t] = Tail(task[t])]
          PROVE  TasksOK' /\ Gets(t, Pending(t) \ {e})
      <3>1. TasksOK' /\ Gets(t, Elements(Tail(task[t])))
        <4>1. t = Maintenance => \A g \in Elements(Tail(task[t])) : Kind(g) = "read"
          BY <2>2 DEF Basics, TasksOK
        <4> QED
          BY <2>2, <2>3, <4>1, TaskSet
      <3> QED
        BY <2>2, <3>1
    <2> HIDE DEF e
    <2>4. ASSUME NEW targets, NEW m, Control(s)!Deliver(targets, m),
                 task' = [task EXCEPT ![t] = Tail(task[t])],
                 UNCHANGED <<phase, registered, channel, name, channels, senders, raced,
                             lastList>>
          PROVE  Basics(s)' /\ Performed(s, t, e, targets, m)
      <3>1. Reaches(s, targets, m) /\ DOMAIN view' = Clients
        BY <2>4, Delivery
      <3>2. TasksOK' /\ Gets(t, Pending(t) \ {e})
        BY <2>3, <2>4
      <3>3. Basics(s)'
        BY <2>4, <3>1, <3>2 DEF Basics, Reaches
      <3> QED
        BY <2>2, <2>4, <3>1, <3>2, <3>3 DEF Performed
    <2>5. CASE Control(s)!PerformOpen(t)
      <3>t. t \in Clients
        BY <2>2, <2>5 DEF Basics, TasksOK, Control!PerformOpen, Kind, Tasks, e
      <3>1. /\ e.op = "open"
            /\ senders' = senders \union {t}
            /\ view' = [view EXCEPT ![t] = Control(s)!Apply(Control(s)!Apply(view[t],
                            Control(s)!Welcome), Control(s)!NameChanged(None, name[t]))]
            /\ task' = [task EXCEPT ![t] = Tail(task[t])]
            /\ UNCHANGED <<phase, registered, channel, name, channels, dropped, raced, lastList>>
        BY <2>5 DEF Control!PerformOpen, Control!registry, e
      <3>2. Control(s)!Apply(Control(s)!Apply(view[t], Control(s)!Welcome),
                             Control(s)!NameChanged(None, name[t])) = view[t]
        BY DEF Control!Apply, Control!Welcome, Control!NameChanged
      <3>3. view' = view
        BY <3>1, <3>2 DEF Basics
      <3>4. TasksOK' /\ Gets(t, Pending(t) \ {e})
        BY <2>3, <3>1
      <3>5. Opened(s, t)
        BY <2>2, <3>1, <3>3, <3>4 DEF Opened
      <3>6. Basics(s)'
        BY <3>t, <3>1, <3>3, <3>4 DEF Basics
      <3> QED
        BY <3>t, <3>5, <3>6 DEF Event
    <2>6. CASE Control(s)!PerformRemove(t)
      <3>t. t \in Clients /\ t # Maintenance
        BY <2>2, <2>6, NamesAgree DEF Basics, TasksOK, Control!PerformRemove, Kind, Tasks, e
      <3> DEFINE f == Control(s)!CastTo(channel[t], None, Control(s)!PeerLeft(name[t]))
                 r == Control(s)!Refresh(channel[t])
                 E == IF channel[t] = None THEN {} ELSE {f} \union Refreshes(s, channel[t])
      <3>1. /\ e.op = "remove"
            /\ registered' = registered \ {t}
            /\ channel' = [channel EXCEPT ![t] = None]
            /\ IF channel[t] = None THEN UNCHANGED <<channels, raced>>
               ELSE /\ Control(s)!Vacate(t)
                    /\ raced' = raced \union (Control(s)!Joining(channel[t]) \ {t})
            /\ task' = [task EXCEPT ![t] = Control(s)!RemovalEffects(t)]
            /\ UNCHANGED <<phase, name, senders, view, dropped, lastList>>
        BY <2>6 DEF Control!PerformRemove, Control!Then, e
      <3>2. Control(s)!RemovalEffects(t) = IF channel[t] = None THEN <<>> ELSE <<f>> \o r
        BY DEF Control!RemovalEffects
      <3>3. Kind(f) = "cast"
        BY DEF Kind, Control!CastTo
      <3>4. /\ TaskShape(r) /\ Elements(r) = Refreshes(s, channel[t])
            /\ \A g \in Elements(r) : Kind(g) = "read"
        BY RefreshShape
      <3> HIDE DEF f, r
      <3>5. TaskShape(<<f>> \o r) /\ Elements(<<f>> \o r) = {f} \union Refreshes(s, channel[t])
        BY <3>3, <3>4, Pushed
      <3>6. TaskShape(Control(s)!RemovalEffects(t)) /\ Elements(Control(s)!RemovalEffects(t)) = E
        BY <3>2, <3>5, Single
      <3>7. TasksOK' /\ Gets(t, E)
        <4>1. TasksOK' /\ Gets(t, Elements(Control(s)!RemovalEffects(t)))
          BY <3>t, <3>1, <3>6, TaskSet
        <4> QED
          BY <3>6, <4>1
      <3>8. Control(s)!Joining(channel[t]) = Entering(channel[t])
        BY SameOverlap
      <3>9. channel[t] # None => Vacated(t)
        BY <3>1 DEF Control!Vacate, Vacated
      <3>10. Removed(s, t)
        BY <2>2, <3>1, <3>7, <3>8, <3>9 DEF Removed, f
      <3>11. Basics(s)'
        BY <3>t, <3>1, <3>7 DEF Basics
      <3> QED
        BY <3>t, <3>10, <3>11 DEF Event
    <2>7. CASE Control(s)!PerformSend(t)
      <3>1. /\ e.op = "send" /\ Control(s)!Deliver({e.to}, e.msg)
            /\ task' = [task EXCEPT ![t] = Tail(task[t])]
            /\ UNCHANGED <<phase, registered, channel, name, channels, senders, raced, lastList>>
        BY <2>7 DEF Control!PerformSend, Control!Then, Control!registry, e
      <3>2. Basics(s)' /\ Performed(s, t, e, {e.to}, e.msg)
        BY <2>4, <3>1
      <3> QED
        BY <2>2, <3>1, <3>2 DEF Event, Sent
    <2>8. CASE Control(s)!PerformCast(t)
      <3> DEFINE reached == In(e.ch) \ {e.exclude}
      <3>1. /\ e.op = "cast" /\ Control(s)!Deliver(reached, e.msg)
            /\ task' = [task EXCEPT ![t] = Tail(task[t])]
            /\ UNCHANGED <<phase, registered, channel, name, channels, senders, raced, lastList>>
        BY <1>0, <2>8 DEF Control!PerformCast, Control!Then, Control!registry, Control!Recipients, e
      <3> HIDE DEF reached
      <3>2. Basics(s)' /\ Performed(s, t, e, reached, e.msg)
        BY <2>4, <3>1
      <3>3. Casted(s, t)
        BY <2>2, <3>1, <3>2 DEF Casted, reached
      <3> QED
        BY <3>2, <3>3 DEF Event
    <2>9. CASE Control(s)!PerformRead(t)
      <3> DEFINE f == Control(s)!FanOut(Control(s)!PublicList)
      <3>1. /\ e.op = "read"
            /\ lastList' = Control(s)!PublicList
            /\ task' = [task EXCEPT ![t] = <<f>> \o Tail(task[t])]
            /\ UNCHANGED <<phase, registered, channel, name, channels, senders, view, dropped,
                           raced>>
        BY <2>9 DEF Control!PerformRead, Control!Then, Control!registry, e
      <3>2. Kind(f) = "read" /\ Kind(e) = "read"
        BY <3>1 DEF Kind, Control!FanOut
      <3> HIDE DEF f
      <3>3. /\ TaskShape(<<f>> \o Tail(task[t]))
            /\ Elements(<<f>> \o Tail(task[t])) = {f} \union (Pending(t) \ {e})
        BY <2>2, <3>2, Pushed
      <3>4. TasksOK' /\ Gets(t, Elements(<<f>> \o Tail(task[t])))
        <4>1. t = Maintenance => \A g \in Elements(<<f>> \o Tail(task[t])) : Kind(g) = "read"
          BY <2>2, <3>2, <3>3 DEF Basics, TasksOK
        <4> QED
          BY <3>1, <3>3, <4>1, TaskSet
      <3>5. Gets(t, (Pending(t) \ {e}) \union {f})
        BY <3>3, <3>4
      <3>6. ListRead(s, t)
        BY <2>2, <3>1, <3>5 DEF ListRead, f
      <3>7. Basics(s)'
        BY <3>1, <3>4 DEF Basics
      <3> QED
        BY <3>6, <3>7 DEF Event
    <2>10. CASE Control(s)!PerformFanOut(t)
      <3> DEFINE m == Control(s)!ChannelList(e.list)
      <3>1. /\ e.op = "fan" /\ Control(s)!Deliver(senders, m)
            /\ task' = [task EXCEPT ![t] = Tail(task[t])]
            /\ UNCHANGED <<phase, registered, channel, name, channels, senders, raced, lastList>>
        BY <2>10 DEF Control!PerformFanOut, Control!Then, Control!registry, e
      <3> HIDE DEF m
      <3>2. Basics(s)' /\ Performed(s, t, e, senders, m)
        BY <2>4, <3>1
      <3>3. Fanned(s, t)
        BY <2>2, <3>1, <3>2 DEF Fanned, m
      <3> QED
        BY <3>2, <3>3 DEF Event
    <2> QED
      BY <1>2, <2>5, <2>6, <2>7, <2>8, <2>9, <2>10 DEF Control!Perform
  <1>3. ASSUME NEW removed \in SUBSET channels, Control(s)!RunMaintenance(removed)
        PROVE  Basics(s)' /\ Event(s)
    <2> DEFINE e == Control(s)!ReadList
    <2>1. /\ task[Maintenance] = <<>> /\ channels' = channels \ removed
          /\ \A ch \in removed : In(ch) = {}
          /\ task' = [task EXCEPT ![Maintenance] =
                          IF removed \intersect Public[s] = {} THEN <<>> ELSE <<e>>]
          /\ UNCHANGED <<phase, registered, channel, name, senders, view, dropped, raced, lastList>>
      BY <1>0, <1>3 DEF Control!RunMaintenance, Control!Then, Control!Reapable
    <2>2. Maintenance \in Tasks /\ Pending(Maintenance) = {}
      BY <2>1, Single DEF Tasks, Pending
    <2>3. TasksOK' /\ Gets(Maintenance, IF removed \intersect Public[s] = {} THEN {} ELSE {e})
      <3>r. Kind(e) = "read"
        BY DEF Kind, Control!ReadList
      <3> HIDE DEF e
      <3>1. CASE removed \intersect Public[s] = {}
        <4>1. task' = [task EXCEPT ![Maintenance] = <<>>]
          BY <2>1, <3>1
        <4>2. TasksOK' /\ Gets(Maintenance, {})
          BY <2>2, <4>1, NoEffect
        <4> QED
          BY <3>1, <4>2
      <3>2. CASE removed \intersect Public[s] # {}
        <4>1. task' = [task EXCEPT ![Maintenance] = <<e>>]
          BY <2>1, <3>2
        <4>2. TasksOK' /\ Gets(Maintenance, {e})
          BY <2>2, <3>r, <4>1, OneEffect
        <4> QED
          BY <3>2, <4>2
      <3> QED
        BY <3>1, <3>2
    <2>4. Reaped(s, removed)
      BY <2>1, <2>2, <2>3 DEF Reaped
    <2>5. Basics(s)'
      BY <2>1, <2>3 DEF Basics
    <2> QED
      BY <2>4, <2>5 DEF Event
  <1> QED
    BY <1>0, <1>1, <1>2, <1>3 DEF Control!Next

(***************************************************************************)
(* What the client shows.                                                  *)
(***************************************************************************)
IsView(v) ==
    /\ DOMAIN v = {"channel", "roster", "list"}
    /\ v.roster \in [AllNames -> Nat]

MessageOK(m) ==
    /\ m.t = "JoinedChannel" => m.roster \in [AllNames -> Nat]
    /\ m.t \in {"PeerJoined", "PeerLeft"} => m.peer \in AllNames
    /\ m.t = "NameChanged" => m.old \in AllNames /\ m.new \in AllNames

\* What a message does to the channel shown, and to the roster.
ChannelAfter(ch, m) ==
    IF m.t = "JoinedChannel" THEN m.ch ELSE IF m.t = "LeftChannel" THEN None ELSE ch

RosterAfter(r, m) ==
    IF m.t = "JoinedChannel" THEN m.roster
    ELSE IF m.t = "LeftChannel" THEN [n \in AllNames |-> 0]
    ELSE IF m.t = "PeerJoined" THEN [r EXCEPT ![m.peer] = r[m.peer] + 1]
    ELSE IF m.t = "PeerLeft" THEN [r EXCEPT ![m.peer] = 0]
    ELSE IF m.t = "NameChanged" /\ r[m.old] # 0
         THEN [[r EXCEPT ![m.old] = r[m.old] - 1] EXCEPT ![m.new] = @ + 1]
    ELSE r

LEMMA ApplyParts ==
  ASSUME NEW s \in Scenes, NEW v, IsView(v), NEW m, MessageOK(m)
  PROVE  /\ IsView(Control(s)!Apply(v, m))
         /\ Control(s)!Apply(v, m).channel = ChannelAfter(v.channel, m)
         /\ Control(s)!Apply(v, m).roster = RosterAfter(v.roster, m)
  <1> DEFINE w == Control(s)!Apply(v, m)
  <1>0. Control(s)!Names = AllNames /\ None \notin AllNames
    BY NamesAgree
  <1> USE DEF ChannelAfter, RosterAfter
  <1>1. CASE m.t = "JoinedChannel"
    <2>1. w = [v EXCEPT !.channel = m.ch, !.roster = m.roster]
      BY <1>1 DEF Control!Apply, Control!Joined
    <2> QED
      BY <1>1, <2>1 DEF IsView, MessageOK
  <1>2. CASE m.t = "LeftChannel"
    <2>1. w = [v EXCEPT !.channel = None, !.roster = [n \in AllNames |-> 0]]
      BY <1>0, <1>2 DEF Control!Apply
    <2> QED
      BY <1>2, <2>1 DEF IsView
  <1>3. CASE m.t = "PeerJoined"
    <2>1. w = [v EXCEPT !.roster[m.peer] = @ + 1]
      BY <1>3 DEF Control!Apply
    <2>2. w.roster = [v.roster EXCEPT ![m.peer] = v.roster[m.peer] + 1]
      BY <2>1 DEF IsView
    <2> QED
      BY <1>3, <2>1, <2>2 DEF IsView, MessageOK
  <1>4. CASE m.t = "PeerLeft"
    <2>1. w = [v EXCEPT !.roster[m.peer] = 0]
      BY <1>4 DEF Control!Apply
    <2>2. w.roster = [v.roster EXCEPT ![m.peer] = 0]
      BY <2>1 DEF IsView
    <2> QED
      BY <1>4, <2>1, <2>2 DEF IsView, MessageOK
  <1>5. CASE m.t = "NameChanged"
    <2>1. w = IF m.old = None \/ v.roster[m.old] = 0 THEN v
              ELSE [v EXCEPT !.roster[m.old] = @ - 1, !.roster[m.new] = @ + 1]
      BY <1>5 DEF Control!Apply
    <2>2. CASE v.roster[m.old] = 0
      BY <1>5, <2>1, <2>2 DEF IsView
    <2>3. CASE v.roster[m.old] # 0
      <3>1. /\ DOMAIN w = {"channel", "roster", "list"} /\ w.channel = v.channel
            /\ w.roster = [[v.roster EXCEPT ![m.old] = v.roster[m.old] - 1]
                              EXCEPT ![m.new] = @ + 1]
        BY <1>0, <1>5, <2>1, <2>3 DEF IsView, MessageOK
      <3> DEFINE r == [v.roster EXCEPT ![m.old] = v.roster[m.old] - 1]
      <3>2. r \in [AllNames -> Nat]
        BY <1>5, <2>3 DEF IsView, MessageOK
      <3>3. [r EXCEPT ![m.new] = @ + 1] \in [AllNames -> Nat]
        BY <1>5, <3>2 DEF MessageOK
      <3> QED
        BY <1>5, <2>3, <3>1, <3>3 DEF IsView
    <2> QED
      BY <2>2, <2>3
  <1>6. CASE m.t = "ChannelList"
    <2>1. w = [v EXCEPT !.list = m.list]
      BY <1>6 DEF Control!Apply
    <2> QED
      BY <1>6, <2>1 DEF IsView
  <1>7. CASE m.t \notin RosterMessages \union {"ChannelList"}
    <2>1. w = v
      BY <1>7 DEF Control!Apply, RosterMessages
    <2> QED
      BY <1>7, <2>1 DEF RosterMessages
  <1> QED
    BY <1>1, <1>2, <1>3, <1>4, <1>5, <1>6, <1>7 DEF RosterMessages

\* No two connections share a name, so a roster counts each member once.
LEMMA RosterAt ==
  ASSUME NEW s \in Scenes, Basics(s), NEW who \in SUBSET Clients
  PROVE  /\ Control(s)!RosterOf(who, name) \in [AllNames -> Nat]
         /\ \A d \in Clients : \A n \in OwnNames(d) :
                Control(s)!RosterOf(who, name)[n] =
                    IF d \in who /\ name[d] = n THEN 1 ELSE 0
  <1> DEFINE bearers(n) == {c \in who : name[c] = n}
             roster == Control(s)!RosterOf(who, name)
  <1>1. /\ DOMAIN roster = AllNames /\ roster = [n \in AllNames |-> roster[n]]
        /\ \A n \in AllNames : roster[n] = Cardinality(bearers(n))
    BY NamesAgree DEF Control!RosterOf, Control!Cardinality, Cardinality
  <1>2. ASSUME NEW d \in Clients, NEW n \in OwnNames(d)
        PROVE  roster[n] = IF d \in who /\ name[d] = n THEN 1 ELSE 0
    <2>1. n \in AllNames
      BY DEF AllNames
    <2>2. \A c \in bearers(n) : c = d
      <3> SUFFICES ASSUME NEW c \in who, name[c] = n PROVE c = d
        OBVIOUS
      <3>1. c \in Clients /\ n \in OwnNames(c) \intersect OwnNames(d)
        BY DEF Basics
      <3> QED
        BY <3>1, NamesAssumption
    <2>3. CASE d \in who /\ name[d] = n
      <3>1. bearers(n) = {d}
        BY <2>2, <2>3
      <3> QED
        BY <1>1, <2>1, <2>3, <3>1, FS_Singleton
    <2>4. CASE ~(d \in who /\ name[d] = n)
      <3>1. bearers(n) = {}
        BY <2>2, <2>4
      <3> QED
        BY <1>1, <2>1, <2>4, <3>1, FS_EmptySet
    <2> QED
      BY <2>3, <2>4
  <1>3. \A n \in AllNames : roster[n] \in Nat
    BY <1>2 DEF AllNames
  <1> HIDE DEF roster
  <1>4. roster \in [AllNames -> Nat]
    BY <1>1, <1>3
  <1> QED
    BY <1>2, <1>4 DEF roster

(***************************************************************************)
(* The effects that may be pending, and the connections they belong to.    *)
(***************************************************************************)
EffectOK(s, t, e) ==
    \/ e = Control(s)!ReadList
    \/ \E l : e = Control(s)!FanOut(l)
    \/ /\ t \in Clients
       /\ \/ /\ e = Control(s)!OpenQueue
             /\ t \in registered \ senders /\ channel[t] = None /\ view[t].channel = None
          \/ e = Control(s)!RemoveClient /\ t \in registered \ senders
          \/ \E d, m : e = Control(s)!SendTo(d, m) /\ m.t \notin RosterMessages
          \/ \E r \in [AllNames -> Nat] :
                /\ e = Control(s)!SendTo(t, Control(s)!JoinedChannel(channel[t], r))
                /\ channel[t] # None /\ t \in senders
          \/ e = Control(s)!SendTo(t, Control(s)!LeftChannel) /\ channel[t] = None
          \/ \E o \in OwnNames(t) : e = Control(s)!SendTo(t, Control(s)!NameChanged(o, name[t]))
          \/ /\ e = Control(s)!CastTo(channel[t], t, Control(s)!PeerJoined(name[t]))
             /\ channel[t] # None /\ t \in senders
          \/ \E ch \in Rooms(s) :
                /\ e = Control(s)!CastTo(ch, None, Control(s)!PeerLeft(name[t]))
                /\ channel[t] = None
          \/ \E o \in OwnNames(t) :
                /\ e = Control(s)!CastTo(channel[t], t, Control(s)!NameChanged(o, name[t]))
                /\ channel[t] # None /\ t \in senders
          \/ \E n : \E ch \in Rooms(s) :
                e = Control(s)!CastTo(ch, t, Control(s)!ChatMessage(n, ch))

Effects(s) ==
    \A t \in Tasks : \A e \in Pending(t) :
        EffectOK(s, t, e) /\ (e.op \in {"open", "remove"} => Pending(t) = {e})

Connections ==
    \A c \in Clients :
        /\ IsView(view[c])
        /\ c \in senders => c \in registered
        /\ phase[c] = "new" => /\ c \notin registered /\ channel[c] = None
                               /\ view[c].channel = None /\ Pending(c) = {}

ControlInv(s) == Basics(s) /\ Connections /\ Effects(s)

\* The effect of another connection's task is not disturbed.
Undisturbed(t) ==
    t \in Clients =>
        /\ channel'[t] = channel[t] /\ name'[t] = name[t]
        /\ t \in senders' <=> t \in senders
        /\ t \in registered => t \in registered'
        /\ t \notin senders => view'[t] = view[t]

LEMMA EffectKept ==
  ASSUME NEW s \in Scenes, NEW t \in Tasks, NEW e, EffectOK(s, t, e), Undisturbed(t)
  PROVE  EffectOK(s, t, e)'
  BY DEF EffectOK, Undisturbed

LEMMA MessagesOK ==
  ASSUME NEW s \in Scenes, Basics(s), NEW t \in Tasks, NEW e, EffectOK(s, t, e),
         e.op \in {"send", "cast"}
  PROVE  MessageOK(e.msg) /\ t \in Clients
  <1> USE DEF Control!ReadList, Control!FanOut, Control!OpenQueue, Control!RemoveClient,
              Control!SendTo, Control!CastTo
  <1>0. ASSUME NEW c \in Clients, NEW n \in OwnNames(c) PROVE n \in AllNames
    BY DEF AllNames
  <1>1. t \in Clients /\ name[t] \in AllNames
    BY <1>0 DEF EffectOK, Basics
  <1>2. ASSUME NEW m, m.t \notin RosterMessages PROVE MessageOK(m)
    BY <1>2 DEF MessageOK, RosterMessages
  <1>3. ASSUME NEW r \in [AllNames -> Nat], NEW ch PROVE MessageOK(Control(s)!JoinedChannel(ch, r))
    BY DEF MessageOK, Control!JoinedChannel
  <1>4. MessageOK(Control(s)!LeftChannel)
    BY DEF MessageOK, Control!LeftChannel
  <1>5. ASSUME NEW o \in OwnNames(t) PROVE MessageOK(Control(s)!NameChanged(o, name[t]))
    BY <1>0, <1>1 DEF MessageOK, Control!NameChanged
  <1>6. MessageOK(Control(s)!PeerJoined(name[t])) /\ MessageOK(Control(s)!PeerLeft(name[t]))
    BY <1>1 DEF MessageOK, Control!PeerJoined, Control!PeerLeft
  <1>7. ASSUME NEW n, NEW ch PROVE MessageOK(Control(s)!ChatMessage(n, ch))
    BY DEF MessageOK, Control!ChatMessage
  <1> QED
    BY <1>1, <1>2, <1>3, <1>4, <1>5, <1>6, <1>7 DEF EffectOK

LEMMA EffectsFrom ==
  ASSUME NEW s \in Scenes, ControlInv(s), NEW t \in Tasks, Same(t),
         \A u \in Tasks \ {t} : Undisturbed(u),
         \A e \in Pending(t)' :
             EffectOK(s, t, e)' /\ (e.op \in {"open", "remove"} => Pending(t)' = {e})
  PROVE  Effects(s)'
  <1>1. ASSUME NEW u \in Tasks \ {t}, NEW e \in Pending(u)'
        PROVE  EffectOK(s, u, e)' /\ (e.op \in {"open", "remove"} => Pending(u)' = {e})
    <2>1. Pending(u)' = Pending(u) /\ e \in Pending(u) /\ Undisturbed(u)
      BY <1>1 DEF Same
    <2>2. EffectOK(s, u, e) /\ (e.op \in {"open", "remove"} => Pending(u) = {e})
      BY <2>1 DEF ControlInv, Effects
    <2> QED
      BY <2>1, <2>2, EffectKept
  <1>2. \A u \in Tasks : \A e \in Pending(u)' :
            EffectOK(s, u, e)' /\ (e.op \in {"open", "remove"} => Pending(u)' = {e})
    BY <1>1
  <1> QED
    BY <1>2 DEF Effects

LEMMA ControlKept ==
  ASSUME NEW s \in Scenes, ControlInv(s), Basics(s)', Event(s)
  PROVE  ControlInv(s)'
  <1>0. \A c \in Clients : c \in Tasks
    BY DEF Tasks
  <1>1. ASSUME NEW c \in Clients, Accepted(s, c)
        PROVE  Connections' /\ Effects(s)'
    <2>1. /\ Same(c) /\ Pending(c)' = {Control(s)!OpenQueue}
          /\ \A u \in Tasks \ {c} : Undisturbed(u)
      BY <1>1 DEF Accepted, Gets, Undisturbed
    <2>2. EffectOK(s, c, Control(s)!OpenQueue)'
      BY <1>1 DEF ControlInv, Connections, Accepted, EffectOK
    <2>3. Effects(s)'
      BY <1>0, <2>1, <2>2, EffectsFrom
    <2>4. phase'[c] = "open" /\ \A d \in Clients \ {c} : phase'[d] = phase[d] /\ Pending(d)' = Pending(d)
      BY <1>0, <1>1, <2>1 DEF Accepted, ControlInv, Basics, Same
    <2>5. Connections'
      BY <1>1, <2>4 DEF ControlInv, Connections, Accepted
    <2> QED
      BY <2>3, <2>5
  <1>2. ASSUME NEW c \in Clients, Opened(s, c)
        PROVE  Connections' /\ Effects(s)'
    <2>1. PICK e \in Pending(c) : e.op = "open" /\ Gets(c, Pending(c) \ {e})
      BY <1>2 DEF Opened
    <2>2. Pending(c)' = {} /\ Same(c)
      BY <1>0, <2>1 DEF ControlInv, Effects, Gets
    <2>3. \A u \in Tasks \ {c} : Undisturbed(u)
      BY <1>2 DEF Opened, Undisturbed
    <2>4. Effects(s)'
      BY <1>0, <2>2, <2>3, EffectsFrom
    <2>5. phase[c] # "new" /\ c \in registered
      <3>1. EffectOK(s, c, e) /\ Pending(c) # {}
        BY <1>0, <2>1 DEF ControlInv, Effects
      <3>2. c \in registered
        BY <2>1, <3>1 DEF EffectOK, Control!ReadList, Control!FanOut, Control!OpenQueue,
                          Control!RemoveClient, Control!SendTo, Control!CastTo
      <3> QED
        BY <3>1, <3>2 DEF ControlInv, Connections
    <2>6. Connections'
      BY <1>0, <1>2, <2>2, <2>5 DEF ControlInv, Connections, Opened, Same
    <2> QED
      BY <2>4, <2>6
  <1>3. ASSUME NEW c \in Clients, Ready(c), Same(c), UNCHANGED <<registered, view>>,
               \A u \in Tasks \ {c} : Undisturbed(u),
               \A d \in Clients \ {c} : phase'[d] = phase[d],
               phase'[c] \in {phase[c], "closed"},
               \A e \in Pending(c)' :
                   EffectOK(s, c, e)' /\ (e.op \in {"open", "remove"} => Pending(c)' = {e})
        PROVE  Connections' /\ Effects(s)'
    <2>1. Effects(s)'
      BY <1>0, <1>3, EffectsFrom
    <2>2. c \in registered /\ phase'[c] # "new"
      BY <1>3 DEF ControlInv, Connections, Ready
    <2>3. ASSUME NEW d \in Clients
          PROVE  /\ IsView(view'[d])
                 /\ d \in senders' => d \in registered'
                 /\ phase'[d] = "new" => /\ d \notin registered' /\ channel'[d] = None
                                         /\ view'[d].channel = None /\ Pending(d)' = {}
      <3>1. CASE d = c
        BY <1>3, <2>2, <3>1 DEF ControlInv, Connections
      <3>2. CASE d # c
        <4>1. /\ channel'[d] = channel[d] /\ (d \in senders' <=> d \in senders)
              /\ Pending(d)' = Pending(d) /\ phase'[d] = phase[d]
          BY <1>0, <1>3, <3>2 DEF Same, Undisturbed
        <4> QED
          BY <1>3, <4>1, <3>2 DEF ControlInv, Connections
      <3> QED
        BY <3>1, <3>2
    <2>4. Connections'
      BY <2>3 DEF Connections
    <2> QED
      BY <2>1, <2>4
  <1>4. ASSUME NEW c \in Clients, NEW e, EffectOK(s, c, e)', e.op \notin {"open", "remove"}
        PROVE  EffectOK(s, c, e)' /\ (e.op \in {"open", "remove"} => Pending(c)' = {e})
    BY <1>4
  <1>5. ASSUME NEW ch, NEW e \in Refreshes(s, ch), NEW c \in Clients
        PROVE  EffectOK(s, c, e)' /\ e.op \notin {"open", "remove"}
    BY DEF Refreshes, EffectOK, Control!ReadList
  <1>6. ASSUME NEW c \in Clients, Answered(s, c)
        PROVE  Connections' /\ Effects(s)'
    <2>1. PICK E : (\A e \in E : Answer(s, c, e)) /\ Gets(c, E)
      BY <1>6 DEF Answered
    <2>2. ASSUME NEW e \in Pending(c)'
          PROVE  EffectOK(s, c, e)' /\ e.op \notin {"open", "remove"}
      <3>1. Answer(s, c, e)
        BY <2>1 DEF Gets
      <3>2. channel[c] \in Rooms(s) \union {None}
        BY DEF ControlInv, Basics
      <3> QED
        BY <3>1, <3>2 DEF Answer, EffectOK, Control!SendTo, Control!CastTo
    <2>3. Ready(c) /\ Same(c) /\ UNCHANGED <<registered, view, phase>>
      BY <1>6, <2>1 DEF Answered, Gets
    <2>4. \A u \in Tasks \ {c} : Undisturbed(u)
      BY <1>6 DEF Answered, Undisturbed
    <2> QED
      BY <1>3, <2>2, <2>3, <2>4
  <1>7. ASSUME NEW c \in Clients, NEW ch \in Rooms(s), Created(s, c, ch)
        PROVE  Connections' /\ Effects(s)'
    <2> DEFINE m == Control(s)!ChannelCreated(ch)
               f == Control(s)!SendTo(c, m)
    <2>1. Pending(c)' = {f} \union Refreshes(s, ch)
      BY <1>7 DEF Created, Gets
    <2>2. m.t \notin RosterMessages
      BY DEF Control!ChannelCreated, RosterMessages
    <2> HIDE DEF m
    <2>3. EffectOK(s, c, f)' /\ f.op = "send"
      BY <2>2 DEF EffectOK, Control!SendTo
    <2> HIDE DEF f
    <2>4. Ready(c) /\ Same(c) /\ UNCHANGED <<registered, view, phase>>
      BY <1>7 DEF Created, Gets
    <2>5. \A u \in Tasks \ {c} : Undisturbed(u)
      BY <1>7 DEF Created, Undisturbed
    <2>6. \A e \in Pending(c)' : EffectOK(s, c, e)' /\ e.op \notin {"open", "remove"}
      BY <1>5, <2>1, <2>3
    <2> QED
      BY <1>3, <2>4, <2>5, <2>6
  <1>8. ASSUME NEW c \in Clients, NEW ch \in Rooms(s), Entered(s, c, ch)
        PROVE  Connections' /\ Effects(s)'
    <2>0. PICK r, f, g :
            /\ r = Control(s)!RosterOf(In(ch) \union {c}, name)
            /\ f = Control(s)!CastTo(ch, c, Control(s)!PeerJoined(name[c]))
            /\ g = Control(s)!SendTo(c, Control(s)!JoinedChannel(ch, r))
      OBVIOUS
    <2>1. Pending(c)' = {f, g} \union Refreshes(s, ch)
      BY <1>8, <2>0 DEF Entered, Gets
    <2>2. /\ Ready(c) /\ Same(c) /\ UNCHANGED <<registered, view, phase, senders, name>>
          /\ channel'[c] = ch /\ \A d \in Clients \ {c} : channel'[d] = channel[d]
      BY <1>8 DEF Entered, Gets, ControlInv, Basics
    <2>3. ch # None /\ c \in senders'
      BY <2>2, NamesAgree DEF Ready
    <2>4. r \in [AllNames -> Nat]
      <3>1. In(ch) \union {c} \in SUBSET Clients
        BY DEF In, ControlInv, Basics
      <3> QED
        BY <2>0, <3>1, RosterAt DEF ControlInv
    <2>5. EffectOK(s, c, f)' /\ f.op = "cast"
      BY <2>0, <2>2, <2>3 DEF EffectOK, Control!CastTo
    <2>6. EffectOK(s, c, g)' /\ g.op = "send"
      BY <2>0, <2>2, <2>3, <2>4 DEF EffectOK, Control!SendTo
    <2>7. \A u \in Tasks \ {c} : Undisturbed(u)
      BY <2>2 DEF Undisturbed
    <2>8. \A e \in Pending(c)' : EffectOK(s, c, e)' /\ e.op \notin {"open", "remove"}
      BY <1>5, <2>1, <2>5, <2>6
    <2> QED
      BY <1>3, <2>2, <2>7, <2>8
  <1>9. ASSUME NEW c \in Clients, Departed(s, c)
        PROVE  Connections' /\ Effects(s)'
    <2>0. PICK f, g, ch :
            /\ f = Control(s)!SendTo(c, Control(s)!LeftChannel)
            /\ g = Control(s)!CastTo(ch, None, Control(s)!PeerLeft(name[c]))
            /\ ch = channel[c]
      OBVIOUS
    <2>1. Pending(c)' = {f, g} \union Refreshes(s, ch)
      BY <1>9, <2>0 DEF Departed, Gets
    <2>2. /\ Ready(c) /\ Same(c) /\ UNCHANGED <<registered, view, phase, senders, name>>
          /\ channel'[c] = None /\ \A d \in Clients \ {c} : channel'[d] = channel[d]
          /\ ch \in Rooms(s)
      BY <1>9, <2>0 DEF Departed, Gets, ControlInv, Basics
    <2>3. EffectOK(s, c, f)' /\ f.op = "send"
      BY <2>0, <2>2 DEF EffectOK, Control!SendTo
    <2>4. EffectOK(s, c, g)' /\ g.op = "cast"
      BY <2>0, <2>2 DEF EffectOK, Control!CastTo
    <2>5. \A u \in Tasks \ {c} : Undisturbed(u)
      BY <2>2 DEF Undisturbed
    <2>6. \A e \in Pending(c)' : EffectOK(s, c, e)' /\ e.op \notin {"open", "remove"}
      BY <1>5, <2>1, <2>3, <2>4
    <2> QED
      BY <1>3, <2>2, <2>5, <2>6
  <1>10. ASSUME NEW c \in Clients, NEW ch \in Rooms(s), Echoed(s, c, ch)
         PROVE  Connections' /\ Effects(s)'
    <2> DEFINE m == Control(s)!EchoTestReady(ch)
               f == Control(s)!SendTo(c, m)
    <2>1. Pending(c)' = {f}
      BY <1>10 DEF Echoed, Gets
    <2>2. m.t \notin RosterMessages
      BY DEF Control!EchoTestReady, RosterMessages
    <2> HIDE DEF m
    <2>3. EffectOK(s, c, f)' /\ f.op = "send"
      BY <2>2 DEF EffectOK, Control!SendTo
    <2> HIDE DEF f
    <2>4. /\ Ready(c) /\ Same(c) /\ UNCHANGED <<registered, view, phase, senders, name>>
          /\ \A d \in Clients \ {c} : channel'[d] = channel[d]
      BY <1>10 DEF Echoed, Gets, ControlInv, Basics
    <2>5. \A u \in Tasks \ {c} : Undisturbed(u)
      BY <2>4 DEF Undisturbed
    <2>6. \A e \in Pending(c)' : EffectOK(s, c, e)' /\ e.op \notin {"open", "remove"}
      BY <2>1, <2>3
    <2> QED
      BY <1>3, <2>4, <2>5, <2>6
  <1>11. ASSUME NEW c \in Clients, NEW n \in OwnNames(c), Renamed(s, c, n)
         PROVE  Connections' /\ Effects(s)'
    <2>0. PICK o, f, g :
            /\ o = name[c]
            /\ f = Control(s)!SendTo(c, Control(s)!NameChanged(o, n))
            /\ g = Control(s)!CastTo(channel[c], c, Control(s)!NameChanged(o, n))
      OBVIOUS
    <2>1. Pending(c)' = {f} \union (IF channel[c] = None THEN {} ELSE {g})
      BY <1>11, <2>0 DEF Renamed, Gets
    <2>2. /\ Ready(c) /\ Same(c) /\ UNCHANGED <<registered, view, phase, senders, channel>>
          /\ name'[c] = n /\ \A d \in Clients \ {c} : name'[d] = name[d]
      BY <1>11 DEF Renamed, Gets, ControlInv, Basics
    <2>3. o \in OwnNames(c) /\ c \in senders'
      BY <2>0, <2>2 DEF ControlInv, Basics, Ready
    <2>4. EffectOK(s, c, f)' /\ f.op = "send"
      BY <2>0, <2>2, <2>3 DEF EffectOK, Control!SendTo
    <2>5. channel[c] # None => EffectOK(s, c, g)' /\ g.op = "cast"
      BY <2>0, <2>2, <2>3 DEF EffectOK, Control!CastTo
    <2>6. \A u \in Tasks \ {c} : Undisturbed(u)
      BY <2>2 DEF Undisturbed
    <2>7. \A e \in Pending(c)' : EffectOK(s, c, e)' /\ e.op \notin {"open", "remove"}
      BY <2>1, <2>4, <2>5
    <2> QED
      BY <1>3, <2>2, <2>6, <2>7
  <1>12. ASSUME NEW c \in Clients, Closed(s, c)
         PROVE  Connections' /\ Effects(s)'
    <2> DEFINE f == Control(s)!RemoveClient
    <2>1. Pending(c)' = {f}
      BY <1>12 DEF Closed, Gets
    <2>2. /\ Ready(c) /\ Same(c) /\ UNCHANGED <<registered, view, name, channel>>
          /\ phase'[c] = "closed" /\ \A d \in Clients \ {c} : phase'[d] = phase[d]
          /\ senders' = senders \ {c}
      BY <1>12 DEF Closed, Gets, ControlInv, Basics
    <2>3. EffectOK(s, c, f)'
      <3>1. c \in registered' \ senders'
        BY <2>2 DEF Ready, ControlInv, Connections
      <3> QED
        BY <3>1 DEF EffectOK
    <2> HIDE DEF f
    <2>4. \A u \in Tasks \ {c} : Undisturbed(u)
      BY <2>2 DEF Undisturbed
    <2>5. \A e \in Pending(c)' : EffectOK(s, c, e)' /\ Pending(c)' = {e}
      BY <2>1, <2>3
    <2> QED
      BY <1>3, <2>2, <2>4, <2>5
  <1>13. ASSUME NEW c \in Clients, Removed(s, c)
         PROVE  Connections' /\ Effects(s)'
    <2>0. PICK g, ch : /\ ch = channel[c]
                       /\ g = Control(s)!CastTo(ch, None, Control(s)!PeerLeft(name[c]))
      OBVIOUS
    <2>1. /\ Pending(c)' = IF ch = None THEN {} ELSE {g} \union Refreshes(s, ch)
          /\ Same(c) /\ UNCHANGED <<view, phase, senders, name>>
          /\ registered' = registered \ {c}
          /\ channel'[c] = None /\ \A d \in Clients \ {c} : channel'[d] = channel[d]
          /\ ch \in Rooms(s) \union {None}
      BY <1>13, <2>0 DEF Removed, Gets, ControlInv, Basics
    <2>2. PICK e \in Pending(c) : e.op = "remove"
      BY <1>13 DEF Removed
    <2>3. EffectOK(s, c, e) /\ Pending(c) # {}
      BY <1>0, <2>2 DEF ControlInv, Effects
    <2>4. c \notin senders /\ phase[c] # "new"
      <3>1. c \notin senders
        BY <2>2, <2>3 DEF EffectOK, Control!ReadList, Control!FanOut, Control!OpenQueue,
                          Control!RemoveClient, Control!SendTo, Control!CastTo
      <3> QED
        BY <2>3, <3>1 DEF ControlInv, Connections
    <2>5. ch # None => EffectOK(s, c, g)' /\ g.op = "cast"
      BY <2>0, <2>1 DEF EffectOK, Control!CastTo
    <2>6. \A f \in Pending(c)' : EffectOK(s, c, f)' /\ f.op \notin {"open", "remove"}
      BY <1>5, <2>1, <2>5
    <2>7. \A u \in Tasks \ {c} : Undisturbed(u)
      BY <2>1 DEF Undisturbed
    <2>8. Effects(s)'
      BY <1>0, <2>1, <2>6, <2>7, EffectsFrom
    <2>9. \A d \in Clients \ {c} : Pending(d)' = Pending(d)
      BY <1>0, <2>1 DEF Same
    <2>10. Connections'
      BY <2>1, <2>4, <2>9 DEF ControlInv, Connections
    <2> QED
      BY <2>8, <2>10
  <1>14. ASSUME NEW t \in Tasks, NEW e \in Pending(t), NEW targets, NEW m, MessageOK(m),
                Performed(s, t, e, targets, m), e.op \notin {"open", "remove"}
         PROVE  Connections' /\ Effects(s)'
    <2>1. /\ Pending(t)' = Pending(t) \ {e} /\ Same(t) /\ Reaches(s, targets, m)
          /\ UNCHANGED <<phase, registered, channel, name, senders>>
      BY <1>14 DEF Performed, Gets
    <2>2. \A d \in Clients : IsView(view'[d]) /\ (d \notin senders => view'[d] = view[d])
      <3> SUFFICES ASSUME NEW d \in Clients
                   PROVE  IsView(view'[d]) /\ (d \notin senders => view'[d] = view[d])
        OBVIOUS
      <3>1. IsView(view[d])
        BY DEF ControlInv, Connections
      <3>2. IsView(Control(s)!Apply(view[d], m))
        BY <1>14, <3>1, ApplyParts
      <3> QED
        BY <2>1, <3>1, <3>2 DEF Reaches
    <2>3. \A u \in Tasks : Undisturbed(u)
      BY <2>1, <2>2 DEF Undisturbed
    <2>4. \A f \in Pending(t)' :
             EffectOK(s, t, f)' /\ (f.op \in {"open", "remove"} => Pending(t)' = {f})
      <3> SUFFICES ASSUME NEW f \in Pending(t), f # e
                   PROVE  EffectOK(s, t, f)' /\ f.op \notin {"open", "remove"}
        BY <2>1
      <3>1. EffectOK(s, t, f) /\ (f.op \in {"open", "remove"} => Pending(t) = {f})
        BY DEF ControlInv, Effects
      <3> QED
        BY <1>14, <2>3, <3>1, EffectKept
    <2>5. Effects(s)'
      BY <2>1, <2>3, <2>4, EffectsFrom
    <2>6. \A d \in Clients : phase[d] = "new" =>
              Pending(d)' = {} /\ d \notin senders /\ view'[d] = view[d]
      <3> SUFFICES ASSUME NEW d \in Clients, phase[d] = "new"
                   PROVE  Pending(d)' = {} /\ d \notin senders /\ view'[d] = view[d]
        OBVIOUS
      <3>1. Pending(d) = {} /\ d \notin senders /\ d # t
        BY DEF ControlInv, Connections
      <3> QED
        BY <1>0, <2>1, <2>2, <3>1 DEF Same
    <2>7. Connections'
      BY <2>1, <2>2, <2>6 DEF ControlInv, Connections
    <2> QED
      BY <2>5, <2>7
  <1>15. ASSUME NEW t \in Tasks, Sent(s, t)
         PROVE  Connections' /\ Effects(s)'
    <2>1. PICK e \in Pending(t) : e.op = "send" /\ Performed(s, t, e, {e.to}, e.msg)
      BY <1>15 DEF Sent
    <2>2. MessageOK(e.msg)
      BY <2>1, MessagesOK DEF ControlInv, Effects
    <2> QED
      BY <1>14, <2>1, <2>2
  <1>16. ASSUME NEW t \in Tasks, Casted(s, t)
         PROVE  Connections' /\ Effects(s)'
    <2>1. PICK e \in Pending(t) :
             e.op = "cast" /\ Performed(s, t, e, In(e.ch) \ {e.exclude}, e.msg)
      BY <1>16 DEF Casted
    <2>2. MessageOK(e.msg)
      BY <2>1, MessagesOK DEF ControlInv, Effects
    <2>3. PICK targets : targets = In(e.ch) \ {e.exclude}
      OBVIOUS
    <2> QED
      BY <1>14, <2>1, <2>2, <2>3
  <1>17. ASSUME NEW t \in Tasks, Fanned(s, t)
         PROVE  Connections' /\ Effects(s)'
    <2>1. PICK e \in Pending(t) : e.op = "fan"
            /\ Performed(s, t, e, senders, Control(s)!ChannelList(e.list))
      BY <1>17 DEF Fanned
    <2>2. MessageOK(Control(s)!ChannelList(e.list))
      BY DEF MessageOK, Control!ChannelList
    <2>3. PICK targets, m : targets = senders /\ m = Control(s)!ChannelList(e.list)
      OBVIOUS
    <2> QED
      BY <1>14, <2>1, <2>2, <2>3
  <1>18. ASSUME NEW t \in Tasks, ListRead(s, t)
         PROVE  Connections' /\ Effects(s)'
    <2>0. PICK f : f = Control(s)!FanOut(Control(s)!PublicList)
      OBVIOUS
    <2>1. PICK e \in Pending(t) : e.op = "read" /\ Gets(t, (Pending(t) \ {e}) \union {f})
      BY <1>18, <2>0 DEF ListRead
    <2>2. \A u \in Tasks : Undisturbed(u)
      BY <1>18 DEF ListRead, Undisturbed
    <2>3. EffectOK(s, t, f)' /\ f.op = "fan"
      BY <2>0 DEF EffectOK, Control!FanOut
    <2>4. \A g \in Pending(t) :
              EffectOK(s, t, g) /\ (g.op \in {"open", "remove"} => Pending(t) = {g})
      BY DEF ControlInv, Effects
    <2>5. \A g \in Pending(t)' : EffectOK(s, t, g)' /\ g.op \notin {"open", "remove"}
      BY <2>1, <2>2, <2>3, <2>4, EffectKept DEF Gets
    <2>6. Effects(s)'
      BY <2>1, <2>2, <2>5, EffectsFrom DEF Gets
    <2>7. \A d \in Clients : phase[d] = "new" => d # t /\ Pending(d)' = {}
      BY <1>0, <2>1 DEF ControlInv, Connections, Gets, Same
    <2>8. Connections'
      BY <1>18, <2>7 DEF ControlInv, Connections, ListRead
    <2> QED
      BY <2>6, <2>8
  <1>19. ASSUME NEW removed, Reaped(s, removed)
         PROVE  Connections' /\ Effects(s)'
    <2>1. /\ Maintenance \in Tasks /\ Maintenance \notin Clients /\ Same(Maintenance)
          /\ Pending(Maintenance)' \subseteq {Control(s)!ReadList}
          /\ UNCHANGED <<phase, registered, channel, name, senders, view>>
      BY <1>19, NamesAgree DEF Reaped, Gets, Tasks
    <2>2. EffectOK(s, Maintenance, Control(s)!ReadList)' /\ Control(s)!ReadList.op = "read"
      BY DEF EffectOK, Control!ReadList
    <2>3. \A u \in Tasks : Undisturbed(u)
      BY <2>1 DEF Undisturbed
    <2>4. \A g \in Pending(Maintenance)' :
              EffectOK(s, Maintenance, g)' /\ g.op \notin {"open", "remove"}
      BY <2>1, <2>2
    <2>5. Effects(s)'
      BY <2>1, <2>3, <2>4, EffectsFrom
    <2>6. \A d \in Clients : Pending(d)' = Pending(d)
      BY <1>0, <2>1 DEF Same
    <2>7. Connections'
      BY <2>1, <2>6 DEF ControlInv, Connections
    <2> QED
      BY <2>5, <2>7
  <1>20. ASSUME Idle
         PROVE  Connections' /\ Effects(s)'
    <2>1. Connections'
      BY <1>0, <1>20 DEF ControlInv, Connections, Idle
    <2>2. \A u \in Tasks : Undisturbed(u)
      BY <1>20 DEF Idle, Undisturbed
    <2>3. ASSUME NEW u \in Tasks, NEW e \in Pending(u)
          PROVE  EffectOK(s, u, e)' /\ (e.op \in {"open", "remove"} => Pending(u)' = {e})
      BY <1>20, <2>2, EffectKept DEF Idle, ControlInv, Effects
    <2>4. Effects(s)'
      BY <1>20, <2>3 DEF Effects, Idle
    <2> QED
      BY <2>1, <2>4
  <1>21. Connections' /\ Effects(s)'
    BY <1>1, <1>2, <1>6, <1>7, <1>8, <1>9, <1>10, <1>11, <1>12, <1>13, <1>15, <1>16, <1>17,
       <1>18, <1>19, <1>20 DEF Event
  <1> QED
    BY <1>21 DEF ControlInv

(***************************************************************************)
(* The sidebars.                                                           *)
(***************************************************************************)
ListInv(s) ==
    \/ lastList = Control(s)!PublicList
    \/ \E t \in Tasks : Control(s)!ReadList \in Pending(t)

LEMMA SameList ==
  ASSUME NEW s \in Scenes,
         \A ch \in Public[s] : (ch \in channels' <=> ch \in channels) /\ In(ch)' = In(ch)
  PROVE  Control(s)!PublicList' = Control(s)!PublicList
  <1>1. \A ch \in Public[s] : Control(s)!Members(ch)' = Control(s)!Members(ch)
    BY DEF Control!Members, In
  <1> QED
    BY <1>1 DEF Control!PublicList

LEMMA ListKept ==
  ASSUME NEW s \in Scenes, ControlInv(s), Event(s), ListInv(s)
  PROVE  ListInv(s)'
  <1> DEFINE read == Control(s)!ReadList
  <1>0. /\ \A c \in Clients : c \in Tasks
        /\ read.op = "read" /\ read' = read
    BY DEF Tasks, Control!ReadList
  <1> HIDE DEF read
  <1>1. ASSUME NEW t \in Tasks, Same(t), read \notin Pending(t) \/ read \in Pending(t)',
               lastList' = lastList, Control(s)!PublicList' = Control(s)!PublicList
        PROVE  ListInv(s)'
    <2>1. CASE lastList = Control(s)!PublicList
      BY <1>1, <2>1 DEF ListInv
    <2>2. CASE lastList # Control(s)!PublicList
      <3>1. PICK u \in Tasks : read \in Pending(u)
        BY <2>2 DEF ListInv, read
      <3>2. read \in Pending(u)'
        BY <1>1, <3>1 DEF Same
      <3> QED
        BY <1>0, <3>2 DEF ListInv, read
    <2> QED
      BY <2>1, <2>2
  <1>2. ASSUME NEW t \in Tasks, read \in Pending(t)'
        PROVE  ListInv(s)'
    BY <1>0, <1>2 DEF ListInv, read
  <1>3. ASSUME NEW ch, ch \in Public[s] PROVE Refreshes(s, ch) = {read}
    BY <1>3 DEF Refreshes, read
  <1>4. ASSUME UNCHANGED <<registered, channel, channels>>
        PROVE  Control(s)!PublicList' = Control(s)!PublicList
    BY <1>4, SameList DEF In
  <1>5. ASSUME NEW c \in Clients, Accepted(s, c)
        PROVE  ListInv(s)'
    <2>1. channel[c] = None /\ Pending(c) = {} /\ c \notin registered
      BY <1>5 DEF Accepted, ControlInv, Connections
    <2>2. \A ch \in Public[s] : (ch \in channels' <=> ch \in channels) /\ In(ch)' = In(ch)
      BY <1>5, <2>1, NamesAgree DEF Accepted, In, Rooms
    <2>3. Control(s)!PublicList' = Control(s)!PublicList
      BY <2>2, SameList
    <2> QED
      BY <1>0, <1>1, <1>5, <2>1, <2>3 DEF Accepted, Gets
  <1>6. ASSUME NEW c \in Clients, Opened(s, c)
        PROVE  ListInv(s)'
    <2>1. PICK e \in Pending(c) : e.op = "open" /\ Gets(c, Pending(c) \ {e})
      BY <1>6 DEF Opened
    <2>2. read \in Pending(c) => read \in Pending(c)'
      BY <1>0, <2>1 DEF Gets
    <2> QED
      BY <1>0, <1>1, <1>4, <1>6, <2>1, <2>2 DEF Opened, Gets
  <1>7. ASSUME NEW c \in Clients, Answered(s, c) \/ Closed(s, c) \/ \E n : Renamed(s, c, n)
        PROVE  ListInv(s)'
    <2>1. /\ Pending(c) = {} /\ Same(c) /\ lastList' = lastList
          /\ UNCHANGED <<registered, channel, channels>>
      BY <1>7 DEF Answered, Closed, Renamed, Ready, Gets
    <2> QED
      BY <1>0, <1>1, <1>4, <2>1
  <1>8. ASSUME NEW c \in Clients, NEW ch \in Rooms(s), Created(s, c, ch)
        PROVE  ListInv(s)'
    <2>1. CASE ch \in Public[s]
      BY <1>0, <1>2, <1>3, <1>8, <2>1 DEF Created, Gets
    <2>2. CASE ch \notin Public[s]
      <3>1. Control(s)!PublicList' = Control(s)!PublicList
        BY <1>8, <2>2, SameList DEF Created, In
      <3> QED
        BY <1>0, <1>1, <1>8, <3>1 DEF Created, Gets, Ready
    <2> QED
      BY <2>1, <2>2
  <1>9. ASSUME NEW c \in Clients, NEW ch \in Rooms(s), Entered(s, c, ch)
        PROVE  ListInv(s)'
    <2>1. CASE ch \in Public[s]
      BY <1>0, <1>2, <1>3, <1>9, <2>1 DEF Entered, Gets
    <2>2. CASE ch \notin Public[s]
      <3>1. \A x \in Public[s] : In(x)' = In(x)
        BY <1>9, <2>2, NamesAgree DEF Entered, In, ControlInv, Basics, Rooms
      <3>2. Control(s)!PublicList' = Control(s)!PublicList
        BY <1>9, <3>1, SameList DEF Entered
      <3> QED
        BY <1>0, <1>1, <1>9, <3>2 DEF Entered, Gets, Ready
    <2> QED
      BY <2>1, <2>2
  <1>10. ASSUME NEW c \in Clients, NEW ch \in Rooms(s), Echoed(s, c, ch)
         PROVE  ListInv(s)'
    <2>1. \A x \in Public[s] : x # ch /\ x # None
      BY <1>10, NamesAgree DEF Echoed, Rooms
    <2>2. \A x \in Public[s] : In(x)' = In(x)
      BY <1>10, <2>1 DEF Echoed, In, ControlInv, Basics
    <2>3. Control(s)!PublicList' = Control(s)!PublicList
      BY <1>10, <2>1, <2>2, SameList DEF Echoed
    <2> QED
      BY <1>0, <1>1, <1>10, <2>3 DEF Echoed, Gets, Ready
  <1>11. ASSUME NEW c \in Clients, channel[c] \notin Public[s],
                registered' \in {registered, registered \ {c}},
                channel' = [channel EXCEPT ![c] = None],
                channels' \in {channels, channels \ {channel[c]}}
         PROVE  Control(s)!PublicList' = Control(s)!PublicList
    <2>1. \A x \in Public[s] : x # None /\ x # channel[c]
      BY <1>11, NamesAgree DEF Rooms
    <2>2. \A x \in Public[s] : In(x)' = In(x)
      BY <1>11, <2>1 DEF In, ControlInv, Basics
    <2> QED
      BY <1>11, <2>1, <2>2, SameList
  <1>12. ASSUME NEW c \in Clients, Departed(s, c)
         PROVE  ListInv(s)'
    <2>1. CASE channel[c] \in Public[s]
      BY <1>0, <1>2, <1>3, <1>12, <2>1 DEF Departed, Gets
    <2>2. CASE channel[c] \notin Public[s]
      <3>1. Control(s)!PublicList' = Control(s)!PublicList
        BY <1>11, <1>12, <2>2 DEF Departed, Vacated
      <3> QED
        BY <1>0, <1>1, <1>12, <3>1 DEF Departed, Gets, Ready
    <2> QED
      BY <2>1, <2>2
  <1>13. ASSUME NEW c \in Clients, Removed(s, c)
         PROVE  ListInv(s)'
    <2>1. CASE channel[c] \in Public[s]
      <3>1. channel[c] # None
        BY <2>1, NamesAgree DEF Rooms
      <3> QED
        BY <1>0, <1>2, <1>3, <1>13, <2>1, <3>1 DEF Removed, Gets
    <2>2. CASE channel[c] \notin Public[s]
      <3>1. Control(s)!PublicList' = Control(s)!PublicList
        BY <1>11, <1>13, <2>2 DEF Removed, Vacated
      <3>2. read \notin Pending(c)
        BY <1>0, <1>13 DEF Removed, ControlInv, Effects
      <3> QED
        BY <1>0, <1>1, <1>13, <3>1, <3>2 DEF Removed, Gets
    <2> QED
      BY <2>1, <2>2
  <1>14. ASSUME NEW t \in Tasks, Sent(s, t) \/ Casted(s, t) \/ Fanned(s, t)
         PROVE  ListInv(s)'
    <2>1. PICK e \in Pending(t) : e.op # "read" /\ \E targets, m : Performed(s, t, e, targets, m)
      BY <1>14 DEF Sent, Casted, Fanned
    <2>2. /\ Same(t) /\ Pending(t)' = Pending(t) \ {e} /\ lastList' = lastList
          /\ UNCHANGED <<registered, channel, channels>>
      BY <2>1 DEF Performed, Gets
    <2> QED
      BY <1>0, <1>1, <1>4, <2>1, <2>2
  <1>15. ASSUME NEW t \in Tasks, ListRead(s, t)
         PROVE  ListInv(s)'
    BY <1>4, <1>15 DEF ListRead, ListInv
  <1>16. ASSUME NEW removed, Reaped(s, removed)
         PROVE  ListInv(s)'
    <2>1. Maintenance \in Tasks
      BY DEF Tasks
    <2>2. CASE removed \intersect Public[s] # {}
      BY <1>2, <1>16, <2>1, <2>2 DEF Reaped, Gets, read
    <2>3. CASE removed \intersect Public[s] = {}
      <3>1. Control(s)!PublicList' = Control(s)!PublicList
        BY <1>16, <2>3, SameList DEF Reaped, In
      <3> QED
        BY <1>1, <1>16, <2>1, <3>1 DEF Reaped, Gets
    <2> QED
      BY <2>2, <2>3
  <1>17. ASSUME Idle PROVE ListInv(s)'
    <2>1. CASE lastList = Control(s)!PublicList
      BY <1>4, <1>17, <2>1 DEF ListInv, Idle
    <2>2. CASE \E t \in Tasks : read \in Pending(t)
      BY <1>2, <1>17, <2>2 DEF Idle
    <2> QED
      BY <2>1, <2>2 DEF ListInv, read
  <1> QED
    BY <1>5, <1>6, <1>7, <1>8, <1>9, <1>10, <1>12, <1>13, <1>14, <1>15, <1>16, <1>17 DEF Event

(***************************************************************************)
(* The channel a client shows.                                             *)
(***************************************************************************)
\* The messages still to come that tell a client where it is.
Moving(c) == {e \in Pending(c) : e.op = "send" /\ e.msg.t \in {"JoinedChannel", "LeftChannel"}}

Room(s, c) ==
    /\ \A e \in Moving(c) : e.msg.t = "JoinedChannel" => view[c].channel = None
    /\ Moving(c) = {} => \/ view[c].channel = channel[c]
                         \/ view[c].channel = None /\ channel[c] \in Private[s]

RoomInv(s) == \A c \in senders \ dropped : Room(s, c)

\* What is pending of each kind, by the message.
LEMMA SendsTold ==
  ASSUME NEW s \in Scenes, NEW t \in Tasks, NEW e, EffectOK(s, t, e), e.op = "send"
  PROVE  /\ t \in Clients
         /\ e.msg.t = "JoinedChannel" =>
                /\ e.to = t /\ e.msg.ch = channel[t] /\ channel[t] # None
                /\ t \in senders /\ e.msg.roster \in [AllNames -> Nat]
         /\ e.msg.t = "LeftChannel" => e.to = t /\ channel[t] = None
         /\ e.msg.t = "NameChanged" =>
                e.to = t /\ e.msg.old \in OwnNames(t) /\ e.msg.new = name[t]
         /\ e.msg.t \notin {"PeerJoined", "PeerLeft"}
  <1> USE DEF Control!SendTo, Control!CastTo, Control!ReadList, Control!FanOut,
              Control!OpenQueue, Control!RemoveClient
  <1>1. t \in Clients
    BY DEF EffectOK
  <1>2. \/ e.msg.t \notin RosterMessages
        \/ \E r \in [AllNames -> Nat] :
              /\ e = Control(s)!SendTo(t, Control(s)!JoinedChannel(channel[t], r))
              /\ channel[t] # None /\ t \in senders
        \/ e = Control(s)!SendTo(t, Control(s)!LeftChannel) /\ channel[t] = None
        \/ \E o \in OwnNames(t) : e = Control(s)!SendTo(t, Control(s)!NameChanged(o, name[t]))
    BY DEF EffectOK
  <1> QED
    BY <1>1, <1>2 DEF RosterMessages, Control!JoinedChannel, Control!LeftChannel,
                      Control!NameChanged

LEMMA CastsTold ==
  ASSUME NEW s \in Scenes, NEW t \in Tasks, NEW e, EffectOK(s, t, e), e.op = "cast"
  PROVE  /\ t \in Clients
         /\ e.msg.t \in {"PeerJoined", "PeerLeft", "NameChanged", "ChatMessage"}
         /\ e.msg.t = "PeerJoined" =>
                /\ e.ch = channel[t] /\ e.exclude = t /\ channel[t] # None
                /\ t \in senders /\ e.msg.peer = name[t]
         /\ e.msg.t = "PeerLeft" =>
                /\ e.ch \in Rooms(s) /\ e.exclude = None /\ channel[t] = None
                /\ e.msg.peer = name[t]
         /\ e.msg.t = "NameChanged" =>
                /\ e.ch = channel[t] /\ e.exclude = t /\ channel[t] # None /\ t \in senders
                /\ e.msg.old \in OwnNames(t) /\ e.msg.new = name[t]
         /\ e.msg.t = "ChatMessage" => e.ch \in Rooms(s) /\ e.msg.room = e.ch
  <1> USE DEF Control!SendTo, Control!CastTo, Control!ReadList, Control!FanOut,
              Control!OpenQueue, Control!RemoveClient
  <1>1. t \in Clients
    BY DEF EffectOK
  <1>2. \/ /\ e = Control(s)!CastTo(channel[t], t, Control(s)!PeerJoined(name[t]))
           /\ channel[t] # None /\ t \in senders
        \/ \E ch \in Rooms(s) :
              /\ e = Control(s)!CastTo(ch, None, Control(s)!PeerLeft(name[t]))
              /\ channel[t] = None
        \/ \E o \in OwnNames(t) :
              /\ e = Control(s)!CastTo(channel[t], t, Control(s)!NameChanged(o, name[t]))
              /\ channel[t] # None /\ t \in senders
        \/ \E n : \E ch \in Rooms(s) :
              e = Control(s)!CastTo(ch, t, Control(s)!ChatMessage(n, ch))
    BY DEF EffectOK
  <1> QED
    BY <1>1, <1>2 DEF Control!PeerJoined, Control!PeerLeft, Control!NameChanged,
                      Control!ChatMessage

LEMMA AnswersTold ==
  ASSUME NEW s \in Scenes, NEW c \in Clients, NEW e, Answer(s, c, e)
  PROVE  \/ e.op = "send" /\ e.msg.t \notin RosterMessages
         \/ e.op = "cast" /\ e.msg.t = "ChatMessage"
  BY DEF Answer, Control!SendTo, Control!CastTo, Control!ChatMessage

LEMMA RefreshesTold ==
  ASSUME NEW s \in Scenes, NEW ch, NEW e \in Refreshes(s, ch)
  PROVE  e.op = "read"
  BY DEF Refreshes, Control!ReadList

LEMMA RoomKept ==
  ASSUME NEW s \in Scenes, ControlInv(s), Event(s), RoomInv(s)
  PROVE  RoomInv(s)'
  <1>0. \A c \in Clients : c \in Tasks
    BY DEF Tasks
  <1>d. senders \subseteq Clients
    BY DEF ControlInv, Basics
  <1>1. ASSUME NEW d \in senders \ dropped, Moving(d)' = Moving(d),
               view'[d].channel = view[d].channel, channel'[d] = channel[d]
        PROVE  Room(s, d)'
    BY <1>1 DEF RoomInv, Room
  <1>2. ASSUME NEW t \in Tasks, Same(t), NEW d \in Clients, d # t
        PROVE  Moving(d)' = Moving(d)
    BY <1>0, <1>2 DEF Moving, Same
  <1>3. ASSUME NEW c \in Clients, Same(c), UNCHANGED <<view, dropped>>,
               \A d \in Clients \ {c} : channel'[d] = channel[d],
               senders' \ {c} \subseteq senders,
               c \in senders' \ dropped' => Room(s, c)'
        PROVE  RoomInv(s)'
    <2> SUFFICES ASSUME NEW d \in senders' \ dropped' PROVE Room(s, d)'
      BY DEF RoomInv
    <2>1. CASE d = c
      BY <1>3, <2>1
    <2>2. CASE d # c
      <3>1. d \in senders \ dropped /\ d \in Clients
        BY <1>3, <1>d, <2>2
      <3> QED
        BY <1>0, <1>1, <1>2, <1>3, <2>2, <3>1
    <2> QED
      BY <2>1, <2>2
  <1>4. ASSUME NEW c \in Clients, Accepted(s, c)
        PROVE  RoomInv(s)'
    <2>1. c \notin senders
      BY <1>4 DEF Accepted, ControlInv, Connections
    <2> QED
      BY <1>3, <1>4, <2>1 DEF Accepted, Gets
  <1>5. ASSUME NEW c \in Clients, Opened(s, c)
        PROVE  RoomInv(s)'
    <2>1. PICK e \in Pending(c) : e.op = "open" /\ Gets(c, Pending(c) \ {e})
      BY <1>5 DEF Opened
    <2>2. Pending(c)' = {} /\ Same(c) /\ EffectOK(s, c, e)
      BY <1>0, <2>1 DEF ControlInv, Effects, Gets
    <2>3. channel[c] = None /\ view[c].channel = None
      BY <2>1, <2>2 DEF EffectOK, Control!SendTo, Control!CastTo, Control!ReadList,
                        Control!FanOut, Control!OpenQueue, Control!RemoveClient
    <2>4. Moving(c)' = {}
      BY <2>2 DEF Moving
    <2>5. Room(s, c)'
      BY <1>5, <2>3, <2>4 DEF Room, Opened
    <2> QED
      BY <1>3, <1>5, <2>2, <2>5 DEF Opened
  <1>6. ASSUME NEW c \in Clients, Ready(c), c \notin dropped
        PROVE  /\ Moving(c) = {}
               /\ channel[c] = None => view[c].channel = None
               /\ \/ view[c].channel = channel[c]
                  \/ view[c].channel = None /\ channel[c] \in Private[s]
    BY <1>6 DEF Ready, RoomInv, Room, Moving
  <1>7. ASSUME NEW c \in Clients, Ready(c), Same(c),
               \A e \in Pending(c)' : e.op = "send" => e.msg.t \notin {"JoinedChannel", "LeftChannel"},
               UNCHANGED <<view, dropped, channel, senders>>
        PROVE  RoomInv(s)'
    <2>1. Moving(c)' = {}
      BY <1>7 DEF Moving
    <2>2. c \in senders' \ dropped' => Room(s, c)'
      BY <1>6, <1>7, <2>1 DEF Room
    <2> QED
      BY <1>3, <1>7, <2>2
  <1>8. ASSUME NEW c \in Clients, Answered(s, c)
        PROVE  RoomInv(s)'
    <2>1. PICK E : (\A e \in E : Answer(s, c, e)) /\ Gets(c, E)
      BY <1>8 DEF Answered
    <2>2. \A e \in Pending(c)' : e.op = "send" => e.msg.t \notin {"JoinedChannel", "LeftChannel"}
      BY <2>1, AnswersTold DEF Gets, RosterMessages
    <2> QED
      BY <1>7, <1>8, <2>1, <2>2 DEF Answered, Gets
  <1>9. ASSUME NEW c \in Clients, NEW ch \in Rooms(s), Created(s, c, ch)
        PROVE  RoomInv(s)'
    <2>1. \A e \in Pending(c)' : e.op = "send" => e.msg.t = "ChannelCreated"
      BY <1>9, RefreshesTold DEF Created, Gets, Control!SendTo, Control!ChannelCreated
    <2> QED
      BY <1>7, <1>9, <2>1 DEF Created, Gets
  <1>10. ASSUME NEW c \in Clients, NEW ch \in Rooms(s), Entered(s, c, ch)
         PROVE  RoomInv(s)'
    <2>0. PICK e, r : /\ r = Control(s)!RosterOf(In(ch) \union {c}, name)
                      /\ e = Control(s)!SendTo(c, Control(s)!JoinedChannel(ch, r))
      OBVIOUS
    <2>1. e \in Pending(c)' /\ e.op = "send" /\ e.msg.t = "JoinedChannel"
      <3>1. e \in Pending(c)'
        BY <1>10, <2>0 DEF Entered, Gets
      <3>2. e.op = "send" /\ e.msg.t = "JoinedChannel"
        BY <2>0 DEF Control!SendTo, Control!JoinedChannel
      <3> QED
        BY <3>1, <3>2
    <2>2. Moving(c)' # {}
      BY <2>1 DEF Moving
    <2>3. c \in senders' \ dropped' => Room(s, c)'
      BY <1>6, <1>10, <2>2 DEF Room, Entered
    <2>4. \A d \in Clients \ {c} : channel'[d] = channel[d]
      BY <1>10 DEF Entered, ControlInv, Basics
    <2> QED
      BY <1>3, <1>10, <2>3, <2>4 DEF Entered, Gets
  <1>11. ASSUME NEW c \in Clients, Departed(s, c)
         PROVE  RoomInv(s)'
    <2>1. /\ \E e \in Pending(c)' : e.op = "send" /\ e.msg.t = "LeftChannel"
          /\ \A e \in Pending(c)' : e.op = "send" => e.msg.t = "LeftChannel"
      <3>1. PICK f, g, ch :
              /\ f = Control(s)!SendTo(c, Control(s)!LeftChannel)
              /\ g = Control(s)!CastTo(ch, None, Control(s)!PeerLeft(name[c]))
              /\ ch = channel[c]
        OBVIOUS
      <3>2. Pending(c)' = {f, g} \union Refreshes(s, ch)
        BY <1>11, <3>1 DEF Departed, Gets
      <3>3. f.op = "send" /\ f.msg.t = "LeftChannel" /\ g.op = "cast"
        BY <3>1 DEF Control!SendTo, Control!CastTo, Control!LeftChannel
      <3> QED
        BY <3>2, <3>3, RefreshesTold
    <2>2. Moving(c)' # {} /\ \A e \in Moving(c)' : e.msg.t # "JoinedChannel"
      BY <2>1 DEF Moving
    <2>3. Room(s, c)'
      BY <2>2 DEF Room
    <2>4. \A d \in Clients \ {c} : channel'[d] = channel[d]
      BY <1>11 DEF Departed, ControlInv, Basics
    <2> QED
      BY <1>3, <1>11, <2>3, <2>4 DEF Departed, Gets
  <1>12. ASSUME NEW c \in Clients, NEW ch \in Rooms(s), Echoed(s, c, ch)
         PROVE  RoomInv(s)'
    <2>1. \A e \in Pending(c)' : e.op = "send" => e.msg.t = "EchoTestReady"
      BY <1>12 DEF Echoed, Gets, Control!SendTo, Control!EchoTestReady
    <2>2. Moving(c)' = {}
      BY <2>1 DEF Moving
    <2>3. channel'[c] = ch /\ \A d \in Clients \ {c} : channel'[d] = channel[d]
      BY <1>12 DEF Echoed, ControlInv, Basics
    <2>4. c \in senders' \ dropped' => Room(s, c)'
      BY <1>6, <1>12, <2>2, <2>3 DEF Room, Echoed
    <2> QED
      BY <1>3, <1>12, <2>3, <2>4 DEF Echoed, Gets
  <1>13. ASSUME NEW c \in Clients, NEW n \in OwnNames(c), Renamed(s, c, n)
         PROVE  RoomInv(s)'
    <2>1. \A e \in Pending(c)' : e.op = "send" => e.msg.t = "NameChanged"
      BY <1>13 DEF Renamed, Gets, Control!SendTo, Control!CastTo, Control!NameChanged
    <2> QED
      BY <1>7, <1>13, <2>1 DEF Renamed, Gets
  <1>14. ASSUME NEW c \in Clients, Closed(s, c)
         PROVE  RoomInv(s)'
    BY <1>3, <1>14 DEF Closed, Gets
  <1>15. ASSUME NEW c \in Clients, Removed(s, c)
         PROVE  RoomInv(s)'
    <2>1. c \notin senders
      <3>1. PICK e \in Pending(c) : e.op = "remove"
        BY <1>15 DEF Removed
      <3>2. EffectOK(s, c, e)
        BY <1>0 DEF ControlInv, Effects
      <3> QED
        BY <3>1, <3>2 DEF EffectOK, Control!SendTo, Control!CastTo, Control!ReadList,
                          Control!FanOut, Control!OpenQueue, Control!RemoveClient
    <2>2. \A d \in Clients \ {c} : channel'[d] = channel[d]
      BY <1>15 DEF Removed, ControlInv, Basics
    <2> QED
      BY <1>3, <1>15, <2>1, <2>2 DEF Removed, Gets
  <1>16. ASSUME NEW t \in Tasks, NEW e \in Pending(t), NEW targets, NEW m, MessageOK(m),
                Performed(s, t, e, targets, m), NEW d \in senders' \ dropped'
         PROVE  /\ d \in senders \ dropped /\ d \in Clients
                /\ m.t \notin {"JoinedChannel", "LeftChannel"} =>
                       view'[d].channel = view[d].channel
                /\ d \notin targets => view'[d] = view[d]
                /\ d \in targets => view'[d] = Control(s)!Apply(view[d], m)
                /\ channel'[d] = channel[d]
                /\ (e \notin Moving(t) \/ d # t) => Moving(d)' = Moving(d)
    <2>1. d \in senders \ dropped /\ d \in Clients /\ channel'[d] = channel[d]
      BY <1>16, <1>d DEF Performed, Reaches
    <2>2. IsView(view[d])
      BY <2>1 DEF ControlInv, Connections
    <2>3. m.t \notin {"JoinedChannel", "LeftChannel"} =>
              Control(s)!Apply(view[d], m).channel = view[d].channel
      <3>1. Control(s)!Apply(view[d], m).channel = ChannelAfter(view[d].channel, m)
        BY <1>16, <2>2, ApplyParts
      <3> QED
        BY <3>1 DEF ChannelAfter
    <2>4. /\ d \notin targets => view'[d] = view[d]
          /\ d \in targets => view'[d] = Control(s)!Apply(view[d], m)
      BY <1>16, <2>1 DEF Performed, Reaches
    <2>5. (e \notin Moving(t) \/ d # t) => Moving(d)' = Moving(d)
      <3>1. CASE d # t
        BY <1>2, <1>16, <2>1, <3>1 DEF Performed, Gets
      <3>2. CASE d = t /\ e \notin Moving(t)
        BY <1>16, <3>2 DEF Performed, Gets, Moving
      <3> QED
        BY <3>1, <3>2
    <2> QED
      BY <2>1, <2>3, <2>4, <2>5
  <1>17. ASSUME NEW t \in Tasks, Sent(s, t)
         PROVE  RoomInv(s)'
    <2>1. PICK e \in Pending(t) : e.op = "send" /\ Performed(s, t, e, {e.to}, e.msg)
      BY <1>17 DEF Sent
    <2>2. EffectOK(s, t, e) /\ MessageOK(e.msg)
      BY <2>1, MessagesOK DEF ControlInv, Effects
    <2> SUFFICES ASSUME NEW d \in senders' \ dropped' PROVE Room(s, d)'
      BY DEF RoomInv
    <2>3. CASE e \notin Moving(t)
      <3>1. e.msg.t \notin {"JoinedChannel", "LeftChannel"}
        BY <2>1, <2>3 DEF Moving
      <3> QED
        BY <1>1, <1>16, <2>1, <2>2, <2>3, <3>1
    <2>4. CASE e \in Moving(t) /\ d # t
      <3>1. e.to = t
        BY <2>1, <2>2, <2>4, SendsTold DEF Moving
      <3> QED
        BY <1>1, <1>16, <2>1, <2>2, <2>4, <3>1
    <2>5. CASE e \in Moving(t) /\ d = t
      <3>1. /\ e.to = t
            /\ e.msg.t = "JoinedChannel" => e.msg.ch = channel[t]
            /\ e.msg.t = "LeftChannel" => channel[t] = None
            /\ e.msg.t \in {"JoinedChannel", "LeftChannel"}
        BY <2>1, <2>2, <2>5, SendsTold DEF Moving
      <3>2. view'[d] = Control(s)!Apply(view[d], e.msg) /\ channel'[d] = channel[d] /\ IsView(view[d])
        BY <1>16, <2>1, <2>2, <2>5, <3>1 DEF ControlInv, Connections
      <3>3. view'[d].channel = channel'[d]
        <4>1. Control(s)!Apply(view[d], e.msg).channel = ChannelAfter(view[d].channel, e.msg)
          BY <2>2, <3>2, ApplyParts
        <4> QED
          BY <2>5, <3>1, <3>2, <4>1 DEF ChannelAfter
      <3>4. Moving(d)' = {}
        BY <2>1, <2>5 DEF Moving, Performed, Gets
      <3> QED
        BY <3>3, <3>4 DEF Room
    <2> QED
      BY <2>3, <2>4, <2>5
  <1>18. ASSUME NEW t \in Tasks, NEW e \in Pending(t), NEW targets, NEW m, MessageOK(m),
                Performed(s, t, e, targets, m), e.op # "send",
                m.t \notin {"JoinedChannel", "LeftChannel"}
         PROVE  RoomInv(s)'
    <2> SUFFICES ASSUME NEW d \in senders' \ dropped' PROVE Room(s, d)'
      BY DEF RoomInv
    <2>1. e \notin Moving(t)
      BY <1>18 DEF Moving
    <2> QED
      BY <1>1, <1>16, <1>18, <2>1
  <1>19. ASSUME NEW t \in Tasks, Casted(s, t)
         PROVE  RoomInv(s)'
    <2>1. PICK e \in Pending(t) :
             e.op = "cast" /\ Performed(s, t, e, In(e.ch) \ {e.exclude}, e.msg)
      BY <1>19 DEF Casted
    <2>2. EffectOK(s, t, e) /\ MessageOK(e.msg)
      BY <2>1, MessagesOK DEF ControlInv, Effects
    <2>3. e.msg.t \notin {"JoinedChannel", "LeftChannel"}
      BY <2>1, <2>2, CastsTold
    <2>4. PICK targets : targets = In(e.ch) \ {e.exclude}
      OBVIOUS
    <2> QED
      BY <1>18, <2>1, <2>2, <2>3, <2>4
  <1>20. ASSUME NEW t \in Tasks, Fanned(s, t)
         PROVE  RoomInv(s)'
    <2>1. PICK e \in Pending(t) : e.op = "fan"
            /\ Performed(s, t, e, senders, Control(s)!ChannelList(e.list))
      BY <1>20 DEF Fanned
    <2>2. PICK targets, m : targets = senders /\ m = Control(s)!ChannelList(e.list)
      OBVIOUS
    <2>3. MessageOK(m) /\ m.t = "ChannelList"
      BY <2>2 DEF MessageOK, Control!ChannelList
    <2> QED
      BY <1>18, <2>1, <2>2, <2>3
  <1>21. ASSUME UNCHANGED <<senders, view, dropped, channel>>,
                \A d \in Clients : Moving(d)' = Moving(d)
         PROVE  RoomInv(s)'
    <2> SUFFICES ASSUME NEW d \in senders \ dropped PROVE Room(s, d)'
      BY <1>21 DEF RoomInv
    <2> QED
      BY <1>1, <1>21, <1>d
  <1>22. ASSUME NEW t \in Tasks, ListRead(s, t)
         PROVE  RoomInv(s)'
    <2>1. PICK e \in Pending(t) :
             e.op = "read"
             /\ Gets(t, (Pending(t) \ {e}) \union {Control(s)!FanOut(Control(s)!PublicList)})
      BY <1>22 DEF ListRead
    <2>2. Moving(t)' = Moving(t)
      BY <2>1 DEF Gets, Moving, Control!FanOut
    <2>3. \A d \in Clients : Moving(d)' = Moving(d)
      BY <1>2, <2>1, <2>2 DEF Gets
    <2> QED
      BY <1>21, <1>22, <2>3 DEF ListRead
  <1>23. ASSUME NEW removed, Reaped(s, removed)
         PROVE  RoomInv(s)'
    <2>1. Maintenance \in Tasks /\ Maintenance \notin Clients
      BY NamesAgree DEF Tasks
    <2>2. \A d \in Clients : Moving(d)' = Moving(d)
      BY <1>2, <1>23, <2>1 DEF Reaped, Gets
    <2> QED
      BY <1>21, <1>23, <2>2 DEF Reaped
  <1>24. ASSUME Idle PROVE RoomInv(s)'
    <2>1. \A d \in Clients : Moving(d)' = Moving(d)
      BY <1>0, <1>24 DEF Idle, Moving
    <2> QED
      BY <1>21, <1>24, <2>1 DEF Idle
  <1> QED
    BY <1>4, <1>5, <1>8, <1>9, <1>10, <1>11, <1>12, <1>13, <1>14, <1>15, <1>17, <1>19, <1>20,
       <1>22, <1>23, <1>24 DEF Event

(***************************************************************************)
(* The roster a client shows.  Nobody shares a name, so it is the union of *)
(* what it shows of each connection d: the names of d, each 0 or 1 times.  *)
(***************************************************************************)
Shows(c, d, names) ==
    \A n \in OwnNames(d) : view[c].roster[n] = IF n \in names THEN 1 ELSE 0

\* The effect of d's task that has still to change what c shows of d.
Owed(c, d) ==
    IF c = d THEN {e \in Pending(d) : e.op = "send" /\ e.msg.t = "NameChanged"}
    ELSE {e \in Pending(d) : /\ e.op = "cast" /\ e.ch = channel[c]
                             /\ e.msg.t \in {"PeerJoined", "PeerLeft", "NameChanged"}}

Shown(c, d) ==
    /\ Owed(c, d) = {} => Shows(c, d, IF d \in In(channel[c]) THEN {name[d]} ELSE {})
    /\ \A e \in Owed(c, d) :
           /\ e.msg.t = "PeerJoined"  => Shows(c, d, {})
           /\ e.msg.t = "PeerLeft"    => Shows(c, d, {}) \/ Shows(c, d, {name[d]})
           /\ e.msg.t = "NameChanged" => Shows(c, d, {e.msg.old}) \/ Shows(c, d, {name[d]})

\* A client that has every message that would tell it where it is.
Knows(c) ==
    /\ c \in senders /\ c \notin dropped /\ c \notin raced
    /\ Moving(c) = {} /\ view[c].channel # None

\* A snapshot on its way, of a join that nothing has overlapped.
Snapshot(s, c) ==
    c \notin raced => \A e \in Moving(c) :
        e.msg.t = "JoinedChannel" =>
            /\ e.msg.roster = Control(s)!RosterOf(In(channel[c]), name)
            /\ \A d \in Clients \ {c} : \A f \in Pending(d) :
                   (f.op = "cast" /\ f.msg.t = "PeerJoined") => f.ch # channel[c]

RosterInv(s) ==
    \A c \in Clients : Snapshot(s, c) /\ (Knows(c) => \A d \in Clients : Shown(c, d))

LEMMA ShownKept ==
  ASSUME NEW c \in Clients, NEW d \in Clients, Shown(c, d),
         \A n \in OwnNames(d) : view'[c].roster[n] = view[c].roster[n],
         Owed(c, d)' = Owed(c, d), name'[d] = name[d],
         d \in In(channel[c])' <=> d \in In(channel[c])
  PROVE  Shown(c, d)'
  <1>1. ASSUME NEW X PROVE Shows(c, d, X)' <=> Shows(c, d, X)
    BY DEF Shows
  <1>2. PICK who, x : /\ who = (IF d \in In(channel[c]) THEN {name[d]} ELSE {})
                      /\ x = {name[d]}
    OBVIOUS
  <1>3. /\ (Owed(c, d) = {} => Shows(c, d, who))
        /\ \A e \in Owed(c, d) :
               /\ e.msg.t = "PeerJoined"  => Shows(c, d, {})
               /\ e.msg.t = "PeerLeft"    => Shows(c, d, {}) \/ Shows(c, d, x)
               /\ e.msg.t = "NameChanged" => Shows(c, d, {e.msg.old}) \/ Shows(c, d, x)
    BY <1>2 DEF Shown
  <1>4. /\ who = (IF d \in In(channel[c])' THEN {name'[d]} ELSE {})
        /\ x = {name'[d]}
    BY <1>2
  <1>5. /\ (Owed(c, d)' = {} => Shows(c, d, who)')
        /\ \A e \in Owed(c, d)' :
               /\ e.msg.t = "PeerJoined"  => Shows(c, d, {})'
               /\ e.msg.t = "PeerLeft"    => Shows(c, d, {})' \/ Shows(c, d, x)'
               /\ e.msg.t = "NameChanged" => Shows(c, d, {e.msg.old})' \/ Shows(c, d, x)'
    BY <1>1, <1>3
  <1> QED
    BY <1>4, <1>5 DEF Shown

\* What a message about d does to what a client shows of d, and of the others.
LEMMA Told ==
  ASSUME NEW d \in Clients, NEW r \in [AllNames -> Nat], NEW m, MessageOK(m),
         m.t \notin {"JoinedChannel", "LeftChannel"},
         m.t \in {"PeerJoined", "PeerLeft"} => m.peer \in OwnNames(d),
         m.t = "NameChanged" => m.old \in OwnNames(d) /\ m.new \in OwnNames(d)
  PROVE  /\ m.t \notin RosterMessages => RosterAfter(r, m) = r
         /\ \A o \in Clients \ {d} : \A n \in OwnNames(o) : RosterAfter(r, m)[n] = r[n]
         /\ (m.t = "PeerJoined" /\ \A n \in OwnNames(d) : r[n] = 0) =>
                \A n \in OwnNames(d) :
                    RosterAfter(r, m)[n] = IF n = m.peer THEN 1 ELSE 0
         /\ (m.t = "PeerLeft" /\ \A n \in OwnNames(d) \ {m.peer} : r[n] = 0) =>
                \A n \in OwnNames(d) : RosterAfter(r, m)[n] = 0
         /\ (m.t = "NameChanged" /\ \E x \in {m.old, m.new} :
                \A n \in OwnNames(d) : r[n] = IF n = x THEN 1 ELSE 0) =>
                \A n \in OwnNames(d) : RosterAfter(r, m)[n] = IF n = m.new THEN 1 ELSE 0
  <1>0. \A c \in Clients : \A n \in OwnNames(c) : n \in AllNames
    BY DEF AllNames
  <1>1. \A o \in Clients \ {d} : \A n \in OwnNames(o) : n \notin OwnNames(d)
    BY NamesAssumption
  <1>2. CASE m.t = "PeerJoined"
    <2>1. RosterAfter(r, m) = [r EXCEPT ![m.peer] = r[m.peer] + 1]
      BY <1>2 DEF RosterAfter
    <2>2. \A n \in AllNames : RosterAfter(r, m)[n] = IF n = m.peer THEN r[n] + 1 ELSE r[n]
      BY <2>1
    <2> QED
      BY <1>0, <1>1, <1>2, <2>2 DEF RosterMessages
  <1>3. CASE m.t = "PeerLeft"
    <2>1. RosterAfter(r, m) = [r EXCEPT ![m.peer] = 0]
      BY <1>3 DEF RosterAfter
    <2>2. \A n \in AllNames : RosterAfter(r, m)[n] = IF n = m.peer THEN 0 ELSE r[n]
      BY <2>1
    <2> QED
      BY <1>0, <1>1, <1>3, <2>2 DEF RosterMessages
  <1>4. CASE m.t = "NameChanged" /\ r[m.old] = 0
    <2>1. RosterAfter(r, m) = r
      BY <1>4 DEF RosterAfter
    <2> QED
      BY <1>4, <2>1 DEF RosterMessages
  <1>5. CASE m.t = "NameChanged" /\ r[m.old] # 0
    <2>1. RosterAfter(r, m) = [[r EXCEPT ![m.old] = r[m.old] - 1] EXCEPT ![m.new] = @ + 1]
      BY <1>5 DEF RosterAfter
    <2>2. m.old \in AllNames /\ m.new \in AllNames
      BY <1>5 DEF MessageOK
    <2>3. \A n \in AllNames : RosterAfter(r, m)[n] =
              IF n = m.new THEN (IF m.new = m.old THEN r[n] - 1 ELSE r[n]) + 1
              ELSE IF n = m.old THEN r[n] - 1 ELSE r[n]
      BY <2>1, <2>2
    <2>4. \A o \in Clients \ {d} : \A n \in OwnNames(o) : RosterAfter(r, m)[n] = r[n]
      BY <1>0, <1>1, <1>5, <2>3
    <2>5. ASSUME NEW x \in {m.old, m.new},
                 \A n \in OwnNames(d) : r[n] = IF n = x THEN 1 ELSE 0,
                 NEW n \in OwnNames(d)
          PROVE  RosterAfter(r, m)[n] = IF n = m.new THEN 1 ELSE 0
      <3>1. x = m.old
        BY <1>5, <2>5
      <3>2. r[n] = (IF n = m.old THEN 1 ELSE 0) /\ n \in AllNames
        BY <1>0, <2>5, <3>1
      <3> QED
        BY <2>3, <3>2
    <2> QED
      BY <1>5, <2>4, <2>5 DEF RosterMessages
  <1>6. CASE m.t \notin RosterMessages
    <2>1. RosterAfter(r, m) = r
      BY <1>6 DEF RosterAfter, RosterMessages
    <2> QED
      BY <1>6, <2>1 DEF RosterMessages
  <1> QED
    BY <1>2, <1>3, <1>4, <1>5, <1>6 DEF RosterMessages

LEMMA RosterWhenPerformed ==
  ASSUME NEW s \in Scenes, ControlInv(s), RoomInv(s), RosterInv(s),
         NEW t \in Tasks, NEW e \in Pending(t), NEW targets, NEW m, MessageOK(m),
         Performed(s, t, e, targets, m),
         \/ e.op = "send" /\ targets = {e.to} /\ m = e.msg
         \/ e.op = "cast" /\ targets = In(e.ch) \ {e.exclude} /\ m = e.msg
         \/ e.op = "fan" /\ m.t = "ChannelList"
  PROVE  RosterInv(s)'
  <1>0. /\ \A c \in Clients : c \in Tasks
        /\ senders \subseteq Clients /\ registered \subseteq Clients
        /\ \A c \in senders : c \in registered
        /\ EffectOK(s, t, e)
    BY DEF Tasks, ControlInv, Basics, Connections, Effects
  <1>1. /\ Pending(t)' = Pending(t) \ {e} /\ Same(t)
        /\ \A f \in Pending(t) : f # e => f.op # e.op
        /\ Reaches(s, targets, m)
        /\ UNCHANGED <<registered, channel, name, senders, raced>>
        /\ \A ch : In(ch)' = In(ch)
    BY DEF Performed, Gets, In
  <1>2. \A u \in Tasks : Pending(u)' \subseteq Pending(u)
    BY <1>1 DEF Same
  <1>3. ASSUME NEW c \in Clients PROVE Snapshot(s, c)'
    <2> SUFFICES ASSUME c \notin raced, NEW f \in Moving(c)', f.msg.t = "JoinedChannel"
                 PROVE  /\ f.msg.roster = Control(s)!RosterOf(In(channel[c]), name)'
                        /\ \A d \in Clients \ {c} : \A g \in Pending(d)' :
                               (g.op = "cast" /\ g.msg.t = "PeerJoined") => g.ch # channel'[c]
      BY <1>1 DEF Snapshot
    <2>1. f \in Moving(c)
      BY <1>0, <1>2 DEF Moving
    <2>2. /\ f.msg.roster = Control(s)!RosterOf(In(channel[c]), name)
          /\ \A d \in Clients \ {c} : \A g \in Pending(d) :
                 (g.op = "cast" /\ g.msg.t = "PeerJoined") => g.ch # channel[c]
      BY <2>1 DEF RosterInv, Snapshot
    <2>3. Control(s)!RosterOf(In(channel[c]), name)' = Control(s)!RosterOf(In(channel[c]), name)
      BY <1>1 DEF Control!RosterOf
    <2> QED
      BY <1>0, <1>1, <1>2, <2>2, <2>3
  <1>4. ASSUME NEW c \in Clients, Knows(c)', NEW d \in Clients
        PROVE  Shown(c, d)'
    <2>1. c \in senders /\ c \notin dropped /\ c \notin raced /\ IsView(view[c]) /\ c \in registered
      BY <1>0, <1>1, <1>4 DEF Knows, Reaches, ControlInv, Connections
    <2>2. IF c \in targets
          THEN /\ view'[c].roster = RosterAfter(view[c].roster, m)
               /\ view'[c].channel = ChannelAfter(view[c].channel, m)
          ELSE view'[c] = view[c]
      <3>1. IF c \in targets THEN view'[c] = Control(s)!Apply(view[c], m) ELSE view'[c] = view[c]
        BY <1>1, <1>4 DEF Reaches, Knows
      <3>2. /\ Control(s)!Apply(view[c], m).channel = ChannelAfter(view[c].channel, m)
            /\ Control(s)!Apply(view[c], m).roster = RosterAfter(view[c].roster, m)
        BY <2>1, ApplyParts
      <3> QED
        BY <3>1, <3>2
    <2>q. ASSUME Knows(c), Shown(c, d), t \in Clients, m = e.msg, c \in targets,
                 e \in Owed(c, t), t = c \/ e.op = "cast",
                 m.t \in {"PeerJoined", "PeerLeft", "NameChanged"},
                 m.t \in {"PeerJoined", "PeerLeft"} => m.peer = name[t],
                 m.t = "NameChanged" => m.old \in OwnNames(t) /\ m.new = name[t],
                 t \in In(channel[c]) <=> m.t # "PeerLeft"
          PROVE  Shown(c, d)'
      <3> DEFINE r == view[c].roster
      <3>1. /\ r \in [AllNames -> Nat] /\ view'[c].roster = RosterAfter(r, m)
            /\ m.t \notin {"JoinedChannel", "LeftChannel"}
        BY <2>1, <2>2, <2>q DEF IsView
      <3>2. name[t] \in OwnNames(t)
        BY <2>q DEF ControlInv, Basics
      <3>3. CASE d # t
        <4>1. \A n \in OwnNames(d) : RosterAfter(r, m)[n] = r[n]
          BY <2>q, <3>1, <3>2, <3>3, Told
        <4>2. Owed(c, d)' = Owed(c, d)
          BY <1>0, <1>1, <3>3 DEF Owed, Same
        <4> QED
          BY <1>1, <2>q, <3>1, <4>1, <4>2, ShownKept
      <3>4. CASE d = t
        <4>1. Owed(c, t)' = {}
          BY <1>1, <2>q DEF Owed
        <4>2. CASE m.t = "PeerJoined"
          <5>1. \A n \in OwnNames(t) : r[n] = 0
            BY <2>q, <3>4, <4>2 DEF Shown, Shows
          <5>2. \A n \in OwnNames(t) : RosterAfter(r, m)[n] = IF n = name[t] THEN 1 ELSE 0
            BY <2>q, <3>1, <3>2, <4>2, <5>1, Told
          <5>3. Shows(c, t, {name[t]})'
            BY <1>1, <3>1, <5>2 DEF Shows
          <5> QED
            BY <1>1, <2>q, <3>4, <4>1, <4>2, <5>3 DEF Shown
        <4>3. CASE m.t = "PeerLeft"
          <5>1. \A n \in OwnNames(t) \ {name[t]} : r[n] = 0
            BY <2>q, <3>4, <4>3 DEF Shown, Shows
          <5>2. \A n \in OwnNames(t) : RosterAfter(r, m)[n] = 0
            BY <2>q, <3>1, <3>2, <4>3, <5>1, Told
          <5>3. Shows(c, t, {})'
            BY <3>1, <5>2 DEF Shows
          <5> QED
            BY <1>1, <2>q, <3>4, <4>1, <4>3, <5>3 DEF Shown
        <4>4. CASE m.t = "NameChanged"
          <5>1. \E x \in {m.old, m.new} : \A n \in OwnNames(t) : r[n] = IF n = x THEN 1 ELSE 0
            BY <2>q, <3>4, <4>4 DEF Shown, Shows
          <5>2. \A n \in OwnNames(t) : RosterAfter(r, m)[n] = IF n = name[t] THEN 1 ELSE 0
            BY <2>q, <3>1, <3>2, <4>4, <5>1, Told
          <5>3. Shows(c, t, {name[t]})'
            BY <1>1, <3>1, <5>2 DEF Shows
          <5> QED
            BY <1>1, <2>q, <3>4, <4>1, <4>4, <5>3 DEF Shown
        <4> QED
          BY <2>q, <4>2, <4>3, <4>4
      <3> QED
        BY <3>3, <3>4
    <2>3. CASE e \in Moving(t) /\ t = c
      <3>1. /\ e.op = "send" /\ m = e.msg /\ targets = {c} /\ t = c
            /\ e.msg.t \in {"JoinedChannel", "LeftChannel"}
            /\ channel[c] # None \/ e.msg.t = "LeftChannel"
        BY <1>0, <2>3, SendsTold DEF Moving
      <3>2. e.msg.t = "JoinedChannel"
        <4>1. view'[c].channel = ChannelAfter(view[c].channel, e.msg) /\ view'[c].channel # None
          BY <1>4, <2>2, <3>1 DEF Knows
        <4> QED
          BY <3>1, <4>1 DEF ChannelAfter
      <3>3. /\ e.msg.roster = Control(s)!RosterOf(In(channel[c]), name)
            /\ \A f \in Pending(d) :
                   (c # d /\ f.op = "cast" /\ f.msg.t = "PeerJoined") => f.ch # channel[c]
        BY <2>1, <2>3, <3>2 DEF RosterInv, Snapshot
      <3>4. view'[c].roster = Control(s)!RosterOf(In(channel[c]), name)
        BY <2>2, <3>1, <3>2, <3>3 DEF RosterAfter
      <3>5. Shows(c, d, IF d \in In(channel[c]) THEN {name[d]} ELSE {})'
        <4>1. In(channel[c]) \in SUBSET Clients
          BY <1>0 DEF In
        <4>2. \A n \in OwnNames(d) : view'[c].roster[n] =
                  IF d \in In(channel[c]) /\ name[d] = n THEN 1 ELSE 0
          BY <3>4, <4>1, RosterAt DEF ControlInv
        <4> QED
          BY <1>1, <4>2 DEF Shows
      <3>6. ASSUME NEW f \in Owed(c, d)'
            PROVE  /\ f.msg.t = "PeerJoined"  => Shows(c, d, {})'
                   /\ f.msg.t = "PeerLeft"    => Shows(c, d, {})'
                   /\ f.msg.t = "NameChanged" => Shows(c, d, {name[d]})'
        <4>1. c # d
          BY <1>1, <2>3, <3>1, <3>6 DEF Owed
        <4>2. /\ f \in Pending(d) /\ f.op = "cast" /\ f.ch = channel[c]
              /\ f.msg.t \in {"PeerJoined", "PeerLeft", "NameChanged"}
          BY <1>0, <1>1, <1>2, <3>6, <4>1 DEF Owed
        <4>3. EffectOK(s, d, f)
          BY <1>0, <4>2 DEF ControlInv, Effects
        <4>4. f.msg.t # "PeerJoined"
          BY <3>3, <4>1, <4>2
        <4>5. CASE f.msg.t = "PeerLeft"
          <5>1. channel[d] = None /\ channel[c] # None
            BY <1>0, <3>1, <3>2, <4>2, <4>3, <4>5, CastsTold
          <5>2. d \notin In(channel[c])'
            BY <1>1, <5>1 DEF In
          <5> QED
            BY <3>5, <4>5, <5>2
        <4>6. CASE f.msg.t = "NameChanged"
          <5>1. channel[d] = channel[c] /\ d \in senders
            BY <1>0, <4>2, <4>3, <4>6, CastsTold
          <5>2. d \in In(channel[c])'
            BY <1>0, <1>1, <5>1 DEF In
          <5> QED
            BY <3>5, <4>6, <5>2
        <4> QED
          BY <4>2, <4>4, <4>5, <4>6
      <3> QED
        BY <3>5, <3>6 DEF Shown
    <2>4. CASE ~(e \in Moving(t) /\ t = c)
      <3>1. Moving(c) = {}
        BY <1>0, <1>1, <1>4, <2>4 DEF Knows, Moving, Same
      <3>2. c \in targets => m.t \notin {"JoinedChannel", "LeftChannel"}
        BY <1>0, <2>4, SendsTold, CastsTold DEF Moving
      <3>3. view'[c].channel = view[c].channel
        BY <2>2, <3>2 DEF ChannelAfter
      <3>4. Knows(c) /\ Shown(c, d)
        BY <1>4, <2>1, <3>1, <3>3 DEF Knows, RosterInv
      <3>5. view[c].channel = channel[c] /\ channel[c] # None /\ c \in In(channel[c])
        BY <2>1, <3>1, <3>4 DEF RoomInv, Room, Knows, In
      <3>6. CASE c \notin targets \/ m.t \notin RosterMessages
        <4>1. \A n \in OwnNames(d) : view'[c].roster[n] = view[c].roster[n]
          BY <2>2, <3>6 DEF RosterAfter, RosterMessages
        <4>2. e \notin Owed(c, t)
          <5> SUFFICES ASSUME e \in Owed(c, t) PROVE FALSE
            OBVIOUS
          <5>1. CASE c = t
            <6>1. e.op = "send" /\ e.msg.t = "NameChanged"
              BY <5>1 DEF Owed
            <6> QED
              BY <1>0, <3>6, <5>1, <6>1, SendsTold DEF RosterMessages
          <5>2. CASE c # t
            <6>1. /\ e.op = "cast" /\ e.ch = channel[c]
                  /\ e.msg.t \in {"PeerJoined", "PeerLeft", "NameChanged"}
              BY <5>2 DEF Owed
            <6>2. e.exclude \in {t, None}
              BY <1>0, <6>1, CastsTold
            <6>3. c # None
              BY NamesAgree
            <6> QED
              BY <3>5, <3>6, <5>2, <6>1, <6>2, <6>3 DEF RosterMessages
          <5> QED
            BY <5>1, <5>2
        <4>3. Owed(c, d)' = Owed(c, d)
          BY <1>0, <1>1, <4>2 DEF Owed, Same
        <4> QED
          BY <1>1, <3>4, <4>1, <4>3, ShownKept
      <3>7. CASE c \in targets /\ m.t \in RosterMessages
        <4>1. CASE e.op = "send"
          <5>1. m = e.msg /\ targets = {e.to} /\ e.to = c
            BY <3>7, <4>1
          <5>2. t = c /\ m.t = "NameChanged" /\ m.old \in OwnNames(t) /\ m.new = name[t]
            BY <1>0, <3>2, <3>7, <4>1, <5>1, SendsTold DEF RosterMessages
          <5> QED
            <6>1. e \in Owed(c, t) /\ t \in Clients /\ t \in In(channel[c])
              BY <3>5, <4>1, <5>1, <5>2 DEF Owed
            <6> QED
              BY <2>q, <3>4, <3>7, <5>1, <5>2, <6>1
        <4>2. CASE e.op = "cast"
          <5>1. m = e.msg /\ c \in In(e.ch) /\ c # e.exclude /\ channel[c] = e.ch
            BY <3>7, <4>2 DEF In
          <5>2. /\ t \in Clients /\ m.t \in {"PeerJoined", "PeerLeft", "NameChanged"}
                /\ m.t \in {"PeerJoined", "PeerLeft"} => m.peer = name[t]
                /\ m.t = "NameChanged" => m.old \in OwnNames(t) /\ m.new = name[t]
            BY <1>0, <3>7, <4>2, <5>1, CastsTold DEF RosterMessages
          <5>3. /\ m.t = "PeerLeft" => channel[t] = None
                /\ m.t # "PeerLeft" => channel[t] = e.ch /\ t \in senders /\ e.exclude = t
            BY <1>0, <4>2, <5>1, <5>2, CastsTold
          <5>4. t # c /\ (t \in In(channel[c]) <=> m.t # "PeerLeft")
            BY <1>0, <3>5, <5>1, <5>3 DEF In
          <5>5. e \in Owed(c, t)
            BY <4>2, <5>1, <5>2, <5>4 DEF Owed
          <5> QED
            BY <2>q, <3>4, <3>7, <4>2, <5>1, <5>2, <5>4, <5>5
        <4>3. CASE e.op = "fan"
          BY <3>7, <4>3 DEF RosterMessages
        <4> QED
          BY <4>1, <4>2, <4>3
      <3> QED
        BY <3>6, <3>7
    <2> QED
      BY <2>3, <2>4
  <1> QED
    BY <1>3, <1>4 DEF RosterInv

LEMMA SameRoster ==
  ASSUME NEW s \in Scenes, NEW ch, In(ch)' = In(ch), \A c \in In(ch) : name'[c] = name[c]
  PROVE  Control(s)!RosterOf(In(ch), name)' = Control(s)!RosterOf(In(ch), name)
  <1>1. ASSUME NEW n PROVE {c \in In(ch)' : name'[c] = n} = {c \in In(ch) : name[c] = n}
    OBVIOUS
  <1> QED
    BY <1>1 DEF Control!RosterOf

\* A handler of x changes the registry's entry of x alone, and tells nobody yet.
LEMMA RosterWhenHandled ==
  ASSUME NEW s \in Scenes, ControlInv(s), RoomInv(s), RosterInv(s),
         NEW x \in Clients, Same(x), UNCHANGED <<view, dropped>>, registered' \subseteq Clients,
         \A d \in Clients \ {x} :
             /\ channel'[d] = channel[d] /\ name'[d] = name[d]
             /\ d \in registered' <=> d \in registered
             /\ d \in senders' => d \in senders
             /\ d \in raced => d \in raced',
         \A c \in Clients \ {x} : (Knows(c) /\ c \notin raced') => Shown(c, x)',
         Knows(x)' => \A d \in Clients : Shown(x, d)',
         Snapshot(s, x)',
         \A c \in Clients \ {x} :
             (c \notin raced' /\ c \in Entering(channel[c])) =>
                 /\ x \in In(channel[c])' <=> x \in In(channel[c])
                 /\ x \in In(channel[c]) => name'[x] = name[x]
                 /\ \A f \in Pending(x)' :
                        (f.op = "cast" /\ f.msg.t = "PeerJoined") => f.ch # channel[c]
  PROVE  RosterInv(s)'
  <1>0. \A c \in Clients : c \in Tasks
    BY DEF Tasks
  <1>1. ASSUME NEW c \in Clients \ {x}
        PROVE  /\ Pending(c)' = Pending(c) /\ Moving(c)' = Moving(c)
               /\ channel'[c] = channel[c]
               /\ \A d \in Clients \ {x} : d \in In(channel[c])' <=> d \in In(channel[c])
    BY <1>0 DEF Same, Moving, In
  <1>2. ASSUME NEW c \in Clients \ {x} PROVE Snapshot(s, c)'
    <2> SUFFICES ASSUME c \notin raced', NEW e \in Moving(c)', e.msg.t = "JoinedChannel"
                 PROVE  /\ e.msg.roster = Control(s)!RosterOf(In(channel[c]), name)'
                        /\ \A d \in Clients \ {c} : \A g \in Pending(d)' :
                               (g.op = "cast" /\ g.msg.t = "PeerJoined") => g.ch # channel'[c]
      BY DEF Snapshot
    <2>1. e \in Moving(c) /\ c \notin raced /\ e \in Pending(c) /\ e.op = "send"
      BY <1>1, <1>2 DEF Moving
    <2>2. EffectOK(s, c, e) /\ e.msg.ch = channel[c]
      BY <1>0, <2>1, SendsTold DEF ControlInv, Effects
    <2>3. c \in Entering(channel[c])
      BY <2>1, <2>2 DEF Entering
    <2>4. PICK ch : ch = channel[c]
      OBVIOUS
    <2>5. In(ch)' = In(ch) /\ \A d \in In(ch) : name'[d] = name[d]
      <3>1. registered \subseteq Clients
        BY DEF ControlInv, Basics
      <3> QED
        BY <1>1, <2>3, <2>4, <3>1 DEF In
    <2>6. Control(s)!RosterOf(In(ch), name)' = Control(s)!RosterOf(In(ch), name)
      BY <2>5, SameRoster
    <2>7. /\ e.msg.roster = Control(s)!RosterOf(In(ch), name)
          /\ \A d \in Clients \ {c} : \A f \in Pending(d) :
                 (f.op = "cast" /\ f.msg.t = "PeerJoined") => f.ch # ch
      BY <2>1, <2>4 DEF RosterInv, Snapshot
    <2>8. \A d \in Clients \ {c} : \A g \in Pending(d)' :
              (g.op = "cast" /\ g.msg.t = "PeerJoined") => g.ch # ch
      BY <1>1, <2>3, <2>4, <2>7
    <2>9. ch = channel'[c]
      BY <1>1, <2>4
    <2> QED
      BY <2>6, <2>7, <2>8, <2>9
  <1>3. ASSUME NEW c \in Clients \ {x}, Knows(c)', NEW d \in Clients PROVE Shown(c, d)'
    <2>1. Knows(c) /\ c \notin raced'
      BY <1>1, <1>3 DEF Knows
    <2>2. CASE d = x
      BY <2>1, <2>2
    <2>3. CASE d # x
      <3>1. Owed(c, d)' = Owed(c, d)
        BY <1>1, <2>3 DEF Owed
      <3>2. d \in In(channel[c])' <=> d \in In(channel[c])
        BY <1>1, <2>3
      <3> QED
        BY <2>1, <2>3, <3>1, <3>2, ShownKept DEF RosterInv
    <2> QED
      BY <2>2, <2>3
  <1> QED
    BY <1>2, <1>3 DEF RosterInv

LEMMA RosterKept ==
  ASSUME NEW s \in Scenes, ControlInv(s), ControlInv(s)', RoomInv(s), RosterInv(s), Event(s)
  PROVE  RosterInv(s)'
  <1>0. /\ \A c \in Clients : c \in Tasks
        /\ senders \subseteq Clients /\ registered \subseteq Clients
        /\ registered' \subseteq Clients
        /\ \A c \in senders : c \in registered
        /\ None \notin Rooms(s)
    BY NamesAgree DEF Tasks, ControlInv, Basics, Connections
  <1>1. ASSUME NEW c \in Clients, Knows(c)
        PROVE  /\ view[c].channel = channel[c] /\ channel[c] # None /\ c \in In(channel[c])
               /\ \A d \in Clients : Shown(c, d)
    BY <1>0, <1>1 DEF Knows, RoomInv, Room, RosterInv, In
  \* Nothing pending of x is owed to c, and what the registry has of x is shown.
  <1>2. ASSUME NEW c \in Clients, NEW x \in Clients, Knows(c), Owed(c, x) = {}, Owed(c, x)' = {},
               view' = view, channel'[c] = channel[c],
               x \in In(channel[c])' <=> x \in In(channel[c]),
               x \in In(channel[c]) => name'[x] = name[x]
        PROVE  Shown(c, x)'
    <2>1. PICK X : X = IF x \in In(channel[c]) THEN {name[x]} ELSE {}
      OBVIOUS
    <2>2. Shows(c, x, X)
      BY <1>1, <1>2, <2>1 DEF Shown
    <2>3. Shows(c, x, X)' /\ X = IF x \in In(channel[c])' THEN {name'[x]} ELSE {}
      BY <1>2, <2>1, <2>2 DEF Shows
    <2> QED
      BY <1>2, <2>3 DEF Shown
  <1>3. ASSUME NEW c \in Clients, NEW x \in Clients, c # x,
               \A e \in Pending(x) : e.op = "cast" => e.msg.t = "ChatMessage"
        PROVE  Owed(c, x) = {}
    BY <1>3 DEF Owed
  <1>4. ASSUME NEW c \in Clients, NEW x \in Clients, c # x,
               \A e \in Pending(x)' : e.op = "cast" => e.msg.t = "ChatMessage"
        PROVE  Owed(c, x)' = {}
    BY <1>4 DEF Owed
  \* x keeps its place, and owes nobody an announcement.
  <1>5. ASSUME NEW x \in Clients, Same(x), UNCHANGED <<view, dropped, raced>>,
               UNCHANGED <<channel, name>>,
               \A d \in Clients : (d \in registered /\ channel[d] # None) <=>
                                  (d \in registered' /\ channel[d] # None),
               \A d \in Clients \ {x} : d \in registered' <=> d \in registered,
               \A d \in Clients \ {x} : d \in senders' => d \in senders,
               \A e \in Pending(x) : e.op = "cast" => e.msg.t = "ChatMessage",
               \A e \in Pending(x)' : e.op = "cast" => e.msg.t = "ChatMessage",
               Moving(x)' = {},
               Knows(x)' => Knows(x) /\ Owed(x, x) = {} /\ Owed(x, x)' = {}
        PROVE  RosterInv(s)'
    <2>1. \A c \in Clients : channel[c] # None =>
              \A d \in Clients : d \in In(channel[c])' <=> d \in In(channel[c])
      BY <1>5 DEF In
    <2>2. ASSUME NEW c \in Clients \ {x}, Knows(c) PROVE Shown(c, x)'
      BY <1>1, <1>2, <1>3, <1>4, <1>5, <2>1, <2>2
    <2>3. ASSUME Knows(x)', NEW d \in Clients PROVE Shown(x, d)'
      <3>1. Knows(x) /\ Shown(x, d) /\ channel[x] # None
        BY <1>1, <1>5, <2>3
      <3>2. Owed(x, d)' = Owed(x, d)
        <4>1. CASE d = x
          BY <1>5, <2>3, <4>1
        <4>2. CASE d # x
          <5>1. Pending(d)' = Pending(d) /\ channel'[x] = channel[x]
            BY <1>0, <1>5, <4>2 DEF Same
          <5> QED
            BY <4>2, <5>1 DEF Owed
        <4> QED
          BY <4>1, <4>2
      <3> QED
        BY <1>5, <2>1, <3>1, <3>2, ShownKept
    <2>4. Snapshot(s, x)'
      BY <1>5 DEF Snapshot
    <2>5. ASSUME NEW c \in Clients, c \in Entering(channel[c]) PROVE channel[c] # None
      <3>1. PICK e \in Pending(c) : e.op = "send" /\ e.msg.t = "JoinedChannel"
        BY <2>5 DEF Entering
      <3> QED
        BY <1>0, <3>1, SendsTold DEF ControlInv, Effects
    <2> QED
      BY <1>0, <1>5, <2>1, <2>2, <2>3, <2>4, <2>5, RosterWhenHandled
  <1>6. ASSUME NEW x \in Clients, Ready(x)
        PROVE  /\ Moving(x) = {} /\ x \in registered
               /\ \A c \in Clients : Owed(c, x) = {}
               /\ \A e \in Pending(x) : e.op = "cast" => e.msg.t = "ChatMessage"
    BY <1>0, <1>6 DEF Ready, Moving, Owed
  <1>7. ASSUME NEW x \in Clients, Accepted(s, x) PROVE RosterInv(s)'
    <2>1. x \notin registered /\ channel[x] = None /\ Pending(x) = {} /\ x \notin senders
      BY <1>0, <1>7 DEF Accepted, ControlInv, Connections
    <2>2. Pending(x)' = {Control(s)!OpenQueue} /\ Control(s)!OpenQueue.op = "open"
      BY <1>7 DEF Accepted, Gets, Control!OpenQueue
    <2>3. Moving(x)' = {} /\ ~Knows(x)'
      BY <1>7, <2>1, <2>2 DEF Moving, Knows, Accepted
    <2> QED
      BY <1>5, <1>7, <2>1, <2>2, <2>3 DEF Accepted, Gets
  <1>8. ASSUME NEW x \in Clients, Opened(s, x) PROVE RosterInv(s)'
    <2>1. PICK e \in Pending(x) : e.op = "open" /\ Gets(x, Pending(x) \ {e})
      BY <1>8 DEF Opened
    <2>2. EffectOK(s, x, e) /\ Pending(x) = {e} /\ Pending(x)' = {}
      BY <1>0, <2>1 DEF ControlInv, Effects, Gets
    <2>3. view[x].channel = None
      BY <2>1, <2>2 DEF EffectOK, Control!SendTo, Control!CastTo, Control!ReadList,
                        Control!FanOut, Control!OpenQueue, Control!RemoveClient
    <2>4. Moving(x)' = {} /\ ~Knows(x)'
      BY <1>8, <2>2, <2>3 DEF Moving, Knows, Opened
    <2> QED
      BY <1>5, <1>8, <2>1, <2>2, <2>4 DEF Opened, Gets
  <1>9. ASSUME NEW x \in Clients, Ready(x), Same(x),
               UNCHANGED <<registered, channel, name, view, dropped, raced>>,
               senders' \in {senders, senders \ {x}},
               \A e \in Pending(x)' :
                   \/ e.op = "send" /\ e.msg.t \notin RosterMessages
                   \/ e.op = "cast" /\ e.msg.t = "ChatMessage"
                   \/ e.op \in {"read", "remove"}
        PROVE  RosterInv(s)'
    <2>1. Moving(x)' = {} /\ Owed(x, x)' = {}
      BY <1>9 DEF Moving, Owed, RosterMessages
    <2>2. Knows(x)' => Knows(x)
      BY <1>6, <1>9 DEF Knows
    <2>3. \A e \in Pending(x)' : e.op = "cast" => e.msg.t = "ChatMessage"
      BY <1>9
    <2> QED
      BY <1>5, <1>6, <1>9, <2>1, <2>2, <2>3
  <1>10. ASSUME NEW x \in Clients, Answered(s, x) PROVE RosterInv(s)'
    <2>1. PICK E : (\A e \in E : Answer(s, x, e)) /\ Gets(x, E)
      BY <1>10 DEF Answered
    <2>2. \A e \in Pending(x)' : \/ e.op = "send" /\ e.msg.t \notin RosterMessages
                                 \/ e.op = "cast" /\ e.msg.t = "ChatMessage"
      BY <2>1, AnswersTold DEF Gets
    <2> QED
      BY <1>9, <1>10, <2>1, <2>2 DEF Answered, Gets
  <1>11. ASSUME NEW x \in Clients, NEW ch \in Rooms(s), Created(s, x, ch) PROVE RosterInv(s)'
    <2>1. \A e \in Pending(x)' : \/ e.op = "send" /\ e.msg.t \notin RosterMessages
                                 \/ e.op = "read"
      BY <1>11, RefreshesTold DEF Created, Gets, Control!SendTo, Control!ChannelCreated,
                                  RosterMessages
    <2> QED
      BY <1>9, <1>11, <2>1 DEF Created, Gets
  <1>12. ASSUME NEW x \in Clients, Closed(s, x) PROVE RosterInv(s)'
    <2>1. \A e \in Pending(x)' : e.op = "remove"
      BY <1>12 DEF Closed, Gets, Control!RemoveClient
    <2> QED
      BY <1>9, <1>12, <2>1 DEF Closed, Gets
  <1>13. ASSUME NEW c \in Clients, c \in Entering(channel[c])
         PROVE  channel[c] # None /\ c \in In(channel[c]) /\ c \in senders
    <2>1. PICK e \in Pending(c) : e.op = "send" /\ e.msg.t = "JoinedChannel"
      BY <1>13 DEF Entering
    <2>2. channel[c] # None /\ c \in senders
      BY <1>0, <2>1, SendsTold DEF ControlInv, Effects
    <2> QED
      BY <1>0, <2>2 DEF In
  <1>14. ASSUME NEW x \in Clients, NEW ch \in Rooms(s), Entered(s, x, ch) PROVE RosterInv(s)'
    <2>0. PICK r, f, g :
            /\ r = Control(s)!RosterOf(In(ch) \union {x}, name)
            /\ f = Control(s)!CastTo(ch, x, Control(s)!PeerJoined(name[x]))
            /\ g = Control(s)!SendTo(x, Control(s)!JoinedChannel(ch, r))
      OBVIOUS
    <2>1. /\ Ready(x) /\ Same(x) /\ Pending(x)' = {f, g} \union Refreshes(s, ch)
          /\ UNCHANGED <<registered, name, senders, view, dropped>>
          /\ channel[x] = None /\ channel'[x] = ch
          /\ \A d \in Clients \ {x} : channel'[d] = channel[d]
          /\ raced' = (raced \ {x}) \union (Entering(ch) \ {x})
                      \union (IF Announcers(ch) # {} THEN {x} ELSE {})
      BY <1>14, <2>0 DEF Entered, Gets, ControlInv, Basics
    <2>2. /\ f.op = "cast" /\ f.ch = ch /\ f.msg.t = "PeerJoined"
          /\ g.op = "send" /\ g.msg.t = "JoinedChannel" /\ g.msg.roster = r
      BY <2>0 DEF Control!SendTo, Control!CastTo, Control!PeerJoined, Control!JoinedChannel
    <2>3. \A e \in Pending(x)' : e = f \/ e = g \/ e.op = "read"
      BY <2>1, RefreshesTold
    <2>4. ASSUME NEW c \in Clients \ {x}, Knows(c) PROVE Shown(c, x)'
      <3>1. Owed(c, x) = {} /\ x \notin In(channel[c]) /\ Shown(c, x)
        BY <1>1, <1>6, <2>1, <2>4 DEF In
      <3>2. Shows(c, x, {})'
        <4>1. Shows(c, x, {})
          BY <3>1 DEF Shown
        <4> QED
          BY <2>1, <4>1 DEF Shows
      <3>3. \A e \in Owed(c, x)' : e.msg.t = "PeerJoined"
        BY <2>2, <2>3, <2>4 DEF Owed
      <3>4. ch = channel[c] => f \in Owed(c, x)'
        BY <2>1, <2>2, <2>4 DEF Owed
      <3>5. ch # channel[c] => x \notin In(channel[c])'
        BY <2>1, <2>4 DEF In
      <3> QED
        BY <3>2, <3>3, <3>4, <3>5 DEF Shown
    <2>5. ~Knows(x)'
      <3>1. g \in Moving(x)'
        BY <2>1, <2>2 DEF Moving
      <3> QED
        BY <3>1 DEF Knows
    <2>6. Snapshot(s, x)'
      <3> SUFFICES ASSUME x \notin raced', NEW e \in Moving(x)'
                   PROVE  /\ e.msg.roster = Control(s)!RosterOf(In(channel[x]), name)'
                          /\ \A d \in Clients \ {x} : \A h \in Pending(d)' :
                                 (h.op = "cast" /\ h.msg.t = "PeerJoined") => h.ch # channel'[x]
        BY DEF Snapshot
      <3>1. e = g
        BY <2>2, <2>3 DEF Moving
      <3>2. In(ch)' = In(ch) \union {x}
        BY <1>0, <1>6, <2>1 DEF In
      <3>3. Control(s)!RosterOf(In(channel[x]), name)' = r
        BY <2>0, <2>1, <3>2 DEF Control!RosterOf
      <3>4. Announcers(ch) = {}
        BY <2>1
      <3>5. \A d \in Clients \ {x} : Pending(d)' = Pending(d)
        BY <1>0, <2>1 DEF Same
      <3> QED
        BY <2>1, <2>2, <3>1, <3>3, <3>4, <3>5 DEF Announcers
    <2>7. ASSUME NEW c \in Clients \ {x}, c \notin raced', c \in Entering(channel[c])
          PROVE  /\ x \in In(channel[c])' <=> x \in In(channel[c])
                 /\ \A h \in Pending(x)' :
                        (h.op = "cast" /\ h.msg.t = "PeerJoined") => h.ch # channel[c]
      <3>1. ch # channel[c] /\ channel[c] # None /\ channel'[c] = channel[c]
        BY <1>13, <2>1, <2>7
      <3>2. x \notin In(channel[c]) /\ x \notin In(channel[c])'
        BY <2>1, <3>1 DEF In
      <3> QED
        BY <2>2, <2>3, <3>1, <3>2
    <2> QED
      BY <1>0, <2>1, <2>4, <2>5, <2>6, <2>7, RosterWhenHandled
  \* x leaves its channel, if it is in one.
  <1>15. ASSUME NEW x \in Clients, Same(x), UNCHANGED <<name, senders, view, dropped>>,
                registered' \in {registered, registered \ {x}}, x \in registered,
                channel' = [channel EXCEPT ![x] = None],
                \A c \in Clients \ {x} : Owed(c, x) = {},
                channel[x] # None => \E g \in Pending(x)' :
                    g.op = "cast" /\ g.ch = channel[x] /\ g.msg.t = "PeerLeft",
                \A e \in Pending(x)' :
                    \/ e.op = "send" /\ e.msg.t = "LeftChannel"
                    \/ e.op = "cast" /\ e.msg.t = "PeerLeft" /\ e.ch = channel[x]
                    \/ e.op = "read",
                raced \subseteq raced',
                channel[x] # None => Entering(channel[x]) \ {x} \subseteq raced',
                ~Knows(x)'
         PROVE  RosterInv(s)'
    <2>1. channel'[x] = None /\ \A d \in Clients \ {x} : channel'[d] = channel[d]
      BY <1>15 DEF ControlInv, Basics
    <2>2. ASSUME NEW c \in Clients \ {x}, Knows(c) PROVE Shown(c, x)'
      <3>1. Owed(c, x) = {} /\ Shown(c, x) /\ channel[c] # None
        BY <1>1, <1>15, <2>2
      <3>2. CASE channel[c] # channel[x]
        <4>1. Owed(c, x)' = {}
          BY <1>15, <2>1, <2>2, <3>2 DEF Owed
        <4>2. x \notin In(channel[c]) /\ x \notin In(channel[c])'
          BY <2>1, <2>2, <3>1, <3>2 DEF In
        <4> QED
          BY <1>2, <1>15, <2>1, <2>2, <3>1, <4>1, <4>2
      <3>3. CASE channel[c] = channel[x]
        <4>1. x \in In(channel[c])
          BY <1>15, <3>3 DEF In
        <4>2. Shows(c, x, {name[x]})
          BY <3>1, <4>1 DEF Shown
        <4>3. Shows(c, x, {name[x]})'
          BY <1>15, <4>2 DEF Shows
        <4>4. Owed(c, x)' # {} /\ \A e \in Owed(c, x)' : e.msg.t = "PeerLeft"
          BY <1>15, <2>1, <2>2, <3>1, <3>3 DEF Owed
        <4> QED
          BY <4>3, <4>4 DEF Shown
      <3> QED
        BY <3>2, <3>3
    <2>3. Snapshot(s, x)'
      BY <1>15 DEF Snapshot, Moving
    <2>4. ASSUME NEW c \in Clients \ {x}, c \notin raced', c \in Entering(channel[c])
          PROVE  /\ x \in In(channel[c])' <=> x \in In(channel[c])
                 /\ \A h \in Pending(x)' : ~(h.op = "cast" /\ h.msg.t = "PeerJoined")
      <3>1. channel[x] # channel[c] /\ channel[c] # None /\ channel'[c] = channel[c]
        BY <1>13, <1>15, <2>1, <2>4
      <3>2. x \notin In(channel[c]) /\ x \notin In(channel[c])'
        BY <2>1, <3>1 DEF In
      <3> QED
        BY <1>15, <3>2
    <2>5. \A d \in Clients \ {x} : d \in registered' <=> d \in registered
      BY <1>15
    <2> QED
      BY <1>0, <1>15, <2>1, <2>2, <2>3, <2>4, <2>5, RosterWhenHandled
  <1>16. ASSUME NEW x \in Clients, Departed(s, x) PROVE RosterInv(s)'
    <2>0. PICK f, g, ch :
            /\ ch = channel[x]
            /\ f = Control(s)!SendTo(x, Control(s)!LeftChannel)
            /\ g = Control(s)!CastTo(ch, None, Control(s)!PeerLeft(name[x]))
      OBVIOUS
    <2>1. /\ Ready(x) /\ Same(x) /\ Pending(x)' = {f, g} \union Refreshes(s, ch)
          /\ UNCHANGED <<registered, name, senders, view, dropped>>
          /\ channel' = [channel EXCEPT ![x] = None]
          /\ raced' = raced \union (Entering(channel[x]) \ {x})
      BY <1>16, <2>0 DEF Departed, Gets
    <2>2. /\ g.op = "cast" /\ g.ch = ch /\ g.msg.t = "PeerLeft"
          /\ f.op = "send" /\ f.msg.t = "LeftChannel"
      BY <2>0 DEF Control!SendTo, Control!CastTo, Control!PeerLeft, Control!LeftChannel
    <2>3. \A e \in Pending(x)' : e = f \/ e = g \/ e.op = "read"
      BY <2>1, RefreshesTold
    <2>4. ~Knows(x)'
      <3>1. f \in Moving(x)'
        BY <2>1, <2>2 DEF Moving
      <3> QED
        BY <3>1 DEF Knows
    <2>5. x \in registered /\ \A c \in Clients \ {x} : Owed(c, x) = {}
      BY <1>6, <2>1
    <2>6. \E h \in Pending(x)' : h.op = "cast" /\ h.ch = channel[x] /\ h.msg.t = "PeerLeft"
      BY <2>0, <2>1, <2>2
    <2>7. \A e \in Pending(x)' : \/ e.op = "send" /\ e.msg.t = "LeftChannel"
                                 \/ e.op = "cast" /\ e.msg.t = "PeerLeft" /\ e.ch = channel[x]
                                 \/ e.op = "read"
      BY <2>0, <2>2, <2>3
    <2> QED
      BY <1>15, <2>1, <2>4, <2>5, <2>6, <2>7
  <1>17. ASSUME NEW x \in Clients, Removed(s, x) PROVE RosterInv(s)'
    <2>0. PICK g, ch : /\ ch = channel[x]
                       /\ g = Control(s)!CastTo(ch, None, Control(s)!PeerLeft(name[x]))
      OBVIOUS
    <2>1. PICK e \in Pending(x) : e.op = "remove"
      BY <1>17 DEF Removed
    <2>2. EffectOK(s, x, e) /\ Pending(x) = {e}
      BY <1>0, <2>1 DEF ControlInv, Effects
    <2>3. x \in registered /\ x \notin senders
      BY <2>1, <2>2 DEF EffectOK, Control!SendTo, Control!CastTo, Control!ReadList,
                        Control!FanOut, Control!OpenQueue, Control!RemoveClient
    <2>4. /\ Same(x) /\ Pending(x)' = IF ch = None THEN {} ELSE {g} \union Refreshes(s, ch)
          /\ UNCHANGED <<name, senders, view, dropped>>
          /\ registered' = registered \ {x}
          /\ channel' = [channel EXCEPT ![x] = None]
          /\ raced \subseteq raced'
          /\ ch # None => Entering(ch) \ {x} \subseteq raced'
      BY <1>17, <2>0 DEF Removed, Gets
    <2>5. g.op = "cast" /\ g.ch = ch /\ g.msg.t = "PeerLeft"
      BY <2>0 DEF Control!CastTo, Control!PeerLeft
    <2>6. \A h \in Pending(x)' : h.op = "read" \/ (h = g /\ ch # None)
      BY <2>4, RefreshesTold
    <2>7. ~Knows(x)' /\ \A c \in Clients \ {x} : Owed(c, x) = {}
      BY <2>1, <2>2, <2>3, <2>4 DEF Knows, Owed
    <2> QED
      BY <1>15, <2>0, <2>3, <2>4, <2>5, <2>6, <2>7
  <1>18. ASSUME NEW x \in Clients, NEW ch \in Rooms(s), Echoed(s, x, ch) PROVE RosterInv(s)'
    <2>1. /\ Ready(x) /\ Same(x) /\ In(ch) = {}
          /\ UNCHANGED <<registered, name, senders, view, dropped, raced>>
          /\ channel[x] = None /\ channel'[x] = ch
          /\ \A d \in Clients \ {x} : channel'[d] = channel[d]
      BY <1>18 DEF Echoed, Gets, ControlInv, Basics
    <2>2. \A e \in Pending(x)' : e.op = "send" /\ e.msg.t = "EchoTestReady"
      BY <1>18 DEF Echoed, Gets, Control!SendTo, Control!EchoTestReady
    <2>3. x \notin dropped => view[x].channel = None
      BY <1>6, <2>1 DEF Ready, RoomInv, Room
    <2>4. ~Knows(x)'
      BY <2>1, <2>3 DEF Knows
    <2>5. ASSUME NEW c \in Clients \ {x}, channel[c] # None, c \in In(channel[c])
          PROVE  x \notin In(channel[c]) /\ x \notin In(channel[c])'
      BY <2>1, <2>5 DEF In
    <2>6. ASSUME NEW c \in Clients \ {x}, Knows(c) PROVE Shown(c, x)'
      <3>1. Owed(c, x) = {} /\ Owed(c, x)' = {}
        BY <1>6, <2>1, <2>2 DEF Owed
      <3> QED
        BY <1>1, <1>2, <2>1, <2>5, <2>6, <3>1
    <2>7. Snapshot(s, x)'
      BY <2>2 DEF Snapshot, Moving
    <2>8. \A c \in Clients \ {x} : c \in Entering(channel[c]) =>
              x \notin In(channel[c]) /\ x \notin In(channel[c])'
      BY <1>13, <2>5
    <2> QED
      BY <1>0, <2>1, <2>2, <2>4, <2>6, <2>7, <2>8, RosterWhenHandled
  <1>26. ASSUME NEW x \in Clients, NEW n \in OwnNames(x), Renamed(s, x, n) PROVE RosterInv(s)'
    <2>0. PICK o, f, g :
            /\ o = name[x]
            /\ f = Control(s)!SendTo(x, Control(s)!NameChanged(o, n))
            /\ g = Control(s)!CastTo(channel[x], x, Control(s)!NameChanged(o, n))
      OBVIOUS
    <2>1. /\ Ready(x) /\ Same(x)
          /\ Pending(x)' = {f} \union (IF channel[x] = None THEN {} ELSE {g})
          /\ UNCHANGED <<registered, channel, senders, view, dropped>>
          /\ name'[x] = n /\ \A d \in Clients \ {x} : name'[d] = name[d]
          /\ raced' = raced \union
                 (IF channel[x] = None THEN {} ELSE Entering(channel[x]) \ {x})
      BY <1>26, <2>0 DEF Renamed, Gets, ControlInv, Basics
    <2>2. /\ f.op = "send" /\ f.msg.t = "NameChanged" /\ f.msg.old = o
          /\ g.op = "cast" /\ g.msg.t = "NameChanged" /\ g.msg.old = o /\ g.ch = channel[x]
      BY <2>0 DEF Control!SendTo, Control!CastTo, Control!NameChanged
    <2>3. ASSUME NEW c \in Clients, Knows(c), c = x \/ channel[c] = channel[x]
          PROVE  Shown(c, x)'
      <3>1. Owed(c, x) = {} /\ Shown(c, x) /\ x \in In(channel[c]) /\ channel[c] # None
        BY <1>1, <1>6, <2>1, <2>3 DEF In
      <3>2. Shows(c, x, {o})
        BY <2>0, <3>1 DEF Shown
      <3>3. Shows(c, x, {o})'
        BY <2>1, <3>2 DEF Shows
      <3>4. Owed(c, x)' # {} /\ \A e \in Owed(c, x)' : e.msg.t = "NameChanged" /\ e.msg.old = o
        BY <2>1, <2>2, <2>3, <3>1 DEF Owed
      <3> QED
        BY <3>3, <3>4 DEF Shown
    <2>4. ASSUME NEW c \in Clients \ {x}, Knows(c) PROVE Shown(c, x)'
      <3>1. CASE channel[c] # channel[x]
        <4>1. Owed(c, x) = {} /\ Owed(c, x)' = {}
          BY <1>6, <2>1, <2>2, <2>4, <3>1 DEF Owed
        <4>2. x \notin In(channel[c]) /\ x \notin In(channel[c])'
          BY <2>1, <3>1 DEF In
        <4> QED
          BY <1>2, <2>1, <2>4, <4>1, <4>2
      <3> QED
        BY <2>3, <2>4, <3>1
    <2>5. ASSUME Knows(x)', NEW d \in Clients PROVE Shown(x, d)'
      <3>1. Knows(x)
        BY <1>6, <2>1, <2>5 DEF Knows
      <3>2. CASE d = x
        BY <2>3, <3>1, <3>2
      <3>3. CASE d # x
        <4>1. Pending(d)' = Pending(d)
          BY <1>0, <2>1, <3>3 DEF Same
        <4>2. Owed(x, d)' = Owed(x, d) /\ (d \in In(channel[x])' <=> d \in In(channel[x]))
          BY <2>1, <3>3, <4>1 DEF Owed, In
        <4> QED
          BY <1>1, <2>1, <3>1, <3>3, <4>2, ShownKept
      <3> QED
        BY <3>2, <3>3
    <2>6. Snapshot(s, x)'
      BY <2>1, <2>2 DEF Snapshot, Moving
    <2>7. ASSUME NEW c \in Clients \ {x}, c \notin raced', c \in Entering(channel[c])
          PROVE  /\ x \in In(channel[c])' <=> x \in In(channel[c])
                 /\ x \notin In(channel[c])
                 /\ \A h \in Pending(x)' : ~(h.op = "cast" /\ h.msg.t = "PeerJoined")
      <3>1. channel[x] # channel[c]
        BY <1>13, <2>1, <2>7
      <3>2. x \notin In(channel[c]) /\ x \notin In(channel[c])'
        BY <2>1, <3>1 DEF In
      <3> QED
        BY <2>1, <2>2, <3>2
    <2> QED
      BY <1>0, <2>1, <2>4, <2>5, <2>6, <2>7, RosterWhenHandled
  <1>19. ASSUME NEW t \in Tasks, Sent(s, t) PROVE RosterInv(s)'
    <2>1. PICK e \in Pending(t) : e.op = "send" /\ Performed(s, t, e, {e.to}, e.msg)
      BY <1>19 DEF Sent
    <2>2. MessageOK(e.msg)
      BY <2>1, MessagesOK DEF ControlInv, Effects
    <2> QED
      BY <2>1, <2>2, RosterWhenPerformed
  <1>20. ASSUME NEW t \in Tasks, Casted(s, t) PROVE RosterInv(s)'
    <2>1. PICK e \in Pending(t) :
             e.op = "cast" /\ Performed(s, t, e, In(e.ch) \ {e.exclude}, e.msg)
      BY <1>20 DEF Casted
    <2>2. MessageOK(e.msg)
      BY <2>1, MessagesOK DEF ControlInv, Effects
    <2>3. PICK targets : targets = In(e.ch) \ {e.exclude}
      OBVIOUS
    <2> QED
      BY <2>1, <2>2, <2>3, RosterWhenPerformed
  <1>21. ASSUME NEW t \in Tasks, Fanned(s, t) PROVE RosterInv(s)'
    <2>1. PICK e \in Pending(t) : e.op = "fan"
            /\ Performed(s, t, e, senders, Control(s)!ChannelList(e.list))
      BY <1>21 DEF Fanned
    <2>2. PICK targets, m : targets = senders /\ m = Control(s)!ChannelList(e.list)
      OBVIOUS
    <2>3. MessageOK(m) /\ m.t = "ChannelList"
      BY <2>2 DEF MessageOK, Control!ChannelList
    <2> QED
      BY <2>1, <2>2, <2>3, RosterWhenPerformed
  \* Only effects that concern no roster come and go.
  <1>22. ASSUME UNCHANGED <<registered, channel, name, senders, view, dropped, raced>>,
                \A d \in Clients : {e \in Pending(d)' : e.op \in {"send", "cast"}} =
                                   {e \in Pending(d) : e.op \in {"send", "cast"}}
         PROVE  RosterInv(s)'
    <2>1. \A d \in Clients : Moving(d)' = Moving(d)
      BY <1>22 DEF Moving
    <2>2. \A c \in Clients, d \in Clients : Owed(c, d)' = Owed(c, d)
      BY <1>22 DEF Owed
    <2>3. \A ch : In(ch)' = In(ch) /\ Control(s)!RosterOf(In(ch), name)' = Control(s)!RosterOf(In(ch), name)
      BY <1>22, SameRoster DEF In
    <2>4. ASSUME NEW c \in Clients PROVE Snapshot(s, c)'
      BY <1>22, <2>1, <2>3 DEF Snapshot, RosterInv
    <2>5. ASSUME NEW c \in Clients, Knows(c)', NEW d \in Clients PROVE Shown(c, d)'
      <3>1. Knows(c)
        BY <1>22, <2>1, <2>5 DEF Knows
      <3> QED
        BY <1>1, <1>22, <2>2, <2>3, <3>1, ShownKept
    <2> QED
      BY <2>4, <2>5 DEF RosterInv
  <1>23. ASSUME NEW t \in Tasks, ListRead(s, t) PROVE RosterInv(s)'
    <2>1. PICK e \in Pending(t) :
             e.op = "read"
             /\ Gets(t, (Pending(t) \ {e}) \union {Control(s)!FanOut(Control(s)!PublicList)})
      BY <1>23 DEF ListRead
    <2>2. \A d \in Clients : {f \in Pending(d)' : f.op \in {"send", "cast"}} =
                             {f \in Pending(d) : f.op \in {"send", "cast"}}
      BY <1>0, <2>1 DEF Gets, Same, Control!FanOut
    <2> QED
      BY <1>22, <1>23, <2>2 DEF ListRead
  <1>24. ASSUME NEW removed, Reaped(s, removed) PROVE RosterInv(s)'
    <2>1. Maintenance \in Tasks /\ Maintenance \notin Clients
      BY NamesAgree DEF Tasks
    <2>2. \A d \in Clients : Pending(d)' = Pending(d)
      BY <1>0, <1>24, <2>1 DEF Reaped, Gets, Same
    <2> QED
      BY <1>22, <1>24, <2>2 DEF Reaped
  <1>25. ASSUME Idle PROVE RosterInv(s)'
    BY <1>0, <1>22, <1>25 DEF Idle
  <1> QED
    BY <1>7, <1>8, <1>10, <1>11, <1>12, <1>14, <1>16, <1>17, <1>18, <1>19, <1>20, <1>21, <1>23,
       <1>24, <1>25, <1>26 DEF Event

(***************************************************************************)
(* The theorems.                                                           *)
(***************************************************************************)
TasksInv ==
    \A s \in Scenes : part = s => ControlInv(s) /\ ListInv(s) /\ RoomInv(s) /\ RosterInv(s)

LEMMA Started ==
  ASSUME NEW s \in Scenes, Control(s)!Init
  PROVE  ControlInv(s) /\ ListInv(s) /\ RoomInv(s) /\ RosterInv(s)
  <1>1. /\ Control(s)!Tasks = Tasks /\ Control(s)!Names = AllNames
        /\ FirstName \in [Clients -> AllNames]
    BY NamesAgree
  <1>2. /\ phase = [c \in Clients |-> "new"] /\ registered = {} /\ senders = {}
        /\ channel = [c \in Clients |-> None] /\ name = FirstName
        /\ task = [t \in Tasks |-> <<>>] /\ view = [c \in Clients |-> Control(s)!NoView]
        /\ lastList = Control(s)!PublicList
    BY <1>1 DEF Control!Init
  <1>3. \A t \in Tasks : Pending(t) = {} /\ TaskShape(task[t])
    BY <1>2, Single DEF Pending
  <1>4. Maintenance \in Tasks /\ \A c \in Clients : c \in Tasks
    BY DEF Tasks
  <1>5. Basics(s)
    <2>1. TasksOK
      BY <1>2, <1>3, <1>4 DEF TasksOK
    <2>2. \A c \in Clients : name[c] \in OwnNames(c)
      BY <1>2 DEF OwnNames
    <2> QED
      BY <1>1, <1>2, <2>1, <2>2 DEF Basics
  <1>6. \A c \in Clients : IsView(view[c]) /\ view[c].channel = None
    <2>1. Control(s)!NoView = [channel |-> None, roster |-> [n \in AllNames |-> 0], list |-> <<>>]
      BY <1>1 DEF Control!NoView
    <2>2. PICK r, l : r = [n \in AllNames |-> 0] /\ l = <<>>
      OBVIOUS
    <2>3. r \in [AllNames -> Nat]
      BY <2>2
    <2>4. \A c \in Clients : view[c] = [channel |-> None, roster |-> r, list |-> l]
      BY <1>2, <2>1, <2>2
    <2>5. ASSUME NEW c \in Clients
          PROVE  /\ DOMAIN view[c] = {"channel", "roster", "list"}
                 /\ view[c].roster = r /\ view[c].channel = None
      BY <2>4
    <2> QED
      BY <2>3, <2>5 DEF IsView
  <1>7. Connections
    BY <1>2, <1>3, <1>4, <1>6 DEF Connections
  <1>8. Effects(s)
    BY <1>3 DEF Effects
  <1>9. ListInv(s) /\ RoomInv(s)
    BY <1>2 DEF ListInv, RoomInv
  <1>10. RosterInv(s)
    BY <1>2, <1>3, <1>4 DEF RosterInv, Snapshot, Moving, Knows
  <1> QED
    BY <1>5, <1>7, <1>8, <1>9, <1>10 DEF ControlInv

\* The invariant is inductive: the start, a step of the handlers, and any other step.
LEMMA TasksAlways == Spec => []TasksInv
  <1>1. Init => TasksInv
    <2> SUFFICES ASSUME Init, NEW s \in Scenes, part = s
                 PROVE  ControlInv(s) /\ ListInv(s) /\ RoomInv(s) /\ RosterInv(s)
      BY DEF TasksInv
    <2>1. Control(s)!Init
      BY DEF Init, Scenes
    <2> QED
      BY <2>1, Started
  <1>2. TasksInv /\ [Next]_vars => TasksInv'
    <2> SUFFICES ASSUME TasksInv, [Next]_vars, NEW s \in Scenes, part' = s
                 PROVE  (ControlInv(s) /\ ListInv(s) /\ RoomInv(s) /\ RosterInv(s))'
      BY DEF TasksInv
    <2>1. part = s /\ (Control(s)!Next \/ UNCHANGED controlVars)
      BY DEF Next, Handle, Forward, vars, Scenes
    <2>2. ControlInv(s) /\ ListInv(s) /\ RoomInv(s) /\ RosterInv(s)
      BY <2>1 DEF TasksInv
    <2>3. CASE Control(s)!Next
      <3>1. Basics(s)' /\ Event(s)
        BY <2>2, <2>3, EveryStep DEF ControlInv
      <3>2. ControlInv(s)'
        BY <2>2, <3>1, ControlKept
      <3> QED
        BY <2>2, <3>1, <3>2, ListKept, RoomKept, RosterKept
    <2>4. CASE UNCHANGED controlVars
      <3>1. Idle
        BY <2>4 DEF controlVars, Idle, Pending
      <3>2. Basics(s)' /\ Event(s)
        BY <2>2, <2>4, <3>1 DEF controlVars, Event, ControlInv, Basics, TasksOK, Pending
      <3>3. ControlInv(s)'
        BY <2>2, <3>2, ControlKept
      <3> QED
        BY <2>2, <3>2, <3>3, ListKept, RoomKept, RosterKept
    <2> QED
      BY <2>1, <2>3, <2>4
  <1> QED
    BY <1>1, <1>2, PTL DEF Spec

(* No handler changes the public channels or their counts and forgets to   *)
(* refresh the sidebars: whenever the list that broadcast_channel_list     *)
(* read last is out of date, some task has still to read it, for any       *)
(* number of connections and channels.                                     *)
THEOREM ListRefreshed == Spec => []ListRefreshPending
  <1>1. TasksInv => ListRefreshPending
    <2> SUFFICES ASSUME TasksInv, NEW s \in Scenes, part = s
                 PROVE  Control(s)!ListRefreshPending
      BY DEF ListRefreshPending
    <2>1. Basics(s) /\ ListInv(s)
      BY DEF TasksInv, ControlInv
    <2>2. ASSUME NEW t \in Tasks, Control(s)!ReadList \in Pending(t)
          PROVE  \E i \in DOMAIN task[t] : task[t][i] = Control(s)!ReadList
      <3>1. DOMAIN task[t] = 1..Len(task[t])
        BY <2>1 DEF Basics, TasksOK, TaskShape, IsSeq
      <3> QED
        BY <2>2, <3>1 DEF Pending, Elements
    <2>3. Control(s)!Tasks = Tasks
      BY NamesAgree
    <2> QED
      BY <2>1, <2>2, <2>3 DEF ListInv, Control!ListRefreshPending
  <1> QED
    BY <1>1, TasksAlways, PTL

(* Once every handler is done, a client that missed no message shows the   *)
(* channel the server has it in, and its members by their current names    *)
(* unless its join overlapped another change of the roster: for any number *)
(* of connections, channels and names, however the effects of the handlers *)
(* of join, leave, rename and disconnect interleave.                       *)
THEOREM ViewsExact == Spec => []ViewExactUnlessRaced
  <1>1. TasksInv => ViewExactUnlessRaced
    <2> SUFFICES ASSUME TasksInv, NEW s \in Scenes, part = s, Control(s)!Settled,
                        NEW c \in senders \ dropped
                 PROVE  /\ \/ view[c].channel = channel[c]
                           \/ view[c].channel = None /\ channel[c] \in Private[s]
                        /\ (view[c].channel # None /\ c \notin raced)
                               => view[c].roster = Control(s)!RosterOf(
                                      Control(s)!Members(view[c].channel), name)
      BY DEF ViewExactUnlessRaced, Control!ViewExactUnlessRaced
    <2>1. ControlInv(s) /\ RoomInv(s) /\ RosterInv(s)
      BY DEF TasksInv
    <2>2. c \in Clients /\ registered \subseteq Clients
      BY <2>1 DEF ControlInv, Basics
    <2>3. \A t \in Tasks : Pending(t) = {}
      BY NamesAgree, Single DEF Control!Settled, Pending
    <2>4. \A d \in Clients : Pending(d) = {}
      BY <2>3 DEF Tasks
    <2>5. Moving(c) = {}
      BY <2>2, <2>4 DEF Moving
    <2>6. \/ view[c].channel = channel[c]
          \/ view[c].channel = None /\ channel[c] \in Private[s]
      BY <2>1, <2>5 DEF RoomInv, Room
    <2>7. ASSUME view[c].channel # None, c \notin raced
          PROVE  view[c].roster = Control(s)!RosterOf(Control(s)!Members(view[c].channel), name)
      <3> DEFINE who == In(channel[c])
                 roster == Control(s)!RosterOf(who, name)
      <3>1. Control(s)!Members(view[c].channel) = who
        BY <2>6, <2>7, NamesAgree
      <3>2. who \in SUBSET Clients
        BY <2>2 DEF In
      <3>3. /\ roster \in [AllNames -> Nat]
            /\ \A d \in Clients : \A n \in OwnNames(d) :
                   roster[n] = IF d \in who /\ name[d] = n THEN 1 ELSE 0
        BY <2>1, <3>2, RosterAt DEF ControlInv
      <3>4. view[c].roster \in [AllNames -> Nat]
        BY <2>1, <2>2 DEF ControlInv, Connections, IsView
      <3>5. ASSUME NEW d \in Clients, NEW n \in OwnNames(d)
            PROVE  view[c].roster[n] = roster[n]
        <4>1. Owed(c, d) = {} /\ Shown(c, d)
          BY <2>1, <2>2, <2>4, <2>5, <2>7 DEF RosterInv, Knows, Owed
        <4>2. Shows(c, d, IF d \in who THEN {name[d]} ELSE {})
          BY <4>1 DEF Shown
        <4> HIDE DEF who, roster
        <4> QED
          BY <3>3, <4>2 DEF Shows
      <3>6. \A n \in AllNames : view[c].roster[n] = roster[n]
        BY <3>5 DEF AllNames
      <3>7. view[c].roster = roster
        <4> HIDE DEF roster
        <4> QED
          BY <3>3, <3>4, <3>6
      <3> QED
        BY <3>1, <3>7
    <2> QED
      BY <2>6, <2>7
  <1> QED
    BY <1>1, TasksAlways, PTL

(* A client that missed no message is never shown a chat of one channel    *)
(* while it shows another: broadcast_channel_addrs reaches the members of  *)
(* the channel only, and whoever is a member of it and still shows another *)
(* one would have its JoinedChannel behind a LeftChannel that has gone.    *)
THEOREM ChatShownInItsRoom == Spec => ChatInItsRoom
  <1> DEFINE shown == \A s \in Scenes : part = s => Control(s)!ShownInItsRoom
  <1>1. TasksInv /\ [Next]_vars => [shown]_vars
    <2> SUFFICES ASSUME TasksInv, NEW s \in Scenes, part = s,
                        NEW c \in senders \ dropped, NEW t \in Tasks,
                        task[t] # <<>>, Head(task[t]).op = "cast",
                        Head(task[t]).msg.t = "ChatMessage",
                        c \in Control(s)!Recipients(Head(task[t]))
                 PROVE  view[c].channel \in {None, Head(task[t]).msg.room}
      BY NamesAgree DEF Control!ShownInItsRoom
    <2> DEFINE e == Head(task[t])
    <2>1. ControlInv(s) /\ Room(s, c)
      BY DEF TasksInv, RoomInv
    <2>2. c \in Clients /\ c \in Tasks
      BY <2>1 DEF ControlInv, Basics, Tasks
    <2>3. e \in Pending(t)
      BY <2>1, HeadAndTail DEF ControlInv, Basics, TasksOK, TaskShape, Pending
    <2>4. EffectOK(s, t, e)
      BY <2>1, <2>3 DEF ControlInv, Effects
    <2>5. e.ch \in Rooms(s) /\ e.msg.room = e.ch
      BY <2>4, CastsTold
    <2>6. channel[c] = e.ch /\ channel[c] # None
      BY <2>5, NamesAgree DEF Control!Recipients, In
    <2>7. CASE Moving(c) = {}
      BY <2>1, <2>5, <2>6, <2>7 DEF Room
    <2>8. ASSUME NEW f \in Moving(c) PROVE view[c].channel = None
      <3>1. f \in Pending(c) /\ f.op = "send" /\ f.msg.t \in {"JoinedChannel", "LeftChannel"}
        BY <2>8 DEF Moving
      <3>2. EffectOK(s, c, f)
        BY <2>1, <2>2, <3>1 DEF ControlInv, Effects
      <3>3. f.msg.t = "JoinedChannel"
        BY <2>2, <2>6, <3>1, <3>2, SendsTold
      <3> QED
        BY <2>1, <3>3 DEF Room
    <2> QED
      BY <2>7, <2>8
  <1> QED
    BY <1>1, TasksAlways, PTL DEF Spec, ChatInItsRoom

(***************************************************************************)
(* The relay.                                                              *)
(***************************************************************************)

(* Induction over the natural numbers, for sets: a smallest counterexample *)
(* would be a smallest interval 0..k, which strict inclusion excludes.     *)
LEMMA UpFromZero ==
  ASSUME NEW T, 0 \in T, \A n \in Nat : n \in T => n + 1 \in T
  PROVE  Nat \subseteq T
  <1> SUFFICES ASSUME NEW k0 \in Nat, k0 \notin T PROVE FALSE
    OBVIOUS
  <1> DEFINE Z == {0..k : k \in Nat \ T}
  <1>1. Z \subseteq FiniteSubsetsOf(Nat)
    <2> SUFFICES ASSUME NEW k \in Nat \ T PROVE 0..k \in FiniteSubsetsOf(Nat)
      OBVIOUS
    <2>1. 0..k \in SUBSET Nat
      OBVIOUS
    <2>2. IsFiniteSet(0..k)
      BY FS_Interval
    <2> QED
      BY <2>1, <2>2 DEF FiniteSubsetsOf
  <1>2. Z # {}
    OBVIOUS
  <1>3. IsWellFoundedOn(StrictSubsetOrdering(Nat), FiniteSubsetsOf(Nat))
    BY FS_StrictSubsetOrderingWellFounded
  <1> HIDE DEF Z
  <1>4. PICK x \in Z : \A y \in Z : <<y, x>> \notin StrictSubsetOrdering(Nat)
    BY <1>1, <1>2, <1>3, WFMin
  <1>5. PICK k \in Nat \ T : x = 0..k
    BY DEF Z
  <1>6. k - 1 \in Nat \ T
    BY <1>5
  <1>7. 0..(k - 1) \in Z
    BY <1>6 DEF Z
  <1>8. 0..(k - 1) \subseteq 0..k /\ 0..(k - 1) # 0..k
    BY <1>5, <1>6
  <1>9. <<0..(k - 1), 0..k>> \in StrictSubsetOrdering(Nat)
    BY <1>5, <1>6, <1>8 DEF StrictSubsetOrdering
  <1> QED
    BY <1>4, <1>5, <1>7, <1>9

(* What a list keeps of its first i addresses, from what it keeps of one   *)
(* fewer.                                                                  *)
Keep(list, x, f, i) ==
    IF i = 0 THEN <<>>
    ELSE IF list[i] = x THEN f[i - 1] ELSE Append(f[i - 1], list[i])

(* The filter is defined for every length. *)
LEMMA KeptExists ==
  ASSUME NEW list, NEW x, NEW m \in Nat
  PROVE  \E f : f = [i \in 0..m |-> Keep(list, x, f, i)]
  <1> DEFINE T == {n \in Nat : \E f : f = [i \in 0..n |-> Keep(list, x, f, i)]}
  <1>1. 0 \in T
    <2> DEFINE f == [i \in 0..0 |-> <<>>]
    <2>1. \A i \in 0..0 : Keep(list, x, f, i) = <<>>
      BY DEF Keep
    <2>2. f = [i \in 0..0 |-> Keep(list, x, f, i)]
      BY <2>1
    <2> QED
      BY <2>2
  <1>2. ASSUME NEW n \in Nat, n \in T
        PROVE  n + 1 \in T
    <2>1. PICK f : f = [i \in 0..n |-> Keep(list, x, f, i)]
      BY <1>2
    <2> DEFINE g == [i \in 0..(n + 1) |-> IF i = n + 1 THEN Keep(list, x, f, i) ELSE f[i]]
    <2>2. ASSUME NEW i \in 0..(n + 1)
          PROVE  g[i] = Keep(list, x, g, i)
      <3>1. i # 0 => g[i - 1] = f[i - 1]
        OBVIOUS
      <3>2. Keep(list, x, g, i) = Keep(list, x, f, i)
        BY <3>1 DEF Keep
      <3>3. i # n + 1 => i \in 0..n
        OBVIOUS
      <3>4. i # n + 1 => f[i] = Keep(list, x, f, i)
        BY <2>1, <3>3
      <3> QED
        BY <3>2, <3>4
    <2> HIDE DEF g
    <2>3. g = [i \in 0..(n + 1) |-> g[i]]
      BY DEF g
    <2>4. g = [i \in 0..(n + 1) |-> Keep(list, x, g, i)]
      BY <2>2, <2>3
    <2> QED
      BY <2>4
  <1> HIDE DEF T
  <1>3. Nat \subseteq T
    BY <1>1, <1>2, UpFromZero
  <1> QED
    BY <1>3 DEF T

(* The peers of a datagram are addresses, and the excluded one is none of  *)
(* them.                                                                   *)
LEMMA WithoutLeavesOut ==
  ASSUME NEW S, NEW list \in Seq(S), NEW x
  PROVE  /\ Relay!Without(list, x) \in Seq(S)
         /\ \A i \in 1..Len(Relay!Without(list, x)) : Relay!Without(list, x)[i] # x
  <1> DEFINE m == Len(list)
              Rec(f) == f = [i \in 0..m |-> Keep(list, x, f, i)]
              kept == CHOOSE f : Rec(f)
  <1>1. m \in Nat
    OBVIOUS
  <1>2. Rec(kept)
    BY <1>1, KeptExists
  <1>3. Relay!Without(list, x) = kept[m]
    BY DEF Relay!Without, Keep
  <1> HIDE DEF kept
  <1>4. \A i \in 0..m : kept[i] = Keep(list, x, kept, i)
    BY <1>2
  <1> DEFINE Good(s) == s \in Seq(S) /\ \A i \in 1..Len(s) : s[i] # x
              T == {n \in Nat : n <= m => Good(kept[n])}
  <1>5. 0 \in T
    <2>1. 0 \in 0..m
      BY <1>1
    <2>2. kept[0] = <<>>
      BY <1>4, <2>1 DEF Keep
    <2>3. Good(<<>>)
      OBVIOUS
    <2> QED
      BY <2>2, <2>3
  <1>6. ASSUME NEW n \in Nat, n \in T
        PROVE  n + 1 \in T
    <2> SUFFICES ASSUME n + 1 <= m PROVE Good(kept[n + 1])
      OBVIOUS
    <2>1. Good(kept[n]) /\ n + 1 \in 1..m /\ n + 1 \in 0..m
      BY <1>1, <1>6
    <2>2. kept[n + 1] = IF list[n + 1] = x THEN kept[n] ELSE Append(kept[n], list[n + 1])
      BY <1>4, <2>1 DEF Keep
    <2>3. list[n + 1] \in S
      BY <2>1
    <2> QED
      BY <2>1, <2>2, <2>3
  <1> HIDE DEF T
  <1>7. Nat \subseteq T
    BY <1>5, <1>6, UpFromZero
  <1>8. Good(kept[m])
    BY <1>1, <1>7 DEF T
  <1> QED
    BY <1>3, <1>8

(***************************************************************************)
(* What a worker knows of the datagram at hand: the peers read for it, and *)
(* that its source is one of them in an echo test only.                    *)
(***************************************************************************)
RelayTypes ==
    /\ peers \in [Relay!Channels -> Seq(Addrs)]
    /\ addrs \in Seq(Addrs)

SourceLeftOut ==
    pc \in {"send", "sent"} =>
        relayed \in EchoChannels \/ \A i \in 1..Len(addrs) : addrs[i] # src

RelayInv == RelayTypes /\ SourceLeftOut /\ Relay!SentToThePeersRead

(* Every order of a set of addresses is a list of them. *)
LEMMA PeerListsTyped == Relay!PeerLists \subseteq Seq(Addrs)
  <1> SUFFICES ASSUME NEW A \in SUBSET Addrs, NEW list \in Relay!SetToSeqs(A)
               PROVE  list \in Seq(Addrs)
    BY DEF Relay!PeerLists
  <1>1. IsFiniteSet(Addrs)
    BY TasksAssumption DEF Relay!RelayAssumption, Relay!IsFiniteSet, IsFiniteSet
  <1>2. Cardinality(A) \in Nat
    BY <1>1, FS_Subset, FS_CardinalityType
  <1>3. Relay!Cardinality(A) = Cardinality(A)
    BY DEF Relay!Cardinality, Cardinality
  <1>4. list \in [1..Relay!Cardinality(A) -> A]
    BY DEF Relay!SetToSeqs
  <1> QED
    BY <1>2, <1>3, <1>4

(* The peers of a new datagram are read, without its source unless it is   *)
(* to be echoed.                                                           *)
LEMMA RelayReceive ==
  ASSUME RelayInv, NEW from \in Addrs, NEW c \in Relay!Channels, Relay!Receive(from, c)
  PROVE  RelayInv'
  <1>1. /\ pc' = "send" /\ src' = from /\ relayed' = c /\ peers' = peers
        /\ addrs' = Relay!Without(peers[c], Relay!Exclude(from, c))
    BY DEF Relay!Receive, Relay!FillChannelPeers
  <1>2. peers[c] \in Seq(Addrs)
    BY DEF RelayInv, RelayTypes
  <1>3. /\ addrs' \in Seq(Addrs)
        /\ \A i \in 1..Len(addrs') : addrs'[i] # Relay!Exclude(from, c)
    BY <1>1, <1>2, WithoutLeavesOut
  <1>4. c \notin EchoChannels => Relay!Exclude(from, c) = from
    BY DEF Relay!Exclude
  <1>5. RelayTypes' /\ SourceLeftOut'
    BY <1>1, <1>3, <1>4 DEF RelayInv, RelayTypes, SourceLeftOut
  <1>6. Relay!SentToThePeersRead'
    BY <1>1 DEF Relay!SentToThePeersRead
  <1> QED
    BY <1>5, <1>6 DEF RelayInv

(* The headers in use are always the peers read, so that the batch of one  *)
(* datagram never reaches the peers of another.                            *)
LEMMA RelaySend ==
  ASSUME RelayInv, Relay!SendToAll
  PROVE  RelayInv'
  <1>1. /\ pc = "send" /\ pc' = "sent"
        /\ UNCHANGED <<unreachable, peers, src, relayed, addrs>>
    BY DEF Relay!SendToAll
  <1>2. RelayTypes' /\ SourceLeftOut'
    BY <1>1 DEF RelayInv, RelayTypes, SourceLeftOut
  <1>3. Relay!Headers = addrs
    BY DEF Relay!Headers, Relay!PeerSetChanged
  <1>4. addrs \in Seq(Addrs) /\ Len(addrs) \in Nat /\ DOMAIN addrs = 1..Len(addrs)
    BY DEF RelayInv, RelayTypes
  <1> DEFINE all == Relay!ToSet(addrs)
  <1>5. /\ Relay!Batch(addrs) \subseteq all
        /\ all \intersect unreachable = {} => Relay!Batch(addrs) = all
    <2>1. Relay!Batch(addrs) \subseteq all
      BY DEF Relay!Batch, Relay!ToSet
    <2>2. ASSUME all \intersect unreachable = {}, NEW x \in all
          PROVE  x \in Relay!Batch(addrs)
      <3>1. PICK i \in DOMAIN addrs : addrs[i] = x
        BY DEF Relay!ToSet
      <3>2. \A k \in 1..i : addrs[k] \in all
        BY <1>4, <3>1 DEF Relay!ToSet
      <3>3. \A k \in 1..i : addrs[k] \notin unreachable
        BY <2>2, <3>2
      <3> QED
        BY <3>1, <3>3 DEF Relay!Batch
    <2> QED
      BY <2>1, <2>2
  <1>6. /\ Relay!OneByOne(addrs) \subseteq all
        /\ all \intersect unreachable = {} => Relay!OneByOne(addrs) = all
    BY DEF Relay!OneByOne
  <1>7. addrs = <<>> => all = {}
    BY DEF Relay!ToSet
  <1>8. src \in all => relayed \in EchoChannels
    <2> SUFFICES ASSUME src \in all PROVE relayed \in EchoChannels
      OBVIOUS
    <2>1. PICK i \in 1..Len(addrs) : addrs[i] = src
      BY <1>4 DEF Relay!ToSet
    <2> QED
      BY <1>1, <2>1 DEF RelayInv, SourceLeftOut
  <1>9. Relay!ToSet(addrs)' = all
    BY <1>1 DEF Relay!ToSet
  <1> HIDE DEF all
  <1>10. out' \subseteq all /\ (all \intersect unreachable = {} => out' = all)
    BY <1>3, <1>5, <1>6, <1>7 DEF Relay!SendToAll
  <1>11. Relay!SentToThePeersRead'
    BY <1>1, <1>8, <1>9, <1>10 DEF Relay!SentToThePeersRead
  <1> QED
    BY <1>2, <1>11 DEF RelayInv

(* Whatever the headers were built for before, and whichever peer cannot   *)
(* be reached, on every build of the relay: a datagram goes to the peers   *)
(* read for it and to nobody else, to all of them when all can be reached, *)
(* and back to its source in an echo test only.                            *)
THEOREM RelayedToPeers == Spec => []SentToThePeersRead
  <1> DEFINE Inv == part = "relay" => RelayInv
  <1>1. Init => Inv
    <2> SUFFICES ASSUME Init, part = "relay" PROVE RelayInv
      OBVIOUS
    <2>1. /\ peers = [c \in Relay!Channels |-> <<>>] /\ addrs = <<>> /\ pc = "recv"
      BY DEF Init, Relay!Init, Scenes
    <2> QED
      BY <2>1 DEF RelayInv, RelayTypes, SourceLeftOut, Relay!SentToThePeersRead
  <1>2. Inv /\ [Next]_vars => Inv'
    <2> SUFFICES ASSUME Inv, [Next]_vars, part' = "relay" PROVE RelayInv'
      OBVIOUS
    <2>1. part = "relay" /\ RelayInv
      BY DEF Next, Handle, Forward, vars
    <2>2. CASE UNCHANGED relayVars
      BY <2>1, <2>2 DEF relayVars, RelayInv, RelayTypes, SourceLeftOut,
                        Relay!SentToThePeersRead, Relay!ToSet
    <2>3. ASSUME NEW c \in Relay!Channels, NEW list \in Relay!PeerLists,
                 Relay!UpdateChannelPeers(c, list)
          PROVE  RelayInv'
      <3>1. /\ peers' = [peers EXCEPT ![c] = list]
            /\ UNCHANGED <<unreachable, pc, src, relayed, addrs, out>>
        BY <2>3 DEF Relay!UpdateChannelPeers
      <3>2. RelayTypes' /\ SourceLeftOut'
        BY <2>1, <3>1, PeerListsTyped DEF RelayInv, RelayTypes, SourceLeftOut
      <3>3. Relay!SentToThePeersRead'
        BY <2>1, <3>1 DEF RelayInv, Relay!SentToThePeersRead, Relay!ToSet
      <3> QED
        BY <3>2, <3>3 DEF RelayInv
    <2> QED
      BY <2>1, <2>2, <2>3, RelayReceive, RelaySend DEF Next, Handle, Forward, Relay!Next, vars
  <1>3. Inv => SentToThePeersRead
    BY DEF RelayInv, SentToThePeersRead
  <1> QED
    BY <1>1, <1>2, <1>3, PTL DEF Spec

=============================================================================
