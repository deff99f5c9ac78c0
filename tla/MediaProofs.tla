----------------------------- MODULE MediaProofs -----------------------------
(***************************************************************************)
(* Proofs about the audio of a call (Mixer, Capture, OutputPath): the      *)
(* levels the user interfaces are shown, the voice gate, the packets of    *)
(* paranoid mode and the level of the output, for every number of senders  *)
(* and streams, every length of pre-roll, hangover and queue, and devices  *)
(* of every rate.                                                          *)
(***************************************************************************)
EXTENDS MCMedia, Sequences, FiniteSets, FiniteSetTheorems, TLAPS

(***************************************************************************)
(* The mixer.  Levels are published when a pass of the pump has written    *)
(* some; that a prune takes no audible stream with it comes from its age:  *)
(* a stream that receives nothing waits, plays its buffer and expands for  *)
(* at most Longest frames before it goes idle.                             *)
(***************************************************************************)
Longest == MaxLead + MaxBuf + HoldFrames

\* The frames a playing stream may still render without a packet.
Left(n) == IF buf[n] > 0 THEN buf[n] + HoldFrames ELSE HoldFrames - hold[n]

MixerTypes ==
    /\ streams \subseteq Senders /\ playing \subseteq streams /\ rms \subseteq playing
    /\ buf \in [Senders -> 0..MaxBuf]
    /\ idleWait \in [Senders -> 0..MaxLead]
    /\ hold \in [Senders -> Nat] /\ ago \in [Senders -> Nat]
    /\ served \in BOOLEAN

PlaysInTime(n) ==
    n \in playing => /\ hold[n] <= HoldFrames
                     /\ ago[n] + Left(n) + (IF served THEN 1 ELSE 0) <= Longest

StartsInTime(n) ==
    (n \in streams \ playing /\ buf[n] > 0) =>
        ago[n] <= idleWait[n] /\ (served => ago[n] < MaxLead)

InTime == \A n \in Senders : PlaysInTime(n) /\ StartsInTime(n)

Published ==
    /\ pc = "select" => ~moved
    /\ ~moved => lane = rms /\ shown \subseteq rms

MixerInv == MixerTypes /\ InTime /\ Published

LEMMA MixerConstants ==
  /\ MaxLead \in Nat \ {0} /\ MaxBuf \in Nat \ {0} /\ HoldFrames \in Nat /\ Ttl \in Nat
  /\ Ttl > Longest + 1 /\ Longest \in Nat
  BY MediaAssumption DEF Mix!MixerAssumption, Longest

LEMMA MixerStarts == Mix!Init => MixerInv
  <1> SUFFICES ASSUME Mix!Init PROVE MixerInv
    OBVIOUS
  <1>1. MixerTypes
    <2>1. 0 \in 0..MaxBuf /\ 0 \in 0..MaxLead /\ Ttl \in Nat
      BY MixerConstants
    <2> QED
      BY <2>1 DEF Mix!Init, MixerTypes
  <1>2. InTime /\ Published
    BY DEF Mix!Init, InTime, PlaysInTime, StartsInTime, Published
  <1> QED
    BY <1>1, <1>2 DEF MixerInv

\* A prune leaves every playing stream where it is.
LEMMA PlayingKept ==
  ASSUME MixerInv, NEW n \in Senders
  PROVE  playing \subseteq Mix!Pruned(n) /\ Mix!Pruned(n) \subseteq streams
  <1>1. ASSUME NEW m \in playing PROVE ~Mix!Expired(m)
    <2>1. m \in Senders /\ ago[m] \in Nat /\ buf[m] \in Nat /\ hold[m] \in Nat
      BY MixerConstants DEF MixerInv, MixerTypes
    <2>2. hold[m] <= HoldFrames /\ ago[m] + Left(m) + (IF served THEN 1 ELSE 0) <= Longest
      BY <2>1 DEF MixerInv, InTime, PlaysInTime
    <2>3. Left(m) \in Nat
      BY <2>1, <2>2, MixerConstants DEF Left
    <2>4. ago[m] < Ttl
      BY <2>1, <2>2, <2>3, MixerConstants
    <2> QED
      BY <2>1, <2>4, MixerConstants DEF Mix!Expired
  <1>2. playing \subseteq streams
    BY DEF MixerInv, MixerTypes
  <1> QED
    BY <1>1, <1>2 DEF Mix!Pruned, Mix!Kept

LEMMA PacketKeeps ==
  ASSUME MixerInv, NEW n \in Senders, NEW stored \in BOOLEAN, NEW decoder \in BOOLEAN,
         Mix!Packet(n, stored, decoder)
  PROVE  MixerInv'
  <1> DEFINE new == Mix!Pruned(n) \union IF Mix!HasStream(n, decoder) THEN {n} ELSE {}
             kept(f, x) == IF x \in streams \intersect new THEN f[x] ELSE 0
             grows == stored /\ n \in new /\ kept(buf, n) < MaxBuf
  <1>1. /\ streams' = new /\ playing' = playing \intersect new /\ rms' = rms \intersect new
        /\ buf' = [[x \in Senders |-> kept(buf, x)] EXCEPT ![n] = @ + IF grows THEN 1 ELSE 0]
        /\ idleWait' = [x \in Senders |-> kept(idleWait, x)]
        /\ hold' = [x \in Senders |-> kept(hold, x)]
        /\ ago' = [ago EXCEPT ![n] = 0]
        /\ pc' = "pump"
        /\ UNCHANGED <<moved, shown, lane, served>>
    BY DEF Mix!Packet
  <1>2. playing \subseteq new /\ new \subseteq Senders /\ playing \subseteq streams
    BY PlayingKept DEF MixerInv, MixerTypes
  <1> HIDE DEF new
  <1>3. playing' = playing /\ rms' = rms
    BY <1>1, <1>2 DEF MixerInv, MixerTypes
  <1>4. ASSUME NEW x \in Senders
        PROVE  /\ kept(buf, x) \in 0..MaxBuf /\ kept(idleWait, x) \in 0..MaxLead
               /\ kept(hold, x) \in Nat
    BY MixerConstants DEF MixerInv, MixerTypes
  <1>5. ASSUME NEW x \in Senders
        PROVE  /\ buf'[x] \in 0..MaxBuf
               /\ x \in streams \intersect new =>
                      /\ idleWait'[x] = idleWait[x] /\ hold'[x] = hold[x]
                      /\ x # n => buf'[x] = buf[x]
               /\ x \notin streams \intersect new =>
                      idleWait'[x] = 0 /\ hold'[x] = 0 /\ (x # n => buf'[x] = 0)
    <2>1. /\ buf'[x] = IF x = n THEN kept(buf, x) + (IF grows THEN 1 ELSE 0) ELSE kept(buf, x)
          /\ idleWait'[x] = kept(idleWait, x) /\ hold'[x] = kept(hold, x)
      BY <1>1
    <2>2. buf'[x] \in 0..MaxBuf
      BY <1>4, <2>1, MixerConstants
    <2> QED
      BY <2>1, <2>2
  <1>6. MixerTypes'
    <2>1. buf' \in [Senders -> 0..MaxBuf]
      <3>1. buf' = [x \in Senders |-> buf'[x]]
        BY <1>1
      <3> QED
        BY <1>5, <3>1
    <2>2. idleWait' \in [Senders -> 0..MaxLead] /\ hold' \in [Senders -> Nat]
      BY <1>1, <1>4
    <2> QED
      BY <1>1, <1>2, <1>3, <2>1, <2>2 DEF MixerInv, MixerTypes
  <1>7. ASSUME NEW x \in Senders PROVE PlaysInTime(x)' /\ StartsInTime(x)'
    <2>1. CASE x = n
      <3>1. ago'[x] = 0 /\ idleWait'[x] \in Nat /\ hold'[x] \in Nat /\ served' \in BOOLEAN
        BY <1>1, <1>6, <2>1, MixerConstants DEF MixerInv, MixerTypes
      <3>2. buf'[x] \in 0..MaxBuf
        BY <1>5
      <3>3. x \in playing' => hold'[x] <= HoldFrames
        <4>1. x \in playing' => x \in streams \intersect new /\ hold[x] <= HoldFrames
          BY <1>2, <1>3 DEF MixerInv, InTime, PlaysInTime
        <4> QED
          BY <1>5, <4>1
      <3>4. x \in playing' => Left(x)' + 1 <= Longest /\ Left(x)' \in Nat
        BY <3>1, <3>2, <3>3, MixerConstants DEF Left, Longest
      <3> QED
        BY <3>1, <3>3, <3>4, MixerConstants DEF PlaysInTime, StartsInTime
    <2>2. CASE x # n
      <3>1. ago'[x] = ago[x] /\ served' = served
        BY <1>1, <2>2 DEF MixerInv, MixerTypes
      <3>2. CASE x \in streams \intersect new
        <4>1. buf'[x] = buf[x] /\ hold'[x] = hold[x] /\ idleWait'[x] = idleWait[x]
          BY <1>5, <2>2, <3>2
        <4> QED
          BY <1>3, <3>1, <3>2, <4>1 DEF MixerInv, InTime, PlaysInTime, StartsInTime, Left
      <3>3. CASE x \notin streams \intersect new
        <4>1. buf'[x] = 0 /\ x \notin playing'
          BY <1>2, <1>3, <1>5, <2>2, <3>3
        <4> QED
          BY <4>1 DEF PlaysInTime, StartsInTime
      <3> QED
        BY <3>2, <3>3
    <2> QED
      BY <2>1, <2>2
  <1>8. Published'
    BY <1>1, <1>3 DEF MixerInv, Published
  <1> QED
    BY <1>6, <1>7, <1>8 DEF MixerInv, InTime

LEMMA RenderKeeps ==
  ASSUME MixerInv, NEW lead \in 1..MaxLead, NEW loud \in SUBSET Senders,
         Mix!RenderFrame(lead, loud)
  PROVE  MixerInv'
  <1> DEFINE after == Mix!PlayingAfter(lead)
  <1>1. /\ loud \subseteq after /\ playing' = after
        /\ rms' = (rms \ playing) \union loud
        /\ buf' = [n \in Senders |-> IF n \in after /\ buf[n] > 0 THEN buf[n] - 1 ELSE buf[n]]
        /\ hold' = [n \in Senders |-> IF n \in after /\ buf[n] = 0 THEN hold[n] + 1 ELSE 0]
        /\ idleWait' = [n \in Senders |->
                           IF n \in after \/ buf[n] = 0 THEN 0 ELSE idleWait[n]]
        /\ moved' = (moved \/ after \union playing # {})
        /\ served' = TRUE /\ pc' # "select"
        /\ UNCHANGED <<streams, ago, shown, lane>>
    BY DEF Mix!RenderFrame, Mix!LevelsWritten
  <1>2. /\ after \subseteq streams
        /\ \A n \in streams : n \in after <=>
               \/ n \notin playing /\ buf[n] > 0 /\ (buf[n] >= lead \/ idleWait[n] >= lead)
               \/ n \in playing /\ ~(buf[n] = 0 /\ hold[n] >= HoldFrames)
    BY DEF Mix!PlayingAfter, Mix!Starts, Mix!GoesIdle
  <1> HIDE DEF after
  <1>3. ASSUME NEW n \in Senders
        PROVE  /\ buf[n] \in 0..MaxBuf /\ hold[n] \in Nat /\ idleWait[n] \in 0..MaxLead
               /\ ago[n] \in Nat
    BY DEF MixerInv, MixerTypes
  <1>4. MixerTypes'
    <2>1. buf' \in [Senders -> 0..MaxBuf]
      BY <1>1, <1>3, MixerConstants
    <2>2. hold' \in [Senders -> Nat] /\ idleWait' \in [Senders -> 0..MaxLead]
      BY <1>1, <1>3, MixerConstants
    <2>3. rms' \subseteq playing'
      BY <1>1 DEF MixerInv, MixerTypes
    <2> QED
      BY <1>1, <1>2, <2>1, <2>2, <2>3 DEF MixerInv, MixerTypes
  <1>5. ASSUME NEW n \in Senders, n \in after PROVE PlaysInTime(n)'
    <2>1. hold'[n] = (IF buf[n] = 0 THEN hold[n] + 1 ELSE 0)
          /\ buf'[n] = (IF buf[n] > 0 THEN buf[n] - 1 ELSE buf[n])
          /\ ago'[n] = ago[n] /\ served'
      BY <1>1, <1>5
    <2>2. CASE n \in playing
      <3>1. hold[n] <= HoldFrames /\ ago[n] + Left(n) + (IF served THEN 1 ELSE 0) <= Longest
        BY <2>2 DEF MixerInv, InTime, PlaysInTime
      <3>2. buf[n] > 0 \/ hold[n] < HoldFrames
        BY <1>2, <1>3, <1>5, <2>2, MixerConstants
      <3>3. Left(n) \in Nat /\ Left(n)' = Left(n) - 1 /\ hold'[n] <= HoldFrames
        BY <1>3, <2>1, <3>1, <3>2, MixerConstants DEF Left
      <3>4. ago[n] + Left(n) <= Longest
        BY <1>3, <3>1, <3>3, MixerConstants
      <3>5. ago'[n] + Left(n)' + 1 <= Longest
        BY <1>3, <2>1, <3>3, <3>4, MixerConstants
      <3> QED
        BY <2>1, <3>3, <3>5 DEF PlaysInTime
    <2>3. CASE n \notin playing
      <3>1. n \in streams \ playing /\ buf[n] > 0
        BY <1>2, <1>5, <2>3
      <3>2. ago[n] <= MaxLead
        BY <1>3, <3>1, MixerConstants DEF MixerInv, InTime, StartsInTime
      <3>3. hold'[n] = 0 /\ Left(n)' = buf[n] - 1 + HoldFrames
        BY <1>3, <2>1, <3>1, MixerConstants DEF Left
      <3>4. ago'[n] + Left(n)' + 1 <= Longest
        BY <1>3, <2>1, <3>2, <3>3, MixerConstants DEF Longest
      <3> QED
        BY <2>1, <3>3, <3>4, MixerConstants DEF PlaysInTime
    <2> QED
      BY <2>2, <2>3
  <1>6. ASSUME NEW n \in Senders, n \in streams \ after, buf'[n] > 0
        PROVE  ago'[n] <= idleWait'[n] /\ ago'[n] < MaxLead
    <2>1. buf[n] > 0 /\ idleWait'[n] = idleWait[n] /\ ago'[n] = ago[n]
      BY <1>1, <1>3, <1>6
    <2>2. n \notin playing /\ idleWait[n] < lead
      BY <1>2, <1>3, <1>6, <2>1
    <2>3. ago[n] <= idleWait[n]
      BY <1>6, <2>1, <2>2 DEF MixerInv, InTime, StartsInTime
    <2> QED
      BY <1>3, <2>1, <2>2, <2>3, MixerConstants
  <1>7. InTime'
    BY <1>1, <1>5, <1>6 DEF InTime, PlaysInTime, StartsInTime
  <1>8. Published'
    <2>1. rms \subseteq playing
      BY DEF MixerInv, MixerTypes
    <2> QED
      BY <1>1, <2>1 DEF MixerInv, Published
  <1> QED
    BY <1>4, <1>7, <1>8 DEF MixerInv

\* A frame's time in which the tick is armed has had its frame rendered.
LEMMA TimeKeeps ==
  ASSUME MixerInv, Mix!TimePasses
  PROVE  MixerInv'
  <1>1. /\ ago' = [n \in Senders |-> IF ago[n] < Ttl THEN ago[n] + 1 ELSE Ttl]
        /\ idleWait' = [n \in Senders |->
                           IF n \in streams \ playing /\ buf[n] > 0 /\ idleWait[n] < MaxLead
                           THEN idleWait[n] + 1 ELSE idleWait[n]]
        /\ served' = FALSE
        /\ UNCHANGED <<streams, playing, buf, hold, rms, moved, shown, lane, pc>>
        /\ served \/ (playing = {} /\ \A n \in streams : ~(buf[n] > 0))
    BY DEF Mix!TimePasses, Mix!Active
  <1>2. ASSUME NEW n \in Senders
        PROVE  /\ buf[n] \in 0..MaxBuf /\ hold[n] \in Nat /\ idleWait[n] \in 0..MaxLead
               /\ ago[n] \in Nat /\ ago'[n] \in Nat /\ ago'[n] <= ago[n] + 1
               /\ idleWait'[n] \in 0..MaxLead
    BY <1>1, MixerConstants DEF MixerInv, MixerTypes
  <1>3. MixerTypes'
    <2>1. ago' \in [Senders -> Nat] /\ idleWait' \in [Senders -> 0..MaxLead]
      BY <1>1, <1>2
    <2> QED
      BY <1>1, <2>1 DEF MixerInv, MixerTypes
  <1>4. ASSUME NEW n \in Senders, n \in playing PROVE PlaysInTime(n)'
    <2>1. served
      BY <1>1, <1>4
    <2>2. hold[n] <= HoldFrames /\ ago[n] + Left(n) + 1 <= Longest
      BY <1>4, <2>1 DEF MixerInv, InTime, PlaysInTime
    <2>3. Left(n) \in Nat /\ Left(n)' = Left(n)
      BY <1>1, <1>2, <2>2, MixerConstants DEF Left
    <2>4. ago'[n] + Left(n)' <= Longest
      BY <1>2, <2>2, <2>3, MixerConstants
    <2>5. ago'[n] + Left(n)' + (IF served' THEN 1 ELSE 0) <= Longest
      BY <1>1, <1>2, <2>3, <2>4
    <2> QED
      BY <1>1, <2>2, <2>5 DEF PlaysInTime
  <1>5. ASSUME NEW n \in Senders, n \in streams \ playing, buf[n] > 0
        PROVE  ago'[n] <= idleWait'[n]
    <2>1. served
      BY <1>1, <1>5
    <2>2. ago[n] <= idleWait[n] /\ ago[n] < MaxLead
      BY <1>5, <2>1 DEF MixerInv, InTime, StartsInTime
    <2> QED
      BY <1>1, <1>2, <1>5, <2>2, MixerConstants
  <1>6. InTime'
    BY <1>1, <1>4, <1>5 DEF InTime, PlaysInTime, StartsInTime
  <1>7. Published'
    BY <1>1 DEF MixerInv, Published
  <1> QED
    BY <1>3, <1>6, <1>7 DEF MixerInv

LEMMA MixerStep ==
  ASSUME MixerInv, [Mix!Next]_mixerVars
  PROVE  MixerInv'
  <1> USE DEF MixerInv, MixerTypes, InTime, PlaysInTime, StartsInTime, Left, Published
  <1>1. CASE Mix!PlayoutTick \/ Mix!OutputFull \/ Mix!Publish \/ Mix!PollSpeakers
             \/ UNCHANGED mixerVars
    <2>1. UNCHANGED <<streams, playing, buf, idleWait, hold, rms, ago, served>>
      BY <1>1 DEF Mix!PlayoutTick, Mix!OutputFull, Mix!Publish, Mix!PollSpeakers, Mix!engine,
                  mixerVars
    <2>2. MixerTypes' /\ InTime'
      BY <2>1
    <2>3. Published'
      BY <1>1, <2>1 DEF Mix!PlayoutTick, Mix!OutputFull, Mix!Publish, Mix!PollSpeakers, mixerVars
    <2> QED
      BY <2>2, <2>3
  <1>2. CASE Mix!TimePasses
    BY <1>2, TimeKeeps
  <1>3. CASE Mix!SomeRender
    BY <1>3, RenderKeeps DEF Mix!SomeRender
  <1>4. CASE \E n \in Senders, stored, decoder \in BOOLEAN : Mix!Packet(n, stored, decoder)
    BY <1>4, PacketKeeps
  <1> QED
    BY <1>1, <1>2, <1>3, <1>4 DEF Mix!Next

(* Between two passes of the pump the user interfaces see exactly the      *)
(* senders whose last frame was audible, for any number of senders,        *)
(* streams and packets: publish_levels runs after every pass that wrote a  *)
(* level, and prune only takes streams that have gone idle.                *)
THEOREM LevelsAreCurrent == Spec => []LevelsCurrent
  <1>1. Init => MixerInv
    BY MixerStarts DEF Init
  <1>2. MixerInv /\ [Next]_vars => MixerInv'
    <2> SUFFICES ASSUME MixerInv, [Next]_vars PROVE MixerInv'
      OBVIOUS
    <2>1. [Mix!Next]_mixerVars
      BY DEF Next, Speak, Play, Listen, vars, mixerVars
    <2> QED
      BY <2>1, MixerStep
  <1>3. MixerInv => LevelsCurrent
    BY DEF MixerInv, Published, LevelsCurrent, Mix!LevelsCurrent
  <1> QED
    BY <1>1, <1>2, <1>3, PTL DEF Spec

-----------------------------------------------------------------------------
(***************************************************************************)
(* The capture thread.                                                     *)
(***************************************************************************)
Packet == [frame : Nat, silence : BOOLEAN]
SentPacket == [seq : Nat, frame : Nat, silence : BOOLEAN]
Moment == [muted : BOOLEAN, paranoid : BOOLEAN]
AtGate == [frame : Nat, loud : BOOLEAN]

CallTypes(c) ==
    /\ mic \in Seq(BOOLEAN)
    /\ DOMAIN flags = {"muted", "paranoid", "vad"}
    /\ \A x \in DOMAIN flags : flags[x] \in BOOLEAN
    /\ slots \in [0..(Preroll[c] - 1) -> Nat]
    /\ start \in 0..(Preroll[c] - 1) /\ len \in 0..Preroll[c]
    /\ hangover \in 0..Hangover[c]
    /\ taken \in Seq(Moment) /\ gated \in Seq(AtGate)
    /\ todo \in Seq(Packet) /\ sent \in Seq(SentPacket)
    /\ sequence = Len(sent) + 1

\* A packet, or a failure, is of a frame that was taken.
FramesTaken ==
    /\ \A i \in 1..Len(sent) : sent[i].frame \in 1..Len(taken)
    /\ \A i \in 1..Len(todo) : todo[i].frame \in 1..Len(taken)
    /\ failed \subseteq 1..Len(taken)

GateFrame(i) == gated[i].frame

\* The frames that reached the gate, in the order they were taken.
GatedTaken ==
    /\ \A i \in 1..Len(gated) :
           /\ GateFrame(i) \in 1..Len(taken)
           /\ ~taken[GateFrame(i)].muted /\ ~taken[GateFrame(i)].paranoid
    /\ \A i, j \in 1..Len(gated) : i < j => GateFrame(i) < GateFrame(j)

\* The slot k places behind the slot a of a ring of p.
Place(p, a, k) == (a + k) % p

\* The ring holds the last `len' of them.
RingHolds(c) ==
    /\ len <= Len(gated)
    /\ \A i \in 1..len :
           slots[Place(Preroll[c], start, i - 1)] = GateFrame(Len(gated) - len + i)

CallInv(c) == CallTypes(c) /\ FramesTaken /\ GatedTaken /\ RingHolds(c)

LEMMA CallConstants ==
  ASSUME NEW c \in Calls
  PROVE  /\ Preroll[c] \in Nat \ {0} /\ Hangover[c] \in Nat /\ Paranoid[c] \in BOOLEAN
         /\ Switches[c] \subseteq {"muted", "paranoid", "vad"}
  BY MediaAssumption DEF Sending!CaptureAssumption

\* A place in a ring, without the remainder.
LEMMA RingPlace ==
  ASSUME NEW p \in Nat \ {0}, NEW a \in 0..(p - 1), NEW k \in 0..p
  PROVE  Place(p, a, k) = IF a + k < p THEN a + k ELSE a + k - p
  BY DEF Place

\* Going round the ring: distinct places for p steps, then the same again.
LEMMA RingTurns ==
  ASSUME NEW p \in Nat \ {0}, NEW a \in 0..(p - 1)
  PROVE  /\ \A k \in 0..p : Place(p, a, k) \in 0..(p - 1)
         /\ \A k \in 0..(p - 1) : Place(p, Place(p, a, 1), k) = Place(p, a, k + 1)
         /\ Place(p, a, p) = Place(p, a, 0)
         /\ \A i, k \in 0..(p - 1) : i # k => Place(p, a, i) # Place(p, a, k)
  <1>1. \A k \in 0..p : Place(p, a, k) = IF a + k < p THEN a + k ELSE a + k - p
    BY RingPlace
  <1>2. \A k \in 0..p : Place(p, a, k) \in 0..(p - 1)
    BY <1>1
  <1>3. ASSUME NEW k \in 0..(p - 1)
        PROVE  Place(p, Place(p, a, 1), k) = Place(p, a, k + 1)
    <2>1. PICK b : b = Place(p, a, 1)
      OBVIOUS
    <2>2. 1 \in 0..p /\ k \in 0..p /\ k + 1 \in 0..p
      OBVIOUS
    <2>3. b \in 0..(p - 1) /\ b = IF a + 1 < p THEN a + 1 ELSE a + 1 - p
      BY <1>1, <1>2, <2>1, <2>2
    <2>4. Place(p, b, k) = IF b + k < p THEN b + k ELSE b + k - p
      BY <2>2, <2>3, RingPlace
    <2>5. Place(p, a, k + 1) = IF a + (k + 1) < p THEN a + (k + 1) ELSE a + (k + 1) - p
      BY <1>1, <2>2
    <2> QED
      BY <2>1, <2>3, <2>4, <2>5
  <1>4. Place(p, a, p) = Place(p, a, 0)
    <2>1. 0 \in 0..p /\ p \in 0..p
      OBVIOUS
    <2>2. Place(p, a, p) = (IF a + p < p THEN a + p ELSE a + p - p) /\
          Place(p, a, 0) = (IF a + 0 < p THEN a + 0 ELSE a + 0 - p)
      BY <1>1, <2>1
    <2> QED
      BY <2>2
  <1>5. ASSUME NEW i \in 0..(p - 1), NEW k \in 0..(p - 1), i # k
        PROVE  Place(p, a, i) # Place(p, a, k)
    <2>1. i \in 0..p /\ k \in 0..p
      OBVIOUS
    <2>2. Place(p, a, i) = (IF a + i < p THEN a + i ELSE a + i - p) /\
          Place(p, a, k) = (IF a + k < p THEN a + k ELSE a + k - p)
      BY <1>1, <2>1
    <2> QED
      BY <1>5, <2>2
  <1> QED
    BY <1>2, <1>3, <1>4, <1>5

LEMMA AsSequence ==
  ASSUME NEW S, NEW n \in Nat, NEW q \in [1..n -> S]
  PROVE  q \in Seq(S) /\ Len(q) = n
  OBVIOUS

LEMMA HeadOff ==
  ASSUME NEW S, NEW q \in Seq(S), q # <<>>
  PROVE  /\ Len(q) \in Nat \ {0} /\ Head(q) = q[1] /\ Head(q) \in S
         /\ Tail(q) \in Seq(S) /\ Len(Tail(q)) = Len(q) - 1
         /\ \A i \in 1..Len(Tail(q)) : Tail(q)[i] = q[i + 1]
  OBVIOUS

LEMMA PutLast ==
  ASSUME NEW S, NEW q \in Seq(S), NEW x \in S
  PROVE  /\ Append(q, x) \in Seq(S) /\ Len(Append(q, x)) = Len(q) + 1
         /\ \A i \in 1..Len(q) : Append(q, x)[i] = q[i]
         /\ Append(q, x)[Len(q) + 1] = x
  OBVIOUS

(***************************************************************************)
(* What a step does to the frames.                                         *)
(***************************************************************************)
preroll == <<slots, start, len>>

Elsewhere == UNCHANGED <<preroll, hangover, sequence, todo, taken, gated, sent, failed>>

Handed ==
    /\ todo # <<>> /\ todo' = Tail(todo)
    /\ sent' = Append(sent, [seq |-> sequence, frame |-> Head(todo).frame,
                             silence |-> Head(todo).silence])
    /\ sequence' = sequence + 1
    /\ UNCHANGED <<preroll, hangover, taken, gated, failed>>

Skipped ==
    /\ todo # <<>> /\ todo' = Tail(todo)
    /\ failed' = failed \union {Head(todo).frame}
    /\ UNCHANGED <<preroll, hangover, taken, gated, sent, sequence>>

Taken ==
    /\ todo = <<>>
    /\ taken' = Append(taken, [muted |-> flags.muted, paranoid |-> flags.paranoid])
    /\ UNCHANGED <<sequence, sent, failed>>

\* Mute and paranoid mode: not a matter of the gate.
PastTheGate(f) ==
    /\ flags.muted \/ flags.paranoid
    /\ \/ todo' = <<>> /\ flags.muted /\ ~flags.paranoid
       \/ \E p \in Packet : /\ todo' = <<p>> /\ p.frame = f
                            /\ flags.muted => p.silence
    /\ UNCHANGED <<preroll, hangover, gated>>

Reaches(c, f, loud) ==
    /\ ~flags.muted /\ ~flags.paranoid
    /\ gated' = Append(gated, [frame |-> f, loud |-> loud])
    /\ hangover' = Sending(c)!HangoverAfter(loud)

Withheld(c, f, loud) ==
    /\ Reaches(c, f, loud) /\ ~Sending(c)!PassVad(loud)
    /\ Sending(c)!PrerollPush(f)
    /\ todo' = <<>>

Passed(c, f, loud) ==
    /\ Reaches(c, f, loud) /\ Sending(c)!PassVad(loud)
    /\ todo' = Append(Sending(c)!Flushed, Sending(c)!Audio(f))
    /\ start' = 0 /\ len' = 0 /\ slots' = slots

FrameStep(c) ==
    \/ Elsewhere
    \/ Handed
    \/ Skipped
    \/ /\ Taken
       /\ \/ PastTheGate(Len(taken) + 1)
          \/ \E loud \in BOOLEAN : \/ Withheld(c, Len(taken) + 1, loud)
                                   \/ Passed(c, Len(taken) + 1, loud)

Inputs ==
    /\ mic' \in Seq(BOOLEAN)
    /\ DOMAIN flags' = DOMAIN flags /\ \A x \in DOMAIN flags : flags'[x] \in BOOLEAN

LEMMA FrameSteps ==
  ASSUME NEW c \in Calls, CallInv(c), [Sending(c)!Next]_captureVars
  PROVE  FrameStep(c) /\ Inputs /\ ("vad" \notin Switches[c] => flags'.vad = flags.vad)
  <1> USE DEF Inputs
  <1>0. /\ mic \in Seq(BOOLEAN) /\ DOMAIN flags = {"muted", "paranoid", "vad"}
        /\ \A x \in DOMAIN flags : flags[x] \in BOOLEAN
    BY DEF CallInv, CallTypes
  <1>1. CASE UNCHANGED captureVars
    BY <1>0, <1>1 DEF captureVars, FrameStep, Elsewhere, preroll
  <1>2. ASSUME NEW loud \in BOOLEAN, Sending(c)!DeviceFrame(loud)
        PROVE  FrameStep(c) /\ Inputs /\ flags' = flags
    <2>1. mic' \in Seq(BOOLEAN)
      <3>1. Append(mic, loud) \in Seq(BOOLEAN)
        BY <1>0
      <3>2. mic' = mic \/ mic' = Append(mic, loud)
        BY <1>2 DEF Sending!DeviceFrame
      <3> QED
        BY <1>0, <3>1, <3>2
    <2> QED
      BY <1>0, <1>2, <2>1 DEF Sending!DeviceFrame, Sending!prerollVars, FrameStep, Elsewhere, preroll
  <1>3. ASSUME NEW s \in Switches[c], Sending(c)!Flip(s)
        PROVE  /\ FrameStep(c) /\ Inputs
               /\ "vad" \notin Switches[c] => flags'.vad = flags.vad
    <2>1. flags' = [flags EXCEPT ![s] = ~flags[s]] /\ mic' = mic
      BY <1>3 DEF Sending!Flip
    <2>2. s \in DOMAIN flags
      BY <1>0, CallConstants
    <2>3. Inputs /\ ("vad" \notin Switches[c] => flags'.vad = flags.vad)
      BY <1>0, <2>1, <2>2
    <2> QED
      BY <1>3, <2>3 DEF Sending!Flip, Sending!prerollVars, FrameStep, Elsewhere, preroll
  <1>4. CASE Sending(c)!LeaveLoop \/ Sending(c)!UdpSend \/ Sending(c)!DropHandle
    BY <1>0, <1>4 DEF Sending!LeaveLoop, Sending!UdpSend, Sending!DropHandle,
       Sending!prerollVars, FrameStep, Elsewhere, preroll
  <1>5. CASE Sending(c)!SendOne
    BY <1>0, <1>5 DEF Sending!SendOne, Sending!prerollVars, FrameStep, Handed, preroll
  <1>6. CASE Sending(c)!EncodeFails
    BY <1>0, <1>6 DEF Sending!EncodeFails, Sending!prerollVars, FrameStep, Skipped, preroll
  <1>7. CASE Sending(c)!TakeFrame
    <2> DEFINE f == Len(taken) + 1
    <2>1. /\ mic # <<>> /\ mic' = Tail(mic) /\ flags' = flags /\ Taken
          /\ \/ Sending(c)!MutedFrame(f) \/ Sending(c)!ParanoidFrame(f)
             \/ Sending(c)!GatedFrame(f, Head(mic)) \/ Sending(c)!VoicedFrame(f, Head(mic))
      BY <1>7 DEF Sending!TakeFrame, Sending!Idle, Taken
    <2>2. Head(mic) \in BOOLEAN /\ mic' \in Seq(BOOLEAN)
      BY <1>0, <2>1, HeadOff
    <2>3. f \in Nat
      BY DEF CallInv, CallTypes
    <2> HIDE DEF f
    <2>4. Sending(c)!Silence(f) \in Packet /\ Sending(c)!Audio(f) \in Packet
      BY <2>3 DEF Sending!Silence, Sending!Audio, Packet
    <2>5. CASE Sending(c)!MutedFrame(f)
      <3>1. PastTheGate(f)
        BY <2>4, <2>5 DEF Sending!MutedFrame, Sending!prerollVars, PastTheGate, Sending!Silence, preroll
      <3> QED
        BY <1>0, <2>1, <2>2, <3>1 DEF FrameStep, f
    <2>6. CASE Sending(c)!ParanoidFrame(f)
      <3>1. PastTheGate(f)
        BY <2>4, <2>6 DEF Sending!ParanoidFrame, Sending!prerollVars, PastTheGate, Sending!Audio, preroll
      <3> QED
        BY <1>0, <2>1, <2>2, <3>1 DEF FrameStep, f
    <2>7. CASE Sending(c)!GatedFrame(f, Head(mic))
      <3>1. Withheld(c, f, Head(mic))
        BY <2>7 DEF Sending!GatedFrame, Withheld, Reaches
      <3> QED
        BY <1>0, <2>1, <2>2, <3>1 DEF FrameStep, f
    <2>8. CASE Sending(c)!VoicedFrame(f, Head(mic))
      <3>1. Passed(c, f, Head(mic))
        BY <2>8 DEF Sending!VoicedFrame, Sending!PrerollReset, Passed, Reaches
      <3> QED
        BY <1>0, <2>1, <2>2, <3>1 DEF FrameStep, f
    <2> QED
      BY <2>1, <2>5, <2>6, <2>7, <2>8
  <1> QED
    BY <1>0, <1>1, <1>2, <1>3, <1>4, <1>5, <1>6, <1>7 DEF Sending!Next

\* A flush is the ring, oldest first, and the frame that opened the gate.
LEMMA Flush ==
  ASSUME NEW c \in Calls, CallInv(c), NEW f \in Nat, NEW loud \in BOOLEAN, Passed(c, f, loud)
  PROVE  /\ todo' \in Seq(Packet) /\ Len(todo') = len + 1
         /\ \A i \in 1..len : /\ todo'[i].frame = GateFrame(Len(gated) - len + i)
                              /\ todo'[i].silence = FALSE
         /\ todo'[len + 1].frame = f /\ todo'[len + 1].silence = FALSE
  <1> DEFINE flush == Sending(c)!Flushed
             last == Sending(c)!Audio(f)
  <1>1. len \in Nat /\ len <= Len(gated) /\ len \in 0..Preroll[c] /\ start \in 0..(Preroll[c] - 1)
    BY CallConstants DEF CallInv, CallTypes, RingHolds
  <1>2. flush = [i \in 1..len |-> Sending(c)!Audio(slots[Place(Preroll[c], start, i - 1)])]
    BY DEF Sending!Flushed, Sending!Buffered, Sending!Slot, Place
  <1>3. last \in Packet /\ last.frame = f /\ last.silence = FALSE
    BY DEF Sending!Audio, Packet
  <1>4. ASSUME NEW i \in 1..len
        PROVE  /\ flush[i] \in Packet /\ flush[i].silence = FALSE
               /\ flush[i].frame = GateFrame(Len(gated) - len + i)
    <2>1. slots[Place(Preroll[c], start, i - 1)] = GateFrame(Len(gated) - len + i)
      BY DEF CallInv, RingHolds
    <2>2. Len(gated) - len + i \in 1..Len(gated)
      BY <1>1, SMTT(30) DEF CallInv, CallTypes
    <2>3. GateFrame(Len(gated) - len + i) \in Nat
      <3>1. \A k \in 1..Len(gated) : gated[k] \in AtGate
        BY DEF CallInv, CallTypes
      <3> QED
        BY <2>2, <3>1 DEF GateFrame, AtGate
    <2> QED
      BY <1>2, <2>1, <2>3 DEF Sending!Audio, Packet
  <1> HIDE DEF flush, last
  <1>5. flush \in Seq(Packet) /\ Len(flush) = len
    <2>1. flush \in [1..len -> Packet]
      BY <1>2, <1>4
    <2> QED
      BY <1>1, <2>1, AsSequence
  <1>6. todo' = Append(flush, last)
    BY DEF Passed, flush, last
  <1>7. /\ Append(flush, last) \in Seq(Packet) /\ Len(Append(flush, last)) = len + 1
        /\ \A i \in 1..len : Append(flush, last)[i] = flush[i]
        /\ Append(flush, last)[len + 1] = last
    BY <1>3, <1>5, PutLast
  <1> QED
    BY <1>3, <1>4, <1>6, <1>7

\* One more frame behind the others.
LEMMA GatePush ==
  ASSUME NEW c \in Calls, CallInv(c), NEW loud \in BOOLEAN, Taken,
         Reaches(c, Len(taken) + 1, loud)
  PROVE  /\ Len(gated') = Len(gated) + 1 /\ gated' \in Seq(AtGate)
         /\ \A i \in 1..Len(gated) : gated'[i] = gated[i]
         /\ gated'[Len(gated) + 1] = [frame |-> Len(taken) + 1, loud |-> loud]
         /\ Len(taken') = Len(taken) + 1 /\ taken' \in Seq(Moment)
         /\ \A i \in 1..Len(taken) : taken'[i] = taken[i]
         /\ taken'[Len(taken) + 1] = [muted |-> flags.muted, paranoid |-> flags.paranoid]
         /\ GatedTaken'
  <1>1. [frame |-> Len(taken) + 1, loud |-> loud] \in AtGate
    BY DEF AtGate, CallInv, CallTypes
  <1>2. [muted |-> flags.muted, paranoid |-> flags.paranoid] \in Moment
    BY DEF Moment, CallInv, CallTypes
  <1>3. /\ Len(gated') = Len(gated) + 1 /\ gated' \in Seq(AtGate)
        /\ \A i \in 1..Len(gated) : gated'[i] = gated[i]
        /\ gated'[Len(gated) + 1] = [frame |-> Len(taken) + 1, loud |-> loud]
    BY <1>1, PutLast DEF Reaches, CallInv, CallTypes
  <1>4. /\ Len(taken') = Len(taken) + 1 /\ taken' \in Seq(Moment)
        /\ \A i \in 1..Len(taken) : taken'[i] = taken[i]
        /\ taken'[Len(taken) + 1] = [muted |-> flags.muted, paranoid |-> flags.paranoid]
    BY <1>2, PutLast DEF Taken, CallInv, CallTypes
  <1>5. Len(gated) \in Nat /\ Len(taken) \in Nat
    BY DEF CallInv, CallTypes
  <1>6. ASSUME NEW i \in 1..Len(gated')
        PROVE  /\ gated'[i].frame \in 1..Len(taken')
               /\ ~taken'[gated'[i].frame].muted /\ ~taken'[gated'[i].frame].paranoid
    <2>1. CASE i \in 1..Len(gated)
      <3>1. /\ gated[i].frame \in 1..Len(taken)
            /\ ~taken[gated[i].frame].muted /\ ~taken[gated[i].frame].paranoid
        BY <2>1 DEF CallInv, GatedTaken, GateFrame
      <3>2. gated'[i] = gated[i] /\ taken'[gated[i].frame] = taken[gated[i].frame]
        BY <1>3, <1>4, <2>1, <3>1
      <3>3. gated[i].frame \in 1..Len(taken')
        BY <1>4, <1>5, <3>1
      <3> QED
        BY <3>1, <3>2, <3>3
    <2>2. CASE i = Len(gated) + 1
      BY <1>3, <1>4, <1>5, <2>2 DEF Reaches
    <2> QED
      BY <1>3, <1>5, <2>1, <2>2
  <1>7. ASSUME NEW i \in 1..Len(gated'), NEW j \in 1..Len(gated'), i < j
        PROVE  gated'[i].frame < gated'[j].frame
    <2>1. i \in 1..Len(gated) /\ gated'[i].frame \in 1..Len(taken)
      BY <1>3, <1>5, <1>7 DEF CallInv, GatedTaken, GateFrame
    <2>2. CASE j \in 1..Len(gated)
      BY <1>3, <1>7, <2>1, <2>2 DEF CallInv, GatedTaken, GateFrame
    <2>3. CASE j = Len(gated) + 1
      BY <1>3, <1>5, <2>1, <2>3
    <2> QED
      BY <1>3, <1>5, <2>2, <2>3
  <1>8. GatedTaken'
    BY <1>6, <1>7 DEF GatedTaken, GateFrame
  <1> QED
    BY <1>3, <1>4, <1>8

\* The ring s of p slots holds, from the slot a, the last m of n frames g.
Lasts(p, a, m, n, s, g) == \A i \in 1..m : s[Place(p, a, i - 1)] = g[n - m + i]

\* A push overwrites the oldest frame of a full ring.
LEMMA LastOnes ==
  ASSUME NEW p \in Nat \ {0}, NEW a \in 0..(p - 1), NEW m \in 0..p, NEW n \in Nat, m <= n,
         NEW s \in [0..(p - 1) -> Nat], NEW g, NEW f \in Nat, g[n + 1] = f,
         Lasts(p, a, m, n, s, g), NEW t, t = [s EXCEPT ![Place(p, a, m)] = f]
  PROVE  /\ t \in [0..(p - 1) -> Nat]
         /\ m = p => /\ Place(p, a, 1) \in 0..(p - 1)
                     /\ Lasts(p, Place(p, a, 1), m, n + 1, t, g)
         /\ m # p => Lasts(p, a, m + 1, n + 1, t, g)
  <1>1. /\ \A k \in 0..p : Place(p, a, k) \in 0..(p - 1)
        /\ \A k \in 0..(p - 1) : Place(p, Place(p, a, 1), k) = Place(p, a, k + 1)
        /\ Place(p, a, p) = Place(p, a, 0)
        /\ \A i, k \in 0..(p - 1) : i # k => Place(p, a, i) # Place(p, a, k)
    BY RingTurns
  <1>2. Place(p, a, m) \in 0..(p - 1)
    BY <1>1
  <1>3. t \in [0..(p - 1) -> Nat] /\ t[Place(p, a, m)] = f
    BY <1>2
  <1>4. ASSUME NEW i \in 1..m, m = p => i # 1
        PROVE  t[Place(p, a, i - 1)] = g[n - m + i]
    <2>1. i - 1 \in 0..(p - 1) /\ i - 1 \in 0..p
      OBVIOUS
    <2>2. Place(p, a, i - 1) # Place(p, a, m)
      <3>1. CASE m = p
        <4>1. i - 1 # 0 /\ 0 \in 0..(p - 1)
          BY <1>4, <3>1
        <4> QED
          BY <1>1, <2>1, <3>1, <4>1
      <3>2. CASE m # p
        <4>1. m \in 0..(p - 1) /\ i - 1 # m
          BY <3>2
        <4> QED
          BY <1>1, <2>1, <4>1
      <3> QED
        BY <3>1, <3>2
    <2>3. Place(p, a, i - 1) \in 0..(p - 1)
      BY <1>1, <2>1
    <2>4. t[Place(p, a, i - 1)] = s[Place(p, a, i - 1)]
      BY <1>2, <2>2, <2>3
    <2> QED
      BY <2>4 DEF Lasts
  <1>5. ASSUME m = p
        PROVE  /\ Place(p, a, 1) \in 0..(p - 1)
               /\ \A i \in 1..m : t[Place(p, Place(p, a, 1), i - 1)] = g[(n + 1) - m + i]
    <2>1. 1 \in 0..p
      OBVIOUS
    <2>2. ASSUME NEW i \in 1..m
          PROVE  t[Place(p, Place(p, a, 1), i - 1)] = g[(n + 1) - m + i]
      <3>1. i - 1 \in 0..(p - 1) /\ (i - 1) + 1 = i
        OBVIOUS
      <3>2. Place(p, Place(p, a, 1), i - 1) = Place(p, a, i)
        BY <1>1, <3>1
      <3>3. CASE i = m
        <4>1. (n + 1) - m + i = n + 1
          BY <3>3
        <4> QED
          BY <1>3, <3>2, <3>3, <4>1
      <3>4. CASE i # m
        <4>1. i + 1 \in 1..m /\ i + 1 # 1 /\ (i + 1) - 1 = i
          BY <3>4
        <4>2. n - m + (i + 1) = (n + 1) - m + i
          OBVIOUS
        <4>3. t[Place(p, a, (i + 1) - 1)] = g[n - m + (i + 1)]
          BY <1>4, <4>1
        <4> QED
          BY <3>2, <4>1, <4>2, <4>3
      <3> QED
        BY <3>3, <3>4
    <2> QED
      BY <1>1, <2>1, <2>2
  <1>6. ASSUME m # p, NEW i \in 1..(m + 1)
        PROVE  t[Place(p, a, i - 1)] = g[(n + 1) - (m + 1) + i]
    <2>1. (n + 1) - (m + 1) + i = n - m + i
      OBVIOUS
    <2>2. CASE i = m + 1
      <3>1. i - 1 = m /\ n - m + i = n + 1
        BY <2>2
      <3> QED
        BY <1>3, <2>1, <3>1
    <2>3. CASE i # m + 1
      <3>1. i \in 1..m
        BY <2>3
      <3> QED
        BY <1>4, <1>6, <2>1, <3>1
    <2> QED
      BY <2>2, <2>3
  <1> QED
    BY <1>3, <1>5, <1>6 DEF Lasts

LEMMA RingPush ==
  ASSUME NEW c \in Calls, CallInv(c), NEW loud \in BOOLEAN, Taken,
         Withheld(c, Len(taken) + 1, loud)
  PROVE  /\ slots' \in [0..(Preroll[c] - 1) -> Nat]
         /\ start' \in 0..(Preroll[c] - 1)
         /\ len' = IF len = Preroll[c] THEN len ELSE len + 1
         /\ RingHolds(c)'
  <1>1. /\ Preroll[c] \in Nat \ {0} /\ start \in 0..(Preroll[c] - 1) /\ len \in 0..Preroll[c]
        /\ len <= Len(gated) /\ Len(gated) \in Nat /\ Len(taken) + 1 \in Nat
        /\ slots \in [0..(Preroll[c] - 1) -> Nat]
    BY CallConstants, SMTT(30) DEF CallInv, CallTypes, RingHolds
  <1>2. /\ slots' = [slots EXCEPT ![Place(Preroll[c], start, len)] = Len(taken) + 1]
        /\ IF len = Preroll[c] THEN start' = Place(Preroll[c], start, 1) /\ len' = len
           ELSE start' = start /\ len' = len + 1
    BY DEF Withheld, Sending!PrerollPush, Sending!Slot, Place
  <1>3. /\ Len(gated') = Len(gated) + 1
        /\ \A i \in 1..Len(gated) : gated'[i] = gated[i]
        /\ gated'[Len(gated) + 1] = [frame |-> Len(taken) + 1, loud |-> loud]
    <2>1. Reaches(c, Len(taken) + 1, loud)
      BY DEF Withheld
    <2> QED
      BY <2>1, GatePush
  <1>4. PICK g : g = [i \in 1..(Len(gated) + 1) |-> gated'[i].frame]
    OBVIOUS
  <1>5. g[Len(gated) + 1] = Len(taken) + 1
    BY <1>1, <1>3, <1>4
  <1>6. Lasts(Preroll[c], start, len, Len(gated), slots, g)
    <2>1. ASSUME NEW i \in 1..len
          PROVE  slots[Place(Preroll[c], start, i - 1)] = g[Len(gated) - len + i]
      <3>1. Len(gated) - len + i \in 1..Len(gated)
        BY <1>1
      <3>2. g[Len(gated) - len + i] = GateFrame(Len(gated) - len + i)
        BY <1>1, <1>3, <1>4, <3>1 DEF GateFrame
      <3> QED
        BY <3>2 DEF CallInv, RingHolds
    <2> QED
      BY <2>1 DEF Lasts
  <1>7. /\ slots' \in [0..(Preroll[c] - 1) -> Nat]
        /\ len = Preroll[c] =>
               /\ Place(Preroll[c], start, 1) \in 0..(Preroll[c] - 1)
               /\ Lasts(Preroll[c], Place(Preroll[c], start, 1), len, Len(gated) + 1, slots', g)
        /\ len # Preroll[c] =>
               Lasts(Preroll[c], start, len + 1, Len(gated) + 1, slots', g)
    BY <1>1, <1>2, <1>5, <1>6, LastOnes
  <1>8. /\ start' \in 0..(Preroll[c] - 1) /\ len' \in 0..(Len(gated) + 1)
        /\ Lasts(Preroll[c], start', len', Len(gated) + 1, slots', g)
    <2>1. CASE len = Preroll[c]
      BY <1>1, <1>2, <1>7, <2>1
    <2>2. CASE len # Preroll[c]
      BY <1>1, <1>2, <1>7, <2>2
    <2> QED
      BY <2>1, <2>2
  <1>9. RingHolds(c)'
    <2>1. ASSUME NEW i \in 1..len'
          PROVE  slots'[Place(Preroll[c], start', i - 1)] = gated'[Len(gated') - len' + i].frame
      <3>1. (Len(gated) + 1) - len' + i \in 1..(Len(gated) + 1)
        BY <1>1, <1>8, SMTT(30)
      <3> QED
        BY <1>3, <1>4, <1>8, <3>1 DEF Lasts
    <2> QED
      BY <1>1, <1>3, <1>8, <2>1 DEF RingHolds, GateFrame
  <1> QED
    BY <1>2, <1>7, <1>8, <1>9

\* The history of taken frames, one longer.
LEMMA TakenPush ==
  ASSUME NEW c \in Calls, CallInv(c), Taken
  PROVE  /\ Len(taken') = Len(taken) + 1 /\ taken' \in Seq(Moment) /\ Len(taken) \in Nat
         /\ \A i \in 1..Len(taken) : taken'[i] = taken[i]
         /\ taken'[Len(taken) + 1] = [muted |-> flags.muted, paranoid |-> flags.paranoid]
  <1>1. [muted |-> flags.muted, paranoid |-> flags.paranoid] \in Moment
    BY DEF Moment, CallInv, CallTypes
  <1>2. taken \in Seq(Moment)
    BY DEF CallInv, CallTypes
  <1>3. taken' = Append(taken, [muted |-> flags.muted, paranoid |-> flags.paranoid])
    BY DEF Taken
  <1> QED
    BY <1>1, <1>2, <1>3, PutLast

LEMMA HangoverTypes ==
  ASSUME NEW c \in Calls, CallInv(c), NEW loud \in BOOLEAN,
         hangover' = Sending(c)!HangoverAfter(loud)
  PROVE  hangover' \in 0..Hangover[c]
  <1>1. Hangover[c] \in Nat /\ hangover \in 0..Hangover[c]
    BY CallConstants DEF CallInv, CallTypes
  <1> QED
    BY <1>1 DEF Sending!HangoverAfter

\* A packet leaves the iteration's list.
LEMMA PacketLeaves ==
  ASSUME NEW c \in Calls, CallInv(c), todo # <<>>, todo' = Tail(todo)
  PROVE  /\ todo' \in Seq(Packet) /\ Len(todo') = Len(todo) - 1 /\ Len(todo) \in Nat \ {0}
         /\ Head(todo) = todo[1] /\ Head(todo) \in Packet
         /\ \A i \in 1..Len(todo') : i + 1 \in 1..Len(todo) /\ todo'[i] = todo[i + 1]
  <1>1. todo \in Seq(Packet)
    BY DEF CallInv, CallTypes
  <1>2. /\ Len(todo) \in Nat \ {0} /\ Head(todo) = todo[1] /\ Head(todo) \in Packet
        /\ Tail(todo) \in Seq(Packet) /\ Len(Tail(todo)) = Len(todo) - 1
        /\ \A i \in 1..Len(Tail(todo)) : Tail(todo)[i] = todo[i + 1]
    BY <1>1, HeadOff
  <1> QED
    BY <1>2

\* A packet is handed over.
LEMMA PacketSent ==
  ASSUME NEW c \in Calls, CallInv(c), Handed
  PROVE  /\ sent' \in Seq(SentPacket) /\ Len(sent') = Len(sent) + 1 /\ Len(sent) \in Nat
         /\ \A i \in 1..Len(sent) : sent'[i] = sent[i]
         /\ sent'[Len(sent) + 1] = [seq |-> Len(sent) + 1, frame |-> todo[1].frame,
                                    silence |-> todo[1].silence]
  <1>1. todo # <<>> /\ todo' = Tail(todo)
    BY DEF Handed
  <1>2. Head(todo) = todo[1] /\ Head(todo) \in Packet
    BY <1>1, PacketLeaves
  <1>3. sequence = Len(sent) + 1 /\ sent \in Seq(SentPacket)
    BY DEF CallInv, CallTypes
  <1>4. PICK p : p = [seq |-> Len(sent) + 1, frame |-> todo[1].frame,
                      silence |-> todo[1].silence]
    OBVIOUS
  <1>5. p \in SentPacket
    BY <1>2, <1>3, <1>4 DEF Packet, SentPacket
  <1>6. sent' = Append(sent, p)
    BY <1>2, <1>3, <1>4 DEF Handed
  <1>7. /\ Append(sent, p) \in Seq(SentPacket) /\ Len(Append(sent, p)) = Len(sent) + 1
        /\ \A i \in 1..Len(sent) : Append(sent, p)[i] = sent[i]
        /\ Append(sent, p)[Len(sent) + 1] = p
    BY <1>3, <1>5, PutLast
  <1> QED
    BY <1>3, <1>4, <1>6, <1>7

LEMMA CallKept ==
  ASSUME NEW c \in Calls, CallInv(c), FrameStep(c), Inputs
  PROVE  CallInv(c)'
  <1>0. /\ mic' \in Seq(BOOLEAN) /\ DOMAIN flags' = {"muted", "paranoid", "vad"}
        /\ \A x \in DOMAIN flags' : flags'[x] \in BOOLEAN
    BY DEF Inputs, CallInv, CallTypes
  <1>1. CASE Elsewhere
    BY <1>0, <1>1 DEF Elsewhere, preroll, CallInv, CallTypes, FramesTaken, GatedTaken,
       GateFrame, RingHolds
  <1>2. CASE Handed
    <2>1. todo # <<>> /\ todo' = Tail(todo)
      BY <1>2 DEF Handed
    <2>2. CallTypes(c)'
      BY <1>0, <1>2, <2>1, PacketLeaves, PacketSent
         DEF Handed, preroll, CallInv, CallTypes
    <2>3. FramesTaken'
      <3>1. todo[1].frame \in 1..Len(taken)
        BY <2>1, PacketLeaves DEF CallInv, FramesTaken
      <3>2. ASSUME NEW i \in 1..Len(sent')
            PROVE  sent'[i].frame \in 1..Len(taken)
        BY <1>2, <3>1, PacketSent DEF CallInv, FramesTaken
      <3>3. \A i \in 1..Len(todo') : todo'[i].frame \in 1..Len(taken)
        BY <2>1, PacketLeaves DEF CallInv, FramesTaken
      <3> QED
        BY <1>2, <3>2, <3>3 DEF Handed, CallInv, FramesTaken
    <2> QED
      BY <1>2, <2>2, <2>3 DEF Handed, preroll, CallInv, GatedTaken, GateFrame, RingHolds
  <1>3. CASE Skipped
    <2>1. todo # <<>> /\ todo' = Tail(todo)
      BY <1>3 DEF Skipped
    <2>2. CallTypes(c)'
      BY <1>0, <1>3, <2>1, PacketLeaves DEF Skipped, preroll, CallInv, CallTypes
    <2>3. FramesTaken'
      <3>1. todo[1].frame \in 1..Len(taken)
        BY <2>1, PacketLeaves DEF CallInv, FramesTaken
      <3>2. \A i \in 1..Len(todo') : todo'[i].frame \in 1..Len(taken)
        BY <2>1, PacketLeaves DEF CallInv, FramesTaken
      <3>3. Head(todo).frame = todo[1].frame
        BY <2>1, PacketLeaves
      <3> QED
        BY <1>3, <3>1, <3>2, <3>3 DEF Skipped, CallInv, FramesTaken
    <2> QED
      BY <1>3, <2>2, <2>3 DEF Skipped, preroll, CallInv, GatedTaken, GateFrame, RingHolds
  <1>4. CASE Taken /\ PastTheGate(Len(taken) + 1)
    <2>0. PICK f : f = Len(taken) + 1
      OBVIOUS
    <2>1. /\ todo' \in Seq(Packet)
          /\ \A i \in 1..Len(todo') : todo'[i].frame = f
      <3>1. CASE todo' = <<>>
        BY <3>1
      <3>2. CASE \E p \in Packet : todo' = <<p>> /\ p.frame = f
        BY <3>2
      <3> QED
        BY <1>4, <2>0, <3>1, <3>2 DEF PastTheGate
    <2>2. CallTypes(c)'
      BY <1>0, <1>4, <2>1, TakenPush DEF Taken, PastTheGate, preroll, CallInv, CallTypes
    <2>3. FramesTaken'
      BY <1>4, <2>0, <2>1, TakenPush DEF Taken, CallInv, FramesTaken
    <2>4. GatedTaken'
      BY <1>4, TakenPush DEF PastTheGate, CallInv, GatedTaken, GateFrame
    <2> QED
      BY <1>4, <2>2, <2>3, <2>4 DEF PastTheGate, preroll, CallInv, GateFrame, RingHolds
  <1>5. ASSUME Taken, NEW loud \in BOOLEAN, Withheld(c, Len(taken) + 1, loud)
        PROVE  CallInv(c)'
    <2>1. Reaches(c, Len(taken) + 1, loud) /\ todo' = <<>>
      BY <1>5 DEF Withheld
    <2>2. /\ gated' \in Seq(AtGate) /\ GatedTaken'
      BY <1>5, <2>1, GatePush
    <2>3. hangover' \in 0..Hangover[c]
      BY <2>1, HangoverTypes DEF Reaches
    <2>4. /\ slots' \in [0..(Preroll[c] - 1) -> Nat] /\ start' \in 0..(Preroll[c] - 1)
          /\ len' = (IF len = Preroll[c] THEN len ELSE len + 1) /\ RingHolds(c)'
      BY <1>5, RingPush
    <2>5. len' \in 0..Preroll[c]
      BY <2>4, CallConstants DEF CallInv, CallTypes
    <2>6. CallTypes(c)'
      BY <1>0, <1>5, <2>1, <2>2, <2>3, <2>4, <2>5, TakenPush DEF Taken, CallInv, CallTypes
    <2>7. FramesTaken'
      BY <1>5, <2>1, TakenPush DEF Taken, CallInv, FramesTaken
    <2> QED
      BY <2>2, <2>4, <2>6, <2>7 DEF CallInv
  <1>6. ASSUME Taken, NEW loud \in BOOLEAN, Passed(c, Len(taken) + 1, loud)
        PROVE  CallInv(c)'
    <2>1. Reaches(c, Len(taken) + 1, loud) /\ start' = 0 /\ len' = 0 /\ slots' = slots
      BY <1>6 DEF Passed
    <2>2. /\ gated' \in Seq(AtGate) /\ GatedTaken'
      BY <1>6, <2>1, GatePush
    <2>3. hangover' \in 0..Hangover[c]
      BY <2>1, HangoverTypes DEF Reaches
    <2>4. Len(taken) + 1 \in Nat
      BY DEF CallInv, CallTypes
    <2>5. /\ todo' \in Seq(Packet) /\ Len(todo') = len + 1
          /\ \A i \in 1..len : todo'[i].frame = GateFrame(Len(gated) - len + i)
          /\ todo'[len + 1].frame = Len(taken) + 1
      BY <1>6, <2>4, Flush
    <2>6. 0 \in 0..(Preroll[c] - 1) /\ 0 \in 0..Preroll[c]
      BY CallConstants
    <2>7. CallTypes(c)'
      BY <1>0, <1>6, <2>1, <2>2, <2>3, <2>5, <2>6, TakenPush DEF Taken, CallInv, CallTypes
    <2>8. FramesTaken'
      <3>1. len \in Nat /\ len <= Len(gated) /\ Len(gated) \in Nat
        BY CallConstants DEF CallInv, CallTypes, RingHolds
      <3>2. ASSUME NEW i \in 1..Len(todo')
            PROVE  todo'[i].frame \in 1..Len(taken')
        <4>1. CASE i \in 1..len
          <5>1. Len(gated) - len + i \in 1..Len(gated)
            BY <3>1, <4>1
          <5>2. GateFrame(Len(gated) - len + i) \in 1..Len(taken)
            BY <5>1 DEF CallInv, GatedTaken
          <5> QED
            BY <1>6, <2>5, <4>1, <5>2, TakenPush
        <4>2. CASE i = len + 1
          BY <1>6, <2>5, <4>2, TakenPush
        <4> QED
          BY <2>5, <3>1, <4>1, <4>2
      <3> QED
        BY <1>6, <3>2, TakenPush DEF Taken, CallInv, FramesTaken
    <2>9. RingHolds(c)'
      BY <2>1, <2>2 DEF RingHolds
    <2> QED
      BY <2>2, <2>7, <2>8, <2>9 DEF CallInv
  <1> QED
    BY <1>1, <1>2, <1>3, <1>4, <1>5, <1>6 DEF FrameStep

LEMMA CallStarts ==
  ASSUME NEW c \in Calls, Sending(c)!Init
  PROVE  CallInv(c) /\ flags.vad
  <1>1. PICK e : e = <<>>
    OBVIOUS
  <1>2. e \in Seq(BOOLEAN) /\ e \in Seq(Moment) /\ e \in Seq(AtGate) /\ e \in Seq(Packet)
        /\ e \in Seq(SentPacket) /\ Len(e) = 0
    BY <1>1
  <1>3. /\ mic = e /\ taken = e /\ gated = e /\ todo = e /\ sent = e
    BY <1>1 DEF Sending!Init
  <1>4. /\ flags = [muted |-> FALSE, paranoid |-> Paranoid[c], vad |-> TRUE]
        /\ slots = [i \in 0..(Preroll[c] - 1) |-> 0] /\ start = 0 /\ len = 0
        /\ hangover = 0 /\ sequence = 1 /\ failed = {}
    BY DEF Sending!Init
  <1>5. CallTypes(c)
    <2>1. /\ slots \in [0..(Preroll[c] - 1) -> Nat] /\ start \in 0..(Preroll[c] - 1)
          /\ len \in 0..Preroll[c] /\ hangover \in 0..Hangover[c]
      <3>1. Preroll[c] \in Nat \ {0} /\ Hangover[c] \in Nat
        BY CallConstants
      <3> QED
        BY <1>4, <3>1
    <2>2. /\ DOMAIN flags = {"muted", "paranoid", "vad"}
          /\ \A x \in DOMAIN flags : flags[x] \in BOOLEAN
      <3>1. PICK b \in BOOLEAN : b = Paranoid[c]
        BY CallConstants
      <3>2. flags = [muted |-> FALSE, paranoid |-> b, vad |-> TRUE]
        BY <1>4, <3>1
      <3>3. flags.muted \in BOOLEAN /\ flags.paranoid \in BOOLEAN /\ flags.vad \in BOOLEAN
        BY <3>2
      <3>4. DOMAIN flags = {"muted", "paranoid", "vad"}
        BY <3>2
      <3> QED
        BY <3>3, <3>4
    <2>3. sequence = Len(sent) + 1
      BY <1>2, <1>3, <1>4
    <2> QED
      BY <1>2, <1>3, <2>1, <2>2, <2>3 DEF CallTypes
  <1>6. FramesTaken /\ GatedTaken /\ RingHolds(c)
    BY <1>2, <1>3, <1>4 DEF FramesTaken, GatedTaken, RingHolds
  <1> QED
    BY <1>4, <1>5, <1>6 DEF CallInv

\* Of the call a behaviour is of, every step is a step.
LEMMA CallStep ==
  ASSUME NEW c \in Calls, part' = c, [Next]_vars
  PROVE  part = c /\ [Sending(c)!Next]_captureVars
  <1>1. CASE Speak
    BY <1>1 DEF Speak
  <1>2. CASE Play \/ Listen
    BY <1>2 DEF Play, Listen, Calls
  <1>3. CASE UNCHANGED vars
    BY <1>3 DEF vars
  <1> QED
    BY <1>1, <1>2, <1>3 DEF Next

LEMMA CallBegins ==
  ASSUME NEW c \in Calls, part = c, Init
  PROVE  Sending(c)!Init
  BY DEF Init, Calls

(***************************************************************************)
(* Paranoid mode.  A frame taken in paranoid mode is in one place: waiting *)
(* to be handed over, handed over, or failed.                              *)
(***************************************************************************)
SentOnce(f) == \E k \in 1..Len(sent) : \A i \in 1..Len(sent) : sent[i].frame = f <=> i = k
NotSent(f)  == \A i \in 1..Len(sent) : sent[i].frame # f
TodoOnce(f) == \E k \in 1..Len(todo) : \A i \in 1..Len(todo) : todo[i].frame = f <=> i = k
NotTodo(f)  == \A i \in 1..Len(todo) : todo[i].frame # f

OnePlace(f) == \/ SentOnce(f) /\ NotTodo(f)
               \/ NotSent(f) /\ TodoOnce(f)

Numbered == \A i \in 1..Len(sent) : sent[i].seq = i

MutedIsSilence ==
    /\ \A i \in 1..Len(sent) : taken[sent[i].frame].muted => sent[i].silence
    /\ \A i \in 1..Len(todo) : taken[todo[i].frame].muted => todo[i].silence

ParanoidInOnePlace ==
    \A f \in 1..Len(taken) : taken[f].paranoid /\ f \notin failed => OnePlace(f)

RateInv == Numbered /\ MutedIsSilence /\ ParanoidInOnePlace

LEMMA RateStarts ==
  ASSUME NEW c \in Calls, Sending(c)!Init
  PROVE  RateInv
  <1>1. Len(sent) = 0 /\ Len(todo) = 0 /\ Len(taken) = 0
    BY DEF Sending!Init
  <1> QED
    BY <1>1 DEF RateInv, Numbered, MutedIsSilence, ParanoidInOnePlace

\* What a frame's packets are after the head of the list left it.
LEMMA TodoShorter ==
  ASSUME NEW c \in Calls, CallInv(c), todo # <<>>, todo' = Tail(todo), NEW f
  PROVE  /\ NotTodo(f) => NotTodo(f)' /\ todo[1].frame # f
         /\ TodoOnce(f) => IF todo[1].frame = f THEN NotTodo(f)' ELSE TodoOnce(f)'
  <1>1. /\ Len(todo') = Len(todo) - 1 /\ Len(todo) \in Nat \ {0}
        /\ \A i \in 1..Len(todo') : i + 1 \in 1..Len(todo) /\ todo'[i] = todo[i + 1]
    BY PacketLeaves
  <1>2. NotTodo(f) => NotTodo(f)' /\ todo[1].frame # f
    BY <1>1 DEF NotTodo
  <1>3. ASSUME TodoOnce(f), todo[1].frame = f PROVE NotTodo(f)'
    BY <1>1, <1>3 DEF TodoOnce, NotTodo
  <1>4. ASSUME TodoOnce(f), todo[1].frame # f PROVE TodoOnce(f)'
    <2>1. PICK k \in 1..Len(todo) : \A i \in 1..Len(todo) : todo[i].frame = f <=> i = k
      BY <1>4 DEF TodoOnce
    <2>2. k - 1 \in 1..Len(todo')
      BY <1>1, <1>4, <2>1
    <2>3. ASSUME NEW i \in 1..Len(todo')
          PROVE  todo'[i].frame = f <=> i = k - 1
      BY <1>1, <2>1
    <2> QED
      BY <2>2, <2>3 DEF TodoOnce
  <1> QED
    BY <1>2, <1>3, <1>4

LEMMA RateKept ==
  ASSUME NEW c \in Calls, CallInv(c), FrameStep(c), RateInv
  PROVE  RateInv'
  <1>1. CASE Elsewhere
    <2>1. sent' = sent /\ todo' = todo /\ taken' = taken /\ failed' = failed
      BY <1>1 DEF Elsewhere
    <2>2. \A f : OnePlace(f) => OnePlace(f)'
      BY <2>1 DEF OnePlace, SentOnce, NotSent, TodoOnce, NotTodo
    <2> QED
      BY <2>1, <2>2 DEF RateInv, Numbered, MutedIsSilence, ParanoidInOnePlace
  <1>2. CASE Handed
    <2>1. todo # <<>> /\ todo' = Tail(todo) /\ taken' = taken /\ failed' = failed
      BY <1>2 DEF Handed
    <2>2. /\ Len(sent') = Len(sent) + 1 /\ Len(sent) \in Nat
          /\ \A i \in 1..Len(sent) : sent'[i] = sent[i]
          /\ sent'[Len(sent) + 1] = [seq |-> Len(sent) + 1, frame |-> todo[1].frame,
                                     silence |-> todo[1].silence]
      BY <1>2, PacketSent
    <2>3. /\ Len(todo) \in Nat \ {0} /\ Len(todo') = Len(todo) - 1
          /\ \A i \in 1..Len(todo') : i + 1 \in 1..Len(todo) /\ todo'[i] = todo[i + 1]
      BY <2>1, PacketLeaves
    <2>4. Numbered'
      BY <2>2 DEF RateInv, Numbered
    <2>5. MutedIsSilence'
      <3>1. /\ \A i \in 1..Len(sent) : taken[sent[i].frame].muted => sent[i].silence
            /\ \A i \in 1..Len(todo) : taken[todo[i].frame].muted => todo[i].silence
        BY DEF RateInv, MutedIsSilence
      <3>2. ASSUME NEW i \in 1..Len(sent'), taken[sent'[i].frame].muted
            PROVE  sent'[i].silence
        <4>1. CASE i \in 1..Len(sent)
          BY <2>2, <3>1, <3>2, <4>1
        <4>2. CASE i = Len(sent) + 1
          BY <2>2, <2>3, <3>1, <3>2, <4>2
        <4> QED
          BY <2>2, <4>1, <4>2
      <3>3. \A i \in 1..Len(todo') : taken[todo'[i].frame].muted => todo'[i].silence
        BY <2>3, <3>1
      <3> QED
        BY <2>1, <3>2, <3>3 DEF MutedIsSilence
    <2>6. ASSUME NEW f \in 1..Len(taken), taken[f].paranoid, f \notin failed
          PROVE  OnePlace(f)'
      <3>1. CASE SentOnce(f) /\ NotTodo(f)
        <4>1. NotTodo(f)' /\ todo[1].frame # f
          BY <2>1, <3>1, TodoShorter
        <4>2. PICK k \in 1..Len(sent) : \A i \in 1..Len(sent) : sent[i].frame = f <=> i = k
          BY <3>1 DEF SentOnce
        <4>3. k \in 1..Len(sent')
          BY <2>2
        <4>4. ASSUME NEW i \in 1..Len(sent')
              PROVE  sent'[i].frame = f <=> i = k
          <5>1. CASE i \in 1..Len(sent)
            BY <2>2, <4>2, <5>1
          <5>2. CASE i = Len(sent) + 1
            <6>1. sent'[i].frame # f
              BY <2>2, <4>1, <5>2
            <6>2. i # k
              BY <2>2, <5>2
            <6> QED
              BY <6>1, <6>2
          <5> QED
            BY <2>2, <5>1, <5>2
        <4> QED
          BY <4>1, <4>3, <4>4 DEF OnePlace, SentOnce
      <3>2. CASE NotSent(f) /\ TodoOnce(f) /\ todo[1].frame = f
        <4>1. NotTodo(f)'
          BY <2>1, <3>2, TodoShorter
        <4>2. SentOnce(f)'
          <5>1. \A i \in 1..Len(sent') : sent'[i].frame = f <=> i = Len(sent) + 1
            BY <2>2, <3>2 DEF NotSent
          <5>2. Len(sent) + 1 \in 1..Len(sent')
            BY <2>2
          <5> QED
            BY <5>1, <5>2 DEF SentOnce
        <4> QED
          BY <4>1, <4>2 DEF OnePlace
      <3>3. CASE NotSent(f) /\ TodoOnce(f) /\ todo[1].frame # f
        <4>1. TodoOnce(f)'
          BY <2>1, <3>3, TodoShorter
        <4>2. NotSent(f)'
          BY <2>2, <3>3 DEF NotSent
        <4> QED
          BY <4>1, <4>2 DEF OnePlace
      <3>4. OnePlace(f)
        BY <2>6 DEF RateInv, ParanoidInOnePlace
      <3> QED
        BY <3>1, <3>2, <3>3, <3>4 DEF OnePlace
    <2> QED
      BY <2>1, <2>4, <2>5, <2>6 DEF RateInv, ParanoidInOnePlace
  <1>3. CASE Skipped
    <2>1. /\ todo # <<>> /\ todo' = Tail(todo) /\ taken' = taken /\ sent' = sent
          /\ failed' = failed \union {todo[1].frame}
      BY <1>3, PacketLeaves DEF Skipped
    <2>2. /\ Len(todo) \in Nat \ {0} /\ Len(todo') = Len(todo) - 1
          /\ \A i \in 1..Len(todo') : i + 1 \in 1..Len(todo) /\ todo'[i] = todo[i + 1]
      BY <2>1, PacketLeaves
    <2>3. Numbered'
      BY <2>1 DEF RateInv, Numbered
    <2>4. MutedIsSilence'
      BY <2>1, <2>2 DEF RateInv, MutedIsSilence
    <2>5. ASSUME NEW f \in 1..Len(taken), taken[f].paranoid, f \notin failed'
          PROVE  OnePlace(f)'
      <3>1. OnePlace(f) /\ todo[1].frame # f
        BY <2>1, <2>5 DEF RateInv, ParanoidInOnePlace
      <3>2. /\ NotTodo(f) => NotTodo(f)'
            /\ TodoOnce(f) => TodoOnce(f)'
        BY <2>1, <3>1, TodoShorter
      <3>3. (SentOnce(f) => SentOnce(f)') /\ (NotSent(f) => NotSent(f)')
        BY <2>1 DEF SentOnce, NotSent
      <3> QED
        BY <3>1, <3>2, <3>3 DEF OnePlace
    <2> QED
      BY <2>1, <2>3, <2>4, <2>5 DEF RateInv, ParanoidInOnePlace
  <1>4. ASSUME Taken,
               \A i \in 1..Len(todo') :
                   /\ todo'[i].frame \in 1..Len(taken')
                   /\ taken'[todo'[i].frame].muted => todo'[i].silence
                   /\ todo'[i].frame \in 1..Len(taken) => ~taken[todo'[i].frame].paranoid,
               NEW new, new = Len(taken) + 1, flags.paranoid => TodoOnce(new)'
        PROVE  RateInv'
    <2>1. todo = <<>> /\ sent' = sent /\ failed' = failed
      BY <1>4 DEF Taken
    <2>2. /\ Len(taken') = Len(taken) + 1 /\ Len(taken) \in Nat
          /\ \A i \in 1..Len(taken) : taken'[i] = taken[i]
          /\ taken'[Len(taken) + 1] = [muted |-> flags.muted, paranoid |-> flags.paranoid]
      BY <1>4, TakenPush
    <2>3. \A i \in 1..Len(sent) : sent[i].frame \in 1..Len(taken)
      BY DEF CallInv, FramesTaken
    <2>4. Numbered'
      BY <2>1 DEF RateInv, Numbered
    <2>5. MutedIsSilence'
      BY <1>4, <2>1, <2>2, <2>3 DEF RateInv, MutedIsSilence
    <2>6. ASSUME NEW f \in 1..Len(taken'), taken'[f].paranoid, f \notin failed'
          PROVE  OnePlace(f)'
      <3>1. CASE f \in 1..Len(taken)
        <4>1. OnePlace(f) /\ taken[f].paranoid
          BY <2>1, <2>2, <2>6, <3>1 DEF RateInv, ParanoidInOnePlace
        <4>2. SentOnce(f)
          BY <2>1, <4>1 DEF OnePlace, TodoOnce
        <4>3. SentOnce(f)'
          BY <2>1, <4>2 DEF SentOnce
        <4>4. NotTodo(f)'
          BY <1>4, <3>1, <4>1 DEF NotTodo
        <4> QED
          BY <4>3, <4>4 DEF OnePlace
      <3>2. CASE f = Len(taken) + 1
        <4>1. flags.paranoid
          BY <2>2, <2>6, <3>2
        <4>2. TodoOnce(f)'
          BY <1>4, <3>2, <4>1
        <4>3. NotSent(f)'
          BY <2>1, <2>2, <2>3, <3>2 DEF NotSent
        <4> QED
          BY <4>2, <4>3 DEF OnePlace
      <3> QED
        BY <2>2, <3>1, <3>2
    <2> QED
      BY <2>4, <2>5, <2>6 DEF RateInv, ParanoidInOnePlace
  <1>5. CASE Taken /\ PastTheGate(Len(taken) + 1)
    <2>1. PICK f : f = Len(taken) + 1
      OBVIOUS
    <2>2. /\ Len(taken') = f /\ Len(taken) \in Nat
          /\ taken'[f] = [muted |-> flags.muted, paranoid |-> flags.paranoid]
      BY <1>5, <2>1, TakenPush
    <2>3. CASE todo' = <<>> /\ ~flags.paranoid
      <3>1. Len(todo') = 0
        BY <2>3
      <3> QED
        BY <1>4, <1>5, <2>1, <2>3, <3>1
    <2>4. CASE \E p \in Packet : todo' = <<p>> /\ p.frame = f /\ (flags.muted => p.silence)
      <3>1. PICK p \in Packet : todo' = <<p>> /\ p.frame = f /\ (flags.muted => p.silence)
        BY <2>4
      <3>2. Len(todo') = 1 /\ todo'[1] = p
        BY <3>1
      <3>3. ASSUME NEW i \in 1..Len(todo')
            PROVE  /\ todo'[i].frame \in 1..Len(taken')
                   /\ taken'[todo'[i].frame].muted => todo'[i].silence
                   /\ todo'[i].frame \in 1..Len(taken) => ~taken[todo'[i].frame].paranoid
        <4>1. todo'[i] = p
          BY <3>2
        <4>2. f \in 1..Len(taken') /\ f \notin 1..Len(taken)
          BY <2>1, <2>2
        <4> QED
          BY <2>2, <3>1, <4>1, <4>2
      <3>4. TodoOnce(f)'
        BY <3>1, <3>2 DEF TodoOnce
      <3> QED
        BY <1>4, <1>5, <2>1, <3>3, <3>4
    <2> QED
      BY <1>5, <2>1, <2>3, <2>4 DEF PastTheGate
  <1>6. ASSUME Taken, NEW loud \in BOOLEAN, Withheld(c, Len(taken) + 1, loud)
        PROVE  RateInv'
    <2>1. Len(todo') = 0 /\ ~flags.paranoid
      BY <1>6 DEF Withheld, Reaches
    <2>2. PICK f : f = Len(taken) + 1
      OBVIOUS
    <2> QED
      BY <1>4, <1>6, <2>1, <2>2
  <1>7. ASSUME Taken, NEW loud \in BOOLEAN, Passed(c, Len(taken) + 1, loud)
        PROVE  RateInv'
    <2>1. PICK f : f = Len(taken) + 1
      OBVIOUS
    <2>2. ~flags.paranoid /\ ~flags.muted
      BY <1>7 DEF Passed, Reaches
    <2>3. /\ Len(taken') = f /\ Len(taken) \in Nat /\ f \in Nat
          /\ \A i \in 1..Len(taken) : taken'[i] = taken[i]
          /\ taken'[f] = [muted |-> flags.muted, paranoid |-> flags.paranoid]
      BY <1>7, <2>1, TakenPush
    <2>4. /\ Len(todo') = len + 1
          /\ \A i \in 1..len : todo'[i].frame = GateFrame(Len(gated) - len + i)
          /\ todo'[len + 1].frame = f
      BY <1>7, <2>1, <2>3, Flush
    <2>5. len \in Nat /\ len <= Len(gated) /\ Len(gated) \in Nat
      BY CallConstants DEF CallInv, CallTypes, RingHolds
    <2>6. ASSUME NEW i \in 1..Len(todo')
          PROVE  /\ todo'[i].frame \in 1..Len(taken')
                 /\ taken'[todo'[i].frame].muted => todo'[i].silence
                 /\ todo'[i].frame \in 1..Len(taken) => ~taken[todo'[i].frame].paranoid
      <3>1. CASE i \in 1..len
        <4>1. Len(gated) - len + i \in 1..Len(gated)
          BY <2>5, <3>1
        <4>2. PICK g : g = GateFrame(Len(gated) - len + i)
          OBVIOUS
        <4>3. g \in 1..Len(taken) /\ ~taken[g].muted /\ ~taken[g].paranoid
          BY <4>1, <4>2 DEF CallInv, GatedTaken
        <4>4. todo'[i].frame = g
          BY <2>4, <3>1, <4>2
        <4>5. g \in 1..Len(taken') /\ taken'[g] = taken[g]
          BY <2>1, <2>3, <4>3
        <4> QED
          BY <4>3, <4>4, <4>5
      <3>2. CASE i = len + 1
        <4>1. todo'[i].frame = f /\ f \in 1..Len(taken') /\ f \notin 1..Len(taken)
          BY <2>1, <2>3, <2>4, <3>2
        <4>2. ~taken'[f].muted
          BY <2>2, <2>3
        <4> QED
          BY <4>1, <4>2
      <3> QED
        BY <2>4, <2>5, <3>1, <3>2
    <2> QED
      BY <1>4, <1>7, <2>1, <2>2, <2>6
  <1> QED
    BY <1>1, <1>2, <1>3, <1>5, <1>6, <1>7 DEF FrameStep

\* One place is one packet.
LEMMA OnePacket ==
  ASSUME NEW f, OnePlace(f), NEW c \in Calls, CallInv(c)
  PROVE  Sending(c)!PacketsOf(f) = 1
  <1> DEFINE s == {i \in DOMAIN sent : sent[i].frame = f}
             t == {i \in DOMAIN todo : todo[i].frame = f}
  <1>1. DOMAIN sent = 1..Len(sent) /\ DOMAIN todo = 1..Len(todo)
    BY DEF CallInv, CallTypes
  <1>2. (SentOnce(f) => \E k : s = {k}) /\ (NotSent(f) => s = {})
    <2>1. ASSUME SentOnce(f) PROVE \E k : s = {k}
      <3>1. PICK k \in DOMAIN sent : \A i \in DOMAIN sent : sent[i].frame = f <=> i = k
        BY <1>1, <2>1 DEF SentOnce
      <3>2. s = {k}
        BY <3>1
      <3> QED
        BY <3>2
    <2>2. NotSent(f) => s = {}
      BY <1>1 DEF NotSent
    <2> QED
      BY <2>1, <2>2
  <1>3. (TodoOnce(f) => \E k : t = {k}) /\ (NotTodo(f) => t = {})
    <2>1. ASSUME TodoOnce(f) PROVE \E k : t = {k}
      <3>1. PICK k \in DOMAIN todo : \A i \in DOMAIN todo : todo[i].frame = f <=> i = k
        BY <1>1, <2>1 DEF TodoOnce
      <3>2. t = {k}
        BY <3>1
      <3> QED
        BY <3>2
    <2>2. NotTodo(f) => t = {}
      BY <1>1 DEF NotTodo
    <2> QED
      BY <2>1, <2>2
  <1> HIDE DEF s, t
  <1>4. \/ (\E k : s = {k}) /\ t = {}
        \/ s = {} /\ \E k : t = {k}
    BY <1>2, <1>3 DEF OnePlace
  <1>5. Cardinality({}) = 0
    BY FS_EmptySet
  <1>6. Cardinality(s) + Cardinality(t) = 1
    <2>1. ASSUME NEW k, s = {k}, t = {} PROVE Cardinality(s) = 1 /\ Cardinality(t) = 0
      BY <1>5, <2>1, FS_Singleton
    <2>2. ASSUME NEW k, s = {}, t = {k} PROVE Cardinality(s) = 0 /\ Cardinality(t) = 1
      BY <1>5, <2>2, FS_Singleton
    <2>3. \/ Cardinality(s) = 1 /\ Cardinality(t) = 0
          \/ Cardinality(s) = 0 /\ Cardinality(t) = 1
      BY <1>4, <2>1, <2>2
    <2> QED
      BY <2>3
  <1> QED
    BY <1>6 DEF Sending!PacketsOf, Sending!Cardinality, Cardinality, s, t

(* In paranoid mode the network sees one packet for every frame, however   *)
(* the user speaks, mutes and unmutes, and silence for a muted one; packet *)
(* numbers have no gaps, whatever was withheld, flushed or failed to       *)
(* encode (send_frame and send_silence of voice.rs).                       *)
THEOREM OnePacketPerFrame == Spec => []ConstantRate
  <1> DEFINE c == "constant"
             RateOfCall == part = c => CallInv(c) /\ RateInv
  <1>0. c \in Calls
    BY DEF Calls
  <1> HIDE DEF c
  <1>1. Init => RateOfCall
    BY <1>0, CallBegins, CallStarts, RateStarts
  <1>2. RateOfCall /\ [Next]_vars => RateOfCall'
    <2> SUFFICES ASSUME RateOfCall, [Next]_vars, part' = c PROVE CallInv(c)' /\ RateInv'
      OBVIOUS
    <2>1. part = c /\ [Sending(c)!Next]_captureVars
      BY <1>0, CallStep
    <2>2. CallInv(c) /\ RateInv
      BY <2>1
    <2>3. FrameStep(c) /\ Inputs
      BY <1>0, <2>1, <2>2, FrameSteps
    <2> QED
      BY <1>0, <2>2, <2>3, CallKept, RateKept
  <1>3. RateOfCall => ConstantRate
    <2> SUFFICES ASSUME CallInv(c), RateInv PROVE Sending(c)!ConstantRate
      BY DEF ConstantRate, c
    <2>1. DOMAIN sent = 1..Len(sent) /\ DOMAIN taken = 1..Len(taken)
      BY DEF CallInv, CallTypes
    <2>2. ASSUME NEW f \in DOMAIN taken, taken[f].paranoid, f \notin failed
          PROVE  Sending(c)!PacketsOf(f) = 1
      BY <1>0, <2>1, <2>2, OnePacket DEF RateInv, ParanoidInOnePlace
    <2>3. \A i \in DOMAIN sent : sent[i].seq = i
      BY <2>1 DEF RateInv, Numbered
    <2>4. \A i \in DOMAIN sent : taken[sent[i].frame].muted => sent[i].silence
      BY <2>1 DEF RateInv, MutedIsSilence
    <2> QED
      BY <2>2, <2>3, <2>4 DEF Sending!ConstantRate
  <1> QED
    BY <1>1, <1>2, <1>3, PTL DEF Spec

-----------------------------------------------------------------------------
(***************************************************************************)
(* The gate.  The hangover counter knows the last loud frame as long as    *)
(* that matters, the ring is in use only when it has run out, and what the *)
(* ring lost, or never held, no later frame can be near to.                *)
(***************************************************************************)
Loud(j) == gated[j].loud

Near(c, i) ==
    \E j \in 1..Len(gated) : Loud(j) /\ i <= j + Hangover[c] /\ j <= i + Preroll[c]

IsEmitted(x) ==
    \/ \E i \in 1..Len(sent) : sent[i].frame = x
    \/ \E i \in 1..Len(todo) : todo[i].frame = x
    \/ x \in failed

Counts(c) ==
    /\ \A j \in 1..Len(gated) : Loud(j) => j + Hangover[c] <= Len(gated) + hangover
    /\ hangover > 0 => \E j \in 1..Len(gated) :
                           Loud(j) /\ j + Hangover[c] = Len(gated) + hangover
    /\ len > 0 => hangover = 0

Forgotten(c) ==
    \A i \in 1..(Len(gated) - len) : Near(c, i) \/ i + Preroll[c] <= Len(gated)

SentAreNear(c) == \A i \in 1..Len(gated) : IsEmitted(GateFrame(i)) <=> Near(c, i)

GateInv(c) == Counts(c) /\ Forgotten(c) /\ SentAreNear(c)

LEMMA GateStarts ==
  ASSUME NEW c \in Calls, Sending(c)!Init
  PROVE  GateInv(c)
  <1>1. Len(gated) = 0 /\ len = 0 /\ hangover = 0
    BY DEF Sending!Init
  <1> QED
    BY <1>1 DEF GateInv, Counts, Forgotten, SentAreNear

\* What was emitted stays emitted, and handing over or failing emits nothing.
LEMMA EmittedKept ==
  ASSUME NEW c \in Calls, CallInv(c), Elsewhere \/ Handed \/ Skipped, NEW x
  PROVE  IsEmitted(x)' <=> IsEmitted(x)
  <1>1. CASE Elsewhere
    BY <1>1 DEF Elsewhere, IsEmitted
  <1>2. ASSUME todo # <<>>, todo' = Tail(todo)
        PROVE  (\E i \in 1..Len(todo) : todo[i].frame = x) <=>
               \/ todo[1].frame = x
               \/ \E i \in 1..Len(todo') : todo'[i].frame = x
    <2>1. /\ Len(todo') = Len(todo) - 1 /\ Len(todo) \in Nat \ {0}
          /\ \A i \in 1..Len(todo') : i + 1 \in 1..Len(todo) /\ todo'[i] = todo[i + 1]
      BY <1>2, PacketLeaves
    <2>2. ASSUME NEW i \in 1..Len(todo), i # 1
          PROVE  i - 1 \in 1..Len(todo') /\ todo'[i - 1] = todo[i]
      <3>1. i - 1 \in 1..Len(todo') /\ (i - 1) + 1 = i
        BY <2>1, <2>2
      <3> QED
        BY <2>1, <3>1
    <2>3. 1 \in 1..Len(todo)
      BY <2>1
    <2> QED
      BY <2>1, <2>2, <2>3
  <1>3. CASE Handed
    <2>1. todo # <<>> /\ todo' = Tail(todo) /\ failed' = failed
      BY <1>3 DEF Handed
    <2>2. /\ Len(sent') = Len(sent) + 1 /\ Len(sent) \in Nat
          /\ \A i \in 1..Len(sent) : sent'[i] = sent[i]
          /\ sent'[Len(sent) + 1].frame = todo[1].frame
      BY <1>3, PacketSent
    <2>3. (\E i \in 1..Len(sent') : sent'[i].frame = x) <=>
          \/ todo[1].frame = x
          \/ \E i \in 1..Len(sent) : sent[i].frame = x
      BY <2>2
    <2> QED
      BY <1>2, <2>1, <2>3 DEF IsEmitted
  <1>4. CASE Skipped
    <2>1. /\ todo # <<>> /\ todo' = Tail(todo) /\ sent' = sent
          /\ failed' = failed \union {todo[1].frame}
      BY <1>4, PacketLeaves DEF Skipped
    <2> QED
      BY <1>2, <2>1 DEF IsEmitted
  <1> QED
    BY <1>1, <1>3, <1>4

LEMMA EmittedTaken ==
  ASSUME NEW c \in Calls, CallInv(c), NEW x, IsEmitted(x)
  PROVE  x \in 1..Len(taken)
  BY DEF IsEmitted, CallInv, FramesTaken

\* A new frame emits what it puts on the list.
LEMMA EmittedByFrame ==
  ASSUME NEW c \in Calls, CallInv(c), Taken, NEW x
  PROVE  IsEmitted(x)' <=> IsEmitted(x) \/ \E i \in 1..Len(todo') : todo'[i].frame = x
  <1>1. Len(todo) = 0 /\ sent' = sent /\ failed' = failed
    BY DEF Taken
  <1> QED
    BY <1>1 DEF IsEmitted

\* A frame becomes near speech when a loud one comes soon enough behind it.
LEMMA NearGrows ==
  ASSUME NEW c \in Calls, CallInv(c), NEW loud \in BOOLEAN, Taken,
         Reaches(c, Len(taken) + 1, loud), NEW i \in 1..(Len(gated) + 1)
  PROVE  Near(c, i)' <=> Near(c, i) \/ (loud /\ Len(gated) + 1 <= i + Preroll[c])
  <1>1. /\ Len(gated') = Len(gated) + 1
        /\ \A j \in 1..Len(gated) : gated'[j] = gated[j]
        /\ gated'[Len(gated) + 1] = [frame |-> Len(taken) + 1, loud |-> loud]
    BY GatePush
  <1>2. Len(gated) \in Nat /\ Hangover[c] \in Nat /\ Preroll[c] \in Nat
    BY CallConstants DEF CallInv, CallTypes
  <1>3. \A j \in 1..Len(gated) : gated'[j].loud <=> gated[j].loud
    BY <1>1
  <1>4. gated'[Len(gated) + 1].loud <=> loud
    BY <1>1
  <1>5. i <= (Len(gated) + 1) + Hangover[c]
    BY <1>2
  <1>6. ASSUME Near(c, i) PROVE Near(c, i)'
    <2>1. PICK j \in 1..Len(gated) : gated[j].loud /\ i <= j + Hangover[c] /\ j <= i + Preroll[c]
      BY <1>6 DEF Near, Loud
    <2>2. j \in 1..Len(gated') /\ gated'[j].loud
      BY <1>1, <1>2, <1>3, <2>1
    <2> QED
      BY <2>1, <2>2 DEF Near, Loud
  <1>7. ASSUME loud, Len(gated) + 1 <= i + Preroll[c] PROVE Near(c, i)'
    <2>1. Len(gated) + 1 \in 1..Len(gated')
      BY <1>1, <1>2
    <2> QED
      BY <1>4, <1>5, <1>7, <2>1 DEF Near, Loud
  <1>8. ASSUME Near(c, i)' PROVE Near(c, i) \/ (loud /\ Len(gated) + 1 <= i + Preroll[c])
    <2>1. PICK j \in 1..Len(gated') : gated'[j].loud /\ i <= j + Hangover[c] /\ j <= i + Preroll[c]
      BY <1>8 DEF Near, Loud
    <2>2. CASE j \in 1..Len(gated)
      BY <1>3, <2>1, <2>2 DEF Near, Loud
    <2>3. CASE j = Len(gated) + 1
      BY <1>4, <2>1, <2>3
    <2> QED
      BY <1>1, <1>2, <2>2, <2>3
  <1> QED
    BY <1>6, <1>7, <1>8

LEMMA GateNumbers ==
  ASSUME NEW c \in Calls, CallInv(c)
  PROVE  /\ Len(gated) \in Nat /\ Hangover[c] \in Nat /\ Preroll[c] \in Nat \ {0}
         /\ len \in 0..Preroll[c] /\ len <= Len(gated) /\ hangover \in 0..Hangover[c]
         /\ Len(taken) \in Nat
  BY CallConstants DEF CallInv, CallTypes, RingHolds

\* The hangover counter after one more frame.
LEMMA CountsPush ==
  ASSUME NEW c \in Calls, CallInv(c), Counts(c), flags.vad, NEW loud \in BOOLEAN, Taken,
         Reaches(c, Len(taken) + 1, loud), len' > 0 => hangover' = 0
  PROVE  Counts(c)'
  <1>1. /\ Len(gated') = Len(gated) + 1
        /\ \A j \in 1..Len(gated) : gated'[j] = gated[j]
        /\ gated'[Len(gated) + 1] = [frame |-> Len(taken) + 1, loud |-> loud]
    BY GatePush
  <1>2. (\A j \in 1..Len(gated) : gated'[j].loud <=> gated[j].loud)
        /\ (gated'[Len(gated) + 1].loud <=> loud)
    BY <1>1
  <1>3. /\ Len(gated) \in Nat /\ Hangover[c] \in Nat /\ hangover \in 0..Hangover[c]
    BY GateNumbers
  <1>4. hangover' = IF loud THEN Hangover[c] ELSE IF hangover > 0 THEN hangover - 1 ELSE 0
    BY DEF Reaches, Sending!HangoverAfter
  <1>5. ASSUME NEW j \in 1..Len(gated'), gated'[j].loud
        PROVE  j + Hangover[c] <= Len(gated') + hangover'
    <2>1. CASE j \in 1..Len(gated)
      <3>1. j + Hangover[c] <= Len(gated) + hangover
        BY <1>2, <1>5, <2>1 DEF Counts, Loud
      <3> QED
        BY <1>1, <1>3, <1>4, <2>1, <3>1
    <2>2. CASE j = Len(gated) + 1
      <3>1. loud
        BY <1>2, <1>5, <2>2
      <3> QED
        BY <1>1, <1>3, <1>4, <2>2, <3>1
    <2> QED
      BY <1>1, <1>3, <2>1, <2>2
  <1>6. ASSUME hangover' > 0
        PROVE  \E j \in 1..Len(gated') : gated'[j].loud /\ j + Hangover[c] = Len(gated') + hangover'
    <2>1. CASE loud
      <3>1. Len(gated) + 1 \in 1..Len(gated')
        BY <1>1, <1>3
      <3>2. (Len(gated) + 1) + Hangover[c] = Len(gated') + hangover'
        BY <1>1, <1>3, <1>4, <2>1
      <3> QED
        BY <1>2, <2>1, <3>1, <3>2
    <2>2. CASE ~loud
      <3>1. hangover > 0 /\ hangover' = hangover - 1
        BY <1>3, <1>4, <1>6, <2>2
      <3>2. PICK j \in 1..Len(gated) : gated[j].loud /\ j + Hangover[c] = Len(gated) + hangover
        BY <3>1 DEF Counts, Loud
      <3>3. j \in 1..Len(gated') /\ gated'[j].loud /\ j + Hangover[c] = Len(gated') + hangover'
        BY <1>1, <1>2, <1>3, <3>1, <3>2
      <3> QED
        BY <3>3
    <2> QED
      BY <2>1, <2>2
  <1> QED
    BY <1>5, <1>6 DEF Counts, Loud

LEMMA GateWithheld ==
  ASSUME NEW c \in Calls, CallInv(c), GateInv(c), flags.vad, NEW loud \in BOOLEAN, Taken,
         Withheld(c, Len(taken) + 1, loud)
  PROVE  GateInv(c)'
  <1>1. /\ Reaches(c, Len(taken) + 1, loud) /\ todo' = <<>> /\ ~loud /\ hangover = 0
    <2>1. ~(loud \/ hangover > 0)
      BY DEF Withheld, Sending!PassVad
    <2> QED
      BY <2>1, GateNumbers DEF Withheld
  <1>2. hangover' = 0
    BY <1>1 DEF Reaches, Sending!HangoverAfter
  <1>3. /\ Len(gated') = Len(gated) + 1
        /\ \A j \in 1..Len(gated) : gated'[j] = gated[j]
        /\ gated'[Len(gated) + 1].frame = Len(taken) + 1
    <2>1. /\ Len(gated') = Len(gated) + 1
          /\ \A j \in 1..Len(gated) : gated'[j] = gated[j]
          /\ gated'[Len(gated) + 1] = [frame |-> Len(taken) + 1, loud |-> loud]
      BY <1>1, GatePush
    <2> QED
      BY <2>1
  <1>4. /\ Len(gated) \in Nat /\ Hangover[c] \in Nat /\ Preroll[c] \in Nat
        /\ len \in 0..Preroll[c] /\ len <= Len(gated) /\ Len(taken) \in Nat
    BY GateNumbers
  <1>5. len' = IF len = Preroll[c] THEN len ELSE len + 1
    BY RingPush
  <1>6. Counts(c)'
    BY <1>1, <1>2, CountsPush DEF GateInv
  <1>7. \A i \in 1..(Len(gated) + 1) : Near(c, i)' <=> Near(c, i)
    BY <1>1, NearGrows
  \* The frame the ring loses is too old for any frame to come.
  <1>8. ASSUME NEW i \in 1..(Len(gated') - len')
        PROVE  Near(c, i)' \/ i + Preroll[c] <= Len(gated')
    <2>1. CASE i \in 1..(Len(gated) - len)
      <3>1. Near(c, i) \/ i + Preroll[c] <= Len(gated)
        BY <2>1 DEF GateInv, Forgotten
      <3>2. i \in 1..(Len(gated) + 1)
        BY <1>4, <2>1
      <3> QED
        BY <1>3, <1>4, <1>7, <3>1, <3>2
    <2>2. CASE i \notin 1..(Len(gated) - len)
      <3>1. CASE len = Preroll[c]
        <4>1. i \in 1..((Len(gated) + 1) - len)
          BY <1>3, <1>5, <3>1
        <4>2. i = (Len(gated) + 1) - len
          BY <1>4, <2>2, <4>1
        <4> QED
          BY <1>3, <1>4, <3>1, <4>2
      <3>2. CASE len # Preroll[c]
        <4>1. i \in 1..((Len(gated) + 1) - (len + 1))
          BY <1>3, <1>5, <3>2
        <4> QED
          BY <1>4, <2>2, <4>1
      <3> QED
        BY <3>1, <3>2
    <2> QED
      BY <2>1, <2>2
  \* The new one is withheld: the last loud frame is more than a hangover ago.
  <1>9. ASSUME NEW i \in 1..Len(gated'), NEW x, x = gated'[i].frame
        PROVE  IsEmitted(x)' <=> Near(c, i)'
    <2>1. \A y : IsEmitted(y)' <=> IsEmitted(y)
      <3>1. Len(todo') = 0
        BY <1>1
      <3> QED
        BY <3>1, EmittedByFrame
    <2>2. x = gated'[i].frame
      BY <1>9
    <2>3. CASE i \in 1..Len(gated)
      <3>1. IsEmitted(x) <=> Near(c, i)
        BY <1>3, <2>2, <2>3 DEF GateInv, SentAreNear, GateFrame
      <3>2. i \in 1..(Len(gated) + 1)
        BY <1>4, <2>3
      <3> QED
        BY <1>7, <2>1, <3>1, <3>2
    <2>4. CASE i = Len(gated) + 1
      <3>1. ~IsEmitted(x)
        <4>1. x = Len(taken) + 1
          BY <1>3, <2>2, <2>4
        <4> QED
          BY <1>4, <4>1, EmittedTaken
      <3>2. ~Near(c, i)
        <4>1. \A j \in 1..Len(gated) : Loud(j) => j + Hangover[c] <= Len(gated)
          BY <1>1, <1>4 DEF GateInv, Counts
        <4> QED
          BY <1>4, <2>4, <4>1 DEF Near
      <3>3. i \in 1..(Len(gated) + 1)
        BY <1>4, <2>4
      <3> QED
        BY <1>7, <2>1, <3>1, <3>2, <3>3
    <2> QED
      BY <1>3, <1>4, <2>3, <2>4
  <1>10. SentAreNear(c)'
    BY <1>9 DEF SentAreNear, GateFrame, IsEmitted
  <1> QED
    BY <1>6, <1>8, <1>10 DEF GateInv, Forgotten

LEMMA GatePassed ==
  ASSUME NEW c \in Calls, CallInv(c), GateInv(c), flags.vad, NEW loud \in BOOLEAN, Taken,
         Passed(c, Len(taken) + 1, loud)
  PROVE  GateInv(c)'
  <1>1. /\ Reaches(c, Len(taken) + 1, loud) /\ len' = 0
    BY DEF Passed
  <1>2. loud \/ hangover > 0
    BY DEF Passed, Sending!PassVad
  <1>3. /\ Len(gated') = Len(gated) + 1
        /\ \A j \in 1..Len(gated) : gated'[j] = gated[j]
        /\ gated'[Len(gated) + 1].frame = Len(taken) + 1
    <2>1. /\ Len(gated') = Len(gated) + 1
          /\ \A j \in 1..Len(gated) : gated'[j] = gated[j]
          /\ gated'[Len(gated) + 1] = [frame |-> Len(taken) + 1, loud |-> loud]
      BY <1>1, GatePush
    <2> QED
      BY <2>1
  <1>4. /\ Len(gated) \in Nat /\ Hangover[c] \in Nat /\ Preroll[c] \in Nat
        /\ len \in 0..Preroll[c] /\ len <= Len(gated) /\ Len(taken) \in Nat
        /\ hangover \in 0..Hangover[c]
    BY GateNumbers
  <1>5. Counts(c)'
    BY <1>1, CountsPush DEF GateInv
  <1>6. \A i \in 1..(Len(gated) + 1) :
            Near(c, i)' <=> Near(c, i) \/ (loud /\ Len(gated) + 1 <= i + Preroll[c])
    BY <1>1, NearGrows
  \* What is flushed, and the frame itself, are near the frame that opened the gate;
  \* a gate that is still open has nothing to flush.
  <1>7. ASSUME NEW i \in 1..(Len(gated) + 1), i > Len(gated) - len
        PROVE  Near(c, i)'
    <2>1. CASE loud
      <3>1. Len(gated) + 1 <= i + Preroll[c]
        BY <1>4, <1>7
      <3> QED
        BY <1>6, <2>1, <3>1
    <2>2. CASE ~loud
      <3>1. hangover > 0 /\ len = 0
        BY <1>2, <1>4, <2>2 DEF GateInv, Counts
      <3>2. PICK j \in 1..Len(gated) : Loud(j) /\ j + Hangover[c] = Len(gated) + hangover
        BY <3>1 DEF GateInv, Counts
      <3>3. i <= j + Hangover[c] /\ j <= i + Preroll[c]
        BY <1>4, <1>7, <3>1, <3>2
      <3>4. Near(c, i)
        BY <3>2, <3>3 DEF Near
      <3> QED
        BY <1>6, <3>4
    <2> QED
      BY <2>1, <2>2
  \* To an older frame the new one makes no difference.
  <1>8. ASSUME NEW i \in 1..(Len(gated) - len)
        PROVE  (Near(c, i)' <=> Near(c, i)) /\ (Near(c, i) \/ i + Preroll[c] <= Len(gated))
    <2>1. Near(c, i) \/ i + Preroll[c] <= Len(gated)
      BY DEF GateInv, Forgotten
    <2>2. i \in 1..(Len(gated) + 1)
      BY <1>4
    <2>3. i + Preroll[c] <= Len(gated) => ~(Len(gated) + 1 <= i + Preroll[c])
      BY <1>4
    <2> QED
      BY <1>6, <2>1, <2>2, <2>3
  <1>9. Forgotten(c)'
    <2>1. ASSUME NEW i \in 1..(Len(gated') - len')
          PROVE  Near(c, i)' \/ i + Preroll[c] <= Len(gated')
      <3>1. i \in 1..(Len(gated) + 1)
        BY <1>1, <1>3, <1>4
      <3>2. CASE i > Len(gated) - len
        BY <1>7, <3>1, <3>2
      <3>3. CASE ~(i > Len(gated) - len)
        <4>1. i \in 1..(Len(gated) - len)
          BY <1>4, <3>1, <3>3
        <4>2. i + Preroll[c] <= Len(gated) => i + Preroll[c] <= Len(gated')
          BY <1>3, <1>4, <3>1
        <4> QED
          BY <1>8, <4>1, <4>2
      <3> QED
        BY <3>2, <3>3
    <2> QED
      BY <2>1 DEF Forgotten
  <1>10. ASSUME NEW i \in 1..Len(gated'), NEW x, x = gated'[i].frame
         PROVE  IsEmitted(x)' <=> Near(c, i)'
    <2>1. IsEmitted(x)' <=> IsEmitted(x) \/ \E k \in 1..Len(todo') : todo'[k].frame = x
      BY EmittedByFrame
    <2>2. /\ Len(todo') = len + 1
          /\ \A k \in 1..len : todo'[k].frame = GateFrame(Len(gated) - len + k)
          /\ todo'[len + 1].frame = Len(taken) + 1
      <3>1. Len(taken) + 1 \in Nat
        BY <1>4
      <3> QED
        BY <3>1, Flush
    <2>3. i \in 1..(Len(gated) + 1) /\ x = gated'[i].frame
      BY <1>3, <1>10
    <2>4. CASE i = Len(gated) + 1
      <3>1. len + 1 \in 1..Len(todo') /\ todo'[len + 1].frame = x
        BY <1>3, <1>4, <2>2, <2>3, <2>4
      <3>2. i > Len(gated) - len
        BY <1>4, <2>4
      <3> QED
        BY <1>7, <2>1, <2>3, <3>1, <3>2
    <2>5. CASE i \in 1..Len(gated) /\ i > Len(gated) - len
      <3>1. PICK k : k = i - (Len(gated) - len)
        OBVIOUS
      <3>2. k \in 1..len /\ Len(gated) - len + k = i
        BY <1>4, <2>5, <3>1
      <3>3. x = GateFrame(i)
        BY <1>3, <2>3, <2>5 DEF GateFrame
      <3>4. k \in 1..Len(todo') /\ todo'[k].frame = x
        <4>1. todo'[k].frame = GateFrame(Len(gated) - len + k)
          BY <2>2, <3>2
        <4>2. k \in 1..Len(todo')
          BY <1>4, <2>2, <3>2
        <4> QED
          BY <3>2, <3>3, <4>1, <4>2
      <3> QED
        BY <1>7, <2>1, <2>3, <2>5, <3>4
    <2>6. CASE i \in 1..(Len(gated) - len)
      <3>1. i \in 1..Len(gated)
        BY <1>4, <2>6
      <3>2. x = GateFrame(i) /\ (IsEmitted(x) <=> Near(c, i))
        BY <1>3, <2>3, <3>1 DEF GateInv, SentAreNear, GateFrame
      <3>3. x \in 1..Len(taken)
        BY <3>1, <3>2 DEF CallInv, GatedTaken
      <3>4. ASSUME NEW k \in 1..Len(todo') PROVE todo'[k].frame # x
        <4>1. CASE k \in 1..len
          <5>1. Len(gated) - len + k \in 1..Len(gated) /\ i < Len(gated) - len + k
            BY <1>4, <2>6, <4>1, SMTT(30)
          <5>2. GateFrame(i) < GateFrame(Len(gated) - len + k)
            BY <3>1, <5>1 DEF CallInv, GatedTaken
          <5> QED
            BY <1>4, <2>2, <3>2, <3>3, <4>1, <5>2
        <4>2. CASE k = len + 1
          BY <1>4, <2>2, <3>3, <4>2
        <4> QED
          BY <1>4, <2>2, <4>1, <4>2
      <3> QED
        BY <1>8, <2>1, <2>6, <3>2, <3>4
    <2> QED
      BY <1>4, <2>3, <2>4, <2>5, <2>6
  <1>11. SentAreNear(c)'
    BY <1>10 DEF SentAreNear, GateFrame, IsEmitted
  <1> QED
    BY <1>5, <1>9, <1>11 DEF GateInv

LEMMA GateKept ==
  ASSUME NEW c \in Calls, CallInv(c), GateInv(c), flags.vad, FrameStep(c)
  PROVE  GateInv(c)'
  <1>1. CASE Elsewhere \/ Handed \/ Skipped
    <2>1. \A x : IsEmitted(x)' <=> IsEmitted(x)
      BY <1>1, EmittedKept
    <2>2. gated' = gated /\ hangover' = hangover /\ len' = len
      BY <1>1 DEF Elsewhere, Handed, Skipped, preroll
    <2>3. \A i : Near(c, i)' <=> Near(c, i)
      BY <2>2 DEF Near, Loud
    <2>4. Counts(c)' /\ Forgotten(c)'
      BY <2>2, <2>3 DEF GateInv, Counts, Forgotten, Loud
    <2>5. ASSUME NEW i \in 1..Len(gated), NEW x, x = gated[i].frame
          PROVE  IsEmitted(x)' <=> Near(c, i)'
      BY <2>1, <2>3, <2>5 DEF GateInv, SentAreNear, GateFrame
    <2>6. SentAreNear(c)'
      BY <2>2, <2>5 DEF SentAreNear, GateFrame, IsEmitted
    <2> QED
      BY <2>4, <2>6 DEF GateInv
  <1>2. CASE Taken /\ PastTheGate(Len(taken) + 1)
    <2>1. gated' = gated /\ hangover' = hangover /\ len' = len
      BY <1>2 DEF PastTheGate, preroll
    <2>2. \A i : Near(c, i)' <=> Near(c, i)
      BY <2>1 DEF Near, Loud
    <2>3. Counts(c)' /\ Forgotten(c)'
      BY <2>1, <2>2 DEF GateInv, Counts, Forgotten, Loud
    <2>4. ASSUME NEW i \in 1..Len(gated), NEW x, x = gated[i].frame
          PROVE  IsEmitted(x)' <=> Near(c, i)'
      <3>1. x \in 1..Len(taken) /\ (IsEmitted(x) <=> Near(c, i)) /\ Len(taken) \in Nat
        BY <2>4, GateNumbers DEF GateInv, SentAreNear, GateFrame, CallInv, GatedTaken
      <3>2. \A k \in 1..Len(todo') : todo'[k].frame # x
        <4>1. CASE todo' = <<>>
          BY <4>1
        <4>2. CASE \E p \in Packet : todo' = <<p>> /\ p.frame = Len(taken) + 1
          BY <3>1, <4>2
        <4> QED
          BY <1>2, <4>1, <4>2 DEF PastTheGate
      <3>3. IsEmitted(x)' <=> IsEmitted(x)
        BY <1>2, <3>2, EmittedByFrame
      <3> QED
        BY <2>2, <3>1, <3>3
    <2>5. SentAreNear(c)'
      BY <2>1, <2>4 DEF SentAreNear, GateFrame, IsEmitted
    <2> QED
      BY <2>3, <2>5 DEF GateInv
  <1>3. ASSUME Taken, NEW loud \in BOOLEAN, Withheld(c, Len(taken) + 1, loud)
        PROVE  GateInv(c)'
    BY <1>3, GateWithheld
  <1>4. ASSUME Taken, NEW loud \in BOOLEAN, Passed(c, Len(taken) + 1, loud)
        PROVE  GateInv(c)'
    BY <1>4, GatePassed
  <1> QED
    BY <1>1, <1>2, <1>3, <1>4 DEF FrameStep

(* Of the frames that reach the gate, exactly those are sent (or fail to   *)
(* encode) that a loud frame is near to, at most the hangover before or    *)
(* the pre-roll after them, also when the user mutes in between and the    *)
(* ring goes round (pass_vad and VadPreroll of voice.rs).                  *)
THEOREM GateSendsSpeech == Spec => []GateIsWindow
  <1> DEFINE c == "gate"
             GateOfCall == part = c => CallInv(c) /\ flags.vad /\ GateInv(c)
  <1>0. c \in Calls /\ "vad" \notin Switches[c]
    BY ThresholdStays DEF Calls
  <1> HIDE DEF c
  <1>1. Init => GateOfCall
    BY <1>0, CallBegins, CallStarts, GateStarts
  <1>2. GateOfCall /\ [Next]_vars => GateOfCall'
    <2> SUFFICES ASSUME GateOfCall, [Next]_vars, part' = c
                 PROVE  CallInv(c)' /\ flags'.vad /\ GateInv(c)'
      OBVIOUS
    <2>1. part = c /\ [Sending(c)!Next]_captureVars
      BY <1>0, CallStep
    <2>2. CallInv(c) /\ flags.vad /\ GateInv(c)
      BY <2>1
    <2>3. FrameStep(c) /\ Inputs /\ flags'.vad = flags.vad
      BY <1>0, <2>1, <2>2, FrameSteps
    <2> QED
      BY <1>0, <2>2, <2>3, CallKept, GateKept
  <1>3. GateOfCall => GateIsWindow
    <2> SUFFICES ASSUME CallInv(c), GateInv(c) PROVE Sending(c)!GateIsWindow
      BY DEF GateIsWindow, c
    <2>1. DOMAIN gated = 1..Len(gated) /\ DOMAIN sent = 1..Len(sent) /\ DOMAIN todo = 1..Len(todo)
      BY DEF CallInv, CallTypes
    <2>2. ASSUME NEW i \in DOMAIN gated
          PROVE  gated[i].frame \in Sending(c)!Emitted <=> Sending(c)!NearSpeech(i)
      <3>1. Sending(c)!NearSpeech(i) <=> Near(c, i)
        BY <2>1 DEF Sending!NearSpeech, Near, Loud
      <3>2. gated[i].frame \in Sending(c)!Emitted <=> IsEmitted(GateFrame(i))
        BY <2>1 DEF Sending!Emitted, IsEmitted, GateFrame
      <3> QED
        BY <2>1, <3>1, <3>2 DEF GateInv, SentAreNear
    <2> QED
      BY <2>2 DEF Sending!GateIsWindow
  <1> QED
    BY <1>1, <1>2, <1>3, PTL DEF Spec

(***************************************************************************)
(* The output path.  A pass that met no callback leaves more than the      *)
(* largest request; one that meets a callback may go by a queue level that *)
(* is out of date, but only by one, so what it adds too much is bounded.   *)
(***************************************************************************)
None == Output!None

\* Samples of a device, at the rate of the ring.
In48k(d, n) == (n * SampleRate) \div Rate[d]

HighMark == CHOOSE m \in Output!Marks : \A k \in Output!Marks : k <= m

\* More than the ring and the queue ever hold together.
Ceiling == 2 * (HighMark + FrameSize) + MaxMeets * FrameSize

Level == ring + In48k(device, queue)

InSlot == device # None /\ slot # None

Reading == pump \in {"check", "render"}

OutputTypes ==
    /\ device \in Devices \union {None} /\ slot \in Devices \union {None}
    /\ ring \in Nat /\ queue \in Nat /\ sigQueued \in Nat /\ sigRequest \in Nat
    /\ need \in Nat /\ low \in Nat /\ seen \in Nat /\ pull \in Nat /\ asked \in Nat
    /\ skips \in 0..1 /\ meets \in 0..MaxMeets /\ ahead \in Int
    /\ clean \in BOOLEAN
    /\ cb \in {"idle", "drain", "queued", "request"}
    /\ pump \in {"idle", "virtual", "load", "check", "render", "publish"}

\* Who is where: a callback is one of the device in use, and the second after a
\* top-up does not come.
Places ==
    /\ pump \in {"load", "check", "render"} => slot # None
    /\ pump = "virtual" => slot = None
    /\ cb # "idle" => device # None /\ need \in Requests[device] /\ skips = 1
    /\ cb # "drain" => meets = 0

\* A pass that met a callback is known to have.
Overlap ==
    /\ clean /\ pump # "idle" => cb = "idle"
    /\ pump # "idle" /\ InSlot /\ ~clean => skips = 1
    /\ device # None /\ slot = None => asked = 0 \/ (skips = 1 /\ cb = "idle")

\* The low water of a pass is that of the largest request so far.
Asked ==
    /\ low <= HighMark /\ Output!LowWaterFor(sigRequest) <= HighMark
    /\ pull <= Output!PullFor(0, HighMark)
    /\ device # None => sigRequest = In48k(device, asked)
    /\ InSlot /\ pump # "idle" /\ (clean \/ cb = "drain") =>
           low = Output!LowWaterFor(sigRequest)

\* The queue level a pass has read is the one before the callback it meets.
Seen ==
    device # None =>
        /\ cb \in {"idle", "request"} => sigQueued = In48k(device, queue)
        /\ Reading /\ (clean \/ cb \in {"drain", "queued"}) => seen = sigQueued

\* What a pass adds on the strength of an old level.
Bounded ==
    /\ ring < HighMark + FrameSize
    /\ pump = "render" => ring + seen < low
    /\ device # None =>
        /\ Level < Ceiling
        /\ cb = "drain" =>
               /\ sigQueued <= In48k(device, queue)
               /\ Level < sigQueued + HighMark + FrameSize + meets * FrameSize
        /\ cb = "queued" =>
               In48k(device, queue) < sigQueued + HighMark + FrameSize + MaxMeets * FrameSize
        /\ Reading /\ cb # "drain" =>
               In48k(device, queue) < seen + HighMark + FrameSize + MaxMeets * FrameSize

Covered == Level >= In48k(device, asked) + FrameSize

\* While someone plays, the next callback's request is covered.
Provided ==
    device # None =>
        /\ skips = 0 /\ sigPlaying /\ asked > 0 => Covered
        /\ cb = "drain" /\ sigPlaying /\ need <= asked => Covered
        /\ pump = "publish" /\ slot # None /\ plays /\ asked > 0 /\ (cb = "drain" \/ clean) =>
               Covered

OutputInv ==
    /\ OutputTypes /\ Places /\ Overlap /\ Asked /\ Seen /\ Bounded /\ Provided
    /\ ~starved /\ ~dropped


(* Division rounds down. *)
LEMMA Quotient ==
  ASSUME NEW a \in Nat, NEW r \in Nat \ {0}
  PROVE  a \div r \in Nat /\ r * (a \div r) <= a /\ a < r * (a \div r) + r
  BY Z3

(* Of two multiples, the smaller has the smaller factor. *)
LEMMA Factors ==
  ASSUME NEW a \in Int, NEW b \in Int, NEW r \in Nat \ {0}, r * a < r * b + r
  PROVE  a <= b
  <1> SUFFICES ASSUME a >= b + 1 PROVE FALSE
    OBVIOUS
  <1>1. PICK k \in Nat : a = b + 1 + k
    <2>1. a - b - 1 \in Nat /\ a = b + 1 + (a - b - 1)
      OBVIOUS
    <2> QED
      BY <2>1
  <1>2. r * a = r * b + r + r * k
    BY <1>1
  <1>3. r * k >= 0
    OBVIOUS
  <1> QED
    BY <1>2, <1>3

(* Division keeps the order. *)
LEMMA QuotientsInOrder ==
  ASSUME NEW a \in Nat, NEW b \in Nat, NEW r \in Nat \ {0}, a <= b
  PROVE  a \div r <= b \div r
  BY Quotient, Factors

(* The parameters of the output path. *)
LEMMA OutputSizes ==
  /\ FrameSize \in Nat \ {0} /\ SampleRate \in Nat \ {0} /\ LowWater \in Nat
  /\ RingSize \in Nat /\ SafetyCap \in Nat /\ JitterMax \in Nat /\ TargetMax \in Nat
  /\ MaxSkips = 1 /\ MaxMeets \in Nat
  /\ None \notin Devices
  /\ \A d \in Devices :
        /\ Rate[d] \in Nat \ {0} /\ Requests[d] \subseteq Nat \ {0}
        /\ Output!DeviceFrame(d) \in Nat
        /\ Output!DeviceFrame(d) * SampleRate = FrameSize * Rate[d]
  <1>1. Output!OutputAssumption /\ MaxSkips = 1
    BY MediaAssumption, OutputSized
  <1>2. ASSUME NEW d \in Devices
        PROVE  /\ Rate[d] \in Nat \ {0} /\ Requests[d] \subseteq Nat \ {0}
               /\ Output!DeviceFrame(d) * SampleRate = FrameSize * Rate[d]
    BY <1>1 DEF Output!OutputAssumption
  <1>3. ASSUME NEW d \in Devices
        PROVE  Output!DeviceFrame(d) \in Nat
    <2>1. FrameSize * Rate[d] \in Nat
      BY <1>1, <1>2 DEF Output!OutputAssumption
    <2> QED
      BY <1>1, <2>1, Quotient DEF Output!OutputAssumption, Output!DeviceFrame
  <1>4. /\ FrameSize \in Nat \ {0} /\ SampleRate \in Nat \ {0} /\ LowWater \in Nat
        /\ RingSize \in Nat /\ SafetyCap \in Nat /\ JitterMax \in Nat /\ TargetMax \in Nat
        /\ MaxMeets \in Nat
    BY <1>1 DEF Output!OutputAssumption
  <1>5. None \notin Devices
    BY <1>1 DEF Output!OutputAssumption, None
  <1> QED
    BY <1>1, <1>2, <1>3, <1>4, <1>5

(* The rates. *)
LEMMA Converted ==
  ASSUME NEW d \in Devices, NEW n \in Nat
  PROVE  In48k(d, n) \in Nat
  <1>1. n * SampleRate \in Nat
    BY OutputSizes
  <1> QED
    BY <1>1, OutputSizes, Quotient DEF In48k

LEMMA ConvertedZero ==
  ASSUME NEW d \in Devices
  PROVE  In48k(d, 0) = 0
  <1>1. 0 * SampleRate = 0 /\ Rate[d] \in Nat \ {0}
    BY OutputSizes
  <1>2. 0 \div Rate[d] = 0
    <2>1. /\ 0 \div Rate[d] \in Nat
          /\ Rate[d] * (0 \div Rate[d]) < Rate[d] * 0 + Rate[d]
      BY <1>1, Quotient
    <2> QED
      BY <1>1, <2>1, Factors
  <1> QED
    BY <1>1, <1>2 DEF In48k

LEMMA ConvertedInOrder ==
  ASSUME NEW d \in Devices, NEW m \in Nat, NEW n \in Nat, m <= n
  PROVE  In48k(d, m) <= In48k(d, n)
  <1>1. /\ m * SampleRate \in Nat /\ n * SampleRate \in Nat
        /\ m * SampleRate <= n * SampleRate
    BY OutputSizes
  <1> QED
    BY <1>1, OutputSizes, QuotientsInOrder DEF In48k

(* A frame of the ring is a frame of the device. *)
LEMMA ConvertedFrame ==
  ASSUME NEW d \in Devices, NEW n \in Nat
  PROVE  In48k(d, n + Output!DeviceFrame(d)) = In48k(d, n) + FrameSize
  <1> DEFINE r == Rate[d]
             a == n * SampleRate
             f == Output!DeviceFrame(d)
             q == (a + r * FrameSize) \div r
  <1>1. r \in Nat \ {0} /\ a \in Nat /\ f \in Nat /\ FrameSize \in Nat /\ SampleRate \in Nat
    BY OutputSizes
  <1>2. (n + f) * SampleRate = a + r * FrameSize
    <2>1. f * SampleRate = r * FrameSize
      BY OutputSizes
    <2> QED
      BY <1>1, <2>1
  <1>3. a + r * FrameSize \in Nat
    BY <1>1
  <1>4. /\ q \in Nat /\ r * q <= a + r * FrameSize /\ a + r * FrameSize < r * q + r
        /\ a \div r \in Nat /\ r * (a \div r) <= a /\ a < r * (a \div r) + r
    BY <1>1, <1>3, Quotient
  <1>5. r * (a \div r + FrameSize) = r * (a \div r) + r * FrameSize
    BY <1>1, <1>4
  <1> DEFINE p == a \div r + FrameSize
  <1>6. p \in Nat /\ r * p <= a + r * FrameSize /\ a + r * FrameSize < r * p + r
    BY <1>1, <1>4, <1>5
  <1>7. r * q < r * p + r /\ r * p < r * q + r
    <2> HIDE DEF p, q
    <2>1. r * q \in Int /\ r * p \in Int
      BY <1>1, <1>4, <1>6
    <2> QED
      BY <1>1, <1>3, <1>4, <1>6, <2>1
  <1>8. q = p
    <2> HIDE DEF p, q
    <2> QED
      BY <1>1, <1>4, <1>6, <1>7, Factors
  <1> QED
    BY <1>2, <1>8 DEF In48k

(* What is below the cap at the rate of the ring is within it at the       *)
(* device's.                                                               *)
LEMMA UnderCap ==
  ASSUME NEW d \in Devices, NEW n \in Nat, In48k(d, n) < SafetyCap
  PROVE  n <= (SafetyCap * Rate[d]) \div SampleRate
  <1> DEFINE r == Rate[d]
             a == n * SampleRate
             c == (SafetyCap * r) \div SampleRate
  <1>1. /\ r \in Nat \ {0} /\ a \in Nat /\ SafetyCap \in Nat /\ SampleRate \in Nat \ {0}
        /\ SafetyCap * r \in Nat
    BY OutputSizes
  <1>2. a \div r \in Nat /\ a < r * (a \div r) + r
    BY <1>1, Quotient
  <1>3. a \div r + 1 <= SafetyCap
    BY <1>1, <1>2 DEF In48k
  <1>4. r * (a \div r) + r <= SafetyCap * r
    <2>1. PICK k \in Nat : SafetyCap = a \div r + 1 + k
      <3>1. SafetyCap - (a \div r + 1) \in Nat
        BY <1>1, <1>2, <1>3
      <3> QED
        BY <1>1, <1>2, <3>1
    <2>2. SafetyCap * r = r * (a \div r) + r + k * r
      BY <1>1, <1>2, <2>1
    <2>3. k * r >= 0
      BY <1>1
    <2> QED
      BY <1>1, <1>2, <2>2, <2>3
  <1>5. c \in Nat /\ SafetyCap * r < SampleRate * c + SampleRate
    BY <1>1, Quotient
  <1>6. SampleRate * n < SampleRate * c + SampleRate
    BY <1>1, <1>2, <1>4, <1>5
  <1> QED
    BY <1>1, <1>5, <1>6, Factors

(* The highest mark, and what fits above it. *)
LEMMA HighMarkIs ==
  /\ HighMark \in Nat /\ Output!LowWaterFor(0) <= HighMark
  /\ \A d \in Devices : \A n \in Requests[d] : Output!LowWaterFor(In48k(d, n)) <= HighMark
  /\ HighMark + FrameSize <= RingSize
  /\ Ceiling \in Nat /\ Ceiling <= SafetyCap
  /\ TargetMax + Output!PullFor(0, HighMark) <= JitterMax
  <1>1. Output!Sized
    BY OutputSized
  <1>2. PICK m \in Output!Marks :
            /\ \A k \in Output!Marks : k <= m
            /\ m + FrameSize <= RingSize
            /\ 2 * (m + FrameSize) + MaxMeets * FrameSize <= SafetyCap
            /\ TargetMax + Output!PullFor(0, m) <= JitterMax
    BY <1>1 DEF Output!Sized
  <1>3. Output!Marks \subseteq Nat
    <2>1. ASSUME NEW n \in Nat PROVE Output!LowWaterFor(n) \in Nat
      BY OutputSizes DEF Output!LowWaterFor, Output!MaxOf
    <2>2. ASSUME NEW d \in Devices, NEW n \in Requests[d]
          PROVE  (n * SampleRate) \div Rate[d] \in Nat
      <3>1. n \in Nat
        BY OutputSizes
      <3> QED
        BY <3>1, Converted DEF In48k
    <2> QED
      BY <2>1, <2>2 DEF Output!Marks
  <1>4. HighMark \in Output!Marks /\ \A k \in Output!Marks : k <= HighMark
    BY <1>2 DEF HighMark
  <1>5. HighMark = m
    BY <1>2, <1>3, <1>4
  <1>6. Output!LowWaterFor(0) \in Output!Marks
    BY DEF Output!Marks
  <1>7. ASSUME NEW d \in Devices, NEW n \in Requests[d]
        PROVE  Output!LowWaterFor(In48k(d, n)) \in Output!Marks
    BY DEF Output!Marks, In48k
  <1>8. MaxMeets * FrameSize \in Nat
    BY OutputSizes
  <1>9. /\ HighMark \in Nat /\ Output!LowWaterFor(0) <= HighMark
        /\ \A d \in Devices : \A n \in Requests[d] : Output!LowWaterFor(In48k(d, n)) <= HighMark
    BY <1>3, <1>4, <1>6, <1>7
  <1>10. Ceiling \in Nat /\ Ceiling <= SafetyCap
    BY <1>2, <1>5, <1>8, <1>9, OutputSizes DEF Ceiling
  <1> QED
    BY <1>2, <1>5, <1>9, <1>10

(* A pass asks for no more frames than the highest mark from nothing. *)
LEMMA PullSmall ==
  ASSUME NEW level \in Nat, NEW mark \in Nat, mark <= HighMark
  PROVE  /\ Output!PullFor(level, mark) \in Nat
         /\ Output!PullFor(level, mark) <= Output!PullFor(0, HighMark)
  <1> DEFINE a == Output!MaxOf(mark - level, 0) + FrameSize - 1
             b == Output!MaxOf(HighMark - 0, 0) + FrameSize - 1
  <1>1. a \in Nat /\ b \in Nat /\ a <= b
    BY OutputSizes, HighMarkIs DEF Output!MaxOf
  <1>2. a \div FrameSize \in Nat /\ a \div FrameSize <= b \div FrameSize
    <2> HIDE DEF a, b
    <2> QED
      BY <1>1, OutputSizes, Quotient, QuotientsInOrder
  <1> QED
    BY <1>2 DEF Output!PullFor

(* The queue of the device in use is within its cap. *)
LEMMA QueueInCap ==
  ASSUME OutputInv, device # None
  PROVE  queue <= Output!ToDevice(SafetyCap)
  <1>1. device \in Devices /\ queue \in Nat /\ ring \in Nat /\ Level < Ceiling
    BY DEF OutputInv, OutputTypes, Bounded
  <1>2. In48k(device, queue) < SafetyCap
    BY <1>1, Converted, HighMarkIs, OutputSizes DEF Level
  <1> QED
    BY <1>1, <1>2, UnderCap DEF Output!ToDevice

(* A callback starts with what the last pass provided. *)
LEMMA CallbackKeeps ==
  ASSUME OutputInv, NEW d \in Devices, NEW n \in Requests[d], Output!Callback(n)
  PROVE  OutputInv'
  <1>1. /\ cb = "idle" /\ device # None /\ n \in Requests[device] /\ skips = 0
        /\ pump # "idle" => clean
        /\ cb' = "drain" /\ need' = n /\ skips' = 1 /\ clean' = FALSE
        /\ UNCHANGED <<ahead, device, slot, ring, queue, sigQueued, sigRequest, sigPlaying,
                       pump, low, seen, pull, plays, asked, meets, dropped, starved>>
    BY OutputSizes
       DEF Output!Callback, Output!signalVars, Output!pumpVars, OutputInv, OutputTypes, None
  <1>2. device \in Devices /\ n \in Nat \ {0}
    BY <1>1, OutputSizes DEF OutputInv, OutputTypes
  <1>3. OutputTypes'
    <2>1. clean' \in BOOLEAN
      BY <1>1
    <2>2. need' \in Nat /\ skips' \in 0..1
      BY <1>1, <1>2
    <2> QED
      BY <1>1, <2>1, <2>2 DEF OutputInv, OutputTypes
  <1>4. Places' /\ Overlap'
    BY <1>1 DEF OutputInv, Places, Overlap, InSlot
  <1>5. Asked'
    BY <1>1 DEF OutputInv, Asked, InSlot
  <1>6. Seen'
    BY <1>1 DEF OutputInv, Seen, Reading
  <1>7. Bounded'
    BY <1>1, OutputSizes, HighMarkIs, Converted
       DEF OutputInv, OutputTypes, Places, Seen, Bounded, Level, Reading
  <1>8. Provided'
    BY <1>1, <1>2 DEF OutputInv, OutputTypes, Provided, Covered, Level
  <1> QED
    BY <1>1, <1>3, <1>4, <1>5, <1>6, <1>7, <1>8 DEF OutputInv

(* Popping moves a frame from the ring to the queue. *)
LEMMA DrainFrameKeeps ==
  ASSUME OutputInv, Output!DrainFrame
  PROVE  OutputInv'
  <1>1. /\ cb = "drain" /\ ring >= FrameSize /\ ring' = ring - FrameSize
        /\ queue' = queue + Output!DeviceFrame(device)
        /\ UNCHANGED <<ahead, device, slot, cb, need, sigQueued, sigRequest, sigPlaying, pump, low,
                       seen, pull, plays, skips, clean, asked, meets, dropped, starved>>
    BY DEF Output!DrainFrame, Output!signalVars, Output!pumpVars, Output!ghostVars
  <1>2. device \in Devices
    BY <1>1 DEF OutputInv, OutputTypes, Places
  <1>3. OutputTypes'
    BY <1>1, <1>2, OutputSizes DEF OutputInv, OutputTypes
  <1>4. Places' /\ Overlap' /\ Asked' /\ Seen'
    BY <1>1 DEF OutputInv, Places, Overlap, InSlot, Asked, Seen, Reading
  <1>5. In48k(device, queue)' = In48k(device, queue) + FrameSize /\ In48k(device, queue) \in Nat
    BY <1>1, <1>2, ConvertedFrame, Converted DEF OutputInv, OutputTypes
  <1>6. Level' = Level
    BY <1>1, <1>5, OutputSizes DEF Level, OutputInv, OutputTypes
  <1>7. Bounded'
    BY <1>1, <1>5, <1>6, OutputSizes, HighMarkIs
       DEF OutputInv, OutputTypes, Bounded, Reading
  <1>8. Provided'
    BY <1>1, <1>6 DEF OutputInv, Provided, Covered
  <1> QED
    BY <1>1, <1>3, <1>4, <1>7, <1>8 DEF OutputInv

(* A callback finds what it asks for, unless it never asked for as much. *)
LEMMA FillKeeps ==
  ASSUME OutputInv, Output!Fill
  PROVE  OutputInv'
  <1> DEFINE available == Output!Available
  <1>1. /\ cb = "drain" /\ ring < FrameSize
        /\ queue' = Output!Trimmed - available
        /\ starved' = (starved \/ (Output!RunsDry(available) /\ sigPlaying /\ need <= asked))
        /\ cb' = "queued" /\ meets' = 0
        /\ UNCHANGED <<ahead, device, slot, ring, need, sigQueued, sigRequest, sigPlaying, pump, low,
                       seen, pull, plays, skips, clean, asked, dropped>>
    BY DEF Output!Fill, Output!signalVars, Output!pumpVars
  <1>2. /\ device \in Devices /\ device # None /\ need \in Nat \ {0} /\ queue \in Nat
        /\ asked \in Nat /\ ring \in Nat
    BY <1>1, OutputSizes DEF OutputInv, OutputTypes, Places
  <1>3. Output!Trimmed = queue
    BY <1>2, QueueInCap, OutputSizes DEF Output!Trimmed, Output!MinOf
  <1>4. available = Output!MinOf(queue, need)
    BY <1>3 DEF Output!Available
  <1>5. queue' \in Nat /\ queue' <= queue
    BY <1>1, <1>2, <1>3, <1>4 DEF Output!MinOf
  <1>6. /\ In48k(device, queue) \in Nat /\ In48k(device, queue)' \in Nat
        /\ In48k(device, queue)' <= In48k(device, queue)
    <2>1. In48k(device, queue') <= In48k(device, queue)
      BY <1>2, <1>5, ConvertedInOrder
    <2> QED
      BY <1>1, <1>2, <1>5, <2>1, Converted
  <1>7. ~starved'
    <2> SUFFICES ASSUME Output!RunsDry(available), sigPlaying, need <= asked PROVE FALSE
      BY <1>1 DEF OutputInv
    <2>1. queue < need
      BY <1>2, <1>4 DEF Output!RunsDry, Output!MinOf
    <2>2. ring + In48k(device, queue) >= In48k(device, asked) + FrameSize
      BY <1>1, <1>2 DEF OutputInv, Provided, Covered, Level
    <2>3. In48k(device, queue) <= In48k(device, asked)
      BY <1>2, <2>1, ConvertedInOrder
    <2>4. In48k(device, asked) \in Nat
      BY <1>2, Converted
    <2> QED
      BY <1>1, <1>2, <1>6, <2>2, <2>3, <2>4, OutputSizes
  <1>8. OutputTypes'
    BY <1>1, <1>5, OutputSizes DEF OutputInv, OutputTypes
  <1>9. Places' /\ Overlap' /\ Asked' /\ Seen'
    BY <1>1 DEF OutputInv, Places, Overlap, InSlot, Asked, Seen, Reading
  <1>10. Bounded'
    <2>1. Level <= sigQueued + HighMark + FrameSize + MaxMeets * FrameSize - 1
      <3>1. meets * FrameSize <= MaxMeets * FrameSize
        BY OutputSizes DEF OutputInv, OutputTypes
      <3> QED
        BY <1>1, <1>2, <1>6, <3>1, OutputSizes, HighMarkIs
           DEF OutputInv, OutputTypes, Bounded, Level
    <2>2. Level' <= Level
      BY <1>1, <1>2, <1>6 DEF Level
    <2>3. Reading => seen = sigQueued
      BY <1>1, <1>2 DEF OutputInv, Seen
    <2> QED
      BY <1>1, <1>2, <1>6, <2>1, <2>2, <2>3, OutputSizes, HighMarkIs
         DEF OutputInv, OutputTypes, Bounded, Level, Reading
  <1>11. Provided'
    BY <1>1, <1>2 DEF OutputInv, Places, Overlap, Provided
  <1> QED
    BY <1>1, <1>7, <1>8, <1>9, <1>10, <1>11 DEF OutputInv

(* The level of the queue is published. *)
LEMMA PublishQueuedKeeps ==
  ASSUME OutputInv, Output!PublishQueued
  PROVE  OutputInv'
  <1>1. /\ cb = "queued" /\ cb' = "request"
        /\ sigQueued' = In48k(device, queue)
        /\ UNCHANGED <<ahead, device, slot, ring, queue, need, sigRequest, sigPlaying, pump, low,
                       seen, pull, plays, skips, clean, asked, meets, dropped, starved>>
    BY DEF Output!PublishQueued, Output!To48k, In48k, Output!pumpVars, Output!ghostVars
  <1>2. device \in Devices /\ device # None
    BY <1>1 DEF OutputInv, OutputTypes, Places
  <1>3. sigQueued' \in Nat
    BY <1>1, <1>2, Converted DEF OutputInv, OutputTypes
  <1>4. OutputTypes'
    BY <1>1, <1>3 DEF OutputInv, OutputTypes
  <1>5. Places' /\ Overlap' /\ Asked' /\ Seen'
    BY <1>1 DEF OutputInv, Places, Overlap, InSlot, Asked, Seen, Reading
  <1>6. Bounded'
    BY <1>1 DEF OutputInv, Bounded, Level, Reading
  <1>7. Provided'
    BY <1>1 DEF OutputInv, Provided, Covered, Level
  <1> QED
    BY <1>1, <1>4, <1>5, <1>6, <1>7 DEF OutputInv

(* The largest request is published, and its mark is no higher than any. *)
LEMMA PublishRequestKeeps ==
  ASSUME OutputInv, Output!PublishRequest
  PROVE  OutputInv'
  <1>1. /\ cb = "request" /\ cb' = "idle" /\ need' = 0
        /\ sigRequest' = Output!MaxOf(sigRequest, In48k(device, need))
        /\ asked' = Output!MaxOf(asked, need)
        /\ UNCHANGED <<ahead, device, slot, ring, queue, sigQueued, sigPlaying, pump, low, seen, pull,
                       plays, skips, clean, meets, dropped, starved>>
    BY DEF Output!PublishRequest, Output!To48k, In48k, Output!pumpVars
  <1>2. /\ device \in Devices /\ device # None /\ need \in Requests[device] /\ need \in Nat
        /\ asked \in Nat /\ skips = 1
    BY <1>1 DEF OutputInv, OutputTypes, Places
  <1>3. sigRequest = In48k(device, asked)
    BY <1>2 DEF OutputInv, Asked
  <1>4. /\ In48k(device, asked) \in Nat /\ In48k(device, need) \in Nat
        /\ asked <= need => In48k(device, asked) <= In48k(device, need)
        /\ need <= asked => In48k(device, need) <= In48k(device, asked)
    BY <1>2, Converted, ConvertedInOrder
  <1>5. sigRequest' = In48k(device, asked)' /\ asked' \in Nat /\ sigRequest' \in Nat
    <2>1. CASE asked <= need
      <3>1. asked' = IF asked = need THEN asked ELSE need
        BY <1>1, <1>2, <2>1 DEF Output!MaxOf
      <3>2. asked' = need
        BY <3>1
      <3>3. sigRequest' = In48k(device, need)
        BY <1>1, <1>3, <1>4, <2>1 DEF Output!MaxOf
      <3> QED
        BY <1>1, <1>2, <1>4, <3>2, <3>3
    <2>2. CASE ~(asked <= need)
      <3>1. asked' = asked
        BY <1>1, <1>2, <2>2 DEF Output!MaxOf
      <3>2. sigRequest' = In48k(device, asked)
        BY <1>1, <1>2, <1>3, <1>4, <2>2 DEF Output!MaxOf
      <3> QED
        BY <1>1, <1>2, <1>4, <3>1, <3>2
    <2> QED
      BY <2>1, <2>2
  <1>6. Output!LowWaterFor(sigRequest') <= HighMark
    <2>1. Output!LowWaterFor(In48k(device, need)) <= HighMark
      BY <1>2, HighMarkIs
    <2>2. Output!LowWaterFor(sigRequest) <= HighMark
      BY DEF OutputInv, Asked
    <2>3. sigRequest' \in {sigRequest, In48k(device, need)}
      BY <1>1 DEF Output!MaxOf
    <2> QED
      BY <2>1, <2>2, <2>3
  <1>7. OutputTypes'
    BY <1>1, <1>5 DEF OutputInv, OutputTypes
  <1>8. Places' /\ Overlap' /\ Seen'
    BY <1>1, <1>2 DEF OutputInv, Places, Overlap, InSlot, Seen, Reading
  <1>9. Asked'
    <2>1. pump # "idle" => ~clean
      BY <1>1 DEF OutputInv, Overlap
    <2>2. Output!LowWaterFor(sigRequest)' = Output!LowWaterFor(sigRequest')
      BY DEF Output!LowWaterFor, Output!MaxOf
    <2> QED
      BY <1>1, <1>5, <1>6, <2>1, <2>2 DEF OutputInv, Asked, InSlot
  <1>10. Bounded'
    BY <1>1 DEF OutputInv, Bounded, Level, Reading
  <1>11. Provided'
    <2>1. pump = "publish" => ~clean
      BY <1>1 DEF OutputInv, Overlap
    <2> QED
      BY <1>1, <1>2, <2>1 DEF Provided
  <1> QED
    BY <1>1, <1>7, <1>8, <1>9, <1>10, <1>11 DEF OutputInv

(* A pass takes the mark of the largest request, and notes whether it      *)
(* begins inside a callback.                                               *)
LEMMA PumpBeginKeeps ==
  ASSUME OutputInv, Output!PumpBegin
  PROVE  OutputInv'
  <1>1. /\ pump = "idle" /\ pump' = (IF slot = None THEN "virtual" ELSE "load")
        /\ low' = Output!LowWaterFor(IF slot = None THEN 0 ELSE sigRequest)
        /\ clean' = (cb = "idle") /\ ahead' = (IF slot = None THEN Output!Lag ELSE 0)
        /\ UNCHANGED <<device, slot, ring, queue, cb, need, sigQueued, sigRequest, sigPlaying,
                       seen, pull, plays, skips, asked, meets, dropped, starved>>
    BY DEF Output!PumpBegin, Output!signalVars, Output!cbVars, None
  <1>2. low' \in Nat /\ low' <= HighMark
    <2>1. Output!LowWaterFor(sigRequest) <= HighMark /\ sigRequest \in Nat
      BY DEF OutputInv, OutputTypes, Asked
    <2>2. \A n \in Nat : Output!LowWaterFor(n) \in Nat
      BY OutputSizes DEF Output!LowWaterFor, Output!MaxOf
    <2> QED
      BY <1>1, <2>1, <2>2, HighMarkIs
  <1>3. OutputTypes'
    <2>1. ahead' \in Int
      BY <1>1 DEF OutputInv, OutputTypes, Output!Lag
    <2> QED
      BY <1>1, <1>2, <2>1 DEF OutputInv, OutputTypes
  <1>4. Places' /\ Overlap' /\ Seen'
    BY <1>1 DEF OutputInv, Places, Overlap, InSlot, Seen, Reading
  <1>5. Asked'
    <2>1. Output!LowWaterFor(sigRequest)' = Output!LowWaterFor(sigRequest)
      BY <1>1 DEF Output!LowWaterFor, Output!MaxOf
    <2> QED
      BY <1>1, <1>2, <2>1 DEF OutputInv, Asked, InSlot
  <1>6. Bounded' /\ Provided'
    BY <1>1 DEF OutputInv, Bounded, Level, Reading, Provided, Covered
  <1> QED
    BY <1>1, <1>3, <1>4, <1>5, <1>6 DEF OutputInv

(* The queue's level is read. *)
LEMMA PumpLoadKeeps ==
  ASSUME OutputInv, Output!PumpLoad
  PROVE  OutputInv'
  <1>1. /\ pump = "load" /\ pump' = "check" /\ seen' = sigQueued
        /\ UNCHANGED <<ahead, device, slot, ring, queue, cb, need, sigQueued, sigRequest, sigPlaying,
                       low, pull, plays, skips, clean, asked, meets, dropped, starved>>
    BY DEF Output!PumpLoad, Output!signalVars, Output!cbVars, Output!ghostVars
  <1>2. OutputTypes'
    BY <1>1 DEF OutputInv, OutputTypes
  <1>3. Places' /\ Overlap' /\ Seen' /\ Asked'
    BY <1>1 DEF OutputInv, Places, Overlap, InSlot, Seen, Reading, Asked
  <1>4. Bounded'
    <2>1. device # None => In48k(device, queue) \in Nat
      BY Converted DEF OutputInv, OutputTypes
    <2>2. MaxMeets * FrameSize \in Nat
      BY OutputSizes
    <2> QED
      BY <1>1, <2>1, <2>2, OutputSizes, HighMarkIs
         DEF OutputInv, OutputTypes, Seen, Bounded, Level, Reading
  <1>5. Provided'
    BY <1>1 DEF OutputInv, Provided, Covered, Level
  <1> QED
    BY <1>1, <1>2, <1>3, <1>4, <1>5 DEF OutputInv

(* The level is compared with the mark: a pass that ends here has provided *)
(* for the largest request.                                                *)
LEMMA PumpCheckKeeps ==
  ASSUME OutputInv, Output!PumpCheck
  PROVE  OutputInv'
  <1>1. /\ pump = "check" /\ pull' = Output!PullFor(ring + seen, low)
        /\ pump' = (IF ring + seen < low THEN "render" ELSE "publish")
        /\ UNCHANGED <<ahead, device, slot, ring, queue, cb, need, sigQueued, sigRequest, sigPlaying,
                       low, seen, plays, skips, clean, asked, meets, dropped, starved>>
    BY DEF Output!PumpCheck, Output!signalVars, Output!cbVars, Output!ghostVars
  <1>2. pull' \in Nat /\ pull' <= Output!PullFor(0, HighMark)
    <2>1. ring + seen \in Nat /\ low \in Nat /\ low <= HighMark
      BY DEF OutputInv, OutputTypes, Asked
    <2> QED
      BY <1>1, <2>1, PullSmall
  <1>3. OutputTypes'
    BY <1>1, <1>2 DEF OutputInv, OutputTypes
  <1>4. Places' /\ Overlap' /\ Seen'
    BY <1>1 DEF OutputInv, Places, Overlap, InSlot, Seen, Reading
  <1>5. Asked'
    BY <1>1, <1>2 DEF OutputInv, Asked, InSlot, Output!LowWaterFor, Output!PullFor
  <1>6. Bounded'
    BY <1>1 DEF OutputInv, Bounded, Level, Reading
  <1>7. Provided'
    <2>1. Level' = Level /\ In48k(device, asked)' = In48k(device, asked)
      BY <1>1 DEF Level
    <2>2. ASSUME device # None, pump' = "publish", slot # None, cb = "drain" \/ clean
          PROVE  Covered
      <3>1. device \in Devices /\ queue \in Nat /\ ring \in Nat /\ asked \in Nat
        BY <2>2 DEF OutputInv, OutputTypes
      <3>2. In48k(device, queue) \in Nat /\ In48k(device, asked) \in Nat
        BY <3>1, Converted
      <3>3. low = Output!LowWaterFor(In48k(device, asked))
        BY <1>1, <2>2 DEF OutputInv, Asked, InSlot
      <3>4. low >= In48k(device, asked) + FrameSize
        BY <3>2, <3>3, OutputSizes DEF Output!LowWaterFor, Output!MaxOf
      <3>5. seen <= In48k(device, queue) /\ seen \in Nat
        <4>1. seen = sigQueued
          BY <1>1, <2>2 DEF OutputInv, Seen, Reading
        <4>2. CASE cb = "drain"
          BY <2>2, <4>1, <4>2 DEF OutputInv, OutputTypes, Bounded
        <4>3. CASE clean
          BY <1>1, <2>2, <3>2, <4>1, <4>3 DEF OutputInv, OutputTypes, Overlap, Seen
        <4> QED
          BY <2>2, <4>2, <4>3
      <3>6. ring + seen >= low
        BY <1>1, <2>2, <3>1, <3>5 DEF OutputInv, OutputTypes
      <3>7. low \in Nat
        BY DEF OutputInv, OutputTypes
      <3> QED
        BY <3>1, <3>2, <3>4, <3>5, <3>6, <3>7, OutputSizes DEF Covered, Level
    <2>3. Covered' <=> Covered
      BY <2>1 DEF Covered
    <2> QED
      BY <1>1, <2>2, <2>3 DEF OutputInv, Provided
  <1> QED
    BY <1>1, <1>3, <1>4, <1>5, <1>6, <1>7 DEF OutputInv

(* A frame is pushed below the mark, so that there is room for it; what is *)
(* pushed on the strength of an old level stays below the ceiling.         *)
LEMMA PumpPushKeeps ==
  ASSUME OutputInv, Output!PumpPush
  PROVE  OutputInv'
  <1>1. /\ pump = "render" /\ (cb = "drain" => meets < MaxMeets)
        /\ meets' = (IF cb = "drain" THEN meets + 1 ELSE 0)
        /\ ring' = Output!MinOf(ring + FrameSize, RingSize)
        /\ dropped' = (dropped \/ ring + FrameSize > RingSize)
        /\ pump' = (IF RingSize - ring < FrameSize THEN "publish" ELSE "load")
        /\ UNCHANGED <<ahead, device, slot, queue, cb, need, sigQueued, sigRequest, sigPlaying,
                       low, seen, pull, skips, clean, asked, starved>>
    BY DEF Output!PumpPush, Output!signalVars, Output!cbVars
  <1>2. /\ ring + seen < low /\ low <= HighMark /\ ring \in Nat /\ seen \in Nat /\ low \in Nat
    BY <1>1 DEF OutputInv, OutputTypes, Bounded, Asked
  <1>3. /\ ring' = ring + FrameSize /\ ~dropped' /\ pump' = "load"
        /\ ring' < HighMark + FrameSize /\ ring' \in Nat
    <2>1. ring + FrameSize <= RingSize /\ ring + FrameSize < HighMark + FrameSize
      BY <1>2, OutputSizes, HighMarkIs
    <2>2. ~dropped
      BY DEF OutputInv
    <2>3. ~(ring + FrameSize > RingSize) /\ ~(RingSize - ring < FrameSize)
      BY <1>2, <2>1, OutputSizes
    <2>4. ~dropped'
      BY <1>1, <2>2, <2>3
    <2> QED
      BY <1>1, <1>2, <2>1, <2>3, <2>4, OutputSizes DEF Output!MinOf
  <1>4. meets' \in 0..MaxMeets
    BY <1>1, OutputSizes DEF OutputInv, OutputTypes
  <1>5. OutputTypes'
    BY <1>1, <1>3, <1>4 DEF OutputInv, OutputTypes
  <1>6. Places' /\ Overlap' /\ Asked' /\ Seen'
    BY <1>1, <1>3 DEF OutputInv, Places, Overlap, InSlot, Asked, Seen, Reading
  <1>7. Bounded'
    <2> SUFFICES ASSUME device # None
                 PROVE  /\ Level' < Ceiling
                        /\ cb = "drain" =>
                             Level' < sigQueued + HighMark + FrameSize + meets' * FrameSize
      BY <1>1, <1>3 DEF OutputInv, Bounded, Reading
    <2> DEFINE q == In48k(device, queue)
               mf == MaxMeets * FrameSize
    <2>1. Level = ring + q /\ Level' = ring + FrameSize + q
      BY <1>1, <1>3 DEF Level
    <2>2. /\ q \in Nat /\ mf \in Nat /\ sigQueued \in Nat /\ FrameSize \in Nat /\ HighMark \in Nat
          /\ Ceiling = 2 * (HighMark + FrameSize) + mf
      BY Converted, OutputSizes, HighMarkIs DEF OutputInv, OutputTypes, Ceiling
    <2>3. CASE cb = "drain"
      <3>1. seen = sigQueued
        BY <1>1, <2>3 DEF OutputInv, Seen, Reading
      <3>2. /\ meets' = meets + 1 /\ meets \in Nat /\ meets' \in Nat
            /\ meets' * FrameSize = meets * FrameSize + FrameSize
            /\ meets' * FrameSize <= mf /\ meets * FrameSize \in Nat
        BY <1>1, <1>4, <2>3, OutputSizes DEF OutputInv, OutputTypes
      <3>3. Level < sigQueued + HighMark + FrameSize + meets * FrameSize
        BY <2>3 DEF OutputInv, Bounded
      <3> HIDE DEF q, mf
      <3>4. Level' < sigQueued + HighMark + FrameSize + meets' * FrameSize
        BY <1>2, <2>1, <2>2, <3>2, <3>3
      <3>5. Level' < Ceiling
        BY <1>2, <2>1, <2>2, <3>1, <3>2, <3>4
      <3> QED
        BY <3>4, <3>5
    <2>4. CASE cb # "drain"
      <3>1. q < seen + HighMark + FrameSize + mf
        BY <1>1, <2>4 DEF OutputInv, Bounded, Reading
      <3> HIDE DEF q, mf
      <3> QED
        BY <1>2, <2>1, <2>2, <2>4, <3>1
    <2> QED
      BY <2>3, <2>4
  <1>8. Provided'
    <2>1. device # None => Level' >= Level /\ Level \in Nat /\ Level' \in Nat
      <3>1. device # None => In48k(device, queue) \in Nat
        BY Converted DEF OutputInv, OutputTypes
      <3> QED
        BY <1>1, <1>2, <1>3, <3>1, OutputSizes DEF Level
    <2>2. device # None => In48k(device, asked) \in Nat
      BY Converted DEF OutputInv, OutputTypes
    <2>3. device # None /\ Covered => Covered'
      BY <1>1, <2>1, <2>2, OutputSizes DEF Covered
    <2> QED
      BY <1>1, <1>3, <2>3 DEF OutputInv, Provided
  <1> QED
    BY <1>1, <1>3, <1>5, <1>6, <1>7, <1>8 DEF OutputInv

(* Nothing is rendered, and so nobody plays. *)
LEMMA PumpDryKeeps ==
  ASSUME OutputInv, Output!PumpDry
  PROVE  OutputInv'
  <1>1. /\ pump = "render" /\ pump' = "publish" /\ plays' = FALSE
        /\ UNCHANGED <<ahead, device, slot, ring, queue, cb, need, sigQueued, sigRequest, sigPlaying,
                       low, seen, pull, skips, clean, asked, meets, dropped, starved>>
    BY DEF Output!PumpDry, Output!signalVars, Output!cbVars, Output!ghostVars
  <1>2. OutputTypes' /\ Places' /\ Overlap' /\ Asked' /\ Seen'
    BY <1>1 DEF OutputInv, OutputTypes, Places, Overlap, InSlot, Asked, Seen, Reading
  <1>3. Bounded' /\ Provided'
    BY <1>1 DEF OutputInv, Bounded, Level, Reading, Provided, Covered
  <1> QED
    BY <1>1, <1>2, <1>3 DEF OutputInv

(* Without a device there is nothing to provide for. *)
LEMMA PumpVirtualKeeps ==
  ASSUME OutputInv, Output!PumpVirtual
  PROVE  OutputInv'
  <1>1. /\ pump = "virtual" /\ pump' \in {"virtual", "publish"}
        /\ ahead' \in {ahead, ahead + 1, 0}
        /\ pull' = Output!PullFor(Output!MaxOf(ahead, 0) * FrameSize, low)
        /\ UNCHANGED <<device, slot, ring, queue, cb, need, sigQueued, sigRequest, sigPlaying,
                       low, seen, skips, clean, asked, meets, dropped, starved>>
    BY DEF Output!PumpVirtual, Output!signalVars, Output!cbVars, Output!ghostVars
  <1>2. slot = None
    BY <1>1 DEF OutputInv, Places
  <1>3. pull' \in Nat /\ pull' <= Output!PullFor(0, HighMark)
    <2>1. Output!MaxOf(ahead, 0) * FrameSize \in Nat
      BY OutputSizes DEF Output!MaxOf, OutputInv, OutputTypes
    <2> QED
      BY <1>1, <2>1, PullSmall DEF OutputInv, OutputTypes, Asked
  <1>4. OutputTypes'
    BY <1>1, <1>3 DEF OutputInv, OutputTypes
  <1>5. Places' /\ Overlap' /\ Seen' /\ Asked'
    BY <1>1, <1>2, <1>3
       DEF OutputInv, Places, Overlap, InSlot, Seen, Reading, Asked, Output!LowWaterFor,
           Output!PullFor
  <1>6. Bounded' /\ Provided'
    BY <1>1, <1>2 DEF OutputInv, Bounded, Level, Reading, Provided, Covered
  <1> QED
    BY <1>1, <1>4, <1>5, <1>6 DEF OutputInv

(* A pass that met no callback has provided for the next one. *)
LEMMA PumpEndKeeps ==
  ASSUME OutputInv, Output!PumpEnd
  PROVE  OutputInv'
  <1>1. /\ pump = "publish" /\ pump' = "idle" /\ sigPlaying' = plays
        /\ low' = 0 /\ seen' = 0 /\ pull' = 0
        /\ skips' = (IF clean /\ slot # None THEN 0 ELSE skips)
        /\ UNCHANGED <<ahead, device, slot, ring, queue, cb, need, sigQueued, sigRequest, plays,
                       clean, asked, meets, dropped, starved>>
    BY DEF Output!PumpEnd, Output!cbVars, None
  <1>2. OutputTypes'
    <2>1. skips' \in 0..1
      BY <1>1 DEF OutputInv, OutputTypes
    <2> QED
      BY <1>1, <2>1 DEF OutputInv, OutputTypes
  <1>3. Places' /\ Overlap' /\ Seen'
    BY <1>1 DEF OutputInv, Places, Overlap, InSlot, Seen, Reading
  <1>4. Asked'
    <2>1. /\ Output!LowWaterFor(sigRequest)' = Output!LowWaterFor(sigRequest)
          /\ Output!PullFor(0, HighMark)' = Output!PullFor(0, HighMark)
      BY <1>1 DEF Output!LowWaterFor, Output!MaxOf, Output!PullFor
    <2>2. 0 <= HighMark /\ 0 <= Output!PullFor(0, HighMark)
      <3>1. Output!PullFor(0, HighMark) \in Nat
        BY HighMarkIs, PullSmall
      <3> QED
        BY <3>1, HighMarkIs
    <2> QED
      BY <1>1, <2>1, <2>2 DEF OutputInv, Asked
  <1>5. Bounded'
    BY <1>1 DEF OutputInv, Bounded, Level, Reading
  <1>6. Provided'
    <2>1. Covered' <=> Covered
      BY <1>1 DEF Covered, Level
    <2>2. ASSUME device # None, plays, asked > 0, skips' = 0
          PROVE  Covered
      <3>1. asked # 0
        BY <2>2 DEF OutputInv, OutputTypes
      <3>2. slot # None
        BY <1>1, <2>2, <3>1 DEF OutputInv, Overlap
      <3>3. clean
        BY <1>1, <2>2, <3>2 DEF OutputInv, OutputTypes, Overlap, InSlot
      <3> QED
        BY <1>1, <2>2, <3>2, <3>3 DEF OutputInv, Provided
    <2>3. ASSUME device # None, plays, cb = "drain", need <= asked
          PROVE  Covered
      <3>1. need \in Nat \ {0} /\ asked \in Nat
        BY <2>3, OutputSizes DEF OutputInv, OutputTypes, Places
      <3>2. asked > 0
        BY <2>3, <3>1
      <3>3. slot # None
        BY <2>3, <3>1, <3>2 DEF OutputInv, Overlap
      <3> QED
        BY <1>1, <2>3, <3>2, <3>3 DEF OutputInv, Provided
    <2> QED
      BY <1>1, <2>1, <2>2, <2>3 DEF Provided
  <1> QED
    BY <1>1, <1>2, <1>3, <1>4, <1>5, <1>6 DEF OutputInv

(* Time passes without a device. *)
LEMMA ElapseKeeps ==
  ASSUME OutputInv, Output!Elapse
  PROVE  OutputInv'
  <1>1. /\ ahead' = ahead - 1
        /\ UNCHANGED <<device, slot, ring, queue, cb, need, sigQueued, sigRequest, sigPlaying,
                       pump, low, seen, pull, plays, skips, clean, asked, meets, dropped,
                       starved>>
    BY DEF Output!Elapse, Output!cbVars, Output!signalVars, Output!ghostVars
  <1>2. OutputTypes' /\ Places' /\ Overlap' /\ Asked' /\ Seen'
    BY <1>1 DEF OutputInv, OutputTypes, Places, Overlap, InSlot, Asked, Seen, Reading
  <1>3. Bounded' /\ Provided'
    BY <1>1 DEF OutputInv, Bounded, Level, Reading, Provided, Covered
  <1> QED
    BY <1>1, <1>2, <1>3 DEF OutputInv

(* A rebuild stops the stream, and empties the slot between two passes. *)
LEMMA StopKeeps ==
  ASSUME OutputInv, Output!StopStream \/ Output!EmptySlot
  PROVE  OutputInv'
  <1>1. /\ device' = None /\ slot' \in {slot, None} /\ cb = "idle"
        /\ slot' = slot \/ pump = "idle"
        /\ UNCHANGED <<ahead, ring, queue, cb, need, sigQueued, sigRequest, sigPlaying, pump,
                       low, seen, pull, plays, skips, clean, asked, meets, dropped, starved>>
    BY DEF Output!StopStream, Output!EmptySlot, Output!cbVars, Output!signalVars,
           Output!pumpVars, Output!ghostVars, None, OutputInv, Places
  <1>2. OutputTypes' /\ Places' /\ Overlap' /\ Asked' /\ Seen'
    BY <1>1 DEF OutputInv, OutputTypes, Places, Overlap, InSlot, Asked, Seen, Reading
  <1>3. Bounded' /\ Provided'
    BY <1>1 DEF OutputInv, Bounded, Provided
  <1> QED
    BY <1>1, <1>2, <1>3 DEF OutputInv

(* A new stream starts empty, and has asked for nothing yet. *)
LEMMA StartPlaybackKeeps ==
  ASSUME OutputInv, NEW d \in Devices, Output!StartPlayback(d)
  PROVE  OutputInv'
  <1>1. /\ device = None /\ slot = None /\ device' = d /\ ring' = 0 /\ queue' = 0
        /\ sigQueued' = 0 /\ sigRequest' = 0 /\ skips' = 0 /\ asked' = 0
        /\ UNCHANGED <<ahead, slot, cb, need, sigPlaying, pump, low, seen, pull, plays, clean,
                       meets, dropped, starved>>
    BY DEF Output!StartPlayback, Output!pumpVars, None
  <1>2. cb = "idle" /\ pump \in {"idle", "virtual", "publish"}
    BY <1>1 DEF OutputInv, OutputTypes, Places
  <1>3. OutputTypes'
    BY <1>1 DEF OutputInv, OutputTypes
  <1>4. In48k(device', 0) = 0
    BY <1>1, ConvertedZero
  <1>5. Places' /\ Overlap' /\ Seen'
    BY <1>1, <1>2, <1>4 DEF OutputInv, Places, Overlap, InSlot, Seen, Reading
  <1>6. Asked'
    <2>1. /\ Output!LowWaterFor(sigRequest)' <= HighMark
          /\ Output!PullFor(0, HighMark)' = Output!PullFor(0, HighMark)
      BY <1>1, HighMarkIs DEF Output!LowWaterFor, Output!MaxOf, Output!PullFor
    <2> QED
      BY <1>1, <1>4, <2>1 DEF OutputInv, Asked, InSlot
  <1>7. Bounded'
    <2>1. Level' = 0
      BY <1>1, <1>4 DEF Level
    <2>2. HighMark \in Nat /\ FrameSize \in Nat \ {0} /\ MaxMeets * FrameSize \in Nat
      BY OutputSizes, HighMarkIs
    <2> QED
      BY <1>1, <1>2, <2>1, <2>2 DEF Bounded, Ceiling, Reading
  <1>8. Provided'
    BY <1>1, <1>2 DEF Provided
  <1> QED
    BY <1>1, <1>3, <1>5, <1>6, <1>7, <1>8 DEF OutputInv

(* Its producer is put in the slot between two passes. *)
LEMMA FillSlotKeeps ==
  ASSUME OutputInv, Output!FillSlot
  PROVE  OutputInv'
  <1>1. /\ device # None /\ slot = None /\ pump = "idle" /\ slot' = device
        /\ UNCHANGED <<ahead, device, ring, queue, cb, need, sigQueued, sigRequest, sigPlaying,
                       pump, low, seen, pull, plays, skips, clean, asked, meets, dropped,
                       starved>>
    BY DEF Output!FillSlot, Output!cbVars, Output!signalVars, Output!pumpVars,
           Output!ghostVars, None
  <1>2. OutputTypes' /\ Places' /\ Overlap' /\ Asked' /\ Seen'
    BY <1>1 DEF OutputInv, OutputTypes, Places, Overlap, InSlot, Asked, Seen, Reading
  <1>3. Bounded' /\ Provided'
    BY <1>1 DEF OutputInv, Bounded, Level, Reading, Provided, Covered
  <1> QED
    BY <1>1, <1>2, <1>3 DEF OutputInv

(* PlayoutPump and PlaybackRenderer, for devices of any rates and requests *)
(* that the buffers are made for: however the two reads of the pump and    *)
(* the callback's pops and stores interleave, and rebuild_playback swaps   *)
(* the stream under them, the device finds what it asks for while someone  *)
(* plays, no rendered frame is lost, the queue stays within its cap, and   *)
(* no idle stream waits longer than its jitter ring is.                    *)
THEOREM OutputLevelHeld == Spec => []LevelHeld
  <1> DEFINE Inv == part = "output" => OutputInv
  <1>1. Init => Inv
    <2> SUFFICES ASSUME Init, part = "output" PROVE OutputInv
      OBVIOUS
    <2>1. Output!Init
      BY DEF Init
    <2>2. OutputTypes
      <3>1. /\ clean \in BOOLEAN
            /\ cb \in {"idle", "drain", "queued", "request"}
            /\ pump \in {"idle", "virtual", "load", "check", "render", "publish"}
            /\ device \in Devices \union {None} /\ slot \in Devices \union {None}
        BY <2>1 DEF Output!Init, None
      <3>2. 0 \in Nat /\ 0 \in Int /\ 0 \in 0..1 /\ 0 \in 0..MaxMeets
        BY OutputSizes
      <3> QED
        BY <2>1, <3>1, <3>2 DEF Output!Init, OutputTypes
    <2>3. Places /\ Overlap /\ Seen /\ Provided
      BY <2>1 DEF Output!Init, None, Places, Overlap, InSlot, Seen, Reading, Provided
    <2>4. Asked
      <3>1. Output!PullFor(0, HighMark) \in Nat
        BY HighMarkIs, PullSmall
      <3> QED
        BY <2>1, <3>1, HighMarkIs DEF Output!Init, None, Asked, InSlot
    <2>5. Bounded
      BY <2>1, OutputSizes, HighMarkIs DEF Output!Init, None, Bounded
    <2>6. ~starved /\ ~dropped
      BY <2>1 DEF Output!Init
    <2> QED
      BY <2>2, <2>3, <2>4, <2>5, <2>6 DEF OutputInv
  <1>2. Inv /\ [Next]_vars => Inv'
    <2> SUFFICES ASSUME Inv, [Next]_vars, part' = "output" PROVE OutputInv'
      OBVIOUS
    <2>1. part = "output" /\ OutputInv
      BY DEF Next, Speak, Play, Listen, vars
    <2>2. CASE UNCHANGED outputVars
      <3>1. OutputTypes' /\ Places' /\ Overlap' /\ Asked' /\ Seen'
        BY <2>1, <2>2 DEF outputVars, OutputInv, OutputTypes, Places, Overlap, InSlot, Asked,
                          Seen, Reading
      <3>2. Bounded' /\ Provided'
        BY <2>1, <2>2 DEF outputVars, OutputInv, Bounded, Level, Reading, Provided, Covered
      <3> QED
        BY <2>1, <2>2, <3>1, <3>2 DEF outputVars, OutputInv
    <2>3. CASE Output!Next
      BY <2>1, <2>3, CallbackKeeps, DrainFrameKeeps, FillKeeps, PublishQueuedKeeps,
         PublishRequestKeeps, PumpBeginKeeps, PumpLoadKeeps, PumpCheckKeeps, PumpPushKeeps,
         PumpDryKeeps, PumpVirtualKeeps, PumpEndKeeps, ElapseKeeps, StopKeeps,
         StartPlaybackKeeps, FillSlotKeeps DEF Output!Next, Output!Pump
    <2> QED
      BY <2>1, <2>2, <2>3 DEF Next, Speak, Play, Listen, vars
  <1>3. Inv => LevelHeld
    <2> SUFFICES ASSUME OutputInv PROVE Output!LevelHeld
      BY DEF LevelHeld
    <2>1. device # None => queue <= Output!ToDevice(SafetyCap)
      BY QueueInCap
    <2>2. TargetMax + pull <= JitterMax
      <3>1. pull <= Output!PullFor(0, HighMark) /\ pull \in Nat
        BY DEF OutputInv, OutputTypes, Asked
      <3>2. Output!PullFor(0, HighMark) \in Nat
        BY HighMarkIs, PullSmall
      <3> QED
        BY <3>1, <3>2, OutputSizes, HighMarkIs
    <2> QED
      BY <2>1, <2>2 DEF OutputInv, Output!LevelHeld, None
  <1> QED
    BY <1>1, <1>2, <1>3, PTL DEF Spec
=============================================================================
