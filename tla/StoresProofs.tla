----------------------------- MODULE StoresProofs -----------------------------
(***************************************************************************)
(* Proofs about what the clients keep and share outside the call: the      *)
(* levels the desktop's fast lane reads without a lock (LiveLevels), the   *)
(* settings file with the certificate pins (TrustStore) and the direct     *)
(* messages (DirectMessages), for every number of calls, servers,          *)
(* certificates, connects, crashes, peers and messages.                    *)
(***************************************************************************)
EXTENDS MCStores, Sequences, FiniteSets, FiniteSetTheorems, TLAPS

-----------------------------------------------------------------------------
(***************************************************************************)
(* The live levels.                                                        *)
(***************************************************************************)
LevelTypes ==
    /\ own \in [Levels!Calls -> {0, 1}]
    /\ peer \in [Levels!Calls -> Levels!PeerLevel]
    /\ version \in [Levels!Calls -> Nat]
    /\ started \in Nat
    /\ call \in Levels!Calls \union {Levels!NoCall}
    /\ live \in Levels!Calls \union {Levels!NoCall}
    /\ attached \in Levels!Calls \union {Levels!NoCall}
    /\ pc \in {"tick", "snap", "own", "peers", "gate"}
    /\ pc # "tick" => attached \in Levels!Calls
    /\ snapVer \in Nat /\ seen \in Nat

\* What the lane copied is not older than version v.
NotNewer(v) == v <= version[attached]
OwnOf(v)   == version[attached] = v /\ attached \notin ownBump => me = own[attached]
PeersOf(v) == version[attached] = v /\ attached \notin peerBump
                  => peerSeen = peer[attached]

\* What the lane holds counts once it has copied it: the gate was not open before.
Holds == pc = "gate" \/ (pc = "tick" /\ attached \in Levels!Calls /\ quiet # Levels!NotOpen)

LaneInv ==
    /\ LevelTypes
    /\ pc = "own" => NotNewer(snapVer)
    /\ pc = "peers" => NotNewer(snapVer) /\ OwnOf(snapVer)
    /\ Holds => NotNewer(seen) /\ OwnOf(seen) /\ PeersOf(seen)

LEMMA NoCallIsNone == Levels!NoCall \notin Levels!Calls
  BY StoresAssumption DEF Levels!NoCall, Levels!Calls, Levels!LevelsAssumption

(* A step of a writer, or of a call, that moves the version with every     *)
(* level it changes, or leaves a bump to come.                             *)
LEMMA WriterStep ==
  ASSUME LaneInv,
         UNCHANGED <<attached, pc, snapVer, seen, me, peerSeen, quiet, started, live>>,
         own' \in [Levels!Calls -> {0, 1}], peer' \in [Levels!Calls -> Levels!PeerLevel],
         version' \in [Levels!Calls -> Nat], call' \in Levels!Calls \union {Levels!NoCall},
         \A c \in Levels!Calls :
             /\ version[c] <= version'[c]
             /\ version'[c] = version[c] /\ c \notin ownBump'
                    => c \notin ownBump /\ own'[c] = own[c]
             /\ version'[c] = version[c] /\ c \notin peerBump'
                    => c \notin peerBump /\ peer'[c] = peer[c]
  PROVE  LaneInv'
  <1>1. LevelTypes'
    BY DEF LaneInv, LevelTypes
  <1>2. ASSUME attached \in Levels!Calls, NEW v \in Nat, NotNewer(v)
        PROVE  /\ NotNewer(v)'
               /\ OwnOf(v) => OwnOf(v)'
               /\ PeersOf(v) => PeersOf(v)'
    <2>1. /\ version[attached] \in Nat /\ version'[attached] \in Nat
          /\ v <= version[attached] /\ version[attached] <= version'[attached]
      BY <1>2 DEF LaneInv, LevelTypes, NotNewer
    <2>2. version'[attached] = v => version'[attached] = version[attached]
      BY <2>1
    <2> QED
      BY <1>2, <2>1, <2>2 DEF NotNewer, OwnOf, PeersOf
  <1>3. snapVer \in Nat /\ seen \in Nat /\ (pc # "tick" => attached \in Levels!Calls)
    BY DEF LaneInv, LevelTypes
  <1>4. pc' = "own" => NotNewer(snapVer)'
    BY <1>2, <1>3 DEF LaneInv, NotNewer
  <1>5. pc' = "peers" => NotNewer(snapVer)' /\ OwnOf(snapVer)'
    BY <1>2, <1>3 DEF LaneInv, NotNewer, OwnOf
  <1>6. Holds' => NotNewer(seen)' /\ OwnOf(seen)' /\ PeersOf(seen)'
    BY <1>2, <1>3 DEF LaneInv, Holds, NotNewer, OwnOf, PeersOf
  <1> QED
    BY <1>1, <1>4, <1>5, <1>6 DEF LaneInv

(* The writers and the ends of calls are such steps. *)
LEMMA WritersKeepLane ==
  ASSUME LaneInv, NEW c \in Levels!Calls,
         Levels!StartCall(c) \/ Levels!Writers(c) \/ Levels!Finish(c)
  PROVE  LaneInv'
  <1>0. /\ own \in [Levels!Calls -> {0, 1}] /\ peer \in [Levels!Calls -> Levels!PeerLevel]
        /\ version \in [Levels!Calls -> Nat] /\ started \in Nat
        /\ call \in Levels!Calls \union {Levels!NoCall}
        /\ 0 \in {0, 1} /\ Levels!Absent \in Levels!PeerLevel
    BY DEF LaneInv, LevelTypes, Levels!PeerLevel
  <1>1. CASE Levels!StartCall(c)
    <2>1. /\ call' = c /\ started' = c /\ c \in Nat
          /\ UNCHANGED <<own, peer, version, ownBump, peerBump, live, attached, pc, snapVer,
                         seen, me, peerSeen, quiet>>
      BY <1>1 DEF Levels!StartCall, Levels!levels, Levels!lane, Levels!Calls
    <2> QED
      BY <2>1 DEF LaneInv, LevelTypes, Holds, NotNewer, OwnOf, PeersOf
  <1>2. ASSUME NEW v \in {0, 1}, Levels!SetOwn(c, v)
        PROVE  LaneInv'
    <2>1. /\ own' = [own EXCEPT ![c] = v] /\ ownBump' = ownBump \union {c}
          /\ UNCHANGED <<peer, version, peerBump, started, call, live, attached, pc, snapVer,
                         seen, me, peerSeen, quiet>>
      BY <1>2 DEF Levels!SetOwn, Levels!calls, Levels!lane
    <2> QED
      BY <1>0, <2>1, WriterStep
  <1>3. ASSUME NEW p \in Levels!PeerLevel, Levels!PublishPeers(c, p)
        PROVE  LaneInv'
    <2>1. /\ peer' = [peer EXCEPT ![c] = p] /\ peerBump' = peerBump \union {c}
          /\ UNCHANGED <<own, version, ownBump, started, call, live, attached, pc, snapVer,
                         seen, me, peerSeen, quiet>>
      BY <1>3 DEF Levels!PublishPeers, Levels!calls, Levels!lane
    <2> QED
      BY <1>0, <2>1, WriterStep
  <1>4. CASE Levels!BumpOwn(c) \/ Levels!BumpPeers(c)
    <2>1. /\ version' = [version EXCEPT ![c] = version[c] + 1]
          /\ ownBump' \in {ownBump, ownBump \ {c}} /\ peerBump' \in {peerBump, peerBump \ {c}}
          /\ UNCHANGED <<own, peer, started, call, live, attached, pc, snapVer,
                         seen, me, peerSeen, quiet>>
      BY <1>4 DEF Levels!BumpOwn, Levels!BumpPeers, Levels!calls, Levels!lane
    <2>2. version[c] \in Nat /\ version[c] <= version[c] + 1 /\ version[c] + 1 # version[c]
      BY <1>0
    <2>3. \A d \in Levels!Calls : version[d] <= version'[d] /\ (d = c => version'[d] # version[d])
      BY <1>0, <2>1, <2>2
    <2>4. version' \in [Levels!Calls -> Nat]
      BY <1>0, <2>1, <2>2
    <2> QED
      BY <1>0, <2>1, <2>3, <2>4, WriterStep
  <1>5. CASE Levels!CaptureEnds(c)
    <2>1. /\ own' = [own EXCEPT ![c] = 0]
          /\ version' = [version EXCEPT ![c] =
                             IF own'[c] # own[c] THEN version[c] + 1 ELSE version[c]]
          /\ UNCHANGED <<peer, ownBump, peerBump, started, call, live, attached, pc, snapVer,
                         seen, me, peerSeen, quiet>>
      BY <1>5 DEF Levels!CaptureEnds, Levels!LastOwn, Levels!lane
    <2>2. version[c] \in Nat /\ version[c] <= version[c] + 1 /\ version[c] + 1 # version[c]
      BY <1>0
    <2>3. /\ version' \in [Levels!Calls -> Nat]
          /\ \A d \in Levels!Calls :
                 version[d] <= version'[d] /\ (version'[d] = version[d] => own'[d] = own[d])
      BY <1>0, <2>1, <2>2
    <2> QED
      BY <1>0, <2>1, <2>3, WriterStep
  <1> QED
    BY <1>1, <1>2, <1>3, <1>4, <1>5 DEF Levels!Writers, Levels!Finish

(* Clearing the levels of a call counts a version for each half it        *)
(* changes.                                                                *)
LEMMA DropKeepsLane ==
  ASSUME LaneInv, Levels!DropClears
  PROVE  LaneInv'
  <1>0. /\ own \in [Levels!Calls -> {0, 1}] /\ peer \in [Levels!Calls -> Levels!PeerLevel]
        /\ version \in [Levels!Calls -> Nat] /\ Levels!Absent \in Levels!PeerLevel
        /\ call \in Levels!Calls
    BY DEF LaneInv, LevelTypes, Levels!PeerLevel, Levels!DropClears
  <1> DEFINE n == Levels!ClearBumps(call)
  <1>1. /\ n \in Nat
        /\ n = 0 => own[call] = 0 /\ peer[call] = Levels!Absent
    BY DEF Levels!ClearBumps
  <1>2. /\ own' = [own EXCEPT ![call] = 0] /\ peer' = [peer EXCEPT ![call] = Levels!Absent]
        /\ version' = [version EXCEPT ![call] = version[call] + n]
        /\ call' = Levels!NoCall
        /\ UNCHANGED <<ownBump, peerBump, started, live, attached, pc, snapVer, seen, me,
                       peerSeen, quiet>>
    BY DEF Levels!DropClears, Levels!lane
  <1> HIDE DEF n
  <1>3. /\ version[call] \in Nat /\ version[call] + n \in Nat
        /\ version[call] <= version[call] + n
        /\ version[call] + n = version[call] => n = 0
    BY <1>0, <1>1
  <1>4. /\ version' \in [Levels!Calls -> Nat]
        /\ \A d \in Levels!Calls :
               /\ version[d] <= version'[d]
               /\ version'[d] = version[d] => own'[d] = own[d] /\ peer'[d] = peer[d]
    BY <1>0, <1>1, <1>2, <1>3
  <1> QED
    BY <1>0, <1>2, <1>4, WriterStep

(* The lane loads the version first and the levels after it. *)
LEMMA LaneKeepsLane ==
  ASSUME LaneInv, Levels!Lane
  PROVE  LaneInv'
  <1>0. LevelTypes /\ Levels!NoCall \notin Levels!Calls
    BY NoCallIsNone DEF LaneInv
  <1>1. UNCHANGED <<own, peer, version, ownBump, peerBump, started, call, live>>
    BY DEF Levels!Lane, Levels!Repoint, Levels!Tick, Levels!SnapVersion, Levels!SnapOwn,
           Levels!SnapPeers, Levels!Gate, Levels!levels, Levels!calls
  <1>2. CASE Levels!Repoint
    <2>1. /\ pc = "tick" /\ pc' = "tick" /\ attached' = live /\ quiet' = Levels!NotOpen
          /\ seen' = (IF live = Levels!NoCall THEN 0 ELSE version[live])
          /\ snapVer' = snapVer
      BY <1>2 DEF Levels!Repoint
    <2>2. LevelTypes' /\ ~Holds'
      BY <1>0, <1>1, <2>1 DEF LevelTypes, Holds, Levels!NotOpen
    <2> QED
      BY <2>1, <2>2 DEF LaneInv
  <1>3. CASE Levels!Tick
    <2>1. /\ pc = "tick" /\ attached \in Levels!Calls
          /\ pc' = "snap" \/ (pc' = "gate" /\ quiet # Levels!NotOpen)
          /\ UNCHANGED <<attached, snapVer, seen, me, peerSeen, quiet>>
      BY <1>0, <1>3 DEF Levels!Tick, LevelTypes
    <2> QED
      BY <1>0, <1>1, <2>1 DEF LaneInv, LevelTypes, Holds, NotNewer, OwnOf, PeersOf
  <1>4. CASE Levels!SnapVersion
    <2>1. /\ pc = "snap" /\ pc' = "own" /\ snapVer' = version[attached]
          /\ UNCHANGED <<attached, seen>>
      BY <1>4 DEF Levels!SnapVersion
    <2>2. version[attached] \in Nat
      BY <1>0, <2>1 DEF LevelTypes
    <2> QED
      BY <1>0, <1>1, <2>1, <2>2 DEF LaneInv, LevelTypes, Holds, NotNewer
  <1>5. CASE Levels!SnapOwn
    <2>1. /\ pc = "own" /\ pc' = "peers" /\ me' = own[attached]
          /\ UNCHANGED <<attached, snapVer, seen>>
      BY <1>5 DEF Levels!SnapOwn
    <2> QED
      BY <1>0, <1>1, <2>1 DEF LaneInv, LevelTypes, Holds, NotNewer, OwnOf
  <1>6. CASE Levels!SnapPeers
    <2>1. /\ pc = "peers" /\ pc' = "gate" /\ peerSeen' = peer[attached] /\ seen' = snapVer
          /\ UNCHANGED <<attached, snapVer, me>>
      BY <1>6 DEF Levels!SnapPeers, Levels!VersionOfSnapshot
    <2> QED
      BY <1>0, <1>1, <2>1 DEF LaneInv, LevelTypes, Holds, NotNewer, OwnOf, PeersOf
  <1>7. CASE Levels!Gate
    <2>1. /\ pc = "gate" /\ pc' = "tick"
          /\ UNCHANGED <<attached, snapVer, seen, me, peerSeen>>
      BY <1>7 DEF Levels!Gate
    <2> QED
      BY <1>0, <1>1, <2>1 DEF LaneInv, LevelTypes, Holds, NotNewer, OwnOf, PeersOf
  <1> QED
    BY <1>2, <1>3, <1>4, <1>5, <1>6, <1>7 DEF Levels!Lane

(* "The data may be newer than the version, never older", for any number   *)
(* of calls and writes: the lane of fast_levels.rs copies version, own     *)
(* level and peers one after the other while two threads write.            *)
THEOREM LaneSnapshot == Spec => []SnapshotNeverOlder
  <1>1. Init => LaneInv
    <2> SUFFICES ASSUME Init PROVE LaneInv
      OBVIOUS
    <2>1. Levels!Init
      BY DEF Init
    <2> QED
      BY <2>1, NoCallIsNone DEF Levels!Init, LaneInv, LevelTypes, Holds, Levels!NoCall,
         Levels!PeerLevel
  <1>2. LaneInv /\ [Next]_vars => LaneInv'
    <2> SUFFICES ASSUME LaneInv, [Next]_vars PROVE LaneInv'
      OBVIOUS
    <2>1. CASE UNCHANGED levelVars
      BY <2>1 DEF levelVars, LaneInv, LevelTypes, Holds, NotNewer, OwnOf, PeersOf
    <2>2. CASE Levels!DropAborts \/ Levels!PumpPoll
      <3>1. /\ UNCHANGED <<own, peer, version, ownBump, peerBump, started, call, attached,
                           pc, snapVer, seen, me, peerSeen, quiet>>
            /\ live' \in {live, call}
        BY <2>2 DEF Levels!DropAborts, Levels!PumpPoll, Levels!levels, Levels!lane,
                    Levels!calls
      <3> QED
        BY <3>1 DEF LaneInv, LevelTypes, Holds, NotNewer, OwnOf, PeersOf
    <2>3. CASE Levels!Next
      BY <2>2, <2>3, WritersKeepLane, DropKeepsLane, LaneKeepsLane DEF Levels!Next
    <2> QED
      BY <2>1, <2>3 DEF Next, vars
  <1>3. LaneInv => SnapshotNeverOlder
    <2> SUFFICES ASSUME LaneInv, Levels!UpToDate, quiet # Levels!NotOpen
                 PROVE  me = own[attached] /\ peerSeen = peer[attached]
      BY DEF SnapshotNeverOlder, Levels!SnapshotNeverOlder
    <2>1. Holds /\ version[attached] = seen /\ attached \notin ownBump
          /\ attached \notin peerBump
      BY DEF Levels!UpToDate, LaneInv, LevelTypes, Holds
    <2> QED
      BY <2>1 DEF LaneInv, OwnOf, PeersOf
  <1> QED
    BY <1>1, <1>2, <1>3, PTL DEF Spec

-----------------------------------------------------------------------------
(***************************************************************************)
(* The settings file and the pins.                                         *)
(***************************************************************************)
Pins == [Servers -> Certs \union {None}]

\* What is in the file, and what a program that runs has in memory.
OnFile ==
    [agc : BOOLEAN \union {None}, paranoid : BOOLEAN \union {None},
     desk : DeskValues \union {None}, pins : Pins]
InMemory ==
    [agc : BOOLEAN, paranoid : BOOLEAN, desk : DeskValues \union {None}, pins : Pins]

TrustTypes(p) ==
    /\ running \subseteq {p}
    /\ file \in OnFile
    /\ DOMAIN mem = {p} /\ DOMAIN current = {p} /\ DOMAIN home = {p}
    /\ mem[p].pins \in Pins
    /\ p \in running => mem[p] \in InMemory
    /\ backup \in InMemory \union {None}
    /\ cert \in [Servers -> Certs]
    /\ home[p] \in Servers \union {None}
    /\ p = "tui" => home[p] \in Servers

\* Every pin is in P, the certificates shown.
Shown(pins, P) == \A s \in Servers : pins[s] # None => <<s, pins[s]>> \in P

AllShown(p) ==
    /\ Shown(file.pins, presented)
    /\ Shown(mem[p].pins, presented)
    /\ backup # None => Shown(backup.pins, presented)

\* The name the verifier pins under is the server of the only handshake in flight.
OneFlight(p) ==
    /\ IsFiniteSet(flights)
    /\ \A f, g \in flights : f = g
    /\ flights # {} => p \in running
    /\ flights \subseteq [prog : {p}, server : Servers, saves : BOOLEAN, live : BOOLEAN]
    /\ \A f \in flights : f.live => f.server = current[p]

\* What a start makes of contents c is what settings r show.
Restores(p, c, r) ==
    /\ Trust(p)!WithDefault(c.agc, TRUE) = r.agc
    /\ Trust(p)!WithDefault(c.paranoid, FALSE) = r.paranoid
    /\ p = "tui" => r.desk = None
    /\ p = "desktop" => c.desk = r.desk

Restorable(p) ==
    /\ p \in running => Restores(p, file, mem[p])
    /\ backup # None => p = "desktop"

TrustInv(p) == TrustTypes(p) /\ AllShown(p) /\ OneFlight(p) /\ Restorable(p)

LEMMA NoneIsNone ==
  /\ None \notin Certs /\ None \notin DeskValues /\ None \notin Servers /\ None \notin BOOLEAN
  BY StoresAssumption DEF Trust!TrustAssumption, Programs

LEMMA EmptyPins ==
  ASSUME NEW p \in Programs, NEW P
  PROVE  Trust(p)!NoPins \in Pins /\ Shown(Trust(p)!NoPins, P)
  BY DEF Trust!NoPins, Pins, Shown

(* What save_settings and save write restores what is in memory, and its   *)
(* pins are those in memory or none.                                       *)
LEMMA ContentsRestore ==
  ASSUME NEW p \in Programs, NEW r \in InMemory, p = "tui" => r.desk = None
  PROVE  /\ Trust(p)!Contents(p, r) \in OnFile
         /\ Restores(p, Trust(p)!Contents(p, r), r)
         /\ Trust(p)!Contents(p, r).pins \in {r.pins, Trust(p)!NoPins}
  <1>1. /\ r.agc \in BOOLEAN /\ r.paranoid \in BOOLEAN /\ r.pins \in Pins
        /\ r.desk \in DeskValues \union {None} /\ r.agc # None /\ r.paranoid # None
    BY NoneIsNone DEF InMemory
  <1>2. CASE p = "tui"
    <2> DEFINE c == Trust(p)!BuildSettings(r)
    <2>1. /\ c = [agc |-> r.agc, paranoid |-> IF r.paranoid THEN TRUE ELSE None,
                  desk |-> None, pins |-> Trust(p)!NoPins]
      BY DEF Trust!BuildSettings
    <2>2. Trust(p)!Contents(p, r) = c
      BY <1>2 DEF Trust!Contents
    <2> HIDE DEF c
    <2>3. /\ c.agc = r.agc /\ c.paranoid = (IF r.paranoid THEN TRUE ELSE None)
          /\ c.pins = Trust(p)!NoPins
      BY <2>1
    <2>4. c \in OnFile
      BY <1>1, <2>1, EmptyPins DEF OnFile
    <2>5. Trust(p)!WithDefault(c.paranoid, FALSE) = r.paranoid
      BY <1>1, <2>3, NoneIsNone DEF Trust!WithDefault
    <2> QED
      BY <1>1, <1>2, <2>2, <2>3, <2>4, <2>5 DEF Restores, Trust!WithDefault
  <1>3. CASE p = "desktop"
    <2>1. Trust(p)!Contents(p, r) = r
      BY <1>3 DEF Trust!Contents
    <2>2. r \in OnFile
      BY DEF InMemory, OnFile
    <2> QED
      BY <1>1, <1>3, <2>1, <2>2 DEF Restores, Trust!WithDefault
  <1> QED
    BY <1>2, <1>3 DEF Programs

(* save_tofu writes all pins and the settings, or leaves the file alone. *)
LEMMA SaveTofuRestores ==
  ASSUME NEW p \in Programs, p = "tui", NEW r \in InMemory, NEW P, r.desk = None,
         file \in OnFile, Restores(p, file, r), Shown(file.pins, P), Shown(r.pins, P),
         Trust(p)!SaveTofu(r)
  PROVE  file' \in OnFile /\ Restores(p, file', r) /\ Shown(file'.pins, P)
  <1> DEFINE c == Trust(p)!Contents(p, r)
  <1>1. c \in OnFile /\ Restores(p, c, r) /\ c = Trust(p)!BuildSettings(r)
    BY ContentsRestore DEF Trust!Contents
  <1>2. r.pins \in Pins
    BY DEF InMemory
  <1>3. file' = file \/ file' = [c EXCEPT !.pins = r.pins]
    BY <1>1 DEF Trust!SaveTofu
  <1> HIDE DEF c
  <1>4. CASE file' = file
    BY <1>4
  <1>5. CASE file' = [c EXCEPT !.pins = r.pins]
    <2>1. /\ file' \in OnFile /\ file'.pins = r.pins /\ file'.agc = c.agc
          /\ file'.paranoid = c.paranoid /\ file'.desk = c.desk
      BY <1>1, <1>2, <1>5 DEF OnFile
    <2> QED
      BY <1>1, <2>1 DEF Restores
  <1> QED
    BY <1>3, <1>4, <1>5

(* A program that starts has what the file restores. *)
LEMMA LoadRestores ==
  ASSUME NEW p \in Programs, file \in OnFile
  PROVE  /\ Trust(p)!Load(p) \in InMemory
         /\ Restores(p, file, Trust(p)!Load(p))
         /\ Trust(p)!Load(p).pins = file.pins
  <1> DEFINE r == Trust(p)!Load(p)
  <1>1. r = [agc      |-> Trust(p)!WithDefault(file.agc, TRUE),
             paranoid |-> Trust(p)!WithDefault(file.paranoid, FALSE),
             desk     |-> IF p = "desktop" THEN file.desk ELSE None,
             pins     |-> file.pins]
    BY DEF Trust!Load
  <1>2. /\ file.agc \in BOOLEAN \union {None} /\ file.paranoid \in BOOLEAN \union {None}
        /\ file.desk \in DeskValues \union {None} /\ file.pins \in Pins
    BY DEF OnFile
  <1>3. /\ Trust(p)!WithDefault(file.agc, TRUE) \in BOOLEAN
        /\ Trust(p)!WithDefault(file.paranoid, FALSE) \in BOOLEAN
    BY <1>2 DEF Trust!WithDefault
  <1> HIDE DEF r
  <1>4. r \in InMemory
    BY <1>1, <1>2, <1>3 DEF InMemory
  <1>5. Restores(p, file, r) /\ r.pins = file.pins
    BY <1>1 DEF Restores, Programs
  <1> QED
    BY <1>4, <1>5 DEF r

(* With one handshake at a time, none is in flight when a connect begins. *)
LEMMA NoneInFlight ==
  ASSUME NEW p \in Programs, OneFlight(p), Trust(p)!MayConnect(p)
  PROVE  flights = {} /\ p \in running
  <1>1. {f \in flights : f.prog = p} = flights
    BY DEF OneFlight
  <1>2. Cardinality(flights) < 1 /\ IsFiniteSet(flights)
    <2>1. Cardinality({f \in flights : f.prog = p}) < (IF p = "tui" THEN 1 ELSE 1)
      BY DEF Trust!MayConnect, Trust!Cardinality, Cardinality
    <2> QED
      BY <1>1, <2>1 DEF OneFlight
  <1>3. Cardinality(flights) \in Nat
    BY <1>2, FS_CardinalityType
  <1>4. Cardinality(flights) = 0
    BY <1>2, <1>3
  <1> QED
    BY <1>2, <1>4, FS_EmptySet DEF Trust!MayConnect

(* A program starts, quits, or dies in a save. *)
LEMMA StartStopKeepTrust ==
  ASSUME NEW p \in Programs, TrustInv(p),
         Trust(p)!Start(p) \/ Trust(p)!Quit(p) \/ Trust(p)!CrashInSave(p)
  PROVE  TrustInv(p)'
  <1>0. TrustTypes(p) /\ AllShown(p) /\ OneFlight(p) /\ Restorable(p)
    BY DEF TrustInv
  <1>1. CASE Trust(p)!Start(p)
    <2> DEFINE r == Trust(p)!Load(p)
    <2>1. /\ running' = running \union {p} /\ mem' = [mem EXCEPT ![p] = r]
          /\ UNCHANGED <<file, current, flights, home, cert, presented, backup>>
      BY <1>1 DEF Trust!Start, Trust!tofuVars
    <2>2. r \in InMemory /\ Restores(p, file, r) /\ r.pins = file.pins /\ r.pins \in Pins
      BY <1>0, LoadRestores DEF TrustTypes, InMemory
    <2> HIDE DEF r
    <2>3. mem'[p] = r /\ DOMAIN mem' = {p}
      BY <1>0, <2>1 DEF TrustTypes
    <2>4. TrustTypes(p)'
      BY <1>0, <2>1, <2>2, <2>3 DEF TrustTypes
    <2> QED
      BY <1>0, <2>1, <2>2, <2>3, <2>4 DEF TrustInv, AllShown, OneFlight, Restorable, Restores
  <1>2. CASE Trust(p)!Quit(p) \/ Trust(p)!CrashInSave(p)
    <2>1. /\ running' = running \ {p} /\ flights' = {f \in flights : f.prog # p}
          /\ current' = [current EXCEPT ![p] = None]
          /\ home' = [home EXCEPT ![p] = IF p = "tui" THEN home[p] ELSE None]
          /\ file' = file \/ file' = Trust(p)!NoSettings
          /\ UNCHANGED <<mem, cert, presented, backup>>
      BY <1>2 DEF Trust!Quit, Trust!CrashInSave, Trust!Ends
    <2>2. flights' = {} /\ running' = {}
      BY <1>0, <2>1 DEF OneFlight, TrustTypes
    <2>3. file' \in OnFile /\ Shown(file'.pins, presented)
      <3>1. CASE file' = file
        BY <1>0, <3>1 DEF TrustTypes, AllShown
      <3>2. CASE file' = Trust(p)!NoSettings
        BY <3>2, EmptyPins DEF Trust!NoSettings, OnFile
      <3> QED
        BY <2>1, <3>1, <3>2
    <2>4. TrustTypes(p)'
      BY <1>0, <2>1, <2>2, <2>3 DEF TrustTypes
    <2>5. OneFlight(p)'
      BY <2>2, FS_EmptySet DEF OneFlight
    <2> QED
      BY <1>0, <2>1, <2>2, <2>3, <2>4, <2>5 DEF TrustInv, AllShown, Restorable
  <1> QED
    BY <1>1, <1>2

(* A setting is changed and everything is saved. *)
LEMMA StoreKeepsTrust ==
  ASSUME NEW p \in Programs, TrustInv(p), p \in running,
         NEW r \in InMemory, Shown(r.pins, presented), p = "tui" => r.desk = None,
         mem' = [mem EXCEPT ![p] = r], file' = Trust(p)!Contents(p, r),
         UNCHANGED <<running, home, cert, presented, backup>>,
         OneFlight(p)', DOMAIN current' = DOMAIN current
  PROVE  TrustInv(p)'
  <1>0. TrustTypes(p) /\ AllShown(p) /\ Restorable(p)
    BY DEF TrustInv
  <1>1. mem'[p] = r /\ DOMAIN mem' = {p} /\ r.pins \in Pins
    BY <1>0 DEF TrustTypes, InMemory
  <1>2. /\ file' \in OnFile /\ Restores(p, file', r)
        /\ file'.pins \in {r.pins, Trust(p)!NoPins}
    BY ContentsRestore
  <1>3. TrustTypes(p)'
    BY <1>0, <1>1, <1>2 DEF TrustTypes
  <1>4. AllShown(p)'
    BY <1>0, <1>1, <1>2, EmptyPins DEF AllShown
  <1> QED
    BY <1>0, <1>1, <1>2, <1>3, <1>4 DEF TrustInv, Restorable, Restores

LEMMA SettingsKeepTrust ==
  ASSUME NEW p \in Programs, TrustInv(p),
         \/ \E v \in BOOLEAN : Trust(p)!SetAgc(p, v) \/ Trust(p)!SetParanoid(p, v)
         \/ p = "desktop" /\ \E v \in DeskValues : Trust(p)!SetDesk(v)
  PROVE  TrustInv(p)'
  <1>0. TrustTypes(p) /\ AllShown(p) /\ OneFlight(p) /\ Restorable(p)
    BY DEF TrustInv
  <1>1. p \in running
    BY DEF Trust!SetAgc, Trust!SetParanoid, Trust!SetDesk
  <1>2. /\ mem[p] \in InMemory /\ Shown(mem[p].pins, presented)
        /\ p = "tui" => mem[p].desk = None
    BY <1>0, <1>1 DEF TrustTypes, AllShown, Restorable, Restores
  <1> DEFINE Saved(r) ==
               /\ r \in InMemory /\ r.pins = mem[p].pins /\ (p = "tui" => r.desk = None)
               /\ mem' = [mem EXCEPT ![p] = r] /\ file' = Trust(p)!Contents(p, r)
               /\ UNCHANGED <<running, current, flights, home, cert, presented, backup>>
  <1>3. \E r : Saved(r)
    <2>1. ASSUME NEW v \in BOOLEAN, Trust(p)!SetAgc(p, v)
          PROVE  \E r : Saved(r)
      <3> WITNESS [mem[p] EXCEPT !.agc = v]
      <3>1. /\ [mem[p] EXCEPT !.agc = v] \in InMemory
            /\ [mem[p] EXCEPT !.agc = v].pins = mem[p].pins
            /\ [mem[p] EXCEPT !.agc = v].desk = mem[p].desk
        BY <1>2 DEF InMemory
      <3> QED
        BY <1>2, <2>1, <3>1 DEF Trust!SetAgc, Trust!Store, Trust!tofuVars
    <2>2. ASSUME NEW v \in BOOLEAN, Trust(p)!SetParanoid(p, v)
          PROVE  \E r : Saved(r)
      <3> WITNESS [mem[p] EXCEPT !.paranoid = v]
      <3>1. /\ [mem[p] EXCEPT !.paranoid = v] \in InMemory
            /\ [mem[p] EXCEPT !.paranoid = v].pins = mem[p].pins
            /\ [mem[p] EXCEPT !.paranoid = v].desk = mem[p].desk
        BY <1>2 DEF InMemory
      <3> QED
        BY <1>2, <2>2, <3>1 DEF Trust!SetParanoid, Trust!Store, Trust!tofuVars
    <2>3. ASSUME p = "desktop", NEW v \in DeskValues, Trust(p)!SetDesk(v)
          PROVE  \E r : Saved(r)
      <3> WITNESS [mem[p] EXCEPT !.desk = v]
      <3>1. /\ [mem[p] EXCEPT !.desk = v] \in InMemory
            /\ [mem[p] EXCEPT !.desk = v].pins = mem[p].pins
        BY <1>2 DEF InMemory
      <3> QED
        BY <1>2, <2>3, <3>1 DEF Trust!SetDesk, Trust!Store, Trust!tofuVars
    <2> QED
      BY <2>1, <2>2, <2>3
  <1>4. PICK r : Saved(r)
    BY <1>3
  <1>5. OneFlight(p)' /\ DOMAIN current' = DOMAIN current
    BY <1>0, <1>4 DEF OneFlight
  <1> QED
    BY <1>1, <1>2, <1>4, <1>5, StoreKeepsTrust

(* Export keeps what is in memory; import gives the handshakes in flight a *)
(* verifier of their own.                                                  *)
LEMMA BackupKeepsTrust ==
  ASSUME NEW p \in Programs, p = "desktop", TrustInv(p),
         Trust(p)!Export \/ Trust(p)!Import
  PROVE  TrustInv(p)'
  <1>0. TrustTypes(p) /\ AllShown(p) /\ OneFlight(p) /\ Restorable(p)
    BY DEF TrustInv
  <1>1. CASE Trust(p)!Export
    <2>1. /\ p \in running /\ backup' = mem[p]
          /\ UNCHANGED <<file, running, mem, current, flights, home, cert, presented>>
      BY <1>1 DEF Trust!Export, Trust!tofuVars
    <2> QED
      BY <1>0, <2>1 DEF TrustInv, TrustTypes, AllShown, OneFlight, Restorable, Restores
  <1>2. CASE Trust(p)!Import
    <2>1. /\ p \in running /\ backup # None
          /\ mem' = [mem EXCEPT ![p] = backup] /\ file' = Trust(p)!Contents(p, backup)
          /\ flights' = {IF f.prog = p THEN [f EXCEPT !.live = FALSE] ELSE f : f \in flights}
          /\ current' = [current EXCEPT ![p] = None]
          /\ UNCHANGED <<running, home, cert, presented, backup>>
      BY <1>2 DEF Trust!Import
    <2>2. backup \in InMemory /\ Shown(backup.pins, presented)
      BY <1>0, <2>1 DEF TrustTypes, AllShown
    <2>3. flights' = {[f EXCEPT !.live = FALSE] : f \in flights}
      BY <1>0, <2>1 DEF OneFlight
    <2>4. IsFiniteSet(flights')
      <3>1. CASE flights = {}
        BY <2>3, <3>1, FS_EmptySet
      <3>2. ASSUME NEW f \in flights
            PROVE  IsFiniteSet(flights')
        <4>1. flights' = {[f EXCEPT !.live = FALSE]}
          BY <1>0, <2>3 DEF OneFlight
        <4> QED
          BY <4>1, FS_Singleton
      <3> QED
        BY <3>1, <3>2
    <2>5. OneFlight(p)'
      BY <1>0, <2>1, <2>3, <2>4 DEF OneFlight
    <2> QED
      BY <2>1, <2>2, <2>5, StoreKeepsTrust
  <1> QED
    BY <1>1, <1>2

(* A connect begins: the name is set and its handshake is the only one. *)
LEMMA ConnectKeepsTrust ==
  ASSUME NEW p \in Programs, TrustInv(p),
         \/ \E s \in Servers : Trust(p)!Connect(p, s)
         \/ Trust(p)!Reconnect(p)
         \/ p = "tui" /\ (Trust(p)!Trust \/ \E s \in Servers : Trust(p)!SetServer(s))
  PROVE  TrustInv(p)'
  <1>0. TrustTypes(p) /\ AllShown(p) /\ OneFlight(p) /\ Restorable(p)
    BY DEF TrustInv
  <1>1. p \in running /\ mem[p] \in InMemory /\ Shown(mem[p].pins, presented)
        /\ (p = "tui" => mem[p].desk = None) /\ Restores(p, file, mem[p])
    BY <1>0, NoneInFlight DEF Trust!Connect, Trust!Reconnect, Trust!Trust, Trust!SetServer,
       TrustTypes, AllShown, Restorable, Restores
  <1>2. LET c == Trust(p)!Contents(p, mem[p])
        IN  c \in OnFile /\ Restores(p, c, mem[p]) /\ Shown(c.pins, presented)
    BY <1>1, ContentsRestore, EmptyPins
  <1>3. ASSUME NEW s \in Servers, NEW saves \in BOOLEAN,
               flights' = {Trust(p)!Flight(p, s, saves)},
               current' = [current EXCEPT ![p] = s], running' = running
        PROVE  OneFlight(p)' /\ DOMAIN current' = {p}
    <2>1. current'[p] = s /\ DOMAIN current' = {p}
      BY <1>0, <1>3 DEF TrustTypes
    <2>2. flights' = {[prog |-> p, server |-> s, saves |-> saves, live |-> TRUE]}
      BY <1>3 DEF Trust!Flight
    <2>3. IsFiniteSet(flights')
      BY <2>2, FS_Singleton
    <2>4. /\ flights' \subseteq [prog : {p}, server : Servers, saves : BOOLEAN, live : BOOLEAN]
          /\ \A f \in flights' : f.server = s
      BY <2>2
    <2> QED
      BY <1>1, <1>3, <2>1, <2>2, <2>3, <2>4 DEF OneFlight
  <1>4. ASSUME NEW s \in Servers, Trust(p)!Connect(p, s)
        PROVE  TrustInv(p)'
    <2>1. flights = {}
      BY <1>0, <1>4, NoneInFlight DEF Trust!Connect
    <2>2. /\ file' = Trust(p)!Contents(p, mem[p]) /\ current' = [current EXCEPT ![p] = s]
          /\ flights' = {Trust(p)!Flight(p, s, TRUE)}
          /\ home' = [home EXCEPT ![p] = IF p = "tui" THEN s ELSE None]
          /\ UNCHANGED <<running, mem, cert, presented, backup>>
      BY <1>4, <2>1 DEF Trust!Connect, Trust!SetCurrentServer
    <2>3. OneFlight(p)' /\ DOMAIN current' = {p}
      BY <1>3, <2>2
    <2> QED
      BY <1>0, <1>1, <1>2, <2>2, <2>3 DEF TrustInv, TrustTypes, AllShown, Restorable
  <1>5. CASE Trust(p)!Reconnect(p)
    <2>1. flights = {} /\ home[p] \in Servers
      BY <1>0, <1>5, NoneInFlight DEF Trust!Reconnect, TrustTypes
    <2>2. /\ current' = [current EXCEPT ![p] = home[p]]
          /\ flights' = {Trust(p)!Flight(p, home[p], p = "tui")}
          /\ UNCHANGED <<file, home, running, mem, cert, presented, backup>>
      BY <1>5, <2>1 DEF Trust!Reconnect, Trust!SetCurrentServer
    <2>3. OneFlight(p)' /\ DOMAIN current' = {p}
      BY <1>3, <2>1, <2>2
    <2> QED
      BY <1>0, <2>2, <2>3 DEF TrustInv, TrustTypes, AllShown, Restorable
  <1>6. CASE p = "tui" /\ Trust(p)!Trust
    <2> DEFINE s == home[p]
               x == [mem[p].pins EXCEPT ![s] = None]
               r == [mem[p] EXCEPT !.pins = x]
    <2>1. flights = {} /\ s \in Servers
      BY <1>0, <1>6, NoneInFlight DEF Trust!Trust, TrustTypes
    <2>2. /\ mem' = [mem EXCEPT ![p] = r] /\ Trust(p)!SaveTofu(mem'[p])
          /\ current' = [current EXCEPT ![p] = s]
          /\ flights' = {Trust(p)!Flight(p, s, TRUE)}
          /\ UNCHANGED <<home, running, cert, presented, backup>>
      BY <1>6, <2>1 DEF Trust!Trust, Trust!SetCurrentServer
    <2>3. x \in Pins /\ Shown(x, presented)
      BY <1>1, <2>1 DEF InMemory, Pins, Shown
    <2> HIDE DEF x
    <2>4. /\ r \in InMemory /\ r.pins = x /\ r.agc = mem[p].agc
          /\ r.paranoid = mem[p].paranoid /\ r.desk = mem[p].desk
      BY <1>1, <2>3 DEF InMemory
    <2> HIDE DEF r
    <2>5. mem'[p] = r /\ DOMAIN mem' = {p}
      BY <1>0, <2>2 DEF TrustTypes
    <2>6. Restores(p, file, r) /\ r.desk = None
      BY <1>1, <1>6, <2>4 DEF Restores
    <2>7. file' \in OnFile /\ Restores(p, file', r) /\ Shown(file'.pins, presented)
      BY <1>0, <1>6, <2>2, <2>3, <2>4, <2>5, <2>6, SaveTofuRestores DEF TrustTypes, AllShown
    <2>8. OneFlight(p)' /\ DOMAIN current' = {p}
      BY <1>3, <2>1, <2>2
    <2>9. TrustTypes(p)'
      BY <1>0, <2>2, <2>3, <2>4, <2>5, <2>7, <2>8 DEF TrustTypes
    <2>10. AllShown(p)'
      BY <1>0, <2>2, <2>3, <2>4, <2>5, <2>7 DEF AllShown
    <2>11. Restorable(p)'
      BY <1>0, <2>2, <2>5, <2>7 DEF Restorable, Restores
    <2> QED
      BY <2>8, <2>9, <2>10, <2>11 DEF TrustInv
  <1>7. ASSUME p = "tui", NEW s \in Servers, Trust(p)!SetServer(s)
        PROVE  TrustInv(p)'
    <2>1. /\ file' = Trust(p)!Contents(p, mem[p]) /\ home' = [home EXCEPT ![p] = s]
          /\ UNCHANGED <<running, mem, current, flights, cert, presented, backup>>
      BY <1>7 DEF Trust!SetServer
    <2> QED
      BY <1>0, <1>1, <1>2, <2>1 DEF TrustInv, TrustTypes, AllShown, OneFlight, Restorable
  <1> QED
    BY <1>4, <1>5, <1>6, <1>7

(* A handshake ends.  The certificate is pinned under the current name,    *)
(* which is the name of the server that showed it.                         *)
LEMMA HandshakeKeepsTrust ==
  ASSUME NEW p \in Programs, TrustInv(p), NEW f \in flights,
         Trust(p)!Connected(f) \/ Trust(p)!BreaksLater(f) \/ Trust(p)!Unreachable(f)
  PROVE  TrustInv(p)'
  <1>0. TrustTypes(p) /\ AllShown(p) /\ OneFlight(p) /\ Restorable(p)
    BY DEF TrustInv
  <1>1. /\ f.prog = p /\ f.server \in Servers /\ f.live \in BOOLEAN /\ f.saves \in BOOLEAN
        /\ f.live => f.server = current[p]
    BY <1>0 DEF OneFlight
  <1>2. /\ p \in running /\ mem[p] \in InMemory /\ Restores(p, file, mem[p])
        /\ Shown(mem[p].pins, presented) /\ (p = "tui" => mem[p].desk = None)
    BY <1>0 DEF OneFlight, TrustTypes, Restorable, Restores, AllShown
  <1>3. /\ flights' = flights \ {f}
        /\ UNCHANGED <<running, current, cert, backup>>
        /\ home' = home \/ home' = [home EXCEPT ![p] = f.server]
    BY <1>1 DEF Trust!Connected, Trust!BreaksLater, Trust!Unreachable
  <1>4. flights' = {}
    BY <1>0, <1>3 DEF OneFlight
  <1>5. OneFlight(p)'
    BY <1>4, FS_EmptySet DEF OneFlight
  <1>6. /\ presented \subseteq presented'
        /\ mem'[p] \in InMemory /\ DOMAIN mem' = {p} /\ Shown(mem'[p].pins, presented')
        /\ mem'[p].agc = mem[p].agc /\ mem'[p].paranoid = mem[p].paranoid
        /\ mem'[p].desk = mem[p].desk
    <2>1. CASE Trust(p)!Verify(f)
      <3> DEFINE c == cert[f.server]
                 x == [mem[p].pins EXCEPT ![f.server] = c]
      <3>1. presented' = presented \union {<<f.server, c>>}
        BY <2>1 DEF Trust!Verify
      <3>2. CASE ~f.live
        BY <1>0, <1>2, <2>1, <3>1, <3>2 DEF Trust!Verify, TrustTypes, Shown
      <3>3. CASE f.live
        <4>1. c \in Certs /\ mem[p].pins \in Pins
          BY <1>0, <1>1, <1>2 DEF TrustTypes, InMemory
        <4>2. mem' = [mem EXCEPT ![p] = [mem[p] EXCEPT !.pins = x]]
          BY <1>1, <2>1, <3>3 DEF Trust!Verify
        <4>3. x \in Pins /\ Shown(x, presented')
          BY <1>1, <1>2, <3>1, <4>1 DEF Pins, Shown
        <4> HIDE DEF x
        <4>4. mem'[p] = [mem[p] EXCEPT !.pins = x] /\ DOMAIN mem' = {p}
          BY <1>0, <4>2 DEF TrustTypes
        <4>5. /\ mem'[p] \in InMemory /\ mem'[p].pins = x /\ mem'[p].agc = mem[p].agc
              /\ mem'[p].paranoid = mem[p].paranoid /\ mem'[p].desk = mem[p].desk
          BY <1>2, <4>3, <4>4 DEF InMemory
        <4> QED
          BY <3>1, <4>3, <4>4, <4>5
      <3> QED
        BY <1>1, <3>2, <3>3
    <2>2. CASE UNCHANGED <<mem, presented>>
      BY <1>0, <1>2, <2>2 DEF TrustTypes
    <2> QED
      BY <2>1, <2>2 DEF Trust!Connected, Trust!BreaksLater, Trust!Unreachable
  <1>7. Restores(p, file, mem'[p]) /\ (p = "tui" => mem'[p].desk = None)
    BY <1>2, <1>6 DEF Restores
  <1>8. Shown(file.pins, presented') /\ (backup # None => Shown(backup.pins, presented'))
    BY <1>0, <1>6 DEF AllShown, Shown
  <1>9. file' \in OnFile /\ Restores(p, file', mem'[p]) /\ Shown(file'.pins, presented')
    <2>1. CASE file' = file
      BY <1>0, <1>7, <1>8, <2>1 DEF TrustTypes
    <2>2. CASE p = "tui" /\ Trust(p)!SaveTofu(mem'[p])
      BY <1>0, <1>6, <1>7, <1>8, <2>2, SaveTofuRestores DEF TrustTypes
    <2>3. CASE file' = Trust(p)!Contents(p, mem'[p])
      BY <1>6, <1>7, <2>3, ContentsRestore, EmptyPins
    <2> QED
      BY <1>1, <2>1, <2>2, <2>3 DEF Trust!Connected, Trust!BreaksLater, Trust!Unreachable
  <1>10. TrustTypes(p)'
    <2>1. mem'[p].pins \in Pins
      BY <1>6 DEF InMemory
    <2>2. DOMAIN home' = {p} /\ home'[p] \in {home[p], f.server}
      BY <1>0, <1>3 DEF TrustTypes
    <2> QED
      BY <1>0, <1>1, <1>3, <1>6, <1>9, <2>1, <2>2 DEF TrustTypes
  <1>11. AllShown(p)'
    BY <1>3, <1>6, <1>8, <1>9 DEF AllShown
  <1>12. Restorable(p)'
    BY <1>0, <1>3, <1>9 DEF Restorable, Restores
  <1> QED
    BY <1>5, <1>10, <1>11, <1>12 DEF TrustInv

LEMMA TrustStep ==
  ASSUME NEW p \in Programs, TrustInv(p), Trust(p)!Next
  PROVE  TrustInv(p)'
  <1>1. ASSUME NEW s \in Servers, NEW c \in Certs, Trust(p)!Rotate(s, c)
        PROVE  TrustInv(p)'
    <2>1. /\ cert' = [cert EXCEPT ![s] = c]
          /\ UNCHANGED <<file, running, mem, current, flights, home, presented, backup>>
      BY <1>1 DEF Trust!Rotate, Trust!tofuVars
    <2>2. cert' \in [Servers -> Certs]
      BY <2>1 DEF TrustInv, TrustTypes
    <2> QED
      BY <2>1, <2>2 DEF TrustInv, TrustTypes, AllShown, OneFlight, Restorable
  <1> QED
    BY <1>1, StartStopKeepTrust, SettingsKeepTrust, BackupKeepsTrust, ConnectKeepsTrust,
       HandshakeKeepsTrust DEF Trust!Next, Trust!Tui, Trust!Desktop

TrustHolds == \A p \in Programs : part = p => TrustInv(p)

LEMMA TrustAlways == Spec => []TrustHolds
  <1>1. Init => TrustHolds
    <2> SUFFICES ASSUME Init, NEW p \in Programs, part = p PROVE TrustInv(p)
      BY DEF TrustHolds
    <2>1. Trust(p)!Init
      BY DEF Init, Programs, Scenes
    <2>2. /\ file = Trust(p)!NoSettings /\ running = {} /\ flights = {} /\ backup = None
          /\ mem = [q \in {p} |-> Trust(p)!NoSettings] /\ current = [q \in {p} |-> None]
      BY <2>1 DEF Trust!Init
    <2>3. PICK s \in Servers : home = [q \in {p} |-> IF q = "tui" THEN s ELSE None]
      BY <2>1 DEF Trust!Init
    <2>4. PICK c \in Certs : cert = [q \in Servers |-> c]
      BY <2>1 DEF Trust!Init
    <2>5. /\ file \in OnFile /\ file.pins = Trust(p)!NoPins /\ mem[p].pins = Trust(p)!NoPins
      BY <2>2, EmptyPins DEF OnFile, Trust!NoSettings
    <2>6. TrustTypes(p)
      BY <2>2, <2>3, <2>4, <2>5, EmptyPins DEF TrustTypes
    <2>7. AllShown(p) /\ OneFlight(p) /\ Restorable(p)
      BY <2>2, <2>5, EmptyPins, FS_EmptySet DEF AllShown, OneFlight, Restorable
    <2> QED
      BY <2>6, <2>7 DEF TrustInv
  <1>2. TrustHolds /\ [Next]_vars => TrustHolds'
    <2> SUFFICES ASSUME TrustHolds, [Next]_vars, NEW p \in Programs, part' = p
                 PROVE  TrustInv(p)'
      BY DEF TrustHolds
    <2>1. part = p /\ TrustInv(p)
      BY DEF TrustHolds, Next, vars
    <2>2. CASE UNCHANGED trustVars
      BY <2>1, <2>2 DEF trustVars, TrustInv, TrustTypes, AllShown, OneFlight, Restorable
    <2>3. CASE Trust(p)!Next
      BY <2>1, <2>3, TrustStep
    <2> QED
      BY <2>1, <2>2, <2>3 DEF Next, vars, Programs, Scenes
  <1> QED
    BY <1>1, <1>2, PTL DEF Spec

(* Trust on first use pins only what a server showed: a pin in the file or *)
(* in the memory of the running program is a certificate that server has   *)
(* presented, whatever the order of connects, renewals, restarts, imports  *)
(* and crashes inside a save, with one handshake at a time.                *)
THEOREM PinsAreTrue == Spec => []PinTruth
  <1>1. TrustHolds => PinTruth
    <2> SUFFICES ASSUME NEW p \in Programs, TrustInv(p)
                 PROVE  Trust(p)!PinTruth
      BY DEF TrustHolds, PinTruth
    <2>1. running \subseteq {p} /\ Shown(file.pins, presented) /\ Shown(mem[p].pins, presented)
      BY DEF TrustInv, TrustTypes, AllShown
    <2> QED
      BY <2>1 DEF Trust!PinTruth, Shown
  <1> QED
    BY <1>1, TrustAlways, PTL

(* A restart changes no setting: what a running program shows is what it   *)
(* would load now, although build_settings leaves out what is off, every   *)
(* connect saves, and save_tofu may skip its save.                         *)
THEOREM RestartsKeep == Spec => []RestartKeeps
  <1>1. TrustHolds => RestartKeeps
    <2> SUFFICES ASSUME NEW p \in Programs, TrustInv(p)
                 PROVE  Trust(p)!RestartKeeps
      BY DEF TrustHolds, RestartKeeps
    <2>1. running \subseteq {p} /\ (p \in running => Restores(p, file, mem[p]))
      BY DEF TrustInv, TrustTypes, Restorable
    <2> QED
      BY <2>1 DEF Trust!RestartKeeps, Restores, Trust!Load, Programs
  <1> QED
    BY <1>1, TrustAlways, PTL

-----------------------------------------------------------------------------
(***************************************************************************)
(* Direct messages.  Every message that is not on file yet is in the hands *)
(* of one task only.                                                       *)
(***************************************************************************)
Lines(s) == [peer : Peers[s], id : Nat, server : DmServers[s]]
Boxes(s) == DmServers[s] \X Peers[s]

DmTypes(s) ==
    /\ server \in DmServers[s] /\ conn \in {server, None}
    /\ rx \in Seq(Lines(s)) /\ late \subseteq Lines(s)
    /\ \/ drain = [at |-> "recv", line |-> None]
       \/ drain \in [at : {"lock", "notify"}, line : Lines(s)]
    /\ files \in [Boxes(s) -> Seq(Lines(s))]
    /\ sends \subseteq [at : {"asked", "ready", "done"}, line : Lines(s)]
    /\ events \in Seq(Lines(s))
    /\ dm \in Peers[s] \union {None}
    /\ fetches \subseteq [at : {"asked", "read"}, peer : Peers[s], lines : SUBSET Lines(s)]
    /\ count \in Nat /\ reconnects \in Nat

\* Who has message k: four ways to wait for the file, and the file.
InRx(k)    == \E i \in 1..Len(rx) : rx[i].id = k
InDrain(k) == drain.at = "lock" /\ drain.line.id = k
InLate(k)  == \E line \in late : line.id = k
InSends(k) == \E c \in sends : c.at # "done" /\ c.line.id = k
OnDisk(s, k) == \E b \in Boxes(s) : \E i \in 1..Len(files[b]) : files[b][i].id = k

Apart(s) ==
    \A k \in Nat :
        /\ InRx(k) => ~InDrain(k) /\ ~InLate(k) /\ ~InSends(k) /\ ~OnDisk(s, k)
        /\ InDrain(k) => ~InLate(k) /\ ~InSends(k) /\ ~OnDisk(s, k)
        /\ InLate(k) => ~InSends(k) /\ ~OnDisk(s, k)
        /\ InSends(k) => ~OnDisk(s, k)
        /\ InRx(k) \/ InDrain(k) \/ InLate(k) \/ InSends(k) \/ OnDisk(s, k) => k <= count

\* None of them has it twice.
RxOnce   == \A i, j \in 1..Len(rx) : rx[i].id = rx[j].id => i = j
LateOnce == \A l, m \in late : l.id = m.id => l = m
SendOnce == \A c, d \in sends :
                c.at # "done" /\ d.at # "done" /\ c.line.id = d.line.id => c = d
DiskOnce(s) ==
    \A b, d \in Boxes(s) : \A i \in 1..Len(files[b]), j \in 1..Len(files[d]) :
        files[b][i].id = files[d][j].id => b = d /\ i = j

\* A file holds the messages of its peer.
InItsFile(s) == \A b \in Boxes(s) : \A i \in 1..Len(files[b]) : files[b][i].peer = b[2]

Once(s) ==
    DmTypes(s) /\ Apart(s) /\ RxOnce /\ LateOnce /\ SendOnce /\ DiskOnce(s) /\ InItsFile(s)

(* history::append: a message that is not on file is on file once. *)
LEMMA FileLine ==
  ASSUME NEW s \in Scenes, DmTypes(s), DiskOnce(s), InItsFile(s),
         NEW sv \in DmServers[s], NEW line \in Lines(s), ~OnDisk(s, line.id),
         files' = Messages(s)!Filed(sv, line)
  PROVE  /\ files' \in [Boxes(s) -> Seq(Lines(s))]
         /\ DiskOnce(s)' /\ InItsFile(s)'
         /\ \A k \in Nat : OnDisk(s, k)' <=> OnDisk(s, k) \/ k = line.id
  <1> DEFINE b0 == <<sv, line.peer>>
             old(b) == Len(files[b])
  <1>1. b0 \in Boxes(s) /\ b0[2] = line.peer /\ line.id \in Nat
    BY DEF Boxes, Lines
  <1>2. files \in [Boxes(s) -> Seq(Lines(s))]
    BY DEF DmTypes
  <1>3. files' = [files EXCEPT ![b0] = Append(files[b0], line)]
    BY DEF Messages!Filed
  <1> HIDE DEF b0
  <1>4. files' \in [Boxes(s) -> Seq(Lines(s))]
    BY <1>1, <1>2, <1>3
  <1>5. \A b \in Boxes(s) : /\ Len(files[b]) \in Nat
                            /\ b # b0 => files'[b] = files[b]
    BY <1>2, <1>3
  <1>6. /\ files'[b0] = Append(files[b0], line) /\ Len(files'[b0]) = Len(files[b0]) + 1
        /\ \A i \in 1..Len(files[b0]) : files'[b0][i] = files[b0][i]
        /\ files'[b0][Len(files[b0]) + 1] = line
    BY <1>1, <1>2, <1>3
  \* A place of the new files is the new one or an old one.
  <1>7. ASSUME NEW b \in Boxes(s), NEW i \in 1..Len(files'[b])
        PROVE  \/ b = b0 /\ i = Len(files[b0]) + 1 /\ files'[b][i] = line
               \/ i \in 1..Len(files[b]) /\ files'[b][i] = files[b][i]
    <2>1. CASE b # b0
      BY <1>5, <2>1
    <2>2. CASE b = b0 /\ i = Len(files[b0]) + 1
      BY <1>6, <2>2
    <2>3. CASE b = b0 /\ i \in 1..Len(files[b0])
      BY <1>6, <2>3
    <2> QED
      BY <1>1, <1>5, <1>6, <2>1, <2>2, <2>3
  <1>8. ASSUME NEW b \in Boxes(s), NEW i \in 1..Len(files[b])
        PROVE  i \in 1..Len(files'[b]) /\ files'[b][i] = files[b][i]
    <2>1. CASE b # b0
      BY <1>5, <2>1
    <2>2. CASE b = b0
      BY <1>1, <1>5, <1>6, <2>2
    <2> QED
      BY <2>1, <2>2
  <1>9. Len(files[b0]) + 1 \in 1..Len(files'[b0])
    BY <1>1, <1>5, <1>6
  <1>10. InItsFile(s)'
    BY <1>1, <1>7 DEF InItsFile
  <1>11. \A k \in Nat : OnDisk(s, k)' <=> OnDisk(s, k) \/ k = line.id
    <2> SUFFICES ASSUME NEW k \in Nat PROVE OnDisk(s, k)' <=> OnDisk(s, k) \/ k = line.id
      OBVIOUS
    <2>1. OnDisk(s, k)' => OnDisk(s, k) \/ k = line.id
      BY <1>7 DEF OnDisk
    <2>2. OnDisk(s, k) => OnDisk(s, k)'
      BY <1>8 DEF OnDisk
    <2>3. k = line.id => OnDisk(s, k)'
      BY <1>1, <1>6, <1>9 DEF OnDisk
    <2> QED
      BY <2>1, <2>2, <2>3
  <1>12. DiskOnce(s)'
    <2> SUFFICES ASSUME NEW b \in Boxes(s), NEW d \in Boxes(s),
                        NEW i \in 1..Len(files'[b]), NEW j \in 1..Len(files'[d]),
                        files'[b][i].id = files'[d][j].id
                 PROVE  b = d /\ i = j
      BY DEF DiskOnce
    <2>1. \A e \in Boxes(s) : \A n \in 1..Len(files[e]) : files[e][n].id # line.id
      BY DEF OnDisk
    <2>2. CASE b = b0 /\ i = Len(files[b0]) + 1 /\ files'[b][i] = line
      BY <1>7, <2>1, <2>2
    <2>3. CASE i \in 1..Len(files[b]) /\ files'[b][i] = files[b][i]
      <3>1. j \in 1..Len(files[d]) /\ files'[d][j] = files[d][j]
        BY <1>7, <2>1, <2>3
      <3> QED
        BY <2>3, <3>1 DEF DiskOnce
    <2> QED
      BY <1>7, <2>2, <2>3
  <1> QED
    BY <1>4, <1>10, <1>11, <1>12

(* The drain task takes a message, files it and tells the window. *)
LEMMA DrainKeepsOnce ==
  ASSUME NEW s \in Scenes, Once(s),
         \/ \E p \in Peers[s] : Messages(s)!Arrives(p)
         \/ Messages(s)!DrainTakes \/ Messages(s)!DrainRecords \/ Messages(s)!DrainEmits
  PROVE  Once(s)'
  <1>0. DmTypes(s) /\ Apart(s) /\ RxOnce /\ LateOnce /\ SendOnce /\ DiskOnce(s) /\ InItsFile(s)
    BY DEF Once
  <1>1. ASSUME NEW p \in Peers[s], Messages(s)!Arrives(p)
        PROVE  Once(s)'
    <2> DEFINE line == [peer |-> p, id |-> count + 1, server |-> conn]
    <2>1. /\ conn # None /\ count' = count + 1 /\ rx' = Append(rx, line)
          /\ UNCHANGED <<server, conn, drain, late, files, sends, events, dm, fetches,
                         reconnects>>
      BY <1>1 DEF Messages!Arrives, Messages!Line, Messages!store, Messages!window
    <2>2. line \in Lines(s) /\ line.id = count + 1 /\ count \in Nat /\ rx \in Seq(Lines(s))
      BY <1>0, <2>1 DEF DmTypes, Lines
    <2> HIDE DEF line
    <2>3. /\ rx' \in Seq(Lines(s)) /\ Len(rx') = Len(rx) + 1 /\ Len(rx) \in Nat
          /\ \A i \in 1..Len(rx) : rx'[i] = rx[i] /\ i \in 1..Len(rx')
          /\ rx'[Len(rx) + 1] = line /\ Len(rx) + 1 \in 1..Len(rx')
      BY <2>1, <2>2
    <2>4. \A i \in 1..Len(rx') : i \in 1..Len(rx) \/ i = Len(rx) + 1
      BY <2>3
    <2>5. \A k \in Nat : InRx(k)' <=> InRx(k) \/ k = count + 1
      BY <2>2, <2>3, <2>4 DEF InRx
    <2>6. \A k \in Nat : /\ InDrain(k)' <=> InDrain(k)
                         /\ InLate(k)' <=> InLate(k)
                         /\ InSends(k)' <=> InSends(k)
                         /\ OnDisk(s, k)' <=> OnDisk(s, k)
      BY <2>1 DEF InDrain, InLate, InSends, OnDisk
    <2>7. \A k \in Nat : k <= count => k <= count + 1 /\ k # count + 1
      BY <2>2
    <2>8. Apart(s)'
      BY <1>0, <2>1, <2>2, <2>5, <2>6, <2>7 DEF Apart
    <2>9. RxOnce'
      <3>1. \A i \in 1..Len(rx) : rx[i].id # count + 1
        <4> SUFFICES ASSUME NEW i \in 1..Len(rx) PROVE rx[i].id # count + 1
          OBVIOUS
        <4>1. rx[i] \in Lines(s) /\ InRx(rx[i].id)
          BY <2>2 DEF InRx
        <4>2. rx[i].id \in Nat
          BY <4>1 DEF Lines
        <4> QED
          BY <1>0, <2>7, <4>1, <4>2 DEF Apart
      <3> QED
        BY <1>0, <2>2, <2>3, <2>4, <3>1 DEF RxOnce
    <2>10. DmTypes(s)'
      BY <1>0, <2>1, <2>2, <2>3 DEF DmTypes
    <2> QED
      BY <1>0, <2>1, <2>8, <2>9, <2>10 DEF Once, LateOnce, SendOnce, DiskOnce, InItsFile
  <1>2. CASE Messages(s)!DrainTakes
    <2>1. /\ drain = [at |-> "recv", line |-> None] /\ rx # <<>>
          /\ drain' = [at |-> "lock", line |-> Head(rx)] /\ rx' = Tail(rx)
          /\ UNCHANGED <<server, conn, late, files, sends, events, dm, fetches, count,
                         reconnects>>
      BY <1>2 DEF Messages!DrainTakes, Messages!AtRecv, Messages!store, Messages!window,
                  Messages!counts
    <2>2. rx \in Seq(Lines(s))
      BY <1>0 DEF DmTypes
    <2>3. /\ Len(rx) \in Nat /\ Len(rx) >= 1 /\ Head(rx) = rx[1] /\ rx[1] \in Lines(s)
          /\ rx' \in Seq(Lines(s)) /\ Len(rx') = Len(rx) - 1
          /\ \A i \in 1..Len(rx') : rx'[i] = rx[i + 1] /\ i + 1 \in 1..Len(rx)
          /\ 1 \in 1..Len(rx)
      BY <2>1, <2>2
    <2>4. \A k \in Nat : InRx(k)' => InRx(k) /\ k # rx[1].id
      <3> SUFFICES ASSUME NEW k \in Nat, NEW i \in 1..Len(rx'), rx'[i].id = k
                   PROVE  InRx(k) /\ k # rx[1].id
        BY DEF InRx
      <3>1. i + 1 \in 1..Len(rx) /\ rx[i + 1].id = k /\ i + 1 # 1
        BY <2>3
      <3> QED
        BY <1>0, <2>3, <3>1 DEF InRx, RxOnce
    <2>5. InRx(rx[1].id) /\ rx[1].id \in Nat
      BY <2>3 DEF InRx, Lines
    <2>6. \A k \in Nat : /\ InDrain(k)' <=> k = rx[1].id
                         /\ InLate(k)' <=> InLate(k)
                         /\ InSends(k)' <=> InSends(k)
                         /\ OnDisk(s, k)' <=> OnDisk(s, k)
      BY <2>1, <2>3 DEF InDrain, InLate, InSends, OnDisk
    <2>7. Apart(s)'
      BY <1>0, <2>1, <2>4, <2>5, <2>6 DEF Apart
    <2>8. RxOnce'
      <3> SUFFICES ASSUME NEW i \in 1..Len(rx'), NEW j \in 1..Len(rx'), rx'[i].id = rx'[j].id
                   PROVE  i = j
        BY DEF RxOnce
      <3>1. i + 1 = j + 1
        BY <1>0, <2>3 DEF RxOnce
      <3> QED
        BY <3>1
    <2>9. DmTypes(s)'
      BY <1>0, <2>1, <2>3 DEF DmTypes
    <2> QED
      BY <1>0, <2>1, <2>7, <2>8, <2>9 DEF Once, LateOnce, SendOnce, DiskOnce, InItsFile
  <1>3. CASE Messages(s)!DrainRecords
    <2>1. /\ drain.at = "lock" /\ files' = Messages(s)!Filed(server, drain.line)
          /\ drain' = [drain EXCEPT !.at = "notify"]
          /\ UNCHANGED <<server, conn, rx, late, sends, events, dm, fetches, count, reconnects>>
      BY <1>3 DEF Messages!DrainRecords, Messages!window, Messages!counts
    <2>2. /\ drain \in [at : {"lock", "notify"}, line : Lines(s)] /\ server \in DmServers[s]
          /\ drain.line \in Lines(s) /\ drain.line.id \in Nat
      BY <1>0, <2>1 DEF DmTypes, Lines
    <2>3. InDrain(drain.line.id) /\ ~OnDisk(s, drain.line.id)
      BY <1>0, <2>1, <2>2 DEF InDrain, Apart
    <2>4. /\ files' \in [Boxes(s) -> Seq(Lines(s))] /\ DiskOnce(s)' /\ InItsFile(s)'
          /\ \A k \in Nat : OnDisk(s, k)' <=> OnDisk(s, k) \/ k = drain.line.id
      BY <1>0, <2>1, <2>2, <2>3, FileLine
    <2>5. drain' \in [at : {"lock", "notify"}, line : Lines(s)] /\ drain'.at = "notify"
      BY <2>1, <2>2
    <2>6. \A k \in Nat : /\ ~InDrain(k)'
                         /\ InRx(k)' <=> InRx(k)
                         /\ InLate(k)' <=> InLate(k)
                         /\ InSends(k)' <=> InSends(k)
      BY <2>1, <2>5 DEF InDrain, InRx, InLate, InSends
    <2>7. Apart(s)'
      BY <1>0, <2>1, <2>2, <2>3, <2>4, <2>6 DEF Apart
    <2>8. DmTypes(s)'
      BY <1>0, <2>1, <2>4, <2>5 DEF DmTypes
    <2> QED
      BY <1>0, <2>1, <2>4, <2>7, <2>8 DEF Once, RxOnce, LateOnce, SendOnce
  <1>4. CASE Messages(s)!DrainEmits
    <2>1. /\ drain.at = "notify" /\ events' = Append(events, drain.line)
          /\ drain' = [at |-> "recv", line |-> None]
          /\ UNCHANGED <<server, conn, rx, late, files, sends, dm, fetches, count, reconnects>>
      BY <1>4 DEF Messages!DrainEmits, Messages!AtRecv, Messages!store, Messages!window,
                  Messages!counts
    <2>2. drain.line \in Lines(s) /\ events \in Seq(Lines(s))
      BY <1>0, <2>1 DEF DmTypes
    <2>3. events' \in Seq(Lines(s)) /\ drain'.at = "recv"
      BY <2>1, <2>2
    <2>4. \A k \in Nat : /\ InDrain(k)' <=> InDrain(k)
                         /\ InRx(k)' <=> InRx(k)
                         /\ InLate(k)' <=> InLate(k)
                         /\ InSends(k)' <=> InSends(k)
                         /\ OnDisk(s, k)' <=> OnDisk(s, k)
      BY <2>1, <2>3 DEF InDrain, InRx, InLate, InSends, OnDisk
    <2>5. Apart(s)'
      BY <1>0, <2>1, <2>4 DEF Apart
    <2>6. DmTypes(s)'
      BY <1>0, <2>1, <2>3 DEF DmTypes
    <2> QED
      BY <1>0, <2>1, <2>5, <2>6 DEF Once, RxOnce, LateOnce, SendOnce, DiskOnce, InItsFile
  <1> QED
    BY <1>1, <1>2, <1>3, <1>4

(* A connect aborts the task; one that was running files its message later *)
(* and is the only one to have it.                                         *)
LEMMA ConnectKeepsOnce ==
  ASSUME NEW s \in Scenes, Once(s),
         \/ \E sv \in DmServers[s], running_ \in BOOLEAN : Messages(s)!Connect(sv, running_)
         \/ \E line \in late, emits \in BOOLEAN : Messages(s)!LateRecords(line, emits)
         \/ \E b \in Boxes(s) : Messages(s)!ClearHistory(b)
  PROVE  Once(s)'
  <1>0. DmTypes(s) /\ Apart(s) /\ RxOnce /\ LateOnce /\ SendOnce /\ DiskOnce(s) /\ InItsFile(s)
    BY DEF Once
  <1>1. ASSUME NEW sv \in DmServers[s], NEW busy \in BOOLEAN, Messages(s)!Connect(sv, busy)
        PROVE  Once(s)'
    <2>1. /\ busy => drain.at = "lock"
          /\ server' = sv /\ conn' = None /\ rx' = <<>> /\ reconnects' = reconnects + 1
          /\ drain' = [at |-> "recv", line |-> None]
          /\ late' = IF busy THEN late \union {drain.line} ELSE late
          /\ UNCHANGED <<files, sends, events, dm, fetches, count>>
      BY <1>1 DEF Messages!Connect, Messages!AtRecv, Messages!store, Messages!window
    <2>2. busy => drain.line \in Lines(s) /\ drain.line.id \in Nat
      BY <1>0, <2>1 DEF DmTypes, Lines
    <2>3. \A k \in Nat : /\ ~InRx(k)' /\ ~InDrain(k)'
                         /\ InLate(k)' => InLate(k) \/ InDrain(k)
                         /\ InSends(k)' <=> InSends(k)
                         /\ OnDisk(s, k)' <=> OnDisk(s, k)
      BY <2>1 DEF InDrain, InRx, InLate, InSends, OnDisk
    <2>4. Apart(s)'
      BY <1>0, <2>1, <2>3 DEF Apart
    <2>5. LateOnce'
      <3>1. CASE ~busy
        BY <1>0, <2>1, <3>1 DEF LateOnce
      <3>2. CASE busy
        <4>1. ~InLate(drain.line.id)
          BY <1>0, <2>1, <2>2, <3>2 DEF Apart, InDrain
        <4> QED
          BY <1>0, <2>1, <3>2, <4>1 DEF LateOnce, InLate
      <3> QED
        BY <3>1, <3>2
    <2>6. DmTypes(s)'
      BY <1>0, <2>1, <2>2 DEF DmTypes
    <2> QED
      BY <1>0, <2>1, <2>4, <2>5, <2>6 DEF Once, RxOnce, SendOnce, DiskOnce, InItsFile
  <1>2. ASSUME NEW line \in late, NEW emits \in BOOLEAN, Messages(s)!LateRecords(line, emits)
        PROVE  Once(s)'
    <2>1. /\ late' = late \ {line} /\ files' = Messages(s)!Filed(server, line)
          /\ events' = events \/ events' = Append(events, line)
          /\ UNCHANGED <<server, conn, rx, drain, sends, dm, fetches, count, reconnects>>
      BY <1>2 DEF Messages!LateRecords, Messages!window, Messages!counts
    <2>2. /\ line \in Lines(s) /\ line.id \in Nat /\ server \in DmServers[s]
          /\ events \in Seq(Lines(s))
      BY <1>0 DEF DmTypes, Lines
    <2>3. InLate(line.id) /\ ~OnDisk(s, line.id)
      BY <1>0, <2>2 DEF InLate, Apart
    <2>4. /\ files' \in [Boxes(s) -> Seq(Lines(s))] /\ DiskOnce(s)' /\ InItsFile(s)'
          /\ \A k \in Nat : OnDisk(s, k)' <=> OnDisk(s, k) \/ k = line.id
      BY <1>0, <2>1, <2>2, <2>3, FileLine
    <2>5. \A k \in Nat : /\ InDrain(k)' <=> InDrain(k)
                         /\ InRx(k)' <=> InRx(k)
                         /\ InLate(k)' => InLate(k) /\ k # line.id
                         /\ InSends(k)' <=> InSends(k)
      BY <1>0, <2>1 DEF InDrain, InRx, InLate, InSends, LateOnce
    <2>6. Apart(s)'
      BY <1>0, <2>1, <2>2, <2>3, <2>4, <2>5 DEF Apart
    <2>7. events' \in Seq(Lines(s))
      BY <2>1, <2>2
    <2>8. DmTypes(s)'
      BY <1>0, <2>1, <2>4, <2>7 DEF DmTypes
    <2> QED
      BY <1>0, <2>1, <2>4, <2>6, <2>8 DEF Once, RxOnce, LateOnce, SendOnce
  <1>3. ASSUME NEW b0 \in Boxes(s), Messages(s)!ClearHistory(b0)
        PROVE  Once(s)'
    <2>1. /\ files' = [files EXCEPT ![b0] = <<>>]
          /\ UNCHANGED <<server, conn, rx, drain, late, sends, events, dm, fetches, count,
                         reconnects>>
      BY <1>3 DEF Messages!ClearHistory, Messages!session, Messages!window, Messages!counts
    <2>2. /\ files' \in [Boxes(s) -> Seq(Lines(s))]
          /\ \A b \in Boxes(s) : \A i \in 1..Len(files'[b]) :
                 i \in 1..Len(files[b]) /\ files'[b][i] = files[b][i]
      <3>1. files \in [Boxes(s) -> Seq(Lines(s))] /\ <<>> \in Seq(Lines(s))
        BY <1>0 DEF DmTypes
      <3>2. files' \in [Boxes(s) -> Seq(Lines(s))]
        BY <2>1, <3>1
      <3>3. ASSUME NEW b \in Boxes(s), NEW i \in 1..Len(files'[b])
            PROVE  i \in 1..Len(files[b]) /\ files'[b][i] = files[b][i]
        <4>1. CASE b = b0
          BY <2>1, <3>1, <3>3, <4>1
        <4>2. CASE b # b0
          BY <2>1, <3>1, <3>3, <4>2
        <4> QED
          BY <4>1, <4>2
      <3> QED
        BY <3>2, <3>3
    <2>3. \A k \in Nat : /\ InDrain(k)' <=> InDrain(k)
                         /\ InRx(k)' <=> InRx(k)
                         /\ InLate(k)' <=> InLate(k)
                         /\ InSends(k)' <=> InSends(k)
                         /\ OnDisk(s, k)' => OnDisk(s, k)
      BY <2>1, <2>2 DEF InDrain, InRx, InLate, InSends, OnDisk
    <2>4. Apart(s)'
      BY <1>0, <2>1, <2>3 DEF Apart
    <2>5. DiskOnce(s)'
      <3> SUFFICES ASSUME NEW b \in Boxes(s), NEW d \in Boxes(s),
                          NEW i \in 1..Len(files'[b]), NEW j \in 1..Len(files'[d]),
                          files'[b][i].id = files'[d][j].id
                   PROVE  b = d /\ i = j
        BY DEF DiskOnce
      <3>1. /\ i \in 1..Len(files[b]) /\ j \in 1..Len(files[d])
            /\ files[b][i].id = files[d][j].id
        BY <2>2
      <3> QED
        BY <1>0, <3>1 DEF DiskOnce
    <2>6. DmTypes(s)' /\ InItsFile(s)'
      BY <1>0, <2>1, <2>2 DEF DmTypes, InItsFile
    <2> QED
      BY <1>0, <2>1, <2>4, <2>5, <2>6 DEF Once, RxOnce, LateOnce, SendOnce
  <1> QED
    BY <1>1, <1>2, <1>3

(* send_dm_to, from the question to the answer. *)
LEMMA SendKeepsOnce ==
  ASSUME NEW s \in Scenes, Once(s),
         Messages(s)!SendDm \/ \E c \in sends : Messages(s)!SendStep(c)
  PROVE  Once(s)'
  <1>0. DmTypes(s) /\ Apart(s) /\ RxOnce /\ LateOnce /\ SendOnce /\ DiskOnce(s) /\ InItsFile(s)
    BY DEF Once
  <1>1. CASE Messages(s)!SendDm
    <2> DEFINE line == [peer |-> dm, id |-> count + 1, server |-> server]
               new == [at |-> "asked", line |-> line]
    <2>1. /\ dm # None /\ count' = count + 1 /\ sends' = sends \union {new}
          /\ UNCHANGED <<server, conn, rx, drain, late, files, events, dm, fetches, reconnects>>
      BY <1>1 DEF Messages!SendDm, Messages!Line, Messages!core, Messages!session,
                  Messages!store, Messages!window
    <2>2. /\ count \in Nat /\ line \in Lines(s) /\ line.id = count + 1
          /\ new \in [at : {"asked", "ready", "done"}, line : Lines(s)]
          /\ new.at = "asked" /\ new.line = line
      BY <1>0, <2>1 DEF DmTypes, Lines
    <2> HIDE DEF line, new
    <2>3. \A k \in Nat : /\ InDrain(k)' <=> InDrain(k)
                         /\ InRx(k)' <=> InRx(k)
                         /\ InLate(k)' <=> InLate(k)
                         /\ InSends(k)' <=> InSends(k) \/ k = count + 1
                         /\ OnDisk(s, k)' <=> OnDisk(s, k)
      BY <2>1, <2>2 DEF InDrain, InRx, InLate, InSends, OnDisk
    <2>4. \A k \in Nat : k <= count => k <= count + 1 /\ k # count + 1
      BY <2>2
    <2>5. Apart(s)'
      BY <1>0, <2>1, <2>2, <2>3, <2>4 DEF Apart
    <2>6. SendOnce'
      <3>1. ~InSends(count + 1)
        BY <1>0, <2>2, <2>4 DEF Apart
      <3> QED
        BY <1>0, <2>1, <2>2, <3>1 DEF SendOnce, InSends
    <2>7. DmTypes(s)'
      BY <1>0, <2>1, <2>2 DEF DmTypes
    <2> QED
      BY <1>0, <2>1, <2>5, <2>6, <2>7 DEF Once, RxOnce, LateOnce, DiskOnce, InItsFile
  <1>2. ASSUME NEW c \in sends, Messages(s)!SendRecords(c)
        PROVE  Once(s)'
    <2> DEFINE new == [c EXCEPT !.at = "done"]
    <2>1. /\ c.at = "ready" /\ files' = Messages(s)!Filed(c.line.server, c.line)
          /\ sends' = (sends \ {c}) \union {new}
          /\ UNCHANGED <<server, conn, rx, drain, late, events, dm, fetches, count, reconnects>>
      BY <1>2 DEF Messages!SendRecords, Messages!session, Messages!window, Messages!counts
    <2>2. /\ c.line \in Lines(s) /\ c.line.id \in Nat /\ c.line.server \in DmServers[s]
          /\ new \in [at : {"asked", "ready", "done"}, line : Lines(s)] /\ new.at = "done"
      BY <1>0 DEF DmTypes, Lines
    <2> HIDE DEF new
    <2>3. InSends(c.line.id) /\ ~OnDisk(s, c.line.id)
      BY <1>0, <2>1, <2>2 DEF InSends, Apart
    <2>4. /\ files' \in [Boxes(s) -> Seq(Lines(s))] /\ DiskOnce(s)' /\ InItsFile(s)'
          /\ \A k \in Nat : OnDisk(s, k)' <=> OnDisk(s, k) \/ k = c.line.id
      BY <1>0, <2>1, <2>2, <2>3, FileLine
    <2>5. \A k \in Nat : /\ InDrain(k)' <=> InDrain(k)
                         /\ InRx(k)' <=> InRx(k)
                         /\ InLate(k)' <=> InLate(k)
                         /\ InSends(k)' => InSends(k) /\ k # c.line.id
      BY <1>0, <2>1, <2>2 DEF InDrain, InRx, InLate, InSends, SendOnce
    <2>6. Apart(s)'
      BY <1>0, <2>1, <2>2, <2>3, <2>4, <2>5 DEF Apart
    <2>7. SendOnce'
      BY <1>0, <2>1, <2>2 DEF SendOnce
    <2>8. DmTypes(s)'
      BY <1>0, <2>1, <2>2, <2>4 DEF DmTypes
    <2> QED
      BY <1>0, <2>1, <2>4, <2>6, <2>7, <2>8 DEF Once, RxOnce, LateOnce
  \* The other steps file nothing, and nobody else has what goes on or is given up.
  <1>3. ASSUME NEW c \in sends,
               \/ Messages(s)!SendReads(c) \/ Messages(s)!SendFails(c)
               \/ Messages(s)!SendReturns(c)
        PROVE  Once(s)'
    <2> DEFINE new == [at |-> "ready", line |-> [c.line EXCEPT !.server = conn]]
    <2>1. /\ \/ sends' = sends \ {c}
             \/ c.at = "asked" /\ conn # None /\ sends' = (sends \ {c}) \union {new}
          /\ UNCHANGED <<server, conn, rx, drain, late, files, events, dm, fetches, count,
                         reconnects>>
      BY <1>3 DEF Messages!SendReads, Messages!SendFails, Messages!SendReturns,
         Messages!core, Messages!session, Messages!store, Messages!window, Messages!counts
    <2>2. conn # None => /\ new \in [at : {"asked", "ready", "done"}, line : Lines(s)]
                         /\ new.at = "ready" /\ new.line.id = c.line.id
      BY <1>0 DEF DmTypes, Lines
    <2> HIDE DEF new
    <2>3. \A k \in Nat : /\ InDrain(k)' <=> InDrain(k)
                         /\ InRx(k)' <=> InRx(k)
                         /\ InLate(k)' <=> InLate(k)
                         /\ InSends(k)' => InSends(k)
                         /\ OnDisk(s, k)' <=> OnDisk(s, k)
      BY <2>1, <2>2 DEF InDrain, InRx, InLate, InSends, OnDisk
    <2>4. Apart(s)'
      BY <1>0, <2>1, <2>3 DEF Apart
    <2>5. SendOnce'
      BY <1>0, <2>1, <2>2 DEF SendOnce
    <2>6. DmTypes(s)'
      BY <1>0, <2>1, <2>2 DEF DmTypes
    <2> QED
      BY <1>0, <2>1, <2>4, <2>5, <2>6 DEF Once, RxOnce, LateOnce, DiskOnce, InItsFile
  <1> QED
    BY <1>1, <1>2, <1>3 DEF Messages!SendStep

(* History requests read the latest lines of the file. *)
LEMMA HistoryIsLatest ==
  ASSUME NEW s \in Scenes, DmTypes(s), NEW p \in Peers[s]
  PROVE  /\ Messages(s)!History(p) = Messages(s)!Latest(p)
         /\ Messages(s)!History(p) \subseteq Lines(s)
  <1> DEFINE f == files[<<server, p>>]
             from == IF Len(f) > Limit[s] THEN Len(f) - Limit[s] + 1 ELSE 1
  <1>1. f \in Seq(Lines(s)) /\ Limit[s] \in Nat
    BY StoresAssumption DEF DmTypes, Boxes, Messages!MessagesAssumption
  <1>2. /\ Messages(s)!History(p) = {f[i] : i \in from..Len(f)}
        /\ Messages(s)!Latest(p) = {f[i] : i \in {j \in DOMAIN f : Len(f) - j < Limit[s]}}
    BY DEF Messages!History, Messages!Latest
  <1> HIDE DEF f
  <1>3. Len(f) \in Nat /\ DOMAIN f = 1..Len(f) /\ \A i \in 1..Len(f) : f[i] \in Lines(s)
    BY <1>1
  <1>4. from..Len(f) = {j \in 1..Len(f) : Len(f) - j < Limit[s]}
    BY <1>1, <1>3
  <1> QED
    BY <1>2, <1>3, <1>4

(* The window and the connection move no message to the file. *)
LEMMA WindowKeepsOnce ==
  ASSUME NEW s \in Scenes, Once(s),
         \/ \E p \in Peers[s] : Messages(s)!OpenDm(p) \/ Messages(s)!ForgetDmPeer(p)
         \/ Messages(s)!ConnectionLost \/ Messages(s)!Dialled \/ Messages(s)!CloseDm
         \/ \E f \in fetches : Messages(s)!FetchStep(f)
         \/ Messages(s)!EventShown
  PROVE  Once(s)'
  <1>0. DmTypes(s)
    BY DEF Once
  <1>1. UNCHANGED <<server, rx, drain, late, files, sends, count, reconnects>>
    BY DEF Messages!OpenDm, Messages!ForgetDmPeer, Messages!ConnectionLost,
       Messages!Dialled, Messages!CloseDm, Messages!FetchStep, Messages!HistoryRead,
       Messages!HistoryShown, Messages!EventShown, Messages!core, Messages!session,
       Messages!store, Messages!window, Messages!counts
  <1>2. conn' \in {server, None} /\ dm' \in Peers[s] \union {None}
    BY <1>0 DEF Messages!OpenDm, Messages!ForgetDmPeer, Messages!ConnectionLost,
       Messages!Dialled, Messages!CloseDm, Messages!FetchStep, Messages!HistoryRead,
       Messages!HistoryShown, Messages!EventShown, Messages!core, Messages!session,
       Messages!window, DmTypes
  <1>3. events' \in Seq(Lines(s))
    <2>1. events' = events \/ (events # <<>> /\ events' = Tail(events))
      BY DEF Messages!OpenDm, Messages!ForgetDmPeer, Messages!ConnectionLost,
         Messages!Dialled, Messages!CloseDm, Messages!FetchStep, Messages!HistoryRead,
         Messages!HistoryShown, Messages!EventShown
    <2>2. events \in Seq(Lines(s))
      BY <1>0 DEF DmTypes
    <2> QED
      BY <2>1, <2>2
  <1>4. fetches' \subseteq [at : {"asked", "read"}, peer : Peers[s], lines : SUBSET Lines(s)]
    <2>1. CASE fetches' = fetches
      BY <1>0, <2>1 DEF DmTypes
    <2>2. ASSUME NEW p \in Peers[s], Messages(s)!OpenDm(p)
          PROVE  <1>4!1 \subseteq <1>4!2
      BY <1>0, <2>2 DEF Messages!OpenDm, DmTypes
    <2>3. ASSUME NEW f \in fetches, Messages(s)!HistoryRead(f)
          PROVE  <1>4!1 \subseteq <1>4!2
      <3>1. f \in [at : {"asked", "read"}, peer : Peers[s], lines : SUBSET Lines(s)]
        BY <1>0 DEF DmTypes
      <3>2. Messages(s)!History(f.peer) \subseteq Lines(s)
        BY <1>0, <3>1, HistoryIsLatest
      <3> QED
        BY <1>0, <2>3, <3>1, <3>2, ZenonT(30) DEF Messages!HistoryRead, DmTypes
    <2>4. ASSUME NEW f \in fetches, Messages(s)!HistoryShown(f)
          PROVE  <1>4!1 \subseteq <1>4!2
      BY <1>0, <2>4 DEF Messages!HistoryShown, DmTypes
    <2> QED
      BY <2>1, <2>2, <2>3, <2>4 DEF Messages!ForgetDmPeer, Messages!ConnectionLost,
         Messages!Dialled, Messages!CloseDm, Messages!FetchStep, Messages!EventShown,
         Messages!window
  <1>5. DmTypes(s)'
    BY <1>0, <1>1, <1>2, <1>3, <1>4 DEF DmTypes
  <1>6. \A k \in Nat : /\ InDrain(k)' <=> InDrain(k)
                       /\ InRx(k)' <=> InRx(k)
                       /\ InLate(k)' <=> InLate(k)
                       /\ InSends(k)' <=> InSends(k)
                       /\ OnDisk(s, k)' <=> OnDisk(s, k)
    BY <1>1 DEF InDrain, InRx, InLate, InSends, OnDisk
  <1>7. Apart(s)'
    BY <1>1, <1>6 DEF Once, Apart
  <1> QED
    BY <1>1, <1>5, <1>7 DEF Once, RxOnce, LateOnce, SendOnce, DiskOnce, InItsFile

LEMMA OnceStep ==
  ASSUME NEW s \in Scenes, Once(s), Messages(s)!Next
  PROVE  Once(s)'
  BY DrainKeepsOnce, ConnectKeepsOnce, SendKeepsOnce, WindowKeepsOnce
     DEF Messages!Next, Boxes

(***************************************************************************)
(* Within one session, a line on file among the latest of the open thread  *)
(* is shown, or on its way to the window, or a history request is.         *)
(***************************************************************************)
OnItsWay(line) ==
    \/ \E i \in 1..Len(events) : events[i] = line
    \/ drain.at = "notify" /\ drain.line = line
    \/ \E c \in sends : c.at = "done" /\ c.line = line

Requested(line) ==
    \E f \in fetches : f.peer = dm /\ (f.at = "asked" \/ line \in f.lines)

Latest(s) == Messages(s)!Latest(dm)

ThreadFilled(s) ==
    reconnects = 0 /\ dm # None =>
        \A line \in Latest(s) : line \in thread \/ OnItsWay(line) \/ Requested(line)

\* Without a connect no task was aborted.
OneSession == reconnects = 0 => late = {}

DmInv(s) == Once(s) /\ OneSession /\ ThreadFilled(s)

(* The latest lines of the open thread are lines of its peer. *)
LEMMA LatestLines ==
  ASSUME NEW s \in Scenes, Once(s), dm # None, NEW line \in Latest(s)
  PROVE  line \in Lines(s) /\ line.peer = dm
  <1>1. dm \in Peers[s] /\ <<server, dm>> \in Boxes(s)
    BY DEF Once, DmTypes, Boxes
  <1>2. files[<<server, dm>>] \in Seq(Lines(s))
    BY <1>1 DEF Once, DmTypes
  <1>3. PICK i \in DOMAIN files[<<server, dm>>] : line = files[<<server, dm>>][i]
    BY DEF Latest, Messages!Latest
  <1>4. i \in 1..Len(files[<<server, dm>>])
    BY <1>2, <1>3
  <1>5. line.peer = <<server, dm>>[2]
    BY <1>1, <1>3, <1>4 DEF Once, InItsFile
  <1> QED
    BY <1>2, <1>3, <1>4, <1>5

(* Filing a line adds at most that line to the latest ones. *)
LEMMA LatestGrows ==
  ASSUME NEW s \in Scenes, Once(s), dm # None, NEW sv \in DmServers[s], NEW new \in Lines(s),
         files' = Messages(s)!Filed(sv, new), server' = server, dm' = dm,
         NEW line \in Latest(s)'
  PROVE  line \in Latest(s) \/ line = new
  <1> DEFINE b0 == <<sv, new.peer>>
             b  == <<server, dm>>
             f  == files[b]
  <1>1. b0 \in Boxes(s) /\ b \in Boxes(s) /\ files \in [Boxes(s) -> Seq(Lines(s))]
    BY DEF Once, DmTypes, Boxes, Lines
  <1>2. Limit[s] \in Nat
    BY StoresAssumption DEF Messages!MessagesAssumption
  <1>3. files' = [files EXCEPT ![b0] = Append(files[b0], new)]
    BY DEF Messages!Filed
  <1>4. PICK i \in DOMAIN files'[b] : Len(files'[b]) - i < Limit[s] /\ line = files'[b][i]
    BY DEF Latest, Messages!Latest
  <1>5. Latest(s) = {f[j] : j \in {k \in DOMAIN f : Len(f) - k < Limit[s]}}
    BY DEF Latest, Messages!Latest
  <1> HIDE DEF b0, b
  <1>6. CASE b # b0
    <2>1. files'[b] = f
      BY <1>1, <1>3, <1>6
    <2> QED
      BY <1>4, <1>5, <2>1
  <1>7. CASE b = b0
    <2>1. files'[b] = Append(f, new) /\ f \in Seq(Lines(s))
      BY <1>1, <1>3, <1>7
    <2> HIDE DEF f
    <2>2. /\ Len(f) \in Nat /\ DOMAIN f = 1..Len(f) /\ Len(files'[b]) = Len(f) + 1
          /\ DOMAIN files'[b] = 1..(Len(f) + 1)
          /\ files'[b][Len(f) + 1] = new
          /\ \A j \in 1..Len(f) : files'[b][j] = f[j]
      BY <2>1
    <2>3. CASE i = Len(f) + 1
      BY <1>4, <2>2, <2>3
    <2>4. CASE i \in 1..Len(f)
      <3>1. Len(f) - i < Limit[s]
        BY <1>2, <1>4, <2>2, <2>4
      <3> QED
        BY <1>4, <1>5, <2>2, <2>4, <3>1
    <2> QED
      BY <1>4, <2>2, <2>3, <2>4
  <1> QED
    BY <1>6, <1>7

LEMMA ClearedShrinks ==
  ASSUME NEW s \in Scenes, Once(s), dm # None, NEW b0 \in Boxes(s),
         files' = [files EXCEPT ![b0] = <<>>], server' = server, dm' = dm,
         NEW line \in Latest(s)'
  PROVE  line \in Latest(s)
  <1> DEFINE b == <<server, dm>>
  <1>1. b \in Boxes(s) /\ files \in [Boxes(s) -> Seq(Lines(s))]
    BY DEF Once, DmTypes, Boxes
  <1>2. PICK i \in DOMAIN files'[b] :
            Len(files'[b]) - i < Limit[s] /\ line = files'[b][i]
    BY DEF Latest, Messages!Latest
  <1>3. CASE b = b0
    <2>1. files'[b] = <<>>
      BY <1>1, <1>3
    <2>2. DOMAIN files'[b] = {}
      BY <2>1
    <2> QED
      BY <1>2, <2>2
  <1>4. CASE b # b0
    <2>1. files'[b] = files[b]
      BY <1>1, <1>4
    <2> QED
      BY <1>2, <2>1 DEF Latest, Messages!Latest
  <1> QED
    BY <1>3, <1>4

(* One step: what was on its way stays so until the window has it. *)
LEMMA ThreadStep ==
  ASSUME NEW s \in Scenes, DmInv(s), Messages(s)!Next
  PROVE  ThreadFilled(s)'
  <1> SUFFICES ASSUME reconnects' = 0, dm' # None, NEW line \in Latest(s)'
               PROVE  line \in thread' \/ OnItsWay(line)' \/ Requested(line)'
    BY DEF ThreadFilled
  <1>0. Once(s) /\ DmTypes(s) /\ ThreadFilled(s) /\ OneSession
    BY DEF DmInv, Once
  <1> DEFINE before == line \in thread \/ OnItsWay(line) \/ Requested(line)
  <1>1. reconnects = 0 /\ late = {}
    <2>1. reconnects \in Nat /\ (reconnects' = reconnects \/ reconnects' = reconnects + 1)
      BY <1>0 DEF DmTypes, Messages!Next, Messages!Arrives, Messages!OpenDm,
         Messages!ForgetDmPeer, Messages!ClearHistory, Messages!DrainTakes,
         Messages!DrainRecords, Messages!DrainEmits, Messages!ConnectionLost,
         Messages!Dialled, Messages!Connect, Messages!LateRecords, Messages!SendDm,
         Messages!SendStep, Messages!SendReads, Messages!SendRecords, Messages!SendFails,
         Messages!SendReturns, Messages!CloseDm, Messages!FetchStep, Messages!HistoryRead,
         Messages!HistoryShown, Messages!EventShown, Messages!counts
    <2> QED
      BY <1>0, <2>1 DEF OneSession
  <1>2. ASSUME UNCHANGED <<files, server, dm>> PROVE before
    BY <1>0, <1>1, <1>2 DEF ThreadFilled, Latest, Messages!Latest
  <1> HIDE DEF before
  \* Steps after which everything is where it was, or has company.
  <1>3. ASSUME UNCHANGED <<files, server, dm, thread, events, fetches>>,
               drain' = drain \/ drain.at # "notify",
               \A c \in sends : c.at = "done" => c \in sends'
        PROVE  line \in thread' \/ OnItsWay(line)' \/ Requested(line)'
    BY <1>2, <1>3 DEF before, OnItsWay, Requested
  <1>4. ASSUME NEW p \in Peers[s], Messages(s)!Arrives(p) \/ Messages(s)!ForgetDmPeer(p)
        PROVE  line \in thread' \/ OnItsWay(line)' \/ Requested(line)'
    BY <1>3, <1>4 DEF Messages!Arrives, Messages!ForgetDmPeer, Messages!session,
       Messages!store, Messages!window
  <1>5. CASE Messages(s)!DrainTakes
    BY <1>3, <1>5 DEF Messages!DrainTakes, Messages!AtRecv, Messages!store, Messages!window
  <1>6. CASE Messages(s)!ConnectionLost \/ Messages(s)!Dialled
    BY <1>3, <1>6 DEF Messages!ConnectionLost, Messages!Dialled, Messages!store,
       Messages!window
  <1>7. CASE Messages(s)!SendDm
    BY <1>3, <1>7 DEF Messages!SendDm, Messages!core, Messages!session, Messages!store,
       Messages!window
  <1>8. ASSUME NEW c \in sends, Messages(s)!SendReads(c) \/ Messages(s)!SendFails(c)
        PROVE  line \in thread' \/ OnItsWay(line)' \/ Requested(line)'
    BY <1>3, <1>8 DEF Messages!SendReads, Messages!SendFails, Messages!core,
       Messages!session, Messages!store, Messages!window
  \* The line is filed, and goes on to the window.
  <1>9. CASE Messages(s)!DrainRecords
    <2>1. /\ drain.at = "lock" /\ files' = Messages(s)!Filed(server, drain.line)
          /\ drain' = [drain EXCEPT !.at = "notify"]
          /\ UNCHANGED <<server, sends, events, dm, thread, fetches>>
      BY <1>9 DEF Messages!DrainRecords, Messages!window
    <2>2. /\ drain \in [at : {"lock", "notify"}, line : Lines(s)] /\ server \in DmServers[s]
          /\ drain.line \in Lines(s)
      BY <1>0, <2>1 DEF DmTypes
    <2>3. line \in Latest(s) \/ line = drain.line
      BY <1>0, <2>1, <2>2, LatestGrows
    <2>4. CASE line = drain.line
      BY <2>1, <2>2, <2>4 DEF OnItsWay
    <2>5. CASE line \in Latest(s)
      BY <1>0, <1>1, <2>1, <2>5 DEF ThreadFilled, OnItsWay, Requested
    <2> QED
      BY <2>3, <2>4, <2>5
  <1>10. ASSUME NEW c \in sends, Messages(s)!SendRecords(c)
         PROVE  line \in thread' \/ OnItsWay(line)' \/ Requested(line)'
    <2> DEFINE new == [c EXCEPT !.at = "done"]
    <2>1. /\ c.at = "ready" /\ files' = Messages(s)!Filed(c.line.server, c.line)
          /\ sends' = (sends \ {c}) \union {new}
          /\ UNCHANGED <<server, drain, events, dm, thread, fetches>>
      BY <1>10 DEF Messages!SendRecords, Messages!session, Messages!window
    <2>2. c.line \in Lines(s) /\ c.line.server \in DmServers[s]
          /\ new.at = "done" /\ new.line = c.line
      BY <1>0 DEF DmTypes, Lines
    <2> HIDE DEF new
    <2>3. line \in Latest(s) \/ line = c.line
      BY <1>0, <2>1, <2>2, LatestGrows
    <2>4. CASE line = c.line
      BY <2>1, <2>2, <2>4 DEF OnItsWay
    <2>5. CASE line \in Latest(s)
      BY <1>0, <1>1, <2>1, <2>5 DEF ThreadFilled, OnItsWay, Requested
    <2> QED
      BY <2>3, <2>4, <2>5
  \* It is handed over.
  <1>11. CASE Messages(s)!DrainEmits
    <2>1. /\ drain.at = "notify" /\ events' = Append(events, drain.line)
          /\ UNCHANGED <<files, server, sends, dm, thread, fetches>>
      BY <1>11 DEF Messages!DrainEmits, Messages!store, Messages!window
    <2>2. events \in Seq(Lines(s)) /\ drain.line \in Lines(s)
      BY <1>0, <2>1 DEF DmTypes
    <2>3. /\ Len(events') = Len(events) + 1 /\ Len(events) \in Nat
          /\ \A i \in 1..Len(events) : i \in 1..Len(events') /\ events'[i] = events[i]
          /\ Len(events) + 1 \in 1..Len(events')
          /\ events'[Len(events) + 1] = drain.line
      BY <2>1, <2>2
    <2> QED
      BY <1>2, <2>1, <2>3 DEF before, OnItsWay, Requested
  <1>12. ASSUME NEW c \in sends, Messages(s)!SendReturns(c)
         PROVE  line \in thread' \/ OnItsWay(line)' \/ Requested(line)'
    <2>1. /\ sends' = sends \ {c} /\ thread' = thread \union {c.line}
          /\ UNCHANGED <<files, server, drain, events, dm, fetches>>
      BY <1>12 DEF Messages!SendReturns, Messages!core, Messages!session, Messages!store
    <2> QED
      BY <1>2, <2>1 DEF before, OnItsWay, Requested
  <1>13. CASE Messages(s)!EventShown
    <2>1. /\ events # <<>> /\ events' = Tail(events)
          /\ thread' = IF Head(events).peer = dm THEN thread \union {Head(events)} ELSE thread
          /\ UNCHANGED <<files, server, drain, sends, dm, fetches>>
      BY <1>13 DEF Messages!EventShown, Messages!core, Messages!session, Messages!store
    <2>2. line.peer = dm
      <3>1. line \in Latest(s) /\ dm # None
        BY <2>1 DEF Latest, Messages!Latest
      <3> QED
        BY <1>0, <3>1, LatestLines
    <2>3. events \in Seq(Lines(s))
      BY <1>0 DEF DmTypes
    <2>4. /\ Head(events) = events[1] /\ Len(events) \in Nat
          /\ Len(events') = Len(events) - 1
          /\ \A i \in 1..Len(events') : events'[i] = events[i + 1]
      BY <2>1, <2>3
    <2>5. ASSUME NEW i \in 1..Len(events), events[i] = line
          PROVE  line \in thread' \/ OnItsWay(line)'
      <3>1. CASE i = 1
        BY <2>1, <2>2, <2>4, <2>5, <3>1
      <3>2. CASE i # 1
        <4>1. i - 1 \in 1..Len(events') /\ events'[i - 1] = line
          BY <2>4, <2>5, <3>2
        <4> QED
          BY <4>1 DEF OnItsWay
      <3> QED
        BY <3>1, <3>2
    <2> QED
      BY <1>2, <2>1, <2>5 DEF before, OnItsWay, Requested
  \* History requests.
  <1>14. ASSUME NEW p \in Peers[s], Messages(s)!OpenDm(p)
         PROVE  Requested(line)'
    <2> DEFINE new == [at |-> "asked", peer |-> p, lines |-> {}]
    <2>1. new \in fetches' /\ dm' = p
      BY <1>14 DEF Messages!OpenDm
    <2>2. new.peer = p /\ new.at = "asked"
      OBVIOUS
    <2> HIDE DEF new
    <2> QED
      BY <2>1, <2>2 DEF Requested
  <1>15. CASE Messages(s)!CloseDm
    BY <1>15 DEF Messages!CloseDm
  <1>16. ASSUME NEW f \in fetches, Messages(s)!HistoryRead(f)
         PROVE  line \in thread' \/ OnItsWay(line)' \/ Requested(line)'
    <2> DEFINE new == [f EXCEPT !.at = "read", !.lines = Messages(s)!History(f.peer)]
    <2>1. /\ fetches' = (fetches \ {f}) \union {new}
          /\ UNCHANGED <<files, server, drain, sends, events, dm, thread>>
      BY <1>16 DEF Messages!HistoryRead, Messages!core, Messages!session, Messages!store
    <2>2. f \in [at : {"asked", "read"}, peer : Peers[s], lines : SUBSET Lines(s)]
      BY <1>0 DEF DmTypes
    <2>3. new.peer = f.peer /\ new.lines = Messages(s)!History(f.peer)
      BY <2>2
    <2> HIDE DEF new
    <2>4. line \in Messages(s)!Latest(dm)
      BY <2>1 DEF Latest, Messages!Latest
    <2>5. f.peer = dm => line \in new.lines
      BY <1>0, <2>2, <2>3, <2>4, HistoryIsLatest
    <2> QED
      BY <1>2, <2>1, <2>3, <2>5 DEF before, OnItsWay, Requested
  <1>17. ASSUME NEW f \in fetches, Messages(s)!HistoryShown(f)
         PROVE  line \in thread' \/ OnItsWay(line)' \/ Requested(line)'
    <2>1. /\ f.at = "read" /\ fetches' = fetches \ {f} /\ thread' = thread \union f.lines
          /\ UNCHANGED <<files, server, drain, sends, events, dm>>
      BY <1>17 DEF Messages!HistoryShown, Messages!core, Messages!session, Messages!store
    <2> QED
      BY <1>2, <2>1 DEF before, OnItsWay, Requested
  <1>18. ASSUME NEW b \in Boxes(s), Messages(s)!ClearHistory(b)
         PROVE  line \in thread' \/ OnItsWay(line)' \/ Requested(line)'
    <2>1. /\ files' = [files EXCEPT ![b] = <<>>]
          /\ UNCHANGED <<server, drain, sends, events, dm, thread, fetches>>
      BY <1>18 DEF Messages!ClearHistory, Messages!session, Messages!window
    <2>2. line \in Latest(s)
      BY <1>0, <2>1, ClearedShrinks
    <2> QED
      BY <1>0, <1>1, <2>1, <2>2 DEF ThreadFilled, OnItsWay, Requested
  \* A connect ends the session.
  <1>19. ASSUME NEW sv \in DmServers[s], NEW busy \in BOOLEAN, Messages(s)!Connect(sv, busy)
         PROVE  FALSE
    BY <1>1, <1>19 DEF Messages!Connect
  <1> QED
    BY <1>1, <1>4, <1>5, <1>6, <1>7, <1>8, <1>9, <1>10, <1>11, <1>12, <1>13, <1>14, <1>15,
       <1>16, <1>17, <1>18, <1>19 DEF Messages!Next, Messages!SendStep, Messages!FetchStep,
       Boxes

DmHolds == \A s \in Scenes : part = s => DmInv(s)

(* A direct message is filed once, wherever a connect aborts the task that *)
(* files it; and within one session nothing falls between the history      *)
(* request of dm.ts and the events of the drain task.                      *)
THEOREM DmsKeptAndShown == Spec => []DmKeptAndShown
  <1>1. Init => DmHolds
    <2> SUFFICES ASSUME Init, NEW s \in Scenes, part = s PROVE DmInv(s)
      BY DEF DmHolds
    <2>1. Messages(s)!Init
      BY DEF Init, Programs, Scenes
    <2>2. /\ server \in DmServers[s] /\ conn = server /\ rx = <<>> /\ late = {}
          /\ drain = [at |-> "recv", line |-> None] /\ sends = {} /\ events = <<>>
          /\ dm = None /\ fetches = {} /\ count = 0 /\ reconnects = 0
          /\ files = [f \in Boxes(s) |-> <<>>]
      BY <2>1 DEF Messages!Init, Messages!AtRecv, Boxes
    <2>3. \A b \in Boxes(s) : Len(files[b]) = 0 /\ 1..Len(files[b]) = {}
      BY <2>2
    <2>4. Len(rx) = 0 /\ rx \in Seq(Lines(s)) /\ events \in Seq(Lines(s))
          /\ drain.at = "recv" /\ 1..Len(rx) = {}
      BY <2>2
    <2>5. DmTypes(s)
      BY <2>2, <2>4 DEF DmTypes
    <2>6. Apart(s)
      BY <2>2, <2>3, <2>4 DEF Apart, InRx, InDrain, InLate, InSends, OnDisk
    <2>7. RxOnce /\ LateOnce /\ SendOnce /\ DiskOnce(s) /\ InItsFile(s)
      BY <2>2, <2>3, <2>4 DEF RxOnce, LateOnce, SendOnce, DiskOnce, InItsFile
    <2> QED
      BY <2>2, <2>5, <2>6, <2>7 DEF DmInv, Once, OneSession, ThreadFilled
  <1>2. DmHolds /\ [Next]_vars => DmHolds'
    <2> SUFFICES ASSUME DmHolds, [Next]_vars, NEW s \in Scenes, part' = s
                 PROVE  DmInv(s)'
      BY DEF DmHolds
    <2>1. part = s /\ DmInv(s)
      BY DEF DmHolds, Next, vars
    <2>2. CASE UNCHANGED dmVars
      <3>1. \A k \in Nat : /\ InDrain(k)' <=> InDrain(k)
                           /\ InRx(k)' <=> InRx(k)
                           /\ InLate(k)' <=> InLate(k)
                           /\ InSends(k)' <=> InSends(k)
                           /\ OnDisk(s, k)' <=> OnDisk(s, k)
        BY <2>2 DEF dmVars, InDrain, InRx, InLate, InSends, OnDisk
      <3>2. Once(s)'
        BY <2>1, <2>2, <3>1 DEF dmVars, DmInv, Once, DmTypes, Apart, RxOnce, LateOnce,
           SendOnce, DiskOnce, InItsFile
      <3>3. ThreadFilled(s)' /\ OneSession'
        BY <2>1, <2>2 DEF dmVars, DmInv, OneSession, ThreadFilled, OnItsWay, Requested,
           Latest, Messages!Latest
      <3> QED
        BY <3>2, <3>3 DEF DmInv
    <2>3. CASE Messages(s)!Next
      <3>1. Once(s)' /\ ThreadFilled(s)'
        BY <2>1, <2>3, OnceStep, ThreadStep DEF DmInv
      <3>2. OneSession'
        <4> SUFFICES ASSUME reconnects' = 0, late' # {} PROVE FALSE
          BY DEF OneSession
        <4>1. reconnects \in Nat /\ (reconnects = 0 => late = {})
          BY <2>1 DEF DmInv, Once, DmTypes, OneSession
        <4>2. \/ reconnects' = reconnects + 1
              \/ reconnects' = reconnects /\ late' \subseteq late
          BY <2>3 DEF Messages!Next, Messages!Arrives, Messages!OpenDm,
             Messages!ForgetDmPeer, Messages!ClearHistory, Messages!DrainTakes,
             Messages!DrainRecords, Messages!DrainEmits, Messages!ConnectionLost,
             Messages!Dialled, Messages!Connect, Messages!LateRecords, Messages!SendDm,
             Messages!SendStep, Messages!SendReads, Messages!SendRecords,
             Messages!SendFails, Messages!SendReturns, Messages!CloseDm,
             Messages!FetchStep, Messages!HistoryRead, Messages!HistoryShown,
             Messages!EventShown, Messages!counts, Messages!core, Messages!session
        <4> QED
          BY <4>1, <4>2
      <3> QED
        BY <3>1, <3>2 DEF DmInv
    <2> QED
      BY <2>1, <2>2, <2>3 DEF Next, vars, Programs, Scenes
  <1>3. DmHolds => DmKeptAndShown
    <2> SUFFICES ASSUME NEW s \in Scenes, DmInv(s) PROVE Messages(s)!DmKeptAndShown
      BY DEF DmHolds, DmKeptAndShown
    <2>1. Messages(s)!FiledOnce
      <3>1. \A b \in Boxes(s) : DOMAIN files[b] = 1..Len(files[b])
        BY DEF DmInv, Once, DmTypes
      <3> QED
        BY <3>1, SMTT(30) DEF DmInv, Once, DiskOnce, Messages!FiledOnce, Boxes
    <2>2. ASSUME Messages(s)!Quiet, reconnects = 0, dm # None
          PROVE  Messages(s)!Latest(dm) \subseteq thread
      <3>1. fetches = {} /\ sends = {} /\ events = <<>> /\ drain.at = "recv"
        BY <2>2 DEF Messages!Quiet, Messages!AtRecv
      <3>2. 1..Len(events) = {}
        BY <3>1
      <3> QED
        BY <2>2, <3>1, <3>2 DEF DmInv, ThreadFilled, OnItsWay, Requested, Latest
    <2> QED
      BY <2>1, <2>2 DEF Messages!DmKeptAndShown
  <1> QED
    BY <1>1, <1>2, <1>3, PTL DEF Spec
=============================================================================
