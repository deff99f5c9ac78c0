----------------------------- MODULE LiveLevels -----------------------------
(***************************************************************************)
(* The live loudness of a call (LiveLevels, crates/client/src/level.rs),   *)
(* its two writers and the end of a call (crates/client/src/voice.rs), and *)
(* the desktop's fast lane that animates mouths from it (fast_levels.rs,   *)
(* level_pump.rs of apps/desktop).                                         *)
(*                                                                         *)
(* Every call has levels of its own; the lane reads the ones the pump last *)
(* pointed it to, without a lock around version, own level and peers.      *)
(*                                                                         *)
(* Data abstractions: a level is silent (0) or audible (1) and there is    *)
(* one peer, absent, silent or audible; the silence a lane waits for is a  *)
(* number of its ticks.                                                    *)
(***************************************************************************)
EXTENDS Naturals

CONSTANTS
    MaxCalls,      \* bound: calls in a behaviour
    MaxWrites,     \* bound: levels written per call
    SilenceTicks   \* FAST_LEVEL_SILENCE_MS in ticks

LevelsAssumption ==
    MaxCalls \in Nat \ {0} /\ MaxWrites \in Nat /\ SilenceTicks \in Nat \ {0}

Calls == 1 .. MaxCalls
NoCall == 0
Absent == 2
PeerLevel == {0, 1, Absent}

VARIABLES
    own, peer,   \* LiveLevels of each call: own and peers
    version,     \* its version
    ownBump,     \* calls whose capture thread has swapped and not yet bumped
    peerBump,    \* calls whose receive task has published and not yet bumped
    capture,     \* calls whose capture thread runs
    receiver,    \* calls whose receive task runs
    started,     \* calls started so far
    call,        \* the call in progress
    closing,     \* the call whose handle is being dropped
    writes,      \* levels written, by call
    live,        \* the watch channel: the call whose levels the lane reads
    attached,    \* the call the lane has taken from it
    pc,          \* the lane: "tick", "snap", "own", "peers" or "gate"
    snapVer,     \* the version its snapshot loaded first
    seen, me, peerSeen,  \* what it knows
    changed,     \* the version moved since its last tick
    quiet,       \* ticks since something was audible; NotOpen if the gate is shut
    shown        \* the levels last emitted: 1 if any is audible

calls  == <<capture, receiver, started, call, closing>>
levels == <<own, peer, version, ownBump, peerBump, writes>>
lane   == <<attached, pc, snapVer, seen, me, peerSeen, changed, quiet, shown>>
vars == <<own, peer, version, ownBump, peerBump, capture, receiver, started, call, closing,
          writes, live, attached, pc, snapVer, seen, me, peerSeen, changed, quiet, shown>>

NotOpen == SilenceTicks + 1

Init ==
    /\ own = [c \in Calls |-> 0]
    /\ peer = [c \in Calls |-> Absent]
    /\ version = [c \in Calls |-> 0]
    /\ ownBump = {} /\ peerBump = {}
    /\ capture = {} /\ receiver = {}
    /\ started = 0
    /\ call = NoCall /\ closing = NoCall
    /\ writes = [c \in Calls |-> 0]
    /\ live = NoCall /\ attached = NoCall
    /\ pc = "tick" /\ snapVer = 0
    /\ seen = 0 /\ me = 0 /\ peerSeen = Absent
    /\ changed = FALSE /\ quiet = NotOpen /\ shown = 0

(***************************************************************************)
(* The writers.  A value is written first and the version bumped after.    *)
(***************************************************************************)
Write(c) ==
    /\ writes[c] < MaxWrites
    /\ writes' = [writes EXCEPT ![c] = @ + 1]

(* set_own, by the capture thread. *)
SetOwn(c, v) ==
    /\ c \in capture \ ownBump
    /\ Write(c)
    /\ own[c] # v
    /\ own' = [own EXCEPT ![c] = v]
    /\ ownBump' = ownBump \union {c}
    /\ UNCHANGED <<peer, version, peerBump, calls, live, lane>>

BumpOwn(c) ==
    /\ c \in ownBump
    /\ version' = [version EXCEPT ![c] = @ + 1]
    /\ ownBump' = ownBump \ {c}
    /\ UNCHANGED <<own, peer, peerBump, writes, calls, live, lane>>

(* publish_levels, by the receive task. *)
PublishPeers(c, p) ==
    /\ c \in receiver \ peerBump
    /\ Write(c)
    /\ peer[c] # p
    /\ peer' = [peer EXCEPT ![c] = p]
    /\ peerBump' = peerBump \union {c}
    /\ UNCHANGED <<own, version, ownBump, calls, live, lane>>

BumpPeers(c) ==
    /\ c \in peerBump
    /\ version' = [version EXCEPT ![c] = @ + 1]
    /\ peerBump' = peerBump \ {c}
    /\ UNCHANGED <<own, peer, ownBump, writes, calls, live, lane>>

(***************************************************************************)
(* A call starts and its handle is dropped: stop, clear, abort.            *)
(***************************************************************************)
StartCall(c) ==
    /\ call = NoCall /\ closing = NoCall
    /\ c = started + 1
    /\ started' = c
    /\ call' = c
    /\ capture' = capture \union {c}
    /\ receiver' = receiver \union {c}
    /\ UNCHANGED <<levels, closing, live, lane>>

(* The versions clear() adds: one for each half that was not silent. *)
ClearBumps(c) ==
    (IF own[c] # 0 THEN 1 ELSE 0) + (IF peer[c] # Absent THEN 1 ELSE 0)

DropClears ==
    /\ call # NoCall
    /\ closing' = call
    /\ call' = NoCall
    /\ own' = [own EXCEPT ![call] = 0]
    /\ peer' = [peer EXCEPT ![call] = Absent]
    /\ version' = [version EXCEPT ![call] = @ + ClearBumps(call)]
    /\ UNCHANGED <<ownBump, peerBump, writes, capture, receiver, started, live, lane>>

ReceiversLeft == receiver \ {closing}

(* abort takes the task out at its next await, not inside publish_peers. *)
DropAborts ==
    /\ closing # NoCall
    /\ closing \notin peerBump
    /\ receiver' = ReceiversLeft
    /\ closing' = NoCall
    /\ UNCHANGED <<levels, capture, started, call, live, lane>>

(* "cfg.live.set_own(0.0)", the last thing the thread does. *)
LastOwn(c) == [own EXCEPT ![c] = 0]

(* The capture thread sees `stop' at the top of its loop. *)
CaptureEnds(c) ==
    /\ c \in capture \ ownBump /\ call # c
    /\ own' = LastOwn(c)
    /\ version' = [version EXCEPT ![c] = IF own'[c] # own[c] THEN @ + 1 ELSE @]
    /\ capture' = capture \ {c}
    /\ UNCHANGED <<peer, ownBump, peerBump, writes, receiver, started, call, closing, live,
                   lane>>

(***************************************************************************)
(* The lane.                                                               *)
(***************************************************************************)
(* level_pump: the watch channel changes only when the handle did. *)
PumpPoll ==
    /\ live # call
    /\ live' = call
    /\ UNCHANGED <<levels, calls, lane>>

(* "The call ended or was rebuilt mid-phrase." *)
GateWasOpen == quiet # NotOpen

(* The watch changed.  An open gate is closed by a frame of zeros. *)
Repoint ==
    /\ pc = "tick" /\ live # attached
    /\ shown' = IF GateWasOpen THEN 0 ELSE shown
    /\ attached' = live
    /\ quiet' = NotOpen
    /\ seen' = IF live = NoCall THEN 0 ELSE version[live]
    /\ me' = 0
    /\ peerSeen' = Absent
    /\ UNCHANGED <<levels, calls, live, pc, snapVer, changed>>

Tick ==
    /\ pc = "tick" /\ attached # NoCall
    /\ changed' = (version[attached] # seen)
    /\ \/ version[attached] # seen /\ pc' = "snap"
       \/ version[attached] = seen /\ quiet # NotOpen /\ pc' = "gate"
    /\ UNCHANGED <<levels, calls, live, attached, snapVer, seen,
                   me, peerSeen, quiet, shown>>

(* snapshot: the version, the own level, the peers, one after the other. *)
SnapVersion ==
    /\ pc = "snap"
    /\ snapVer' = version[attached]
    /\ pc' = "own"
    /\ UNCHANGED <<levels, calls, live, attached, seen, me,
                   peerSeen, changed, quiet, shown>>

SnapOwn ==
    /\ pc = "own"
    /\ me' = own[attached]
    /\ pc' = "peers"
    /\ UNCHANGED <<levels, calls, live, attached, snapVer, seen,
                   peerSeen, changed, quiet, shown>>

\* Mutant: the version is the one after the copy.
VersionOfSnapshotLate == version[attached]

VersionOfSnapshot == snapVer

SnapPeers ==
    /\ pc = "peers"
    /\ peerSeen' = peer[attached]
    /\ seen' = VersionOfSnapshot
    /\ pc' = "gate"
    /\ UNCHANGED <<levels, calls, live, attached, snapVer, me,
                   changed, quiet, shown>>

Audible == me = 1 \/ peerSeen = 1

(* QuietGate::tick. *)
Gate ==
    /\ pc = "gate"
    /\ pc' = "tick"
    /\ \/ /\ Audible
          /\ quiet' = 0
          /\ shown' = IF changed THEN 1 ELSE shown
       \/ /\ ~Audible /\ quiet = NotOpen
          /\ UNCHANGED <<quiet, shown>>
       \/ /\ ~Audible /\ quiet < SilenceTicks
          /\ quiet' = quiet + 1
          /\ shown' = IF changed THEN 0 ELSE shown
       \/ /\ ~Audible /\ quiet = SilenceTicks
          /\ quiet' = NotOpen
          /\ shown' = 0
    /\ UNCHANGED <<levels, calls, live, attached, snapVer, seen,
                   me, peerSeen, changed>>

Lane == Repoint \/ Tick \/ SnapVersion \/ SnapOwn \/ SnapPeers \/ Gate

Writers(c) ==
    \/ \E v \in {0, 1} : SetOwn(c, v)
    \/ \E p \in PeerLevel : PublishPeers(c, p)

Finish(c) == BumpOwn(c) \/ BumpPeers(c) \/ CaptureEnds(c)

Next ==
    \/ \E c \in Calls : StartCall(c) \/ Writers(c) \/ Finish(c)
    \/ DropClears \/ DropAborts
    \/ PumpPoll \/ Lane

Spec == Init /\ [][Next]_vars

-----------------------------------------------------------------------------

\* The lane is between ticks and has nothing new to look at.
UpToDate ==
    /\ pc = "tick" /\ attached # NoCall
    /\ version[attached] = seen
    /\ attached \notin ownBump \union peerBump

(* "The data may be newer than the version, never older": a lane that has  *)
(* read the last version has the last levels, although nothing is locked   *)
(* while it copies and two threads write; levels older than the lane's own *)
(* attachment are the exception: a shut gate has not looked at them.       *)
SnapshotNeverOlder ==
    (UpToDate /\ quiet # NotOpen) =>
        me = own[attached] /\ peerSeen = peer[attached]

=============================================================================
