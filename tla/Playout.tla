------------------------------ MODULE Playout ------------------------------
(***************************************************************************)
(* One sender's voice at one receiver (crates/client/src/playout.rs): the  *)
(* jitter ring, the Idle/Playing stream in front of the output device, and *)
(* the capture side's sequence counter (crates/client/src/voice.rs) behind *)
(* a network that loses, duplicates and reorders datagrams.                *)
(*                                                                         *)
(* The receive task owns the whole engine, so on_packet and render are one *)
(* action each; packets and pulls of the output interleave freely.         *)
(*                                                                         *)
(* Data abstractions:                                                      *)
(*  - the jitter estimate decides the target depth and nothing else: an    *)
(*    observed arrival moves `target' anywhere in its clamp range, a reset *)
(*    estimate puts it at the minimum;                                     *)
(*  - an Instant is reduced to what is asked of it: whether the first idle *)
(*    arrival is old enough to start, whether the last packet is older     *)
(*    than the stream's TTL;                                               *)
(*  - audio is left out: whether a decoded frame is quiet is a free choice,*)
(*    and so is the number of frames the output is about to pull.          *)
(***************************************************************************)
EXTENDS Naturals, Sequences, FiniteSets

CONSTANTS
    SeqMod,        \* 2^32: sequence numbers are u32
    Capacity,      \* JITTER_BUF_MAX
    ReanchorMax,   \* REANCHOR_MAX, half the ring
    ResyncAfter,   \* JITTER_RESYNC_AFTER
    TargetMin,     \* PLAYOUT_TARGET_MIN_FRAMES
    TargetMax,     \* PLAYOUT_TARGET_MAX_FRAMES
    HoldFrames,    \* PLAYOUT_HOLD_FRAMES
    AccelWindow,   \* PLAYOUT_ACCEL_WINDOW_FRAMES
    AccelObserved, \* PLAYOUT_ACCEL_MIN_OBSERVED
    ForceExcess,   \* PLAYOUT_ACCEL_FORCE_EXCESS
    MaxPull,       \* bound: frames the output takes back to back
    MaxSent,       \* bound: packets a sender sends before it restarts
    MaxRestarts,   \* bound: how often the sender leaves and rejoins
    Reorder,       \* bound: how many packets late a datagram arrives
    None           \* nothing decoded yet

Seqs    == 0 .. SeqMod - 1
Indices == 0 .. Capacity - 1
Targets == TargetMin .. TargetMax

ASSUME RingAssumption ==
    /\ SeqMod \in Nat /\ Capacity \in Nat \ {0}
    /\ 4 * Capacity < SeqMod
    /\ ReanchorMax \in Nat /\ ReanchorMax < Capacity
    /\ ResyncAfter \in Nat \ {0}
    /\ None \notin Seqs \X Seqs

ASSUME PlayoutAssumption ==
    /\ TargetMin \in Nat \ {0} /\ TargetMax \in Nat /\ TargetMin <= TargetMax
    /\ HoldFrames \in Nat
    /\ AccelWindow \in Nat \ {0} /\ AccelObserved \in Nat \ {0}
    /\ ForceExcess \in Nat
    /\ MaxPull \in Nat \ {0}
    /\ MaxSent \in Nat /\ MaxRestarts \in Nat /\ Reorder \in Nat \ {0}

VARIABLES
    sent,         \* packets the sender sent since it (re)started
    restarts,     \* how often it restarted
    slots,        \* JitterBuffer.slots: the sequence numbers, 0 = empty
    nextSeq,      \* JitterBuffer.next_seq
    started,      \* JitterBuffer.started; FALSE also before the stream exists
    provisional,  \* JitterBuffer.provisional
    outOfWindow,  \* JitterBuffer.out_of_window
    target,       \* target_frames of JitterBuffer.jitter_ms
    playing,      \* SenderStream.state = Playing
    idleWait,     \* SenderStream.first_idle_arrival is set
    hold,         \* SenderStream.hold
    depths,       \* SenderStream.depths, oldest first
    lastOut,      \* ghost: first and last packet of the last decoding
    epoch,        \* ghost: flips when the buffer is reset
    newest,       \* ghost: packets of this (re)start up to the newest arrival
    deaf          \* ghost: newest-so-far arrivals of this (re)start refused in a row

senderVars == <<sent, restarts>>
ringVars   == <<slots, nextSeq, started, provisional, outOfWindow, target>>
streamVars == <<playing, idleWait, hold, depths>>
ghostVars  == <<lastOut, epoch, newest, deaf>>
vars == <<sent, restarts, slots, nextSeq, started, provisional, outOfWindow,
          target, playing, idleWait, hold, depths, lastOut, epoch, newest, deaf>>

(***************************************************************************)
(* u32 arithmetic (wrapping_add of less than 2^32, wrapping_sub) and the   *)
(* order of sequence numbers.                                              *)
(***************************************************************************)
WrapAdd(a, k) == IF a + k < SeqMod THEN a + k ELSE (a + k) - SeqMod

WrapSub(a, b) == IF b <= a THEN a - b ELSE (a + SeqMod) - b

SeqBefore(a, b) ==
    /\ WrapSub(b, a) > 0
    /\ 2 * WrapSub(b, a) < SeqMod

Index(seq) == seq % Capacity

(***************************************************************************)
(* The ring: which sequence numbers of the window are buffered.            *)
(***************************************************************************)
Buffered(seq) == slots[Index(seq)] = seq /\ seq # 0

Window == {offset \in Indices : Buffered(WrapAdd(nextSeq, offset))}

Depth == Cardinality(Window)

\* Mutant: re-anchoring does not look at what is buffered.
FitsFromUnchecked(start) == TRUE

(* Every buffered packet stays inside the ring when the window starts at   *)
(* `start'.                                                                *)
FitsFrom(start) ==
    \A offset \in Window :
        WrapSub(WrapAdd(nextSeq, offset), start) < Capacity

(* skip_to_oldest: the oldest buffered packet, next_seq when there is none *)
OldestSeq ==
    IF Window = {} THEN nextSeq
    ELSE WrapAdd(nextSeq, CHOOSE o \in Window : \A p \in Window : o <= p)

(***************************************************************************)
(* What push makes of an arriving packet.  The first packet of a stream    *)
(* anchors it.                                                             *)
(***************************************************************************)
Anchor(seq) == IF started THEN nextSeq ELSE seq

\* Mutant: only a jump of four rings counts as a restart.
IsRestartFarther(seq) ==
    /\ SeqBefore(seq, Anchor(seq))
    /\ WrapSub(Anchor(seq), seq) > 4 * Capacity

IsRestart(seq) ==
    /\ SeqBefore(seq, Anchor(seq))
    /\ WrapSub(Anchor(seq), seq) > 2 * Capacity

\* Mutant: the start moves back after packets were consumed.
IsReanchorAlways(seq) ==
    /\ SeqBefore(seq, Anchor(seq))
    /\ ~IsRestart(seq)
    /\ WrapSub(Anchor(seq), seq) <= ReanchorMax
    /\ FitsFrom(seq)

IsReanchor(seq) ==
    /\ SeqBefore(seq, Anchor(seq))
    /\ ~IsRestart(seq)
    /\ provisional
    /\ WrapSub(Anchor(seq), seq) <= ReanchorMax
    /\ FitsFrom(seq)

IsLate(seq) ==
    /\ SeqBefore(seq, Anchor(seq))
    /\ ~IsRestart(seq)
    /\ ~IsReanchor(seq)

\* Mutant: one packet beyond the ring is taken in.
IsAheadOffByOne(seq) ==
    /\ ~SeqBefore(seq, Anchor(seq))
    /\ WrapSub(seq, Anchor(seq)) > Capacity

IsAhead(seq) ==
    /\ ~SeqBefore(seq, Anchor(seq))
    /\ WrapSub(seq, Anchor(seq)) >= Capacity

IsResync(seq) == IsAhead(seq) /\ outOfWindow + 1 >= ResyncAfter

IsStray(seq) == IsAhead(seq) /\ ~IsResync(seq)

IsReset(seq) == IsRestart(seq) \/ IsResync(seq)

IsStored(seq) == ~IsReset(seq) /\ ~IsLate(seq) /\ ~IsStray(seq)

NewStream ==
    /\ slots = [i \in Indices |-> 0]
    /\ nextSeq = 0
    /\ started = FALSE
    /\ provisional = TRUE
    /\ outOfWindow = 0
    /\ target = TargetMin
    /\ playing = FALSE
    /\ idleWait = FALSE
    /\ hold = 0
    /\ depths = << >>

Init ==
    /\ sent = 0 /\ restarts = 0
    /\ NewStream
    /\ lastOut = None /\ epoch = 0
    /\ newest = 0 /\ deaf = 0

(***************************************************************************)
(* The sender.  Its counter starts at 1 and wraps; a pipeline restart (the *)
(* peer left and rejoined) starts it over, with the old datagrams gone.    *)
(***************************************************************************)
SeqOf(n) == n % SeqMod

Send ==
    /\ sent < MaxSent
    /\ sent' = sent + 1
    /\ UNCHANGED <<restarts, ringVars, streamVars, ghostVars>>

Restart ==
    /\ restarts < MaxRestarts
    /\ sent > 0
    /\ restarts' = restarts + 1
    /\ sent' = 0
    /\ newest' = 0 /\ deaf' = 0
    /\ UNCHANGED <<ringVars, streamVars, lastOut, epoch>>

(***************************************************************************)
(* on_packet: push, and a stream that is idle starts to wait.              *)
(***************************************************************************)
DropLate(seq) ==
    /\ IsLate(seq)
    /\ target' \in Targets
    /\ UNCHANGED <<slots, nextSeq, started, provisional, outOfWindow, idleWait,
                   lastOut, epoch>>

NoteArrival ==
    idleWait' = (idleWait \/ ~playing)

DropStray(seq) ==
    /\ IsStray(seq)
    /\ outOfWindow' = outOfWindow + 1
    /\ NoteArrival
    /\ UNCHANGED <<slots, nextSeq, started, provisional, target, lastOut, epoch>>

ResetTo(seq) ==
    /\ IsReset(seq)
    /\ slots' = [i \in Indices |-> IF i = Index(seq) THEN seq ELSE 0]
    /\ nextSeq' = seq
    /\ provisional' = TRUE
    /\ outOfWindow' = 0
    /\ target' = TargetMin
    /\ NoteArrival
    /\ lastOut' = None
    /\ epoch' = 1 - epoch
    /\ UNCHANGED started

Store(seq) ==
    /\ IsStored(seq)
    /\ started' = TRUE
    /\ nextSeq' = IF ~started \/ IsReanchor(seq) THEN seq ELSE nextSeq
    /\ slots' = [slots EXCEPT ![Index(seq)] = seq]
    /\ outOfWindow' = 0
    /\ target' \in Targets
    /\ NoteArrival
    /\ UNCHANGED <<provisional, lastOut, epoch>>

(* How long the receiver refuses what the sender sends now. *)
NoteHearing(n) ==
    /\ newest' = IF n > newest THEN n ELSE newest
    /\ deaf' = IF ~IsLate(SeqOf(n)) /\ ~IsStray(SeqOf(n)) THEN 0
               ELSE IF n > newest THEN deaf + 1
               ELSE deaf

OnPacket(n) ==
    /\ n \in 1 .. sent
    /\ n + Reorder > sent
    /\ \/ DropLate(SeqOf(n))
       \/ DropStray(SeqOf(n))
       \/ ResetTo(SeqOf(n))
       \/ Store(SeqOf(n))
    /\ NoteHearing(n)
    /\ UNCHANGED <<senderVars, playing, hold, depths>>

(***************************************************************************)
(* render: the output pulls one frame.                                     *)
(***************************************************************************)
RecordDepth(history) ==
    LET all == Append(history, Depth)
    IN  IF Len(all) > AccelWindow THEN Tail(all) ELSE all

MinDepth(history) ==
    CHOOSE d \in {history[i] : i \in 1 .. Len(history)} :
        \A i \in 1 .. Len(history) : d <= history[i]

LesserOf(a, b) == IF a <= b THEN a ELSE b

ForceDepth == LesserOf(target + 1 + ForceExcess, Capacity - 2)

ShouldAccelerate(history, quiet) ==
    /\ Len(history) >= AccelObserved
    /\ MinDepth(history) > target + 1
    /\ MinDepth(history) > ForceDepth \/ quiet

\* Mutant: a short talkspurt waits for packets that never come.
ActivatesOnDepth(pull, waited) ==
    /\ ~playing
    /\ Window # {}
    /\ Depth >= target + pull

(* An idle stream starts once it holds the target plus what the output is  *)
(* about to take, or once its first packet has waited that long.           *)
Activates(pull, waited) ==
    /\ ~playing
    /\ Window # {}
    /\ Depth >= target + pull \/ (idleWait /\ waited)

KeepBuffering ==
    /\ ~playing
    /\ idleWait' = (Window # {})
    /\ UNCHANGED <<senderVars, ringVars, playing, hold, depths, ghostVars>>

(* Acceleration decodes the frame it drops too. *)
DecodedBy(seq, last) == <<seq, last>>

(* pop finds the packet it expects.  The first pop of an idle stream skips *)
(* to the oldest packet; a deep buffer has a second packet popped and the  *)
(* first frame dropped.                                                    *)
PlayPacket(seq, history, quiet) ==
    LET second == WrapAdd(seq, 1)
        accelerates == ShouldAccelerate(history, quiet) /\ Buffered(second)
        popped == IF accelerates THEN {seq, second} ELSE {seq}
        last   == IF accelerates THEN second ELSE seq
    IN  /\ slots[Index(seq)] = seq
        /\ slots' = [i \in Indices |->
                        IF i \in {Index(s) : s \in popped} THEN 0 ELSE slots[i]]
        /\ nextSeq' = WrapAdd(last, 1)
        /\ provisional' = FALSE
        /\ playing' = TRUE
        /\ idleWait' = FALSE
        /\ hold' = 0
        /\ depths' = IF accelerates THEN << >> ELSE history
        /\ lastOut' = DecodedBy(seq, last)
        /\ UNCHANGED <<senderVars, started, outOfWindow, target, epoch,
                       newest, deaf>>

HasFuture ==
    \E offset \in Indices \ {0} : Buffered(WrapAdd(nextSeq, offset))

(* A hole with later packets behind it: concealed, its number passed. *)
ConcealLoss ==
    /\ playing
    /\ slots[Index(nextSeq)] # nextSeq
    /\ HasFuture
    /\ slots' = [slots EXCEPT ![Index(nextSeq)] = 0]
    /\ nextSeq' = WrapAdd(nextSeq, 1)
    /\ provisional' = FALSE
    /\ hold' = 0
    /\ depths' = RecordDepth(depths)
    /\ UNCHANGED <<senderVars, started, outOfWindow, target, playing, idleWait,
                   ghostVars>>

(* An underrun: concealed without passing a number, for a while. *)
Underrun ==
    /\ playing
    /\ slots[Index(nextSeq)] # nextSeq
    /\ ~HasFuture

\* Mutant: the hold is not counted.
ExpandForever ==
    /\ Underrun
    /\ hold < HoldFrames
    /\ depths' = RecordDepth(depths)
    /\ UNCHANGED <<senderVars, ringVars, playing, idleWait, hold, ghostVars>>

Expand ==
    /\ Underrun
    /\ hold < HoldFrames
    /\ hold' = hold + 1
    /\ depths' = RecordDepth(depths)
    /\ UNCHANGED <<senderVars, ringVars, playing, idleWait, ghostVars>>

GoIdle ==
    /\ Underrun
    /\ hold >= HoldFrames
    /\ playing' = FALSE
    /\ hold' = 0
    /\ idleWait' = FALSE
    /\ depths' = << >>
    /\ UNCHANGED <<senderVars, ringVars, ghostVars>>

RenderIdle(pull, waited, quiet) ==
    /\ ~playing
    /\ IF Activates(pull, waited)
       THEN PlayPacket(OldestSeq, RecordDepth(<< >>), quiet)
       ELSE KeepBuffering

RenderPlaying(quiet) ==
    /\ playing
    /\ \/ PlayPacket(nextSeq, RecordDepth(depths), quiet)
       \/ ConcealLoss
       \/ Expand
       \/ GoIdle

Render ==
    /\ started
    /\ \E quiet \in BOOLEAN :
          \/ RenderPlaying(quiet)
          \/ \E pull \in 1 .. MaxPull, waited \in BOOLEAN :
                RenderIdle(pull, waited, quiet)

(* A pull that comes after the longest lead. *)
RenderAfterWait ==
    /\ started
    /\ \E pull \in 1 .. MaxPull, quiet \in BOOLEAN : RenderIdle(pull, TRUE, quiet)

(***************************************************************************)
(* prune, called for another sender's packet: no packet of this sender for *)
(* longer than the TTL.                                                    *)
(***************************************************************************)
Prune ==
    /\ started
    /\ slots' = [i \in Indices |-> 0]
    /\ nextSeq' = 0
    /\ started' = FALSE
    /\ provisional' = TRUE
    /\ outOfWindow' = 0
    /\ target' = TargetMin
    /\ playing' = FALSE
    /\ idleWait' = FALSE
    /\ hold' = 0
    /\ depths' = << >>
    /\ lastOut' = None
    /\ epoch' = 1 - epoch
    /\ deaf' = 0
    /\ UNCHANGED <<senderVars, newest>>

Next ==
    \/ Send
    \/ Restart
    \/ \E n \in 1 .. MaxSent : OnPacket(n)
    \/ Render
    \/ Prune

Spec == Init /\ [][Next]_vars

(***************************************************************************)
(* The receive task's tick is armed while anything is buffered or playing, *)
(* and the device keeps pulling, for longer than the longest lead too.     *)
(* Nothing is assumed of the sender or the network.                        *)
(***************************************************************************)
Fairness == WF_vars(Render) /\ WF_vars(RenderAfterWait)

FairSpec == Spec /\ Fairness

-----------------------------------------------------------------------------
(***************************************************************************)
(* Properties.                                                             *)
(***************************************************************************)

(* Type correctness of the ring and the stream. *)
TypeOK ==
    /\ sent \in 0 .. MaxSent /\ restarts \in 0 .. MaxRestarts
    /\ slots \in [Indices -> Seqs]
    /\ nextSeq \in Seqs
    /\ started \in BOOLEAN /\ provisional \in BOOLEAN /\ playing \in BOOLEAN
    /\ idleWait \in BOOLEAN
    /\ outOfWindow \in 0 .. ResyncAfter - 1
    /\ target \in Targets
    /\ hold \in 0 .. HoldFrames
    /\ depths \in Seq(0 .. Capacity) /\ Len(depths) <= AccelWindow
    /\ lastOut \in (Seqs \X Seqs) \union {None}
    /\ epoch \in {0, 1}
    /\ newest \in 0 .. MaxSent
    /\ deaf \in Nat

(* Every occupied slot holds a packet of the current window, at its index: *)
(* nothing stale is left behind to be counted, played or to block the ring *)
(* whatever was re-anchored, skipped, resynced or dropped (push, pop,      *)
(* fits_from, skip_to_oldest, reset_to).                                   *)
WindowSound ==
    \A i \in Indices :
        slots[i] # 0 =>
            /\ Index(slots[i]) = i
            /\ WrapSub(slots[i], nextSeq) < Capacity

(* The counter of a sender does not wrap: it sends fewer packets than half *)
(* the sequence space (2^31 packets are 497 days of speech).               *)
NoWrap == 2 * (MaxSent + Capacity) < SeqMod

(* A packet that was buffered is decoded, unless the whole buffer is reset *)
(* by a restart, a resync or the stream's end: no skip, re-anchoring,      *)
(* concealment or later packet silently discards it.                       *)
NothingDiscarded ==
    [][NoWrap =>
         \A i \in Indices :
            slots[i] # 0 /\ slots'[i] # slots[i] =>
               \/ epoch' # epoch
               \/ lastOut' # None /\ slots[i] \in {lastOut'[1], lastOut'[2]}]_vars

(* Within one stream nothing is decoded twice or behind something already  *)
(* decoded: duplicates and late packets are dropped, and the start is      *)
(* moved back only before anything was played.                             *)
DecodedInOrder ==
    [][NoWrap /\ lastOut # None /\ epoch' = epoch /\ lastOut' # lastOut
         => SeqBefore(lastOut[2], lastOut'[1])]_vars

(* A sender that restarted or jumped ahead is heard again after a bounded  *)
(* number of packets.  At most two rings' worth of its new packets can be  *)
(* taken for late ones, a ring more while what the old stream left in the  *)
(* buffer is still being played, and ResyncAfter - 1 for strays (push).    *)
DeafnessBounded == NoWrap => deaf <= 3 * Capacity + ResyncAfter - 1

(* What is buffered while the stream is idle gets played, a one-packet     *)
(* talkspurt too, unless the stream is pruned first (render, on_packet).   *)
BufferedIsPlayed == (~playing /\ Window # {}) ~> (playing \/ ~started)

(* The playout tick is always disarmed again: the stream neither plays nor *)
(* holds packets for ever after the sender stops (needs_tick, go_idle).    *)
TickDisarms == []<>(~playing /\ Window = {})

=============================================================================
