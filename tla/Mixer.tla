-------------------------------- MODULE Mixer --------------------------------
(***************************************************************************)
(* The mixer over all senders of a channel (PlayoutEngine, playout.rs) and *)
(* the receive task around it (voice.rs): streams that are created by a    *)
(* packet, limited in number and pruned by age, frames mixed of every      *)
(* stream that plays, and the levels of these frames handed to the user    *)
(* interfaces when they moved.                                             *)
(*                                                                         *)
(* A stream is the depth of its jitter buffer (Playout has its content);   *)
(* a level is audible or silent; time passes in frames.                    *)
(***************************************************************************)
EXTENDS Naturals, FiniteSets

CONSTANTS
    Senders,        \* names that packets carry
    MaxStreams,     \* config::MAX_SENDER_STREAMS
    Ttl,            \* config::SENDER_STREAM_TTL_SECS, in frames
    Window,         \* config::STATS_WINDOW_PACKETS: packets between prunes
    MaxBuf,         \* config::JITTER_BUF_MAX
    MaxLead,        \* the largest target plus pull
    HoldFrames,     \* config::PLAYOUT_HOLD_FRAMES
    Recent,         \* how long a speaker counts as active, in frames
    MaxPull,        \* bound: frames one pass renders
    MaxPackets      \* bound: packets of each sender

(* A stream that stops receiving has played out and gone idle long before  *)
(* it is old: 500 frames against a lead, a ring and a hold of a few dozen. *)
MixerAssumption ==
    /\ {MaxStreams, Ttl, Window, MaxBuf, MaxLead, Recent, MaxPull} \subseteq Nat \ {0}
    /\ HoldFrames \in Nat /\ MaxPackets \in Nat
    /\ Ttl > MaxLead + MaxBuf + HoldFrames + 1

VARIABLES
    streams,        \* PlayoutEngine.streams: the senders that have one
    playing,        \* the ones in StreamState::Playing
    buf,            \* packets in each jitter buffer
    idleWait,       \* frames since first_idle_arrival
    hold,           \* frames expanded in a row
    rms,            \* senders whose last frame was audible
    ago,            \* frames since each sender's last packet
    sincePrune,     \* packets_since_prune
    moved,          \* levels_epoch moved since levels were last published
    speaking,       \* the speaking map: senders ...
    shown,          \* ... that it shows as audible
    lane,           \* LiveLevels: senders published as audible
    pc,             \* the receive task: "select", "pump" or "publish"
    pulled,         \* frames this pass has rendered
    served,         \* a frame was rendered in this frame's time
    sent            \* packets of each sender so far

engine == <<streams, playing, buf, idleWait, hold, rms>>
vars == <<engine, ago, sincePrune, moved, speaking, shown, lane, pc, pulled, served, sent>>

Init ==
    /\ streams = {} /\ playing = {} /\ rms = {}
    /\ buf = [n \in Senders |-> 0]
    /\ idleWait = [n \in Senders |-> 0]
    /\ hold = [n \in Senders |-> 0]
    /\ ago = [n \in Senders |-> Ttl]
    /\ sincePrune = 0 /\ moved = FALSE
    /\ speaking = {} /\ shown = {} /\ lane = {}
    /\ pc = "select" /\ pulled = 0 /\ served = FALSE
    /\ sent = [n \in Senders |-> 0]

(***************************************************************************)
(* Packets.                                                                *)
(***************************************************************************)

Expired(n) == ago[n] >= Ttl

Kept(s) == {n \in s : ~Expired(n)}

(* The streams a packet of n meets, after the prune that every Window-th   *)
(* packet and a full engine cause.                                         *)
Pruned(n) ==
    LET regular == IF sincePrune + 1 = Window THEN Kept(streams) ELSE streams
    IN  IF n \notin regular /\ Cardinality(regular) >= MaxStreams
        THEN Kept(regular) ELSE regular

(* Whether the packet finds or gets a stream; a decoder may be refused. *)
HasStream(n, decoder) ==
    n \in Pruned(n) \/ (Cardinality(Pruned(n)) < MaxStreams /\ decoder)

(* on_packet and record_speaker, for a packet that is stored or too late. *)
Packet(n, stored, decoder) ==
    LET new == Pruned(n) \union IF HasStream(n, decoder) THEN {n} ELSE {}
        fresh(f) == [x \in Senders |-> IF x \in streams \intersect new THEN f[x] ELSE 0]
        grows == stored /\ n \in new /\ fresh(buf)[n] < MaxBuf
    IN  /\ pc = "select"
        /\ sent[n] < MaxPackets
        /\ sent' = [sent EXCEPT ![n] = @ + 1]
        /\ streams' = new
        /\ playing' = playing \intersect new
        /\ rms' = rms \intersect new
        /\ buf' = [fresh(buf) EXCEPT ![n] = @ + IF grows THEN 1 ELSE 0]
        /\ idleWait' = fresh(idleWait)
        /\ hold' = fresh(hold)
        /\ ago' = [ago EXCEPT ![n] = 0]
        /\ sincePrune' = (sincePrune + 1) % Window
        /\ speaking' = speaking \union {n}
        /\ pc' = "pump" /\ pulled' = 0
        /\ UNCHANGED <<moved, shown, lane, served>>

(***************************************************************************)
(* One pass of the pump.                                                   *)
(***************************************************************************)

(* needs_tick. *)
Active == playing # {} \/ \E n \in streams : buf[n] > 0

PlayoutTick ==
    /\ pc = "select"
    /\ Active
    /\ pc' = "pump" /\ pulled' = 0
    /\ UNCHANGED <<engine, ago, sincePrune, moved, speaking, shown, lane, served, sent>>

(* An idle stream starts with `lead' packets or after the time of `lead'.  *)
Starts(n, lead) ==
    n \in streams \ playing /\ buf[n] > 0 /\ (buf[n] >= lead \/ idleWait[n] >= lead)

(* It goes idle when there was nothing to play for more than the hold. *)
GoesIdle(n) == n \in playing /\ buf[n] = 0 /\ hold[n] >= HoldFrames

PlayingAfter(lead) ==
    {n \in streams : Starts(n, lead) \/ (n \in playing /\ ~GoesIdle(n))}

(* Mutant: a stream that goes idle does not count as a moved level. *)
LevelsWrittenPlaying(after) == after # {}

LevelsWritten(after) == after \union playing # {}

(* render_frame: the frames in `loud' are audible. *)
RenderFrame(lead, loud) ==
    LET after == PlayingAfter(lead)
    IN  /\ pc = "pump" /\ pulled < MaxPull
        /\ loud \subseteq after
        /\ playing' = after
        /\ rms' = (rms \ playing) \union loud
        /\ buf' = [n \in Senders |-> IF n \in after /\ buf[n] > 0 THEN buf[n] - 1 ELSE buf[n]]
        /\ hold' = [n \in Senders |-> IF n \in after /\ buf[n] = 0 THEN hold[n] + 1 ELSE 0]
        /\ idleWait' = [n \in Senders |->
                           IF n \in after \/ buf[n] = 0 THEN 0 ELSE idleWait[n]]
        /\ moved' = (moved \/ LevelsWritten(after))
        /\ pulled' = pulled + 1
        /\ served' = TRUE
        /\ pc' = IF after = {} THEN "publish" ELSE "pump"
        /\ UNCHANGED <<streams, ago, sincePrune, speaking, shown, lane, sent>>

(* The output holds its low-water mark. *)
OutputFull ==
    /\ pc = "pump"
    /\ pc' = "publish"
    /\ UNCHANGED <<engine, ago, sincePrune, moved, speaking, shown, lane, pulled, served,
                   sent>>

(* publish_levels, when levels_epoch moved. *)
Publish ==
    /\ pc = "publish"
    /\ pc' = "select"
    /\ moved' = FALSE
    /\ IF moved
       THEN shown' = rms \intersect speaking /\ lane' = rms
       ELSE UNCHANGED <<shown, lane>>
    /\ UNCHANGED <<engine, ago, sincePrune, speaking, pulled, served, sent>>

(* speaker_levels and active_speakers, polled by the user interfaces. *)
PollSpeakers ==
    /\ speaking' = {n \in speaking : ago[n] < Recent}
    /\ shown' = shown \intersect speaking'
    /\ UNCHANGED <<engine, ago, sincePrune, moved, lane, pc, pulled, served, sent>>

(* The output takes a frame, so in each frame's time one is rendered while *)
(* the tick is armed.                                                      *)
TimePasses ==
    /\ pc = "select"
    /\ served \/ ~Active
    /\ ago' = [n \in Senders |-> IF ago[n] < Ttl THEN ago[n] + 1 ELSE Ttl]
    /\ idleWait' = [n \in Senders |->
                       IF n \in streams \ playing /\ buf[n] > 0 /\ idleWait[n] < MaxLead
                       THEN idleWait[n] + 1 ELSE idleWait[n]]
    /\ served' = FALSE
    /\ UNCHANGED <<streams, playing, buf, hold, rms, sincePrune, moved, speaking, shown,
                   lane, pc, pulled, sent>>

SomeRender ==
    \E lead \in 1..MaxLead, loud \in SUBSET Senders : RenderFrame(lead, loud)

Next ==
    \/ \E n \in Senders, stored, decoder \in BOOLEAN : Packet(n, stored, decoder)
    \/ PlayoutTick
    \/ SomeRender
    \/ OutputFull
    \/ Publish
    \/ PollSpeakers
    \/ TimePasses

Spec == Init /\ [][Next]_vars

-----------------------------------------------------------------------------
(***************************************************************************)
(* Properties.                                                             *)
(***************************************************************************)

(* Between two passes, the user interfaces see exactly the senders whose   *)
(* last frame was audible: no phantom speaker stays lit when its stream    *)
(* goes idle or is pruned, and a silent task leaves no stale level.        *)
LevelsCurrent ==
    pc = "select" => lane = rms /\ shown \subseteq rms
=============================================================================
