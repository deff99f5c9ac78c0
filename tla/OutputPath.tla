----------------------------- MODULE OutputPath -----------------------------
(***************************************************************************)
(* The last stage of playback: the receive task's PlayoutPump (playout.rs) *)
(* fills a lock-free ring, the output callback (audio.rs, PlaybackRenderer *)
(* and PlaybackQueue) empties it on the device's own thread, and the two   *)
(* tell each other, through the relaxed atomics of PlayoutSignals, how     *)
(* much is queued, how much the device asks for and whether anyone plays.  *)
(* rebuild_playback (voice.rs) swaps the device under both.                *)
(*                                                                         *)
(* Every load and store of shared state is a step of its own.  Without a   *)
(* device the pump feeds a virtual output that consumes in real time.      *)
(*                                                                         *)
(* Data abstractions: audio is counted, not represented; a sample here is  *)
(* a fixed number of samples there, FrameSize of them to a frame.  The     *)
(* engine in front of the pump (module Playout) is whether it plays, and a *)
(* free choice to go on, to start or to go idle at each frame.             *)
(***************************************************************************)
EXTENDS Integers

CONSTANTS
    FrameSize,    \* FRAME_SIZE
    LowWater,     \* PLAYOUT_OUTPUT_LOW_WATER
    RingSize,     \* FRAME_SIZE * RING_BUF_FRAMES
    SafetyCap,    \* PLAYBACK_SAFETY_CAP
    JitterMax,    \* JITTER_BUF_MAX
    TargetMax,    \* PLAYOUT_TARGET_MAX_FRAMES
    SampleRate,   \* SAMPLE_RATE
    Devices,      \* the output devices
    Rate,         \* of each device: its sample rate
    Requests,     \* of each device: the numbers of samples it asks for
    MaxSkips,     \* callbacks a device may make after each top-up
    MaxMeets,     \* frames the pump may push while one callback drains the ring
    MaxRebuilds   \* bound: how often the device is replaced

None == "none"

DeviceFrame(d) == (FrameSize * Rate[d]) \div SampleRate

(* What the parameters have to satisfy. *)
OutputAssumption ==
    /\ FrameSize \in Nat \ {0} /\ LowWater \in Nat \ {0} /\ SampleRate \in Nat \ {0}
    /\ RingSize \in Nat /\ SafetyCap \in Nat /\ JitterMax \in Nat /\ TargetMax \in Nat
    /\ MaxSkips \in Nat \ {0} /\ MaxMeets \in Nat /\ MaxRebuilds \in Nat
    /\ None \notin Devices
    /\ Rate \in [Devices -> Nat \ {0}]
    /\ Requests \in [Devices -> SUBSET (Nat \ {0})]
    \* A frame is a whole number of device samples at every rate in use.
    /\ \A d \in Devices : DeviceFrame(d) * SampleRate = FrameSize * Rate[d]

VARIABLES
    device,       \* the device whose stream runs
    slot,         \* the device whose producer is in the playback slot
    ring,         \* samples in the ring
    queue,        \* PlaybackQueue.buf: samples at the device's rate
    silent,       \* PlaybackQueue.silent
    sigQueued, sigRequest, sigPlaying,   \* PlayoutSignals
    cb,           \* the callback's place
    need,         \* what the running callback was asked for
    pump,         \* the pump's place
    low,          \* Output.low_water of this pass
    seen,         \* the queue level this round of the pump has read
    pull,         \* Output.pull of this round
    plays,        \* the engine has a playing stream
    ahead,        \* frames the virtual output is ahead of now (behind: < 0)
    skips,        \* history: callbacks since the last undisturbed top-up
    clean,        \* history: no callback has met the last pass
    asked,        \* history: the largest request this device has made
    meets,        \* history: frames pushed during this drain
    dropped,      \* history: the ring had no room for a frame
    starved,      \* history: output_starved on a request made before
    rebuilds

signalVars == <<sigQueued, sigRequest, sigPlaying>>
cbVars     == <<queue, silent, cb, need>>
pumpVars   == <<pump, low, seen, pull, plays, ahead>>
ghostVars  == <<skips, clean, asked, meets, dropped, starved>>
vars == <<device, slot, ring, cbVars, signalVars, pumpVars, ghostVars, rebuilds>>

Init ==
    /\ device = None /\ slot = None
    /\ ring = 0 /\ queue = 0 /\ silent = TRUE
    /\ sigQueued = 0 /\ sigRequest = 0 /\ sigPlaying = FALSE
    /\ cb = "idle" /\ need = 0
    /\ pump = "idle" /\ low = 0 /\ seen = 0 /\ pull = 0
    /\ plays = FALSE /\ ahead = 0
    /\ skips = 0 /\ clean = FALSE /\ asked = 0 /\ meets = 0
    /\ dropped = FALSE /\ starved = FALSE
    /\ rebuilds = 0

MinOf(a, b) == IF a <= b THEN a ELSE b
MaxOf(a, b) == IF a >= b THEN a ELSE b

ToDevice(n) == (n * Rate[device]) \div SampleRate
To48k(n)    == (n * SampleRate) \div Rate[device]

(***************************************************************************)
(* The output callback: PlaybackRenderer::render.                          *)
(***************************************************************************)

(* The host asks for `n' samples.  The timing assumed: a device is called  *)
(* at most MaxSkips times between two undisturbed passes of the pump, and  *)
(* one pass meets at most one callback.                                    *)
Callback(n) ==
    /\ cb = "idle" /\ device # None
    /\ n \in Requests[device]
    /\ skips < MaxSkips
    /\ pump # "idle" => clean
    /\ cb' = "drain"
    /\ need' = n
    /\ skips' = skips + 1
    /\ clean' = FALSE
    /\ UNCHANGED <<device, slot, ring, queue, silent, signalVars, pumpVars, asked, meets,
                   dropped, starved, rebuilds>>

(* A whole frame is popped, resampled and queued. *)
DrainFrame ==
    /\ cb = "drain" /\ ring >= FrameSize
    /\ ring' = ring - FrameSize
    /\ queue' = queue + DeviceFrame(device)
    /\ UNCHANGED <<device, slot, silent, cb, need, signalVars, pumpVars, ghostVars,
                   rebuilds>>

(* trim_to *)
Trimmed == MinOf(queue, ToDevice(SafetyCap))

(* A short read that follows sound, or holds some. *)
RunsDry(available) == available < need /\ (available > 0 \/ ~silent)

Available == MinOf(Trimmed, need)

(* trim_to, fill, and the counters. *)
Fill ==
    LET available == Available IN
    /\ cb = "drain" /\ ring < FrameSize
    /\ queue' = Trimmed - available
    /\ silent' = (available < need)
    /\ starved' = (starved \/ (/\ RunsDry(available) /\ sigPlaying
                            /\ need <= asked))
    /\ cb' = "queued"
    /\ meets' = 0
    /\ UNCHANGED <<device, slot, ring, need, signalVars, pumpVars, skips, clean, asked,
                   dropped, rebuilds>>

PublishQueued ==
    /\ cb = "queued"
    /\ sigQueued' = To48k(queue)
    /\ cb' = "request"
    /\ UNCHANGED <<device, slot, ring, queue, silent, need, sigRequest, sigPlaying,
                   pumpVars, ghostVars, rebuilds>>

(* Mutant: the last request instead of the largest. *)
PublishRequestLast ==
    /\ cb = "request"
    /\ sigRequest' = To48k(need)
    /\ asked' = MaxOf(asked, need)
    /\ cb' = "idle" /\ need' = 0
    /\ UNCHANGED <<device, slot, ring, queue, silent, sigQueued, sigPlaying, pumpVars,
                   skips, clean, meets, dropped, starved, rebuilds>>

(* fetch_max *)
PublishRequest ==
    /\ cb = "request"
    /\ sigRequest' = MaxOf(sigRequest, To48k(need))
    /\ asked' = MaxOf(asked, need)
    /\ cb' = "idle" /\ need' = 0
    /\ UNCHANGED <<device, slot, ring, queue, silent, sigQueued, sigPlaying, pumpVars,
                   skips, clean, meets, dropped, starved, rebuilds>>

(***************************************************************************)
(* The pump: one pass on every wakeup of the receive task, with the slot   *)
(* locked from PumpBegin to PumpEnd.                                       *)
(***************************************************************************)

(* Output::new *)
LowWaterFor(request) == MaxOf(LowWater, request + FrameSize)

(* Output::pull *)
PullFor(level, mark) == (MaxOf(mark - level, 0) + FrameSize - 1) \div FrameSize

(* A lag beyond the jitter ring is not replayed. *)
Lag == IF ahead < -JitterMax THEN 0 ELSE ahead

PumpBegin ==
    /\ pump = "idle"
    /\ pump' = IF slot = None THEN "virtual" ELSE "load"
    /\ low' = LowWaterFor(IF slot = None THEN 0 ELSE sigRequest)
    /\ ahead' = IF slot = None THEN Lag ELSE 0
    /\ clean' = (cb = "idle")
    /\ UNCHANGED <<device, slot, ring, cbVars, signalVars, seen, pull, plays, skips,
                   asked, meets, dropped, starved, rebuilds>>

PumpLoad ==
    /\ pump = "load"
    /\ seen' = sigQueued
    /\ pump' = "check"
    /\ UNCHANGED <<device, slot, ring, cbVars, signalVars, low, pull, plays, ahead,
                   ghostVars, rebuilds>>

(* The level of the ring is read after the level of the queue. *)
PumpCheck ==
    /\ pump = "check"
    /\ pull' = PullFor(ring + seen, low)
    /\ pump' = IF ring + seen < low THEN "render" ELSE "publish"
    /\ UNCHANGED <<device, slot, ring, cbVars, signalVars, low, seen, plays, ahead,
                   ghostVars, rebuilds>>

(* render returns a frame, which is pushed as far as there is room.  The   *)
(* timing assumed: decoding takes so much longer than popping that only    *)
(* MaxMeets frames are pushed while one callback drains the ring.          *)
PumpPush ==
    /\ pump = "render"
    /\ cb = "drain" => meets < MaxMeets
    /\ meets' = IF cb = "drain" THEN meets + 1 ELSE 0
    /\ plays' = TRUE
    /\ ring' = MinOf(ring + FrameSize, RingSize)
    /\ dropped' = (dropped \/ ring + FrameSize > RingSize)
    /\ pump' = IF RingSize - ring < FrameSize THEN "publish" ELSE "load"
    /\ UNCHANGED <<device, slot, cbVars, signalVars, low, seen, pull, ahead,
                   skips, clean, asked, starved, rebuilds>>

(* render returns none: no stream plays, or not any more. *)
PumpDry ==
    /\ pump = "render"
    /\ plays' = FALSE
    /\ pump' = "publish"
    /\ UNCHANGED <<device, slot, ring, cbVars, signalVars, low, seen, pull, ahead,
                   ghostVars, rebuilds>>

(* The virtual output takes a frame, unless none is rendered. *)
PumpVirtual ==
    /\ pump = "virtual"
    /\ pull' = PullFor(MaxOf(ahead, 0) * FrameSize, low)
    /\ IF MaxOf(ahead, 0) * FrameSize < low
       THEN \/ /\ plays' = TRUE /\ ahead' = ahead + 1
               /\ pump' = pump
            \/ /\ plays' = FALSE /\ ahead' = 0 /\ pump' = "publish"
       ELSE /\ pump' = "publish"
            /\ UNCHANGED <<plays, ahead>>
    /\ UNCHANGED <<device, slot, ring, cbVars, signalVars, low, seen, ghostVars,
                   rebuilds>>

(* The playing count is published; the next callback has been provided for *)
(* if none has begun meanwhile.                                            *)
PumpEnd ==
    /\ pump = "publish"
    /\ sigPlaying' = plays
    /\ pump' = "idle"
    /\ low' = 0 /\ seen' = 0 /\ pull' = 0
    /\ skips' = IF clean /\ slot # None THEN 0 ELSE skips
    /\ UNCHANGED <<device, slot, ring, cbVars, sigQueued, sigRequest, plays, ahead,
                   clean, asked, meets, dropped, starved, rebuilds>>

(* Time passes: a frame's worth of the virtual output is consumed. *)
Elapse ==
    /\ slot = None /\ pump = "idle" /\ ahead >= -JitterMax
    /\ ahead' = ahead - 1
    /\ UNCHANGED <<device, slot, ring, cbVars, signalVars, pump, low, seen, pull, plays,
                   ghostVars, rebuilds>>

(***************************************************************************)
(* rebuild_playback: the stream is stopped, the slot emptied, the signals  *)
(* reset, a new stream started and its producer put in the slot.  A slot   *)
(* is replaced only between two passes of the pump.                        *)
(***************************************************************************)
StopStream ==
    /\ device # None /\ cb = "idle"
    /\ rebuilds < MaxRebuilds
    /\ rebuilds' = rebuilds + 1
    /\ device' = None
    /\ UNCHANGED <<slot, ring, cbVars, signalVars, pumpVars, ghostVars>>

EmptySlot ==
    /\ device = None /\ slot # None /\ pump = "idle"
    /\ slot' = None
    /\ UNCHANGED <<device, ring, cbVars, signalVars, pumpVars, ghostVars, rebuilds>>

StartPlayback(d) ==
    /\ device = None /\ slot = None
    /\ device' = d
    /\ ring' = 0 /\ queue' = 0 /\ silent' = TRUE
    /\ sigQueued' = 0 /\ sigRequest' = 0
    /\ skips' = 0 /\ asked' = 0
    /\ UNCHANGED <<slot, cb, need, sigPlaying, pumpVars, clean, meets, dropped, starved,
                   rebuilds>>

FillSlot ==
    /\ device # None /\ slot = None /\ pump = "idle"
    /\ slot' = device
    /\ UNCHANGED <<device, ring, cbVars, signalVars, pumpVars, ghostVars, rebuilds>>

Pump ==
    PumpLoad \/ PumpCheck \/ PumpPush \/ PumpDry \/ PumpVirtual \/ PumpEnd

Next ==
    \/ \E d \in Devices : StartPlayback(d)
    \/ StopStream \/ EmptySlot \/ FillSlot
    \/ \E d \in Devices : \E n \in Requests[d] : Callback(n)
    \/ DrainFrame \/ Fill \/ PublishQueued \/ PublishRequest
    \/ PumpBegin \/ Pump \/ Elapse

Spec == Init /\ [][Next]_vars

-----------------------------------------------------------------------------
(* The low-water marks the requests of the devices can lead to. *)
Marks ==
    {LowWaterFor(0)} \union
    UNION {{LowWaterFor((n * SampleRate) \div Rate[d]) : n \in Requests[d]} : d \in Devices}

(* What is in flight fits: a frame above the mark in the ring; that, twice *)
(* over, and the frames pushed while one callback drains, under the cap;   *)
(* the longest wait of an idle stream in its jitter ring.                  *)
Sized ==
    \E m \in Marks :
        /\ \A k \in Marks : k <= m
        /\ m + FrameSize <= RingSize
        /\ 2 * (m + FrameSize) + MaxMeets * FrameSize <= SafetyCap
        /\ TargetMax + PullFor(0, m) <= JitterMax

(* The pump holds the level of the output, however its two reads and the   *)
(* callback's pops and stores interleave and the stream is rebuilt: while  *)
(* someone plays the device finds what it asks for, unless it asks for     *)
(* more than ever before (output_starved); no frame is rendered that the   *)
(* ring has no room for, to be counted as played and lost (push_counted);  *)
(* the queue never grows past the safety cap ("A trim at this cap is a     *)
(* defect"); and the lead an idle stream is told to wait for fits its      *)
(* jitter ring.                                                            *)
LevelHeld ==
    /\ ~starved
    /\ ~dropped
    /\ device # None => queue <= ToDevice(SafetyCap)
    /\ TargetMax + pull <= JitterMax
=============================================================================
