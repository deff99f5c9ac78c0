------------------------------- MODULE MCMedia -------------------------------
(***************************************************************************)
(* The audio of a call, for TLC: the sending half (Capture), with the gate *)
(* and in paranoid mode, the mixer of the receiving half (Mixer) and the   *)
(* output path behind it (OutputPath).  A behaviour is a behaviour of one  *)
(* scenario; `part' says of which, and the variables of the others keep    *)
(* their initial values.                                                   *)
(***************************************************************************)
EXTENDS Integers, TLC

CONSTANTS
    Preroll, Hangover, QueueCap, MicCap, Switches, Paranoid,  \* of Capture, by call
    MaxFrames, MaxFlips, MaxFaults,
    Senders, MaxStreams, Ttl, Window, MaxBuf, MaxLead, HoldFrames, Recent,  \* of Mixer
    MaxPull, MaxPackets,
    FrameSize, LowWater, RingSize, SafetyCap, JitterMax, TargetMax, SampleRate,  \* of OutputPath
    Devices, Rate, Requests, MaxSkips, MaxMeets, MaxRebuilds

\* A call behind the voice gate, whose threshold stays, and one whose user flips
\* every switch.
Calls == {"gate", "constant"}

VARIABLES
    part,
    captured, mic, flags, slots, start, len, hangover, sequence, todo, queued,
    stop, done, taken, gated, sent, failed, flips,
    device, slot, ring, queue, silent, sigQueued, sigRequest, sigPlaying, cb, need,
    pump, low, seen, pull, plays, ahead, skips, clean, asked, meets, dropped, starved,
    rebuilds,
    streams, playing, buf, idleWait, hold, rms, ago, sincePrune, moved, speaking,
    shown, lane, pc, pulled, served, packets

captureVars == <<captured, mic, flags, slots, start, len, hangover, sequence, todo,
                 queued, stop, done, taken, gated, sent, failed, flips>>
outputVars == <<device, slot, ring, queue, silent, sigQueued, sigRequest, sigPlaying,
                cb, need, pump, low, seen, pull, plays, ahead, skips, clean, asked,
                meets, dropped, starved, rebuilds>>
mixerVars == <<streams, playing, buf, idleWait, hold, rms, ago, sincePrune, moved,
               speaking, shown, lane, pc, pulled, served, packets>>
vars == <<part, captureVars, outputVars, mixerVars>>

Sending(c) == INSTANCE Capture WITH
    Preroll <- Preroll[c], Hangover <- Hangover[c], QueueCap <- QueueCap[c],
    MicCap <- MicCap[c], Switches <- Switches[c], Paranoid <- Paranoid[c],
    MaxFrames <- MaxFrames[c], MaxFlips <- MaxFlips[c], MaxFaults <- MaxFaults[c]

Output == INSTANCE OutputPath

Mix == INSTANCE Mixer WITH sent <- packets

ASSUME MediaAssumption ==
    /\ \A c \in Calls : Sending(c)!CaptureAssumption
    /\ Output!OutputAssumption /\ Mix!MixerAssumption

\* The pump wakes up between two callbacks, and the devices ask for no more at a
\* time than the buffers are made for.
ASSUME OutputSized == MaxSkips = 1 /\ Output!Sized

ASSUME ThresholdStays == "vad" \notin Switches["gate"]

Init ==
    /\ \/ \E c \in Calls : part = c /\ Sending(c)!Init
       \/ part \in {"output", "mixer"} /\ Sending("gate")!Init
    /\ Output!Init
    /\ Mix!Init

Speak ==
    /\ \E c \in Calls : part = c /\ Sending(c)!Next
    /\ UNCHANGED <<part, outputVars, mixerVars>>

Play == part = "output" /\ Output!Next /\ UNCHANGED <<part, captureVars, mixerVars>>

Listen == part = "mixer" /\ Mix!Next /\ UNCHANGED <<part, captureVars, outputVars>>

Next == Speak \/ Play \/ Listen

Spec == Init /\ [][Next]_vars

\* The values of the run: a pre-roll that wraps, with mute and unmute in between;
\* every switch flipped, and a frame that does not encode; one sender more than
\* there may be streams.  A frame of three samples; a device at full rate that asks
\* for a third of a frame or a whole one, and one at two thirds of the rate with
\* large and varying requests, as large as there may be.  Ring, cap, jitter ring,
\* target and low water have the code's sizes in frames.
CONSTANTS ann, bob, eve

MCPreroll   == "gate" :> 3 @@ "constant" :> 2
MCHangover  == "gate" :> 2 @@ "constant" :> 1
MCQueueCap  == "gate" :> 2 @@ "constant" :> 2
MCMicCap    == "gate" :> 1 @@ "constant" :> 1
MCSwitches  == "gate" :> {"muted"} @@ "constant" :> {"muted", "paranoid", "vad"}
MCParanoid  == "gate" :> FALSE @@ "constant" :> TRUE
MCMaxFrames == "gate" :> 7 @@ "constant" :> 4
MCMaxFlips  == "gate" :> 2 @@ "constant" :> 2
MCMaxFaults == "gate" :> 0 @@ "constant" :> 1
MCRate      == "small" :> 3 @@ "large" :> 2
MCRequests  == "small" :> {1, 3} @@ "large" :> {4, 8}

Peers == Permutations({ann, bob, eve})

-----------------------------------------------------------------------------
(* Exactly the frames near speech are sent, of those that reach the gate.  *)
GateIsWindow == part = "gate" => Sending("gate")!GateIsWindow

(* Packet numbers have no gaps, paranoid mode sends one packet per frame,  *)
(* and a muted frame is sent as silence or not at all.                     *)
ConstantRate == part = "constant" => Sending("constant")!ConstantRate

(* The output neither runs dry while someone plays, nor loses frames, nor  *)
(* piles them up, whatever the device asks for.                            *)
LevelHeld == part = "output" => Output!LevelHeld

(* Between two passes the user interfaces see exactly the senders whose    *)
(* last frame was audible.                                                 *)
LevelsCurrent == part = "mixer" => Mix!LevelsCurrent
=============================================================================
