------------------------------ MODULE Capture ------------------------------
(***************************************************************************)
(* The sending half of a call (voice.rs): the device callback fills the    *)
(* microphone ring, the capture thread takes one frame at a time through   *)
(* mute, paranoid mode and the voice gate with its pre-roll and hangover,  *)
(* numbers and encrypts what passes, and hands it to the UDP send task     *)
(* through a bounded queue, on which the thread blocks.                    *)
(*                                                                         *)
(* The user's switches (mute, paranoid mode, the gate's threshold) are     *)
(* atomics read once per frame; they change at any time, also while the    *)
(* thread is blocked in the middle of a flush.                             *)
(*                                                                         *)
(* Data abstractions: a frame is its place in the history of taken frames  *)
(* and whether it is above the gate's threshold; gain, noise suppression   *)
(* and the level control change samples only; a packet is its number, the  *)
(* frame it carries and whether it carries it or encoded silence.  The     *)
(* packets waiting in the queue are the last ones of the history sent.     *)
(***************************************************************************)
EXTENDS Naturals, Sequences, FiniteSets

CONSTANTS
    Preroll,      \* config::VAD_PREROLL_FRAMES
    Hangover,     \* config::VAD_HANGOVER_FRAMES
    QueueCap,     \* the channel between the thread and the send task
    MicCap,       \* frames the microphone ring holds
    Switches,     \* the switches the user may flip in this instance
    Paranoid,     \* whether the call starts in paranoid mode
    MaxFrames,    \* bound: frames captured
    MaxFlips,     \* bound: flips of switches
    MaxFaults     \* bound: encoder failures

(* What the parameters have to satisfy. *)
CaptureAssumption ==
    /\ Preroll \in Nat \ {0} /\ QueueCap \in Nat \ {0} /\ MicCap \in Nat \ {0}
    /\ Hangover \in Nat /\ Paranoid \in BOOLEAN
    /\ MaxFrames \in Nat /\ MaxFlips \in Nat /\ MaxFaults \in Nat
    /\ Switches \subseteq {"muted", "paranoid", "vad"}

VARIABLES
    captured,     \* frames the device delivered
    mic,          \* the microphone ring: loudness of the waiting frames
    flags,        \* the atomics muted, paranoid and (threshold > 0)
    slots,        \* VadPreroll.slots
    start, len,   \* VadPreroll.start, len
    hangover,     \* hangover_remaining
    sequence,     \* the next packet's number
    todo,         \* packets this iteration still has to hand over
    queued,       \* packets in the channel
    stop, done,   \* VoiceHandle.stop; the thread has left its loop
    taken,        \* history: the frames popped, and the switches then
    gated,        \* history: the frames that reached the gate
    sent,         \* history: the packets handed over
    failed,       \* history: the frames the encoder failed on
    flips

prerollVars == <<slots, start, len>>
vars == <<captured, mic, flags, prerollVars, hangover, sequence, todo, queued,
          stop, done, taken, gated, sent, failed, flips>>

Init ==
    /\ captured = 0 /\ mic = <<>>
    /\ flags = [muted |-> FALSE, paranoid |-> Paranoid, vad |-> TRUE]
    /\ slots = [i \in 0..(Preroll - 1) |-> 0]
    /\ start = 0 /\ len = 0
    /\ hangover = 0
    /\ sequence = 1
    /\ todo = <<>> /\ queued = 0
    /\ stop = FALSE /\ done = FALSE
    /\ taken = <<>> /\ gated = <<>> /\ sent = <<>> /\ failed = {}
    /\ flips = 0

(***************************************************************************)
(* The device callback: a full ring drops what does not fit.               *)
(***************************************************************************)
DeviceFrame(loud) ==
    /\ captured < MaxFrames
    /\ captured' = captured + 1
    /\ mic' = IF Len(mic) < MicCap THEN Append(mic, loud) ELSE mic
    /\ UNCHANGED <<flags, prerollVars, hangover, sequence, todo, queued, stop,
                   done, taken, gated, sent, failed, flips>>

Flip(s) ==
    /\ flips < MaxFlips
    /\ flips' = flips + 1
    /\ flags' = [flags EXCEPT ![s] = ~@]
    /\ UNCHANGED <<captured, mic, prerollVars, hangover, sequence, todo, queued,
                   stop, done, taken, gated, sent, failed>>

(***************************************************************************)
(* VadPreroll: a fixed ring of frames.                                     *)
(***************************************************************************)
Slot(i) == (start + i) % Preroll

PrerollPush(f) ==
    /\ slots' = [slots EXCEPT ![Slot(len)] = f]
    /\ IF len = Preroll
       THEN start' = (start + 1) % Preroll /\ len' = len
       ELSE start' = start /\ len' = len + 1

(* What drain visits: the buffered frames, oldest first. *)
Buffered == [i \in 1..len |-> slots[Slot(i - 1)]]

PrerollReset ==
    /\ start' = 0 /\ len' = 0 /\ slots' = slots

(***************************************************************************)
(* pass_vad: a loud frame opens the gate and renews the hangover.          *)
(***************************************************************************)
PassVad(loud) == ~flags.vad \/ loud \/ hangover > 0

(* Mutant: the hangover is set once and not renewed by later loud frames. *)
HangoverAfterOnce(loud) ==
    CASE ~flags.vad                            -> hangover
      [] flags.vad /\ loud /\ hangover = 0     -> Hangover
      [] OTHER                                 -> IF hangover > 0 THEN hangover - 1 ELSE 0

HangoverAfter(loud) ==
    CASE ~flags.vad              -> hangover
      [] flags.vad /\ loud       -> Hangover
      [] OTHER                   -> IF hangover > 0 THEN hangover - 1 ELSE 0

(***************************************************************************)
(* One iteration of the capture thread: pop a frame, decide.               *)
(***************************************************************************)
Audio(f)   == [frame |-> f, silence |-> FALSE]
Silence(f) == [frame |-> f, silence |-> TRUE]
Flushed    == [i \in 1..len |-> Audio(Buffered[i])]

Idle == ~done /\ todo = <<>>

(* Mutant: no comfort silence while muted. *)
MutedFrameQuiet(f) ==
    /\ flags.muted
    /\ todo' = <<>>
    /\ UNCHANGED <<prerollVars, hangover, gated>>

(* Muted: the frame is dropped; paranoid mode sends silence in its place. *)
MutedFrame(f) ==
    /\ flags.muted
    /\ todo' = IF flags.paranoid THEN <<Silence(f)>> ELSE <<>>
    /\ UNCHANGED <<prerollVars, hangover, gated>>

(* Paranoid mode: every frame, past the gate. *)
ParanoidFrame(f) ==
    /\ ~flags.muted /\ flags.paranoid
    /\ todo' = <<Audio(f)>>
    /\ UNCHANGED <<prerollVars, hangover, gated>>

GatedFrame(f, loud) ==
    /\ ~flags.muted /\ ~flags.paranoid
    /\ ~PassVad(loud)
    /\ gated' = Append(gated, [frame |-> f, loud |-> loud])
    /\ hangover' = HangoverAfter(loud)
    /\ PrerollPush(f)
    /\ todo' = <<>>

VoicedFrame(f, loud) ==
    /\ ~flags.muted /\ ~flags.paranoid
    /\ PassVad(loud)
    /\ gated' = Append(gated, [frame |-> f, loud |-> loud])
    /\ hangover' = HangoverAfter(loud)
    /\ todo' = Append(Flushed, Audio(f))
    /\ PrerollReset

TakeFrame ==
    /\ Idle /\ ~stop
    /\ mic # <<>>
    /\ mic' = Tail(mic)
    /\ taken' = Append(taken, [muted |-> flags.muted, paranoid |-> flags.paranoid])
    /\ LET f == Len(taken) + 1 IN
          \/ MutedFrame(f)
          \/ ParanoidFrame(f)
          \/ GatedFrame(f, Head(mic))
          \/ VoicedFrame(f, Head(mic))
    /\ UNCHANGED <<captured, flags, sequence, queued, stop, done, sent, failed,
                   flips>>

(* A packet takes the next number once it is in the channel. *)
SendOne ==
    /\ ~done /\ todo # <<>>
    /\ queued < QueueCap
    /\ queued' = queued + 1
    /\ sent' = Append(sent, [seq |-> sequence, frame |-> Head(todo).frame,
                             silence |-> Head(todo).silence])
    /\ sequence' = sequence + 1
    /\ todo' = Tail(todo)
    /\ UNCHANGED <<captured, mic, flags, prerollVars, hangover, stop, done,
                   taken, gated, failed, flips>>

(* A frame that does not encode or encrypt is skipped. *)
EncodeFails ==
    /\ ~done /\ todo # <<>>
    /\ Cardinality(failed) < MaxFaults
    /\ failed' = failed \union {Head(todo).frame}
    /\ todo' = Tail(todo)
    /\ UNCHANGED <<captured, mic, flags, prerollVars, hangover, sequence, queued,
                   stop, done, taken, gated, sent, flips>>

(* The stop flag is read between two frames, never inside a flush. *)
LeaveLoop ==
    /\ Idle /\ stop
    /\ done' = TRUE
    /\ UNCHANGED <<captured, mic, flags, prerollVars, hangover, sequence, todo,
                   queued, stop, taken, gated, sent, failed, flips>>

(***************************************************************************)
(* The send task and the end of the call.                                  *)
(***************************************************************************)

UdpSend ==
    /\ queued > 0
    /\ queued' = queued - 1
    /\ UNCHANGED <<captured, mic, flags, prerollVars, hangover, sequence, todo,
                   stop, done, taken, gated, sent, failed, flips>>

DropHandle ==
    /\ ~stop
    /\ stop' = TRUE
    /\ UNCHANGED <<captured, mic, flags, prerollVars, hangover, sequence, todo,
                   queued, done, taken, gated, sent, failed, flips>>

Next ==
    \/ \E loud \in BOOLEAN : DeviceFrame(loud)
    \/ \E s \in Switches : Flip(s)
    \/ TakeFrame
    \/ SendOne
    \/ EncodeFails
    \/ LeaveLoop
    \/ UdpSend
    \/ DropHandle

Spec == Init /\ [][Next]_vars

-----------------------------------------------------------------------------
(***************************************************************************)
(* Properties.                                                             *)
(***************************************************************************)

(* The gate, by its definition: a frame passes when a loud frame is at     *)
(* most Hangover frames before it or Preroll frames after it.              *)
NearSpeech(i) ==
    \E j \in DOMAIN gated :
        /\ gated[j].loud
        /\ i <= j + Hangover
        /\ j <= i + Preroll

Emitted == {sent[i].frame : i \in DOMAIN sent} \union
           {todo[i].frame : i \in DOMAIN todo} \union failed

(* The hangover counter and the ring together implement that definition:   *)
(* exactly the frames near speech are sent, of those that reach the gate.  *)
GateIsWindow ==
    \A i \in DOMAIN gated : gated[i].frame \in Emitted <=> NearSpeech(i)

PacketsOf(f) == Cardinality({i \in DOMAIN sent : sent[i].frame = f}) +
                Cardinality({i \in DOMAIN todo : todo[i].frame = f})

(* What the network sees: packet numbers are consecutive, whatever was     *)
(* skipped (a gap would read as a loss at every receiver); in paranoid     *)
(* mode a frame is a packet, one for one, muted or not and loud or not;    *)
(* and what a muted frame sends is silence.                                *)
ConstantRate ==
    /\ \A i \in DOMAIN sent : sent[i].seq = i
    /\ \A f \in DOMAIN taken :
         /\ taken[f].paranoid /\ f \notin failed => PacketsOf(f) = 1
         /\ taken[f].muted => \A i \in DOMAIN sent :
                                  sent[i].frame = f => sent[i].silence
=============================================================================
