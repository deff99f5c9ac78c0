----------------------------- MODULE MCCallLink -----------------------------
(***************************************************************************)
(* What keeps a call alive, for TLC: its way through the network           *)
(* (VoiceLink) and its audio devices (AudioHalves).  A behaviour is a      *)
(* behaviour of one scenario; `part' says of which.  In a behaviour of the *)
(* other the network has been left, or no call been started.               *)
(***************************************************************************)
EXTENDS Naturals

CONSTANTS p1, p2, NoPort, d1, d2, None

VARIABLES
    part,
    phase, attempt, waiting, registered, rehello, capture, sender, receiver,
    queue, talking, nat, route, up, down, rebinds, bursts,
    present, default, choice, handle, params, opened, delivers, failed,
    reported, desired, known, changed, plugs, acts, faults, missed

linkVars == <<phase, attempt, waiting, registered, rehello, capture, sender, receiver,
              queue, talking, nat, route, up, down, rebinds, bursts>>
halvesVars == <<present, default, choice, handle, params, opened, delivers, failed,
                reported, desired, known, changed, plugs, acts, faults, missed>>
vars == <<part, linkVars, halvesVars>>

\* Silence comes after a burst of speech, and the NAT moves the socket once.
Link == INSTANCE VoiceLink WITH
    Ports <- {p1, p2}, Retries <- 1, QueueCap <- 1, Paranoid <- FALSE,
    Faults <- {"encoder", "socket"}, MaxRebinds <- 1, MaxBursts <- 1

\* The microphone, the half with the watchdog: its devices are plugged and
\* pulled, report it or not, and may fail to open.
Microphone == INSTANCE AudioHalves WITH
    Kinds <- {"input"}, Devices <- {d1, d2},
    MaxPlugs <- 2, MaxActs <- 2, MaxFaults <- 1, MaxMissed <- 1

ASSUME ScenarioAssumption == Link!LinkAssumption /\ Microphone!HalvesAssumption

\* The state in which start_voice has failed at once: no fair action is enabled.
NoLink ==
    /\ phase = "stopped" /\ attempt = 0 /\ nat = p1 /\ route = NoPort
    /\ waiting = FALSE /\ registered = FALSE /\ rehello = FALSE /\ capture = FALSE
    /\ sender = FALSE /\ receiver = FALSE /\ queue = 0 /\ talking = FALSE
    /\ up = {} /\ down = {} /\ rebinds = 0 /\ bursts = 0

NoChoice == default["input"] = d1 /\ present["input"] = {d1} /\ choice["input"] = None

Init ==
    /\ Microphone!Init
    /\ \/ part = "link" /\ Link!Init /\ NoChoice
       \/ part = "microphone" /\ NoLink

Next ==
    \/ part = "link" /\ Link!Next /\ UNCHANGED <<part, halvesVars>>
    \/ part = "microphone" /\ Microphone!Next /\ UNCHANGED <<part, linkVars>>

\* The fairness of the scenario that is not played asks for nothing.
Spec == Init /\ [][Next]_vars /\ Link!Fairness /\ Microphone!Fairness

-----------------------------------------------------------------------------
(* A call that goes on comes to be confirmed, and the relay to know its    *)
(* present port, whatever is lost, repeated or rebound.                    *)
RebindHeals ==
    (part = "link" /\ phase = "running" /\ capture)
        ~> ((route = nat /\ registered) \/ phase = "stopped")

(* A half that failed, could not be opened or died silently delivers again *)
(* for as long as the call lasts and there is a device.                    *)
BrokenHalfRebuilt == Microphone!BrokenHalfRebuilt

(* A half that follows the default ends up on it.                          *)
FollowsDefault == Microphone!FollowsDefault
=============================================================================
