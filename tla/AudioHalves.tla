---------------------------- MODULE AudioHalves ----------------------------
(***************************************************************************)
(* The audio devices of a desktop call: the two halves of a VoiceHandle    *)
(* (voice.rs: rebuild_capture, rebuild_playback, the starvation watchdog), *)
(* and the supervisor of the voice actor (voice_actor.rs) that rebuilds a  *)
(* half, follows the system default and detects hot-plugged devices.       *)
(*                                                                         *)
(* The actor runs one command at a time.  The audio host, the stream's     *)
(* error callback and the capture thread run on their own: a device that   *)
(* is pulled out either reports an error, or, for a microphone, just stops *)
(* delivering.  The capture thread polls the slot of the consumer: a       *)
(* rebuild empties and refills the slot, and the thread may or may not     *)
(* look in between.                                                        *)
(*                                                                         *)
(* Data abstractions: devices are their names; the throttles of the        *)
(* rebuilds and of the device poll are a choice whether a tick does them;  *)
(* the formats, rates and rings of a stream are left out.                  *)
(***************************************************************************)
EXTENDS Naturals, FiniteSets

CONSTANTS
    Kinds,        \* the halves: a subset of {"input", "output"}
    Devices,      \* device names
    None,
    MaxPlugs,     \* bound: changes of the devices or of the default
    MaxActs,      \* bound: the user's joins, leaves and choices
    MaxFaults,    \* bound: opens and starts that fail
    MaxMissed     \* bound: rebuilds the capture thread does not notice

(* What the parameters have to satisfy. *)
HalvesAssumption ==
    /\ Kinds \subseteq {"input", "output"}
    /\ None \notin Devices

VARIABLES
    present,      \* of each kind: the devices the host lists
    default,      \* of each kind: the system default
    choice,       \* AppCore.input_device, output_device
    handle,       \* actor_loop: handle is present
    params,       \* actor_loop: the devices of last_params
    opened,       \* of each half: the device it opened, None when absent
    delivers,     \* of each half: its stream runs
    failed,       \* capture_failed, playback_failed
    reported,     \* capture thread: starvation_reported
    desired,      \* Supervisor.desired_input, desired_output
    known,        \* Supervisor.known_inputs, known_outputs
    changed,      \* Supervisor.devices_changed
    plugs, acts, faults, missed

NoParams == [x \in {} |-> None]
NeverPolled == {None}

hostVars  == <<present, default>>
halfVars  == <<opened, delivers, failed, reported>>
superVars == <<desired, known, changed>>
vars == <<hostVars, choice, handle, params, halfVars, superVars,
          plugs, acts, faults, missed>>

(* The first poll, a moment after the start, is behind. *)
Init ==
    /\ present \in [Kinds -> (SUBSET Devices) \ {{}}]
    /\ default \in [Kinds -> Devices]
    /\ \A x \in Kinds : default[x] \in present[x]
    /\ choice \in [Kinds -> Devices \union {None}]
    /\ handle = FALSE /\ params = NoParams
    /\ opened = [x \in Kinds |-> None]
    /\ delivers = [x \in Kinds |-> FALSE]
    /\ failed = [x \in Kinds |-> FALSE]
    /\ reported = FALSE
    /\ desired = [x \in Kinds |-> None]
    /\ known = present
    /\ changed = FALSE
    /\ plugs = 0 /\ acts = 0 /\ faults = 0 /\ missed = 0

(***************************************************************************)
(* The audio host.                                                         *)
(***************************************************************************)
Defaults(s) == IF s = {} THEN {None} ELSE s

Plug(x, d) ==
    /\ plugs < MaxPlugs /\ plugs' = plugs + 1
    /\ d \notin present[x]
    /\ present' = [present EXCEPT ![x] = @ \union {d}]
    /\ \E e \in {default[x], d} \ {None} : default' = [default EXCEPT ![x] = e]
    /\ UNCHANGED <<choice, handle, params, halfVars, superVars, acts, faults, missed>>

(* A stream on the device ends with it; only a microphone may end without  *)
(* the error callback.                                                     *)
Unplug(x, d) ==
    /\ plugs < MaxPlugs /\ plugs' = plugs + 1
    /\ d \in present[x]
    /\ present' = [present EXCEPT ![x] = @ \ {d}]
    /\ \E e \in Defaults(present[x] \ {d}) :
         default' = [default EXCEPT ![x] = IF @ = d THEN e ELSE @]
    /\ IF opened[x] = d
       THEN /\ delivers' = [delivers EXCEPT ![x] = FALSE]
            /\ \/ failed' = [failed EXCEPT ![x] = TRUE]
               \/ x = "input" /\ UNCHANGED failed
       ELSE UNCHANGED <<delivers, failed>>
    /\ UNCHANGED <<choice, handle, params, opened, reported, superVars,
                   acts, faults, missed>>

ChangeDefault(x, d) ==
    /\ plugs < MaxPlugs /\ plugs' = plugs + 1
    /\ d \in present[x] \ {default[x]}
    /\ default' = [default EXCEPT ![x] = d]
    /\ UNCHANGED <<present, choice, handle, params, halfVars, superVars,
                   acts, faults, missed>>

(***************************************************************************)
(* rebuild_capture and rebuild_playback.  A half is a record of what it    *)
(* opened; opening fails when there is no device, or by a fault.           *)
(***************************************************************************)
ResolveDevice(x, want) == IF want \in present[x] THEN want ELSE default[x]

(* The outcomes of opening the devices `want' on the halves xs: what each  *)
(* opened, whether it runs, and the faults spent.  A half may fail to      *)
(* open, and a microphone may open and deliver nothing.                    *)
Outcomes(xs, want) ==
    LET good == [x \in xs |-> ResolveDevice(x, want[x])]
        runs == [x \in xs |-> good[x] # None]
    IN  {[dev |-> good, runs |-> runs, cost |-> 0]} \union
        (IF faults = MaxFaults THEN {} ELSE
            {[dev |-> [good EXCEPT ![f] = None], runs |-> [runs EXCEPT ![f] = FALSE],
              cost |-> 1] : f \in xs} \union
            {[dev |-> good, runs |-> [runs EXCEPT ![f] = FALSE],
              cost |-> 1] : f \in xs \intersect {"input"}})

(* Whether the capture thread finds the slot empty on the way. *)
SlotSwapped(xs, dev) ==
    \/ reported' = (reported /\ "input" \notin xs) /\ UNCHANGED missed
    \/ /\ reported /\ "input" \in xs /\ dev["input"] # None
       /\ missed < MaxMissed /\ missed' = missed + 1
       /\ UNCHANGED reported

Opened(xs, o) ==
    /\ opened' = [x \in Kinds |-> IF x \in xs THEN o.dev[x] ELSE opened[x]]
    /\ delivers' = [x \in Kinds |-> IF x \in xs THEN o.runs[x] ELSE delivers[x]]
    /\ failed' = [x \in Kinds |-> failed[x] /\ x \notin xs]
    /\ faults' = faults + o.cost
    /\ SlotSwapped(xs, o.dev)

Rebuild(xs, want) == \E o \in Outcomes(xs, want) : Opened(xs, o)

KeepHalves == UNCHANGED <<halfVars, faults, missed>>

(***************************************************************************)
(* The starvation watchdog of the capture thread.                          *)
(***************************************************************************)

Starved == failed' = [failed EXCEPT !["input"] = TRUE]

Watchdog ==
    /\ "input" \in Kinds
    /\ handle /\ opened["input"] # None /\ ~delivers["input"]
    /\ ~reported
    /\ reported' = TRUE
    /\ Starved
    /\ UNCHANGED <<hostVars, choice, handle, params, opened, delivers, superVars,
                   plugs, acts, faults, missed>>

(* A frame: the thread has its microphone back. *)
FrameArrives ==
    /\ "input" \in Kinds
    /\ reported /\ delivers["input"]
    /\ reported' = FALSE
    /\ UNCHANGED <<hostVars, choice, handle, params, opened, delivers, failed,
                   superVars, plugs, acts, faults, missed>>

(***************************************************************************)
(* The actor's commands.                                                   *)
(***************************************************************************)
Act == acts < MaxActs /\ acts' = acts + 1

NoStream == [dev |-> [x \in Kinds |-> None], runs |-> [x \in Kinds |-> FALSE], cost |-> 1]

(* The supervisor starts afresh; a socket error leaves no handle. *)
Start ==
    /\ Act
    /\ desired' = choice
    /\ known' = [x \in Kinds |-> NeverPolled]
    /\ changed' = FALSE
    /\ params' = choice
    /\ \/ handle' = TRUE /\ Rebuild(Kinds, choice)
       \/ /\ faults < MaxFaults
          /\ handle' = FALSE
          /\ Opened(Kinds, NoStream)
    /\ UNCHANGED <<hostVars, choice, plugs>>

(* The handle is dropped, and its streams with it. *)
DropHalves ==
    /\ opened' = [x \in Kinds |-> None]
    /\ delivers' = [x \in Kinds |-> FALSE]
    /\ failed' = [x \in Kinds |-> FALSE]
    /\ reported' = FALSE

Stop ==
    /\ Act
    /\ handle' = FALSE
    /\ params' = NoParams
    /\ DropHalves
    /\ UNCHANGED <<hostVars, choice, superVars, plugs, faults, missed>>

ApplyChoice(x) == IF handle THEN Rebuild({x}, desired') ELSE KeepHalves

(* set_input_device: the core and the actor, under the core's lock. *)
SetDevice(x, d) ==
    /\ Act
    /\ choice' = [choice EXCEPT ![x] = d]
    /\ desired' = [desired EXCEPT ![x] = d]
    /\ ApplyChoice(x)
    /\ UNCHANGED <<hostVars, handle, params, known, changed, plugs>>

(***************************************************************************)
(* A snapshot: the restart of a call that did not start, or a pass of the  *)
(* supervisor.                                                             *)
(***************************************************************************)
Restart ==
    /\ ~handle /\ params # NoParams
    /\ \/ handle' = TRUE /\ Rebuild(Kinds, params)
       \/ /\ faults < MaxFaults /\ faults' = faults + 1
          /\ UNCHANGED <<handle, halfVars, missed>>
    /\ UNCHANGED <<hostVars, choice, params, superVars, plugs, acts>>

\* Mutant: an absent half is not tried again.
BrokenFailedOnly(x) == opened[x] # None /\ failed[x]

Broken(x) == opened[x] = None \/ failed[x]

RebuildBroken(x) ==
    /\ handle
    /\ Broken(x)
    /\ Rebuild({x}, desired)
    /\ UNCHANGED <<hostVars, choice, handle, params, superVars, plugs, acts>>

\* Mutant: a stream is taken to follow the default by itself.
MovedDefaultsNone == {}

(* Halves that follow the default and are open on another device. *)
MovedDefaults ==
    {x \in Kinds : /\ handle /\ desired[x] = None
                   /\ default[x] # None /\ opened[x] \notin {None, default[x]}}

(* Configured devices that appeared since the last poll. *)
Returned ==
    {x \in Kinds : /\ handle /\ known[x] # NeverPolled
                   /\ desired[x] \in present[x] \ known[x]}

DevicesDiffer == \E x \in Kinds : known[x] # NeverPolled /\ present[x] # known[x]

(* The device poll: follow the default, then compare with the last poll.   *)
Poll ==
    /\ LET xs == MovedDefaults \union Returned IN
         IF xs = {} THEN KeepHalves ELSE Rebuild(xs, desired)
    /\ known' = present
    /\ changed' = (changed \/ DevicesDiffer)
    /\ UNCHANGED <<hostVars, choice, handle, params, desired, plugs, acts>>

(* The snapshot is drained into an event, at which the panel lists anew    *)
(* what the host has then.                                                 *)
Announce ==
    /\ changed
    /\ changed' = FALSE
    /\ UNCHANGED <<hostVars, choice, handle, params, halfVars, desired, known, plugs, acts,
                   faults, missed>>

Host == \E x \in Kinds, d \in Devices : Plug(x, d) \/ Unplug(x, d) \/ ChangeDefault(x, d)

User ==
    \/ Start \/ Stop
    \/ \E x \in Kinds, d \in Devices \union {None} : SetDevice(x, d)

Next ==
    \/ Host \/ User
    \/ Watchdog \/ FrameArrives
    \/ Restart \/ Poll \/ Announce
    \/ \E x \in Kinds : RebuildBroken(x)

(* The level pump asks for a snapshot five times a second, and the capture *)
(* thread looks every 2 ms.                                                *)
Fairness ==
    /\ WF_vars(Watchdog) /\ WF_vars(FrameArrives)
    /\ WF_vars(Restart) /\ WF_vars(Poll) /\ WF_vars(Announce)
    /\ \A x \in Kinds : WF_vars(RebuildBroken(x))

Spec == Init /\ [][Next]_vars /\ Fairness

(***************************************************************************)
(* Properties.                                                             *)
(***************************************************************************)

(* A half that failed, could not be opened, or died without an error       *)
(* callback delivers again, for as long as the call lasts and there is a   *)
(* device; only a rebuild that the capture thread did not notice leaves    *)
(* its watchdog disarmed.                                                  *)
BrokenHalfRebuilt ==
    \A x \in Kinds :
        (handle /\ ~delivers[x])
            ~> (~handle \/ delivers[x] \/ present[x] = {} \/ missed > 0)

(* "A default-device change must move the live call": a half that follows  *)
(* the default ends up on it.                                              *)
FollowsDefault ==
    \A x \in Kinds, d \in Devices :
        (handle /\ desired[x] = None /\ default[x] = d) ~>
            (~handle \/ desired[x] # None \/ default[x] # d \/ opened[x] = d)

=============================================================================
