----------------------------- MODULE VoiceLink ------------------------------
(***************************************************************************)
(* A call's way through the network: the UDP handshake of start_voice and  *)
(* the tasks it leaves running (crates/client/src/voice.rs), a NAT that    *)
(* may give the socket another port, a network that loses, repeats and     *)
(* reorders datagrams, and the relay's registration by token               *)
(* (crates/server/src/udp.rs, state.rs).                                   *)
(*                                                                         *)
(* Data abstractions: the client stays a member, so that its token stays   *)
(* valid (ServerState); voice the client sends has no effect here but to   *)
(* keep the send task busy; all addresses are ports of one IP, as the      *)
(* registry refuses any other.                                             *)
(***************************************************************************)
EXTENDS Naturals

CONSTANTS
    Ports,       \* what the NAT may map the socket to
    NoPort,
    Retries,     \* UDP_HELLO_RETRIES
    QueueCap,    \* capacity of the channel of encoded packets
    Paranoid,    \* the constant-rate mode is on
    Faults,      \* "encoder": it cannot be created; "socket": a send fails
    MaxRebinds,  \* bound: NAT rebinds
    MaxBursts    \* bound: times the user starts to talk

(* What the parameters have to satisfy. *)
LinkAssumption ==
    /\ NoPort \notin Ports
    /\ Retries \in Nat \ {0} /\ QueueCap \in Nat \ {0}
    /\ Paranoid \in BOOLEAN

VARIABLES
    phase,       \* "hello", "running" or "stopped"
    attempt,     \* hellos sent in the handshake
    waiting,     \* a hello is out and its interval is not over
    registered,  \* the flag of that name
    rehello,     \* the re-hello task is running
    capture,     \* the capture thread is running
    sender,      \* the send task is running
    receiver,    \* the receive task is running
    queue,       \* encoded packets on their way to the send task
    talking,     \* the VAD lets frames through
    nat,         \* the port the socket is mapped to
    route,       \* the relay: the address it has for the token
    up,          \* hellos on their way to the relay, by port
    down,        \* datagrams on their way to the client
    rebinds, bursts

tasks == <<phase, attempt, waiting, registered, rehello, capture, sender, receiver>>
net   == <<nat, route, up, down, rebinds>>
vars  == <<phase, attempt, waiting, registered, rehello, capture, sender, receiver,
           queue, talking, nat, route, up, down, rebinds, bursts>>

Datagrams == [kind : {"ack", "voice"}, to : Ports]

Init ==
    /\ phase = "hello" /\ attempt = 0 /\ waiting = FALSE
    /\ registered = FALSE /\ rehello = FALSE
    /\ capture = FALSE /\ sender = FALSE /\ receiver = FALSE
    /\ queue = 0 /\ talking = FALSE
    /\ nat \in Ports /\ route = NoPort
    /\ up = {} /\ down = {}
    /\ rebinds = 0 /\ bursts = 0

(***************************************************************************)
(* The handshake, before any task is started.                              *)
(***************************************************************************)
HelloSend ==
    /\ phase = "hello" /\ ~waiting /\ attempt < Retries
    /\ up' = up \union {nat}
    /\ attempt' = attempt + 1
    /\ waiting' = TRUE
    /\ UNCHANGED <<phase, registered, rehello, capture, sender, receiver, queue, talking,
                   nat, route, down, rebinds, bursts>>

(* "Keep sending UDP hellos": the re-hello task is for a call without ACK. *)
TryOn(acked) == ~acked

Confirmed(acked) == acked

(* start_voice after the handshake.  Without an encoder the capture thread *)
(* ends at once; without a device it runs and waits.                       *)
StartTasks(acked) ==
    /\ phase' = "running"
    /\ waiting' = FALSE
    /\ registered' = Confirmed(acked)
    /\ rehello' = TryOn(acked)
    /\ \/ capture' = TRUE
       \/ "encoder" \in Faults /\ capture' = FALSE
    /\ sender' = TRUE
    /\ receiver' = TRUE
    /\ UNCHANGED <<attempt, queue, talking, nat, route, up, rebinds, bursts>>

(* Any datagram ends the wait; only the ACK ends the handshake. *)
HelloAnswer(d) ==
    /\ phase = "hello" /\ waiting
    /\ d \in down /\ d.to = nat
    /\ down' = down \ {d}
    /\ \/ d.kind = "ack" /\ StartTasks(TRUE)
       \/ /\ d.kind = "voice"
          /\ waiting' = FALSE
          /\ UNCHANGED <<phase, attempt, registered, rehello, capture, sender, receiver,
                         queue, talking, nat, route, up, rebinds, bursts>>

HelloTimeout ==
    /\ phase = "hello" /\ waiting
    /\ waiting' = FALSE
    /\ UNCHANGED <<phase, attempt, registered, rehello, capture, sender, receiver, queue,
                   talking, net, bursts>>

HelloUnanswered ==
    /\ phase = "hello" /\ ~waiting /\ attempt = Retries
    /\ StartTasks(FALSE)
    /\ UNCHANGED down

(* bind, connect or send fail: start_voice returns the error. *)
StartFails ==
    /\ "socket" \in Faults
    /\ phase = "hello" /\ ~waiting
    /\ phase' = "stopped"
    /\ UNCHANGED <<attempt, waiting, registered, rehello, capture, sender, receiver, queue,
                   talking, net, bursts>>

(***************************************************************************)
(* The tasks.                                                              *)
(***************************************************************************)

RehelloDone == registered \/ phase = "stopped"

RehelloTask ==
    /\ rehello
    /\ IF RehelloDone
       THEN rehello' = FALSE /\ UNCHANGED up
       ELSE up' = up \union {nat} /\ UNCHANGED rehello
    /\ UNCHANGED <<phase, attempt, waiting, registered, capture, sender, receiver, queue,
                   talking, nat, route, down, rebinds, bursts>>

\* The capture thread has a frame to send every 20 ms.
Streaming == capture /\ phase = "running" /\ (Paranoid \/ talking)

QueueHasRoom == queue < QueueCap

(* encode, build_packet, blocking_send. *)
CaptureSend ==
    /\ Streaming
    /\ QueueHasRoom
    /\ queue' = queue + 1
    /\ UNCHANGED <<tasks, net, talking, bursts>>

CaptureEnds ==
    /\ capture /\ phase = "stopped"
    /\ capture' = FALSE
    /\ UNCHANGED <<phase, attempt, waiting, registered, rehello, sender, receiver, queue,
                   talking, net, bursts>>

SendVoice ==
    /\ sender /\ queue > 0
    /\ queue' = queue - 1
    /\ UNCHANGED <<tasks, net, talking, bursts>>

\* Mutant: the keepalive carries token 0, which registers nothing.
KeepalivePacketInert == up

(* "a re-hello with the real token" *)
KeepalivePacket == up \union {nat}

(* Nothing to send for UDP_KEEPALIVE_INTERVAL_SECS. *)
Keepalive ==
    /\ sender /\ queue = 0 /\ ~Streaming
    /\ capture
    /\ up' = KeepalivePacket
    /\ UNCHANGED <<tasks, queue, talking, nat, route, down, rebinds, bursts>>

SenderEnds ==
    /\ sender /\ ~capture /\ queue = 0
    /\ sender' = FALSE
    /\ UNCHANGED <<phase, attempt, waiting, registered, rehello, capture, receiver, queue,
                   talking, net, bursts>>

(* A late ACK, or voice: "any inbound voice proves the relay knows our     *)
(* address".                                                               *)
ProvesRegistration(d) == d.kind \in {"ack", "voice"}

(* ingest. *)
Ingest(d) ==
    /\ receiver
    /\ d \in down /\ d.to = nat
    /\ down' = down \ {d}
    /\ registered' = ProvesRegistration(d)
    /\ UNCHANGED <<phase, attempt, waiting, rehello, capture, sender, receiver, queue,
                   talking, nat, route, up, rebinds, bursts>>

(* Drop for VoiceHandle. *)
DropHandle ==
    /\ phase = "running"
    /\ phase' = "stopped"
    /\ receiver' = FALSE
    /\ UNCHANGED <<attempt, waiting, registered, rehello, capture, sender, queue, talking,
                   net, bursts>>

(***************************************************************************)
(* The relay and the network.  A datagram that was delivered may come      *)
(* again.                                                                  *)
(***************************************************************************)
(* register_udp_by_token from the port's address, and the echoed ACK. *)
DeliverHello(p) ==
    /\ p \in up
    /\ up' \in {up, up \ {p}}
    /\ route' = p
    /\ down' = down \union {[kind |-> "ack", to |-> p]}
    /\ UNCHANGED <<tasks, queue, talking, nat, rebinds, bursts>>

(* A peer's voice, relayed to the registered address. *)
RelayVoice ==
    /\ route # NoPort
    /\ down' = down \union {[kind |-> "voice", to |-> route]}
    /\ UNCHANGED <<tasks, queue, talking, nat, route, up, rebinds, bursts>>

Lose ==
    /\ \/ \E p \in up : up' = up \ {p} /\ UNCHANGED down
       \/ \E d \in down : down' = down \ {d} /\ UNCHANGED up
    /\ UNCHANGED <<tasks, queue, talking, nat, route, rebinds, bursts>>

NatRebind(p) ==
    /\ rebinds < MaxRebinds
    /\ p # nat
    /\ nat' = p
    /\ rebinds' = rebinds + 1
    /\ UNCHANGED <<tasks, queue, talking, route, up, down, bursts>>

StartTalking ==
    /\ ~talking /\ bursts < MaxBursts
    /\ talking' = TRUE
    /\ bursts' = bursts + 1
    /\ UNCHANGED <<tasks, queue, net>>

StopTalking ==
    /\ talking
    /\ talking' = FALSE
    /\ UNCHANGED <<tasks, queue, net, bursts>>

Handshake ==
    HelloSend \/ HelloTimeout \/ HelloUnanswered \/ \E d \in Datagrams : HelloAnswer(d)

SendTask == SendVoice \/ Keepalive \/ SenderEnds

CaptureThread == CaptureSend \/ CaptureEnds

Next ==
    \/ Handshake \/ StartFails
    \/ RehelloTask \/ CaptureThread \/ SendTask
    \/ \E d \in Datagrams : Ingest(d)
    \/ DropHandle
    \/ \E p \in Ports : DeliverHello(p) \/ NatRebind(p)
    \/ RelayVoice \/ Lose
    \/ StartTalking \/ StopTalking

(* The tasks are scheduled; nobody talks without a pause; of the datagrams *)
(* sent again and again some get through.                                  *)
Fairness ==
    /\ WF_vars(Handshake) /\ WF_vars(RehelloTask)
    /\ WF_vars(SendTask) /\ WF_vars(CaptureThread)
    /\ WF_vars(StopTalking)
    /\ \A p \in Ports : SF_vars(DeliverHello(p))
    /\ \A d \in Datagrams : SF_vars(Ingest(d))

Spec == Init /\ [][Next]_vars /\ Fairness

-----------------------------------------------------------------------------
(* "a NAT rebind self-heals within one interval instead of leaving the     *)
(* client permanently deaf": however many hellos and ACKs are lost or      *)
(* repeated, and whatever old hellos are still on their way, a call that   *)
(* goes on comes to be confirmed and the relay to know its present port.   *)
(* (Without an encoder the capture thread ends, and the keepalive with it.)*)
RebindHeals ==
    (phase = "running" /\ capture) ~> ((route = nat /\ registered) \/ phase = "stopped")
=============================================================================
