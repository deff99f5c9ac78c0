---------------------------- MODULE MCConnection ----------------------------
(***************************************************************************)
(* A client's connection to the server, for TLC: the byte stream cut into  *)
(* frames (Frames), and above it the terminal client's session             *)
(* (ClientSession), once with every command and once with more faults.     *)
(* A behaviour is a behaviour of one scenario; `part' says of which, and   *)
(* the variables of the others keep their initial values.                  *)
(***************************************************************************)
EXTENDS Frames

CONSTANTS
    r1, r2, Echo, None,
    MaxConns, CmdCap, MaxCommands,       \* of ClientSession
    Rooms, MsgCap, MaxFaults, Commands   \* of ClientSession, by scenario

Scenarios == {"typing", "faulty"}

VARIABLES
    part,
    link, cmdq, heart, reader, wire, msgq, room, stayed, missed, conn, rx, connState,
    channel, joinParams, rejoin, voice, voiceActive, echo, retry, typed, faults

sessionVars == <<link, cmdq, heart, reader, wire, msgq, room, stayed, missed, conn,
                 rx, connState, channel, joinParams, rejoin, voice, voiceActive, echo, retry,
                 typed, faults>>
allVars == <<part, vars, sessionVars>>

\* "typing": every command, with a queue that two messages fill.  "faulty":
\* connections lost and refused.
Session(p) == INSTANCE ClientSession WITH
    Rooms <- Rooms[p], MsgCap <- MsgCap[p], MaxFaults <- MaxFaults[p],
    Commands <- Commands[p]

ASSUME ScenarioAssumption == \A p \in Scenarios : Session(p)!SessionAssumption

MCRooms == [p \in Scenarios |-> IF p = "typing" THEN {r1, r2} ELSE {r1}]
MCMsgCap == [p \in Scenarios |-> IF p = "typing" THEN 2 ELSE 4]
MCMaxFaults == [p \in Scenarios |-> IF p = "typing" THEN 1 ELSE 2]
MCCommands == [p \in Scenarios |->
    IF p = "typing"
    THEN {"join", "create", "leave", "echo", "server", "config", "say"}
    ELSE {"join", "leave", "echo", "reconnect", "server"}]

ConnectionInit ==
    /\ Init
    /\ \/ \E p \in Scenarios : part = p /\ Session(p)!Init
       \/ part = "frames" /\ Session("faulty")!Init /\ connState = "disconnected"

ConnectionNext ==
    \/ part = "frames" /\ Next /\ UNCHANGED <<part, sessionVars>>
    \/ \E p \in Scenarios : part = p /\ Session(p)!Next /\ UNCHANGED <<part, vars>>

\* The fairness of a scenario that is not played asks for nothing: none of its
\* fair actions is enabled where its variables start.
ConnectionSpec ==
    /\ ConnectionInit /\ [][ConnectionNext]_allVars
    /\ Fairness
    /\ part = "faulty" => Session("faulty")!Fairness

-----------------------------------------------------------------------------
(* Whatever the user types, whatever the server refuses and however often  *)
(* the connection is lost: once nothing is on its way, the channel shown   *)
(* and the channel the microphone streams to are the one the server has    *)
(* the client in, or the client shows none because its leave was refused.  *)
RoomAgreement == \A p \in Scenarios : part = p => Session(p)!RoomAgreement

(* A client told of a disconnect, whose user does nothing about it,        *)
(* connects again, however often it is refused.                            *)
Recovers == (part = "faulty" /\ retry /\ typed = MaxCommands) ~> connState = "connected"
=============================================================================
