------------------------------- MODULE MCStores -------------------------------
(***************************************************************************)
(* What the clients keep and share outside the call, for TLC: the settings *)
(* file and the pins (TrustStore) of the terminal client and of the        *)
(* desktop, the desktop's direct messages (DirectMessages) and the levels  *)
(* its windows animate (LiveLevels).  A behaviour is a behaviour of one    *)
(* scenario; `part' says of which, and the variables of the others keep    *)
(* their initial values.                                                   *)
(***************************************************************************)
EXTENDS Naturals, TLC

CONSTANTS
    Servers, Certs, DeskValues, None,   \* of TrustStore
    MaxSets, MaxConnects, MaxRotations, MaxCrashes,
    Peers, DmServers, Limit, AbortLate, \* of DirectMessages, by scene
    MaxDms, MaxReconnects,
    MaxCalls, MaxWrites, SilenceTicks   \* of LiveLevels

Programs == {"tui", "desktop"}
Scenes   == {"session", "aborts"}

VARIABLES
    part,
    file, running, mem, current, result, connected, flights, home, cert, presented,
    backup, sets, connects, rotations, crashes,
    server, conn, rx, drain, late, files, known, sends, events, dm, thread, fetches,
    count, reconnects,
    own, peer, version, ownBump, peerBump, capture, receiver, started, call, closing,
    writes, live, attached, pc, snapVer, seen, me, peerSeen, changed, quiet, shown

trustVars == <<file, running, mem, current, result, connected, flights, home, cert,
               presented, backup, sets, connects, rotations, crashes>>
dmVars == <<server, conn, rx, drain, late, files, known, sends, events, dm, thread,
            fetches, count, reconnects>>
levelVars == <<own, peer, version, ownBump, peerBump, capture, receiver, started, call,
               closing, writes, live, attached, pc, snapVer, seen, me, peerSeen,
               changed, quiet, shown>>
vars == <<part, trustVars, dmVars, levelVars>>

\* One program on the file, one handshake at a time, renewed certificates, crashes
\* inside a save.
Trust(p) == INSTANCE TrustStore WITH
    Programs <- {p}, MaxConnects <- MaxConnects[p], MaxInFlight <- 1

\* "session": the threads of one session.  "aborts": a connect, to another server or
\* to the same, may come too late to stop the drain task.
Messages(s) == INSTANCE DirectMessages WITH
    Peers <- Peers[s], Servers <- DmServers[s], Limit <- Limit[s],
    AbortLate <- AbortLate[s], MaxConnects <- MaxReconnects[s],
    shown <- thread, connects <- reconnects

\* Calls, one after the other.
Levels == INSTANCE LiveLevels

ASSUME StoresAssumption ==
    /\ \A p \in Programs : Trust(p)!TrustAssumption
    /\ \A s \in Scenes : Messages(s)!MessagesAssumption
    /\ Levels!LevelsAssumption

\* A store that the scenario leaves alone has one initial state.
TrustIdle ==
    /\ Trust("tui")!Init
    /\ home["tui"] = (CHOOSE s \in Servers : TRUE)
    /\ \A s \in Servers : cert[s] = (CHOOSE c \in Certs : TRUE)

Init ==
    /\ \/ /\ \E p \in Programs : part = p /\ Trust(p)!Init
          /\ Messages("session")!Init
       \/ /\ \E s \in Scenes : part = s /\ Messages(s)!Init
          /\ TrustIdle
       \/ part = "levels" /\ TrustIdle /\ Messages("session")!Init
    /\ Levels!Init

Next ==
    \/ /\ \E p \in Programs : part = p /\ Trust(p)!Next
       /\ UNCHANGED <<part, dmVars, levelVars>>
    \/ /\ \E s \in Scenes : part = s /\ Messages(s)!Next
       /\ UNCHANGED <<part, trustVars, levelVars>>
    \/ part = "levels" /\ Levels!Next /\ UNCHANGED <<part, trustVars, dmVars>>

Spec == Init /\ [][Next]_vars

Threads == Permutations(Peers["session"])

\* The values of the run.
CONSTANTS ann, bob, eve, s1, s2

MCMaxConnects   == "tui" :> 3 @@ "desktop" :> 2
MCPeers         == "session" :> {ann, bob} @@ "aborts" :> {eve}
MCDmServers     == "session" :> {s1} @@ "aborts" :> {s1, s2}
MCLimit         == "session" :> 1 @@ "aborts" :> 2
MCAbortLate     == "session" :> FALSE @@ "aborts" :> TRUE
MCMaxReconnects == "session" :> 0 @@ "aborts" :> 1

-----------------------------------------------------------------------------
(* A pin is a certificate the server has shown. *)
PinTruth == \A p \in Programs : part = p => Trust(p)!PinTruth

(* A program finds at its next start the settings it shows now. *)
RestartKeeps == \A p \in Programs : part = p => Trust(p)!RestartKeeps

(* A message is filed once and shown in its open thread. *)
DmKeptAndShown == \A s \in Scenes : part = s => Messages(s)!DmKeptAndShown

(* A lane that has read the last version has the last levels. *)
SnapshotNeverOlder == part = "levels" => Levels!SnapshotNeverOlder
=============================================================================
