----------------------------- MODULE TrustStore -----------------------------
(***************************************************************************)
(* tc.toml and what the two clients do with it: settings.rs (load, save),  *)
(* the certificate pins of trust on first use (tls.rs), the terminal       *)
(* client's build_settings, save_tofu and /trust (client main.rs) and the  *)
(* desktop's AppCore::new, save, export and import (state.rs, commands.rs).*)
(*                                                                         *)
(* Each program loads the file when it starts and writes the whole file    *)
(* from memory on every change.  A connect sets the one server name the    *)
(* verifier will use, then awaits the handshake: the desktop's connect     *)
(* command and its automatic reconnect may be in flight together.          *)
(*                                                                         *)
(* Data abstractions: two settings stand for all: agc (default on, always  *)
(* written) and paranoid (default off, written by the terminal client only *)
(* when on); desk stands for what only the desktop knows (hotkeys, known   *)
(* servers, DM peers, overlay, language).  Save is one step, except that a *)
(* crash inside it leaves a truncated file, which loads as no settings.    *)
(***************************************************************************)
EXTENDS Naturals, FiniteSets

CONSTANTS
    Programs,     \* a subset of {"tui", "desktop"}
    Servers, Certs,
    DeskValues,   \* values of the desktop's own settings
    None,
    MaxSets,      \* bound: settings changed by the user
    MaxConnects,  \* bound: connects begun
    MaxInFlight,  \* bound: handshakes in flight
    MaxRotations, \* bound: certificates renewed
    MaxCrashes    \* bound: crashes inside a save

TrustAssumption ==
    /\ Programs \subseteq {"tui", "desktop"}
    /\ None \notin Certs \union DeskValues \union Servers \union BOOLEAN
    /\ Servers # {} /\ Certs # {}

VARIABLES
    file,         \* the contents of tc.toml, absent fields None
    running,      \* the programs that run
    mem,          \* of each program: its settings and its pins
    current,      \* of each program: TofuInner.current_server
    result,       \* of each program: TofuInner.last_result
    connected,    \* of each program: the server it is connected to
    flights,      \* connects awaiting their handshake
    home,         \* of each program: the server a reconnect goes to
    cert,         \* of each server: its certificate
    presented,    \* history: certificates servers have shown
    backup,       \* the desktop's last export
    sets, connects, rotations, crashes

countVars == <<sets, connects, rotations, crashes>>
tofuVars  == <<current, result, connected, flights, home>>
vars == <<file, running, mem, tofuVars, cert, presented, backup, countVars>>

NoPins == [s \in Servers |-> None]
NoSettings == [agc |-> None, paranoid |-> None, desk |-> None, pins |-> NoPins]

Init ==
    /\ file = NoSettings
    /\ running = {}
    /\ mem = [p \in Programs |-> NoSettings]
    /\ current = [p \in Programs |-> None]
    /\ result = [p \in Programs |-> "none"]
    /\ connected = [p \in Programs |-> None]
    /\ flights = {}
    /\ home \in {[p \in Programs |-> IF p = "tui" THEN s ELSE None] : s \in Servers}
    /\ cert \in {[s \in Servers |-> c] : c \in Certs}
    /\ presented = {} /\ backup = None
    /\ sets = 0 /\ connects = 0 /\ rotations = 0 /\ crashes = 0

(***************************************************************************)
(* Load and save.                                                          *)
(***************************************************************************)
WithDefault(v, d) == IF v = None THEN d ELSE v

(* What main and AppCore::new make of the file. *)
Load(p) ==
    [agc      |-> WithDefault(file.agc, TRUE),
     paranoid |-> WithDefault(file.paranoid, FALSE),
     desk     |-> IF p = "desktop" THEN file.desk ELSE None,
     pins     |-> file.pins]

(* Mutant: off is saved as absence. *)
BuildSettingsElided(r) ==
    [agc      |-> IF r.agc THEN TRUE ELSE None,
     paranoid |-> IF r.paranoid THEN TRUE ELSE None,
     desk     |-> None,
     pins     |-> NoPins]

(* build_settings: no pins, nothing of the desktop's. *)
BuildSettings(r) ==
    [agc      |-> r.agc,
     paranoid |-> IF r.paranoid THEN TRUE ELSE None,
     desk     |-> None,
     pins     |-> NoPins]

(* What save writes: the terminal's save_settings, the desktop's save. *)
Contents(p, r) == IF p = "tui" THEN BuildSettings(r) ELSE r

(* The terminal's save_tofu: all pins, or no save at all. *)
SaveTofu(r) ==
    file' = IF r.pins = NoPins THEN file
            ELSE [BuildSettings(r) EXCEPT !.pins = r.pins]

Start(p) ==
    /\ p \notin running
    /\ running' = running \union {p}
    /\ mem' = [mem EXCEPT ![p] = Load(p)]
    /\ UNCHANGED <<file, tofuVars, cert, presented, backup, countVars>>

Ends(p) ==
    /\ p \in running
    /\ running' = running \ {p}
    /\ connected' = [connected EXCEPT ![p] = None]
    /\ result' = [result EXCEPT ![p] = "none"]
    /\ current' = [current EXCEPT ![p] = None]
    /\ flights' = {f \in flights : f.prog # p}
    /\ home' = [home EXCEPT ![p] = IF p = "tui" THEN @ ELSE None]
    /\ UNCHANGED <<mem, cert, presented, backup, sets, connects, rotations>>

Quit(p) == Ends(p) /\ UNCHANGED <<file, crashes>>

(* The file is truncated before it is written. *)
CrashInSave(p) ==
    /\ crashes < MaxCrashes
    /\ crashes' = crashes + 1
    /\ Ends(p)
    /\ file' = NoSettings

(***************************************************************************)
(* The user's settings: each change is saved.                              *)
(***************************************************************************)
Store(p, r) ==
    /\ mem' = [mem EXCEPT ![p] = r]
    /\ file' = Contents(p, r)
    /\ UNCHANGED <<running, tofuVars, cert, presented>>

SetAgc(p, v) ==
    /\ p \in running /\ sets < MaxSets /\ v # mem[p].agc
    /\ sets' = sets + 1
    /\ Store(p, [mem[p] EXCEPT !.agc = v])
    /\ UNCHANGED <<backup, connects, rotations, crashes>>

SetParanoid(p, v) ==
    /\ p \in running /\ sets < MaxSets /\ v # mem[p].paranoid
    /\ sets' = sets + 1
    /\ Store(p, [mem[p] EXCEPT !.paranoid = v])
    /\ UNCHANGED <<backup, connects, rotations, crashes>>

SetDesk(v) ==
    /\ "desktop" \in running /\ sets < MaxSets /\ v # mem["desktop"].desk
    /\ sets' = sets + 1
    /\ Store("desktop", [mem["desktop"] EXCEPT !.desk = v])
    /\ UNCHANGED <<backup, connects, rotations, crashes>>

Export ==
    /\ "desktop" \in running
    /\ backup' = mem["desktop"]
    /\ UNCHANGED <<file, running, mem, tofuVars, cert, presented, countVars>>

(* A new TofuState: the connects in flight keep the old one. *)
Import ==
    /\ "desktop" \in running /\ sets < MaxSets /\ backup # None
    /\ sets' = sets + 1
    /\ mem' = [mem EXCEPT !["desktop"] = backup]
    /\ file' = Contents("desktop", backup)
    /\ flights' = {IF f.prog = "desktop" THEN [f EXCEPT !.live = FALSE] ELSE f :
                       f \in flights}
    /\ current' = [current EXCEPT !["desktop"] = None]
    /\ result' = [result EXCEPT !["desktop"] = "none"]
    /\ UNCHANGED <<running, connected, home, cert, presented, backup,
                   connects, rotations, crashes>>

(***************************************************************************)
(* Connecting.                                                             *)
(***************************************************************************)

(* The terminal awaits a connect in its event loop; the desktop's connect  *)
(* command and its reconnect are two tasks.                                *)
MayConnect(p) ==
    /\ p \in running
    /\ connects < MaxConnects
    /\ Cardinality({f \in flights : f.prog = p}) <
           (IF p = "tui" THEN 1 ELSE MaxInFlight)

(* Mutant: the name is set by the first connect only. *)
SetCurrentServerOnce(p, s) ==
    /\ current' = [current EXCEPT ![p] = IF @ = None THEN s ELSE @]
    /\ result' = [result EXCEPT ![p] = "none"]

SetCurrentServer(p, s) ==
    /\ current' = [current EXCEPT ![p] = s]
    /\ result' = [result EXCEPT ![p] = "none"]

Flight(p, s, saves) == [prog |-> p, server |-> s, saves |-> saves, live |-> TRUE]

(* The user connects: the address is a setting and is saved first.  The    *)
(* desktop aborts the task that reconnects.                                *)
Connect(p, s) ==
    /\ MayConnect(p)
    /\ p = "tui" => connected[p] = None
    /\ connects' = connects + 1
    /\ file' = Contents(p, mem[p])
    /\ SetCurrentServer(p, s)
    /\ connected' = [connected EXCEPT ![p] = None]
    /\ flights' = {f \in flights : f.prog # p \/ f.saves} \union {Flight(p, s, TRUE)}
    /\ home' = [home EXCEPT ![p] = IF p = "tui" THEN s ELSE None]
    /\ UNCHANGED <<running, mem, cert, presented, backup, sets, rotations,
                   crashes>>

(* /server while connected: the next reconnect goes there. *)
SetServer(s) ==
    /\ "tui" \in running /\ sets < MaxSets
    /\ connected["tui"] # None /\ s # home["tui"]
    /\ sets' = sets + 1
    /\ home' = [home EXCEPT !["tui"] = s]
    /\ file' = Contents("tui", mem["tui"])
    /\ UNCHANGED <<running, mem, current, result, connected, flights, cert, presented,
                   backup, connects, rotations, crashes>>

(* The connection was lost and is tried again; the desktop saves nothing. *)
Reconnect(p) ==
    /\ MayConnect(p) /\ home[p] # None
    /\ connects' = connects + 1
    /\ SetCurrentServer(p, home[p])
    /\ connected' = [connected EXCEPT ![p] = None]
    /\ flights' = flights \union {Flight(p, home[p], p = "tui")}
    /\ UNCHANGED <<file, running, mem, home, cert, presented, backup, sets,
                   rotations, crashes>>

(* /trust: forget the pin, save, reconnect. *)
Trust ==
    LET s == home["tui"] IN
    /\ MayConnect("tui")
    /\ connects' = connects + 1
    /\ mem' = [mem EXCEPT !["tui"].pins[s] = None]
    /\ SaveTofu(mem'["tui"])
    /\ SetCurrentServer("tui", s)
    /\ connected' = [connected EXCEPT !["tui"] = None]
    /\ flights' = flights \union {Flight("tui", s, TRUE)}
    /\ UNCHANGED <<running, home, cert, presented, backup, sets, rotations, crashes>>

(* verify_server_cert: every certificate is accepted and pinned under the  *)
(* name that is current.                                                   *)
Verify(f) ==
    LET p == f.prog
        known == mem[p].pins[current[p]] IN
    /\ presented' = presented \union {<<f.server, cert[f.server]>>}
    /\ IF f.live
       THEN /\ result' = [result EXCEPT ![p] =
                   CASE known = None -> "new"
                     [] known = cert[f.server] -> "known"
                     [] OTHER -> "mismatch"]
            /\ mem' = [mem EXCEPT ![p].pins[current[p]] = cert[f.server]]
       ELSE UNCHANGED <<result, mem>>

(* After the handshake the terminal saves the pins; the desktop's command  *)
(* saves everything and starts the task that will reconnect.               *)
Connected(f) ==
    /\ f \in flights
    /\ flights' = flights \ {f}
    /\ Verify(f)
    /\ connected' = [connected EXCEPT ![f.prog] = f.server]
    /\ IF ~f.saves THEN file' = file
       ELSE IF f.prog = "tui" THEN SaveTofu(mem'["tui"])
       ELSE file' = Contents(f.prog, mem'[f.prog])
    /\ home' = [home EXCEPT ![f.prog] = f.server]
    /\ UNCHANGED <<running, current, cert, backup, countVars>>

(* The handshake breaks after the certificate was seen. *)
BreaksLater(f) ==
    /\ f \in flights
    /\ flights' = flights \ {f}
    /\ Verify(f)
    /\ UNCHANGED <<file, running, current, connected, home, cert, backup, countVars>>

Unreachable(f) ==
    /\ f \in flights
    /\ flights' = flights \ {f}
    /\ UNCHANGED <<file, running, mem, current, result, connected, home, cert,
                   presented, backup, countVars>>

(* A server's certificate is replaced. *)
Rotate(s, c) ==
    /\ rotations < MaxRotations /\ c # cert[s]
    /\ rotations' = rotations + 1
    /\ cert' = [cert EXCEPT ![s] = c]
    /\ UNCHANGED <<file, running, mem, tofuVars, presented, backup, sets,
                   connects, crashes>>

Tui ==
    /\ "tui" \in Programs
    /\ Trust \/ \E s \in Servers : SetServer(s)

Desktop ==
    /\ "desktop" \in Programs
    /\ \/ \E v \in DeskValues : SetDesk(v)
       \/ Export
       \/ Import

Next ==
    \/ \E p \in Programs : Start(p) \/ Quit(p) \/ CrashInSave(p)
    \/ \E p \in Programs, v \in BOOLEAN : SetAgc(p, v) \/ SetParanoid(p, v)
    \/ \E p \in Programs, s \in Servers : Connect(p, s)
    \/ \E p \in Programs : Reconnect(p)
    \/ Tui
    \/ Desktop
    \/ \E f \in flights : Connected(f) \/ BreaksLater(f) \/ Unreachable(f)
    \/ \E s \in Servers, c \in Certs : Rotate(s, c)

Spec == Init /\ [][Next]_vars

-----------------------------------------------------------------------------
(***************************************************************************)
(* Properties.                                                             *)
(***************************************************************************)

(* Alone, a program finds at its next start the settings it shows now:     *)
(* what is left out of the file is what the default puts back.             *)
RestartKeeps ==
    \A p \in running :
        Programs = {p} =>
            /\ Load(p).agc = mem[p].agc
            /\ Load(p).paranoid = mem[p].paranoid
            /\ Load(p).desk = mem[p].desk

(* A pin is a certificate the server has really shown, in memory and in    *)
(* the file.                                                               *)
PinTruth ==
    \A s \in Servers :
        /\ file.pins[s] # None => <<s, file.pins[s]>> \in presented
        /\ \A p \in running :
               mem[p].pins[s] # None => <<s, mem[p].pins[s]>> \in presented

=============================================================================
