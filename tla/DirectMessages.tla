--------------------------- MODULE DirectMessages ---------------------------
(***************************************************************************)
(* Direct messages in the desktop client: the drain task that files an     *)
(* incoming one and tells the window (drain.rs), send_dm_to and the        *)
(* history files (dm.rs, history.rs), and the window's thread, which is    *)
(* filled by a history request and by events at the same time (dm.ts,      *)
(* wire.ts, store.ts).                                                     *)
(*                                                                         *)
(* A line is its peer, a number, and (ghost) the server it travelled over. *)
(* The thread is a set: neither order nor repetition is looked at, and its *)
(* 500 lines do not run out.                                               *)
(***************************************************************************)
EXTENDS Naturals, Sequences, FiniteSets

CONSTANTS
    Peers,          \* people, by public key
    Servers,
    None,
    Limit,          \* lines a history request returns
    AbortLate,      \* an abort may find the drain task running
    MaxDms,         \* bound: messages in either direction
    MaxConnects     \* bound: connects after the first

(* What the parameters have to satisfy. *)
MessagesAssumption == Limit \in Nat /\ None \notin Peers \union Servers

VARIABLES
    server,         \* AppCore.server_addr
    conn,           \* AppCore.conn: the server it leads to, or None
    rx,             \* messages the drain task has not taken
    drain,          \* the drain task: where it is, and with which line
    late,           \* lines in the hands of drain tasks aborted too late
    files,          \* history::append: the file of each server and peer
    known,          \* AppCore.dm_peers
    sends,          \* send_dm_to calls in flight
    events,         \* direct_message events on the way to the window
    dm,             \* state.dm: the open thread
    shown,          \* state.dmLog
    fetches,        \* get_dm_history requests in flight
    count,          \* messages so far
    connects

session == <<server, conn, rx, drain, late>>
store == <<files, known>>
core == <<session, store>>
window == <<dm, shown, fetches>>
counts == <<count, connects>>
vars == <<core, window, sends, events, counts>>

Line(p, n, s) == [peer |-> p, id |-> n, server |-> s]

AtRecv == [at |-> "recv", line |-> None]

Init ==
    /\ server \in Servers /\ conn = server
    /\ rx = <<>> /\ drain = AtRecv /\ late = {}
    /\ files = [f \in Servers \X Peers |-> <<>>]
    /\ known = {} /\ sends = {} /\ events = <<>>
    /\ dm = None /\ shown = {} /\ fetches = {}
    /\ count = 0 /\ connects = 0

(***************************************************************************)
(* The drain task and the connection.                                      *)
(***************************************************************************)

(* External: the server relays a message of p. *)
Arrives(p) ==
    /\ conn # None /\ count < MaxDms
    /\ count' = count + 1
    /\ rx' = Append(rx, Line(p, count + 1, conn))
    /\ UNCHANGED <<server, conn, drain, late, store, window, sends, events, connects>>

DrainTakes ==
    /\ drain = AtRecv /\ rx # <<>>
    /\ drain' = [at |-> "lock", line |-> Head(rx)]
    /\ rx' = Tail(rx)
    /\ UNCHANGED <<server, conn, late, store, window, sends, events, counts>>

Filed(s, line) == [files EXCEPT ![<<s, line.peer>>] = Append(@, line)]

DrainRecords ==
    /\ drain.at = "lock"
    /\ files' = Filed(server, drain.line)
    /\ known' = known \union {drain.line.peer}
    /\ drain' = [drain EXCEPT !.at = "notify"]
    /\ UNCHANGED <<server, conn, rx, late, window, sends, events, counts>>

DrainEmits ==
    /\ drain.at = "notify"
    /\ events' = Append(events, drain.line)
    /\ drain' = AtRecv
    /\ UNCHANGED <<server, conn, rx, late, store, window, sends, counts>>

(* tear_down_session, when the connection's queue ends. *)
ConnectionLost ==
    /\ conn # None /\ rx = <<>> /\ drain = AtRecv
    /\ conn' = None
    /\ UNCHANGED <<server, rx, drain, late, store, window, sends, events, counts>>

(* reconnect_loop, or the second half of connect. *)
Dialled ==
    /\ conn = None
    /\ conn' = server
    /\ UNCHANGED <<server, rx, drain, late, store, window, sends, events, counts>>

(* connect aborts the task: one that waits is gone, one that runs is not   *)
(* stopped before it waits again.                                          *)
Connect(s, running) ==
    /\ connects < MaxConnects
    /\ running => AbortLate /\ drain.at = "lock"
    /\ connects' = connects + 1
    /\ server' = s /\ conn' = None
    /\ rx' = <<>> /\ drain' = AtRecv
    /\ late' = IF running THEN late \union {drain.line} ELSE late
    /\ UNCHANGED <<store, window, sends, events, count>>

LateRecords(line, emits) ==
    /\ line \in late
    /\ late' = late \ {line}
    /\ files' = Filed(server, line)
    /\ known' = known \union {line.peer}
    /\ events' = IF emits THEN Append(events, line) ELSE events
    /\ UNCHANGED <<server, conn, rx, drain, window, sends, counts>>

ForgetDmPeer(p) ==
    /\ p \in known
    /\ known' = known \ {p}
    /\ UNCHANGED <<session, files, window, sends, events, counts>>

ClearHistory(f) ==
    /\ files[f] # <<>>
    /\ files' = [files EXCEPT ![f] = <<>>]
    /\ UNCHANGED <<session, known, window, sends, events, counts>>

(***************************************************************************)
(* send_dm_to.                                                             *)
(***************************************************************************)
SendDm ==
    /\ dm # None /\ count < MaxDms
    /\ count' = count + 1
    /\ sends' = sends \union {[at |-> "asked", line |-> Line(dm, count + 1, server)]}
    /\ UNCHANGED <<core, window, events, connects>>

(* Connection and server are read together; a send that fails files        *)
(* nothing.                                                                *)
SendReads(c) ==
    /\ c.at = "asked"
    /\ sends' = (sends \ {c}) \union
           IF conn = None THEN {}
           ELSE {[at |-> "ready", line |-> [c.line EXCEPT !.server = conn]]}
    /\ UNCHANGED <<core, window, events, counts>>

SendRecords(c) ==
    /\ c.at = "ready"
    /\ files' = Filed(c.line.server, c.line)
    /\ sends' = (sends \ {c}) \union {[c EXCEPT !.at = "done"]}
    /\ UNCHANGED <<session, known, window, events, counts>>

(* The queue is full, or the connection has ended. *)
SendFails(c) ==
    /\ c.at = "ready"
    /\ sends' = sends \ {c}
    /\ UNCHANGED <<core, window, events, counts>>

(* The window shows the line in the thread that is open by now. *)
SendReturns(c) ==
    /\ c.at = "done"
    /\ sends' = sends \ {c}
    /\ shown' = shown \union {c.line}
    /\ UNCHANGED <<core, dm, fetches, events, counts>>

(***************************************************************************)
(* The window's thread.                                                    *)
(***************************************************************************)
OpenDm(p) ==
    /\ dm' = p /\ shown' = {}
    /\ fetches' = fetches \union {[at |-> "asked", peer |-> p, lines |-> {}]}
    /\ UNCHANGED <<core, sends, events, counts>>

CloseDm ==
    /\ dm # None
    /\ dm' = None /\ shown' = {}
    /\ UNCHANGED <<core, fetches, sends, events, counts>>

(* get_history: the last lines of the file. *)
History(p) ==
    LET file == files[<<server, p>>]
        from == IF Len(file) > Limit THEN Len(file) - Limit + 1 ELSE 1
    IN  {file[i] : i \in from .. Len(file)}

HistoryRead(f) ==
    /\ f.at = "asked"
    /\ fetches' = (fetches \ {f}) \union
           {[f EXCEPT !.at = "read", !.lines = History(f.peer)]}
    /\ UNCHANGED <<core, dm, shown, sends, events, counts>>

HistoryShown(f) ==
    /\ f.at = "read"
    /\ fetches' = fetches \ {f}
    /\ shown' = shown \union f.lines
    /\ UNCHANGED <<core, dm, sends, events, counts>>

(* Mutant: a thread that is still loading takes no events. *)
EventShownLoaded ==
    /\ events # <<>>
    /\ events' = Tail(events)
    /\ shown' = IF Head(events).peer = dm /\ fetches = {}
                THEN shown \union {Head(events)} ELSE shown
    /\ UNCHANGED <<core, dm, fetches, sends, counts>>

(* The thread takes the events of its peer, the log the others. *)
EventShown ==
    /\ events # <<>>
    /\ events' = Tail(events)
    /\ shown' = IF Head(events).peer = dm THEN shown \union {Head(events)} ELSE shown
    /\ UNCHANGED <<core, dm, fetches, sends, counts>>

SendStep(c) == SendReads(c) \/ SendRecords(c) \/ SendFails(c) \/ SendReturns(c)

FetchStep(f) == HistoryRead(f) \/ HistoryShown(f)

Next ==
    \/ \E p \in Peers : Arrives(p) \/ OpenDm(p) \/ ForgetDmPeer(p)
    \/ \E f \in Servers \X Peers : ClearHistory(f)
    \/ DrainTakes \/ DrainRecords \/ DrainEmits
    \/ ConnectionLost \/ Dialled
    \/ \E s \in Servers, running \in BOOLEAN : Connect(s, running)
    \/ \E line \in late, emits \in BOOLEAN : LateRecords(line, emits)
    \/ SendDm
    \/ \E c \in sends : SendStep(c)
    \/ CloseDm
    \/ \E f \in fetches : FetchStep(f)
    \/ EventShown

Spec == Init /\ [][Next]_vars

-----------------------------------------------------------------------------
(***************************************************************************)
(* Properties.                                                             *)
(***************************************************************************)

Quiet ==
    fetches = {} /\ sends = {} /\ events = <<>> /\ rx = <<>> /\ drain = AtRecv /\ late = {}

(* The messages on file that fewer than Limit others follow. *)
Latest(p) ==
    LET file == files[<<server, p>>]
    IN  {file[i] : i \in {j \in DOMAIN file : Len(file) - j < Limit}}

FiledOnce ==
    \A f, g \in Servers \X Peers : \A i \in DOMAIN files[f], j \in DOMAIN files[g] :
        files[f][i].id = files[g][j].id => f = g /\ i = j

(* A message is on file once, wherever a connect aborts the task that      *)
(* files it.  And within one session nothing falls between the history     *)
(* request and the events: when both have come to rest, the open thread    *)
(* shows the latest messages on file.                                      *)
DmKeptAndShown ==
    /\ FiledOnce
    /\ (Quiet /\ connects = 0 /\ dm # None) => Latest(dm) \subseteq shown
=============================================================================
