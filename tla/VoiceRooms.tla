----------------------------- MODULE VoiceRooms -----------------------------
(***************************************************************************)
(* What the server promises about voice, without tokens, caches, keys or   *)
(* timers: clients enter and leave rooms, a client that is in a room may   *)
(* have the room's voice sent to one address of its own IP, its address    *)
(* leaves with it, and a room whose last address leaves is closed.  Who is *)
(* not in a room can neither hear it nor make anyone else hear it.         *)
(***************************************************************************)
CONSTANTS Clients, Addrs, Ip, Rooms, Permanent, Nobody

VARIABLES
    at,       \* the room each client is in
    adr,      \* the address each client listens at
    open,     \* the rooms that exist
    heard     \* the addresses each room's voice is sent to

vars == <<at, adr, open, heard>>

Init ==
    /\ at = [c \in Clients |-> Nobody]
    /\ adr = [c \in Clients |-> Nobody]
    /\ open = Permanent
    /\ heard = [r \in Rooms |-> {}]

Open(r) ==
    /\ r \notin open
    /\ open' = open \union {r}
    /\ UNCHANGED <<at, adr, heard>>

Enter(c, r) ==
    /\ at[c] = Nobody /\ r \in open
    /\ at' = [at EXCEPT ![c] = r]
    /\ UNCHANGED <<adr, open, heard>>

(* An echo test opens a room of its own. *)
OpenAndEnter(c, r) ==
    /\ at[c] = Nobody /\ r \notin open
    /\ open' = open \union {r}
    /\ at' = [at EXCEPT ![c] = r]
    /\ UNCHANGED <<adr, heard>>

(* A client in a room listens at `a', instead of where it listened before. *)
(* In a room that was closed under it, it hears nothing.                   *)
Listen(c, a) ==
    /\ at[c] # Nobody /\ Ip[c] = Ip[a]
    /\ adr' = [adr EXCEPT ![c] = a]
    /\ heard' = IF at[c] \in open
                THEN [heard EXCEPT ![at[c]] = (@ \ {adr[c]}) \union {a}]
                ELSE heard
    /\ UNCHANGED <<at, open>>

(* The room is closed with its last address. *)
Exit(c) ==
    /\ at[c] # Nobody
    /\ at' = [at EXCEPT ![c] = Nobody]
    /\ adr' = [adr EXCEPT ![c] = Nobody]
    /\ heard' = [heard EXCEPT ![at[c]] = @ \ {adr[c]}]
    /\ open' = open \ {r \in {at[c]} : heard'[r] = {} /\ r \notin Permanent}

(* Rooms nobody is in and nobody hears are removed. *)
Close(gone) ==
    /\ \A r \in gone : heard[r] = {} /\ \A c \in Clients : at[c] # r
    /\ gone \intersect Permanent = {}
    /\ open' = open \ gone
    /\ UNCHANGED <<at, adr, heard>>

Next ==
    \/ \E r \in Rooms : Open(r)
    \/ \E c \in Clients, r \in Rooms : Enter(c, r) \/ OpenAndEnter(c, r)
    \/ \E c \in Clients, a \in Addrs : Listen(c, a)
    \/ \E c \in Clients : Exit(c)
    \/ \E gone \in SUBSET Rooms : Close(gone)

Spec == Init /\ [][Next]_vars
=============================================================================
