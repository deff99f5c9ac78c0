----------------------------- MODULE RateLimit -----------------------------
(***************************************************************************)
(* The server's TCP rate limits (crates/server/src/rate_limit.rs and the   *)
(* reader loop of tcp.rs): a token bucket per IP, shared by the connected  *)
(* clients of that IP through a reference count and kept for a while after *)
(* the last one is gone, and two buckets per connection.                   *)
(*                                                                         *)
(* The IP limiter's map is behind a mutex, so each of its methods is       *)
(* atomic; a connection's own buckets belong to its task.  The check of a  *)
(* request consults the buckets without waiting in between.                *)
(*                                                                         *)
(* Data abstractions: time is a count of ticks, and the f64 contents of a  *)
(* bucket are natural numbers of which one request takes Cost.  Messages   *)
(* that are never limited (Ping, Hello) touch nothing here.                *)
(***************************************************************************)
EXTENDS Naturals, FiniteSets

CONSTANTS
    Conns,        \* TCP connections
    Ips,          \* IP addresses
    IpOf,         \* the IP of a connection
    Cost,         \* what one request takes: 1.0
    IpRate,       \* RATE_LIMIT_IP_CMD_PER_SEC, per tick
    IpBurst,      \* RATE_LIMIT_IP_CMD_BURST
    CmdRate,      \* RATE_LIMIT_CMD_PER_SEC, per tick
    CmdBurst,     \* RATE_LIMIT_CMD_BURST
    CreateRate,   \* RATE_LIMIT_CREATE_PER_SEC, per tick
    CreateBurst,  \* RATE_LIMIT_CREATE_BURST
    IdleTtl,      \* IP_LIMITER_IDLE_TTL_SECS, in ticks
    MaxTime       \* bound: how long the system runs

ASSUME ConnAssumption ==
    /\ IpOf \in [Conns -> Ips]
    /\ IsFiniteSet(Conns)

ASSUME BucketAssumption ==
    /\ Cost \in Nat \ {0}
    /\ IpRate \in Nat /\ IpBurst \in Nat
    /\ CmdRate \in Nat /\ CmdBurst \in Nat
    /\ CreateRate \in Nat /\ CreateBurst \in Nat
    /\ IdleTtl \in Nat /\ MaxTime \in Nat

(* A bucket fills up within the time an unused one is kept: 30/s for 300 s *)
(* against a burst of 60.                                                  *)
ASSUME TtlAssumption == IpBurst <= IpRate * IdleTtl

VARIABLES
    now,        \* Instant::now()
    connected,  \* connections between track and untrack
    entries,    \* IpRateLimiter.map: the IPs with an entry
    refcount,   \* IpEntry.refcount
    ipBucket,   \* IpEntry.limiter
    lastActive, \* IpEntry.last_active
    cmdBucket,  \* cmd_limiter of each connection's reader loop
    createBucket, \* create_limiter
    windowFrom, \* ghost: the start of a time window, chosen freely
    passed      \* ghost: requests each IP got past its bucket since then

entryVars == <<entries, refcount, ipBucket, lastActive>>
connVars  == <<cmdBucket, createBucket>>
vars == <<now, connected, entries, refcount, ipBucket, lastActive, cmdBucket,
          createBucket, windowFrom, passed>>

(***************************************************************************)
(* RateLimiter.                                                            *)
(***************************************************************************)
FullBucket(burst) == [tokens |-> burst, at |-> now]

NoBucket == [tokens |-> 0, at |-> 0]

RefilledTokens(b, rate, burst) ==
    IF b.tokens + rate * (now - b.at) <= burst
    THEN b.tokens + rate * (now - b.at)
    ELSE burst

Admits(b, rate, burst) == RefilledTokens(b, rate, burst) >= Cost

(* check: refill, and take one request's worth if there is as much. *)
AfterCheck(b, rate, burst) ==
    [tokens |-> IF Admits(b, rate, burst)
                THEN RefilledTokens(b, rate, burst) - Cost
                ELSE RefilledTokens(b, rate, burst),
     at     |-> now]

Init ==
    /\ now = 0
    /\ connected = {}
    /\ entries = {}
    /\ refcount = [ip \in Ips |-> 0]
    /\ ipBucket = [ip \in Ips |-> NoBucket]
    /\ lastActive = [ip \in Ips |-> 0]
    /\ cmdBucket    = [c \in Conns |-> NoBucket]
    /\ createBucket = [c \in Conns |-> NoBucket]
    /\ windowFrom \in 0 .. MaxTime
    /\ passed = [ip \in Ips |-> 0]

Tick ==
    /\ now < MaxTime
    /\ now' = now + 1
    /\ UNCHANGED <<connected, entryVars, connVars, windowFrom, passed>>

(***************************************************************************)
(* A connection: track, and the reader loop's fresh buckets; untrack when  *)
(* the loop ends.                                                          *)
(***************************************************************************)
Connect(c) ==
    LET ip == IpOf[c]
    IN  /\ c \notin connected
        /\ connected' = connected \union {c}
        /\ entries' = entries \union {ip}
        /\ refcount' = [refcount EXCEPT
                          ![ip] = IF ip \in entries THEN @ + 1 ELSE 1]
        /\ ipBucket' = [ipBucket EXCEPT
                          ![ip] = IF ip \in entries THEN @ ELSE FullBucket(IpBurst)]
        /\ lastActive' = [lastActive EXCEPT ![ip] = now]
        /\ cmdBucket'    = [cmdBucket EXCEPT ![c] = FullBucket(CmdBurst)]
        /\ createBucket' = [createBucket EXCEPT ![c] = FullBucket(CreateBurst)]
        /\ UNCHANGED <<now, windowFrom, passed>>

(* saturating_sub *)
Decremented(n) == IF n = 0 THEN 0 ELSE n - 1

Disconnect(c) ==
    LET ip == IpOf[c]
    IN  /\ c \in connected
        /\ connected' = connected \ {c}
        /\ IF ip \in entries
           THEN /\ refcount' = [refcount EXCEPT ![ip] = Decremented(@)]
                /\ lastActive' = [lastActive EXCEPT ![ip] = now]
           ELSE UNCHANGED <<refcount, lastActive>>
        /\ cmdBucket'    = [cmdBucket EXCEPT ![c] = NoBucket]
        /\ createBucket' = [createBucket EXCEPT ![c] = NoBucket]
        /\ UNCHANGED <<now, entries, ipBucket, windowFrom, passed>>

(***************************************************************************)
(* A limited message: the IP's bucket, then the connection's, then for     *)
(* CreateChannel and StartEchoTest the stricter one.  A bucket is charged  *)
(* only when the ones before it admitted.  An IP without an entry is let   *)
(* through.                                                                *)
(***************************************************************************)
IpAdmits(ip) == ip \notin entries \/ Admits(ipBucket[ip], IpRate, IpBurst)

CheckIp(ip) ==
    IF ip \in entries
    THEN /\ ipBucket' = [ipBucket EXCEPT ![ip] = AfterCheck(@, IpRate, IpBurst)]
         /\ lastActive' = [lastActive EXCEPT ![ip] = now]
    ELSE UNCHANGED <<ipBucket, lastActive>>

CheckConn(c, creates) ==
    /\ cmdBucket' = [cmdBucket EXCEPT ![c] = AfterCheck(@, CmdRate, CmdBurst)]
    /\ createBucket' =
          IF creates /\ Admits(cmdBucket[c], CmdRate, CmdBurst)
          THEN [createBucket EXCEPT ![c] = AfterCheck(@, CreateRate, CreateBurst)]
          ELSE createBucket

Request(c, creates) ==
    LET ip == IpOf[c]
    IN  /\ c \in connected
        /\ CheckIp(ip)
        /\ IF IpAdmits(ip) THEN CheckConn(c, creates) ELSE UNCHANGED connVars
        /\ passed' = [passed EXCEPT
                        ![ip] = IF IpAdmits(ip) /\ now >= windowFrom THEN @ + 1 ELSE @]
        /\ UNCHANGED <<now, connected, entries, refcount, windowFrom>>

(***************************************************************************)
(* sweep_idle, from the maintenance loop.                                  *)
(***************************************************************************)
\* Mutant: an entry is dropped with its last connection.
SweptAtOnce == {ip \in entries : refcount[ip] = 0}

Swept == {ip \in entries : /\ refcount[ip] = 0
                           /\ now - lastActive[ip] >= IdleTtl}

SweepIdle ==
    /\ entries' = entries \ Swept
    /\ UNCHANGED <<now, connected, refcount, ipBucket, lastActive, connVars,
                   windowFrom, passed>>

Next ==
    \/ Tick
    \/ SweepIdle
    \/ \E c \in Conns :
          \/ Connect(c)
          \/ Disconnect(c)
          \/ \E creates \in BOOLEAN : Request(c, creates)

Spec == Init /\ [][Next]_vars

-----------------------------------------------------------------------------
(***************************************************************************)
(* Properties.                                                             *)
(***************************************************************************)

Buckets(burst) == [tokens : 0 .. burst, at : 0 .. MaxTime]

(* Type correctness; no bucket was filled in the future. *)
TypeOK ==
    /\ now \in 0 .. MaxTime
    /\ connected \subseteq Conns
    /\ entries \subseteq Ips
    /\ refcount \in [Ips -> Nat]
    /\ ipBucket \in [Ips -> Buckets(IpBurst)]
    /\ lastActive \in [Ips -> 0 .. MaxTime]
    /\ cmdBucket \in [Conns -> Buckets(CmdBurst)]
    /\ createBucket \in [Conns -> Buckets(CreateBurst)]
    /\ windowFrom \in 0 .. MaxTime
    /\ passed \in [Ips -> Nat]
    /\ \A ip \in Ips : ipBucket[ip].at <= lastActive[ip] /\ lastActive[ip] <= now
    /\ \A c \in Conns : cmdBucket[c].at <= now /\ createBucket[c].at <= now

ConnsOf(ip) == {c \in connected : IpOf[c] = ip}

(* The reference count of an entry is the number of its IP's connections,  *)
(* and a connected client's IP has an entry: check's permissive answer for *)
(* an unknown IP is never given (track, untrack, sweep_idle).              *)
CountedWhileConnected ==
    /\ \A ip \in entries : refcount[ip] = Cardinality(ConnsOf(ip))
    /\ \A c \in connected : IpOf[c] \in entries

(* In no window of time does an IP get more requests past its bucket than  *)
(* the burst and what the rate allows for the length of the window, however*)
(* many connections it opens and closes and whenever the sweep runs.       *)
IpBudget ==
    \A ip \in Ips :
        passed[ip] > 0 =>
            Cost * passed[ip] <= IpBurst + IpRate * (now - windowFrom)
=============================================================================
