-------------------------- MODULE RateLimitProofs --------------------------
(***************************************************************************)
(* Proofs about RateLimit, for any number of connections and IPs and any   *)
(* rates and bursts that satisfy the assumptions.                          *)
(***************************************************************************)
EXTENDS RateLimit, FiniteSetTheorems, TLAPS

(***************************************************************************)
(* Buckets.                                                                *)
(***************************************************************************)

(* Scaling by a rate preserves the order of two spans of time. *)
LEMMA ScaleOrder ==
    ASSUME NEW r \in Nat, NEW a \in Nat, NEW b \in Nat, a <= b
    PROVE  r * a <= r * b
  <1>1. PICK d \in Nat : b = a + d
    BY b - a \in Nat
  <1>2. r * b = r * a + r * d
    BY <1>1
  <1> QED BY <1>2

(* What a bucket holds after refill: at most the burst (RateLimiter::refill). *)
LEMMA RefillRange ==
    ASSUME NEW burst \in Nat, NEW rate \in Nat, NEW b \in Buckets(burst),
           now \in Nat, b.at <= now
    PROVE  RefilledTokens(b, rate, burst) \in 0 .. burst
  <1>1. b.tokens \in Nat /\ b.at \in Nat /\ now - b.at \in Nat
    BY DEF Buckets
  <1>2. rate * (now - b.at) \in Nat
    BY <1>1
  <1> QED BY <1>1, <1>2 DEF RefilledTokens

(* check leaves a bucket a bucket, filled now (RateLimiter::check). *)
LEMMA CheckRange ==
    ASSUME NEW burst \in Nat, NEW rate \in Nat, NEW b \in Buckets(burst),
           now \in 0 .. MaxTime, b.at <= now
    PROVE  /\ AfterCheck(b, rate, burst) \in Buckets(burst)
           /\ AfterCheck(b, rate, burst).at = now
  <1>1. RefilledTokens(b, rate, burst) \in 0 .. burst
    BY RefillRange, BucketAssumption
  <1>2. Cost \in Nat
    BY BucketAssumption
  <1> QED BY <1>1, <1>2 DEF AfterCheck, Admits, Buckets

(* A fresh bucket is full and filled now (RateLimiter::new). *)
LEMMA FullRange ==
    ASSUME NEW burst \in Nat, now \in 0 .. MaxTime
    PROVE  /\ FullBucket(burst) \in Buckets(burst)
           /\ FullBucket(burst).at = now
  BY DEF FullBucket, Buckets

(* The bucket of a closed connection. *)
LEMMA NoBucketRange ==
    ASSUME NEW burst \in Nat
    PROVE  NoBucket \in Buckets(burst) /\ NoBucket.at = 0
  BY BucketAssumption DEF NoBucket, Buckets

(***************************************************************************)
(* Types.                                                                  *)
(***************************************************************************)

(* One step of any action preserves the types. *)
LEMMA TypeStep == TypeOK /\ [Next]_vars => TypeOK'
  <1> SUFFICES ASSUME TypeOK, [Next]_vars PROVE TypeOK'
    OBVIOUS
  <1> USE BucketAssumption, ConnAssumption
  <1>0. now \in Nat /\ MaxTime \in Nat
    BY DEF TypeOK
  <1>1. CASE Tick
    <2>1. now' \in 0 .. MaxTime /\ now <= now'
      BY <1>0, <1>1 DEF Tick
    <2>2. \A ip \in Ips : lastActive[ip] <= now'
      BY <1>0, <2>1 DEF TypeOK
    <2>3. \A c \in Conns : cmdBucket[c].at <= now' /\ createBucket[c].at <= now'
      <3> TAKE c \in Conns
      <3>1. cmdBucket[c].at \in Nat /\ createBucket[c].at \in Nat
        BY DEF TypeOK, Buckets
      <3> QED BY <1>0, <2>1, <3>1 DEF TypeOK
    <2> QED BY <1>1, <2>1, <2>2, <2>3 DEF Tick, TypeOK, entryVars, connVars
  <1>2. CASE SweepIdle
    BY <1>2 DEF SweepIdle, TypeOK, connVars
  <1>3. ASSUME NEW c \in Conns, Connect(c) PROVE TypeOK'
    <2> DEFINE ip == IpOf[c]
    <2>1. ip \in Ips
      OBVIOUS
    <2>2. /\ FullBucket(IpBurst) \in Buckets(IpBurst)
          /\ FullBucket(CmdBurst) \in Buckets(CmdBurst)
          /\ FullBucket(CreateBurst) \in Buckets(CreateBurst)
          /\ FullBucket(IpBurst).at = now
          /\ FullBucket(CmdBurst).at = now
          /\ FullBucket(CreateBurst).at = now
      BY FullRange DEF TypeOK
    <2>3. /\ connected' \subseteq Conns /\ entries' \subseteq Ips
          /\ refcount' \in [Ips -> Nat]
          /\ now' = now /\ windowFrom' = windowFrom /\ passed' = passed
      BY <1>3, <2>1 DEF Connect, TypeOK
    <2>4. ipBucket' \in [Ips -> Buckets(IpBurst)]
      BY <1>3, <2>1, <2>2 DEF Connect, TypeOK
    <2>5. lastActive' \in [Ips -> 0 .. MaxTime]
      BY <1>3, <2>1 DEF Connect, TypeOK
    <2>6. /\ cmdBucket' \in [Conns -> Buckets(CmdBurst)]
          /\ createBucket' \in [Conns -> Buckets(CreateBurst)]
      BY <1>3, <2>2 DEF Connect, TypeOK
    <2>7. \A i \in Ips : ipBucket'[i].at <= lastActive'[i] /\ lastActive'[i] <= now
      <3> TAKE i \in Ips
      <3>1. ipBucket[i].at \in Nat /\ lastActive[i] \in Nat
        BY DEF TypeOK, Buckets
      <3>2. CASE i = ip
        BY <1>0, <1>3, <2>1, <2>2, <3>1, <3>2 DEF Connect, TypeOK
      <3>3. CASE i # ip
        BY <1>3, <2>1, <3>3 DEF Connect, TypeOK
      <3> QED BY <3>2, <3>3
    <2>8. \A d \in Conns : cmdBucket'[d].at <= now /\ createBucket'[d].at <= now
      BY <1>0, <1>3, <2>2 DEF Connect, TypeOK
    <2> QED BY <2>3, <2>4, <2>5, <2>6, <2>7, <2>8 DEF TypeOK
  <1>4. ASSUME NEW c \in Conns, Disconnect(c) PROVE TypeOK'
    <2> DEFINE ip == IpOf[c]
    <2>1. ip \in Ips
      OBVIOUS
    <2>2. /\ NoBucket \in Buckets(CmdBurst) /\ NoBucket \in Buckets(CreateBurst)
          /\ NoBucket.at = 0
      BY NoBucketRange
    <2>3. /\ connected' \subseteq Conns /\ entries' = entries
          /\ now' = now /\ windowFrom' = windowFrom /\ passed' = passed
          /\ ipBucket' = ipBucket
      BY <1>4 DEF Disconnect, TypeOK
    <2>4. refcount' \in [Ips -> Nat]
      <3>1. Decremented(refcount[ip]) \in Nat
        BY <2>1 DEF Decremented, TypeOK
      <3>2. \/ refcount' = refcount
            \/ refcount' = [refcount EXCEPT ![ip] = Decremented(refcount[ip])]
        BY <1>4 DEF Disconnect
      <3> QED BY <3>1, <3>2 DEF TypeOK
    <2>5. /\ lastActive' \in [Ips -> 0 .. MaxTime]
          /\ \A i \in Ips : lastActive[i] <= lastActive'[i] /\ lastActive'[i] <= now
      BY <1>0, <1>4, <2>1 DEF Disconnect, TypeOK
    <2>6. \A i \in Ips : ipBucket[i].at <= lastActive'[i]
      <3> TAKE i \in Ips
      <3>1. ipBucket[i].at \in Nat /\ lastActive[i] \in Nat /\ lastActive'[i] \in Nat
        BY <2>5 DEF TypeOK, Buckets
      <3> QED BY <2>5, <3>1 DEF TypeOK
    <2>7. /\ cmdBucket' \in [Conns -> Buckets(CmdBurst)]
          /\ createBucket' \in [Conns -> Buckets(CreateBurst)]
          /\ \A d \in Conns : cmdBucket'[d].at <= now /\ createBucket'[d].at <= now
      BY <1>0, <1>4, <2>2 DEF Disconnect, TypeOK
    <2> QED BY <2>3, <2>4, <2>5, <2>6, <2>7 DEF TypeOK
  <1>5. ASSUME NEW c \in Conns, NEW creates \in BOOLEAN, Request(c, creates)
        PROVE  TypeOK'
    <2> DEFINE ip == IpOf[c]
    <2>1. ip \in Ips
      OBVIOUS
    <2>2. /\ ipBucket[ip] \in Buckets(IpBurst) /\ ipBucket[ip].at <= now
          /\ cmdBucket[c] \in Buckets(CmdBurst) /\ cmdBucket[c].at <= now
          /\ createBucket[c] \in Buckets(CreateBurst) /\ createBucket[c].at <= now
      <3>1. ipBucket[ip].at \in Nat /\ lastActive[ip] \in Nat
        BY <2>1 DEF TypeOK, Buckets
      <3> QED BY <1>0, <2>1, <3>1 DEF TypeOK
    <2>3. /\ AfterCheck(ipBucket[ip], IpRate, IpBurst) \in Buckets(IpBurst)
          /\ AfterCheck(ipBucket[ip], IpRate, IpBurst).at = now
          /\ AfterCheck(cmdBucket[c], CmdRate, CmdBurst) \in Buckets(CmdBurst)
          /\ AfterCheck(cmdBucket[c], CmdRate, CmdBurst).at = now
          /\ AfterCheck(createBucket[c], CreateRate, CreateBurst) \in Buckets(CreateBurst)
          /\ AfterCheck(createBucket[c], CreateRate, CreateBurst).at = now
      BY <2>2, CheckRange DEF TypeOK
    <2>4. /\ connected' = connected /\ entries' = entries /\ refcount' = refcount
          /\ now' = now /\ windowFrom' = windowFrom /\ passed' \in [Ips -> Nat]
      BY <1>5, <2>1 DEF Request, TypeOK
    <2>5. /\ ipBucket' \in [Ips -> Buckets(IpBurst)]
          /\ lastActive' \in [Ips -> 0 .. MaxTime]
          /\ \A i \in Ips : ipBucket'[i].at <= lastActive'[i] /\ lastActive'[i] <= now
      <3>1. CASE ip \in entries
        <4>1. /\ ipBucket' = [ipBucket EXCEPT ![ip] = AfterCheck(ipBucket[ip], IpRate, IpBurst)]
              /\ lastActive' = [lastActive EXCEPT ![ip] = now]
          BY <1>5, <3>1 DEF Request, CheckIp
        <4> HIDE DEF ip
        <4> QED BY <1>0, <2>1, <2>3, <4>1 DEF TypeOK
      <3>2. CASE ip \notin entries
        BY <1>5, <3>2 DEF Request, CheckIp, TypeOK
      <3> QED BY <3>1, <3>2
    <2>6. /\ cmdBucket' \in [Conns -> Buckets(CmdBurst)]
          /\ createBucket' \in [Conns -> Buckets(CreateBurst)]
          /\ \A d \in Conns : cmdBucket'[d].at <= now /\ createBucket'[d].at <= now
      <3>1. /\ \/ cmdBucket' = cmdBucket
               \/ cmdBucket' = [cmdBucket EXCEPT
                                  ![c] = AfterCheck(cmdBucket[c], CmdRate, CmdBurst)]
            /\ \/ createBucket' = createBucket
               \/ createBucket' = [createBucket EXCEPT
                                  ![c] = AfterCheck(createBucket[c], CreateRate, CreateBurst)]
        BY <1>5 DEF Request, CheckConn, connVars
      <3> QED BY <1>0, <2>3, <3>1 DEF TypeOK
    <2> QED BY <2>4, <2>5, <2>6 DEF TypeOK
  <1>6. CASE UNCHANGED vars
    BY <1>6 DEF vars, TypeOK
  <1> QED BY <1>1, <1>2, <1>3, <1>4, <1>5, <1>6 DEF Next

(* The limiter's state has its types: no bucket exceeds its burst or was   *)
(* filled in the future, and the time an entry was last used is not before *)
(* its bucket's last refill.                                               *)
THEOREM TypeCorrect == Spec => []TypeOK
  <1>1. Init => TypeOK
    BY BucketAssumption, NoBucketRange DEF Init, TypeOK, NoBucket
  <1> QED BY <1>1, TypeStep, PTL DEF Spec

(***************************************************************************)
(* Reference counts.                                                       *)
(***************************************************************************)

(* track, untrack and sweep_idle keep the count of connections. *)
LEMMA CountStep ==
    TypeOK /\ CountedWhileConnected /\ [Next]_vars => CountedWhileConnected'
  <1> SUFFICES ASSUME TypeOK, CountedWhileConnected, [Next]_vars
               PROVE  CountedWhileConnected'
    OBVIOUS
  <1> USE ConnAssumption
  <1>0. \A ip \in Ips : IsFiniteSet(ConnsOf(ip))
    BY FS_Subset DEF ConnsOf, TypeOK
  <1>1. ASSUME UNCHANGED <<connected, entries, refcount>>
        PROVE  CountedWhileConnected'
    BY <1>1 DEF CountedWhileConnected, ConnsOf
  <1>2. CASE SweepIdle
    <2>1. ASSUME NEW c \in connected PROVE IpOf[c] \notin Swept
      <3>1. c \in ConnsOf(IpOf[c]) /\ IpOf[c] \in Ips /\ IpOf[c] \in entries
        BY <2>1 DEF ConnsOf, TypeOK, CountedWhileConnected
      <3>2. Cardinality(ConnsOf(IpOf[c])) # 0
        BY <1>0, <3>1, FS_EmptySet
      <3> QED BY <3>1, <3>2 DEF CountedWhileConnected, Swept
    <2> QED BY <1>2, <2>1 DEF SweepIdle, CountedWhileConnected, ConnsOf, TypeOK
  <1>3. ASSUME NEW c \in Conns, Connect(c) PROVE CountedWhileConnected'
    <2>1. ASSUME NEW ip \in entries' PROVE refcount'[ip] = Cardinality(ConnsOf(ip)')
      <3>0. ip \in Ips
        BY <1>3, <2>1 DEF Connect, TypeOK
      <3>1. CASE ip = IpOf[c]
        <4>1. ConnsOf(ip)' = ConnsOf(ip) \union {c} /\ c \notin ConnsOf(ip)
          BY <1>3, <3>1 DEF Connect, ConnsOf
        <4>2. Cardinality(ConnsOf(ip)') = Cardinality(ConnsOf(ip)) + 1
          BY <1>0, <3>0, <4>1, FS_AddElement
        <4>3. CASE ip \in entries
          BY <1>3, <3>0, <3>1, <4>2, <4>3 DEF Connect, CountedWhileConnected, TypeOK
        <4>4. CASE ip \notin entries
          <5>1. ConnsOf(ip) = {}
            BY <4>4 DEF ConnsOf, CountedWhileConnected
          <5> QED BY <1>3, <3>0, <3>1, <4>2, <4>4, <5>1, FS_EmptySet
                  DEF Connect, TypeOK
        <4> QED BY <4>3, <4>4
      <3>2. CASE ip # IpOf[c]
        <4>1. ConnsOf(ip)' = ConnsOf(ip)
          BY <1>3, <3>2 DEF Connect, ConnsOf
        <4> QED BY <1>3, <2>1, <3>0, <3>2, <4>1
                DEF Connect, CountedWhileConnected, TypeOK
      <3> QED BY <3>1, <3>2
    <2>2. \A d \in connected' : IpOf[d] \in entries'
      BY <1>3 DEF Connect, CountedWhileConnected
    <2> QED BY <2>1, <2>2 DEF CountedWhileConnected
  <1>4. ASSUME NEW c \in Conns, Disconnect(c) PROVE CountedWhileConnected'
    <2>0. IpOf[c] \in entries /\ c \in connected
      BY <1>4 DEF Disconnect, CountedWhileConnected
    <2>1. ASSUME NEW ip \in entries' PROVE refcount'[ip] = Cardinality(ConnsOf(ip)')
      <3>0. ip \in Ips /\ ip \in entries
        BY <1>4, <2>1 DEF Disconnect, TypeOK
      <3>1. CASE ip = IpOf[c]
        <4>1. ConnsOf(ip)' = ConnsOf(ip) \ {c} /\ c \in ConnsOf(ip)
          BY <1>4, <3>1 DEF Disconnect, ConnsOf
        <4>2. /\ Cardinality(ConnsOf(ip)') = Cardinality(ConnsOf(ip)) - 1
              /\ Cardinality(ConnsOf(ip)) \in Nat /\ Cardinality(ConnsOf(ip)) # 0
          BY <1>0, <3>0, <4>1, FS_RemoveElement, FS_CardinalityType, FS_EmptySet
        <4>3. refcount[ip] = Cardinality(ConnsOf(ip))
          BY <3>0 DEF CountedWhileConnected
        <4>4. refcount'[ip] = Decremented(refcount[ip])
          BY <1>4, <2>0, <3>0, <3>1 DEF Disconnect, TypeOK
        <4> QED BY <4>2, <4>3, <4>4 DEF Decremented
      <3>2. CASE ip # IpOf[c]
        <4>1. ConnsOf(ip)' = ConnsOf(ip)
          BY <1>4, <3>2 DEF Disconnect, ConnsOf
        <4> QED BY <1>4, <2>0, <3>0, <3>2, <4>1
                DEF Disconnect, CountedWhileConnected, TypeOK
      <3> QED BY <3>1, <3>2
    <2>2. \A d \in connected' : IpOf[d] \in entries'
      BY <1>4 DEF Disconnect, CountedWhileConnected
    <2> QED BY <2>1, <2>2 DEF CountedWhileConnected
  <1>5. ASSUME NEW c \in Conns, NEW creates \in BOOLEAN, Request(c, creates)
        PROVE  CountedWhileConnected'
    BY <1>1, <1>5 DEF Request
  <1>6. CASE Tick
    BY <1>1, <1>6 DEF Tick, entryVars
  <1>7. CASE UNCHANGED vars
    BY <1>1, <1>7 DEF vars
  <1> QED BY <1>2, <1>3, <1>4, <1>5, <1>6, <1>7 DEF Next

(* Every connected client's IP has an entry, whose reference count is the  *)
(* number of its connections.                                              *)
THEOREM ConnectionsAreCounted == Spec => []CountedWhileConnected
  <1>1. Init => CountedWhileConnected
    BY DEF Init, CountedWhileConnected
  <1> QED BY <1>1, TypeCorrect, CountStep, PTL DEF Spec

(***************************************************************************)
(* The budget of an IP.                                                    *)
(***************************************************************************)

(* What an IP could still spend at this moment.  An IP without an entry    *)
(* gets a full bucket with its next connection.                            *)
Available(ip) ==
    IF ip \in entries THEN RefilledTokens(ipBucket[ip], IpRate, IpBurst)
    ELSE IpBurst

(* What was spent and what is available fit the window's allowance; before *)
(* the window opens nothing is counted.  This is what makes IpBudget       *)
(* inductive.                                                              *)
Solvent ==
    \A ip \in Ips :
        /\ now < windowFrom => passed[ip] = 0
        /\ now >= windowFrom =>
               Cost * passed[ip] + Available(ip)
                  <= IpBurst + IpRate * (now - windowFrom)

(* What is available is a number of tokens up to the burst. *)
LEMMA AvailableRange ==
    ASSUME TypeOK, NEW ip \in Ips
    PROVE  Available(ip) \in 0 .. IpBurst
  <1>1. ipBucket[ip] \in Buckets(IpBurst) /\ ipBucket[ip].at <= now /\ now \in Nat
    <2>1. ipBucket[ip].at \in Nat /\ lastActive[ip] \in Nat /\ now \in Nat
      BY BucketAssumption DEF TypeOK, Buckets
    <2> QED BY <2>1 DEF TypeOK
  <1> QED BY <1>1, RefillRange, BucketAssumption DEF Available

(* The same after a step. *)
LEMMA AvailableRangeNext ==
    TypeOK' => \A ip \in Ips : Available(ip)' \in 0 .. IpBurst
  <1>1. TypeOK => \A ip \in Ips : Available(ip) \in 0 .. IpBurst
    BY AvailableRange
  <1>2. TypeOK' => (\A ip \in Ips : Available(ip) \in 0 .. IpBurst)'
    BY <1>1, PTL
  <1> QED BY <1>2

(* An entry that may be swept has a full bucket: its refill predates its   *)
(* last use, which is a TTL ago.                                           *)
LEMMA SweptIsFull ==
    ASSUME TypeOK, NEW ip \in Swept
    PROVE  Available(ip) = IpBurst
  <1> DEFINE b == ipBucket[ip]
  <1>1. /\ ip \in entries /\ ip \in Ips
        /\ now - lastActive[ip] >= IdleTtl
    BY DEF Swept, TypeOK
  <1>2. /\ b.tokens \in Nat /\ b.at \in Nat /\ lastActive[ip] \in Nat
        /\ now \in Nat /\ IdleTtl \in Nat /\ IpRate \in Nat /\ IpBurst \in Nat
        /\ b.at <= lastActive[ip] /\ lastActive[ip] <= now
    BY <1>1, BucketAssumption DEF TypeOK, Buckets
  <1> HIDE DEF b
  <1>3. now - b.at \in Nat /\ IdleTtl <= now - b.at
    BY <1>1, <1>2
  <1>4. IpRate * IdleTtl <= IpRate * (now - b.at)
    BY <1>2, <1>3, ScaleOrder
  <1>5. IpRate * (now - b.at) \in Nat /\ IpRate * IdleTtl \in Nat
    BY <1>2, <1>3
  <1>6. IpBurst <= b.tokens + IpRate * (now - b.at)
    BY <1>2, <1>4, <1>5, TtlAssumption
  <1>7. RefilledTokens(b, IpRate, IpBurst) = IpBurst
    BY <1>2, <1>5, <1>6 DEF RefilledTokens
  <1> QED BY <1>1, <1>7 DEF Available, b

(* Spending of the IPs whose bucket, entry and count a step leaves alone,  *)
(* or whose availability it does not raise.                                *)
LEMMA SolventUnlessRaised ==
    ASSUME TypeOK, TypeOK', Solvent, now' = now, windowFrom' = windowFrom,
           \A ip \in Ips : passed'[ip] = passed[ip] /\ Available(ip)' <= Available(ip)
    PROVE  Solvent'
  <1> SUFFICES ASSUME NEW ip \in Ips, now >= windowFrom
               PROVE  Cost * passed[ip] + Available(ip)'
                         <= IpBurst + IpRate * (now - windowFrom)
    BY DEF Solvent
  <1>1. Available(ip) \in Nat /\ Available(ip)' \in Nat
    <2>1. Available(ip) \in 0 .. IpBurst
      BY AvailableRange
    <2>2. Available(ip)' \in 0 .. IpBurst
      BY AvailableRangeNext
    <2> QED BY <2>1, <2>2, BucketAssumption
  <1>2. Cost * passed[ip] \in Nat /\ IpRate * (now - windowFrom) \in Nat /\ IpBurst \in Nat
    <2>1. now - windowFrom \in Nat /\ passed[ip] \in Nat
      BY BucketAssumption DEF TypeOK
    <2> QED BY <2>1, BucketAssumption
  <1>3. Cost * passed[ip] + Available(ip) <= IpBurst + IpRate * (now - windowFrom)
    BY DEF Solvent
  <1>4. Available(ip)' <= Available(ip)
    OBVIOUS
  <1> QED BY <1>1, <1>2, <1>3, <1>4

(* A tick raises what is available by at most the rate. *)
LEMMA SolventTick == TypeOK /\ TypeOK' /\ Solvent /\ Tick => Solvent'
  <1> SUFFICES ASSUME TypeOK, TypeOK', Solvent, Tick, NEW ip \in Ips
               PROVE  /\ now' < windowFrom => passed[ip] = 0
                      /\ now' >= windowFrom =>
                            Cost * passed[ip] + Available(ip)'
                               <= IpBurst + IpRate * (now' - windowFrom)
    BY DEF Solvent, Tick
  <1>1. /\ now \in Nat /\ windowFrom \in Nat /\ now' = now + 1
        /\ IpRate \in Nat /\ IpBurst \in Nat /\ Cost \in Nat /\ passed[ip] \in Nat
    BY BucketAssumption DEF TypeOK, Tick
  <1>2. Cost * passed[ip] \in Nat
    BY <1>1
  <1>3. Available(ip) \in 0 .. IpBurst
    BY AvailableRange
  <1>4. Available(ip)' \in 0 .. IpBurst
    BY AvailableRangeNext
  <1>5. Available(ip)' <= Available(ip) + IpRate
    <2>1. CASE ip \notin entries
      BY <1>1, <1>3, <1>4, <2>1 DEF Available, Tick, entryVars
    <2>2. CASE ip \in entries
      <3> DEFINE b == ipBucket[ip]
                 gain == IpRate * (now - b.at)
      <3>1. b.tokens \in 0 .. IpBurst /\ b.at \in Nat /\ now - b.at \in Nat
        <4>1. /\ b.tokens \in 0 .. IpBurst /\ b.at \in Nat
              /\ lastActive[ip] \in Nat /\ b.at <= lastActive[ip]
              /\ lastActive[ip] <= now
          BY DEF TypeOK, Buckets
        <4> QED BY <1>1, <4>1
      <3>2. gain \in Nat /\ IpRate * ((now + 1) - b.at) = gain + IpRate
        <4> DEFINE span == now - b.at
        <4>1. span \in Nat /\ (now + 1) - b.at = span + 1
          BY <1>1, <3>1
        <4> HIDE DEF span
        <4>2. IpRate * span \in Nat /\ IpRate * (span + 1) = IpRate * span + IpRate
          BY <1>1, <4>1
        <4> QED BY <4>1, <4>2 DEF span
      <3>3. Available(ip) = IF b.tokens + gain <= IpBurst THEN b.tokens + gain ELSE IpBurst
        BY <2>2 DEF Available, RefilledTokens
      <3>4. Available(ip)' =
              IF b.tokens + IpRate * ((now + 1) - b.at) <= IpBurst
              THEN b.tokens + IpRate * ((now + 1) - b.at) ELSE IpBurst
        BY <2>2, <1>1 DEF Available, RefilledTokens, Tick, entryVars
      <3> HIDE DEF b, gain
      <3> QED BY <1>1, <3>1, <3>2, <3>3, <3>4
    <2> QED BY <2>1, <2>2
  <1>6. CASE now' < windowFrom
    <2>1. now < windowFrom
      BY <1>1, <1>6
    <2> QED BY <1>1, <1>6, <2>1 DEF Solvent
  <1>7. CASE now' >= windowFrom /\ now < windowFrom
    <2>1. now' - windowFrom = 0 /\ IpRate * 0 = 0
      BY <1>1, <1>7
    <2>2. passed[ip] = 0 /\ Cost * 0 = 0
      BY <1>1, <1>7 DEF Solvent
    <2> QED BY <1>1, <1>4, <1>7, <2>1, <2>2
  <1>8. CASE now >= windowFrom
    <2>1. Cost * passed[ip] + Available(ip) <= IpBurst + IpRate * (now - windowFrom)
      BY <1>8 DEF Solvent
    <2>2. /\ IpRate * (now' - windowFrom) = IpRate * (now - windowFrom) + IpRate
          /\ IpRate * (now - windowFrom) \in Nat
      BY <1>1, <1>8
    <2>3. Cost * passed[ip] + Available(ip)' <= IpBurst + IpRate * (now' - windowFrom)
      BY <1>1, <1>2, <1>3, <1>4, <1>5, <2>1, <2>2
    <2> QED BY <1>1, <1>8, <2>3
  <1> QED BY <1>1, <1>6, <1>7, <1>8

(* An admitted request spends what it was counted for. *)
LEMMA SolventRequest ==
    ASSUME TypeOK, TypeOK', CountedWhileConnected, Solvent,
           NEW c \in Conns, NEW creates \in BOOLEAN, Request(c, creates)
    PROVE  Solvent'
  <1> DEFINE ip == IpOf[c]
  <1>1. ip \in entries /\ ip \in Ips
    BY DEF Request, CountedWhileConnected, TypeOK
  <1>2. /\ now' = now /\ windowFrom' = windowFrom /\ entries' = entries
        /\ ipBucket' = [ipBucket EXCEPT ![ip] = AfterCheck(ipBucket[ip], IpRate, IpBurst)]
        /\ passed' = [passed EXCEPT
              ![ip] = IF IpAdmits(ip) /\ now >= windowFrom THEN passed[ip] + 1 ELSE passed[ip]]
    BY <1>1 DEF Request, CheckIp
  <1>3. \A i \in Ips : i # ip => passed'[i] = passed[i] /\ Available(i)' = Available(i)
    BY <1>1, <1>2 DEF Available, RefilledTokens, TypeOK
  <1>4. Available(ip) \in 0 .. IpBurst /\ IpBurst \in Nat /\ Cost \in Nat /\ IpRate \in Nat
    BY <1>1, AvailableRange, BucketAssumption
  <1>5. Available(ip) = RefilledTokens(ipBucket[ip], IpRate, IpBurst)
    BY <1>1 DEF Available
  <1>6. Available(ip)' = IF IpAdmits(ip) THEN Available(ip) - Cost ELSE Available(ip)
    <2> DEFINE left == IF IpAdmits(ip) THEN Available(ip) - Cost ELSE Available(ip)
    <2>0. IpAdmits(ip) <=> Available(ip) >= Cost
      BY <1>1, <1>5 DEF IpAdmits, Admits
    <2>1. left \in 0 .. IpBurst
      BY <1>4, <2>0
    <2>2. ipBucket'[ip] = [tokens |-> left, at |-> now]
      BY <1>1, <1>2, <1>5 DEF AfterCheck, IpAdmits, TypeOK
    <2>3. Available(ip)' = RefilledTokens(ipBucket[ip], IpRate, IpBurst)'
      BY <1>1, <1>2 DEF Available
    <2>4. IpRate * (now - now) = 0
      BY <1>4, BucketAssumption DEF TypeOK
    <2> HIDE DEF left
    <2>5. RefilledTokens(ipBucket[ip], IpRate, IpBurst)' = left
      BY <1>2, <1>4, <2>1, <2>2, <2>4 DEF RefilledTokens
    <2> QED BY <2>3, <2>5 DEF left
  <1> SUFFICES ASSUME NEW i \in Ips
               PROVE  /\ now < windowFrom => passed'[i] = 0
                      /\ now >= windowFrom =>
                            Cost * passed'[i] + Available(i)'
                               <= IpBurst + IpRate * (now - windowFrom)
    BY <1>2 DEF Solvent
  <1>7. CASE i # ip
    BY <1>3, <1>7 DEF Solvent
  <1>8. CASE i = ip
    <2>1. /\ now \in Nat /\ windowFrom \in Nat /\ passed[ip] \in Nat
      BY <1>1, BucketAssumption DEF TypeOK
    <2>2. CASE now < windowFrom
      BY <1>1, <1>2, <1>8, <2>1, <2>2 DEF Solvent, TypeOK
    <2>3. CASE now >= windowFrom
      <3>1. Cost * passed[ip] + Available(ip) <= IpBurst + IpRate * (now - windowFrom)
        BY <1>1, <2>3 DEF Solvent
      <3>2. /\ Cost * (passed[ip] + 1) = Cost * passed[ip] + Cost
            /\ Cost * passed[ip] \in Nat
            /\ IpRate * (now - windowFrom) \in Nat
        BY <1>4, <2>1, <2>3
      <3>3. passed'[ip] = IF IpAdmits(ip) THEN passed[ip] + 1 ELSE passed[ip]
        BY <1>1, <1>2, <2>3 DEF TypeOK
      <3>4. CASE IpAdmits(ip)
        BY <1>4, <1>6, <1>8, <2>1, <2>3, <3>1, <3>2, <3>3, <3>4
      <3>5. CASE ~IpAdmits(ip)
        BY <1>4, <1>6, <1>8, <2>1, <2>3, <3>1, <3>2, <3>3, <3>5
      <3> QED BY <3>4, <3>5
    <2> QED BY <2>1, <2>2, <2>3
  <1> QED BY <1>7, <1>8

(* Connections, disconnections and the sweep leave what is available as it *)
(* is: a swept bucket was full, and a new one is.                          *)
LEMMA SolventStep ==
    TypeOK /\ TypeOK' /\ CountedWhileConnected /\ Solvent /\ [Next]_vars => Solvent'
  <1> SUFFICES ASSUME TypeOK, TypeOK', CountedWhileConnected, Solvent, [Next]_vars
               PROVE  Solvent'
    OBVIOUS
  <1> USE ConnAssumption, BucketAssumption
  <1>0. \A i \in Ips : Available(i) \in 0 .. IpBurst
    BY AvailableRange
  <1>1. CASE Tick
    BY <1>1, SolventTick
  <1>2. CASE SweepIdle
    <2>1. \A i \in Ips : Available(i)' <= Available(i)
      <3> TAKE i \in Ips
      <3>1. CASE i \in Swept
        <4>1. Available(i) = IpBurst
          BY <3>1, SweptIsFull
        <4>2. Available(i)' = IpBurst
          BY <1>2, <3>1 DEF SweepIdle, Available
        <4> QED BY <4>1, <4>2
      <3>2. CASE i \notin Swept
        <4>1. Available(i)' = Available(i)
          BY <1>2, <3>2 DEF SweepIdle, Available, RefilledTokens
        <4> QED BY <1>0, <4>1
      <3> QED BY <3>1, <3>2
    <2>2. now' = now /\ windowFrom' = windowFrom /\ passed' = passed
      BY <1>2 DEF SweepIdle
    <2> QED BY <2>1, <2>2, SolventUnlessRaised
  <1>3. ASSUME NEW c \in Conns, Connect(c) PROVE Solvent'
    <2>1. \A i \in Ips : Available(i)' <= Available(i)
      <3> TAKE i \in Ips
      <3>1. CASE i = IpOf[c] /\ i \notin entries
        <4>1. Available(i) = IpBurst
          BY <3>1 DEF Available
        <4>2. Available(i)' \in 0 .. IpBurst
          BY AvailableRangeNext
        <4> QED BY <4>1, <4>2
      <3>2. CASE i # IpOf[c] \/ i \in entries
        <4>1. ipBucket'[i] = ipBucket[i] /\ (i \in entries' <=> i \in entries) /\ now' = now
          BY <1>3, <3>2 DEF Connect, TypeOK
        <4>2. Available(i)' = Available(i)
          BY <4>1 DEF Available, RefilledTokens
        <4> QED BY <1>0, <4>2
      <3> QED BY <3>1, <3>2
    <2>2. now' = now /\ windowFrom' = windowFrom /\ passed' = passed
      BY <1>3 DEF Connect
    <2> QED BY <2>1, <2>2, SolventUnlessRaised
  <1>4. ASSUME NEW c \in Conns, Disconnect(c) PROVE Solvent'
    <2>1. \A i \in Ips : Available(i)' = Available(i)
      BY <1>4 DEF Disconnect, Available, RefilledTokens
    <2>2. now' = now /\ windowFrom' = windowFrom /\ passed' = passed
      BY <1>4 DEF Disconnect
    <2>3. \A i \in Ips : Available(i)' <= Available(i)
      BY <1>0, <2>1
    <2> QED BY <2>2, <2>3, SolventUnlessRaised
  <1>5. ASSUME NEW c \in Conns, NEW creates \in BOOLEAN, Request(c, creates)
        PROVE  Solvent'
    BY <1>5, SolventRequest
  <1>6. CASE UNCHANGED vars
    BY <1>6 DEF vars, Solvent, Available, RefilledTokens
  <1> QED BY <1>1, <1>2, <1>3, <1>4, <1>5, <1>6 DEF Next

(* No IP gets more past its bucket in any window of time than the burst    *)
(* and the rate allow, whatever connections come and go and whenever the   *)
(* sweep runs: the TTL is long enough for the dropped bucket to be full.   *)
THEOREM BudgetIsKept == Spec => []IpBudget
  <1>1. Init => Solvent
    <2> SUFFICES ASSUME Init, NEW ip \in Ips
                 PROVE  /\ passed[ip] = 0
                        /\ now >= windowFrom =>
                              Cost * passed[ip] + Available(ip)
                                 <= IpBurst + IpRate * (now - windowFrom)
      BY DEF Solvent
    <2>1. passed[ip] = 0 /\ Available(ip) = IpBurst /\ now = 0 /\ windowFrom \in Nat
      BY BucketAssumption DEF Init, Available
    <2>2. Cost * 0 = 0 /\ IpRate * 0 = 0 /\ IpBurst \in Nat
      BY BucketAssumption
    <2>3. now >= windowFrom => now - windowFrom = 0
      BY <2>1
    <2> QED BY <2>1, <2>2, <2>3
  <1>2. TypeOK /\ Solvent => IpBudget
    <2> SUFFICES ASSUME TypeOK, Solvent, NEW ip \in Ips, passed[ip] > 0
                 PROVE  Cost * passed[ip] <= IpBurst + IpRate * (now - windowFrom)
      BY DEF IpBudget
    <2>1. now \in Nat /\ windowFrom \in Nat /\ passed[ip] \in Nat
      BY BucketAssumption DEF TypeOK
    <2>2. now >= windowFrom
      BY <2>1 DEF Solvent
    <2>3. Cost * passed[ip] + Available(ip) <= IpBurst + IpRate * (now - windowFrom)
      BY <2>2 DEF Solvent
    <2>4. Available(ip) \in 0 .. IpBurst /\ IpBurst \in Nat
      BY AvailableRange, BucketAssumption
    <2>5. Cost * passed[ip] \in Nat /\ IpRate * (now - windowFrom) \in Nat
      BY <2>1, <2>2, BucketAssumption
    <2> QED BY <2>3, <2>4, <2>5
  <1> QED BY <1>1, <1>2, TypeCorrect, ConnectionsAreCounted, SolventStep, PTL DEF Spec
=============================================================================
